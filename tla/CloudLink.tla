------------------------------ MODULE CloudLink ------------------------------
(***************************************************************************)
(* processors/ws.rs: the link to the oven through Anova's cloud, with      *)
(* liveness.rs, which it keeps.  One task that gets a token, connects,     *)
(* and serves the connection until it breaks, ends or falls silent.        *)
(*                                                                         *)
(* Time is counted in heartbeats: an idle oven reports once in each.  What *)
(* takes seconds (messages, the pause before a reconnect) takes no time.   *)
(***************************************************************************)
EXTENDS Messages

CONSTANTS
    StateTimeout,   \* state_timeout
    TokenTtl,       \* FIREBASE_TOKEN_TTL
    TokenLife,      \* how long Anova's gateway takes a token
    MaxDown,        \* bound: where the outage's length stops
    MaxWire         \* bound: frames under way

ASSUME CloudLinkAssumption ==
    /\ {StateTimeout, TokenTtl, TokenLife, MaxDown, MaxWire} \subseteq Nat \ {0}
    /\ TokenTtl < TokenLife
    /\ MaxWire >= 2    \* what the cloud sends first

VARIABLES
    ws,         \* the task: where it is, the token's age, what it knows of the
                \* connection (cooker_id, last_state_frame) and last_updated
    live,       \* Liveness
    socket,     \* the connection; "half" is half-open, and delivers nothing
    wire        \* the frames on it (external)

linkVars == <<ws, live, socket, wire>>

\* Timestamps of reports: they are compared for equality only, so that there
\* are enough of them to tell the frames under way from the last one seen.
Stamps == 0..(MaxWire + 2)

\* Ages of a report, as far as anything tells them apart.
Ages == 0..(StateTimeout + 1)

\* EVENT_APO_STATE with systemInfo.online and the age of updatedTimestamp,
\* EVENT_APO_WIFI_LIST, RESPONSE.
Frame ==
    [kind: {"state"}, status: Status, cook: CookOrNone, stamp: Stamps,
     age: Ages, online: BOOLEAN]
        \cup [kind: {"wifi"}] \cup AckEvent

LinkTypeOK ==
    /\ ws \in [phase: {"token", "dial", "up"}, token: 0..TokenLife, known: BOOLEAN,
               quiet: 0..StateTimeout, last: Stamps \cup {None}]
    /\ live \in [connected: BOOLEAN, online: BOOLEAN, down: 0..MaxDown]
    /\ socket \in {"none", "open", "half"}
    /\ live.connected <=> ws.phase = "up"
    /\ socket # "none" <=> ws.phase = "up"
    /\ wire \in Seq(Frame) /\ Len(wire) <= MaxWire

LinkInit ==
    /\ ws = [phase |-> "token", token |-> TokenLife, known |-> FALSE, quiet |-> 0, last |-> None]
    /\ live = [connected |-> FALSE, online |-> TRUE, down |-> 0]
    /\ socket = "none" /\ wire = <<>>

-----------------------------------------------------------------------------
(* Liveness.                                                               *)

Reachable(l) == l.connected /\ l.online

\* Mutant of Tracked: each transition to unreachable starts the timer anew.
TrackedAnew(l, connected, online) == [connected |-> connected, online |-> online, down |-> 0]

\* set_connected, set_oven_online: `down` counts while unreachable.
Tracked(l, connected, online) ==
    LET was == Reachable(l)
    IN [connected |-> connected, online |-> online,
        down |-> IF was \/ (connected /\ online) THEN 0 ELSE l.down]

-----------------------------------------------------------------------------

Tell(evt) == wsEvt' = Append(wsEvt, evt)

TokenIsStale == ws.token >= TokenTtl

\* WsTokenSource::token.  A refresh that fails is tried again in 5 s.
GetsToken ==
    /\ ws.phase = "token"
    /\ ws' = [ws EXCEPT !.phase = "dial", !.token = IF TokenIsStale THEN 0 ELSE @]
    /\ UNCHANGED <<live, socket, wire, wsCmd, wsEvt>>

\* What the cloud sends first: which cookers there are, and its snapshot.
Connects(greeting) ==
    /\ ws.phase = "dial" /\ ws.token < TokenLife
    /\ ws' = [ws EXCEPT !.phase = "up", !.known = FALSE, !.quiet = 0]
    /\ live' = Tracked(live, TRUE, live.online)
    /\ socket' = "open" /\ wire' = greeting
    /\ Tell(Link("connected"))
    /\ UNCHANGED wsCmd

\* Mutant of Ended: what was last seen goes with the connection.
EndedForgetful(w) == [w EXCEPT !.phase = "token", !.known = FALSE, !.quiet = 0, !.last = None]
Ended(w) == [w EXCEPT !.phase = "token", !.known = FALSE, !.quiet = 0]

\* Mutant of Dropped: only the oven's side is recorded.
DroppedHalf(online) == Tracked(live, live.connected, online)
Dropped(online) == Tracked(Tracked(live, live.connected, online), FALSE, online)

\* The end of connect_and_run, for whatever reason, and 5 s of sleep.
Ends(online) ==
    /\ ws' = Ended(ws)
    /\ live' = Dropped(online)
    /\ socket' = "none" /\ wire' = <<>>
    /\ Tell(Link("disconnected"))
    /\ UNCHANGED wsCmd

ConnectFails == ws.phase = "dial" /\ Ends(live.online)
ConnectionEnds == ws.phase = "up" /\ Ends(live.online)

\* Mutant of TimesOut: it only warns.
TimesOutWarns ==
    /\ ws.phase = "up" /\ ws.quiet >= StateTimeout
    /\ ws' = [ws EXCEPT !.quiet = 0]
    /\ live' = Tracked(live, live.connected, FALSE)
    /\ UNCHANGED <<socket, wire, wsCmd, wsEvt>>

\* The deadline since the last fresh state frame.
TimesOut == ws.phase = "up" /\ ws.quiet >= StateTimeout /\ Ends(FALSE)

\* classify_state.
Freshness(frame) ==
    CASE ~frame.online              -> "Offline"
      [] frame.online /\ frame.stamp = ws.last -> "Replay"
      [] OTHER -> IF frame.age > StateTimeout THEN "Offline" ELSE "Fresh"

TakesState(frame) ==
    /\ ws' = [ws EXCEPT !.last = frame.stamp,
                        !.quiet = IF Freshness(frame) = "Fresh" THEN 0 ELSE @]
    /\ live' = CASE Freshness(frame) = "Fresh"   -> Tracked(live, live.connected, TRUE)
                 [] Freshness(frame) = "Offline" -> Tracked(live, live.connected, FALSE)
                 [] Freshness(frame) = "Replay"  -> live
    /\ Tell(ApoState(frame.status, frame.cook))

TakesFrame ==
    /\ socket = "open" /\ wire # <<>>
    /\ LET frame == Head(wire)
       IN CASE frame.kind = "state" -> TakesState(frame)
            [] frame.kind = "wifi"  -> /\ ws' = [ws EXCEPT !.known = TRUE]
                                       /\ Tell(Link("discovered"))
                                       /\ UNCHANGED live
            [] frame.kind = "ack"   -> Tell(frame) /\ UNCHANGED <<ws, live>>
    /\ wire' = Tail(wire)
    /\ UNCHANGED <<socket, wsCmd>>

\* Mutant of PingHeard: any frame puts off the deadline.
PingHeardToo == 0

\* A ping proves that the socket is alive, and nothing of the oven.
PingHeard == ws.quiet

TakesPing ==
    /\ socket = "open"
    /\ ws' = [ws EXCEPT !.quiet = PingHeard]
    /\ UNCHANGED <<live, socket, wire, wsCmd, wsEvt>>

\* SendStart, SendStop: dropped without an answer when the connection has not
\* told the cooker's id.
TakesCommand ==
    /\ ws.phase = "up" /\ wsCmd # <<>>
    /\ wsCmd' = Tail(wsCmd)
    /\ UNCHANGED <<ws, live, socket, wsEvt>>
=============================================================================
