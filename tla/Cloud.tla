-------------------------------- MODULE Cloud --------------------------------
(***************************************************************************)
(* The server in cloud mode: the state machine and the link through        *)
(* Anova's cloud, with the cloud and the oven behind it.  The store        *)
(* (processors/firestore.rs) is one that fails every command, which        *)
(* changes nothing in the state machine.                                   *)
(***************************************************************************)
EXTENDS StateMachine, CloudLink

CONSTANTS
    MaxEvents,      \* bound: events under way to the state machine
    MaxTroubles     \* bound: connections refused, lost or half-open, and losses of the oven

ASSUME CloudAssumption == ~Local /\ {MaxEvents, MaxTroubles} \subseteq Nat

VARIABLES
    oven,       \* the oven (external): its cook, whether it reaches the cloud, and
                \* whether it has reported what it does
    snapshot,   \* the cloud's cache of its last report (external)
    used,       \* the cooks and requests begun
    troubles,   \* how many troubles there were
    past        \* history: for how long the connection is up, whether the cloud
                \* has news, whether the state machine is on this connection, and
                \* what it asked for on it

cloudVars == <<oven, snapshot>>
vars == <<channels, smVars, linkVars, cloudVars, used, troubles, past>>

StatusOf(cook) ==
    [stage |-> IF cook = None THEN 0 ELSE 1, ended |-> FALSE, lamp |-> FALSE, near |-> FALSE]

TypeOK ==
    /\ ChannelsTypeOK /\ SmTypeOK /\ LinkTypeOK
    /\ oven \in [cook: CookOrNone, linked: BOOLEAN, reported: BOOLEAN]
    /\ snapshot \in Frame
    /\ used \subseteq Ids /\ troubles \in 0..MaxTroubles
    /\ past \in [up: 0..(StateTimeout + 1), news: BOOLEAN, here: BOOLEAN, asked: SUBSET Ids]

Init ==
    /\ wsCmd = <<>> /\ wsEvt = <<>> /\ storeCmd = <<>> /\ storeEvt = <<>>
    /\ SmInit /\ LinkInit
    /\ oven = [cook |-> None, linked |-> TRUE, reported |-> TRUE]
    /\ snapshot = [kind |-> "state", status |-> StatusOf(None), cook |-> None, stamp |-> 0,
                   age |-> 0, online |-> TRUE]
    /\ used = {} /\ troubles = 0
    /\ past = [up |-> 0, news |-> TRUE, here |-> FALSE, asked |-> {}]

Trouble == troubles < MaxTroubles /\ troubles' = troubles + 1
Up(a, b) == IF a < b THEN a + 1 ELSE b

-----------------------------------------------------------------------------
(* The cloud and the oven (external).                                      *)

\* What the cloud has to say goes out on an open connection.
Relays(frame) ==
    IF socket = "open" THEN Len(wire) < MaxWire /\ wire' = Append(wire, frame)
    ELSE UNCHANGED wire

StampsInUse ==
    {ws.last, snapshot.stamp} \cup {f.stamp : f \in {g \in Range(wire) : g.kind = "state"}}

\* A report: on a change, and once in a heartbeat.
OvenReports ==
    /\ oven.linked /\ ~oven.reported
    /\ oven' = [oven EXCEPT !.reported = TRUE]
    /\ snapshot' = [kind |-> "state", status |-> StatusOf(oven.cook), cook |-> oven.cook,
                    stamp |-> CHOOSE s \in Stamps : s \notin StampsInUse,
                    age |-> 0, online |-> TRUE]
    /\ Relays(snapshot')
    /\ past' = [past EXCEPT !.news = TRUE]
    /\ UNCHANGED <<channels, smVars, ws, live, socket, used, troubles>>

\* By its own buttons, or its timer.
OvenChanges ==
    /\ \/ oven.cook = None /\ \E cook \in Cooks \ used :
            /\ oven' = [oven EXCEPT !.cook = cook, !.reported = FALSE]
            /\ used' = used \cup {cook}
       \/ /\ oven.cook # None
          /\ oven' = [oven EXCEPT !.cook = None, !.reported = FALSE]
          /\ UNCHANGED used
    /\ UNCHANGED <<channels, smVars, linkVars, snapshot, troubles, past>>

OvenLost ==
    /\ Trouble
    /\ oven.linked /\ oven' = [oven EXCEPT !.linked = FALSE]
    /\ UNCHANGED <<channels, smVars, linkVars, snapshot, used, past>>

\* The cloud may notice, and says so of the snapshot it has.
CloudNotices ==
    /\ ~oven.linked /\ snapshot.online
    /\ snapshot' = [snapshot EXCEPT !.online = FALSE]
    /\ Relays(snapshot')
    /\ UNCHANGED <<channels, smVars, ws, live, socket, oven, used, troubles, past>>

OvenBack ==
    /\ ~oven.linked /\ oven' = [oven EXCEPT !.linked = TRUE, !.reported = FALSE]
    /\ UNCHANGED <<channels, smVars, linkVars, snapshot, used, troubles, past>>

\* A command that was sent.  A half-open connection and an oven that is away
\* swallow it.
Arrives(cmd) ==
    IF socket = "open" /\ oven.linked
      THEN \E ok \in BOOLEAN :
             /\ Relays(Ack(cmd.id, ok))
             /\ oven' = IF ~ok THEN oven
                        ELSE [oven EXCEPT !.cook = IF cmd.kind = "start" THEN cmd.id ELSE None,
                                          !.reported = FALSE]
      ELSE UNCHANGED <<wire, oven>>

-----------------------------------------------------------------------------
(* The link.                                                               *)

Room == Len(wsEvt) < MaxEvents
Rest == <<smVars, storeCmd, storeEvt, cloudVars, used>>

LinkGetsToken == GetsToken /\ UNCHANGED <<Rest, troubles, past>>

LinkConnects ==
    /\ Room
    /\ \E greeting \in {<<[kind |-> "wifi"], snapshot>>, <<snapshot, [kind |-> "wifi"]>>} :
         Connects(greeting)
    /\ past' = [past EXCEPT !.up = 0]
    /\ UNCHANGED <<Rest, troubles>>

Breaks ==
    /\ past' = [past EXCEPT !.up = 0, !.here = FALSE, !.asked = {}]
    /\ UNCHANGED Rest

LinkTimesOut == Room /\ TimesOut /\ Breaks /\ UNCHANGED troubles
LinkFails == Room /\ (ConnectFails \/ ConnectionEnds) /\ Breaks /\ Trouble

HalfOpens ==
    /\ socket = "open" /\ socket' = "half" /\ wire' = <<>>
    /\ Trouble
    /\ UNCHANGED <<Rest, ws, live, wsCmd, wsEvt, past>>

LinkTakesFrame ==
    /\ Room /\ TakesFrame
    /\ past' = IF Head(wire).kind # "state" THEN past
               ELSE [past EXCEPT !.news = Head(wire).stamp # snapshot.stamp]
    /\ UNCHANGED <<Rest, troubles>>

LinkTakesPing == TakesPing /\ UNCHANGED <<Rest, troubles, past>>

LinkTakesCommand ==
    /\ TakesCommand
    /\ IF ws.known THEN Arrives(Head(wsCmd)) ELSE UNCHANGED <<wire, oven>>
    /\ past' = [past EXCEPT !.asked = @ \ {Head(wsCmd).id}]
    /\ UNCHANGED <<smVars, storeCmd, storeEvt, snapshot, used, troubles>>

-----------------------------------------------------------------------------
(* The state machine and its clients.                                      *)

Others == <<linkVars, cloudVars, troubles>>
Asks(id) ==
    /\ id \notin used /\ used' = used \cup {id}
    /\ past' = IF past.here THEN [past EXCEPT !.asked = @ \cup {id}] ELSE past

ClientStarts == \E cook \in Cooks : StartCook(cook, FALSE) /\ Asks(cook) /\ UNCHANGED Others
ClientStops == \E id \in Requests : StopCook(id, id) /\ Asks(id) /\ UNCHANGED Others

SmTakesState == TakeApoState(None, None, None) /\ UNCHANGED <<Others, used, past>>
SmTakesAck == TakeAck /\ UNCHANGED <<Others, used, past>>
SmTakesLink ==
    /\ TakeLink
    /\ past' = [past EXCEPT !.here = Head(wsEvt).kind # "disconnected" /\ ws.phase = "up"
                                       /\ Link("disconnected") \notin Range(Tail(wsEvt))]
    /\ UNCHANGED <<Others, used>>

\* The store takes its commands at once.
StoreFails ==
    /\ storeCmd # <<>> /\ storeCmd' = <<>>
    /\ UNCHANGED <<wsCmd, wsEvt, storeEvt, smVars, Others, used, past>>

-----------------------------------------------------------------------------

\* A heartbeat's time passes, in which everything that takes seconds is done;
\* to get a token may take longer.
Quiet ==
    /\ wire = <<>> /\ wsEvt = <<>> /\ storeCmd = <<>>
    /\ oven.linked => oven.reported
    /\ \/ ws.phase = "token"
       \/ ws.phase = "up" /\ wsCmd = <<>> /\ ws.quiet < StateTimeout

TimePasses ==
    /\ Quiet
    /\ oven' = [oven EXCEPT !.reported = FALSE]
    /\ snapshot' = [snapshot EXCEPT !.age = Up(@, StateTimeout + 1)]
    /\ ws' = [ws EXCEPT !.token = Up(@, TokenLife),
                        !.quiet = IF ws.phase = "up" THEN @ + 1 ELSE @]
    /\ live' = [live EXCEPT !.down = IF Reachable(live) THEN @ ELSE Up(@, MaxDown)]
    /\ past' = [past EXCEPT !.up = IF ws.phase = "up" THEN Up(@, StateTimeout + 1) ELSE @]
    /\ UNCHANGED <<channels, smVars, socket, wire, used, troubles>>

Works ==
    \/ StoreFails
    \/ storeCmd = <<>> /\ (\/ LinkConnects \/ LinkTimesOut \/ LinkTakesFrame \/ LinkTakesCommand
                           \/ SmTakesState \/ SmTakesAck \/ SmTakesLink
                           \/ OvenReports \/ TimePasses)

Next ==
    \/ Works
    \/ storeCmd = <<>> /\ (\/ LinkGetsToken \/ LinkFails \/ HalfOpens \/ LinkTakesPing
                           \/ ClientStarts \/ ClientStops
                           \/ OvenChanges \/ OvenLost \/ CloudNotices \/ OvenBack)

Spec == Init /\ [][Next]_vars

\* The tasks run and time passes; tokens are had again, and the oven comes back
\* to the cloud, in the end.
FairSpec == Spec /\ WF_vars(Works) /\ WF_vars(LinkGetsToken) /\ WF_vars(OvenBack)

-----------------------------------------------------------------------------

(***************************************************************************)
(* A connection does not hide an oven that is silent: once it is up for   *)
(* longer than the state timeout, the oven counts as reachable only if it  *)
(* reported to the cloud within that time, though pings, replays and the   *)
(* cloud's cache keep coming.                                              *)
(***************************************************************************)
SilenceShows ==
    Reachable(live) /\ past.up > StateTimeout => snapshot.age <= StateTimeout

(***************************************************************************)
(* Once the oven counts as offline, only a report that was not seen before *)
(* makes it reachable again, over reconnects ("the replay the next         *)
(* connection gets must not hide that").                                   *)
(***************************************************************************)
OnlyNewsRevives == [][~live.online /\ live.online' => past.news]_vars

(***************************************************************************)
(* The reported length of an outage is that of the whole of it, not of the *)
(* last retry, whichever of the socket and the oven fails and comes back   *)
(* meanwhile (Liveness::track_transition).                                 *)
(***************************************************************************)
OutageGrows == [][~Reachable(live) /\ ~Reachable(live)' => live'.down >= live.down]_vars

(***************************************************************************)
(* A start or stop that the state machine accepts on a connection is sent  *)
(* while that connection lasts: it is never dropped for want of the        *)
(* cooker's id, which each connection learns anew (ws.rs: "requested       *)
(* before cooker id known").                                               *)
(***************************************************************************)
AcceptedIsSent ==
    ws.phase = "up" /\ wsCmd # <<>> /\ Head(wsCmd).id \in past.asked => ws.known

(***************************************************************************)
(* The server's view follows the oven in the end, through half-open        *)
(* connections, expired tokens and losses of either side.                  *)
(***************************************************************************)
CatchesUp ==
    <>[](sm.connectivity = "discovered" /\ Reachable(live) /\ sm.status = StatusOf(oven.cook))
=============================================================================
