------------------------------- MODULE Device -------------------------------
(***************************************************************************)
(* processors/device.rs: the server's end of the oven's connection in      *)
(* local mode.  One session at a time; a command goes to the oven and then *)
(* waits in `pending` until the oven lists its id as handled or its        *)
(* deadline passes.  `pending` outlives the session.                       *)
(*                                                                         *)
(* The loop's select! picks any ready arm, so every arm is an action.  An  *)
(* arm that sends several events in a row does so in one step, except the  *)
(* acks after a report, which have a step each; so do deadlines that pass  *)
(* together, which the code takes in one arm.                              *)
(***************************************************************************)
EXTENDS Oven

CONSTANT MaxWsEvt   \* bound of the model: no report or reconnect beyond it

VARIABLES
    session,    \* `current` is a live session
    pending,    \* ids sent and not acked, oldest first: the first to expire
    acking      \* ids of the report being handled that are still to be acked

deviceVars == <<session, pending, acking>>

DeviceTypeOK ==
    /\ session \in BOOLEAN
    /\ pending \in Seq(Ids)
    /\ acking \subseteq Ids

DeviceInit ==
    /\ session = FALSE
    /\ pending = <<>>
    /\ acking = {}

PendingIds == Range(pending)
Idle == acking = {}
Room == Len(wsEvt) < MaxWsEvt

Greeting == <<Link("connected"), Link("discovered")>>
Farewell == <<Link("disconnected")>>

\* Mutant of OvenConnects: a connection starts with nothing pending.
ConnectsAfresh ==
    /\ Idle /\ Room
    /\ session' = TRUE
    /\ wsEvt' = wsEvt \o (IF session THEN Farewell ELSE <<>>) \o Greeting
    /\ inbox' = <<>> /\ pending' = <<>>
    /\ UNCHANGED <<wsCmd, acking, oven, begun, processed>>

\* A new connection replaces the one there is.  The report rate goes out
\* first; if that send fails, the new session ends as well.
OvenConnects ==
    /\ Idle /\ Room
    /\ \E rateSent \in BOOLEAN :
         /\ session' = rateSent
         /\ wsEvt' = wsEvt \o ((IF session THEN Farewell ELSE <<>>) \o Greeting
                            \o (IF rateSent THEN <<>> ELSE Farewell))
    /\ inbox' = <<>>
    /\ UNCHANGED <<wsCmd, pending, acking, oven, begun, processed>>

\* The socket errors or closes, a healthcheck cannot be sent, or no state
\* came within the watchdog's timeout.
SessionEnds ==
    /\ Idle /\ session
    /\ session' = FALSE
    /\ wsEvt' = wsEvt \o Farewell
    /\ inbox' = <<>>
    /\ UNCHANGED <<wsCmd, pending, acking, oven, begun, processed>>

\* Mutant of OvenReports: any report acks all that is pending.
ReportsAckAll ==
    /\ Idle /\ session /\ Room
    /\ \E status \in Reports : wsEvt' = Append(wsEvt, ApoState(status, oven.cook))
    /\ acking' = PendingIds
    /\ processed' = {}
    /\ UNCHANGED <<wsCmd, session, pending, oven, begun, inbox>>

\* A state frame: first the state, then an ack for each id it lists.
OvenReports ==
    /\ Idle /\ session /\ Room
    /\ \E status \in Reports : wsEvt' = Append(wsEvt, ApoState(status, oven.cook))
    /\ acking' = PendingIds \cap processed
    /\ processed' = {}
    /\ UNCHANGED <<wsCmd, session, pending, oven, begun, inbox>>

AckHandled ==
    /\ \E i \in DOMAIN pending :
         /\ pending[i] \in acking
         /\ \A j \in 1..(i - 1) : pending[j] \notin acking
         /\ wsEvt' = Append(wsEvt, Ack(pending[i], TRUE))
         /\ acking' = acking \ {pending[i]}
         /\ pending' = RemoveAt(pending, i)
    /\ UNCHANGED <<wsCmd, session, ovenVars>>

\* The oldest deadline passes.
AckTimeout ==
    /\ Idle /\ pending # <<>>
    /\ wsEvt' = Append(wsEvt, Ack(Head(pending), FALSE))
    /\ pending' = Tail(pending)
    /\ UNCHANGED <<wsCmd, session, acking, ovenVars>>

\* Mutant of NoOven: a command with no oven to send it to is dropped.
NoOvenNoAck ==
    /\ ~session
    /\ UNCHANGED <<wsEvt, session, pending, inbox>>

NoOven ==
    /\ ~session
    /\ wsEvt' = Append(wsEvt, Ack(Head(wsCmd).id, FALSE))
    /\ UNCHANGED <<session, pending, inbox>>

Sent ==
    /\ session
    /\ pending' = Append(pending, Head(wsCmd).id)
    /\ inbox' = Append(inbox, Head(wsCmd))
    /\ UNCHANGED <<wsEvt, session>>

\* Mutant of SendFailed: the command is pending as well as answered.
SendFailedPending ==
    /\ session
    /\ session' = FALSE
    /\ wsEvt' = Append(wsEvt, Ack(Head(wsCmd).id, FALSE)) \o Farewell
    /\ inbox' = <<>>
    /\ pending' = Append(pending, Head(wsCmd).id)

\* The command is answered at once and never becomes pending.
SendFailed ==
    /\ session
    /\ session' = FALSE
    /\ wsEvt' = Append(wsEvt, Ack(Head(wsCmd).id, FALSE)) \o Farewell
    /\ inbox' = <<>>
    /\ UNCHANGED pending

DeviceTakesCommand ==
    /\ Idle /\ wsCmd # <<>>
    /\ wsCmd' = Tail(wsCmd)
    /\ NoOven \/ Sent \/ SendFailed
    /\ UNCHANGED <<acking, oven, begun, processed>>

\* Where a request is between the channel and the ack the device sends.
CommandIds(cmds) == {cmds[i].id : i \in DOMAIN cmds}
AckIds(evts) == {evts[i].id : i \in {j \in DOMAIN evts : evts[j].kind = "ack"}}
InCommands == CommandIds(wsCmd)
InAcks == AckIds(wsEvt)
InInbox == CommandIds(inbox)

DeviceStep ==
    OvenConnects \/ SessionEnds \/ OvenReports \/ AckHandled \/ AckTimeout
        \/ DeviceTakesCommand
=============================================================================
