------------------------------ MODULE OvenLink ------------------------------
(***************************************************************************)
(* The device processor and the oven, driven by a client that issues       *)
(* commands and takes events the way the state machine does.  Request ids  *)
(* are UUIDs: the client never uses one twice.                             *)
(***************************************************************************)
EXTENDS Device

VARIABLES
    outcome,    \* per id, what the client knows of the command
    handled     \* per id, how often the oven handled the command

clientVars == <<outcome, handled>>
vars == <<channels, ovenVars, deviceVars, clientVars>>

Promise == INSTANCE CommandLink WITH Ids <- Ids, outcome <- outcome, handled <- handled

ClientTypeOK ==
    /\ outcome \in [Ids -> Promise!Outcomes]
    /\ handled \in [Ids -> Nat]

TypeOK == ChannelsTypeOK /\ OvenTypeOK /\ DeviceTypeOK /\ ClientTypeOK

Init ==
    /\ wsCmd = <<>> /\ wsEvt = <<>> /\ storeCmd = <<>> /\ storeEvt = <<>>
    /\ OvenInit /\ DeviceInit
    /\ outcome = [id \in Ids |-> "unissued"]
    /\ handled = [id \in Ids |-> 0]

\* A start's id is the cook id drawn with it; the panel may draw one too.
Issue ==
    /\ \E cmd \in WsCommand :
         /\ cmd.id \notin begun
         /\ outcome[cmd.id] = "unissued"
         /\ wsCmd' = Append(wsCmd, cmd)
         /\ begun' = IF cmd.id \in Cooks THEN begun \cup {cmd.id} ELSE begun
         /\ outcome' = [outcome EXCEPT ![cmd.id] = "waiting"]
    /\ UNCHANGED <<wsEvt, oven, inbox, processed, deviceVars, handled>>

TakeEvent ==
    /\ wsEvt # <<>>
    /\ wsEvt' = Tail(wsEvt)
    /\ outcome' =
         IF Head(wsEvt).kind = "ack"
           THEN [outcome EXCEPT ![Head(wsEvt).id] =
                   IF Head(wsEvt).ok THEN "ok" ELSE "failed"]
           ELSE outcome
    /\ UNCHANGED <<wsCmd, ovenVars, deviceVars, handled>>

LinkStep == DeviceStep /\ UNCHANGED clientVars

OvenActs ==
    /\ \/ OvenHandles /\ handled' = [handled EXCEPT ![Head(inbox).id] = @ + 1]
       \/ OvenOnItsOwn /\ UNCHANGED handled
    /\ UNCHANGED <<wsCmd, wsEvt, deviceVars, outcome>>

Next ==
    /\ Issue \/ TakeEvent \/ LinkStep \/ OvenActs
    /\ UNCHANGED <<storeCmd, storeEvt>>

Spec == Init /\ [][Next]_vars

-----------------------------------------------------------------------------
\* The device processor's fairness: its loop waits on every arm that can be
\* ready, so a queued command is taken, an ack is sent on, a deadline fires.
\* The client keeps taking events.  Nothing is asked of the oven.
Fairness ==
    /\ WF_vars(DeviceTakesCommand /\ UNCHANGED <<clientVars, storeCmd, storeEvt>>)
    /\ WF_vars(AckHandled /\ UNCHANGED <<clientVars, storeCmd, storeEvt>>)
    /\ WF_vars(AckTimeout /\ UNCHANGED <<clientVars, storeCmd, storeEvt>>)
    /\ WF_vars(TakeEvent /\ UNCHANGED <<storeCmd, storeEvt>>)

FairSpec == Spec /\ Fairness

(***************************************************************************)
(* The device keeps the promise of CommandLink: at most one delivery,      *)
(* exactly one answer, "ok" only for a command the oven handled, over      *)
(* reconnects, failed sends and deadlines that race a late report.         *)
(***************************************************************************)
KeepsPromise == Promise!Spec

(***************************************************************************)
(* A request is in one place at a time: waiting in the channel, pending in *)
(* the device, or answered by one ack on its way to the client; and it is  *)
(* in one of them exactly while the client waits.  (device.rs answers a    *)
(* command in five places: no session, failed send, handled, timed out,    *)
(* and not at all while it is pending across a reconnect.)                 *)
(***************************************************************************)
OnePlace ==
    /\ InCommands \cap PendingIds = {}
    /\ InCommands \cap InAcks = {}
    /\ PendingIds \cap InAcks = {}
    /\ \A id \in Ids :
         outcome[id] = "waiting" <=> id \in InCommands \cup PendingIds \cup InAcks

(***************************************************************************)
(* Every command is answered in the end, whatever the oven and the         *)
(* connection do: the pending list survives a reconnect and every entry    *)
(* of it has a deadline.                                                   *)
(***************************************************************************)
EveryCommandAnswered ==
    \A id \in Ids : outcome[id] = "waiting" ~> outcome[id] \in {"ok", "failed"}
=============================================================================
