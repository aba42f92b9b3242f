---------------------------- MODULE LocalServer ----------------------------
(***************************************************************************)
(* The server in local mode: main.rs's state machine, device processor and *)
(* local store, joined by their channels, with clients that start and stop *)
(* cooks, the oven, and the crashes that restart the whole process.        *)
(***************************************************************************)
EXTENDS StateMachine, Device, LocalStore

CONSTANTS
    TurnOffChoices,     \* whether a start may, or may not, ask to turn off
    ClientRequests,     \* what clients ask for, besides starts
    MaxWsCmd,           \* bound: no client command beyond it
    MaxStore,           \* bound: no report or tick beyond this much store work
    Budgets             \* bounds: what a behaviour may have, per kind: requests by
                        \* clients besides starts, connections of the oven per life
                        \* of the server, surprises (what the panel does, commands
                        \* the oven drops), crashes, failed file operations; and
                        \* whether (0 or not) the state machine's timers tick

Kinds == {"acts", "connects", "ticks", "surprises", "crashes", "failures"}

ASSUME LocalServerAssumption ==
    /\ Local
    /\ TurnOffChoices \subseteq BOOLEAN
    /\ ClientRequests \subseteq {"stop", "save"} \cup Controls
    /\ {MaxWsCmd, MaxStore} \subseteq Nat
    /\ Budgets \subseteq [Kinds -> Nat]

VARIABLES
    saving,     \* the cook that POST /current-cook/save read and will link
    budget,     \* which of the bounds this behaviour has
    left        \* what it still allows

modelVars == <<saving, budget, left>>

Faultless == left.failures = budget.failures
Spend(kind) == left[kind] > 0 /\ left' = [left EXCEPT ![kind] = @ - 1]
vars == <<channels, smVars, ovenVars, deviceVars, storeVars, modelVars>>

TypeOK ==
    /\ ChannelsTypeOK /\ SmTypeOK /\ OvenTypeOK /\ DeviceTypeOK /\ StoreTypeOK
    /\ saving \in CookOrNone
    /\ budget \in Budgets /\ left \in [Kinds -> Nat]
    /\ \A kind \in Kinds : left[kind] <= budget[kind]

\* The first tick, at startup, loads the history.
StartupCommands == <<[kind |-> "history"]>>

Init ==
    /\ wsCmd = <<>> /\ wsEvt = <<>> /\ storeCmd = StartupCommands /\ storeEvt = <<>>
    /\ SmInit /\ OvenInit /\ DeviceInit /\ StoreInit
    /\ saving = None /\ budget \in Budgets /\ left = budget

\* A fresh UUID: any id that nothing refers to.
InUse ==
    InCommands \cup PendingIds \cup InAcks \cup InInbox \cup processed \cup acking
        \cup {sm.stop} \cup Range(sm.controls)
NewId == CHOOSE id \in Requests : id \notin InUse
OtherNewId == CHOOSE id \in Requests : id \notin InUse \cup {NewId}

-----------------------------------------------------------------------------

ClientRoom == Len(wsCmd) < MaxWsCmd
StoreRoom == Len(storeCmd) + Len(storeEvt) < MaxStore

ClientStarts ==
    /\ ClientRoom
    /\ \E cook \in Cooks \ begun, turnOff \in TurnOffChoices :
         /\ StartCook(cook, turnOff)
         /\ begun' = begun \cup {cook}
    /\ UNCHANGED <<oven, inbox, processed, modelVars>>

ClientActs ==
    /\ ClientRoom /\ Spend("acts")
    /\ \/ "stop" \in ClientRequests /\ StopCook(NewId, OtherNewId)
       \/ \E kind \in ClientRequests \cap Controls : ControlCook(kind, NewId)
    /\ UNCHANGED <<ovenVars, saving, budget>>

\* handle_save_current_cook: it reads the current cook, saves its stages as a
\* recipe, and only then asks for the cook to be made that recipe's.
SaveReadsCook ==
    /\ "save" \in ClientRequests /\ saving = None /\ Spend("acts")
    /\ sm.current_cook # None /\ sm.current_cook.title # "saved"
    /\ saving' = sm.current_cook.cook
    /\ UNCHANGED <<channels, smVars, ovenVars, budget>>

SaveLinksCook ==
    /\ saving # None /\ saving' = None
    /\ \/ LinkCurrentCook
       \/ sm.current_cook = None /\ UNCHANGED <<channels, smVars>>
    /\ UNCHANGED <<ovenVars, budget, left>>

SmTakesState ==
    TakeApoState(NewId, NewId, OtherNewId) /\ UNCHANGED <<ovenVars, modelVars>>
SmTakesAck == TakeAck /\ UNCHANGED <<ovenVars, modelVars>>
SmTakesLink == TakeLink /\ UNCHANGED <<ovenVars, modelVars>>
SmTakesStore == TakeStoreEvent /\ UNCHANGED <<ovenVars, modelVars>>
SmTicks ==
    /\ StoreRoom /\ left.ticks > 0
    /\ CurrentCookTick \/ HistoryTick
    /\ UNCHANGED <<ovenVars, modelVars>>

SmStep ==
    /\ ClientStarts \/ ClientActs \/ SaveReadsCook \/ SaveLinksCook
         \/ SmTakesState \/ SmTakesAck \/ SmTakesLink \/ SmTakesStore \/ SmTicks
    /\ UNCHANGED <<deviceVars, storeVars>>

LinkReports == StoreRoom /\ OvenReports

LinkStep ==
    /\ \/ OvenConnects /\ Spend("connects")
       \/ (SessionEnds \/ LinkReports \/ AckHandled \/ AckTimeout \/ DeviceTakesCommand)
            /\ UNCHANGED left
    /\ UNCHANGED <<storeCmd, storeEvt, smVars, storeVars, saving, budget>>

OvenActs ==
    /\ \/ (OvenHandles \/ StageEnds) /\ UNCHANGED left
       \/ (OvenDrops \/ PanelStart \/ PanelStop) /\ Spend("surprises")
    /\ UNCHANGED <<channels, smVars, deviceVars, storeVars, saving, budget>>

StoreStep ==
    /\ HandleCommand
    /\ UNCHANGED <<wsCmd, wsEvt, smVars, ovenVars, deviceVars, modelVars>>

StoreFails ==
    /\ Spend("failures")
    /\ FailCommand
    /\ UNCHANGED <<wsCmd, wsEvt, smVars, ovenVars, deviceVars, saving, budget>>

\* Any critical task that stops takes the process with it (spawn_critical).
\* The files and the oven stay; the rest starts over.
Crash ==
    /\ left.crashes > 0
    /\ left' = [left EXCEPT !.crashes = @ - 1, !.connects = budget.connects]
    /\ StoreCrash
    /\ sm' = SmInitState /\ announced' = {}
    /\ session' = FALSE /\ pending' = <<>> /\ acking' = {}
    /\ inbox' = <<>> /\ processed' = {}
    /\ wsCmd' = <<>> /\ wsEvt' = <<>> /\ storeCmd' = StartupCommands /\ storeEvt' = <<>>
    /\ saving' = None
    /\ UNCHANGED <<oven, begun, budget>>

Next == SmStep \/ LinkStep \/ OvenActs \/ StoreStep \/ StoreFails \/ Crash

Spec == Init /\ [][Next]_vars

-----------------------------------------------------------------------------
\* What main.rs's tasks owe: the state machine takes the events that reach it
\* (from either forwarder: its select! and the shared queue favour neither),
\* and the device's loop waits on its command channel, its deadlines and the
\* acks of a report it is handling.  Nothing is asked of the oven, the clients
\* or the store.
SmTakesWs == SmTakesState \/ SmTakesAck \/ SmTakesLink
SmAlone == UNCHANGED <<deviceVars, storeVars>>
DeviceAlone == UNCHANGED <<storeCmd, storeEvt, smVars, storeVars, modelVars>>

Fairness ==
    /\ WF_vars(SmTakesWs /\ SmAlone)
    /\ WF_vars(SmTakesStore /\ SmAlone)
    /\ WF_vars(DeviceTakesCommand /\ DeviceAlone)
    /\ WF_vars(AckHandled /\ DeviceAlone)
    /\ WF_vars(AckTimeout /\ DeviceAlone)

FairSpec == Spec /\ Fairness

-----------------------------------------------------------------------------
InFlight == InCommands \cup PendingIds \cup InAcks
StoreQuiet == storeCmd = <<>> /\ storeEvt = <<>>

(***************************************************************************)
(* What the state machine waits for is still on its way: a start it shows  *)
(* as pending, and every control it tracks, is queued, waiting for the     *)
(* oven, or in an ack it has not taken.  So neither can wait for ever.     *)
(* (A stop can: see README.)  apply_apo_state and apply_command_ack clear  *)
(* the trackers; the device answers what they track.                       *)
(***************************************************************************)
RequestsTracked ==
    /\ sm.lifecycle = "StartPending" => sm.start # None /\ sm.start \in InFlight
    /\ sm.lifecycle = "StopPending" => sm.stop # None
    /\ Range(sm.controls) \subseteq InFlight

(***************************************************************************)
(* Once the store has nothing left to do, clients see the history that is  *)
(* on disk, although only some of the commands that write it send it.      *)
(* (A failed file operation sends nothing.)                                *)
(***************************************************************************)
HistoryShown == Faultless /\ StoreQuiet => sm.history = Recent(files.history)

(***************************************************************************)
(* Once the store has caught up with the oven's reports, the cook in the   *)
(* journal is the one the oven last reported, also in the first report     *)
(* after a restart.  While a start is pending it need not be.              *)
(***************************************************************************)
JournalFollowsOven ==
    Faultless /\ storeCmd = <<>> /\ sm.status # None /\ sm.lifecycle # "StartPending"
            /\ files.journal # None /\ files.journal.seen
        => files.journal.cook = sm.oven_cook

(***************************************************************************)
(* While a start is pending the journal holds that start, whatever the     *)
(* oven reports meanwhile: the reports are held back and fetches carry no  *)
(* cook (reduce_ws_event and fetch_current_cook say why).                  *)
(***************************************************************************)
JournalHoldsStart ==
    Faultless /\ storeCmd = <<>> /\ sm.lifecycle = "StartPending"
        => files.journal # None /\ files.journal.cook = sm.start

InHistory(cook) == \E i \in DOMAIN files.history : files.history[i].cook = cook
SeenInJournal(cook) == Journals(cook) /\ files.journal.seen

(***************************************************************************)
(* A cook the oven was seen running is never lost: it is in the journal or *)
(* in the history, over crashes between any two file operations of the     *)
(* store and over failed ones.                                             *)
(***************************************************************************)
Kept(cook) == SeenInJournal(cook) \/ InHistory(cook)
SeenCookKept == [][\A cook \in Cooks : Kept(cook) => Kept(cook)']_vars

(***************************************************************************)
(* A pending start ends, whatever the oven, the connection and the clients *)
(* do: confirmed, failed, or replaced by another command.                  *)
(***************************************************************************)
Starting(cook) == sm.lifecycle = "StartPending" /\ sm.start = cook
StartResolved == \A cook \in Cooks : Starting(cook) ~> ~Starting(cook)

(***************************************************************************)
(* A preheat that shows as waiting for the user keeps showing it, in       *)
(* "every later report of this preheat" (settle_preheat), over reconnects  *)
(* and reports in which the oven does not say so, until the cook moves on. *)
(***************************************************************************)
ShowsWaiting(s) == s.status # None /\ s.status.stage = 1 /\ s.status.ended
WaitingStays ==
    [][ShowsWaiting(sm) /\ sm.oven_cook \in PreheatCooks
         /\ sm'.oven_cook = sm.oven_cook /\ sm'.status # None /\ sm'.status.stage = 1
         => sm'.status.ended]_vars

TakesState == wsEvt # <<>> /\ Head(wsEvt).kind = "state" /\ wsEvt' = Tail(wsEvt)

(***************************************************************************)
(* docs/architecture.md:277, of ANOVA_PREHEAT_TOLERANCE_F: "how far short  *)
(* of its setpoint, in F, a preheat may stall and still count as reached". *)
(* So the report in which a preheat first counts as reached says so        *)
(* itself, or is near the setpoint.                                        *)
(***************************************************************************)
ReachedWhenNear ==
    [][TakesState /\ ShowsWaiting(sm') /\ Head(wsEvt).cook \in PreheatCooks
         => \/ Head(wsEvt).status.ended \/ Head(wsEvt).status.near
            \/ ShowsWaiting(sm) /\ sm.oven_cook = Head(wsEvt).cook]_vars
=============================================================================
