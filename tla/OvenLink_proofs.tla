-------------------------- MODULE OvenLink_proofs --------------------------
(***************************************************************************)
(* OvenLink keeps its type, has every request in one place, and implements *)
(* CommandLink, for any commands, stages and bounds.                       *)
(*                                                                         *)
(* Neither OnePlace nor the promise is inductive: a command could be in    *)
(* the channel twice, or an ack could say "ok" of a command the oven has   *)
(* not handled.  Delivery says that no command is anywhere twice and that  *)
(* what is in front of the oven has not been handled; Honesty, that every  *)
(* "ok" on its way is true.                                                *)
(***************************************************************************)
EXTENDS OvenLink, SequenceTheorems, TLAPS

UniqueCommands(cmds) == \A i, j \in DOMAIN cmds : cmds[i].id = cmds[j].id => i = j
UniquePending(ids) == \A i, j \in DOMAIN ids : ids[i] = ids[j] => i = j
UniqueAcks(evts) ==
    \A i, j \in DOMAIN evts :
        evts[i].kind = "ack" /\ evts[j].kind = "ack" /\ evts[i].id = evts[j].id => i = j
OkIds(evts) ==
    {evts[i].id : i \in {j \in DOMAIN evts : evts[j].kind = "ack" /\ evts[j].ok}}

Once == UniqueCommands(wsCmd) /\ UniquePending(pending) /\ UniqueAcks(wsEvt)

Delivery ==
    /\ UniqueCommands(inbox)
    /\ InCommands \cap InInbox = {}
    /\ \A id \in InCommands \cup InInbox : handled[id] = 0
    /\ \A id \in Ids : handled[id] \in {0, 1}
    /\ \A id \in Ids : handled[id] = 1 \/ id \in InInbox => outcome[id] # "unissued"

Honesty ==
    /\ acking \subseteq PendingIds
    /\ \A id \in processed \cup acking \cup OkIds(wsEvt) : handled[id] = 1

IInv == TypeOK /\ OnePlace /\ Once /\ Delivery /\ Honesty

-----------------------------------------------------------------------------
(* What the queue operations do to the ids in a queue.                     *)

\* A command joins the back of a queue.
LEMMA AppendCommand ==
    ASSUME NEW S, NEW cmds \in Seq(S), NEW cmd \in S
    PROVE  /\ CommandIds(Append(cmds, cmd)) = CommandIds(cmds) \cup {cmd.id}
           /\ UniqueCommands(cmds) /\ cmd.id \notin CommandIds(cmds)
                => UniqueCommands(Append(cmds, cmd))
<1>1. /\ DOMAIN cmds = 1..Len(cmds) /\ Len(cmds) \in Nat
      /\ DOMAIN Append(cmds, cmd) = 1..(Len(cmds) + 1)
      /\ \A i \in 1..Len(cmds) : Append(cmds, cmd)[i] = cmds[i]
      /\ Append(cmds, cmd)[Len(cmds) + 1] = cmd
  BY AppendProperties, LenProperties
<1>2. CommandIds(Append(cmds, cmd)) = CommandIds(cmds) \cup {cmd.id}
  BY <1>1 DEF CommandIds
<1>3. ASSUME UniqueCommands(cmds), cmd.id \notin CommandIds(cmds)
      PROVE  UniqueCommands(Append(cmds, cmd))
  BY <1>1, <1>3 DEF UniqueCommands, CommandIds
<1> QED BY <1>2, <1>3

\* The command at the front leaves.
LEMMA TailCommands ==
    ASSUME NEW S, NEW cmds \in Seq(S), cmds # <<>>
    PROVE  /\ CommandIds(cmds) = CommandIds(Tail(cmds)) \cup {Head(cmds).id}
           /\ UniqueCommands(cmds)
                => UniqueCommands(Tail(cmds)) /\ Head(cmds).id \notin CommandIds(Tail(cmds))
<1>1. /\ DOMAIN cmds = 1..Len(cmds) /\ Len(cmds) \in Nat \ {0}
      /\ DOMAIN Tail(cmds) = 1..(Len(cmds) - 1)
      /\ \A i \in 1..(Len(cmds) - 1) : Tail(cmds)[i] = cmds[i + 1]
      /\ Head(cmds) = cmds[1]
  BY HeadTailProperties, LenProperties, EmptySeq
<1>2. CommandIds(cmds) = CommandIds(Tail(cmds)) \cup {Head(cmds).id}
  <2>1. ASSUME NEW i \in DOMAIN cmds
        PROVE  cmds[i].id \in CommandIds(Tail(cmds)) \cup {Head(cmds).id}
    <3>1. CASE i = 1
      BY <1>1, <3>1
    <3>2. CASE i # 1
      <4>1. i - 1 \in 1..(Len(cmds) - 1) /\ Tail(cmds)[i - 1] = cmds[i]
        BY <1>1, <3>2
      <4> QED BY <1>1, <4>1 DEF CommandIds
    <3> QED BY <3>1, <3>2
  <2> QED BY <1>1, <2>1 DEF CommandIds
<1>3. ASSUME UniqueCommands(cmds)
      PROVE  UniqueCommands(Tail(cmds)) /\ Head(cmds).id \notin CommandIds(Tail(cmds))
  BY <1>1, <1>3 DEF UniqueCommands, CommandIds
<1> QED BY <1>2, <1>3

\* An empty queue holds no command.
LEMMA NoCommands == CommandIds(<<>>) = {} /\ UniqueCommands(<<>>)
  BY DEF CommandIds, UniqueCommands

\* An ack joins the events.
LEMMA AppendAck ==
    ASSUME NEW S, NEW evts \in Seq(S), NEW ack \in S, ack.kind = "ack"
    PROVE  /\ AckIds(Append(evts, ack)) = AckIds(evts) \cup {ack.id}
           /\ ack.ok => OkIds(Append(evts, ack)) = OkIds(evts) \cup {ack.id}
           /\ ~ack.ok => OkIds(Append(evts, ack)) = OkIds(evts)
           /\ UniqueAcks(evts) /\ ack.id \notin AckIds(evts) => UniqueAcks(Append(evts, ack))
<1> DEFINE new == Append(evts, ack)
<1>1. /\ DOMAIN evts = 1..Len(evts) /\ Len(evts) \in Nat
      /\ DOMAIN new = 1..(Len(evts) + 1)
      /\ \A i \in 1..Len(evts) : new[i] = evts[i]
      /\ new[Len(evts) + 1] = ack
  BY AppendProperties, LenProperties
<1> HIDE DEF new
<1>2. AckIds(new) = AckIds(evts) \cup {ack.id}
  BY <1>1 DEF AckIds
<1>3. /\ ack.ok => OkIds(new) = OkIds(evts) \cup {ack.id}
      /\ ~ack.ok => OkIds(new) = OkIds(evts)
  BY <1>1 DEF OkIds
<1>4. ASSUME UniqueAcks(evts), ack.id \notin AckIds(evts)
      PROVE  UniqueAcks(new)
  BY <1>1, <1>4 DEF UniqueAcks, AckIds
<1> QED BY <1>2, <1>3, <1>4 DEF new

\* Events that are not acks join the events.
LEMMA AppendOthers ==
    ASSUME NEW S, NEW evts \in Seq(S), NEW more \in Seq(S),
           \A i \in DOMAIN more : more[i].kind # "ack"
    PROVE  /\ AckIds(evts \o more) = AckIds(evts)
           /\ OkIds(evts \o more) = OkIds(evts)
           /\ UniqueAcks(evts) => UniqueAcks(evts \o more)
<1> DEFINE new == evts \o more
<1>1. /\ DOMAIN evts = 1..Len(evts) /\ Len(evts) \in Nat
      /\ DOMAIN more = 1..Len(more) /\ Len(more) \in Nat
      /\ DOMAIN new = 1..(Len(evts) + Len(more))
      /\ \A i \in 1..Len(evts) : new[i] = evts[i]
      /\ \A i \in DOMAIN new : i > Len(evts) => new[i].kind # "ack"
  BY ConcatProperties, LenProperties
<1> HIDE DEF new
<1>2. AckIds(new) = AckIds(evts)
  BY <1>1 DEF AckIds
<1>3. OkIds(new) = OkIds(evts)
  BY <1>1 DEF OkIds
<1>4. ASSUME UniqueAcks(evts)
      PROVE  UniqueAcks(new)
  BY <1>1, <1>4 DEF UniqueAcks
<1> QED BY <1>2, <1>3, <1>4 DEF new

\* The event at the front leaves.
LEMMA TailEvents ==
    ASSUME NEW S, NEW evts \in Seq(S), evts # <<>>
    PROVE  /\ AckIds(evts) = AckIds(Tail(evts))
                 \cup (IF Head(evts).kind = "ack" THEN {Head(evts).id} ELSE {})
           /\ OkIds(Tail(evts)) \subseteq OkIds(evts)
           /\ Head(evts).kind = "ack" /\ Head(evts).ok => Head(evts).id \in OkIds(evts)
           /\ UniqueAcks(evts) =>
                /\ UniqueAcks(Tail(evts))
                /\ Head(evts).kind = "ack" => Head(evts).id \notin AckIds(Tail(evts))
<1> DEFINE rest == Tail(evts)
<1>1. /\ DOMAIN evts = 1..Len(evts) /\ Len(evts) \in Nat \ {0}
      /\ DOMAIN rest = 1..(Len(evts) - 1)
      /\ \A i \in 1..(Len(evts) - 1) : rest[i] = evts[i + 1]
      /\ Head(evts) = evts[1]
  BY HeadTailProperties, LenProperties, EmptySeq
<1> HIDE DEF rest
<1>2. AckIds(evts) = AckIds(rest)
          \cup (IF Head(evts).kind = "ack" THEN {Head(evts).id} ELSE {})
  <2>1. ASSUME NEW i \in DOMAIN evts, evts[i].kind = "ack", i # 1
        PROVE  evts[i].id \in AckIds(rest)
    <3>1. i - 1 \in 1..(Len(evts) - 1) /\ rest[i - 1] = evts[i]
      BY <1>1, <2>1
    <3> QED BY <1>1, <2>1, <3>1 DEF AckIds
  <2> QED BY <1>1, <2>1 DEF AckIds
<1>3. OkIds(rest) \subseteq OkIds(evts)
  BY <1>1 DEF OkIds
<1>4. Head(evts).kind = "ack" /\ Head(evts).ok => Head(evts).id \in OkIds(evts)
  BY <1>1 DEF OkIds
<1>5. ASSUME UniqueAcks(evts)
      PROVE  /\ UniqueAcks(rest)
             /\ Head(evts).kind = "ack" => Head(evts).id \notin AckIds(rest)
  <2>1. \A i \in DOMAIN rest : i + 1 \in DOMAIN evts /\ i + 1 # 1 /\ rest[i] = evts[i + 1]
    BY <1>1
  <2>2. UniqueAcks(rest)
    <3> SUFFICES ASSUME NEW i \in DOMAIN rest, NEW j \in DOMAIN rest,
                        rest[i].kind = "ack", rest[j].kind = "ack", rest[i].id = rest[j].id
                 PROVE  i = j
      BY DEF UniqueAcks
    <3>1. i + 1 = j + 1
      BY <1>5, <2>1 DEF UniqueAcks
    <3> QED BY <1>1, <3>1
  <2>3. ASSUME Head(evts).kind = "ack", NEW i \in DOMAIN rest,
               rest[i].kind = "ack", rest[i].id = Head(evts).id
        PROVE  FALSE
    <3>1. 1 \in DOMAIN evts /\ i \in Nat
      BY <1>1
    <3>2. i + 1 = 1
      BY <1>1, <1>5, <2>1, <2>3, <3>1 DEF UniqueAcks
    <3> QED BY <3>1, <3>2
  <2> QED BY <2>2, <2>3 DEF AckIds
<1> QED BY <1>2, <1>3, <1>4, <1>5 DEF rest

\* No events, no acks.
LEMMA NoEvents == AckIds(<<>>) = {} /\ OkIds(<<>>) = {} /\ UniqueAcks(<<>>)
  BY DEF AckIds, OkIds, UniqueAcks

\* An id joins the pending ones.
LEMMA AppendPending ==
    ASSUME NEW S, NEW ids \in Seq(S), NEW id \in S
    PROVE  /\ Range(Append(ids, id)) = Range(ids) \cup {id}
           /\ UniquePending(ids) /\ id \notin Range(ids) => UniquePending(Append(ids, id))
<1> DEFINE new == Append(ids, id)
<1>1. /\ DOMAIN ids = 1..Len(ids) /\ Len(ids) \in Nat
      /\ DOMAIN new = 1..(Len(ids) + 1)
      /\ \A i \in 1..Len(ids) : new[i] = ids[i]
      /\ new[Len(ids) + 1] = id
  BY AppendProperties, LenProperties
<1> HIDE DEF new
<1>2. Range(new) = Range(ids) \cup {id}
  BY <1>1 DEF Range
<1>3. ASSUME UniquePending(ids), id \notin Range(ids)
      PROVE  UniquePending(new)
  BY <1>1, <1>3 DEF UniquePending, Range
<1> QED BY <1>2, <1>3 DEF new

\* One of the pending ids leaves, wherever it is.
LEMMA RemovePending ==
    ASSUME NEW S, NEW ids \in Seq(S), NEW k \in DOMAIN ids
    PROVE  /\ RemoveAt(ids, k) \in Seq(S)
           /\ Range(ids) = Range(RemoveAt(ids, k)) \cup {ids[k]}
           /\ UniquePending(ids) =>
                UniquePending(RemoveAt(ids, k)) /\ ids[k] \notin Range(RemoveAt(ids, k))
<1> DEFINE front == SubSeq(ids, 1, k - 1)
           back == SubSeq(ids, k + 1, Len(ids))
           rest == front \o back
           Old(i) == IF i < k THEN i ELSE i + 1
<1> HIDE DEF front, back
<1>1. /\ DOMAIN ids = 1..Len(ids) /\ Len(ids) \in Nat /\ k \in 1..Len(ids)
      /\ \A i \in 1..Len(ids) : ids[i] \in S
  BY LenProperties, ElementOfSeq
<1>2. front \in Seq(S) /\ Len(front) = k - 1 /\ \A i \in 1..(k - 1) : front[i] = ids[i]
  BY <1>1, SubSeqProperties DEF front
<1>3. /\ back \in Seq(S) /\ Len(back) = Len(ids) - k
      /\ \A i \in 1..(Len(ids) - k) : back[i] = ids[k + i]
  BY <1>1, SubSeqProperties DEF back
<1>4. /\ rest \in Seq(S) /\ DOMAIN rest = 1..(Len(ids) - 1)
      /\ \A i \in DOMAIN rest : rest[i] = IF i < k THEN front[i] ELSE back[i - (k - 1)]
  <2>1. rest \in Seq(S) /\ Len(rest) = Len(ids) - 1
    <3>1. rest \in Seq(S) /\ Len(rest) = Len(front) + Len(back)
      BY <1>2, <1>3, ConcatProperties
    <3> QED BY <1>1, <1>2, <1>3, <3>1
  <2>2. DOMAIN rest = 1..(Len(ids) - 1)
    BY <2>1, LenProperties
  <2>3. \A i \in 1..(Len(ids) - 1) : rest[i] = IF i <= k - 1 THEN front[i] ELSE back[i - (k - 1)]
    BY <1>1, <1>2, <1>3, ConcatProperties
  <2> HIDE DEF rest
  <2> QED BY <1>1, <2>1, <2>2, <2>3
<1>5. RemoveAt(ids, k) = rest
  BY DEF RemoveAt, front, back
<1> HIDE DEF rest
<1>6. \A i \in DOMAIN rest : /\ Old(i) \in DOMAIN ids /\ Old(i) # k
                             /\ rest[i] = ids[Old(i)]
  <2> SUFFICES ASSUME NEW i \in DOMAIN rest
               PROVE  Old(i) \in DOMAIN ids /\ Old(i) # k /\ rest[i] = ids[Old(i)]
    OBVIOUS
  <2>1. CASE i < k
    BY <1>1, <1>2, <1>4, <2>1
  <2>2. CASE ~(i < k)
    <3>1. i - (k - 1) \in 1..(Len(ids) - k) /\ k + (i - (k - 1)) = i + 1
      BY <1>1, <1>4, <2>2
    <3> QED BY <1>1, <1>3, <1>4, <2>2, <3>1
  <2> QED BY <2>1, <2>2
<1>7. \A j \in DOMAIN ids : j # k => \E i \in DOMAIN rest : Old(i) = j
  <2> SUFFICES ASSUME NEW j \in DOMAIN ids, j # k
               PROVE  \E i \in DOMAIN rest : Old(i) = j
    OBVIOUS
  <2>1. CASE j < k
    BY <1>1, <1>4, <2>1
  <2>2. CASE j > k
    <3>1. j - 1 \in DOMAIN rest /\ Old(j - 1) = j
      BY <1>1, <1>4, <2>2
    <3> QED BY <3>1
  <2> QED BY <1>1, <2>1, <2>2
<1>8. \A i, j \in DOMAIN rest : Old(i) = Old(j) => i = j
  BY <1>1, <1>4
<1> HIDE DEF Old
<1>9. Range(ids) = Range(rest) \cup {ids[k]}
  BY <1>6, <1>7 DEF Range
<1>10. ASSUME UniquePending(ids)
       PROVE  UniquePending(rest) /\ ids[k] \notin Range(rest)
  BY <1>6, <1>8, <1>10 DEF UniquePending, Range
<1> QED BY <1>4, <1>5, <1>9, <1>10

\* The oldest of the pending ids leaves.
LEMMA TailPending ==
    ASSUME NEW S, NEW ids \in Seq(S), ids # <<>>
    PROVE  /\ Range(ids) = Range(Tail(ids)) \cup {Head(ids)}
           /\ UniquePending(ids) =>
                UniquePending(Tail(ids)) /\ Head(ids) \notin Range(Tail(ids))
<1>1. 1 \in DOMAIN ids /\ ids[1] = Head(ids)
  BY LenProperties, EmptySeq
<1>2. RemoveAt(ids, 1) = Tail(ids)
  <2>1. SubSeq(ids, 1, 0) = <<>>
    BY SubSeqEmpty
  <2>2. Tail(ids) = SubSeq(ids, 2, Len(ids)) /\ Tail(ids) \in Seq(S)
    BY TailIsSubSeq, HeadTailProperties
  <2> QED BY <2>1, <2>2, ConcatEmptySeq DEF RemoveAt
<1>3. /\ Range(ids) = Range(RemoveAt(ids, 1)) \cup {ids[1]}
      /\ UniquePending(ids) =>
           UniquePending(RemoveAt(ids, 1)) /\ ids[1] \notin Range(RemoveAt(ids, 1))
  BY <1>1, RemovePending
<1> QED BY <1>1, <1>2, <1>3

\* No ids, none pending.
LEMMA NoPending == Range(<<>>) = {} /\ UniquePending(<<>>)
  BY DEF Range, UniquePending

-----------------------------------------------------------------------------
(* Types.                                                                  *)

\* The messages and oven states the actions build are of their types.
LEMMA Built ==
    ASSUME OvenTypeOK
    PROVE  /\ \A id \in Ids, ok \in BOOLEAN : Ack(id, ok) \in WsEvent
           /\ Greeting \in Seq(WsEvent) /\ Farewell \in Seq(WsEvent)
           /\ \A status \in Reports : ApoState(status, oven.cook) \in WsEvent
           /\ \A cook \in Cooks : Run(cook) \in OvenState
           /\ Off \in OvenState
           /\ [oven EXCEPT !.ended = TRUE] \in OvenState
           /\ \A recipe, stage : stage \in 1..LastStage => StartStage(recipe, stage) \in OvenState
           /\ oven.cook # None /\ ~Hold => [oven EXCEPT !.stage = @ + 1] \in OvenState
           /\ \A on \in BOOLEAN : Lamp(on) \in OvenState
<1> USE OvenAssumption, MessagesAssumption DEF OvenTypeOK, OvenState, CookOrNone
<1>1. \A id \in Ids, ok \in BOOLEAN : Ack(id, ok) \in WsEvent
  BY DEF Ack, WsEvent, AckEvent
<1>2. Greeting \in Seq(WsEvent) /\ Farewell \in Seq(WsEvent)
  BY DEF Greeting, Farewell, Link, WsEvent, LinkEvent
<1>3. \A status \in Reports : ApoState(status, oven.cook) \in WsEvent
  BY DEF ApoState, Reports, Status, WsEvent, StateEvent
<1>4. \A cook \in Cooks : Run(cook) \in OvenState
  BY DEF Run
<1>5. Off \in OvenState
  BY DEF Off
<1>6. [oven EXCEPT !.ended = TRUE] \in OvenState
  OBVIOUS
<1>7. \A on \in BOOLEAN : Lamp(on) \in OvenState
  BY DEF Lamp
<1>8. \A recipe, stage : stage \in 1..LastStage => StartStage(recipe, stage) \in OvenState
  BY DEF StartStage
<1>9. oven.cook # None /\ ~Hold => [oven EXCEPT !.stage = @ + 1] \in OvenState
  BY DEF Hold
<1> QED BY <1>1, <1>2, <1>3, <1>4, <1>5, <1>6, <1>7, <1>8, <1>9

\* A command has the effect of its kind, and that is an oven state.
LEMMA EffectType ==
    ASSUME OvenTypeOK, NEW cmd \in WsCommand
    PROVE  Effect(cmd) \in OvenState
<1>1. /\ cmd.kind \in {"start", "stop", "lampOn", "lampOff", "nextStage"}
      /\ cmd.kind = "start" => cmd.id \in Cooks
      /\ cmd.kind = "nextStage" => cmd.stage \in 1..LastStage
  BY DEF WsCommand, Controls
<1> QED BY <1>1, Built DEF Effect

\* Every step keeps the types.
LEMMA TypeStep == TypeOK /\ [Next]_vars => TypeOK'
<1> SUFFICES ASSUME TypeOK, [Next]_vars PROVE TypeOK'
  OBVIOUS
<1> USE DEF TypeOK
<1> DEFINE Steady == UNCHANGED <<storeCmd, storeEvt>>
<1>0. OvenTypeOK
  OBVIOUS
<1>1. CASE Issue /\ Steady
  <2>1. PICK cmd \in WsCommand :
          /\ wsCmd' = Append(wsCmd, cmd)
          /\ begun' = IF cmd.id \in Cooks THEN begun \cup {cmd.id} ELSE begun
          /\ outcome' = [outcome EXCEPT ![cmd.id] = "waiting"]
    BY <1>1 DEF Issue
  <2>2. wsCmd' \in Seq(WsCommand)
    BY <2>1, AppendProperties DEF ChannelsTypeOK
  <2>3. begun' \subseteq Cooks
    BY <2>1 DEF OvenTypeOK
  <2>4. outcome' \in [Ids -> Promise!Outcomes]
    BY <2>1 DEF ClientTypeOK, Promise!Outcomes
  <2> QED
    BY <1>1, <2>2, <2>3, <2>4
    DEF Issue, ChannelsTypeOK, OvenTypeOK, DeviceTypeOK, deviceVars, ClientTypeOK
<1>2. CASE TakeEvent /\ Steady
  <2>1. Head(wsEvt) \in WsEvent /\ wsEvt' \in Seq(WsEvent)
    BY <1>2, HeadTailProperties DEF TakeEvent, ChannelsTypeOK
  <2>2. outcome' \in [Ids -> Promise!Outcomes]
    BY <1>2 DEF TakeEvent, ClientTypeOK, Promise!Outcomes
  <2> QED
    BY <1>2, <2>1, <2>2
    DEF TakeEvent, ChannelsTypeOK, OvenTypeOK, ovenVars, DeviceTypeOK, deviceVars, ClientTypeOK
<1>3. CASE LinkStep /\ Steady
  <2> USE DEF ChannelsTypeOK, DeviceTypeOK, ClientTypeOK
  <2>1. CASE OvenConnects
    <3>1. wsEvt' \in Seq(WsEvent)
      BY <1>0, <2>1, Built, EmptySeq, ConcatProperties DEF OvenConnects
    <3> QED BY <1>3, <2>1, <3>1, EmptySeq DEF OvenConnects, LinkStep, clientVars, OvenTypeOK
  <2>2. CASE SessionEnds
    <3>1. wsEvt' \in Seq(WsEvent)
      BY <1>0, <2>2, Built, ConcatProperties DEF SessionEnds
    <3> QED BY <1>3, <2>2, <3>1, EmptySeq DEF SessionEnds, LinkStep, clientVars, OvenTypeOK
  <2>3. CASE OvenReports
    <3>1. wsEvt' \in Seq(WsEvent)
      BY <1>0, <2>3, Built, AppendProperties DEF OvenReports
    <3>2. PendingIds \subseteq Ids
      BY ElementOfSeq, LenProperties DEF PendingIds, Range
    <3> QED BY <1>3, <2>3, <3>1, <3>2 DEF OvenReports, LinkStep, clientVars, OvenTypeOK
  <2>4. CASE AckHandled
    <3>1. PICK i \in DOMAIN pending :
            /\ wsEvt' = Append(wsEvt, Ack(pending[i], TRUE))
            /\ acking' = acking \ {pending[i]}
            /\ pending' = RemoveAt(pending, i)
      BY <2>4 DEF AckHandled
    <3>2. pending[i] \in Ids
      BY LenProperties, ElementOfSeq
    <3>3. wsEvt' \in Seq(WsEvent)
      BY <1>0, <3>1, <3>2, Built, AppendProperties
    <3>4. pending' \in Seq(Ids)
      BY <3>1, RemovePending
    <3> QED BY <1>3, <2>4, <3>1, <3>3, <3>4
            DEF AckHandled, LinkStep, clientVars, OvenTypeOK, ovenVars
  <2>5. CASE AckTimeout
    <3>1. Head(pending) \in Ids /\ pending' \in Seq(Ids)
      BY <2>5, HeadTailProperties DEF AckTimeout
    <3>2. wsEvt' \in Seq(WsEvent)
      BY <1>0, <2>5, <3>1, Built, AppendProperties DEF AckTimeout
    <3> QED BY <1>3, <2>5, <3>1, <3>2
            DEF AckTimeout, LinkStep, clientVars, OvenTypeOK, ovenVars
  <2>6. CASE DeviceTakesCommand
    <3>1. /\ Head(wsCmd) \in WsCommand /\ Head(wsCmd).id \in Ids
          /\ wsCmd' \in Seq(WsCommand)
      BY <2>6, HeadTailProperties DEF DeviceTakesCommand, WsCommand, Ids
    <3>2. Append(wsEvt, Ack(Head(wsCmd).id, FALSE)) \in Seq(WsEvent)
      BY <1>0, <3>1, Built, AppendProperties
    <3>3. CASE NoOven
      BY <1>3, <2>6, <3>1, <3>2, <3>3
      DEF NoOven, DeviceTakesCommand, LinkStep, clientVars, OvenTypeOK
    <3>4. CASE Sent
      <4>1. pending' \in Seq(Ids) /\ inbox' \in Seq(WsCommand)
        BY <3>1, <3>4, AppendProperties DEF Sent, OvenTypeOK
      <4> QED BY <1>3, <2>6, <3>1, <3>4, <4>1
              DEF Sent, DeviceTakesCommand, LinkStep, clientVars, OvenTypeOK
    <3>5. CASE SendFailed
      <4>1. wsEvt' \in Seq(WsEvent)
        BY <1>0, <3>2, <3>5, Built, ConcatProperties DEF SendFailed
      <4> QED BY <1>3, <2>6, <3>1, <3>5, <4>1, EmptySeq
              DEF SendFailed, DeviceTakesCommand, LinkStep, clientVars, OvenTypeOK
    <3> QED BY <2>6, <3>3, <3>4, <3>5 DEF DeviceTakesCommand
  <2> QED BY <1>3, <2>1, <2>2, <2>3, <2>4, <2>5, <2>6 DEF LinkStep, DeviceStep
<1>4. CASE OvenActs /\ Steady
  <2>1. oven' \in OvenState /\ begun' \subseteq Cooks /\ processed' \subseteq Ids
        /\ inbox' \in Seq(WsCommand) /\ handled' \in [Ids -> Nat]
    <3>1. CASE OvenHandles /\ handled' = [handled EXCEPT ![Head(inbox).id] = @ + 1]
      <4>1. /\ Head(inbox) \in WsCommand /\ Head(inbox).id \in Ids
            /\ Tail(inbox) \in Seq(WsCommand)
        BY <3>1, HeadTailProperties DEF OvenHandles, OvenTypeOK, WsCommand, Ids
      <4>2. Effect(Head(inbox)) \in OvenState
        BY <1>0, <4>1, EffectType
      <4> QED BY <3>1, <4>1, <4>2 DEF OvenHandles, OvenTypeOK, ClientTypeOK
    <3>2. CASE OvenDrops /\ UNCHANGED handled
      BY <3>2, HeadTailProperties DEF OvenDrops, OvenTypeOK, ClientTypeOK
    <3>3. CASE PanelStart /\ UNCHANGED handled
      BY <1>0, <3>3, Built DEF PanelStart, OvenTypeOK, ClientTypeOK
    <3>4. CASE PanelStop /\ UNCHANGED handled
      BY <1>0, <3>4, Built DEF PanelStop, OvenTypeOK, ClientTypeOK
    <3>5. CASE StageEnds /\ UNCHANGED handled
      BY <1>0, <3>5, Built DEF StageEnds, OvenTypeOK, ClientTypeOK
    <3> QED BY <1>4, <3>1, <3>2, <3>3, <3>4, <3>5 DEF OvenActs, OvenOnItsOwn
  <2> QED BY <1>4, <2>1
          DEF OvenActs, ChannelsTypeOK, OvenTypeOK, DeviceTypeOK, deviceVars, ClientTypeOK
<1>5. CASE UNCHANGED vars
  BY <1>5 DEF vars, channels, ovenVars, deviceVars, clientVars,
              ChannelsTypeOK, OvenTypeOK, DeviceTypeOK, ClientTypeOK
<1> QED BY <1>1, <1>2, <1>3, <1>4, <1>5 DEF Next

\* The types hold at first.
LEMMA TypeInit == Init => TypeOK
<1> SUFFICES ASSUME Init PROVE TypeOK
  OBVIOUS
<1>1. ChannelsTypeOK /\ DeviceTypeOK
  BY EmptySeq DEF Init, ChannelsTypeOK, DeviceInit, DeviceTypeOK
<1>2. oven \in OvenState
  BY MessagesAssumption DEF Init, OvenInit, OvenState, CookOrNone
<1>3. OvenTypeOK
  BY <1>2, EmptySeq DEF Init, OvenInit, OvenTypeOK
<1>4. ClientTypeOK
  BY DEF Init, ClientTypeOK, Promise!Outcomes
<1> QED BY <1>1, <1>3, <1>4 DEF TypeOK

\* The device's queues, the oven and the client's account only ever hold what
\* their types allow: so the oven is never past its last stage, and only ids
\* that were drawn are pending, acked or handled.
THEOREM TypeCorrect == Spec => []TypeOK
  BY TypeInit, TypeStep, PTL DEF Spec

-----------------------------------------------------------------------------
(* The inductive invariant.                                                *)

\* Whatever is queued, pending or acked has an id.
LEMMA IdTypes ==
    ASSUME TypeOK
    PROVE  /\ InCommands \subseteq Ids /\ InInbox \subseteq Ids
           /\ PendingIds \subseteq Ids /\ InAcks \subseteq Ids
           /\ OkIds(wsEvt) \subseteq InAcks
<1>1. \A cmds \in Seq(WsCommand) : CommandIds(cmds) \subseteq Ids
  BY ElementOfSeq, LenProperties DEF CommandIds, WsCommand, Ids
<1>2. \A i \in DOMAIN wsEvt : wsEvt[i] \in WsEvent
  BY ElementOfSeq, LenProperties DEF TypeOK, ChannelsTypeOK
<1>3. \A evt \in WsEvent : evt.kind = "ack" => evt.id \in Ids
  BY DEF WsEvent, LinkEvent, StateEvent, AckEvent
<1>4. InAcks \subseteq Ids /\ OkIds(wsEvt) \subseteq InAcks
  BY <1>2, <1>3 DEF InAcks, AckIds, OkIds
<1>5. PendingIds \subseteq Ids
  BY ElementOfSeq, LenProperties DEF TypeOK, DeviceTypeOK, PendingIds, Range
<1> QED BY <1>1, <1>4, <1>5 DEF TypeOK, ChannelsTypeOK, OvenTypeOK, InCommands, InInbox

\* A new command has a fresh id, which is then in the channel only.
LEMMA IssueStep == IInv /\ TypeOK' /\ Issue => IInv'
<1> SUFFICES ASSUME IInv, TypeOK', Issue PROVE IInv'
  OBVIOUS
<1>1. PICK cmd \in WsCommand :
        /\ outcome[cmd.id] = "unissued"
        /\ wsCmd' = Append(wsCmd, cmd)
        /\ outcome' = [outcome EXCEPT ![cmd.id] = "waiting"]
  BY DEF Issue
<1>2. UNCHANGED <<wsEvt, inbox, processed, pending, acking, handled>>
  BY DEF Issue, deviceVars
<1>3. cmd.id \in Ids /\ wsCmd \in Seq(WsCommand) /\ outcome \in [Ids -> Promise!Outcomes]
  BY DEF IInv, TypeOK, ChannelsTypeOK, ClientTypeOK, WsCommand, Ids
<1>4. /\ cmd.id \notin InCommands \cup PendingIds \cup InAcks \cup InInbox
      /\ handled[cmd.id] = 0
  BY <1>1, <1>3 DEF IInv, OnePlace, Delivery
<1>5. /\ InCommands' = InCommands \cup {cmd.id} /\ UniqueCommands(wsCmd)'
      /\ InInbox' = InInbox /\ PendingIds' = PendingIds /\ InAcks' = InAcks
  BY <1>1, <1>2, <1>3, <1>4, AppendCommand
  DEF IInv, Once, InCommands, InInbox, PendingIds, InAcks
<1>6. OnePlace'
  BY <1>1, <1>3, <1>4, <1>5 DEF IInv, OnePlace
<1>7. Once' /\ Honesty'
  BY <1>2, <1>5 DEF IInv, Once, Honesty
<1>8. Delivery'
  BY <1>1, <1>2, <1>3, <1>4, <1>5 DEF IInv, Delivery
<1> QED BY <1>6, <1>7, <1>8 DEF IInv

\* An ack that is taken answers a command that is nowhere else.
LEMMA TakeEventStep == IInv /\ TypeOK' /\ TakeEvent => IInv'
<1> SUFFICES ASSUME IInv, TypeOK', TakeEvent PROVE IInv'
  OBVIOUS
<1> DEFINE evt == Head(wsEvt)
<1>1. UNCHANGED <<wsCmd, inbox, processed, pending, acking, handled>>
  BY DEF TakeEvent, ovenVars, deviceVars
<1>2. /\ wsEvt \in Seq(WsEvent) /\ wsEvt # <<>> /\ wsEvt' = Tail(wsEvt)
      /\ outcome \in [Ids -> Promise!Outcomes]
  BY DEF TakeEvent, IInv, TypeOK, ChannelsTypeOK, ClientTypeOK
<1>3. /\ InCommands' = InCommands /\ InInbox' = InInbox /\ PendingIds' = PendingIds
      /\ InAcks = InAcks' \cup (IF evt.kind = "ack" THEN {evt.id} ELSE {})
      /\ evt.kind = "ack" => evt.id \notin InAcks'
      /\ UniqueAcks(wsEvt)' /\ OkIds(wsEvt)' \subseteq OkIds(wsEvt)
  BY <1>1, <1>2, TailEvents DEF IInv, Once, InCommands, InInbox, PendingIds, InAcks
<1>4. Once' /\ Honesty'
  BY <1>1, <1>3 DEF IInv, Once, Honesty
<1>5. CASE evt.kind = "ack"
  <2>1. /\ evt.id \in InAcks /\ evt.id \in Ids
        /\ evt.id \notin InCommands \cup PendingIds \cup InAcks'
    BY <1>3, <1>5, IdTypes DEF IInv, OnePlace
  <2>2. \E answer \in {"ok", "failed"} : outcome' = [outcome EXCEPT ![evt.id] = answer]
    BY <1>5 DEF TakeEvent
  <2>3. OnePlace'
    BY <1>2, <1>3, <1>5, <2>1, <2>2 DEF IInv, OnePlace
  <2>4. Delivery'
    BY <1>1, <1>2, <1>3, <2>1, <2>2 DEF IInv, Delivery
  <2> QED BY <1>4, <2>3, <2>4 DEF IInv
<1>6. CASE evt.kind # "ack"
  <2>1. outcome' = outcome /\ InAcks' = InAcks
    BY <1>3, <1>6 DEF TakeEvent
  <2> QED BY <1>1, <1>3, <1>4, <2>1 DEF IInv, OnePlace, Delivery
<1> QED BY <1>5, <1>6

\* Events without acks joined to others without acks.
LEMMA ConcatNoAcks ==
    ASSUME NEW evts \in Seq(WsEvent), NEW more \in Seq(WsEvent),
           \A i \in DOMAIN evts : evts[i].kind # "ack",
           \A i \in DOMAIN more : more[i].kind # "ack"
    PROVE  /\ evts \o more \in Seq(WsEvent)
           /\ \A i \in DOMAIN (evts \o more) : (evts \o more)[i].kind # "ack"
<1> DEFINE all == evts \o more
<1>1. /\ DOMAIN evts = 1..Len(evts) /\ Len(evts) \in Nat
      /\ DOMAIN more = 1..Len(more) /\ Len(more) \in Nat
      /\ all \in Seq(WsEvent) /\ DOMAIN all = 1..(Len(evts) + Len(more))
      /\ \A i \in DOMAIN all : all[i] = IF i <= Len(evts) THEN evts[i] ELSE more[i - Len(evts)]
  BY ConcatProperties, LenProperties
<1> HIDE DEF all
<1>2. ASSUME NEW i \in DOMAIN all
      PROVE  all[i].kind # "ack"
  <2>1. i <= Len(evts) => i \in DOMAIN evts
    BY <1>1
  <2>2. ~(i <= Len(evts)) => i - Len(evts) \in DOMAIN more
    BY <1>1
  <2> QED BY <1>1, <2>1, <2>2
<1> QED BY <1>1, <1>2 DEF all

\* A failure joins the events.
LEMMA AppendFailure ==
    ASSUME NEW evts \in Seq(WsEvent), NEW id \in Ids
    PROVE  /\ Append(evts, Ack(id, FALSE)) \in Seq(WsEvent)
           /\ AckIds(Append(evts, Ack(id, FALSE))) = AckIds(evts) \cup {id}
           /\ OkIds(Append(evts, Ack(id, FALSE))) = OkIds(evts)
           /\ UniqueAcks(evts) /\ id \notin AckIds(evts)
                => UniqueAcks(Append(evts, Ack(id, FALSE)))
<1> DEFINE ack == Ack(id, FALSE)
<1>1. ack \in WsEvent /\ ack.kind = "ack" /\ ack.id = id /\ ~ack.ok
  BY DEF Ack, WsEvent, AckEvent
<1> HIDE DEF ack
<1>2. /\ Append(evts, ack) \in Seq(WsEvent)
      /\ AckIds(Append(evts, ack)) = AckIds(evts) \cup {ack.id}
      /\ OkIds(Append(evts, ack)) = OkIds(evts)
      /\ UniqueAcks(evts) /\ ack.id \notin AckIds(evts) => UniqueAcks(Append(evts, ack))
  BY <1>1, AppendAck, AppendProperties
<1> QED BY <1>1, <1>2 DEF ack

\* What a connection, its end or a report does: events that are not acks, a
\* session's commands lost, the handled ones of the pending to be acked.
LEMMA EventsStep ==
    ASSUME IInv, TypeOK', NEW more \in Seq(WsEvent),
           \A i \in DOMAIN more : more[i].kind # "ack",
           wsEvt' = wsEvt \o more,
           inbox' = inbox \/ inbox' = <<>>,
           UNCHANGED <<wsCmd, pending, outcome, handled>>,
           processed' \subseteq processed,
           acking' \subseteq PendingIds, acking' \subseteq acking \cup processed
    PROVE  IInv'
<1>1. wsEvt \in Seq(WsEvent)
  BY DEF IInv, TypeOK, ChannelsTypeOK
<1>2. /\ InCommands' = InCommands /\ PendingIds' = PendingIds
      /\ InAcks' = InAcks /\ OkIds(wsEvt)' = OkIds(wsEvt) /\ UniqueAcks(wsEvt)'
  BY <1>1, AppendOthers DEF IInv, Once, InCommands, PendingIds, InAcks
<1>3. InInbox' \subseteq InInbox /\ UniqueCommands(inbox)'
  BY NoCommands DEF IInv, Delivery, InInbox
<1>4. OnePlace' /\ Once' /\ Honesty'
  BY <1>2 DEF IInv, OnePlace, Once, Honesty
<1>5. Delivery'
  BY <1>2, <1>3 DEF IInv, Delivery
<1> QED BY <1>4, <1>5 DEF IInv

\* A handled command is acked: it leaves the pending ones as the ack is sent.
LEMMA AckHandledStep == IInv /\ TypeOK' /\ AckHandled /\ UNCHANGED clientVars => IInv'
<1> SUFFICES ASSUME IInv, TypeOK', AckHandled, UNCHANGED clientVars PROVE IInv'
  OBVIOUS
<1>1. PICK k \in DOMAIN pending :
        /\ pending[k] \in acking
        /\ wsEvt' = Append(wsEvt, Ack(pending[k], TRUE))
        /\ acking' = acking \ {pending[k]}
        /\ pending' = RemoveAt(pending, k)
  BY DEF AckHandled
<1>2. UNCHANGED <<wsCmd, inbox, processed, outcome, handled>>
  BY DEF AckHandled, ovenVars, clientVars
<1>3. /\ pending \in Seq(Ids) /\ pending[k] \in Ids
      /\ wsEvt \in Seq(WsEvent) /\ Ack(pending[k], TRUE) \in WsEvent
  BY ElementOfSeq, LenProperties, Built
  DEF IInv, TypeOK, ChannelsTypeOK, OvenTypeOK, DeviceTypeOK
<1>4. /\ PendingIds = PendingIds' \cup {pending[k]} /\ pending[k] \notin PendingIds'
      /\ UniquePending(pending)'
  BY <1>1, <1>3, RemovePending DEF IInv, Once, PendingIds
<1>5. pending[k] \notin InCommands \cup InAcks /\ handled[pending[k]] = 1
  BY <1>1, <1>4 DEF IInv, OnePlace, Honesty
<1>6. /\ InAcks' = InAcks \cup {pending[k]} /\ UniqueAcks(wsEvt)'
      /\ OkIds(wsEvt)' = OkIds(wsEvt) \cup {pending[k]}
  <2> DEFINE ack == Ack(pending[k], TRUE)
  <2>1. ack.kind = "ack" /\ ack.id = pending[k] /\ ack.ok
    BY DEF Ack
  <2>2. ack \in WsEvent /\ wsEvt' = Append(wsEvt, ack)
    BY <1>1, <1>3
  <2> HIDE DEF ack
  <2>3. /\ AckIds(wsEvt') = AckIds(wsEvt) \cup {ack.id}
        /\ OkIds(wsEvt') = OkIds(wsEvt) \cup {ack.id}
        /\ UniqueAcks(wsEvt) /\ ack.id \notin AckIds(wsEvt) => UniqueAcks(wsEvt')
    BY <1>3, <2>1, <2>2, AppendAck
  <2> QED BY <1>5, <2>1, <2>3 DEF IInv, Once, InAcks
<1>7. InCommands' = InCommands /\ InInbox' = InInbox
  BY <1>2 DEF InCommands, InInbox
<1>8. OnePlace'
  BY <1>2, <1>4, <1>5, <1>6, <1>7 DEF IInv, OnePlace
<1>9. Once' /\ Delivery'
  BY <1>2, <1>4, <1>6, <1>7 DEF IInv, Once, Delivery
<1>10. Honesty'
  BY <1>1, <1>2, <1>4, <1>5, <1>6 DEF IInv, Honesty
<1> QED BY <1>8, <1>9, <1>10 DEF IInv

\* The oldest command times out: it leaves the pending ones the same way, and
\* none is waiting to be acked as handled.
LEMMA AckTimeoutStep == IInv /\ TypeOK' /\ AckTimeout /\ UNCHANGED clientVars => IInv'
<1> SUFFICES ASSUME IInv, TypeOK', AckTimeout, UNCHANGED clientVars PROVE IInv'
  OBVIOUS
<1> DEFINE id == Head(pending)
<1>1. /\ acking = {} /\ pending # <<>> /\ pending' = Tail(pending)
      /\ wsEvt' = Append(wsEvt, Ack(id, FALSE))
      /\ UNCHANGED <<wsCmd, inbox, processed, acking, outcome, handled>>
  BY DEF AckTimeout, Idle, ovenVars, clientVars
<1>2. /\ pending \in Seq(Ids) /\ id \in Ids
      /\ wsEvt \in Seq(WsEvent) /\ Ack(id, FALSE) \in WsEvent
  BY <1>1, HeadTailProperties, Built
  DEF IInv, TypeOK, ChannelsTypeOK, OvenTypeOK, DeviceTypeOK
<1>3. /\ PendingIds = PendingIds' \cup {id} /\ id \notin PendingIds'
      /\ UniquePending(pending)'
  BY <1>1, <1>2, TailPending DEF IInv, Once, PendingIds
<1>4. id \notin InCommands \cup InAcks
  BY <1>3 DEF IInv, OnePlace
<1>5. /\ InAcks' = InAcks \cup {id} /\ UniqueAcks(wsEvt)'
      /\ OkIds(wsEvt)' = OkIds(wsEvt)
  BY <1>1, <1>2, <1>4, AppendFailure DEF IInv, Once, InAcks
<1>6. InCommands' = InCommands /\ InInbox' = InInbox
  BY <1>1 DEF InCommands, InInbox
<1>7. OnePlace'
  BY <1>1, <1>3, <1>4, <1>5, <1>6 DEF IInv, OnePlace
<1>8. Once' /\ Delivery' /\ Honesty'
  BY <1>1, <1>3, <1>5, <1>6 DEF IInv, Once, Delivery, Honesty
<1> QED BY <1>7, <1>8 DEF IInv

\* A command that is taken off the channel is answered, or pending and before
\* the oven.
LEMMA TakesCommandStep ==
    IInv /\ TypeOK' /\ DeviceTakesCommand /\ UNCHANGED clientVars => IInv'
<1> SUFFICES ASSUME IInv, TypeOK', DeviceTakesCommand, UNCHANGED clientVars PROVE IInv'
  OBVIOUS
<1> DEFINE cmd == Head(wsCmd)
           id == cmd.id
<1>1. /\ wsCmd # <<>> /\ wsCmd' = Tail(wsCmd)
      /\ UNCHANGED <<acking, processed, outcome, handled>>
  BY DEF DeviceTakesCommand, clientVars
<1>2. /\ wsCmd \in Seq(WsCommand) /\ wsEvt \in Seq(WsEvent)
      /\ inbox \in Seq(WsCommand) /\ pending \in Seq(Ids)
  BY DEF IInv, TypeOK, ChannelsTypeOK, OvenTypeOK, DeviceTypeOK
<1>3. cmd \in WsCommand /\ id \in Ids
  BY <1>1, <1>2, HeadTailProperties DEF WsCommand, Ids
<1>4. /\ InCommands = InCommands' \cup {id} /\ id \notin InCommands'
      /\ UniqueCommands(wsCmd)'
  BY <1>1, <1>2, TailCommands DEF IInv, Once, InCommands
<1>5. /\ id \notin PendingIds \cup InAcks \cup InInbox
      /\ outcome[id] = "waiting" /\ handled[id] = 0
  BY <1>3, <1>4 DEF IInv, OnePlace, Delivery
<1>6. LET evts == Append(wsEvt, Ack(id, FALSE))
      IN  /\ evts \in Seq(WsEvent)
          /\ AckIds(evts) = InAcks \cup {id} /\ OkIds(evts) = OkIds(wsEvt)
          /\ UniqueAcks(evts)
  BY <1>2, <1>3, <1>5, AppendFailure DEF IInv, Once, InAcks
<1>7. ASSUME AckIds(wsEvt') = InAcks \cup {id}, OkIds(wsEvt') = OkIds(wsEvt),
             UniqueAcks(wsEvt'), UNCHANGED pending, inbox' = inbox \/ inbox' = <<>>
      PROVE  IInv'
  <2>1. PendingIds' = PendingIds /\ InAcks' = InAcks \cup {id}
    BY <1>7 DEF PendingIds, InAcks
  <2>2. InInbox' \subseteq InInbox /\ UniqueCommands(inbox)'
    BY <1>7, NoCommands DEF IInv, Delivery, InInbox
  <2>3. OnePlace'
    BY <1>1, <1>4, <1>5, <2>1 DEF IInv, OnePlace
  <2>4. Once' /\ Honesty'
    BY <1>1, <1>4, <1>7, <2>1 DEF IInv, Once, Honesty
  <2>5. Delivery'
    BY <1>1, <1>4, <2>2 DEF IInv, Delivery
  <2> QED BY <2>3, <2>4, <2>5 DEF IInv
<1>8. CASE NoOven
  BY <1>6, <1>7, <1>8 DEF NoOven
<1>9. CASE SendFailed
  <2>1. /\ Farewell \in Seq(WsEvent)
        /\ \A i \in DOMAIN Farewell : Farewell[i].kind # "ack"
    BY Built DEF IInv, TypeOK, Farewell, Link
  <2>2. /\ AckIds(wsEvt') = InAcks \cup {id} /\ OkIds(wsEvt') = OkIds(wsEvt)
        /\ UniqueAcks(wsEvt')
    BY <1>6, <1>9, <2>1, AppendOthers DEF SendFailed
  <2> QED BY <1>7, <1>9, <2>2 DEF SendFailed
<1>10. CASE Sent
  <2>1. /\ pending' = Append(pending, id) /\ inbox' = Append(inbox, cmd)
        /\ UNCHANGED wsEvt
    BY <1>10 DEF Sent
  <2>2. /\ PendingIds' = PendingIds \cup {id} /\ UniquePending(pending)'
        /\ InInbox' = InInbox \cup {id} /\ UniqueCommands(inbox)'
        /\ InAcks' = InAcks
    BY <1>2, <1>3, <1>5, <2>1, AppendPending, AppendCommand
    DEF IInv, Once, Delivery, PendingIds, InInbox, InAcks
  <2>3. OnePlace'
    BY <1>1, <1>4, <1>5, <2>2 DEF IInv, OnePlace
  <2>4. Once' /\ Honesty'
    BY <1>1, <1>4, <2>1, <2>2 DEF IInv, Once, Honesty
  <2>5. Delivery'
    BY <1>1, <1>3, <1>4, <1>5, <2>2 DEF IInv, Delivery
  <2> QED BY <2>3, <2>4, <2>5 DEF IInv
<1> QED BY <1>8, <1>9, <1>10 DEF DeviceTakesCommand

\* The oven handles a command no earlier and no later one of its inbox has
\* the id of, or loses it.
LEMMA OvenActsStep == IInv /\ TypeOK' /\ OvenActs => IInv'
<1> SUFFICES ASSUME IInv, TypeOK', OvenActs PROVE IInv'
  OBVIOUS
<1>1. UNCHANGED <<wsCmd, wsEvt, pending, acking, outcome>>
  BY DEF OvenActs, deviceVars
<1>2. /\ InCommands' = InCommands /\ PendingIds' = PendingIds /\ InAcks' = InAcks
      /\ OnePlace' /\ Once'
  BY <1>1 DEF IInv, OnePlace, Once, InCommands, PendingIds, InAcks
<1>3. inbox \in Seq(WsCommand) /\ handled \in [Ids -> Nat]
  BY DEF IInv, TypeOK, OvenTypeOK, ClientTypeOK
<1>4. ASSUME inbox # <<>>, inbox' = Tail(inbox)
      PROVE  /\ InInbox = InInbox' \cup {Head(inbox).id}
             /\ Head(inbox).id \notin InInbox' /\ UniqueCommands(inbox)'
  BY <1>3, <1>4, TailCommands DEF IInv, Delivery, InInbox
<1>5. CASE OvenHandles /\ handled' = [handled EXCEPT ![Head(inbox).id] = @ + 1]
  <2> DEFINE id == Head(inbox).id
  <2>1. /\ InInbox = InInbox' \cup {id} /\ id \notin InInbox' /\ UniqueCommands(inbox)'
        /\ processed' = processed \cup {id}
    BY <1>4, <1>5 DEF OvenHandles
  <2>2. /\ id \in Ids /\ id \notin InCommands /\ handled[id] = 0
        /\ outcome[id] # "unissued"
    BY <2>1, IdTypes DEF IInv, Delivery
  <2>3. handled' = [handled EXCEPT ![id] = 1]
    BY <1>5, <2>2
  <2>4. Delivery'
    BY <1>1, <1>2, <1>3, <2>1, <2>2, <2>3, IdTypes DEF IInv, Delivery
  <2>5. processed \cup acking \cup OkIds(wsEvt) \subseteq Ids
    BY IdTypes DEF IInv, TypeOK, OvenTypeOK, DeviceTypeOK
  <2>6. Honesty'
    BY <1>1, <1>2, <1>3, <2>1, <2>2, <2>3, <2>5 DEF IInv, Honesty
  <2> QED BY <1>2, <2>4, <2>6 DEF IInv
<1>6. CASE OvenOnItsOwn /\ UNCHANGED handled
  <2>1. /\ InInbox' \subseteq InInbox /\ UniqueCommands(inbox)'
        /\ processed' = processed
    <3>1. CASE OvenDrops
      BY <1>4, <3>1 DEF OvenDrops
    <3>2. CASE UNCHANGED <<inbox, processed>>
      BY <3>2 DEF IInv, Delivery, InInbox
    <3> QED BY <1>6, <3>1, <3>2 DEF OvenOnItsOwn, PanelStart, PanelStop, StageEnds
  <2>2. Delivery' /\ Honesty'
    BY <1>1, <1>2, <1>6, <2>1 DEF IInv, Delivery, Honesty
  <2> QED BY <1>2, <2>2 DEF IInv
<1> QED BY <1>5, <1>6 DEF OvenActs

\* The invariant holds at first.
LEMMA InvInit == Init => IInv
<1> SUFFICES ASSUME Init PROVE IInv
  OBVIOUS
<1>1. /\ InCommands = {} /\ InInbox = {} /\ PendingIds = {} /\ InAcks = {}
      /\ OkIds(wsEvt) = {} /\ processed = {} /\ acking = {}
  BY NoCommands, NoEvents, NoPending
  DEF Init, OvenInit, DeviceInit, InCommands, InInbox, PendingIds, InAcks
<1>2. Once /\ UniqueCommands(inbox)
  BY NoCommands, NoEvents, NoPending DEF Init, OvenInit, DeviceInit, Once
<1>3. \A id \in Ids : outcome[id] = "unissued" /\ handled[id] = 0
  BY DEF Init
<1>4. OnePlace /\ Delivery /\ Honesty
  BY <1>1, <1>2, <1>3 DEF OnePlace, Delivery, Honesty
<1> QED BY <1>2, <1>4, TypeInit DEF IInv

\* Every step keeps the invariant.
LEMMA InvStep == IInv /\ [Next]_vars => IInv'
<1> SUFFICES ASSUME IInv, [Next]_vars PROVE IInv'
  OBVIOUS
<1>1. TypeOK' /\ OvenTypeOK
  BY TypeStep DEF IInv, TypeOK
<1>2. CASE Issue
  BY <1>1, <1>2, IssueStep
<1>3. CASE TakeEvent
  BY <1>1, <1>3, TakeEventStep
<1>4. CASE LinkStep
  <2>1. CASE OvenConnects
    <3>1. PICK rateSent \in BOOLEAN :
            wsEvt' = wsEvt \o ((IF session THEN Farewell ELSE <<>>) \o Greeting
                               \o (IF rateSent THEN <<>> ELSE Farewell))
      BY <2>1 DEF OvenConnects
    <3> DEFINE before == IF session THEN Farewell ELSE <<>>
               after == IF rateSent THEN <<>> ELSE Farewell
               more == before \o Greeting \o after
    <3>2. /\ before \in Seq(WsEvent) /\ Greeting \in Seq(WsEvent) /\ after \in Seq(WsEvent)
      BY <1>1, Built, EmptySeq
    <3>3. \A evts \in {before, Greeting, after} :
            \A i \in DOMAIN evts : evts[i].kind # "ack"
      BY DEF Greeting, Farewell, Link
    <3>4. wsEvt' = wsEvt \o more
      BY <3>1
    <3> HIDE DEF before, after
    <3>5. more \in Seq(WsEvent) /\ \A i \in DOMAIN more : more[i].kind # "ack"
      <4>1. /\ before \o Greeting \in Seq(WsEvent)
            /\ \A i \in DOMAIN (before \o Greeting) : (before \o Greeting)[i].kind # "ack"
        BY <3>2, <3>3, ConcatNoAcks
      <4> QED BY <3>2, <3>3, <4>1, ConcatNoAcks
    <3> HIDE DEF more
    <3> QED BY <1>1, <1>4, <2>1, <3>4, <3>5, EventsStep
            DEF OvenConnects, LinkStep, clientVars, IInv, Honesty
  <2>2. CASE SessionEnds
    <3>1. Farewell \in Seq(WsEvent) /\ \A i \in DOMAIN Farewell : Farewell[i].kind # "ack"
      BY <1>1, Built DEF Farewell, Link
    <3> QED BY <1>1, <1>4, <2>2, <3>1, EventsStep
            DEF SessionEnds, LinkStep, clientVars, IInv, Honesty
  <2>3. CASE OvenReports
    <3>0. PICK status \in Reports : wsEvt' = Append(wsEvt, ApoState(status, oven.cook))
      BY <2>3 DEF OvenReports
    <3> DEFINE evt == ApoState(status, oven.cook)
    <3>1. evt \in WsEvent /\ evt.kind # "ack"
      BY <1>1, Built DEF ApoState
    <3> HIDE DEF evt
    <3>2. <<evt>> \in Seq(WsEvent) /\ \A i \in DOMAIN <<evt>> : <<evt>>[i].kind # "ack"
      BY <3>1
    <3>3. wsEvt' = wsEvt \o <<evt>>
      BY <3>0, <3>1, AppendIsConcat DEF evt, IInv, TypeOK, ChannelsTypeOK
    <3>4. acking' = PendingIds \cap processed /\ processed' = {}
      BY <2>3 DEF OvenReports
    <3> QED BY <1>1, <1>4, <2>3, <3>2, <3>3, <3>4, EventsStep
            DEF OvenReports, LinkStep, clientVars
  <2>4. CASE AckHandled
    BY <1>1, <1>4, <2>4, AckHandledStep DEF LinkStep
  <2>5. CASE AckTimeout
    BY <1>1, <1>4, <2>5, AckTimeoutStep DEF LinkStep
  <2>6. CASE DeviceTakesCommand
    BY <1>1, <1>4, <2>6, TakesCommandStep DEF LinkStep
  <2> QED BY <1>4, <2>1, <2>2, <2>3, <2>4, <2>5, <2>6 DEF LinkStep, DeviceStep
<1>5. CASE OvenActs
  BY <1>1, <1>5, OvenActsStep
<1>6. CASE UNCHANGED vars
  BY <1>1, <1>6
  DEF vars, channels, ovenVars, deviceVars, clientVars, IInv, OnePlace, Once, Delivery,
      Honesty, InCommands, InInbox, PendingIds, InAcks
<1> QED BY <1>2, <1>3, <1>4, <1>5, <1>6 DEF Next

\* The strengthened invariant holds throughout.
THEOREM Invariant == Spec => []IInv
  BY InvInit, InvStep, PTL DEF Spec

\* A request is in the channel, pending, or in one ack on its way, and in one
\* of them exactly while its issuer waits: over reconnects, failed sends, and
\* deadlines that race a report.
THEOREM RequestInOnePlace == Spec => []OnePlace
<1>1. IInv => OnePlace
  BY DEF IInv
<1> QED BY <1>1, Invariant, PTL

-----------------------------------------------------------------------------
(* OvenLink implements CommandLink.                                        *)

\* A step of the link issues, carries out or answers a command, or is none of
\* the promise's concern.
LEMMA PromiseStep == IInv /\ IInv' /\ [Next]_vars => [Promise!Next]_(Promise!vars)
<1> SUFFICES ASSUME IInv, IInv', [Next]_vars PROVE [Promise!Next]_(Promise!vars)
  OBVIOUS
<1> USE DEF Promise!Next, Promise!vars
<1>1. CASE Issue
  <2>1. PICK cmd \in WsCommand :
          /\ outcome[cmd.id] = "unissued"
          /\ outcome' = [outcome EXCEPT ![cmd.id] = "waiting"]
    BY <1>1 DEF Issue
  <2>2. cmd.id \in Ids
    BY DEF WsCommand, Ids
  <2> QED BY <1>1, <2>1, <2>2 DEF Issue, Promise!Issue
<1>2. CASE TakeEvent
  <2>1. CASE Head(wsEvt).kind = "ack"
    <3> DEFINE evt == Head(wsEvt)
    <3>1. evt.id \in InAcks /\ (evt.ok => evt.id \in OkIds(wsEvt))
      BY <1>2, <2>1, TailEvents DEF TakeEvent, IInv, TypeOK, ChannelsTypeOK, InAcks
    <3>2. evt.id \in Ids /\ outcome[evt.id] = "waiting" /\ (evt.ok => handled[evt.id] = 1)
      BY <3>1, IdTypes DEF IInv, OnePlace, Honesty
    <3>3. /\ outcome' = [outcome EXCEPT ![evt.id] = IF evt.ok THEN "ok" ELSE "failed"]
          /\ UNCHANGED handled
      BY <1>2, <2>1 DEF TakeEvent
    <3>4. Promise!Answer(evt.id)
      <4>1. CASE evt.ok
        BY <3>2, <3>3, <4>1 DEF Promise!Answer
      <4>2. CASE ~evt.ok
        BY <3>2, <3>3, <4>2 DEF Promise!Answer
      <4> QED BY <4>1, <4>2
    <3> QED BY <3>2, <3>4
  <2>2. CASE Head(wsEvt).kind # "ack"
    BY <1>2, <2>2 DEF TakeEvent
  <2> QED BY <2>1, <2>2
<1>3. CASE LinkStep
  BY <1>3 DEF LinkStep, clientVars
<1>4. CASE OvenActs
  <2>1. CASE OvenHandles /\ handled' = [handled EXCEPT ![Head(inbox).id] = @ + 1]
    <3> DEFINE id == Head(inbox).id
    <3>1. id \in InInbox
      BY <2>1, TailCommands DEF OvenHandles, IInv, TypeOK, OvenTypeOK, InInbox
    <3>2. id \in Ids /\ handled[id] = 0 /\ outcome[id] # "unissued"
      BY <3>1, IdTypes DEF IInv, Delivery
    <3>3. handled' = [handled EXCEPT ![id] = 1] /\ UNCHANGED outcome
      BY <1>4, <2>1, <3>2 DEF OvenActs
    <3> QED BY <3>2, <3>3 DEF Promise!Handle
  <2>2. CASE UNCHANGED handled
    BY <1>4, <2>2 DEF OvenActs
  <2> QED BY <1>4, <2>1, <2>2 DEF OvenActs
<1>5. CASE UNCHANGED vars
  BY <1>5 DEF vars, clientVars
<1> QED BY <1>1, <1>2, <1>3, <1>4, <1>5 DEF Next

\* The device processor keeps the promise the state machine relies on: a
\* command reaches the oven at most once, is answered at most once, and "ok"
\* only if the oven handled it.
THEOREM KeepsThePromise == Spec => KeepsPromise
<1>1. Init => Promise!Init
  BY DEF Init, Promise!Init
<1> QED BY <1>1, Invariant, PromiseStep, PTL DEF Spec, KeepsPromise, Promise!Spec
=============================================================================
