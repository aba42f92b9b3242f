---------------------------- MODULE Cloud_proofs -----------------------------
(***************************************************************************)
(* What the server promises in cloud mode, for every timeout, any number   *)
(* of cooks, requests and frames under way, and any outages.               *)
(*                                                                         *)
(* Silence: the deadline is put off by a fresh report alone, and a report  *)
(* that comes over a connection that has been up for a while is as old as  *)
(* the cloud's snapshot, which is new (Timed).  A replay is known by the   *)
(* stamp of the last report seen; once that is the cloud's own, so are all *)
(* that are under way (Seen).  A command is accepted once the cooker's id  *)
(* was told on this connection, which the link knew before (Here).         *)
(***************************************************************************)
EXTENDS Cloud, SequenceTheorems, FiniteSetTheorems, TLAPS

StateFrame == {f \in Frame : f.kind = "state"}

Tokens == 0..TokenLife
Quiets == 0..StateTimeout
Marks == Stamps \cup {None}
Downs == 0..MaxDown
Ups == 0..(StateTimeout + 1)
Task == [phase: {"token", "dial", "up"}, token: Tokens, known: BOOLEAN, quiet: Quiets, last: Marks]
Health == [connected: BOOLEAN, online: BOOLEAN, down: Downs]
Past == [up: Ups, news: BOOLEAN, here: BOOLEAN, asked: SUBSET Ids]
OvenState == [cook: CookOrNone, linked: BOOLEAN, reported: BOOLEAN]

\* The parts of Types.
SmTyped ==
    /\ sm \in SmState /\ sm.controls = <<>> /\ announced \subseteq Ids
    /\ wsCmd \in Seq(WsCommand) /\ wsEvt \in Seq(WsEvent)
    /\ storeCmd \in Seq(StoreCommand) /\ storeEvt \in Seq(StoreEvent)
Linked ==
    /\ ws \in Task /\ live \in Health /\ socket \in {"none", "open", "half"}
    /\ live.connected <=> ws.phase = "up"
    /\ socket # "none" <=> ws.phase = "up"
    /\ wire \in Seq(Frame) /\ Len(wire) <= MaxWire
Around ==
    /\ oven \in OvenState /\ snapshot \in StateFrame
    /\ used \subseteq Ids /\ troubles \in 0..MaxTroubles /\ past \in Past

\* In cloud mode the state machine sends no controls.
Types == TypeOK /\ snapshot \in StateFrame /\ sm.controls = <<>>

\* A frame that is not a fresh report of an oven that is silent.
Timely(frame) ==
    frame.kind = "state" /\ frame.online => past.up = 0 \/ snapshot.age = 0

Timed ==
    /\ ws.phase = "up" => past.up = ws.quiet \/ snapshot.age <= ws.quiet
    /\ \A i \in 1..Len(wire) : Timely(wire[i])

\* A report that is the one the cloud has.
Latest(frame) == frame.kind = "state" /\ frame.stamp = snapshot.stamp
Older(frame) == frame.kind = "state" /\ frame.stamp # snapshot.stamp

Seen ==
    /\ \A i \in 1..Len(wire) : Latest(wire[i]) => \A j \in i..Len(wire) : ~Older(wire[j])
    /\ ~past.news => ws.last = snapshot.stamp /\ \A i \in 1..Len(wire) : ~Older(wire[i])

\* No event from the k-th on is of the end of a connection.
Lasts(q, k) == \A i \in k..Len(q) : q[i].kind # "disconnected"

Here ==
    /\ past.asked # {} => ws.known
    /\ past.here => ws.phase = "up" /\ Lasts(wsEvt, 1)
    /\ ws.known => ws.phase = "up"
    /\ sm.connectivity = "discovered" /\ Lasts(wsEvt, 1) => ws.known
    /\ \A i \in 1..Len(wsEvt) : wsEvt[i].kind = "discovered" /\ Lasts(wsEvt, i + 1) => ws.known

CInv == Types /\ Timed /\ Seen /\ Here

-----------------------------------------------------------------------------
(* Frames, and stamps for them.                                            *)

LEMMA FrameFields ==
    /\ \A f \in StateFrame :
         /\ f \in Frame /\ f.kind = "state" /\ f.status \in Status /\ f.cook \in CookOrNone
         /\ f.stamp \in Stamps /\ f.age \in Ages /\ f.online \in BOOLEAN
    /\ \A f \in Frame : f.kind = "state" => f \in StateFrame
    /\ \A f \in Frame : f.kind = "ack" => f \in AckEvent
    /\ \A f \in Frame : f.kind \in {"state", "wifi", "ack"}
    /\ [kind |-> "wifi"] \in Frame
    /\ \A id \in Ids, ok \in BOOLEAN : Ack(id, ok) \in Frame /\ Ack(id, ok).kind = "ack"
<1>1. \A f \in Frame : f.kind \in {"state", "wifi", "ack"}
  BY DEF Frame, AckEvent
<1>2. \A f \in Frame : f.kind = "ack" => f \in AckEvent
  BY DEF Frame, AckEvent
<1>3. \A f \in StateFrame :
         /\ f \in Frame /\ f.kind = "state" /\ f.status \in Status /\ f.cook \in CookOrNone
         /\ f.stamp \in Stamps /\ f.age \in Ages /\ f.online \in BOOLEAN
  BY DEF StateFrame, Frame, AckEvent
<1>4. \A f \in Frame : f.kind = "state" => f \in StateFrame
  BY DEF StateFrame
<1>5. [kind |-> "wifi"] \in Frame
  BY DEF Frame
<1>6. \A id \in Ids, ok \in BOOLEAN : Ack(id, ok) \in Frame /\ Ack(id, ok).kind = "ack"
  BY DEF Frame, AckEvent, Ack
<1> QED BY <1>1, <1>2, <1>3, <1>4, <1>5, <1>6

LEMMA AddOne ==
    ASSUME NEW S, IsFiniteSet(S), NEW x
    PROVE  /\ IsFiniteSet(S \cup {x}) /\ Cardinality(S) \in Nat /\ Cardinality(S \cup {x}) \in Nat
           /\ Cardinality(S \cup {x}) <= Cardinality(S) + 1
<1>1. IsFiniteSet(S \cup {x}) /\ Cardinality(S) \in Nat
      /\ Cardinality(S \cup {x}) = IF x \in S THEN Cardinality(S) ELSE Cardinality(S) + 1
  BY FS_AddElement, FS_CardinalityType
<1> QED BY <1>1

\* There is a stamp that neither the link, the cloud nor a frame has.
LEMMA StampLeft ==
    ASSUME Linked PROVE \E s \in Stamps : s \notin StampsInUse
<1> DEFINE F == {f.stamp : f \in {g \in Range(wire) : g.kind = "state"}}
           n == Len(wire)
           I == 1..n
           stampOf == [i \in I |-> wire[i].stamp]
           G == {stampOf[i] : i \in I}
           A == G \cup {ws.last}
           B == A \cup {snapshot.stamp}
<1>1. wire \in Seq(Frame) /\ n <= MaxWire /\ MaxWire \in Nat
  BY CloudLinkAssumption DEF Linked
<1>2. n \in Nat /\ DOMAIN wire = I
  BY <1>1, LenProperties
<1>3. F \subseteq G
  BY <1>2 DEF Range
<1> HIDE DEF n, F
<1>4. IsFiniteSet(I) /\ Cardinality(I) = n
  <2>1. 1 \in Int /\ n \in Int /\ (IF 1 > n THEN 0 ELSE n - 1 + 1) = n
    BY <1>2
  <2> QED BY <2>1, FS_Interval
<1>5. stampOf \in Surjection(I, G)
  BY DEF Surjection
<1> HIDE DEF stampOf
<1>6. IsFiniteSet(G) /\ Cardinality(G) <= n
  BY <1>4, <1>5, FS_Surjection
<1> HIDE DEF G, I
<1>7. /\ IsFiniteSet(A) /\ Cardinality(G) \in Nat /\ Cardinality(A) \in Nat
      /\ Cardinality(A) <= Cardinality(G) + 1
  BY <1>6, AddOne
<1> HIDE DEF A
<1>8. IsFiniteSet(B) /\ Cardinality(B) \in Nat /\ Cardinality(B) <= Cardinality(A) + 1
  BY <1>7, AddOne
<1>9. StampsInUse \subseteq B
  BY <1>3 DEF StampsInUse, A, F
<1> HIDE DEF B
<1>10. IsFiniteSet(Stamps) /\ Cardinality(Stamps) = MaxWire + 3
  <2>1. 0 \in Int /\ MaxWire + 2 \in Int
        /\ (IF 0 > MaxWire + 2 THEN 0 ELSE (MaxWire + 2) - 0 + 1) = MaxWire + 3
    BY <1>1
  <2> QED BY <2>1, FS_Interval DEF Stamps
<1> SUFFICES ASSUME Stamps \subseteq B PROVE FALSE
  BY <1>9
<1>11. Cardinality(Stamps) <= Cardinality(B)
  BY <1>8, FS_Subset
<1> QED BY <1>1, <1>2, <1>6, <1>7, <1>8, <1>10, <1>11

-----------------------------------------------------------------------------
(* The reducers of a report in cloud mode send nothing to the oven.        *)

Mute(r, c) ==
    /\ r \in Reduction /\ r.ws = <<>>
    /\ r.sm.controls = <<>> /\ r.sm.connectivity = c

LEMMA ReductionFields ==
    ASSUME NEW r \in Reduction
    PROVE  /\ r.sm \in SmState /\ r.ws \in Seq(WsCommand) /\ r.store \in Seq(StoreCommand)
           /\ r.failed \in SUBSET Ids
           /\ \A t \in SmState :
                LET q == [r EXCEPT !.sm = t]
                IN q \in Reduction /\ q.sm = t /\ q.ws = r.ws
  BY DEF Reduction

LEMMA OnMute ==
    ASSUME NEW s \in SmState
    PROVE  /\ On(s) \in Reduction
           /\ On(s).sm = s /\ On(s).ws = <<>> /\ On(s).store = <<>> /\ On(s).failed = {}
           /\ s.controls = <<>> => Mute(On(s), s.connectivity)
<1>1. <<>> \in Seq(WsCommand) /\ <<>> \in Seq(StoreCommand)
  BY EmptySeq
<1> HIDE DEF SmState
<1>2. /\ On(s) \in Reduction
      /\ On(s).sm = s /\ On(s).ws = <<>> /\ On(s).store = <<>> /\ On(s).failed = {}
  BY <1>1 DEF On, Reduction
<1> QED BY <1>2 DEF Mute

LEMMA AskMute ==
    ASSUME NEW r, NEW cmd \in StoreCommand
    PROVE  /\ r \in Reduction => /\ Ask(r, cmd) \in Reduction /\ Ask(r, cmd).sm = r.sm
                                /\ Ask(r, cmd).ws = r.ws /\ Ask(r, cmd).failed = r.failed
           /\ \A c : Mute(r, c) => Mute(Ask(r, cmd), c)
<1>1. SUFFICES ASSUME r \in Reduction
               PROVE  /\ Ask(r, cmd) \in Reduction /\ Ask(r, cmd).sm = r.sm
                      /\ Ask(r, cmd).ws = r.ws /\ Ask(r, cmd).failed = r.failed
  BY DEF Mute
<1>2. Append(r.store, cmd) \in Seq(StoreCommand)
  BY <1>1, ReductionFields, AppendProperties
<1> QED BY <1>1, <1>2 DEF Ask, Reduction

LEMMA FetchMute ==
    ASSUME NEW r \in Reduction
    PROVE  /\ FetchCurrentCook(r) \in Reduction /\ FetchCurrentCook(r).sm = r.sm
           /\ FetchCurrentCook(r).ws = r.ws /\ FetchCurrentCook(r).failed = r.failed
           /\ RefreshHistory(r) \in Reduction /\ RefreshHistory(r).sm = r.sm
           /\ RefreshHistory(r).ws = r.ws
           /\ \A c : Mute(r, c) => Mute(FetchCurrentCook(r), c) /\ Mute(RefreshHistory(r), c)
<1> DEFINE cook == IF r.sm.lifecycle = "StartPending" THEN None ELSE r.sm.oven_cook
<1>1. cook \in CookOrNone
  BY ReductionFields DEF SmState, CookOrNone
<1>2. [kind |-> "fetch", cook |-> cook] \in StoreCommand /\ [kind |-> "history"] \in StoreCommand
  BY <1>1 DEF StoreCommand
<1> QED BY <1>2, AskMute DEF FetchCurrentCook, RefreshHistory

\* The same reduction with another state.
LEMMA SetMute ==
    ASSUME NEW r, NEW c, Mute(r, c), NEW s \in SmState,
           s.controls = <<>>, s.connectivity = c
    PROVE  Mute([r EXCEPT !.sm = s], c)
<1>1. r \in Reduction
  BY DEF Mute
<1> DEFINE q == [r EXCEPT !.sm = s]
<1>2. q \in Reduction /\ q.sm = s /\ q.ws = r.ws
  BY <1>1, ReductionFields
<1> HIDE DEF q
<1>3. Mute(q, c)
  BY <1>2 DEF Mute
<1> QED BY <1>3 DEF q

LEMMA SmSets ==
    ASSUME NEW r \in Reduction
    PROVE  /\ \A v, l : [r EXCEPT !.sm.start = v, !.sm.lifecycle = l]
                          = [r EXCEPT !.sm = [r.sm EXCEPT !.start = v, !.lifecycle = l]]
           /\ \A v, w : [r EXCEPT !.sm.oven_cook = v, !.sm.watch = w]
                          = [r EXCEPT !.sm = [r.sm EXCEPT !.oven_cook = v, !.watch = w]]
           /\ \A v, w, l : [r EXCEPT !.sm.stop = v, !.sm.current_cook = w, !.sm.lifecycle = l]
                = [r EXCEPT !.sm = [r.sm EXCEPT !.stop = v, !.current_cook = w, !.lifecycle = l]]
           /\ \A v, l : [r EXCEPT !.sm.stop = v, !.sm.lifecycle = l]
                = [r EXCEPT !.sm = [r.sm EXCEPT !.stop = v, !.lifecycle = l]]
           /\ \A v : [r EXCEPT !.sm.current_cook = v]
                = [r EXCEPT !.sm = [r.sm EXCEPT !.current_cook = v]]
           /\ \A v : [r EXCEPT !.sm.status = v] = [r EXCEPT !.sm = [r.sm EXCEPT !.status = v]]
  BY DEF Reduction, SmState

\* A state that differs in what a report may change.
Beside(t, s) == t \in SmState /\ t.controls = s.controls /\ t.connectivity = s.connectivity
LEMMA SmWith ==
    ASSUME NEW s \in SmState
    PROVE  /\ Beside([s EXCEPT !.start = None, !.lifecycle = "Cooking"], s)
           /\ Beside([s EXCEPT !.start = None, !.lifecycle = "Idle"], s)
           /\ Beside([s EXCEPT !.stop = None, !.lifecycle = "Cooking"], s)
           /\ Beside([s EXCEPT !.stop = None, !.current_cook = None, !.lifecycle = "Idle"], s)
           /\ Beside([s EXCEPT !.current_cook = None], s)
           /\ \A x \in Status : Beside([s EXCEPT !.status = x], s)
           /\ \A x \in CookOrNone : Beside([s EXCEPT !.oven_cook = x, !.watch = None], s)
<1>1. None \in CookOrNone
  BY DEF CookOrNone
<1> QED BY <1>1 DEF SmState, Beside

LEMMA EdgeMute ==
    ASSUME ~Local, NEW r, NEW c, Mute(r, c), NEW status, NEW id
    PROVE  Mute(Edge(r, status, id), c)
<1>1. r \in Reduction /\ r.sm \in SmState /\ r.sm.controls = <<>> /\ r.sm.connectivity = c
  BY ReductionFields DEF Mute
<1>2. Mute(IdleToCooking(r, status, id), c)
  <2> DEFINE s == [r.sm EXCEPT !.start = None, !.lifecycle = "Cooking"]
             q == [r EXCEPT !.sm = s]
  <2>1. s \in SmState /\ s.controls = <<>> /\ s.connectivity = c
    BY <1>1, SmWith DEF Beside
  <2> HIDE DEF s
  <2>2. Mute(q, c)
    BY <2>1, SetMute
  <2>3. q = [r EXCEPT !.sm.start = None, !.sm.lifecycle = "Cooking"]
    BY <1>1, SmSets DEF s
  <2> HIDE DEF q
  <2>4. IdleToCooking(r, status, id) = RefreshHistory(FetchCurrentCook(q))
    BY <2>3 DEF IdleToCooking
  <2>5. Mute(FetchCurrentCook(q), c)
    BY <2>2, FetchMute DEF Mute
  <2> QED BY <2>4, <2>5, FetchMute DEF Mute
<1>3. Mute(CookingToIdle(r), c)
  <2> DEFINE p == RefreshHistory(r)
             s == [p.sm EXCEPT !.stop = None, !.current_cook = None, !.lifecycle = "Idle"]
  <2>1. Mute(p, c)
    BY <1>1, FetchMute
  <2> HIDE DEF p
  <2>2. p \in Reduction /\ p.sm \in SmState /\ p.sm.controls = <<>> /\ p.sm.connectivity = c
    BY <2>1, ReductionFields DEF Mute
  <2>3. s \in SmState /\ s.controls = <<>> /\ s.connectivity = c
    BY <2>2, SmWith DEF Beside
  <2>4. [p EXCEPT !.sm.stop = None, !.sm.current_cook = None, !.sm.lifecycle = "Idle"]
          = [p EXCEPT !.sm = s]
    BY <2>2, SmSets
  <2> HIDE DEF s
  <2> QED BY <2>1, <2>3, <2>4, SetMute DEF CookingToIdle, p
<1>4. Mute(FetchCurrentCook(r), c)
  BY <1>1, FetchMute
<1>5. Edge(r, status, id) \in
        {IdleToCooking(r, status, id), CookingToIdle(r), FetchCurrentCook(r), r}
  BY DEF Edge
<1> QED BY <1>2, <1>3, <1>4, <1>5

LEMMA SettleMute ==
    ASSUME NEW r, NEW c, Mute(r, c), NEW status
    PROVE  Mute(DropStaleCook(RollBackStart(r, status), status), c)
<1> DEFINE p == RollBackStart(r, status)
<1>1. Mute(p, c)
  <2> DEFINE s == [r.sm EXCEPT !.start = None, !.lifecycle = "Idle"]
  <2>1. r \in Reduction /\ r.sm \in SmState /\ r.sm.controls = <<>> /\ r.sm.connectivity = c
    BY ReductionFields DEF Mute
  <2>2. s \in SmState /\ s.controls = <<>> /\ s.connectivity = c
    BY <2>1, SmWith DEF Beside
  <2>3. [r EXCEPT !.sm.start = None, !.sm.lifecycle = "Idle"] = [r EXCEPT !.sm = s]
    BY <2>1, SmSets
  <2> HIDE DEF s
  <2>4. p \in {r, [r EXCEPT !.sm = s]}
    BY <2>3 DEF RollBackStart
  <2> QED BY <2>2, <2>4, SetMute
<1> HIDE DEF p
<1> DEFINE s == [p.sm EXCEPT !.current_cook = None]
<1>2. p \in Reduction /\ p.sm \in SmState /\ p.sm.controls = <<>> /\ p.sm.connectivity = c
  BY <1>1, ReductionFields DEF Mute
<1>3. s \in SmState /\ s.controls = <<>> /\ s.connectivity = c
  BY <1>2, SmWith DEF Beside
<1>4. [p EXCEPT !.sm.current_cook = None] = [p EXCEPT !.sm = s]
  BY <1>2, SmSets
<1> HIDE DEF s
<1>5. DropStaleCook(p, status) \in {p, [p EXCEPT !.sm = s]}
  BY <1>4 DEF DropStaleCook
<1> QED BY <1>1, <1>3, <1>5, SetMute DEF p

LEMMA ReportMute ==
    ASSUME ~Local, NEW s \in SmState, s.controls = <<>>, NEW status \in Status,
           NEW x \in CookOrNone, NEW over, NEW a, NEW b, NEW d
    PROVE  Mute(ReduceReport(s, status, x, over, a, b, d), s.connectivity)
<1> DEFINE c == s.connectivity
           told == ReportToStore(s, x)
           t == [told.sm EXCEPT !.oven_cook = x, !.watch = None]
           r == [told EXCEPT !.sm = t]
           edged == Edge(r, status, b)
           settled == DropStaleCook(RollBackStart(edged, status), status)
           u == [settled.sm EXCEPT !.status = status]
           done == [settled EXCEPT !.sm = u]
<1>1. Mute(told, c)
  <2>1. [kind |-> "reported", cook |-> x] \in StoreCommand
    BY DEF StoreCommand
  <2>2. Mute(On(s), c)
    BY OnMute
  <2> QED BY <2>1, <2>2, AskMute DEF ReportToStore
<1> HIDE DEF told
<1>2. told \in Reduction /\ told.sm \in SmState /\ told.sm.controls = <<>> /\ told.sm.connectivity = c
  BY <1>1, ReductionFields DEF Mute
<1>3. t \in SmState /\ t.controls = <<>> /\ t.connectivity = c
  BY <1>2, SmWith DEF Beside
<1>4. r = [told EXCEPT !.sm.oven_cook = x, !.sm.watch = None]
  BY <1>2, SmSets
<1> HIDE DEF t
<1>5. Mute(r, c)
  BY <1>1, <1>3, SetMute
<1> HIDE DEF r
<1>6. Mute(edged, c)
  BY <1>5, EdgeMute
<1> HIDE DEF edged
<1>7. Mute(settled, c)
  BY <1>6, SettleMute
<1> HIDE DEF settled
<1>8. settled \in Reduction /\ settled.sm \in SmState
      /\ settled.sm.controls = <<>> /\ settled.sm.connectivity = c
  BY <1>7, ReductionFields DEF Mute
<1>9. u \in SmState /\ u.controls = <<>> /\ u.connectivity = c
  BY <1>8, SmWith DEF Beside
<1>10. [settled EXCEPT !.sm.status = status] = done
  BY <1>8, SmSets
<1> HIDE DEF u
<1>11. Mute(done, c)
  BY <1>7, <1>9, SetMute
<1> HIDE DEF done
<1>12. Watch(s, status, x, over) = None
  BY DEF Watch, Preheating
<1>13. ~StartsNextStage(s, None, status, x) /\ ShownStatus(s, None, status, x) = status
  BY DEF StartsNextStage, ShownStatus
<1>14. ReduceReport(s, status, x, over, a, b, d) = ApplyApoState(r, status, a, b, d)
  BY <1>4, <1>12, <1>13 DEF ReduceReport, told
<1>15. ApplyApoState(r, status, a, b, d) = TurnOffWhenDone(done, a, d)
  BY <1>10 DEF ApplyApoState, settled, edged
<1>16. TurnOffWhenDone(done, a, d) = done
  BY DEF TurnOffWhenDone, TurnOffIsDue
<1> QED BY <1>11, <1>14, <1>15, <1>16

\* An ack, or the loss of a request, changes what the state machine waits for.
LEMMA AckMute ==
    ASSUME NEW s \in SmState, s.controls = <<>>, NEW id \in Ids, NEW ok, ~Local
    PROVE  Mute(ApplyCommandAck(s, id, ok), s.connectivity)
<1> DEFINE c == s.connectivity
           a == [s EXCEPT !.start = None, !.lifecycle = "Idle"]
           b == [s EXCEPT !.stop = None, !.lifecycle = "Cooking"]
<1>1. a \in SmState /\ a.controls = <<>> /\ a.connectivity = c
      /\ b \in SmState /\ b.controls = <<>> /\ b.connectivity = c
  BY SmWith DEF Beside
<1>2. Mute(On(s), c) /\ Mute(On(a), c) /\ Mute(On(b), c)
  BY <1>1, OnMute
<1>3. \A r, i : Mute(r, c) /\ i \in Ids => Mute(Fail(r, i), c)
  BY DEF Mute, Fail, Reduction
<1>4. Mute(StartAcked(s), c)
  BY <1>2, FetchMute DEF StartAcked, Mute
<1>5. StartFailed(s) = Fail(On(a), s.start) /\ StopFailed(s) = Fail(On(b), s.stop)
  BY DEF StartFailed, StopFailed
<1>6. id \notin Range(s.controls)
  BY EmptySeq DEF Range
<1> HIDE DEF a, b
<1>7. CASE id = s.start
  BY <1>2, <1>3, <1>4, <1>5, <1>7 DEF ApplyCommandAck
<1>8. CASE id # s.start
  BY <1>2, <1>3, <1>5, <1>6, <1>8 DEF ApplyCommandAck
<1> QED BY <1>7, <1>8

-----------------------------------------------------------------------------
(* Types.                                                                  *)

LEMMA Statuses ==
    /\ None \in CookOrNone /\ Cooks \subseteq CookOrNone /\ CookOrNone \ {None} = Cooks
    /\ \A cook \in CookOrNone : StatusOf(cook) \in Status
  BY MessagesAssumption DEF CookOrNone, StatusOf, Status

LEMMA RelaysTyped ==
    ASSUME Linked, NEW f \in Frame, Relays(f), UNCHANGED <<ws, live, socket>>
    PROVE  Linked'
<1>1. wire \in Seq(Frame) /\ Len(wire) <= MaxWire /\ MaxWire \in Nat
  BY CloudLinkAssumption DEF Linked
<1>2. Append(wire, f) \in Seq(Frame) /\ Len(Append(wire, f)) = Len(wire) + 1 /\ Len(wire) \in Nat
  BY <1>1, AppendProperties, LenProperties
<1>3. wire' \in Seq(Frame) /\ Len(wire') <= MaxWire
  BY <1>1, <1>2 DEF Relays
<1> QED BY <1>3 DEF Linked

LEMMA Performed ==
    ASSUME SmTyped, NEW r \in Reduction, r.sm.controls = <<>>, Perform(r), UNCHANGED storeEvt,
           wsEvt' \in Seq(WsEvent)
    PROVE  SmTyped' /\ sm' = r.sm
<1>1. r.sm \in SmState /\ r.ws \in Seq(WsCommand) /\ r.store \in Seq(StoreCommand)
      /\ r.failed \in SUBSET Ids
  BY ReductionFields
<1>2. wsCmd \o r.ws \in Seq(WsCommand) /\ storeCmd \o r.store \in Seq(StoreCommand)
  BY <1>1, ConcatProperties DEF SmTyped
<1> QED BY <1>1, <1>2 DEF SmTyped, Perform

LEMMA TailTyped ==
    ASSUME NEW S, NEW q \in Seq(S), q # <<>>
    PROVE  /\ Tail(q) \in Seq(S) /\ Head(q) \in S /\ Head(q) = q[1]
           /\ Len(q) \in Nat \ {0} /\ Len(Tail(q)) = Len(q) - 1
           /\ \A i \in 1..Len(Tail(q)) : Tail(q)[i] = q[i + 1]
<1>1. /\ Head(q) \in S /\ Tail(q) \in Seq(S) /\ Len(Tail(q)) = Len(q) - 1
      /\ \A i \in 1..Len(Tail(q)) : Tail(q)[i] = q[i + 1]
  BY HeadTailProperties
<1>2. Len(q) \in Nat \ {0} /\ Head(q) = q[1]
  BY EmptySeq
<1> QED BY <1>1, <1>2

LEMMA EventFields ==
    /\ \A e \in WsEvent : e.kind = "state" => e.status \in Status /\ e.cook \in CookOrNone
    /\ \A e \in WsEvent : e.kind = "ack" => e.id \in Ids
    /\ \A f \in StateFrame : ApoState(f.status, f.cook) \in WsEvent
    /\ AckEvent \subseteq WsEvent
    /\ \A k \in {"connected", "disconnected", "discovered"} :
         Link(k) \in WsEvent /\ Link(k).kind = k
<1>1. \A e \in WsEvent : e.kind = "state" => e.status \in Status /\ e.cook \in CookOrNone
  BY DEF WsEvent, LinkEvent, StateEvent, AckEvent
<1>2. \A e \in WsEvent : e.kind = "ack" => e.id \in Ids
  BY DEF WsEvent, LinkEvent, StateEvent, AckEvent
<1>3. \A s \in Status, x \in CookOrNone : ApoState(s, x) \in WsEvent
  BY DEF WsEvent, StateEvent, ApoState
<1>4. \A f \in StateFrame : ApoState(f.status, f.cook) \in WsEvent
  BY <1>3, FrameFields
<1>5. AckEvent \subseteq WsEvent
  BY DEF WsEvent
<1>6. \A k \in {"connected", "disconnected", "discovered"} :
         Link(k) \in WsEvent /\ Link(k).kind = k
  BY DEF WsEvent, LinkEvent, Link
<1> QED BY <1>1, <1>2, <1>4, <1>5, <1>6

\* A start or a stop sends one command; what it tracks is it.
LEMMA ClientTyped ==
    ASSUME SmTyped, ~Local, NEW id \in Ids
    PROVE  /\ id \in Cooks /\ StartCook(id, FALSE) =>
                SmTyped' /\ sm'.connectivity = sm.connectivity /\ CookerKnown(sm)
           /\ id \in Requests /\ StopCook(id, id) =>
                SmTyped' /\ sm'.connectivity = sm.connectivity /\ CookerKnown(sm)
<1>1. sm \in SmState /\ sm.controls = <<>> /\ wsEvt \in Seq(WsEvent)
  BY DEF SmTyped
<1>2. \A r \in Reduction, cmd \in WsCommand :
         /\ Send(r, cmd) \in Reduction /\ Send(r, cmd).sm = r.sm
  <2> SUFFICES ASSUME NEW r \in Reduction, NEW cmd \in WsCommand
               PROVE  Send(r, cmd) \in Reduction /\ Send(r, cmd).sm = r.sm
    OBVIOUS
  <2>1. Append(r.ws, cmd) \in Seq(WsCommand)
    BY ReductionFields, AppendProperties
  <2> QED BY <2>1 DEF Send, Reduction
<1>3. ASSUME id \in Cooks, StartCook(id, FALSE)
      PROVE  SmTyped' /\ sm'.connectivity = sm.connectivity /\ CookerKnown(sm)
  <2> DEFINE seeded == [cook |-> id, title |-> "started", turnOff |-> FALSE]
             s == [sm EXCEPT !.start = id, !.lifecycle = "StartPending", !.current_cook = seeded]
             sent == Send(On(s), Command("start", id))
             r == Ask(sent, [kind |-> "started", cook |-> id, turnOff |-> FALSE])
  <2>1. seeded \in CurrentCook
    BY <1>3 DEF CurrentCook, Titles
  <2>2. s \in SmState /\ s.controls = <<>> /\ s.connectivity = sm.connectivity
    BY <1>1, <1>3, <2>1 DEF SmState, CookOrNone
  <2> HIDE DEF s
  <2>3. On(s) \in Reduction /\ On(s).sm = s
    BY <2>2, OnMute
  <2>4. Command("start", id) \in WsCommand
    BY <1>3 DEF Command, WsCommand
  <2>5. sent \in Reduction /\ sent.sm = s
    BY <1>2, <2>3, <2>4
  <2> HIDE DEF sent
  <2>6. [kind |-> "started", cook |-> id, turnOff |-> FALSE] \in StoreCommand
    BY <1>3 DEF StoreCommand
  <2>7. r \in Reduction /\ r.sm = s
    BY <2>5, <2>6, AskMute
  <2>8. Start(sm, id, FALSE) = r
    BY DEF Start, r, sent, s
  <2> HIDE DEF r
  <2>9. SmTyped' /\ sm' = s
    BY <1>1, <1>3, <2>2, <2>7, <2>8, Performed DEF StartCook
  <2> QED BY <1>3, <2>2, <2>9 DEF StartCook, CanStart
<1>4. ASSUME id \in Requests, StopCook(id, id)
      PROVE  SmTyped' /\ sm'.connectivity = sm.connectivity /\ CookerKnown(sm)
  <2> DEFINE s == [sm EXCEPT !.stop = id, !.lifecycle = "StopPending"]
             q == [On(sm) EXCEPT !.sm = s]
             r == Send(q, Command("stop", id))
  <2>1. s \in SmState /\ s.controls = <<>> /\ s.connectivity = sm.connectivity
    BY <1>1, <1>4 DEF SmState
  <2> HIDE DEF s
  <2>2. On(sm) \in Reduction /\ On(sm).sm = sm
    BY <1>1, OnMute
  <2>3. q \in Reduction /\ q.sm = s
    BY <2>1, <2>2, ReductionFields
  <2>4. q = [On(sm) EXCEPT !.sm.stop = id, !.sm.lifecycle = "StopPending"]
    BY <2>2, SmSets DEF s
  <2> HIDE DEF q
  <2>5. Command("stop", id) \in WsCommand
    BY <1>4 DEF Command, WsCommand
  <2>6. r \in Reduction /\ r.sm = s
    BY <1>2, <2>3, <2>5
  <2>7. Stop(On(sm), id, id) = r
    BY <2>4 DEF Stop
  <2> HIDE DEF r
  <2>8. SmTyped' /\ sm' = s
    BY <1>1, <1>4, <2>1, <2>6, <2>7, Performed DEF StopCook
  <2> QED BY <1>4, <2>1, <2>8 DEF StopCook, CanStop
<1> QED BY <1>3, <1>4

\* An event: a report and an ack leave the connectivity alone.
LEMMA EventTyped ==
    ASSUME SmTyped, ~Local
    PROVE  /\ TakeApoState(None, None, None) \/ TakeAck =>
                SmTyped' /\ sm'.connectivity = sm.connectivity
           /\ TakeLink =>
                /\ SmTyped'
                /\ sm'.connectivity = IF Head(wsEvt).kind = "connected" /\ sm.connectivity # "disconnected"
                                      THEN sm.connectivity ELSE Head(wsEvt).kind
<1> DEFINE e == Head(wsEvt)
<1>1. sm \in SmState /\ sm.controls = <<>> /\ wsEvt \in Seq(WsEvent)
  BY DEF SmTyped
<1>2. wsEvt # <<>> => e \in WsEvent /\ Tail(wsEvt) \in Seq(WsEvent)
  BY <1>1, TailTyped
<1> HIDE DEF e
<1>3. \A r, c : Mute(r, c) => r \in Reduction /\ r.sm.controls = <<>> /\ r.sm.connectivity = c
  BY DEF Mute
<1>4. ASSUME TakeApoState(None, None, None)
      PROVE  SmTyped' /\ sm'.connectivity = sm.connectivity
  <2>1. wsEvt # <<>> /\ e.kind = "state" /\ wsEvt' = Tail(wsEvt) /\ UNCHANGED storeEvt
    BY <1>4 DEF TakeApoState, e
  <2>2. PICK over \in BOOLEAN :
           Perform(ReduceReport(sm, e.status, e.cook, over, None, None, None))
    BY <1>4 DEF TakeApoState, e
  <2> DEFINE r == ReduceReport(sm, e.status, e.cook, over, None, None, None)
  <2>3. e.status \in Status /\ e.cook \in CookOrNone
    BY <1>2, <2>1, EventFields
  <2>4. Mute(r, sm.connectivity)
    BY <1>1, <2>3, ReportMute
  <2> HIDE DEF r
  <2> QED BY <1>2, <1>3, <2>1, <2>2, <2>4, Performed DEF r
<1>5. ASSUME TakeAck PROVE SmTyped' /\ sm'.connectivity = sm.connectivity
  <2> DEFINE r == ApplyCommandAck(sm, e.id, e.ok)
  <2>1. wsEvt # <<>> /\ e.kind = "ack" /\ wsEvt' = Tail(wsEvt) /\ UNCHANGED storeEvt /\ Perform(r)
    BY <1>5 DEF TakeAck, e
  <2>2. Mute(r, sm.connectivity)
    BY <1>1, <1>2, <2>1, EventFields, AckMute
  <2> HIDE DEF r
  <2> QED BY <1>2, <1>3, <2>1, <2>2, Performed
<1>6. ASSUME TakeLink
      PROVE  /\ SmTyped'
             /\ sm'.connectivity = IF e.kind = "connected" /\ sm.connectivity # "disconnected"
                                   THEN sm.connectivity ELSE e.kind
  <2> DEFINE c == IF e.kind = "connected" /\ sm.connectivity # "disconnected"
                  THEN sm.connectivity ELSE e.kind
             s == [sm EXCEPT !.connectivity = c]
             r == On(s)
  <2>1. /\ wsEvt # <<>> /\ e.kind \in {"connected", "disconnected", "discovered"}
        /\ wsEvt' = Tail(wsEvt) /\ UNCHANGED storeEvt /\ Perform(ApplyLink(sm, e.kind))
    BY <1>6 DEF TakeLink, e
  <2>2. c \in {"connected", "disconnected", "discovered"}
    BY <1>1, <2>1 DEF SmState
  <2>3. ApplyLink(sm, e.kind) = r
    BY DEF ApplyLink
  <2> HIDE DEF c
  <2>4. s \in SmState /\ s.controls = <<>> /\ s.connectivity = c
    BY <1>1, <2>2 DEF SmState
  <2> HIDE DEF s
  <2>5. r \in Reduction /\ r.sm = s
    BY <2>4, OnMute
  <2> HIDE DEF r
  <2>6. SmTyped' /\ sm' = s
    BY <1>2, <2>1, <2>3, <2>4, <2>5, Performed
  <2> QED BY <2>4, <2>6 DEF c
<1> QED BY <1>4, <1>5, <1>6 DEF e

-----------------------------------------------------------------------------
(* One lemma per part of the invariant, with a step per action.            *)

LEMMA TypesParts ==
    /\ Linked <=> LinkTypeOK
    /\ Types <=> SmTyped /\ Linked /\ Around
  BY DEF Types, TypeOK, ChannelsTypeOK, SmTypeOK, SmTyped, StateFrame, Linked, LinkTypeOK,
         Around, Task, Health, Past, OvenState, Tokens, Quiets, Marks, Downs, Ups

LEMMA TypesNext == SmTyped' /\ Linked' /\ Around' => Types'
  BY DEF Types, TypeOK, ChannelsTypeOK, SmTypeOK, SmTyped, StateFrame, Linked, LinkTypeOK,
         Around, Task, Health, Past, OvenState, Tokens, Quiets, Marks, Downs, Ups

LEMMA Numbers ==
    /\ StateTimeout \in Nat \ {0} /\ TokenLife \in Nat \ {0} /\ MaxDown \in Nat \ {0}
    /\ 0 \in Tokens /\ TokenLife \in Tokens /\ 0 \in Quiets /\ 0 \in Downs /\ 0 \in Ups /\ 0 \in Ages
    /\ \A t \in Tokens : Up(t, TokenLife) \in Tokens
    /\ \A d \in Downs : Up(d, MaxDown) \in Downs
    /\ \A n \in Ups : Up(n, StateTimeout + 1) \in Ups
    /\ \A n \in Ages : Up(n, StateTimeout + 1) \in Ages
    /\ \A q \in Quiets : q < StateTimeout => q + 1 \in Quiets
    /\ Stamps \subseteq Marks /\ None \in Marks
  BY CloudLinkAssumption DEF Tokens, Quiets, Downs, Ups, Ages, Up, Marks

LEMMA Pasts ==
    ASSUME past \in Past
    PROVE  /\ \A n \in Ups : [past EXCEPT !.up = n] \in Past
           /\ \A v \in BOOLEAN : [past EXCEPT !.news = v] \in Past
           /\ \A v \in BOOLEAN : [past EXCEPT !.here = v] \in Past
           /\ \A a \in SUBSET Ids : [past EXCEPT !.asked = a] \in Past
           /\ [past EXCEPT !.up = 0, !.here = FALSE, !.asked = {}] \in Past
<1>1. 0 \in Ups
  BY Numbers
<1> QED BY <1>1 DEF Past

LEMMA InitTypes == Init => Types
<1> SUFFICES ASSUME Init PROVE Types
  OBVIOUS
<1>1. SmTyped
  <2>1. /\ <<>> \in Seq(WsCommand) /\ <<>> \in Seq(WsEvent) /\ <<>> \in Seq(StoreCommand)
        /\ <<>> \in Seq(StoreEvent) /\ <<>> \in Seq(Requests) /\ <<>> \in Seq(HistoryEntry)
    BY EmptySeq
  <2>2. SmInitState \in SmState /\ SmInitState.controls = <<>>
    BY <2>1, Statuses DEF SmInitState, SmState
  <2> QED BY <2>1, <2>2 DEF Init, SmInit, SmTyped
<1>2. Linked
  <2>1. <<>> \in Seq(Frame) /\ Len(<<>>) = 0 /\ 0 <= MaxWire
    BY EmptySeq, CloudLinkAssumption
  <2>2. ws \in Task /\ live \in Health
    BY Numbers DEF Init, LinkInit, Task, Health
  <2> QED BY <2>1, <2>2 DEF Init, LinkInit, Linked
<1>3. Around
  <2>1. StatusOf(None) \in Status /\ None \in CookOrNone /\ 0 \in Stamps /\ 0 \in Ages
    BY Statuses, Numbers, CloudLinkAssumption DEF Stamps
  <2>2. snapshot \in StateFrame
    BY <2>1 DEF Init, StateFrame, Frame
  <2>3. past \in Past /\ oven \in OvenState /\ 0 \in 0..MaxTroubles
    BY <2>1, Numbers, CloudAssumption DEF Init, Past, OvenState
  <2> QED BY <2>2, <2>3 DEF Init, Around
<1> QED BY <1>1, <1>2, <1>3, TypesParts

\* The cloud and the oven.
LEMMA OvenTypes ==
    ASSUME Types, OvenReports \/ OvenChanges \/ OvenLost \/ CloudNotices \/ OvenBack
    PROVE  Types'
<1>1. /\ SmTyped /\ Linked /\ oven \in OvenState /\ snapshot \in StateFrame
      /\ used \subseteq Ids /\ troubles \in 0..MaxTroubles /\ past \in Past
  BY TypesParts DEF Around
<1>2. UNCHANGED <<channels, smVars>> => SmTyped'
  BY <1>1 DEF SmTyped, channels, smVars
<1>3. UNCHANGED linkVars => Linked'
  BY <1>1 DEF Linked, linkVars
<1>4. CASE OvenReports
  <2> DEFINE s == CHOOSE x \in Stamps : x \notin StampsInUse
             f == [kind |-> "state", status |-> StatusOf(oven.cook), cook |-> oven.cook,
                   stamp |-> s, age |-> 0, online |-> TRUE]
  <2>1. s \in Stamps
    BY <1>1, StampLeft
  <2> HIDE DEF s
  <2>2. 0 \in Ages /\ StatusOf(oven.cook) \in Status /\ oven.cook \in CookOrNone
    BY <1>1, Statuses, Numbers DEF OvenState
  <2>3. f \in StateFrame /\ f \in Frame
    BY <2>1, <2>2 DEF StateFrame, Frame
  <2>4. snapshot' = f
    BY <1>4 DEF OvenReports, s
  <2> HIDE DEF f
  <2>5. Linked'
    BY <1>1, <1>4, <2>3, <2>4, RelaysTyped DEF OvenReports
  <2>6. oven' \in OvenState
    BY <1>1, <1>4 DEF OvenReports, OvenState
  <2>7. Around'
    BY <1>1, <1>4, <2>3, <2>4, <2>6, Pasts DEF OvenReports, Around
  <2> QED BY <1>2, <1>4, <2>5, <2>7, TypesNext DEF OvenReports
<1>5. CASE OvenChanges
  <2>1. oven' \in OvenState
    BY <1>1, <1>5, Statuses DEF OvenChanges, OvenState
  <2>2. used' \subseteq Ids
    BY <1>1, <1>5 DEF OvenChanges, Ids
  <2>3. Around'
    BY <1>1, <1>5, <2>1, <2>2 DEF OvenChanges, Around
  <2> QED BY <1>2, <1>3, <1>5, <2>3, TypesNext DEF OvenChanges
<1>6. CASE OvenLost
  <2>1. troubles' \in 0..MaxTroubles
    BY <1>1, <1>6, CloudAssumption DEF OvenLost, Trouble
  <2>2. oven' \in OvenState
    BY <1>1, <1>6 DEF OvenLost, OvenState
  <2>3. Around'
    BY <1>1, <1>6, <2>1, <2>2 DEF OvenLost, Around
  <2> QED BY <1>2, <1>3, <1>6, <2>3, TypesNext DEF OvenLost
<1>7. CASE CloudNotices
  <2> DEFINE f == [snapshot EXCEPT !.online = FALSE]
  <2>1. f \in StateFrame
    BY <1>1 DEF StateFrame, Frame, AckEvent
  <2>2. f \in Frame
    BY <2>1, FrameFields
  <2>3. snapshot' = f
    BY <1>7 DEF CloudNotices
  <2> HIDE DEF f
  <2>4. Linked'
    BY <1>1, <1>7, <2>2, <2>3, RelaysTyped DEF CloudNotices
  <2>5. Around'
    BY <1>1, <1>7, <2>1, <2>3 DEF CloudNotices, Around
  <2> QED BY <1>2, <1>7, <2>4, <2>5, TypesNext DEF CloudNotices
<1>8. CASE OvenBack
  <2>1. oven' \in OvenState
    BY <1>1, <1>8 DEF OvenBack, OvenState
  <2>2. Around'
    BY <1>1, <1>8, <2>1 DEF OvenBack, Around
  <2> QED BY <1>2, <1>3, <1>8, <2>2, TypesNext DEF OvenBack
<1> QED BY <1>4, <1>5, <1>6, <1>7, <1>8

LEMMA EndsTyped ==
    ASSUME Linked, SmTyped, NEW b \in BOOLEAN, Ends(b), UNCHANGED <<smVars, storeCmd, storeEvt>>
    PROVE  Linked' /\ SmTyped'
<1>1. ws' = Ended(ws) /\ live' = Dropped(b) /\ socket' = "none" /\ wire' = <<>>
      /\ wsEvt' = Append(wsEvt, Link("disconnected")) /\ wsCmd' = wsCmd
  BY DEF Ends, Tell
<1>2. wsEvt' \in Seq(WsEvent)
  BY <1>1, AppendProperties, EventFields DEF SmTyped
<1>3. wire' \in Seq(Frame) /\ Len(wire') <= MaxWire
  BY <1>1, EmptySeq, CloudLinkAssumption
<1>4. ws' \in Task /\ ws'.phase = "token"
  BY <1>1, Numbers DEF Linked, Ended, Task
<1>5. live' \in Health /\ ~live'.connected
  BY <1>1, Numbers DEF Linked, Dropped, Tracked, Health
<1> QED BY <1>1, <1>2, <1>3, <1>4, <1>5 DEF Linked, SmTyped, smVars

LEMMA LinkTypes ==
    ASSUME Types, \/ LinkGetsToken \/ LinkConnects \/ LinkTimesOut \/ LinkFails \/ HalfOpens
                  \/ LinkTakesFrame \/ LinkTakesPing \/ LinkTakesCommand
    PROVE  Types'
<1>1. /\ SmTyped /\ Linked /\ oven \in OvenState /\ snapshot \in StateFrame
      /\ used \subseteq Ids /\ troubles \in 0..MaxTroubles /\ past \in Past
  BY TypesParts DEF Around
<1>2. /\ ws \in Task /\ live \in Health
      /\ live.connected <=> ws.phase = "up"
      /\ socket # "none" <=> ws.phase = "up"
      /\ wire \in Seq(Frame) /\ Len(wire) <= MaxWire
  BY <1>1 DEF Linked
<1>3. ASSUME Trouble PROVE troubles' \in 0..MaxTroubles
  BY <1>1, <1>3, CloudAssumption DEF Trouble
<1>4. UNCHANGED <<cloudVars, used>> /\ troubles' \in 0..MaxTroubles /\ past' \in Past => Around'
  BY <1>1 DEF cloudVars, Around
<1>5. UNCHANGED <<smVars, storeCmd, storeEvt, wsCmd>> /\ wsEvt' \in Seq(WsEvent) => SmTyped'
  BY <1>1 DEF SmTyped, smVars
<1>6. wsEvt \in Seq(WsEvent)
  BY <1>1 DEF SmTyped
<1>7. CASE LinkGetsToken
  <2>1. ws.phase = "token"
        /\ ws' = [ws EXCEPT !.phase = "dial", !.token = IF TokenIsStale THEN 0 ELSE ws.token]
        /\ UNCHANGED <<live, socket, wire, wsCmd, wsEvt>>
    BY <1>7 DEF LinkGetsToken, GetsToken
  <2>2. ws' \in Task /\ (ws'.phase = "up" <=> ws.phase = "up")
    BY <1>2, <2>1, Numbers DEF Task
  <2>3. Linked'
    BY <1>1, <2>1, <2>2 DEF Linked
  <2>4. SmTyped'
    BY <1>5, <1>6, <1>7, <2>1 DEF LinkGetsToken, Rest
  <2>5. Around'
    BY <1>1, <1>4, <1>7 DEF LinkGetsToken, Rest
  <2> QED BY <2>3, <2>4, <2>5, TypesNext
<1>8. CASE LinkConnects
  <2>1. PICK greeting \in {<<[kind |-> "wifi"], snapshot>>, <<snapshot, [kind |-> "wifi"]>>} :
           Connects(greeting)
    BY <1>8 DEF LinkConnects
  <2>2. ws' \in Task /\ ws'.phase = "up"
    BY <1>2, <2>1, Numbers DEF Connects, Task
  <2>3. live' \in Health /\ live'.connected
    BY <1>2, <2>1, Numbers DEF Connects, Tracked, Health
  <2>4. wire' \in Seq(Frame) /\ Len(wire') <= MaxWire
    <3>1. snapshot \in Frame /\ [kind |-> "wifi"] \in Frame
      BY <1>1, FrameFields
    <3>2. \A a, b \in Frame : <<a, b>> \in Seq(Frame) /\ Len(<<a, b>>) = 2
      OBVIOUS
    <3> QED BY <2>1, <3>1, <3>2, CloudLinkAssumption DEF Connects
  <2>5. Linked'
    BY <2>1, <2>2, <2>3, <2>4 DEF Connects, Linked
  <2>6. wsEvt' \in Seq(WsEvent)
    BY <1>6, <2>1, AppendProperties, EventFields DEF Connects, Tell
  <2>7. SmTyped'
    BY <1>5, <1>8, <2>1, <2>6 DEF LinkConnects, Connects, Rest
  <2>8. Around'
    BY <1>1, <1>4, <1>8, Pasts, Numbers DEF LinkConnects, Rest
  <2> QED BY <2>5, <2>7, <2>8, TypesNext
<1>9. ASSUME LinkTimesOut \/ LinkFails PROVE Types'
  <2>1. PICK b \in BOOLEAN : Ends(b)
    BY <1>2, <1>9 DEF LinkTimesOut, LinkFails, TimesOut, ConnectFails, ConnectionEnds, Health
  <2>2. Breaks
    BY <1>9 DEF LinkTimesOut, LinkFails
  <2>3. Linked' /\ SmTyped'
    BY <1>1, <2>1, <2>2, EndsTyped DEF Breaks, Rest
  <2>4. troubles' \in 0..MaxTroubles
    BY <1>1, <1>3, <1>9 DEF LinkTimesOut, LinkFails
  <2>5. past' \in Past
    BY <1>1, <2>2, Pasts DEF Breaks
  <2>6. Around'
    BY <1>4, <2>2, <2>4, <2>5 DEF Breaks, Rest
  <2> QED BY <2>3, <2>6, TypesNext
<1>10. CASE HalfOpens
  <2>1. <<>> \in Seq(Frame) /\ Len(<<>>) = 0 /\ 0 <= MaxWire
    BY EmptySeq, CloudLinkAssumption
  <2>2. Linked'
    BY <1>1, <1>10, <2>1 DEF HalfOpens, Linked
  <2>3. SmTyped'
    BY <1>5, <1>6, <1>10 DEF HalfOpens, Rest
  <2>4. Around'
    BY <1>1, <1>3, <1>4, <1>10 DEF HalfOpens, Rest
  <2> QED BY <2>2, <2>3, <2>4, TypesNext
<1>11. CASE LinkTakesFrame
  <2> DEFINE f == Head(wire)
  <2>1. TakesFrame /\ wire # <<>> /\ f \in Frame /\ wire' = Tail(wire) /\ Tail(wire) \in Seq(Frame)
        /\ Len(Tail(wire)) = Len(wire) - 1 /\ Len(wire) \in Nat
    BY <1>2, <1>11, TailTyped DEF LinkTakesFrame, TakesFrame
  <2> HIDE DEF f
  <2>2. /\ ws' \in Task /\ ws'.phase = ws.phase
        /\ live' \in Health /\ live'.connected = live.connected
        /\ wsEvt' \in Seq(WsEvent)
    <3>1. CASE f.kind = "state"
      <4>1. TakesState(f)
        BY <2>1, <3>1 DEF TakesFrame, f
      <4>2. f \in StateFrame /\ f.stamp \in Stamps /\ ApoState(f.status, f.cook) \in WsEvent
        BY <2>1, <3>1, FrameFields, EventFields
      <4>3. ws' \in Task /\ ws'.phase = ws.phase
        <5>1. f.stamp \in Marks /\ 0 \in Quiets
          BY <4>2, Numbers
        <5>2. ws' = [ws EXCEPT !.last = f.stamp,
                               !.quiet = IF Freshness(f) = "Fresh" THEN 0 ELSE ws.quiet]
          BY <4>1 DEF TakesState
        <5> QED BY <1>2, <5>1, <5>2 DEF Task
      <4>4. Freshness(f) \in {"Fresh", "Offline", "Replay"}
        BY <4>2, FrameFields DEF Freshness
      <4>5. \A b \in BOOLEAN : /\ Tracked(live, live.connected, b) \in Health
                               /\ Tracked(live, live.connected, b).connected = live.connected
        BY <1>2, Numbers DEF Tracked, Health
      <4>6. live' \in {live, Tracked(live, live.connected, TRUE), Tracked(live, live.connected, FALSE)}
        BY <4>1, <4>4 DEF TakesState
      <4>7. wsEvt' \in Seq(WsEvent)
        BY <1>6, <4>1, <4>2, AppendProperties DEF TakesState, Tell
      <4> QED BY <1>2, <4>3, <4>5, <4>6, <4>7
    <3>2. CASE f.kind = "wifi"
      <4>1. ws' = [ws EXCEPT !.known = TRUE] /\ live' = live
            /\ wsEvt' = Append(wsEvt, Link("discovered"))
        BY <2>1, <3>2 DEF TakesFrame, Tell, f
      <4>2. wsEvt' \in Seq(WsEvent)
        BY <1>6, <4>1, AppendProperties, EventFields
      <4>3. ws' \in Task /\ ws'.phase = ws.phase
        BY <1>2, <4>1 DEF Task
      <4> QED BY <1>2, <4>1, <4>2, <4>3
    <3>3. CASE f.kind = "ack"
      <4>1. ws' = ws /\ live' = live /\ wsEvt' = Append(wsEvt, f)
        BY <2>1, <3>3 DEF TakesFrame, Tell, f
      <4>2. f \in WsEvent
        BY <2>1, <3>3, FrameFields, EventFields
      <4>3. wsEvt' \in Seq(WsEvent)
        BY <1>6, <4>1, <4>2, AppendProperties
      <4> QED BY <1>2, <4>1, <4>3
    <3> QED BY <2>1, <3>1, <3>2, <3>3, FrameFields
  <2>3. UNCHANGED <<socket, wsCmd>>
    BY <2>1 DEF TakesFrame
  <2>4. Len(wire') <= MaxWire
    BY <1>2, <2>1, CloudLinkAssumption
  <2>5. Linked'
    BY <1>1, <2>1, <2>2, <2>3, <2>4 DEF Linked
  <2>6. SmTyped'
    BY <1>5, <1>11, <2>2, <2>3 DEF LinkTakesFrame, Rest
  <2>7. past' \in Past
    BY <1>1, <1>11, Pasts DEF LinkTakesFrame
  <2>8. Around'
    BY <1>1, <1>4, <1>11, <2>7 DEF LinkTakesFrame, Rest
  <2> QED BY <2>5, <2>6, <2>8, TypesNext
<1>12. CASE LinkTakesPing
  <2>1. ws' \in Task /\ ws'.phase = ws.phase
    BY <1>2, <1>12 DEF LinkTakesPing, TakesPing, PingHeard, Task
  <2>2. Linked'
    BY <1>1, <1>12, <2>1 DEF LinkTakesPing, TakesPing, Linked
  <2>3. SmTyped'
    BY <1>5, <1>6, <1>12 DEF LinkTakesPing, TakesPing, Rest
  <2>4. Around'
    BY <1>1, <1>4, <1>12 DEF LinkTakesPing, Rest
  <2> QED BY <2>2, <2>3, <2>4, TypesNext
<1>13. CASE LinkTakesCommand
  <2> DEFINE cmd == Head(wsCmd)
  <2>1. TakesCommand /\ wsCmd # <<>> /\ cmd \in WsCommand /\ wsCmd' = Tail(wsCmd)
        /\ Tail(wsCmd) \in Seq(WsCommand) /\ UNCHANGED <<ws, live, socket, wsEvt>>
    BY <1>1, <1>13, TailTyped DEF LinkTakesCommand, TakesCommand, SmTyped
  <2> HIDE DEF cmd
  <2>2. cmd.id \in Ids /\ (cmd.kind = "start" => cmd.id \in Cooks)
    BY <2>1 DEF WsCommand, Ids
  <2>3. Linked' /\ oven' \in OvenState
    <3>1. CASE ws.known /\ socket = "open" /\ oven.linked
      <4>1. PICK ok \in BOOLEAN :
              /\ Relays(Ack(cmd.id, ok))
              /\ oven' = IF ~ok THEN oven
                         ELSE [oven EXCEPT !.cook = IF cmd.kind = "start" THEN cmd.id ELSE None,
                                           !.reported = FALSE]
        BY <1>13, <3>1 DEF LinkTakesCommand, Arrives, cmd
      <4>2. Ack(cmd.id, ok) \in Frame
        BY <2>2, FrameFields
      <4>3. Linked'
        BY <1>1, <2>1, <4>1, <4>2, RelaysTyped
      <4> DEFINE x == IF cmd.kind = "start" THEN cmd.id ELSE None
      <4>4. x \in CookOrNone
        BY <2>2, Statuses
      <4> HIDE DEF x
      <4>5. [oven EXCEPT !.cook = x, !.reported = FALSE] \in OvenState
        BY <1>1, <4>4 DEF OvenState
      <4> QED BY <1>1, <4>1, <4>3, <4>5 DEF x
    <3>2. CASE ~(ws.known /\ socket = "open" /\ oven.linked)
      <4>1. UNCHANGED <<wire, oven>>
        BY <1>13, <3>2 DEF LinkTakesCommand, Arrives
      <4> QED BY <1>1, <2>1, <4>1 DEF Linked
    <3> QED BY <3>1, <3>2
  <2>4. SmTyped'
    BY <1>1, <1>13, <2>1 DEF LinkTakesCommand, SmTyped, smVars
  <2>5. past' \in Past
    <3>1. past.asked \ {Head(wsCmd).id} \in SUBSET Ids
      BY <1>1 DEF Past
    <3> QED BY <1>1, <1>13, <3>1, Pasts DEF LinkTakesCommand
  <2>6. Around'
    BY <1>1, <1>13, <2>3, <2>5 DEF LinkTakesCommand, Around
  <2> QED BY <2>3, <2>4, <2>6, TypesNext
<1> QED BY <1>7, <1>8, <1>9, <1>10, <1>11, <1>12, <1>13

\* The state machine, its clients and the store, and time.
LEMMA OtherTypes ==
    ASSUME Types, \/ ClientStarts \/ ClientStops \/ SmTakesState \/ SmTakesAck \/ SmTakesLink
                  \/ StoreFails \/ TimePasses
    PROVE  Types'
<1>1. /\ SmTyped /\ Linked /\ oven \in OvenState /\ snapshot \in StateFrame
      /\ used \subseteq Ids /\ troubles \in 0..MaxTroubles /\ past \in Past
  BY TypesParts DEF Around
<1>2. ~Local
  BY CloudAssumption
<1>3. UNCHANGED Others => /\ Linked' /\ oven' \in OvenState /\ snapshot' \in StateFrame
                          /\ troubles' \in 0..MaxTroubles
  BY <1>1 DEF Others, linkVars, cloudVars, Linked
<1>4. \A id \in Ids : Asks(id) => used' \subseteq Ids /\ past' \in Past
  <2>1. \A id \in Ids : past.asked \cup {id} \in SUBSET Ids
    BY <1>1 DEF Past
  <2> QED BY <1>1, <2>1, Pasts DEF Asks
<1>5. Cooks \subseteq Ids /\ Requests \subseteq Ids
  BY DEF Ids
<1>6. CASE ClientStarts
  <2>1. PICK cook \in Cooks : StartCook(cook, FALSE) /\ Asks(cook) /\ UNCHANGED Others
    BY <1>6 DEF ClientStarts
  <2>2. SmTyped'
    BY <1>1, <1>2, <1>5, <2>1, ClientTyped
  <2> QED BY <1>3, <1>4, <1>5, <2>1, <2>2, TypesNext DEF Around
<1>7. CASE ClientStops
  <2>1. PICK id \in Requests : StopCook(id, id) /\ Asks(id) /\ UNCHANGED Others
    BY <1>7 DEF ClientStops
  <2>2. SmTyped'
    BY <1>1, <1>2, <1>5, <2>1, ClientTyped
  <2> QED BY <1>3, <1>4, <1>5, <2>1, <2>2, TypesNext DEF Around
<1>8. ASSUME SmTakesState \/ SmTakesAck PROVE Types'
  <2>1. SmTyped'
    BY <1>1, <1>2, <1>8, EventTyped DEF SmTakesState, SmTakesAck
  <2> QED BY <1>1, <1>3, <1>8, <2>1, TypesNext DEF SmTakesState, SmTakesAck, Around
<1>9. CASE SmTakesLink
  <2>1. SmTyped'
    BY <1>1, <1>2, <1>9, EventTyped DEF SmTakesLink
  <2>2. past' \in Past
    BY <1>1, <1>9, Pasts DEF SmTakesLink
  <2> QED BY <1>1, <1>3, <1>9, <2>1, <2>2, TypesNext DEF SmTakesLink, Around
<1>10. CASE StoreFails
  <2>1. SmTyped'
    BY <1>1, <1>10, EmptySeq DEF StoreFails, SmTyped, smVars
  <2> QED BY <1>1, <1>3, <1>10, <2>1, TypesNext DEF StoreFails, Around
<1>11. CASE TimePasses
  <2>1. SmTyped'
    BY <1>1, <1>11 DEF TimePasses, SmTyped, channels, smVars
  <2>2. snapshot' \in StateFrame
    <3> DEFINE n == Up(snapshot.age, StateTimeout + 1)
    <3>1. n \in Ages
      BY <1>1, FrameFields, Numbers
    <3> HIDE DEF n
    <3>2. [snapshot EXCEPT !.age = n] \in StateFrame
      BY <1>1, <3>1 DEF StateFrame, Frame, AckEvent
    <3> QED BY <1>11, <3>2 DEF TimePasses, n
  <2>3. Linked'
    <3> DEFINE t == Up(ws.token, TokenLife)
               q == IF ws.phase = "up" THEN ws.quiet + 1 ELSE ws.quiet
               d == IF Reachable(live) THEN live.down ELSE Up(live.down, MaxDown)
    <3>1. /\ ws' = [ws EXCEPT !.token = t, !.quiet = q]
          /\ live' = [live EXCEPT !.down = d]
          /\ UNCHANGED <<socket, wire>> /\ (ws.phase = "up" => ws.quiet < StateTimeout)
      BY <1>11 DEF TimePasses, Quiet
    <3>2. ws.token \in Tokens /\ ws.quiet \in Quiets /\ live.down \in Downs
      BY <1>1 DEF Linked, Task, Health
    <3>3. t \in Tokens /\ q \in Quiets /\ d \in Downs
      BY <3>1, <3>2, Numbers
    <3> HIDE DEF t, q, d
    <3>4. ws' \in Task /\ ws'.phase = ws.phase
      BY <1>1, <3>1, <3>3 DEF Linked, Task
    <3>5. live' \in Health /\ live'.connected = live.connected
      BY <1>1, <3>1, <3>3 DEF Linked, Health
    <3> QED BY <1>1, <3>1, <3>4, <3>5 DEF Linked
  <2>4. past' \in Past
    <3> DEFINE n == IF ws.phase = "up" THEN Up(past.up, StateTimeout + 1) ELSE past.up
    <3>1. n \in Ups
      BY <1>1, Numbers DEF Past
    <3> HIDE DEF n
    <3>2. [past EXCEPT !.up = n] \in Past
      BY <1>1, <3>1, Pasts
    <3> QED BY <1>11, <3>2 DEF TimePasses, n
  <2>5. oven' \in OvenState
    BY <1>1, <1>11 DEF TimePasses, OvenState
  <2> QED BY <1>1, <1>11, <2>1, <2>2, <2>3, <2>4, <2>5, TypesNext DEF TimePasses, Around
<1> QED BY <1>6, <1>7, <1>8, <1>9, <1>10, <1>11

LEMMA TypesStep == Types /\ [Next]_vars => Types'
<1>1. Types /\ UNCHANGED vars => Types'
  BY DEF Types, TypeOK, vars, channels, smVars, linkVars, cloudVars, ChannelsTypeOK, SmTypeOK,
         LinkTypeOK, StateFrame
<1>2. Types /\ Next => Types'
  BY OvenTypes, LinkTypes, OtherTypes DEF Next, Works
<1> QED BY <1>1, <1>2

-----------------------------------------------------------------------------
(* The deadline.                                                           *)

\* What goes out behind the frames under way.
LEMMA Relayed ==
    ASSUME Linked, NEW f \in Frame, Relays(f)
    PROVE  /\ Len(wire) \in Nat /\ Len(wire') \in {Len(wire), Len(wire) + 1}
           /\ \A i \in 1..Len(wire) : wire'[i] = wire[i]
           /\ \A i \in 1..Len(wire') : i \in 1..Len(wire) \/ (i = Len(wire') /\ wire'[i] = f)
<1>1. wire \in Seq(Frame) /\ Len(wire) \in Nat
  BY LenProperties DEF Linked
<1>2. /\ Len(Append(wire, f)) = Len(wire) + 1
      /\ \A i \in 1..Len(wire) : Append(wire, f)[i] = wire[i]
      /\ Append(wire, f)[Len(wire) + 1] = f
  BY <1>1, AppendProperties
<1> QED BY <1>1, <1>2 DEF Relays

LEMMA TimedRelays ==
    ASSUME Linked, NEW f \in Frame, Relays(f), \A i \in 1..Len(wire) : Timely(wire[i])',
           f.kind = "state" /\ f.online => past'.up = 0 \/ snapshot'.age = 0
    PROVE  \A i \in 1..Len(wire') : Timely(wire[i])'
<1> SUFFICES ASSUME NEW i \in 1..Len(wire') PROVE Timely(wire[i])'
  OBVIOUS
<1>1. i \in 1..Len(wire) \/ wire'[i] = f
  BY Relayed
<1> QED BY <1>1 DEF Timely

LEMMA UpFields ==
    ASSUME past \in Past
    PROVE  /\ past.up \in Ups
           /\ \A v : [past EXCEPT !.news = v].up = past.up
           /\ \A v : [past EXCEPT !.here = v].up = past.up
           /\ \A v : [past EXCEPT !.asked = v].up = past.up
           /\ \A v : [past EXCEPT !.up = v].up = v
           /\ [past EXCEPT !.up = 0, !.here = FALSE, !.asked = {}].up = 0
  BY DEF Past

LEMMA NewsFields ==
    ASSUME past \in Past
    PROVE  /\ past.news \in BOOLEAN
           /\ \A v : [past EXCEPT !.news = v].news = v
           /\ \A v : [past EXCEPT !.here = v].news = past.news
           /\ \A v : [past EXCEPT !.asked = v].news = past.news
           /\ \A v : [past EXCEPT !.up = v].news = past.news
           /\ [past EXCEPT !.up = 0, !.here = FALSE, !.asked = {}].news = past.news
  BY DEF Past

\* Steps that are not the link's or the cloud's.
LEMMA OtherPasts ==
    ASSUME past \in Past, \/ UNCHANGED vars \/ OvenChanges \/ OvenLost \/ OvenBack
                          \/ ClientStarts \/ ClientStops \/ SmTakesState \/ SmTakesAck
                          \/ SmTakesLink \/ StoreFails
    PROVE  past'.up = past.up /\ past'.news = past.news
<1>1. CASE SmTakesLink
  <2>1. PICK v : past' = [past EXCEPT !.here = v]
    BY <1>1 DEF SmTakesLink
  <2> QED BY <2>1, UpFields, NewsFields
<1>2. CASE ClientStarts \/ ClientStops
  <2>1. PICK id : Asks(id)
    BY <1>2 DEF ClientStarts, ClientStops
  <2> DEFINE a == past.asked \cup {id}
  <2>2. past' = past \/ past' = [past EXCEPT !.asked = a]
    BY <2>1 DEF Asks
  <2> HIDE DEF a
  <2>3. [past EXCEPT !.asked = a].up = past.up /\ [past EXCEPT !.asked = a].news = past.news
    BY UpFields, NewsFields
  <2> QED BY <2>2, <2>3
<1>3. CASE UNCHANGED vars \/ OvenChanges \/ OvenLost \/ OvenBack \/ SmTakesState \/ SmTakesAck
           \/ StoreFails
  BY <1>3 DEF vars, OvenChanges, OvenLost, OvenBack, SmTakesState, SmTakesAck, StoreFails
<1> QED BY <1>1, <1>2, <1>3

LEMMA TimedStep == Types /\ Timed /\ [Next]_vars => Timed'
<1> SUFFICES ASSUME Types, Timed, [Next]_vars PROVE Timed'
  OBVIOUS
<1>1. /\ Linked /\ snapshot \in StateFrame /\ past \in Past
      /\ ws \in Task /\ wire \in Seq(Frame)
      /\ socket # "none" <=> ws.phase = "up"
  BY TypesParts DEF Around, Linked
<1>2. /\ snapshot \in Frame /\ snapshot.kind = "state" /\ snapshot.age \in Ages
      /\ ws.quiet \in Quiets /\ past.up \in Ups
  BY <1>1, FrameFields, UpFields DEF Task
<1>3. ASSUME past'.up = past.up, snapshot'.age = snapshot.age, ws'.quiet = ws.quiet,
             ws'.phase = "up" => ws.phase = "up"
      PROVE  /\ ws'.phase = "up" => past'.up = ws'.quiet \/ snapshot'.age <= ws'.quiet
             /\ \A i \in 1..Len(wire) : wire'[i] = wire[i] => Timely(wire[i])'
             /\ wire' = wire => Timed'
  BY <1>3 DEF Timed, Timely
<1>4. ASSUME ws'.phase # "up", wire' = <<>> PROVE Timed'
  BY <1>4 DEF Timed
<1>5. CASE OvenReports
  <2> DEFINE f == [kind |-> "state", status |-> StatusOf(oven.cook), cook |-> oven.cook,
                   stamp |-> CHOOSE s \in Stamps : s \notin StampsInUse, age |-> 0, online |-> TRUE]
  <2>1. snapshot' = f /\ ws' = ws
    BY <1>5 DEF OvenReports
  <2>2. snapshot'.age = 0
    BY <2>1
  <2> QED BY <1>2, <2>1, <2>2 DEF Timed, Timely, Quiets
<1>6. CASE CloudNotices
  <2>1. snapshot' = [snapshot EXCEPT !.online = FALSE]
        /\ Relays(snapshot') /\ UNCHANGED <<ws, past>>
    BY <1>6 DEF CloudNotices
  <2>2. snapshot'.age = snapshot.age /\ ~snapshot'.online
    BY <1>1, <2>1 DEF StateFrame, Frame, AckEvent
  <2>3. snapshot' \in StateFrame /\ snapshot' \in Frame
    <3>1. Types'
      BY TypesStep
    <3>2. snapshot' \in StateFrame
      BY <3>1 DEF Types
    <3> QED BY <3>2 DEF StateFrame
  <2>4. /\ ws'.phase = "up" => past'.up = ws'.quiet \/ snapshot'.age <= ws'.quiet
        /\ \A i \in 1..Len(wire) : wire'[i] = wire[i] => Timely(wire[i])'
    BY <1>3, <2>1, <2>2
  <2>5. \A i \in 1..Len(wire) : Timely(wire[i])'
    BY <1>1, <2>1, <2>3, <2>4, Relayed
  <2>6. \A i \in 1..Len(wire') : Timely(wire[i])'
    BY <1>1, <2>1, <2>2, <2>3, <2>5, TimedRelays
  <2> QED BY <2>4, <2>6 DEF Timed
<1>7. CASE LinkGetsToken
  <2>1. ws'.phase # "up" /\ ws'.quiet = ws.quiet /\ UNCHANGED <<wire, past, snapshot>>
    BY <1>1, <1>7 DEF LinkGetsToken, GetsToken, Rest, cloudVars, Task
  <2> QED BY <1>3, <2>1
<1>8. CASE LinkConnects
  <2>1. ws'.quiet = 0 /\ past'.up = 0
    BY <1>1, <1>8, UpFields DEF LinkConnects, Connects, Task
  <2> QED BY <2>1 DEF Timed, Timely
<1>9. ASSUME LinkTimesOut \/ LinkFails PROVE Timed'
  <2>1. ws' = Ended(ws) /\ wire' = <<>>
    BY <1>9 DEF LinkTimesOut, LinkFails, TimesOut, ConnectFails, ConnectionEnds, Ends
  <2>2. ws'.phase # "up"
    BY <1>1, <2>1 DEF Ended, Task
  <2> QED BY <1>4, <2>1, <2>2
<1>10. CASE HalfOpens
  <2>1. wire' = <<>> /\ UNCHANGED <<ws, past, snapshot>>
    BY <1>10 DEF HalfOpens, Rest, cloudVars
  <2> QED BY <2>1 DEF Timed
<1>11. CASE LinkTakesFrame
  <2> DEFINE f == Head(wire)
  <2>1. /\ TakesFrame /\ wire # <<>> /\ wire' = Tail(wire) /\ snapshot' = snapshot
        /\ f \in Frame /\ f = wire[1] /\ Len(wire) \in Nat \ {0}
        /\ Len(wire') = Len(wire) - 1 /\ \A i \in 1..Len(wire') : wire'[i] = wire[i + 1]
    BY <1>1, <1>11, TailTyped DEF LinkTakesFrame, TakesFrame, Rest, cloudVars
  <2>2. past'.up = past.up
    BY <1>1, <1>11, UpFields DEF LinkTakesFrame
  <2> HIDE DEF f
  <2>3. \A i \in 1..Len(wire') : Timely(wire[i])'
    <3> SUFFICES ASSUME NEW i \in 1..Len(wire') PROVE Timely(wire[i])'
      OBVIOUS
    <3>1. i + 1 \in 1..Len(wire) /\ wire'[i] = wire[i + 1]
      BY <2>1
    <3>2. Timely(wire[i + 1])
      BY <3>1 DEF Timed
    <3> QED BY <2>1, <2>2, <3>1, <3>2 DEF Timely
  <2>4. ws'.phase = "up" => past'.up = ws'.quiet \/ snapshot'.age <= ws'.quiet
    <3>1. CASE f.kind = "state" /\ Freshness(f) = "Fresh"
      <4>1. ws' = [ws EXCEPT !.last = f.stamp, !.quiet = 0]
        BY <2>1, <3>1 DEF TakesFrame, TakesState, f
      <4>2. ws'.quiet = 0
        BY <1>1, <4>1 DEF Task
      <4>3. f.online
        BY <3>1 DEF Freshness
      <4>4. Timely(f)
        BY <2>1 DEF Timed
      <4> QED BY <2>1, <2>2, <3>1, <4>2, <4>3, <4>4 DEF Timely
    <3>2. CASE ~(f.kind = "state" /\ Freshness(f) = "Fresh")
      <4>1. ws' = ws \/ ws' = [ws EXCEPT !.known = TRUE]
            \/ ws' = [ws EXCEPT !.last = f.stamp, !.quiet = ws.quiet]
        BY <2>1, <3>2, FrameFields DEF TakesFrame, TakesState, f
      <4>2. ws'.quiet = ws.quiet /\ ws'.phase = ws.phase
        BY <1>1, <4>1 DEF Task
      <4> QED BY <2>1, <2>2, <4>2 DEF Timed
    <3> QED BY <3>1, <3>2
  <2> QED BY <2>3, <2>4 DEF Timed
<1>12. CASE LinkTakesPing
  <2>1. ws'.phase = ws.phase /\ ws'.quiet = ws.quiet /\ UNCHANGED <<wire, past, snapshot>>
    BY <1>1, <1>12 DEF LinkTakesPing, TakesPing, PingHeard, Rest, cloudVars, Task
  <2> QED BY <1>3, <2>1
<1>13. CASE LinkTakesCommand
  <2>1. UNCHANGED <<ws, snapshot>> /\ past'.up = past.up
    BY <1>1, <1>13, UpFields DEF LinkTakesCommand, TakesCommand
  <2>2. CASE UNCHANGED wire
    BY <1>3, <2>1, <2>2
  <2>3. CASE ~UNCHANGED wire
    <3> DEFINE cmd == Head(wsCmd)
    <3>1. PICK ok \in BOOLEAN : Relays(Ack(cmd.id, ok))
      BY <1>13, <2>3 DEF LinkTakesCommand, Arrives
    <3>2. cmd.id \in Ids
      <4>1. wsCmd \in Seq(WsCommand) /\ wsCmd # <<>>
        BY <1>13, TypesParts DEF SmTyped, LinkTakesCommand, TakesCommand
      <4>2. cmd \in WsCommand
        BY <4>1, TailTyped
      <4> QED BY <4>2 DEF WsCommand, Ids
    <3> HIDE DEF cmd
    <3>3. Ack(cmd.id, ok) \in Frame /\ Ack(cmd.id, ok).kind = "ack"
      BY <3>2, FrameFields
    <3>4. /\ ws'.phase = "up" => past'.up = ws'.quiet \/ snapshot'.age <= ws'.quiet
          /\ \A i \in 1..Len(wire) : wire'[i] = wire[i] => Timely(wire[i])'
      BY <1>3, <2>1
    <3>5. \A i \in 1..Len(wire) : Timely(wire[i])'
      BY <1>1, <3>1, <3>3, <3>4, Relayed
    <3>6. \A i \in 1..Len(wire') : Timely(wire[i])'
      BY <1>1, <3>1, <3>3, <3>5, TimedRelays
    <3> QED BY <3>4, <3>6 DEF Timed
  <2> QED BY <2>2, <2>3
<1>14. CASE TimePasses
  <2>1. /\ wire = <<>> /\ wire' = <<>>
        /\ ws.phase = "up" => ws.quiet < StateTimeout
        /\ snapshot' = [snapshot EXCEPT !.age = Up(snapshot.age, StateTimeout + 1)]
        /\ ws' = [ws EXCEPT !.token = Up(ws.token, TokenLife),
                            !.quiet = IF ws.phase = "up" THEN ws.quiet + 1 ELSE ws.quiet]
        /\ past' = [past EXCEPT !.up = IF ws.phase = "up" THEN Up(past.up, StateTimeout + 1)
                                       ELSE past.up]
    BY <1>14 DEF TimePasses, Quiet
  <2>2. ws'.phase = ws.phase
        /\ ws'.quiet = IF ws.phase = "up" THEN ws.quiet + 1 ELSE ws.quiet
    BY <1>1, <2>1 DEF Task
  <2>3. past'.up = IF ws.phase = "up" THEN Up(past.up, StateTimeout + 1) ELSE past.up
    BY <1>1, <2>1, UpFields
  <2>4. snapshot'.age = Up(snapshot.age, StateTimeout + 1)
    BY <1>1, <2>1 DEF StateFrame, Frame, AckEvent
  <2>5. ws'.phase = "up" => past'.up = ws'.quiet \/ snapshot'.age <= ws'.quiet
    <3> SUFFICES ASSUME ws.phase = "up" PROVE past'.up = ws'.quiet \/ snapshot'.age <= ws'.quiet
      BY <2>2
    <3>1. CASE past.up = ws.quiet
      BY <1>2, <2>1, <2>2, <2>3, <3>1, Numbers DEF Up, Quiets
    <3>2. CASE snapshot.age <= ws.quiet
      BY <1>2, <2>1, <2>2, <2>4, <3>2, Numbers DEF Up, Quiets, Ages
    <3> QED BY <3>1, <3>2 DEF Timed
  <2> QED BY <2>1, <2>5 DEF Timed
<1>15. ASSUME \/ UNCHANGED vars \/ OvenChanges \/ OvenLost \/ OvenBack \/ ClientStarts \/ ClientStops
              \/ SmTakesState \/ SmTakesAck \/ SmTakesLink \/ StoreFails
       PROVE  Timed'
  <2>1. UNCHANGED <<ws, wire, snapshot>>
    BY <1>15 DEF vars, linkVars, cloudVars, OvenChanges, OvenLost, OvenBack, ClientStarts,
       ClientStops, SmTakesState, SmTakesAck, SmTakesLink, StoreFails, Others
  <2>2. past'.up = past.up
    BY <1>1, <1>15, OtherPasts
  <2> QED BY <1>3, <2>1, <2>2
<1> QED BY <1>5, <1>6, <1>7, <1>8, <1>9, <1>10, <1>11, <1>12, <1>13, <1>14, <1>15 DEF Next, Works

-----------------------------------------------------------------------------
(* Replays.                                                                *)

\* A frame behind the others that is not older than the cloud's report.
LEMMA SeenRelays ==
    ASSUME Linked, Seen, NEW f \in Frame, Relays(f), f.kind = "state" => f.stamp = snapshot.stamp,
           snapshot'.stamp = snapshot.stamp, past'.news = past.news, ws'.last = ws.last
    PROVE  Seen'
<1>1. /\ Len(wire) \in Nat /\ Len(wire') \in {Len(wire), Len(wire) + 1}
      /\ \A i \in 1..Len(wire) : wire'[i] = wire[i]
      /\ \A i \in 1..Len(wire') : i \in 1..Len(wire) \/ (i = Len(wire') /\ wire'[i] = f)
  BY Relayed
<1>2. ASSUME NEW i \in 1..Len(wire'), Latest(wire[i])', NEW j \in i..Len(wire') PROVE ~Older(wire[j])'
  <2>1. j \in 1..Len(wire')
    BY <1>1
  <2>2. CASE j \in 1..Len(wire)
    <3>1. i \in 1..Len(wire) /\ j \in i..Len(wire)
      BY <1>1, <2>2
    <3> QED BY <1>1, <1>2, <2>2, <3>1 DEF Seen, Latest, Older
  <2>3. CASE wire'[j] = f
    BY <2>3 DEF Older
  <2> QED BY <1>1, <2>1, <2>2, <2>3
<1>3. ASSUME ~past'.news, NEW i \in 1..Len(wire') PROVE ~Older(wire[i])'
  BY <1>1, <1>3 DEF Seen, Older
<1> QED BY <1>2, <1>3 DEF Seen

LEMMA SeenStep == Types /\ Seen /\ [Next]_vars => Seen'
<1> SUFFICES ASSUME Types, Seen, [Next]_vars PROVE Seen'
  OBVIOUS
<1>1. /\ Linked /\ snapshot \in StateFrame /\ past \in Past
      /\ ws \in Task /\ wire \in Seq(Frame)
  BY TypesParts DEF Around, Linked
<1>2. snapshot \in Frame /\ snapshot.kind = "state" /\ past.news \in BOOLEAN
  BY <1>1, FrameFields, NewsFields
<1>3. ASSUME snapshot'.stamp = snapshot.stamp, past'.news = past.news, ws'.last = ws.last
      PROVE  (wire' = wire \/ wire' = <<>>) => Seen'
  BY <1>3 DEF Seen, Latest, Older
<1>4. CASE OvenReports
  <2> DEFINE s == CHOOSE x \in Stamps : x \notin StampsInUse
             f == [kind |-> "state", status |-> StatusOf(oven.cook), cook |-> oven.cook,
                   stamp |-> s, age |-> 0, online |-> TRUE]
  <2>1. s \notin StampsInUse
    BY <1>1, StampLeft
  <2>2. snapshot' = f /\ Relays(snapshot') /\ past' = [past EXCEPT !.news = TRUE]
    BY <1>4 DEF OvenReports
  <2>3. snapshot'.stamp = s /\ snapshot'.kind = "state" /\ past'.news
    BY <1>1, <2>2, NewsFields
  <2> HIDE DEF s, f
  <2>4. snapshot' \in Frame
    <3>1. Types'
      BY TypesStep
    <3> QED BY <3>1 DEF Types, StateFrame
  <2>5. /\ Len(wire) \in Nat /\ Len(wire') \in {Len(wire), Len(wire) + 1}
        /\ \A i \in 1..Len(wire) : wire'[i] = wire[i]
        /\ \A i \in 1..Len(wire') : i \in 1..Len(wire) \/ (i = Len(wire') /\ wire'[i] = snapshot')
    BY <1>1, <2>2, <2>4, Relayed
  <2>6. \A i \in 1..Len(wire) : wire[i].kind = "state" => wire[i].stamp # s
    <3>1. DOMAIN wire = 1..Len(wire)
      BY <1>1, LenProperties
    <3> QED BY <2>1, <3>1 DEF StampsInUse, Range
  <2>7. ASSUME NEW i \in 1..Len(wire'), Latest(wire[i])', NEW j \in i..Len(wire')
        PROVE  ~Older(wire[j])'
    <3>1. i = Len(wire') /\ wire'[i] = snapshot'
      BY <2>3, <2>5, <2>6, <2>7 DEF Latest
    <3>2. j = i
      BY <2>5, <3>1
    <3> QED BY <3>1, <3>2 DEF Older
  <2> QED BY <2>3, <2>7 DEF Seen
<1>5. CASE CloudNotices
  <2>1. snapshot' = [snapshot EXCEPT !.online = FALSE]
        /\ Relays(snapshot') /\ UNCHANGED <<ws, past>>
    BY <1>5 DEF CloudNotices
  <2>2. snapshot'.stamp = snapshot.stamp
    BY <1>1, <2>1 DEF StateFrame, Frame, AckEvent
  <2>3. snapshot' \in Frame
    <3>1. Types'
      BY TypesStep
    <3> QED BY <3>1 DEF Types, StateFrame
  <2> QED BY <1>1, <2>1, <2>2, <2>3, SeenRelays
<1>6. CASE LinkConnects
  <2>1. PICK greeting \in {<<[kind |-> "wifi"], snapshot>>, <<snapshot, [kind |-> "wifi"]>>} :
           Connects(greeting)
    BY <1>6 DEF LinkConnects
  <2>2. wire' = greeting /\ snapshot' = snapshot /\ ws'.last = ws.last /\ past'.news = past.news
    BY <1>1, <1>6, <2>1, NewsFields DEF LinkConnects, Connects, Rest, cloudVars, Task
  <2>3. \A i \in 1..Len(wire') : ~Older(wire[i])'
    <3>1. /\ \A x, y : Len(<<x, y>>) = 2 /\ <<x, y>>[1] = x /\ <<x, y>>[2] = y
          /\ \A i \in 1..2 : i = 1 \/ i = 2
      OBVIOUS
    <3>2. [kind |-> "wifi"].kind # "state"
      OBVIOUS
    <3>3. Len(greeting) = 2
          /\ \A i \in 1..2 : greeting[i] = snapshot \/ greeting[i] = [kind |-> "wifi"]
      BY <2>1, <3>1
    <3> QED BY <2>2, <3>2, <3>3 DEF Older
  <2>4. \A i \in 1..Len(wire') : \A j \in i..Len(wire') : j \in 1..Len(wire')
    <3>1. Len(wire') \in Nat
      <4>1. Types'
        BY TypesStep
      <4>2. Linked'
        BY <4>1, TypesParts, PTL
      <4>3. wire' \in Seq(Frame)
        BY <4>2 DEF Linked
      <4> QED BY <4>3, LenProperties
    <3> QED BY <3>1
  <2> QED BY <2>2, <2>3, <2>4 DEF Seen
<1>7. ASSUME LinkTimesOut \/ LinkFails PROVE Seen'
  <2>1. ws' = Ended(ws) /\ wire' = <<>> /\ snapshot' = snapshot
        /\ past' = [past EXCEPT !.up = 0, !.here = FALSE, !.asked = {}]
    BY <1>7 DEF LinkTimesOut, LinkFails, TimesOut, ConnectFails, ConnectionEnds, Ends, Breaks,
       Rest, cloudVars
  <2>2. ws'.last = ws.last /\ past'.news = past.news
    BY <1>1, <2>1, NewsFields DEF Ended, Task
  <2> QED BY <1>3, <2>1, <2>2
<1>8. CASE LinkTakesFrame
  <2> DEFINE f == Head(wire)
  <2>1. /\ TakesFrame /\ wire # <<>> /\ wire' = Tail(wire) /\ snapshot' = snapshot
        /\ f \in Frame /\ f = wire[1] /\ Len(wire) \in Nat \ {0}
        /\ Len(wire') = Len(wire) - 1 /\ \A i \in 1..Len(wire') : wire'[i] = wire[i + 1]
    BY <1>1, <1>8, TailTyped DEF LinkTakesFrame, TakesFrame, Rest, cloudVars
  <2>2. past' = IF f.kind # "state" THEN past
                ELSE [past EXCEPT !.news = f.stamp # snapshot.stamp]
    BY <1>8 DEF LinkTakesFrame
  <2> HIDE DEF f
  <2>3. ASSUME NEW i \in 1..Len(wire'), Latest(wire[i])', NEW j \in i..Len(wire')
        PROVE  ~Older(wire[j])'
    <3>1. /\ i + 1 \in 1..Len(wire) /\ j + 1 \in (i + 1)..Len(wire) /\ j \in 1..Len(wire')
          /\ wire'[i] = wire[i + 1] /\ wire'[j] = wire[j + 1]
      BY <2>1
    <3>2. Latest(wire[i + 1])
      BY <2>1, <2>3, <3>1 DEF Latest
    <3>3. ~Older(wire[j + 1])
      BY <3>1, <3>2 DEF Seen
    <3> QED BY <2>1, <3>1, <3>3 DEF Older
  <2>4. ASSUME ~past'.news
        PROVE  ws'.last = snapshot'.stamp /\ \A i \in 1..Len(wire) : ~Older(wire[i])
    <3>1. CASE f.kind = "state"
      <4>1. f.stamp = snapshot.stamp
        BY <1>1, <2>2, <2>4, <3>1, NewsFields
      <4>2. ws' = [ws EXCEPT !.last = f.stamp,
                             !.quiet = IF Freshness(f) = "Fresh" THEN 0 ELSE ws.quiet]
        BY <2>1, <3>1 DEF TakesFrame, TakesState, f
      <4>3. ws'.last = f.stamp
        BY <1>1, <4>2 DEF Task
      <4>4. 1 \in 1..Len(wire) /\ Latest(wire[1])
        BY <2>1, <3>1, <4>1 DEF Latest
      <4> QED BY <2>1, <4>1, <4>3, <4>4 DEF Seen
    <3>2. CASE f.kind # "state"
      <4>1. ws' = ws \/ ws' = [ws EXCEPT !.known = TRUE]
        BY <2>1, <3>2, FrameFields DEF TakesFrame, f
      <4>2. ws'.last = ws.last /\ ~past.news
        BY <1>1, <2>2, <2>4, <3>2, <4>1 DEF Task
      <4> QED BY <2>1, <4>2 DEF Seen
    <3> QED BY <3>1, <3>2
  <2>5. ASSUME ~past'.news, NEW i \in 1..Len(wire') PROVE ~Older(wire[i])'
    <3>1. i + 1 \in 1..Len(wire) /\ wire'[i] = wire[i + 1]
      BY <2>1
    <3>2. ~Older(wire[i + 1])
      BY <2>4, <2>5, <3>1
    <3> QED BY <2>1, <3>1, <3>2 DEF Older
  <2> QED BY <2>3, <2>4, <2>5 DEF Seen
<1>9. CASE LinkTakesCommand
  <2>1. UNCHANGED <<ws, snapshot>> /\ past'.news = past.news
    BY <1>1, <1>9, NewsFields DEF LinkTakesCommand, TakesCommand
  <2>2. CASE UNCHANGED wire
    BY <1>3, <2>1, <2>2
  <2>3. CASE ~UNCHANGED wire
    <3> DEFINE cmd == Head(wsCmd)
    <3>1. PICK ok \in BOOLEAN : Relays(Ack(cmd.id, ok))
      BY <1>9, <2>3 DEF LinkTakesCommand, Arrives
    <3>2. cmd.id \in Ids
      <4>1. wsCmd \in Seq(WsCommand) /\ wsCmd # <<>>
        BY <1>9, TypesParts DEF SmTyped, LinkTakesCommand, TakesCommand
      <4>2. cmd \in WsCommand
        BY <4>1, TailTyped
      <4> QED BY <4>2 DEF WsCommand, Ids
    <3> HIDE DEF cmd
    <3>3. Ack(cmd.id, ok) \in Frame /\ Ack(cmd.id, ok).kind = "ack"
      BY <3>2, FrameFields
    <3> QED BY <1>1, <2>1, <3>1, <3>3, SeenRelays
  <2> QED BY <2>2, <2>3
<1>10. CASE TimePasses
  <2>1. /\ UNCHANGED wire
        /\ snapshot' = [snapshot EXCEPT !.age = Up(snapshot.age, StateTimeout + 1)]
        /\ ws' = [ws EXCEPT !.token = Up(ws.token, TokenLife),
                            !.quiet = IF ws.phase = "up" THEN ws.quiet + 1 ELSE ws.quiet]
        /\ past' = [past EXCEPT !.up = IF ws.phase = "up" THEN Up(past.up, StateTimeout + 1)
                                       ELSE past.up]
    BY <1>10 DEF TimePasses
  <2>2. snapshot'.stamp = snapshot.stamp
    BY <1>1, <2>1 DEF StateFrame, Frame, AckEvent
  <2>3. ws'.last = ws.last /\ past'.news = past.news
    BY <1>1, <2>1, NewsFields DEF Task
  <2> QED BY <1>3, <2>1, <2>2, <2>3
<1>11. ASSUME LinkGetsToken \/ LinkTakesPing \/ HalfOpens PROVE Seen'
  <2>1. /\ ws' = [ws EXCEPT !.phase = "dial", !.token = IF TokenIsStale THEN 0 ELSE ws.token]
             \/ ws' = [ws EXCEPT !.quiet = PingHeard] \/ ws' = ws
        /\ UNCHANGED <<past, snapshot>> /\ (wire' = wire \/ wire' = <<>>)
    BY <1>11 DEF LinkGetsToken, GetsToken, LinkTakesPing, TakesPing, HalfOpens, Rest, cloudVars
  <2>2. ws'.last = ws.last
    BY <1>1, <2>1 DEF Task
  <2> QED BY <1>3, <2>1, <2>2
<1>12. ASSUME \/ UNCHANGED vars \/ OvenChanges \/ OvenLost \/ OvenBack \/ ClientStarts \/ ClientStops
              \/ SmTakesState \/ SmTakesAck \/ SmTakesLink \/ StoreFails
       PROVE  Seen'
  <2>1. UNCHANGED <<ws, wire, snapshot>>
    BY <1>12 DEF vars, linkVars, cloudVars, OvenChanges, OvenLost, OvenBack, ClientStarts,
       ClientStops, SmTakesState, SmTakesAck, SmTakesLink, StoreFails, Others
  <2>2. past'.news = past.news
    BY <1>1, <1>12, OtherPasts
  <2> QED BY <1>3, <2>1, <2>2
<1> QED BY <1>4, <1>5, <1>6, <1>7, <1>8, <1>9, <1>10, <1>11, <1>12 DEF Next, Works

-----------------------------------------------------------------------------
(* The cooker's id.                                                        *)

LEMMA HereFields ==
    ASSUME past \in Past
    PROVE  /\ past.here \in BOOLEAN /\ past.asked \in SUBSET Ids
           /\ \A v : [past EXCEPT !.news = v].here = past.here
           /\ \A v : [past EXCEPT !.news = v].asked = past.asked
           /\ \A v : [past EXCEPT !.here = v].here = v
           /\ \A v : [past EXCEPT !.here = v].asked = past.asked
           /\ \A v : [past EXCEPT !.asked = v].here = past.here
           /\ \A v : [past EXCEPT !.asked = v].asked = v
           /\ \A v : [past EXCEPT !.up = v].here = past.here
           /\ \A v : [past EXCEPT !.up = v].asked = past.asked
           /\ [past EXCEPT !.up = 0, !.here = FALSE, !.asked = {}].here = FALSE
           /\ [past EXCEPT !.up = 0, !.here = FALSE, !.asked = {}].asked = {}
  BY DEF Past

LEMMA LastsAppend ==
    ASSUME NEW q \in Seq(WsEvent), NEW e \in WsEvent
    PROVE  /\ Len(q) \in Nat /\ Len(Append(q, e)) = Len(q) + 1
           /\ \A i \in 1..Len(q) : Append(q, e)[i] = q[i]
           /\ Append(q, e)[Len(q) + 1] = e
           /\ \A k \in 1..(Len(q) + 1) :
                Lasts(Append(q, e), k) <=> Lasts(q, k) /\ e.kind # "disconnected"
<1> DEFINE u == Append(q, e)
           n == Len(q)
<1>1. n \in Nat /\ Len(u) = n + 1 /\ (\A i \in 1..n : u[i] = q[i]) /\ u[n + 1] = e
  BY AppendProperties, LenProperties
<1> HIDE DEF u
<1>2. ASSUME NEW k \in 1..(n + 1)
      PROVE  Lasts(u, k) <=> Lasts(q, k) /\ e.kind # "disconnected"
  <2>1. \A i \in k..Len(u) : i \in k..n \/ i = n + 1
    BY <1>1
  <2>2. n + 1 \in k..Len(u) /\ \A i \in k..n : i \in k..Len(u) /\ i \in 1..n
    BY <1>1
  <2> QED BY <1>1, <2>1, <2>2 DEF Lasts
<1> QED BY <1>1, <1>2 DEF u

LEMMA LastsTail ==
    ASSUME NEW q \in Seq(WsEvent), q # <<>>
    PROVE  /\ \A k \in Nat \ {0} : Lasts(Tail(q), k) <=> Lasts(q, k + 1)
           /\ Lasts(q, 1) <=> Lasts(q, 2) /\ Head(q).kind # "disconnected"
<1> DEFINE t == Tail(q)
           n == Len(q)
<1>1. n \in Nat \ {0} /\ Len(t) = n - 1 /\ (\A i \in 1..Len(t) : t[i] = q[i + 1]) /\ Head(q) = q[1]
  BY TailTyped
<1> HIDE DEF t
<1>2. ASSUME NEW k \in Nat \ {0} PROVE Lasts(t, k) <=> Lasts(q, k + 1)
  <2>1. \A i \in k..Len(t) : i + 1 \in (k + 1)..n /\ t[i] = q[i + 1]
    BY <1>1
  <2>2. \A j \in (k + 1)..n : j - 1 \in k..Len(t) /\ t[j - 1] = q[j]
    BY <1>1
  <2> QED BY <2>1, <2>2 DEF Lasts
<1>3. Lasts(q, 1) <=> Lasts(q, 2) /\ q[1].kind # "disconnected"
  <2>1. 1 \in 1..n /\ \A i \in 1..n : i = 1 \/ i \in 2..n
    BY <1>1
  <2>2. \A i \in 2..n : i \in 1..n
    BY <1>1
  <2> QED BY <2>1, <2>2 DEF Lasts
<1> QED BY <1>1, <1>2, <1>3 DEF t

\* What a step that learns nothing of the connection leaves.
Onward ==
    /\ ws.known => ws'.known
    /\ ws'.known => ws'.phase = "up"
    /\ ws.phase = "up" => ws'.phase = "up"
    /\ sm'.connectivity = sm.connectivity
    /\ past'.here => past.here
    /\ past'.asked \subseteq past.asked

LEMMA HereUntold ==
    ASSUME Here, Onward, UNCHANGED wsEvt PROVE Here'
  BY DEF Here, Onward

LEMMA HereTold ==
    ASSUME Here, Onward, wsEvt \in Seq(WsEvent), NEW e \in WsEvent, wsEvt' = Append(wsEvt, e),
           e.kind \notin {"disconnected", "discovered"}
    PROVE  Here'
<1>1. /\ Len(wsEvt) \in Nat /\ Len(wsEvt') = Len(wsEvt) + 1
      /\ \A i \in 1..Len(wsEvt) : wsEvt'[i] = wsEvt[i]
      /\ wsEvt'[Len(wsEvt) + 1] = e
      /\ \A k \in 1..(Len(wsEvt) + 1) : Lasts(wsEvt', k) <=> Lasts(wsEvt, k)
  BY LastsAppend
<1>2. Lasts(wsEvt', 1) <=> Lasts(wsEvt, 1)
  BY <1>1
<1>3. ASSUME NEW i \in 1..Len(wsEvt'), wsEvt'[i].kind = "discovered", Lasts(wsEvt', i + 1)
      PROVE  ws'.known
  <2>1. i \in 1..Len(wsEvt) /\ i + 1 \in 1..(Len(wsEvt) + 1)
    BY <1>1, <1>3
  <2>2. wsEvt[i].kind = "discovered" /\ Lasts(wsEvt, i + 1)
    BY <1>1, <1>3, <2>1
  <2> QED BY <2>1, <2>2 DEF Here, Onward
<1> QED BY <1>2, <1>3 DEF Here, Onward

\* What is true of the events behind the first.
LEMMA HereTail ==
    ASSUME Here, wsEvt \in Seq(WsEvent), wsEvt # <<>>, wsEvt' = Tail(wsEvt), ws' = ws
    PROVE  /\ \A i \in 1..Len(wsEvt') :
                wsEvt'[i].kind = "discovered" /\ Lasts(wsEvt', i + 1) => ws'.known
           /\ Lasts(wsEvt', 1) <=> Lasts(wsEvt, 2)
           /\ Lasts(wsEvt, 1) <=> Lasts(wsEvt, 2) /\ Head(wsEvt).kind # "disconnected"
           /\ Lasts(wsEvt, 2) /\ Head(wsEvt).kind = "discovered" => ws.known
<1>1. /\ Len(wsEvt) \in Nat \ {0} /\ Len(wsEvt') = Len(wsEvt) - 1
      /\ \A i \in 1..Len(wsEvt') : wsEvt'[i] = wsEvt[i + 1]
      /\ Head(wsEvt) = wsEvt[1]
  BY TailTyped
<1>2. /\ \A k \in Nat \ {0} : Lasts(wsEvt', k) <=> Lasts(wsEvt, k + 1)
      /\ Lasts(wsEvt, 1) <=> Lasts(wsEvt, 2) /\ Head(wsEvt).kind # "disconnected"
  BY LastsTail
<1>3. ASSUME NEW i \in 1..Len(wsEvt'), wsEvt'[i].kind = "discovered", Lasts(wsEvt', i + 1)
      PROVE  ws'.known
  <2>1. i + 1 \in 1..Len(wsEvt) /\ i + 1 \in Nat \ {0}
    BY <1>1
  <2>2. wsEvt[i + 1].kind = "discovered" /\ Lasts(wsEvt, (i + 1) + 1)
    BY <1>1, <1>2, <1>3, <2>1
  <2> QED BY <2>1, <2>2 DEF Here
<1>4. 1 \in 1..Len(wsEvt) /\ 1 \in Nat \ {0} /\ 1 + 1 = 2
  BY <1>1
<1> QED BY <1>1, <1>2, <1>3, <1>4 DEF Here

LEMMA HereStep == Types /\ Here /\ [Next]_vars => Here'
<1> SUFFICES ASSUME Types, Here, [Next]_vars PROVE Here'
  OBVIOUS
<1>1. /\ SmTyped /\ Linked /\ past \in Past /\ ws \in Task
      /\ socket # "none" <=> ws.phase = "up"
      /\ wire \in Seq(Frame) /\ wsEvt \in Seq(WsEvent)
      /\ ws.known \in BOOLEAN /\ (ws.known => ws.phase = "up")
  BY TypesParts DEF Around, Linked, SmTyped, Task, Here
<1>2. ~Local
  BY CloudAssumption
<1>3. UNCHANGED smVars => sm'.connectivity = sm.connectivity
  BY DEF smVars
<1>4. CASE LinkGetsToken
  <2>1. /\ ws.phase = "token"
        /\ ws' = [ws EXCEPT !.phase = "dial", !.token = IF TokenIsStale THEN 0 ELSE ws.token]
        /\ UNCHANGED <<past, wsEvt, smVars>>
    BY <1>4 DEF LinkGetsToken, GetsToken, Rest
  <2>2. ws'.known = ws.known
    BY <1>1, <2>1 DEF Task
  <2>3. Onward
    BY <1>1, <1>3, <2>1, <2>2 DEF Onward
  <2> QED BY <2>1, <2>3, HereUntold
<1>5. CASE LinkConnects
  <2>1. PICK greeting : Connects(greeting)
    BY <1>5 DEF LinkConnects
  <2>2. /\ ws.phase = "dial" /\ ws' = [ws EXCEPT !.phase = "up", !.known = FALSE, !.quiet = 0]
        /\ wsEvt' = Append(wsEvt, Link("connected"))
        /\ past' = [past EXCEPT !.up = 0] /\ UNCHANGED smVars
    BY <1>5, <2>1 DEF Connects, Tell, LinkConnects, Rest
  <2>3. ws'.phase = "up" /\ ~ws'.known /\ past'.here = past.here /\ past'.asked = past.asked
    BY <1>1, <2>2, HereFields DEF Task
  <2>4. ~ws.known
    BY <1>1, <2>2
  <2>5. Onward
    BY <1>3, <2>2, <2>3, <2>4 DEF Onward
  <2>6. Link("connected") \in WsEvent /\ Link("connected").kind = "connected"
    BY EventFields
  <2> QED BY <1>1, <2>2, <2>5, <2>6, HereTold
<1>6. ASSUME LinkTimesOut \/ LinkFails PROVE Here'
  <2>1. /\ ws' = Ended(ws) /\ wsEvt' = Append(wsEvt, Link("disconnected"))
        /\ past' = [past EXCEPT !.up = 0, !.here = FALSE, !.asked = {}]
    BY <1>6 DEF LinkTimesOut, LinkFails, TimesOut, ConnectFails, ConnectionEnds, Ends, Tell, Breaks
  <2>2. ~ws'.known /\ ~past'.here /\ past'.asked = {}
    BY <1>1, <2>1, HereFields DEF Ended, Task
  <2>3. Link("disconnected") \in WsEvent /\ Link("disconnected").kind = "disconnected"
    BY EventFields
  <2>4. /\ Len(wsEvt) \in Nat /\ Len(wsEvt') = Len(wsEvt) + 1
        /\ wsEvt'[Len(wsEvt) + 1].kind = "disconnected"
        /\ \A k \in 1..(Len(wsEvt) + 1) : ~Lasts(wsEvt', k)
    BY <1>1, <2>1, <2>3, LastsAppend
  <2>5. ~Lasts(wsEvt', 1)
    BY <2>4
  <2>6. ASSUME NEW i \in 1..Len(wsEvt'), wsEvt'[i].kind = "discovered", Lasts(wsEvt', i + 1)
        PROVE  FALSE
    <3>1. CASE i = Len(wsEvt) + 1
      BY <2>4, <2>6, <3>1
    <3>2. CASE i # Len(wsEvt) + 1
      <4>1. i + 1 \in 1..(Len(wsEvt) + 1)
        BY <2>4, <3>2
      <4> QED BY <2>4, <2>6, <4>1
    <3> QED BY <3>1, <3>2
  <2> QED BY <2>2, <2>5, <2>6 DEF Here
<1>7. CASE LinkTakesFrame
  <2> DEFINE f == Head(wire)
  <2>1. /\ TakesFrame /\ wire # <<>> /\ f \in Frame /\ ws.phase = "up" /\ UNCHANGED smVars
    BY <1>1, <1>7, TailTyped DEF LinkTakesFrame, TakesFrame, Rest
  <2>2. past'.here = past.here /\ past'.asked = past.asked
    <3>1. PICK v : past' = past \/ past' = [past EXCEPT !.news = v]
      BY <1>7 DEF LinkTakesFrame
    <3>2. [past EXCEPT !.news = v].here = past.here /\ [past EXCEPT !.news = v].asked = past.asked
      BY <1>1, HereFields
    <3> QED BY <3>1, <3>2
  <2> HIDE DEF f
  <2>3. CASE f.kind = "wifi"
    <3>1. ws' = [ws EXCEPT !.known = TRUE] /\ wsEvt' = Append(wsEvt, Link("discovered"))
      BY <2>1, <2>3 DEF TakesFrame, Tell, f
    <3>2. ws'.known /\ ws'.phase = "up"
      BY <1>1, <2>1, <3>1 DEF Task
    <3>3. Link("discovered") \in WsEvent /\ Link("discovered").kind = "discovered"
      BY EventFields
    <3>4. /\ Len(wsEvt) \in Nat
          /\ \A k \in 1..(Len(wsEvt) + 1) : Lasts(wsEvt', k) <=> Lasts(wsEvt, k)
      BY <1>1, <3>1, <3>3, LastsAppend
    <3>5. Lasts(wsEvt', 1) <=> Lasts(wsEvt, 1)
      BY <3>4
    <3> QED BY <2>2, <3>2, <3>5 DEF Here
  <2>4. CASE f.kind # "wifi"
    <3>1. PICK e \in WsEvent : wsEvt' = Append(wsEvt, e) /\ e.kind \in {"state", "ack"}
      <4>1. CASE f.kind = "state"
        <5>1. wsEvt' = Append(wsEvt, ApoState(f.status, f.cook))
          BY <2>1, <4>1 DEF TakesFrame, TakesState, Tell, f
        <5>2. ApoState(f.status, f.cook) \in WsEvent /\ ApoState(f.status, f.cook).kind = "state"
          BY <2>1, <4>1, FrameFields, EventFields DEF ApoState
        <5> QED BY <5>1, <5>2
      <4>2. CASE f.kind = "ack"
        <5>1. wsEvt' = Append(wsEvt, f)
          BY <2>1, <4>2 DEF TakesFrame, Tell, f
        <5>2. f \in WsEvent
          BY <2>1, <4>2, FrameFields, EventFields
        <5> QED BY <4>2, <5>1, <5>2
      <4> QED BY <2>1, <2>4, <4>1, <4>2, FrameFields
    <3>2. ws' = ws \/ ws' = [ws EXCEPT !.last = f.stamp,
                                       !.quiet = IF Freshness(f) = "Fresh" THEN 0 ELSE ws.quiet]
      BY <2>1, <2>4, FrameFields DEF TakesFrame, TakesState, f
    <3>3. ws'.known = ws.known /\ ws'.phase = ws.phase
      BY <1>1, <3>2 DEF Task
    <3>4. Onward
      BY <1>1, <1>3, <2>1, <2>2, <3>3 DEF Onward
    <3> QED BY <1>1, <3>1, <3>4, HereTold
  <2> QED BY <2>3, <2>4
<1>8. ASSUME LinkTakesPing \/ TimePasses \/ HalfOpens PROVE Here'
  <2>1. /\ UNCHANGED <<wsEvt, smVars>>
        /\ \/ ws' = ws /\ past' = past
           \/ ws' = [ws EXCEPT !.quiet = PingHeard] /\ past' = past
           \/ /\ ws' = [ws EXCEPT !.token = Up(ws.token, TokenLife),
                                  !.quiet = IF ws.phase = "up" THEN ws.quiet + 1 ELSE ws.quiet]
              /\ past' = [past EXCEPT !.up = IF ws.phase = "up" THEN Up(past.up, StateTimeout + 1)
                                             ELSE past.up]
    BY <1>8 DEF LinkTakesPing, TakesPing, TimePasses, HalfOpens, Rest, channels
  <2>2. ws'.known = ws.known /\ ws'.phase = ws.phase
    BY <1>1, <2>1 DEF Task
  <2>3. past'.here = past.here /\ past'.asked = past.asked
    <3> DEFINE n == IF ws.phase = "up" THEN Up(past.up, StateTimeout + 1) ELSE past.up
    <3>1. past' = past \/ past' = [past EXCEPT !.up = n]
      BY <2>1
    <3> HIDE DEF n
    <3>2. [past EXCEPT !.up = n].here = past.here /\ [past EXCEPT !.up = n].asked = past.asked
      BY <1>1, HereFields
    <3> QED BY <3>1, <3>2
  <2>4. Onward
    BY <1>1, <1>3, <2>1, <2>2, <2>3 DEF Onward
  <2> QED BY <2>1, <2>4, HereUntold
<1>9. CASE LinkTakesCommand
  <2>1. UNCHANGED <<ws, wsEvt, smVars>>
        /\ past' = [past EXCEPT !.asked = past.asked \ {Head(wsCmd).id}]
    BY <1>9 DEF LinkTakesCommand, TakesCommand
  <2>2. past'.here = past.here /\ past'.asked \subseteq past.asked
    BY <1>1, <2>1, HereFields
  <2>3. Onward
    BY <1>1, <1>3, <2>1, <2>2 DEF Onward
  <2> QED BY <2>1, <2>3, HereUntold
<1>10. ASSUME ClientStarts \/ ClientStops PROVE Here'
  <2>1. PICK id \in Ids : /\ (id \in Cooks /\ StartCook(id, FALSE)) \/ (id \in Requests /\ StopCook(id, id))
                          /\ Asks(id) /\ UNCHANGED Others
    BY <1>10 DEF ClientStarts, ClientStops, Ids
  <2>2. sm'.connectivity = sm.connectivity /\ sm.connectivity = "discovered"
    BY <1>1, <1>2, <2>1, ClientTyped DEF CookerKnown
  <2>3. UNCHANGED <<ws, wsEvt>>
    BY <2>1 DEF Others, linkVars, StartCook, StopCook
  <2>4. past'.here = past.here /\ (past.here \/ past'.asked = past.asked)
    BY <1>1, <2>1, HereFields DEF Asks
  <2>5. CASE past.here
    <3>1. ws.known
      BY <2>2, <2>5 DEF Here
    <3> QED BY <2>2, <2>3, <2>4, <3>1 DEF Here
  <2>6. CASE ~past.here
    <3>1. Onward
      BY <1>1, <2>2, <2>3, <2>4, <2>6 DEF Onward
    <3> QED BY <2>3, <3>1, HereUntold
  <2> QED BY <2>5, <2>6
<1>11. ASSUME SmTakesState \/ SmTakesAck PROVE Here'
  <2>1. /\ wsEvt # <<>> /\ wsEvt' = Tail(wsEvt) /\ ws' = ws /\ past' = past
        /\ Head(wsEvt).kind \in {"state", "ack"}
    BY <1>11 DEF SmTakesState, SmTakesAck, TakeApoState, TakeAck, Others, linkVars
  <2>2. sm'.connectivity = sm.connectivity
    BY <1>1, <1>2, <1>11, EventTyped DEF SmTakesState, SmTakesAck
  <2>3. /\ \A i \in 1..Len(wsEvt') :
              wsEvt'[i].kind = "discovered" /\ Lasts(wsEvt', i + 1) => ws'.known
        /\ Lasts(wsEvt', 1) <=> Lasts(wsEvt, 1)
    BY <1>1, <2>1, HereTail
  <2> QED BY <2>1, <2>2, <2>3 DEF Here
<1>12. CASE SmTakesLink
  <2>1. /\ wsEvt # <<>> /\ wsEvt' = Tail(wsEvt) /\ ws' = ws
        /\ Head(wsEvt).kind \in {"connected", "disconnected", "discovered"}
        /\ sm'.connectivity = IF Head(wsEvt).kind = "connected" /\ sm.connectivity # "disconnected"
                              THEN sm.connectivity ELSE Head(wsEvt).kind
    BY <1>1, <1>2, <1>12, EventTyped DEF SmTakesLink, TakeLink, Others, linkVars
  <2> DEFINE h == Head(wsEvt).kind # "disconnected" /\ ws.phase = "up"
                  /\ Link("disconnected") \notin Range(Tail(wsEvt))
  <2>2. past' = [past EXCEPT !.here = h]
    BY <1>12 DEF SmTakesLink
  <2> HIDE DEF h
  <2>3. past'.here = h /\ past'.asked = past.asked
    BY <1>1, <2>2, HereFields
  <2>4. /\ \A i \in 1..Len(wsEvt') :
              wsEvt'[i].kind = "discovered" /\ Lasts(wsEvt', i + 1) => ws'.known
        /\ Lasts(wsEvt', 1) <=> Lasts(wsEvt, 2)
        /\ Lasts(wsEvt, 1) <=> Lasts(wsEvt, 2) /\ Head(wsEvt).kind # "disconnected"
        /\ Lasts(wsEvt, 2) /\ Head(wsEvt).kind = "discovered" => ws.known
    BY <1>1, <2>1, HereTail
  <2>5. h => ws'.phase = "up" /\ Lasts(wsEvt', 1)
    <3>1. wsEvt' \in Seq(WsEvent)
      BY <1>1, <2>1, TailTyped
    <3>2. \A e \in WsEvent : e.kind = "disconnected" => e = Link("disconnected")
      BY DEF WsEvent, LinkEvent, StateEvent, AckEvent, Link
    <3>3. \A i \in 1..Len(wsEvt') : wsEvt'[i] \in WsEvent /\ wsEvt'[i] \in Range(wsEvt')
      BY <3>1, LenProperties, ElementOfSeq DEF Range
    <3> QED BY <2>1, <3>2, <3>3 DEF h, Lasts
  <2>6. sm'.connectivity = "discovered" /\ Lasts(wsEvt', 1) => ws'.known
    BY <2>1, <2>4 DEF Here
  <2> QED BY <2>1, <2>3, <2>4, <2>5, <2>6 DEF Here
<1>13. ASSUME \/ UNCHANGED vars \/ OvenChanges \/ OvenLost \/ OvenBack \/ OvenReports \/ CloudNotices
              \/ StoreFails
       PROVE  Here'
  <2>1. UNCHANGED <<ws, wsEvt, smVars>>
    BY <1>13 DEF vars, channels, linkVars, OvenChanges, OvenLost, OvenBack, OvenReports,
       CloudNotices, StoreFails, Others
  <2>2. past'.here = past.here /\ past'.asked = past.asked
    <3>1. past' = past \/ past' = [past EXCEPT !.news = TRUE]
      BY <1>13 DEF vars, OvenChanges, OvenLost, OvenBack, OvenReports, CloudNotices, StoreFails
    <3> QED BY <1>1, <3>1, HereFields
  <2>3. Onward
    BY <1>1, <1>3, <2>1, <2>2 DEF Onward
  <2> QED BY <2>1, <2>3, HereUntold
<1> QED BY <1>4, <1>5, <1>6, <1>7, <1>8, <1>9, <1>10, <1>11, <1>12, <1>13 DEF Next, Works

-----------------------------------------------------------------------------

LEMMA InitInv == Init => CInv
<1> SUFFICES ASSUME Init PROVE CInv
  OBVIOUS
<1>1. Len(wire) = 0 /\ Len(wsEvt) = 0
  BY DEF Init, LinkInit
<1>2. Timed /\ Seen
  BY <1>1 DEF Init, LinkInit, Timed, Seen
<1>3. Here
  BY <1>1 DEF Init, LinkInit, SmInit, SmInitState, Here
<1> QED BY <1>2, <1>3, InitTypes DEF CInv

(***************************************************************************)
(* The inductive invariant: types, the age of what is under way, the       *)
(* stamps that a replay is known by, and whose connection the state        *)
(* machine is on (processors/ws.rs, serve; classify_state).                *)
(***************************************************************************)
THEOREM CloudInvariant == Spec => []CInv
<1>1. CInv /\ [Next]_vars => CInv'
  BY TypesStep, TimedStep, SeenStep, HereStep DEF CInv
<1> QED BY <1>1, InitInv, PTL DEF Spec

(***************************************************************************)
(* The types of the server's state in cloud mode: the connection of        *)
(* Liveness is the link's own, and no socket outlives it.                  *)
(***************************************************************************)
THEOREM CloudTypes == Spec => []TypeOK
<1>1. CInv => TypeOK
  BY DEF CInv, Types
<1> QED BY <1>1, CloudInvariant, PTL

(***************************************************************************)
(* The state deadline of ws.rs: an oven that has been silent for longer    *)
(* than state_timeout does not count as reachable on a connection that is  *)
(* older than that, whatever pings and replays come.                       *)
(***************************************************************************)
THEOREM SilenceIsShown == Spec => []SilenceShows
<1>1. CInv => SilenceShows
  <2> SUFFICES ASSUME CInv, Reachable(live), past.up > StateTimeout
               PROVE  snapshot.age <= StateTimeout
    BY DEF SilenceShows
  <2>1. /\ ws \in Task /\ snapshot \in StateFrame /\ past \in Past
        /\ live.connected <=> ws.phase = "up"
    BY TypesParts DEF CInv, Linked, Around
  <2>2. ws.quiet \in Quiets /\ snapshot.age \in Ages /\ past.up \in Ups
    BY <2>1, FrameFields, UpFields DEF Task
  <2>3. ws.phase = "up"
    BY <2>1 DEF Reachable
  <2> QED BY <2>2, <2>3, Numbers DEF CInv, Timed, Quiets, Ages, Ups
<1> QED BY <1>1, CloudInvariant, PTL

(***************************************************************************)
(* last_state_frame outlives the connection: what the cloud replays to     *)
(* the next one does not bring back an oven that counts as offline.        *)
(***************************************************************************)
THEOREM NewsRevives == Spec => OnlyNewsRevives
<1>1. CInv /\ [Next]_vars => [~live.online /\ live.online' => past.news]_vars
  <2> SUFFICES ASSUME CInv, Next, ~live.online, live'.online PROVE past.news
    OBVIOUS
  <2>1. /\ live \in Health /\ ws \in Task /\ wire \in Seq(Frame)
    BY TypesParts DEF CInv, Linked
  <2>2. \A b : /\ Tracked(live, TRUE, b).online = b
               /\ Tracked(live, live.connected, b).online = b
               /\ Dropped(b).online = b
               /\ \A d : [live EXCEPT !.down = d].online = live.online
    BY <2>1 DEF Tracked, Dropped, Health
  <2>3. CASE LinkTakesFrame
    <3> DEFINE f == Head(wire)
    <3>1. wire # <<>> /\ TakesFrame /\ f = wire[1] /\ Len(wire) \in Nat \ {0} /\ f \in Frame
      BY <2>1, <2>3, TailTyped DEF LinkTakesFrame, TakesFrame
    <3> HIDE DEF f
    <3>2. f.kind = "state" /\ TakesState(f)
      BY <3>1, FrameFields DEF TakesFrame, f
    <3>3. Freshness(f) = "Fresh"
      <4>1. f.online \in BOOLEAN
        BY <3>1, <3>2, FrameFields
      <4>2. Freshness(f) \in {"Fresh", "Offline", "Replay"}
        BY <4>1 DEF Freshness
      <4> QED BY <2>2, <3>2, <4>2 DEF TakesState
    <3>4. f.online /\ f.stamp # ws.last
      BY <3>3 DEF Freshness
    <3>5. past.news \/ (ws.last = snapshot.stamp /\ ~Older(f))
      <4>1. 1 \in 1..Len(wire)
        BY <3>1
      <4> QED BY <3>1, <4>1 DEF CInv, Seen
    <3> QED BY <3>2, <3>4, <3>5 DEF Older
  <2>4. CASE LinkConnects
    BY <2>2, <2>4 DEF LinkConnects, Connects
  <2>5. ASSUME LinkTimesOut \/ LinkFails PROVE FALSE
    BY <2>2, <2>5 DEF LinkTimesOut, LinkFails, TimesOut, ConnectFails, ConnectionEnds, Ends
  <2>6. CASE TimePasses
    BY <2>2, <2>6 DEF TimePasses
  <2>7. ASSUME \/ LinkGetsToken \/ LinkTakesPing \/ LinkTakesCommand \/ HalfOpens \/ OvenReports
               \/ CloudNotices \/ OvenChanges \/ OvenLost \/ OvenBack \/ ClientStarts \/ ClientStops
               \/ SmTakesState \/ SmTakesAck \/ SmTakesLink \/ StoreFails
        PROVE  FALSE
    <3>1. UNCHANGED live
      BY <2>7 DEF LinkGetsToken, GetsToken, LinkTakesPing, TakesPing, LinkTakesCommand,
         TakesCommand, HalfOpens, Rest, OvenReports, CloudNotices, OvenChanges, OvenLost, OvenBack,
         linkVars, ClientStarts, ClientStops, SmTakesState, SmTakesAck, SmTakesLink, StoreFails, Others
    <3> QED BY <3>1
  <2> QED BY <2>3, <2>4, <2>5, <2>6, <2>7 DEF Next, Works
<1> QED BY <1>1, CloudInvariant, PTL DEF OnlyNewsRevives, Spec

(***************************************************************************)
(* Liveness::track_transition starts the timer when the oven stops being   *)
(* reachable, and not when one more of the two conditions fails.           *)
(***************************************************************************)
THEOREM OutagesGrow == Spec => OutageGrows
<1>1. CInv /\ [Next]_vars => [~Reachable(live) /\ ~Reachable(live)' => live'.down >= live.down]_vars
  <2> SUFFICES ASSUME CInv, Next, ~Reachable(live), ~Reachable(live') PROVE live'.down >= live.down
    OBVIOUS
  <2>1. /\ live \in Health /\ live.down \in Downs /\ wire \in Seq(Frame)
        /\ live.connected <=> ws.phase = "up"
    BY TypesParts DEF CInv, Linked, Health
  <2>2. ASSUME NEW c \in BOOLEAN, NEW o \in BOOLEAN, live' = Tracked(live, c, o)
        PROVE  live'.down >= live.down
    BY <2>1, <2>2 DEF Tracked, Reachable, Downs
  <2>3. ASSUME NEW o \in BOOLEAN, live' = Dropped(o), o = live.online \/ o = FALSE
        PROVE  live'.down >= live.down
    <3> DEFINE t == Tracked(live, live.connected, o)
    <3>1. t.down = live.down /\ ~Reachable(t)
      <4>1. live.connected \in BOOLEAN /\ live.online \in BOOLEAN
        BY <2>1 DEF Health
      <4>2. t.connected = live.connected /\ t.online = o
        BY DEF Tracked
      <4>3. ~(live.connected /\ o)
        BY <2>3, <4>1 DEF Reachable
      <4>4. t.down = live.down
        BY <4>3 DEF Tracked
      <4> QED BY <4>2, <4>3, <4>4 DEF Reachable
    <3> HIDE DEF t
    <3>2. live'.down = t.down
      BY <2>3, <3>1 DEF Dropped, Tracked, t
    <3> QED BY <2>1, <3>1, <3>2 DEF Downs
  <2>4. CASE LinkTakesFrame
    <3> DEFINE f == Head(wire)
    <3>1. wire # <<>> /\ TakesFrame /\ f \in Frame
      BY <2>1, <2>4, TailTyped DEF LinkTakesFrame, TakesFrame
    <3> HIDE DEF f
    <3>2. CASE f.kind = "state"
      <4>1. Freshness(f) \in {"Fresh", "Offline", "Replay"}
        BY <3>1, <3>2, FrameFields DEF Freshness
      <4>2. TakesState(f)
        BY <3>1, <3>2 DEF TakesFrame, f
      <4>3. live' \in {live, Tracked(live, live.connected, TRUE), Tracked(live, live.connected, FALSE)}
        BY <4>1, <4>2 DEF TakesState
      <4>4. live.connected \in BOOLEAN
        BY <2>1 DEF Health
      <4>5. CASE live' = live
        BY <2>1, <4>5 DEF Downs
      <4>6. CASE live' # live
        <5>1. PICK b \in BOOLEAN : live' = Tracked(live, live.connected, b)
          BY <4>3, <4>6
        <5> QED BY <2>2, <4>4, <5>1
      <4> QED BY <4>5, <4>6
    <3>3. CASE f.kind # "state"
      <4>1. live' = live
        BY <3>1, <3>3, FrameFields DEF TakesFrame, f
      <4> QED BY <2>1, <4>1 DEF Downs
    <3> QED BY <3>2, <3>3
  <2>5. CASE LinkConnects
    <3>1. live' = Tracked(live, TRUE, live.online) /\ live.online \in BOOLEAN
      BY <2>1, <2>5 DEF LinkConnects, Connects, Health
    <3> QED BY <2>2, <3>1
  <2>6. ASSUME LinkTimesOut \/ LinkFails PROVE live'.down >= live.down
    <3>1. (live' = Dropped(live.online) \/ live' = Dropped(FALSE)) /\ live.online \in BOOLEAN
      BY <2>1, <2>6 DEF LinkTimesOut, LinkFails, TimesOut, ConnectFails, ConnectionEnds, Ends, Health
    <3> QED BY <2>3, <3>1
  <2>7. CASE TimePasses
    <3>1. live' = [live EXCEPT !.down = Up(live.down, MaxDown)]
      BY <2>7 DEF TimePasses
    <3>2. live'.down = Up(live.down, MaxDown)
      BY <2>1, <3>1 DEF Health
    <3> QED BY <2>1, <3>2, Numbers DEF Up, Downs
  <2>8. ASSUME \/ LinkGetsToken \/ LinkTakesPing \/ LinkTakesCommand \/ HalfOpens \/ OvenReports
               \/ CloudNotices \/ OvenChanges \/ OvenLost \/ OvenBack \/ ClientStarts \/ ClientStops
               \/ SmTakesState \/ SmTakesAck \/ SmTakesLink \/ StoreFails
        PROVE  live'.down >= live.down
    <3>1. UNCHANGED live
      BY <2>8 DEF LinkGetsToken, GetsToken, LinkTakesPing, TakesPing, LinkTakesCommand,
         TakesCommand, HalfOpens, Rest, OvenReports, CloudNotices, OvenChanges, OvenLost, OvenBack,
         linkVars, ClientStarts, ClientStops, SmTakesState, SmTakesAck, SmTakesLink, StoreFails, Others
    <3> QED BY <2>1, <3>1 DEF Downs
  <2> QED BY <2>4, <2>5, <2>6, <2>7, <2>8 DEF Next, Works
<1> QED BY <1>1, CloudInvariant, PTL DEF OutageGrows, Spec

(***************************************************************************)
(* The guard "cooker known" of the state machine's start and stop is about *)
(* the connection that the command goes out on: no command that is         *)
(* accepted on a connection meets a link that has no cooker_id yet.        *)
(***************************************************************************)
THEOREM AcceptedAreSent == Spec => []AcceptedIsSent
<1>1. CInv => AcceptedIsSent
  BY DEF CInv, Here, AcceptedIsSent
<1> QED BY <1>1, CloudInvariant, PTL
=============================================================================
