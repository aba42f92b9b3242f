------------------------- MODULE LocalServer_proofs -------------------------
(***************************************************************************)
(* A cook that the oven was seen running stays in the journal or in the    *)
(* history, for any clients, cooks, crashes and failed file operations.    *)
(*                                                                         *)
(* What a command of the store leaves after each file operation keeps what *)
(* was kept before, unless it journals the start of a cook that is already *)
(* seen.  It never is, because a start draws a cook id nothing knows: all  *)
(* that the server, its channels and the oven mention are cooks that were  *)
(* begun before (Known), and a start stands in the store's queue before    *)
(* anything else about its cook (Fresh).                                   *)
(***************************************************************************)
EXTENDS LocalServer, SequenceTheorems, FiniteSetTheorems, TLAPS

IsSeq(s) == \E S : s \in Seq(S)

\* The cooks there can be talk of.
Begun == begun \cup {None}

StoreKinds == {"fetch", "reported"}
OtherKinds == {"stop", "lampOn", "lampOff", "nextStage"}
\* Commands to the oven name a cook that was begun, or none.
WsKnown(cmds) ==
    /\ IsSeq(cmds)
    /\ \A cmd \in Range(cmds) :
         cmd.kind \in OtherKinds \/ (cmd.kind = "start" /\ cmd.id \in begun)

About(cmd, cook) == cmd.kind \in StoreKinds \cup {"started"} /\ cmd.cook = cook

Known ==
    /\ begun \subseteq Cooks
    /\ "cook" \in DOMAIN oven /\ oven.cook \in Begun
    /\ "oven_cook" \in DOMAIN sm /\ sm.oven_cook \in Begun
    /\ WsKnown(wsCmd) /\ WsKnown(inbox)
    /\ IsSeq(wsEvt)
    /\ \A evt \in Range(wsEvt) : evt.kind = "state" => evt.cook \in Begun
    /\ storeCmd \in Seq(StoreCommand)
    /\ \A j \in DOMAIN storeCmd : \A cook : About(storeCmd[j], cook) => cook \in Begun
    /\ IsSeq(storeEvt)
    /\ \A evt \in Range(storeEvt) : evt.kind \in {"fetched", "history", "patched"}

OnDisk == files \in Files /\ (files.journal # None => files.journal.cook \in begun)

Fresh ==
    \A j \in DOMAIN storeCmd :
        storeCmd[j].kind = "started" =>
            /\ files.journal # None => files.journal.cook # storeCmd[j].cook
            /\ \A i \in 1..(j - 1) : ~About(storeCmd[i], storeCmd[j].cook)

IInv == Known /\ OnDisk /\ Fresh

-----------------------------------------------------------------------------
(* Queues.                                                                 *)

LEMMA EmptyQueue == IsSeq(<<>>) /\ Range(<<>>) = {}
<1>1. <<>> \in Seq({})
  BY EmptySeq
<1> QED BY <1>1 DEF IsSeq, Range

LEMMA OneQueue == ASSUME NEW e PROVE IsSeq(<<e>>) /\ Range(<<e>>) = {e}
<1> DEFINE s == <<e>>
<1>1. s \in Seq({e}) /\ Len(s) = 1 /\ s[1] = e
  OBVIOUS
<1>2. DOMAIN s = 1..1
  BY <1>1, LenProperties
<1> HIDE DEF s
<1>3. Range(s) = {e}
  BY <1>1, <1>2 DEF Range
<1> QED BY <1>1, <1>3 DEF IsSeq, s

LEMMA TypedQueue == ASSUME NEW S, NEW s \in Seq(S) PROVE IsSeq(s)
  BY DEF IsSeq

LEMMA QueueDomain == ASSUME NEW s, IsSeq(s) PROVE Len(s) \in Nat /\ DOMAIN s = 1..Len(s)
  BY LenProperties DEF IsSeq

LEMMA AppendRange ==
    ASSUME NEW s, IsSeq(s), NEW e
    PROVE  IsSeq(Append(s, e)) /\ Range(Append(s, e)) = Range(s) \cup {e}
<1>1. PICK S : s \in Seq(S)
  BY DEF IsSeq
<1> DEFINE t == Append(s, e)
           T == S \cup {e}
<1>2. s \in Seq(T)
  BY <1>1, SeqMonotonic
<1>3. /\ t \in Seq(T) /\ Len(t) = Len(s) + 1
      /\ \A i \in 1..Len(s) : t[i] = s[i]
      /\ t[Len(s) + 1] = e
  BY <1>2, AppendProperties
<1>4. DOMAIN s = 1..Len(s) /\ DOMAIN t = 1..Len(t) /\ Len(s) \in Nat
  BY <1>2, <1>3, LenProperties
<1> HIDE DEF t
<1>5. Range(t) = Range(s) \cup {e}
  BY <1>3, <1>4 DEF Range
<1> QED BY <1>3, <1>5 DEF IsSeq, t

LEMMA ConcatRange ==
    ASSUME NEW s, IsSeq(s), NEW t, IsSeq(t)
    PROVE  /\ IsSeq(s \o t) /\ Range(s \o t) = Range(s) \cup Range(t)
           /\ Len(s \o t) = Len(s) + Len(t)
           /\ \A i \in 1..(Len(s) + Len(t)) :
                (s \o t)[i] = IF i <= Len(s) THEN s[i] ELSE t[i - Len(s)]
<1>1. PICK S : s \in Seq(S)
  BY DEF IsSeq
<1>2. PICK T : t \in Seq(T)
  BY DEF IsSeq
<1> DEFINE u == s \o t
           U == S \cup T
<1>3. s \in Seq(U) /\ t \in Seq(U)
  BY <1>1, <1>2, SeqMonotonic
<1>4. /\ u \in Seq(U) /\ Len(u) = Len(s) + Len(t)
      /\ \A i \in 1..(Len(s) + Len(t)) : u[i] = IF i <= Len(s) THEN s[i] ELSE t[i - Len(s)]
  BY <1>3, ConcatProperties
<1>5. /\ DOMAIN s = 1..Len(s) /\ DOMAIN t = 1..Len(t) /\ DOMAIN u = 1..Len(u)
      /\ Len(s) \in Nat /\ Len(t) \in Nat
  BY <1>3, <1>4, LenProperties
<1> HIDE DEF u
<1>6. Range(u) \subseteq Range(s) \cup Range(t)
  BY <1>4, <1>5 DEF Range
<1>7. \A i \in 1..Len(s) : i \in 1..Len(u) /\ u[i] = s[i]
  BY <1>4, <1>5
<1>8. \A i \in 1..Len(t) : Len(s) + i \in 1..Len(u) /\ u[Len(s) + i] = t[i]
  BY <1>4, <1>5
<1>9. Range(s) \subseteq Range(u)
  BY <1>5, <1>7 DEF Range
<1>10. Range(t) \subseteq Range(u)
  BY <1>5, <1>8 DEF Range
<1> QED BY <1>4, <1>6, <1>9, <1>10 DEF IsSeq, u

LEMMA TailRange ==
    ASSUME NEW s, IsSeq(s), s # <<>>
    PROVE  /\ IsSeq(Tail(s)) /\ Range(Tail(s)) \subseteq Range(s) /\ Head(s) \in Range(s)
           /\ Len(Tail(s)) = Len(s) - 1 /\ Len(s) > 0
           /\ \A i \in 1..Len(Tail(s)) : Tail(s)[i] = s[i + 1]
<1>1. PICK S : s \in Seq(S)
  BY DEF IsSeq
<1>2. /\ Tail(s) \in Seq(S) /\ Len(Tail(s)) = Len(s) - 1
      /\ \A i \in 1..Len(Tail(s)) : Tail(s)[i] = s[i + 1]
  BY <1>1, HeadTailProperties
<1>3. Len(s) \in Nat \ {0} /\ Head(s) = s[1]
  BY <1>1, EmptySeq
<1>4. DOMAIN s = 1..Len(s) /\ DOMAIN Tail(s) = 1..Len(Tail(s))
  BY <1>1, <1>2, LenProperties
<1>5. Range(Tail(s)) \subseteq Range(s) /\ Head(s) \in Range(s)
  BY <1>2, <1>3, <1>4 DEF Range
<1> QED BY <1>2, <1>3, <1>5 DEF IsSeq

-----------------------------------------------------------------------------
(* The store.                                                              *)

InHist(f, cook) == \E i \in DOMAIN f.history : f.history[i].cook = cook
KeptIn(f, cook) ==
    (f.journal # None /\ f.journal.cook = cook /\ f.journal.seen) \/ InHist(f, cook)

\* Everything that was kept is in the history.
Filed(f) == f \in Files /\ \A cook : Kept(cook) => InHist(f, cook)

\* What a command may leave.
Good(cmd) ==
    {f \in Files :
        /\ \A cook : Kept(cook) => KeptIn(f, cook)
        /\ f.journal # None =>
             \/ files.journal # None /\ f.journal.cook = files.journal.cook
             \/ About(cmd, f.journal.cook)}

LEMMA WriteKeeps ==
    ASSUME NEW G, NEW trail \in Seq(G), trail # <<>>, NEW j,
           [Last(trail) EXCEPT !.journal = j] \in G
    PROVE  /\ Write(trail, j) \in Seq(G) /\ Write(trail, j) # <<>>
           /\ Last(Write(trail, j)) = [Last(trail) EXCEPT !.journal = j]
<1> DEFINE f == [Last(trail) EXCEPT !.journal = j]
           t == Append(trail, f)
<1> HIDE DEF f
<1>1. f \in G
  BY DEF f
<1>2. t \in Seq(G) /\ Len(t) = Len(trail) + 1 /\ t[Len(trail) + 1] = f
  BY <1>1, AppendProperties
<1>3. Len(trail) \in Nat
  BY LenProperties
<1>4. t # <<>>
  BY <1>2, <1>3, EmptySeq
<1> QED BY <1>2, <1>4 DEF Write, Last, f

LEMMA FilesGood == ASSUME files \in Files, NEW cmd PROVE files \in Good(cmd)
  BY DEF Good, KeptIn, InHist, Kept, InHistory, SeenInJournal, Journals

LEMMA OneFile ==
    ASSUME files \in Files, NEW cmd
    PROVE  <<files>> \in Seq(Good(cmd)) /\ <<files>> # <<>> /\ Last(<<files>>) = files
  BY FilesGood DEF Last

LEMMA FinishGood ==
    ASSUME files \in Files, NEW cmd
    PROVE  /\ Finish \in Seq(Good(cmd)) /\ Finish # <<>>
           /\ Filed(Last(Finish)) /\ Last(Finish).journal = None
<1>1. CASE files.journal = None
  BY <1>1, OneFile DEF Finish, Filed, Kept, InHistory, SeenInJournal, Journals, InHist
<1>2. CASE files.journal # None /\ files.journal.seen
  <2> DEFINE h == Append(files.history, Entry)
             f == [files EXCEPT !.history = h]
             trail == <<files, f>>
  <2>1. files.journal \in Journal /\ files.history \in Seq(HistoryEntry)
    BY <1>2 DEF Files
  <2>2. Entry \in HistoryEntry /\ Entry.cook = files.journal.cook
    BY <2>1 DEF Entry, HistoryEntry, Journal
  <2>3. /\ h \in Seq(HistoryEntry) /\ Len(h) = Len(files.history) + 1
        /\ \A i \in 1..Len(files.history) : h[i] = files.history[i]
        /\ h[Len(files.history) + 1] = Entry
    BY <2>1, <2>2, AppendProperties
  <2>4. DOMAIN h = 1..Len(h) /\ DOMAIN files.history = 1..Len(files.history)
        /\ Len(files.history) \in Nat
    BY <2>1, <2>3, LenProperties
  <2> HIDE DEF h
  <2>5. f \in Files /\ f.history = h /\ f.journal = files.journal
    BY <2>1, <2>3 DEF Files
  <2>6. \A cook : Kept(cook) => InHist(f, cook)
    <3> TAKE cook
    <3>1. ASSUME InHistory(cook) PROVE InHist(f, cook)
      BY <2>3, <2>4, <2>5, <3>1 DEF InHist, InHistory
    <3>2. ASSUME Journals(cook) PROVE InHist(f, cook)
      BY <2>2, <2>3, <2>4, <2>5, <3>2 DEF InHist, Journals
    <3> QED BY <3>1, <3>2 DEF Kept, SeenInJournal
  <2>7. f \in Good(cmd)
    BY <1>2, <2>5, <2>6 DEF Good, KeptIn
  <2>8. [f EXCEPT !.journal = None] \in Files /\ [f EXCEPT !.journal = None].history = h
        /\ [f EXCEPT !.journal = None].journal = None
    BY <2>3, <2>5 DEF Files
  <2>9. Filed([f EXCEPT !.journal = None])
    BY <2>5, <2>6, <2>8 DEF Filed, InHist
  <2> HIDE DEF f
  <2>10. [f EXCEPT !.journal = None] \in Good(cmd)
    BY <2>8, <2>9 DEF Good, Filed, KeptIn
  <2>11. trail \in Seq(Good(cmd)) /\ trail # <<>> /\ Last(trail) = f
    BY <2>7, FilesGood DEF Last
  <2>12. Finish = Write(trail, None)
    BY <1>2 DEF Finish, f, h
  <2> HIDE DEF trail
  <2>13. Last(Finish) = [f EXCEPT !.journal = None] /\ Finish \in Seq(Good(cmd)) /\ Finish # <<>>
    BY <2>10, <2>11, <2>12, WriteKeeps
  <2> QED BY <2>8, <2>9, <2>13
<1>3. CASE files.journal # None /\ ~files.journal.seen
  <2> DEFINE f == [files EXCEPT !.journal = None]
  <2>1. f \in Files /\ f.journal = None /\ f.history = files.history
    BY DEF Files
  <2>2. Filed(f)
    BY <1>3, <2>1 DEF Filed, Kept, InHistory, SeenInJournal, Journals, InHist
  <2> HIDE DEF f
  <2>3. f \in Good(cmd)
    BY <2>1, <2>2 DEF Good, Filed, KeptIn
  <2>4. Finish = Write(<<files>>, None)
    BY <1>3 DEF Finish
  <2> DEFINE trail == <<files>>
  <2>5. trail \in Seq(Good(cmd)) /\ trail # <<>> /\ Last(trail) = files
    BY OneFile
  <2>6. Finish = Write(trail, None) /\ f = [Last(trail) EXCEPT !.journal = None]
    BY <2>4, <2>5 DEF f
  <2> HIDE DEF trail
  <2>7. Last(Finish) = f /\ Finish \in Seq(Good(cmd)) /\ Finish # <<>>
    BY <2>3, <2>5, <2>6, WriteKeeps
  <2> QED BY <2>1, <2>2, <2>7 DEF f
<1> QED BY <1>1, <1>2, <1>3

LEMMA NewJournal ==
    ASSUME NEW cmd, NEW f, Filed(f), NEW j \in Journal, About(cmd, j.cook)
    PROVE  [f EXCEPT !.journal = j] \in Good(cmd)
<1> DEFINE g == [f EXCEPT !.journal = j]
<1>1. g \in Files /\ g.journal = j /\ g.history = f.history
  BY DEF Filed, Files
<1> HIDE DEF g
<1>2. \A cook : Kept(cook) => KeptIn(g, cook)
  BY <1>1 DEF Filed, KeptIn, InHist
<1> QED BY <1>1, <1>2 DEF Good, g

\* What the running cook's journal turns into.
LEMMA SameCook ==
    ASSUME files \in Files, NEW cmd, files.journal # None, NEW j \in Journal,
           j.cook = files.journal.cook, files.journal.seen => j.seen
    PROVE  Write(<<files>>, j) \in Seq(Good(cmd)) /\ Write(<<files>>, j) # <<>>
<1> DEFINE g == [files EXCEPT !.journal = j]
           trail == <<files>>
<1>1. g \in Files /\ g.journal = j /\ g.history = files.history
  BY DEF Files
<1> HIDE DEF g
<1>2. j # None
  BY LocalStoreAssumption
<1>3. \A cook : Kept(cook) => KeptIn(g, cook)
  BY <1>1, <1>2 DEF KeptIn, InHist, Kept, InHistory, SeenInJournal, Journals
<1>4. g \in Good(cmd)
  BY <1>1, <1>3 DEF Good
<1>5. trail \in Seq(Good(cmd)) /\ trail # <<>> /\ g = [Last(trail) EXCEPT !.journal = j]
  BY OneFile DEF g
<1> HIDE DEF trail
<1>6. Write(trail, j) \in Seq(Good(cmd)) /\ Write(trail, j) # <<>>
  BY <1>4, <1>5, WriteKeeps
<1> QED BY <1>6 DEF trail

\* A cook that takes the place of the one that was finished.
LEMMA NextCook ==
    ASSUME files \in Files, NEW cmd, NEW j \in Journal, About(cmd, j.cook)
    PROVE  Write(Finish, j) \in Seq(Good(cmd)) /\ Write(Finish, j) # <<>>
<1>1. Finish \in Seq(Good(cmd)) /\ Finish # <<>> /\ Filed(Last(Finish))
  BY FinishGood
<1>2. [Last(Finish) EXCEPT !.journal = j] \in Good(cmd)
  BY <1>1, NewJournal
<1> QED BY <1>1, <1>2, WriteKeeps

LEMMA ReconcileGood ==
    ASSUME files \in Files, NEW cmd, NEW cook \in CookOrNone, About(cmd, cook)
    PROVE  Reconcile(cook) \in Seq(Good(cmd)) /\ Reconcile(cook) # <<>>
<1>1. CASE Journals(cook)
  <2> DEFINE j == [files.journal EXCEPT !.seen = TRUE]
  <2>1. j \in Journal /\ j.cook = files.journal.cook /\ j.seen /\ files.journal # None
    BY <1>1 DEF Journals, Files, Journal
  <2>2. Reconcile(cook) = Write(<<files>>, j)
    BY <1>1 DEF Reconcile
  <2> HIDE DEF j
  <2> QED BY <2>1, <2>2, SameCook
<1>2. CASE ~Journals(cook) /\ cook = None
  BY <1>2, FinishGood DEF Reconcile
<1>3. CASE ~Journals(cook) /\ cook # None
  <2>1. Manual(cook) \in Journal /\ Manual(cook).cook = cook
    BY <1>3 DEF Manual, Journal, Titles, CookOrNone
  <2>2. Reconcile(cook) = Write(Finish, Manual(cook))
    BY <1>3 DEF Reconcile
  <2> QED BY <2>1, <2>2, NextCook
<1> QED BY <1>1, <1>2, <1>3

LEMMA TrailGood ==
    ASSUME files \in Files, NEW cmd \in StoreCommand, NEW found \in BOOLEAN,
           cmd.kind = "started" => ~Journals(cmd.cook)
    PROVE  Trail(cmd, found) \in Seq(Good(cmd)) /\ Trail(cmd, found) # <<>>
<1>1. CASE cmd.kind = "reported"
  <2>1. cmd.cook \in CookOrNone /\ About(cmd, cmd.cook)
    BY <1>1 DEF StoreCommand, About, StoreKinds
  <2>2. Trail(cmd, found) = Reconcile(cmd.cook)
    BY <1>1 DEF Trail
  <2> QED BY <2>1, <2>2, ReconcileGood
<1>2. CASE cmd.kind = "started"
  <2>1. /\ Started(cmd.cook, cmd.turnOff, found) \in Journal
        /\ Started(cmd.cook, cmd.turnOff, found).cook = cmd.cook
        /\ About(cmd, cmd.cook)
    BY <1>2 DEF StoreCommand, About, Started, Journal, Titles
  <2>2. Trail(cmd, found) = Write(Finish, Started(cmd.cook, cmd.turnOff, found))
    BY <1>2 DEF Trail, JournalStart
  <2> QED BY <2>1, <2>2, NextCook
<1>3. CASE cmd.kind = "fetch"
  <2>1. cmd.cook \in CookOrNone /\ About(cmd, cmd.cook)
    BY <1>3 DEF StoreCommand, About, StoreKinds
  <2>2. Trail(cmd, found) \in {<<files>>, Reconcile(cmd.cook)}
    BY <1>3 DEF Trail
  <2> QED BY <2>1, <2>2, ReconcileGood, OneFile
<1>4. CASE cmd.kind = "link"
  <2>1. CASE files.journal = None
    BY <1>4, <2>1, OneFile DEF Trail, LinkCook
  <2>2. CASE files.journal # None
    <3> DEFINE j == [files.journal EXCEPT !.title = "saved"]
    <3>1. j \in Journal /\ j.cook = files.journal.cook /\ j.seen = files.journal.seen
      BY <2>2 DEF Files, Journal, Titles
    <3>2. Trail(cmd, found) = Write(<<files>>, j)
      BY <1>4, <2>2 DEF Trail, LinkCook
    <3> HIDE DEF j
    <3> QED BY <2>2, <3>1, <3>2, SameCook
  <2> QED BY <2>1, <2>2
<1>5. CASE cmd.kind = "history"
  BY <1>5, OneFile DEF Trail
<1> QED BY <1>1, <1>2, <1>3, <1>4, <1>5 DEF StoreCommand

\* A command answers with what the state machine knows.
LEMMA AnswerKinds ==
    ASSUME NEW cmd \in StoreCommand, NEW after
    PROVE  /\ IsSeq(Answer(cmd, after))
           /\ \A evt \in Range(Answer(cmd, after)) : evt.kind \in {"fetched", "history", "patched"}
<1> DEFINE E == {e \in {[kind |-> "patched"], [kind |-> "history", entries |-> Recent(after.history)],
                        [kind |-> "fetched",
                         cook |-> [cook |-> after.journal.cook, title |-> after.journal.title,
                                   turnOff |-> after.journal.turnOff]]} :
                   e.kind \in {"fetched", "history", "patched"}}
<1>1. Refreshed(after) \in Seq(E) /\ Fetched(after) \in Seq(E) /\ <<>> \in Seq(E)
      /\ <<[kind |-> "patched"]>> \in Seq(E)
  BY DEF Refreshed, Fetched
<1> HIDE DEF E
<1>2. \A s \in Seq(E) : <<[kind |-> "patched"]>> \o s \in Seq(E)
  BY <1>1, ConcatProperties
<1>3. Answer(cmd, after) \in Seq(E)
  BY <1>1, <1>2 DEF Answer, StoreCommand
<1>4. \A i \in DOMAIN Answer(cmd, after) : Answer(cmd, after)[i] \in E
  BY <1>3, LenProperties
<1> QED BY <1>3, <1>4 DEF IsSeq, Range, E

-----------------------------------------------------------------------------
(* Reductions, other than a start: what they send to the oven starts no    *)
(* cook, and what they ask the store is about the oven's cook `x` at most. *)

Questions(x) ==
    {cmd \in StoreCommand :
        cmd.kind # "started" /\ (cmd.kind \in StoreKinds => cmd.cook \in {None, x})}

RedOK(r, x) ==
    /\ {"sm", "ws", "store"} \subseteq DOMAIN r
    /\ "oven_cook" \in DOMAIN r.sm /\ r.sm.oven_cook = x
    /\ IsSeq(r.ws) /\ \A cmd \in Range(r.ws) : cmd.kind \in OtherKinds
    /\ r.store \in Seq(Questions(x))

LEMMA OnOK == ASSUME NEW s, "oven_cook" \in DOMAIN s PROVE RedOK(On(s), s.oven_cook)
<1>1. On(s).sm = s /\ On(s).ws = <<>> /\ On(s).store = <<>> /\ DOMAIN On(s) = {"sm", "ws", "store", "failed"}
  BY DEF On
<1>2. <<>> \in Seq(Questions(s.oven_cook))
  BY EmptySeq
<1> QED BY <1>1, <1>2, EmptyQueue DEF RedOK

LEMMA SendOK ==
    ASSUME NEW r, NEW x, RedOK(r, x), NEW cmd, cmd.kind \in OtherKinds
    PROVE  RedOK(Send(r, cmd), x)
<1> DEFINE q == Send(r, cmd)
<1>1. DOMAIN q = DOMAIN r /\ q.sm = r.sm /\ q.store = r.store /\ q.ws = Append(r.ws, cmd)
  BY DEF Send, RedOK
<1> HIDE DEF q
<1>2. IsSeq(q.ws) /\ Range(q.ws) = Range(r.ws) \cup {cmd}
  BY <1>1, AppendRange DEF RedOK
<1> QED BY <1>1, <1>2 DEF RedOK, q

LEMMA AskOK ==
    ASSUME NEW r, NEW x, RedOK(r, x), NEW cmd \in Questions(x)
    PROVE  RedOK(Ask(r, cmd), x)
<1> DEFINE q == Ask(r, cmd)
<1>1. DOMAIN q = DOMAIN r /\ q.sm = r.sm /\ q.ws = r.ws /\ q.store = Append(r.store, cmd)
  BY DEF Ask, RedOK
<1> HIDE DEF q
<1>2. q.store \in Seq(Questions(x))
  BY <1>1, AppendProperties DEF RedOK
<1> QED BY <1>1, <1>2 DEF RedOK, q

\* A reduction of another state with the same cook in the oven.
LEMMA StateOK ==
    ASSUME NEW r, NEW x, RedOK(r, x), NEW q, DOMAIN q = DOMAIN r, q.ws = r.ws, q.store = r.store,
           DOMAIN q.sm = DOMAIN r.sm, q.sm.oven_cook = r.sm.oven_cook
    PROVE  RedOK(q, x)
  BY DEF RedOK

LEMMA FetchOK ==
    ASSUME NEW r, NEW x \in CookOrNone, RedOK(r, x)
    PROVE  RedOK(FetchCurrentCook(r), x)
<1> DEFINE cook == IF r.sm.lifecycle = "StartPending" THEN None ELSE r.sm.oven_cook
<1>1. cook \in {None, x}
  BY DEF RedOK
<1> HIDE DEF cook
<1>2. [kind |-> "fetch", cook |-> cook] \in Questions(x)
  BY <1>1 DEF Questions, StoreCommand, StoreKinds, CookOrNone
<1> QED BY <1>2, AskOK DEF FetchCurrentCook, cook

LEMMA HistoryOK ==
    ASSUME NEW r, NEW x, RedOK(r, x) PROVE RedOK(RefreshHistory(r), x)
<1>1. [kind |-> "history"] \in Questions(x)
  BY DEF Questions, StoreCommand, StoreKinds
<1> QED BY <1>1, AskOK DEF RefreshHistory

LEMMA SendControlOK ==
    ASSUME NEW r, NEW x, RedOK(r, x), NEW cmd, cmd.kind \in OtherKinds
    PROVE  RedOK(SendControl(r, cmd), x)
<1> DEFINE q == [r EXCEPT !.sm.controls = Newest(Append(@, cmd.id))]
<1>1. RedOK(q, x)
  <2>1. DOMAIN q = DOMAIN r /\ q.ws = r.ws /\ q.store = r.store
        /\ DOMAIN q.sm = DOMAIN r.sm /\ q.sm.oven_cook = r.sm.oven_cook
    BY DEF RedOK
  <2> HIDE DEF q
  <2> QED BY <2>1, StateOK
<1> HIDE DEF q
<1>2. RedOK(Send(q, cmd), x)
  BY <1>1, SendOK
<1> QED BY <1>2 DEF SendControl, q

LEMMA StopOK ==
    ASSUME NEW r, NEW x, RedOK(r, x), NEW lampId, NEW stopId
    PROVE  RedOK(Stop(r, lampId, stopId), x)
<1> DEFINE dark == IF Local /\ LampIsOn(r.sm) THEN SendControl(r, Command("lampOff", lampId)) ELSE r
           q == [dark EXCEPT !.sm.stop = stopId, !.sm.lifecycle = "StopPending"]
<1>1. RedOK(dark, x)
  <2>1. Command("lampOff", lampId).kind \in OtherKinds
    BY DEF Command, OtherKinds
  <2> QED BY <2>1, SendControlOK
<1> HIDE DEF dark
<1>2. DOMAIN q = DOMAIN dark /\ q.ws = dark.ws /\ q.store = dark.store
      /\ DOMAIN q.sm = DOMAIN dark.sm /\ q.sm.oven_cook = dark.sm.oven_cook
  BY <1>1 DEF RedOK
<1> HIDE DEF q
<1>3. RedOK(q, x)
  BY <1>1, <1>2, StateOK
<1>4. Command("stop", stopId).kind \in OtherKinds
  BY DEF Command, OtherKinds
<1>5. RedOK(Send(q, Command("stop", stopId)), x)
  BY <1>3, <1>4, SendOK
<1> QED BY <1>5 DEF Stop, q, dark

LEMMA EdgeOK ==
    ASSUME NEW r, NEW x \in CookOrNone, RedOK(r, x), NEW status, NEW lampId
    PROVE  RedOK(Edge(r, status, lampId), x)
<1>1. RedOK(IdleToCooking(r, status, lampId), x)
  <2> DEFINE cooking == [r EXCEPT !.sm.start = None, !.sm.lifecycle = "Cooking"]
             lit == IF Local /\ r.sm.status # None /\ ~status.lamp
                      THEN SendControl(cooking, Command("lampOn", lampId))
                      ELSE cooking
  <2>1. DOMAIN cooking = DOMAIN r /\ cooking.ws = r.ws /\ cooking.store = r.store
        /\ DOMAIN cooking.sm = DOMAIN r.sm /\ cooking.sm.oven_cook = r.sm.oven_cook
    BY DEF RedOK
  <2> HIDE DEF cooking
  <2>2. RedOK(cooking, x)
    BY <2>1, StateOK
  <2>3. Command("lampOn", lampId).kind \in OtherKinds
    BY DEF Command, OtherKinds
  <2>4. RedOK(lit, x)
    BY <2>2, <2>3, SendControlOK
  <2> HIDE DEF lit
  <2>5. RedOK(FetchCurrentCook(lit), x)
    BY <2>4, FetchOK
  <2>6. RedOK(RefreshHistory(FetchCurrentCook(lit)), x)
    BY <2>5, HistoryOK
  <2> QED BY <2>6 DEF IdleToCooking, lit, cooking
<1>2. RedOK(CookingToIdle(r), x)
  <2> DEFINE asked == RefreshHistory(r)
             q == [asked EXCEPT !.sm.stop = None, !.sm.current_cook = None, !.sm.lifecycle = "Idle"]
  <2>1. RedOK(asked, x)
    BY HistoryOK
  <2> HIDE DEF asked
  <2>2. DOMAIN q = DOMAIN asked /\ q.ws = asked.ws /\ q.store = asked.store
        /\ DOMAIN q.sm = DOMAIN asked.sm /\ q.sm.oven_cook = asked.sm.oven_cook
    BY <2>1 DEF RedOK
  <2> HIDE DEF q
  <2>3. RedOK(q, x)
    BY <2>1, <2>2, StateOK
  <2> QED BY <2>3 DEF CookingToIdle, q, asked
<1> QED BY <1>1, <1>2, FetchOK DEF Edge

LEMMA SettleOK ==
    ASSUME NEW r, NEW x, RedOK(r, x), NEW status
    PROVE  RedOK(DropStaleCook(RollBackStart(r, status), status), x)
<1> DEFINE p == RollBackStart(r, status)
<1>1. RedOK(p, x)
  <2> DEFINE q == [r EXCEPT !.sm.start = None, !.sm.lifecycle = "Idle"]
  <2>1. DOMAIN q = DOMAIN r /\ q.ws = r.ws /\ q.store = r.store
        /\ DOMAIN q.sm = DOMAIN r.sm /\ q.sm.oven_cook = r.sm.oven_cook
    BY DEF RedOK
  <2>2. p \in {q, r}
    BY DEF RollBackStart
  <2> HIDE DEF q, p
  <2> QED BY <2>1, <2>2, StateOK
<1> HIDE DEF p
<1> DEFINE q == [p EXCEPT !.sm.current_cook = None]
<1>2. DOMAIN q = DOMAIN p /\ q.ws = p.ws /\ q.store = p.store
      /\ DOMAIN q.sm = DOMAIN p.sm /\ q.sm.oven_cook = p.sm.oven_cook
  BY <1>1 DEF RedOK
<1>3. DropStaleCook(p, status) \in {q, p}
  BY DEF DropStaleCook
<1> HIDE DEF q
<1>4. RedOK(DropStaleCook(p, status), x)
  BY <1>1, <1>2, <1>3, StateOK
<1> QED BY <1>4 DEF p

LEMMA TurnOffOK ==
    ASSUME NEW r, NEW x, RedOK(r, x), NEW lampId, NEW stopId
    PROVE  RedOK(TurnOffWhenDone(r, lampId, stopId), x)
<1> DEFINE once == [r EXCEPT !.sm.turned_off = r.sm.oven_cook]
<1>1. DOMAIN once = DOMAIN r /\ once.ws = r.ws /\ once.store = r.store
      /\ DOMAIN once.sm = DOMAIN r.sm /\ once.sm.oven_cook = r.sm.oven_cook
  BY DEF RedOK
<1>2. TurnOffWhenDone(r, lampId, stopId) \in {r, once, Stop(once, lampId, stopId)}
  BY DEF TurnOffWhenDone
<1> HIDE DEF once
<1>3. RedOK(once, x)
  BY <1>1, StateOK
<1> QED BY <1>2, <1>3, StopOK

LEMMA ReportOK ==
    ASSUME NEW s, "oven_cook" \in DOMAIN s, NEW x \in CookOrNone, NEW status, NEW windowOver,
           NEW id, NEW onId, NEW stopId
    PROVE  RedOK(ReduceReport(s, status, x, windowOver, id, onId, stopId), x)
<1> DEFINE watch == Watch(s, status, x, windowOver)
           told == ReportToStore(s, x)
           reported == [told EXCEPT !.sm.oven_cook = x, !.sm.watch = watch]
           settled == IF StartsNextStage(s, watch, status, x)
                        THEN SendControl(reported, NextStage(x, 2, id))
                        ELSE reported
           shown == ShownStatus(s, watch, status, x)
           edged == Edge(settled, shown, onId)
           dropped == DropStaleCook(RollBackStart(edged, shown), shown)
           timed == [dropped EXCEPT !.sm.status = shown]
<1> HIDE DEF watch, shown
<1>1. RedOK(reported, x)
  <2> DEFINE first == On(s)
             cmd == [kind |-> "reported", cook |-> x]
  <2>1. /\ first.sm = s /\ first.ws = <<>> /\ first.store = <<>>
        /\ DOMAIN first = {"sm", "ws", "store", "failed"}
    BY DEF On
  <2> HIDE DEF first
  <2>2. cmd \in Questions(x) /\ <<cmd>> = Append(<<>>, cmd)
    BY DEF Questions, StoreCommand, StoreKinds
  <2>3. told.sm = s /\ told.ws = <<>> /\ told.store \in {<<>>, Append(<<>>, cmd)}
        /\ DOMAIN told = {"sm", "ws", "store", "failed"}
    BY <2>1 DEF ReportToStore, Ask, first
  <2> HIDE DEF told, cmd
  <2> DEFINE Q == Questions(x)
  <2> HIDE DEF Q
  <2>a. <<>> \in Seq(Q)
    BY EmptySeq
  <2>b. cmd \in Q
    BY <2>2 DEF Q
  <2>c. Append(<<>>, cmd) \in Seq(Q)
    BY <2>a, <2>b, AppendProperties
  <2>4. told.store \in Seq(Questions(x))
    BY <2>3, <2>a, <2>c DEF Q
  <2>5. /\ DOMAIN reported = DOMAIN told /\ reported.ws = told.ws /\ reported.store = told.store
        /\ DOMAIN reported.sm = DOMAIN s /\ reported.sm.oven_cook = x
    BY <2>3
  <2> HIDE DEF reported
  <2> QED BY <2>3, <2>4, <2>5, EmptyQueue DEF RedOK
<1> HIDE DEF reported, told
<1>2. RedOK(settled, x)
  <2>1. NextStage(x, 2, id).kind \in OtherKinds
    BY DEF NextStage, OtherKinds
  <2> QED BY <1>1, <2>1, SendControlOK
<1> HIDE DEF settled
<1>3. RedOK(edged, x)
  BY <1>2, EdgeOK
<1> HIDE DEF edged
<1>4. RedOK(dropped, x)
  BY <1>3, SettleOK
<1> HIDE DEF dropped
<1>5. RedOK(timed, x)
  <2>1. DOMAIN timed = DOMAIN dropped /\ timed.ws = dropped.ws /\ timed.store = dropped.store
        /\ DOMAIN timed.sm = DOMAIN dropped.sm /\ timed.sm.oven_cook = dropped.sm.oven_cook
    BY <1>4 DEF RedOK
  <2> HIDE DEF timed
  <2> QED BY <1>4, <2>1, StateOK
<1> HIDE DEF timed
<1>6. RedOK(TurnOffWhenDone(timed, id, stopId), x)
  BY <1>5, TurnOffOK
<1> QED
  BY <1>6 DEF ReduceReport, ApplyApoState, timed, dropped, edged, settled, reported, told, watch, shown

LEMMA LinkShownOK ==
    ASSUME NEW s, "oven_cook" \in DOMAIN s
    PROVE  RedOK(LinkShown(s), s.oven_cook)
<1> DEFINE t == [s EXCEPT !.current_cook.title = "saved"]
<1>1. DOMAIN t = DOMAIN s /\ t.oven_cook = s.oven_cook
  OBVIOUS
<1> HIDE DEF t
<1>2. RedOK(On(t), s.oven_cook)
  BY <1>1, OnOK
<1>3. [kind |-> "link"] \in Questions(s.oven_cook)
  BY DEF Questions, StoreCommand, StoreKinds
<1> QED BY <1>2, <1>3, AskOK DEF LinkShown, t

LEMMA ControlOK ==
    ASSUME NEW s, "oven_cook" \in DOMAIN s, NEW kind \in Controls, NEW id
    PROVE  RedOK(SendControl(On(s), Control(s, kind, id)), s.oven_cook)
<1>1. Control(s, kind, id).kind \in OtherKinds
  BY DEF Control, NextStage, Command, Controls, OtherKinds
<1> QED BY <1>1, OnOK, SendControlOK

LEMMA FailOK ==
    ASSUME NEW r, NEW x, RedOK(r, x), NEW id PROVE RedOK(Fail(r, id), x)
<1> DEFINE q == Fail(r, id)
<1>1. DOMAIN q = DOMAIN r /\ q.ws = r.ws /\ q.store = r.store /\ q.sm = r.sm
  BY DEF Fail, RedOK
<1> QED BY <1>1 DEF RedOK

LEMMA AckOK ==
    ASSUME NEW s, "oven_cook" \in DOMAIN s, s.oven_cook \in CookOrNone, NEW id, NEW ok
    PROVE  RedOK(ApplyCommandAck(s, id, ok), s.oven_cook)
<1> DEFINE a == [s EXCEPT !.start = None, !.lifecycle = "Cooking"]
           b == [s EXCEPT !.start = None, !.lifecycle = "Idle"]
           c == [s EXCEPT !.stop = None, !.lifecycle = "Cooking"]
           d == [s EXCEPT !.controls = RemoveFirst(@, id)]
<1>1. /\ DOMAIN a = DOMAIN s /\ a.oven_cook = s.oven_cook
      /\ DOMAIN b = DOMAIN s /\ b.oven_cook = s.oven_cook
      /\ DOMAIN c = DOMAIN s /\ c.oven_cook = s.oven_cook
      /\ DOMAIN d = DOMAIN s /\ d.oven_cook = s.oven_cook
  OBVIOUS
<1> HIDE DEF a, b, c, d
<1>2. /\ RedOK(On(s), s.oven_cook) /\ RedOK(On(a), s.oven_cook) /\ RedOK(On(b), s.oven_cook)
      /\ RedOK(On(c), s.oven_cook) /\ RedOK(On(d), s.oven_cook)
  BY <1>1, OnOK
<1>3. RedOK(StartAcked(s), s.oven_cook)
  <2>1. StartAcked(s) = FetchCurrentCook(IF Local /\ OvenCooking(s) THEN On(a) ELSE On(s))
    BY DEF StartAcked, a
  <2> QED BY <1>2, <2>1, FetchOK
<1>4. RedOK(StartFailed(s), s.oven_cook)
  BY <1>2, FailOK DEF StartFailed, b
<1>5. RedOK(StopFailed(s), s.oven_cook)
  BY <1>2, FailOK DEF StopFailed, c
<1>6. RedOK(ControlAcked(s, id, ok), s.oven_cook)
  BY <1>2, FailOK DEF ControlAcked, d
<1> QED BY <1>2, <1>3, <1>4, <1>5, <1>6 DEF ApplyCommandAck

LEMMA LinkOK ==
    ASSUME NEW s, "oven_cook" \in DOMAIN s, NEW kind
    PROVE  RedOK(ApplyLink(s, kind), s.oven_cook)
<1> DEFINE c == IF kind = "connected" /\ s.connectivity # "disconnected"
                  THEN s.connectivity ELSE kind
           t == [s EXCEPT !.connectivity = c]
<1> HIDE DEF c
<1>1. DOMAIN t = DOMAIN s /\ t.oven_cook = s.oven_cook
  OBVIOUS
<1>2. ApplyLink(s, kind) = On(t)
  BY DEF ApplyLink, c
<1> HIDE DEF t
<1> QED BY <1>1, <1>2, OnOK

LEMMA StoreEventOK ==
    ASSUME NEW s, "oven_cook" \in DOMAIN s, s.oven_cook \in CookOrNone,
           NEW evt, evt.kind \in {"fetched", "history", "patched"}
    PROVE  RedOK(ApplyStoreEvent(s, evt), s.oven_cook)
<1> DEFINE a == [s EXCEPT !.current_cook = evt.cook]
           b == [s EXCEPT !.history = evt.entries]
<1>1. /\ DOMAIN a = DOMAIN s /\ a.oven_cook = s.oven_cook
      /\ DOMAIN b = DOMAIN s /\ b.oven_cook = s.oven_cook
  OBVIOUS
<1>2. ApplyStoreEvent(s, evt) \in {On(a), On(b), FetchCurrentCook(On(s))}
  BY DEF ApplyStoreEvent
<1> HIDE DEF a, b
<1>3. RedOK(On(s), s.oven_cook) /\ RedOK(On(a), s.oven_cook) /\ RedOK(On(b), s.oven_cook)
  BY <1>1, OnOK
<1>4. RedOK(FetchCurrentCook(On(s)), s.oven_cook)
  BY <1>3, FetchOK
<1> QED BY <1>2, <1>3, <1>4

-----------------------------------------------------------------------------
(* Every step preserves the invariant.                                     *)

\* A queue that has only lost its head, or nothing.
Shorter(t, s) == IsSeq(t) /\ Range(t) \subseteq Range(s)

LEMMA TailShorter == ASSUME NEW s, IsSeq(s), s # <<>> PROVE Shorter(Tail(s), s)
  BY TailRange DEF Shorter

\* The store is asked about cooks that are known, and told of no start.
LEMMA AskedStore ==
    ASSUME IInv, NEW x \in Begun, NEW q \in Seq(Questions(x)),
           storeCmd' = storeCmd \o q, begun' = begun, files' = files
    PROVE  /\ storeCmd' \in Seq(StoreCommand)
           /\ \A j \in DOMAIN storeCmd' : \A cook : About(storeCmd'[j], cook) => cook \in Begun'
           /\ Fresh'
<1>1. storeCmd \in Seq(StoreCommand) /\ IsSeq(storeCmd) /\ Len(storeCmd) \in Nat
      /\ DOMAIN storeCmd = 1..Len(storeCmd)
  BY TypedQueue, QueueDomain DEF IInv, Known
<1>2. q \in Seq(StoreCommand)
  BY SeqMonotonic DEF Questions
<1>3. IsSeq(q) /\ Len(q) \in Nat /\ DOMAIN q = 1..Len(q)
  BY TypedQueue, QueueDomain
<1>4. storeCmd' \in Seq(StoreCommand) /\ IsSeq(storeCmd') /\ DOMAIN storeCmd' = 1..Len(storeCmd')
  BY <1>1, <1>2, ConcatProperties, TypedQueue, QueueDomain
<1>5. /\ Len(storeCmd') = Len(storeCmd) + Len(q)
      /\ \A i \in 1..(Len(storeCmd) + Len(q)) :
           storeCmd'[i] = IF i <= Len(storeCmd) THEN storeCmd[i] ELSE q[i - Len(storeCmd)]
  BY <1>1, <1>3, ConcatRange
<1>6. \A i \in DOMAIN q : q[i].kind # "started" /\ (\A cook : About(q[i], cook) => cook \in Begun)
  <2> TAKE i \in DOMAIN q
  <2>1. q[i] \in Questions(x)
    BY <1>3
  <2> QED BY <2>1 DEF Questions, About, StoreKinds, Begun
<1>7. \A j \in DOMAIN storeCmd' :
        \/ j \in DOMAIN storeCmd /\ storeCmd'[j] = storeCmd[j]
        \/ \E i \in DOMAIN q : storeCmd'[j] = q[i]
  <2> TAKE j \in DOMAIN storeCmd'
  <2>1. CASE j <= Len(storeCmd)
    BY <1>1, <1>3, <1>4, <1>5, <2>1
  <2>2. CASE ~(j <= Len(storeCmd))
    <3>1. j - Len(storeCmd) \in 1..Len(q) /\ storeCmd'[j] = q[j - Len(storeCmd)]
      BY <1>1, <1>3, <1>4, <1>5, <2>2
    <3> QED BY <1>3, <3>1
  <2> QED BY <2>1, <2>2
<1>8. \A j \in DOMAIN storeCmd' : \A cook : About(storeCmd'[j], cook) => cook \in Begun'
  BY <1>6, <1>7 DEF IInv, Known, Begun
<1>9. Fresh'
  <2> SUFFICES ASSUME NEW j \in DOMAIN storeCmd', storeCmd'[j].kind = "started"
               PROVE  /\ files.journal # None => files.journal.cook # storeCmd'[j].cook
                      /\ \A i \in 1..(j - 1) : ~About(storeCmd'[i], storeCmd'[j].cook)
    BY DEF Fresh
  <2>1. j \in DOMAIN storeCmd /\ storeCmd'[j] = storeCmd[j]
    BY <1>6, <1>7
  <2>2. \A i \in 1..(j - 1) : storeCmd'[i] = storeCmd[i]
    BY <1>1, <1>3, <1>5, <2>1
  <2> QED BY <2>1, <2>2 DEF IInv, Fresh
<1> QED BY <1>4, <1>8, <1>9

\* A reduction that starts no cook.
LEMMA PerformOK ==
    ASSUME IInv, NEW x \in Begun, NEW r, RedOK(r, x), Perform(r),
           Shorter(wsEvt', wsEvt), Shorter(storeEvt', storeEvt),
           oven' = oven, begun' = begun, inbox' = inbox, files' = files
    PROVE  IInv'
<1>1. /\ storeCmd' \in Seq(StoreCommand)
      /\ \A j \in DOMAIN storeCmd' : \A cook : About(storeCmd'[j], cook) => cook \in Begun'
      /\ Fresh'
  BY AskedStore DEF RedOK, Perform
<1>2. WsKnown(wsCmd)'
  BY ConcatRange DEF IInv, Known, WsKnown, RedOK, Perform
<1>3. "oven_cook" \in DOMAIN sm' /\ sm'.oven_cook \in Begun'
  BY DEF RedOK, Perform, Begun
<1>4. /\ IsSeq(wsEvt') /\ \A evt \in Range(wsEvt') : evt.kind = "state" => evt.cook \in Begun'
      /\ IsSeq(storeEvt') /\ \A evt \in Range(storeEvt') : evt.kind \in {"fetched", "history", "patched"}
  BY DEF Shorter, IInv, Known, Begun
<1>5. (begun \subseteq Cooks)' /\ "cook" \in DOMAIN oven' /\ oven'.cook \in Begun' /\ WsKnown(inbox)' /\ OnDisk'
  BY DEF IInv, Known, OnDisk, Begun, WsKnown
<1>6. Known'
  BY <1>1, <1>2, <1>3, <1>4, <1>5 DEF Known
<1> QED BY <1>1, <1>5, <1>6 DEF IInv

\* A start draws a cook that nothing knows, and puts it last in the store's queue.
LEMMA ClientStartsOK == ASSUME IInv, ClientStarts, UNCHANGED storeVars PROVE IInv'
<1>1. PICK cook \in Cooks \ begun, turnOff \in TurnOffChoices :
        StartCook(cook, turnOff) /\ begun' = begun \cup {cook}
  BY DEF ClientStarts
<1>2. UNCHANGED <<oven, inbox, wsEvt, storeEvt, files>>
  BY <1>1 DEF ClientStarts, StartCook, storeVars
<1> DEFINE seeded == [cook |-> cook, title |-> "started", turnOff |-> turnOff]
           s == [sm EXCEPT !.start = cook, !.lifecycle = "StartPending", !.current_cook = seeded]
           cmd == [kind |-> "started", cook |-> cook, turnOff |-> turnOff]
<1>3. /\ "oven_cook" \in DOMAIN sm' /\ sm'.oven_cook = sm.oven_cook
      /\ wsCmd' = wsCmd \o <<Command("start", cook)>>
      /\ storeCmd' = storeCmd \o <<cmd>>
  <2> DEFINE r == On(s)
  <2>1. DOMAIN s = DOMAIN sm /\ s.oven_cook = sm.oven_cook
    BY DEF IInv, Known
  <2> HIDE DEF s
  <2>2. r.sm = s /\ r.ws = <<>> /\ r.store = <<>> /\ DOMAIN r = {"sm", "ws", "store", "failed"}
    BY DEF On
  <2> HIDE DEF r
  <2> DEFINE q == Ask(Send(r, Command("start", cook)), cmd)
  <2>3. q.sm = s /\ q.ws = Append(<<>>, Command("start", cook)) /\ q.store = Append(<<>>, cmd)
    BY <2>2 DEF Ask, Send
  <2>4. q = Start(sm, cook, turnOff)
    BY DEF Start, s, r
  <2>5. Append(<<>>, Command("start", cook)) = <<Command("start", cook)>> /\ Append(<<>>, cmd) = <<cmd>>
    OBVIOUS
  <2> HIDE DEF q
  <2> QED BY <1>1, <2>1, <2>3, <2>4, <2>5 DEF StartCook, Perform, IInv, Known
<1>4. cmd \in StoreCommand /\ cmd.kind = "started" /\ cmd.cook = cook
  BY LocalServerAssumption DEF StoreCommand
<1> HIDE DEF cmd
<1>5. cook \in Cooks /\ cook \notin begun /\ cook # None
  BY MessagesAssumption
<1>6. storeCmd \in Seq(StoreCommand) /\ Len(storeCmd) \in Nat /\ DOMAIN storeCmd = 1..Len(storeCmd)
  BY LenProperties DEF IInv, Known
<1>7. storeCmd' = Append(storeCmd, cmd)
  BY <1>3, <1>4, <1>6
<1>8. /\ storeCmd' \in Seq(StoreCommand) /\ Len(storeCmd') = Len(storeCmd) + 1
      /\ \A i \in 1..Len(storeCmd) : storeCmd'[i] = storeCmd[i]
      /\ storeCmd'[Len(storeCmd) + 1] = cmd
  BY <1>4, <1>6, <1>7, AppendProperties
<1>9. DOMAIN storeCmd' = 1..(Len(storeCmd) + 1)
  BY <1>6, <1>8, LenProperties
<1>10. \A j \in DOMAIN storeCmd' : \A k : About(storeCmd'[j], k) => k \in Begun'
  <2> TAKE j \in DOMAIN storeCmd'
  <2>1. CASE j \in 1..Len(storeCmd)
    BY <1>1, <1>6, <1>8, <2>1 DEF IInv, Known, Begun
  <2>2. CASE j = Len(storeCmd) + 1
    BY <1>1, <1>4, <1>8, <2>2 DEF About, Begun
  <2> QED BY <1>6, <1>9, <2>1, <2>2
<1>11. Fresh'
  <2> SUFFICES ASSUME NEW j \in DOMAIN storeCmd', storeCmd'[j].kind = "started"
               PROVE  /\ files.journal # None => files.journal.cook # storeCmd'[j].cook
                      /\ \A i \in 1..(j - 1) : ~About(storeCmd'[i], storeCmd'[j].cook)
    BY <1>2 DEF Fresh
  <2>1. CASE j \in 1..Len(storeCmd)
    <3>1. storeCmd'[j] = storeCmd[j] /\ \A i \in 1..(j - 1) : storeCmd'[i] = storeCmd[i]
      BY <1>6, <1>8, <2>1
    <3> QED BY <1>6, <2>1, <3>1 DEF IInv, Fresh
  <2>2. CASE j = Len(storeCmd) + 1
    <3>1. storeCmd'[j].cook = cook
      BY <1>4, <1>8, <2>2
    <3>2. files.journal # None => files.journal.cook # cook
      BY <1>5 DEF IInv, OnDisk
    <3>3. \A i \in 1..(j - 1) : i \in DOMAIN storeCmd /\ storeCmd'[i] = storeCmd[i]
      BY <1>6, <1>8, <2>2
    <3>4. \A i \in 1..(j - 1) : ~About(storeCmd'[i], cook)
      BY <1>5, <3>3 DEF IInv, Known, Begun
    <3> QED BY <3>1, <3>2, <3>4
  <2> QED BY <1>6, <1>9, <2>1, <2>2
<1>12. WsKnown(wsCmd)' /\ WsKnown(inbox)'
  <2>1. Command("start", cook).kind = "start" /\ Command("start", cook).id \in begun'
    BY <1>1 DEF Command
  <2>2. IsSeq(wsCmd) /\ \A c \in Range(wsCmd) : c.kind \in OtherKinds \/ (c.kind = "start" /\ c.id \in begun)
    BY DEF IInv, Known, WsKnown
  <2>3. wsCmd' = Append(wsCmd, Command("start", cook))
    BY <1>3, <2>2 DEF IsSeq
  <2>4. IsSeq(wsCmd') /\ Range(wsCmd') = Range(wsCmd) \cup {Command("start", cook)}
    BY <2>2, <2>3, AppendRange
  <2>5. WsKnown(wsCmd)'
    BY <1>1, <2>1, <2>2, <2>4 DEF WsKnown
  <2>6. WsKnown(inbox)'
    BY <1>1, <1>2 DEF IInv, Known, WsKnown
  <2> QED BY <2>5, <2>6
<1>13. Known'
  BY <1>1, <1>2, <1>3, <1>8, <1>10, <1>12 DEF IInv, Known, Begun
<1>14. OnDisk'
  BY <1>1, <1>2 DEF IInv, OnDisk
<1> QED BY <1>11, <1>13, <1>14 DEF IInv

\* The state machine's other steps.
LEMMA SmStepOK == ASSUME IInv, SmStep PROVE IInv' /\ files' = files
<1>1. files' = files /\ UNCHANGED storeVars
  BY DEF SmStep, storeVars
<1>2. "oven_cook" \in DOMAIN sm /\ sm.oven_cook \in Begun /\ sm.oven_cook \in CookOrNone
  BY DEF IInv, Known, Begun, CookOrNone
<1>3. RedOK(On(sm), sm.oven_cook)
  BY <1>2, OnOK
<1>4. IsSeq(wsEvt) /\ IsSeq(storeEvt) /\ Shorter(wsEvt, wsEvt) /\ Shorter(storeEvt, storeEvt)
  BY DEF IInv, Known, Shorter
<1>5. CASE ClientStarts
  BY <1>1, <1>5, ClientStartsOK
<1>6. CASE ClientActs
  <2>1. UNCHANGED <<oven, begun, inbox>>
    BY <1>6 DEF ClientActs, ovenVars
  <2>2. CASE StopCook(NewId, OtherNewId)
    <3>1. RedOK(Stop(On(sm), NewId, OtherNewId), sm.oven_cook)
      BY <1>3, StopOK
    <3>2. Perform(Stop(On(sm), NewId, OtherNewId)) /\ UNCHANGED <<wsEvt, storeEvt>>
      BY <2>2 DEF StopCook
    <3> QED BY <1>1, <1>2, <1>4, <2>1, <3>1, <3>2, PerformOK
  <2>3. CASE \E kind \in ClientRequests \cap Controls : ControlCook(kind, NewId)
    <3>1. PICK kind \in Controls : ControlCook(kind, NewId)
      BY <2>3
    <3>2. RedOK(SendControl(On(sm), Control(sm, kind, NewId)), sm.oven_cook)
      BY <1>2, ControlOK
    <3>3. Perform(SendControl(On(sm), Control(sm, kind, NewId))) /\ UNCHANGED <<wsEvt, storeEvt>>
      BY <3>1 DEF ControlCook
    <3> QED BY <1>1, <1>2, <1>4, <2>1, <3>2, <3>3, PerformOK
  <2> QED BY <1>6, <2>2, <2>3 DEF ClientActs
<1>7. CASE SaveReadsCook
  BY <1>1, <1>7
  DEF SaveReadsCook, channels, smVars, ovenVars, IInv, Known, OnDisk, Fresh, WsKnown, Begun
<1>8. CASE SaveLinksCook
  <2>1. UNCHANGED <<oven, begun, inbox>>
    BY <1>8 DEF SaveLinksCook, ovenVars
  <2>2. CASE LinkCurrentCook
    <3>1. RedOK(LinkShown(sm), sm.oven_cook)
      BY <1>2, LinkShownOK
    <3>2. Perform(LinkShown(sm)) /\ UNCHANGED <<wsEvt, storeEvt>>
      BY <2>2 DEF LinkCurrentCook
    <3> QED BY <1>1, <1>2, <1>4, <2>1, <3>1, <3>2, PerformOK
  <2>3. CASE UNCHANGED <<channels, smVars>>
    BY <1>1, <2>1, <2>3 DEF channels, smVars, IInv, Known, OnDisk, Fresh, WsKnown, Begun
  <2> QED BY <1>8, <2>2, <2>3 DEF SaveLinksCook
<1>9. CASE SmTakesState
  <2>1. UNCHANGED <<oven, begun, inbox, storeEvt>> /\ wsEvt # <<>> /\ wsEvt' = Tail(wsEvt)
        /\ Head(wsEvt).kind = "state"
    BY <1>9 DEF SmTakesState, TakeApoState, ovenVars
  <2>2. PICK over \in BOOLEAN :
          Perform(ReduceReport(sm, Head(wsEvt).status, Head(wsEvt).cook, over, NewId, NewId, OtherNewId))
    BY <1>9 DEF SmTakesState, TakeApoState
  <2>3. Head(wsEvt).cook \in Begun /\ Head(wsEvt).cook \in CookOrNone
    <3>1. Head(wsEvt) \in Range(wsEvt)
      BY <1>4, <2>1, TailRange
    <3> QED BY <2>1, <3>1 DEF IInv, Known, Begun, CookOrNone
  <2>4. RedOK(ReduceReport(sm, Head(wsEvt).status, Head(wsEvt).cook, over, NewId, NewId, OtherNewId),
              Head(wsEvt).cook)
    BY <1>2, <2>3, ReportOK
  <2>5. Shorter(wsEvt', wsEvt)
    BY <1>4, <2>1, TailShorter
  <2> QED BY <1>1, <1>4, <2>1, <2>2, <2>3, <2>4, <2>5, PerformOK
<1>10. CASE SmTakesAck
  <2>1. UNCHANGED <<oven, begun, inbox, storeEvt>> /\ wsEvt # <<>> /\ wsEvt' = Tail(wsEvt)
        /\ Perform(ApplyCommandAck(sm, Head(wsEvt).id, Head(wsEvt).ok))
    BY <1>10 DEF SmTakesAck, TakeAck, ovenVars
  <2>2. RedOK(ApplyCommandAck(sm, Head(wsEvt).id, Head(wsEvt).ok), sm.oven_cook)
    BY <1>2, AckOK
  <2>3. Shorter(wsEvt', wsEvt)
    BY <1>4, <2>1, TailShorter
  <2> QED BY <1>1, <1>2, <1>4, <2>1, <2>2, <2>3, PerformOK
<1>11. CASE SmTakesLink
  <2>1. UNCHANGED <<oven, begun, inbox, storeEvt>> /\ wsEvt # <<>> /\ wsEvt' = Tail(wsEvt)
        /\ Perform(ApplyLink(sm, Head(wsEvt).kind))
    BY <1>11 DEF SmTakesLink, TakeLink, ovenVars
  <2>2. RedOK(ApplyLink(sm, Head(wsEvt).kind), sm.oven_cook)
    BY <1>2, LinkOK
  <2>3. Shorter(wsEvt', wsEvt)
    BY <1>4, <2>1, TailShorter
  <2> QED BY <1>1, <1>2, <1>4, <2>1, <2>2, <2>3, PerformOK
<1>12. CASE SmTakesStore
  <2>1. UNCHANGED <<oven, begun, inbox, wsEvt>> /\ storeEvt # <<>> /\ storeEvt' = Tail(storeEvt)
        /\ Perform(ApplyStoreEvent(sm, Head(storeEvt)))
    BY <1>12 DEF SmTakesStore, TakeStoreEvent, ovenVars
  <2>2. Head(storeEvt).kind \in {"fetched", "history", "patched"}
    <3>1. Head(storeEvt) \in Range(storeEvt)
      BY <1>4, <2>1, TailRange
    <3> QED BY <3>1 DEF IInv, Known
  <2>3. RedOK(ApplyStoreEvent(sm, Head(storeEvt)), sm.oven_cook)
    BY <1>2, <2>2, StoreEventOK
  <2>4. Shorter(storeEvt', storeEvt)
    BY <1>4, <2>1, TailShorter
  <2> QED BY <1>1, <1>2, <1>4, <2>1, <2>3, <2>4, PerformOK
<1>13. CASE SmTicks
  <2>1. UNCHANGED <<oven, begun, inbox, wsEvt, storeEvt>>
    BY <1>13 DEF SmTicks, CurrentCookTick, HistoryTick, ovenVars
  <2>2. Perform(FetchCurrentCook(On(sm))) \/ Perform(RefreshHistory(On(sm)))
    BY <1>13 DEF SmTicks, CurrentCookTick, HistoryTick
  <2>3. RedOK(FetchCurrentCook(On(sm)), sm.oven_cook) /\ RedOK(RefreshHistory(On(sm)), sm.oven_cook)
    BY <1>2, <1>3, FetchOK, HistoryOK
  <2> QED BY <1>1, <1>2, <1>4, <2>1, <2>2, <2>3, PerformOK
<1> QED
  BY <1>1, <1>5, <1>6, <1>7, <1>8, <1>9, <1>10, <1>11, <1>12, <1>13 DEF SmStep

\* What neither the oven nor its link touches.
Apart == UNCHANGED <<storeCmd, storeEvt, sm, files>>

\* The link: its events say nothing of a cook, but for the oven's reports.
LEMMA LinkKeeps ==
    ASSUME IInv, Apart, oven' = oven, begun' = begun, NEW new, IsSeq(new),
           \A evt \in Range(new) : evt.kind = "state" => evt.cook \in Begun,
           wsEvt' = wsEvt \o new, WsKnown(wsCmd)', WsKnown(inbox)'
    PROVE  IInv'
<1>1. IsSeq(wsEvt') /\ \A evt \in Range(wsEvt') : evt.kind = "state" => evt.cook \in Begun'
  BY ConcatRange DEF IInv, Known, Begun
<1>2. Known' /\ OnDisk' /\ Fresh'
  BY <1>1 DEF Apart, IInv, Known, OnDisk, Fresh, Begun
<1> QED BY <1>2 DEF IInv

LEMMA LinkStepOK == ASSUME IInv, LinkStep PROVE IInv' /\ files' = files
<1> DEFINE Quiet == {Link(k) : k \in {"connected", "disconnected", "discovered"}}
<1>1. Apart /\ files' = files
  BY DEF LinkStep, Apart, smVars, storeVars
<1>2. IsSeq(wsEvt) /\ IsSeq(wsCmd) /\ IsSeq(inbox) /\ WsKnown(<<>>)
  BY EmptyQueue DEF IInv, Known, WsKnown
<1>3. ASSUME oven' = oven, begun' = begun, wsCmd' = wsCmd, inbox' \in {inbox, <<>>}
      PROVE  WsKnown(wsCmd)' /\ WsKnown(inbox)'
  BY <1>2, <1>3 DEF IInv, Known, WsKnown
<1>4. \A s \in Seq(Quiet) :
        IsSeq(s) /\ \A evt \in Range(s) : evt.kind = "state" => evt.cook \in Begun
  <2> TAKE s \in Seq(Quiet)
  <2>1. \A evt \in Quiet : evt.kind # "state"
    BY DEF Link
  <2>2. \A evt \in Range(s) : evt \in Quiet
    BY LenProperties DEF Range
  <2> QED BY <2>1, <2>2, TypedQueue
<1>5. /\ Greeting \in Seq(Quiet) /\ Farewell \in Seq(Quiet) /\ <<>> \in Seq(Quiet)
  BY DEF Greeting, Farewell
<1> HIDE DEF Quiet
<1>6. ASSUME NEW id, NEW ok
      PROVE  /\ IsSeq(<<Ack(id, ok)>>)
             /\ \A evt \in Range(<<Ack(id, ok)>>) : evt.kind = "state" => evt.cook \in Begun
             /\ Append(wsEvt, Ack(id, ok)) = wsEvt \o <<Ack(id, ok)>>
  <2> DEFINE a == Ack(id, ok)
  <2>1. a.kind = "ack"
    BY DEF Ack
  <2> HIDE DEF a
  <2>3. IsSeq(<<a>>) /\ Range(<<a>>) = {a}
    BY OneQueue
  <2>4. Append(wsEvt, a) = wsEvt \o <<a>>
    BY <1>2 DEF IsSeq
  <2> QED BY <2>1, <2>3, <2>4 DEF a
<1>7. CASE OvenConnects
  <2>1. PICK rateSent \in BOOLEAN :
          wsEvt' = wsEvt \o ((IF session THEN Farewell ELSE <<>>) \o Greeting
                            \o (IF rateSent THEN <<>> ELSE Farewell))
    BY <1>7 DEF OvenConnects
  <2> DEFINE new == (IF session THEN Farewell ELSE <<>>) \o Greeting
                       \o (IF rateSent THEN <<>> ELSE Farewell)
  <2>2. new \in Seq(Quiet)
    BY <1>5, ConcatProperties
  <2> HIDE DEF new
  <2>3. WsKnown(wsCmd)' /\ WsKnown(inbox)' /\ oven' = oven /\ begun' = begun
    BY <1>3, <1>7 DEF OvenConnects
  <2>4. wsEvt' = wsEvt \o new
    BY <2>1 DEF new
  <2> QED BY <1>1, <1>4, <2>2, <2>3, <2>4, LinkKeeps
<1>8. CASE SessionEnds
  <2>1. WsKnown(wsCmd)' /\ WsKnown(inbox)' /\ oven' = oven /\ begun' = begun
        /\ wsEvt' = wsEvt \o Farewell
    BY <1>3, <1>8 DEF SessionEnds
  <2> QED BY <1>1, <1>4, <1>5, <2>1, LinkKeeps
<1>9. CASE LinkReports
  <2>1. PICK status \in Reports : wsEvt' = Append(wsEvt, ApoState(status, oven.cook))
    BY <1>9 DEF LinkReports, OvenReports
  <2> DEFINE e == ApoState(status, oven.cook)
  <2>2. e.cook \in Begun
    BY DEF ApoState, IInv, Known
  <2> HIDE DEF e
  <2>3. Append(wsEvt, e) = wsEvt \o <<e>>
    BY <1>2 DEF IsSeq
  <2>4. IsSeq(<<e>>) /\ Range(<<e>>) = {e}
    BY OneQueue
  <2>5. WsKnown(wsCmd)' /\ WsKnown(inbox)' /\ oven' = oven /\ begun' = begun
    BY <1>3, <1>9 DEF LinkReports, OvenReports
  <2>6. wsEvt' = wsEvt \o <<e>>
    BY <2>1, <2>3 DEF e
  <2> QED BY <1>1, <2>2, <2>4, <2>5, <2>6, LinkKeeps
<1>10. CASE AckHandled
  <2>1. PICK i \in DOMAIN pending : wsEvt' = Append(wsEvt, Ack(pending[i], TRUE))
    BY <1>10 DEF AckHandled
  <2>2. WsKnown(wsCmd)' /\ WsKnown(inbox)' /\ oven' = oven /\ begun' = begun
    BY <1>3, <1>10 DEF AckHandled, ovenVars
  <2> QED BY <1>1, <1>6, <2>1, <2>2, LinkKeeps
<1>11. CASE AckTimeout
  <2>1. WsKnown(wsCmd)' /\ WsKnown(inbox)' /\ oven' = oven /\ begun' = begun
        /\ wsEvt' = Append(wsEvt, Ack(Head(pending), FALSE))
    BY <1>3, <1>11 DEF AckTimeout, ovenVars
  <2> QED BY <1>1, <1>6, <2>1, LinkKeeps
<1>12. CASE DeviceTakesCommand
  <2>1. wsCmd # <<>> /\ wsCmd' = Tail(wsCmd) /\ oven' = oven /\ begun' = begun
    BY <1>12 DEF DeviceTakesCommand
  <2>2. WsKnown(wsCmd)'
    BY <1>2, <2>1, TailRange DEF IInv, Known, WsKnown
  <2> DEFINE cmd == Head(wsCmd)
             ack == Ack(cmd.id, FALSE)
  <2>3. cmd \in Range(wsCmd)
    BY <1>2, <2>1, TailRange
  <2>4. CASE NoOven
    <3>1. wsEvt' = Append(wsEvt, ack) /\ inbox' = inbox
      BY <2>4 DEF NoOven
    <3>2. WsKnown(inbox)'
      BY <2>1, <3>1 DEF IInv, Known, WsKnown
    <3> QED BY <1>1, <1>6, <2>1, <2>2, <3>1, <3>2, LinkKeeps
  <2>5. CASE Sent
    <3>1. inbox' = Append(inbox, cmd) /\ wsEvt' = wsEvt
      BY <2>5 DEF Sent
    <3> HIDE DEF cmd
    <3>2. IsSeq(inbox') /\ Range(inbox') = Range(inbox) \cup {cmd}
      BY <1>2, <3>1, AppendRange
    <3> DEFINE Allowed(c) == c.kind \in OtherKinds \/ (c.kind = "start" /\ c.id \in begun)
    <3>a. (\A c \in Range(inbox) : Allowed(c)) /\ Allowed(cmd)
      BY <2>3 DEF IInv, Known, WsKnown
    <3>b. \A c \in Range(inbox') : Allowed(c)
      <4> HIDE DEF Allowed
      <4> QED BY <3>2, <3>a
    <3>3. WsKnown(inbox)'
      BY <2>1, <3>2, <3>b DEF WsKnown
    <3>4. wsEvt' = wsEvt \o <<>>
      BY <1>2, <3>1 DEF IsSeq
    <3> QED BY <1>1, <1>4, <1>5, <2>1, <2>2, <3>3, <3>4, LinkKeeps
  <2>6. CASE SendFailed
    <3>1. wsEvt' = Append(wsEvt, ack) \o Farewell /\ inbox' = <<>>
      BY <2>6 DEF SendFailed
    <3>2. WsKnown(inbox)'
      BY <3>1, EmptyQueue DEF WsKnown
    <3> DEFINE new == <<ack>> \o Farewell
    <3>3. IsSeq(<<ack>>) /\ IsSeq(Farewell) /\ Append(wsEvt, ack) = wsEvt \o <<ack>>
          /\ \A evt \in Range(<<ack>>) \cup Range(Farewell) : evt.kind = "state" => evt.cook \in Begun
      BY <1>4, <1>5, <1>6
    <3> HIDE DEF ack
    <3>4. IsSeq(new) /\ Range(new) = Range(<<ack>>) \cup Range(Farewell)
      BY <3>3, ConcatRange
    <3>5. (wsEvt \o <<ack>>) \o Farewell = wsEvt \o new
      <4>1. PICK S : wsEvt \in Seq(S)
        BY <1>2 DEF IsSeq
      <4>2. PICK T : Farewell \in Seq(T)
        BY <3>3 DEF IsSeq
      <4> DEFINE U == S \cup T \cup {ack}
      <4>3. wsEvt \in Seq(U) /\ Farewell \in Seq(U) /\ <<ack>> \in Seq(U)
        BY <4>1, <4>2, SeqMonotonic
      <4> HIDE DEF U
      <4> QED BY <4>3, ConcatAssociative
    <3> HIDE DEF new
    <3> QED BY <1>1, <2>1, <2>2, <3>1, <3>2, <3>3, <3>4, <3>5, LinkKeeps
  <2> QED BY <1>12, <2>4, <2>5, <2>6 DEF DeviceTakesCommand
<1> QED BY <1>1, <1>7, <1>8, <1>9, <1>10, <1>11, <1>12 DEF LinkStep

\* The oven runs what it is told, which was begun, or what its panel begins.
LEMMA OvenActsOK == ASSUME IInv, OvenActs PROVE IInv' /\ files' = files
<1>1. UNCHANGED <<wsCmd, wsEvt, storeCmd, storeEvt, sm, files>>
  BY DEF OvenActs, channels, smVars, storeVars
<1>2. IsSeq(inbox)
  BY DEF IInv, Known, WsKnown
<1>3. ASSUME begun \subseteq begun', begun' \subseteq Cooks, "cook" \in DOMAIN oven',
             oven'.cook \in Begun', Shorter(inbox', inbox)
      PROVE  IInv'
  <2>1. WsKnown(wsCmd)' /\ WsKnown(inbox)'
    BY <1>1, <1>3 DEF IInv, Known, WsKnown, Shorter
  <2>2. Begun \subseteq Begun'
    BY <1>3 DEF Begun
  <2>3. Known'
    BY <1>1, <1>3, <2>1, <2>2 DEF IInv, Known
  <2>4. OnDisk' /\ Fresh'
    BY <1>1, <1>3 DEF IInv, OnDisk, Fresh
  <2> QED BY <2>3, <2>4 DEF IInv
<1>4. /\ begun \subseteq Cooks /\ "cook" \in DOMAIN oven /\ oven.cook \in Begun
      /\ Shorter(inbox, inbox)
  BY <1>2 DEF IInv, Known, Shorter
<1>5. CASE OvenHandles
  <2>1. inbox # <<>> /\ inbox' = Tail(inbox) /\ begun' = begun /\ oven' = Effect(Head(inbox))
    BY <1>5 DEF OvenHandles
  <2>2. Shorter(inbox', inbox) /\ Head(inbox) \in Range(inbox)
    BY <1>2, <2>1, TailShorter, TailRange
  <2> DEFINE cmd == Head(inbox)
  <2>3. cmd.kind \in OtherKinds \/ (cmd.kind = "start" /\ cmd.id \in begun)
    BY <2>2 DEF IInv, Known, WsKnown
  <2> HIDE DEF cmd
  <2>4. "cook" \in DOMAIN oven' /\ oven'.cook \in Begun
    <3>1. ASSUME NEW on PROVE "cook" \in DOMAIN Lamp(on) /\ Lamp(on).cook \in Begun
      BY <1>4 DEF Lamp
    <3>2. ASSUME NEW recipe, NEW stage
          PROVE  "cook" \in DOMAIN StartStage(recipe, stage) /\ StartStage(recipe, stage).cook \in Begun
      BY <1>4 DEF StartStage
    <3>3. "cook" \in DOMAIN Off /\ Off.cook \in Begun
      BY DEF Off, Begun
    <3>4. ASSUME NEW cook PROVE "cook" \in DOMAIN Run(cook) /\ Run(cook).cook = cook
      BY DEF Run
    <3>5. oven' = Effect(cmd)
      BY <2>1 DEF cmd
    <3>6. CASE cmd.kind = "start"
      BY <2>3, <3>4, <3>5, <3>6 DEF Effect, OtherKinds, Begun
    <3>7. CASE cmd.kind = "stop"
      BY <3>3, <3>5, <3>7 DEF Effect
    <3>8. CASE cmd.kind = "lampOn"
      BY <3>1, <3>5, <3>8 DEF Effect
    <3>9. CASE cmd.kind = "lampOff"
      BY <3>1, <3>5, <3>9 DEF Effect
    <3>10. CASE cmd.kind = "nextStage"
      BY <3>2, <3>5, <3>10 DEF Effect
    <3> QED BY <2>3, <3>6, <3>7, <3>8, <3>9, <3>10 DEF OtherKinds
  <2> QED BY <1>1, <1>3, <1>4, <2>1, <2>2, <2>4 DEF Begun
<1>6. CASE OvenDrops
  <2>1. inbox # <<>> /\ inbox' = Tail(inbox) /\ begun' = begun /\ oven' = oven
    BY <1>6 DEF OvenDrops
  <2>2. Shorter(inbox', inbox)
    BY <1>2, <2>1, TailShorter
  <2> QED BY <1>1, <1>3, <1>4, <2>1, <2>2 DEF Begun
<1>7. CASE PanelStart
  <2>1. PICK cook \in Cooks \ begun : oven' = Run(cook) /\ begun' = begun \cup {cook}
    BY <1>7 DEF PanelStart
  <2>2. "cook" \in DOMAIN oven' /\ oven'.cook = cook /\ inbox' = inbox
    BY <1>7, <2>1 DEF PanelStart, Run
  <2> QED BY <1>1, <1>3, <1>4, <2>1, <2>2 DEF Begun
<1>8. CASE PanelStop
  <2>1. "cook" \in DOMAIN oven' /\ oven'.cook = None /\ begun' = begun /\ inbox' = inbox
    BY <1>8 DEF PanelStop, Off
  <2> QED BY <1>1, <1>3, <1>4, <2>1 DEF Begun
<1>9. CASE StageEnds
  <2>1. "cook" \in DOMAIN oven' /\ oven'.cook = oven.cook /\ begun' = begun /\ inbox' = inbox
    BY <1>4, <1>9 DEF StageEnds
  <2> QED BY <1>1, <1>3, <1>4, <2>1 DEF Begun
<1> QED BY <1>1, <1>5, <1>6, <1>7, <1>8, <1>9 DEF OvenActs

-----------------------------------------------------------------------------
(* The store, whose command leaves any of the files of its trail.          *)

\* The command at the head of the queue, which starts no cook that it journals.
LEMMA HeadGood ==
    ASSUME IInv, storeCmd # <<>>, NEW found \in BOOLEAN
    PROVE  LET cmd == Head(storeCmd)
           IN /\ cmd \in StoreCommand /\ cmd = storeCmd[1] /\ 1 \in DOMAIN storeCmd
              /\ Trail(cmd, found) \in Seq(Good(cmd)) /\ Trail(cmd, found) # <<>>
<1> DEFINE cmd == Head(storeCmd)
<1>1. storeCmd \in Seq(StoreCommand)
  BY DEF IInv, Known
<1>2. cmd \in StoreCommand /\ cmd = storeCmd[1] /\ 1 \in DOMAIN storeCmd
  BY <1>1, EmptySeq, LenProperties
<1>3. cmd.kind = "started" => ~Journals(cmd.cook)
  BY <1>2 DEF IInv, Fresh, Journals
<1> HIDE DEF cmd
<1>4. Trail(cmd, found) \in Seq(Good(cmd)) /\ Trail(cmd, found) # <<>>
  BY <1>2, <1>3, TrailGood DEF IInv, OnDisk
<1> QED BY <1>2, <1>4 DEF cmd

\* What is good for the files that a command leaves.
LEMMA GoodLeft ==
    ASSUME IInv, storeCmd # <<>>, files' \in Good(Head(storeCmd)), begun' = begun
    PROVE  OnDisk' /\ \A cook : Kept(cook) => Kept(cook)'
<1>1. PICK cmd : cmd = storeCmd[1] /\ cmd = Head(storeCmd) /\ 1 \in DOMAIN storeCmd
  BY HeadGood
<1>2. files' \in Files /\ \A cook : Kept(cook) => KeptIn(files', cook)
  BY DEF Good
<1>3. files'.journal # None =>
        \/ files.journal # None /\ files'.journal.cook = files.journal.cook
        \/ About(cmd, files'.journal.cook)
  BY <1>1 DEF Good
<1>4. files'.journal # None => files'.journal.cook \in Cooks
  BY <1>2 DEF Files, Journal
<1>5. files'.journal # None => files'.journal.cook \in begun
  BY <1>1, <1>3, <1>4, MessagesAssumption DEF IInv, Known, OnDisk, Begun
<1>6. \A cook : KeptIn(files', cook) => Kept(cook)'
  BY DEF KeptIn, InHist, Kept, InHistory, SeenInJournal, Journals
<1> QED BY <1>2, <1>5, <1>6 DEF OnDisk

LEMMA StoreKeeps ==
    ASSUME IInv, storeCmd # <<>>, storeCmd' = Tail(storeCmd), files' \in Good(Head(storeCmd)),
           UNCHANGED <<wsCmd, wsEvt, sm, oven, begun, inbox>>, IsSeq(storeEvt'),
           \A evt \in Range(storeEvt') : evt.kind \in {"fetched", "history", "patched"}
    PROVE  IInv' /\ \A cook : Kept(cook) => Kept(cook)'
<1>1. OnDisk' /\ \A cook : Kept(cook) => Kept(cook)'
  BY GoodLeft
<1>2. storeCmd \in Seq(StoreCommand) /\ IsSeq(storeCmd) /\ DOMAIN storeCmd = 1..Len(storeCmd)
      /\ Len(storeCmd) \in Nat \ {0}
  BY EmptySeq, LenProperties, TypedQueue DEF IInv, Known
<1>3. /\ storeCmd' \in Seq(StoreCommand) /\ Len(storeCmd') = Len(storeCmd) - 1
      /\ \A i \in 1..Len(storeCmd') : storeCmd'[i] = storeCmd[i + 1]
  BY <1>2, HeadTailProperties
<1>4. DOMAIN storeCmd' = 1..(Len(storeCmd) - 1)
  BY <1>3, LenProperties
<1>5. \A i \in DOMAIN storeCmd' : i + 1 \in DOMAIN storeCmd /\ storeCmd'[i] = storeCmd[i + 1]
  BY <1>2, <1>3, <1>4
<1>6. Known'
  <2>1. \A j \in DOMAIN storeCmd' : \A cook : About(storeCmd'[j], cook) => cook \in Begun'
    BY <1>5 DEF IInv, Known, Begun
  <2>2. WsKnown(wsCmd)' /\ WsKnown(inbox)'
    BY DEF IInv, Known, WsKnown
  <2> QED BY <1>3, <2>1, <2>2 DEF IInv, Known, Begun
<1>7. Fresh'
  <2> SUFFICES ASSUME NEW j \in DOMAIN storeCmd', storeCmd'[j].kind = "started"
               PROVE  /\ files'.journal # None => files'.journal.cook # storeCmd'[j].cook
                      /\ \A i \in 1..(j - 1) : ~About(storeCmd'[i], storeCmd'[j].cook)
    BY DEF Fresh
  <2> DEFINE k == storeCmd'[j].cook
  <2>1. j + 1 \in DOMAIN storeCmd /\ storeCmd'[j] = storeCmd[j + 1]
    BY <1>5
  <2>2. /\ files.journal # None => files.journal.cook # k
        /\ \A i \in 1..j : ~About(storeCmd[i], k)
    BY <1>2, <2>1 DEF IInv, Fresh
  <2> HIDE DEF k
  <2>3. Head(storeCmd) = storeCmd[1] /\ 1 \in 1..j
    BY <1>2, <1>4, EmptySeq
  <2>4. files'.journal # None => files'.journal.cook # k
    BY <2>2, <2>3 DEF Good
  <2>5. \A i \in 1..(j - 1) : i \in DOMAIN storeCmd' /\ i + 1 \in 1..j
    BY <1>2, <1>4
  <2>6. \A i \in 1..(j - 1) : ~About(storeCmd'[i], k)
    BY <1>5, <2>2, <2>5
  <2> QED BY <2>4, <2>6 DEF k
<1> QED BY <1>1, <1>6, <1>7 DEF IInv

LEMMA StoreStepOK ==
    ASSUME IInv, StoreStep PROVE IInv' /\ \A cook : Kept(cook) => Kept(cook)'
<1>1. storeCmd # <<>> /\ storeCmd' = Tail(storeCmd) /\ UNCHANGED <<wsCmd, wsEvt, sm, oven, begun, inbox>>
  BY DEF StoreStep, HandleCommand, smVars, ovenVars
<1>2. PICK found \in BOOLEAN :
        /\ files' = Last(Trail(Head(storeCmd), found))
        /\ storeEvt' = storeEvt \o Answer(Head(storeCmd), files')
  <2>1. RecipeFound \subseteq BOOLEAN
    BY LocalStoreAssumption
  <2> QED BY <2>1 DEF StoreStep, HandleCommand
<1> DEFINE cmd == Head(storeCmd)
           trail == Trail(cmd, found)
<1>3. cmd \in StoreCommand /\ trail \in Seq(Good(cmd)) /\ trail # <<>>
  BY <1>1, HeadGood
<1>4. files' \in Good(cmd)
  <2>1. files' = Last(trail)
    BY <1>2
  <2> HIDE DEF trail, cmd
  <2>2. Len(trail) \in 1..Len(trail) /\ DOMAIN trail = 1..Len(trail)
    BY <1>3, EmptySeq, LenProperties
  <2>3. trail[Len(trail)] \in Good(cmd)
    BY <1>3, <2>2
  <2> QED BY <2>1, <2>3 DEF Last
<1>5. /\ IsSeq(Answer(cmd, files'))
      /\ \A evt \in Range(Answer(cmd, files')) : evt.kind \in {"fetched", "history", "patched"}
  BY <1>3, AnswerKinds
<1>6. IsSeq(storeEvt) /\ \A evt \in Range(storeEvt) : evt.kind \in {"fetched", "history", "patched"}
  BY DEF IInv, Known
<1>7. storeEvt' = storeEvt \o Answer(cmd, files')
  BY <1>2
<1>8. IsSeq(storeEvt') /\ Range(storeEvt') = Range(storeEvt) \cup Range(Answer(cmd, files'))
  BY <1>5, <1>6, <1>7, ConcatRange
<1>9. \A evt \in Range(storeEvt') : evt.kind \in {"fetched", "history", "patched"}
  BY <1>5, <1>6, <1>8
<1> QED BY <1>1, <1>4, <1>8, <1>9, StoreKeeps

LEMMA StoreFailsOK ==
    ASSUME IInv, StoreFails PROVE IInv' /\ \A cook : Kept(cook) => Kept(cook)'
<1>1. storeCmd # <<>> /\ storeCmd' = Tail(storeCmd)
      /\ UNCHANGED <<wsCmd, wsEvt, storeEvt, sm, oven, begun, inbox>>
  BY DEF StoreFails, FailCommand, smVars, ovenVars
<1> DEFINE cmd == Head(storeCmd)
           trail == Trail(cmd, TRUE)
<1>2. PICK i \in 1..(Len(trail) - 1) : files' = trail[i]
  BY DEF StoreFails, FailCommand
<1>3. trail \in Seq(Good(cmd))
  BY <1>1, HeadGood
<1>4. files' \in Good(cmd)
  <2> HIDE DEF trail, cmd
  <2>1. DOMAIN trail = 1..Len(trail) /\ Len(trail) \in Nat
    BY <1>3, LenProperties
  <2> QED BY <1>2, <1>3, <2>1
<1>5. IsSeq(storeEvt') /\ \A evt \in Range(storeEvt') : evt.kind \in {"fetched", "history", "patched"}
  BY <1>1 DEF IInv, Known
<1> QED BY <1>1, <1>4, <1>5, StoreKeeps

\* A crash leaves the files and the oven, and nothing in the channels.
LEMMA CrashOK ==
    ASSUME IInv, Crash PROVE IInv' /\ \A cook : Kept(cook) => Kept(cook)'
<1>1. /\ sm' = SmInitState /\ inbox' = <<>> /\ wsCmd' = <<>> /\ wsEvt' = <<>>
      /\ storeCmd' = StartupCommands /\ storeEvt' = <<>> /\ oven' = oven /\ begun' = begun
  BY DEF Crash
<1>2. OnDisk' /\ \A cook : Kept(cook) => Kept(cook)'
  <2>1. PICK found \in BOOLEAN :
          files' \in Range(IF storeCmd = <<>> THEN <<files>> ELSE Trail(Head(storeCmd), found))
    <3>1. RecipeFound \subseteq BOOLEAN
      BY LocalStoreAssumption
    <3> QED BY <3>1 DEF Crash, StoreCrash
  <2>2. CASE storeCmd = <<>>
    <3>1. files' = files
      BY <2>1, <2>2, OneQueue
    <3> QED BY <1>1, <3>1 DEF IInv, OnDisk, Kept, InHistory, SeenInJournal, Journals
  <2>3. CASE storeCmd # <<>>
    <3> DEFINE cmd == Head(storeCmd)
               trail == Trail(cmd, found)
    <3>1. trail \in Seq(Good(cmd))
      BY <2>3, HeadGood
    <3>2. files' \in Range(trail)
      BY <2>1, <2>3
    <3> HIDE DEF trail
    <3>3. files' \in Good(cmd)
      BY <3>1, <3>2, LenProperties DEF Range
    <3> QED BY <1>1, <2>3, <3>3, GoodLeft
  <2> QED BY <2>2, <2>3
<1>3. /\ storeCmd' \in Seq(StoreCommand)
      /\ \A j \in DOMAIN storeCmd' : storeCmd'[j].kind = "history"
  <2> DEFINE cmd == [kind |-> "history"]
             s == <<cmd>>
  <2>1. cmd \in StoreCommand /\ cmd.kind = "history"
    BY DEF StoreCommand
  <2> HIDE DEF cmd
  <2>2. s \in Seq(StoreCommand) /\ Range(s) = {cmd}
    BY <2>1, OneQueue
  <2>3. \A j \in DOMAIN s : s[j] \in Range(s)
    BY DEF Range
  <2>4. storeCmd' = s
    BY <1>1 DEF StartupCommands, cmd
  <2> HIDE DEF s
  <2> QED BY <2>1, <2>2, <2>3, <2>4
<1>4. Known'
  <2>1. WsKnown(wsCmd)' /\ WsKnown(inbox)'
    BY <1>1, EmptyQueue DEF WsKnown
  <2>2. "oven_cook" \in DOMAIN sm' /\ sm'.oven_cook = None
    BY <1>1 DEF SmInitState
  <2>3. \A j \in DOMAIN storeCmd' : \A cook : ~About(storeCmd'[j], cook)
    BY <1>3 DEF About, StoreKinds
  <2> QED BY <1>1, <1>3, <2>1, <2>2, <2>3, EmptyQueue DEF IInv, Known, Begun
<1>5. Fresh'
  BY <1>3 DEF Fresh
<1> QED BY <1>2, <1>4, <1>5 DEF IInv

LEMMA InitOK == Init => IInv
<1> SUFFICES ASSUME Init PROVE IInv
  OBVIOUS
<1>1. /\ sm = SmInitState /\ inbox = <<>> /\ wsCmd = <<>> /\ wsEvt = <<>> /\ begun = {}
      /\ storeCmd = <<[kind |-> "history"]>> /\ storeEvt = <<>>
      /\ "cook" \in DOMAIN oven /\ oven.cook = None
      /\ files = [journal |-> None, history |-> <<>>]
  BY DEF Init, SmInit, OvenInit, StoreInit, StartupCommands
<1>2. /\ storeCmd \in Seq(StoreCommand)
      /\ \A j \in DOMAIN storeCmd : storeCmd[j].kind = "history"
  <2> DEFINE cmd == [kind |-> "history"]
             s == <<cmd>>
  <2>1. cmd \in StoreCommand /\ cmd.kind = "history"
    BY DEF StoreCommand
  <2>4. storeCmd = s
    BY <1>1
  <2> HIDE DEF cmd
  <2>2. s \in Seq(StoreCommand) /\ Range(s) = {cmd}
    BY <2>1, OneQueue
  <2>3. \A j \in DOMAIN s : s[j] \in Range(s)
    BY DEF Range
  <2> HIDE DEF s
  <2> QED BY <2>1, <2>2, <2>3, <2>4
<1>3. Known
  <2>1. WsKnown(wsCmd) /\ WsKnown(inbox)
    BY <1>1, EmptyQueue DEF WsKnown
  <2>2. "oven_cook" \in DOMAIN sm /\ sm.oven_cook = None
    BY <1>1 DEF SmInitState
  <2>3. \A j \in DOMAIN storeCmd : \A cook : ~About(storeCmd[j], cook)
    BY <1>2 DEF About, StoreKinds
  <2> QED BY <1>1, <1>2, <2>1, <2>2, <2>3, EmptyQueue DEF Known, Begun
<1>4. OnDisk
  BY <1>1 DEF OnDisk, Files
<1>5. Fresh
  BY <1>2 DEF Fresh
<1> QED BY <1>3, <1>4, <1>5 DEF IInv

LEMMA StepOK ==
    ASSUME IInv, [Next]_vars PROVE IInv' /\ \A cook : Kept(cook) => Kept(cook)'
<1>1. ASSUME files' = files PROVE \A cook : Kept(cook) => Kept(cook)'
  BY <1>1 DEF Kept, InHistory, SeenInJournal, Journals
<1>2. CASE SmStep
  BY <1>1, <1>2, SmStepOK
<1>3. CASE LinkStep
  BY <1>1, <1>3, LinkStepOK
<1>4. CASE OvenActs
  BY <1>1, <1>4, OvenActsOK
<1>5. CASE StoreStep
  BY <1>5, StoreStepOK
<1>6. CASE StoreFails
  BY <1>6, StoreFailsOK
<1>7. CASE Crash
  BY <1>7, CrashOK
<1>8. CASE UNCHANGED vars
  <2>1. files' = files
    BY <1>8 DEF vars, storeVars
  <2>2. IInv'
    BY <1>8
    DEF vars, channels, smVars, ovenVars, storeVars, IInv, Known, OnDisk, Fresh, WsKnown, Begun
  <2> QED BY <1>1, <2>1, <2>2
<1> QED BY <1>2, <1>3, <1>4, <1>5, <1>6, <1>7, <1>8 DEF Next

-----------------------------------------------------------------------------

\* Everything the server, its channels, its files and the oven mention is a
\* cook that was begun, and the start of a cook reaches the store before
\* anything else about that cook (start_cook draws its id, the channels are
\* first in, first out).
THEOREM Invariant == Spec => []IInv
<1> QED BY InitOK, StepOK, PTL DEF Spec

\* A cook the oven was seen running is never lost, for any number of cooks,
\* clients and requests, over crashes between any two file operations of the
\* store and over failed ones (oven_reported, journal_start and finish write
\* the history before they touch the journal).
THEOREM SeenCooksKept == Spec => SeenCookKept
<1>1. IInv /\ [Next]_vars => [\A cook \in Cooks : Kept(cook) => Kept(cook)']_vars
  BY StepOK
<1> QED BY <1>1, Invariant, PTL DEF Spec, SeenCookKept

-----------------------------------------------------------------------------
(***************************************************************************)
(* What clients are shown of the store is what the oven last said, for any *)
(* clients, cooks and crashes, as long as no file operation fails.         *)
(*                                                                         *)
(* What the store does next is in its queue.  A command that tells it      *)
(* which cook there is (a report, a start, a fetch that names a cook)      *)
(* settles what the journal will hold until the next one that does; so the *)
(* last of them in the queue, or the journal if there is none, is what the *)
(* state machine goes by: the start while one is pending (AwaitsStart),    *)
(* and else the cook the oven reported (FollowsOven).  The same holds of   *)
(* the queue ahead of every fetch, which therefore never finishes a cook,  *)
(* and needs to send no history (FetchesFollow, ShowsHistory).             *)
(***************************************************************************)
\* The commands that say which cook there is.
Tells(cmd) ==
    cmd.kind \in {"reported", "started"} \/ (cmd.kind = "fetch" /\ cmd.cook # None)

Untold(q, n) == \A k \in 1..n : ~Tells(q[k])
LastTell(q, n, i) == Tells(q[i]) /\ \A k \in (i + 1)..n : ~Tells(q[k])

\* Once the first n commands of q are done, a journal that the oven was seen
\* in is the cook's.
Settled(q, n, f, cook) ==
    /\ \A i \in 1..n : LastTell(q, n, i) => q[i].kind = "started" \/ q[i].cook = cook
    /\ Untold(q, n) /\ f.journal # None /\ f.journal.seen => f.journal.cook = cook

\* Once they are done, the journal is the unseen cook's.
Unseen(q, n, f, cook) ==
    /\ \A i \in 1..n : LastTell(q, n, i) => q[i].kind = "started" /\ q[i].cook = cook
    /\ Untold(q, n) => f.journal # None /\ f.journal.cook = cook /\ ~f.journal.seen

AwaitsStart ==
    sm.lifecycle = "StartPending" => Unseen(storeCmd, Len(storeCmd), files, sm.start)

FollowsOven ==
    sm.lifecycle # "StartPending" /\ (sm.status # None \/ sm.oven_cook # None)
        => Settled(storeCmd, Len(storeCmd), files, sm.oven_cook)

NamesCook(cmd) == cmd.kind = "fetch" /\ cmd.cook # None
FetchesFollow ==
    \A j \in DOMAIN storeCmd :
        NamesCook(storeCmd[j]) => Settled(storeCmd, j - 1, files, storeCmd[j].cook)

\* No event from the k-th on is the history.
NoHistory(evts, k) == \A i \in k..Len(evts) : evts[i].kind # "history"
\* What clients are shown once all of evts is taken, beginning with shown.
Shows(evts, shown, history) ==
    /\ \A i \in 1..Len(evts) :
         evts[i].kind = "history" /\ NoHistory(evts, i + 1) => evts[i].entries = history
    /\ NoHistory(evts, 1) => shown = history

ShowsHistory ==
    (\A j \in DOMAIN storeCmd : storeCmd[j].kind # "history")
        => Shows(storeEvt, sm.history, Recent(files.history))

Bounded ==
    /\ budget \in [Kinds -> Nat] /\ left \in [Kinds -> Nat]
    /\ \A kind \in Kinds : left[kind] <= budget[kind]

Fields == {"lifecycle", "start", "status", "oven_cook", "history"}

JInv ==
    /\ Bounded
    /\ Fields \subseteq DOMAIN sm
    /\ Faultless => AwaitsStart /\ FollowsOven /\ FetchesFollow /\ ShowsHistory

-----------------------------------------------------------------------------
(* The queue of the store, as it grows and shrinks.                        *)

LEMMA UnseenSettles ==
    ASSUME NEW q, NEW n, NEW f, NEW cook, Unseen(q, n, f, cook), NEW x
    PROVE  Settled(q, n, f, x)
  BY DEF Unseen, Settled

LEMMA Grown ==
    ASSUME NEW q, IsSeq(q), NEW t, IsSeq(t)
    PROVE  /\ Len(q) \in Nat /\ Len(t) \in Nat /\ IsSeq(q \o t) /\ Len(q \o t) = Len(q) + Len(t)
           /\ \A i \in 1..Len(q) : (q \o t)[i] = q[i]
           /\ \A i \in 1..Len(t) : (q \o t)[Len(q) + i] = t[i]
<1>1. Len(q) \in Nat /\ Len(t) \in Nat
  BY QueueDomain
<1>2. /\ IsSeq(q \o t) /\ Len(q \o t) = Len(q) + Len(t)
      /\ \A i \in 1..(Len(q) + Len(t)) :
           (q \o t)[i] = IF i <= Len(q) THEN q[i] ELSE t[i - Len(q)]
  BY ConcatRange
<1> DEFINE u == q \o t
<1> HIDE DEF u
<1>3. \A i \in 1..Len(q) : u[i] = q[i]
  BY <1>1, <1>2 DEF u
<1>4. \A i \in 1..Len(t) : u[Len(q) + i] = t[i]
  <2> TAKE i \in 1..Len(t)
  <2>1. Len(q) + i \in 1..(Len(q) + Len(t)) /\ ~(Len(q) + i <= Len(q)) /\ (Len(q) + i) - Len(q) = i
    BY <1>1
  <2> QED BY <1>2, <2>1 DEF u
<1> QED BY <1>1, <1>2, <1>3, <1>4 DEF u

\* What is settled stays settled behind it.
LEMMA GrownEarlier ==
    ASSUME NEW q, IsSeq(q), NEW t, IsSeq(t), NEW n \in 0..Len(q), NEW f, NEW x
    PROVE  /\ Settled(q, n, f, x) => Settled(q \o t, n, f, x)
           /\ Unseen(q, n, f, x) => Unseen(q \o t, n, f, x)
<1> DEFINE u == q \o t
<1>1. Len(q) \in Nat /\ \A i \in 1..n : u[i] = q[i]
  BY ONLY Grown, IsSeq(q), IsSeq(t)
<1> HIDE DEF u
<1>2. Untold(u, n) => Untold(q, n)
  BY <1>1 DEF Untold
<1>3. \A i \in 1..n : LastTell(u, n, i) => LastTell(q, n, i)
  BY <1>1 DEF LastTell
<1> QED BY <1>1, <1>2, <1>3 DEF Settled, Unseen, u

\* Commands about the cook leave it settled, and so does a first that tells.
LEMMA GrownSettled ==
    ASSUME NEW q, IsSeq(q), NEW t, IsSeq(t), NEW f, NEW x, NEW k \in 0..Len(t),
           \A i \in 1..Len(t) : Tells(t[i]) => t[i].cook = x,
           Settled(q, Len(q), f, x) \/ (k > 0 /\ Tells(t[1]))
    PROVE  Settled(q \o t, Len(q) + k, f, x)
<1> DEFINE u == q \o t
           n == Len(q)
<1>1. /\ n \in Nat /\ Len(t) \in Nat
      /\ \A i \in 1..n : u[i] = q[i]
      /\ \A i \in 1..Len(t) : u[n + i] = t[i]
      /\ Len(u) = n + Len(t)
  BY ONLY Grown, IsSeq(q), IsSeq(t)
<1> HIDE DEF u
<1>a. k > 0 => u[n + 1] = t[1] /\ n + 1 \in 1..(n + k)
  BY <1>1
<1>2. ASSUME NEW i \in 1..(n + k), LastTell(u, n + k, i)
      PROVE  u[i].kind = "started" \/ u[i].cook = x
  <2>1. CASE i > n
    <3>1. i - n \in 1..Len(t) /\ u[i] = t[i - n]
      BY <1>1, <2>1
    <3> QED BY <1>2, <3>1 DEF LastTell
  <2>2. CASE ~(i > n)
    <3>1. i \in 1..n /\ u[i] = q[i]
      BY <1>1, <2>2
    <3>2. LastTell(q, n, i)
      BY <1>1, <1>2, <3>1 DEF LastTell
    <3>3. ~(k > 0 /\ Tells(t[1]))
      BY <1>1, <1>a, <1>2, <3>1 DEF LastTell
    <3> QED BY <3>1, <3>2, <3>3 DEF Settled
  <2> QED BY <2>1, <2>2
<1>3. ASSUME Untold(u, n + k), f.journal # None /\ f.journal.seen
      PROVE  f.journal.cook = x
  <2>1. Untold(q, n)
    BY <1>1, <1>3 DEF Untold
  <2>2. ~(k > 0 /\ Tells(t[1]))
    BY <1>a, <1>3 DEF Untold
  <2> QED BY <1>3, <2>1, <2>2 DEF Settled
<1> QED BY <1>2, <1>3 DEF Settled, u

LEMMA GrownUnseen ==
    ASSUME NEW q, IsSeq(q), NEW t, IsSeq(t), NEW f, NEW x,
           \A i \in 1..Len(t) : ~Tells(t[i]), Unseen(q, Len(q), f, x)
    PROVE  Unseen(q \o t, Len(q \o t), f, x)
<1> DEFINE u == q \o t
           n == Len(q)
<1>1. /\ n \in Nat /\ Len(t) \in Nat /\ Len(u) = n + Len(t)
      /\ \A i \in 1..n : u[i] = q[i]
      /\ \A i \in 1..Len(t) : u[n + i] = t[i]
  BY ONLY Grown, IsSeq(q), IsSeq(t)
<1> HIDE DEF u
<1>2. ASSUME NEW i \in 1..Len(u), LastTell(u, Len(u), i)
      PROVE  u[i].kind = "started" /\ u[i].cook = x
  <2>1. i > n => i - n \in 1..Len(t) /\ u[i] = t[i - n]
    BY <1>1
  <2>2. i \in 1..n /\ u[i] = q[i]
    BY <1>1, <1>2, <2>1 DEF LastTell
  <2>3. LastTell(q, n, i)
    BY <1>1, <1>2, <2>2 DEF LastTell
  <2> QED BY <2>2, <2>3 DEF Unseen
<1>3. Untold(u, Len(u)) => Untold(q, n)
  BY <1>1 DEF Untold
<1> QED BY <1>2, <1>3 DEF Unseen, u

-----------------------------------------------------------------------------
(* Reductions, other than a start, of a state t: what they ask the store   *)
(* is about the oven's cook, nothing while a start stays pending, and, if  *)
(* told, first of all the oven's report.                                   *)

Asks(x) == {cmd \in StoreCommand : cmd.kind # "started" /\ (Tells(cmd) => cmd.cook = x)}

State(t) == Fields \subseteq DOMAIN t /\ t.oven_cook \in CookOrNone

Traced(r, t, told) ==
    /\ {"sm", "store"} \subseteq DOMAIN r
    /\ DOMAIN r.sm = DOMAIN t
    /\ r.sm.oven_cook = t.oven_cook /\ r.sm.status = t.status /\ r.sm.history = t.history
    /\ r.store \in Seq(Asks(t.oven_cook))
    /\ r.sm.lifecycle = "StartPending" =>
         /\ t.lifecycle = "StartPending" /\ r.sm.start = t.start
         /\ \A i \in 1..Len(r.store) : ~Tells(r.store[i])
    /\ told => r.store # <<>> /\ r.store[1].kind = "reported"

\* The same reduction with another state, of which only the rest differs, or
\* in which no start is pending.
Alike(q, r) ==
    /\ DOMAIN q = DOMAIN r
    /\ q.oven_cook = r.oven_cook /\ q.status = r.status /\ q.history = r.history
    /\ q.lifecycle = "StartPending" => r.lifecycle = "StartPending" /\ q.start = r.start

LEMMA AlikeTraced ==
    ASSUME NEW r, NEW t, NEW told, Traced(r, t, told), NEW q, DOMAIN q = DOMAIN r,
           q.store = r.store, Alike(q.sm, r.sm)
    PROVE  Traced(q, t, told)
  BY DEF Traced, Alike

LEMMA OnTraced ==
    ASSUME NEW s, NEW t, State(t), Alike(s, t) PROVE Traced(On(s), t, FALSE)
<1>1. On(s).sm = s /\ On(s).store = <<>> /\ DOMAIN On(s) = {"sm", "ws", "store", "failed"}
  BY DEF On
<1>2. <<>> \in Seq(Asks(t.oven_cook)) /\ Len(<<>>) = 0
  BY EmptySeq
<1> HIDE DEF On
<1> DEFINE e == <<>>
<1> HIDE DEF e
<1>3. \A i \in 1..Len(e) : FALSE
  BY <1>2 DEF e
<1>4. On(s).store = e /\ e \in Seq(Asks(t.oven_cook))
  BY <1>1, <1>2 DEF e
<1> QED BY <1>1, <1>3, <1>4 DEF Traced, Alike

LEMMA SendTraced ==
    ASSUME NEW r, NEW t, NEW told, Traced(r, t, told), NEW cmd PROVE Traced(Send(r, cmd), t, told)
<1> DEFINE q == Send(r, cmd)
<1>1. DOMAIN q = DOMAIN r /\ q.sm = r.sm /\ q.store = r.store
  BY DEF Send, Traced
<1> HIDE DEF q
<1>2. Alike(q.sm, r.sm)
  BY <1>1 DEF Alike
<1> QED BY <1>1, <1>2, AlikeTraced DEF q

\* What is asked names a cook only if no start is pending.
LEMMA AskTraced ==
    ASSUME NEW r, NEW t, NEW told, Traced(r, t, told), NEW cmd \in Asks(t.oven_cook),
           r.sm.lifecycle = "StartPending" => ~Tells(cmd)
    PROVE  Traced(Ask(r, cmd), t, told)
<1> DEFINE q == Ask(r, cmd)
<1>1. DOMAIN q = DOMAIN r /\ q.sm = r.sm /\ q.store = Append(r.store, cmd)
  BY DEF Ask, Traced
<1> HIDE DEF q
<1>2. /\ q.store \in Seq(Asks(t.oven_cook)) /\ Len(q.store) = Len(r.store) + 1
      /\ \A i \in 1..Len(r.store) : q.store[i] = r.store[i]
      /\ q.store[Len(r.store) + 1] = cmd
      /\ Len(r.store) \in Nat
  BY <1>1, AppendProperties, LenProperties DEF Traced
<1>3. r.sm.lifecycle = "StartPending" /\ (\A i \in 1..Len(r.store) : ~Tells(r.store[i]))
        => \A i \in 1..Len(q.store) : ~Tells(q.store[i])
  BY <1>2
<1>4. r.store # <<>> => Len(r.store) > 0
  BY EmptySeq DEF Traced
<1>5. r.store # <<>> => q.store # <<>> /\ q.store[1] = r.store[1]
  BY <1>2, <1>4, EmptySeq
<1> QED BY <1>1, <1>2, <1>3, <1>5 DEF Traced, q

LEMMA FetchTraced ==
    ASSUME NEW r, NEW t, NEW told, State(t), Traced(r, t, told)
    PROVE  Traced(FetchCurrentCook(r), t, told)
<1> DEFINE cook == IF r.sm.lifecycle = "StartPending" THEN None ELSE r.sm.oven_cook
           cmd == [kind |-> "fetch", cook |-> cook]
<1>1. cook \in {None, t.oven_cook} /\ (r.sm.lifecycle = "StartPending" => cook = None)
  BY DEF Traced
<1> HIDE DEF cook
<1>2. cmd \in StoreCommand /\ cmd.kind = "fetch" /\ cmd.cook = cook
  BY <1>1 DEF StoreCommand, State, CookOrNone
<1> HIDE DEF cmd
<1>3. cmd \in Asks(t.oven_cook) /\ (r.sm.lifecycle = "StartPending" => ~Tells(cmd))
  BY <1>1, <1>2 DEF Asks, Tells
<1> QED BY <1>3, AskTraced DEF FetchCurrentCook, cmd, cook

LEMMA HistoryTraced ==
    ASSUME NEW r, NEW t, NEW told, Traced(r, t, told)
    PROVE  Traced(RefreshHistory(r), t, told)
<1> DEFINE cmd == [kind |-> "history"]
<1>1. cmd \in StoreCommand /\ cmd.kind = "history"
  BY DEF StoreCommand
<1> HIDE DEF cmd
<1>2. cmd \in Asks(t.oven_cook) /\ ~Tells(cmd)
  BY <1>1 DEF Asks, Tells
<1> QED BY <1>2, AskTraced DEF RefreshHistory, cmd

LEMMA ControlTraced ==
    ASSUME NEW r, NEW t, NEW told, State(t), Traced(r, t, told), NEW cmd
    PROVE  Traced(SendControl(r, cmd), t, told)
<1> DEFINE q == [r EXCEPT !.sm.controls = Newest(Append(@, cmd.id))]
<1>1. DOMAIN q = DOMAIN r /\ q.store = r.store /\ Alike(q.sm, r.sm)
  BY DEF Traced, State, Fields, Alike
<1> HIDE DEF q
<1>2. Traced(q, t, told)
  BY <1>1, AlikeTraced
<1> QED BY <1>2, SendTraced DEF SendControl, q

LEMMA StopTraced ==
    ASSUME NEW r, NEW t, NEW told, State(t), Traced(r, t, told), NEW lampId, NEW stopId
    PROVE  Traced(Stop(r, lampId, stopId), t, told)
<1> DEFINE dark == IF Local /\ LampIsOn(r.sm) THEN SendControl(r, Command("lampOff", lampId)) ELSE r
           q == [dark EXCEPT !.sm.stop = stopId, !.sm.lifecycle = "StopPending"]
<1>1. Traced(dark, t, told)
  BY ControlTraced
<1> HIDE DEF dark
<1>2. DOMAIN q = DOMAIN dark /\ q.store = dark.store /\ Alike(q.sm, dark.sm)
  BY <1>1 DEF Traced, State, Fields, Alike
<1> HIDE DEF q
<1>3. Traced(q, t, told)
  BY <1>1, <1>2, AlikeTraced
<1> QED BY <1>3, SendTraced DEF Stop, q, dark

LEMMA EdgeTraced ==
    ASSUME NEW r, NEW t, NEW told, State(t), Traced(r, t, told), NEW status, NEW lampId
    PROVE  Traced(Edge(r, status, lampId), t, told)
<1>1. Traced(IdleToCooking(r, status, lampId), t, told)
  <2> DEFINE cooking == [r EXCEPT !.sm.start = None, !.sm.lifecycle = "Cooking"]
             lit == IF Local /\ r.sm.status # None /\ ~status.lamp
                      THEN SendControl(cooking, Command("lampOn", lampId))
                      ELSE cooking
  <2>1. DOMAIN cooking = DOMAIN r /\ cooking.store = r.store /\ Alike(cooking.sm, r.sm)
    BY DEF Traced, State, Fields, Alike
  <2> HIDE DEF cooking
  <2>2. Traced(cooking, t, told)
    BY <2>1, AlikeTraced
  <2>3. Traced(lit, t, told)
    BY <2>2, ControlTraced
  <2> HIDE DEF lit
  <2>4. Traced(FetchCurrentCook(lit), t, told)
    BY <2>3, FetchTraced
  <2>5. Traced(RefreshHistory(FetchCurrentCook(lit)), t, told)
    BY <2>4, HistoryTraced
  <2> QED BY <2>5 DEF IdleToCooking, lit, cooking
<1>2. Traced(CookingToIdle(r), t, told)
  <2> DEFINE asked == RefreshHistory(r)
             q == [asked EXCEPT !.sm.stop = None, !.sm.current_cook = None, !.sm.lifecycle = "Idle"]
  <2>1. Traced(asked, t, told)
    BY HistoryTraced
  <2> HIDE DEF asked
  <2>2. DOMAIN q = DOMAIN asked /\ q.store = asked.store /\ Alike(q.sm, asked.sm)
    BY <2>1 DEF Traced, State, Fields, Alike
  <2> HIDE DEF q
  <2>3. Traced(q, t, told)
    BY <2>1, <2>2, AlikeTraced
  <2> QED BY <2>3 DEF CookingToIdle, q, asked
<1> QED BY <1>1, <1>2, FetchTraced DEF Edge

LEMMA SettleTraced ==
    ASSUME NEW r, NEW t, NEW told, State(t), Traced(r, t, told), NEW status
    PROVE  Traced(DropStaleCook(RollBackStart(r, status), status), t, told)
<1> DEFINE p == RollBackStart(r, status)
<1>1. Traced(p, t, told)
  <2> DEFINE q == [r EXCEPT !.sm.start = None, !.sm.lifecycle = "Idle"]
  <2>1. DOMAIN q = DOMAIN r /\ q.store = r.store /\ Alike(q.sm, r.sm)
    BY DEF Traced, State, Fields, Alike
  <2>2. p \in {q, r}
    BY DEF RollBackStart
  <2> HIDE DEF q, p
  <2> QED BY <2>1, <2>2, AlikeTraced
<1> HIDE DEF p
<1> DEFINE q == [p EXCEPT !.sm.current_cook = None]
<1>2. DOMAIN q = DOMAIN p /\ q.store = p.store /\ Alike(q.sm, p.sm)
  BY <1>1 DEF Traced, State, Fields, Alike
<1>3. DropStaleCook(p, status) \in {q, p}
  BY DEF DropStaleCook
<1> HIDE DEF q
<1>4. Traced(DropStaleCook(p, status), t, told)
  BY <1>1, <1>2, <1>3, AlikeTraced
<1> QED BY <1>4 DEF p

LEMMA TurnOffTraced ==
    ASSUME NEW r, NEW t, NEW told, State(t), Traced(r, t, told), NEW lampId, NEW stopId
    PROVE  Traced(TurnOffWhenDone(r, lampId, stopId), t, told)
<1> DEFINE once == [r EXCEPT !.sm.turned_off = r.sm.oven_cook]
<1>1. DOMAIN once = DOMAIN r /\ once.store = r.store /\ Alike(once.sm, r.sm)
  BY DEF Traced, State, Fields, Alike
<1>2. TurnOffWhenDone(r, lampId, stopId) \in {r, once, Stop(once, lampId, stopId)}
  BY DEF TurnOffWhenDone
<1> HIDE DEF once
<1>3. Traced(once, t, told)
  BY <1>1, AlikeTraced
<1> QED BY <1>2, <1>3, StopTraced

\* What a report makes of s, as far as the store is concerned: the cook is x,
\* and it is told first unless a start is pending.
Reported(t, s, x) ==
    /\ DOMAIN t = DOMAIN s
    /\ t.oven_cook = x /\ t.history = s.history /\ t.lifecycle = s.lifecycle /\ t.start = s.start

LEMMA ReportTraced ==
    ASSUME NEW s, State(s), NEW x \in CookOrNone, NEW status, NEW windowOver,
           NEW id, NEW onId, NEW stopId
    PROVE  \E t : Reported(t, s, x)
             /\ Traced(ReduceReport(s, status, x, windowOver, id, onId, stopId), t,
                       s.lifecycle # "StartPending")
<1> DEFINE watch == Watch(s, status, x, windowOver)
           told == ReportToStore(s, x)
           reported == [told EXCEPT !.sm.oven_cook = x, !.sm.watch = watch]
           settled == IF StartsNextStage(s, watch, status, x)
                        THEN SendControl(reported, NextStage(x, 2, id))
                        ELSE reported
           shown == ShownStatus(s, watch, status, x)
           edged == Edge(settled, shown, onId)
           dropped == DropStaleCook(RollBackStart(edged, shown), shown)
           timed == [dropped EXCEPT !.sm.status = shown]
           first == s.lifecycle # "StartPending"
           t == [s EXCEPT !.oven_cook = x]
           u == [t EXCEPT !.status = shown]
<1> HIDE DEF watch, shown
<1>1. /\ DOMAIN t = DOMAIN s /\ t.oven_cook = x /\ t.status = s.status /\ t.history = s.history
      /\ t.lifecycle = s.lifecycle /\ t.start = s.start
  BY DEF State, Fields
<1>2. /\ DOMAIN u = DOMAIN t /\ u.oven_cook = t.oven_cook /\ u.status = shown
      /\ u.history = t.history /\ u.lifecycle = t.lifecycle /\ u.start = t.start
  BY <1>1 DEF State, Fields
<1> HIDE DEF t, u
<1>3. State(t) /\ State(u) /\ Reported(u, s, x)
  BY <1>1, <1>2 DEF State, Reported
<1>4. Traced(reported, t, first)
  <2> DEFINE none == On(s)
             cmd == [kind |-> "reported", cook |-> x]
  <2>1. none.sm = s /\ none.store = <<>> /\ DOMAIN none = {"sm", "ws", "store", "failed"}
    BY DEF On
  <2> HIDE DEF none
  <2>2. cmd \in Asks(x) /\ cmd.kind = "reported"
    BY DEF Asks, Tells, StoreCommand
  <2>3. /\ told.sm = s /\ DOMAIN told = {"sm", "ws", "store", "failed"}
        /\ told.store = IF first THEN Append(<<>>, cmd) ELSE <<>>
    BY <2>1 DEF ReportToStore, Ask, none
  <2> HIDE DEF told, cmd
  <2>4. <<>> \in Seq(Asks(x)) /\ Len(<<>>) = 0
    BY EmptySeq
  <2> DEFINE one == Append(<<>>, cmd)
  <2>5. one \in Seq(Asks(x)) /\ Len(one) = 1 /\ one[1] = cmd /\ one # <<>>
    BY <2>2, <2>4, AppendProperties
  <2>6. /\ DOMAIN reported = DOMAIN told /\ reported.store = told.store
        /\ DOMAIN reported.sm = DOMAIN s /\ reported.sm.oven_cook = x
        /\ reported.sm.status = s.status /\ reported.sm.history = s.history
        /\ reported.sm.lifecycle = s.lifecycle /\ reported.sm.start = s.start
    BY <2>3 DEF State, Fields
  <2> HIDE DEF reported, one
  <2>7. CASE first
    <3>1. reported.store = one
      BY <2>3, <2>6, <2>7 DEF one
    <3> QED BY <1>1, <2>2, <2>3, <2>5, <2>6, <2>7, <3>1 DEF Traced
  <2>8. CASE ~first
    <3> DEFINE e == <<>>
    <3>1. reported.store = e /\ e \in Seq(Asks(x)) /\ Len(e) = 0
      BY <2>3, <2>4, <2>6, <2>8
    <3> HIDE DEF e
    <3> QED BY <1>1, <2>3, <2>6, <2>8, <3>1 DEF Traced
  <2> QED BY <2>7, <2>8
<1> HIDE DEF reported, told, first
<1>5. Traced(settled, t, first)
  BY <1>3, <1>4, ControlTraced
<1> HIDE DEF settled
<1>6. Traced(edged, t, first)
  BY <1>3, <1>5, EdgeTraced
<1> HIDE DEF edged
<1>7. Traced(dropped, t, first)
  BY <1>3, <1>6, SettleTraced
<1> HIDE DEF dropped
<1>8. Traced(timed, u, first)
  <2>1. /\ DOMAIN timed = DOMAIN dropped /\ timed.store = dropped.store
        /\ DOMAIN timed.sm = DOMAIN dropped.sm /\ timed.sm.oven_cook = dropped.sm.oven_cook
        /\ timed.sm.status = shown /\ timed.sm.history = dropped.sm.history
        /\ timed.sm.lifecycle = dropped.sm.lifecycle /\ timed.sm.start = dropped.sm.start
    BY <1>3, <1>7 DEF Traced, State, Fields
  <2> HIDE DEF timed
  <2> QED BY <1>2, <1>7, <2>1 DEF Traced
<1> HIDE DEF timed
<1>9. Traced(TurnOffWhenDone(timed, id, stopId), u, first)
  BY <1>3, <1>8, TurnOffTraced
<1>10. TurnOffWhenDone(timed, id, stopId) = ReduceReport(s, status, x, windowOver, id, onId, stopId)
  BY DEF ReduceReport, ApplyApoState, timed, dropped, edged, settled, reported, told, watch, shown
<1> QED BY <1>3, <1>9, <1>10 DEF first

LEMMA AckTraced ==
    ASSUME NEW s, State(s), NEW id, NEW ok
    PROVE  Traced(ApplyCommandAck(s, id, ok), s, FALSE)
<1> DEFINE a == [s EXCEPT !.start = None, !.lifecycle = "Cooking"]
           b == [s EXCEPT !.start = None, !.lifecycle = "Idle"]
           c == [s EXCEPT !.stop = None, !.lifecycle = "Cooking"]
           d == [s EXCEPT !.controls = RemoveFirst(@, id)]
<1>1. Alike(s, s) /\ Alike(a, s) /\ Alike(b, s) /\ Alike(c, s) /\ Alike(d, s)
  BY DEF State, Fields, Alike
<1> HIDE DEF a, b, c, d
<1>2. /\ Traced(On(s), s, FALSE) /\ Traced(On(a), s, FALSE) /\ Traced(On(b), s, FALSE)
      /\ Traced(On(c), s, FALSE) /\ Traced(On(d), s, FALSE)
  BY <1>1, OnTraced
<1>3. ASSUME NEW r, Traced(r, s, FALSE), NEW i PROVE Traced(Fail(r, i), s, FALSE)
  <2> DEFINE q == Fail(r, i)
  <2>1. DOMAIN q = DOMAIN r /\ q.store = r.store /\ q.sm = r.sm
    BY <1>3 DEF Fail, Traced
  <2> HIDE DEF q
  <2>2. Alike(q.sm, r.sm)
    BY <2>1 DEF Alike
  <2> QED BY <1>3, <2>1, <2>2, AlikeTraced DEF q
<1>4. Traced(StartAcked(s), s, FALSE)
  <2>1. StartAcked(s) = FetchCurrentCook(IF Local /\ OvenCooking(s) THEN On(a) ELSE On(s))
    BY DEF StartAcked, a
  <2> QED BY <1>2, <2>1, FetchTraced
<1>5. Traced(StartFailed(s), s, FALSE)
  BY <1>2, <1>3 DEF StartFailed, b
<1>6. Traced(StopFailed(s), s, FALSE)
  BY <1>2, <1>3 DEF StopFailed, c
<1>7. Traced(ControlAcked(s, id, ok), s, FALSE)
  BY <1>2, <1>3 DEF ControlAcked, d
<1> QED BY <1>2, <1>4, <1>5, <1>6, <1>7 DEF ApplyCommandAck

LEMMA LinkTraced ==
    ASSUME NEW s, State(s), NEW kind PROVE Traced(ApplyLink(s, kind), s, FALSE)
<1> DEFINE c == IF kind = "connected" /\ s.connectivity # "disconnected"
                  THEN s.connectivity ELSE kind
           t == [s EXCEPT !.connectivity = c]
<1> HIDE DEF c
<1>1. Alike(t, s)
  BY DEF State, Fields, Alike
<1>2. ApplyLink(s, kind) = On(t)
  BY DEF ApplyLink, c
<1> HIDE DEF t
<1> QED BY <1>1, <1>2, OnTraced

LEMMA ShownTraced ==
    ASSUME NEW s, State(s) PROVE Traced(LinkShown(s), s, FALSE)
<1> DEFINE t == [s EXCEPT !.current_cook.title = "saved"]
           cmd == [kind |-> "link"]
<1>1. Alike(t, s)
  BY DEF State, Fields, Alike
<1> HIDE DEF t
<1>2. Traced(On(t), s, FALSE)
  BY <1>1, OnTraced
<1>3. cmd \in StoreCommand /\ cmd.kind = "link"
  BY DEF StoreCommand
<1> HIDE DEF cmd
<1>4. cmd \in Asks(s.oven_cook) /\ ~Tells(cmd)
  BY <1>3 DEF Asks, Tells
<1> QED BY <1>2, <1>4, AskTraced DEF LinkShown, t, cmd

-----------------------------------------------------------------------------
(* The state machine's steps.                                              *)

LEMMA PerformTraced ==
    ASSUME IInv, JInv, NEW r, NEW t, NEW told, State(t), Traced(r, t, told), Perform(r),
           files' = files, Bounded', Faultless' => Faultless,
           t.lifecycle = sm.lifecycle, t.start = sm.start,
           \/ sm.lifecycle = "StartPending" \/ told
           \/ t.oven_cook = sm.oven_cook /\ t.status = sm.status,
           LET h == Recent(files.history)
           IN Shows(storeEvt, sm.history, h) => Shows(storeEvt', t.history, h)
    PROVE  JInv'
<1> DEFINE q == storeCmd
           u == r.store
           x == t.oven_cook
<1>1. sm' = r.sm /\ storeCmd' = q \o u
  BY DEF Perform
<1>2. IsSeq(q) /\ DOMAIN q = 1..Len(q)
  BY TypedQueue, QueueDomain DEF IInv, Known
<1>3. u \in Seq(Asks(x)) /\ IsSeq(u) /\ DOMAIN u = 1..Len(u) /\ Len(u) \in Nat
  BY TypedQueue, QueueDomain DEF Traced
<1>4. \A i \in 1..Len(u) : Tells(u[i]) => u[i].cook = x
  <2> TAKE i \in 1..Len(u)
  <2>1. u[i] \in Asks(x)
    BY <1>3
  <2> QED BY <2>1 DEF Asks
<1>5. /\ Len(q) \in Nat /\ IsSeq(q \o u) /\ Len(q \o u) = Len(q) + Len(u)
      /\ \A i \in 1..Len(q) : (q \o u)[i] = q[i]
      /\ \A i \in 1..Len(u) : (q \o u)[Len(q) + i] = u[i]
  <2>1. IsSeq(q) /\ IsSeq(u)
    BY <1>2, <1>3
  <2> HIDE DEF q, u
  <2> QED BY <2>1, Grown
<1>6. DOMAIN (q \o u) = 1..(Len(q) + Len(u))
  BY <1>5, QueueDomain
<1>7. told => Len(u) > 0 /\ Tells(u[1])
  BY <1>3, EmptySeq DEF Traced, Tells
<1>8. ASSUME Faultless
      PROVE  Settled(q, Len(q), files, x) \/ told \/ (t.status = None /\ x = None)
  BY <1>8, UnseenSettles DEF JInv, AwaitsStart, FollowsOven
<1> DEFINE w == q \o u
<1> HIDE DEF w
<1>9. ASSUME Faultless' PROVE AwaitsStart'
  <2> SUFFICES ASSUME sm'.lifecycle = "StartPending"
               PROVE  Unseen(w, Len(w), files, sm'.start)
    BY <1>1 DEF AwaitsStart, w
  <2>1. sm.lifecycle = "StartPending" /\ sm'.start = sm.start /\ \A i \in 1..Len(u) : ~Tells(u[i])
    BY <1>1 DEF Traced
  <2>2. Unseen(q, Len(q), files, sm.start)
    BY <1>9, <2>1 DEF JInv, AwaitsStart
  <2> QED BY <1>2, <1>3, <2>1, <2>2, GrownUnseen DEF w
<1>10. ASSUME Faultless' PROVE FollowsOven'
  <2> SUFFICES ASSUME t.status # None \/ x # None
               PROVE  Settled(w, Len(w), files, x)
    BY <1>1 DEF FollowsOven, Traced, w
  <2>1. Settled(q, Len(q), files, x) \/ (Len(u) > 0 /\ Tells(u[1]))
    BY <1>7, <1>8, <1>10
  <2>2. Len(u) \in 0..Len(u)
    BY <1>3
  <2>3. Settled(w, Len(q) + Len(u), files, x)
    BY <1>2, <1>3, <1>4, <2>1, <2>2, GrownSettled DEF w
  <2> QED BY <1>5, <2>3 DEF w
<1>11. ASSUME Faultless' PROVE FetchesFollow'
  <2> SUFFICES ASSUME NEW j \in DOMAIN w, NamesCook(w[j])
               PROVE  Settled(w, j - 1, files, w[j].cook)
    BY <1>1 DEF FetchesFollow, w
  <2>1. CASE j <= Len(q)
    <3>1. j \in DOMAIN q /\ w[j] = q[j] /\ j - 1 \in 0..Len(q)
      BY <1>2, <1>5, <1>6, <2>1 DEF w
    <3>2. Settled(q, j - 1, files, q[j].cook)
      BY <1>11, <3>1 DEF JInv, FetchesFollow
    <3> QED BY <1>2, <1>3, <3>1, <3>2, GrownEarlier DEF w
  <2>2. CASE ~(j <= Len(q))
    <3> DEFINE k == j - 1 - Len(q)
    <3>1. k \in 0..Len(u) /\ k + 1 \in 1..Len(u) /\ w[j] = u[k + 1] /\ Len(q) + k = j - 1
      BY <1>5, <1>6, <2>2 DEF w
    <3> HIDE DEF k
    <3>2. w[j].cook = x /\ x # None
      BY <1>4, <3>1 DEF NamesCook, Tells
    <3>3. told => k > 0
      <4>1. told => u[1].kind = "reported"
        BY DEF Traced
      <4> QED BY <3>1, <4>1 DEF NamesCook
    <3>4. Settled(q, Len(q), files, x) \/ (k > 0 /\ Tells(u[1]))
      BY <1>7, <1>8, <1>11, <3>2, <3>3
    <3>5. Settled(w, Len(q) + k, files, x)
      BY <1>2, <1>3, <1>4, <3>1, <3>4, GrownSettled DEF w
    <3> QED BY <3>1, <3>2, <3>5
  <2> QED BY <2>1, <2>2
<1>12. ASSUME Faultless' PROVE ShowsHistory'
  <2> SUFFICES ASSUME \A j \in DOMAIN w : w[j].kind # "history"
               PROVE  Shows(storeEvt', t.history, Recent(files.history))
    BY <1>1 DEF ShowsHistory, Traced, w
  <2>1. \A j \in DOMAIN q : j \in DOMAIN w /\ w[j] = q[j]
    BY <1>2, <1>3, <1>5, <1>6 DEF w
  <2> QED BY <1>12, <2>1 DEF JInv, ShowsHistory
<1>13. Fields \subseteq DOMAIN sm'
  BY <1>1 DEF Traced, State
<1> QED BY <1>9, <1>10, <1>11, <1>12, <1>13 DEF JInv

\* Taking an event shows what it says.
LEMMA ShowsTail ==
    ASSUME NEW evts, IsSeq(evts), evts # <<>>, NEW shown, NEW h, Shows(evts, shown, h), NEW now,
           now = IF Head(evts).kind = "history" THEN Head(evts).entries ELSE shown
    PROVE  Shows(Tail(evts), now, h)
<1> DEFINE rest == Tail(evts)
           first == Head(evts)
<1>1. /\ Len(rest) = Len(evts) - 1 /\ Len(evts) > 0 /\ Len(evts) \in Nat /\ IsSeq(rest)
      /\ \A i \in 1..Len(rest) : rest[i] = evts[i + 1]
  BY TailRange, QueueDomain
<1>2. first = evts[1]
  BY DEF IsSeq
<1> HIDE DEF rest, first
<1>3. ASSUME NEW k \in 1..(Len(rest) + 1), NoHistory(rest, k) PROVE NoHistory(evts, k + 1)
  <2> SUFFICES ASSUME NEW i \in (k + 1)..Len(evts) PROVE evts[i].kind # "history"
    BY DEF NoHistory
  <2>1. i - 1 \in k..Len(rest) /\ i - 1 \in 1..Len(rest) /\ evts[i] = rest[i - 1]
    BY <1>1
  <2> QED BY <1>3, <2>1 DEF NoHistory
<1>4. ASSUME NEW i \in 1..Len(rest), rest[i].kind = "history", NoHistory(rest, i + 1)
      PROVE  rest[i].entries = h
  <2>1. i + 1 \in 1..(Len(rest) + 1) /\ i + 1 \in 1..Len(evts) /\ rest[i] = evts[i + 1]
    BY <1>1
  <2>2. NoHistory(evts, (i + 1) + 1)
    BY <1>3, <1>4, <2>1
  <2> QED BY <1>4, <2>1, <2>2 DEF Shows
<1>5. ASSUME NoHistory(rest, 1) PROVE now = h
  <2>1. 1 \in 1..(Len(rest) + 1) /\ 1 \in 1..Len(evts)
    BY <1>1
  <2>2. NoHistory(evts, 1 + 1)
    BY <1>3, <1>5, <2>1
  <2>3. CASE first.kind = "history"
    BY <1>2, <2>1, <2>2, <2>3 DEF Shows, first
  <2>4. CASE first.kind # "history"
    <3>1. NoHistory(evts, 1)
      <4> SUFFICES ASSUME NEW i \in 1..Len(evts) PROVE evts[i].kind # "history"
        BY DEF NoHistory
      <4>1. i = 1 \/ i \in (1 + 1)..Len(evts)
        BY <1>1
      <4> QED BY <1>2, <2>2, <2>4, <4>1 DEF NoHistory
    <3> QED BY <2>4, <3>1 DEF Shows, first
  <2> QED BY <2>3, <2>4
<1> QED BY <1>4, <1>5 DEF Shows, rest

\* Events that end with the history show it; without it they show nothing.
LEMMA ShowsMore ==
    ASSUME NEW evts, IsSeq(evts), NEW new, IsSeq(new), NEW shown, NEW h,
           \/ Len(new) > 0 /\ new[Len(new)].kind = "history" /\ new[Len(new)].entries = h
           \/ NoHistory(new, 1) /\ Shows(evts, shown, h)
    PROVE  Shows(evts \o new, shown, h)
<1> DEFINE all == evts \o new
           n == Len(evts)
           m == Len(new)
<1>1. /\ n \in Nat /\ m \in Nat /\ Len(all) = n + m
      /\ \A i \in 1..n : all[i] = evts[i]
      /\ \A i \in 1..m : all[n + i] = new[i]
  BY ONLY Grown, IsSeq(evts), IsSeq(new)
<1> HIDE DEF all
<1>2. CASE m > 0 /\ new[m].kind = "history" /\ new[m].entries = h
  <2>1. all[n + m] = new[m] /\ n + m \in 1..Len(all)
    BY <1>1, <1>2
  <2>2. ASSUME NEW k \in 1..(Len(all) + 1), NoHistory(all, k) PROVE k = Len(all) + 1
    BY <1>1, <1>2, <2>1, <2>2 DEF NoHistory
  <2>3. ASSUME NEW i \in 1..Len(all), NoHistory(all, i + 1) PROVE all[i].entries = h
    <3>1. i + 1 \in 1..(Len(all) + 1)
      BY <1>1
    <3>2. i = Len(all)
      BY <1>1, <2>2, <2>3, <3>1
    <3> QED BY <1>1, <1>2, <2>1, <3>2
  <2>4. ~NoHistory(all, 1)
    BY <1>1, <1>2, <2>1 DEF NoHistory
  <2> QED BY <2>3, <2>4 DEF Shows, all
<1>3. CASE NoHistory(new, 1) /\ Shows(evts, shown, h)
  <2>1. ASSUME NEW i \in 1..Len(all), all[i].kind = "history", NoHistory(all, i + 1)
        PROVE  all[i].entries = h
    <3>1. i > n => i - n \in 1..m /\ all[i] = new[i - n]
      BY <1>1
    <3>2. i \in 1..n /\ all[i] = evts[i]
      BY <1>1, <1>3, <2>1, <3>1 DEF NoHistory
    <3>3. NoHistory(evts, i + 1)
      BY <1>1, <2>1, <3>2 DEF NoHistory
    <3> QED BY <1>3, <2>1, <3>2, <3>3 DEF Shows
  <2>2. NoHistory(all, 1) => NoHistory(evts, 1)
    BY <1>1 DEF NoHistory
  <2> QED BY <1>3, <2>1, <2>2 DEF Shows, all
<1> QED BY <1>2, <1>3

LEMMA SpendBounded ==
    ASSUME Bounded, NEW kind \in Kinds, Spend(kind), budget' = budget
    PROVE  Bounded' /\ (Faultless' => Faultless) /\ (kind = "failures" => ~Faultless')
<1>1. left.failures \in Nat /\ budget.failures \in Nat /\ left.failures <= budget.failures
      /\ left[kind] \in Nat /\ left[kind] > 0
  BY DEF Bounded, Kinds, Spend
<1>2. left' = [left EXCEPT ![kind] = left[kind] - 1] /\ left' \in [Kinds -> Nat]
  BY <1>1 DEF Bounded, Spend
<1>3. \A k \in Kinds : left'[k] = IF k = kind THEN left[k] - 1 ELSE left[k]
  BY <1>2 DEF Bounded
<1>4. \A k \in Kinds : left'[k] <= budget'[k]
  <2> TAKE k \in Kinds
  <2>1. left[k] \in Nat /\ budget[k] \in Nat /\ left[k] <= budget[k]
    BY DEF Bounded
  <2> QED BY <1>3, <2>1
<1>5. left'.failures = IF kind = "failures" THEN left.failures - 1 ELSE left.failures
  BY <1>3 DEF Kinds
<1> QED BY <1>1, <1>2, <1>4, <1>5 DEF Bounded, Faultless

\* A start is the last thing the store is told.
LEMMA StartTraced == ASSUME IInv, JInv, ClientStarts, UNCHANGED storeVars PROVE JInv'
<1>1. PICK cook \in Cooks \ begun, turnOff \in TurnOffChoices : StartCook(cook, turnOff)
  BY DEF ClientStarts
<1>2. UNCHANGED <<storeEvt, files, left, budget>>
  BY <1>1 DEF ClientStarts, StartCook, storeVars, modelVars
<1> DEFINE seeded == [cook |-> cook, title |-> "started", turnOff |-> turnOff]
           s == [sm EXCEPT !.start = cook, !.lifecycle = "StartPending", !.current_cook = seeded]
           cmd == [kind |-> "started", cook |-> cook, turnOff |-> turnOff]
           u == <<cmd>>
<1>3. /\ Fields \subseteq DOMAIN sm' /\ sm'.start = cook /\ sm'.lifecycle = "StartPending"
      /\ sm'.history = sm.history
      /\ storeCmd' = storeCmd \o u
  <2> DEFINE r == On(s)
  <2>1. DOMAIN s = DOMAIN sm /\ s.start = cook /\ s.lifecycle = "StartPending"
        /\ s.history = sm.history
    BY DEF JInv, Fields
  <2> HIDE DEF s
  <2>2. r.sm = s /\ r.ws = <<>> /\ r.store = <<>> /\ DOMAIN r = {"sm", "ws", "store", "failed"}
    BY DEF On
  <2> HIDE DEF r
  <2> DEFINE q == Ask(Send(r, Command("start", cook)), cmd)
  <2>3. q.sm = s /\ q.store = Append(<<>>, cmd)
    BY <2>2 DEF Ask, Send
  <2>4. q = Start(sm, cook, turnOff)
    BY DEF Start, s, r
  <2>5. Append(<<>>, cmd) = u
    OBVIOUS
  <2> HIDE DEF q
  <2> QED BY <1>1, <2>1, <2>3, <2>4, <2>5 DEF StartCook, Perform, JInv
<1>4. cmd.kind = "started" /\ cmd.cook = cook
  OBVIOUS
<1> HIDE DEF cmd
<1>5. IsSeq(u) /\ Len(u) = 1 /\ u[1] = cmd
  BY OneQueue
<1> HIDE DEF u
<1>6. IsSeq(storeCmd) /\ DOMAIN storeCmd = 1..Len(storeCmd)
  BY TypedQueue, QueueDomain DEF IInv, Known
<1>7. /\ Len(storeCmd) \in Nat /\ IsSeq(storeCmd') /\ Len(storeCmd') = Len(storeCmd) + 1
      /\ \A i \in 1..Len(storeCmd) : storeCmd'[i] = storeCmd[i]
      /\ storeCmd'[Len(storeCmd) + 1] = cmd
  <2> DEFINE w == storeCmd \o u
  <2>1. /\ Len(storeCmd) \in Nat /\ IsSeq(w) /\ Len(w) = Len(storeCmd) + Len(u)
        /\ \A i \in 1..Len(storeCmd) : w[i] = storeCmd[i]
        /\ \A i \in 1..Len(u) : w[Len(storeCmd) + i] = u[i]
    <3>1. IsSeq(storeCmd) /\ IsSeq(u)
      BY <1>5, <1>6
    <3> QED BY <3>1, Grown
  <2>2. 1 \in 1..Len(u)
    BY <1>5
  <2>3. storeCmd' = w
    BY <1>3
  <2> HIDE DEF w
  <2> QED BY <1>5, <2>1, <2>2, <2>3
<1>8. DOMAIN storeCmd' = 1..(Len(storeCmd) + 1)
  BY <1>7, QueueDomain
<1> DEFINE n == Len(storeCmd)
<1>9. AwaitsStart'
  <2>1. Tells(storeCmd'[n + 1])
    BY <1>4, <1>7 DEF Tells
  <2>2. ~Untold(storeCmd', n + 1)
    BY <1>7, <2>1 DEF Untold
  <2>3. ASSUME NEW i \in 1..(n + 1), LastTell(storeCmd', n + 1, i)
        PROVE  storeCmd'[i].kind = "started" /\ storeCmd'[i].cook = cook
    <3>1. i = n + 1
      BY <1>7, <2>1, <2>3 DEF LastTell
    <3> QED BY <1>4, <1>7, <3>1
  <2>4. Unseen(storeCmd', Len(storeCmd'), files', sm'.start)
    BY <1>3, <1>7, <2>2, <2>3 DEF Unseen
  <2> QED BY <2>4 DEF AwaitsStart
<1>10. FollowsOven'
  BY <1>3 DEF FollowsOven
<1>11. ASSUME Faultless PROVE FetchesFollow'
  <2> SUFFICES ASSUME NEW j \in DOMAIN storeCmd', NamesCook(storeCmd'[j])
               PROVE  Settled(storeCmd', j - 1, files, storeCmd'[j].cook)
    BY <1>2 DEF FetchesFollow
  <2>1. storeCmd'[j].kind = "fetch"
    BY DEF NamesCook
  <2>2. j \in DOMAIN storeCmd /\ storeCmd'[j] = storeCmd[j] /\ j - 1 \in 0..n
    BY <1>4, <1>6, <1>7, <1>8, <2>1
  <2>3. Settled(storeCmd, j - 1, files, storeCmd[j].cook)
    BY <1>11, <2>2 DEF JInv, FetchesFollow
  <2> QED BY <1>3, <1>5, <1>6, <2>2, <2>3, GrownEarlier
<1>12. ASSUME Faultless PROVE ShowsHistory'
  <2> SUFFICES ASSUME \A j \in DOMAIN storeCmd' : storeCmd'[j].kind # "history"
               PROVE  Shows(storeEvt, sm.history, Recent(files.history))
    BY <1>2, <1>3 DEF ShowsHistory
  <2>1. \A j \in DOMAIN storeCmd : j \in DOMAIN storeCmd' /\ storeCmd'[j] = storeCmd[j]
    BY <1>6, <1>7, <1>8
  <2> QED BY <1>12, <2>1 DEF JInv, ShowsHistory
<1>13. Bounded' /\ (Faultless' => Faultless)
  BY <1>2 DEF JInv, Bounded, Faultless
<1> QED BY <1>3, <1>9, <1>10, <1>11, <1>12, <1>13 DEF JInv

\* A reduction that leaves the history and the oven as they were.
LEMMA PerformCalm ==
    ASSUME IInv, JInv, NEW r, Traced(r, sm, FALSE), Perform(r), files' = files,
           Bounded', Faultless' => Faultless, storeEvt' = storeEvt
    PROVE  JInv'
<1>1. State(sm)
  BY DEF State, IInv, JInv, Known, Begun, CookOrNone
<1> QED BY <1>1, PerformTraced

LEMMA SmStepTraced == ASSUME IInv, JInv, SmStep PROVE JInv'
<1>1. UNCHANGED storeVars /\ files' = files
  BY DEF SmStep, storeVars
<1>2. State(sm) /\ Alike(sm, sm)
  BY DEF State, IInv, JInv, Known, Begun, CookOrNone, Alike
<1>3. Traced(On(sm), sm, FALSE)
  BY <1>2, OnTraced
<1>4. ASSUME UNCHANGED modelVars PROVE Bounded' /\ (Faultless' => Faultless)
  BY <1>4 DEF modelVars, JInv, Bounded, Faultless
<1>5. CASE ClientStarts
  BY <1>1, <1>5, StartTraced
<1>6. CASE ClientActs
  <2>1. Bounded' /\ (Faultless' => Faultless)
    BY <1>6, SpendBounded DEF ClientActs, JInv, Kinds
  <2>2. CASE StopCook(NewId, OtherNewId)
    <3>1. Traced(Stop(On(sm), NewId, OtherNewId), sm, FALSE)
      BY <1>2, <1>3, StopTraced
    <3>2. Perform(Stop(On(sm), NewId, OtherNewId)) /\ storeEvt' = storeEvt
      BY <2>2 DEF StopCook
    <3> QED BY <1>1, <2>1, <3>1, <3>2, PerformCalm
  <2>3. CASE \E kind \in ClientRequests \cap Controls : ControlCook(kind, NewId)
    <3>1. PICK kind \in Controls : ControlCook(kind, NewId)
      BY <2>3
    <3>2. Traced(SendControl(On(sm), Control(sm, kind, NewId)), sm, FALSE)
      BY <1>2, <1>3, ControlTraced
    <3>3. Perform(SendControl(On(sm), Control(sm, kind, NewId))) /\ storeEvt' = storeEvt
      BY <3>1 DEF ControlCook
    <3> QED BY <1>1, <2>1, <3>2, <3>3, PerformCalm
  <2> QED BY <1>6, <2>2, <2>3 DEF ClientActs
<1>a. ASSUME UNCHANGED <<channels, smVars>>, Bounded', Faultless' => Faultless PROVE JInv'
  BY <1>1, <1>a
  DEF channels, smVars, JInv, AwaitsStart, FollowsOven, FetchesFollow, ShowsHistory
<1>7. CASE SaveReadsCook
  <2>1. Bounded' /\ (Faultless' => Faultless) /\ UNCHANGED <<channels, smVars>>
    BY <1>7, SpendBounded DEF SaveReadsCook, JInv, Kinds
  <2> QED BY <1>a, <2>1
<1>8. CASE SaveLinksCook
  <2>1. Bounded' /\ (Faultless' => Faultless)
    BY <1>8 DEF SaveLinksCook, JInv, Bounded, Faultless
  <2>2. CASE LinkCurrentCook
    <3>1. Traced(LinkShown(sm), sm, FALSE)
      BY <1>2, ShownTraced
    <3>2. Perform(LinkShown(sm)) /\ storeEvt' = storeEvt
      BY <2>2 DEF LinkCurrentCook
    <3> QED BY <1>1, <2>1, <3>1, <3>2, PerformCalm
  <2>3. CASE UNCHANGED <<channels, smVars>>
    BY <1>a, <2>1, <2>3
  <2> QED BY <1>8, <2>2, <2>3 DEF SaveLinksCook
<1>9. CASE SmTakesState
  <2>1. UNCHANGED <<storeEvt, modelVars>> /\ wsEvt # <<>> /\ Head(wsEvt).kind = "state"
    BY <1>9 DEF SmTakesState, TakeApoState
  <2>2. PICK over \in BOOLEAN :
          Perform(ReduceReport(sm, Head(wsEvt).status, Head(wsEvt).cook, over, NewId, NewId, OtherNewId))
    BY <1>9 DEF SmTakesState, TakeApoState
  <2>3. Head(wsEvt).cook \in CookOrNone
    <3>1. Head(wsEvt) \in Range(wsEvt)
      BY <2>1, TailRange DEF IInv, Known
    <3> QED BY <2>1, <3>1 DEF IInv, Known, Begun, CookOrNone
  <2> DEFINE x == Head(wsEvt).cook
             r == ReduceReport(sm, Head(wsEvt).status, x, over, NewId, NewId, OtherNewId)
  <2>4. PICK t : Reported(t, sm, x) /\ Traced(r, t, sm.lifecycle # "StartPending")
    BY <1>2, <2>3, ReportTraced
  <2> HIDE DEF r
  <2>5. State(t) /\ t.lifecycle = sm.lifecycle /\ t.start = sm.start /\ t.history = sm.history
    BY <1>2, <2>3, <2>4 DEF Reported, State
  <2>6. Perform(r)
    BY <2>2 DEF r
  <2> HIDE DEF x
  <2> QED BY <1>1, <1>4, <2>1, <2>4, <2>5, <2>6, PerformTraced
<1>10. CASE SmTakesAck
  <2>1. UNCHANGED <<storeEvt, modelVars>> /\ Perform(ApplyCommandAck(sm, Head(wsEvt).id, Head(wsEvt).ok))
    BY <1>10 DEF SmTakesAck, TakeAck
  <2>2. Traced(ApplyCommandAck(sm, Head(wsEvt).id, Head(wsEvt).ok), sm, FALSE)
    BY <1>2, AckTraced
  <2> QED BY <1>1, <1>4, <2>1, <2>2, PerformCalm
<1>11. CASE SmTakesLink
  <2>1. UNCHANGED <<storeEvt, modelVars>> /\ Perform(ApplyLink(sm, Head(wsEvt).kind))
    BY <1>11 DEF SmTakesLink, TakeLink
  <2>2. Traced(ApplyLink(sm, Head(wsEvt).kind), sm, FALSE)
    BY <1>2, LinkTraced
  <2> QED BY <1>1, <1>4, <2>1, <2>2, PerformCalm
<1>12. CASE SmTakesStore
  <2> DEFINE evt == Head(storeEvt)
  <2>1. UNCHANGED modelVars /\ storeEvt # <<>> /\ storeEvt' = Tail(storeEvt)
        /\ Perform(ApplyStoreEvent(sm, evt))
    BY <1>12 DEF SmTakesStore, TakeStoreEvent
  <2>2. evt.kind \in {"fetched", "history", "patched"} /\ IsSeq(storeEvt)
    <3>1. evt \in Range(storeEvt)
      BY <2>1, TailRange DEF IInv, Known
    <3> QED BY <3>1 DEF IInv, Known
  <2> DEFINE now == IF evt.kind = "history" THEN evt.entries ELSE sm.history
             t == [sm EXCEPT !.history = now]
             a == [sm EXCEPT !.current_cook = evt.cook]
             b == [sm EXCEPT !.history = evt.entries]
  <2> HIDE DEF evt
  <2>3. /\ State(t) /\ t.history = now /\ t.lifecycle = sm.lifecycle /\ t.start = sm.start
        /\ t.oven_cook = sm.oven_cook /\ t.status = sm.status
    BY <1>2 DEF State, Fields
  <2>4. /\ evt.kind = "fetched" => Alike(a, t)
        /\ evt.kind = "history" => Alike(b, t)
        /\ evt.kind = "patched" => Alike(sm, t)
    BY <1>2 DEF State, Fields, Alike
  <2>5. /\ evt.kind = "fetched" => ApplyStoreEvent(sm, evt) = On(a)
        /\ evt.kind = "history" => ApplyStoreEvent(sm, evt) = On(b)
        /\ evt.kind = "patched" => ApplyStoreEvent(sm, evt) = FetchCurrentCook(On(sm))
    BY DEF ApplyStoreEvent
  <2> HIDE DEF a, b, t
  <2>6. Traced(ApplyStoreEvent(sm, evt), t, FALSE)
    BY <2>2, <2>3, <2>4, <2>5, OnTraced, FetchTraced
  <2>7. \A h : Shows(storeEvt, sm.history, h) => Shows(storeEvt', t.history, h)
    BY <2>1, <2>2, <2>3, ShowsTail DEF evt
  <2> QED BY <1>1, <1>4, <2>1, <2>3, <2>6, <2>7, PerformTraced
<1>13. CASE SmTicks
  <2>1. UNCHANGED <<storeEvt, modelVars>>
    BY <1>13 DEF SmTicks, CurrentCookTick, HistoryTick
  <2>2. Perform(FetchCurrentCook(On(sm))) \/ Perform(RefreshHistory(On(sm)))
    BY <1>13 DEF SmTicks, CurrentCookTick, HistoryTick
  <2>3. Traced(FetchCurrentCook(On(sm)), sm, FALSE) /\ Traced(RefreshHistory(On(sm)), sm, FALSE)
    BY <1>2, <1>3, FetchTraced, HistoryTraced
  <2> QED BY <1>1, <1>4, <2>1, <2>2, <2>3, PerformCalm
<1> QED
  BY <1>5, <1>6, <1>7, <1>8, <1>9, <1>10, <1>11, <1>12, <1>13 DEF SmStep

-----------------------------------------------------------------------------
(* The store.                                                              *)

\* The files after a journal is written over those of a trail.
LEMMA LastWrite ==
    ASSUME NEW trail \in Seq(Files), trail # <<>>, NEW j \in Journal \cup {None}
    PROVE  LET f == Last(Write(trail, j))
           IN f \in Files /\ f.journal = j /\ f.history = Last(trail).history
<1> DEFINE last == Last(trail)
<1>1. last \in Files
  <2>1. Len(trail) \in 1..Len(trail)
    BY EmptySeq, LenProperties
  <2> QED BY <2>1 DEF Last
<1> HIDE DEF last
<1>2. /\ [last EXCEPT !.journal = j] \in Files /\ [last EXCEPT !.journal = j].journal = j
      /\ [last EXCEPT !.journal = j].history = last.history
  BY <1>1 DEF Files
<1>3. Last(Write(trail, j)) = [last EXCEPT !.journal = j]
  BY <1>2, WriteKeeps DEF last
<1> QED BY <1>2, <1>3 DEF last

\* A cook that was not seen leaves no history.
LEMMA FinishLeaves ==
    ASSUME files \in Files
    PROVE  /\ Finish \in Seq(Files) /\ Finish # <<>> /\ Last(Finish).journal = None
           /\ files.journal = None \/ ~files.journal.seen => Last(Finish).history = files.history
<1> DEFINE cmd == [kind |-> "history"]
<1>1. Finish \in Seq(Good(cmd)) /\ Finish # <<>> /\ Last(Finish).journal = None
  BY FinishGood
<1>2. Finish \in Seq(Files)
  BY <1>1, SeqMonotonic DEF Good
<1>3. CASE files.journal = None
  BY <1>1, <1>2, <1>3 DEF Finish, Last
<1>4. CASE files.journal # None /\ ~files.journal.seen
  <2> DEFINE trail == <<files>>
  <2>1. trail \in Seq(Files) /\ trail # <<>> /\ Last(trail) = files
    BY DEF Last
  <2>2. Finish = Write(trail, None)
    BY <1>4 DEF Finish
  <2> HIDE DEF trail
  <2>3. Last(Finish).history = files.history
    BY <2>1, <2>2, LastWrite
  <2> QED BY <1>1, <1>2, <2>3
<1>5. CASE files.journal # None /\ files.journal.seen
  BY <1>1, <1>2, <1>5
<1> QED BY <1>3, <1>4, <1>5

\* What oven_reported leaves: a journal of the cook, if any, and the history
\* as it was if the journal was the cook's or not seen.
LEMMA ReconcileLeaves ==
    ASSUME files \in Files, NEW cook \in CookOrNone
    PROVE  LET f == Last(Reconcile(cook))
           IN /\ f.journal # None => f.journal.cook = cook
              /\ (files.journal # None /\ files.journal.seen => files.journal.cook = cook)
                   => f.history = files.history
<1> DEFINE trail == <<files>>
<1>1. trail \in Seq(Files) /\ trail # <<>> /\ Last(trail) = files
  BY DEF Last
<1>2. CASE Journals(cook)
  <2> DEFINE j == [files.journal EXCEPT !.seen = TRUE]
  <2>1. j \in Journal /\ j.cook = cook
    BY <1>2 DEF Journals, Files, Journal
  <2>2. Reconcile(cook) = Write(trail, j)
    BY <1>2 DEF Reconcile
  <2> HIDE DEF j, trail
  <2>3. Last(Reconcile(cook)).journal = j /\ Last(Reconcile(cook)).history = files.history
    BY <1>1, <2>1, <2>2, LastWrite
  <2> QED BY <2>1, <2>3
<1> HIDE DEF trail
<1>3. CASE ~Journals(cook) /\ cook = None
  <2>1. Reconcile(cook) = Finish
    BY <1>3 DEF Reconcile
  <2>2. (files.journal # None /\ files.journal.seen => files.journal.cook = cook)
          => files.journal = None \/ ~files.journal.seen
    BY <1>3 DEF Journals
  <2> QED BY <2>1, <2>2, FinishLeaves
<1>4. CASE ~Journals(cook) /\ cook # None
  <2>1. Manual(cook) \in Journal /\ Manual(cook).cook = cook
    BY <1>4 DEF Manual, Journal, Titles, CookOrNone
  <2>2. Reconcile(cook) = Write(Finish, Manual(cook))
    BY <1>4 DEF Reconcile
  <2>3. /\ Last(Reconcile(cook)).journal = Manual(cook)
        /\ Last(Reconcile(cook)).history = Last(Finish).history
    BY <2>1, <2>2, FinishLeaves, LastWrite
  <2>4. (files.journal # None /\ files.journal.seen => files.journal.cook = cook)
          => files.journal = None \/ ~files.journal.seen
    BY <1>4 DEF Journals
  <2> QED BY <2>1, <2>3, <2>4, FinishLeaves
<1> QED BY <1>2, <1>3, <1>4

\* What a command leaves: f after, files before.
Leaves(cmd, f) ==
    /\ cmd.kind = "started" =>
         f.journal # None /\ f.journal.cook = cmd.cook /\ ~f.journal.seen
    /\ cmd.kind = "reported" \/ NamesCook(cmd) => (f.journal # None => f.journal.cook = cmd.cook)
    /\ ~Tells(cmd) =>
         /\ f.history = files.history /\ (f.journal = None <=> files.journal = None)
         /\ files.journal # None =>
              f.journal.cook = files.journal.cook /\ f.journal.seen = files.journal.seen
    /\ /\ NamesCook(cmd)
       /\ files.journal # None /\ files.journal.seen => files.journal.cook = cmd.cook
       => f.history = files.history

LEMMA TrailLeaves ==
    ASSUME files \in Files, NEW cmd \in StoreCommand, NEW found \in BOOLEAN
    PROVE  Leaves(cmd, Last(Trail(cmd, found)))
<1> DEFINE trail == <<files>>
           f == Last(Trail(cmd, found))
<1>1. trail \in Seq(Files) /\ trail # <<>> /\ Last(trail) = files
  BY DEF Last
<1>2. CASE cmd.kind = "reported"
  <2>1. cmd.cook \in CookOrNone /\ Trail(cmd, found) = Reconcile(cmd.cook)
    BY <1>2 DEF StoreCommand, Trail
  <2>2. f.journal # None => f.journal.cook = cmd.cook
    BY <2>1, ReconcileLeaves
  <2> HIDE DEF f
  <2> QED BY <1>2, <2>2 DEF Leaves, NamesCook, Tells, f
<1>3. CASE cmd.kind = "started"
  <2> DEFINE j == Started(cmd.cook, cmd.turnOff, found)
             old == IF Journals(cmd.cook) THEN trail ELSE Finish
  <2>a. j \in Journal /\ j.cook = cmd.cook /\ j.seen = FALSE
    BY <1>3 DEF StoreCommand, Started, Journal, Titles
  <2>1. j \in Journal /\ j.cook = cmd.cook /\ ~j.seen /\ j # None
    <3> HIDE DEF j
    <3> QED BY <2>a, LocalStoreAssumption
  <2>2. Trail(cmd, found) = Write(old, j)
    BY <1>3 DEF Trail, JournalStart
  <2>3. old \in Seq(Files) /\ old # <<>>
    BY <1>1, FinishLeaves
  <2> HIDE DEF j, old
  <2>4. f.journal = j
    BY <2>1, <2>2, <2>3, LastWrite
  <2> HIDE DEF f
  <2> QED BY <1>3, <2>1, <2>4 DEF Leaves, NamesCook, Tells, f
<1>4. CASE cmd.kind = "fetch" /\ cmd.cook # None /\ ~Journals(cmd.cook)
  <2> DEFINE x == cmd.cook
  <2>1. x \in CookOrNone /\ f = Last(Reconcile(x))
    BY <1>4 DEF StoreCommand, Trail
  <2> HIDE DEF f, trail, x
  <2>2. /\ f.journal # None => f.journal.cook = x
        /\ (files.journal # None /\ files.journal.seen => files.journal.cook = x)
             => f.history = files.history
    BY <2>1, ReconcileLeaves
  <2>3. /\ f.journal # None => f.journal.cook = cmd.cook
        /\ (files.journal # None /\ files.journal.seen => files.journal.cook = cmd.cook)
             => f.history = files.history
    BY <2>2 DEF x
  <2> QED BY <1>4, <2>3 DEF Leaves, NamesCook, Tells, f
<1>5. CASE \/ cmd.kind = "history" \/ (cmd.kind = "link" /\ files.journal = None)
           \/ (cmd.kind = "fetch" /\ (cmd.cook = None \/ Journals(cmd.cook)))
  <2>1. Trail(cmd, found) = trail
    BY <1>5 DEF Trail, LinkCook
  <2>2. f = files
    BY <1>1, <2>1
  <2>3. cmd.kind \in {"history", "link", "fetch"} /\ (NamesCook(cmd) => files.journal.cook = cmd.cook)
    BY <1>5 DEF NamesCook, Journals
  <2> HIDE DEF f
  <2> QED BY <2>2, <2>3 DEF Leaves, f
<1>6. CASE cmd.kind = "link" /\ files.journal # None
  <2> DEFINE j == [files.journal EXCEPT !.title = "saved"]
  <2>1. j \in Journal /\ j.cook = files.journal.cook /\ j.seen = files.journal.seen /\ j # None
    BY <1>6, LocalStoreAssumption DEF Files, Journal, Titles
  <2>2. Trail(cmd, found) = Write(trail, j)
    BY <1>6 DEF Trail, LinkCook
  <2> HIDE DEF j, trail
  <2>3. f.journal = j /\ f.history = files.history
    BY <1>1, <2>1, <2>2, LastWrite
  <2> HIDE DEF f
  <2> QED BY <1>6, <2>1, <2>3 DEF Leaves, NamesCook, f
<1> QED BY <1>2, <1>3, <1>4, <1>5, <1>6 DEF StoreCommand

LEMMA TailSettled ==
    ASSUME NEW q, IsSeq(q), q # <<>>, NEW n \in 1..Len(q), NEW g, Leaves(Head(q), g), NEW x
    PROVE  /\ Settled(q, n, files, x) => Settled(Tail(q), n - 1, g, x)
           /\ Unseen(q, n, files, x) => Unseen(Tail(q), n - 1, g, x)
<1> DEFINE rest == Tail(q)
           cmd == Head(q)
<1>1. /\ Len(rest) = Len(q) - 1 /\ Len(q) \in Nat
      /\ \A i \in 1..(n - 1) : rest[i] = q[i + 1]
  BY TailRange, QueueDomain
<1>2. cmd = q[1]
  BY DEF IsSeq
<1>3. Leaves(cmd, g)
  OBVIOUS
<1> HIDE DEF rest, cmd
<1>4. ASSUME NEW i \in 1..(n - 1), LastTell(rest, n - 1, i)
      PROVE  i + 1 \in 1..n /\ rest[i] = q[i + 1] /\ LastTell(q, n, i + 1)
  <2>1. i + 1 \in 1..n /\ rest[i] = q[i + 1]
    BY <1>1
  <2>2. ASSUME NEW k \in ((i + 1) + 1)..n PROVE ~Tells(q[k])
    <3>1. k - 1 \in (i + 1)..(n - 1) /\ k - 1 \in 1..(n - 1) /\ q[k] = rest[k - 1]
      BY <1>1
    <3> QED BY <1>4, <3>1 DEF LastTell
  <2> QED BY <1>4, <2>1, <2>2 DEF LastTell
<1>5. ASSUME Untold(rest, n - 1)
      PROVE  /\ 1 \in 1..n
             /\ Tells(cmd) => LastTell(q, n, 1)
             /\ ~Tells(cmd) => Untold(q, n)
  <2>1. ASSUME NEW k \in 2..n PROVE ~Tells(q[k])
    <3>1. k - 1 \in 1..(n - 1) /\ q[k] = rest[k - 1]
      BY <1>1
    <3> QED BY <1>5, <3>1 DEF Untold
  <2>2. \A k \in 1..n : k = 1 \/ k \in 2..n
    OBVIOUS
  <2> QED BY <1>2, <2>1, <2>2 DEF LastTell, Untold
<1>6. Tells(cmd) => cmd.kind = "started" \/ cmd.kind = "reported" \/ NamesCook(cmd)
  BY DEF Tells, NamesCook
<1>7. ASSUME Settled(q, n, files, x) PROVE Settled(rest, n - 1, g, x)
  <2>1. ASSUME Untold(rest, n - 1), g.journal # None /\ g.journal.seen
        PROVE  g.journal.cook = x
    <3>1. CASE Tells(cmd)
      <4>1. cmd.kind = "started" \/ cmd.cook = x
        BY <1>2, <1>5, <1>7, <2>1, <3>1 DEF Settled
      <4> QED BY <1>3, <1>6, <2>1, <3>1, <4>1 DEF Leaves
    <3>2. CASE ~Tells(cmd)
      BY <1>3, <1>5, <1>7, <2>1, <3>2 DEF Settled, Leaves
    <3> QED BY <3>1, <3>2
  <2>2. ASSUME NEW i \in 1..(n - 1), LastTell(rest, n - 1, i)
        PROVE  rest[i].kind = "started" \/ rest[i].cook = x
    BY <1>4, <1>7, <2>2 DEF Settled
  <2> QED BY <2>1, <2>2 DEF Settled
<1>8. ASSUME Unseen(q, n, files, x) PROVE Unseen(rest, n - 1, g, x)
  <2>1. ASSUME Untold(rest, n - 1)
        PROVE  g.journal # None /\ g.journal.cook = x /\ ~g.journal.seen
    <3>1. CASE Tells(cmd)
      <4>1. cmd.kind = "started" /\ cmd.cook = x
        BY <1>2, <1>5, <1>8, <2>1, <3>1 DEF Unseen
      <4> QED BY <1>3, <4>1 DEF Leaves
    <3>2. CASE ~Tells(cmd)
      BY <1>3, <1>5, <1>8, <2>1, <3>2 DEF Unseen, Leaves
    <3> QED BY <3>1, <3>2
  <2>2. ASSUME NEW i \in 1..(n - 1), LastTell(rest, n - 1, i)
        PROVE  rest[i].kind = "started" /\ rest[i].cook = x
    BY <1>4, <1>8, <2>2 DEF Unseen
  <2> QED BY <2>1, <2>2 DEF Unseen
<1> QED BY <1>7, <1>8 DEF rest

LEMMA CommandTaken ==
    ASSUME IInv, JInv, Faultless, storeCmd # <<>>, storeCmd' = Tail(storeCmd), sm' = sm,
           Leaves(Head(storeCmd), files')
    PROVE  AwaitsStart' /\ FollowsOven' /\ FetchesFollow'
<1>1. IsSeq(storeCmd) /\ DOMAIN storeCmd = 1..Len(storeCmd) /\ Len(storeCmd) \in Nat
  BY TypedQueue, QueueDomain DEF IInv, Known
<1>2. /\ IsSeq(storeCmd') /\ Len(storeCmd') = Len(storeCmd) - 1 /\ Len(storeCmd) > 0
      /\ \A i \in 1..Len(storeCmd') : storeCmd'[i] = storeCmd[i + 1]
  BY <1>1, TailRange
<1>3. DOMAIN storeCmd' = 1..Len(storeCmd')
  BY <1>2, QueueDomain
<1>4. \A n \in 1..Len(storeCmd) : \A x :
        /\ Settled(storeCmd, n, files, x) => Settled(storeCmd', n - 1, files', x)
        /\ Unseen(storeCmd, n, files, x) => Unseen(storeCmd', n - 1, files', x)
  BY <1>1, TailSettled
<1>5. Len(storeCmd) \in 1..Len(storeCmd)
  BY <1>1, <1>2
<1>6. AwaitsStart'
  BY <1>2, <1>4, <1>5 DEF JInv, AwaitsStart
<1>7. FollowsOven'
  BY <1>2, <1>4, <1>5 DEF JInv, FollowsOven
<1>8. FetchesFollow'
  <2> SUFFICES ASSUME NEW j \in DOMAIN storeCmd', NamesCook(storeCmd'[j])
               PROVE  Settled(storeCmd', j - 1, files', storeCmd'[j].cook)
    BY DEF FetchesFollow
  <2>1. j + 1 \in DOMAIN storeCmd /\ storeCmd'[j] = storeCmd[j + 1] /\ j \in 1..Len(storeCmd)
        /\ (j + 1) - 1 = j
    BY <1>1, <1>2, <1>3
  <2>2. Settled(storeCmd, j, files, storeCmd[j + 1].cook)
    BY <2>1 DEF JInv, FetchesFollow
  <2> QED BY <1>4, <2>1, <2>2
<1> QED BY <1>6, <1>7, <1>8

\* An answer ends with the history, or has none.
LEMMA AnswerEnds ==
    ASSUME NEW cmd \in StoreCommand, NEW f
    PROVE  LET new == Answer(cmd, f)
           IN IF \/ cmd.kind = "history"
                 \/ cmd.kind \in {"reported", "started"} /\ Recorded(f)
                THEN /\ Len(new) > 0 /\ new[Len(new)].kind = "history"
                     /\ new[Len(new)].entries = Recent(f.history)
                ELSE NoHistory(new, 1)
<1> DEFINE new == Answer(cmd, f)
           told == [kind |-> "history", entries |-> Recent(f.history)]
           patched == [kind |-> "patched"]
           fetched == [kind |-> "fetched",
                       cook |-> [cook |-> f.journal.cook, title |-> f.journal.title,
                                 turnOff |-> f.journal.turnOff]]
           ends == /\ Len(new) > 0 /\ new[Len(new)].kind = "history"
                   /\ new[Len(new)].entries = Recent(f.history)
<1>1. told.kind = "history" /\ told.entries = Recent(f.history)
      /\ patched.kind = "patched" /\ fetched.kind = "fetched"
  OBVIOUS
<1>2. Refreshed(f) = <<told>> /\ Fetched(f) = <<fetched>>
  BY DEF Refreshed, Fetched
<1> HIDE DEF told, patched, fetched
<1>3. \A e : Len(<<e>>) = 1 /\ <<e>>[1] = e
  OBVIOUS
<1>4. NoHistory(<<>>, 1)
  BY DEF NoHistory
<1>5. CASE cmd.kind = "history"
  <2>1. new = <<told>>
    BY <1>2, <1>5 DEF Answer
  <2> QED BY <1>1, <1>3, <1>5, <2>1
<1>6. CASE cmd.kind = "reported"
  <2>1. new = IF Recorded(f) THEN <<told>> ELSE <<>>
    BY <1>2, <1>6 DEF Answer
  <2> QED BY <1>1, <1>3, <1>4, <1>6, <2>1
<1>7. CASE cmd.kind = "started"
  <2> DEFINE s == <<patched>>
             t == IF Recorded(f) THEN <<told>> ELSE <<>>
  <2>1. new = s \o t
    BY <1>2, <1>7 DEF Answer, patched
  <2>2. IsSeq(s) /\ IsSeq(t) /\ Len(s) = 1 /\ s[1] = patched
    BY OneQueue, EmptyQueue
  <2>3. t = IF Recorded(f) THEN <<told>> ELSE <<>>
    OBVIOUS
  <2>4. Len(t) = IF Recorded(f) THEN 1 ELSE 0
    BY <2>3
  <2>5. Recorded(f) => t[1] = told
    BY <2>3
  <2> HIDE DEF s, t
  <2> DEFINE w == s \o t
  <2>6. /\ Len(w) = Len(s) + Len(t)
        /\ \A i \in 1..Len(s) : w[i] = s[i]
        /\ \A i \in 1..Len(t) : w[Len(s) + i] = t[i]
    <3>1. IsSeq(s) /\ IsSeq(t)
      BY <2>2
    <3> QED BY <3>1, Grown
  <2> HIDE DEF w, new
  <2>7. new = w
    BY <2>1 DEF w
  <2>8. CASE Recorded(f)
    <3>1. Len(new) = 2 /\ new[2] = told
      BY <2>2, <2>4, <2>5, <2>6, <2>7, <2>8
    <3> QED BY <1>1, <1>7, <2>8, <3>1 DEF new
  <2>9. CASE ~Recorded(f)
    <3>1. Len(new) = 1 /\ new[1] = patched
      BY <2>2, <2>4, <2>6, <2>7, <2>9
    <3>2. NoHistory(new, 1)
      BY <1>1, <3>1 DEF NoHistory
    <3> QED BY <1>7, <2>9, <3>2 DEF new
  <2> QED BY <2>8, <2>9
<1>8. CASE cmd.kind = "fetch"
  <2>1. new = IF cmd.cook = None THEN <<>> ELSE <<fetched>>
    BY <1>2, <1>8 DEF Answer
  <2>2. NoHistory(<<fetched>>, 1)
    BY <1>1, <1>3 DEF NoHistory
  <2> QED BY <1>4, <1>8, <2>1, <2>2
<1>9. CASE cmd.kind = "link"
  BY <1>4, <1>9 DEF Answer
<1> QED BY <1>5, <1>6, <1>7, <1>8, <1>9 DEF StoreCommand

LEMMA StoreStepTraced == ASSUME IInv, JInv, StoreStep PROVE JInv'
<1> DEFINE cmd == Head(storeCmd)
           new == Answer(cmd, files')
<1>1. storeCmd # <<>> /\ storeCmd' = Tail(storeCmd) /\ UNCHANGED <<sm, left, budget>>
  BY DEF StoreStep, HandleCommand, smVars, modelVars
<1>2. PICK found \in BOOLEAN : files' = Last(Trail(cmd, found)) /\ storeEvt' = storeEvt \o new
  <2>1. RecipeFound \subseteq BOOLEAN
    BY LocalStoreAssumption
  <2> QED BY <2>1 DEF StoreStep, HandleCommand
<1>3. cmd \in StoreCommand /\ cmd = storeCmd[1] /\ 1 \in DOMAIN storeCmd
  BY <1>1, HeadGood
<1>4. files \in Files /\ IsSeq(storeEvt) /\ IsSeq(storeCmd)
  BY TypedQueue DEF IInv, OnDisk, Known
<1> HIDE DEF cmd
<1>5. Leaves(cmd, files')
  BY <1>2, <1>3, <1>4, TrailLeaves
<1>6. ASSUME Faultless PROVE AwaitsStart' /\ FollowsOven' /\ FetchesFollow'
  BY <1>1, <1>5, <1>6, CommandTaken DEF cmd
<1>7. ASSUME Faultless PROVE ShowsHistory'
  <2> DEFINE h == Recent(files'.history)
             sends == \/ cmd.kind = "history"
                      \/ cmd.kind \in {"reported", "started"} /\ Recorded(files')
  <2> SUFFICES ASSUME \A j \in DOMAIN storeCmd' : storeCmd'[j].kind # "history"
               PROVE  Shows(storeEvt', sm.history, h)
    BY <1>1 DEF ShowsHistory
  <2>1. IF sends THEN Len(new) > 0 /\ new[Len(new)].kind = "history" /\ new[Len(new)].entries = h
        ELSE NoHistory(new, 1)
    BY <1>3, AnswerEnds
  <2>2. ASSUME ~sends PROVE Shows(storeEvt, sm.history, h)
    <3>1. files'.history = files.history
      <4>1. NamesCook(cmd) => (files.journal # None /\ files.journal.seen => files.journal.cook = cmd.cook)
        <5>1. NamesCook(cmd) => Settled(storeCmd, 1 - 1, files, cmd.cook)
          BY <1>3, <1>7 DEF JInv, FetchesFollow
        <5>2. Untold(storeCmd, 0)
          BY DEF Untold
        <5> QED BY <5>1, <5>2 DEF Settled
      <4>2. cmd.kind \in {"reported", "started"} \/ NamesCook(cmd) \/ ~Tells(cmd)
        BY DEF NamesCook, Tells
      <4> QED BY <1>5, <2>2, <4>1, <4>2 DEF Leaves, Recorded
    <3>2. \A j \in DOMAIN storeCmd : storeCmd[j].kind # "history"
      <4> SUFFICES ASSUME NEW j \in DOMAIN storeCmd PROVE storeCmd[j].kind # "history"
        OBVIOUS
      <4>1. /\ Len(storeCmd) \in Nat /\ DOMAIN storeCmd = 1..Len(storeCmd)
            /\ Len(storeCmd') = Len(storeCmd) - 1 /\ DOMAIN storeCmd' = 1..Len(storeCmd')
            /\ \A i \in 1..Len(storeCmd') : storeCmd'[i] = storeCmd[i + 1]
        BY <1>1, <1>4, TailRange, QueueDomain
      <4>2. CASE j = 1
        BY <1>3, <2>2, <4>2
      <4>3. CASE j # 1
        <5>1. j - 1 \in DOMAIN storeCmd' /\ storeCmd'[j - 1] = storeCmd[j]
          BY <4>1, <4>3
        <5> QED BY <5>1
      <4> QED BY <4>2, <4>3
    <3> QED BY <1>7, <3>1, <3>2 DEF JInv, ShowsHistory
  <2>3. IsSeq(new)
    BY <1>3, AnswerKinds
  <2> HIDE DEF new, h, sends
  <2> QED BY <1>2, <1>4, <2>1, <2>2, <2>3, ShowsMore
<1>8. Bounded' /\ (Faultless' => Faultless) /\ Fields \subseteq DOMAIN sm'
  BY <1>1 DEF JInv, Bounded, Faultless
<1> QED BY <1>6, <1>7, <1>8 DEF JInv

\* After a failed file operation nothing is promised any more.
LEMMA StoreFailsTraced == ASSUME JInv, StoreFails PROVE JInv'
<1>1. Bounded' /\ ~Faultless'
  BY SpendBounded DEF StoreFails, JInv, Kinds
<1>2. Fields \subseteq DOMAIN sm'
  BY DEF StoreFails, smVars, JInv
<1> QED BY <1>1, <1>2 DEF JInv

\* A restart asks for the history.
LEMMA StartupAsks ==
    DOMAIN StartupCommands = 1..1 /\ StartupCommands[1].kind = "history"
<1> DEFINE cmd == [kind |-> "history"]
           s == <<cmd>>
<1>1. cmd.kind = "history" /\ StartupCommands = s
  BY DEF StartupCommands
<1> HIDE DEF cmd
<1>2. Len(s) = 1 /\ DOMAIN s = 1..1 /\ s[1] = cmd
  BY OneQueue, QueueDomain
<1> HIDE DEF s
<1> QED BY <1>1, <1>2

LEMMA CrashTraced == ASSUME JInv, Crash PROVE JInv'
<1>1. sm' = SmInitState /\ storeCmd' = StartupCommands /\ budget' = budget
      /\ left' = [left EXCEPT !.crashes = left.crashes - 1, !.connects = budget.connects]
      /\ left.crashes > 0
  BY DEF Crash
<1>2. left.crashes \in Nat /\ budget.connects \in Nat /\ left \in [Kinds -> Nat]
      /\ budget \in [Kinds -> Nat]
  BY DEF JInv, Bounded, Kinds
<1>a. left.crashes - 1 \in Nat
  BY <1>1, <1>2
<1>b. \A f \in [Kinds -> Nat] : \A m, n \in Nat :
        [f EXCEPT !.crashes = m, !.connects = n] \in [Kinds -> Nat]
  BY DEF Kinds
<1>3. left' \in [Kinds -> Nat]
  BY <1>1, <1>2, <1>a, <1>b
<1>4. \A k \in Kinds : left'[k] <= budget[k]
  <2> TAKE k \in Kinds
  <2>1. left[k] \in Nat /\ budget[k] \in Nat /\ left[k] <= budget[k]
    BY DEF JInv, Bounded
  <2>2. left'[k] = IF k = "connects" THEN budget.connects
                   ELSE IF k = "crashes" THEN left.crashes - 1 ELSE left[k]
    BY <1>1, <1>2
  <2> QED BY <1>2, <2>1, <2>2
<1>5. Bounded'
  BY <1>1, <1>2, <1>3, <1>4 DEF Bounded
<1>6. /\ Fields \subseteq DOMAIN sm' /\ sm'.lifecycle = "Idle"
      /\ sm'.status = None /\ sm'.oven_cook = None
  BY <1>1 DEF SmInitState, Fields
<1>7. (FetchesFollow /\ ShowsHistory)'
  BY <1>1, StartupAsks DEF FetchesFollow, NamesCook, ShowsHistory
<1> QED BY <1>5, <1>6, <1>7 DEF JInv, AwaitsStart, FollowsOven

\* The oven and its link ask nothing of the store.
LEMMA ApartTraced ==
    ASSUME JInv, Apart, Bounded', Faultless' => Faultless PROVE JInv'
  BY DEF Apart, JInv, AwaitsStart, FollowsOven, FetchesFollow, ShowsHistory

LEMMA JournalStep == ASSUME IInv, JInv, [Next]_vars PROVE JInv'
<1>1. ASSUME left' = left, budget' = budget PROVE Bounded' /\ (Faultless' => Faultless)
  BY <1>1 DEF JInv, Bounded, Faultless
<1>2. CASE SmStep
  BY <1>2, SmStepTraced
<1>3. CASE LinkStep
  <2>1. Apart /\ budget' = budget
    BY <1>3 DEF LinkStep, Apart, smVars, storeVars
  <2>2. left' = left \/ Spend("connects")
    BY <1>3 DEF LinkStep
  <2>3. Bounded' /\ (Faultless' => Faultless)
    BY <1>1, <2>1, <2>2, SpendBounded DEF JInv, Kinds
  <2> QED BY <2>1, <2>3, ApartTraced
<1>4. CASE OvenActs
  <2>1. Apart /\ budget' = budget
    BY <1>4 DEF OvenActs, Apart, channels, smVars, storeVars
  <2>2. left' = left \/ Spend("surprises")
    BY <1>4 DEF OvenActs
  <2>3. Bounded' /\ (Faultless' => Faultless)
    BY <1>1, <2>1, <2>2, SpendBounded DEF JInv, Kinds
  <2> QED BY <2>1, <2>3, ApartTraced
<1>5. CASE StoreStep
  BY <1>5, StoreStepTraced
<1>6. CASE StoreFails
  BY <1>6, StoreFailsTraced
<1>7. CASE Crash
  BY <1>7, CrashTraced
<1>8. CASE UNCHANGED vars
  <2>1. Apart /\ budget' = budget /\ left' = left
    BY <1>8 DEF vars, channels, smVars, storeVars, modelVars, Apart
  <2> QED BY <1>1, <2>1, ApartTraced
<1> QED BY <1>2, <1>3, <1>4, <1>5, <1>6, <1>7, <1>8 DEF Next

LEMMA JournalInit == Init => JInv
<1> SUFFICES ASSUME Init PROVE JInv
  OBVIOUS
<1>1. budget \in [Kinds -> Nat] /\ left = budget
  BY LocalServerAssumption DEF Init
<1>2. \A k \in Kinds : budget[k] \in Nat /\ budget[k] <= budget[k]
  BY <1>1
<1>3. Bounded
  BY <1>1, <1>2 DEF Bounded
<1>4. sm = SmInitState /\ storeCmd = StartupCommands
  BY DEF Init, SmInit
<1>5. /\ Fields \subseteq DOMAIN sm /\ sm.lifecycle = "Idle"
      /\ sm.status = None /\ sm.oven_cook = None
  BY <1>4 DEF SmInitState, Fields
<1>6. FetchesFollow /\ ShowsHistory
  BY <1>4, StartupAsks DEF FetchesFollow, NamesCook, ShowsHistory
<1> QED BY <1>3, <1>5, <1>6 DEF JInv, AwaitsStart, FollowsOven

-----------------------------------------------------------------------------

\* What the store is yet to be told, or the journal when there is nothing,
\* agrees with what the state machine shows (reduce_ws_event puts the report
\* ahead of all it leads to, and holds it back while a start is pending).
THEOREM JournalInvariant == Spec => []JInv
<1>1. IInv /\ JInv /\ [Next]_vars => JInv'
  BY JournalStep
<1> QED BY <1>1, Invariant, JournalInit, PTL DEF Spec

\* Once the store has caught up, a journal the oven was seen in is of the
\* cook it last reported, over restarts, starts and what the panel does, for
\* any number of cooks (fetch_current_cook and apply_apo_state).
THEOREM JournalIsTheOvens == Spec => []JournalFollowsOven
<1>1. JInv => JournalFollowsOven
  <2> SUFFICES ASSUME JInv, Faultless, storeCmd = <<>>, sm.status # None,
                      sm.lifecycle # "StartPending", files.journal # None, files.journal.seen
               PROVE  files.journal.cook = sm.oven_cook
    BY DEF JournalFollowsOven
  <2>1. Settled(storeCmd, 0, files, sm.oven_cook)
    BY EmptySeq DEF JInv, FollowsOven
  <2> QED BY <2>1 DEF Settled, Untold
<1> QED BY <1>1, JournalInvariant, PTL

\* Once the store has caught up, the journal holds the start that is pending,
\* whatever the oven reported meanwhile (reduce_ws_event and
\* fetch_current_cook keep the reports from it).
THEOREM JournalIsTheStarts == Spec => []JournalHoldsStart
<1>1. JInv => JournalHoldsStart
  <2> SUFFICES ASSUME JInv, Faultless, storeCmd = <<>>, sm.lifecycle = "StartPending"
               PROVE  files.journal # None /\ files.journal.cook = sm.start
    BY DEF JournalHoldsStart
  <2>1. Unseen(storeCmd, 0, files, sm.start)
    BY EmptySeq DEF JInv, AwaitsStart
  <2> QED BY <2>1 DEF Unseen, Untold
<1> QED BY <1>1, JournalInvariant, PTL

\* Once the store is quiet, clients see the history that is on disk, although
\* a fetch never sends it: a fetch finishes no cook, because the journal is
\* the fetched cook's by then (handle_command's arms in local_store.rs).
THEOREM HistoryIsShown == Spec => []HistoryShown
<1>1. JInv => HistoryShown
  <2> SUFFICES ASSUME JInv, Faultless, storeCmd = <<>>, storeEvt = <<>>
               PROVE  sm.history = Recent(files.history)
    BY DEF HistoryShown, StoreQuiet
  <2>1. Shows(storeEvt, sm.history, Recent(files.history))
    BY EmptySeq DEF JInv, ShowsHistory
  <2> QED BY <2>1 DEF Shows, NoHistory
<1> QED BY <1>1, JournalInvariant, PTL

-----------------------------------------------------------------------------
(***************************************************************************)
(* What the state machine waits for is still on its way, for any clients,  *)
(* ovens, connections and crashes, as long as there are ids left to draw.  *)
(*                                                                         *)
(* A tracked control leaves the trackers with the ack that answers it: no  *)
(* id is tracked twice, nor as a control and a stop at once (Sound).  An   *)
(* "ok" for a pending start confirms it only if the oven is known to cook. *)
(* It is: the ack follows the report it was found in (Heralded), and a     *)
(* report that shows an idle oven ends the start.                          *)
(***************************************************************************)

\* There are ids left to draw, for a stop and for the lamp ahead of it.
EnoughIds == \E a, b \in Requests \ InUse : a # b

\* The trackers of a state of the state machine.
Sound(t) ==
    /\ t \in SmState
    /\ IsInjective(t.controls) /\ t.stop \notin Range(t.controls)
    /\ t.lifecycle = "StopPending" => t.stop # None

HasReport(evts, n) == \E k \in 1..n : evts[k].kind = "state"
Confirms(evt, id) == evt.kind = "ack" /\ evt.id = id /\ evt.ok
\* The acks of a report follow it.
Heralded(evts, toAck, id) ==
    /\ \A i \in DOMAIN evts : Confirms(evts[i], id) => HasReport(evts, i - 1)
    /\ id \in toAck => HasReport(evts, Len(evts))

StartHeralded ==
    sm.lifecycle = "StartPending" /\ ~OvenCooking(sm) => Heralded(wsEvt, acking, sm.start)

\* A start draws an id that no ack can be about yet.
StartsBegun == (InFlight \cup acking) \cap Cooks \subseteq begun

RInv ==
    /\ TypeOK
    /\ Sound(sm)
    /\ sm.watch # None => OvenCooking(sm)
    /\ IsFiniteSet(processed) /\ IsFiniteSet(acking)
    /\ StartsBegun /\ RequestsTracked /\ StartHeralded

-----------------------------------------------------------------------------
(* Ids in queues, and sequences in which no id occurs twice.               *)

LEMMA HeadAndTail ==
    ASSUME NEW s, IsSeq(s), s # <<>> PROVE Range(s) = Range(Tail(s)) \cup {Head(s)}
<1>1. /\ IsSeq(Tail(s)) /\ Range(Tail(s)) \subseteq Range(s) /\ Head(s) \in Range(s)
      /\ Len(Tail(s)) = Len(s) - 1 /\ Len(s) > 0
      /\ \A i \in 1..Len(Tail(s)) : Tail(s)[i] = s[i + 1]
  BY TailRange
<1>2. Len(s) \in Nat /\ DOMAIN s = 1..Len(s) /\ DOMAIN Tail(s) = 1..Len(Tail(s))
  BY <1>1, QueueDomain
<1>3. s[1] = Head(s)
  BY DEF IsSeq
<1> DEFINE t == Tail(s)
<1> HIDE DEF t
<1>4. \A i \in DOMAIN s : i # 1 => i - 1 \in DOMAIN t /\ s[i] = t[i - 1]
  BY <1>1, <1>2 DEF t
<1>5. Range(s) \subseteq Range(t) \cup {Head(s)}
  BY <1>3, <1>4 DEF Range
<1> QED BY <1>1, <1>5 DEF t

LEMMA IdsInRange ==
    ASSUME NEW s
    PROVE  /\ CommandIds(s) = {e.id : e \in Range(s)}
           /\ AckIds(s) = {e.id : e \in {x \in Range(s) : x.kind = "ack"}}
<1>1. CommandIds(s) = {e.id : e \in Range(s)}
  BY DEF CommandIds, Range
<1>2. AckIds(s) = {e.id : e \in {x \in Range(s) : x.kind = "ack"}}
  BY DEF AckIds, Range
<1> QED BY <1>1, <1>2

LEMMA IdsOfConcat ==
    ASSUME NEW s, IsSeq(s), NEW t, IsSeq(t)
    PROVE  /\ CommandIds(s \o t) = CommandIds(s) \cup CommandIds(t)
           /\ AckIds(s \o t) = AckIds(s) \cup AckIds(t)
<1>1. Range(s \o t) = Range(s) \cup Range(t)
  BY ConcatRange
<1> QED BY <1>1, IdsInRange

LEMMA IdsOfAppend ==
    ASSUME NEW s, IsSeq(s), NEW e
    PROVE  /\ CommandIds(Append(s, e)) = CommandIds(s) \cup {e.id}
           /\ AckIds(Append(s, e)) = AckIds(s) \cup (IF e.kind = "ack" THEN {e.id} ELSE {})
<1>1. Range(Append(s, e)) = Range(s) \cup {e}
  BY AppendRange
<1> QED BY <1>1, IdsInRange

LEMMA IdsOfTail ==
    ASSUME NEW s, IsSeq(s), s # <<>>
    PROVE  /\ CommandIds(s) = CommandIds(Tail(s)) \cup {Head(s).id}
           /\ AckIds(s) = AckIds(Tail(s)) \cup (IF Head(s).kind = "ack" THEN {Head(s).id} ELSE {})
<1>1. Range(s) = Range(Tail(s)) \cup {Head(s)}
  BY HeadAndTail
<1> QED BY <1>1, IdsInRange

LEMMA NoIds == CommandIds(<<>>) = {} /\ AckIds(<<>>) = {}
<1>1. Range(<<>>) = {}
  BY EmptyQueue
<1> QED BY <1>1, IdsInRange

LEMMA AppendTracked ==
    ASSUME NEW S, NEW s \in Seq(S), IsInjective(s), NEW id \in S, id \notin Range(s)
    PROVE  /\ Append(s, id) \in Seq(S) /\ IsInjective(Append(s, id))
           /\ Range(Append(s, id)) = Range(s) \cup {id}
<1>1. PICK t : t = Append(s, id)
  OBVIOUS
<1>2. /\ t \in Seq(S) /\ Len(t) = Len(s) + 1 /\ t[Len(s) + 1] = id
      /\ \A i \in 1..Len(s) : t[i] = s[i]
  BY <1>1, AppendProperties
<1>3. Len(s) \in Nat /\ DOMAIN s = 1..Len(s) /\ DOMAIN t = 1..Len(t)
  BY <1>2, LenProperties
<1>4. Range(t) = Range(s) \cup {id}
  BY <1>2, <1>3 DEF Range
<1>5. IsInjective(t)
  BY <1>2, <1>3 DEF IsInjective, Range
<1> QED BY <1>1, <1>2, <1>4, <1>5

LEMMA TailTracked ==
    ASSUME NEW S, NEW s \in Seq(S), IsInjective(s), s # <<>>
    PROVE  /\ Tail(s) \in Seq(S) /\ IsInjective(Tail(s)) /\ Range(Tail(s)) \subseteq Range(s)
<1> DEFINE t == Tail(s)
<1>1. t \in Seq(S) /\ Len(t) = Len(s) - 1 /\ \A i \in 1..Len(t) : t[i] = s[i + 1]
  BY HeadTailProperties
<1>2. Len(s) \in Nat /\ DOMAIN s = 1..Len(s) /\ DOMAIN t = 1..Len(t)
  BY <1>1, LenProperties
<1>3. Range(t) \subseteq Range(s)
  BY TailRange, TypedQueue
<1> HIDE DEF t
<1>4. \A i \in DOMAIN t : i + 1 \in DOMAIN s /\ t[i] = s[i + 1] /\ i \in Nat
  BY <1>1, <1>2
<1>5. IsInjective(t)
  <2> SUFFICES ASSUME NEW a \in DOMAIN t, NEW b \in DOMAIN t, t[a] = t[b] PROVE a = b
    BY DEF IsInjective
  <2>1. a + 1 = b + 1
    BY <1>4 DEF IsInjective
  <2> QED BY <1>4, <2>1
<1> QED BY <1>1, <1>3, <1>5 DEF t

LEMMA RemoveKeeps ==
    ASSUME NEW S, NEW s \in Seq(S), NEW k \in DOMAIN s
    PROVE  /\ RemoveAt(s, k) \in Seq(S) /\ Range(s) = Range(RemoveAt(s, k)) \cup {s[k]}
           /\ IsInjective(s) => /\ IsInjective(RemoveAt(s, k))
                               /\ Range(RemoveAt(s, k)) = Range(s) \ {s[k]}
<1> DEFINE front == SubSeq(s, 1, k - 1)
           back == SubSeq(s, k + 1, Len(s))
           rest == front \o back
           Old(i) == IF i < k THEN i ELSE i + 1
<1> HIDE DEF front, back
<1>1. DOMAIN s = 1..Len(s) /\ Len(s) \in Nat /\ k \in 1..Len(s)
  BY LenProperties
<1>2. front \in Seq(S) /\ Len(front) = k - 1 /\ \A i \in 1..(k - 1) : front[i] = s[i]
  BY <1>1, SubSeqProperties DEF front
<1>3. /\ back \in Seq(S) /\ Len(back) = Len(s) - k
      /\ \A i \in 1..(Len(s) - k) : back[i] = s[k + i]
  BY <1>1, SubSeqProperties DEF back
<1>4. rest \in Seq(S) /\ Len(rest) = Len(front) + Len(back)
      /\ \A i \in 1..(Len(front) + Len(back)) :
            rest[i] = IF i <= Len(front) THEN front[i] ELSE back[i - Len(front)]
  BY <1>2, <1>3, ConcatProperties
<1>6. RemoveAt(s, k) = rest
  BY DEF RemoveAt, front, back
<1> HIDE DEF rest
<1>5. DOMAIN rest = 1..(Len(s) - 1)
  <2>1. DOMAIN rest = 1..Len(rest)
    BY <1>4, LenProperties
  <2> QED BY <1>1, <1>2, <1>3, <1>4, <2>1
<1>7. \A i \in DOMAIN rest : Old(i) \in DOMAIN s /\ Old(i) # k /\ rest[i] = s[Old(i)]
  <2> TAKE i \in DOMAIN rest
  <2>1. CASE i < k
    BY <1>1, <1>2, <1>3, <1>4, <1>5, <2>1
  <2>2. CASE ~(i < k)
    <3> DEFINE j == i - (k - 1)
    <3>1. j \in 1..(Len(s) - k) /\ k + j = i + 1 /\ i \in 1..(Len(front) + Len(back))
          /\ ~(i <= Len(front)) /\ j = i - Len(front)
      BY <1>1, <1>2, <1>3, <1>5, <2>2
    <3>2. rest[i] = back[j] /\ back[j] = s[k + j]
      BY <1>3, <1>4, <3>1
    <3>3. rest[i] = s[i + 1] /\ i + 1 \in 1..Len(s) /\ i + 1 # k
      BY <1>1, <1>5, <2>2, <3>1, <3>2
    <3> QED BY <1>1, <2>2, <3>3
  <2> QED BY <2>1, <2>2
<1>8. \A j \in DOMAIN s : j # k => \E i \in DOMAIN rest : Old(i) = j
  <2> SUFFICES ASSUME NEW j \in DOMAIN s, j # k PROVE \E i \in DOMAIN rest : Old(i) = j
    OBVIOUS
  <2>1. j < k => j \in DOMAIN rest /\ Old(j) = j
    BY <1>1, <1>5
  <2>2. j > k => j - 1 \in DOMAIN rest /\ Old(j - 1) = j
    BY <1>1, <1>5
  <2> QED BY <1>1, <2>1, <2>2
<1>9. \A i, j \in DOMAIN rest : Old(i) = Old(j) => i = j
  BY <1>1, <1>5
<1> HIDE DEF Old
<1>10. IsInjective(s) => IsInjective(rest) /\ Range(rest) = Range(s) \ {s[k]}
  BY <1>7, <1>8, <1>9 DEF IsInjective, Range
<1>11. Range(rest) \subseteq Range(s) /\ Range(s) \subseteq Range(rest) \cup {s[k]}
  BY <1>7, <1>8 DEF Range
<1>12. s[k] \in Range(s)
  BY DEF Range
<1> QED BY <1>4, <1>6, <1>10, <1>11, <1>12

\* The ack of a tracked control removes it, wherever it is.
LEMMA RemoveTracked ==
    ASSUME NEW S, NEW s \in Seq(S), IsInjective(s), NEW id \in Range(s)
    PROVE  /\ RemoveFirst(s, id) \in Seq(S) /\ IsInjective(RemoveFirst(s, id))
           /\ Range(RemoveFirst(s, id)) = Range(s) \ {id}
<1>1. DOMAIN s = 1..Len(s)
  BY LenProperties
<1>2. PICK k \in 1..Len(s) : s[k] = id
  BY <1>1 DEF Range
<1> DEFINE I == {i \in 1..Len(s) : s[i] = id}
<1>3. I = {k}
  BY <1>1, <1>2 DEF IsInjective
<1> HIDE DEF I
<1>4. Min(I) = k
  BY <1>2, <1>3 DEF Min
<1>5. RemoveFirst(s, id) = RemoveAt(s, IF I # {} THEN Min(I) ELSE 0)
  BY <1>2 DEF RemoveFirst, SelectInSeq, I
<1>6. RemoveFirst(s, id) = RemoveAt(s, k)
  BY <1>3, <1>4, <1>5
<1> QED BY <1>1, <1>2, <1>6, RemoveKeeps

-----------------------------------------------------------------------------
(* States and reductions, with some fields set.                            *)

LEMMA SmFields ==
    ASSUME NEW s \in SmState
    PROVE  /\ \A v \in CookOrNone, l \in {"Idle", "StartPending", "Cooking", "StopPending"} :
                [s EXCEPT !.start = v, !.lifecycle = l] \in SmState
           /\ \A v \in Requests \cup {None}, l \in {"Idle", "Cooking", "StopPending"} :
                [s EXCEPT !.stop = v, !.lifecycle = l] \in SmState
           /\ [s EXCEPT !.stop = None, !.current_cook = None, !.lifecycle = "Idle"] \in SmState
           /\ \A v \in Seq(Requests) : [s EXCEPT !.controls = v] \in SmState
           /\ \A v \in Status : [s EXCEPT !.status = v] \in SmState
           /\ \A v \in CookOrNone, w \in PreheatWatch \cup {None} :
                [s EXCEPT !.oven_cook = v, !.watch = w] \in SmState
           /\ \A v \in CurrentCook \cup {None} : [s EXCEPT !.current_cook = v] \in SmState
           /\ \A v \in Seq(HistoryEntry) : [s EXCEPT !.history = v] \in SmState
           /\ \A v \in {"disconnected", "connected", "discovered"} :
                [s EXCEPT !.connectivity = v] \in SmState
           /\ [s EXCEPT !.turned_off = s.oven_cook] \in SmState
<1>1. None \in CookOrNone
  BY DEF CookOrNone
<1> QED BY <1>1 DEF SmState

LEMMA InReduction ==
    ASSUME NEW r \in Reduction
    PROVE  /\ r.sm \in SmState /\ r.ws \in Seq(WsCommand) /\ r.store \in Seq(StoreCommand)
           /\ r.failed \in SUBSET Ids
           /\ \A t \in SmState :
                LET q == [r EXCEPT !.sm = t]
                IN q \in Reduction /\ q.sm = t /\ q.ws = r.ws /\ q.store = r.store
  BY DEF Reduction

LEMMA SmSet ==
    ASSUME NEW r \in Reduction
    PROVE  /\ \A v, l : [r EXCEPT !.sm.start = v, !.sm.lifecycle = l]
                          = [r EXCEPT !.sm = [r.sm EXCEPT !.start = v, !.lifecycle = l]]
           /\ \A v, l : [r EXCEPT !.sm.stop = v, !.sm.lifecycle = l]
                          = [r EXCEPT !.sm = [r.sm EXCEPT !.stop = v, !.lifecycle = l]]
           /\ \A v, w : [r EXCEPT !.sm.oven_cook = v, !.sm.watch = w]
                          = [r EXCEPT !.sm = [r.sm EXCEPT !.oven_cook = v, !.watch = w]]
           /\ \A v, w, l : [r EXCEPT !.sm.stop = v, !.sm.current_cook = w, !.sm.lifecycle = l]
                = [r EXCEPT !.sm = [r.sm EXCEPT !.stop = v, !.current_cook = w, !.lifecycle = l]]
  BY DEF Reduction, SmState

-----------------------------------------------------------------------------
(* Reductions of a state t: a control that they track was tracked before,  *)
(* or is one that they send.  N are ids they have not drawn yet.           *)

Tracked(r, t, N) ==
    /\ r \in Reduction /\ Sound(r.sm)
    /\ r.sm.watch = t.watch /\ r.sm.status = t.status
    /\ Range(r.sm.controls) \subseteq Range(t.controls) \cup CommandIds(r.ws)
    /\ N \subseteq Requests /\ N \cap (Range(r.sm.controls) \cup {r.sm.stop}) = {}

LEMMA OnTracked ==
    ASSUME NEW s, Sound(s), NEW t, s.watch = t.watch, s.status = t.status,
           Range(s.controls) \subseteq Range(t.controls),
           NEW N, N \subseteq Requests, N \cap (Range(s.controls) \cup {s.stop}) = {}
    PROVE  Tracked(On(s), t, N)
<1>1. /\ On(s).sm = s /\ On(s).ws = <<>> /\ On(s).store = <<>> /\ On(s).failed = {}
      /\ On(s) \in Reduction
  <2>1. <<>> \in Seq(WsCommand) /\ <<>> \in Seq(StoreCommand)
    BY EmptySeq
  <2>2. s \in SmState
    BY DEF Sound
  <2> HIDE DEF SmState
  <2> QED BY <2>1, <2>2 DEF On, Reduction
<1> HIDE DEF On
<1> QED BY <1>1 DEF Tracked

\* The same reduction with another state, in which no more is tracked.
Frees(q, r) ==
    /\ q \in SmState
    /\ q.controls = r.controls /\ q.watch = r.watch /\ q.status = r.status
    /\ q.stop \in {r.stop, None}
    /\ q.lifecycle = "StopPending" => r.lifecycle = "StopPending" /\ q.stop = r.stop

LEMMA FreesTracked ==
    ASSUME NEW r, NEW t, NEW N, Tracked(r, t, N), NEW s, Frees(s, r.sm)
    PROVE  Tracked([r EXCEPT !.sm = s], t, N)
<1> DEFINE q == [r EXCEPT !.sm = s]
<1>1. r \in Reduction /\ s \in SmState
  BY DEF Tracked, Frees
<1>2. q \in Reduction /\ q.sm = s /\ q.ws = r.ws
  BY <1>1, InReduction
<1> HIDE DEF q
<1>3. r.sm.controls \in Seq(Requests)
  BY <1>1 DEF Reduction, SmState
<1>4. Range(r.sm.controls) \subseteq Requests
  BY <1>3, LenProperties DEF Range
<1>5. None \notin Requests
  BY MessagesAssumption
<1>6. Sound(s)
  BY <1>1, <1>4, <1>5 DEF Sound, Frees, Tracked
<1>7. N \cap (Range(s.controls) \cup {s.stop}) = {}
  BY <1>5 DEF Frees, Tracked
<1> QED BY <1>2, <1>6, <1>7 DEF Tracked, Frees, q

LEMMA SendTracked ==
    ASSUME NEW r, NEW t, NEW N, Tracked(r, t, N), NEW cmd \in WsCommand
    PROVE  Tracked(Send(r, cmd), t, N)
<1> DEFINE q == Send(r, cmd)
<1>1. r \in Reduction /\ r.ws \in Seq(WsCommand)
  BY InReduction DEF Tracked
<1>2. Append(r.ws, cmd) \in Seq(WsCommand)
  BY <1>1, AppendProperties
<1>3. q \in Reduction /\ q.sm = r.sm /\ q.ws = Append(r.ws, cmd)
  BY <1>1, <1>2 DEF Send, Reduction
<1> HIDE DEF q
<1>4. CommandIds(q.ws) = CommandIds(r.ws) \cup {cmd.id}
  BY <1>1, <1>3, TypedQueue, IdsOfAppend
<1> QED BY <1>3, <1>4 DEF Tracked, q

LEMMA AskTracked ==
    ASSUME NEW r, NEW t, NEW N, Tracked(r, t, N), NEW cmd \in StoreCommand
    PROVE  Tracked(Ask(r, cmd), t, N)
<1> DEFINE q == Ask(r, cmd)
<1>1. r \in Reduction /\ r.store \in Seq(StoreCommand)
  BY InReduction DEF Tracked
<1>2. Append(r.store, cmd) \in Seq(StoreCommand)
  BY <1>1, AppendProperties
<1>3. q \in Reduction /\ q.sm = r.sm /\ q.ws = r.ws
  BY <1>1, <1>2 DEF Ask, Reduction
<1> HIDE DEF q
<1> QED BY <1>3 DEF Tracked, q

LEMMA FetchTracked ==
    ASSUME NEW r, NEW t, NEW N, Tracked(r, t, N) PROVE Tracked(FetchCurrentCook(r), t, N)
<1> DEFINE cook == IF r.sm.lifecycle = "StartPending" THEN None ELSE r.sm.oven_cook
           cmd == [kind |-> "fetch", cook |-> cook]
<1>1. cook \in CookOrNone
  BY InReduction DEF Tracked, SmState, CookOrNone
<1>2. cmd \in StoreCommand
  BY <1>1 DEF StoreCommand
<1> QED BY <1>2, AskTracked DEF FetchCurrentCook

LEMMA HistoryTracked ==
    ASSUME NEW r, NEW t, NEW N, Tracked(r, t, N) PROVE Tracked(RefreshHistory(r), t, N)
<1>1. [kind |-> "history"] \in StoreCommand
  BY DEF StoreCommand
<1> QED BY <1>1, AskTracked DEF RefreshHistory

\* Only the oldest control is ever given up.
LEMMA NewestTracked ==
    ASSUME NEW s \in Seq(Requests), IsInjective(s), NEW id \in Requests, id \notin Range(s)
    PROVE  LET new == Newest(Append(s, id))
           IN /\ new \in Seq(Requests) /\ IsInjective(new)
              /\ Range(new) \subseteq Range(s) \cup {id}
<1> DEFINE a == Append(s, id)
<1>1. a \in Seq(Requests) /\ IsInjective(a) /\ Range(a) = Range(s) \cup {id}
  BY AppendTracked
<1>2. a # <<>>
  BY AppendProperties, EmptySeq
<1> HIDE DEF a
<1>3. Tail(a) \in Seq(Requests) /\ IsInjective(Tail(a)) /\ Range(Tail(a)) \subseteq Range(a)
  BY <1>1, <1>2, TailTracked
<1> QED BY <1>1, <1>3 DEF Newest, a

LEMMA ControlTracked ==
    ASSUME NEW r, NEW t, NEW N, Tracked(r, t, N), NEW cmd \in WsCommand, cmd.id \in N
    PROVE  Tracked(SendControl(r, cmd), t, N \ {cmd.id})
<1> DEFINE new == Newest(Append(r.sm.controls, cmd.id))
           s == [r.sm EXCEPT !.controls = new]
           q == [r EXCEPT !.sm = s]
           p == Send(q, cmd)
<1>1. r \in Reduction /\ r.sm \in SmState /\ r.sm.controls \in Seq(Requests) /\ cmd.id \in Requests
      /\ r.ws \in Seq(WsCommand)
  BY InReduction DEF Tracked, SmState
<1>2. cmd.id \notin Range(r.sm.controls) /\ cmd.id # r.sm.stop
  BY DEF Tracked
<1>3. new \in Seq(Requests) /\ IsInjective(new) /\ Range(new) \subseteq Range(r.sm.controls) \cup {cmd.id}
  BY <1>1, <1>2, NewestTracked DEF Tracked, Sound
<1> HIDE DEF new
<1>4. /\ s \in SmState /\ s.controls = new /\ s.stop = r.sm.stop /\ s.lifecycle = r.sm.lifecycle
      /\ s.watch = r.sm.watch /\ s.status = r.sm.status
  BY <1>1, <1>3 DEF SmState
<1> HIDE DEF s
<1>5. q \in Reduction /\ q.sm = s /\ q.ws = r.ws
  BY <1>1, <1>4, InReduction
<1> HIDE DEF q
<1>6. Append(q.ws, cmd) \in Seq(WsCommand) /\ CommandIds(Append(q.ws, cmd)) = CommandIds(r.ws) \cup {cmd.id}
  BY <1>1, <1>5, AppendProperties, TypedQueue, IdsOfAppend
<1>7. p \in Reduction /\ p.sm = s /\ p.ws = Append(q.ws, cmd)
  BY <1>5, <1>6 DEF Send, Reduction
<1> HIDE DEF p
<1>8. Sound(s)
  BY <1>2, <1>3, <1>4 DEF Sound, Tracked
<1>9. Tracked(p, t, N \ {cmd.id})
  BY <1>3, <1>4, <1>6, <1>7, <1>8 DEF Tracked
<1>10. SendControl(r, cmd) = p
  BY DEF SendControl, p, q, s, new
<1> QED BY <1>9, <1>10

LEMMA StopTracked ==
    ASSUME NEW r, NEW t, NEW N, Tracked(r, t, N), NEW lampId, NEW stopId \in N,
           Local /\ LampIsOn(r.sm) => lampId \in N \ {stopId}
    PROVE  Tracked(Stop(r, lampId, stopId), t, {})
<1> DEFINE off == Command("lampOff", lampId)
           stop == Command("stop", stopId)
           dark == IF Local /\ LampIsOn(r.sm) THEN SendControl(r, off) ELSE r
           s == [dark.sm EXCEPT !.stop = stopId, !.lifecycle = "StopPending"]
           q == [dark EXCEPT !.sm = s]
<1>1. N \subseteq Requests
  BY DEF Tracked
<1>2. stop \in WsCommand /\ (lampId \in N => off \in WsCommand /\ off.id = lampId)
  BY <1>1 DEF Command, WsCommand
<1> HIDE DEF off, stop
<1>4. PICK M : Tracked(dark, t, M) /\ stopId \in M
  <2>1. CASE Local /\ LampIsOn(r.sm)
    <3>1. dark = SendControl(r, off) /\ off \in WsCommand /\ off.id \in N
      BY <1>2, <2>1
    <3>2. Tracked(dark, t, N \ {off.id})
      BY <3>1, ControlTracked
    <3>3. stopId \in N \ {off.id}
      BY <1>2, <2>1
    <3> QED BY <3>2, <3>3
  <2>2. CASE ~(Local /\ LampIsOn(r.sm))
    <3>1. dark = r
      BY <2>2
    <3> QED BY <3>1
  <2> QED BY <2>1, <2>2
<1> HIDE DEF dark
<1>5. dark \in Reduction /\ dark.sm \in SmState /\ stopId \in Requests
  BY <1>1, <1>4, InReduction DEF Tracked
<1>6. /\ s \in SmState /\ s.stop = stopId /\ s.controls = dark.sm.controls
      /\ s.watch = dark.sm.watch /\ s.status = dark.sm.status
  BY <1>5 DEF SmState
<1>7. stopId # None /\ stopId \notin Range(dark.sm.controls)
  BY <1>1, <1>4, MessagesAssumption DEF Tracked
<1> HIDE DEF s
<1>8. q \in Reduction /\ q.sm = s /\ q.ws = dark.ws
  BY <1>5, <1>6, InReduction
<1> HIDE DEF q
<1>9. Sound(s)
  BY <1>4, <1>6, <1>7 DEF Sound, Tracked
<1>10. Tracked(q, t, {})
  BY <1>4, <1>6, <1>8, <1>9 DEF Tracked
<1>11. q = [dark EXCEPT !.sm.stop = stopId, !.sm.lifecycle = "StopPending"]
  BY <1>5, SmSet DEF q, s
<1>12. Tracked(Send(q, stop), t, {})
  BY <1>2, <1>10, SendTracked
<1> QED BY <1>11, <1>12 DEF Stop, dark, off, stop

LEMMA IdleToCookingTracked ==
    ASSUME NEW r, NEW t, NEW N, Tracked(r, t, N), NEW status, NEW lampId,
           ~status.lamp => lampId \in N
    PROVE  \E M : /\ Tracked(IdleToCooking(r, status, lampId), t, M)
                  /\ N \ {lampId} \subseteq M /\ (status.lamp => M = N)
<1> DEFINE s == [r.sm EXCEPT !.start = None, !.lifecycle = "Cooking"]
           cooking == [r EXCEPT !.sm = s]
           on == Command("lampOn", lampId)
           lit == IF Local /\ r.sm.status # None /\ ~status.lamp
                    THEN SendControl(cooking, on) ELSE cooking
           M == IF status.lamp THEN N ELSE N \ {lampId}
<1>1. r \in Reduction /\ r.sm \in SmState
  BY InReduction DEF Tracked
<1>2. Frees(s, r.sm)
  BY <1>1 DEF Frees, SmState, CookOrNone
<1>3. Tracked(cooking, t, N)
  BY <1>2, FreesTracked
<1>4. cooking = [r EXCEPT !.sm.start = None, !.sm.lifecycle = "Cooking"]
  BY <1>1, SmSet
<1> HIDE DEF s, cooking
<1>5. lampId \in N => on \in WsCommand /\ on.id = lampId
  BY <1>3 DEF Command, WsCommand, Tracked
<1>6. Tracked(cooking, t, M)
  BY <1>3 DEF Tracked
<1> HIDE DEF on
<1>7. Tracked(lit, t, M)
  BY <1>3, <1>5, <1>6, ControlTracked
<1> HIDE DEF lit
<1>8. Tracked(RefreshHistory(FetchCurrentCook(lit)), t, M)
  BY <1>7, FetchTracked, HistoryTracked
<1>9. IdleToCooking(r, status, lampId) = RefreshHistory(FetchCurrentCook(lit))
  BY <1>4 DEF IdleToCooking, lit, on
<1> QED BY <1>8, <1>9

LEMMA CookingToIdleTracked ==
    ASSUME NEW r, NEW t, NEW N, Tracked(r, t, N) PROVE Tracked(CookingToIdle(r), t, N)
<1> DEFINE asked == RefreshHistory(r)
           s == [asked.sm EXCEPT !.stop = None, !.current_cook = None, !.lifecycle = "Idle"]
<1>1. Tracked(asked, t, N)
  BY HistoryTracked
<1> HIDE DEF asked
<1>2. asked \in Reduction /\ asked.sm \in SmState
  BY <1>1, InReduction DEF Tracked
<1>3. Frees(s, asked.sm)
  BY <1>2 DEF Frees, SmState
<1>4. Tracked([asked EXCEPT !.sm = s], t, N)
  BY <1>1, <1>3, FreesTracked
<1>5. [asked EXCEPT !.sm = s]
        = [asked EXCEPT !.sm.stop = None, !.sm.current_cook = None, !.sm.lifecycle = "Idle"]
  BY <1>2, SmSet
<1> QED BY <1>4, <1>5 DEF CookingToIdle, asked

\* The lamp takes an id only at the start of a cook, and only if it is off.
LEMMA EdgeTracked ==
    ASSUME NEW r, NEW t, NEW N, Tracked(r, t, N), NEW status, NEW lampId,
           ~status.lamp => lampId \in N \/ OvenCooking(r.sm)
    PROVE  \E M : /\ Tracked(Edge(r, status, lampId), t, M)
                  /\ N \ {lampId} \subseteq M
                  /\ status.lamp \/ OvenCooking(r.sm) => M = N
<1>1. CASE IsCooking(status) /\ ~OvenCooking(r.sm)
  <2>1. Edge(r, status, lampId) = IdleToCooking(r, status, lampId)
    BY <1>1 DEF Edge
  <2> QED BY <1>1, <2>1, IdleToCookingTracked
<1>2. CASE ~(IsCooking(status) /\ ~OvenCooking(r.sm))
  <2>1. Edge(r, status, lampId) \in {r, FetchCurrentCook(r), CookingToIdle(r)}
    BY <1>2 DEF Edge
  <2>2. Tracked(Edge(r, status, lampId), t, N)
    BY <2>1, FetchTracked, CookingToIdleTracked
  <2> QED BY <2>2
<1> QED BY <1>1, <1>2

LEMMA SettleTracked ==
    ASSUME NEW r, NEW t, NEW N, Tracked(r, t, N), NEW status
    PROVE  Tracked(DropStaleCook(RollBackStart(r, status), status), t, N)
<1> DEFINE p == RollBackStart(r, status)
<1>1. Tracked(p, t, N)
  <2> DEFINE s == [r.sm EXCEPT !.start = None, !.lifecycle = "Idle"]
  <2>1. r \in Reduction /\ r.sm \in SmState
    BY InReduction DEF Tracked
  <2>2. Frees(s, r.sm)
    BY <2>1 DEF Frees, SmState, CookOrNone
  <2>3. Tracked([r EXCEPT !.sm = s], t, N)
    BY <2>2, FreesTracked
  <2>4. p \in {r, [r EXCEPT !.sm = s]}
    BY <2>1, SmSet DEF RollBackStart
  <2> QED BY <2>3, <2>4
<1> HIDE DEF p
<1> DEFINE s == [p.sm EXCEPT !.current_cook = None]
<1>2. p \in Reduction /\ p.sm \in SmState
  BY <1>1, InReduction DEF Tracked
<1>3. Frees(s, p.sm)
  BY <1>2 DEF Frees, SmState
<1>4. Tracked([p EXCEPT !.sm = s], t, N)
  BY <1>1, <1>3, FreesTracked
<1>5. DropStaleCook(p, status) \in {p, [p EXCEPT !.sm = s]}
  BY DEF DropStaleCook
<1> QED BY <1>1, <1>4, <1>5 DEF p

\* Turning the oven off takes an id for the stop, and one if the lamp is on.
LEMMA TurnOffTracked ==
    ASSUME NEW r, NEW t, NEW N, Tracked(r, t, N), NEW lampId, NEW stopId,
           TurnOffIsDue(r.sm) => stopId \in N /\ (LampIsOn(r.sm) => lampId \in N \ {stopId})
    PROVE  Tracked(TurnOffWhenDone(r, lampId, stopId), t, {})
<1> DEFINE s == [r.sm EXCEPT !.turned_off = r.sm.oven_cook]
           once == [r EXCEPT !.sm = s]
<1>1. r \in Reduction /\ r.sm \in SmState
  BY InReduction DEF Tracked
<1>2. Frees(s, r.sm) /\ s.status = r.sm.status
  BY <1>1 DEF Frees, SmState
<1>3. Tracked(once, t, N) /\ once.sm = s
  BY <1>1, <1>2, FreesTracked, InReduction DEF Frees
<1>4. LampIsOn(s) <=> LampIsOn(r.sm)
  BY <1>2 DEF LampIsOn
<1>5. once = [r EXCEPT !.sm.turned_off = r.sm.oven_cook]
  OBVIOUS
<1> HIDE DEF once, s
<1>6. Tracked(r, t, {}) /\ Tracked(once, t, {})
  BY <1>3 DEF Tracked
<1>7. TurnOffWhenDone(r, lampId, stopId) =
        IF TurnOffIsDue(r.sm) THEN IF CanStop(once.sm) THEN Stop(once, lampId, stopId) ELSE once ELSE r
  BY <1>5 DEF TurnOffWhenDone
<1>8. TurnOffIsDue(r.sm) => Tracked(Stop(once, lampId, stopId), t, {})
  BY <1>3, <1>4, StopTracked
<1> QED BY <1>6, <1>7, <1>8

-----------------------------------------------------------------------------
(* A report.                                                               *)

\* The watch is on a preheat of the report's; the server starts the next
\* stage of one that an earlier report was near.
LEMMA WatchTypes ==
    ASSUME NEW s \in SmState, NEW status \in Status, NEW x \in CookOrNone, NEW over \in BOOLEAN
    PROVE  LET w == Watch(s, status, x, over)
           IN /\ w \in PreheatWatch \cup {None}
              /\ w # None => Preheating(status, x) /\ status.stage < LastStage
              /\ StartsNextStage(s, w, status, x) => s.watch # None
<1> DEFINE new == [recipe |-> RecipeOf(x), near |-> FALSE, reached |-> FALSE]
           w == WatchFor(s, x)
           ended == [w EXCEPT !.reached = TRUE]
           near == [w EXCEPT !.near = status.near, !.reached = w.near /\ status.near /\ over]
<1>1. s.watch \in PreheatWatch \cup {None} /\ status.near \in BOOLEAN /\ status.ended \in BOOLEAN
  BY DEF SmState, Status
<1>2. RecipeOf(x) \in CookOrNone
  BY DEF RecipeOf, CookOrNone
<1>3. new \in PreheatWatch /\ ~new.near
  BY <1>2 DEF PreheatWatch
<1>4. w = new \/ (s.watch # None /\ w = s.watch)
  BY DEF WatchFor
<1> HIDE DEF new, w
<1>5. w \in PreheatWatch /\ (w.near => s.watch # None)
  BY <1>1, <1>3, <1>4
<1>6. w.near \in BOOLEAN /\ w.reached \in BOOLEAN
  BY <1>5 DEF PreheatWatch
<1>7. (w.near /\ status.near /\ over) \in BOOLEAN
  OBVIOUS
<1>8. ended \in PreheatWatch /\ near \in PreheatWatch /\ (near.reached => w.near)
  BY <1>1, <1>5, <1>7 DEF PreheatWatch
<1> HIDE DEF ended, near
<1>9. Watch(s, status, x, over) =
        IF ~Preheating(status, x) THEN None
        ELSE IF status.ended THEN ended ELSE IF w.reached THEN w ELSE near
  BY DEF Watch, w, ended, near
<1>10. Preheating(status, x) => status.stage < LastStage
  BY MessagesAssumption DEF Preheating
<1>11. StartsNextStage(s, Watch(s, status, x, over), status, x) =>
         Watch(s, status, x, over) = near /\ near.reached
  BY <1>9 DEF StartsNextStage, w
<1> QED BY <1>5, <1>8, <1>9, <1>10, <1>11

LEMMA ShownTypes ==
    ASSUME NEW s, NEW w, NEW status \in Status, NEW x
    PROVE  LET shown == ShownStatus(s, w, status, x)
           IN shown \in Status /\ shown.stage = status.stage /\ shown.lamp = status.lamp
<1>1. [status EXCEPT !.ended = TRUE] \in Status
      /\ [status EXCEPT !.ended = TRUE].stage = status.stage
      /\ [status EXCEPT !.ended = TRUE].lamp = status.lamp
  BY DEF Status
<1> QED BY <1>1 DEF ShownStatus

LEMMA StopPends ==
    ASSUME NEW r \in Reduction, NEW lampId, NEW stopId
    PROVE  Stop(r, lampId, stopId).sm.lifecycle = "StopPending"
<1> DEFINE cmd == Command("lampOff", lampId)
           dark == IF Local /\ LampIsOn(r.sm) THEN SendControl(r, cmd) ELSE r
           q == [dark EXCEPT !.sm.stop = stopId, !.sm.lifecycle = "StopPending"]
<1> HIDE DEF cmd
<1>1. /\ {"sm", "ws"} \subseteq DOMAIN dark
      /\ "lifecycle" \in DOMAIN dark.sm
  <2>1. {"sm", "ws"} \subseteq DOMAIN r /\ "lifecycle" \in DOMAIN r.sm
    BY DEF Reduction, SmState
  <2>2. {"sm", "ws"} \subseteq DOMAIN SendControl(r, cmd)
        /\ "lifecycle" \in DOMAIN SendControl(r, cmd).sm
    BY <2>1 DEF SendControl, Send
  <2> QED BY <2>1, <2>2
<1> HIDE DEF dark
<1>2. q.sm.lifecycle = "StopPending" /\ {"sm", "ws"} \subseteq DOMAIN q
  BY <1>1
<1> HIDE DEF q
<1>3. Send(q, Command("stop", stopId)).sm = q.sm
  BY <1>2 DEF Send
<1> QED BY <1>2, <1>3 DEF Stop, q, dark, cmd

LEMMA TurnOffEnds ==
    ASSUME NEW r \in Reduction, NEW lampId, NEW stopId,
           TurnOffWhenDone(r, lampId, stopId).sm.lifecycle = "StartPending"
    PROVE  r.sm.lifecycle = "StartPending"
<1> DEFINE once == [r EXCEPT !.sm.turned_off = r.sm.oven_cook]
<1>1. once = [r EXCEPT !.sm = [r.sm EXCEPT !.turned_off = r.sm.oven_cook]]
  OBVIOUS
<1>2. once \in Reduction /\ once.sm.lifecycle = r.sm.lifecycle
  <2>1. r.sm \in SmState
    BY InReduction
  <2>2. [r.sm EXCEPT !.turned_off = r.sm.oven_cook] \in SmState
        /\ [r.sm EXCEPT !.turned_off = r.sm.oven_cook].lifecycle = r.sm.lifecycle
    BY <2>1 DEF SmState
  <2> QED BY <1>1, <2>2, InReduction
<1> HIDE DEF once
<1>3. Stop(once, lampId, stopId).sm.lifecycle = "StopPending"
  BY <1>2, StopPends
<1>4. TurnOffWhenDone(r, lampId, stopId) \in {r, once, Stop(once, lampId, stopId)}
  BY DEF TurnOffWhenDone, once
<1> QED BY <1>2, <1>3, <1>4

\* A start still pends only if the oven cooks.
LEMMA SettleCooks ==
    ASSUME NEW r \in Reduction, NEW status,
           DropStaleCook(RollBackStart(r, status), status).sm.lifecycle = "StartPending"
    PROVE  IsCooking(status)
<1> DEFINE p == RollBackStart(r, status)
<1>1. "sm" \in DOMAIN p /\ "lifecycle" \in DOMAIN p.sm
      /\ (p.sm.lifecycle = "StartPending" => IsCooking(status))
  BY DEF RollBackStart, Reduction, SmState
<1> HIDE DEF p
<1>2. DropStaleCook(p, status).sm.lifecycle = p.sm.lifecycle
  BY <1>1 DEF DropStaleCook
<1> QED BY <1>1, <1>2 DEF p

\* A report draws one id for a control, if any, and one for a stop: a preheat
\* whose next stage it starts is neither an edge nor a cook's end, and the
\* lamp of a cook that begins is either to be lit or, at its end, to go off.
LEMMA ReportTracked ==
    ASSUME NEW s, Sound(s), s.watch # None => OvenCooking(s), NEW x \in CookOrNone,
           NEW status \in Status, NEW over \in BOOLEAN, NEW a \in Requests, NEW b \in Requests,
           a # b, {a, b} \cap (Range(s.controls) \cup {s.stop}) = {}
    PROVE  LET r == ReduceReport(s, status, x, over, a, a, b)
           IN /\ \E t : /\ Tracked(r, t, {}) /\ t.controls = s.controls
                        /\ t.status \in Status /\ t.status.stage = status.stage
                        /\ t.watch # None => IsCooking(status)
                        /\ t.watch = Watch(s, status, x, over)
                        /\ t.status = ShownStatus(s, t.watch, status, x)
              /\ r.sm.lifecycle = "StartPending" => IsCooking(status)
<1> DEFINE w == Watch(s, status, x, over)
           told == ReportToStore(s, x)
           t == [s EXCEPT !.oven_cook = x, !.watch = w]
           reported == [told EXCEPT !.sm = t]
           shown == ShownStatus(s, w, status, x)
           next == NextStage(x, 2, a)
           starts == StartsNextStage(s, w, status, x)
           settled == IF starts THEN SendControl(reported, next) ELSE reported
           edged == Edge(settled, shown, a)
           dropped == DropStaleCook(RollBackStart(edged, shown), shown)
           u == [t EXCEPT !.status = shown]
           lit == [dropped.sm EXCEPT !.status = shown]
           timed == [dropped EXCEPT !.sm = lit]
<1>1. s \in SmState
  BY DEF Sound
<1>2. /\ w \in PreheatWatch \cup {None} /\ (w # None => Preheating(status, x) /\ status.stage < LastStage)
      /\ (starts => s.watch # None /\ w # None)
  BY <1>1, WatchTypes DEF StartsNextStage
<1>3. shown \in Status /\ shown.stage = status.stage /\ shown.lamp = status.lamp
  BY ShownTypes
<1> HIDE DEF w, starts
<1> HIDE DEF shown
<1>4. /\ t \in SmState /\ t.controls = s.controls /\ t.stop = s.stop /\ t.lifecycle = s.lifecycle
      /\ t.watch = w /\ t.status = s.status
  BY <1>1, <1>2 DEF SmState
<1> HIDE DEF t
<1>5. Sound(t)
  BY <1>4 DEF Sound
<1>6. told \in Reduction /\ told.sm = s /\ told.ws = <<>>
  <2> DEFINE none == On(s)
             cmd == [kind |-> "reported", cook |-> x]
  <2>1. none \in Reduction /\ none.sm = s /\ none.ws = <<>> /\ none.store = <<>>
    <3>1. <<>> \in Seq(WsCommand) /\ <<>> \in Seq(StoreCommand)
      BY EmptySeq
    <3> QED BY <1>1, <3>1 DEF On, Reduction
  <2>2. cmd \in StoreCommand
    BY DEF StoreCommand
  <2> HIDE DEF none, cmd
  <2>3. Append(none.store, cmd) \in Seq(StoreCommand)
    BY <2>1, <2>2, InReduction, AppendProperties
  <2>4. Ask(none, cmd) \in Reduction /\ Ask(none, cmd).sm = s /\ Ask(none, cmd).ws = <<>>
    BY <2>1, <2>3 DEF Ask, Reduction
  <2>5. told \in {none, Ask(none, cmd)}
    BY DEF ReportToStore, none, cmd
  <2> QED BY <2>1, <2>4, <2>5
<1>7. reported = [told EXCEPT !.sm.oven_cook = x, !.sm.watch = w]
  <2>1. [told EXCEPT !.sm.oven_cook = x, !.sm.watch = w]
          = [told EXCEPT !.sm = [told.sm EXCEPT !.oven_cook = x, !.watch = w]]
    BY <1>6, SmSet
  <2> QED BY <1>6, <2>1 DEF t
<1> HIDE DEF told
<1>8. Tracked(reported, t, {a, b})
  <2>1. reported \in Reduction /\ reported.sm = t /\ reported.ws = <<>>
    BY <1>4, <1>6, InReduction
  <2> HIDE DEF reported
  <2> QED BY <1>4, <1>5, <2>1 DEF Tracked
<1> HIDE DEF reported
<1>9. OvenCooking(s) <=> OvenCooking(t)
  BY <1>4 DEF OvenCooking
<1>10. \E M : /\ Tracked(edged, t, M) /\ (~starts => b \in M)
              /\ (~starts /\ shown.lamp => M = {a, b})
  <2>1. CASE starts
    <3>1. next \in WsCommand /\ next.id = a
      <4>1. 2 \in 1..LastStage
        <5>1. status.stage = 1 /\ status.stage < LastStage
          BY <1>2, <2>1 DEF Preheating
        <5> QED BY <5>1, MessagesAssumption
      <4>2. RecipeOf(x) \in CookOrNone
        BY DEF RecipeOf, CookOrNone
      <4> QED BY <4>1, <4>2 DEF NextStage, WsCommand
    <3> HIDE DEF next
    <3>2. Tracked(settled, t, {a, b} \ {next.id})
      BY <1>8, <2>1, <3>1, ControlTracked
    <3>3. OvenCooking(settled.sm)
      BY <1>2, <1>4, <2>1, <3>2 DEF Tracked, OvenCooking
    <3> HIDE DEF settled
    <3>4. \E M : Tracked(Edge(settled, shown, a), t, M)
      BY <3>2, <3>3, EdgeTracked
    <3> QED BY <2>1, <3>4
  <2>2. CASE ~starts
    <3>1. settled = reported
      BY <2>2
    <3> HIDE DEF settled
    <3>2. \E M : /\ Tracked(Edge(reported, shown, a), t, M) /\ {a, b} \ {a} \subseteq M
                 /\ (shown.lamp => M = {a, b})
      BY <1>8, EdgeTracked
    <3> QED BY <3>1, <3>2
  <2> QED BY <2>1, <2>2
<1> HIDE DEF settled
<1>11. PICK M : /\ Tracked(edged, t, M) /\ (~starts => b \in M)
                /\ (~starts /\ shown.lamp => M = {a, b})
  BY <1>10
<1> HIDE DEF edged
<1>12. Tracked(dropped, t, M)
  BY <1>11, SettleTracked
<1>13. dropped.sm.lifecycle = "StartPending" => IsCooking(shown)
  <2>1. edged \in Reduction
    BY <1>11 DEF Tracked
  <2> QED BY <2>1, SettleCooks
<1> HIDE DEF dropped
<1>14. dropped \in Reduction /\ dropped.sm \in SmState
  BY <1>12, InReduction DEF Tracked
<1>15. /\ u.controls = t.controls /\ u.watch = w /\ u.status = shown
  BY <1>4 DEF SmState
<1> HIDE DEF u
<1>16. /\ lit \in SmState /\ lit.status = shown /\ lit.controls = dropped.sm.controls
       /\ lit.stop = dropped.sm.stop /\ lit.watch = dropped.sm.watch
       /\ lit.lifecycle = dropped.sm.lifecycle
  BY <1>3, <1>14 DEF SmState
<1>17. timed = [dropped EXCEPT !.sm.status = shown]
  BY DEF timed, lit
<1> HIDE DEF lit
<1>18. timed \in Reduction /\ timed.sm = lit /\ timed.ws = dropped.ws
  BY <1>14, <1>16, InReduction
<1> HIDE DEF timed
<1>19. Sound(lit)
  BY <1>12, <1>16 DEF Sound, Tracked
<1>20. Tracked(timed, u, M)
  BY <1>4, <1>12, <1>15, <1>16, <1>18, <1>19 DEF Tracked
<1>21. TurnOffIsDue(timed.sm) => b \in M /\ (LampIsOn(timed.sm) => a \in M \ {b})
  <2> SUFFICES ASSUME TurnOffIsDue(timed.sm)
               PROVE  b \in M /\ (LampIsOn(timed.sm) => a \in M \ {b})
    OBVIOUS
  <2>1. shown.stage = LastStage
    BY <1>16, <1>18 DEF TurnOffIsDue
  <2>2. LastStage \in Nat
    BY MessagesAssumption
  <2>3. ~starts
    BY <1>2, <1>3, <2>1, <2>2
  <2>4. LampIsOn(timed.sm) => shown.lamp
    BY <1>16, <1>18 DEF LampIsOn
  <2> QED BY <1>11, <2>3, <2>4
<1> DEFINE r == TurnOffWhenDone(timed, a, b)
<1>22. Tracked(r, u, {})
  BY <1>20, <1>21, TurnOffTracked
<1>23. r.sm.lifecycle = "StartPending" => IsCooking(status)
  BY <1>3, <1>13, <1>16, <1>18, TurnOffEnds DEF IsCooking
<1>24. r = ReduceReport(s, status, x, over, a, a, b)
  BY <1>7, <1>17 DEF ReduceReport, ApplyApoState, dropped, edged, settled, told, shown, w, starts, next
<1> HIDE DEF r
<1>25. u.controls = s.controls /\ (u.watch # None => IsCooking(status))
  BY <1>2, <1>4, <1>15 DEF Preheating
<1>26. u.watch = Watch(s, status, x, over) /\ u.status = ShownStatus(s, u.watch, status, x)
  BY <1>15 DEF w, shown
<1> QED BY <1>3, <1>15, <1>22, <1>23, <1>24, <1>25, <1>26

-----------------------------------------------------------------------------
(* The other reducers.                                                     *)

LEMMA SameTracked == ASSUME NEW s, Sound(s) PROVE Tracked(On(s), s, {})
  BY OnTracked

LEMMA FailTracked ==
    ASSUME NEW r, NEW t, NEW N, Tracked(r, t, N), NEW id \in Ids PROVE Tracked(Fail(r, id), t, N)
<1> DEFINE q == Fail(r, id)
<1>1. r \in Reduction /\ {id} \in SUBSET Ids
  BY DEF Tracked
<1>2. q \in Reduction /\ q.sm = r.sm /\ q.ws = r.ws
  BY <1>1 DEF Fail, Reduction
<1> HIDE DEF q
<1> QED BY <1>2 DEF Tracked, q

\* An ack takes what it answers out of the trackers.
LEMMA AckTracked ==
    ASSUME NEW s, Sound(s), NEW id \in Ids, NEW ok \in BOOLEAN
    PROVE  \E t : /\ Tracked(ApplyCommandAck(s, id, ok), t, {})
                  /\ t.status = s.status /\ t.watch = s.watch
                  /\ Range(t.controls) \subseteq Range(s.controls) \ {id}
<1> DEFINE a == [s EXCEPT !.start = None, !.lifecycle = "Cooking"]
           b == [s EXCEPT !.start = None, !.lifecycle = "Idle"]
           c == [s EXCEPT !.stop = None, !.lifecycle = "Cooking"]
           d == [s EXCEPT !.controls = RemoveFirst(@, id)]
<1>1. s \in SmState /\ s.controls \in Seq(Requests) /\ s.start \in CookOrNone
  BY DEF Sound, SmState
<1>2. Range(s.controls) \subseteq Requests
  BY <1>1, LenProperties DEF Range
<1>3. None \notin Ids /\ Cooks \cap Requests = {}
  BY MessagesAssumption DEF Ids
<1>4. Frees(a, s) /\ Frees(b, s) /\ Frees(c, s)
  <2>1. Frees(a, s)
    BY <1>1 DEF Frees, SmState, CookOrNone
  <2>2. Frees(b, s)
    BY <1>1 DEF Frees, SmState, CookOrNone
  <2>3. Frees(c, s)
    BY <1>1 DEF Frees, SmState
  <2> QED BY <2>1, <2>2, <2>3
<1> HIDE DEF a, b, c
<1>5. ASSUME NEW v, Frees(v, s) PROVE Tracked(On(v), s, {})
  <2>1. Sound(v) /\ v.watch = s.watch /\ v.status = s.status /\ v.controls = s.controls
    BY <1>2, <1>3, <1>5 DEF Sound, Frees, Ids
  <2> QED BY <2>1, OnTracked
<1>6. CASE id = s.start
  <2>1. id \notin Range(s.controls)
    BY <1>1, <1>2, <1>3, <1>6 DEF CookOrNone
  <2>2. Tracked(StartAcked(s), s, {})
    <3>1. StartAcked(s) \in {FetchCurrentCook(On(a)), FetchCurrentCook(On(s))}
      BY DEF StartAcked, a
    <3> QED BY <1>4, <1>5, <3>1, SameTracked, FetchTracked
  <2>3. Tracked(StartFailed(s), s, {})
    BY <1>4, <1>5, <1>6, FailTracked DEF StartFailed, b
  <2> QED BY <1>6, <2>1, <2>2, <2>3 DEF ApplyCommandAck
<1>7. CASE id # s.start /\ id = s.stop /\ ~ok
  <2>1. id \notin Range(s.controls)
    BY <1>7 DEF Sound
  <2>2. Tracked(StopFailed(s), s, {})
    BY <1>4, <1>5, <1>7, FailTracked DEF StopFailed, c
  <2> QED BY <1>7, <2>1, <2>2 DEF ApplyCommandAck
<1>8. CASE id # s.start /\ ~(id = s.stop /\ ~ok) /\ id \in Range(s.controls)
  <2> DEFINE rest == RemoveFirst(s.controls, id)
  <2>1. rest \in Seq(Requests) /\ IsInjective(rest) /\ Range(rest) = Range(s.controls) \ {id}
    BY <1>1, <1>8, RemoveTracked DEF Sound
  <2> HIDE DEF rest
  <2>2. /\ d \in SmState /\ d.controls = rest /\ d.stop = s.stop /\ d.lifecycle = s.lifecycle
        /\ d.watch = s.watch /\ d.status = s.status
    BY <1>1, <2>1 DEF SmState, rest
  <2>3. Tracked(On(d), d, {})
    <3>1. Sound(d)
      BY <2>1, <2>2 DEF Sound
    <3> QED BY <3>1, SameTracked
  <2> HIDE DEF d
  <2>4. Tracked(Fail(On(d), id), d, {})
    BY <2>3, FailTracked
  <2>5. ApplyCommandAck(s, id, ok) \in {On(d), Fail(On(d), id)}
    BY <1>8 DEF ApplyCommandAck, ControlAcked, d
  <2> QED BY <2>1, <2>2, <2>3, <2>4, <2>5
<1>9. CASE id # s.start /\ ~(id = s.stop /\ ~ok) /\ id \notin Range(s.controls)
  <2>1. ApplyCommandAck(s, id, ok) = On(s)
    BY <1>9 DEF ApplyCommandAck
  <2> QED BY <1>9, <2>1, SameTracked
<1> QED BY <1>6, <1>7, <1>8, <1>9

\* An ack of the pending start ends it, unless the oven is not known to cook.
LEMMA AckEndsStart ==
    ASSUME NEW s \in SmState, NEW id, NEW ok \in BOOLEAN,
           ApplyCommandAck(s, id, ok).sm.lifecycle = "StartPending", id = s.start
    PROVE  ok /\ ~OvenCooking(s)
<1> DEFINE a == [s EXCEPT !.start = None, !.lifecycle = "Cooking"]
           b == [s EXCEPT !.start = None, !.lifecycle = "Idle"]
<1>1. a.lifecycle = "Cooking" /\ b.lifecycle = "Idle"
  BY DEF SmState
<1> HIDE DEF a, b
<1>2. FetchCurrentCook(On(a)).sm = a /\ Fail(On(b), id).sm = b
  BY DEF FetchCurrentCook, Ask, On, Fail
<1>3. ASSUME ~ok PROVE FALSE
  <2>1. ApplyCommandAck(s, id, ok) = Fail(On(b), id)
    BY <1>3 DEF ApplyCommandAck, StartFailed, b
  <2> QED BY <1>1, <1>2, <2>1
<1>4. ASSUME ok, OvenCooking(s) PROVE FALSE
  <2>1. ApplyCommandAck(s, id, ok) = FetchCurrentCook(On(a))
    BY <1>4, LocalServerAssumption DEF ApplyCommandAck, StartAcked, a
  <2> QED BY <1>1, <1>2, <2>1
<1> QED BY <1>3, <1>4

LEMMA StartTracked ==
    ASSUME NEW s, Sound(s), NEW cook \in Cooks, NEW turnOff \in BOOLEAN
    PROVE  /\ Tracked(Start(s, cook, turnOff), s, {})
           /\ Start(s, cook, turnOff).sm.lifecycle = "StartPending"
           /\ Start(s, cook, turnOff).sm.start = cook
           /\ cook \in CommandIds(Start(s, cook, turnOff).ws)
<1> DEFINE seeded == [cook |-> cook, title |-> "started", turnOff |-> turnOff]
           v == [s EXCEPT !.start = cook, !.lifecycle = "StartPending", !.current_cook = seeded]
           begin == Command("start", cook)
           told == [kind |-> "started", cook |-> cook, turnOff |-> turnOff]
           q == Send(On(v), begin)
<1>1. seeded \in CurrentCook
  BY DEF CurrentCook, Titles
<1>2. begin \in WsCommand /\ begin.id = cook /\ told \in StoreCommand
  BY DEF Command, WsCommand, StoreCommand
<1> HIDE DEF seeded, begin, told
<1>3. s \in SmState
  BY DEF Sound
<1>4. /\ v \in SmState /\ v.lifecycle = "StartPending" /\ v.start = cook
      /\ v.controls = s.controls /\ v.stop = s.stop /\ v.watch = s.watch /\ v.status = s.status
  BY <1>1, <1>3 DEF SmState, CookOrNone
<1> HIDE DEF v
<1>5. Sound(v)
  BY <1>4 DEF Sound
<1>6. Tracked(On(v), s, {})
  BY <1>4, <1>5, OnTracked
<1>7. Tracked(q, s, {}) /\ Tracked(Ask(q, told), s, {})
  BY <1>2, <1>6, SendTracked, AskTracked
<1>8. Ask(q, told).sm = v /\ Ask(q, told).ws = Append(<<>>, begin)
  BY DEF q, Ask, Send, On
<1>9. CommandIds(Append(<<>>, begin)) = CommandIds(<<>>) \cup {cook}
  BY <1>2, EmptyQueue, IdsOfAppend
<1>10. Start(s, cook, turnOff) = Ask(q, told)
  BY DEF Start, q, v, seeded, begin, told
<1> QED BY <1>4, <1>7, <1>8, <1>9, <1>10

LEMMA LinkTracked ==
    ASSUME NEW s, Sound(s), NEW kind \in {"connected", "disconnected", "discovered"}
    PROVE  Tracked(ApplyLink(s, kind), s, {})
<1> DEFINE c == IF kind = "connected" /\ s.connectivity # "disconnected"
                  THEN s.connectivity ELSE kind
           t == [s EXCEPT !.connectivity = c]
<1>1. s \in SmState
  BY DEF Sound
<1>2. c \in {"disconnected", "connected", "discovered"}
  BY <1>1 DEF SmState
<1>3. ApplyLink(s, kind) = On(t)
  BY DEF ApplyLink
<1> HIDE DEF c
<1>4. /\ t \in SmState /\ t.controls = s.controls /\ t.stop = s.stop /\ t.lifecycle = s.lifecycle
      /\ t.watch = s.watch /\ t.status = s.status
  BY <1>1, <1>2 DEF SmState
<1> HIDE DEF t
<1>5. Sound(t)
  BY <1>4 DEF Sound
<1> QED BY <1>3, <1>4, <1>5, OnTracked

LEMMA ShownTracked ==
    ASSUME NEW s, Sound(s), s.current_cook # None PROVE Tracked(LinkShown(s), s, {})
<1> DEFINE cook == [s.current_cook EXCEPT !.title = "saved"]
           t == [s EXCEPT !.current_cook = cook]
<1>1. s \in SmState
  BY DEF Sound
<1>2. s.current_cook \in CurrentCook
  BY <1>1 DEF SmState
<1>3. cook \in CurrentCook
  BY <1>2 DEF CurrentCook, Titles
<1>4. t = [s EXCEPT !.current_cook.title = "saved"]
  BY <1>1 DEF SmState
<1> HIDE DEF cook
<1>5. /\ t \in SmState /\ t.controls = s.controls /\ t.stop = s.stop /\ t.lifecycle = s.lifecycle
      /\ t.watch = s.watch /\ t.status = s.status
  BY <1>1, <1>3 DEF SmState
<1> HIDE DEF t
<1>6. Sound(t)
  BY <1>5 DEF Sound
<1>7. Tracked(On(t), s, {})
  BY <1>5, <1>6, OnTracked
<1>8. [kind |-> "link"] \in StoreCommand
  BY DEF StoreCommand
<1> QED BY <1>4, <1>7, <1>8, AskTracked DEF LinkShown

LEMMA StoreEventTracked ==
    ASSUME NEW s, Sound(s), NEW evt \in StoreEvent PROVE Tracked(ApplyStoreEvent(s, evt), s, {})
<1> DEFINE fetched == [s EXCEPT !.current_cook = evt.cook]
           shown == [s EXCEPT !.history = evt.entries]
<1>1. s \in SmState
  BY DEF Sound
<1>2. evt.kind = "fetched" => evt.cook \in CurrentCook \cup {None}
  BY DEF StoreEvent
<1>3. evt.kind = "history" => evt.entries \in Seq(HistoryEntry)
  BY DEF StoreEvent
<1>4. evt.kind = "fetched" => Frees(fetched, s)
  BY <1>1, <1>2 DEF Frees, SmState
<1>5. evt.kind = "history" => Frees(shown, s)
  BY <1>1, <1>3 DEF Frees, SmState
<1>6. ASSUME NEW v, Frees(v, s) PROVE Tracked(On(v), s, {})
  <2>1. Sound(v) /\ v.watch = s.watch /\ v.status = s.status /\ v.controls = s.controls
        /\ v.stop \in {s.stop, None}
    <3>1. s.controls \in Seq(Requests) /\ None \notin Requests
      BY <1>1, MessagesAssumption DEF SmState
    <3>2. Range(s.controls) \subseteq Requests
      BY <3>1, LenProperties DEF Range
    <3> QED BY <1>6, <3>1, <3>2 DEF Sound, Frees
  <2> QED BY <2>1, OnTracked
<1>7. Tracked(FetchCurrentCook(On(s)), s, {})
  BY SameTracked, FetchTracked
<1> HIDE DEF fetched, shown
<1>8. evt.kind \in {"fetched", "history", "patched"}
  BY DEF StoreEvent
<1>9. ApplyStoreEvent(s, evt) =
        IF evt.kind = "fetched" THEN On(fetched)
        ELSE IF evt.kind = "history" THEN On(shown) ELSE FetchCurrentCook(On(s))
  BY <1>8 DEF ApplyStoreEvent, fetched, shown
<1> QED BY <1>4, <1>5, <1>6, <1>7, <1>9

-----------------------------------------------------------------------------
(* The state machine's steps.                                              *)

LEMMA CommandsBegun ==
    ASSUME NEW q \in Seq(WsCommand), WsKnown(q)
    PROVE  CommandIds(q) \cap Cooks \subseteq begun
<1>1. \A cmd \in Range(q) : cmd \in WsCommand
  BY ElementOfSeq, LenProperties DEF Range
<1>2. \A cmd \in WsCommand : cmd.kind \in OtherKinds => cmd.id \in Requests
  BY DEF WsCommand, OtherKinds
<1>3. \A cmd \in Range(q) : cmd.id \in Cooks => cmd.id \in begun
  BY <1>1, <1>2, MessagesAssumption DEF WsKnown
<1> QED BY <1>3, IdsInRange

\* Fresh ids are new to the trackers.
LEMMA FreshIds ==
    ASSUME EnoughIds
    PROVE  /\ NewId \in Requests /\ OtherNewId \in Requests /\ NewId # OtherNewId
           /\ {NewId, OtherNewId} \cap (Range(sm.controls) \cup {sm.stop}) = {}
<1>1. PICK a \in Requests \ InUse, b \in Requests \ InUse : a # b
  BY DEF EnoughIds
<1>2. NewId \in Requests /\ NewId \notin InUse
  BY <1>1 DEF NewId
<1>3. \E id \in Requests : id \notin InUse \cup {NewId}
  BY <1>1
<1>4. OtherNewId \in Requests /\ OtherNewId \notin InUse \cup {NewId}
  BY <1>3 DEF OtherNewId
<1> QED BY <1>2, <1>4 DEF InUse

\* Where the ids of an event queue and of those on their way to it go.
LEMMA SmDone ==
    ASSUME RInv, IInv', JInv', UNCHANGED <<oven, inbox, processed, deviceVars, storeVars, budget>>,
           saving' \in CookOrNone, begun \subseteq begun',
           NEW r, NEW t, Tracked(r, t, {}), Perform(r),
           wsEvt' \in Seq(WsEvent), storeEvt' \in Seq(StoreEvent),
           AckIds(wsEvt') \subseteq AckIds(wsEvt),
           Range(t.controls) \subseteq InCommands \cup PendingIds \cup AckIds(wsEvt'),
           t.watch # None => OvenCooking(t),
           r.sm.lifecycle = "StartPending" =>
               /\ r.sm.start # None
               /\ r.sm.start \in InCommands \cup CommandIds(r.ws) \cup PendingIds \cup AckIds(wsEvt')
               /\ OvenCooking(t) \/ Heralded(wsEvt', acking, r.sm.start)
    PROVE  RInv'
<1>1. /\ sm' = r.sm /\ wsCmd' = wsCmd \o r.ws /\ announced' = r.failed
      /\ pending' = pending /\ acking' = acking /\ processed' = processed
  BY DEF Perform, deviceVars
<1>2. r.sm \in SmState /\ r.ws \in Seq(WsCommand) /\ r.failed \in SUBSET Ids /\ Sound(r.sm)
  BY InReduction DEF Tracked
<1>3. wsCmd \in Seq(WsCommand)
  BY DEF RInv, TypeOK, ChannelsTypeOK
<1>4. wsCmd' \in Seq(WsCommand)
  BY <1>1, <1>2, <1>3, ConcatProperties
<1>5. TypeOK'
  <2>1. ChannelsTypeOK'
    BY <1>4 DEF ChannelsTypeOK, IInv, Known
  <2>2. SmTypeOK'
    BY <1>1, <1>2 DEF SmTypeOK
  <2>3. OvenTypeOK'
    BY DEF RInv, TypeOK, OvenTypeOK, IInv, Known
  <2>4. DeviceTypeOK'
    BY DEF RInv, TypeOK, DeviceTypeOK, deviceVars
  <2>5. StoreTypeOK'
    BY DEF RInv, TypeOK, StoreTypeOK, storeVars
  <2>6. budget' \in Budgets /\ left' \in [Kinds -> Nat] /\ \A kind \in Kinds : left'[kind] <= budget'[kind]
    BY DEF RInv, TypeOK, JInv, Bounded
  <2> QED BY <2>1, <2>2, <2>3, <2>4, <2>5, <2>6 DEF TypeOK
<1>6. InCommands' = InCommands \cup CommandIds(r.ws)
  <2>1. IsSeq(wsCmd) /\ IsSeq(r.ws)
    BY <1>2, <1>3, TypedQueue
  <2> QED BY <1>1, <2>1, IdsOfConcat DEF InCommands
<1>7. PendingIds' = PendingIds /\ InAcks' = AckIds(wsEvt')
  BY <1>1 DEF PendingIds, InAcks
<1>8. InCommands' \cap Cooks \subseteq begun'
  <2>1. WsKnown(wsCmd)'
    BY DEF IInv, Known
  <2>2. \A cmd \in Range(wsCmd') : cmd \in WsCommand
    BY <1>4, ElementOfSeq, LenProperties DEF Range
  <2>3. \A cmd \in WsCommand : cmd.kind \in OtherKinds => cmd.id \in Requests
    BY DEF WsCommand, OtherKinds
  <2>4. \A cmd \in Range(wsCmd') : cmd.id \in Cooks => cmd.id \in begun'
    BY <2>1, <2>2, <2>3, MessagesAssumption DEF WsKnown
  <2> QED BY <2>4, IdsInRange DEF InCommands
<1>9. StartsBegun'
  BY <1>1, <1>7, <1>8 DEF StartsBegun, InFlight, RInv, InAcks
<1>10. RequestsTracked'
  BY <1>1, <1>2, <1>6, <1>7 DEF RequestsTracked, InFlight, Tracked, Sound
<1>11. r.sm.status = t.status /\ r.sm.watch = t.watch
  BY DEF Tracked
<1>12. (OvenCooking(sm)' <=> OvenCooking(t)) /\ sm'.watch = t.watch
  BY <1>1, <1>11 DEF OvenCooking
<1>13. StartHeralded'
  BY <1>1, <1>12 DEF StartHeralded
<1> QED BY <1>1, <1>2, <1>5, <1>9, <1>10, <1>12, <1>13 DEF RInv

\* What is not the state the acks follow may be taken.
LEMMA HeraldedTail ==
    ASSUME NEW evts, IsSeq(evts), evts # <<>>, Head(evts).kind # "state", NEW toAck, NEW id,
           Heralded(evts, toAck, id)
    PROVE  Heralded(Tail(evts), toAck, id)
<1>1. /\ IsSeq(Tail(evts)) /\ Len(Tail(evts)) = Len(evts) - 1 /\ Len(evts) > 0
      /\ \A i \in 1..Len(Tail(evts)) : Tail(evts)[i] = evts[i + 1]
  BY TailRange
<1>2. Len(evts) \in Nat /\ DOMAIN evts = 1..Len(evts) /\ DOMAIN Tail(evts) = 1..Len(Tail(evts))
  BY <1>1, QueueDomain
<1>3. evts[1] = Head(evts)
  BY DEF IsSeq
<1> DEFINE t == Tail(evts)
<1> HIDE DEF t
<1>4. \A n \in 1..Len(evts) : HasReport(evts, n) => HasReport(t, n - 1)
  <2> SUFFICES ASSUME NEW n \in 1..Len(evts), NEW k \in 1..n, evts[k].kind = "state"
               PROVE  HasReport(t, n - 1)
    BY DEF HasReport
  <2>1. k # 1
    BY <1>3
  <2>2. k - 1 \in 1..(n - 1) /\ t[k - 1] = evts[k]
    BY <1>1, <1>2, <2>1 DEF t
  <2> QED BY <2>2 DEF HasReport
<1>5. ASSUME NEW i \in DOMAIN t, Confirms(t[i], id) PROVE HasReport(t, i - 1)
  <2>1. i + 1 \in DOMAIN evts /\ t[i] = evts[i + 1] /\ (i + 1) - 1 = i /\ i \in 1..Len(evts)
    BY <1>1, <1>2 DEF t
  <2>2. HasReport(evts, i)
    BY <1>5, <2>1 DEF Heralded
  <2> QED BY <1>4, <2>1, <2>2
<1>6. id \in toAck => HasReport(t, Len(t))
  BY <1>1, <1>2, <1>4 DEF Heralded, t
<1> QED BY <1>5, <1>6 DEF Heralded, t

LEMMA SmIsState == ASSUME IInv, JInv PROVE State(sm) /\ Alike(sm, sm)
  BY DEF State, IInv, JInv, Known, Begun, CookOrNone, Alike

\* A reduction that takes no event of the link.
LEMMA CalmTracked ==
    ASSUME RInv, IInv', JInv', UNCHANGED <<oven, inbox, processed, deviceVars, storeVars, budget>>,
           saving' \in CookOrNone, begun' = begun, wsEvt' = wsEvt, storeEvt' \in Seq(StoreEvent),
           NEW r, Tracked(r, sm, {}), NEW t, Traced(r, t, FALSE),
           t.lifecycle = sm.lifecycle, t.start = sm.start, Perform(r)
    PROVE  RInv'
<1>1. wsEvt' \in Seq(WsEvent) /\ AckIds(wsEvt') = AckIds(wsEvt)
  BY DEF RInv, TypeOK, ChannelsTypeOK
<1>2. Range(sm.controls) \subseteq InCommands \cup PendingIds \cup AckIds(wsEvt')
  BY <1>1 DEF RInv, RequestsTracked, InFlight, InAcks
<1>3. r.sm.lifecycle = "StartPending" =>
        /\ r.sm.start # None
        /\ r.sm.start \in InCommands \cup CommandIds(r.ws) \cup PendingIds \cup AckIds(wsEvt')
        /\ OvenCooking(sm) \/ Heralded(wsEvt', acking, r.sm.start)
  BY <1>1 DEF RInv, RequestsTracked, InFlight, InAcks, StartHeralded, Traced
<1>4. sm.watch # None => OvenCooking(sm)
  BY DEF RInv
<1>5. AckIds(wsEvt') \subseteq AckIds(wsEvt) /\ begun \subseteq begun'
  BY <1>1
<1> QED BY <1>1, <1>2, <1>3, <1>4, <1>5, SmDone

LEMMA ClientStartsTracked ==
    ASSUME IInv, JInv, RInv, IInv', JInv', ClientStarts, UNCHANGED <<deviceVars, storeVars>>
    PROVE  RInv'
<1>1. PICK cook \in Cooks \ begun, turnOff \in TurnOffChoices :
        StartCook(cook, turnOff) /\ begun' = begun \cup {cook}
  BY DEF ClientStarts
<1>2. UNCHANGED <<wsEvt, storeEvt, oven, inbox, processed, saving, budget>>
  BY <1>1 DEF ClientStarts, StartCook, modelVars
<1> DEFINE r == Start(sm, cook, turnOff)
<1>3. /\ Tracked(r, sm, {}) /\ r.sm.lifecycle = "StartPending" /\ r.sm.start = cook
      /\ cook \in CommandIds(r.ws)
  <2>1. turnOff \in BOOLEAN /\ Sound(sm)
    BY LocalServerAssumption DEF RInv
  <2> QED BY <2>1, StartTracked
<1>4. Perform(r)
  BY <1>1 DEF StartCook
<1> HIDE DEF r
<1>5. /\ saving' \in CookOrNone /\ storeEvt' \in Seq(StoreEvent) /\ wsEvt' \in Seq(WsEvent)
      /\ AckIds(wsEvt') = AckIds(wsEvt) /\ (sm.watch # None => OvenCooking(sm))
  BY <1>2 DEF RInv, TypeOK, ChannelsTypeOK
<1>6. Range(sm.controls) \subseteq InCommands \cup PendingIds \cup AckIds(wsEvt')
  BY <1>5 DEF RInv, RequestsTracked, InFlight, InAcks
<1>7. cook \notin AckIds(wsEvt) /\ cook \notin acking
  BY <1>1 DEF RInv, StartsBegun, InFlight, InAcks
<1>8. Heralded(wsEvt', acking, cook)
  <2>1. \A i \in DOMAIN wsEvt : ~Confirms(wsEvt[i], cook)
    BY <1>7 DEF Confirms, AckIds
  <2> QED BY <1>2, <1>7, <2>1 DEF Heralded
<1>9. cook # None
  BY MessagesAssumption
<1>10. AckIds(wsEvt') \subseteq AckIds(wsEvt) /\ begun \subseteq begun'
  BY <1>1, <1>5
<1>11. UNCHANGED <<oven, inbox, processed, deviceVars, storeVars, budget>>
  BY <1>2
<1>12. r.sm.lifecycle = "StartPending" =>
         /\ r.sm.start # None
         /\ r.sm.start \in InCommands \cup CommandIds(r.ws) \cup PendingIds \cup AckIds(wsEvt')
         /\ OvenCooking(sm) \/ Heralded(wsEvt', acking, r.sm.start)
  BY <1>3, <1>8, <1>9
<1> QED BY <1>3, <1>4, <1>5, <1>6, <1>10, <1>11, <1>12, SmDone

LEMMA ClientActsTracked ==
    ASSUME IInv, JInv, RInv, IInv', JInv', EnoughIds, ClientActs, UNCHANGED <<deviceVars, storeVars>>
    PROVE  RInv'
<1>1. UNCHANGED <<oven, inbox, processed, deviceVars, storeVars, budget>> /\ begun' = begun
      /\ saving' \in CookOrNone
  BY DEF ClientActs, ovenVars, RInv, TypeOK
<1>2. Sound(sm) /\ State(sm) /\ Alike(sm, sm) /\ sm \in SmState
  BY SmIsState DEF RInv, Sound
<1>3. Traced(On(sm), sm, FALSE)
  BY <1>2, OnTraced
<1> DEFINE N == {NewId, OtherNewId}
<1>4. /\ N \subseteq Requests /\ NewId \in N /\ OtherNewId \in N /\ NewId # OtherNewId
      /\ N \cap (Range(sm.controls) \cup {sm.stop}) = {}
  BY FreshIds
<1> HIDE DEF N
<1>5. Tracked(On(sm), sm, N)
  BY <1>2, <1>4, OnTracked
<1>6. storeEvt \in Seq(StoreEvent)
  BY DEF RInv, TypeOK, ChannelsTypeOK
<1>7. CASE StopCook(NewId, OtherNewId)
  <2> DEFINE r == Stop(On(sm), NewId, OtherNewId)
  <2>1. Perform(r) /\ wsEvt' = wsEvt /\ storeEvt' = storeEvt
    BY <1>7 DEF StopCook
  <2>2. Traced(r, sm, FALSE)
    BY <1>2, <1>3, StopTraced
  <2>3. NewId \in N \ {OtherNewId}
    BY <1>4
  <2>4. Tracked(r, sm, {})
    BY <1>4, <1>5, <2>3, StopTracked
  <2> HIDE DEF r
  <2> QED BY <1>1, <1>6, <2>1, <2>2, <2>4, CalmTracked
<1>8. CASE \E kind \in ClientRequests \cap Controls : ControlCook(kind, NewId)
  <2>1. PICK kind \in Controls : ControlCook(kind, NewId)
    BY <1>8
  <2> DEFINE cmd == Control(sm, kind, NewId)
             r == SendControl(On(sm), cmd)
  <2>2. Perform(r) /\ wsEvt' = wsEvt /\ storeEvt' = storeEvt /\ CanControl(sm, kind)
    BY <2>1 DEF ControlCook
  <2>3. cmd \in WsCommand /\ cmd.id = NewId
    <3>1. CASE kind = "nextStage"
      <4> DEFINE stage == sm.status.stage + 1
      <4>1. sm.status \in Status /\ sm.oven_cook \in Cooks /\ sm.status.stage < LastStage
        BY <1>2, <2>2, <3>1 DEF CanControl, OvenCooking, SmState, CookOrNone
      <4>2. stage \in 1..LastStage
        BY <4>1, MessagesAssumption DEF Status
      <4>3. RecipeOf(sm.oven_cook) \in CookOrNone
        BY <4>1 DEF RecipeOf, CookOrNone
      <4>4. cmd = NextStage(sm.oven_cook, stage, NewId)
        BY <3>1 DEF Control
      <4> HIDE DEF stage, cmd
      <4> QED BY <1>4, <4>2, <4>3, <4>4 DEF NextStage, WsCommand
    <3>2. CASE kind \in {"lampOn", "lampOff"}
      <4>1. cmd = [kind |-> kind, id |-> NewId]
        BY <3>2 DEF Control, Command
      <4> HIDE DEF cmd
      <4> QED BY <1>4, <3>2, <4>1 DEF WsCommand
    <3> QED BY <3>1, <3>2 DEF Controls
  <2>4. Traced(r, sm, FALSE)
    BY <1>2, <1>3, ControlTraced
  <2> HIDE DEF cmd
  <2>5. Tracked(r, sm, N \ {cmd.id})
    BY <1>4, <1>5, <2>3, ControlTracked
  <2> HIDE DEF r
  <2>6. Tracked(r, sm, {})
    BY <2>5 DEF Tracked
  <2> QED BY <1>1, <1>6, <2>2, <2>4, <2>6, CalmTracked
<1> QED BY <1>7, <1>8 DEF ClientActs

\* An event of the link that tells of no report.
LEMMA TellsLittle ==
    ASSUME RInv, IInv', JInv', UNCHANGED <<ovenVars, deviceVars, storeVars, storeEvt, modelVars>>,
           wsEvt # <<>>, Head(wsEvt).kind # "state", wsEvt' = Tail(wsEvt),
           NEW r, NEW t, Tracked(r, t, {}), Traced(r, sm, FALSE), Perform(r),
           t.status = sm.status, t.watch = sm.watch,
           Range(t.controls) \subseteq Range(sm.controls),
           Head(wsEvt).kind = "ack" =>
               /\ Head(wsEvt).id \notin Range(t.controls)
               /\ r.sm.lifecycle = "StartPending" /\ Head(wsEvt).id = sm.start
                    => Head(wsEvt).ok /\ ~OvenCooking(sm)
    PROVE  RInv'
<1> DEFINE e == Head(wsEvt)
<1>1. wsEvt \in Seq(WsEvent) /\ storeEvt \in Seq(StoreEvent) /\ IsSeq(wsEvt)
  BY TypedQueue DEF RInv, TypeOK, ChannelsTypeOK
<1>2. wsEvt' \in Seq(WsEvent)
  BY <1>1, HeadTailProperties
<1>3. AckIds(wsEvt) = AckIds(wsEvt') \cup (IF e.kind = "ack" THEN {e.id} ELSE {})
  BY <1>1, IdsOfTail
<1>4. /\ UNCHANGED <<oven, inbox, processed, deviceVars, storeVars, budget>>
      /\ saving' \in CookOrNone /\ begun \subseteq begun'
  BY DEF ovenVars, modelVars, RInv, TypeOK
<1>5. Range(t.controls) \subseteq InCommands \cup PendingIds \cup AckIds(wsEvt')
  <2>1. Range(sm.controls) \subseteq InCommands \cup PendingIds \cup AckIds(wsEvt)
    BY DEF RInv, RequestsTracked, InFlight, InAcks
  <2> QED BY <1>3, <2>1
<1>6. (OvenCooking(t) <=> OvenCooking(sm)) /\ (t.watch # None => OvenCooking(t))
  BY DEF OvenCooking, RInv
<1>7. ASSUME r.sm.lifecycle = "StartPending"
      PROVE  /\ r.sm.start # None
             /\ r.sm.start \in InCommands \cup CommandIds(r.ws) \cup PendingIds \cup AckIds(wsEvt')
             /\ OvenCooking(t) \/ Heralded(wsEvt', acking, r.sm.start)
  <2>1. sm.lifecycle = "StartPending" /\ r.sm.start = sm.start
    BY <1>7 DEF Traced
  <2>2. sm.start # None /\ sm.start \in InCommands \cup PendingIds \cup AckIds(wsEvt)
    BY <2>1 DEF RInv, RequestsTracked, InFlight, InAcks
  <2>3. OvenCooking(sm) \/ Heralded(wsEvt, acking, sm.start)
    BY <2>1 DEF RInv, StartHeralded
  <2>4. OvenCooking(sm) \/ Heralded(wsEvt', acking, sm.start)
    BY <1>1, <2>3, HeraldedTail
  <2>5. ASSUME e.kind = "ack", e.id = sm.start PROVE FALSE
    <3>1. e.ok /\ ~OvenCooking(sm)
      BY <1>7, <2>5
    <3>2. 1 \in DOMAIN wsEvt /\ wsEvt[1] = e
      <4>1. Len(wsEvt) > 0 /\ Len(wsEvt) \in Nat /\ DOMAIN wsEvt = 1..Len(wsEvt)
        BY <1>1, TailRange, QueueDomain
      <4> QED BY <1>1, <4>1
    <3>3. HasReport(wsEvt, 1 - 1)
      BY <2>3, <2>5, <3>1, <3>2 DEF Heralded, Confirms
    <3> QED BY <3>3 DEF HasReport
  <2>6. sm.start \in InCommands \cup PendingIds \cup AckIds(wsEvt')
    BY <1>3, <2>2, <2>5
  <2> QED BY <1>6, <2>1, <2>2, <2>4, <2>6
<1>8. AckIds(wsEvt') \subseteq AckIds(wsEvt)
  BY <1>3
<1>9. storeEvt' \in Seq(StoreEvent)
  BY <1>1
<1> HIDE DEF e
<1> QED BY <1>2, <1>4, <1>5, <1>6, <1>7, <1>8, <1>9, SmDone

LEMMA StateTracked ==
    ASSUME IInv, JInv, RInv, IInv', JInv', EnoughIds, SmTakesState, UNCHANGED <<deviceVars, storeVars>>
    PROVE  RInv'
<1> DEFINE e == Head(wsEvt)
           x == e.cook
<1>1. /\ UNCHANGED <<ovenVars, modelVars, storeEvt>> /\ wsEvt # <<>> /\ e.kind = "state"
      /\ wsEvt' = Tail(wsEvt)
  BY DEF SmTakesState, TakeApoState
<1>2. PICK over \in BOOLEAN :
        Perform(ReduceReport(sm, e.status, x, over, NewId, NewId, OtherNewId))
  BY DEF SmTakesState, TakeApoState
<1>3. wsEvt \in Seq(WsEvent) /\ storeEvt \in Seq(StoreEvent) /\ IsSeq(wsEvt)
  BY TypedQueue DEF RInv, TypeOK, ChannelsTypeOK
<1>4. wsEvt' \in Seq(WsEvent) /\ e \in WsEvent
  BY <1>1, <1>3, HeadTailProperties
<1>5. e.status \in Status /\ x \in CookOrNone
  BY <1>1, <1>4 DEF WsEvent, LinkEvent, StateEvent, AckEvent
<1>6. AckIds(wsEvt') = AckIds(wsEvt)
  BY <1>1, <1>3, IdsOfTail
<1> HIDE DEF e
<1> DEFINE status == e.status
<1> HIDE DEF x, status
<1> DEFINE r == ReduceReport(sm, status, x, over, NewId, NewId, OtherNewId)
<1>7. /\ NewId \in Requests /\ OtherNewId \in Requests /\ NewId # OtherNewId
      /\ {NewId, OtherNewId} \cap (Range(sm.controls) \cup {sm.stop}) = {}
  BY FreshIds
<1>8. /\ \E t : /\ Tracked(r, t, {}) /\ t.controls = sm.controls
                /\ t.status \in Status /\ t.status.stage = status.stage
                /\ t.watch # None => IsCooking(status)
      /\ r.sm.lifecycle = "StartPending" => IsCooking(status)
  <2>1. Sound(sm) /\ (sm.watch # None => OvenCooking(sm))
    BY DEF RInv
  <2>2. status \in Status /\ x \in CookOrNone
    BY <1>5 DEF status, x
  <2> QED BY <1>7, <2>1, <2>2, ReportTracked
<1>9. \E u : Reported(u, sm, x) /\ Traced(r, u, sm.lifecycle # "StartPending")
  <2>1. State(sm) /\ x \in CookOrNone
    BY <1>5, SmIsState
  <2> QED BY <2>1, ReportTraced
<1>10. Perform(r)
  BY <1>2 DEF status
<1> HIDE DEF r
<1>11. PICK t : /\ Tracked(r, t, {}) /\ t.controls = sm.controls
                /\ t.status \in Status /\ t.status.stage = status.stage
                /\ t.watch # None => IsCooking(status)
  BY <1>8
<1>12. OvenCooking(t) <=> IsCooking(status)
  BY <1>11, StateMachineAssumption DEF OvenCooking, IsCooking
<1>13. ASSUME r.sm.lifecycle = "StartPending"
       PROVE  /\ r.sm.start # None
              /\ r.sm.start \in InCommands \cup CommandIds(r.ws) \cup PendingIds \cup AckIds(wsEvt')
              /\ OvenCooking(t)
  <2>1. sm.lifecycle = "StartPending" /\ r.sm.start = sm.start
    BY <1>9, <1>13 DEF Traced, Reported
  <2> QED BY <1>6, <1>8, <1>12, <1>13, <2>1 DEF RInv, RequestsTracked, InFlight, InAcks
<1>14. /\ UNCHANGED <<oven, inbox, processed, deviceVars, storeVars, budget>>
       /\ saving' \in CookOrNone /\ begun \subseteq begun'
  BY <1>1 DEF ovenVars, modelVars, RInv, TypeOK
<1>15. Range(t.controls) \subseteq InCommands \cup PendingIds \cup AckIds(wsEvt')
  BY <1>6, <1>11 DEF RInv, RequestsTracked, InFlight, InAcks
<1>16. AckIds(wsEvt') \subseteq AckIds(wsEvt) /\ storeEvt' \in Seq(StoreEvent)
  BY <1>1, <1>3, <1>6
<1>17. t.watch # None => OvenCooking(t)
  BY <1>11, <1>12
<1> QED BY <1>4, <1>10, <1>11, <1>13, <1>14, <1>15, <1>16, <1>17, SmDone

LEMMA SmStepTracked == ASSUME IInv, JInv, RInv, IInv', JInv', EnoughIds, SmStep PROVE RInv'
<1>1. UNCHANGED <<deviceVars, storeVars>>
  BY DEF SmStep
<1>2. Sound(sm) /\ State(sm) /\ Alike(sm, sm) /\ Tracked(On(sm), sm, {}) /\ Traced(On(sm), sm, FALSE)
  BY SmIsState, SameTracked, OnTraced DEF RInv
<1>3. /\ wsEvt \in Seq(WsEvent) /\ storeEvt \in Seq(StoreEvent) /\ saving \in CookOrNone
      /\ sm \in SmState
  BY DEF RInv, TypeOK, ChannelsTypeOK, SmTypeOK
<1>4. CASE ClientStarts
  BY <1>1, <1>4, ClientStartsTracked
<1>5. CASE ClientActs
  BY <1>1, <1>5, ClientActsTracked
<1>6. CASE SaveReadsCook \/ (SaveLinksCook /\ sm.current_cook = None)
  <2>1. UNCHANGED <<channels, smVars, ovenVars, budget>> /\ saving' \in CookOrNone
    <3>1. sm.current_cook # None => sm.current_cook.cook \in Cooks
      BY <1>3 DEF SmState, CurrentCook
    <3> QED BY <1>6, <3>1 DEF SaveReadsCook, SaveLinksCook, LinkCurrentCook, CookOrNone
  <2>2. TypeOK'
    <3>1. Bounded'
      BY DEF JInv
    <3> QED BY <1>1, <2>1, <3>1
    DEF channels, smVars, ovenVars, deviceVars, storeVars, RInv, TypeOK, ChannelsTypeOK,
        SmTypeOK, OvenTypeOK, DeviceTypeOK, StoreTypeOK, Bounded
  <2>3. StartsBegun' /\ RequestsTracked' /\ StartHeralded'
    BY <1>1, <2>1
    DEF channels, smVars, ovenVars, deviceVars, RInv, StartsBegun, RequestsTracked, StartHeralded,
        InFlight, InCommands, PendingIds, InAcks, OvenCooking
  <2>4. /\ Sound(sm') /\ (sm.watch # None => OvenCooking(sm))'
        /\ IsFiniteSet(processed') /\ IsFiniteSet(acking')
    BY <1>1, <2>1 DEF smVars, ovenVars, deviceVars, RInv, OvenCooking
  <2> QED BY <2>2, <2>3, <2>4 DEF RInv
<1>a. ASSUME UNCHANGED <<wsEvt, ovenVars, budget>>, saving' \in CookOrNone, storeEvt' \in Seq(StoreEvent),
             NEW r, Tracked(r, sm, {}), NEW t, Traced(r, t, FALSE), Perform(r),
             t.lifecycle = sm.lifecycle, t.start = sm.start
      PROVE  RInv'
  <2>1. UNCHANGED <<oven, inbox, processed, deviceVars, storeVars, budget>> /\ begun' = begun
    BY <1>1, <1>a DEF ovenVars
  <2> QED BY <1>a, <2>1, CalmTracked
<1>7. CASE SaveLinksCook /\ sm.current_cook # None
  <2>1. Perform(LinkShown(sm)) /\ UNCHANGED <<wsEvt, storeEvt, ovenVars, budget>> /\ saving' \in CookOrNone
    BY <1>7 DEF SaveLinksCook, LinkCurrentCook, CookOrNone
  <2>2. Tracked(LinkShown(sm), sm, {}) /\ Traced(LinkShown(sm), sm, FALSE)
    BY <1>2, <1>7, ShownTracked, ShownTraced
  <2>3. storeEvt' \in Seq(StoreEvent) /\ UNCHANGED <<wsEvt, ovenVars, budget>>
    BY <1>3, <2>1
  <2> QED BY <1>a, <2>1, <2>2, <2>3
<1>8. CASE SmTakesState
  BY <1>1, <1>8, StateTracked
<1>9. CASE SmTakesAck
  <2> DEFINE e == Head(wsEvt)
             r == ApplyCommandAck(sm, e.id, e.ok)
  <2>1. /\ UNCHANGED <<ovenVars, modelVars, storeEvt>> /\ wsEvt # <<>> /\ e.kind = "ack"
        /\ wsEvt' = Tail(wsEvt) /\ Perform(r)
    BY <1>9 DEF SmTakesAck, TakeAck
  <2>2. e.id \in Ids /\ e.ok \in BOOLEAN
    <3>1. e \in WsEvent
      BY <1>3, <2>1, HeadTailProperties
    <3> HIDE DEF e
    <3> QED BY <2>1, <3>1 DEF WsEvent, LinkEvent, StateEvent, AckEvent
  <2>3. PICK t : /\ Tracked(r, t, {}) /\ t.status = sm.status /\ t.watch = sm.watch
                 /\ Range(t.controls) \subseteq Range(sm.controls) \ {e.id}
    BY <1>2, <2>2, AckTracked
  <2>4. Traced(r, sm, FALSE)
    BY <1>2, AckTraced
  <2>5. r.sm.lifecycle = "StartPending" /\ e.id = sm.start => e.ok /\ ~OvenCooking(sm)
    BY <1>3, <2>2, AckEndsStart
  <2> HIDE DEF r
  <2>6. e.kind # "state" /\ e.id \notin Range(t.controls) /\ Range(t.controls) \subseteq Range(sm.controls)
    BY <2>1, <2>3
  <2> QED BY <1>1, <2>1, <2>3, <2>4, <2>5, <2>6, TellsLittle
<1>10. CASE SmTakesLink
  <2> DEFINE e == Head(wsEvt)
             r == ApplyLink(sm, e.kind)
  <2>1. /\ UNCHANGED <<ovenVars, modelVars, storeEvt>> /\ wsEvt # <<>>
        /\ e.kind \in {"connected", "disconnected", "discovered"}
        /\ wsEvt' = Tail(wsEvt) /\ Perform(r)
    BY <1>10 DEF SmTakesLink, TakeLink
  <2>2. Tracked(r, sm, {}) /\ Traced(r, sm, FALSE)
    BY <1>2, <2>1, LinkTracked, LinkTraced
  <2> HIDE DEF r
  <2>3. e.kind # "state" /\ e.kind # "ack"
    BY <2>1
  <2> QED BY <1>1, <2>1, <2>2, <2>3, TellsLittle
<1>11. CASE SmTakesStore
  <2> DEFINE evt == Head(storeEvt)
             now == IF evt.kind = "history" THEN evt.entries ELSE sm.history
             t == [sm EXCEPT !.history = now]
             a == [sm EXCEPT !.current_cook = evt.cook]
             b == [sm EXCEPT !.history = evt.entries]
             r == ApplyStoreEvent(sm, evt)
  <2>1. UNCHANGED <<ovenVars, modelVars, wsEvt>> /\ storeEvt # <<>> /\ storeEvt' = Tail(storeEvt)
        /\ Perform(r)
    BY <1>11 DEF SmTakesStore, TakeStoreEvent
  <2>2. evt \in StoreEvent /\ storeEvt' \in Seq(StoreEvent)
    BY <1>3, <2>1, HeadTailProperties
  <2> HIDE DEF evt
  <2>3. evt.kind \in {"fetched", "history", "patched"}
    BY <2>2 DEF StoreEvent
  <2>4. State(t) /\ t.lifecycle = sm.lifecycle /\ t.start = sm.start
    BY <1>2 DEF State, Fields
  <2>5. /\ evt.kind = "fetched" => Alike(a, t)
        /\ evt.kind = "history" => Alike(b, t)
        /\ evt.kind = "patched" => Alike(sm, t)
    BY <1>2 DEF State, Fields, Alike
  <2>6. /\ evt.kind = "fetched" => r = On(a)
        /\ evt.kind = "history" => r = On(b)
        /\ evt.kind = "patched" => r = FetchCurrentCook(On(sm))
    BY DEF ApplyStoreEvent
  <2>7. Tracked(r, sm, {})
    BY <1>2, <2>2, StoreEventTracked
  <2> HIDE DEF a, b, t, r
  <2>8. Traced(r, t, FALSE)
    BY <2>3, <2>4, <2>5, <2>6, OnTraced, FetchTraced
  <2>9. saving' \in CookOrNone /\ UNCHANGED <<wsEvt, ovenVars, budget>>
    BY <1>3, <2>1 DEF modelVars
  <2> QED BY <1>a, <2>1, <2>2, <2>4, <2>7, <2>8, <2>9
<1>12. CASE SmTicks
  <2>1. UNCHANGED <<ovenVars, modelVars, wsEvt, storeEvt>>
    BY <1>12 DEF SmTicks, CurrentCookTick, HistoryTick
  <2>2. PICK r \in {FetchCurrentCook(On(sm)), RefreshHistory(On(sm))} : Perform(r)
    BY <1>12 DEF SmTicks, CurrentCookTick, HistoryTick
  <2>3. Tracked(r, sm, {}) /\ Traced(r, sm, FALSE)
    BY <1>2, FetchTracked, HistoryTracked, FetchTraced, HistoryTraced
  <2>4. saving' \in CookOrNone /\ storeEvt' \in Seq(StoreEvent) /\ UNCHANGED <<wsEvt, ovenVars, budget>>
    BY <1>3, <2>1 DEF modelVars
  <2> QED BY <1>a, <2>2, <2>3, <2>4
<1> QED
  BY <1>4, <1>5, <1>6, <1>7, <1>8, <1>9, <1>10, <1>11, <1>12 DEF SmStep

-----------------------------------------------------------------------------
(* The link and the oven.                                                  *)

\* Events of the link go behind those there are.
LEMMA HeraldedGrows ==
    ASSUME NEW evts, IsSeq(evts), NEW new, IsSeq(new), NEW toAck, NEW after, NEW id,
           Heralded(evts, toAck, id),
           id \in after => id \in toAck \/ HasReport(new, Len(new)),
           \A i \in DOMAIN new : Confirms(new[i], id) => id \in toAck
    PROVE  Heralded(evts \o new, after, id)
<1> DEFINE all == evts \o new
           n == Len(evts)
<1>1. /\ n \in Nat /\ Len(new) \in Nat /\ DOMAIN evts = 1..n /\ DOMAIN new = 1..Len(new)
      /\ Len(all) = n + Len(new) /\ DOMAIN all = 1..(n + Len(new))
      /\ \A i \in 1..(n + Len(new)) : all[i] = IF i <= n THEN evts[i] ELSE new[i - n]
  BY ConcatRange, QueueDomain
<1> HIDE DEF all
<1>2. \A m \in 1..n : all[m] = evts[m]
  BY <1>1
<1>3. ASSUME NEW j \in 0..n, HasReport(evts, j), NEW m \in Nat, j <= m PROVE HasReport(all, m)
  <2>1. PICK k \in 1..j : evts[k].kind = "state"
    BY <1>3 DEF HasReport
  <2>2. k \in 1..m /\ all[k] = evts[k]
    BY <1>1, <1>2, <1>3, <2>1
  <2> QED BY <2>1, <2>2 DEF HasReport
<1>4. ASSUME NEW i \in DOMAIN all, Confirms(all[i], id) PROVE HasReport(all, i - 1)
  <2>1. CASE i <= n
    <3>1. i \in DOMAIN evts /\ all[i] = evts[i] /\ i - 1 \in 0..n /\ i - 1 \in Nat
      BY <1>1, <2>1
    <3>2. HasReport(evts, i - 1)
      BY <1>4, <3>1 DEF Heralded
    <3> QED BY <1>3, <3>1, <3>2
  <2>2. CASE ~(i <= n)
    <3>1. i - n \in DOMAIN new /\ all[i] = new[i - n] /\ i - 1 \in Nat /\ n <= i - 1 /\ n \in 0..n
      BY <1>1, <2>2
    <3>2. HasReport(evts, n)
      BY <1>4, <3>1 DEF Heralded
    <3> QED BY <1>3, <3>1, <3>2
  <2> QED BY <2>1, <2>2
<1>5. ASSUME id \in after PROVE HasReport(all, Len(all))
  <2>1. CASE id \in toAck
    <3>1. HasReport(evts, n) /\ n \in 0..n /\ n <= Len(all) /\ Len(all) \in Nat
      BY <1>1, <2>1 DEF Heralded
    <3> QED BY <1>3, <3>1
  <2>2. CASE HasReport(new, Len(new))
    <3>1. PICK k \in 1..Len(new) : new[k].kind = "state"
      BY <2>2 DEF HasReport
    <3>2. n + k \in 1..Len(all) /\ all[n + k] = new[k]
      BY <1>1, <3>1
    <3> QED BY <3>1, <3>2 DEF HasReport
  <2> QED BY <1>5, <2>1, <2>2
<1> QED BY <1>4, <1>5 DEF Heralded, all

\* What the link and the oven leave of the requests.
LEMMA ApartTracked ==
    ASSUME RInv, IInv', JInv',
           UNCHANGED <<storeCmd, storeEvt, smVars, storeVars, saving, budget>>,
           wsCmd' \in Seq(WsCommand), wsEvt' \in Seq(WsEvent), oven' \in OvenState,
           begun \subseteq begun', inbox' \in Seq(WsCommand), processed' \subseteq Ids,
           session' \in BOOLEAN, pending' \in Seq(Ids), acking' \subseteq Ids,
           IsFiniteSet(processed'), IsFiniteSet(acking'),
           InFlight \subseteq InFlight', InFlight' \subseteq InFlight,
           acking' \subseteq InFlight \cup acking,
           sm.lifecycle = "StartPending" /\ Heralded(wsEvt, acking, sm.start)
             => Heralded(wsEvt', acking', sm.start)
    PROVE  RInv'
<1>1. UNCHANGED <<storeCmd, storeEvt, sm, announced, files, watched, saving, budget>>
  BY DEF smVars, storeVars
<1>2. TypeOK'
  <2>1. ChannelsTypeOK' /\ SmTypeOK' /\ StoreTypeOK' /\ DeviceTypeOK'
    BY <1>1 DEF RInv, TypeOK, ChannelsTypeOK, SmTypeOK, StoreTypeOK, DeviceTypeOK
  <2>2. OvenTypeOK'
    BY DEF OvenTypeOK, IInv, Known
  <2>3. /\ saving' \in CookOrNone /\ budget' \in Budgets /\ left' \in [Kinds -> Nat]
        /\ \A kind \in Kinds : left'[kind] <= budget'[kind]
    BY <1>1 DEF RInv, TypeOK, JInv, Bounded
  <2> QED BY <2>1, <2>2, <2>3 DEF TypeOK
<1>3. Sound(sm') /\ (sm.watch # None => OvenCooking(sm))'
  BY <1>1 DEF RInv, OvenCooking
<1>4. StartsBegun' /\ RequestsTracked'
  BY <1>1 DEF RInv, StartsBegun, RequestsTracked
<1>5. StartHeralded'
  BY <1>1 DEF RInv, StartHeralded, OvenCooking
<1> QED BY <1>2, <1>3, <1>4, <1>5 DEF RInv

LEMMA LinkEvents ==
    ASSUME NEW new \in Seq(LinkEvent)
    PROVE  /\ IsSeq(new) /\ new \in Seq(WsEvent) /\ AckIds(new) = {}
           /\ \A i \in DOMAIN new : new[i].kind # "ack"
<1>1. \A i \in DOMAIN new : new[i] \in LinkEvent
  BY ElementOfSeq, LenProperties
<1>2. \A i \in DOMAIN new : new[i].kind # "ack"
  BY <1>1 DEF LinkEvent
<1>3. new \in Seq(WsEvent)
  BY SeqMonotonic DEF WsEvent
<1>4. {j \in DOMAIN new : new[j].kind = "ack"} = {}
  BY <1>2
<1>5. AckIds(new) = {}
  BY <1>4 DEF AckIds
<1> QED BY <1>2, <1>3, <1>5, TypedQueue

\* One event of the link.
LEMMA OneEvent ==
    ASSUME NEW evts \in Seq(WsEvent), NEW e \in WsEvent
    PROVE  /\ Append(evts, e) = evts \o <<e>> /\ Append(evts, e) \in Seq(WsEvent)
           /\ <<e>> \in Seq(WsEvent) /\ IsSeq(<<e>>)
           /\ Len(<<e>>) = 1 /\ DOMAIN <<e>> = {1} /\ <<e>>[1] = e
           /\ AckIds(<<e>>) = IF e.kind = "ack" THEN {e.id} ELSE {}
<1> DEFINE s == <<e>>
<1>1. /\ Append(evts, e) = evts \o s /\ Append(evts, e) \in Seq(WsEvent)
      /\ s \in Seq(WsEvent) /\ IsSeq(s) /\ Range(s) = {e} /\ Len(s) = 1 /\ s[1] = e
  BY OneQueue, AppendProperties
<1> HIDE DEF s
<1>2. DOMAIN s = {1}
  BY <1>1, QueueDomain
<1>3. AckIds(s) = IF e.kind = "ack" THEN {e.id} ELSE {}
  BY <1>1, IdsInRange
<1> QED BY <1>1, <1>2, <1>3 DEF s

LEMMA LinkStepTracked == ASSUME IInv, JInv, RInv, IInv', JInv', LinkStep PROVE RInv'
<1>1. /\ wsEvt \in Seq(WsEvent) /\ wsCmd \in Seq(WsCommand) /\ inbox \in Seq(WsCommand)
      /\ oven \in OvenState /\ processed \subseteq Ids /\ session \in BOOLEAN
      /\ pending \in Seq(Ids) /\ acking \subseteq Ids
      /\ IsFiniteSet(processed) /\ IsFiniteSet(acking)
      /\ IsSeq(wsEvt) /\ IsSeq(wsCmd) /\ <<>> \in Seq(WsCommand)
  BY TypedQueue, EmptySeq DEF RInv, TypeOK, ChannelsTypeOK, OvenTypeOK, DeviceTypeOK
<1>2. UNCHANGED <<storeCmd, storeEvt, smVars, storeVars, saving, budget>>
  BY DEF LinkStep
<1>3. InFlight = CommandIds(wsCmd) \cup PendingIds \cup AckIds(wsEvt)
  BY DEF InFlight, InCommands, InAcks
<1>4. InFlight' = CommandIds(wsCmd') \cup Range(pending') \cup AckIds(wsEvt')
  BY DEF InFlight, InCommands, InAcks, PendingIds
<1>5. /\ Greeting \in Seq(LinkEvent) /\ Farewell \in Seq(LinkEvent) /\ <<>> \in Seq(LinkEvent)
  BY DEF Greeting, Farewell, Link, LinkEvent
<1>6. ASSUME UNCHANGED <<wsCmd, pending, acking, oven, begun, processed>>, session' \in BOOLEAN,
             inbox' = <<>>, NEW new \in Seq(LinkEvent), wsEvt' = wsEvt \o new
      PROVE  RInv'
  <2>1. /\ IsSeq(new) /\ new \in Seq(WsEvent) /\ AckIds(new) = {}
        /\ \A i \in DOMAIN new : new[i].kind # "ack"
    BY LinkEvents
  <2>2. wsEvt' \in Seq(WsEvent) /\ AckIds(wsEvt') = AckIds(wsEvt)
    <3>1. IsSeq(wsEvt) /\ IsSeq(new)
      BY <1>1, <2>1
    <3>2. AckIds(wsEvt \o new) = AckIds(wsEvt) \cup AckIds(new)
      BY <3>1, IdsOfConcat
    <3> QED BY <1>1, <1>6, <2>1, <3>2, ConcatProperties
  <2>3. InFlight' = InFlight
    BY <1>3, <1>4, <1>6, <2>2 DEF PendingIds
  <2>4. Heralded(wsEvt, acking, sm.start) => Heralded(wsEvt', acking', sm.start)
    BY <1>1, <1>6, <2>1, HeraldedGrows DEF Confirms
  <2>5. /\ InFlight \subseteq InFlight' /\ InFlight' \subseteq InFlight
        /\ acking' \subseteq InFlight \cup acking /\ begun \subseteq begun'
        /\ wsCmd' \in Seq(WsCommand) /\ oven' \in OvenState /\ processed' \subseteq Ids
        /\ inbox' \in Seq(WsCommand) /\ pending' \in Seq(Ids) /\ acking' \subseteq Ids
        /\ IsFiniteSet(processed') /\ IsFiniteSet(acking')
    BY <1>1, <1>6, <2>3
  <2> QED BY <1>2, <1>6, <2>2, <2>4, <2>5, ApartTracked
<1>7. CASE OvenConnects
  <2>1. PICK rateSent \in BOOLEAN :
          /\ session' = rateSent
          /\ wsEvt' = wsEvt \o ((IF session THEN Farewell ELSE <<>>) \o Greeting
                            \o (IF rateSent THEN <<>> ELSE Farewell))
    BY <1>7 DEF OvenConnects
  <2> DEFINE new == (IF session THEN Farewell ELSE <<>>) \o Greeting
                       \o (IF rateSent THEN <<>> ELSE Farewell)
  <2>2. new \in Seq(LinkEvent)
    BY <1>5, ConcatProperties
  <2>3. wsEvt' = wsEvt \o new
    BY <2>1
  <2> HIDE DEF new
  <2>4. UNCHANGED <<wsCmd, pending, acking, oven, begun, processed>> /\ inbox' = <<>>
        /\ session' \in BOOLEAN
    BY <1>7, <2>1 DEF OvenConnects
  <2> QED BY <1>6, <2>2, <2>3, <2>4
<1>8. CASE SessionEnds
  <2>1. /\ UNCHANGED <<wsCmd, pending, acking, oven, begun, processed>> /\ inbox' = <<>>
        /\ session' \in BOOLEAN /\ wsEvt' = wsEvt \o Farewell
    BY <1>8 DEF SessionEnds
  <2> QED BY <1>5, <1>6, <2>1
<1>9. CASE LinkReports
  <2>1. PICK status \in Reports : wsEvt' = Append(wsEvt, ApoState(status, oven.cook))
    BY <1>9 DEF LinkReports, OvenReports
  <2>2. /\ UNCHANGED <<wsCmd, session, pending, oven, begun, inbox>>
        /\ acking' = PendingIds \cap processed /\ processed' = {}
    BY <1>9 DEF LinkReports, OvenReports
  <2> DEFINE e == ApoState(status, oven.cook)
  <2>3. e \in WsEvent /\ e.kind = "state"
    <3>1. oven.cook \in CookOrNone /\ oven.stage \in 0..LastStage /\ oven.ended \in BOOLEAN
          /\ oven.lamp \in BOOLEAN
      BY <1>1 DEF OvenState
    <3>2. status \in Status
      BY <3>1 DEF Reports, Status
    <3> QED BY <3>1, <3>2 DEF ApoState, WsEvent, StateEvent
  <2> HIDE DEF e
  <2> DEFINE new == <<e>>
  <2>4. /\ wsEvt' = wsEvt \o new /\ wsEvt' \in Seq(WsEvent) /\ IsSeq(new) /\ Len(new) = 1
        /\ DOMAIN new = {1} /\ new[1] = e /\ AckIds(new) = {}
    BY <1>1, <2>1, <2>3, OneEvent DEF e
  <2> HIDE DEF new
  <2>5. AckIds(wsEvt') = AckIds(wsEvt)
    <3>1. IsSeq(wsEvt) /\ IsSeq(new)
      BY <1>1, <2>4
    <3>2. AckIds(wsEvt \o new) = AckIds(wsEvt) \cup AckIds(new)
      BY <3>1, IdsOfConcat
    <3> QED BY <2>4, <3>2
  <2>6. InFlight' = InFlight
    BY <1>3, <1>4, <2>2, <2>5 DEF PendingIds
  <2>7. HasReport(new, Len(new)) /\ \A i \in DOMAIN new : ~Confirms(new[i], sm.start)
    BY <2>3, <2>4 DEF HasReport, Confirms
  <2>8. Heralded(wsEvt, acking, sm.start) => Heralded(wsEvt', acking', sm.start)
    BY <1>1, <2>4, <2>7, HeraldedGrows
  <2>9. IsFiniteSet(acking') /\ IsFiniteSet(processed')
    BY <1>1, <2>2, FS_Subset, FS_EmptySet
  <2>10. /\ InFlight \subseteq InFlight' /\ InFlight' \subseteq InFlight
         /\ acking' \subseteq InFlight \cup acking /\ begun \subseteq begun'
         /\ wsCmd' \in Seq(WsCommand) /\ oven' \in OvenState /\ processed' \subseteq Ids
         /\ inbox' \in Seq(WsCommand) /\ pending' \in Seq(Ids) /\ acking' \subseteq Ids
         /\ session' \in BOOLEAN
    BY <1>1, <1>3, <2>2, <2>6
  <2> QED BY <1>2, <2>4, <2>8, <2>9, <2>10, ApartTracked
<1>10. CASE AckHandled
  <2>1. PICK i \in DOMAIN pending :
          /\ pending[i] \in acking
          /\ wsEvt' = Append(wsEvt, Ack(pending[i], TRUE))
          /\ acking' = acking \ {pending[i]}
          /\ pending' = RemoveAt(pending, i)
    BY <1>10 DEF AckHandled
  <2> DEFINE id == pending[i]
             e == Ack(id, TRUE)
  <2>2. id \in Ids /\ id \in acking
    BY <1>1, <2>1, ElementOfSeq, LenProperties
  <2>3. e \in WsEvent /\ e.kind = "ack" /\ e.id = id
    BY <2>2 DEF Ack, WsEvent, AckEvent
  <2>4. pending' \in Seq(Ids) /\ Range(pending) = Range(pending') \cup {id}
    BY <1>1, <2>1, RemoveKeeps
  <2> HIDE DEF e
  <2> DEFINE new == <<e>>
  <2>5. /\ wsEvt' = wsEvt \o new /\ wsEvt' \in Seq(WsEvent) /\ IsSeq(new) /\ Len(new) = 1
        /\ DOMAIN new = {1} /\ new[1] = e /\ AckIds(new) = {id}
    BY <1>1, <2>1, <2>3, OneEvent DEF e
  <2>6. UNCHANGED <<wsCmd, session, ovenVars>> /\ acking' = acking \ {id}
    BY <1>10, <2>1 DEF AckHandled
  <2> HIDE DEF new, id
  <2>7. AckIds(wsEvt') = AckIds(wsEvt) \cup {id}
    BY <1>1, <2>5, IdsOfConcat
  <2>8. InFlight' = InFlight
    BY <1>3, <1>4, <2>4, <2>6, <2>7 DEF PendingIds
  <2>9. \A k \in DOMAIN new : Confirms(new[k], sm.start) => sm.start \in acking
    BY <2>2, <2>3, <2>5 DEF Confirms
  <2>10. Heralded(wsEvt, acking, sm.start) => Heralded(wsEvt', acking', sm.start)
    BY <1>1, <2>5, <2>6, <2>9, HeraldedGrows
  <2>11. IsFiniteSet(acking')
    BY <1>1, <2>6, FS_Subset
  <2>12. /\ InFlight \subseteq InFlight' /\ InFlight' \subseteq InFlight
         /\ acking' \subseteq InFlight \cup acking /\ begun \subseteq begun'
         /\ wsCmd' \in Seq(WsCommand) /\ oven' \in OvenState /\ processed' \subseteq Ids
         /\ inbox' \in Seq(WsCommand) /\ acking' \subseteq Ids
         /\ session' \in BOOLEAN /\ IsFiniteSet(processed')
    BY <1>1, <2>6, <2>8 DEF ovenVars
  <2> QED BY <1>2, <2>4, <2>5, <2>10, <2>11, <2>12, ApartTracked
<1>11. ASSUME NEW id \in Ids, NEW new, IsSeq(new), new \in Seq(WsEvent),
              wsEvt' = wsEvt \o new, AckIds(new) = {id},
              \A k \in DOMAIN new : new[k].kind = "ack" => ~new[k].ok,
              wsCmd' \in Seq(WsCommand), pending' \in Seq(Ids), inbox' \in Seq(WsCommand),
              session' \in BOOLEAN, UNCHANGED <<acking, oven, begun, processed>>,
              CommandIds(wsCmd') \cup Range(pending') \cup {id}
                = CommandIds(wsCmd) \cup PendingIds
       PROVE  RInv'
  <2>1. wsEvt' \in Seq(WsEvent) /\ AckIds(wsEvt') = AckIds(wsEvt) \cup {id}
    BY <1>1, <1>11, ConcatProperties, IdsOfConcat
  <2>2. InFlight' = InFlight
    BY <1>3, <1>4, <1>11, <2>1
  <2>3. Heralded(wsEvt, acking, sm.start) => Heralded(wsEvt', acking', sm.start)
    BY <1>1, <1>11, HeraldedGrows DEF Confirms
  <2>4. /\ InFlight \subseteq InFlight' /\ InFlight' \subseteq InFlight
        /\ acking' \subseteq InFlight \cup acking /\ begun \subseteq begun'
        /\ oven' \in OvenState /\ processed' \subseteq Ids /\ acking' \subseteq Ids
        /\ IsFiniteSet(processed') /\ IsFiniteSet(acking')
    BY <1>1, <1>11, <2>2
  <2> QED BY <1>2, <1>11, <2>1, <2>3, <2>4, ApartTracked
<1>12. CASE AckTimeout
  <2>1. /\ pending # <<>> /\ wsEvt' = Append(wsEvt, Ack(Head(pending), FALSE))
        /\ pending' = Tail(pending) /\ UNCHANGED <<wsCmd, session, acking, ovenVars>>
    BY <1>12 DEF AckTimeout
  <2> DEFINE id == Head(pending)
             e == Ack(id, FALSE)
  <2>2. id \in Ids /\ pending' \in Seq(Ids)
    BY <1>1, <2>1, HeadTailProperties
  <2>3. PendingIds = Range(pending') \cup {id}
    BY <1>1, <2>1, TypedQueue, HeadAndTail DEF PendingIds
  <2>4. e \in WsEvent /\ e.kind = "ack" /\ e.id = id /\ ~e.ok
    BY <2>2 DEF Ack, WsEvent, AckEvent
  <2> HIDE DEF e
  <2> DEFINE new == <<e>>
  <2>5. /\ wsEvt' = wsEvt \o new /\ IsSeq(new)
        /\ DOMAIN new = {1} /\ new[1] = e /\ AckIds(new) = {id} /\ new \in Seq(WsEvent)
    BY <1>1, <2>1, <2>4, OneEvent DEF e
  <2> HIDE DEF new, id
  <2>6. \A k \in DOMAIN new : new[k].kind = "ack" => ~new[k].ok
    BY <2>4, <2>5
  <2>7. /\ wsCmd' \in Seq(WsCommand) /\ inbox' \in Seq(WsCommand) /\ session' \in BOOLEAN
        /\ UNCHANGED <<acking, oven, begun, processed>>
        /\ CommandIds(wsCmd') \cup Range(pending') \cup {id} = CommandIds(wsCmd) \cup PendingIds
    BY <1>1, <2>1, <2>3 DEF ovenVars
  <2> QED BY <1>11, <2>2, <2>5, <2>6, <2>7
<1>13. CASE DeviceTakesCommand
  <2> DEFINE cmd == Head(wsCmd)
             id == cmd.id
             e == Ack(id, FALSE)
             alone == <<e>>
  <2>1. /\ wsCmd # <<>> /\ wsCmd' = Tail(wsCmd) /\ UNCHANGED <<acking, oven, begun, processed>>
        /\ NoOven \/ Sent \/ SendFailed
    BY <1>13 DEF DeviceTakesCommand
  <2>2. cmd \in WsCommand /\ wsCmd' \in Seq(WsCommand)
    BY <1>1, <2>1, HeadTailProperties
  <2>3. CommandIds(wsCmd) = CommandIds(wsCmd') \cup {id}
    BY <1>1, <2>1, IdsOfTail
  <2> HIDE DEF cmd
  <2>4. id \in Ids
    BY <2>2 DEF WsCommand, Ids
  <2> HIDE DEF id
  <2>5. e \in WsEvent /\ e.kind = "ack" /\ e.id = id /\ ~e.ok
    BY <2>4 DEF Ack, WsEvent, AckEvent
  <2>6. e = Ack(Head(wsCmd).id, FALSE)
    BY DEF id, cmd
  <2> HIDE DEF e
  <2>7. /\ Append(wsEvt, e) = wsEvt \o alone /\ IsSeq(alone) /\ alone \in Seq(WsEvent)
        /\ DOMAIN alone = {1} /\ alone[1] = e /\ AckIds(alone) = {id}
    BY <1>1, <2>5, OneEvent
  <2> HIDE DEF alone
  <2>8. CASE NoOven
    <3>1. /\ wsEvt' = wsEvt \o alone /\ UNCHANGED <<session, pending, inbox>>
      BY <2>6, <2>7, <2>8 DEF NoOven
    <3>2. \A k \in DOMAIN alone : alone[k].kind = "ack" => ~alone[k].ok
      BY <2>5, <2>7
    <3>3. /\ pending' \in Seq(Ids) /\ inbox' \in Seq(WsCommand) /\ session' \in BOOLEAN
          /\ CommandIds(wsCmd') \cup Range(pending') \cup {id} = CommandIds(wsCmd) \cup PendingIds
      BY <1>1, <2>3, <3>1 DEF PendingIds
    <3> QED BY <1>11, <2>1, <2>2, <2>4, <2>7, <3>1, <3>2, <3>3
  <2>9. CASE Sent
    <3>1. /\ wsEvt' = wsEvt /\ session' = session
          /\ pending' = Append(pending, id) /\ inbox' = Append(inbox, cmd)
      BY <2>9 DEF Sent, cmd, id
    <3>2. /\ pending' \in Seq(Ids) /\ inbox' \in Seq(WsCommand)
          /\ Range(pending') = PendingIds \cup {id}
      BY <1>1, <2>2, <2>4, <3>1, AppendProperties, TypedQueue, AppendRange DEF PendingIds
    <3>3. InFlight' = InFlight
      BY <1>3, <1>4, <2>3, <3>1, <3>2
    <3>4. Heralded(wsEvt, acking, sm.start) => Heralded(wsEvt', acking', sm.start)
      BY <2>1, <3>1
    <3>5. /\ InFlight \subseteq InFlight' /\ InFlight' \subseteq InFlight
          /\ acking' \subseteq InFlight \cup acking /\ begun \subseteq begun'
          /\ wsEvt' \in Seq(WsEvent) /\ oven' \in OvenState /\ processed' \subseteq Ids
          /\ acking' \subseteq Ids /\ session' \in BOOLEAN
          /\ IsFiniteSet(processed') /\ IsFiniteSet(acking')
      BY <1>1, <2>1, <3>1, <3>3
    <3> QED BY <1>2, <2>2, <3>2, <3>4, <3>5, ApartTracked
  <2>10. CASE SendFailed
    <3> DEFINE new == alone \o Farewell
    <3>1. /\ wsEvt' = Append(wsEvt, e) \o Farewell /\ UNCHANGED pending
          /\ session' = FALSE /\ inbox' = <<>>
      BY <2>6, <2>10 DEF SendFailed
    <3>2. /\ IsSeq(Farewell) /\ Farewell \in Seq(WsEvent) /\ AckIds(Farewell) = {}
          /\ \A k \in DOMAIN Farewell : Farewell[k].kind # "ack"
      BY <1>5, LinkEvents
    <3>3. new \in Seq(WsEvent) /\ (wsEvt \o alone) \o Farewell = wsEvt \o new
      BY <1>1, <2>7, <3>2, ConcatProperties, ConcatAssociative
    <3>4. AckIds(new) = {id}
      BY <2>7, <3>2, IdsOfConcat
    <3>5. IsSeq(new) /\ Range(new) = Range(alone) \cup Range(Farewell)
      <4>1. IsSeq(alone) /\ IsSeq(Farewell)
        BY <2>7, <3>2
      <4> QED BY <4>1, ConcatRange
    <3> HIDE DEF new
    <3>6. \A k \in DOMAIN new : new[k].kind = "ack" => ~new[k].ok
      <4>1. \A x \in Range(new) : x.kind = "ack" => ~x.ok
        BY <2>5, <2>7, <3>2, <3>5 DEF Range
      <4> QED BY <4>1 DEF Range
    <3>7. /\ pending' \in Seq(Ids) /\ inbox' \in Seq(WsCommand) /\ session' \in BOOLEAN
          /\ CommandIds(wsCmd') \cup Range(pending') \cup {id} = CommandIds(wsCmd) \cup PendingIds
          /\ wsEvt' = wsEvt \o new
      BY <1>1, <2>3, <2>7, <3>1, <3>3 DEF PendingIds
    <3> QED BY <1>11, <2>1, <2>2, <2>4, <3>3, <3>4, <3>5, <3>6, <3>7
  <2> QED BY <2>1, <2>8, <2>9, <2>10
<1> QED BY <1>7, <1>8, <1>9, <1>10, <1>12, <1>13 DEF LinkStep

\* What becomes of an oven.
LEMMA OvenStates ==
    ASSUME oven \in OvenState
    PROVE  /\ \A cook \in Cooks : Run(cook) \in OvenState
           /\ Off \in OvenState
           /\ \A recipe, stage : stage \in 1..LastStage => StartStage(recipe, stage) \in OvenState
           /\ \A on \in BOOLEAN : Lamp(on) \in OvenState
           /\ [oven EXCEPT !.ended = TRUE] \in OvenState
           /\ ~Hold => [oven EXCEPT !.stage = @ + 1] \in OvenState
<1> USE OvenAssumption, MessagesAssumption DEF OvenState, CookOrNone
<1>1. \A cook \in Cooks : Run(cook) \in OvenState
  BY DEF Run
<1>2. Off \in OvenState
  BY DEF Off
<1>3. \A on \in BOOLEAN : Lamp(on) \in OvenState
  BY DEF Lamp
<1>4. \A recipe, stage : stage \in 1..LastStage => StartStage(recipe, stage) \in OvenState
  BY DEF StartStage
<1>5. [oven EXCEPT !.ended = TRUE] \in OvenState
  OBVIOUS
<1>6. ~Hold => [oven EXCEPT !.stage = @ + 1] \in OvenState
  BY DEF Hold
<1> QED BY <1>1, <1>2, <1>3, <1>4, <1>5, <1>6

LEMMA OvenActsTracked == ASSUME IInv, JInv, RInv, IInv', JInv', OvenActs PROVE RInv'
<1>1. /\ wsEvt \in Seq(WsEvent) /\ wsCmd \in Seq(WsCommand) /\ inbox \in Seq(WsCommand)
      /\ oven \in OvenState /\ processed \subseteq Ids /\ session \in BOOLEAN
      /\ pending \in Seq(Ids) /\ acking \subseteq Ids
      /\ IsFiniteSet(processed) /\ IsFiniteSet(acking)
  BY DEF RInv, TypeOK, ChannelsTypeOK, OvenTypeOK, DeviceTypeOK
<1>2. UNCHANGED <<storeCmd, storeEvt, smVars, storeVars, saving, budget>>
      /\ UNCHANGED <<wsCmd, wsEvt, session, pending, acking>>
  BY DEF OvenActs, channels, deviceVars
<1>3. ASSUME oven' \in OvenState, begun \subseteq begun', inbox' \in Seq(WsCommand),
             processed' \subseteq Ids, IsFiniteSet(processed')
      PROVE  RInv'
  <2>1. InFlight' = InFlight
    BY <1>2 DEF InFlight, InCommands, PendingIds, InAcks
  <2>2. Heralded(wsEvt, acking, sm.start) => Heralded(wsEvt', acking', sm.start)
    BY <1>2
  <2>3. /\ InFlight \subseteq InFlight' /\ InFlight' \subseteq InFlight
        /\ acking' \subseteq InFlight \cup acking
        /\ wsCmd' \in Seq(WsCommand) /\ wsEvt' \in Seq(WsEvent)
        /\ session' \in BOOLEAN /\ pending' \in Seq(Ids) /\ acking' \subseteq Ids
        /\ IsFiniteSet(acking')
    BY <1>1, <1>2, <2>1
  <2> QED BY <1>2, <1>3, <2>2, <2>3, ApartTracked
<1>4. CASE OvenHandles
  <2> DEFINE cmd == Head(inbox)
  <2>1. /\ inbox # <<>> /\ inbox' = Tail(inbox) /\ begun' = begun
        /\ oven' = Effect(cmd) /\ processed' = processed \cup {cmd.id}
    BY <1>4 DEF OvenHandles
  <2>2. cmd \in WsCommand /\ inbox' \in Seq(WsCommand)
    BY <1>1, <2>1, HeadTailProperties
  <2> HIDE DEF cmd
  <2>3. /\ cmd.kind \in {"start", "stop", "lampOn", "lampOff", "nextStage"} /\ cmd.id \in Ids
        /\ cmd.kind = "start" => cmd.id \in Cooks
        /\ cmd.kind = "nextStage" => cmd.stage \in 1..LastStage
    BY <2>2 DEF WsCommand, Ids
  <2>4. oven' \in OvenState
    BY <1>1, <2>1, <2>3, OvenStates DEF Effect
  <2>5. processed' \subseteq Ids /\ IsFiniteSet(processed')
    BY <1>1, <2>1, <2>3, FS_AddElement
  <2> QED BY <1>3, <2>1, <2>2, <2>4, <2>5
<1>5. CASE OvenDrops
  <2>1. inbox' \in Seq(WsCommand) /\ UNCHANGED <<oven, begun, processed>>
    BY <1>1, <1>5, HeadTailProperties DEF OvenDrops
  <2> QED BY <1>1, <1>3, <2>1
<1>6. CASE PanelStart
  <2>1. UNCHANGED <<inbox, processed>> /\ oven' \in OvenState /\ begun \subseteq begun'
    BY <1>1, <1>6, OvenStates DEF PanelStart
  <2> QED BY <1>1, <1>3, <2>1
<1>7. CASE PanelStop
  <2>1. UNCHANGED <<begun, inbox, processed>> /\ oven' \in OvenState
    BY <1>1, <1>7, OvenStates DEF PanelStop
  <2> QED BY <1>1, <1>3, <2>1
<1>8. CASE StageEnds
  <2>1. UNCHANGED <<begun, inbox, processed>> /\ oven' \in OvenState
    BY <1>1, <1>8, OvenStates DEF StageEnds
  <2> QED BY <1>1, <1>3, <2>1
<1> QED BY <1>4, <1>5, <1>6, <1>7, <1>8 DEF OvenActs

-----------------------------------------------------------------------------
(* The store, and restarts.                                                *)

\* The store and its failures ask nothing of the oven.
LEMMA StoreTracked ==
    ASSUME RInv, IInv', JInv', UNCHANGED <<wsCmd, wsEvt, smVars, ovenVars, deviceVars, saving, budget>>,
           storeEvt' \in Seq(StoreEvent), watched' \in CookOrNone
    PROVE  RInv'
<1>1. TypeOK'
  <2>1. storeCmd' \in Seq(StoreCommand) /\ files' \in Files
    BY DEF IInv, Known, OnDisk
  <2>2. Bounded'
    BY DEF JInv
  <2> QED BY <2>1, <2>2
  DEF smVars, ovenVars, deviceVars, RInv, TypeOK, ChannelsTypeOK, SmTypeOK, OvenTypeOK,
      DeviceTypeOK, StoreTypeOK, Bounded
<1>2. StartsBegun' /\ RequestsTracked' /\ StartHeralded'
  BY DEF smVars, ovenVars, deviceVars, RInv, StartsBegun, RequestsTracked, StartHeralded,
      InFlight, InCommands, PendingIds, InAcks, OvenCooking
<1>3. /\ Sound(sm') /\ (sm.watch # None => OvenCooking(sm))'
      /\ IsFiniteSet(processed') /\ IsFiniteSet(acking')
  BY DEF smVars, ovenVars, deviceVars, RInv, OvenCooking
<1> QED BY <1>1, <1>2, <1>3 DEF RInv

LEMMA RecentType == ASSUME NEW h \in Seq(HistoryEntry) PROVE Recent(h) \in Seq(HistoryEntry)
<1>1. Len(h) \in Nat /\ HistoryLimit \in Nat
  BY LenProperties, LocalStoreAssumption
<1>2. CASE Len(h) <= HistoryLimit
  BY <1>2 DEF Recent
<1>3. CASE ~(Len(h) <= HistoryLimit)
  <2>1. \A i \in (Len(h) - HistoryLimit + 1)..Len(h) : h[i] \in HistoryEntry
    BY <1>1, <1>3, ElementOfSeq
  <2> QED BY <1>1, <1>3, <2>1, SubSeqProperties DEF Recent
<1> QED BY <1>2, <1>3

\* A fetch of a cook leaves a journal.
LEMMA FetchJournals ==
    ASSUME files \in Files, NEW cmd \in StoreCommand, NEW found \in BOOLEAN, NamesCook(cmd)
    PROVE  Last(Trail(cmd, found)).journal # None
<1> DEFINE x == cmd.cook
           trail == <<files>>
<1>1. cmd.kind = "fetch" /\ x \in Cooks /\ x # None
  BY MessagesAssumption DEF NamesCook, StoreCommand, CookOrNone
<1>2. CASE Journals(x)
  <2>1. Trail(cmd, found) = trail /\ Last(trail) = files
    BY <1>1, <1>2 DEF Trail, Last
  <2> QED BY <1>2, <2>1 DEF Journals
<1>3. CASE ~Journals(x)
  <2>1. Trail(cmd, found) = Reconcile(x)
    BY <1>1, <1>3 DEF Trail
  <2> HIDE DEF x
  <2>2. Manual(x) \in Journal
    BY <1>1 DEF Manual, Journal, Titles
  <2>3. Reconcile(x) = Write(Finish, Manual(x))
    BY <1>1, <1>3 DEF Reconcile
  <2>4. Last(Reconcile(x)).journal = Manual(x)
    BY <2>2, <2>3, FinishLeaves, LastWrite
  <2> QED BY <2>1, <2>2, <2>4, LocalStoreAssumption
<1> QED BY <1>2, <1>3

LEMMA AnswerTypes ==
    ASSUME NEW cmd \in StoreCommand, NEW f \in Files, NamesCook(cmd) => f.journal # None
    PROVE  Answer(cmd, f) \in Seq(StoreEvent)
<1> DEFINE shown == [cook |-> f.journal.cook, title |-> f.journal.title, turnOff |-> f.journal.turnOff]
           recent == Recent(f.history)
           told == [kind |-> "history", entries |-> recent]
           patched == [kind |-> "patched"]
           fetched == [kind |-> "fetched", cook |-> shown]
<1>1. told \in StoreEvent /\ patched \in StoreEvent
  <2>1. f.history \in Seq(HistoryEntry)
    BY DEF Files
  <2>2. recent \in Seq(HistoryEntry)
    BY <2>1, RecentType
  <2> HIDE DEF recent
  <2> QED BY <2>2 DEF StoreEvent
<1>2. f.journal # None => fetched \in StoreEvent
  <2>1. f.journal # None => f.journal \in Journal
    BY DEF Files
  <2>2. f.journal # None => shown \in CurrentCook
    BY <2>1 DEF Journal, CurrentCook
  <2> HIDE DEF shown
  <2> QED BY <2>2 DEF StoreEvent
<1>3. Refreshed(f) = <<told>> /\ Fetched(f) = <<fetched>>
  BY DEF Refreshed, Fetched
<1> HIDE DEF told, patched, fetched
<1>4. /\ <<told>> \in Seq(StoreEvent) /\ <<patched>> \in Seq(StoreEvent) /\ <<>> \in Seq(StoreEvent)
      /\ f.journal # None => <<fetched>> \in Seq(StoreEvent)
  BY <1>1, <1>2
<1>5. CASE cmd.kind = "fetch"
  <2>1. Answer(cmd, f) = IF cmd.cook = None THEN <<>> ELSE <<fetched>>
    BY <1>3, <1>5 DEF Answer
  <2> QED BY <1>4, <1>5, <2>1 DEF NamesCook
<1>6. CASE cmd.kind = "started"
  <2>1. Answer(cmd, f) = <<patched>> \o (IF Recorded(f) THEN <<told>> ELSE <<>>)
    BY <1>3, <1>6 DEF Answer, patched
  <2> QED BY <1>4, <2>1, ConcatProperties
<1>7. CASE cmd.kind \in {"history", "reported", "link"}
  <2>1. Answer(cmd, f) \in {<<told>>, <<>>}
    BY <1>3, <1>7 DEF Answer
  <2> QED BY <1>4, <2>1
<1> QED BY <1>5, <1>6, <1>7 DEF StoreCommand

LEMMA StoreStepTracked == ASSUME IInv, JInv, RInv, IInv', JInv', StoreStep PROVE RInv'
<1> DEFINE cmd == Head(storeCmd)
<1>1. /\ storeCmd # <<>> /\ UNCHANGED <<wsCmd, wsEvt, smVars, ovenVars, deviceVars, saving, budget>>
      /\ watched' = IF Watches(cmd) THEN cmd.cook ELSE watched
  BY DEF StoreStep, HandleCommand, modelVars
<1>2. PICK found \in BOOLEAN :
        /\ files' = Last(Trail(cmd, found))
        /\ storeEvt' = storeEvt \o Answer(cmd, files')
  <2>1. RecipeFound \subseteq BOOLEAN
    BY LocalStoreAssumption
  <2> QED BY <2>1 DEF StoreStep, HandleCommand
<1>3. cmd \in StoreCommand
  BY <1>1, HeadGood
<1> HIDE DEF cmd
<1>4. storeEvt \in Seq(StoreEvent) /\ watched \in CookOrNone /\ files \in Files /\ files' \in Files
  BY DEF RInv, TypeOK, ChannelsTypeOK, StoreTypeOK, IInv, OnDisk
<1>5. Answer(cmd, files') \in Seq(StoreEvent)
  BY <1>2, <1>3, <1>4, FetchJournals, AnswerTypes
<1>6. storeEvt' \in Seq(StoreEvent)
  BY <1>2, <1>4, <1>5, ConcatProperties
<1>7. watched' \in CookOrNone
  BY <1>1, <1>3, <1>4 DEF Watches, StoreCommand
<1> QED BY <1>1, <1>6, <1>7, StoreTracked

LEMMA StoreFailsTracked == ASSUME RInv, IInv', JInv', StoreFails PROVE RInv'
<1>1. /\ UNCHANGED <<wsCmd, wsEvt, smVars, ovenVars, deviceVars, saving, budget>>
      /\ storeEvt' \in Seq(StoreEvent) /\ watched' \in CookOrNone
  BY DEF StoreFails, FailCommand, RInv, TypeOK, ChannelsTypeOK, StoreTypeOK
<1> QED BY <1>1, StoreTracked

\* Right after a start of the server nothing is tracked.
Untracked ==
    /\ IInv /\ JInv
    /\ sm = SmInitState /\ announced = {} /\ session = FALSE /\ pending = <<>>
    /\ acking = {} /\ inbox = <<>> /\ processed = {} /\ wsCmd = <<>> /\ wsEvt = <<>>
    /\ storeEvt = <<>> /\ saving = None /\ watched = None
    /\ oven \in OvenState /\ budget \in Budgets

LEMMA UntrackedStarts == Untracked => RInv
<1> SUFFICES ASSUME Untracked PROVE RInv
  OBVIOUS
<1>1. /\ SmInitState \in SmState /\ SmInitState.controls = <<>> /\ SmInitState.stop = None
      /\ SmInitState.lifecycle = "Idle" /\ SmInitState.watch = None
  <2>1. <<>> \in Seq(Requests) /\ <<>> \in Seq(HistoryEntry)
    BY EmptySeq
  <2> QED BY <2>1 DEF SmInitState, SmState, CookOrNone
<1>2. IsInjective(<<>>) /\ Range(<<>>) = {}
  BY EmptyQueue DEF IsInjective
<1>3. Sound(sm)
  BY <1>1, <1>2 DEF Sound, Untracked
<1>4. /\ <<>> \in Seq(WsCommand) /\ <<>> \in Seq(WsEvent) /\ <<>> \in Seq(StoreEvent)
      /\ <<>> \in Seq(Ids) /\ None \in CookOrNone
  BY EmptySeq DEF CookOrNone
<1>5. TypeOK
  <2>1. /\ storeCmd \in Seq(StoreCommand) /\ files \in Files /\ begun \subseteq Cooks
    BY DEF Untracked, IInv, Known, OnDisk
  <2>2. Bounded
    BY DEF Untracked, JInv
  <2> QED BY <1>1, <1>4, <2>1, <2>2
  DEF Untracked, TypeOK, ChannelsTypeOK, SmTypeOK, OvenTypeOK, DeviceTypeOK, StoreTypeOK, Bounded
<1>6. InFlight = {}
  BY <1>2, NoIds DEF Untracked, InFlight, InCommands, PendingIds, InAcks
<1>7. StartsBegun /\ RequestsTracked /\ StartHeralded
  BY <1>1, <1>2, <1>6 DEF Untracked, StartsBegun, RequestsTracked, StartHeralded
<1>8. IsFiniteSet(processed) /\ IsFiniteSet(acking) /\ (sm.watch # None => OvenCooking(sm))
  BY <1>1, FS_EmptySet DEF Untracked
<1> QED BY <1>3, <1>5, <1>7, <1>8 DEF RInv

LEMMA CrashTracked == ASSUME RInv, IInv', JInv', Crash PROVE RInv'
<1>1. oven \in OvenState /\ budget \in Budgets
  BY DEF RInv, TypeOK, OvenTypeOK
<1>2. Untracked'
  BY <1>1 DEF Crash, StoreCrash, Untracked
<1> QED BY <1>2, UntrackedStarts, PTL

LEMMA RequestsInit == Init /\ IInv /\ JInv => RInv
<1>1. Init => oven \in OvenState
  BY OvenAssumption, MessagesAssumption DEF Init, OvenInit, OvenState, CookOrNone
<1>2. Init /\ IInv /\ JInv => Untracked
  BY <1>1 DEF Init, SmInit, OvenInit, DeviceInit, StoreInit, Untracked
<1> QED BY <1>2, UntrackedStarts

LEMMA RequestsStep ==
    ASSUME IInv, JInv, RInv, IInv', JInv', EnoughIds, [Next]_vars PROVE RInv'
<1>1. CASE SmStep
  BY <1>1, SmStepTracked
<1>2. CASE LinkStep
  BY <1>2, LinkStepTracked
<1>3. CASE OvenActs
  BY <1>3, OvenActsTracked
<1>4. CASE StoreStep
  BY <1>4, StoreStepTracked
<1>5. CASE StoreFails
  BY <1>5, StoreFailsTracked
<1>6. CASE Crash
  BY <1>6, CrashTracked
<1>7. CASE UNCHANGED vars
  <2>1. /\ UNCHANGED <<wsCmd, wsEvt, smVars, ovenVars, deviceVars, saving, budget>>
        /\ storeEvt' \in Seq(StoreEvent) /\ watched' \in CookOrNone
    BY <1>7 DEF vars, channels, storeVars, modelVars, RInv, TypeOK, ChannelsTypeOK, StoreTypeOK
  <2> QED BY <2>1, StoreTracked
<1> QED BY <1>1, <1>2, <1>3, <1>4, <1>5, <1>6, <1>7 DEF Next

-----------------------------------------------------------------------------
(* Ids do not run out if there are infinitely many: only finitely many are *)
(* in use.                                                                 *)

LEMMA FiniteRange == ASSUME NEW s, IsSeq(s) PROVE IsFiniteSet(Range(s))
<1> DEFINE S == DOMAIN s
           T == Range(s)
<1>1. Len(s) \in Nat /\ S = 1..Len(s)
  BY QueueDomain
<1>2. IsFiniteSet(S)
  BY <1>1, FS_Interval
<1>3. s \in [S -> T]
  <2>1. s = [i \in 1..Len(s) |-> s[i]]
    BY LenProperties DEF IsSeq
  <2> QED BY <1>1, <2>1 DEF Range
<1>4. s \in Surjection(S, T)
  BY <1>3 DEF Surjection, Range
<1> HIDE DEF S, T
<1>5. IsFiniteSet(T)
  BY <1>2, <1>4, FS_Surjection
<1> QED BY <1>5 DEF T

LEMMA FiniteIds ==
    ASSUME NEW s, IsSeq(s) PROVE IsFiniteSet(CommandIds(s)) /\ IsFiniteSet(AckIds(s))
<1> DEFINE q == [i \in 1..Len(s) |-> s[i].id]
<1>1. Len(s) \in Nat /\ DOMAIN s = 1..Len(s)
  BY QueueDomain
<1>2. q \in Seq(Range(q)) /\ Range(q) = CommandIds(s)
  <2>1. Range(q) = CommandIds(s)
    BY <1>1 DEF Range, CommandIds
  <2>2. \A i \in 1..Len(s) : q[i] \in Range(q)
    BY DEF Range
  <2>3. q \in [1..Len(s) -> Range(q)]
    BY <2>2
  <2> QED BY <1>1, <2>1, <2>3, SeqDef
<1>3. IsFiniteSet(CommandIds(s))
  BY <1>2, TypedQueue, FiniteRange
<1>4. AckIds(s) \subseteq CommandIds(s)
  BY DEF AckIds, CommandIds
<1> QED BY <1>3, <1>4, FS_Subset

LEMMA FewInUse == ASSUME RInv PROVE IsFiniteSet(InUse)
<1>1. IsSeq(wsCmd) /\ IsSeq(wsEvt) /\ IsSeq(inbox) /\ IsSeq(pending) /\ IsSeq(sm.controls)
  BY TypedQueue DEF RInv, TypeOK, ChannelsTypeOK, OvenTypeOK, DeviceTypeOK, Sound, SmState
<1>2. /\ IsFiniteSet(InCommands) /\ IsFiniteSet(PendingIds) /\ IsFiniteSet(InAcks)
      /\ IsFiniteSet(InInbox) /\ IsFiniteSet(Range(sm.controls))
  BY <1>1, FiniteIds, FiniteRange DEF InCommands, PendingIds, InAcks, InInbox
<1>3. IsFiniteSet(processed) /\ IsFiniteSet(acking) /\ IsFiniteSet({sm.stop})
  BY FS_Singleton DEF RInv
<1> QED BY <1>2, <1>3, FS_Union DEF InUse

LEMMA AlwaysEnough == ASSUME ~IsFiniteSet(Requests), RInv PROVE EnoughIds
<1>1. IsFiniteSet(InUse)
  BY FewInUse
<1>2. \A S : IsFiniteSet(S) => \E id \in Requests : id \notin S
  BY FS_Subset
<1>3. PICK a \in Requests : a \notin InUse
  BY <1>1, <1>2
<1>4. IsFiniteSet(InUse \cup {a})
  BY <1>1, FS_AddElement
<1>5. PICK b \in Requests : b \notin InUse \cup {a}
  BY <1>2, <1>4
<1> QED BY <1>3, <1>5 DEF EnoughIds

-----------------------------------------------------------------------------

\* What the server waits for is on its way, in any behaviour in which the ids
\* do not run out (Uuid::new_v4 draws them in the code).
THEOREM RequestsInvariant == Spec /\ []EnoughIds => []RInv
<1>1. RInv /\ IInv /\ JInv /\ IInv' /\ JInv' /\ EnoughIds /\ [Next]_vars => RInv'
  BY RequestsStep
<1> QED BY <1>1, RequestsInit, Invariant, JournalInvariant, PTL DEF Spec

\* With infinitely many ids they never run out.
THEOREM EndlessIds == ASSUME ~IsFiniteSet(Requests) PROVE Spec => []RInv
<1>1. RInv => EnoughIds
  BY AlwaysEnough
<1>2. RInv /\ IInv /\ JInv /\ IInv' /\ JInv' /\ [Next]_vars => RInv'
  BY <1>1, RequestsStep
<1> QED BY <1>2, RequestsInit, Invariant, JournalInvariant, PTL DEF Spec

\* The whole server keeps its types: no queue, file, tracker or record that a
\* reducer, the device or the store builds is anything but what the message
\* contracts say (runtime/types.rs).
THEOREM ServerTypes ==
    /\ Spec /\ []EnoughIds => []TypeOK
    /\ ~IsFiniteSet(Requests) => (Spec => []TypeOK)
<1>1. RInv => TypeOK
  BY DEF RInv
<1>2. Spec /\ []EnoughIds => []TypeOK
  BY <1>1, RequestsInvariant, PTL
<1>3. ASSUME ~IsFiniteSet(Requests) PROVE Spec => []TypeOK
  BY <1>1, <1>3, EndlessIds, PTL
<1> QED BY <1>2, <1>3

\* A start shown as pending, and every control that is tracked, is queued,
\* waits for the oven, or is in an ack on its way, whatever becomes of
\* sessions, commands and reports: the trackers never wait for nothing
\* (apply_apo_state, apply_command_ack and the device's process_state and
\* expiry).  The start's ack finds the oven known to cook, because the report
\* it was found in goes ahead of it.
THEOREM RequestsAreTracked ==
    /\ Spec /\ []EnoughIds => []RequestsTracked
    /\ ~IsFiniteSet(Requests) => (Spec => []RequestsTracked)
<1>1. RInv => RequestsTracked
  BY DEF RInv
<1>2. Spec /\ []EnoughIds => []RequestsTracked
  BY <1>1, RequestsInvariant, PTL
<1>3. ASSUME ~IsFiniteSet(Requests) PROVE Spec => []RequestsTracked
  BY <1>1, <1>3, EndlessIds, PTL
<1> QED BY <1>2, <1>3

-----------------------------------------------------------------------------
(***************************************************************************)
(* Preheats.                                                               *)
(*                                                                         *)
(* The watch and the status shown go together (WatchShows): there is a     *)
(* watch exactly while a preheat shows, it is that preheat's, and once it  *)
(* is reached the cook shows as waiting if it is one that waits.  That it  *)
(* never shows as waiting for any other reason takes the oven's reports:   *)
(* a preheat is held there only if it waits (HeldFor), in the oven and in  *)
(* every report on its way.                                                *)
(***************************************************************************)

HeldFor(status, cook) ==
    status.ended /\ status.stage = 1 /\ cook \in PreheatCooks => cook \in WaitingCooks

ReportsHeld(evts) ==
    \A e \in Range(evts) : e.kind = "state" => HeldFor(e.status, e.cook)

Watched(s) == s.status # None /\ s.status.stage = 1 /\ s.oven_cook \in PreheatCooks

WatchShows(s) ==
    /\ s.watch # None <=> Watched(s)
    /\ Watched(s) =>
         /\ s.watch.recipe = RecipeOf(s.oven_cook)
         /\ s.status.ended <=> s.watch.reached /\ s.oven_cook \in WaitingCooks

PInv == HeldFor(oven, oven.cook) /\ ReportsHeld(wsEvt) /\ WatchShows(sm)

\* The same oven is shown.
SameOven(t, s) == t.status = s.status /\ t.watch = s.watch /\ t.oven_cook = s.oven_cook

LEMMA SameWatch == ASSUME NEW s, NEW t, SameOven(t, s), WatchShows(s) PROVE WatchShows(t)
  BY DEF SameOven, WatchShows, Watched

LEMMA FewerHeld ==
    ASSUME NEW evts, IsSeq(evts), ReportsHeld(evts), evts # <<>> PROVE ReportsHeld(Tail(evts))
  BY TailRange DEF ReportsHeld

\* What a report makes of the watch and of the status shown.
LEMMA ReportWatched ==
    ASSUME NEW s \in SmState, WatchShows(s), NEW status \in Status, NEW x \in CookOrNone,
           NEW over \in BOOLEAN, HeldFor(status, x),
           NEW t, t.oven_cook = x, t.watch = Watch(s, status, x, over),
           t.status = ShownStatus(s, t.watch, status, x)
    PROVE  WatchShows(t)
<1> DEFINE w == WatchFor(s, x)
           ended == [w EXCEPT !.reached = TRUE]
           near == [w EXCEPT !.near = status.near, !.reached = w.near /\ status.near /\ over]
           new == [recipe |-> RecipeOf(x), near |-> FALSE, reached |-> FALSE]
<1>1. /\ t.status \in Status /\ t.status.stage = status.stage
      /\ t.status = IF t.watch # None /\ t.watch.reached /\ x \in WaitingCooks
                      THEN [status EXCEPT !.ended = TRUE] ELSE status
  BY ShownTypes DEF ShownStatus
<1>2. [status EXCEPT !.ended = TRUE].ended = TRUE
  BY DEF Status
<1>3. Preheating(status, x) <=> x \in PreheatCooks /\ status.stage = 1
  BY LocalServerAssumption DEF Preheating, IsCooking
<1>4. Watched(t) <=> Preheating(status, x)
  BY <1>1, <1>3, StateMachineAssumption DEF Watched
<1>5. w \in PreheatWatch /\ w.recipe = RecipeOf(x)
  <2>1. RecipeOf(x) \in CookOrNone
    BY DEF RecipeOf, CookOrNone
  <2>2. new \in PreheatWatch /\ new.recipe = RecipeOf(x)
    BY <2>1 DEF PreheatWatch
  <2>3. s.watch \in PreheatWatch \cup {None}
    BY DEF SmState
  <2>4. w = new \/ (s.watch # None /\ s.watch.recipe = RecipeOf(x) /\ w = s.watch)
    BY DEF WatchFor
  <2> QED BY <2>2, <2>3, <2>4
<1> HIDE DEF w, new
<1>6. /\ ended \in PreheatWatch /\ ended.recipe = w.recipe /\ ended.reached = TRUE
      /\ near \in PreheatWatch /\ near.recipe = w.recipe
  BY <1>5 DEF PreheatWatch, Status
<1>7. t.watch = IF ~Preheating(status, x) THEN None
                ELSE IF status.ended THEN ended ELSE IF w.reached THEN w ELSE near
  BY DEF Watch, w, ended, near
<1> HIDE DEF ended, near
<1>8. t.watch # None <=> Preheating(status, x)
  BY <1>5, <1>6, <1>7, NoneIsNoWatch
<1>9. ASSUME Preheating(status, x)
      PROVE  /\ t.watch.recipe = RecipeOf(x)
             /\ t.status.ended <=> t.watch.reached /\ x \in WaitingCooks
  <2>1. t.watch.recipe = RecipeOf(x)
    BY <1>5, <1>6, <1>7, <1>9
  <2>2. status.ended => t.watch.reached /\ x \in WaitingCooks
    <3>1. status.ended => x \in WaitingCooks
      BY <1>3, <1>9 DEF HeldFor
    <3>2. status.ended => t.watch.reached = TRUE
      BY <1>6, <1>7, <1>9
    <3> QED BY <3>1, <3>2
  <2>3. CASE t.watch.reached /\ x \in WaitingCooks
    BY <1>1, <1>2, <1>8, <1>9, <2>1, <2>3
  <2>4. CASE ~(t.watch.reached /\ x \in WaitingCooks)
    <3>1. t.status = status
      BY <1>1, <2>4
    <3> QED BY <2>1, <2>2, <2>4, <3>1
  <2> QED BY <2>3, <2>4
<1> QED BY <1>4, <1>8, <1>9 DEF WatchShows

\* A report that neither says that the preheat has ended nor is near its
\* setpoint shows it as waiting only if it was reached before.
LEMMA ShownBefore ==
    ASSUME NEW s \in SmState, WatchShows(s), NEW status \in Status, NEW x \in CookOrNone,
           NEW over, NEW t, t.watch = Watch(s, status, x, over),
           t.status = ShownStatus(s, t.watch, status, x), t.status # None,
           t.status.ended, ~status.ended, ~status.near
    PROVE  /\ x \in WaitingCooks /\ RecipeOf(s.oven_cook) = RecipeOf(x)
           /\ Watched(s) /\ s.watch.reached
<1> DEFINE w == WatchFor(s, x)
           near == [w EXCEPT !.near = status.near, !.reached = w.near /\ status.near /\ over]
<1>1. t.watch # None /\ t.watch.reached /\ x \in WaitingCooks
  BY DEF ShownStatus
<1>2. t.watch = IF w.reached THEN w ELSE near
  BY <1>1 DEF Watch
<1> DEFINE new == [recipe |-> RecipeOf(x), near |-> FALSE, reached |-> FALSE]
<1>3. w = new \/ (w = s.watch /\ s.watch # None /\ s.watch.recipe = RecipeOf(x))
  BY DEF WatchFor
<1>4. w \in PreheatWatch /\ ~new.reached
  <2>1. RecipeOf(x) \in CookOrNone
    BY DEF RecipeOf, CookOrNone
  <2>2. new \in PreheatWatch /\ ~new.reached
    BY <2>1 DEF PreheatWatch
  <2>3. s.watch \in PreheatWatch \cup {None}
    BY DEF SmState
  <2> QED BY <1>3, <2>2, <2>3
<1> HIDE DEF w, new
<1>5. near.reached = (w.near /\ status.near /\ over)
  BY <1>4 DEF PreheatWatch
<1>6. w.reached
  BY <1>1, <1>2, <1>5
<1>7. s.watch # None /\ s.watch.recipe = RecipeOf(x) /\ s.watch.reached
  BY <1>3, <1>4, <1>6
<1> QED BY <1>1, <1>7 DEF WatchShows

-----------------------------------------------------------------------------
(* The server's steps.                                                     *)

LEMMA WatchTakesState ==
    ASSUME IInv, RInv, PInv, EnoughIds, SmTakesState
    PROVE  /\ WatchShows(sm') /\ ReportsHeld(wsEvt') /\ sm'.oven_cook = Head(wsEvt).cook
           /\ Head(wsEvt).status \in Status /\ Head(wsEvt).cook \in CookOrNone
           /\ \E over \in BOOLEAN :
                /\ sm'.watch = Watch(sm, Head(wsEvt).status, Head(wsEvt).cook, over)
                /\ sm'.status =
                     ShownStatus(sm, sm'.watch, Head(wsEvt).status, Head(wsEvt).cook)
<1> DEFINE e == Head(wsEvt)
           status == e.status
           x == e.cook
<1>1. wsEvt # <<>> /\ e.kind = "state" /\ wsEvt' = Tail(wsEvt)
  BY DEF SmTakesState, TakeApoState
<1>2. PICK over \in BOOLEAN :
        Perform(ReduceReport(sm, status, x, over, NewId, NewId, OtherNewId))
  BY DEF SmTakesState, TakeApoState
<1>3. IsSeq(wsEvt) /\ e \in WsEvent /\ sm \in SmState
  <2>1. wsEvt \in Seq(WsEvent) /\ sm \in SmState
    BY DEF RInv, TypeOK, ChannelsTypeOK, SmTypeOK
  <2> QED BY <1>1, <2>1, TypedQueue, HeadTailProperties
<1>4. e \in Range(wsEvt) /\ ReportsHeld(wsEvt') /\ WatchShows(sm)
  BY <1>1, <1>3, TailRange, FewerHeld DEF PInv
<1> HIDE DEF e
<1>5. status \in Status /\ x \in CookOrNone
  BY <1>1, <1>3 DEF WsEvent, LinkEvent, StateEvent, AckEvent
<1>6. HeldFor(status, x)
  BY <1>1, <1>4 DEF PInv, ReportsHeld
<1> HIDE DEF status, x
<1> DEFINE r == ReduceReport(sm, status, x, over, NewId, NewId, OtherNewId)
<1>7. PICK t : /\ Tracked(r, t, {}) /\ t.watch = Watch(sm, status, x, over)
               /\ t.status = ShownStatus(sm, t.watch, status, x)
  <2>1. Sound(sm) /\ (sm.watch # None => OvenCooking(sm))
    BY DEF RInv
  <2> QED BY <1>5, <2>1, FreshIds, ReportTracked
<1>8. r.sm.oven_cook = x
  <2>1. State(sm)
    BY DEF State, Fields, IInv, Known, Begun, CookOrNone, RInv, Sound, SmState
  <2>2. PICK u : Reported(u, sm, x) /\ Traced(r, u, sm.lifecycle # "StartPending")
    BY <1>5, <2>1, ReportTraced
  <2> QED BY <2>2 DEF Reported, Traced
<1>9. sm' = r.sm
  BY <1>2 DEF Perform
<1> HIDE DEF r
<1>10. /\ sm'.oven_cook = x /\ sm'.watch = Watch(sm, status, x, over)
       /\ sm'.status = ShownStatus(sm, sm'.watch, status, x)
  BY <1>7, <1>8, <1>9 DEF Tracked
<1>11. WatchShows(sm')
  BY <1>3, <1>4, <1>5, <1>6, <1>10, ReportWatched
<1> QED BY <1>4, <1>5, <1>10, <1>11 DEF status, x, e

\* No other step of the state machine touches the oven it shows.
LEMMA SmLeavesWatch ==
    ASSUME IInv, JInv, RInv, EnoughIds, SmStep, ~SmTakesState
    PROVE  SameOven(sm', sm) /\ wsEvt' \in {wsEvt, Tail(wsEvt)} /\ (wsEvt = <<>> => wsEvt' = wsEvt)
           /\ (wsEvt' # wsEvt => Head(wsEvt).kind # "state")
<1>1. Sound(sm) /\ State(sm) /\ Alike(sm, sm) /\ Tracked(On(sm), sm, {}) /\ Traced(On(sm), sm, FALSE)
  BY SmIsState, SameTracked, OnTraced DEF RInv
<1>2. /\ wsEvt \in Seq(WsEvent) /\ storeEvt \in Seq(StoreEvent) /\ sm \in SmState
  BY DEF RInv, TypeOK, ChannelsTypeOK, SmTypeOK
<1>3. ASSUME NEW r, NEW t, NEW u, NEW N, Perform(r), Tracked(r, t, N), Traced(r, u, FALSE),
             t.status = sm.status, t.watch = sm.watch, u.oven_cook = sm.oven_cook
      PROVE  SameOven(sm', sm)
  BY <1>3 DEF Perform, Tracked, Traced, SameOven
<1>4. CASE ClientStarts
  <2>1. PICK cook \in Cooks \ begun, turnOff \in TurnOffChoices : StartCook(cook, turnOff)
    BY <1>4 DEF ClientStarts
  <2> DEFINE v == [sm EXCEPT !.start = cook, !.lifecycle = "StartPending",
                             !.current_cook = [cook |-> cook, title |-> "started", turnOff |-> turnOff]]
  <2>2. Start(sm, cook, turnOff).sm = v
    BY DEF Start, Ask, Send, On
  <2>3. SameOven(v, sm)
    BY <1>2 DEF SameOven, SmState
  <2> QED BY <2>1, <2>2, <2>3 DEF StartCook, Perform
<1>5. CASE ClientActs
  <2> DEFINE N == {NewId, OtherNewId}
  <2>1. /\ N \subseteq Requests /\ NewId \in N /\ OtherNewId \in N /\ NewId # OtherNewId
        /\ N \cap (Range(sm.controls) \cup {sm.stop}) = {}
    BY FreshIds
  <2> HIDE DEF N
  <2>2. Tracked(On(sm), sm, N)
    BY <1>1, <2>1, OnTracked
  <2>3. CASE StopCook(NewId, OtherNewId)
    <3> DEFINE r == Stop(On(sm), NewId, OtherNewId)
    <3>1. Perform(r) /\ wsEvt' = wsEvt
      BY <2>3 DEF StopCook
    <3>2. Traced(r, sm, FALSE)
      BY <1>1, StopTraced
    <3>3. NewId \in N \ {OtherNewId}
      BY <2>1
    <3>4. Tracked(r, sm, {})
      BY <2>1, <2>2, <3>3, StopTracked
    <3> HIDE DEF r
    <3> QED BY <1>3, <3>1, <3>2, <3>4
  <2>4. CASE \E kind \in ClientRequests \cap Controls : ControlCook(kind, NewId)
    <3>1. PICK kind : ControlCook(kind, NewId)
      BY <2>4
    <3> DEFINE cmd == Control(sm, kind, NewId)
               r == SendControl(On(sm), cmd)
    <3>2. Perform(r) /\ wsEvt' = wsEvt
      BY <3>1 DEF ControlCook
    <3>3. r.sm = [sm EXCEPT !.controls = Newest(Append(@, cmd.id))]
      BY <1>2 DEF SendControl, Send, On
    <3> HIDE DEF cmd
    <3>4. SameOven(r.sm, sm)
      BY <1>2, <3>3 DEF SameOven, SmState
    <3> QED BY <3>2, <3>4 DEF Perform
  <2> QED BY <1>5, <2>3, <2>4 DEF ClientActs
<1>6. CASE SaveReadsCook \/ (SaveLinksCook /\ sm.current_cook = None)
  BY <1>6 DEF SaveReadsCook, SaveLinksCook, LinkCurrentCook, channels, smVars, SameOven
<1>7. CASE SaveLinksCook /\ sm.current_cook # None
  <2>1. Perform(LinkShown(sm)) /\ wsEvt' = wsEvt
    BY <1>7 DEF SaveLinksCook, LinkCurrentCook
  <2>2. Tracked(LinkShown(sm), sm, {}) /\ Traced(LinkShown(sm), sm, FALSE)
    BY <1>1, <1>7, ShownTracked, ShownTraced
  <2> QED BY <1>3, <2>1, <2>2
<1>8. CASE SmTakesAck
  <2> DEFINE e == Head(wsEvt)
             r == ApplyCommandAck(sm, e.id, e.ok)
  <2>1. wsEvt # <<>> /\ e.kind = "ack" /\ wsEvt' = Tail(wsEvt) /\ Perform(r)
    BY <1>8 DEF SmTakesAck, TakeAck
  <2>2. e.id \in Ids /\ e.ok \in BOOLEAN
    <3>1. e \in WsEvent
      BY <1>2, <2>1, HeadTailProperties
    <3> HIDE DEF e
    <3> QED BY <2>1, <3>1 DEF WsEvent, LinkEvent, StateEvent, AckEvent
  <2>3. PICK t : Tracked(r, t, {}) /\ t.status = sm.status /\ t.watch = sm.watch
    BY <1>1, <2>2, AckTracked
  <2>4. Traced(r, sm, FALSE)
    BY <1>1, AckTraced
  <2> HIDE DEF r
  <2> QED BY <1>3, <2>1, <2>3, <2>4
<1>9. CASE SmTakesLink
  <2> DEFINE r == ApplyLink(sm, Head(wsEvt).kind)
  <2>1. /\ wsEvt # <<>> /\ Head(wsEvt).kind \in {"connected", "disconnected", "discovered"}
        /\ wsEvt' = Tail(wsEvt) /\ Perform(r)
    BY <1>9 DEF SmTakesLink, TakeLink
  <2>2. Tracked(r, sm, {}) /\ Traced(r, sm, FALSE)
    BY <1>1, <2>1, LinkTracked, LinkTraced
  <2> HIDE DEF r
  <2> QED BY <1>3, <2>1, <2>2
<1>10. CASE SmTakesStore
  <2> DEFINE evt == Head(storeEvt)
             a == [sm EXCEPT !.current_cook = evt.cook]
             b == [sm EXCEPT !.history = evt.entries]
  <2>1. wsEvt' = wsEvt /\ storeEvt # <<>> /\ Perform(ApplyStoreEvent(sm, evt))
    BY <1>10 DEF SmTakesStore, TakeStoreEvent
  <2>2. evt.kind \in {"fetched", "history", "patched"}
    <3>1. evt \in StoreEvent
      BY <1>2, <2>1, HeadTailProperties
    <3> HIDE DEF evt
    <3> QED BY <3>1 DEF StoreEvent
  <2>3. ApplyStoreEvent(sm, evt).sm \in {a, b, sm}
    <3> HIDE DEF evt
    <3> QED BY <2>2 DEF ApplyStoreEvent, FetchCurrentCook, Ask, On
  <2>4. SameOven(a, sm) /\ SameOven(b, sm) /\ SameOven(sm, sm)
    BY <1>2 DEF SameOven, SmState
  <2> QED BY <2>1, <2>3, <2>4 DEF Perform
<1>11. CASE SmTicks
  <2>1. wsEvt' = wsEvt
    BY <1>11 DEF SmTicks, CurrentCookTick, HistoryTick
  <2>2. PICK r \in {FetchCurrentCook(On(sm)), RefreshHistory(On(sm))} : Perform(r)
    BY <1>11 DEF SmTicks, CurrentCookTick, HistoryTick
  <2>3. Tracked(r, sm, {}) /\ Traced(r, sm, FALSE)
    BY <1>1, FetchTracked, HistoryTracked, FetchTraced, HistoryTraced
  <2> QED BY <1>3, <2>1, <2>2, <2>3
<1>12. \/ wsEvt' = wsEvt
       \/ wsEvt # <<>> /\ wsEvt' = Tail(wsEvt) /\ Head(wsEvt).kind # "state"
  BY DEF SmStep, ClientStarts, StartCook, ClientActs, StopCook, ControlCook, SaveReadsCook,
         SaveLinksCook, LinkCurrentCook, SmTakesAck, TakeAck, SmTakesLink, TakeLink, SmTakesStore,
         TakeStoreEvent, SmTicks, CurrentCookTick, HistoryTick, channels
<1> QED
  BY <1>4, <1>5, <1>6, <1>7, <1>8, <1>9, <1>10, <1>11, <1>12 DEF SmStep

-----------------------------------------------------------------------------
(* The other steps.                                                        *)

LEMMA MoreHeld ==
    ASSUME NEW evts, IsSeq(evts), ReportsHeld(evts), NEW new \in Seq(LinkEvent)
    PROVE  /\ ReportsHeld(evts \o new)
           /\ Len(evts \o new) >= Len(evts) /\ Len(evts \o new) \in Nat
<1>1. \A e \in Range(new) : e \in LinkEvent
  BY ElementOfSeq, LenProperties DEF Range
<1>2. \A e \in LinkEvent : e.kind # "state"
  BY DEF LinkEvent
<1>3. IsSeq(new) /\ Len(new) \in Nat /\ Len(evts) \in Nat
  BY TypedQueue, QueueDomain
<1>4. Range(evts \o new) = Range(evts) \cup Range(new) /\ Len(evts \o new) = Len(evts) + Len(new)
  BY <1>3, ConcatRange
<1> QED BY <1>1, <1>2, <1>3, <1>4 DEF ReportsHeld

LEMMA OneMoreHeld ==
    ASSUME NEW evts, IsSeq(evts), ReportsHeld(evts),
           NEW e, e.kind = "state" => HeldFor(e.status, e.cook)
    PROVE  /\ IsSeq(Append(evts, e)) /\ ReportsHeld(Append(evts, e))
           /\ Len(Append(evts, e)) = Len(evts) + 1 /\ Len(evts) \in Nat
  BY AppendRange, QueueDomain DEF ReportsHeld

\* The device adds events behind those there are; it reports the oven's own
\* stage and whether it is held.
LEMMA LinkReportsHeld ==
    ASSUME RInv, PInv, LinkStep
    PROVE  ReportsHeld(wsEvt') /\ Len(wsEvt') \in Nat /\ Len(wsEvt') >= Len(wsEvt)
<1>1. IsSeq(wsEvt) /\ ReportsHeld(wsEvt) /\ Len(wsEvt) \in Nat
  BY TypedQueue, QueueDomain DEF RInv, TypeOK, ChannelsTypeOK, PInv
<1>2. Farewell \in Seq(LinkEvent) /\ Greeting \in Seq(LinkEvent) /\ <<>> \in Seq(LinkEvent)
  BY DEF Greeting, Farewell, Link, LinkEvent
<1>3. CASE OvenConnects
  <2>1. PICK rateSent \in BOOLEAN :
          wsEvt' = wsEvt \o ((IF session THEN Farewell ELSE <<>>) \o Greeting
                            \o (IF rateSent THEN <<>> ELSE Farewell))
    BY <1>3 DEF OvenConnects
  <2> DEFINE new == (IF session THEN Farewell ELSE <<>>) \o Greeting
                       \o (IF rateSent THEN <<>> ELSE Farewell)
  <2>2. new \in Seq(LinkEvent)
    BY <1>2, ConcatProperties
  <2>3. wsEvt' = wsEvt \o new
    BY <2>1
  <2> HIDE DEF new
  <2> QED BY <1>1, <2>2, <2>3, MoreHeld
<1>4. CASE SessionEnds
  BY <1>1, <1>2, <1>4, MoreHeld DEF SessionEnds
<1>5. CASE LinkReports
  <2>1. PICK status \in Reports : wsEvt' = Append(wsEvt, ApoState(status, oven.cook))
    BY <1>5 DEF LinkReports, OvenReports
  <2>2. HeldFor(status, oven.cook)
    <3>1. status.stage = oven.stage /\ status.ended = oven.ended
      BY DEF Reports
    <3> QED BY <3>1 DEF PInv, HeldFor
  <2> DEFINE e == ApoState(status, oven.cook)
  <2>3. e.status = status /\ e.cook = oven.cook
    BY DEF ApoState
  <2> HIDE DEF e
  <2>4. wsEvt' = Append(wsEvt, e)
    BY <2>1 DEF e
  <2> QED BY <1>1, <2>2, <2>3, <2>4, OneMoreHeld
<1>6. ASSUME NEW id, NEW ok
      PROVE  LET q == Append(wsEvt, Ack(id, ok))
             IN IsSeq(q) /\ ReportsHeld(q) /\ Len(q) = Len(wsEvt) + 1
  <2> DEFINE e == Ack(id, ok)
  <2>1. e.kind # "state"
    BY DEF Ack
  <2> HIDE DEF e
  <2> QED BY <1>1, <2>1, OneMoreHeld DEF e
<1>7. CASE AckHandled
  <2>1. PICK i \in DOMAIN pending : wsEvt' = Append(wsEvt, Ack(pending[i], TRUE))
    BY <1>7 DEF AckHandled
  <2> DEFINE q == Append(wsEvt, Ack(pending[i], TRUE))
  <2>2. ReportsHeld(q) /\ Len(q) = Len(wsEvt) + 1
    BY <1>6
  <2> HIDE DEF q
  <2>3. wsEvt' = q
    BY <2>1 DEF q
  <2> QED BY <1>1, <2>2, <2>3
<1>8. CASE AckTimeout
  <2> DEFINE q == Append(wsEvt, Ack(Head(pending), FALSE))
  <2>1. ReportsHeld(q) /\ Len(q) = Len(wsEvt) + 1
    BY <1>6
  <2>2. wsEvt' = q
    BY <1>8 DEF AckTimeout
  <2> HIDE DEF q
  <2> QED BY <1>1, <2>1, <2>2
<1>9. CASE DeviceTakesCommand
  <2>1. CASE wsEvt' = wsEvt
    BY <1>1, <2>1
  <2> DEFINE q == Append(wsEvt, Ack(Head(wsCmd).id, FALSE))
  <2>2. IsSeq(q) /\ ReportsHeld(q) /\ Len(q) = Len(wsEvt) + 1
    BY <1>6
  <2>3. wsEvt' \in {wsEvt, q, q \o Farewell}
    BY <1>9 DEF DeviceTakesCommand, NoOven, Sent, SendFailed
  <2> HIDE DEF q
  <2>4. CASE wsEvt' = q
    BY <1>1, <2>2, <2>4
  <2>5. CASE wsEvt' = q \o Farewell
    <3>1. ReportsHeld(q \o Farewell) /\ Len(q \o Farewell) >= Len(q)
      BY <1>2, <2>2, MoreHeld
    <3>2. Len(q \o Farewell) \in Nat
      BY <1>2, <2>2, TypedQueue, ConcatRange, QueueDomain
    <3> QED BY <1>1, <2>2, <2>5, <3>1, <3>2
  <2> QED BY <2>1, <2>3, <2>4, <2>5
<1> QED BY <1>3, <1>4, <1>5, <1>7, <1>8, <1>9 DEF LinkStep

\* The oven holds a preheat at its end only if the cook waits for the user.
LEMMA OvenHolds == ASSUME RInv, PInv, OvenActs PROVE HeldFor(oven', oven'.cook)
<1>1. oven \in OvenState /\ HeldFor(oven, oven.cook) /\ inbox \in Seq(WsCommand)
  BY DEF RInv, TypeOK, OvenTypeOK, PInv
<1>2. ASSUME oven' = oven PROVE HeldFor(oven', oven'.cook)
  BY <1>1, <1>2
<1>3. ASSUME ~oven'.ended PROVE HeldFor(oven', oven'.cook)
  BY <1>3 DEF HeldFor
<1>4. ASSUME NEW on, oven' = Lamp(on) PROVE HeldFor(oven', oven'.cook)
  BY <1>1, <1>4 DEF Lamp, HeldFor, OvenState
<1>5. CASE OvenHandles
  <2> DEFINE cmd == Head(inbox)
  <2>1. inbox # <<>> /\ oven' = Effect(cmd)
    BY <1>5 DEF OvenHandles
  <2>2. cmd \in WsCommand
    BY <1>1, <2>1, HeadTailProperties
  <2> HIDE DEF cmd
  <2>3. cmd.kind \in {"start", "stop", "lampOn", "lampOff", "nextStage"}
    BY <2>2 DEF WsCommand
  <2>4. ~Run(cmd.id).ended /\ ~Off.ended
    BY DEF Run, Off
  <2>5. StartStage(cmd.recipe, cmd.stage) = oven \/ ~StartStage(cmd.recipe, cmd.stage).ended
    BY DEF StartStage
  <2> QED BY <1>2, <1>3, <1>4, <2>1, <2>3, <2>4, <2>5 DEF Effect
<1>6. CASE OvenDrops
  BY <1>2, <1>6 DEF OvenDrops
<1>7. CASE PanelStart
  <2>1. PICK cook \in Cooks : oven' = Run(cook)
    BY <1>7 DEF PanelStart
  <2>2. ~Run(cook).ended
    BY DEF Run
  <2> QED BY <1>3, <2>1, <2>2
<1>8. CASE PanelStop
  BY <1>3, <1>8 DEF PanelStop, Off
<1>9. CASE StageEnds
  <2>1. CASE Hold
    <3>1. /\ oven'.stage = oven.stage /\ oven'.cook = oven.cook
      BY <1>1, <1>9, <2>1 DEF StageEnds, OvenState
    <3>2. oven.cook \in PreheatCooks => LastStage # 1
      BY MessagesAssumption
    <3> QED BY <2>1, <3>1, <3>2 DEF Hold, HeldFor
  <2>2. CASE ~Hold
    <3>1. ~oven'.ended
      BY <1>1, <1>9, <2>2 DEF StageEnds, OvenState
    <3> QED BY <1>3, <3>1
  <2> QED BY <2>1, <2>2
<1> QED BY <1>5, <1>6, <1>7, <1>8, <1>9 DEF OvenActs

\* Nothing is shown right after a start of the server.
LEMMA UnseenWatch == ASSUME sm = SmInitState, wsEvt = <<>> PROVE ReportsHeld(wsEvt) /\ WatchShows(sm)
  BY EmptyQueue DEF SmInitState, ReportsHeld, WatchShows, Watched

LEMMA PreheatInit == Init => PInv
<1> SUFFICES ASSUME Init PROVE PInv
  OBVIOUS
<1>1. sm = SmInitState /\ wsEvt = <<>> /\ ~oven.ended
  BY DEF Init, SmInit, OvenInit
<1> QED BY <1>1, UnseenWatch DEF PInv, HeldFor

LEMMA PreheatStep ==
    ASSUME IInv, JInv, RInv, PInv, EnoughIds, [Next]_vars PROVE PInv'
<1>1. IsSeq(wsEvt) /\ HeldFor(oven, oven.cook) /\ ReportsHeld(wsEvt) /\ WatchShows(sm)
  BY TypedQueue DEF RInv, TypeOK, ChannelsTypeOK, PInv
<1>2. CASE SmStep
  <2>1. oven' = oven
    BY <1>2 DEF SmStep, ClientStarts, ClientActs, SaveReadsCook, SaveLinksCook, SmTakesState,
      SmTakesAck, SmTakesLink, SmTakesStore, SmTicks, ovenVars
  <2>2. CASE SmTakesState
    BY <1>1, <2>1, <2>2, WatchTakesState DEF PInv
  <2>3. CASE ~SmTakesState
    <3>1. SameOven(sm', sm) /\ wsEvt' \in {wsEvt, Tail(wsEvt)} /\ (wsEvt = <<>> => wsEvt' = wsEvt)
      BY <1>2, <2>3, SmLeavesWatch
    <3>2. WatchShows(sm')
      BY <1>1, <3>1, SameWatch
    <3>3. ReportsHeld(wsEvt')
      BY <1>1, <3>1, FewerHeld
    <3> QED BY <1>1, <2>1, <3>2, <3>3 DEF PInv
  <2> QED BY <2>2, <2>3
<1>3. CASE LinkStep
  <2>1. sm' = sm /\ oven' = oven
    BY <1>3 DEF LinkStep, smVars, OvenConnects, SessionEnds, LinkReports, OvenReports, AckHandled,
      AckTimeout, DeviceTakesCommand, ovenVars
  <2>2. ReportsHeld(wsEvt')
    BY <1>3, LinkReportsHeld
  <2> QED BY <1>1, <2>1, <2>2 DEF PInv
<1>4. CASE OvenActs
  <2>1. sm' = sm /\ wsEvt' = wsEvt
    BY <1>4 DEF OvenActs, smVars, channels
  <2>2. HeldFor(oven', oven'.cook)
    BY <1>4, OvenHolds
  <2> QED BY <1>1, <2>1, <2>2 DEF PInv
<1>5. CASE StoreStep \/ StoreFails \/ UNCHANGED vars
  <2>1. sm' = sm /\ wsEvt' = wsEvt /\ oven' = oven
    BY <1>5 DEF StoreStep, StoreFails, vars, smVars, channels, ovenVars
  <2> QED BY <1>1, <2>1 DEF PInv
<1>6. CASE Crash
  <2>1. sm' = SmInitState /\ wsEvt' = <<>> /\ oven' = oven
    BY <1>6 DEF Crash
  <2>2. ReportsHeld(wsEvt') /\ WatchShows(sm')
    BY <2>1, EmptyQueue DEF SmInitState, ReportsHeld, WatchShows, Watched
  <2> QED BY <1>1, <2>1, <2>2 DEF PInv
<1> QED BY <1>2, <1>3, <1>4, <1>5, <1>6 DEF Next

\* A step that takes a report, or after which the same oven or none is shown.
LEMMA WatchSteps ==
    ASSUME IInv, JInv, RInv, PInv, EnoughIds, [Next]_vars, ~SmTakesState, sm'.status # None
    PROVE  SameOven(sm', sm) /\ ~TakesState
<1>1. IsSeq(wsEvt)
  BY TypedQueue DEF RInv, TypeOK, ChannelsTypeOK
<1>2. TakesState => Len(wsEvt') < Len(wsEvt)
  <2>1. wsEvt # <<>> => Len(Tail(wsEvt)) = Len(wsEvt) - 1 /\ Len(wsEvt) \in Nat
    BY <1>1, TailRange, QueueDomain
  <2> QED BY <2>1 DEF TakesState
<1>3. Len(wsEvt) \in Nat
  BY <1>1, QueueDomain
<1>4. CASE SmStep
  <2>1. SameOven(sm', sm) /\ (wsEvt' # wsEvt => Head(wsEvt).kind # "state")
    BY <1>4, SmLeavesWatch
  <2>2. TakesState => wsEvt' # wsEvt
    BY <1>2, <1>3
  <2> QED BY <2>1, <2>2 DEF TakesState
<1>5. CASE LinkStep
  <2>1. Len(wsEvt') >= Len(wsEvt) /\ sm' = sm
    BY <1>5, LinkReportsHeld DEF LinkStep, smVars
  <2>2. Len(wsEvt') \in Nat
    BY <1>5, LinkReportsHeld
  <2> QED BY <1>2, <1>3, <2>1, <2>2 DEF SameOven
<1>6. CASE OvenActs \/ StoreStep \/ StoreFails \/ UNCHANGED vars
  <2>1. sm' = sm /\ wsEvt' = wsEvt
    BY <1>6 DEF OvenActs, StoreStep, StoreFails, vars, smVars, channels
  <2> QED BY <1>2, <1>3, <2>1 DEF SameOven
<1>7. ~Crash
  BY DEF Crash, SmInitState
<1> QED BY <1>4, <1>5, <1>6, <1>7 DEF Next

LEMMA WaitingStep ==
    ASSUME IInv, JInv, RInv, PInv, PInv', EnoughIds, [Next]_vars,
           ShowsWaiting(sm), sm.oven_cook \in PreheatCooks, sm'.oven_cook = sm.oven_cook,
           sm'.status # None, sm'.status.stage = 1
    PROVE  sm'.status.ended
<1>1. Watched(sm) /\ Watched(sm') /\ WatchShows(sm) /\ WatchShows(sm')
  BY DEF ShowsWaiting, Watched, PInv
<1>2. sm.watch # None /\ sm.watch.reached /\ sm.oven_cook \in WaitingCooks
        /\ sm.watch.recipe = RecipeOf(sm.oven_cook)
  BY <1>1 DEF WatchShows, ShowsWaiting
<1>3. CASE SmTakesState
  <2> DEFINE status == Head(wsEvt).status
  <2>1. PICK over \in BOOLEAN : sm'.watch = Watch(sm, status, sm'.oven_cook, over)
    BY <1>3, WatchTakesState
  <2> HIDE DEF status
  <2>2. WatchFor(sm, sm'.oven_cook) = sm.watch
    BY <1>2 DEF WatchFor
  <2>3. sm'.watch # None
    BY <1>1 DEF WatchShows
  <2>4. sm.watch \in PreheatWatch
    BY <1>2 DEF RInv, Sound, SmState
  <2>5. [sm.watch EXCEPT !.reached = TRUE].reached
    BY <2>4 DEF PreheatWatch
  <2>6. sm'.watch.reached
    BY <1>2, <2>1, <2>2, <2>3, <2>5 DEF Watch
  <2> QED BY <1>1, <1>2, <2>6 DEF WatchShows
<1>4. CASE ~SmTakesState
  BY <1>4, WatchSteps DEF SameOven, ShowsWaiting
<1> QED BY <1>3, <1>4

LEMMA ReachedStep ==
    ASSUME ~SameRecipe, IInv, JInv, RInv, PInv, PInv', EnoughIds, [Next]_vars,
           TakesState, ShowsWaiting(sm'), Head(wsEvt).cook \in PreheatCooks
    PROVE  \/ Head(wsEvt).status.ended \/ Head(wsEvt).status.near
           \/ ShowsWaiting(sm) /\ sm.oven_cook = Head(wsEvt).cook
<1>1. SmTakesState
  BY WatchSteps DEF ShowsWaiting
<1> DEFINE status == Head(wsEvt).status
           x == Head(wsEvt).cook
<1> SUFFICES ASSUME ~status.ended, ~status.near PROVE ShowsWaiting(sm) /\ sm.oven_cook = x
  OBVIOUS
<1>2. PICK over \in BOOLEAN :
        sm'.watch = Watch(sm, status, x, over) /\ sm'.status = ShownStatus(sm, sm'.watch, status, x)
  BY <1>1, WatchTakesState
<1>3. status \in Status /\ x \in CookOrNone /\ sm \in SmState /\ WatchShows(sm)
  BY <1>1, WatchTakesState DEF RInv, Sound, PInv
<1> HIDE DEF status, x
<1>4. sm'.status # None /\ sm'.status.ended
  BY DEF ShowsWaiting
<1>5. /\ x \in WaitingCooks /\ RecipeOf(sm.oven_cook) = RecipeOf(x)
      /\ Watched(sm) /\ sm.watch.reached
  BY <1>2, <1>3, <1>4, ShownBefore
<1>6. sm.oven_cook = x
  BY <1>5 DEF RecipeOf
<1> QED BY <1>3, <1>5, <1>6 DEF WatchShows, Watched, ShowsWaiting

-----------------------------------------------------------------------------

\* What the watch says and what is shown go together, in any behaviour in
\* which the ids do not run out.
LEMMA PreheatInvariant ==
    /\ Spec /\ []EnoughIds => []PInv
    /\ ~IsFiniteSet(Requests) => (Spec => []EnoughIds)
<1>1. IInv /\ JInv /\ RInv /\ PInv /\ EnoughIds /\ [Next]_vars => PInv'
  BY PreheatStep
<1>2. Spec /\ []EnoughIds => []PInv
  BY <1>1, PreheatInit, Invariant, JournalInvariant, RequestsInvariant, PTL DEF Spec
<1>3. ASSUME ~IsFiniteSet(Requests) PROVE Spec => []EnoughIds
  <2>1. RInv => EnoughIds
    BY <1>3, AlwaysEnough
  <2> QED BY <1>3, <2>1, EndlessIds, PTL
<1> QED BY <1>2, <1>3

\* A preheat that shows as waiting for the user keeps showing it "in every
\* later report of this preheat", for any oven, reconnects and clients
\* (settle_preheat): the watch goes by the preheat's stage, so only another
\* stage, another cook or a restart of the server ends it.
THEOREM WaitingKeepsShowing ==
    /\ Spec /\ []EnoughIds => WaitingStays
    /\ ~IsFiniteSet(Requests) => (Spec => WaitingStays)
<1> DEFINE Stays ==
      ShowsWaiting(sm) /\ sm.oven_cook \in PreheatCooks
         /\ sm'.oven_cook = sm.oven_cook /\ sm'.status # None /\ sm'.status.stage = 1
         => sm'.status.ended
<1>1. IInv /\ JInv /\ RInv /\ PInv /\ PInv' /\ EnoughIds /\ [Next]_vars => [Stays]_vars
  BY WaitingStep
<1> HIDE DEF Stays
<1>2. Spec /\ []EnoughIds => [][Stays]_vars
  BY <1>1, PreheatInvariant, Invariant, JournalInvariant, RequestsInvariant, PTL DEF Spec
<1>3. Spec /\ []EnoughIds => WaitingStays
  BY <1>2 DEF WaitingStays, Stays
<1>4. ASSUME ~IsFiniteSet(Requests) PROVE Spec => WaitingStays
  BY <1>3, <1>4, PreheatInvariant
<1> QED BY <1>3, <1>4

\* As long as no two cooks are of one recipe, a preheat only comes to show as
\* waiting in a report in which the oven says so or is near the setpoint
\* (settle_preheat; docs/architecture.md:277).  The watch a cook of the same
\* recipe left behind could show it at once.
THEOREM ShownWhenNear ==
    ASSUME ~SameRecipe
    PROVE  /\ Spec /\ []EnoughIds => ReachedWhenNear
           /\ ~IsFiniteSet(Requests) => (Spec => ReachedWhenNear)
<1> DEFINE Near ==
      TakesState /\ ShowsWaiting(sm') /\ Head(wsEvt).cook \in PreheatCooks
         => \/ Head(wsEvt).status.ended \/ Head(wsEvt).status.near
            \/ ShowsWaiting(sm) /\ sm.oven_cook = Head(wsEvt).cook
<1>1. IInv /\ JInv /\ RInv /\ PInv /\ PInv' /\ EnoughIds /\ [Next]_vars => [Near]_vars
  BY ReachedStep
<1> HIDE DEF Near
<1>2. Spec /\ []EnoughIds => [][Near]_vars
  BY <1>1, PreheatInvariant, Invariant, JournalInvariant, RequestsInvariant, PTL DEF Spec
<1>3. Spec /\ []EnoughIds => ReachedWhenNear
  BY <1>2 DEF ReachedWhenNear, Near
<1>4. ASSUME ~IsFiniteSet(Requests) PROVE Spec => ReachedWhenNear
  BY <1>3, <1>4, PreheatInvariant
<1> QED BY <1>3, <1>4
=============================================================================
