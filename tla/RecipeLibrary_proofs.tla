------------------------ MODULE RecipeLibrary_proofs ------------------------
(***************************************************************************)
(* A recipe that is there is whole, for any requests in any number, as     *)
(* long as no two of them write the same temporary file at once.           *)
(*                                                                         *)
(* The argument: a file has one name at a time (Apart), and a request that *)
(* has not opened its file has not named it either (Unused).  Without an   *)
(* overlap the temporary file that a request has open is the one of its    *)
(* recipe and no other request's (Owned), so that what the request did to  *)
(* it last is what it holds (Written), and that is a whole recipe by the   *)
(* time it is renamed over the old one.                                    *)
(*                                                                         *)
(* The second part is about what goes around (CooksInv): files, lists and  *)
(* requests on their way hold stages that normalize has put right (Ready), *)
(* the oven runs what such stages are sent as, whatever controls came      *)
(* after (RawOK), and what it reports can be saved and is sent as the same *)
(* again (SaveOK).                                                         *)
(***************************************************************************)
EXTENDS RecipeLibrary, SequenceTheorems, TLAPS

Writing(h) == work[h].at \in {"opened", "filled"}

Unused ==
    \A h \in Handlers :
        work[h].at \in {"new", "checks", "writes"} =>
            \A id \in Ids : named[id] # h /\ temp[id] # h

Apart ==
    \A i, j \in Ids :
        /\ temp[i] # None /\ temp[i] = temp[j] => i = j
        /\ temp[i] # None => temp[i] # named[j]

Owned ==
    \A g, h \in Handlers :
        /\ Writing(h) => temp[work[h].path] = work[h].fd
        /\ Writing(g) /\ Writing(h) /\ work[g].fd = work[h].fd => g = h

Written ==
    \A h \in Handlers :
        /\ work[h].at = "opened" => disk[work[h].fd] = <<>>
        /\ work[h].at = "filled" => Readable(disk[work[h].fd])

PlanOK == \E p \in Plans : plan = p.asks

IInv == TypeOK /\ PlanOK /\ Unused /\ Apart /\ (overlap \/ (Owned /\ Written /\ ReadsWhole))

Begun == {"new", "checks", "writes"}

LEMMA OneIsReadable == ASSUME NEW r PROVE Readable(<<r>>) /\ Readable(Append(<<>>, r))
  BY DEF Readable

\* Steps that leave the files alone, and open none.
LEMMA Moves ==
    ASSUME IInv, UNCHANGED <<files, plan>>, crashes' \in Nat,
           work' \in [Handlers -> [at: Phases, path: Maybe(Ids), fd: Maybe(Ids)]],
           \A h \in Handlers :
              /\ work'[h].at \in {"opened", "filled"} => work'[h] = work[h]
              /\ work'[h].at \in {"writes", "removes"} => work'[h].path \in Ids
              /\ work'[h].at \in Begun => work[h].at \in Begun
    PROVE  IInv'
<1> USE DEF IInv
<1>1. TypeOK'
  BY DEF TypeOK, files
<1>2. PlanOK'
  BY DEF PlanOK
<1>3. Unused'
  BY DEF Unused, Begun, files
<1>4. Apart'
  BY DEF Apart, files
<1>5. ASSUME ~overlap PROVE Owned' /\ Written' /\ ReadsWhole'
  <2>1. Owned'
    BY <1>5 DEF Owned, Writing, files
  <2>2. Written'
    BY <1>5 DEF Written, files
  <2>3. ReadsWhole'
    BY <1>5 DEF ReadsWhole, Content, files
  <2> QED BY <2>1, <2>2, <2>3
<1> QED BY <1>1, <1>2, <1>3, <1>4, <1>5 DEF files

LEMMA GoesOn ==
    ASSUME IInv, UNCHANGED <<files, plan>>, crashes' \in Nat, NEW h \in Handlers,
           NEW at \in Phases \ {"writes", "opened", "filled", "removes"},
           at \in Begun => work[h].at \in Begun,
           work' = [work EXCEPT ![h].at = at]
    PROVE  IInv'
<1>1. work \in [Handlers -> [at: Phases, path: Maybe(Ids), fd: Maybe(Ids)]]
  BY DEF IInv, TypeOK
<1>2. work' \in [Handlers -> [at: Phases, path: Maybe(Ids), fd: Maybe(Ids)]]
  BY <1>1
<1>3. \A g \in Handlers \ {h} : work'[g] = work[g]
  BY <1>1
<1>4. work'[h].at = at
  BY <1>1
<1>5. \A g \in Handlers :
        /\ work'[g].at \in {"opened", "filled"} => work'[g] = work[g]
        /\ work'[g].at \in {"writes", "removes"} => work'[g].path \in Ids
        /\ work'[g].at \in Begun => work[g].at \in Begun
  BY <1>3, <1>4 DEF IInv, TypeOK
<1> QED BY <1>2, <1>5, Moves

LEMMA TakesPath ==
    ASSUME IInv, UNCHANGED <<files, plan>>, crashes' \in Nat, NEW h \in Handlers,
           NEW id \in Ids, NEW at \in {"writes", "removes"},
           work[h].at \in Begun,
           work' = [work EXCEPT ![h].at = at, ![h].path = id]
    PROVE  IInv'
<1>1. work \in [Handlers -> [at: Phases, path: Maybe(Ids), fd: Maybe(Ids)]]
  BY DEF IInv, TypeOK
<1>2. work' \in [Handlers -> [at: Phases, path: Maybe(Ids), fd: Maybe(Ids)]]
  BY <1>1 DEF Phases, Maybe
<1>3. \A g \in Handlers \ {h} : work'[g] = work[g]
  BY <1>1
<1>4. work'[h].at = at /\ work'[h].path = id
  BY <1>1
<1>5. \A g \in Handlers :
        /\ work'[g].at \in {"opened", "filled"} => work'[g] = work[g]
        /\ work'[g].at \in {"writes", "removes"} => work'[g].path \in Ids
        /\ work'[g].at \in Begun => work[g].at \in Begun
  BY <1>3, <1>4 DEF IInv, TypeOK
<1> QED BY <1>2, <1>5, Moves

-----------------------------------------------------------------------------
(* The file operations.                                                    *)

\* What the file steps start from.
LEMMA WorkOf ==
    ASSUME IInv, NEW h \in Handlers
    PROVE  /\ work[h].at \in {"writes", "opened", "filled", "removes"} => work[h].path \in Ids
           /\ Writing(h) => work[h].fd \in Ids
           /\ h \in Ids /\ None \notin Ids
  BY LibraryAssumption DEF IInv, TypeOK, Writing, Ids

LEMMA OpensKeeps ==
    ASSUME IInv, UNCHANGED <<plan, crashes>>, NEW h \in Handlers, Opens(h)
    PROVE  IInv'
<1> DEFINE id == work[h].path
           file == IF temp[id] = None THEN h ELSE temp[id]
<1> USE DEF IInv
<1>1. id \in Ids /\ h \in Ids /\ None \notin Ids /\ work[h].at = "writes"
  BY WorkOf DEF Opens
<1>2. /\ temp \in [Ids -> Maybe(Ids)] /\ named \in [Ids -> Maybe(Ids)] /\ DOMAIN disk = Ids
      /\ work \in [Handlers -> [at: Phases, path: Maybe(Ids), fd: Maybe(Ids)]]
  BY DEF TypeOK
<1>3. file \in Ids
  BY <1>1, <1>2 DEF Maybe
<1>4. /\ temp' = [temp EXCEPT ![id] = file] /\ disk' = [disk EXCEPT ![file] = <<>>]
      /\ work' = [work EXCEPT ![h].at = "opened", ![h].fd = file] /\ named' = named
      /\ overlap' = (overlap \/ \E g \in Handlers \ {h} :
                        work[g].at \in {"opened", "filled"} /\ work[g].fd = file)
  BY DEF Opens
<1> HIDE DEF id, file
<1>5. /\ work'[h].at = "opened" /\ work'[h].fd = file /\ work'[h].path = id
      /\ \A g \in Handlers \ {h} : work'[g] = work[g]
  BY <1>2, <1>4 DEF id
<1>6. temp'[id] = file /\ \A j \in Ids \ {id} : temp'[j] = temp[j]
  BY <1>1, <1>2, <1>4
<1>7. TypeOK'
  <2>1. work' \in [Handlers -> [at: Phases, path: Maybe(Ids), fd: Maybe(Ids)]]
    BY <1>2, <1>3, <1>4 DEF Phases, Maybe
  <2>2. temp' \in [Ids -> Maybe(Ids)] /\ named' \in [Ids -> Maybe(Ids)] /\ DOMAIN disk' = Ids
    BY <1>2, <1>3, <1>4 DEF Maybe
  <2>3. overlap' \in BOOLEAN /\ crashes' \in Nat
    BY <1>4 DEF TypeOK
  <2>4. \A g \in Handlers :
         /\ work'[g].at \in {"writes", "opened", "filled", "removes"} => work'[g].path \in Ids
         /\ work'[g].at \in {"opened", "filled"} => work'[g].fd \in Ids
    BY <1>1, <1>3, <1>5 DEF TypeOK
  <2> QED BY <2>1, <2>2, <2>3, <2>4 DEF TypeOK
<1>8. PlanOK'
  BY DEF PlanOK
<1>9. file = h \/ file = temp[id]
  BY DEF file
<1>10. Unused'
  <2> SUFFICES ASSUME NEW g \in Handlers, work'[g].at \in Begun, NEW j \in Ids
               PROVE  named'[j] # g /\ temp'[j] # g
    BY DEF Unused, Begun
  <2>1. g # h /\ work[g].at \in Begun
    BY <1>5 DEF Begun
  <2>2. file # g
    BY <1>1, <1>9, <2>1 DEF Unused, Begun
  <2> QED BY <1>4, <1>6, <2>1, <2>2 DEF Unused, Begun
<1>11. /\ \A j \in Ids : named[j] # file
       /\ \A j \in Ids \ {id} : temp[j] # file
  BY <1>1, <1>9 DEF Unused, Apart, Begun, file
<1>12. Apart'
  BY <1>4, <1>6, <1>11 DEF Apart
<1>13. ASSUME ~overlap' PROVE Owned' /\ Written' /\ ReadsWhole'
  <2>1. Owned /\ Written /\ ReadsWhole
    BY <1>4, <1>13
  <2>2. \A g \in Handlers \ {h} : Writing(g) => work[g].fd # file
    BY <1>4, <1>13 DEF Writing
  <2>3. \A g \in Handlers \ {h} : Writing(g) => work[g].path # id
    BY <1>1, <2>1, <2>2, WorkOf DEF Owned, file
  <2>4. \A g \in Handlers \ {h} : Writing(g)' <=> Writing(g)
    BY <1>5 DEF Writing
  <2>5. Owned'
    <3>1. ASSUME NEW g \in Handlers, Writing(g)' PROVE temp'[work'[g].path] = work'[g].fd
      BY <1>5, <1>6, <2>1, <2>3, <2>4, <3>1, WorkOf DEF Owned, Writing
    <3>2. ASSUME NEW g \in Handlers, NEW k \in Handlers, Writing(g)', Writing(k)',
                 work'[g].fd = work'[k].fd
          PROVE  g = k
      BY <1>5, <2>1, <2>2, <2>4, <3>2 DEF Owned
    <3> QED BY <3>1, <3>2 DEF Owned
  <2>6. disk'[file] = <<>> /\ \A f \in Ids \ {file} : disk'[f] = disk[f]
    BY <1>2, <1>3, <1>4
  <2>7. Written'
    BY <1>5, <2>1, <2>2, <2>6, WorkOf DEF Written, Writing
  <2>8. ReadsWhole'
    BY <1>2, <1>4, <1>11, <2>1, <2>6 DEF ReadsWhole, Content, Maybe
  <2> QED BY <2>5, <2>7, <2>8
<1> QED BY <1>7, <1>8, <1>10, <1>12, <1>13

LEMMA FillsKeeps ==
    ASSUME IInv, UNCHANGED <<plan, crashes>>, NEW h \in Handlers, Fills(h)
    PROVE  IInv'
<1> DEFINE file == work[h].fd
<1> USE DEF IInv
<1>1. file \in Ids /\ work[h].at = "opened" /\ work[h].path \in Ids /\ Writing(h)
  BY WorkOf DEF Fills, Writing
<1>2. PICK content \in {<<held[h].recipe>>, Append(disk[file], held[h].recipe)} :
        disk' = [disk EXCEPT ![file] = content]
  BY DEF Fills
<1>3. /\ work' = [work EXCEPT ![h].at = "filled"]
      /\ named' = named /\ temp' = temp /\ overlap' = overlap
  BY DEF Fills, Goes
<1>4. /\ work \in [Handlers -> [at: Phases, path: Maybe(Ids), fd: Maybe(Ids)]]
      /\ DOMAIN disk = Ids
  BY DEF TypeOK
<1>5. /\ work'[h].at = "filled" /\ work'[h].fd = file /\ work'[h].path = work[h].path
      /\ \A g \in Handlers \ {h} : work'[g] = work[g]
  BY <1>3, <1>4
<1>6. disk'[file] = content /\ \A f \in Ids \ {file} : disk'[f] = disk[f]
  BY <1>1, <1>2, <1>4
<1> HIDE DEF file
<1>7. TypeOK'
  <2>1. work' \in [Handlers -> [at: Phases, path: Maybe(Ids), fd: Maybe(Ids)]]
    BY <1>3, <1>4 DEF Phases
  <2>2. \A g \in Handlers :
         /\ work'[g].at \in {"writes", "opened", "filled", "removes"} => work'[g].path \in Ids
         /\ work'[g].at \in {"opened", "filled"} => work'[g].fd \in Ids
    BY <1>1, <1>5 DEF TypeOK
  <2> QED BY <1>2, <1>3, <1>4, <2>1, <2>2 DEF TypeOK
<1>8. PlanOK' /\ Apart'
  BY <1>3 DEF PlanOK, Apart
<1>9. Unused'
  BY <1>3, <1>5 DEF Unused, Begun
<1>10. ASSUME ~overlap' PROVE Owned' /\ Written' /\ ReadsWhole'
  <2>1. Owned /\ Written /\ ReadsWhole
    BY <1>3, <1>10
  <2>2. \A g \in Handlers : Writing(g)' <=> Writing(g)
    BY <1>1, <1>5 DEF Writing
  <2>3. Owned'
    BY <1>3, <1>5, <2>1, <2>2 DEF Owned, file
  <2>4. Readable(content)
    BY <1>1, <1>2, <2>1, OneIsReadable DEF Written, file
  <2>5. \A g \in Handlers \ {h} : Writing(g) => work[g].fd # file
    BY <1>1, <2>1 DEF Owned, file
  <2>6. Written'
    BY <1>5, <1>6, <2>1, <2>4, <2>5, WorkOf DEF Written, Writing
  <2>7. \A id \in Ids : named[id] # file
    <3>1. temp[work[h].path] = file /\ file # None
      BY <1>1, <2>1, WorkOf DEF Owned, file
    <3> QED BY <1>1, <3>1 DEF Apart
  <2>8. ReadsWhole'
    BY <1>3, <1>6, <2>1, <2>7 DEF ReadsWhole, Content, TypeOK, Maybe
  <2> QED BY <2>3, <2>6, <2>8
<1> QED BY <1>3, <1>7, <1>8, <1>9, <1>10

LEMMA RenamesKeeps ==
    ASSUME IInv, UNCHANGED <<plan, crashes>>, NEW h \in Handlers, Renames(h)
    PROVE  IInv'
<1> DEFINE id == work[h].path
<1> USE DEF IInv
<1>1. id \in Ids /\ work[h].at = "filled" /\ Writing(h) /\ None \notin Ids
  BY WorkOf DEF Renames, Writing
<1>2. CASE temp[id] = None
  <2>1. Goes(h, "failed") /\ UNCHANGED files
    BY <1>2 DEF Renames, files
  <2> QED BY <2>1, GoesOn, LibraryAssumption DEF Goes, Phases, Over, Begun, TypeOK
<1>3. CASE temp[id] # None
  <2>1. /\ named' = [named EXCEPT ![id] = temp[id]] /\ temp' = [temp EXCEPT ![id] = None]
        /\ work' = [work EXCEPT ![h].at = "changed"] /\ disk' = disk /\ overlap' = overlap
    BY <1>3 DEF Renames, Goes
  <2>2. /\ work \in [Handlers -> [at: Phases, path: Maybe(Ids), fd: Maybe(Ids)]]
        /\ temp \in [Ids -> Maybe(Ids)] /\ named \in [Ids -> Maybe(Ids)]
    BY DEF TypeOK
  <2>3. work'[h].at = "changed" /\ \A g \in Handlers \ {h} : work'[g] = work[g]
    BY <2>1, <2>2
  <2>4. /\ temp'[id] = None /\ \A j \in Ids \ {id} : temp'[j] = temp[j]
        /\ named'[id] = temp[id] /\ \A j \in Ids \ {id} : named'[j] = named[j]
    BY <1>1, <2>1, <2>2
  <2> HIDE DEF id
  <2>5. TypeOK'
    <3>1. work' \in [Handlers -> [at: Phases, path: Maybe(Ids), fd: Maybe(Ids)]]
      BY <2>1, <2>2 DEF Phases
    <3>2. temp' \in [Ids -> Maybe(Ids)] /\ named' \in [Ids -> Maybe(Ids)]
      BY <1>1, <2>1, <2>2 DEF Maybe
    <3>3. \A g \in Handlers :
           /\ work'[g].at \in {"writes", "opened", "filled", "removes"} => work'[g].path \in Ids
           /\ work'[g].at \in {"opened", "filled"} => work'[g].fd \in Ids
      BY <2>3 DEF TypeOK
    <3> QED BY <2>1, <3>1, <3>2, <3>3 DEF TypeOK
  <2>6. PlanOK'
    BY DEF PlanOK
  <2>7. Unused'
    <3> SUFFICES ASSUME NEW g \in Handlers, work'[g].at \in Begun, NEW j \in Ids
                 PROVE  named'[j] # g /\ temp'[j] # g
      BY DEF Unused, Begun
    <3>1. g # h /\ work[g].at \in Begun /\ g # None
      BY <2>3, WorkOf DEF Begun
    <3> QED BY <1>1, <2>4, <3>1 DEF Unused, Begun
  <2>8. Apart'
    BY <1>1, <2>4 DEF Apart
  <2>9. ASSUME ~overlap' PROVE Owned' /\ Written' /\ ReadsWhole'
    <3>1. Owned /\ Written /\ ReadsWhole
      BY <2>1, <2>9
    <3>2. \A g \in Handlers : Writing(g)' => g # h /\ Writing(g) /\ work'[g] = work[g]
      BY <2>3 DEF Writing
    <3>3. \A g \in Handlers : Writing(g)' => work[g].path # id
      BY <1>1, <3>1, <3>2 DEF Owned, id
    <3>4. Owned'
      <4>1. \A g \in Handlers : Writing(g) => work[g].path \in Ids
        BY WorkOf DEF Writing
      <4>2. \A g \in Handlers : Writing(g)' => temp'[work'[g].path] = work'[g].fd
        BY <2>4, <3>1, <3>2, <3>3, <4>1 DEF Owned
      <4>3. \A g, k \in Handlers :
              Writing(g)' /\ Writing(k)' /\ work'[g].fd = work'[k].fd => g = k
        BY <3>1, <3>2 DEF Owned
      <4> QED BY <4>2, <4>3 DEF Owned
    <3>5. Written'
      BY <2>1, <3>1, <3>2 DEF Written, Writing
    <3>6. named'[id] = work[h].fd /\ Readable(disk[work[h].fd])
      BY <1>1, <2>4, <3>1 DEF Owned, Written, id
    <3>7. ReadsWhole'
      BY <2>1, <2>4, <3>1, <3>6 DEF ReadsWhole, Content
    <3> QED BY <3>4, <3>5, <3>7
  <2> QED BY <2>1, <2>5, <2>6, <2>7, <2>8, <2>9
<1> QED BY <1>2, <1>3

LEMMA RemovesKeeps ==
    ASSUME IInv, UNCHANGED <<plan, crashes>>, NEW h \in Handlers, Removes(h)
    PROVE  IInv'
<1> DEFINE id == work[h].path
<1> USE DEF IInv
<1>1. id \in Ids /\ work[h].at = "removes"
  BY WorkOf DEF Removes
<1>2. PICK at \in {"failed", "changed"} : work' = [work EXCEPT ![h].at = at]
  BY DEF Removes, Goes
<1>3. named' = [named EXCEPT ![id] = None] /\ temp' = temp /\ disk' = disk /\ overlap' = overlap
  BY DEF Removes
<1>4. /\ work \in [Handlers -> [at: Phases, path: Maybe(Ids), fd: Maybe(Ids)]]
      /\ named \in [Ids -> Maybe(Ids)]
  BY DEF TypeOK
<1>5. work'[h].at \in {"failed", "changed"} /\ \A g \in Handlers \ {h} : work'[g] = work[g]
  BY <1>2, <1>4
<1>6. named'[id] = None /\ \A j \in Ids \ {id} : named'[j] = named[j]
  BY <1>1, <1>3, <1>4
<1> HIDE DEF id
<1>7. TypeOK'
  <2>1. work' \in [Handlers -> [at: Phases, path: Maybe(Ids), fd: Maybe(Ids)]]
    BY <1>2, <1>4 DEF Phases, Over
  <2>2. named' \in [Ids -> Maybe(Ids)]
    BY <1>1, <1>3, <1>4 DEF Maybe
  <2>3. \A g \in Handlers :
         /\ work'[g].at \in {"writes", "opened", "filled", "removes"} => work'[g].path \in Ids
         /\ work'[g].at \in {"opened", "filled"} => work'[g].fd \in Ids
    BY <1>5 DEF TypeOK
  <2> QED BY <1>3, <2>1, <2>2, <2>3 DEF TypeOK
<1>8. PlanOK'
  BY DEF PlanOK
<1>9. Unused' /\ Apart'
  <2>1. \A g \in Handlers : g # None
    BY WorkOf
  <2> QED BY <1>3, <1>5, <1>6, <2>1 DEF Unused, Begun, Apart
<1>10. ASSUME ~overlap' PROVE Owned' /\ Written' /\ ReadsWhole'
  <2>1. Owned /\ Written /\ ReadsWhole
    BY <1>3, <1>10
  <2>2. \A g \in Handlers : Writing(g)' => g # h /\ Writing(g) /\ work'[g] = work[g]
    BY <1>5 DEF Writing
  <2>3. Owned' /\ Written'
    BY <1>3, <2>1, <2>2 DEF Owned, Written, Writing
  <2>4. ReadsWhole'
    BY <1>3, <1>6, <2>1 DEF ReadsWhole, Content
  <2> QED BY <2>3, <2>4
<1> QED BY <1>3, <1>7, <1>8, <1>9, <1>10

-----------------------------------------------------------------------------
(* The handlers, which go on from file operations and to them.             *)

LEMMA ChecksKeeps ==
    ASSUME IInv, UNCHANGED <<files, plan, crashes>>, NEW h \in Handlers, NEW id \in Ids,
           NEW recipe, work[h].at \in Begun, Checks(h, id, recipe)
    PROVE  IInv'
<1> DEFINE normal == [recipe EXCEPT !.stages = Normal(@)]
<1> HIDE DEF normal
<1>1. crashes' \in Nat
  BY DEF IInv, TypeOK
<1>2. CASE Goes(h, "refused")
  BY <1>1, <1>2, GoesOn DEF Goes, Phases, Over, Begun
<1>3. CASE Writes(h, id, normal)
  <2>1. work' = [work EXCEPT ![h].at = "writes", ![h].path = id]
    BY <1>3 DEF Writes
  <2> QED BY <1>1, <2>1, TakesPath
<1> QED BY <1>2, <1>3 DEF Checks, normal

\* What a request asks to change is a recipe that was or will be there.
LEMMA AsksForIds ==
    ASSUME IInv, NEW h \in Handlers, plan[h].op \in {"update", "delete"}
    PROVE  plan[h].id \in Ids
  BY LibraryAssumption DEF IInv, PlanOK

LEMMA HandlesKeeps ==
    ASSUME IInv, NEW h \in Handlers, Handles(h)
    PROVE  IInv'
<1>1. UNCHANGED <<plan, crashes>> /\ crashes' \in Nat /\ h \in Ids
  BY WorkOf DEF Handles, IInv, TypeOK
<1>2. CASE Creates(h)
  <2> DEFINE recipe == [id |-> h, title |-> plan[h].title, stages |-> plan[h].stages]
  <2>1. work[h].at \in Begun /\ Checks(h, h, recipe) /\ UNCHANGED files
    BY <1>2 DEF Creates, Asked, Begun
  <2> QED BY <1>1, <2>1, ChecksKeeps
<1>3. CASE Updates(h)
  <2> DEFINE recipe == Patched(Content(plan[h].id)[1], plan[h])
  <2>1. work[h].at \in Begun /\ UNCHANGED files /\ plan[h].id \in Ids
    BY <1>3, AsksForIds DEF Updates, Asked, Begun
  <2>2. CASE Checks(h, plan[h].id, recipe)
    BY <1>1, <2>1, <2>2, ChecksKeeps
  <2>3. CASE Goes(h, "missing")
    BY <1>1, <2>1, <2>3, GoesOn DEF Goes, Phases, Over, Begun
  <2> QED BY <1>3, <2>2, <2>3 DEF Updates
<1>4. CASE Deletes(h)
  <2>1. work[h].at \in Begun /\ UNCHANGED files /\ plan[h].id \in Ids
    BY <1>4, AsksForIds DEF Deletes, Asked, Begun
  <2>2. CASE work' = [work EXCEPT ![h].at = "removes", ![h].path = plan[h].id]
    BY <1>1, <2>1, <2>2, TakesPath
  <2>3. CASE Goes(h, "missing")
    BY <1>1, <2>1, <2>3, GoesOn DEF Goes, Phases, Over, Begun
  <2> QED BY <1>4, <2>2, <2>3 DEF Deletes
<1>5. CASE FileStep(h)
  BY <1>1, <1>5, OpensKeeps, FillsKeeps, RenamesKeeps, RemovesKeeps DEF FileStep
<1>6. CASE Saves(h)
  <2> DEFINE recipe == [id |-> h, title |-> plan[h].title, stages |-> ToSave(held[h].of.stages)]
  <2>1. work[h].at \in Begun /\ UNCHANGED files
    BY <1>6 DEF Saves, Begun
  <2>2. CASE Checks(h, h, recipe)
    BY <1>1, <2>1, <2>2, ChecksKeeps
  <2>3. CASE Goes(h, "saved")
    BY <1>1, <2>1, <2>3, GoesOn DEF Goes, Phases, Over, Begun
  <2> QED BY <1>6, <2>2, <2>3 DEF Saves
<1>7. CASE ReadsCook(h)
  <2>1. work[h].at = "new" /\ UNCHANGED files
    BY <1>7 DEF ReadsCook, Asked
  <2>2. CASE Goes(h, "missing")
    BY <1>1, <2>1, <2>2, GoesOn DEF Goes, Phases, Over, Begun
  <2>3. CASE work' = [work EXCEPT ![h].at = "checks"]
    BY <1>1, <2>1, <2>3, GoesOn DEF Phases, Begun
  <2> QED BY <1>7, <2>2, <2>3 DEF ReadsCook
<1>8. CASE Refreshes(h) \/ Starts(h) \/ StartsManual(h) \/ Controls(h) \/ Links(h)
  <2>1. PICK at \in {"links", "done", "missing", "refused"} : Goes(h, at)
    <3>1. CASE Controls(h)
      BY <3>1 DEF Controls, SetsTemperature, SetsTimer
    <3>2. CASE ~Controls(h)
      BY <1>8, <3>2 DEF Refreshes, Starts, StartsManual, Links
    <3> QED BY <3>1, <3>2
  <2>2. UNCHANGED files
    BY <1>8 DEF Refreshes, Starts, StartsManual, Controls, Links
  <2> QED BY <1>1, <2>1, <2>2, GoesOn DEF Goes, Phases, Over, Begun
<1> QED BY <1>2, <1>3, <1>4, <1>5, <1>6, <1>7, <1>8 DEF Handles

-----------------------------------------------------------------------------
LEMMA Start == ASSUME Init PROVE IInv
<1>1. None \notin Ids /\ Kept \cap Handlers = {}
  BY LibraryAssumption
<1>2. TypeOK
  <2>1. crashes \in Nat
    BY LibraryAssumption DEF Init
  <2>2. work \in [Handlers -> [at: Phases, path: Maybe(Ids), fd: Maybe(Ids)]]
    BY DEF Init, NotStarted, Phases, Maybe
  <2>3. named \in [Ids -> Maybe(Ids)] /\ temp \in [Ids -> Maybe(Ids)]
    BY DEF Init, Maybe
  <2> QED BY <2>1, <2>2, <2>3 DEF TypeOK, Init, NotStarted
<1>3. PlanOK
  BY DEF Init, PlanOK
<1>4. Unused /\ Apart
  BY <1>1 DEF Init, Unused, Apart, Ids
<1>5. Owned /\ Written
  BY DEF Init, Owned, Written, Writing, NotStarted
<1>6. ReadsWhole
  BY OneIsReadable DEF Init, ReadsWhole, Content
<1> QED BY <1>2, <1>3, <1>4, <1>5, <1>6 DEF IInv

LEMMA Step == ASSUME IInv, [Next]_vars PROVE IInv'
<1>1. CASE \E h \in Handlers : Handles(h)
  BY <1>1, HandlesKeeps
<1>2. CASE ScanBegins \/ ScanReads \/ ScanEnds \/ RecipesRefreshed
           \/ OvenReports \/ OvenMovesOn \/ CookEnds \/ UNCHANGED vars
  <2>1. UNCHANGED <<files, plan, work, crashes>>
    BY <1>2 DEF ScanBegins, ScanReads, ScanEnds, RecipesRefreshed, OvenReports, OvenMovesOn,
                CookEnds, Rest, vars
  <2> QED BY <2>1, Moves DEF IInv, TypeOK
<1>3. CASE Crash
  <2>1. UNCHANGED <<files, plan>> /\ crashes' \in Nat
    BY <1>3 DEF Crash, IInv, TypeOK
  <2>2. work' = [h \in Handlers |->
                   IF work[h].at \in Over \cup {"new"} THEN work[h]
                   ELSE [work[h] EXCEPT !.at = "lost"]]
    BY <1>3 DEF Crash
  <2>3. work' \in [Handlers -> [at: Phases, path: Maybe(Ids), fd: Maybe(Ids)]]
    BY <2>2 DEF IInv, TypeOK, Phases, Over
  <2>4. \A h \in Handlers :
          /\ work'[h].at \in Over \cup {"new"}
          /\ work'[h].at \in Begun => work[h].at \in Begun
    BY <2>2 DEF Over, Begun, IInv, TypeOK
  <2> QED BY <2>1, <2>3, <2>4, Moves DEF Over
<1> QED BY <1>1, <1>2, <1>3 DEF Next

(***************************************************************************)
(* A file has one name, and a request's temporary file is its own: the     *)
(* argument above holds in every reachable state, over every crash.        *)
(***************************************************************************)
THEOREM Invariant == Spec => []IInv
  BY Start, Step, PTL DEF Spec

(***************************************************************************)
(* A handler works on a recipe and a file there are, wherever it stopped.  *)
(***************************************************************************)
THEOREM TypeCorrect == Spec => []TypeOK
<1>1. IInv => TypeOK
  BY DEF IInv
<1> QED BY <1>1, Invariant, PTL

(***************************************************************************)
(* write_atomically keeps its promise for any number of requests and over  *)
(* crashes, as long as no two write the same recipe at once.               *)
(***************************************************************************)
THEOREM WholeRecipes == Spec => []WholeUnlessOverlapped
<1>1. IInv => WholeUnlessOverlapped
  BY DEF IInv, WholeUnlessOverlapped
<1> QED BY <1>1, Invariant, PTL

-----------------------------------------------------------------------------
(***************************************************************************)
(* The state machine's list.  Once nothing is left to be read again        *)
(* (Reread), no file has changed since the store began to read them last:  *)
(* what it has read so far, or its last answer, or the list, is current.   *)
(***************************************************************************)
Listed == {Content(id)[1] : id \in Present}
Read == {Content(id)[1] : id \in Present \ refresh.left}

Reread == refresh.asked > 0 \/ \E h \in Handlers : work[h].at = "changed"

Fresh ==
    IF refresh.scanning THEN refresh.found = Read
    ELSE IF refresh.answers # <<>> THEN refresh.answers[Len(refresh.answers)] = Listed
    ELSE recipes = Listed
Current == overlap \/ Reread \/ Fresh

IsSeq(s) == \E S : s \in Seq(S)

RefreshOK ==
    /\ DOMAIN refresh = {"asked", "scanning", "left", "found", "answers"}
    /\ refresh.asked \in Nat /\ refresh.scanning \in BOOLEAN /\ IsSeq(refresh.answers)
    /\ refresh.left \subseteq Ids
    /\ ~refresh.scanning => refresh.found = {}

CacheInv == IInv /\ RefreshOK /\ Current

-----------------------------------------------------------------------------
\* What the files say stays what it is.
Steady == \A id \in Ids : Content(id)' = Content(id)

LEMMA SteadyLists ==
    ASSUME Steady
    PROVE  /\ Present' = Present /\ Listed' = Listed
           /\ Read' = {Content(id)[1] : id \in Present \ refresh'.left}
<1>1. Present' = Present
  BY DEF Steady, Present
<1>2. \A id \in Present : Content(id)' = Content(id)
  BY DEF Steady, Present
<1> QED BY <1>1, <1>2 DEF Listed, Read

\* A file step changes what the files say only by naming a file or a name no
\* more, and then asks for a refresh.
LEMMA FilesSteady ==
    ASSUME IInv, NEW h \in Handlers, FileStep(h), ~overlap'
    PROVE  ~overlap /\ (Steady \/ work'[h].at = "changed")
<1> DEFINE file == work[h].fd
<1> USE DEF IInv
<1>0. /\ work \in [Handlers -> [at: Phases, path: Maybe(Ids), fd: Maybe(Ids)]]
      /\ temp \in [Ids -> Maybe(Ids)] /\ named \in [Ids -> Maybe(Ids)] /\ DOMAIN disk = Ids
  BY DEF TypeOK
<1>1. CASE Opens(h)
  <2> DEFINE id == work[h].path
             new == IF temp[id] = None THEN h ELSE temp[id]
  <2>1. id \in Ids /\ h \in Ids /\ None \notin Ids /\ work[h].at = "writes"
    BY <1>1, WorkOf DEF Opens
  <2>2. named' = named /\ disk' = [disk EXCEPT ![new] = <<>>] /\ (overlap => overlap')
    BY <1>1 DEF Opens
  <2> HIDE DEF id
  <2>3. new \in Ids /\ \A j \in Ids : named[j] # new
    BY <1>0, <2>1 DEF Unused, Apart, Begun, Maybe
  <2> HIDE DEF new
  <2>4. \A j \in Ids : named[j] # None => disk'[named[j]] = disk[named[j]]
    BY <1>0, <2>2, <2>3 DEF Maybe
  <2> QED BY <2>2, <2>4 DEF Steady, Content
<1>2. CASE Fills(h)
  <2>1. file \in Ids /\ work[h].path \in Ids /\ Writing(h) /\ None \notin Ids
    BY <1>2, WorkOf DEF Fills, Writing
  <2>2. PICK content : disk' = [disk EXCEPT ![file] = content]
    BY <1>2 DEF Fills
  <2>3. named' = named /\ overlap' = overlap
    BY <1>2 DEF Fills
  <2>4. temp[work[h].path] = file
    BY <2>1, <2>3 DEF Owned
  <2> HIDE DEF file
  <2>5. \A j \in Ids : named[j] # file
    BY <2>1, <2>4 DEF Apart
  <2>6. \A j \in Ids : named[j] # None => disk'[named[j]] = disk[named[j]]
    BY <1>0, <2>2, <2>5 DEF Maybe
  <2> QED BY <2>3, <2>6 DEF Steady, Content
<1>3. CASE Renames(h)
  <2>1. overlap' = overlap /\ disk' = disk
    BY <1>3 DEF Renames
  <2>2. CASE temp[work[h].path] = None
    BY <1>3, <2>1, <2>2 DEF Renames, Steady, Content
  <2>3. CASE temp[work[h].path] # None
    <3>1. work' = [work EXCEPT ![h].at = "changed"]
      BY <1>3, <2>3 DEF Renames, Goes
    <3> QED BY <1>0, <2>1, <3>1
  <2> QED BY <2>2, <2>3
<1>4. CASE Removes(h)
  <2>1. overlap' = overlap /\ disk' = disk /\ named' = [named EXCEPT ![work[h].path] = None]
    BY <1>4 DEF Removes
  <2>2. CASE named[work[h].path] = None
    <3>1. named' = named
      BY <1>0, <2>1, <2>2
    <3> QED BY <2>1, <3>1 DEF Steady, Content
  <2>3. CASE named[work[h].path] # None
    <3>1. work' = [work EXCEPT ![h].at = "changed"]
      BY <1>4, <2>3 DEF Removes, Goes
    <3> QED BY <1>0, <2>1, <3>1
  <2> QED BY <2>2, <2>3
<1> QED BY <1>1, <1>2, <1>3, <1>4 DEF FileStep

LEMMA StaysCurrent ==
    ASSUME Current, UNCHANGED Server, overlap => overlap', Reread => Reread' \/ overlap', Steady
    PROVE  Current'
<1>1. Listed' = Listed /\ Read' = Read
  BY SteadyLists DEF Server, Read
<1>2. Fresh' = Fresh
  BY <1>1 DEF Fresh, Server
<1> QED BY <1>2 DEF Current

LEMMA HandlerKeeps ==
    ASSUME CacheInv, NEW h \in Handlers, Handles(h)
    PROVE  RefreshOK' /\ Current'
<1> USE DEF CacheInv
<1>0. work \in [Handlers -> [at: Phases, path: Maybe(Ids), fd: Maybe(Ids)]]
  BY DEF IInv, TypeOK
<1>1. CASE FileStep(h)
  <2>0. overlap => overlap'
    <3>1. CASE Opens(h)
      BY <3>1, Zenon DEF Opens
    <3>2. CASE Fills(h) \/ Renames(h) \/ Removes(h)
      BY <3>2 DEF Fills, Renames, Removes
    <3> QED BY <1>1, <3>1, <3>2 DEF FileStep
  <2>1. UNCHANGED Server
    BY <1>1 DEF FileStep
  <2>2. RefreshOK'
    BY <2>1 DEF RefreshOK, Server
  <2>3. work[h].at # "changed" /\ \A g \in Handlers \ {h} : work'[g] = work[g]
    BY <1>0, <1>1 DEF FileStep, Opens, Fills, Renames, Removes, Goes
  <2>4. Reread => Reread'
    BY <2>1, <2>3 DEF Reread, Server
  <2>5. CASE overlap' \/ work'[h].at = "changed"
    BY <2>2, <2>5 DEF Current, Reread
  <2>6. CASE ~overlap' /\ work'[h].at # "changed"
    <3>1. Steady
      BY <1>1, <2>6, FilesSteady
    <3> QED BY <2>0, <2>1, <2>2, <2>4, <3>1, StaysCurrent
  <2> QED BY <2>2, <2>5, <2>6
<1>2. CASE Refreshes(h)
  <2>1. refresh' = [refresh EXCEPT !.asked = @ + 1]
    BY <1>2 DEF Refreshes, RefreshRecipes
  <2>2. RefreshOK' /\ refresh'.asked > 0
    BY <2>1 DEF RefreshOK
  <2> QED BY <2>2 DEF Current, Reread
<1>3. CASE Creates(h) \/ Updates(h) \/ Deletes(h) \/ Starts(h) \/ StartsManual(h) \/ Controls(h)
           \/ ReadsCook(h) \/ Saves(h) \/ Links(h)
  <2>1. UNCHANGED <<files, Server>> /\ work[h].at # "changed"
    BY <1>3 DEF Creates, Updates, Deletes, Starts, StartsManual, Controls, ReadsCook, Saves, Links,
                Asked
  <2>2. \A g \in Handlers \ {h} : work'[g] = work[g]
    <3>1. CASE Controls(h)
      BY <1>0, <3>1 DEF Controls, SetsTemperature, SetsTimer, Goes
    <3>2. CASE ~Controls(h)
      BY <1>0, <1>3, <3>2 DEF Creates, Updates, Deletes, Starts, StartsManual, ReadsCook, Saves,
                Links, Checks, Goes, Writes
    <3> QED BY <3>1, <3>2
  <2>3. Reread => Reread'
    BY <2>1, <2>2 DEF Reread, Server
  <2>4. Steady
    BY <2>1 DEF Steady, Content, files
  <2>5. RefreshOK'
    BY <2>1 DEF RefreshOK, Server
  <2> QED BY <2>1, <2>3, <2>4, <2>5, StaysCurrent DEF files
<1> QED BY <1>1, <1>2, <1>3 DEF Handles

LEMMA AppendLast ==
    ASSUME NEW s, IsSeq(s), NEW e
    PROVE  LET t == Append(s, e) IN IsSeq(t) /\ t # <<>> /\ t[Len(t)] = e
<1>1. PICK S : s \in Seq(S)
  BY DEF IsSeq
<1> DEFINE T == S \cup {e}
<1>2. s \in Seq(T) /\ e \in T
  BY <1>1, SeqMonotonic
<1> HIDE DEF T
<1>3. Append(s, e) \in Seq(T)
  BY <1>2
<1>4. Len(s) \in Nat /\ Len(Append(s, e)) = Len(s) + 1 /\ Append(s, e)[Len(s) + 1] = e
  BY <1>2
<1>5. Append(s, e) # <<>>
  BY <1>4
<1> QED BY <1>3, <1>4, <1>5 DEF IsSeq

LEMMA TailLast ==
    ASSUME NEW s, IsSeq(s), s # <<>>
    PROVE  /\ IsSeq(Tail(s)) /\ (Tail(s) # <<>> => Tail(s)[Len(Tail(s))] = s[Len(s)])
           /\ Tail(s) = <<>> => Head(s) = s[Len(s)]
<1>1. PICK S : s \in Seq(S)
  BY DEF IsSeq
<1>2. /\ Len(s) \in Nat \ {0} /\ Tail(s) \in Seq(S) /\ Len(Tail(s)) = Len(s) - 1 /\ Head(s) = s[1]
      /\ \A i \in 1..Len(Tail(s)) : Tail(s)[i] = s[i + 1]
  BY <1>1, HeadTailProperties, EmptySeq
<1> DEFINE t == Tail(s)
<1> HIDE DEF t
<1>3. t # <<>> => Len(t) # 0
  BY <1>2, EmptySeq DEF t
<1>4. t = <<>> => Len(t) = 0
  OBVIOUS
<1> QED BY <1>2, <1>3, <1>4 DEF t, IsSeq

LEMMA StoreKeeps ==
    ASSUME CacheInv, ScanBegins \/ ScanReads \/ ScanEnds \/ RecipesRefreshed
    PROVE  RefreshOK' /\ Current'
<1> USE DEF CacheInv
<1>0. UNCHANGED <<files, work>> /\ Steady
  BY DEF ScanBegins, ScanReads, ScanEnds, RecipesRefreshed, Rest, files, Steady, Content
<1>a. ASSUME refresh'.asked = refresh.asked, overlap \/ Reread PROVE Current'
  <2>1. overlap' = overlap /\ work' = work
    BY <1>0 DEF files
  <2>2. Reread' = Reread
    BY <1>a, <2>1 DEF Reread
  <2> QED BY <1>a, <2>1, <2>2 DEF Current
<1>b. ASSUME Fresh' PROVE Current'
  BY <1>b DEF Current
<1> HIDE DEF CacheInv
<1>c. RefreshOK /\ Current
  BY DEF CacheInv
<1>1. CASE ScanBegins
  <2>1. /\ refresh'.asked = refresh.asked - 1 /\ refresh'.scanning /\ refresh'.found = refresh.found
        /\ refresh'.left = {id \in Ids : named[id] # None} /\ refresh'.answers = refresh.answers
        /\ DOMAIN refresh' = DOMAIN refresh /\ refresh'.scanning \in BOOLEAN
    BY <1>c, <1>1 DEF ScanBegins, RefreshOK
  <2>2. refresh.asked > 0 /\ ~refresh.scanning /\ refresh.found = {}
    BY <1>c, <1>1 DEF ScanBegins, RefreshOK
  <2>3. RefreshOK'
    BY <1>c, <2>1, <2>2 DEF RefreshOK
  <2>4. Present \ refresh'.left = {}
    BY <2>1 DEF Present, Content, Readable
  <2>5. Read' = {}
    BY <1>0, <2>4, SteadyLists
  <2>6. Fresh'
    BY <2>1, <2>2, <2>5 DEF Fresh
  <2> QED BY <1>b, <2>3, <2>6
<1>2. CASE ScanReads
  <2>1. PICK id \in refresh.left :
          refresh' = [refresh EXCEPT !.left = @ \ {id}, !.found = @ \cup Found(id)]
    BY <1>2 DEF ScanReads
  <2>2. /\ refresh'.asked = refresh.asked /\ refresh'.scanning = refresh.scanning /\ refresh.scanning
        /\ refresh'.found = refresh.found \cup Found(id)
        /\ refresh'.left = refresh.left \ {id} /\ refresh'.answers = refresh.answers
        /\ DOMAIN refresh' = DOMAIN refresh
    BY <1>c, <1>2, <2>1 DEF ScanReads, RefreshOK
  <2>3. RefreshOK'
    BY <1>c, <2>2 DEF RefreshOK
  <2>4. CASE overlap \/ Reread
    BY <1>a, <2>2, <2>3, <2>4
  <2>5. CASE Fresh
    <3>0. refresh.found = Read
      BY <2>2, <2>5 DEF Fresh
    <3>1. Read' = Read \cup Found(id)
      <4>1. Read' = {Content(i)[1] : i \in Present \ refresh'.left}
        BY <1>0, SteadyLists
      <4>2. Found(id) = {Content(i)[1] : i \in Present \cap {id}}
        <5>1. id \in Ids
          BY <1>c, <2>1 DEF RefreshOK
        <5> QED BY <5>1 DEF Found, Present
      <4>3. Present \ refresh'.left = (Present \ refresh.left) \cup (Present \cap {id})
        BY <2>1, <2>2
      <4> QED BY <4>1, <4>2, <4>3 DEF Read
    <3>2. Fresh'
      BY <2>2, <3>0, <3>1 DEF Fresh
    <3> QED BY <1>b, <2>3, <3>2
  <2> QED BY <1>c, <2>4, <2>5 DEF Current
<1>3. CASE ScanEnds
  <2>1. /\ refresh'.asked = refresh.asked /\ refresh'.scanning = FALSE /\ refresh.scanning
        /\ refresh'.found = {} /\ refresh.left = {} /\ refresh'.left = {}
        /\ refresh'.answers = Append(refresh.answers, refresh.found)
        /\ DOMAIN refresh' = DOMAIN refresh
    BY <1>c, <1>3 DEF ScanEnds, RefreshOK
  <2>2. IsSeq(refresh'.answers) /\ refresh'.answers # <<>>
        /\ refresh'.answers[Len(refresh'.answers)] = refresh.found
    BY <1>c, <2>1, AppendLast DEF RefreshOK
  <2>3. RefreshOK'
    BY <1>c, <2>1, <2>2 DEF RefreshOK
  <2>4. CASE overlap \/ Reread
    BY <1>a, <2>1, <2>3, <2>4
  <2>5. CASE Fresh
    <3>1. Listed' = Listed /\ Read = Listed
      BY <1>0, <2>1, SteadyLists DEF Read, Listed
    <3>2. refresh.found = Listed
      BY <2>1, <2>5, <3>1 DEF Fresh
    <3>3. Fresh'
      BY <2>1, <2>2, <3>1, <3>2 DEF Fresh
    <3> QED BY <1>b, <2>3, <3>3
  <2> QED BY <1>c, <2>4, <2>5 DEF Current
<1>4. CASE RecipesRefreshed
  <2>1. /\ refresh'.asked = refresh.asked /\ refresh'.scanning = refresh.scanning
        /\ refresh'.found = refresh.found /\ refresh'.left = refresh.left
        /\ refresh'.answers = Tail(refresh.answers) /\ DOMAIN refresh' = DOMAIN refresh
        /\ refresh.answers # <<>> /\ recipes' = Head(refresh.answers)
    BY <1>c, <1>4 DEF RecipesRefreshed, RefreshOK
  <2>2. /\ IsSeq(refresh'.answers)
        /\ refresh'.answers # <<>> =>
             refresh'.answers[Len(refresh'.answers)] = refresh.answers[Len(refresh.answers)]
        /\ refresh'.answers = <<>> => recipes' = refresh.answers[Len(refresh.answers)]
    BY <1>c, <2>1, TailLast DEF RefreshOK
  <2>3. RefreshOK'
    BY <1>c, <2>1, <2>2 DEF RefreshOK
  <2>4. CASE overlap \/ Reread
    BY <1>a, <2>1, <2>3, <2>4
  <2>5. CASE Fresh
    <3>1. Read' = Read /\ Listed' = Listed
      BY <1>0, <2>1, SteadyLists DEF Read
    <3>2. ASSUME refresh.scanning PROVE Fresh'
      BY <2>1, <2>5, <3>1, <3>2 DEF Fresh
    <3>3. ASSUME ~refresh.scanning PROVE Fresh'
      <4>1. refresh.answers[Len(refresh.answers)] = Listed
        BY <2>1, <2>5, <3>3 DEF Fresh
      <4> QED BY <2>1, <2>2, <3>1, <3>3, <4>1 DEF Fresh
    <3>4. Fresh'
      BY <3>2, <3>3
    <3> QED BY <1>b, <2>3, <3>4
  <2> QED BY <1>c, <2>4, <2>5 DEF Current
<1> QED BY <1>1, <1>2, <1>3, <1>4

LEMMA CacheStart == ASSUME Init PROVE CacheInv
<1>1. refresh = Startup
  BY DEF Init
<1>2. refresh.asked = 1 /\ refresh.answers = <<>> /\ IsSeq(<<>>)
  BY <1>1, EmptySeq DEF Startup, IsSeq
<1>3. RefreshOK /\ Reread
  BY <1>1, <1>2 DEF Startup, RefreshOK, Reread
<1> QED BY <1>3, Start DEF CacheInv, Current

LEMMA CacheStep == ASSUME CacheInv, [Next]_vars PROVE CacheInv'
<1>0. IInv'
  BY Step DEF CacheInv
<1>1. CASE \E h \in Handlers : Handles(h)
  BY <1>0, <1>1, HandlerKeeps DEF CacheInv
<1>2. CASE ScanBegins \/ ScanReads \/ ScanEnds \/ RecipesRefreshed
  BY <1>0, <1>2, StoreKeeps DEF CacheInv
<1>3. CASE OvenReports \/ OvenMovesOn \/ CookEnds \/ UNCHANGED vars
  <2>1. UNCHANGED <<files, work, Server>>
    BY <1>3 DEF OvenReports, OvenMovesOn, CookEnds, vars, files, Server
  <2>2. Steady /\ (Reread => Reread')
    BY <2>1 DEF Steady, Content, files, Reread, Server
  <2> QED BY <1>0, <2>1, <2>2, StaysCurrent DEF CacheInv, RefreshOK, files, Server
<1>4. CASE Crash
  <2>1. refresh' = Startup
    BY <1>4 DEF Crash
  <2>2. refresh'.asked = 1 /\ refresh'.answers = <<>> /\ IsSeq(<<>>)
    BY <2>1, EmptySeq DEF Startup, IsSeq
  <2>3. RefreshOK' /\ Reread'
    BY <2>1, <2>2 DEF Startup, RefreshOK, Reread
  <2> QED BY <1>0, <2>3 DEF CacheInv, Current
<1> QED BY <1>1, <1>2, <1>3, <1>4 DEF Next

(***************************************************************************)
(* The list of recipes that can be started is that of the files once the   *)
(* server is quiet: every change asks for a refresh only when it is on     *)
(* disk, so that none is missed by the scan that answers it last           *)
(* (http.rs: refresh_recipes; local_store.rs: the store's answer).         *)
(***************************************************************************)
THEOREM CacheCatchesUp == Spec => []CacheIsCurrent
<1>1. CacheInv => CacheIsCurrent
  <2> SUFFICES ASSUME CacheInv, Quiet, ~overlap PROVE recipes = {Content(id)[1] : id \in Present}
    BY DEF CacheIsCurrent
  <2>1. refresh.asked = 0 /\ ~refresh.scanning /\ refresh.answers = <<>>
    BY DEF Quiet, Startup
  <2>2. ~Reread
    BY <2>1 DEF Quiet, Reread, Over
  <2>3. recipes = Listed
    BY <2>1, <2>2 DEF CacheInv, Current, Fresh
  <2> QED BY <2>3 DEF Listed
<1> QED BY <1>1, CacheStart, CacheStep, PTL DEF Spec

-----------------------------------------------------------------------------
(* Setpoints.                                                              *)

LEMMA RoundedOf ==
    ASSUME NEW a \in Int, NEW b \in Nat \ {0}
    PROVE  /\ Rounded(a, b) \in Int
           /\ 2 * b * Rounded(a, b) <= 2 * a + b /\ 2 * a + b < 2 * b * Rounded(a, b) + 2 * b
<1> DEFINE q == (2 * a + b) \div (2 * b)
<1>1. 2 * b \in Nat \ {0} /\ 2 * a + b \in Int
  OBVIOUS
<1>2. q \in Int /\ (2 * b) * q <= 2 * a + b /\ 2 * a + b < (2 * b) * (q + 1)
  BY <1>1
<1> QED BY <1>2 DEF Rounded

\* A temperature that a client picks in whole degrees, Celsius or Fahrenheit, is
\* set to the same degrees again when it has been read back from the oven
\* (protocol/stages.rs: setpoint_json, setpoint_celsius).
THEOREM WholeDegrees ==
    \A n \in Int : Stable(10 * n) /\ Stable(Rounded(100 * (n - 32), 18))
<1> TAKE n \in Int
<1>1. Stable(10 * n)
  <2> DEFINE f == Rounded(18 * (10 * n) + 3200, 100)
             fine == Rounded(100 * (f - 32), 18)
  <2>1. f \in Int /\ 200 * f <= 360 * n + 6500 /\ 360 * n + 6500 < 200 * f + 200
    BY RoundedOf, SMTT(30)
  <2>2. Rounded(10 * n, 10) = n
    BY DEF Rounded
  <2> HIDE DEF f
  <2>3. fine \in Int /\ 36 * fine <= 200 * (f - 32) + 18 /\ 200 * (f - 32) + 18 < 36 * fine + 36
    BY <2>1, RoundedOf, SMTT(30)
  <2> HIDE DEF fine
  <2>4. fine - 10 * n \in (-4)..4
    BY <2>1, <2>3
  <2>5. FromSetpoint(Setpoint(10 * n)) = fine
    BY <2>2, <2>4 DEF FromSetpoint, Setpoint, CelsiusOf, f, fine
  <2>6. Rounded(fine, 10) = n
    BY <2>3, <2>4 DEF Rounded
  <2>7. Rounded(18 * fine + 3200, 100) = f
    BY <2>1, <2>3 DEF Rounded
  <2> QED BY <2>2, <2>5, <2>6, <2>7 DEF Stable, Setpoint, f
<1>2. Stable(Rounded(100 * (n - 32), 18))
  <2> DEFINE t == Rounded(100 * (n - 32), 18)
             c == Rounded(t, 10)
  <2>1. t \in Int /\ 36 * t <= 200 * (n - 32) + 18 /\ 200 * (n - 32) + 18 < 36 * t + 36
    BY RoundedOf, SMTT(30)
  <2> HIDE DEF t
  <2>2. c \in Int /\ 20 * c <= 2 * t + 10 /\ 2 * t + 10 < 20 * c + 20
    BY <2>1, RoundedOf, SMTT(30)
  <2>3. Rounded(18 * t + 3200, 100) = n
    BY <2>1 DEF Rounded
  <2> HIDE DEF c
  <2>4. t - 10 * c \in (-10)..10
    BY <2>1, <2>2
  <2>5. FromSetpoint(Setpoint(t)) = t
    BY <2>3, <2>4 DEF FromSetpoint, Setpoint, CelsiusOf, c, t
  <2> QED BY <2>5 DEF Stable, t
<1> QED BY <1>1, <1>2

\* A temperature that is read back is within the limits it was set in.
LEMMA ReadBack ==
    ASSUME NEW t \in Int
    PROVE  LET back == FromSetpoint(Setpoint(t))
           IN /\ Setpoint(t) \in Setpoints /\ back \in Int
              /\ t \in 250..1000 => back \in 250..1000
              /\ t \in 250..2500 => back \in 250..2500
              /\ t \in 10..1000 => back \in 10..1000
<1> DEFINE c == Rounded(t, 10)
           f == Rounded(18 * t + 3200, 100)
           fine == Rounded(100 * (f - 32), 18)
<1>1. c \in Int /\ 20 * c <= 2 * t + 10 /\ 2 * t + 10 < 20 * c + 20
  BY RoundedOf, SMTT(30)
<1>2. f \in Int /\ 200 * f <= 36 * t + 6500 /\ 36 * t + 6500 < 200 * f + 200
  BY DEF Rounded
<1> HIDE DEF c, f
<1>3. fine \in Int /\ 36 * fine <= 200 * (f - 32) + 18 /\ 200 * (f - 32) + 18 < 36 * fine + 36
  BY <1>2 DEF Rounded
<1> HIDE DEF fine
<1>4. FromSetpoint(Setpoint(t)) = IF fine - 10 * c \in (-10)..10 THEN fine ELSE 10 * c
  BY DEF FromSetpoint, Setpoint, CelsiusOf, c, f, fine
<1>5. Setpoint(t) \in Setpoints
  BY <1>1, <1>2 DEF Setpoint, Setpoints, c, f
<1>6. /\ t >= 10 => 10 * c >= 10 /\ fine >= 10
      /\ t >= 250 => 10 * c >= 250 /\ fine >= 250
      /\ t <= 1000 => 10 * c <= 1000 /\ fine <= 1000
      /\ t <= 2500 => 10 * c <= 2500 /\ fine <= 2500
  BY <1>1, <1>2, <1>3
<1> DEFINE back == FromSetpoint(Setpoint(t))
<1>7. back = fine \/ back = 10 * c
  BY <1>4
<1> HIDE DEF back
<1>8. fine \in Int /\ 10 * c \in Int
  BY <1>1, <1>3
<1>9. back \in Int
  BY <1>7, <1>8
<1>11. ASSUME t \in 250..1000 PROVE back \in 250..1000
  BY <1>1, <1>6, <1>7, <1>9, <1>11
<1>12. ASSUME t \in 250..2500 PROVE back \in 250..2500
  BY <1>1, <1>6, <1>7, <1>9, <1>12
<1>13. ASSUME t \in 10..1000 PROVE back \in 10..1000
  BY <1>1, <1>6, <1>7, <1>9, <1>13
<1> QED BY <1>5, <1>9, <1>11, <1>12, <1>13 DEF back

-----------------------------------------------------------------------------
(* Stages on their way.                                                    *)

\* A stage that a client makes and normalize lets through, and one that it has
\* put right.
Sound(s) ==
    /\ s \in Stage /\ s.duration # 0
    /\ s.kind = "cook" => /\ s.timed = TRUE <=> s.duration # None
                          /\ s.probed = TRUE <=> s.duration = None /\ s.target # None
    /\ s.kind = "preheat" => ~EndsItself(s)
    /\ s.elements \in [Elements -> BOOLEAN] /\ Cardinality(On(s)) \in 1..2
    /\ s.temp \in 250..(IF s.wet THEN 1000 ELSE 2500) /\ Stable(s.temp)
    /\ s.target # None => s.target \in 10..1000 /\ Stable(s.target)
    /\ s.steam <= 100 /\ s.fan <= 100
    /\ Trimmed(s.prompt) \in {None, "note"} /\ (Trimmed(s.prompt) # None => s.waits = TRUE)
    /\ s.id # None => ~s.id.preheat
Right(s) ==
    /\ s.off \in {TRUE, None} /\ s.prompt \in {None, "note"}
    /\ "rear" \in On(s) \/ s.steam > 0 => s.fan = 100

Rows(stages) ==
    /\ stages \in Seq(Stage) /\ stages # <<>>
    /\ \A i \in DOMAIN stages :
         Sound(stages[i]) /\ (stages[i].off = TRUE => i = Len(stages) /\ EndsItself(stages[i]))
    /\ \A i, j \in DOMAIN stages : i # j => Uuid(stages, i) # Uuid(stages, j)
Ready(stages) ==
    /\ Rows(stages)
    /\ \A i \in DOMAIN stages : Right(stages[i]) /\ stages[i].id # None

LEMMA Nothing ==
    /\ None # TRUE /\ None # FALSE /\ None \notin Int /\ None \notin Nat /\ None \notin StageId
    /\ None \notin Setpoints /\ None \notin {"blank", "note", "long"}
<1>1. None \notin BOOLEAN /\ None \notin Int /\ None \notin StageId
  BY NoneIsNothing
<1>2. None \notin Setpoints /\ None \notin {"blank", "note", "long"}
  BY NoneIsNothing
<1>3. None # TRUE /\ None # FALSE
  BY <1>1
<1>4. None \notin Nat
  BY <1>1
<1> QED BY <1>1, <1>2, <1>3, <1>4, Zenon

\* What is said of one stage by what a client makes and by what is let through.
Made(s) ==
    /\ s.duration # 0
    /\ s.kind = "cook" => /\ s.timed = TRUE <=> s.duration # None
                          /\ s.probed = TRUE <=> s.duration = None /\ s.target # None
    /\ s.elements \in [Elements -> BOOLEAN]
    /\ Stable(s.temp) /\ (s.target # None => Stable(s.target))
    /\ s.id # None => ~s.id.preheat
Fits(s) ==
    /\ s.temp \in 250..(IF s.wet THEN 1000 ELSE 2500)
    /\ s.steam <= 100 /\ s.fan <= 100
    /\ s.timed = TRUE => s.duration \notin {None, 0}
    /\ s.probed = TRUE => s.target # None
    /\ s.target # None => s.target \in 10..1000
    /\ ~(s.timed = TRUE /\ s.probed = TRUE)
    /\ s.kind = "preheat" => ~EndsItself(s)
    /\ Trimmed(s.prompt) \in {None, "note"}
    /\ Trimmed(s.prompt) # None => s.waits = TRUE
    /\ Cardinality(On(s)) \in 1..2

LEMMA SoundIs ==
    ASSUME NEW s \in Stage
    PROVE  Sound(s) <=> Made(s) /\ Fits(s)
<1>1. s.kind = "cook" \/ s.kind = "preheat"
  BY DEF Stage
<1>2. ASSUME Sound(s) PROVE Made(s)
  BY <1>2 DEF Sound, Made
<1>3. ASSUME Sound(s) PROVE Fits(s)
  <2>1. /\ s.timed = TRUE => s.duration \notin {None, 0}
        /\ s.probed = TRUE => s.target # None
        /\ ~(s.timed = TRUE /\ s.probed = TRUE)
    BY <1>1, <1>3, Zenon DEF Sound, EndsItself
  <2> QED BY <1>3, <2>1, Zenon DEF Sound, Fits
<1>4. ASSUME Made(s), Fits(s) PROVE Sound(s)
  BY <1>4, Zenon DEF Sound, Made, Fits
<1> QED BY <1>2, <1>3, <1>4

LEMMA MadeRows ==
    ASSUME NEW stages
    PROVE  ClientMade(stages) /\ Valid(stages) <=> Rows(stages)
<1> DEFINE Far == \A i, j \in DOMAIN stages : i # j => Uuid(stages, i) # Uuid(stages, j)
           Offs == \A i \in DOMAIN stages :
                      stages[i].off = TRUE => i = Len(stages) /\ EndsItself(stages[i])
<1>1. ClientMade(stages) <=> /\ stages \in Seq(Stage)
                             /\ (\A i \in DOMAIN stages : Made(stages[i])) /\ Far
  <2>1. ASSUME ClientMade(stages), NEW i \in DOMAIN stages PROVE Made(stages[i])
    <3> DEFINE s == stages[i]
    <3>1. s.kind = "cook" => /\ s.timed = TRUE <=> s.duration # None
                             /\ s.probed = TRUE <=> s.duration = None /\ s.target # None
      BY <2>1, Zenon DEF ClientMade
    <3>2. /\ s.duration # 0 /\ s.elements \in [Elements -> BOOLEAN]
          /\ Stable(s.temp) /\ (s.target # None => Stable(s.target))
          /\ s.id # None => ~s.id.preheat
      BY <2>1 DEF ClientMade
    <3> QED BY <3>1, <3>2, Zenon DEF Made
  <2>2. ClientMade(stages) => stages \in Seq(Stage) /\ Far
    BY Zenon DEF ClientMade
  <2>3. ASSUME stages \in Seq(Stage), \A i \in DOMAIN stages : Made(stages[i]), Far
        PROVE  ClientMade(stages)
    BY <2>3, Zenon DEF ClientMade, Made
  <2> QED BY <2>1, <2>2, <2>3
<1>2. Valid(stages) <=> stages # <<>> /\ (\A i \in DOMAIN stages : Fits(stages[i])) /\ Offs
  <2>1. ASSUME Valid(stages), NEW i \in DOMAIN stages PROVE Fits(stages[i])
    BY <2>1 DEF Valid, Fits
  <2>2. Valid(stages) => stages # <<>> /\ Offs
    BY DEF Valid
  <2>3. ASSUME stages # <<>>, \A i \in DOMAIN stages : Fits(stages[i]), Offs
        PROVE  Valid(stages)
    BY <2>3 DEF Valid, Fits
  <2> QED BY <2>1, <2>2, <2>3
<1>3. Rows(stages) <=> /\ stages \in Seq(Stage) /\ stages # <<>>
                       /\ (\A i \in DOMAIN stages : Sound(stages[i])) /\ Offs /\ Far
  BY Zenon DEF Rows
<1>4. ASSUME stages \in Seq(Stage), NEW i \in DOMAIN stages
      PROVE  Sound(stages[i]) <=> Made(stages[i]) /\ Fits(stages[i])
  BY <1>4, SoundIs, ElementOfSeq, LenProperties
<1> HIDE DEF Far, Offs
<1> QED BY <1>1, <1>2, <1>3, <1>4

\* One that differs in what it is called, in how its end is said, and in the
\* fan that it needs.
LEMMA StaysSound ==
    ASSUME NEW s, Sound(s), NEW n \in Stage,
           n.kind = s.kind, n.temp = s.temp, n.wet = s.wet, n.duration = s.duration,
           n.target = s.target, n.steam = s.steam, n.waits = s.waits, n.elements = s.elements,
           n.timed = TRUE <=> s.timed = TRUE, n.probed = TRUE <=> s.probed = TRUE,
           n.fan \in {s.fan, 100}, Trimmed(n.prompt) = Trimmed(s.prompt),
           n.id # None => ~n.id.preheat
    PROVE  Sound(n) /\ On(n) = On(s) /\ (EndsItself(n) <=> EndsItself(s))
<1>1. On(n) = On(s)
  BY DEF On
<1>2. EndsItself(n) <=> EndsItself(s)
  BY Zenon DEF EndsItself
<1>3. n.fan <= 100
  BY DEF Sound
<1>4. /\ n.kind = "cook" => /\ n.timed = TRUE <=> n.duration # None
                            /\ n.probed = TRUE <=> n.duration = None /\ n.target # None
      /\ n.kind = "preheat" => ~EndsItself(n)
  <2>1. /\ s.kind = "cook" => /\ s.timed = TRUE <=> s.duration # None
                              /\ s.probed = TRUE <=> s.duration = None /\ s.target # None
        /\ s.kind = "preheat" => ~EndsItself(s)
    BY Zenon DEF Sound
  <2>2. /\ n.kind = "cook" <=> s.kind = "cook"
        /\ n.kind = "preheat" <=> s.kind = "preheat"
        /\ n.duration = None <=> s.duration = None
        /\ n.target = None <=> s.target = None
    OBVIOUS
  <2> QED BY <1>2, <2>1, <2>2, Zenon
<1>5. Trimmed(n.prompt) \in {None, "note"} /\ (Trimmed(n.prompt) # None => n.waits = TRUE)
  <2>1. Trimmed(s.prompt) \in {None, "note"} /\ (Trimmed(s.prompt) # None => s.waits = TRUE)
    BY Zenon DEF Sound
  <2> QED BY <2>1
<1>6. /\ n.temp \in 250..(IF n.wet THEN 1000 ELSE 2500) /\ Stable(n.temp)
      /\ n.target # None => n.target \in 10..1000 /\ Stable(n.target)
      /\ n.steam <= 100 /\ n.duration # 0
      /\ n.elements \in [Elements -> BOOLEAN] /\ Cardinality(On(n)) \in 1..2
  BY <1>1 DEF Sound
<1>7. Sound(n)
  BY <1>3, <1>4, <1>5, <1>6, Zenon DEF Sound
<1> QED BY <1>1, <1>2, <1>7

LEMMA NormalStage ==
    ASSUME NEW stages \in Seq(Stage), NEW i \in DOMAIN stages
    PROVE  LET n == Normal(stages)[i]
               s == stages[i]
           IN /\ n \in Stage
              /\ n.kind = s.kind /\ n.temp = s.temp /\ n.wet = s.wet /\ n.duration = s.duration
              /\ n.timed = s.timed /\ n.probed = s.probed /\ n.target = s.target
              /\ n.steam = s.steam /\ n.waits = s.waits /\ n.elements = s.elements
              /\ n.off = (IF s.off = TRUE THEN TRUE ELSE None) /\ n.prompt = Trimmed(s.prompt)
              /\ n.fan = (IF "rear" \in On(s) \/ s.steam > 0 THEN 100 ELSE s.fan)
              /\ n.id = IF s.id = None THEN [of |-> i, ios |-> TRUE, preheat |-> FALSE] ELSE s.id
<1> DEFINE s == stages[i]
           n == Normal(stages)[i]
<1>1. s \in Stage /\ i \in Nat
  BY ElementOfSeq, LenProperties
<1>2. n = [s EXCEPT
             !.off = IF @ = TRUE THEN TRUE ELSE None, !.prompt = Trimmed(@),
             !.fan = IF "rear" \in On(s) \/ s.steam > 0 THEN 100 ELSE @,
             !.id = IF @ = None THEN [of |-> i, ios |-> TRUE, preheat |-> FALSE] ELSE @]
  BY DEF Normal
<1> HIDE DEF s, n
<1>3. /\ n.kind = s.kind /\ n.temp = s.temp /\ n.wet = s.wet /\ n.duration = s.duration
      /\ n.timed = s.timed /\ n.probed = s.probed /\ n.target = s.target
      /\ n.steam = s.steam /\ n.waits = s.waits /\ n.elements = s.elements
      /\ n.off = (IF s.off = TRUE THEN TRUE ELSE None) /\ n.prompt = Trimmed(s.prompt)
      /\ n.fan = (IF "rear" \in On(s) \/ s.steam > 0 THEN 100 ELSE s.fan)
      /\ n.id = IF s.id = None THEN [of |-> i, ios |-> TRUE, preheat |-> FALSE] ELSE s.id
  BY <1>1, <1>2 DEF Stage
<1>4. [of |-> i, ios |-> TRUE, preheat |-> FALSE] \in StageId
  BY <1>1 DEF StageId
<1>5. n \in Stage
  <2>1. n = [id |-> n.id, kind |-> n.kind, temp |-> n.temp, wet |-> n.wet, duration |-> n.duration,
             timed |-> n.timed, probed |-> n.probed, target |-> n.target, steam |-> n.steam,
             fan |-> n.fan, waits |-> n.waits, elements |-> n.elements, off |-> n.off,
             prompt |-> n.prompt]
    BY <1>1, <1>2 DEF Stage
  <2>2. n.id \in Maybe(StageId)
    BY <1>1, <1>3, <1>4 DEF Stage, Maybe
  <2>3. n.off \in Maybe(BOOLEAN)
    BY <1>3 DEF Maybe
  <2>4. n.prompt \in Maybe({"blank", "note", "long"})
    BY <1>1, <1>3 DEF Stage, Maybe, Trimmed
  <2>5. n.fan \in Nat
    BY <1>1, <1>3 DEF Stage
  <2>6. /\ n.kind \in {"preheat", "cook"} /\ n.temp \in Int /\ n.wet \in BOOLEAN
        /\ n.duration \in Maybe(Nat) /\ n.timed \in Maybe(BOOLEAN) /\ n.probed \in Maybe(BOOLEAN)
        /\ n.target \in Maybe(Int) /\ n.steam \in Nat /\ n.waits \in Maybe(BOOLEAN)
        /\ n.elements \in [Elements -> Maybe(BOOLEAN)]
    BY <1>1, <1>3 DEF Stage
  <2> QED BY <2>1, <2>2, <2>3, <2>4, <2>5, <2>6 DEF Stage
<1> QED BY <1>3, <1>5 DEF s, n

LEMMA NormalSound ==
    ASSUME NEW stages \in Seq(Stage), NEW i \in DOMAIN stages, Sound(stages[i])
    PROVE  LET n == Normal(stages)[i]
           IN /\ n \in Stage /\ Sound(n) /\ Right(n) /\ n.id # None
              /\ EndsItself(n) <=> EndsItself(stages[i])
              /\ n.off = TRUE => stages[i].off = TRUE
              /\ Uuid(Normal(stages), i) = Uuid(stages, i)
<1> DEFINE s == stages[i]
           n == Normal(stages)[i]
<1>1. n \in Stage
  BY NormalStage
<1>2. /\ n.kind = s.kind /\ n.temp = s.temp /\ n.wet = s.wet /\ n.duration = s.duration
      /\ n.timed = s.timed /\ n.probed = s.probed /\ n.target = s.target
      /\ n.steam = s.steam /\ n.waits = s.waits /\ n.elements = s.elements
      /\ n.off = (IF s.off = TRUE THEN TRUE ELSE None) /\ n.prompt = Trimmed(s.prompt)
      /\ n.fan = (IF "rear" \in On(s) \/ s.steam > 0 THEN 100 ELSE s.fan)
      /\ n.id = IF s.id = None THEN [of |-> i, ios |-> TRUE, preheat |-> FALSE] ELSE s.id
  BY NormalStage
<1>3. Uuid(Normal(stages), i) = IF n.id = None THEN i ELSE n.id.of
  BY DEF Uuid
<1>4. Uuid(stages, i) = IF s.id = None THEN i ELSE s.id.of
  BY DEF Uuid
<1>5. [of |-> i, ios |-> TRUE, preheat |-> FALSE] \in StageId
  BY LenProperties DEF StageId
<1> HIDE DEF s, n
<1>6. n.id # None
  BY <1>2, <1>5, Nothing
<1>7. n.id # None => ~n.id.preheat
  BY <1>2 DEF Sound, s
<1>8. Uuid(Normal(stages), i) = Uuid(stages, i)
  BY <1>2, <1>3, <1>4, <1>6
<1>9. Sound(s) /\ Trimmed(n.prompt) = Trimmed(s.prompt) /\ n.fan \in {s.fan, 100}
  BY <1>2 DEF Trimmed, s
<1>10. Sound(n) /\ On(n) = On(s) /\ (EndsItself(n) <=> EndsItself(s))
  BY <1>1, <1>2, <1>7, <1>9, StaysSound
<1>11. Right(n)
  <2>1. n.off \in {TRUE, None}
    BY <1>2
  <2>2. n.prompt \in {None, "note"}
    BY <1>2, <1>9 DEF Sound
  <2>3. "rear" \in On(n) \/ n.steam > 0 => n.fan = 100
    BY <1>2, <1>10
  <2> QED BY <2>1, <2>2, <2>3 DEF Right
<1>12. n.off = TRUE => s.off = TRUE
  BY <1>2, Nothing, Zenon
<1> QED BY <1>1, <1>6, <1>8, <1>10, <1>11, <1>12 DEF s, n

LEMMA NormalReady ==
    ASSUME NEW stages, Rows(stages)
    PROVE  /\ Ready(Normal(stages))
           /\ DOMAIN Normal(stages) = DOMAIN stages /\ Len(Normal(stages)) = Len(stages)
<1> DEFINE n == Normal(stages)
<1>1. stages \in Seq(Stage) /\ DOMAIN stages = 1..Len(stages) /\ Len(stages) \in Nat
  BY LenProperties DEF Rows
<1>2. DOMAIN n = 1..Len(stages)
  BY <1>1 DEF Normal
<1>3. \A i \in DOMAIN stages : Sound(stages[i])
  BY DEF Rows
<1>4. \A i \in DOMAIN stages :
        /\ n[i] \in Stage /\ Sound(n[i]) /\ Right(n[i]) /\ n[i].id # None
        /\ EndsItself(n[i]) <=> EndsItself(stages[i])
        /\ n[i].off = TRUE => stages[i].off = TRUE
        /\ Uuid(n, i) = Uuid(stages, i)
  BY <1>1, <1>3, NormalSound
<1>5. n = [i \in 1..Len(stages) |-> n[i]]
  BY <1>1 DEF Normal
<1> HIDE DEF n
<1>6. n \in Seq(Stage) /\ Len(n) = Len(stages)
  <2>1. n \in [1..Len(stages) -> Stage]
    BY <1>1, <1>4, <1>5
  <2> QED BY <1>1, <2>1
<1>7. n # <<>>
  <2>1. Len(stages) # 0
    BY <1>1, EmptySeq DEF Rows
  <2> QED BY <1>6, <2>1
<1>8. ASSUME NEW i \in DOMAIN n, n[i].off = TRUE PROVE i = Len(n) /\ EndsItself(n[i])
  BY <1>1, <1>2, <1>4, <1>6, <1>8 DEF Rows
<1>9. ASSUME NEW i \in DOMAIN n, NEW j \in DOMAIN n, i # j PROVE Uuid(n, i) # Uuid(n, j)
  BY <1>1, <1>2, <1>4, <1>9 DEF Rows
<1>10. Rows(n)
  BY <1>1, <1>2, <1>4, <1>6, <1>7, <1>8, <1>9, Zenon DEF Rows
<1>11. Ready(n)
  BY <1>1, <1>2, <1>4, <1>10, Zenon DEF Ready
<1> QED BY <1>1, <1>2, <1>6, <1>11 DEF n

\* What a stage does, and what stages do, as Behavior has it of the oven's.
Look(s) ==
    [id |-> None, kind |-> s.kind, waits |-> s.waits = TRUE, wet |-> s.wet,
     setpoint |-> Setpoint(s.temp), elements |-> [e \in Elements |-> s.elements[e] # FALSE],
     fan |-> s.fan, steam |-> s.steam, timer |-> s.duration,
     probe |-> IF s.duration = None /\ s.target # None THEN Setpoint(s.target) ELSE None]
Shape(stages) ==
    [i \in DOMAIN stages |->
       [stage |-> Look(stages[i]), prompt |-> stages[i].prompt,
        off |-> stages[Len(stages)].off = TRUE /\ i = Len(stages)]]

\* A preheat is known by the stage it is for, every other by itself.
Before(stages, i) ==
    stages[i].kind = "preheat" /\ i < Len(stages) /\ stages[i + 1].kind # "preheat"

LEMMA OvenStage ==
    ASSUME NEW stages, Ready(stages), NEW i \in DOMAIN stages
    PROVE  LET d == OvenIds(stages)[i]
               s == stages[i]
           IN /\ d \in Stage
              /\ d.kind = s.kind /\ d.temp = s.temp /\ d.wet = s.wet /\ d.duration = s.duration
              /\ d.timed = s.timed /\ d.probed = s.probed /\ d.target = s.target
              /\ d.steam = s.steam /\ d.fan = s.fan /\ d.waits = s.waits
              /\ d.elements = s.elements /\ d.off = s.off /\ d.prompt = s.prompt
              /\ d.id \in StageId
              /\ d.id.of = Uuid(stages, IF Before(stages, i) THEN i + 1 ELSE i)
              /\ d.id.preheat = Before(stages, i)
<1> DEFINE s == stages[i]
           d == OvenIds(stages)[i]
           t == stages[i + 1]
           id == IF Before(stages, i) THEN [t.id EXCEPT !.preheat = TRUE] ELSE s.id
           at == IF Before(stages, i) THEN i + 1 ELSE i
<1>1. stages \in Seq(Stage) /\ DOMAIN stages = 1..Len(stages) /\ Len(stages) \in Nat /\ i \in Nat
  BY LenProperties DEF Ready, Rows
<1>2. s \in Stage /\ s.id # None /\ s.id \in StageId /\ ~s.id.preheat
  <2>1. s \in Stage /\ s.id # None /\ ~s.id.preheat
    BY DEF Ready, Rows, Sound
  <2> QED BY <2>1 DEF Stage, Maybe
<1>3. ASSUME Before(stages, i)
      PROVE  i + 1 \in DOMAIN stages /\ t.id \in StageId /\ t.id # None
  <2>1. i + 1 \in DOMAIN stages
    BY <1>1, <1>3 DEF Before
  <2>2. t \in Stage /\ t.id # None
    BY <2>1 DEF Ready, Rows, Sound
  <2> QED BY <2>1, <2>2 DEF Stage, Maybe
<1>4. d = [s EXCEPT !.id = [id EXCEPT !.ios = TRUE]]
  BY DEF OvenIds, Before
<1> HIDE DEF s, t, d, id, at
<1>5. id \in StageId /\ id.preheat = Before(stages, i) /\ id.of = Uuid(stages, at)
  <2>1. CASE Before(stages, i)
    <3>1. id = [t.id EXCEPT !.preheat = TRUE]
      BY <2>1 DEF id
    <3>2. id \in StageId /\ id.preheat = TRUE /\ id.of = t.id.of
      BY <1>3, <2>1, <3>1 DEF StageId
    <3>3. Uuid(stages, i + 1) = t.id.of
      BY <1>3, <2>1 DEF Uuid, t
    <3>4. at = i + 1 /\ Before(stages, i) = TRUE
      BY <2>1 DEF at, Before
    <3> QED BY <3>2, <3>3, <3>4
  <2>2. CASE ~Before(stages, i)
    <3>1. id = s.id
      BY <2>2 DEF id
    <3>2. Uuid(stages, i) = s.id.of
      BY <1>2 DEF Uuid, s
    <3>3. s.id.preheat = FALSE
      BY <1>2 DEF StageId
    <3>4. at = i /\ Before(stages, i) = FALSE
      BY <2>2 DEF at, Before
    <3> QED BY <1>2, <3>1, <3>2, <3>3, <3>4
  <2> QED BY <2>1, <2>2
<1>6. d.id = [id EXCEPT !.ios = TRUE]
  BY <1>2, <1>4 DEF Stage
<1>7. d.id \in StageId /\ d.id.preheat = id.preheat /\ d.id.of = id.of
  BY <1>5, <1>6 DEF StageId
<1>8. /\ d.kind = s.kind /\ d.temp = s.temp /\ d.wet = s.wet /\ d.duration = s.duration
      /\ d.timed = s.timed /\ d.probed = s.probed /\ d.target = s.target
      /\ d.steam = s.steam /\ d.fan = s.fan /\ d.waits = s.waits
      /\ d.elements = s.elements /\ d.off = s.off /\ d.prompt = s.prompt
  BY <1>2, <1>4 DEF Stage
<1>9. d \in Stage
  <2>1. [id EXCEPT !.ios = TRUE] \in Maybe(StageId)
    BY <1>6, <1>7 DEF Maybe
  <2> QED BY <1>2, <1>4, <2>1 DEF Stage
<1> QED BY <1>5, <1>7, <1>8, <1>9 DEF s, d, at

LEMMA OvenApart ==
    ASSUME NEW stages, Ready(stages), NEW i \in DOMAIN stages, NEW j \in DOMAIN stages, i # j
    PROVE  OvenIds(stages)[i].id # OvenIds(stages)[j].id
<1> DEFINE At(k) == IF Before(stages, k) THEN k + 1 ELSE k
<1>1. stages \in Seq(Stage) /\ DOMAIN stages = 1..Len(stages) /\ Len(stages) \in Nat
  BY LenProperties DEF Ready, Rows
<1>2. At(i) \in DOMAIN stages /\ At(j) \in DOMAIN stages
  BY <1>1 DEF Before
<1>3. /\ OvenIds(stages)[i].id.of = Uuid(stages, At(i))
      /\ OvenIds(stages)[i].id.preheat = Before(stages, i)
      /\ OvenIds(stages)[j].id.of = Uuid(stages, At(j))
      /\ OvenIds(stages)[j].id.preheat = Before(stages, j)
  BY OvenStage
<1>4. ASSUME Before(stages, i) <=> Before(stages, j) PROVE At(i) # At(j)
  BY <1>1, <1>4
<1>5. ASSUME At(i) # At(j) PROVE Uuid(stages, At(i)) # Uuid(stages, At(j))
  BY <1>2, <1>5 DEF Ready, Rows
<1>6. CASE Before(stages, i) <=> Before(stages, j)
  BY <1>3, <1>4, <1>5, <1>6
<1>7. CASE ~(Before(stages, i) <=> Before(stages, j))
  BY <1>3, <1>7
<1> QED BY <1>6, <1>7

LEMMA PromptsBack ==
    ASSUME NEW stages, NEW i \in DOMAIN stages,
           \A j, k \in DOMAIN stages : j # k => stages[j].id # stages[k].id
    PROVE  PromptOf(Extras(stages), stages[i].id) = stages[i].prompt
<1> DEFINE noted == {k \in DOMAIN stages : stages[k].prompt # None}
           Last(id) == CHOOSE k \in noted :
                          stages[k].id = id /\ \A j \in noted : stages[j].id = id => j <= k
           prompts == [id \in {stages[k].id : k \in noted} |-> stages[Last(id)].prompt]
<1>1. Extras(stages).prompts = prompts
  BY DEF Extras
<1>2. PromptOf(Extras(stages), stages[i].id) =
        IF stages[i].id \in DOMAIN prompts THEN prompts[stages[i].id] ELSE None
  BY <1>1 DEF PromptOf
<1>3. CASE stages[i].prompt = None
  BY <1>2, <1>3
<1>4. CASE stages[i].prompt # None
  <2>1. i \in noted
    BY <1>4
  <2>2. \A k \in noted : stages[k].id = stages[i].id => k = i
    OBVIOUS
  <2>3. Last(stages[i].id) = i
    BY <2>1, <2>2
  <2>4. prompts[stages[i].id] = stages[Last(stages[i].id)].prompt
    BY <2>1
  <2> QED BY <1>2, <2>1, <2>3, <2>4
<1> QED BY <1>3, <1>4

LEMMA LenOf ==
    ASSUME NEW n \in Nat, NEW f, f = [i \in 1..n |-> f[i]]
    PROVE  IsSeq(f) /\ Len(f) = n
<1> DEFINE S == {f[i] : i \in 1..n}
<1>1. f \in [1..n -> S]
  OBVIOUS
<1> HIDE DEF S
<1>2. f \in Seq(S) /\ Len(f) = n
  BY <1>1
<1> QED BY <1>2 DEF IsSeq

LEMMA LookSent ==
    ASSUME NEW d
    PROVE  LET r == SentStage(d)
           IN Look(d) = [r EXCEPT !.id = None, !.probe = IF r.timer = None THEN @ ELSE None]
<1> DEFINE r == SentStage(d)
           w == d.waits = TRUE
           e == [el \in Elements |-> d.elements[el] # FALSE]
           q == IF d.duration = None /\ d.target # None THEN Setpoint(d.target) ELSE None
           p == IF r.timer = None THEN r.probe ELSE None
<1>1. r = [id |-> d.id, kind |-> d.kind, waits |-> w, wet |-> d.wet,
           setpoint |-> Setpoint(d.temp), elements |-> e, fan |-> d.fan, steam |-> d.steam,
           timer |-> d.duration, probe |-> q]
  BY DEF SentStage
<1>2. Look(d) = [id |-> None, kind |-> d.kind, waits |-> w, wet |-> d.wet,
                 setpoint |-> Setpoint(d.temp), elements |-> e, fan |-> d.fan, steam |-> d.steam,
                 timer |-> d.duration, probe |-> q]
  BY DEF Look
<1> HIDE DEF r, w, e
<1>3. p = q
  BY <1>1
<1> HIDE DEF p, q
<1>4. /\ r.kind = d.kind /\ r.waits = w /\ r.wet = d.wet /\ r.setpoint = Setpoint(d.temp)
      /\ r.elements = e /\ r.fan = d.fan /\ r.steam = d.steam /\ r.timer = d.duration
      /\ r = [id |-> r.id, kind |-> r.kind, waits |-> r.waits, wet |-> r.wet,
              setpoint |-> r.setpoint, elements |-> r.elements, fan |-> r.fan,
              steam |-> r.steam, timer |-> r.timer, probe |-> r.probe]
  BY <1>1
<1> DEFINE a == [r EXCEPT !.id = None, !.probe = p]
           R == [id: {r.id, None}, kind: {r.kind}, waits: {r.waits}, wet: {r.wet},
                 setpoint: {r.setpoint}, elements: {r.elements}, fan: {r.fan}, steam: {r.steam},
                 timer: {r.timer}, probe: {r.probe, p}]
<1>5. r \in R
  BY <1>4
<1>6. a \in R /\ a.id = None /\ a.probe = p
  BY <1>5
<1> HIDE DEF a
<1>7. a = [id |-> a.id, kind |-> r.kind, waits |-> r.waits, wet |-> r.wet, setpoint |-> r.setpoint,
           elements |-> r.elements, fan |-> r.fan, steam |-> r.steam, timer |-> r.timer,
           probe |-> a.probe]
  BY <1>6
<1>8. a = Look(d)
  BY <1>2, <1>3, <1>4, <1>6, <1>7, Zenon
<1> QED BY <1>8 DEF a, p, r

\* What the oven is sent does what the stages say.
LEMMA SentShape ==
    ASSUME NEW stages \in Seq(Stage), stages # <<>>,
           \A j, k \in DOMAIN stages : j # k => stages[j].id # stages[k].id
    PROVE  Behavior(Sent(stages), Extras(stages)) = Shape(stages)
<1> DEFINE raw == Sent(stages)
           extras == Extras(stages)
<1>1. DOMAIN stages = 1..Len(stages) /\ Len(stages) \in Nat
  BY LenProperties
<1>2. raw = [i \in 1..Len(stages) |-> SentStage(stages[i])]
  BY <1>1 DEF Sent
<1>3. \A i \in DOMAIN stages : raw[i] = SentStage(stages[i]) /\ raw[i].id = stages[i].id
  BY <1>1, <1>2 DEF SentStage
<1>4. Len(raw) = Len(stages) /\ DOMAIN raw = DOMAIN stages
  BY <1>1, <1>2, LenOf
<1>5. extras.off = (stages[Len(stages)].off = TRUE)
  BY DEF Extras
<1>6. \A i \in DOMAIN stages : PromptOf(extras, stages[i].id) = stages[i].prompt
  BY PromptsBack
<1>7. \A i \in DOMAIN stages :
        Look(stages[i]) = [raw[i] EXCEPT !.id = None, !.probe = IF raw[i].timer = None THEN @ ELSE None]
  BY <1>3, LookSent
<1> HIDE DEF raw, extras
<1>8. Behavior(raw, extras) =
        [i \in DOMAIN stages |->
           [stage |-> [raw[i] EXCEPT !.id = None, !.probe = IF raw[i].timer = None THEN @ ELSE None],
            prompt |-> PromptOf(extras, raw[i].id), off |-> extras.off /\ i = Len(stages)]]
  BY <1>4 DEF Behavior
<1>9. ASSUME NEW i \in DOMAIN stages
      PROVE  [stage |-> [raw[i] EXCEPT !.id = None,
                                       !.probe = IF raw[i].timer = None THEN @ ELSE None],
              prompt |-> PromptOf(extras, raw[i].id), off |-> extras.off /\ i = Len(stages)]
             = [stage |-> Look(stages[i]), prompt |-> stages[i].prompt,
                off |-> stages[Len(stages)].off = TRUE /\ i = Len(stages)]
  <2>1. PromptOf(extras, raw[i].id) = stages[i].prompt
    BY <1>3, <1>6
  <2>2. (extras.off /\ i = Len(stages)) = (stages[Len(stages)].off = TRUE /\ i = Len(stages))
    BY <1>5
  <2> QED BY <1>7, <2>1, <2>2, Zenon
<1> QED BY <1>8, <1>9, Zenon DEF Shape, raw, extras

LEMMA OvenSeq ==
    ASSUME NEW stages, Ready(stages)
    PROVE  /\ OvenIds(stages) \in Seq(Stage) /\ OvenIds(stages) # <<>>
           /\ DOMAIN OvenIds(stages) = DOMAIN stages /\ Len(OvenIds(stages)) = Len(stages)
<1> DEFINE d == OvenIds(stages)
<1>1. stages \in Seq(Stage) /\ DOMAIN stages = 1..Len(stages) /\ Len(stages) \in Nat /\ Len(stages) # 0
  BY LenProperties, EmptySeq DEF Ready, Rows
<1>2. d = [i \in 1..Len(stages) |-> d[i]]
  BY <1>1 DEF OvenIds
<1>3. \A i \in 1..Len(stages) : d[i] \in Stage
  BY <1>1, OvenStage
<1> HIDE DEF d
<1>4. d \in [1..Len(stages) -> Stage]
  BY <1>2, <1>3
<1>5. d \in Seq(Stage) /\ Len(d) = Len(stages)
  BY <1>1, <1>4
<1>6. d # <<>>
  BY <1>1, <1>5
<1> QED BY <1>1, <1>2, <1>5, <1>6 DEF d

LEMMA AgainShape ==
    ASSUME NEW stages, Ready(stages)
    PROVE  Again(stages) = Shape(stages)
<1> DEFINE d == OvenIds(stages)
<1>1. d \in Seq(Stage) /\ d # <<>> /\ DOMAIN d = DOMAIN stages /\ Len(d) = Len(stages)
  BY OvenSeq
<1>2. \A j, k \in DOMAIN d : j # k => d[j].id # d[k].id
  BY <1>1, OvenApart
<1>3. Again(stages) = Shape(d)
  BY <1>1, <1>2, SentShape DEF Again
<1>4. \A i \in DOMAIN stages :
        /\ d[i].kind = stages[i].kind /\ d[i].temp = stages[i].temp /\ d[i].wet = stages[i].wet
        /\ d[i].duration = stages[i].duration /\ d[i].target = stages[i].target
        /\ d[i].steam = stages[i].steam /\ d[i].fan = stages[i].fan
        /\ d[i].waits = stages[i].waits /\ d[i].elements = stages[i].elements
        /\ d[i].off = stages[i].off /\ d[i].prompt = stages[i].prompt
  BY OvenStage
<1> HIDE DEF d
<1>5. \A i \in DOMAIN stages : Look(d[i]) = Look(stages[i])
  BY <1>4, Zenon DEF Look
<1>6. Len(stages) \in DOMAIN stages
  BY LenProperties, EmptySeq DEF Ready, Rows
<1>7. Shape(d) = Shape(stages)
  <2>1. d[Len(stages)].off = stages[Len(stages)].off
    BY <1>4, <1>6
  <2> QED BY <1>1, <1>4, <1>5, <2>1, Zenon DEF Shape
<1> QED BY <1>3, <1>7 DEF d

\* A stage to be saved: without an id, and with its end said.
LEMMA Restored ==
    ASSUME NEW d \in Stage
    PROVE  LET n == RestoreEnd([d EXCEPT !.id = None])
               said == d.kind = "preheat" \/ d.timed # None \/ d.probed # None
               timer == d.duration \notin {None, 0}
           IN /\ n \in Stage /\ n.id = None
              /\ n.kind = d.kind /\ n.temp = d.temp /\ n.wet = d.wet /\ n.duration = d.duration
              /\ n.target = d.target /\ n.steam = d.steam /\ n.fan = d.fan /\ n.waits = d.waits
              /\ n.elements = d.elements /\ n.off = d.off /\ n.prompt = d.prompt
              /\ said => n.timed = d.timed /\ n.probed = d.probed
              /\ ~said => n.timed = timer /\ n.probed = (~timer /\ d.target # None)
<1> DEFINE m == [d EXCEPT !.id = None]
           n == RestoreEnd(m)
           said == d.kind = "preheat" \/ d.timed # None \/ d.probed # None
           timer == d.duration \notin {None, 0}
           probe == ~timer /\ d.target # None
<1>1. /\ m \in Stage /\ m.id = None
      /\ m.kind = d.kind /\ m.temp = d.temp /\ m.wet = d.wet /\ m.duration = d.duration
      /\ m.target = d.target /\ m.steam = d.steam /\ m.fan = d.fan /\ m.waits = d.waits
      /\ m.elements = d.elements /\ m.off = d.off /\ m.prompt = d.prompt
      /\ m.timed = d.timed /\ m.probed = d.probed
  BY DEF Stage, Maybe
<1> HIDE DEF m
<1>2. CASE said
  <2>1. n = m
    BY <1>1, <1>2, Zenon DEF RestoreEnd
  <2> HIDE DEF n, said
  <2> QED BY <1>1, <1>2, <2>1, Zenon DEF n, m, said
<1>3. CASE ~said
  <2>1. n = [m EXCEPT !.timed = timer, !.probed = probe]
    BY <1>1, <1>3 DEF RestoreEnd
  <2>2. timer \in Maybe(BOOLEAN) /\ probe \in Maybe(BOOLEAN)
    BY Zenon DEF Maybe
  <2> HIDE DEF n, said, timer, probe
  <2>3. n \in Stage
    BY <1>1, <2>1, <2>2 DEF Stage
  <2>4. n.timed = timer /\ n.probed = probe
    BY <1>1, <2>1 DEF Stage
  <2>5. /\ n.id = m.id
        /\ n.kind = m.kind /\ n.temp = m.temp /\ n.wet = m.wet /\ n.duration = m.duration
        /\ n.target = m.target /\ n.steam = m.steam /\ n.fan = m.fan /\ n.waits = m.waits
        /\ n.elements = m.elements /\ n.off = m.off /\ n.prompt = m.prompt
    BY <1>1, <2>1 DEF Stage
  <2> QED BY <1>1, <1>3, <2>3, <2>4, <2>5, Zenon DEF n, m, said, timer, probe
<1> QED BY <1>2, <1>3

LEMMA SavedAgain ==
    ASSUME NEW stages \in Seq(Stage), stages # <<>>,
           \A i \in DOMAIN stages :
              /\ Sound(stages[i]) /\ Right(stages[i]) /\ stages[i].id = None
              /\ stages[i].off = TRUE => i = Len(stages) /\ EndsItself(stages[i])
    PROVE  Rows(stages) /\ Again(Normal(stages)) = Shape(stages)
<1>1. \A i \in DOMAIN stages : Uuid(stages, i) = i
  BY DEF Uuid
<1>2. Rows(stages)
  BY <1>1, Zenon DEF Rows
<1> DEFINE n == Normal(stages)
<1>3. Ready(n) /\ DOMAIN n = DOMAIN stages /\ Len(n) = Len(stages)
  BY <1>2, NormalReady
<1>4. Again(n) = Shape(n)
  BY <1>3, AgainShape
<1>5. ASSUME NEW i \in DOMAIN stages
      PROVE  n[i].off = stages[i].off /\ n[i].prompt = stages[i].prompt /\ Look(n[i]) = Look(stages[i])
  <2> DEFINE s == stages[i]
             t == n[i]
  <2>1. /\ t.kind = s.kind /\ t.temp = s.temp /\ t.wet = s.wet /\ t.duration = s.duration
        /\ t.target = s.target /\ t.steam = s.steam /\ t.waits = s.waits /\ t.elements = s.elements
        /\ t.off = (IF s.off = TRUE THEN TRUE ELSE None) /\ t.prompt = Trimmed(s.prompt)
        /\ t.fan = (IF "rear" \in On(s) \/ s.steam > 0 THEN 100 ELSE s.fan)
    BY NormalStage
  <2>2. Right(s)
    OBVIOUS
  <2> HIDE DEF s, t
  <2>3. t.fan = s.fan
    BY <2>1, <2>2 DEF Right
  <2>4. t.prompt = s.prompt
    BY <2>1, <2>2, Nothing DEF Right, Trimmed
  <2>5. t.off = s.off
    BY <2>1, <2>2, Nothing, Zenon DEF Right
  <2>6. Look(t) = Look(s)
    BY <2>1, <2>3, Zenon DEF Look
  <2> QED BY <2>4, <2>5, <2>6 DEF s, t
<1> HIDE DEF n
<1>6. Len(stages) \in DOMAIN stages
  BY LenProperties, EmptySeq
<1>7. Shape(n) = Shape(stages)
  <2>1. n[Len(stages)].off = stages[Len(stages)].off
    BY <1>5, <1>6
  <2> QED BY <1>3, <1>5, <2>1, Zenon DEF Shape
<1> QED BY <1>2, <1>4, <1>7 DEF n

\* What SameCookAgain needs of a cook that is shown.
SaveOK(stages, raw, extras) ==
    /\ Rows(ToSave(stages))
    /\ Again(Normal(ToSave(stages))) = Behavior(raw, extras)

LEMMA ToSaveSeq ==
    ASSUME NEW stages \in Seq(Stage), stages # <<>>
    PROVE  /\ ToSave(stages) \in Seq(Stage) /\ ToSave(stages) # <<>>
           /\ DOMAIN ToSave(stages) = DOMAIN stages /\ Len(ToSave(stages)) = Len(stages)
<1> DEFINE t == ToSave(stages)
<1>1. DOMAIN stages = 1..Len(stages) /\ Len(stages) \in Nat /\ Len(stages) # 0
  BY LenProperties, EmptySeq
<1>2. t = [i \in 1..Len(stages) |-> t[i]]
  BY <1>1 DEF ToSave
<1>3. \A i \in 1..Len(stages) : t[i] \in Stage
  <2> SUFFICES ASSUME NEW i \in 1..Len(stages) PROVE t[i] \in Stage
    OBVIOUS
  <2>1. t[i] = RestoreEnd([stages[i] EXCEPT !.id = None])
    BY <1>1 DEF ToSave
  <2>2. stages[i] \in Stage
    BY <1>1
  <2> HIDE DEF t
  <2> QED BY <2>1, <2>2, Restored
<1> HIDE DEF t
<1>4. t \in [1..Len(stages) -> Stage]
  BY <1>2, <1>3
<1>5. t \in Seq(Stage) /\ Len(t) = Len(stages)
  BY <1>1, <1>4
<1>6. t # <<>>
  BY <1>1, <1>5
<1> QED BY <1>1, <1>2, <1>5, <1>6 DEF t

LEMMA StartSaves ==
    ASSUME NEW stages, Ready(stages)
    PROVE  SaveOK(OvenIds(stages), Sent(OvenIds(stages)), Extras(OvenIds(stages)))
<1> DEFINE d == OvenIds(stages)
           t == ToSave(d)
<1>1. d \in Seq(Stage) /\ d # <<>> /\ DOMAIN d = DOMAIN stages /\ Len(d) = Len(stages)
  BY OvenSeq
<1>2. t \in Seq(Stage) /\ t # <<>> /\ DOMAIN t = DOMAIN stages /\ Len(t) = Len(stages)
  BY <1>1, ToSaveSeq
<1>3. ASSUME NEW i \in DOMAIN stages
      PROVE  /\ Sound(t[i]) /\ Right(t[i]) /\ t[i].id = None
             /\ t[i].off = TRUE => i = Len(stages) /\ EndsItself(t[i])
             /\ t[i].off = stages[i].off /\ t[i].prompt = stages[i].prompt
             /\ Look(t[i]) = Look(stages[i])
  <2> DEFINE s == stages[i]
             e == d[i]
             n == t[i]
             said == e.kind = "preheat" \/ e.timed # None \/ e.probed # None
             timer == e.duration \notin {None, 0}
  <2>1. /\ e \in Stage
        /\ e.kind = s.kind /\ e.temp = s.temp /\ e.wet = s.wet /\ e.duration = s.duration
        /\ e.timed = s.timed /\ e.probed = s.probed /\ e.target = s.target
        /\ e.steam = s.steam /\ e.fan = s.fan /\ e.waits = s.waits
        /\ e.elements = s.elements /\ e.off = s.off /\ e.prompt = s.prompt
    BY OvenStage
  <2>2. n = RestoreEnd([e EXCEPT !.id = None])
    BY <1>1 DEF ToSave
  <2>3. Sound(s) /\ Right(s) /\ (s.off = TRUE => i = Len(stages) /\ EndsItself(s))
    BY Zenon DEF Ready, Rows
  <2> HIDE DEF s, e, n
  <2>4. /\ n \in Stage /\ n.id = None
        /\ n.kind = e.kind /\ n.temp = e.temp /\ n.wet = e.wet /\ n.duration = e.duration
        /\ n.target = e.target /\ n.steam = e.steam /\ n.fan = e.fan /\ n.waits = e.waits
        /\ n.elements = e.elements /\ n.off = e.off /\ n.prompt = e.prompt
        /\ said => n.timed = e.timed /\ n.probed = e.probed
        /\ ~said => n.timed = timer /\ n.probed = (~timer /\ e.target # None)
    BY <2>1, <2>2, Restored, Zenon
  <2>5. (n.timed = TRUE <=> s.timed = TRUE) /\ (n.probed = TRUE <=> s.probed = TRUE)
    <3>1. CASE said
      BY <2>1, <2>4, <3>1
    <3>2. CASE ~said
      <4>1. s.kind = "cook" /\ ~(s.timed = TRUE) /\ ~(s.probed = TRUE)
        <5>1. s.kind = "cook" \/ s.kind = "preheat"
          BY <2>3 DEF Sound, Stage
        <5>2. s.kind # "preheat" /\ s.timed = None /\ s.probed = None
          BY <2>1, <3>2
        <5> QED BY <5>1, <5>2, Nothing
      <4>2. s.duration = None /\ s.target = None
        BY <2>3, <4>1, Zenon DEF Sound
      <4>3. ~timer
        BY <2>1, <4>2, Zenon
      <4>4. n.timed = FALSE /\ n.probed = FALSE
        BY <2>1, <2>4, <3>2, <4>2, <4>3, Zenon
      <4> QED BY <4>1, <4>4, Zenon
    <3> QED BY <3>1, <3>2
  <2>6. /\ n.kind = s.kind /\ n.temp = s.temp /\ n.wet = s.wet /\ n.duration = s.duration
        /\ n.target = s.target /\ n.steam = s.steam /\ n.fan = s.fan /\ n.waits = s.waits
        /\ n.elements = s.elements /\ n.off = s.off /\ n.prompt = s.prompt
    BY <2>1, <2>4, Zenon
  <2>7. n.id # None => ~n.id.preheat
    BY <2>4
  <2>8. Sound(n) /\ On(n) = On(s) /\ (EndsItself(n) <=> EndsItself(s))
    BY <2>3, <2>4, <2>5, <2>6, <2>7, StaysSound
  <2>9. Right(n)
    BY <2>3, <2>6, <2>8, Zenon DEF Right
  <2>10. Look(n) = Look(s)
    BY <2>6, Zenon DEF Look
  <2> QED BY <2>3, <2>4, <2>6, <2>8, <2>9, <2>10 DEF s, n
<1>4. Rows(t) /\ Again(Normal(t)) = Shape(t)
  BY <1>2, <1>3, SavedAgain
<1>5. Len(stages) \in DOMAIN stages
  BY LenProperties, EmptySeq DEF Ready, Rows
<1>6. Again(stages) = Shape(stages)
  BY AgainShape
<1> HIDE DEF t
<1>7. Shape(t) = Shape(stages)
  <2>1. t[Len(stages)].off = stages[Len(stages)].off
    BY <1>3, <1>5
  <2> QED BY <1>2, <1>3, <2>1, Zenon DEF Shape
<1> QED BY <1>4, <1>6, <1>7 DEF SaveOK, Again, t

\* What the oven runs.
RawStages ==
    [id: StageId, kind: {"preheat", "cook"}, waits: BOOLEAN, wet: BOOLEAN, setpoint: Setpoints,
     elements: [Elements -> BOOLEAN], fan: Nat, steam: Nat, timer: Maybe(Nat),
     probe: Maybe(Setpoints)]

\* A setpoint that is read back within the limits and set again as it was.
Reads(setpoint, least, most) ==
    LET back == FromSetpoint(setpoint)
    IN setpoint \in Setpoints /\ back \in least..most /\ Setpoint(back) = setpoint
RawSound(r) ==
    /\ r \in RawStages /\ r.timer # 0 /\ Cardinality(On(r)) \in 1..2
    /\ Reads(r.setpoint, 250, IF r.wet THEN 1000 ELSE 2500)
    /\ r.probe # None => Reads(r.probe, 10, 1000)
    /\ r.steam <= 100 /\ r.fan <= 100
    /\ "rear" \in On(r) \/ r.steam > 0 => r.fan = 100
RawPrompt(r, extras) ==
    /\ PromptOf(extras, r.id) \in {None, "note"}
    /\ PromptOf(extras, r.id) # None => r.waits = TRUE
RawEnds(r) == r.kind = "cook" /\ (r.timer # None \/ r.probe # None)
RawOK(raw, extras) ==
    /\ raw \in Seq(RawStages) /\ raw # <<>>
    /\ \A i \in DOMAIN raw : RawSound(raw[i]) /\ RawPrompt(raw[i], extras)
    /\ extras.off \in BOOLEAN /\ (extras.off => RawEnds(raw[Len(raw)]))

LEMMA SetReads ==
    ASSUME NEW t \in Int, Stable(t)
    PROVE  /\ t \in 250..1000 => Reads(Setpoint(t), 250, 1000) /\ Reads(Setpoint(t), 250, 2500)
           /\ t \in 250..2500 => Reads(Setpoint(t), 250, 2500)
           /\ t \in 10..1000 => Reads(Setpoint(t), 10, 1000)
<1> DEFINE sp == Setpoint(t)
           back == FromSetpoint(sp)
<1>1. /\ sp \in Setpoints /\ back \in Int /\ Setpoint(back) = sp
      /\ t \in 250..1000 => back \in 250..1000
      /\ t \in 250..2500 => back \in 250..2500
      /\ t \in 10..1000 => back \in 10..1000
  BY ReadBack DEF Stable
<1> HIDE DEF sp, back
<1>2. back \in 250..1000 => back \in 250..2500
  BY <1>1
<1> QED BY <1>1, <1>2 DEF Reads, sp, back

LEMMA TargetReads ==
    ASSUME NEW t \in 10..1000, Stable(t)
    PROVE  Reads(Setpoint(t), 10, 1000)
<1>1. t \in Int
  OBVIOUS
<1> QED BY <1>1, SetReads

LEMMA SentSound ==
    ASSUME NEW s, Sound(s), Right(s), NEW d \in Stage, d.id \in StageId,
           d.kind = s.kind, d.temp = s.temp, d.wet = s.wet, d.duration = s.duration,
           d.target = s.target, d.steam = s.steam, d.fan = s.fan, d.waits = s.waits,
           d.elements = s.elements
    PROVE  /\ RawSound(SentStage(d)) /\ SentStage(d).id = d.id
           /\ SentStage(d).waits = (s.waits = TRUE)
           /\ EndsItself(s) => RawEnds(SentStage(d))
<1> DEFINE w == d.waits = TRUE
           e == [el \in Elements |-> d.elements[el] # FALSE]
           p == IF d.duration = None /\ d.target # None THEN Setpoint(d.target) ELSE None
           r == SentStage(d)
<1>1. r = [id |-> d.id, kind |-> d.kind, waits |-> w, wet |-> d.wet,
           setpoint |-> Setpoint(d.temp), elements |-> e, fan |-> d.fan, steam |-> d.steam,
           timer |-> d.duration, probe |-> p]
  BY DEF SentStage
<1>2. w \in BOOLEAN
  OBVIOUS
<1>3. e = s.elements /\ e \in [Elements -> BOOLEAN]
  <2>1. s.elements \in [Elements -> BOOLEAN]
    BY DEF Sound
  <2> QED BY <2>1
<1>4. d.temp \in Int /\ Reads(Setpoint(d.temp), 250, IF d.wet THEN 1000 ELSE 2500)
  <2>1. d.temp \in 250..(IF d.wet THEN 1000 ELSE 2500) /\ Stable(d.temp)
    BY DEF Sound
  <2>2. d.temp \in Int
    BY DEF Stage
  <2>3. CASE d.wet
    BY <2>1, <2>2, <2>3, SetReads
  <2>4. CASE ~d.wet
    BY <2>1, <2>2, <2>4, SetReads
  <2> QED BY <2>2, <2>3, <2>4
<1>5. p # None => Reads(p, 10, 1000)
  <2>1. ASSUME d.target # None PROVE Reads(Setpoint(d.target), 10, 1000)
    <3>1. d.target \in 10..1000 /\ Stable(d.target)
      BY <2>1 DEF Sound
    <3> QED BY <3>1, TargetReads
  <2> QED BY <2>1
<1>6. p \in Maybe(Setpoints)
  BY <1>5 DEF Maybe, Reads
<1>7. d.target # None => p # None \/ d.duration # None
  <2>1. ASSUME d.target # None PROVE Setpoint(d.target) # None
    <3>1. d.target \in 10..1000 /\ Stable(d.target)
      BY <2>1 DEF Sound
    <3>2. d.target \in Int
      BY <3>1
    <3>3. Setpoint(d.target) \in Setpoints
      BY <3>2, ReadBack
    <3> QED BY <3>3, Nothing
  <2> QED BY <2>1
<1> HIDE DEF w, e, p, r
<1>8. /\ r.id = d.id /\ r.kind = d.kind /\ r.waits = w /\ r.wet = d.wet
      /\ r.setpoint = Setpoint(d.temp) /\ r.elements = e /\ r.fan = d.fan /\ r.steam = d.steam
      /\ r.timer = d.duration /\ r.probe = p
  BY <1>1
<1>9. r \in RawStages
  <2>1. Setpoint(d.temp) \in Setpoints
    BY <1>4 DEF Reads
  <2>2. /\ d.kind \in {"preheat", "cook"} /\ d.wet \in BOOLEAN /\ d.fan \in Nat /\ d.steam \in Nat
        /\ d.duration \in Maybe(Nat)
    BY DEF Stage
  <2> QED BY <1>1, <1>2, <1>3, <1>6, <2>1, <2>2 DEF RawStages
<1>10. On(r) = On(s)
  BY <1>3, <1>8, Zenon DEF On
<1>11. RawSound(r)
  <2>1. r.timer # 0 /\ Cardinality(On(r)) \in 1..2 /\ r.steam <= 100 /\ r.fan <= 100
    BY <1>8, <1>10 DEF Sound
  <2>2. "rear" \in On(r) \/ r.steam > 0 => r.fan = 100
    BY <1>8, <1>10 DEF Right
  <2>3. Reads(r.setpoint, 250, IF r.wet THEN 1000 ELSE 2500)
    BY <1>4, <1>8
  <2>4. r.probe # None => Reads(r.probe, 10, 1000)
    BY <1>5, <1>8, Zenon
  <2> QED BY <1>9, <2>1, <2>2, <2>3, <2>4, Zenon DEF RawSound
<1>12. ASSUME EndsItself(s) PROVE RawEnds(r)
  <2>1. s.kind = "cook"
    <3>1. s.kind = "cook" \/ s.kind = "preheat"
      BY DEF Sound, Stage
    <3>2. s.kind # "preheat"
      BY <1>12, Zenon DEF Sound
    <3> QED BY <3>1, <3>2
  <2>2. s.duration # None \/ s.target # None
    BY <1>12, <2>1, Zenon DEF Sound, EndsItself
  <2>3. r.timer # None \/ r.probe # None
    BY <1>7, <1>8, <2>2
  <2> QED BY <1>8, <2>1, <2>3, Zenon DEF RawEnds
<1> QED BY <1>8, <1>11, <1>12 DEF w, r

\* What is started is what the oven can run.
LEMMA StartRuns ==
    ASSUME NEW stages, Ready(stages)
    PROVE  RawOK(Sent(OvenIds(stages)), Extras(OvenIds(stages)))
<1> DEFINE d == OvenIds(stages)
           raw == Sent(d)
           extras == Extras(d)
<1>1. d \in Seq(Stage) /\ d # <<>> /\ DOMAIN d = DOMAIN stages /\ Len(d) = Len(stages)
  BY OvenSeq
<1>2. DOMAIN stages = 1..Len(stages) /\ Len(stages) \in Nat /\ Len(stages) # 0
  BY <1>1, LenProperties, EmptySeq
<1>3. ASSUME NEW i \in DOMAIN stages
      PROVE  /\ RawSound(raw[i]) /\ RawPrompt(raw[i], extras)
             /\ d[i].off = stages[i].off /\ (EndsItself(stages[i]) => RawEnds(raw[i]))
  <2> DEFINE s == stages[i]
             e == d[i]
             r == SentStage(e)
  <2>1. /\ e \in Stage /\ e.id \in StageId
        /\ e.kind = s.kind /\ e.temp = s.temp /\ e.wet = s.wet /\ e.duration = s.duration
        /\ e.target = s.target /\ e.steam = s.steam /\ e.fan = s.fan /\ e.waits = s.waits
        /\ e.elements = s.elements /\ e.off = s.off /\ e.prompt = s.prompt
    BY OvenStage
  <2>2. raw[i] = r
    BY <1>1 DEF Sent
  <2>3. Sound(s) /\ Right(s)
    BY Zenon DEF Ready, Rows
  <2>4. PromptOf(extras, e.id) = e.prompt
    BY <1>1, OvenApart, PromptsBack
  <2> HIDE DEF s, e, r, extras, raw, d
  <2>5. RawSound(r) /\ r.id = e.id /\ r.waits = (s.waits = TRUE) /\ (EndsItself(s) => RawEnds(r))
    BY <2>1, <2>3, SentSound DEF r
  <2>6. s.prompt \in {None, "note"} /\ (s.prompt # None => s.waits = TRUE)
    BY <2>3, Zenon DEF Right, Sound, Trimmed
  <2>7. RawPrompt(r, extras)
    BY <2>1, <2>4, <2>5, <2>6, Zenon DEF RawPrompt
  <2> QED BY <2>1, <2>2, <2>5, <2>7, Zenon DEF s, e
<1>4. raw = [i \in 1..Len(stages) |-> raw[i]]
  BY <1>1, <1>2 DEF Sent
<1>5. extras.off = (d[Len(stages)].off = TRUE)
  BY <1>1 DEF Extras
<1> HIDE DEF d, raw, extras
<1>6. raw \in [1..Len(stages) -> RawStages]
  BY <1>2, <1>3, <1>4 DEF RawSound
<1>7. raw \in Seq(RawStages) /\ Len(raw) = Len(stages) /\ DOMAIN raw = DOMAIN stages /\ raw # <<>>
  <2>1. raw \in Seq(RawStages) /\ Len(raw) = Len(stages) /\ DOMAIN raw = DOMAIN stages
    BY <1>2, <1>6
  <2> QED BY <1>2, <2>1
<1>8. extras.off \in BOOLEAN /\ (extras.off => RawEnds(raw[Len(raw)]))
  <2>1. Len(stages) \in DOMAIN stages
    BY <1>2
  <2>2. stages[Len(stages)].off = TRUE => EndsItself(stages[Len(stages)])
    BY <2>1, Zenon DEF Ready, Rows
  <2>3. extras.off = (stages[Len(stages)].off = TRUE)
    BY <1>3, <1>5, <2>1
  <2> QED BY <1>3, <1>7, <2>1, <2>2, <2>3
<1> QED BY <1>3, <1>7, <1>8, Zenon DEF RawOK, d, raw, extras

\* A stage as the oven gives it back.
LEMMA ReadStage ==
    ASSUME NEW r, RawSound(r)
    PROVE  StageFromJson(r) \in Stage
<1>1. r \in RawStages /\ FromSetpoint(r.setpoint) \in Int
  BY DEF RawSound, Reads
<1> DEFINE target == IF r.probe = None THEN None ELSE FromSetpoint(r.probe)
<1>2. target \in Maybe(Int)
  BY DEF RawSound, Reads, Maybe
<1>3. r.timer \in Maybe(Nat) /\ r.id \in Maybe(StageId)
  BY <1>1 DEF RawStages, Maybe
<1>4. /\ None \in Maybe(BOOLEAN) /\ None \in Maybe({"blank", "note", "long"})
      /\ r.waits \in Maybe(BOOLEAN) /\ r.elements \in [Elements -> Maybe(BOOLEAN)]
  BY <1>1 DEF RawStages, Maybe
<1>5. StageFromJson(r) =
        [id |-> r.id, kind |-> r.kind, temp |-> FromSetpoint(r.setpoint), wet |-> r.wet,
         duration |-> r.timer, timed |-> None, probed |-> None, target |-> target,
         steam |-> r.steam, fan |-> r.fan, waits |-> r.waits, elements |-> r.elements,
         off |-> None, prompt |-> None]
  BY DEF StageFromJson
<1> HIDE DEF target
<1>6. r.kind \in {"preheat", "cook"} /\ r.wet \in BOOLEAN /\ r.steam \in Nat /\ r.fan \in Nat
  BY <1>1 DEF RawStages
<1> QED BY <1>1, <1>2, <1>3, <1>4, <1>5, <1>6 DEF Stage

LEMMA ReadSound ==
    ASSUME NEW r, RawSound(r), NEW a \in Stage, a.kind = r.kind, a.temp = FromSetpoint(r.setpoint),
           a.wet = r.wet, a.duration = r.timer, a.timed = None, a.probed = None,
           a.target = (IF r.probe = None THEN None ELSE FromSetpoint(r.probe)), a.steam = r.steam,
           a.fan = r.fan, a.waits = r.waits, a.elements = r.elements, a.off \in {TRUE, None},
           a.prompt \in {None, "note"}, a.prompt # None => r.waits = TRUE
    PROVE  LET n == RestoreEnd([a EXCEPT !.id = None])
           IN /\ Sound(n) /\ Right(n) /\ n.id = None /\ n.off = a.off /\ n.prompt = a.prompt
              /\ RawEnds(r) => EndsItself(n)
              /\ Look(n) = [r EXCEPT !.id = None, !.probe = IF r.timer = None THEN @ ELSE None]
<1> DEFINE n == RestoreEnd([a EXCEPT !.id = None])
           timer == a.duration \notin {None, 0}
<1>1. /\ n \in Stage /\ n.id = None
      /\ n.kind = a.kind /\ n.temp = a.temp /\ n.wet = a.wet /\ n.duration = a.duration
      /\ n.target = a.target /\ n.steam = a.steam /\ n.fan = a.fan /\ n.waits = a.waits
      /\ n.elements = a.elements /\ n.off = a.off /\ n.prompt = a.prompt
      /\ a.kind = "preheat" => n.timed = a.timed /\ n.probed = a.probed
      /\ a.kind # "preheat" => n.timed = timer /\ n.probed = (~timer /\ a.target # None)
  BY Restored, Zenon
<1>2. r \in RawStages
  BY DEF RawSound
<1> HIDE DEF n
<1>3. n.duration # 0 /\ timer = (n.duration # None)
  BY <1>1 DEF RawSound
<1> HIDE DEF timer
<1>4. n.kind = "cook" => /\ n.timed = TRUE <=> n.duration # None
                         /\ n.probed = TRUE <=> n.duration = None /\ n.target # None
  <2>1. ASSUME n.kind = "cook"
        PROVE  n.timed = (n.duration # None) /\ n.probed = (n.duration = None /\ n.target # None)
    BY <1>1, <1>3, <2>1
  <2> QED BY <2>1
<1>5. n.kind = "preheat" => ~EndsItself(n)
  BY <1>1, Nothing, Zenon DEF EndsItself
<1>6. On(n) = On(r) /\ n.elements \in [Elements -> BOOLEAN] /\ Cardinality(On(n)) \in 1..2
  <2>1. On(n) = On(r)
    BY <1>1, Zenon DEF On
  <2> QED BY <1>1, <1>2, <2>1 DEF RawSound, RawStages
<1>7. n.temp \in 250..(IF n.wet THEN 1000 ELSE 2500) /\ Stable(n.temp) /\ Setpoint(n.temp) = r.setpoint
  <2>1. /\ n.temp \in 250..(IF n.wet THEN 1000 ELSE 2500)
        /\ Setpoint(n.temp) = r.setpoint /\ n.temp = FromSetpoint(r.setpoint)
    BY <1>1 DEF RawSound, Reads
  <2> QED BY <2>1 DEF Stable
<1>8. n.target # None => /\ n.target \in 10..1000 /\ Stable(n.target) /\ r.probe # None
                         /\ Setpoint(n.target) = r.probe
  <2>1. ASSUME n.target # None
        PROVE  /\ n.target \in 10..1000 /\ r.probe # None
               /\ Setpoint(n.target) = r.probe /\ n.target = FromSetpoint(r.probe)
    BY <1>1, <2>1 DEF RawSound, Reads
  <2> QED BY <2>1 DEF Stable
<1>9. r.probe # None => n.target # None
  <2>1. ASSUME r.probe # None PROVE n.target \in Int
    BY <1>1, <2>1 DEF RawSound, Reads
  <2> QED BY <2>1, Nothing
<1>10. /\ n.steam <= 100 /\ n.fan <= 100 /\ ("rear" \in On(n) \/ n.steam > 0 => n.fan = 100)
       /\ n.prompt \in {None, "note"} /\ Trimmed(n.prompt) = n.prompt
       /\ n.prompt # None => n.waits = TRUE
  <2>1. n.steam <= 100 /\ n.fan <= 100 /\ ("rear" \in On(n) \/ n.steam > 0 => n.fan = 100)
    BY <1>1, <1>6 DEF RawSound
  <2>2. n.prompt \in {None, "note"} /\ Trimmed(n.prompt) = n.prompt
    BY <1>1, Nothing DEF Trimmed
  <2>3. n.prompt # None => n.waits = TRUE
    BY <1>1, Zenon
  <2> QED BY <2>1, <2>2, <2>3
<1>11. Sound(n)
  <2>1. n.id # None => ~n.id.preheat
    BY <1>1
  <2>2. Trimmed(n.prompt) \in {None, "note"} /\ (Trimmed(n.prompt) # None => n.waits = TRUE)
    BY <1>10, Zenon
  <2>3. n.target # None => n.target \in 10..1000 /\ Stable(n.target)
    BY <1>8
  <2> QED BY <1>1, <1>3, <1>4, <1>5, <1>6, <1>7, <1>10, <2>1, <2>2, <2>3, Zenon DEF Sound
<1>12. Right(n)
  BY <1>1, <1>10, Zenon DEF Right
<1>13. RawEnds(r) => EndsItself(n)
  <2>1. ASSUME RawEnds(r) PROVE n.kind = "cook" /\ (n.duration # None \/ n.target # None)
    BY <1>1, <1>9, <2>1 DEF RawEnds
  <2> QED BY <1>4, <2>1, Zenon DEF EndsItself
<1> DEFINE p == IF r.timer = None THEN r.probe ELSE None
           q == IF n.duration = None /\ n.target # None THEN Setpoint(n.target) ELSE None
           b == [r EXCEPT !.id = None, !.probe = p]
           e == [el \in Elements |-> n.elements[el] # FALSE]
           R == [id: {r.id, None}, kind: {r.kind}, waits: {r.waits}, wet: {r.wet},
                 setpoint: {r.setpoint}, elements: {r.elements}, fan: {r.fan}, steam: {r.steam},
                 timer: {r.timer}, probe: {r.probe, p}]
<1>14. p = q
  BY <1>1, <1>8, <1>9
<1>15. e = r.elements
  BY <1>1, <1>6
<1>16. (n.waits = TRUE) = r.waits
  <2>1. r.waits \in BOOLEAN
    BY <1>2 DEF RawStages
  <2> QED BY <1>1, <2>1
<1>17. Look(n) = [id |-> None, kind |-> r.kind, waits |-> r.waits, wet |-> r.wet,
                  setpoint |-> r.setpoint, elements |-> r.elements, fan |-> r.fan,
                  steam |-> r.steam, timer |-> r.timer, probe |-> p]
  <2> DEFINE w == n.waits = TRUE
  <2>1. Look(n) = [id |-> None, kind |-> n.kind, waits |-> w, wet |-> n.wet,
                   setpoint |-> Setpoint(n.temp), elements |-> e, fan |-> n.fan,
                   steam |-> n.steam, timer |-> n.duration, probe |-> q]
    BY DEF Look
  <2>2. w = r.waits
    BY <1>16
  <2> HIDE DEF w, e, q, p
  <2>3. n.kind = r.kind /\ n.wet = r.wet /\ n.fan = r.fan /\ n.steam = r.steam /\ n.duration = r.timer
    BY <1>1
  <2> QED BY <1>7, <1>14, <1>15, <2>1, <2>2, <2>3
<1> HIDE DEF p
<1>18. b \in R /\ b.id = None /\ b.probe = p
  BY <1>2 DEF RawStages
<1> HIDE DEF b
<1>19. b = [id |-> b.id, kind |-> r.kind, waits |-> r.waits, wet |-> r.wet,
            setpoint |-> r.setpoint, elements |-> r.elements, fan |-> r.fan,
            steam |-> r.steam, timer |-> r.timer, probe |-> b.probe]
  BY <1>18
<1>20. Look(n) = b
  BY <1>17, <1>18, <1>19, Zenon
<1> QED BY <1>1, <1>11, <1>12, <1>13, <1>20 DEF n, b, p

\* What the oven reports can be saved, and does the same again.
LEMMA ReportSaves ==
    ASSUME NEW raw, NEW extras, RawOK(raw, extras)
    PROVE  SaveOK(Applied(extras, [i \in DOMAIN raw |-> StageFromJson(raw[i])]), raw, extras)
<1> DEFINE read == [i \in DOMAIN raw |-> StageFromJson(raw[i])]
           a == Applied(extras, read)
           t == ToSave(a)
           look(i) == [raw[i] EXCEPT !.id = None, !.probe = IF raw[i].timer = None THEN @ ELSE None]
           off(i) == IF i = Len(raw) /\ extras.off THEN TRUE ELSE None
           prompt(i) == PromptOf(extras, raw[i].id)
<1>1. /\ raw \in Seq(RawStages) /\ DOMAIN raw = 1..Len(raw) /\ Len(raw) \in Nat /\ Len(raw) # 0
      /\ Len(raw) \in DOMAIN raw
  <2>1. raw \in Seq(RawStages) /\ raw # <<>>
    BY DEF RawOK
  <2> QED BY <2>1, LenProperties, EmptySeq
<1>2. Len(read) = Len(raw) /\ DOMAIN read = DOMAIN raw
  BY <1>1, LenOf
<1>3. extras.off \in BOOLEAN
  BY DEF RawOK
<1>4. ASSUME NEW i \in DOMAIN raw
      PROVE  /\ a[i] \in Stage
             /\ Sound(t[i]) /\ Right(t[i]) /\ t[i].id = None /\ t[i].off = off(i)
             /\ t[i].prompt = prompt(i) /\ Look(t[i]) = look(i)
             /\ RawEnds(raw[i]) => EndsItself(t[i])
  <2> DEFINE r == raw[i]
             s == StageFromJson(r)
             b == [s EXCEPT !.off = off(i), !.prompt = prompt(i)]
  <2>1. RawSound(r) /\ RawPrompt(r, extras)
    BY DEF RawOK
  <2>2. s \in Stage
    BY <2>1, ReadStage
  <2>3. /\ s.id = r.id /\ s.kind = r.kind /\ s.temp = FromSetpoint(r.setpoint) /\ s.wet = r.wet
        /\ s.duration = r.timer /\ s.timed = None /\ s.probed = None
        /\ s.target = (IF r.probe = None THEN None ELSE FromSetpoint(r.probe))
        /\ s.steam = r.steam /\ s.fan = r.fan /\ s.waits = r.waits /\ s.elements = r.elements
        /\ s.off = None
    BY DEF StageFromJson
  <2>4. a[i] = [read[i] EXCEPT !.off = IF i = Len(read) /\ extras.off THEN TRUE ELSE @,
                               !.prompt = PromptOf(extras, read[i].id)]
    BY <1>2 DEF Applied
  <2>5. read[i] = s
    OBVIOUS
  <2> HIDE DEF read, s, a
  <2>6. a[i] = b
    BY <1>2, <2>3, <2>4, <2>5
  <2>7. off(i) \in {TRUE, None} /\ prompt(i) \in {None, "note"} /\ (prompt(i) # None => r.waits = TRUE)
    BY <2>1, Zenon DEF RawPrompt
  <2>8. off(i) \in Maybe(BOOLEAN) /\ prompt(i) \in Maybe({"blank", "note", "long"})
    BY <2>7, Zenon DEF Maybe
  <2>9. t[i] = RestoreEnd([a[i] EXCEPT !.id = None])
    <3>1. i \in DOMAIN a
      BY <1>2 DEF a, Applied
    <3> QED BY <3>1 DEF ToSave
  <2> HIDE DEF off, prompt, r, t
  <2>10. b \in Stage
    BY <2>2, <2>8 DEF Stage
  <2>11. /\ b.kind = s.kind /\ b.temp = s.temp /\ b.wet = s.wet /\ b.duration = s.duration
         /\ b.timed = s.timed /\ b.probed = s.probed /\ b.target = s.target /\ b.steam = s.steam
         /\ b.fan = s.fan /\ b.waits = s.waits /\ b.elements = s.elements
         /\ b.off = off(i) /\ b.prompt = prompt(i)
    BY <2>2 DEF Stage
  <2> HIDE DEF b
  <2>12. /\ b.kind = r.kind /\ b.temp = FromSetpoint(r.setpoint) /\ b.wet = r.wet
         /\ b.duration = r.timer /\ b.timed = None /\ b.probed = None
         /\ b.target = (IF r.probe = None THEN None ELSE FromSetpoint(r.probe))
         /\ b.steam = r.steam /\ b.fan = r.fan /\ b.waits = r.waits /\ b.elements = r.elements
         /\ b.off \in {TRUE, None} /\ b.prompt \in {None, "note"} /\ (b.prompt # None => r.waits = TRUE)
    BY <2>3, <2>7, <2>11
  <2> DEFINE n == RestoreEnd([b EXCEPT !.id = None])
  <2>13. /\ Sound(n) /\ Right(n) /\ n.id = None /\ n.off = b.off /\ n.prompt = b.prompt
         /\ RawEnds(r) => EndsItself(n)
         /\ Look(n) = [r EXCEPT !.id = None, !.probe = IF r.timer = None THEN @ ELSE None]
    BY <2>1, <2>10, <2>12, ReadSound
  <2>14. t[i] = n
    BY <2>6, <2>9
  <2> HIDE DEF n
  <2>15. Look(t[i]) = look(i)
    BY <2>13, <2>14 DEF r
  <2> HIDE DEF look
  <2> QED BY <2>6, <2>10, <2>11, <2>13, <2>14, <2>15 DEF r
<1>5. /\ a \in Seq(Stage) /\ a # <<>> /\ DOMAIN a = DOMAIN raw /\ Len(a) = Len(raw)
  <2>1. a = [i \in 1..Len(raw) |-> a[i]]
    BY <1>1, <1>2 DEF Applied
  <2> HIDE DEF a
  <2>2. a \in [1..Len(raw) -> Stage]
    BY <1>1, <1>4, <2>1
  <2>3. a \in Seq(Stage) /\ Len(a) = Len(raw)
    BY <1>1, <2>2
  <2>4. a # <<>>
    BY <1>1, <2>3
  <2> QED BY <1>1, <2>1, <2>3, <2>4
<1>6. t \in Seq(Stage) /\ t # <<>> /\ DOMAIN t = DOMAIN raw /\ Len(t) = Len(raw)
  BY <1>5, ToSaveSeq
<1>7. \A i \in DOMAIN raw : t[i].off = TRUE => i = Len(raw) /\ extras.off
  BY <1>4, Nothing
<1>8. \A i \in DOMAIN raw : t[i].off = TRUE => i = Len(t) /\ EndsItself(t[i])
  <2> HIDE DEF t, a
  <2> QED BY <1>4, <1>6, <1>7 DEF RawOK
<1> HIDE DEF t, a, read
<1>9. Rows(t) /\ Again(Normal(t)) = Shape(t)
  BY <1>4, <1>6, <1>8, SavedAgain
<1>10. Shape(t) = Behavior(raw, extras)
  <2>1. (t[Len(raw)].off = TRUE) = extras.off
    BY <1>1, <1>3, <1>4, Nothing
  <2>2. Behavior(raw, extras) =
          [i \in DOMAIN raw |->
             [stage |-> look(i), prompt |-> prompt(i), off |-> extras.off /\ i = Len(raw)]]
    BY DEF Behavior
  <2>3. Shape(t) =
          [i \in DOMAIN raw |->
             [stage |-> Look(t[i]), prompt |-> t[i].prompt,
              off |-> t[Len(raw)].off = TRUE /\ i = Len(raw)]]
    BY <1>6, Zenon DEF Shape
  <2>4. \A i \in DOMAIN raw : Look(t[i]) = look(i) /\ t[i].prompt = prompt(i)
    BY <1>4
  <2> HIDE DEF look, prompt
  <2> QED BY <2>1, <2>2, <2>3, <2>4, Zenon
<1> QED BY <1>9, <1>10 DEF SaveOK, t, a, read

\* Controls leave a cook that the oven can run.
CanHeat(r, t) == t \in 250..(IF r.wet THEN 1000 ELSE 2500) /\ Stable(t)
\* What the oven makes of a temperature that a control may ask for.
LEMMA LimitStable == Stable(1000)
<1> DEFINE n == 100
<1>1. n \in Int /\ 10 * n = 1000
  OBVIOUS
<1> HIDE DEF n
<1>2. Stable(10 * n)
  BY <1>1, WholeDegrees, Zenon
<1> QED BY <1>1, <1>2

LEMMA ClampedHeats ==
    ASSUME NEW r, NEW t, InRange(t)
    PROVE  CanHeat(r, Clamped(r, t))
<1>1. t \in 250..2500 /\ Stable(t)
  BY DEF InRange
<1>2. CASE r.wet /\ t > 1000
  <2>1. Clamped(r, t) = 1000
    BY <1>2 DEF Clamped, TooHot
  <2>2. 1000 \in 250..1000
    OBVIOUS
  <2> QED BY <1>2, <2>1, <2>2, LimitStable DEF CanHeat
<1>3. CASE r.wet /\ ~(t > 1000)
  <2>1. Clamped(r, t) = t /\ t \in 250..1000
    BY <1>1, <1>3 DEF Clamped, TooHot
  <2> QED BY <1>1, <1>3, <2>1 DEF CanHeat
<1>4. CASE ~r.wet
  <2>1. Clamped(r, t) = t
    BY <1>4 DEF Clamped, TooHot
  <2> QED BY <1>1, <1>4, <2>1 DEF CanHeat
<1> QED BY <1>2, <1>3, <1>4

LEMMA TemperatureRuns ==
    ASSUME NEW raw, NEW extras, RawOK(raw, extras), NEW i, i \in DOMAIN raw,
           NEW t, CanHeat(raw[i], t)
    PROVE  RawOK(WithTemperature(raw, i, t), extras) /\ Len(WithTemperature(raw, i, t)) = Len(raw)
<1> DEFINE new == WithTemperature(raw, i, t)
           r == raw[i]
           m == [r EXCEPT !.setpoint = Setpoint(t)]
<1>1. /\ raw \in Seq(RawStages) /\ DOMAIN raw = 1..Len(raw) /\ Len(raw) \in Nat /\ Len(raw) # 0
      /\ Len(raw) \in DOMAIN raw
  <2>1. raw \in Seq(RawStages) /\ raw # <<>>
    BY DEF RawOK
  <2> QED BY <2>1, LenProperties, EmptySeq
<1>2. new = [raw EXCEPT ![i] = m]
  BY DEF WithTemperature
<1>3. t \in Int /\ Stable(t)
  BY DEF CanHeat
<1>4. Reads(Setpoint(t), 250, IF r.wet THEN 1000 ELSE 2500) /\ Setpoint(t) \in Setpoints
  <2>1. r.wet => t \in 250..1000
    BY DEF CanHeat
  <2>2. ~r.wet => t \in 250..2500
    BY DEF CanHeat
  <2> HIDE DEF r
  <2>3. Reads(Setpoint(t), 250, IF r.wet THEN 1000 ELSE 2500)
    BY <1>3, <2>1, <2>2, SetReads
  <2> QED BY <2>3 DEF Reads
<1>5. RawSound(r) /\ RawPrompt(r, extras) /\ r \in RawStages
  BY DEF RawOK, RawSound
<1> HIDE DEF new, r
<1>6. /\ m \in RawStages /\ m.setpoint = Setpoint(t) /\ m.id = r.id /\ m.kind = r.kind
      /\ m.waits = r.waits /\ m.wet = r.wet /\ m.elements = r.elements /\ m.fan = r.fan
      /\ m.steam = r.steam /\ m.timer = r.timer /\ m.probe = r.probe
  BY <1>4, <1>5 DEF RawStages
<1> HIDE DEF m
<1>7. On(m) = On(r)
  BY <1>6, Zenon DEF On
<1>8. Reads(m.setpoint, 250, IF m.wet THEN 1000 ELSE 2500)
  BY <1>4, <1>6
<1>9. RawSound(m)
  <2>1. /\ m.timer # 0 /\ Cardinality(On(m)) \in 1..2 /\ m.steam <= 100 /\ m.fan <= 100
        /\ "rear" \in On(m) \/ m.steam > 0 => m.fan = 100
    BY <1>5, <1>6, <1>7 DEF RawSound
  <2>2. m.probe # None => Reads(m.probe, 10, 1000)
    BY <1>5, <1>6 DEF RawSound
  <2> QED BY <1>6, <1>8, <2>1, <2>2, Zenon DEF RawSound
<1>10. RawPrompt(m, extras) /\ (RawEnds(r) => RawEnds(m))
  BY <1>5, <1>6, Zenon DEF RawPrompt, RawEnds
<1>11. new \in Seq(RawStages) /\ Len(new) = Len(raw) /\ DOMAIN new = DOMAIN raw /\ new # <<>>
  <2>1. new \in [1..Len(raw) -> RawStages]
    BY <1>1, <1>2, <1>6
  <2>2. new \in Seq(RawStages) /\ Len(new) = Len(raw) /\ DOMAIN new = 1..Len(raw)
    BY <1>1, <2>1
  <2> QED BY <1>1, <2>2
<1>12. \A j \in DOMAIN raw : new[j] = IF j = i THEN m ELSE raw[j]
  BY <1>1, <1>2
<1>13. RawOK(new, extras)
  <2>1. \A j \in DOMAIN raw : RawSound(new[j]) /\ RawPrompt(new[j], extras)
    BY <1>9, <1>10, <1>12 DEF RawOK
  <2>2. extras.off \in BOOLEAN /\ (extras.off => RawEnds(new[Len(raw)]))
    BY <1>1, <1>10, <1>12 DEF RawOK, r
  <2> QED BY <1>11, <2>1, <2>2, Zenon DEF RawOK
<1> QED BY <1>11, <1>13 DEF new

LEMMA TimerRuns ==
    ASSUME NEW raw, NEW extras, RawOK(raw, extras), NEW i, TimerStage(raw, i) \in DOMAIN raw,
           NEW secs \in Nat \ {0}
    PROVE  RawOK(WithTimer(raw, i, secs), extras) /\ Len(WithTimer(raw, i, secs)) = Len(raw)
<1> DEFINE new == WithTimer(raw, i, secs)
           k == TimerStage(raw, i)
           r == raw[k]
           m == [r EXCEPT !.timer = secs]
<1>1. /\ raw \in Seq(RawStages) /\ DOMAIN raw = 1..Len(raw) /\ Len(raw) \in Nat /\ Len(raw) # 0
      /\ Len(raw) \in DOMAIN raw
  <2>1. raw \in Seq(RawStages) /\ raw # <<>>
    BY DEF RawOK
  <2> QED BY <2>1, LenProperties, EmptySeq
<1>2. new = [raw EXCEPT ![k] = m]
  BY DEF WithTimer
<1>3. k \in DOMAIN raw /\ secs \in Maybe(Nat) /\ secs # None /\ secs # 0
  BY Nothing DEF Maybe
<1> HIDE DEF new, k
<1>5. RawSound(r) /\ RawPrompt(r, extras) /\ r \in RawStages
  BY <1>3 DEF RawOK, RawSound
<1> HIDE DEF r
<1>6. /\ m \in RawStages /\ m.setpoint = r.setpoint /\ m.id = r.id /\ m.kind = r.kind
      /\ m.waits = r.waits /\ m.wet = r.wet /\ m.elements = r.elements /\ m.fan = r.fan
      /\ m.steam = r.steam /\ m.timer = secs /\ m.probe = r.probe
  BY <1>3, <1>5 DEF RawStages
<1> HIDE DEF m
<1>7. On(m) = On(r)
  BY <1>6, Zenon DEF On
<1>8. Reads(m.setpoint, 250, IF m.wet THEN 1000 ELSE 2500)
  BY <1>5, <1>6 DEF RawSound
<1>9. RawSound(m)
  <2>1. /\ m.timer # 0 /\ Cardinality(On(m)) \in 1..2 /\ m.steam <= 100 /\ m.fan <= 100
        /\ "rear" \in On(m) \/ m.steam > 0 => m.fan = 100
    BY <1>3, <1>5, <1>6, <1>7 DEF RawSound
  <2>2. m.probe # None => Reads(m.probe, 10, 1000)
    BY <1>5, <1>6 DEF RawSound
  <2> QED BY <1>6, <1>8, <2>1, <2>2, Zenon DEF RawSound
<1>10. RawPrompt(m, extras) /\ (RawEnds(r) => RawEnds(m))
  BY <1>3, <1>5, <1>6, Zenon DEF RawPrompt, RawEnds
<1>11. new \in Seq(RawStages) /\ Len(new) = Len(raw) /\ DOMAIN new = DOMAIN raw /\ new # <<>>
  <2>1. new \in [1..Len(raw) -> RawStages]
    BY <1>1, <1>2, <1>3, <1>6
  <2>2. new \in Seq(RawStages) /\ Len(new) = Len(raw) /\ DOMAIN new = 1..Len(raw)
    BY <1>1, <2>1
  <2> QED BY <1>1, <2>2
<1>12. \A j \in DOMAIN raw : new[j] = IF j = k THEN m ELSE raw[j]
  BY <1>1, <1>2
<1>13. RawOK(new, extras)
  <2>1. \A j \in DOMAIN raw : RawSound(new[j]) /\ RawPrompt(new[j], extras)
    BY <1>9, <1>10, <1>12 DEF RawOK
  <2>2. extras.off \in BOOLEAN /\ (extras.off => RawEnds(new[Len(raw)]))
    BY <1>1, <1>10, <1>12 DEF RawOK, r
  <2> QED BY <1>11, <2>1, <2>2, Zenon DEF RawOK
<1> QED BY <1>11, <1>13 DEF new

-----------------------------------------------------------------------------
(***************************************************************************)
(* What is kept of recipes and cooks: whatever is in a file, on its way to *)
(* one or in a list is a recipe of stages put right; the oven runs what it *)
(* was sent; a cook that is shown can be saved and does the same again.    *)
(***************************************************************************)
RecipeOK(r) == r \in [id: {r.id}, title: {r.title}, stages: Seq(Stage)] /\ Ready(r.stages)
AllOK(list) == \A r \in list : RecipeOK(r)
FileOK(content) == IsSeq(content) /\ \A k \in DOMAIN content : RecipeOK(content[k])

FilesOK == \A f \in Ids : FileOK(disk[f])
ListsOK ==
    /\ AllOK(recipes) /\ AllOK(refresh.found)
    /\ \A k \in DOMAIN refresh.answers : AllOK(refresh.answers[k])
Running(o) ==
    /\ o = [raw |-> o.raw, active |-> o.active, recipe |-> o.recipe, extras |-> o.extras]
    /\ RawOK(o.raw, o.extras) /\ o.active \in DOMAIN o.raw
OvenOK == oven # None => Running(oven)
CookOK(cook) ==
    /\ cook = [recipe |-> cook.recipe, stages |-> cook.stages, raw |-> cook.raw,
               extras |-> cook.extras]
    /\ SaveOK(cook.stages, cook.raw, cook.extras)
ShownOK == shown # None => CookOK(shown) /\ Running(oven)

HandOK(at, hand, ask) ==
    /\ hand = [recipe |-> hand.recipe, of |-> hand.of]
    /\ at = "new" => hand.of = None
    /\ at \in {"new", "checks"} => hand.recipe = None
    /\ at = "checks" => hand.of # None
    /\ at \in {"writes", "opened"} => RecipeOK(hand.recipe)
    /\ hand.of # None =>
         /\ ask.op = "save" /\ at # "refused" /\ CookOK(hand.of)
         /\ hand.recipe # None => hand.recipe.stages = Normal(ToSave(hand.of.stages))
HandsOK ==
    /\ DOMAIN held = Handlers
    /\ \A h \in Handlers : HandOK(work[h].at, held[h], plan[h])

CooksInv == FilesOK /\ ListsOK /\ OvenOK /\ ShownOK /\ HandsOK

LEMMA EmptyFile == FileOK(<<>>)
  BY EmptySeq DEF FileOK, IsSeq

LEMMA OneFile ==
    ASSUME NEW r, RecipeOK(r)
    PROVE  FileOK(<<r>>)
<1>1. <<r>> \in Seq({r}) /\ DOMAIN <<r>> = {1} /\ <<r>>[1] = r
  OBVIOUS
<1> QED BY <1>1 DEF FileOK, IsSeq

LEMMA AppendFile ==
    ASSUME NEW s, FileOK(s), NEW r, RecipeOK(r)
    PROVE  FileOK(Append(s, r))
<1>1. PICK S : s \in Seq(S)
  BY DEF FileOK, IsSeq
<1> DEFINE T == S \cup {r}
<1>2. s \in Seq(T) /\ r \in T
  BY <1>1, SeqMonotonic
<1> HIDE DEF T
<1>3. /\ Append(s, r) \in Seq(T) /\ DOMAIN Append(s, r) = 1..(Len(s) + 1)
      /\ Len(s) \in Nat /\ DOMAIN s = 1..Len(s)
      /\ Append(s, r)[Len(s) + 1] = r /\ \A k \in 1..Len(s) : Append(s, r)[k] = s[k]
  BY <1>2, AppendProperties, LenProperties
<1>4. \A k \in DOMAIN Append(s, r) : k = Len(s) + 1 \/ k \in DOMAIN s
  BY <1>3
<1>5. \A k \in DOMAIN Append(s, r) : RecipeOK(Append(s, r)[k])
  BY <1>3, <1>4 DEF FileOK
<1> QED BY <1>3, <1>5 DEF FileOK, IsSeq

\* What a file says is a recipe.
LEMMA ContentOK ==
    ASSUME FilesOK, IInv, NEW id \in Ids, Readable(Content(id))
    PROVE  RecipeOK(Content(id)[1])
<1>1. FileOK(Content(id))
  <2>1. CASE named[id] = None
    BY <2>1, EmptyFile DEF Content
  <2>2. CASE named[id] # None
    <3>1. named[id] \in Ids
      BY <2>2 DEF IInv, TypeOK, Maybe
    <3> QED BY <2>2, <3>1 DEF Content, FilesOK
  <2> QED BY <2>1, <2>2
<1>2. PICK S : Content(id) \in Seq(S)
  BY <1>1 DEF FileOK, IsSeq
<1>3. 1 \in DOMAIN Content(id)
  BY <1>2, LenProperties DEF Readable
<1> QED BY <1>1, <1>3 DEF FileOK

\* The requests of clients.
AskOK(ask) ==
    /\ ask.op \in {"create", "manual"} => ClientMade(ask.stages)
    /\ ask.op = "update" => ask.stages = None \/ ClientMade(ask.stages)
    /\ ask.op = "save" => ask.title # ""
    /\ ask.op = "temperature" => InRange(ask.temp)
    /\ ask.op = "timer" => ask.secs \in Nat \ {0}

LEMMA AsksOf ==
    ASSUME FromClients, PlanOK, NEW h \in Handlers
    PROVE  AskOK(plan[h])
<1>1. PICK p \in Plans : plan = p.asks
  BY DEF PlanOK
<1>2. AskOK(p.asks[h])
  BY Zenon DEF FromClients, AskOK
<1> QED BY <1>1, <1>2

-----------------------------------------------------------------------------
\* Of a step of one handler, only what it holds itself is in question.
LEMMA OneHand ==
    ASSUME HandsOK, NEW h \in Handlers, UNCHANGED plan, DOMAIN held' = Handlers,
           \A g \in Handlers \ {h} : work'[g] = work[g] /\ held'[g] = held[g],
           HandOK(work'[h].at, held'[h], plan[h])
    PROVE  HandsOK'
  BY DEF HandsOK

Past == {"filled", "removes", "changed", "links"} \cup Over

LEMMA GoesHand ==
    ASSUME HandsOK, IInv, NEW h \in Handlers, NEW at \in Past, UNCHANGED <<plan, held>>,
           work'[h].at = at, \A g \in Handlers \ {h} : work'[g] = work[g],
           at = "refused" => held[h].of = None
    PROVE  HandsOK'
<1>1. HandOK(work[h].at, held[h], plan[h]) /\ DOMAIN held = Handlers
  BY DEF HandsOK
<1>2. at \notin {"new", "checks", "writes", "opened"}
  BY DEF Past, Over
<1>3. HandOK(at, held[h], plan[h])
  BY <1>1, <1>2, Zenon DEF HandOK
<1> QED BY <1>1, <1>3, OneHand

LEMMA GoesTo ==
    ASSUME HandsOK, IInv, NEW h \in Handlers, NEW at \in Past, UNCHANGED plan, Goes(h, at),
           at = "refused" => held[h].of = None
    PROVE  HandsOK'
<1>1. work \in [Handlers -> [at: Phases, path: Maybe(Ids), fd: Maybe(Ids)]]
  BY DEF IInv, TypeOK
<1>2. work'[h].at = at /\ \A g \in Handlers \ {h} : work'[g] = work[g]
  BY <1>1 DEF Goes
<1> QED BY <1>2, GoesHand DEF Goes

LEMMA ChecksHand ==
    ASSUME HandsOK, IInv, NEW h \in Handlers, NEW path, NEW recipe, UNCHANGED plan,
           Checks(h, path, recipe), work[h].at \in {"new", "checks"},
           recipe \in [id: {recipe.id}, title: {recipe.title}, stages: {recipe.stages}],
           ClientMade(recipe.stages),
           held[h].of # None =>
              /\ recipe.title # "" /\ Valid(recipe.stages)
              /\ recipe.stages = ToSave(held[h].of.stages)
    PROVE  HandsOK'
<1>0. work \in [Handlers -> [at: Phases, path: Maybe(Ids), fd: Maybe(Ids)]]
  BY DEF IInv, TypeOK
<1>1. HandOK(work[h].at, held[h], plan[h]) /\ DOMAIN held = Handlers
  BY DEF HandsOK
<1>2. CASE Goes(h, "refused") /\ ~(recipe.title # "" /\ Valid(recipe.stages))
  BY <1>2, GoesTo DEF Past, Over
<1>3. CASE recipe.title # "" /\ Valid(recipe.stages)
  <2> DEFINE normal == [recipe EXCEPT !.stages = Normal(@)]
  <2>1. Writes(h, path, normal)
    BY <1>3 DEF Checks
  <2>2. /\ normal \in [id: {recipe.id}, title: {recipe.title}, stages: {Normal(recipe.stages)}]
        /\ normal.stages = Normal(recipe.stages) /\ normal.id = recipe.id
        /\ normal.title = recipe.title
    OBVIOUS
  <2>3. Ready(Normal(recipe.stages)) /\ Normal(recipe.stages) \in Seq(Stage)
    <3>1. Rows(recipe.stages)
      BY <1>3, MadeRows
    <3> QED BY <3>1, NormalReady DEF Ready, Rows
  <2> HIDE DEF normal
  <2>4. RecipeOK(normal)
    BY <2>2, <2>3 DEF RecipeOK
  <2>5. /\ work'[h].at = "writes" /\ \A g \in Handlers \ {h} : work'[g] = work[g]
        /\ held' = [held EXCEPT ![h].recipe = normal]
    BY <1>0, <2>1 DEF Writes
  <2>6. held'[h] = [held[h] EXCEPT !.recipe = normal] /\ DOMAIN held' = Handlers
        /\ \A g \in Handlers \ {h} : held'[g] = held[g]
    BY <1>1, <2>5
  <2>7. held[h] = [recipe |-> held[h].recipe, of |-> held[h].of]
    BY <1>1, Zenon DEF HandOK
  <2>8. /\ held'[h] = [recipe |-> held'[h].recipe, of |-> held'[h].of]
        /\ held'[h].recipe = normal /\ held'[h].of = held[h].of
    BY <2>6, <2>7
  <2>9. held[h].of # None => /\ plan[h].op = "save" /\ CookOK(held[h].of)
                             /\ normal.stages = Normal(ToSave(held[h].of.stages))
    <3>1. held[h].of # None => plan[h].op = "save" /\ CookOK(held[h].of)
      BY <1>1, Zenon DEF HandOK
    <3> QED BY <2>2, <3>1
  <2>10. HandOK("writes", held'[h], plan[h])
    BY <2>4, <2>8, <2>9 DEF HandOK
  <2>11. HandOK(work'[h].at, held'[h], plan[h])
    BY <2>5, <2>10
  <2>12. \A g \in Handlers \ {h} : work'[g] = work[g] /\ held'[g] = held[g]
    BY <2>5, <2>6
  <2> QED BY <2>6, <2>11, <2>12, OneHand, Zenon
<1> QED BY <1>2, <1>3 DEF Checks

LEMMA SameCooks ==
    ASSUME FilesOK, ListsOK, OvenOK, ShownOK, UNCHANGED <<disk, Server, Cook>>
    PROVE  FilesOK' /\ ListsOK' /\ OvenOK' /\ ShownOK'
  BY DEF FilesOK, ListsOK, OvenOK, ShownOK, Server, Cook

LEMMA CreatesCooks ==
    ASSUME CooksInv, IInv, FromClients, NEW h \in Handlers, UNCHANGED plan,
           Creates(h) \/ Updates(h) \/ Saves(h)
    PROVE  HandsOK'
<1>1. HandsOK /\ FilesOK /\ HandOK(work[h].at, held[h], plan[h]) /\ AskOK(plan[h])
  BY AsksOf DEF CooksInv, HandsOK, IInv
<1>2. CASE Creates(h)
  <2> DEFINE recipe == [id |-> h, title |-> plan[h].title, stages |-> plan[h].stages]
  <2>1. work[h].at = "new" /\ Checks(h, h, recipe) /\ plan[h].op = "create"
    BY <1>2 DEF Creates, Asked
  <2>2. held[h].of = None
    BY <1>1, <2>1, Zenon DEF HandOK
  <2>3. /\ recipe \in [id: {recipe.id}, title: {recipe.title}, stages: {recipe.stages}]
        /\ recipe.stages = plan[h].stages
    OBVIOUS
  <2>4. ClientMade(plan[h].stages)
    BY <1>1, <2>1 DEF AskOK
  <2> HIDE DEF recipe
  <2> QED BY <1>1, <2>1, <2>2, <2>3, <2>4, ChecksHand
<1>3. CASE Updates(h)
  <2>1. work[h].at = "new" /\ plan[h].op = "update" /\ plan[h].id \in Ids
    BY <1>3, AsksForIds DEF Updates, Asked
  <2>2. held[h].of = None
    BY <1>1, <2>1, Zenon DEF HandOK
  <2>3. CASE ~Readable(Content(plan[h].id))
    <3>1. Goes(h, "missing")
      BY <1>3, <2>3 DEF Updates
    <3> QED BY <1>1, <3>1, GoesTo DEF Past, Over
  <2>4. CASE Readable(Content(plan[h].id))
    <3> DEFINE r == Content(plan[h].id)[1]
               recipe == Patched(r, plan[h])
               title == IF plan[h].title = None THEN r.title ELSE plan[h].title
               stages == IF plan[h].stages = None THEN r.stages ELSE plan[h].stages
    <3>1. Checks(h, plan[h].id, recipe)
      BY <1>3, <2>4 DEF Updates
    <3>2. RecipeOK(r)
      BY <1>1, <2>1, <2>4, ContentOK
    <3> HIDE DEF r
    <3>3. recipe = [r EXCEPT !.title = title, !.stages = stages]
      BY <3>2 DEF Patched, RecipeOK
    <3>4. ClientMade(r.stages)
      BY <3>2, MadeRows DEF RecipeOK, Ready
    <3>5. ClientMade(stages)
      BY <1>1, <2>1, <3>4 DEF AskOK
    <3> HIDE DEF recipe, title, stages
    <3>6. r \in [id: {r.id}, title: {r.title, title}, stages: {r.stages, stages}]
      BY <3>2 DEF RecipeOK
    <3>7. /\ recipe \in [id: {recipe.id}, title: {recipe.title}, stages: {recipe.stages}]
          /\ recipe.stages = stages
      BY <3>3, <3>6
    <3> QED BY <1>1, <2>1, <2>2, <3>1, <3>5, <3>7, ChecksHand
  <2> QED BY <2>3, <2>4
<1>4. CASE Saves(h)
  <2>1. work[h].at = "checks"
    BY <1>4 DEF Saves
  <2>2. held[h].of # None /\ CookOK(held[h].of) /\ plan[h].op = "save"
    BY <1>1, <2>1, Zenon DEF HandOK
  <2>3. CASE IsSaved(held[h].of)
    <3>1. Goes(h, "saved")
      BY <1>4, <2>3 DEF Saves
    <3> QED BY <1>1, <3>1, GoesTo DEF Past, Over
  <2>4. CASE ~IsSaved(held[h].of)
    <3> DEFINE stages == ToSave(held[h].of.stages)
               recipe == [id |-> h, title |-> plan[h].title, stages |-> stages]
    <3>1. Checks(h, h, recipe)
      BY <1>4, <2>4 DEF Saves
    <3>2. ClientMade(stages) /\ Valid(stages) /\ plan[h].title # ""
      <4>1. Rows(stages)
        BY <2>2, Zenon DEF CookOK, SaveOK
      <4>2. plan[h].title # ""
        BY <1>1, <2>2, Zenon DEF AskOK
      <4> HIDE DEF stages
      <4> QED BY <4>1, <4>2, MadeRows, Zenon
    <3> HIDE DEF stages
    <3>3. /\ recipe \in [id: {recipe.id}, title: {recipe.title}, stages: {recipe.stages}]
          /\ recipe.stages = stages /\ recipe.title = plan[h].title
      OBVIOUS
    <3> HIDE DEF recipe
    <3> QED BY <1>1, <2>1, <3>1, <3>2, <3>3, ChecksHand DEF stages
  <2> QED BY <2>3, <2>4
<1> QED BY <1>2, <1>3, <1>4

\* A file is written with the recipe its request holds.
LEMMA FilesCooks ==
    ASSUME CooksInv, IInv, NEW h \in Handlers, UNCHANGED plan, FileStep(h)
    PROVE  CooksInv'
<1>1. /\ work \in [Handlers -> [at: Phases, path: Maybe(Ids), fd: Maybe(Ids)]]
      /\ HandOK(work[h].at, held[h], plan[h]) /\ DOMAIN held = Handlers /\ DOMAIN disk = Ids
  BY DEF IInv, TypeOK, CooksInv, HandsOK
<1>2. UNCHANGED <<Server, Cook>> /\ FilesOK /\ ListsOK /\ OvenOK /\ ShownOK /\ HandsOK
  BY DEF FileStep, CooksInv
<1>3. ListsOK' /\ OvenOK' /\ ShownOK'
  BY <1>2 DEF ListsOK, OvenOK, ShownOK, Server, Cook
<1>4. CASE Opens(h)
  <2>1. PICK file : /\ disk' = [disk EXCEPT ![file] = <<>>]
                    /\ work' = [work EXCEPT ![h].at = "opened", ![h].fd = file]
    BY <1>4 DEF Opens
  <2>2. work[h].at = "writes" /\ held' = held
    BY <1>4 DEF Opens
  <2>3. FilesOK'
    BY <1>1, <1>2, <2>1, EmptyFile DEF FilesOK
  <2>4. HandOK("opened", held[h], plan[h])
    BY <1>1, <2>2, Zenon DEF HandOK
  <2>5. work'[h].at = "opened" /\ \A g \in Handlers \ {h} : work'[g] = work[g]
    BY <1>1, <2>1
  <2>6. HandsOK'
    <3>1. HandOK(work'[h].at, held'[h], plan[h]) /\ DOMAIN held' = Handlers
      BY <1>1, <2>2, <2>4, <2>5
    <3>2. \A g \in Handlers \ {h} : work'[g] = work[g] /\ held'[g] = held[g]
      BY <2>2, <2>5
    <3> QED BY <1>2, <3>1, <3>2, OneHand, Zenon
  <2> QED BY <1>3, <2>3, <2>6 DEF CooksInv
<1>5. CASE Fills(h)
  <2>1. work[h].at = "opened" /\ Goes(h, "filled")
    BY <1>5 DEF Fills
  <2>2. RecipeOK(held[h].recipe)
    BY <1>1, <2>1, Zenon DEF HandOK
  <2>3. work[h].fd \in Ids
    BY <2>1, WorkOf DEF Writing
  <2>4. PICK content \in {<<held[h].recipe>>, Append(disk[work[h].fd], held[h].recipe)} :
          disk' = [disk EXCEPT ![work[h].fd] = content]
    BY <1>5 DEF Fills
  <2>5. FileOK(content)
    BY <1>2, <2>2, <2>3, <2>4, OneFile, AppendFile DEF FilesOK
  <2>6. FilesOK'
    BY <1>1, <1>2, <2>4, <2>5 DEF FilesOK
  <2>7. HandsOK'
    BY <1>2, <2>1, GoesTo DEF Past
  <2> QED BY <1>3, <2>6, <2>7 DEF CooksInv
<1>6. CASE Renames(h) \/ Removes(h)
  <2>1. PICK at \in {"failed", "changed"} : Goes(h, at)
    BY <1>6 DEF Renames, Removes
  <2>2. disk' = disk
    BY <1>6 DEF Renames, Removes
  <2>3. HandsOK'
    BY <1>2, <2>1, GoesTo DEF Past, Over
  <2> QED BY <1>2, <1>3, <2>2, <2>3 DEF CooksInv, FilesOK
<1> QED BY <1>4, <1>5, <1>6 DEF FileStep

LEMMA RunsCooks ==
    ASSUME NEW id, NEW stages, Ready(stages), Runs(id, stages)
    PROVE  OvenOK' /\ ShownOK'
<1> DEFINE sent == OvenIds(stages)
           raw == Sent(sent)
           extras == Extras(sent)
<1>1. /\ oven' = [raw |-> raw, active |-> 1, recipe |-> id, extras |-> extras]
      /\ shown' = [recipe |-> id, stages |-> sent, raw |-> raw, extras |-> extras]
  BY DEF Runs
<1>2. RawOK(raw, extras) /\ SaveOK(sent, raw, extras)
  BY StartRuns, StartSaves
<1> HIDE DEF sent, raw, extras
<1>3. 1 \in DOMAIN raw
  <2>1. raw \in Seq(RawStages) /\ raw # <<>>
    BY <1>2 DEF RawOK
  <2> QED BY <2>1, LenProperties, EmptySeq
<1>4. Running(oven')
  BY <1>1, <1>2, <1>3 DEF Running
<1>5. CookOK(shown')
  BY <1>1, <1>2 DEF CookOK
<1> QED BY <1>4, <1>5 DEF OvenOK, ShownOK

LEMMA RawChanges ==
    ASSUME NEW o, Running(o), NEW new, RawOK(new, o.extras), Len(new) = Len(o.raw)
    PROVE  Running([o EXCEPT !.raw = new])
<1> DEFINE n == [o EXCEPT !.raw = new]
<1>1. n = [raw |-> new, active |-> o.active, recipe |-> o.recipe, extras |-> o.extras]
  BY DEF Running
<1>2. DOMAIN new = DOMAIN o.raw
  BY LenProperties DEF Running, RawOK
<1> HIDE DEF n
<1> QED BY <1>1, <1>2 DEF Running, n

LEMMA ControlsCooks ==
    ASSUME CooksInv, IInv, FromClients, NEW h \in Handlers, UNCHANGED plan, Controls(h)
    PROVE  CooksInv'
<1>1. HandsOK /\ HandOK(work[h].at, held[h], plan[h]) /\ AskOK(plan[h]) /\ OvenOK
  BY AsksOf DEF CooksInv, HandsOK, IInv
<1>2. UNCHANGED <<files, Server, shown>> /\ work[h].at = "new"
  BY DEF Controls
<1>3. held[h].of = None
  BY <1>1, <1>2, Zenon DEF HandOK
<1>4. HandsOK'
  <2>1. PICK at \in {"refused", "done"} : Goes(h, at)
    BY DEF Controls, SetsTemperature, SetsTimer
  <2> QED BY <1>1, <1>3, <2>1, GoesTo DEF Past, Over
<1>5. FilesOK' /\ ListsOK'
  BY <1>2 DEF CooksInv, FilesOK, ListsOK, files, Server
<1>6. oven' = oven \/ Running(oven')
  <2>1. CASE oven' # oven
    <3>1. oven # None /\ Running(oven) /\ (SetsTemperature(h) \/ SetsTimer(h))
      BY <1>1, <2>1 DEF Controls, SetsTemperature, SetsTimer, OvenOK
    <3>2. CASE SetsTemperature(h)
      <4> DEFINE stage == oven.raw[oven.active]
                 t == Clamped(stage, plan[h].temp)
                 new == WithTemperature(oven.raw, oven.active, t)
      <4>1. oven' = [oven EXCEPT !.raw = new]
        BY <2>1, <3>2 DEF SetsTemperature
      <4>2. CanHeat(stage, t)
        <5>1. InRange(plan[h].temp)
          BY <1>1, <3>2, Zenon DEF AskOK, SetsTemperature
        <5> QED BY <5>1, ClampedHeats, Zenon
      <4>3. RawOK(new, oven.extras) /\ Len(new) = Len(oven.raw)
        <5>1. RawOK(oven.raw, oven.extras) /\ oven.active \in DOMAIN oven.raw
          BY <3>1 DEF Running
        <5> QED BY <4>2, <5>1, TemperatureRuns, Zenon
      <4> HIDE DEF new
      <4> QED BY <3>1, <4>1, <4>3, RawChanges
    <3>3. CASE SetsTimer(h)
      <4> DEFINE new == WithTimer(oven.raw, oven.active, plan[h].secs)
      <4>1. /\ plan[h].op = "timer" /\ TimerStage(oven.raw, oven.active) \in DOMAIN oven.raw
            /\ oven' = [oven EXCEPT !.raw = new]
        BY <2>1, <3>3 DEF SetsTimer
      <4>2. plan[h].secs \in Nat \ {0}
        BY <1>1, <4>1 DEF AskOK
      <4>3. RawOK(new, oven.extras) /\ Len(new) = Len(oven.raw)
        <5>1. RawOK(oven.raw, oven.extras)
          BY <3>1 DEF Running
        <5> QED BY <4>1, <4>2, <5>1, TimerRuns, Zenon
      <4> HIDE DEF new
      <4> QED BY <3>1, <4>1, <4>3, RawChanges
    <3> QED BY <3>1, <3>2, <3>3
  <2> QED BY <2>1
<1>7. OvenOK' /\ ShownOK'
  BY <1>1, <1>2, <1>6 DEF CooksInv, OvenOK, ShownOK
<1> QED BY <1>4, <1>5, <1>7 DEF CooksInv

LEMMA HandlersCooks ==
    ASSUME CooksInv, CacheInv, FromClients, NEW h \in Handlers, Handles(h)
    PROVE  CooksInv'
<1>0. UNCHANGED plan /\ IInv /\ RefreshOK /\ PlanOK
  BY DEF Handles, CacheInv, IInv
<1>1. /\ HandsOK /\ FilesOK /\ ListsOK /\ OvenOK /\ ShownOK
      /\ HandOK(work[h].at, held[h], plan[h]) /\ AskOK(plan[h]) /\ DOMAIN held = Handlers
      /\ work \in [Handlers -> [at: Phases, path: Maybe(Ids), fd: Maybe(Ids)]]
  BY <1>0, AsksOf DEF CooksInv, HandsOK, IInv, TypeOK
<1>2. CASE Creates(h) \/ Updates(h) \/ Saves(h)
  <2>1. HandsOK'
    BY <1>0, <1>2, CreatesCooks
  <2>2. UNCHANGED <<disk, Server, Cook>>
    BY <1>2 DEF Creates, Updates, Saves, files
  <2> QED BY <1>1, <2>1, <2>2, SameCooks DEF CooksInv
<1>3. CASE Deletes(h)
  <2>1. UNCHANGED <<disk, Server, Cook>>
    BY <1>3 DEF Deletes, files
  <2>2. CASE Goes(h, "missing")
    <3>1. HandsOK'
      BY <1>0, <1>1, <2>2, GoesTo DEF Past, Over
    <3> QED BY <1>1, <2>1, <3>1, SameCooks DEF CooksInv
  <2>3. CASE work' = [work EXCEPT ![h].at = "removes", ![h].path = plan[h].id] /\ UNCHANGED held
    <3>1. work'[h].at = "removes" /\ \A g \in Handlers \ {h} : work'[g] = work[g]
      BY <1>1, <2>3
    <3>2. HandsOK'
      BY <1>0, <1>1, <2>3, <3>1, GoesHand DEF Past
    <3> QED BY <1>1, <2>1, <3>2, SameCooks DEF CooksInv
  <2> QED BY <1>3, <2>2, <2>3 DEF Deletes
<1>4. CASE FileStep(h)
  BY <1>0, <1>4, FilesCooks
<1>5. CASE Refreshes(h)
  <2>1. PICK at \in {"links", "done"} : Goes(h, at)
    BY <1>5 DEF Refreshes
  <2>2. HandsOK'
    BY <1>0, <1>1, <2>1, GoesTo DEF Past, Over
  <2>3. refresh'.found = refresh.found /\ refresh'.answers = refresh.answers /\ UNCHANGED recipes
    BY <1>0, <1>5 DEF Refreshes, RefreshRecipes, RefreshOK
  <2>4. ListsOK'
    BY <1>1, <2>3 DEF ListsOK
  <2>5. UNCHANGED <<disk, Cook>>
    BY <1>5 DEF Refreshes, files
  <2> QED BY <1>1, <2>2, <2>4, <2>5 DEF CooksInv, FilesOK, OvenOK, ShownOK, Cook
<1>6. CASE Starts(h)
  <2>1. PICK at \in {"missing", "done"} : Goes(h, at)
    BY <1>6 DEF Starts
  <2>2. HandsOK'
    BY <1>0, <1>1, <2>1, GoesTo DEF Past, Over
  <2>3. UNCHANGED <<disk, Server>>
    BY <1>6 DEF Starts, files
  <2>4. CASE UNCHANGED Cook
    BY <1>1, <2>2, <2>3, <2>4, SameCooks DEF CooksInv
  <2>5. CASE \E r \in recipes : Runs(r.id, r.stages)
    <3>1. PICK r \in recipes : Runs(r.id, r.stages)
      BY <2>5
    <3>2. Ready(r.stages)
      BY <1>1 DEF ListsOK, AllOK, RecipeOK
    <3>3. OvenOK' /\ ShownOK'
      BY <3>1, <3>2, RunsCooks
    <3> QED BY <1>1, <2>2, <2>3, <3>3 DEF CooksInv, FilesOK, ListsOK, Server
  <2> QED BY <1>6, <2>4, <2>5 DEF Starts
<1>7. CASE StartsManual(h)
  <2>1. work[h].at = "new" /\ plan[h].op = "manual" /\ UNCHANGED <<disk, Server>>
    BY <1>7 DEF StartsManual, Asked, files
  <2>2. held[h].of = None
    BY <1>1, <2>1, Zenon DEF HandOK
  <2>3. PICK at \in {"refused", "done"} : Goes(h, at)
    BY <1>7 DEF StartsManual
  <2>4. HandsOK'
    BY <1>0, <1>1, <2>2, <2>3, GoesTo DEF Past, Over
  <2>5. CASE ~Valid(plan[h].stages)
    <3>1. UNCHANGED Cook
      BY <1>7, <2>5 DEF StartsManual
    <3> QED BY <1>1, <2>1, <2>4, <3>1, SameCooks DEF CooksInv
  <2>6. CASE Valid(plan[h].stages)
    <3>1. Runs(None, Normal(plan[h].stages))
      BY <1>7, <2>6 DEF StartsManual
    <3>2. Rows(plan[h].stages)
      BY <1>1, <2>1, <2>6, MadeRows DEF AskOK
    <3>3. OvenOK' /\ ShownOK'
      BY <3>1, <3>2, NormalReady, RunsCooks
    <3> QED BY <1>1, <2>1, <2>4, <3>3 DEF CooksInv, FilesOK, ListsOK, Server
  <2> QED BY <2>5, <2>6
<1>8. CASE Controls(h)
  BY <1>0, <1>8, ControlsCooks
<1>9. CASE ReadsCook(h)
  <2>1. work[h].at = "new" /\ plan[h].op = "save" /\ UNCHANGED <<disk, Server, Cook>>
    BY <1>9 DEF ReadsCook, Asked, files
  <2>2. CASE shown = None
    <3>1. Goes(h, "missing")
      BY <1>9, <2>2 DEF ReadsCook
    <3>2. HandsOK'
      BY <1>0, <1>1, <3>1, GoesTo DEF Past, Over
    <3> QED BY <1>1, <2>1, <3>2, SameCooks DEF CooksInv
  <2>3. CASE shown # None
    <3>1. /\ work' = [work EXCEPT ![h].at = "checks"] /\ held' = [held EXCEPT ![h].of = shown]
      BY <1>9, <2>3 DEF ReadsCook
    <3>2. /\ work'[h].at = "checks" /\ held'[h] = [held[h] EXCEPT !.of = shown]
          /\ DOMAIN held' = Handlers
          /\ \A g \in Handlers \ {h} : work'[g] = work[g] /\ held'[g] = held[g]
      BY <1>1, <3>1
    <3>3. held[h] = [recipe |-> held[h].recipe, of |-> held[h].of] /\ held[h].recipe = None
      BY <1>1, <2>1, Zenon DEF HandOK
    <3>4. /\ held'[h] = [recipe |-> held'[h].recipe, of |-> held'[h].of]
          /\ held'[h].recipe = None /\ held'[h].of = shown
      BY <3>2, <3>3
    <3>5. CookOK(shown)
      BY <1>1, <2>3 DEF ShownOK
    <3>6. HandOK("checks", held'[h], plan[h])
      BY <2>1, <2>3, <3>4, <3>5 DEF HandOK
    <3>7. HandOK(work'[h].at, held'[h], plan[h])
      BY <3>2, <3>6
    <3>8. HandsOK'
      BY <1>0, <1>1, <3>2, <3>7, OneHand
    <3> QED BY <1>1, <2>1, <3>8, SameCooks DEF CooksInv
  <2> QED BY <2>2, <2>3
<1>10. CASE Links(h)
  <2>1. Goes(h, "done") /\ UNCHANGED <<disk, Server>>
    BY <1>10 DEF Links, files
  <2>2. HandsOK'
    BY <1>0, <1>1, <2>1, GoesTo DEF Past, Over
  <2>3. CASE UNCHANGED Cook
    BY <1>1, <2>1, <2>2, <2>3, SameCooks DEF CooksInv
  <2>4. CASE shown # None /\ shown' = [shown EXCEPT !.recipe = h] /\ oven' = [oven EXCEPT !.recipe = h]
    <3>1. CookOK(shown) /\ Running(oven)
      BY <1>1, <2>4 DEF ShownOK
    <3>2. shown' = [recipe |-> h, stages |-> shown.stages, raw |-> shown.raw, extras |-> shown.extras]
      BY <2>4, <3>1 DEF CookOK
    <3>3. CookOK(shown')
      BY <3>1, <3>2 DEF CookOK
    <3>4. oven' = [raw |-> oven.raw, active |-> oven.active, recipe |-> h, extras |-> oven.extras]
      BY <2>4, <3>1 DEF Running
    <3>5. Running(oven')
      BY <3>1, <3>4 DEF Running
    <3> QED BY <1>1, <2>1, <2>2, <3>3, <3>5
            DEF CooksInv, FilesOK, ListsOK, OvenOK, ShownOK, Server
  <2> QED BY <1>10, <2>3, <2>4 DEF Links
<1> QED BY <1>2, <1>3, <1>4, <1>5, <1>6, <1>7, <1>8, <1>9, <1>10 DEF Handles

LEMMA ServerCooks ==
    ASSUME CooksInv, CacheInv, ScanBegins \/ ScanReads \/ ScanEnds \/ RecipesRefreshed
    PROVE  CooksInv'
<1>0. RefreshOK /\ IInv /\ FilesOK /\ ListsOK
  BY DEF CacheInv, CooksInv
<1>1. UNCHANGED <<plan, work, held, disk, oven, shown>>
  BY DEF ScanBegins, ScanReads, ScanEnds, RecipesRefreshed, Rest, files, Cook
<1>2. FilesOK' /\ OvenOK' /\ ShownOK' /\ HandsOK'
  BY <1>1 DEF CooksInv, FilesOK, OvenOK, ShownOK, HandsOK
<1>3. CASE ScanBegins
  <2>1. UNCHANGED <<recipes, refresh.found, refresh.answers>>
    BY <1>0, <1>3 DEF ScanBegins, RefreshOK
  <2> QED BY <1>0, <1>2, <2>1 DEF ListsOK, CooksInv
<1>4. CASE ScanReads
  <2>1. PICK id \in refresh.left :
          refresh' = [refresh EXCEPT !.left = @ \ {id}, !.found = @ \cup Found(id)]
    BY <1>4 DEF ScanReads
  <2>2. /\ refresh'.found = refresh.found \cup Found(id) /\ id \in Ids
        /\ UNCHANGED <<recipes, refresh.answers>>
    BY <1>0, <1>4, <2>1 DEF ScanReads, RefreshOK
  <2>3. AllOK(Found(id))
    <3>1. CASE Readable(Content(id))
      <4>1. RecipeOK(Content(id)[1])
        BY <1>0, <2>2, <3>1, ContentOK
      <4> QED BY <3>1, <4>1 DEF AllOK, Found
    <3>2. CASE ~Readable(Content(id))
      BY <3>2 DEF AllOK, Found
    <3> QED BY <3>1, <3>2
  <2>4. AllOK(refresh'.found)
    BY <1>0, <2>2, <2>3 DEF AllOK, ListsOK
  <2> QED BY <1>0, <1>2, <2>2, <2>4 DEF ListsOK, CooksInv
<1>5. CASE ScanEnds
  <2>1. /\ refresh'.found = {} /\ refresh'.answers = Append(refresh.answers, refresh.found)
        /\ UNCHANGED recipes
    BY <1>0, <1>5 DEF ScanEnds, RefreshOK
  <2>2. \A k \in DOMAIN refresh'.answers : AllOK(refresh'.answers[k])
    <3> DEFINE s == refresh.answers
               r == refresh.found
    <3>1. IsSeq(s) /\ (\A k \in DOMAIN s : AllOK(s[k])) /\ AllOK(r)
      BY <1>0 DEF ListsOK, RefreshOK
    <3>2. PICK S : s \in Seq(S)
      BY <3>1 DEF IsSeq
    <3> DEFINE T == S \cup {r}
    <3>3. s \in Seq(T) /\ r \in T
      BY <3>2, SeqMonotonic
    <3> HIDE DEF s, r, T
    <3>4. /\ DOMAIN Append(s, r) = 1..(Len(s) + 1) /\ Len(s) \in Nat /\ DOMAIN s = 1..Len(s)
          /\ Append(s, r)[Len(s) + 1] = r /\ \A k \in 1..Len(s) : Append(s, r)[k] = s[k]
      BY <3>3, AppendProperties, LenProperties
    <3>5. \A k \in DOMAIN Append(s, r) : k = Len(s) + 1 \/ k \in DOMAIN s
      BY <3>4
    <3>6. \A k \in DOMAIN Append(s, r) : AllOK(Append(s, r)[k])
      BY <3>1, <3>4, <3>5
    <3> QED BY <2>1, <3>6 DEF s, r
  <2>3. AllOK(refresh'.found)
    BY <2>1 DEF AllOK
  <2> QED BY <1>0, <1>2, <2>1, <2>2, <2>3 DEF ListsOK, CooksInv
<1>6. CASE RecipesRefreshed
  <2> DEFINE s == refresh.answers
  <2>1. /\ refresh'.found = refresh.found /\ refresh'.answers = Tail(s)
        /\ recipes' = Head(s) /\ s # <<>>
    BY <1>0, <1>6 DEF RecipesRefreshed, RefreshOK
  <2>2. IsSeq(s) /\ (\A k \in DOMAIN s : AllOK(s[k])) /\ AllOK(refresh.found)
    BY <1>0 DEF ListsOK, RefreshOK
  <2> HIDE DEF s
  <2>3. PICK S : s \in Seq(S)
    BY <2>2 DEF IsSeq
  <2>4. /\ Len(s) \in Nat \ {0} /\ Tail(s) \in Seq(S) /\ Len(Tail(s)) = Len(s) - 1
        /\ Head(s) = s[1] /\ \A k \in 1..Len(Tail(s)) : Tail(s)[k] = s[k + 1]
    BY <2>1, <2>3, HeadTailProperties, EmptySeq
  <2>5. DOMAIN s = 1..Len(s) /\ DOMAIN Tail(s) = 1..Len(Tail(s))
    BY <2>3, <2>4, LenProperties
  <2>6. AllOK(Head(s))
    BY <2>2, <2>4, <2>5
  <2>7. \A k \in DOMAIN Tail(s) : AllOK(Tail(s)[k])
    BY <2>2, <2>4, <2>5
  <2> QED BY <1>2, <2>1, <2>2, <2>6, <2>7 DEF ListsOK, CooksInv
<1> QED BY <1>3, <1>4, <1>5, <1>6

LEMMA CooksStart == ASSUME Init, FromClients PROVE CooksInv
<1>1. FilesOK
  <2> SUFFICES ASSUME NEW f \in Ids PROVE FileOK(disk[f])
    BY DEF FilesOK
  <2>1. CASE f \notin Kept
    BY <2>1, EmptyFile DEF Init
  <2>2. CASE f \in Kept
    <3> DEFINE r == [id |-> f, title |-> Library[f].title, stages |-> Normal(Library[f].stages)]
    <3>1. disk[f] = <<r>>
      BY <2>2 DEF Init
    <3>2. Rows(Library[f].stages)
      <4>1. ClientMade(Library[f].stages) /\ Valid(Library[f].stages)
        BY <2>2, Zenon DEF FromClients
      <4> QED BY <4>1, MadeRows, Zenon
    <3>3. Ready(Normal(Library[f].stages)) /\ Normal(Library[f].stages) \in Seq(Stage)
      BY <3>2, NormalReady DEF Ready, Rows
    <3>4. RecipeOK(r)
      BY <3>3 DEF RecipeOK
    <3> HIDE DEF r
    <3> QED BY <3>1, <3>4, OneFile
  <2> QED BY <2>1, <2>2
<1>2. ListsOK
  BY EmptySeq DEF Init, Startup, ListsOK, AllOK
<1>3. OvenOK /\ ShownOK
  BY DEF Init, OvenOK, ShownOK
<1>4. HandsOK
  <2> SUFFICES ASSUME NEW h \in Handlers PROVE HandOK(work[h].at, held[h], plan[h])
    BY DEF HandsOK, Init
  <2>1. work[h].at = "new" /\ held[h] = [recipe |-> None, of |-> None]
    BY DEF Init, NotStarted
  <2>2. HandOK("new", held[h], plan[h])
    BY <2>1 DEF HandOK
  <2> QED BY <2>1, <2>2
<1> QED BY <1>1, <1>2, <1>3, <1>4 DEF CooksInv

LEMMA CooksStep == ASSUME CooksInv, CacheInv, FromClients, [Next]_vars PROVE CooksInv'
<1>1. CASE \E h \in Handlers : Handles(h)
  BY <1>1, HandlersCooks
<1>2. CASE ScanBegins \/ ScanReads \/ ScanEnds \/ RecipesRefreshed
  BY <1>2, ServerCooks
<1>3. CASE OvenReports
  <2>1. UNCHANGED <<plan, work, held, disk, recipes, refresh, oven>>
    BY <1>3 DEF OvenReports, files, Server
  <2> DEFINE stages == [i \in DOMAIN oven.raw |-> StageFromJson(oven.raw[i])]
             read == Applied(oven.extras, stages)
  <2>2. oven # None /\ shown' = [recipe |-> oven.recipe, stages |-> read, raw |-> oven.raw,
                                extras |-> oven.extras]
    BY <1>3 DEF OvenReports
  <2>3. Running(oven)
    BY <2>2 DEF CooksInv, OvenOK
  <2>4. SaveOK(read, oven.raw, oven.extras)
    BY <2>3, ReportSaves DEF Running
  <2> HIDE DEF read
  <2>5. CookOK(shown')
    BY <2>2, <2>4 DEF CookOK
  <2>6. ShownOK'
    BY <2>1, <2>3, <2>5 DEF ShownOK
  <2> QED BY <2>1, <2>6 DEF CooksInv, FilesOK, ListsOK, OvenOK, HandsOK
<1>4. CASE OvenMovesOn
  <2>1. /\ UNCHANGED <<plan, work, held, disk, recipes, refresh, shown>>
        /\ oven # None /\ oven.active < Len(oven.raw) /\ oven' = [oven EXCEPT !.active = @ + 1]
    BY <1>4 DEF OvenMovesOn, files, Server
  <2>2. Running(oven)
    BY <2>1 DEF CooksInv, OvenOK
  <2>3. oven' = [raw |-> oven.raw, active |-> oven.active + 1, recipe |-> oven.recipe,
                 extras |-> oven.extras]
    BY <2>1, <2>2 DEF Running
  <2>4. oven.active + 1 \in DOMAIN oven.raw
    <3>1. DOMAIN oven.raw = 1..Len(oven.raw) /\ Len(oven.raw) \in Nat
      BY <2>2, LenProperties DEF Running, RawOK
    <3> QED BY <2>1, <2>2, <3>1 DEF Running
  <2>5. Running(oven')
    BY <2>2, <2>3, <2>4 DEF Running
  <2> QED BY <2>1, <2>5 DEF CooksInv, FilesOK, ListsOK, OvenOK, ShownOK, HandsOK
<1>5. CASE CookEnds
  <2>1. UNCHANGED <<plan, work, held, disk, recipes, refresh>> /\ oven' = None /\ shown' = None
    BY <1>5 DEF CookEnds, files, Server
  <2> QED BY <2>1 DEF CooksInv, FilesOK, ListsOK, OvenOK, ShownOK, HandsOK
<1>6. CASE UNCHANGED vars
  BY <1>6 DEF vars, files, CooksInv, FilesOK, ListsOK, OvenOK, ShownOK, HandsOK
<1>7. CASE Crash
  <2>1. /\ UNCHANGED <<plan, held, disk, oven>> /\ recipes' = {} /\ refresh' = Startup /\ shown' = None
        /\ work' = [h \in Handlers |->
                      IF work[h].at \in Over \cup {"new"} THEN work[h]
                      ELSE [work[h] EXCEPT !.at = "lost"]]
    BY <1>7 DEF Crash, files
  <2>2. work \in [Handlers -> [at: Phases, path: Maybe(Ids), fd: Maybe(Ids)]]
    BY DEF CacheInv, IInv, TypeOK
  <2>3. HandsOK'
    <3> SUFFICES ASSUME NEW h \in Handlers PROVE HandOK(work'[h].at, held[h], plan[h])
      BY <2>1 DEF CooksInv, HandsOK
    <3>1. HandOK(work[h].at, held[h], plan[h])
      BY DEF CooksInv, HandsOK
    <3>2. HandOK("lost", held[h], plan[h])
      BY <3>1, Zenon DEF HandOK
    <3>3. work'[h].at = work[h].at \/ work'[h].at = "lost"
      BY <2>1, <2>2
    <3> QED BY <3>1, <3>2, <3>3
  <2>4. ListsOK'
    BY <2>1, EmptySeq DEF ListsOK, Startup, AllOK
  <2> QED BY <2>1, <2>3, <2>4 DEF CooksInv, FilesOK, OvenOK, ShownOK
<1> QED BY <1>1, <1>2, <1>3, <1>4, <1>5, <1>6, <1>7 DEF Next

(***************************************************************************)
(* A running cook can be saved, and what is saved does the same again, for *)
(* the requests that the editor, the app and Home Assistant make: whatever *)
(* temperature or timer was set between, over all that the server takes,   *)
(* and whatever the oven did not give back (http.rs: handle_temperature,   *)
(* handle_save_current_cook; protocol/stages.rs: restore_end_flags;        *)
(* types.rs: CookExtras).                                                  *)
(***************************************************************************)
THEOREM SavedCookRunsAgain ==
    ASSUME FromClients
    PROVE  Spec => []SameCookAgain
<1>1. CooksInv => SameCookAgain
  <2> SUFFICES ASSUME CooksInv, NEW h \in Handlers, held[h].of # None
               PROVE  /\ work[h].at # "refused"
                      /\ held[h].recipe # None =>
                           Again(held[h].recipe.stages) = Behavior(held[h].of.raw, held[h].of.extras)
    BY DEF SameCookAgain
  <2>1. HandOK(work[h].at, held[h], plan[h])
    BY DEF CooksInv, HandsOK
  <2>2. /\ work[h].at # "refused" /\ CookOK(held[h].of)
        /\ held[h].recipe # None => held[h].recipe.stages = Normal(ToSave(held[h].of.stages))
    BY <2>1, Zenon DEF HandOK
  <2> QED BY <2>2 DEF CookOK, SaveOK
<1>2. Init => CooksInv
  BY CooksStart
<1>3. CooksInv /\ CacheInv /\ [Next]_vars => CooksInv'
  BY CooksStep
<1>4. Spec => []CacheInv
  BY CacheStart, CacheStep, PTL DEF Spec
<1> QED BY <1>1, <1>2, <1>3, <1>4, PTL DEF Spec
=============================================================================
