----------------------------- MODULE LocalStore -----------------------------
(***************************************************************************)
(* processors/local_store.rs: the journal of the cook in flight            *)
(* (active-cook.json) and the history (history.jsonl), on disk.            *)
(*                                                                         *)
(* A command is carried out as a sequence of file operations.  Each file   *)
(* operation is atomic (the journal is written aside and renamed), but the *)
(* sequence is not: an operation can fail, which abandons the rest, and    *)
(* the process can die between two of them.  `Trail` lists the contents of *)
(* the files after each operation; what is left on disk is its last        *)
(* element, or, after a failure or a crash, an earlier one.                *)
(***************************************************************************)
EXTENDS Messages

CONSTANTS
    HistoryLimit,       \* HISTORY_LIMIT, what a refresh returns at most
    RecipeFound         \* whether a started recipe is, or is not, found again

VARIABLES
    files,      \* the two files
    watched     \* LocalStore::watched, the cook in the previous report

storeVars == <<files, watched>>

Journal == [cook: Cooks, title: Titles, turnOff: BOOLEAN, seen: BOOLEAN]
Files == [journal: Journal \cup {None}, history: Seq(HistoryEntry)]

ASSUME LocalStoreAssumption ==
    /\ HistoryLimit \in Nat \ {0}
    /\ RecipeFound \in (SUBSET BOOLEAN) \ {{}}
    /\ None \notin Journal

StoreTypeOK == files \in Files /\ watched \in CookOrNone

StoreInit ==
    /\ files = [journal |-> None, history |-> <<>>]
    /\ watched = None

-----------------------------------------------------------------------------

Journals(cook) == files.journal # None /\ files.journal.cook = cook

Started(cook, turnOff, found) ==
    [cook |-> cook, title |-> IF found THEN "started" ELSE "manual",
     turnOff |-> turnOff, seen |-> FALSE]
\* manual_cook: a cook the server didn't start.
Manual(cook) == [cook |-> cook, title |-> "manual", turnOff |-> FALSE, seen |-> TRUE]

Entry == [cook |-> files.journal.cook, title |-> files.journal.title,
          endedNow |-> watched = files.journal.cook]

Write(trail, journal) == Append(trail, [Last(trail) EXCEPT !.journal = journal])

\* Mutant of Finish: the journal is removed before the history is written.
FinishRemovingFirst ==
    IF files.journal = None THEN <<files>>
    ELSE <<files, [files EXCEPT !.journal = None]>> \o
         IF files.journal.seen
           THEN <<[journal |-> None, history |-> Append(files.history, Entry)]>>
           ELSE <<>>

\* finish: a cook the oven never reported leaves no history.
Finish ==
    IF files.journal = None THEN <<files>>
    ELSE Write(IF files.journal.seen
                 THEN <<files, [files EXCEPT !.history = Append(@, Entry)]>>
                 ELSE <<files>>,
               None)

\* journal_start: a different cook in the journal goes to history first.
JournalStart(cook, turnOff, found) ==
    Write(IF Journals(cook) THEN <<files>> ELSE Finish, Started(cook, turnOff, found))

\* link_cook: whichever cook is in the journal.
LinkCook ==
    IF files.journal = None THEN <<files>>
    ELSE Write(<<files>>, [files.journal EXCEPT !.title = "saved"])

\* oven_reported.
Reconcile(cook) ==
    IF Journals(cook) THEN Write(<<files>>, [files.journal EXCEPT !.seen = TRUE])
    ELSE IF cook = None THEN Finish
    ELSE Write(Finish, Manual(cook))

\* A fetch for a cook that the journal has needs no file operation.
Trail(cmd, found) ==
    CASE cmd.kind = "reported" -> Reconcile(cmd.cook)
      [] cmd.kind = "started"  -> JournalStart(cmd.cook, cmd.turnOff, found)
      [] cmd.kind = "fetch"    ->
           IF cmd.cook = None \/ Journals(cmd.cook) THEN <<files>> ELSE Reconcile(cmd.cook)
      [] cmd.kind = "link"     -> LinkCook
      [] cmd.kind = "history"  -> <<files>>

Watches(cmd) ==
    cmd.kind = "reported" \/ (cmd.kind = "fetch" /\ cmd.cook # None /\ ~Journals(cmd.cook))

-----------------------------------------------------------------------------

Recent(history) ==
    IF Len(history) <= HistoryLimit THEN history
    ELSE SubSeq(history, Len(history) - HistoryLimit + 1, Len(history))
Refreshed(after) == <<[kind |-> "history", entries |-> Recent(after.history)]>>
Recorded(after) == after.history # files.history
Fetched(after) ==
    <<[kind |-> "fetched",
       cook |-> [cook |-> after.journal.cook, title |-> after.journal.title,
                 turnOff |-> after.journal.turnOff]]>>

\* Mutant of Answer: a start over a running cook sends no history.
AnswerNoHistory(cmd, after) ==
    CASE cmd.kind = "history"  -> Refreshed(after)
      [] cmd.kind = "fetch"    -> IF cmd.cook = None THEN <<>> ELSE Fetched(after)
      [] cmd.kind = "reported" -> IF Recorded(after) THEN Refreshed(after) ELSE <<>>
      [] cmd.kind = "started"  -> <<[kind |-> "patched"]>>
      [] cmd.kind = "link"     -> <<>>

\* A fetch with no cook answers Unsupported, and keeps what the state machine
\* has; so do the failures, which are only logged.  None of them is sent here.
Answer(cmd, after) ==
    CASE cmd.kind = "history"  -> Refreshed(after)
      [] cmd.kind = "fetch"    -> IF cmd.cook = None THEN <<>> ELSE Fetched(after)
      [] cmd.kind = "reported" -> IF Recorded(after) THEN Refreshed(after) ELSE <<>>
      [] cmd.kind = "started"  ->
           <<[kind |-> "patched"]>> \o (IF Recorded(after) THEN Refreshed(after) ELSE <<>>)
      [] cmd.kind = "link"     -> <<>>

\* cook_started looks the recipe up again: a recipe deleted since leaves the
\* cook without its title.
HandleCommand ==
    /\ storeCmd # <<>>
    /\ storeCmd' = Tail(storeCmd)
    /\ \E found \in IF Head(storeCmd).kind = "started" THEN RecipeFound ELSE {TRUE} :
         LET cmd == Head(storeCmd)
             after == Last(Trail(cmd, found))
         IN /\ files' = after
            /\ watched' = IF Watches(cmd) THEN cmd.cook ELSE watched
            /\ storeEvt' = storeEvt \o Answer(cmd, after)

\* A file operation fails: those before it are done, the rest are skipped.
FailCommand ==
    /\ storeCmd # <<>>
    /\ storeCmd' = Tail(storeCmd)
    /\ LET trail == Trail(Head(storeCmd), TRUE)
       IN \E i \in 1..(Len(trail) - 1) : files' = trail[i]
    /\ UNCHANGED <<watched, storeEvt>>

\* The process dies, perhaps in the middle of a command; `watched` is lost.
StoreCrash ==
    /\ \E found \in RecipeFound :
         LET trail == IF storeCmd = <<>> THEN <<files>> ELSE Trail(Head(storeCmd), found)
         IN files' \in Range(trail)
    /\ watched' = None
=============================================================================
