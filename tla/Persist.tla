------------------------------- MODULE Persist -------------------------------
(***************************************************************************)
(* The panel's memory of its own resets: pico/src/persist.rs, the boot in  *)
(* pico/src/main.rs and pico-core's reset.rs.  A region of RAM survives    *)
(* every reset but a power cycle.  Tasks write single words of it, the     *)
(* panic handler and the boot several, and a reset can fall between them.  *)
(***************************************************************************)
EXTENDS Integers, Sequences, SequencesExt

CONSTANTS
    RingSize,   \* RING_SIZE
    MaxUptime,  \* bound: where a run's clock stops
    MaxFails,   \* bound: where the API client's fail_count stops
    MaxResets   \* bound: resets

ASSUME PersistAssumption ==
    RingSize \in Nat \ {0} /\ {MaxUptime, MaxFails, MaxResets} \subseteq Nat

\* reset.rs; the firmware never forces its watchdog.
Reasons == {"Unknown", "ColdBoot", "Panic", "WatchdogTimeout", "InitTimeout", "OtherSoftReset"}

\* last_app_state: zeroed, INIT_STAGE_WIFI, INIT_STAGE_DHCP, or a screen.
Stages == {"none", "wifi", "dhcp", "screen"}

\* How far main has come.  The words of init_at_boot are written in the
\* phases before "recovering"; the watchdog runs from "starting" on.
Phases == {"counting", "zeroing", "classifying", "appending", "clearing", "recovering",
           "starting", "wifi", "dhcp", "running"}
Watched == {"starting", "wifi", "dhcp", "running"}

\* How far record_and_reset has come, if it runs: it has counted the panic,
\* has written over the bytes of the message, has written the message's length.
Handler == {"no", "zeroing", "counted", "writing", "written"}

VARIABLES
    ram,        \* PersistRegion
    bitten,     \* WATCHDOG.REASON, bit TIMER
    phase,      \* where main is
    dying,      \* where record_and_reset is
    run,        \* history: what this run did
    last,       \* history: what the run before it did
    told,       \* history: the ring entries written, newest first
    owed,       \* history: a panic was not shown yet
    cut,        \* history: a reset fell between the last panic's count and its message
    torn,       \* history: a reset fell into zero_region
    resets      \* bound: resets so far

persistVars == <<ram, bitten, phase, dying, run, last, told, owed, cut, torn, resets>>

Entry == [reason: Reasons, uptime: 0..MaxUptime, net: BOOLEAN, fails: 0..MaxFails]
\* `msg`: the panic that read_live's message is of, if it is a whole one.
NoMessage == 0
Mixed == -1
Region == [magic: BOOLEAN, panics: Nat, shown: Nat, msg: Nat \cup {Mixed}, reason: Reasons,
           state: Stages, uptime: 0..MaxUptime, net: BOOLEAN, fails: 0..MaxFails,
           head: Nat, ring: [0..(RingSize - 1) -> Entry]]
\* `up`: its clock; `fed`: the clock at its last feed of the watchdog, if any;
\* `ends`: the reasons its end may be given.
Run == [ready: BOOLEAN, up: 0..MaxUptime, fed: (0..MaxUptime) \cup {-1},
        net: BOOLEAN, fails: 0..MaxFails, ends: SUBSET Reasons]

PersistTypeOK ==
    /\ ram \in Region /\ bitten \in BOOLEAN
    /\ phase \in Phases /\ dying \in Handler
    /\ run \in Run /\ last \in Run
    /\ told \in Seq(Entry) /\ Len(told) <= RingSize
    /\ owed \in BOOLEAN /\ cut \in BOOLEAN /\ torn \in BOOLEAN
    /\ resets \in 0..MaxResets

\* zero_region.
NoEntry == [reason |-> "Unknown", uptime |-> 0, net |-> FALSE, fails |-> 0]
Zeroed == [magic |-> TRUE, panics |-> 0, shown |-> 0, msg |-> NoMessage,
           reason |-> "Unknown", state |-> "none", uptime |-> 0, net |-> FALSE, fails |-> 0, head |-> 0,
           ring |-> [i \in 0..(RingSize - 1) |-> NoEntry]]
\* What a power cycle leaves: any words but the magic one.
Garbage == [Zeroed EXCEPT !.magic = FALSE, !.panics = 1, !.msg = Mixed, !.head = 1]

Earlier(a, b) == IF a < b THEN a ELSE b

\* ring_read, as /health serves it: newest first.
RingRead ==
    [i \in 1..Earlier(ram.head, RingSize) |-> ram.ring[(ram.head + RingSize - i) % RingSize]]

NewRun == [ready |-> FALSE, up |-> 0, fed |-> -1, net |-> FALSE, fails |-> 0,
           ends |-> {}]

\* The words are being zeroed, in the boot or in the panic handler.
Zeroing == "zeroing" \in {phase, dying}

-----------------------------------------------------------------------------
(* Resets.                                                                 *)

\* The chip starts again at the top of main.
Restarts(ends) ==
    /\ resets < MaxResets /\ resets' = resets + 1
    /\ phase' = "counting" /\ dying' = "no"
    /\ last' = [run EXCEPT !.ends = ends, !.up = 0]
    /\ run' = NewRun
    /\ cut' = (cut \/ dying \in {"counted", "writing"})
    /\ torn' = (torn \/ Zeroing)

PowerCycle ==
    /\ Restarts({"ColdBoot"})
    /\ ram' = Garbage /\ bitten' = FALSE /\ told' = <<>> /\ owed' = FALSE

BringUp == {"starting", "wifi", "dhcp"}

\* The RUN pin, at any moment: it clears WATCHDOG.REASON.
PinReset ==
    /\ Restarts(IF dying # "no" THEN {"Panic"}
                ELSE IF phase \in BringUp THEN {"InitTimeout", "OtherSoftReset"}
                ELSE {"OtherSoftReset"})
    /\ bitten' = FALSE
    /\ UNCHANGED <<ram, told, owed>>

\* The executor stalls, or the panic handler hangs.
WatchdogBites ==
    /\ phase \in Watched
    /\ Restarts(IF dying # "no" THEN {"Panic"} ELSE {"WatchdogTimeout"})
    /\ bitten' = TRUE
    /\ UNCHANGED <<ram, told, owed>>

\* record_and_reset, up to the count of the panic.
Counts(region) ==
    /\ ram' = [region EXCEPT !.panics = @ + 1] /\ dying' = "counted"
    /\ owed' = TRUE /\ cut' = FALSE

Panics ==
    /\ dying = "no" /\ resets < MaxResets
    /\ IF ram.magic THEN Counts(ram)
       ELSE /\ ram' = [ram EXCEPT !.magic = TRUE] /\ dying' = "zeroing"
            /\ UNCHANGED <<owed, cut>>
    /\ UNCHANGED <<bitten, phase, run, last, told, torn, resets>>

PanicZeroes ==
    /\ dying = "zeroing" /\ Counts(Zeroed)
    /\ UNCHANGED <<bitten, phase, run, last, told, torn, resets>>

\* The bytes of the message under the length of the one before, if there was
\* one; then its own length.
WritesMessage ==
    /\ \/ /\ dying = "counted" /\ dying' = "writing"
          /\ ram' = [ram EXCEPT !.msg = IF @ = NoMessage THEN NoMessage ELSE Mixed]
       \/ /\ dying = "writing" /\ dying' = "written"
          /\ ram' = [ram EXCEPT !.msg = ram.panics]
    /\ UNCHANGED <<bitten, phase, run, last, told, owed, cut, torn, resets>>

PanicResets ==
    /\ dying = "written" /\ Restarts({"Panic"})
    /\ UNCHANGED <<ram, bitten, told, owed>>

-----------------------------------------------------------------------------
(* init_at_boot, called with the watchdog not started yet.                 *)

ChecksMagic ==
    /\ phase = "counting"
    /\ phase' = IF ram.magic THEN "classifying" ELSE "zeroing"
    /\ ram' = [ram EXCEPT !.magic = TRUE]
    /\ UNCHANGED <<bitten, run, last, told, owed>>

\* zero_region, which writes the magic first; a cold boot has no run to record.
Zeroes ==
    /\ phase = "zeroing" /\ phase' = "clearing"
    /\ ram' = [Zeroed EXCEPT !.reason = "ColdBoot"]
    /\ UNCHANGED <<bitten, run, last, told, owed>>

\* Mutant of Classified: the watchdog before the panic.
ClassifiedWatchdogFirst ==
    CASE bitten                       -> "WatchdogTimeout"
      [] ram.panics > ram.shown       -> "Panic"
      [] ram.state \in {"wifi", "dhcp"} -> "InitTimeout"
      [] OTHER                        -> "OtherSoftReset"

\* classify_reset.
Classified ==
    IF ram.panics > ram.shown THEN "Panic"
    ELSE IF bitten THEN "WatchdogTimeout"
    ELSE IF ram.state \in {"wifi", "dhcp"} THEN "InitTimeout"
    ELSE "OtherSoftReset"

Classifies ==
    /\ phase = "classifying" /\ phase' = "appending"
    /\ ram' = [ram EXCEPT !.reason = Classified]
    /\ UNCHANGED <<bitten, run, last, told, owed>>

LastRun == [reason |-> ram.reason, uptime |-> ram.uptime,
            net |-> ram.net, fails |-> ram.fails]
Slot == ram.head % RingSize

Tells == told' = SubSeq(<<LastRun>> \o told, 1, Earlier(Len(told) + 1, RingSize))

\* Mutant of RingAppend: the head is counted from the slot after.
RingAppendAfterHead ==
    /\ ram' = [ram EXCEPT !.ring[(Slot + 1) % RingSize] = LastRun, !.head = @ + 1]
    /\ phase' = "clearing" /\ Tells

\* ring_append: the slot's words, then the head.
RingAppend ==
    \/ /\ ram.ring[Slot] # LastRun
       /\ ram' = [ram EXCEPT !.ring[Slot] = LastRun]
       /\ UNCHANGED <<phase, told>>
    \/ /\ ram.ring[Slot] = LastRun
       /\ ram' = [ram EXCEPT !.head = @ + 1]
       /\ phase' = "clearing"
       /\ Tells

Appends ==
    /\ phase = "appending"
    /\ RingAppend
    /\ UNCHANGED <<bitten, run, last, owed>>

\* Mutant of Cleared: a panic is marked displayed before the view.
ClearedShown(region) == [region EXCEPT !.net = FALSE, !.fails = 0, !.shown = region.panics]
Cleared(region) == [region EXCEPT !.net = FALSE, !.fails = 0]

Clears ==
    /\ phase = "clearing" /\ phase' = "recovering"
    /\ ram' = Cleared(ram)
    /\ run' = [run EXCEPT !.ready = TRUE]
    /\ UNCHANGED <<bitten, last, told, owed>>

-----------------------------------------------------------------------------
(* main, after init_at_boot.                                               *)

\* The recovery view takes its time, and a reset may come first; then
\* mark_displayed.  The watchdog's start clears its reason.
ShowsRecovery ==
    /\ phase = "recovering" /\ phase' = "starting" /\ bitten' = FALSE
    /\ IF ram.panics > ram.shown
         THEN ram' = [ram EXCEPT !.shown = ram.panics] /\ owed' = FALSE
         ELSE UNCHANGED <<ram, owed>>
    /\ UNCHANGED <<run, last, told>>

\* record_app_state, before each wait.
Reaches(from, to, state) ==
    /\ phase = from /\ phase' = to
    /\ ram' = [ram EXCEPT !.state = state]
    /\ UNCHANGED <<bitten, run, last, told, owed>>

JoinsWifi == Reaches("starting", "wifi", "wifi")
GetsLease == Reaches("wifi", "dhcp", "dhcp")
\* record_network_up; then the first screen.
NetworkUp ==
    /\ phase = "dhcp" /\ phase' = "running"
    /\ ram' = [ram EXCEPT !.net = TRUE, !.state = "screen"]
    /\ run' = [run EXCEPT !.net = TRUE]
    /\ UNCHANGED <<bitten, last, told, owed>>

\* reboot_init_timeout: the deadline passed.
GivesUp ==
    /\ dying = "no" /\ phase \in {"wifi", "dhcp"} /\ Restarts({"InitTimeout"})
    /\ UNCHANGED <<ram, bitten, told, owed>>

\* watchdog_feeder_task.  The bound on resets: the last run's clock is not
\* followed, which no boot after it reads.
Feeds ==
    /\ resets < MaxResets /\ phase \in Watched /\ run.fed # run.up
    /\ ram' = [ram EXCEPT !.uptime = run.up]
    /\ run' = [run EXCEPT !.fed = run.up]
    /\ UNCHANGED <<bitten, phase, last, told, owed>>

\* Two seconds pass; the feeder is never later than the watchdog allows.
TimePasses ==
    /\ resets < MaxResets /\ run.up < MaxUptime /\ run' = [run EXCEPT !.up = @ + 1]
    /\ phase \in Watched => run.fed = run.up
    /\ UNCHANGED <<ram, bitten, phase, last, told, owed>>

\* The API task's count of failed polls.
ApiCounts ==
    /\ phase = "running"
    /\ \E n \in {0, run.fails + 1} \cap (0..MaxFails) :
         ram' = [ram EXCEPT !.fails = n] /\ run' = [run EXCEPT !.fails = n]
    /\ UNCHANGED <<bitten, phase, last, told, owed>>

-----------------------------------------------------------------------------

Boots == ChecksMagic \/ Zeroes \/ Classifies \/ Appends \/ Clears \/ ShowsRecovery
         \/ JoinsWifi \/ GetsLease \/ NetworkUp
Works == Feeds \/ TimePasses \/ ApiCounts

PersistInit ==
    /\ ram = Garbage /\ bitten = FALSE /\ phase = "counting" /\ dying = "no"
    /\ run = NewRun /\ last = [NewRun EXCEPT !.ends = {"ColdBoot"}]
    /\ told = <<>> /\ owed = FALSE /\ cut = FALSE /\ torn = FALSE /\ resets = 0

PersistNext ==
    \/ PowerCycle \/ PinReset \/ WatchdogBites \/ GivesUp
    \/ Panics \/ PanicZeroes \/ WritesMessage \/ PanicResets
    \/ dying = "no" /\ (Boots \/ Works) /\ UNCHANGED <<dying, cut, torn, resets>>

PersistSpec == PersistInit /\ [][PersistNext]_persistVars

-----------------------------------------------------------------------------

(***************************************************************************)
(* The boot tells how the run before it ended: whether it had a network    *)
(* and how often its polls had failed, and, if it came to feed its         *)
(* watchdog, its last uptime and a reason that its end may be given (a     *)
(* run cut in its bring-up may be told as either of two, see PinReset).    *)
(***************************************************************************)
BootTellsLastRun ==
    [][phase = "appending" /\ phase' = "clearing" /\ last.ready /\ ~torn =>
         LET entry == told'[1]
         IN /\ entry.net = last.net /\ entry.fails = last.fails
            /\ last.fed # -1 => entry.reason \in last.ends /\ entry.uptime = last.fed]_persistVars

(***************************************************************************)
(* The ring holds what the last boots told, newest first, over resets that *)
(* fall into the writing of it: only the oldest entry may be overwritten.  *)
(***************************************************************************)
RingKeeps ==
    ~Zeroing /\ ram.magic /\ ~torn =>
        \A i \in DOMAIN RingRead : i < RingSize => i \in DOMAIN told /\ RingRead[i] = told[i]

(***************************************************************************)
(* No panic goes unseen: the panel does not work again before the recovery *)
(* view was on the screen, although a reset may cut the view or the        *)
(* handler, and the view has the last panic's message, whole, unless a     *)
(* reset came between that panic's count and its message: the view then    *)
(* has none, an older one or a mixture (record_and_reset counts first).    *)
(***************************************************************************)
PanicsShown ==
    dying = "no" /\ ~torn =>
        /\ phase \in Watched => ~owed
        /\ phase = "recovering" /\ owed =>
              ram.panics > ram.shown /\ (~cut => ram.msg = ram.panics)
=============================================================================
