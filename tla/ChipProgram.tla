----------------------------- MODULE ChipProgram -----------------------------
(***************************************************************************)
(* device/chip.py: chip_write, sect_erase, chip_erase and chip_read over   *)
(* the routines of the flash algorithm (device/flash.py), and MCUProg.py's *)
(* check_write_data and write_all, which feed chip_write one partition     *)
(* after another.                                                          *)
(*                                                                         *)
(* The flash is a function from pages to contents; an address is a page    *)
(* number relative to CHIP_BASE.  Data is already padded to whole pages    *)
(* (a page never exceeds a sector, so padding stays in the last sector).   *)
(* Every routine may fail to do its work and still be taken for done, as   *)
(* Flash only prints a result that is not zero; a call may also be stopped *)
(* (AlgoCall's Stop) or raise, leaving the pages it works on undefined.    *)
(***************************************************************************)
EXTENDS Integers, Sequences

CONSTANTS
  NPages,       \* CHIP_SIZE in pages
  SectStarts,   \* the first pages of the real sectors (falgo sector_sizes)
  Sect,         \* SECT_SIZE in pages: the smallest sector
  Values,       \* contents of a page of data that is not blank
  Blank,        \* an erased page (BLANK_PAGE)
  Garbage,      \* anything else a page may hold
  HasRead,      \* falgo has pc_Read
  Jobs          \* what the user may ask for: sequences of partitions

Pages    == 0 .. NPages - 1
Contents == Values \cup {Blank, Garbage}

\* How a write is verified: chkVerify is off, chip_write reads the pages back, or
\* falgo's own pc_Verify is called.
VerifyWays == {"none", "readback", "routine"}

\* A partition: where it goes and the pages of its file.
Partition == [addr : Nat, data : Seq(Values \cup {Blank})]

ASSUME LayoutAssumption ==
  /\ NPages \in Nat \ {0} /\ Sect \in Nat \ {0}
  /\ 0 \in SectStarts /\ SectStarts \subseteq Pages
ASSUME ContentsAssumption ==
  Blank \notin Values /\ Garbage \notin Values /\ Blank # Garbage
ASSUME AlgoAssumption == HasRead \in BOOLEAN
ASSUME JobsAssumption == Jobs \subseteq Seq(Partition)

VARIABLES
  flash,      \* [Pages -> Contents]
  op,         \* the running or last operation
  job,        \* its partitions (self.wrdata; for erase and read one region)
  verify,     \* chkVerify, and whether falgo has pc_Verify
  seg,        \* the partition chip_write is at
  at,         \* where in the operation the worker thread is
  func,       \* 1 erase, 2 program, 3 verify: the argument of Init and UnInit
  i,          \* the loop variable
  error,      \* chip_write's error: the read back page differs
  outcome,    \* how the operation ended
  abort,      \* Chip.abort
  buff,       \* MCUProg.rdbuff
  faulty,     \* history: a routine was taken for done without doing its work
  late        \* history: erase and program calls completed after a stop request

vars == <<flash, op, job, verify, seg, at, func, i, error, outcome, abort,
          buff, faulty, late>>

-----------------------------------------------------------------------------
(* Layout and the checks made before connecting.                           *)

\* The real sector a page lies in.
SectorOf(p) == {q \in Pages : \A s \in SectStarts : s <= p <=> s <= q}

Size(r)  == Len(r.data)
First(r) == r.addr \div Sect
Last(r)  == (r.addr + Size(r) - 1) \div Sect

\* The pages a partition occupies.
Covered(r) == r.addr .. r.addr + Size(r) - 1

\* Mutant of Overlap: only the sectors two files start in are compared.
Overlap_FirstOnly(r, t) == First(r) = First(t)

\* check_write_data: sectors are counted with the smallest sector size.
Overlap(r, t) == First(r) <= Last(t) /\ First(t) <= Last(r)

Accepted(j) ==
  \A k \in 1 .. Len(j) :
    /\ j[k].addr < NPages
    /\ j[k].addr % Sect = 0
    /\ j[k].addr + Size(j[k]) <= NPages
    /\ \A m \in 1 .. k - 1 : ~Overlap(j[k], j[m])

\* A region chosen in the address and size boxes for an erase or a read.
Region(j) == Len(j) = 1 /\ Accepted(j) /\ Size(j[1]) > 0 /\ Size(j[1]) % Sect = 0

Part == job[seg]

\* Mutant of SectCount: the last, partly covered sector is not counted.
SectCount_Floor == Size(Part) \div Sect

\* Mutant of SectCount: one sector too many when the last one is full.
SectCount_OneMore == (Size(Part) + Sect) \div Sect

\* chip_write's n_sect.
SectCount == (Size(Part) + Sect - 1) \div Sect

\* The rounds of the current loop.
Rounds == CASE op = "chip"                 -> 1
            [] func = 1 /\ op = "erase"    -> Size(Part) \div Sect
            [] func = 1 /\ op = "write"    -> SectCount
            [] OTHER                       -> Size(Part)

\* The page the current round is about.
Page == Part.addr + (IF func = 1 THEN Sect * i ELSE i)
Data == Part.data[i + 1]

-----------------------------------------------------------------------------
(* What the routines do to the flash.                                      *)

FillIn(ps, c) == [p \in Pages |-> IF p \in ps THEN c ELSE flash[p]]

\* Programming turns an erased page into the data; over other contents it
\* cannot give the data back.
Burnt(old, new) == IF old \in {Blank, new} THEN new ELSE Garbage

Erasing == IF op = "chip" THEN Pages ELSE SectorOf(Page)

Done == CASE func = 1 -> FillIn(Erasing, Blank)
          [] func = 2 -> FillIn({Page}, Burnt(flash[Page], Data))
          [] OTHER    -> flash

\* A call that is cut short leaves what it works on undefined.
Undone == CASE func = 1 -> {flash, Done, FillIn(Erasing, Garbage)}
            [] func = 2 -> {flash, Done, FillIn({Page}, Garbage)}
            [] OTHER    -> {flash}

-----------------------------------------------------------------------------
(* Operations.                                                             *)

Init ==
  /\ flash \in {[p \in Pages |-> c] : c \in {Blank, Garbage}}
  /\ op = "none" /\ job = <<>> /\ verify = "none" /\ seg = 1
  /\ at = "idle" /\ func = 0 /\ i = 0 /\ error = FALSE
  /\ outcome = "none" /\ abort = FALSE /\ buff = <<>>
  /\ faulty = FALSE /\ late = 0

\* start_task: a new Flash is built on a reset and halted core, the stop flag
\* is cleared and the worker thread started.
Start(o, j, v) ==
  /\ at = "idle"
  /\ o \in {"write", "erase", "chip", "read"}
  /\ j # <<>> /\ IF o = "write" THEN Accepted(j) ELSE Region(j)
  /\ op' = o /\ job' = j /\ verify' = v /\ seg' = 1 /\ i' = 0
  /\ at' = IF o \in {"chip", "read"} THEN "report" ELSE "init"
  /\ func' = IF o \in {"chip", "read"} THEN 0 ELSE 1
  /\ error' = FALSE /\ outcome' = "none" /\ abort' = FALSE
  /\ buff' = <<>> /\ faulty' = FALSE /\ late' = 0
  /\ UNCHANGED flash

\* The worker thread ends (taskFinished), and with it the local variables.
End(o) ==
  /\ at' = "idle" /\ outcome' = o
  /\ seg' = 1 /\ func' = 0 /\ i' = 0 /\ error' = FALSE
  /\ UNCHANGED <<op, job, verify, abort, buff>>

\* flash.Init(0, 0, func)
InitCall ==
  /\ at = "init"
  /\ at' = IF op = "chip" THEN "call" ELSE "report"
  /\ i' = 0
  /\ UNCHANGED <<flash, op, job, verify, seg, func, error, outcome, abort,
                 buff, faulty, late>>

\* Chip.report raises Aborted when the stop flag is set.
ReportAborts ==
  /\ abort
  /\ \/ at = "report" /\ ((op = "chip" /\ func = 0) \/ i < Rounds)
     \/ at = "final"
  /\ End("aborted")
  /\ UNCHANGED <<flash, faulty, late>>

\* chip_erase reports once, before Init.
ReportChip ==
  /\ at = "report" /\ op = "chip" /\ func = 0 /\ ~abort
  /\ func' = 1 /\ at' = "init"
  /\ UNCHANGED <<flash, op, job, verify, seg, i, error, outcome, abort,
                 buff, faulty, late>>

\* A blank page is not programmed: the sector has just been erased.
Skip == func = 2 /\ Data = Blank

\* Chip.report of a round, then the blank page check.
ReportRound ==
  /\ at = "report" /\ ~(op = "chip" /\ func = 0) /\ i < Rounds /\ ~abort
  /\ IF Skip THEN i' = i + 1 /\ at' = at ELSE i' = i /\ at' = "call"
  /\ UNCHANGED <<flash, op, job, verify, seg, func, error, outcome, abort,
                 buff, faulty, late>>

LoopEnds ==
  /\ at = "report" /\ ~(op = "chip" /\ func = 0) /\ i >= Rounds
  /\ at' = IF op = "read" THEN "final" ELSE "uninit"
  /\ UNCHANGED <<flash, op, job, verify, seg, func, i, error, outcome, abort,
                 buff, faulty, late>>

NextRound == i' = i + 1 /\ at' = IF op = "chip" THEN "uninit" ELSE "report"

\* EraseSector, EraseChip, ProgramPage: a result that is not 0 is printed and
\* the loop goes on.
CallChanges ==
  /\ at = "call" /\ func \in {1, 2}
  /\ flash' \in {Done, flash}
  /\ faulty' = (faulty \/ flash' # Done)
  /\ late' = IF abort THEN late + 1 ELSE late
  /\ NextRound
  /\ UNCHANGED <<op, job, verify, seg, func, error, outcome, abort, buff>>

\* Mutant of ReadBack: a differing page does not end in an error.
ReadBack_Printed == error' = FALSE /\ NextRound

\* The page is read back and compared; the first difference leaves the loop.
ReadBack ==
  IF flash[Page] = Data
  THEN error' = error /\ NextRound
  ELSE error' = TRUE /\ at' = "uninit" /\ i' = i

\* The algorithm's Verify routine: what it returns is only printed.
CallVerifies ==
  /\ at = "call" /\ func = 3
  /\ IF verify = "routine" THEN error' = error /\ NextRound ELSE ReadBack
  /\ UNCHANGED <<flash, op, job, verify, seg, func, outcome, abort, buff,
                 faulty, late>>

\* Mutant of Extended: the page replaces what was read before.
Extended_Replaces(page) == <<page>>

\* buff.extend(...)
Extended(page) == Append(buff, page)

\* chip_read: the page itself, or what the Read routine put into the buffer
\* in RAM, which is something else if the routine did not do its work.
CallReads ==
  /\ at = "call" /\ op = "read"
  /\ \/ buff' = Extended(flash[Page]) /\ UNCHANGED faulty
     \/ HasRead /\ buff' = Extended(Garbage) /\ faulty' = TRUE
  /\ NextRound
  /\ UNCHANGED <<flash, op, job, verify, seg, func, error, outcome, abort, late>>

\* A poll of the call's loop sees the stop flag (Init and UnInit included; a
\* plain memory read has no such loop).
CallStopped ==
  /\ abort
  /\ \/ at \in {"init", "uninit"}
     \/ at = "call" /\ (func = 3 => verify = "routine") /\ (op = "read" => HasRead)
  /\ End("aborted")
  /\ flash' \in IF at = "call" THEN Undone ELSE {flash}
  /\ UNCHANGED <<faulty, late>>

\* A call times out, or an access to the target raises.
CallRaises ==
  /\ at \in {"init", "call", "uninit"}
  /\ End("failed")
  /\ flash' \in IF at = "call" THEN Undone ELSE {flash}
  /\ UNCHANGED <<faulty, late>>

\* What chip_write goes on with after UnInit(func); 0: the final report.
NextFunc ==
  IF op # "write" \/ func = 3 \/ (func = 2 /\ verify = "none") THEN 0 ELSE func + 1

\* flash.UnInit(func); chip_write raises the read back error after UnInit(3).
UnInitCall ==
  /\ at = "uninit" /\ ~error
  /\ IF NextFunc = 0 THEN at' = "final" /\ UNCHANGED func
                     ELSE at' = "init" /\ func' = NextFunc
  /\ UNCHANGED <<flash, op, job, verify, seg, i, error, outcome, abort, buff,
                 faulty, late>>

UnInitError ==
  /\ at = "uninit" /\ error
  /\ End("failed")
  /\ UNCHANGED <<flash, faulty, late>>

\* The final report of chip_write passed: write_all goes to the next partition.
NextPartition ==
  /\ at = "final" /\ ~abort /\ op = "write" /\ seg < Len(job)
  /\ seg' = seg + 1 /\ at' = "init" /\ func' = 1 /\ i' = 0
  /\ UNCHANGED <<flash, op, job, verify, error, outcome, abort, buff, faulty, late>>

Finish ==
  /\ at = "final" /\ ~abort /\ (op = "write" => seg = Len(job))
  /\ End("ok")
  /\ UNCHANGED <<flash, faulty, late>>

\* on_btnStop_clicked
PressStop ==
  /\ at # "idle" /\ ~abort
  /\ abort' = TRUE
  /\ UNCHANGED <<flash, op, job, verify, seg, at, func, i, error, outcome,
                 buff, faulty, late>>

Worker ==
  \/ InitCall \/ ReportAborts \/ ReportChip \/ ReportRound \/ LoopEnds
  \/ CallChanges \/ CallVerifies \/ CallReads \/ CallStopped \/ CallRaises
  \/ UnInitCall \/ UnInitError \/ NextPartition \/ Finish

User ==
  \/ \E o \in {"write", "erase", "chip", "read"}, j \in Jobs, v \in VerifyWays :
       Start(o, j, v)
  \/ PressStop

Next == Worker \/ User

Spec == Init /\ [][Next]_vars

-----------------------------------------------------------------------------
(* Properties.                                                             *)

ControlOK ==
  /\ op \in {"none", "write", "erase", "chip", "read"}
  /\ at \in {"idle", "init", "report", "call", "uninit", "final"}
  /\ outcome \in {"none", "ok", "aborted", "failed"}
  /\ verify \in VerifyWays /\ error \in BOOLEAN /\ abort \in BOOLEAN /\ faulty \in BOOLEAN

DataOK ==
  /\ flash \in [Pages -> Contents]
  /\ job \in Seq(Partition) /\ buff \in Seq(Contents)
  /\ seg \in Nat /\ func \in 0 .. 3 /\ i \in Nat /\ late \in Nat

TypeOK == ControlOK /\ DataOK

\* The flash holds the pages of partition r.
Holds(r) == \A k \in 1 .. Size(r) : flash[r.addr + k - 1] = r.data[k]

Succeeded(o) == op = o /\ at = "idle" /\ outcome = "ok"

\* The write that ends with success and verification leaves every page of
\* every partition in the flash: whatever erase or program calls failed in
\* silence, which pages were skipped as blank and what a later partition did
\* (by reading back: what a Verify routine returns is only printed).
VerifiedIsWritten ==
  Succeeded("write") /\ verify = "readback" => \A k \in DOMAIN job : Holds(job[k])

\* When every routine did its work, success means what it says, verification
\* or not: skipping blank pages and the rounding of the sector count lose
\* nothing, and a read returns its region page by page.
FaultlessIsDone ==
  ~faulty =>
    /\ Succeeded("write") => \A k \in DOMAIN job : Holds(job[k])
    /\ Succeeded("erase") => \A p \in Covered(job[1]) : flash[p] = Blank
    /\ Succeeded("chip")  => \A p \in Pages : flash[p] = Blank
    /\ Succeeded("read")  =>
         buff = [k \in 1 .. Size(job[1]) |-> flash[job[1].addr + k - 1]]

\* The pages an operation may touch: the sectors that hold its partitions.
Footprint ==
  IF op = "chip" THEN Pages
  ELSE IF op = "read" THEN {}
  ELSE {q \in Pages : \E k \in DOMAIN job : \E p \in Covered(job[k]) : q \in SectorOf(p)}

\* No step of an operation, its failures and stops included, changes a page
\* outside the sectors its partitions lie in, whatever the sector layout.
OutsideUntouched ==
  [][\A p \in Pages \ Footprint : flash'[p] = flash[p]]_vars

\* After a stop request at most one more erase or program call completes.
StopIsPrompt == late <= 1

\* README.md:193-194 "no two entries share a sector (otherwise programming the
\* second one would erase the first)": a partition that chip_write is through
\* with is not touched again while the next ones are written.
PartitionsStay ==
  [][op = "write" =>
       \A k \in 1 .. seg - 1 : \A p \in Covered(job[k]) : flash'[p] = flash[p]]_vars
=============================================================================
