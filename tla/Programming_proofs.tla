-------------------------- MODULE Programming_proofs --------------------------
(***************************************************************************)
(* Proofs about a task on a chip: how it gets hold of the core and lets it  *)
(* go (TargetSetup), and what it does to the flash in between (ChipProgram).*)
(*                                                                         *)
(* ChipProgram, for every flash size, sector layout, set of jobs and        *)
(* algorithm: types, promptness of a stop, the pages an operation may      *)
(* touch, and, when no two partitions lie in one sector, that a verified   *)
(* success, or one without faults, of a partition list is in the flash.    *)
(* TargetSetup, for any number of tasks and connections, every kind of     *)
(* chip and whatever transfers fail.                                       *)
(***************************************************************************)
EXTENDS ChipProgram, TargetSetup, TLAPS

\* A real sector consists of sectors of the smallest size.
WholeSectors == \A p, q \in Pages : q \div Sect = p \div Sect => q \in SectorOf(p)

\* No two partitions of a job that is accepted lie in one real sector.
Apart(j) ==
  \A k, m \in DOMAIN j : k # m =>
    \A p \in Covered(j[k]), q \in Covered(j[m]) : q \notin SectorOf(p)
SeparateJobs == \A j \in Jobs : Accepted(j) => Apart(j)

\* All sectors are as large as the smallest one: then the check made before
\* connecting is enough, see UniformSeparates.
Uniform == \A p, q \in Pages : q \in SectorOf(p) <=> q \div Sect = p \div Sect

-----------------------------------------------------------------------------
(* Arithmetic of sectors.                                                  *)

\* A sector number times the sector size does not exceed the address.
LEMMA DivFloor ==
  ASSUME NEW a \in Int, NEW s \in Nat \ {0}
  PROVE  a \div s \in Int /\ s * (a \div s) <= a /\ a < s * (a \div s) + s
  OBVIOUS

\* Sector numbers grow with the address.
LEMMA DivMono ==
  ASSUME NEW a \in Int, NEW b \in Int, NEW s \in Nat \ {0}, a <= b
  PROVE  a \div s <= b \div s
<1> DEFINE x == a \div s  y == b \div s
<1>1. x \in Int /\ y \in Int /\ s * x <= a /\ b < s * y + s
  BY DivFloor
<1>2. s * x < s * (y + 1)
  BY <1>1
<1>3. x < y + 1
  BY <1>1, <1>2
<1> QED
  BY <1>1, <1>3

\* Every round of the erase loop starts at a page of the partition.
LEMMA RoundInside ==
  ASSUME NEW n \in Nat, NEW k \in Nat, NEW s \in Nat \ {0},
         k < (n + s - 1) \div s
  PROVE  s * k \in Nat /\ s * k < n
<1> DEFINE x == (n + s - 1) \div s
<1>1. x \in Int /\ s * x <= n + s - 1
  BY DivFloor
<1>2. k + 1 <= x
  BY <1>1
<1>3. s * (k + 1) <= s * x
  BY <1>1, <1>2
<1>4. s * k \in Nat /\ s * (k + 1) = s * k + s
  OBVIOUS
<1> QED
  BY <1>1, <1>3, <1>4

\* The same for the erase operation, which rounds down.
LEMMA WholeRoundInside ==
  ASSUME NEW n \in Nat, NEW k \in Nat, NEW s \in Nat \ {0}, k < n \div s
  PROVE  s * k \in Nat /\ s * k < n
<1>1. n \div s <= (n + s - 1) \div s
  BY DivMono
<1>2. (n \div s) \in Int /\ ((n + s - 1) \div s) \in Int
  BY DivFloor
<1>3. k < (n + s - 1) \div s
  BY <1>1, <1>2
<1> QED
  BY <1>3, RoundInside

\* Quotient and remainder.
LEMMA DivMod ==
  ASSUME NEW a \in Int, NEW s \in Nat \ {0}
  PROVE  /\ a \div s \in Int /\ a % s \in Int
         /\ a = s * (a \div s) + (a % s) /\ 0 <= a % s /\ a % s < s
  OBVIOUS

\* A round starts at a sector.
LEMMA RoundAligned ==
  ASSUME NEW a \in Nat, NEW k \in Nat, NEW s \in Nat \ {0}, a % s = 0
  PROVE  (a + s * k) % s = 0
<1> DEFINE x == a \div s  b == a + s * k  e == b \div s
<1>1. x \in Int /\ a = s * x
  OBVIOUS
<1>2. b = s * (x + k) /\ b \in Int
  BY <1>1
<1>3. e \in Int /\ b % s \in Int /\ b = s * e + (b % s) /\ 0 <= b % s /\ b % s < s
  <2> HIDE DEF b
  <2> QED
    BY <1>2, DivMod
<1> HIDE DEF x, b, e
<1>4. s * (x + k) < s * (e + 1) /\ s * e < s * (x + k + 1)
  BY <1>1, <1>2, <1>3
<1>5. x + k = e
  BY <1>1, <1>3, <1>4
<1> QED
  BY <1>2, <1>3, <1>5 DEF b

\* The pages of a sector have its number.
LEMMA SameSector ==
  ASSUME NEW b \in Nat, NEW s \in Nat \ {0}, NEW q \in Int, b % s = 0, b <= q, q < b + s
  PROVE  q \div s = b \div s
<1> DEFINE d == q \div s  e == b \div s
<1>1. d \in Int /\ s * d <= q /\ q < s * d + s
  BY DivFloor
<1>2. e \in Int /\ b = s * e
  OBVIOUS
<1> HIDE DEF d, e
<1>3. s * d < s * (e + 1) /\ s * e < s * (d + 1)
  BY <1>1, <1>2
<1>4. d = e
  BY <1>1, <1>2, <1>3
<1> QED
  BY <1>4 DEF d, e

\* After all rounds nothing of the partition is left.
LEMMA RoundsReach ==
  ASSUME NEW n \in Nat, NEW k \in Nat, NEW s \in Nat \ {0},
         k >= (n + s - 1) \div s \/ (n % s = 0 /\ k >= n \div s)
  PROVE  s * k \in Nat /\ n <= s * k
<1>1. s * k \in Nat
  OBVIOUS
<1>2. CASE k >= (n + s - 1) \div s
  <2> DEFINE x == (n + s - 1) \div s
  <2>1. x \in Int /\ n + s - 1 < s * x + s
    BY DivFloor
  <2>2. s * x <= s * k
    BY <1>2, <2>1
  <2> QED
    BY <1>1, <2>1, <2>2
<1>3. CASE n % s = 0 /\ k >= n \div s
  <2> DEFINE x == n \div s
  <2>1. x \in Int /\ n = s * x
    BY <1>3
  <2>2. s * x <= s * k
    BY <1>3, <2>1
  <2> QED
    BY <1>1, <2>1, <2>2
<1> QED
  BY <1>2, <1>3

-----------------------------------------------------------------------------
(* The inductive invariant.                                                *)

\* The partitions in hand passed the checks made before connecting.
JobInv ==
  /\ op # "none" => job \in Jobs /\ Accepted(job) /\ seg \in 1 .. Len(job)
  /\ at # "idle" => op # "none"
  /\ op \notin {"none", "write"} => Region(job) /\ seg = 1
  /\ op = "none" => outcome = "none"

\* Where each operation may be, and that a call is about a round of its loop.
RoundInv ==
  /\ at # "idle" =>
       \/ op = "write" /\ func \in 1 .. 3
       \/ op = "erase" /\ func = 1
       \/ op = "chip" /\ (at = "report" <=> func = 0) /\ func \in {0, 1}
       \/ op = "read" /\ func = 0 /\ at \in {"report", "call", "final"}
  /\ at = "call" => i < Rounds
  /\ error => at = "uninit" /\ op = "write" /\ func = 3

\* No call is begun with a stop pending and counted.
StopInv ==
  /\ late \in {0, 1}
  /\ late # 0 => abort
  /\ at = "call" => late = 0
  /\ op = "chip" /\ at \in {"init", "report"} => late = 0

\* What is known to be in the flash of a write that verifies by reading back:
\* the partitions chip_write is through with, and the pages compared so far.
VerInv ==
  op = "write" /\ verify = "readback" =>
    /\ at # "idle" => \A k \in 1 .. seg - 1 : Holds(job[k])
    /\ at \in {"report", "call"} /\ func = 3 =>
         \A k \in 1 .. i : flash[Part.addr + k - 1] = Part.data[k]
    /\ at = "uninit" /\ func = 3 /\ ~error => Holds(Part)
    /\ at = "final" => Holds(Part)
    /\ at = "idle" /\ outcome = "ok" => \A k \in 1 .. Len(job) : Holds(job[k])

IInv == TypeOK /\ JobInv /\ RoundInv /\ StopInv

-----------------------------------------------------------------------------
(* The page of a round.                                                    *)

\* The partition in hand is one of the job's and lies in the flash.
LEMMA PartFacts ==
  ASSUME DataOK, JobInv, op # "none"
  PROVE  /\ job \in Seq(Partition) /\ seg \in DOMAIN job /\ Part \in Partition
         /\ Part.addr \in Nat /\ Part.data \in Seq(Values \cup {Blank})
         /\ Size(Part) \in Nat /\ Part.addr + Size(Part) <= NPages
<1>1. seg \in 1 .. Len(job) /\ Accepted(job) /\ job \in Seq(Partition)
  BY DEF DataOK, JobInv
<1>2. seg \in DOMAIN job /\ Part \in Partition
  BY <1>1 DEF Part
<1>3. Part.addr \in Nat /\ Part.data \in Seq(Values \cup {Blank})
  BY <1>2 DEF Partition
<1>4. Size(Part) \in Nat
  BY <1>3 DEF Size
<1>5. Part.addr + Size(Part) <= NPages
  BY <1>1 DEF Accepted, Part
<1> QED
  BY <1>1, <1>2, <1>3, <1>4, <1>5

\* The page a routine is called for belongs to the partition, and the data
\* read for it is the partition's.
LEMMA PageInside ==
  ASSUME DataOK, JobInv, RoundInv, at = "call", op # "chip"
  PROVE  /\ Page \in Covered(Part) /\ Page \in Pages
         /\ func # 1 => Data \in Values \cup {Blank}
<1>1. /\ Part.addr \in Nat /\ Part.data \in Seq(Values \cup {Blank})
      /\ Size(Part) \in Nat /\ Part.addr + Size(Part) <= NPages /\ op # "none"
  BY PartFacts DEF JobInv
<1>2. i \in Nat /\ i < Rounds /\ Sect \in Nat \ {0} /\ NPages \in Nat
  BY LayoutAssumption DEF DataOK, RoundInv
<1>3. CASE func = 1
  <2>1. op \in {"write", "erase"}
    BY <1>3, <1>1 DEF RoundInv
  <2>2. Sect * i \in Nat /\ Sect * i < Size(Part)
    <3>1. CASE op = "write"
      <4>1. i < (Size(Part) + Sect - 1) \div Sect
        BY <3>1, <1>3, <1>2 DEF Rounds, SectCount
      <4> QED
        BY <4>1, <1>1, <1>2, RoundInside
    <3>2. CASE op = "erase"
      <4>1. i < Size(Part) \div Sect
        BY <3>2, <1>3, <1>2 DEF Rounds
      <4> QED
        BY <4>1, <1>1, <1>2, WholeRoundInside
    <3> QED
      BY <2>1, <3>1, <3>2
  <2> QED
    BY <2>2, <1>1, <1>2, <1>3 DEF Page, Covered, Pages
<1>4. CASE func # 1
  <2>1. i < Size(Part)
    BY <1>2, <1>4 DEF Rounds
  <2>2. Page \in Covered(Part) /\ Page \in Pages
    BY <2>1, <1>1, <1>2, <1>4 DEF Page, Covered, Pages
  <2>3. i + 1 \in 1 .. Len(Part.data)
    BY <2>1, <1>1, <1>2 DEF Size
  <2> QED
    BY <2>2, <2>3, <1>1 DEF Data
<1> QED
  BY <1>3, <1>4

\* What a call may do to the flash: only the erased sectors or the programmed
\* page change, and contents stay contents.
LEMMA CallEffect ==
  ASSUME DataOK, JobInv, RoundInv, at = "call",
         NEW f \in {Done, flash} \cup Undone
  PROVE  /\ f \in [Pages -> Contents]
         /\ op # "chip" => \A p \in Pages \ SectorOf(Page) : f[p] = flash[p]
         /\ func \notin {1, 2} => f = flash
<1> USE DEF DataOK, Contents
<1>1. op # "chip" => Page \in Pages /\ (func # 1 => Data \in Contents)
  BY PageInside
<1>2. Page \in Pages => Page \in SectorOf(Page)
  BY DEF SectorOf
<1>3. CASE func = 1
  <2>1. f \in {flash, FillIn(Erasing, Blank), FillIn(Erasing, Garbage)}
    BY <1>3 DEF Done, Undone
  <2>2. op # "chip" => Erasing = SectorOf(Page)
    BY DEF Erasing
  <2> QED
    BY <1>3, <2>1, <2>2 DEF FillIn
<1>4. CASE func = 2
  <2>1. f \in {flash, FillIn({Page}, Burnt(flash[Page], Data)), FillIn({Page}, Garbage)}
    BY <1>4 DEF Done, Undone
  <2>2. op # "chip"
    BY <1>4 DEF RoundInv
  <2>3. Burnt(flash[Page], Data) \in Contents
    BY <1>1, <1>4, <2>2 DEF Burnt
  <2> QED
    BY <1>1, <1>2, <1>4, <2>1, <2>2, <2>3 DEF FillIn
<1>5. CASE func \notin {1, 2}
  <2>1. f = flash
    BY <1>5 DEF Done, Undone
  <2> QED
    BY <2>1
<1> QED
  BY <1>3, <1>4, <1>5

LEMMA InitIInv == Init => IInv /\ VerInv
<1> SUFFICES ASSUME Init PROVE IInv /\ VerInv
  OBVIOUS
<1>1. ControlOK
  BY DEF Init, ControlOK, VerifyWays
<1>2. DataOK
  BY DEF Init, DataOK, Contents
<1>3. JobInv /\ RoundInv /\ StopInv /\ VerInv
  BY DEF Init, JobInv, RoundInv, StopInv, VerInv
<1> QED
  BY <1>1, <1>2, <1>3 DEF IInv, TypeOK

-----------------------------------------------------------------------------
(* Every action keeps the invariant.                                       *)

\* The actions by name, for the case distinctions below.
LEMMA Actions ==
  ASSUME [Next]_vars
  PROVE  \/ \E o \in {"write", "erase", "chip", "read"}, j \in Jobs, v \in VerifyWays :
              Start(o, j, v)
         \/ InitCall \/ ReportAborts \/ ReportChip \/ ReportRound \/ LoopEnds
         \/ CallChanges \/ CallVerifies \/ CallReads \/ CallStopped \/ CallRaises
         \/ UnInitCall \/ UnInitError \/ NextPartition \/ Finish \/ PressStop
         \/ UNCHANGED vars
  BY DEF Next, Worker, User

\* The control variables keep their types.
LEMMA StepControlOK ==
  ASSUME ControlOK, [Next]_vars
  PROVE  ControlOK'
<1> USE DEF ControlOK
<1>1. CASE \E o \in {"write", "erase", "chip", "read"}, j \in Jobs, v \in VerifyWays :
             Start(o, j, v)
  BY <1>1 DEF Start
<1>2. CASE InitCall \/ ReportChip \/ LoopEnds \/ NextPartition \/ UnInitCall
  BY <1>2 DEF InitCall, ReportChip, LoopEnds, NextPartition, UnInitCall
<1>3. CASE ReportAborts \/ CallStopped \/ CallRaises \/ UnInitError \/ Finish
  BY <1>3 DEF ReportAborts, CallStopped, CallRaises, UnInitError, Finish, End
<1>4. CASE ReportRound
  BY <1>4 DEF ReportRound
<1>5. CASE CallChanges
  <2>1. faulty' \in BOOLEAN
    BY <1>5 DEF CallChanges
  <2> QED
    BY <1>5, <2>1 DEF CallChanges, NextRound
<1>6. CASE CallVerifies
  BY <1>6 DEF CallVerifies, ReadBack, NextRound
<1>7. CASE CallReads
  BY <1>7 DEF CallReads, NextRound
<1>8. CASE PressStop
  BY <1>8 DEF PressStop
<1>9. CASE UNCHANGED vars
  BY <1>9 DEF vars
<1> QED
  BY <1>1, <1>2, <1>3, <1>4, <1>5, <1>6, <1>7, <1>8, <1>9, Actions

\* The flash, the partitions and the numbers keep their types.
LEMMA StepDataOK ==
  ASSUME DataOK, ControlOK, JobInv, RoundInv, [Next]_vars
  PROVE  DataOK'
<1> USE DEF DataOK
<1>1. CASE \E o \in {"write", "erase", "chip", "read"}, j \in Jobs, v \in VerifyWays :
             Start(o, j, v)
  BY <1>1, JobsAssumption DEF Start
<1>2. CASE InitCall \/ ReportChip \/ LoopEnds \/ NextPartition
  BY <1>2 DEF InitCall, ReportChip, LoopEnds, NextPartition
<1>3. CASE ReportAborts \/ UnInitError \/ Finish
  BY <1>3 DEF ReportAborts, UnInitError, Finish, End
<1>4. CASE CallStopped \/ CallRaises
  <2>1. flash' \in [Pages -> Contents]
    BY <1>4, CallEffect DEF CallStopped, CallRaises
  <2> QED
    BY <1>4, <2>1 DEF CallStopped, CallRaises, End
<1>5. CASE UnInitCall
  <2>1. func' \in 0 .. 3
    BY <1>5 DEF UnInitCall, NextFunc
  <2> QED
    BY <1>5, <2>1 DEF UnInitCall
<1>6. CASE ReportRound
  BY <1>6 DEF ReportRound
<1>7. CASE CallChanges
  <2>1. flash' \in [Pages -> Contents]
    BY <1>7, CallEffect DEF CallChanges
  <2>2. i' \in Nat /\ late' \in Nat
    BY <1>7 DEF CallChanges, NextRound
  <2> QED
    BY <1>7, <2>1, <2>2 DEF CallChanges
<1>8. CASE CallVerifies
  BY <1>8 DEF CallVerifies, ReadBack, NextRound
<1>9. CASE CallReads
  <2>1. flash[Page] \in Contents /\ Garbage \in Contents
    BY <1>9, PageInside DEF CallReads, Contents
  <2>2. PICK c \in Contents : buff' = Append(buff, c)
    BY <1>9, <2>1 DEF CallReads, Extended
  <2>3. buff' \in Seq(Contents)
    BY <2>2
  <2>4. i' \in Nat
    BY <1>9 DEF CallReads, NextRound
  <2>5. UNCHANGED <<flash, job, seg, func, late>>
    BY <1>9 DEF CallReads
  <2> QED
    BY <2>3, <2>4, <2>5
<1>10. CASE PressStop
  BY <1>10 DEF PressStop
<1>11. CASE UNCHANGED vars
  BY <1>11 DEF vars
<1> QED
  BY <1>1, <1>2, <1>3, <1>4, <1>5, <1>6, <1>7, <1>8, <1>9, <1>10, <1>11, Actions

\* The partitions in hand stay the ones that were checked.
LEMMA StepJobInv ==
  ASSUME DataOK, JobInv, [Next]_vars
  PROVE  JobInv'
<1> USE DEF JobInv
<1>1. CASE \E o \in {"write", "erase", "chip", "read"}, j \in Jobs, v \in VerifyWays :
             Start(o, j, v)
  <2>1. PICK o \in {"write", "erase", "chip", "read"}, j \in Jobs, v \in VerifyWays :
               Start(o, j, v)
    BY <1>1
  <2>2. j \in Seq(Partition) /\ j # <<>>
    BY <2>1, JobsAssumption DEF Start
  <2>3. Len(j) \in Nat /\ Len(j) >= 1
    BY <2>2
  <2>4. Accepted(j) /\ (o # "write" => Region(j))
    BY <2>1 DEF Start, Region
  <2>5. job' = j /\ op' = o /\ seg' = 1
    BY <2>1 DEF Start
  <2>6. job' \in Jobs /\ Accepted(job') /\ (op' # "write" => Region(job'))
    BY <2>4, <2>5
  <2>7. op' # "none" /\ seg' \in 1 .. Len(job')
    BY <2>3, <2>5
  <2> QED
    BY <2>5, <2>6, <2>7
<1>2. CASE InitCall \/ ReportChip \/ LoopEnds \/ UnInitCall \/ ReportRound
           \/ CallChanges \/ CallVerifies \/ CallReads \/ PressStop
  <2>1. UNCHANGED <<op, job, seg, outcome>> /\ at # "idle"
    BY <1>2 DEF InitCall, ReportChip, LoopEnds, UnInitCall, ReportRound,
                CallChanges, CallVerifies, CallReads, PressStop
  <2> QED
    BY <2>1
<1>3. CASE ReportAborts \/ UnInitError \/ Finish \/ CallStopped \/ CallRaises
  <2>1. UNCHANGED <<op, job>> /\ seg' = 1 /\ at' = "idle" /\ at # "idle"
    BY <1>3 DEF ReportAborts, UnInitError, Finish, CallStopped, CallRaises, End
  <2>2. Len(job) \in Nat
    BY DEF DataOK
  <2> QED
    BY <2>1, <2>2
<1>4. CASE NextPartition
  <2>1. Len(job) \in Nat
    BY DEF DataOK
  <2> QED
    BY <1>4, <2>1 DEF NextPartition
<1>5. CASE UNCHANGED vars
  BY <1>5 DEF vars
<1> QED
  BY <1>1, <1>2, <1>3, <1>4, <1>5, Actions

\* The operations follow their order, and calls are made in range.
LEMMA StepRoundInv ==
  ASSUME DataOK, ControlOK, JobInv, RoundInv, [Next]_vars
  PROVE  RoundInv'
<1> USE DEF RoundInv
<1>1. CASE \E o \in {"write", "erase", "chip", "read"}, j \in Jobs, v \in VerifyWays :
             Start(o, j, v)
  BY <1>1 DEF Start
<1>2. CASE InitCall
  <2>1. CASE op = "chip"
    <3>1. i' < Rounds'
      BY <1>2, <2>1 DEF InitCall, Rounds
    <3> QED
      BY <1>2, <2>1, <3>1 DEF InitCall
  <2>2. CASE op # "chip"
    BY <1>2, <2>2 DEF InitCall
  <2> QED
    BY <2>1, <2>2
<1>3. CASE ReportAborts \/ UnInitError \/ Finish \/ CallStopped \/ CallRaises
  BY <1>3 DEF ReportAborts, UnInitError, Finish, CallStopped, CallRaises, End
<1>4. CASE ReportChip
  BY <1>4 DEF ReportChip
<1>5. CASE ReportRound
  <2>1. UNCHANGED <<op, func, error, job, seg>> /\ at = "report" /\ at' \in {"report", "call"}
    BY <1>5 DEF ReportRound
  <2>2. Rounds' = Rounds
    BY <2>1 DEF Rounds, SectCount, Size, Part
  <2>3. at' = "call" => i' < Rounds'
    BY <1>5, <2>2 DEF ReportRound
  <2>4. op # "chip"
    BY <1>5 DEF ReportRound
  <2> QED
    BY <2>1, <2>3, <2>4
<1>6. CASE LoopEnds
  BY <1>6 DEF LoopEnds
<1>7. CASE CallChanges
  BY <1>7 DEF CallChanges, NextRound
<1>8. CASE CallVerifies
  BY <1>8 DEF CallVerifies, ReadBack, NextRound
<1>9. CASE CallReads
  BY <1>9 DEF CallReads, NextRound
<1>10. CASE UnInitCall
  BY <1>10 DEF UnInitCall, NextFunc
<1>11. CASE NextPartition
  BY <1>11 DEF NextPartition
<1>12. CASE PressStop
  <2>1. UNCHANGED <<op, func, error, job, seg, at, i>>
    BY <1>12 DEF PressStop
  <2>2. Rounds' = Rounds
    BY <2>1 DEF Rounds, SectCount, Size, Part
  <2> QED
    BY <2>1, <2>2
<1>13. CASE UNCHANGED vars
  <2>1. UNCHANGED <<op, func, error, job, seg, at, i>>
    BY <1>13 DEF vars
  <2>2. Rounds' = Rounds
    BY <2>1 DEF Rounds, SectCount, Size, Part
  <2> QED
    BY <2>1, <2>2
<1> QED
  BY <1>1, <1>2, <1>3, <1>4, <1>5, <1>6, <1>7, <1>8, <1>9, <1>10,
     <1>11, <1>12, <1>13, Actions

\* At most one call is counted after a stop.
LEMMA StepStopInv ==
  ASSUME RoundInv, JobInv, StopInv, [Next]_vars
  PROVE  StopInv'
<1> USE DEF StopInv
<1>1. CASE \E o \in {"write", "erase", "chip", "read"}, j \in Jobs, v \in VerifyWays :
             Start(o, j, v)
  BY <1>1 DEF Start
<1>2. CASE InitCall \/ ReportChip \/ LoopEnds \/ NextPartition
  BY <1>2 DEF InitCall, ReportChip, LoopEnds, NextPartition, RoundInv
<1>3. CASE ReportAborts \/ UnInitError \/ Finish \/ CallStopped \/ CallRaises
  BY <1>3 DEF ReportAborts, UnInitError, Finish, CallStopped, CallRaises, End
<1>4. CASE UnInitCall
  BY <1>4 DEF UnInitCall, NextFunc
<1>5. CASE ReportRound
  BY <1>5 DEF ReportRound
<1>6. CASE CallChanges \/ CallVerifies \/ CallReads
  BY <1>6 DEF CallChanges, CallVerifies, CallReads, ReadBack, NextRound
<1>7. CASE PressStop
  BY <1>7 DEF PressStop
<1>8. CASE UNCHANGED vars
  BY <1>8 DEF vars
<1> QED
  BY <1>1, <1>2, <1>3, <1>4, <1>5, <1>6, <1>7, <1>8, Actions

LEMMA StepIInv ==
  ASSUME IInv, [Next]_vars
  PROVE  IInv'
  BY StepControlOK, StepDataOK, StepJobInv, StepRoundInv, StepStopInv DEF IInv, TypeOK

LEMMA IInvHolds == Spec => []IInv
<1>1. Init => IInv
  BY InitIInv
<1>2. IInv /\ [Next]_vars => IInv'
  BY StepIInv
<1> QED
  BY <1>1, <1>2, PTL DEF Spec

\* Every variable of an operation keeps its type: func only takes the values
\* Init and UnInit know, and the buffer only ever holds pages.
THEOREM TypeCorrect == Spec => []TypeOK
<1>1. IInv => TypeOK
  BY DEF IInv
<1> QED
  BY <1>1, IInvHolds, PTL

\* After a stop request at most one more erase or program call completes.
THEOREM StopPrompt == Spec => []StopIsPrompt
<1>1. IInv => StopIsPrompt
  BY DEF IInv, StopInv, StopIsPrompt
<1> QED
  BY <1>1, IInvHolds, PTL

-----------------------------------------------------------------------------
(* What the steps do to the flash.                                         *)

\* Only a call changes the flash, and only in the sectors of its page.
LEMMA FlashChanges ==
  ASSUME IInv, [Next]_vars
  PROVE  \/ UNCHANGED flash
         \/ /\ at = "call" /\ flash' \in {Done, flash} \cup Undone
            /\ CallChanges \/ CallStopped \/ CallRaises
<1>1. CASE \E o \in {"write", "erase", "chip", "read"}, j \in Jobs, v \in VerifyWays :
             Start(o, j, v)
  BY <1>1 DEF Start
<1>2. CASE InitCall \/ ReportAborts \/ ReportChip \/ ReportRound \/ LoopEnds
           \/ CallVerifies \/ CallReads \/ UnInitCall \/ UnInitError
           \/ NextPartition \/ Finish \/ PressStop
  BY <1>2 DEF InitCall, ReportAborts, ReportChip, ReportRound, LoopEnds, CallVerifies,
              CallReads, UnInitCall, UnInitError, NextPartition, Finish, PressStop
<1>3. CASE CallChanges
  BY <1>3 DEF CallChanges
<1>4. CASE CallStopped
  BY <1>4 DEF CallStopped
<1>5. CASE CallRaises
  BY <1>5 DEF CallRaises
<1>6. CASE UNCHANGED vars
  BY <1>6 DEF vars
<1> QED
  BY <1>1, <1>2, <1>3, <1>4, <1>5, <1>6, Actions

\* The sectors of the page of a round belong to the operation's footprint.
LEMMA PageInFootprint ==
  ASSUME IInv, at = "call", op \in {"write", "erase"}
  PROVE  SectorOf(Page) \subseteq Footprint
<1>1. Page \in Covered(Part) /\ seg \in DOMAIN job
  BY PageInside, PartFacts DEF IInv, TypeOK, JobInv
<1>2. SectorOf(Page) \subseteq Pages
  BY DEF SectorOf
<1> QED
  BY <1>1, <1>2 DEF Footprint, Part

LEMMA StepOutside ==
  ASSUME IInv, [Next]_vars
  PROVE  \A p \in Pages \ Footprint : flash'[p] = flash[p]
<1>1. CASE UNCHANGED flash
  BY <1>1
<1>2. CASE at = "call" /\ flash' \in {Done, flash} \cup Undone
  <2>1. op # "chip" => \A p \in Pages \ SectorOf(Page) : flash'[p] = flash[p]
    BY <1>2, CallEffect DEF IInv, TypeOK
  <2>2. func \notin {1, 2} => flash' = flash
    BY <1>2, CallEffect DEF IInv, TypeOK
  <2>3. CASE op \in {"write", "erase"}
    BY <2>1, <2>3, <1>2, PageInFootprint
  <2>4. CASE op = "chip"
    BY <2>4 DEF Footprint
  <2>5. CASE op = "read"
    BY <2>2, <2>5, <1>2 DEF IInv, RoundInv
  <2> QED
    BY <1>2, <2>3, <2>4, <2>5 DEF IInv, RoundInv
<1> QED
  BY <1>1, <1>2, FlashChanges

\* No step, failures and stops included, changes a page outside the sectors
\* the partitions lie in: chip_write's rounded sector count never reaches into
\* a sector the file has no byte in, whatever the sectors look like.
THEOREM OutsideSafe == Spec => OutsideUntouched
<1>1. IInv /\ [Next]_vars => [\A p \in Pages \ Footprint : flash'[p] = flash[p]]_vars
  BY StepOutside
<1> QED
  BY <1>1, IInvHolds, PTL DEF Spec, OutsideUntouched

-----------------------------------------------------------------------------
(* Partitions that lie in different sectors.                               *)

\* The sector of a page lies between those of the first and the last page.
LEMMA SectorBetween ==
  ASSUME NEW r, r.addr \in Nat, Size(r) \in Nat, NEW q \in Int,
         r.addr <= q, q <= r.addr + Size(r) - 1
  PROVE  /\ First(r) \in Int /\ Last(r) \in Int /\ (q \div Sect) \in Int
         /\ First(r) <= q \div Sect /\ q \div Sect <= Last(r)
<1> DEFINE a == r.addr
           b == r.addr + Size(r) - 1
<1>1. a \in Int /\ b \in Int /\ Sect \in Nat \ {0}
  BY LayoutAssumption
<1>2. a \div Sect <= q \div Sect
  <2> HIDE DEF a, b
  <2> QED
    BY <1>1, DivMono DEF a
<1>3. q \div Sect <= b \div Sect
  <2>1. q <= b
    OBVIOUS
  <2> HIDE DEF a, b
  <2> QED
    BY <1>1, <2>1, DivMono
<1>4. (a \div Sect) \in Int /\ (b \div Sect) \in Int /\ (q \div Sect) \in Int
  <2> HIDE DEF a, b
  <2> QED
    BY <1>1, DivFloor
<1> QED
  BY <1>2, <1>3, <1>4 DEF First, Last

\* On a chip with sectors of one size, the check made before connecting keeps the
\* partitions apart.
LEMMA UniformSeparates ==
  ASSUME Uniform
  PROVE  WholeSectors /\ SeparateJobs
<1>1. WholeSectors
  BY DEF Uniform, WholeSectors
<1>2. ASSUME NEW j \in Jobs, Accepted(j), NEW k \in DOMAIN j, NEW m \in DOMAIN j, m < k,
             NEW p \in Covered(j[k]), NEW q \in Covered(j[m])
      PROVE  q \notin SectorOf(p) /\ p \notin SectorOf(q)
  <2> DEFINE r == j[k]  t == j[m]
  <2>1. j \in Seq(Partition) /\ k \in 1 .. Len(j) /\ m \in 1 .. k - 1
    BY <1>2, JobsAssumption
  <2>2. r \in Partition /\ t \in Partition
    BY <2>1
  <2>3. r.addr \in Nat /\ Size(r) \in Nat /\ t.addr \in Nat /\ Size(t) \in Nat
    BY <2>2 DEF Partition, Size
  <2>4. ~Overlap(r, t) /\ r.addr + Size(r) <= NPages /\ t.addr + Size(t) <= NPages
    BY <1>2, <2>1 DEF Accepted
  <2>5. Sect \in Nat \ {0} /\ NPages \in Nat
    BY LayoutAssumption
  <2>6. p \in Pages /\ r.addr <= p /\ p <= r.addr + Size(r) - 1
    BY <2>3, <2>4, <2>5 DEF Covered, Pages
  <2>7. q \in Pages /\ t.addr <= q /\ q <= t.addr + Size(t) - 1
    BY <2>3, <2>4, <2>5 DEF Covered, Pages
  <2> HIDE DEF r, t
  <2>8. /\ First(r) \in Int /\ Last(r) \in Int /\ (p \div Sect) \in Int
        /\ First(r) <= p \div Sect /\ p \div Sect <= Last(r)
    BY <2>3, <2>6, SectorBetween DEF Pages
  <2>9. /\ First(t) \in Int /\ Last(t) \in Int /\ (q \div Sect) \in Int
        /\ First(t) <= q \div Sect /\ q \div Sect <= Last(t)
    BY <2>3, <2>7, SectorBetween DEF Pages
  <2>10. q \div Sect # p \div Sect
    BY <2>4, <2>8, <2>9 DEF Overlap
  <2> QED
    BY <2>6, <2>7, <2>10 DEF Uniform
<1>3. ASSUME NEW j \in Jobs, Accepted(j) PROVE Apart(j)
  <2> SUFFICES ASSUME NEW k \in DOMAIN j, NEW m \in DOMAIN j, k # m,
                      NEW p \in Covered(j[k]), NEW q \in Covered(j[m])
               PROVE  q \notin SectorOf(p)
    BY DEF Apart
  <2>1. k \in Int /\ m \in Int
    BY JobsAssumption
  <2>2. CASE m < k
    BY <1>2, <1>3, <2>2
  <2>3. CASE k < m
    BY <1>2, <1>3, <2>3
  <2> QED
    BY <2>1, <2>2, <2>3
<1> QED
  BY <1>1, <1>3 DEF SeparateJobs

\* A page in the sector chip_write works on is in no earlier partition.
LEMMA EarlierSafe ==
  ASSUME SeparateJobs, IInv, at = "call", op = "write",
         NEW k \in 1 .. seg - 1, NEW q \in Covered(job[k])
  PROVE  q \in Pages \ SectorOf(Page)
<1>1. /\ job \in Seq(Partition) /\ seg \in 1 .. Len(job) /\ job \in Jobs /\ Accepted(job)
      /\ k \in 1 .. Len(job)
  BY DEF IInv, TypeOK, DataOK, JobInv
<1>2. Page \in Covered(Part)
  BY PageInside DEF IInv, TypeOK
<1>3. job[k] \in Partition /\ job[k].addr + Size(job[k]) <= NPages
  BY <1>1 DEF Accepted
<1>4. job[k].addr \in Nat /\ Size(job[k]) \in Nat /\ NPages \in Nat
  BY <1>3, LayoutAssumption DEF Partition, Size
<1>5. q \in Pages
  BY <1>3, <1>4 DEF Covered, Pages
<1>6. Apart(job) /\ k \in DOMAIN job /\ seg \in DOMAIN job /\ k # seg
  BY <1>1 DEF SeparateJobs
<1>7. q \notin SectorOf(Page)
  BY <1>2, <1>6 DEF Apart, Part
<1> QED
  BY <1>5, <1>7

\* No step of a write touches a partition it is through with.
LEMMA StepEarlier ==
  ASSUME SeparateJobs, IInv, [Next]_vars, op = "write"
  PROVE  \A k \in 1 .. seg - 1 : \A p \in Covered(job[k]) : flash'[p] = flash[p]
<1>1. CASE UNCHANGED flash
  BY <1>1
<1>2. CASE at = "call" /\ flash' \in {Done, flash} \cup Undone
  <2>1. \A p \in Pages \ SectorOf(Page) : flash'[p] = flash[p]
    BY <1>2, CallEffect DEF IInv, TypeOK
  <2> QED
    BY <2>1, <1>2, EarlierSafe
<1> QED
  BY <1>1, <1>2, FlashChanges

\* When no two partitions lie in one sector, programming one of them never touches
\* the ones written before it.
THEOREM PartitionsSafe ==
  ASSUME SeparateJobs
  PROVE  Spec => PartitionsStay
<1>1. IInv /\ [Next]_vars =>
        [op = "write" =>
           \A k \in 1 .. seg - 1 : \A p \in Covered(job[k]) : flash'[p] = flash[p]]_vars
  BY StepEarlier
<1> QED
  BY <1>1, IInvHolds, PTL DEF Spec, PartitionsStay

\* A step that leaves an earlier partition's pages alone leaves it written.
LEMMA HoldsStays ==
  ASSUME IInv, NEW k \in 1 .. Len(job), Holds(job[k]), UNCHANGED job,
         \A p \in Covered(job[k]) : flash'[p] = flash[p]
  PROVE  Holds(job[k])'
<1>1. job[k] \in Partition
  BY DEF IInv, TypeOK, DataOK
<1>2. job[k].addr \in Nat /\ Size(job[k]) \in Nat
  BY <1>1 DEF Partition, Size
<1>3. \A n \in 1 .. Size(job[k]) : job[k].addr + n - 1 \in Covered(job[k])
  BY <1>2 DEF Covered
<1>4. Size(job'[k]) = Size(job[k])
  BY DEF Size
<1> QED
  BY <1>3, <1>4 DEF Holds

\* Every action keeps what is known of the flash.
LEMMA StepVerInv ==
  ASSUME SeparateJobs, IInv, VerInv, [Next]_vars
  PROVE  VerInv'
<1> SUFFICES ASSUME op' = "write", verify' = "readback" PROVE VerInv'
  BY DEF VerInv
<1> USE DEF VerInv
<1>0. Len(job) \in Nat /\ seg \in Nat /\ i \in Nat
  BY DEF IInv, TypeOK, DataOK
<1>1. CASE \E o \in {"write", "erase", "chip", "read"}, j \in Jobs, v \in VerifyWays :
             Start(o, j, v)
  BY <1>1 DEF Start
<1>2. CASE CallStopped \/ CallRaises \/ ReportAborts \/ UnInitError
  BY <1>2 DEF CallStopped, CallRaises, ReportAborts, UnInitError, End
<1>3. CASE InitCall
  BY <1>3, <1>0 DEF InitCall, Holds, Size, Part, IInv, RoundInv
<1>4. CASE ReportChip \/ CallReads
  <2>1. op # "write"
    BY <1>4 DEF ReportChip, CallReads
  <2> QED
    BY <1>4, <2>1 DEF ReportChip, CallReads
<1>5. CASE ReportRound
  <2>1. UNCHANGED <<flash, op, job, verify, seg, func, error, outcome>>
    BY <1>5 DEF ReportRound
  <2>2. at = "report" /\ at' \in {"report", "call"} /\ (func = 3 => i' = i)
    BY <1>5 DEF ReportRound, Skip
  <2> QED
    BY <2>1, <2>2 DEF Holds, Size, Part
<1>6. CASE LoopEnds
  <2>1. UNCHANGED <<flash, op, job, verify, seg, func, i, error, outcome>>
    BY <1>6 DEF LoopEnds
  <2>2. at = "report" /\ at' = "uninit" /\ i >= Rounds
    BY <1>6, <2>1 DEF LoopEnds
  <2>3. ASSUME func = 3 PROVE Holds(Part)
    <3>1. Rounds = Size(Part)
      BY <2>1, <2>3 DEF Rounds
    <3>2. Size(Part) \in Nat
      BY <2>1, PartFacts DEF IInv, TypeOK
    <3>3. \A k \in 1 .. i : flash[Part.addr + k - 1] = Part.data[k]
      BY <2>1, <2>2, <2>3
    <3> QED
      BY <3>1, <3>2, <3>3, <2>2, <1>0 DEF Holds
  <2> QED
    BY <2>1, <2>2, <2>3 DEF Holds, Size, Part
<1>7. CASE CallChanges
  <2>1. UNCHANGED <<op, job, verify, seg, func, error, outcome>> /\ at = "call"
    BY <1>7 DEF CallChanges
  <2>2. func \in {1, 2} /\ at' = "report"
    BY <1>7, <2>1 DEF CallChanges, NextRound
  <2>3. \A k \in 1 .. seg - 1 : Holds(job[k])
    BY <2>1
  <2>4. ASSUME NEW k \in 1 .. seg - 1 PROVE Holds(job[k])'
    <3>1. k \in 1 .. Len(job)
      BY <1>0, <2>1 DEF IInv, JobInv
    <3>2. \A p \in Covered(job[k]) : flash'[p] = flash[p]
      BY StepEarlier, <2>1, <2>4
    <3> QED
      BY <2>1, <2>3, <3>1, <3>2, HoldsStays
  <2> QED
    BY <2>1, <2>2, <2>4
<1>8. CASE CallVerifies
  <2>1. UNCHANGED <<flash, op, job, verify, seg, func, outcome>> /\ at = "call" /\ func = 3
    BY <1>8 DEF CallVerifies
  <2>2. CASE flash[Page] = Data
    <3>1. i' = i + 1 /\ at' = "report"
      BY <1>8, <2>1, <2>2 DEF CallVerifies, ReadBack, NextRound
    <3>2. flash[Part.addr + i] = Part.data[i + 1]
      BY <2>1, <2>2 DEF Page, Data
    <3>3. Part.addr \in Nat
      BY <2>1, PartFacts DEF IInv, TypeOK
    <3>4. ASSUME NEW k \in 1 .. i + 1 PROVE flash[Part.addr + k - 1] = Part.data[k]
      <4>1. CASE k = i + 1
        <5>1. Part.addr + k - 1 = Part.addr + i
          BY <4>1, <3>3, <1>0
        <5> QED
          BY <3>2, <4>1, <5>1
      <4>2. CASE k # i + 1
        BY <4>2, <2>1, <1>0
      <4> QED
        BY <4>1, <4>2
    <3> QED
      BY <2>1, <3>1, <3>4 DEF Holds, Size, Part
  <2>3. CASE flash[Page] # Data
    <3>1. error' /\ at' = "uninit"
      BY <1>8, <2>3 DEF CallVerifies, ReadBack
    <3> QED
      BY <2>1, <3>1 DEF Holds, Size, Part
  <2> QED
    BY <2>2, <2>3
<1>9. CASE UnInitCall
  <2>1. UNCHANGED <<flash, op, job, verify, seg, error, outcome>> /\ at = "uninit" /\ ~error
    BY <1>9 DEF UnInitCall
  <2>2. at' = "final" => func = 3
    BY <1>9, <2>1 DEF UnInitCall, NextFunc, IInv, RoundInv
  <2>3. at' \in {"init", "final"}
    BY <1>9 DEF UnInitCall
  <2> QED
    BY <2>1, <2>2, <2>3 DEF Holds, Size, Part
<1>10. CASE NextPartition
  <2>1. UNCHANGED <<flash, op, job, verify, error, outcome>> /\ at = "final"
    BY <1>10 DEF NextPartition
  <2>2. seg' = seg + 1 /\ at' = "init"
    BY <1>10 DEF NextPartition
  <2>3. \A k \in 1 .. seg : Holds(job[k])
    BY <2>1, <1>0 DEF Part
  <2> QED
    BY <2>1, <2>2, <2>3, <1>0 DEF Holds, Size
<1>11. CASE Finish
  <2>1. UNCHANGED <<flash, op, job, verify>> /\ at = "final" /\ at' = "idle"
    BY <1>11 DEF Finish, End
  <2>2. seg = Len(job)
    BY <1>11, <2>1 DEF Finish
  <2>3. \A k \in 1 .. Len(job) : Holds(job[k])
    BY <2>1, <2>2, <1>0 DEF Part
  <2> QED
    BY <2>1, <2>3 DEF Holds, Size
<1>12. CASE PressStop
  BY <1>12 DEF PressStop, Holds, Size, Part
<1>13. CASE UNCHANGED vars
  BY <1>13 DEF vars, Holds, Size, Part
<1> QED
  BY <1>1, <1>2, <1>3, <1>4, <1>5, <1>6, <1>7, <1>8, <1>9, <1>10,
     <1>11, <1>12, <1>13, Actions

\* When no two partitions lie in one sector, a write that ends with success and was
\* verified by reading back has every partition in the flash, whatever failed
\* in silence on the way.
THEOREM VerifiedWritten ==
  ASSUME SeparateJobs
  PROVE  Spec => []VerifiedIsWritten
<1>1. Init => VerInv
  BY InitIInv
<1>2. IInv /\ VerInv /\ [Next]_vars => VerInv'
  BY StepVerInv
<1>3. IInv /\ VerInv => VerifiedIsWritten
  BY DEF IInv, TypeOK, DataOK, VerInv, VerifiedIsWritten, Succeeded
<1> QED
  BY <1>1, <1>2, <1>3, IInvHolds, PTL DEF Spec

-----------------------------------------------------------------------------
(* Operations without faults.                                              *)

\* What an erase, or the erasing before a write, has done: the sectors counted so
\* far, at its end all of the partition.
ErasedUpTo == \A p \in Covered(Part) : p < Part.addr + Sect * i => flash[p] = Blank
Erased     == \A p \in Covered(Part) : flash[p] = Blank

EraseInv ==
  /\ op \in {"write", "erase"} /\ func = 1 /\ at \in {"report", "call"} => ErasedUpTo
  /\ op \in {"write", "erase"} /\ func = 1 /\ at = "uninit" => Erased
  /\ op = "write" /\ func = 2 /\ at = "init" => Erased
  /\ op = "erase" /\ at = "final" => Erased
  /\ Succeeded("erase") => \A p \in Covered(job[1]) : flash[p] = Blank

\* The programming of a partition: the pages behind the current one are still
\* erased, so that a blank page can be left out and the others can be burnt.
Programmed ==
  \A k \in 1 .. Size(Part) :
    flash[Part.addr + k - 1] = IF k <= i THEN Part.data[k] ELSE Blank

WriteInv ==
  op = "write" =>
    /\ at # "idle" => \A k \in 1 .. seg - 1 : Holds(job[k])
    /\ func = 2 /\ at \in {"report", "call"} => Programmed
    /\ func = 2 /\ at = "uninit" => Holds(Part)
    /\ func = 3 /\ at # "idle" => Holds(Part)
    /\ at = "final" => Holds(Part)
    /\ at = "idle" /\ outcome = "ok" => \A k \in 1 .. Len(job) : Holds(job[k])

ChipInv ==
  op = "chip" /\ (at \in {"uninit", "final"} \/ Succeeded("chip"))
    => \A p \in Pages : flash[p] = Blank

\* A read has i pages in its buffer, those of the region in their order.
ReadInv ==
  op = "read" =>
    /\ at # "idle" => i <= Size(Part) /\ buff = [k \in 1 .. i |-> flash[Part.addr + k - 1]]
    /\ at = "final" => i = Size(Part)
    /\ Succeeded("read") =>
         buff = [k \in 1 .. Size(job[1]) |-> flash[job[1].addr + k - 1]]

\* The sectors of a round are erased with it.
LEMMA RoundErases ==
  ASSUME WholeSectors, IInv, at = "call", func = 1, op # "chip", ErasedUpTo,
         flash' = Done, UNCHANGED <<job, seg>>, i' = i + 1
  PROVE  ErasedUpTo'
<1>1. /\ Part.addr \in Nat /\ Size(Part) \in Nat /\ Part.addr + Size(Part) <= NPages
      /\ seg \in 1 .. Len(job)
  BY PartFacts DEF IInv, TypeOK, JobInv, RoundInv
<1>2. Part.addr % Sect = 0
  BY <1>1 DEF IInv, JobInv, RoundInv, Accepted, Part
<1>3. Sect \in Nat \ {0} /\ NPages \in Nat /\ i \in Nat /\ Sect * i \in Nat
      /\ Sect * (i + 1) = Sect * i + Sect
  BY LayoutAssumption DEF IInv, TypeOK, DataOK
<1>4. Page = Part.addr + Sect * i /\ Page \in Pages
  BY PageInside DEF IInv, TypeOK, Page
<1>5. flash' = [p \in Pages |-> IF p \in SectorOf(Page) THEN Blank ELSE flash[p]]
  BY DEF Done, FillIn, Erasing
<1>6. ASSUME NEW p \in Covered(Part), p < Part.addr + Sect * (i + 1)
      PROVE  flash'[p] = Blank
  <2>1. p \in Pages /\ p \in Int
    BY <1>1, <1>3 DEF Covered, Pages
  <2>2. CASE p < Part.addr + Sect * i
    BY <1>5, <2>1, <2>2 DEF ErasedUpTo
  <2>3. CASE p >= Part.addr + Sect * i
    <3>1. p \div Sect = Page \div Sect
      <4>1. Page \in Nat /\ Page <= p /\ p < Page + Sect
        BY <1>1, <1>3, <1>4, <1>6, <2>1, <2>3
      <4>2. Page % Sect = 0
        BY <1>1, <1>2, <1>3, <1>4, RoundAligned
      <4> QED
        BY <1>3, <2>1, <4>1, <4>2, SameSector
    <3>2. p \in SectorOf(Page)
      BY <1>4, <2>1, <3>1 DEF WholeSectors
    <3> QED
      BY <1>5, <2>1, <3>2
  <2> QED
    BY <1>1, <1>3, <2>1, <2>2, <2>3
<1>7. Part' = Part /\ Covered(Part)' = Covered(Part)
  BY DEF Part, Covered, Size
<1> QED
  BY <1>6, <1>7 DEF ErasedUpTo

\* The last round reaches the end of the partition.
LEMMA RoundsErase ==
  ASSUME IInv, at = "report", op \in {"write", "erase"}, func = 1, i >= Rounds, ErasedUpTo
  PROVE  Erased
<1>1. Part.addr \in Nat /\ Size(Part) \in Nat
  BY PartFacts DEF IInv, TypeOK, JobInv
<1>2. Sect \in Nat \ {0} /\ i \in Nat
  BY LayoutAssumption DEF IInv, TypeOK, DataOK
<1>3. Sect * i \in Nat /\ Size(Part) <= Sect * i
  <2>1. CASE op = "write"
    <3>1. i >= (Size(Part) + Sect - 1) \div Sect
      BY <2>1 DEF Rounds, SectCount
    <3> QED
      BY <3>1, <1>1, <1>2, RoundsReach
  <2>2. CASE op = "erase"
    <3>1. i >= Size(Part) \div Sect
      BY <2>2 DEF Rounds
    <3>2. Size(Part) % Sect = 0
      BY <2>2 DEF IInv, JobInv, Region, Part
    <3> QED
      BY <3>1, <3>2, <1>1, <1>2, RoundsReach
  <2> QED
    BY <2>1, <2>2
<1>4. ASSUME NEW p \in Covered(Part) PROVE p < Part.addr + Sect * i
  BY <1>1, <1>3, <1>4 DEF Covered
<1> QED
  BY <1>4 DEF ErasedUpTo, Erased

\* Every action keeps what is known of erased pages.
LEMMA StepEraseInv ==
  ASSUME WholeSectors, IInv, ~faulty => EraseInv, [Next]_vars
  PROVE  ~faulty' => EraseInv'
<1> SUFFICES ASSUME ~faulty' PROVE EraseInv'
  OBVIOUS
<1> USE DEF EraseInv, Succeeded
<1>0. (Part.addr \in Nat /\ i \in Nat) \/ op = "none"
  BY PartFacts DEF IInv, TypeOK, DataOK
<1>1. CASE \E o \in {"write", "erase", "chip", "read"}, j \in Jobs, v \in VerifyWays :
             Start(o, j, v)
  BY <1>1 DEF Start
<1>2. CASE CallStopped \/ CallRaises \/ ReportAborts \/ UnInitError
  BY <1>2 DEF CallStopped, CallRaises, ReportAborts, UnInitError, End
<1>3. CASE InitCall
  <2>1. UNCHANGED <<flash, op, job, seg, func, outcome, faulty>> /\ at = "init" /\ i' = 0
    BY <1>3 DEF InitCall
  <2>2. at' \in {"call", "report"} /\ op # "none"
    BY <1>3 DEF InitCall, IInv, JobInv
  <2>3. Sect * i' = 0
    BY <2>1, LayoutAssumption
  <2>4. \A p \in Covered(Part) : p >= Part.addr
    BY <1>0, <2>2, PartFacts DEF Covered, IInv, TypeOK
  <2>5. ErasedUpTo'
    BY <1>0, <2>1, <2>2, <2>3, <2>4, PartFacts DEF ErasedUpTo, Covered, Size, Part, IInv, TypeOK
  <2> QED
    BY <2>1, <2>2, <2>5
<1>4. CASE ReportChip \/ CallReads
  BY <1>4 DEF ReportChip, CallReads, NextRound, IInv, RoundInv
<1>5. CASE ReportRound
  <2>1. UNCHANGED <<flash, op, job, seg, func, outcome, faulty>> /\ at = "report"
    BY <1>5 DEF ReportRound
  <2>2. at' \in {"report", "call"} /\ (func = 1 => i' = i)
    BY <1>5 DEF ReportRound, Skip
  <2> QED
    BY <2>1, <2>2 DEF ErasedUpTo, Covered, Size, Part
<1>6. CASE LoopEnds
  <2>1. UNCHANGED <<flash, op, job, seg, func, outcome, faulty>> /\ at = "report" /\ i >= Rounds
    BY <1>6 DEF LoopEnds
  <2>2. at' = IF op = "read" THEN "final" ELSE "uninit"
    BY <1>6 DEF LoopEnds
  <2>3. op \in {"write", "erase"} /\ func = 1 => Erased
    BY <2>1, RoundsErase
  <2> QED
    BY <2>1, <2>2, <2>3 DEF Erased, Covered, Size, Part
<1>7. CASE CallChanges
  <2>1. UNCHANGED <<op, job, seg, func, outcome>> /\ at = "call" /\ ~faulty /\ flash' = Done
    BY <1>7 DEF CallChanges
  <2>2. i' = i + 1 /\ at' = IF op = "chip" THEN "uninit" ELSE "report"
    BY <1>7 DEF CallChanges, NextRound
  <2>3. op \in {"write", "erase"} /\ func = 1 => ErasedUpTo'
    BY <2>1, <2>2, RoundErases
  <2> QED
    BY <2>1, <2>2, <2>3
<1>8. CASE CallVerifies
  BY <1>8 DEF CallVerifies, ReadBack, NextRound, IInv, RoundInv
<1>9. CASE UnInitCall
  <2>1. UNCHANGED <<flash, op, job, seg, outcome, faulty>> /\ at = "uninit"
    BY <1>9 DEF UnInitCall
  <2>2. \/ at' = "final" /\ func' = func /\ (op = "erase" => func = 1)
        \/ at' = "init" /\ op = "write" /\ func' = func + 1
    BY <1>9 DEF UnInitCall, NextFunc, IInv, RoundInv
  <2>3. func \in {0, 1, 2, 3}
    BY DEF IInv, TypeOK, DataOK
  <2> QED
    BY <2>1, <2>2, <2>3 DEF Erased, Covered, Size, Part
<1>10. CASE NextPartition
  BY <1>10 DEF NextPartition
<1>11. CASE Finish
  <2>1. UNCHANGED <<flash, op, job, faulty>> /\ at = "final" /\ at' = "idle"
    BY <1>11 DEF Finish, End
  <2>2. op = "erase" => seg = 1
    BY <2>1 DEF IInv, JobInv
  <2> QED
    BY <2>1, <2>2 DEF Erased, Covered, Size, Part
<1>12. CASE PressStop \/ UNCHANGED vars
  BY <1>12 DEF PressStop, vars, ErasedUpTo, Erased, Covered, Size, Part
<1> QED
  BY <1>1, <1>2, <1>3, <1>4, <1>5, <1>6, <1>7, <1>8, <1>9, <1>10, <1>11, <1>12, Actions

\* A page that is still erased is burnt with the data of its round.
LEMMA RoundPrograms ==
  ASSUME IInv, at = "call", op = "write", func = 2, Programmed,
         flash' = Done, UNCHANGED <<job, seg>>, i' = i + 1
  PROVE  Programmed'
<1>1. /\ Part.addr \in Nat /\ Size(Part) \in Nat /\ Part.addr + Size(Part) <= NPages
      /\ i \in Nat /\ NPages \in Nat
  BY PartFacts, LayoutAssumption DEF IInv, TypeOK, DataOK
<1>2. Page = Part.addr + i /\ Data = Part.data[i + 1] /\ i < Size(Part)
  BY DEF Page, Data, IInv, RoundInv, Rounds
<1>3. flash[Page] = Blank
  <2>1. i + 1 \in 1 .. Size(Part) /\ ~(i + 1 <= i) /\ Part.addr + (i + 1) - 1 = Page
    BY <1>1, <1>2
  <2> QED
    BY <2>1 DEF Programmed
<1>4. flash' = [p \in Pages |-> IF p = Page THEN Data ELSE flash[p]]
  BY <1>3 DEF Done, FillIn, Burnt
<1>5. ASSUME NEW k \in 1 .. Size(Part)
      PROVE  flash'[Part.addr + k - 1] = IF k <= i + 1 THEN Part.data[k] ELSE Blank
  <2>1. Part.addr + k - 1 \in Pages
    BY <1>1 DEF Pages
  <2>2. CASE k = i + 1
    BY <1>1, <1>2, <1>4, <2>1, <2>2
  <2>3. CASE k # i + 1
    <3>1. Part.addr + k - 1 # Page /\ (k <= i + 1 <=> k <= i)
      BY <1>1, <1>2, <2>3
    <3> QED
      BY <1>4, <2>1, <3>1 DEF Programmed
  <2> QED
    BY <2>2, <2>3
<1> QED
  BY <1>5 DEF Programmed, Part, Size

\* Every action keeps what is known of a write.
LEMMA StepWriteInv ==
  ASSUME SeparateJobs, IInv, ~faulty => EraseInv /\ WriteInv, [Next]_vars
  PROVE  ~faulty' => WriteInv'
<1> SUFFICES ASSUME ~faulty', op' = "write" PROVE WriteInv'
  BY DEF WriteInv
<1> USE DEF WriteInv
<1>0. Len(job) \in Nat /\ seg \in Nat /\ i \in Nat /\ func \in 0 .. 3
  BY DEF IInv, TypeOK, DataOK
<1>1. CASE \E o \in {"write", "erase", "chip", "read"}, j \in Jobs, v \in VerifyWays :
             Start(o, j, v)
  BY <1>1 DEF Start
<1>2. CASE CallStopped \/ CallRaises \/ ReportAborts \/ UnInitError
  BY <1>2 DEF CallStopped, CallRaises, ReportAborts, UnInitError, End
<1>3. CASE InitCall
  <2>1. UNCHANGED <<flash, op, job, seg, func, outcome, faulty>> /\ at = "init" /\ i' = 0
    BY <1>3 DEF InitCall
  <2>2. at' = "report"
    BY <1>3, <2>1 DEF InitCall
  <2>3. ASSUME func = 2 PROVE Programmed'
    <3>1. Erased /\ Part.addr \in Nat /\ Size(Part) \in Nat
      BY <2>1, <2>3, PartFacts DEF EraseInv, IInv, TypeOK
    <3>2. \A k \in 1 .. Size(Part) : Part.addr + k - 1 \in Covered(Part) /\ ~(k <= 0)
      BY <3>1 DEF Covered
    <3> QED
      BY <2>1, <3>1, <3>2 DEF Erased, Programmed, Part, Size
  <2> QED
    BY <2>1, <2>2, <2>3 DEF Holds, Size, Part
<1>4. CASE ReportChip \/ CallReads
  BY <1>4 DEF ReportChip, CallReads
<1>5. CASE ReportRound
  <2>1. UNCHANGED <<flash, op, job, seg, func, outcome, faulty>> /\ at = "report"
    BY <1>5 DEF ReportRound
  <2>2. at' \in {"report", "call"} /\ i < Rounds /\ (i' = i \/ (Skip /\ i' = i + 1))
    BY <1>5 DEF ReportRound
  <2>3. ASSUME func = 2 PROVE Programmed'
    <3>1. CASE i' = i
      BY <2>1, <2>3, <3>1 DEF Programmed, Part, Size
    <3>2. CASE Skip /\ i' = i + 1
      <4>1. Part.data[i + 1] = Blank /\ Size(Part) \in Nat
        BY <2>1, <3>2, PartFacts DEF Skip, Data, IInv, TypeOK
      <4>2. \A k \in 1 .. Size(Part) : (k <= i + 1 <=> k <= i \/ k = i + 1)
        BY <1>0, <4>1
      <4> QED
        BY <2>1, <2>3, <3>2, <4>1, <4>2 DEF Programmed, Part, Size
    <3> QED
      BY <2>2, <3>1, <3>2
  <2> QED
    BY <2>1, <2>2, <2>3 DEF Holds, Size, Part
<1>6. CASE LoopEnds
  <2>1. UNCHANGED <<flash, op, job, seg, func, outcome, faulty>> /\ at = "report" /\ i >= Rounds
    BY <1>6 DEF LoopEnds
  <2>2. at' = "uninit"
    BY <1>6, <2>1 DEF LoopEnds
  <2>3. ASSUME func = 2 PROVE Holds(Part)
    <3>1. i >= Size(Part) /\ Size(Part) \in Nat
      BY <2>1, <2>3, PartFacts DEF Rounds, IInv, TypeOK
    <3>2. \A k \in 1 .. Size(Part) : k <= i
      BY <1>0, <3>1
    <3> QED
      BY <2>1, <2>3, <3>2 DEF Programmed, Holds
  <2> QED
    BY <2>1, <2>2, <2>3 DEF Holds, Size, Part
<1>7. CASE CallChanges
  <2>1. UNCHANGED <<op, job, seg, func, outcome>> /\ at = "call" /\ ~faulty /\ flash' = Done
    BY <1>7 DEF CallChanges
  <2>2. func \in {1, 2} /\ i' = i + 1 /\ at' = "report"
    BY <1>7, <2>1 DEF CallChanges, NextRound
  <2>3. ASSUME NEW k \in 1 .. seg - 1 PROVE Holds(job[k])'
    <3>1. k \in 1 .. Len(job)
      BY <1>0, <2>1 DEF IInv, JobInv
    <3>2. \A p \in Covered(job[k]) : flash'[p] = flash[p]
      BY StepEarlier, <2>1, <2>3
    <3> QED
      BY <2>1, <3>1, <3>2, HoldsStays
  <2>4. func = 2 => Programmed'
    BY <2>1, <2>2, RoundPrograms
  <2> QED
    BY <2>1, <2>2, <2>3, <2>4
<1>8. CASE CallVerifies
  <2>1. UNCHANGED <<flash, op, job, seg, func, outcome, faulty>> /\ at = "call" /\ func = 3
    BY <1>8 DEF CallVerifies
  <2>2. at' \in {"report", "uninit"}
    BY <1>8, <2>1 DEF CallVerifies, ReadBack, NextRound
  <2> QED
    BY <2>1, <2>2 DEF Holds, Size, Part
<1>9. CASE UnInitCall
  <2>1. UNCHANGED <<flash, op, job, seg, outcome, faulty>> /\ at = "uninit"
    BY <1>9 DEF UnInitCall
  <2>2. \/ at' = "final" /\ func' = func /\ func \in {2, 3}
        \/ at' = "init" /\ func' = func + 1 /\ func \in {1, 2}
    BY <1>9, <2>1 DEF UnInitCall, NextFunc, IInv, RoundInv
  <2>3. func \in {2, 3} => Holds(Part)
    BY <2>1
  <2>4. /\ Holds(Part)' <=> Holds(Part)
        /\ (\A k \in 1 .. seg - 1 : Holds(job[k]))' <=> \A k \in 1 .. seg - 1 : Holds(job[k])
    BY <2>1 DEF Holds, Size, Part
  <2>5. op = "write" /\ \A k \in 1 .. seg - 1 : Holds(job[k])
    BY <2>1
  <2>6. CASE at' = "final" /\ func' = func /\ func \in {2, 3}
    BY <2>3, <2>4, <2>5, <2>6
  <2>7. CASE at' = "init" /\ func' = func + 1 /\ func \in {1, 2}
    <3>1. func' = 3 => func = 2
      BY <2>7
    <3> QED
      BY <2>3, <2>4, <2>5, <2>7, <3>1
  <2> QED
    BY <2>2, <2>6, <2>7
<1>10. CASE NextPartition
  <2>1. UNCHANGED <<flash, op, job, outcome, faulty>> /\ at = "final" /\ func' = 1
    BY <1>10 DEF NextPartition
  <2>2. seg' = seg + 1 /\ at' = "init"
    BY <1>10 DEF NextPartition
  <2>3. \A k \in 1 .. seg : Holds(job[k])
    BY <2>1, <1>0 DEF Part
  <2>4. \A k \in 1 .. seg' - 1 : Holds(job[k])'
    BY <2>1, <2>2, <2>3, <1>0 DEF Holds, Size
  <2> QED
    BY <2>1, <2>2, <2>4
<1>11. CASE Finish
  <2>1. UNCHANGED <<flash, op, job, faulty>> /\ at = "final" /\ at' = "idle"
    BY <1>11 DEF Finish, End
  <2>2. seg = Len(job)
    BY <1>11, <2>1 DEF Finish
  <2>3. \A k \in 1 .. Len(job) : Holds(job[k])
    BY <2>1, <2>2, <1>0 DEF Part
  <2> QED
    BY <2>1, <2>3 DEF Holds, Size
<1>12. CASE PressStop \/ UNCHANGED vars
  BY <1>12 DEF PressStop, vars, Programmed, Holds, Size, Part
<1> QED
  BY <1>1, <1>2, <1>3, <1>4, <1>5, <1>6, <1>7, <1>8, <1>9, <1>10, <1>11, <1>12, Actions

\* A chip erase has erased the chip.
LEMMA StepChipInv ==
  ASSUME IInv, ~faulty => ChipInv, [Next]_vars
  PROVE  ~faulty' => ChipInv'
<1> SUFFICES ASSUME ~faulty', op' = "chip" PROVE ChipInv'
  BY DEF ChipInv
<1> USE DEF ChipInv, Succeeded
<1>1. CASE \E o \in {"write", "erase", "chip", "read"}, j \in Jobs, v \in VerifyWays :
             Start(o, j, v)
  BY <1>1 DEF Start
<1>2. CASE CallStopped \/ CallRaises \/ ReportAborts \/ UnInitError
  BY <1>2 DEF CallStopped, CallRaises, ReportAborts, UnInitError, End
<1>3. CASE InitCall \/ ReportChip \/ ReportRound \/ NextPartition
  BY <1>3 DEF InitCall, ReportChip, ReportRound, NextPartition
<1>4. CASE LoopEnds \/ CallReads \/ CallVerifies
  BY <1>4 DEF LoopEnds, CallReads, CallVerifies, IInv, RoundInv
<1>5. CASE CallChanges
  <2>1. flash' = Done /\ op = "chip" /\ at = "call"
    BY <1>5 DEF CallChanges
  <2>2. func = 1
    BY <1>5, <2>1 DEF CallChanges, IInv, RoundInv
  <2> QED
    BY <2>1, <2>2 DEF Done, FillIn, Erasing
<1>6. CASE UnInitCall
  BY <1>6 DEF UnInitCall
<1>7. CASE Finish
  BY <1>7 DEF Finish, End
<1>8. CASE PressStop \/ UNCHANGED vars
  BY <1>8 DEF PressStop, vars
<1> QED
  BY <1>1, <1>2, <1>3, <1>4, <1>5, <1>6, <1>7, <1>8, Actions

LEMMA SingleOf == \A s \in Seq(Partition) : Len(s) = 1 => s[1] \in Partition
OBVIOUS

\* A read has the pages of its region in their order.
LEMMA StepReadInv ==
  ASSUME IInv, ~faulty => ReadInv, [Next]_vars
  PROVE  ~faulty' => ReadInv'
<1> SUFFICES ASSUME ~faulty', op' = "read" PROVE ReadInv'
  BY DEF ReadInv
<1> USE DEF ReadInv, Succeeded
<1>1. CASE \E o \in {"write", "erase", "chip", "read"}, j \in Jobs, v \in VerifyWays :
             Start(o, j, v)
  <2>1. PICK o \in {"write", "erase", "chip", "read"}, j \in Jobs, v \in VerifyWays :
               Start(o, j, v)
    BY <1>1
  <2>2. /\ at' = "report" /\ i' = 0 /\ buff' = <<>> /\ seg' = 1 /\ job' = j
        /\ j \in Seq(Partition) /\ Len(j) = 1
    BY <2>1, JobsAssumption DEF Start, Region
  <2>3. j[1] \in Partition
    BY <2>2, SingleOf
  <2>4. Size(Part)' \in Nat
    BY <2>2, <2>3 DEF Partition, Size, Part
  <2> QED
    BY <2>2, <2>4
<1>2. CASE CallStopped \/ CallRaises \/ ReportAborts \/ UnInitError
  BY <1>2 DEF CallStopped, CallRaises, ReportAborts, UnInitError, End
<1>3. CASE InitCall \/ ReportChip \/ CallChanges \/ CallVerifies \/ UnInitCall \/ NextPartition
  BY <1>3 DEF InitCall, ReportChip, CallChanges, CallVerifies, UnInitCall, NextPartition,
              IInv, RoundInv
<1>4. CASE ReportRound
  <2>1. UNCHANGED <<flash, op, job, seg, func, buff, faulty>> /\ at = "report"
    BY <1>4 DEF ReportRound
  <2>2. at' = "call" /\ i' = i
    BY <1>4, <2>1 DEF ReportRound, Skip, IInv, RoundInv
  <2> QED
    BY <2>1, <2>2 DEF Size, Part
<1>5. CASE LoopEnds
  <2>1. UNCHANGED <<flash, op, job, seg, func, buff, i, faulty>> /\ at = "report" /\ i >= Rounds
    BY <1>5 DEF LoopEnds
  <2>2. at' = "final" /\ Rounds = Size(Part)
    BY <1>5, <2>1 DEF LoopEnds, Rounds, IInv, RoundInv
  <2>3. i = Size(Part)
    BY <2>1, <2>2, PartFacts DEF IInv, TypeOK, DataOK
  <2> QED
    BY <2>1, <2>2, <2>3 DEF Size, Part
<1>6. CASE CallReads
  <2>1. UNCHANGED <<flash, op, job, seg, func>> /\ at = "call" /\ ~faulty
        /\ buff' = Append(buff, flash[Page])
    BY <1>6 DEF CallReads, Extended
  <2>2. i' = i + 1 /\ at' = "report"
    BY <1>6, <2>1 DEF CallReads, NextRound
  <2>3. func = 0 /\ i < Size(Part) /\ Size(Part) \in Nat /\ i \in Nat /\ Part.addr \in Nat
    BY <2>1, PartFacts DEF IInv, TypeOK, DataOK, RoundInv, Rounds
  <2>4. Page = Part.addr + (i + 1) - 1
    BY <2>3 DEF Page
  <2>5. buff' = [k \in 1 .. i + 1 |-> flash[Part.addr + k - 1]]
    BY <2>1, <2>3, <2>4
  <2> QED
    BY <2>1, <2>2, <2>3, <2>5 DEF Size, Part
<1>7. CASE Finish
  <2>1. UNCHANGED <<flash, op, job, buff, faulty>> /\ at = "final" /\ at' = "idle" /\ seg = 1
    BY <1>7 DEF Finish, End, IInv, JobInv
  <2> QED
    BY <2>1 DEF Size, Part
<1>8. CASE PressStop \/ UNCHANGED vars
  BY <1>8 DEF PressStop, vars, Size, Part
<1> QED
  BY <1>1, <1>2, <1>3, <1>4, <1>5, <1>6, <1>7, <1>8, Actions

\* When every routine did its work, a success is what it says, verified or not, for
\* every layout of sectors of which no two partitions share one: the rounding of the
\* sector count erases all that is programmed, blank pages that are left out are
\* blank, and a read returns its region page by page.
THEOREM FaultlessDone ==
  ASSUME WholeSectors, SeparateJobs
  PROVE  Spec => []FaultlessIsDone
<1> DEFINE FaultInv == ~faulty => EraseInv /\ WriteInv /\ ChipInv /\ ReadInv
<1>1. Init => FaultInv
  BY DEF Init, EraseInv, WriteInv, ChipInv, ReadInv, Succeeded
<1>2. IInv /\ FaultInv /\ [Next]_vars => FaultInv'
  BY StepEraseInv, StepWriteInv, StepChipInv, StepReadInv
<1>3. IInv /\ FaultInv => FaultlessIsDone
  BY DEF IInv, TypeOK, DataOK, EraseInv, WriteInv, ChipInv, ReadInv, FaultlessIsDone, Succeeded
<1> HIDE DEF FaultInv
<1> QED
  BY <1>1, <1>2, <1>3, IInvHolds, PTL DEF Spec

-----------------------------------------------------------------------------
(* TargetSetup: getting hold of the core and letting it go.                *)

USE DEF Goto, Raise, Still, Stopped, Halted

-----------------------------------------------------------------------------
(* The core is halted.                                                     *)

\* Once the core was seen halted, the way to "ready" leaves it so.
HaltedInv ==
  /\ pc = "ready" => core = "halted"
  /\ pc = "clear" /\ then = "ready" => core = "halted"

LEMMA InitHalted == SetupInit => HaltedInv
BY DEF SetupInit, HaltedInv

LEMMA StepHalted == HaltedInv /\ [SetupNext]_setupVars => HaltedInv'
<1> SUFFICES ASSUME HaltedInv, [SetupNext]_setupVars PROVE HaltedInv'
  OBVIOUS
<1> USE DEF HaltedInv
<1>1. CASE Halt \/ Save \/ Catch \/ Request
  BY <1>1 DEF Halt, Save, Catch, Request
<1>2. CASE Leaving \/ Stopping \/ Xpsr \/ Restore \/ Reconnect
  BY <1>2 DEF Leaving, Stopping, Xpsr, Restore, Reconnect
<1>3. CASE Ask
  BY <1>3 DEF Ask, SeenHalted, NotSeen, AfterHalt
<1>4. CASE Clear
  BY <1>4 DEF Clear
<1>5. CASE LastHalt \/ LastAsk
  BY <1>5 DEF LastHalt, LastAsk, SeenHalted
<1>6. CASE Load \/ Open \/ Work \/ CloseOnly \/ CloseResets \/ LetGo
  BY <1>6 DEF Load, Open, Work, CloseOnly, CloseResets, LetGo, control
<1>7. CASE LeaveReset
  BY <1>7 DEF LeaveReset, control
<1>8. CASE UNCHANGED setupVars
  BY <1>8 DEF setupVars, control, target
<1> QED
  BY <1>1, <1>2, <1>3, <1>4, <1>5, <1>6, <1>7, <1>8 DEF SetupNext, Setup

\* The algorithm is loaded only into a chip whose core is halted.
THEOREM ReadyHalted == SetupSpec => []ReadyMeansHalted
<1>1. HaltedInv => ReadyMeansHalted
  BY DEF HaltedInv, ReadyMeansHalted
<1> QED
  BY InitHalted, StepHalted, <1>1, PTL DEF SetupSpec

-----------------------------------------------------------------------------
(* The vector catch.                                                       *)

CatchType ==
  /\ vc \in BOOLEAN /\ uncleared \in BOOLEAN /\ saved \in BOOLEAN /\ failure \in BOOLEAN
  /\ queued \in {"none", "on", "off"}
  /\ uncleared => vc

\* Where the vector catch may be on without being noted as uncleared.  Between
\* Catch and Restore it is on by intent.  If it was already on when it was saved,
\* it is restored to on: by then it is still noted, because a reset that wipes it
\* does not halt the core, and pyocd leaves by the assertion on xpsr.
CatchInv ==
  /\ pc \in {"idle", "task", "failed", "letgo"} => queued = "none" /\ (vc => uncleared)
  /\ pc \in {"halt", "save", "lasthalt", "lastask", "ready"}
       => queued # "on" /\ (vc /\ queued = "none" => uncleared)
  /\ pc = "catch" => queued = "none" /\ (vc => uncleared) /\ (saved => vc)
  /\ pc = "request" => queued = "on" /\ (vc => uncleared) /\ (saved => vc)
  /\ pc \in {"leaving", "stopping", "xpsr"}
       => /\ queued = "none"
          /\ saved /\ core = "halted" => uncleared
          /\ saved /\ core = "reset" /\ vc => uncleared
  /\ pc = "restore" => queued = "none" /\ (saved => uncleared)
  /\ pc = "reconnect" => failure
  /\ pc = "ask" /\ ~failure
       => (queued = "on" => uncleared) /\ (queued = "none" /\ vc => uncleared)

Inv == CatchType /\ CatchInv

LEMMA InitInv == SetupInit => Inv
BY DEF SetupInit, Inv, CatchType, CatchInv

LEMMA StepInv == Inv /\ [SetupNext]_setupVars => Inv'
<1> SUFFICES ASSUME Inv, [SetupNext]_setupVars PROVE Inv'
  OBVIOUS
<1> USE DEF Inv, CatchType, CatchInv
<1>a. failure' \in BOOLEAN
  <2>1. \/ failure' \in {TRUE, FALSE}
        \/ UNCHANGED failure
    BY DEF SetupNext, Setup, Halt, Save, Catch, Request, Leaving, Stopping, Xpsr, Restore, Reconnect,
           Ask, Clear, LastHalt, LastAsk, Load, Open, Work, CloseOnly, CloseResets, LetGo,
           LeaveReset, control, setupVars
  <2> QED
    BY <2>1
<1>0. Caught \in BOOLEAN /\ (queued = "none" => (Caught <=> vc)) /\ (queued = "on" <=> Caught /\ queued # "none")
  BY DEF Caught
<1>1. CASE Halt
  BY <1>a, <1>0, <1>1 DEF Halt, Passes, Fails, Track
<1>2. CASE Save
  BY <1>a, <1>0, <1>2 DEF Save, Passes, Fails, Track
<1>3. CASE Catch
  BY <1>a, <1>3 DEF Catch
<1>4. CASE Request
  <2> DEFINE kind == Attempts[attempt]
  <2>0. /\ pc = "request" /\ UNCHANGED saved
        /\ queued = "on" /\ Caught = TRUE /\ (saved => vc = TRUE /\ uncleared = TRUE)
    BY <1>4 DEF Request, Caught
  <2>1. CASE Resets(kind) /\ (Goto("leaving") \/ Raise)
    <3>1. vc' \in BOOLEAN /\ (vc' => Caught) /\ queued' = "none" /\ Track
      BY <1>0, <2>1 DEF Resets
    <3>2. uncleared' \in BOOLEAN /\ (uncleared' <=> vc' /\ uncleared)
      BY <2>0, <3>1 DEF Track
    <3>3. CASE Goto("leaving")
      <4>1. saved /\ core' = "halted" => uncleared'
        BY <2>0, <2>1, <3>2 DEF Resets
      <4>2. saved /\ vc' => uncleared'
        BY <2>0, <3>2
      <4> QED
        BY <1>a, <2>0, <3>1, <3>2, <3>3, <4>1, <4>2
    <3>4. CASE Raise
      BY <3>1, <3>2, <3>4
    <3> QED
      BY <2>1, <3>3, <3>4
  <2>2. CASE Fails /\ Still /\ Goto("leaving")
    <3>1. vc' \in BOOLEAN /\ uncleared' \in BOOLEAN /\ (uncleared' => vc') /\ queued' = "none"
      BY <1>0, <2>0, <2>2 DEF Fails, Track
    <3>2. saved => uncleared'
      BY <2>0, <2>2 DEF Fails, Track
    <3> QED
      BY <1>a, <2>0, <2>2, <3>1, <3>2
  <2>3. CASE Passes /\ Stopped /\ Goto("leaving")
    BY <1>0, <2>0, <2>3 DEF Passes, Track
  <2>4. CASE Fails /\ Raise
    BY <1>0, <2>0, <2>4 DEF Fails, Track
  <2> QED
    BY <1>4, <2>1, <2>2, <2>3, <2>4 DEF Request
<1>5. CASE Leaving
  BY <1>a, <1>0, <1>5 DEF Leaving, Passes, Fails, Track
<1>6. CASE Stopping
  BY <1>a, <1>0, <1>6 DEF Stopping, Passes, Fails, Track
<1>7. CASE Xpsr
  BY <1>a, <1>0, <1>7 DEF Xpsr, Passes, Fails, Track
<1>8. CASE Restore
  BY <1>a, <1>8 DEF Restore, Restored
<1>9. CASE Reconnect
  BY <1>a, <1>9 DEF Reconnect, Reconnected
<1>10. CASE Ask
  BY <1>a, <1>0, <1>10 DEF Ask, SeenHalted, NotSeen, AfterHalt, Passes, Fails, Track
<1>11. CASE Clear
  BY <1>a, <1>0, <1>11 DEF Clear, Track
<1>12. CASE LastHalt
  BY <1>a, <1>0, <1>12 DEF LastHalt, Passes, Fails, Track
<1>13. CASE LastAsk
  BY <1>a, <1>0, <1>13 DEF LastAsk, SeenHalted, NotSeen, Passes, Fails, Track
<1>14. CASE Load
  BY <1>a, <1>0, <1>14 DEF Load, Passes, Fails, Track
<1>15. CASE Open \/ Work
  <2>1. failure' \in BOOLEAN /\ pc' \in {"halt", "task"} /\ UNCHANGED <<vc, queued, saved, uncleared>>
    BY <1>15 DEF Open, Work, control
  <2> QED
    BY <1>15, <2>1 DEF Open, Work, control
<1>16. CASE CloseOnly
  BY <1>a, <1>0, <1>16 DEF CloseOnly, Passes, Fails, Track
<1>17. CASE CloseResets
  <2>0. /\ pc \in {"task", "failed"} /\ pc' \in {"letgo", "idle"}
        /\ UNCHANGED <<failure, saved>>
    BY <1>17 DEF CloseResets
  <2>1. CASE Resets("sysreset")
    <3>1. vc' \in BOOLEAN /\ (vc' => Caught) /\ queued' = "none" /\ Track
      BY <1>0, <2>1 DEF Resets
    <3> QED
      BY <1>0, <2>0, <3>1 DEF Track
  <2>2. CASE Fails
    BY <1>0, <2>0, <2>2 DEF Fails, Track
  <2> QED
    BY <1>17, <2>1, <2>2 DEF CloseResets
<1>18. CASE LetGo
  BY <1>a, <1>0, <1>18 DEF LetGo, Passes, Fails, Track
<1>19. CASE LeaveReset
  BY <1>a, <1>19 DEF LeaveReset, control
<1>20. CASE UNCHANGED setupVars
  BY <1>20 DEF setupVars, control, target
<1> QED
  BY <1>1, <1>2, <1>3, <1>4, <1>5, <1>6, <1>7, <1>8, <1>9, <1>10, <1>11, <1>12, <1>13,
     <1>14, <1>15, <1>16, <1>17, <1>18, <1>19, <1>20 DEF SetupNext, Setup

\* When a task begins the vector catch is off, unless an exception has kept it
\* from being cleared.
THEOREM CatchIsOff == SetupSpec => []VectorCatchOff
<1>1. Inv => VectorCatchOff
  BY DEF Inv, CatchInv, VectorCatchOff
<1> QED
  BY InitInv, StepInv, <1>1, PTL DEF SetupSpec

-----------------------------------------------------------------------------
(* What link_close leaves behind.                                          *)

\* After a reset that a working SYSRESETREQ has carried out, the core runs, is
\* still held in reset, or was stopped by a vector catch that is noted.
ClosedInv ==
  pc \in {"letgo", "idle"} /\ left = "reset" /\ "sysreset" \in chip.works
    => core # "halted" \/ uncleared

-----------------------------------------------------------------------------
(* A setup in which nothing fails but what its resets take down.           *)

\* The places after the reset of an attempt, up to the next one.
AfterRequest == {"leaving", "stopping", "xpsr", "restore", "reconnect", "ask", "clear"}

\* A faultless setup needs two attempts at most: the second one's vector catch is
\* set over a port that stays up, and stops the core if it was still in reset.
FaultlessInv ==
  ~glitch =>
       /\ pc \in {"halt", "save", "catch", "request", "restore", "ask", "clear", "ready"}
            => link = "up"
       /\ pc \in {"halt", "save", "catch", "request"} => attempt \in {1, 2}
       /\ pc \in {"leaving", "stopping"} /\ attempt # 1
            => link = "up" /\ vc /\ core \in {"halted", "reset"}
       /\ pc = "stopping" => core # "reset"
       /\ pc = "xpsr" => link = "up" /\ (attempt # 1 => core = "halted")
       /\ pc = "restore" => core = "halted"
       /\ pc = "reconnect" => attempt = 1
       /\ pc = "ask" /\ attempt # 1 => core = "halted"
       /\ pc = "clear" /\ then # "ready" => attempt = 1
       /\ pc \notin {"lasthalt", "lastask", "failed"}

\* A core that is halted after a working SYSRESETREQ came out of a reset.
FreshInv ==
  ~glitch /\ "sysreset" \in chip.works =>
    /\ pc \in AfterRequest /\ core = "halted" => fresh
    /\ pc = "ready" => fresh

\* The steps that neither close a connection nor end a closing.
LEMMA StepClosed == Inv /\ ClosedInv /\ [SetupNext]_setupVars => ClosedInv'
<1> SUFFICES ASSUME Inv, ClosedInv, [SetupNext]_setupVars PROVE ClosedInv'
  OBVIOUS
<1> USE DEF ClosedInv
<1>1. CASE Halt \/ Save \/ Catch \/ Request \/ Leaving \/ Stopping
  BY <1>1 DEF Halt, Save, Catch, Request, Leaving, Stopping
<1>2. CASE Xpsr \/ Restore \/ Reconnect \/ Ask \/ Clear \/ LastHalt \/ LastAsk \/ Load
  BY <1>2 DEF Xpsr, Restore, Reconnect, Ask, AfterHalt, Clear, LastHalt, LastAsk, Load
<1>3. CASE Open \/ Work \/ CloseOnly
  BY <1>3 DEF Open, Work, CloseOnly, control
<1>4. CASE CloseResets
  BY <1>4 DEF CloseResets, Resets
<1>5. CASE LetGo
  <2>1. uncleared => uncleared' \/ left' # "reset"
    BY <1>5 DEF LetGo, Inv, CatchType, CatchInv, Passes, Fails, Track, Caught
  <2> QED
    BY <1>5, <2>1 DEF LetGo
<1>6. CASE LeaveReset
  BY <1>6 DEF LeaveReset, control, Inv, CatchInv
<1>7. CASE UNCHANGED setupVars
  BY <1>7 DEF setupVars, control, target
<1> QED
  BY <1>1, <1>2, <1>3, <1>4, <1>5, <1>6, <1>7 DEF SetupNext, Setup

\* The program runs after link_close has reset the chip, unless the vector catch
\* could not be cleared or the chip ignores the reset.
THEOREM ClosedRuns == SetupSpec => []RunsAfterClose
<1>1. SetupInit => ClosedInv
  BY DEF SetupInit, ClosedInv
<1>2. ClosedInv => RunsAfterClose
  BY DEF ClosedInv, RunsAfterClose
<1> QED
  BY InitInv, StepInv, StepClosed, <1>1, <1>2, PTL DEF SetupSpec

LinkType == link \in {"up", "down"}

LEMMA StepLink == LinkType /\ [SetupNext]_setupVars => LinkType'
<1> SUFFICES ASSUME LinkType, [SetupNext]_setupVars PROVE LinkType'
  OBVIOUS
<1> USE DEF LinkType
<1>1. CASE Request \/ CloseResets
  BY <1>1 DEF Request, CloseResets, Resets, Passes, Fails
<1>2. CASE Halt \/ Save \/ Catch \/ Leaving \/ Stopping \/ Xpsr \/ Restore \/ Reconnect
  BY <1>2 DEF Halt, Save, Catch, Leaving, Stopping, Xpsr, Restore, Reconnect, Reconnected,
              Passes, Fails
<1>3. CASE Ask \/ Clear \/ LastHalt \/ LastAsk \/ Load \/ LetGo
  BY <1>3 DEF Ask, SeenHalted, NotSeen, Clear, LastHalt, LastAsk, Load, LetGo, Passes, Fails
<1>4. CASE Open \/ Work \/ CloseOnly \/ LeaveReset \/ UNCHANGED setupVars
  BY <1>4 DEF Open, Work, CloseOnly, LeaveReset, Passes, Fails, setupVars, target
<1> QED
  BY <1>1, <1>2, <1>3, <1>4 DEF SetupNext, Setup

\* What a step does to the fault that is noted: only a new setup forgets it, and a
\* transfer that fails over a port that is up is one.
LEMMA StepFaultless ==
  Inv /\ HaltedInv /\ LinkType /\ FaultlessInv /\ [SetupNext]_setupVars => FaultlessInv'
<1> SUFFICES ASSUME Inv, HaltedInv, LinkType, FaultlessInv, [SetupNext]_setupVars, ~glitch'
             PROVE  FaultlessInv'
  BY DEF FaultlessInv
<1> USE DEF FaultlessInv, LinkType
<1>0. Attempts[1] = "sysreset" /\ Attempts[2] = "emulated" /\ Len(Attempts) = 3
  BY DEF Attempts
<1>1. CASE Halt
  BY <1>1 DEF Halt, Passes, Fails
<1>2. CASE Save
  BY <1>2 DEF Save, Passes, Fails
<1>3. CASE Catch
  BY <1>3 DEF Catch
<1>4. CASE Request
  <2>0. pc = "request" /\ ~glitch /\ link = "up" /\ attempt \in {1, 2} /\ ~Fails
    <3>1. pc = "request" /\ (UNCHANGED glitch \/ Fails)
      BY <1>4 DEF Request, Resets, Passes
    <3>2. ~glitch
      BY <3>1 DEF Fails
    <3>3. link = "up" /\ attempt \in {1, 2}
      BY <3>1, <3>2
    <3> QED
      BY <3>1, <3>2, <3>3 DEF Fails
  <2>1. CASE attempt = 1
    BY <1>0, <1>4, <2>0, <2>1 DEF Request, Resets
  <2>2. CASE attempt = 2
    <3>1. Passes /\ Stopped /\ Goto("leaving")
      BY <1>0, <1>4, <2>0, <2>2 DEF Request
    <3>2. vc' = TRUE
      BY <2>0, <3>1 DEF Passes, Caught, Inv, CatchInv
    <3> QED
      BY <2>0, <3>1, <3>2 DEF Passes
  <2> QED
    BY <2>0, <2>1, <2>2
<1>5. CASE Leaving
  BY <1>5 DEF Leaving, Passes, Fails, Caught, Inv, CatchInv
<1>6. CASE Stopping
  BY <1>6 DEF Stopping, Passes, Fails
<1>7. CASE Xpsr
  BY <1>7 DEF Xpsr, Passes, Fails
<1>8. CASE Restore \/ Reconnect
  BY <1>8 DEF Restore, Reconnect, Reconnected
<1>9. CASE Ask
  BY <1>9 DEF Ask, SeenHalted, NotSeen, AfterHalt, Passes, Fails
<1>10. CASE Clear
  <2>0. pc = "clear" /\ UNCHANGED <<link, core, then>>
    BY <1>10 DEF Clear
  <2>a. glitch' = (glitch \/ link = "up") \/ UNCHANGED glitch
    BY <1>10 DEF Clear
  <2>1. link = "up" /\ (then # "ready" => attempt = 1)
    BY <2>0, <2>a
  <2>2. CASE then = "ready"
    BY <1>10, <2>0, <2>1, <2>2 DEF Clear
  <2>3. CASE then # "ready"
    <3>1. pc' = "halt" /\ attempt' = 2
      BY <1>0, <1>10, <2>0, <2>1, <2>3 DEF Clear, NextAttempt
    <3> QED
      BY <2>0, <2>1, <3>1
  <2> QED
    BY <2>2, <2>3
<1>11. CASE LastHalt \/ LastAsk
  BY <1>11 DEF LastHalt, LastAsk, SeenHalted, NotSeen, Passes, Fails
<1>12. CASE Load \/ LetGo
  BY <1>12 DEF Load, LetGo, Passes, Fails
<1>13. CASE Open \/ Work
  BY <1>13 DEF Open, Work, control
<1>14. CASE CloseOnly \/ CloseResets
  BY <1>14 DEF CloseOnly, CloseResets
<1>15. CASE LeaveReset
  BY <1>15 DEF LeaveReset, control
<1>16. CASE UNCHANGED setupVars
  BY <1>16 DEF setupVars, control, target
<1> QED
  BY <1>1, <1>2, <1>3, <1>4, <1>5, <1>6, <1>7, <1>8, <1>9, <1>10, <1>11, <1>12, <1>13,
     <1>14, <1>15, <1>16 DEF SetupNext, Setup

LEMMA Faultless == SetupSpec => [](Inv /\ HaltedInv /\ FaultlessInv)
<1>1. SetupInit => LinkType /\ FaultlessInv
  BY DEF SetupInit, LinkType, FaultlessInv
<1> QED
  BY InitInv, StepInv, InitHalted, StepHalted, StepLink, StepFaultless, <1>1, PTL DEF SetupSpec

\* No chip is given up without a fault besides what its resets take down.
THEOREM FaultlessReady == SetupSpec => []FaultlessIsReady
<1>1. FaultlessInv => FaultlessIsReady
  BY DEF FaultlessInv, FaultlessIsReady
<1> QED
  BY Faultless, <1>1, PTL

LEMMA StepFresh ==
  Inv /\ HaltedInv /\ FaultlessInv /\ FreshInv /\ [SetupNext]_setupVars => FreshInv'
<1> SUFFICES ASSUME Inv, HaltedInv, FaultlessInv, FreshInv, [SetupNext]_setupVars, ~glitch',
                    "sysreset" \in chip'.works
             PROVE  FreshInv'
  BY DEF FreshInv
<1> USE DEF FreshInv, AfterRequest
<1>1. CASE Halt \/ Save \/ Catch
  BY <1>1 DEF Halt, Save, Catch, Passes, Fails, FaultlessInv
<1>2. CASE Request
  <2>0. pc = "request" /\ ~glitch /\ attempt \in {1, 2} /\ ~Fails
    <3>1. pc = "request" /\ (UNCHANGED glitch \/ Fails)
      BY <1>2 DEF Request, Resets, Passes
    <3>2. ~glitch
      BY <3>1 DEF Fails
    <3>3. link = "up" /\ attempt \in {1, 2}
      BY <3>1, <3>2 DEF FaultlessInv
    <3> QED
      BY <3>1, <3>2, <3>3 DEF Fails
  <2>1. Attempts[1] = "sysreset" /\ Attempts[2] = "emulated"
    BY DEF Attempts
  <2>2. CASE attempt = 1
    BY <1>2, <2>0, <2>1, <2>2 DEF Request, Resets
  <2>3. CASE attempt = 2
    BY <1>2, <2>0, <2>1, <2>3 DEF Request
  <2> QED
    BY <2>0, <2>2, <2>3
<1>3. CASE Leaving
  BY <1>3 DEF Leaving, Passes, Fails
<1>4. CASE Stopping \/ Xpsr
  BY <1>4 DEF Stopping, Xpsr, Passes, Fails
<1>5. CASE Restore \/ Reconnect
  BY <1>5 DEF Restore, Reconnect, Reconnected
<1>6. CASE Ask
  BY <1>6 DEF Ask, SeenHalted, NotSeen, AfterHalt, Passes, Fails
<1>7. CASE Clear
  <2>0. pc = "clear" /\ UNCHANGED <<chip, core, fresh>>
    BY <1>7 DEF Clear
  <2>a. glitch' = (glitch \/ link = "up") \/ UNCHANGED glitch
    BY <1>7 DEF Clear
  <2>1. ~glitch
    BY <2>a
  <2>2. pc' = "ready" => then = "ready"
    BY <1>7 DEF Clear
  <2>3. pc' \notin AfterRequest
    BY <1>7 DEF Clear
  <2> QED
    BY <2>0, <2>1, <2>2, <2>3 DEF HaltedInv
<1>8. CASE LastHalt \/ LastAsk
  BY <1>8 DEF LastHalt, LastAsk, SeenHalted, NotSeen, Passes, Fails, FaultlessInv
<1>9. CASE Load \/ LetGo
  BY <1>9 DEF Load, LetGo
<1>10. CASE Open \/ Work \/ CloseOnly \/ CloseResets
  BY <1>10 DEF Open, Work, CloseOnly, CloseResets, control
<1>11. CASE LeaveReset
  BY <1>11 DEF LeaveReset, control, HaltedInv
<1>12. CASE UNCHANGED setupVars
  BY <1>12 DEF setupVars, control, target
<1> QED
  BY <1>1, <1>2, <1>3, <1>4, <1>5, <1>6, <1>7, <1>8, <1>9, <1>10, <1>11, <1>12
     DEF SetupNext, Setup

\* On a chip whose SYSRESETREQ works, a faultless setup ends at the reset vector.
THEOREM ReadyIsFresh == SetupSpec => []FreshlyReset
<1>1. SetupInit => FreshInv
  BY DEF SetupInit, FreshInv, AfterRequest
<1>2. FreshInv => FreshlyReset
  BY DEF FreshInv, FreshlyReset
<1> QED
  BY Faultless, StepFresh, <1>1, <1>2, PTL DEF SetupSpec
=============================================================================
