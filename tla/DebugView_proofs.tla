-------------------------- MODULE DebugView_proofs --------------------------
(***************************************************************************)
(* Proofs about pyOCD's view of a core for every memory map, number of     *)
(* comparators and watchpoints, list of registers and sequence of faults:  *)
(* what is read past the memory cache, and through it, is what was stored, *)
(* and what the register cache holds is what the core holds.               *)
(***************************************************************************)
EXTENDS DebugView, FiniteSetTheorems, WellFoundedInduction, TLAPS

\* The inductive invariant for memory: the manager's software breakpoints keep
\* the instruction that the provider hides them with.
ViewInv ==
  /\ session \in Sessions
  /\ DOMAIN mem = Addrs /\ DOMAIN image = Addrs
  /\ \A a \in Soft(DOMAIN table) \intersect DOMAIN sw : table[a].instr = sw[a]
  /\ ViewIsStored

LEMMA InitView == Init => ViewInv
BY DEF Init, ViewInv, ViewIsStored, Filtered, NoneSet, Soft

\* What the program stores and what the debugger's own writes leave.
LEMMA StoreView ==
  ASSUME ViewInv, ProgramStep, UNCHANGED <<session, sw, table>>
  PROVE  ViewInv'
<1>1. CASE UNCHANGED <<mem, image, torn>>
  BY <1>1 DEF ViewInv, ViewIsStored, Filtered, Soft
<1>2. CASE \E a \in session.stores \intersect Addrs, v \in Data :
             /\ mem' = [mem EXCEPT ![a] = v] /\ image' = [image EXCEPT ![a] = v]
             /\ torn' = torn \union ({a} \intersect DOMAIN sw)
  BY <1>2 DEF ViewInv, ViewIsStored, Filtered, Soft
<1> QED
  BY <1>1, <1>2 DEF ProgramStep

LEMMA WriteView == ASSUME ViewInv, WriteMemory PROVE ViewInv'
<1>1. PICK acc \in session.accesses, v \in Data :
        LET S == Span(acc[1], acc[2])
            new == [a \in S |-> v] IN
        \/ /\ mem' = Override(mem, new) /\ image' = Override(image, new)
           /\ torn' = torn \union (S \intersect DOMAIN sw)
        \/ /\ \E k \in 0..acc[2] : mem' = Override(mem, Restrict(new, Span(acc[1], k)))
           /\ torn' = torn \union S /\ UNCHANGED image
  BY DEF WriteMemory
<1> DEFINE S == Span(acc[1], acc[2])
           new == [a \in S |-> v]
<1>2. UNCHANGED <<session, sw, table>>
  BY DEF WriteMemory, breakView
<1> HIDE DEF S
<1>3. CASE /\ mem' = Override(mem, new) /\ image' = Override(image, new)
           /\ torn' = torn \union (S \intersect DOMAIN sw)
  BY <1>2, <1>3 DEF ViewInv, ViewIsStored, Filtered, Override, Soft
<1>4. CASE /\ \E k \in 0..acc[2] : mem' = Override(mem, Restrict(new, Span(acc[1], k)))
           /\ torn' = torn \union S /\ UNCHANGED image
  <2>1. PICK k \in 0..acc[2] : mem' = Override(mem, Restrict(new, Span(acc[1], k)))
    BY <1>4
  <2>2. session.accesses \subseteq Nat \X (Nat \ {0})
    BY DebugViewAssumption DEF ViewInv, Asked
  <2>3. acc[1] \in Nat /\ acc[2] \in Nat
    BY <2>2
  <2>4. Span(acc[1], k) \subseteq S
    BY <2>3 DEF S, Span
  <2>5. DOMAIN mem' = Addrs /\ \A a \in Addrs : a \notin S => mem'[a] = mem[a]
    BY <2>1, <2>4 DEF ViewInv, Override, Restrict
  <2> QED
    BY <1>2, <1>4, <2>5 DEF ViewInv, ViewIsStored, Filtered, Soft
<1> QED
  BY <1>1, <1>3, <1>4 DEF S

\* A BKPT is hidden as soon as it is there; a write that fails and may have
\* come through leaves its address uncertain.
LEMMA SetView == ASSUME ViewInv, SetBreakpoint PROVE ViewInv'
<1>1. PICK a \in session.breaks \ DOMAIN table :
        \/ SetSoftware(a) \/ SetSoftwareFails(a)
        \/ UNCHANGED <<mem, sw, torn>> /\ (table' = Extended(table, a, Hardware) \/ UNCHANGED table)
  BY DEF SetBreakpoint, SetHardware, SetHardwareFails
<1>2. UNCHANGED <<session, image>>
  BY DEF SetBreakpoint
<1>3. CASE SetSoftware(a)
  BY <1>2, <1>3 DEF ViewInv, ViewIsStored, Filtered, SetSoftware, Extended, Soft, Software
<1>4. CASE SetSoftwareFails(a)
  BY <1>2, <1>4 DEF ViewInv, ViewIsStored, Filtered, SetSoftwareFails, Soft
<1>5. CASE UNCHANGED <<mem, sw, torn>> /\ (table' = Extended(table, a, Hardware) \/ UNCHANGED table)
  BY <1>2, <1>5 DEF ViewInv, ViewIsStored, Filtered, Soft, Extended, Hardware
<1> QED
  BY <1>1, <1>3, <1>4, <1>5

\* The instruction that a removal puts back is the one the filter has shown; a
\* lost removal and one for the second time leave their address uncertain.
LEMMA RemoveView ==
  ASSUME ViewInv, NEW S \in SUBSET DOMAIN table, NEW lost, NEW raised, Removing(S, lost, raised),
         \/ UNCHANGED table
         \/ \E T : table' = Without(table, T)
         \/ table' = NoneSet
  PROVE  ViewInv'
<1>1. UNCHANGED <<session, image>> /\ RemoveSoftware(S, lost, raised)
  BY DEF Removing
<1>2. DOMAIN mem' = Addrs
  BY <1>1 DEF RemoveSoftware, ViewInv
<1>3. /\ DOMAIN sw' \subseteq DOMAIN sw /\ \A a \in DOMAIN sw' : sw'[a] = sw[a]
      /\ DOMAIN table' \subseteq DOMAIN table /\ \A a \in DOMAIN table' : table'[a] = table[a]
  BY <1>1 DEF RemoveSoftware, Without, Restrict, NoneSet
<1>4. ASSUME NEW a \in Addrs \ torn' PROVE Filtered(a)' = image[a]
  <2>1. a \notin torn /\ mem'[a] = (IF a \in Soft(S) \ lost THEN table[a].instr ELSE mem[a])
    BY <1>1, <1>4 DEF RemoveSoftware, ViewInv
  <2>2. a \in DOMAIN sw' <=> a \in DOMAIN sw /\ a \notin Soft(S) \ raised
    BY <1>1 DEF RemoveSoftware, Without, Restrict
  <2>3. CASE a \in DOMAIN sw'
    BY <1>3, <2>1, <2>3, <1>4 DEF ViewInv, ViewIsStored, Filtered
  <2>4. CASE a \notin DOMAIN sw' /\ a \in Soft(S)
    <3>1. a \in DOMAIN sw => a \notin lost
      BY <1>1, <1>4, <2>2, <2>4 DEF RemoveSoftware
    <3>2. a \notin DOMAIN sw => a \in lost
      BY <1>1, <1>4, <2>4 DEF RemoveSoftware
    <3> QED
      BY <1>4, <2>1, <2>4, <3>1, <3>2 DEF ViewInv, ViewIsStored, Filtered, Soft
  <2>5. CASE a \notin DOMAIN sw' /\ a \notin Soft(S)
    BY <1>4, <2>1, <2>2, <2>5 DEF ViewInv, ViewIsStored, Filtered
  <2> QED
    BY <2>3, <2>4, <2>5
<1> QED
  BY <1>1, <1>2, <1>3, <1>4 DEF ViewInv, ViewIsStored, Soft

LEMMA StepView == ViewInv /\ [Next]_vars => ViewInv'
<1> SUFFICES ASSUME ViewInv, [Next]_vars PROVE ViewInv'
  OBVIOUS
<1>1. CASE WriteMemory
  BY <1>1, WriteView
<1>2. CASE SetBreakpoint
  BY <1>2, SetView
<1>3. CASE RemoveBreakpoint
  <2>1. PICK a \in DOMAIN table :
          \E lost, raised : Removing({a}, lost, raised) /\ table' = Without(table, {a})
    BY <1>3 DEF RemoveBreakpoint
  <2>2. {a} \in SUBSET DOMAIN table
    OBVIOUS
  <2> QED
    BY <2>1, <2>2, RemoveView
<1>4. CASE RemoveAll
  <2>1. \E S \in SUBSET DOMAIN table : \E lost, raised :
          Removing(S, lost, raised) /\ (table' = NoneSet \/ UNCHANGED table)
    BY <1>4 DEF RemoveAll
  <2> QED
    BY <2>1, RemoveView
<1>5. CASE Step \/ CoreRuns
  <2>1. UNCHANGED <<session, sw, table>>
    BY <1>5 DEF Step, CoreRuns, breakView
  <2>2. CASE ProgramStep
    BY <2>1, <2>2, StoreView
  <2>3. CASE UNCHANGED <<mem, image, torn>>
    BY <2>1, <2>3 DEF ViewInv, ViewIsStored, Filtered, Soft
  <2> QED
    BY <1>5, <2>2, <2>3 DEF Step, CoreRuns
<1>6. CASE \/ Reported \/ Halt \/ Resume \/ Reset \/ CoreSleeps \/ CoreWakes \/ ReadMemory
           \/ Invalidate \/ Registers \/ Watchpoints \/ UNCHANGED vars
  <2>1. UNCHANGED <<session, mem, image, sw, torn, table>>
    BY <1>6 DEF Reported, Halt, Resume, Reset, CoreSleeps, CoreWakes, ReadMemory, Invalidate,
                Registers, ReadRegisters, WriteRegisters, Watchpoints, NoSetting, SetWatchpoint,
                RemoveWatch, Rest, vars, memView, breakView
  <2> QED
    BY <2>1 DEF ViewInv, ViewIsStored, Filtered, Soft
<1> QED
  BY <1>1, <1>2, <1>3, <1>4, <1>5, <1>6
     DEF Next, RunControl, Program, Memory, Breakpoints

\* Through any sequence of setting, removing, failing and storing, a read past
\* the caches (CortexM.read_memory_block8 with filter_memory) answers what the
\* program and the debugger have stored.
THEOREM ViewHolds == Spec => []ViewIsStored
<1>1. ViewInv => ViewIsStored
  BY DEF ViewInv
<1> QED
  BY <1>1, InitView, StepView, PTL DEF Spec

-----------------------------------------------------------------------------
(* The register cache.                                                     *)

\* Every read and write through the context looks at the token first, and a
\* core that is made to run has a new one: if the cache's token is the core's,
\* the core has not run since, unless it has run unnoticed.
RegInv ==
  /\ session \in Sessions /\ token \in Nat /\ rtoken \in Int /\ rtoken <= token
  /\ run \in {"running", "sleeping", "halted"}
  /\ DOMAIN regs = FieldNames
  /\ \A r \in DOMAIN rcache : Fields(r) \subseteq FieldNames
  /\ ~unnoticed /\ rtoken = token =>
       /\ ~IsRunning
       /\ \A r \in DOMAIN rcache \ mixed : rcache[r] = Value(r, regs)

LEMMA InitReg == Init => RegInv
BY DEF Init, RegInv, NoneSet, IsRunning

\* The fields of the registers in a list are registers of the core.
LEMMA ListFields ==
  ASSUME RegInv, NEW list \in session.lists, NEW i \in DOMAIN list
  PROVE  Fields(list[i]) \subseteq FieldNames
<1>1. list \in Asked("lists")
  BY DEF RegInv, Asked
<1> QED
  BY <1>1 DEF FieldNames

LEMMA CfbpFields == ASSUME NEW r \in CfbpRegs PROVE Fields(r) \subseteq FieldNames
BY DEF CfbpRegs, CfbpSubs, Fields, FieldNames

\* Only a part of CFBP can be the register that is not sent.
LEMMA OthersAreSent ==
  ASSUME RegInv, NEW list \in session.lists, NEW i \in DOMAIN list, list[i] \notin CfbpSubs,
         NEW bit \in {0, 1}, NEW x \in Fields(list[i])
  PROVE  Sent(list, bit, regs)[x] = bit
<1>1. i \notin FirstSub(list)
  BY DEF FirstSub
<1>2. x \in FieldNames
  BY ListFields
<1> QED
  BY <1>1, <1>2 DEF Sent

\* A register that shares no field with those written keeps its value.
LEMMA RestIsKept ==
  ASSUME RegInv, NEW list \in session.lists, NEW bit \in {0, 1}, NEW x \in FieldNames,
         \A i \in DOMAIN list : x \notin Fields(list[i])
  PROVE  Sent(list, bit, regs)[x] = regs[x]
BY DEF Sent

LEMMA WriteReg == ASSUME RegInv, WriteRegisters PROVE RegInv'
<1>1. UNCHANGED <<session, run, token, unnoticed>> /\ rtoken' = CheckedToken(rtoken)
  BY DEF WriteRegisters, core, TouchRegisters
<1>2. PICK list \in session.lists, bit \in {0, 1} :
        LET asked == {list[i] : i \in DOMAIN list} IN
        /\ rcache' = RCacheWritten(list, bit)
        /\ \/ /\ regs' = Sent(list, bit, regs)
              /\ mixed' = ((mixed \intersect DOMAIN rcache') \ asked) \union Aliases(asked)
           \/ /\ regs' \in {regs, Sent(list, bit, regs)}
              /\ mixed' = ((mixed \union asked) \intersect DOMAIN rcache') \union Aliases(asked)
  BY DEF WriteRegisters
<1> DEFINE asked == {list[i] : i \in DOMAIN list}
<1>3. /\ rtoken' \in Int /\ rtoken' <= token /\ DOMAIN regs' = FieldNames
      /\ \A r \in DOMAIN rcache' : Fields(r) \subseteq FieldNames
  <2>1. rtoken' \in Int /\ rtoken' <= token
    BY <1>1 DEF RegInv, CheckedToken
  <2>2. DOMAIN regs' = FieldNames
    BY <1>2 DEF RegInv, Sent
  <2>3. DOMAIN rcache' \subseteq DOMAIN rcache \union asked
    BY <1>2 DEF RCacheWritten, RChecked, NoneSet
  <2>4. \A r \in DOMAIN rcache' : Fields(r) \subseteq FieldNames
    BY <2>3, ListFields DEF RegInv
  <2> QED
    BY <2>1, <2>2, <2>4
<1>4. SUFFICES ASSUME ~unnoticed, rtoken' = token
               PROVE  /\ ~IsRunning
                      /\ \A r \in DOMAIN rcache' \ mixed' : rcache'[r] = Value(r, regs')
  BY <1>1, <1>3 DEF RegInv, IsRunning
<1>5. ~IsRunning
  BY <1>1, <1>4 DEF RegInv, CheckedToken, IsRunning
<1>6. \A r \in DOMAIN RChecked \ mixed : RChecked[r] = Value(r, regs)
  BY <1>4, <1>5 DEF RegInv, RChecked, Fresh, IsRunning, NoneSet
<1>7. ASSUME NEW r \in DOMAIN rcache', r \notin mixed'
      PROVE  rcache'[r] = Value(r, regs')
  <2>1. /\ r \in DOMAIN RChecked \union asked
        /\ rcache'[r] = IF r \in asked THEN [x \in Fields(r) |-> bit] ELSE RChecked[r]
        /\ asked \intersect CfbpRegs # {} => r \notin CfbpRegs
    BY <1>2, <1>7 DEF RCacheWritten
  <2>2. CASE r \in asked
    <3>1. regs' = Sent(list, bit, regs) /\ r \notin CfbpRegs
      BY <1>2, <1>7, <2>1, <2>2
    <3>2. PICK i \in DOMAIN list : list[i] = r
      BY <2>2
    <3>3. \A x \in Fields(r) : regs'[x] = bit
      BY <3>1, <3>2, OthersAreSent DEF CfbpRegs
    <3> QED
      BY <2>1, <2>2, <3>3 DEF Value
  <2>3. CASE r \notin asked
    <3>1. r \notin mixed /\ r \in DOMAIN RChecked /\ r \notin Aliases(asked)
      BY <1>2, <1>7, <2>1, <2>3
    <3>2. ASSUME NEW x \in Fields(r), NEW i \in DOMAIN list PROVE x \notin Fields(list[i])
      <4>1. CASE r \notin CfbpRegs
        BY <2>3, <3>1, <4>1 DEF Aliases
      <4>2. CASE r \in CfbpRegs
        <5>1. list[i] \notin CfbpRegs
          BY <2>1, <4>2
        <5> QED
          BY <4>2, <5>1 DEF CfbpRegs, CfbpSubs, Fields
      <4> QED
        BY <4>1, <4>2
    <3>3. ASSUME NEW x \in Fields(r) PROVE regs'[x] = regs[x]
      <4>1. x \in FieldNames
        BY <3>1 DEF RegInv, RChecked, NoneSet
      <4> QED
        BY <1>2, <3>2, <4>1, RestIsKept
    <3>4. Value(r, regs') = Value(r, regs)
      BY <3>3 DEF Value
    <3> QED
      BY <1>6, <2>1, <2>3, <3>1, <3>4
  <2> QED
    BY <2>2, <2>3
<1> QED
  BY <1>5, <1>7

\* Only a halted core is read, and what the cache still held is right.
LEMMA ReadReg == ASSUME RegInv, ReadRegisters PROVE RegInv'
<1>1. UNCHANGED <<session, run, token, unnoticed, regs>> /\ rtoken' = CheckedToken(rtoken)
  BY DEF ReadRegisters, core, TouchRegisters
<1>2. PICK list \in session.lists :
        LET asked == {list[i] : i \in DOMAIN list}
            missing == asked \ DOMAIN RChecked
            reading == missing \union (IF missing \intersect CfbpRegs # {} THEN {"cfbp"} ELSE {})
            stored == reading \union (IF "cfbp" \in reading THEN CfbpRegs ELSE {}) IN
        \/ /\ rcache' = [r \in DOMAIN RChecked \union stored |->
                            IF r \in stored THEN Value(r, regs) ELSE RChecked[r]]
           /\ mixed' = (mixed \intersect DOMAIN RChecked) \ stored
        \/ rcache' = RChecked /\ mixed' = mixed \intersect DOMAIN RChecked
  BY DEF ReadRegisters
<1> DEFINE asked == {list[i] : i \in DOMAIN list}
           missing == asked \ DOMAIN RChecked
           reading == missing \union (IF missing \intersect CfbpRegs # {} THEN {"cfbp"} ELSE {})
           stored == reading \union (IF "cfbp" \in reading THEN CfbpRegs ELSE {})
<1>3. stored \subseteq asked \union CfbpRegs
  BY DEF CfbpRegs
<1>4. \A r \in stored : Fields(r) \subseteq FieldNames
  BY <1>3, ListFields, CfbpFields
<1> HIDE DEF stored, missing
<1>5. PICK new \in {{}, stored} :
        /\ DOMAIN rcache' = DOMAIN RChecked \union new
        /\ \A r \in DOMAIN rcache' :
             rcache'[r] = IF r \in new THEN Value(r, regs) ELSE RChecked[r]
        /\ mixed' = (mixed \intersect DOMAIN RChecked) \ new
  BY <1>2 DEF stored, missing
<1>6. /\ rtoken' \in Int /\ rtoken' <= token
      /\ \A r \in DOMAIN rcache' : Fields(r) \subseteq FieldNames
  <2>1. rtoken' \in Int /\ rtoken' <= token
    BY <1>1 DEF RegInv, CheckedToken
  <2>2. DOMAIN rcache' \subseteq DOMAIN rcache \union stored
    BY <1>5 DEF RChecked, NoneSet
  <2> QED
    BY <1>4, <2>1, <2>2 DEF RegInv
<1>7. SUFFICES ASSUME ~unnoticed, rtoken' = token
               PROVE  /\ ~IsRunning
                      /\ \A r \in DOMAIN rcache' \ mixed' : rcache'[r] = Value(r, regs)
  BY <1>1, <1>6 DEF RegInv, Value, IsRunning
<1>8. ~IsRunning
  BY <1>1, <1>7 DEF RegInv, CheckedToken, IsRunning
<1>9. \A r \in DOMAIN RChecked \ mixed : RChecked[r] = Value(r, regs)
  BY <1>7, <1>8 DEF RegInv, RChecked, Fresh, IsRunning, NoneSet
<1> QED
  BY <1>5, <1>8, <1>9

LEMMA InvalidateReg == ASSUME RegInv, Invalidate PROVE RegInv'
BY DEF RegInv, Invalidate, core, tokens, Value, NoneSet, IsRunning

\* Running on takes a new token first.
LEMMA RunReg ==
  ASSUME RegInv, RunControl \/ Program
  PROVE  RegInv'
<1>1. UNCHANGED <<session, rtoken, rcache, mixed>>
  BY DEF RunControl, Program, Reported, Halt, Resume, Step, Reset, CoreRuns, CoreSleeps,
         CoreWakes, core, regView, tokens
<1>2. DOMAIN regs' = FieldNames
  BY DEF RegInv, RunControl, Program, Reported, Halt, Resume, Step, Reset, CoreRuns, CoreSleeps,
         CoreWakes, ProgramStep, regView
<1>3. run' \in {"running", "sleeping", "halted"}
  BY DEF RegInv, RunControl, Program, Reported, Halt, Resume, Step, Reset, CoreRuns, CoreSleeps,
         CoreWakes, core
<1>4. CASE Reported \/ Halt \/ CoreSleeps
  <2>1. UNCHANGED <<token, unnoticed, regs>> /\ (run' = run \/ run' # "running")
    BY <1>4 DEF Reported, Halt, CoreSleeps, regView, core
  <2> QED
    BY <1>1, <1>3, <2>1 DEF RegInv, Value, IsRunning
<1>5. CASE CountRun
  BY <1>1, <1>2, <1>3, <1>5 DEF RegInv, CountRun
<1>6. CASE unnoticed' = TRUE /\ UNCHANGED token
  BY <1>1, <1>2, <1>3, <1>6 DEF RegInv
<1>7. CASE Step /\ UNCHANGED <<regs, token, unnoticed>>
  BY <1>1, <1>3, <1>7 DEF RegInv, Step, Value, IsRunning
<1>8. CASE CoreRuns
  BY <1>1, <1>2, <1>8 DEF RegInv, CoreRuns, core, IsRunning
<1> QED
  BY <1>4, <1>5, <1>6, <1>7, <1>8 DEF RunControl, Program, Resume, Reset, Step, CoreWakes

LEMMA StepReg == RegInv /\ [Next]_vars => RegInv'
<1> SUFFICES ASSUME RegInv, [Next]_vars PROVE RegInv'
  OBVIOUS
<1>1. CASE Registers
  BY <1>1, ReadReg, WriteReg DEF Registers
<1>2. CASE RunControl \/ Program
  BY <1>2, RunReg
<1>3. CASE Invalidate
  BY <1>3, InvalidateReg
<1>4. CASE ReadMemory \/ WriteMemory \/ Breakpoints \/ Watchpoints \/ UNCHANGED vars
  <2>1. UNCHANGED <<session, core, rtoken, regs, rcache, mixed>>
    BY <1>4 DEF ReadMemory, WriteMemory, TouchMemory, Breakpoints, SetBreakpoint,
                RemoveBreakpoint, RemoveAll, Removing, Watchpoints, NoSetting, SetWatchpoint,
                RemoveWatch, Rest, vars, regView, tokens
  <2> QED
    BY <2>1 DEF RegInv, core, Value, IsRunning
<1> QED
  BY <1>1, <1>2, <1>3, <1>4 DEF Next, Memory

\* A register that RegisterCache would answer has the core's value, also where
\* several names share one register, unless an alias or a failed write came in
\* between or the core has run without a new token: it woke up from sleep, or
\* its step raised after the instruction.
THEOREM RegistersHold == Spec => []RegistersAreCores
<1>1. RegInv => RegistersAreCores
  BY DEF RegInv, RegistersAreCores, Fresh
<1> QED
  BY <1>1, InitReg, StepReg, PTL DEF Spec

-----------------------------------------------------------------------------
(* The breakpoints and the watchpoints.                                    *)

\* A nonempty set of natural numbers has a least member.
LEMMA LeastNumber ==
  ASSUME NEW T \in SUBSET Nat, T # {}
  PROVE  \E n \in T : \A m \in T : n <= m
<1> DEFINE R == OpToRel(<, Nat)
<1>1. IsWellFoundedOn(R, Nat)
  BY NatLessThanWellFounded
<1>2. \A m, n \in Nat : <<m, n>> \in R <=> m < n
  BY DEF OpToRel
<1> HIDE DEF R
<1>3. PICK n \in T : \A m \in T : <<m, n>> \notin R
  BY <1>1, WFMin
<1>4. \A m \in T : ~(m < n)
  BY <1>2, <1>3
<1> QED
  BY <1>4

LEMMA MinIsMember == ASSUME NEW T \in SUBSET Nat, T # {} PROVE Min(T) \in T
<1>1. \E n \in T : \A m \in T : n <= m
  BY LeastNumber
<1> QED
  BY <1>1 DEF Min

\* A watchpoint is in one entry, and the entry of one whose setting never
\* failed is armed.
WatchInv ==
  /\ DOMAIN watch = 1..WatchUnits
  /\ \A i \in DOMAIN watch : DOMAIN watch[i] = {"args", "func", "armed"}
  /\ \A i, j \in DOMAIN watch :
       watch[i].func /\ watch[j].func /\ watch[i].args = watch[j].args => i = j
  /\ \A i \in DOMAIN watch : watch[i].func /\ watch[i].args \notin refused => watch[i].armed
  /\ WatchTrueIsArmed

LEMMA InitWatch == Init => WatchInv
BY DebugViewAssumption DEF Init, WatchInv, NoWatch, WatchTrueIsArmed

LEMMA NoSettingWatch == ASSUME WatchInv, NoSetting PROVE WatchInv'
<1>1. PICK w \in session.watches : answer' = <<w, FoundWatch(w) # {}>>
  BY DEF NoSetting
<1>2. UNCHANGED <<watch, refused>>
  BY DEF NoSetting
<1>3. CASE FoundWatch(w) # {}
  BY <1>1, <1>2, <1>3 DEF WatchInv, WatchTrueIsArmed, FoundWatch
<1>4. CASE FoundWatch(w) = {}
  BY <1>1, <1>2, <1>4 DEF WatchInv, WatchTrueIsArmed
<1> QED
  BY <1>3, <1>4

\* The entry that is filled in was free, and only a setting whose accesses all
\* come through leaves the watchpoint among those not refused.
LEMMA SetWatch == ASSUME WatchInv, SetWatchpoint PROVE WatchInv'
<1>1. PICK w \in session.watches :
        /\ FoundWatch(w) = {} /\ FreeWatch # {}
        /\ \E armed, result \in BOOLEAN :
             /\ watch' = [watch EXCEPT ![Min(FreeWatch)] =
                            [args |-> w, func |-> TRUE, armed |-> armed]]
             /\ answer' = <<w, result>>
             /\ refused' = IF armed THEN refused ELSE refused \union {w}
  BY DEF SetWatchpoint
<1>2. PICK armed, result \in BOOLEAN :
        /\ watch' = [watch EXCEPT ![Min(FreeWatch)] =
                       [args |-> w, func |-> TRUE, armed |-> armed]]
        /\ answer' = <<w, result>>
        /\ refused' = IF armed THEN refused ELSE refused \union {w}
  BY <1>1
<1> DEFINE k == Min(FreeWatch)
<1>3. k \in DOMAIN watch /\ ~watch[k].func
  <2>1. FreeWatch \in SUBSET Nat
    BY DebugViewAssumption DEF FreeWatch, WatchInv
  <2> QED
    BY <1>1, <2>1, MinIsMember DEF FreeWatch
<1> HIDE DEF k
<1>4. /\ DOMAIN watch' = DOMAIN watch
      /\ watch'[k].args = w /\ watch'[k].func /\ watch'[k].armed = armed
      /\ \A i \in DOMAIN watch : i # k => watch'[i] = watch[i]
      /\ DOMAIN watch'[k] = {"args", "func", "armed"}
  BY <1>2, <1>3 DEF k
<1>5. \A i \in DOMAIN watch : ~(watch[i].args = w /\ watch[i].func)
  BY <1>1 DEF FoundWatch
<1>6. refused \subseteq refused' /\ (~armed => w \in refused')
  BY <1>2
<1>7. \A i, j \in DOMAIN watch' :
        watch'[i].func /\ watch'[j].func /\ watch'[i].args = watch'[j].args => i = j
  BY <1>4, <1>5 DEF WatchInv
<1>8. \A i \in DOMAIN watch' :
        watch'[i].func /\ watch'[i].args \notin refused' => watch'[i].armed
  BY <1>2, <1>4, <1>6 DEF WatchInv
<1>9. WatchTrueIsArmed'
  <2>1. SUFFICES ASSUME w \notin refused' PROVE watch'[k].args = w /\ watch'[k].armed
    BY <1>2, <1>3, <1>4 DEF WatchTrueIsArmed
  <2> QED
    BY <1>4, <1>6, <2>1
<1> QED
  BY <1>4, <1>7, <1>8, <1>9 DEF WatchInv

\* Removing frees the one entry that is found, so that no entry is left
\* unarmed when the watchpoint no longer counts as refused.
LEMMA RemoveWatchStep == ASSUME WatchInv, RemoveWatch PROVE WatchInv'
<1>1. PICK w \in session.watches :
        /\ FoundWatch(w) # {}
        /\ \/ watch' = [watch EXCEPT ![Min(FoundWatch(w))].func = FALSE,
                                     ![Min(FoundWatch(w))].armed = FALSE]
           \/ watch' = [watch EXCEPT ![Min(FoundWatch(w))].func = FALSE]
        /\ answer' = <<>> /\ refused' = refused \ {w}
  BY DEF RemoveWatch
<1> DEFINE k == Min(FoundWatch(w))
<1>2. k \in DOMAIN watch /\ watch[k].func /\ watch[k].args = w
  <2>1. FoundWatch(w) \in SUBSET Nat
    BY DebugViewAssumption DEF FoundWatch, WatchInv
  <2> QED
    BY <1>1, <2>1, MinIsMember DEF FoundWatch
<1>3. /\ DOMAIN watch' = DOMAIN watch
      /\ ~watch'[k].func
      /\ \A i \in DOMAIN watch : i # k => watch'[i] = watch[i]
  <2>1. DOMAIN watch' = DOMAIN watch /\ \A i \in DOMAIN watch : i # k => watch'[i] = watch[i]
    BY <1>1, <1>2
  <2>2. ~watch'[k].func
    BY <1>1, <1>2 DEF WatchInv
  <2> QED
    BY <2>1, <2>2
<1> HIDE DEF k
<1>4. \A i \in DOMAIN watch : i # k /\ watch[i].func => watch[i].args # w
  BY <1>2 DEF WatchInv
<1>5. \A i \in DOMAIN watch' :
        watch'[i].func /\ watch'[i].args \notin refused' => watch'[i].armed
  BY <1>1, <1>3, <1>4 DEF WatchInv
<1>6. \A i, j \in DOMAIN watch' :
        watch'[i].func /\ watch'[j].func /\ watch'[i].args = watch'[j].args => i = j
  BY <1>3 DEF WatchInv
<1> QED
  BY <1>1, <1>3, <1>5, <1>6 DEF WatchInv, WatchTrueIsArmed

LEMMA StepWatch == WatchInv /\ [Next]_vars => WatchInv'
<1> SUFFICES ASSUME WatchInv, [Next]_vars PROVE WatchInv'
  OBVIOUS
<1>1. CASE Watchpoints
  BY <1>1, NoSettingWatch, SetWatch, RemoveWatchStep DEF Watchpoints
<1>2. CASE RunControl \/ Program \/ Memory \/ Breakpoints \/ Registers \/ UNCHANGED vars
  <2>1. UNCHANGED <<watch, answer, refused>>
    BY <1>2 DEF RunControl, Program, Memory, Breakpoints, Registers, Reported, Halt, Resume,
                Step, Reset, CoreRuns, CoreSleeps, CoreWakes, ReadMemory, WriteMemory, Invalidate,
                SetBreakpoint, RemoveBreakpoint, RemoveAll, Removing, ReadRegisters,
                WriteRegisters, vars, dwt
  <2> QED
    BY <2>1 DEF WatchInv, WatchTrueIsArmed
<1> QED
  BY <1>1, <1>2 DEF Next

\* Without failures the addresses that hold a BKPT are those of the software
\* breakpoints in the table, each enabled comparator holds the address of one
\* hardware breakpoint, and the count is that of the enabled comparators.
Clean == faults = 0 /\ torn = {}

SoftInv ==
  /\ DOMAIN sw = Soft(DOMAIN table)
  /\ \A a \in Addrs : mem[a] = Bkpt <=> a \in DOMAIN sw

Enabled == {i \in DOMAIN comps : comps[i].enabled}
Hard(S) == {a \in S : table[a].type = "hw"}

HardInv ==
  /\ comps \in [1..Comparators -> [enabled : BOOLEAN, addr : Int]]
  /\ DOMAIN active = 1..Comparators
  /\ \A i \in DOMAIN comps : active[i] = IF comps[i].enabled THEN comps[i].addr ELSE -1
  /\ \A i, j \in Enabled : comps[i].addr = comps[j].addr => i = j
  /\ Hard(DOMAIN table) = {comps[i].addr : i \in Enabled}
  /\ used = Cardinality(Enabled)

ProbeInv == faults \in Nat /\ (late => faults > 0)

BreakInv ==
  /\ ViewInv /\ ProbeInv
  /\ \A a \in Addrs : image[a] \in Data
  /\ DOMAIN table \subseteq session.breaks
  /\ \A a \in DOMAIN table : table[a].type \in {"sw", "hw"}
  /\ Clean => SoftInv /\ HardInv

\* Whatever fails is counted, and a failure still to be reported was.
LEMMA ProbeStep ==
  ASSUME ProbeInv, Well \/ Raises \/ Loses \/ Told \/ Lost \/ UNCHANGED probe
  PROVE  /\ ProbeInv'
         /\ faults' = 0 => faults = 0 /\ ~late /\ ~Raises /\ ~Loses /\ ~Told /\ ~Lost /\ UNCHANGED probe
BY DEF ProbeInv, Well, Raises, Loses, Told, Lost, Fault, probe

LEMMA BreakAddrs == ASSUME ViewInv PROVE session.breaks \subseteq Addrs \intersect Nat
<1>1. session.breaks \subseteq Asked("breaks")
  BY DEF ViewInv, Asked
<1> QED
  BY <1>1, DebugViewAssumption DEF Addrs

LEMMA BreaksAreSet == BreakInv => BreakpointsAreSet
<1> SUFFICES ASSUME BreakInv, Clean
             PROVE  /\ DOMAIN table = {a \in Addrs : mem[a] = Bkpt}
                                        \union ({active[i] : i \in DOMAIN active} \ {-1})
                    /\ used = Cardinality({i \in DOMAIN active : active[i] # -1})
  BY DEF BreakpointsAreSet, Clean
<1>1. SoftInv /\ HardInv /\ DOMAIN table \subseteq Addrs \intersect Nat
  BY BreakAddrs DEF BreakInv
<1>2. \A i \in Enabled : comps[i].addr \in Nat
  BY <1>1 DEF HardInv, Hard
<1>3. {i \in DOMAIN active : active[i] # -1} = Enabled
  BY <1>1, <1>2 DEF HardInv, Enabled
<1>4. {active[i] : i \in DOMAIN active} \ {-1} = {comps[i].addr : i \in Enabled}
  BY <1>1, <1>2 DEF HardInv, Enabled
<1>5. {a \in Addrs : mem[a] = Bkpt} = Soft(DOMAIN table)
  BY <1>1 DEF SoftInv, Soft
<1>6. DOMAIN table = Soft(DOMAIN table) \union Hard(DOMAIN table)
  BY DEF BreakInv, Soft, Hard
<1> QED
  BY <1>1, <1>3, <1>4, <1>5, <1>6 DEF HardInv

LEMMA InitBreak == Init => BreakInv
<1> SUFFICES ASSUME Init PROVE BreakInv
  OBVIOUS
<1>1. ViewInv
  BY InitView
<1>2. /\ faults = 0 /\ late = FALSE /\ torn = {} /\ sw = NoneSet /\ table = NoneSet /\ used = 0
      /\ \E v \in Data : mem = [a \in Addrs |-> v]
      /\ image = mem
      /\ comps = [i \in 1..Comparators |-> [enabled |-> FALSE, addr |-> 0]]
      /\ active = [i \in 1..Comparators |-> -1]
  BY DEF Init
<1>3. DOMAIN table = {} /\ DOMAIN sw = {}
  BY <1>2 DEF NoneSet
<1>4. Enabled = {}
  BY <1>2 DEF Enabled
<1>5. HardInv
  BY <1>2, <1>3, <1>4, FS_EmptySet DEF HardInv, Hard
<1>6. SoftInv
  BY <1>2, <1>3, DebugViewAssumption DEF SoftInv, Soft
<1> QED
  BY <1>1, <1>2, <1>3, <1>5, <1>6 DEF BreakInv, ProbeInv

\* Nothing is stored over a BKPT without leaving its mark in torn.
LEMMA StoreBreak ==
  ASSUME BreakInv, ProgramStep, UNCHANGED <<session, sw, table, comps, active, used>>,
         Raises \/ UNCHANGED probe
  PROVE  BreakInv'
<1>1. ViewInv' /\ ProbeInv' /\ (faults' = 0 => faults = 0)
  BY StoreView, ProbeStep DEF BreakInv
<1>2. /\ \A a \in Addrs : image'[a] \in Data
      /\ torn' = {} => torn = {} /\ (SoftInv => SoftInv')
  <2>1. CASE UNCHANGED <<mem, image, torn>>
    BY <2>1 DEF BreakInv, SoftInv, Soft
  <2>2. CASE \E a \in session.stores \intersect Addrs, v \in Data :
               /\ mem' = [mem EXCEPT ![a] = v] /\ image' = [image EXCEPT ![a] = v]
               /\ torn' = torn \union ({a} \intersect DOMAIN sw)
    BY <2>2, DebugViewAssumption DEF BreakInv, ViewInv, SoftInv, Soft
  <2> QED
    BY <2>1, <2>2 DEF ProgramStep
<1>3. HardInv => HardInv'
  BY DEF HardInv, Enabled, Hard
<1> QED
  BY <1>1, <1>2, <1>3 DEF BreakInv, Clean

LEMMA WriteBreak == ASSUME BreakInv, WriteMemory PROVE BreakInv'
<1>1. ViewInv'
  BY WriteView DEF BreakInv
<1>2. UNCHANGED <<session, sw, table, comps, active, used>>
  BY DEF WriteMemory, breakView
<1>3. PICK acc \in session.accesses, v \in Data :
        LET S == Span(acc[1], acc[2])
            new == [a \in S |-> v] IN
        \/ /\ mem' = Override(mem, new) /\ image' = Override(image, new)
           /\ torn' = torn \union (S \intersect DOMAIN sw)
           /\ UNCHANGED probe
        \/ (Raises \/ Loses) /\ UNCHANGED image
  BY DEF WriteMemory, Well
<1> DEFINE S == Span(acc[1], acc[2])
           new == [a \in S |-> v]
<1> HIDE DEF S
<1>4. CASE /\ mem' = Override(mem, new) /\ image' = Override(image, new)
           /\ torn' = torn \union (S \intersect DOMAIN sw)
           /\ UNCHANGED probe
  <2>1. \A a \in Addrs : /\ image'[a] = IF a \in S THEN v ELSE image[a]
                         /\ mem'[a] = IF a \in S THEN v ELSE mem[a]
    BY <1>4 DEF BreakInv, ViewInv, Override
  <2>2. ASSUME Clean' PROVE Clean /\ SoftInv' /\ HardInv'
    <3>1. Clean /\ S \intersect DOMAIN sw = {}
      BY <1>4, <2>2 DEF Clean, probe
    <3>2. SoftInv /\ HardInv
      BY <3>1 DEF BreakInv
    <3>3. SoftInv'
      BY <1>2, <2>1, <3>1, <3>2, DebugViewAssumption DEF SoftInv, Soft
    <3> QED
      BY <1>2, <3>1, <3>2, <3>3 DEF HardInv, Enabled, Hard
  <2>3. ProbeInv'
    BY <1>4 DEF BreakInv, ProbeInv, probe
  <2> QED
    BY <1>1, <1>2, <1>4, <2>1, <2>2, <2>3 DEF BreakInv
<1>5. CASE (Raises \/ Loses) /\ UNCHANGED image
  <2>1. ProbeInv' /\ ~Clean'
    BY <1>5, ProbeStep DEF BreakInv, Clean
  <2> QED
    BY <1>1, <1>2, <1>5, <2>1 DEF BreakInv
<1> QED
  BY <1>3, <1>4, <1>5 DEF S

\* The breakpoint that is set was not in the table, and the comparator it
\* takes was free.
LEMMA SetBreak == ASSUME BreakInv, SetBreakpoint PROVE BreakInv'
<1>1. ViewInv'
  BY SetView DEF BreakInv
<1>2. PICK a \in session.breaks \ DOMAIN table :
        \/ SetSoftware(a) /\ UNCHANGED <<comps, active, used>>
        \/ SetHardware(a) /\ UNCHANGED <<mem, sw, torn>>
        \/ SetSoftwareFails(a) \/ SetHardwareFails(a)
  BY DEF SetBreakpoint
<1>3. UNCHANGED <<session, image>>
  BY DEF SetBreakpoint
<1>4. a \in Addrs /\ a \in Nat
  BY BreakAddrs DEF BreakInv
<1>5. CASE SetSoftware(a) /\ UNCHANGED <<comps, active, used>>
  <2>1. /\ DOMAIN table' = DOMAIN table \union {a} /\ table'[a].type = "sw"
        /\ \A b \in DOMAIN table : table'[b] = table[b]
        /\ DOMAIN sw' = DOMAIN sw \union {a}
    BY <1>2, <1>5 DEF SetSoftware, Extended, Software
  <2>2. /\ UNCHANGED torn
        /\ \/ mem' = [mem EXCEPT ![a] = Bkpt] /\ Well
           \/ Loses
    BY <1>5 DEF SetSoftware
  <2>3. ProbeInv' /\ (faults' = 0 => faults = 0 /\ ~Loses)
    BY <2>2, ProbeStep DEF BreakInv
  <2>4. ASSUME Clean' PROVE SoftInv' /\ HardInv'
    <3>1. /\ SoftInv /\ HardInv
          /\ \A b \in Addrs : mem'[b] = IF b = a THEN Bkpt ELSE mem[b]
      BY <1>4, <2>2, <2>3, <2>4 DEF BreakInv, Clean, ViewInv
    <3>2. SoftInv'
      BY <1>4, <2>1, <3>1 DEF SoftInv, Soft
    <3>3. Hard(DOMAIN table)' = Hard(DOMAIN table)
      BY <1>2, <2>1 DEF Hard
    <3> QED
      BY <1>5, <3>1, <3>2, <3>3 DEF HardInv, Enabled
  <2>5. \A b \in DOMAIN table' : table'[b].type \in {"sw", "hw"}
    BY <2>1 DEF BreakInv
  <2> QED
    BY <1>1, <1>2, <1>3, <2>1, <2>3, <2>4, <2>5 DEF BreakInv
<1>6. CASE SetHardware(a) /\ UNCHANGED <<mem, sw, torn>>
  <2>1. /\ DOMAIN table' = DOMAIN table \union {a} /\ table'[a].type = "hw"
        /\ \A b \in DOMAIN table : table'[b] = table[b]
    BY <1>2, <1>6 DEF SetHardware, Extended, Hardware
  <2>2. \/ active' = [active EXCEPT ![Min(FreeComps)] = a] /\ UNCHANGED probe
        \/ Lost
    BY <1>6 DEF SetHardware
  <2>3. ProbeInv' /\ (faults' = 0 => faults = 0 /\ ~Lost)
    BY <2>2, ProbeStep DEF BreakInv
  <2>4. ASSUME Clean' PROVE SoftInv' /\ HardInv'
    <3>1. SoftInv /\ HardInv
      BY <1>6, <2>3, <2>4 DEF BreakInv, Clean
    <3>2. SoftInv'
      BY <1>2, <1>6, <2>1, <3>1 DEF SoftInv, BreakInv, ViewInv, Soft
    <3> DEFINE k == Min(FreeComps)
    <3>3. k \in DOMAIN comps /\ ~comps[k].enabled
      <4>1. FreeComps \in SUBSET Nat
        BY <3>1, DebugViewAssumption DEF FreeComps, HardInv
      <4> QED
        BY <1>6, <4>1, MinIsMember DEF FreeComps, SetHardware
    <3>4. /\ comps' = [comps EXCEPT ![k] = [enabled |-> TRUE, addr |-> a]]
          /\ active' = [active EXCEPT ![k] = a]
          /\ used' = used + 1
      BY <1>6, <2>2, <2>3, <2>4 DEF SetHardware, Clean
    <3> HIDE DEF k
    <3>5. /\ comps' \in [1..Comparators -> [enabled : BOOLEAN, addr : Int]]
          /\ DOMAIN active' = 1..Comparators
          /\ \A i \in DOMAIN comps' :
               active'[i] = IF comps'[i].enabled THEN comps'[i].addr ELSE -1
      BY <1>4, <3>1, <3>3, <3>4 DEF HardInv
    <3>6. /\ Enabled' = Enabled \union {k} /\ k \notin Enabled
          /\ comps'[k].addr = a
          /\ \A i \in Enabled : comps'[i] = comps[i]
      BY <3>1, <3>3, <3>4 DEF Enabled, HardInv
    <3>7. \A i \in Enabled : comps[i].addr # a
      BY <1>2, <3>1 DEF HardInv, Hard
    <3>8. \A i, j \in Enabled' : comps'[i].addr = comps'[j].addr => i = j
      BY <3>1, <3>6, <3>7 DEF HardInv
    <3>9. Hard(DOMAIN table)' = {comps'[i].addr : i \in Enabled'}
      <4>1. Hard(DOMAIN table)' = Hard(DOMAIN table) \union {a}
        BY <1>2, <2>1 DEF Hard
      <4> QED
        BY <3>1, <3>6, <4>1 DEF HardInv
    <3>10. used' = Cardinality(Enabled')
      <4>1. IsFiniteSet(1..Comparators) /\ Enabled \subseteq 1..Comparators
        BY <3>1, FS_Interval, DebugViewAssumption DEF Enabled, HardInv
      <4>2. IsFiniteSet(Enabled)
        BY <4>1, FS_Subset
      <4>3. Cardinality(Enabled \union {k}) = Cardinality(Enabled) + 1
        BY <3>6, <4>2, FS_AddElement
      <4> QED
        BY <3>1, <3>4, <3>6, <4>3 DEF HardInv
    <3> QED
      BY <3>2, <3>5, <3>8, <3>9, <3>10 DEF HardInv
  <2>5. \A b \in DOMAIN table' : table'[b].type \in {"sw", "hw"}
    BY <2>1 DEF BreakInv
  <2> QED
    BY <1>1, <1>2, <1>3, <2>1, <2>3, <2>4, <2>5 DEF BreakInv
<1>7. CASE SetSoftwareFails(a) \/ SetHardwareFails(a)
  <2>1. UNCHANGED table /\ (Raises \/ Told)
    BY <1>7 DEF SetSoftwareFails, SetHardwareFails, Refused
  <2>2. ProbeInv' /\ ~Clean'
    BY <2>1, ProbeStep DEF BreakInv, Clean
  <2> QED
    BY <1>1, <1>3, <2>1, <2>2 DEF BreakInv
<1> QED
  BY <1>2, <1>5, <1>6, <1>7

\* The comparator that is found by its address is the one that holds it.
LEMMA RemoveHard ==
  ASSUME HardInv, NEW S \in SUBSET DOMAIN table, RemoveHardware(S, {}, {}),
         \A a \in DOMAIN table : table[a].type \in {"sw", "hw"},
         DOMAIN table' = DOMAIN table \ S, \A a \in DOMAIN table' : table'[a] = table[a],
         DOMAIN table \subseteq Nat
  PROVE  HardInv'
<1> DEFINE at == {i \in Enabled : comps[i].addr \in Hard(S)}
<1>1. \A a \in Hard(S) : CompAt(a) # {} /\ Min(CompAt(a)) \in CompAt(a)
  <2>1. SUFFICES ASSUME NEW a \in Hard(S) PROVE CompAt(a) # {} /\ Min(CompAt(a)) \in CompAt(a)
    OBVIOUS
  <2>2. a \in Hard(DOMAIN table)
    BY DEF Hard
  <2>3. CompAt(a) # {}
    BY <2>2 DEF HardInv, CompAt, Enabled
  <2>4. CompAt(a) \in SUBSET Nat
    BY DebugViewAssumption DEF CompAt, HardInv
  <2> QED
    BY <2>3, <2>4, MinIsMember
<1>2. at = Comps(S)
  <2>1. ASSUME NEW a \in Hard(S) PROVE Min(CompAt(a)) \in at
    BY <1>1 DEF CompAt, Enabled
  <2>2. ASSUME NEW i \in at PROVE i = Min(CompAt(comps[i].addr))
    BY <1>1 DEF CompAt, Enabled, HardInv
  <2>3. S \ Soft(S) = Hard(S)
    BY DEF Soft, Hard
  <2>4. Comps(S) = {Min(CompAt(a)) : a \in Hard(S)}
    BY <1>1, <2>3 DEF Comps
  <2> HIDE DEF at
  <2>5. \A i \in at : comps[i].addr \in Hard(S)
    BY DEF at
  <2> QED
    BY <2>1, <2>2, <2>4, <2>5
<1>3. /\ comps' = [i \in DOMAIN comps |->
                     IF i \in at THEN [comps[i] EXCEPT !.enabled = FALSE] ELSE comps[i]]
      /\ active' = [i \in DOMAIN active |-> IF i \in at THEN -1 ELSE active[i]]
      /\ used' = used - Cardinality(at)
  <2> HIDE DEF at
  <2>1. S \ {} = S
    OBVIOUS
  <2> QED
    BY <1>2, <2>1 DEF RemoveHardware
<1>4. Enabled' = Enabled \ at
  <2>1. comps \in [1..Comparators -> [enabled : BOOLEAN, addr : Int]] /\ DOMAIN comps' = DOMAIN comps
    BY <1>3 DEF HardInv
  <2>2. \A i \in DOMAIN comps : comps'[i].enabled = IF i \in at THEN FALSE ELSE comps[i].enabled
    BY <1>3, <2>1
  <2> QED
    BY <2>1, <2>2 DEF Enabled
<1>5. /\ comps' \in [1..Comparators -> [enabled : BOOLEAN, addr : Int]]
      /\ DOMAIN active' = 1..Comparators
      /\ \A i \in DOMAIN comps' :
           active'[i] = IF comps'[i].enabled THEN comps'[i].addr ELSE -1
  <2>1. comps \in [1..Comparators -> [enabled : BOOLEAN, addr : Int]] /\ DOMAIN active = 1..Comparators
    BY DEF HardInv
  <2>2. ASSUME NEW i \in 1..Comparators
        PROVE  /\ comps'[i] \in [enabled : BOOLEAN, addr : Int]
               /\ comps'[i].addr = comps[i].addr
               /\ comps'[i].enabled = IF i \in at THEN FALSE ELSE comps[i].enabled
               /\ active'[i] = IF i \in at THEN -1 ELSE active[i]
    <3> HIDE DEF at
    <3> QED
      BY <1>3, <2>1
  <2>3. comps' \in [1..Comparators -> [enabled : BOOLEAN, addr : Int]] /\ DOMAIN active' = 1..Comparators
    BY <1>3, <2>1, <2>2
  <2>4. ASSUME NEW i \in 1..Comparators
        PROVE  active'[i] = IF comps'[i].enabled THEN comps'[i].addr ELSE -1
    <3> HIDE DEF at
    <3> QED
      BY <2>1, <2>2 DEF HardInv
  <2> QED
    BY <2>3, <2>4
<1>6. \A i \in Enabled' : comps'[i].addr = comps[i].addr /\ i \in Enabled
  BY <1>3, <1>4 DEF Enabled
<1>7. \A i, j \in Enabled' : comps'[i].addr = comps'[j].addr => i = j
  BY <1>6 DEF HardInv
<1>8. Hard(DOMAIN table)' = {comps'[i].addr : i \in Enabled'}
  <2>1. Hard(DOMAIN table)' = Hard(DOMAIN table) \ S
    <3>1. \A a \in DOMAIN table' : table'[a].type = table[a].type
      OBVIOUS
    <3>2. DOMAIN table' = DOMAIN table \ S
      OBVIOUS
    <3> QED
      BY ONLY <3>1, <3>2 DEF Hard
  <2>2. ASSUME NEW i \in Enabled PROVE i \in at <=> comps[i].addr \in S
    <3>1. comps[i].addr \in Hard(DOMAIN table)
      BY DEF HardInv
    <3> QED
      BY <3>1 DEF Hard
  <2> HIDE DEF at
  <2>3. {comps'[i].addr : i \in Enabled'} = {comps[i].addr : i \in Enabled \ at}
    BY <1>4, <1>6
  <2>4. Hard(DOMAIN table) = {comps[i].addr : i \in Enabled}
    BY DEF HardInv
  <2> QED
    BY ONLY <2>1, <2>2, <2>3, <2>4
<1>9. used' = Cardinality(Enabled')
  <2>1. IsFiniteSet(1..Comparators) /\ Enabled \subseteq 1..Comparators
    BY FS_Interval, DebugViewAssumption DEF Enabled, HardInv
  <2>2. IsFiniteSet(Enabled)
    BY <2>1, FS_Subset
  <2>3. Cardinality(Enabled \ at) = Cardinality(Enabled) - Cardinality(Enabled \intersect at)
    BY <2>2, FS_Difference
  <2>4. Enabled \intersect at = at
    OBVIOUS
  <2> QED
    BY <1>3, <1>4, <2>3, <2>4 DEF HardInv
<1> QED
  BY <1>5, <1>7, <1>8, <1>9 DEF HardInv

\* The instruction that is put back is not a BKPT.
LEMMA RemoveSoft ==
  ASSUME BreakInv, SoftInv, torn = {}, NEW S \in SUBSET DOMAIN table, RemoveSoftware(S, {}, {}),
         DOMAIN table' = DOMAIN table \ S, \A a \in DOMAIN table' : table'[a] = table[a]
  PROVE  SoftInv'
<1>1. Soft(S) \subseteq DOMAIN sw /\ Soft(DOMAIN table)' = Soft(DOMAIN table) \ Soft(S)
  BY DEF Soft, SoftInv
<1>2. \A a \in Soft(S) : a \in Addrs /\ table[a].instr = sw[a] /\ sw[a] # Bkpt
  BY <1>1, BreakAddrs, DebugViewAssumption DEF BreakInv, ViewInv, ViewIsStored, Filtered, Soft
<1>3. DOMAIN sw' = DOMAIN sw \ Soft(S)
  BY DEF RemoveSoftware, Without, Restrict
<1>4. \A a \in Addrs : mem'[a] = IF a \in Soft(S) THEN sw[a] ELSE mem[a]
  BY <1>2 DEF RemoveSoftware, BreakInv, ViewInv
<1>5. \A a \in Addrs : mem'[a] = Bkpt <=> a \in DOMAIN sw'
  BY <1>2, <1>3, <1>4 DEF SoftInv
<1> QED
  BY <1>1, <1>3, <1>5 DEF SoftInv

LEMMA StepBreak == BreakInv /\ [Next]_vars => BreakInv'
<1> SUFFICES ASSUME BreakInv, [Next]_vars PROVE BreakInv'
  OBVIOUS
<1>1. ViewInv'
  BY StepView DEF BreakInv
<1>2. CASE WriteMemory
  BY <1>2, WriteBreak
<1>3. CASE SetBreakpoint
  BY <1>3, SetBreak
<1>4. CASE Step \/ CoreRuns
  <2>1. UNCHANGED <<session, sw, table, comps, active, used>> /\ (Raises \/ UNCHANGED probe)
    BY <1>4 DEF Step, CoreRuns, breakView, Well
  <2>2. CASE ProgramStep
    BY <2>1, <2>2, StoreBreak
  <2>3. CASE UNCHANGED <<mem, image, torn>> /\ Raises
    <3>1. ProbeInv' /\ ~Clean'
      BY <2>3, ProbeStep DEF BreakInv, Clean
    <3> QED
      BY <1>1, <2>1, <2>3, <3>1 DEF BreakInv
  <2> QED
    BY <1>4, <2>2, <2>3 DEF Step, CoreRuns
<1>5. ASSUME NEW S \in SUBSET DOMAIN table, NEW lost, NEW raised, Removing(S, lost, raised),
             DOMAIN table' \subseteq DOMAIN table,
             \A a \in DOMAIN table' : table'[a] = table[a],
             \/ DOMAIN table' = DOMAIN table \ S
             \/ raised \union Stale(S) # {}
      PROVE  BreakInv'
  <2>1. /\ UNCHANGED <<session, image>>
        /\ RemoveSoftware(S, lost, raised) /\ RemoveHardware(S, lost, raised)
        /\ \/ lost = {} /\ raised = {} /\ UNCHANGED probe
           \/ Lost \/ Raises \/ Told
    BY <1>5 DEF Removing, Refused
  <2>2. ProbeInv' /\ (faults' = 0 => faults = 0 /\ lost = {} /\ raised = {})
    BY <2>1, ProbeStep DEF BreakInv
  <2>3. ASSUME Clean' PROVE SoftInv' /\ HardInv'
    <3>1. /\ RemoveSoftware(S, {}, {}) /\ RemoveHardware(S, {}, {}) /\ raised = {}
          /\ SoftInv /\ HardInv /\ torn = {}
      BY <2>1, <2>2, <2>3 DEF Clean, BreakInv, RemoveSoftware
    <3>2. Stale(S) = {}
      BY <3>1 DEF Stale, SoftInv, Soft
    <3>3. DOMAIN table' = DOMAIN table \ S
      BY <1>5, <3>1, <3>2
    <3>4. DOMAIN table \subseteq Nat
      BY BreakAddrs DEF BreakInv
    <3>5. SoftInv'
      BY <1>5, <3>1, <3>3, RemoveSoft
    <3>6. \A a \in DOMAIN table : table[a].type \in {"sw", "hw"}
      BY DEF BreakInv
    <3>7. HardInv'
      BY <1>5, <3>1, <3>3, <3>4, <3>6, RemoveHard
    <3> QED
      BY <3>5, <3>7
  <2> QED
    BY <1>1, <1>5, <2>1, <2>2, <2>3 DEF BreakInv
<1>6. CASE RemoveBreakpoint
  <2>1. PICK a \in DOMAIN table :
          \E lost, raised : Removing({a}, lost, raised) /\ table' = Without(table, {a})
    BY <1>6 DEF RemoveBreakpoint
  <2>2. DOMAIN table' = DOMAIN table \ {a} /\ \A b \in DOMAIN table' : table'[b] = table[b]
    BY <2>1 DEF Without, Restrict
  <2> QED
    BY <1>5, <2>1, <2>2
<1>7. CASE RemoveAll
  <2>1. PICK S \in SUBSET DOMAIN table :
          \E lost, raised :
            /\ Removing(S, lost, raised)
            /\ \/ S = DOMAIN table /\ table' = NoneSet
               \/ raised \union Stale(S) # {} /\ UNCHANGED table
    BY <1>7 DEF RemoveAll
  <2>2. table' = NoneSet => DOMAIN table' = {}
    BY DEF NoneSet
  <2> QED
    BY <1>5, <2>1, <2>2
<1>8. CASE \/ Reported \/ Halt \/ Resume \/ Reset \/ CoreSleeps \/ CoreWakes \/ ReadMemory
           \/ Invalidate \/ Registers \/ Watchpoints \/ UNCHANGED vars
  <2>1. UNCHANGED <<session, mem, image, sw, torn, table, comps, active, used>>
    BY <1>8 DEF Reported, Halt, Resume, Reset, CoreSleeps, CoreWakes, ReadMemory, Invalidate,
                Registers, ReadRegisters, WriteRegisters, Watchpoints, NoSetting, SetWatchpoint,
                RemoveWatch, Rest, vars, memView, breakView
  <2>2. Well \/ Raises \/ Loses \/ Told \/ Lost \/ UNCHANGED probe
    BY <1>8 DEF Reported, Halt, Resume, Reset, CoreSleeps, CoreWakes, ReadMemory, Invalidate,
                Registers, ReadRegisters, WriteRegisters, Watchpoints, NoSetting, SetWatchpoint,
                RemoveWatch, Refused, vars
  <2>3. ProbeInv' /\ (Clean' => Clean)
    BY <2>1, <2>2, ProbeStep DEF BreakInv, Clean
  <2>4. (SoftInv => SoftInv') /\ (HardInv => HardInv')
    BY <2>1 DEF SoftInv, HardInv, Enabled, Soft, Hard
  <2> QED
    BY <1>1, <2>1, <2>3, <2>4 DEF BreakInv
<1> QED
  BY <1>2, <1>3, <1>4, <1>6, <1>7, <1>8
     DEF Next, RunControl, Program, Memory, Breakpoints

\* Through any sequence of setting and removing breakpoints, of either kind
\* and with any number of comparators, the core stops exactly where the
\* BreakpointManager's table says, no comparator is left over, and a watchpoint
\* that DWT.set_watchpoint says is set is armed.
THEOREM StopsHold == Spec => []StopsWhereAsked
<1>1. WatchInv /\ BreakInv => StopsWhereAsked
  BY BreaksAreSet DEF WatchInv, StopsWhereAsked
<1> QED
  BY <1>1, InitWatch, StepWatch, InitBreak, StepBreak, PTL DEF Spec

-----------------------------------------------------------------------------
(* Induction, about a set as the provers take no predicate.                *)

LEMMA Induct ==
  ASSUME NEW S, 0 \in S, \A n \in Nat : n \in S => n + 1 \in S
  PROVE  \A n \in Nat : n \in S
<1> DEFINE T == Nat \ S
<1>1. SUFFICES ASSUME T # {} PROVE FALSE
  OBVIOUS
<1>2. PICK n \in T : \A m \in T : n <= m
  BY <1>1, LeastNumber
<1>3. n # 0 /\ n - 1 \in Nat /\ n - 1 \notin T
  BY <1>2
<1> QED
  BY <1>3

\* What CHOOSE and the recursion of FoldSet make of a finite set: g is the
\* ranges that are left when the intervals of a subset of T are cut out.
Picked(s) == CHOOSE iv \in s : TRUE
Others(s) == s \ {Picked(s)}
CutOut(us, iv) == UNION {Cut(u, iv) : u \in us}

LEMMA PickedIs == ASSUME NEW s, s # {} PROVE Picked(s) \in s
BY DEF Picked

LEMMA SmallerSet ==
  ASSUME NEW T, IsFiniteSet(T)
  PROVE  \A s \in SUBSET T : s # {} =>
           /\ IsFiniteSet(s) /\ Cardinality(s) \in Nat
           /\ Others(s) \in SUBSET T
           /\ Cardinality(Others(s)) = Cardinality(s) - 1
           /\ Cardinality(Others(s)) \in Nat
<1> SUFFICES ASSUME NEW s \in SUBSET T, s # {}
    PROVE  /\ IsFiniteSet(s) /\ Cardinality(s) \in Nat
           /\ Others(s) \in SUBSET T
           /\ Cardinality(Others(s)) = Cardinality(s) - 1
           /\ Cardinality(Others(s)) \in Nat
  OBVIOUS
<1>1. IsFiniteSet(s) /\ Cardinality(s) \in Nat
  BY FS_Subset, FS_CardinalityType
<1>2. /\ IsFiniteSet(Others(s))
      /\ Cardinality(Others(s)) = Cardinality(s) - 1
  BY <1>1, PickedIs, FS_RemoveElement DEF Others
<1>3. Cardinality(Others(s)) \in Nat
  BY <1>2, FS_CardinalityType
<1>4. Others(s) \in SUBSET T
  BY DEF Others
<1> QED
  BY <1>1, <1>2, <1>3, <1>4

\* The sets of less than n elements.
CutBy(g, T, base, n) ==
  \A s \in SUBSET T :
    Cardinality(s) <= n =>
      g[s] = IF s = {} THEN base ELSE CutOut(g[Others(s)], Picked(s))

LEMMA CutExists ==
  ASSUME NEW T, IsFiniteSet(T), NEW base
  PROVE  \A n \in Nat : \E f : CutBy([s \in SUBSET T |-> f[s]], T, base, n)
<1> DEFINE S == {n \in Nat : \E f : CutBy([s \in SUBSET T |-> f[s]], T, base, n)}
<1>1. 0 \in S
  <2> DEFINE f == [s \in SUBSET T |-> base]
  <2>1. \A s \in SUBSET T : Cardinality(s) <= 0 => s = {}
    <3>1. SUFFICES ASSUME NEW s \in SUBSET T, Cardinality(s) <= 0, s # {} PROVE FALSE
      OBVIOUS
    <3> QED
      BY <3>1, SmallerSet
  <2>2. CutBy([s \in SUBSET T |-> f[s]], T, base, 0)
    BY <2>1 DEF CutBy
  <2> QED
    BY <2>2
<1>2. ASSUME NEW n \in Nat, n \in S PROVE n + 1 \in S
  <2>1. PICK f : CutBy([s \in SUBSET T |-> f[s]], T, base, n)
    BY <1>2
  <2> DEFINE g == [s \in SUBSET T |-> f[s]]
             h == [s \in SUBSET T |->
                     IF s = {} THEN base
                     ELSE CutOut(g[Others(s)], Picked(s))]
  <2>2. ASSUME NEW s \in SUBSET T, Cardinality(s) <= n PROVE h[s] = g[s]
    BY <2>1, <2>2 DEF CutBy
  <2>3. ASSUME NEW s \in SUBSET T, Cardinality(s) <= n + 1
        PROVE  h[s] = IF s = {} THEN base ELSE CutOut(h[Others(s)], Picked(s))
    <3>1. CASE s = {}
      BY <3>1
    <3>2. CASE s # {}
      <4>1. Others(s) \in SUBSET T /\ Cardinality(Others(s)) <= n
        BY <2>3, <3>2, SmallerSet
      <4>2. h[Others(s)] = g[Others(s)]
        BY <2>2, <4>1
      <4> QED
        BY <3>2, <4>2
    <3> QED
      BY <3>1, <3>2
  <2>4. h = [s \in SUBSET T |-> h[s]]
    OBVIOUS
  <2> HIDE DEF h
  <2>5. CutBy([s \in SUBSET T |-> h[s]], T, base, n + 1)
    BY <2>3, <2>4 DEF CutBy
  <2> QED
    BY <2>5
<1> HIDE DEF S
<1>3. \A n \in Nat : n \in S
  BY <1>1, <1>2, Induct
<1> QED
  BY <1>3 DEF S

\* The function FoldSet defines.
LeftOf(T, base) ==
  CHOOSE f : f = [s \in SUBSET T |->
                    IF s = {} THEN base ELSE CutOut(f[Others(s)], Picked(s))]

LEMMA CutIs ==
  ASSUME NEW T, IsFiniteSet(T), NEW base
  PROVE  \A s \in SUBSET T :
           LeftOf(T, base)[s] =
             IF s = {} THEN base ELSE CutOut(LeftOf(T, base)[Others(s)], Picked(s))
<1> DEFINE g == LeftOf(T, base)
           F(f) == [s \in SUBSET T |->
                      IF s = {} THEN base ELSE CutOut(f[Others(s)], Picked(s))]
<1>1. Cardinality(T) \in Nat /\ \A s \in SUBSET T : Cardinality(s) <= Cardinality(T)
  BY FS_CardinalityType, FS_Subset
<1>2. PICK h : CutBy([s \in SUBSET T |-> h[s]], T, base, Cardinality(T))
  BY <1>1, CutExists
<1> DEFINE f == [s \in SUBSET T |-> h[s]]
<1>3. f = F(f)
  BY <1>1, <1>2 DEF CutBy
<1> HIDE DEF f
<1>4. g = F(g)
  BY <1>3 DEF LeftOf
<1> HIDE DEF g
<1>5. \A s \in SUBSET T : g[s] = IF s = {} THEN base ELSE CutOut(g[Others(s)], Picked(s))
  BY <1>4
<1> QED
  BY <1>5 DEF g

\* _get_ranges: us are the ranges from a to e that no interval of T covers.
LeftBy(us, a, e, T) ==
  /\ us \subseteq (a..e) \X (a..e)
  /\ \A u \in us : u[1] < u[2]
  /\ \A u, v \in us : u = v \/ u[2] <= v[1] \/ v[2] <= u[1]
  /\ \A u \in us, iv \in T : iv.e <= u[1] \/ u[2] <= iv.b
  /\ \A x \in a..(e - 1) :
       \/ \E u \in us : u[1] <= x /\ x < u[2]
       \/ \E iv \in T : iv.b <= x /\ x < iv.e

\* What is cut off lies within the range and beside the interval.
LEMMA CutWithin ==
  ASSUME NEW a \in Nat, NEW e \in Nat, NEW u \in (a..e) \X (a..e), u[1] < u[2],
         NEW iv, iv.b \in Nat, iv.e \in Nat, iv.b < iv.e
  PROVE  /\ Cut(u, iv) \subseteq (a..e) \X (a..e)
         /\ \A v \in Cut(u, iv) :
              /\ u[1] <= v[1] /\ v[1] < v[2] /\ v[2] <= u[2]
              /\ iv.e <= v[1] \/ v[2] <= iv.b
         /\ \A v, w \in Cut(u, iv) : v = w \/ v[2] <= w[1] \/ w[2] <= v[1]
         /\ \A x \in u[1]..(u[2] - 1) :
              \/ \E v \in Cut(u, iv) : v[1] <= x /\ x < v[2]
              \/ iv.b <= x /\ x < iv.e
<1>1. u[1] \in a..e /\ u[2] \in a..e /\ u[1] \in Nat /\ u[2] \in Nat
  OBVIOUS
<1>2. CASE iv.e < u[1] \/ iv.b > u[2]
  BY <1>1, <1>2 DEF Cut
<1>3. CASE ~(iv.e < u[1] \/ iv.b > u[2])
  <2>1. Cut(u, iv) = {v \in {<<u[1], iv.b>>, <<iv.e, u[2]>>} : v[1] < v[2]}
    BY <1>3 DEF Cut
  <2>2. ASSUME NEW v \in Cut(u, iv)
        PROVE  \/ v = <<u[1], iv.b>> /\ u[1] < iv.b
               \/ v = <<iv.e, u[2]>> /\ iv.e < u[2]
    BY <2>1
  <2>3. Cut(u, iv) \subseteq (a..e) \X (a..e)
    BY <1>1, <1>3, <2>2
  <2>4. ASSUME NEW v \in Cut(u, iv)
        PROVE  /\ u[1] <= v[1] /\ v[1] < v[2] /\ v[2] <= u[2]
               /\ iv.e <= v[1] \/ v[2] <= iv.b
    BY <1>1, <1>3, <2>2
  <2>5. ASSUME NEW v \in Cut(u, iv), NEW w \in Cut(u, iv)
        PROVE  v = w \/ v[2] <= w[1] \/ w[2] <= v[1]
    BY <1>1, <1>3, <2>2
  <2>6. ASSUME NEW x \in u[1]..(u[2] - 1)
        PROVE  \/ \E v \in Cut(u, iv) : v[1] <= x /\ x < v[2]
               \/ iv.b <= x /\ x < iv.e
    <3>1. CASE x < iv.b
      <4>1. <<u[1], iv.b>> \in Cut(u, iv)
        BY <1>1, <2>1, <2>6, <3>1
      <4> QED
        BY <1>1, <3>1, <4>1
    <3>2. CASE iv.e <= x
      <4>1. <<iv.e, u[2]>> \in Cut(u, iv)
        BY <1>1, <2>1, <2>6, <3>2
      <4> QED
        BY <1>1, <3>2, <4>1
    <3> QED
      BY <1>1, <3>1, <3>2
  <2> QED
    BY <2>3, <2>4, <2>5, <2>6
<1> QED
  BY <1>2, <1>3

LEMMA CutLeaves ==
  ASSUME NEW a \in Nat, NEW e \in Nat, NEW us, NEW T, LeftBy(us, a, e, T),
         \A iv \in T : iv.b \in Nat /\ iv.e \in Nat,
         NEW iv, iv.b \in Nat, iv.e \in Nat, iv.b < iv.e
  PROVE  LeftBy(CutOut(us, iv), a, e, T \union {iv})
<1> DEFINE vs == CutOut(us, iv)
<1>1. \A v : v \in vs <=> \E u \in us : v \in Cut(u, iv)
  BY DEF CutOut
<1>2. \A u \in us : u \in (a..e) \X (a..e) /\ u[1] < u[2]
  BY DEF LeftBy
<1>3. \A u \in us : u[1] \in Nat /\ u[2] \in Nat
  BY <1>2
<1> HIDE DEF vs
<1>4. vs \subseteq (a..e) \X (a..e)
  BY <1>1, <1>2, CutWithin
<1>5. \A v \in vs : v[1] \in Nat /\ v[2] \in Nat
  BY <1>4
<1>6. \A v \in vs : v[1] < v[2] /\ (iv.e <= v[1] \/ v[2] <= iv.b)
  BY <1>1, <1>2, CutWithin
<1>7. ASSUME NEW v \in vs, NEW w \in vs PROVE v = w \/ v[2] <= w[1] \/ w[2] <= v[1]
  <2>1. PICK u \in us : v \in Cut(u, iv)
    BY <1>1
  <2>2. PICK t \in us : w \in Cut(t, iv)
    BY <1>1
  <2>3. CASE u = t
    BY <1>2, <2>1, <2>2, <2>3, CutWithin
  <2>4. CASE u # t
    <3>1. u[2] <= t[1] \/ t[2] <= u[1]
      BY <2>4 DEF LeftBy
    <3>2. u[1] <= v[1] /\ v[2] <= u[2] /\ t[1] <= w[1] /\ w[2] <= t[2]
      BY <1>2, <2>1, <2>2, CutWithin
    <3> QED
      BY <1>3, <1>5, <3>1, <3>2
  <2> QED
    BY <2>3, <2>4
<1>8. ASSUME NEW v \in vs, NEW j \in T PROVE j.e <= v[1] \/ v[2] <= j.b
  <2>1. PICK u \in us : v \in Cut(u, iv)
    BY <1>1
  <2>2. j.e <= u[1] \/ u[2] <= j.b
    BY DEF LeftBy
  <2>3. u[1] <= v[1] /\ v[2] <= u[2]
    BY <1>2, <2>1, CutWithin
  <2> QED
    BY <1>3, <1>5, <2>2, <2>3
<1>9. ASSUME NEW x \in a..(e - 1)
      PROVE  \/ \E v \in vs : v[1] <= x /\ x < v[2]
             \/ \E j \in T \union {iv} : j.b <= x /\ x < j.e
  <2>1. CASE \E j \in T : j.b <= x /\ x < j.e
    BY <2>1
  <2>2. CASE \E u \in us : u[1] <= x /\ x < u[2]
    <3>1. PICK u \in us : u[1] <= x /\ x < u[2]
      BY <2>2
    <3>2. x \in u[1]..(u[2] - 1)
      BY <1>3, <3>1
    <3>3. \/ \E v \in Cut(u, iv) : v[1] <= x /\ x < v[2]
          \/ iv.b <= x /\ x < iv.e
      BY <1>2, <3>2, CutWithin
    <3> QED
      BY <1>1, <3>3
  <2> QED
    BY <2>1, <2>2 DEF LeftBy
<1> QED
  BY <1>4, <1>6, <1>7, <1>8, <1>9 DEF LeftBy, vs

\* _get_ranges leaves exactly what no cached interval covers, whatever the
\* order in which the intervals are looked at.
LEMMA UncachedIsLeft ==
  ASSUME NEW c, IsFiniteSet(c), NEW a \in Nat, NEW n \in Nat \ {0},
         \A iv \in c : iv.b \in Nat /\ iv.e \in Nat /\ iv.b < iv.e
  PROVE  LeftBy(Uncached(c, a, n), a, a + n, Overlap(c, a, a + n))
<1> DEFINE T == Overlap(c, a, a + n)
           base == {<<a, a + n>>}
           g == LeftOf(T, base)
<1>1. IsFiniteSet(T) /\ T \subseteq c
  BY FS_Subset DEF Overlap
<1>2. Uncached(c, a, n) = g[T]
  BY DEF Uncached, FoldSet, MapThenFoldSet, LeftOf, Others, Picked, CutOut
<1> HIDE DEF T, g
<1>3. \A s \in SUBSET T :
        g[s] = IF s = {} THEN base ELSE CutOut(g[Others(s)], Picked(s))
  BY <1>1, CutIs DEF g
<1> DEFINE S == {k \in Nat : \A s \in SUBSET T :
                   Cardinality(s) = k => LeftBy(g[s], a, a + n, s)}
<1>4. 0 \in S
  <2>1. LeftBy(base, a, a + n, {})
    BY DEF LeftBy
  <2>2. \A s \in SUBSET T : Cardinality(s) = 0 => s = {}
    BY <1>1, FS_Subset, FS_EmptySet
  <2>3. g[{}] = base
    BY <1>3
  <2> QED
    BY <2>1, <2>2, <2>3
<1>5. ASSUME NEW k \in Nat, k \in S PROVE k + 1 \in S
  <2>1. SUFFICES ASSUME NEW s \in SUBSET T, Cardinality(s) = k + 1
                 PROVE  LeftBy(g[s], a, a + n, s)
    OBVIOUS
  <2>2. s # {}
    BY <2>1, FS_EmptySet
  <2> DEFINE r == Others(s)
             iv == Picked(s)
  <2>3. r \in SUBSET T /\ Cardinality(r) = k
    BY <1>1, <2>1, <2>2, SmallerSet
  <2>4. LeftBy(g[r], a, a + n, r)
    BY <1>5, <2>3
  <2>5. iv \in s /\ s = r \union {iv}
    BY <2>2, PickedIs DEF Others
  <2>6. g[s] = CutOut(g[r], iv)
    BY <1>3, <2>2
  <2>7. \A j \in s : j.b \in Nat /\ j.e \in Nat /\ j.b < j.e
    BY <1>1
  <2> HIDE DEF r, iv
  <2>8. LeftBy(CutOut(g[r], iv), a, a + n, r \union {iv})
    BY <2>4, <2>5, <2>7, CutLeaves
  <2> QED
    BY <2>5, <2>6, <2>8
<1> HIDE DEF S
<1>6. \A k \in Nat : k \in S
  BY <1>4, <1>5, Induct
<1>7. Cardinality(T) \in Nat
  BY <1>1, FS_CardinalityType
<1>8. LeftBy(g[T], a, a + n, T)
  BY <1>6, <1>7 DEF S
<1> QED
  BY <1>2, <1>8 DEF T

-----------------------------------------------------------------------------
(* combined.sort.                                                          *)

InOrder(s) == \A i, j \in DOMAIN s : i < j => s[i].b < s[j].b

LEMMA SortedExists ==
  \A n \in Nat : \A S : IsFiniteSet(S) /\ Cardinality(S) = n /\ (\A iv \in S : iv.b \in Nat)
                          /\ (\A i, j \in S : i.b = j.b => i = j)
    => \E s \in [1..n -> S] : InOrder(s)
<1> DEFINE Sortable(S, n) ==
             /\ IsFiniteSet(S) /\ Cardinality(S) = n /\ (\A iv \in S : iv.b \in Nat)
             /\ \A i, j \in S : i.b = j.b => i = j
           Z == {n \in Nat : \A S : Sortable(S, n) => \E s \in [1..n -> S] : InOrder(s)}
<1>1. 0 \in Z
  <2>1. ASSUME NEW S PROVE \E s \in [1..0 -> S] : InOrder(s)
    <3>1. [i \in 1..0 |-> 0] \in [1..0 -> S] /\ InOrder([i \in 1..0 |-> 0])
      BY DEF InOrder
    <3> QED
      BY <3>1
  <2> QED
    BY <2>1
<1>2. ASSUME NEW n \in Nat, n \in Z PROVE n + 1 \in Z
  <2>1. SUFFICES ASSUME NEW S, Sortable(S, n + 1)
                 PROVE  \E s \in [1..(n + 1) -> S] : InOrder(s)
    OBVIOUS
  <2>2. S # {}
    BY <2>1, FS_EmptySet
  <2>3. {iv.b : iv \in S} \in SUBSET Nat /\ {iv.b : iv \in S} # {}
    BY <2>1, <2>2
  <2>4. PICK b \in {iv.b : iv \in S} : \A m \in {iv.b : iv \in S} : b <= m
    BY <2>3, LeastNumber
  <2>5. PICK first \in S : first.b = b
    BY <2>4
  <2> DEFINE R == S \ {first}
  <2>6. \A iv \in R : first.b < iv.b
    BY <2>1, <2>4, <2>5
  <2>7. IsFiniteSet(R) /\ Cardinality(R) = n
    <3>1. IsFiniteSet(S) /\ Cardinality(S) = n + 1
      BY <2>1
    <3>2. IsFiniteSet(R) /\ Cardinality(R) = Cardinality(S) - 1
      BY <2>5, <3>1, FS_RemoveElement
    <3> QED
      BY <3>1, <3>2
  <2>8. Sortable(R, n)
    BY <2>1, <2>7
  <2>9. PICK r \in [1..n -> R] : InOrder(r)
    BY <1>2, <2>8
  <2> DEFINE s == [i \in 1..(n + 1) |-> IF i = 1 THEN first ELSE r[i - 1]]
  <2>10. \A i \in 1..(n + 1) : i # 1 => i - 1 \in 1..n /\ s[i] = r[i - 1] /\ s[i] \in R
    BY <2>9
  <2>11. s[1] = first /\ DOMAIN s = 1..(n + 1)
    OBVIOUS
  <2>12. \A i \in 1..(n + 1) : s[i] \in S
    BY <2>10, <2>11
  <2>13. s \in [1..(n + 1) -> S]
    BY <2>12
  <2> HIDE DEF s
  <2>14. ASSUME NEW i \in 1..(n + 1), NEW j \in 1..(n + 1), i < j PROVE s[i].b < s[j].b
    <3>1. j # 1 /\ s[j] = r[j - 1] /\ s[j] \in R /\ j - 1 \in 1..n
      BY <2>10, <2>14
    <3>2. CASE i = 1
      BY <2>6, <2>11, <3>1, <3>2
    <3>3. CASE i # 1
      <4>1. s[i] = r[i - 1] /\ i - 1 \in 1..n /\ i - 1 < j - 1
        BY <2>10, <2>14, <3>3
      <4> QED
        BY <2>9, <3>1, <4>1 DEF InOrder
    <3> QED
      BY <3>2, <3>3
  <2> QED
    BY <2>11, <2>13, <2>14 DEF InOrder
<1> HIDE DEF Z
<1>3. \A n \in Nat : n \in Z
  BY <1>1, <1>2, Induct
<1> QED
  BY <1>3 DEF Z

LEMMA SortedIs ==
  ASSUME NEW S, IsFiniteSet(S), \A iv \in S : iv.b \in Nat,
         \A i, j \in S : i.b = j.b => i = j
  PROVE  /\ Cardinality(S) \in Nat
         /\ Sorted(S) \in [1..Cardinality(S) -> S] /\ InOrder(Sorted(S))
         /\ \A iv \in S : \E i \in 1..Cardinality(S) : Sorted(S)[i] = iv
<1> DEFINE n == Cardinality(S)
           s == Sorted(S)
<1>1. n \in Nat
  BY FS_CardinalityType
<1>2. \E t \in [1..n -> S] : InOrder(t)
  BY <1>1, SortedExists
<1>3. s \in [1..n -> S] /\ InOrder(s)
  BY <1>2 DEF Sorted, InOrder
<1> HIDE DEF n, s
<1>4. s \in Injection(1..n, S)
  <2>1. ASSUME NEW i \in 1..n, NEW j \in 1..n, s[i] = s[j] PROVE i = j
    <3>1. s[i].b \in Nat /\ s[j].b \in Nat
      BY <1>3
    <3>2. CASE i < j
      BY <1>3, <2>1, <3>1, <3>2 DEF InOrder
    <3>3. CASE j < i
      BY <1>3, <2>1, <3>1, <3>3 DEF InOrder
    <3> QED
      BY <1>1, <3>2, <3>3
  <2> QED
    BY <1>3, <2>1 DEF Injection, IsInjective
<1>5. Cardinality(1..n) = n /\ IsFiniteSet(1..n)
  BY <1>1, FS_Interval
<1>6. s \in Surjection(1..n, S)
  BY <1>4, <1>5, FS_Injection DEF n
<1>7. \A iv \in S : \E i \in 1..n : s[i] = iv
  BY <1>6 DEF Surjection
<1> QED
  BY <1>1, <1>3, <1>7 DEF n, s

-----------------------------------------------------------------------------
(* Pieces of one function, put together.                                   *)

Slice(f, from, to) == [i \in 1..(to - from) |-> f[from + i - 1]]

LEMMA SliceJoin ==
  ASSUME NEW f, NEW p \in Nat, NEW q \in Nat, NEW r \in Nat, p <= q, q <= r
  PROVE  Slice(f, p, q) \o Slice(f, q, r) = Slice(f, p, r)
<1> DEFINE s == Slice(f, p, q)
           t == Slice(f, q, r)
           V == {f[x] : x \in Nat}
<1>1. /\ \A i \in 1..(q - p) : s[i] = f[p + i - 1] /\ p + i - 1 \in Nat
      /\ \A i \in 1..(r - q) : t[i] = f[q + i - 1] /\ q + i - 1 \in Nat
  BY DEF Slice
<1>2. q - p \in Nat /\ r - q \in Nat /\ DOMAIN s = 1..(q - p) /\ DOMAIN t = 1..(r - q)
  BY DEF Slice
<1>3. s \in Seq(V) /\ t \in Seq(V)
  BY <1>1, <1>2 DEF Slice
<1> HIDE DEF s, t, V
<1>4. Len(s) = q - p /\ Len(t) = r - q
  BY <1>2, <1>3
<1>5. /\ s \o t \in Seq(V) /\ Len(s \o t) = r - p
      /\ \A i \in 1..(q - p) : (s \o t)[i] = s[i]
      /\ \A i \in 1..(r - p) : i > q - p => (s \o t)[i] = t[i - (q - p)]
  <2> DEFINE m == q - p
             n == r - q
  <2>1. m \in Nat /\ n \in Nat /\ Len(s) = m /\ Len(t) = n /\ r - p = m + n
    BY <1>2, <1>4
  <2> HIDE DEF m, n
  <2>2. s \o t \in Seq(V) /\ Len(s \o t) = m + n
    BY <2>1, <1>3
  <2>3. \A i \in 1..m : (s \o t)[i] = s[i]
    BY <2>1, <1>3
  <2>4. \A i \in 1..(m + n) : i > m => (s \o t)[i] = t[i - m]
    BY <2>1, <1>3
  <2> QED
    BY <2>1, <2>2, <2>3, <2>4 DEF m
<1>6. ASSUME NEW i \in 1..(r - p) PROVE (s \o t)[i] = f[p + i - 1]
  <2>1. CASE i <= q - p
    <3>1. i \in 1..(q - p)
      BY <2>1
    <3> QED
      BY <1>1, <1>5, <3>1
  <2>2. CASE i > q - p
    <3>1. i - (q - p) \in 1..(r - q) /\ q + (i - (q - p)) - 1 = p + i - 1
      BY <1>2, <2>2
    <3> QED
      BY <1>1, <1>5, <2>2, <3>1
  <2>3. i <= q - p \/ i > q - p
    OBVIOUS
  <2> QED
    BY <2>1, <2>2, <2>3
<1>7. s \o t = [i \in 1..(r - p) |-> (s \o t)[i]]
  <2> DEFINE st == s \o t
  <2>1. st \in Seq(V) /\ Len(st) = r - p
    BY <1>5
  <2> HIDE DEF st
  <2>2. st = [i \in 1..(r - p) |-> st[i]]
    BY <2>1
  <2> QED
    BY <2>2 DEF st
<1>8. s \o t = Slice(f, p, r)
  BY <1>6, <1>7 DEF Slice
<1> QED
  BY <1>8 DEF s, t

\* Intervals that follow one another from p to q, all parts of f.
Row(s, f, p, q) ==
  /\ \A i \in 1..Len(s) :
       /\ s[i].b \in Nat /\ s[i].e \in Nat /\ s[i].b < s[i].e
       /\ \A x \in s[i].b..(s[i].e - 1) : s[i].data[x] = f[x]
  /\ \A i \in 1..(Len(s) - 1) : s[i].e = s[i + 1].b
  /\ IF Len(s) = 0 THEN p = q ELSE s[1].b = p /\ s[Len(s)].e = q

LEMMA PieceIsSlice ==
  ASSUME NEW f, NEW iv, iv.b \in Nat, iv.e \in Nat,
         \A x \in iv.b..(iv.e - 1) : iv.data[x] = f[x],
         NEW p \in Nat, NEW q \in Nat, iv.b <= p, q <= iv.e
  PROVE  Piece(iv, p, q) = Slice(f, p, q)
<1>1. \A i \in 1..(q - p) : p + i - 1 \in iv.b..(iv.e - 1)
  OBVIOUS
<1>2. \A i \in 1..(q - p) : iv.data[p + i - 1] = f[p + i - 1]
  BY <1>1
<1> QED
  BY <1>2 DEF Piece, Slice

\* The recursion of FlattenSeq.
FlatUpTo(g, s, n) == \A i \in 1..n : g[i] = IF i = 1 THEN s[i] ELSE g[i - 1] \o s[i]

LEMMA FlatExists ==
  ASSUME NEW s
  PROVE  \A n \in Nat : \E g : FlatUpTo([i \in 1..n |-> g[i]], s, n)
<1> DEFINE Z == {n \in Nat : \E g : FlatUpTo([i \in 1..n |-> g[i]], s, n)}
<1>1. 0 \in Z
  <2>1. FlatUpTo([i \in 1..0 |-> s[i]], s, 0)
    BY DEF FlatUpTo
  <2> QED
    BY <2>1
<1>2. ASSUME NEW n \in Nat, n \in Z PROVE n + 1 \in Z
  <2>1. PICK f : FlatUpTo([i \in 1..n |-> f[i]], s, n)
    BY <1>2
  <2> DEFINE g == [i \in 1..n |-> f[i]]
  <2> HIDE DEF g
  <2> DEFINE h == [i \in 1..(n + 1) |->
                     IF i <= n THEN g[i] ELSE IF i = 1 THEN s[i] ELSE g[i - 1] \o s[i]]
  <2>2. ASSUME NEW i \in 1..(n + 1)
        PROVE  h[i] = IF i = 1 THEN s[i] ELSE h[i - 1] \o s[i]
    <3>1. i # 1 => i - 1 \in 1..n /\ h[i - 1] = g[i - 1]
      BY <1>2
    <3>2. CASE i <= n
      <4>1. g[i] = IF i = 1 THEN s[i] ELSE g[i - 1] \o s[i]
        BY <2>1, <3>1, <3>2 DEF FlatUpTo, g
      <4> QED
        BY <3>1, <3>2, <4>1
    <3>3. CASE i > n
      BY <3>1, <3>3
    <3> QED
      BY <3>2, <3>3
  <2>3. h = [i \in 1..(n + 1) |-> h[i]]
    OBVIOUS
  <2> HIDE DEF h
  <2>4. FlatUpTo([i \in 1..(n + 1) |-> h[i]], s, n + 1)
    BY <2>2, <2>3 DEF FlatUpTo
  <2> QED
    BY <2>4
<1> HIDE DEF Z
<1>3. \A n \in Nat : n \in Z
  BY <1>1, <1>2, Induct
<1> QED
  BY <1>3 DEF Z

\* The function FlattenSeq defines.
Flat(s) == CHOOSE g : g = [i \in 1..Len(s) |-> IF i = 1 THEN s[i] ELSE g[i - 1] \o s[i]]

LEMMA FlatIs ==
  ASSUME NEW s, Len(s) \in Nat
  PROVE  /\ FlatUpTo(Flat(s), s, Len(s))
         /\ Len(s) # 0 => FlattenSeq(s) = Flat(s)[Len(s)]
<1> DEFINE g == Flat(s)
           F(f) == [i \in 1..Len(s) |-> IF i = 1 THEN s[i] ELSE f[i - 1] \o s[i]]
<1>1. PICK h : FlatUpTo([i \in 1..Len(s) |-> h[i]], s, Len(s))
  BY FlatExists
<1> DEFINE f == [i \in 1..Len(s) |-> h[i]]
<1>2. f = F(f)
  BY <1>1 DEF FlatUpTo
<1> HIDE DEF f
<1>3. g = F(g)
  BY <1>2 DEF Flat
<1>4. Len(s) # 0 => FlattenSeq(s) = g[Len(s)]
  BY DEF FlattenSeq, Flat
<1> HIDE DEF g
<1>5. FlatUpTo(g, s, Len(s))
  BY <1>3 DEF FlatUpTo
<1> QED
  BY <1>4, <1>5 DEF g

\* A row of intervals is joined to the slice from its beginning to its end.
LEMMA RowIsSlice ==
  ASSUME NEW f, NEW s, Len(s) \in Nat, DOMAIN s = 1..Len(s),
         NEW p \in Nat, NEW q \in Nat, Row(s, f, p, q)
  PROVE  /\ p <= q
         /\ FlattenSeq([i \in DOMAIN s |-> Piece(s[i], s[i].b, s[i].e)]) = Slice(f, p, q)
<1> DEFINE n == Len(s)
           t == [i \in 1..n |-> Slice(f, s[i].b, s[i].e)]
<1>0. ASSUME NEW i \in 1..n PROVE Piece(s[i], s[i].b, s[i].e) = Slice(f, s[i].b, s[i].e)
  <2>1. /\ s[i].b \in Nat /\ s[i].e \in Nat /\ s[i].b < s[i].e
        /\ \A x \in s[i].b..(s[i].e - 1) : s[i].data[x] = f[x]
    BY DEF Row
  <2> DEFINE iv == s[i]
  <2>2. /\ iv.b \in Nat /\ iv.e \in Nat /\ iv.b <= iv.b /\ iv.e <= iv.e
        /\ \A x \in iv.b..(iv.e - 1) : iv.data[x] = f[x]
    BY <2>1
  <2> HIDE DEF iv
  <2>3. Piece(iv, iv.b, iv.e) = Slice(f, iv.b, iv.e)
    BY <2>2, PieceIsSlice, Zenon
  <2> QED
    BY <2>3 DEF iv
<1>1. [i \in DOMAIN s |-> Piece(s[i], s[i].b, s[i].e)] = t
  BY <1>0
<1>3. Len(t) = n
  OBVIOUS
<1> HIDE DEF t
<1>4. CASE n = 0
  <2>1. FlattenSeq(t) = t /\ t = <<>>
    BY <1>3, <1>4 DEF FlattenSeq, t
  <2>2. Slice(f, p, q) = <<>> /\ p = q
    BY <1>4 DEF Row, Slice
  <2> QED
    BY <1>1, <2>1, <2>2
<1>6. \A u, w \in Nat : p <= u /\ u <= w => Slice(f, p, u) \o Slice(f, u, w) = Slice(f, p, w)
  BY SliceJoin
<1>5. CASE n # 0
  <2> DEFINE g == Flat(t)
             Z == {k \in Nat : k + 1 <= n => p <= s[k + 1].e /\ g[k + 1] = Slice(f, p, s[k + 1].e)}
  <2>1. FlatUpTo(g, t, n) /\ FlattenSeq(t) = g[n]
    BY <1>3, <1>5, FlatIs
  <2> HIDE DEF g
  <2>2. \A i \in 1..n : s[i].b \in Nat /\ s[i].e \in Nat /\ s[i].b < s[i].e
    BY DEF Row
  <2>3. 0 \in Z
    <3>1. g[1] = t[1] /\ 1 \in 1..n
      BY <1>5, <2>1 DEF FlatUpTo
    <3>2. t[1] = Slice(f, s[1].b, s[1].e) /\ s[1].b = p
      BY <1>5, <3>1 DEF t, Row
    <3> QED
      BY <2>2, <3>1, <3>2
  <2>4. ASSUME NEW k \in Nat, k \in Z PROVE k + 1 \in Z
    <3>1. SUFFICES ASSUME k + 2 <= n
                   PROVE  p <= s[k + 2].e /\ g[k + 2] = Slice(f, p, s[k + 2].e)
      OBVIOUS
    <3>2. k + 1 \in 1..n /\ k + 2 \in 1..n /\ k + 1 \in 1..(n - 1)
      BY <3>1
    <3>3. p <= s[k + 1].e /\ g[k + 1] = Slice(f, p, s[k + 1].e)
      BY <2>4, <3>2
    <3>4. s[k + 1].e = s[k + 2].b
      BY <3>2 DEF Row
    <3>5. g[k + 2] = g[k + 1] \o t[k + 2]
      <4>1. k + 2 # 1 /\ (k + 2) - 1 = k + 1
        OBVIOUS
      <4>2. g[k + 2] = IF k + 2 = 1 THEN t[k + 2] ELSE g[(k + 2) - 1] \o t[k + 2]
        BY <2>1, <3>2 DEF FlatUpTo
      <4> QED
        BY <4>1, <4>2
    <3>6. t[k + 2] = Slice(f, s[k + 2].b, s[k + 2].e)
      BY <3>2 DEF t
    <3>7. /\ s[k + 1].e \in Nat /\ s[k + 2].e \in Nat /\ s[k + 1].e < s[k + 2].e
      BY <2>2, <3>2, <3>4
    <3>8. Slice(f, p, s[k + 1].e) \o Slice(f, s[k + 1].e, s[k + 2].e) = Slice(f, p, s[k + 2].e)
      <4> DEFINE u == s[k + 1].e
                 w == s[k + 2].e
      <4>1. u \in Nat /\ w \in Nat /\ p <= u /\ u <= w
        BY <3>3, <3>7
      <4> HIDE DEF u, w
      <4>2. Slice(f, p, u) \o Slice(f, u, w) = Slice(f, p, w)
        BY <1>6, <4>1
      <4> QED
        BY <4>2 DEF u, w
    <3> QED
      BY <3>3, <3>4, <3>5, <3>6, <3>7, <3>8
  <2> HIDE DEF Z
  <2>5. \A k \in Nat : k \in Z
    BY <2>3, <2>4, Induct
  <2>6. n - 1 \in Nat /\ (n - 1) + 1 = n
    BY <1>5
  <2>7. n - 1 \in Z
    BY <2>5, <2>6
  <2>8. p <= s[n].e /\ g[n] = Slice(f, p, s[n].e)
    BY <2>6, <2>7 DEF Z
  <2>9. s[n].e = q
    BY <1>5 DEF Row
  <2> QED
    BY <1>1, <2>1, <2>8, <2>9
<1> QED
  BY <1>4, <1>5

LEMMA RowTail ==
  ASSUME NEW f, NEW p, NEW q, NEW S, NEW s \in Seq(S), s # <<>>, Row(s, f, p, q)
  PROVE  /\ Len(Tail(s)) = Len(s) - 1 /\ Tail(s) \in Seq(S)
         /\ Row(Tail(s), f, s[1].e, q)
         /\ Tail(s) # <<>> => Last(Tail(s)) = s[Len(s)]
<1> DEFINE n == Len(s)
           t == Tail(s)
<1>1. n \in Nat \ {0}
  OBVIOUS
<1>2. t \in Seq(S) /\ Len(t) = n - 1 /\ \A i \in 1..(n - 1) : t[i] = s[i + 1]
  OBVIOUS
<1> HIDE DEF n, t
<1>3. ASSUME NEW i \in 1..Len(t)
      PROVE  /\ t[i].b \in Nat /\ t[i].e \in Nat /\ t[i].b < t[i].e
             /\ \A x \in t[i].b..(t[i].e - 1) : t[i].data[x] = f[x]
  <2>1. t[i] = s[i + 1] /\ i + 1 \in 1..n
    BY <1>1, <1>2
  <2> QED
    BY <2>1 DEF Row, n
<1>4. ASSUME NEW i \in 1..(Len(t) - 1) PROVE t[i].e = t[i + 1].b
  <2>1. t[i] = s[i + 1] /\ t[i + 1] = s[(i + 1) + 1] /\ i + 1 \in 1..(n - 1)
    BY <1>1, <1>2
  <2> QED
    BY <2>1 DEF Row, n
<1>5. IF Len(t) = 0 THEN s[1].e = q ELSE t[1].b = s[1].e /\ t[Len(t)].e = q
  <2>1. CASE n = 1
    BY <1>2, <2>1 DEF Row, n
  <2>2. CASE n # 1
    <3>1. 1 \in 1..(n - 1) /\ n - 1 \in 1..(n - 1) /\ Len(t) = n - 1 /\ Len(t) # 0
      BY <1>1, <1>2, <2>2
    <3>2. t[1] = s[2] /\ t[n - 1] = s[n]
      BY <1>1, <1>2, <3>1
    <3>3. s[1].e = s[2].b /\ s[n].e = q
      BY <1>1, <3>1 DEF Row, n
    <3> QED
      BY <3>1, <3>2, <3>3
  <2> QED
    BY <2>1, <2>2
<1>6. t # <<>> => Last(t) = s[n]
  <2>1. SUFFICES ASSUME t # <<>> PROVE t[Len(t)] = s[n]
    BY DEF Last
  <2>2. Len(t) # 0 /\ n - 1 \in 1..(n - 1)
    BY <1>1, <1>2, <2>1
  <2> QED
    BY <1>1, <1>2, <2>2
<1>7. Row(t, f, s[1].e, q)
  BY <1>3, <1>4, <1>5 DEF Row
<1> QED
  BY <1>2, <1>6, <1>7 DEF n, t

LEMMA RowFront ==
  ASSUME NEW f, NEW p, NEW q, NEW S, NEW s \in Seq(S), s # <<>>, Row(s, f, p, q)
  PROVE  /\ Front(s) \in Seq(S)
         /\ Row(Front(s), f, p, s[Len(s)].b)
<1> DEFINE n == Len(s)
           t == Front(s)
<1>1. n \in Nat \ {0}
  OBVIOUS
<1>2. t \in Seq(S) /\ Len(t) = n - 1 /\ \A i \in 1..(n - 1) : t[i] = s[i]
  <2>1. t = SubSeq(s, 1, n - 1)
    BY DEF Front
  <2>2. n - 1 \in Nat /\ Len(s) = n
    BY <1>1
  <2> HIDE DEF n, t
  <2>3. /\ SubSeq(s, 1, n - 1) \in Seq(S) /\ Len(SubSeq(s, 1, n - 1)) = n - 1
        /\ \A i \in 1..(n - 1) : SubSeq(s, 1, n - 1)[i] = s[i]
    BY <2>2
  <2> QED
    BY <2>1, <2>3
<1> HIDE DEF n, t
<1>3. ASSUME NEW i \in 1..Len(t)
      PROVE  /\ t[i].b \in Nat /\ t[i].e \in Nat /\ t[i].b < t[i].e
             /\ \A x \in t[i].b..(t[i].e - 1) : t[i].data[x] = f[x]
  <2>1. t[i] = s[i] /\ i \in 1..n
    BY <1>1, <1>2
  <2> QED
    BY <2>1 DEF Row, n
<1>4. ASSUME NEW i \in 1..(Len(t) - 1) PROVE t[i].e = t[i + 1].b
  <2>1. t[i] = s[i] /\ t[i + 1] = s[i + 1] /\ i \in 1..(n - 1)
    BY <1>1, <1>2
  <2> QED
    BY <2>1 DEF Row, n
<1>5. IF Len(t) = 0 THEN p = s[n].b ELSE t[1].b = p /\ t[Len(t)].e = s[n].b
  <2>1. CASE n = 1
    BY <1>2, <2>1 DEF Row, n
  <2>2. CASE n # 1
    <3>1. 1 \in 1..(n - 1) /\ n - 1 \in 1..(n - 1) /\ Len(t) = n - 1 /\ Len(t) # 0
      BY <1>1, <1>2, <2>2
    <3>2. t[1] = s[1] /\ t[n - 1] = s[n - 1]
      BY <1>2, <3>1
    <3>3. s[1].b = p /\ s[n - 1].e = s[(n - 1) + 1].b /\ (n - 1) + 1 = n
      BY <1>1, <3>1 DEF Row, n
    <3> QED
      BY <3>1, <3>2, <3>3
  <2> QED
    BY <2>1, <2>2
<1>7. Row(t, f, p, s[n].b)
  BY <1>3, <1>4, <1>5 DEF Row
<1> QED
  BY <1>2, <1>7 DEF n, t

LEMMA EmptySlice == ASSUME NEW f, NEW p \in Nat PROVE Slice(f, p, p) = <<>>
BY DEF Slice

LEMMA SeqFacts ==
  ASSUME NEW S, NEW s \in Seq(S)
  PROVE  Len(s) \in Nat /\ DOMAIN s = 1..Len(s) /\ (Len(s) = 0 <=> s = <<>>)
OBVIOUS

\* _merge_data puts a row of intervals together to the range it was asked for,
\* however far the first and the last reach beyond it.
LEMMA MergedIs ==
  ASSUME NEW f, NEW S, NEW s \in Seq(S), s # <<>>, NEW a \in Nat, NEW n \in Nat \ {0},
         Row(s, f, s[1].b, s[Len(s)].e),
         s[1].b <= a, a < s[1].e, s[Len(s)].b < a + n, a + n <= s[Len(s)].e
  PROVE  Merged(s, a, n) = Slice(f, a, a + n)
<1> DEFINE k == Len(s)
           first == s[1]
           last == s[k]
           lead == IF first.b < a THEN Piece(first, a, first.e) ELSE <<>>
           rest == IF first.b < a THEN Tail(s) ELSE s
           ragged == rest # <<>> /\ Last(rest).e > a + n
           trail == IF ragged THEN Piece(Last(rest), Last(rest).b, a + n) ELSE <<>>
           whole == IF ragged THEN Front(rest) ELSE rest
           flat == FlattenSeq([i \in DOMAIN whole |-> Piece(whole[i], whole[i].b, whole[i].e)])
<1>1. k \in Nat \ {0} /\ 1 \in 1..k /\ k \in 1..k
  BY SeqFacts
<1>2. /\ first.b \in Nat /\ first.e \in Nat /\ first.b < first.e
      /\ \A x \in first.b..(first.e - 1) : first.data[x] = f[x]
      /\ last.b \in Nat /\ last.e \in Nat /\ last.b < last.e
      /\ \A x \in last.b..(last.e - 1) : last.data[x] = f[x]
  BY <1>1 DEF Row
<1>3. Merged(s, a, n) = IF first.b < a /\ first.e > a + n THEN Piece(first, a, a + n)
                        ELSE lead \o flat \o trail
  BY DEF Merged
<1>4. /\ Row(s, f, first.b, last.e)
      /\ first.b <= a /\ a < first.e /\ last.b < a + n /\ a + n <= last.e
      /\ a + n \in Nat /\ a <= a + n
  OBVIOUS
<1>5. CASE first.b < a /\ first.e > a + n
  <2> HIDE DEF first, k
  <2>1. first.b <= a /\ a + n <= first.e
    BY <1>2, <1>5
  <2>2. Piece(first, a, a + n) = Slice(f, a, a + n)
    BY <1>2, <1>4, <2>1, PieceIsSlice
  <2> QED
    BY <1>3, <1>5, <2>2
<1>6. CASE ~(first.b < a /\ first.e > a + n)
  <2>1. \E m \in Nat :
          /\ a <= m /\ lead = Slice(f, a, m) /\ rest \in Seq(S)
          /\ IF rest = <<>> THEN m = a + n ELSE Row(rest, f, m, last.e) /\ Last(rest) = last
    <3>1. CASE first.b < a
      <4>1. lead = Piece(first, a, first.e) /\ rest = Tail(s)
        BY <3>1
      <4>2. /\ Len(rest) = k - 1 /\ rest \in Seq(S)
            /\ Row(rest, f, first.e, last.e)
            /\ rest # <<>> => Last(rest) = last
        BY <1>4, <4>1, RowTail
      <4>3. rest = <<>> => first.e = a + n
        <5>1. SUFFICES ASSUME rest = <<>> PROVE first.e = a + n
          OBVIOUS
        <5>2. Len(rest) = 0
          BY <5>1
        <5>3. k = 1
          BY <1>1, <4>2, <5>2
        <5>4. last = first
          BY <5>3
        <5> QED
          BY <1>2, <1>4, <1>6, <3>1, <5>4
      <4> HIDE DEF rest, lead, first, last, k
      <4>4. first.b <= a /\ first.e <= first.e /\ a <= first.e
        BY <1>2, <1>4
      <4>5. Piece(first, a, first.e) = Slice(f, a, first.e)
        <5>1. /\ first.b \in Nat /\ first.e \in Nat
              /\ \A x \in first.b..(first.e - 1) : first.data[x] = f[x]
              /\ a \in Nat /\ first.b <= a /\ first.e <= first.e
          BY <1>2, <4>4
        <5> QED
          BY ONLY <5>1, PieceIsSlice
      <4>6. lead = Slice(f, a, first.e)
        BY <4>1, <4>5
      <4> QED
        BY <1>2, <4>2, <4>3, <4>4, <4>6
    <3>2. CASE first.b = a
      <4>1. lead = <<>> /\ rest = s
        BY <3>2
      <4>2. lead = Slice(f, a, a) /\ a <= a
        BY <4>1, EmptySlice
      <4>3. Last(rest) = last
        BY <4>1 DEF Last
      <4> HIDE DEF rest, lead, last, first
      <4> QED
        BY <1>4, <3>2, <4>1, <4>2, <4>3
    <3> QED
      BY <1>2, <1>4, <3>1, <3>2
  <2>2. PICK m \in Nat :
          /\ a <= m /\ lead = Slice(f, a, m) /\ rest \in Seq(S)
          /\ IF rest = <<>> THEN m = a + n ELSE Row(rest, f, m, last.e) /\ Last(rest) = last
    BY <2>1
  <2> HIDE DEF lead, rest, first
  <2>3. \E w \in Nat :
          w <= a + n /\ whole \in Seq(S) /\ Row(whole, f, m, w) /\ trail = Slice(f, w, a + n)
    <3>1. CASE ragged
      <4>1. rest # <<>> /\ Row(rest, f, m, last.e) /\ Last(rest) = last
        BY <2>2, <3>1
      <4>2. whole = Front(rest) /\ trail = Piece(last, last.b, a + n)
        BY <3>1, <4>1
      <4>3. rest[Len(rest)] = last
        BY <4>1 DEF Last
      <4> HIDE DEF whole, trail, last, ragged
      <4>4. whole \in Seq(S) /\ Row(whole, f, m, last.b)
        <5>1. Front(rest) \in Seq(S) /\ Row(Front(rest), f, m, rest[Len(rest)].b)
          BY <2>2, <4>1, RowFront
        <5> QED
          BY <4>2, <4>3, <5>1
      <4>5. last.b <= last.b /\ last.b <= a + n
        BY <1>2, <1>4
      <4>6. trail = Slice(f, last.b, a + n)
        <5>1. /\ last.b \in Nat /\ last.e \in Nat
              /\ \A x \in last.b..(last.e - 1) : last.data[x] = f[x]
              /\ last.b \in Nat /\ last.b <= last.b /\ a + n <= last.e /\ last.b <= a + n
          BY <1>2, <1>4, <4>5
        <5>2. Piece(last, last.b, a + n) = Slice(f, last.b, a + n)
          BY ONLY <1>4, <5>1, PieceIsSlice
        <5> QED
          BY <4>2, <5>2
      <4>7. last.b \in Nat
        BY <1>2
      <4> QED
        BY ONLY <4>4, <4>5, <4>6, <4>7
    <3>2. CASE ~ragged
      <4>1. whole = rest /\ trail = <<>>
        BY <3>2
      <4>2. Row(rest, f, m, a + n)
        <5>1. CASE rest = <<>>
          <6>1. m = a + n /\ Len(rest) = 0
            BY <2>2, <5>1
          <6> QED
            BY <6>1 DEF Row
        <5>2. CASE rest # <<>>
          <6>1. Row(rest, f, m, last.e) /\ Last(rest) = last
            BY <2>2, <5>2
          <6>2. ~(last.e > a + n)
            BY <3>2, <5>2, <6>1
          <6> HIDE DEF last
          <6>3. last.e = a + n
            BY <1>2, <1>4, <6>2
          <6> QED
            BY <6>1, <6>3
        <5> QED
          BY <5>1, <5>2
      <4>3. trail = Slice(f, a + n, a + n)
        BY <1>4, <4>1, EmptySlice
      <4> HIDE DEF whole, trail
      <4>4. a + n <= a + n
        OBVIOUS
      <4> QED
        BY <1>4, <2>2, <4>1, <4>2, <4>3, <4>4
    <3> QED
      BY <3>1, <3>2
  <2>4. PICK w \in Nat :
          w <= a + n /\ whole \in Seq(S) /\ Row(whole, f, m, w) /\ trail = Slice(f, w, a + n)
    BY <2>3
  <2> HIDE DEF whole, trail
  <2>5. Len(whole) \in Nat /\ DOMAIN whole = 1..Len(whole)
    BY <2>4, SeqFacts
  <2>6. m <= w /\ flat = Slice(f, m, w)
    BY <2>4, <2>5, RowIsSlice
  <2> HIDE DEF flat
  <2>7. lead \o flat = Slice(f, a, w) /\ a <= w
    <3>1. a <= w
      BY <2>2, <2>6
    <3> QED
      BY <2>2, <2>6, <3>1, SliceJoin
  <2>8. Slice(f, a, w) \o trail = Slice(f, a, a + n)
    <3>1. /\ a \in Nat /\ w \in Nat /\ a + n \in Nat /\ a <= w /\ w <= a + n
          /\ trail = Slice(f, w, a + n)
      BY <1>4, <2>4, <2>7
    <3> QED
      BY ONLY <3>1, SliceJoin
  <2>9. lead \o flat \o trail = Slice(f, a, a + n)
    BY ONLY <2>7, <2>8
  <2> QED
    BY <1>3, <1>6, <2>9 DEF first
<1> QED
  BY <1>5, <1>6

-----------------------------------------------------------------------------
(* Intervals of the cache and what a read makes of them.                  *)

\* Cached intervals do not share an address.
Apart(c) == \A i, j \in c : i = j \/ i.e <= j.b \/ j.e <= i.b
Proper(c) == \A iv \in c : iv.b \in Nat /\ iv.e \in Nat /\ iv.b < iv.e
Holding(iv, x) == iv.b <= x /\ x < iv.e

\* Intervals that share no address and together cover a range are a row when
\* they are sorted.
LEMMA SortedIsRow ==
  ASSUME NEW f, NEW S, IsFiniteSet(S), Proper(S), Apart(S), NEW a \in Nat, NEW n \in Nat \ {0},
         \A iv \in S : iv.b < a + n /\ iv.e > a,
         \A iv \in S : \A x \in iv.b..(iv.e - 1) : iv.data[x] = f[x],
         \A x \in a..(a + n - 1) : \E iv \in S : Holding(iv, x)
  PROVE  LET s == Sorted(S) IN
         /\ s \in Seq(S) /\ s # <<>>
         /\ Row(s, f, s[1].b, s[Len(s)].e)
         /\ s[1].b <= a /\ a < s[1].e /\ s[Len(s)].b < a + n /\ a + n <= s[Len(s)].e
<1> DEFINE s == Sorted(S)
           k == Cardinality(S)
<1>1. \A i, j \in S : i.b = j.b => i = j
  BY DEF Proper, Apart
<1>2. /\ k \in Nat /\ s \in [1..k -> S] /\ InOrder(s)
      /\ \A iv \in S : \E i \in 1..k : s[i] = iv
  BY <1>1, SortedIs DEF Proper
<1> HIDE DEF s, k
<1>3. s \in Seq(S) /\ Len(s) = k
  BY <1>2
<1>4. \A i \in 1..k : /\ s[i] \in S
                      /\ s[i].b \in Nat /\ s[i].e \in Nat /\ s[i].b < s[i].e
                      /\ s[i].b < a + n /\ s[i].e > a
  BY <1>2 DEF Proper
<1>5. ASSUME NEW i \in 1..k, NEW j \in 1..k, i < j PROVE s[i].b < s[j].b /\ s[i].e <= s[j].b
  <2>1. s[i].b < s[j].b
    BY <1>2, <1>5 DEF InOrder
  <2>2. s[i] # s[j]
    BY <1>4, <2>1
  <2>3. s[i].e <= s[j].b \/ s[j].e <= s[i].b
    BY <1>4, <2>2 DEF Apart
  <2> QED
    BY <1>4, <2>1, <2>3
<1>6. \A x \in a..(a + n - 1) : \E i \in 1..k : s[i].b <= x /\ x < s[i].e
  BY <1>2 DEF Holding
<1>7. k # 0 /\ 1 \in 1..k /\ k \in 1..k
  <2>1. a \in a..(a + n - 1)
    OBVIOUS
  <2>2. \E i \in 1..k : s[i].b <= a /\ a < s[i].e
    BY <1>6, <2>1
  <2> QED
    BY <1>2, <2>2
<1>8. s[1].b <= a
  <2>1. a \in a..(a + n - 1)
    OBVIOUS
  <2>2. PICK i \in 1..k : s[i].b <= a /\ a < s[i].e
    BY <1>6, <2>1
  <2>3. i = 1 \/ s[1].b < s[i].b
    BY <1>5, <1>7, <2>2
  <2> QED
    BY <1>4, <1>7, <2>2, <2>3
<1>9. a + n <= s[k].e
  <2>1. a + n - 1 \in a..(a + n - 1)
    OBVIOUS
  <2>2. PICK i \in 1..k : s[i].b <= a + n - 1 /\ a + n - 1 < s[i].e
    BY <1>6, <2>1
  <2>3. i = k \/ s[i].e <= s[k].b
    BY <1>5, <1>7, <2>2
  <2>4. s[i].e \in Nat /\ s[k].e \in Nat /\ s[k].b \in Nat /\ s[k].b < a + n
    BY <1>4, <1>7
  <2> QED
    BY <2>2, <2>3, <2>4
<1>10. ASSUME NEW i \in 1..(k - 1) PROVE s[i].e = s[i + 1].b
  <2>1. i \in 1..k /\ i + 1 \in 1..k /\ i < i + 1
    BY <1>2
  <2> DEFINE x == s[i].e
             y == s[i + 1].b
  <2>2. x \in Nat /\ y \in Nat /\ x <= y /\ a < x /\ y < a + n
    BY <1>4, <1>5, <2>1
  <2> HIDE DEF x, y
  <2>3. SUFFICES ASSUME x < y PROVE FALSE
    BY <2>2 DEF x, y
  <2>4. x \in a..(a + n - 1)
    BY <2>2, <2>3
  <2>5. PICK j \in 1..k : s[j].b <= x /\ x < s[j].e
    BY <1>6, <2>4
  <2>6. s[j].b \in Nat /\ s[j].e \in Nat /\ s[i].b \in Nat
    BY <1>4, <2>1
  <2>7. CASE j < i
    <3>1. s[j].e <= s[i].b /\ s[i].b < x
      BY <1>4, <1>5, <2>1, <2>7 DEF x
    <3> QED
      BY <2>2, <2>5, <2>6, <3>1
  <2>8. CASE j = i
    BY <2>2, <2>5, <2>8 DEF x
  <2>9. CASE j = i + 1
    BY <2>2, <2>3, <2>5, <2>6, <2>9 DEF y
  <2>10. CASE i + 1 < j
    <3>1. y < s[j].b
      BY <1>5, <2>1, <2>10 DEF y
    <3> QED
      BY <2>2, <2>3, <2>5, <2>6, <3>1
  <2> QED
    BY <2>7, <2>8, <2>9, <2>10
<1>11. \A i \in 1..k : \A x \in s[i].b..(s[i].e - 1) : s[i].data[x] = f[x]
  BY <1>4
<1>12. Row(s, f, s[1].b, s[Len(s)].e)
  BY <1>3, <1>4, <1>7, <1>10, <1>11 DEF Row
<1>13. s # <<>>
  BY <1>3, <1>7
<1> QED
  BY <1>3, <1>4, <1>7, <1>8, <1>9, <1>12, <1>13 DEF s

\* The intervals _read_uncached makes.
LEMMA GapsAre ==
  ASSUME NEW us, NEW a \in Nat, NEW e \in Nat, NEW T, LeftBy(us, a, e, T)
  PROVE  /\ IsFiniteSet(us) /\ IsFiniteSet(Gaps(us))
         /\ \A iv \in Gaps(us) : \E u \in us : iv.b = u[1] /\ iv.e = u[2] /\ iv = Interval(u[1], u[2], View(u[1]..(u[2] - 1)))
         /\ \A u \in us : \E iv \in Gaps(us) : iv.b = u[1] /\ iv.e = u[2]
<1>1. IsFiniteSet(a..e)
  BY FS_Interval
<1>2. IsFiniteSet((a..e) \X (a..e))
  BY <1>1, FS_Product
<1>3. IsFiniteSet(us)
  BY <1>2, FS_Subset DEF LeftBy
<1> DEFINE h == [u \in us |-> Interval(u[1], u[2], View(u[1]..(u[2] - 1)))]
<1>4. h \in Surjection(us, Gaps(us))
  BY DEF Surjection, Gaps
<1>5. IsFiniteSet(Gaps(us))
  BY <1>3, <1>4, FS_Surjection
<1>6. \A u, v, d : Interval(u, v, d).b = u /\ Interval(u, v, d).e = v
  BY DEF Interval
<1> HIDE DEF h
<1>7. ASSUME NEW iv \in Gaps(us)
      PROVE  \E u \in us : iv.b = u[1] /\ iv.e = u[2] /\ iv = Interval(u[1], u[2], View(u[1]..(u[2] - 1)))
  <2>1. PICK u \in us : iv = Interval(u[1], u[2], View(u[1]..(u[2] - 1)))
    BY DEF Gaps
  <2>2. iv.b = u[1] /\ iv.e = u[2]
    BY <1>6, <2>1
  <2> QED
    BY <2>1, <2>2
<1>8. ASSUME NEW u \in us PROVE \E iv \in Gaps(us) : iv.b = u[1] /\ iv.e = u[2]
  <2> DEFINE iv == Interval(u[1], u[2], View(u[1]..(u[2] - 1)))
  <2>1. iv \in Gaps(us) /\ iv.b = u[1] /\ iv.e = u[2]
    BY <1>6 DEF Gaps
  <2> QED
    BY <2>1
<1> QED
  BY <1>3, <1>5, <1>7, <1>8

\* What a read past the cache adds lies beside what it has, and together they
\* cover the range.
LEMMA TilesAre ==
  ASSUME NEW c, IsFiniteSet(c), Proper(c), Apart(c), NEW a \in Nat, NEW n \in Nat \ {0}
  PROVE  LET gaps == Gaps(Uncached(c, a, n))
             S == Overlap(c, a, a + n) \union gaps IN
         /\ IsFiniteSet(gaps) /\ IsFiniteSet(S) /\ Proper(S) /\ Apart(S) /\ Apart(c \union gaps)
         /\ \A iv \in S : iv.b < a + n /\ iv.e > a
         /\ \A x \in a..(a + n - 1) : \E iv \in S : Holding(iv, x)
         /\ \A iv \in gaps :
              /\ a <= iv.b /\ iv.e <= a + n
              /\ iv = Interval(iv.b, iv.e, View(iv.b..(iv.e - 1)))
              /\ \A j \in c : iv.e <= j.b \/ j.e <= iv.b
<1> DEFINE e == a + n
           us == Uncached(c, a, n)
           T == Overlap(c, a, e)
           gaps == Gaps(us)
           S == T \union gaps
<1>1. e \in Nat /\ a < e
  OBVIOUS
<1>2. LeftBy(us, a, e, T)
  BY UncachedIsLeft DEF Proper
<1>3. T \subseteq c /\ IsFiniteSet(T) /\ \A iv \in c : iv \in T <=> iv.b < e /\ iv.e > a
  BY FS_Subset DEF Overlap
<1> HIDE DEF e, us, T, gaps
<1>4. /\ IsFiniteSet(gaps)
      /\ \A iv \in gaps : \E u \in us : iv.b = u[1] /\ iv.e = u[2] /\ iv = Interval(u[1], u[2], View(u[1]..(u[2] - 1)))
      /\ \A u \in us : \E iv \in gaps : iv.b = u[1] /\ iv.e = u[2]
  BY <1>1, <1>2, GapsAre DEF gaps
<1>5. \A u \in us : u[1] \in Nat /\ u[2] \in Nat /\ a <= u[1] /\ u[1] < u[2] /\ u[2] <= e
  BY <1>1, <1>2 DEF LeftBy
<1>6. \A iv \in gaps : /\ iv.b \in Nat /\ iv.e \in Nat /\ iv.b < iv.e /\ a <= iv.b /\ iv.e <= e
                       /\ iv = Interval(iv.b, iv.e, View(iv.b..(iv.e - 1)))
  BY <1>4, <1>5
<1>7. ASSUME NEW iv \in gaps, NEW j \in c PROVE iv.e <= j.b \/ j.e <= iv.b
  <2>1. PICK u \in us : iv.b = u[1] /\ iv.e = u[2]
    BY <1>4
  <2>2. CASE j \in T
    BY <1>2, <2>1, <2>2 DEF LeftBy
  <2>3. CASE j \notin T
    <3>1. j.b >= e \/ j.e <= a
      BY <1>1, <1>3, <2>3 DEF Proper
    <3>2. j.b \in Nat /\ j.e \in Nat
      BY DEF Proper
    <3> QED
      BY <1>1, <1>6, <3>1, <3>2
  <2> QED
    BY <2>2, <2>3
<1>8. ASSUME NEW i \in gaps, NEW j \in gaps PROVE i = j \/ i.e <= j.b \/ j.e <= i.b
  <2>1. PICK u \in us : i.b = u[1] /\ i.e = u[2] /\ i = Interval(u[1], u[2], View(u[1]..(u[2] - 1)))
    BY <1>4
  <2>2. PICK v \in us : j.b = v[1] /\ j.e = v[2] /\ j = Interval(v[1], v[2], View(v[1]..(v[2] - 1)))
    BY <1>4
  <2>3. u = v \/ u[2] <= v[1] \/ v[2] <= u[1]
    BY <1>2 DEF LeftBy
  <2> QED
    BY <2>1, <2>2, <2>3
<1>9. Apart(c \union gaps)
  BY <1>7, <1>8 DEF Apart
<1>10. Apart(S) /\ Proper(S)
  BY <1>3, <1>6, <1>9 DEF Apart, Proper
<1>11. IsFiniteSet(S)
  BY <1>3, <1>4, FS_Union
<1>12. ASSUME NEW iv \in S PROVE iv.b < e /\ iv.e > a
  BY <1>1, <1>3, <1>6
<1>13. ASSUME NEW x \in a..(e - 1) PROVE \E iv \in S : Holding(iv, x)
  <2>1. CASE \E u \in us : u[1] <= x /\ x < u[2]
    BY <1>4, <2>1 DEF Holding
  <2>2. CASE \E iv \in T : iv.b <= x /\ x < iv.e
    BY <2>2 DEF Holding
  <2> QED
    BY <1>2, <2>1, <2>2 DEF LeftBy
<1> QED
  BY <1>4, <1>6, <1>7, <1>9, <1>10, <1>11, <1>12, <1>13 DEF e, us, T, gaps

\* read_memory_block8 through a proper cache answers the bytes of the range,
\* each from the interval that holds it or else from the target.
LEMMA ReadIs ==
  ASSUME NEW f, NEW c, IsFiniteSet(c), Proper(c), Apart(c), NEW a \in Nat, NEW n \in Nat \ {0},
         \A iv \in c : \A x \in iv.b..(iv.e - 1) : iv.data[x] = f[x],
         \A x \in a..(a + n - 1) : (\A iv \in c : ~Holding(iv, x)) => f[x] = Filtered(x)
  PROVE  Read(c, a, n) = Slice(f, a, a + n)
<1> DEFINE gaps == Gaps(Uncached(c, a, n))
           S == Overlap(c, a, a + n) \union gaps
           s == Sorted(S)
<1>1. /\ IsFiniteSet(S) /\ Proper(S) /\ Apart(S)
      /\ \A iv \in S : iv.b < a + n /\ iv.e > a
      /\ \A x \in a..(a + n - 1) : \E iv \in S : Holding(iv, x)
      /\ \A iv \in gaps : /\ a <= iv.b /\ iv.e <= a + n
                          /\ iv = Interval(iv.b, iv.e, View(iv.b..(iv.e - 1)))
                          /\ \A j \in c : iv.e <= j.b \/ j.e <= iv.b
  BY TilesAre
<1>2. Read(c, a, n) = Merged(s, a, n)
  BY DEF Read
<1>3. gaps \subseteq S /\ \A iv \in S : iv \in c \/ iv \in gaps
  BY DEF Overlap
<1> HIDE DEF gaps, S
<1>4. ASSUME NEW iv \in S, NEW x \in iv.b..(iv.e - 1) PROVE iv.data[x] = f[x]
  <2>1. CASE iv \in c
    BY <1>4, <2>1
  <2>2. CASE iv \in gaps
    <3>1. iv.b \in Nat /\ iv.e \in Nat
      BY <1>1 DEF Proper
    <3>2. iv.data = View(iv.b..(iv.e - 1))
      <4>1. \A u, v, d : Interval(u, v, d).data = d
        BY DEF Interval
      <4> QED
        BY <1>1, <2>2, <4>1
    <3>3. iv.data[x] = Filtered(x)
      BY <1>4, <3>2 DEF View
    <3>4. x \in a..(a + n - 1)
      BY <1>1, <1>4, <2>2, <3>1
    <3>5. ASSUME NEW j \in c PROVE ~Holding(j, x)
      <4>1. iv.e <= j.b \/ j.e <= iv.b
        BY <1>1, <2>2
      <4>2. j.b \in Nat /\ j.e \in Nat
        BY DEF Proper
      <4> QED
        BY <1>4, <3>1, <4>1, <4>2 DEF Holding
    <3> QED
      BY <3>3, <3>4, <3>5
  <2> QED
    BY <1>3, <2>1, <2>2
<1>5. /\ s \in Seq(S) /\ s # <<>>
      /\ Row(s, f, s[1].b, s[Len(s)].e)
      /\ s[1].b <= a /\ a < s[1].e /\ s[Len(s)].b < a + n /\ a + n <= s[Len(s)].e
  BY <1>1, <1>4, SortedIsRow
<1> HIDE DEF s
<1>6. Merged(s, a, n) = Slice(f, a, a + n)
  BY <1>5, MergedIs
<1> QED
  BY <1>2, <1>6

-----------------------------------------------------------------------------
(* The memory cache.                                                      *)

\* What an interval of the cache is: a piece of one cacheable region.
Kept(iv) ==
  /\ iv = Interval(iv.b, iv.e, iv.data)
  /\ iv.data = [x \in iv.b..(iv.e - 1) |-> iv.data[x]]
  /\ \E r \in Regions : r.cacheable /\ iv.b..(iv.e - 1) \subseteq RegionAddrs(r)
Sound(c) == IsFiniteSet(c) /\ Proper(c) /\ Apart(c) /\ \A iv \in c : Kept(iv)

\* Its data are what is stored, where that is certain.
Right(c) == \A iv \in c : \A x \in iv.b..(iv.e - 1) : x \in torn \/ iv.data[x] = image[x]

\* The inductive invariant of the memory cache.  Every access looks at the
\* token first: if the cache's is the core's, the core has not run since, unless
\* it has run unnoticed.
CacheInv ==
  /\ ViewInv
  /\ token \in Nat /\ mtoken \in Int /\ mtoken <= token
  /\ run \in {"running", "sleeping", "halted"}
  /\ Sound(cache)
  /\ ~unnoticed /\ mtoken = token => ~IsRunning /\ Right(cache)

LEMMA EmptySound == Sound({}) /\ Right({})
BY FS_EmptySet DEF Sound, Proper, Apart, Right

LEMMA InitCache == Init => CacheInv
<1> SUFFICES ASSUME Init PROVE CacheInv
  OBVIOUS
<1>1. ViewInv
  BY InitView
<1> QED
  BY <1>1, EmptySound DEF Init, CacheInv, IsRunning

LEMMA CheckedIs ==
  ASSUME CacheInv
  PROVE  Sound(Checked) /\ (~unnoticed => Right(Checked))
<1>1. CASE Fresh(mtoken)
  BY <1>1 DEF CacheInv, Checked, Fresh
<1>2. CASE ~Fresh(mtoken)
  BY <1>2, EmptySound DEF Checked
<1> QED
  BY <1>1, <1>2

LEMMA AccessIs ==
  ASSUME session \in Sessions, NEW acc \in session.accesses
  PROVE  /\ acc[1] \in Nat /\ acc[2] \in Nat \ {0}
         /\ Span(acc[1], acc[2]) = acc[1]..(acc[1] + acc[2] - 1)
         /\ Span(acc[1], acc[2]) \subseteq Addrs
<1>1. acc \in Asked("accesses")
  BY DEF Asked
<1>2. acc \in Nat \X (Nat \ {0})
  BY <1>1, DebugViewAssumption
<1>3. acc[1] \in Nat /\ acc[2] \in Nat \ {0}
  BY <1>2
<1>4. acc[1]..(acc[1] + acc[2] - 1) \subseteq Addrs
  BY <1>1 DEF Addrs
<1> QED
  BY <1>3, <1>4 DEF Span

\* The memory that a cache and the target behind it show together.
Shown(c) == [x \in Nat |-> IF \E iv \in c : Holding(iv, x)
                           THEN (CHOOSE iv \in c : Holding(iv, x)).data[x] ELSE Filtered(x)]

LEMMA ShownIs ==
  ASSUME NEW c, Proper(c), Apart(c)
  PROVE  /\ \A iv \in c : \A x \in iv.b..(iv.e - 1) : iv.data[x] = Shown(c)[x]
         /\ \A x \in Nat : (\A iv \in c : ~Holding(iv, x)) => Shown(c)[x] = Filtered(x)
<1>1. ASSUME NEW iv \in c, NEW x \in iv.b..(iv.e - 1) PROVE iv.data[x] = Shown(c)[x]
  <2>1. x \in Nat /\ Holding(iv, x)
    BY DEF Proper, Holding
  <2> DEFINE j == CHOOSE j \in c : Holding(j, x)
  <2>2. j \in c /\ Holding(j, x)
    BY <2>1
  <2>3. Shown(c)[x] = j.data[x]
    BY <2>1 DEF Shown
  <2> HIDE DEF j
  <2>4. j = iv
    BY <2>1, <2>2 DEF Apart, Proper, Holding
  <2> QED
    BY <2>3, <2>4
<1> QED
  BY <1>1 DEF Shown

LEMMA ReadsStored == CacheInv => ReadIsStored
<1> SUFFICES ASSUME CacheInv, ~unnoticed, NEW acc \in session.accesses
             PROVE  LET a == acc[1]  n == acc[2]  got == Read(Checked, a, n) IN
                    Len(got) = n /\ \A x \in Span(a, n) \ torn : got[x - a + 1] = image[x]
  BY DEF ReadIsStored, ReadRight
<1> DEFINE a == acc[1]
           n == acc[2]
           c == Checked
           f == Shown(c)
<1>1. a \in Nat /\ n \in Nat \ {0} /\ Span(a, n) = a..(a + n - 1) /\ Span(a, n) \subseteq Addrs
  BY AccessIs DEF CacheInv, ViewInv
<1>2. IsFiniteSet(c) /\ Proper(c) /\ Apart(c) /\ Right(c)
  BY CheckedIs DEF Sound
<1> HIDE DEF a, n, c
<1>3. /\ \A iv \in c : \A x \in iv.b..(iv.e - 1) : iv.data[x] = f[x]
      /\ \A x \in Nat : (\A iv \in c : ~Holding(iv, x)) => f[x] = Filtered(x)
  BY <1>2, ShownIs
<1> HIDE DEF f
<1>4. Read(c, a, n) = Slice(f, a, a + n)
  BY <1>1, <1>2, <1>3, ReadIs
<1>5. Len(Slice(f, a, a + n)) = n
  <2>1. (a + n) - a = n /\ n \in Nat
    BY <1>1
  <2>2. Slice(f, a, a + n) = [i \in 1..n |-> f[a + i - 1]]
    BY <2>1 DEF Slice
  <2> QED
    BY <2>1, <2>2
<1>6. ASSUME NEW x \in Span(a, n) \ torn PROVE Slice(f, a, a + n)[x - a + 1] = image[x]
  <2>1. x \in Nat /\ x - a + 1 \in 1..((a + n) - a) /\ a + (x - a + 1) - 1 = x
    BY <1>1
  <2>2. Slice(f, a, a + n)[x - a + 1] = f[x]
    BY <2>1 DEF Slice
  <2>3. Filtered(x) = image[x]
    BY <1>1 DEF CacheInv, ViewInv, ViewIsStored
  <2>4. CASE \E iv \in c : Holding(iv, x)
    <3>1. PICK iv \in c : Holding(iv, x)
      BY <2>4
    <3>2. x \in iv.b..(iv.e - 1)
      BY <1>2, <2>1, <3>1 DEF Proper, Holding
    <3> QED
      BY <1>2, <1>3, <2>2, <3>2 DEF Right
  <2>5. CASE \A iv \in c : ~Holding(iv, x)
    BY <1>3, <2>1, <2>2, <2>3, <2>5
  <2> QED
    BY <2>4, <2>5
<1> QED
  BY <1>4, <1>5, <1>6 DEF a, n, c

-----------------------------------------------------------------------------
(* Reading and writing through the cache.                                  *)

\* _check_regions lets only accesses within one region pass.
LEMMA OneRegion ==
  ASSUME NEW a \in Nat, NEW n \in Nat \ {0}, ~Crossing(a, n),
         NEW r \in Regions, NEW x \in RegionAddrs(r), x \in Span(a, n)
  PROVE  /\ ContainsRange(r, a, n) /\ Span(a, n) \subseteq RegionAddrs(r)
         /\ \A q \in Regions : \A y \in RegionAddrs(q) : y \in Span(a, n) => q = r
<1> DEFINE hit == {q \in Regions : IntersectsRange(q, a, n)}
<1>1. IsFiniteSet(hit)
  BY DebugViewAssumption, FS_Subset
<1>2. r \in hit
  BY DEF IntersectsRange
<1>3. ~(Cardinality(hit) > 1) /\ \E q \in hit : ContainsRange(q, a, n)
  BY <1>2 DEF Crossing
<1>4. \A q \in Regions : \A y \in RegionAddrs(q) : y \in Span(a, n) => q \in hit
  BY DEF IntersectsRange
<1> HIDE DEF hit
<1>5. Cardinality(hit) \in Nat /\ Cardinality(hit) # 0
  BY <1>1, <1>2, FS_CardinalityType, FS_EmptySet
<1>6. Cardinality(hit) = 1
  BY <1>3, <1>5
<1>7. hit = {r}
  BY <1>1, <1>2, <1>6, FS_Singleton
<1>8. ContainsRange(r, a, n)
  BY <1>3, <1>7
<1>9. r.first \in Nat /\ r.last \in Nat
  BY DebugViewAssumption
<1>10. Span(a, n) \subseteq RegionAddrs(r)
  BY <1>8, <1>9 DEF ContainsRange, RegionAddrs, Span
<1> QED
  BY <1>4, <1>7, <1>8, <1>10

LEMMA GapsAdded ==
  ASSUME NEW c, Sound(c), NEW a \in Nat, NEW n \in Nat \ {0}, Cacheable(a, n),
         NEW some \in SUBSET Uncached(c, a, n)
  PROVE  /\ Sound(c \union Gaps(some))
         /\ \A iv \in Gaps(some) : \A x \in iv.b..(iv.e - 1) :
              x \in Span(a, n) /\ iv.data[x] = Filtered(x)
<1> DEFINE all == Gaps(Uncached(c, a, n))
           G == Gaps(some)
<1>1. /\ IsFiniteSet(all) /\ Apart(c \union all)
      /\ Proper(Overlap(c, a, a + n) \union all)
      /\ \A iv \in all : /\ a <= iv.b /\ iv.e <= a + n
                         /\ iv = Interval(iv.b, iv.e, View(iv.b..(iv.e - 1)))
  BY TilesAre DEF Sound
<1>2. G \subseteq all
  BY DEF Gaps
<1>3. PICK r \in Regions : ContainsRange(r, a, n) /\ r.cacheable
  BY DEF Cacheable
<1>4. r.first \in Nat /\ r.last \in Nat
  BY DebugViewAssumption
<1>5. Span(a, n) \subseteq RegionAddrs(r)
  BY <1>3, <1>4 DEF ContainsRange, RegionAddrs, Span
<1> HIDE DEF all, G
<1>6. \A u, v, d : Interval(u, v, d).data = d
  BY DEF Interval
<1>7. ASSUME NEW iv \in G
      PROVE  /\ iv.b \in Nat /\ iv.e \in Nat /\ iv.b < iv.e
             /\ iv.b..(iv.e - 1) \subseteq Span(a, n)
             /\ iv.data = View(iv.b..(iv.e - 1)) /\ Kept(iv)
  <2>1. iv.b \in Nat /\ iv.e \in Nat /\ iv.b < iv.e
    BY <1>1, <1>2 DEF Proper
  <2>2. iv.b..(iv.e - 1) \subseteq Span(a, n)
    BY <1>1, <1>2, <2>1 DEF Span
  <2>3. iv.data = View(iv.b..(iv.e - 1)) /\ iv = Interval(iv.b, iv.e, iv.data)
    BY <1>1, <1>2, <1>6
  <2>4. iv.data = [x \in iv.b..(iv.e - 1) |-> iv.data[x]]
    BY <2>3 DEF View
  <2>5. iv.b..(iv.e - 1) \subseteq RegionAddrs(r)
    BY <1>5, <2>2
  <2> QED
    BY <1>3, <2>1, <2>2, <2>3, <2>4, <2>5 DEF Kept
<1>8. IsFiniteSet(G) /\ IsFiniteSet(c \union G)
  BY <1>1, <1>2, FS_Subset, FS_Union DEF Sound
<1>9. Apart(c \union G)
  BY <1>1, <1>2 DEF Apart
<1>10. Proper(c \union G)
  BY <1>7 DEF Sound, Proper
<1>11. Sound(c \union G)
  BY <1>7, <1>8, <1>9, <1>10 DEF Sound
<1>12. ASSUME NEW iv \in G, NEW x \in iv.b..(iv.e - 1)
       PROVE  x \in Span(a, n) /\ iv.data[x] = Filtered(x)
  BY <1>7, <1>12 DEF View
<1> QED
  BY <1>11, <1>12 DEF G

LEMMA TouchIs ==
  ASSUME CacheInv, mtoken' = CheckedToken(mtoken), UNCHANGED <<session, run, token, unnoticed>>
  PROVE  /\ mtoken' \in Int /\ mtoken' <= token'
         /\ ~unnoticed /\ mtoken' = token' => ~IsRunning'
BY DEF CacheInv, CheckedToken, IsRunning

LEMMA ReadCache == ASSUME CacheInv, ReadMemory PROVE CacheInv'
<1>0. PICK acc \in session.accesses :
        LET gaps == Uncached(Checked, acc[1], acc[2]) IN
        IF ~Cacheable(acc[1], acc[2]) THEN cache' = Checked
        ELSE \/ cache' = Checked \union Gaps(gaps)
             \/ \E some \in SUBSET gaps : cache' = Checked \union Gaps(some)
  BY DEF ReadMemory
<1>1. PICK some \in SUBSET Uncached(Checked, acc[1], acc[2]) :
        /\ cache' = Checked \union Gaps(some)
        /\ some = {} \/ Cacheable(acc[1], acc[2])
  <2>1. Checked = Checked \union Gaps({})
    BY DEF Gaps
  <2> QED
    BY <1>0, <2>1
<1>2. /\ mtoken' = CheckedToken(mtoken)
      /\ UNCHANGED <<session, run, token, unnoticed, mem, image, sw, table, torn>>
  BY DEF ReadMemory, TouchMemory, core, breakView
<1> DEFINE a == acc[1]
           n == acc[2]
           c == Checked
<1>3. a \in Nat /\ n \in Nat \ {0} /\ Span(a, n) \subseteq Addrs
  BY AccessIs DEF CacheInv, ViewInv
<1>4. Sound(c) /\ (~unnoticed => Right(c))
  BY CheckedIs
<1>5. ViewInv'
  BY <1>2 DEF CacheInv, ViewInv, ViewIsStored, Filtered, Soft
<1> HIDE DEF a, n, c
<1>6. /\ Sound(cache')
      /\ \A iv \in cache' : iv \in c \/ \A x \in iv.b..(iv.e - 1) :
                                           x \in Span(a, n) /\ iv.data[x] = Filtered(x)
  <2>1. CASE some = {}
    <3>1. cache' = c
      BY <1>1, <2>1 DEF Gaps, c
    <3> QED
      BY <1>4, <3>1
  <2>2. CASE Cacheable(a, n)
    <3>1. some \in SUBSET Uncached(c, a, n) /\ cache' = c \union Gaps(some)
      BY <1>1 DEF a, n, c
    <3> QED
      BY <1>3, <1>4, <2>2, <3>1, GapsAdded
  <2> QED
    BY <1>1, <2>1, <2>2 DEF a, n
<1>7. ASSUME ~unnoticed PROVE Right(cache')
  <2>1. \A x \in Span(a, n) : x \in torn \/ Filtered(x) = image[x]
    BY <1>3 DEF CacheInv, ViewInv, ViewIsStored
  <2> QED
    BY <1>4, <1>6, <1>7, <2>1 DEF Right
<1>8. Sound(cache)'
  BY <1>6 DEF Sound, Proper, Apart, Kept
<1>9. ~unnoticed' => Right(cache)'
  BY <1>2, <1>7 DEF Right
<1> QED
  BY <1>2, <1>5, <1>8, <1>9, TouchIs DEF CacheInv

-----------------------------------------------------------------------------
(* Writes to the cache.                                                   *)

\* The least and the greatest of a bounded set of numbers.
LEMMA LeastIs == ASSUME NEW T \in SUBSET Nat, T # {} PROVE Min(T) \in T /\ \A m \in T : Min(T) <= m
<1>1. \E n \in T : \A m \in T : n <= m
  BY LeastNumber
<1> QED
  BY <1>1 DEF Min

LEMMA GreatestIs ==
  ASSUME NEW T \in SUBSET Nat, T # {}, NEW bound \in Nat, \A m \in T : m <= bound
  PROVE  Max(T) \in T /\ \A m \in T : m <= Max(T)
<1> DEFINE U == {u \in Nat : \A m \in T : m <= u}
<1>1. U \in SUBSET Nat /\ U # {}
  OBVIOUS
<1>2. PICK u \in U : \A v \in U : u <= v
  BY <1>1, LeastNumber
<1>3. u \in T
  <2>1. SUFFICES ASSUME u \notin T PROVE FALSE
    OBVIOUS
  <2>2. \A m \in T : m < u
    BY <1>2, <2>1
  <2>3. PICK t \in T : TRUE
    OBVIOUS
  <2>4. u \in Nat /\ u - 1 \in Nat /\ \A m \in T : m \in Nat
    BY <2>2, <2>3
  <2>5. \A m \in T : m <= u - 1
    BY <2>2, <2>4
  <2>6. u - 1 \in U
    BY <2>4, <2>5
  <2> QED
    BY <1>2, <2>4, <2>6
<1>4. \A m \in T : u >= m
  BY <1>2
<1>5. \E x \in T : \A y \in T : x >= y
  BY <1>3, <1>4
<1> QED
  BY <1>5 DEF Max

\* What a write leaves of an interval: the new data in the range, what the
\* cache held beside it.
Updated(iv, c, a, n, v) ==
  \A x \in iv.b..(iv.e - 1) :
    \/ x \in Span(a, n) /\ iv.data[x] = v
    \/ x \notin Span(a, n) /\ \E j \in c : Holding(j, x) /\ iv.data[x] = j.data[x]

\* An interval that a write leaves alone.
Beside(iv, c, a, n) == iv \in c /\ \A x \in Span(a, n) : ~Holding(iv, x)

LEMMA IntervalIs ==
  \A u, v, d : LET iv == Interval(u, v, d) IN iv.b = u /\ iv.e = v /\ iv.data = d /\ iv = Interval(iv.b, iv.e, iv.data)
BY DEF Interval

\* _update_contiguous.
LEMMA ContiguousIs ==
  ASSUME NEW c, Sound(c), NEW a \in Nat, NEW n \in Nat \ {0}, ~Crossing(a, n), Cacheable(a, n),
         NEW v
  PROVE  LET w == Contiguous(c, a, [x \in Span(a, n) |-> v]) IN
         Sound(w) /\ \A iv \in w : Beside(iv, c, a, n) \/ Updated(iv, c, a, n, v)
<1> DEFINE new == [x \in Span(a, n) |-> v]
           hit == Overlap(c, a, a + n)
           B == {a} \union {iv.b : iv \in hit}
           E == {a + n} \union {iv.e : iv \in hit}
           b == Min(B)
           e == Max(E)
           all == [x \in b..(e - 1) |->
                     IF x \in DOMAIN new THEN new[x]
                     ELSE (CHOOSE iv \in hit : x \in DOMAIN iv.data).data[x]]
           w == Interval(b, e, all)
<1>1. Cardinality(DOMAIN new) = n
  BY FS_Interval DEF Span
<1>2. Contiguous(c, a, new) = (c \ hit) \union {w}
  BY <1>1 DEF Contiguous
<1>3. /\ hit \subseteq c /\ \A iv \in c : iv \in hit <=> iv.b < a + n /\ iv.e > a
      /\ IsFiniteSet(c) /\ Proper(c) /\ Apart(c) /\ \A iv \in c : Kept(iv)
  BY DEF Overlap, Sound
<1>4. \A iv \in hit : iv.b \in Nat /\ iv.e \in Nat /\ iv.b < iv.e /\ iv.b < a + n /\ iv.e > a
  BY <1>3 DEF Proper
<1>5. PICK r \in Regions : ContainsRange(r, a, n) /\ r.cacheable
  BY DEF Cacheable
<1>6. r.first \in Nat /\ r.last \in Nat
  BY DebugViewAssumption
<1>7. /\ a \in RegionAddrs(r) /\ a \in Span(a, n) /\ Span(a, n) \subseteq RegionAddrs(r)
      /\ a + n - 1 <= r.last
  BY <1>5, <1>6 DEF ContainsRange, RegionAddrs, Span
<1>8. \A q \in Regions : \A y \in RegionAddrs(q) : y \in Span(a, n) => q = r
  BY <1>7, OneRegion
<1> HIDE DEF hit
<1>9. ASSUME NEW iv \in hit PROVE iv.b..(iv.e - 1) \subseteq RegionAddrs(r) /\ iv.e <= r.last + 1
  <2>1. PICK q \in Regions : q.cacheable /\ iv.b..(iv.e - 1) \subseteq RegionAddrs(q)
    BY <1>3 DEF Kept
  <2>2. \E y \in iv.b..(iv.e - 1) : y \in Span(a, n)
    <3>1. CASE iv.b <= a
      BY <1>4, <3>1 DEF Span
    <3>2. CASE a < iv.b
      <4>1. iv.b \in iv.b..(iv.e - 1) /\ iv.b \in Span(a, n)
        BY <1>4, <3>2 DEF Span
      <4> QED
        BY <4>1
    <3> QED
      BY <1>4, <3>1, <3>2
  <2>3. q = r
    BY <1>8, <2>1, <2>2
  <2>4. iv.e - 1 \in RegionAddrs(r)
    BY <1>4, <2>1, <2>3
  <2>5. iv.e - 1 <= r.last
    BY <1>4, <1>6, <2>4 DEF RegionAddrs
  <2> QED
    BY <1>4, <1>6, <2>1, <2>3, <2>5
<1>10. B \in SUBSET Nat /\ a \in B /\ E \in SUBSET Nat /\ a + n \in E
  BY <1>4
<1>11. \A m \in E : m <= r.last + 1
  BY <1>6, <1>7, <1>9
<1>12. b \in B /\ \A m \in B : b <= m
  BY <1>10, LeastIs
<1>13. e \in E /\ \A m \in E : m <= e
  <2> DEFINE last == r.last + 1
  <2>1. last \in Nat /\ \A m \in E : m <= last
    BY <1>6, <1>11
  <2> HIDE DEF last, E
  <2> QED
    BY <1>10, <2>1, GreatestIs
<1>14. /\ b \in Nat /\ e \in Nat /\ b <= a /\ a + n <= e
       /\ \A iv \in hit : b <= iv.b /\ iv.e <= e
       /\ b = a \/ \E iv \in hit : b = iv.b
       /\ e = a + n \/ \E iv \in hit : e = iv.e
  BY <1>10, <1>12, <1>13
<1> HIDE DEF B, E, b, e
<1>15. ASSUME NEW x \in b..(e - 1), x \notin Span(a, n)
       PROVE  \E iv \in hit : Holding(iv, x)
  <2>1. x < a \/ a + n <= x
    BY <1>14, <1>15 DEF Span
  <2>2. CASE x < a
    <3>1. PICK iv \in hit : b = iv.b
      BY <1>14, <2>2
    <3>2. iv.e > a
      BY <1>4
    <3> QED
      BY <1>4, <1>14, <2>2, <3>1, <3>2 DEF Holding
  <2>3. CASE a + n <= x
    <3>1. PICK iv \in hit : e = iv.e
      BY <1>14, <2>3
    <3> QED
      BY <1>4, <1>14, <2>3, <3>1 DEF Holding
  <2> QED
    BY <2>1, <2>2, <2>3
<1>16. \A x : \A iv \in hit : x \in DOMAIN iv.data <=> x \in iv.b..(iv.e - 1)
  <2>1. \A iv \in hit : iv.data = [x \in iv.b..(iv.e - 1) |-> iv.data[x]]
    BY <1>3 DEF Kept
  <2>2. \A iv \in hit : DOMAIN iv.data = iv.b..(iv.e - 1)
    BY <2>1
  <2> QED
    BY <2>2
<1>17. w.b = b /\ w.e = e /\ w.data = all /\ w = Interval(w.b, w.e, w.data)
  BY IntervalIs
<1> HIDE DEF w
<1>18. ASSUME NEW x \in b..(e - 1)
       PROVE  \/ x \in Span(a, n) /\ all[x] = v
              \/ x \notin Span(a, n) /\ \E j \in hit : Holding(j, x) /\ all[x] = j.data[x]
  <2>1. CASE x \in Span(a, n)
    BY <2>1
  <2>2. CASE x \notin Span(a, n)
    <3> DEFINE j == CHOOSE iv \in hit : x \in DOMAIN iv.data
    <3>1. PICK iv \in hit : Holding(iv, x)
      BY <1>15, <2>2
    <3>2. x \in DOMAIN iv.data
      BY <1>4, <1>14, <1>16, <3>1 DEF Holding
    <3>3. j \in hit /\ x \in DOMAIN j.data
      BY <3>2
    <3>4. all[x] = j.data[x]
      BY <2>2
    <3> HIDE DEF j
    <3>5. Holding(j, x)
      BY <1>4, <1>14, <1>16, <3>3 DEF Holding
    <3> QED
      BY <2>2, <3>3, <3>4, <3>5
  <2> QED
    BY <2>1, <2>2
<1>19. Updated(w, c, a, n, v)
  BY <1>3, <1>17, <1>18 DEF Updated
<1>20. Kept(w)
  <2>1. w.data = [x \in w.b..(w.e - 1) |-> w.data[x]]
    BY <1>17
  <2> HIDE DEF all
  <2>2. ASSUME NEW x \in b..(e - 1) PROVE x \in RegionAddrs(r)
    <3>1. CASE x \in Span(a, n)
      BY <1>7, <3>1
    <3>2. CASE x \notin Span(a, n)
      <4>1. PICK iv \in hit : Holding(iv, x)
        BY <1>15, <3>2
      <4>2. x \in iv.b..(iv.e - 1)
        BY <1>4, <1>14, <4>1 DEF Holding
      <4> QED
        BY <1>9, <4>2
    <3> QED
      BY <3>1, <3>2
  <2> QED
    BY <1>5, <1>17, <2>1, <2>2 DEF Kept
<1>21. ASSUME NEW i \in c \ hit PROVE i.e <= b \/ e <= i.b
  <2>1. i.b \in Nat /\ i.e \in Nat /\ i.b < i.e
    BY <1>3 DEF Proper
  <2>2. SUFFICES ASSUME b < i.e, i.b < e PROVE FALSE
    BY <1>14, <2>1
  <2> DEFINE y == IF i.b < b THEN b ELSE i.b
  <2>3. y \in b..(e - 1) /\ i.b <= y /\ y < i.e
    BY <1>14, <2>1, <2>2
  <2> HIDE DEF y
  <2>4. CASE y \in Span(a, n)
    <3>1. i.b < a + n /\ i.e > a
      BY <1>14, <2>1, <2>3, <2>4 DEF Span
    <3> QED
      BY <1>3, <3>1
  <2>5. CASE y \notin Span(a, n)
    <3>1. PICK j \in hit : Holding(j, y)
      BY <1>15, <2>3, <2>5
    <3>2. i # j /\ i \in c /\ j \in c
      BY <1>3
    <3>3. i.e <= j.b \/ j.e <= i.b
      BY <1>3, <3>2 DEF Apart
    <3> QED
      BY <1>4, <1>14, <2>1, <2>3, <3>1, <3>3 DEF Holding
  <2> QED
    BY <2>4, <2>5
<1> DEFINE d == (c \ hit) \union {w}
<1>22. IsFiniteSet(d)
  <2>1. IsFiniteSet(c \ hit)
    BY <1>3, FS_Subset
  <2> QED
    BY <2>1, FS_AddElement
<1> HIDE DEF all, new
<1>23. Proper(d)
  BY <1>3, <1>14, <1>17 DEF Proper
<1>24. Apart(d)
  BY <1>3, <1>17, <1>21 DEF Apart
<1>25. Sound(d)
  BY <1>3, <1>20, <1>22, <1>23, <1>24 DEF Sound
<1>26. ASSUME NEW iv \in c \ hit, NEW x \in Span(a, n) PROVE ~Holding(iv, x)
  <2>1. iv.b \in Nat /\ iv.e \in Nat /\ (iv.b >= a + n \/ iv.e <= a)
    BY <1>3 DEF Proper
  <2> QED
    BY <2>1 DEF Span, Holding
<1> QED
  BY <1>2, <1>19, <1>25, <1>26 DEF new, Beside

\* The end of write_memory_block8.
LEMMA WrittenIs ==
  ASSUME NEW c, Sound(c), NEW a \in Nat, NEW n \in Nat \ {0}, ~Crossing(a, n), Cacheable(a, n),
         NEW v
  PROVE  LET w == Written(c, a, [x \in Span(a, n) |-> v]) IN
         Sound(w) /\ \A iv \in w : Beside(iv, c, a, n) \/ Updated(iv, c, a, n, v)
<1> DEFINE new == [x \in Span(a, n) |-> v]
           within == {iv \in c : iv.b <= a /\ a + n <= iv.e}
<1>1. Cardinality(DOMAIN new) = n
  BY FS_Interval DEF Span
<1>2. Written(c, a, new) =
        IF within = {} THEN Contiguous(c, a, new)
        ELSE (c \ within) \union {[iv EXCEPT !.data = Override(@, new)] : iv \in within}
  BY <1>1 DEF Written
<1>3. CASE within = {}
  <2>1. Written(c, a, new) = Contiguous(c, a, new)
    BY <1>2, <1>3
  <2>2. LET w == Contiguous(c, a, [x \in Span(a, n) |-> v]) IN
        Sound(w) /\ \A iv \in w : Beside(iv, c, a, n) \/ Updated(iv, c, a, n, v)
    BY ContiguousIs
  <2> QED
    BY ONLY <2>1, <2>2
<1>4. CASE within # {}
  <2>1. PICK j \in c : j.b <= a /\ a + n <= j.e
    BY <1>4
  <2>2. /\ IsFiniteSet(c) /\ Proper(c) /\ Apart(c) /\ \A iv \in c : Kept(iv)
        /\ j.b \in Nat /\ j.e \in Nat /\ j.b < j.e
    BY DEF Sound, Proper
  <2>3. within = {j}
    <3>1. ASSUME NEW i \in within PROVE i = j
      BY <2>1, <2>2, <3>1 DEF Apart, Proper
    <3> QED
      BY <2>1, <3>1
  <2> DEFINE data == Override(j.data, new)
             w == Interval(j.b, j.e, data)
             d == (c \ {j}) \union {w}
  <2>4. j = Interval(j.b, j.e, j.data) /\ j.data = [x \in j.b..(j.e - 1) |-> j.data[x]]
    BY <2>2 DEF Kept
  <2>5. [j EXCEPT !.data = Override(@, new)] = w
    <3>1. \A p, q, f, g : [Interval(p, q, f) EXCEPT !.data = g] = Interval(p, q, g)
      BY DEF Interval
    <3> HIDE DEF w, data
    <3>2. [j EXCEPT !.data = data] = w
      BY <2>4, <3>1 DEF w
    <3>3. [j EXCEPT !.data = Override(@, new)] = [j EXCEPT !.data = data]
      BY DEF data
    <3> QED
      BY <3>2, <3>3
  <2>6. Written(c, a, new) = d
    <3> HIDE DEF w
    <3> QED
      BY <1>2, <1>4, <2>3, <2>5
  <2>7. w.b = j.b /\ w.e = j.e /\ w.data = data /\ w = Interval(w.b, w.e, w.data)
    BY IntervalIs
  <2>8. DOMAIN j.data = j.b..(j.e - 1)
    BY <2>4
  <2>9. data = [x \in j.b..(j.e - 1) |-> IF x \in Span(a, n) THEN v ELSE j.data[x]]
    BY <2>8 DEF Override
  <2> HIDE DEF w, data, new
  <2>10. Updated(w, c, a, n, v)
    <3>1. ASSUME NEW x \in w.b..(w.e - 1)
          PROVE  \/ x \in Span(a, n) /\ w.data[x] = v
                 \/ x \notin Span(a, n) /\ Holding(j, x) /\ w.data[x] = j.data[x]
      BY <2>2, <2>7, <2>9, <3>1 DEF Holding
    <3> QED
      BY <3>1 DEF Updated
  <2>11. Kept(w)
    <3>1. w.data = [x \in w.b..(w.e - 1) |-> w.data[x]]
      BY <2>7, <2>9
    <3>2. PICK r \in Regions : r.cacheable /\ j.b..(j.e - 1) \subseteq RegionAddrs(r)
      BY <2>2 DEF Kept
    <3>3. w.b..(w.e - 1) \subseteq RegionAddrs(r)
      BY <2>7, <3>2
    <3> QED
      BY <2>7, <3>1, <3>2, <3>3 DEF Kept
  <2>12. IsFiniteSet(d)
    BY <2>2, FS_RemoveElement, FS_AddElement
  <2>13. Proper(d)
    BY <2>2, <2>7 DEF Proper
  <2>14. Apart(d)
    BY <2>2, <2>7 DEF Apart
  <2>15. Sound(d)
    BY <2>2, <2>11, <2>12, <2>13, <2>14 DEF Sound
  <2>16. ASSUME NEW iv \in c \ {j}, NEW x \in Span(a, n) PROVE ~Holding(iv, x)
    <3>1. iv.b \in Nat /\ iv.e \in Nat /\ (iv.e <= j.b \/ j.e <= iv.b)
      BY <2>2 DEF Proper, Apart
    <3> QED
      BY <2>1, <2>2, <3>1 DEF Span, Holding
  <2> QED
    BY <2>6, <2>10, <2>15, <2>16 DEF new, Beside
<1> QED
  BY <1>3, <1>4

LEMMA WriteCache == ASSUME CacheInv, WriteMemory PROVE CacheInv'
<1>1. ViewInv'
  BY WriteView DEF CacheInv
<1>2. /\ mtoken' = CheckedToken(mtoken)
      /\ UNCHANGED <<session, run, token, unnoticed>>
  BY DEF WriteMemory, TouchMemory, core
<1>3. PICK acc \in session.accesses, v \in Data :
        LET S == Span(acc[1], acc[2])
            new == [x \in S |-> v]
            written == IF Cacheable(acc[1], acc[2]) THEN Written(Checked, acc[1], new) ELSE Checked
        IN
        /\ ~Crossing(acc[1], acc[2]) /\ torn \subseteq torn'
        /\ \/ cache' = written /\ image' = Override(image, new)
           \/ cache' = Checked /\ image' = image
           \/ cache' = written /\ image' = image /\ torn' = torn \union S
  BY DEF WriteMemory
<1> DEFINE a == acc[1]
           n == acc[2]
           c == Checked
           new == [x \in Span(a, n) |-> v]
<1>4. a \in Nat /\ n \in Nat \ {0} /\ Span(a, n) \subseteq Addrs
  BY AccessIs DEF CacheInv, ViewInv
<1>5. Sound(c) /\ (~unnoticed => Right(c))
  BY CheckedIs
<1>6. /\ ~Crossing(a, n) /\ torn \subseteq torn'
      /\ \/ /\ cache' = IF Cacheable(a, n) THEN Written(c, a, new) ELSE c
            /\ image' = Override(image, new) \/ (image' = image /\ Span(a, n) \subseteq torn')
         \/ cache' = c /\ image' = image
  BY <1>3
<1> HIDE DEF a, n, c
<1>7. ASSUME NEW iv \in c, NEW x \in iv.b..(iv.e - 1)
      PROVE  x \in Addrs /\ (x \in Span(a, n) => Cacheable(a, n))
  <2>1. PICK r \in Regions : r.cacheable /\ iv.b..(iv.e - 1) \subseteq RegionAddrs(r)
    BY <1>5 DEF Sound, Kept
  <2>2. x \in Addrs
    BY <2>1 DEF Addrs
  <2>3. ASSUME x \in Span(a, n) PROVE Cacheable(a, n)
    <3>1. x \in RegionAddrs(r)
      BY <2>1
    <3>2. ContainsRange(r, a, n)
      BY <1>4, <1>6, <2>3, <3>1, OneRegion
    <3> QED
      BY <2>1, <3>2 DEF Cacheable
  <2> QED
    BY <2>2, <2>3
<1>8. DOMAIN image = Addrs
  BY DEF CacheInv, ViewInv
<1>9. CASE cache' = c /\ image' = image
  <2>1. Sound(cache)'
    BY <1>5, <1>9 DEF Sound, Proper, Apart, Kept
  <2>2. ~unnoticed' => Right(cache)'
    BY <1>2, <1>5, <1>6, <1>9 DEF Right
  <2> QED
    BY <1>1, <1>2, <2>1, <2>2, TouchIs DEF CacheInv
<1>10. CASE ~Cacheable(a, n) /\ cache' = c /\ image' = Override(image, new)
  <2>1. Sound(cache)'
    BY <1>5, <1>10 DEF Sound, Proper, Apart, Kept
  <2>2. \A iv \in c : \A x \in iv.b..(iv.e - 1) : image'[x] = image[x]
    BY <1>7, <1>8, <1>10 DEF Override
  <2>3. ~unnoticed' => Right(cache)'
    BY <1>2, <1>5, <1>6, <1>10, <2>2 DEF Right
  <2> QED
    BY <1>1, <1>2, <2>1, <2>3, TouchIs DEF CacheInv
<1>11. CASE /\ Cacheable(a, n) /\ cache' = Written(c, a, new)
            /\ image' = Override(image, new) \/ (image' = image /\ Span(a, n) \subseteq torn')
  <2>1. /\ Sound(cache')
        /\ \A iv \in cache' : Beside(iv, c, a, n) \/ Updated(iv, c, a, n, v)
    BY <1>4, <1>5, <1>6, <1>11, WrittenIs
  <2>2. Sound(cache)'
    BY <2>1 DEF Sound, Proper, Apart, Kept
  <2>3. /\ \A x \in Span(a, n) : x \in torn' \/ image'[x] = v
        /\ \A x \in Addrs \ Span(a, n) : image'[x] = image[x]
    BY <1>4, <1>8, <1>11 DEF Override
  <2>4. \A iv \in c : iv.b \in Nat /\ iv.e \in Nat
    BY <1>5 DEF Sound, Proper
  <2>5. \A iv \in cache' : iv.b \in Nat /\ iv.e \in Nat
    BY <2>1 DEF Sound, Proper
  <2>6. ASSUME ~unnoticed, NEW iv \in cache', NEW x \in iv.b..(iv.e - 1)
        PROVE  x \in torn' \/ iv.data[x] = image'[x]
    <3>0. x \in Nat
      BY <2>5
    <3>1. ASSUME NEW j \in c, Holding(j, x), x \notin Span(a, n), iv.data[x] = j.data[x]
          PROVE  x \in torn' \/ iv.data[x] = image'[x]
      <4>1. x \in j.b..(j.e - 1)
        BY <2>4, <3>0, <3>1 DEF Holding
      <4>2. x \in Addrs /\ (x \in torn \/ j.data[x] = image[x])
        BY <1>5, <1>7, <2>6, <4>1 DEF Right
      <4> QED
        BY <1>6, <2>3, <3>1, <4>2
    <3>2. CASE Beside(iv, c, a, n)
      <4>1. Holding(iv, x)
        BY <2>5, <2>6, <3>0 DEF Holding
      <4> QED
        BY <3>1, <3>2, <4>1 DEF Beside
    <3>3. CASE Updated(iv, c, a, n, v)
      <4>1. \/ x \in Span(a, n) /\ iv.data[x] = v
            \/ x \notin Span(a, n) /\ \E j \in c : Holding(j, x) /\ iv.data[x] = j.data[x]
        BY <2>6, <3>3 DEF Updated
      <4> QED
        BY <2>3, <3>1, <4>1
    <3> QED
      BY <2>1, <3>2, <3>3
  <2>7. ~unnoticed' => Right(cache)'
    BY <1>2, <2>6 DEF Right
  <2> QED
    BY <1>1, <1>2, <2>2, <2>7, TouchIs DEF CacheInv
<1> QED
  BY <1>6, <1>9, <1>10, <1>11

\* Nothing else changes the cache.  What the program stores it stores under a
\* new token.
LEMMA RunCache ==
  ASSUME CacheInv, [Next]_vars, ~ReadMemory, ~WriteMemory PROVE CacheInv'
<1>1. ViewInv'
  BY StepView DEF CacheInv
<1>2. CASE /\ UNCHANGED <<session, token, unnoticed, mtoken, cache, image>> /\ torn \subseteq torn'
           /\ run' = run \/ run' \in {"halted", "sleeping"}
  <2>1. Sound(cache)'
    BY <1>2 DEF CacheInv, Sound, Proper, Apart, Kept
  <2>2. Right(cache) => Right(cache)'
    BY <1>2 DEF Right
  <2> QED
    BY <1>1, <1>2, <2>1, <2>2 DEF CacheInv, IsRunning
<1>3. CASE /\ UNCHANGED <<session, mtoken, cache>> /\ run' \in {"running", "sleeping", "halted"}
           /\ \/ token' = token + 1
              \/ token' = token /\ unnoticed' = TRUE
              \/ UNCHANGED <<token, unnoticed>> /\ run = "running" /\ run' = "running"
  <2>1. Sound(cache)'
    BY <1>3 DEF CacheInv, Sound, Proper, Apart, Kept
  <2> QED
    BY <1>1, <1>3, <2>1 DEF CacheInv, IsRunning
<1>4. CASE Resume \/ Step \/ Reset
  <2>1. /\ UNCHANGED <<session, mtoken, cache>> /\ run' \in {run, "running"}
        /\ \/ token' = token + 1
           \/ token' = token /\ unnoticed' = TRUE
           \/ UNCHANGED <<run, token, unnoticed, image, torn>>
    BY <1>4 DEF Resume, Step, Reset, CountRun, memView, tokens
  <2> QED
    BY <1>2, <1>3, <2>1 DEF CacheInv
<1>5. CASE Program
  <2>1. /\ UNCHANGED <<session, token, mtoken, cache>>
        /\ \/ run = "running" /\ run' = run /\ UNCHANGED unnoticed
           \/ run' = "sleeping" /\ UNCHANGED <<unnoticed, image, torn>>
           \/ unnoticed' = TRUE /\ run' = "running"
    BY <1>5 DEF Program, CoreRuns, CoreSleeps, CoreWakes, IsRunning, core, memView, tokens
  <2> QED
    BY <1>2, <1>3, <2>1
<1>6. CASE Invalidate
  <2>1. UNCHANGED <<session, run, token, unnoticed, mtoken>> /\ cache' = {}
    BY <1>6 DEF Invalidate, core, tokens
  <2>2. Sound(cache)' /\ Right(cache)'
    BY <2>1, FS_EmptySet DEF Sound, Proper, Apart, Right
  <2> QED
    BY <1>1, <2>1, <2>2 DEF CacheInv, IsRunning
<1>7. CASE Breakpoints
  <2>1. UNCHANGED <<session, core, tokens, image, cache>>
    BY <1>7 DEF Breakpoints, SetBreakpoint, RemoveBreakpoint, RemoveAll, Removing
  <2>2. torn \subseteq torn'
    BY <1>7 DEF Breakpoints, SetBreakpoint, SetSoftware, SetSoftwareFails, RemoveBreakpoint,
                RemoveAll, Removing, RemoveSoftware
  <2> QED
    BY <1>2, <2>1, <2>2 DEF core, tokens
<1>8. CASE Reported \/ Halt \/ Registers \/ Watchpoints \/ UNCHANGED vars
  BY <1>2, <1>8 DEF Reported, Halt, Registers, ReadRegisters, WriteRegisters, TouchRegisters,
                    Watchpoints, NoSetting, SetWatchpoint, RemoveWatch, Rest, core, tokens,
                    memView, vars
<1> QED
  BY <1>4, <1>5, <1>6, <1>7, <1>8 DEF Next, RunControl, Memory

LEMMA StepCache == CacheInv /\ [Next]_vars => CacheInv'
BY ReadCache, WriteCache, RunCache

\* A read through MemoryCache answers the range it was asked for, all of it and
\* in order, with what is stored there: whatever reads, writes, breakpoints,
\* faults and runs of the core came before, for every memory map and session,
\* unless the core has run without a new token.
THEOREM ReadsHold == Spec => []ReadIsStored
<1> QED
  BY InitCache, StepCache, ReadsStored, PTL DEF Spec
=============================================================================
