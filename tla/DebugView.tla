------------------------------- MODULE DebugView -------------------------------
(***************************************************************************)
(* What a debugger sees of a core through pyOCD: CachingDebugContext with   *)
(* its memory and register caches, CortexM's memory access, registers and   *)
(* run control beneath it, the breakpoint manager with its software and     *)
(* hardware (FPB) providers, and the watchpoints (DWT).                     *)
(*                                                                         *)
(* A write is only queued (set_deferred_transfer, cmsis_dap_probe.py:135):  *)
(* it may fail after its call has returned, which a later call is told.     *)
(* Memory is counted in halfwords, the size of a breakpoint.  A session     *)
(* works on one part: memory and breakpoints, registers, or watchpoints;    *)
(* they share only the core's run state.                                    *)
(***************************************************************************)
EXTENDS Integers, Sequences, SequencesExt, FiniteSets, FiniteSetsExt, Functions

CONSTANTS Sessions,     \* what a session uses: records [accesses, breaks, lists,
                        \* watches, rev, stores, sleeps], see below
          Regions,      \* the memory map: records [first, last, kind, cacheable]
          Data,         \* the values memory holds
          Comparators,  \* number of hardware breakpoints
          WatchUnits,   \* number of watchpoint comparators
          MaxRuns,      \* bound on the run token
          MaxFaults,    \* bound on failed transfers
          Bkpt          \* the BKPT #0 instruction

\* A session accesses memory at "accesses", pairs of address and length, sets
\* breakpoints at the addresses of "breaks", reads and writes the register
\* lists of "lists" and sets the watchpoints of "watches", pairs of address
\* and size; "rev" is the revision of the core's FPB: 1, which reaches only
\* below RAM, or 2.  The program stores at the addresses of "stores"; "sleeps"
\* says whether it executes WFI.
Asked(field) == UNION {s[field] : s \in Sessions}

RegionAddrs(r) == r.first..r.last
Addrs == (UNION {RegionAddrs(r) : r \in Regions})
             \union (UNION {acc[1]..(acc[1] + acc[2] - 1) : acc \in Asked("accesses")})
             \union Asked("breaks")
KindOf(a) == {r.kind : r \in {q \in Regions : a \in RegionAddrs(q)}}
InRam(a) == "ram" \in KindOf(a)

ASSUME DebugViewAssumption ==
  /\ \A s \in Sessions : s.rev \in {1, 2} /\ s.sleeps \in BOOLEAN
  /\ IsFiniteSet(Regions)
  /\ \A r \in Regions : r.first \in Nat /\ r.last \in Nat /\ r.first <= r.last
  /\ Asked("accesses") \subseteq Nat \X (Nat \ {0})
  /\ Asked("breaks") \subseteq Nat
  /\ Bkpt \notin Data
  /\ Comparators \in Nat /\ WatchUnits \in Nat
  /\ MaxRuns \in Nat /\ MaxFaults \in Nat

VARIABLES
  session,   \* of Sessions
  run,       \* the core: "running", "sleeping", "halted"
  token,     \* CortexM._run_token
  unnoticed, \* the core has executed instructions that the token does not tell
  mem,       \* target memory
  image,     \* what the program and the debugger have stored, breakpoints aside
  cache,     \* MemoryCache._cache: intervals [b, e, data], e exclusive
  mtoken,    \* _run_token of the memory cache
  rtoken,    \* _run_token of the register cache
  sw,        \* SoftwareBreakpointProvider._breakpoints: address -> instruction
  table,     \* BreakpointManager._breakpoints: address -> [type, instr]
  comps,     \* FPB.hw_breakpoints: [enabled, addr]
  active,    \* what the FPB's comparators hold: an address or -1
  used,      \* num_hw_breakpoint_used
  regs,      \* the core's register fields
  rcache,    \* RegisterCache._cache: name -> value
  watch,     \* DWT.watchpoints: [args, func], and armed: the unit's own setting
  answer,    \* what set_watchpoint returned last, and for what
  torn,      \* addresses a lost, failed or overlaid write has left uncertain
  mixed,     \* registers whose cached value an alias or a failure has outdated
  refused,   \* watchpoints whose setting did not succeed
  late,      \* a queued write has failed and no call has been told yet
  faults

memView == <<mem, image, cache, torn>>
breakView == <<sw, table, comps, active, used>>
regView == <<regs, rcache, mixed>>
dwt == <<watch, answer, refused>>
probe == <<late, faults>>
core == <<run, token, unnoticed>>
tokens == <<mtoken, rtoken>>
vars == <<session, core, tokens, memView, breakView, regView, dwt, probe>>

\* An access fails and the call is told, or a queued write fails and the call
\* has returned.  While that is to be reported other writes may go the same
\* way, until a call that reads, or finds the queue full, is told.
Fault == ~late /\ faults < MaxFaults /\ faults' = faults + 1
Raises == Fault /\ late' = FALSE
Loses == Fault /\ late' = TRUE
Told == late /\ late' = FALSE /\ UNCHANGED faults
Well == ~late /\ UNCHANGED probe

\* For calls that only write: another write is lost, and the call is told of
\* its own failure or of the earlier one.
Lost == Loses \/ (late /\ UNCHANGED probe)
Refused == Raises \/ Told

Span(a, n) == a..(a + n - 1)
Override(f, g) == [x \in DOMAIN f |-> IF x \in DOMAIN g THEN g[x] ELSE f[x]]
Without(f, S) == Restrict(f, DOMAIN f \ S)
Extended(f, x, v) == [y \in DOMAIN f \union {x} |-> IF y = x THEN v ELSE f[y]]
NoneSet == [x \in {} |-> 0]

-----------------------------------------------------------------------------
(* Run control of CortexM.                                                 *)

\* get_state: only TARGET_RUNNING counts as running.
IsRunning == run = "running"

\* _check_cache: emptied while the core runs and when the token has moved on.
CheckedToken(t) == IF ~IsRunning /\ t # token THEN token ELSE t
Fresh(t) == ~IsRunning /\ t = token

\* A call whose first access is a read learns there of the failure that was
\* still to be reported, and does nothing more.
Reported ==
  /\ Told
  /\ UNCHANGED <<session, core, tokens, memView, breakView, regView, dwt>>

\* The debugger halts the core, or the core stops at a breakpoint.
Halt ==
  /\ run' = "halted"
  /\ UNCHANGED <<session, token, unnoticed, tokens, memView, breakView, regView, dwt, probe>>

CountRun == token < MaxRuns /\ token' = token + 1 /\ unnoticed' = FALSE

\* resume does nothing unless the core is halted; it ends with a flush.
Resume ==
  /\ run = "halted" /\ CountRun
  /\ \/ run' = "running" /\ Well
     \/ run' \in {run, "running"} /\ Raises
  /\ UNCHANGED <<session, tokens, memView, breakView, regView, dwt>>

\* The fields of the registers; a combined register has those of its parts.
Fields(name) ==
  CASE name \in {"sp", "msp"} -> {"msp"}
    [] name = "cfbp" -> {"primask", "basepri"}
    [] name = "d0" -> {"s0", "s1"}
    [] OTHER -> {name}
CfbpSubs == {"primask", "basepri"}
FieldNames ==
  CfbpSubs \union UNION {UNION {Fields(list[i]) : i \in DOMAIN list} : list \in Asked("lists")}
CfbpRegs == {"cfbp"} \union CfbpSubs
Value(name, f) == [x \in Fields(name) |-> f[x]]

\* What an instruction may do: store, perhaps over a breakpoint, or change a
\* register.
ProgramStep ==
  \/ /\ \E a \in session.stores \intersect Addrs, v \in Data :
          /\ mem' = [mem EXCEPT ![a] = v] /\ image' = [image EXCEPT ![a] = v]
          /\ torn' = torn \union ({a} \intersect DOMAIN sw)
     /\ UNCHANGED regs
  \/ /\ session.lists # {}
     /\ \E f \in FieldNames : regs' = [regs EXCEPT ![f] = 1 - regs[f]]
     /\ UNCHANGED <<mem, image, torn>>
  \/ UNCHANGED <<mem, image, torn, regs>>

\* step counts the token up after the instruction and the accesses that
\* follow it; if one of them raises, the instruction has been executed.
Step ==
  /\ run = "halted" /\ token < MaxRuns
  /\ \/ ProgramStep /\ CountRun /\ Well
     \/ ProgramStep /\ unnoticed' = TRUE /\ Raises /\ UNCHANGED token
     \/ UNCHANGED <<mem, image, torn, regs, token, unnoticed>> /\ Raises
  /\ UNCHANGED <<session, run, tokens, cache, breakView, rcache, mixed, dwt>>

\* The token is counted up first; _perform_reset swallows the failure of its
\* write, an earlier one included.
Reset ==
  /\ CountRun
  /\ \/ run' = "running" /\ Well
     \/ run' \in {run, "running"} /\ Refused
  /\ UNCHANGED <<session, tokens, memView, breakView, regView, dwt>>

\* The program itself: it runs, sleeps and wakes up.
CoreRuns ==
  /\ IsRunning
  /\ ProgramStep
  /\ UNCHANGED <<session, core, tokens, cache, breakView, rcache, mixed, dwt, probe>>

CoreSleeps ==
  /\ session.sleeps /\ IsRunning
  /\ run' = "sleeping"
  /\ UNCHANGED <<session, token, unnoticed, tokens, memView, breakView, regView, dwt, probe>>

\* Asleep the core does not count as running: the caches may have been filled.
CoreWakes ==
  /\ run = "sleeping"
  /\ run' = "running" /\ unnoticed' = TRUE
  /\ UNCHANGED <<session, token, tokens, memView, breakView, regView, dwt, probe>>

-----------------------------------------------------------------------------
(* Memory through the cache.                                               *)

\* filter_memory: software breakpoints are hidden from reads.
Filtered(a) == IF a \in DOMAIN sw THEN sw[a] ELSE mem[a]
View(S) == [a \in S |-> Filtered(a)]

IntersectsRange(r, a, n) == RegionAddrs(r) \intersect Span(a, n) # {}
ContainsRange(r, a, n) == a \in RegionAddrs(r) /\ a + n - 1 \in RegionAddrs(r)

\* _check_regions
Crossing(a, n) ==
  LET hit == {r \in Regions : IntersectsRange(r, a, n)}
  IN hit # {} /\ (Cardinality(hit) > 1 \/ \A r \in hit : ~ContainsRange(r, a, n))
Cacheable(a, n) == \E r \in Regions : ContainsRange(r, a, n) /\ r.cacheable

Interval(b, e, data) == [b |-> b, e |-> e, data |-> data]
Overlap(c, b, e) == {iv \in c : iv.b < e /\ iv.e > b}

\* What remains of an uncached range <<b, e>> beside one cached interval.
Cut(u, iv) ==
  IF iv.e < u[1] \/ iv.b > u[2] THEN {u}
  ELSE {v \in {<<u[1], iv.b>>, <<iv.e, u[2]>>} : v[1] < v[2]}

\* _get_ranges
Uncached(c, a, n) ==
  FoldSet(LAMBDA iv, us : UNION {Cut(u, iv) : u \in us}, {<<a, a + n>>}, Overlap(c, a, a + n))

\* _read_uncached
Gaps(ranges) == {Interval(u[1], u[2], View(u[1]..(u[2] - 1))) : u \in ranges}

\* combined.sort: in the order of their beginnings.
Sorted(ivs) ==
  CHOOSE s \in [1..Cardinality(ivs) -> ivs] : \A i, j \in DOMAIN s : i < j => s[i].b < s[j].b

Piece(iv, from, to) == [i \in 1..(to - from) |-> iv.data[from + i - 1]]

\* _merge_data: the intervals that make up a range, sorted, with the ragged
\* edges of the first and the last cut off.
Merged(ivs, a, n) ==
  LET lead == IF ivs[1].b < a THEN Piece(ivs[1], a, ivs[1].e) ELSE <<>>
      rest == IF ivs[1].b < a THEN Tail(ivs) ELSE ivs
      ragged == rest # <<>> /\ Last(rest).e > a + n
      trail == IF ragged THEN Piece(Last(rest), Last(rest).b, a + n) ELSE <<>>
      whole == IF ragged THEN Front(rest) ELSE rest
  IN IF ivs[1].b < a /\ ivs[1].e > a + n THEN Piece(ivs[1], a, a + n)
     ELSE lead \o FlattenSeq([i \in DOMAIN whole |-> Piece(whole[i], whole[i].b, whole[i].e)])
            \o trail

\* What read_memory_block8 answers, _read's cached and uncached parts together.
Read(c, a, n) == Merged(Sorted(Overlap(c, a, a + n) \union Gaps(Uncached(c, a, n))), a, n)

Checked == IF Fresh(mtoken) THEN cache ELSE {}
TouchMemory == mtoken' = CheckedToken(mtoken) /\ rtoken' = rtoken

\* MemoryCache.read_memory_block8; a failing transfer leaves what was read
\* before it.
ReadMemory ==
  /\ \E acc \in session.accesses :
       /\ ~Crossing(acc[1], acc[2])
       /\ LET gaps == Uncached(Checked, acc[1], acc[2]) IN
          IF ~Cacheable(acc[1], acc[2]) THEN cache' = Checked /\ Well
          ELSE \/ cache' = Checked \union Gaps(gaps) /\ Well
               \/ /\ Raises /\ gaps # {}
                  /\ \E some \in SUBSET gaps : some # gaps /\ cache' = Checked \union Gaps(some)
  /\ TouchMemory
  /\ UNCHANGED <<session, core, mem, image, torn, breakView, regView, dwt>>

Contiguous_OldWins(c, a, new) ==
  LET n == Cardinality(DOMAIN new)
      hit == Overlap(c, a, a + n)
      b == Min({a} \union {iv.b : iv \in hit})
      e == Max({a + n} \union {iv.e : iv \in hit})
      all == [x \in b..(e - 1) |->
                IF \E iv \in hit : x \in DOMAIN iv.data
                THEN (CHOOSE iv \in hit : x \in DOMAIN iv.data).data[x] ELSE new[x]]
  IN (c \ hit) \union {Interval(b, e, all)}

\* _update_contiguous: the new data with the ragged edges of what it overlaps.
Contiguous(c, a, new) ==
  LET n == Cardinality(DOMAIN new)
      hit == Overlap(c, a, a + n)
      b == Min({a} \union {iv.b : iv \in hit})
      e == Max({a + n} \union {iv.e : iv \in hit})
      all == [x \in b..(e - 1) |->
                IF x \in DOMAIN new THEN new[x]
                ELSE (CHOOSE iv \in hit : x \in DOMAIN iv.data).data[x]]
  IN (c \ hit) \union {Interval(b, e, all)}

\* The end of write_memory_block8: one interval that holds the range is
\* overwritten in place, several are merged, and without any it is added.
Written(c, a, new) ==
  LET n == Cardinality(DOMAIN new)
      within == {iv \in c : iv.b <= a /\ a + n <= iv.e}
  IN IF within = {} THEN Contiguous(c, a, new)
     ELSE (c \ within) \union {[iv EXCEPT !.data = Override(@, new)] : iv \in within}

\* The target is written first, the cache unless that raises; a write that was
\* only queued may have come through in part, or not at all.
WriteMemory ==
  /\ \E acc \in session.accesses, v \in Data :
       LET S == Span(acc[1], acc[2])
           new == [a \in S |-> v]
           written == IF Cacheable(acc[1], acc[2]) THEN Written(Checked, acc[1], new) ELSE Checked
       IN
       /\ ~Crossing(acc[1], acc[2])
       /\ \/ /\ mem' = Override(mem, new)
             /\ cache' = written
             /\ image' = Override(image, new)
             /\ torn' = torn \union (S \intersect DOMAIN sw)
             /\ Well
          \/ /\ \/ Raises /\ cache' = Checked
                \/ Loses /\ cache' = written
             /\ \E k \in 0..acc[2] : mem' = Override(mem, Restrict(new, Span(acc[1], k)))
             /\ torn' = torn \union S
             /\ UNCHANGED image
  /\ TouchMemory
  /\ UNCHANGED <<session, core, breakView, regView, dwt>>

\* invalidate() of the caching context
Invalidate ==
  /\ cache' = {} /\ rcache' = NoneSet
  /\ mixed' = {}
  /\ UNCHANGED <<session, core, tokens, mem, image, torn, breakView, regs, dwt, probe>>

-----------------------------------------------------------------------------
(* Breakpoints.                                                            *)

InHwRange(a) == session.rev = 2 \/ ~InRam(a)
Available == Comparators - used

\* BreakpointManager.set_breakpoint up to the choice of a provider; "-" when
\* there is none.
Provider(a, type) ==
  LET kind == IF KindOf(a) = {} THEN "hw"
              ELSE IF type # "auto" THEN type
              ELSE IF ~InHwRange(a) \/ InRam(a) \/ Available <= 0 THEN "sw" ELSE "hw"
      ranged == IF kind = "hw" /\ ~InHwRange(a) THEN (IF InRam(a) THEN "sw" ELSE "-") ELSE kind
  IN IF ranged # "-" /\ "flash" \in KindOf(a)
     THEN IF InHwRange(a) /\ Available > 0 THEN "hw" ELSE "-"
     ELSE ranged

Software(instr) == [type |-> "sw", instr |-> instr]
Hardware == [type |-> "hw", instr |-> Bkpt]

SetSoftware_RawInstr(a) ==
  /\ sw' = Extended(sw, a, mem[a])
  /\ table' = Extended(table, a, Software(mem[a]))
  /\ \/ mem' = [mem EXCEPT ![a] = Bkpt] /\ Well
     \/ UNCHANGED mem /\ Loses
  /\ UNCHANGED torn

\* SoftwareBreakpointProvider.set_breakpoint: the instruction is read through
\* the filter; the write of the BKPT may be lost.
SetSoftware(a) ==
  /\ sw' = Extended(sw, a, Filtered(a))
  /\ table' = Extended(table, a, Software(Filtered(a)))
  /\ \/ mem' = [mem EXCEPT ![a] = Bkpt] /\ Well
     \/ UNCHANGED mem /\ Loses
  /\ UNCHANGED torn

\* A transfer that raises makes it return None, though the write may have got
\* through.
SetSoftwareFails(a) ==
  /\ Raises
  /\ mem' \in {mem, [mem EXCEPT ![a] = Bkpt]}
  /\ torn' = (IF mem' # mem THEN torn \union {a} ELSE torn)
  /\ UNCHANGED <<sw, table>>

FreeComps == {i \in DOMAIN comps : ~comps[i].enabled}

\* FPB.set_breakpoint takes the first comparator that is not enabled.
SetHardware(a) ==
  /\ Available > 0 /\ FreeComps # {}
  /\ LET i == Min(FreeComps) IN
     /\ comps' = [comps EXCEPT ![i] = [enabled |-> TRUE, addr |-> a]]
     /\ \/ active' = [active EXCEPT ![i] = a] /\ UNCHANGED probe
        \/ UNCHANGED active /\ Lost
  /\ used' = used + 1
  /\ table' = Extended(table, a, Hardware)

\* The comparator stays marked if the transfer raises.
SetHardwareFails(a) ==
  /\ Available > 0 /\ FreeComps # {}
  /\ Refused
  /\ LET i == Min(FreeComps) IN
     /\ comps' = [comps EXCEPT ![i].enabled = TRUE]
     /\ active' \in {active, [active EXCEPT ![i] = a]}
  /\ UNCHANGED <<used, table>>

\* The assertion stops a software breakpoint outside RAM, and the read one
\* that meets a failure still to be reported.
SetBreakpoint ==
  /\ \E a \in session.breaks \ DOMAIN table, type \in {"auto", "sw", "hw"} :
       \/ /\ Provider(a, type) = "sw" /\ InRam(a)
          /\ SetSoftware(a) \/ SetSoftwareFails(a)
          /\ UNCHANGED <<comps, active, used>>
       \/ /\ Provider(a, type) = "hw"
          /\ SetHardware(a) \/ SetHardwareFails(a)
          /\ UNCHANGED <<mem, sw, torn>>
  /\ UNCHANGED <<session, core, tokens, image, cache, regView, dwt>>

\* The comparator that remove_breakpoint finds by its address.
CompAt(a) == {i \in DOMAIN comps : comps[i].enabled /\ comps[i].addr = a}

Soft(S) == {a \in S : table[a].type = "sw"}
Comps(S) == {Min(CompAt(a)) : a \in {b \in S \ Soft(S) : CompAt(b) # {}}}
Writing(S) == Soft(S) \union {a \in S : CompAt(a) # {}}

\* An earlier remove_all_breakpoints has removed these and kept the table:
\* deleting them from the provider's list raises KeyError.
Stale(S) == Soft(S) \ DOMAIN sw

\* SoftwareBreakpointProvider.remove_breakpoint for the breakpoints of S: the
\* writes of "lost" do not come through, and a call that raises goes on hiding
\* the BKPT.  A stale breakpoint writes its old instruction over what has been
\* stored since.
RemoveSoftware(S, lost, raised) ==
  /\ mem' = [a \in DOMAIN mem |-> IF a \in Soft(S) \ lost THEN table[a].instr ELSE mem[a]]
  /\ sw' = Without(sw, Soft(S) \ raised)
  /\ torn' = torn \union {a \in Soft(S) : IF a \in DOMAIN sw THEN a \in lost \ raised ELSE a \notin lost}

RemoveHardware_Keeps(S, lost, raised) ==
  /\ comps' = [i \in DOMAIN comps |->
                 IF i \in Comps(S) THEN [comps[i] EXCEPT !.enabled = FALSE] ELSE comps[i]]
  /\ UNCHANGED active
  /\ used' = used - Cardinality(Comps(S \ raised))

\* FPB.remove_breakpoint; an exception leaves num_hw_breakpoint_used as it was.
RemoveHardware(S, lost, raised) ==
  /\ comps' = [i \in DOMAIN comps |->
                 IF i \in Comps(S) THEN [comps[i] EXCEPT !.enabled = FALSE] ELSE comps[i]]
  /\ active' = [i \in DOMAIN active |-> IF i \in Comps(S \ lost) THEN -1 ELSE active[i]]
  /\ used' = used - Cardinality(Comps(S \ raised))

\* The providers are called for the breakpoints of S, in any order.
Removing(S, lost, raised) ==
  /\ lost \union raised \subseteq Writing(S)
  /\ RemoveSoftware(S, lost, raised) /\ RemoveHardware(S, lost, raised)
  /\ \/ lost = {} /\ raised = {} /\ UNCHANGED probe
     \/ lost # {} /\ raised = {} /\ Lost
     \/ raised # {} /\ Refused
  /\ UNCHANGED <<session, core, tokens, image, cache, regView, dwt>>

\* remove_breakpoint: the manager forgets the breakpoint before its provider
\* is called.
RemoveBreakpoint ==
  \E a \in DOMAIN table : \E lost, raised \in SUBSET {a} :
    /\ Removing({a}, lost, raised)
    /\ table' = Without(table, {a})

\* remove_all_breakpoints, as disconnect calls it: a software breakpoint's
\* TransferError is logged and the loop goes on; any other exception ends it at
\* one of the breakpoints and keeps the table.  At most one call raises.
RemoveAll ==
  \E S \in SUBSET DOMAIN table \ {{}} : \E lost \in SUBSET S : \E raised \in {{}} \union {{a} : a \in S} :
    /\ Removing(S, lost, raised)
    /\ \/ S = DOMAIN table /\ Stale(S) = {} /\ raised \subseteq Soft(S)
          /\ table' = NoneSet
       \/ /\ \E last \in raised \union Stale(S) :
               Stale(S) \union (raised \ Soft(S)) \subseteq {last}
          /\ UNCHANGED table

-----------------------------------------------------------------------------
(* Registers through the cache.                                            *)

RChecked == IF Fresh(rtoken) THEN rcache ELSE NoneSet
TouchRegisters == rtoken' = CheckedToken(rtoken) /\ mtoken' = mtoken

\* CortexM.read_core_registers_raw asserts S_REGRDY: the core must be halted.
\* Values of the combined register also fill its parts.
ReadRegisters ==
  /\ \E list \in session.lists :
       LET asked == {list[i] : i \in DOMAIN list}
           missing == asked \ DOMAIN RChecked
           reading == missing \union (IF missing \intersect CfbpRegs # {} THEN {"cfbp"} ELSE {})
           stored == reading \union (IF "cfbp" \in reading THEN CfbpRegs ELSE {}) IN
       \/ /\ missing = {} \/ run = "halted"
          /\ rcache' = [r \in DOMAIN RChecked \union stored |->
                          IF r \in stored THEN Value(r, regs) ELSE RChecked[r]]
          /\ mixed' = (mixed \intersect DOMAIN RChecked) \ stored
          /\ Well
       \/ /\ missing # {}
          /\ rcache' = RChecked
          /\ mixed' = mixed \intersect DOMAIN RChecked
          /\ IF run = "halted" THEN Raises ELSE Well
  /\ TouchRegisters
  /\ UNCHANGED <<session, core, memView, breakView, regs, dwt>>

\* What write_core_registers_raw sends: doubles in two halves, and the first
\* register that shares CFBP only makes it read CFBP.
FirstSub(list) ==
  LET subs == {i \in DOMAIN list : list[i] \in CfbpSubs}
  IN {i \in subs : \A j \in subs : i <= j}

Sent(list, bit, f) ==
  LET kept == {i \in DOMAIN list : i \notin FirstSub(list)}
      fields == UNION {Fields(list[i]) : i \in kept}
  IN [x \in FieldNames |-> IF x \in fields THEN bit ELSE f[x]]

Aliases(asked) ==
  {r \in DOMAIN RChecked \ CfbpRegs : r \notin asked
     /\ \E s \in asked : Fields(r) \intersect Fields(s) # {}}

RCacheWritten_KeepsParts(list, bit) ==
  LET asked == {list[i] : i \in DOMAIN list}
  IN [r \in DOMAIN RChecked \union asked |->
        IF r \in asked THEN [x \in Fields(r) |-> bit] ELSE RChecked[r]]

\* RegisterCache.write_core_registers_raw, before the core is written.
RCacheWritten(list, bit) ==
  LET asked == {list[i] : i \in DOMAIN list}
      kept == (DOMAIN RChecked \union asked)
                \ (IF asked \intersect CfbpRegs # {} THEN CfbpRegs ELSE {})
  IN [r \in kept |-> IF r \in asked THEN [x \in Fields(r) |-> bit] ELSE RChecked[r]]

WriteRegisters ==
  /\ \E list \in session.lists, bit \in {0, 1} :
       LET asked == {list[i] : i \in DOMAIN list} IN
       /\ rcache' = RCacheWritten(list, bit)
       /\ \/ /\ run = "halted"
             /\ regs' = Sent(list, bit, regs)
             /\ mixed' = ((mixed \intersect DOMAIN rcache') \ asked) \union Aliases(asked)
             /\ Well
          \/ /\ IF run = "halted" THEN Raises ELSE Well
             /\ regs' \in {regs, Sent(list, bit, regs)}
             /\ mixed' = ((mixed \union asked) \intersect DOMAIN rcache') \union Aliases(asked)
  /\ TouchRegisters
  /\ UNCHANGED <<session, core, memView, breakView, dwt>>

-----------------------------------------------------------------------------
(* Watchpoints.                                                            *)

NoWatch == [args |-> <<>>, func |-> FALSE, armed |-> FALSE]
Supported(w) == w[2] # "odd"       \* WATCH_SIZE_TO_MASK has the size
Accepted(w) == w[2] = "word"       \* the unit takes its mask
Takes(w) == Supported(w) /\ Accepted(w)
FoundWatch_AddrOnly(w) == {i \in DOMAIN watch : watch[i].func /\ watch[i].args[1] = w[1]}

\* find_watchpoint: by address, size and kind of access.
FoundWatch(w) == {i \in DOMAIN watch : watch[i].args = w /\ watch[i].func}
FreeWatch == {i \in DOMAIN watch : ~watch[i].func}

Rest == UNCHANGED <<session, core, tokens, memView, breakView, regView>>

\* set_watchpoint without any access: it is set already, or no unit is free.
NoSetting ==
  \E w \in session.watches :
    /\ FoundWatch(w) # {} \/ FreeWatch = {}
    /\ answer' = <<w, FoundWatch(w) # {}>>
    /\ UNCHANGED <<watch, refused, probe>> /\ Rest

\* The entry is filled in before the size is looked at and the mask is written
\* and read back; address and function are only queued.
SetWatchpoint ==
  \E w \in session.watches, armed \in BOOLEAN, result \in BOOLEAN :
    /\ FoundWatch(w) = {} /\ FreeWatch # {}
    /\ watch' = [watch EXCEPT ![Min(FreeWatch)] =
                   [args |-> w, func |-> TRUE, armed |-> armed]]
    /\ answer' = <<w, result>>
    /\ refused' = IF armed THEN refused ELSE refused \union {w}
    /\ \/ armed /\ result /\ Takes(w) /\ Well
       \/ ~armed /\ result /\ Takes(w) /\ Loses
       \/ ~armed /\ ~result /\ ~Supported(w) /\ UNCHANGED probe
       \/ ~armed /\ ~result /\ Supported(w) /\ ~Accepted(w) /\ Well
       \/ ~armed /\ ~result /\ Supported(w) /\ Refused
    /\ Rest

\* remove_watchpoint; the entry is freed before the unit is written.
RemoveWatch ==
  \E w \in session.watches :
    /\ FoundWatch(w) # {}
    /\ LET i == Min(FoundWatch(w)) IN
       \/ /\ watch' = [watch EXCEPT ![i].func = FALSE, ![i].armed = FALSE]
          /\ UNCHANGED probe
       \/ /\ watch' = [watch EXCEPT ![i].func = FALSE]
          /\ Lost \/ Refused
    /\ answer' = <<>>
    /\ refused' = refused \ {w}
    /\ Rest

-----------------------------------------------------------------------------
Init ==
  /\ session \in Sessions
  /\ run = "running" /\ token = 0 /\ unnoticed = FALSE
  /\ mtoken = -1 /\ rtoken = -1
  /\ \E v \in Data : mem = [a \in Addrs |-> v]
  /\ image = mem
  /\ cache = {} /\ torn = {}
  /\ sw = NoneSet /\ table = NoneSet
  /\ comps = [i \in 1..Comparators |-> [enabled |-> FALSE, addr |-> 0]]
  /\ active = [i \in 1..Comparators |-> -1]
  /\ used = 0
  /\ regs = [f \in FieldNames |-> 0] /\ rcache = NoneSet /\ mixed = {}
  /\ watch = [i \in 1..WatchUnits |-> NoWatch]
  /\ answer = <<>> /\ refused = {}
  /\ late = FALSE /\ faults = 0

RunControl == Reported \/ Halt \/ Resume \/ Step \/ Reset
Program == CoreRuns \/ CoreSleeps \/ CoreWakes
Memory == ReadMemory \/ WriteMemory \/ Invalidate
Breakpoints == SetBreakpoint \/ RemoveBreakpoint \/ RemoveAll
Registers == ReadRegisters \/ WriteRegisters
Watchpoints == NoSetting \/ SetWatchpoint \/ RemoveWatch
Next == RunControl \/ Program \/ Memory \/ Breakpoints \/ Registers \/ Watchpoints

Spec == Init /\ [][Next]_vars

-----------------------------------------------------------------------------
(* Properties.                                                             *)

TypeOK ==
  /\ session \in Sessions /\ run \in {"running", "sleeping", "halted"}
  /\ token \in 0..MaxRuns /\ {mtoken, rtoken} \subseteq -1..MaxRuns
  /\ mem \in [Addrs -> Data \union {Bkpt}] /\ image \in [Addrs -> Data]
  /\ \A iv \in cache : iv.b < iv.e /\ DOMAIN iv.data = iv.b..(iv.e - 1)
  /\ DOMAIN sw \union DOMAIN table \subseteq session.breaks
  /\ used \in Int
  /\ regs \in [FieldNames -> {0, 1}] /\ mixed \subseteq DOMAIN rcache
  /\ unnoticed \in BOOLEAN /\ late \in BOOLEAN /\ faults \in 0..MaxFaults

ReadRight ==
  \A acc \in session.accesses :
    LET a == acc[1]  n == acc[2]  got == Read(Checked, a, n) IN
    ~Crossing(a, n) /\ Cacheable(a, n)
      => Len(got) = n /\ \A x \in Span(a, n) \ torn : got[x - a + 1] = image[x]

\* A debugger that reads memory past the caches, in bytes, halfwords or single
\* words, sees what was stored there, never a BKPT of its own, through any
\* sequence of setting, failing to remove, setting again and removing
\* breakpoints.  Uncertain is what a write has touched that failed or was lost
\* on the way, that was laid over a breakpoint, or that removed a breakpoint
\* for the second time.
ViewIsStored == \A a \in Addrs \ torn : Filtered(a) = image[a]

\* A read through the memory cache answers what is stored, all of it and in
\* order, from whatever overlapping intervals earlier reads and writes have
\* left.  Excepted is a core that has run without a new token: one that woke
\* up from sleep, which does not count as running, or a step that raised after
\* its instruction.
ReadIsStored == unnoticed \/ ReadRight

\* The core stops exactly at the breakpoints the manager knows of, and the
\* FPB's count of used comparators is right: neither order nor running out of
\* comparators leaves one behind.  A failed transfer excuses it.
BreakpointsAreSet ==
  faults = 0 /\ torn = {}
    => /\ DOMAIN table = {a \in Addrs : mem[a] = Bkpt}
                           \union ({active[i] : i \in DOMAIN active} \ {-1})
       /\ used = Cardinality({i \in DOMAIN active : active[i] # -1})

\* set_watchpoint that answers True has armed the unit, now or before, unless
\* the same watchpoint was refused earlier or its writes were lost.
WatchTrueIsArmed ==
  answer # <<>> /\ answer[2] /\ answer[1] \notin refused
    => \E i \in DOMAIN watch : watch[i].args = answer[1] /\ watch[i].armed

\* The core stops where the debugger was told it would.
StopsWhereAsked == BreakpointsAreSet /\ WatchTrueIsArmed

\* A cached register has the core's value, also when it shares its hardware
\* register with others; the stack pointer's and the FPU's other names, a
\* failed write and a core that has run without a new token are excepted.
RegistersAreCores ==
  Fresh(rtoken) /\ ~unnoticed => \A r \in DOMAIN rcache \ mixed : rcache[r] = Value(r, regs)
=============================================================================
