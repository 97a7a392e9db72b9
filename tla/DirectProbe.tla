------------------------------ MODULE DirectProbe ------------------------------
(***************************************************************************)
(* The drivers that XLink calls "direct": STLink (USB commands, each with   *)
(* an answer of a fixed length), OpenOCD (lines over a socket) and JLink    *)
(* (calls of a DLL whose results are not looked at), with the core they     *)
(* halt, reset and access.                                                  *)
(*                                                                         *)
(* An operation is the list of commands it still has to send.  A command    *)
(* can be refused, lost, or answered after its caller has given up; such an *)
(* answer is read by a later command, nothing tells the two apart but the   *)
(* length (ST-Link) or nothing at all (OpenOCD).                            *)
(***************************************************************************)
EXTENDS Naturals, Sequences

CONSTANTS Drivers,      \* the drivers that may be in use
          Firmwares,    \* ST-Link firmware: what it can do
          Modes,        \* "arm", "rv"
          Requests,     \* <<address, bytes>> of memory accesses
          Max32,        \* MAX_RW_32
          Max8,         \* MAX_RW_8
          MaxItems,     \* the 128 items of an OpenOCD memory command
          MaxFaults     \* bound on faults of the probe, the server, the DLL

ASSUME DirectProbeAssumption ==
  /\ Drivers \subseteq {"stlink", "openocd", "jlink"}
  /\ Firmwares \subseteq {"v2_old", "v2", "v3"}
  /\ Modes \subseteq {"arm", "rv"}
  /\ Requests \subseteq Nat \X (Nat \ {0})
  /\ Max32 \in Nat \ {0} /\ Max32 % 4 = 0
  /\ Max8 \in Nat \ {0} /\ MaxItems \in Nat \ {0}
  /\ MaxFaults \in Nat

VARIABLES
  driver, firmware, mode,
  opened,     \* the driver object is connected
  op,         \* the operation that runs, "none"
  rest,       \* the commands it has still to send
  at, left,   \* the memory access: the next address, the bytes to go
  copy,       \* the reset catch in the DEMCR that was read
  seen,       \* reset_seen
  late,       \* answers that nobody has read yet
  core,       \* the target: [halted, vector (at the reset vector), catch
              \* (DEMCR.VC_CORERESET), reset (DHCSR.S_RESET_ST)]
  written,    \* addresses the access has written
  status,     \* what GETLASTRWSTATUS tells: the last piece was carried out
  ran,        \* the core was running when the operation began
  asked,      \* the request of the operation
  unseen,     \* a failure in this operation that the driver did not look at
  behind,     \* in this operation answers have been late
  moved,      \* in this operation the core has stopped or been reset by itself
  dirty,      \* a reset_and_halt did not end properly
  faults

object == <<driver, firmware, mode, opened>>
local == <<at, left, copy, seen>>
target == <<core, written, status>>
ghosts == <<ran, asked, unseen, behind, moved, dirty>>
vars == <<object, op, rest, local, late, target, ghosts, faults>>

Fault == faults < MaxFaults /\ faults' = faults + 1
Less(a, b) == IF a < b THEN a ELSE b

-----------------------------------------------------------------------------
(* Commands: their name, the length of the answer (0: none is read), and   *)
(* whether the driver looks at the status in it.                           *)

Command(name, bytes, checked) == [name |-> name, bytes |-> bytes, checked |-> checked]
WriteDebugReg(name) == Command(name, 2, TRUE)
ReadDebugReg(name) == Command(name, 8, TRUE)
Status(name) == Command(name, 2, TRUE)
Line(name) == Command(name, 1, FALSE)

Version == Command("version", 6, FALSE)
CurrentMode == Command("mode", 2, FALSE)
ExitMode == Command("exit", 0, FALSE)
Idcodes == Command("idcodes", 12, FALSE)
RwStatus == Command("rw_status", IF firmware = "v2_old" THEN 2 ELSE 12, TRUE)
\* One piece of a memory access.
ReadPiece == Command("read", Max32, FALSE)
WritePiece == Command("write", IF driver = "openocd" THEN 1 ELSE 0, FALSE)

\* set_speed
SpeedCmds ==
  CASE firmware = "v3" -> <<Command("speed", 52, TRUE), Command("speed", 8, TRUE)>>
    [] firmware = "v2" -> <<Status("speed")>>
    [] OTHER -> <<>>

\* What is left of open after set_speed.
EnterCmds == <<Status("enter"), Idcodes>>

\* STLink.open; the probe may be in a mode that has to be left first.
StOpens ==
  {<<Version>> \o (IF firmware = "v3" THEN <<Command("version", 12, FALSE)>> ELSE <<>>)
     \o <<CurrentMode>> \o leave \o SpeedCmds \o EnterCmds
     : leave \in {<<>>, <<ExitMode>>}}

StStep == <<WriteDebugReg("halt"), WriteDebugReg("step"), WriteDebugReg("halt")>>

\* The status of the reset pin's command is not looked at: only an exception
\* leads to SYSRESETREQ.
DriveNrst == Command("nrst", 2, FALSE)
StReset == <<DriveNrst, ReadDebugReg("wait")>>

StResetAndHalt_NoClear ==
  <<WriteDebugReg("halt"), ReadDebugReg("demcr"), WriteDebugReg("catch"),
    WriteDebugReg("aircr"), ReadDebugReg("poll"),
    WriteDebugReg("restore"), Status("write_reg")>>

StResetAndHalt_NoRestore ==
  <<WriteDebugReg("halt"), ReadDebugReg("demcr"), WriteDebugReg("catch"),
    ReadDebugReg("dhcsr"), WriteDebugReg("aircr"), ReadDebugReg("poll"),
    Status("write_reg")>>

\* STLink.reset_and_halt
StResetAndHalt ==
  <<WriteDebugReg("halt"), ReadDebugReg("demcr"), WriteDebugReg("catch"),
    ReadDebugReg("dhcsr"), WriteDebugReg("aircr"), ReadDebugReg("poll"),
    WriteDebugReg("restore"), Status("write_reg")>>

StWrite == <<WritePiece, RwStatus>>

StCmds ==
  [halt |-> <<WriteDebugReg("halt")>>, go |-> <<WriteDebugReg("go")>>,
   step |-> StStep, halted |-> <<ReadDebugReg("dhcsr")>>,
   read |-> <<ReadPiece>>, write |-> StWrite,
   read_reg |-> <<ReadDebugReg("read_reg")>>, write_reg |-> <<Status("write_reg")>>,
   reset |-> StReset, reset_and_halt |-> StResetAndHalt]

\* halt_required, and the same in XLink.read_core_type: ask, then Wrapped.
Asking(body) == <<Line("targets")>> \o body

OcdCmds ==
  [halt |-> <<Line("halt")>>, go |-> <<Line("go")>>,
   step |-> <<Line("step")>>, halted |-> <<Line("ask")>>,
   read |-> Asking(<<ReadPiece>>), write |-> Asking(<<WritePiece>>),
   read_reg |-> <<Line("read_reg")>>, write_reg |-> <<Line("write_reg")>>,
   reset |-> <<Line("reset_run")>>, reset_and_halt |-> <<Line("reset_halt")>>,
   core_type |-> Asking(<<Line("read_reg")>>)]

\* JLink.reset for RISC-V starts the core itself.
JReset ==
  IF mode = "arm" THEN <<Line("jreset")>>
  ELSE <<Line("jreset"), Line("write_reg"), Line("write_reg"), Line("go")>>

\* JLink.reset_and_halt, resetStopOnReset
JResetAndHalt ==
  IF mode = "arm"
  THEN <<Line("halt"), Line("demcr"), Line("catch"), Line("jreset"), Line("wait"),
         Line("until_halted"), Line("restore"), Line("write_reg")>>
  ELSE <<Line("jreset")>>

JCmds ==
  [halt |-> <<Line("halt")>>, go |-> <<Line("go")>>,
   step |-> <<Line("step")>>, halted |-> <<Line("ask")>>,
   read |-> <<ReadPiece>>, write |-> <<WritePiece>>,
   read_reg |-> <<Line("read_reg")>>, write_reg |-> <<Line("write_reg")>>,
   reset |-> JReset, reset_and_halt |-> JResetAndHalt,
   core_type |-> Asking(<<Line("read_reg")>>)]

Commands ==
  CASE driver = "stlink" -> StCmds [] driver = "openocd" -> OcdCmds [] OTHER -> JCmds

-----------------------------------------------------------------------------
(* What a command does to the target.                                      *)

Halted(c) == [c EXCEPT !.halted = TRUE, !.vector = c.halted /\ c.vector]
Running(c) == [c EXCEPT !.halted = FALSE, !.vector = FALSE]
AtVector(c) == [c EXCEPT !.halted = TRUE, !.vector = TRUE, !.reset = TRUE]
Restarted(c) == [Running(c) EXCEPT !.reset = TRUE]

\* SYSRESETREQ obeys the catch; the reset pin also clears it; the DLL's reset
\* may stop the core of its own.
Effects(name) ==
  CASE name = "halt" -> {Halted(core)}
    [] name = "go" -> {Running(core)}
    [] name = "step" -> {[core EXCEPT !.halted = TRUE, !.vector = FALSE]}
    [] name = "catch" -> {[core EXCEPT !.catch = TRUE]}
    [] name = "restore" -> {[core EXCEPT !.catch = copy]}
    [] name = "aircr" -> {IF core.catch THEN AtVector(core) ELSE Restarted(core)}
    [] name = "nrst" -> {[Restarted(core) EXCEPT !.catch = FALSE]}
    [] name = "jreset" -> IF core.catch \/ mode = "rv" THEN {AtVector(core)}
                          ELSE {AtVector(core), Restarted(core)}
    [] name = "reset_run" -> {Restarted(core)}
    [] name = "reset_halt" -> {AtVector(core)}
    [] name \in {"dhcsr", "poll", "wait"} -> {[core EXCEPT !.reset = FALSE]}
    [] OTHER -> {core}

Wide == at % 4 = 0 /\ left >= 4

PieceSize_Unaligned ==
  CASE driver = "stlink" -> IF Wide THEN Less(left, Max32) ELSE Less(left, Max8)
    [] driver = "openocd" -> Less(MaxItems, left)
    [] OTHER -> left

\* The pieces of read_mem_U8, write_mem_U8 and of read_mem_, write_mem_.
PieceSize ==
  CASE driver = "stlink" -> IF Wide THEN Less(left - (left % 4), Max32) ELSE Less(left, Max8)
    [] driver = "openocd" -> Less(MaxItems, left)
    [] OTHER -> left

\* A 32-bit command transfers words.
Stored(size) ==
  LET n == IF driver = "stlink" /\ Wide THEN size - (size % 4) ELSE size
  IN {at + i : i \in 0..(n - 1)}

Executed(c) ==
  /\ core' \in Effects(c.name)
  /\ written' = IF c.name = "write" THEN written \union Stored(PieceSize) ELSE written
  /\ status' = (IF c.name \in {"read", "write"} THEN TRUE ELSE status)

Ignored(c) ==
  /\ UNCHANGED <<core, written>>
  /\ status' = (IF c.name \in {"read", "write"} THEN FALSE ELSE status)

Answer(c, ok) ==
  [to |-> c.name, bytes |-> c.bytes,
   ok |-> ok /\ (c.name = "rw_status" => status),
   halted |-> core.halted \/ c.name \in {"halt", "reset_halt"},
   reset |-> core.reset, catch |-> core.catch]

-----------------------------------------------------------------------------
(* What the operation makes of an answer, or of an exception.              *)

Cmd == Head(rest)
After == Tail(rest)
InPiece == Cmd.name \in {"read", "write"}

NextPiece ==
  /\ at' = at + PieceSize /\ left' = left - PieceSize
  /\ rest' = IF left = PieceSize THEN After ELSE rest

Wrapped_Reversed(a) ==
  rest' = IF a.halted THEN After \o <<Line("go")>> ELSE <<Line("halt")>> \o After

\* Halt around the body if the core was found running.
Wrapped(a) ==
  rest' = IF a.halted THEN After ELSE <<Line("halt")>> \o After \o <<Line("go")>>

Continue(a) ==
  /\ copy' = (IF Cmd.name = "demcr" THEN a.catch ELSE copy)
  /\ seen' = (IF Cmd.name = "poll" THEN seen \/ a.reset ELSE seen)
  /\ CASE InPiece -> NextPiece
       [] Cmd.name = "targets" -> Wrapped(a) /\ UNCHANGED <<at, left>>
       [] Cmd.name = "poll" ->
            /\ rest' = IF seen' /\ a.halted THEN After ELSE rest
            /\ UNCHANGED <<at, left>>
       [] Cmd.name = "wait" ->
            rest' = (IF a.reset THEN rest ELSE After) /\ UNCHANGED <<at, left>>
       [] Cmd.name = "until_halted" ->
            rest' = (IF a.halted THEN After ELSE rest) /\ UNCHANGED <<at, left>>
       [] OTHER -> rest' = After /\ UNCHANGED <<at, left>>
  /\ UNCHANGED <<op, opened, dirty>>

\* The exceptions that are caught: set_speed leaves off, close goes on, reset
\* falls back to SYSRESETREQ, reset_and_halt and both loops go on.
Caught ==
  \/ op = "open" /\ Cmd.name = "speed"
  \/ op = "close"
  \/ op = "reset" /\ Cmd.name = "nrst"
  \/ op = "reset_and_halt" /\ Cmd.name = "aircr"
  \/ Cmd.name \in {"poll", "wait"}

Handled ==
  rest' = CASE Cmd.name = "nrst" -> <<WriteDebugReg("aircr")>> \o After
            [] Cmd.name \in {"poll", "wait"} -> rest
            [] Cmd.name = "speed" -> EnterCmds
            [] OTHER -> After

Raises ==
  /\ IF Caught THEN Handled /\ UNCHANGED <<op, dirty>>
     ELSE /\ op' = "none" /\ rest' = <<>>
          /\ dirty' = (dirty \/ op = "reset_and_halt")
  /\ UNCHANGED <<local, opened>>

-----------------------------------------------------------------------------
Init ==
  /\ driver \in Drivers /\ mode \in Modes
  /\ firmware \in IF driver = "stlink" THEN Firmwares ELSE {"-"}
  /\ driver = "stlink" => mode = "arm"
  /\ opened = FALSE
  /\ op = "none" /\ rest = <<>>
  /\ at = 0 /\ left = 0 /\ copy = FALSE /\ seen = FALSE
  /\ late = <<>>
  /\ core \in [halted : {FALSE}, vector : {FALSE}, catch : {FALSE}, reset : BOOLEAN]
  /\ written = {} /\ status = TRUE
  /\ ran = FALSE /\ asked = <<0, 0>> /\ unseen = FALSE /\ behind = FALSE
  /\ moved = FALSE /\ dirty = FALSE
  /\ faults = 0

Begin(name, cmds, request) ==
  /\ op = "none"
  /\ op' = name /\ rest' = cmds
  /\ asked' = request /\ at' = request[1] /\ left' = request[2]
  /\ copy' = FALSE /\ seen' = FALSE /\ written' = {} /\ status' = TRUE
  /\ ran' = ~core.halted
  /\ unseen' = FALSE /\ behind' = (late # <<>>) /\ moved' = FALSE
  /\ UNCHANGED <<driver, firmware, mode, core, dirty, faults>>

\* The constructors: a new object; a new socket has no old answers.
Open ==
  /\ ~opened
  /\ \E cmds \in CASE driver = "stlink" -> StOpens
                   [] OTHER -> {<<Line("open")>>} :
       Begin("open", cmds, <<0, 0>>)
  /\ late' = IF driver = "stlink" THEN late ELSE <<>>
  /\ UNCHANGED opened

\* The calls of XLink.
Call ==
  /\ opened
  /\ \E name \in DOMAIN Commands :
       /\ name = "core_type" => mode = "rv"
       /\ \E request \in IF name \in {"read", "write"} THEN Requests ELSE {<<0, 0>>} :
            Begin(name, Commands[name], request)
  /\ UNCHANGED <<late, opened>>

Close ==
  /\ opened
  /\ Begin("close", IF driver = "stlink" THEN <<ExitMode>> ELSE <<Line("close")>>, <<0, 0>>)
  /\ UNCHANGED <<late, opened>>

Return ==
  /\ op # "none" /\ rest = <<>>
  /\ op' = "none"
  /\ opened' = (op # "close")
  /\ late' = IF op = "close" /\ driver # "stlink" THEN <<>> ELSE late
  /\ dirty' = (dirty \/ (op = "reset_and_halt" /\ (unseen \/ behind \/ moved)))
  /\ at' = 0 /\ left' = 0 /\ copy' = FALSE /\ seen' = FALSE
  /\ written' = {} /\ status' = TRUE
  /\ ran' = FALSE /\ asked' = <<0, 0>>
  /\ unseen' = FALSE /\ behind' = FALSE /\ moved' = FALSE
  /\ UNCHANGED <<driver, firmware, mode, rest, core, faults>>

-----------------------------------------------------------------------------
(* One command.                                                            *)

Sending == rest # <<>>

\* STLink._xfer; a command without an answer ends with its transfer.
StSend ==
  /\ driver = "stlink" /\ Sending /\ Cmd.bytes = 0
  /\ \/ Executed(Cmd) /\ UNCHANGED faults
     \/ Ignored(Cmd) /\ Fault
  /\ unseen' = (unseen \/ ~status)
  /\ Continue(Answer(Cmd, TRUE))
  /\ UNCHANGED <<driver, firmware, mode, late, ran, asked, behind, moved>>

\* Too short an answer cannot be unpacked; too long a one is an overflow or
\* is cut, as the system's driver has it.
Fits(a) ==
  IF a.bytes = Cmd.bytes THEN {TRUE}
  ELSE IF a.bytes > Cmd.bytes \/ Cmd.name = "read" THEN BOOLEAN ELSE {FALSE}

StXfer ==
  /\ driver = "stlink" /\ Sending /\ Cmd.bytes > 0
  /\ \E ok \in BOOLEAN :
       LET queue == Append(late, Answer(Cmd, ok))
           a == Head(queue) IN
       /\ IF ok THEN Executed(Cmd) /\ UNCHANGED <<faults, unseen>>
          ELSE Ignored(Cmd) /\ Fault /\ unseen' = (unseen \/ ~Cmd.checked)
       /\ late' = Tail(queue)
       /\ \E fits \in Fits(a) :
            IF fits /\ (a.ok \/ ~Cmd.checked) THEN Continue(a) ELSE Raises
  /\ UNCHANGED <<driver, firmware, mode, ran, asked, behind, moved>>

\* read_mem_ stops at an empty answer.
OcdReadEnds ==
  /\ rest' = After
  /\ UNCHANGED <<op, opened, local, dirty>>

\* OpenOCD._read returns at the end mark of whatever has come; an error is a
\* text like any other, except where numbers are expected.
OcdExec ==
  /\ driver = "openocd" /\ Sending
  /\ \E ok \in BOOLEAN :
       LET queue == Append(late, Answer(Cmd, ok)) IN
       /\ IF ok THEN Executed(Cmd) /\ UNCHANGED <<faults, unseen>>
          ELSE Ignored(Cmd) /\ Fault /\ unseen' = TRUE
       /\ \E n \in 1..Len(queue) :
            LET a == [queue[1] EXCEPT !.halted = \E i \in 1..n : queue[i].halted] IN
            /\ late' = SubSeq(queue, n + 1, Len(queue))
            /\ IF Cmd.name \in {"read", "read_reg"} /\ (~a.ok \/ a.to # Cmd.name \/ n > 1)
               THEN Raises \/ OcdReadEnds
               ELSE Continue(a)
  /\ UNCHANGED <<driver, firmware, mode, ran, asked, behind, moved>>

\* A call of the DLL that fails does nothing, and what it leaves in the buffer
\* is zero; IsHalted's error code is not zero.
JCall ==
  /\ driver = "jlink" /\ Sending
  /\ \/ Executed(Cmd) /\ UNCHANGED <<faults, unseen>> /\ Continue(Answer(Cmd, TRUE))
     \/ /\ Ignored(Cmd) /\ Fault /\ unseen' = TRUE
        /\ IF Cmd.name = "open" THEN Raises
           ELSE \E halted \in BOOLEAN :
                  Continue([Answer(Cmd, FALSE) EXCEPT !.halted = halted,
                              !.reset = FALSE, !.catch = FALSE])
  /\ UNCHANGED <<driver, firmware, mode, late, ran, asked, behind, moved>>

\* The transfer fails, with or without its effect.
TransferFails ==
  /\ driver # "jlink" /\ Sending /\ Fault
  /\ Executed(Cmd) \/ Ignored(Cmd)
  /\ Raises
  /\ UNCHANGED <<driver, firmware, mode, late, ran, asked, unseen, behind, moved>>

\* The answer comes when the caller has given up (3 s, 2 s).
AnswerIsLate ==
  /\ driver # "jlink" /\ Sending /\ Cmd.bytes > 0 /\ Fault
  /\ Executed(Cmd)
  /\ late' = Append(late, Answer(Cmd, TRUE)) /\ behind' = TRUE
  /\ Raises
  /\ UNCHANGED <<driver, firmware, mode, ran, asked, unseen, moved>>

PollTimesOut_OnceSeen ==
  /\ Sending /\ Cmd.name = "poll" /\ seen
  /\ op' = "none" /\ rest' = <<>> /\ dirty' = TRUE
  /\ UNCHANGED <<object, local, late, target, ran, asked, unseen, behind, moved, faults>>

\* 2 s without success: reset_and_halt raises, wait_reset just returns.
PollTimesOut ==
  /\ Sending /\ Cmd.name = "poll"
  /\ op' = "none" /\ rest' = <<>> /\ dirty' = TRUE
  /\ UNCHANGED <<object, local, late, target, ran, asked, unseen, behind, moved, faults>>

WaitTimesOut ==
  /\ Sending /\ Cmd.name = "wait"
  /\ rest' = After
  /\ UNCHANGED <<object, op, local, late, target, ghosts, faults>>

-----------------------------------------------------------------------------
(* The core: a program that stops at a breakpoint, a reset from outside.   *)

CoreStops ==
  /\ ~core.halted
  /\ core' = Halted(core)
  /\ moved' = (op # "none")
  /\ UNCHANGED <<object, op, rest, local, late, written, status, ran, asked, unseen,
                 behind, dirty, faults>>

CoreResets ==
  /\ Fault
  /\ core' = [Restarted(core) EXCEPT !.catch = FALSE]
  /\ moved' = (op # "none")
  /\ UNCHANGED <<object, op, rest, local, late, written, status, ran, asked, unseen,
                 behind, dirty>>

-----------------------------------------------------------------------------
User == Open \/ Call \/ Close
Exchange == StSend \/ StXfer \/ OcdExec \/ JCall \/ TransferFails \/ AnswerIsLate
Next ==
  User \/ Return \/ Exchange \/ PollTimesOut \/ WaitTimesOut \/ CoreStops \/ CoreResets

\* The worker thread runs and its clock advances.
Fairness ==
  /\ WF_vars(Return) /\ WF_vars(Exchange)
  /\ WF_vars(PollTimesOut) /\ WF_vars(WaitTimesOut)

Spec == Init /\ [][Next]_vars /\ Fairness

-----------------------------------------------------------------------------
(* Properties.                                                             *)

TypeOK ==
  /\ driver \in Drivers /\ mode \in Modes
  /\ {opened, copy, seen, status, ran, unseen, behind, moved, dirty} \subseteq BOOLEAN
  /\ core \in [halted : BOOLEAN, vector : BOOLEAN, catch : BOOLEAN, reset : BOOLEAN]
  /\ faults \in 0..MaxFaults

\* reset_and_halt returns only with the core stopped at its reset vector,
\* although the error of the very write that resets is caught: an old
\* S_RESET_ST of a core that is merely halted is not taken for it.  A failure
\* nobody looks at, a late answer or a core that moves by itself excuse it.
StopsAtVector ==
  [][Return /\ op = "reset_and_halt"
       => core.vector \/ unseen \/ behind \/ moved]_vars

\* After a reset by ST-Link or OpenOCD the program runs, whichever way the
\* reset took (the catch that reset_and_halt needs does not outlive it), with
\* the same excuses; a reset pin that the probe refused to pull is a failure
\* nobody looks at.  JLINKARM_Reset alone is not said to start the core.
ResetLetsRun ==
  [][Return /\ op = "reset" /\ driver # "jlink"
       => ~core.halted \/ dirty \/ unseen \/ behind \/ moved]_vars

\* Each kind of reset leaves the core as its name says.
ResetsDoAsNamed == StopsAtVector /\ ResetLetsRun

\* A write that returns has written what it was asked, all of it and nothing
\* else, however it was split, unless a failure went unseen (with ST-Link only
\* that of a piece that is not the last one) or a late answer hides it.
WriteIsExact ==
  [][/\ Return /\ op = "write" /\ ~(unseen \/ behind)
     => written = {asked[1] + i : i \in 0..(asked[2] - 1)}]_vars

\* A memory access or a look at the core's type leaves a running core running
\* and a halted one halted.
RunStateKept ==
  [][/\ Return /\ op \in {"read", "write", "core_type"}
     /\ ~(unseen \/ behind \/ moved)
     => core.halted = ~ran]_vars

\* Every operation ends; only the J-Link's wait for the core to halt does not,
\* when a call of the DLL failed before it or the core left the reset vector.
OperationsEnd == op # "none" ~> (op = "none" \/ (driver = "jlink" /\ faults > 0))
=============================================================================
