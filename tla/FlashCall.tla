------------------------------ MODULE FlashCall ------------------------------
(***************************************************************************)
(* device/flash.py: callFunction and callFunctionAndWait, the loop that    *)
(* runs one flash algorithm routine on the target and polls the core until *)
(* it halts, against the three parties it races with: the target (whose    *)
(* flash controller may hold the bus, so that the poll itself fails), the  *)
(* user's stop button (Chip.abort, set by the UI thread) and the clock.    *)
(*                                                                         *)
(* Time is counted in units of 0.1 ms.  The delays and the timeout are     *)
(* constants, so that a small instance keeps their order: 0.2 ms, 2 ms,    *)
(* 10 ms, 30 s in the code.                                                *)
(***************************************************************************)
EXTENDS Naturals

CONSTANTS
  FirstDelay,   \* 0.0002 s: the first sleep of the backoff
  StallDelay,   \* 0.002 s: the least sleep after a poll that failed
  MaxDelay,     \* 0.01 s: the longest sleep
  Timeout       \* 30 s (120 s for a chip erase)

ASSUME DelayAssumption ==
  /\ FirstDelay \in Nat \ {0} /\ StallDelay \in Nat /\ MaxDelay \in Nat
  /\ FirstDelay <= StallDelay /\ StallDelay <= MaxDelay
  /\ Timeout \in Nat

VARIABLES
  driver,     \* what drives the probe: "pyocd", "stlink" or "jlink"
  pc,         \* where the worker thread is in callFunctionAndWait
  outcome,    \* how the last call ended: a result, Aborted, another exception
  result,     \* what the last call returned
  delay,      \* the local variable delay
  elapsed,    \* time.time() - start, capped just past Timeout
  abort,      \* Chip.abort, read through Flash.aborted
  sticky,     \* the debug port's sticky error flag
  link,       \* the probe still answers
  core,       \* "halted" or "running"
  busbusy,    \* the flash controller holds the bus: debug accesses fail
  lost,       \* the algorithm ran away and will never reach its breakpoint
  r0,         \* whose value the result register holds
  finished,   \* history: the routine of the current call has ended by itself
  lateSleeps, \* history: sleeps begun after the user asked to stop
  blindSleeps \* history: sleeps begun after the routine has ended

host   == <<outcome, result, delay, elapsed>>
target == <<core, busbusy, lost, r0, finished>>
sleeps == <<lateSleeps, blindSleeps>>
vars   == <<driver, pc, outcome, result, delay, elapsed, abort, sticky, link,
            core, busbusy, lost, r0, finished, lateSleeps, blindSleeps>>

Least(a, b)    == IF a <= b THEN a ELSE b
Greatest(a, b) == IF a >= b THEN a ELSE b

\* A debug access succeeds when the probe answers, no sticky error is
\* pending and the target's bus is free.
Answers == link /\ ~sticky /\ ~busbusy

\* Nothing looks at the errors that the J-Link DLL returns: an access that
\* fails does nothing and goes on.
Silent == driver = "jlink"

\* A pyOCD access that fails leaves the sticky error set.
Stuck == driver = "pyocd"

Init ==
  /\ driver \in {"pyocd", "stlink", "jlink"}
  /\ pc = "idle" /\ outcome = "none" /\ result = "none"
  /\ delay = 0 /\ elapsed = 0
  /\ abort = FALSE /\ sticky = FALSE /\ link = TRUE
  /\ core = "halted" /\ busbusy = FALSE /\ lost = FALSE /\ r0 = "old"
  /\ finished = FALSE /\ lateSleeps = 0 /\ blindSleeps = 0

-----------------------------------------------------------------------------
(* The worker thread.                                                      *)

\* callFunction: the arguments that are given go to r0.., then pc and lr are
\* set and go() lets the core run.  EraseChip passes no argument at all.
Call ==
  /\ pc = "idle" /\ Answers
  /\ pc' = "poll"
  /\ outcome' = "none" /\ result' = "none" /\ delay' = 0 /\ elapsed' = 0
  /\ core' = "running" /\ lost' = FALSE /\ finished' = FALSE
  /\ r0' \in {"arg", r0}
  /\ lateSleeps' = 0 /\ blindSleeps' = 0
  /\ UNCHANGED <<driver, abort, sticky, link, busbusy>>

\* An access raises outside the poll's try: the exception leaves the
\* operation.  In callFunction the core may or may not have been started.
Raise ==
  /\ pc' = "dead" /\ outcome' = "failed"
  /\ UNCHANGED <<driver, result, delay, elapsed, abort, link, sleeps>>

CallRaises ==
  /\ pc = "idle" /\ ~Silent
  /\ Raise
  /\ sticky' = Stuck
  /\ core' \in {"halted", "running"}
  /\ lost' = (core' = "running")
  /\ UNCHANGED <<busbusy, r0, finished>>

\* A call of which not every write, or not Go, was heard: the core stays where
\* it is or runs something else.
CallUnheard ==
  /\ pc = "idle" /\ Silent
  /\ pc' = "poll"
  /\ outcome' = "none" /\ result' = "none" /\ delay' = 0 /\ elapsed' = 0
  /\ core' \in {core, "running"} /\ lost' = (core' = "running")
  /\ finished' = FALSE
  /\ lateSleeps' = 0 /\ blindSleeps' = 0
  /\ UNCHANGED <<driver, abort, sticky, link, busbusy, r0>>

\* halted() returned something that counts as true: the core is stopped, or a
\* negative number says that the DLL could not find out.
HaltSeen == IF Answers THEN core = "halted" ELSE Silent

\* The poll reads DHCSR.
PollHalted ==
  /\ pc = "poll" /\ HaltSeen
  /\ pc' = "read"
  /\ UNCHANGED <<driver, host, target, abort, sticky, link, sleeps>>

PollRunning ==
  /\ pc = "poll" /\ Answers /\ core = "running"
  /\ pc' = "check"
  /\ UNCHANGED <<driver, host, target, abort, sticky, link, sleeps>>

\* Mutant of ClearError: the stall handler does not clear the sticky error.
ClearError_Dropped == Stuck

\* XLink.clear_error: nothing to do on a direct probe; on pyOCD the flag is
\* cleared, an exception of the attempt being swallowed.
ClearError == Stuck /\ ~link

\* The poll raises: counted, the sticky error cleared, the delay stretched.
\* The failed transfer itself takes time.
PollStalled ==
  /\ pc = "poll" /\ ~Answers /\ ~Silent
  /\ pc' = "check"
  /\ sticky' = ClearError
  /\ delay' = Greatest(delay, StallDelay)
  /\ elapsed' \in {elapsed, Least(elapsed + 1, Timeout + 1)}
  /\ UNCHANGED <<driver, outcome, result, target, abort, link, sleeps>>

\* The stop flag is looked at before the clock.  halt() stops the core and
\* Aborted is raised.
StopCall ==
  /\ pc = "check" /\ abort /\ (Answers \/ Silent)
  /\ pc' = "dead" /\ outcome' = "aborted"
  /\ core' = IF Answers THEN "halted" ELSE core
  /\ UNCHANGED <<driver, result, delay, elapsed, abort, sticky, link,
                 busbusy, lost, r0, finished, sleeps>>

\* halt() itself may raise; then it is that exception that gets out.
StopRaises ==
  /\ pc = "check" /\ abort /\ ~Answers /\ ~Silent
  /\ Raise
  /\ sticky' = Stuck
  /\ UNCHANGED target

TimeOut ==
  /\ pc = "check" /\ ~abort /\ elapsed > Timeout
  /\ Raise
  /\ UNCHANGED <<target, sticky>>

\* Mutant of GoOn: the stop flag is not looked at in every round.
GoOn_IgnoresStop ==
  /\ pc = "check" /\ elapsed <= Timeout
  /\ pc' = "sleep"
  /\ UNCHANGED <<driver, host, target, abort, sticky, link, sleeps>>

GoOn ==
  /\ pc = "check" /\ ~abort /\ elapsed <= Timeout
  /\ pc' = "sleep"
  /\ UNCHANGED <<driver, host, target, abort, sticky, link, sleeps>>

\* Mutant of Clock: start is taken again in every round.
Clock_Restarted == delay

\* The adaptive backoff: no sleep the first time, then doubling to MaxDelay.
NextDelay == Least(IF delay = 0 THEN FirstDelay ELSE 2 * delay, MaxDelay)

\* The time the call has taken after the sleep.
Clock == Least(elapsed + delay, Timeout + 1)

Sleep ==
  /\ pc = "sleep"
  /\ pc' = "poll"
  /\ elapsed' = Clock
  /\ delay' = NextDelay
  /\ lateSleeps' = IF abort THEN lateSleeps + 1 ELSE 0
  /\ blindSleeps' = IF finished /\ link THEN blindSleeps + 1 ELSE 0
  /\ UNCHANGED <<driver, outcome, result, target, abort, sticky, link>>

ReadResult ==
  /\ pc = "read" /\ (Answers \/ Silent)
  /\ pc' = "idle" /\ outcome' = "returned"
  /\ result' = IF Answers THEN r0 ELSE "error"
  /\ UNCHANGED <<driver, delay, elapsed, target, abort, sticky, link, sleeps>>

ReadRaises ==
  /\ pc = "read" /\ ~Answers /\ ~Silent
  /\ Raise
  /\ sticky' = Stuck
  /\ UNCHANGED target

\* Mutant of ResetCore: the new Flash does not stop the core.
ResetCore_Skipped == core

\* reset_and_halt leaves the core halted or raises; that of J-Link waits for
\* the same halted().
ResetCore == "halted"

\* The next operation: start_task opens the link again if it was lost,
\* builds a new Flash, whose constructor resets and halts the core, and
\* clears the stop flag.
NewOperation ==
  /\ pc \in {"idle", "dead"}
  /\ pc' = "idle" /\ outcome' = "none" /\ result' = "none"
  /\ delay' = 0 /\ elapsed' = 0
  /\ abort' = FALSE /\ sticky' = FALSE /\ link' = TRUE
  /\ core' = ResetCore \/ (Silent /\ core' = "running")
  /\ busbusy' = FALSE /\ lost' = (core' = "running") /\ r0' = "old"
  /\ finished' = FALSE /\ lateSleeps' = 0 /\ blindSleeps' = 0
  /\ UNCHANGED driver

Host ==
  \/ Call \/ CallRaises \/ CallUnheard \/ PollHalted \/ PollRunning \/ PollStalled
  \/ StopCall \/ StopRaises \/ TimeOut \/ GoOn \/ Sleep
  \/ ReadResult \/ ReadRaises

-----------------------------------------------------------------------------
(* The target, the cable and the user.                                     *)

AlgoEnds ==
  /\ core = "running" /\ ~lost
  /\ core' = "halted" /\ busbusy' = FALSE /\ r0' = "result" /\ finished' = TRUE
  /\ UNCHANGED <<driver, pc, host, abort, sticky, link, lost, sleeps>>

AlgoRunsAway ==
  /\ core = "running" /\ ~lost
  /\ lost' = TRUE
  /\ UNCHANGED <<driver, pc, host, abort, sticky, link, core, busbusy, r0, finished,
                 sleeps>>

BusToggles ==
  /\ core = "running"
  /\ busbusy' = ~busbusy
  /\ UNCHANGED <<driver, pc, host, abort, sticky, link, core, lost, r0, finished,
                 sleeps>>

Unplug ==
  /\ link
  /\ link' = FALSE
  /\ UNCHANGED <<driver, pc, host, abort, sticky, target, sleeps>>

\* on_btnStop_clicked, on the UI thread, at any time of the operation.
PressStop ==
  /\ pc # "dead" /\ ~abort
  /\ abort' = TRUE
  /\ UNCHANGED <<driver, pc, host, sticky, link, target, sleeps>>

Environment == AlgoEnds \/ AlgoRunsAway \/ BusToggles \/ Unplug \/ PressStop

Next == Host \/ NewOperation \/ Environment

Spec == Init /\ [][Next]_vars

\* The worker thread keeps running; neither the target nor the user owes
\* anything.
FairSpec == Spec /\ WF_vars(Host)

-----------------------------------------------------------------------------
(* Properties.                                                             *)

ControlOK ==
  /\ driver \in {"pyocd", "stlink", "jlink"}
  /\ pc \in {"idle", "poll", "check", "sleep", "read", "dead"}
  /\ outcome \in {"none", "returned", "aborted", "failed"}
  /\ result \in {"none", "old", "arg", "result", "error"}
  /\ abort \in BOOLEAN /\ sticky \in BOOLEAN /\ link \in BOOLEAN
  /\ core \in {"halted", "running"} /\ busbusy \in BOOLEAN /\ lost \in BOOLEAN
  /\ r0 \in {"old", "arg", "result"} /\ finished \in BOOLEAN

TimeOK ==
  /\ delay \in 0 .. MaxDelay
  /\ elapsed \in 0 .. Timeout + 1
  /\ lateSleeps \in Nat /\ blindSleeps \in Nat

\* Every variable has its type; in particular the backoff stays within its cap.
TypeOK == ControlOK /\ TimeOK

\* Where failing accesses raise, the core is halted between two calls, whatever
\* stalls, stops and timeouts came before: only then may the caller write the
\* page buffer and the registers of the next call (ProgramPage writes
\* begin_data before its call).
IdleMeansHalted == pc = "idle" => core = "halted" \/ Silent

\* A call only returns the value its own routine left in the result register:
\* not its argument, nor the value of the previous call, nor a value read
\* from a core that was stopped before the end.  Excepted is J-Link.
ResultIsOfThisCall == outcome = "returned" => (result = "result" /\ finished) \/ Silent

\* When the operation ends with Aborted the core has been stopped, also when
\* the stop came in the middle of a stalled bus.  Excepted is J-Link.
AbortedMeansHalted == outcome = "aborted" => core = "halted" \/ Silent

\* Once the routine has ended, the loop sleeps at most once more before it
\* sees it, as long as the probe is there: whatever polls have failed before,
\* on a busy bus, their sticky error does not make the next ones fail.
EndIsSeen == blindSleeps <= 1

\* Once the user has asked to stop, the loop sleeps at most once more.
StopIsPrompt == lateSleeps <= 1

\* A call ends: with a result, stopped or timed out, even if the algorithm
\* never does, the bus never frees or the probe is pulled.
CallEnds == (pc = "poll") ~> (pc \in {"idle", "dead"})

\* What callers rely on, as an abstract specification.
Promise == INSTANCE AlgoCall WITH
  phase <- IF pc \in {"idle", "dead"} THEN pc ELSE "busy"

\* callFunctionAndWait implements the promise of AlgoCall, except over J-Link:
\* there a call of the DLL that fails is not noticed, so that a core that did
\* not hear Go, or an error of JLINKARM_IsHalted, is taken for the end.
KeepsPromise == Promise!AInit /\ [][Promise!ANext \/ Silent]_(Promise!avars)
=============================================================================
