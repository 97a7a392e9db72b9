------------------------------ MODULE AlgoCall ------------------------------
(***************************************************************************)
(* What one call of a flash algorithm promises its caller, with no polling *)
(* and no clock.  device/flash.py's callFunctionAndWait implements it      *)
(* (module FlashCall): the caller sees a returned result, the Aborted      *)
(* exception, or any other exception, and relies on the target's core      *)
(* being halted again before it touches RAM and registers for the next     *)
(* call.                                                                   *)
(***************************************************************************)
VARIABLES
  phase,      \* "idle" between calls, "busy" during one, "dead" after an exception
  core,       \* "halted" or "running": the target's core
  finished,   \* the algorithm reached its breakpoint in the current call
  outcome     \* how the last call ended

avars == <<phase, core, finished, outcome>>

AInit ==
  /\ phase = "idle"
  /\ core = "halted"
  /\ finished = FALSE
  /\ outcome = "none"

\* The registers are set up and the core is let go: a call starts.
Issue ==
  /\ phase = "idle" /\ core = "halted"
  /\ phase' = "busy"
  /\ core' = "running"
  /\ finished' = FALSE
  /\ outcome' = "none"

\* The algorithm ends and the core stops at its breakpoint; after an
\* exception it may still do so, unobserved.
Finish ==
  /\ core = "running"
  /\ core' = "halted"
  /\ finished' = TRUE
  /\ UNCHANGED <<phase, outcome>>

\* The result is handed over: only of an algorithm that has finished.
Return ==
  /\ phase = "busy" /\ finished /\ core = "halted"
  /\ phase' = "idle"
  /\ outcome' = "returned"
  /\ UNCHANGED <<core, finished>>

\* The user stopped the operation: the core is left halted.
Stop ==
  /\ phase = "busy"
  /\ phase' = "dead"
  /\ core' = "halted"
  /\ outcome' = "aborted"
  /\ UNCHANGED finished

\* Any other exception: nothing is promised about the core.
Fail ==
  /\ phase \in {"idle", "busy"}
  /\ phase' = "dead"
  /\ core' \in {"halted", "running"}
  /\ outcome' = "failed"
  /\ UNCHANGED finished

\* The next operation starts from a reset and halted core.
Restart ==
  /\ phase \in {"idle", "dead"}
  /\ phase' = "idle"
  /\ core' = "halted"
  /\ finished' = FALSE
  /\ outcome' = "none"

ANext == Issue \/ Finish \/ Return \/ Stop \/ Fail \/ Restart

ASpec == AInit /\ [][ANext]_avars
=============================================================================
