----------------------------- MODULE TargetSetup -----------------------------
(***************************************************************************)
(* How a task gets hold of the core through a CMSIS-DAP probe and lets it  *)
(* go again: xlink.pyocd_reset_and_halt with its three kinds of reset, its *)
(* reconnections and its fallback, over pyocd's CortexM.reset_and_halt;    *)
(* the download of the algorithm (device/flash.py, Flash.__init__); and    *)
(* the reset of MCUProg.link_close.                                        *)
(*                                                                         *)
(* Chips differ in which resets work, in whether a reset takes the debug   *)
(* port down, and in whether it wipes the debug registers.  Any transfer   *)
(* may fail.  A write is deferred: it is carried out, or lost, with the    *)
(* next transfer that is waited for.                                       *)
(*                                                                         *)
(* Programming_proofs is about this module and ChipProgram: the names that *)
(* both would have begin with Setup here.                                  *)
(***************************************************************************)
EXTENDS Integers, Sequences

VARIABLES
  chip,      \* what kind of chip it is, see Chips
  core,      \* "running", "halted" or "reset" (held in reset)
  fresh,     \* the core is halted at the reset vector
  vc,        \* DEMCR.VC_CORERESET in the chip
  link,      \* "up", or "down" once a reset has taken the debug port down
  queued,    \* the deferred write to DEMCR: "none", "on" or "off"
  pc,        \* where the thread is
  attempt,   \* which of the attempts
  failure,   \* this attempt has raised
  saved,     \* VC_CORERESET in the saved demcr
  then,      \* what follows the clearing of the vector catch
  warned,    \* the user was told that the target could not be reset
  left,      \* how the last connection was closed
  glitch,    \* history: in this setup, a transfer failed although the port was
             \* up, a reconnection failed or a reset took longer than the timeout
  uncleared  \* history: the vector catch is on because clearing it failed

target == <<core, fresh, vc, link, queued>>
control == <<pc, attempt, failure, saved, then, warned, left>>
setupVars == <<chip, target, control, glitch, uncleared>>

Chips == [works : SUBSET {"sysreset", "hardware"}, drops : BOOLEAN, wipes : BOOLEAN]

\* attempts: a VECTRESET is an emulated one, as CortexM.init is never called.
Attempts == <<"sysreset", "emulated", "hardware">>

SetupInit ==
  /\ chip \in Chips
  /\ core = "running" /\ fresh = FALSE /\ vc = FALSE /\ link = "up" /\ queued = "none"
  /\ pc = "idle" /\ attempt = 1 /\ failure = FALSE /\ saved = FALSE
  /\ then = "ready" /\ warned = FALSE /\ left = "none"
  /\ glitch = FALSE /\ uncleared = FALSE

-----------------------------------------------------------------------------
(* Transfers                                                               *)

\* DEMCR.VC_CORERESET once the deferred write is carried out.
Caught == IF queued = "none" THEN vc ELSE queued = "on"

Track == uncleared' = (vc' /\ (uncleared \/ queued = "off"))

\* A transfer whose result is waited for, and everything before it.
Passes == link = "up" /\ vc' = Caught /\ queued' = "none" /\ Track /\ UNCHANGED <<link, glitch>>

\* It raises.  The deferred write may have been carried out before.
Fails ==
  /\ vc' \in {vc, Caught} /\ queued' = "none" /\ Track
  /\ glitch' = (glitch \/ link = "up")
  /\ UNCHANGED link

\* C_HALT is written: a core held in reset does not keep it.
Stopped == core' = IF core = "reset" THEN "reset" ELSE "halted"
Halted == Stopped /\ UNCHANGED fresh

Still == UNCHANGED <<core, fresh>>
Goto(l) == pc' = l /\ UNCHANGED <<attempt, failure, saved, then, warned, left>>

\* pyocd's reset_and_halt has raised: pyocd_reset_and_halt notes it.
Raise == /\ pc' = "reconnect" /\ failure' = TRUE
         /\ UNCHANGED <<attempt, saved, then, warned, left>>

-----------------------------------------------------------------------------
(* CortexM.reset_and_halt                                                  *)

Halt ==
  /\ pc = "halt"
  /\ \/ Passes /\ Halted /\ Goto("save")
     \/ Fails /\ (Halted \/ Still) /\ Raise
  /\ UNCHANGED chip

Save ==
  /\ pc = "save"
  /\ \/ /\ Passes /\ pc' = "catch" /\ saved' = Caught
        /\ UNCHANGED <<attempt, failure, then, warned, left>>
     \/ Fails /\ Raise
  /\ Still /\ UNCHANGED chip

\* The write of DEMCR that sets VC_CORERESET is deferred.
Catch ==
  /\ pc = "catch"
  /\ queued' = "on" /\ Goto("request")
  /\ UNCHANGED <<chip, core, fresh, vc, link, glitch, uncleared>>

\* A reset reaches the chip; it may take the debug port down with it, and with
\* the port the debug registers.
Resets(kind) ==
  /\ link = "up" /\ queued' = "none" /\ UNCHANGED glitch
  /\ IF kind \in chip.works
     THEN /\ core' = "reset" /\ fresh' = FALSE
          /\ link' = IF chip.drops THEN "down" ELSE link
          /\ vc' = (Caught /\ ~chip.wipes)
     ELSE vc' = Caught /\ UNCHANGED <<core, fresh, link>>
  /\ Track

\* _perform_reset.  The transfer error of a SYSRESETREQ is swallowed, whether
\* the request got through or was lost.
Request ==
  /\ pc = "request"
  /\ LET kind == Attempts[attempt]
     IN \/ kind # "emulated" /\ Resets(kind) /\ (Goto("leaving") \/ Raise)
        \/ kind = "sysreset" /\ Fails /\ Still /\ Goto("leaving")
        \/ /\ kind = "emulated" /\ Passes /\ Stopped
           /\ fresh' = (core # "reset") /\ Goto("leaving")
        \/ Fails /\ (Still \/ (kind = "emulated" /\ Halted)) /\ Raise
  /\ UNCHANGED chip

\* reset waits until S_RESET_ST is clear, 2 s at most; it reads on after a
\* transfer error unless the flush that follows it raises, too.
Leaving ==
  /\ pc = "leaving"
  /\ \/ Passes /\ core # "reset" /\ Goto("stopping")
     \/ Fails /\ (Goto("leaving") \/ Raise)
     \/ /\ glitch' = (glitch \/ core = "reset" \/ link = "up") /\ Goto("stopping")
        /\ UNCHANGED <<vc, link, queued, uncleared>>
  /\ Still /\ UNCHANGED chip

\* reset_and_halt waits until the core has stopped, 2 s at most.
Stopping ==
  /\ pc = "stopping"
  /\ \/ Passes /\ core = "halted" /\ Goto("xpsr")
     \/ Fails /\ Raise
     \/ /\ core # "halted" /\ link = "up" /\ Goto("xpsr")
        /\ glitch' = (glitch \/ core = "reset")
        /\ UNCHANGED <<vc, link, queued, uncleared>>
  /\ Still /\ UNCHANGED chip

\* Reading xpsr asserts S_REGRDY, which a core that is not halted never sets.
Xpsr ==
  /\ pc = "xpsr"
  /\ \/ Passes /\ (IF core = "halted" THEN Goto("restore") ELSE Raise)
     \/ Fails /\ Raise
  /\ Still /\ UNCHANGED chip

\* Mutant of Restored: the catch is left as it was set.
Restored_On == "on"

\* What DEMCR is restored to.
Restored == IF saved THEN "on" ELSE "off"

\* The write of demcr is deferred as well.
Restore ==
  /\ pc = "restore"
  /\ queued' = Restored /\ Goto("ask")
  /\ UNCHANGED <<chip, core, fresh, vc, link, glitch, uncleared>>

-----------------------------------------------------------------------------
(* xlink.pyocd_reset_and_halt                                              *)

\* Mutant of Reconnected: the debug port is not powered up again.
Reconnected_NoPowerUp == UNCHANGED <<link, glitch, core, fresh>>

\* Mutant of Reconnected: the core is halted on the way.
Reconnected_Halts == link' = "up" /\ Halted /\ UNCHANGED glitch

\* dp.init, power_up_debug and ap.init: the port is up, or one of them raised.
Reconnected ==
  /\ \/ link' = "up" /\ UNCHANGED glitch
     \/ link' \in {"up", "down"} /\ glitch' = TRUE
  /\ Still

Reconnect ==
  /\ pc = "reconnect"
  /\ Reconnected /\ Goto("ask")
  /\ UNCHANGED <<chip, vc, queued, uncleared>>

\* pyocd_halted: an exception means no.
SeenHalted == Passes /\ core = "halted"
NotSeen == (Passes /\ core # "halted") \/ Fails

\* Mutant of AfterHalt: pyocd's own restoring is relied on.
AfterHalt_NoClear == "ready"

\* A reset that raised has left the vector catch on.
AfterHalt == IF failure THEN "clear" ELSE "ready"

Ask ==
  /\ pc = "ask"
  /\ \/ SeenHalted /\ pc' = AfterHalt /\ then' = "ready"
     \/ NotSeen /\ pc' = "clear" /\ then' = "next"
  /\ Still /\ UNCHANGED <<chip, attempt, failure, saved, warned, left>>

NextAttempt == attempt + 1

\* DEMCR is read and written back, without the vector catch; an exception is
\* ignored, and the write is deferred.
Clear ==
  /\ pc = "clear"
  /\ \/ link = "up" /\ vc' = Caught /\ queued' = "off" /\ Track /\ UNCHANGED <<link, glitch>>
     \/ /\ vc' \in {vc, Caught} /\ queued' = "none" /\ uncleared' = vc'
        /\ glitch' = (glitch \/ link = "up") /\ UNCHANGED link
  /\ IF then = "ready"
     THEN pc' = "ready" /\ UNCHANGED <<attempt, failure>>
     ELSE IF attempt < Len(Attempts)
     THEN pc' = "halt" /\ attempt' = NextAttempt /\ failure' = FALSE
     ELSE pc' = "lasthalt" /\ UNCHANGED <<attempt, failure>>
  /\ Still /\ UNCHANGED <<chip, saved, then, warned, left>>

\* No reset has worked: it is enough that the core is halted.
LastHalt ==
  /\ pc = "lasthalt"
  /\ \/ Passes /\ Halted
     \/ Fails /\ (Halted \/ Still)
  /\ Goto("lastask")
  /\ UNCHANGED chip

LastAsk ==
  /\ pc = "lastask"
  /\ \/ SeenHalted /\ pc' = "ready" /\ warned' = TRUE
     \/ NotSeen /\ pc' = "failed" /\ UNCHANGED warned
  /\ Still /\ UNCHANGED <<chip, attempt, failure, saved, then, left>>

-----------------------------------------------------------------------------
(* Before and after                                                        *)

\* link_open with algo: a new connection starts with dp.init, a held one is
\* used as it is.
Open ==
  /\ pc \in {"idle", "task"}
  /\ pc' = "halt" /\ attempt' = 1 /\ failure' = FALSE /\ warned' = FALSE
  /\ fresh' = FALSE /\ glitch' = (pc = "task" /\ link = "down")
  /\ link' = IF pc = "idle" THEN "up" ELSE link
  /\ UNCHANGED <<chip, core, vc, queued, saved, then, left, uncleared>>

\* Flash.__init__ after the reset: the RAM is tried, r9 and sp are set, the
\* algorithm is written and read back.  All of it is waited for.
Load ==
  /\ pc = "ready"
  /\ \/ Passes /\ Goto("task")
     \/ Fails /\ Goto("failed")
  /\ Still /\ UNCHANGED chip

\* Routines run and end; one that timed out is left running.
Work ==
  /\ pc = "task"
  /\ core' \in {"running", "halted"} /\ fresh' = FALSE
  /\ UNCHANGED <<chip, vc, link, queued, control, glitch, uncleared>>

\* link_close without chkRun.
CloseOnly ==
  /\ pc \in {"task", "failed"}
  /\ pc' = "idle" /\ left' = "kept"
  /\ \/ Passes
     \/ Fails
  /\ Still /\ UNCHANGED <<chip, attempt, failure, saved, then, warned>>

\* link_close with chkRun: CortexM.reset, whose exception also skips the close.
CloseResets ==
  /\ pc \in {"task", "failed"}
  /\ \/ Resets("sysreset") /\ pc' = "letgo" /\ left' = "reset"
     \/ Fails /\ Still /\ pc' = "letgo" /\ left' = "lost"
     \/ (Resets("sysreset") \/ (Fails /\ Still)) /\ pc' = "idle" /\ left' = "error"
  /\ UNCHANGED <<chip, attempt, failure, saved, then, warned>>

\* Its wait, and the close.
LetGo ==
  /\ pc = "letgo"
  /\ \/ Passes /\ core # "reset" /\ pc' = "idle" /\ UNCHANGED left
     \/ Fails /\ pc' = "idle" /\ left' = "error"
     \/ /\ pc' = "idle"
        /\ UNCHANGED <<vc, link, queued, glitch, uncleared, left>>
  /\ Still /\ UNCHANGED <<chip, attempt, failure, saved, then, warned>>

\* The chip comes out of reset; the vector catch stops it.
LeaveReset ==
  /\ core = "reset"
  /\ core' = (IF vc THEN "halted" ELSE "running") /\ fresh' = vc
  /\ UNCHANGED <<chip, vc, link, queued, control, glitch, uncleared>>

Setup ==
  \/ Halt \/ Save \/ Catch \/ Request \/ Leaving \/ Stopping \/ Xpsr \/ Restore
  \/ Reconnect \/ Ask \/ Clear \/ LastHalt \/ LastAsk \/ Load \/ LetGo

SetupNext == Setup \/ Open \/ Work \/ CloseOnly \/ CloseResets \/ LeaveReset

SetupSpec == SetupInit /\ [][SetupNext]_setupVars

-----------------------------------------------------------------------------
(* Properties.                                                             *)

\* The algorithm is only loaded into a chip whose core is halted, whichever
\* attempt got it there and whatever raised on the way.
ReadyMeansHalted == pc = "ready" => core = "halted"

\* "The vector catch must not be left on, or the core would stop at every later
\* reset and the program would not run" (pyocd_reset_and_halt): when a task
\* begins it is off, although most ways through the attempts leave pyocd before
\* it restores DEMCR, unless an exception has kept it from being cleared.
VectorCatchOff == pc = "task" /\ ~uncleared => ~vc

\* The program runs after link_close has reset the chip, also when the setup had
\* failed, unless the catch could not be cleared or the chip ignores the reset.
RunsAfterClose ==
  pc = "idle" /\ left = "reset" /\ "sysreset" \in chip.works /\ ~uncleared
    => core # "halted"

\* On a chip whose SYSRESETREQ works the core is halted at the reset vector, even
\* if the reset takes the port and the vector catch down, when nothing else fails.
FreshlyReset ==
  pc = "ready" /\ ~warned /\ ~glitch /\ "sysreset" \in chip.works => fresh

\* A failed transfer does not mean a failed reset: every failure is followed by a
\* reconnection, so that no chip is given up without a fault besides its resets.
FaultlessIsReady == pc = "failed" => glitch
=============================================================================
