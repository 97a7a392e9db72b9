-------------------------- MODULE FlashCall_proofs --------------------------
(***************************************************************************)
(* Proofs about callFunctionAndWait for every delay and timeout: the       *)
(* safety properties of FlashCall and its implementation of AlgoCall.      *)
(***************************************************************************)
EXTENDS FlashCall, TLAPS

\* What the worker thread may rely on about the core and the result register
\* at each point of the loop, where a failed access raises.
HaltedInv ==
  /\ pc \in {"idle", "read"} => core = "halted"
  /\ pc \in {"poll", "check", "sleep", "read"} /\ core = "halted" => finished
  /\ finished => r0 = "result"
  /\ outcome = "returned" => pc = "idle" /\ result = "result" /\ finished
  /\ outcome = "aborted" => pc = "dead" /\ core = "halted"

\* A sleep is only begun with no stop pending.
StopInv ==
  /\ lateSleeps \in {0, 1}
  /\ lateSleeps # 0 => abort
  /\ pc = "sleep" => lateSleeps = 0

\* A routine that has ended leaves a halted core and a free bus, and no sticky
\* error outlives the round that met it: a poll that does not see the end has
\* found no probe.
EndInv ==
  /\ blindSleeps \in {0, 1}
  /\ blindSleeps # 0 => finished
  /\ pc # "dead" /\ finished => core = "halted" /\ ~busbusy
  /\ pc # "dead" /\ link => ~sticky
  /\ pc \in {"check", "sleep"} /\ blindSleeps # 0 => ~link

\* The inductive invariant.  Where failures raise, the core can only be seen
\* halted between a poll and the next call when the routine has ended by
\* itself, so the result register holds that routine's value; an exception
\* leaves the "dead" state in which nothing is called any more.
IInv == TypeOK /\ StopInv /\ EndInv /\ (~Silent => HaltedInv)

\* The delay stays within its bounds.
LEMMA DelayBounds ==
  ASSUME NEW d \in 0 .. MaxDelay, NEW e \in 0 .. Timeout + 1
  PROVE  /\ Greatest(d, StallDelay) \in 0 .. MaxDelay
         /\ Least(IF d = 0 THEN FirstDelay ELSE 2 * d, MaxDelay) \in 0 .. MaxDelay
         /\ Least(e + d, Timeout + 1) \in 0 .. Timeout + 1
         /\ Least(e + 1, Timeout + 1) \in 0 .. Timeout + 1
  BY DelayAssumption DEF Least, Greatest

LEMMA InitIInv == Init => IInv
<1> SUFFICES ASSUME Init PROVE IInv
  OBVIOUS
<1>1. TimeOK
  BY DelayAssumption DEF Init, TimeOK
<1>2. ControlOK
  BY DEF Init, ControlOK
<1>3. HaltedInv /\ StopInv /\ EndInv
  BY DEF Init, HaltedInv, StopInv, EndInv
<1> QED
  BY <1>1, <1>2, <1>3 DEF IInv, TypeOK

\* The driver stays the same.
LEMMA DriverStays == [Next]_vars => driver' = driver
  BY DEF Next, Host, Environment, NewOperation, Call, CallRaises, CallUnheard, PollHalted,
         PollRunning, PollStalled, StopCall, StopRaises, TimeOut, GoOn, Sleep, ReadResult,
         ReadRaises, Raise, AlgoEnds, AlgoRunsAway, BusToggles, Unplug, PressStop, vars

\* Every action keeps the control variables within their types.
LEMMA StepControlOK == ControlOK /\ [Next]_vars => ControlOK'
<1> SUFFICES ASSUME ControlOK, [Next]_vars PROVE ControlOK'
  OBVIOUS
<1> USE DelayAssumption DEF ControlOK
<1>0. driver' = driver
  BY DriverStays
<1>1. CASE Call
  BY <1>1 DEF Call, Answers
<1>2. CASE CallRaises
  <2>1. sticky' \in BOOLEAN /\ lost' \in BOOLEAN
    BY <1>2 DEF CallRaises, Stuck
  <2>2. pc' = "dead" /\ outcome' = "failed" /\ core' \in {"halted", "running"}
    BY <1>2 DEF CallRaises, Raise
  <2>3. UNCHANGED <<result, abort, link, busbusy, r0, finished>>
    BY <1>2 DEF CallRaises, Raise
  <2> QED
    BY <1>0, <2>1, <2>2, <2>3
<1>3. CASE PollHalted
  BY <1>3 DEF PollHalted, sleeps, HaltSeen, Answers, host, target
<1>4. CASE PollRunning
  BY <1>4 DEF PollRunning, sleeps, Answers, host, target
<1>5. CASE PollStalled
  <2>1. sticky' \in BOOLEAN
    BY <1>5 DEF PollStalled, sleeps, ClearError
  <2>2. UNCHANGED <<outcome, result, target, abort, link>> /\ pc' = "check"
    BY <1>5 DEF PollStalled, sleeps
  <2> QED
    BY <1>0, <2>1, <2>2 DEF target
<1>6. CASE StopCall
  BY <1>6 DEF StopCall, sleeps, Answers
<1>7. CASE StopRaises
  <2>1. sticky' \in BOOLEAN
    BY <1>7 DEF StopRaises, Stuck
  <2>2. pc' = "dead" /\ outcome' = "failed" /\ UNCHANGED <<result, abort, link, target>>
    BY <1>7 DEF StopRaises, Raise
  <2> QED
    BY <1>0, <2>1, <2>2 DEF target
<1>8. CASE TimeOut
  BY <1>8 DEF TimeOut, sleeps, Raise, target
<1>9. CASE GoOn
  BY <1>9 DEF GoOn, sleeps, host, target
<1>10. CASE Sleep
  BY <1>10 DEF Sleep, Clock, NextDelay, target
<1>11. CASE ReadResult
  BY <1>11 DEF ReadResult, sleeps, Answers, target
<1>12. CASE ReadRaises
  <2>1. sticky' \in BOOLEAN
    BY <1>12 DEF ReadRaises, Stuck
  <2>2. pc' = "dead" /\ outcome' = "failed" /\ UNCHANGED <<result, abort, link, target>>
    BY <1>12 DEF ReadRaises, Raise
  <2> QED
    BY <1>0, <2>1, <2>2 DEF target
<1>13. CASE NewOperation
  BY <1>13 DEF NewOperation, ResetCore
<1>14. CASE AlgoEnds
  BY <1>14 DEF AlgoEnds, sleeps, host
<1>15. CASE AlgoRunsAway
  BY <1>15 DEF AlgoRunsAway, sleeps, host
<1>16. CASE BusToggles
  BY <1>16 DEF BusToggles, sleeps, host
<1>17. CASE Unplug
  <2>1. link' \in BOOLEAN
    BY <1>17 DEF Unplug, sleeps
  <2>2. UNCHANGED <<pc, outcome, result, abort, sticky, target>>
    BY <1>17 DEF Unplug, sleeps, host
  <2> QED
    BY <1>0, <2>1, <2>2 DEF target
<1>18. CASE PressStop
  BY <1>18 DEF PressStop, sleeps, host, target
<1>19. CASE UNCHANGED vars
  BY <1>19 DEF vars
<1>20. CASE CallUnheard
  BY <1>20 DEF CallUnheard
<1> QED
  BY <1>1, <1>2, <1>3, <1>4, <1>5, <1>6, <1>7, <1>8, <1>9, <1>10,
     <1>11, <1>12, <1>13, <1>14, <1>15, <1>16, <1>17, <1>18, <1>19, <1>20
     DEF Next, Host, Environment

\* Every action keeps the delay, the clock and the count within theirs.
LEMMA StepTimeOK == TimeOK /\ [Next]_vars => TimeOK'
<1> SUFFICES ASSUME TimeOK, [Next]_vars PROVE TimeOK'
  OBVIOUS
<1> USE DelayAssumption DEF TimeOK
<1>1. CASE Call
  BY <1>1 DEF Call, Answers
<1>2. CASE CallRaises
  BY <1>2 DEF CallRaises, Raise, sleeps
<1>3. CASE PollHalted
  BY <1>3 DEF PollHalted, sleeps, HaltSeen, Answers, host, target
<1>4. CASE PollRunning
  BY <1>4 DEF PollRunning, sleeps, Answers, host, target
<1>5. CASE PollStalled
  BY <1>5, DelayBounds DEF PollStalled, sleeps, ClearError, target
<1>6. CASE StopCall
  BY <1>6 DEF StopCall, sleeps, Answers
<1>7. CASE StopRaises
  BY <1>7 DEF StopRaises, sleeps, Raise, target
<1>8. CASE TimeOut
  BY <1>8 DEF TimeOut, sleeps, Raise, target
<1>9. CASE GoOn
  BY <1>9 DEF GoOn, sleeps, host, target
<1>10. CASE Sleep
  <2>1. elapsed' \in 0 .. Timeout + 1 /\ delay' \in 0 .. MaxDelay
    BY <1>10, DelayBounds DEF Sleep, Clock, NextDelay
  <2>2. lateSleeps' \in Nat /\ blindSleeps' \in Nat
    BY <1>10 DEF Sleep
  <2> QED
    BY <2>1, <2>2
<1>11. CASE ReadResult
  BY <1>11 DEF ReadResult, sleeps, Answers, target
<1>12. CASE ReadRaises
  BY <1>12 DEF ReadRaises, sleeps, Raise, target
<1>13. CASE NewOperation
  BY <1>13 DEF NewOperation, ResetCore
<1>14. CASE AlgoEnds
  BY <1>14 DEF AlgoEnds, sleeps, host
<1>15. CASE AlgoRunsAway
  BY <1>15 DEF AlgoRunsAway, sleeps, host
<1>16. CASE BusToggles
  BY <1>16 DEF BusToggles, sleeps, host
<1>17. CASE Unplug
  BY <1>17 DEF Unplug, sleeps, host, target
<1>18. CASE PressStop
  BY <1>18 DEF PressStop, sleeps, host, target
<1>19. CASE UNCHANGED vars
  BY <1>19 DEF vars
<1>20. CASE CallUnheard
  BY <1>20 DEF CallUnheard
<1> QED
  BY <1>1, <1>2, <1>3, <1>4, <1>5, <1>6, <1>7, <1>8, <1>9, <1>10,
     <1>11, <1>12, <1>13, <1>14, <1>15, <1>16, <1>17, <1>18, <1>19, <1>20
     DEF Next, Host, Environment

\* Every action keeps what the loop relies on.
LEMMA StepHalted == ~Silent /\ HaltedInv /\ [Next]_vars => HaltedInv'
<1> SUFFICES ASSUME ~Silent, HaltedInv, [Next]_vars PROVE HaltedInv'
  OBVIOUS
<1> USE DEF HaltedInv
<1>1. CASE Call
  BY <1>1 DEF Call, Answers
<1>2. CASE CallRaises
  BY <1>2 DEF CallRaises, Raise, sleeps
<1>3. CASE PollHalted
  BY <1>3 DEF PollHalted, sleeps, HaltSeen, Answers, host, target
<1>4. CASE PollRunning
  BY <1>4 DEF PollRunning, sleeps, Answers, host, target
<1>5. CASE PollStalled
  BY <1>5 DEF PollStalled, sleeps, ClearError, target
<1>6. CASE StopCall
  BY <1>6 DEF StopCall, sleeps, Answers
<1>7. CASE StopRaises
  BY <1>7 DEF StopRaises, sleeps, Raise, target
<1>8. CASE TimeOut
  BY <1>8 DEF TimeOut, sleeps, Raise, target
<1>9. CASE GoOn
  BY <1>9 DEF GoOn, sleeps, host, target
<1>10. CASE Sleep
  BY <1>10 DEF Sleep, Clock, NextDelay, target
<1>11. CASE ReadResult
  BY <1>11 DEF ReadResult, sleeps, Answers, target
<1>12. CASE ReadRaises
  BY <1>12 DEF ReadRaises, sleeps, Raise, target
<1>13. CASE NewOperation
  BY <1>13 DEF NewOperation, ResetCore
<1>14. CASE AlgoEnds
  BY <1>14 DEF AlgoEnds, sleeps, host
<1>15. CASE AlgoRunsAway
  BY <1>15 DEF AlgoRunsAway, sleeps, host
<1>16. CASE BusToggles
  BY <1>16 DEF BusToggles, sleeps, host
<1>17. CASE Unplug
  BY <1>17 DEF Unplug, sleeps, host, target
<1>18. CASE PressStop
  BY <1>18 DEF PressStop, sleeps, host, target
<1>19. CASE UNCHANGED vars
  BY <1>19 DEF vars
<1>20. CASE CallUnheard
  BY <1>20 DEF CallUnheard
<1> QED
  BY <1>1, <1>2, <1>3, <1>4, <1>5, <1>6, <1>7, <1>8, <1>9, <1>10,
     <1>11, <1>12, <1>13, <1>14, <1>15, <1>16, <1>17, <1>18, <1>19, <1>20
     DEF Next, Host, Environment

\* Every action keeps the count of late sleeps.
LEMMA StepStop == StopInv /\ [Next]_vars => StopInv'
<1> SUFFICES ASSUME StopInv, [Next]_vars PROVE StopInv'
  OBVIOUS
<1> USE DEF StopInv
<1>1. CASE Call
  BY <1>1 DEF Call, Answers
<1>2. CASE CallRaises
  BY <1>2 DEF CallRaises, Raise, sleeps
<1>3. CASE PollHalted
  BY <1>3 DEF PollHalted, sleeps, HaltSeen, Answers, host, target
<1>4. CASE PollRunning
  BY <1>4 DEF PollRunning, sleeps, Answers, host, target
<1>5. CASE PollStalled
  BY <1>5 DEF PollStalled, sleeps, ClearError, target
<1>6. CASE StopCall
  BY <1>6 DEF StopCall, sleeps, Answers
<1>7. CASE StopRaises
  BY <1>7 DEF StopRaises, sleeps, Raise, target
<1>8. CASE TimeOut
  BY <1>8 DEF TimeOut, sleeps, Raise, target
<1>9. CASE GoOn
  BY <1>9 DEF GoOn, sleeps, host, target
<1>10. CASE Sleep
  BY <1>10 DEF Sleep, Clock, NextDelay, target
<1>11. CASE ReadResult
  BY <1>11 DEF ReadResult, sleeps, Answers, target
<1>12. CASE ReadRaises
  BY <1>12 DEF ReadRaises, sleeps, Raise, target
<1>13. CASE NewOperation
  BY <1>13 DEF NewOperation, ResetCore
<1>14. CASE AlgoEnds
  BY <1>14 DEF AlgoEnds, sleeps, host
<1>15. CASE AlgoRunsAway
  BY <1>15 DEF AlgoRunsAway, sleeps, host
<1>16. CASE BusToggles
  BY <1>16 DEF BusToggles, sleeps, host
<1>17. CASE Unplug
  BY <1>17 DEF Unplug, sleeps, host, target
<1>18. CASE PressStop
  BY <1>18 DEF PressStop, sleeps, host, target
<1>19. CASE UNCHANGED vars
  BY <1>19 DEF vars
<1>20. CASE CallUnheard
  BY <1>20 DEF CallUnheard
<1> QED
  BY <1>1, <1>2, <1>3, <1>4, <1>5, <1>6, <1>7, <1>8, <1>9, <1>10,
     <1>11, <1>12, <1>13, <1>14, <1>15, <1>16, <1>17, <1>18, <1>19, <1>20
     DEF Next, Host, Environment

\* Every action keeps the count of sleeps after the end.
LEMMA StepEnd == EndInv /\ [Next]_vars => EndInv'
<1> SUFFICES ASSUME EndInv, [Next]_vars PROVE EndInv'
  OBVIOUS
<1> USE DEF EndInv
<1>1. CASE Call
  BY <1>1 DEF Call, Answers
<1>2. CASE CallRaises
  BY <1>2 DEF CallRaises, Raise, sleeps
<1>3. CASE PollHalted
  BY <1>3 DEF PollHalted, sleeps, HaltSeen, Answers, host, target
<1>4. CASE PollRunning
  BY <1>4 DEF PollRunning, sleeps, Answers, host, target
<1>5. CASE PollStalled
  <2>1. ~Silent /\ ~Answers /\ pc = "poll" /\ pc' = "check"
    BY <1>5 DEF PollStalled
  <2>2. UNCHANGED <<link, blindSleeps, finished, core, busbusy>>
    BY <1>5 DEF PollStalled, sleeps, target
  <2>3. ASSUME link' PROVE ~sticky'
    <3>1. sticky' = (Stuck /\ ~link) /\ link' = link
      BY <1>5, <2>2, Zenon DEF PollStalled, ClearError
    <3>2. link
      BY <2>3, <3>1, Zenon
    <3> QED
      BY <3>1, <3>2, Zenon
  <2>4. ASSUME blindSleeps' # 0, link' PROVE FALSE
    <3>1. link /\ finished /\ pc # "dead"
      BY <2>1, <2>2, <2>4
    <3>2. ~busbusy /\ ~sticky
      BY <3>1
    <3> QED
      BY <2>1, <3>1, <3>2 DEF Answers
  <2> QED
    BY <2>1, <2>2, <2>3, <2>4
<1>6. CASE StopCall
  BY <1>6 DEF StopCall, sleeps, Answers
<1>7. CASE StopRaises
  BY <1>7 DEF StopRaises, sleeps, Raise, target
<1>8. CASE TimeOut
  BY <1>8 DEF TimeOut, sleeps, Raise, target
<1>9. CASE GoOn
  BY <1>9 DEF GoOn, sleeps, host, target
<1>10. CASE Sleep
  BY <1>10 DEF Sleep, Clock, NextDelay, target
<1>11. CASE ReadResult
  BY <1>11 DEF ReadResult, sleeps, Answers, target
<1>12. CASE ReadRaises
  BY <1>12 DEF ReadRaises, sleeps, Raise, target
<1>13. CASE NewOperation
  BY <1>13 DEF NewOperation, ResetCore
<1>14. CASE AlgoEnds
  BY <1>14 DEF AlgoEnds, sleeps, host
<1>15. CASE AlgoRunsAway
  BY <1>15 DEF AlgoRunsAway, sleeps, host
<1>16. CASE BusToggles
  BY <1>16 DEF BusToggles, sleeps, host
<1>17. CASE Unplug
  BY <1>17 DEF Unplug, sleeps, host, target
<1>18. CASE PressStop
  BY <1>18 DEF PressStop, sleeps, host, target
<1>19. CASE UNCHANGED vars
  BY <1>19 DEF vars
<1>20. CASE CallUnheard
  BY <1>20 DEF CallUnheard
<1> QED
  BY <1>1, <1>2, <1>3, <1>4, <1>5, <1>6, <1>7, <1>8, <1>9, <1>10,
     <1>11, <1>12, <1>13, <1>14, <1>15, <1>16, <1>17, <1>18, <1>19, <1>20
     DEF Next, Host, Environment

LEMMA StepIInv == IInv /\ [Next]_vars => IInv'
<1> SUFFICES ASSUME IInv, [Next]_vars PROVE IInv'
  OBVIOUS
<1>1. ControlOK' /\ TimeOK' /\ StopInv' /\ EndInv'
  BY StepControlOK, StepTimeOK, StepStop, StepEnd DEF IInv, TypeOK
<1>2. ASSUME ~Silent' PROVE HaltedInv'
  <2>1. ~Silent
    BY <1>2, DriverStays DEF Silent
  <2> QED
    BY <2>1, StepHalted DEF IInv
<1> QED
  BY <1>1, <1>2 DEF IInv, TypeOK

LEMMA IInvHolds == Spec => []IInv
  BY InitIInv, StepIInv, PTL DEF Spec

\* callFunctionAndWait keeps its variables within their types: the backoff
\* never sleeps longer than 10 ms, whatever it started from.
THEOREM TypeCorrect == Spec => []TypeOK
<1>1. IInv => TypeOK
  BY DEF IInv
<1> QED
  BY <1>1, IInvHolds, PTL

\* On pyOCD and ST-Link the core is halted between two calls, so that the
\* caller may write the page buffer and the registers.
THEOREM IdleHalted == Spec => []IdleMeansHalted
<1>1. IInv => IdleMeansHalted
  BY DEF IInv, HaltedInv, IdleMeansHalted
<1> QED
  BY <1>1, IInvHolds, PTL

\* On pyOCD and ST-Link a returned value is the value that the routine of this
\* very call has left.
THEOREM ResultOwned == Spec => []ResultIsOfThisCall
<1>1. IInv => ResultIsOfThisCall
  BY DEF IInv, HaltedInv, ResultIsOfThisCall
<1> QED
  BY <1>1, IInvHolds, PTL

\* On pyOCD and ST-Link the core is halted after Aborted.
THEOREM AbortHalts == Spec => []AbortedMeansHalted
<1>1. IInv => AbortedMeansHalted
  BY DEF IInv, HaltedInv, AbortedMeansHalted
<1> QED
  BY <1>1, IInvHolds, PTL

\* Over all three drivers the loop sleeps at most once after the routine has
\* ended, as long as the probe is there.
THEOREM EndSeen == Spec => []EndIsSeen
<1>1. IInv => EndIsSeen
  BY DEF IInv, EndInv, EndIsSeen
<1> QED
  BY <1>1, IInvHolds, PTL

\* After a stop request the loop sleeps at most once more.
THEOREM StopPrompt == Spec => []StopIsPrompt
<1>1. IInv => StopIsPrompt
  BY DEF IInv, StopInv, StopIsPrompt
<1> QED
  BY <1>1, IInvHolds, PTL

-----------------------------------------------------------------------------
(* Implementation of AlgoCall.                                             *)

LEMMA InitPromise == Init => Promise!AInit
  BY DEF Init, Promise!AInit

\* The phase the abstract specification sees.
Phase == IF pc \in {"idle", "dead"} THEN pc ELSE "busy"

LEMMA StepPromise == ~Silent /\ IInv /\ [Next]_vars => [Promise!ANext]_(Promise!avars)
<1> SUFFICES ASSUME ~Silent, IInv, [Next]_vars
             PROVE  Promise!ANext \/ UNCHANGED <<Phase, core, finished, outcome>>
  BY DEF Promise!avars, Phase
<1> USE DEF IInv, HaltedInv, Phase
<1>1. CASE Call
  <2>1. Promise!Issue
    BY <1>1 DEF Call, Promise!Issue
  <2> QED
    BY <2>1 DEF Promise!ANext
<1>2. CASE CallRaises \/ StopRaises \/ TimeOut \/ ReadRaises
  <2>1. pc \in {"idle", "read", "check"} /\ pc' = "dead" /\ outcome' = "failed"
    BY <1>2 DEF CallRaises, StopRaises, TimeOut, ReadRaises, Raise
  <2>2. core' \in {"halted", "running"} /\ UNCHANGED finished
    BY <1>2 DEF CallRaises, StopRaises, TimeOut, ReadRaises, target, TypeOK, ControlOK
  <2>3. Promise!Fail
    BY <2>1, <2>2 DEF Promise!Fail
  <2> QED
    BY <2>3 DEF Promise!ANext
<1>3. CASE StopCall
  <2>1. Promise!Stop
    BY <1>3 DEF StopCall, sleeps, Promise!Stop
  <2> QED
    BY <2>1 DEF Promise!ANext
<1>4. CASE ReadResult
  <2>1. Promise!Return
    BY <1>4 DEF ReadResult, sleeps, target, Promise!Return
  <2> QED
    BY <2>1 DEF Promise!ANext
<1>5. CASE NewOperation
  <2>1. Promise!Restart
    BY <1>5 DEF NewOperation, ResetCore, Promise!Restart
  <2> QED
    BY <2>1 DEF Promise!ANext
<1>6. CASE AlgoEnds
  <2>1. Promise!Finish
    BY <1>6 DEF AlgoEnds, sleeps, host, Promise!Finish
  <2> QED
    BY <2>1 DEF Promise!ANext
<1>7. CASE PollHalted \/ PollRunning \/ PollStalled \/ GoOn \/ Sleep
  BY <1>7 DEF PollHalted, sleeps, PollRunning, PollStalled, GoOn, Sleep, host, target
<1>8. CASE AlgoRunsAway \/ BusToggles \/ Unplug \/ PressStop
  BY <1>8 DEF AlgoRunsAway, sleeps, BusToggles, Unplug, PressStop, host, target
<1>9. CASE UNCHANGED vars
  BY <1>9 DEF vars
<1>10. ~CallUnheard
  BY DEF CallUnheard
<1> QED
  BY <1>1, <1>2, <1>3, <1>4, <1>5, <1>6, <1>7, <1>8, <1>9, <1>10
     DEF Next, Host, Environment

\* On pyOCD and ST-Link callFunctionAndWait implements the contract its
\* callers rely on: a result only from a finished routine with the core
\* halted, a halted core after a stop, and a halted core at the start of the
\* next operation.
THEOREM ImplementsPromise == Spec => KeepsPromise
<1>1. Init => Promise!AInit
  BY InitPromise
<1>2. IInv /\ [Next]_vars => [Promise!ANext \/ Silent]_(Promise!avars)
  BY StepPromise
<1> QED
  BY <1>1, <1>2, IInvHolds, PTL DEF Spec, KeepsPromise
=============================================================================
