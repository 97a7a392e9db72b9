--------------------------- MODULE Connection_proofs ---------------------------
(***************************************************************************)
(* Proofs about the connection of MCUProg: ProbeLink, the probe from the    *)
(* main window down to the cable, for every set of backends and every       *)
(* bound, and LinkTask, who may use the connection, for both kinds of       *)
(* target.                                                                 *)
(***************************************************************************)
EXTENDS ProbeLink, LinkTask, SequenceTheorems, TLAPS

Names == {"info", "led", "connect", "disconnect", "abort", "reset_target", "configure",
          "clock", "pins", "swd", "sequence", "jtag_sequence", "jtag", "jtag_idcode",
          "swo_transport", "swo_mode", "swo_baudrate", "swo_control", "swo_status",
          "swo_data", "vendor", "transfer"}
Commands == [name : Names, checked : BOOLEAN]
Answers == [cmd : Names, mine : BOOLEAN]

DataOK ==
  /\ rest \in Seq(Commands)
  /\ cur \in Commands \union {NoCall}
  /\ wire \in Seq(Answers) /\ todo \in Seq(Answers)
  /\ rcv \in Seq(Answers \union {Exit})

\* How the interface, its thread and the operation of the window go together:
\* an interface is closed only between operations or while its thread is
\* joined, and an unplugged one has nothing under way.
ControlInv ==
  /\ Threaded => (closed <=> op = "join" \/ thread = "none")
  /\ ~Threaded => thread = "none"
  /\ backend = "hidapi" \/ (Threaded /\ thread = "none") => rcv = <<>>
  /\ cur # NoCall => Calling
  /\ closed => op = "join" \/ (op = "none" /\ ~linked)
  /\ op = "join" => closed /\ Threaded /\ stop
  /\ op \in {"work", "swo", "disable", "swo_off", "close", "join"} => linked
  /\ ~closed => holder \in {"mine", "gone"}
  /\ holder = "gone" => wire = <<>> /\ todo = <<>> /\ hurt
  /\ overdue => faults > 0

\* The answer to the call under way.
Own == [cmd |-> cur.name, mine |-> TRUE]

\* While no answer is overdue, nothing but the answer to the call under way is
\* on its way to an open interface, unless its thread has ended and left the
\* None at the head of rcv_data, where nothing is read any more; and rcv_data
\* is empty when the interface is opened.
StreamInv ==
  ~overdue =>
    IF closed THEN op = "none" => rcv = <<>>
    ELSE \/ Threaded /\ rcv # <<>> /\ Head(rcv) = Exit
         \/ rcv = <<>> /\ wire = <<>> /\ todo = <<>>
         \/ /\ cur # NoCall
            /\ \/ /\ rcv = <<Own>> \/ (rcv = <<Own, Exit>> /\ thread = "ended")
                  /\ wire = <<>> /\ todo = <<>>
               \/ rcv = <<>> /\ wire = <<Own>> /\ todo = <<>>
               \/ rcv = <<>> /\ wire = <<>> /\ todo = <<Own>>

Reading == IF thread = "read" THEN 1 ELSE 0
Awaited == IF cur # NoCall THEN 1 ELSE 0

\* An open interface that nothing has happened to: a permit, the read it let
\* begin and the answer it brought belong to the one call under way, and the
\* answer to every permit is still to come.
OpenPermits ==
  /\ thread \in {"wait", "read"}
  /\ backend = "pyusb_v2" => ~stop
  /\ sem + Reading + Len(rcv) <= Awaited
  /\ sem + Reading <= Len(wire) + Len(todo)
  /\ rcv # <<>> => Head(rcv) # Exit

\* No permit is left over once the thread has been joined.
ClosedPermits ==
  \/ op = "join" /\ thread = "wait" /\ sem <= 1
  \/ thread \in {"none", "ended"} /\ sem = 0

PermitInv ==
  Threaded /\ ~hurt => IF closed THEN ClosedPermits ELSE OpenPermits

\* A None is only left in swo_data by a forgotten thread.
SwoInv ==
  /\ swoLeaked => swoTwice
  /\ swoExit => swoTwice \/ op = "join"

\* Without a fault no operation is left by an exception.
GivenUpInv ==
  Threaded /\ ~closed /\ ~hurt /\ faults = 0 => linked \/ op # "none"

IInv == TypeOK /\ DataOK /\ ControlInv /\ StreamInv /\ PermitInv /\ SwoInv /\ GivenUpInv

-----------------------------------------------------------------------------
(* What the operators do.                                                  *)

\* Disowning answers changes neither their number nor the None.
LEMMA StaleSeq ==
  ASSUME NEW s \in Seq(Answers \union {Exit})
  PROVE  /\ Stale(s) \in Seq(Answers \union {Exit})
         /\ s \in Seq(Answers) => Stale(s) \in Seq(Answers)
         /\ Len(Stale(s)) = Len(s)
         /\ s = <<>> => Stale(s) = <<>>
         /\ s = <<Exit>> => Stale(s) = <<Exit>>
<1>1. \A a \in Answers : [a EXCEPT !.mine = FALSE] \in Answers
  BY DEF Answers
<1>2. [Exit EXCEPT !.mine = FALSE] = Exit
  <2>1. \A e \in [cmd : {"exit"}, mine : BOOLEAN] : e.mine = FALSE => [e EXCEPT !.mine = FALSE] = e
    OBVIOUS
  <2>2. Exit \in [cmd : {"exit"}, mine : BOOLEAN] /\ Exit.mine = FALSE
    BY DEF Exit
  <2> QED
    BY <2>1, <2>2
<1>3. \A i \in 1..Len(s) : s[i] \in Answers \union {Exit}
  OBVIOUS
<1>4. Stale(s) \in Seq(Answers \union {Exit}) /\ Len(Stale(s)) = Len(s)
  BY <1>1, <1>2, <1>3 DEF Stale
<1>5. ASSUME s \in Seq(Answers) PROVE Stale(s) \in Seq(Answers)
  BY <1>1, <1>5 DEF Stale
<1>6. ASSUME s = <<>> PROVE Stale(s) = <<>>
  BY <1>4, <1>6
<1>7. ASSUME s = <<Exit>> PROVE Stale(s) = <<Exit>>
  <2>1. Len(s) = 1 /\ s[1] = Exit
    BY <1>7
  <2>2. Stale(s)[1] = Exit
    BY <1>2, <2>1 DEF Stale
  <2> QED
    BY <1>4, <2>1, <2>2
<1> QED
  BY <1>4, <1>5, <1>6, <1>7

LEMMA AppendPair ==
  ASSUME NEW S, NEW a \in S, NEW b \in S
  PROVE  Append(<<a>>, b) = <<a, b>>
<1>1. <<a>> \in Seq(S) /\ Len(<<a>>) = 1 /\ <<a>>[1] = a
  OBVIOUS
<1>2. <<a, b>> \in Seq(S) /\ Len(<<a, b>>) = 2
  OBVIOUS
<1>3. Append(<<a>>, b) \in Seq(S) /\ Len(Append(<<a>>, b)) = 2
  BY <1>1
<1>4. \A i \in 1..2 : Append(<<a>>, b)[i] = <<a, b>>[i]
  BY <1>1
<1> QED
  BY <1>2, <1>3, <1>4, SeqEqual

\* The commands of every operation.
LEMMA OperationCmds ==
  /\ InfoCmds \in Seq(Commands) /\ ConnectCmds \in Seq(Commands)
  /\ SwdCmds \in Seq(Commands) /\ JtagCmds \in Seq(Commands)
  /\ FlushCmds \in Seq(Commands) /\ InitCmds \in Seq(Commands)
  /\ SwoOnCmds \in Seq(Commands) /\ SwoOffCmds \in Seq(Commands)
  /\ SingleCmds \subseteq Commands
  /\ {Info, SwjPins, SwjClock, Disconnect, Transfer, SwoControl} \subseteq Commands
<1>1. /\ {Info, Led, ConnectPort, Disconnect, WriteAbort, ResetTarget, TransferConfigure}
            \subseteq Commands
      /\ {SwjClock, SwjPins, SwdConfigure, SwjSequence, JtagSequence, JtagConfigure, JtagIdCode}
            \subseteq Commands
  BY DEF Commands, Names, Command, Info, Led, ConnectPort, Disconnect, WriteAbort, ResetTarget,
         TransferConfigure, SwjClock, SwjPins, SwdConfigure, SwjSequence, JtagSequence,
         JtagConfigure, JtagIdCode
<1>2. {SwoTransport, SwoMode, SwoBaudrate, SwoControl, SwoStatus, SwoData, Vendor, Transfer}
        \subseteq Commands
  BY DEF Commands, Names, Command, SwoTransport, SwoMode, SwoBaudrate, SwoControl, SwoStatus,
         SwoData, Vendor, Transfer
<1> QED
  BY <1>1, <1>2
     DEF InfoCmds, ConnectCmds, SwdCmds, JtagCmds, FlushCmds, InitCmds, SwoOnCmds, SwoOffCmds,
         SingleCmds

LEMMA Joint ==
  ASSUME NEW s \in Seq(Commands), NEW t \in Seq(Commands)
  PROVE  s \o t \in Seq(Commands)
  BY ConcatProperties

LEMMA One ==
  ASSUME NEW c \in Commands
  PROVE  <<c>> \in Seq(Commands)
  OBVIOUS

\* probe_open's commands, and those of its second attempt.
LEMMA OpeningCmds ==
  ASSUME NEW p
  PROVE  /\ SwjCmds(p) \in Seq(Commands)
         /\ SwjCmds(p) \o InitCmds \in Seq(Commands)
         /\ InfoCmds \o <<Info>> \o ConnectCmds \o SwjCmds(p) \o InitCmds \in Seq(Commands)
<1>1. SwjCmds(p) \in Seq(Commands)
  BY OperationCmds DEF SwjCmds
<1>2. InfoCmds \o <<Info>> \in Seq(Commands)
  BY OperationCmds, One, Joint
<1>3. InfoCmds \o <<Info>> \o ConnectCmds \in Seq(Commands)
  BY OperationCmds, <1>2, Joint
<1>4. InfoCmds \o <<Info>> \o ConnectCmds \o SwjCmds(p) \in Seq(Commands)
  BY <1>1, <1>3, Joint
<1> QED
  BY <1>1, <1>4, OperationCmds, Joint

\* The commands of an operation of an open connection.
LEMMA WorkCmds ==
  /\ {ResetCmds, AssertCmds, ClockCmds, DisconnectCmds} \subseteq Seq(Commands)
  /\ SwoOffCmds \o <<SwoControl>> \in Seq(Commands)
<1>1. ResetCmds \in Seq(Commands)
  <2>1. <<SwjPins, SwjPins>> \in Seq(Commands)
    BY OperationCmds
  <2> QED
    BY <2>1, OperationCmds, Joint DEF ResetCmds
<1>2. AssertCmds \in Seq(Commands)
  BY OperationCmds, One, Joint DEF AssertCmds
<1>3. ClockCmds \in Seq(Commands)
  BY OperationCmds, One, Joint DEF ClockCmds
<1>4. DisconnectCmds \in Seq(Commands)
  BY OperationCmds, One, Joint DEF DisconnectCmds
<1>5. SwoOffCmds \o <<SwoControl>> \in Seq(Commands)
  BY OperationCmds, One, Joint
<1> QED
  BY <1>1, <1>2, <1>3, <1>4, <1>5

-----------------------------------------------------------------------------
(* Types.                                                                  *)

LEMMA InitIInv == Init => IInv
<1> SUFFICES ASSUME Init PROVE IInv
  OBVIOUS
<1> USE DEF Init
<1>1. TypeOK
  <2>1. {plugged, closed, stop, deferred, linked, hurt, overdue,
         swoRunning, swoLeaked, swoExit, swoTwice} \subseteq BOOLEAN
    OBVIOUS
  <2>2. sem \in 0..MaxPermits /\ faults \in 0..MaxFaults
    BY ProbeLinkAssumption
  <2> QED
    BY <2>1, <2>2 DEF TypeOK
<1>2. DataOK
  BY DEF DataOK
<1>3. ControlInv
  BY DEF ControlInv, Threaded
<1>4. StreamInv /\ PermitInv /\ SwoInv /\ GivenUpInv
  BY DEF StreamInv, PermitInv, ClosedPermits, SwoInv, GivenUpInv
<1> QED
  BY <1>1, <1>2, <1>3, <1>4 DEF IInv

\* Every action keeps every variable in its type.
LEMMA StepTypeOK ==
  ASSUME TypeOK, [Next]_vars
  PROVE  TypeOK'
<1> USE ProbeLinkAssumption DEF TypeOK, conn, rx, swo, bus, call, seen
<1>1. CASE Connect
  <2>1. faults' \in 0..MaxFaults
    BY <1>1 DEF Connect, Fault
  <2>2. {closed', stop', deferred', overdue'} \subseteq BOOLEAN
    BY <1>1 DEF Connect, OpenV2, OpenV1, OpenWin, OpenHid
  <2>3. holder' = "mine" /\ thread' \in {"wait", thread} /\ op' \in {"swd", "jtag"} /\ sem' = sem
    BY <1>1 DEF Connect, OpenV2, OpenV1, OpenWin, OpenHid
  <2>4. UNCHANGED <<backend, swo, plugged, linked, hurt>>
    BY <1>1 DEF Connect
  <2> QED
    BY <2>1, <2>2, <2>3, <2>4
<1>2. CASE Refresh
  <2>1. holder' \in {"lost", "none"} /\ sem' = 0
    BY <1>2 DEF Refresh
  <2>2. {closed', stop', swoRunning', swoLeaked', swoExit', swoTwice', hurt', deferred'}
          \subseteq BOOLEAN
    BY <1>2 DEF Refresh
  <2>3. thread' = "none" /\ UNCHANGED <<backend, plugged, op, linked, faults, overdue>>
    BY <1>2 DEF Refresh
  <2> QED
    BY <2>1, <2>2, <2>3
<1>3. CASE Write
  <2>1. sem' \in 0..MaxPermits /\ deferred' \in BOOLEAN
    BY <1>3 DEF Write, Permits
  <2> QED
    BY <1>3, <2>1 DEF Write
<1>4. CASE WriteRaises
  <2>1. sem' \in 0..MaxPermits /\ faults' \in 0..MaxFaults
    BY <1>4 DEF WriteRaises, Permits, Fault
  <2>2. deferred' \in BOOLEAN /\ linked' \in BOOLEAN
    BY <1>4 DEF WriteRaises, Raised
  <2> QED
    BY <1>4, <2>1, <2>2 DEF WriteRaises, Raised
<1>5. CASE ReadForeign \/ ReadExited \/ ReadUnplugged
  <2>1. linked' \in BOOLEAN
    BY <1>5 DEF ReadForeign, ReadExited, ReadUnplugged, Raised
  <2> QED
    BY <1>5, <2>1 DEF ReadForeign, ReadExited, ReadUnplugged, Raised
<1>6. CASE Read \/ RxRead \/ RxHandler \/ ProbeAnswers
  BY <1>6 DEF Read, RxRead, RxHandler, ProbeAnswers
<1>7. CASE ReadRefused
  <2>1. linked' \in BOOLEAN /\ faults' \in 0..MaxFaults
    BY <1>7 DEF ReadRefused, Raised, Fault
  <2> QED
    BY <1>7, <2>1 DEF ReadRefused, Raised
<1>8. CASE RetryInit \/ SwoRefused
  <2>1. faults' \in 0..MaxFaults
    BY <1>8 DEF RetryInit, SwoRefused, Fault
  <2> QED
    BY <1>8, <2>1 DEF RetryInit, SwoRefused
<1>9. CASE ReadTimesOut
  <2>1. linked' \in BOOLEAN
    BY <1>9 DEF ReadTimesOut, Raised
  <2>2. faults' \in 0..MaxFaults
    BY <1>9 DEF ReadTimesOut, Expired, Fault
  <2>3. {overdue', hurt'} \subseteq BOOLEAN
    BY <1>9 DEF ReadTimesOut, Expired, Fault
  <2> QED
    BY <1>9, <2>1, <2>2, <2>3 DEF ReadTimesOut, Raised
<1>10. CASE RxAcquire
  <2>1. sem' \in 0..MaxPermits /\ thread' \in {"ended", "read"}
    BY <1>10 DEF RxAcquire
  <2> QED
    BY <1>10, <2>1 DEF RxAcquire
<1>11. CASE RxFails
  <2>1. faults' \in 0..MaxFaults
    BY <1>11 DEF RxFails, Expired, Fault
  <2>3. {overdue', hurt'} \subseteq BOOLEAN
    BY <1>11 DEF RxFails, Expired, Fault
  <2> QED
    BY <1>11, <2>1, <2>3 DEF RxFails
<1>12. CASE OpenDone \/ Defer \/ Work \/ WorkDone \/ SwoStart \/ SwoStop \/ LinkClose
  BY <1>12 DEF OpenDone, Defer, Work, WorkDone, SwoStart, SwoStop, LinkClose
<1>13. CASE SwoStarted
  <2>1. {swoRunning', swoLeaked', swoTwice'} \subseteq BOOLEAN
    BY <1>13 DEF SwoStarted
  <2> QED
    BY <1>13, <2>1 DEF SwoStarted
<1>14. CASE SwoLeakEnds \/ Joined \/ CloseDevice \/ Plug
  BY <1>14 DEF SwoLeakEnds, Joined, CloseDevice, Plug
<1>15. CASE CloseThreaded
  <2>1. sem' \in 0..MaxPermits /\ swoExit' \in BOOLEAN
    BY <1>15 DEF CloseThreaded, Permits
  <2> QED
    BY <1>15, <2>1 DEF CloseThreaded
<1>16. CASE AnswerLost
  <2>1. faults' \in 0..MaxFaults
    BY <1>16 DEF AnswerLost, Fault
  <2> QED
    BY <1>16, <2>1 DEF AnswerLost
<1>17. CASE Unplug
  <2>1. holder' \in {"gone", "none"}
    BY <1>17 DEF Unplug
  <2> QED
    BY <1>17, <2>1 DEF Unplug
<1>18. CASE UNCHANGED vars
  BY <1>18 DEF vars
<1> QED
  BY <1>1, <1>2, <1>3, <1>4, <1>5, <1>6, <1>7, <1>8, <1>9, <1>10, <1>11, <1>12, <1>13, <1>14,
     <1>15, <1>16, <1>17, <1>18
     DEF Next, Opening, Exchange, Receiver, Operations, SwoOperations, Environment

\* Every action keeps commands and answers well formed.
LEMMA StepDataOK ==
  ASSUME DataOK, [Next]_vars
  PROVE  DataOK'
<1> DEFINE Received == Answers \union {Exit}
<1> USE DEF DataOK, conn, rx, swo, bus, call, seen
<1>1. <<>> \in Seq(Commands) /\ <<>> \in Seq(Answers) /\ <<>> \in Seq(Received)
  OBVIOUS
<1>2. \A s \in Seq(Answers) : s # <<>> => Head(s) \in Answers /\ Tail(s) \in Seq(Answers)
  OBVIOUS
<1>3. rcv # <<>> => Tail(rcv) \in Seq(Received)
  OBVIOUS
<1>4. \A s \in Seq(Answers) : Stale(s) \in Seq(Answers)
  <2>1. \A s \in Seq(Answers) : s \in Seq(Received)
    OBVIOUS
  <2> QED
    BY <2>1, StaleSeq
<1>5. \A s \in Seq(Received) : Stale(s) \in Seq(Received)
  BY StaleSeq
<1>6. ASSUME Raised PROVE rest' \in Seq(Commands) /\ cur' \in Commands \union {NoCall}
  BY <1>1, <1>6 DEF Raised
<1>7. ASSUME Orphaned PROVE wire' \in Seq(Answers) /\ todo' \in Seq(Answers)
  BY <1>4, <1>7 DEF Orphaned
<1>8. ASSUME Popped, HasAnswer
      PROVE  wire' \in Seq(Answers) /\ todo' \in Seq(Answers) /\ rcv' \in Seq(Received)
  BY <1>2, <1>3, <1>8 DEF Popped, HasAnswer, Inbox
<1>9. ASSUME PoppedStale, HasAnswer
      PROVE  wire' \in Seq(Answers) /\ todo' \in Seq(Answers) /\ rcv' \in Seq(Received)
  BY <1>2, <1>3, <1>4, <1>5, <1>9 DEF PoppedStale, HasAnswer, Inbox, Orphaned
<1> HIDE DEF Received
<1>10. CASE Connect
  <2>1. rest' \in Seq(Commands)
    BY <1>10, OpeningCmds DEF Connect
  <2>2. wire' = <<>> /\ UNCHANGED <<rcv, todo, cur>>
    BY <1>10 DEF Connect, OpenV2, OpenV1, OpenWin, OpenHid
  <2> QED
    BY <1>1, <2>1, <2>2
<1>11. CASE Refresh
  BY <1>1, <1>11 DEF Refresh, Received
<1>12. CASE Write
  <2>1. Head(rest) \in Commands /\ Tail(rest) \in Seq(Commands)
    BY <1>12 DEF Write
  <2>2. [cmd |-> Head(rest).name, mine |-> TRUE] \in Answers
    BY <2>1 DEF Commands, Answers
  <2>3. todo' \in Seq(Answers)
    BY <1>12, <2>2 DEF Write
  <2> QED
    BY <1>12, <2>1, <2>3 DEF Write
<1>13. CASE WriteRaises
  BY <1>6, <1>7, <1>13 DEF WriteRaises
<1>14. CASE Read
  BY <1>8, <1>14 DEF Read, Received
<1>15. CASE ReadForeign \/ ReadRefused
  BY <1>6, <1>9, <1>15 DEF ReadForeign, ReadRefused, Received
<1>16. CASE RetryInit
  BY <1>8, <1>16, OpeningCmds DEF RetryInit, Received
<1>17. CASE SwoRefused
  <2>1. op \in {"swo", "disable", "swo_off"}
    BY <1>17 DEF SwoRefused
  <2>2. rest' \in {SwoOffCmds \o <<SwoControl>>, <<SwoControl>>, <<>>}
    BY <1>17, <2>1 DEF SwoRefused
  <2>3. rest' \in Seq(Commands)
    BY <1>1, <2>2, WorkCmds, OperationCmds, One
  <2> QED
    BY <1>8, <1>17, <2>3 DEF SwoRefused, Received
<1>18. CASE ReadExited \/ ReadTimesOut \/ ReadUnplugged
  BY <1>6, <1>7, <1>18 DEF ReadExited, ReadTimesOut, ReadUnplugged
<1>19. CASE RxAcquire \/ RxFails
  <2>1. rcv' \in {rcv, Append(rcv, Exit)}
    BY <1>19 DEF RxAcquire, RxFails
  <2>2. rcv' \in Seq(Received)
    BY <2>1 DEF Received
  <2> QED
    BY <1>19, <2>2 DEF RxAcquire, RxFails, Received
<1>20. CASE RxRead
  <2>1. Head(wire) \in Answers /\ Tail(wire) \in Seq(Answers)
    BY <1>2, <1>20 DEF RxRead
  <2>2. <<Head(wire), Exit>> \in Seq(Received)
    BY <2>1 DEF Received
  <2>3. rcv \o <<Head(wire), Exit>> \in Seq(Received)
    BY <2>2, ConcatProperties DEF Received
  <2>4. Append(rcv, Head(wire)) \in Seq(Received)
    BY <2>1 DEF Received
  <2> QED
    BY <1>20, <2>1, <2>3, <2>4 DEF RxRead, Received
<1>21. CASE RxHandler
  BY <1>2, <1>21 DEF RxHandler
<1>22. CASE OpenDone \/ Defer \/ WorkDone \/ SwoStarted \/ SwoLeakEnds \/ CloseThreaded \/ Plug
  BY <1>22 DEF OpenDone, Defer, WorkDone, SwoStarted, SwoLeakEnds, CloseThreaded, Plug
<1>23. CASE Work
  <2>1. rest' \in Seq(Commands)
    BY <1>23, WorkCmds, OperationCmds, One DEF Work
  <2> QED
    BY <1>23, <2>1 DEF Work
<1>24. CASE SwoStart \/ SwoStop
  BY <1>24, OperationCmds DEF SwoStart, SwoStop
<1>25. CASE LinkClose
  <2>1. rest' \in Seq(Commands)
    BY <1>25, OperationCmds, One DEF LinkClose
  <2> QED
    BY <1>25, <2>1 DEF LinkClose
<1>26. CASE Joined
  BY <1>26 DEF Joined
<1>27. CASE CloseDevice \/ Unplug
  BY <1>1, <1>27 DEF CloseDevice, Unplug
<1>28. CASE ProbeAnswers \/ AnswerLost
  <2>1. Head(todo) \in Answers /\ Tail(todo) \in Seq(Answers)
    BY <1>2, <1>28 DEF ProbeAnswers, AnswerLost
  <2>2. wire' \in {wire, Append(wire, Head(todo))} /\ todo' = Tail(todo)
    BY <1>28 DEF ProbeAnswers, AnswerLost
  <2>4. Append(wire, Head(todo)) \in Seq(Answers)
    BY <2>1
  <2>5. wire' \in Seq(Answers) /\ todo' \in Seq(Answers)
    BY <2>1, <2>2, <2>4
  <2>3. UNCHANGED <<rest, cur, rcv>>
    BY <1>28 DEF ProbeAnswers, AnswerLost
  <2> QED
    BY <2>3, <2>5
<1>29. CASE UNCHANGED vars
  BY <1>29 DEF vars
<1> QED
  BY <1>10, <1>11, <1>12, <1>13, <1>14, <1>15, <1>16, <1>17, <1>18, <1>19, <1>20, <1>21, <1>22,
     <1>23, <1>24, <1>25, <1>26, <1>27, <1>28, <1>29
     DEF Next, Opening, Exchange, Receiver, Operations, SwoOperations, Environment

-----------------------------------------------------------------------------
(* The invariant.                                                          *)

\* A command is only sent, and its answer only read, by an operation.
LEMMA StepControlInv ==
  ASSUME TypeOK, DataOK, ControlInv, [Next]_vars
  PROVE  ControlInv'
<1> USE DEF ControlInv, Threaded, Calling, conn, rx, swo, bus, call, seen
<1>a. faults \in Nat /\ overdue \in BOOLEAN
  BY DEF TypeOK
<1>b. ASSUME Expired PROVE overdue' => faults' > 0
  <2>1. CASE todo = <<>>
    BY <1>b, <2>1 DEF Expired
  <2>2. CASE todo # <<>>
    BY <1>a, <1>b, <2>2 DEF Expired, Fault
  <2> QED
    BY <2>1, <2>2
<1>d. Stale(<<>>) = <<>>
  <2>1. <<>> \in Seq(Answers \union {Exit})
    OBVIOUS
  <2> QED
    BY <2>1, StaleSeq
<1>c. cur # NoCall => ~closed /\ op # "none"
  OBVIOUS
<1>1. CASE Connect
  <2>1. ~closed' /\ holder' = "mine" /\ op' \in {"swd", "jtag"} /\ closed /\ op = "none"
    BY <1>1 DEF Connect, OpenV2, OpenV1, OpenWin, OpenHid, MayOpen
  <2>2. (Threaded => thread' = "wait") /\ (~Threaded => thread' = thread)
    BY <1>1 DEF Connect, OpenV2, OpenV1, OpenWin, OpenHid
  <2>3. UNCHANGED <<backend, rcv, cur, hurt>>
    BY <1>1 DEF Connect, OpenV2, OpenV1, OpenWin, OpenHid
  <2>4. overdue' => faults' > 0
    <3>1. CASE todo = <<>>
      BY <1>1, <1>a, <3>1 DEF Connect
    <3>2. CASE todo # <<>>
      BY <1>1, <1>a, <3>2 DEF Connect, Fault
    <3> QED
      BY <3>1, <3>2
  <2> QED
    BY <2>1, <2>2, <2>3, <2>4
<1>2. CASE Refresh
  BY <1>2 DEF Refresh, MayOpen
<1>3. CASE Write
  BY <1>3 DEF Write
<1>4. CASE WriteRaises \/ ReadForeign \/ ReadExited \/ ReadUnplugged \/ ReadRefused \/ ReadTimesOut
  <2>1. op' = "none" /\ cur' = NoCall /\ ~closed /\ op # "join"
    BY <1>4, <1>c DEF WriteRaises, ReadForeign, ReadExited, ReadUnplugged, ReadRefused,
                     ReadTimesOut, HasAnswer, Raised
  <2>2. UNCHANGED <<backend, closed, holder, stop, thread>>
    BY <1>4 DEF WriteRaises, ReadForeign, ReadExited, ReadUnplugged, ReadRefused, ReadTimesOut
  <2>3. overdue' => faults' > 0
    <3>1. CASE ReadTimesOut
      BY <1>b, <3>1 DEF ReadTimesOut
    <3>2. CASE WriteRaises \/ ReadRefused
      <4>1. overdue' = overdue
        BY <3>2 DEF WriteRaises, ReadRefused
      <4>2. faults' = faults \/ faults' = faults + 1
        BY <3>2 DEF WriteRaises, ReadRefused, Fault
      <4> QED
        BY <1>a, <4>1, <4>2
    <3>3. CASE ReadForeign \/ ReadExited \/ ReadUnplugged
      BY <3>3 DEF ReadForeign, ReadExited, ReadUnplugged
    <3> QED
      BY <1>4, <3>1, <3>2, <3>3
  <2>4. hurt => hurt'
    BY <1>4 DEF WriteRaises, ReadForeign, ReadExited, ReadUnplugged, ReadRefused,
                     ReadTimesOut, Expired
  <2>5. holder = "gone" => wire' = <<>> /\ todo' = <<>>
    BY <1>4, <1>d DEF WriteRaises, ReadForeign, ReadExited, ReadUnplugged, ReadRefused,
                     ReadTimesOut, Orphaned, PoppedStale, HasAnswer, Inbox
  <2>6. backend = "hidapi" => rcv' = rcv
    BY <1>4 DEF WriteRaises, ReadForeign, ReadExited, ReadUnplugged, ReadRefused,
                     ReadTimesOut, PoppedStale
  <2> QED
    BY <2>1, <2>2, <2>3, <2>4, <2>5, <2>6
<1>5. CASE Read \/ RetryInit \/ SwoRefused
  <2>1. cur' = NoCall /\ ~closed /\ op' \notin {"none", "join"}
    BY <1>5, <1>c DEF Read, RetryInit, SwoRefused, HasAnswer
  <2>6. op' \in {"work", "swo", "disable", "swo_off", "close"} => linked'
    BY <1>5 DEF Read, RetryInit, SwoRefused
  <2>2. UNCHANGED <<backend, closed, holder, stop, thread, hurt, overdue>>
    BY <1>5 DEF Read, RetryInit, SwoRefused
  <2>3. overdue' => faults' > 0
    <3>1. faults' = faults \/ faults' = faults + 1
      BY <1>5 DEF Read, RetryInit, SwoRefused, Fault
    <3> QED
      BY <1>a, <2>2, <3>1
  <2>4. holder = "gone" => wire' = <<>> /\ todo' = <<>>
    BY <1>5 DEF Read, RetryInit, SwoRefused, Popped, HasAnswer, Inbox
  <2>5. backend = "hidapi" => rcv' = rcv
    BY <1>5 DEF Read, RetryInit, SwoRefused, Popped
  <2> QED
    BY <2>1, <2>2, <2>3, <2>4, <2>5, <2>6
<1>6. CASE RxAcquire
  BY <1>6 DEF RxAcquire
<1>7. CASE RxRead
  BY <1>7 DEF RxRead
<1>8. CASE RxFails
  <2>1. overdue' => faults' > 0
    BY <1>8, <1>b DEF RxFails
  <2>2. hurt => hurt'
    BY <1>8 DEF RxFails, Expired
  <2> QED
    BY <1>8, <2>1, <2>2 DEF RxFails
<1>9. CASE RxHandler
  BY <1>9 DEF RxHandler
<1>10. CASE OpenDone \/ Defer \/ Work \/ WorkDone \/ SwoStart \/ SwoStop \/ LinkClose
  BY <1>10 DEF OpenDone, Defer, Work, WorkDone, SwoStart, SwoStop, LinkClose
<1>11. CASE SwoStarted \/ SwoLeakEnds
  BY <1>11 DEF SwoStarted, SwoLeakEnds
<1>12. CASE CloseThreaded
  BY <1>12 DEF CloseThreaded, Closing
<1>13. CASE Joined
  BY <1>13 DEF Joined
<1>14. CASE CloseDevice
  BY <1>14 DEF CloseDevice, Closing
<1>15. CASE ProbeAnswers
  BY <1>15 DEF ProbeAnswers
<1>16. CASE AnswerLost
  BY <1>16, <1>a DEF AnswerLost, Fault
<1>17. CASE Unplug \/ Plug
  BY <1>17 DEF Unplug, Plug
<1>18. CASE UNCHANGED vars
  BY <1>18 DEF vars
<1> QED
  BY <1>1, <1>2, <1>3, <1>4, <1>5, <1>6, <1>7, <1>8, <1>9, <1>10, <1>11, <1>12, <1>13, <1>14,
     <1>15, <1>16, <1>17, <1>18
     DEF Next, Opening, Exchange, Receiver, Operations, SwoOperations, Environment

\* A call takes its own answer or none.
LEMMA StepStreamInv ==
  ASSUME DataOK, ControlInv, StreamInv, ~overdue, [Next]_vars
  PROVE  StreamInv'
<1> SUFFICES ASSUME ~overdue' PROVE StreamInv'
  BY DEF StreamInv
<1> USE DEF conn, rx, swo, bus, call, seen
<1> DEFINE Ended(r) == Threaded /\ r # <<>> /\ Head(r) = Exit
           Empty(r, w, t) == r = <<>> /\ w = <<>> /\ t = <<>>
           Coming == /\ cur # NoCall
                     /\ \/ /\ rcv = <<Own>> \/ (rcv = <<Own, Exit>> /\ thread = "ended")
                           /\ wire = <<>> /\ todo = <<>>
                        \/ rcv = <<>> /\ wire = <<Own>> /\ todo = <<>>
                        \/ rcv = <<>> /\ wire = <<>> /\ todo = <<Own>>
\* What an open and a closed interface give to the next state.
<1>1. ASSUME ~closed PROVE Ended(rcv) \/ Empty(rcv, wire, todo) \/ Coming
  BY <1>1 DEF StreamInv
<1>2. ASSUME closed', op' # "none" \/ rcv' = <<>> PROVE StreamInv'
  BY <1>2 DEF StreamInv
<1>3. ASSUME UNCHANGED backend, Ended(rcv'), ~closed' PROVE StreamInv'
  BY <1>3 DEF StreamInv, Threaded
<1>4. ASSUME Empty(rcv', wire', todo') PROVE StreamInv'
  BY <1>4 DEF StreamInv
<1>5. ASSUME closed, op = "none" PROVE rcv = <<>>
  BY <1>5 DEF StreamInv
<1>6. Len(<<Own>>) = 1 /\ Head(<<Own>>) = Own /\ Tail(<<Own>>) = <<>> /\ <<Own>> # <<>>
  OBVIOUS
<1>7. Head(<<Own, Exit>>) = Own /\ Tail(<<Own, Exit>>) = <<Exit>> /\ <<Own, Exit>> # <<>>
  OBVIOUS
<1>8. <<Exit>> # <<>> /\ Head(<<Exit>>) = Exit
  OBVIOUS
<1>9. Stale(<<>>) = <<>> /\ Stale(<<Exit>>) = <<Exit>>
  <2>1. <<>> \in Seq(Answers \union {Exit}) /\ <<Exit>> \in Seq(Answers \union {Exit})
    OBVIOUS
  <2> QED
    BY <2>1, StaleSeq
<1>10. Threaded \/ thread = "none"
  BY DEF ControlInv
<1>11. cur # NoCall => ~closed
  BY DEF ControlInv, Calling
\* An answer that can be read is the one the call waits for, and it is the last.
<1>12. ASSUME HasAnswer
       PROVE  /\ ~closed /\ ~Foreign(Head(Inbox))
              /\ IF backend = "hidapi" THEN rcv = <<>> /\ Tail(wire) = <<>> /\ todo = <<>>
                 ELSE /\ wire = <<>> /\ todo = <<>>
                      /\ Tail(rcv) = <<>> \/ (Tail(rcv) = <<Exit>> /\ Threaded)
  <2>1. cur # NoCall /\ Inbox # <<>> /\ Head(Inbox) # Exit
    BY <1>12 DEF HasAnswer
  <2>2. ~Foreign(Own)
    BY DEF Foreign, Own
  <2>3. Coming
    BY <1>1, <1>11, <2>1 DEF Inbox, Threaded
  <2>4. CASE backend = "hidapi"
    BY <1>6, <1>11, <2>1, <2>2, <2>3, <2>4 DEF Inbox
  <2>5. CASE backend # "hidapi"
    BY <1>6, <1>7, <1>10, <1>11, <2>1, <2>2, <2>3, <2>5 DEF Inbox
  <2> QED
    BY <2>4, <2>5
\* The receive thread puts the None behind what it has received.
<1>13. ASSUME thread # "none", thread # "ended", UNCHANGED <<backend, closed, bus, op, cur>>,
              rcv' = rcv \/ (rcv' = Append(rcv, Exit) /\ thread' = "ended")
       PROVE  StreamInv'
  <2>1. CASE closed
    BY <1>2, <1>10, <1>13, <2>1 DEF ControlInv
  <2>2. CASE ~closed /\ rcv' = rcv
    BY <1>1, <1>13, <2>2 DEF StreamInv, Threaded, Own
  <2>3. CASE ~closed /\ rcv' = Append(rcv, Exit)
    <3>1. Append(<<>>, Exit) = <<Exit>>
      OBVIOUS
    <3>2. Append(<<Own>>, Exit) = <<Own, Exit>>
      <4>1. Own \in {Own, Exit} /\ Exit \in {Own, Exit}
        OBVIOUS
      <4> QED
        BY <4>1, AppendPair
    <3>3. rcv # <<>> => Append(rcv, Exit) # <<>> /\ Head(Append(rcv, Exit)) = Head(rcv)
      BY DEF DataOK
    <3>4. CASE Ended(rcv) \/ rcv = <<>>
      BY <1>3, <1>8, <1>10, <1>13, <2>3, <3>1, <3>3, <3>4
    <3>5. CASE Coming /\ rcv # <<>>
      <4>1. rcv = <<Own>> /\ wire = <<>> /\ todo = <<>> /\ cur # NoCall
        BY <1>13, <3>5
      <4>2. rcv' = <<Own, Exit>> /\ thread' = "ended" /\ Own' = Own
        BY <1>13, <2>3, <3>2, <4>1 DEF Own
      <4> QED
        BY <1>13, <2>3, <4>1, <4>2 DEF StreamInv
    <3> QED
      BY <1>1, <2>3, <3>4, <3>5
  <2> QED
    BY <1>13, <2>1, <2>2, <2>3
\* Nothing on the way is touched.
<1>14. ASSUME UNCHANGED <<backend, closed, rcv, thread, bus, cur>>, closed => op' = op
       PROVE  StreamInv'
  <2>1. CASE closed
    BY <1>5, <1>14, <2>1 DEF StreamInv
  <2>2. CASE ~closed
    BY <1>1, <1>14, <2>2 DEF StreamInv, Threaded, Own
  <2> QED
    BY <2>1, <2>2
<1> HIDE DEF Ended, Empty, Coming
<1>15. CASE Connect
  <2>1. closed /\ op = "none" /\ wire' = <<>> /\ rcv' = rcv
    BY <1>15 DEF Connect, OpenV2, OpenV1, OpenWin, OpenHid, MayOpen
  <2>2. todo = <<>> /\ todo' = todo
    BY <1>15 DEF Connect
  <2> QED
    BY <1>4, <1>5, <2>1, <2>2 DEF Empty
<1>16. CASE Refresh
  BY <1>2, <1>16 DEF Refresh
<1>17. CASE Write
  <2>1. ~closed /\ cur = NoCall
    BY <1>17 DEF Write, Calling, ControlInv
  <2>2. CASE Ended(rcv)
    BY <1>3, <1>17, <2>1, <2>2 DEF Write, Ended
  <2>3. CASE Empty(rcv, wire, todo)
    <3>1. cur' = Head(rest) /\ Head(rest) \in Commands
      BY <1>17 DEF Write, DataOK
    <3>2. cur' # NoCall
      BY <3>1 DEF Commands, Names, NoCall, Command
    <3>3. Own' = [cmd |-> Head(rest).name, mine |-> TRUE]
      BY <3>1 DEF Own
    <3>4. todo' = <<Own'>> /\ wire' = <<>> /\ rcv' = <<>>
      BY <1>17, <2>3, <3>3 DEF Write, Empty
    <3> QED
      BY <3>2, <3>4, <1>17, <2>1 DEF StreamInv, Write
  <2> QED
    BY <1>1, <2>1, <2>2, <2>3 DEF Coming
<1>18. CASE WriteRaises
  <2>1. ~closed /\ cur = NoCall /\ UNCHANGED <<backend, closed, rcv>>
    BY <1>18 DEF WriteRaises, Calling, ControlInv
  <2>2. CASE Ended(rcv)
    BY <1>3, <2>1, <2>2 DEF Ended
  <2>3. CASE Empty(rcv, wire, todo)
    BY <1>4, <1>9, <1>18, <2>1, <2>3 DEF Empty, WriteRaises, Orphaned
  <2> QED
    BY <1>1, <2>1, <2>2, <2>3 DEF Coming
<1>19. CASE Read \/ RetryInit \/ SwoRefused
  <2>1. HasAnswer /\ Popped /\ UNCHANGED <<backend, closed>>
    BY <1>19 DEF Read, RetryInit, SwoRefused
  <2>2. CASE backend = "hidapi"
    BY <1>4, <1>12, <2>1, <2>2 DEF Popped, Empty
  <2>3. CASE backend # "hidapi" /\ Tail(rcv) = <<>>
    BY <1>4, <1>12, <2>1, <2>3 DEF Popped, Empty
  <2>4. CASE backend # "hidapi" /\ Tail(rcv) = <<Exit>> /\ Threaded
    BY <1>3, <1>8, <1>12, <2>1, <2>4 DEF Popped, Ended
  <2> QED
    BY <1>12, <2>1, <2>2, <2>3, <2>4
<1>20. CASE ReadForeign
  BY <1>12, <1>20 DEF ReadForeign
<1>21. CASE ReadRefused
  <2>1. HasAnswer /\ PoppedStale /\ UNCHANGED <<backend, closed>>
    BY <1>21 DEF ReadRefused
  <2>2. CASE backend = "hidapi"
    BY <1>4, <1>9, <1>12, <2>1, <2>2 DEF PoppedStale, Empty
  <2>3. CASE backend # "hidapi" /\ Tail(rcv) = <<>>
    BY <1>4, <1>9, <1>12, <2>1, <2>3 DEF PoppedStale, Orphaned, Empty
  <2>4. CASE backend # "hidapi" /\ Tail(rcv) = <<Exit>> /\ Threaded
    BY <1>3, <1>8, <1>9, <1>12, <2>1, <2>4 DEF PoppedStale, Ended
  <2> QED
    BY <1>12, <2>1, <2>2, <2>3, <2>4
<1>22. CASE ReadExited
  <2>1. ~closed' /\ Ended(rcv') /\ UNCHANGED backend
    BY <1>11, <1>22 DEF ReadExited, Ended
  <2> QED
    BY <1>3, <2>1
<1>23. CASE ReadTimesOut
  <2>1. rcv = <<>> /\ wire = <<>> /\ todo = <<>>
    BY <1>23 DEF ReadTimesOut, Expired
  <2> QED
    BY <1>4, <1>9, <1>23, <2>1 DEF ReadTimesOut, Orphaned, Empty
<1>24. CASE ReadUnplugged
  BY <1>4, <1>24 DEF ReadUnplugged, ControlInv, Empty
<1>25. CASE RxAcquire
  BY <1>13, <1>25 DEF RxAcquire
<1>26. CASE RxRead
  <2>1. CASE closed
    <3>1. op = "join"
      BY <1>10, <1>26, <2>1 DEF RxRead, ControlInv
    <3> QED
      BY <1>2, <1>26, <2>1, <3>1 DEF RxRead
  <2>2. CASE Ended(rcv)
    <3>1. rcv' # <<>> /\ Head(rcv') = Head(rcv)
      <4>1. Head(wire) \in Answers
        BY <1>26 DEF DataOK, RxRead
      <4>2. \A t \in Seq(Answers \union {Exit}) : rcv \o t # <<>> /\ Head(rcv \o t) = Head(rcv)
        BY <2>2 DEF DataOK, Ended
      <4>3. <<Head(wire), Exit>> \in Seq(Answers \union {Exit})
        BY <4>1
      <4>4. Append(rcv, Head(wire)) # <<>> /\ Head(Append(rcv, Head(wire))) = Head(rcv)
        BY <2>2, <4>1 DEF DataOK, Ended
      <4> QED
        BY <1>26, <4>2, <4>3, <4>4 DEF RxRead
    <3> QED
      BY <1>2, <1>3, <1>26, <2>2, <3>1, <2>1 DEF Ended, RxRead
  <2>3. CASE ~closed /\ Coming
    <3>1. rcv = <<>> /\ wire = <<Own>> /\ todo = <<>> /\ cur # NoCall
      BY <1>26, <2>3 DEF RxRead, Coming
    <3>2. <<>> \o <<Own, Exit>> = <<Own, Exit>> /\ Append(<<>>, Own) = <<Own>>
      OBVIOUS
    <3>3. wire' = <<>> /\ todo' = <<>> /\ Own' = Own /\ cur' = cur
      BY <1>6, <1>26, <3>1 DEF RxRead, Own
    <3>4. rcv' = <<Own>> \/ (rcv' = <<Own, Exit>> /\ thread' = "ended")
      BY <1>6, <1>26, <3>1, <3>2 DEF RxRead
    <3> QED
      BY <1>26, <2>3, <3>1, <3>3, <3>4 DEF StreamInv, RxRead
  <2> QED
    BY <1>1, <1>26, <2>1, <2>2, <2>3 DEF RxRead, Empty
<1>27. CASE RxFails
  <2>1. UNCHANGED <<backend, closed, bus, op, cur>> /\ thread = "read"
    BY <1>27 DEF RxFails
  <2> QED
    BY <1>13, <1>27, <2>1 DEF RxFails
<1>28. CASE RxHandler
  <2>1. ~closed /\ ~Threaded /\ wire # <<>>
    BY <1>28 DEF RxHandler, Threaded
  <2>2. Coming
    BY <1>1, <2>1 DEF Ended, Empty
  <2>3. rcv = <<>> /\ wire = <<Own>> /\ todo = <<>> /\ cur # NoCall
    BY <2>1, <2>2 DEF Coming
  <2>4. Append(<<>>, Own) = <<Own>>
    OBVIOUS
  <2>5. rcv' = <<Own>> /\ wire' = <<>> /\ todo' = <<>> /\ Own' = Own /\ cur' = cur
    BY <1>6, <1>28, <2>3, <2>4 DEF RxHandler, Own
  <2> QED
    BY <1>28, <2>1, <2>3, <2>5 DEF StreamInv, RxHandler
<1>29. CASE OpenDone \/ Defer \/ Work \/ WorkDone \/ SwoStart \/ SwoStop \/ LinkClose
  <2>1. UNCHANGED <<backend, closed, rcv, thread, bus, cur>>
    BY <1>29 DEF OpenDone, Defer, Work, WorkDone, SwoStart, SwoStop, LinkClose
  <2>2. ~closed
    BY <1>29 DEF OpenDone, Defer, Work, WorkDone, SwoStart, SwoStop, LinkClose, ControlInv
  <2> QED
    BY <1>14, <2>1, <2>2
<1>30. CASE SwoStarted \/ SwoLeakEnds \/ Plug
  <2>1. UNCHANGED <<backend, closed, rcv, thread, bus, cur>>
    BY <1>30 DEF SwoStarted, SwoLeakEnds, Plug
  <2>2. closed => op' = op
    BY <1>30 DEF SwoStarted, SwoLeakEnds, Plug, ControlInv
  <2> QED
    BY <1>14, <2>1, <2>2
<1>31. CASE CloseThreaded
  BY <1>2, <1>31 DEF CloseThreaded
<1>32. CASE Joined
  BY <1>2, <1>32 DEF Joined, ControlInv
<1>33. CASE CloseDevice
  <2>1. ~closed /\ ~Threaded /\ cur = NoCall
    BY <1>33 DEF CloseDevice, Closing, ControlInv
  <2>2. rcv = <<>>
    BY <1>1, <2>1 DEF Ended, Empty, Coming
  <2> QED
    BY <1>2, <1>33, <2>2 DEF CloseDevice
<1>34. CASE ProbeAnswers
  <2>1. UNCHANGED <<backend, closed, rcv, thread, op, cur>> /\ todo # <<>> /\ todo' = Tail(todo)
    BY <1>34 DEF ProbeAnswers
  <2>2. CASE closed
    BY <1>2, <1>5, <2>1, <2>2
  <2>3. CASE ~closed /\ Ended(rcv)
    BY <1>3, <2>1, <2>3
  <2>4. CASE ~closed /\ Coming
    <3>1. rcv = <<>> /\ wire = <<>> /\ todo = <<Own>> /\ cur # NoCall
      BY <2>1, <2>4 DEF Coming
    <3>2. Append(<<>>, Own) = <<Own>>
      OBVIOUS
    <3>3. holder # "none"
      BY <2>4 DEF ControlInv
    <3>4. wire' = <<Own>> /\ todo' = <<>> /\ Own' = Own
      BY <1>6, <1>34, <2>1, <3>1, <3>2, <3>3 DEF ProbeAnswers, Own
    <3> QED
      BY <2>1, <2>4, <3>1, <3>4 DEF StreamInv
  <2> QED
    BY <1>1, <2>1, <2>2, <2>3, <2>4 DEF Empty
<1>35. CASE AnswerLost
  <2>1. /\ UNCHANGED <<backend, closed, rcv, thread, op, cur, wire>>
        /\ todo # <<>> /\ todo' = Tail(todo)
    BY <1>35 DEF AnswerLost
  <2>2. CASE closed
    BY <1>2, <1>5, <2>1, <2>2
  <2>3. CASE ~closed /\ Ended(rcv)
    BY <1>3, <2>1, <2>3
  <2>4. CASE ~closed /\ Coming
    BY <1>4, <1>6, <2>1, <2>4 DEF Coming, Empty
  <2> QED
    BY <1>1, <2>1, <2>2, <2>3, <2>4 DEF Empty
<1>36. CASE Unplug
  <2>1. UNCHANGED <<backend, closed, rcv, thread, op, cur>> /\ wire' = <<>> /\ todo' = <<>>
    BY <1>36 DEF Unplug
  <2>2. CASE closed
    BY <1>2, <1>5, <2>1, <2>2
  <2>3. CASE ~closed /\ Ended(rcv)
    BY <1>3, <2>1, <2>3
  <2>4. CASE rcv = <<>>
    BY <1>4, <2>1, <2>4 DEF Empty
  <2>5. CASE ~closed /\ Coming /\ rcv # <<>>
    BY <2>1, <2>5 DEF Coming, StreamInv, Own
  <2> QED
    BY <1>1, <2>2, <2>3, <2>4, <2>5 DEF Empty
<1>37. CASE UNCHANGED vars
  BY <1>14, <1>37 DEF vars
<1> QED
  BY <1>15, <1>16, <1>17, <1>18, <1>19, <1>20, <1>21, <1>22, <1>23, <1>24, <1>25, <1>26, <1>27,
     <1>28, <1>29, <1>30, <1>31, <1>32, <1>33, <1>34, <1>35, <1>36, <1>37
     DEF Next, Opening, Exchange, Receiver, Operations, SwoOperations, Environment

\* Permits stand for answers that come.
LEMMA StepPermitInv ==
  ASSUME TypeOK, DataOK, ControlInv, PermitInv, [Next]_vars
  PROVE  PermitInv'
<1> SUFFICES ASSUME Threaded', ~hurt' PROVE IF closed' THEN ClosedPermits' ELSE OpenPermits'
  BY DEF PermitInv
<1> USE DEF conn, rx, swo, bus, call, seen
<1>1. sem \in Nat /\ Len(rcv) \in Nat /\ Len(wire) \in Nat /\ Len(todo) \in Nat
  BY DEF TypeOK, DataOK
<1>2. ASSUME UNCHANGED backend PROVE Threaded
  BY <1>2 DEF Threaded
\* What an open interface and a closed one give to the next state.
<1>3. ASSUME UNCHANGED backend, ~hurt, ~closed PROVE OpenPermits
  BY <1>2, <1>3 DEF PermitInv
<1>4. ASSUME UNCHANGED backend, ~hurt, closed PROVE ClosedPermits
  BY <1>2, <1>4 DEF PermitInv
<1>7. CASE Connect
  <2>1. closed /\ op = "none" /\ ~hurt /\ ~closed' /\ UNCHANGED <<backend, sem, rcv>>
    BY <1>7 DEF Connect, OpenV2, OpenV1, OpenWin, OpenHid, MayOpen
  <2>2. sem = 0 /\ rcv = <<>>
    BY <1>2, <1>4, <2>1 DEF ClosedPermits, ControlInv
  <2>3. thread' = "wait" /\ (backend = "pyusb_v2" => ~stop') /\ wire' = <<>> /\ todo' = todo
    BY <1>2, <1>7, <2>1 DEF Connect, OpenV2, OpenV1, OpenWin, OpenHid, Threaded
  <2> QED
    BY <1>1, <2>1, <2>2, <2>3 DEF OpenPermits, Reading, Awaited
<1>8. CASE Refresh
  BY <1>8 DEF Refresh, ClosedPermits
<1>9. CASE Write
  <2>1. ~closed /\ ~hurt /\ cur = NoCall /\ UNCHANGED <<backend, closed, stop, thread, rcv, wire>>
    BY <1>9 DEF Write, Calling, ControlInv
  <2>2. cur' # NoCall
    <3>1. cur' = Head(rest) /\ Head(rest) \in Commands
      BY <1>9 DEF Write, DataOK
    <3> QED
      BY <3>1 DEF Commands, Names, NoCall, Command
  <2>3. sem' <= sem + 1 /\ sem' \in Nat
    BY <1>1, <1>9, ProbeLinkAssumption DEF Write, Permits
  <2>4. Len(todo') = Len(todo) + 1
    BY <1>9 DEF Write, DataOK
  <2> QED
    BY <1>1, <1>3, <2>1, <2>2, <2>3, <2>4 DEF OpenPermits, Reading, Awaited
<1>10. CASE Read \/ RetryInit \/ SwoRefused \/ ReadForeign \/ ReadRefused
  <2>1. /\ HasAnswer /\ cur' = NoCall /\ ~hurt
        /\ UNCHANGED <<backend, closed, stop, sem, thread>>
    BY <1>10 DEF Read, RetryInit, SwoRefused, ReadForeign, ReadRefused, Raised
  <2>2. ~closed /\ cur # NoCall /\ rcv # <<>>
    BY <1>2, <2>1 DEF HasAnswer, Inbox, ControlInv, Calling, Threaded
  <2>3. sem = 0 /\ thread = "wait" /\ Len(rcv) = 1 /\ (backend = "pyusb_v2" => ~stop)
    <3>1. Len(rcv) # 0
      BY <2>2, EmptySeq DEF DataOK
    <3>2. OpenPermits
      BY <1>3, <2>1, <2>2
    <3>3. sem + Reading + Len(rcv) <= 1 /\ Reading \in {0, 1}
      BY <2>2, <3>2 DEF OpenPermits, Reading, Awaited
    <3>4. sem = 0 /\ Reading = 0 /\ Len(rcv) = 1
      <4>1. \A a, b, c \in Nat : c # 0 /\ a + b + c <= 1 => a = 0 /\ b = 0 /\ c = 1
        OBVIOUS
      <4>2. Reading \in Nat
        BY <3>3
      <4> QED
        BY <1>1, <3>1, <3>3, <4>1, <4>2
    <3> QED
      BY <3>2, <3>4 DEF OpenPermits, Reading
  <2>4. Tail(rcv) = <<>>
    <3>1. Tail(rcv) \in Seq(Answers \union {Exit}) /\ Len(Tail(rcv)) = 0
      BY <2>2, <2>3 DEF DataOK
    <3> QED
      BY <3>1, EmptySeq
  <2>5. rcv' = <<>>
    <3>1. Stale(<<>>) = <<>>
      <4>1. <<>> \in Seq(Answers \union {Exit})
        OBVIOUS
      <4> QED
        BY <4>1, StaleSeq
    <3>2. rcv' = Tail(rcv) \/ rcv' = Stale(Tail(rcv))
      BY <1>2, <1>10, <2>1 DEF Read, RetryInit, SwoRefused, ReadForeign, ReadRefused, Popped,
                              PoppedStale, Threaded
    <3> QED
      BY <2>4, <3>1, <3>2
  <2>6. Len(wire') \in Nat /\ Len(todo') \in Nat
    <3>1. DataOK'
      BY StepDataOK
    <3> QED
      BY <3>1 DEF DataOK
  <2> QED
    BY <2>1, <2>2, <2>3, <2>5, <2>6 DEF OpenPermits, Reading, Awaited
<1>11. CASE ReadExited
  <2>1. UNCHANGED backend /\ ~hurt /\ ~closed /\ rcv # <<>> /\ Head(rcv) = Exit
    BY <1>11 DEF ReadExited, ControlInv, Calling
  <2> QED
    BY <1>3, <2>1 DEF OpenPermits
<1>12. CASE ReadTimesOut \/ ReadUnplugged \/ RxHandler \/ CloseDevice
  BY <1>12 DEF ReadTimesOut, ReadUnplugged, RxHandler, CloseDevice, Threaded
<1>13. CASE WriteRaises \/ AnswerLost \/ Unplug
  BY <1>13 DEF WriteRaises, AnswerLost, Unplug
<1>14. CASE RxAcquire
  <2>1. ~hurt /\ thread = "wait" /\ sem > 0 /\ sem' = sem - 1
        /\ UNCHANGED <<backend, closed, stop, op, cur, wire, todo>>
    BY <1>14 DEF RxAcquire
  <2>2. CASE closed
    <3>1. op = "join" /\ sem <= 1 /\ stop
      BY <1>4, <2>1, <2>2 DEF ClosedPermits, ControlInv
    <3>2. thread' = "ended"
      BY <1>14, <2>2, <3>1 DEF RxAcquire, StopSeen
    <3> QED
      BY <1>1, <2>1, <2>2, <3>1, <3>2 DEF ClosedPermits
  <2>3. CASE ~closed
    <3>1. ~StopSeen
      BY <1>2, <1>3, <2>1, <2>3 DEF OpenPermits, StopSeen, Threaded
    <3>2. thread' = "read" /\ rcv' = rcv
      BY <1>14, <3>1 DEF RxAcquire
    <3> QED
      BY <1>1, <1>3, <2>1, <2>3, <3>2 DEF OpenPermits, Reading, Awaited
  <2> QED
    BY <2>2, <2>3
<1>15. CASE RxRead
  <2>1. ~hurt /\ thread = "read" /\ wire # <<>> /\ wire' = Tail(wire)
        /\ UNCHANGED <<backend, closed, stop, op, cur, sem, todo>>
    BY <1>15 DEF RxRead
  <2>2. ~closed
    BY <1>4, <2>1 DEF ClosedPermits
  <2>3. ~StopSeen
    BY <1>2, <1>3, <2>1, <2>2 DEF OpenPermits, StopSeen, Threaded
  <2>4. thread' = "wait" /\ rcv' = Append(rcv, Head(wire))
    BY <1>15, <2>3 DEF RxRead
  <2>5. Len(wire') = Len(wire) - 1 /\ Len(rcv') = Len(rcv) + 1
    BY <2>1, <2>4 DEF DataOK
  <2>6. sem = 0 /\ rcv = <<>>
    BY <1>1, <1>3, <2>1, <2>2 DEF OpenPermits, Reading, Awaited, DataOK
  <2>7. Head(rcv') # Exit
    <3>1. Head(wire) \in Answers
      BY <2>1 DEF DataOK
    <3>2. Head(wire) # Exit
      BY <3>1 DEF Answers, Names, Exit
    <3>3. Head(rcv') = Head(wire)
      BY <2>4, <2>6
    <3> QED
      BY <3>2, <3>3
  <2> QED
    BY <1>1, <1>3, <2>1, <2>2, <2>4, <2>5, <2>6, <2>7 DEF OpenPermits, Reading, Awaited
<1>16. CASE RxFails
  <2>1. UNCHANGED <<backend, closed>> /\ thread = "read" /\ wire = <<>>
    BY <1>16 DEF RxFails, Expired
  <2>2. todo = <<>> /\ ~hurt
    BY <1>16 DEF RxFails, Expired
  <2>3. ~closed
    BY <1>4, <2>1, <2>2 DEF ClosedPermits
  <2> QED
    BY <1>1, <1>3, <2>1, <2>2, <2>3 DEF OpenPermits, Reading
<1>17. CASE OpenDone \/ Defer \/ Work \/ WorkDone \/ SwoStart \/ SwoStop \/ LinkClose
  <2>1. ~hurt /\ UNCHANGED <<backend, closed, stop, sem, thread, rcv, cur, wire, todo>>
    BY <1>17 DEF OpenDone, Defer, Work, WorkDone, SwoStart, SwoStop, LinkClose
  <2>2. ~closed
    BY <1>17 DEF OpenDone, Defer, Work, WorkDone, SwoStart, SwoStop, LinkClose, ControlInv
  <2> QED
    BY <1>3, <2>1, <2>2 DEF OpenPermits, Reading, Awaited
<1>18. CASE SwoStarted \/ SwoLeakEnds \/ Plug \/ UNCHANGED vars
  <2>1. ~hurt /\ UNCHANGED <<backend, closed, stop, sem, thread, rcv, cur, wire, todo>>
    BY <1>18 DEF SwoStarted, SwoLeakEnds, Plug, vars
  <2>2. closed => op' = op
    BY <1>18 DEF SwoStarted, SwoLeakEnds, Plug, ControlInv, vars
  <2> QED
    BY <1>3, <1>4, <2>1, <2>2 DEF OpenPermits, ClosedPermits, Reading, Awaited
<1>19. CASE CloseThreaded
  <2>1. ~closed /\ ~hurt /\ cur = NoCall /\ closed' /\ op' = "join" /\ UNCHANGED <<backend, thread>>
    BY <1>19 DEF CloseThreaded, Closing, ControlInv
  <2>2. sem = 0 /\ thread = "wait"
    BY <1>1, <1>3, <2>1 DEF OpenPermits, Reading, Awaited
  <2>3. sem' <= 1
    BY <1>19, <2>2 DEF CloseThreaded, Permits
  <2> QED
    BY <2>1, <2>2, <2>3 DEF ClosedPermits
<1>20. CASE Joined
  <2>1. /\ closed /\ closed' /\ ~hurt /\ UNCHANGED <<backend, sem>>
        /\ thread = "ended" /\ thread' = "none"
    BY <1>20 DEF Joined, ControlInv
  <2> QED
    BY <1>4, <2>1 DEF ClosedPermits
<1>21. CASE ProbeAnswers
  <2>1. ~hurt /\ UNCHANGED <<backend, closed, stop, op, sem, thread, rcv, cur>>
    BY <1>21 DEF ProbeAnswers
  <2>2. CASE closed
    BY <1>4, <2>1, <2>2 DEF ClosedPermits
  <2>3. CASE ~closed
    <3>1. holder # "none"
      BY <2>3 DEF ControlInv
    <3>2. Len(wire') = Len(wire) + 1 /\ Len(todo') = Len(todo) - 1
      BY <1>21, <3>1 DEF ProbeAnswers, DataOK
    <3> QED
      BY <1>1, <1>3, <2>1, <2>3, <3>2 DEF OpenPermits, Reading, Awaited
  <2> QED
    BY <2>2, <2>3
<1> QED
  BY <1>7, <1>8, <1>9, <1>10, <1>11, <1>12, <1>13, <1>14, <1>15, <1>16, <1>17, <1>18, <1>19,
     <1>20, <1>21
     DEF Next, Opening, Exchange, Receiver, Operations, SwoOperations, Environment

\* swo_data is cleaned up when the receive thread is joined.
LEMMA StepSwoInv ==
  ASSUME ControlInv, SwoInv, [Next]_vars
  PROVE  SwoInv'
<1> USE DEF SwoInv, swo, call
<1>1. CASE Connect \/ Work \/ SwoStart \/ SwoStop \/ LinkClose \/ OpenDone \/ WorkDone
  BY <1>1 DEF Connect, Work, SwoStart, SwoStop, LinkClose, OpenDone, WorkDone, MayOpen
<1>2. CASE Refresh
  BY <1>2 DEF Refresh
<1>3. CASE Write \/ Read \/ RxAcquire \/ RxRead \/ RxFails \/ RxHandler
  BY <1>3 DEF Write, Read, RxAcquire, RxRead, RxFails, RxHandler
<1>4. CASE WriteRaises \/ ReadForeign \/ ReadRefused \/ ReadExited \/ ReadTimesOut \/ ReadUnplugged
  <2>1. op # "join"
    BY <1>4 DEF WriteRaises, ReadForeign, ReadRefused, ReadExited, ReadTimesOut, ReadUnplugged,
                HasAnswer, ControlInv, Calling
  <2> QED
    BY <1>4, <2>1 DEF WriteRaises, ReadForeign, ReadRefused, ReadExited, ReadTimesOut, ReadUnplugged
<1>5. CASE RetryInit \/ SwoRefused
  <2>1. op # "join"
    BY <1>5 DEF RetryInit, SwoRefused, Identifying
  <2> QED
    BY <1>5, <2>1 DEF RetryInit, SwoRefused
<1>6. CASE SwoStarted
  BY <1>6 DEF SwoStarted
<1>7. CASE SwoLeakEnds
  BY <1>7 DEF SwoLeakEnds
<1>8. CASE CloseThreaded
  BY <1>8 DEF CloseThreaded
<1>9. CASE Joined
  BY <1>9 DEF Joined
<1>10. CASE CloseDevice
  BY <1>10 DEF CloseDevice, Closing
<1>11. CASE Defer \/ ProbeAnswers \/ AnswerLost \/ Unplug \/ Plug
  BY <1>11 DEF Defer, ProbeAnswers, AnswerLost, Unplug, Plug
<1>12. CASE UNCHANGED vars
  BY <1>12 DEF vars
<1> QED
  BY <1>1, <1>2, <1>3, <1>4, <1>5, <1>6, <1>7, <1>8, <1>9, <1>10, <1>11, <1>12
     DEF Next, Opening, Exchange, Receiver, Operations, SwoOperations, Environment

\* No exception without a fault: the answer is there and is the call's own.
LEMMA StepGivenUpInv ==
  ASSUME TypeOK, DataOK, ControlInv, StreamInv, PermitInv, GivenUpInv, [Next]_vars
  PROVE  GivenUpInv'
<1> SUFFICES ASSUME Threaded', ~closed', ~hurt', faults' = 0, ~linked', op' = "none"
             PROVE  FALSE
  BY DEF GivenUpInv
<1> USE DEF conn, rx, swo, bus, call, seen
<1>1. faults \in Nat
  BY DEF TypeOK
<1>2. ~Fault
  BY <1>1 DEF Fault
\* The state before had no fault either, so an operation ends in this step.
<1>3. ASSUME UNCHANGED <<backend, closed, faults, hurt>> PROVE linked \/ op # "none"
  BY <1>3 DEF GivenUpInv, Threaded
<1>4. CASE Connect \/ Refresh
  BY <1>4 DEF Connect, Refresh
<1>5. CASE Write \/ Read \/ RxAcquire \/ RxRead \/ RxHandler
  <2>1. UNCHANGED <<backend, closed, faults, hurt, op, linked>>
    BY <1>5 DEF Write, Read, RxAcquire, RxRead, RxHandler
  <2> QED
    BY <1>3, <2>1
<1>6. CASE WriteRaises \/ AnswerLost \/ Unplug
  BY <1>6 DEF WriteRaises, AnswerLost, Unplug
<1>7. CASE ReadRefused \/ RetryInit \/ SwoRefused
  BY <1>2, <1>7 DEF ReadRefused, RetryInit, SwoRefused
<1>8. CASE ReadTimesOut \/ ReadUnplugged
  BY <1>8 DEF ReadTimesOut, ReadUnplugged, Threaded
<1>9. CASE ReadExited \/ ReadForeign
  <2>1. Threaded /\ ~closed /\ ~hurt /\ cur # NoCall /\ rcv # <<>> /\ faults = 0
    BY <1>9 DEF ReadExited, ReadForeign, HasAnswer, Inbox, Threaded, ControlInv, Calling
  <2>2. Head(rcv) # Exit
    BY <2>1 DEF PermitInv, OpenPermits
  <2>3. ReadForeign
    BY <1>9, <2>2 DEF ReadExited
  <2>4. ~overdue
    BY <2>1 DEF ControlInv
  <2>5. rcv = <<Own>> \/ rcv = <<Own, Exit>>
    BY <2>1, <2>2, <2>4 DEF StreamInv
  <2>6. Head(rcv).cmd = cur.name
    <3>1. Head(<<Own>>) = Own /\ Head(<<Own, Exit>>) = Own /\ Own.cmd = cur.name
      BY DEF Own
    <3> QED
      BY <2>5, <3>1
  <2> QED
    BY <2>1, <2>3, <2>6 DEF ReadForeign, Foreign, Inbox, Threaded
<1>10. CASE RxFails
  <2>1. UNCHANGED <<backend, closed, faults, hurt, op, linked>>
    BY <1>2, <1>10 DEF RxFails, Expired
  <2> QED
    BY <1>3, <2>1
<1>11. CASE OpenDone \/ Defer \/ Work \/ SwoStart \/ SwoStop \/ LinkClose \/ CloseThreaded
  BY <1>11 DEF OpenDone, Defer, Work, SwoStart, SwoStop, LinkClose, CloseThreaded
<1>12. CASE WorkDone \/ SwoStarted
  BY <1>12 DEF WorkDone, SwoStarted, ControlInv
<1>13. CASE SwoLeakEnds \/ ProbeAnswers \/ Plug \/ UNCHANGED vars
  <2>1. UNCHANGED <<backend, closed, faults, hurt, op, linked>>
    BY <1>13 DEF SwoLeakEnds, ProbeAnswers, Plug, vars
  <2> QED
    BY <1>3, <2>1
<1>14. CASE Joined \/ CloseDevice
  BY <1>14 DEF Joined, CloseDevice, ControlInv
<1> QED
  BY <1>4, <1>5, <1>6, <1>7, <1>8, <1>9, <1>10, <1>11, <1>12, <1>13, <1>14
     DEF Next, Opening, Exchange, Receiver, Operations, SwoOperations, Environment

LEMMA IInvHolds == Spec => []IInv
<1>1. IInv /\ [Next]_vars => IInv'
  <2> SUFFICES ASSUME IInv, [Next]_vars PROVE IInv'
    OBVIOUS
  <2>1. TypeOK' /\ DataOK' /\ ControlInv'
    BY StepTypeOK, StepDataOK, StepControlInv DEF IInv
  <2>2. StreamInv'
    <3>1. CASE overdue
      <4>1. overdue'
        BY <3>1 DEF Next, Opening, Exchange, Receiver, Operations, SwoOperations, Environment,
           Connect, Refresh, Write, WriteRaises, Read, ReadForeign, ReadRefused, RetryInit,
           SwoRefused, ReadExited, ReadTimesOut, ReadUnplugged, RxAcquire, RxRead, RxFails,
           RxHandler, OpenDone, Defer, Work, WorkDone, SwoStart, SwoStarted, SwoStop,
           SwoLeakEnds, LinkClose, CloseThreaded, Joined, CloseDevice, ProbeAnswers,
           AnswerLost, Unplug, Plug, Expired, seen, vars
      <4> QED
        BY <4>1 DEF StreamInv
    <3>2. CASE ~overdue
      BY <3>2, StepStreamInv DEF IInv
    <3> QED
      BY <3>1, <3>2
  <2>3. PermitInv' /\ SwoInv' /\ GivenUpInv'
    BY StepPermitInv, StepSwoInv, StepGivenUpInv DEF IInv
  <2> QED
    BY <2>1, <2>2, <2>3 DEF IInv
<1> QED
  BY InitIInv, <1>1, PTL DEF Spec

-----------------------------------------------------------------------------
(* The theorems.                                                           *)

\* Every variable has its type in every reachable state.
THEOREM TypeCorrect == Spec => []TypeOK
<1>1. IInv => TypeOK
  BY DEF IInv
<1> QED
  BY <1>1, IInvHolds, PTL

\* Both threads of an open connection stay of use: the receive thread ends only
\* after a fault, and only a second start of SWO leaves a None in swo_data.
THEOREM ThreadsUsable == Spec => []ThreadsStayUsable
<1>1. IInv => IdleKeepsReceiver
  <2> SUFFICES ASSUME IInv, thread = "ended", ~closed, ~hurt PROVE FALSE
    BY DEF IdleKeepsReceiver
  <2>1. Threaded
    BY DEF IInv, ControlInv
  <2> QED
    BY <2>1 DEF IInv, PermitInv, OpenPermits
<1>2. IInv => SwoStaysReadable
  BY DEF IInv, SwoInv, SwoStaysReadable, SwoReadRaises
<1>3. IInv => ThreadsStayUsable
  BY <1>1, <1>2 DEF ThreadsStayUsable
<1> QED
  BY <1>3, IInvHolds, PTL

\* The assertion at the next open holds: a connection that was given up is
\* closed, unless a fault has hit.
THEOREM GivenUpClosed == Spec => []GivenUpIsClosed
<1>1. IInv => GivenUpIsClosed
  <2> SUFFICES ASSUME IInv, MayOpen, Threaded, ~closed, ~hurt, ~(faults > 0) PROVE FALSE
    BY DEF GivenUpIsClosed
  <2>1. faults = 0
    BY DEF IInv, TypeOK
  <2> QED
    BY <2>1 DEF IInv, GivenUpInv, MayOpen
<1> QED
  BY <1>1, IInvHolds, PTL

\* No answer is taken for the answer to another call, unless a call gave up an
\* answer that was still to come.
THEOREM AnswersAreOwn == Spec => AnswerIsOfThisCall
<1>1. IInv /\ [Next]_vars => [Read => Head(Inbox).mine \/ overdue]_vars
  <2> SUFFICES ASSUME IInv, Read, ~overdue PROVE Head(Inbox).mine
    OBVIOUS
  <2>1. ~closed /\ cur # NoCall /\ Inbox # <<>> /\ Head(Inbox) # Exit
    BY DEF IInv, Read, HasAnswer, ControlInv, Calling
  <2>2. Threaded => Inbox = rcv
    BY DEF Threaded, Inbox
  <2>3. Inbox \in {<<Own>>, <<Own, Exit>>}
    BY <2>1, <2>2 DEF IInv, StreamInv, Inbox
  <2>4. Head(<<Own>>) = Own /\ Head(<<Own, Exit>>) = Own /\ Own.mine
    BY DEF Own
  <2> QED
    BY <2>3, <2>4
<1> QED
  BY <1>1, IInvHolds, PTL DEF Spec, AnswerIsOfThisCall

-----------------------------------------------------------------------------
(* Who may use the connection: LinkTask.                                    *)

\* Who has the connection while the window is open: the task, or the user who
\* holds the button.  A dialog that can read is open during a task only if the
\* task was started from within the download before it.
OwnerInv ==
  window = "open" =>
    /\ busy <=> worker # "none"
    /\ busy => connected
    /\ ~busy => (connected <=> held)
    /\ worker # "none" /\ ui # "main" => reentered
    /\ clash => reentered

WindowInv == WindowTypeOK /\ OwnerInv

LEMMA InitWindow == WindowInit => WindowInv
  BY DEF WindowInit, WindowInv, WindowTypeOK, OwnerInv, Cores

LEMMA StepWindowType ==
  ASSUME WindowTypeOK, [WindowNext]_windowVars
  PROVE  WindowTypeOK'
<1> USE DEF WindowTypeOK, Cores
<1>1. CASE ConnectOn \/ ConnectOff \/ Inspect
  <2>1. clash' \in BOOLEAN
    BY <1>1 DEF ConnectOn, ConnectOff, Inspect, Access
  <2>2. core' \in Cores
    BY <1>1 DEF ConnectOn, ConnectOff, Inspect, Peeked
  <2>3. connected' \in BOOLEAN /\ held' \in BOOLEAN
    BY <1>1 DEF ConnectOn, ConnectOff, Inspect
  <2>4. touched' \subseteq {"reset", "halt"}
    BY <1>1 DEF ConnectOn, ConnectOff, Inspect, PeekHalts
  <2>5. UNCHANGED <<window, busy, run, task, view, reentered>>
    BY <1>1 DEF ConnectOn, ConnectOff, Inspect
  <2> QED
    BY <2>1, <2>2, <2>3, <2>4, <2>5 DEF task, view
<1>2. CASE OpenPeriph \/ FetchPeriph \/ FetchDone \/ ClosePeriph
  <2>1. dialog' \in BOOLEAN /\ ui' \in {"main", "fetch", "svd"}
    BY <1>2 DEF OpenPeriph, FetchPeriph, FetchDone, ClosePeriph
  <2>2. UNCHANGED <<window, connected, held, busy, run, task, core, touched, clash, reentered>>
    BY <1>2 DEF OpenPeriph, FetchPeriph, FetchDone, ClosePeriph
  <2> QED
    BY <2>1, <2>2 DEF task
<1>3. CASE ReadPeriph
  BY <1>3 DEF ReadPeriph, Access, task, view
<1>4. CASE Detect
  <2>1. clash' \in BOOLEAN /\ connected' \in BOOLEAN /\ held' \in BOOLEAN
    BY <1>4 DEF Detect, Access, CloseLink
  <2>2. core' \in Cores
    BY <1>4 DEF Detect, CloseLink, Peeked
  <2>3. touched' \subseteq {"reset", "halt"}
    BY <1>4 DEF Detect, PeekHalts
  <2> QED
    BY <1>4, <2>1, <2>2, <2>3 DEF Detect, task, view
<1>5. CASE ToggleRun
  <2>1. run' \in BOOLEAN
    BY <1>5 DEF ToggleRun
  <2> QED
    BY <1>5, <2>1 DEF ToggleRun, task, view
<1>6. CASE \E k \in {"change", "read"} : StartTask(k)
  <2>1. reentered' \in BOOLEAN
    BY <1>6 DEF StartTask
  <2> QED
    BY <1>6, <2>1 DEF StartTask, view
<1>7. CASE StartFails \/ CloseWindow \/ TaskFinished
  <2>1. clash' \in BOOLEAN /\ connected' \in BOOLEAN /\ held' \in BOOLEAN
    BY <1>7 DEF StartFails, CloseWindow, TaskFinished, Access,
                CloseLink
  <2>2. core' \in Cores
    BY <1>7 DEF StartFails, CloseWindow, TaskFinished, CloseLink
  <2>3. busy' \in BOOLEAN /\ worker' \in {"none", worker} /\ window' \in {"closed", window}
    BY <1>7 DEF StartFails, CloseWindow, TaskFinished, Idle,
                task
  <2>4. UNCHANGED <<run, kind, result, flag, view, touched, reentered>>
    BY <1>7 DEF StartFails, CloseWindow, TaskFinished, task
  <2> QED
    BY <2>1, <2>2, <2>3, <2>4 DEF view
<1>8. CASE WorkerEnds \/ SaveRaises \/ Stop
  <2>1. /\ window' \in {window, "crashed"} /\ worker' \in {"running", "ended", worker}
        /\ result' \in {"ok", "failed", "aborted", result}
        /\ core' \in Cores
    BY <1>8 DEF WorkerEnds, SaveRaises, Stop, task
  <2>3. flag' \in BOOLEAN
    BY <1>8 DEF WorkerEnds, SaveRaises, Stop, task
  <2>2. UNCHANGED <<connected, held, busy, run, kind, view, touched, clash, reentered>>
    BY <1>8 DEF WorkerEnds, SaveRaises, Stop, task
  <2> QED
    BY <2>1, <2>2, <2>3, <1>8 DEF view, WorkerEnds, SaveRaises, Stop
<1>9. CASE UNCHANGED windowVars
  BY <1>9 DEF windowVars
<1> QED
  BY <1>1, <1>2, <1>3, <1>4, <1>5, <1>6, <1>7, <1>8, <1>9 DEF WindowNext, User,
                                                              System

LEMMA StepOwner ==
  ASSUME WindowTypeOK, OwnerInv, [WindowNext]_windowVars
  PROVE  OwnerInv'
<1> USE DEF WindowTypeOK, OwnerInv, task, view
<1>1. CASE ConnectOn
  BY <1>1 DEF ConnectOn, ConnectEnabled, Clickable, Access
<1>2. CASE ConnectOff
  BY <1>2 DEF ConnectOff, ConnectEnabled, Clickable, Access
<1>3. CASE Inspect \/ OpenPeriph \/ FetchPeriph
  BY <1>3 DEF Inspect, OpenPeriph, FetchPeriph, DebugEnabled,
              Clickable, Access
<1>4. CASE FetchDone \/ ReadPeriph \/ ClosePeriph
  BY <1>4 DEF FetchDone, ReadPeriph, ClosePeriph, Access
<1>5. CASE Detect
  BY <1>5 DEF Detect, Clickable, Access, CloseLink, Released
<1>6. CASE ToggleRun \/ Stop
  BY <1>6 DEF ToggleRun, Stop, Clickable
<1>7. CASE \E k \in {"change", "read"} : StartTask(k)
  BY <1>7 DEF StartTask, Clickable
<1>8. CASE StartFails
  BY <1>8 DEF StartFails, Clickable, Access, CloseLink,
              Released
<1>9. CASE CloseWindow \/ SaveRaises
  BY <1>9 DEF CloseWindow, SaveRaises
<1>10. CASE WorkerEnds
  BY <1>10 DEF WorkerEnds
<1>11. CASE TaskFinished
  BY <1>11 DEF TaskFinished, Access, CloseLink, Released,
               Idle
<1>12. CASE UNCHANGED windowVars
  BY <1>12 DEF windowVars
<1> QED
  BY <1>1, <1>2, <1>3, <1>4, <1>5, <1>6, <1>7, <1>8, <1>9, <1>10, <1>11, <1>12
     DEF WindowNext, User, System

LEMMA WindowInvHolds == WindowSpec => []WindowInv
<1>1. WindowInv /\ [WindowNext]_windowVars => WindowInv'
  BY StepWindowType, StepOwner DEF WindowInv
<1> QED
  BY InitWindow, <1>1, PTL DEF WindowSpec

\* Every variable has its type in every reachable state.
THEOREM WindowTypeCorrect == WindowSpec => []WindowTypeOK
<1>1. WindowInv => WindowTypeOK
  BY DEF WindowInv
<1> QED
  BY <1>1, WindowInvHolds, PTL

\* Between tasks the connection is open exactly while the user holds it.
THEOREM RestSafe == WindowSpec => []AtRest
<1>1. WindowInv => AtRest
  BY DEF WindowInv, OwnerInv, AtRest
<1> QED
  BY <1>1, WindowInvHolds, PTL

\* Nothing the user can click closes the link under the worker.
THEOREM WorkerLinked == WindowSpec => []WorkerHasLink
<1>1. WindowInv => WorkerHasLink
  BY DEF WindowInv, OwnerInv, WorkerHasLink
<1> QED
  BY <1>1, WindowInvHolds, PTL

\* Two threads only use the connection at once when the task was started from
\* within a download.
THEOREM ClashBounded == WindowSpec => []ClashOnlyReentered
<1>1. WindowInv => ClashOnlyReentered
  BY DEF WindowInv, OwnerInv, ClashOnlyReentered
<1> QED
  BY <1>1, WindowInvHolds, PTL

\* The end of a task does not drop a held connection.
THEOREM HeldKept == WindowSpec => KeptAfterTask
<1>1. WindowInv /\ [WindowNext]_windowVars =>
        [busy /\ ~busy' /\ held => connected' /\ held']_windowVars
  <2> SUFFICES ASSUME WindowInv, [WindowNext]_windowVars, busy, ~busy', held
               PROVE  connected' /\ held'
    OBVIOUS
  <2>1. TaskFinished
    BY DEF WindowNext, User, System, ConnectOn, ConnectOff,
           Inspect, OpenPeriph, FetchPeriph,
           ReadPeriph, ClosePeriph, Detect, ToggleRun, StartTask,
           StartFails, Stop, CloseWindow, FetchDone,
           WorkerEnds, SaveRaises, windowVars
  <2>2. connected
    BY <2>1 DEF TaskFinished, WindowInv, OwnerInv
  <2> QED
    BY <2>1, <2>2 DEF TaskFinished, CloseLink, Released
<1> QED
  BY <1>1, WindowInvHolds, PTL DEF WindowSpec, KeptAfterTask
=============================================================================
