------------------------------- MODULE ProbeLink -------------------------------
(***************************************************************************)
(* A CMSIS-DAP probe from the main window down to the cable: probe_open     *)
(* and link_close of MCUProg.py, the commands of DAPAccessCMSISDAP, the     *)
(* request and the check of its answer in CMSISDAPProtocol, and the four    *)
(* USB backends with the receive thread two of them have.                   *)
(*                                                                         *)
(* The probe answers every command in order; an answer carries the command  *)
(* it belongs to and whether the call that asked for it still waits         *)
(* (mine).  What a call returns apart from that is DapTransfers' subject.   *)
(***************************************************************************)
EXTENDS Naturals, Sequences

CONSTANTS Backends,     \* the backends the object may use
          Singles,      \* names of the commands sent on their own
          MaxFaults,    \* bound on faults of the cable and the probe
          MaxPermits,   \* bound on read_sem
          Buffers       \* packets the probe holds; the next write fails

AllBackends == {"pyusb_v2", "pyusb", "pywinusb", "hidapi"}

ASSUME ProbeLinkAssumption ==
  /\ Backends \subseteq AllBackends
  /\ Backends # {}
  /\ MaxFaults \in Nat
  /\ MaxPermits \in Nat \ {0}
  /\ Buffers \in Nat \ {0}

VARIABLES
  backend,   \* which Interface class
  plugged,   \* the cable
  holder,    \* who has claimed the USB interface: "none", "mine", "lost" (an
             \* object given up while open), "gone" (mine, and then unplugged)
  closed,    \* Interface.closed
  stop,      \* rx_stop_event
  sem,       \* permits of read_sem
  thread,    \* rx_task: "none", "wait" (acquire), "read" (ep_in.read), "ended"
  rcv,       \* rcv_data
  swoRunning, \* is_swo_running: swo_thread is the thread of the latest start
  swoLeaked, \* an older SWO thread still runs
  swoExit,   \* there is a None in swo_data
  swoTwice,  \* SWO was started while it was running
  wire,      \* answers the host has not read yet
  todo,      \* commands the probe has not answered yet
  op,        \* "none", "swd" or "jtag" (probe_open), "retry", "work", "swo", "disable", "swo_off",
             \* "close", "join"
  rest,      \* commands the operation has still to send
  cur,       \* the command whose answer is awaited, or NoCall
  deferred,  \* a packed write that has not been sent (_crnt_cmd)
  linked,    \* MCUProg.linked
  faults,    \* faults so far
  hurt,      \* a fault has hit this interface object
  overdue    \* a call gave up, or the probe was opened again, while an answer
             \* was still to come

conn == <<holder, closed, stop>>
rx == <<sem, thread, rcv>>
swo == <<swoRunning, swoLeaked, swoExit, swoTwice>>
bus == <<wire, todo>>
call == <<op, rest, cur, deferred, linked>>
seen == <<hurt, overdue>>
vars == <<backend, swo, plugged, conn, rx, bus, call, faults, seen>>

Threaded == backend \in {"pyusb", "pyusb_v2"}
Command(name, checked) == [name |-> name, checked |-> checked]
NoCall == Command("-", FALSE)
Exit == [cmd |-> "exit", mine |-> FALSE]    \* the None that rx_task leaves behind
Stale(s) == [i \in 1..Len(s) |-> [s[i] EXCEPT !.mine = FALSE]]
Fault == faults < MaxFaults /\ faults' = faults + 1

-----------------------------------------------------------------------------
(* The methods of CMSISDAPProtocol.  Each sends one packet and reads one    *)
(* answer; an answer that carries another command's number is a             *)
(* DeviceError, a bad status byte, where one is looked at, a CommandError.   *)

Info == Command("info", FALSE)
Led == Command("led", TRUE)
ConnectPort == Command("connect", TRUE)
Disconnect == Command("disconnect", TRUE)
WriteAbort == Command("abort", TRUE)
ResetTarget == Command("reset_target", TRUE)
TransferConfigure == Command("configure", TRUE)
SwjClock == Command("clock", TRUE)
SwjPins == Command("pins", FALSE)
SwdConfigure == Command("swd", TRUE)
SwjSequence == Command("sequence", TRUE)
JtagSequence == Command("jtag_sequence", TRUE)
JtagConfigure == Command("jtag", TRUE)
JtagIdCode == Command("jtag_idcode", TRUE)
SwoTransport == Command("swo_transport", TRUE)
SwoMode == Command("swo_mode", TRUE)
SwoBaudrate == Command("swo_baudrate", FALSE)
SwoControl == Command("swo_control", TRUE)
SwoStatus == Command("swo_status", FALSE)
SwoData == Command("swo_data", FALSE)
Vendor == Command("vendor", FALSE)
Transfer == Command("transfer", TRUE)      \* DapTransfers' subject

\* The operations of DAPAccessCMSISDAP, as the commands they send in order.
InfoCmds == <<Info, Info, Info, Info>>
ConnectCmds == <<ConnectPort, SwjClock, TransferConfigure>>
SwdCmds == <<SwdConfigure, SwjSequence, SwjSequence, SwjSequence, SwjSequence>>
JtagCmds == <<JtagConfigure, SwjSequence>>
FlushCmds == IF deferred THEN <<Transfer>> ELSE <<>>
ResetCmds == FlushCmds \o <<SwjPins, SwjPins>>
AssertCmds == FlushCmds \o <<SwjPins>>
ClockCmds == FlushCmds \o <<SwjClock>>
DisconnectCmds == FlushCmds \o <<Disconnect>>
SwoOnCmds == <<SwoTransport, SwoMode, SwoBaudrate, SwoControl>>
SwoOffCmds == <<SwoMode, SwoTransport>>
SingleCmds == {Transfer, Info, Led, WriteAbort, ResetTarget, JtagSequence, JtagIdCode,
               SwoStatus, SwoData, Vendor}

SwjCmds(p) == IF p = "jtag" THEN JtagCmds ELSE SwdCmds
\* The rest of probe_open: identification and power-up of the debug port, its
\* last writes when set_clock flushes them, the access port.
InitCmds == <<Transfer, Transfer, Transfer, SwjClock, Transfer>>

\* The answer is to a different command (DeviceError).
Foreign(a) == a.cmd # cur.name

-----------------------------------------------------------------------------
Init ==
  /\ backend \in Backends
  /\ plugged = TRUE
  /\ holder = "none" /\ closed = TRUE /\ stop = FALSE
  /\ sem = 0 /\ thread = "none" /\ rcv = <<>>
  /\ wire = <<>> /\ todo = <<>>
  /\ op = "none" /\ rest = <<>> /\ cur = NoCall /\ deferred = FALSE /\ linked = FALSE
  /\ swoRunning = FALSE /\ swoLeaked = FALSE /\ swoExit = FALSE
  /\ swoTwice = FALSE
  /\ faults = 0
  /\ hurt = FALSE /\ overdue = FALSE

\* An exception leaves the operation.  link_open does not close a probe that is
\* not linked yet, and link_close skips what is left of the closing.
Raised ==
  /\ op' = "none" /\ rest' = <<>> /\ cur' = NoCall
  /\ linked' = (linked /\ op # "close")

\* The commands on their way no longer have a caller.
Orphaned == wire' = Stale(wire) /\ todo' = Stale(todo)

-----------------------------------------------------------------------------
(* probe_open and Interface.open.                                          *)

MayOpen == op = "none" /\ ~linked

\* The claim succeeds only if nobody holds the interface.
Claimable == plugged /\ holder = "none"

OpenV2_NoFlush ==
  /\ backend = "pyusb_v2" /\ closed /\ Claimable
  /\ stop' = FALSE /\ thread' = "wait"
  /\ UNCHANGED <<sem, rcv, wire>>

\* PyUSBv2.open, start_rx: stale answers are read away before the thread starts.
OpenV2 ==
  /\ backend = "pyusb_v2" /\ closed /\ Claimable
  /\ wire' = <<>> /\ stop' = FALSE /\ thread' = "wait"
  /\ UNCHANGED <<sem, rcv>>

\* PyUSB.open
OpenV1 ==
  /\ backend = "pyusb" /\ closed /\ Claimable
  /\ wire' = <<>> /\ thread' = "wait"
  /\ UNCHANGED <<stop, sem, rcv>>

\* PyWinUSB.open: rcv_data keeps what the last connection left in it.
OpenWin ==
  /\ backend = "pywinusb" /\ closed /\ Claimable
  /\ wire' = <<>>
  /\ UNCHANGED <<stop, sem, thread, rcv>>

\* HidApiUSB.open
OpenHid ==
  /\ backend = "hidapi" /\ closed /\ Claimable
  /\ wire' = <<>>
  /\ UNCHANGED <<stop, sem, thread, rcv>>

Connect ==
  /\ MayOpen
  /\ OpenV2 \/ OpenV1 \/ OpenWin \/ OpenHid
  /\ holder' = "mine" /\ closed' = FALSE
  /\ op' \in {"swd", "jtag"}
  /\ rest' = InfoCmds \o <<Info>> \o ConnectCmds \o SwjCmds(op') \o InitCmds
  /\ IF todo = <<>> THEN UNCHANGED <<faults, overdue>> ELSE Fault /\ overdue' = TRUE
  /\ deferred' = FALSE                            \* _init_deferred_buffers
  /\ UNCHANGED <<backend, swo, plugged, todo, cur, linked, hurt>>

\* on_tmrDAP_timeout: every scan makes new interface objects.  An open one
\* whose thread still runs stays alive with its claim; others are collected.
Refresh ==
  /\ MayOpen
  /\ holder' = CASE holder = "lost" -> "lost"
                 [] holder = "mine" /\ Threaded /\ thread # "ended" -> "lost"
                 [] OTHER -> "none"
  /\ closed' = TRUE /\ stop' = FALSE
  /\ sem' = 0 /\ thread' = "none" /\ rcv' = <<>>
  /\ swoRunning' = FALSE /\ swoLeaked' = FALSE /\ swoExit' = FALSE
  /\ swoTwice' = FALSE
  /\ hurt' = FALSE
  /\ deferred' = FALSE
  /\ UNCHANGED <<backend, plugged, bus, op, rest, cur, linked, faults, overdue>>

-----------------------------------------------------------------------------
(* One command: Interface.write, then Interface.read and the checks.       *)

Calling == op \in {"swd", "jtag", "retry", "work", "swo", "disable", "swo_off", "close"}

Full == Len(wire) + Len(todo) >= Buffers

\* release(); more than MaxPermits make no difference to a thread that fails
\* at the first read too many.
Permits == IF Threaded /\ sem < MaxPermits THEN sem + 1 ELSE sem

Write ==
  /\ Calling /\ cur = NoCall /\ rest # <<>>
  /\ holder = "mine" /\ ~Full
  /\ cur' = Head(rest) /\ rest' = Tail(rest)
  /\ deferred' = (deferred /\ Head(rest) # Transfer)
  /\ sem' = Permits
  /\ todo' = Append(todo, [cmd |-> Head(rest).name, mine |-> TRUE])
  /\ UNCHANGED <<backend, swo, plugged, conn, thread, rcv, wire, op, linked, faults, seen>>

\* The permit has been released when the transfer fails.
WriteRaises ==
  /\ Calling /\ cur = NoCall /\ rest # <<>>
  /\ IF holder = "mine" /\ ~Full THEN Fault ELSE UNCHANGED faults
  /\ sem' = Permits
  /\ hurt' = TRUE
  /\ deferred' = (deferred /\ Head(rest) # Transfer)    \* _abort_all_transfers
  /\ Raised /\ Orphaned
  /\ UNCHANGED <<backend, swo, plugged, conn, thread, rcv, overdue>>

\* Where read looks: hidapi asks the driver, the others their own queue.
Inbox == IF backend = "hidapi" THEN wire ELSE rcv

Popped ==
  IF backend = "hidapi" THEN wire' = Tail(wire) /\ UNCHANGED <<rcv, todo>>
  ELSE rcv' = Tail(rcv) /\ UNCHANGED bus

PoppedStale ==
  IF backend = "hidapi" THEN wire' = Stale(Tail(wire)) /\ todo' = Stale(todo) /\ UNCHANGED rcv
  ELSE rcv' = Stale(Tail(rcv)) /\ Orphaned

HasAnswer == cur # NoCall /\ Inbox # <<>> /\ Head(Inbox) # Exit

Read ==
  /\ HasAnswer /\ ~Foreign(Head(Inbox))
  /\ Popped
  /\ cur' = NoCall
  /\ UNCHANGED <<backend, swo, plugged, conn, sem, thread, op, rest, deferred, linked,
                 faults, hurt, overdue>>

ReadForeign ==
  /\ HasAnswer /\ Foreign(Head(Inbox))
  /\ PoppedStale /\ Raised
  /\ UNCHANGED <<backend, swo, plugged, conn, sem, thread, faults, seen, deferred>>

Identifying == op \in {"swd", "jtag"} /\ rest = Tail(InitCmds)

\* The probe reports an error and nobody catches it.
ReadRefused ==
  /\ HasAnswer /\ ~Foreign(Head(Inbox)) /\ cur.checked
  /\ op \in {"swd", "jtag", "retry", "work", "close"} \/ cur = SwoControl
  /\ ~Identifying
  /\ Fault
  /\ PoppedStale /\ Raised
  /\ UNCHANGED <<backend, swo, plugged, conn, sem, thread, hurt, overdue, deferred>>

\* DebugPort.init tries the switching sequence a second time if the first
\* transfer fails.
RetryInit ==
  /\ HasAnswer /\ ~Foreign(Head(Inbox))
  /\ Identifying
  /\ Fault
  /\ Popped
  /\ op' = "retry" /\ cur' = NoCall
  /\ rest' = SwjCmds(op) \o InitCmds
  /\ UNCHANGED <<backend, swo, plugged, conn, sem, thread, deferred, linked, hurt, overdue>>

\* swo_configure and _swo_disable catch a CommandError.  What remains is to
\* disable, and swo_start goes on to swo_control all the same.
SwoRefused ==
  /\ HasAnswer /\ ~Foreign(Head(Inbox)) /\ (cur.checked \/ cur = SwoBaudrate)
  /\ cur # SwoControl
  /\ op \in {"swo", "disable", "swo_off"}
  /\ Fault
  /\ Popped
  /\ cur' = NoCall
  /\ op' = IF op = "swo" THEN "disable" ELSE op
  /\ rest' = CASE op = "swo" -> SwoOffCmds \o <<SwoControl>>
              [] op = "disable" -> <<SwoControl>>
              [] op = "swo_off" -> <<>>
  /\ UNCHANGED <<backend, swo, plugged, conn, sem, thread, deferred, linked, hurt, overdue>>

\* The None at the head stays there: every later read raises as well.
ReadExited ==
  /\ cur # NoCall /\ Threaded /\ rcv # <<>> /\ Head(rcv) = Exit
  /\ Raised /\ Orphaned
  /\ UNCHANGED <<backend, swo, plugged, conn, rx, faults, seen, deferred>>

\* Waiting too long for an answer that was lost, or (a fault) is only late.
Expired ==
  /\ wire = <<>>
  /\ IF todo = <<>> THEN UNCHANGED <<faults, overdue, hurt>>
     ELSE Fault /\ overdue' = TRUE /\ hurt' = TRUE

\* PyWinUSB.read gives up after 20 s.
ReadTimesOut ==
  /\ cur # NoCall /\ backend = "pywinusb" /\ rcv = <<>>
  /\ Expired
  /\ Raised /\ Orphaned
  /\ UNCHANGED <<backend, swo, plugged, conn, rx, deferred>>

\* HidApiUSB.read has no limit; it fails when the device is gone.
ReadUnplugged ==
  /\ cur # NoCall /\ backend = "hidapi" /\ holder = "gone"
  /\ Raised
  /\ UNCHANGED <<backend, swo, plugged, conn, rx, bus, faults, seen, deferred>>

-----------------------------------------------------------------------------
(* rx_task of the two libusb backends; rx_handler of PyWinUSB.             *)

StopSeen == IF backend = "pyusb" THEN closed ELSE stop

RxAcquire_Unasked ==
  /\ thread = "wait"
  /\ sem' = IF sem > 0 THEN sem - 1 ELSE sem
  /\ IF StopSeen THEN thread' = "ended" /\ rcv' = Append(rcv, Exit)
                 ELSE thread' = "read" /\ UNCHANGED rcv
  /\ UNCHANGED <<backend, swo, plugged, conn, bus, call, faults, seen>>

RxAcquire ==
  /\ thread = "wait" /\ sem > 0
  /\ sem' = sem - 1
  /\ IF StopSeen THEN thread' = "ended" /\ rcv' = Append(rcv, Exit)
                 ELSE thread' = "read" /\ UNCHANGED rcv
  /\ UNCHANGED <<backend, swo, plugged, conn, bus, call, faults, seen>>

RxRead ==
  /\ thread = "read" /\ wire # <<>>
  /\ wire' = Tail(wire)
  /\ IF StopSeen THEN thread' = "ended" /\ rcv' = rcv \o <<Head(wire), Exit>>
                 ELSE thread' = "wait" /\ rcv' = Append(rcv, Head(wire))
  /\ UNCHANGED <<backend, swo, plugged, conn, sem, todo, call, faults, seen>>

\* ep_in.read times out after 10 s, or the device is gone.
RxFails ==
  /\ thread = "read"
  /\ Expired
  /\ thread' = "ended" /\ rcv' = Append(rcv, Exit)
  /\ UNCHANGED <<backend, swo, plugged, conn, sem, bus, call>>

RxHandler ==
  /\ backend = "pywinusb" /\ ~closed /\ wire # <<>>
  /\ rcv' = Append(rcv, Head(wire)) /\ wire' = Tail(wire)
  /\ UNCHANGED <<backend, swo, plugged, conn, sem, thread, todo, call, faults, seen>>

-----------------------------------------------------------------------------
(* Operations of an open connection.                                       *)

OpenDone ==
  /\ op \in {"swd", "jtag", "retry"} /\ rest = <<>> /\ cur = NoCall
  /\ op' = "none" /\ linked' = TRUE
  /\ UNCHANGED <<backend, swo, plugged, conn, rx, bus, rest, cur, deferred, faults, seen>>

\* A register write in deferred mode is only packed.
Defer ==
  /\ linked /\ op = "none" /\ ~deferred
  /\ deferred' = TRUE
  /\ UNCHANGED <<backend, swo, plugged, conn, rx, bus, op, rest, cur, linked, faults, seen>>

Work ==
  /\ linked /\ op = "none"
  /\ op' = "work"
  /\ rest' \in {ResetCmds, AssertCmds, ClockCmds, DisconnectCmds}
              \union {<<c>> : c \in {d \in SingleCmds : d.name \in Singles}}
  /\ UNCHANGED <<backend, swo, plugged, conn, rx, bus, cur, deferred, linked, faults, seen>>

WorkDone ==
  /\ op \in {"work", "swo_off"} /\ rest = <<>> /\ cur = NoCall
  /\ op' = "none"
  /\ UNCHANGED <<backend, swo, plugged, conn, rx, bus, rest, cur, deferred, linked, faults, seen>>

\* swo_start of the probe; a second one starts a second thread and forgets the
\* first.
SwoStart ==
  /\ linked /\ op = "none"
  /\ op' = "swo" /\ rest' = SwoOnCmds
  /\ UNCHANGED <<backend, swo, plugged, conn, rx, bus, cur, deferred, linked, faults, seen>>

SwoStarted ==
  /\ op \in {"swo", "disable"} /\ rest = <<>> /\ cur = NoCall
  /\ op' = "none"
  /\ swoRunning' = (backend = "pyusb_v2")
  /\ swoLeaked' = (swoLeaked \/ swoRunning)
  /\ swoTwice' = (swoTwice \/ swoRunning)
  /\ UNCHANGED <<backend, plugged, conn, rx, swoExit, bus, rest, cur, deferred,
                 linked, faults, seen>>

\* swo_stop only disables the probe's side; the thread goes on.
SwoStop ==
  /\ linked /\ op = "none"
  /\ op' = "swo_off" /\ rest' = SwoOffCmds
  /\ UNCHANGED <<backend, swo, plugged, conn, rx, bus, cur, deferred, linked, faults, seen>>

\* read_swo meets the None that a thread left behind.
SwoReadRaises == backend = "pyusb_v2" /\ linked /\ op = "none" /\ swoExit

\* A forgotten thread meets ep_swo = None once the interface is closed.
SwoLeakEnds ==
  /\ swoLeaked /\ closed /\ thread = "none"
  /\ swoLeaked' = FALSE /\ swoExit' = TRUE
  /\ UNCHANGED <<backend, plugged, conn, rx, swoRunning, swoTwice, bus, call,
                 faults, seen>>

\* link_close: perhaps a reset, then DAPAccessCMSISDAP.close flushes.
LinkClose ==
  /\ linked /\ op = "none"
  /\ op' = "close" /\ rest' \in {FlushCmds, <<Transfer>>}
  /\ UNCHANGED <<backend, swo, plugged, conn, rx, bus, cur, deferred, linked, faults, seen>>

Closing == op = "close" /\ rest = <<>> /\ cur = NoCall

CloseThreaded_StaysOpen ==
  /\ Closing /\ Threaded
  /\ closed' = closed /\ stop' = TRUE /\ sem' = Permits
  /\ swoRunning' = FALSE /\ swoExit' = (swoExit \/ swoRunning)
  /\ op' = "join"
  /\ UNCHANGED <<backend, swoLeaked, swoTwice, plugged, holder, thread, rcv, bus,
                 rest, cur, deferred, linked, faults, seen>>

CloseThreaded_NoRelease ==
  /\ Closing /\ Threaded
  /\ closed' = TRUE /\ stop' = TRUE /\ sem' = sem
  /\ swoRunning' = FALSE /\ swoExit' = (swoExit \/ swoRunning)
  /\ op' = "join"
  /\ UNCHANGED <<backend, swoLeaked, swoTwice, plugged, holder, thread, rcv, bus,
                 rest, cur, deferred, linked, faults, seen>>

\* close of the threaded backends, up to thread.join()
CloseThreaded ==
  /\ Closing /\ Threaded
  /\ closed' = TRUE /\ stop' = TRUE /\ sem' = Permits
  /\ swoRunning' = FALSE /\ swoExit' = (swoExit \/ swoRunning)
  /\ op' = "join"
  /\ UNCHANGED <<backend, swoLeaked, swoTwice, plugged, holder, thread, rcv, bus,
                 rest, cur, deferred, linked, faults, seen>>

Joined_KeepsSwo ==
  /\ op = "join" /\ thread = "ended"
  /\ thread' = "none" /\ rcv' = <<>> /\ swoExit' = swoExit
  /\ holder' = "none"
  /\ op' = "none" /\ linked' = FALSE
  /\ UNCHANGED <<backend, swoRunning, swoLeaked, swoTwice, plugged, closed, stop, sem,
                 bus, rest, cur, deferred, faults, seen>>

Joined ==
  /\ op = "join" /\ thread = "ended"
  /\ thread' = "none" /\ rcv' = <<>> /\ swoExit' = FALSE
  /\ holder' = "none"
  /\ op' = "none" /\ linked' = FALSE
  /\ UNCHANGED <<backend, swoRunning, swoLeaked, swoTwice, plugged, closed, stop, sem,
                 bus, rest, cur, deferred, faults, seen>>

CloseDevice ==
  /\ Closing /\ ~Threaded
  /\ closed' = TRUE /\ holder' = "none"
  /\ wire' = <<>>
  /\ op' = "none" /\ linked' = FALSE
  /\ UNCHANGED <<backend, swo, plugged, stop, rx, todo, rest, cur, deferred, faults, seen>>

-----------------------------------------------------------------------------
(* The probe and the cable.                                                *)

ProbeAnswers ==
  /\ todo # <<>>
  /\ wire' = IF holder = "none" THEN wire ELSE Append(wire, Head(todo))
  /\ todo' = Tail(todo)
  /\ UNCHANGED <<backend, swo, plugged, conn, rx, call, faults, seen>>

AnswerLost ==
  /\ todo # <<>> /\ Fault
  /\ todo' = Tail(todo)
  /\ hurt' = TRUE
  /\ UNCHANGED <<backend, swo, plugged, conn, rx, wire, call, overdue>>

Unplug ==
  /\ plugged
  /\ plugged' = FALSE
  /\ wire' = <<>> /\ todo' = <<>>
  /\ holder' = IF holder \in {"mine", "gone"} THEN "gone" ELSE "none"
  /\ hurt' = TRUE
  /\ UNCHANGED <<backend, swo, closed, stop, rx, call, faults, overdue>>

Plug ==
  /\ ~plugged
  /\ plugged' = TRUE
  /\ UNCHANGED <<backend, swo, holder, closed, stop, rx, bus, call, faults, seen>>

-----------------------------------------------------------------------------
Opening == Connect \/ Refresh
Exchange ==
  \/ Write \/ WriteRaises
  \/ Read \/ ReadForeign \/ ReadRefused \/ RetryInit \/ SwoRefused
  \/ ReadExited \/ ReadTimesOut \/ ReadUnplugged
Receiver == RxAcquire \/ RxRead \/ RxFails \/ RxHandler
SwoOperations == SwoStart \/ SwoStarted \/ SwoStop \/ SwoLeakEnds
Operations ==
  \/ OpenDone \/ Defer \/ Work \/ WorkDone \/ SwoOperations
  \/ LinkClose \/ CloseThreaded \/ Joined \/ CloseDevice
Environment == ProbeAnswers \/ AnswerLost \/ Unplug \/ Plug

Next == Opening \/ Exchange \/ Receiver \/ Operations \/ Environment

\* The threads run, a read that has a limit reaches it, and the probe answers
\* what it has received; nothing is asked of the user or of the faults.
Fairness ==
  /\ WF_vars(Exchange)
  /\ WF_vars(Receiver)
  /\ WF_vars(OpenDone \/ WorkDone \/ SwoStarted \/ CloseThreaded \/ Joined \/ CloseDevice)
  /\ WF_vars(ProbeAnswers)

Spec == Init /\ [][Next]_vars /\ Fairness

-----------------------------------------------------------------------------
(* Properties.                                                             *)

TypeOK ==
  /\ backend \in Backends
  /\ {plugged, closed, stop, deferred, linked, hurt, overdue,
      swoRunning, swoLeaked, swoExit, swoTwice}
       \subseteq BOOLEAN
  /\ holder \in {"none", "mine", "lost", "gone"}
  /\ thread \in {"none", "wait", "read", "ended"}
  /\ op \in {"none", "swd", "jtag", "retry", "work", "swo", "disable", "swo_off", "close", "join"}
  /\ sem \in 0..MaxPermits /\ faults \in 0..MaxFaults

\* A call takes the answer to an earlier call only if some call gave up an
\* answer that was still to come: neither refused commands, failed writes,
\* pulled cables, aborted operations nor reopening mix answers up (the check
\* of the command number in every method of CMSISDAPProtocol is not enough).
AnswerIsOfThisCall == [][Read => Head(Inbox).mine \/ overdue]_vars

\* An open connection to which nothing has happened keeps its receive thread
\* however long it idles: permits never exceed the answers to come.
IdleKeepsReceiver == thread = "ended" /\ ~closed => hurt

\* Opening, working and closing come to an end, whatever is lost and wherever
\* the receive thread is blocked; only HidApiUSB.read has no limit.
OperationsEnd == op # "none" ~> (op = "none" \/ (backend = "hidapi" /\ hurt))

\* SWO output can be read until it is closed, and again after every reopening,
\* unless it was started twice: no None is left in swo_data.
SwoStaysReadable == SwoReadRaises => swoTwice

\* Both threads of a connection stay of use for as long as it is open.
ThreadsStayUsable == IdleKeepsReceiver /\ SwoStaysReadable

\* A connection that MCUProg has given up is closed ("assert self.closed is
\* True", at the next open), unless a fault has hit.
GivenUpIsClosed == MayOpen /\ Threaded /\ ~closed => hurt \/ faults > 0
=============================================================================
