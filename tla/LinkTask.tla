------------------------------- MODULE LinkTask -------------------------------
(***************************************************************************)
(* MCUProg.py: the debug connection and who may use it.  The UI thread     *)
(* opens and closes it (link_open, link_close), keeps it while the user    *)
(* holds the Connect button, identifies chips, inspects the target and     *)
(* starts one worker thread (ThreadAsync) that erases, programs or reads   *)
(* over the same connection.  UI handlers run to completion, except that   *)
(* a download pumps the event loop (net_say) with the main window enabled  *)
(* and that dialogs run one of their own with it disabled.                 *)
(*                                                                         *)
(* Every access to the probe may raise.  Only the core's state and the     *)
(* fact that it was reset or halted are kept of the target.                *)
(*                                                                         *)
(* The names that ProbeLink, which has self.linked too, has as well begin   *)
(* with Window or are varied, so that Connection_proofs can extend both.    *)
(***************************************************************************)
EXTENDS Naturals

CONSTANT RiscV   \* the debug mode is one of the RISC-V modes

ASSUME ModeAssumption == RiscV \in BOOLEAN

VARIABLES
  window,     \* the main window: "open", "closed", or the process has died
  connected,  \* self.linked
  held,       \* btnConnect.isChecked(): the user wants to keep the connection
  busy,       \* self.busy
  run,        \* chkRun.isChecked()
  worker,     \* ThreadAsync: "none", "running", "ended" (taskFinished queued)
  kind,       \* whether the running task is a read
  result,     \* how the worker ended
  flag,       \* self.dev.abort
  ui,         \* "main", "fetch": inside a download, "svd": SvdDialog is open
  dialog,     \* SvdDialog got a connection to read from
  core,       \* the target's core: "running" or "halted"
  touched,    \* history: what connecting or identifying did to the program
  clash,      \* history: the UI used the connection under the running worker
  reentered   \* history: the worker was started from within a download

view  == <<ui, dialog>>
task  == <<worker, kind, result, flag>>
windowVars == <<window, connected, held, busy, run, worker, kind, result, flag,
                ui, dialog, core, touched, clash, reentered>>

Cores == {"running", "halted"}

WindowInit ==
  /\ window = "open" /\ connected = FALSE /\ held = FALSE /\ busy = FALSE
  /\ run \in BOOLEAN
  /\ worker = "none" /\ kind = "change" /\ result = "none" /\ flag = FALSE
  /\ ui = "main" /\ dialog = FALSE
  /\ core \in Cores /\ touched = {} /\ clash = FALSE /\ reentered = FALSE

-----------------------------------------------------------------------------
(* The connection.                                                         *)

\* The main window takes clicks unless a dialog is open.
Clickable == window = "open" /\ ui \in {"main", "fetch"}

\* The UI thread uses the connection.
Access == clash' = (clash \/ worker = "running")

\* read_core_type: a RISC-V core is halted to read misa and let go again; an
\* exception in between leaves it halted.  update_debug_state reads it too.
Peeked(c) == IF RiscV THEN {c, "halted"} ELSE {c}
PeekHalts == IF RiscV /\ core = "running" THEN {"halt"} ELSE {}

\* link_close returns at once while the button is down, unless forced.
Released(force) == force \/ ~held

\* Mutant of CloseLink: the button is not popped out by update_debug_state.
CloseLink_KeepsButton(force, lk, c) ==
  IF lk /\ Released(force)
  THEN /\ connected' = FALSE /\ held' = held
       /\ core' \in IF run THEN {"running", c} ELSE {c}
  ELSE /\ connected' = lk /\ held' = held /\ core' = c

\* link_close, on a connection lk and a core c: with chkRun the target is reset and
\* runs (or reset() raises, which is printed), then update_debug_state pops
\* the button out.
CloseLink(force, lk, c) ==
  IF lk /\ Released(force)
  THEN /\ connected' = FALSE /\ held' = FALSE
       /\ core' \in IF run THEN {"running", c} ELSE {c}
  ELSE /\ connected' = lk /\ held' = held /\ core' = c

-----------------------------------------------------------------------------
(* The debug panel.                                                        *)

\* Mutant of ConnectEnabled: the button stays enabled during a task.
ConnectEnabled_Always == TRUE

\* update_debug_state: btnConnect.setEnabled(not busy)
ConnectEnabled == ~busy

\* on_btnConnect_toggled(True): link_open(algo=False) and refresh_regs; if it
\* fails the button comes out again.
ConnectOn ==
  /\ Clickable /\ ConnectEnabled /\ ~held
  /\ Access
  /\ \/ /\ connected' = TRUE /\ held' = TRUE
        /\ core' \in Peeked(core) /\ touched' = PeekHalts
     \/ /\ ~connected
        /\ UNCHANGED <<connected, held, core, touched>>
  /\ UNCHANGED <<window, busy, run, task, view, reentered>>

\* on_btnConnect_toggled(False): the button is up before link_close(force=True).
ConnectOff ==
  /\ Clickable /\ ConnectEnabled /\ held
  /\ Access
  /\ held' = FALSE /\ connected' = FALSE
  /\ core' \in IF run THEN {"running", core} ELSE {core}
  /\ UNCHANGED <<window, busy, run, task, view, touched, reentered>>

\* Mutant of DebugEnabled: the buttons stay enabled during a task.
DebugEnabled_Busy == connected /\ held

\* update_debug_state: when the run control, memory and peripheral buttons
\* are enabled.
DebugEnabled == connected /\ held /\ ~busy

\* Reset, halt, go, step, a memory read or write: they touch the target, or
\* raise, which is shown.
Inspect ==
  /\ Clickable /\ DebugEnabled
  /\ Access
  /\ core' \in Cores
  /\ UNCHANGED <<window, connected, held, busy, run, task, view, touched, reentered>>

\* on_btnPeriph_clicked with the .svd at hand: SvdDialog opens on self.xlk.
OpenPeriph ==
  /\ Clickable /\ DebugEnabled /\ ui = "main"
  /\ ui' = "svd" /\ dialog' = connected
  /\ UNCHANGED <<window, connected, held, busy, run, task, core, touched, clash, reentered>>

\* The .svd has to be downloaded first (fetch_svd): net_say pumps events.
FetchPeriph ==
  /\ Clickable /\ DebugEnabled /\ ui = "main"
  /\ ui' = "fetch"
  /\ UNCHANGED <<window, connected, held, busy, run, task, dialog, core, touched,
                 clash, reentered>>

\* The download returns and the handler goes on with SvdDialog, whatever has
\* become of the connection meanwhile; or it failed.
FetchDone ==
  /\ window = "open" /\ ui = "fetch"
  /\ \/ ui' = "svd" /\ dialog' = connected
     \/ ui' = "main" /\ UNCHANGED dialog
  /\ UNCHANGED <<window, connected, held, busy, run, task, core, touched, clash, reentered>>

\* SvdDialog reads the registers of a peripheral; if the connection has been
\* closed under it the read raises, which is shown in the row.
ReadPeriph ==
  /\ window = "open" /\ ui = "svd" /\ dialog
  /\ Access
  /\ UNCHANGED <<window, connected, held, busy, run, task, view, core, touched, reentered>>

ClosePeriph ==
  /\ window = "open" /\ ui = "svd"
  /\ ui' = "main" /\ dialog' = FALSE
  /\ UNCHANGED <<window, connected, held, busy, run, task, core, touched, clash, reentered>>

-----------------------------------------------------------------------------
(* Identification, settings, probe scan.                                   *)

\* on_btnDetect_clicked (grpTarget is disabled during a task): link_open
\* without algorithm, identify, link_close().
Detect ==
  /\ Clickable /\ ~busy
  /\ Access
  /\ \/ /\ ~connected /\ UNCHANGED <<connected, held, core, touched>>
     \/ \E c \in IF connected THEN {core} ELSE Peeked(core) :
          /\ CloseLink(FALSE, TRUE, c)
          /\ touched' = (IF connected THEN {} ELSE PeekHalts)
                        \cup (IF Released(FALSE) /\ run THEN {"reset"} ELSE {})
  /\ UNCHANGED <<window, busy, run, task, view, reentered>>

ToggleRun ==
  /\ Clickable /\ ~busy
  /\ run' = ~run
  /\ UNCHANGED <<window, connected, held, busy, task, view, core, touched, clash, reentered>>

-----------------------------------------------------------------------------
(* Tasks.                                                                  *)

\* start_task: not while busy; link_open with the algorithm, which resets and
\* halts the core.  set_busy and the new thread follow in the same handler, and
\* the history starts anew.
StartTask(k) ==
  /\ Clickable /\ ~busy
  /\ clash' = FALSE
  /\ connected' = TRUE /\ held' = held
  /\ core' = "halted"
  /\ busy' = TRUE
  /\ worker' = "running" /\ kind' = k /\ result' = "none" /\ flag' = FALSE
  /\ reentered' = (ui = "fetch")
  /\ touched' = {}
  /\ UNCHANGED <<window, run, view>>

\* link_open fails to connect, or fails to load the algorithm into RAM: then
\* the connection is closed whether the button is down or not.
StartFails ==
  /\ Clickable /\ ~busy
  /\ Access
  /\ \/ ~connected /\ UNCHANGED <<connected, held, core>>
     \/ \E c \in Cores : CloseLink(TRUE, TRUE, c)
  /\ UNCHANGED <<window, busy, run, task, view, touched, reentered>>

\* The worker thread ends: ThreadAsync.run emits taskFinished.
WorkerEnds ==
  /\ window = "open" /\ worker = "running"
  /\ worker' = "ended"
  /\ \/ result' \in {"ok", "failed"} /\ core' \in Cores
     \/ flag /\ result' = "aborted" /\ core' \in Cores
  /\ UNCHANGED <<window, connected, held, busy, run, kind, flag, view, touched,
                 clash, reentered>>

\* set_busy(False)
Idle == busy' = FALSE

\* on_task_finished (after the save dialog of on_btnRead_finished): link_close
\* and set_busy(False).  The signal is delivered by any event loop.
TaskFinished ==
  /\ window = "open" /\ worker = "ended"
  /\ Access
  /\ CloseLink(FALSE, connected, core)
  /\ Idle
  /\ worker' = "none"
  /\ UNCHANGED <<window, run, kind, result, flag, view, touched, reentered>>

\* on_btnRead_finished: the file that was chosen cannot be opened; an
\* exception out of a slot ends a PyQt5 program.
SaveRaises ==
  /\ window = "open" /\ worker = "ended" /\ kind = "read" /\ result = "ok"
  /\ window' = "crashed"
  /\ UNCHANGED <<connected, held, busy, run, task, view, core, touched, clash, reentered>>

\* on_btnStop_clicked
Stop ==
  /\ Clickable /\ busy
  /\ flag' = TRUE
  /\ UNCHANGED <<window, connected, held, busy, run, worker, kind, result, view,
                 core, touched, clash, reentered>>

\* closeEvent: asks during a task; then link_close(force=True) in any case.
CloseWindow ==
  /\ Clickable
  /\ window' = "closed"
  /\ Access
  /\ CloseLink(TRUE, connected, core)
  /\ UNCHANGED <<busy, run, task, view, touched, reentered>>

User ==
  \/ ConnectOn \/ ConnectOff \/ Inspect \/ OpenPeriph \/ FetchPeriph
  \/ ReadPeriph \/ ClosePeriph \/ Detect \/ ToggleRun
  \/ \E k \in {"change", "read"} : StartTask(k)
  \/ StartFails \/ Stop \/ CloseWindow

System == FetchDone \/ WorkerEnds \/ TaskFinished \/ SaveRaises

WindowNext == User \/ System

WindowSpec == WindowInit /\ [][WindowNext]_windowVars

-----------------------------------------------------------------------------
(* Properties.                                                             *)

\* Every variable has its type.
WindowTypeOK ==
  /\ window \in {"open", "closed", "crashed"} /\ ui \in {"main", "fetch", "svd"}
  /\ worker \in {"none", "running", "ended"} /\ kind \in {"change", "read"}
  /\ result \in {"none", "ok", "aborted", "failed"}
  /\ core \in Cores /\ touched \subseteq {"reset", "halt"}
  /\ connected \in BOOLEAN /\ held \in BOOLEAN /\ busy \in BOOLEAN /\ run \in BOOLEAN
  /\ flag \in BOOLEAN /\ dialog \in BOOLEAN /\ clash \in BOOLEAN /\ reentered \in BOOLEAN

\* Between tasks the connection is open exactly while the user holds it: no
\* task, identification or failure leaks one, and none is lost with the
\* button still down.
AtRest == window = "open" /\ ~busy => (connected <=> held)

\* A task that is not over has its connection, and the program knows it is
\* busy: nothing the user can click closes the link under the worker.
WorkerHasLink == window = "open" /\ worker # "none" => connected /\ busy

\* While the window is open, two threads only ever use the connection at once
\* when the task was started from within the download of a .svd file.
ClashOnlyReentered == window = "open" /\ clash => reentered

\* README.md:39-40 "Programming still works while connected and the connection
\* is kept afterwards": the end of a task does not drop a held connection.
KeptAfterTask == [][busy /\ ~busy' /\ held => connected' /\ held']_windowVars

\* README.md:99-100 "connects to the target (without downloading the flash
\* algorithm, so nothing on the board is reset or halted)": identification and
\* Connect leave the program alone.
AttachHarmless == touched = {}
=============================================================================
