------------------------------- MODULE MemAp --------------------------------
(***************************************************************************)
(* pyocd/coresight/ap.py (MEM_AP), pyocd/coresight/dap.py (DebugPort),     *)
(* pyocd/probe/cmsis_dap_probe.py and pyocd/core/memory_interface.py: how  *)
(* a read or write of bytes becomes accesses of the debug port's           *)
(* registers, and the two registers that are remembered rather than        *)
(* written again: SELECT (_dp_select) and CSW (_csw).                      *)
(*                                                                         *)
(* The transfer queue below (module DapTransfers) is seen from above: an   *)
(* access that was asked for is carried out later, packets end anywhere,   *)
(* a failure drops the rest of its packet while packets sent behind it     *)
(* are still carried out, and the exception is raised in whatever call     *)
(* reads the response.                                                     *)
(*                                                                         *)
(* Data is named by the address it belongs to.                             *)
(***************************************************************************)
EXTENDS Integers, Sequences

CONSTANTS
  PageSize,  \* auto_increment_page_size: TAR is only incremented within a page
  Ranges,    \* bound: the bytes the calls ask for, <<first address, length>>
  MaxQueue,  \* bound: accesses that have been asked for and not carried out
  MaxTrouble \* bound: failures the port did not ask for, and losses of power

ASSUME MemApAssumption ==
  /\ PageSize \in Nat \ {0} /\ PageSize % 4 = 0
  /\ Ranges \subseteq Nat \X Nat
  /\ MaxQueue \in Nat /\ MaxTrouble \in Nat

VARIABLES
  csw, select,      \* _csw and _dp_select: a value, or Unknown
  call,             \* the call: its kind, first address and length
  stage, at, left,  \* block8: the piece to look at next, its address, the bytes left
  todo,             \* the register accesses of the piece that is being carried out
  pc,               \* where the calling thread is
  queue, sent,      \* accesses not carried out yet, and how many of them were sent
  failed,           \* the failure the next response will report, or "none"
  port,             \* the debug port's registers
  got,              \* the bytes the read has brought so far
  due,              \* history: bytes written since the last exception, not carried out
  trouble,          \* counts towards MaxTrouble
  doubt,            \* history: a cache may have been left wrong
  misplaced         \* history: since the last exception an access went to another
                    \* place than was meant

caches   == <<csw, select>>
splitter == <<call, stage, at, left, todo, pc>>
wire     == <<queue, sent, failed, port>>
vars     == <<caches, splitter, wire, got, due, trouble, doubt, misplaced>>

Unknown == -1
Widths  == {1, 2, 4}  \* the value of CSW, as far as it matters: bytes of an access
Least(a, b) == IF a <= b THEN a ELSE b

\* An access: of a register, with its value, or with the width and first byte
\* of the data; "blk" marks the accesses of a block, "n" counts them.
Access(reg, v)          == [reg |-> reg, v |-> v, w |-> 0, n |-> 1, read |-> FALSE, blk |-> FALSE]
Data(v, w, n, read, blk) == [reg |-> "drw", v |-> v, w |-> w, n |-> n, read |-> read, blk |-> blk]
IsAP(a)  == a.reg \in {"csw", "tar", "drw", "apid"}
Bank(a)  == IF a.reg = "apid" THEN 15 ELSE 0
Reads(a) == a.reg \in {"id", "dp", "apid"} \/ a.read

-----------------------------------------------------------------------------
(* The debug port, as ADIv5 defines it.                                    *)

Lost == [sel |-> 0, csw |-> 0, tar |-> 0, up |-> FALSE, sticky |-> FALSE]

\* TAR is incremented by the width, within its page.
Incremented(a, w) == ((a \div PageSize) * PageSize) + ((a + w) % PageSize)

\* The port refuses an access: a sticky error or no power.
Refused(p, a) ==
  \/ IsAP(a) /\ ~p.up
  \/ p.sticky /\ a.reg \notin {"clear", "id", "dp"}

\* What an access does to the port.
After(p, a) ==
  CASE a.reg = "sel"                  -> [p EXCEPT !.sel = a.v]
    [] a.reg = "csw" /\ p.sel = 0     -> [p EXCEPT !.csw = a.v]
    [] a.reg = "tar" /\ p.sel = 0     -> [p EXCEPT !.tar = a.v]
    [] a.reg = "drw" /\ p.sel = 0     -> [p EXCEPT !.tar = Incremented(@, p.csw)]
    [] a.reg = "clear"                -> [p EXCEPT !.sticky = FALSE]
    [] a.reg = "power"                -> [p EXCEPT !.up = TRUE]
    [] OTHER                          -> p

\* The access reaches the register, and with it the bytes, it was meant for.
AsMeant(p, a) ==
  /\ p.sel = Bank(a)
  /\ a.reg = "drw" => p.csw = a.w /\ p.tar = a.v

\* The bytes a read of DRW brings.
Bytes(p, a) == [k \in 1 .. a.w |-> IF p.sel = 0 THEN p.tar + k - 1 ELSE Unknown]

-----------------------------------------------------------------------------
(* The calls: read_memory_block8, write_memory_block8, flush, the reset of *)
(* the probe and xlink's pyocd_reconnect.                                  *)

NoCall == [kind |-> "none", start |-> 0, len |-> 0]

\* The call is over, its local variables are gone.
Ended ==
  /\ call' = NoCall /\ stage' = 1 /\ at' = 0 /\ left' = 0 /\ todo' = <<>> /\ got' = <<>>
  /\ pc' = "idle"

Init ==
  /\ csw = Unknown /\ select = Unknown
  /\ call = NoCall /\ stage = 1 /\ at = 0 /\ left = 0 /\ todo = <<>> /\ pc = "idle"
  /\ queue = <<>> /\ sent = 0 /\ failed = "none"
  /\ port = [Lost EXCEPT !.up = TRUE]
  /\ got = <<>> /\ due = 0 /\ trouble = 0 /\ doubt = FALSE /\ misplaced = FALSE

Begin(kind, start, len) ==
  /\ pc = "idle"
  /\ call' = [kind |-> kind, start |-> start, len |-> len]
  /\ stage' = 1 /\ at' = start /\ left' = len /\ got' = <<>>
  /\ due' = (IF kind = "write" THEN due + len ELSE due)
  /\ UNCHANGED <<csw, wire, trouble, doubt, misplaced>>

Block8(kind, start, len) ==
  /\ Begin(kind, start, len)
  /\ todo' = <<>> /\ pc' = "piece"
  /\ UNCHANGED select

Flush ==
  /\ Begin("flush", 0, 0)
  /\ todo' = <<Access("none", 0)>> /\ pc' = "drain"
  /\ UNCHANGED select

\* CMSISDAPProbe.reset: SELECT is forgotten first, then the queue is flushed.
ProbeReset ==
  /\ Begin("reset", 0, 0)
  /\ select' = Unknown
  /\ todo' = <<Access("none", 0)>> /\ pc' = "drain"

\* dp.init (connect forgets SELECT), dp.power_up_debug and ap.init
Reconnect ==
  /\ Begin("reconnect", 0, 0)
  /\ select' = Unknown
  /\ todo' = <<Access("id", 1), Access("clear", 0),
               Access("sel", 0), Access("power", 0), Access("dp", 0),
               Access("power", 0), Access("sel", 0),
               Access("apid", 0), Access("apid", 0)>>
  /\ pc' = "access"

Call ==
  \/ \E kind \in {"read", "write"}, r \in Ranges : Block8(kind, r[1], r[2])
  \/ Flush \/ ProbeReset \/ Reconnect

-----------------------------------------------------------------------------
(* Splitting: a byte, a halfword, words, a halfword, a byte, each only if  *)
(* the address or the rest asks for it.                                    *)

\* The bytes up to the end of the page.
PageRoom(a) == PageSize - (a % PageSize)

Width(s) == <<1, 2, 4, 2, 1>>[s]

\* Mutant of Taken: a single last byte is forgotten.
Taken_NoTail(s, a, n) ==
  CASE s = 1 -> IF n > 0 /\ a % 2 = 1 THEN 1 ELSE 0
    [] s = 2 -> IF n > 1 /\ a % 4 >= 2 THEN 2 ELSE 0
    [] s = 3 -> IF n >= 4 THEN Least(PageRoom(a), 4 * (n \div 4)) ELSE 0
    [] s = 4 -> IF n > 1 THEN 2 ELSE 0
    [] s = 5 -> IF n > 1 THEN 1 ELSE 0

\* The bytes the piece of stage s takes at address a when n are left; words are
\* taken page by page, so that stage 3 may come several times.
Taken(s, a, n) ==
  CASE s = 1 -> IF n > 0 /\ a % 2 = 1 THEN 1 ELSE 0
    [] s = 2 -> IF n > 1 /\ a % 4 >= 2 THEN 2 ELSE 0
    [] s = 3 -> IF n >= 4 THEN Least(PageRoom(a), 4 * (n \div 4)) ELSE 0
    [] s = 4 -> IF n > 1 THEN 2 ELSE 0
    [] s = 5 -> IF n > 0 THEN 1 ELSE 0

\* _write_memory and _read_memory, or _write_block32 and _read_block32: the
\* width, the address, the data.
Accesses(s, a, n) ==
  LET w == Width(s)  blk == s = 3
  IN <<Access("csw", w), [Access("tar", a) EXCEPT !.blk = blk],
       Data(call.start + call.len - left, w, n \div w, call.kind = "read", blk)>>

Piece ==
  /\ pc = "piece" /\ stage <= 5
  /\ LET n == Taken(stage, at, left)
     IN IF n = 0
        THEN stage' = stage + 1 /\ UNCHANGED <<at, left, todo, pc>>
        ELSE /\ todo' = Accesses(stage, at, n)
             /\ at' = at + n /\ left' = left - n
             /\ stage' = (IF stage = 3 THEN 3 ELSE stage + 1)
             /\ pc' = "access"
  /\ UNCHANGED <<caches, call, wire, got, due, trouble, doubt, misplaced>>

AllPieces ==
  /\ pc = "piece" /\ stage > 5
  /\ pc' = "return"
  /\ UNCHANGED <<caches, call, stage, at, left, todo, wire, got, due, trouble, doubt, misplaced>>

Return ==
  /\ pc = "return" /\ Ended
  /\ UNCHANGED <<caches, wire, due, trouble, doubt, misplaced>>

-----------------------------------------------------------------------------
(* MEM_AP.write_reg, CMSISDAPProbe.write_dp, read_ap, write_ap             *)

\* The register is not written, its value being known.
Cached(a) == (a.reg = "csw" /\ a.v = csw) \/ (a.reg = "sel" /\ a.v = select)

\* SELECT is written before an access to another bank.
Selecting(a) == IF IsAP(a) /\ select # Bank(a) THEN <<Access("sel", Bank(a))>> ELSE <<>>

\* The words of a block are accesses of their own.
Words(a) == [k \in 1 .. a.n |-> [a EXCEPT !.v = a.v + (k - 1) * a.w]]

\* What comes after an access: the next one, the next piece, the end of the call.
Then(rest) ==
  /\ todo' = rest
  /\ pc' = (IF rest # <<>> THEN "access" ELSE IF call.kind \in {"read", "write"} THEN "piece" ELSE "return")

Skip ==
  /\ pc = "access" /\ todo # <<>> /\ Cached(Head(todo))
  /\ Then(Tail(todo))
  /\ UNCHANGED <<caches, call, stage, at, left, wire, got, due, trouble, doubt, misplaced>>

\* The access is asked for; a read goes on to wait for its result.
Ask ==
  /\ pc = "access" /\ todo # <<>> /\ ~Cached(Head(todo))
  /\ LET a == Head(todo)
         q == Selecting(a) \o Words(a)
     IN /\ Len(queue) + Len(q) <= MaxQueue
        /\ queue' = queue \o q
        /\ select' = (IF IsAP(a) THEN Bank(a) ELSE IF a.reg = "sel" THEN a.v ELSE select)
        /\ csw' = (IF a.reg = "csw" THEN a.v ELSE csw)
        /\ IF Reads(a)
           THEN pc' = "drain" /\ UNCHANGED todo
           ELSE Then(Tail(todo))
  /\ UNCHANGED <<call, stage, at, left, sent, failed, port, got, due, trouble, doubt, misplaced>>

\* Mutant of Complete: everything was sent.
Complete_Sent == sent = Len(queue)

\* Everything was carried out, and nothing failed.
Complete == queue = <<>> /\ failed = "none"

\* flush returns, a read has its result.
Drained ==
  /\ pc = "drain" /\ Complete
  /\ Then(Tail(todo))
  /\ UNCHANGED <<caches, call, stage, at, left, wire, got, due, trouble, doubt, misplaced>>

-----------------------------------------------------------------------------
(* Failures                                                                *)

\* A packet goes out: it is full anywhere, and the last one is sent as it is.
\* Packets sent between a failure and its report are seen as sent before it.
Send ==
  /\ failed = "none"
  /\ sent' \in sent + 1 .. Len(queue)
  /\ pc = "access" \/ (pc = "drain" /\ sent' = Len(queue))
  /\ UNCHANGED <<caches, splitter, queue, failed, port, got, due, trouble, doubt, misplaced>>

\* A response that tells of a failure is read: what was not sent is dropped,
\* what was sent is waited for (_abort_all_transfers).
Abort ==
  /\ failed # "none"
  /\ \/ pc = "drain"
     \/ pc = "access" /\ todo # <<>> /\ ~Cached(Head(todo))
  /\ pc' = "raise" /\ queue' = SubSeq(queue, 1, sent)
  /\ UNCHANGED <<caches, call, stage, at, left, todo, sent, failed, port, got,
                 due, trouble, doubt, misplaced>>

\* The call under way forgets CSW when it fails: write_reg for CSW itself,
\* _read_memory and _write_memory, and the data of a block.  Not so TAR of a
\* block, the accesses of the debug port, flush and reset.
Guarded(a) == a.reg \in {"csw", "drw"} \/ (a.reg = "tar" /\ ~a.blk)

\* Mutant of CswAfter: CSW is not forgotten.
CswAfter_Kept(a) == csw

CswAfter(a) == IF Guarded(a) THEN Unknown ELSE csw

\* Mutant of SelectAfter: SELECT is not forgotten.
SelectAfter_Kept(a) == select

\* CMSISDAPProbe forgets SELECT, but in flush.
SelectAfter(a) == IF call.kind = "flush" THEN select ELSE Unknown

\* DebugPort._handle_error: a sticky error is cleared, but not by the probe's reset.
\* The wires are SWD; over JTAG the write that clears goes to CTRL/STAT and leaves
\* out the power requests.
Cleared == IF failed = "fault" /\ call.kind # "reset" THEN <<Access("clear", 0)>> ELSE <<>>

\* The exception reaches the caller, or dp.init, which reads IDCODE once more.
Raise ==
  /\ pc = "raise" /\ queue = <<>>
  /\ LET a == Head(todo)
         retry == a.reg = "id" /\ a.v = 1
     IN /\ csw' = CswAfter(a) /\ select' = SelectAfter(a)
        /\ doubt' = ~Guarded(a) /\ misplaced' = FALSE
        /\ IF retry
           THEN /\ todo' = <<Access("id", 2)>> \o Tail(todo) /\ pc' = "access"
                /\ UNCHANGED <<call, stage, at, left, got>>
           ELSE Ended
  /\ queue' = Cleared /\ failed' = "none" /\ due' = 0
  /\ UNCHANGED <<sent, port, trouble>>

-----------------------------------------------------------------------------
(* The probe and the target                                                *)

\* An access is carried out.
Execute ==
  /\ sent > 0
  /\ LET a == Head(queue)
     IN /\ ~Refused(port, a)
        /\ port' = After(port, a)
        /\ misplaced' = (misplaced \/ (IsAP(a) /\ ~AsMeant(port, a)))
        /\ got' = IF a.reg = "drw" /\ a.read THEN got \o Bytes(port, a) ELSE got
        /\ due' = IF a.reg = "drw" /\ ~a.read THEN due - a.w ELSE due
  /\ queue' = Tail(queue) /\ sent' = sent - 1
  /\ UNCHANGED <<caches, splitter, failed, trouble, doubt>>

\* An access fails, refused by the port or lost on the wires, carried out or not;
\* what is left of its packet is dropped.
Fail ==
  /\ sent > 0
  /\ LET a == Head(queue)
     IN \E error \in {"fault", "other"}, lost \in 1 .. sent :
          /\ IF Refused(port, a)
             THEN error = "fault" /\ UNCHANGED trouble
             ELSE trouble < MaxTrouble /\ trouble' = trouble + 1
          /\ \/ error = "fault" /\ (IsAP(a) \/ Refused(port, a))
                /\ port' = [port EXCEPT !.sticky = TRUE]
             \/ error = "other" /\ port' \in {port, After(port, a)}
          /\ failed' = (IF failed = "none" THEN error ELSE failed)
          /\ queue' = SubSeq(queue, lost + 1, Len(queue)) /\ sent' = sent - lost
  /\ UNCHANGED <<caches, splitter, got, due, doubt, misplaced>>

\* A reset takes the debug port down with it.
PowerLoss ==
  /\ trouble < MaxTrouble /\ trouble' = trouble + 1
  /\ port' = Lost /\ doubt' = TRUE
  /\ UNCHANGED <<caches, splitter, queue, sent, failed, got, due, misplaced>>

Host == Piece \/ AllPieces \/ Return \/ Skip \/ Ask \/ Drained \/ Send \/ Abort \/ Raise

Next == Call \/ Host \/ Execute \/ Fail \/ PowerLoss

Spec == Init /\ [][Next]_vars

-----------------------------------------------------------------------------
(* Properties.                                                             *)

\* What register "reg" will hold when the queue has been carried out is v.
WillBe(reg, now, v) ==
  \/ /\ now = v
     /\ \A j \in 1 .. Len(queue) : queue[j].reg # reg
  \/ \E j \in 1 .. Len(queue) :
       /\ queue[j].reg = reg /\ queue[j].v = v
       /\ \A k \in j + 1 .. Len(queue) : queue[k].reg # reg

\* A write that is left out ("Don't need to write CSW if it's not changing
\* value", "Skip writing DP SELECT register if its value is not changing") is
\* one the port does not need: what is remembered is what the port holds or
\* will hold, through deferred writes, failures and exceptions.  Not after a
\* power loss, or an exception that was raised where a cache is not forgotten
\* (flush, TAR of a block, the debug port's own registers), until the next
\* exception of a memory access.
CachesTrue ==
  ~doubt /\ failed = "none" =>
    /\ csw # Unknown => WillBe("csw", port.csw, csw)
    /\ select # Unknown => WillBe("sel", port.sel, select)

\* An access that goes to another bank, width or address than it was meant for,
\* across widths, pages and registers that are not written again, is never
\* silent: a failure is pending that the next exception tells of (packets sent
\* behind it are still carried out, on whatever it has left of the registers),
\* or a cache is in doubt since an earlier exception.
AccessAsMeant == misplaced => failed # "none" \/ doubt

\* A piece is aligned to its width and does not cross a page ("The transaction
\* must not cross the MEM-AP's auto-increment boundary"), however the bytes
\* asked for lie; the assertions of _read_memory, _write_memory and of the
\* blocks hold.
PiecesFit ==
  pc = "piece" /\ stage <= 5 =>
    LET n == Taken(stage, at, left)
    IN n > 0 => /\ n % Width(stage) = 0 /\ at % Width(stage) = 0
                /\ at \div PageSize = (at + n - 1) \div PageSize

\* read_memory_block8 returns the bytes that were asked for, all of them, in
\* order, when no cache is in doubt.
ReadIsMemory ==
  pc = "return" /\ call.kind = "read" /\ ~doubt =>
    got = [k \in 1 .. call.len |-> call.start + k - 1]

\* "To guarantee that previous writes are complete call the flush() function":
\* when flush returns, every byte written since the last exception is there.
FlushedIsWritten == pc = "return" /\ call.kind = "flush" => due = 0
=============================================================================
