---------------------------- MODULE DapTransfers ----------------------------
(***************************************************************************)
(* pyocd/probe/pydapaccess/dap_access_cmsis_dap.py: register accesses are  *)
(* packed into commands (_Command), sent to the probe ahead of their       *)
(* responses, at most PacketCount at a time, and the words that come back  *)
(* are handed to the reads (_Transfer) in the order they were started.     *)
(* Deferred mode, as CMSISDAPProbe.open sets it: a write returns before it *)
(* is sent, and its failure is raised by a later call.                     *)
(*                                                                         *)
(* A word of a request is <<id, k>>: the k-th word of request number id.   *)
(* The value a read returns is named by the word that asked for it.        *)
(***************************************************************************)
EXTENDS Integers, Sequences

CONSTANTS
  PacketSize,    \* bytes of a packet in either direction
  PacketCount,   \* packets the probe can hold
  MaxTransfers,  \* 255: the count of a DAP_Transfer command is one byte
  MaxId,         \* bound: requests of a behaviour
  MaxWords       \* bound: words of a request

\* A word fits into an empty packet.
ASSUME PacketAssumption ==
  /\ PacketSize \in Nat /\ PacketSize >= 9
  /\ PacketCount \in Nat \ {0} /\ MaxTransfers \in Nat \ {0}
  /\ MaxId \in Nat /\ MaxWords \in Nat \ {0}

VARIABLES
  reqOf, sizeOf,  \* the request byte and the number of words of each request
  next,           \* the number of the next request
  crnt,           \* _crnt_cmd
  sent,           \* _commands_to_read
  transfers,      \* _transfer_list: the reads that wait for their words
  buf,            \* _command_response_buf
  status, data,   \* _Transfer: waiting, its error or its result
  pc,             \* where the calling thread is
  after,          \* where _send_packet returns to
  cur, rest,      \* the request _write is packing, its words still to pack
  want,           \* the read get_result is waiting for, 0 in a plain flush
  skip,           \* responses _abort_all_transfers still has to read
  probe, out,     \* commands in the probe, responses on their way back
  executed,       \* history: the writes the target has carried out
  owed,           \* history: writes issued since the last exception
  desync          \* history: an exception left responses unread

queue   == <<crnt, sent, transfers, buf, status, data>>
control == <<pc, after, cur, rest, want, skip>>
device  == <<probe, out, executed>>
history == <<owed, desync>>
vars    == <<reqOf, sizeOf, next, queue, control, device, history>>

Ids      == 1 .. MaxId
Requests == {"read", "write", "write2"}
Word     == Ids \X (1 .. MaxWords)
Garbage  == <<0, 0>>
IsRead(r) == r = "read"
WordsOf(id, n) == [k \in 1 .. n |-> <<id, k>>]
Least(a, b) == IF a <= b THEN a ELSE b

-----------------------------------------------------------------------------
(* _Command                                                                *)

Empty == [words |-> <<>>, rc |-> 0, wc |-> 0, block |-> TRUE, req |-> "none"]

\* _get_free_words
FreeWords(c, block, read) ==
  LET send == IF block THEN PacketSize - 5 - 4 * c.wc ELSE PacketSize - 3 - c.rc - 5 * c.wc
      recv == IF block THEN PacketSize - 4 - 4 * c.rc ELSE PacketSize - 3 - 4 * c.rc
  IN IF read THEN (IF block THEN recv \div 4 ELSE Least(send, recv \div 4))
     ELSE IF block THEN send \div 4 ELSE send \div 5

\* DAP_TransferBlock carries one kind of request only.
Uniform(c, r) == c.block /\ c.req \in {"none", r}

\* Mutant of Space: the packet's form is not changed by the new request.
Space_KeepsForm(c, r, n) == Least(n, FreeWords(c, c.block, IsRead(r)))

\* get_request_space: less than 1 when nothing fits.
Space(c, r, n) ==
  LET size == Least(n, FreeWords(c, Uniform(c, r), IsRead(r)))
  IN IF Uniform(c, r) THEN size ELSE Least(size, MaxTransfers - c.wc - c.rc)

Full(c) == \E read \in BOOLEAN : FreeWords(c, c.block, read) = 0

\* _Command.add
Added(c, r, ws) ==
  [words |-> c.words \o ws,
   rc |-> c.rc + (IF IsRead(r) THEN Len(ws) ELSE 0),
   wc |-> c.wc + (IF IsRead(r) THEN 0 ELSE Len(ws)),
   block |-> Uniform(c, r),
   req |-> IF c.req = "none" THEN r ELSE c.req]

\* Mutant of Decoded: the status and the count are not looked at.
Decoded_FormOnly(c, p) == IF p.block # c.block THEN "value" ELSE "ok"

\* decode_data: the form, the status and the count are checked, in this order.
Decoded(c, p) == CASE p.block # c.block   -> "value"
                   [] ~p.ok               -> "transfer"
                   [] p.n # c.rc + c.wc   -> "transfer"
                   [] OTHER               -> "ok"

\* The words of a response are cut out by the command's own read count.
Payload(c, p) ==
  [k \in 1 .. c.rc |-> IF k <= Len(p.data) THEN p.data[k] ELSE Garbage]

-----------------------------------------------------------------------------
(* The calls.                                                              *)

Init ==
  /\ reqOf = [id \in Ids |-> "none"] /\ sizeOf = [id \in Ids |-> 0] /\ next = 1
  /\ crnt = Empty /\ sent = <<>> /\ transfers = <<>> /\ buf = <<>>
  /\ status = [id \in Ids |-> "none"] /\ data = [id \in Ids |-> <<>>]
  /\ pc = "idle" /\ after = "pack" /\ cur = 0 /\ rest = 0 /\ want = 0 /\ skip = 0
  /\ probe = <<>> /\ out = <<>> /\ executed = <<>>
  /\ owed = {} /\ desync = FALSE

\* read_reg, write_reg, reg_read_repeat, reg_write_repeat: _write begins.
Issue(r, n) ==
  /\ pc = "idle" /\ next <= MaxId
  /\ reqOf' = [reqOf EXCEPT ![next] = r] /\ sizeOf' = [sizeOf EXCEPT ![next] = n]
  /\ next' = next + 1
  /\ IF IsRead(r)
     THEN /\ transfers' = Append(transfers, next)
          /\ status' = [status EXCEPT ![next] = "pending"]
          /\ owed' = owed
     ELSE /\ owed' = owed \cup {<<next, k>> : k \in 1 .. n}
          /\ UNCHANGED <<transfers, status>>
  /\ pc' = "pack" /\ cur' = next /\ rest' = n
  /\ UNCHANGED <<crnt, sent, buf, data, after, want, skip, device, desync>>

\* The next words of the request under way.
NextWords(n) == [k \in 1 .. n |-> <<cur, sizeOf[cur] - rest + k>>]

\* _write's loop: what fits is added, a full packet is sent.
Pack ==
  /\ pc = "pack" /\ rest > 0
  /\ LET size == Space(crnt, reqOf[cur], rest)
     IN IF size <= 0
        THEN pc' = "send" /\ after' = "pack" /\ UNCHANGED <<crnt, rest>>
        ELSE /\ crnt' = Added(crnt, reqOf[cur], NextWords(size))
             /\ rest' = rest - size
             /\ pc' = IF Full(crnt') THEN "send" ELSE "pack"
             /\ after' = "pack"
  /\ UNCHANGED <<reqOf, sizeOf, next, sent, transfers, buf, status, data,
                 cur, want, skip, device, history>>

PackDone ==
  /\ pc = "pack" /\ rest = 0
  /\ pc' = "idle"
  /\ UNCHANGED <<reqOf, sizeOf, next, queue, after, cur, rest, want, skip,
                 device, history>>

\* flush: the packet being built is sent, then all responses are read.
Flush ==
  /\ pc = "idle"
  /\ pc' = "send" /\ after' = "drain"
  /\ UNCHANGED <<reqOf, sizeOf, next, queue, cur, rest, want, skip, device, history>>

\* get_result, called at once or through the callback of a deferred read.
Get(id) ==
  /\ pc = "idle" /\ status[id] \in {"pending", "aborted"}
  /\ pc' = "get" /\ want' = id
  /\ UNCHANGED <<reqOf, sizeOf, next, queue, after, cur, rest, skip, device, history>>

\* The result is there.
GetResult ==
  /\ pc = "get" /\ status[want] = "done"
  /\ pc' = "idle" /\ want' = 0
  /\ UNCHANGED <<reqOf, sizeOf, next, queue, after, cur, rest, skip, device, history>>

\* Mutant of NothingLeft: get_result goes on without a packet to wait for.
NothingLeft_Waits == FALSE

\* Nothing is left that could bring the result.
NothingLeft == sent = <<>> /\ crnt.words = <<>>

\* An aborted read never has a result: the assertion fails, and the error that
\* was attached to the read is not raised.
GetAsserts ==
  /\ pc = "get" /\ status[want] # "done" /\ NothingLeft
  /\ pc' = "idle" /\ want' = 0
  /\ UNCHANGED <<reqOf, sizeOf, next, queue, after, cur, rest, skip, device, owed, desync>>

GetFlushes ==
  /\ pc = "get" /\ status[want] # "done" /\ sent = <<>> /\ crnt.words # <<>>
  /\ pc' = "send" /\ after' = "drain"
  /\ UNCHANGED <<reqOf, sizeOf, next, queue, cur, rest, want, skip, device, history>>

\* Mutant of AllRead: the last response is left in the pipe.
AllRead_ButOne == Len(sent) <= 1

\* flush has read all responses.
AllRead == sent = <<>>

Drained ==
  /\ pc = "drain" /\ AllRead
  /\ pc' = IF want = 0 THEN "idle" ELSE "get"
  /\ UNCHANGED <<reqOf, sizeOf, next, queue, after, cur, rest, want, skip,
                 device, history>>

-----------------------------------------------------------------------------
(* _send_packet and _read_packet                                           *)

ProbeFull == Len(sent) >= PacketCount

SendNothing ==
  /\ pc = "send" /\ crnt.words = <<>>
  /\ pc' = after
  /\ UNCHANGED <<reqOf, sizeOf, next, queue, after, cur, rest, want, skip,
                 device, history>>

\* Mutant of NewCommand: the packet that was sent is built on.
NewCommand_Kept == crnt

NewCommand == Empty

Send ==
  /\ pc = "send" /\ crnt.words # <<>> /\ ~ProbeFull
  /\ probe' = Append(probe, crnt) /\ sent' = Append(sent, crnt)
  /\ crnt' = NewCommand /\ pc' = after
  /\ UNCHANGED <<reqOf, sizeOf, next, transfers, buf, status, data, after, cur,
                 rest, want, skip, out, executed, history>>

\* pending_reads of _abort_all_transfers, the failed packet being popped.
Pending == Len(sent) - 1

\* Mutant of AbortedBuf: words of the aborted reads stay in the buffer.
AbortedBuf_Kept == buf

AbortedBuf == <<>>

\* The read _write is packing has not been handed to its caller yet.
Unborn(id) == id = cur /\ pc = "send" /\ after = "pack"

\* _abort_all_transfers: the reads get the exception, every buffer is new, and
\* n responses are still read and thrown away.  The exception is raised.
Abort(n) ==
  /\ status' = [id \in Ids |-> IF \E j \in 1 .. Len(transfers) : transfers[j] = id
                               THEN (IF Unborn(id) THEN "none" ELSE "aborted") ELSE status[id]]
  /\ crnt' = Empty /\ sent' = <<>> /\ transfers' = <<>> /\ buf' = AbortedBuf
  /\ pc' = (IF n > 0 THEN "skip" ELSE "idle")
  /\ skip' = n /\ rest' = 0 /\ want' = 0 /\ owed' = {}
  /\ UNCHANGED <<reqOf, sizeOf, next, data, after, cur>>

\* interface.write raises; the packet may have gone out or not.
SendRaises ==
  /\ pc = "send" /\ crnt.words # <<>> /\ ~ProbeFull
  /\ Abort(0)
  /\ probe' \in {probe, Append(probe, crnt)}
  /\ desync' = (desync \/ probe' # <<>> \/ out # <<>>)
  /\ UNCHANGED <<out, executed>>

\* A response is read before a packet is sent to a full probe, by flush and by
\* get_result.
Reading ==
  /\ sent # <<>>
  /\ \/ pc = "send" /\ crnt.words # <<>> /\ ProbeFull
     \/ pc = "drain"
     \/ pc = "get" /\ status[want] # "done"

\* The number of words the first n waiting reads ask for.
Asked == LET f[n \in 0 .. Len(transfers)] ==
               IF n = 0 THEN 0 ELSE f[n - 1] + sizeOf[transfers[n]]
         IN f

\* The words go to the reads in the order they were started, each read taking
\* all its words at once.
Attach(b) ==
  LET served == {n \in 0 .. Len(transfers) : Asked[n] <= Len(b)}
      m      == CHOOSE n \in served : \A n2 \in served : n2 <= n
      pos(id) == CHOOSE j \in 1 .. m : transfers[j] = id
      got(id) == \E j \in 1 .. m : transfers[j] = id
  IN /\ status' = [id \in Ids |-> IF got(id) THEN "done" ELSE status[id]]
     /\ data' = [id \in Ids |->
                   IF got(id) THEN SubSeq(b, Asked[pos(id) - 1] + 1, Asked[pos(id)])
                   ELSE data[id]]
     /\ transfers' = SubSeq(transfers, m + 1, Len(transfers))
     /\ buf' = SubSeq(b, Asked[m] + 1, Len(b))

Read ==
  /\ Reading /\ out # <<>>
  /\ Decoded(Head(sent), Head(out)) = "ok"
  /\ Attach(buf \o Payload(Head(sent), Head(out)))
  /\ sent' = Tail(sent) /\ out' = Tail(out)
  /\ UNCHANGED <<reqOf, sizeOf, next, crnt, control, probe, executed, history>>

\* The response tells of a failure, or belongs to another kind of command.
\* Only for a transfer error the other responses are read.
ReadFails ==
  /\ Reading /\ out # <<>>
  /\ LET d == Decoded(Head(sent), Head(out))
         n == IF d = "transfer" THEN Pending ELSE 0
     IN /\ d # "ok"
        /\ Abort(n)
        /\ desync' = (desync \/ (d = "value" /\ (probe # <<>> \/ Tail(out) # <<>>)))
  /\ out' = Tail(out)
  /\ UNCHANGED <<probe, executed>>

\* interface.read raises: nothing came within the timeout, though it may yet.
ReadRaises ==
  /\ Reading
  /\ Abort(0)
  /\ desync' = (desync \/ probe # <<>> \/ out # <<>>)
  /\ UNCHANGED device

\* The responses of the aborted packets are read and ignored.
Skip ==
  /\ pc = "skip" /\ out # <<>>
  /\ out' = Tail(out) /\ skip' = skip - 1
  /\ pc' = IF skip = 1 THEN "idle" ELSE "skip"
  /\ UNCHANGED <<reqOf, sizeOf, next, queue, after, cur, rest, want, probe,
                 executed, history>>

SkipRaises ==
  /\ pc = "skip"
  /\ pc' = "idle" /\ skip' = 0 /\ desync' = TRUE
  /\ UNCHANGED <<reqOf, sizeOf, next, queue, after, cur, rest, want, device, owed>>

\* What the calling thread does without an error of the connection.
Works ==
  \/ Pack \/ PackDone \/ GetResult \/ GetAsserts \/ GetFlushes \/ Drained
  \/ SendNothing \/ Send \/ Read \/ ReadFails \/ Skip

Host == Works \/ SendRaises \/ ReadRaises \/ SkipRaises

Caller ==
  \/ \E r \in Requests, n \in 1 .. MaxWords : Issue(r, n)
  \/ Flush
  \/ \E id \in Ids : Get(id)

\* The words of ws that belong to the requests in ids, in their order.
Chosen(ws, ids) ==
  LET f[n \in 0 .. Len(ws)] ==
        IF n = 0 THEN <<>>
        ELSE IF ws[n][1] \in ids THEN Append(f[n - 1], ws[n]) ELSE f[n - 1]
  IN f[Len(ws)]

Reads == {id \in Ids : IsRead(reqOf[id])}

\* The probe carries out a command, all of it or up to a word that fails.
Execute ==
  /\ probe # <<>>
  /\ LET c == Head(probe)
     IN \E k \in 0 .. Len(c.words) :
          LET ws == SubSeq(c.words, 1, k)
          IN /\ executed' = executed \o Chosen(ws, Ids \ Reads)
             /\ out' = Append(out, [block |-> c.block, ok |-> k = Len(c.words), n |-> k,
                                    data |-> Chosen(ws, Reads)])
  /\ probe' = Tail(probe)
  /\ UNCHANGED <<reqOf, sizeOf, next, queue, control, history>>

Next == Host \/ Caller \/ Execute

Spec == Init /\ [][Next]_vars

\* The thread runs on and the probe carries out what it has been given.  No
\* error of the connection is owed: a read of hidapi has no timeout.
FairSpec == Spec /\ WF_vars(Works) /\ WF_vars(Execute)

-----------------------------------------------------------------------------
(* Properties.                                                             *)

\* The bytes of the command and of its response, and the count byte, fit.
Fits(c) ==
  /\ IF c.block THEN 5 + 4 * c.wc <= PacketSize ELSE 3 + c.rc + 5 * c.wc <= PacketSize
  /\ IF c.block THEN 4 + 4 * c.rc <= PacketSize ELSE 3 + 4 * c.rc <= PacketSize
  /\ ~c.block => c.rc + c.wc <= MaxTransfers

\* Whatever mixture of requests is packed, and however a packet changes from a
\* block transfer to single transfers while it is built, the command and its
\* response fit into a packet and the count into its byte.
PacketFits == Fits(crnt) /\ \A j \in 1 .. Len(sent) : Fits(sent[j])

\* The probe is never given more packets than it said it can hold (_send_packet:
\* "This function guarentees that the number of packets ... does not exceed
\* the number supported by the given device"), unless an exception left old
\* responses in the pipe.
WindowKept == ~desync => Len(probe) + Len(out) <= PacketCount

\* A read returns the words the target gave for that very read, through split
\* and merged packets and after transfer errors, unless an exception left old
\* responses in the pipe.
OwnData ==
  ~desync => \A id \in Ids : status[id] = "done" => data[id] = WordsOf(id, sizeOf[id])

\* The words that are packed or sent and whose response has not been read, or
\* that _write still has to pack.
InFlight ==
  (UNION {{c.words[k] : k \in 1 .. Len(c.words)} :
            c \in {crnt} \cup {sent[j] : j \in 1 .. Len(sent)}})
    \cup (IF rest > 0 THEN {<<cur, k>> : k \in sizeOf[cur] - rest + 1 .. sizeOf[cur]} ELSE {})

\* set_deferred_transfer: "To guarantee that previous writes are complete call
\* the flush() function": a write is never lost in silence; it has been carried
\* out, is on its way, or an exception has been raised after it was issued.
NoSilentLoss ==
  ~desync => \A w \in owed : w \in InFlight \/ \E j \in 1 .. Len(executed) : executed[j] = w

\* The target carries out writes in the order they were issued and none twice,
\* whatever was aborted in between.
WritesInOrder ==
  \A j \in 1 .. Len(executed) - 1 :
    LET v == executed[j]  w == executed[j + 1]
    IN v[1] < w[1] \/ (v[1] = w[1] /\ v[2] < w[2])

\* What a deferred write promises: none is lost in silence, none overtaken.
WritesKept == NoSilentLoss /\ WritesInOrder

\* As long as the probe carries out its commands a call comes back, on every
\* backend: whatever was aborted or left unread before, nobody waits for a
\* response that no command will bring, also not the one who asks for an
\* aborted read.
CallReturns == (pc # "idle") ~> (pc = "idle")

\* The call under way, as the code above the queue sees it.
CallNow ==
  CASE pc = "idle"                                     -> [kind |-> "none", id |-> 0]
    [] pc = "skip"                                     -> [kind |-> "raise", id |-> 0]
    [] pc = "pack" \/ (pc = "send" /\ after = "pack")   -> [kind |-> "ask", id |-> cur]
    [] OTHER -> IF want # 0 THEN [kind |-> "get", id |-> want] ELSE [kind |-> "flush", id |-> 0]

Queue == INSTANCE AccessQueue WITH
           Sizes <- 1 .. MaxWords, call <- CallNow, reads <- Reads, size <- sizeOf,
           carried <- executed, spoiled <- desync

\* To the code above, packets, the window, the buffer of responses and the
\* handling of errors are a queue that keeps the promise of AccessQueue: reads are
\* answered in their order with their own words, flush returns when all writes
\* are carried out and no read waits, get_result gives up an aborted read only,
\* and an exception settles everything that was asked for.
KeepsQueue == Queue!QSpec
=============================================================================
