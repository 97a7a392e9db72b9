----------------------------- MODULE AccessQueue -----------------------------
(***************************************************************************)
(* What the queue of deferred register accesses promises the code above    *)
(* it, with no packets, responses or buffers: module MemAp and the debug   *)
(* port build on it, dap_access_cmsis_dap.py implements it (module         *)
(* DapTransfers).                                                          *)
(*                                                                         *)
(* An access is asked for and carried out some time later; a read has its  *)
(* answer later still.  An exception settles every access that was asked   *)
(* for: no read waits any more, and no write is owed.                      *)
(***************************************************************************)
EXTENDS Integers, Sequences

CONSTANTS Ids,    \* the numbers of the requests: an interval of the naturals
          Sizes   \* how many words a request may have

VARIABLES
  call,     \* the call under way: [kind, id]
  next,     \* the number of the next request
  reads,    \* the requests that are reads
  size,     \* the number of words of each request
  status,   \* of each read: pending, done or aborted
  data,     \* the words each read was answered
  carried,  \* the words of the writes the target has carried out
  owed,     \* the words of the writes asked for since the last exception
  spoiled   \* an exception has left responses unread: data may be mixed up

qvars == <<call, next, reads, size, status, data, carried, owed, spoiled>>

NoCall == [kind |-> "none", id |-> 0]
Working == call.kind \in {"ask", "flush", "get"}

QInit ==
  /\ call = NoCall /\ next = 1 /\ reads = {} /\ size = [id \in Ids |-> 0]
  /\ status = [id \in Ids |-> "none"] /\ data = [id \in Ids |-> <<>>]
  /\ carried = <<>> /\ owed = {} /\ spoiled = FALSE

\* A request of n words is asked for.
Ask(n) ==
  /\ call = NoCall /\ next \in Ids
  /\ call' = [kind |-> "ask", id |-> next]
  /\ next' = next + 1 /\ size' = [size EXCEPT ![next] = n]
  /\ UNCHANGED <<data, carried, spoiled>>

AskRead(n) ==
  /\ Ask(n)
  /\ reads' = reads \union {next} /\ status' = [status EXCEPT ![next] = "pending"]
  /\ UNCHANGED owed

AskWrite(n) ==
  /\ Ask(n)
  /\ owed' = owed \union {<<next, k>> : k \in 1..n}
  /\ UNCHANGED <<reads, status>>

StartFlush ==
  /\ call = NoCall
  /\ call' = [kind |-> "flush", id |-> 0]
  /\ UNCHANGED <<next, reads, size, status, data, carried, owed, spoiled>>

\* The result of a read is asked for.
StartGet(id) ==
  /\ call = NoCall /\ status[id] \in {"pending", "aborted"}
  /\ call' = [kind |-> "get", id |-> id]
  /\ UNCHANGED <<next, reads, size, status, data, carried, owed, spoiled>>

Precedes(v, w) == v[1] < w[1] \/ (v[1] = w[1] /\ v[2] < w[2])

\* A word of a write that was asked for.
IsWrite(w) == w[1] \in (1..next - 1) \ reads /\ w[2] \in 1..size[w[1]]

\* The target carries out some writes, at any time: none twice, and in the
\* order they were asked for.
CarryOut ==
  /\ Len(carried) <= Len(carried')
  /\ \A j \in 1..Len(carried) : carried'[j] = carried[j]
  /\ \A i, j \in 1..Len(carried') : i < j => Precedes(carried'[i], carried'[j])
  /\ \A j \in 1..Len(carried') : IsWrite(carried'[j])
  /\ UNCHANGED <<call, next, reads, size, status, data, owed, spoiled>>

\* Reads get their answers during a call, in the order they were asked for.
Answer ==
  /\ Working
  /\ \/ spoiled
     \/ \E served \in SUBSET {id \in Ids : status[id] = "pending"} :
          /\ \A id \in served, other \in Ids : status[other] = "pending" /\ other < id => other \in served
          /\ status' = [id \in Ids |-> IF id \in served THEN "done" ELSE status[id]]
          /\ data' = [id \in Ids |-> IF id \in served THEN [k \in 1..size[id] |-> <<id, k>>] ELSE data[id]]
  /\ UNCHANGED <<call, next, reads, size, carried, owed, spoiled>>

Over == call' = NoCall /\ UNCHANGED <<next, reads, size, status, data, carried, owed>>

\* A request has been taken up.
Asked ==
  /\ call.kind = "ask"
  /\ Over /\ UNCHANGED spoiled

\* flush: what was owed has been carried out, no read waits.
Flushed ==
  /\ call.kind = "flush"
  /\ \/ spoiled
     \/ /\ \A w \in owed : \E j \in 1..Len(carried) : carried[j] = w
        /\ \A id \in Ids : status[id] # "pending"
  /\ Over /\ UNCHANGED spoiled

\* The result is returned.  Asking for that of an aborted read is an error; a
\* read that waits is never given up.
Got ==
  /\ call.kind = "get"
  /\ spoiled \/ status[call.id] \in {"done", "aborted"}
  /\ Over /\ UNCHANGED spoiled

\* An exception: the read that is being asked for is not known to its caller
\* yet.
Raise ==
  /\ Working
  /\ call' \in {NoCall, [kind |-> "raise", id |-> 0]}
  /\ \/ spoiled
     \/ status' = [id \in Ids |->
                     IF status[id] # "pending" THEN status[id]
                     ELSE IF call = [kind |-> "ask", id |-> id] THEN "none" ELSE "aborted"]
  /\ owed' = {} /\ spoiled' \in {spoiled, TRUE}
  /\ UNCHANGED <<next, reads, size, data, carried>>

Raised ==
  /\ call.kind = "raise"
  /\ Over /\ spoiled' \in {spoiled, TRUE}

QNext ==
  \/ \E n \in Sizes : AskRead(n) \/ AskWrite(n)
  \/ StartFlush \/ (\E id \in Ids : StartGet(id))
  \/ CarryOut \/ Answer \/ Asked \/ Flushed \/ Got \/ Raise \/ Raised

QSpec == QInit /\ [][QNext]_qvars
=============================================================================
