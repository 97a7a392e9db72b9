-------------------------- MODULE PackFetch_proofs --------------------------
(***************************************************************************)
(* Proofs about cmsispack.py for every number of packs, servers, attempts, *)
(* calls and faults: the files used are there, and files are kept.         *)
(***************************************************************************)
EXTENDS PackFetch, SequenceTheorems, TLAPS

Pcs == {"pdsc", "list", "pdscIndex", "pdscGet", "parse", "exists", "packIndex", "size",
        "tail", "whole", "directory", "header", "data", "write", "add", "ask", "alert",
        "absent"}
Certs == Hosts \union {NoHost}
Todo == Hosts \X Int

Calls == [kind : Kinds, pack : Packs, dialog : BOOLEAN, attempt : {1, 2}, pc : Pcs,
          todo : Seq(Todo), cert : Certs, tries : Nat, got : {"all", "short"},
          overlapped : BOOLEAN]

Contents == (Packs \union {"user"}) \X {"all", "torn"}

DiskOK ==
  /\ latest \in [Packs -> Int] /\ index \in [Packs -> Int] /\ pdsc \in [Packs -> Int]
  /\ file \in [Files -> Contents \union {NoFile}]

\* Where a call of grab_algorithm has found no file and not yet written one.
Fetching == {"packIndex", "write"} \union ZipPcs

\* What a call may rely on: try_sources has a source left, what is written is
\* whole, what is noted in devices.txt is there, and what is being fetched was
\* not there, unless another call came in between.
CallOK(c, files) ==
  /\ c.pc \in ZipPcs \union {"pdscGet"} => c.todo # <<>>
  /\ c.pc = "write" => c.got = "all"
  /\ c.pc = "add" => files[Path(c)] # NoFile
  /\ c.pc \in Fetching /\ ~c.overlapped => files[Path(c)] = NoFile

StackOK ==
  /\ stack \in Seq(Calls)
  /\ \A i \in 1 .. Len(stack) :
       /\ CallOK(stack[i], file)
       /\ i < Len(stack) => stack[i].overlapped

EntriesOK == \A e \in entries : e[2] \in Files /\ file[e[2]] # NoFile

\* The inductive invariant.  Only the last call of the stack goes on, and the
\* others have been overlapped by it, so a write of the last one can take no
\* file from under a call that has looked for it and relies on its absence.
IInv == DiskOK /\ StackOK /\ EntriesOK

\* Files may come, none may go.
NoneLost == \A n \in Files : file[n] # NoFile => file'[n] # NoFile

LEMMA PathInFiles == ASSUME NEW c \in Calls PROVE Path(c) \in Files
BY DEF Path, Files, Algos, Calls

LEMMA ContentIsNoAbsence == ASSUME NEW x \in Contents PROVE x # NoFile
BY DEF Contents, NoFile

LEMMA TopCall ==
  ASSUME StackOK, stack # <<>>
  PROVE  /\ Len(stack) \in Nat \ {0} /\ f = stack[Len(stack)]
         /\ f \in Calls /\ CallOK(f, file)
BY DEF StackOK, f

\* The call on top may become any other that is right.
LEMMA BecomesOK ==
  ASSUME StackOK, stack # <<>>, NoneLost, NEW g \in Calls, CallOK(g, file'), Becomes(g)
  PROVE  StackOK'
<1>1. Len(stack) \in Nat \ {0}
  BY TopCall
<1>2. stack' \in Seq(Calls) /\ Len(stack') = Len(stack)
  BY <1>1 DEF StackOK, Becomes
<1>3. ASSUME NEW i \in 1 .. Len(stack)
      PROVE  CallOK(stack'[i], file') /\ (i < Len(stack) => stack'[i].overlapped)
  <2>1. CASE i = Len(stack)
    BY <1>1, <2>1 DEF StackOK, Becomes
  <2>2. CASE i # Len(stack)
    <3>1. stack'[i] = stack[i] /\ stack[i].overlapped /\ CallOK(stack[i], file)
      BY <1>1, <2>2 DEF StackOK, Becomes
    <3>2. stack[i] \in Calls
      BY <1>1 DEF StackOK
    <3> QED
      BY <3>1, <3>2, PathInFiles DEF CallOK, NoneLost
  <2> QED
    BY <2>1, <2>2
<1> QED
  BY <1>2, <1>3 DEF StackOK

LEMMA EndsOK ==
  ASSUME StackOK, stack # <<>>, NoneLost, Ends
  PROVE  StackOK'
<1>1. Len(stack) \in Nat \ {0}
  BY TopCall
<1>2. /\ stack' \in Seq(Calls) /\ Len(stack') = Len(stack) - 1
      /\ \A i \in 1 .. Len(stack) - 1 : stack'[i] = stack[i]
  <2> DEFINE n == Len(stack) - 1
  <2>1. n \in Int /\ 1 \in Int /\ (IF 1 <= n THEN n - 1 + 1 ELSE 0) = n
        /\ \A i \in 1 .. n : 1 + i - 1 = i
    BY <1>1
  <2>2. \A i \in 1 .. n : stack[i] \in Calls
    BY <1>1 DEF StackOK
  <2>3. stack' = SubSeq(stack, 1, n)
    BY DEF Ends
  <2> HIDE DEF n
  <2>4. /\ SubSeq(stack, 1, n) \in Seq(Calls)
        /\ Len(SubSeq(stack, 1, n)) = IF 1 <= n THEN n - 1 + 1 ELSE 0
        /\ \A i \in 1 .. n - 1 + 1 : SubSeq(stack, 1, n)[i] = stack[1 + i - 1]
    BY <2>1, <2>2, SubSeqProperties
  <2>5. n - 1 + 1 = n
    BY <2>1
  <2> QED
    BY <2>1, <2>3, <2>4, <2>5 DEF n
<1>3. ASSUME NEW i \in 1 .. Len(stack) - 1
      PROVE  CallOK(stack'[i], file') /\ stack'[i].overlapped
  <2>1. stack'[i] = stack[i] /\ stack[i].overlapped /\ CallOK(stack[i], file)
    BY <1>1, <1>2 DEF StackOK
  <2>2. stack[i] \in Calls
    BY <1>1 DEF StackOK
  <2> QED
    BY <2>1, <2>2, PathInFiles DEF CallOK, NoneLost
<1> QED
  BY <1>2, <1>3 DEF StackOK

\* An error ends the call or puts it where it waits for the user.
LEMMA RaiseOK ==
  ASSUME StackOK, stack # <<>>, NoneLost, NEW g \in Calls, NEW cert \in Certs, Raise(g, cert)
  PROVE  StackOK'
<1>1. CASE Ends
  BY <1>1, EndsOK
<1>2. CASE Becomes([g EXCEPT !.pc = "ask", !.cert = cert])
  <2> DEFINE h == [g EXCEPT !.pc = "ask", !.cert = cert]
  <2>1. h \in Calls /\ h.pc = "ask"
    BY DEF Calls, Pcs
  <2>2. CallOK(h, file')
    BY <2>1 DEF CallOK, Fetching, ZipPcs
  <2> QED
    BY <1>2, <2>1, <2>2, BecomesOK
<1>3. CASE Becomes([g EXCEPT !.pc = "alert"])
  <2> DEFINE h == [g EXCEPT !.pc = "alert"]
  <2>1. h \in Calls /\ h.pc = "alert"
    BY DEF Calls, Pcs
  <2>2. CallOK(h, file')
    BY <2>1 DEF CallOK, Fetching, ZipPcs
  <2> QED
    BY <1>3, <2>1, <2>2, BecomesOK
<1> QED
  BY <1>1, <1>2, <1>3 DEF Raise

\* try_sources goes on with what is left of its list.
LEMMA NextSourceOK ==
  ASSUME StackOK, stack # <<>>, file' = file, f.pc \in ZipPcs \union {"pdscGet"},
         NEW cert \in Certs, NextSource(cert)
  PROVE  StackOK'
<1> DEFINE g == [f EXCEPT !.todo = Tail(@), !.tries = 0, !.cert = IF @ = NoHost THEN cert ELSE @]
<1>1. f \in Calls /\ CallOK(f, file) /\ NoneLost
  BY TopCall DEF NoneLost
<1>2. f.todo \in Seq(Todo) /\ f.todo # <<>> /\ f.cert \in Certs
  BY <1>1 DEF Calls, CallOK
<1>3. Tail(f.todo) \in Seq(Todo)
  BY <1>2
<1>4. g \in Calls /\ g.cert \in Certs
  BY <1>1, <1>2, <1>3 DEF Calls
<1>5. /\ g.pc = f.pc /\ g.kind = f.kind /\ g.pack = f.pack /\ g.got = f.got
      /\ g.overlapped = f.overlapped
  BY <1>1 DEF Calls
<1>6. CASE g.todo # <<>>
  <2> DEFINE pc == IF f.pc = "pdscGet" THEN f.pc ELSE "size"
             h == [g EXCEPT !.pc = pc]
  <2>0. pc \in Pcs
    BY DEF Pcs
  <2> HIDE DEF g, pc
  <2>1. /\ h \in Calls /\ h.pc = pc /\ h.todo = g.todo /\ h.kind = g.kind /\ h.pack = g.pack
        /\ h.overlapped = g.overlapped
    BY <1>4, <2>0 DEF Calls
  <2> USE DEF g, pc
  <2>2. Becomes(h)
    BY <1>6, <1>5 DEF NextSource
  <2>3. CallOK(h, file')
    BY <1>1, <1>5, <1>6, <2>1 DEF CallOK, Fetching, ZipPcs, Path
  <2> QED
    BY <1>1, <2>1, <2>2, <2>3, BecomesOK
<1>7. CASE g.todo = <<>>
  <2>1. Raise(g, g.cert)
    BY <1>7 DEF NextSource
  <2> QED
    BY <1>1, <1>4, <2>1, RaiseOK
<1> QED
  BY <1>6, <1>7

\* The list of try_sources is a list of sources, and not empty.
LEMMA ProductOK ==
  ASSUME NEW hs \in Seq(Hosts), NEW vs \in Seq(Int), Len(hs) \in {1, 2}, Len(vs) \in {1, 2}
  PROVE  Product(hs, vs) \in Seq(Todo) /\ Product(hs, vs) # <<>>
<1> DEFINE at(i) == ((i - 1) \div Len(vs)) + 1
           in(i) == ((i - 1) % Len(vs)) + 1
           n == Len(hs) * Len(vs)
<1>1. n \in {1, 2, 4}
  <2>1. CASE Len(vs) = 1 /\ Len(hs) = 1
    BY <2>1
  <2>2. CASE Len(vs) = 1 /\ Len(hs) = 2
    BY <2>2
  <2>3. CASE Len(vs) = 2 /\ Len(hs) = 1
    BY <2>3
  <2>4. CASE Len(vs) = 2 /\ Len(hs) = 2
    BY <2>4
  <2> QED
    BY <2>1, <2>2, <2>3, <2>4
<1>2. ASSUME NEW i \in 1 .. n PROVE at(i) \in 1 .. Len(hs) /\ in(i) \in 1 .. Len(vs)
  <2>1. CASE Len(vs) = 1
    BY <2>1
  <2>2. CASE Len(vs) = 2
    BY <2>2
  <2> QED
    BY <2>1, <2>2
<1> HIDE DEF at, in, n
<1>3. ASSUME NEW i \in 1 .. n PROVE <<hs[at(i)], vs[in(i)]>> \in Todo
  BY <1>2 DEF Todo
<1>4. Product(hs, vs) = [i \in 1 .. n |-> <<hs[at(i)], vs[in(i)]>>]
  BY DEF Product, at, in, n
<1> DEFINE w == [i \in 1 .. n |-> <<hs[at(i)], vs[in(i)]>>]
<1>5. w \in Seq(Todo) /\ Len(w) = n
  BY <1>1, <1>3
<1> QED
  BY <1>1, <1>4, <1>5

LEMMA SourcesOK ==
  ASSUME DiskOK, f \in Calls, NEW entry \in Int
  PROVE  /\ Sources(entry) \in Seq(Hosts) /\ Len(Sources(entry)) \in {1, 2}
         /\ Versions(entry) \in Seq(Int) /\ Len(Versions(entry)) \in {1, 2}
<1>1. Keil \in Hosts /\ f.pack \in Packs /\ Vendor[f.pack] \in Hosts
  BY DEF Calls, Hosts
<1>2. pdsc[f.pack] \in Int
  BY <1>1 DEF DiskOK
<1>3. Sources(entry) \in Seq(Hosts) /\ Len(Sources(entry)) \in {1, 2}
  BY <1>1 DEF Sources
<1>4. Versions(entry) \in Seq(Int) /\ Len(Versions(entry)) \in {1, 2}
  BY <1>2 DEF Versions
<1> QED
  BY <1>3, <1>4

\* With or without an entry in the index the call goes on.
LEMMA WithEntryOK ==
  ASSUME DiskOK, StackOK, stack # <<>>, file' = file, f.pc \in IndexPcs,
         NEW entry \in Int, WithEntry(entry)
  PROVE  StackOK'
<1>1. f \in Calls /\ CallOK(f, file) /\ NoneLost
  BY TopCall DEF NoneLost
<1>2. CASE f.pc = "list"
  <2> DEFINE h == [f EXCEPT !.pc = "pdsc", !.tries = 0]
  <2>1. h \in Calls /\ h.pc = "pdsc"
    BY <1>1 DEF Calls, Pcs
  <2>2. CallOK(h, file') /\ Becomes(h)
    BY <1>2, <2>1 DEF CallOK, Fetching, ZipPcs, WithEntry, Goes
  <2> QED
    BY <1>1, <2>1, <2>2, BecomesOK
<1>3. CASE f.pc = "pdscIndex"
  <2> DEFINE todo == Product(Sources(entry), <<0>>)
             h == [f EXCEPT !.pc = "pdscGet", !.cert = NoHost, !.tries = 0, !.todo = todo]
  <2>0. <<0>> \in Seq(Int) /\ Len(<<0>>) = 1
    OBVIOUS
  <2>1. todo \in Seq(Todo) /\ todo # <<>>
    BY <1>1, <2>0, SourcesOK, ProductOK
  <2> HIDE DEF todo
  <2>2. h \in Calls /\ h.pc = "pdscGet" /\ h.todo = todo
    BY <1>1, <2>1 DEF Calls, Pcs, Certs
  <2>3. CallOK(h, file') /\ Becomes(h)
    <3>1. CallOK(h, file')
      BY <2>1, <2>2 DEF CallOK, Fetching, ZipPcs
    <3>2. Becomes(h)
      BY <1>3 DEF WithEntry, todo
    <3> QED
      BY <3>1, <3>2
  <2> QED
    BY <1>1, <2>2, <2>3, BecomesOK
<1>4. CASE f.pc = "packIndex"
  <2> DEFINE todo == Product(Sources(entry), Versions(entry))
             h == [f EXCEPT !.pc = "size", !.cert = NoHost, !.tries = 0, !.todo = todo]
  <2>1. todo \in Seq(Todo) /\ todo # <<>>
    BY <1>1, SourcesOK, ProductOK
  <2> HIDE DEF todo
  <2>2. /\ h \in Calls /\ h.pc = "size" /\ h.todo = todo /\ h.kind = f.kind
        /\ h.pack = f.pack /\ h.overlapped = f.overlapped
    BY <1>1, <2>1 DEF Calls, Pcs, Certs
  <2>3. CallOK(h, file') /\ Becomes(h)
    <3>1. CallOK(h, file')
      BY <1>1, <1>4, <2>1, <2>2 DEF CallOK, Fetching, ZipPcs, Path
    <3>2. Becomes(h)
      BY <1>4 DEF WithEntry, todo
    <3> QED
      BY <3>1, <3>2
  <2> QED
    BY <1>1, <2>2, <2>3, BecomesOK
<1> QED
  BY <1>2, <1>3, <1>4 DEF IndexPcs

LEMMA RequestFailsOK ==
  ASSUME DiskOK, StackOK, stack # <<>>, file' = file,
         f.pc \in IndexPcs \union ZipPcs \union {"pdscGet"},
         NEW cert \in Certs, RequestFails(cert)
  PROVE  StackOK'
<1>1. f \in Calls /\ NoneLost
  BY TopCall DEF NoneLost
<1>2. CASE f.pc = "list"
  BY <1>1, <1>2, RaiseOK DEF RequestFails
<1>3. CASE f.pc \in {"pdscIndex", "packIndex"}
  <2>1. WithEntry(0)
    BY <1>3 DEF RequestFails
  <2> QED
    BY <1>3, <2>1, WithEntryOK DEF IndexPcs
<1>4. CASE f.pc \in ZipPcs \union {"pdscGet"}
  <2>1. NextSource(cert)
    BY <1>4 DEF RequestFails, ZipPcs
  <2> QED
    BY <1>4, <2>1, NextSourceOK
<1> QED
  BY <1>2, <1>3, <1>4 DEF IndexPcs

-----------------------------------------------------------------------------
LEMMA InitIInv == Init => IInv
<1> SUFFICES ASSUME Init PROVE IInv
  OBVIOUS
<1>1. DiskOK
  BY DEF Init, DiskOK, Contents, NoIndex
<1>2. StackOK /\ EntriesOK
  BY DEF Init, StackOK, EntriesOK
<1> QED
  BY <1>1, <1>2 DEF IInv

\* A call that only moves on, out of the places where it relies on something.
LEMMA GoesOK ==
  ASSUME StackOK, stack # <<>>, NoneLost, NEW pc \in Pcs, Goes(pc),
         pc \notin ZipPcs \union {"pdscGet", "write"},
         pc = "add" => file'[Path(f)] # NoFile,
         pc = "packIndex" => file'[Path(f)] = NoFile
  PROVE  StackOK'
<1> DEFINE h == [f EXCEPT !.pc = pc, !.tries = 0]
<1>1. f \in Calls
  BY TopCall
<1>2. h \in Calls /\ h.pc = pc /\ h.kind = f.kind /\ h.pack = f.pack
  BY <1>1 DEF Calls
<1>3. CallOK(h, file') /\ Becomes(h)
  BY <1>2 DEF CallOK, Fetching, Path, Goes
<1> QED
  BY <1>2, <1>3, BecomesOK

\* What is known of the call on top when a request is made.
LEMMA RequestTop ==
  ASSUME IInv, Requesting
  PROVE  /\ StackOK /\ stack # <<>> /\ f \in Calls /\ CallOK(f, file)
         /\ f.pc \in IndexPcs \union ZipPcs \union {"pdscGet"}
BY TopCall DEF IInv, Requesting

\* DiskOK and EntriesOK look at nothing that a step of a call alone changes.
LEMMA DiskKept ==
  ASSUME DiskOK, EntriesOK, NoDisk, latest' = latest
  PROVE  DiskOK' /\ EntriesOK' /\ file' = file /\ NoneLost
BY DEF DiskOK, EntriesOK, NoDisk, disk, NoneLost

LEMMA StepRequests ==
  ASSUME IInv, RefusedCert \/ NotFound \/ Broken \/ ReadIndex
  PROVE  IInv'
<1>1. DiskOK /\ EntriesOK /\ StackOK
  BY DEF IInv
<1>2. NoDisk /\ latest' = latest
  BY DEF RefusedCert, NotFound, Broken, ReadIndex
<1>3. DiskOK' /\ EntriesOK' /\ file' = file /\ NoneLost
  BY <1>1, <1>2, DiskKept
<1>4. NoHost \in Certs
  BY DEF Certs
<1>5. CASE RefusedCert
  <2>1. Requesting /\ RequestFails(HostNow)
    BY <1>5 DEF RefusedCert
  <2>2. HostNow \in Certs
    <3>1. CASE f.pc \in IndexPcs
      BY <3>1 DEF HostNow, Certs, Hosts
    <3>2. CASE f.pc \notin IndexPcs
      <4>1. f.todo \in Seq(Todo) /\ f.todo # <<>>
        BY <2>1, <3>2, RequestTop DEF CallOK, Calls
      <4>2. f.todo[1] \in Todo
        BY <4>1
      <4> QED
        BY <3>2, <4>2 DEF HostNow, Certs, Todo
    <3> QED
      BY <3>1, <3>2
  <2>3. StackOK'
    BY <1>1, <1>3, <2>1, <2>2, RequestTop, RequestFailsOK
  <2> QED
    BY <1>3, <2>3 DEF IInv
<1>6. CASE NotFound
  <2>1. Requesting /\ RequestFails(NoHost)
    BY <1>6 DEF NotFound
  <2>2. StackOK'
    BY <1>1, <1>3, <1>4, <2>1, RequestTop, RequestFailsOK
  <2> QED
    BY <1>3, <2>2 DEF IInv
<1>7. CASE Broken
  <2>1. Requesting /\ (RequestFails(NoHost) \/ Becomes([f EXCEPT !.tries = @ + 1]))
    BY <1>7 DEF Broken
  <2>2. CASE RequestFails(NoHost)
    BY <1>1, <1>3, <1>4, <2>1, <2>2, RequestTop, RequestFailsOK DEF IInv
  <2>3. CASE Becomes([f EXCEPT !.tries = @ + 1])
    <3> DEFINE h == [f EXCEPT !.tries = @ + 1]
    <3>1. f \in Calls /\ CallOK(f, file) /\ stack # <<>>
      BY <2>1, RequestTop
    <3>2. /\ h \in Calls /\ h.pc = f.pc /\ h.todo = f.todo /\ h.kind = f.kind
          /\ h.pack = f.pack /\ h.got = f.got /\ h.overlapped = f.overlapped
      BY <3>1 DEF Calls
    <3>3. CallOK(h, file')
      BY <1>3, <3>1, <3>2 DEF CallOK, Path
    <3>4. StackOK'
      BY <1>1, <1>3, <2>3, <3>1, <3>2, <3>3, BecomesOK
    <3> QED
      BY <1>3, <3>4 DEF IInv
  <2> QED
    BY <2>1, <2>2, <2>3
<1>8. CASE ReadIndex
  <2>1. /\ stack # <<>> /\ f.pc \in IndexPcs
        /\ RequestFails(NoHost) \/ WithEntry(index[f.pack])
    BY <1>8 DEF ReadIndex
  <2>2. index[f.pack] \in Int
    BY <1>1, <2>1, TopCall DEF DiskOK, Calls
  <2>3. StackOK'
    BY <1>1, <1>3, <1>4, <2>1, <2>2, RequestFailsOK, WithEntryOK
  <2> QED
    BY <1>3, <2>3 DEF IInv
<1> QED
  BY <1>5, <1>6, <1>7, <1>8

LEMMA StepFetchIndex == ASSUME IInv, FetchIndex PROVE IInv'
<1>1. DiskOK /\ EntriesOK /\ StackOK
  BY DEF IInv
<1>2. /\ Requesting /\ f.pc \in IndexPcs /\ UNCHANGED <<latest, pdsc, file, entries>>
      /\ \/ index' = latest /\ WithEntry(latest[f.pack])
         \/ index' = CutIndex /\ RequestFails(NoHost)
  BY DEF FetchIndex
<1>3. DiskOK' /\ EntriesOK' /\ file' = file
  BY <1>1, <1>2 DEF DiskOK, EntriesOK, CutIndex
<1>4. stack # <<>> /\ f \in Calls
  BY <1>2, RequestTop
<1>5. latest[f.pack] \in Int
  BY <1>1, <1>4 DEF DiskOK, Calls
<1>6. StackOK'
  BY <1>1, <1>2, <1>3, <1>4, <1>5, RequestFailsOK, WithEntryOK DEF Certs
<1> QED
  BY <1>3, <1>6 DEF IInv

LEMMA StepPdsc == ASSUME IInv, LookForPdsc \/ FetchPdsc \/ Parse PROVE IInv'
<1>1. DiskOK /\ EntriesOK /\ StackOK
  BY DEF IInv
<1>2. stack # <<>> /\ f \in Calls
  BY <1>1, TopCall DEF LookForPdsc, FetchPdsc, Parse, Requesting
<1>3. UNCHANGED <<latest, index, file, entries>> /\ NoneLost
  BY DEF LookForPdsc, FetchPdsc, Parse, NoDisk, disk, NoneLost
<1>4. pdsc' \in [Packs -> Int]
  BY <1>1, <1>2 DEF LookForPdsc, FetchPdsc, Parse, NoDisk, disk, DiskOK, Calls
<1>5. DiskOK' /\ EntriesOK'
  BY <1>1, <1>3, <1>4 DEF DiskOK, EntriesOK
<1>6. NoHost \in Certs
  BY DEF Certs
<1>7. CASE Raise(f, NoHost)
  BY <1>1, <1>2, <1>3, <1>5, <1>6, <1>7, RaiseOK DEF IInv
<1>8. CASE \E pc \in {"pdscIndex", "parse", "absent"} : Goes(pc)
  BY <1>1, <1>2, <1>3, <1>5, <1>8, GoesOK DEF IInv, Pcs, ZipPcs
<1>9. CASE Ends
  BY <1>1, <1>2, <1>3, <1>5, <1>9, EndsOK DEF IInv
<1>10. CASE Becomes([f EXCEPT !.pc = IF f.dialog THEN "pdsc" ELSE "exists", !.dialog = FALSE])
  <2> DEFINE pc == IF f.dialog THEN "pdsc" ELSE "exists"
             h == [f EXCEPT !.pc = pc, !.dialog = FALSE]
  <2>1. h \in Calls /\ h.pc = pc
    BY <1>2 DEF Calls, Pcs
  <2>2. CallOK(h, file')
    BY <2>1 DEF CallOK, Fetching, ZipPcs
  <2> QED
    BY <1>1, <1>2, <1>3, <1>5, <1>10, <2>1, <2>2, BecomesOK DEF IInv
<1> QED
  BY <1>7, <1>8, <1>9, <1>10 DEF LookForPdsc, FetchPdsc, Parse

LEMMA StepZip == ASSUME IInv, Exists \/ ZipStep \/ ZipData PROVE IInv'
<1>1. DiskOK /\ EntriesOK /\ StackOK
  BY DEF IInv
<1>2. NoDisk /\ latest' = latest
  BY DEF Exists, ZipStep, ZipData
<1>3. DiskOK' /\ EntriesOK' /\ file' = file /\ NoneLost
  BY <1>1, <1>2, DiskKept
<1>4. stack # <<>> /\ f \in Calls /\ CallOK(f, file)
  BY <1>1, TopCall DEF Exists, ZipStep, ZipData, Requesting
<1>5. CASE Exists
  BY <1>1, <1>3, <1>4, <1>5, GoesOK DEF IInv, Exists, Pcs, ZipPcs
<1>6. CASE ZipStep
  <2>1. /\ f.pc \in {"size", "tail", "directory", "header"}
        /\ \E pc \in {"tail", "directory", "header", "whole", "data"} : Goes(pc)
    BY <1>6 DEF ZipStep
  <2>2. PICK pc \in {"tail", "directory", "header", "whole", "data"} : Goes(pc)
    BY <2>1
  <2> DEFINE h == [f EXCEPT !.pc = pc, !.tries = 0]
  <2>3. /\ h \in Calls /\ h.pc = pc /\ h.todo = f.todo /\ h.kind = f.kind
        /\ h.pack = f.pack /\ h.overlapped = f.overlapped
    BY <1>4 DEF Calls, Pcs
  <2>4. CallOK(h, file') /\ Becomes(h)
    <3>1. CallOK(h, file')
      BY <1>3, <1>4, <2>1, <2>3 DEF CallOK, Fetching, ZipPcs, Path
    <3> QED
      BY <2>2, <3>1 DEF Goes
  <2> QED
    BY <1>1, <1>3, <1>4, <2>3, <2>4, BecomesOK DEF IInv
<1>7. CASE ZipData
  <2>1. PICK got \in {"all", "short"} :
          IF LengthRight(got) THEN Becomes([f EXCEPT !.pc = "write", !.got = got, !.tries = 0])
          ELSE NextSource(NoHost)
    BY <1>7 DEF ZipData
  <2>2. f.pc \in ZipPcs
    BY <1>7 DEF ZipData, ZipPcs
  <2>3. CASE LengthRight(got)
    <3> DEFINE h == [f EXCEPT !.pc = "write", !.got = got, !.tries = 0]
    <3>1. /\ h \in Calls /\ h.pc = "write" /\ h.got = got /\ h.kind = f.kind
          /\ h.pack = f.pack /\ h.overlapped = f.overlapped
      BY <1>4 DEF Calls, Pcs
    <3>2. CallOK(h, file')
      BY <1>3, <1>4, <2>2, <2>3, <3>1 DEF CallOK, Fetching, ZipPcs, Path, LengthRight
    <3> QED
      BY <1>1, <1>3, <1>4, <2>1, <2>3, <3>1, <3>2, BecomesOK DEF IInv
  <2>4. CASE ~LengthRight(got)
    BY <1>1, <1>3, <1>4, <2>1, <2>2, <2>4, NextSourceOK DEF IInv, Certs
  <2> QED
    BY <2>3, <2>4
<1> QED
  BY <1>5, <1>6, <1>7

\* What is written is a file from then on, whole or torn.
LEMMA WrittenOK ==
  ASSUME DiskOK, EntriesOK, NEW c \in Calls, NEW how \in {"all", "torn"},
         file' = [file EXCEPT ![Path(c)] = <<c.pack, how>>],
         UNCHANGED <<latest, index, pdsc, entries>>
  PROVE  DiskOK' /\ EntriesOK' /\ NoneLost /\ file'[Path(c)] # NoFile
<1>1. <<c.pack, how>> \in Contents
  BY DEF Calls, Contents
<1>2. Path(c) \in Files
  BY PathInFiles
<1>3. DiskOK' /\ file'[Path(c)] # NoFile
  BY <1>1, <1>2, ContentIsNoAbsence DEF DiskOK
<1>4. NoneLost
  BY <1>2, <1>3 DEF DiskOK, NoneLost
<1>5. EntriesOK'
  BY <1>4 DEF EntriesOK, NoneLost
<1> QED
  BY <1>3, <1>4, <1>5

LEMMA StepWrite == ASSUME IInv, Write PROVE IInv'
<1>1. DiskOK /\ EntriesOK /\ StackOK /\ stack # <<>>
  BY DEF IInv, Write
<1>2. f \in Calls /\ f.got = "all" /\ UNCHANGED <<latest, index, pdsc, entries>>
  BY <1>1, TopCall DEF Write, CallOK
<1>3. CASE file' = [file EXCEPT ![Path(f)] = <<f.pack, "all">>] /\ Goes("add")
  <2>1. DiskOK' /\ EntriesOK' /\ NoneLost /\ file'[Path(f)] # NoFile
    BY <1>1, <1>2, <1>3, WrittenOK
  <2>2. StackOK'
    BY <1>1, <1>3, <2>1, GoesOK DEF Pcs, ZipPcs
  <2> QED
    BY <2>1, <2>2 DEF IInv
<1>4. CASE file' = [file EXCEPT ![Path(f)] = <<f.pack, "torn">>] /\ Raise(f, NoHost)
  <2>1. DiskOK' /\ EntriesOK' /\ NoneLost
    BY <1>1, <1>2, <1>4, WrittenOK
  <2>2. StackOK'
    BY <1>1, <1>2, <1>4, <2>1, RaiseOK DEF Certs
  <2> QED
    BY <2>1, <2>2 DEF IInv
<1> QED
  BY <1>2, <1>3, <1>4 DEF Write

LEMMA StepAdd == ASSUME IInv, Add PROVE IInv'
<1>1. DiskOK /\ EntriesOK /\ StackOK /\ stack # <<>> /\ f.pc = "add" /\ Ends
  BY DEF IInv, Add
<1>2. UNCHANGED <<latest, index, pdsc, file>> /\ NoneLost
  BY DEF Add, NoneLost
<1>3. f \in Calls /\ file[Path(f)] # NoFile
  BY <1>1, TopCall DEF CallOK
<1>4. EntriesOK'
  <2>1. \A e \in entries' : e \in entries \/ e[2] = Path(f)
    BY DEF Add
  <2> QED
    BY <1>1, <1>2, <1>3, <2>1, PathInFiles DEF EntriesOK
<1>5. DiskOK'
  BY <1>1, <1>2 DEF DiskOK
<1> QED
  BY <1>1, <1>2, <1>4, <1>5, EndsOK DEF IInv

LEMMA StepUser == ASSUME IInv, Answer \/ Dismiss PROVE IInv'
<1>1. DiskOK /\ EntriesOK /\ StackOK /\ stack # <<>> /\ NoDisk /\ latest' = latest
  BY DEF IInv, Answer, Dismiss
<1>2. DiskOK' /\ EntriesOK' /\ NoneLost /\ f \in Calls
  BY <1>1, DiskKept, TopCall
<1>3. CASE Ends
  BY <1>1, <1>2, <1>3, EndsOK DEF IInv
<1>4. CASE Becomes([f EXCEPT !.attempt = 2, !.pc = "pdsc", !.cert = NoHost])
  <2> DEFINE h == [f EXCEPT !.attempt = 2, !.pc = "pdsc", !.cert = NoHost]
  <2>1. h \in Calls /\ h.pc = "pdsc"
    BY <1>2 DEF Calls, Pcs, Certs
  <2>2. CallOK(h, file')
    BY <2>1 DEF CallOK, Fetching, ZipPcs
  <2> QED
    BY <1>1, <1>2, <1>4, <2>1, <2>2, BecomesOK DEF IInv
<1> QED
  BY <1>3, <1>4 DEF Answer, Dismiss

LEMMA Overlapped ==
  ASSUME NEW c \in Calls
  PROVE  LET o == [c EXCEPT !.overlapped = TRUE]
         IN  /\ o \in Calls /\ o.overlapped /\ o.pc = c.pc /\ o.todo = c.todo /\ o.got = c.got
             /\ o.kind = c.kind /\ o.pack = c.pack
BY DEF Calls

\* A new call has looked for nothing yet; those below it are overlapped.
LEMMA StepStart == ASSUME IInv, Start PROVE IInv'
<1>1. DiskOK /\ EntriesOK /\ StackOK /\ NoDisk /\ latest' = latest
  BY DEF IInv, Start
<1>2. DiskOK' /\ EntriesOK' /\ file' = file
  BY <1>1, DiskKept
<1> DEFINE over == [i \in DOMAIN stack |-> [stack[i] EXCEPT !.overlapped = TRUE]]
<1>3. PICK kind \in Kinds, p \in Packs : stack' = Append(over, Call(kind, p))
  BY DEF Start
<1> DEFINE c == Call(kind, p)
<1>4. c \in Calls /\ c.pc \in {"pdsc", "list"}
  BY DEF Call, Calls, Pcs, Certs
<1>5. CallOK(c, file')
  BY <1>4 DEF CallOK, Fetching, ZipPcs
<1>6. Len(stack) \in Nat /\ DOMAIN stack = 1 .. Len(stack)
  BY <1>1 DEF StackOK
<1>7. ASSUME NEW i \in 1 .. Len(stack)
      PROVE  over[i] \in Calls /\ over[i].overlapped /\ CallOK(over[i], file')
  <2>1. stack[i] \in Calls /\ CallOK(stack[i], file)
    BY <1>1, <1>7 DEF StackOK
  <2>2. over[i] = [stack[i] EXCEPT !.overlapped = TRUE]
    BY <1>6, <1>7
  <2>3. /\ over[i] \in Calls /\ over[i].overlapped /\ over[i].pc = stack[i].pc
        /\ over[i].todo = stack[i].todo /\ over[i].got = stack[i].got
        /\ over[i].kind = stack[i].kind /\ over[i].pack = stack[i].pack
    BY <2>1, <2>2, Overlapped
  <2> QED
    BY <1>2, <2>1, <2>3 DEF CallOK, Path
<1> HIDE DEF c
<1>8. over \in Seq(Calls) /\ Len(over) = Len(stack)
  BY <1>6, <1>7
<1> HIDE DEF over
<1>9. /\ stack' \in Seq(Calls) /\ Len(stack') = Len(stack) + 1
      /\ \A i \in 1 .. Len(stack) : stack'[i] = over[i]
      /\ stack'[Len(stack) + 1] = c
  BY <1>3, <1>4, <1>8, AppendProperties DEF c
<1>10. StackOK'
  <2>1. ASSUME NEW i \in 1 .. Len(stack')
        PROVE  CallOK(stack'[i], file') /\ (i < Len(stack') => stack'[i].overlapped)
    <3>1. CASE i = Len(stack) + 1
      BY <1>5, <1>9, <3>1
    <3>2. CASE i \in 1 .. Len(stack)
      BY <1>7, <1>9, <3>2
    <3> QED
      BY <1>6, <1>9, <3>1, <3>2
  <2> QED
    BY <1>9, <2>1 DEF StackOK
<1> QED
  BY <1>2, <1>10 DEF IInv

LEMMA StepWorld == ASSUME IInv, Publish \/ WeekPasses \/ UNCHANGED vars PROVE IInv'
<1>1. UNCHANGED <<index, pdsc, file, entries, stack>>
  BY DEF Publish, WeekPasses, vars, disk, NoDisk
<1>2. latest' \in [Packs -> Int]
  BY DEF IInv, DiskOK, Publish, WeekPasses, vars
<1> QED
  BY <1>1, <1>2 DEF IInv, DiskOK, EntriesOK, StackOK

LEMMA StepCrash == ASSUME IInv, Crash PROVE IInv'
<1>1. DiskOK /\ EntriesOK /\ StackOK /\ stack # <<>>
  BY DEF IInv, Crash
<1>2. f \in Calls /\ UNCHANGED <<latest, entries>> /\ stack' = <<>>
  BY <1>1, TopCall DEF Crash
<1>3. StackOK'
  BY <1>2 DEF StackOK
<1>4. CASE UNCHANGED file
  <2>1. DiskOK'
    BY <1>1, <1>2, <1>4 DEF Crash, DiskOK, CutIndex, Calls
  <2> QED
    BY <1>1, <1>2, <1>3, <1>4, <2>1 DEF IInv, EntriesOK
<1>5. CASE file' = [file EXCEPT ![Path(f)] = <<f.pack, "torn">>] /\ UNCHANGED <<index, pdsc>>
  BY <1>1, <1>2, <1>3, <1>5, WrittenOK DEF IInv
<1> QED
  BY <1>4, <1>5 DEF Crash

LEMMA StepIInv == IInv /\ [Next]_vars => IInv'
BY StepRequests, StepFetchIndex, StepPdsc, StepZip, StepWrite, StepAdd, StepUser,
   StepStart, StepWorld, StepCrash DEF Next, Advance

LEMMA IInvHolds == Spec => []IInv
BY InitIInv, StepIInv, PTL DEF Spec

-----------------------------------------------------------------------------
\* Whatever servers, network and disk do, and however calls overlap, each line
\* of devices.txt (add_device) names a file that is there and as long as it
\* should be, unless its writing was broken off.
THEOREM UsedAreComplete == Spec => []UsedIsComplete
<1>1. IInv => UsedIsComplete
  <2> SUFFICES ASSUME IInv, NEW e \in entries
               PROVE  file[e[2]] # NoFile /\ file[e[2]][2] \in {"all", "torn"}
    BY DEF UsedIsComplete
  <2>1. e[2] \in Files /\ file[e[2]] # NoFile /\ file[e[2]] \in Contents
    BY DEF IInv, EntriesOK, DiskOK
  <2> QED
    BY <2>1 DEF Contents
<1> QED
  BY <1>1, IInvHolds, PTL

\* grab_algorithm and download_svd never change a file that is there, but for
\* a call out of whose progress messages another call has been made.
THEOREM FilesAreKept == Spec => KeepsFiles
<1>1. IInv /\ [Next]_vars =>
        [\A n \in Files : file[n] # NoFile => file'[n] = file[n] \/ f.overlapped]_vars
  <2> SUFFICES ASSUME IInv, Next, NEW n \in Files, file[n] # NoFile, ~f.overlapped
               PROVE  file'[n] = file[n]
    OBVIOUS
  <2>1. CASE UNCHANGED file
    BY <2>1
  <2>2. CASE stack # <<>> /\ f.pc = "write" /\ \E x : file' = [file EXCEPT ![Path(f)] = x]
    <3>1. file[Path(f)] = NoFile
      BY <2>2, TopCall DEF IInv, CallOK, Fetching
    <3> QED
      BY <2>2, <3>1 DEF IInv, DiskOK
  <2>3. Write \/ Crash =>
          \/ UNCHANGED file
          \/ stack # <<>> /\ f.pc = "write" /\ \E x : file' = [file EXCEPT ![Path(f)] = x]
    BY DEF Write, Crash
  <2>4. ~(Write \/ Crash) => UNCHANGED file
    BY DEF Next, Advance, RefusedCert, NotFound, Broken, ReadIndex, FetchIndex, LookForPdsc,
           FetchPdsc, Parse, Exists, ZipStep, ZipData, Add, Answer, Dismiss, Start, Publish,
           WeekPasses, NoDisk, disk
  <2> QED
    BY <2>1, <2>2, <2>3, <2>4
<1> QED
  BY <1>1, IInvHolds, PTL DEF Spec, KeepsFiles

-----------------------------------------------------------------------------
(* Why a call fails.                                                       *)

\* What is known of versions is not ahead of the servers, and only a fault
\* leaves an index or a .pdsc that does not parse.
WorldOK ==
  /\ faults \in Nat
  /\ \A p \in Packs : latest[p] >= 1 /\ index[p] <= latest[p] /\ pdsc[p] <= latest[p]
  /\ faults = 0 => /\ \A p \in Packs : pdsc[p] >= 0
                   /\ index = NoIndex \/ \A p \in Packs : index[p] >= 1

SourceHosts(c) == {Vendor[c.pack], Keil}
Exhausted(c) ==
  \A h \in SourceHosts(c), v \in KnownVersions(c.pack) : ~Offered(h, c.pack, v)

\* While a call goes from source to source: a certificate has been refused or,
\* at the index's server, will be, or every source that has the file in a known
\* version is still to be tried.
Hopeful(c) ==
  \/ c.cert # NoHost
  \/ Keil \in BadCerts \ trusted /\ \E i \in 1 .. Len(c.todo) : c.todo[i][1] = Keil
  \/ \A h \in SourceHosts(c), v \in KnownVersions(c.pack) :
       Offered(h, c.pack, v) => \E i \in 1 .. Len(c.todo) : c.todo[i] = <<h, v>>

CallRight(c) ==
  /\ c.pc = "list" => c.dialog
  /\ faults = 0 /\ ~c.overlapped => /\ c.pc \in ZipPcs => Hopeful(c)
                                    /\ c.pc = "alert" => Exhausted(c)

FailInv == IInv /\ WorldOK /\ \A i \in 1 .. Len(stack) : CallRight(stack[i])

LEMMA InitFail == Init => FailInv
BY InitIInv, PackFetchAssumption DEF Init, FailInv, WorldOK, NoIndex


\* A call keeps what is right of it while only its own fields matter.
LEMMA BecomesRight ==
  ASSUME FailInv, stack # <<>>, NEW g \in Calls, Becomes(g), CallRight(g)'
  PROVE  \A i \in 1 .. Len(stack') : CallRight(stack[i])'
<1>0. Len(stack) \in Nat \ {0} /\ stack \in Seq(Calls)
  BY TopCall DEF FailInv, IInv, StackOK
<1>1. /\ Len(stack) \in Nat \ {0} /\ Len(stack') = Len(stack)
      /\ \A i \in 1 .. Len(stack) : stack'[i] = IF i = Len(stack) THEN g ELSE stack[i]
  BY <1>0 DEF Becomes
<1>2. SUFFICES ASSUME NEW i \in 1 .. Len(stack') PROVE CallRight(stack[i])'
  OBVIOUS
<1>3. CASE i = Len(stack)
  <2>1. stack'[i] = g
    BY <1>1, <1>3
  <2> QED
    BY <2>1 DEF CallRight, Hopeful, Exhausted, SourceHosts, KnownVersions, Offered
<1>4. CASE i # Len(stack)
  <2>2. i \in 1 .. Len(stack) /\ i < Len(stack)
    BY <1>1, <1>2, <1>4
  <2>1. stack'[i] = stack[i]
    BY <1>1, <2>2
  <2>3. stack[i].overlapped /\ CallRight(stack[i])
    BY <2>2 DEF FailInv, IInv, StackOK
  <2> QED
    BY <2>1, <2>3 DEF CallRight
<1> QED
  BY <1>3, <1>4

LEMMA EndsRight ==
  ASSUME FailInv, stack # <<>>, Ends
  PROVE  \A i \in 1 .. Len(stack') : CallRight(stack[i])'
<1>1. Len(stack) \in Nat \ {0} /\ stack \in Seq(Calls)
  BY TopCall DEF FailInv, IInv, StackOK
<1> DEFINE n == Len(stack) - 1
<1>2. n \in Int /\ 1 \in Int /\ n \in Nat
  BY <1>1
<1>3. \A i \in 1 .. n : stack[i] \in Calls
  BY <1>1
<1>4. stack' = SubSeq(stack, 1, n)
  BY DEF Ends
<1> HIDE DEF n
<1>5. /\ Len(SubSeq(stack, 1, n)) = IF 1 <= n THEN n - 1 + 1 ELSE 0
      /\ \A i \in 1 .. n - 1 + 1 : SubSeq(stack, 1, n)[i] = stack[1 + i - 1]
  BY <1>2, <1>3, SubSeqProperties
<1>6. Len(stack') = n /\ \A i \in 1 .. n : stack'[i] = stack[i]
  BY <1>2, <1>4, <1>5
<1>7. SUFFICES ASSUME NEW i \in 1 .. Len(stack') PROVE CallRight(stack[i])'
  OBVIOUS
<1>8. stack'[i] = stack[i] /\ stack[i].overlapped /\ CallRight(stack[i])
  BY <1>1, <1>6, <1>7 DEF FailInv, IInv, StackOK, n
<1> QED
  BY <1>8 DEF CallRight

\* An error is only shown of a call that is no longer in the dialog and met no
\* refused certificate.
LEMMA RaiseRight ==
  ASSUME FailInv, stack # <<>>, NEW g \in Calls, NEW cert \in Certs, Raise(g, cert),
         \/ g.dialog
         \/ cert # NoHost
         \/ faults' # 0
         \/ g.overlapped
         \/ Exhausted(g)'
  PROVE  \A i \in 1 .. Len(stack') : CallRight(stack[i])'
<1>1. CASE Ends
  BY <1>1, EndsRight
<1>2. CASE Becomes([g EXCEPT !.pc = "ask", !.cert = cert])
  <2> DEFINE h == [g EXCEPT !.pc = "ask", !.cert = cert]
  <2>1. h \in Calls /\ h.pc = "ask"
    BY DEF Calls, Pcs
  <2> HIDE DEF h
  <2>2. CallRight(h)'
    BY <2>1 DEF CallRight, ZipPcs
  <2>3. Becomes(h)
    BY <1>2 DEF h
  <2> QED
    BY <2>1, <2>2, <2>3, BecomesRight
<1>3. CASE ~g.dialog /\ cert = NoHost /\ Becomes([g EXCEPT !.pc = "alert"])
  <2> DEFINE h == [g EXCEPT !.pc = "alert"]
  <2>1. h \in Calls /\ h.pc = "alert" /\ h.pack = g.pack /\ h.overlapped = g.overlapped
    BY DEF Calls, Pcs
  <2>2. Becomes(h)
    BY <1>3
  <2> HIDE DEF h
  <2>3. faults' = 0 /\ ~h.overlapped => Exhausted(h)'
    BY <1>3, <2>1 DEF Exhausted, SourceHosts
  <2>4. CallRight(h)'
    BY <2>1, <2>3 DEF CallRight, ZipPcs
  <2> QED
    BY <2>1, <2>2, <2>4, BecomesRight
<1> QED
  BY <1>1, <1>2, <1>3 DEF Raise

\* A source without the file is passed over, and nothing is lost by it.
LEMMA TailHopeful ==
  ASSUME NEW c \in Calls, NEW d \in Calls, Hopeful(c), c.cert = NoHost, c.todo # <<>>,
         c.todo[1][1] \notin BadCerts \ trusted, ~Offered(c.todo[1][1], c.pack, c.todo[1][2]),
         d.todo = Tail(c.todo), d.pack = c.pack
  PROVE  Hopeful(d) /\ (d.todo = <<>> => Exhausted(d))
<1>1. c.todo \in Seq(Todo)
  BY DEF Calls
<1>2. Len(c.todo) \in Nat \ {0}
  BY <1>1
<1>3. Len(d.todo) = Len(c.todo) - 1 /\ \A i \in 1 .. Len(d.todo) : d.todo[i] = c.todo[i + 1]
  BY <1>1, <1>2
<1>4. \A x : (\E i \in 1 .. Len(c.todo) : c.todo[i] = x) /\ x # c.todo[1]
               => \E i \in 1 .. Len(d.todo) : d.todo[i] = x
  <2>1. SUFFICES ASSUME NEW i \in 1 .. Len(c.todo), i # 1
                 PROVE  \E j \in 1 .. Len(d.todo) : d.todo[j] = c.todo[i]
    OBVIOUS
  <2>2. i - 1 \in 1 .. Len(d.todo) /\ d.todo[i - 1] = c.todo[i]
    BY <1>2, <1>3, <2>1
  <2> QED
    BY <2>2
<1>5. d.todo = <<>> => \A i \in 1 .. Len(d.todo) : FALSE
  <2>1. d.todo = <<>> => Len(d.todo) = 0
    BY EmptySeq DEF Calls
  <2>2. \A n : n = 0 => \A i \in 1 .. n : FALSE
    OBVIOUS
  <2> QED
    BY <2>1, <2>2
<1>6. CASE Keil \in BadCerts \ trusted /\ \E i \in 1 .. Len(c.todo) : c.todo[i][1] = Keil
  <2>1. PICK i \in 1 .. Len(c.todo) : c.todo[i][1] = Keil
    BY <1>6
  <2>2. \E j \in 1 .. Len(d.todo) : d.todo[j] = c.todo[i]
    BY <1>4, <1>6, <2>1
  <2> QED
    BY <1>5, <1>6, <2>1, <2>2 DEF Hopeful
<1>7. CASE \A h \in SourceHosts(c), v \in KnownVersions(c.pack) :
             Offered(h, c.pack, v) => \E i \in 1 .. Len(c.todo) : c.todo[i] = <<h, v>>
  <2>1. ASSUME NEW h \in SourceHosts(d), NEW v \in KnownVersions(d.pack), Offered(h, d.pack, v)
        PROVE  \E i \in 1 .. Len(d.todo) : d.todo[i] = <<h, v>>
    <3>1. <<h, v>> # c.todo[1]
      BY <2>1
    <3>2. \E i \in 1 .. Len(c.todo) : c.todo[i] = <<h, v>>
      BY <1>7, <2>1 DEF SourceHosts
    <3> QED
      BY <1>4, <3>1, <3>2
  <2> QED
    BY <1>5, <2>1 DEF Hopeful, Exhausted
<1> QED
  BY <1>6, <1>7 DEF Hopeful

\* What is known does not change under a call.
SameWorld == UNCHANGED <<latest, index, pdsc, trusted>> /\ (faults' = faults \/ faults' # 0)

LEMMA NextSourceRight ==
  ASSUME FailInv, stack # <<>>, f.pc \in ZipPcs \union {"pdscGet"}, SameWorld,
         NEW cert \in Certs, NextSource(cert),
         \/ cert # NoHost
         \/ faults' # 0
         \/ f.pc \in ZipPcs /\ ~Refused /\ ~Found
  PROVE  \A i \in 1 .. Len(stack') : CallRight(stack[i])'
<1>1. f \in Calls /\ CallOK(f, file) /\ CallRight(f)
  BY TopCall DEF FailInv, IInv
<1>2. f.todo \in Seq(Todo) /\ f.todo # <<>>
  BY <1>1 DEF CallOK, Calls
<1>3. PICK g : g = [f EXCEPT !.todo = Tail(@), !.tries = 0,
                             !.cert = IF @ = NoHost THEN cert ELSE @]
  OBVIOUS
<1>4. /\ g \in Calls /\ g.todo = Tail(f.todo) /\ g.pc = f.pc /\ g.pack = f.pack
      /\ g.cert = (IF f.cert = NoHost THEN cert ELSE f.cert) /\ g.overlapped = f.overlapped
  <2>1. Tail(f.todo) \in Seq(Todo)
    BY <1>2
  <2> DEFINE rest == Tail(f.todo)
             refused == IF f.cert = NoHost THEN cert ELSE f.cert
  <2>2. g = [f EXCEPT !.todo = rest, !.tries = 0, !.cert = refused]
    BY <1>1, <1>3 DEF Calls
  <2>3. rest \in Seq(Todo) /\ refused \in Certs
    BY <1>1, <2>1 DEF Calls
  <2> HIDE DEF rest, refused
  <2>4. /\ g \in Calls /\ g.todo = rest /\ g.pc = f.pc /\ g.pack = f.pack
        /\ g.cert = refused /\ g.overlapped = f.overlapped
    BY <1>1, <2>2, <2>3 DEF Calls
  <2> QED
    BY <2>4 DEF rest, refused
<1>5. \/ g.cert # NoHost
      \/ faults' # 0
      \/ g.overlapped
      \/ f.pc \in ZipPcs /\ Hopeful(g)' /\ (g.todo = <<>> => Exhausted(g)')
  <2>1. CASE faults' = 0 /\ ~g.overlapped /\ cert = NoHost /\ f.cert = NoHost
    <3>1. f.pc \in ZipPcs /\ ~Refused /\ ~Found /\ Hopeful(f)
      BY <1>1, <1>4, <2>1 DEF CallRight, SameWorld
    <3>2. /\ f.todo[1][1] \notin BadCerts \ trusted
          /\ ~Offered(f.todo[1][1], f.pack, f.todo[1][2])
      BY <3>1 DEF Refused, Found, HostNow, IndexPcs, ZipPcs
    <3>3. Hopeful(g) /\ (g.todo = <<>> => Exhausted(g))
      BY <1>1, <1>2, <1>4, <2>1, <3>1, <3>2, TailHopeful
    <3> QED
      BY <3>1, <3>3 DEF SameWorld, Hopeful, Exhausted, KnownVersions, Offered
  <2> QED
    BY <1>4, <2>1
<1>6. CASE g.todo # <<>>
  <2>1. PICK h : h = [g EXCEPT !.pc = IF f.pc = "pdscGet" THEN @ ELSE "size"]
    OBVIOUS
  <2>2. /\ h \in Calls /\ h.pc \in {"pdscGet", "size"} /\ h.overlapped = g.overlapped
        /\ h.cert = g.cert /\ h.todo = g.todo /\ h.pack = g.pack
    BY <1>4, <2>1 DEF Calls, Pcs
  <2>3. Becomes(h)
    BY <1>3, <1>6, <2>1 DEF NextSource
  <2>4. h.pc = "size" => f.pc # "pdscGet"
    BY <1>4, <2>1, <2>2
  <2>5. faults' = 0 /\ ~h.overlapped /\ h.pc = "size" => Hopeful(h)'
    BY <1>5, <2>2 DEF Hopeful, SourceHosts
  <2>6. CallRight(h)'
    BY <2>2, <2>5 DEF CallRight, ZipPcs
  <2> QED
    BY <2>2, <2>3, <2>6, BecomesRight
<1>7. CASE g.todo = <<>>
  <2>1. Raise(g, g.cert)
    BY <1>3, <1>7 DEF NextSource
  <2>2. g.cert \in Certs
    BY <1>4 DEF Calls
  <2> QED
    BY <1>4, <1>5, <1>7, <2>1, <2>2, RaiseRight
<1> QED
  BY <1>6, <1>7

\* Any other place of the call, or a fault, leaves nothing to be shown.
LEMMA PcRight ==
  ASSUME NEW g \in Calls, g.pc = "list" => g.dialog,
         faults' # 0 \/ g.pc \notin ZipPcs \union {"alert"}
  PROVE  CallRight(g)'
BY DEF CallRight

LEMMA GoesRight ==
  ASSUME FailInv, stack # <<>>, NEW pc \in Pcs \ {"list", "alert"}, pc \notin ZipPcs, Goes(pc)
  PROVE  \A i \in 1 .. Len(stack') : CallRight(stack[i])'
<1>1. f \in Calls
  BY TopCall DEF FailInv, IInv
<1>2. PICK g : g = [f EXCEPT !.pc = pc, !.tries = 0]
  OBVIOUS
<1>3. g \in Calls /\ g.pc = pc /\ Becomes(g)
  BY <1>1, <1>2 DEF Calls, Goes
<1> QED
  BY <1>3, PcRight, BecomesRight

\* try_sources asks every source for every version.
LEMMA ProductCovers ==
  ASSUME NEW hs \in Seq(Hosts), NEW vs \in Seq(Int), Len(hs) \in {1, 2}, Len(vs) \in {1, 2},
         NEW a \in 1 .. Len(hs), NEW b \in 1 .. Len(vs)
  PROVE  \E i \in 1 .. Len(Product(hs, vs)) : Product(hs, vs)[i] = <<hs[a], vs[b]>>
<1> DEFINE i == (a - 1) * Len(vs) + b
           n == Len(hs) * Len(vs)
<1>1. i \in 1 .. n /\ ((i - 1) \div Len(vs)) + 1 = a /\ ((i - 1) % Len(vs)) + 1 = b /\ n \in Nat
  <2>1. CASE Len(vs) = 1
    BY <2>1
  <2>2. CASE Len(vs) = 2
    BY <2>2
  <2> QED
    BY <2>1, <2>2
<1> HIDE DEF i
<1>2. Product(hs, vs)[i] = <<hs[a], vs[b]>>
  BY <1>1 DEF Product, n
<1>3. Len(Product(hs, vs)) = n
  BY <1>1 DEF Product, n
<1> QED
  BY <1>1, <1>2, <1>3

\* Members of short sequences.
LEMMA OneMember == ASSUME NEW x PROVE \E a \in 1 .. Len(<<x>>) : <<x>>[a] = x
OBVIOUS

LEMMA TwoMembers ==
  ASSUME NEW x, NEW y
  PROVE  /\ \E a \in 1 .. Len(<<x, y>>) : <<x, y>>[a] = x
         /\ \E a \in 1 .. Len(<<x, y>>) : <<x, y>>[a] = y
OBVIOUS

LEMMA PairFirst == ASSUME NEW x, NEW y, NEW z, z = <<x, y>> PROVE z[1] = x
OBVIOUS

LEMMA FirstMember == ASSUME NEW vs \in Seq(Int), Len(vs) \in {1, 2} PROVE 1 \in 1 .. Len(vs)
OBVIOUS

LEMMA AllVersions ==
  ASSUME NEW entry \in Int, entry >= 1
  PROVE  \A v \in {pdsc[f.pack], entry} :
           \E b \in 1 .. Len(Versions(entry)) : Versions(entry)[b] = v
<1>1. CASE entry = pdsc[f.pack]
  <2>1. Versions(entry) = <<pdsc[f.pack]>>
    BY <1>1 DEF Versions
  <2> QED
    BY <1>1, <2>1, OneMember
<1>2. CASE entry # pdsc[f.pack]
  <2>1. Versions(entry) = <<pdsc[f.pack], entry>>
    BY <1>2 DEF Versions
  <2> QED
    BY <2>1, TwoMembers
<1> QED
  BY <1>1, <1>2

\* The sources and versions hold all that a call may be offered, unless the
\* index's own server refuses and the version in the index is not to be had.
LEMMA AllSources ==
  ASSUME NEW entry \in Int
  PROVE  /\ \E a \in 1 .. Len(Sources(entry)) : Sources(entry)[a] = Keil
         /\ entry >= 1 => \A h \in SourceHosts(f) :
                            \E a \in 1 .. Len(Sources(entry)) : Sources(entry)[a] = h
<1>1. CASE (entry = 0 /\ f.kind = "detect") \/ Vendor[f.pack] = Keil
  <2>1. Sources(entry) = <<Keil>>
    BY <1>1 DEF Sources
  <2>2. entry >= 1 => SourceHosts(f) = {Keil}
    BY <1>1 DEF SourceHosts
  <2> QED
    BY <2>1, <2>2, OneMember
<1>2. CASE ~((entry = 0 /\ f.kind = "detect") \/ Vendor[f.pack] = Keil)
  <2>1. Sources(entry) = <<Vendor[f.pack], Keil>>
    BY <1>2 DEF Sources
  <2> QED
    BY <2>1, TwoMembers DEF SourceHosts
<1> QED
  BY <1>1, <1>2

Pairs(todo, hs, vs) ==
  \A h, v : (\E a \in 1 .. Len(hs) : hs[a] = h) /\ (\E b \in 1 .. Len(vs) : vs[b] = v)
              => \E i \in 1 .. Len(todo) : todo[i] = <<h, v>>

LEMMA AllPairs ==
  ASSUME NEW hs \in Seq(Hosts), NEW vs \in Seq(Int), Len(hs) \in {1, 2}, Len(vs) \in {1, 2},
         NEW todo, todo = Product(hs, vs)
  PROVE  /\ (\E a \in 1 .. Len(hs) : hs[a] = Keil)
               => \E i \in 1 .. Len(todo) : todo[i][1] = Keil
         /\ Pairs(todo, hs, vs)
<1>1. \A a \in 1 .. Len(hs), b \in 1 .. Len(vs) :
        \E i \in 1 .. Len(todo) : todo[i] = <<hs[a], vs[b]>>
  BY ProductCovers
<1>2. 1 \in 1 .. Len(vs)
  BY FirstMember
<1>3. ASSUME NEW a \in 1 .. Len(hs), hs[a] = Keil
      PROVE  \E i \in 1 .. Len(todo) : todo[i][1] = Keil
  <2>1. PICK i \in 1 .. Len(todo) : todo[i] = <<hs[a], vs[1]>>
    BY <1>1, <1>2, Zenon
  <2>2. todo[i] = <<Keil, vs[1]>>
    BY <1>3, <2>1, Zenon
  <2>3. todo[i][1] = Keil
    BY <2>2, PairFirst, Zenon
  <2> QED
    BY <2>3, Zenon
<1>4. ASSUME NEW h, NEW v, NEW a \in 1 .. Len(hs), hs[a] = h, NEW b \in 1 .. Len(vs), vs[b] = v
      PROVE  \E i \in 1 .. Len(todo) : todo[i] = <<h, v>>
  <2>1. PICK i \in 1 .. Len(todo) : todo[i] = <<hs[a], vs[b]>>
    BY <1>1, Zenon
  <2> QED
    BY <1>4, <2>1, Zenon
<1> QED
  BY <1>3, <1>4, Zenon DEF Pairs

LEMMA WithEntryRight ==
  ASSUME FailInv, stack # <<>>, f.pc \in IndexPcs, NEW entry \in Int, WithEntry(entry),
         UNCHANGED <<pdsc, trusted>>,
         \/ faults' # 0
         \/ Keil \in BadCerts \ trusted
         \/ entry >= 1 /\ index'[f.pack] = entry
  PROVE  \A i \in 1 .. Len(stack') : CallRight(stack[i])'
<1>1. f \in Calls /\ DiskOK
  BY TopCall DEF FailInv, IInv
<1>2. CASE f.pc = "list"
  <2>1. Goes("pdsc")
    BY <1>2 DEF WithEntry
  <2> QED
    BY <2>1, GoesRight DEF Pcs, ZipPcs
<1>3. CASE f.pc = "pdscIndex"
  <2>0. <<0>> \in Seq(Int) /\ Len(<<0>>) = 1
    OBVIOUS
  <2> DEFINE todo == Product(Sources(entry), <<0>>)
  <2>1. todo \in Seq(Todo)
    BY <1>1, <2>0, SourcesOK, ProductOK
  <2> HIDE DEF todo
  <2>2. PICK g : g = [f EXCEPT !.pc = "pdscGet", !.cert = NoHost, !.tries = 0, !.todo = todo]
    OBVIOUS
  <2>3. g \in Calls /\ g.pc = "pdscGet"
    BY <1>1, <2>1, <2>2 DEF Calls, Pcs, Certs
  <2>4. Becomes(g)
    BY <1>3, <2>2 DEF WithEntry, todo
  <2>5. CallRight(g)'
    BY <2>3, PcRight DEF ZipPcs
  <2> QED
    BY <2>3, <2>4, <2>5, BecomesRight
<1>4. CASE f.pc = "packIndex"
  <2> DEFINE todo == Product(Sources(entry), Versions(entry))
  <2>1. todo \in Seq(Todo)
    BY <1>1, SourcesOK, ProductOK
  <2> HIDE DEF todo
  <2>2. PICK g : g = [f EXCEPT !.pc = "size", !.cert = NoHost, !.tries = 0, !.todo = todo]
    OBVIOUS
  <2>3. g \in Calls /\ g.pc = "size" /\ g.todo = todo /\ g.pack = f.pack
    BY <1>1, <2>1, <2>2 DEF Calls, Pcs, Certs
  <2>4. Becomes(g)
    BY <1>4, <2>2 DEF WithEntry, todo
  <2>5. ASSUME faults' = 0 PROVE Hopeful(g)'
    <3>1. PICK hs, vs : hs = Sources(entry) /\ vs = Versions(entry)
      OBVIOUS
    <3>2. hs \in Seq(Hosts) /\ vs \in Seq(Int) /\ Len(hs) \in {1, 2} /\ Len(vs) \in {1, 2}
      BY <1>1, <3>1, SourcesOK
    <3>3. g.todo = Product(hs, vs) /\ \E a \in 1 .. Len(hs) : hs[a] = Keil
      BY <2>3, <3>1, AllSources DEF todo
    <3>4. \/ Keil \in BadCerts \ trusted'
          \/ /\ \A h \in SourceHosts(g) : \E a \in 1 .. Len(hs) : hs[a] = h
             /\ \A v \in KnownVersions(g.pack)' : \E b \in 1 .. Len(vs) : vs[b] = v
      <4>1. CASE entry >= 1 /\ index'[f.pack] = entry
        <5>1. KnownVersions(g.pack)' = {pdsc[f.pack], entry}
          BY <2>3, <4>1 DEF KnownVersions
        <5>2. SourceHosts(g) = SourceHosts(f)
          BY <2>3 DEF SourceHosts
        <5> QED
          <6>1. \A h \in SourceHosts(f) : \E a \in 1 .. Len(hs) : hs[a] = h
            BY <3>1, <4>1, AllSources
          <6>2. \A v \in {pdsc[f.pack], entry} : \E b \in 1 .. Len(vs) : vs[b] = v
            BY <3>1, <4>1, AllVersions
          <6> QED
            BY <5>1, <5>2, <6>1, <6>2
      <4> QED
        BY <2>5, <4>1
    <3>5. /\ \E i \in 1 .. Len(g.todo) : g.todo[i][1] = Keil
          /\ Pairs(g.todo, hs, vs)
      <4>1. PICK q : q = g.todo
        OBVIOUS
      <4>2. q = Product(hs, vs) /\ \E a \in 1 .. Len(hs) : hs[a] = Keil
        BY <3>3, <4>1
      <4>3. \E i \in 1 .. Len(q) : q[i][1] = Keil
        BY <3>2, <4>2, AllPairs, Zenon
      <4>4. Pairs(q, hs, vs)
        BY <3>2, <4>2, AllPairs, Zenon
      <4> QED
        BY <4>1, <4>3, <4>4, Zenon
    <3> QED
      BY <3>4, <3>5 DEF Hopeful, SourceHosts, Pairs
  <2>6. CallRight(g)'
    BY <2>3, <2>5 DEF CallRight
  <2> QED
    BY <2>3, <2>4, <2>6, BecomesRight
<1> QED
  BY <1>2, <1>3, <1>4 DEF IndexPcs

\* Without a fault a request fails because its host is refused, or because it
\* does not have the pack.
LEMMA RequestFailsRight ==
  ASSUME FailInv, stack # <<>>, f.pc \in IndexPcs \union ZipPcs \union {"pdscGet"},
         UNCHANGED <<pdsc, trusted>>, f.pc \notin IndexPcs => SameWorld,
         NEW cert \in Certs, RequestFails(cert),
         \/ faults' # 0
         \/ cert # NoHost /\ Refused
         \/ f.pc \in ZipPcs /\ ~Refused /\ ~Found
  PROVE  \A i \in 1 .. Len(stack') : CallRight(stack[i])'
<1>1. f \in Calls /\ CallRight(f)
  BY TopCall DEF FailInv, IInv
<1>2. CASE f.pc = "list"
  <2>1. Raise(f, cert) /\ f.dialog
    BY <1>1, <1>2 DEF RequestFails, CallRight
  <2> QED
    BY <1>1, <2>1, RaiseRight
<1>3. CASE f.pc \in {"pdscIndex", "packIndex"}
  <2>1. WithEntry(0) /\ f.pc \in IndexPcs
    BY <1>3 DEF RequestFails, IndexPcs
  <2>2. faults' # 0 \/ Keil \in BadCerts \ trusted
    BY <2>1 DEF Refused, HostNow, IndexPcs, ZipPcs
  <2> QED
    BY <2>1, <2>2, WithEntryRight
<1>4. CASE f.pc \in ZipPcs \union {"pdscGet"}
  <2>1. NextSource(cert) /\ f.pc \notin IndexPcs
    BY <1>4 DEF RequestFails, ZipPcs, IndexPcs
  <2> QED
    BY <1>4, <2>1, NextSourceRight
<1> QED
  BY <1>2, <1>3, <1>4 DEF IndexPcs

\* A step that leaves the world alone, but for the servers' publishing.
LEMMA WorldKept ==
  ASSUME FailInv, UNCHANGED <<latest, index, pdsc>>, faults' = faults \/ Fault
  PROVE  WorldOK'
BY DEF FailInv, WorldOK, Fault

LEMMA FailRequests ==
  ASSUME FailInv, RefusedCert \/ NotFound \/ Broken \/ ReadIndex
  PROVE  FailInv'
<1>1. /\ IInv' /\ stack # <<>> /\ f \in Calls /\ DiskOK
      /\ f.pc \in IndexPcs \union ZipPcs \union {"pdscGet"}
  BY StepRequests, TopCall DEF FailInv, IInv, RefusedCert, NotFound, Broken, ReadIndex,
     Requesting
<1>2. UNCHANGED <<latest, index, pdsc, trusted>> /\ (faults' = faults \/ Fault)
  BY DEF RefusedCert, NotFound, Broken, ReadIndex, NoDisk, disk
<1>3. SameWorld
  BY <1>2 DEF SameWorld, Fault, FailInv, WorldOK
<1>4. WorldOK'
  BY <1>2, WorldKept
<1>5. \A i \in 1 .. Len(stack') : CallRight(stack[i])'
  <2>1. CASE RefusedCert
    <3>1. RequestFails(HostNow) /\ Refused /\ HostNow \in Hosts
      BY <2>1, PackFetchAssumption DEF RefusedCert, Refused
    <3>2. HostNow \in Certs /\ HostNow # NoHost
      BY <3>1, PackFetchAssumption DEF Certs
    <3> QED
      BY <1>1, <1>2, <1>3, <3>1, <3>2, RequestFailsRight
  <2>2. CASE NotFound
    <3>1. RequestFails(NoHost) /\ ~Refused /\ ~Found /\ f.pc \in ZipPcs
      BY <2>2 DEF NotFound, Found
    <3> QED
      BY <1>1, <1>2, <1>3, <3>1, RequestFailsRight DEF Certs
  <2>3. CASE Broken
    <3>1. faults' # 0
      BY <2>3 DEF Broken, Fault, FailInv, WorldOK
    <3>2. CASE RequestFails(NoHost)
      BY <1>1, <1>2, <1>3, <3>1, <3>2, RequestFailsRight DEF Certs
    <3>3. CASE Becomes([f EXCEPT !.tries = @ + 1])
      <4>1. PICK g : g = [f EXCEPT !.tries = @ + 1]
        OBVIOUS
      <4>2. g \in Calls /\ g.pc = f.pc /\ g.dialog = f.dialog /\ Becomes(g)
        BY <1>1, <3>3, <4>1 DEF Calls
      <4>3. f.pc = "list" => f.dialog
        BY <1>1, TopCall DEF FailInv, IInv, CallRight
      <4>4. CallRight(g)'
        BY <3>1, <4>2, <4>3 DEF CallRight
      <4> QED
        BY <1>1, <4>2, <4>4, BecomesRight
    <3> QED
      BY <2>3, <3>2, <3>3 DEF Broken
  <2>4. CASE ReadIndex
    <3>1. f.pc \in IndexPcs /\ index # NoIndex /\ f.pack \in Packs
      BY <1>1, <2>4 DEF ReadIndex, NeedsIndex, Calls
    <3>2. CASE index = CutIndex
      <4>1. faults' # 0
        <5>1. index[f.pack] = -1
          BY <3>1, <3>2 DEF CutIndex
        <5> QED
          BY <2>4, <3>1, <5>1 DEF ReadIndex, FailInv, WorldOK
      <4>2. RequestFails(NoHost)
        BY <2>4, <3>2 DEF ReadIndex
      <4> QED
        BY <1>1, <1>2, <1>3, <4>1, <4>2, RequestFailsRight DEF Certs
    <3>3. CASE index # CutIndex
      <4>1. WithEntry(index[f.pack]) /\ index[f.pack] \in Int
        BY <1>1, <2>4, <3>1, <3>3 DEF ReadIndex, DiskOK
      <4>2. faults' # 0 \/ (index[f.pack] >= 1 /\ index'[f.pack] = index[f.pack])
        BY <1>2, <2>4, <3>1 DEF ReadIndex, FailInv, WorldOK
      <4> QED
        BY <1>1, <1>2, <3>1, <4>1, <4>2, WithEntryRight
    <3> QED
      BY <3>2, <3>3
  <2> QED
    BY <2>1, <2>2, <2>3, <2>4
<1> QED
  BY <1>1, <1>4, <1>5 DEF FailInv

LEMMA FailIndex == ASSUME FailInv, FetchIndex PROVE FailInv'
<1>1. /\ IInv' /\ stack # <<>> /\ f \in Calls /\ DiskOK /\ f.pc \in IndexPcs
      /\ f.pack \in Packs /\ UNCHANGED <<latest, pdsc, trusted>>
  BY StepFetchIndex, TopCall DEF FailInv, IInv, FetchIndex, Requesting, Calls
<1>2. CASE index' = latest /\ WithEntry(latest[f.pack]) /\ UNCHANGED faults
  <2>1. WorldOK'
    BY <1>1, <1>2 DEF FailInv, WorldOK, IInv, DiskOK
  <2>2. latest[f.pack] \in Int /\ latest[f.pack] >= 1 /\ index'[f.pack] = latest[f.pack]
    BY <1>1, <1>2 DEF FailInv, WorldOK, DiskOK
  <2>3. \A i \in 1 .. Len(stack') : CallRight(stack[i])'
    BY <1>1, <1>2, <2>2, WithEntryRight
  <2> QED
    BY <1>1, <2>1, <2>3 DEF FailInv
<1>3. CASE Fault /\ index' = CutIndex /\ RequestFails(NoHost)
  <2>1. faults' \in Nat /\ faults' # 0
    BY <1>3 DEF FailInv, WorldOK, Fault
  <2>2. \A p \in Packs : index'[p] = -1
    BY <1>3 DEF CutIndex
  <2>3. WorldOK'
    BY <1>1, <2>1, <2>2 DEF FailInv, WorldOK, IInv, DiskOK
  <2>4. f.pc \notin ZipPcs /\ f.pc # "pdscGet"
    BY <1>1 DEF ZipPcs, IndexPcs
  <2>5. \A i \in 1 .. Len(stack') : CallRight(stack[i])'
    BY <1>1, <1>3, <2>1, RequestFailsRight DEF Certs
  <2> QED
    BY <1>1, <2>3, <2>5 DEF FailInv
<1> QED
  BY <1>2, <1>3 DEF FetchIndex

LEMMA FailPdsc == ASSUME FailInv, LookForPdsc \/ FetchPdsc \/ Parse PROVE FailInv'
<1>1. IInv' /\ stack # <<>> /\ f \in Calls /\ f.pack \in Packs /\ DiskOK
  BY StepPdsc, TopCall DEF FailInv, IInv, LookForPdsc, FetchPdsc, Parse, Requesting, Calls
<1>2. CASE LookForPdsc
  <2>1. WorldOK'
    BY <1>2, WorldKept DEF LookForPdsc, NoDisk, disk
  <2>2. Goes("pdscIndex") \/ Goes("parse")
    BY <1>2 DEF LookForPdsc
  <2>3. \A i \in 1 .. Len(stack') : CallRight(stack[i])'
    BY <1>1, <2>2, GoesRight DEF Pcs, ZipPcs
  <2> QED
    BY <1>1, <2>1, <2>3 DEF FailInv
<1>3. CASE FetchPdsc
  <2>1. UNCHANGED <<latest, index>>
    BY <1>3 DEF FetchPdsc
  <2>2. CASE pdsc' = [pdsc EXCEPT ![f.pack] = latest[f.pack]] /\ Goes("parse") /\ UNCHANGED faults
    <3>1. \A p \in Packs : pdsc'[p] = IF p = f.pack THEN latest[p] ELSE pdsc[p]
      BY <1>1, <2>2 DEF DiskOK
    <3>2. WorldOK'
      BY <2>1, <2>2, <3>1, <1>1 DEF FailInv, WorldOK, DiskOK
    <3>3. \A i \in 1 .. Len(stack') : CallRight(stack[i])'
      BY <1>1, <2>2, GoesRight DEF Pcs, ZipPcs
    <3> QED
      BY <1>1, <3>2, <3>3 DEF FailInv
  <2>3. CASE Fault /\ pdsc' = [pdsc EXCEPT ![f.pack] = -1] /\ Raise(f, NoHost)
    <3>1. \A p \in Packs : pdsc'[p] = IF p = f.pack THEN -1 ELSE pdsc[p]
      BY <1>1, <2>3 DEF DiskOK
    <3>2. faults' \in Nat /\ faults' # 0
      BY <2>3 DEF FailInv, WorldOK, Fault
    <3>5. \A p \in Packs : latest[p] \in Int /\ latest[p] >= 1 /\ index[p] <= latest[p]
                             /\ pdsc[p] <= latest[p]
      BY <1>1 DEF FailInv, WorldOK, DiskOK
    <3>6. \A p \in Packs : pdsc'[p] <= latest[p]
      BY <3>1, <3>5
    <3>3. WorldOK'
      BY <2>1, <3>2, <3>5, <3>6 DEF WorldOK
    <3>4. \A i \in 1 .. Len(stack') : CallRight(stack[i])'
      BY <1>1, <2>3, <3>2, RaiseRight DEF Certs
    <3> QED
      BY <1>1, <3>3, <3>4 DEF FailInv
  <2> QED
    BY <1>3, <2>2, <2>3 DEF FetchPdsc
<1>4. CASE Parse
  <2>1. WorldOK' /\ UNCHANGED faults
    BY <1>4, WorldKept DEF Parse, NoDisk, disk
  <2>2. CASE pdsc[f.pack] = -1
    <3>1. faults' # 0
      BY <1>1, <2>1, <2>2 DEF FailInv, WorldOK
    <3>2. Raise(f, NoHost)
      BY <1>4, <2>2 DEF Parse
    <3>3. \A i \in 1 .. Len(stack') : CallRight(stack[i])'
      BY <1>1, <3>1, <3>2, RaiseRight DEF Certs
    <3> QED
      BY <1>1, <2>1, <3>3 DEF FailInv
  <2>3. CASE Becomes([f EXCEPT !.pc = IF f.dialog THEN "pdsc" ELSE "exists", !.dialog = FALSE])
    <3>1. PICK pc \in {"pdsc", "exists"} : Becomes([f EXCEPT !.pc = pc, !.dialog = FALSE])
      BY <2>3
    <3>2. PICK g : g = [f EXCEPT !.pc = pc, !.dialog = FALSE]
      OBVIOUS
    <3>3. g \in Calls /\ g.pc = pc /\ Becomes(g)
      BY <1>1, <3>1, <3>2 DEF Calls, Pcs
    <3>4. CallRight(g)'
      BY <3>3, PcRight DEF ZipPcs
    <3>5. \A i \in 1 .. Len(stack') : CallRight(stack[i])'
      BY <1>1, <3>3, <3>4, BecomesRight
    <3> QED
      BY <1>1, <2>1, <3>5 DEF FailInv
  <2>4. CASE Ends \/ Goes("absent")
    <3>1. \A i \in 1 .. Len(stack') : CallRight(stack[i])'
      BY <1>1, <2>4, EndsRight, GoesRight DEF Pcs, ZipPcs
    <3> QED
      BY <1>1, <2>1, <3>1 DEF FailInv
  <2> QED
    BY <1>4, <2>2, <2>3, <2>4 DEF Parse
<1> QED
  BY <1>2, <1>3, <1>4

LEMMA FailZip == ASSUME FailInv, Exists \/ ZipStep \/ ZipData PROVE FailInv'
<1>1. IInv' /\ stack # <<>> /\ f \in Calls
  BY StepZip, TopCall DEF FailInv, IInv, Exists, ZipStep, ZipData, Requesting
<1>2. UNCHANGED <<latest, index, pdsc, trusted>> /\ (faults' = faults \/ Fault)
  BY DEF Exists, ZipStep, ZipData, NoDisk, disk
<1>3. SameWorld /\ WorldOK'
  BY <1>2, WorldKept DEF SameWorld, Fault, FailInv, WorldOK
<1>4. CASE Exists
  <2>1. Goes("add") \/ Goes("packIndex")
    BY <1>4 DEF Exists
  <2>2. \A i \in 1 .. Len(stack') : CallRight(stack[i])'
    BY <1>1, <2>1, GoesRight DEF Pcs, ZipPcs
  <2> QED
    BY <1>1, <1>3, <2>2 DEF FailInv
<1>5. CASE ZipStep
  <2>1. PICK pc \in ZipPcs : Goes(pc) /\ f.pc \in ZipPcs /\ UNCHANGED faults
    BY <1>5 DEF ZipStep, ZipPcs
  <2>2. PICK g : g = [f EXCEPT !.pc = pc, !.tries = 0]
    OBVIOUS
  <2>3. /\ g \in Calls /\ g.pc = pc /\ Becomes(g) /\ g.cert = f.cert /\ g.todo = f.todo
        /\ g.pack = f.pack /\ g.overlapped = f.overlapped
    BY <1>1, <2>1, <2>2 DEF Calls, Pcs, ZipPcs, Goes
  <2>4. CallRight(f)
    BY <1>1, TopCall DEF FailInv, IInv
  <2>5. faults' = 0 /\ ~g.overlapped => Hopeful(g)
    BY <2>1, <2>3, <2>4 DEF CallRight, Hopeful, SourceHosts
  <2>6. Hopeful(g) => Hopeful(g)'
    BY <1>2 DEF Hopeful, KnownVersions, Offered
  <2>7. CallRight(g)'
    BY <2>1, <2>3, <2>5, <2>6 DEF CallRight, ZipPcs
  <2>8. \A i \in 1 .. Len(stack') : CallRight(stack[i])'
    BY <1>1, <2>3, <2>7, BecomesRight
  <2> QED
    BY <1>1, <1>3, <2>8 DEF FailInv
<1>6. CASE ZipData
  <2>1. PICK got \in {"all", "short"} :
          /\ IF got = "short" THEN Fault ELSE UNCHANGED faults
          /\ IF LengthRight(got) THEN Becomes([f EXCEPT !.pc = "write", !.got = got, !.tries = 0])
             ELSE NextSource(NoHost)
    BY <1>6 DEF ZipData
  <2>2. CASE got = "all"
    <3>1. Becomes([f EXCEPT !.pc = "write", !.got = got, !.tries = 0])
      BY <2>1, <2>2 DEF LengthRight
    <3>2. PICK g : g = [f EXCEPT !.pc = "write", !.got = got, !.tries = 0]
      OBVIOUS
    <3>3. g \in Calls /\ g.pc = "write" /\ Becomes(g)
      BY <1>1, <2>2, <3>1, <3>2 DEF Calls, Pcs
    <3>4. CallRight(g)'
      BY <3>3, PcRight DEF ZipPcs
    <3>5. \A i \in 1 .. Len(stack') : CallRight(stack[i])'
      BY <1>1, <3>3, <3>4, BecomesRight
    <3> QED
      BY <1>1, <1>3, <3>5 DEF FailInv
  <2>3. CASE got = "short"
    <3>1. NextSource(NoHost) /\ Fault /\ f.pc \in ZipPcs
      BY <1>6, <2>1, <2>3 DEF LengthRight, ZipData, ZipPcs
    <3>2. faults' # 0
      BY <3>1 DEF FailInv, WorldOK, Fault
    <3>3. \A i \in 1 .. Len(stack') : CallRight(stack[i])'
      BY <1>1, <1>3, <3>1, <3>2, NextSourceRight DEF Certs
    <3> QED
      BY <1>1, <1>3, <3>3 DEF FailInv
  <2> QED
    BY <2>2, <2>3
<1> QED
  BY <1>4, <1>5, <1>6

LEMMA FailEnd == ASSUME FailInv, Write \/ Add \/ Answer \/ Dismiss PROVE FailInv'
<1>1. IInv' /\ stack # <<>> /\ f \in Calls
  BY StepWrite, StepAdd, StepUser, TopCall DEF FailInv, IInv, Write, Add, Answer, Dismiss
<1>2. UNCHANGED <<latest, index, pdsc>> /\ (faults' = faults \/ Fault)
  BY DEF Write, Add, Answer, Dismiss, NoDisk, disk
<1>3. WorldOK'
  BY <1>2, WorldKept
<1>4. \A i \in 1 .. Len(stack') : CallRight(stack[i])'
  <2>1. CASE Ends
    BY <1>1, <2>1, EndsRight
  <2>2. CASE Goes("add")
    BY <1>1, <2>2, GoesRight DEF Pcs, ZipPcs
  <2>3. CASE Fault /\ Raise(f, NoHost)
    <3>1. faults' # 0
      BY <2>3 DEF FailInv, WorldOK, Fault
    <3> QED
      BY <1>1, <2>3, <3>1, RaiseRight DEF Certs
  <2>4. CASE Becomes([f EXCEPT !.attempt = 2, !.pc = "pdsc", !.cert = NoHost])
    <3>1. PICK g : g = [f EXCEPT !.attempt = 2, !.pc = "pdsc", !.cert = NoHost]
      OBVIOUS
    <3>2. g \in Calls /\ g.pc = "pdsc" /\ Becomes(g)
      BY <1>1, <2>4, <3>1 DEF Calls, Pcs, Certs
    <3>3. CallRight(g)'
      BY <3>2, PcRight DEF ZipPcs
    <3> QED
      BY <1>1, <3>2, <3>3, BecomesRight
  <2> QED
    BY <2>1, <2>2, <2>3, <2>4 DEF Write, Add, Answer, Dismiss
<1> QED
  BY <1>1, <1>3, <1>4 DEF FailInv

\* A call that has just begun has no list to show an error of.
LEMMA FailStart == ASSUME FailInv, Start PROVE FailInv'
<1>1. IInv' /\ stack \in Seq(Calls)
  BY StepStart DEF FailInv, IInv, StackOK
<1>2. WorldOK'
  BY WorldKept DEF Start, NoDisk, disk
<1>3. PICK kind \in Kinds, p \in Packs :
        stack' = Append([i \in DOMAIN stack |-> [stack[i] EXCEPT !.overlapped = TRUE]],
                        Call(kind, p))
  BY DEF Start
<1> DEFINE below == [i \in DOMAIN stack |-> [stack[i] EXCEPT !.overlapped = TRUE]]
           n == Len(stack)
<1>4. n \in Nat /\ DOMAIN stack = 1 .. n
  BY <1>1
<1>5. below \in Seq(Calls) /\ Len(below) = n
  <2>1. \A i \in 1 .. n : [stack[i] EXCEPT !.overlapped = TRUE] \in Calls
    BY <1>1, <1>4, Overlapped
  <2> QED
    BY <1>4, <2>1
<1>6. \A i \in 1 .. n : below[i] = [stack[i] EXCEPT !.overlapped = TRUE]
  BY <1>4
<1> HIDE DEF below
<1>7. /\ Len(stack') = n + 1 /\ stack'[n + 1] = Call(kind, p)
      /\ \A i \in 1 .. n : stack'[i] = below[i]
  BY <1>3, <1>4, <1>5 DEF below
<1>8. ASSUME NEW i \in 1 .. n PROVE CallRight(stack[i])'
  <2>1. PICK c \in Calls : c = stack[i] /\ CallRight(c)
    BY <1>1, <1>4, <1>8 DEF FailInv
  <2>2. PICK o : o = [c EXCEPT !.overlapped = TRUE]
    OBVIOUS
  <2>3. o.overlapped /\ o.pc = c.pc /\ o.dialog = c.dialog
    BY <2>2 DEF Calls
  <2>4. stack'[i] = o
    BY <1>6, <1>7, <1>8, <2>1, <2>2
  <2> QED
    BY <2>1, <2>3, <2>4 DEF CallRight
<1>9. PICK d : d = Call(kind, p)
  OBVIOUS
<1>10. (d.pc = "list" => d.dialog) /\ d.pc \notin ZipPcs \union {"alert"}
  BY <1>9 DEF Call, ZipPcs
<1>11. \A i \in 1 .. Len(stack') : CallRight(stack[i])'
  <2>1. SUFFICES ASSUME NEW i \in 1 .. n + 1 PROVE CallRight(stack[i])'
    BY <1>7
  <2>2. CASE i \in 1 .. n
    BY <1>8, <2>2
  <2>3. CASE i \notin 1 .. n
    <3>1. i = n + 1
      BY <1>4, <2>1, <2>3
    <3>2. stack'[i] = d
      BY <1>7, <1>9, <3>1
    <3> QED
      BY <1>10, <3>2 DEF CallRight
  <2> QED
    BY <2>2, <2>3
<1> QED
  BY <1>1, <1>2, <1>11 DEF FailInv

\* A version that is published takes the offer of an earlier one away.
LEMMA FailWorld == ASSUME FailInv, Publish \/ WeekPasses \/ UNCHANGED vars PROVE FailInv'
<1>1. IInv' /\ UNCHANGED <<index, pdsc, stack, trusted, faults>>
  BY StepWorld DEF FailInv, Publish, WeekPasses, vars, disk, NoDisk
<1>2. \A p \in Packs : latest[p] \in Int /\ latest'[p] \in {latest[p], latest[p] + 1}
  BY DEF FailInv, IInv, DiskOK, Publish, WeekPasses, vars
<1>3. \A p \in Packs : index[p] \in Int /\ pdsc[p] \in Int
  BY DEF FailInv, IInv, DiskOK
<1>4. WorldOK'
  <2>1. \A p \in Packs : latest'[p] >= 1 /\ index[p] <= latest'[p] /\ pdsc[p] <= latest'[p]
    BY <1>2, <1>3 DEF FailInv, WorldOK
  <2> QED
    BY <1>1, <2>1 DEF FailInv, WorldOK
<1>5. ASSUME NEW c \in Calls, CallRight(c) PROVE CallRight(c)'
  <2>1. ASSUME NEW h, NEW v \in KnownVersions(c.pack), Offered(h, c.pack, v)'
        PROVE  Offered(h, c.pack, v)
    <3>1. c.pack \in Packs
      BY DEF Calls
    <3>2. v <= latest[c.pack] /\ v \in Int
      BY <1>3, <2>1, <3>1 DEF KnownVersions, FailInv, WorldOK
    <3>3. v = latest'[c.pack] /\ <<h, c.pack>> \in Carries
      BY <2>1 DEF Offered
    <3>4. v = latest[c.pack]
      BY <1>2, <3>1, <3>2, <3>3
    <3> QED
      BY <3>3, <3>4 DEF Offered
  <2>2. KnownVersions(c.pack)' = KnownVersions(c.pack)
    BY <1>1 DEF KnownVersions
  <2>3. Hopeful(c) => Hopeful(c)'
    BY <1>1, <2>1, <2>2 DEF Hopeful, SourceHosts
  <2>4. Exhausted(c) => Exhausted(c)'
    BY <2>1, <2>2 DEF Exhausted, SourceHosts
  <2> QED
    BY <1>1, <1>5, <2>3, <2>4 DEF CallRight
<1>6. \A i \in 1 .. Len(stack') : CallRight(stack[i])'
  <2>1. SUFFICES ASSUME NEW i \in 1 .. Len(stack) PROVE CallRight(stack[i])'
    BY <1>1
  <2>2. PICK c : c = stack[i]
    OBVIOUS
  <2>3. c \in Calls /\ CallRight(c)
    BY <2>2 DEF FailInv, IInv, StackOK
  <2>4. CallRight(c)' /\ stack'[i] = c
    BY <1>1, <1>5, <2>2, <2>3
  <2> QED
    BY <2>4 DEF CallRight, Hopeful, Exhausted, SourceHosts, KnownVersions, Offered
<1> QED
  BY <1>1, <1>4, <1>6 DEF FailInv

LEMMA FailCrash == ASSUME FailInv, Crash PROVE FailInv'
<1>1. IInv' /\ stack' = <<>> /\ faults' \in Nat /\ faults' # 0 /\ UNCHANGED latest
  BY StepCrash DEF FailInv, WorldOK, Crash, Fault
<1>2. \A p \in Packs : index'[p] \in {index[p], -1} /\ pdsc'[p] \in {pdsc[p], -1}
  BY DEF Crash, FailInv, IInv, DiskOK, CutIndex
<1>3. \A p \in Packs : latest[p] \in Int /\ latest[p] >= 1 /\ index[p] <= latest[p]
                         /\ pdsc[p] <= latest[p]
  BY DEF FailInv, WorldOK, IInv, DiskOK
<1>4. \A p \in Packs : index'[p] <= latest[p] /\ pdsc'[p] <= latest[p]
  BY <1>2, <1>3
<1>5. WorldOK'
  BY <1>1, <1>3, <1>4 DEF WorldOK
<1>6. \A i \in 1 .. Len(stack') : CallRight(stack[i])'
  <2>1. Len(stack') = 0
    BY <1>1
  <2> QED
    BY <2>1
<1> QED
  BY <1>1, <1>5, <1>6 DEF FailInv

LEMMA StepFail == FailInv /\ [Next]_vars => FailInv'
BY FailRequests, FailIndex, FailPdsc, FailZip, FailEnd, FailStart, FailWorld, FailCrash
   DEF Next, Advance

\* An error that net_call shows of a call without faults or overlapping calls
\* means that neither the vendor's server nor the index's has the file in the
\* version of the .pdsc or of the index, whatever has been published meanwhile.
THEOREM FailuresHaveReasons == Spec => []FailsForReason
<1>1. FailInv => FailsForReason
  <2> SUFFICES ASSUME FailInv, stack # <<>>, f.pc = "alert", faults = 0, ~f.overlapped
               PROVE  Exhausted(f)
    BY DEF FailsForReason, Exhausted, SourceHosts
  <2>1. CallRight(f)
    BY TopCall DEF FailInv, IInv
  <2> QED
    BY <2>1 DEF CallRight
<1> QED
  BY <1>1, InitFail, StepFail, PTL DEF Spec
=============================================================================
