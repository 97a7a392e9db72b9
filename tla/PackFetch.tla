------------------------------- MODULE PackFetch -------------------------------
(***************************************************************************)
(* How MCUProg gets flash algorithms (.FLM) and register definitions (.svd) *)
(* from CMSIS-Pack servers: cmsispack.py with its two caches, the index of  *)
(* all packs and the .pdsc of each, and the calls MCUProg.py makes of it.   *)
(*                                                                         *)
(* The calls run in the UI thread.  net_say lets the event loop run, so that *)
(* a download can be started while another is under way: the calls are a    *)
(* stack, of which only the last goes on.                                   *)
(***************************************************************************)
EXTENDS Integers, Sequences, FiniteSets, FiniteSetsExt, Functions

CONSTANTS Packs,       \* device packs, each with one device
          Keil,        \* the server that holds the index and mirrors each .pdsc
          Vendor,      \* [Packs -> hosts]: the server the index names for a pack
          Carries,     \* <<host, pack>>: the host offers the .pack itself
          BadCerts,    \* hosts whose certificate does not verify
          RangeHosts,  \* hosts that answer range requests
          FileOf,      \* [Packs -> names]: base name of the device's .FLM
          Owned,       \* names of .FLM files that are the user's own
          Kinds,       \* what is fetched: "detect", "search", "svd"
          Retries,     \* attempts of fetch
          MaxVersion,  \* [Packs -> versions]: the last one published, a bound
          MaxCalls, MaxDepth, MaxFaults  \* bounds

Hosts == {Keil} \union {Vendor[p] : p \in Packs}
NoHost == "none"
Algos == {FileOf[p] : p \in Packs}
Files == Algos \union {<<"svd", p>> : p \in Packs}

ASSUME PackFetchAssumption ==
  /\ Carries \subseteq Hosts \X Packs
  /\ BadCerts \subseteq Hosts /\ RangeHosts \subseteq Hosts
  /\ NoHost \notin Hosts
  /\ Owned \subseteq Algos
  /\ Kinds \subseteq {"detect", "search", "svd"}
  /\ Retries \in Nat \ {0} /\ MaxVersion \in [Packs -> Nat \ {0}]
  /\ MaxCalls \in Nat /\ MaxDepth \in Nat /\ MaxFaults \in Nat

VARIABLES
  latest,   \* the version of each pack that the servers offer
  index,    \* index.pidx: of each pack the version, 0 without index, -1 in a cut one
  old,      \* index.pidx is older than a week
  pdsc,     \* <pack>.pdsc: 0 none, -1 cut short, or its version
  file,     \* FlashAlgo and SVD directories: NoFile, or <<pack, content>>
  entries,  \* lines of devices.txt that downloads have added: <<name, file>>
  trusted,  \* cmsispack.TRUSTED
  stack,    \* the calls under way
  calls, faults

disk == <<index, old, pdsc, file, entries>>
vars == <<latest, disk, trusted, stack, calls, faults>>

NoFile == <<>>
NoIndex == [p \in Packs |-> 0]
CutIndex == [p \in Packs |-> -1]
NoDisk == UNCHANGED disk
Fault == faults < MaxFaults /\ faults' = faults + 1

-----------------------------------------------------------------------------
(* The call on top.  dialog: SearchDialog's own calls, whose errors it only *)
(* shows; todo: the <<host, version>> still to be tried; cert: the first    *)
(* host refused; tries: failed attempts of the request; overlapped: another *)
(* call has been made from within this one.                                 *)

f == stack[Len(stack)]
Becomes(g) == stack' = [stack EXCEPT ![Len(stack)] = g]
Goes(pc) == Becomes([f EXCEPT !.pc = pc, !.tries = 0])
Ends == stack' = SubSeq(stack, 1, Len(stack) - 1)

Call(kind, p) ==
  [kind |-> kind, pack |-> p, dialog |-> kind # "detect", attempt |-> 1,
   pc |-> (IF kind = "detect" THEN "pdsc" ELSE "list"), todo |-> <<>>, cert |-> NoHost,
   tries |-> 0, got |-> "all", overlapped |-> FALSE]

Path(c) == IF c.kind = "svd" THEN <<"svd", c.pack>> ELSE FileOf[c.pack]
IndexPcs == {"list", "pdscIndex", "packIndex"}
ZipPcs == {"size", "tail", "whole", "directory", "header", "data"}

\* Where a progress message has just been shown, or may have been.
Yielding == {"pdscIndex", "pdscGet", "exists", "packIndex", "size", "tail", "whole", "add"}

\* Detecting the chip or searching for its type starts a call, also out of
\* net_say's processEvents, but not over a dialog.
Start ==
  /\ calls < MaxCalls /\ Len(stack) < MaxDepth
  /\ stack # <<>> => f.pc \in Yielding /\ ~f.dialog
  /\ \E kind \in Kinds, p \in Packs :
       stack' = Append([i \in DOMAIN stack |-> [stack[i] EXCEPT !.overlapped = TRUE]],
                       Call(kind, p))
  /\ calls' = calls + 1
  /\ NoDisk /\ UNCHANGED <<latest, trusted, faults>>

-----------------------------------------------------------------------------
(* Requests.                                                               *)

HostNow == IF f.pc \in IndexPcs THEN Keil ELSE f.todo[1][1]
Refused == HostNow \in BadCerts \ trusted
Offered(h, p, v) == <<h, p>> \in Carries /\ v = latest[p]
Found == f.pc \in ZipPcs => Offered(f.todo[1][1], f.pack, f.todo[1][2])

\* net_call: a refused certificate is put to the user, once; any other error
\* is shown.  SearchDialog.net shows both.
Raise(g, cert) ==
  IF g.dialog \/ (cert # NoHost /\ g.attempt = 2) THEN Ends
  ELSE IF cert # NoHost THEN Becomes([g EXCEPT !.pc = "ask", !.cert = cert])
  ELSE Becomes([g EXCEPT !.pc = "alert"])

\* try_sources, over the versions of each source: the next one is tried; when
\* there is none left, a refused certificate goes before any other error.
NextSource(cert) ==
  LET g == [f EXCEPT !.todo = Tail(@), !.tries = 0, !.cert = IF @ = NoHost THEN cert ELSE @]
  IN IF g.todo # <<>> THEN Becomes([g EXCEPT !.pc = IF f.pc = "pdscGet" THEN @ ELSE "size"])
     ELSE Raise(g, g.cert)

\* pack_index_entry makes any error of load_index a pack without an entry.
Sources(entry) ==
  IF (entry = 0 /\ f.kind = "detect") \/ Vendor[f.pack] = Keil THEN <<Keil>>
  ELSE <<Vendor[f.pack], Keil>>

Versions_PdscOnly(entry) == <<pdsc[f.pack]>>

\* The .pdsc and the index need not agree on the version: both are tried.
Versions(entry) ==
  IF entry \in {0, pdsc[f.pack]} THEN <<pdsc[f.pack]>> ELSE <<pdsc[f.pack], entry>>

Product(hs, vs) ==
  [i \in 1..(Len(hs) * Len(vs)) |->
     <<hs[((i - 1) \div Len(vs)) + 1], vs[((i - 1) % Len(vs)) + 1]>>]

WithEntry(entry) ==
  CASE f.pc = "list" -> Goes("pdsc")
    [] f.pc = "pdscIndex" -> Becomes([f EXCEPT !.pc = "pdscGet", !.cert = NoHost, !.tries = 0,
                                        !.todo = Product(Sources(entry), <<0>>)])
    [] f.pc = "packIndex" -> Becomes([f EXCEPT !.pc = "size", !.cert = NoHost, !.tries = 0,
                                        !.todo = Product(Sources(entry), Versions(entry))])

RequestFails(cert) ==
  CASE f.pc = "list" -> Raise(f, cert)
    [] f.pc \in {"pdscIndex", "packIndex"} -> WithEntry(0)
    [] OTHER -> NextSource(cert)

NeedsIndex == index = NoIndex \/ old
Requesting ==
  /\ stack # <<>>
  /\ f.pc \in ZipPcs \union {"pdscGet"} \/ (f.pc \in IndexPcs /\ NeedsIndex)

\* url_open raises CertExpired, which fetch passes on at once.
RefusedCert ==
  /\ Requesting /\ Refused
  /\ RequestFails(HostNow)
  /\ NoDisk /\ UNCHANGED <<latest, trusted, calls, faults>>

NotFound_Retried ==
  /\ Requesting /\ ~Refused /\ ~Found
  /\ stack' = stack
  /\ NoDisk /\ UNCHANGED <<latest, trusted, calls, faults>>

\* So is an answer of 4xx.
NotFound ==
  /\ Requesting /\ ~Refused /\ ~Found
  /\ RequestFails(NoHost)
  /\ NoDisk /\ UNCHANGED <<latest, trusted, calls, faults>>

\* Any other failure is retried, except content_length's.
Broken ==
  /\ Requesting /\ ~Refused /\ Fault
  /\ IF f.pc = "size" \/ f.tries + 1 = Retries THEN RequestFails(NoHost)
     ELSE Becomes([f EXCEPT !.tries = @ + 1])
  /\ NoDisk /\ UNCHANGED <<latest, trusted, calls>>

-----------------------------------------------------------------------------
(* The index and the .pdsc.                                                *)

\* load_index with an index that is there: a cut one does not parse.
ReadIndex ==
  /\ stack # <<>> /\ f.pc \in IndexPcs /\ ~NeedsIndex
  /\ IF index = CutIndex THEN RequestFails(NoHost) ELSE WithEntry(index[f.pack])
  /\ NoDisk /\ UNCHANGED <<latest, trusted, calls, faults>>

\* It is fetched and written over the old one; a write that fails leaves a
\* fresh file that does not parse.
FetchIndex ==
  /\ Requesting /\ f.pc \in IndexPcs /\ ~Refused
  /\ old' = FALSE
  /\ \/ index' = latest /\ WithEntry(latest[f.pack]) /\ UNCHANGED faults
     \/ Fault /\ index' = CutIndex /\ RequestFails(NoHost)
  /\ UNCHANGED <<latest, pdsc, file, entries, trusted, calls>>

\* load_pdsc: a .pdsc that is there is used, whatever its age.
LookForPdsc ==
  /\ stack # <<>> /\ f.pc = "pdsc"
  /\ Goes(IF pdsc[f.pack] = 0 THEN "pdscIndex" ELSE "parse")
  /\ NoDisk /\ UNCHANGED <<latest, trusted, calls, faults>>

FetchPdsc ==
  /\ Requesting /\ f.pc = "pdscGet" /\ ~Refused
  /\ \/ /\ pdsc' = [pdsc EXCEPT ![f.pack] = latest[f.pack]]
        /\ Goes("parse") /\ UNCHANGED faults
     \/ /\ Fault /\ pdsc' = [pdsc EXCEPT ![f.pack] = -1]
        /\ Raise(f, NoHost)
  /\ UNCHANGED <<latest, index, old, file, entries, trusted, calls>>

\* From the dialog's list a device is chosen, and net_call made, or none;
\* download_algorithm may find no device of the flash size.
Parse ==
  /\ stack # <<>> /\ f.pc = "parse"
  /\ IF pdsc[f.pack] = -1 THEN Raise(f, NoHost)
     ELSE \/ Becomes([f EXCEPT !.pc = IF f.dialog THEN "pdsc" ELSE "exists", !.dialog = FALSE])
          \/ f.dialog /\ Ends
          \/ f.kind = "detect" /\ Goes("absent")
  /\ NoDisk /\ UNCHANGED <<latest, trusted, calls, faults>>

-----------------------------------------------------------------------------
(* The file itself: grab_algorithm and download_svd.                       *)

Exists_Unchecked ==
  /\ stack # <<>> /\ f.pc = "exists"
  /\ Goes("packIndex")
  /\ NoDisk /\ UNCHANGED <<latest, trusted, calls, faults>>

\* A file of that name is never overwritten but used as it is.
Exists ==
  /\ stack # <<>> /\ f.pc = "exists"
  /\ Goes(IF file[Path(f)] # NoFile THEN "add" ELSE "packIndex")
  /\ NoDisk /\ UNCHANGED <<latest, trusted, calls, faults>>

\* remote_zip_member: HEAD, the tail, and, unless the server ignores ranges,
\* the central directory if the tail does not hold it, and the local header.
ZipStep ==
  /\ Requesting /\ ~Refused /\ Found
  /\ \/ f.pc = "size" /\ Goes("tail")
     \/ f.pc = "tail" /\ HostNow \in RangeHosts /\ (Goes("directory") \/ Goes("header"))
     \/ f.pc = "tail" /\ HostNow \notin RangeHosts /\ Goes("whole")
     \/ f.pc = "directory" /\ Goes("header")
     \/ f.pc = "header" /\ Goes("data")
  /\ NoDisk /\ UNCHANGED <<latest, trusted, calls, faults>>

LengthRight_Any(got) == TRUE

\* The data's length is compared with the directory's, a whole pack's CRC.
LengthRight(got) == got = "all"

ZipData ==
  /\ Requesting /\ ~Refused /\ Found
  /\ f.pc \in {"whole", "data"}
  /\ \E got \in {"all", "short"} :
       /\ IF got = "short" THEN Fault ELSE UNCHANGED faults
       /\ IF LengthRight(got) THEN Becomes([f EXCEPT !.pc = "write", !.got = got, !.tries = 0])
          ELSE NextSource(NoHost)
  /\ NoDisk /\ UNCHANGED <<latest, trusted, calls>>

\* The file is opened, which empties it, and written.
Write ==
  /\ stack # <<>> /\ f.pc = "write"
  /\ \/ /\ file' = [file EXCEPT ![Path(f)] = <<f.pack, f.got>>]
        /\ Goes("add") /\ UNCHANGED faults
     \/ /\ Fault
        /\ file' = [file EXCEPT ![Path(f)] = <<f.pack, "torn">>]
        /\ Raise(f, NoHost)
  /\ UNCHANGED <<latest, index, old, pdsc, entries, trusted, calls>>

\* add_device: a name that is taken gets a suffix; fetch_svd only remembers
\* the file's name.  devices.txt may not be writable.
Names(p) == {e[1] : e \in {d \in entries : d[1][1] = p}}
Add ==
  /\ stack # <<>> /\ f.pc = "add"
  /\ \/ /\ entries' = IF f.kind = "svd" THEN entries
                      ELSE entries \union {<<<<f.pack, Cardinality(Names(f.pack))>>, Path(f)>>}
        /\ UNCHANGED faults
     \/ f.kind # "svd" /\ Fault /\ UNCHANGED entries
  /\ Ends
  /\ UNCHANGED <<latest, index, old, pdsc, file, trusted, calls>>

-----------------------------------------------------------------------------
(* The user, the servers and the end of the program.                       *)

\* trust_host; with the user's consent the call is made once more.
Answer ==
  /\ stack # <<>> /\ f.pc = "ask"
  /\ \/ /\ trusted' = trusted \union {f.cert}
        /\ Becomes([f EXCEPT !.attempt = 2, !.pc = "pdsc", !.cert = NoHost])
     \/ Ends /\ UNCHANGED trusted
  /\ NoDisk /\ UNCHANGED <<latest, calls, faults>>

Dismiss ==
  /\ stack # <<>> /\ f.pc \in {"alert", "absent"}
  /\ Ends
  /\ NoDisk /\ UNCHANGED <<latest, trusted, calls, faults>>

\* A new version takes the place of the one before.
Publish ==
  /\ \E p \in Packs :
       /\ latest[p] < MaxVersion[p]
       /\ latest' = [latest EXCEPT ![p] = @ + 1]
  /\ NoDisk /\ UNCHANGED <<trusted, stack, calls, faults>>

WeekPasses ==
  /\ index # NoIndex /\ ~old
  /\ old' = TRUE
  /\ UNCHANGED <<latest, index, pdsc, file, entries, trusted, stack, calls, faults>>

\* The program is killed; files being written are cut short.
Crash ==
  /\ stack # <<>> /\ Fault
  /\ stack' = <<>> /\ trusted' = {}
  /\ \/ UNCHANGED <<index, pdsc, file>>
     \/ f.pc = "write" /\ file' = [file EXCEPT ![Path(f)] = <<f.pack, "torn">>]
        /\ UNCHANGED <<index, pdsc>>
     \/ f.pc = "pdscGet" /\ pdsc' = [pdsc EXCEPT ![f.pack] = -1] /\ UNCHANGED <<index, file>>
     \/ Requesting /\ f.pc \in IndexPcs /\ index' = CutIndex /\ UNCHANGED <<pdsc, file>>
  /\ UNCHANGED <<latest, old, entries, calls>>

Init ==
  /\ latest = [p \in Packs |-> 1]
  /\ index = NoIndex /\ old = FALSE
  /\ pdsc = [p \in Packs |-> 0]
  /\ file = [n \in Files |-> IF n \in Owned THEN <<"user", "all">> ELSE NoFile]
  /\ entries = {} /\ trusted = {}
  /\ stack = <<>> /\ calls = 0 /\ faults = 0

Advance ==
  \/ RefusedCert \/ NotFound \/ Broken
  \/ ReadIndex \/ FetchIndex \/ LookForPdsc \/ FetchPdsc \/ Parse
  \/ Exists \/ ZipStep \/ ZipData \/ Write \/ Add
  \/ Answer \/ Dismiss

Next == Advance \/ Start \/ Publish \/ WeekPasses \/ Crash

Spec == Init /\ [][Next]_vars /\ WF_vars(Advance)

-----------------------------------------------------------------------------
(* Properties.                                                             *)

\* What a line of devices.txt names is there and, however often requests fail
\* or are cut short, whole; only a write that fails, or a crash amid one, can
\* leave it torn, and as existing files are not fetched again it stays so.
UsedIsComplete == \A e \in entries : file[e[2]] # NoFile /\ file[e[2]][2] \in {"all", "torn"}

\* A call that no fault has met and no other overlapped fails only if no source
\* has the file in a version known from the .pdsc or the index; a source that
\* has it and whose certificate is refused is put to the user instead.
KnownVersions(p) == {pdsc[p], index[p]}
FailsForReason ==
  stack # <<>> /\ f.pc = "alert" /\ faults = 0 /\ ~f.overlapped
    => \A h \in {Vendor[f.pack], Keil}, v \in KnownVersions(f.pack) : ~Offered(h, f.pack, v)

\* An existing file is never changed, except by a call that had looked for it
\* before another call, made out of its progress messages, wrote it.
KeepsFiles ==
  [][\A n \in Files : file[n] # NoFile => file'[n] = file[n] \/ f.overlapped]_vars

\* Every call ends, whatever the servers do: the user gets the window back.
CallsEnd == stack # <<>> ~> stack = <<>>
=============================================================================
