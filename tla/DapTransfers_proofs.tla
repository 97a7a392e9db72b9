------------------------ MODULE DapTransfers_proofs ------------------------
(***************************************************************************)
(* Proofs about the packing and sending of register accesses, for packets  *)
(* of every size, every number of packets and every length of a request,   *)
(* and that they implement AccessQueue.                                    *)
(***************************************************************************)
EXTENDS DapTransfers, SequenceTheorems, WellFoundedInduction, TLAPS

-----------------------------------------------------------------------------
(* Sequences whose elements do not matter.                                 *)

IsSeq(s) == \E S : s \in Seq(S)

LEMMA EmptyIsSeq == IsSeq(<<>>) /\ Len(<<>>) = 0
BY EmptySeq DEF IsSeq

LEMMA LengthOfSeq ==
  ASSUME NEW s, IsSeq(s)
  PROVE  Len(s) \in Nat /\ (s # <<>> => Len(s) > 0)
<1>1. PICK S : s \in Seq(S)
  BY DEF IsSeq
<1> QED
  BY <1>1

LEMMA TailOfSeq ==
  ASSUME NEW s, IsSeq(s), s # <<>>
  PROVE  /\ IsSeq(Tail(s)) /\ Len(Tail(s)) = Len(s) - 1
         /\ \A j \in 1 .. Len(s) - 1 : Tail(s)[j] = s[j + 1]
<1>1. PICK S : s \in Seq(S)
  BY DEF IsSeq
<1>2. Tail(s) \in Seq(S) /\ Len(Tail(s)) = Len(s) - 1
  BY <1>1, HeadTailProperties
<1>3. \A j \in 1 .. Len(s) - 1 : Tail(s)[j] = s[j + 1]
  BY <1>1
<1> QED
  BY <1>2, <1>3 DEF IsSeq

LEMMA AppendToSeq ==
  ASSUME NEW s, IsSeq(s), NEW e
  PROVE  /\ IsSeq(Append(s, e)) /\ Len(Append(s, e)) = Len(s) + 1
         /\ \A j \in 1 .. Len(s) + 1 :
              Append(s, e)[j] = IF j <= Len(s) THEN s[j] ELSE e
<1>1. PICK S : s \in Seq(S)
  BY DEF IsSeq
<1> DEFINE T == S \cup {e}
<1>2. s \in Seq(T)
  BY <1>1, SeqMonotonic
<1>3. e \in T
  OBVIOUS
<1> HIDE DEF T
<1>4. Append(s, e) \in Seq(T) /\ Len(Append(s, e)) = Len(s) + 1
  BY <1>2, <1>3
<1>5. \A j \in 1 .. Len(s) + 1 : Append(s, e)[j] = IF j <= Len(s) THEN s[j] ELSE e
  BY <1>2, <1>3
<1> QED
  BY <1>4, <1>5 DEF IsSeq

-----------------------------------------------------------------------------
(* What is packed fits.                                                    *)

\* A command with its counts, which fits.
Sized(c) == c.rc \in Nat /\ c.wc \in Nat /\ c.block \in BOOLEAN /\ Fits(c)

LEMMA EmptyIsSized == Sized(Empty)
BY PacketAssumption DEF Sized, Fits, Empty

\* As many words as the division allows take up no more than there was.
LEMMA QuotientBy4 ==
  ASSUME NEW a \in Int, NEW n \in Int, n <= a \div 4
  PROVE  4 * n <= a
OBVIOUS

LEMMA QuotientBy5 ==
  ASSUME NEW a \in Int, NEW n \in Int, n <= a \div 5
  PROVE  5 * n <= a
OBVIOUS

LEMMA RoomForWrites ==
  ASSUME NEW p \in Nat, NEW rc \in Nat, NEW wc \in Nat, NEW k \in Nat,
         5 * k <= p - 3 - rc - 5 * wc
  PROVE  3 + rc + 5 * (wc + k) <= p
OBVIOUS

LEMMA RoomForReads ==
  ASSUME NEW p \in Nat, NEW rc \in Nat, NEW wc \in Nat, NEW k \in Nat,
         k <= p - 3 - rc - 5 * wc
  PROVE  3 + (rc + k) + 5 * wc <= p
OBVIOUS

LEMMA AtMost ==
  ASSUME NEW a \in Int, NEW b \in Int, NEW d \in Int, a <= b, b <= d
  PROVE  a <= d
OBVIOUS

LEMMA LeastBounds ==
  ASSUME NEW a \in Int, NEW b \in Int
  PROVE  Least(a, b) \in Int /\ Least(a, b) <= a /\ Least(a, b) <= b
BY DEF Least

LEMMA SameInterval ==
  ASSUME NEW m \in Nat, NEW n \in Nat, 1 .. m = 1 .. n
  PROVE  m = n
<1>1. ~(m < n)
  <2>1. n \in 1 .. n => n \in 1 .. m
    OBVIOUS
  <2> QED
    BY <2>1
<1>2. ~(n < m)
  <2>1. m \in 1 .. m => m \in 1 .. n
    OBVIOUS
  <2> QED
    BY <2>1
<1> QED
  BY <1>1, <1>2

LEMMA LengthOfWords ==
  ASSUME NEW n \in Nat
  PROVE  Len(NextWords(n)) = n
<1> DEFINE w == NextWords(n)
           T == {<<cur, sizeOf[cur] - rest + k>> : k \in 1 .. n}
<1>1. w \in [1 .. n -> T]
  BY DEF NextWords
<1> HIDE DEF T, w
<1>2. w \in Seq(T)
  BY <1>1, SeqDef
<1>3. DOMAIN w = 1 .. Len(w) /\ Len(w) \in Nat
  BY <1>2, LenProperties
<1>4. DOMAIN w = 1 .. n
  BY <1>1
<1>5. Len(w) = n
  BY <1>3, <1>4, SameInterval
<1> QED
  BY <1>5 DEF w

\* Space never promises more than there is, in the form the command will have.
LEMMA SpaceFits ==
  ASSUME NEW c, Sized(c), NEW r, NEW n \in Nat, NEW ws,
         Space(c, r, n) \in Nat, Len(ws) = Space(c, r, n)
  PROVE  Sized(Added(c, r, ws))
<1> DEFINE k == Space(c, r, n)
           b == Uniform(c, r)
           a == Added(c, r, ws)
           free == FreeWords(c, b, IsRead(r))
           sendB == PacketSize - 5 - 4 * c.wc
           recvB == PacketSize - 4 - 4 * c.rc
           sendS == PacketSize - 3 - c.rc - 5 * c.wc
           recvS == PacketSize - 3 - 4 * c.rc
<1>0. /\ PacketSize \in Nat /\ MaxTransfers \in Nat
      /\ c.rc \in Nat /\ c.wc \in Nat /\ k \in Nat /\ b \in BOOLEAN
  BY PacketAssumption DEF Sized, Uniform
<1>1. /\ IsRead(r) => a.rc = c.rc + k /\ a.wc = c.wc
      /\ ~IsRead(r) => a.rc = c.rc /\ a.wc = c.wc + k
      /\ a.block = b
  BY <1>0 DEF Added
<1>2. /\ sendB \in Int /\ recvB \in Int /\ sendS \in Int /\ recvS \in Int
      /\ sendB \div 4 \in Int /\ recvB \div 4 \in Int
      /\ sendS \div 5 \in Int /\ recvS \div 4 \in Int
  <2>1. sendB \in Int /\ recvB \in Int /\ sendS \in Int /\ recvS \in Int
    <3>1. sendB \in Int /\ recvB \in Int
      BY <1>0
    <3>2. sendS \in Int /\ recvS \in Int
      BY <1>0
    <3> QED
      BY ONLY <3>1, <3>2
  <2> HIDE DEF sendB, recvB, sendS, recvS
  <2>2. sendB \div 4 \in Int /\ recvB \div 4 \in Int
    BY <2>1
  <2>3. sendS \div 5 \in Int /\ recvS \div 4 \in Int
    BY <2>1
  <2> QED
    BY <2>1, <2>2, <2>3
<1>3. /\ b /\ IsRead(r) => free = recvB \div 4
      /\ b /\ ~IsRead(r) => free = sendB \div 4
      /\ ~b /\ IsRead(r) => free = Least(sendS, recvS \div 4)
      /\ ~b /\ ~IsRead(r) => free = sendS \div 5
  BY DEF FreeWords
<1>4. /\ b => k = Least(n, free)
      /\ ~b => k = Least(Least(n, free), MaxTransfers - c.wc - c.rc)
  BY DEF Space
<1>5. /\ b => 5 + 4 * c.wc <= PacketSize /\ 4 + 4 * c.rc <= PacketSize
      /\ 3 + 4 * c.rc <= PacketSize
  BY <1>0 DEF Uniform, Sized, Fits
<1>6. SUFFICES Fits(a)
  <2>1. a.rc \in Nat /\ a.wc \in Nat /\ a.block \in BOOLEAN
    BY <1>0, <1>1
  <2> QED
    BY <2>1 DEF Sized
<1> HIDE DEF k, b, a, free
<1>7. CASE b /\ IsRead(r)
  <2>1. k <= recvB \div 4
    BY <1>2, <1>3, <1>4, <1>7, LeastBounds
  <2>2. 4 * k <= recvB
    <3> HIDE DEF recvB
    <3> QED
      BY <2>1, <1>0, <1>2, QuotientBy4
  <2> QED
    <3>1. a.rc = c.rc + k /\ a.wc = c.wc /\ a.block
      BY <1>1, <1>7
    <3>2. 4 + 4 * (c.rc + k) <= PacketSize
      BY <1>0, <2>2
    <3> QED
      BY <1>5, <1>7, <3>1, <3>2 DEF Fits
<1>8. CASE b /\ ~IsRead(r)
  <2>1. k <= sendB \div 4
    BY <1>2, <1>3, <1>4, <1>8, LeastBounds
  <2>2. 4 * k <= sendB
    <3> HIDE DEF sendB
    <3> QED
      BY <2>1, <1>0, <1>2, QuotientBy4
  <2> QED
    <3>1. a.rc = c.rc /\ a.wc = c.wc + k /\ a.block
      BY <1>1, <1>8
    <3>2. 5 + 4 * (c.wc + k) <= PacketSize
      BY <1>0, <2>2
    <3> QED
      BY <1>5, <1>8, <3>1, <3>2 DEF Fits
<1>9. CASE ~b
  <2>1. free \in Int
    BY <1>2, <1>3, <1>9, LeastBounds
  <2>2. Least(n, free) \in Int /\ Least(n, free) <= free
    <3>1. n \in Int
      OBVIOUS
    <3> QED
      BY <2>1, <3>1, LeastBounds
  <2>3. MaxTransfers - c.wc - c.rc \in Int
    BY <1>0
  <2>4. k <= Least(n, free) /\ k <= MaxTransfers - c.wc - c.rc
    BY <2>2, <2>3, <1>4, <1>9, LeastBounds
  <2>5. k <= free
    BY <2>1, <2>2, <2>4, <1>0
  <2>6. CASE IsRead(r)
    <3> HIDE DEF sendS, recvS
    <3>0. k \in Int /\ sendS \in Int /\ recvS \div 4 \in Int
      BY <1>0, <1>2
    <3>1. free <= sendS /\ free <= recvS \div 4
      BY <1>2, <1>3, <1>9, <2>6, LeastBounds
    <3>2. k <= recvS \div 4
      BY <3>0, <3>1, <2>5, <2>1, AtMost
    <3>3. 4 * k <= recvS
      BY <3>2, <3>0, <1>2, QuotientBy4
    <3>4. k <= sendS
      BY <3>0, <3>1, <2>5, <2>1, AtMost
    <3> QED
      <4>1. a.rc = c.rc + k /\ a.wc = c.wc /\ ~a.block
        BY <1>1, <1>9, <2>6
      <4>2. /\ 3 + (c.rc + k) + 5 * c.wc <= PacketSize
            /\ 3 + 4 * (c.rc + k) <= PacketSize
            /\ (c.rc + k) + c.wc <= MaxTransfers
        <5>1. 3 + (c.rc + k) + 5 * c.wc <= PacketSize
          BY <1>0, <3>4, RoomForReads DEF sendS
        <5>2. 3 + 4 * (c.rc + k) <= PacketSize
          BY <1>0, <3>3 DEF recvS
        <5>3. (c.rc + k) + c.wc <= MaxTransfers
          BY <1>0, <2>4
        <5> QED
          BY <5>1, <5>2, <5>3
      <4> QED
        BY <4>1, <4>2 DEF Fits
  <2>7. CASE ~IsRead(r)
    <3>1. k <= sendS \div 5
      BY <1>3, <1>9, <2>5, <2>7
    <3>2. 5 * k <= sendS
      <4> HIDE DEF sendS
      <4> QED
        BY <3>1, <1>0, <1>2, QuotientBy5
    <3> QED
      <4>1. a.rc = c.rc /\ a.wc = c.wc + k /\ ~a.block
        BY <1>1, <1>9, <2>7
      <4>2. /\ 3 + c.rc + 5 * (c.wc + k) <= PacketSize
            /\ c.rc + (c.wc + k) <= MaxTransfers
        <5>1. 3 + c.rc + 5 * (c.wc + k) <= PacketSize
          BY <1>0, <3>2, RoomForWrites
        <5>2. c.rc + (c.wc + k) <= MaxTransfers
          BY <1>0, <2>4
        <5> QED
          BY <5>1, <5>2
      <4> QED
        BY <1>5, <4>1, <4>2 DEF Fits
  <2> QED
    BY <2>6, <2>7
<1> QED
  BY <1>0, <1>7, <1>8, <1>9

\* What is added is part of the request.
LEMMA SpaceBounds ==
  ASSUME NEW c, Sized(c), NEW r, NEW n \in Nat
  PROVE  Space(c, r, n) \in Int /\ Space(c, r, n) <= n
<1> DEFINE free == FreeWords(c, Uniform(c, r), IsRead(r))
<1>1. free \in Int
  <2> DEFINE sendB == PacketSize - 5 - 4 * c.wc
             recvB == PacketSize - 4 - 4 * c.rc
             sendS == PacketSize - 3 - c.rc - 5 * c.wc
             recvS == PacketSize - 3 - 4 * c.rc
  <2>1. sendB \in Int /\ recvB \in Int /\ sendS \in Int /\ recvS \in Int
    BY PacketAssumption DEF Sized
  <2>2. free \in {recvB \div 4, sendB \div 4, Least(sendS, recvS \div 4), sendS \div 5}
    BY DEF FreeWords
  <2> HIDE DEF sendB, recvB, sendS, recvS, free
  <2>3. /\ recvB \div 4 \in Int /\ sendB \div 4 \in Int
        /\ recvS \div 4 \in Int /\ sendS \div 5 \in Int
    BY <2>1
  <2>4. Least(sendS, recvS \div 4) \in Int
    BY <2>1, <2>3, LeastBounds
  <2> QED
    BY <2>2, <2>3, <2>4
<1> HIDE DEF free
<1>2. Least(n, free) \in Int /\ Least(n, free) <= n
  <2>1. n \in Int
    OBVIOUS
  <2> QED
    BY <1>1, <2>1, LeastBounds
<1>3. MaxTransfers - c.wc - c.rc \in Int
  BY PacketAssumption DEF Sized
<1>4. Space(c, r, n) \in {Least(n, free), Least(Least(n, free), MaxTransfers - c.wc - c.rc)}
  BY DEF Space, free
<1> QED
  <2> DEFINE least == Least(n, free)
             both  == Least(least, MaxTransfers - c.wc - c.rc)
  <2>1. least \in Int /\ least <= n
    BY <1>2
  <2>2. Space(c, r, n) \in {least, both}
    BY <1>4
  <2> HIDE DEF least
  <2>3. both \in Int /\ both <= least
    BY <2>1, <1>3, LeastBounds
  <2> HIDE DEF both
  <2> QED
    BY <2>1, <2>2, <2>3

-----------------------------------------------------------------------------
(* The inductive invariant.                                                *)

\* rest counts words, so that what is packed has a length.
PackInv ==
  /\ rest \in Nat /\ IsSeq(sent)
  /\ Sized(crnt) /\ \A j \in 1 .. Len(sent) : Sized(sent[j])

\* Each response that is due belongs to a packet in sent or is to be skipped.
DueInv ==
  /\ IsSeq(probe) /\ IsSeq(out) /\ IsSeq(sent)
  /\ after \in {"pack", "drain"} /\ desync \in BOOLEAN
  /\ skip \in Nat /\ Len(sent) + skip <= PacketCount
  /\ pc = "skip" => sent = <<>> /\ skip > 0
  /\ pc # "skip" => skip = 0
  /\ ~desync => Len(probe) + Len(out) = Len(sent) + skip

LEMMA InitPackInv == Init => PackInv
BY EmptyIsSeq, EmptyIsSized DEF Init, PackInv

LEMMA InitDueInv == Init => DueInv
<1> SUFFICES ASSUME Init PROVE DueInv
  OBVIOUS
<1>1. /\ probe = <<>> /\ out = <<>> /\ sent = <<>> /\ after = "pack" /\ desync = FALSE
      /\ skip = 0 /\ pc = "idle"
  BY DEF Init
<1>2. Len(sent) = 0 /\ Len(probe) = 0 /\ Len(out) = 0
  BY <1>1, EmptyIsSeq
<1>3. IsSeq(probe) /\ IsSeq(out) /\ IsSeq(sent)
  BY <1>1, EmptyIsSeq
<1>4. after \in {"pack", "drain"} /\ desync \in BOOLEAN
  BY <1>1
<1>5. skip \in Nat /\ Len(sent) + skip <= PacketCount /\ Len(probe) + Len(out) = Len(sent) + skip
  BY <1>1, <1>2, PacketAssumption
<1>6. pc # "skip"
  BY <1>1
<1> QED
  BY <1>1, <1>3, <1>4, <1>5, <1>6 DEF DueInv

\* A failure leaves nothing packed.
LEMMA AbortPackInv == ASSUME NEW n, Abort(n) PROVE PackInv'
BY EmptyIsSeq, EmptyIsSized DEF Abort, PackInv

LEMMA StepPackInv == PackInv /\ [Next]_vars => PackInv'
<1> SUFFICES ASSUME PackInv, [Next]_vars PROVE PackInv'
  OBVIOUS
<1> USE DEF PackInv
<1>1. ASSUME NEW r \in Requests, NEW n \in 1 .. MaxWords, Issue(r, n) PROVE PackInv'
  BY <1>1, PacketAssumption DEF Issue
<1>2. CASE Pack
  <2> DEFINE size == Space(crnt, reqOf[cur], rest)
  <2>1. CASE size <= 0
    BY <1>2, <2>1 DEF Pack
  <2>2. CASE ~(size <= 0)
    <3>1. /\ crnt' = Added(crnt, reqOf[cur], NextWords(size)) /\ rest' = rest - size
          /\ sent' = sent /\ rest > 0
      BY <1>2, <2>2 DEF Pack
    <3>2. size \in Nat /\ size <= rest
      BY <2>2, SpaceBounds
    <3>3. Len(NextWords(size)) = size
      BY <3>2, LengthOfWords
    <3>4. Sized(crnt')
      BY <3>1, <3>2, <3>3, SpaceFits
    <3> HIDE DEF size
    <3> QED
      BY <3>1, <3>2, <3>4
  <2> QED
    BY <2>1, <2>2
<1>3. CASE Send
  <2>1. /\ IsSeq(Append(sent, crnt)) /\ Len(Append(sent, crnt)) = Len(sent) + 1
        /\ \A j \in 1 .. Len(sent) + 1 :
             Append(sent, crnt)[j] = IF j <= Len(sent) THEN sent[j] ELSE crnt
    BY AppendToSeq
  <2>2. Len(sent) \in Nat
    BY LengthOfSeq
  <2>3. sent' = Append(sent, crnt) /\ crnt' = Empty /\ rest' = rest
    BY <1>3 DEF Send, NewCommand
  <2>4. \A j \in 1 .. Len(sent) + 1 : Sized(Append(sent, crnt)[j])
    BY <2>1, <2>2
  <2> QED
    BY <2>1, <2>3, <2>4, EmptyIsSized
<1>4. CASE Read
  <2>1. sent' = Tail(sent) /\ crnt' = crnt /\ rest' = rest /\ sent # <<>>
    BY <1>4 DEF Read, Reading, control
  <2>2. /\ IsSeq(Tail(sent)) /\ Len(Tail(sent)) = Len(sent) - 1
        /\ \A j \in 1 .. Len(sent) - 1 : Tail(sent)[j] = sent[j + 1]
    BY <2>1, TailOfSeq
  <2>3. Len(sent) \in Nat
    BY LengthOfSeq
  <2>4. \A j \in 1 .. Len(sent) - 1 : Sized(Tail(sent)[j])
    BY <2>2, <2>3
  <2> QED
    BY <2>1, <2>2, <2>4
<1>5. CASE SendRaises
  BY <1>5, AbortPackInv DEF SendRaises
<1>6. CASE ReadFails
  BY <1>6, AbortPackInv DEF ReadFails
<1>7. CASE ReadRaises
  BY <1>7, AbortPackInv DEF ReadRaises
<1>8. CASE UNCHANGED <<crnt, sent, rest>>
  BY <1>8
<1>9. CASE \/ PackDone \/ GetResult \/ GetAsserts \/ GetFlushes \/ Drained \/ SendNothing
           \/ Skip \/ SkipRaises \/ Flush \/ Execute \/ (\E id \in Ids : Get(id))
           \/ UNCHANGED vars
  BY <1>8, <1>9 DEF PackDone, GetResult, GetAsserts, GetFlushes, Drained, SendNothing,
    Skip, SkipRaises, Flush, Execute, Get, vars, queue, control
<1> QED
  BY <1>1, <1>2, <1>3, <1>4, <1>5, <1>6, <1>7, <1>9 DEF Next, Host, Works, Caller

LEMMA StepDueInv == DueInv /\ [Next]_vars => DueInv'
<1> SUFFICES ASSUME DueInv, [Next]_vars PROVE DueInv'
  OBVIOUS
<1> USE DEF DueInv
<1>0. /\ Len(sent) \in Nat /\ Len(probe) \in Nat /\ Len(out) \in Nat
      /\ PacketCount \in Nat /\ PacketCount > 0
      /\ (sent # <<>> => Len(sent) > 0) /\ (out # <<>> => Len(out) > 0)
  BY LengthOfSeq, PacketAssumption
<1>1. CASE Send
  <2>1. /\ IsSeq(Append(sent, crnt)) /\ Len(Append(sent, crnt)) = Len(sent) + 1
        /\ IsSeq(Append(probe, crnt)) /\ Len(Append(probe, crnt)) = Len(probe) + 1
    BY AppendToSeq
  <2>2. Len(sent) < PacketCount
    BY <1>0, <1>1 DEF Send, ProbeFull
  <2>3. /\ sent' = Append(sent, crnt) /\ probe' = Append(probe, crnt) /\ out' = out
        /\ skip' = skip /\ skip = 0 /\ pc' = after /\ after' = after /\ desync' = desync
    BY <1>1 DEF Send, history
  <2> QED
    BY <1>0, <2>1, <2>2, <2>3
<1>2. CASE SendRaises
  <2>1. /\ sent' = <<>> /\ skip' = 0 /\ after' = after /\ out' = out /\ pc' = "idle"
        /\ probe' \in {probe, Append(probe, crnt)}
        /\ desync' = (desync \/ probe' # <<>> \/ out # <<>>)
    BY <1>2 DEF SendRaises, Abort
  <2>2. IsSeq(Append(probe, crnt))
    BY AppendToSeq
  <2>3. IsSeq(probe')
    BY <2>1, <2>2
  <2>4. desync' \in BOOLEAN
    BY <2>1
  <2>5. ~desync' => probe' = <<>> /\ out' = <<>>
    BY <2>1
  <2> QED
    BY <1>0, <2>1, <2>3, <2>4, <2>5, EmptyIsSeq
<1>3. CASE Read
  <2>1. /\ sent' = Tail(sent) /\ out' = Tail(out) /\ sent # <<>> /\ out # <<>>
        /\ probe' = probe /\ skip' = skip /\ pc' = pc /\ after' = after /\ desync' = desync
        /\ pc # "skip"
    BY <1>3 DEF Read, Reading, control, history
  <2>2. /\ IsSeq(Tail(sent)) /\ Len(Tail(sent)) = Len(sent) - 1
        /\ IsSeq(Tail(out)) /\ Len(Tail(out)) = Len(out) - 1
    BY <2>1, TailOfSeq
  <2>3. skip' = 0 /\ pc' # "skip" /\ after' \in {"pack", "drain"} /\ desync' \in BOOLEAN
    BY <2>1
  <2>4. Len(sent') + skip' <= PacketCount
    <3>1. Len(sent') = Len(sent) - 1 /\ skip' = skip
      BY <2>1, <2>2
    <3> QED
      BY <1>0, <3>1
  <2>5. ~desync' => Len(probe') + Len(out') = Len(sent') + skip'
    <3>1. ~desync' => Len(probe) + Len(out) = Len(sent) + skip
      BY <2>1
    <3>2. Len(probe') = Len(probe) /\ Len(out') = Len(out) - 1 /\ Len(sent') = Len(sent) - 1
      BY <2>1, <2>2
    <3> QED
      BY <1>0, <2>1, <3>1, <3>2
  <2> QED
    BY <1>0, <2>1, <2>2, <2>3, <2>4, <2>5
<1>4. CASE ReadFails
  <2> DEFINE d == Decoded(Head(sent), Head(out))
             n == IF d = "transfer" THEN Pending ELSE 0
  <2>1. /\ sent # <<>> /\ out # <<>> /\ pc # "skip" /\ probe' = probe /\ out' = Tail(out)
        /\ d # "ok"
        /\ Abort(n)
        /\ desync' = (desync \/ (d = "value" /\ (probe # <<>> \/ Tail(out) # <<>>)))
    BY <1>4 DEF ReadFails, Reading
  <2>2. d \in {"value", "transfer", "ok"}
    BY DEF Decoded
  <2>3. /\ sent' = <<>> /\ skip' = n /\ after' = after
        /\ pc' = IF n > 0 THEN "skip" ELSE "idle"
    BY <2>1 DEF Abort
  <2>4. IsSeq(Tail(out)) /\ Len(Tail(out)) = Len(out) - 1
    BY <2>1, TailOfSeq
  <2>5. n \in Nat /\ n <= PacketCount /\ (d = "transfer" => n = Len(sent) - 1)
        /\ (d = "value" => n = 0)
    BY <1>0, <2>1, <2>2 DEF Pending
  <2>6. desync' \in BOOLEAN /\ (~desync' => ~desync)
    BY <2>1
  <2> HIDE DEF d, n
  <2>7. ~desync' => Len(probe) + (Len(out) - 1) = n
    <3>1. CASE d = "transfer"
      BY <1>0, <2>1, <2>5, <2>6, <3>1
    <3>2. CASE d = "value"
      <4>1. ~desync' => probe = <<>> /\ Tail(out) = <<>>
        BY <2>1, <3>2
      <4>2. ~desync' => Len(probe) = 0 /\ Len(out) - 1 = 0
        BY <2>4, <4>1, EmptyIsSeq
      <4> QED
        BY <2>5, <3>2, <4>2
    <3> QED
      BY <2>1, <2>2, <3>1, <3>2
  <2> QED
    BY <1>0, <2>1, <2>3, <2>4, <2>5, <2>6, <2>7, EmptyIsSeq
<1>5. CASE ReadRaises
  <2>1. /\ sent' = <<>> /\ skip' = 0 /\ after' = after /\ out' = out /\ pc' = "idle"
        /\ probe' = probe /\ desync' = (desync \/ probe # <<>> \/ out # <<>>)
    BY <1>5 DEF ReadRaises, Abort, device
  <2>2. desync' \in BOOLEAN /\ (~desync' => probe = <<>> /\ out = <<>>)
    BY <2>1
  <2> QED
    BY <1>0, <2>1, <2>2, EmptyIsSeq
<1>6. CASE Skip
  <2>1. /\ out # <<>> /\ out' = Tail(out) /\ skip' = skip - 1 /\ sent' = sent /\ pc = "skip"
        /\ probe' = probe /\ after' = after /\ desync' = desync
        /\ pc' = IF skip = 1 THEN "idle" ELSE "skip"
    BY <1>6 DEF Skip, queue, history
  <2>2. IsSeq(Tail(out)) /\ Len(Tail(out)) = Len(out) - 1
    BY <2>1, TailOfSeq
  <2> QED
    BY <1>0, <2>1, <2>2
<1>7. CASE SkipRaises
  <2>1. /\ sent' = sent /\ sent = <<>> /\ skip' = 0 /\ pc' = "idle" /\ desync' = TRUE
        /\ probe' = probe /\ out' = out /\ after' = after
    BY <1>7 DEF SkipRaises, queue, device
  <2> QED
    BY <1>0, <2>1, EmptyIsSeq
<1>8. CASE Execute
  <2>1. /\ probe # <<>> /\ probe' = Tail(probe) /\ sent' = sent /\ skip' = skip
        /\ pc' = pc /\ after' = after /\ desync' = desync
        /\ \E e : out' = Append(out, e)
    BY <1>8 DEF Execute, queue, control, history
  <2>2. IsSeq(Tail(probe)) /\ Len(Tail(probe)) = Len(probe) - 1
    BY <2>1, TailOfSeq
  <2>3. IsSeq(out') /\ Len(out') = Len(out) + 1
    BY <2>1, AppendToSeq
  <2> QED
    BY <1>0, <2>1, <2>2, <2>3
<1>9. CASE UNCHANGED <<sent, probe, out, skip, desync>> /\ pc # "skip" /\ pc' # "skip"
           /\ after' \in {"pack", "drain"}
  BY <1>9
<1>10. CASE UNCHANGED vars
  BY <1>10 DEF vars, queue, control, device, history
<1>11. CASE \/ Pack \/ PackDone \/ GetResult \/ GetAsserts \/ GetFlushes \/ Drained
            \/ SendNothing \/ Flush \/ (\E id \in Ids : Get(id))
            \/ (\E r \in Requests, n \in 1 .. MaxWords : Issue(r, n))
  BY <1>9, <1>11 DEF Pack, PackDone, GetResult, GetAsserts, GetFlushes, Drained,
    SendNothing, Flush, Get, Issue, queue, control, device, history
<1> QED
  BY <1>1, <1>2, <1>3, <1>4, <1>5, <1>6, <1>7, <1>8, <1>10, <1>11 DEF Next, Host, Works, Caller

-----------------------------------------------------------------------------
(* Induction, and the choice of words from a command.                      *)

LEMMA LeastNumber ==
  ASSUME NEW T \in SUBSET Nat, T # {}
  PROVE  \E n \in T : \A m \in T : n <= m
<1> DEFINE R == OpToRel(<, Nat)
<1>1. IsWellFoundedOn(R, Nat)
  BY NatLessThanWellFounded
<1>2. \A m, n \in Nat : <<m, n>> \in R <=> m < n
  BY DEF OpToRel
<1> HIDE DEF R
<1>3. PICK n \in T : \A m \in T : <<m, n>> \notin R
  BY <1>1, WFMin
<1>4. \A m \in T : ~(m < n)
  BY <1>2, <1>3
<1> QED
  BY <1>4

\* Induction, about a set as the provers take no predicate.
LEMMA Induct ==
  ASSUME NEW S, 0 \in S, \A n \in Nat : n \in S => n + 1 \in S
  PROVE  \A n \in Nat : n \in S
<1> DEFINE T == Nat \ S
<1>1. SUFFICES ASSUME T # {} PROVE FALSE
  OBVIOUS
<1>2. PICK n \in T : \A m \in T : n <= m
  BY <1>1, LeastNumber
<1>3. n # 0 /\ n - 1 \in Nat /\ n - 1 \notin T
  BY <1>2
<1> QED
  BY <1>3

\* The first n words of ws have been looked at.
ChosenBy(f, ws, ids, n) ==
  /\ f \in [0 .. n -> Seq(Word)] /\ f[0] = <<>>
  /\ \A m \in 1 .. n : f[m] = IF ws[m][1] \in ids THEN Append(f[m - 1], ws[m]) ELSE f[m - 1]

LEMMA ChosenExists ==
  ASSUME NEW ws \in Seq(Word), NEW ids
  PROVE  \A n \in Nat : n <= Len(ws) => \E f : ChosenBy(f, ws, ids, n)
<1> DEFINE S == {n \in Nat : n <= Len(ws) => \E f : ChosenBy(f, ws, ids, n)}
<1>1. 0 \in S
  <2>1. ChosenBy([m \in 0 .. 0 |-> <<>>], ws, ids, 0)
    BY DEF ChosenBy
  <2> QED
    BY <2>1
<1>2. ASSUME NEW n \in Nat, n \in S PROVE n + 1 \in S
  <2>1. SUFFICES ASSUME n + 1 <= Len(ws) PROVE \E f : ChosenBy(f, ws, ids, n + 1)
    BY <1>2
  <2>2. PICK f : ChosenBy(f, ws, ids, n)
    BY <1>2, <2>1
  <2> DEFINE g == [m \in 0 .. n + 1 |->
                     IF m <= n THEN f[m]
                     ELSE IF ws[n + 1][1] \in ids THEN Append(f[n], ws[n + 1]) ELSE f[n]]
  <2>3. f[n] \in Seq(Word) /\ ws[n + 1] \in Word
    BY <2>1, <2>2 DEF ChosenBy
  <2>4. g \in [0 .. n + 1 -> Seq(Word)]
    BY <2>2, <2>3 DEF ChosenBy
  <2>5. g[0] = <<>>
    BY <2>2 DEF ChosenBy
  <2>6. ASSUME NEW m \in 1 .. n + 1
        PROVE  g[m] = IF ws[m][1] \in ids THEN Append(g[m - 1], ws[m]) ELSE g[m - 1]
    <3>1. CASE m <= n
      BY <3>1, <2>2 DEF ChosenBy
    <3>2. CASE m = n + 1
      BY <3>2
    <3> QED
      BY <3>1, <3>2
  <2> HIDE DEF g
  <2>7. ChosenBy(g, ws, ids, n + 1)
    BY <2>4, <2>5, <2>6 DEF ChosenBy
  <2> QED
    BY <2>7
<1> HIDE DEF S
<1>3. \A n \in Nat : n \in S
  BY <1>1, <1>2, Induct
<1> QED
  BY <1>3 DEF S

LEMMA ChosenIs ==
  ASSUME NEW ws \in Seq(Word), NEW ids
  PROVE  \E f : ChosenBy(f, ws, ids, Len(ws)) /\ Chosen(ws, ids) = f[Len(ws)]
<1> DEFINE F(f) == [n \in 0 .. Len(ws) |->
                     IF n = 0 THEN <<>>
                     ELSE IF ws[n][1] \in ids THEN Append(f[n - 1], ws[n]) ELSE f[n - 1]]
           g == CHOOSE f : f = F(f)
<1>0. Len(ws) \in Nat /\ Len(ws) <= Len(ws)
  OBVIOUS
<1>1. PICK f : ChosenBy(f, ws, ids, Len(ws))
  BY <1>0, ChosenExists
<1>2. f = F(f)
  <2>1. DOMAIN f = 0 .. Len(ws) /\ f = [n \in 0 .. Len(ws) |-> f[n]]
    BY <1>1 DEF ChosenBy
  <2>2. ASSUME NEW n \in 0 .. Len(ws) PROVE f[n] = F(f)[n]
    <3>1. CASE n = 0
      BY <1>1, <3>1 DEF ChosenBy
    <3>2. CASE n # 0
      <4>1. n \in 1 .. Len(ws)
        BY <3>2
      <4> QED
        BY <1>1, <4>1 DEF ChosenBy
    <3> QED
      BY <3>1, <3>2
  <2> QED
    BY <2>1, <2>2
<1>3. g = F(g)
  BY <1>2
<1>4. Chosen(ws, ids) = g[Len(ws)]
  BY DEF Chosen
<1> HIDE DEF g
<1>5. g[0] = <<>>
  BY <1>3
<1>6. ASSUME NEW m \in 1 .. Len(ws)
      PROVE  g[m] = IF ws[m][1] \in ids THEN Append(g[m - 1], ws[m]) ELSE g[m - 1]
  <2>1. m \in 0 .. Len(ws) /\ m # 0
    OBVIOUS
  <2>2. g[m] = F(g)[m]
    BY <1>3
  <2> QED
    BY <2>1, <2>2
<1> HIDE DEF F
<1>7. \A n \in Nat : n \in {m \in Nat : m <= Len(ws) => g[m] \in Seq(Word)}
  <2> DEFINE S == {m \in Nat : m <= Len(ws) => g[m] \in Seq(Word)}
  <2>1. 0 \in S
    <3>1. g[0] \in Seq(Word)
      BY <1>5
    <3> QED
      BY <3>1
  <2>2. ASSUME NEW n \in Nat, n \in S PROVE n + 1 \in S
    <3>1. SUFFICES ASSUME n + 1 <= Len(ws) PROVE g[n + 1] \in Seq(Word)
      OBVIOUS
    <3>2. g[n] \in Seq(Word) /\ ws[n + 1] \in Word
      BY <2>2, <3>1
    <3>3. g[n + 1] = IF ws[n + 1][1] \in ids THEN Append(g[n], ws[n + 1]) ELSE g[n]
      BY <1>6, <3>1
    <3> QED
      BY <3>2, <3>3
  <2> HIDE DEF S
  <2>3. \A n \in Nat : n \in S
    BY <2>1, <2>2, Induct
  <2> QED
    BY <2>3 DEF S
<1>8. g \in [0 .. Len(ws) -> Seq(Word)]
  <2>1. g = [n \in 0 .. Len(ws) |-> g[n]]
    BY <1>3 DEF F
  <2>2. \A n \in 0 .. Len(ws) : g[n] \in Seq(Word)
    BY <1>7
  <2> QED
    BY <2>1, <2>2
<1>9. ChosenBy(g, ws, ids, Len(ws))
  BY <1>5, <1>6, <1>8 DEF ChosenBy
<1> QED
  BY <1>4, <1>9
-----------------------------------------------------------------------------
(* Sequences of words.                                                     *)

LEMMA AppendWord ==
  ASSUME NEW s \in Seq(Word), NEW w \in Word
  PROVE  /\ Append(s, w) \in Seq(Word) /\ Len(Append(s, w)) = Len(s) + 1
         /\ \A j \in 1 .. Len(s) : Append(s, w)[j] = s[j]
         /\ Append(s, w)[Len(s) + 1] = w
OBVIOUS

LEMMA WordFacts ==
  ASSUME NEW s \in Seq(Word)
  PROVE  Len(s) \in Nat /\ \A j \in 1 .. Len(s) : s[j] \in Word
OBVIOUS

LEMMA ChosenNone == ASSUME NEW ids PROVE Chosen(<<>>, ids) = <<>>
<1>1. <<>> \in Seq(Word) /\ Len(<<>>) = 0
  BY EmptySeq
<1>2. PICK f : ChosenBy(f, <<>>, ids, Len(<<>>)) /\ Chosen(<<>>, ids) = f[Len(<<>>)]
  BY <1>1, ChosenIs
<1> QED
  BY <1>1, <1>2 DEF ChosenBy

\* What is chosen is part of the sequence and in its order, and nothing is left
\* out.
Within(s, ws, ids, n) ==
  /\ s \in Seq(Word)
  /\ \A i \in 1 .. Len(s) : \E k \in 1 .. n : s[i] = ws[k] /\ ws[k][1] \in ids
  /\ \A i, j \in 1 .. Len(s) : i < j =>
       \E k, m \in 1 .. n : k < m /\ s[i] = ws[k] /\ s[j] = ws[m]
  /\ \A k \in 1 .. n : ws[k][1] \in ids => \E i \in 1 .. Len(s) : s[i] = ws[k]

LEMMA WithinStep ==
  ASSUME NEW ws \in Seq(Word), NEW ids, NEW n \in Nat, n + 1 <= Len(ws), NEW s,
         Within(s, ws, ids, n), NEW t,
         t = IF ws[n + 1][1] \in ids THEN Append(s, ws[n + 1]) ELSE s
  PROVE  Within(t, ws, ids, n + 1)
<1>1. s \in Seq(Word) /\ Len(s) \in Nat /\ ws[n + 1] \in Word
  BY DEF Within
<1>2. CASE ws[n + 1][1] \notin ids
  <2>1. t = s
    BY <1>2
  <2>0. 1 .. n \subseteq 1 .. n + 1
    OBVIOUS
  <2>2. ASSUME NEW i \in 1 .. Len(s)
        PROVE  \E k \in 1 .. n + 1 : s[i] = ws[k] /\ ws[k][1] \in ids
    <3>1. PICK k \in 1 .. n : s[i] = ws[k] /\ ws[k][1] \in ids
      BY DEF Within
    <3> QED
      BY <2>0, <3>1
  <2>3. \A i, j \in 1 .. Len(s) : i < j =>
          \E k, m \in 1 .. n + 1 : k < m /\ s[i] = ws[k] /\ s[j] = ws[m]
    BY DEF Within
  <2>4. \A k \in 1 .. n + 1 : ws[k][1] \in ids => \E i \in 1 .. Len(s) : s[i] = ws[k]
    <3> SUFFICES ASSUME NEW k \in 1 .. n + 1, ws[k][1] \in ids
                 PROVE  \E i \in 1 .. Len(s) : s[i] = ws[k]
      OBVIOUS
    <3>1. k \in 1 .. n
      BY <1>2
    <3> QED
      BY <3>1 DEF Within
  <2>5. Within(s, ws, ids, n + 1)
    BY <1>1, <2>2, <2>3, <2>4 DEF Within
  <2> QED
    BY <2>1, <2>5
<1>3. CASE ws[n + 1][1] \in ids
  <2>1. /\ t \in Seq(Word) /\ Len(t) = Len(s) + 1
        /\ \A j \in 1 .. Len(s) : t[j] = s[j]
        /\ t[Len(s) + 1] = ws[n + 1]
    BY <1>1, <1>3, AppendWord
  <2>2. ASSUME NEW i \in 1 .. Len(t)
        PROVE  \E k \in 1 .. n + 1 : t[i] = ws[k] /\ ws[k][1] \in ids
    <3>1. CASE i = Len(s) + 1
      <4>1. n + 1 \in 1 .. n + 1
        OBVIOUS
      <4> QED
        BY <1>3, <2>1, <3>1, <4>1
    <3>2. CASE i \in 1 .. Len(s)
      <4>1. PICK k \in 1 .. n : s[i] = ws[k] /\ ws[k][1] \in ids
        BY <3>2 DEF Within
      <4> QED
        BY <2>1, <3>2, <4>1
    <3> QED
      BY <1>1, <2>1, <3>1, <3>2
  <2>3. ASSUME NEW i \in 1 .. Len(t), NEW j \in 1 .. Len(t), i < j
        PROVE  \E k, m \in 1 .. n + 1 : k < m /\ t[i] = ws[k] /\ t[j] = ws[m]
    <3>0. i \in 1 .. Len(s)
      BY <1>1, <2>1, <2>3
    <3>1. CASE j = Len(s) + 1
      <4>1. PICK k \in 1 .. n : s[i] = ws[k]
        BY <3>0 DEF Within
      <4>2. k \in 1 .. n + 1 /\ n + 1 \in 1 .. n + 1 /\ k < n + 1
        OBVIOUS
      <4>3. t[i] = ws[k] /\ t[j] = ws[n + 1]
        BY <2>1, <3>0, <3>1, <4>1
      <4> QED
        BY <4>2, <4>3
    <3>2. CASE j \in 1 .. Len(s)
      <4>1. PICK k \in 1 .. n, m \in 1 .. n : k < m /\ s[i] = ws[k] /\ s[j] = ws[m]
        BY <2>3, <3>0, <3>2 DEF Within
      <4>2. t[i] = ws[k] /\ t[j] = ws[m] /\ k \in 1 .. n + 1 /\ m \in 1 .. n + 1
        BY <2>1, <3>0, <3>2, <4>1
      <4> QED
        BY <4>1, <4>2
    <3> QED
      BY <1>1, <2>1, <3>1, <3>2
  <2>4. ASSUME NEW k \in 1 .. n + 1, ws[k][1] \in ids
        PROVE  \E i \in 1 .. Len(t) : t[i] = ws[k]
    <3>1. CASE k = n + 1
      <4>1. Len(s) + 1 \in 1 .. Len(t)
        BY <1>1, <2>1
      <4> QED
        BY <2>1, <3>1, <4>1
    <3>2. CASE k \in 1 .. n
      <4>1. PICK i \in 1 .. Len(s) : s[i] = ws[k]
        BY <2>4, <3>2 DEF Within
      <4>2. i \in 1 .. Len(t) /\ t[i] = ws[k]
        BY <1>1, <2>1, <4>1
      <4> QED
        BY <4>2
    <3> QED
      BY <3>1, <3>2
  <2> QED
    BY <2>1, <2>2, <2>3, <2>4 DEF Within
<1> QED
  BY <1>2, <1>3

LEMMA ChosenWithin ==
  ASSUME NEW ws \in Seq(Word), NEW ids
  PROVE  Within(Chosen(ws, ids), ws, ids, Len(ws))
<1>0. Len(ws) \in Nat /\ Len(ws) <= Len(ws)
  OBVIOUS
<1>1. PICK f : ChosenBy(f, ws, ids, Len(ws)) /\ Chosen(ws, ids) = f[Len(ws)]
  BY ChosenIs
<1> DEFINE S == {n \in Nat : n <= Len(ws) => Within(f[n], ws, ids, n)}
<1>2. 0 \in S
  <2>1. f[0] = <<>> /\ Len(f[0]) = 0 /\ f[0] \in Seq(Word)
    BY <1>1, EmptySeq DEF ChosenBy
  <2>2. Within(f[0], ws, ids, 0)
    BY <2>1 DEF Within
  <2> QED
    BY <2>2
<1>3. ASSUME NEW n \in Nat, n \in S PROVE n + 1 \in S
  <2>1. SUFFICES ASSUME n + 1 <= Len(ws) PROVE Within(f[n + 1], ws, ids, n + 1)
    OBVIOUS
  <2>2. Within(f[n], ws, ids, n)
    BY <1>0, <1>3, <2>1
  <2>3. f[n + 1] = IF ws[n + 1][1] \in ids THEN Append(f[n], ws[n + 1]) ELSE f[n]
    <3>1. n + 1 \in 1 .. Len(ws) /\ (n + 1) - 1 = n
      BY <2>1
    <3> QED
      BY <1>1, <3>1 DEF ChosenBy
  <2> QED
    BY <2>1, <2>2, <2>3, WithinStep
<1> HIDE DEF S
<1>4. \A n \in Nat : n \in S
  BY <1>2, <1>3, Induct
<1>5. Len(ws) \in S
  BY <1>0, <1>4
<1> QED
  BY <1>0, <1>1, <1>5 DEF S

\* Only which of the words are chosen matters.
LEMMA ChosenSame ==
  ASSUME NEW ws \in Seq(Word), NEW X, NEW Y,
         \A k \in 1 .. Len(ws) : ws[k][1] \in X <=> ws[k][1] \in Y
  PROVE  Chosen(ws, X) = Chosen(ws, Y)
<1>0. Len(ws) \in Nat /\ Len(ws) <= Len(ws)
  OBVIOUS
<1>1. PICK f : ChosenBy(f, ws, X, Len(ws)) /\ Chosen(ws, X) = f[Len(ws)]
  BY ChosenIs
<1>2. PICK g : ChosenBy(g, ws, Y, Len(ws)) /\ Chosen(ws, Y) = g[Len(ws)]
  BY ChosenIs
<1> DEFINE S == {n \in Nat : n <= Len(ws) => f[n] = g[n]}
<1>3. 0 \in S
  BY <1>1, <1>2 DEF ChosenBy
<1>4. ASSUME NEW n \in Nat, n \in S PROVE n + 1 \in S
  <2>1. SUFFICES ASSUME n + 1 <= Len(ws) PROVE f[n + 1] = g[n + 1]
    OBVIOUS
  <2>2. n + 1 \in 1 .. Len(ws) /\ (n + 1) - 1 = n /\ f[n] = g[n]
    BY <1>0, <1>4, <2>1
  <2> QED
    BY <1>1, <1>2, <2>2 DEF ChosenBy
<1> HIDE DEF S
<1>5. \A n \in Nat : n \in S
  BY <1>3, <1>4, Induct
<1>6. Len(ws) \in S
  BY <1>0, <1>5
<1> QED
  BY <1>0, <1>1, <1>2, <1>6 DEF S

\* Words of one request are added to a command: all of them are chosen or none.
LEMMA ChosenMore ==
  ASSUME NEW ws \in Seq(Word), NEW vs \in Seq(Word), NEW ids
  PROVE  /\ (\A k \in 1 .. Len(vs) : vs[k][1] \in ids)
              => Chosen(ws \o vs, ids) = Chosen(ws, ids) \o vs
         /\ (\A k \in 1 .. Len(vs) : vs[k][1] \notin ids)
              => Chosen(ws \o vs, ids) = Chosen(ws, ids)
<1> DEFINE us == ws \o vs
           a  == Len(ws)
           b  == Len(vs)
<1>0. /\ us \in Seq(Word) /\ Len(us) = a + b /\ a \in Nat /\ b \in Nat
      /\ \A i \in 1 .. a + b : us[i] = IF i <= a THEN ws[i] ELSE vs[i - a]
  BY ConcatProperties
<1>1. PICK f : ChosenBy(f, us, ids, Len(us)) /\ Chosen(us, ids) = f[Len(us)]
  BY <1>0, ChosenIs
<1>2. PICK g : ChosenBy(g, ws, ids, Len(ws)) /\ Chosen(ws, ids) = g[Len(ws)]
  BY ChosenIs
<1>f. /\ f[0] = <<>>
      /\ \A m \in 1 .. a + b :
           f[m] = IF us[m][1] \in ids THEN Append(f[m - 1], us[m]) ELSE f[m - 1]
  BY <1>0, <1>1 DEF ChosenBy
<1>g. /\ g[0] = <<>> /\ g[a] \in Seq(Word)
      /\ \A m \in 1 .. a :
           g[m] = IF ws[m][1] \in ids THEN Append(g[m - 1], ws[m]) ELSE g[m - 1]
  BY <1>0, <1>2 DEF ChosenBy
<1> HIDE DEF us, a, b
<1>3. \A n \in Nat : n \in {m \in Nat : m <= a => f[m] = g[m]}
  <2> DEFINE S == {m \in Nat : m <= a => f[m] = g[m]}
  <2>1. 0 \in S
    BY <1>f, <1>g
  <2>2. ASSUME NEW n \in Nat, n \in S PROVE n + 1 \in S
    <3>1. SUFFICES ASSUME n + 1 <= a PROVE f[n + 1] = g[n + 1]
      OBVIOUS
    <3>2. /\ n + 1 \in 1 .. a /\ n + 1 \in 1 .. a + b /\ (n + 1) - 1 = n
          /\ f[n] = g[n] /\ us[n + 1] = ws[n + 1]
      BY <1>0, <2>2, <3>1
    <3> QED
      BY <1>f, <1>g, <3>2
  <2> HIDE DEF S
  <2>3. \A n \in Nat : n \in S
    BY <2>1, <2>2, Induct
  <2> QED
    BY <2>3 DEF S
<1>4. f[a] = g[a]
  BY <1>0, <1>3
<1>5. ASSUME \A k \in 1 .. b : vs[k][1] \notin ids
      PROVE  f[a + b] = g[a]
  <2> DEFINE S == {m \in Nat : m <= b => f[a + m] = g[a]}
  <2>1. 0 \in S
    BY <1>0, <1>4
  <2>2. ASSUME NEW n \in Nat, n \in S PROVE n + 1 \in S
    <3>1. SUFFICES ASSUME n + 1 <= b PROVE f[a + (n + 1)] = g[a]
      OBVIOUS
    <3>2. /\ a + (n + 1) \in 1 .. a + b /\ (a + (n + 1)) - 1 = a + n
          /\ us[a + (n + 1)] = vs[n + 1] /\ n + 1 \in 1 .. b
      BY <1>0, <3>1
    <3>3. f[a + n] = g[a]
      BY <1>0, <2>2, <3>1
    <3> QED
      BY <1>f, <1>5, <3>2, <3>3
  <2> HIDE DEF S
  <2>3. \A n \in Nat : n \in S
    BY <2>1, <2>2, Induct
  <2>4. b \in S /\ b <= b
    BY <1>0, <2>3
  <2> QED
    BY <2>4 DEF S
<1>6. ASSUME \A k \in 1 .. b : vs[k][1] \in ids
      PROVE  f[a + b] = g[a] \o vs
  <2> DEFINE Grown(s, m) == /\ s \in Seq(Word) /\ Len(s) = Len(g[a]) + m
                            /\ \A i \in 1 .. Len(g[a]) : s[i] = g[a][i]
                            /\ \A i \in 1 .. m : s[Len(g[a]) + i] = vs[i]
  <2> DEFINE S == {m \in Nat : m <= b => Grown(f[a + m], m)}
  <2>0. Len(g[a]) \in Nat
    BY <1>g
  <2>1. 0 \in S
    BY <1>0, <1>4, <1>g
  <2> HIDE DEF Grown
  <2>2. ASSUME NEW n \in Nat, n \in S PROVE n + 1 \in S
    <3>1. SUFFICES ASSUME n + 1 <= b PROVE Grown(f[a + (n + 1)], n + 1)
      OBVIOUS
    <3>2. /\ a + (n + 1) \in 1 .. a + b /\ (a + (n + 1)) - 1 = a + n
          /\ us[a + (n + 1)] = vs[n + 1] /\ n + 1 \in 1 .. b
      BY <1>0, <3>1
    <3>3. Grown(f[a + n], n)
      BY <1>0, <2>2, <3>1
    <3> USE DEF Grown
    <3>4. f[a + (n + 1)] = Append(f[a + n], vs[n + 1])
      BY <1>f, <1>6, <3>2
    <3>5. vs[n + 1] \in Word
      BY <3>2 DEF b
    <3> DEFINE s == f[a + n]
               t == f[a + (n + 1)]
               w == vs[n + 1]
               h == Len(g[a])
    <3>6. /\ s \in Seq(Word) /\ Len(s) = h + n
          /\ \A i \in 1 .. h : s[i] = g[a][i]
          /\ \A i \in 1 .. n : s[h + i] = vs[i]
      BY <3>3
    <3>7. t = Append(s, w)
      BY <3>4
    <3> HIDE DEF s, t, w, h
    <3>8. /\ t \in Seq(Word) /\ Len(t) = Len(s) + 1
          /\ \A j \in 1 .. Len(s) : t[j] = s[j]
          /\ t[Len(s) + 1] = w
      <4>1. w \in Word
        BY <3>5 DEF w
      <4> QED
        BY <3>6, <3>7, <4>1, AppendWord
    <3>9. h \in Nat
      BY <2>0 DEF h
    <3>10. Len(t) = h + (n + 1)
      BY <3>6, <3>8, <3>9
    <3>11. \A i \in 1 .. h : t[i] = g[a][i]
      BY <3>6, <3>8, <3>9
    <3>12. ASSUME NEW i \in 1 .. n + 1 PROVE t[h + i] = vs[i]
      <4>1. CASE i = n + 1
        <5>1. h + i = Len(s) + 1
          BY <3>6, <3>9, <4>1
        <5> QED
          BY <3>8, <4>1, <5>1 DEF w
      <4>2. CASE i \in 1 .. n
        <5>1. h + i \in 1 .. Len(s)
          BY <3>6, <3>9, <4>2
        <5> QED
          BY <3>6, <3>8, <4>2, <5>1
      <4> QED
        BY <4>1, <4>2
    <3> QED
      BY <3>8, <3>10, <3>11, <3>12 DEF t, h
  <2> HIDE DEF S
  <2>3. \A n \in Nat : n \in S
    BY <2>1, <2>2, Induct
  <2>4. b \in S /\ b <= b
    BY <1>0, <2>3
  <2>5. Grown(f[a + b], b)
    BY <2>4 DEF S
  <2> USE DEF Grown
  <2>6. /\ g[a] \o vs \in Seq(Word) /\ Len(g[a] \o vs) = Len(g[a]) + b
        /\ \A i \in 1 .. Len(g[a]) + b :
             (g[a] \o vs)[i] = IF i <= Len(g[a]) THEN g[a][i] ELSE vs[i - Len(g[a])]
    BY <1>g, ConcatProperties DEF b
  <2>7. ASSUME NEW i \in 1 .. Len(g[a]) + b PROVE f[a + b][i] = (g[a] \o vs)[i]
    <3>1. CASE i <= Len(g[a])
      BY <2>0, <2>5, <2>6, <3>1
    <3>2. CASE ~(i <= Len(g[a]))
      <4>1. i - Len(g[a]) \in 1 .. b /\ i = Len(g[a]) + (i - Len(g[a]))
        BY <1>0, <2>0, <3>2
      <4> QED
        BY <2>5, <2>6, <3>2, <4>1
    <3> QED
      BY <3>1, <3>2
  <2> QED
    BY <2>5, <2>6, <2>7, SeqEqual
<1> QED
  BY <1>0, <1>1, <1>2, <1>5, <1>6 DEF us, a, b

-----------------------------------------------------------------------------
(* The order of the words.                                                 *)

Command  == [words : Seq(Word), rc : Nat, wc : Nat, block : BOOLEAN,
             req : Requests \cup {"none"}]
Response == [block : BOOLEAN, ok : BOOLEAN, n : Nat, data : Seq(Word)]

\* A request that is being packed is one that was issued.
RequestInv ==
  /\ reqOf \in [Ids -> Requests \cup {"none"}]
  /\ sizeOf \in [Ids -> 0 .. MaxWords] /\ next \in 1 .. MaxId + 1
  /\ rest \in Nat
  /\ rest > 0 => /\ cur \in Ids /\ cur < next /\ rest <= sizeOf[cur]
                 /\ pc = "pack" \/ (pc = "send" /\ after = "pack")

\* What goes to the probe and what comes back.
WireInv ==
  /\ crnt \in Command /\ sent \in Seq(Command) /\ probe \in Seq(Command)
  /\ out \in Seq(Response) /\ executed \in Seq(Word)

LEMMA InitTypes == Init => RequestInv /\ WireInv
<1> SUFFICES ASSUME Init PROVE RequestInv /\ WireInv
  OBVIOUS
<1>1. RequestInv
  BY PacketAssumption DEF Init, RequestInv
<1>2. Empty \in Command
  BY EmptySeq DEF Empty, Command
<1>3. WireInv
  BY <1>2, EmptySeq DEF Init, WireInv
<1> QED
  BY <1>1, <1>3

LEMMA StepRequest == PackInv /\ RequestInv /\ [Next]_vars => RequestInv'
<1> SUFFICES ASSUME PackInv, RequestInv, [Next]_vars PROVE RequestInv'
  OBVIOUS
<1> USE PacketAssumption DEF RequestInv
<1>1. ASSUME NEW r \in Requests, NEW n \in 1 .. MaxWords, Issue(r, n) PROVE RequestInv'
  <2>1. /\ next <= MaxId /\ reqOf' = [reqOf EXCEPT ![next] = r]
        /\ sizeOf' = [sizeOf EXCEPT ![next] = n] /\ next' = next + 1
        /\ pc' = "pack" /\ cur' = next /\ rest' = n
    BY <1>1 DEF Issue
  <2>2. next \in Ids
    BY <2>1 DEF Ids
  <2>3. sizeOf'[next] = n
    BY <2>1, <2>2
  <2> QED
    BY <2>1, <2>2, <2>3
<1>2. CASE Pack
  <2> DEFINE size == Space(crnt, reqOf[cur], rest)
  <2>1. /\ UNCHANGED <<reqOf, sizeOf, next, cur>>
        /\ \/ rest' = rest /\ pc' = "send" /\ after' = "pack"
           \/ size > 0 /\ rest' = rest - size /\ pc' \in {"send", "pack"} /\ after' = "pack"
    <3>1. CASE size <= 0
      BY <1>2, <3>1 DEF Pack
    <3>2. CASE ~(size <= 0)
      <4>1. size \in Int
        BY SpaceBounds DEF PackInv
      <4> QED
        BY <1>2, <3>2, <4>1 DEF Pack
    <3> QED
      BY <3>1, <3>2
  <2>2. size \in Int /\ size <= rest
    BY SpaceBounds DEF PackInv
  <2> HIDE DEF size
  <2> QED
    BY <2>1, <2>2, <1>2 DEF Pack
<1>3. CASE SendRaises \/ ReadFails \/ ReadRaises
  BY <1>3 DEF SendRaises, ReadFails, ReadRaises, Abort
<1>4. CASE PackDone \/ GetResult \/ GetAsserts \/ GetFlushes \/ Drained \/ Flush
  BY <1>4 DEF PackDone, GetResult, GetAsserts, GetFlushes, Drained, Flush
<1>5. CASE SendNothing \/ Send \/ (\E id \in Ids : Get(id))
  BY <1>5 DEF SendNothing, Send, Get
<1>6. CASE Read
  BY <1>6 DEF Read, control
<1>7. CASE Skip \/ SkipRaises \/ Execute
  BY <1>7 DEF Skip, SkipRaises, Execute, control
<1>8. CASE UNCHANGED vars
  BY <1>8 DEF vars, control
<1> QED
  BY <1>1, <1>2, <1>3, <1>4, <1>5, <1>6, <1>7, <1>8 DEF Next, Host, Works, Caller

\* The words a step packs.
LEMMA PackedWords ==
  ASSUME RequestInv, rest > 0, NEW n \in Nat, n <= rest
  PROVE  /\ NextWords(n) \in Seq(Word) /\ Len(NextWords(n)) = n
         /\ \A k \in 1 .. n : NextWords(n)[k] = <<cur, sizeOf[cur] - rest + k>>
<1>1. rest \in Nat /\ cur \in Ids /\ sizeOf[cur] \in 0 .. MaxWords /\ rest <= sizeOf[cur]
  BY DEF RequestInv
<1>2. \A k \in 1 .. n : <<cur, sizeOf[cur] - rest + k>> \in Word
  <2> SUFFICES ASSUME NEW k \in 1 .. n PROVE sizeOf[cur] - rest + k \in 1 .. MaxWords
    BY <1>1 DEF Word
  <2> QED
    BY <1>1, PacketAssumption
<1>3. NextWords(n) \in [1 .. n -> Word]
  BY <1>2 DEF NextWords
<1>4. NextWords(n) \in Seq(Word)
  BY <1>3, SeqDef
<1> QED
  BY <1>4, LengthOfWords DEF NextWords

LEMMA AddedIsCommand ==
  ASSUME NEW c \in Command, NEW r \in Requests \cup {"none"}, NEW ws \in Seq(Word)
  PROVE  Added(c, r, ws) \in Command
<1>1. c.words \o ws \in Seq(Word) /\ Len(ws) \in Nat
  BY ConcatProperties DEF Command
<1> QED
  BY <1>1 DEF Added, Command, Uniform

\* What the probe answers to the command c when it stops after k words.
Answers(c, k, ws, d, g) ==
  /\ ws \in Seq(Word) /\ Len(ws) = k /\ \A m \in 1 .. k : ws[m] = c.words[m]
  /\ g = Chosen(ws, Ids \ Reads) /\ g \in Seq(Word) /\ executed' = executed \o g
  /\ d = Chosen(ws, Reads) /\ d \in Seq(Word)
  /\ out' = Append(out, [block |-> c.block, ok |-> k = Len(c.words), n |-> k, data |-> d])

LEMMA ProbeStep ==
  ASSUME WireInv, Execute
  PROVE  /\ probe # <<>> /\ probe' = Tail(probe) /\ Head(probe) \in Command
         /\ \E k \in 0 .. Len(Head(probe).words) :
              \E ws, d, g : Answers(Head(probe), k, ws, d, g)
<1> DEFINE c == Head(probe)
<1>1. probe # <<>> /\ probe' = Tail(probe) /\ c \in Command
  BY HeadTailProperties DEF WireInv, Execute
<1>2. PICK k \in 0 .. Len(c.words) :
        /\ executed' = executed \o Chosen(SubSeq(c.words, 1, k), Ids \ Reads)
        /\ out' = Append(out, [block |-> c.block, ok |-> k = Len(c.words), n |-> k,
                               data |-> Chosen(SubSeq(c.words, 1, k), Reads)])
  BY DEF Execute
<1> HIDE DEF c
<1>3. c.words \in Seq(Word)
  BY <1>1 DEF Command
<1>4. Len(c.words) \in Nat /\ \A i \in 1 .. k : c.words[i] \in Word
  BY <1>3
<1>5. /\ SubSeq(c.words, 1, k) \in Seq(Word)
      /\ Len(SubSeq(c.words, 1, k)) = IF 1 <= k THEN k - 1 + 1 ELSE 0
      /\ \A i \in 1 .. k - 1 + 1 : SubSeq(c.words, 1, k)[i] = c.words[1 + i - 1]
  <2>1. 1 \in Int /\ k \in Int
    BY <1>4
  <2> QED
    BY <1>4, <2>1, SubSeqProperties
<1>6. k \in Nat
  BY <1>4
<1> DEFINE ws == SubSeq(c.words, 1, k)
<1>7. Len(ws) = k
  BY <1>5, <1>6
<1>8. \A m \in 1 .. k : ws[m] = c.words[m]
  BY <1>5, <1>6
<1>9. Chosen(ws, Ids \ Reads) \in Seq(Word) /\ Chosen(ws, Reads) \in Seq(Word)
  BY <1>5, ChosenWithin DEF Within
<1>10. ws \in Seq(Word)
  BY <1>5
<1>11. Answers(c, k, ws, Chosen(ws, Reads), Chosen(ws, Ids \ Reads))
  BY <1>2, <1>7, <1>8, <1>9, <1>10 DEF Answers
<1> HIDE DEF ws
<1>12. \E l \in 0 .. Len(c.words) : \E us, d, g : Answers(c, l, us, d, g)
  BY <1>11
<1> QED
  BY <1>1, <1>12 DEF c

LEMMA StepWire == PackInv /\ RequestInv /\ WireInv /\ [Next]_vars => WireInv'
<1> SUFFICES ASSUME PackInv, RequestInv, WireInv, [Next]_vars PROVE WireInv'
  OBVIOUS
<1> USE DEF WireInv
<1>0. Empty \in Command
  BY EmptySeq DEF Empty, Command
<1>1. CASE Pack
  <2> DEFINE size == Space(crnt, reqOf[cur], rest)
  <2>1. CASE size <= 0
    BY <1>1, <2>1 DEF Pack, device
  <2>2. CASE ~(size <= 0)
    <3>1. /\ crnt' = Added(crnt, reqOf[cur], NextWords(size)) /\ rest > 0
          /\ UNCHANGED <<sent, probe, out, executed>>
      BY <1>1, <2>2 DEF Pack, device
    <3>2. size \in Nat /\ size <= rest
      BY <2>2, SpaceBounds DEF PackInv
    <3>3. NextWords(size) \in Seq(Word) /\ reqOf[cur] \in Requests \cup {"none"}
      BY <3>1, <3>2, PackedWords DEF RequestInv
    <3>4. crnt' \in Command
      BY <3>1, <3>3, AddedIsCommand
    <3> QED
      BY <3>1, <3>4
  <2> QED
    BY <2>1, <2>2
<1>2. CASE Send
  BY <1>0, <1>2 DEF Send, NewCommand
<1>3. CASE SendRaises
  <2>1. /\ sent' = <<>> /\ crnt' = Empty /\ probe' \in {probe, Append(probe, crnt)}
        /\ UNCHANGED <<out, executed>>
    BY <1>3 DEF SendRaises, Abort
  <2>2. Append(probe, crnt) \in Seq(Command)
    OBVIOUS
  <2> QED
    BY <1>0, <2>1, <2>2, EmptySeq
<1>4. CASE Read
  <2>1. /\ sent # <<>> /\ out # <<>> /\ sent' = Tail(sent) /\ out' = Tail(out)
        /\ UNCHANGED <<crnt, probe, executed>>
    BY <1>4 DEF Read, Reading
  <2> QED
    BY <2>1, HeadTailProperties
<1>5. CASE ReadFails
  <2>1. /\ out # <<>> /\ out' = Tail(out) /\ sent' = <<>> /\ crnt' = Empty
        /\ UNCHANGED <<probe, executed>>
    BY <1>5 DEF ReadFails, Abort
  <2> QED
    BY <1>0, <2>1, HeadTailProperties, EmptySeq
<1>6. CASE ReadRaises
  BY <1>0, <1>6, EmptySeq DEF ReadRaises, Abort, device
<1>7. CASE Skip
  <2>1. out # <<>> /\ out' = Tail(out) /\ UNCHANGED <<crnt, sent, probe, executed>>
    BY <1>7 DEF Skip, queue
  <2> QED
    BY <2>1, HeadTailProperties
<1>8. CASE Execute
  <2>1. /\ probe # <<>> /\ probe' = Tail(probe) /\ Head(probe) \in Command
        /\ UNCHANGED <<crnt, sent>>
    BY <1>8, ProbeStep DEF Execute, queue
  <2>a. PICK k \in 0 .. Len(Head(probe).words) :
          \E ws, d, g : Answers(Head(probe), k, ws, d, g)
    BY <1>8, ProbeStep
  <2>b. PICK ws, d, g : Answers(Head(probe), k, ws, d, g)
    BY <2>a
  <2>2. /\ executed' = executed \o g /\ g \in Seq(Word) /\ d \in Seq(Word)
        /\ out' = Append(out, [block |-> Head(probe).block,
                               ok |-> k = Len(Head(probe).words), n |-> k, data |-> d])
    BY <2>b DEF Answers
  <2>3. k \in Nat /\ Head(probe).block \in BOOLEAN
    BY <2>1 DEF Command
  <2>4. [block |-> Head(probe).block, ok |-> k = Len(Head(probe).words), n |-> k, data |-> d]
          \in Response
    BY <2>2, <2>3 DEF Response
  <2>5. executed' \in Seq(Word)
    BY <2>2, ConcatProperties
  <2>6. out' \in Seq(Response)
    BY <2>2, <2>4
  <2> QED
    BY <2>1, <2>5, <2>6, HeadTailProperties
<1>9. CASE PackDone \/ GetResult \/ GetAsserts \/ GetFlushes \/ Drained \/ SendNothing
  BY <1>9 DEF PackDone, GetResult, GetAsserts, GetFlushes, Drained, SendNothing, queue, device
<1>10. CASE SkipRaises \/ Flush \/ (\E id \in Ids : Get(id)) \/ UNCHANGED vars
  BY <1>10 DEF SkipRaises, Flush, Get, vars, queue, device
<1>11. ASSUME NEW r \in Requests, NEW n \in 1 .. MaxWords, Issue(r, n) PROVE WireInv'
  BY <1>11 DEF Issue, device
<1> QED
  BY <1>1, <1>2, <1>3, <1>4, <1>5, <1>6, <1>7, <1>8, <1>9, <1>10, <1>11 DEF Next, Host, Works, Caller
-----------------------------------------------------------------------------
(* Writes are carried out in the order they were issued.                   *)

Before(v, w) == v[1] < w[1] \/ (v[1] = w[1] /\ v[2] < w[2])

Rising(s)   == \A i, j \in 1 .. Len(s) : i < j => Before(s[i], s[j])
Ahead(s, t) == \A i \in 1 .. Len(s), j \in 1 .. Len(t) : Before(s[i], t[j])
Below(s, f) == \A i \in 1 .. Len(s) : Before(s[i], f)

\* The words ex have been carried out, pr and cr are commands in the probe and
\* under construction, se the ones that wait for a response; what is not packed
\* yet begins at f.
Ordered(ex, pr, cr, se, f) ==
  /\ Rising(ex) /\ Rising(cr.words) /\ Ahead(ex, cr.words)
  /\ Below(ex, f) /\ Below(cr.words, f)
  /\ \A j \in 1 .. Len(se) : Below(se[j].words, f)
  /\ \A j \in 1 .. Len(pr) :
       /\ Rising(pr[j].words) /\ Below(pr[j].words, f)
       /\ Ahead(ex, pr[j].words) /\ Ahead(pr[j].words, cr.words)
  /\ \A i, j \in 1 .. Len(pr) : i < j => Ahead(pr[i].words, pr[j].words)

\* The first word that is not packed yet.
Frontier == IF rest > 0 THEN <<cur, sizeOf[cur] - rest + 1>> ELSE <<next, 0>>

OrderInv == Ordered(executed, probe, crnt, sent, Frontier)

LEMMA NoneAhead ==
  /\ Rising(<<>>) /\ \A f : Below(<<>>, f)
  /\ \A s : Ahead(<<>>, s) /\ Ahead(s, <<>>)
<1>1. Len(<<>>) = 0
  BY EmptySeq
<1> QED
  BY <1>1 DEF Ahead, Rising, Below

LEMMA BeforeChain ==
  ASSUME NEW u \in Word, NEW v \in Nat \X Nat, NEW w \in Nat \X Nat, Before(u, v), Before(v, w)
  PROVE  Before(u, w)
BY DEF Before, Word, Ids

LEMMA PairOfNumbers == ASSUME NEW w \in Word PROVE w \in Nat \X Nat
<1>1. PICK i \in Ids, k \in 1 .. MaxWords : w = <<i, k>>
  BY DEF Word
<1>2. i \in Nat /\ k \in Nat
  BY PacketAssumption DEF Ids
<1> QED
  BY <1>1, <1>2

LEMMA CommandWords ==
  ASSUME NEW se \in Seq(Command)
  PROVE  Len(se) \in Nat /\ \A j \in 1 .. Len(se) : se[j] \in Command /\ se[j].words \in Seq(Word)
<1>1. Len(se) \in Nat /\ \A j \in 1 .. Len(se) : se[j] \in Command
  OBVIOUS
<1>2. \A c \in Command : c.words \in Seq(Word)
  BY DEF Command
<1> QED
  BY <1>1, <1>2

LEMMA FrontierMoves ==
  ASSUME PackInv, RequestInv, [Next]_vars
  PROVE  /\ Frontier \in Nat \X Nat /\ Frontier' \in Nat \X Nat
         /\ Frontier' = Frontier \/ Before(Frontier, Frontier')
<1>1. RequestInv' /\ rest \in Nat /\ rest' \in Nat
  BY StepRequest DEF RequestInv
<1>2. /\ rest > 0 => cur \in Nat /\ cur < next /\ sizeOf[cur] - rest + 1 \in Nat
      /\ rest' > 0 => cur' \in Nat /\ cur' < next' /\ sizeOf'[cur'] - rest' + 1 \in Nat
      /\ next \in Nat /\ next' \in Nat
  <2>1. next \in Nat /\ next' \in Nat
    BY <1>1, PacketAssumption DEF RequestInv
  <2>2. rest > 0 => cur \in Nat /\ cur < next /\ sizeOf[cur] - rest + 1 \in Nat
    BY <1>1, PacketAssumption DEF RequestInv, Ids
  <2>3. rest' > 0 => cur' \in Nat /\ cur' < next' /\ sizeOf'[cur'] - rest' + 1 \in Nat
    BY <1>1, PacketAssumption DEF RequestInv, Ids
  <2> QED
    BY <2>1, <2>2, <2>3
<1>3. Frontier \in Nat \X Nat /\ Frontier' \in Nat \X Nat
  <2>1. Frontier \in Nat \X Nat
    BY <1>2 DEF Frontier
  <2>2. Frontier' \in Nat \X Nat
    BY <1>2 DEF Frontier
  <2> QED
    BY <2>1, <2>2
<1> SUFFICES Frontier' = Frontier \/ Before(Frontier, Frontier')
  BY <1>3
<1>4. CASE Pack
  <2>1. /\ UNCHANGED <<sizeOf, next, cur>> /\ rest > 0
        /\ \/ rest' = rest
           \/ rest' = rest - Space(crnt, reqOf[cur], rest) /\ ~(Space(crnt, reqOf[cur], rest) <= 0)
    BY <1>4 DEF Pack
  <2>2. rest' <= rest
    BY <1>1, <2>1, SpaceBounds DEF PackInv
  <2>3. CASE rest' = 0
    BY <1>1, <1>2, <2>1, <2>3 DEF Frontier, Before
  <2>4. CASE rest' > 0
    <3>1. Frontier = <<cur, sizeOf[cur] - rest + 1>> /\ Frontier' = <<cur, sizeOf[cur] - rest' + 1>>
      BY <2>1, <2>4 DEF Frontier
    <3>2. sizeOf[cur] \in Nat
      BY <2>1, PacketAssumption DEF RequestInv
    <3>3. sizeOf[cur] - rest + 1 <= sizeOf[cur] - rest' + 1
      BY <1>1, <2>2, <3>2
    <3> QED
      BY <1>1, <3>1, <3>2, <3>3 DEF Before
  <2> QED
    BY <1>1, <2>3, <2>4
<1>5. CASE rest' = 0 /\ next' = next
  BY <1>1, <1>2, <1>5 DEF Frontier, Before
<1>6. CASE \E r \in Requests, n \in 1 .. MaxWords : Issue(r, n)
  <2>1. PICK r \in Requests, n \in 1 .. MaxWords : Issue(r, n)
    BY <1>6
  <2>2. pc = "idle" /\ cur' = next /\ rest' = n /\ sizeOf' = [sizeOf EXCEPT ![next] = n]
        /\ next <= MaxId
    BY <2>1 DEF Issue
  <2>3. rest = 0 /\ sizeOf'[next] = n
    BY <2>2, PacketAssumption DEF RequestInv, Ids
  <2>4. Frontier = <<next, 0>> /\ Frontier' = <<next, 1>>
    BY <2>2, <2>3 DEF Frontier
  <2> QED
    BY <1>2, <1>3, <2>4 DEF Before
<1>7. CASE UNCHANGED <<rest, cur, next, sizeOf>>
  BY <1>7 DEF Frontier
<1>8. CASE SendRaises \/ ReadFails \/ ReadRaises
  BY <1>5, <1>8 DEF SendRaises, ReadFails, ReadRaises, Abort
<1>9. CASE PackDone \/ GetResult \/ GetAsserts \/ GetFlushes \/ Drained \/ SendNothing \/ Send
  BY <1>7, <1>9 DEF PackDone, GetResult, GetAsserts, GetFlushes, Drained, SendNothing, Send
<1>10. CASE Read \/ Skip \/ SkipRaises \/ Execute \/ Flush \/ (\E id \in Ids : Get(id))
            \/ UNCHANGED vars
  BY <1>7, <1>10 DEF Read, Skip, SkipRaises, Execute, Flush, Get, vars, control
<1> QED
  BY <1>3, <1>4, <1>6, <1>8, <1>9, <1>10 DEF Next, Host, Works, Caller

\* What lies before the frontier lies before where it moves.
LEMMA FrontierOrdered ==
  ASSUME NEW ex \in Seq(Word), NEW pr \in Seq(Command), NEW cr \in Command,
         NEW se \in Seq(Command), NEW f \in Nat \X Nat, NEW g \in Nat \X Nat,
         g = f \/ Before(f, g), Ordered(ex, pr, cr, se, f)
  PROVE  Ordered(ex, pr, cr, se, g)
<1>1. ASSUME NEW s \in Seq(Word), Below(s, f) PROVE Below(s, g)
  <2>1. \A i \in 1 .. Len(s) : s[i] \in Word
    OBVIOUS
  <2> QED
    BY <1>1, <2>1, BeforeChain DEF Below
<1>2. Below(ex, g) /\ Below(cr.words, g)
  BY <1>1 DEF Ordered, Command
<1>3. \A j \in 1 .. Len(se) : Below(se[j].words, g)
  BY <1>1, CommandWords DEF Ordered
<1>4. \A j \in 1 .. Len(pr) : Below(pr[j].words, g)
  BY <1>1, CommandWords DEF Ordered
<1> QED
  BY <1>2, <1>3, <1>4 DEF Ordered

\* A failure takes away what waits and what is under construction.
LEMMA AbortOrdered ==
  ASSUME NEW ex, NEW pr, NEW cr, NEW se, NEW f, Ordered(ex, pr, cr, se, f)
  PROVE  Ordered(ex, pr, Empty, <<>>, f)
<1>1. Empty.words = <<>> /\ Len(<<>>) = 0
  BY EmptySeq DEF Empty
<1> QED
  BY <1>1, NoneAhead DEF Ordered

LEMMA SendOrdered ==
  ASSUME NEW ex \in Seq(Word), NEW pr \in Seq(Command), NEW cr \in Command,
         NEW se \in Seq(Command), NEW f, Ordered(ex, pr, cr, se, f)
  PROVE  Ordered(ex, Append(pr, cr), Empty, Append(se, cr), f)
<1> DEFINE p == Append(pr, cr)
           s == Append(se, cr)
<1>1. Empty.words = <<>>
  BY DEF Empty
<1>2. /\ Len(pr) \in Nat /\ Len(p) = Len(pr) + 1
      /\ \A j \in 1 .. Len(p) : (j \in 1 .. Len(pr) /\ p[j] = pr[j]) \/ (j = Len(pr) + 1 /\ p[j] = cr)
  OBVIOUS
<1>3. /\ Len(se) \in Nat /\ Len(s) = Len(se) + 1
      /\ \A j \in 1 .. Len(s) : (j \in 1 .. Len(se) /\ s[j] = se[j]) \/ (j = Len(se) + 1 /\ s[j] = cr)
  OBVIOUS
<1> HIDE DEF p, s
<1>4. \A j \in 1 .. Len(s) : Below(s[j].words, f)
  BY <1>3 DEF Ordered
<1>5. \A j \in 1 .. Len(p) :
       /\ Rising(p[j].words) /\ Below(p[j].words, f)
       /\ Ahead(ex, p[j].words) /\ Ahead(p[j].words, Empty.words)
  BY <1>1, <1>2, NoneAhead DEF Ordered
<1>6. \A i, j \in 1 .. Len(p) : i < j => Ahead(p[i].words, p[j].words)
  <2> SUFFICES ASSUME NEW i \in 1 .. Len(p), NEW j \in 1 .. Len(p), i < j
               PROVE  Ahead(p[i].words, p[j].words)
    OBVIOUS
  <2>1. i \in 1 .. Len(pr) /\ p[i] = pr[i]
    BY <1>2
  <2> QED
    BY <1>2, <2>1 DEF Ordered
<1> QED
  BY <1>1, <1>4, <1>5, <1>6, NoneAhead DEF Ordered, p, s

LEMMA ReadOrdered ==
  ASSUME NEW ex, NEW pr, NEW cr, NEW se \in Seq(Command), se # <<>>, NEW f,
         Ordered(ex, pr, cr, se, f)
  PROVE  Ordered(ex, pr, cr, Tail(se), f)
<1>1. /\ Len(se) \in Nat /\ Len(Tail(se)) = Len(se) - 1
      /\ \A j \in 1 .. Len(Tail(se)) : Tail(se)[j] = se[j + 1] /\ j + 1 \in 1 .. Len(se)
  BY HeadTailProperties
<1>2. \A j \in 1 .. Len(Tail(se)) : Below(Tail(se)[j].words, f)
  BY <1>1 DEF Ordered
<1> QED
  BY <1>2 DEF Ordered

\* The probe carries out e, some of the words of its first command in their order.
LEMMA ExecuteOrdered ==
  ASSUME NEW ex \in Seq(Word), NEW pr \in Seq(Command), pr # <<>>, NEW cr \in Command,
         NEW se, NEW f, Ordered(ex, pr, cr, se, f), NEW e \in Seq(Word),
         \A i \in 1 .. Len(e) : \E k \in 1 .. Len(pr[1].words) : e[i] = pr[1].words[k],
         \A i, j \in 1 .. Len(e) : i < j =>
           \E k, m \in 1 .. Len(pr[1].words) : k < m /\ e[i] = pr[1].words[k] /\ e[j] = pr[1].words[m]
  PROVE  Ordered(ex \o e, Tail(pr), cr, se, f)
<1> DEFINE x == ex \o e
           p == Tail(pr)
           ws == pr[1].words
<1>1. /\ Len(pr) \in Nat /\ 1 \in 1 .. Len(pr) /\ Len(p) = Len(pr) - 1
      /\ \A j \in 1 .. Len(p) : p[j] = pr[j + 1] /\ j + 1 \in 1 .. Len(pr) /\ 1 < j + 1
  BY HeadTailProperties, EmptySeq
<1>2. /\ Rising(ws) /\ Below(ws, f) /\ Ahead(ex, ws) /\ Ahead(ws, cr.words)
      /\ \A j \in 1 .. Len(p) : Ahead(ws, p[j].words)
  BY <1>1 DEF Ordered
<1>3. /\ \A i \in 1 .. Len(e) : \E k \in 1 .. Len(ws) : e[i] = ws[k]
      /\ \A i, j \in 1 .. Len(e) : i < j =>
           \E k, m \in 1 .. Len(ws) : k < m /\ e[i] = ws[k] /\ e[j] = ws[m]
  OBVIOUS
<1>4. /\ Len(ex) \in Nat /\ Len(e) \in Nat /\ Len(x) = Len(ex) + Len(e)
      /\ \A i \in 1 .. Len(x) : \/ i \in 1 .. Len(ex) /\ x[i] = ex[i]
                                \/ i - Len(ex) \in 1 .. Len(e) /\ x[i] = e[i - Len(ex)]
                                   /\ i > Len(ex)
  BY ConcatProperties
<1> HIDE DEF x, p, ws
<1>5. Rising(e)
  BY <1>2, <1>3 DEF Rising
<1>6. Below(e, f) /\ Ahead(ex, e) /\ \A t : Ahead(ws, t) => Ahead(e, t)
  <2>1. Below(e, f)
    BY <1>2, <1>3 DEF Below
  <2>2. Ahead(ex, e)
    BY <1>2, <1>3 DEF Ahead
  <2>3. ASSUME NEW t, Ahead(ws, t) PROVE Ahead(e, t)
    BY <1>3, <2>3 DEF Ahead
  <2> QED
    BY <2>1, <2>2, <2>3
<1>7. ASSUME NEW t, Ahead(ex, t), Ahead(e, t) PROVE Ahead(x, t)
  BY <1>4, <1>7 DEF Ahead
<1>8. Rising(x)
  <2> SUFFICES ASSUME NEW i \in 1 .. Len(x), NEW j \in 1 .. Len(x), i < j
               PROVE  Before(x[i], x[j])
    BY DEF Rising
  <2>1. Rising(ex)
    BY DEF Ordered
  <2>2. CASE j \in 1 .. Len(ex) /\ x[j] = ex[j]
    <3>1. i \in 1 .. Len(ex) /\ x[i] = ex[i]
      BY <1>4, <2>2
    <3> QED
      BY <2>1, <2>2, <3>1 DEF Rising
  <2>3. CASE /\ i \in 1 .. Len(ex) /\ x[i] = ex[i]
             /\ j - Len(ex) \in 1 .. Len(e) /\ x[j] = e[j - Len(ex)]
    BY <1>6, <2>3 DEF Ahead
  <2>4. CASE /\ i - Len(ex) \in 1 .. Len(e) /\ x[i] = e[i - Len(ex)]
             /\ j - Len(ex) \in 1 .. Len(e) /\ x[j] = e[j - Len(ex)]
    <3>1. i - Len(ex) < j - Len(ex)
      BY <1>4
    <3> QED
      BY <1>5, <2>4, <3>1 DEF Rising
  <2> QED
    BY <1>4, <2>2, <2>3, <2>4
<1>9. Below(x, f)
  BY <1>4, <1>6 DEF Below, Ordered
<1>10. Ahead(x, cr.words)
  BY <1>2, <1>6, <1>7 DEF Ordered
<1>11. \A j \in 1 .. Len(p) : Ahead(x, p[j].words)
  <2> SUFFICES ASSUME NEW j \in 1 .. Len(p) PROVE Ahead(x, p[j].words)
    OBVIOUS
  <2>1. Ahead(ex, p[j].words)
    BY <1>1 DEF Ordered
  <2> QED
    BY <1>2, <1>6, <1>7, <2>1
<1>12. \A j \in 1 .. Len(p) :
         Rising(p[j].words) /\ Below(p[j].words, f) /\ Ahead(p[j].words, cr.words)
  BY <1>1 DEF Ordered
<1>13. \A i, j \in 1 .. Len(p) : i < j => Ahead(p[i].words, p[j].words)
  <2> SUFFICES ASSUME NEW i \in 1 .. Len(p), NEW j \in 1 .. Len(p), i < j
               PROVE  Ahead(p[i].words, p[j].words)
    OBVIOUS
  <2>1. i + 1 \in 1 .. Len(pr) /\ j + 1 \in 1 .. Len(pr) /\ i + 1 < j + 1
        /\ p[i] = pr[i + 1] /\ p[j] = pr[j + 1]
    BY <1>1
  <2> QED
    BY <2>1 DEF Ordered
<1> QED
  BY <1>8, <1>9, <1>10, <1>11, <1>12, <1>13 DEF Ordered, x, p

\* The words nw, which begin at the frontier, are added to the command.
LEMMA PackOrdered ==
  ASSUME NEW ex \in Seq(Word), NEW pr \in Seq(Command), NEW cr \in Command,
         NEW se \in Seq(Command), NEW f \in Nat \X Nat, Ordered(ex, pr, cr, se, f),
         NEW nw \in Seq(Word), NEW c, c.words = cr.words \o nw, NEW g \in Nat \X Nat,
         g = f \/ Before(f, g), Rising(nw), Below(nw, g),
         \A i \in 1 .. Len(nw) : nw[i] = f \/ Before(f, nw[i])
  PROVE  Ordered(ex, pr, c, se, g)
<1> DEFINE ws == cr.words
           cs == c.words
<1>1. ws \in Seq(Word)
  BY DEF Command
<1>2. /\ Len(ws) \in Nat /\ Len(nw) \in Nat /\ Len(cs) = Len(ws) + Len(nw)
      /\ \A i \in 1 .. Len(cs) : \/ i \in 1 .. Len(ws) /\ cs[i] = ws[i]
                                 \/ i - Len(ws) \in 1 .. Len(nw) /\ cs[i] = nw[i - Len(ws)]
                                    /\ i > Len(ws)
  BY <1>1, ConcatProperties
<1>3. ASSUME NEW s \in Seq(Word), Below(s, f) PROVE Ahead(s, nw)
  <2> SUFFICES ASSUME NEW i \in 1 .. Len(s), NEW j \in 1 .. Len(nw) PROVE Before(s[i], nw[j])
    BY DEF Ahead
  <2>1. s[i] \in Word /\ nw[j] \in Word
    OBVIOUS
  <2>2. nw[j] \in Nat \X Nat
    BY <2>1, PairOfNumbers
  <2>3. Before(s[i], f)
    BY <1>3 DEF Below
  <2>4. nw[j] = f \/ Before(f, nw[j])
    OBVIOUS
  <2> QED
    BY <2>1, <2>2, <2>3, <2>4, BeforeChain
<1>4. Rising(ws) /\ Ahead(ws, nw) /\ Ahead(ex, nw) /\ Ahead(ex, ws)
  BY <1>1, <1>3 DEF Ordered
<1>5. \A j \in 1 .. Len(pr) : Ahead(pr[j].words, nw)
  BY <1>3, CommandWords DEF Ordered
<1>6. Ordered(ex, pr, cr, se, g)
  BY FrontierOrdered
<1> HIDE DEF ws, cs
<1>7. ASSUME NEW s, Ahead(s, ws), Ahead(s, nw) PROVE Ahead(s, cs)
  BY <1>2, <1>7 DEF Ahead
<1>8. Rising(cs)
  <2> SUFFICES ASSUME NEW i \in 1 .. Len(cs), NEW j \in 1 .. Len(cs), i < j
               PROVE  Before(cs[i], cs[j])
    BY DEF Rising
  <2>2. CASE j \in 1 .. Len(ws) /\ cs[j] = ws[j]
    <3>1. i \in 1 .. Len(ws) /\ cs[i] = ws[i]
      BY <1>2, <2>2
    <3> QED
      BY <1>4, <2>2, <3>1 DEF Rising
  <2>3. CASE /\ i \in 1 .. Len(ws) /\ cs[i] = ws[i]
             /\ j - Len(ws) \in 1 .. Len(nw) /\ cs[j] = nw[j - Len(ws)]
    BY <1>4, <2>3 DEF Ahead
  <2>4. CASE /\ i - Len(ws) \in 1 .. Len(nw) /\ cs[i] = nw[i - Len(ws)]
             /\ j - Len(ws) \in 1 .. Len(nw) /\ cs[j] = nw[j - Len(ws)]
    <3>1. i - Len(ws) < j - Len(ws)
      BY <1>2
    <3> QED
      BY <2>4, <3>1 DEF Rising
  <2> QED
    BY <1>2, <2>2, <2>3, <2>4
<1>9. Below(cs, g)
  <2>1. Below(ws, g)
    BY <1>6 DEF Ordered, ws
  <2> QED
    BY <1>2, <2>1 DEF Below
<1>10. Ahead(ex, cs) /\ \A j \in 1 .. Len(pr) : Ahead(pr[j].words, cs)
  <2>1. \A j \in 1 .. Len(pr) : Ahead(pr[j].words, ws)
    BY DEF Ordered, ws
  <2> QED
    BY <1>4, <1>5, <1>7, <2>1
<1> QED
  BY <1>6, <1>8, <1>9, <1>10 DEF Ordered, cs

LEMMA InitOrder == Init => OrderInv
<1> SUFFICES ASSUME Init PROVE OrderInv
  OBVIOUS
<1>1. crnt.words = <<>> /\ executed = <<>> /\ sent = <<>> /\ probe = <<>> /\ Len(<<>>) = 0
  BY EmptySeq DEF Init, Empty
<1> QED
  BY <1>1, NoneAhead DEF OrderInv, Ordered

LEMMA StepOrder == PackInv /\ RequestInv /\ WireInv /\ OrderInv /\ [Next]_vars => OrderInv'
<1> SUFFICES ASSUME PackInv, RequestInv, WireInv, OrderInv, [Next]_vars PROVE OrderInv'
  OBVIOUS
<1> DEFINE f == Frontier
<1>0. /\ executed \in Seq(Word) /\ probe \in Seq(Command) /\ crnt \in Command
      /\ sent \in Seq(Command)
  BY DEF WireInv
<1>1. PICK g : g = Frontier'
  OBVIOUS
<1>2. f \in Nat \X Nat /\ g \in Nat \X Nat /\ (g = f \/ Before(f, g))
  BY <1>1, FrontierMoves
<1>3. Ordered(executed, probe, crnt, sent, f)
  BY DEF OrderInv
<1>4. Ordered(executed, probe, crnt, sent, g)
  BY <1>0, <1>2, <1>3, FrontierOrdered
<1>5. SUFFICES Ordered(executed', probe', crnt', sent', g)
  BY <1>1 DEF OrderInv
<1> HIDE DEF f
<1>6. CASE Pack
  <2> DEFINE size == Space(crnt, reqOf[cur], rest)
             nw == NextWords(size)
  <2>1. CASE size <= 0
    BY <1>4, <1>6, <2>1 DEF Pack, device
  <2>2. CASE ~(size <= 0)
    <3>1. /\ crnt' = Added(crnt, reqOf[cur], nw) /\ rest > 0 /\ rest' = rest - size
          /\ UNCHANGED <<sent, probe, executed, cur, next, sizeOf>>
      BY <1>6, <2>2 DEF Pack, device
    <3>2. size \in Nat /\ size <= rest
      BY <2>2, SpaceBounds DEF PackInv
    <3>3. /\ nw \in Seq(Word) /\ Len(nw) = size
          /\ \A k \in 1 .. size : nw[k] = <<cur, sizeOf[cur] - rest + k>>
      BY <3>1, <3>2, PackedWords
    <3>4. crnt'.words = crnt.words \o nw
      BY <3>1 DEF Added
    <3>5. /\ rest \in Nat /\ sizeOf[cur] \in Nat /\ cur \in Nat /\ cur < next /\ next \in Nat
          /\ rest' \in Nat
      BY <3>1, <3>2, PacketAssumption DEF RequestInv, Ids
    <3>6. f = <<cur, sizeOf[cur] - rest + 1>>
      BY <3>1 DEF Frontier, f
    <3>7. g = IF rest' > 0 THEN <<cur, sizeOf[cur] - (rest - size) + 1>> ELSE <<next, 0>>
      BY <1>1, <3>1 DEF Frontier
    <3> HIDE DEF size, nw
    <3>8. Rising(nw)
      BY <3>2, <3>3, <3>5 DEF Rising, Before
    <3>9. Below(nw, g)
      BY <3>1, <3>2, <3>3, <3>5, <3>7 DEF Below, Before
    <3>10. \A i \in 1 .. Len(nw) : nw[i] = f \/ Before(f, nw[i])
      BY <3>2, <3>3, <3>5, <3>6 DEF Before
    <3> QED
      BY <1>0, <1>2, <1>3, <3>1, <3>3, <3>4, <3>8, <3>9, <3>10, PackOrdered
  <2> QED
    BY <2>1, <2>2
<1>7. CASE Send
  BY <1>0, <1>4, <1>7, SendOrdered DEF Send, NewCommand
<1>8. CASE SendRaises
  <2>1. /\ crnt' = Empty /\ sent' = <<>> /\ executed' = executed
        /\ probe' \in {probe, Append(probe, crnt)}
    BY <1>8 DEF SendRaises, Abort
  <2>2. Ordered(executed, probe, Empty, <<>>, g)
    BY <1>4, AbortOrdered
  <2>3. Ordered(executed, Append(probe, crnt), Empty, <<>>, g)
    BY <1>0, <1>4, SendOrdered, AbortOrdered
  <2> QED
    BY <2>1, <2>2, <2>3
<1>9. CASE ReadFails \/ ReadRaises
  <2>1. crnt' = Empty /\ sent' = <<>> /\ executed' = executed /\ probe' = probe
    BY <1>9 DEF ReadFails, ReadRaises, Abort, device
  <2> QED
    BY <1>4, <2>1, AbortOrdered
<1>10. CASE Read
  <2>1. sent # <<>> /\ sent' = Tail(sent) /\ UNCHANGED <<crnt, probe, executed>>
    BY <1>10 DEF Read, Reading
  <2> QED
    BY <1>0, <1>4, <2>1, ReadOrdered
<1>11. CASE Execute
  <2>1. probe # <<>> /\ probe' = Tail(probe) /\ Head(probe) \in Command
        /\ UNCHANGED <<crnt, sent>>
    BY <1>11, ProbeStep DEF Execute, queue
  <2>a. PICK k \in 0 .. Len(Head(probe).words) :
          \E ws, d, y : Answers(Head(probe), k, ws, d, y)
    BY <1>11, ProbeStep
  <2>b. PICK ws, d, y : Answers(Head(probe), k, ws, d, y)
    BY <2>a
  <2>2. /\ ws \in Seq(Word) /\ Len(ws) = k /\ \A m \in 1 .. k : ws[m] = Head(probe).words[m]
        /\ executed' = executed \o Chosen(ws, Ids \ Reads)
        /\ Chosen(ws, Ids \ Reads) \in Seq(Word)
    BY <2>b DEF Answers
  <2> DEFINE e == Chosen(ws, Ids \ Reads)
  <2>3. /\ \A i \in 1 .. Len(e) : \E j \in 1 .. k : e[i] = ws[j]
        /\ \A i, j \in 1 .. Len(e) : i < j =>
             \E l, m \in 1 .. k : l < m /\ e[i] = ws[l] /\ e[j] = ws[m]
    <3>1. Within(e, ws, Ids \ Reads, Len(ws))
      BY <2>2, ChosenWithin
    <3> HIDE DEF e
    <3> QED
      BY <2>2, <3>1 DEF Within
  <2>4. Head(probe) = probe[1]
    BY <1>0, <2>1
  <2>5. k \in Nat /\ 1 .. k \subseteq 1 .. Len(probe[1].words)
    BY <2>1, <2>2, <2>4 DEF Command
  <2> HIDE DEF e
  <2>6. \A i \in 1 .. Len(e) : \E j \in 1 .. Len(probe[1].words) : e[i] = probe[1].words[j]
    <3> SUFFICES ASSUME NEW i \in 1 .. Len(e)
                 PROVE  \E j \in 1 .. Len(probe[1].words) : e[i] = probe[1].words[j]
      OBVIOUS
    <3>1. PICK j \in 1 .. k : e[i] = ws[j]
      BY <2>3
    <3>2. e[i] = probe[1].words[j] /\ j \in 1 .. Len(probe[1].words)
      BY <2>2, <2>4, <2>5, <3>1
    <3> QED
      BY <3>2
  <2>7. ASSUME NEW i \in 1 .. Len(e), NEW j \in 1 .. Len(e), i < j
        PROVE  \E l, m \in 1 .. Len(probe[1].words) :
                 l < m /\ e[i] = probe[1].words[l] /\ e[j] = probe[1].words[m]
    <3>1. PICK l \in 1 .. k, m \in 1 .. k : l < m /\ e[i] = ws[l] /\ e[j] = ws[m]
      BY <2>3, <2>7
    <3>2. /\ e[i] = probe[1].words[l] /\ l \in 1 .. Len(probe[1].words)
          /\ e[j] = probe[1].words[m] /\ m \in 1 .. Len(probe[1].words)
      BY <2>2, <2>4, <2>5, <3>1
    <3> QED
      BY <3>1, <3>2
  <2>8. e \in Seq(Word) /\ executed' = executed \o e
    BY <2>2 DEF e
  <2> QED
    BY <1>0, <1>4, <2>1, <2>6, <2>7, <2>8, ExecuteOrdered
<1>12. CASE PackDone \/ GetResult \/ GetAsserts \/ GetFlushes \/ Drained \/ SendNothing
  BY <1>4, <1>12 DEF PackDone, GetResult, GetAsserts, GetFlushes, Drained, SendNothing,
    queue, device
<1>13. CASE Skip \/ SkipRaises \/ Flush \/ (\E id \in Ids : Get(id)) \/ UNCHANGED vars
  BY <1>4, <1>13 DEF Skip, SkipRaises, Flush, Get, vars, queue, device
<1>14. CASE \E r \in Requests, n \in 1 .. MaxWords : Issue(r, n)
  BY <1>4, <1>14 DEF Issue, device
<1> QED
  BY <1>6, <1>7, <1>8, <1>9, <1>10, <1>11, <1>12, <1>13, <1>14 DEF Next, Host, Works, Caller

-----------------------------------------------------------------------------
(* Each read gets its own words.                                           *)

\* V is the part of W behind its first s words.
PartOf(W, s, V) == s + Len(V) <= Len(W) /\ \A k \in 1 .. Len(V) : V[k] = W[s + k]

\* W is what the reads in tr are waiting for, one after the other; the words of
\* the j-th end at ask[j].
Stream(W, ask, tr, size) ==
  /\ W \in Seq(Word) /\ ask \in [0 .. Len(tr) -> Nat]
  /\ ask[0] = 0 /\ ask[Len(tr)] = Len(W)
  /\ \A j \in 1 .. Len(tr) : ask[j] = ask[j - 1] + size[tr[j]]
  /\ \A j \in 1 .. Len(tr) : \A k \in 1 .. size[tr[j]] : W[ask[j - 1] + k] = <<tr[j], k>>

Counted(c, ids) == Len(Chosen(c.words, ids)) = c.rc

\* What is in the buffer, what the packets in se ask for and what the one under
\* construction asks for are W in this order; the j-th ends at pos[j].
Placed(W, pos, b, se, c, ids) ==
  /\ b \in Seq(Word) /\ pos \in [0 .. Len(se) -> Nat]
  /\ pos[0] = Len(b) /\ PartOf(W, 0, b)
  /\ \A j \in 1 .. Len(se) :
       /\ Counted(se[j], ids) /\ pos[j] = pos[j - 1] + se[j].rc
       /\ PartOf(W, pos[j - 1], Chosen(se[j].words, ids))
  /\ Counted(c, ids) /\ PartOf(W, pos[Len(se)], Chosen(c.words, ids))

\* The words of the read under way that are not packed yet.
Unpacked == IF rest > 0 /\ cur \in Reads THEN rest ELSE 0

StreamInv ==
  /\ transfers \in Seq(Ids) /\ \A j \in 1 .. Len(transfers) : transfers[j] < next
  /\ \E W, ask, pos : /\ Stream(W, ask, transfers, sizeOf)
                      /\ Placed(W, pos, buf, sent, crnt, Reads)
                      /\ pos[Len(sent)] + crnt.rc + Unpacked = Len(W)
  /\ Unpacked > 0 => transfers # <<>> /\ transfers[Len(transfers)] = cur

\* The probe holds the packets in sent behind those it has answered, and a good
\* answer has the words of its packet.
PairInv ==
  skip = 0 =>
    /\ \A j \in 1 .. Len(probe) : probe[j] = sent[Len(out) + j]
    /\ \A j \in 1 .. Len(out) : out[j].ok => out[j].data = Chosen(sent[j].words, Reads)

DataInv == \A id \in Ids : status[id] = "done" => id < next /\ data[id] = WordsOf(id, sizeOf[id])

OwnInv == ~desync => StreamInv /\ PairInv /\ DataInv

\* Sums grow.
LEMMA SumGrows ==
  ASSUME NEW n \in Nat, NEW f \in [0 .. n -> Nat], \A j \in 1 .. n : f[j - 1] <= f[j]
  PROVE  \A i, j \in 0 .. n : i <= j => f[i] <= f[j]
<1> SUFFICES ASSUME NEW i \in 0 .. n PROVE \A j \in 0 .. n : i <= j => f[i] <= f[j]
  OBVIOUS
<1> DEFINE S == {d \in Nat : i + d <= n => f[i] <= f[i + d]}
<1>1. 0 \in S
  OBVIOUS
<1>2. ASSUME NEW d \in Nat, d \in S PROVE d + 1 \in S
  <2>1. SUFFICES ASSUME i + (d + 1) <= n PROVE f[i] <= f[i + (d + 1)]
    OBVIOUS
  <2>2. /\ i + (d + 1) \in 1 .. n /\ (i + (d + 1)) - 1 = i + d /\ i + d \in 0 .. n
        /\ i + (d + 1) \in 0 .. n
    BY <2>1
  <2>3. f[i] <= f[i + d] /\ f[i + d] <= f[i + (d + 1)]
    BY <1>2, <2>1, <2>2
  <2> QED
    BY <2>2, <2>3
<1> HIDE DEF S
<1>3. \A d \in Nat : d \in S
  BY <1>1, <1>2, Induct
<1> SUFFICES ASSUME NEW j \in 0 .. n, i <= j PROVE f[i] <= f[j]
  OBVIOUS
<1>4. j - i \in Nat /\ i + (j - i) = j
  OBVIOUS
<1>5. j - i \in S
  BY <1>3, <1>4
<1> QED
  BY <1>4, <1>5 DEF S

LEMMA StreamGrows ==
  ASSUME NEW W, NEW ask, NEW tr \in Seq(Ids), NEW size \in [Ids -> Nat],
         Stream(W, ask, tr, size)
  PROVE  /\ \A i, j \in 0 .. Len(tr) : i <= j => ask[i] <= ask[j]
         /\ \A j \in 1 .. Len(tr) : size[tr[j]] \in Nat /\ ask[j - 1] \in Nat /\ ask[j] \in Nat
         /\ Len(tr) \in Nat
<1>1. Len(tr) \in Nat /\ \A j \in 1 .. Len(tr) : tr[j] \in Ids
  OBVIOUS
<1>2. \A j \in 1 .. Len(tr) : size[tr[j]] \in Nat
  BY <1>1
<1>3. /\ ask \in [0 .. Len(tr) -> Nat]
      /\ \A j \in 1 .. Len(tr) : ask[j] = ask[j - 1] + size[tr[j]]
  BY DEF Stream
<1> DEFINE n == Len(tr)
<1> HIDE DEF n
<1>4. \A j \in 1 .. n : ask[j - 1] \in Nat /\ ask[j] \in Nat
  BY <1>1, <1>3 DEF n
<1>5. \A j \in 1 .. n : ask[j - 1] <= ask[j]
  <2> SUFFICES ASSUME NEW j \in 1 .. n PROVE ask[j - 1] <= ask[j]
    OBVIOUS
  <2>1. size[tr[j]] \in Nat /\ ask[j - 1] \in Nat /\ ask[j] = ask[j - 1] + size[tr[j]]
    BY <1>2, <1>3, <1>4 DEF n
  <2> HIDE DEF n
  <2> QED
    BY <2>1
<1>6. \A i, j \in 0 .. n : i <= j => ask[i] <= ask[j]
  BY <1>1, <1>3, <1>5, SumGrows DEF n
<1> QED
  BY <1>1, <1>2, <1>4, <1>6 DEF n

\* Asked is the sum it is meant to be.
LEMMA AskedIs ==
  ASSUME NEW W, NEW ask, transfers \in Seq(Ids), Stream(W, ask, transfers, sizeOf)
  PROVE  \A n \in 0 .. Len(transfers) : Asked[n] = ask[n]
<1> DEFINE F(f) == [n \in 0 .. Len(transfers) |->
                     IF n = 0 THEN 0 ELSE f[n - 1] + sizeOf[transfers[n]]]
           g == CHOOSE f : f = F(f)
<1>0. Len(transfers) \in Nat
  OBVIOUS
<1>1. ask = F(ask)
  <2>1. ask = [n \in 0 .. Len(transfers) |-> ask[n]]
    BY DEF Stream
  <2>2. ASSUME NEW n \in 0 .. Len(transfers) PROVE ask[n] = F(ask)[n]
    <3>1. CASE n = 0
      BY <3>1 DEF Stream
    <3>2. CASE n # 0
      <4>1. n \in 1 .. Len(transfers)
        BY <3>2
      <4> QED
        BY <4>1, <3>2 DEF Stream
    <3> QED
      BY <3>1, <3>2
  <2> QED
    BY <2>1, <2>2
<1>2. g = F(g)
  BY <1>1
<1>3. Asked = g
  BY DEF Asked
<1> HIDE DEF g
<1>4. g[0] = 0
  <2>1. 0 \in 0 .. Len(transfers)
    BY <1>0
  <2>2. g[0] = F(g)[0]
    BY <1>2
  <2> QED
    BY <2>1, <2>2
<1>5. ASSUME NEW m \in 1 .. Len(transfers)
      PROVE  g[m] = g[m - 1] + sizeOf[transfers[m]]
  <2>1. m \in 0 .. Len(transfers) /\ m # 0
    OBVIOUS
  <2>2. g[m] = F(g)[m]
    BY <1>2
  <2> QED
    BY <2>1, <2>2
<1> HIDE DEF F
<1> DEFINE S == {n \in Nat : n <= Len(transfers) => g[n] = ask[n]}
<1>6. 0 \in S
  BY <1>4 DEF Stream
<1>7. ASSUME NEW n \in Nat, n \in S PROVE n + 1 \in S
  <2>1. SUFFICES ASSUME n + 1 <= Len(transfers) PROVE g[n + 1] = ask[n + 1]
    OBVIOUS
  <2>2. n + 1 \in 1 .. Len(transfers) /\ (n + 1) - 1 = n /\ g[n] = ask[n]
    BY <1>0, <1>7, <2>1
  <2>3. g[n + 1] = g[n] + sizeOf[transfers[n + 1]]
    BY <1>5, <2>2
  <2>4. ask[n + 1] = ask[n] + sizeOf[transfers[n + 1]]
    BY <2>2 DEF Stream
  <2> QED
    BY <2>2, <2>3, <2>4
<1> HIDE DEF S
<1>8. \A n \in Nat : n \in S
  BY <1>6, <1>7, Induct
<1> QED
  BY <1>0, <1>3, <1>8 DEF S

\* There is a greatest element in a set of numbers up to n.
LEMMA GreatestNumber ==
  ASSUME NEW n \in Nat, NEW T \in SUBSET (0 .. n), T # {}
  PROVE  \E m \in T : \A k \in T : k <= m
<1> DEFINE D == {n - k : k \in T}
<1>1. D \in SUBSET Nat /\ D # {}
  <2>1. \A k \in T : n - k \in Nat
    OBVIOUS
  <2>2. PICK k \in T : TRUE
    OBVIOUS
  <2> QED
    BY <2>1, <2>2
<1>2. PICK d \in D : \A e \in D : d <= e
  BY <1>1, LeastNumber
<1>3. PICK m \in T : d = n - m
  BY <1>2
<1>4. \A k \in T : n - m <= n - k
  BY <1>2, <1>3
<1>5. \A k \in T : k <= m
  BY <1>4
<1> QED
  BY <1>5

\* The elements of s behind the first a, up to the z-th.
Between(s, a, z) == SubSeq(s, a + 1, z)

\* The reads tr take their words from b, as many as there are words for: the
\* first m; tr2, b2, st2 and d2 is what is left.
Served(m, ask, b, tr, tr2, b2, st, st2, d, d2) ==
  /\ m \in 0 .. Len(tr) /\ ask[m] <= Len(b)
  /\ tr2 = Between(tr, m, Len(tr)) /\ b2 = Between(b, ask[m], Len(b))
  /\ \A id \in Ids :
       \/ st2[id] = st[id] /\ d2[id] = d[id]
       \/ \E j \in 1 .. m : tr[j] = id /\ d2[id] = Between(b, ask[j - 1], ask[j])

\* What Attach does, said without its choices.
LEMMA AttachDoes ==
  ASSUME NEW W, NEW ask, transfers \in Seq(Ids), sizeOf \in [Ids -> Nat],
         Stream(W, ask, transfers, sizeOf),
         buf \o Payload(Head(sent), Head(out)) \in Seq(Word),
         Attach(buf \o Payload(Head(sent), Head(out)))
  PROVE  \E m : Served(m, ask, buf \o Payload(Head(sent), Head(out)), transfers, transfers', buf',
                      status, status', data, data')
<1> DEFINE b == buf \o Payload(Head(sent), Head(out))
           n == Len(transfers)
           T == {i \in 0 .. n : Asked[i] <= Len(b)}
           m == CHOOSE i \in T : \A i2 \in T : i2 <= i
           pos(id) == CHOOSE j \in 1 .. m : transfers[j] = id
           got(id) == \E j \in 1 .. m : transfers[j] = id
<1>b. b \in Seq(Word) /\ Attach(b)
  OBVIOUS
<1>0. n \in Nat /\ Len(b) \in Nat
  <2> HIDE DEF b
  <2> QED
    BY <1>b
<1>1. \A i \in 0 .. n : Asked[i] = ask[i]
  BY AskedIs
<1>2. 0 \in T /\ T \in SUBSET (0 .. n)
  <2>1. ask[0] = 0
    BY DEF Stream
  <2> QED
    BY <1>0, <1>1, <2>1
<1>3. \E i \in T : \A i2 \in T : i2 <= i
  BY <1>0, <1>2, GreatestNumber
<1>4. m \in T
  BY <1>3
<1>5. /\ status' = [id \in Ids |-> IF got(id) THEN "done" ELSE status[id]]
      /\ data' = [id \in Ids |->
                    IF got(id) THEN SubSeq(b, Asked[pos(id) - 1] + 1, Asked[pos(id)])
                    ELSE data[id]]
      /\ transfers' = SubSeq(transfers, m + 1, n)
      /\ buf' = SubSeq(b, Asked[m] + 1, Len(b))
  BY <1>b DEF Attach
<1> HIDE DEF m, T, b
<1>6. m \in 0 .. n /\ Asked[m] = ask[m] /\ ask[m] <= Len(b)
  BY <1>1, <1>4 DEF T
<1>7. ASSUME NEW id \in Ids
      PROVE  \/ status'[id] = status[id] /\ data'[id] = data[id]
             \/ \E j \in 1 .. m :
                  transfers[j] = id /\ data'[id] = SubSeq(b, ask[j - 1] + 1, ask[j])
  <2>1. CASE ~got(id)
    BY <1>5, <2>1
  <2>2. CASE got(id)
    <3>1. pos(id) \in 1 .. m /\ transfers[pos(id)] = id
      BY <2>2
    <3>2. data'[id] = SubSeq(b, Asked[pos(id) - 1] + 1, Asked[pos(id)])
      BY <1>5, <2>2
    <3> HIDE DEF pos
    <3>3. pos(id) - 1 \in 0 .. n /\ pos(id) \in 0 .. n
      BY <1>0, <1>6, <3>1
    <3> QED
      BY <1>1, <3>1, <3>2, <3>3
  <2> QED
    BY <2>1, <2>2
<1>8. Served(m, ask, b, transfers, transfers', buf', status, status', data, data')
  BY <1>5, <1>6, <1>7 DEF Served, n, Between
<1> QED
  BY <1>8 DEF b

\* The last of the packets se ends at e.
EndsAt(pos, se, e) == pos[Len(se)] = e

\* W2 is W with n words behind it.
Longer(W2, W, n) == Len(W2) = Len(W) + n /\ \A k \in 1 .. Len(W) : W2[k] = W[k]

LEMMA EmptyStream ==
  ASSUME NEW size, NEW ids
  PROVE  LET none == [j \in 0 .. 0 |-> 0]
         IN /\ Stream(<<>>, none, <<>>, size) /\ Placed(<<>>, none, <<>>, <<>>, Empty, ids)
            /\ none[Len(<<>>)] + Empty.rc + 0 = Len(<<>>)
<1>1. Len(<<>>) = 0 /\ <<>> \in Seq(Word) /\ Chosen(<<>>, ids) = <<>>
  BY EmptySeq, ChosenNone
<1>2. Empty.words = <<>> /\ Empty.rc = 0
  BY DEF Empty
<1> DEFINE none == [j \in 0 .. 0 |-> 0]
<1>3. none \in [0 .. 0 -> Nat] /\ none[0] = 0
  OBVIOUS
<1> HIDE DEF none
<1>4. Stream(<<>>, none, <<>>, size)
  BY <1>1, <1>3 DEF Stream
<1>5. Placed(<<>>, none, <<>>, <<>>, Empty, ids)
  BY <1>1, <1>2, <1>3 DEF Placed, PartOf, Counted
<1> QED
  BY <1>1, <1>2, <1>3, <1>4, <1>5 DEF none

LEMMA StreamSame ==
  ASSUME NEW W, NEW ask, NEW tr, NEW size, Stream(W, ask, tr, size), NEW size2,
         \A j \in 1 .. Len(tr) : size2[tr[j]] = size[tr[j]]
  PROVE  Stream(W, ask, tr, size2)
BY DEF Stream

LEMMA ConcatParts ==
  ASSUME NEW s \in Seq(Word), NEW t \in Seq(Word)
  PROVE  /\ s \o t \in Seq(Word) /\ Len(s \o t) = Len(s) + Len(t)
         /\ Len(s) \in Nat /\ Len(t) \in Nat
         /\ \A k \in 1 .. Len(s) : (s \o t)[k] = s[k]
         /\ \A k \in 1 .. Len(t) : (s \o t)[Len(s) + k] = t[k]
<1>1. Len(s) \in Nat /\ Len(t) \in Nat
  OBVIOUS
<1>2. /\ s \o t \in Seq(Word) /\ Len(s \o t) = Len(s) + Len(t)
      /\ \A i \in 1 .. Len(s) + Len(t) :
           (s \o t)[i] = IF i <= Len(s) THEN s[i] ELSE t[i - Len(s)]
  BY ConcatProperties
<1>3. \A k \in 1 .. Len(s) : (s \o t)[k] = s[k]
  BY <1>1, <1>2
<1>4. ASSUME NEW k \in 1 .. Len(t) PROVE (s \o t)[Len(s) + k] = t[k]
  <2>1. Len(s) + k \in 1 .. Len(s) + Len(t) /\ ~(Len(s) + k <= Len(s)) /\ (Len(s) + k) - Len(s) = k
    BY <1>1
  <2> QED
    BY <1>2, <2>1
<1> QED
  BY <1>1, <1>2, <1>3, <1>4

\* A new read waits behind all others.
LEMMA StreamIssue ==
  ASSUME NEW W, NEW ask, NEW tr \in Seq(Ids), NEW size \in [Ids -> Nat],
         Stream(W, ask, tr, size), NEW size2, NEW id \in Ids, NEW n \in 1 .. MaxWords,
         size2[id] = n, \A j \in 1 .. Len(tr) : size2[tr[j]] = size[tr[j]]
  PROVE  \A tr2 : tr2 = Append(tr, id) =>
           \E W2, ask2 : Stream(W2, ask2, tr2, size2) /\ Longer(W2, W, n)
<1> DEFINE V == [k \in 1 .. n |-> <<id, k>>]
           W2 == W \o V
           tr2 == Append(tr, id)
           l == Len(tr)
           ask2 == [j \in 0 .. l + 1 |-> IF j <= l THEN ask[j] ELSE Len(W) + n]
<1>0. W \in Seq(Word) /\ Len(W) \in Nat /\ n \in Nat /\ l \in Nat
  BY PacketAssumption DEF Stream
<1>1. V \in Seq(Word) /\ Len(V) = n /\ \A k \in 1 .. n : V[k] = <<id, k>>
  <2>1. V \in [1 .. n -> Word]
    BY PacketAssumption DEF Word
  <2>2. V \in Seq(Word)
    BY <1>0, <2>1, SeqDef
  <2>3. DOMAIN V = 1 .. Len(V) /\ Len(V) \in Nat
    BY <2>2, LenProperties
  <2>4. DOMAIN V = 1 .. n
    OBVIOUS
  <2> HIDE DEF V
  <2>5. Len(V) = n
    BY <1>0, <2>3, <2>4, SameInterval
  <2> QED
    BY <2>2, <2>5 DEF V
<1> HIDE DEF V
<1>2. /\ W2 \in Seq(Word) /\ Len(W2) = Len(W) + n
      /\ \A k \in 1 .. Len(W) : W2[k] = W[k]
      /\ \A k \in 1 .. n : W2[Len(W) + k] = <<id, k>>
  <2>1. W \in Seq(Word) /\ V \in Seq(Word)
    BY <1>0, <1>1
  <2>2. /\ W2 \in Seq(Word) /\ Len(W2) = Len(W) + Len(V)
        /\ \A k \in 1 .. Len(W) : W2[k] = W[k]
        /\ \A k \in 1 .. Len(V) : W2[Len(W) + k] = V[k]
    BY <2>1, ConcatParts
  <2> HIDE DEF W2
  <2> QED
    BY <1>1, <2>2
<1> HIDE DEF W2
<1>3. /\ Len(tr2) = l + 1 /\ \A j \in 1 .. l : tr2[j] = tr[j]
      /\ tr2[l + 1] = id
  OBVIOUS
<1> HIDE DEF tr2
<1>4. /\ ask \in [0 .. l -> Nat] /\ ask[0] = 0 /\ ask[l] = Len(W)
      /\ \A j \in 1 .. l : ask[j] = ask[j - 1] + size[tr[j]]
      /\ \A j \in 1 .. l : \A k \in 1 .. size[tr[j]] : W[ask[j - 1] + k] = <<tr[j], k>>
  BY DEF Stream
<1>5. /\ \A i, j \in 0 .. l : i <= j => ask[i] <= ask[j]
      /\ \A j \in 1 .. l : size[tr[j]] \in Nat /\ ask[j - 1] \in Nat /\ ask[j] \in Nat
  BY StreamGrows
<1>6. \A j \in 1 .. l : size2[tr2[j]] = size[tr[j]]
  BY <1>3 DEF l
<1> HIDE DEF l
<1>7. /\ ask2 \in [0 .. l + 1 -> Nat] /\ ask2[0] = 0 /\ ask2[l + 1] = Len(W) + n
      /\ \A j \in 0 .. l : ask2[j] = ask[j]
  BY <1>0, <1>4
<1> HIDE DEF ask2
<1>8. ASSUME NEW j \in 1 .. l + 1
      PROVE  /\ ask2[j] = ask2[j - 1] + size2[tr2[j]]
             /\ \A k \in 1 .. size2[tr2[j]] : W2[ask2[j - 1] + k] = <<tr2[j], k>>
  <2>1. CASE j \in 1 .. l
    <3>0. j \in 0 .. l /\ j - 1 \in 0 .. l
      BY <1>0, <2>1
    <3>1. /\ size2[tr2[j]] = size[tr[j]] /\ ask2[j] = ask[j] /\ ask2[j - 1] = ask[j - 1]
          /\ tr2[j] = tr[j]
      BY <1>3, <1>6, <1>7, <2>1, <3>0
    <3>2. /\ size[tr[j]] \in Nat /\ ask[j - 1] \in Nat /\ ask[j] = ask[j - 1] + size[tr[j]]
          /\ ask[j] <= Len(W)
      <4>1. size[tr[j]] \in Nat /\ ask[j - 1] \in Nat
        BY <1>5, <2>1
      <4>2. ask[j] = ask[j - 1] + size[tr[j]]
        BY <1>4, <2>1
      <4>3. j \in 0 .. l /\ l \in 0 .. l /\ j <= l
        BY <1>0, <2>1
      <4>4. ask[j] <= ask[l]
        BY <1>5, <4>3
      <4> QED
        BY <1>4, <4>1, <4>2, <4>4
    <3>3. ASSUME NEW k \in 1 .. size[tr[j]] PROVE W2[ask[j - 1] + k] = <<tr[j], k>>
      <4>1. ask[j - 1] + k \in 1 .. Len(W)
        <5>1. \A u, z, v \in Nat : u + z <= v => \A i \in 1 .. z : u + i \in 1 .. v
          OBVIOUS
        <5>2. ask[j - 1] + size[tr[j]] <= Len(W)
          BY <3>2
        <5> QED
          BY <1>0, <3>2, <5>1, <5>2
      <4>2. W2[ask[j - 1] + k] = W[ask[j - 1] + k]
        BY ONLY <1>2, <4>1
      <4>3. W[ask[j - 1] + k] = <<tr[j], k>>
        BY <1>4, <2>1
      <4> QED
        BY <4>2, <4>3
    <3> QED
      BY <3>1, <3>2, <3>3
  <2>2. CASE j = l + 1
    <3>1. /\ tr2[j] = id /\ size2[tr2[j]] = n /\ ask2[j] = Len(W) + n /\ ask2[j - 1] = Len(W)
      BY <1>0, <1>3, <1>4, <1>7, <2>2
    <3>2. ASSUME NEW k \in 1 .. n PROVE W2[Len(W) + k] = <<id, k>>
      BY <1>2
    <3> QED
      BY <3>1, <3>2
  <2>3. j \in 1 .. l \/ j = l + 1
    BY <1>0
  <2> QED
    BY <2>1, <2>2, <2>3
<1>9. Stream(W2, ask2, tr2, size2)
  BY <1>2, <1>3, <1>7, <1>8 DEF Stream
<1> QED
  <2>1. \E W3, ask3 : Stream(W3, ask3, tr2, size2) /\ Longer(W3, W, n)
    BY <1>2, <1>9 DEF Longer
  <2>2. \A t : t = tr2 => \E W3, ask3 : Stream(W3, ask3, t, size2) /\ Longer(W3, W, n)
    BY <2>1
  <2> QED
    BY <2>2 DEF tr2

LEMMA PartGrows ==
  ASSUME NEW W, NEW W2, NEW s \in Nat, NEW V \in Seq(Word), PartOf(W, s, V),
         Len(W) \in Nat, Len(W2) \in Nat, Len(W) <= Len(W2),
         \A k \in 1 .. Len(W) : W2[k] = W[k]
  PROVE  PartOf(W2, s, V)
<1>1. Len(V) \in Nat /\ s + Len(V) <= Len(W)
  BY DEF PartOf
<1>2. \A k \in 1 .. Len(V) : s + k \in 1 .. Len(W)
  BY <1>1
<1> QED
  BY <1>1, <1>2 DEF PartOf

\* Later requests do not matter to what is packed.
LEMMA PlacedSame ==
  ASSUME NEW W \in Seq(Word), NEW pos, NEW b, NEW se \in Seq(Command), NEW c \in Command,
         NEW X, NEW Y, Placed(W, pos, b, se, c, X), NEW W2 \in Seq(Word), Len(W) <= Len(W2),
         \A k \in 1 .. Len(W) : W2[k] = W[k],
         \A k \in 1 .. Len(c.words) : c.words[k][1] \in X <=> c.words[k][1] \in Y,
         \A j \in 1 .. Len(se) : \A k \in 1 .. Len(se[j].words) :
           se[j].words[k][1] \in X <=> se[j].words[k][1] \in Y
  PROVE  Placed(W2, pos, b, se, c, Y)
<1>0. Len(W) \in Nat /\ Len(W2) \in Nat
  OBVIOUS
<1>1. Len(W) \in Nat /\ Len(W2) \in Nat /\ Len(se) \in Nat /\ c.words \in Seq(Word)
      /\ \A j \in 1 .. Len(se) : se[j].words \in Seq(Word)
  <2>1. c.words \in Seq(Word)
    BY DEF Command
  <2> QED
    BY <1>0, <2>1, CommandWords
<1>2. /\ Chosen(c.words, X) = Chosen(c.words, Y) /\ Chosen(c.words, Y) \in Seq(Word)
      /\ \A j \in 1 .. Len(se) :
           /\ Chosen(se[j].words, X) = Chosen(se[j].words, Y)
           /\ Chosen(se[j].words, Y) \in Seq(Word)
  <2>1. Chosen(c.words, X) = Chosen(c.words, Y)
    BY <1>1, ChosenSame
  <2>2. \A ws \in Seq(Word) : Chosen(ws, Y) \in Seq(Word)
    BY ChosenWithin DEF Within
  <2>3. ASSUME NEW j \in 1 .. Len(se) PROVE Chosen(se[j].words, X) = Chosen(se[j].words, Y)
    <3>1. /\ se[j].words \in Seq(Word)
          /\ \A k \in 1 .. Len(se[j].words) :
               se[j].words[k][1] \in X <=> se[j].words[k][1] \in Y
      BY <1>1
    <3> HIDE <1>1
    <3> QED
      BY <3>1, ChosenSame
  <2> QED
    BY <1>1, <2>1, <2>2, <2>3
<1>3. b \in Seq(Word) /\ pos \in [0 .. Len(se) -> Nat] /\ pos[0] = Len(b) /\ PartOf(W2, 0, b)
  BY <1>1, PartGrows DEF Placed
<1>4. ASSUME NEW j \in 1 .. Len(se)
      PROVE  /\ Counted(se[j], Y) /\ pos[j] = pos[j - 1] + se[j].rc
             /\ PartOf(W2, pos[j - 1], Chosen(se[j].words, Y))
  <2>1. pos[j - 1] \in Nat
    <3>1. j - 1 \in 0 .. Len(se)
      BY <1>1
    <3> QED
      BY <1>3, <3>1
  <2>2. /\ Counted(se[j], X) /\ pos[j] = pos[j - 1] + se[j].rc
        /\ PartOf(W, pos[j - 1], Chosen(se[j].words, Y))
    BY <1>2 DEF Placed
  <2> QED
    BY <1>1, <1>2, <2>1, <2>2, PartGrows DEF Counted
<1>5. Counted(c, Y) /\ PartOf(W2, pos[Len(se)], Chosen(c.words, Y))
  <2>1. pos[Len(se)] \in Nat
    BY <1>1, <1>3
  <2>2. Counted(c, X) /\ PartOf(W, pos[Len(se)], Chosen(c.words, Y))
    BY <1>2 DEF Placed
  <2> QED
    BY <1>1, <1>2, <2>1, <2>2, PartGrows DEF Counted
<1> QED
  BY <1>3, <1>4, <1>5 DEF Placed

\* Words of one request are added to the command under construction.
LEMMA PlacedAdd ==
  ASSUME NEW W, NEW pos, NEW b, NEW se \in Seq(Command), NEW c \in Command, NEW ids,
         Placed(W, pos, b, se, c, ids), NEW nw \in Seq(Word), NEW d,
         d.words = c.words \o nw, NEW e, e = pos[Len(se)] + c.rc,
         \/ /\ \A k \in 1 .. Len(nw) : nw[k][1] \in ids
            /\ d.rc = c.rc + Len(nw) /\ PartOf(W, e, nw)
         \/ d.rc = c.rc /\ \A k \in 1 .. Len(nw) : nw[k][1] \notin ids
  PROVE  Placed(W, pos, b, se, d, ids)
<1> DEFINE C == Chosen(c.words, ids)
           D == Chosen(d.words, ids)
           p == pos[Len(se)]
<1>1. /\ c.words \in Seq(Word) /\ C \in Seq(Word) /\ Len(C) \in Nat /\ c.rc \in Nat
      /\ Len(nw) \in Nat /\ Len(C) = c.rc /\ PartOf(W, p, C) /\ p \in Nat
  <2>1. c.words \in Seq(Word) /\ c.rc \in Nat /\ Len(nw) \in Nat
    BY DEF Command
  <2>2. C \in Seq(Word)
    BY <2>1, ChosenWithin DEF Within
  <2>3. Len(C) = c.rc /\ PartOf(W, p, C)
    BY DEF Placed, Counted
  <2>4. p \in Nat
    <3>1. pos \in [0 .. Len(se) -> Nat]
      BY DEF Placed
    <3>2. Len(se) \in 0 .. Len(se)
      BY CommandWords
    <3> QED
      BY <3>1, <3>2
  <2> QED
    BY <2>1, <2>2, <2>3, <2>4
<1>2. CASE d.rc = c.rc /\ \A k \in 1 .. Len(nw) : nw[k][1] \notin ids
  <2>1. D = C
    BY <1>1, <1>2, ChosenMore
  <2> QED
    BY <1>1, <1>2, <2>1 DEF Placed, Counted
<1>3. CASE /\ \A k \in 1 .. Len(nw) : nw[k][1] \in ids
           /\ d.rc = c.rc + Len(nw) /\ PartOf(W, p + c.rc, nw)
  <2>1. D = C \o nw
    <3>1. Chosen(c.words \o nw, ids) = Chosen(c.words, ids) \o nw
      <4>1. \A k \in 1 .. Len(nw) : nw[k][1] \in ids
        BY <1>3
      <4>2. c.words \in Seq(Word) /\ nw \in Seq(Word)
        BY <1>1
      <4> QED
        BY ONLY <4>1, <4>2, ChosenMore
    <3> QED
      BY <3>1
  <2> HIDE DEF C, D, p
  <2>2. /\ Len(D) = Len(C) + Len(nw)
        /\ \A i \in 1 .. Len(C) + Len(nw) : D[i] = IF i <= Len(C) THEN C[i] ELSE nw[i - Len(C)]
    BY <1>1, <2>1, ConcatProperties
  <2>3. p + Len(D) <= Len(W)
    BY <1>1, <1>3, <2>2 DEF PartOf
  <2>4. ASSUME NEW i \in 1 .. Len(D) PROVE D[i] = W[p + i]
    <3>1. CASE i <= Len(C)
      BY <1>1, <2>2, <3>1 DEF PartOf
    <3>2. CASE ~(i <= Len(C))
      <4>1. i - Len(C) \in 1 .. Len(nw) /\ (p + c.rc) + (i - Len(C)) = p + i
        <5>1. /\ Len(C) \in Nat /\ Len(nw) \in Nat /\ c.rc = Len(C) /\ p \in Nat
              /\ Len(D) = Len(C) + Len(nw)
          BY <1>1, <2>2
        <5>2. i \in 1 .. Len(D) /\ ~(i <= Len(C))
          BY <3>2
        <5> QED
          BY ONLY <5>1, <5>2
      <4> QED
        BY <1>3, <2>2, <3>2, <4>1 DEF PartOf
    <3> QED
      BY <3>1, <3>2
  <2>5. Len(D) = d.rc /\ PartOf(W, p, D)
    BY <1>1, <1>3, <2>2, <2>3, <2>4 DEF PartOf
  <2> QED
    BY <2>5 DEF Placed, Counted, C, D, p
<1> QED
  BY <1>2, <1>3

LEMMA PlacedSend ==
  ASSUME NEW W \in Seq(Word), NEW pos, NEW b, NEW se \in Seq(Command), NEW c \in Command,
         NEW ids, Placed(W, pos, b, se, c, ids)
  PROVE  \A s, e : s = Append(se, c) /\ e = pos[Len(se)] + c.rc =>
           \E pos2 : Placed(W, pos2, b, s, Empty, ids) /\ EndsAt(pos2, s, e)
<1> DEFINE s == Append(se, c)
           l == Len(se)
           pos2 == [j \in 0 .. l + 1 |-> IF j <= l THEN pos[j] ELSE pos[l] + c.rc]
<1>1. /\ l \in Nat /\ Len(s) = l + 1 /\ \A j \in 1 .. l : s[j] = se[j]
      /\ s[l + 1] = c /\ c.rc \in Nat /\ Len(W) \in Nat
  BY DEF Command
<1> HIDE DEF s
<1>2. /\ b \in Seq(Word) /\ pos \in [0 .. l -> Nat]
      /\ pos[0] = Len(b) /\ PartOf(W, 0, b)
      /\ \A j \in 1 .. l :
           /\ Counted(se[j], ids) /\ pos[j] = pos[j - 1] + se[j].rc
           /\ PartOf(W, pos[j - 1], Chosen(se[j].words, ids))
      /\ Counted(c, ids) /\ PartOf(W, pos[l], Chosen(c.words, ids))
  BY DEF Placed
<1> HIDE DEF l
<1>3. /\ pos2 \in [0 .. l + 1 -> Nat] /\ pos2[l + 1] = pos[l] + c.rc
      /\ \A j \in 0 .. l : pos2[j] = pos[j]
  BY <1>1, <1>2
<1> HIDE DEF pos2
<1>4. ASSUME NEW j \in 1 .. l + 1
      PROVE  /\ Counted(s[j], ids) /\ pos2[j] = pos2[j - 1] + s[j].rc
             /\ PartOf(W, pos2[j - 1], Chosen(s[j].words, ids))
  <2>1. CASE j \in 1 .. l
    <3>1. s[j] = se[j] /\ pos2[j] = pos[j] /\ pos2[j - 1] = pos[j - 1]
      BY <1>1, <1>3, <2>1
    <3> QED
      BY <1>2, <2>1, <3>1
  <2>2. CASE j = l + 1
    <3>1. s[j] = c /\ pos2[j] = pos[l] + c.rc /\ pos2[j - 1] = pos[l]
      BY <1>1, <1>3, <2>2
    <3> QED
      BY <1>2, <3>1
  <2> QED
    BY <1>1, <2>1, <2>2
<1>5. Counted(Empty, ids) /\ PartOf(W, pos2[l + 1], Chosen(Empty.words, ids))
  <2>1. Empty.words = <<>> /\ Empty.rc = 0 /\ Chosen(<<>>, ids) = <<>> /\ Len(<<>>) = 0
    BY ChosenNone, EmptySeq DEF Empty
  <2>2. pos[l] + c.rc <= Len(W) /\ pos[l] + c.rc \in Nat
    BY <1>1, <1>2 DEF PartOf, Counted
  <2> QED
    BY <1>3, <2>1, <2>2 DEF Counted, PartOf
<1>6. pos2[0] = Len(b)
  <2>1. 0 \in 0 .. l
    BY <1>1
  <2> QED
    BY <1>2, <1>3, <2>1
<1>7. Placed(W, pos2, b, s, Empty, ids)
  BY <1>1, <1>2, <1>3, <1>4, <1>5, <1>6 DEF Placed
<1> QED
  <2>1. \A t, e : t = s /\ e = pos[l] + c.rc =>
          \E pos3 : Placed(W, pos3, b, t, Empty, ids) /\ EndsAt(pos3, t, e)
    BY <1>1, <1>3, <1>7 DEF EndsAt
  <2> QED
    BY <2>1 DEF s, l

LEMMA DropFirst ==
  ASSUME NEW S, NEW s \in Seq(S), NEW d \in 0 .. Len(s)
  PROVE  /\ SubSeq(s, d + 1, Len(s)) \in Seq(S)
         /\ Len(SubSeq(s, d + 1, Len(s))) = Len(s) - d
         /\ \A k \in 1 .. Len(s) - d : SubSeq(s, d + 1, Len(s))[k] = s[d + k]
<1>1. Len(s) \in Nat /\ d \in Nat /\ d + 1 \in Int /\ Len(s) \in Int
  OBVIOUS
<1>2. \A i \in d + 1 .. Len(s) : s[i] \in S
  OBVIOUS
<1>3. /\ SubSeq(s, d + 1, Len(s)) \in Seq(S)
      /\ Len(SubSeq(s, d + 1, Len(s))) =
           IF d + 1 <= Len(s) THEN Len(s) - (d + 1) + 1 ELSE 0
      /\ \A i \in 1 .. Len(s) - (d + 1) + 1 :
           SubSeq(s, d + 1, Len(s))[i] = s[(d + 1) + i - 1]
  BY <1>1, <1>2, SubSeqProperties
<1>4. Len(SubSeq(s, d + 1, Len(s))) = Len(s) - d
  BY <1>1, <1>3
<1>5. ASSUME NEW k \in 1 .. Len(s) - d PROVE SubSeq(s, d + 1, Len(s))[k] = s[d + k]
  <2>1. k \in 1 .. Len(s) - (d + 1) + 1 /\ (d + 1) + k - 1 = d + k
    BY <1>1
  <2> QED
    BY <1>3, <2>1
<1> QED
  BY <1>3, <1>4, <1>5

\* The first m reads have their words.
LEMMA StreamDrop ==
  ASSUME NEW W, NEW ask, NEW tr \in Seq(Ids), NEW size \in [Ids -> Nat],
         Stream(W, ask, tr, size), NEW m \in 0 .. Len(tr)
  PROVE  /\ ask[m] \in 0 .. Len(W)
         /\ \E ask2 : Stream(SubSeq(W, ask[m] + 1, Len(W)), ask2, SubSeq(tr, m + 1, Len(tr)), size)
<1> DEFINE l == Len(tr)
           n == l - m
           d == ask[m]
           W2 == SubSeq(W, d + 1, Len(W))
           tr2 == SubSeq(tr, m + 1, Len(tr))
           ask2 == [j \in 0 .. n |-> ask[j + m] - d]
<1>1. /\ W \in Seq(Word) /\ ask \in [0 .. l -> Nat] /\ ask[0] = 0 /\ ask[l] = Len(W)
      /\ \A j \in 1 .. l : ask[j] = ask[j - 1] + size[tr[j]]
      /\ \A j \in 1 .. l : \A k \in 1 .. size[tr[j]] : W[ask[j - 1] + k] = <<tr[j], k>>
  BY DEF Stream
<1>2. /\ \A i, j \in 0 .. l : i <= j => ask[i] <= ask[j]
      /\ \A j \in 1 .. l : size[tr[j]] \in Nat /\ ask[j - 1] \in Nat /\ ask[j] \in Nat
      /\ l \in Nat
  BY StreamGrows
<1>3. m \in Nat /\ m \in 0 .. l /\ n \in Nat /\ m + n = l /\ Len(W) \in Nat
  BY <1>1, <1>2
<1>4. /\ tr2 \in Seq(Ids) /\ Len(tr2) = n /\ \A k \in 1 .. n : tr2[k] = tr[m + k]
  BY DropFirst
<1> HIDE DEF l, n, tr2
<1>5. d \in 0 .. Len(W)
  <2>1. l \in 0 .. l /\ m <= l /\ ask[m] \in Nat
    BY <1>1, <1>2, <1>3
  <2>2. ask[m] <= Len(W)
    BY <1>1, <1>2, <1>3, <2>1
  <2> QED
    BY <1>3, <2>1, <2>2
<1>6. /\ W2 \in Seq(Word) /\ Len(W2) = Len(W) - d
      /\ \A k \in 1 .. Len(W) - d : W2[k] = W[d + k]
  BY <1>1, <1>5, DropFirst
<1> HIDE DEF W2, d
<1>7. ASSUME NEW j \in 0 .. n
      PROVE  j + m \in 0 .. l /\ ask[j + m] \in Nat /\ d <= ask[j + m] /\ ask[j + m] - d \in Nat
  <2>1. j + m \in 0 .. l /\ m <= j + m
    BY <1>3
  <2>2. ask[j + m] \in Nat /\ d <= ask[j + m]
    BY <1>1, <1>2, <1>3, <2>1 DEF d
  <2> QED
    BY <1>5, <2>1, <2>2
<1>8. ask2 \in [0 .. n -> Nat]
  BY <1>7
<1>9. ask2[0] = 0 /\ ask2[n] = Len(W2)
  <2>1. 0 \in 0 .. n /\ n \in 0 .. n /\ 0 + m = m /\ n + m = l
    BY <1>3
  <2>2. ask2[0] = ask[m] - d /\ ask2[n] = ask[l] - d
    BY <2>1
  <2> HIDE DEF ask2
  <2> QED
    BY <1>1, <1>5, <1>6, <2>2 DEF d
<1>10. \A j \in 0 .. n : ask2[j] = ask[j + m] - d
  OBVIOUS
<1> HIDE DEF ask2
<1>11. ASSUME NEW j \in 1 .. n
       PROVE  /\ ask2[j] = ask2[j - 1] + size[tr2[j]]
              /\ \A k \in 1 .. size[tr2[j]] : W2[ask2[j - 1] + k] = <<tr2[j], k>>
  <2>1. /\ j \in 0 .. n /\ j - 1 \in 0 .. n /\ j + m \in 1 .. l /\ (j + m) - 1 = (j - 1) + m
        /\ m + j = j + m
    BY <1>3
  <2>2. /\ ask2[j] = ask[j + m] - d /\ ask2[j - 1] = ask[(j - 1) + m] - d
        /\ ask[(j - 1) + m] - d \in Nat
    BY <1>7, <1>10, <2>1
  <2>3. tr2[j] = tr[j + m]
    BY <1>4, <2>1
  <2>4. /\ ask[j + m] = ask[(j - 1) + m] + size[tr[j + m]] /\ size[tr[j + m]] \in Nat
        /\ ask[(j - 1) + m] \in Nat /\ ask[j + m] \in Nat
        /\ \A k \in 1 .. size[tr[j + m]] : W[ask[(j - 1) + m] + k] = <<tr[j + m], k>>
    <3>1. /\ ask[j + m] = ask[(j + m) - 1] + size[tr[j + m]] /\ size[tr[j + m]] \in Nat
          /\ ask[(j + m) - 1] \in Nat /\ ask[j + m] \in Nat
          /\ \A k \in 1 .. size[tr[j + m]] : W[ask[(j + m) - 1] + k] = <<tr[j + m], k>>
      BY <1>1, <1>2, <2>1
    <3> QED
      BY <2>1, <3>1
  <2>5. ask[j + m] <= Len(W)
    <3>1. l \in 0 .. l /\ j + m \in 0 .. l /\ j + m <= l
      BY <1>3, <2>1
    <3> QED
      BY <1>1, <1>2, <3>1
  <2> DEFINE a == ask[(j - 1) + m]
             z == size[tr[j + m]]
  <2>6. /\ a \in Nat /\ z \in Nat /\ ask[j + m] = a + z /\ d \in Nat /\ d <= a
        /\ a + z <= Len(W) /\ \A k \in 1 .. z : W[a + k] = <<tr[j + m], k>>
    <3>1. d <= a
      BY <1>7, <2>1
    <3>2. d \in Nat
      BY <1>3, <1>5
    <3> QED
      BY <2>4, <2>5, <3>1, <3>2
  <2>7. ask2[j] = (a + z) - d /\ ask2[j - 1] = a - d
    BY <2>2, <2>6
  <2> HIDE DEF a, z
  <2>8. ASSUME NEW k \in 1 .. z PROVE W2[(a - d) + k] = <<tr[j + m], k>>
    <3>1. (a - d) + k \in 1 .. Len(W) - d /\ d + ((a - d) + k) = a + k
      BY <1>3, <2>6
    <3> QED
      BY <1>6, <2>6, <3>1
  <2>9. (a + z) - d = (a - d) + z
    BY <2>6
  <2> QED
    BY <2>3, <2>7, <2>8, <2>9 DEF z
<1>12. Stream(W2, ask2, tr2, size)
  BY <1>4, <1>6, <1>8, <1>9, <1>11 DEF Stream
<1> QED
  BY <1>5, <1>12 DEF W2, d, tr2

\* The first packet's words join the buffer, the first d words leave it.
LEMMA PlacedRead ==
  ASSUME NEW W \in Seq(Word), NEW pos, NEW b, NEW se \in Seq(Command), se # <<>>,
         NEW c \in Command, NEW ids, Placed(W, pos, b, se, c, ids),
         NEW b2 \in Seq(Word), Len(b2) = pos[1], PartOf(W, 0, b2),
         NEW d \in 0 .. Len(b2), d <= Len(W),
         NEW W2, W2 = Between(W, d, Len(W)), NEW b3, b3 = Between(b2, d, Len(b2)),
         NEW t, t = Tail(se), NEW e, e = pos[Len(se)] - d
  PROVE  \E pos2 : Placed(W2, pos2, b3, t, c, ids) /\ EndsAt(pos2, t, e)
<1> DEFINE l == Len(se)
           pos2 == [j \in 0 .. l - 1 |-> pos[j + 1] - d]
<1>1. /\ l \in Nat /\ l >= 1 /\ Len(t) = l - 1
      /\ \A j \in 1 .. l - 1 : t[j] = se[j + 1]
      /\ \A j \in 1 .. l : se[j].words \in Seq(Word) /\ se[j].rc \in Nat
  <2>1. Len(t) = Len(se) - 1 /\ \A i \in 1 .. Len(t) : t[i] = se[i + 1]
    BY HeadTailProperties
  <2>2. l \in Nat \ {0}
    BY EmptySeq
  <2>3. \A i \in Command : i.rc \in Nat
    BY DEF Command
  <2> QED
    BY <2>1, <2>2, <2>3, CommandWords
<1>2. /\ pos \in [0 .. l -> Nat]
      /\ \A j \in 1 .. l :
           /\ Counted(se[j], ids) /\ pos[j] = pos[j - 1] + se[j].rc
           /\ PartOf(W, pos[j - 1], Chosen(se[j].words, ids))
      /\ Counted(c, ids) /\ PartOf(W, pos[l], Chosen(c.words, ids))
  BY DEF Placed
<1>3. c.words \in Seq(Word) /\ Len(W) \in Nat /\ Len(b2) \in Nat /\ d \in 0 .. Len(W) /\ d \in Nat
  BY DEF Command
<1>4. \A ws \in Seq(Word) : Chosen(ws, ids) \in Seq(Word) /\ Len(Chosen(ws, ids)) \in Nat
  BY ChosenWithin DEF Within
<1>5. /\ W2 \in Seq(Word) /\ Len(W2) = Len(W) - d
      /\ \A k \in 1 .. Len(W) - d : W2[k] = W[d + k]
  BY <1>3, DropFirst DEF Between
<1>6. /\ b3 \in Seq(Word) /\ Len(b3) = Len(b2) - d
      /\ \A k \in 1 .. Len(b2) - d : b3[k] = b2[d + k]
  BY <1>3, DropFirst DEF Between
<1> HIDE DEF l
<1>7. ASSUME NEW s \in Nat, d <= s, NEW V \in Seq(Word), PartOf(W, s, V)
      PROVE  PartOf(W2, s - d, V)
  <2>1. Len(V) \in Nat /\ s + Len(V) <= Len(W) /\ \A k \in 1 .. Len(V) : V[k] = W[s + k]
    BY <1>7 DEF PartOf
  <2>2. (s - d) + Len(V) <= Len(W2)
    BY <1>3, <1>5, <1>7, <2>1
  <2>3. ASSUME NEW k \in 1 .. Len(V) PROVE V[k] = W2[(s - d) + k]
    <3>1. (s - d) + k \in 1 .. Len(W) - d /\ d + ((s - d) + k) = s + k
      BY <1>3, <1>7, <2>1
    <3> QED
      BY <1>5, <2>1, <3>1
  <2> QED
    BY <2>2, <2>3 DEF PartOf
<1>8. \A j \in 1 .. l : pos[j - 1] \in Nat /\ pos[j] \in Nat /\ pos[j - 1] <= pos[j]
  <2> SUFFICES ASSUME NEW j \in 1 .. l
               PROVE  pos[j - 1] \in Nat /\ pos[j] \in Nat /\ pos[j - 1] <= pos[j]
    OBVIOUS
  <2>1. j - 1 \in 0 .. l /\ j \in 0 .. l
    BY <1>1
  <2>2. pos[j - 1] \in Nat /\ pos[j] \in Nat /\ pos[j] = pos[j - 1] + se[j].rc /\ se[j].rc \in Nat
    BY <1>1, <1>2, <2>1
  <2> QED
    BY <2>2
<1>9. \A i, j \in 0 .. l : i <= j => pos[i] <= pos[j]
  BY <1>1, <1>2, <1>8, SumGrows
<1>10. ASSUME NEW j \in 1 .. l PROVE pos[j] \in Nat /\ d <= pos[j] /\ pos[j] - d \in Nat
  <2>1. 1 \in 0 .. l /\ j \in 0 .. l /\ 1 <= j
    BY <1>1
  <2>2. pos[1] <= pos[j] /\ pos[1] \in Nat
    BY <1>2, <1>9, <2>1
  <2> QED
    BY <1>3, <1>8, <2>2
<1>11. /\ pos2 \in [0 .. l - 1 -> Nat]
       /\ \A j \in 0 .. l - 1 : pos2[j] = pos[j + 1] - d
  <2>1. \A j \in 0 .. l - 1 : j + 1 \in 1 .. l
    BY <1>1
  <2> QED
    BY <1>10, <2>1
<1> HIDE DEF pos2
<1>12. pos2[0] = Len(b3)
  <2>1. 0 \in 0 .. l - 1 /\ 0 + 1 = 1
    BY <1>1
  <2>2. pos2[0] = pos[1] - d
    BY <1>11, <2>1
  <2> QED
    BY <1>6, <2>2
<1>13. PartOf(W2, 0, b3)
  <2>1. Len(b2) <= Len(W) /\ \A k \in 1 .. Len(b2) : b2[k] = W[0 + k]
    BY <1>3 DEF PartOf
  <2>2. 0 + Len(b3) <= Len(W2)
    BY <1>3, <1>5, <1>6, <2>1
  <2>3. ASSUME NEW k \in 1 .. Len(b3) PROVE b3[k] = W2[0 + k]
    <3>1. /\ k \in 1 .. Len(b2) - d /\ k \in 1 .. Len(W) - d /\ d + k \in 1 .. Len(b2)
          /\ 0 + k = k /\ 0 + (d + k) = d + k
      BY <1>3, <1>6, <2>1
    <3> QED
      BY <1>5, <1>6, <2>1, <3>1
  <2> QED
    BY <2>2, <2>3 DEF PartOf
<1>14. ASSUME NEW j \in 1 .. l - 1
       PROVE  /\ Counted(t[j], ids) /\ pos2[j] = pos2[j - 1] + t[j].rc
              /\ PartOf(W2, pos2[j - 1], Chosen(t[j].words, ids))
  <2>1. /\ j + 1 \in 1 .. l /\ j \in 1 .. l /\ (j + 1) - 1 = j /\ t[j] = se[j + 1]
        /\ j \in 0 .. l - 1 /\ j - 1 \in 0 .. l - 1 /\ (j - 1) + 1 = j
    BY <1>1
  <2>2. pos2[j] = pos[j + 1] - d /\ pos2[j - 1] = pos[j] - d
    BY <1>11, <2>1
  <2>3. /\ Counted(se[j + 1], ids) /\ pos[j + 1] = pos[j] + se[j + 1].rc
        /\ PartOf(W, pos[j], Chosen(se[j + 1].words, ids))
    <3>1. /\ Counted(se[j + 1], ids) /\ pos[j + 1] = pos[(j + 1) - 1] + se[j + 1].rc
          /\ PartOf(W, pos[(j + 1) - 1], Chosen(se[j + 1].words, ids))
      BY <1>2, <2>1
    <3> QED
      BY <2>1, <3>1
  <2>4. pos[j] \in Nat /\ d <= pos[j] /\ se[j + 1].rc \in Nat /\ se[j + 1].words \in Seq(Word)
    BY <1>1, <1>10, <2>1
  <2>5. PartOf(W2, pos[j] - d, Chosen(se[j + 1].words, ids))
    BY <1>4, <1>7, <2>3, <2>4
  <2>6. pos[j + 1] - d = (pos[j] - d) + se[j + 1].rc
    BY <1>3, <2>3, <2>4
  <2> QED
    BY <2>1, <2>2, <2>3, <2>5, <2>6
<1>15. pos2[l - 1] = pos[l] - d /\ PartOf(W2, pos[l] - d, Chosen(c.words, ids))
  <2>1. l \in 1 .. l /\ l - 1 \in 0 .. l - 1 /\ (l - 1) + 1 = l
    BY <1>1
  <2>2. pos2[l - 1] = pos[l] - d
    BY <1>11, <2>1
  <2>3. pos[l] \in Nat /\ d <= pos[l]
    BY <1>10, <2>1
  <2> QED
    BY <1>2, <1>3, <1>4, <1>7, <2>2, <2>3
<1>16. Placed(W2, pos2, b3, t, c, ids)
  BY <1>1, <1>2, <1>6, <1>11, <1>12, <1>13, <1>14, <1>15 DEF Placed
<1> QED
  BY <1>1, <1>15, <1>16 DEF l, EndsAt

\* What a good answer to the first packet adds to the buffer.
LEMMA BufferRead ==
  ASSUME NEW W \in Seq(Word), NEW pos, NEW b, NEW se \in Seq(Command), se # <<>>, NEW c,
         NEW ids, Placed(W, pos, b, se, c, ids), NEW p, p.data = Chosen(se[1].words, ids)
  PROVE  LET b2 == b \o Payload(se[1], p)
         IN b2 \in Seq(Word) /\ Len(b2) = pos[1] /\ PartOf(W, 0, b2) /\ pos[1] \in Nat
<1> DEFINE V == Chosen(se[1].words, ids)
           b2 == b \o V
<1>1. 1 \in 1 .. Len(se) /\ se[1].words \in Seq(Word) /\ se[1] \in Command
  <2>1. Len(se) \in Nat \ {0}
    BY EmptySeq
  <2> QED
    BY <2>1, CommandWords
<1>2. V \in Seq(Word) /\ Len(V) = se[1].rc /\ se[1].rc \in Nat
  <2>1. V \in Seq(Word)
    BY <1>1, ChosenWithin DEF Within
  <2>2. Len(V) = se[1].rc
    BY <1>1 DEF Placed, Counted
  <2>3. Len(V) \in Nat
    BY <2>1, LenProperties
  <2> QED
    BY <2>1, <2>2, <2>3
<1>3. Payload(se[1], p) = V
  <2> DEFINE P == Payload(se[1], p)
  <2>1. P = [k \in 1 .. se[1].rc |-> V[k]]
    BY <1>2 DEF Payload
  <2>2. V = [k \in 1 .. Len(V) |-> V[k]]
    BY <1>2, LenProperties
  <2> HIDE DEF V
  <2> QED
    BY <1>2, <2>1, <2>2
<1>4. /\ b \in Seq(Word) /\ pos[0] = Len(b) /\ PartOf(W, 0, b)
      /\ pos[1] = Len(b) + se[1].rc /\ PartOf(W, Len(b), V)
  <2>1. b \in Seq(Word) /\ pos[0] = Len(b) /\ PartOf(W, 0, b)
    BY DEF Placed
  <2>2. pos[1] = pos[1 - 1] + se[1].rc /\ PartOf(W, pos[1 - 1], V)
    BY <1>1 DEF Placed
  <2> QED
    BY <2>1, <2>2
<1> HIDE DEF V
<1>5. /\ b2 \in Seq(Word) /\ Len(b2) = Len(b) + Len(V) /\ Len(b) \in Nat /\ Len(V) \in Nat
      /\ \A i \in 1 .. Len(b) : b2[i] = b[i]
      /\ \A i \in 1 .. Len(V) : b2[Len(b) + i] = V[i]
  BY <1>2, <1>4, ConcatParts
<1> HIDE DEF b2
<1>6. PartOf(W, 0, b2)
  <2>1. 0 + Len(b2) <= Len(W)
    BY <1>4, <1>5 DEF PartOf
  <2>2. ASSUME NEW k \in 1 .. Len(b2) PROVE b2[k] = W[0 + k]
    <3>1. CASE k \in 1 .. Len(b)
      BY <1>4, <1>5, <3>1 DEF PartOf
    <3>2. CASE k - Len(b) \in 1 .. Len(V)
      <4>1. Len(b) + (k - Len(b)) = k /\ 0 + k = k
        BY <1>5
      <4>2. b2[k] = V[k - Len(b)]
        BY <1>5, <3>2, <4>1
      <4>3. V[k - Len(b)] = W[k]
        BY <1>4, <3>2, <4>1 DEF PartOf
      <4> QED
        BY <4>1, <4>2, <4>3
    <3>3. k \in 1 .. Len(b) \/ k - Len(b) \in 1 .. Len(V)
      BY <1>5
    <3> QED
      BY <3>1, <3>2, <3>3
  <2> QED
    BY <2>1, <2>2 DEF PartOf
<1> QED
  BY <1>2, <1>3, <1>4, <1>5, <1>6 DEF b2
-----------------------------------------------------------------------------
(* The steps keep OwnInv.                                                  *)

\* What is packed belongs to a request that was issued.
LEMMA PackedOld ==
  ASSUME RequestInv, WireInv, OrderInv
  PROVE  /\ \A k \in 1 .. Len(crnt.words) : crnt.words[k][1] < next
         /\ \A j \in 1 .. Len(sent) : \A k \in 1 .. Len(sent[j].words) : sent[j].words[k][1] < next
<1>1. next \in Nat /\ (rest > 0 => cur \in Nat /\ cur < next)
  BY PacketAssumption DEF RequestInv, Ids
<1>2. ASSUME NEW w \in Word, Before(w, Frontier) PROVE w[1] < next
  <2>1. PICK i \in Ids, k \in 1 .. MaxWords : w = <<i, k>>
    BY DEF Word
  <2>2. i \in Nat /\ k \in Nat /\ w[1] = i /\ w[2] = k
    BY <2>1, PacketAssumption DEF Ids
  <2>3. CASE rest > 0
    <3>1. Frontier[1] = cur
      BY <2>3 DEF Frontier
    <3>2. i < cur \/ i = cur
      BY <1>2, <2>2, <3>1 DEF Before
    <3> QED
      BY <1>1, <2>2, <2>3, <3>2
  <2>4. CASE ~(rest > 0)
    <3>1. Frontier[1] = next /\ Frontier[2] = 0
      BY <2>4 DEF Frontier
    <3> QED
      BY <1>1, <1>2, <2>2, <3>1 DEF Before
  <2> QED
    BY <2>3, <2>4
<1>3. ASSUME NEW s \in Seq(Word), Below(s, Frontier), NEW k \in 1 .. Len(s) PROVE s[k][1] < next
  <2>1. s[k] \in Word /\ Before(s[k], Frontier)
    BY <1>3 DEF Below
  <2> QED
    BY <1>2, <2>1
<1>4. crnt.words \in Seq(Word) /\ Below(crnt.words, Frontier)
  BY DEF WireInv, Command, OrderInv, Ordered
<1>5. \A j \in 1 .. Len(sent) : sent[j].words \in Seq(Word) /\ Below(sent[j].words, Frontier)
  BY CommandWords DEF WireInv, OrderInv, Ordered
<1> QED
  BY <1>3, <1>4, <1>5

LEMMA PlacedGrows ==
  ASSUME NEW W \in Seq(Word), NEW pos, NEW b, NEW se \in Seq(Command), NEW c \in Command,
         NEW ids, Placed(W, pos, b, se, c, ids)
  PROVE  /\ \A i, j \in 0 .. Len(se) : i <= j => pos[i] <= pos[j]
         /\ \A j \in 0 .. Len(se) : pos[j] \in Nat
         /\ c.rc \in Nat /\ Len(se) \in Nat
<1>1. Len(se) \in Nat /\ c.rc \in Nat /\ \A j \in 1 .. Len(se) : se[j].rc \in Nat
  <2>1. \A d \in Command : d.rc \in Nat
    BY DEF Command
  <2> QED
    BY <2>1, CommandWords
<1>2. pos \in [0 .. Len(se) -> Nat] /\ \A j \in 1 .. Len(se) : pos[j] = pos[j - 1] + se[j].rc
  BY DEF Placed
<1>3. ASSUME NEW j \in 1 .. Len(se) PROVE pos[j - 1] <= pos[j]
  <2>1. j - 1 \in 0 .. Len(se) /\ j \in 0 .. Len(se)
    BY <1>1
  <2>2. pos[j - 1] \in Nat /\ pos[j] = pos[j - 1] + se[j].rc /\ se[j].rc \in Nat
    BY <1>1, <1>2, <2>1
  <2> QED
    BY <2>2
<1> QED
  BY <1>1, <1>2, <1>3, SumGrows

\* The words a read takes from the buffer are its own.
LEMMA TakenWords ==
  ASSUME NEW W, NEW ask, NEW tr \in Seq(Ids), NEW size \in [Ids -> Nat],
         Stream(W, ask, tr, size), NEW b \in Seq(Word), PartOf(W, 0, b),
         NEW j \in 1 .. Len(tr), NEW u, u = ask[j - 1], NEW v, v = ask[j], v <= Len(b),
         NEW id, id = tr[j]
  PROVE  Between(b, u, v) = WordsOf(id, size[id])
<1> DEFINE a == ask[j - 1]
           z == size[tr[j]]
<1>1. /\ a \in Nat /\ z \in Nat /\ ask[j] = a + z
      /\ \A k \in 1 .. z : W[a + k] = <<tr[j], k>>
  BY StreamGrows DEF Stream
<1>2. Len(b) \in Nat /\ \A k \in 1 .. Len(b) : b[k] = W[0 + k]
  BY DEF PartOf
<1> HIDE DEF a, z
<1>3. a + z <= Len(b)
  BY <1>1
<1>4. SubSeq(b, a + 1, a + z) = [k \in 1 .. z |-> b[a + k]]
  <2> DEFINE V == SubSeq(b, a + 1, a + z)
  <2>1. a + 1 \in Int /\ a + z \in Int
    BY <1>1
  <2>2. \A i \in a + 1 .. a + z : b[i] \in Word
    BY <1>1, <1>2, <1>3
  <2>3. /\ V \in Seq(Word)
        /\ Len(V) = IF a + 1 <= a + z THEN (a + z) - (a + 1) + 1 ELSE 0
        /\ \A i \in 1 .. (a + z) - (a + 1) + 1 : V[i] = b[(a + 1) + i - 1]
    <3> DEFINE m == a + 1
               n == a + z
    <3>1. m \in Int /\ n \in Int /\ \A i \in m .. n : b[i] \in Word
      BY <2>1, <2>2
    <3> HIDE DEF m, n
    <3>2. /\ SubSeq(b, m, n) \in Seq(Word)
          /\ Len(SubSeq(b, m, n)) = IF m <= n THEN n - m + 1 ELSE 0
          /\ \A i \in 1 .. n - m + 1 : SubSeq(b, m, n)[i] = b[m + i - 1]
      BY <3>1, SubSeqProperties
    <3> QED
      BY <3>2 DEF m, n
  <2> HIDE DEF V
  <2>4. Len(V) = z
    BY <1>1, <2>3
  <2>5. \A i \in 1 .. z : V[i] = b[a + i]
    <3> SUFFICES ASSUME NEW i \in 1 .. z PROVE V[i] = b[a + i]
      OBVIOUS
    <3>1. i \in 1 .. (a + z) - (a + 1) + 1 /\ (a + 1) + i - 1 = a + i
      BY <1>1
    <3> QED
      BY <2>3, <3>1
  <2>6. V = [i \in 1 .. Len(V) |-> V[i]]
    BY <2>3, LenProperties
  <2> QED
    BY <2>4, <2>5, <2>6 DEF V
<1>5. ASSUME NEW k \in 1 .. z PROVE b[a + k] = <<tr[j], k>>
  <2>1. a + k \in 1 .. Len(b) /\ 0 + (a + k) = a + k
    BY <1>1, <1>2, <1>3
  <2> QED
    BY <1>1, <1>2, <2>1
<1>6. [k \in 1 .. z |-> b[a + k]] = [k \in 1 .. z |-> <<tr[j], k>>]
  BY <1>5
<1> QED
  BY <1>1, <1>4, <1>6 DEF WordsOf, Between, a, z

LEMMA ShiftedSum ==
  ASSUME NEW p \in Nat, NEW r \in Nat, NEW u \in Nat, NEW w \in Nat, NEW d \in Nat, p + r + u = w
  PROVE  (p - d) + r + u = w - d
OBVIOUS

\* A good answer gives the reads it completes their own words.
LEMMA ReadServes ==
  ASSUME DueInv, RequestInv, WireInv, StreamInv, PairInv, DataInv, Read
  PROVE  StreamInv' /\ DataInv'
<1> DEFINE b == buf \o Payload(sent[1], out[1])
           n == Len(transfers)
           L == Len(sent)
<1>1. /\ sent # <<>> /\ out # <<>> /\ pc # "skip"
      /\ Decoded(Head(sent), Head(out)) = "ok"
      /\ Attach(buf \o Payload(Head(sent), Head(out)))
      /\ sent' = Tail(sent)
      /\ UNCHANGED <<reqOf, sizeOf, next, crnt, rest, cur>>
  BY DEF Read, Reading, control
<1>2. Head(sent) = sent[1] /\ Head(out) = out[1] /\ 1 \in 1 .. Len(out) /\ L \in Nat /\ L >= 1
  <2>1. sent \in Seq(Command) /\ out \in Seq(Response)
    BY DEF WireInv
  <2> QED
    BY <1>1, <2>1, EmptySeq
<1>3. out[1].data = Chosen(sent[1].words, Reads)
  <2>1. out[1].ok
    BY <1>1, <1>2 DEF Decoded
  <2>2. skip = 0
    BY <1>1 DEF DueInv
  <2> QED
    BY <1>2, <2>1, <2>2 DEF PairInv
<1>4. PICK W, ask, pos : /\ Stream(W, ask, transfers, sizeOf)
                         /\ Placed(W, pos, buf, sent, crnt, Reads)
                         /\ pos[L] + crnt.rc + Unpacked = Len(W)
  BY DEF StreamInv
<1>5. /\ transfers \in Seq(Ids) /\ sizeOf \in [Ids -> Nat] /\ W \in Seq(Word) /\ Len(W) \in Nat
      /\ sent \in Seq(Command) /\ crnt \in Command /\ n \in Nat /\ Unpacked \in Nat
  <2>1. transfers \in Seq(Ids) /\ sent \in Seq(Command) /\ crnt \in Command
    BY DEF StreamInv, WireInv
  <2>2. sizeOf \in [Ids -> Nat] /\ Unpacked \in Nat
    BY PacketAssumption DEF RequestInv, Unpacked
  <2>3. W \in Seq(Word)
    BY <1>4 DEF Stream
  <2> QED
    BY <2>1, <2>2, <2>3
<1>6. b \in Seq(Word) /\ Len(b) = pos[1] /\ PartOf(W, 0, b) /\ pos[1] \in Nat
  <2>1. Placed(W, pos, buf, sent, crnt, Reads) /\ sent # <<>>
    BY <1>1, <1>4
  <2>2. W \in Seq(Word) /\ sent \in Seq(Command)
    BY <1>5
  <2>3. \A p : p.data = Chosen(sent[1].words, Reads) =>
          LET b2 == buf \o Payload(sent[1], p)
          IN b2 \in Seq(Word) /\ Len(b2) = pos[1] /\ PartOf(W, 0, b2) /\ pos[1] \in Nat
    BY <2>1, <2>2, BufferRead
  <2> QED
    BY <1>3, <2>3
<1>7. \E m : Served(m, ask, buf \o Payload(Head(sent), Head(out)), transfers, transfers', buf',
                    status, status', data, data')
  <2>1. Stream(W, ask, transfers, sizeOf) /\ transfers \in Seq(Ids) /\ sizeOf \in [Ids -> Nat]
    BY <1>4, <1>5
  <2>2. buf \o Payload(Head(sent), Head(out)) \in Seq(Word)
    BY <1>2, <1>6
  <2>3. Attach(buf \o Payload(Head(sent), Head(out)))
    BY <1>1
  <2> HIDE DEF n, L, b
  <2> QED
    BY <2>1, <2>2, <2>3, AttachDoes
<1>8. PICK m \in 0 .. n :
        /\ ask[m] <= Len(b)
        /\ transfers' = Between(transfers, m, n)
        /\ buf' = Between(b, ask[m], Len(b))
        /\ \A id \in Ids :
             \/ status'[id] = status[id] /\ data'[id] = data[id]
             \/ \E j \in 1 .. m :
                  transfers[j] = id /\ data'[id] = Between(b, ask[j - 1], ask[j])
  <2>1. \E m : Served(m, ask, b, transfers, transfers', buf', status, status', data, data')
    BY <1>2, <1>7
  <2> HIDE DEF b
  <2> QED
    BY <2>1 DEF Served
<1> HIDE DEF b
<1> DEFINE d == ask[m]
<1>9. PICK V : V = Between(W, d, Len(W))
  OBVIOUS
<1>10. /\ d \in 0 .. Len(W) /\ V \in Seq(Word) /\ Len(V) = Len(W) - d
       /\ \E ask2 : Stream(V, ask2, transfers', sizeOf')
  <2>1. /\ d \in 0 .. Len(W)
        /\ \E ask2 : Stream(SubSeq(W, d + 1, Len(W)), ask2, SubSeq(transfers, m + 1, n), sizeOf)
    BY <1>4, <1>5, StreamDrop
  <2>2. transfers' = SubSeq(transfers, m + 1, n) /\ V = SubSeq(W, d + 1, Len(W))
    BY <1>8, <1>9 DEF Between
  <2>3. \E ask2 : Stream(V, ask2, transfers', sizeOf')
    BY <1>1, <2>1, <2>2
  <2>4. V \in Seq(Word) /\ Len(V) = Len(W) - d
    <3> HIDE DEF d
    <3> QED
      BY <1>5, <2>1, <2>2, DropFirst
  <2> QED
    BY <2>1, <2>3, <2>4
<1>11. d \in 0 .. Len(b) /\ d <= Len(W) /\ d \in Nat
  BY <1>5, <1>6, <1>8, <1>10
<1>12. PICK pos2 : /\ Placed(V, pos2, buf', sent', crnt, Reads)
                   /\ EndsAt(pos2, sent', pos[L] - d)
  <2>1. /\ Placed(W, pos, buf, sent, crnt, Reads) /\ W \in Seq(Word) /\ crnt \in Command
        /\ sent # <<>> /\ sent \in Seq(Command) /\ sent' = Tail(sent)
    BY <1>1, <1>4, <1>5
  <2>2. /\ b \in Seq(Word) /\ Len(b) = pos[1] /\ PartOf(W, 0, b)
        /\ buf' = Between(b, d, Len(b))
    BY <1>6, <1>8
  <2>3. d \in 0 .. Len(b) /\ d <= Len(W) /\ V = Between(W, d, Len(W))
    BY <1>9, <1>11
  <2>4. PICK e : e = pos[L] - d
    OBVIOUS
  <2> HIDE DEF d
  <2>5. \E pos2 : Placed(V, pos2, buf', sent', crnt, Reads) /\ EndsAt(pos2, sent', e)
    <3>1. PICK t, b3 : t = sent' /\ b3 = buf'
      OBVIOUS
    <3>2. t = Tail(sent) /\ b3 = Between(b, d, Len(b))
      BY <2>1, <2>2, <3>1
    <3>3. \E pos2 : Placed(V, pos2, b3, t, crnt, Reads) /\ EndsAt(pos2, t, e)
      <4>1. e = pos[Len(sent)] - d
        BY <2>4
      <4> QED
        BY ONLY <2>1, <2>2, <2>3, <3>2, <4>1, PlacedRead, ZenonT(60)
    <3> QED
      BY <3>1, <3>3
  <2> QED
    BY <2>4, <2>5
<1>13. Reads' = Reads /\ Unpacked' = Unpacked
  BY <1>1 DEF Reads, Unpacked
<1>14. Placed(V, pos2, buf', sent', crnt', Reads')
  BY <1>1, <1>12, <1>13
<1>15. /\ \A i, j \in 0 .. L : i <= j => pos[i] <= pos[j]
       /\ \A j \in 0 .. L : pos[j] \in Nat
       /\ crnt.rc \in Nat
  BY <1>4, <1>5, PlacedGrows
<1>16. pos[1] <= pos[L] /\ pos[L] \in Nat
  <2>1. 1 \in 0 .. L /\ L \in 0 .. L
    BY <1>2
  <2> QED
    BY <1>2, <1>15, <2>1
<1>17. pos2[Len(sent')] + crnt'.rc + Unpacked' = Len(V)
  <2>1. /\ pos[L] \in Nat /\ crnt.rc \in Nat /\ Unpacked \in Nat /\ d \in Nat /\ Len(W) \in Nat
        /\ pos[L] + crnt.rc + Unpacked = Len(W)
    BY <1>4, <1>5, <1>11, <1>15, <1>16
  <2>2. (pos[L] - d) + crnt.rc + Unpacked = Len(W) - d
    BY <2>1, ShiftedSum
  <2> QED
    BY <1>1, <1>10, <1>12, <1>13, <2>2 DEF EndsAt
<1>18. /\ transfers' \in Seq(Ids) /\ Len(transfers') = n - m
       /\ \A k \in 1 .. n - m : transfers'[k] = transfers[m + k]
  BY <1>5, <1>8, DropFirst DEF Between
<1>19. \A j \in 1 .. n : transfers[j] < next
  BY DEF StreamInv
<1>20. \A j \in 1 .. Len(transfers') : transfers'[j] < next'
  <2> SUFFICES ASSUME NEW j \in 1 .. n - m PROVE transfers'[j] < next'
    BY <1>18
  <2>1. m + j \in 1 .. n
    BY <1>5
  <2> QED
    BY <1>1, <1>18, <1>19, <2>1
<1>21. ASSUME Unpacked' > 0
       PROVE  transfers' # <<>> /\ transfers'[Len(transfers')] = cur'
  <2>1. Unpacked > 0 /\ transfers[n] = cur
    BY <1>13, <1>21 DEF StreamInv
  <2>2. m # n
    <3>1. ask[n] = Len(W)
      BY <1>4 DEF Stream
    <3>2. pos[L] + crnt.rc + Unpacked > pos[1]
      <4> HIDE DEF L
      <4> QED
        BY <1>5, <1>6, <1>15, <1>16, <2>1
    <3> QED
      BY <1>4, <1>5, <1>6, <1>8, <3>1, <3>2
  <2>3. n - m \in 1 .. n - m /\ m + (n - m) = n
    BY <1>5, <2>2
  <2>4. transfers'[n - m] = transfers[n]
    BY <1>18, <2>3
  <2>5. Len(transfers') # 0
    BY <1>18, <2>3
  <2> QED
    BY <1>1, <1>18, <2>1, <2>4, <2>5, EmptySeq
<1>22. StreamInv'
  BY <1>10, <1>14, <1>17, <1>18, <1>20, <1>21 DEF StreamInv
<1>23. DataInv'
  <2> SUFFICES ASSUME NEW id \in Ids, status'[id] = "done"
               PROVE  id < next /\ data'[id] = WordsOf(id, sizeOf[id])
    BY <1>1 DEF DataInv
  <2>1. CASE status'[id] = status[id] /\ data'[id] = data[id]
    BY <2>1 DEF DataInv
  <2>2. CASE \E j \in 1 .. m :
               transfers[j] = id /\ data'[id] = Between(b, ask[j - 1], ask[j])
    <3>1. PICK j \in 1 .. m :
            transfers[j] = id /\ data'[id] = Between(b, ask[j - 1], ask[j])
      BY <2>2
    <3>2. j \in 1 .. n /\ j \in 0 .. n /\ m \in 0 .. n /\ j <= m
      BY <1>5
    <3>3. ask[j] <= Len(b)
      <4>1. ask[j] <= ask[m] /\ ask[j] \in Nat /\ ask[m] \in Nat
        <5>1. ask[j] <= ask[m] /\ ask[j] \in Nat
          BY <1>4, <1>5, <3>2, StreamGrows
        <5> QED
          BY <1>11, <5>1
      <4> QED
        BY <1>6, <1>8, <4>1
    <3>4. Between(b, ask[j - 1], ask[j]) = WordsOf(transfers[j], sizeOf[transfers[j]])
      <4>1. PICK u, v, i : u = ask[j - 1] /\ v = ask[j] /\ i = transfers[j]
        OBVIOUS
      <4>2. /\ Stream(W, ask, transfers, sizeOf) /\ transfers \in Seq(Ids)
            /\ sizeOf \in [Ids -> Nat] /\ b \in Seq(Word) /\ PartOf(W, 0, b)
        BY <1>4, <1>5, <1>6
      <4>3. v <= Len(b) /\ j \in 1 .. Len(transfers)
        BY <3>2, <3>3, <4>1
      <4>4. Between(b, u, v) = WordsOf(i, sizeOf[i])
        BY <4>1, <4>2, <4>3, TakenWords
      <4> QED
        BY <4>1, <4>4
    <3> QED
      BY <1>19, <3>1, <3>2, <3>4
  <2> QED
    BY <1>8, <2>1, <2>2
<1> QED
  BY <1>22, <1>23

\* nw are the next words of the read id, of which the last r are not packed and
\* begin behind the first e words of W.
Upcoming(W, size, id, r, nw, e) ==
  /\ r \in Nat /\ r <= size[id] /\ nw \in Seq(Word) /\ Len(nw) <= r /\ e = Len(W) - r
  /\ \A k \in 1 .. Len(nw) : nw[k] = <<id, size[id] - r + k>>

\* What the read under way packs is where its words are in the stream.
LEMMA PackedPlace ==
  ASSUME NEW W, NEW ask, NEW tr \in Seq(Ids), NEW size \in [Ids -> Nat],
         Stream(W, ask, tr, size), tr # <<>>, NEW id, id = tr[Len(tr)],
         NEW r, NEW nw, NEW e, Upcoming(W, size, id, r, nw, e)
  PROVE  PartOf(W, e, nw)
<1> DEFINE l == Len(tr)
           a == ask[l - 1]
           z == size[id]
<1>0. /\ r \in Nat /\ r <= size[id] /\ nw \in Seq(Word) /\ Len(nw) <= r /\ e = Len(W) - r
      /\ \A k \in 1 .. Len(nw) : nw[k] = <<id, size[id] - r + k>>
  BY DEF Upcoming
<1>1. l \in 1 .. l /\ Len(W) \in Nat /\ Len(nw) \in Nat
  <2>1. l \in Nat /\ l # 0
    BY EmptySeq
  <2>2. W \in Seq(Word)
    BY DEF Stream
  <2> QED
    BY <1>0, <2>1, <2>2
<1>2. /\ a \in Nat /\ z \in Nat /\ Len(W) = a + z
      /\ \A k \in 1 .. z : W[a + k] = <<id, k>>
  <2>1. size[tr[l]] \in Nat /\ ask[l - 1] \in Nat
    BY <1>1, StreamGrows
  <2>2. /\ ask[l] = Len(W) /\ ask[l] = ask[l - 1] + size[tr[l]]
        /\ \A k \in 1 .. size[tr[l]] : W[ask[l - 1] + k] = <<tr[l], k>>
    BY <1>1 DEF Stream
  <2> QED
    BY <2>1, <2>2
<1> HIDE DEF l, a, z
<1>3. r <= z
  BY <1>0 DEF z
<1>4. e + Len(nw) <= Len(W)
  BY <1>0, <1>1
<1>5. ASSUME NEW k \in 1 .. Len(nw) PROVE nw[k] = W[e + k]
  <2>1. z - r + k \in 1 .. z /\ a + (z - r + k) = e + k
    BY <1>0, <1>1, <1>2, <1>3
  <2>2. nw[k] = <<id, z - r + k>>
    BY <1>0 DEF z
  <2>3. W[a + (z - r + k)] = <<id, z - r + k>>
    BY <1>2, <2>1
  <2> QED
    BY <2>1, <2>2, <2>3
<1> QED
  BY <1>4, <1>5 DEF PartOf

LEMMA AbortStream == ASSUME NEW n, Abort(n) PROVE StreamInv'
<1>1. /\ transfers' = <<>> /\ buf' = <<>> /\ sent' = <<>> /\ crnt' = Empty /\ rest' = 0
  BY DEF Abort, AbortedBuf
<1>2. PICK R, S, U : R = Reads' /\ S = sizeOf' /\ U = Unpacked'
  OBVIOUS
<1>3. U = 0
  BY <1>1, <1>2 DEF Unpacked
<1>4. PICK none : /\ Stream(<<>>, none, <<>>, S) /\ Placed(<<>>, none, <<>>, <<>>, Empty, R)
                  /\ none[Len(<<>>)] + Empty.rc + 0 = Len(<<>>)
  BY EmptyStream
<1>5. <<>> \in Seq(Ids) /\ Len(<<>>) = 0
  BY EmptySeq
<1>6. \A j \in 1 .. Len(transfers') : transfers'[j] < next'
  BY <1>1, <1>5
<1>7. none[Len(sent')] + crnt'.rc + Unpacked' = Len(<<>>)
  BY <1>1, <1>2, <1>3, <1>4
<1> QED
  BY <1>1, <1>2, <1>3, <1>4, <1>5, <1>6, <1>7 DEF StreamInv

LEMMA StreamTypes ==
  ASSUME RequestInv, WireInv, StreamInv
  PROVE  /\ transfers \in Seq(Ids) /\ sizeOf \in [Ids -> Nat]
         /\ sent \in Seq(Command) /\ crnt \in Command /\ Unpacked \in Nat /\ rest \in Nat
         /\ \A W, ask, pos : Stream(W, ask, transfers, sizeOf)
                             /\ Placed(W, pos, buf, sent, crnt, Reads)
              => /\ W \in Seq(Word) /\ Len(W) \in Nat /\ pos[Len(sent)] \in Nat /\ crnt.rc \in Nat
<1>1. transfers \in Seq(Ids) /\ sent \in Seq(Command) /\ crnt \in Command
  BY DEF StreamInv, WireInv
<1>2. sizeOf \in [Ids -> Nat] /\ Unpacked \in Nat /\ rest \in Nat
  BY PacketAssumption DEF RequestInv, Unpacked
<1>3. ASSUME NEW W, NEW ask, NEW pos, Stream(W, ask, transfers, sizeOf),
             Placed(W, pos, buf, sent, crnt, Reads)
      PROVE  /\ W \in Seq(Word) /\ Len(W) \in Nat /\ pos[Len(sent)] \in Nat /\ crnt.rc \in Nat
  <2>1. W \in Seq(Word)
    BY <1>3 DEF Stream
  <2>2. Len(W) \in Nat
    BY <2>1
  <2>3. Len(sent) \in 0 .. Len(sent)
    BY <1>1, CommandWords
  <2>4. \A j \in 0 .. Len(sent) : pos[j] \in Nat
    BY <1>1, <1>3, <2>1, PlacedGrows
  <2> QED
    BY <1>1, <2>1, <2>2, <2>3, <2>4 DEF Command
<1> QED
  BY <1>1, <1>2, <1>3

LEMMA PackStream ==
  ASSUME PackInv, RequestInv, WireInv, StreamInv, Pack
  PROVE  StreamInv'
<1> DEFINE size == Space(crnt, reqOf[cur], rest)
           nw == NextWords(size)
<1>1. /\ UNCHANGED <<reqOf, sizeOf, next, sent, transfers, buf, cur>> /\ rest > 0
      /\ Reads' = Reads
  BY DEF Pack, Reads
<1>2. CASE size <= 0
  <2>1. crnt' = crnt /\ rest' = rest
    BY <1>2 DEF Pack
  <2> QED
    BY <1>1, <2>1 DEF StreamInv, Unpacked
<1>3. CASE ~(size <= 0)
  <2>1. crnt' = Added(crnt, reqOf[cur], nw) /\ rest' = rest - size
    BY <1>3 DEF Pack
  <2>2. size \in Nat /\ size <= rest
    BY <1>3, SpaceBounds DEF PackInv, RequestInv
  <2>3. /\ nw \in Seq(Word) /\ Len(nw) = size
        /\ \A k \in 1 .. size : nw[k] = <<cur, sizeOf[cur] - rest + k>>
    BY <1>1, <2>2, PackedWords
  <2>4. /\ crnt'.words = crnt.words \o nw
        /\ IsRead(reqOf[cur]) => crnt'.rc = crnt.rc + Len(nw)
        /\ ~IsRead(reqOf[cur]) => crnt'.rc = crnt.rc + 0
    BY <2>1 DEF Added
  <2> HIDE DEF size, nw
  <2>5. cur \in Ids /\ rest <= sizeOf[cur] /\ rest \in Nat
    BY <1>1 DEF RequestInv
  <2>6. PICK W, ask, pos : /\ Stream(W, ask, transfers, sizeOf)
                           /\ Placed(W, pos, buf, sent, crnt, Reads)
                           /\ pos[Len(sent)] + crnt.rc + Unpacked = Len(W)
    BY DEF StreamInv
  <2>7. /\ transfers \in Seq(Ids) /\ sizeOf \in [Ids -> Nat]
        /\ sent \in Seq(Command) /\ crnt \in Command
        /\ W \in Seq(Word) /\ Len(W) \in Nat /\ pos[Len(sent)] \in Nat /\ crnt.rc \in Nat
    BY <2>6, StreamTypes
  <2>8. PICK e : e = pos[Len(sent)] + crnt.rc
    OBVIOUS
  <2>9. CASE cur \in Reads
    <3>1. IsRead(reqOf[cur]) /\ Unpacked = rest
      BY <1>1, <2>9 DEF Reads, Unpacked
    <3>2. transfers # <<>> /\ transfers[Len(transfers)] = cur
      BY <1>1, <3>1 DEF StreamInv
    <3>3. e = Len(W) - rest
      BY <2>5, <2>6, <2>7, <2>8, <3>1
    <3>4. PartOf(W, e, nw)
      <4>1. Len(nw) <= rest /\ \A k \in 1 .. Len(nw) : nw[k] = <<cur, sizeOf[cur] - rest + k>>
        BY <2>2, <2>3
      <4>2. /\ Stream(W, ask, transfers, sizeOf) /\ transfers \in Seq(Ids)
            /\ sizeOf \in [Ids -> Nat] /\ cur = transfers[Len(transfers)] /\ nw \in Seq(Word)
        BY <2>3, <2>6, <2>7, <3>2
      <4> QED
        <5>1. Upcoming(W, sizeOf, cur, rest, nw, e)
          BY <2>3, <2>5, <3>3, <4>1 DEF Upcoming
        <5> QED
          BY <3>2, <4>2, <5>1, PackedPlace
    <3>5. crnt'.rc = crnt.rc + Len(nw) /\ \A k \in 1 .. Len(nw) : nw[k][1] \in Reads
      BY <2>3, <2>4, <2>9, <3>1
    <3>6. Placed(W, pos, buf, sent, crnt', Reads)
      BY <2>3, <2>4, <2>6, <2>7, <2>8, <3>4, <3>5, PlacedAdd
    <3>7. Unpacked' = rest - size
      BY <1>1, <2>1, <2>2, <2>5, <2>9 DEF Unpacked
    <3>8. pos[Len(sent)] + crnt'.rc + Unpacked' = Len(W)
      BY <2>2, <2>3, <2>5, <2>6, <2>7, <3>1, <3>5, <3>7
    <3> QED
      BY <1>1, <2>6, <2>7, <3>2, <3>6, <3>8 DEF StreamInv
  <2>10. CASE cur \notin Reads
    <3>1. ~IsRead(reqOf[cur]) /\ Unpacked = 0 /\ Unpacked' = 0
      BY <1>1, <2>5, <2>10 DEF Reads, Unpacked
    <3>2. crnt'.rc = crnt.rc /\ \A k \in 1 .. Len(nw) : nw[k][1] \notin Reads
      BY <2>3, <2>4, <2>7, <2>10, <3>1
    <3>3. Placed(W, pos, buf, sent, crnt', Reads)
      BY <2>3, <2>4, <2>6, <2>7, <2>8, <3>2, PlacedAdd
    <3>4. pos[Len(sent)] + crnt'.rc + Unpacked' = Len(W)
      BY <2>6, <3>1, <3>2
    <3> QED
      BY <1>1, <2>6, <2>7, <3>1, <3>3, <3>4 DEF StreamInv
  <2> QED
    BY <2>9, <2>10
<1> QED
  BY <1>2, <1>3

LEMMA SendStream ==
  ASSUME RequestInv, WireInv, StreamInv, Send
  PROVE  StreamInv'
<1>1. /\ UNCHANGED <<reqOf, sizeOf, next, transfers, buf, cur, rest>>
      /\ sent' = Append(sent, crnt) /\ crnt' = Empty
      /\ Reads' = Reads /\ Unpacked' = Unpacked
  BY DEF Send, Reads, Unpacked, NewCommand
<1>2. PICK W, ask, pos : /\ Stream(W, ask, transfers, sizeOf)
                         /\ Placed(W, pos, buf, sent, crnt, Reads)
                         /\ pos[Len(sent)] + crnt.rc + Unpacked = Len(W)
  BY DEF StreamInv
<1>3. /\ sent \in Seq(Command) /\ crnt \in Command
      /\ W \in Seq(Word) /\ pos[Len(sent)] \in Nat /\ crnt.rc \in Nat /\ Unpacked \in Nat
  BY <1>2, StreamTypes
<1>4. PICK e : e = pos[Len(sent)] + crnt.rc
  OBVIOUS
<1>5. PICK pos2 : Placed(W, pos2, buf, sent', Empty, Reads) /\ EndsAt(pos2, sent', e)
  BY <1>1, <1>2, <1>3, <1>4, PlacedSend
<1>6. pos2[Len(sent')] + Empty.rc + Unpacked' = Len(W)
  <2>1. Empty.rc = 0 /\ pos2[Len(sent')] = e
    BY <1>5 DEF Empty, EndsAt
  <2> QED
    BY <1>1, <1>2, <1>3, <1>4, <2>1
<1> QED
  BY <1>1, <1>2, <1>5, <1>6 DEF StreamInv

LEMMA IssueStream ==
  ASSUME RequestInv, WireInv, OrderInv, StreamInv, NEW r \in Requests, NEW n \in 1 .. MaxWords,
         Issue(r, n)
  PROVE  StreamInv'
<1>1. /\ pc = "idle" /\ next <= MaxId /\ reqOf' = [reqOf EXCEPT ![next] = r]
      /\ sizeOf' = [sizeOf EXCEPT ![next] = n] /\ next' = next + 1
      /\ cur' = next /\ rest' = n
      /\ UNCHANGED <<crnt, sent, buf>>
      /\ IsRead(r) => transfers' = Append(transfers, next)
      /\ ~IsRead(r) => transfers' = transfers
  BY DEF Issue
<1>2. /\ next \in Ids /\ next \in Nat /\ n \in Nat /\ n > 0 /\ rest = 0 /\ Unpacked = 0
  BY <1>1, PacketAssumption DEF RequestInv, Ids, Unpacked
<1>3. PICK W, ask, pos : /\ Stream(W, ask, transfers, sizeOf)
                         /\ Placed(W, pos, buf, sent, crnt, Reads)
                         /\ pos[Len(sent)] + crnt.rc + Unpacked = Len(W)
  BY DEF StreamInv
<1>4. /\ transfers \in Seq(Ids) /\ sizeOf \in [Ids -> Nat]
      /\ sent \in Seq(Command) /\ crnt \in Command
      /\ W \in Seq(Word) /\ Len(W) \in Nat /\ pos[Len(sent)] \in Nat /\ crnt.rc \in Nat
  BY <1>3, StreamTypes
<1>5. \A j \in 1 .. Len(transfers) : transfers[j] \in Ids /\ transfers[j] < next
  BY <1>4 DEF StreamInv
<1>6. /\ sizeOf'[next] = n
      /\ \A j \in 1 .. Len(transfers) : sizeOf'[transfers[j]] = sizeOf[transfers[j]]
  BY <1>1, <1>2, <1>4, <1>5
<1>7. \A id \in Ids : id # next => (id \in Reads <=> id \in Reads')
  BY <1>1 DEF RequestInv, Reads
<1>8. next \in Reads' <=> IsRead(r)
  BY <1>1, <1>2 DEF RequestInv, Reads
<1>9. /\ \A k \in 1 .. Len(crnt.words) :
           crnt.words[k][1] \in Reads <=> crnt.words[k][1] \in Reads'
      /\ \A j \in 1 .. Len(sent) : \A k \in 1 .. Len(sent[j].words) :
           sent[j].words[k][1] \in Reads <=> sent[j].words[k][1] \in Reads'
  <2>1. \A w \in Word : w[1] < next => (w[1] \in Reads <=> w[1] \in Reads')
    BY <1>2, <1>7 DEF Word, Ids
  <2>2. /\ \A k \in 1 .. Len(crnt.words) : crnt.words[k] \in Word
        /\ \A j \in 1 .. Len(sent) : \A k \in 1 .. Len(sent[j].words) : sent[j].words[k] \in Word
    <3>1. ASSUME NEW s \in Seq(Word), NEW k \in 1 .. Len(s) PROVE s[k] \in Word
      OBVIOUS
    <3> QED
      BY <1>4, <3>1, CommandWords DEF Command
  <2> QED
    BY <2>1, <2>2, PackedOld
<1>10. CASE IsRead(r)
  <2>1. transfers' = Append(transfers, next) /\ Unpacked' = n
    BY <1>1, <1>2, <1>8, <1>10 DEF Unpacked
  <2>2. PICK W2, ask2 : Stream(W2, ask2, transfers', sizeOf') /\ Longer(W2, W, n)
    <3>1. PICK tr2, size2 : tr2 = transfers' /\ size2 = sizeOf'
      OBVIOUS
    <3>2. \E W2, ask2 : Stream(W2, ask2, tr2, size2) /\ Longer(W2, W, n)
      <4>1. tr2 = Append(transfers, next)
        BY <2>1, <3>1
      <4>2. size2[next] = n /\ \A j \in 1 .. Len(transfers) : size2[transfers[j]] = sizeOf[transfers[j]]
        BY <1>6, <3>1
      <4>3. /\ transfers \in Seq(Ids) /\ sizeOf \in [Ids -> Nat] /\ next \in Ids
            /\ Stream(W, ask, transfers, sizeOf)
        BY <1>2, <1>3, <1>4
      <4> QED
        BY <4>1, <4>2, <4>3, StreamIssue, ZenonT(60)
    <3> QED
      BY <3>1, <3>2
  <2>3. /\ W2 \in Seq(Word) /\ Len(W2) = Len(W) + n /\ Len(W) <= Len(W2)
        /\ \A k \in 1 .. Len(W) : W2[k] = W[k]
    <3>1. W2 \in Seq(Word)
      BY <2>2 DEF Stream
    <3>2. Len(W2) = Len(W) + n /\ \A k \in 1 .. Len(W) : W2[k] = W[k]
      BY <2>2 DEF Longer
    <3> QED
      BY <1>2, <1>4, <3>1, <3>2
  <2>4. Placed(W2, pos, buf, sent, crnt, Reads')
    BY <1>3, <1>4, <1>9, <2>3, PlacedSame
  <2>5. pos[Len(sent)] + crnt.rc + Unpacked' = Len(W2)
    BY <1>2, <1>3, <1>4, <2>1, <2>3
  <2>6. /\ transfers' \in Seq(Ids) /\ Len(transfers') = Len(transfers) + 1
        /\ \A j \in 1 .. Len(transfers) : transfers'[j] = transfers[j]
        /\ transfers'[Len(transfers) + 1] = next /\ Len(transfers) \in Nat
    BY <1>2, <1>4, <2>1
  <2>7. \A j \in 1 .. Len(transfers') : transfers'[j] < next'
    <3> SUFFICES ASSUME NEW j \in 1 .. Len(transfers) + 1 PROVE transfers'[j] < next'
      BY <2>6
    <3>1. CASE j = Len(transfers) + 1
      BY <1>1, <1>2, <2>6, <3>1
    <3>2. CASE j \in 1 .. Len(transfers)
      <4>1. transfers'[j] = transfers[j] /\ transfers[j] < next /\ transfers[j] \in Nat
        BY <1>5, <2>6, <3>2 DEF Ids
      <4> QED
        BY <1>1, <1>2, <4>1
    <3> QED
      BY <2>6, <3>1, <3>2
  <2>8. transfers' # <<>> /\ transfers'[Len(transfers')] = cur'
    BY <1>1, <2>6, EmptySeq
  <2> QED
    BY <1>1, <2>2, <2>4, <2>5, <2>6, <2>7, <2>8 DEF StreamInv
<1>11. CASE ~IsRead(r)
  <2>1. transfers' = transfers /\ Unpacked' = 0
    BY <1>1, <1>8, <1>11 DEF Unpacked
  <2>2. Stream(W, ask, transfers, sizeOf')
    BY <1>3, <1>6, StreamSame
  <2>3. Placed(W, pos, buf, sent, crnt, Reads')
    <3>1. Len(W) <= Len(W) /\ \A k \in 1 .. Len(W) : W[k] = W[k]
      BY <1>4
    <3> QED
      BY <1>3, <1>4, <1>9, <3>1, PlacedSame
  <2>4. pos[Len(sent)] + crnt.rc + Unpacked' = Len(W)
    BY <1>2, <1>3, <2>1
  <2>5. \A j \in 1 .. Len(transfers) : transfers[j] < next'
    BY <1>1, <1>2, <1>5 DEF Ids
  <2>6. ~(Unpacked' > 0)
    BY <2>1
  <2>7. Stream(W, ask, transfers', sizeOf') /\ Placed(W, pos, buf', sent', crnt', Reads')
    BY <1>1, <2>1, <2>2, <2>3
  <2>8. pos[Len(sent')] + crnt'.rc + Unpacked' = Len(W)
    BY <1>1, <2>4
  <2>9. transfers' \in Seq(Ids) /\ \A j \in 1 .. Len(transfers') : transfers'[j] < next'
    BY <1>4, <2>1, <2>5
  <2> QED
    BY <2>6, <2>7, <2>8, <2>9 DEF StreamInv
<1> QED
  BY <1>10, <1>11

LEMMA StepStream ==
  ASSUME PackInv, DueInv, RequestInv, WireInv, OrderInv, StreamInv, PairInv, DataInv, [Next]_vars
  PROVE  StreamInv'
<1>1. CASE UNCHANGED <<reqOf, sizeOf, next, transfers, buf, sent, crnt, rest, cur>>
  <2>1. Reads' = Reads /\ Unpacked' = Unpacked
    BY <1>1 DEF Reads, Unpacked
  <2> QED
    BY <1>1, <2>1 DEF StreamInv
<1>2. CASE PackDone \/ GetResult \/ GetAsserts \/ GetFlushes \/ Drained \/ SendNothing
  BY <1>1, <1>2 DEF PackDone, GetResult, GetAsserts, GetFlushes, Drained, SendNothing, queue
<1>3. CASE Skip \/ SkipRaises \/ Flush \/ Execute \/ (\E id \in Ids : Get(id)) \/ UNCHANGED vars
  BY <1>1, <1>3 DEF Skip, SkipRaises, Flush, Execute, Get, vars, queue, control
<1>4. CASE SendRaises
  BY <1>4, AbortStream DEF SendRaises
<1>5. CASE ReadFails
  BY <1>5, AbortStream DEF ReadFails
<1>6. CASE ReadRaises
  BY <1>6, AbortStream DEF ReadRaises
<1> QED
  BY <1>2, <1>3, <1>4, <1>5, <1>6, PackStream, SendStream, IssueStream, ReadServes
  DEF Next, Host, Works, Caller

LEMMA StepPair ==
  ASSUME PackInv, DueInv, DueInv', RequestInv, WireInv, OrderInv, PairInv, ~desync, ~desync',
         [Next]_vars
  PROVE  PairInv'
<1>0. /\ sent \in Seq(Command) /\ crnt \in Command /\ probe \in Seq(Command) /\ out \in Seq(Response)
      /\ Len(sent) \in Nat /\ Len(probe) \in Nat /\ Len(out) \in Nat
      /\ Len(probe) + Len(out) = Len(sent) + skip
  BY DEF WireInv, DueInv
<1>1. CASE UNCHANGED <<reqOf, sent, probe, out, skip>>
  <2>1. Reads' = Reads
    BY <1>1 DEF Reads
  <2> QED
    BY <1>1, <2>1 DEF PairInv
<1>2. CASE Pack \/ PackDone \/ GetResult \/ GetAsserts \/ GetFlushes \/ Drained \/ SendNothing
  BY <1>1, <1>2 DEF Pack, PackDone, GetResult, GetAsserts, GetFlushes, Drained, SendNothing,
    queue, device
<1>3. CASE Flush \/ (\E id \in Ids : Get(id)) \/ UNCHANGED vars
  BY <1>1, <1>3 DEF Flush, Get, vars, queue, control, device
<1>4. CASE sent' = <<>>
  <2>1. SUFFICES ASSUME skip' = 0
                 PROVE  /\ \A j \in 1 .. Len(probe') : probe'[j] = sent'[Len(out') + j]
                        /\ \A j \in 1 .. Len(out') :
                             out'[j].ok => out'[j].data = Chosen(sent'[j].words, Reads')
    BY DEF PairInv
  <2>2. Len(probe') + Len(out') = 0 /\ Len(probe') \in Nat /\ Len(out') \in Nat
    <3>1. IsSeq(probe') /\ IsSeq(out') /\ Len(probe') + Len(out') = Len(sent') + skip'
      BY DEF DueInv
    <3>2. Len(probe') \in Nat /\ Len(out') \in Nat /\ Len(sent') = 0
      BY <1>4, <3>1, LengthOfSeq, EmptySeq
    <3> QED
      BY <2>1, <3>1, <3>2
  <2>3. Len(probe') = 0 /\ Len(out') = 0
    BY <2>2
  <2> QED
    BY <2>3
<1>5. CASE SendRaises \/ ReadFails \/ ReadRaises
  BY <1>4, <1>5 DEF SendRaises, ReadFails, ReadRaises, Abort
<1>6. CASE Skip \/ SkipRaises
  <2>1. sent' = <<>>
    BY <1>6 DEF Skip, SkipRaises, queue, DueInv
  <2> QED
    BY <1>4, <2>1
<1>7. CASE Send
  <2>1. /\ sent' = Append(sent, crnt) /\ probe' = Append(probe, crnt)
        /\ UNCHANGED <<out, skip>> /\ Reads' = Reads /\ skip = 0
    BY <1>7 DEF Send, Reads, DueInv
  <2>2. /\ Len(probe') = Len(probe) + 1 /\ probe'[Len(probe) + 1] = crnt
        /\ \A j \in 1 .. Len(probe) : probe'[j] = probe[j]
        /\ sent'[Len(sent) + 1] = crnt /\ \A j \in 1 .. Len(sent) : sent'[j] = sent[j]
    BY <1>0, <2>1
  <2>3. /\ \A j \in 1 .. Len(probe) : probe[j] = sent[Len(out) + j]
        /\ \A j \in 1 .. Len(out) : out[j].ok => out[j].data = Chosen(sent[j].words, Reads)
    BY <2>1 DEF PairInv
  <2>4. Len(probe) + Len(out) = Len(sent)
    BY <1>0, <2>1
  <2>5. ASSUME NEW j \in 1 .. Len(probe) + 1 PROVE probe'[j] = sent'[Len(out) + j]
    <3>1. CASE j \in 1 .. Len(probe)
      <4>1. Len(out) + j \in 1 .. Len(sent)
        BY <1>0, <2>4, <3>1
      <4> QED
        BY <2>2, <2>3, <3>1, <4>1
    <3>2. CASE j = Len(probe) + 1
      <4>1. Len(out) + j = Len(sent) + 1
        BY <1>0, <2>4, <3>2
      <4> QED
        BY <2>2, <3>2, <4>1
    <3> QED
      BY <1>0, <3>1, <3>2
  <2>6. ASSUME NEW j \in 1 .. Len(out), out[j].ok
        PROVE  out[j].data = Chosen(sent'[j].words, Reads)
    <3>1. j \in 1 .. Len(sent)
      BY <1>0, <2>4
    <3> QED
      BY <2>2, <2>3, <2>6, <3>1
  <2> QED
    BY <2>1, <2>2, <2>5, <2>6 DEF PairInv
<1>8. CASE Read
  <2>1. /\ sent # <<>> /\ out # <<>> /\ sent' = Tail(sent) /\ out' = Tail(out)
        /\ UNCHANGED <<probe, skip>> /\ Reads' = Reads /\ skip = 0
    BY <1>8 DEF Read, Reading, Reads, control, DueInv
  <2>2. /\ Len(sent') = Len(sent) - 1 /\ Len(out') = Len(out) - 1
        /\ \A j \in 1 .. Len(sent) - 1 : sent'[j] = sent[j + 1]
        /\ \A j \in 1 .. Len(out) - 1 : out'[j] = out[j + 1]
    <3>1. IsSeq(sent) /\ IsSeq(out)
      BY <1>0 DEF IsSeq
    <3> QED
      BY <2>1, <3>1, TailOfSeq
  <2>3. /\ \A j \in 1 .. Len(probe) : probe[j] = sent[Len(out) + j]
        /\ \A j \in 1 .. Len(out) : out[j].ok => out[j].data = Chosen(sent[j].words, Reads)
    BY <2>1 DEF PairInv
  <2>4. Len(probe) + Len(out) = Len(sent) /\ Len(out) > 0
    BY <1>0, <2>1, EmptySeq
  <2>5. ASSUME NEW j \in 1 .. Len(probe) PROVE probe[j] = sent'[Len(out') + j]
    <3>1. Len(out') + j \in 1 .. Len(sent) - 1 /\ (Len(out') + j) + 1 = Len(out) + j
      BY <1>0, <2>2, <2>4
    <3>2. sent'[Len(out') + j] = sent[(Len(out') + j) + 1]
      BY <2>2, <3>1
    <3> QED
      BY <2>3, <3>1, <3>2
  <2>6. ASSUME NEW j \in 1 .. Len(out) - 1, out'[j].ok
        PROVE  out'[j].data = Chosen(sent'[j].words, Reads)
    <3>1. j \in 1 .. Len(sent) - 1 /\ j + 1 \in 1 .. Len(out)
      BY <1>0, <2>4
    <3>2. sent'[j] = sent[j + 1] /\ out'[j] = out[j + 1]
      BY <2>2, <3>1
    <3> QED
      BY <2>3, <2>6, <3>1, <3>2
  <2> QED
    BY <2>1, <2>2, <2>5, <2>6 DEF PairInv
<1>9. CASE \E r \in Requests, n \in 1 .. MaxWords : Issue(r, n)
  <2>1. PICK r \in Requests, n \in 1 .. MaxWords : Issue(r, n)
    BY <1>9
  <2>2. /\ UNCHANGED <<sent, probe, out, skip>> /\ reqOf' = [reqOf EXCEPT ![next] = r]
        /\ pc = "idle"
    BY <2>1 DEF Issue, device
  <2>3. \A id \in Ids : id # next => (id \in Reads <=> id \in Reads')
    BY <2>2 DEF RequestInv, Reads
  <2>4. skip = 0 /\ Len(out) <= Len(sent)
    BY <1>0, <2>2 DEF DueInv
  <2>5. ASSUME NEW j \in 1 .. Len(out)
        PROVE  Chosen(sent[j].words, Reads') = Chosen(sent[j].words, Reads)
    <3>1. j \in 1 .. Len(sent)
      BY <1>0, <2>4
    <3>2. PICK ws : ws = sent[j].words
      OBVIOUS
    <3>3. ws \in Seq(Word) /\ \A k \in 1 .. Len(ws) : ws[k][1] < next
      BY <1>0, <3>1, <3>2, CommandWords, PackedOld
    <3>4. \A w \in Word : w[1] < next => (w[1] \in Reads <=> w[1] \in Reads')
      BY <2>3, PacketAssumption DEF Word, Ids, RequestInv
    <3>5. \A k \in 1 .. Len(ws) : ws[k] \in Word
      BY <3>3
    <3>6. \A k \in 1 .. Len(ws) : ws[k][1] \in Reads <=> ws[k][1] \in Reads'
      BY <3>3, <3>4, <3>5
    <3>7. Chosen(ws, Reads) = Chosen(ws, Reads')
      BY <3>3, <3>6, ChosenSame
    <3> QED
      BY <3>2, <3>7
  <2> QED
    BY <2>2, <2>4, <2>5 DEF PairInv
<1>10. CASE Execute
  <2>1. /\ probe # <<>> /\ probe' = Tail(probe) /\ Head(probe) \in Command
        /\ UNCHANGED <<sent, skip>> /\ Reads' = Reads
    BY <1>10, ProbeStep DEF Execute, queue, control, Reads
  <2>a. PICK k \in 0 .. Len(Head(probe).words) :
          \E ws, d, g : Answers(Head(probe), k, ws, d, g)
    BY <1>10, ProbeStep
  <2>b. PICK ws, d, g : Answers(Head(probe), k, ws, d, g)
    BY <2>a
  <2>c. PICK blk \in BOOLEAN : blk = Head(probe).block
    BY <2>1 DEF Command
  <2>2. /\ ws \in Seq(Word) /\ Len(ws) = k /\ \A m \in 1 .. k : ws[m] = Head(probe).words[m]
        /\ out' = Append(out, [block |-> blk, ok |-> k = Len(Head(probe).words), n |-> k,
                               data |-> Chosen(ws, Reads)])
    BY <2>b, <2>c DEF Answers
  <2>3. SUFFICES ASSUME skip = 0
                 PROVE  /\ \A j \in 1 .. Len(probe') : probe'[j] = sent[Len(out') + j]
                        /\ \A j \in 1 .. Len(out') :
                             out'[j].ok => out'[j].data = Chosen(sent[j].words, Reads)
    BY <2>1 DEF PairInv
  <2>4. /\ \A j \in 1 .. Len(probe) : probe[j] = sent[Len(out) + j]
        /\ \A j \in 1 .. Len(out) : out[j].ok => out[j].data = Chosen(sent[j].words, Reads)
    BY <2>3 DEF PairInv
  <2>5. /\ Len(probe) > 0 /\ Head(probe) = probe[1] /\ Len(probe') = Len(probe) - 1
        /\ \A j \in 1 .. Len(probe) - 1 : probe'[j] = probe[j + 1]
    <3>1. IsSeq(probe)
      BY <1>0 DEF IsSeq
    <3>2. Len(probe) > 0 /\ Head(probe) = probe[1]
      BY <1>0, <2>1, EmptySeq
    <3> QED
      BY <2>1, <3>1, <3>2, TailOfSeq
  <2>6. probe[1] = sent[Len(out) + 1]
    <3>1. 1 \in 1 .. Len(probe)
      BY <1>0, <2>5
    <3> QED
      BY <2>4, <3>1
  <2>7. PICK e : /\ e = [block |-> blk, ok |-> k = Len(probe[1].words), n |-> k,
                         data |-> Chosen(ws, Reads)]
                 /\ out' = Append(out, e)
    BY <2>2, <2>5
  <2>8. /\ e.ok => k = Len(probe[1].words)
        /\ e.data = Chosen(ws, Reads)
    BY <2>7
  <2>9. /\ Len(out') = Len(out) + 1 /\ out'[Len(out) + 1] = e
        /\ \A j \in 1 .. Len(out) : out'[j] = out[j]
    <3>1. IsSeq(out)
      BY <1>0 DEF IsSeq
    <3>2. /\ Len(Append(out, e)) = Len(out) + 1
          /\ \A j \in 1 .. Len(out) + 1 : Append(out, e)[j] = IF j <= Len(out) THEN out[j] ELSE e
      BY <3>1, AppendToSeq
    <3>3. Len(out) + 1 \in 1 .. Len(out) + 1 /\ ~(Len(out) + 1 <= Len(out))
      BY <1>0
    <3> QED
      BY <1>0, <2>7, <3>2, <3>3
  <2>10. ASSUME e.ok PROVE e.data = Chosen(sent[Len(out) + 1].words, Reads)
    <3>1. PICK vs : vs = probe[1].words
      OBVIOUS
    <3>2. vs \in Seq(Word) /\ k = Len(vs) /\ k \in Nat
      BY <1>0, <2>1, <2>2, <2>5, <2>8, <2>10, <3>1 DEF Command
    <3>3. Len(ws) = Len(vs) /\ \A m \in 1 .. Len(vs) : ws[m] = vs[m]
      BY <2>2, <2>5, <3>1, <3>2
    <3>4. ws = vs
      BY <2>2, <3>2, <3>3, SeqEqual
    <3> QED
      BY <2>6, <2>8, <3>1, <3>4
  <2>11. ASSUME NEW j \in 1 .. Len(probe) - 1 PROVE probe'[j] = sent[Len(out') + j]
    <3>1. j + 1 \in 1 .. Len(probe) /\ Len(out) + (j + 1) = Len(out') + j
      BY <1>0, <2>9
    <3>2. probe[j + 1] = sent[Len(out) + (j + 1)]
      BY <2>4, <3>1
    <3> QED
      BY <2>5, <3>1, <3>2
  <2>12. ASSUME NEW j \in 1 .. Len(out) + 1, out'[j].ok
         PROVE  out'[j].data = Chosen(sent[j].words, Reads)
    <3>1. CASE j = Len(out) + 1
      BY <2>9, <2>10, <2>12, <3>1
    <3>2. CASE j \in 1 .. Len(out)
      BY <2>4, <2>9, <2>12, <3>2
    <3> QED
      BY <1>0, <3>1, <3>2
  <2> QED
    BY <2>5, <2>9, <2>11, <2>12
<1> QED
  BY <1>2, <1>3, <1>5, <1>6, <1>7, <1>8, <1>9, <1>10 DEF Next, Host, Works, Caller

StatusInv == status \in [Ids -> {"none", "pending", "aborted", "done"}]

LEMMA StepStatus == StatusInv /\ [Next]_vars => StatusInv'
<1> SUFFICES ASSUME StatusInv, [Next]_vars PROVE StatusInv'
  OBVIOUS
<1> USE DEF StatusInv
<1>1. CASE Pack \/ PackDone \/ GetResult \/ GetAsserts \/ GetFlushes \/ Drained \/ SendNothing
           \/ Send
  BY <1>1 DEF Pack, PackDone, GetResult, GetAsserts, GetFlushes, Drained, SendNothing,
    Send, queue
<1>2. CASE Skip \/ SkipRaises \/ Flush \/ Execute \/ (\E id \in Ids : Get(id)) \/ UNCHANGED vars
  BY <1>2 DEF Skip, SkipRaises, Flush, Execute, Get, vars, queue
<1>3. CASE SendRaises \/ ReadFails \/ ReadRaises
  BY <1>3 DEF SendRaises, ReadFails, ReadRaises, Abort
<1>4. CASE \E r \in Requests, n \in 1 .. MaxWords : Issue(r, n)
  BY <1>4 DEF Issue
<1>5. CASE Read
  BY <1>5 DEF Read, Attach
<1> QED
  BY <1>1, <1>2, <1>3, <1>4, <1>5 DEF Next, Host, Works, Caller

LEMMA StepData ==
  ASSUME StatusInv, DueInv, RequestInv, WireInv, StreamInv, PairInv, DataInv, [Next]_vars
  PROVE  DataInv'
<1>1. CASE UNCHANGED <<sizeOf, next, data, status>>
  BY <1>1 DEF DataInv
<1>2. CASE Pack \/ PackDone \/ GetResult \/ GetAsserts \/ GetFlushes \/ Drained \/ SendNothing
           \/ Send
  BY <1>1, <1>2 DEF Pack, PackDone, GetResult, GetAsserts, GetFlushes, Drained, SendNothing,
    Send, queue
<1>3. CASE Skip \/ SkipRaises \/ Flush \/ Execute \/ (\E id \in Ids : Get(id)) \/ UNCHANGED vars
  BY <1>1, <1>3 DEF Skip, SkipRaises, Flush, Execute, Get, vars, queue, control
<1>4. CASE SendRaises \/ ReadFails \/ ReadRaises
  <2>1. /\ UNCHANGED <<sizeOf, next, data>>
        /\ \A id \in Ids : status'[id] = "done" => status[id] = "done"
    BY <1>4 DEF SendRaises, ReadFails, ReadRaises, Abort
  <2> QED
    BY <2>1 DEF DataInv
<1>5. CASE \E r \in Requests, n \in 1 .. MaxWords : Issue(r, n)
  <2>1. PICK r \in Requests, n \in 1 .. MaxWords : Issue(r, n)
    BY <1>5
  <2>2. /\ sizeOf' = [sizeOf EXCEPT ![next] = n] /\ next' = next + 1 /\ data' = data
        /\ next \in Nat
        /\ \/ status' = [status EXCEPT ![next] = "pending"]
           \/ status' = status
    BY <2>1, PacketAssumption DEF Issue, RequestInv
  <2> SUFFICES ASSUME NEW id \in Ids, status'[id] = "done"
               PROVE  id < next' /\ data'[id] = WordsOf(id, sizeOf'[id])
    BY DEF DataInv
  <2>3. CASE status[id] = "done"
    <3>1. id < next /\ data[id] = WordsOf(id, sizeOf[id])
      BY <2>3 DEF DataInv
    <3>2. id \in Nat /\ id # next
      BY <2>2, <3>1 DEF Ids
    <3>3. sizeOf'[id] = sizeOf[id]
      BY <2>2, <3>2 DEF RequestInv
    <3> QED
      BY <2>2, <3>1, <3>2, <3>3
  <2>4. CASE status[id] # "done"
    BY <2>2, <2>4 DEF StatusInv
  <2> QED
    BY <2>3, <2>4
<1> QED
  BY <1>2, <1>3, <1>4, <1>5, ReadServes DEF Next, Host, Works, Caller

LEMMA InitOwn == Init => OwnInv
<1> SUFFICES ASSUME Init PROVE OwnInv
  OBVIOUS
<1>1. /\ transfers = <<>> /\ buf = <<>> /\ sent = <<>> /\ crnt = Empty /\ rest = 0
      /\ probe = <<>> /\ out = <<>> /\ status = [id \in Ids |-> "none"]
  BY DEF Init
<1>2. Unpacked = 0 /\ Len(<<>>) = 0 /\ <<>> \in Seq(Ids)
  BY <1>1, EmptySeq DEF Unpacked
<1>3. PICK none : /\ Stream(<<>>, none, <<>>, sizeOf)
                  /\ Placed(<<>>, none, <<>>, <<>>, Empty, Reads)
                  /\ none[Len(<<>>)] + Empty.rc + 0 = Len(<<>>)
  BY EmptyStream
<1>4. StreamInv
  BY <1>1, <1>2, <1>3 DEF StreamInv
<1>5. PairInv
  BY <1>1, <1>2 DEF PairInv
<1>6. DataInv
  BY <1>1 DEF DataInv
<1> QED
  BY <1>4, <1>5, <1>6 DEF OwnInv

\* What is known of every state, each part kept with the help of the earlier ones.
WholeInv == PackInv /\ DueInv /\ RequestInv /\ WireInv /\ StatusInv /\ OrderInv

LEMMA InitWhole == Init => WholeInv
<1>1. Init => StatusInv
  BY DEF Init, StatusInv
<1> QED
  BY <1>1, InitPackInv, InitDueInv, InitTypes, InitOrder DEF WholeInv

LEMMA StepWhole == WholeInv /\ [Next]_vars => WholeInv'
BY StepPackInv, StepDueInv, StepRequest, StepWire, StepStatus, StepOrder DEF WholeInv

LEMMA DesyncStays == ASSUME [Next]_vars, desync PROVE desync'
<1>1. CASE Pack \/ PackDone \/ GetResult \/ GetAsserts \/ GetFlushes \/ Drained \/ SendNothing
           \/ Send
  BY <1>1 DEF Pack, PackDone, GetResult, GetAsserts, GetFlushes, Drained, SendNothing,
    Send, history
<1>2. CASE Skip \/ SkipRaises \/ Flush \/ Execute \/ (\E id \in Ids : Get(id)) \/ UNCHANGED vars
  BY <1>2 DEF Skip, SkipRaises, Flush, Execute, Get, vars, history
<1>3. CASE SendRaises \/ ReadFails \/ ReadRaises \/ Read
  BY <1>3 DEF SendRaises, ReadFails, ReadRaises, Read, history
<1>4. CASE \E r \in Requests, n \in 1 .. MaxWords : Issue(r, n)
  BY <1>4 DEF Issue
<1> QED
  BY <1>1, <1>2, <1>3, <1>4 DEF Next, Host, Works, Caller

LEMMA StepOwn == WholeInv /\ OwnInv /\ [Next]_vars => OwnInv'
<1> SUFFICES ASSUME WholeInv, OwnInv, [Next]_vars, ~desync' PROVE StreamInv' /\ PairInv' /\ DataInv'
  BY DEF OwnInv
<1>1. ~desync
  BY DesyncStays
<1>2. PackInv /\ DueInv /\ RequestInv /\ WireInv /\ StatusInv /\ OrderInv /\ DueInv'
  BY StepDueInv DEF WholeInv
<1>3. StreamInv /\ PairInv /\ DataInv
  BY <1>1 DEF OwnInv
<1>4. StreamInv'
  BY <1>2, <1>3, StepStream
<1>5. PairInv'
  BY <1>1, <1>2, <1>3, StepPair
<1>6. DataInv'
  BY <1>2, <1>3, StepData
<1> QED
  BY <1>4, <1>5, <1>6
-----------------------------------------------------------------------------
(* No write is lost in silence.                                            *)

Occurs(w, s) == \E k \in 1 .. Len(s) : s[k] = w

\* The words of the request under way that are not packed yet.
Left == IF rest > 0 THEN {<<cur, k>> : k \in sizeOf[cur] - rest + 1 .. sizeOf[cur]} ELSE {}

\* Where a word that is owed may be.
Held(w) == \/ Occurs(w, crnt.words) \/ (\E j \in 1 .. Len(sent) : Occurs(w, sent[j].words))
           \/ w \in Left \/ Occurs(w, executed)

OwedInv == \A w \in owed : w \in Word /\ w[1] < next /\ w[1] \notin Reads /\ Held(w)

\* What a good answer answers has been carried out.
AnsweredInv ==
  skip = 0 => \A j \in 1 .. Len(out) : out[j].ok =>
                \A k \in 1 .. Len(sent[j].words) :
                  sent[j].words[k][1] \notin Reads => Occurs(sent[j].words[k], executed)

LossInv == ~desync => OwedInv /\ AnsweredInv

LEMMA OccursInBoth ==
  ASSUME NEW s \in Seq(Word), NEW t \in Seq(Word), NEW w, Occurs(w, s) \/ Occurs(w, t)
  PROVE  Occurs(w, s \o t)
<1> DEFINE u == s \o t
<1>1. /\ Len(u) = Len(s) + Len(t) /\ Len(s) \in Nat /\ Len(t) \in Nat
      /\ \A k \in 1 .. Len(s) : u[k] = s[k]
      /\ \A k \in 1 .. Len(t) : u[Len(s) + k] = t[k]
  BY ConcatParts
<1> HIDE DEF u
<1>2. CASE Occurs(w, s)
  <2>1. PICK k \in 1 .. Len(s) : s[k] = w
    BY <1>2 DEF Occurs
  <2>2. k \in 1 .. Len(u) /\ u[k] = w
    BY <1>1, <2>1
  <2> QED
    BY <2>2 DEF Occurs, u
<1>3. CASE Occurs(w, t)
  <2>1. PICK k \in 1 .. Len(t) : t[k] = w
    BY <1>3 DEF Occurs
  <2>2. Len(s) + k \in 1 .. Len(u)
    BY <1>1
  <2>3. u[Len(s) + k] = w
    BY <1>1, <2>1
  <2> QED
    BY <2>2, <2>3 DEF Occurs, u
<1> QED
  BY <1>2, <1>3

\* What the answer to the first command says of the writes in it.
LEMMA ExecutedWords ==
  ASSUME WireInv, NEW ws \in Seq(Word), NEW w, Occurs(w, ws), w[1] \notin Reads,
         executed' = executed \o Chosen(ws, Ids \ Reads)
  PROVE  Occurs(w, executed')
<1> DEFINE e == Chosen(ws, Ids \ Reads)
<1>1. PICK k \in 1 .. Len(ws) : ws[k] = w
  BY DEF Occurs
<1>2. w \in Word
  BY <1>1
<1>3. w[1] \in Ids \ Reads
  BY <1>2 DEF Word
<1>4. Within(e, ws, Ids \ Reads, Len(ws))
  BY ChosenWithin
<1> HIDE DEF e
<1>5. Occurs(w, e) /\ e \in Seq(Word)
  BY <1>1, <1>3, <1>4 DEF Within, Occurs
<1>6. Occurs(w, executed \o e)
  BY <1>5, OccursInBoth DEF WireInv
<1> QED
  BY <1>6 DEF e

LEMMA ExecutedGrows ==
  ASSUME WireInv, [Next]_vars, NEW w, Occurs(w, executed)
  PROVE  Occurs(w, executed')
<1>1. CASE executed' = executed
  BY <1>1
<1>2. CASE Execute
  <2>1. PICK e \in Seq(Word) : executed' = executed \o e
    BY <1>2, ProbeStep DEF Answers
  <2> QED
    BY <2>1, OccursInBoth DEF WireInv
<1>3. CASE Pack \/ PackDone \/ GetResult \/ GetAsserts \/ GetFlushes \/ Drained \/ SendNothing
           \/ Send
  BY <1>1, <1>3 DEF Pack, PackDone, GetResult, GetAsserts, GetFlushes, Drained, SendNothing,
    Send, device
<1>4. CASE Skip \/ SkipRaises \/ Flush \/ (\E id \in Ids : Get(id)) \/ UNCHANGED vars \/ Read
  BY <1>1, <1>4 DEF Skip, SkipRaises, Flush, Get, vars, device, Read
<1>5. CASE SendRaises \/ ReadFails \/ ReadRaises
  BY <1>1, <1>5 DEF SendRaises, ReadFails, ReadRaises, device
<1>6. CASE \E r \in Requests, n \in 1 .. MaxWords : Issue(r, n)
  BY <1>1, <1>6 DEF Issue, device
<1> QED
  BY <1>2, <1>3, <1>4, <1>5, <1>6 DEF Next, Host, Works, Caller

LEMMA StepAnswered ==
  ASSUME PackInv, DueInv, DueInv', RequestInv, WireInv, OrderInv, PairInv, AnsweredInv,
         ~desync, ~desync', [Next]_vars
  PROVE  AnsweredInv'
<1>0. /\ sent \in Seq(Command) /\ out \in Seq(Response)
      /\ Len(sent) \in Nat /\ Len(probe) \in Nat /\ Len(out) \in Nat
      /\ Len(probe) + Len(out) = Len(sent) + skip
  BY DEF WireInv, DueInv
<1>g. \A w : Occurs(w, executed) => Occurs(w, executed')
  BY ExecutedGrows
<1>1. CASE UNCHANGED <<reqOf, sent, out, skip>>
  <2>1. Reads' = Reads
    BY <1>1 DEF Reads
  <2> QED
    BY <1>1, <1>g, <2>1 DEF AnsweredInv
<1>2. CASE Pack \/ PackDone \/ GetResult \/ GetAsserts \/ GetFlushes \/ Drained \/ SendNothing
  BY <1>1, <1>2 DEF Pack, PackDone, GetResult, GetAsserts, GetFlushes, Drained, SendNothing,
    queue, device
<1>3. CASE Flush \/ (\E id \in Ids : Get(id)) \/ UNCHANGED vars
  BY <1>1, <1>3 DEF Flush, Get, vars, queue, control, device
<1>4. CASE sent' = <<>>
  <2>1. SUFFICES ASSUME skip' = 0 PROVE Len(out') = 0
    BY DEF AnsweredInv
  <2>2. Len(probe') \in Nat /\ Len(out') \in Nat /\ Len(sent') = 0
        /\ Len(probe') + Len(out') = Len(sent') + skip'
    <3>1. IsSeq(probe') /\ IsSeq(out') /\ Len(probe') + Len(out') = Len(sent') + skip'
      BY DEF DueInv
    <3> QED
      BY <1>4, <3>1, LengthOfSeq, EmptySeq
  <2> QED
    BY <2>1, <2>2
<1>5. CASE SendRaises \/ ReadFails \/ ReadRaises
  BY <1>4, <1>5 DEF SendRaises, ReadFails, ReadRaises, Abort
<1>6. CASE Skip \/ SkipRaises
  <2>1. sent' = <<>>
    BY <1>6 DEF Skip, SkipRaises, queue, DueInv
  <2> QED
    BY <1>4, <2>1
<1>7. CASE Send
  <2>1. /\ sent' = Append(sent, crnt)
        /\ UNCHANGED <<out, skip>> /\ Reads' = Reads /\ skip = 0 /\ executed' = executed
    BY <1>7 DEF Send, Reads, DueInv
  <2>2. \A j \in 1 .. Len(out) : sent'[j] = sent[j]
    <3>1. \A j \in 1 .. Len(out) : j \in 1 .. Len(sent)
      BY <1>0, <2>1
    <3>2. \A j \in 1 .. Len(sent) : Append(sent, crnt)[j] = sent[j]
      BY <1>0
    <3> QED
      BY <2>1, <3>1, <3>2
  <2> QED
    BY <2>1, <2>2 DEF AnsweredInv
<1>8. CASE Read
  <2>1. /\ sent # <<>> /\ out # <<>> /\ sent' = Tail(sent) /\ out' = Tail(out)
        /\ UNCHANGED skip /\ Reads' = Reads /\ skip = 0 /\ executed' = executed
    BY <1>8 DEF Read, Reading, Reads, control, DueInv
  <2>2. /\ Len(out') = Len(out) - 1
        /\ \A j \in 1 .. Len(sent) - 1 : sent'[j] = sent[j + 1]
        /\ \A j \in 1 .. Len(out) - 1 : out'[j] = out[j + 1]
    <3>1. IsSeq(sent) /\ IsSeq(out)
      BY <1>0 DEF IsSeq
    <3> QED
      BY <2>1, <3>1, TailOfSeq
  <2>3. \A j \in 1 .. Len(out') : /\ j + 1 \in 1 .. Len(out)
                                  /\ sent'[j] = sent[j + 1] /\ out'[j] = out[j + 1]
    BY <1>0, <2>1, <2>2
  <2> QED
    BY <2>1, <2>3 DEF AnsweredInv
<1>9. CASE \E r \in Requests, n \in 1 .. MaxWords : Issue(r, n)
  <2>1. PICK r \in Requests, n \in 1 .. MaxWords : Issue(r, n)
    BY <1>9
  <2>2. /\ UNCHANGED <<sent, out, skip, executed>> /\ reqOf' = [reqOf EXCEPT ![next] = r]
        /\ pc = "idle"
    BY <2>1 DEF Issue, device
  <2>3. \A id \in Ids : id # next => (id \in Reads <=> id \in Reads')
    BY <2>2 DEF RequestInv, Reads
  <2>4. \A w \in Word : w[1] < next => (w[1] \in Reads <=> w[1] \in Reads')
    BY <2>3, PacketAssumption DEF Word, Ids, RequestInv
  <2>5. \A j \in 1 .. Len(out) : j \in 1 .. Len(sent)
    BY <1>0, <2>2 DEF DueInv
  <2>6. ASSUME NEW j \in 1 .. Len(sent), NEW k \in 1 .. Len(sent[j].words)
        PROVE  sent[j].words[k][1] \in Reads <=> sent[j].words[k][1] \in Reads'
    <3>1. PICK ws : ws = sent[j].words
      OBVIOUS
    <3>2. ws \in Seq(Word) /\ k \in 1 .. Len(ws)
      BY <1>0, <3>1, CommandWords
    <3>3. ws[k] \in Word
      BY <3>2
    <3> QED
      BY <2>4, <3>1, <3>3, PackedOld
  <2> QED
    BY <2>2, <2>5, <2>6 DEF AnsweredInv
<1>10. CASE Execute
  <2>1. /\ probe # <<>> /\ Head(probe) \in Command /\ UNCHANGED <<sent, skip>> /\ Reads' = Reads
    BY <1>10, ProbeStep DEF Execute, queue, control, Reads
  <2>a. PICK k \in 0 .. Len(Head(probe).words) :
          \E ws, d, g : Answers(Head(probe), k, ws, d, g)
    BY <1>10, ProbeStep
  <2>b. PICK ws, d, g : Answers(Head(probe), k, ws, d, g)
    BY <2>a
  <2>c. PICK blk \in BOOLEAN : blk = Head(probe).block
    BY <2>1 DEF Command
  <2>2. /\ ws \in Seq(Word) /\ Len(ws) = k /\ \A m \in 1 .. k : ws[m] = Head(probe).words[m]
        /\ executed' = executed \o Chosen(ws, Ids \ Reads)
        /\ out' = Append(out, [block |-> blk, ok |-> k = Len(Head(probe).words), n |-> k,
                               data |-> d])
    BY <2>b, <2>c DEF Answers
  <2>3. SUFFICES ASSUME skip = 0, NEW j \in 1 .. Len(out'), out'[j].ok,
                        NEW m \in 1 .. Len(sent[j].words), sent[j].words[m][1] \notin Reads
                 PROVE  Occurs(sent[j].words[m], executed')
    BY <2>1 DEF AnsweredInv
  <2>4. PICK e : /\ e = [block |-> blk, ok |-> k = Len(Head(probe).words), n |-> k,
                         data |-> d]
                 /\ out' = Append(out, e)
    BY <2>2
  <2>5. /\ e.ok => k = Len(Head(probe).words)
    BY <2>4
  <2>6. /\ Len(out') = Len(out) + 1 /\ out'[Len(out) + 1] = e
        /\ \A i \in 1 .. Len(out) : out'[i] = out[i]
    <3>1. IsSeq(out)
      BY <1>0 DEF IsSeq
    <3>2. /\ Len(Append(out, e)) = Len(out) + 1
          /\ \A i \in 1 .. Len(out) + 1 : Append(out, e)[i] = IF i <= Len(out) THEN out[i] ELSE e
      BY <3>1, AppendToSeq
    <3>3. Len(out) + 1 \in 1 .. Len(out) + 1 /\ ~(Len(out) + 1 <= Len(out))
      BY <1>0
    <3> QED
      BY <1>0, <2>4, <3>2, <3>3
  <2>7. CASE j \in 1 .. Len(out)
    <3>1. out[j].ok
      BY <2>3, <2>6, <2>7
    <3>2. Occurs(sent[j].words[m], executed)
      BY <2>3, <2>7, <3>1 DEF AnsweredInv
    <3> QED
      BY <1>g, <3>2
  <2>8. CASE j = Len(out) + 1
    <3>1. Head(probe) = sent[j] /\ e.ok
      <4>1. Head(probe) = probe[1] /\ 1 \in 1 .. Len(probe)
        BY <2>1, EmptySeq DEF WireInv
      <4>2. probe[1] = sent[Len(out) + 1]
        BY <2>3, <4>1 DEF PairInv
      <4> QED
        BY <2>3, <2>6, <2>8, <4>1, <4>2
    <3>2. k = Len(sent[j].words) /\ ws[m] = sent[j].words[m]
      BY <2>2, <2>5, <3>1
    <3>3. Occurs(sent[j].words[m], ws)
      BY <2>2, <3>2 DEF Occurs
    <3> QED
      BY <2>2, <2>3, <3>3, ExecutedWords
  <2> QED
    BY <1>0, <2>6, <2>7, <2>8
<1> QED
  BY <1>2, <1>3, <1>5, <1>6, <1>7, <1>8, <1>9, <1>10 DEF Next, Host, Works, Caller

\* A word that is held stays held when the word's places do.
LEMMA HeldStays ==
  ASSUME NEW w, Held(w), UNCHANGED <<crnt, sent, rest, cur, sizeOf>>,
         Occurs(w, executed) => Occurs(w, executed')
  PROVE  Held(w)'
<1>1. Left' = Left
  BY DEF Left
<1> QED
  BY <1>1 DEF Held

\* The words of a new write wait to be packed.
LEMMA IssueOwed ==
  ASSUME RequestInv, OwedInv, NEW r \in Requests, NEW n \in 1 .. MaxWords, Issue(r, n)
  PROVE  OwedInv'
<1>1. /\ pc = "idle" /\ next <= MaxId /\ next' = next + 1 /\ cur' = next /\ rest' = n
      /\ reqOf' = [reqOf EXCEPT ![next] = r] /\ sizeOf' = [sizeOf EXCEPT ![next] = n]
      /\ UNCHANGED <<crnt, sent, executed>>
      /\ IF IsRead(r) THEN owed' = owed ELSE owed' = owed \cup {<<next, k>> : k \in 1 .. n}
  BY DEF Issue, device
<1>2. next \in Ids /\ next \in Nat /\ n \in Nat /\ n > 0 /\ MaxWords \in Nat
  BY <1>1, PacketAssumption DEF RequestInv, Ids
<1>3. Left = {}
  <2>1. rest \in Nat /\ ~(rest > 0)
    BY <1>1 DEF RequestInv
  <2> QED
    BY <2>1 DEF Left
<1>4. Left' = {<<next, k>> : k \in 1 .. n}
  <2>1. sizeOf'[next] = n
    BY <1>1, <1>2 DEF RequestInv
  <2>2. n - n + 1 = 1
    BY <1>2
  <2> QED
    BY <1>1, <1>2, <2>1, <2>2 DEF Left
<1>5. \A id \in Ids : id # next => (id \in Reads <=> id \in Reads')
  BY <1>1 DEF RequestInv, Reads
<1>6. ASSUME NEW w \in owed
      PROVE  w \in Word /\ w[1] < next' /\ w[1] \notin Reads' /\ Held(w)'
  <2>1. w \in Word /\ w[1] < next /\ w[1] \notin Reads /\ Held(w)
    BY <1>6 DEF OwedInv
  <2>2. w[1] \in Ids /\ w[1] \in Nat
    BY <2>1 DEF Word, Ids
  <2>3. w[1] # next /\ w[1] < next'
    BY <1>1, <1>2, <2>1, <2>2
  <2>4. Held(w)'
    BY <1>1, <1>3, <2>1 DEF Held
  <2> QED
    BY <1>5, <2>1, <2>2, <2>3, <2>4
<1>7. ASSUME ~IsRead(r), NEW k \in 1 .. n, NEW w, w = <<next, k>>
      PROVE  w \in Word /\ w[1] < next' /\ w[1] \notin Reads' /\ Held(w)'
  <2>1. k \in 1 .. MaxWords
    BY <1>2
  <2>2. w \in Word /\ w[1] = next
    BY <1>2, <1>7, <2>1 DEF Word
  <2>3. w[1] < next'
    BY <1>1, <1>2, <2>2
  <2>4. reqOf'[next] = r
    BY <1>1, <1>2 DEF RequestInv
  <2>5. w[1] \notin Reads'
    BY <1>7, <2>2, <2>4 DEF Reads
  <2>6. w \in Left'
    BY <1>4, <1>7
  <2> QED
    BY <2>2, <2>3, <2>5, <2>6 DEF Held
<1> QED
  BY <1>1, <1>6, <1>7 DEF OwedInv

LEMMA PlaceInPacket ==
  ASSUME NEW s \in Nat, NEW r \in Nat, NEW z \in Nat, NEW k \in Int,
         k >= s - r + 1, ~(k >= s - (r - z) + 1)
  PROVE  k - (s - r) \in 1 .. z /\ s - r + (k - (s - r)) = k
OBVIOUS

\* What _write packs goes from what is left to the command that is built.
LEMMA PackOwed ==
  ASSUME PackInv, RequestInv, WireInv, Pack, NEW w, Held(w)
  PROVE  Held(w)'
<1> DEFINE size == Space(crnt, reqOf[cur], rest)
           nw == NextWords(size)
<1>1. /\ rest > 0 /\ UNCHANGED <<sent, executed, cur, sizeOf>>
  BY DEF Pack, device
<1>2. /\ rest \in Nat /\ cur \in Ids /\ sizeOf[cur] \in Nat /\ rest <= sizeOf[cur]
      /\ crnt \in Command /\ crnt.words \in Seq(Word)
  BY <1>1, PacketAssumption DEF RequestInv, WireInv, Command
<1>3. size \in Int /\ size <= rest
  BY <1>2, SpaceBounds DEF PackInv
<1>4. CASE size <= 0
  <2>1. UNCHANGED <<crnt, rest>>
    BY <1>4 DEF Pack
  <2> QED
    BY <1>1, <2>1, HeldStays
<1>5. CASE ~(size <= 0)
  <2>1. crnt' = Added(crnt, reqOf[cur], nw) /\ rest' = rest - size
    BY <1>5 DEF Pack
  <2>2. size \in Nat /\ size > 0
    BY <1>3, <1>5
  <2>3. /\ nw \in Seq(Word) /\ Len(nw) = size
        /\ \A k \in 1 .. size : nw[k] = <<cur, sizeOf[cur] - rest + k>>
    BY <1>1, <1>3, <2>2, PackedWords
  <2>4. crnt'.words = crnt.words \o nw
    BY <2>1 DEF Added
  <2> HIDE DEF size, nw
  <2>5. CASE Occurs(w, crnt.words)
    <3>1. Occurs(w, crnt.words \o nw)
      BY <1>2, <2>3, <2>5, OccursInBoth
    <3> QED
      BY <2>4, <3>1 DEF Held
  <2>6. CASE w \in Left
    <3>1. PICK k : k \in sizeOf[cur] - rest + 1 .. sizeOf[cur] /\ w = <<cur, k>>
      BY <1>1, <2>6 DEF Left
    <3>2. k \in Int
      BY <1>2, <3>1
    <3>3. CASE k >= sizeOf[cur] - rest' + 1
      <4>1. k \in sizeOf[cur] - rest' + 1 .. sizeOf[cur] /\ rest' > 0
        BY <1>2, <2>1, <2>2, <1>3, <3>1, <3>2, <3>3
      <4>2. w \in Left'
        BY <1>1, <3>1, <4>1 DEF Left
      <4> QED
        BY <4>2 DEF Held
    <3>4. CASE ~(k >= sizeOf[cur] - rest' + 1)
      <4>1. k >= sizeOf[cur] - rest + 1 /\ ~(k >= sizeOf[cur] - (rest - size) + 1)
        BY <1>2, <2>1, <2>2, <3>1, <3>2, <3>4
      <4>2. PICK i : i \in 1 .. size /\ sizeOf[cur] - rest + i = k
        <5>1. /\ k - (sizeOf[cur] - rest) \in 1 .. size
              /\ sizeOf[cur] - rest + (k - (sizeOf[cur] - rest)) = k
          BY <1>2, <2>2, <3>2, <4>1, PlaceInPacket
        <5> QED
          BY <5>1
      <4>3. i \in 1 .. Len(nw) /\ nw[i] = w
        BY <2>3, <3>1, <4>2
      <4>4. Occurs(w, nw)
        BY <4>3 DEF Occurs
      <4>5. Occurs(w, crnt.words \o nw)
        BY <1>2, <2>3, <4>4, OccursInBoth
      <4> QED
        BY <2>4, <4>5 DEF Held
    <3> QED
      BY <3>3, <3>4
  <2> QED
    BY <1>1, <2>5, <2>6 DEF Held
<1> QED
  BY <1>4, <1>5

LEMMA SendOwed ==
  ASSUME WireInv, Send, NEW w, Held(w)
  PROVE  Held(w)'
<1>1. /\ sent' = Append(sent, crnt) /\ UNCHANGED <<rest, cur, sizeOf, executed>>
      /\ sent \in Seq(Command) /\ crnt \in Command
  BY DEF Send, WireInv
<1>2. Left' = Left
  BY <1>1 DEF Left
<1>3. /\ Len(sent) \in Nat /\ Len(sent') = Len(sent) + 1 /\ sent'[Len(sent) + 1] = crnt
      /\ \A j \in 1 .. Len(sent) : j \in 1 .. Len(sent') /\ sent'[j] = sent[j]
  BY <1>1
<1>4. CASE Occurs(w, crnt.words)
  <2>1. Len(sent) + 1 \in 1 .. Len(sent')
    BY <1>3
  <2> QED
    BY <1>3, <1>4, <2>1 DEF Held
<1>5. CASE \E j \in 1 .. Len(sent) : Occurs(w, sent[j].words)
  BY <1>3, <1>5 DEF Held
<1> QED
  BY <1>1, <1>2, <1>4, <1>5 DEF Held

\* A command that is answered well has been carried out, all its writes.
LEMMA ReadOwed ==
  ASSUME DueInv, WireInv, AnsweredInv, Read, NEW w, w[1] \notin Reads, Held(w)
  PROVE  Held(w)'
<1>1. /\ sent # <<>> /\ out # <<>> /\ pc # "skip" /\ sent' = Tail(sent)
      /\ Decoded(Head(sent), Head(out)) = "ok"
      /\ UNCHANGED <<crnt, rest, cur, sizeOf, executed>>
      /\ sent \in Seq(Command) /\ out \in Seq(Response)
  BY DEF Read, Reading, control, WireInv
<1>2. Left' = Left
  BY <1>1 DEF Left
<1>3. /\ Len(sent) \in Nat /\ Len(sent') = Len(sent) - 1
      /\ \A j \in 1 .. Len(sent) - 1 : sent'[j] = sent[j + 1]
  BY <1>1, TailOfSeq DEF IsSeq
<1>4. Head(sent) = sent[1] /\ Head(out) = out[1] /\ 1 \in 1 .. Len(out)
  BY <1>1, EmptySeq
<1>5. out[1].ok
  BY <1>1, <1>4 DEF Decoded
<1>6. CASE \E j \in 1 .. Len(sent) : Occurs(w, sent[j].words)
  <2>1. PICK j \in 1 .. Len(sent) : Occurs(w, sent[j].words)
    BY <1>6
  <2>2. CASE j = 1
    <3>1. PICK k \in 1 .. Len(sent[1].words) : sent[1].words[k] = w
      BY <2>1, <2>2 DEF Occurs
    <3>2. skip = 0
      BY <1>1 DEF DueInv
    <3>3. Occurs(w, executed)
      BY <1>4, <1>5, <3>1, <3>2 DEF AnsweredInv
    <3> QED
      BY <1>1, <3>3 DEF Held
  <2>3. CASE j # 1
    <3>1. j - 1 \in 1 .. Len(sent) - 1 /\ (j - 1) + 1 = j
      BY <1>3, <2>1, <2>3
    <3>2. sent'[j - 1] = sent[j] /\ j - 1 \in 1 .. Len(sent')
      BY <1>3, <3>1
    <3> QED
      BY <2>1, <3>2 DEF Held
  <2> QED
    BY <2>2, <2>3
<1> QED
  BY <1>1, <1>2, <1>6 DEF Held

LEMMA StepOwed ==
  ASSUME PackInv, DueInv, RequestInv, WireInv, OwedInv, AnsweredInv, [Next]_vars
  PROVE  OwedInv'
<1>1. CASE owed' = {}
  BY <1>1 DEF OwedInv
<1>2. CASE \E r \in Requests, n \in 1 .. MaxWords : Issue(r, n)
  BY <1>2, IssueOwed
<1>3. ASSUME UNCHANGED <<owed, next, reqOf>>, \A w \in owed : Held(w)'
      PROVE  OwedInv'
  <2>1. Reads' = Reads
    BY <1>3 DEF Reads
  <2> QED
    BY <1>3, <2>1 DEF OwedInv
<1>4. \A w \in owed : Held(w) /\ w[1] \notin Reads
  BY DEF OwedInv
<1>5. \A w : Occurs(w, executed) => Occurs(w, executed')
  BY ExecutedGrows
<1>6. CASE UNCHANGED <<owed, next, reqOf, crnt, sent, rest, cur, sizeOf>>
  BY <1>3, <1>4, <1>5, <1>6, HeldStays
<1>7. CASE PackDone \/ GetResult \/ GetAsserts \/ GetFlushes \/ Drained \/ SendNothing
  BY <1>6, <1>7 DEF PackDone, GetResult, GetAsserts, GetFlushes, Drained, SendNothing,
    queue, history
<1>8. CASE Flush \/ (\E id \in Ids : Get(id)) \/ UNCHANGED vars
  BY <1>6, <1>8 DEF Flush, Get, vars, queue, control, history
<1>9. CASE Skip \/ SkipRaises \/ Execute
  BY <1>6, <1>9 DEF Skip, SkipRaises, Execute, queue, control, history
<1>10. CASE SendRaises \/ ReadFails \/ ReadRaises
  BY <1>1, <1>10 DEF SendRaises, ReadFails, ReadRaises, Abort
<1>11. CASE Pack
  <2>1. UNCHANGED <<owed, next, reqOf>>
    BY <1>11 DEF Pack, history
  <2> QED
    BY <1>3, <1>4, <1>11, <2>1, PackOwed
<1>12. CASE Send
  <2>1. UNCHANGED <<owed, next, reqOf>>
    BY <1>12 DEF Send, history
  <2> QED
    BY <1>3, <1>4, <1>12, <2>1, SendOwed
<1>13. CASE Read
  <2>1. UNCHANGED <<owed, next, reqOf>>
    BY <1>13 DEF Read, history
  <2> QED
    BY <1>3, <1>4, <1>13, <2>1, ReadOwed
<1> QED
  BY <1>2, <1>7, <1>8, <1>9, <1>10, <1>11, <1>12, <1>13 DEF Next, Host, Works, Caller

LEMMA InitLoss == Init => LossInv
<1>1. Init => owed = {} /\ Len(out) = 0
  BY EmptySeq DEF Init
<1> QED
  BY <1>1 DEF LossInv, OwedInv, AnsweredInv

LEMMA StepLoss == WholeInv /\ OwnInv /\ LossInv /\ [Next]_vars => LossInv'
<1> SUFFICES ASSUME WholeInv, OwnInv, LossInv, [Next]_vars, ~desync'
             PROVE  OwedInv' /\ AnsweredInv'
  BY DEF LossInv
<1>1. ~desync
  BY DesyncStays
<1>2. PackInv /\ DueInv /\ RequestInv /\ WireInv /\ OrderInv /\ DueInv'
  BY StepDueInv DEF WholeInv
<1>3. PairInv /\ OwedInv /\ AnsweredInv
  BY <1>1 DEF OwnInv, LossInv
<1>4. OwedInv'
  BY <1>2, <1>3, StepOwed
<1>5. AnsweredInv'
  BY <1>1, <1>2, <1>3, StepAnswered
<1> QED
  BY <1>4, <1>5

\* A word that is held is under way or has been carried out.
LEMMA HeldIsKept ==
  ASSUME NEW w, Held(w)
  PROVE  w \in InFlight \/ \E j \in 1 .. Len(executed) : executed[j] = w
<1>1. CASE Occurs(w, crnt.words)
  <2>1. w \in {crnt.words[k] : k \in 1 .. Len(crnt.words)}
    BY <1>1 DEF Occurs
  <2> QED
    BY <2>1 DEF InFlight
<1>2. CASE \E j \in 1 .. Len(sent) : Occurs(w, sent[j].words)
  <2>1. PICK j \in 1 .. Len(sent) : Occurs(w, sent[j].words)
    BY <1>2
  <2>2. w \in {sent[j].words[k] : k \in 1 .. Len(sent[j].words)}
    BY <2>1 DEF Occurs
  <2>3. sent[j] \in {crnt} \cup {sent[i] : i \in 1 .. Len(sent)}
    BY <2>1
  <2> QED
    BY <2>2, <2>3 DEF InFlight
<1>3. CASE w \in Left
  BY <1>3 DEF InFlight, Left
<1> QED
  BY <1>1, <1>2, <1>3 DEF Held, Occurs
-----------------------------------------------------------------------------
(* The theorems.                                                           *)

\* Every command that is built or sent, and its response, fits into a packet of
\* the size the probe gave, and the count of a DAP_Transfer into its byte,
\* whatever is packed and however a command changes its form on the way.
THEOREM PacketsFit == Spec => []PacketFits
<1>1. PackInv => PacketFits
  BY DEF PackInv, PacketFits, Sized
<1> QED
  BY InitPackInv, StepPackInv, <1>1, PTL DEF Spec

\* While no exception has left responses unread, the probe never holds more
\* packets than it said it can, and as many responses are due as packets are
\* waiting for one.
THEOREM WindowIsKept == Spec => []WindowKept
<1>1. DueInv => WindowKept
  BY PacketAssumption, LengthOfSeq DEF DueInv, WindowKept
<1> QED
  BY InitDueInv, StepDueInv, <1>1, PTL DEF Spec

\* While no exception has left responses unread, a read that has a result has
\* the words the target gave for it, however the requests were cut into packets
\* and whatever was aborted before: what is in the buffer, asked for in the
\* packets that are under way and still to be packed is at all times exactly
\* what the waiting reads want, in their order.
THEOREM ReadsAreOwn == Spec => []OwnData
<1>1. OwnInv => OwnData
  BY DEF OwnInv, DataInv, OwnData
<1>2. WholeInv /\ OwnInv /\ [Next]_vars => WholeInv' /\ OwnInv'
  BY StepWhole, StepOwn
<1> QED
  BY InitWhole, InitOwn, <1>1, <1>2, PTL DEF Spec

\* While no exception has left responses unread, a write that was issued since
\* the last exception is still to be packed, in a packet whose response has not
\* been read, or carried out; and the target carries out writes in the order
\* they were issued, each once, whatever happened.
THEOREM WritesAreKept == Spec => []WritesKept
<1>1. LossInv => NoSilentLoss
  BY HeldIsKept DEF LossInv, OwedInv, NoSilentLoss
<1>2. WholeInv => WritesInOrder
  <2> SUFFICES ASSUME WholeInv, NEW j \in 1 .. Len(executed) - 1
               PROVE  Before(executed[j], executed[j + 1])
    BY DEF WritesInOrder, Before
  <2>1. Rising(executed) /\ Len(executed) \in Nat
    BY DEF WholeInv, OrderInv, Ordered, WireInv
  <2>2. j \in 1 .. Len(executed) /\ j + 1 \in 1 .. Len(executed) /\ j < j + 1
    BY <2>1
  <2> QED
    BY <2>1, <2>2 DEF Rising
<1>3. WholeInv /\ OwnInv /\ LossInv /\ [Next]_vars => WholeInv' /\ OwnInv' /\ LossInv'
  BY StepWhole, StepOwn, StepLoss
<1>4. WholeInv /\ LossInv => WritesKept
  BY <1>1, <1>2 DEF WritesKept
<1> QED
  BY InitWhole, InitOwn, InitLoss, <1>3, <1>4, PTL DEF Spec

-----------------------------------------------------------------------------
(* What the code above the queue sees.  The invariant the refinement of    *)
(* AccessQueue needs: a read waits exactly while it is in the line, and    *)
(* never for words that have come; what is sent was asked for.             *)

\* The read waits; it is among the first m that wait.
InLine(id) == \E j \in 1 .. Len(transfers) : transfers[j] = id
Among(m, id) == \E j \in 1 .. m : transfers[j] = id

\* Attach serves the first m reads, as many as there are words for.
LEMMA AttachMarks ==
  ASSUME NEW W, NEW ask, transfers \in Seq(Ids), sizeOf \in [Ids -> Nat],
         Stream(W, ask, transfers, sizeOf), NEW b \in Seq(Word), Attach(b)
  PROVE  \E m \in 0 .. Len(transfers) :
           /\ transfers' = Between(transfers, m, Len(transfers))
           /\ status' = [id \in Ids |-> IF Among(m, id) THEN "done" ELSE status[id]]
           /\ data' \in [Ids -> {data'[id] : id \in Ids}]
           /\ \A id \in Ids : ~Among(m, id) => data'[id] = data[id]
           /\ m < Len(transfers) => Len(buf') < sizeOf[transfers[m + 1]]
<1> DEFINE n == Len(transfers)
           T == {i \in 0 .. n : Asked[i] <= Len(b)}
           m == CHOOSE i \in T : \A i2 \in T : i2 <= i
           pos(id) == CHOOSE j \in 1 .. m : transfers[j] = id
<1>0. n \in Nat /\ Len(b) \in Nat
  OBVIOUS
<1>1. \A i \in 0 .. n : Asked[i] = ask[i]
  BY AskedIs
<1>2. 0 \in T /\ T \in SUBSET (0 .. n)
  <2>1. ask[0] = 0
    BY DEF Stream
  <2> QED
    BY <1>0, <1>1, <2>1
<1>3. \E i \in T : \A i2 \in T : i2 <= i
  BY <1>0, <1>2, GreatestNumber
<1>4. m \in T /\ \A i \in T : i <= m
  BY <1>3
<1>5. /\ status' = [id \in Ids |-> IF Among(m, id) THEN "done" ELSE status[id]]
      /\ data' = [id \in Ids |->
                    IF Among(m, id) THEN SubSeq(b, Asked[pos(id) - 1] + 1, Asked[pos(id)])
                    ELSE data[id]]
      /\ transfers' = Between(transfers, m, n)
      /\ buf' = SubSeq(b, Asked[m] + 1, Len(b))
  BY DEF Attach, Among, Between
<1> HIDE DEF m, T, n, pos
<1>6. m \in 0 .. n /\ Asked[m] = ask[m] /\ ask[m] <= Len(b) /\ ask[m] \in Nat
  <2>1. m \in 0 .. n /\ Asked[m] = ask[m] /\ ask[m] <= Len(b)
    BY <1>1, <1>4 DEF T
  <2>2. ask \in [0 .. n -> Nat]
    BY DEF Stream, n
  <2> QED
    BY <2>1, <2>2
<1>7. ASSUME m < n PROVE Len(buf') < sizeOf[transfers[m + 1]]
  <2>1. m + 1 \in 1 .. n /\ m + 1 \in 0 .. n /\ (m + 1) - 1 = m
    BY <1>0, <1>6, <1>7
  <2>2. ask[m + 1] = ask[m] + sizeOf[transfers[m + 1]] /\ ask[m + 1] \in Nat
    <3>1. /\ ask \in [0 .. n -> Nat]
          /\ \A j \in 1 .. n : ask[j] = ask[j - 1] + sizeOf[transfers[j]]
      BY DEF Stream, n
    <3> QED
      BY <2>1, <3>1
  <2>3. transfers[m + 1] \in Ids
    BY <2>1 DEF n
  <2>4. sizeOf[transfers[m + 1]] \in Nat
    BY <2>3
  <2>5. ~(Asked[m + 1] <= Len(b))
    <3>1. SUFFICES ASSUME Asked[m + 1] <= Len(b) PROVE FALSE
      OBVIOUS
    <3>2. m + 1 \in T
      BY <2>1, <3>1 DEF T
    <3> QED
      BY <1>4, <1>6, <3>2
  <2>6. ask[m + 1] > Len(b)
    BY <1>0, <1>1, <2>1, <2>2, <2>5
  <2>7. Len(buf') = Len(b) - ask[m]
    <3> DEFINE p == ask[m]
    <3>1. buf' = SubSeq(b, p + 1, Len(b)) /\ p \in Nat /\ p <= Len(b)
      BY <1>5, <1>6
    <3> HIDE DEF p
    <3> QED
      BY <3>1 DEF p
  <2> QED
    BY <1>0, <1>6, <2>2, <2>4, <2>6, <2>7
<1>8. /\ data' \in [Ids -> {data'[id] : id \in Ids}]
      /\ \A id \in Ids : ~Among(m, id) => data'[id] = data[id]
  BY <1>5
<1> QED
  BY <1>5, <1>6, <1>7, <1>8 DEF n

\* The same for a response that is read.
LEMMA ReadMarks ==
  ASSUME DueInv, RequestInv, WireInv, StreamInv, PairInv, Read
  PROVE  \E m \in 0 .. Len(transfers) :
           /\ transfers' = Between(transfers, m, Len(transfers))
           /\ status' = [id \in Ids |-> IF Among(m, id) THEN "done" ELSE status[id]]
           /\ data' \in [Ids -> {data'[id] : id \in Ids}]
           /\ \A id \in Ids : ~Among(m, id) => data'[id] = data[id]
           /\ m < Len(transfers) => Len(buf') < sizeOf[transfers[m + 1]]
<1> DEFINE b == buf \o Payload(Head(sent), Head(out))
<1>1. /\ sent # <<>> /\ out # <<>> /\ pc # "skip"
      /\ Decoded(Head(sent), Head(out)) = "ok" /\ Attach(b)
  BY DEF Read, Reading, control
<1>2. /\ sent \in Seq(Command) /\ out \in Seq(Response) /\ transfers \in Seq(Ids)
      /\ sizeOf \in [Ids -> Nat]
  BY PacketAssumption DEF WireInv, StreamInv, RequestInv
<1>3. Head(sent) = sent[1] /\ Head(out) = out[1] /\ 1 \in 1 .. Len(out)
  BY <1>1, <1>2, EmptySeq
<1>4. out[1].data = Chosen(sent[1].words, Reads)
  <2>1. out[1].ok
    BY <1>1, <1>3 DEF Decoded
  <2>2. skip = 0
    BY <1>1 DEF DueInv
  <2> QED
    BY <1>3, <2>1, <2>2 DEF PairInv
<1>5. PICK W, ask, pos : /\ Stream(W, ask, transfers, sizeOf)
                         /\ Placed(W, pos, buf, sent, crnt, Reads)
  BY DEF StreamInv
<1>6. b \in Seq(Word)
  <2>1. \A p : p.data = Chosen(sent[1].words, Reads) =>
          LET b2 == buf \o Payload(sent[1], p)
          IN b2 \in Seq(Word) /\ Len(b2) = pos[1] /\ PartOf(W, 0, b2) /\ pos[1] \in Nat
    <3>1. W \in Seq(Word) /\ Placed(W, pos, buf, sent, crnt, Reads)
      BY <1>5 DEF Stream
    <3>2. sent \in Seq(Command) /\ sent # <<>>
      BY <1>1, <1>2
    <3> HIDE DEF b
    <3> QED
      BY <3>1, <3>2, BufferRead
  <2> QED
    BY <1>3, <1>4, <2>1
<1> HIDE DEF b
<1> QED
  BY <1>1, <1>2, <1>5, <1>6, AttachMarks

\* Nobody waits for words that have come: the buffer is shorter than what the
\* first read wants.
LineInv ==
  /\ \A i, j \in 1 .. Len(transfers) : i < j => transfers[i] < transfers[j]
  /\ \A id \in Ids : status[id] = "pending" <=> InLine(id)
  /\ transfers # <<>> => Len(buf) < sizeOf[transfers[1]]

LEMMA NoneInBuffer ==
  ASSUME StreamInv, WireInv, transfers = <<>> PROVE Len(buf) = 0
<1>1. PICK W, ask, pos : /\ Stream(W, ask, transfers, sizeOf)
                         /\ Placed(W, pos, buf, sent, crnt, Reads)
  BY DEF StreamInv
<1>2. Len(transfers) = 0
  BY EmptySeq
<1>3. Len(W) = 0 /\ W \in Seq(Word)
  BY <1>1, <1>2 DEF Stream
<1>4. buf \in Seq(Word) /\ 0 + Len(buf) <= Len(W)
  BY <1>1 DEF Placed, PartOf
<1> QED
  BY <1>3, <1>4

LEMMA ReadLine ==
  ASSUME DueInv, RequestInv, WireInv, StreamInv, PairInv, StatusInv, LineInv, Read
  PROVE  LineInv'
<1>1. PICK m \in 0 .. Len(transfers) :
           /\ transfers' = Between(transfers, m, Len(transfers))
           /\ status' = [id \in Ids |-> IF Among(m, id) THEN "done" ELSE status[id]]
           /\ m < Len(transfers) => Len(buf') < sizeOf[transfers[m + 1]]
  BY ReadMarks
<1> DEFINE n == Len(transfers)
<1>2. transfers \in Seq(Ids) /\ n \in Nat /\ m \in 0 .. n /\ Ids \subseteq Nat
  BY DEF StreamInv, Ids
<1>3. Len(transfers') = n - m /\ \A j \in 1 .. n - m : transfers'[j] = transfers[m + j]
  BY <1>1, <1>2 DEF Between
<1>4. \A i, j \in 1 .. n : i < j => transfers[i] < transfers[j]
  BY DEF LineInv
<1>5. \A i, j \in 1 .. Len(transfers') : i < j => transfers'[i] < transfers'[j]
  BY <1>2, <1>3, <1>4
<1>6. ASSUME NEW id \in Ids PROVE status'[id] = "pending" <=> InLine(id)'
  <2>1. status'[id] = "pending" <=> (~Among(m, id) /\ InLine(id))
    BY <1>1 DEF LineInv
  <2>2. ASSUME ~Among(m, id), InLine(id) PROVE InLine(id)'
    <3>1. PICK j \in 1 .. n : transfers[j] = id
      BY <2>2 DEF InLine
    <3>2. j - m \in 1 .. n - m /\ m + (j - m) = j
      BY <1>2, <2>2, <3>1 DEF Among
    <3>3. transfers'[j - m] = id
      BY <1>3, <3>1, <3>2
    <3> QED
      BY <1>3, <3>2, <3>3 DEF InLine
  <2>3. ASSUME InLine(id)' PROVE ~Among(m, id) /\ InLine(id)
    <3>1. PICK j \in 1 .. n - m : transfers'[j] = id
      BY <1>3, <2>3 DEF InLine
    <3>2. transfers[m + j] = id /\ m + j \in 1 .. n
      BY <1>2, <1>3, <3>1
    <3>3. \A i \in 1 .. m : i \in 1 .. n /\ i < m + j
      BY <1>2, <3>1
    <3>4. \A i \in 1 .. m : transfers[i] # id
      <4> SUFFICES ASSUME NEW i \in 1 .. m PROVE transfers[i] # id
        OBVIOUS
      <4>1. i \in 1 .. n /\ i < m + j /\ m + j \in 1 .. n
        BY <3>2, <3>3
      <4>2. transfers[i] < transfers[m + j]
        BY ONLY <1>4, <4>1
      <4>3. transfers[i] \in Nat /\ id \in Nat
        <5>1. transfers \in Seq(Ids) /\ Ids \subseteq Nat /\ i \in 1 .. Len(transfers)
          BY <1>2, <4>1
        <5>2. transfers[i] \in Ids
          BY ONLY <5>1
        <5> QED
          BY ONLY <5>1, <5>2, id \in Ids
      <4>4. \A a, c \in Nat : a < c => a # c
        OBVIOUS
      <4>5. transfers[i] < id
        BY <3>2, <4>2
      <4> QED
        BY ONLY <4>3, <4>4, <4>5
    <3> QED
      BY <3>2, <3>4 DEF InLine, Among
  <2> QED
    BY <2>1, <2>2, <2>3
<1>7. transfers' # <<>> => Len(buf') < sizeOf'[transfers'[1]]
  <2>1. SUFFICES ASSUME transfers' # <<>> PROVE Len(buf') < sizeOf'[transfers'[1]]
    OBVIOUS
  <2>2. n - m # 0
    <3>1. transfers' = [j \in 1 .. n - m |-> transfers[m + j]]
      BY <1>1, <1>2 DEF Between
    <3> QED
      BY <2>1, <3>1
  <2>3. m < n /\ 1 \in 1 .. n - m
    BY <1>2, <2>2
  <2>4. sizeOf' = sizeOf
    BY DEF Read
  <2> QED
    BY <1>1, <1>3, <2>3, <2>4
<1> QED
  BY <1>5, <1>6, <1>7 DEF LineInv

LEMMA IssueLine ==
  ASSUME RequestInv, WireInv, StreamInv, StatusInv, LineInv,
         NEW r \in Requests, NEW n \in 1 .. MaxWords, Issue(r, n)
  PROVE  LineInv'
<1>1. /\ next \in Ids /\ next \in Nat
      /\ sizeOf' = [sizeOf EXCEPT ![next] = n] /\ buf' = buf
      /\ \/ transfers' = Append(transfers, next) /\ status' = [status EXCEPT ![next] = "pending"]
         \/ UNCHANGED <<transfers, status>>
  <2>1. next \in Ids /\ next \in Nat
    BY PacketAssumption DEF Issue, RequestInv, Ids
  <2>2. sizeOf' = [sizeOf EXCEPT ![next] = n] /\ buf' = buf
    BY DEF Issue
  <2>3. \/ transfers' = Append(transfers, next) /\ status' = [status EXCEPT ![next] = "pending"]
        \/ UNCHANGED <<transfers, status>>
    BY DEF Issue
  <2> QED
    BY <2>1, <2>2, <2>3
<1>2. /\ transfers \in Seq(Ids) /\ Ids \subseteq Nat /\ Len(transfers) \in Nat
      /\ \A j \in 1 .. Len(transfers) : transfers[j] < next /\ transfers[j] \in Ids
  <2>1. transfers \in Seq(Ids) /\ \A j \in 1 .. Len(transfers) : transfers[j] < next
    BY DEF StreamInv
  <2>2. Ids \subseteq Nat
    BY DEF Ids
  <2> QED
    BY <2>1, <2>2
<1>3. \A id \in Ids : id # next => sizeOf'[id] = sizeOf[id]
  BY <1>1 DEF RequestInv
<1>4. sizeOf'[next] = n
  BY <1>1 DEF RequestInv
<1>5. CASE UNCHANGED <<transfers, status>>
  <2>1. transfers # <<>> => sizeOf'[transfers[1]] = sizeOf[transfers[1]]
    <3>1. SUFFICES ASSUME transfers # <<>> PROVE sizeOf'[transfers[1]] = sizeOf[transfers[1]]
      OBVIOUS
    <3>2. 1 \in 1 .. Len(transfers)
      BY <1>2, <3>1
    <3>3. transfers[1] \in Ids /\ transfers[1] # next
      BY <1>1, <1>2, <3>2
    <3> QED
      BY <1>3, <3>3
  <2> QED
    BY <1>1, <1>5, <2>1 DEF LineInv, InLine
<1>6. CASE transfers' = Append(transfers, next) /\ status' = [status EXCEPT ![next] = "pending"]
  <2> DEFINE l == Len(transfers)
  <2>1. /\ Len(transfers') = l + 1 /\ transfers'[l + 1] = next
        /\ \A j \in 1 .. l : transfers'[j] = transfers[j]
    BY <1>1, <1>2, <1>6
  <2>2. l \in Nat
    BY <1>2
  <2>3. \A i, j \in 1 .. l : i < j => transfers[i] < transfers[j]
    BY DEF LineInv
  <2>4. \A j \in 1 .. l : transfers[j] < next /\ transfers[j] \in Ids
    BY <1>2
  <2> HIDE DEF l
  <2>5. \A i, j \in 1 .. l + 1 : i < j => transfers'[i] < transfers'[j]
    <3> SUFFICES ASSUME NEW i \in 1 .. l + 1, NEW j \in 1 .. l + 1, i < j
                 PROVE  transfers'[i] < transfers'[j]
      OBVIOUS
    <3>1. i \in 1 .. l
      BY <2>2
    <3>2. CASE j \in 1 .. l
      BY <2>1, <2>3, <3>1, <3>2
    <3>3. CASE j = l + 1
      BY <2>1, <2>4, <3>1, <3>3
    <3> QED
      BY <2>2, <3>2, <3>3
  <2>6. ASSUME NEW id \in Ids PROVE status'[id] = "pending" <=> InLine(id)'
    <3>1. CASE id = next
      <4>1. l + 1 \in 1 .. l + 1
        BY <2>2
      <4>2. InLine(id)'
        BY <2>1, <3>1, <4>1 DEF InLine
      <4>3. status'[id] = "pending"
        BY <1>6, <3>1 DEF StatusInv
      <4> QED
        BY <4>2, <4>3
    <3>2. CASE id # next
      <4>1. status'[id] = status[id]
        BY <1>6, <3>2 DEF StatusInv
      <4>2. InLine(id) <=> \E j \in 1 .. l : transfers[j] = id
        BY DEF InLine, l
      <4>3. InLine(id)' <=> \E j \in 1 .. l + 1 : transfers'[j] = id
        BY <2>1 DEF InLine
      <4>4. \A j \in 1 .. l + 1 : j \in 1 .. l \/ j = l + 1
        BY <2>2
      <4>5. \A j \in 1 .. l : j \in 1 .. l + 1
        BY <2>2
      <4>6. (\E j \in 1 .. l : transfers[j] = id) <=> \E j \in 1 .. l + 1 : transfers'[j] = id
        BY <2>1, <3>2, <4>4, <4>5
      <4> QED
        BY <4>1, <4>2, <4>3, <4>6 DEF LineInv
    <3> QED
      BY <3>1, <3>2
  <2>7. Len(buf') < sizeOf'[transfers'[1]]
    <3>1. CASE transfers = <<>>
      <4>1. l = 0
        BY <3>1 DEF l
      <4>2. transfers'[1] = next
        BY <2>1, <4>1
      <4>3. Len(buf) = 0
        BY <3>1, NoneInBuffer
      <4> QED
        BY <1>1, <1>4, <4>2, <4>3
    <3>2. CASE transfers # <<>>
      <4>1. 1 \in 1 .. l
        BY <1>2, <3>2 DEF l
      <4>2. transfers'[1] = transfers[1] /\ transfers[1] # next /\ transfers[1] \in Ids
        BY <1>1, <1>2, <2>1, <2>4, <4>1
      <4>3. sizeOf'[transfers[1]] = sizeOf[transfers[1]]
        BY <1>3, <4>2
      <4> QED
        BY <1>1, <3>2, <4>2, <4>3 DEF LineInv
    <3> QED
      BY <3>1, <3>2
  <2> QED
    BY <2>1, <2>5, <2>6, <2>7 DEF LineInv
<1> QED
  BY <1>1, <1>5, <1>6

LineKept == ~desync => LineInv

LEMMA InitLine == Init => LineKept
<1> SUFFICES ASSUME Init PROVE LineInv
  BY DEF LineKept
<1>1. transfers = <<>> /\ Len(<<>>) = 0 /\ status = [id \in Ids |-> "none"]
  BY EmptySeq DEF Init
<1> QED
  BY <1>1 DEF LineInv, InLine

\* Nobody waits after an exception.
LEMMA AbortLine ==
  ASSUME StatusInv, \A id \in Ids : status[id] = "pending" => InLine(id), NEW n, Abort(n)
  PROVE  LineInv'
<1>1. /\ transfers' = <<>> /\ Len(<<>>) = 0
      /\ status' = [id \in Ids |-> IF InLine(id) THEN (IF Unborn(id) THEN "none" ELSE "aborted")
                                   ELSE status[id]]
  BY EmptySeq DEF Abort, InLine
<1>2. \A id \in Ids : status'[id] # "pending"
  BY <1>1
<1>3. \A id \in Ids : ~InLine(id)'
  BY <1>1 DEF InLine
<1> QED
  BY <1>1, <1>2, <1>3 DEF LineInv

LEMMA StepLine == WholeInv /\ OwnInv /\ LineKept /\ [Next]_vars => LineKept'
<1> SUFFICES ASSUME WholeInv, OwnInv, LineKept, [Next]_vars, ~desync' PROVE LineInv'
  BY DEF LineKept
<1>0. ~desync
  BY DesyncStays
<1>1. PackInv /\ DueInv /\ RequestInv /\ WireInv /\ StatusInv /\ OrderInv
  BY DEF WholeInv
<1>2. StreamInv /\ PairInv /\ DataInv /\ LineInv
  BY <1>0 DEF OwnInv, LineKept
<1>3. CASE UNCHANGED <<sizeOf, transfers, buf, status>>
  BY <1>2, <1>3 DEF LineInv, InLine
<1>4. CASE Pack \/ PackDone \/ GetResult \/ GetAsserts \/ GetFlushes \/ Drained \/ SendNothing
           \/ Send
  BY <1>3, <1>4 DEF Pack, PackDone, GetResult, GetAsserts, GetFlushes, Drained, SendNothing,
    Send, queue
<1>5. CASE Skip \/ SkipRaises \/ Flush \/ Execute \/ (\E id \in Ids : Get(id)) \/ UNCHANGED vars
  BY <1>3, <1>5 DEF Skip, SkipRaises, Flush, Execute, Get, vars, queue
<1>6. CASE SendRaises \/ ReadFails \/ ReadRaises
  <2>1. \E n : Abort(n)
    BY <1>6 DEF SendRaises, ReadFails, ReadRaises
  <2>2. \A id \in Ids : status[id] = "pending" => InLine(id)
    BY <1>2 DEF LineInv
  <2> QED
    BY <1>1, <2>1, <2>2, AbortLine
<1>7. CASE \E r \in Requests, n \in 1 .. MaxWords : Issue(r, n)
  BY <1>1, <1>2, <1>7, IssueLine
<1>8. CASE Read
  BY <1>1, <1>2, <1>8, ReadLine
<1> QED
  BY <1>4, <1>5, <1>6, <1>7, <1>8 DEF Next, Host, Works, Caller

\* Where the thread is and what it is there for.
CallInv ==
  /\ pc \in {"idle", "pack", "send", "drain", "get", "skip"} /\ after \in {"pack", "drain"}
  /\ want \in Ids \cup {0} /\ (want # 0 => status[want] # "none")
  /\ pc \in {"idle", "pack", "skip"} \/ (pc = "send" /\ after = "pack") => want = 0
  /\ pc = "drain" => after = "drain" /\ crnt.words = <<>>
  /\ pc = "get" => want \in Ids

LEMMA InitCall == Init => CallInv
BY DEF Init, CallInv

LEMMA AbortCall ==
  ASSUME NEW n, Abort(n), CallInv PROVE CallInv'
<1>1. pc' \in {"idle", "skip"} /\ want' = 0 /\ after' = after
  BY DEF Abort
<1> QED
  BY <1>1 DEF CallInv

LEMMA StepCall == StatusInv /\ CallInv /\ [Next]_vars => CallInv'
<1> SUFFICES ASSUME StatusInv, CallInv, [Next]_vars PROVE CallInv'
  OBVIOUS
<1> USE DEF CallInv
<1>0. 0 \notin Ids
  BY DEF Ids
<1>1. CASE Pack
  BY <1>1 DEF Pack
<1>2. CASE PackDone
  BY <1>2 DEF PackDone, queue
<1>3. CASE GetResult \/ GetAsserts \/ GetFlushes
  BY <1>3 DEF GetResult, GetAsserts, GetFlushes, queue
<1>4. CASE Drained
  BY <1>4 DEF Drained, queue
<1>5. CASE SendNothing
  BY <1>5 DEF SendNothing, queue
<1>6. CASE Send
  <2>1. crnt'.words = <<>>
    BY <1>6 DEF Send, NewCommand, Empty
  <2> QED
    BY <1>6, <2>1 DEF Send
<1>7. CASE SendRaises \/ ReadFails \/ ReadRaises
  <2>1. \E n : Abort(n)
    BY <1>7 DEF SendRaises, ReadFails, ReadRaises
  <2> QED
    BY <2>1, AbortCall
<1>8. CASE Read
  <2>1. \A id \in Ids : status'[id] \in {"done", status[id]}
    BY <1>8 DEF Read, Attach
  <2>2. UNCHANGED <<pc, after, want, crnt>>
    BY <1>8 DEF Read, control
  <2> QED
    BY <2>1, <2>2
<1>9. CASE Skip \/ SkipRaises
  BY <1>9 DEF Skip, SkipRaises, queue
<1>10. CASE Execute \/ UNCHANGED vars
  BY <1>10 DEF Execute, vars, queue, control
<1>11. CASE Flush
  BY <1>11 DEF Flush, queue
<1>12. CASE \E id \in Ids : Get(id)
  BY <1>0, <1>12 DEF Get, queue
<1>13. CASE \E r \in Requests, n \in 1 .. MaxWords : Issue(r, n)
  BY <1>13 DEF Issue
<1> QED
  BY <1>1, <1>2, <1>3, <1>4, <1>5, <1>6, <1>7, <1>8, <1>9, <1>10, <1>11, <1>12, <1>13
  DEF Next, Host, Works, Caller

\* Words of requests that have been asked for.
Known(s, size, nx) == \A k \in 1 .. Len(s) : s[k][1] < nx /\ s[k][2] <= size[s[k][1]]

\* What is packed, sent or carried out was asked for, and only writes are
\* carried out.
KnownInv ==
  /\ \A id \in Reads : id < next
  /\ Known(executed, sizeOf, next) /\ Known(crnt.words, sizeOf, next)
  /\ \A j \in 1 .. Len(probe) : Known(probe[j].words, sizeOf, next)
  /\ \A k \in 1 .. Len(executed) : executed[k][1] \notin Reads

LEMMA KnownPart ==
  ASSUME NEW s, NEW t, NEW size, NEW nx, Known(t, size, nx),
         \A i \in 1 .. Len(s) : \E k \in 1 .. Len(t) : s[i] = t[k]
  PROVE  Known(s, size, nx)
BY DEF Known

LEMMA KnownBoth ==
  ASSUME NEW s \in Seq(Word), NEW t \in Seq(Word), NEW size, NEW nx,
         Known(s, size, nx), Known(t, size, nx)
  PROVE  Known(s \o t, size, nx)
<1> DEFINE u == s \o t
<1>1. /\ Len(u) = Len(s) + Len(t) /\ Len(s) \in Nat /\ Len(t) \in Nat
      /\ \A k \in 1 .. Len(s) : u[k] = s[k]
      /\ \A k \in 1 .. Len(t) : u[Len(s) + k] = t[k]
  BY ConcatParts
<1> HIDE DEF u
<1> SUFFICES ASSUME NEW k \in 1 .. Len(u) PROVE u[k][1] < nx /\ u[k][2] <= size[u[k][1]]
  BY DEF Known, u
<1>2. CASE k \in 1 .. Len(s)
  BY <1>1, <1>2 DEF Known
<1>3. CASE k \notin 1 .. Len(s)
  <2>1. k - Len(s) \in 1 .. Len(t) /\ Len(s) + (k - Len(s)) = k
    BY <1>1, <1>3
  <2>2. u[k] = t[k - Len(s)]
    BY <1>1, <2>1
  <2> QED
    BY <2>1, <2>2 DEF Known
<1> QED
  BY <1>2, <1>3

\* The words of s, and the words of it that are chosen.
LEMMA KnownChosen ==
  ASSUME NEW ws \in Seq(Word), NEW ids, NEW size, NEW nx, Known(ws, size, nx)
  PROVE  /\ Known(Chosen(ws, ids), size, nx)
         /\ \A i \in 1 .. Len(Chosen(ws, ids)) : Chosen(ws, ids)[i][1] \in ids
<1>1. Within(Chosen(ws, ids), ws, ids, Len(ws))
  BY ChosenWithin
<1> QED
  BY <1>1 DEF Within, Known

LEMMA IssueKnown ==
  ASSUME RequestInv, WireInv, KnownInv,
         NEW r \in Requests, NEW n \in 1 .. MaxWords, Issue(r, n)
  PROVE  KnownInv'
<1>1. /\ next' = next + 1 /\ reqOf' = [reqOf EXCEPT ![next] = r]
      /\ sizeOf' = [sizeOf EXCEPT ![next] = n] /\ UNCHANGED <<crnt, probe, executed>>
  BY DEF Issue, device
<1>2. next \in Ids /\ next \in Nat /\ Ids \subseteq Nat
  BY PacketAssumption DEF Issue, RequestInv, Ids
<1>3. \A id \in Ids : id # next => (id \in Reads' <=> id \in Reads) /\ sizeOf'[id] = sizeOf[id]
  BY <1>1 DEF RequestInv, Reads
<1>4. \A id \in Reads' : id < next'
  <2> SUFFICES ASSUME NEW id \in Reads' PROVE id < next'
    OBVIOUS
  <2>1. id \in Ids /\ id \in Nat
    BY <1>2 DEF Reads
  <2>2. id = next \/ id < next
    BY <1>3, <2>1 DEF KnownInv
  <2> QED
    BY <1>1, <1>2, <2>1, <2>2
<1>5. ASSUME NEW s \in Seq(Word), Known(s, sizeOf, next) PROVE Known(s, sizeOf', next')
  <2> SUFFICES ASSUME NEW k \in 1 .. Len(s) PROVE s[k][1] < next' /\ s[k][2] <= sizeOf'[s[k][1]]
    BY DEF Known
  <2>1. s[k][1] < next /\ s[k][2] <= sizeOf[s[k][1]]
    BY <1>5 DEF Known
  <2>2. s[k] \in Word
    OBVIOUS
  <2>3. s[k][1] \in Ids
    BY <2>2 DEF Word
  <2>4. s[k][1] # next /\ s[k][1] < next'
    <3>1. \A i \in Nat : i < next => i # next /\ i < next + 1
      BY <1>2
    <3>2. s[k][1] \in Nat
      BY <1>2, <2>3
    <3> QED
      BY <1>1, <2>1, <3>1, <3>2
  <2> QED
    BY <1>3, <2>1, <2>3, <2>4
<1>6. executed \in Seq(Word) /\ crnt.words \in Seq(Word)
      /\ \A j \in 1 .. Len(probe) : probe[j].words \in Seq(Word)
  BY CommandWords DEF WireInv, Command
<1>7. /\ Known(executed, sizeOf', next') /\ Known(crnt.words, sizeOf', next')
      /\ \A j \in 1 .. Len(probe) : Known(probe[j].words, sizeOf', next')
  BY <1>5, <1>6 DEF KnownInv
<1>8. ASSUME NEW k \in 1 .. Len(executed) PROVE executed[k][1] \notin Reads'
  <2>1. executed[k] \in Word
    BY <1>6
  <2>2. executed[k][1] \in Ids /\ executed[k][1] < next
    BY <2>1 DEF Word, KnownInv, Known
  <2>3. executed[k][1] # next
    BY <1>2, <2>2
  <2> QED
    BY <1>3, <2>2, <2>3 DEF KnownInv
<1> QED
  BY <1>1, <1>4, <1>7, <1>8 DEF KnownInv

LEMMA PackKnown ==
  ASSUME PackInv, RequestInv, WireInv, KnownInv, Pack PROVE KnownInv'
<1> DEFINE size == Space(crnt, reqOf[cur], rest)
<1>1. /\ rest > 0 /\ UNCHANGED <<reqOf, sizeOf, next, probe, executed>> /\ Reads' = Reads
      /\ \/ crnt' = crnt
         \/ ~(size <= 0) /\ crnt' = Added(crnt, reqOf[cur], NextWords(size))
  BY DEF Pack, device, Reads
<1>2. CASE crnt' = crnt
  BY <1>1, <1>2 DEF KnownInv
<1>3. CASE ~(size <= 0) /\ crnt' = Added(crnt, reqOf[cur], NextWords(size))
  <2>1. size \in Nat /\ size <= rest
    BY <1>1, <1>3, SpaceBounds DEF PackInv
  <2> HIDE DEF size
  <2>2. /\ NextWords(size) \in Seq(Word) /\ Len(NextWords(size)) = size
        /\ \A k \in 1 .. size : NextWords(size)[k] = <<cur, sizeOf[cur] - rest + k>>
    BY <1>1, <2>1, PackedWords
  <2>3. rest \in Nat /\ cur < next /\ sizeOf[cur] \in Nat
    BY <1>1, PacketAssumption DEF RequestInv
  <2>4. \A k \in 1 .. size : sizeOf[cur] - rest + k <= sizeOf[cur]
    BY <2>1, <2>3
  <2>5. Known(NextWords(size), sizeOf, next)
    BY <2>2, <2>3, <2>4 DEF Known
  <2>6. crnt'.words = crnt.words \o NextWords(size)
    BY <1>3 DEF Added
  <2>7. crnt.words \in Seq(Word)
    BY DEF WireInv, Command
  <2>8. Known(crnt'.words, sizeOf, next)
    BY <2>2, <2>5, <2>6, <2>7, KnownBoth DEF KnownInv
  <2> QED
    BY <1>1, <2>8 DEF KnownInv
<1> QED
  BY <1>1, <1>2, <1>3

LEMMA ExecuteKnown == ASSUME WireInv, KnownInv, Execute PROVE KnownInv'
<1>1. /\ probe # <<>> /\ probe' = Tail(probe) /\ Head(probe) \in Command
      /\ UNCHANGED <<reqOf, sizeOf, next, crnt>> /\ Reads' = Reads
  BY ProbeStep DEF Execute, queue, Reads
<1>2. PICK k \in 0 .. Len(Head(probe).words) : \E ws, d, g : Answers(Head(probe), k, ws, d, g)
  BY ProbeStep
<1>3. PICK ws, d, g : Answers(Head(probe), k, ws, d, g)
  BY <1>2
<1>4. /\ ws \in Seq(Word) /\ Len(ws) = k /\ \A m \in 1 .. k : ws[m] = Head(probe).words[m]
      /\ g = Chosen(ws, Ids \ Reads) /\ g \in Seq(Word) /\ executed' = executed \o g
  BY <1>3 DEF Answers
<1>5. /\ probe \in Seq(Command) /\ executed \in Seq(Word) /\ Len(probe) \in Nat
      /\ Head(probe).words \in Seq(Word) /\ Len(Head(probe).words) \in Nat
  <2>1. probe \in Seq(Command) /\ executed \in Seq(Word)
    BY DEF WireInv
  <2>2. Head(probe).words \in Seq(Word)
    BY <1>1 DEF Command
  <2> QED
    BY <2>1, <2>2
<1>6. Head(probe) = probe[1] /\ 1 \in 1 .. Len(probe)
  BY <1>1, <1>5, EmptySeq
<1>7. Known(Head(probe).words, sizeOf, next)
  BY <1>6 DEF KnownInv
<1>8. Known(ws, sizeOf, next)
  <2>1. \A i \in 1 .. Len(ws) : i \in 1 .. Len(Head(probe).words)
    BY <1>4, <1>5
  <2> QED
    BY <1>4, <1>7, <2>1, KnownPart
<1>9. Known(g, sizeOf, next) /\ \A i \in 1 .. Len(g) : g[i][1] \in Ids \ Reads
  BY <1>4, <1>8, KnownChosen
<1>10. Known(executed \o g, sizeOf, next)
  BY <1>4, <1>5, <1>9, KnownBoth DEF KnownInv
<1>11. \A i \in 1 .. Len(executed \o g) : (executed \o g)[i][1] \notin Reads
  <2> DEFINE u == executed \o g
  <2>1. /\ Len(u) = Len(executed) + Len(g) /\ Len(executed) \in Nat /\ Len(g) \in Nat
        /\ \A i \in 1 .. Len(executed) : u[i] = executed[i]
        /\ \A i \in 1 .. Len(g) : u[Len(executed) + i] = g[i]
    BY <1>4, <1>5, ConcatParts
  <2> HIDE DEF u
  <2> SUFFICES ASSUME NEW i \in 1 .. Len(u) PROVE u[i][1] \notin Reads
    BY DEF u
  <2>2. CASE i \in 1 .. Len(executed)
    BY <2>1, <2>2 DEF KnownInv
  <2>3. CASE i \notin 1 .. Len(executed)
    <3>1. i - Len(executed) \in 1 .. Len(g) /\ Len(executed) + (i - Len(executed)) = i
      BY <2>1, <2>3
    <3> QED
      BY <1>9, <2>1, <3>1
  <2> QED
    BY <2>2, <2>3
<1>12. \A j \in 1 .. Len(probe') : Known(probe'[j].words, sizeOf, next)
  <2>1. /\ Len(probe') = Len(probe) - 1
        /\ \A j \in 1 .. Len(probe') : probe'[j] = probe[j + 1] /\ j + 1 \in 1 .. Len(probe)
    BY <1>1, <1>5, HeadTailProperties
  <2> QED
    BY <2>1 DEF KnownInv
<1> QED
  BY <1>1, <1>4, <1>10, <1>11, <1>12 DEF KnownInv

LEMMA InitKnown == Init => KnownInv
<1> SUFFICES ASSUME Init PROVE KnownInv
  OBVIOUS
<1>1. crnt.words = <<>> /\ executed = <<>> /\ probe = <<>> /\ Len(<<>>) = 0
  BY EmptySeq DEF Init, Empty
<1>2. Reads = {}
  BY DEF Init, Reads, IsRead
<1> QED
  BY <1>1, <1>2 DEF KnownInv, Known

LEMMA StepKnown == PackInv /\ RequestInv /\ WireInv /\ KnownInv /\ [Next]_vars => KnownInv'
<1> SUFFICES ASSUME PackInv, RequestInv, WireInv, KnownInv, [Next]_vars PROVE KnownInv'
  OBVIOUS
<1>1. ASSUME UNCHANGED <<reqOf, sizeOf, next, executed>>,
             crnt' = crnt \/ crnt' = Empty,
             probe' = probe \/ probe' = Append(probe, crnt)
      PROVE  KnownInv'
  <2>1. Reads' = Reads
    BY <1>1 DEF Reads
  <2>2. Known(crnt'.words, sizeOf, next)
    <3>1. Empty.words = <<>> /\ Len(<<>>) = 0
      BY EmptySeq DEF Empty
    <3> QED
      BY <1>1, <3>1 DEF KnownInv, Known
  <2>3. \A j \in 1 .. Len(probe') : Known(probe'[j].words, sizeOf, next)
    <3>1. CASE probe' = probe
      BY <3>1 DEF KnownInv
    <3>2. CASE probe' = Append(probe, crnt)
      <4>1. probe \in Seq(Command) /\ Len(probe) \in Nat
        BY DEF WireInv
      <4>2. /\ Len(probe') = Len(probe) + 1 /\ probe'[Len(probe) + 1] = crnt
            /\ \A j \in 1 .. Len(probe) : probe'[j] = probe[j]
        BY <3>2, <4>1
      <4> SUFFICES ASSUME NEW j \in 1 .. Len(probe') PROVE Known(probe'[j].words, sizeOf, next)
        OBVIOUS
      <4>3. CASE j \in 1 .. Len(probe)
        BY <4>2, <4>3 DEF KnownInv
      <4>4. CASE j = Len(probe) + 1
        BY <4>2, <4>4 DEF KnownInv
      <4> QED
        BY <4>1, <4>2, <4>3, <4>4
    <3> QED
      BY <1>1, <3>1, <3>2
  <2> QED
    BY <1>1, <2>1, <2>2, <2>3 DEF KnownInv
<1>2. CASE PackDone \/ GetResult \/ GetAsserts \/ GetFlushes \/ Drained \/ SendNothing
  BY <1>1, <1>2 DEF PackDone, GetResult, GetAsserts, GetFlushes, Drained, SendNothing, queue,
    device
<1>3. CASE Skip \/ SkipRaises \/ Flush \/ (\E id \in Ids : Get(id)) \/ UNCHANGED vars \/ Read
  BY <1>1, <1>3 DEF Skip, SkipRaises, Flush, Get, vars, queue, device, Read
<1>4. CASE Send
  BY <1>1, <1>4 DEF Send, NewCommand
<1>5. CASE SendRaises \/ ReadFails \/ ReadRaises
  BY <1>1, <1>5 DEF SendRaises, ReadFails, ReadRaises, Abort, device
<1> QED
  BY <1>2, <1>3, <1>4, <1>5, PackKnown, ExecuteKnown, IssueKnown DEF Next, Host, Works, Caller

\* What the refinement rests on.
QueueInv == WholeInv /\ OwnInv /\ LossInv /\ LineKept /\ CallInv /\ KnownInv

LEMMA InitQueueInv == Init => QueueInv
BY InitWhole, InitOwn, InitLoss, InitLine, InitCall, InitKnown DEF QueueInv

LEMMA StepQueueInv == QueueInv /\ [Next]_vars => QueueInv'
BY StepWhole, StepOwn, StepLoss, StepLine, StepCall, StepKnown DEF QueueInv, WholeInv

\* When every response has been read and no packet is being built, no read is
\* waiting.
LEMMA NothingWaits ==
  ASSUME RequestInv, WireInv, StreamInv, LineInv, sent = <<>>, crnt.words = <<>>, rest = 0,
         NEW id \in Ids
  PROVE  status[id] # "pending"
<1>1. SUFFICES ASSUME InLine(id) PROVE FALSE
  BY DEF LineInv
<1>2. PICK W, ask, pos : /\ Stream(W, ask, transfers, sizeOf)
                         /\ Placed(W, pos, buf, sent, crnt, Reads)
                         /\ pos[Len(sent)] + crnt.rc + Unpacked = Len(W)
  BY DEF StreamInv
<1> DEFINE n == Len(transfers)
<1>3. /\ transfers \in Seq(Ids) /\ sizeOf \in [Ids -> Nat] /\ W \in Seq(Word)
      /\ n \in Nat /\ Len(W) \in Nat
  BY <1>2, StreamTypes
<1>4. n >= 1 /\ transfers # <<>>
  <2>1. PICK j \in 1 .. n : transfers[j] = id
    BY <1>1 DEF InLine
  <2>2. n >= 1
    BY <1>3, <2>1
  <2>3. Len(<<>>) = 0
    BY EmptySeq
  <2> QED
    BY <2>2, <2>3
<1>5. Len(buf) = Len(W)
  <2>1. Len(sent) = 0 /\ Unpacked = 0
    BY EmptySeq DEF Unpacked
  <2>2. crnt.rc = 0
    <3>1. Len(Chosen(crnt.words, Reads)) = crnt.rc
      BY <1>2 DEF Placed, Counted
    <3>2. Chosen(crnt.words, Reads) = <<>>
      BY ChosenNone
    <3> QED
      BY <3>1, <3>2, EmptySeq
  <2>3. pos[0] = Len(buf) /\ buf \in Seq(Word)
    BY <1>2 DEF Placed
  <2>4. Len(buf) \in Nat
    BY <2>3
  <2> QED
    BY <1>2, <1>3, <2>1, <2>2, <2>3, <2>4
<1>6. /\ \A i, j \in 0 .. n : i <= j => ask[i] <= ask[j]
      /\ \A j \in 1 .. n : sizeOf[transfers[j]] \in Nat /\ ask[j - 1] \in Nat /\ ask[j] \in Nat
  BY <1>2, <1>3, StreamGrows
<1>7. ask[0] = 0 /\ ask[n] = Len(W) /\ \A j \in 1 .. n : ask[j] = ask[j - 1] + sizeOf[transfers[j]]
  BY <1>2 DEF Stream
<1> HIDE DEF n
<1>8. 1 \in 1 .. n /\ 1 \in 0 .. n /\ n \in 0 .. n /\ 1 - 1 = 0
  BY <1>3, <1>4
<1>9. ask[1] = sizeOf[transfers[1]] /\ ask[1] <= ask[n] /\ ask[1] \in Nat
  <2>1. ask[1] = ask[0] + sizeOf[transfers[1]] /\ sizeOf[transfers[1]] \in Nat
    BY <1>6, <1>7, <1>8
  <2>2. ask[1] <= ask[n] /\ ask[1] \in Nat
    BY <1>3, <1>4, <1>6, <1>8
  <2> QED
    BY <1>7, <2>1, <2>2
<1>10. Len(buf) < sizeOf[transfers[1]]
  BY <1>4 DEF LineInv
<1> QED
  BY <1>3, <1>5, <1>7, <1>9, <1>10

-----------------------------------------------------------------------------
(* Each action is one of AccessQueue, or changes nothing that can be seen. *)

LEMMA SameReads == ASSUME reqOf' = reqOf PROVE Reads' = Reads
BY DEF Reads

\* What the code above sees.
Unseen == UNCHANGED <<next, reqOf, sizeOf, status, data, executed, owed, desync>>

LEMMA SeesNothing ==
  ASSUME Unseen, CallNow' = CallNow PROVE UNCHANGED Queue!qvars
BY SameReads DEF Unseen, Queue!qvars

LEMMA QueueIssue ==
  ASSUME QueueInv, NEW r \in Requests, NEW n \in 1 .. MaxWords, Issue(r, n)
  PROVE  Queue!AskRead(n) \/ Queue!AskWrite(n)
<1>1. /\ pc = "idle" /\ next <= MaxId /\ next' = next + 1 /\ cur' = next /\ pc' = "pack"
      /\ reqOf' = [reqOf EXCEPT ![next] = r] /\ sizeOf' = [sizeOf EXCEPT ![next] = n]
      /\ UNCHANGED <<data, executed, desync>>
  BY DEF Issue, device
<1>2. next \in Ids /\ next \in Nat
  BY <1>1, PacketAssumption DEF QueueInv, WholeInv, RequestInv, Ids
<1>3. CallNow = Queue!NoCall /\ CallNow' = [kind |-> "ask", id |-> next]
  BY <1>1 DEF CallNow, Queue!NoCall
<1>4. Queue!Ask(n)
  BY <1>1, <1>2, <1>3 DEF Queue!Ask
<1>5. next \notin Reads
  BY <1>2 DEF QueueInv, KnownInv
<1>6. reqOf \in [Ids -> Requests \cup {"none"}]
  BY DEF QueueInv, WholeInv, RequestInv
<1>7. CASE IsRead(r)
  <2>1. Reads' = Reads \union {next}
    BY <1>1, <1>2, <1>6, <1>7 DEF Reads, IsRead
  <2>2. status' = [status EXCEPT ![next] = "pending"] /\ owed' = owed
    BY <1>7 DEF Issue
  <2> QED
    BY <1>4, <2>1, <2>2 DEF Queue!AskRead
<1>8. CASE ~IsRead(r)
  <2>1. Reads' = Reads
    BY <1>1, <1>2, <1>5, <1>6, <1>8 DEF Reads, IsRead
  <2>2. status' = status /\ owed' = owed \union {<<next, k>> : k \in 1 .. n}
    BY <1>8 DEF Issue
  <2> QED
    BY <1>4, <2>1, <2>2 DEF Queue!AskWrite
<1> QED
  BY <1>7, <1>8

LEMMA QueueFlush == ASSUME CallInv, Flush PROVE Queue!StartFlush
<1>1. Unseen /\ pc = "idle" /\ want = 0 /\ pc' = "send" /\ after' = "drain" /\ want' = 0
  BY DEF Flush, queue, device, history, Unseen, CallInv
<1>2. CallNow = Queue!NoCall /\ CallNow' = [kind |-> "flush", id |-> 0]
  BY <1>1 DEF CallNow, Queue!NoCall
<1> QED
  BY <1>1, <1>2, SameReads DEF Queue!StartFlush, Unseen

LEMMA QueueGet == ASSUME CallInv, NEW id \in Ids, Get(id) PROVE Queue!StartGet(id)
<1>1. Unseen /\ pc = "idle" /\ status[id] \in {"pending", "aborted"} /\ pc' = "get" /\ want' = id
  BY DEF Get, queue, device, history, Unseen
<1>2. id # 0
  BY DEF Ids
<1>3. CallNow = Queue!NoCall /\ CallNow' = [kind |-> "get", id |-> id]
  BY <1>1, <1>2 DEF CallNow, Queue!NoCall
<1> QED
  BY <1>1, <1>3, SameReads DEF Queue!StartGet, Unseen

LEMMA QueuePacked == ASSUME PackDone PROVE Queue!Asked
<1>1. Unseen /\ pc = "pack" /\ pc' = "idle"
  BY DEF PackDone, queue, device, history, Unseen
<1>2. CallNow.kind = "ask" /\ CallNow' = Queue!NoCall
  BY <1>1 DEF CallNow, Queue!NoCall
<1> QED
  BY <1>1, <1>2, SameReads DEF Queue!Asked, Queue!Over, Unseen

LEMMA QueueGot == ASSUME QueueInv, GetResult \/ GetAsserts PROVE Queue!Got
<1>1. Unseen /\ pc = "get" /\ pc' = "idle"
  BY DEF GetResult, GetAsserts, queue, device, history, Unseen
<1>2. want \in Ids /\ want # 0 /\ status[want] # "none"
  BY <1>1 DEF QueueInv, CallInv, Ids
<1>3. CallNow = [kind |-> "get", id |-> want] /\ CallNow' = Queue!NoCall
  BY <1>1, <1>2 DEF CallNow, Queue!NoCall
<1>4. desync \/ status[want] \in {"done", "aborted"}
  <2>1. CASE GetResult
    BY <2>1 DEF GetResult
  <2>2. CASE GetAsserts
    <3>1. SUFFICES ASSUME ~desync PROVE status[want] # "pending"
      BY <1>2 DEF QueueInv, WholeInv, StatusInv
    <3>2. sent = <<>> /\ crnt.words = <<>>
      BY <2>2 DEF GetAsserts, NothingLeft
    <3>3. RequestInv /\ WireInv /\ StreamInv /\ LineInv
      BY <3>1 DEF QueueInv, WholeInv, OwnInv, LineKept
    <3>4. rest = 0
      BY <1>1, <3>3 DEF RequestInv
    <3> QED
      BY <1>2, <3>2, <3>3, <3>4, NothingWaits
  <2> QED
    BY <2>1, <2>2
<1> QED
  BY <1>1, <1>3, <1>4, SameReads DEF Queue!Got, Queue!Over, Unseen

LEMMA QueueFlushed == ASSUME QueueInv, Drained, want = 0 PROVE Queue!Flushed
<1>1. Unseen /\ pc = "drain" /\ pc' = "idle" /\ sent = <<>>
  BY DEF Drained, AllRead, queue, device, history, Unseen
<1>2. CallNow = [kind |-> "flush", id |-> 0] /\ CallNow' = Queue!NoCall
  BY <1>1 DEF CallNow, Queue!NoCall
<1>3. desync \/ /\ \A w \in owed : \E j \in 1 .. Len(executed) : executed[j] = w
                /\ \A id \in Ids : status[id] # "pending"
  <2> SUFFICES ASSUME ~desync
               PROVE  /\ \A w \in owed : \E j \in 1 .. Len(executed) : executed[j] = w
                      /\ \A id \in Ids : status[id] # "pending"
    OBVIOUS
  <2>1. RequestInv /\ WireInv /\ StreamInv /\ LineInv /\ OwedInv
    BY DEF QueueInv, WholeInv, OwnInv, LineKept, LossInv
  <2>2. crnt.words = <<>> /\ rest = 0
    BY <1>1, <2>1 DEF QueueInv, CallInv, RequestInv
  <2>3. \A id \in Ids : status[id] # "pending"
    BY <1>1, <2>1, <2>2, NothingWaits
  <2>4. ASSUME NEW w \in owed PROVE Occurs(w, executed)
    <3>1. Held(w)
      BY <2>1 DEF OwedInv
    <3>2. Len(<<>>) = 0
      BY EmptySeq
    <3> QED
      BY <1>1, <2>2, <3>1, <3>2 DEF Held, Occurs, Left
  <2> QED
    BY <2>3, <2>4 DEF Occurs
<1> QED
  BY <1>1, <1>2, <1>3, SameReads DEF Queue!Flushed, Queue!Over, Unseen

LEMMA QueueSkipped ==
  ASSUME CallInv, Skip \/ SkipRaises, pc' # "skip" PROVE Queue!Raised
<1>1. /\ UNCHANGED <<next, reqOf, sizeOf, status, data, executed, owed>>
      /\ pc = "skip" /\ pc' = "idle" /\ desync' \in {desync, TRUE}
  BY DEF Skip, SkipRaises, queue, device, history
<1>2. CallNow.kind = "raise" /\ CallNow' = Queue!NoCall
  BY <1>1 DEF CallNow, Queue!NoCall
<1> QED
  BY <1>1, <1>2, SameReads DEF Queue!Raised, Queue!Over

LEMMA QueueExecute ==
  ASSUME WholeInv, WholeInv', KnownInv', Execute PROVE Queue!CarryOut
<1>1. UNCHANGED <<pc, after, cur, want, next, reqOf, sizeOf, status, data, owed, desync>>
  BY DEF Execute, queue, control, history
<1>2. CallNow' = CallNow /\ Reads' = Reads
  BY <1>1, SameReads DEF CallNow
<1>3. executed \in Seq(Word) /\ executed' \in Seq(Word)
  BY DEF WholeInv, WireInv
<1>4. PICK g \in Seq(Word) : executed' = executed \o g
  BY ProbeStep DEF Answers, WholeInv
<1>5. /\ Len(executed) <= Len(executed')
      /\ \A j \in 1 .. Len(executed) : executed'[j] = executed[j]
  <2>1. /\ Len(executed') = Len(executed) + Len(g) /\ Len(executed) \in Nat /\ Len(g) \in Nat
        /\ \A k \in 1 .. Len(executed) : executed'[k] = executed[k]
    BY <1>3, <1>4, ConcatParts
  <2> QED
    BY <2>1
<1>6. \A i, j \in 1 .. Len(executed') : i < j => Queue!Precedes(executed'[i], executed'[j])
  <2>1. Rising(executed')
    BY DEF WholeInv, OrderInv, Ordered
  <2> QED
    BY <2>1 DEF Rising, Before, Queue!Precedes
<1>7. ASSUME NEW j \in 1 .. Len(executed') PROVE Queue!IsWrite(executed'[j])
  <2>1. executed'[j] \in Word
    BY <1>3
  <2>2. PICK i \in Ids, k \in 1 .. MaxWords : executed'[j] = <<i, k>>
    BY <2>1 DEF Word
  <2>3. /\ i < next /\ k <= sizeOf[i] /\ i \notin Reads
    BY <1>1, <1>2, <2>2 DEF KnownInv, Known
  <2>4. i \in Nat \ {0} /\ k \in Nat \ {0} /\ next \in Nat /\ sizeOf[i] \in Nat
    BY <2>2, PacketAssumption DEF Ids, WholeInv, RequestInv
  <2>5. i \in 1 .. next - 1 /\ k \in 1 .. sizeOf[i]
    BY <2>3, <2>4
  <2> QED
    BY <2>2, <2>3, <2>5 DEF Queue!IsWrite
<1> QED
  BY <1>1, <1>2, <1>5, <1>6, <1>7 DEF Queue!CarryOut

\* Of the reads in the line, the first m are those that come before the others.
LEMMA FirstInLine ==
  ASSUME LineInv, transfers \in Seq(Ids), NEW m \in 0 .. Len(transfers),
         NEW id \in Ids, Among(m, id), NEW other \in Ids, InLine(other), other < id
  PROVE  Among(m, other)
<1> DEFINE n == Len(transfers)
<1>1. PICK i \in 1 .. m : transfers[i] = id
  BY DEF Among
<1>2. PICK j \in 1 .. n : transfers[j] = other
  BY DEF InLine
<1>3. n \in Nat /\ i \in 1 .. n
  OBVIOUS
<1>4. \A a, b \in 1 .. n : a < b => transfers[a] < transfers[b]
  BY DEF LineInv
<1>5. id \in Nat /\ other \in Nat
  BY DEF Ids
<1> HIDE DEF n
<1>6. ~(i < j)
  <2>1. SUFFICES ASSUME i < j PROVE FALSE
    OBVIOUS
  <2>2. id < other
    BY <1>1, <1>2, <1>3, <1>4, <2>1
  <2> QED
    BY ONLY <1>5, <2>2, other < id
<1>7. j \in 1 .. m
  BY <1>2, <1>3, <1>6
<1> QED
  BY <1>2, <1>7 DEF Among

LEMMA QueueRead == ASSUME QueueInv, QueueInv', Read PROVE Queue!Answer
<1>1. /\ UNCHANGED <<pc, after, cur, want, next, reqOf, sizeOf, executed, owed, desync>>
      /\ pc \in {"send", "drain", "get"}
  BY DEF Read, Reading, control, history
<1>2. CallNow' = CallNow /\ Reads' = Reads
  BY <1>1, SameReads DEF CallNow
<1>3. Queue!Working
  BY <1>1 DEF Queue!Working, CallNow
<1>4. ASSUME ~desync
      PROVE  \E served \in SUBSET {id \in Ids : status[id] = "pending"} :
               /\ \A id \in served, other \in Ids :
                    status[other] = "pending" /\ other < id => other \in served
               /\ status' = [id \in Ids |-> IF id \in served THEN "done" ELSE status[id]]
               /\ data' = [id \in Ids |-> IF id \in served
                                          THEN [k \in 1 .. sizeOf[id] |-> <<id, k>>]
                                          ELSE data[id]]
  <2>1. DueInv /\ RequestInv /\ WireInv /\ StreamInv /\ PairInv /\ LineInv /\ DataInv'
    BY <1>1, <1>4 DEF QueueInv, WholeInv, OwnInv, LineKept
  <2>2. PICK m \in 0 .. Len(transfers) :
          /\ status' = [id \in Ids |-> IF Among(m, id) THEN "done" ELSE status[id]]
          /\ data' \in [Ids -> {data'[id] : id \in Ids}]
          /\ \A id \in Ids : ~Among(m, id) => data'[id] = data[id]
    BY <2>1, ReadMarks
  <2> DEFINE served == {id \in Ids : Among(m, id)}
  <2>3. transfers \in Seq(Ids)
    BY <2>1 DEF StreamInv
  <2>4. served \in SUBSET {id \in Ids : status[id] = "pending"}
    <3> SUFFICES ASSUME NEW id \in Ids, Among(m, id) PROVE status[id] = "pending"
      OBVIOUS
    <3>1. InLine(id)
      BY <2>3 DEF Among, InLine
    <3> QED
      BY <2>1, <3>1 DEF LineInv
  <2>5. \A id \in served, other \in Ids :
          status[other] = "pending" /\ other < id => other \in served
    <3> SUFFICES ASSUME NEW id \in Ids, Among(m, id), NEW other \in Ids,
                        status[other] = "pending", other < id
                 PROVE  Among(m, other)
      OBVIOUS
    <3>1. InLine(other)
      BY <2>1 DEF LineInv
    <3> QED
      BY <2>1, <2>3, <3>1, FirstInLine
  <2>6. \A id \in Ids : id \in served <=> Among(m, id)
    OBVIOUS
  <2> HIDE DEF served
  <2>7. status' = [id \in Ids |-> IF id \in served THEN "done" ELSE status[id]]
    BY <2>2, <2>6
  <2>8. \A id \in Ids : data'[id] = IF id \in served THEN [k \in 1 .. sizeOf[id] |-> <<id, k>>]
                                    ELSE data[id]
    <3> SUFFICES ASSUME NEW id \in Ids
                 PROVE  data'[id] = IF id \in served THEN [k \in 1 .. sizeOf[id] |-> <<id, k>>]
                                    ELSE data[id]
      OBVIOUS
    <3>1. CASE id \in served
      <4>1. status'[id] = "done"
        BY <2>7, <3>1
      <4>2. data'[id] = WordsOf(id, sizeOf[id])
        BY <1>1, <2>1, <4>1 DEF DataInv
      <4> QED
        BY <3>1, <4>2 DEF WordsOf
    <3>2. CASE id \notin served
      BY <2>2, <2>6, <3>2
    <3> QED
      BY <3>1, <3>2
  <2>9. data' = [id \in Ids |-> IF id \in served THEN [k \in 1 .. sizeOf[id] |-> <<id, k>>]
                                ELSE data[id]]
    BY <2>2, <2>8
  <2> QED
    BY <2>4, <2>5, <2>7, <2>9
<1> QED
  BY <1>1, <1>2, <1>3, <1>4 DEF Queue!Answer

LEMMA QueueRaise ==
  ASSUME QueueInv, SendRaises \/ ReadFails \/ ReadRaises PROVE Queue!Raise
<1>1. PICK n : Abort(n)
  BY DEF SendRaises, ReadFails, ReadRaises
<1>2. /\ pc' \in {"idle", "skip"} /\ owed' = {}
      /\ UNCHANGED <<next, reqOf, sizeOf, data>>
      /\ status' = [id \in Ids |-> IF InLine(id) THEN (IF Unborn(id) THEN "none" ELSE "aborted")
                                   ELSE status[id]]
  BY <1>1 DEF Abort, InLine
<1>3. pc \in {"send", "drain", "get"} /\ executed' = executed
  BY DEF SendRaises, ReadFails, ReadRaises, Reading, device
<1>4. Queue!Working
  BY <1>3 DEF Queue!Working, CallNow
<1>5. CallNow' \in {Queue!NoCall, [kind |-> "raise", id |-> 0]}
  BY <1>2 DEF CallNow, Queue!NoCall
<1>6. desync' \in {desync, TRUE}
  <2>1. desync \in BOOLEAN
    BY DEF QueueInv, WholeInv, DueInv
  <2>2. desync' \in BOOLEAN /\ (desync => desync')
    BY DEF SendRaises, ReadFails, ReadRaises
  <2> QED
    BY <2>1, <2>2
<1>7. \A id \in Ids : Unborn(id) <=> CallNow = [kind |-> "ask", id |-> id]
  <2> SUFFICES ASSUME NEW id \in Ids PROVE Unborn(id) <=> CallNow = [kind |-> "ask", id |-> id]
    OBVIOUS
  <2>1. CASE pc = "send" /\ after = "pack"
    <3>1. CallNow = [kind |-> "ask", id |-> cur]
      BY <2>1 DEF CallNow
    <3> QED
      BY <2>1, <3>1 DEF Unborn
  <2>2. CASE ~(pc = "send" /\ after = "pack")
    <3>1. CallNow.kind # "ask"
      BY <1>3, <2>2 DEF CallNow
    <3> QED
      BY <2>2, <3>1 DEF Unborn
  <2> QED
    BY <2>1, <2>2
<1>8. \/ desync
      \/ status' = [id \in Ids |->
                      IF status[id] # "pending" THEN status[id]
                      ELSE IF CallNow = [kind |-> "ask", id |-> id] THEN "none" ELSE "aborted"]
  <2> SUFFICES ASSUME ~desync
               PROVE  status' = [id \in Ids |->
                      IF status[id] # "pending" THEN status[id]
                      ELSE IF CallNow = [kind |-> "ask", id |-> id] THEN "none" ELSE "aborted"]
    OBVIOUS
  <2>1. \A id \in Ids : status[id] = "pending" <=> InLine(id)
    BY DEF QueueInv, LineKept, LineInv
  <2> QED
    BY <1>2, <1>7, <2>1
<1> QED
  BY <1>2, <1>3, <1>4, <1>5, <1>6, <1>8, SameReads DEF Queue!Raise

\* Every step of the queue is one of AccessQueue, or nothing that can be seen.
LEMMA StepQueue ==
  QueueInv /\ QueueInv' /\ [Next]_vars => [Queue!QNext]_(Queue!qvars)
<1> SUFFICES ASSUME QueueInv, QueueInv', [Next]_vars PROVE [Queue!QNext]_(Queue!qvars)
  OBVIOUS
<1>0. /\ CallInv /\ CallInv' /\ WholeInv /\ WholeInv' /\ KnownInv'
  BY DEF QueueInv
<1>1. CASE \E r \in Requests, n \in 1 .. MaxWords : Issue(r, n)
  BY <1>1, QueueIssue DEF Queue!QNext
<1>2. CASE Flush
  BY <1>0, <1>2, QueueFlush DEF Queue!QNext
<1>3. CASE \E id \in Ids : Get(id)
  BY <1>0, <1>3, QueueGet DEF Queue!QNext
<1>4. CASE PackDone
  BY <1>4, QueuePacked DEF Queue!QNext
<1>5. CASE GetResult \/ GetAsserts
  BY <1>5, QueueGot DEF Queue!QNext
<1>6. CASE Drained
  <2>1. CASE want = 0
    BY <1>6, <2>1, QueueFlushed DEF Queue!QNext
  <2>2. CASE want # 0
    <3>1. Unseen /\ pc = "drain" /\ pc' = "get" /\ UNCHANGED <<after, cur, want>>
      BY <1>6, <2>2 DEF Drained, queue, device, history, Unseen
    <3>2. CallNow' = CallNow
      BY <2>2, <3>1 DEF CallNow
    <3> QED
      BY <3>1, <3>2, SeesNothing
  <2> QED
    BY <2>1, <2>2
<1>7. CASE Skip \/ SkipRaises
  <2>1. CASE pc' # "skip"
    BY <1>0, <1>7, <2>1, QueueSkipped DEF Queue!QNext
  <2>2. CASE pc' = "skip"
    <3>1. Unseen /\ pc = "skip"
      BY <1>7, <2>2 DEF Skip, SkipRaises, queue, device, history, Unseen
    <3>2. CallNow' = CallNow
      BY <2>2, <3>1 DEF CallNow
    <3> QED
      BY <3>1, <3>2, SeesNothing
  <2> QED
    BY <2>1, <2>2
<1>8. CASE SendRaises \/ ReadFails \/ ReadRaises
  BY <1>8, QueueRaise DEF Queue!QNext
<1>9. CASE Read
  BY <1>9, QueueRead DEF Queue!QNext
<1>10. CASE Execute
  BY <1>0, <1>10, QueueExecute DEF Queue!QNext
<1>11. CASE Pack
  <2>1. Unseen /\ UNCHANGED <<cur, want>> /\ pc = "pack"
        /\ (pc' = "pack" \/ (pc' = "send" /\ after' = "pack"))
    BY <1>11 DEF Pack, device, history, Unseen
  <2>2. CallNow' = CallNow
    BY <2>1 DEF CallNow
  <2> QED
    BY <2>1, <2>2, SeesNothing
<1>12. CASE GetFlushes
  <2>1. Unseen /\ UNCHANGED <<cur, want>> /\ pc = "get" /\ pc' = "send" /\ after' = "drain"
    BY <1>12 DEF GetFlushes, queue, device, history, Unseen
  <2>2. want # 0
    BY <1>0, <2>1 DEF CallInv, Ids
  <2>3. CallNow' = CallNow
    BY <2>1, <2>2 DEF CallNow
  <2> QED
    BY <2>1, <2>3, SeesNothing
<1>13. CASE SendNothing \/ Send
  <2>1. Unseen /\ UNCHANGED <<cur, want, after>> /\ pc = "send" /\ pc' = after
    BY <1>13 DEF SendNothing, Send, queue, device, history, Unseen
  <2>2. CallNow' = CallNow
    BY <1>0, <2>1 DEF CallNow, CallInv
  <2> QED
    BY <2>1, <2>2, SeesNothing
<1>14. CASE UNCHANGED vars
  <2>1. Unseen /\ CallNow' = CallNow
    BY <1>14 DEF vars, queue, control, device, history, Unseen, CallNow
  <2> QED
    BY <2>1, SeesNothing
<1> QED
  BY <1>1, <1>2, <1>3, <1>4, <1>5, <1>6, <1>7, <1>8, <1>9, <1>10, <1>11, <1>12, <1>13, <1>14
  DEF Next, Host, Works, Caller

LEMMA InitQueue == Init => Queue!QInit
<1> SUFFICES ASSUME Init PROVE Queue!QInit
  OBVIOUS
<1>1. CallNow = Queue!NoCall
  BY DEF Init, CallNow, Queue!NoCall
<1>2. Reads = {}
  BY DEF Init, Reads, IsRead
<1> QED
  BY <1>1, <1>2 DEF Init, Queue!QInit

\* To the code above (read_reg, write_reg, flush, get_result), packets, the window,
\* the buffer of responses and the handling of errors are a queue that keeps the
\* promise of AccessQueue, for every packet size, window and number of requests.
THEOREM ImplementsQueue == Spec => KeepsQueue
<1>1. Init => QueueInv
  BY InitQueueInv
<1>2. QueueInv /\ [Next]_vars => QueueInv'
  BY StepQueueInv
<1>3. Init => Queue!QInit
  BY InitQueue
<1>4. QueueInv /\ QueueInv' /\ [Next]_vars => [Queue!QNext]_(Queue!qvars)
  BY StepQueue
<1> QED
  BY <1>1, <1>2, <1>3, <1>4, PTL DEF Spec, KeepsQueue, Queue!QSpec
=============================================================================
