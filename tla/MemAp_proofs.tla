---------------------------- MODULE MemAp_proofs ----------------------------
(***************************************************************************)
(* What is proved of MemAp for every page size, every range of bytes and   *)
(* every bound: the pieces fit, the remembered registers are right, every  *)
(* access reaches the bytes it was meant for, a read returns the bytes     *)
(* that were asked for, and a flush leaves nothing unwritten.              *)
(*                                                                         *)
(* The invariant speaks of the queue as a whole: for each access in it,    *)
(* what SELECT, CSW and TAR will hold when its turn comes.                 *)
(***************************************************************************)
EXTENDS MemAp, SequenceTheorems, TLAPS

Registers == {"none", "id", "clear", "sel", "power", "dp", "apid", "csw", "tar", "drw"}

AccessType ==
  [reg : Registers, v : Int, w : Nat, n : Nat \ {0}, read : BOOLEAN, blk : BOOLEAN]

PortType == [sel : Int, csw : Int, tar : Int, up : BOOLEAN, sticky : BOOLEAN]

CallType ==
  [kind : {"none", "read", "write", "flush", "reset", "reconnect"}, start : Nat, len : Nat]

Transfers == {"read", "write"}

\* The types, and how far a call has come where.
TypeOK ==
  /\ csw \in Int /\ select \in Int
  /\ call \in CallType
  /\ stage \in 1 .. 6 /\ at \in Nat /\ left \in Nat
  /\ todo \in Seq(AccessType)
  /\ pc \in {"idle", "piece", "access", "drain", "raise", "return"}
  /\ queue \in Seq(AccessType) /\ sent \in 0 .. Len(queue)
  /\ failed \in {"none", "fault", "other"}
  /\ port \in PortType
  /\ doubt \in BOOLEAN /\ misplaced \in BOOLEAN

\* Bytes lie in one page.
OnePage(a, n) == a \div PageSize = (a + n - 1) \div PageSize

\* The splitting: the rest begins where it should, aligned as its stage needs.
Splitting ==
  /\ pc = "piece" => call.kind \in Transfers
  /\ call.kind \in Transfers =>
       /\ at + left = call.start + call.len
       /\ stage \in 2 .. 4 /\ left > 0 => at % 2 = 0
       /\ stage \in {3, 4} /\ left > 1 => at % 4 = 0

\* The accesses of a piece that are left: its width, its address, its data.
PieceLeft(t) ==
  LET d == t[Len(t)]
  IN /\ Len(t) \in 1 .. 3
     /\ d.reg = "drw" /\ d.w \in Widths /\ d.v \in Nat /\ OnePage(d.v, d.n * d.w)
     /\ Len(t) >= 2 => LET r == t[Len(t) - 1] IN r.reg = "tar" /\ r.v = d.v /\ r.n = 1 /\ ~r.read
     /\ Len(t) = 3 => t[1].reg = "csw" /\ t[1].v = d.w /\ t[1].n = 1 /\ ~t[1].read

\* The other calls access no data.
NoData(t) == \A j \in 1 .. Len(t) : t[j].reg \notin {"csw", "tar", "drw"} /\ t[j].n = 1

Plans ==
  /\ pc = "raise" => failed # "none"
  /\ pc \in {"access", "drain", "raise"} =>
       /\ todo # <<>>
       /\ IF call.kind \in Transfers THEN PieceLeft(todo) ELSE NoData(todo)
  /\ pc = "drain" /\ call.kind \in Transfers => Len(todo) = 1

\* What register "reg" holds when the i-th access of q has its turn is v.
Before(q, reg, now, i, v) ==
  \/ /\ now = v
     /\ \A j \in 1 .. i - 1 : q[j].reg # reg
  \/ \E j \in 1 .. i - 1 :
       /\ q[j].reg = reg /\ q[j].v = v
       /\ \A k \in j + 1 .. i - 1 : q[k].reg # reg

\* What leaves TAR where the i-th access needs it: TAR itself, or the access before.
TarBefore(q, now, i, v) ==
  IF i = 1 THEN now = v
  ELSE \/ q[i - 1].reg = "tar" /\ q[i - 1].v = v
       \/ q[i - 1].reg = "drw" /\ Incremented(q[i - 1].v, q[i - 1].w) = v

\* The i-th access of q will be as it was meant.
WillFit(q, p, i) ==
  /\ IsAP(q[i]) => Before(q, "sel", p.sel, i, Bank(q[i]))
  /\ q[i].reg = "drw" => /\ Before(q, "csw", p.csw, i, q[i].w)
                         /\ TarBefore(q, p.tar, i, q[i].v)

QueueFits(q, p) == \A i \in 1 .. Len(q) : WillFit(q, p, i)

CachesFit(q, p) ==
  /\ csw # Unknown => Before(q, "csw", p.csw, Len(q) + 1, csw)
  /\ select # Unknown => Before(q, "sel", p.sel, Len(q) + 1, select)

\* The data of a piece comes right behind its address.
DataNext ==
  pc = "access" /\ call.kind \in Transfers =>
    LET d == todo[Len(todo)]
    IN /\ Len(todo) <= 2 => csw = d.w
       /\ Len(todo) = 1 => select = 0 /\ TarBefore(queue, port.tar, Len(queue) + 1, d.v)

Good == ~doubt /\ failed = "none"

IInv ==
  /\ TypeOK /\ Splitting /\ Plans
  /\ Good => QueueFits(queue, port) /\ CachesFit(queue, port) /\ DataNext
  /\ AccessAsMeant

-----------------------------------------------------------------------------
(* Addresses and pages.                                                    *)

LEMMA PageSizeFact == PageSize \in Nat \ {0} /\ PageSize % 4 = 0
BY MemApAssumption

\* A number is a whole number of pages and a rest.
LEMMA Division ==
  ASSUME NEW a \in Nat
  PROVE  /\ a \div PageSize \in Nat /\ a % PageSize \in 0 .. PageSize - 1
         /\ a = (PageSize * (a \div PageSize)) + (a % PageSize)
BY PageSizeFact, Z3

\* A number between two neighbouring multiples of the page size.
LEMMA Quotient ==
  ASSUME NEW q \in Nat, NEW r \in 0 .. PageSize - 1
  PROVE  /\ ((PageSize * q) + r) \div PageSize = q
         /\ ((PageSize * q) + r) % PageSize = r
BY PageSizeFact, Z3

\* The bytes up to the end of the page are in the page.
LEMMA RoomInPage ==
  ASSUME NEW a \in Nat, NEW n \in Nat \ {0}, n <= PageRoom(a)
  PROVE  OnePage(a, n)
<1> DEFINE q == a \div PageSize
           r == a % PageSize
<1>1. q \in Nat /\ r \in 0 .. PageSize - 1 /\ a = (PageSize * q) + r
  BY Division
<1>2. r + n - 1 \in 0 .. PageSize - 1
  BY <1>1, PageSizeFact DEF PageRoom
<1>3. PageSize * q \in Nat
  BY <1>1, PageSizeFact
<1>4. a + n - 1 = (PageSize * q) + (r + n - 1)
  BY <1>1, <1>3
<1>5. (a + n - 1) \div PageSize = q
  BY <1>1, <1>2, <1>4, Quotient
<1> QED
  BY <1>5 DEF OnePage

\* From an aligned address the page has room for a halfword, or for words.
LEMMA AlignedRoom ==
  ASSUME NEW a \in Nat
  PROVE  /\ PageRoom(a) \in Nat \ {0}
         /\ a % 2 = 0 => PageRoom(a) >= 2
         /\ a % 4 = 0 => PageRoom(a) % 4 = 0 /\ PageRoom(a) >= 4
<1> DEFINE q == a \div PageSize
           r == a % PageSize
           c == PageSize \div 4
<1>1. q \in Nat /\ r \in 0 .. PageSize - 1 /\ a = (PageSize * q) + r
  BY Division
<1>2. c \in Nat /\ PageSize = 4 * c
  BY PageSizeFact
<1>3. c * q \in Nat
  BY <1>1, <1>2
<1>4. PageSize * q = 4 * (c * q)
  BY <1>1, <1>2
<1>5. PageRoom(a) = PageSize - r
  BY DEF PageRoom
<1> HIDE DEF q, r, c
<1>6. (a % 2 = 0 => r % 2 = 0) /\ (a % 4 = 0 => r % 4 = 0)
  BY <1>1, <1>3, <1>4, PageSizeFact
<1> QED
  BY <1>1, <1>2, <1>5, <1>6, PageSizeFact

\* Within a page TAR is incremented to the next data.
LEMMA NextInPage ==
  ASSUME NEW a \in Nat, NEW n \in Nat, OnePage(a, n),
         NEW b \in Nat, NEW w \in Nat, a <= b, b + w < a + n
  PROVE  Incremented(b, w) = b + w
<1> DEFINE q == a \div PageSize
           r == a % PageSize
           s == (a + n - 1) % PageSize
           t == b - (PageSize * q)
<1>1. q \in Nat /\ r \in 0 .. PageSize - 1 /\ a = (PageSize * q) + r
  BY Division
<1>2. n > 0 /\ a + n - 1 \in Nat
  OBVIOUS
<1>3. s \in 0 .. PageSize - 1 /\ a + n - 1 = (PageSize * q) + s
  BY <1>2, Division DEF OnePage
<1>4. PageSize * q \in Nat /\ t = b - (PageSize * q)
  BY <1>1, PageSizeFact
<1> HIDE DEF q, r, s, t
<1>5. t \in 0 .. PageSize - 1 /\ t + w \in 0 .. PageSize - 1
  BY <1>1, <1>2, <1>3, <1>4, PageSizeFact
<1>6. b \div PageSize = q
  <2>1. b = (PageSize * q) + t
    BY <1>4, <1>5
  <2> QED
    BY <2>1, <1>1, <1>5, Quotient
<1>7. (b + w) % PageSize = t + w
  <2>1. b + w = (PageSize * q) + (t + w)
    BY <1>1, <1>4, <1>5
  <2> QED
    BY <2>1, <1>1, <1>5, Quotient
<1> QED
  BY <1>1, <1>4, <1>5, <1>6, <1>7, PageSizeFact DEF Incremented

\* So it is for the words of a piece.
LEMMA NextWord ==
  ASSUME NEW v \in Nat, NEW w \in Widths, NEW n \in Nat \ {0}, OnePage(v, n * w),
         NEW k \in 2 .. n
  PROVE  Incremented(v + ((k - 1) - 1) * w, w) = v + (k - 1) * w
<1>1. CASE w = 1
  <2> DEFINE x == 1 * (k - 2)
             m == 1 * n
  <2>1. x \in Nat /\ x + 1 < m /\ m \in Nat
    OBVIOUS
  <2>2. OnePage(v, m)
    BY <1>1
  <2> HIDE DEF x, m
  <2>3. Incremented(v + x, 1) = v + x + 1
    <3>1. v + x \in Nat /\ v <= v + x /\ (v + x) + 1 < v + m
      BY <2>1
    <3> QED
      BY <2>1, <2>2, <3>1, NextInPage
  <2>4. x = ((k - 1) - 1) * 1 /\ x + 1 = (k - 1) * 1
    BY DEF x
  <2> QED
    BY <1>1, <2>1, <2>3, <2>4
<1>2. CASE w = 2
  <2> DEFINE x == 2 * (k - 2)
             m == 2 * n
  <2>1. x \in Nat /\ x + 2 < m /\ m \in Nat
    OBVIOUS
  <2>2. OnePage(v, m)
    BY <1>2
  <2> HIDE DEF x, m
  <2>3. Incremented(v + x, 2) = v + x + 2
    <3>1. v + x \in Nat /\ v <= v + x /\ (v + x) + 2 < v + m
      BY <2>1
    <3> QED
      BY <2>1, <2>2, <3>1, NextInPage
  <2>4. x = ((k - 1) - 1) * 2 /\ x + 2 = (k - 1) * 2
    BY DEF x
  <2> QED
    BY <1>2, <2>1, <2>3, <2>4
<1>3. CASE w = 4
  <2> DEFINE x == 4 * (k - 2)
             m == 4 * n
  <2>1. x \in Nat /\ x + 4 < m /\ m \in Nat
    OBVIOUS
  <2>2. OnePage(v, m)
    BY <1>3
  <2> HIDE DEF x, m
  <2>3. Incremented(v + x, 4) = v + x + 4
    <3>1. v + x \in Nat /\ v <= v + x /\ (v + x) + 4 < v + m
      BY <2>1
    <3> QED
      BY <2>1, <2>2, <3>1, NextInPage
  <2>4. x = ((k - 1) - 1) * 4 /\ x + 4 = (k - 1) * 4
    BY DEF x
  <2> QED
    BY <1>3, <2>1, <2>3, <2>4
<1> QED
  BY <1>1, <1>2, <1>3 DEF Widths

-----------------------------------------------------------------------------
(* What the registers will hold.                                           *)

\* The last write of the register.
LEMMA BeforeLast ==
  ASSUME NEW q, NEW reg, NEW now, NEW i \in Int, NEW v, NEW j \in 1 .. i - 1,
         q[j].reg = reg, q[j].v = v, \A k \in j + 1 .. i - 1 : q[k].reg # reg
  PROVE  Before(q, reg, now, i, v)
BY DEF Before

\* What comes later does not matter.
LEMMA BeforeMore ==
  ASSUME NEW q \in Seq(AccessType), NEW r \in Seq(AccessType),
         NEW reg, NEW now, NEW v, NEW i \in 1 .. Len(q) + 1,
         Before(q, reg, now, i, v)
  PROVE  Before(q \o r, reg, now, i, v)
<1>1. \A j \in 1 .. i - 1 : (q \o r)[j] = q[j]
  OBVIOUS
<1> QED
  BY <1>1 DEF Before

\* Nor do new accesses to other registers.
LEMMA BeforeNew ==
  ASSUME NEW q \in Seq(AccessType), NEW r \in Seq(AccessType),
         NEW reg, NEW now, NEW v, NEW k \in 1 .. Len(r) + 1,
         Before(q, reg, now, Len(q) + 1, v),
         \A j \in 1 .. k - 1 : r[j].reg # reg
  PROVE  Before(q \o r, reg, now, Len(q) + k, v)
<1> DEFINE s == q \o r
           i == Len(q) + k
<1>1. i \in Int /\ i - 1 >= Len(q) /\ Len(q) \in Nat /\ (Len(q) + 1) - 1 = Len(q)
  OBVIOUS
<1>2. \A j \in 1 .. Len(q) : s[j] = q[j]
  OBVIOUS
<1>3. \A j \in Len(q) + 1 .. i - 1 : s[j].reg # reg
  OBVIOUS
<1> HIDE DEF s, i
<1>4. CASE now = v /\ \A j \in 1 .. Len(q) : q[j].reg # reg
  <2>0. \A j \in 1 .. i - 1 : j \in 1 .. Len(q) \/ j \in Len(q) + 1 .. i - 1
    BY <1>1
  <2>1. \A j \in 1 .. i - 1 : s[j].reg # reg
    BY <1>2, <1>3, <1>4, <2>0
  <2>2. Before(s, reg, now, i, v)
    BY <2>1, <1>4 DEF Before
  <2> QED
    BY <2>2 DEF s, i
<1>5. ASSUME NEW j \in 1 .. Len(q), q[j].reg = reg, q[j].v = v,
             \A l \in j + 1 .. Len(q) : q[l].reg # reg
      PROVE  Before(q \o r, reg, now, Len(q) + k, v)
  <2>1. \A l \in j + 1 .. i - 1 : s[l].reg # reg
    BY <1>1, <1>2, <1>3, <1>5
  <2>2. j \in 1 .. i - 1 /\ s[j] = q[j]
    BY <1>1, <1>2
  <2>3. Before(s, reg, now, i, v)
    BY <1>1, <1>5, <2>1, <2>2, BeforeLast
  <2> QED
    BY <2>3 DEF s, i
<1> QED
  BY <1>1, <1>4, <1>5 DEF Before

\* A new write of the register decides.
LEMMA BeforeWritten ==
  ASSUME NEW q \in Seq(AccessType), NEW r \in Seq(AccessType),
         NEW reg, NEW now, NEW v, NEW k \in 1 .. Len(r) + 1,
         NEW m \in 1 .. k - 1, r[m].reg = reg, r[m].v = v,
         \A j \in m + 1 .. k - 1 : r[j].reg # reg
  PROVE  Before(q \o r, reg, now, Len(q) + k, v)
<1> DEFINE s == q \o r
           i == Len(q) + k
           l == Len(q) + m
<1>1. i \in Int /\ l \in 1 .. i - 1 /\ s[l] = r[m]
  OBVIOUS
<1>2. \A j \in l + 1 .. i - 1 : s[j].reg # reg
  OBVIOUS
<1> HIDE DEF s, i, l
<1>3. Before(s, reg, now, i, v)
  BY <1>1, <1>2, BeforeLast
<1> QED
  BY <1>3 DEF s, i

\* When the first access is carried out, what it wrote is there.
LEMMA BeforeTail ==
  ASSUME NEW q \in Seq(AccessType), q # <<>>,
         NEW reg, NEW now, NEW now2, NEW v, NEW i \in 2 .. Len(q) + 1,
         Before(q, reg, now, i, v),
         now2 = IF Head(q).reg = reg THEN Head(q).v ELSE now
  PROVE  Before(Tail(q), reg, now2, i - 1, v)
<1>1. \A j \in 1 .. i - 2 : Tail(q)[j] = q[j + 1]
  OBVIOUS
<1>2. Head(q) = q[1]
  OBVIOUS
<1>3. CASE now = v /\ \A j \in 1 .. i - 1 : q[j].reg # reg
  <2>1. now2 = v
    BY <1>2, <1>3
  <2>2. \A j \in 1 .. i - 2 : Tail(q)[j].reg # reg
    BY <1>1, <1>3
  <2> QED
    BY <2>1, <2>2 DEF Before
<1>4. CASE \E j \in 1 .. i - 1 :
             /\ q[j].reg = reg /\ q[j].v = v
             /\ \A k \in j + 1 .. i - 1 : q[k].reg # reg
  <2>1. PICK j \in 1 .. i - 1 :
             /\ q[j].reg = reg /\ q[j].v = v
             /\ \A k \in j + 1 .. i - 1 : q[k].reg # reg
    BY <1>4
  <2>2. \A k \in j .. i - 2 : Tail(q)[k].reg # reg
    BY <1>1, <2>1
  <2>3. CASE j = 1
    BY <1>2, <2>1, <2>2, <2>3 DEF Before
  <2>4. CASE j > 1
    <3>1. j - 1 \in 1 .. i - 2 /\ Tail(q)[j - 1] = q[j]
      BY <1>1, <2>4
    <3>2. \A k \in (j - 1) + 1 .. (i - 1) - 1 : Tail(q)[k].reg # reg
      BY <2>2
    <3> QED
      BY <2>1, <3>1, <3>2 DEF Before
  <2> QED
    BY <2>3, <2>4
<1> QED
  BY <1>3, <1>4 DEF Before

-----------------------------------------------------------------------------
(* The splitting.                                                          *)

LEMMA Halves == \A a \in Nat : a % 4 = 0 => a % 2 = 0
OBVIOUS

LEMMA PieceFacts ==
  ASSUME TypeOK, Splitting, pc = "piece", stage <= 5,
         NEW n, n = Taken(stage, at, left), n # 0
  PROVE  /\ n \in Nat \ {0} /\ n <= left
         /\ Width(stage) \in Widths
         /\ n % Width(stage) = 0 /\ at % Width(stage) = 0
         /\ OnePage(at, n)
<1>1. /\ stage \in 1 .. 5 /\ at \in Nat /\ left \in Nat
      /\ stage \in 2 .. 4 /\ left > 0 => at % 2 = 0
      /\ stage \in {3, 4} /\ left > 1 => at % 4 = 0
  BY DEF TypeOK, Splitting
<1>2. /\ PageRoom(at) \in Nat \ {0}
      /\ at % 2 = 0 => PageRoom(at) >= 2
      /\ at % 4 = 0 => PageRoom(at) % 4 = 0 /\ PageRoom(at) >= 4
  BY <1>1, AlignedRoom
<1>3. SUFFICES /\ n \in Nat \ {0} /\ n <= left
               /\ Width(stage) \in Widths
               /\ n % Width(stage) = 0 /\ at % Width(stage) = 0
               /\ n <= PageRoom(at)
  BY <1>1, RoomInPage
<1>4. CASE stage = 1
  BY <1>1, <1>2, <1>4 DEF Taken, Width, Widths
<1>5. CASE stage = 2
  BY <1>1, <1>2, <1>5 DEF Taken, Width, Widths
<1>6. CASE stage = 3
  <2>1. n = Least(PageRoom(at), 4 * (left \div 4)) /\ left >= 4
    BY <1>1, <1>6 DEF Taken
  <2>2. at % 4 = 0
    BY <1>1, <1>6, <2>1
  <2> QED
    BY <1>1, <1>2, <1>6, <2>1, <2>2 DEF Width, Widths, Least
<1>7. CASE stage = 4
  BY <1>1, <1>2, <1>7, Halves DEF Taken, Width, Widths
<1>8. CASE stage = 5
  BY <1>1, <1>2, <1>8 DEF Taken, Width, Widths
<1> QED
  BY <1>1, <1>4, <1>5, <1>6, <1>7, <1>8

\* What is left begins where the next stage needs it.
LEMMA PieceNext ==
  ASSUME TypeOK, Splitting, pc = "piece", stage <= 5,
         NEW n, n = Taken(stage, at, left),
         NEW s, s = IF n # 0 /\ stage = 3 THEN 3 ELSE stage + 1
  PROVE  /\ s \in 1 .. 6 /\ n \in Nat /\ n <= left
         /\ s \in 2 .. 4 /\ left - n > 0 => (at + n) % 2 = 0
         /\ s \in {3, 4} /\ left - n > 1 => (at + n) % 4 = 0
<1>1. /\ stage \in 1 .. 5 /\ at \in Nat /\ left \in Nat
      /\ stage \in 2 .. 4 /\ left > 0 => at % 2 = 0
      /\ stage \in {3, 4} /\ left > 1 => at % 4 = 0
  BY DEF TypeOK, Splitting
<1>2. n \in Nat /\ n <= left
  BY <1>1, PieceFacts
<1>3. CASE stage = 1
  BY <1>1, <1>2, <1>3 DEF Taken
<1>4. CASE stage = 2
  BY <1>1, <1>2, <1>4 DEF Taken
<1>5. CASE stage = 3
  <2>1. CASE n = 0
    BY <1>1, <1>5, <2>1
  <2>2. CASE n # 0
    <3>1. n % 4 = 0 /\ at % 4 = 0
      BY <1>5, <2>2, PieceFacts DEF Width
    <3> QED
      BY <1>1, <1>2, <1>5, <2>2, <3>1
  <2> QED
    BY <2>1, <2>2
<1>6. CASE stage \in {4, 5}
  BY <1>1, <1>2, <1>6
<1> QED
  BY <1>1, <1>3, <1>4, <1>5, <1>6

-----------------------------------------------------------------------------
(* Types and plans.                                                        *)

LEMMA AccessTyped ==
  ASSUME NEW reg \in Registers, NEW v \in Int
  PROVE  Access(reg, v) \in AccessType
BY DEF Access, AccessType

LEMMA NotEmpty ==
  ASSUME NEW s \in Seq(AccessType)
  PROVE  s # <<>> <=> Len(s) > 0
OBVIOUS

LEMMA WordsTyped ==
  ASSUME NEW a \in AccessType
  PROVE  /\ Words(a) \in Seq(AccessType) /\ Len(Words(a)) = a.n
         /\ \A k \in 1 .. a.n : /\ Words(a)[k] = [a EXCEPT !.v = a.v + (k - 1) * a.w]
                                /\ Words(a)[k].reg = a.reg /\ Words(a)[k].w = a.w
                                /\ Words(a)[k].v = a.v + (k - 1) * a.w
<1> DEFINE word(k) == [a EXCEPT !.v = a.v + (k - 1) * a.w]
<1>1. a.n \in Nat \ {0}
  BY DEF AccessType
<1>2. ASSUME NEW k \in 1 .. a.n
      PROVE  /\ word(k) \in AccessType
             /\ word(k).reg = a.reg /\ word(k).w = a.w /\ word(k).v = a.v + (k - 1) * a.w
  BY DEF AccessType
<1>3. Words(a) = [k \in 1 .. a.n |-> word(k)]
  BY DEF Words
<1> HIDE DEF word
<1>4. Words(a) \in Seq(AccessType) /\ Len(Words(a)) = a.n
      /\ \A k \in 1 .. a.n : Words(a)[k] = word(k)
  BY <1>1, <1>2, <1>3
<1> QED
  BY <1>2, <1>4 DEF word

LEMMA SelectingTyped ==
  ASSUME NEW a \in AccessType
  PROVE  Selecting(a) \in Seq(AccessType) /\ Len(Selecting(a)) \in 0 .. 1
<1>1. Access("sel", Bank(a)) \in AccessType
  BY AccessTyped DEF Bank, Registers
<1> QED
  BY <1>1 DEF Selecting

LEMMA TypeInit == Init => TypeOK
<1>1. <<>> \in Seq(AccessType) /\ Len(<<>>) = 0
  BY EmptySeq
<1>2. Lost \in PortType
  BY DEF Lost, PortType
<1>3. [Lost EXCEPT !.up = TRUE] \in PortType
  BY <1>2 DEF PortType
<1>4. NoCall \in CallType
  BY DEF NoCall, CallType
<1>5. Init => csw \in Int /\ select \in Int /\ stage \in 1 .. 6 /\ at \in Nat /\ left \in Nat
  BY DEF Init, Unknown
<1>6. Init => doubt \in BOOLEAN /\ misplaced \in BOOLEAN
  BY DEF Init
<1>7. Init => todo \in Seq(AccessType) /\ queue \in Seq(AccessType) /\ sent \in 0 .. Len(queue)
  BY <1>1 DEF Init
<1>8. Init => call \in CallType /\ port \in PortType
  BY <1>3, <1>4 DEF Init
<1>9. Init => /\ pc \in {"idle", "piece", "access", "drain", "raise", "return"}
              /\ failed \in {"none", "fault", "other"}
  BY DEF Init
<1> QED
  BY <1>5, <1>6, <1>7, <1>8, <1>9 DEF TypeOK

\* The accesses of a piece, in their order.
LEMMA AccessesTyped ==
  ASSUME TypeOK, Splitting, pc = "piece", stage <= 5,
         NEW n, n = Taken(stage, at, left), n # 0,
         NEW t, t = Accesses(stage, at, n)
  PROVE  /\ t \in Seq(AccessType) /\ Len(t) = 3
         /\ t[1].reg = "csw" /\ t[1].v = Width(stage) /\ t[1].n = 1 /\ ~t[1].read
         /\ t[2].reg = "tar" /\ t[2].v = at /\ t[2].n = 1 /\ ~t[2].read
         /\ t[3].reg = "drw" /\ t[3].v = at /\ t[3].w = Width(stage)
         /\ t[3].n * t[3].w = n
<1> DEFINE w == Width(stage)
           v == call.start + call.len - left
<1>1. /\ n \in Nat \ {0} /\ w \in Widths /\ n % w = 0
      /\ at \in Nat /\ left \in Nat
  BY PieceFacts DEF TypeOK
<1>2. v = at
  BY DEF TypeOK, Splitting, CallType
<1>3. n \div w \in Nat \ {0} /\ (n \div w) * w = n /\ w \in Nat
  <2>1. CASE w = 1
    BY <1>1, <2>1
  <2>2. CASE w = 2
    BY <1>1, <2>2
  <2>3. CASE w = 4
    BY <1>1, <2>3
  <2> QED
    BY <1>1, <2>1, <2>2, <2>3 DEF Widths
<1> DEFINE a1 == Access("csw", w)
           a2 == [Access("tar", at) EXCEPT !.blk = (stage = 3)]
           a3 == Data(v, w, n \div w, call.kind = "read", stage = 3)
<1>4. t = <<a1, a2, a3>>
  BY DEF Accesses
<1>5. a1 \in AccessType /\ a1.reg = "csw" /\ a1.v = w /\ a1.n = 1 /\ ~a1.read
  BY <1>3 DEF Access, AccessType, Registers
<1>6. a2 \in AccessType /\ a2.reg = "tar" /\ a2.v = at /\ a2.n = 1 /\ ~a2.read
  <2>1. Access("tar", at) \in AccessType
    BY <1>1, AccessTyped DEF Registers
  <2>2. Access("tar", at).reg = "tar" /\ Access("tar", at).v = at /\ Access("tar", at).n = 1
        /\ ~Access("tar", at).read
    BY DEF Access
  <2> QED
    BY <2>1, <2>2 DEF AccessType
<1>7. a3 \in AccessType /\ a3.reg = "drw" /\ a3.v = at /\ a3.w = w /\ a3.n = n \div w
  BY <1>1, <1>2, <1>3 DEF Data, AccessType, Registers
<1> HIDE DEF a1, a2, a3, w
<1> QED
  BY <1>3, <1>4, <1>5, <1>6, <1>7 DEF w

Shape == TypeOK /\ Splitting /\ Plans

\* A call begins with a plan that has no data in it, or with its first piece.
LEMMA CallShape ==
  ASSUME Shape, Call
  PROVE  Shape'
<1> USE DEF Shape, TypeOK
<1>1. CASE \E kind \in Transfers, r \in Ranges : Block8(kind, r[1], r[2])
  <2>1. PICK kind \in Transfers, r \in Ranges : Block8(kind, r[1], r[2])
    BY <1>1
  <2>2. r[1] \in Nat /\ r[2] \in Nat
    BY MemApAssumption
  <2>3. call' \in CallType /\ call'.start = r[1] /\ call'.len = r[2] /\ call'.kind = kind
    BY <2>1, <2>2 DEF Block8, Begin, CallType, Transfers
  <2>4. <<>> \in Seq(AccessType)
    BY EmptySeq
  <2>5. TypeOK'
    BY <2>1, <2>2, <2>3, <2>4 DEF Block8, Begin, wire
  <2>6. Splitting'
    BY <2>1, <2>2, <2>3 DEF Block8, Begin, Splitting
  <2>7. Plans'
    BY <2>1 DEF Block8, Begin, Plans
  <2> QED
    BY <2>5, <2>6, <2>7
<1>2. CASE Flush \/ ProbeReset \/ Reconnect
  <2>1. call' \in CallType /\ call'.kind \notin Transfers
    BY <1>2 DEF Flush, ProbeReset, Reconnect, Begin, CallType, Transfers
  <2>2. /\ todo' \in Seq(AccessType) /\ todo' # <<>>
        /\ NoData(todo')
    <3>1. CASE Flush \/ ProbeReset
      <4> DEFINE b == Access("none", 0)
      <4>1. b \in AccessType /\ b.reg = "none" /\ b.n = 1
        BY AccessTyped DEF Access, Registers
      <4>2. todo' = <<b>>
        BY <3>1 DEF Flush, ProbeReset
      <4> HIDE DEF b
      <4> QED
        BY <4>1, <4>2 DEF NoData
    <3>2. CASE Reconnect
      <4> DEFINE P(a) == a \in AccessType /\ a.reg \notin {"csw", "tar", "drw"} /\ a.n = 1
      <4>1. /\ P(Access("id", 1)) /\ P(Access("clear", 0)) /\ P(Access("sel", 0))
            /\ P(Access("power", 0)) /\ P(Access("dp", 0)) /\ P(Access("apid", 0))
        BY AccessTyped DEF Access, Registers
      <4> DEFINE b1 == Access("id", 1)
                 b2 == Access("clear", 0)
                 b3 == Access("sel", 0)
                 b4 == Access("power", 0)
                 b5 == Access("dp", 0)
                 b6 == Access("apid", 0)
      <4>2. todo' = <<b1, b2, b3, b4, b5, b4, b3, b6, b6>>
        BY <3>2 DEF Reconnect
      <4> HIDE DEF b1, b2, b3, b4, b5, b6
      <4>3. P(b1) /\ P(b2) /\ P(b3) /\ P(b4) /\ P(b5) /\ P(b6)
        BY <4>1 DEF b1, b2, b3, b4, b5, b6
      <4>4. todo' \in Seq(AccessType) /\ Len(todo') = 9
        BY <4>2, <4>3
      <4>5. \A j \in 1 .. 9 : todo'[j] \in {b1, b2, b3, b4, b5, b6}
        BY <4>2
      <4>6. \A j \in 1 .. 9 : P(todo'[j])
        BY <4>3, <4>5
      <4>7. todo' # <<>>
        <5>1. Len(todo') # Len(<<>>)
          BY <4>4
        <5> QED
          BY <5>1, Zenon
      <4> QED
        BY <4>4, <4>6, <4>7 DEF NoData
    <3> QED
      BY <1>2, <3>1, <3>2
  <2>3. csw' \in Int /\ select' \in Int
    BY <1>2 DEF Flush, ProbeReset, Reconnect, Begin, Unknown
  <2>4. TypeOK'
    BY <1>2, <2>1, <2>2, <2>3 DEF Flush, ProbeReset, Reconnect, Begin, wire
  <2>5. Splitting'
    BY <1>2, <2>1 DEF Flush, ProbeReset, Reconnect, Begin, Splitting
  <2>6. pc' \in {"access", "drain"}
    BY <1>2 DEF Flush, ProbeReset, Reconnect
  <2>7. Plans'
    BY <2>1, <2>2, <2>6 DEF Plans
  <2> QED
    BY <2>4, <2>5, <2>7
<1> QED
  BY <1>1, <1>2 DEF Call, Transfers

LEMMA PieceShape ==
  ASSUME Shape, Piece
  PROVE  Shape'
<1> DEFINE n == Taken(stage, at, left)
<1>0. pc = "piece" /\ stage <= 5 /\ TypeOK /\ Splitting /\ call' = call
  BY DEF Piece, Shape
<1>1. call.kind \in Transfers /\ call'.kind \in Transfers
  BY <1>0 DEF Splitting
<1>2. /\ stage' = IF n # 0 /\ stage = 3 THEN 3 ELSE stage + 1
      /\ at' = at + n /\ left' = left - n
  BY <1>0 DEF Piece, TypeOK
<1>3. /\ stage' \in 1 .. 6 /\ n \in Nat /\ n <= left
      /\ stage' \in 2 .. 4 /\ left' > 0 => at' % 2 = 0
      /\ stage' \in {3, 4} /\ left' > 1 => at' % 4 = 0
  BY <1>0, <1>2, PieceNext
<1>4. at' \in Nat /\ left' \in Nat /\ at' + left' = at + left
  BY <1>0, <1>2, <1>3 DEF TypeOK
<1>5. Splitting'
  BY <1>0, <1>1, <1>3, <1>4 DEF Splitting
<1>6. CASE n = 0
  <2>1. pc' = "piece" /\ todo' = todo
    BY <1>6 DEF Piece
  <2>2. TypeOK'
    BY <1>0, <1>3, <1>4, <2>1 DEF Piece, TypeOK, caches, wire
  <2>3. Plans'
    BY <2>1 DEF Plans
  <2> QED
    BY <1>5, <2>2, <2>3 DEF Shape
<1>7. CASE n # 0
  <2>1. pc' = "access" /\ todo' = Accesses(stage, at, n)
    BY <1>7 DEF Piece
  <2>2. /\ todo' \in Seq(AccessType) /\ Len(todo') = 3
        /\ todo'[1].reg = "csw" /\ todo'[1].v = Width(stage) /\ todo'[1].n = 1 /\ ~todo'[1].read
        /\ todo'[2].reg = "tar" /\ todo'[2].v = at /\ todo'[2].n = 1 /\ ~todo'[2].read
        /\ todo'[3].reg = "drw" /\ todo'[3].v = at /\ todo'[3].w = Width(stage)
        /\ todo'[3].n * todo'[3].w = n
    BY <1>0, <1>7, <2>1, AccessesTyped
  <2>3. Width(stage) \in Widths /\ OnePage(at, n) /\ at \in Nat
    BY <1>0, <1>7, PieceFacts DEF TypeOK
  <2>4. TypeOK'
    BY <1>0, <1>3, <1>4, <2>1, <2>2 DEF Piece, TypeOK, caches, wire
  <2>5. PieceLeft(todo')
    BY <2>2, <2>3 DEF PieceLeft
  <2>6. todo' # <<>>
    <3>1. Len(todo') # Len(<<>>)
      BY <2>2
    <3> QED
      BY <3>1, Zenon
  <2>7. Plans'
    BY <1>1, <2>1, <2>5, <2>6 DEF Plans
  <2> QED
    BY <1>5, <2>4, <2>7 DEF Shape
<1> QED
  BY <1>6, <1>7

LEMMA Rest ==
  ASSUME NEW t \in Seq(AccessType), t # <<>>
  PROVE  /\ Head(t) = t[1] /\ Head(t) \in AccessType
         /\ Tail(t) \in Seq(AccessType) /\ Len(Tail(t)) = Len(t) - 1
         /\ \A j \in 1 .. Len(t) - 1 : Tail(t)[j] = t[j + 1]
OBVIOUS

\* What is left of a plan is a plan.
LEMMA RestOfPlan ==
  ASSUME NEW t \in Seq(AccessType), t # <<>>, Tail(t) # <<>>
  PROVE  /\ PieceLeft(t) => PieceLeft(Tail(t))
         /\ NoData(t) => NoData(Tail(t))
<1> DEFINE u == Tail(t)
<1>1. /\ Len(t) \in Nat /\ Len(t) >= 2
      /\ u \in Seq(AccessType) /\ Len(u) = Len(t) - 1
      /\ \A j \in 1 .. Len(t) - 1 : u[j] = t[j + 1]
  BY Rest
<1> HIDE DEF u
<1>2. ASSUME PieceLeft(t) PROVE PieceLeft(u)
  <2>1. Len(t) \in 2 .. 3
    BY <1>1, <1>2 DEF PieceLeft
  <2>2. u[Len(u)] = t[Len(t)] /\ Len(u) \in 1 .. 3
    BY <1>1, <2>1
  <2>3. Len(u) >= 2 => u[Len(u) - 1] = t[Len(t) - 1]
    BY <1>1, <2>1
  <2>4. Len(u) # 3
    BY <1>1, <2>1
  <2>5. PieceLeft(t)
    BY <1>2
  <2>6. Len(t) >= 2
    BY <1>1
  <2> QED
    BY <2>2, <2>3, <2>4, <2>5, <2>6, Zenon DEF PieceLeft
<1>3. ASSUME NoData(t) PROVE NoData(u)
  BY <1>1, <1>3 DEF NoData
<1> QED
  BY <1>2, <1>3 DEF u

\* One access further: Skip, Drained, or an Ask that does not read.
LEMMA ThenShape ==
  ASSUME Shape, todo # <<>>, pc \in {"access", "drain"}, Then(Tail(todo)),
         UNCHANGED <<call, stage, at, left>>
  PROVE  /\ todo' \in Seq(AccessType) /\ pc' \in {"access", "piece", "return"}
         /\ Splitting' /\ Plans'
<1>1. todo' \in Seq(AccessType) /\ todo' = Tail(todo)
  BY Rest DEF Shape, TypeOK, Then
<1>2. pc' \in {"access", "piece", "return"} /\ (pc' = "piece" => call.kind \in Transfers)
  BY DEF Then, Transfers
<1>3. Splitting'
  BY <1>2 DEF Shape, Splitting
<1>4. pc' = "access" => Tail(todo) # <<>>
  BY DEF Then
<1>5. pc' = "access" => IF call.kind \in Transfers THEN PieceLeft(todo') ELSE NoData(todo')
  BY <1>1, <1>4, RestOfPlan DEF Shape, TypeOK, Plans
<1>6. Plans'
  BY <1>1, <1>2, <1>4, <1>5 DEF Plans
<1> QED
  BY <1>1, <1>2, <1>3, <1>6

LEMMA StepShape ==
  ASSUME Shape, AllPieces \/ Return \/ Skip \/ Drained \/ Send \/ Abort
  PROVE  Shape'
<1> USE DEF Shape
<1>1. CASE AllPieces
  BY <1>1 DEF AllPieces, TypeOK, Splitting, Plans, caches, wire
<1>2. CASE Return
  <2>1. NoCall \in CallType /\ NoCall.kind \notin Transfers /\ <<>> \in Seq(AccessType)
    BY DEF NoCall, CallType, Transfers
  <2> QED
    BY <1>2, <2>1 DEF Return, Ended, TypeOK, Splitting, Plans, caches, wire
<1>3. CASE Skip
  <2>1. todo' \in Seq(AccessType) /\ pc' \in {"access", "piece", "return"} /\ Splitting' /\ Plans'
    BY <1>3, ThenShape DEF Skip
  <2> QED
    BY <1>3, <2>1 DEF Skip, TypeOK, caches, wire
<1>4. CASE Drained
  <2>1. todo' \in Seq(AccessType) /\ pc' \in {"access", "piece", "return"} /\ Splitting' /\ Plans'
    BY <1>4, ThenShape DEF Drained, Plans
  <2> QED
    BY <1>4, <2>1 DEF Drained, TypeOK, caches, wire
<1>5. CASE Send
  BY <1>5 DEF Send, TypeOK, Splitting, Plans, caches, splitter
<1>6. CASE Abort
  <2>1. queue' \in Seq(AccessType) /\ Len(queue') = sent /\ sent \in Nat
    BY <1>6 DEF Abort, TypeOK
  <2> QED
    BY <1>6, <2>1 DEF Abort, TypeOK, Splitting, Plans, caches
<1> QED
  BY <1>1, <1>2, <1>3, <1>4, <1>5, <1>6

\* The next access of a piece is told by how many are left.
LEMMA HeadOfPlan ==
  ASSUME NEW t \in Seq(AccessType), PieceLeft(t)
  PROVE  /\ Len(t) \in 1 .. 3
         /\ Len(t) = 3 => Head(t).reg = "csw" /\ ~Head(t).read /\ Head(t).v = t[3].w /\ Head(t).n = 1
         /\ Len(t) = 2 => Head(t).reg = "tar" /\ ~Head(t).read /\ Head(t).v = t[2].v /\ Head(t).n = 1
         /\ Len(t) = 1 => Head(t).reg = "drw" /\ Head(t) = t[1]
<1>1. Len(t) \in 1 .. 3 /\ Head(t) = t[1]
  BY DEF PieceLeft
<1>2. CASE Len(t) = 1
  BY <1>1, <1>2 DEF PieceLeft
<1>3. CASE Len(t) = 2
  BY <1>1, <1>3 DEF PieceLeft
<1>4. CASE Len(t) = 3
  BY <1>1, <1>4 DEF PieceLeft
<1> QED
  BY <1>1, <1>2, <1>3, <1>4

LEMMA AskShape ==
  ASSUME Shape, Ask
  PROVE  Shape'
<1> DEFINE a == Head(todo)
           q == Selecting(a) \o Words(a)
<1>1. a \in AccessType /\ todo # <<>> /\ pc = "access"
  BY Rest DEF Ask, Shape, TypeOK
<1>2. queue' = queue \o q /\ q \in Seq(AccessType)
  BY <1>1, WordsTyped, SelectingTyped DEF Ask
<1>3. queue' \in Seq(AccessType) /\ Len(queue') >= Len(queue)
  BY <1>2 DEF Shape, TypeOK
<1>4. csw' \in Int /\ select' \in Int
  BY <1>1 DEF Ask, Bank, AccessType, Shape, TypeOK
<1>5. /\ todo' \in Seq(AccessType) /\ pc' \in {"access", "piece", "return", "drain"}
      /\ Splitting' /\ Plans'
  <2>1. CASE Reads(a)
    <3>1. todo' = todo /\ pc' = "drain" /\ UNCHANGED <<call, stage, at, left, failed>>
      BY <2>1 DEF Ask
    <3>2. call.kind \in Transfers => Len(todo) = 1
      BY <1>1, <2>1, HeadOfPlan DEF Shape, TypeOK, Plans, Reads
    <3> QED
      BY <1>1, <3>1, <3>2 DEF Shape, TypeOK, Splitting, Plans
  <2>2. CASE ~Reads(a)
    BY <1>1, <2>2, ThenShape DEF Ask
  <2> QED
    BY <2>1, <2>2
<1> QED
  BY <1>3, <1>4, <1>5 DEF Ask, Shape, TypeOK

LEMMA RaiseShape ==
  ASSUME Shape, Raise
  PROVE  Shape'
<1> DEFINE a == Head(todo)
           retry == a.reg = "id" /\ a.v = 1
<1>1. /\ a \in AccessType /\ todo # <<>> /\ pc = "raise" /\ a = todo[1]
      /\ Tail(todo) \in Seq(AccessType)
  BY Rest DEF Raise, Shape, TypeOK, Plans
<1>2. csw' \in Int /\ select' \in Int /\ doubt' \in BOOLEAN /\ misplaced' = FALSE
  BY DEF Raise, CswAfter, SelectAfter, Unknown, Shape, TypeOK
<1>3. queue' \in Seq(AccessType) /\ sent' \in 0 .. Len(queue')
  <2>1. Access("clear", 0) \in AccessType
    BY AccessTyped DEF Registers
  <2>2. sent' = 0
    BY DEF Raise, Shape, TypeOK
  <2> QED
    BY <2>1, <2>2 DEF Raise, Cleared
<1>4. CASE retry
  <2> DEFINE b == Access("id", 2)
  <2>1. b \in AccessType /\ b.reg = "id" /\ b.n = 1
    BY AccessTyped DEF Access, Registers
  <2>2. todo' = <<b>> \o Tail(todo) /\ pc' = "access" /\ UNCHANGED <<call, stage, at, left>>
    BY <1>4 DEF Raise
  <2> HIDE DEF b
  <2>3. /\ todo' \in Seq(AccessType) /\ Len(todo') = Len(todo)
        /\ todo'[1] = b /\ \A j \in 2 .. Len(todo) : todo'[j] = todo[j]
    BY <1>1, <2>1, <2>2, Rest DEF Shape, TypeOK
  <2>4. call.kind \notin Transfers
    <3>1. a.reg = "id"
      BY <1>4
    <3> QED
      BY <1>1, <3>1 DEF Shape, TypeOK, Plans, PieceLeft
  <2>5. NoData(todo')
    BY <1>1, <2>1, <2>3, <2>4 DEF Shape, Plans, NoData
  <2>6. todo' # <<>>
    <3>1. Len(todo') # Len(<<>>)
      BY <1>1, <2>3 DEF Shape, TypeOK
    <3> QED
      BY <3>1, Zenon
  <2>7. Splitting' /\ Plans'
    BY <2>2, <2>4, <2>5, <2>6 DEF Shape, Splitting, Plans
  <2> QED
    BY <1>2, <1>3, <2>2, <2>3, <2>7 DEF Raise, Shape, TypeOK
<1>5. CASE ~retry
  <2>1. NoCall \in CallType /\ NoCall.kind \notin Transfers /\ <<>> \in Seq(AccessType)
    BY DEF NoCall, CallType, Transfers
  <2>2. Ended
    BY <1>5 DEF Raise
  <2>3. Splitting' /\ Plans'
    BY <2>1, <2>2 DEF Ended, Splitting, Plans
  <2>4. /\ call' \in CallType /\ stage' \in 1 .. 6 /\ at' \in Nat /\ left' \in Nat
        /\ todo' \in Seq(AccessType) /\ pc' = "idle"
    BY <2>1, <2>2 DEF Ended
  <2>5. failed' = "none" /\ port' \in PortType
    BY DEF Raise, Shape, TypeOK
  <2>6. TypeOK'
    BY <1>2, <1>3, <2>4, <2>5 DEF TypeOK
  <2> QED
    BY <2>3, <2>6 DEF Shape
<1> QED
  BY <1>4, <1>5

\* What an access leaves in the registers it is meant for.
LEMMA AfterFacts ==
  ASSUME NEW p \in PortType, NEW a \in AccessType
  PROVE  /\ After(p, a) \in PortType
         /\ After(p, a).sel = IF a.reg = "sel" THEN a.v ELSE p.sel
         /\ p.sel = 0 => /\ After(p, a).csw = IF a.reg = "csw" THEN a.v ELSE p.csw
                         /\ a.reg = "tar" => After(p, a).tar = a.v
                         /\ a.reg = "drw" => After(p, a).tar = Incremented(p.tar, p.csw)
         /\ a.reg # "csw" => After(p, a).csw = p.csw
<1>1. a.reg \in Registers /\ a.v \in Int /\ p.tar \in Int /\ p.csw \in Int
  BY DEF PortType, AccessType
<1>2. Incremented(p.tar, p.csw) \in Int
  BY <1>1, PageSizeFact DEF Incremented
<1>3. CASE a.reg = "sel"
  BY <1>1, <1>3 DEF After, PortType
<1>4. CASE a.reg = "csw"
  BY <1>1, <1>4 DEF After, PortType
<1>5. CASE a.reg = "tar"
  BY <1>1, <1>5 DEF After, PortType
<1>6. CASE a.reg = "drw"
  BY <1>1, <1>2, <1>6 DEF After, PortType
<1>7. CASE a.reg = "clear"
  BY <1>1, <1>7 DEF After, PortType
<1>8. CASE a.reg = "power"
  BY <1>1, <1>8 DEF After, PortType
<1>9. CASE a.reg \notin {"sel", "csw", "tar", "drw", "clear", "power"}
  BY <1>1, <1>9 DEF After, PortType
<1> QED
  BY <1>3, <1>4, <1>5, <1>6, <1>7, <1>8, <1>9

LEMMA ProbeShape ==
  ASSUME Shape, Execute \/ Fail \/ PowerLoss
  PROVE  Shape'
<1> USE DEF Shape
<1>0. /\ queue \in Seq(AccessType) /\ sent \in 0 .. Len(queue) /\ port \in PortType
      /\ sent > 0 => queue # <<>> /\ Head(queue) \in AccessType
  BY DEF TypeOK
<1>1. CASE Execute
  <2>1. port' \in PortType /\ misplaced' \in BOOLEAN
    BY <1>0, <1>1, AfterFacts DEF Execute, TypeOK
  <2>2. queue' \in Seq(AccessType) /\ sent' \in 0 .. Len(queue')
    BY <1>0, <1>1 DEF Execute
  <2> QED
    BY <1>1, <2>1, <2>2 DEF Execute, TypeOK, Splitting, Plans, caches, splitter
<1>2. CASE Fail
  <2>1. PICK error \in {"fault", "other"}, lost \in 1 .. sent :
           /\ \/ port' = [port EXCEPT !.sticky = TRUE]
              \/ port' \in {port, After(port, Head(queue))}
           /\ failed' = (IF failed = "none" THEN error ELSE failed)
           /\ queue' = SubSeq(queue, lost + 1, Len(queue)) /\ sent' = sent - lost
    BY <1>2 DEF Fail
  <2>2. port' \in PortType
    <3>1. [port EXCEPT !.sticky = TRUE] \in PortType
      BY <1>0 DEF PortType
    <3>2. After(port, Head(queue)) \in PortType
      BY <1>0, <1>2, AfterFacts DEF Fail
    <3> QED
      BY <1>0, <2>1, <3>1, <3>2
  <2>3. queue' \in Seq(AccessType) /\ sent' \in 0 .. Len(queue')
    BY <1>0, <2>1
  <2>4. failed' \in {"none", "fault", "other"} /\ failed' # "none"
    BY <2>1 DEF TypeOK
  <2> QED
    BY <1>2, <2>2, <2>3, <2>4 DEF Fail, TypeOK, Splitting, Plans, caches, splitter
<1>3. CASE PowerLoss
  <2>1. port' \in PortType
    BY <1>3 DEF PowerLoss, Lost, PortType
  <2> QED
    BY <1>3, <2>1 DEF PowerLoss, TypeOK, Splitting, Plans, caches, splitter
<1> QED
  BY <1>1, <1>2, <1>3

\* The shape is preserved by every step.
LEMMA ShapeStep ==
  ASSUME Shape, [Next]_vars
  PROVE  Shape'
<1>1. CASE UNCHANGED vars
  BY <1>1 DEF vars, caches, splitter, wire, Shape, TypeOK, Splitting, Plans
<1> QED
  BY <1>1, CallShape, PieceShape, StepShape, AskShape, RaiseShape, ProbeShape DEF Next, Host

-----------------------------------------------------------------------------
(* The registers.                                                          *)

Fits == QueueFits(queue, port) /\ CachesFit(queue, port) /\ DataNext

\* What is to come stays right when the first access has been carried out.
LEMMA TailFits ==
  ASSUME NEW q \in Seq(AccessType), q # <<>>, NEW p \in PortType,
         WillFit(q, p, 1), NEW i \in 2 .. Len(q) + 1,
         NEW p2, p2 = After(p, Head(q))
  PROVE  /\ \A v : Before(q, "sel", p.sel, i, v) => Before(Tail(q), "sel", p2.sel, i - 1, v)
         /\ \A v : Before(q, "csw", p.csw, i, v) => Before(Tail(q), "csw", p2.csw, i - 1, v)
         /\ \A v : TarBefore(q, p.tar, i, v) => TarBefore(Tail(q), p2.tar, i - 1, v)
<1> DEFINE a == Head(q)
<1>1. a \in AccessType /\ a = q[1] /\ \A j \in 1 .. Len(q) - 1 : Tail(q)[j] = q[j + 1]
  BY Rest
<1>2. /\ p2.sel = IF a.reg = "sel" THEN a.v ELSE p.sel
      /\ p.sel = 0 => /\ p2.csw = IF a.reg = "csw" THEN a.v ELSE p.csw
                      /\ a.reg = "tar" => p2.tar = a.v
                      /\ a.reg = "drw" => p2.tar = Incremented(p.tar, p.csw)
      /\ a.reg # "csw" => p2.csw = p.csw
  BY <1>1, AfterFacts
<1>3. a.reg \in {"csw", "tar", "drw"} => p.sel = 0
  BY <1>1 DEF WillFit, IsAP, Bank, Before
<1>4. a.reg = "drw" => p.csw = a.w /\ p.tar = a.v
  BY <1>1 DEF WillFit, Before, TarBefore
<1>5. p2.csw = IF a.reg = "csw" THEN a.v ELSE p.csw
  BY <1>2, <1>3
<1>6. ASSUME NEW v, Before(q, "sel", p.sel, i, v)
      PROVE  Before(Tail(q), "sel", p2.sel, i - 1, v)
  BY <1>2, <1>6, BeforeTail
<1>7. ASSUME NEW v, Before(q, "csw", p.csw, i, v)
      PROVE  Before(Tail(q), "csw", p2.csw, i - 1, v)
  BY <1>5, <1>7, BeforeTail
<1>8. ASSUME NEW v, TarBefore(q, p.tar, i, v)
      PROVE  TarBefore(Tail(q), p2.tar, i - 1, v)
  <2>1. CASE i = 2
    BY <1>1, <1>2, <1>3, <1>4, <1>8, <2>1 DEF TarBefore
  <2>2. CASE i > 2
    <3>1. Tail(q)[(i - 1) - 1] = q[i - 1]
      BY <1>1, <2>2
    <3> QED
      BY <1>8, <2>2, <3>1 DEF TarBefore
  <2> QED
    BY <2>1, <2>2
<1> QED
  BY <1>6, <1>7, <1>8

\* Execute: the access is as it was meant, and the rest stays right.
LEMMA ExecuteFits ==
  ASSUME Shape, AccessAsMeant, Good => Fits, Execute
  PROVE  AccessAsMeant' /\ (Good' => Fits')
<1>1. /\ queue \in Seq(AccessType) /\ queue # <<>> /\ port \in PortType
      /\ queue' = Tail(queue) /\ port' = After(port, Head(queue))
      /\ Len(queue') = Len(queue) - 1 /\ Len(queue) \in Nat \ {0}
      /\ \A j \in 1 .. Len(queue) - 1 : queue'[j] = queue[j + 1]
      /\ Head(queue) = queue[1]
  BY DEF Execute, Shape, TypeOK
<1>2. UNCHANGED <<doubt, failed, csw, select, call, todo, pc>>
  BY DEF Execute, caches, splitter
<1>3. Good' <=> Good
  BY <1>2 DEF Good
<1>4. AccessAsMeant'
  <2>1. CASE Good
    <3>1. WillFit(queue, port, 1)
      BY <1>1, <2>1 DEF Fits, QueueFits
    <3>2. IsAP(queue[1]) => AsMeant(port, queue[1])
      BY <3>1 DEF WillFit, Before, TarBefore, AsMeant
    <3>3. ~misplaced
      BY <2>1 DEF AccessAsMeant, Good
    <3> QED
      BY <1>1, <3>2, <3>3 DEF Execute, AccessAsMeant
  <2>2. CASE ~Good
    BY <1>2, <2>2 DEF AccessAsMeant, Good
  <2> QED
    BY <2>1, <2>2
<1>5. ASSUME Good PROVE Fits'
  <2>1. Fits /\ WillFit(queue, port, 1)
    BY <1>1, <1>5 DEF Fits, QueueFits
  <2>2. \A i \in 2 .. Len(queue) + 1 :
          /\ \A v : Before(queue, "sel", port.sel, i, v) => Before(queue', "sel", port'.sel, i - 1, v)
          /\ \A v : Before(queue, "csw", port.csw, i, v) => Before(queue', "csw", port'.csw, i - 1, v)
          /\ \A v : TarBefore(queue, port.tar, i, v) => TarBefore(queue', port'.tar, i - 1, v)
    BY <1>1, <2>1, TailFits
  <2>3. ASSUME NEW j \in 1 .. Len(queue') PROVE WillFit(queue', port', j)
    <3> DEFINE i == j + 1
    <3>1. i \in 2 .. Len(queue) + 1 /\ i \in 1 .. Len(queue) /\ i - 1 = j /\ queue'[j] = queue[i]
      BY <1>1
    <3>2. WillFit(queue, port, i)
      BY <2>1, <3>1 DEF Fits, QueueFits
    <3> HIDE DEF i
    <3> QED
      BY <2>2, <3>1, <3>2 DEF WillFit
  <2>4. QueueFits(queue, port)'
    BY <2>3 DEF QueueFits
  <2>5. CachesFit(queue, port)'
    <3> DEFINE i == Len(queue) + 1
    <3>1. i \in 2 .. Len(queue) + 1 /\ i - 1 = Len(queue') + 1
      BY <1>1
    <3>2. /\ csw # Unknown => Before(queue, "csw", port.csw, i, csw)
          /\ select # Unknown => Before(queue, "sel", port.sel, i, select)
      BY <2>1 DEF Fits, CachesFit
    <3> HIDE DEF i
    <3>3. /\ csw # Unknown => Before(queue', "csw", port'.csw, i - 1, csw)
          /\ select # Unknown => Before(queue', "sel", port'.sel, i - 1, select)
      BY <2>2, <3>1, <3>2
    <3> QED
      BY <1>2, <3>1, <3>3 DEF CachesFit
  <2>6. DataNext'
    <3> DEFINE i == Len(queue) + 1
    <3>1. i \in 2 .. Len(queue) + 1 /\ i - 1 = Len(queue') + 1
      BY <1>1
    <3>2. \A v : TarBefore(queue, port.tar, i, v) => TarBefore(queue', port'.tar, i - 1, v)
      BY <2>2, <3>1
    <3>3. DataNext
      BY <2>1 DEF Fits
    <3> QED
      BY <1>2, <3>1, <3>2, <3>3 DEF DataNext
  <2> QED
    BY <2>4, <2>5, <2>6 DEF Fits
<1> QED
  BY <1>3, <1>4, <1>5

\* An access that is asked for: SELECT if it is not known, then its words.
WordAt(a, j) == a.v + (j - 1) * a.w

Asks(a, c, r) ==
  /\ r \in Seq(AccessType) /\ Len(r) = c + a.n
  /\ c \in 0 .. 1 /\ (c = 1 <=> IsAP(a) /\ select # Bank(a))
  /\ c = 1 => r[1].reg = "sel" /\ r[1].v = Bank(a)
  /\ \A k \in c + 1 .. Len(r) : r[k].reg = a.reg /\ r[k].w = a.w /\ r[k].v = WordAt(a, k - c)
  /\ a.n \in Nat \ {0}

LEMMA Asked ==
  ASSUME NEW a \in AccessType
  PROVE  Asks(a, Len(Selecting(a)), Selecting(a) \o Words(a))
<1> DEFINE W == Words(a)
           S == Selecting(a)
           r == S \o W
           b == Access("sel", Bank(a))
<1>1. /\ W \in Seq(AccessType) /\ Len(W) = a.n
      /\ \A k \in 1 .. a.n : W[k].reg = a.reg /\ W[k].w = a.w /\ W[k].v = WordAt(a, k)
  BY WordsTyped DEF WordAt
<1>2. b \in AccessType /\ b.reg = "sel" /\ b.v = Bank(a)
  BY AccessTyped DEF Bank, Registers, Access
<1>3. S = IF IsAP(a) /\ select # Bank(a) THEN <<b>> ELSE <<>>
  BY DEF Selecting
<1>4. a.n \in Nat \ {0}
  BY DEF AccessType
<1>5. r = S \o W
  OBVIOUS
<1> HIDE DEF W, b, S, r
<1>6. CASE IsAP(a) /\ select # Bank(a)
  <2>1. S = <<b>> /\ S \in Seq(AccessType) /\ Len(S) = 1
    BY <1>2, <1>3, <1>6
  <2>2. /\ r \in Seq(AccessType) /\ Len(r) = 1 + a.n /\ r[1] = b
        /\ \A k \in 2 .. Len(r) : r[k] = W[k - 1]
    BY <1>1, <1>2, <1>4, <1>5, <2>1
  <2>3. \A k \in 1 + 1 .. Len(r) : /\ r[k].reg = a.reg /\ r[k].w = a.w
                                   /\ r[k].v = WordAt(a, k - 1)
    <3> TAKE k \in 1 + 1 .. Len(r)
    <3>1. k - 1 \in 1 .. a.n /\ r[k] = W[k - 1]
      BY <1>4, <2>2
    <3> QED
      BY <1>1, <3>1
  <2>4. Asks(a, 1, r)
    BY <1>2, <1>4, <1>6, <2>2, <2>3 DEF Asks
  <2> QED
    BY <2>1, <2>4 DEF S, r, W
<1>7. CASE ~(IsAP(a) /\ select # Bank(a))
  <2>1. S = <<>> /\ Len(S) = 0
    BY <1>3, <1>7
  <2>2. r = W
    BY <1>1, <1>5, <2>1
  <2>3. \A k \in 1 .. a.n : k - 0 = k
    BY <1>4
  <2>4. Asks(a, 0, W)
    BY <1>1, <1>4, <1>7, <2>3 DEF Asks
  <2> QED
    BY <2>1, <2>2, <2>4 DEF S, r, W
<1> QED
  BY <1>6, <1>7

\* The new accesses will be as they are meant.
LEMMA AskedFits ==
  ASSUME Shape, Fits, Ask,
         NEW a, a = Head(todo), NEW c, NEW r, Asks(a, c, r),
         NEW k \in 1 .. Len(r)
  PROVE  WillFit(queue \o r, port, Len(queue) + k)
<1>1. /\ queue \in Seq(AccessType) /\ a \in AccessType /\ pc = "access" /\ todo # <<>>
      /\ todo \in Seq(AccessType) /\ Len(queue) \in Nat
  BY Rest DEF Ask, Shape, TypeOK
<1>2. /\ r \in Seq(AccessType) /\ Len(r) = c + a.n /\ c \in 0 .. 1
      /\ c = 1 <=> IsAP(a) /\ select # Bank(a)
      /\ c = 1 => r[1].reg = "sel" /\ r[1].v = Bank(a)
      /\ \A j \in c + 1 .. Len(r) : r[j].reg = a.reg /\ r[j].w = a.w /\ r[j].v = WordAt(a, j - c)
      /\ a.n \in Nat \ {0}
  BY DEF Asks
<1>3. \A j \in c + 1 .. k - 1 : r[j].reg = a.reg /\ j \in 1 .. Len(r)
  <2> TAKE j \in c + 1 .. k - 1
  <2>1. j \in c + 1 .. Len(r) /\ j \in 1 .. Len(r)
    BY <1>2
  <2> QED
    BY <1>2, <2>1
<1> DEFINE q == queue \o r
           i == Len(queue) + k
<1>4. /\ q[i] = r[k] /\ Len(r) \in Nat /\ i = Len(queue) + k /\ q = queue \o r
      /\ k > 1 => q[i - 1] = r[k - 1]
      /\ \A j \in 1 .. Len(queue) : q[j] = queue[j]
  BY <1>1, <1>2
<1> HIDE DEF q, i
<1>5. CASE k <= c
  <2>0. k = 1 /\ c = 1
    BY <1>2, <1>4, <1>5
  <2>1. q[i].reg = "sel"
    BY <1>2, <1>4, <2>0
  <2>2. WillFit(q, port, i)
    BY <2>1 DEF WillFit, IsAP
  <2> QED
    BY <2>2 DEF q, i
<1>6. CASE k > c
  <2>1. /\ q[i].reg = a.reg /\ q[i].w = a.w /\ Bank(q[i]) = Bank(a)
        /\ q[i].v = WordAt(a, k - c)
    BY <1>2, <1>4, <1>6 DEF Bank
  <2>2. ASSUME IsAP(a) PROVE Before(q, "sel", port.sel, i, Bank(a))
    <3>1. \A j \in c + 1 .. k - 1 : r[j].reg # "sel"
      BY <1>3, <2>2 DEF IsAP
    <3>2. CASE c = 1
      <4>1. /\ k \in 1 .. Len(r) + 1 /\ 1 \in 1 .. k - 1
            /\ r[1].reg = "sel" /\ r[1].v = Bank(a) /\ \A j \in 1 + 1 .. k - 1 : r[j].reg # "sel"
        BY <1>2, <1>4, <1>6, <3>1, <3>2
      <4>2. Before(queue \o r, "sel", port.sel, Len(queue) + k, Bank(a))
        BY <1>1, <1>2, <4>1, BeforeWritten
      <4> QED
        BY <1>4, <4>2
    <3>3. CASE c = 0
      <4>1. select = Bank(a) /\ select # Unknown
        BY <1>2, <2>2, <3>3 DEF Bank, Unknown
      <4>2. Before(queue, "sel", port.sel, Len(queue) + 1, Bank(a))
        BY <4>1 DEF Fits, CachesFit
      <4> QED
        <5>1. k \in 1 .. Len(r) + 1 /\ \A j \in 1 .. k - 1 : r[j].reg # "sel"
          BY <1>4, <3>1, <3>3
        <5>2. Before(queue \o r, "sel", port.sel, Len(queue) + k, Bank(a))
          BY <1>1, <1>2, <4>2, <5>1, BeforeNew
        <5> QED
          BY <1>4, <5>2
    <3> QED
      BY <1>2, <3>2, <3>3
  <2>3. ASSUME a.reg = "drw"
        PROVE  Before(q, "csw", port.csw, i, a.w) /\ TarBefore(q, port.tar, i, q[i].v)
    <3>1. call.kind \in Transfers /\ PieceLeft(todo) /\ Len(todo) = 1 /\ todo[1] = a
      <4>1. call.kind \in Transfers
        BY <1>1, <2>3 DEF Shape, Plans, NoData
      <4>2. PieceLeft(todo)
        BY <1>1, <4>1 DEF Shape, Plans
      <4> QED
        BY <1>1, <2>3, <4>1, <4>2, HeadOfPlan
    <3>2. csw = a.w /\ select = 0 /\ TarBefore(queue, port.tar, Len(queue) + 1, a.v)
      BY <1>1, <3>1 DEF Fits, DataNext
    <3>3. a.w \in Widths /\ a.v \in Nat /\ OnePage(a.v, a.n * a.w)
      BY <3>1 DEF PieceLeft
    <3>4. c = 0
      BY <1>2, <2>3, <3>2 DEF IsAP, Bank
    <3>5. Before(queue, "csw", port.csw, Len(queue) + 1, a.w)
      BY <3>2, <3>3 DEF Fits, CachesFit, Widths, Unknown
    <3>6. \A j \in 1 .. Len(r) : r[j].reg = "drw" /\ r[j].w = a.w /\ r[j].v = WordAt(a, j)
      BY <1>2, <2>3, <3>4
    <3>7. Before(q, "csw", port.csw, i, a.w)
      <4>1. k \in 1 .. Len(r) + 1 /\ \A j \in 1 .. k - 1 : r[j].reg # "csw"
        BY <1>4, <1>3, <2>3, <3>4
      <4>2. Before(queue \o r, "csw", port.csw, Len(queue) + k, a.w)
        BY <1>1, <1>2, <3>5, <4>1, BeforeNew
      <4> QED
        BY <1>4, <4>2
    <3>8. TarBefore(q, port.tar, i, q[i].v)
      <4>1. CASE k = 1
        <5>1. i = Len(queue) + 1 /\ q[i].v = a.v
          BY <1>1, <1>2, <1>4, <3>3, <3>6, <4>1 DEF Widths, WordAt
        <5>2. i # 1 => q[i - 1] = queue[i - 1]
          BY <1>1, <1>4, <5>1
        <5> QED
          BY <3>2, <5>1, <5>2 DEF TarBefore
      <4>2. CASE k > 1
        <5>1. q[i - 1] = r[k - 1] /\ i # 1 /\ k - 1 \in 1 .. Len(r)
          BY <1>1, <1>4, <4>2
        <5>2. /\ r[k - 1].reg = "drw" /\ r[k - 1].w = a.w
              /\ r[k - 1].v = WordAt(a, k - 1) /\ q[i].v = WordAt(a, k)
          BY <1>4, <3>6, <5>1
        <5>3. Incremented(WordAt(a, k - 1), a.w) = WordAt(a, k)
          <6>1. k \in 2 .. a.n
            BY <1>2, <3>4, <4>2
          <6> QED
            BY <1>2, <3>3, <6>1, NextWord DEF WordAt
        <5> QED
          BY <5>1, <5>2, <5>3 DEF TarBefore
      <4> QED
        BY <1>2, <4>1, <4>2
    <3> QED
      BY <3>7, <3>8
  <2>4. IsAP(q[i]) <=> IsAP(a)
    BY <2>1 DEF IsAP
  <2> QED
    BY <2>1, <2>2, <2>3, <2>4 DEF WillFit, q, i
<1> QED
  BY <1>2, <1>5, <1>6

LEMMA LastOfBoth ==
  ASSUME NEW s \in Seq(AccessType), NEW t \in Seq(AccessType), Len(t) \in Nat \ {0}
  PROVE  Len(s \o t) = Len(s) + Len(t) /\ (s \o t)[Len(s) + Len(t)] = t[Len(t)]
OBVIOUS

\* Ask: the caches are right for what comes behind the new accesses.
LEMMA AskFits ==
  ASSUME Shape, Fits, Ask
  PROVE  Fits'
<1> DEFINE a == Head(todo)
           c == Len(Selecting(a))
           r == Selecting(a) \o Words(a)
<1>1. /\ queue \in Seq(AccessType) /\ a \in AccessType /\ pc = "access" /\ todo # <<>>
      /\ todo \in Seq(AccessType) /\ Len(queue) \in Nat
  BY Rest DEF Ask, Shape, TypeOK
<1>2. Asks(a, c, r)
  BY <1>1, Asked
<1>3. /\ queue' = queue \o r /\ UNCHANGED <<port, call>>
      /\ select' = (IF IsAP(a) THEN Bank(a) ELSE IF a.reg = "sel" THEN a.v ELSE select)
      /\ csw' = (IF a.reg = "csw" THEN a.v ELSE csw)
      /\ IF Reads(a) THEN pc' = "drain" ELSE Then(Tail(todo))
  BY DEF Ask
<1>4. a = Head(todo)
  OBVIOUS
<1>5. \A k \in 1 .. Len(r) : WillFit(queue \o r, port, Len(queue) + k)
  BY <1>2, AskedFits
<1> HIDE DEF a, c, r
<1>6. /\ r \in Seq(AccessType) /\ Len(r) = c + a.n /\ c \in 0 .. 1
      /\ c = 1 <=> IsAP(a) /\ select # Bank(a)
      /\ c = 1 => r[1].reg = "sel" /\ r[1].v = Bank(a)
      /\ \A j \in c + 1 .. Len(r) : r[j].reg = a.reg
      /\ a.n \in Nat \ {0} /\ Len(r) \in Nat
      /\ Len(queue \o r) = Len(queue) + Len(r)
      /\ (queue \o r)[Len(queue) + Len(r)] = r[Len(r)]
  <2>1. /\ r \in Seq(AccessType) /\ Len(r) = c + a.n /\ c \in 0 .. 1
        /\ c = 1 <=> IsAP(a) /\ select # Bank(a)
        /\ c = 1 => r[1].reg = "sel" /\ r[1].v = Bank(a)
        /\ \A j \in c + 1 .. Len(r) : r[j].reg = a.reg
        /\ a.n \in Nat \ {0}
    BY <1>2 DEF Asks
  <2>2. Len(r) \in Nat \ {0}
    BY <2>1
  <2>3. /\ Len(queue \o r) = Len(queue) + Len(r)
        /\ (queue \o r)[Len(queue) + Len(r)] = r[Len(r)]
    BY <1>1, <2>1, <2>2, LastOfBoth
  <2> QED
    BY <2>1, <2>2, <2>3
<1>7. Len(r) \in Nat \ {0}
  BY <1>6
<1>8. a.n = 1 => /\ Len(r) = c + 1 /\ r[Len(r)].reg = a.reg /\ r[Len(r)].v = a.v
  <2>1. \A j \in c + 1 .. Len(r) : r[j].v = WordAt(a, j - c)
    BY <1>2 DEF Asks
  <2>2. WordAt(a, 1) = a.v
    BY <1>1 DEF WordAt, AccessType
  <2>3. a.n = 1 => c + 1 = Len(r) /\ c + 1 \in c + 1 .. Len(r) /\ (c + 1) - c = 1
    BY <1>6
  <2> QED
    BY <1>6, <2>1, <2>2, <2>3
<1>9. /\ a.reg \in {"csw", "tar", "sel"} => a.n = 1
      /\ a.reg = "csw" => Len(todo) = 3 /\ call.kind \in Transfers
  BY <1>1, <1>4, HeadOfPlan DEF Shape, TypeOK, Plans, NoData
<1>10. QueueFits(queue, port)'
  <2>1. ASSUME NEW i \in 1 .. Len(queue \o r) PROVE WillFit(queue \o r, port, i)
    <3>1. CASE i <= Len(queue)
      <4>1. i \in 1 .. Len(queue) + 1 /\ i \in 1 .. Len(queue) /\ WillFit(queue, port, i)
        BY <1>1, <3>1 DEF Fits, QueueFits
      <4>2. (queue \o r)[i] = queue[i] /\ (i # 1 => (queue \o r)[i - 1] = queue[i - 1])
        BY <1>1, <1>6, <4>1
      <4>3. \A reg, now, v : Before(queue, reg, now, i, v) => Before(queue \o r, reg, now, i, v)
        BY <1>1, <1>6, <4>1, BeforeMore
      <4>4. \A now, v : TarBefore(queue, now, i, v) => TarBefore(queue \o r, now, i, v)
        BY <4>2 DEF TarBefore
      <4> QED
        BY <4>1, <4>2, <4>3, <4>4 DEF WillFit
    <3>2. CASE i > Len(queue)
      <4> DEFINE k == i - Len(queue)
      <4>1. k \in 1 .. Len(r) /\ i = Len(queue) + k
        BY <1>1, <1>6, <3>2
      <4> HIDE DEF k
      <4> QED
        BY <1>5, <4>1
    <3> QED
      BY <1>1, <1>6, <3>1, <3>2
  <2> QED
    BY <1>3, <2>1 DEF QueueFits
<1> DEFINE n == Len(r) + 1
<1>11. /\ n \in 1 .. Len(r) + 1 /\ n - 1 = Len(r) /\ Len(queue') + 1 = Len(queue) + n
       /\ c \in 0 .. 1
  <2>1. Len(r) \in Nat \ {0} /\ Len(queue) \in Nat /\ Len(queue') = Len(queue) + Len(r)
    BY <1>1, <1>3, <1>6, <1>7
  <2>2. n = Len(r) + 1
    OBVIOUS
  <2> HIDE DEF n
  <2>3. n \in 1 .. Len(r) + 1 /\ n - 1 = Len(r)
    BY <2>1, <2>2
  <2>4. Len(queue') + 1 = Len(queue) + n
    BY <2>1, <2>2
  <2> QED
    BY <1>6, <2>3, <2>4
<1> HIDE DEF n
<1>12. \A j \in 1 .. n - 1 : j \in c + 1 .. Len(r) \/ (c = 1 /\ j = 1)
  BY <1>11
<1>13. /\ \A j \in 1 .. n - 1 : r[j].reg \in {"sel", a.reg}
       /\ \A j \in c + 1 .. n - 1 : r[j].reg = a.reg
  BY <1>6, <1>11, <1>12
<1>14. CachesFit(queue, port)'
  <2>1. ASSUME csw' # Unknown PROVE Before(queue \o r, "csw", port.csw, Len(queue) + n, csw')
    <3>1. CASE a.reg = "csw"
      <4>1. /\ Len(r) \in 1 .. n - 1 /\ r[Len(r)].reg = "csw" /\ r[Len(r)].v = csw'
            /\ \A j \in Len(r) + 1 .. n - 1 : r[j].reg # "csw"
        <5>1. Len(r) \in 1 .. n - 1 /\ \A j \in Len(r) + 1 .. n - 1 : r[j].reg # "csw"
          <6>1. Len(r) \in Nat \ {0} /\ n - 1 = Len(r)
            BY <1>11, <1>7, Zenon
          <6> QED
            BY <6>1
        <5> QED
          BY <1>3, <1>8, <1>9, <3>1, <5>1
      <4> QED
        BY <1>1, <1>6, <1>11, <4>1, BeforeWritten
    <3>2. CASE a.reg # "csw"
      <4>1. \A j \in 1 .. n - 1 : r[j].reg # "csw"
        BY <1>13, <3>2
      <4>2. Before(queue, "csw", port.csw, Len(queue) + 1, csw) /\ csw' = csw
        BY <1>3, <2>1, <3>2 DEF Fits, CachesFit
      <4> QED
        BY <1>1, <1>6, <1>11, <4>1, <4>2, BeforeNew
    <3> QED
      BY <3>1, <3>2
  <2>2. ASSUME select' # Unknown PROVE Before(queue \o r, "sel", port.sel, Len(queue) + n, select')
    <3>1. CASE a.reg = "sel"
      <4>1. /\ Len(r) \in 1 .. n - 1 /\ r[Len(r)].reg = "sel" /\ r[Len(r)].v = select'
            /\ \A j \in Len(r) + 1 .. n - 1 : r[j].reg # "sel"
        <5>1. Len(r) \in 1 .. n - 1 /\ \A j \in Len(r) + 1 .. n - 1 : r[j].reg # "sel"
          <6>1. Len(r) \in Nat \ {0} /\ n - 1 = Len(r)
            BY <1>11, <1>7, Zenon
          <6> QED
            BY <6>1
        <5>2. select' = a.v /\ a.n = 1
          BY <1>3, <1>9, <3>1 DEF IsAP
        <5> QED
          BY <1>8, <3>1, <5>1, <5>2
      <4> QED
        BY <1>1, <1>6, <1>11, <4>1, BeforeWritten
    <3>2. CASE a.reg # "sel" /\ c = 1
      <4>1. select' = Bank(a)
        BY <1>3, <1>6, <3>2
      <4>2. /\ 1 \in 1 .. n - 1 /\ r[1].reg = "sel" /\ r[1].v = select'
            /\ \A j \in 1 + 1 .. n - 1 : r[j].reg # "sel"
        <5>1. \A j \in 1 + 1 .. n - 1 : r[j].reg # "sel"
          BY <1>13, <3>2
        <5>2. 1 \in 1 .. n - 1
          BY <1>6, <1>11
        <5> QED
          BY <1>6, <3>2, <4>1, <5>1, <5>2
      <4> QED
        BY <1>1, <1>6, <1>11, <4>2, BeforeWritten
    <3>3. CASE a.reg # "sel" /\ c = 0
      <4>1. \A j \in 1 .. n - 1 : r[j].reg # "sel"
        BY <1>13, <3>3
      <4>2. select' = select
        BY <1>3, <1>6, <3>3
      <4>3. Before(queue, "sel", port.sel, Len(queue) + 1, select)
        BY <2>2, <4>2 DEF Fits, CachesFit
      <4> QED
        BY <1>1, <1>6, <1>11, <4>1, <4>2, <4>3, BeforeNew
    <3> QED
      BY <1>11, <3>1, <3>2, <3>3
  <2> QED
    BY <1>3, <1>11, <2>1, <2>2 DEF CachesFit
<1>15. DataNext'
  <2> SUFFICES ASSUME pc' = "access", call.kind \in Transfers
               PROVE  LET d == todo'[Len(todo')]
                      IN /\ Len(todo') <= 2 => csw' = d.w
                         /\ Len(todo') = 1 =>
                              select' = 0 /\ TarBefore(queue', port.tar, Len(queue') + 1, d.v)
    BY <1>3 DEF DataNext
  <2>1. todo' = Tail(todo) /\ todo' # <<>>
    BY <1>3 DEF Then
  <2>2. PieceLeft(todo)
    BY <1>1 DEF Shape, Plans
  <2>3. /\ Len(todo') = Len(todo) - 1 /\ Len(todo) \in 2 .. 3
        /\ todo'[Len(todo')] = todo[Len(todo)]
    <3>1. Len(todo') = Len(todo) - 1 /\ \A j \in 1 .. Len(todo) - 1 : todo'[j] = todo[j + 1]
      BY <1>1, <2>1, Rest
    <3>2. Len(todo') \in Nat /\ Len(todo') # 0
      BY <1>1, <2>1
    <3> QED
      BY <2>2, <3>1, <3>2 DEF PieceLeft
  <2> DEFINE d == todo[Len(todo)]
  <2>4. CASE Len(todo) = 3
    <3>1. a.reg = "csw" /\ a.v = d.w
      BY <1>1, <1>4, <2>2, <2>4, HeadOfPlan
    <3> QED
      BY <1>3, <2>3, <2>4, <3>1
  <2>5. CASE Len(todo) = 2
    <3>1. a.reg = "tar" /\ a.v = d.v /\ a.n = 1
      BY <1>1, <1>4, <2>2, <2>5, HeadOfPlan
    <3>2. csw' = d.w
      BY <1>1, <1>3, <2>5, <3>1 DEF Fits, DataNext
    <3>3. select' = 0
      BY <1>3, <3>1 DEF IsAP, Bank
    <3>4. (queue \o r)[Len(queue) + Len(r)] = r[Len(r)] /\ Len(queue') = Len(queue) + Len(r)
      BY <1>3, <1>6
    <3>5. TarBefore(queue', port.tar, Len(queue') + 1, d.v)
      BY <1>1, <1>3, <1>6, <1>8, <3>1, <3>4 DEF TarBefore
    <3> QED
      BY <2>3, <2>5, <3>2, <3>3, <3>5
  <2> QED
    BY <2>3, <2>4, <2>5
<1> QED
  BY <1>10, <1>14, <1>15 DEF Fits

\* Raise: the queue is empty, or a sticky error is about to be cleared, and
\* what is not forgotten is in doubt.
LEMMA RaiseFits ==
  ASSUME Shape, Raise, ~doubt'
  PROVE  Fits'
<1> DEFINE a == Head(todo)
<1>1. /\ todo # <<>> /\ todo \in Seq(AccessType) /\ a = todo[1] /\ pc = "raise"
      /\ Len(todo) \in Nat \ {0}
  BY Rest DEF Raise, Shape, TypeOK, Plans
<1>2. Guarded(a) /\ csw' = CswAfter(a) /\ select' = SelectAfter(a)
  BY DEF Raise
<1>3. call.kind \in Transfers
  BY <1>1, <1>2 DEF Shape, Plans, NoData, Guarded
<1>4. csw' = Unknown /\ select' = Unknown
  BY <1>2, <1>3 DEF CswAfter, SelectAfter, Transfers
<1>5. pc' = "idle"
  <2>1. a.reg # "id"
    BY <1>2 DEF Guarded
  <2> QED
    BY <2>1 DEF Raise, Ended
<1>6. \A j \in 1 .. Len(queue') : queue'[j].reg = "clear"
  BY DEF Raise, Cleared, Access
<1>7. QueueFits(queue, port)'
  BY <1>6 DEF QueueFits, WillFit, IsAP
<1> QED
  BY <1>4, <1>5, <1>7 DEF Fits, CachesFit, DataNext

\* Cached: what is skipped of a piece is its width.
LEMMA SkipFits ==
  ASSUME Shape, Fits, Skip
  PROVE  Fits'
<1>1. /\ todo \in Seq(AccessType) /\ todo # <<>> /\ pc = "access" /\ Cached(Head(todo))
      /\ Then(Tail(todo)) /\ UNCHANGED <<caches, wire, call>>
  BY DEF Skip, Shape, TypeOK
<1>2. QueueFits(queue, port)' /\ CachesFit(queue, port)'
  BY <1>1 DEF Fits, QueueFits, WillFit, CachesFit, caches, wire
<1>3. ASSUME pc' = "access", call.kind \in Transfers
      PROVE  Len(todo') = 2 /\ csw' = todo'[2].w
  <2>1. PieceLeft(todo)
    BY <1>1, <1>3 DEF Shape, Plans
  <2>2. Len(todo) = 3 /\ Head(todo).reg = "csw" /\ Head(todo).v = todo[3].w
    BY <1>1, <2>1, HeadOfPlan DEF Cached
  <2>3. todo' = Tail(todo) /\ csw' = csw /\ csw = Head(todo).v
    BY <1>1, <2>2 DEF Then, caches, Cached
  <2>4. Len(todo') = 2 /\ todo'[2] = todo[3]
    <3>1. /\ Len(todo') = Len(todo) - 1
          /\ \A j \in 1 .. Len(todo) - 1 : todo'[j] = todo[j + 1]
      BY <1>1, <2>3, Rest
    <3>2. Len(todo) = 3 /\ 2 \in 1 .. 3 - 1 /\ 3 - 1 = 2 /\ 2 + 1 = 3
      BY <2>2
    <3> QED
      BY <3>1, <3>2
  <2> QED
    BY <2>2, <2>3, <2>4
<1>4. DataNext'
  BY <1>1, <1>3 DEF DataNext
<1> QED
  BY <1>2, <1>4 DEF Fits

\* Drained: a piece that waited for its data is complete.
LEMMA DrainedFits ==
  ASSUME Shape, Fits, Drained
  PROVE  Fits'
<1>1. /\ todo \in Seq(AccessType) /\ todo # <<>> /\ pc = "drain"
      /\ Then(Tail(todo)) /\ UNCHANGED <<caches, wire, call>>
  BY DEF Drained, Shape, TypeOK, Plans
<1>2. QueueFits(queue, port)' /\ CachesFit(queue, port)'
  BY <1>1 DEF Fits, QueueFits, WillFit, CachesFit, caches, wire
<1>3. call.kind \in Transfers => pc' # "access"
  <2>1. call.kind \in Transfers => Len(todo) = 1
    BY <1>1 DEF Shape, Plans
  <2>2. Len(todo) = 1 => Tail(todo) = <<>>
    <3> DEFINE u == Tail(todo)
    <3>1. u \in Seq(AccessType) /\ Len(u) = Len(todo) - 1
      BY <1>1, Rest
    <3> HIDE DEF u
    <3>2. ASSUME Len(todo) = 1 PROVE u = <<>>
      <4>1. Len(u) = 0
        BY <3>1, <3>2
      <4> QED
        BY <3>1, <4>1, NotEmpty
    <3> QED
      BY <3>2 DEF u
  <2> QED
    BY <1>1, <2>1, <2>2 DEF Then
<1>4. DataNext'
  BY <1>1, <1>3 DEF DataNext
<1> QED
  BY <1>2, <1>4 DEF Fits

\* A piece begins with its width, and a call has no piece yet.
LEMMA PlanFits ==
  ASSUME Shape, Fits, Call \/ Piece \/ AllPieces \/ Return
  PROVE  Fits'
<1>1. /\ UNCHANGED <<queue, port, csw>>
      /\ select' \in {select, Unknown}
  BY DEF Call, Block8, Flush, ProbeReset, Reconnect, Begin, Piece, AllPieces, Return, Ended,
         wire, caches
<1>2. QueueFits(queue, port)' /\ CachesFit(queue, port)'
  BY <1>1 DEF Fits, QueueFits, WillFit, CachesFit
<1>3. pc' = "access" /\ call'.kind \in Transfers => Len(todo') = 3
  <2>1. CASE Call
    BY <2>1 DEF Call, Block8, Flush, ProbeReset, Reconnect, Begin, Transfers
  <2>2. CASE Piece
    <3> DEFINE n == Taken(stage, at, left)
    <3>1. pc' = "access" => n # 0 /\ todo' = Accesses(stage, at, n)
      BY <2>2 DEF Piece
    <3>2. n # 0 => Len(Accesses(stage, at, n)) = 3
      BY DEF Accesses
    <3> QED
      BY <3>1, <3>2
  <2>3. CASE AllPieces \/ Return
    BY <2>3 DEF AllPieces, Return, Ended
  <2> QED
    BY <2>1, <2>2, <2>3
<1>4. DataNext'
  BY <1>3 DEF DataNext
<1> QED
  BY <1>2, <1>4 DEF Fits

LEMMA StepFits ==
  ASSUME IInv, [Next]_vars
  PROVE  AccessAsMeant' /\ (Good' => Fits')
<1>0. Shape /\ AccessAsMeant /\ (Good => Fits)
  BY DEF IInv, Shape, Fits
<1>1. CASE UNCHANGED vars
  <2>1. UNCHANGED <<csw, select, call, todo, pc, queue, port, failed, doubt, misplaced>>
    BY <1>1 DEF vars, caches, splitter, wire
  <2>2. Good' => Good
    BY <2>1 DEF Good
  <2>3. Fits => Fits'
    BY <2>1 DEF Fits, QueueFits, WillFit, CachesFit, DataNext
  <2>4. AccessAsMeant'
    BY <1>0, <2>1 DEF AccessAsMeant
  <2> QED
    BY <1>0, <2>2, <2>3, <2>4
<1>2. CASE Call \/ Piece \/ AllPieces \/ Return
  <2>1. UNCHANGED <<doubt, failed, misplaced>>
    BY <1>2 DEF Call, Block8, Flush, ProbeReset, Reconnect, Begin, Piece, AllPieces, Return, wire
  <2>2. Good' => Good
    BY <2>1 DEF Good
  <2> QED
    BY <1>0, <1>2, <2>1, <2>2, PlanFits DEF AccessAsMeant
<1>3. CASE Skip \/ Ask \/ Drained
  <2>1. UNCHANGED <<doubt, failed, misplaced>>
    BY <1>3 DEF Skip, Ask, Drained, wire
  <2>2. Good' => Good
    BY <2>1 DEF Good
  <2> QED
    BY <1>0, <1>3, <2>1, <2>2, SkipFits, AskFits, DrainedFits DEF AccessAsMeant
<1>4. CASE Send
  <2>1. UNCHANGED <<csw, select, call, todo, pc, queue, port, failed, doubt, misplaced>>
    BY <1>4 DEF Send, caches, splitter
  <2>2. Good' => Good
    BY <2>1 DEF Good
  <2>3. Fits => Fits'
    BY <2>1 DEF Fits, QueueFits, WillFit, CachesFit, DataNext
  <2>4. AccessAsMeant'
    BY <1>0, <2>1 DEF AccessAsMeant
  <2> QED
    BY <1>0, <2>2, <2>3, <2>4
<1>5. CASE Abort
  <2>1. ~Good' /\ failed' # "none"
    BY <1>5 DEF Abort, Good
  <2> QED
    BY <2>1 DEF AccessAsMeant
<1>6. CASE Raise
  <2>1. ~misplaced'
    BY <1>6 DEF Raise
  <2> QED
    BY <1>0, <1>6, <2>1, RaiseFits DEF Good, Raise, AccessAsMeant
<1>7. CASE Execute
  BY <1>0, <1>7, ExecuteFits
<1>8. CASE Fail
  <2>1. ~Good'
    BY <1>8 DEF Fail, Good
  <2> QED
    BY <2>1 DEF AccessAsMeant, Good
<1>9. CASE PowerLoss
  <2>1. ~Good'
    BY <1>9 DEF PowerLoss, Good
  <2> QED
    BY <2>1 DEF AccessAsMeant, Good
<1> QED
  BY <1>1, <1>2, <1>3, <1>4, <1>5, <1>6, <1>7, <1>8, <1>9 DEF Next, Host

-----------------------------------------------------------------------------
(* The data.                                                               *)

IsFetch(a) == a.reg = "drw" /\ a.read
IsStore(a) == a.reg = "drw" /\ ~a.read

\* The access to the data of the piece that is being carried out.
Datum == todo[Len(todo)]

PieceKind ==
  pc \in {"access", "drain"} /\ call.kind \in Transfers =>
    Datum.read = (call.kind = "read") /\ Datum.v + Datum.n * Datum.w = at

\* What the stages have left over when all pieces of a stage are taken.
AllTaken ==
  call.kind \in Transfers =>
    /\ stage = 4 => left < 4
    /\ stage = 5 => left < 2
    /\ stage = 6 => left = 0
    /\ pc = "return" => stage = 6

\* Where the calls may be: a write does not wait, flush does nothing else.
Places ==
  /\ pc = "drain" => call.kind # "write"
  /\ call.kind = "flush" => pc \in {"drain", "raise", "return"}
  /\ call.kind = "flush" /\ pc \in {"drain", "raise"} => todo = <<Access("none", 0)>>
  /\ pc = "return" /\ call.kind = "flush" => queue = <<>> /\ failed = "none"
  /\ pc = "idle" <=> call.kind = "none"

\* Reads are in the queue only while somebody waits for them.
NoFetch ==
  ~(call.kind = "read" /\ pc \in {"drain", "raise"}) =>
    \A i \in 1 .. Len(queue) : ~IsFetch(queue[i])

\* Between two pieces of a read nothing is under way.
Begun ==
  call.kind = "read" /\ pc \in {"piece", "return"} =>
    (queue = <<>> /\ failed = "none") \/ (at = call.start /\ got = <<>>)

ByteTypes == got \in Seq(Int) /\ due \in Int

Course == PieceKind /\ AllTaken /\ Places /\ NoFetch /\ Begun /\ ByteTypes

LEMMA StageLeft ==
  ASSUME TypeOK, Splitting, pc = "piece", stage <= 5,
         NEW n, n = Taken(stage, at, left),
         NEW s, s = IF n # 0 /\ stage = 3 THEN 3 ELSE stage + 1
  PROVE  /\ s = 4 => left - n < 4
         /\ (s = 5 /\ left < 4) => left - n < 2
         /\ (s = 6 /\ left < 2) => left - n = 0
<1>1. stage \in 1 .. 5 /\ at \in Nat /\ left \in Nat /\ PageRoom(at) \in Nat \ {0}
  BY AlignedRoom DEF TypeOK
<1>2. CASE stage \in {1, 2}
  BY <1>1, <1>2
<1>3. CASE stage = 3
  BY <1>1, <1>3 DEF Taken, Least
<1>4. CASE stage = 4
  BY <1>1, <1>4 DEF Taken
<1>5. CASE stage = 5
  BY <1>1, <1>5 DEF Taken
<1> QED
  BY <1>1, <1>2, <1>3, <1>4, <1>5

\* The last access of a plan is the same when the first is done.
LEMMA DatumStays ==
  ASSUME NEW t \in Seq(AccessType), t # <<>>, Tail(t) # <<>>
  PROVE  Tail(t)[Len(Tail(t))] = t[Len(t)]
<1> DEFINE u == Tail(t)
<1>1. /\ u \in Seq(AccessType) /\ Len(u) = Len(t) - 1 /\ Len(t) \in Nat
      /\ \A j \in 1 .. Len(t) - 1 : u[j] = t[j + 1]
  BY Rest
<1>2. u # <<>>
  OBVIOUS
<1> HIDE DEF u
<1>3. Len(u) \in 1 .. Len(t) - 1 /\ Len(u) + 1 = Len(t)
  BY <1>1, <1>2, NotEmpty
<1>4. u[Len(u)] = t[Len(t)]
  BY <1>1, <1>3
<1> QED
  BY <1>4 DEF u

\* The two that are about the call alone.
LEMMA StepPiece ==
  ASSUME Shape, PieceKind, AllTaken, Places, [Next]_vars
  PROVE  PieceKind' /\ AllTaken'
<1>1. CASE Call
  <2>1. CASE \E kind \in Transfers, r \in Ranges : Block8(kind, r[1], r[2])
    BY <2>1 DEF Block8, Begin, PieceKind, AllTaken
  <2>2. CASE Flush \/ ProbeReset \/ Reconnect
    BY <2>2 DEF Flush, ProbeReset, Reconnect, Begin, PieceKind, AllTaken, Transfers
  <2> QED
    BY <1>1, <2>1, <2>2 DEF Call, Transfers
<1>2. CASE Piece
  <2> DEFINE n == Taken(stage, at, left)
  <2>1. /\ TypeOK /\ Splitting /\ pc = "piece" /\ stage <= 5 /\ stage \in 1 .. 5
        /\ call' = call /\ call.kind \in Transfers /\ left \in Nat /\ at \in Nat
    BY <1>2 DEF Piece, Shape, TypeOK, Splitting
  <2>2. /\ stage' = IF n # 0 /\ stage = 3 THEN 3 ELSE stage + 1
        /\ at' = at + n /\ left' = left - n
    BY <1>2, <2>1 DEF Piece
  <2>3. /\ stage' = 4 => left - n < 4
        /\ (stage' = 5 /\ left < 4) => left - n < 2
        /\ (stage' = 6 /\ left < 2) => left - n = 0
    BY <2>1, <2>2, StageLeft
  <2>4. (stage' = 5 => stage = 4) /\ (stage' = 6 => stage = 5)
    BY <2>1, <2>2
  <2>5. pc' \in {"piece", "access"}
    BY <1>2, <2>1 DEF Piece
  <2>6. AllTaken'
    BY <2>1, <2>2, <2>3, <2>4, <2>5 DEF AllTaken
  <2>7. CASE n = 0
    <3>1. pc' = "piece"
      BY <1>2, <2>1, <2>7 DEF Piece
    <3> QED
      BY <2>6, <3>1 DEF PieceKind
  <2>8. CASE n # 0
    <3>1. todo' = Accesses(stage, at, n)
      BY <1>2, <2>8 DEF Piece
    <3>2. /\ Len(todo') = 3 /\ todo'[3].v = at /\ todo'[3].n * todo'[3].w = n
      BY <2>1, <2>8, <3>1, AccessesTyped
    <3>3. todo'[3].read = (call.kind = "read")
      BY <3>1 DEF Accesses, Data
    <3> QED
      BY <2>1, <2>2, <2>6, <3>2, <3>3 DEF PieceKind, Datum
  <2> QED
    BY <2>6, <2>7, <2>8
<1>3. CASE AllPieces
  BY <1>3 DEF AllPieces, PieceKind, AllTaken, Shape, TypeOK
<1>4. CASE Return
  <2>1. NoCall.kind \notin Transfers
    BY DEF NoCall, Transfers
  <2> QED
    BY <1>4, <2>1 DEF Return, Ended, PieceKind, AllTaken
<1>5. ASSUME Then(Tail(todo)), todo # <<>>, UNCHANGED <<call, stage, at, left>>,
             pc \in {"access", "drain"}
      PROVE  PieceKind' /\ AllTaken'
  <2>1. pc' = "return" => call.kind \notin Transfers
    BY <1>5 DEF Then, Transfers
  <2>2. pc' = "access" => Tail(todo) # <<>> /\ todo' = Tail(todo)
    BY <1>5 DEF Then
  <2>3. pc' # "drain"
    BY <1>5 DEF Then
  <2>4. pc' = "access" => Datum' = Datum
    BY <1>5, <2>2, DatumStays DEF Datum, Shape, TypeOK
  <2> QED
    BY <1>5, <2>1, <2>3, <2>4 DEF PieceKind, AllTaken
<1>6. CASE Skip \/ Drained
  BY <1>5, <1>6 DEF Skip, Drained, Shape, Plans
<1>7. CASE Ask
  <2>1. CASE Reads(Head(todo))
    BY <1>7, <2>1 DEF Ask, PieceKind, AllTaken, Datum
  <2>2. CASE ~Reads(Head(todo))
    BY <1>5, <1>7, <2>2 DEF Ask
  <2> QED
    BY <2>1, <2>2
<1>8. CASE Send \/ Execute \/ Fail \/ PowerLoss \/ UNCHANGED vars
  BY <1>8 DEF Send, Execute, Fail, PowerLoss, vars, splitter, PieceKind, AllTaken, Datum
<1>9. CASE Abort
  BY <1>9 DEF Abort, PieceKind, AllTaken
<1>10. CASE Raise
  <2>1. call.kind \notin Transfers \/ Ended
    <3>1. ASSUME Head(todo).reg = "id" PROVE call.kind \notin Transfers
      <4>1. pc = "raise" /\ todo # <<>> /\ Head(todo) = todo[1]
        BY <1>10, Rest DEF Raise, Shape, TypeOK, Plans
      <4>2. PieceLeft(todo) => Head(todo).reg # "id"
        BY HeadOfPlan DEF Shape, TypeOK
      <4> QED
        BY <3>1, <4>1, <4>2 DEF Shape, Plans
    <3> QED
      BY <1>10, <3>1 DEF Raise
  <2>2. CASE Ended
    <3>1. NoCall.kind \notin Transfers
      BY DEF NoCall, Transfers
    <3> QED
      BY <2>2, <3>1 DEF Ended, PieceKind, AllTaken
  <2>3. CASE call.kind \notin Transfers /\ ~Ended
    BY <1>10, <2>3 DEF Raise, PieceKind, AllTaken
  <2> QED
    BY <2>1, <2>2, <2>3
<1> QED
  BY <1>1, <1>2, <1>3, <1>4, <1>6, <1>7, <1>8, <1>9, <1>10 DEF Next, Host

\* An access that is asked for: its words are data as it is.
LEMMA AskedData ==
  ASSUME NEW a \in AccessType, NEW c, c = Len(Selecting(a)),
         NEW r, r = Selecting(a) \o Words(a), NEW k \in 1 .. Len(r)
  PROVE  /\ k <= c => ~IsFetch(r[k]) /\ ~IsStore(r[k])
         /\ k > c => (IsFetch(r[k]) <=> IsFetch(a)) /\ (IsStore(r[k]) <=> IsStore(a))
<1> DEFINE W == Words(a)
           S == Selecting(a)
           b == Access("sel", Bank(a))
<1>1. S = <<b>> \/ S = <<>>
  BY DEF Selecting
<1>2. b \in AccessType /\ b.reg = "sel"
  BY AccessTyped DEF Bank, Registers, Access
<1>3. W \in Seq(AccessType) /\ S \in Seq(AccessType) /\ Len(W) = a.n /\ a.n \in Nat /\ Len(S) \in 0 .. 1
  BY WordsTyped, SelectingTyped DEF AccessType
<1>4. \A j \in 1 .. a.n : W[j].reg = a.reg /\ W[j].read = a.read
  <2> TAKE j \in 1 .. a.n
  <2>1. W[j] = [a EXCEPT !.v = a.v + (j - 1) * a.w] /\ W[j].reg = a.reg
    BY WordsTyped
  <2>2. W[j].read = a.read
    BY <2>1 DEF AccessType
  <2> QED
    BY <2>1, <2>2
<1>5. r = S \o W /\ c = Len(S)
  OBVIOUS
<1> HIDE DEF W, S, b
<1>6. /\ k <= c => k = 1 /\ r[k] = S[1]
      /\ k > c => k - c \in 1 .. a.n /\ r[k] = W[k - c]
  BY <1>3, <1>5
<1>7. k <= c => S[1] = b
  BY <1>1, <1>5, <1>6
<1> QED
  BY <1>2, <1>4, <1>6, <1>7 DEF IsFetch, IsStore

LEMMA Small ==
  \A m : /\ m \in 1 .. 3 => (m > 1 => m = 3 \/ m = 2)
         /\ m \in Nat /\ m >= 1 => m = 1 \/ m > 1
OBVIOUS

\* Only a read waits for its data.
LEMMA WhoReads ==
  ASSUME Shape, PieceKind, pc = "access", todo # <<>>
  PROVE  /\ Reads(Head(todo)) /\ call.kind \in Transfers =>
              call.kind = "read" /\ Len(todo) = 1 /\ Head(todo) = Datum
         /\ IsFetch(Head(todo)) => call.kind = "read" /\ Reads(Head(todo))
         /\ IsStore(Head(todo)) => call.kind = "write" /\ ~Reads(Head(todo)) /\ Len(todo) = 1
<1> DEFINE a == Head(todo)
<1>0. Len(todo) \in Nat /\ Len(todo) >= 1
  BY NotEmpty DEF Shape, TypeOK
<1>1. todo \in Seq(AccessType) /\ a = todo[1] /\ Len(todo) \in Nat /\ Len(todo) >= 1
  BY Rest, NotEmpty DEF Shape, TypeOK
<1>2. ASSUME call.kind \in Transfers
      PROVE  /\ Len(todo) > 1 => ~Reads(a) /\ a.reg # "drw"
             /\ Len(todo) = 1 => a = Datum /\ a.reg = "drw" /\ a.read = (call.kind = "read")
  <2>1. PieceLeft(todo)
    BY <1>2 DEF Shape, Plans
  <2>2. Len(todo) > 1 => ~Reads(a) /\ a.reg # "drw"
    <3>1. /\ Len(todo) \in 1 .. 3
          /\ Len(todo) = 3 => a.reg = "csw" /\ ~a.read
          /\ Len(todo) = 2 => a.reg = "tar" /\ ~a.read
      BY <1>1, <2>1, HeadOfPlan
    <3> HIDE DEF a
    <3>2. Len(todo) \in 1 .. 3 => (Len(todo) > 1 => Len(todo) = 3 \/ Len(todo) = 2)
      BY Small, Zenon
    <3> QED
      BY <3>1, <3>2 DEF Reads
  <2>3. Len(todo) = 1 => a = Datum /\ a.reg = "drw"
    BY <1>1, <2>1, HeadOfPlan DEF Datum
  <2>4. Datum.read = (call.kind = "read")
    BY <1>2 DEF PieceKind
  <2> QED
    BY <2>2, <2>3, <2>4
<1>3. call.kind \notin Transfers => a.reg # "drw"
  <2>1. call.kind \notin Transfers => NoData(todo)
    BY DEF Shape, Plans
  <2> QED
    BY <1>1, <2>1 DEF NoData
<1>4. Len(todo) = 1 \/ Len(todo) > 1
  BY <1>0, Small, Zenon
<1> HIDE DEF a
<1>5. (IsFetch(a) \/ IsStore(a)) => call.kind \in Transfers
  BY <1>3 DEF IsFetch, IsStore
<1>6. /\ Reads(a) /\ call.kind \in Transfers => call.kind = "read" /\ Len(todo) = 1 /\ a = Datum
      /\ IsFetch(a) => call.kind = "read" /\ Reads(a)
      /\ IsStore(a) => call.kind = "write" /\ ~Reads(a) /\ Len(todo) = 1
  BY <1>2, <1>4, <1>5 DEF IsFetch, IsStore, Transfers, Reads
<1> QED
  BY <1>6 DEF a

\* A queue with nothing in it stays as it is.
LEMMA NothingSent ==
  ASSUME Shape, queue = <<>>
  PROVE  ~Execute /\ ~Fail /\ ~Send
<1>1. sent = 0
  BY DEF Shape, TypeOK
<1> QED
  BY <1>1 DEF Execute, Fail, Send

LEMMA StepPlaces ==
  ASSUME Shape, PieceKind, Places, [Next]_vars
  PROVE  Places'
<1>1. CASE Call
  <2>1. CASE \E kind \in Transfers, r \in Ranges : Block8(kind, r[1], r[2])
    BY <2>1 DEF Block8, Begin, Places, Transfers
  <2>2. CASE Flush
    BY <2>2 DEF Flush, Begin, Places
  <2>3. CASE ProbeReset \/ Reconnect
    BY <2>3 DEF ProbeReset, Reconnect, Begin, Places
  <2> QED
    BY <1>1, <2>1, <2>2, <2>3 DEF Call, Transfers
<1>2. CASE Piece \/ AllPieces
  <2>1. pc = "piece" /\ call.kind \in Transfers /\ call' = call /\ pc' \in {"piece", "access", "return"}
    BY <1>2 DEF Piece, AllPieces, Shape, Splitting
  <2> QED
    BY <2>1 DEF Places, Transfers
<1>3. CASE Return
  BY <1>3 DEF Return, Ended, Places, NoCall
<1>4. CASE Skip
  <2>1. pc = "access" /\ call' = call /\ pc' \in {"access", "piece", "return"}
    BY <1>4 DEF Skip, Then
  <2> QED
    BY <2>1 DEF Places
<1>5. CASE Ask
  <2>1. pc = "access" /\ call' = call /\ pc' \in {"access", "piece", "return", "drain"} /\ todo # <<>>
    BY <1>5 DEF Ask, Then
  <2>2. pc' = "drain" => Reads(Head(todo))
    BY <1>5 DEF Ask, Then
  <2>3. pc' = "drain" => call.kind # "write"
    BY <2>1, <2>2, WhoReads DEF Transfers
  <2> QED
    BY <2>1, <2>3 DEF Places
<1>6. CASE Drained
  <2>1. pc = "drain" /\ call' = call /\ pc' \in {"access", "piece", "return"} /\ UNCHANGED <<queue, failed>>
        /\ queue = <<>> /\ failed = "none"
    BY <1>6 DEF Drained, Then, Complete, wire
  <2>2. call.kind = "flush" => pc' = "return"
    <3>1. call.kind = "flush" => todo = <<Access("none", 0)>>
      BY <2>1 DEF Places
    <3>2. \A x : Tail(<<x>>) = <<>>
      OBVIOUS
    <3>3. call.kind = "flush" => Tail(todo) = <<>>
      BY <3>1, <3>2
    <3> QED
      BY <1>6, <3>3 DEF Drained, Then
  <2> QED
    BY <2>1, <2>2 DEF Places
<1>7. CASE Send \/ Execute \/ Fail
  <2>1. UNCHANGED <<call, todo, pc>>
    BY <1>7 DEF Send, Execute, Fail, splitter
  <2>2. queue # <<>>
    BY <1>7, NothingSent
  <2> QED
    BY <2>1, <2>2 DEF Places
<1>8. CASE PowerLoss \/ UNCHANGED vars
  BY <1>8 DEF PowerLoss, vars, splitter, wire, Places
<1>9. CASE Abort
  <2>1. pc \in {"drain", "access"} /\ pc' = "raise" /\ UNCHANGED <<call, todo>>
    BY <1>9 DEF Abort
  <2> QED
    BY <2>1 DEF Places
<1>10. CASE Raise
  <2>1. CASE Ended
    BY <2>1 DEF Ended, Places, NoCall
  <2>2. CASE ~Ended
    <3>1. pc = "raise" /\ Head(todo).reg = "id" /\ pc' = "access" /\ call' = call
      BY <1>10, <2>2 DEF Raise
    <3>2. call.kind # "flush"
      BY <3>1 DEF Places, Access
    <3> QED
      BY <3>1, <3>2 DEF Places
  <2> QED
    BY <2>1, <2>2
<1> QED
  BY <1>1, <1>2, <1>3, <1>4, <1>5, <1>6, <1>7, <1>8, <1>9, <1>10 DEF Next, Host

LEMMA Suffix ==
  ASSUME NEW q \in Seq(AccessType), NEW l \in 1 .. Len(q)
  PROVE  LET s == SubSeq(q, l + 1, Len(q))
         IN /\ s \in Seq(AccessType) /\ Len(s) = Len(q) - l
            /\ \A i \in 1 .. Len(s) : s[i] = q[l + i]
OBVIOUS

LEMMA Prefix ==
  ASSUME NEW q \in Seq(AccessType), NEW l \in 0 .. Len(q)
  PROVE  LET s == SubSeq(q, 1, l)
         IN /\ s \in Seq(AccessType) /\ Len(s) = l
            /\ \A i \in 1 .. l : s[i] = q[i]
OBVIOUS

NoneIn(q) == \A i \in 1 .. Len(q) : ~IsFetch(q[i])

LEMMA NoneInMore ==
  ASSUME NEW q \in Seq(AccessType), NEW r \in Seq(AccessType), NoneIn(q), NoneIn(r)
  PROVE  NoneIn(q \o r)
<1> DEFINE s == q \o r
<1>1. /\ Len(q) \in Nat /\ Len(s) = Len(q) + Len(r)
      /\ \A i \in 1 .. Len(q) : s[i] = q[i]
      /\ \A i \in Len(q) + 1 .. Len(s) : i - Len(q) \in 1 .. Len(r) /\ s[i] = r[i - Len(q)]
  OBVIOUS
<1> HIDE DEF s
<1>2. ASSUME NEW i \in 1 .. Len(s) PROVE ~IsFetch(s[i])
  <2>1. i \in 1 .. Len(q) \/ i \in Len(q) + 1 .. Len(s)
    BY <1>1
  <2> QED
    BY <1>1, <2>1 DEF NoneIn
<1> QED
  BY <1>2 DEF NoneIn, s

\* What the probe leaves of a queue has nothing new in it.
LEMMA LessFetch ==
  ASSUME Shape, Execute \/ Fail \/ Abort, NoneIn(queue)
  PROVE  NoneIn(queue')
<1>1. queue \in Seq(AccessType) /\ sent \in 0 .. Len(queue) /\ Len(queue) \in Nat
  BY DEF Shape, TypeOK
<1>2. CASE Execute
  <2>1. queue # <<>> /\ queue' = Tail(queue)
    BY <1>1, <1>2 DEF Execute
  <2>2. Len(queue') = Len(queue) - 1 /\ \A j \in 1 .. Len(queue) - 1 : queue'[j] = queue[j + 1]
    BY <1>1, <2>1, Rest
  <2> QED
    BY <1>1, <2>2 DEF NoneIn
<1>3. CASE Fail
  <2>1. PICK lost \in 1 .. sent : queue' = SubSeq(queue, lost + 1, Len(queue))
    BY <1>3 DEF Fail
  <2>2. lost \in 1 .. Len(queue)
    BY <1>1
  <2>3. Len(queue') = Len(queue) - lost /\ \A i \in 1 .. Len(queue') : queue'[i] = queue[lost + i]
    BY <1>1, <2>1, <2>2, Suffix
  <2>4. \A i \in 1 .. Len(queue') : lost + i \in 1 .. Len(queue)
    BY <1>1, <2>2, <2>3
  <2> QED
    BY <2>3, <2>4 DEF NoneIn
<1>4. CASE Abort
  <2>1. queue' = SubSeq(queue, 1, sent)
    BY <1>4 DEF Abort
  <2>2. Len(queue') = sent /\ \A i \in 1 .. sent : queue'[i] = queue[i]
    BY <1>1, <2>1, Prefix
  <2>3. \A i \in 1 .. sent : i \in 1 .. Len(queue)
    BY <1>1
  <2> QED
    BY <2>2, <2>3 DEF NoneIn
<1> QED
  BY <1>2, <1>3, <1>4

Waiting == call.kind = "read" /\ pc \in {"drain", "raise"}

LEMMA StepNoFetch ==
  ASSUME Shape, PieceKind, NoFetch, [Next]_vars
  PROVE  NoFetch'
<1>0. ~Waiting => NoneIn(queue)
  BY DEF NoFetch, NoneIn, Waiting
<1>1. SUFFICES ASSUME ~Waiting' PROVE NoneIn(queue')
  BY DEF NoFetch, NoneIn, Waiting
<1>2. CASE Call
  BY <1>0, <1>2 DEF Call, Block8, Flush, ProbeReset, Reconnect, Begin, wire, Waiting
<1>3. CASE Piece \/ AllPieces \/ Return \/ Skip
  BY <1>0, <1>3 DEF Piece, AllPieces, Return, Skip, wire, Waiting
<1>4. CASE Ask
  <2> DEFINE a == Head(todo)
             r == Selecting(a) \o Words(a)
  <2>1. a \in AccessType /\ pc = "access" /\ todo # <<>> /\ queue \in Seq(AccessType)
    BY <1>4, Rest DEF Ask, Shape, TypeOK
  <2>2. queue' = queue \o r /\ r \in Seq(AccessType)
    BY <1>4, <2>1, WordsTyped, SelectingTyped DEF Ask
  <2>3. ~IsFetch(a)
    <3>1. Reads(a) => pc' = "drain" /\ call' = call
      BY <1>4 DEF Ask
    <3>2. IsFetch(a) => call.kind = "read" /\ Reads(a)
      BY <2>1, WhoReads
    <3> QED
      BY <1>1, <3>1, <3>2 DEF Waiting
  <2>4. NoneIn(r)
    <3> SUFFICES ASSUME NEW k \in 1 .. Len(r) PROVE ~IsFetch(r[k])
      BY DEF NoneIn
    <3>1. k <= Len(Selecting(a)) \/ k > Len(Selecting(a))
      BY <2>1, SelectingTyped
    <3> QED
      BY <2>1, <2>3, <3>1, AskedData
  <2>5. NoneIn(queue)
    BY <1>0, <2>1 DEF Waiting
  <2> HIDE DEF r
  <2> QED
    BY <2>1, <2>2, <2>4, <2>5, NoneInMore
<1>5. CASE Drained
  <2>1. queue' = <<>>
    BY <1>5 DEF Drained, Complete, wire
  <2> QED
    BY <2>1 DEF NoneIn
<1>6. CASE Send \/ PowerLoss \/ UNCHANGED vars
  BY <1>0, <1>1, <1>6 DEF Send, PowerLoss, vars, splitter, wire, Waiting
<1>7. CASE Execute \/ Fail
  <2>1. ~Waiting
    BY <1>1, <1>7 DEF Execute, Fail, splitter, Waiting
  <2> QED
    BY <1>0, <1>7, <2>1, LessFetch
<1>8. CASE Abort
  <2>1. ~Waiting
    BY <1>1, <1>8 DEF Abort, Waiting
  <2> QED
    BY <1>0, <1>8, <2>1, LessFetch
<1>9. CASE Raise
  BY <1>9 DEF Raise, Cleared, Access, NoneIn, IsFetch
<1> QED
  BY <1>2, <1>3, <1>4, <1>5, <1>6, <1>7, <1>8, <1>9 DEF Next, Host

\* An access of a piece that is skipped, or asked for without waiting, is not
\* the last one of a read.
LEMMA ReadGoesOn ==
  ASSUME Shape, PieceKind, call.kind = "read", Skip \/ (Ask /\ ~Reads(Head(todo)))
  PROVE  pc' = "access" /\ todo' = Tail(todo) /\ Tail(todo) # <<>>
<1>1. /\ pc = "access" /\ todo # <<>> /\ Then(Tail(todo)) /\ todo \in Seq(AccessType)
      /\ Cached(Head(todo)) \/ ~Reads(Head(todo))
  BY DEF Skip, Ask, Shape, TypeOK
<1>2. Len(todo) # 1
  <2>1. PieceLeft(todo) /\ Datum.read
    BY <1>1 DEF Shape, Plans, PieceKind, Transfers
  <2>2. ASSUME Len(todo) = 1 PROVE FALSE
    <3>1. Head(todo).reg = "drw" /\ Head(todo) = todo[1]
      BY <1>1, <2>1, <2>2, HeadOfPlan
    <3>2. Reads(Head(todo))
      BY <2>1, <2>2, <3>1 DEF Datum, Reads
    <3> QED
      BY <1>1, <3>1, <3>2 DEF Cached
  <2> QED
    BY <2>2
<1>3. Tail(todo) # <<>>
  <2>1. Len(Tail(todo)) = Len(todo) - 1 /\ Len(todo) \in Nat
    BY <1>1, Rest
  <2>2. Len(Tail(todo)) # 0
    BY <1>2, <2>1
  <2>3. \A s : s = <<>> => Len(s) = 0
    OBVIOUS
  <2> QED
    BY <2>2, <2>3, Zenon
<1> QED
  BY <1>1, <1>3 DEF Then

LEMMA StepBegun ==
  ASSUME Shape, PieceKind, NoFetch, Begun, [Next]_vars
  PROVE  Begun'
<1>1. CASE Call
  <2>1. CASE \E kind \in Transfers, r \in Ranges : Block8(kind, r[1], r[2])
    BY <2>1 DEF Block8, Begin, Begun
  <2>2. CASE Flush \/ ProbeReset \/ Reconnect
    BY <2>2 DEF Flush, ProbeReset, Reconnect, Begin, Begun
  <2> QED
    BY <1>1, <2>1, <2>2 DEF Call, Transfers
<1>2. CASE Piece \/ AllPieces
  <2>1. pc = "piece" /\ UNCHANGED <<call, got, queue, failed>>
    BY <1>2 DEF Piece, AllPieces, wire
  <2>2. pc' # "access" => at' = at
    BY <1>2 DEF Piece, AllPieces
  <2> QED
    BY <2>1, <2>2 DEF Begun
<1>3. CASE Return
  BY <1>3 DEF Return, Ended, Begun, NoCall
<1>4. CASE Skip \/ Ask
  <2>1. call' = call
    BY <1>4 DEF Skip, Ask
  <2>2. call.kind = "read" => pc' \in {"access", "drain"}
    BY <1>4, ReadGoesOn DEF Ask
  <2> QED
    BY <2>1, <2>2 DEF Begun
<1>5. CASE Drained
  BY <1>5 DEF Drained, Complete, wire, Begun
<1>6. CASE Send \/ Execute \/ Fail
  <2>1. UNCHANGED <<call, pc, at>> /\ queue # <<>>
    BY <1>6, NothingSent DEF Send, Execute, Fail, splitter
  <2>2. ASSUME call.kind = "read", pc \in {"piece", "return"} PROVE got' = got
    <3>1. CASE Execute
      <4>1. ~IsFetch(Head(queue))
        <5>1. queue \in Seq(AccessType) /\ Len(queue) > 0
          BY <2>1, NotEmpty DEF Shape, TypeOK
        <5>2. Head(queue) = queue[1] /\ 1 \in 1 .. Len(queue)
          BY <5>1
        <5> QED
          BY <2>2, <5>2 DEF NoFetch
      <4> QED
        BY <3>1, <4>1 DEF Execute, IsFetch
    <3> QED
      BY <1>6, <3>1 DEF Send, Fail
  <2> QED
    BY <2>1, <2>2 DEF Begun
<1>7. CASE PowerLoss \/ UNCHANGED vars
  BY <1>7 DEF PowerLoss, vars, splitter, wire, Begun
<1>8. CASE Abort
  BY <1>8 DEF Abort, Begun
<1>9. CASE Raise
  <2>1. pc' \in {"idle", "access"}
    BY <1>9 DEF Raise, Ended
  <2> QED
    BY <2>1 DEF Begun
<1> QED
  BY <1>1, <1>2, <1>3, <1>4, <1>5, <1>6, <1>7, <1>8, <1>9 DEF Next, Host

LEMMA BytesTyped ==
  ASSUME NEW p \in PortType, NEW a \in AccessType
  PROVE  /\ Bytes(p, a) \in Seq(Int) /\ Len(Bytes(p, a)) = a.w
         /\ \A k \in 1 .. a.w : p.sel = 0 => Bytes(p, a)[k] = p.tar + k - 1
<1>1. a.w \in Nat /\ p.tar \in Int
  BY DEF AccessType, PortType
<1>2. \A k \in 1 .. a.w : (IF p.sel = 0 THEN p.tar + k - 1 ELSE Unknown) \in Int
  BY <1>1 DEF Unknown
<1> QED
  BY <1>1, <1>2 DEF Bytes

LEMMA StepBytes ==
  ASSUME Shape, ByteTypes, [Next]_vars
  PROVE  ByteTypes'
<1> USE DEF ByteTypes
<1>0. <<>> \in Seq(Int)
  OBVIOUS
<1>1. CASE Call
  <2>1. CASE \E kind \in Transfers, r \in Ranges : Block8(kind, r[1], r[2])
    <3>1. PICK kind \in Transfers, r \in Ranges : Block8(kind, r[1], r[2])
      BY <2>1
    <3>2. r[2] \in Nat
      BY MemApAssumption
    <3> QED
      BY <1>0, <3>1, <3>2 DEF Block8, Begin
  <2>2. CASE Flush \/ ProbeReset \/ Reconnect
    BY <1>0, <2>2 DEF Flush, ProbeReset, Reconnect, Begin
  <2> QED
    BY <1>1, <2>1, <2>2 DEF Call, Transfers
<1>2. CASE Return \/ Raise
  <2>1. got' \in {got, <<>>}
    BY <1>2 DEF Return, Raise, Ended
  <2>2. due' \in {due, 0}
    BY <1>2 DEF Return, Raise
  <2>3. got \in Seq(Int) /\ due \in Int
    OBVIOUS
  <2>4. got' \in Seq(Int)
    BY <1>0, <2>1, <2>3, Zenon
  <2>5. due' \in Int
    BY <2>2, <2>3
  <2> QED
    BY <2>4, <2>5
<1>3. CASE Execute
  <2>1. port \in PortType /\ Head(queue) \in AccessType
    <3>1. queue \in Seq(AccessType) /\ queue # <<>>
      BY <1>3 DEF Execute, Shape, TypeOK
    <3> QED
      BY <3>1, Rest DEF Shape, TypeOK
  <2>2. Bytes(port, Head(queue)) \in Seq(Int) /\ Head(queue).w \in Nat
    BY <2>1, BytesTyped DEF AccessType
  <2> QED
    BY <1>3, <2>2 DEF Execute
<1>4. CASE \/ Piece \/ AllPieces \/ Skip \/ Ask \/ Drained \/ Send \/ Abort
           \/ Fail \/ PowerLoss \/ UNCHANGED vars
  BY <1>4 DEF Piece, AllPieces, Skip, Ask, Drained, Send, Abort, Fail, PowerLoss, vars
<1> QED
  BY <1>1, <1>2, <1>3, <1>4 DEF Next, Host

LEMMA CourseStep ==
  ASSUME Shape, Course, [Next]_vars
  PROVE  Course'
BY StepPiece, StepPlaces, StepNoFetch, StepBegun, StepBytes DEF Course

-----------------------------------------------------------------------------
(* What a read has brought and will bring.                                 *)

\* From the s-th access on the queue fetches the bytes from b up to z.
TilesFrom(q, s, b, z) ==
  /\ \A i \in 1 .. Len(q) : IsFetch(q[i]) <=> i > s
  /\ s = Len(q) => b = z
  /\ s # Len(q) => q[s + 1].v = b /\ q[Len(q)].v + q[Len(q)].w = z
  /\ \A i \in s + 1 .. Len(q) - 1 : q[i + 1].v = q[i].v + q[i].w

Tiles(q, b, z) == \E s \in 0 .. Len(q) : TilesFrom(q, s, b, z)

\* Up to where the bytes have been asked for.
Goal == IF pc = "access" THEN Datum.v ELSE at

\* The bytes are those of the addresses from the call's first one on.
Counted(g, start) == \A k \in 1 .. Len(g) : g[k] = start + k - 1

\* The bytes that are there and the ones under way are the call's, in order.
ReadInv ==
  call.kind = "read" /\ Good =>
    /\ Counted(got, call.start)
    /\ Tiles(queue, call.start + Len(got), Goal)

LEMMA TilesNone ==
  ASSUME NEW q \in Seq(AccessType), NoneIn(q), NEW b, NEW z
  PROVE  Tiles(q, b, z) <=> b = z
<1>0. Len(q) \in Nat
  OBVIOUS
<1>1. ASSUME b = z PROVE Tiles(q, b, z)
  <2>1. TilesFrom(q, Len(q), b, z)
    BY <1>0, <1>1 DEF TilesFrom, NoneIn
  <2>2. Len(q) \in 0 .. Len(q)
    BY <1>0
  <2> QED
    BY <2>1, <2>2 DEF Tiles
<1>2. ASSUME Tiles(q, b, z) PROVE b = z
  <2>1. PICK s \in 0 .. Len(q) : TilesFrom(q, s, b, z)
    BY <1>2 DEF Tiles
  <2>2. CASE s = Len(q)
    BY <2>1, <2>2 DEF TilesFrom
  <2>3. CASE s # Len(q)
    <3>1. Len(q) \in 1 .. Len(q) /\ Len(q) > s
      BY <1>0, <2>3
    <3>2. IsFetch(q[Len(q)])
      BY <2>1, <3>1 DEF TilesFrom
    <3> QED
      BY <3>1, <3>2 DEF NoneIn
  <2> QED
    BY <2>2, <2>3
<1> QED
  BY <1>1, <1>2

\* One access has been carried out.
LEMMA TilesTail ==
  ASSUME NEW q \in Seq(AccessType), q # <<>>, NEW b \in Int, NEW z \in Int, Tiles(q, b, z),
         NEW a, a = Head(q), NEW b2, b2 = IF IsFetch(a) THEN b + a.w ELSE b
  PROVE  Tiles(Tail(q), b2, z) /\ (IsFetch(a) => a.v = b)
<1> DEFINE t == Tail(q)
<1>1. /\ a = q[1] /\ a \in AccessType /\ t \in Seq(AccessType) /\ Len(t) = Len(q) - 1
      /\ \A j \in 1 .. Len(q) - 1 : t[j] = q[j + 1]
      /\ Len(q) \in Nat \ {0}
  BY Rest, NotEmpty
<1>2. PICK s \in 0 .. Len(q) : TilesFrom(q, s, b, z)
  BY DEF Tiles
<1>3. /\ \A i \in 1 .. Len(q) : IsFetch(q[i]) <=> i > s
      /\ s = Len(q) => b = z
      /\ s # Len(q) => q[s + 1].v = b /\ q[Len(q)].v + q[Len(q)].w = z
      /\ \A i \in s + 1 .. Len(q) - 1 : q[i + 1].v = q[i].v + q[i].w
  BY <1>2 DEF TilesFrom
<1>4. IsFetch(a) <=> s = 0
  <2>1. 1 \in 1 .. Len(q) /\ (1 > s <=> s = 0)
    BY <1>1
  <2> QED
    BY <1>1, <1>3, <2>1
<1> HIDE DEF t
<1>5. CASE s = 0
  <2>1. a.v = b /\ b2 = b + a.w
    BY <1>1, <1>3, <1>4, <1>5
  <2>2. \A i \in 1 .. Len(t) : IsFetch(t[i]) <=> i > 0
    <3> TAKE i \in 1 .. Len(t)
    <3>1. i + 1 \in 1 .. Len(q) /\ i + 1 > s /\ i > 0 /\ t[i] = q[i + 1]
      BY <1>1, <1>5
    <3> QED
      BY <1>3, <3>1
  <2>3. 0 = Len(t) => b2 = z
    BY <1>1, <1>3, <1>5, <2>1
  <2>4. 0 # Len(t) => t[0 + 1].v = b2 /\ t[Len(t)].v + t[Len(t)].w = z
    <3> SUFFICES ASSUME 0 # Len(t) PROVE t[1].v = b2 /\ t[Len(t)].v + t[Len(t)].w = z
      OBVIOUS
    <3>1. t[1] = q[2] /\ t[Len(t)] = q[Len(q)]
      BY <1>1
    <3>2. 1 \in s + 1 .. Len(q) - 1
      BY <1>1, <1>5
    <3>3. q[2].v = q[1].v + q[1].w
      BY <1>3, <3>2
    <3> QED
      BY <1>1, <1>3, <1>5, <2>1, <3>1, <3>3
  <2>5. \A i \in 0 + 1 .. Len(t) - 1 : t[i + 1].v = t[i].v + t[i].w
    <3> TAKE i \in 0 + 1 .. Len(t) - 1
    <3>1. i + 1 \in s + 1 .. Len(q) - 1 /\ t[i] = q[i + 1] /\ t[i + 1] = q[(i + 1) + 1]
      BY <1>1, <1>5
    <3> QED
      BY <1>3, <3>1
  <2>6. TilesFrom(t, 0, b2, z)
    BY <2>2, <2>3, <2>4, <2>5 DEF TilesFrom
  <2>7. 0 \in 0 .. Len(t)
    BY <1>1
  <2>8. Tiles(t, b2, z)
    BY <2>6, <2>7 DEF Tiles
  <2> QED
    BY <2>1, <2>8 DEF t
<1>6. CASE s > 0
  <2>0. b2 = b /\ ~IsFetch(a)
    BY <1>4, <1>6
  <2> DEFINE s2 == s - 1
  <2>1. s2 \in 0 .. Len(t) /\ s = s2 + 1 /\ s2 \in Nat /\ (s2 = Len(t) <=> s = Len(q))
    BY <1>1, <1>6
  <2> HIDE DEF s2
  <2>2. \A i \in 1 .. Len(t) : IsFetch(t[i]) <=> i > s2
    <3> TAKE i \in 1 .. Len(t)
    <3>1. i + 1 \in 1 .. Len(q) /\ (i + 1 > s <=> i > s2) /\ t[i] = q[i + 1]
      BY <1>1, <2>1
    <3> QED
      BY <1>3, <3>1
  <2>3. s2 = Len(t) => b2 = z
    BY <1>3, <2>0, <2>1
  <2>4. s2 # Len(t) => t[s2 + 1].v = b2 /\ t[Len(t)].v + t[Len(t)].w = z
    <3> SUFFICES ASSUME s2 # Len(t) PROVE t[s2 + 1].v = b2 /\ t[Len(t)].v + t[Len(t)].w = z
      OBVIOUS
    <3>1. t[s2 + 1] = q[s + 1] /\ t[Len(t)] = q[Len(q)]
      BY <1>1, <2>1
    <3> QED
      BY <1>3, <2>0, <2>1, <3>1
  <2>5. \A i \in s2 + 1 .. Len(t) - 1 : t[i + 1].v = t[i].v + t[i].w
    <3> TAKE i \in s2 + 1 .. Len(t) - 1
    <3>1. i + 1 \in s + 1 .. Len(q) - 1 /\ t[i] = q[i + 1] /\ t[i + 1] = q[(i + 1) + 1]
      BY <1>1, <2>1
    <3> QED
      BY <1>3, <3>1
  <2>6. TilesFrom(t, s2, b2, z)
    BY <2>2, <2>3, <2>4, <2>5 DEF TilesFrom
  <2>7. Tiles(t, b2, z)
    BY <2>1, <2>6 DEF Tiles
  <2> QED
    BY <2>0, <2>7 DEF t
<1> QED
  BY <1>5, <1>6

\* The words of a block follow one another.
LEMMA WordSteps ==
  ASSUME NEW a \in AccessType, a.w \in Widths, NEW k \in Nat \ {0}
  PROVE  /\ WordAt(a, k) \in Int /\ WordAt(a, 1) = a.v
         /\ WordAt(a, k + 1) = WordAt(a, k) + a.w
         /\ WordAt(a, k) + a.w = a.v + k * a.w
<1>0. a.v \in Int
  BY DEF AccessType
<1>1. CASE a.w = 1
  BY <1>0, <1>1 DEF WordAt
<1>2. CASE a.w = 2
  BY <1>0, <1>2 DEF WordAt
<1>3. CASE a.w = 4
  BY <1>0, <1>3 DEF WordAt
<1> QED
  BY <1>1, <1>2, <1>3 DEF Widths

LEMMA Joined ==
  ASSUME NEW q \in Seq(AccessType), NEW r \in Seq(AccessType)
  PROVE  /\ Len(q) \in Nat /\ Len(q \o r) = Len(q) + Len(r) /\ Len(r) \in Nat
         /\ \A i \in 1 .. Len(q) : (q \o r)[i] = q[i]
         /\ \A i \in Len(q) + 1 .. Len(q \o r) : (q \o r)[i] = r[i - Len(q)]
OBVIOUS

\* The accesses a read asks for.
LEMMA TilesAsked ==
  ASSUME NEW q \in Seq(AccessType), NoneIn(q),
         NEW a \in AccessType, a.w \in Widths, NEW c, NEW r, Asks(a, c, r),
         \A k \in 1 .. Len(r) : IsFetch(r[k]) <=> k > c
  PROVE  Tiles(q \o r, a.v, a.v + a.n * a.w)
<1> DEFINE t == q \o r
           s == Len(q) + c
<1>1. /\ r \in Seq(AccessType) /\ Len(r) = c + a.n /\ c \in 0 .. 1 /\ a.n \in Nat \ {0}
      /\ \A k \in c + 1 .. Len(r) : r[k].w = a.w /\ r[k].v = WordAt(a, k - c)
  BY DEF Asks
<1>2. /\ Len(q) \in Nat /\ Len(t) = Len(q) + Len(r) /\ Len(r) \in Nat
      /\ \A i \in 1 .. Len(q) : t[i] = q[i]
      /\ \A i \in Len(q) + 1 .. Len(t) : t[i] = r[i - Len(q)]
  BY <1>1, Joined
<1>3. s = Len(q) + c
  OBVIOUS
<1> HIDE DEF t, s
<1>4. /\ s \in Nat /\ s < Len(t) /\ Len(t) \in Nat /\ Len(t) - s = a.n /\ s >= Len(q)
      /\ \A i \in s + 1 .. Len(t) : /\ i \in Len(q) + 1 .. Len(t) /\ i - Len(q) \in c + 1 .. Len(r)
                                   /\ (i - Len(q)) - c = i - s
  <2> DEFINE lq == Len(q)
             lr == Len(r)
             lt == Len(t)
             n == a.n
  <2>1. lq \in Nat /\ lr = c + n /\ lt = lq + lr /\ s = lq + c /\ c \in 0 .. 1 /\ n \in Nat \ {0}
    BY <1>1, <1>2, <1>3
  <2> HIDE DEF lq, lr, lt, n
  <2>2. s \in Nat /\ s < lt /\ lt \in Nat /\ lt - s = n /\ s >= lq
    BY <2>1
  <2>3. \A i \in s + 1 .. lt : i \in lq + 1 .. lt /\ i - lq \in c + 1 .. lr /\ (i - lq) - c = i - s
    BY <2>1
  <2> QED
    BY <2>2, <2>3 DEF lq, lr, lt, n
<1>5. \A i \in s + 1 .. Len(t) : t[i].w = a.w /\ t[i].v = WordAt(a, i - s)
  <2> TAKE i \in s + 1 .. Len(t)
  <2>1. /\ i \in Len(q) + 1 .. Len(t) /\ i - Len(q) \in c + 1 .. Len(r)
        /\ (i - Len(q)) - c = i - s
    BY <1>4
  <2> QED
    BY <1>1, <1>2, <2>1
<1>6. \A i \in 1 .. Len(t) : IsFetch(t[i]) <=> i > s
  <2> TAKE i \in 1 .. Len(t)
  <2>1. CASE i <= Len(q)
    <3>1. i \in 1 .. Len(q) /\ ~(i > s)
      BY <1>2, <1>4, <2>1
    <3> QED
      BY <1>2, <3>1 DEF NoneIn
  <2>2. CASE i > Len(q)
    <3>1. i \in Len(q) + 1 .. Len(t) /\ i - Len(q) \in 1 .. Len(r) /\ (i - Len(q) > c <=> i > s)
      BY <1>1, <1>2, <1>3, <2>2
    <3> QED
      BY <1>2, <3>1
  <2> QED
    BY <1>2, <2>1, <2>2
<1>7. t[s + 1].v = a.v
  <2>1. s + 1 \in s + 1 .. Len(t) /\ (s + 1) - s = 1
    BY <1>4
  <2>2. t[s + 1].v = WordAt(a, 1)
    BY <1>5, <2>1
  <2>3. WordAt(a, 1) = a.v
    BY WordSteps
  <2> QED
    BY <2>2, <2>3
<1>8. t[Len(t)].v + t[Len(t)].w = a.v + a.n * a.w
  <2>1. Len(t) \in s + 1 .. Len(t)
    BY <1>4
  <2>2. t[Len(t)].v = WordAt(a, a.n) /\ t[Len(t)].w = a.w
    BY <1>4, <1>5, <2>1
  <2>3. WordAt(a, a.n) + a.w = a.v + a.n * a.w
    BY <1>1, WordSteps
  <2> QED
    BY <2>2, <2>3, Zenon
<1>9. \A i \in s + 1 .. Len(t) - 1 : t[i + 1].v = t[i].v + t[i].w
  <2> TAKE i \in s + 1 .. Len(t) - 1
  <2>1. i \in s + 1 .. Len(t) /\ i + 1 \in s + 1 .. Len(t) /\ i - s \in Nat \ {0}
        /\ (i + 1) - s = (i - s) + 1
    BY <1>4
  <2>2. WordAt(a, (i - s) + 1) = WordAt(a, i - s) + a.w
    BY <2>1, WordSteps
  <2>3. /\ t[i].v = WordAt(a, i - s) /\ t[i].w = a.w
        /\ t[i + 1].v = WordAt(a, (i + 1) - s)
    BY <1>5, <2>1
  <2> QED
    BY <2>1, <2>2, <2>3, Zenon
<1>10. TilesFrom(t, s, a.v, a.v + a.n * a.w)
  BY <1>4, <1>6, <1>7, <1>8, <1>9 DEF TilesFrom
<1>11. s \in 0 .. Len(t)
  BY <1>4
<1> QED
  BY <1>10, <1>11 DEF Tiles, t

LEMMA ReadEnds ==
  ASSUME NEW g \in Seq(Int), NEW h \in Seq(Int), NEW start \in Int,
         Counted(g, start), \A k \in 1 .. Len(h) : h[k] = (start + Len(g)) + k - 1
  PROVE  Counted(g \o h, start) /\ Len(g \o h) = Len(g) + Len(h)
<1> DEFINE t == g \o h
<1>1. /\ Len(g) \in Nat /\ Len(t) = Len(g) + Len(h) /\ Len(h) \in Nat
      /\ \A i \in 1 .. Len(g) : t[i] = g[i]
      /\ \A i \in Len(g) + 1 .. Len(t) : t[i] = h[i - Len(g)]
  OBVIOUS
<1> HIDE DEF t
<1>2. ASSUME NEW k \in 1 .. Len(t) PROVE t[k] = start + k - 1
  <2>1. CASE k <= Len(g)
    <3>1. k \in 1 .. Len(g)
      BY <1>1, <2>1
    <3> QED
      BY <1>1, <3>1 DEF Counted
  <2>2. CASE k > Len(g)
    <3>1. k - Len(g) \in 1 .. Len(h) /\ k \in Len(g) + 1 .. Len(t)
      BY <1>1, <2>2
    <3>2. t[k] = (start + Len(g)) + (k - Len(g)) - 1
      BY <1>1, <3>1
    <3> QED
      BY <1>1, <3>2
  <2> QED
    BY <1>1, <2>1, <2>2
<1> QED
  BY <1>1, <1>2 DEF Counted, t

\* Execute: a read brings the bytes that come next.
LEMMA ReadExecute ==
  ASSUME Shape, Good => Fits, ByteTypes, PieceKind, ReadInv, Execute
  PROVE  ReadInv'
<1>1. UNCHANGED <<call, pc, at, todo, doubt, failed>>
  BY DEF Execute, splitter
<1>2. SUFFICES ASSUME call.kind = "read", Good
               PROVE  /\ Counted(got', call.start)
                      /\ Tiles(queue', call.start + Len(got'), Goal)
  BY <1>1 DEF ReadInv, Good, Goal, Datum
<1> DEFINE a == Head(queue)
           b == call.start + Len(got)
<1>3. /\ queue \in Seq(AccessType) /\ queue # <<>> /\ port \in PortType /\ a \in AccessType
      /\ queue' = Tail(queue) /\ a = queue[1] /\ Len(queue) \in Nat \ {0}
      /\ got \in Seq(Int) /\ call.start \in Nat
  BY Rest, NotEmpty DEF Execute, Shape, TypeOK, ByteTypes, CallType
<1>4. got' = IF IsFetch(a) THEN got \o Bytes(port, a) ELSE got
  BY DEF Execute, IsFetch
<1>5. b \in Int /\ Len(got) \in Nat /\ b = call.start + Len(got)
  BY <1>3
<1>6. Goal \in Int
  <2>1. CASE pc = "access"
    <3>1. PieceLeft(todo)
      BY <1>2, <2>1 DEF Shape, Plans, Transfers
    <3> QED
      BY <2>1, <3>1 DEF Goal, Datum, PieceLeft
  <2>2. CASE pc # "access"
    BY <2>2 DEF Goal, Shape, TypeOK
  <2> QED
    BY <2>1, <2>2
<1>7. Counted(got, call.start) /\ Tiles(queue, b, Goal)
  BY <1>2 DEF ReadInv
<1>8. WillFit(queue, port, 1)
  <2>1. QueueFits(queue, port)
    BY <1>2 DEF Fits
  <2> QED
    BY <1>3, <2>1 DEF QueueFits
<1>9. IsFetch(a) => port.sel = 0 /\ port.tar = a.v
  BY <1>3, <1>8 DEF WillFit, IsFetch, IsAP, Bank, Before, TarBefore
<1> HIDE DEF a, b
<1>10. CASE IsFetch(a)
  <2>1. Tiles(queue', b + a.w, Goal) /\ a.v = b
    BY <1>3, <1>5, <1>6, <1>7, <1>10, TilesTail DEF a
  <2> DEFINE h == Bytes(port, a)
  <2>2. h \in Seq(Int) /\ Len(h) = a.w /\ \A k \in 1 .. Len(h) : h[k] = b + k - 1
    BY <1>3, <1>9, <1>10, <2>1, BytesTyped
  <2>3. got' = got \o h
    BY <1>4, <1>10
  <2> HIDE DEF h
  <2>4. Counted(got', call.start) /\ Len(got') = Len(got) + Len(h)
    <3>1. call.start \in Int /\ \A k \in 1 .. Len(h) : h[k] = (call.start + Len(got)) + k - 1
      BY <1>3, <1>5, <2>2
    <3> QED
      BY <1>3, <1>7, <2>2, <2>3, <3>1, ReadEnds
  <2>5. call.start + Len(got') = b + a.w
    <3>1. a.w \in Nat
      BY <1>3 DEF AccessType
    <3>2. \A x, y, w \in Int : x + (y + w) = (x + y) + w
      OBVIOUS
    <3>3. /\ call.start \in Int /\ Len(got) \in Int /\ a.w \in Int /\ b = call.start + Len(got)
          /\ Len(got') = Len(got) + a.w
      BY <1>3, <1>5, <2>2, <2>4, <3>1
    <3>4. call.start + Len(got') = call.start + (Len(got) + a.w)
      BY <3>3, Zenon
    <3>5. b + a.w = (call.start + Len(got)) + a.w
      BY <3>3, Zenon
    <3>6. call.start + (Len(got) + a.w) = (call.start + Len(got)) + a.w
      BY <3>2, <3>3, Zenon
    <3> QED
      BY <3>4, <3>5, <3>6, Zenon
  <2> QED
    BY <2>1, <2>4, <2>5
<1>11. CASE ~IsFetch(a)
  <2>1. Tiles(queue', b, Goal)
    BY <1>3, <1>5, <1>6, <1>7, <1>11, TilesTail DEF a
  <2> QED
    BY <1>4, <1>5, <1>7, <1>11, <2>1
<1> QED
  BY <1>10, <1>11

\* Ask: a read asks for the bytes behind the ones it has.
LEMMA ReadAsk ==
  ASSUME Shape, PieceKind, NoFetch, ReadInv, Ask
  PROVE  ReadInv'
<1> DEFINE a == Head(todo)
           c == Len(Selecting(a))
           r == Selecting(a) \o Words(a)
<1>1. UNCHANGED <<call, at, got, doubt, failed>>
  BY DEF Ask
<1>2. SUFFICES ASSUME call.kind = "read", Good
               PROVE  Tiles(queue', call.start + Len(got), Goal')
  BY <1>1 DEF ReadInv, Good
<1>3. /\ queue \in Seq(AccessType) /\ a \in AccessType /\ pc = "access" /\ todo # <<>>
      /\ todo \in Seq(AccessType)
  BY Rest DEF Ask, Shape, TypeOK
<1>4. NoneIn(queue)
  BY <1>3 DEF NoFetch, NoneIn
<1>5. call.start + Len(got) = Datum.v
  <2>1. Tiles(queue, call.start + Len(got), Datum.v)
    BY <1>2, <1>3 DEF ReadInv, Goal
  <2> QED
    BY <1>3, <1>4, <2>1, TilesNone
<1>6. queue' = queue \o r /\ Asks(a, c, r) /\ r \in Seq(AccessType)
  <2>1. Asks(a, c, r)
    BY <1>3, Asked
  <2>2. queue' = queue \o r
    BY DEF Ask
  <2> QED
    BY <2>1, <2>2 DEF Asks
<1>7. CASE Reads(a)
  <2>1. a = Datum /\ Len(todo) = 1 /\ IsFetch(a) /\ a.w \in Widths /\ Datum.v + Datum.n * Datum.w = at
    <3>1. a = Datum /\ Len(todo) = 1
      BY <1>2, <1>3, <1>7, WhoReads DEF Transfers
    <3>2. PieceLeft(todo) /\ Datum.read /\ Datum.v + Datum.n * Datum.w = at
      BY <1>2, <1>3 DEF Shape, Plans, PieceKind, Transfers
    <3> QED
      BY <3>1, <3>2 DEF PieceLeft, Datum, IsFetch
  <2>2. \A k \in 1 .. Len(r) : IsFetch(r[k]) <=> k > c
    <3> TAKE k \in 1 .. Len(r)
    <3>1. k <= c \/ k > c
      BY <1>6 DEF Asks
    <3>2. k <= c => ~IsFetch(r[k])
      BY <1>3, AskedData
    <3>3. k > c => IsFetch(r[k])
      BY <1>3, <2>1, AskedData
    <3>4. k <= c => ~(k > c)
      BY <1>6 DEF Asks
    <3> QED
      BY <3>1, <3>2, <3>3, <3>4
  <2>3. pc' = "drain"
    BY <1>7 DEF Ask
  <2>4. Goal' = Datum.v + Datum.n * Datum.w
    BY <1>1, <2>1, <2>3 DEF Goal
  <2> HIDE DEF a, c, r
  <2>5. Tiles(queue \o r, a.v, a.v + a.n * a.w)
    BY <1>3, <1>4, <1>6, <2>1, <2>2, TilesAsked
  <2> QED
    BY <1>5, <1>6, <2>1, <2>4, <2>5
<1>8. CASE ~Reads(a)
  <2>1. pc' = "access" /\ todo' = Tail(todo) /\ Tail(todo) # <<>>
    BY <1>2, <1>8, ReadGoesOn
  <2>2. Goal' = Datum.v
    BY <1>3, <2>1, DatumStays DEF Goal, Datum
  <2>3. ~IsFetch(a)
    BY <1>3, <1>8, WhoReads
  <2>4. NoneIn(r)
    <3> SUFFICES ASSUME NEW k \in 1 .. Len(r) PROVE ~IsFetch(r[k])
      BY DEF NoneIn
    <3>1. k <= Len(Selecting(a)) \/ k > Len(Selecting(a))
      BY <1>3, SelectingTyped
    <3> QED
      BY <1>3, <2>3, <3>1, AskedData
  <2> HIDE DEF a, c, r
  <2>5. NoneIn(queue \o r) /\ queue \o r \in Seq(AccessType)
    BY <1>3, <1>4, <1>6, <2>4, NoneInMore
  <2>6. \A y, z : Tiles(queue \o r, y, z) <=> y = z
    BY <2>5, TilesNone
  <2> QED
    BY <1>5, <1>6, <2>2, <2>6, Zenon
<1> QED
  BY <1>7, <1>8

LEMMA LastOne ==
  ASSUME NEW t \in Seq(AccessType), Len(t) = 1
  PROVE  Tail(t) = <<>>
<1> DEFINE u == Tail(t)
<1>1. t # <<>>
  OBVIOUS
<1>2. u \in Seq(AccessType) /\ Len(u) = 0
  BY <1>1, Rest
<1> HIDE DEF u
<1>3. ~(Len(u) > 0)
  BY <1>2
<1> QED
  BY <1>2, <1>3, NotEmpty DEF u

LEMMA ReadStep ==
  ASSUME IInv, Course, ReadInv, [Next]_vars
  PROVE  ReadInv'
<1>0. Shape /\ (Good => Fits) /\ PieceKind /\ NoFetch /\ Places /\ ByteTypes
  BY DEF IInv, Shape, Fits, Course
<1>1. CASE Call
  <2>1. CASE \E kind \in Transfers, r \in Ranges : Block8(kind, r[1], r[2])
    <3>1. PICK kind \in Transfers, r \in Ranges : Block8(kind, r[1], r[2])
      BY <2>1
    <3>2. /\ pc = "idle" /\ pc' = "piece" /\ got' = <<>> /\ queue' = queue
          /\ call'.start = r[1] /\ at' = r[1] /\ r[1] \in Nat
      BY <3>1, MemApAssumption DEF Block8, Begin, wire
    <3>3. Counted(got', call'.start) /\ call'.start + Len(got') = at'
      BY <3>2 DEF Counted
    <3>4. NoneIn(queue)
      BY <1>0, <3>2 DEF NoFetch, NoneIn
    <3>5. Tiles(queue', at', at')
      BY <1>0, <3>2, <3>4, TilesNone DEF Shape, TypeOK
    <3>6. Goal' = at'
      BY <3>2 DEF Goal
    <3> QED
      BY <3>3, <3>5, <3>6 DEF ReadInv
  <2>2. CASE Flush \/ ProbeReset \/ Reconnect
    BY <2>2 DEF Flush, ProbeReset, Reconnect, Begin, ReadInv
  <2> QED
    BY <1>1, <2>1, <2>2 DEF Call, Transfers
<1>2. CASE Piece
  <2>1. pc = "piece" /\ UNCHANGED <<call, got, queue, doubt, failed>>
    BY <1>2 DEF Piece, wire
  <2>2. Goal' = Goal
    <3> DEFINE n == Taken(stage, at, left)
    <3>1. CASE n = 0
      BY <1>2, <2>1, <3>1 DEF Piece, Goal
    <3>2. CASE n # 0
      <4>1. todo' = Accesses(stage, at, n) /\ pc' = "access" /\ stage <= 5
        BY <1>2, <3>2 DEF Piece
      <4>2. Len(todo') = 3 /\ todo'[3].v = at
        BY <1>0, <2>1, <3>2, <4>1, AccessesTyped DEF Shape
      <4> QED
        BY <2>1, <4>1, <4>2 DEF Goal, Datum
    <3> QED
      BY <3>1, <3>2
  <2> QED
    BY <2>1, <2>2 DEF ReadInv, Good
<1>3. CASE AllPieces
  BY <1>3 DEF AllPieces, wire, ReadInv, Good, Goal
<1>4. CASE Return
  BY <1>4 DEF Return, Ended, NoCall, ReadInv
<1>5. CASE Skip
  <2>1. pc = "access" /\ todo # <<>> /\ UNCHANGED <<call, got, queue, doubt, failed>>
    BY <1>5 DEF Skip, wire
  <2>2. call.kind = "read" => pc' = "access" /\ todo' = Tail(todo) /\ Tail(todo) # <<>>
    BY <1>0, <1>5, ReadGoesOn
  <2>3. call.kind = "read" => Goal' = Goal
    BY <1>0, <2>1, <2>2, DatumStays DEF Goal, Datum, Shape, TypeOK
  <2> QED
    BY <2>1, <2>3 DEF ReadInv, Good
<1>6. CASE Ask
  BY <1>0, <1>6, ReadAsk
<1>7. CASE Drained
  <2>1. pc = "drain" /\ UNCHANGED <<call, at, got, queue, doubt, failed>> /\ Then(Tail(todo))
    BY <1>7 DEF Drained, wire
  <2>2. call.kind = "read" => pc' # "access"
    <3> SUFFICES ASSUME call.kind = "read" PROVE Tail(todo) = <<>>
      BY <2>1 DEF Then
    <3>1. Len(todo) = 1 /\ todo # <<>> /\ todo \in Seq(AccessType)
      BY <1>0, <2>1 DEF Shape, TypeOK, Plans, Transfers
    <3> QED
      BY <3>1, LastOne
  <2> QED
    BY <2>1, <2>2 DEF ReadInv, Good, Goal
<1>8. CASE Send \/ UNCHANGED vars
  BY <1>8 DEF Send, vars, splitter, wire, ReadInv, Good, Goal, Datum
<1>9. CASE Execute
  BY <1>0, <1>9, ReadExecute
<1>10. CASE Fail \/ PowerLoss
  BY <1>10 DEF Fail, PowerLoss, ReadInv, Good
<1>11. CASE Abort
  BY <1>11 DEF Abort, ReadInv, Good
<1>12. CASE Raise
  <2>1. CASE Ended
    BY <2>1 DEF Ended, NoCall, ReadInv
  <2>2. CASE ~Ended
    <3>1. Head(todo).reg = "id" /\ doubt' = ~Guarded(Head(todo))
      BY <1>12, <2>2 DEF Raise
    <3>2. doubt'
      BY <3>1 DEF Guarded
    <3> QED
      BY <3>2 DEF ReadInv, Good
  <2> QED
    BY <2>1, <2>2
<1> QED
  BY <1>1, <1>2, <1>3, <1>4, <1>5, <1>6, <1>7, <1>8, <1>9, <1>10, <1>11, <1>12 DEF Next, Host

-----------------------------------------------------------------------------
(* What has been written and not carried out.                              *)

Stored(a) == IF IsStore(a) THEN a.w ELSE 0

\* f counts the bytes the accesses of q store.
Sums(q, f) ==
  /\ f \in [0 .. Len(q) -> Int] /\ f[0] = 0
  /\ \A i \in 1 .. Len(q) : f[i] = f[i - 1] + Stored(q[i])

StoredBy(q, x) == \E f : Sums(q, f) /\ f[Len(q)] = x

\* The bytes of the call that have not been asked for.
ToCome ==
  IF call.kind # "write" THEN 0
  ELSE IF pc = "access" THEN call.start + call.len - Datum.v ELSE left

\* What is due is in the queue or still to be asked for.
DueInv == failed = "none" => StoredBy(queue, due - ToCome)

LEMMA StoredInt ==
  ASSUME NEW a \in AccessType
  PROVE  Stored(a) \in Int
BY DEF Stored, AccessType

LEMMA StoredNone ==
  ASSUME NEW q \in Seq(AccessType), \A i \in 1 .. Len(q) : ~IsStore(q[i])
  PROVE  StoredBy(q, 0)
<1> DEFINE f == [i \in 0 .. Len(q) |-> 0]
<1>1. Len(q) \in Nat
  OBVIOUS
<1>2. f \in [0 .. Len(q) -> Int] /\ \A i \in 0 .. Len(q) : f[i] = 0
  OBVIOUS
<1> HIDE DEF f
<1>3. \A i \in 1 .. Len(q) : i - 1 \in 0 .. Len(q) /\ i \in 0 .. Len(q) /\ Stored(q[i]) = 0
  BY <1>1 DEF Stored
<1>4. 0 \in 0 .. Len(q) /\ Len(q) \in 0 .. Len(q)
  BY <1>1
<1>5. Sums(q, f)
  BY <1>2, <1>3, <1>4 DEF Sums
<1> QED
  BY <1>2, <1>4, <1>5 DEF StoredBy

LEMMA StoredTail ==
  ASSUME NEW q \in Seq(AccessType), q # <<>>, NEW x \in Int, StoredBy(q, x)
  PROVE  StoredBy(Tail(q), x - Stored(Head(q)))
<1> DEFINE t == Tail(q)
<1>1. /\ Head(q) = q[1] /\ Head(q) \in AccessType /\ t \in Seq(AccessType) /\ Len(t) = Len(q) - 1
      /\ \A j \in 1 .. Len(q) - 1 : t[j] = q[j + 1]
      /\ Len(q) \in Nat \ {0}
  BY Rest, NotEmpty
<1>2. PICK f : Sums(q, f) /\ f[Len(q)] = x
  BY DEF StoredBy
<1> DEFINE g == [i \in 0 .. Len(t) |-> f[i + 1] - f[1]]
<1> HIDE DEF t
<1>3. /\ \A i \in 0 .. Len(q) : f[i] \in Int
      /\ f[0] = 0 /\ \A i \in 1 .. Len(q) : f[i] = f[i - 1] + Stored(q[i])
  BY <1>2 DEF Sums
<1>4. \A i \in 0 .. Len(t) : i + 1 \in 1 .. Len(q) /\ i + 1 \in 0 .. Len(q)
  BY <1>1
<1>5. 1 \in 1 .. Len(q) /\ 1 \in 0 .. Len(q) /\ 0 \in 0 .. Len(t) /\ Len(t) \in 0 .. Len(t) /\ Len(t) + 1 = Len(q)
  BY <1>1
<1>6. f[1] = Stored(Head(q)) /\ f[1] \in Int
  <2>1. f[1] = f[1 - 1] + Stored(q[1])
    BY <1>3, <1>5
  <2>2. Stored(q[1]) \in Int
    BY <1>1, StoredInt
  <2> QED
    BY <1>1, <1>3, <1>5, <2>1, <2>2
<1>7. g \in [0 .. Len(t) -> Int] /\ \A i \in 0 .. Len(t) : g[i] = f[i + 1] - f[1]
  BY <1>3, <1>4, <1>6
<1> HIDE DEF g
<1>8. g[0] = 0
  BY <1>5, <1>6, <1>7
<1>9. ASSUME NEW i \in 1 .. Len(t) PROVE g[i] = g[i - 1] + Stored(t[i])
  <2>1. /\ i \in 0 .. Len(t) /\ i - 1 \in 0 .. Len(t) /\ i + 1 \in 1 .. Len(q) /\ i \in 0 .. Len(q)
        /\ i + 1 \in 0 .. Len(q) /\ (i - 1) + 1 = i /\ (i + 1) - 1 = i /\ t[i] = q[i + 1]
    BY <1>1
  <2>2. f[i + 1] = f[i] + Stored(q[i + 1]) /\ f[i] \in Int /\ f[i + 1] \in Int
    BY <1>3, <2>1
  <2>3. g[i] = f[i + 1] - f[1] /\ g[i - 1] = f[i] - f[1]
    BY <1>7, <2>1
  <2>4. Stored(q[i + 1]) \in Int
    <3>1. q[i + 1] \in AccessType
      BY <2>1
    <3> QED
      BY <3>1, StoredInt
  <2> QED
    BY <1>6, <2>1, <2>2, <2>3, <2>4
<1>10. g[Len(t)] = x - Stored(Head(q))
  <2>1. g[Len(t)] = f[Len(t) + 1] - f[1]
    BY <1>5, <1>7
  <2>2. f[Len(t) + 1] = x
    BY <1>2, <1>5
  <2> QED
    BY <1>6, <2>1, <2>2
<1>11. Sums(t, g)
  BY <1>7, <1>8, <1>9 DEF Sums
<1> QED
  BY <1>10, <1>11 DEF StoredBy, t

LEMMA StoredBoth ==
  ASSUME NEW q \in Seq(AccessType), NEW r \in Seq(AccessType),
         NEW x \in Int, NEW y \in Int, StoredBy(q, x), StoredBy(r, y)
  PROVE  StoredBy(q \o r, x + y)
<1> DEFINE t == q \o r
<1>1. /\ Len(q) \in Nat /\ Len(t) = Len(q) + Len(r) /\ Len(r) \in Nat
      /\ \A i \in 1 .. Len(q) : t[i] = q[i]
      /\ \A i \in Len(q) + 1 .. Len(t) : t[i] = r[i - Len(q)]
  BY Joined
<1>2. PICK f : Sums(q, f) /\ f[Len(q)] = x
  BY DEF StoredBy
<1>3. PICK h : Sums(r, h) /\ h[Len(r)] = y
  BY DEF StoredBy
<1> DEFINE g == [i \in 0 .. Len(t) |-> IF i <= Len(q) THEN f[i] ELSE x + h[i - Len(q)]]
<1> HIDE DEF t
<1>4. /\ \A i \in 0 .. Len(q) : f[i] \in Int
      /\ f[0] = 0 /\ \A i \in 1 .. Len(q) : f[i] = f[i - 1] + Stored(q[i])
  BY <1>2 DEF Sums
<1>5. /\ \A i \in 0 .. Len(r) : h[i] \in Int
      /\ h[0] = 0 /\ \A i \in 1 .. Len(r) : h[i] = h[i - 1] + Stored(r[i])
  BY <1>3 DEF Sums
<1>6. /\ \A i \in 0 .. Len(t) : i <= Len(q) => i \in 0 .. Len(q)
      /\ \A i \in 0 .. Len(t) : ~(i <= Len(q)) => i - Len(q) \in 0 .. Len(r)
  BY <1>1
<1>7. /\ g \in [0 .. Len(t) -> Int]
      /\ \A i \in 0 .. Len(t) : g[i] = IF i <= Len(q) THEN f[i] ELSE x + h[i - Len(q)]
  BY <1>4, <1>5, <1>6
<1> HIDE DEF g
<1>8. /\ \A i \in 0 .. Len(q) : i \in 0 .. Len(t) /\ g[i] = f[i]
      /\ \A i \in 0 .. Len(r) : Len(q) + i \in 0 .. Len(t) /\ g[Len(q) + i] = x + h[i]
  <2>1. ASSUME NEW i \in 0 .. Len(q) PROVE i \in 0 .. Len(t) /\ g[i] = f[i]
    <3>1. i \in 0 .. Len(t) /\ i <= Len(q)
      BY <1>1
    <3> QED
      BY <1>7, <3>1
  <2>2. ASSUME NEW i \in 0 .. Len(r) PROVE Len(q) + i \in 0 .. Len(t) /\ g[Len(q) + i] = x + h[i]
    <3>1. Len(q) + i \in 0 .. Len(t) /\ (Len(q) + i) - Len(q) = i
      BY <1>1
    <3>2. CASE i = 0
      <4>1. Len(q) + i = Len(q) /\ Len(q) \in 0 .. Len(q)
        BY <1>1, <3>2
      <4>2. g[Len(q)] = x
        BY <1>2, <2>1, <4>1
      <4>3. x + h[i] = x
        BY <1>5, <3>2
      <4> QED
        BY <3>1, <4>1, <4>2, <4>3
    <3>3. CASE i # 0
      <4>1. ~(Len(q) + i <= Len(q))
        BY <1>1, <3>3
      <4> QED
        BY <1>7, <3>1, <4>1
    <3> QED
      BY <3>2, <3>3
  <2> QED
    BY <2>1, <2>2
<1>9. g[0] = 0
  <2>1. 0 \in 0 .. Len(q)
    BY <1>1
  <2> QED
    BY <1>4, <1>8, <2>1
<1>10. ASSUME NEW i \in 1 .. Len(t) PROVE g[i] = g[i - 1] + Stored(t[i])
  <2>1. CASE i <= Len(q)
    <3>1. i \in 1 .. Len(q) /\ i \in 0 .. Len(q) /\ i - 1 \in 0 .. Len(q)
      BY <1>1, <2>1
    <3> QED
      BY <1>1, <1>4, <1>8, <3>1
  <2>2. CASE i > Len(q)
    <3> DEFINE j == i - Len(q)
    <3>1. /\ j \in 1 .. Len(r) /\ j \in 0 .. Len(r) /\ j - 1 \in 0 .. Len(r)
          /\ i \in Len(q) + 1 .. Len(t) /\ Len(q) + j = i /\ Len(q) + (j - 1) = i - 1
      BY <1>1, <2>2
    <3>2. t[i] = r[j]
      BY <1>1, <3>1
    <3> HIDE DEF j
    <3>3. g[i] = x + h[j] /\ g[i - 1] = x + h[j - 1]
      <4>1. g[Len(q) + j] = x + h[j] /\ g[Len(q) + (j - 1)] = x + h[j - 1]
        BY <1>8, <3>1
      <4> QED
        BY <3>1, <4>1, Zenon
    <3>4. h[j] = h[j - 1] + Stored(r[j]) /\ h[j - 1] \in Int
      BY <1>5, <3>1
    <3>5. Stored(r[j]) \in Int
      <4>1. r[j] \in AccessType
        BY <3>1
      <4> QED
        BY <4>1, StoredInt
    <3> QED
      BY <3>2, <3>3, <3>4, <3>5
  <2> QED
    BY <1>1, <2>1, <2>2
<1>11. g[Len(t)] = x + y
  <2>1. Len(r) \in 0 .. Len(r) /\ Len(t) = Len(q) + Len(r)
    BY <1>1
  <2> QED
    BY <1>3, <1>8, <2>1
<1>12. Sums(t, g)
  BY <1>7, <1>9, <1>10 DEF Sums
<1> QED
  BY <1>11, <1>12 DEF StoredBy, t

\* The accesses a write asks for.
LEMMA StoredAsked ==
  ASSUME NEW a \in AccessType, a.w \in Widths, NEW c, NEW r, Asks(a, c, r),
         \A k \in 1 .. Len(r) : IsStore(r[k]) <=> k > c
  PROVE  StoredBy(r, a.n * a.w)
<1> DEFINE w == a.w
           n == a.n
           f == [i \in 0 .. Len(r) |-> IF i <= c THEN 0 ELSE (i - c) * w]
<1>1. /\ r \in Seq(AccessType) /\ Len(r) = c + n /\ c \in 0 .. 1 /\ n \in Nat \ {0}
      /\ \A k \in c + 1 .. Len(r) : r[k].w = w
      /\ w \in Widths /\ w \in Int
  BY DEF Asks, AccessType
<1>2. Len(r) \in Nat
  BY <1>1
<1>3. \A i \in 1 .. Len(r) : Stored(r[i]) = IF i <= c THEN 0 ELSE w
  <2> TAKE i \in 1 .. Len(r)
  <2>1. ~(i <= c) => i \in c + 1 .. Len(r) /\ i > c
    BY <1>1
  <2>2. i <= c => ~(i > c)
    BY <1>1
  <2> QED
    BY <1>1, <2>1, <2>2 DEF Stored
<1> HIDE DEF w, n
<1>4. \A m \in Int : /\ m * w \in Int /\ (m + 1) * w = m * w + w
                     /\ 1 * w = w
  <2>1. CASE w = 1
    BY <2>1
  <2>2. CASE w = 2
    BY <2>2
  <2>3. CASE w = 4
    BY <2>3
  <2> QED
    BY <1>1, <2>1, <2>2, <2>3 DEF Widths
<1> DEFINE T(m) == m * w
<1>5. f = [i \in 0 .. Len(r) |-> IF i <= c THEN 0 ELSE T(i - c)]
  OBVIOUS
<1>6. \A m \in Int : T(m) \in Int /\ T(m + 1) = T(m) + w /\ T(1) = w
  BY <1>4
<1>7. T(n) = a.n * a.w
  BY DEF w, n
<1> HIDE DEF T, f
<1>8. \A i \in 0 .. Len(r) : i - c \in Int
  BY <1>1
<1>9. /\ f \in [0 .. Len(r) -> Int]
      /\ \A i \in 0 .. Len(r) : f[i] = IF i <= c THEN 0 ELSE T(i - c)
  <2> DEFINE E(i) == IF i <= c THEN 0 ELSE T(i - c)
  <2>1. \A i \in 0 .. Len(r) : E(i) \in Int
    BY <1>6, <1>8
  <2>2. f = [i \in 0 .. Len(r) |-> E(i)]
    BY <1>5
  <2>3. \A i \in 0 .. Len(r) : E(i) = IF i <= c THEN 0 ELSE T(i - c)
    OBVIOUS
  <2> HIDE DEF E
  <2>4. f \in [0 .. Len(r) -> Int] /\ \A i \in 0 .. Len(r) : f[i] = E(i)
    BY <2>1, <2>2
  <2> QED
    BY <2>3, <2>4
<1>10. f[0] = 0
  <2>1. 0 \in 0 .. Len(r) /\ 0 <= c
    BY <1>1, <1>2
  <2> QED
    BY <1>9, <2>1
<1>11. ASSUME NEW i \in 1 .. Len(r) PROVE f[i] = f[i - 1] + Stored(r[i])
  <2>1. i \in 0 .. Len(r) /\ i - 1 \in 0 .. Len(r)
    BY <1>2
  <2>2. CASE i <= c
    <3>1. i - 1 <= c
      BY <1>1, <2>2
    <3> QED
      BY <1>3, <1>9, <2>1, <2>2, <3>1
  <2>3. CASE i = c + 1
    <3>1. ~(i <= c) /\ i - 1 <= c /\ i - c = 1
      BY <1>1, <2>3
    <3>2. f[i] = T(i - c) /\ f[i - 1] = 0 /\ Stored(r[i]) = w
      BY <1>3, <1>9, <2>1, <3>1
    <3>3. T(i - c) = w
      <4>1. T(1) = w
        BY <1>6
      <4> QED
        BY <3>1, <4>1
    <3> QED
      BY <1>1, <3>2, <3>3
  <2>4. CASE i > c + 1
    <3>1. ~(i <= c) /\ ~(i - 1 <= c) /\ i - c = ((i - 1) - c) + 1 /\ (i - 1) - c \in Int
      BY <1>1, <2>4
    <3>2. f[i] = T(i - c) /\ f[i - 1] = T((i - 1) - c) /\ Stored(r[i]) = w
      BY <1>3, <1>9, <2>1, <3>1
    <3>3. T(((i - 1) - c) + 1) = T((i - 1) - c) + w
      BY <1>6, <3>1
    <3> QED
      BY <3>1, <3>2, <3>3, Zenon
  <2> QED
    BY <1>1, <2>2, <2>3, <2>4
<1>12. f[Len(r)] = T(n)
  <2>1. Len(r) \in 0 .. Len(r) /\ ~(Len(r) <= c) /\ Len(r) - c = n
    BY <1>1, <1>2
  <2> QED
    BY <1>9, <2>1
<1>13. Sums(r, f)
  BY <1>9, <1>10, <1>11 DEF Sums
<1> QED
  BY <1>7, <1>12, <1>13 DEF StoredBy

\* A piece of a call's data is over when its data has been asked for.
LEMMA GoesOn ==
  ASSUME Shape, PieceKind, call.kind \in Transfers,
         Skip \/ (Ask /\ Head(todo).reg # "drw")
  PROVE  pc' = "access" /\ todo' = Tail(todo) /\ Tail(todo) # <<>>
<1>1. /\ pc = "access" /\ todo # <<>> /\ todo \in Seq(AccessType) /\ PieceLeft(todo)
      /\ Head(todo).reg # "drw"
  BY DEF Skip, Ask, Cached, Shape, TypeOK, Plans
<1>2. Len(todo) # 1
  BY <1>1, HeadOfPlan
<1>3. Tail(todo) # <<>>
  <2>1. Len(Tail(todo)) = Len(todo) - 1 /\ Len(todo) \in Nat
    BY <1>1, Rest
  <2>2. Len(Tail(todo)) # 0
    BY <1>2, <2>1
  <2>3. \A s : s = <<>> => Len(s) = 0
    OBVIOUS
  <2> QED
    BY <2>2, <2>3, Zenon
<1>4. Ask => ~Reads(Head(todo))
  <2> SUFFICES ASSUME Ask, Reads(Head(todo)) PROVE FALSE
    OBVIOUS
  <2>1. Len(todo) = 1
    BY <1>1, WhoReads
  <2> QED
    BY <1>2, <2>1
<1>5. Then(Tail(todo))
  BY <1>4 DEF Skip, Ask
<1> QED
  BY <1>3, <1>5 DEF Then

\* Ask: bytes that were to come are in the queue.
LEMMA DueAsk ==
  ASSUME Shape, PieceKind, ByteTypes, DueInv, Ask
  PROVE  DueInv'
<1> DEFINE a == Head(todo)
           c == Len(Selecting(a))
           r == Selecting(a) \o Words(a)
<1>1. UNCHANGED <<call, at, left, due, failed>>
  BY DEF Ask
<1>2. SUFFICES ASSUME failed = "none" PROVE StoredBy(queue', due - ToCome')
  BY <1>1 DEF DueInv
<1>3. /\ queue \in Seq(AccessType) /\ a \in AccessType /\ pc = "access" /\ todo # <<>>
      /\ todo \in Seq(AccessType) /\ due \in Int
  BY Rest DEF Ask, Shape, TypeOK, ByteTypes
<1>4. queue' = queue \o r /\ Asks(a, c, r) /\ r \in Seq(AccessType)
  <2>1. Asks(a, c, r)
    BY <1>3, Asked
  <2>2. queue' = queue \o r
    BY DEF Ask
  <2> QED
    BY <2>1, <2>2 DEF Asks
<1>5. StoredBy(queue, due - ToCome)
  BY <1>2 DEF DueInv
<1>6. \A k \in 1 .. Len(r) : k <= c \/ k > c
  BY <1>4 DEF Asks
<1>7. \A k \in 1 .. Len(r) : /\ k <= c => ~IsStore(r[k])
                             /\ k > c => (IsStore(r[k]) <=> IsStore(a))
  BY <1>3, AskedData
<1>8. CASE IsStore(a)
  <2>1. a = Datum /\ call.kind = "write" /\ pc' = "piece" /\ a.w \in Widths
        /\ Datum.v + Datum.n * Datum.w = at /\ Datum.v \in Nat
    <3>1. call.kind = "write" /\ ~Reads(a) /\ Len(todo) = 1
      BY <1>3, <1>8, WhoReads
    <3>2. a = Datum
      BY <1>3, <3>1, Rest DEF Datum
    <3>3. PieceLeft(todo) /\ Datum.v + Datum.n * Datum.w = at
      BY <1>3, <3>1 DEF Shape, Plans, PieceKind, Transfers
    <3>4. Tail(todo) = <<>>
      BY <1>3, <3>1, LastOne
    <3>5. pc' = "piece"
      BY <3>1, <3>4 DEF Ask, Then
    <3> QED
      BY <3>1, <3>2, <3>3, <3>5 DEF PieceLeft, Datum
  <2>2. \A k \in 1 .. Len(r) : IsStore(r[k]) <=> k > c
    <3> TAKE k \in 1 .. Len(r)
    <3>1. k <= c => ~(k > c)
      BY <1>4 DEF Asks
    <3> QED
      BY <1>6, <1>7, <1>8, <3>1
  <2> DEFINE x == due - ToCome
             y == a.n * a.w
  <2>3. /\ call.start \in Nat /\ call.len \in Nat /\ at \in Nat /\ left \in Nat
        /\ at + left = call.start + call.len
    BY <2>1 DEF Shape, TypeOK, CallType, Splitting, Transfers
  <2>4. ToCome = call.start + call.len - Datum.v /\ ToCome' = left
    BY <1>1, <1>3, <2>1 DEF ToCome
  <2>5. y = at - Datum.v /\ y \in Int
    <3> DEFINE m == Datum.n * Datum.w
    <3>1. a.n \in Nat /\ a.w \in Nat
      BY <1>3 DEF AccessType
    <3>2. m \in Int
      <4>1. Datum.n \in Nat /\ Datum.w \in Nat
        BY <2>1, <3>1
      <4> QED
        BY <4>1
    <3>3. y = m /\ Datum.v + m = at
      BY <2>1
    <3> HIDE DEF m, y
    <3> QED
      BY <2>1, <2>3, <3>2, <3>3
  <2> HIDE DEF a, c, r, y
  <2>6. StoredBy(r, y)
    BY <1>3, <1>4, <2>1, <2>2, StoredAsked DEF y
  <2>7. x \in Int /\ x + y = due - ToCome'
    <3> DEFINE s == call.start
               l == call.len
               v == Datum.v
    <3>1. /\ s \in Nat /\ l \in Nat /\ v \in Nat /\ at \in Nat /\ left \in Nat /\ due \in Int
          /\ at + left = s + l /\ y = at - v
      BY <1>3, <2>1, <2>3, <2>5
    <3>2. x = due - (s + l - v) /\ due - ToCome' = due - left
      BY <2>4
    <3> HIDE DEF s, l, v, x
    <3>3. x \in Int /\ x + y = due - left
      BY <3>1, <3>2
    <3> QED
      BY <3>2, <3>3
  <2>8. StoredBy(queue, x)
    BY <1>5
  <2> HIDE DEF x
  <2>9. StoredBy(queue \o r, x + y)
    BY <1>3, <1>4, <2>5, <2>6, <2>7, <2>8, StoredBoth
  <2> QED
    BY <1>4, <2>7, <2>9
<1>9. CASE ~IsStore(a)
  <2>1. ToCome' = ToCome
    <3>1. CASE call.kind # "write"
      BY <1>1, <3>1 DEF ToCome
    <3>2. CASE call.kind = "write"
      <4>1. ~IsFetch(a)
        BY <1>3, <3>2, WhoReads
      <4>2. a.reg # "drw"
        BY <1>9, <4>1 DEF IsFetch, IsStore
      <4>3. pc' = "access" /\ todo' = Tail(todo) /\ Tail(todo) # <<>>
        BY <3>2, <4>2, GoesOn DEF Transfers
      <4>4. Datum' = Datum
        BY <1>3, <4>3, DatumStays DEF Datum
      <4> QED
        BY <1>1, <1>3, <3>2, <4>3, <4>4 DEF ToCome
    <3> QED
      BY <3>1, <3>2
  <2>2. \A k \in 1 .. Len(r) : ~IsStore(r[k])
    BY <1>6, <1>7, <1>9
  <2> DEFINE x == due - ToCome
  <2> HIDE DEF a, c, r
  <2>3. StoredBy(r, 0)
    BY <1>4, <2>2, StoredNone
  <2>4. x \in Int /\ x + 0 = x
    <3>1. ToCome \in Int
      <4>1. call.kind = "write" => Datum.v \in Nat
        BY <1>3 DEF Shape, Plans, PieceLeft, Datum, Transfers
      <4> QED
        BY <1>3, <4>1 DEF ToCome, Shape, TypeOK, CallType
    <3> QED
      BY <1>3, <3>1
  <2>5. StoredBy(queue, x)
    BY <1>5
  <2>6. due - ToCome' = x
    BY <2>1
  <2> HIDE DEF x
  <2>7. StoredBy(queue \o r, x + 0)
    <3>1. 0 \in Int
      OBVIOUS
    <3> QED
      BY <1>3, <1>4, <2>3, <2>4, <2>5, <3>1, StoredBoth
  <2> QED
    BY <1>4, <2>4, <2>6, <2>7
<1> QED
  BY <1>8, <1>9

LEMMA ToComeInt ==
  ASSUME Shape
  PROVE  ToCome \in Int
<1>1. call.kind = "write" /\ pc = "access" => Datum.v \in Nat
  BY DEF Shape, Plans, PieceLeft, Datum, Transfers
<1> QED
  BY <1>1 DEF ToCome, Shape, TypeOK, CallType

LEMMA DueStep ==
  ASSUME Shape, Course, DueInv, [Next]_vars
  PROVE  DueInv'
<1>0. PieceKind /\ ByteTypes /\ Places /\ AllTaken /\ ToCome \in Int /\ due \in Int
  BY ToComeInt DEF Course, ByteTypes
<1>1. CASE Call
  <2>1. CASE \E kind \in Transfers, r \in Ranges : Block8(kind, r[1], r[2])
    <3>1. PICK kind \in Transfers, r \in Ranges : Block8(kind, r[1], r[2])
      BY <2>1
    <3>2. /\ call.kind = "none" /\ pc' = "piece" /\ UNCHANGED <<queue, failed>> /\ r[2] \in Nat
          /\ call'.kind = kind /\ left' = r[2]
          /\ due' = (IF kind = "write" THEN due + r[2] ELSE due)
      BY <1>0, <3>1, MemApAssumption DEF Block8, Begin, wire, Places
    <3>3. ToCome = 0 /\ ToCome' = IF kind = "write" THEN r[2] ELSE 0
      BY <3>2 DEF ToCome
    <3>4. due' - ToCome' = due - ToCome
      BY <1>0, <3>2, <3>3
    <3> QED
      BY <3>2, <3>4 DEF DueInv
  <2>2. CASE Flush \/ ProbeReset \/ Reconnect
    <3>1. call.kind = "none" /\ call'.kind # "write" /\ UNCHANGED <<queue, failed, due>>
      BY <1>0, <2>2 DEF Flush, ProbeReset, Reconnect, Begin, wire, Places
    <3>2. ToCome' = ToCome
      BY <3>1 DEF ToCome
    <3> QED
      BY <3>1, <3>2 DEF DueInv
  <2> QED
    BY <1>1, <2>1, <2>2 DEF Call, Transfers
<1>2. CASE Piece
  <2>1. pc = "piece" /\ UNCHANGED <<call, queue, failed, due>> /\ call.kind \in Transfers
    BY <1>2 DEF Piece, wire, Shape, Splitting
  <2>2. ToCome' = ToCome
    <3> DEFINE n == Taken(stage, at, left)
    <3>1. CASE n = 0
      BY <1>2, <2>1, <3>1 DEF Piece, ToCome
    <3>2. CASE n # 0
      <4>1. todo' = Accesses(stage, at, n) /\ pc' = "access" /\ stage <= 5
        BY <1>2, <3>2 DEF Piece
      <4>2. Len(todo') = 3 /\ todo'[3].v = at
        BY <2>1, <3>2, <4>1, AccessesTyped DEF Shape
      <4>3. Datum'.v = at
        BY <4>2 DEF Datum
      <4>4. left = call.start + call.len - at
        <5>1. at \in Nat /\ left \in Nat /\ call.start \in Nat /\ call.len \in Nat
          BY DEF Shape, TypeOK, CallType
        <5>2. at + left = call.start + call.len
          BY <2>1 DEF Shape, Splitting
        <5> QED
          BY <5>1, <5>2
      <4> QED
        BY <2>1, <4>1, <4>3, <4>4 DEF ToCome
    <3> QED
      BY <3>1, <3>2
  <2> QED
    BY <2>1, <2>2 DEF DueInv
<1>3. CASE AllPieces
  <2>1. ToCome' = ToCome /\ UNCHANGED <<queue, failed, due>>
    BY <1>3 DEF AllPieces, wire, ToCome
  <2> QED
    BY <2>1 DEF DueInv
<1>4. CASE Return
  <2>1. ToCome = 0
    BY <1>0, <1>4 DEF Return, ToCome, AllTaken, Transfers
  <2>2. ToCome' = 0 /\ UNCHANGED <<queue, failed, due>>
    BY <1>4 DEF Return, Ended, NoCall, ToCome, wire
  <2> QED
    BY <2>1, <2>2 DEF DueInv
<1>5. CASE Skip
  <2>1. pc = "access" /\ todo # <<>> /\ UNCHANGED <<call, queue, failed, due>>
    BY <1>5 DEF Skip, wire
  <2>2. call.kind = "write" => pc' = "access" /\ todo' = Tail(todo) /\ Tail(todo) # <<>>
    BY <1>0, <1>5, GoesOn DEF Transfers
  <2>3. call.kind = "write" => Datum' = Datum
    BY <2>1, <2>2, DatumStays DEF Datum, Shape, TypeOK
  <2>4. ToCome' = ToCome
    BY <2>1, <2>2, <2>3 DEF ToCome
  <2> QED
    BY <2>1, <2>4 DEF DueInv
<1>6. CASE Ask
  BY <1>0, <1>6, DueAsk
<1>7. CASE Drained
  <2>1. UNCHANGED <<call, queue, failed, due>> /\ call.kind # "write"
    BY <1>0, <1>7 DEF Drained, wire, Places
  <2>2. ToCome' = ToCome
    BY <2>1 DEF ToCome
  <2> QED
    BY <2>1, <2>2 DEF DueInv
<1>8. CASE Send \/ PowerLoss \/ UNCHANGED vars
  <2>1. UNCHANGED <<call, pc, left, todo, queue, failed, due>>
    BY <1>8 DEF Send, PowerLoss, vars, splitter, wire
  <2>2. ToCome' = ToCome
    BY <2>1 DEF ToCome, Datum
  <2> QED
    BY <2>1, <2>2 DEF DueInv
<1>9. CASE Execute
  <2> DEFINE a == Head(queue)
  <2>1. UNCHANGED <<call, pc, left, todo, failed>>
    BY <1>9 DEF Execute, splitter
  <2>2. queue \in Seq(AccessType) /\ queue # <<>> /\ queue' = Tail(queue) /\ a \in AccessType
    BY <1>9, Rest DEF Execute, Shape, TypeOK
  <2>3. due' = IF IsStore(a) THEN due - a.w ELSE due
    BY <1>9 DEF Execute, IsStore
  <2>4. ToCome' = ToCome
    BY <2>1 DEF ToCome, Datum
  <2>5. due' = due - Stored(a) /\ Stored(a) \in Int
    BY <1>0, <2>2, <2>3, StoredInt DEF Stored
  <2>6. due' - ToCome' = (due - ToCome) - Stored(a)
    BY <1>0, <2>4, <2>5
  <2> DEFINE x == due - ToCome
  <2>7. x \in Int
    BY <1>0
  <2>8. failed = "none" => StoredBy(queue, x)
    BY DEF DueInv
  <2>9. due' - ToCome' = x - Stored(Head(queue))
    BY <2>6
  <2> HIDE DEF x
  <2>10. failed = "none" => StoredBy(Tail(queue), x - Stored(Head(queue)))
    BY <2>2, <2>7, <2>8, StoredTail
  <2> QED
    BY <2>1, <2>2, <2>9, <2>10 DEF DueInv
<1>10. CASE Fail
  BY <1>10 DEF Fail, DueInv
<1>11. CASE Abort
  BY <1>11 DEF Abort, DueInv
<1>12. CASE Raise
  <2>1. call'.kind # "write"
    <3>1. CASE Ended
      BY <3>1 DEF Ended, NoCall
    <3>2. CASE ~Ended
      <4>1. Head(todo).reg = "id" /\ call' = call /\ pc = "raise" /\ todo # <<>>
            /\ todo \in Seq(AccessType)
        BY <1>12, <3>2 DEF Raise, Shape, TypeOK, Plans
      <4>2. PieceLeft(todo) => Head(todo).reg # "id"
        BY <4>1, HeadOfPlan
      <4>3. call.kind \notin Transfers
        BY <4>1, <4>2 DEF Shape, Plans
      <4> QED
        BY <4>1, <4>3 DEF Transfers
    <3> QED
      BY <3>1, <3>2
  <2>2. ToCome' = 0 /\ due' = 0 /\ due' - ToCome' = 0
    BY <1>12, <2>1 DEF ToCome, Raise
  <2>3. queue' \in Seq(AccessType) /\ \A i \in 1 .. Len(queue') : ~IsStore(queue'[i])
    <3>1. Access("clear", 0) \in AccessType /\ ~IsStore(Access("clear", 0))
      BY AccessTyped DEF Registers, Access, IsStore
    <3>2. queue' \in {<<Access("clear", 0)>>, <<>>}
      BY <1>12 DEF Raise, Cleared
    <3> DEFINE b == Access("clear", 0)
    <3> HIDE DEF b
    <3>3. b \in AccessType /\ ~IsStore(b) /\ (queue' = <<b>> \/ queue' = <<>>)
      BY <3>1, <3>2 DEF b
    <3>4. CASE queue' = <<b>>
      BY <3>3, <3>4
    <3>5. CASE queue' = <<>>
      BY <3>5
    <3> QED
      BY <3>3, <3>4, <3>5
  <2>4. StoredBy(queue', 0)
    BY <2>3, StoredNone
  <2> QED
    BY <2>2, <2>4 DEF DueInv
<1> QED
  BY <1>1, <1>2, <1>3, <1>4, <1>5, <1>6, <1>7, <1>8, <1>9, <1>10, <1>11, <1>12 DEF Next, Host
-----------------------------------------------------------------------------
(* The theorems.                                                           *)

LEMMA InitIInv == Init => IInv
<1> SUFFICES ASSUME Init PROVE IInv
  OBVIOUS
<1>1. TypeOK
  BY TypeInit
<1>2. Splitting /\ Plans /\ AccessAsMeant
  BY DEF Init, Splitting, Plans, NoCall, Transfers, AccessAsMeant
<1>3. QueueFits(queue, port)
  BY DEF Init, QueueFits
<1>4. CachesFit(queue, port) /\ DataNext
  BY DEF Init, CachesFit, DataNext
<1> QED
  BY <1>1, <1>2, <1>3, <1>4 DEF IInv

\* The invariant holds of every state a run reaches.
THEOREM Invariance == Spec => []IInv
<1>1. IInv /\ [Next]_vars => IInv'
  <2> SUFFICES ASSUME IInv, [Next]_vars PROVE IInv'
    OBVIOUS
  <2>1. Shape'
    BY ShapeStep DEF IInv, Shape
  <2>2. AccessAsMeant' /\ (Good' => Fits')
    BY StepFits
  <2> QED
    BY <2>1, <2>2 DEF IInv, Shape, Fits
<1> QED
  BY InitIInv, <1>1, PTL DEF Spec

\* A register that is not written again has the value it would be given:
\* write_ap's test of CSW, write_dp's and _change_ap_bank's of SELECT.
THEOREM CachesAreTrue == Spec => []CachesTrue
<1>1. IInv => CachesTrue
  <2> SUFFICES ASSUME IInv, Good PROVE CachesFit(queue, port) => CachesTrue
    BY DEF IInv, CachesTrue, Good
  <2>1. Len(queue) \in Nat
    BY DEF IInv, TypeOK
  <2>2. (Len(queue) + 1) - 1 = Len(queue)
    BY <2>1
  <2> QED
    BY <2>2 DEF CachesFit, CachesTrue, Before, WillBe
<1> QED
  BY Invariance, <1>1, PTL

\* No access goes to another bank, width or address than it is meant for unless
\* a failure is pending that the next exception tells of, or a cache is in doubt
\* since an earlier one.
THEOREM AccessesAreAsMeant == Spec => []AccessAsMeant
<1>1. IInv => AccessAsMeant
  BY DEF IInv
<1> QED
  BY Invariance, <1>1, PTL

\* Pieces are aligned and do not cross a page, for every page size, address
\* and length.
THEOREM PiecesAlwaysFit == Spec => []PiecesFit
<1>1. IInv => PiecesFit
  <2> SUFFICES ASSUME IInv, pc = "piece", stage <= 5,
                      NEW n, n = Taken(stage, at, left), n > 0
               PROVE  /\ n % Width(stage) = 0 /\ at % Width(stage) = 0
                      /\ OnePage(at, n)
    BY DEF PiecesFit, OnePage
  <2> QED
    BY PieceFacts DEF IInv
<1> QED
  BY Invariance, <1>1, PTL

\* Between calls there is nothing to read and nothing due.
LEMMA InitData == Init => Course /\ ReadInv /\ DueInv
<1> SUFFICES ASSUME Init PROVE Course /\ ReadInv /\ DueInv
  OBVIOUS
<1>1. /\ queue = <<>> /\ got = <<>> /\ due = 0 /\ pc = "idle" /\ call.kind = "none" /\ failed = "none"
  BY DEF Init, NoCall
<1>2. Course
  <2>1. <<>> \in Seq(Int)
    OBVIOUS
  <2> QED
    BY <1>1, <2>1 DEF Course, PieceKind, AllTaken, Places, NoFetch, Begun, ByteTypes, Transfers
<1>3. ReadInv
  BY <1>1 DEF ReadInv
<1>4. DueInv
  <2>1. queue \in Seq(AccessType) /\ \A i \in 1 .. Len(queue) : ~IsStore(queue[i])
    BY <1>1
  <2>2. StoredBy(queue, 0)
    BY <2>1, StoredNone
  <2>3. due - ToCome = 0
    BY <1>1 DEF ToCome
  <2> QED
    BY <2>2, <2>3 DEF DueInv
<1> QED
  BY <1>2, <1>3, <1>4

\* The data of every state a run reaches.
LEMMA DataInvariance == Spec => [](IInv /\ Course /\ ReadInv /\ DueInv)
<1>1. Init => IInv /\ Course /\ ReadInv /\ DueInv
  BY InitIInv, InitData
<1>2. (IInv /\ Course /\ ReadInv /\ DueInv) /\ IInv' /\ [Next]_vars
        => (IInv /\ Course /\ ReadInv /\ DueInv)'
  <2>1. IInv => Shape
    BY DEF IInv, Shape
  <2> QED
    BY <2>1, CourseStep, ReadStep, DueStep
<1> QED
  BY Invariance, <1>1, <1>2, PTL DEF Spec

\* read_memory_block8 returns all the bytes that were asked for, in order, for
\* every page size, address and length, however the reads are cut into packets.
THEOREM ReadsAreMemory == Spec => []ReadIsMemory
<1>1. IInv /\ Course /\ ReadInv => ReadIsMemory
  <2> SUFFICES ASSUME IInv, Course, ReadInv, pc = "return", call.kind = "read", ~doubt
               PROVE  got = [k \in 1 .. call.len |-> call.start + k - 1]
    BY DEF ReadIsMemory
  <2>1. left = 0 /\ at = call.start + call.len /\ call.start \in Nat /\ call.len \in Nat
    BY DEF IInv, TypeOK, CallType, Splitting, Course, AllTaken, Transfers
  <2>2. got \in Seq(Int) /\ Len(got) \in Nat
    BY DEF Course, ByteTypes
  <2>3. Counted(got, call.start) /\ Len(got) = call.len
    <3>1. CASE queue = <<>> /\ failed = "none"
      <4>1. Counted(got, call.start) /\ Tiles(queue, call.start + Len(got), at)
        BY <3>1 DEF ReadInv, Good, Goal
      <4>2. queue \in Seq(AccessType) /\ NoneIn(queue)
        BY <3>1 DEF NoneIn
      <4>3. call.start + Len(got) = at
        BY <4>1, <4>2, TilesNone
      <4> QED
        BY <2>1, <2>2, <4>1, <4>3
    <3>2. CASE at = call.start /\ got = <<>>
      BY <2>1, <3>2 DEF Counted
    <3> QED
      BY <3>1, <3>2 DEF Course, Begun
  <2> QED
    BY <2>1, <2>2, <2>3 DEF Counted
<1> QED
  BY DataInvariance, <1>1, PTL

\* When flush returns nothing that was written since the last exception is
\* missing, whatever was left in the queue before.
THEOREM FlushesAreComplete == Spec => []FlushedIsWritten
<1>1. IInv /\ Course /\ DueInv => FlushedIsWritten
  <2> SUFFICES ASSUME IInv, Course, DueInv, pc = "return", call.kind = "flush"
               PROVE  due = 0
    BY DEF FlushedIsWritten
  <2>1. queue = <<>> /\ failed = "none" /\ due \in Int
    BY DEF Course, Places, ByteTypes
  <2>2. ToCome = 0
    BY DEF ToCome
  <2>3. StoredBy(queue, due - ToCome)
    BY <2>1 DEF DueInv
  <2>4. PICK f : Sums(<<>>, f) /\ f[Len(<<>>)] = due - ToCome
    BY <2>1, <2>3 DEF StoredBy
  <2>5. Len(<<>>) = 0
    OBVIOUS
  <2>6. due - ToCome = 0
    BY <2>4, <2>5 DEF Sums
  <2> QED
    BY <2>1, <2>2, <2>6
<1> QED
  BY DataInvariance, <1>1, PTL
=============================================================================
