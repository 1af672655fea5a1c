----------------------------- MODULE AofProofs -----------------------------
(***************************************************************************)
(* Proofs about Aof: whatever commands, flushes, rewrites, failures and    *)
(* restarts happen, the file and the buffer reproduce the dataset, and so  *)
(* does the file a rewrite would end with; no transaction is cut; and with *)
(* appendfsync always no acknowledged write is lost.                       *)
(*                                                                         *)
(* What loadAppendOnlyFile finds in a file is defined by recursion over    *)
(* the file.  The first two sections show by induction that it reads a     *)
(* file half by half, the third what the commands fed to a file do to it.  *)
(***************************************************************************)
EXTENDS Aof, SequenceTheorems, WellFoundedInduction, TLAPS

\* Every nonempty set of numbers has a least element.
LEMMA LeastNat ==
  ASSUME NEW T, T \subseteq Nat, T # {}
  PROVE  \E m \in T : \A k \in T : m <= k
<1>1. IsWellFoundedOn(OpToRel(<, Nat), Nat) BY NatLessThanWellFounded
<1>2. PICK R : R = OpToRel(<, Nat) OBVIOUS
<1>3. PICK m \in T : \A k \in T : <<k, m>> \notin R BY <1>1, <1>2, WFMin
<1>4. \A k \in T : k < m => <<k, m>> \in R BY <1>2 DEF OpToRel
<1>5. \A k \in T : ~(k < m) BY <1>3, <1>4
<1>6. \A k \in Nat : \A j \in Nat : ~(k < j) => j <= k OBVIOUS
<1>7. \A k \in T : m <= k BY <1>5, <1>6
<1> QED BY <1>7

\* Induction over the numbers, for a set.
LEMMA Induct ==
  ASSUME NEW S, 0 \in S, \A n \in Nat : n \in S => n + 1 \in S
  PROVE  \A n \in Nat : n \in S
<1> SUFFICES ASSUME NEW z \in Nat, z \notin S PROVE FALSE OBVIOUS
<1> DEFINE T == {n \in Nat : n \notin S}
<1>1. PICK m \in T : \A k \in T : m <= k
  <2>1. T \subseteq Nat /\ T # {} OBVIOUS
  <2> HIDE DEF T
  <2> QED BY <2>1, LeastNat
<1>2. m # 0 OBVIOUS
<1>3. m - 1 \in Nat /\ m - 1 \notin T BY <1>1, <1>2
<1> QED BY <1>3

----------------------------------------------------------------------------
(* Reading a file.                                                         *)

Item == [type : {"cmd", "select", "multi", "exec", "snap"}, arg : Int, db : Int]
Half == [item : Item, part : 0..2]

Start == [data |-> 0, db |-> 0, multi |-> FALSE, half |-> 0, valid |-> 0, bad |-> FALSE]
Rec(c, g) ==
  g = [n \in 0..Len(c) |-> IF n = 0 THEN Start ELSE ReadHalf(g[n - 1], c[n])]

\* Loaded is the last value of a solution of the recursion.
LEMMA LoadedChoice == \A c : Loaded(c) = (CHOOSE g : Rec(c, g))[Len(c)]
BY Zenon DEF Loaded, Rec, Start

\* The recursion has a solution.
LEMMA RecExists == \A c \in Seq(Half) : \E g : Rec(c, g)
<1> DEFINE P(n) == \A c \in Seq(Half) : Len(c) = n => \E g : Rec(c, g)
           S == {n \in Nat : P(n)}
<1>1. P(0)
  <2> SUFFICES ASSUME NEW c \in Seq(Half), Len(c) = 0 PROVE \E g : Rec(c, g) BY Zenon
  <2> DEFINE g == [n \in 0..0 |-> Start]
  <2>1. g = [n \in 0..0 |-> IF n = 0 THEN Start ELSE ReadHalf(g[n - 1], c[n])] OBVIOUS
  <2>2. Rec(c, g) BY <2>1 DEF Rec
  <2> QED BY <2>2
<1>2. ASSUME NEW n \in Nat, P(n) PROVE P(n + 1)
  <2> SUFFICES ASSUME NEW c \in Seq(Half), Len(c) = n + 1 PROVE \E g : Rec(c, g) OBVIOUS
  <2> DEFINE d == SubSeq(c, 1, n)
  <2>1. d \in Seq(Half) /\ Len(d) = n /\ \A i \in 1..n : d[i] = c[i] BY SubSeqProperties
  <2>2. PICK f : Rec(d, f) BY Zenon, <1>2, <2>1
  <2> HIDE DEF d
  <2> DEFINE g == [i \in 0..(n + 1) |-> IF i = n + 1 THEN ReadHalf(f[n], c[n + 1]) ELSE f[i]]
  <2>3. f[0] = Start /\ \A i \in 1..n : f[i] = ReadHalf(f[i - 1], c[i]) BY <2>1, <2>2 DEF Rec
  <2>4. g[0] = Start BY <2>3
  <2>5. \A i \in 1..(n + 1) : g[i] = ReadHalf(g[i - 1], c[i])
    <3> SUFFICES ASSUME NEW i \in 1..(n + 1) PROVE g[i] = ReadHalf(g[i - 1], c[i]) BY Zenon
    <3>1. CASE i = n + 1
      <4>1. g[i] = ReadHalf(f[n], c[n + 1]) /\ g[i - 1] = f[n] BY <3>1
      <4> QED BY <3>1, <4>1
    <3>2. CASE i # n + 1
      <4>1. i \in 1..n /\ g[i] = f[i] /\ g[i - 1] = f[i - 1] BY <3>2
      <4> QED BY <2>3, <4>1
    <3> QED BY <3>1, <3>2
  <2>6. g = [i \in 0..(n + 1) |-> g[i]] OBVIOUS
  <2> HIDE DEF g
  <2>7. g = [i \in 0..(n + 1) |-> IF i = 0 THEN Start ELSE ReadHalf(g[i - 1], c[i])]
    <3> DEFINE h == [i \in 0..(n + 1) |-> IF i = 0 THEN Start ELSE ReadHalf(g[i - 1], c[i])]
    <3>1. \A i \in 0..(n + 1) : g[i] = h[i] BY <2>4, <2>5
    <3> QED BY <2>6, <3>1
  <2>8. Rec(c, g) BY <2>7 DEF Rec
  <2> QED BY <2>8
<1>3. \A n \in Nat : n \in S
  <2> HIDE DEF P
  <2>1. 0 \in S BY <1>1
  <2>2. \A n \in Nat : n \in S => n + 1 \in S BY <1>2
  <2> HIDE DEF S
  <2> QED BY <2>1, <2>2, Induct
<1>4. \A c \in Seq(Half) : Len(c) \in Nat OBVIOUS
<1> QED BY <1>3, <1>4

\* Two solutions agree where they have read the same.
LEMMA RecUnique ==
  ASSUME NEW c \in Seq(Half), NEW m \in 0..Len(c), NEW g, Rec(c, g), NEW f, Rec(SubSeq(c, 1, m), f)
  PROVE  \A n \in 0..m : f[n] = g[n]
<1> DEFINE S == {n \in Nat : n <= m => f[n] = g[n]}
<1>1. Len(c) \in Nat /\ Len(SubSeq(c, 1, m)) = m /\ \A i \in 1..m : SubSeq(c, 1, m)[i] = c[i]
  BY SubSeqProperties
<1>2. f[0] = Start /\ \A i \in 1..m : f[i] = ReadHalf(f[i - 1], c[i]) BY <1>1 DEF Rec
<1>3. g[0] = Start /\ \A i \in 1..Len(c) : g[i] = ReadHalf(g[i - 1], c[i]) BY <1>1 DEF Rec
<1>4. 0 \in S BY <1>2, <1>3
<1>5. ASSUME NEW n \in Nat, n \in S PROVE n + 1 \in S
  <2> SUFFICES ASSUME n + 1 <= m PROVE f[n + 1] = g[n + 1] OBVIOUS
  <2>1. f[n] = g[n] BY <1>5
  <2>2. n + 1 \in 1..m /\ n + 1 \in 1..Len(c) /\ (n + 1) - 1 = n BY <1>1
  <2>3. f[n + 1] = ReadHalf(f[n], c[n + 1]) BY <1>2, <2>2
  <2>4. g[n + 1] = ReadHalf(g[n], c[n + 1]) BY <1>3, <2>2
  <2> QED BY <2>1, <2>3, <2>4
<1>6. \A n \in Nat : n \in S
  <2> HIDE DEF S
  <2> QED BY <1>4, <1>5, Induct
<1> QED BY <1>6

\* What is read of a beginning of the content, one half after the other.
At(c, n) == Loaded(SubSeq(c, 1, n))

\* Loaded reads a content half by half.
LEMMA AtStep ==
  ASSUME NEW c \in Seq(Half)
  PROVE  /\ At(c, 0) = Start /\ Loaded(c) = At(c, Len(c))
         /\ \A n \in 1..Len(c) : At(c, n) = ReadHalf(At(c, n - 1), c[n])
<1>1. PICK g : Rec(c, g) BY RecExists
<1>2. ASSUME NEW m \in 0..Len(c) PROVE At(c, m) = g[m]
  <2>1. SubSeq(c, 1, m) \in Seq(Half) /\ Len(SubSeq(c, 1, m)) = m BY SubSeqProperties
  <2>2. PICK f : f = CHOOSE h : Rec(SubSeq(c, 1, m), h) OBVIOUS
  <2>3. Rec(SubSeq(c, 1, m), f) BY <2>1, <2>2, RecExists, Zenon
  <2>4. At(c, m) = f[m] BY Zenon, <2>1, <2>2, LoadedChoice DEF At
  <2>5. f[m] = g[m] BY <1>1, <2>3, RecUnique
  <2> QED BY <2>4, <2>5
<1>3. Len(c) \in Nat /\ SubSeq(c, 1, Len(c)) = c OBVIOUS
<1>4. g[0] = Start /\ \A i \in 1..Len(c) : g[i] = ReadHalf(g[i - 1], c[i]) BY <1>1, <1>3 DEF Rec
<1>5. Loaded(c) = At(c, Len(c)) BY Zenon, <1>3 DEF At
<1>6. \A m \in 0..Len(c) : At(c, m) = g[m] BY <1>2
<1>7. \A n \in 1..Len(c) : At(c, n) = ReadHalf(At(c, n - 1), c[n]) BY <1>3, <1>4, <1>6
<1> QED BY <1>3, <1>4, <1>5, <1>6, <1>7

\* The client that executes the file, between two halves.
Reader == [data : Int, db : Int, multi : BOOLEAN, half : {0, 1}, valid : Nat, bad : BOOLEAN]

\* Running a command and reading a half keep the type of the client.
LEMMA RanType ==
  ASSUME NEW s \in Reader, NEW i \in Item
  PROVE  Ran(s, i) \in Reader
<1>1. s.data + 1 \in Int /\ Diverged \in Int BY DEF Reader, Diverged
<1> QED BY Zenon, <1>1 DEF Ran, Reader, Item

LEMMA ReadType ==
  ASSUME NEW s \in Reader, NEW h \in Half
  PROVE  ReadHalf(s, h) \in Reader
<1>1. h.item \in Item BY DEF Half
<1>2. Ran(s, h.item) \in Reader BY <1>1, RanType
<1>3. PICK r : r = Ran(s, h.item) OBVIOUS
<1>4. [s EXCEPT !.bad = TRUE] \in Reader BY Zenon DEF Reader
<1>5. [s EXCEPT !.half = 1] \in Reader BY DEF Reader
<1>6. s.valid + 2 \in Nat BY DEF Reader
<1>7. [r EXCEPT !.half = 0, !.valid = s.valid + 2] \in Reader BY Zenon, <1>2, <1>3, <1>6 DEF Reader
<1> QED BY <1>3, <1>4, <1>5, <1>7 DEF ReadHalf

LEMMA AtType ==
  ASSUME NEW c \in Seq(Half)
  PROVE  \A n \in 0..Len(c) : At(c, n) \in Reader
<1> DEFINE S == {n \in Nat : n <= Len(c) => At(c, n) \in Reader}
<1>1. 0 \in S
  <2>1. Start \in Reader BY DEF Start, Reader
  <2> QED BY <2>1, AtStep
<1>2. ASSUME NEW n \in Nat, n \in S PROVE n + 1 \in S
  <2> SUFFICES ASSUME n + 1 <= Len(c) PROVE At(c, n + 1) \in Reader OBVIOUS
  <2>1. At(c, n) \in Reader /\ Len(c) \in Nat BY <1>2
  <2>2. n + 1 \in 1..Len(c) /\ (n + 1) - 1 = n BY <2>1
  <2>3. At(c, n + 1) = ReadHalf(At(c, n), c[n + 1]) BY <2>2, AtStep
  <2>4. c[n + 1] \in Half BY <2>2
  <2> QED BY <2>1, <2>3, <2>4, ReadType
<1>3. \A n \in Nat : n \in S
  <2> HIDE DEF S
  <2> QED BY <1>1, <1>2, Induct
<1> QED BY <1>3

\* What was read so far does not depend on what follows.
LEMMA AtPrefix ==
  ASSUME NEW c \in Seq(Half), NEW d \in Seq(Half), NEW n \in 0..Len(c)
  PROVE  At(c \o d, n) = At(c, n)
<1>1. SubSeq(c \o d, 1, n) = SubSeq(c, 1, n) OBVIOUS
<1> QED BY Zenon, <1>1 DEF At

\* A beginning of the content is read like the content.
LEMMA AtCut ==
  ASSUME NEW c \in Seq(Half), NEW m \in 0..Len(c), NEW n \in 0..m
  PROVE  /\ SubSeq(c, 1, m) \in Seq(Half) /\ Len(SubSeq(c, 1, m)) = m
         /\ At(SubSeq(c, 1, m), n) = At(c, n)
<1>1. SubSeq(c, 1, m) \in Seq(Half) /\ Len(SubSeq(c, 1, m)) = m BY SubSeqProperties
<1>2. SubSeq(SubSeq(c, 1, m), 1, n) = SubSeq(c, 1, n) OBVIOUS
<1> QED BY Zenon, <1>1, <1>2 DEF At

\* Between two commands, everything read so far being well formed.
Between(s) == ~s.bad /\ s.half = 0

\* A half of a command, and the other half of it.
LEMMA ReadFirst ==
  ASSUME NEW s \in Reader, Between(s), NEW h \in Half, h.part = 1
  PROVE  /\ ReadHalf(s, h) \in Reader /\ ~ReadHalf(s, h).bad /\ ReadHalf(s, h).half = 1
         /\ ReadHalf(s, h).data = s.data /\ ReadHalf(s, h).db = s.db
         /\ ReadHalf(s, h).multi = s.multi /\ ReadHalf(s, h).valid = s.valid
<1>1. ReadHalf(s, h) = [s EXCEPT !.half = 1] BY DEF ReadHalf, Between, Reader, Half
<1> QED BY <1>1, ReadType DEF Reader, Between

LEMMA ReadSecond ==
  ASSUME NEW s \in Reader, ~s.bad, s.half = 1, NEW h \in Half, h.part = 2
  PROVE  /\ ReadHalf(s, h) \in Reader /\ Between(ReadHalf(s, h))
         /\ ReadHalf(s, h).data = Ran(s, h.item).data /\ ReadHalf(s, h).db = Ran(s, h.item).db
         /\ ReadHalf(s, h).multi = Ran(s, h.item).multi /\ ReadHalf(s, h).valid = s.valid + 2
<1>1. ReadHalf(s, h) = [Ran(s, h.item) EXCEPT !.half = 0, !.valid = s.valid + 2]
  BY DEF ReadHalf, Reader, Half
<1>2. h.item \in Item BY DEF Half
<1>3. PICK r : r = Ran(s, h.item) OBVIOUS
<1>4. r \in Reader BY <1>2, <1>3, RanType
<1>5. r.bad = s.bad BY <1>2, <1>3 DEF Ran, Reader, Item
<1>6. s.valid + 2 \in Nat BY DEF Reader
<1> QED BY <1>1, <1>3, <1>4, <1>5, <1>6, ReadType DEF Reader, Between

\* The commands run from a state like another one have the same effect.
LEMMA RanSame ==
  ASSUME NEW s \in Reader, NEW t \in Reader, t.data = s.data, t.db = s.db, t.multi = s.multi,
         NEW i \in Item
  PROVE  /\ Ran(t, i).data = Ran(s, i).data /\ Ran(t, i).db = Ran(s, i).db
         /\ Ran(t, i).multi = Ran(s, i).multi
BY Zenon DEF Ran, Reader, Item

\* Both halves of a command that follow each other.
LEMMA ReadCommand ==
  ASSUME NEW c \in Seq(Half), NEW n \in Nat, n + 2 <= Len(c), Between(At(c, n)), NEW i \in Item,
         c[n + 1] = [item |-> i, part |-> 1], c[n + 2] = [item |-> i, part |-> 2]
  PROVE  /\ ~At(c, n + 1).bad /\ At(c, n + 1).half = 1
         /\ At(c, n + 1).data = At(c, n).data /\ At(c, n + 1).multi = At(c, n).multi
         /\ Between(At(c, n + 2))
         /\ At(c, n + 2).data = Ran(At(c, n), i).data
         /\ At(c, n + 2).db = Ran(At(c, n), i).db
         /\ At(c, n + 2).multi = Ran(At(c, n), i).multi
<1>1. n \in 0..Len(c) /\ n + 1 \in 1..Len(c) /\ n + 2 \in 1..Len(c) /\ (n + 1) - 1 = n
      /\ (n + 2) - 1 = n + 1
  OBVIOUS
<1>2. PICK s : s = At(c, n) OBVIOUS
<1>3. PICK t : t = At(c, n + 1) OBVIOUS
<1>4. s \in Reader /\ t = ReadHalf(s, c[n + 1]) /\ At(c, n + 2) = ReadHalf(t, c[n + 2])
  BY <1>1, <1>2, <1>3, AtStep, AtType
<1>5. c[n + 1] \in Half /\ c[n + 2] \in Half /\ c[n + 1].part = 1 /\ c[n + 2].part = 2
      /\ c[n + 2].item = i
  BY <1>1
<1>6. /\ t \in Reader /\ ~t.bad /\ t.half = 1 /\ t.data = s.data /\ t.db = s.db
      /\ t.multi = s.multi
  BY <1>2, <1>4, <1>5, ReadFirst
<1>7. /\ Between(At(c, n + 2)) /\ At(c, n + 2).data = Ran(t, i).data
      /\ At(c, n + 2).db = Ran(t, i).db /\ At(c, n + 2).multi = Ran(t, i).multi
  BY <1>4, <1>5, <1>6, ReadSecond
<1>8. /\ Ran(t, i).data = Ran(s, i).data /\ Ran(t, i).db = Ran(s, i).db
      /\ Ran(t, i).multi = Ran(s, i).multi
  BY <1>4, <1>6, RanSame
<1> QED BY <1>2, <1>3, <1>6, <1>7, <1>8

\* valid_up_to is the end of the last complete command, and reading the first
\* half of a command executes nothing.
LEMMA ValidEnd ==
  ASSUME NEW c \in Seq(Half), NEW n \in 0..Len(c), ~At(c, n).bad
  PROVE  /\ At(c, n).valid \in 0..n /\ Between(At(c, At(c, n).valid))
         /\ At(c, At(c, n).valid).data = At(c, n).data
<1> DEFINE Q(m) == LET s == At(c, m) IN
                     ~s.bad => \/ s.half = 0 /\ s.valid = m
                               \/ /\ s.half = 1 /\ m > 0 /\ s.valid = m - 1
                                  /\ Between(At(c, m - 1)) /\ At(c, m - 1).data = s.data
           S == {m \in Nat : m <= Len(c) => Q(m)}
<1>1. 0 \in S
  <2>1. At(c, 0) = Start BY AtStep
  <2> QED BY <2>1 DEF Start
<1>2. ASSUME NEW m \in Nat, m \in S PROVE m + 1 \in S
  <2> SUFFICES ASSUME m + 1 <= Len(c), ~At(c, m + 1).bad PROVE Q(m + 1) OBVIOUS
  <2>1. m \in 0..Len(c) /\ m + 1 \in 1..Len(c) /\ (m + 1) - 1 = m /\ Q(m) BY <1>2
  <2>2. PICK s : s = At(c, m) OBVIOUS
  <2>3. PICK t : t = At(c, m + 1) OBVIOUS
  <2>4. PICK h : h = c[m + 1] OBVIOUS
  <2>5. s \in Reader /\ h \in Half /\ t = ReadHalf(s, h)
    BY <2>1, <2>2, <2>3, <2>4, AtStep, AtType
  <2>6. ~s.bad /\ h.part = s.half + 1
    BY <2>3, <2>5 DEF ReadHalf, Reader
  <2>7. CASE s.half = 0
    <3>1. Between(s) /\ h.part = 1 BY <2>6, <2>7 DEF Between
    <3>2. t.half = 1 /\ t.data = s.data /\ t.valid = s.valid BY <2>5, <3>1, ReadFirst
    <3>3. s.valid = m BY <2>1, <2>2, <2>6, <2>7
    <3> QED BY <2>1, <2>2, <2>3, <3>1, <3>2, <3>3
  <2>8. CASE s.half = 1
    <3>1. h.part = 2 BY <2>6, <2>8
    <3>2. Between(t) /\ t.valid = s.valid + 2 BY <2>5, <2>6, <2>8, <3>1, ReadSecond
    <3>3. s.valid = m - 1 BY <2>1, <2>2, <2>6, <2>8
    <3> QED BY <2>3, <3>2, <3>3 DEF Between
  <2> QED BY <2>5, <2>7, <2>8 DEF Reader
<1>3. \A m \in Nat : m \in S
  <2> HIDE DEF S
  <2> QED BY <1>1, <1>2, Induct
<1>4. Q(n) BY <1>3
<1> QED BY <1>4 DEF Between

----------------------------------------------------------------------------
(* Contents that reproduce datasets the server had.                        *)

\* Cut anywhere from k to m, the content reproduces a version up to v; the more
\* of it is read the later the version; and a version of the set b is only
\* reproduced in the middle of a transaction.
Good(c, k, m, v, b) ==
  /\ \A n \in k..m : ~At(c, n).bad /\ At(c, n).data <= v /\ (At(c, n).data \in b => At(c, n).multi)
  /\ \A n, o \in k..m : n <= o => At(c, n).data <= At(c, o).data

\* At m the content reproduces version v, and its client is in database d
\* unless that is -1.
Reproduces(c, m, v, d) ==
  Between(At(c, m)) /\ At(c, m).data = v /\ (d # -1 => At(c, m).db = d)

\* From a later place, up to a later version and for fewer versions in the middle.
LEMMA GoodWeaker ==
  ASSUME NEW c \in Seq(Half), NEW k \in Nat, NEW m \in 0..Len(c), NEW v \in Int, NEW b,
         Good(c, k, m, v, b), NEW j \in k..m, NEW w \in Int, v <= w, NEW a,
         \A x \in a : x <= v => x \in b
  PROVE  Good(c, j, m, w, a)
<1>1. \A n \in j..m : n \in k..m /\ At(c, n) \in Reader BY AtType
<1>2. \A n \in j..m : At(c, n).data \in Int BY <1>1 DEF Reader
<1>3. \A n \in j..m : ~At(c, n).bad /\ At(c, n).data <= w BY <1>1, <1>2 DEF Good
<1>4. ASSUME NEW n \in j..m, At(c, n).data \in a PROVE At(c, n).multi
  BY <1>1, <1>2, <1>4 DEF Good
<1>5. \A n, o \in j..m : n <= o => At(c, n).data <= At(c, o).data BY <1>1 DEF Good
<1> QED BY <1>3, <1>4, <1>5 DEF Good

\* The same of a content that begins like it.
LEMMA GoodAgain ==
  ASSUME NEW c, NEW e, NEW k \in Nat, NEW m \in Nat, NEW v, NEW b,
         \A n \in k..m : At(e, n) = At(c, n), Good(c, k, m, v, b)
  PROVE  Good(e, k, m, v, b)
<1>1. \A n \in k..m : ~At(e, n).bad /\ At(e, n).data <= v /\ (At(e, n).data \in b => At(e, n).multi)
  BY DEF Good
<1>2. \A n, o \in k..m : n <= o => At(e, n).data <= At(e, o).data BY DEF Good
<1> QED BY <1>1, <1>2 DEF Good

\* One more command.
LEMMA GoodCommand ==
  ASSUME NEW c \in Seq(Half), NEW k \in Nat, NEW m \in Nat, k <= m, m + 2 <= Len(c),
         NEW v \in Int, NEW b, Good(c, k, m, v, b), Between(At(c, m)), NEW i \in Item,
         c[m + 1] = [item |-> i, part |-> 1], c[m + 2] = [item |-> i, part |-> 2],
         At(c, m).data <= Ran(At(c, m), i).data, Ran(At(c, m), i).data <= v,
         Ran(At(c, m), i).data \in b => Ran(At(c, m), i).multi
  PROVE  Good(c, k, m + 2, v, b)
<1>1. /\ ~At(c, m + 1).bad /\ At(c, m + 1).data = At(c, m).data
      /\ At(c, m + 1).multi = At(c, m).multi
      /\ ~At(c, m + 2).bad /\ At(c, m + 2).data = Ran(At(c, m), i).data
      /\ At(c, m + 2).multi = Ran(At(c, m), i).multi
  BY SMTT(30), ReadCommand DEF Between
<1>2. \A n \in k..(m + 2) : n \in k..m \/ n = m + 1 \/ n = m + 2 OBVIOUS
<1>3. m \in k..m OBVIOUS
<1>4. \A n \in k..(m + 2) : At(c, n).data \in Int BY SMTT(30), AtType DEF Reader
<1>5. ASSUME NEW n \in k..(m + 2)
      PROVE  ~At(c, n).bad /\ At(c, n).data <= v /\ (At(c, n).data \in b => At(c, n).multi)
  BY <1>1, <1>2, <1>3 DEF Good
<1>6. ASSUME NEW n \in k..(m + 2), NEW o \in k..(m + 2), n <= o
      PROVE  At(c, n).data <= At(c, o).data
  <2>1. \A x \in k..m : At(c, x).data <= At(c, m).data BY <1>3 DEF Good
  <2>2. CASE o \in k..m
    <3>1. n \in k..m BY <1>6, <2>2
    <3> QED BY <1>6, <2>2, <3>1 DEF Good
  <2>3. CASE o = m + 1
    <3>1. n \in k..m \/ n = m + 1 BY SMTT(30), <1>6, <2>3
    <3> QED BY <1>1, <1>3, <1>4, <2>1, <2>3, <3>1
  <2>4. CASE o = m + 2
    <3>1. m + 2 \in k..(m + 2) /\ m + 1 \in k..(m + 2) /\ m \in k..(m + 2) OBVIOUS
    <3> QED BY SMTT(30), <1>1, <1>2, <1>3, <1>4, <2>1, <2>4, <3>1
  <2> QED BY <1>2, <2>2, <2>3, <2>4
<1> QED BY <1>5, <1>6 DEF Good

\* The halves of a sequence of commands, in order.
LEMMA HalvesOf ==
  ASSUME NEW items \in Seq(Item)
  PROVE  /\ Halves(items) \in Seq(Half) /\ Len(Halves(items)) = 2 * Len(items)
         /\ \A k \in 1..Len(items) : /\ Halves(items)[2 * k - 1] = [item |-> items[k], part |-> 1]
                                     /\ Halves(items)[2 * k] = [item |-> items[k], part |-> 2]
<1>1. Len(items) \in Nat OBVIOUS
<1>2. \A i \in 1..(2 * Len(items)) : (i + 1) \div 2 \in 1..Len(items) /\ 2 - (i % 2) \in 0..2 BY <1>1
<1>3. \A i \in 1..(2 * Len(items)) : [item |-> items[(i + 1) \div 2], part |-> 2 - (i % 2)] \in Half
  BY <1>2 DEF Half
<1>4. Halves(items) \in Seq(Half) /\ Len(Halves(items)) = 2 * Len(items) BY <1>1, <1>3 DEF Halves
<1>5. ASSUME NEW k \in 1..Len(items)
      PROVE  /\ Halves(items)[2 * k - 1] = [item |-> items[k], part |-> 1]
             /\ Halves(items)[2 * k] = [item |-> items[k], part |-> 2]
  <2>1. 2 * k - 1 \in 1..(2 * Len(items)) /\ 2 * k \in 1..(2 * Len(items)) BY <1>1
  <2>2. ((2 * k - 1) + 1) \div 2 = k /\ (2 * k + 1) \div 2 = k BY <1>1
  <2>3. 2 - ((2 * k - 1) % 2) = 1 /\ 2 - ((2 * k) % 2) = 2 BY <1>1
  <2> QED BY <2>1, <2>2, <2>3 DEF Halves
<1> QED BY <1>4, <1>5

\* Command i of the items that follow the content c.
LEMMA HalvesAfter ==
  ASSUME NEW c \in Seq(Half), NEW items \in Seq(Item)
  PROVE  /\ c \o Halves(items) \in Seq(Half)
         /\ Len(c \o Halves(items)) = Len(c) + 2 * Len(items)
         /\ \A i \in 1..Len(items) :
              /\ (c \o Halves(items))[Len(c) + 2 * i - 1] = [item |-> items[i], part |-> 1]
              /\ (c \o Halves(items))[Len(c) + 2 * i] = [item |-> items[i], part |-> 2]
<1>1. PICK h : h = Halves(items) OBVIOUS
<1>2. h \in Seq(Half) /\ Len(h) = 2 * Len(items) BY <1>1, HalvesOf
<1>3. c \o h \in Seq(Half) /\ Len(c \o h) = Len(c) + 2 * Len(items) BY <1>2
<1>4. ASSUME NEW i \in 1..Len(items)
      PROVE  (c \o h)[Len(c) + 2 * i - 1] = h[2 * i - 1] /\ (c \o h)[Len(c) + 2 * i] = h[2 * i]
  <2>1. 2 * i - 1 \in 1..Len(h) /\ 2 * i \in 1..Len(h) /\ Len(c) \in Nat BY <1>2
  <2>2. \A j \in 1..Len(h) : (c \o h)[Len(c) + j] = h[j] BY <1>2
  <2>3. Len(c) + 2 * i - 1 = Len(c) + (2 * i - 1) BY <2>1
  <2> QED BY Zenon, <2>1, <2>2, <2>3
<1> QED BY SMTT(30), <1>1, <1>3, <1>4, HalvesOf

\* Command i comes next at m.
Follows(c, m, i) ==
  /\ m \in Nat /\ m + 2 <= Len(c) /\ i \in Item
  /\ c[m + 1] = [item |-> i, part |-> 1] /\ c[m + 2] = [item |-> i, part |-> 2]

\* What the commands that are fed do to a content that was good before them.
LEMMA SelectFed ==
  ASSUME NEW c \in Seq(Half), NEW k \in Nat, NEW m \in Nat, k <= m, NEW v \in Int, NEW b,
         NEW u \in Int, NEW x, NEW d \in Int,
         Good(c, k, m, v, b), Reproduces(c, m, u, x), Follows(c, m, Select(d))
  PROVE  Good(c, k, m + 2, v, b) /\ Reproduces(c, m + 2, u, d)
<1>1. PICK s : s = At(c, m) OBVIOUS
<1>2. PICK i : i = Select(d) OBVIOUS
<1>3. m \in 0..Len(c) /\ m \in k..m /\ s \in Reader BY <1>1, AtType DEF Follows
<1>4. Ran(s, i).data = s.data /\ Ran(s, i).db = d /\ Ran(s, i).multi = s.multi
  BY <1>2, <1>3 DEF Ran, Select, Reader
<1>5. s.data <= v /\ (s.data \in b => s.multi) BY <1>1, <1>3 DEF Good
<1>6. s.data \in Int BY SMTT(30), <1>3 DEF Reader
<1>7. Good(c, k, m + 2, v, b)
  BY SMTT(30), <1>1, <1>2, <1>4, <1>5, <1>6, GoodCommand DEF Follows, Reproduces
<1>8. Between(At(c, m + 2)) /\ At(c, m + 2).data = s.data /\ At(c, m + 2).db = d
  BY Zenon, <1>1, <1>2, <1>4, ReadCommand DEF Follows, Reproduces
<1> QED BY <1>1, <1>7, <1>8 DEF Reproduces

LEMMA CmdFed ==
  ASSUME NEW c \in Seq(Half), NEW k \in Nat, NEW m \in Nat, k <= m, NEW v \in Int, NEW b,
         NEW u \in Int, NEW d \in Nat, u + 1 <= v, u + 1 \in b => At(c, m).multi,
         Good(c, k, m, v, b), Reproduces(c, m, u, d), Follows(c, m, Cmd(u + 1, d))
  PROVE  Good(c, k, m + 2, v, b) /\ Reproduces(c, m + 2, u + 1, d)
<1>1. PICK s : s = At(c, m) OBVIOUS
<1>2. PICK i : i = Cmd(u + 1, d) OBVIOUS
<1>3. m \in 0..Len(c) /\ m \in k..m /\ s \in Reader BY <1>1, AtType DEF Follows
<1>4. s.data = u /\ s.db = d BY <1>1 DEF Reproduces
<1>5. Ran(s, i).data = u + 1 /\ Ran(s, i).db = d /\ Ran(s, i).multi = s.multi
  BY SMTT(30), <1>2, <1>3, <1>4 DEF Ran, Cmd, Reader
<1>6. Good(c, k, m + 2, v, b)
  BY SMTT(30), <1>1, <1>2, <1>4, <1>5, GoodCommand DEF Follows, Reproduces
<1>7. Between(At(c, m + 2)) /\ At(c, m + 2).data = u + 1 /\ At(c, m + 2).db = d
  <2>1. Between(At(c, m)) BY DEF Reproduces
  <2>2. /\ m + 2 <= Len(c) /\ i \in Item /\ c[m + 1] = [item |-> i, part |-> 1]
        /\ c[m + 2] = [item |-> i, part |-> 2]
    BY SMTT(30), <1>2 DEF Follows
  <2>3. /\ Between(At(c, m + 2)) /\ At(c, m + 2).data = Ran(At(c, m), i).data
        /\ At(c, m + 2).db = Ran(At(c, m), i).db
    BY ZenonT(60), <2>1, <2>2, ReadCommand
  <2> QED BY <1>1, <1>5, <2>3
<1> QED BY <1>6, <1>7 DEF Reproduces

LEMMA MultiFed ==
  ASSUME NEW c \in Seq(Half), NEW k \in Nat, NEW m \in Nat, k <= m, NEW v \in Int, NEW b,
         NEW u \in Int, NEW d, Good(c, k, m, v, b), Reproduces(c, m, u, d), Follows(c, m, Multi)
  PROVE  Good(c, k, m + 2, v, b) /\ Reproduces(c, m + 2, u, d) /\ At(c, m + 2).multi
<1>1. PICK s : s = At(c, m) OBVIOUS
<1>2. PICK i : i = Multi OBVIOUS
<1>3. m \in 0..Len(c) /\ m \in k..m /\ s \in Reader BY <1>1, AtType DEF Follows
<1>4. Ran(s, i).data = s.data /\ Ran(s, i).db = s.db /\ Ran(s, i).multi
  BY <1>2, <1>3 DEF Ran, Multi, Reader
<1>5. s.data <= v /\ s.data \in Int BY SMTT(30), <1>1, <1>3 DEF Good, Reader
<1>6. Good(c, k, m + 2, v, b)
  BY SMTT(30), <1>1, <1>2, <1>4, <1>5, GoodCommand DEF Follows, Reproduces
<1>7. /\ Between(At(c, m + 2)) /\ At(c, m + 2).data = s.data /\ At(c, m + 2).db = s.db
      /\ At(c, m + 2).multi
  BY SMTT(30), <1>1, <1>2, <1>4, ReadCommand DEF Follows, Reproduces
<1> QED BY <1>1, <1>6, <1>7 DEF Reproduces

LEMMA ExecFed ==
  ASSUME NEW c \in Seq(Half), NEW k \in Nat, NEW m \in Nat, k <= m, NEW v \in Int, NEW b,
         NEW u \in Int, u \notin b, NEW d, Good(c, k, m, v, b), Reproduces(c, m, u, d),
         Follows(c, m, Exec)
  PROVE  Good(c, k, m + 2, v, b) /\ Reproduces(c, m + 2, u, d)
<1>1. PICK s : s = At(c, m) OBVIOUS
<1>2. PICK i : i = Exec OBVIOUS
<1>3. m \in 0..Len(c) /\ m \in k..m /\ s \in Reader BY <1>1, AtType DEF Follows
<1>4. Ran(s, i).data = s.data /\ Ran(s, i).db = s.db
  BY <1>2, <1>3 DEF Ran, Exec, Reader
<1>5. s.data = u /\ s.data <= v BY SMTT(30), <1>1, <1>3 DEF Good, Reproduces
<1>6. Good(c, k, m + 2, v, b)
  BY SMTT(30), <1>1, <1>2, <1>4, <1>5, GoodCommand DEF Follows, Reproduces
<1>7. Between(At(c, m + 2)) /\ At(c, m + 2).data = s.data /\ At(c, m + 2).db = s.db
  BY Zenon, <1>1, <1>2, <1>4, ReadCommand DEF Follows, Reproduces
<1> QED BY <1>1, <1>6, <1>7 DEF Reproduces

\* What feedAppendOnlyFile appends for a write command or a transaction.
Bytes(d, sel, items) == Halves((IF d # sel THEN <<Select(d)>> ELSE << >>) \o items)

\* Up to m the content is good and reproduces v; the items follow, to its end.
Ready(e, k, m, w, a, v, d, items) ==
  /\ e \in Seq(Half) /\ k <= m /\ Len(e) = m + 2 * Len(items)
  /\ Good(e, k, m, w, a) /\ Reproduces(e, m, v, d)
  /\ \A i \in 1..Len(items) : Follows(e, m + 2 * i - 2, items[i])

\* The content before the commands, with the bounds of after them.
LEMMA FedFrom ==
  ASSUME NEW c \in Seq(Half), NEW k \in Nat, k <= Len(c), NEW v \in Int, NEW b,
         Good(c, k, Len(c), v, b), NEW sel \in Int, Reproduces(c, Len(c), v, sel),
         NEW d \in Nat, NEW items \in Seq(Item),
         NEW w \in Int, v <= w, NEW a, \A x \in a : x <= v => x \in b
  PROVE  \E m \in Nat : Ready(c \o Bytes(d, sel, items), k, m, w, a, v, d, items)
<1>1. PICK e : e = c \o Bytes(d, sel, items) BY Zenon
<1>2. Good(c, k, Len(c), w, a) BY GoodWeaker
<1>3. Select(d) \in Item BY DEF Select, Item
<1>4. CASE d = sel
  <2>1. (IF d # sel THEN <<Select(d)>> ELSE << >>) \o items = items BY <1>4
  <2>2. e = c \o Halves(items) BY Zenon, <1>1, <2>1 DEF Bytes
  <2>3. /\ e \in Seq(Half) /\ Len(e) = Len(c) + 2 * Len(items)
        /\ \A i \in 1..Len(items) :
              /\ e[Len(c) + 2 * i - 1] = [item |-> items[i], part |-> 1]
              /\ e[Len(c) + 2 * i] = [item |-> items[i], part |-> 2]
    BY Zenon, <2>2, HalvesAfter
  <2>4. Halves(items) \in Seq(Half) BY HalvesOf
  <2>5. \A n \in 0..Len(c) : At(e, n) = At(c, n) BY <2>2, <2>4, AtPrefix
  <2>6. Good(e, k, Len(c), w, a) BY <1>2, <2>5, GoodAgain
  <2>7. Reproduces(e, Len(c), v, d) BY <1>4, <2>5 DEF Reproduces
  <2>8. ASSUME NEW i \in 1..Len(items) PROVE Follows(e, Len(c) + 2 * i - 2, items[i])
    <3>1. /\ Len(c) + 2 * i - 2 \in Nat /\ (Len(c) + 2 * i - 2) + 1 = Len(c) + 2 * i - 1
          /\ (Len(c) + 2 * i - 2) + 2 = Len(c) + 2 * i /\ Len(c) + 2 * i <= Len(e)
      BY SMTT(30), <2>3
    <3> QED BY <2>3, <3>1 DEF Follows
  <2> WITNESS Len(c) \in Nat
  <2> QED BY <1>1, <2>3, <2>6, <2>7, <2>8 DEF Ready
<1>5. CASE d # sel
  <2>1. PICK all : all = <<Select(d)>> \o items BY Zenon
  <2>2. /\ all \in Seq(Item) /\ Len(all) = 1 + Len(items) /\ all[1] = Select(d)
        /\ \A i \in 1..Len(items) : all[i + 1] = items[i]
    BY <1>3, <2>1
  <2>3. e = c \o Halves(all) BY <1>1, <1>5, <2>1 DEF Bytes
  <2>4. /\ e \in Seq(Half) /\ Len(e) = Len(c) + 2 * Len(all)
        /\ \A i \in 1..Len(all) :
              /\ e[Len(c) + 2 * i - 1] = [item |-> all[i], part |-> 1]
              /\ e[Len(c) + 2 * i] = [item |-> all[i], part |-> 2]
    BY Zenon, <2>2, <2>3, HalvesAfter
  <2>5. Halves(all) \in Seq(Half) BY <2>2, HalvesOf
  <2>6. \A n \in 0..Len(c) : At(e, n) = At(c, n) BY <2>3, <2>5, AtPrefix
  <2>7. Good(e, k, Len(c), w, a) BY <1>2, <2>6, GoodAgain
  <2>8. Reproduces(e, Len(c), v, sel) BY <2>6 DEF Reproduces
  <2>9. ASSUME NEW i \in 1..Len(all) PROVE Follows(e, Len(c) + 2 * i - 2, all[i])
    <3>1. /\ Len(c) + 2 * i - 2 \in Nat /\ (Len(c) + 2 * i - 2) + 1 = Len(c) + 2 * i - 1
          /\ (Len(c) + 2 * i - 2) + 2 = Len(c) + 2 * i /\ Len(c) + 2 * i <= Len(e)
      BY SMTT(30), <2>4
    <3>2. all[i] \in Item BY <2>2
    <3> QED BY <2>4, <3>1, <3>2 DEF Follows
  <2>10. Follows(e, Len(c), Select(d))
    <3>1. 1 \in 1..Len(all) /\ Len(c) + 2 * 1 - 2 = Len(c) BY SMTT(30), <2>2
    <3> QED BY <2>2, <2>9, <3>1
  <2>11. Good(e, k, Len(c) + 2, w, a) /\ Reproduces(e, Len(c) + 2, v, d)
    BY <2>4, <2>7, <2>8, <2>10, SelectFed
  <2>12. ASSUME NEW i \in 1..Len(items) PROVE Follows(e, (Len(c) + 2) + 2 * i - 2, items[i])
    <3>1. Len(c) \in Nat /\ Len(items) \in Nat OBVIOUS
    <3>2. i + 1 \in 1..Len(all) /\ all[i + 1] = items[i] BY <2>2, <3>1
    <3>3. Len(c) + 2 * (i + 1) - 2 = (Len(c) + 2) + 2 * i - 2 BY <3>1
    <3> QED BY <2>9, <3>2, <3>3
  <2>13. Len(e) = (Len(c) + 2) + 2 * Len(items) BY <2>2, <2>4
  <2> WITNESS Len(c) + 2 \in Nat
  <2>14. k <= Len(c) + 2 OBVIOUS
  <2> QED BY <1>1, <2>4, <2>11, <2>12, <2>13, <2>14 DEF Ready
<1> QED BY <1>4, <1>5

\* A content that is good and reproduces version v is good and reproduces the
\* next one after the write command is fed.
LEMMA WriteFed ==
  ASSUME NEW c \in Seq(Half), NEW k \in Nat, k <= Len(c), NEW v \in Int, NEW b,
         Good(c, k, Len(c), v, b), NEW sel \in Int, Reproduces(c, Len(c), v, sel), NEW d \in Nat,
         NEW a, \A x \in a : x <= v => x \in b, v + 1 \notin a
  PROVE  LET e == c \o Bytes(d, sel, <<Cmd(v + 1, d)>>)
         IN /\ e \in Seq(Half) /\ k <= Len(e)
            /\ Good(e, k, Len(e), v + 1, a) /\ Reproduces(e, Len(e), v + 1, d)
<1>1. PICK items : items = <<Cmd(v + 1, d)>> BY Zenon
<1>2. Cmd(v + 1, d) \in Item BY DEF Cmd, Item
<1>3. items \in Seq(Item) /\ Len(items) = 1 /\ items[1] = Cmd(v + 1, d) BY <1>1, <1>2
<1>4. PICK e : e = c \o Bytes(d, sel, items) BY Zenon
<1>5. PICK m \in Nat : /\ e \in Seq(Half) /\ k <= m /\ Len(e) = m + 2 * Len(items)
                       /\ Good(e, k, m, v + 1, a) /\ Reproduces(e, m, v, d)
                       /\ \A i \in 1..Len(items) : Follows(e, m + 2 * i - 2, items[i])
  <2>1. v + 1 \in Int /\ v <= v + 1 OBVIOUS
  <2>2. items \in Seq(Item) BY <1>3
  <2>3. \E m \in Nat : Ready(e, k, m, v + 1, a, v, d, items)
    BY <1>4, <2>1, <2>2, FedFrom, ZenonT(60)
  <2> QED BY <2>3 DEF Ready
<1>6. Follows(e, m, Cmd(v + 1, d))
  <2>1. 1 \in 1..Len(items) /\ m + 2 * 1 - 2 = m BY <1>3
  <2> QED BY <1>3, <1>5, <2>1
<1>7. Good(e, k, m + 2, v + 1, a) /\ Reproduces(e, m + 2, v + 1, d)
  <2>1. v + 1 \in Int /\ v + 1 <= v + 1 OBVIOUS
  <2> QED BY <1>5, <1>6, <2>1, CmdFed
<1>8. Len(e) = m + 2 /\ k <= Len(e) BY <1>3, <1>5
<1> QED BY <1>1, <1>4, <1>5, <1>7, <1>8

\* The same of a transaction: the version between its two write commands is only
\* reproduced in the middle of it.
LEMMA TransactionFed ==
  ASSUME NEW c \in Seq(Half), NEW k \in Nat, k <= Len(c), NEW v \in Int, NEW b,
         Good(c, k, Len(c), v, b), NEW sel \in Int, Reproduces(c, Len(c), v, sel), NEW d \in Nat,
         NEW a, \A x \in a : x <= v => x \in b, v + 2 \notin a
  PROVE  LET e == c \o Bytes(d, sel, <<Multi, Cmd(v + 1, d), Cmd(v + 2, d), Exec>>)
         IN /\ e \in Seq(Half) /\ k <= Len(e)
            /\ Good(e, k, Len(e), v + 2, a) /\ Reproduces(e, Len(e), v + 2, d)
<1>1. PICK items : items = <<Multi, Cmd(v + 1, d), Cmd(v + 2, d), Exec>> BY Zenon
<1>2. Cmd(v + 1, d) \in Item /\ Cmd(v + 2, d) \in Item /\ Multi \in Item /\ Exec \in Item
  BY DEF Cmd, Multi, Exec, Item
<1>3. /\ items \in Seq(Item) /\ Len(items) = 4 /\ items[1] = Multi /\ items[2] = Cmd(v + 1, d)
      /\ items[3] = Cmd(v + 2, d) /\ items[4] = Exec
  BY <1>1, <1>2
<1>4. PICK e : e = c \o Bytes(d, sel, items) BY Zenon
<1>5. PICK m \in Nat : /\ e \in Seq(Half) /\ k <= m /\ Len(e) = m + 2 * Len(items)
                       /\ Good(e, k, m, v + 2, a) /\ Reproduces(e, m, v, d)
                       /\ \A i \in 1..Len(items) : Follows(e, m + 2 * i - 2, items[i])
  <2>1. v + 2 \in Int /\ v <= v + 2 OBVIOUS
  <2>2. items \in Seq(Item) BY <1>3
  <2>3. \E m \in Nat : Ready(e, k, m, v + 2, a, v, d, items)
    BY <1>4, <2>1, <2>2, FedFrom, ZenonT(60)
  <2> QED BY <2>3 DEF Ready
<1>6. /\ Follows(e, m, Multi) /\ Follows(e, m + 2, Cmd(v + 1, d))
      /\ Follows(e, m + 4, Cmd(v + 2, d)) /\ Follows(e, m + 6, Exec)
  <2>1. 1 \in 1..Len(items) /\ 2 \in 1..Len(items) /\ 3 \in 1..Len(items) /\ 4 \in 1..Len(items)
    BY <1>3
  <2>2. /\ m + 2 * 1 - 2 = m /\ m + 2 * 2 - 2 = m + 2 /\ m + 2 * 3 - 2 = m + 4
        /\ m + 2 * 4 - 2 = m + 6
    OBVIOUS
  <2>3. \A i \in 1..Len(items) : Follows(e, m + 2 * i - 2, items[i]) BY <1>5
  <2>4. Follows(e, m + 2 * 1 - 2, items[1]) /\ Follows(e, m + 2 * 2 - 2, items[2])
    BY <2>1, <2>3
  <2>5. Follows(e, m + 2 * 3 - 2, items[3]) /\ Follows(e, m + 2 * 4 - 2, items[4])
    BY <2>1, <2>3
  <2> QED BY <1>3, <2>2, <2>4, <2>5
<1>7. v + 1 \in Int /\ v + 2 \in Int /\ v + 1 <= v + 2 /\ v + 2 <= v + 2 /\ (v + 1) + 1 = v + 2
  OBVIOUS
<1>8. Good(e, k, m + 2, v + 2, a) /\ Reproduces(e, m + 2, v, d) /\ At(e, m + 2).multi
  BY <1>5, <1>6, <1>7, MultiFed
<1>9. m + 2 \in Nat /\ k <= m + 2 /\ (m + 2) + 2 = m + 4 /\ m + 4 \in Nat /\ k <= m + 4
      /\ (m + 4) + 2 = m + 6 /\ m + 6 \in Nat /\ k <= m + 6 /\ (m + 6) + 2 = m + 8
  BY <1>5
<1>10. Good(e, k, m + 4, v + 2, a) /\ Reproduces(e, m + 4, v + 1, d)
  BY SMTT(30), <1>5, <1>6, <1>7, <1>8, <1>9, CmdFed
<1>11. Good(e, k, m + 6, v + 2, a) /\ Reproduces(e, m + 6, v + 2, d)
  BY SMTT(30), <1>5, <1>6, <1>7, <1>9, <1>10, CmdFed
<1>12. Good(e, k, m + 8, v + 2, a) /\ Reproduces(e, m + 8, v + 2, d)
  BY SMTT(30), <1>5, <1>6, <1>7, <1>9, <1>11, ExecFed
<1>13. Len(e) = m + 8 /\ k <= Len(e) BY SMTT(30), <1>3, <1>5
<1> QED BY <1>1, <1>4, <1>5, <1>12, <1>13

\* The file of the child: a snapshot of the dataset.
LEMMA SnapReproduces ==
  ASSUME NEW v \in Int, NEW d \in Int, NEW b, v \notin b
  PROVE  LET e == Halves(<<Snap(v, d)>>)
         IN /\ e \in Seq(Half) /\ Len(e) = 2 /\ Good(e, 2, 2, v, b) /\ Reproduces(e, 2, v, -1)
<1>1. PICK i : i = Snap(v, d) OBVIOUS
<1>2. i \in Item BY <1>1 DEF Snap, Item
<1>3. PICK items : items = <<i>> BY Zenon
<1>4. PICK e : e = Halves(items) OBVIOUS
<1>5. /\ items \in Seq(Item) /\ Len(items) = 1 /\ 1 \in 1..Len(items) /\ items[1] = i
      /\ e \in Seq(Half) /\ Len(e) = 2 * 1
  <2>1. items \in Seq(Item) /\ Len(items) = 1 /\ items[1] = i BY <1>2, <1>3
  <2>2. Halves(items) \in Seq(Half) /\ Len(Halves(items)) = 2 * Len(items) BY Zenon, <2>1, HalvesOf
  <2>3. 1 \in 1..Len(items) BY <2>1
  <2> QED BY <1>4, <2>1, <2>2, <2>3
<1>6. e[2 * 1 - 1] = [item |-> i, part |-> 1] /\ e[2 * 1] = [item |-> i, part |-> 2]
  BY Zenon, <1>4, <1>5, HalvesOf
<1>7. Len(e) = 2 /\ e[0 + 1] = [item |-> i, part |-> 1] /\ e[0 + 2] = [item |-> i, part |-> 2]
  BY <1>5, <1>6
<1>8. At(e, 0) = Start /\ Start \in Reader BY <1>5, AtStep DEF Start, Reader
<1>9. Between(At(e, 0)) BY <1>8 DEF Start, Between
<1>10. Ran(Start, i).data = v BY Zenon, <1>1, <1>8 DEF Ran, Snap, Start
<1>11. Between(At(e, 0 + 2)) /\ At(e, 0 + 2).data = Ran(At(e, 0), i).data
  <2>1. 0 \in Nat /\ 0 + 2 <= Len(e) BY <1>7
  <2>2. e \in Seq(Half) BY <1>5
  <2> QED BY <1>2, <1>7, <1>9, <2>1, <2>2, ReadCommand, ZenonT(60)
<1>12. Between(At(e, 2)) /\ At(e, 2).data = v BY <1>8, <1>10, <1>11
<1>13. Good(e, 2, 2, v, b) BY <1>12 DEF Good, Between
<1> QED BY <1>1, <1>3, <1>4, <1>5, <1>7, <1>12, <1>13 DEF Reproduces

----------------------------------------------------------------------------
(* The inductive invariant.                                                *)

\* The versions a server must not be left with.
Middle == IF conf.truncated \/ stray THEN {} ELSE inside

\* The file the rewrite would end with now.
NewFile == Halves(<<child>>) \o rewritebuf

Types ==
  /\ run \in {"up", "switching", "down"} /\ state \in {"on", "off", "wait"}
  /\ fd \in {"none", "live", "stale"}
  /\ version \in Int /\ seldb \in Int /\ size \in Nat /\ stray \in BOOLEAN
  /\ file \in Seq(Half) /\ buf \in Seq(Half) /\ rewritebuf \in Seq(Half)
  /\ child \in [type : {"snap"}, arg : Int, db : Dbs] \cup {NoChild}

\* The flags of the handlers agree.
Control ==
  /\ child = NoChild \/ state = "off" => rewritebuf = << >>
  /\ run = "switching" => child # NoChild /\ file = NewFile
  /\ state # "off" => fd = "live"
  /\ run = "up" /\ state = "wait" => child # NoChild \/ scheduled
  /\ run # "down" => version \notin Middle

\* The child's file and the differences reproduce the dataset.
New ==
  run # "down" /\ child # NoChild =>
    /\ Good(NewFile, 2, Len(NewFile), version, Middle)
    /\ state # "off" => Reproduces(NewFile, Len(NewFile), version, seldb)
    /\ ~stray => At(NewFile, 2).data >= 0

\* So do the file and the buffer.
Current ==
  state = "on" /\ run = "up" =>
    /\ Good(file \o buf, synced, Len(file \o buf), version, Middle)
    /\ Reproduces(file \o buf, Len(file \o buf), version, seldb)
    /\ size = Len(file)

OnDisk ==
  /\ version >= 0 /\ synced \in 0..Len(file)
  /\ Good(file, synced, Len(file), version, Middle)
  /\ At(file, synced).data >= 0

IInv == Types /\ Control /\ New /\ (~stray => Current /\ OnDisk)

\* The server has promised that acknowledged writes are on the disk.
Always == conf.fsync = "always" /\ ~conf.lazy /\ ~exposed

\* Then what was acknowledged is on the disk, and nothing is left in the buffer
\* when the file is turned off.
Durable ==
  /\ acked \in Int
  /\ Always =>
       /\ ~stray
       /\ state # "on" => buf = << >> /\ acked = 0
       /\ run # "switching" => At(file, synced).data >= acked

\* Joining contents.
LEMMA Joined ==
  \A s, t \in Seq(Half) : s \o t \in Seq(Half) /\ Len(s \o t) = Len(s) + Len(t)
BY ConcatProperties

LEMMA JoinedTwice == \A s, t, u \in Seq(Half) : s \o (t \o u) = (s \o t) \o u
BY SMTT(30), ConcatAssociative

\* Feeding the commands takes every good content from version v to version w.
Feeds(d, items, v, w, b, a) ==
  \A c \in Seq(Half), k \in Nat, sel \in Int :
    k <= Len(c) /\ Good(c, k, Len(c), v, b) /\ Reproduces(c, Len(c), v, sel) =>
      LET e == c \o Bytes(d, sel, items)
      IN Good(e, k, Len(e), w, a) /\ Reproduces(e, Len(e), w, d)

\* A write command and a transaction feed such commands.
LEMMA WriteFeeds ==
  ASSUME NEW d \in Nat, NEW v \in Int, NEW b, NEW a, \A x \in a : x <= v => x \in b, v + 1 \notin a
  PROVE  Feeds(d, <<Cmd(v + 1, d)>>, v, v + 1, b, a)
<1>1. SUFFICES ASSUME NEW c \in Seq(Half), NEW k \in Nat, NEW sel \in Int, k <= Len(c),
                      Good(c, k, Len(c), v, b), Reproduces(c, Len(c), v, sel)
               PROVE  LET e == c \o Bytes(d, sel, <<Cmd(v + 1, d)>>)
                      IN Good(e, k, Len(e), v + 1, a) /\ Reproduces(e, Len(e), v + 1, d)
  BY Zenon DEF Feeds
<1> QED BY <1>1, WriteFed

LEMMA TransactionFeeds ==
  ASSUME NEW d \in Nat, NEW v \in Int, NEW b, NEW a, \A x \in a : x <= v => x \in b, v + 2 \notin a
  PROVE  Feeds(d, <<Multi, Cmd(v + 1, d), Cmd(v + 2, d), Exec>>, v, v + 2, b, a)
<1>1. SUFFICES ASSUME NEW c \in Seq(Half), NEW k \in Nat, NEW sel \in Int, k <= Len(c),
                      Good(c, k, Len(c), v, b), Reproduces(c, Len(c), v, sel)
               PROVE  LET e == c \o Bytes(d, sel, <<Multi, Cmd(v + 1, d), Cmd(v + 2, d), Exec>>)
                      IN Good(e, k, Len(e), v + 2, a) /\ Reproduces(e, Len(e), v + 2, d)
  BY Zenon DEF Feeds
<1> QED BY <1>1, TransactionFed

\* What is fed, and what a rewrite ends with, are contents.
LEMMA BytesType ==
  ASSUME NEW d \in Nat, NEW sel \in Int, NEW items \in Seq(Item)
  PROVE  Bytes(d, sel, items) \in Seq(Half)
<1>1. Select(d) \in Item BY DEF Select, Item
<1>2. (IF d # sel THEN <<Select(d)>> ELSE << >>) \o items \in Seq(Item) BY <1>1
<1> QED BY Zenon, <1>2, HalvesOf DEF Bytes

LEMMA NewFileType ==
  ASSUME NEW x \in [type : {"snap"}, arg : Int, db : Dbs], NEW r \in Seq(Half)
  PROVE  /\ Halves(<<x>>) \in Seq(Half) /\ Len(Halves(<<x>>)) = 2
         /\ Halves(<<x>>) \o r \in Seq(Half) /\ Len(Halves(<<x>>) \o r) = 2 + Len(r)
<1>1. x \in Item
  <2>1. \A d \in Dbs : d \in Int BY DbAssumption
  <2> QED BY <2>1 DEF Item
<1>2. PICK items : items = <<x>> BY Zenon
<1>3. items \in Seq(Item) /\ Len(items) = 1 BY <1>1, <1>2
<1>4. Halves(items) \in Seq(Half) /\ Len(Halves(items)) = 2 * Len(items) BY Zenon, <1>3, HalvesOf
<1>5. PICK h : h = Halves(items) OBVIOUS
<1>6. h \in Seq(Half) /\ Len(h) = 2 BY <1>3, <1>4, <1>5
<1>7. h \o r \in Seq(Half) /\ Len(h \o r) = 2 + Len(r) BY Zenon, <1>6, Joined
<1> QED BY <1>2, <1>5, <1>6, <1>7

\* propagate() keeps the invariant.
LEMMA PropagateKeeps ==
  ASSUME IInv, run = "up", NEW d \in Nat, NEW items \in Seq(Item), propagate(d, items),
         version' \in Int, version <= version', version' \notin Middle',
         \A x \in Middle' : x <= version => x \in Middle,
         Feeds(d, items, version, version', Middle, Middle'),
         UNCHANGED <<run, file, synced, state, fd, size, child, scheduled, stray>>
  PROVE  IInv'
<1>1. PICK bytes : bytes = Bytes(d, seldb, items) OBVIOUS
<1>2. Types BY DEF IInv
<1>3. bytes \in Seq(Half) BY <1>1, <1>2, BytesType DEF Types
<1>4. Control BY DEF IInv
<1>5. /\ state = "off" => seldb' = seldb /\ buf' = buf /\ rewritebuf' = rewritebuf
      /\ state # "off" => seldb' = d
      /\ state = "on" => buf' = buf \o bytes
      /\ state = "wait" => buf' = buf
      /\ state # "off" /\ child # NoChild => rewritebuf' = rewritebuf \o bytes
      /\ child = NoChild => rewritebuf' = rewritebuf
  BY Zenon, <1>1 DEF propagate, feedAppendOnlyFile, Bytes
<1>6. Types'
  <2>1. seldb' \in Int BY <1>2, <1>5 DEF Types
  <2>2. buf \o bytes \in Seq(Half) /\ rewritebuf \o bytes \in Seq(Half)
    BY <1>2, <1>3, Joined DEF Types
  <2>3. buf' = buf \/ buf' = buf \o bytes BY <1>2, <1>5 DEF Types
  <2>4. rewritebuf' = rewritebuf \/ rewritebuf' = rewritebuf \o bytes BY <1>2, <1>5 DEF Types
  <2>5. stray' \in BOOLEAN BY <1>2 DEF Types
  <2> QED BY Zenon, <1>2, <2>1, <2>2, <2>3, <2>4, <2>5 DEF Types
<1>7. Control'
  <2>1. run' # "switching" /\ version' \notin Middle' OBVIOUS
  <2>2. child = NoChild \/ state = "off" => rewritebuf' = << >> BY <1>4, <1>5 DEF Control
  <2> QED BY <1>4, <2>1, <2>2 DEF Control
<1>8. New'
  <2> SUFFICES ASSUME child # NoChild
               PROVE  /\ Good(NewFile', 2, Len(NewFile'), version', Middle')
                      /\ state # "off" => Reproduces(NewFile', Len(NewFile'), version', seldb')
                      /\ ~stray => At(NewFile', 2).data >= 0
    BY DEF New
  <2>1. child \in [type : {"snap"}, arg : Int, db : Dbs] /\ rewritebuf \in Seq(Half)
    BY <1>2 DEF Types
  <2>2. NewFile \in Seq(Half) /\ Len(NewFile) \in Nat /\ 2 <= Len(NewFile)
    BY SMTT(30), <2>1, NewFileType DEF NewFile
  <2>3. /\ Good(NewFile, 2, Len(NewFile), version, Middle)
        /\ state # "off" => Reproduces(NewFile, Len(NewFile), version, seldb)
        /\ ~stray => At(NewFile, 2).data >= 0
    BY DEF IInv, New
  <2>4. CASE state = "off"
    <3>1. NewFile' = NewFile BY <1>5, <2>4 DEF NewFile
    <3>2. Good(NewFile, 2, Len(NewFile), version', Middle')
      <4>1. Len(NewFile) \in 0..Len(NewFile) /\ 2 \in 2..Len(NewFile) /\ 2 \in Nat BY <2>2
      <4>2. version \in Int BY SMTT(30), <1>2 DEF Types
      <4> QED BY <2>2, <2>3, <4>1, <4>2, GoodWeaker
    <3> QED BY SMTT(30), <2>3, <2>4, <3>1, <3>2
  <2>5. CASE state # "off"
    <3>1. NewFile' = NewFile \o bytes
      <4>1. PICK h : h = Halves(<<child>>) OBVIOUS
      <4>2. h \in Seq(Half) BY <2>1, <4>1, NewFileType
      <4>3. h \o (rewritebuf \o bytes) = (h \o rewritebuf) \o bytes
        BY SMTT(30), <1>3, <2>1, <4>2, JoinedTwice
      <4>4. child' = child /\ rewritebuf' = rewritebuf \o bytes BY <1>5, <2>5
      <4> QED BY SMTT(30), <4>1, <4>3, <4>4 DEF NewFile
    <3>2. seldb \in Int /\ 2 \in Nat BY <1>2 DEF Types
    <3>3. LET e == NewFile \o bytes
          IN Good(e, 2, Len(e), version', Middle') /\ Reproduces(e, Len(e), version', d)
      BY Zenon, <1>1, <2>2, <2>3, <2>5, <3>2 DEF Feeds
    <3>4. At(NewFile \o bytes, 2) = At(NewFile, 2) BY <1>3, <2>2, AtPrefix
    <3> QED BY SMTT(30), <1>5, <2>3, <2>5, <3>1, <3>3, <3>4
  <2> QED BY <2>4, <2>5
<1>9. ASSUME ~stray PROVE Current' /\ OnDisk'
  <2>1. Current /\ OnDisk BY <1>9 DEF IInv
  <2>2. version \in Int /\ file \in Seq(Half) /\ buf \in Seq(Half) /\ seldb \in Int
    BY <1>2 DEF Types
  <2>3. Len(file) \in Nat /\ synced \in Nat /\ synced <= Len(file) BY <2>1, <2>2 DEF OnDisk
  <2>4. OnDisk'
    <3>1. Good(file, synced, Len(file), version', Middle')
      <4>1. Len(file) \in 0..Len(file) /\ synced \in synced..Len(file) BY <2>3
      <4>2. Good(file, synced, Len(file), version, Middle) BY <2>1 DEF OnDisk
      <4> QED BY <2>2, <2>3, <4>1, <4>2, GoodWeaker
    <3>2. version' >= 0 BY <2>1, <2>2 DEF OnDisk
    <3> QED BY <2>1, <3>1, <3>2 DEF OnDisk
  <2>5. Current'
    <3> SUFFICES ASSUME state = "on" PROVE Current' BY DEF Current
    <3>1. PICK c : c = file \o buf BY Zenon
    <3>2. c \in Seq(Half) /\ synced <= Len(c) BY <2>2, <2>3, <3>1
    <3>3. Good(c, synced, Len(c), version, Middle) /\ Reproduces(c, Len(c), version, seldb)
      BY <2>1, <3>1 DEF Current
    <3>4. LET e == c \o bytes
          IN Good(e, synced, Len(e), version', Middle') /\ Reproduces(e, Len(e), version', d)
      BY Zenon, <1>1, <2>2, <2>3, <3>2, <3>3 DEF Feeds
    <3>5. file \o (buf \o bytes) = c \o bytes BY Zenon, <1>3, <2>2, <3>1, JoinedTwice
    <3>6. file' \o buf' = c \o bytes /\ seldb' = d BY Zenon, <1>5, <3>5
    <3>7. size' = Len(file') BY <2>1 DEF Current
    <3> QED BY <3>4, <3>6, <3>7 DEF Current
  <2> QED BY <2>4, <2>5
<1> QED BY <1>6, <1>7, <1>8, <1>9 DEF IInv

\* The two actions that propagate.
LEMMA WriteKeeps ==
  ASSUME IInv, NEW d \in Dbs, Write(d)
  PROVE  IInv'
<1>1. run = "up" /\ version \in Int /\ d \in Nat BY DbAssumption DEF Write, IInv, Types
<1>2. version' = version + 1 /\ version' \in Int /\ version <= version' BY <1>1 DEF Write
<1>3. /\ propagate(d, <<Cmd(version + 1, d)>>) /\ inside' = inside \ {version + 1}
      /\ UNCHANGED <<conf, run, file, synced, state, fd, size, child, scheduled, stray>>
  BY DEF Write, disk
<1>4. version' \notin Middle' /\ \A x \in Middle' : x <= version => x \in Middle
  BY <1>2, <1>3 DEF Middle
<1>5. Cmd(version + 1, d) \in Item BY <1>1 DEF Cmd, Item
<1>6. <<Cmd(version + 1, d)>> \in Seq(Item) BY <1>5
<1>7. Feeds(d, <<Cmd(version + 1, d)>>, version, version', Middle, Middle')
  BY <1>1, <1>2, <1>4, WriteFeeds
<1>8. UNCHANGED <<run, file, synced, state, fd, size, child, scheduled, stray>> BY <1>3
<1> QED BY Zenon, <1>1, <1>2, <1>3, <1>4, <1>6, <1>7, <1>8, PropagateKeeps

LEMMA TransactionKeeps ==
  ASSUME IInv, NEW d \in Dbs, Transaction(d)
  PROVE  IInv'
<1>1. run = "up" /\ version \in Int /\ d \in Nat BY DbAssumption DEF Transaction, IInv, Types
<1>2. version' = version + 2 /\ version' \in Int /\ version <= version' BY <1>1 DEF Transaction
<1>3. /\ propagate(d, <<Multi, Cmd(version + 1, d), Cmd(version + 2, d), Exec>>)
      /\ inside' = (inside \cup {version + 1}) \ {version + 2}
      /\ UNCHANGED <<conf, run, file, synced, state, fd, size, child, scheduled, stray>>
  BY DEF Transaction, disk
<1>4. version' \notin Middle' BY SMTT(30), <1>2, <1>3 DEF Middle
<1>5. \A x \in Middle' : x <= version => x \in Middle BY <1>1, <1>3 DEF Middle
<1>6. PICK items : items = <<Multi, Cmd(version + 1, d), Cmd(version + 2, d), Exec>> BY Zenon
<1>7. /\ Multi \in Item /\ Cmd(version + 1, d) \in Item /\ Cmd(version + 2, d) \in Item
      /\ Exec \in Item
  BY <1>1 DEF Cmd, Multi, Exec, Item
<1>8. items \in Seq(Item) BY <1>6, <1>7
<1>9. Feeds(d, items, version, version', Middle, Middle')
  BY SMTT(30), <1>1, <1>2, <1>4, <1>5, <1>6, TransactionFeeds
<1>10. propagate(d, items) BY <1>3, <1>6
<1>11. UNCHANGED <<run, file, synced, state, fd, size, child, scheduled, stray>> BY <1>3
<1> QED BY SMTT(30), <1>1, <1>2, <1>4, <1>5, <1>8, <1>9, <1>10, <1>11, PropagateKeeps

\* A part of a good content, as a crash or a partial write leaves it.
LEMMA GoodPart ==
  ASSUME NEW c \in Seq(Half), NEW k \in 0..Len(c), NEW v \in Int, NEW b,
         Good(c, k, Len(c), v, b), NEW o \in k..Len(c), NEW j \in k..o
  PROVE  /\ SubSeq(c, 1, o) \in Seq(Half) /\ Len(SubSeq(c, 1, o)) = o /\ j \in 0..o
         /\ Good(SubSeq(c, 1, o), j, o, v, b)
         /\ At(c, k).data <= At(SubSeq(c, 1, o), j).data
<1>1. PICK f : f = SubSeq(c, 1, o) BY Zenon
<1>2. Len(c) \in Nat /\ o \in 0..Len(c) /\ k \in Nat /\ o \in Nat /\ j \in Nat OBVIOUS
<1>3. f \in Seq(Half) /\ Len(f) = o /\ \A n \in 0..o : At(f, n) = At(c, n)
  BY SMTT(30), <1>1, <1>2, AtCut
<1>4. Good(c, j, o, v, b)
  <2>1. \A n \in j..o : n \in k..Len(c) BY <1>2
  <2>2. \A n \in j..o : ~At(c, n).bad /\ At(c, n).data <= v
                        /\ (At(c, n).data \in b => At(c, n).multi)
    BY <2>1 DEF Good
  <2>3. \A n, m \in j..o : n <= m => At(c, n).data <= At(c, m).data BY <2>1 DEF Good
  <2> QED BY <2>2, <2>3 DEF Good
<1>5. Good(f, j, o, v, b)
  <2>1. \A n \in j..o : At(f, n) = At(c, n) BY <1>2, <1>3
  <2> QED BY <1>2, <1>4, <2>1, GoodAgain
<1>6. At(c, k).data <= At(c, j).data
  <2>1. k \in k..Len(c) /\ j \in k..Len(c) /\ k <= j BY <1>2
  <2> QED BY <2>1 DEF Good
<1>7. j \in 0..o BY <1>2
<1> QED BY <1>1, <1>3, <1>5, <1>6, <1>7

\* What the rewrite would end with, when nothing of it changes.
LEMMA NewKept ==
  ASSUME IInv, run # "down", version' = version, child' = child, rewritebuf' = rewritebuf,
         state' = state, seldb' = seldb, Middle' \subseteq Middle, stray => stray'
  PROVE  New'
<1> SUFFICES ASSUME child # NoChild
             PROVE  /\ Good(NewFile', 2, Len(NewFile'), version', Middle')
                    /\ state' # "off" => Reproduces(NewFile', Len(NewFile'), version', seldb')
                    /\ ~stray' => At(NewFile', 2).data >= 0
  BY DEF New
<1>1. /\ child \in [type : {"snap"}, arg : Int, db : Dbs] /\ rewritebuf \in Seq(Half)
      /\ version \in Int
  BY DEF IInv, Types
<1>2. NewFile \in Seq(Half) /\ Len(NewFile) \in Nat /\ 2 <= Len(NewFile)
  BY <1>1, NewFileType DEF NewFile
<1>3. /\ Good(NewFile, 2, Len(NewFile), version, Middle)
      /\ state # "off" => Reproduces(NewFile, Len(NewFile), version, seldb)
      /\ ~stray => At(NewFile, 2).data >= 0
  BY DEF IInv, New
<1>4. NewFile' = NewFile BY DEF NewFile
<1>5. Good(NewFile, 2, Len(NewFile), version, Middle')
  <2>1. Len(NewFile) \in 0..Len(NewFile) /\ 2 \in 2..Len(NewFile) /\ 2 \in Nat BY <1>2
  <2>2. version <= version /\ \A x \in Middle' : x <= version => x \in Middle BY SMTT(30), <1>1
  <2> QED BY <1>1, <1>2, <1>3, <2>1, <2>2, GoodWeaker
<1> QED BY <1>3, <1>4, <1>5

\* What a write(2) of the buffer can do.
LEMMA OutcomeCases ==
  ASSUME Types, NEW w \in WriteOutcomes
  PROVE  \/ w[1] = "ok" \/ w[1] = "error" \/ (w[1] = "undone" /\ fd = "live")
         \/ (w[1] = "short" /\ fd = "live" /\ w[2] \in 1..(Len(buf) - 1))
<1>1. CASE fd = "none"
  <2>1. w = <<"error", 0>> BY <1>1 DEF WriteOutcomes
  <2> QED BY <2>1
<1>2. CASE fd = "stale"
  <2>1. w = <<"error", 0>> \/ w = <<"ok", 0>> BY <1>2 DEF WriteOutcomes
  <2> QED BY <2>1
<1>3. CASE fd = "live"
  <2>1. \/ w = <<"ok", 0>> \/ w = <<"error", 0>> \/ w = <<"undone", 0>>
        \/ \E n \in 1..(Len(buf) - 1) : w = <<"short", n>>
    BY <1>3 DEF WriteOutcomes
  <2> QED BY <1>3, <2>1
<1> QED BY <1>1, <1>2, <1>3 DEF Types

\* ftruncate(2) leaves a content.
LEMMA ResizedType ==
  ASSUME NEW c \in Seq(Half), NEW n \in Nat
  PROVE  Resized(c, n) \in Seq(Half)
<1>1. Exec \in Item BY DEF Exec, Item
<1>2. [item |-> Exec, part |-> 0] \in Half BY <1>1 DEF Half
<1>3. \A m \in Nat : Zeros(m) \in Seq(Half) BY <1>2 DEF Zeros
<1>4. CASE n <= Len(c) BY <1>4, AtCut DEF Resized
<1>5. CASE ~(n <= Len(c))
  <2>1. n - Len(c) \in Nat BY <1>5
  <2>2. Zeros(n - Len(c)) \in Seq(Half) BY <1>3, <2>1
  <2> QED BY <1>5, <2>2, Joined DEF Resized
<1> QED BY <1>4, <1>5

\* A partial write takes from the buffer what it appends to the file.
LEMMA Moved ==
  ASSUME NEW f \in Seq(Half), NEW q \in Seq(Half), NEW n \in 0..Len(q)
  PROVE  /\ SubSeq(q, 1, n) \in Seq(Half) /\ Len(SubSeq(q, 1, n)) = n
         /\ SubSeq(q, n + 1, Len(q)) \in Seq(Half)
         /\ f \o SubSeq(q, 1, n) = SubSeq(f \o q, 1, Len(f) + n)
         /\ (f \o SubSeq(q, 1, n)) \o SubSeq(q, n + 1, Len(q)) = f \o q
<1>1. SubSeq(q, 1, n) \in Seq(Half) /\ Len(SubSeq(q, 1, n)) = n BY AtCut
<1>2. SubSeq(q, n + 1, Len(q)) \in Seq(Half) OBVIOUS
<1>3. f \o SubSeq(q, 1, n) = SubSeq(f \o q, 1, Len(f) + n) OBVIOUS
<1>4. SubSeq(q, 1, n) \o SubSeq(q, n + 1, Len(q)) = q
  <2>1. 1 \in 1..(Len(q) + 1) /\ n \in (1 - 1)..Len(q) /\ Len(q) \in n..Len(q) OBVIOUS
  <2>2. SubSeq(q, 1, n) \o SubSeq(q, n + 1, Len(q)) = SubSeq(q, 1, Len(q))
    BY Zenon, <2>1, ConcatAdjacentSubSeq
  <2> QED BY Zenon, <2>2, SubSeqFull
<1>5. (f \o SubSeq(q, 1, n)) \o SubSeq(q, n + 1, Len(q)) = f \o q
  <2>1. PICK a : a = SubSeq(q, 1, n) BY Zenon
  <2>2. PICK b : b = SubSeq(q, n + 1, Len(q)) BY Zenon
  <2>3. f \o (a \o b) = (f \o a) \o b BY ZenonT(60), <1>1, <1>2, <2>1, <2>2, JoinedTwice
  <2> QED BY Zenon, <1>4, <2>1, <2>2, <2>3
<1> QED BY Zenon, <1>1, <1>2, <1>3, <1>5

\* flushAppendOnlyFile's write: while the file is on, what leaves the buffer is
\* at the end of the file, and server.aof_current_size knows.
LEMMA BufferWritten ==
  ASSUME IInv, NEW w \in WriteOutcomes, buf # << >>, WriteBuffer(w)
  PROVE  /\ file' \in Seq(Half) /\ buf' \in Seq(Half) /\ size' \in Nat /\ stray' \in BOOLEAN
         /\ run' = run \/ run' = "down"
         /\ stray => stray'
         /\ ~stray' /\ state # "on" => file' = file
         /\ ~stray' /\ state = "on" /\ run = "up" =>
              /\ file' \o buf' = file \o buf /\ size' = Len(file')
              /\ Len(file') \in Len(file)..Len(file \o buf)
              /\ file' = SubSeq(file \o buf, 1, Len(file'))
         /\ w[1] = "ok" => buf' = << >>
         /\ w[1] = "ok" /\ fd = "live" => file' = file \o buf
<1>1. Types /\ file \in Seq(Half) /\ buf \in Seq(Half) /\ size \in Nat /\ stray \in BOOLEAN
  BY DEF IInv, Types
<1>2. Len(buf) \in Nat /\ Len(buf) > 0 /\ Head(buf) \in Half BY <1>1
<1>3. /\ file' = FileAfter(w) /\ buf' = SubSeq(buf, Written(w) + 1, Len(buf))
      /\ size' = size + Written(w) /\ stray' = (stray \/ (state # "on" /\ file' # file))
      /\ run' = IF w[1] # "ok" /\ conf.fsync = "always" THEN "down" ELSE run
  BY DEF WriteBuffer, BufAfter
<1>4. /\ w[1] = "ok" => Written(w) = Len(buf)
      /\ w[1] = "short" => Written(w) = w[2] /\ w[2] \in 1..(Len(buf) - 1)
      /\ w[1] = "error" \/ w[1] = "undone" => Written(w) = 0
  BY <1>1, OutcomeCases DEF Written
<1>5. Written(w) \in 0..Len(buf) BY <1>1, <1>2, <1>4, OutcomeCases
<1>6. buf' \in Seq(Half) /\ size' \in Nat
  <2>1. PICK n \in 0..Len(buf) : n = Written(w) BY <1>5
  <2>2. SubSeq(buf, n + 1, Len(buf)) \in Seq(Half) BY <1>1, <2>1, Moved
  <2>3. size + n \in Nat BY <1>1, <2>1
  <2> QED BY <1>3, <2>1, <2>2, <2>3
<1>7. Append(file, Head(buf)) \in Seq(Half) /\ Len(Append(file, Head(buf))) = Len(file) + 1
      /\ SubSeq(Append(file, Head(buf)), 1, Len(file)) = file
  BY <1>1, <1>2
<1>8. file' \in Seq(Half)
  <2>1. Resized(Append(file, Head(buf)), size) \in Seq(Half) BY Zenon, <1>1, <1>7, ResizedType
  <2>2. file \o buf \in Seq(Half) BY <1>1, Joined
  <2>3. CASE w[1] = "short" /\ fd = "live"
    <3>1. PICK n \in 0..Len(buf) : n = w[2] BY <1>2, <1>4, <2>3
    <3>2. SubSeq(buf, 1, n) \in Seq(Half) BY <1>1, <3>1, Moved
    <3>3. file \o SubSeq(buf, 1, n) \in Seq(Half) BY <1>1, <3>2, Joined
    <3>4. file' = file \o SubSeq(buf, 1, n) BY SMTT(30), <1>3, <2>3, <3>1 DEF FileAfter
    <3> QED BY <3>3, <3>4
  <2>4. CASE ~(w[1] = "short" /\ fd = "live")
    BY Zenon, <1>1, <1>3, <2>1, <2>2, <2>4, OutcomeCases DEF FileAfter
  <2> QED BY <2>3, <2>4
<1>9. stray' \in BOOLEAN /\ (stray => stray') /\ (~stray' /\ state # "on" => file' = file)
  <2>1. \/ stray' = TRUE /\ (stray \/ (state # "on" /\ file' # file))
        \/ stray' = FALSE /\ ~stray /\ ~(state # "on" /\ file' # file)
    BY Zenon, <1>1, <1>3
  <2> QED BY Zenon, <2>1
<1>10. run' = run \/ run' = "down" BY SMTT(30), <1>3
<1>11. w[1] = "ok" => buf' = << >>
  <2>1. Len(buf) + 1 \in Int /\ Len(buf) \in Int /\ Len(buf) < Len(buf) + 1 BY <1>2
  <2> QED BY <1>3, <1>4, <2>1, SubSeqEmpty
<1>12. w[1] = "ok" /\ fd = "live" => file' = file \o buf BY <1>3 DEF FileAfter
<1>13. ASSUME ~stray', state = "on", run = "up"
       PROVE  /\ file' \o buf' = file \o buf /\ size' = Len(file')
              /\ Len(file') \in Len(file)..Len(file \o buf)
              /\ file' = SubSeq(file \o buf, 1, Len(file'))
  <2>1. ~stray BY <1>9, <1>13
  <2>2. Current /\ Control BY <2>1 DEF IInv
  <2>3. size = Len(file) /\ fd = "live" BY <1>13, <2>2 DEF Current, Control
  <2>4. PICK n \in 0..Len(buf) : n = Written(w) BY <1>5
  <2>5. file' = file \o SubSeq(buf, 1, n)
    <3>1. CASE w[1] = "ok"
      <4>1. SubSeq(buf, 1, Len(buf)) = buf BY <1>1, SubSeqFull
      <4> QED BY SMTT(30), <1>4, <1>12, <2>3, <2>4, <3>1, <4>1
    <3>2. CASE w[1] = "short" BY Zenon, <1>3, <1>4, <2>3, <2>4, <3>2 DEF FileAfter
    <3>3. SubSeq(buf, 1, 0) = << >> BY SubSeqEmpty
    <3>4. file \o << >> = file BY <1>1
    <3>5. CASE w[1] = "error"
      <4>1. file' = file BY <1>3, <3>5 DEF FileAfter
      <4> QED BY Zenon, <1>4, <2>4, <3>3, <3>4, <3>5, <4>1
    <3>6. CASE w[1] = "undone"
      <4>1. file' = Resized(Append(file, Head(buf)), Len(file))
        BY <1>3, <2>3, <3>6 DEF FileAfter
      <4>2. Len(file) <= Len(file) + 1 BY <1>1
      <4>3. file' = file BY <1>7, <4>1, <4>2 DEF Resized
      <4> QED BY Zenon, <1>4, <2>4, <3>3, <3>4, <3>6, <4>3
    <3> QED BY SMTT(30), <1>1, <3>1, <3>2, <3>5, <3>6, OutcomeCases
  <2>6. buf' = SubSeq(buf, n + 1, Len(buf)) /\ size' = size + n BY <1>3, <2>4
  <2>7. SubSeq(buf, 1, n) \in Seq(Half) /\ Len(SubSeq(buf, 1, n)) = n BY <1>1, <2>4, Moved
  <2>8. Len(file') = Len(file) + n BY <1>1, <2>5, <2>7, Joined
  <2>9. Len(file \o buf) = Len(file) + Len(buf) BY <1>1, Joined
  <2>10. file' \o buf' = file \o buf BY ZenonT(60), <1>1, <2>4, <2>5, <2>6, Moved
  <2>11. file' = SubSeq(file \o buf, 1, Len(file')) BY <1>1, <2>4, <2>5, <2>8, Moved
  <2>12. Len(file') \in Len(file)..Len(file \o buf) BY SMTT(30), <1>1, <2>4, <2>8, <2>9
  <2> QED BY Zenon, <2>3, <2>6, <2>8, <2>10, <2>11, <2>12
<1> QED BY SMTT(30), <1>6, <1>8, <1>9, <1>10, <1>11, <1>12, <1>13

\* Nothing the invariant is about changes.
LEMMA NothingChanged ==
  ASSUME IInv, UNCHANGED <<conf, run, version, state, fd, file, synced, size, buf, seldb, child,
                           rewritebuf, scheduled, inside, stray>>
  PROVE  IInv'
<1>1. Middle' = Middle /\ NewFile' = NewFile BY DEF Middle, NewFile
<1>2. Types' BY DEF IInv, Types
<1>3. Control' BY <1>1 DEF IInv, Control
<1>4. New' BY SMTT(30), <1>1 DEF IInv, New
<1>5. ~stray => Current' /\ OnDisk' BY <1>1 DEF IInv, Current, OnDisk
<1> QED BY <1>2, <1>3, <1>4, <1>5 DEF IInv

\* Middle depends on what never changes, and on stray.
LEMMA MiddleShrinks ==
  ASSUME UNCHANGED <<conf, inside>>, stray \in BOOLEAN, stray' \in BOOLEAN, stray => stray'
  PROVE  Middle' \subseteq Middle /\ (~stray' => Middle' = Middle)
BY SMTT(30) DEF Middle

\* The file is a part of a content that was good from synced on.
LEMMA DiskPart ==
  ASSUME version \in Int, version >= 0, version' = version, Middle' = Middle,
         NEW c \in Seq(Half), synced \in 0..Len(c), Good(c, synced, Len(c), version, Middle),
         At(c, synced).data >= 0, Len(file') \in synced..Len(c),
         file' = SubSeq(c, 1, Len(file')), synced' \in synced..Len(file')
  PROVE  OnDisk' /\ At(c, synced).data <= At(file', synced').data
<1>1. PICK k \in 0..Len(c) : k = synced BY SMTT(30)
<1>2. PICK o \in k..Len(c) : o = Len(file') BY Zenon, <1>1
<1>3. PICK j \in k..o : j = synced' BY <1>1, <1>2
<1>4. /\ j \in 0..o /\ Good(SubSeq(c, 1, o), j, o, version, Middle)
      /\ SubSeq(c, 1, o) \in Seq(Half) /\ Len(SubSeq(c, 1, o)) = o
      /\ At(c, k).data <= At(SubSeq(c, 1, o), j).data
  BY <1>1, <1>2, <1>3, GoodPart
<1>5. file' = SubSeq(c, 1, o) BY <1>2
<1>6. At(c, k).data \in Int /\ At(file', j).data \in Int
  <2>1. At(c, k) \in Reader BY AtType
  <2>2. At(file', j) \in Reader BY Zenon, <1>4, <1>5, AtType
  <2> QED BY <2>1, <2>2 DEF Reader
<1>7. At(file', j).data >= 0 BY SMTT(30), <1>1, <1>4, <1>5, <1>6
<1> QED BY SMTT(30), <1>1, <1>2, <1>3, <1>4, <1>5, <1>7 DEF OnDisk

\* The same when the file does not change.
LEMMA DiskSynced ==
  ASSUME IInv, ~stray, version' = version, Middle' = Middle, file' = file,
         synced' = synced \/ synced' = Len(file)
  PROVE  OnDisk' /\ At(file, synced).data <= At(file', synced').data
<1>1. OnDisk /\ version \in Int /\ file \in Seq(Half) BY DEF IInv, Types
<1>2. Len(file) \in Nat /\ synced \in 0..Len(file) /\ synced' \in synced..Len(file)
      /\ Len(file) \in synced..Len(file)
  BY <1>1 DEF OnDisk
<1>3. file = SubSeq(file, 1, Len(file)) BY SMTT(30), <1>1, SubSeqFull
<1> QED BY <1>1, <1>2, <1>3, DiskPart DEF OnDisk

\* The file after a write, and the file and the buffer.
LEMMA WroteDisk ==
  ASSUME IInv, run = "up", NEW w \in WriteOutcomes, buf # << >>, WriteBuffer(w),
         UNCHANGED <<conf, version, inside>>, ~stray',
         synced' = Len(file') \/ (Len(file') >= synced /\ synced' = synced)
  PROVE  /\ OnDisk' /\ At(file, synced).data <= At(file', synced').data
         /\ state = "on" => LET c == file' \o buf'
                            IN /\ Good(c, synced', Len(c), version, Middle)
                               /\ Reproduces(c, Len(c), version, seldb)
                               /\ size' = Len(file')
<1>1. /\ file' \in Seq(Half) /\ stray' \in BOOLEAN /\ (stray => stray') BY BufferWritten
<1>2. ~stray /\ Middle' = Middle
  <2>1. stray \in BOOLEAN BY DEF IInv, Types
  <2> QED BY SMTT(30), <1>1, <2>1, MiddleShrinks
<1>3. Current /\ OnDisk BY <1>2 DEF IInv
<1>4. /\ version \in Int /\ file \in Seq(Half) /\ buf \in Seq(Half) /\ Len(file) \in Nat
      /\ Len(file') \in Nat
  BY <1>1 DEF IInv, Types
<1>5. CASE state # "on"
  <2>1. file' = file BY SMTT(30), <1>5, BufferWritten
  <2>2. OnDisk' /\ At(file, synced).data <= At(file', synced').data BY SMTT(30), <1>2, <2>1, DiskSynced
  <2> QED BY SMTT(30), <1>5, <2>2
<1>6. CASE state = "on"
  <2>1. /\ file' \o buf' = file \o buf /\ size' = Len(file')
        /\ Len(file') \in Len(file)..Len(file \o buf)
        /\ file' = SubSeq(file \o buf, 1, Len(file'))
    BY SMTT(30), <1>6, BufferWritten
  <2>2. PICK c : c = file \o buf BY Zenon
  <2>3. c \in Seq(Half) /\ Len(c) \in Nat BY <1>4, <2>2, Joined
  <2>4. Good(c, synced, Len(c), version, Middle) /\ Reproduces(c, Len(c), version, seldb)
    BY <1>3, <1>6, <2>2 DEF Current
  <2>5. /\ synced \in 0..Len(c) /\ Len(file') \in synced..Len(c)
        /\ synced' \in synced..Len(file')
    BY SMTT(30), <1>3, <1>4, <2>1, <2>2, <2>3 DEF OnDisk
  <2>6. At(c, synced) = At(file, synced) /\ At(c, synced).data >= 0
    <3>1. At(c, synced) = At(file, synced) BY SMTT(30), <1>3, <1>4, <2>2, AtPrefix DEF OnDisk
    <3> QED BY <1>3, <3>1 DEF OnDisk
  <2>7. version >= 0 BY <1>3 DEF OnDisk
  <2>8. file' = SubSeq(c, 1, Len(file')) BY SMTT(30), <2>1, <2>2
  <2>9. OnDisk' /\ At(c, synced).data <= At(file', synced').data
    BY SMTT(30), <1>2, <1>4, <2>3, <2>4, <2>5, <2>6, <2>7, <2>8, DiskPart
  <2>10. Good(c, synced', Len(c), version, Middle)
    <3>1. Len(c) \in 0..Len(c) /\ synced \in Nat /\ synced' \in synced..Len(c)
      BY <2>3, <2>5
    <3>2. version <= version /\ \A x \in Middle : x <= version => x \in Middle BY SMTT(30), <1>4
    <3> QED BY SMTT(30), <1>4, <2>3, <2>4, <3>1, <3>2, GoodWeaker
  <2> QED BY SMTT(30), <2>1, <2>2, <2>4, <2>6, <2>9, <2>10
<1> QED BY <1>5, <1>6

\* flushAppendOnlyFile
LEMMA FlushKeeps ==
  ASSUME IInv, run = "up", NEW w \in WriteOutcomes, NEW due, NEW late,
         flushAppendOnlyFile(w, due, late),
         UNCHANGED <<conf, version, state, fd, seldb, child, rewritebuf, scheduled, inside>>
  PROVE  IInv'
<1>1. CASE UNCHANGED <<run, file, synced, size, buf, stray>> BY SMTT(30), <1>1, NothingChanged
<1>2. CASE buf # << >> /\ WriteBuffer(w) /\ Fsync(w, due)
  <2>1. /\ file' \in Seq(Half) /\ buf' \in Seq(Half) /\ size' \in Nat /\ stray' \in BOOLEAN
        /\ run' \in {"up", "down"} /\ (stray => stray')
    BY <1>2, BufferWritten
  <2>2. Types /\ Control BY DEF IInv
  <2>3. Middle' \subseteq Middle /\ (~stray' => Middle' = Middle)
    BY SMTT(30), <2>1, <2>2, MiddleShrinks DEF Types
  <2>4. Types' BY <2>1, <2>2 DEF Types
  <2>5. Control'
    <3>1. version' \notin Middle' BY <2>2, <2>3 DEF Control
    <3>2. run' # "switching" BY <2>1
    <3> QED BY <2>2, <3>1, <3>2 DEF Control
  <2>6. New' BY SMTT(30), <2>1, <2>3, NewKept
  <2>7. ASSUME ~stray' PROVE Current' /\ OnDisk'
    <3>1. ~stray /\ Middle' = Middle BY <2>1, <2>3, <2>7
    <3>2. OnDisk /\ file \in Seq(Half) BY <2>2, <3>1 DEF IInv, Types
    <3>3. synced \in Nat /\ Len(file') \in Nat BY <2>1, <3>2 DEF OnDisk
    <3>4. synced' = Len(file') \/ (Len(file') >= synced /\ synced' = synced)
      BY SMTT(30), <1>2, <3>3 DEF Fsync
    <3>5. /\ OnDisk'
          /\ state = "on" => LET c == file' \o buf'
                             IN /\ Good(c, synced', Len(c), version, Middle)
                                /\ Reproduces(c, Len(c), version, seldb)
                                /\ size' = Len(file')
      BY SMTT(30), <1>2, <2>7, <3>4, WroteDisk
    <3> QED BY <3>1, <3>5 DEF Current
  <2> QED BY SMTT(30), <2>4, <2>5, <2>6, <2>7 DEF IInv
<1> QED BY SMTT(30), <1>1, <1>2 DEF flushAppendOnlyFile

\* Flags that only the rewrites to come depend on.
LEMMA FlagsKeep ==
  ASSUME IInv, run = "up", scheduled => scheduled', fd' \in {"none", "live", "stale"},
         state # "off" => fd' = "live",
         UNCHANGED <<conf, run, version, state, file, synced, size, buf, seldb, child,
                     rewritebuf, inside, stray>>
  PROVE  IInv'
<1>1. Middle' = Middle /\ NewFile' = NewFile BY DEF Middle, NewFile
<1>2. Types' BY DEF IInv, Types
<1>3. Control' BY SMTT(30), <1>1 DEF IInv, Control
<1>4. New' BY SMTT(30), <1>1 DEF IInv, New
<1>5. ~stray => Current' /\ OnDisk' BY <1>1 DEF IInv, Current, OnDisk
<1> QED BY SMTT(30), <1>2, <1>3, <1>4, <1>5 DEF IInv

\* A finished fsync, SHUTDOWN and a crash of the process.
LEMMA SyncKeeps ==
  ASSUME IInv, run # "down", run' = run \/ run' = "down",
         synced' = synced \/ synced' = Len(file),
         UNCHANGED <<conf, version, state, fd, file, size, buf, seldb, child, rewritebuf,
                     scheduled, inside, stray>>
  PROVE  IInv'
<1>1. Middle' = Middle /\ NewFile' = NewFile BY DEF Middle, NewFile
<1>2. Types' BY DEF IInv, Types
<1>3. Control' BY SMTT(30), <1>1 DEF IInv, Control
<1>4. New' BY <1>1 DEF IInv, New
<1>5. ASSUME ~stray PROVE Current' /\ OnDisk'
  <2>1. OnDisk' BY <1>1, <1>5, DiskSynced
  <2>2. Current /\ OnDisk BY SMTT(30), <1>5 DEF IInv
  <2>3. Current'
    <3> SUFFICES ASSUME state = "on", run' = "up" PROVE Current' BY DEF Current
    <3>1. run = "up" OBVIOUS
    <3>2. file \in Seq(Half) /\ buf \in Seq(Half) /\ version \in Int BY DEF IInv, Types
    <3>3. PICK c : c = file \o buf BY ZenonT(60)
    <3>4. c \in Seq(Half) /\ Len(c) = Len(file) + Len(buf) BY SMTT(30), <3>2, <3>3, Joined
    <3>5. /\ Good(c, synced, Len(c), version, Middle)
          /\ Reproduces(c, Len(c), version, seldb) /\ size = Len(file)
      BY SMTT(30), <2>2, <3>1, <3>3 DEF Current
    <3>6. Len(c) \in 0..Len(c) /\ synced \in Nat /\ synced' \in synced..Len(c)
      BY SMTT(30), <2>2, <3>2, <3>4 DEF OnDisk
    <3>7. version <= version /\ \A x \in Middle : x <= version => x \in Middle BY SMTT(30), <3>2
    <3>8. Good(c, synced', Len(c), version, Middle) BY SMTT(30), <3>2, <3>4, <3>5, <3>6, <3>7, GoodWeaker
    <3> QED BY SMTT(30), <1>1, <3>3, <3>5, <3>8 DEF Current
  <2> QED BY <2>1, <2>3
<1> QED BY <1>2, <1>3, <1>4, <1>5 DEF IInv

\* rewriteAppendOnlyFileBackground
LEMMA ForkKeeps ==
  ASSUME IInv, run = "up", child = NoChild, NEW d \in Dbs, Fork(d),
         \/ state' = state /\ fd' = fd
         \/ state = "off" /\ state' = "wait" /\ fd' = "live",
         UNCHANGED <<conf, run, version, file, synced, size, buf, rewritebuf, inside, stray>>
  PROVE  IInv'
<1>1. Middle' = Middle BY DEF Middle
<1>2. Types /\ Control /\ version \in Int BY DEF IInv, Types
<1>3. child' = Snap(version, d) /\ seldb' = -1 BY DEF Fork
<1>4. child' \in [type : {"snap"}, arg : Int, db : Dbs] BY <1>2, <1>3 DEF Snap
<1>5. child' # NoChild BY SMTT(30), <1>4, NoChildAssumption
<1>6. rewritebuf = << >> BY SMTT(30), <1>2 DEF Control
<1>7. Types' BY SMTT(30), <1>2, <1>3, <1>4 DEF Types
<1>8. Control' BY SMTT(30), <1>1, <1>2, <1>5, <1>6 DEF Control
<1>9. New'
  <2>1. version \notin Middle BY <1>2 DEF Control
  <2>2. d \in Int BY DbAssumption
  <2>3. PICK e : e = Halves(<<Snap(version, d)>>) BY SMTT(30)
  <2>4. /\ e \in Seq(Half) /\ Len(e) = 2 /\ Good(e, 2, 2, version, Middle)
        /\ Reproduces(e, 2, version, -1)
    BY SMTT(30), <1>2, <2>1, <2>2, <2>3, SnapReproduces
  <2>5. e \o << >> = e BY <2>4
  <2>6. NewFile' = e BY SMTT(30), <1>3, <1>6, <2>3, <2>5 DEF NewFile
  <2>7. ~stray => At(e, 2).data >= 0 BY <2>4 DEF Reproduces, IInv, OnDisk
  <2> QED BY Zenon, <1>1, <1>3, <2>4, <2>6, <2>7 DEF New
<1>10. ASSUME ~stray PROVE Current' /\ OnDisk'
  <2>1. Current /\ OnDisk BY <1>10 DEF IInv
  <2>2. OnDisk' BY SMTT(30), <1>1, <2>1 DEF OnDisk
  <2>3. Current' BY SMTT(30), <1>1, <1>3, <2>1 DEF Current, Reproduces
  <2> QED BY <2>2, <2>3
<1> QED BY SMTT(30), <1>7, <1>8, <1>9, <1>10 DEF IInv

\* backgroundRewriteDoneHandler when the rewrite failed, and up to rename(2).
LEMMA RewriteFailsKeeps ==
  ASSUME IInv, RewriteFails
  PROVE  IInv'
<1>1. /\ run = "up" /\ child' = NoChild /\ rewritebuf' = << >>
      /\ scheduled' = (scheduled \/ state = "wait")
      /\ UNCHANGED <<conf, run, version, file, synced, state, fd, size, buf, seldb, inside, stray>>
  BY DEF RewriteFails, Cleanup, disk, history
<1>2. Middle' = Middle BY SMTT(30), <1>1 DEF Middle
<1>3. Types' BY <1>1 DEF IInv, Types
<1>4. Control' BY ZenonT(60), <1>1, <1>2 DEF IInv, Control
<1>5. New' BY SMTT(30), <1>1 DEF New
<1>6. ~stray => Current' /\ OnDisk' BY <1>1, <1>2 DEF IInv, Current, OnDisk
<1> QED BY SMTT(30), <1>1, <1>3, <1>4, <1>5, <1>6 DEF IInv

LEMMA RewriteRenameKeeps ==
  ASSUME IInv, RewriteRename
  PROVE  IInv'
<1>1. /\ run = "up" /\ child # NoChild /\ file' = NewFile /\ synced' = 2 /\ run' = "switching"
      /\ UNCHANGED <<conf, version, state, fd, size, buf, seldb, child, rewritebuf, scheduled,
                     inside, stray>>
  BY DEF RewriteRename, server, history, NewFile
<1>2. Middle' = Middle /\ NewFile' = NewFile BY <1>1 DEF Middle, NewFile
<1>3. Types /\ Control BY DEF IInv
<1>4. NewFile \in Seq(Half) /\ Len(NewFile) \in Nat /\ 2 <= Len(NewFile)
  <2>1. child \in [type : {"snap"}, arg : Int, db : Dbs] /\ rewritebuf \in Seq(Half)
    BY SMTT(30), <1>1, <1>3 DEF Types
  <2> QED BY <2>1, NewFileType DEF NewFile
<1>5. Types' BY SMTT(30), <1>1, <1>3, <1>4 DEF Types
<1>6. Control' BY SMTT(30), <1>1, <1>2, <1>3 DEF Control
<1>7. New' BY <1>1, <1>2, NewKept
<1>8. ASSUME ~stray PROVE Current' /\ OnDisk'
  <2>1. Good(NewFile, 2, Len(NewFile), version, Middle) /\ At(NewFile, 2).data >= 0
    BY <1>1, <1>8 DEF IInv, New
  <2>2. version >= 0 BY <1>8 DEF IInv, OnDisk
  <2>3. OnDisk' BY SMTT(30), <1>1, <1>2, <1>4, <2>1, <2>2 DEF OnDisk
  <2> QED BY SMTT(30), <1>1, <2>3 DEF Current
<1> QED BY SMTT(30), <1>1, <1>5, <1>6, <1>7, <1>8 DEF IInv

\* The rest of the handler: the new file becomes the current one.
LEMMA RewriteSwitchKeeps ==
  ASSUME IInv, RewriteSwitch
  PROVE  IInv'
<1>1. /\ run = "switching" /\ run' = "up" /\ child' = NoChild /\ rewritebuf' = << >>
      /\ state' = IF state = "wait" THEN "on" ELSE state
      /\ UNCHANGED <<conf, version, file, inside, stray>>
  BY DEF RewriteSwitch, Cleanup
<1>2. Middle' = Middle BY <1>1 DEF Middle
<1>3. Types /\ Control /\ New BY DEF IInv
<1>4. \/ /\ fd = "none" /\ state = "off" /\ UNCHANGED <<fd, synced, seldb, size, buf>>
      \/ /\ fd' = "live" /\ seldb' = -1 /\ size' = Len(file) /\ buf' = << >>
         /\ synced' = synced \/ synced' = Len(file)
  BY <1>3 DEF RewriteSwitch, ReplaceDescriptor, aofUpdateCurrentSize, Control
<1>5. Len(file) \in Nat BY <1>3 DEF Types
<1>6. Types'
  <2>1. /\ fd' \in {"none", "live", "stale"} /\ seldb' \in Int /\ size' \in Nat
        /\ buf' \in Seq(Half)
    <3>1. << >> \in Seq(Half) /\ -1 \in Int OBVIOUS
    <3>2. CASE UNCHANGED <<fd, synced, seldb, size, buf>> BY <1>3, <3>2 DEF Types
    <3>3. CASE fd' = "live" /\ seldb' = -1 /\ size' = Len(file) /\ buf' = << >>
      BY SMTT(30), <1>5, <3>1, <3>3
    <3> QED BY <1>4, <3>2, <3>3
  <2>2. state' \in {"on", "off", "wait"} /\ run' \in {"up", "switching", "down"}
    BY <1>1, <1>3 DEF Types
  <2>3. version' \in Int /\ stray' \in BOOLEAN /\ file' \in Seq(Half) BY SMTT(30), <1>1, <1>3 DEF Types
  <2> QED BY SMTT(30), <1>1, <2>1, <2>2, <2>3 DEF Types
<1>7. Control' BY SMTT(30), <1>1, <1>2, <1>3, <1>4 DEF Control, Types
<1>8. New' BY <1>1 DEF New
<1>9. ASSUME ~stray PROVE Current' /\ OnDisk'
  <2>1. synced' = synced \/ synced' = Len(file) BY <1>4
  <2>2. OnDisk' BY SMTT(30), <1>1, <1>2, <1>9, <2>1, DiskSynced
  <2>3. Current'
    <3> SUFFICES ASSUME state' = "on" PROVE Current' BY DEF Current
    <3>1. state # "off" /\ child # NoChild /\ file = NewFile BY <1>1, <1>3 DEF Control
    <3>2. Reproduces(file, Len(file), version, seldb) BY <1>1, <1>3, <3>1 DEF New
    <3>3. seldb' = -1 /\ size' = Len(file) /\ buf' = << >> BY <1>4, <3>1
    <3>4. file \o << >> = file BY <1>3 DEF Types
    <3>5. file' \o buf' = file BY <1>1, <3>3, <3>4
    <3>6. Good(file, synced', Len(file), version', Middle') BY <1>1, <2>2 DEF OnDisk
    <3> QED BY SMTT(30), <1>1, <3>2, <3>3, <3>5, <3>6 DEF Current, Reproduces
  <2> QED BY <2>2, <2>3
<1> QED BY SMTT(30), <1>1, <1>6, <1>7, <1>8, <1>9 DEF IInv

\* stopAppendOnly
LEMMA StopKeeps ==
  ASSUME IInv, NEW w \in WriteOutcomes, stopAppendOnly(w)
  PROVE  IInv'
<1>1. run = "up" /\ state # "off" /\ UNCHANGED <<conf, version, inside, scheduled>>
  BY SMTT(30) DEF stopAppendOnly
<1>2. \/ buf = << >> /\ UNCHANGED <<run, file, size, buf, stray>>
      \/ buf # << >> /\ WriteBuffer(w)
  BY DEF stopAppendOnly
<1>3. Types /\ Control BY DEF IInv
<1>4. /\ file' \in Seq(Half) /\ buf' \in Seq(Half) /\ size' \in Nat /\ stray' \in BOOLEAN
      /\ run' \in {"up", "down"} /\ (stray => stray')
  <2>1. CASE buf = << >> BY SMTT(30), <1>1, <1>2, <1>3, <2>1 DEF Types
  <2>2. CASE buf # << >> BY SMTT(30), <1>1, <1>2, <2>2, BufferWritten
  <2> QED BY <2>1, <2>2
<1>5. Middle' \subseteq Middle /\ (~stray' => Middle' = Middle)
  BY SMTT(30), <1>1, <1>3, <1>4, MiddleShrinks DEF Types
<1>6. \/ run' = "down" /\ UNCHANGED <<state, fd, synced, seldb, child, rewritebuf>>
      \/ /\ run' = "up" /\ state' = "off" /\ fd' = "none" /\ synced' = Len(file') /\ seldb' = -1
         /\ child' = NoChild /\ rewritebuf' = << >>
  BY <1>4 DEF stopAppendOnly
<1>7. Types'
  <2>1. /\ fd' \in {"none", "live", "stale"} /\ seldb' \in Int
        /\ state' \in {"on", "off", "wait"} /\ rewritebuf' \in Seq(Half)
    <3>1. << >> \in Seq(Half) /\ -1 \in Int OBVIOUS
    <3>2. CASE UNCHANGED <<state, fd, synced, seldb, child, rewritebuf>>
      BY <1>3, <3>2 DEF Types
    <3>3. CASE state' = "off" /\ fd' = "none" /\ seldb' = -1 /\ rewritebuf' = << >>
      BY <3>1, <3>3
    <3> QED BY <1>6, <3>2, <3>3
  <2>2. child' \in [type : {"snap"}, arg : Int, db : Dbs] \cup {NoChild} BY <1>3, <1>6 DEF Types
  <2>3. version' \in Int /\ run' \in {"up", "switching", "down"} BY <1>1, <1>3, <1>4 DEF Types
  <2> QED BY SMTT(30), <1>4, <2>1, <2>2, <2>3 DEF Types
<1>8. Control'
  <2>1. version' \notin Middle' BY SMTT(30), <1>1, <1>3, <1>5 DEF Control
  <2> QED BY <1>3, <1>6, <2>1 DEF Control
<1>9. New' BY <1>6 DEF New
<1>10. ASSUME ~stray' PROVE Current' /\ OnDisk'
  <2>1. Current' BY <1>6 DEF Current
  <2>2. ~stray /\ Middle' = Middle /\ OnDisk /\ Current BY SMTT(30), <1>4, <1>5, <1>10 DEF IInv
  <2>3. CASE buf = << >>
    <3>1. file' = file BY <1>2, <2>3
    <3>2. synced' = synced \/ synced' = Len(file) BY <1>6, <3>1
    <3> QED BY SMTT(30), <1>1, <2>1, <2>2, <3>1, <3>2, DiskSynced
  <2>4. CASE buf # << >>
    <3>1. Len(file') >= synced
      <4>1. synced \in Nat /\ synced <= Len(file) /\ Len(file) \in Nat /\ Len(file') \in Nat
        BY SMTT(30), <1>3, <1>4, <2>2 DEF OnDisk, Types
      <4>2. state # "on" => file' = file BY SMTT(30), <1>2, <1>10, <2>4, BufferWritten
      <4>3. state = "on" => Len(file') \in Len(file)..Len(file \o buf)
        BY <1>1, <1>2, <1>10, <2>4, BufferWritten
      <4> QED BY SMTT(30), <4>1, <4>2, <4>3
    <3>2. synced' = Len(file') \/ (Len(file') >= synced /\ synced' = synced) BY SMTT(30), <1>6, <3>1
    <3>3. OnDisk' BY SMTT(30), <1>1, <1>2, <1>10, <2>4, <3>2, WroteDisk
    <3> QED BY <2>1, <3>3
  <2> QED BY <2>3, <2>4
<1> QED BY SMTT(30), <1>7, <1>8, <1>9, <1>10 DEF IInv

\* The machine stops.
LEMMA PowerFailureKeeps ==
  ASSUME IInv, NEW n \in 0..Len(file), PowerFailure(n)
  PROVE  IInv'
<1>1. /\ n \in synced..Len(file) /\ run' = "down" /\ file' = SubSeq(file, 1, n) /\ synced' = n
      /\ UNCHANGED <<conf, version, state, fd, size, buf, seldb, child, rewritebuf, scheduled,
                     inside, stray>>
  BY DEF PowerFailure, server, history
<1>2. Middle' = Middle BY <1>1 DEF Middle
<1>3. Types /\ Control BY DEF IInv
<1>4. file \in Seq(Half) BY <1>3 DEF Types
<1>5. file' \in Seq(Half) /\ Len(file') = n BY SMTT(30), <1>1, <1>4, AtCut
<1>6. Types' BY SMTT(30), <1>1, <1>3, <1>5 DEF Types
<1>7. Control' BY SMTT(30), <1>1, <1>3 DEF Control
<1>8. New' BY SMTT(30), <1>1 DEF New
<1>9. ASSUME ~stray PROVE Current' /\ OnDisk'
  <2>1. OnDisk /\ version \in Int BY SMTT(30), <1>3, <1>9 DEF IInv, Types
  <2>2. synced \in 0..Len(file) /\ Len(file') \in synced..Len(file)
        /\ synced' \in synced..Len(file')
    BY SMTT(30), <1>1, <1>4, <1>5, <2>1 DEF OnDisk
  <2>3. file' = SubSeq(file, 1, Len(file')) BY SMTT(30), <1>1, <1>5
  <2>4. OnDisk' BY SMTT(30), <1>1, <1>2, <1>4, <2>1, <2>2, <2>3, DiskPart DEF OnDisk
  <2> QED BY SMTT(30), <1>1, <2>4 DEF Current
<1> QED BY SMTT(30), <1>1, <1>6, <1>7, <1>8, <1>9 DEF IInv

\* What loadAppendOnlyFile finds and leaves.
LEMMA LoadResult ==
  ASSUME IInv, loadAppendOnlyFile
  PROVE  /\ Loaded(file) = At(file, Len(file)) /\ version' = At(file, Len(file)).data
         /\ version' \in Int /\ ~At(file, Len(file)).bad
         /\ version' \notin Middle
         /\ file' \in Seq(Half) /\ Len(file') \in 0..Len(file)
         /\ file' = SubSeq(file, 1, Len(file')) /\ size' = Len(file')
         /\ synced' = (IF Len(file') < synced THEN Len(file') ELSE synced)
         /\ Between(At(file, Len(file'))) /\ At(file, Len(file')).data = version'
<1>1. PICK s : s = At(file, Len(file)) OBVIOUS
<1>2. file \in Seq(Half) /\ Len(file) \in Nat BY DEF IInv, Types
<1>3. Loaded(file) = s /\ s \in Reader BY SMTT(30), <1>1, <1>2, AtStep, AtType
<1>4. /\ Loads(s) /\ version' = s.data /\ file' = SubSeq(file, 1, s.valid) /\ size' = s.valid
      /\ synced' = (IF s.valid < synced THEN s.valid ELSE synced)
  BY <1>3 DEF loadAppendOnlyFile
<1>5. ~s.bad /\ ((s.half = 0 /\ ~s.multi) \/ conf.truncated) BY SMTT(30), <1>4 DEF Loads
<1>6. /\ s.valid \in 0..Len(file) /\ Between(At(file, s.valid))
      /\ At(file, s.valid).data = s.data
  BY SMTT(30), <1>1, <1>2, <1>5, ValidEnd
<1>7. file' \in Seq(Half) /\ Len(file') = s.valid
  <2>1. PICK n \in 0..Len(file) : n = s.valid BY <1>6
  <2>2. SubSeq(file, 1, n) \in Seq(Half) /\ Len(SubSeq(file, 1, n)) = n
    BY <1>2, SubSeqProperties
  <2> QED BY <1>4, <2>1, <2>2
<1>8. version' \notin Middle
  <2> SUFFICES ASSUME ~conf.truncated, ~stray, s.data \in Middle PROVE FALSE
    BY Zenon, <1>4 DEF Middle
  <2>1. OnDisk BY DEF IInv
  <2>2. Len(file) \in synced..Len(file) BY SMTT(30), <1>2, <2>1 DEF OnDisk
  <2>3. s.multi BY <1>1, <2>1, <2>2 DEF OnDisk, Good
  <2> QED BY <1>5, <2>3
<1>9. s.data \in Int BY SMTT(30), <1>3 DEF Reader
<1> QED BY SMTT(30), <1>1, <1>3, <1>4, <1>5, <1>6, <1>7, <1>8, <1>9

\* loadAppendOnlyFile keeps the invariant, and nothing that was on the disk is lost.
LEMMA LoadKeeps ==
  ASSUME IInv, loadAppendOnlyFile
  PROVE  /\ IInv'
         /\ ~stray => /\ At(file, synced).data <= version'
                      /\ \/ At(file', synced').data = version'
                         \/ At(file', synced').data = At(file, synced).data
<1>1. /\ run' = "up" /\ state' = "on" /\ fd' = "live" /\ buf' = << >> /\ seldb' = -1
      /\ child' = NoChild /\ rewritebuf' = << >> /\ UNCHANGED <<conf, inside, stray>>
  BY DEF loadAppendOnlyFile
<1>2. Middle' = Middle BY <1>1 DEF Middle
<1>3. Types /\ file \in Seq(Half) /\ Len(file) \in Nat BY DEF IInv, Types
<1>4. /\ version' = At(file, Len(file)).data /\ version' \in Int /\ version' \notin Middle
      /\ file' \in Seq(Half) /\ Len(file') \in 0..Len(file)
      /\ file' = SubSeq(file, 1, Len(file')) /\ size' = Len(file')
      /\ synced' = (IF Len(file') < synced THEN Len(file') ELSE synced)
      /\ Between(At(file, Len(file'))) /\ At(file, Len(file')).data = version'
  BY SMTT(30), LoadResult
<1>5. PICK o \in 0..Len(file) : o = Len(file') BY Zenon, <1>4
<1>6. Types'
  <2>1. stray' \in BOOLEAN /\ size' \in Nat BY SMTT(30), <1>1, <1>3, <1>4 DEF Types
  <2> QED BY SMTT(30), <1>1, <1>4, <2>1 DEF Types
<1>7. Control' BY SMTT(30), <1>1, <1>2, <1>4 DEF Control
<1>8. New' BY SMTT(30), <1>1 DEF New
<1>9. \A n \in 0..o : At(file', n) = At(file, n) BY ZenonT(60), <1>3, <1>4, <1>5, AtCut
<1>10. \A n \in 0..Len(file) : At(file, n).data \in Int BY <1>3, AtType DEF Reader
<1>11. ASSUME ~stray
       PROVE  /\ Current' /\ OnDisk' /\ At(file, synced).data <= version'
              /\ \/ At(file', synced').data = version'
                 \/ At(file', synced').data = At(file, synced).data
  <2>1. /\ version \in Int /\ synced \in 0..Len(file)
        /\ Good(file, synced, Len(file), version, Middle) /\ At(file, synced).data >= 0
    BY SMTT(30), <1>3, <1>11 DEF IInv, OnDisk, Types
  <2>2. At(file, synced).data <= version'
    <3>1. synced \in synced..Len(file) /\ Len(file) \in synced..Len(file) /\ synced <= Len(file)
      BY SMTT(30), <1>3, <2>1
    <3> QED BY <1>4, <2>1, <3>1 DEF Good
  <2>3. version' >= 0 BY SMTT(30), <1>4, <1>10, <2>1, <2>2
  <2>4. Good(file', synced', o, version', Middle) /\ synced' \in 0..o
        /\ At(file', synced').data >= 0
        /\ \/ At(file', synced').data = version'
           \/ At(file', synced').data = At(file, synced).data
    <3>1. CASE o < synced
      <4>1. synced' = o /\ synced' \in 0..o BY SMTT(30), <1>4, <1>5, <3>1
      <4>2. Between(At(file', o)) /\ At(file', o).data = version' BY SMTT(30), <1>4, <1>5, <1>9
      <4>3. Good(file', o, o, version', Middle)
        <5>1. \A n \in o..o : n = o BY <1>5
        <5>2. version' <= version' BY <1>4
        <5> QED BY <1>4, <4>2, <5>1, <5>2 DEF Good, Between
      <4> QED BY SMTT(30), <2>3, <4>1, <4>2, <4>3
    <3>2. CASE synced <= o
      <4>1. synced' = synced /\ synced' \in 0..o /\ o \in synced..Len(file)
            /\ synced \in synced..o
        <5>1. synced \in Nat /\ o \in Nat /\ o <= Len(file) BY <1>5, <2>1
        <5>2. synced' = synced
          <6>1. ~(o < synced) BY SMTT(30), <3>2, <5>1
          <6> QED BY <1>4, <1>5, <6>1
        <5> QED BY SMTT(30), <1>3, <3>2, <5>1, <5>2
      <4>2. Good(file', synced, o, version, Middle)
        <5>1. Good(SubSeq(file, 1, o), synced, o, version, Middle) BY <1>3, <2>1, <4>1, GoodPart
        <5> QED BY ZenonT(60), <1>4, <1>5, <5>1
      <4>3. \A n \in synced..o : At(file', n).data <= version'
        <5>1. \A n \in synced..o : n \in 0..o /\ o \in synced..o /\ n <= o BY SMTT(30), <2>1, <4>1
        <5>2. At(file', o).data = version' BY SMTT(30), <1>4, <1>5, <1>9
        <5> QED BY <4>2, <5>1, <5>2 DEF Good
      <4>4. Good(file', synced, o, version', Middle) BY <4>2, <4>3 DEF Good
      <4>5. At(file', synced) = At(file, synced) BY SMTT(30), <1>9, <4>1
      <4> QED BY <2>1, <4>1, <4>4, <4>5
    <3> QED BY SMTT(30), <1>5, <2>1, <3>1, <3>2
  <2>5. OnDisk' BY SMTT(30), <1>2, <1>4, <1>5, <2>3, <2>4 DEF OnDisk
  <2>6. Reproduces(file', o, version', -1) BY <1>4, <1>5, <1>9 DEF Reproduces
  <2>7. file' \o << >> = file' BY SMTT(30), <1>4
  <2>8. Current' BY SMTT(30), <1>1, <1>2, <1>4, <1>5, <2>4, <2>6, <2>7 DEF Current
  <2> QED BY <2>2, <2>4, <2>5, <2>8
<1> QED BY SMTT(30), <1>1, <1>6, <1>7, <1>8, <1>11 DEF IInv

----------------------------------------------------------------------------
(* The theorems.                                                           *)

\* The server starts with an empty file.
LEMMA InitKeeps ==
  ASSUME Init
  PROVE  IInv
<1>1. Types
  <2>1. << >> \in Seq(Half) /\ -1 \in Int /\ 0 \in Nat /\ 0 \in Int OBVIOUS
  <2>2. state \in {"on", "off", "wait"} /\ fd \in {"none", "live", "stale"} BY DEF Init
  <2> QED BY Zenon, <2>1, <2>2 DEF Init, Types
<1>2. Middle = {} /\ Control /\ New BY DEF Init, Middle, Control, New
<1>3. At(<< >>, 0) = Start /\ Len(<< >>) = 0 /\ << >> \o << >> = << >>
  <2>1. PICK c : c = << >> OBVIOUS
  <2>2. c \in Seq(Half) /\ c \o c = c /\ Len(c) = 0 BY <2>1
  <2>3. At(c, 0) = Start BY ZenonT(60), <2>2, AtStep
  <2> QED BY <2>1, <2>2, <2>3
<1>4. Good(<< >>, 0, 0, 0, {})
  <2>1. \A n \in 0..0 : n = 0 OBVIOUS
  <2> QED BY <1>3, <2>1 DEF Good, Start
<1>5. OnDisk BY <1>2, <1>3, <1>4 DEF Init, OnDisk, Start
<1>6. Reproduces(<< >>, 0, 0, -1) BY <1>3 DEF Reproduces, Between, Start
<1>7. Current BY SMTT(30), <1>2, <1>3, <1>4, <1>6 DEF Init, Current
<1> QED BY SMTT(30), <1>1, <1>2, <1>5, <1>7 DEF IInv

\* The actions of Next, one by one.
LEMMA NextKeeps ==
  ASSUME IInv, Next
  PROVE  IInv'
<1>1. CASE \E d \in Dbs : Write(d) \/ Transaction(d) BY SMTT(30), <1>1, WriteKeeps, TransactionKeeps
<1>2. CASE \E w \in WriteOutcomes, due, late \in BOOLEAN : beforeSleep(w, due, late)
  <2>1. PICK w \in WriteOutcomes, due \in BOOLEAN, late \in BOOLEAN : beforeSleep(w, due, late)
    BY <1>2
  <2>2. /\ run = "up" /\ flushAppendOnlyFile(w, due, late)
        /\ UNCHANGED <<conf, version, state, fd, seldb, child, rewritebuf, scheduled, inside>>
    BY <2>1 DEF beforeSleep
  <2> QED BY <2>2, FlushKeeps
<1>3. CASE \E w \in WriteOutcomes, due, late \in BOOLEAN : serverCronFlush(w, due, late)
  <2>1. PICK w \in WriteOutcomes, due \in BOOLEAN, late \in BOOLEAN : serverCronFlush(w, due, late)
    BY <1>3
  <2>2. /\ run = "up" /\ flushAppendOnlyFile(w, due, late)
        /\ UNCHANGED <<conf, version, state, fd, seldb, child, rewritebuf, scheduled, inside>>
    BY <2>1 DEF serverCronFlush
  <2> QED BY <2>2, FlushKeeps
<1>4. CASE bioProcessBackgroundJobs
  BY SMTT(30), <1>4, SyncKeeps DEF bioProcessBackgroundJobs, server, history
<1>5. CASE \E d \in Dbs : bgrewriteaofCommand(d) \/ ScheduledRewrite(d)
  <2>1. PICK d \in Dbs : bgrewriteaofCommand(d) \/ ScheduledRewrite(d) BY SMTT(30), <1>5
  <2>2. /\ run = "up" /\ child = NoChild /\ Fork(d) /\ state' = state /\ fd' = fd
        /\ UNCHANGED <<conf, run, version, file, synced, size, buf, rewritebuf, inside, stray>>
    BY <2>1 DEF bgrewriteaofCommand, ScheduledRewrite, disk, history
  <2> QED BY <2>2, ForkKeeps
<1>6. CASE ScheduleRewrite
  <2>1. /\ run = "up" /\ scheduled' = TRUE
        /\ UNCHANGED <<conf, run, version, state, fd, file, synced, size, buf, seldb, child,
                       rewritebuf, inside, stray>>
    BY <1>6 DEF ScheduleRewrite, disk, history
  <2>2. fd' \in {"none", "live", "stale"} /\ (state # "off" => fd' = "live")
    BY <2>1 DEF IInv, Types, Control
  <2> QED BY SMTT(30), <2>1, <2>2, FlagsKeep
<1>7. CASE RewriteFails BY <1>7, RewriteFailsKeeps
<1>8. CASE RewriteRename BY <1>8, RewriteRenameKeeps
<1>9. CASE RewriteSwitch BY <1>9, RewriteSwitchKeeps
<1>10. CASE \E w \in WriteOutcomes : stopAppendOnly(w) BY <1>10, StopKeeps
<1>11. CASE \E opens, forks \in BOOLEAN, d \in Dbs : startAppendOnly(opens, forks, d)
  <2>1. PICK opens \in BOOLEAN, forks \in BOOLEAN, d \in Dbs : startAppendOnly(opens, forks, d)
    BY <1>11
  <2>2. /\ run = "up" /\ state = "off"
        /\ UNCHANGED <<conf, run, version, file, synced, size, buf, rewritebuf, inside, stray>>
    BY <2>1 DEF startAppendOnly, disk, history
  <2>3. CASE opens /\ forks /\ child = NoChild
    <3>1. Fork(d) /\ state' = "wait" BY <2>1, <2>3 DEF startAppendOnly
    <3>2. fd' = "live" BY SMTT(30), <2>1, <2>3 DEF startAppendOnly
    <3> QED BY <2>2, <2>3, <3>1, <3>2, ForkKeeps
  <2>4. CASE ~(opens /\ forks /\ child = NoChild)
    <3>1. UNCHANGED <<child, seldb, scheduled, state>> BY <2>1, <2>4 DEF startAppendOnly
    <3>2. fd' \in {"none", "live", "stale"} BY SMTT(30), <2>1 DEF startAppendOnly
    <3> QED BY <2>2, <3>1, <3>2, FlagsKeep
  <2> QED BY <2>3, <2>4
<1>12. CASE \E saved \in BOOLEAN : prepareForShutdown(saved)
  <2>1. PICK saved \in BOOLEAN : prepareForShutdown(saved) BY SMTT(30), <1>12
  <2>2. /\ run = "up" /\ synced' = Len(file) /\ (run' = run \/ run' = "down")
        /\ UNCHANGED <<conf, version, state, fd, file, size, buf, seldb, child, rewritebuf,
                       scheduled, inside, stray>>
    BY <2>1 DEF prepareForShutdown, server
  <2> QED BY <2>2, SyncKeeps
<1>13. CASE Crash
  <2>1. /\ run' = "down"
        /\ UNCHANGED <<conf, version, state, fd, file, synced, size, buf, seldb, child, rewritebuf,
                       scheduled, inside, stray>>
    BY <1>13 DEF Crash, disk, server, history
  <2>2. CASE run = "down" BY SMTT(30), <2>1, <2>2, NothingChanged
  <2>3. CASE run # "down" BY <2>1, <2>3, SyncKeeps
  <2> QED BY SMTT(30), <2>2, <2>3
<1>14. CASE \E n \in 0..Len(file) : PowerFailure(n) BY <1>14, PowerFailureKeeps
<1>15. CASE loadAppendOnlyFile BY <1>15, LoadKeeps
<1> QED BY SMTT(30), <1>1, <1>2, <1>3, <1>4, <1>5, <1>6, <1>7, <1>8, <1>9, <1>10, <1>11, <1>12, <1>13,
           <1>14, <1>15 DEF Next, Flush

\* The inductive invariant holds: while the server runs, the file and the buffer
\* reproduce the dataset, and so does what the rewrite would end with.
THEOREM AofInvariant == Spec => []IInv
<1>1. Init => IInv BY InitKeeps
<1>2. IInv /\ [Next]_vars => IInv'
  <2>1. ASSUME IInv, UNCHANGED vars PROVE IInv' BY SMTT(30), <2>1, NothingChanged DEF vars
  <2> QED BY SMTT(30), <2>1, NextKeeps
<1> QED BY <1>1, <1>2, PTL DEF Spec

\* The invariant gives the properties.
LEMMA FileAndBufferHolds == IInv => FileAndBuffer
<1> SUFFICES ASSUME IInv, state = "on", ~stray
             PROVE  /\ \A n \in synced..Len(file) :
                         LET s == Loaded(SubSeq(file, 1, n)) IN ~s.bad /\ s.data \in 0..version
                    /\ run = "up" =>
                         LET s == Loaded(file \o buf)
                         IN ~s.bad /\ s.half = 0 /\ s.data = version /\ size = Len(file)
  BY DEF FileAndBuffer
<1>1. /\ file \in Seq(Half) /\ buf \in Seq(Half) /\ version \in Int /\ OnDisk /\ Current
  BY DEF IInv, Types
<1>2. ASSUME NEW n \in synced..Len(file)
      PROVE  ~At(file, n).bad /\ At(file, n).data \in 0..version
  <2>1. n \in 0..Len(file) /\ synced \in synced..Len(file) /\ synced <= n BY <1>1 DEF OnDisk
  <2>2. At(file, n).data \in Int /\ At(file, synced).data \in Int
    BY SMTT(30), <1>1, <2>1, AtType DEF Reader, OnDisk
  <2>3. At(file, synced).data <= At(file, n).data /\ ~At(file, n).bad /\ At(file, n).data <= version
    BY <1>1, <2>1 DEF OnDisk, Good
  <2>4. At(file, synced).data >= 0 BY <1>1 DEF OnDisk
  <2> QED BY <1>1, <2>2, <2>3, <2>4
<1>3. ASSUME run = "up"
      PROVE  LET s == Loaded(file \o buf)
             IN ~s.bad /\ s.half = 0 /\ s.data = version /\ size = Len(file)
  <2>1. PICK c : c = file \o buf BY Zenon
  <2>2. c \in Seq(Half) BY <1>1, <2>1, Joined
  <2>3. Loaded(c) = At(c, Len(c)) BY <2>2, AtStep
  <2>4. Reproduces(c, Len(c), version, seldb) /\ size = Len(file) BY <1>1, <1>3, <2>1 DEF Current
  <2> QED BY <2>1, <2>3, <2>4 DEF Reproduces, Between
<1> QED BY SMTT(30), <1>2, <1>3 DEF At

LEMMA RewriteCompleteHolds == IInv => RewriteComplete
<1> SUFFICES ASSUME IInv, run = "up" PROVE RewriteComplete BY DEF RewriteComplete
<1>1. state = "wait" => child # NoChild \/ scheduled BY DEF IInv, Control
<1>2. ASSUME child # NoChild, state # "off" PROVE Loaded(NewFile).data = version
  <2>1. child \in [type : {"snap"}, arg : Int, db : Dbs] /\ rewritebuf \in Seq(Half)
    BY <1>2 DEF IInv, Types
  <2>2. NewFile \in Seq(Half) BY <2>1, NewFileType DEF NewFile
  <2>3. Loaded(NewFile) = At(NewFile, Len(NewFile)) BY <2>2, AtStep
  <2> QED BY <1>2, <2>3 DEF IInv, New, Reproduces
<1> QED BY <1>1, <1>2 DEF RewriteComplete, NewFile

\* FileAndBuffer for any number of databases, commands, faults and rewrites
\* (feedAppendOnlyFile, flushAppendOnlyFile, backgroundRewriteDoneHandler,
\* loadAppendOnlyFile).
THEOREM FileReproducesData == Spec => []FileAndBuffer
BY AofInvariant, FileAndBufferHolds, PTL

\* RewriteComplete: the rewritten file and the differences reproduce the dataset
\* whenever the child ends, and the file is not forgotten (aof.c:1120-1123, 1310).
THEOREM RewriteReproducesData == Spec => []RewriteComplete
BY AofInvariant, RewriteCompleteHolds, PTL

\* TransactionsWhole: no server starts with a part of a transaction when
\* aof-load-truncated is off (loadAppendOnlyFile).
THEOREM NoPartOfTransaction == Spec => []TransactionsWhole
<1>1. IInv => TransactionsWhole BY DEF IInv, Control, Middle, TransactionsWhole
<1> QED BY <1>1, AofInvariant, PTL

----------------------------------------------------------------------------
(* Durability.                                                             *)

\* Nothing of the file changes.
LEMMA DurableSame ==
  ASSUME Durable, UNCHANGED <<conf, exposed, stray, acked, file, synced>>, state' = state \/ state = "off",
         run = "switching" => run' = "switching", state # "on" => buf' = buf
  PROVE  Durable'
<1>1. acked' \in Int BY DEF Durable, Always
<1> QED BY <1>1 DEF Durable, Always

\* The numbers that are compared.
LEMMA DataType ==
  ASSUME IInv, ~stray
  PROVE  At(file, synced).data \in Int
BY AtType DEF IInv, Types, OnDisk, Reader

LEMMA DataTypeNext ==
  ASSUME IInv', ~stray'
  PROVE  At(file', synced').data \in Int
BY AtType DEF IInv, Types, OnDisk, Reader

\* Nothing is lost from what was on the disk.
LEMMA DurableGrows ==
  ASSUME IInv, IInv', Durable, UNCHANGED <<conf, exposed>>, run # "switching", acked' = acked, stray' = stray,
         Always => At(file, synced).data <= At(file', synced').data,
         Always /\ state' # "on" => buf' = << >> /\ acked = 0
  PROVE  Durable'
<1>1. acked' \in Int BY DEF Durable, Always
<1>2. ASSUME Always PROVE At(file', synced').data >= acked'
  <2>1. ~stray /\ ~stray' /\ At(file, synced).data >= acked /\ acked \in Int BY <1>2 DEF Durable, Always
  <2>2. At(file, synced).data \in Int /\ At(file', synced').data \in Int
    BY SMTT(30), <2>1, DataType, DataTypeNext
  <2> QED BY SMTT(30), <1>2, <2>1, <2>2
<1> QED BY <1>1, <1>2 DEF Durable, Always

\* With the policy always a flush of a buffer that is not empty writes and syncs
\* all of it, or the server exits.
LEMMA DurableFlush ==
  ASSUME IInv, IInv', Durable, run = "up", NEW w \in WriteOutcomes, NEW due, NEW late,
         flushAppendOnlyFile(w, due, late), UNCHANGED <<conf, exposed, version, state, fd, inside>>,
         acked' = acked \/ (acked' = version /\ run' = "up" /\ state = "on" /\ buf # << >>)
  PROVE  Durable'
<1>1. acked' \in Int BY SMTT(30) DEF Durable, Always, IInv, Types
<1> SUFFICES ASSUME Always
             PROVE  /\ ~stray'
                    /\ state' # "on" => buf' = << >> /\ acked' = 0
                    /\ run' # "switching" => At(file', synced').data >= acked'
  BY <1>1 DEF Durable, Always
<1>2. ~stray /\ (state # "on" => buf = << >> /\ acked = 0) /\ At(file, synced).data >= acked
  BY DEF Durable, Always
<1>3. CASE buf = << >>
  <2>1. UNCHANGED <<file, synced, buf, stray>> BY SMTT(30), <1>3 DEF flushAppendOnlyFile
  <2> QED BY SMTT(30), <1>2, <1>3, <2>1
<1>4. CASE buf # << >>
  <2>1. WriteBuffer(w) /\ Fsync(w, due) BY <1>4 DEF flushAppendOnlyFile, Always
  <2>2. state = "on" BY SMTT(30), <1>2, <1>4
  <2>3. ~stray' BY ZenonT(60), <1>2, <2>1, <2>2 DEF WriteBuffer
  <2>4. At(file, synced).data \in Int /\ At(file', synced').data \in Int
    BY <1>2, <2>3, DataType, DataTypeNext
  <2>5. CASE w[1] = "ok"
    <3>1. synced' = Len(file') BY SMTT(30), <2>1, <2>5 DEF Fsync, FsyncSkipped, Always
    <3>2. buf' = << >> BY SMTT(30), <1>4, <2>1, <2>5, BufferWritten
    <3>3. run' = "up" BY SMTT(30), <2>1, <2>5 DEF WriteBuffer
    <3>4. Current' /\ file' \in Seq(Half) BY <2>3 DEF IInv, Types
    <3>5. file' \o << >> = file' BY SMTT(30), <3>4
    <3>6. At(file', Len(file')).data = version
      BY SMTT(30), <2>2, <3>2, <3>3, <3>4, <3>5 DEF Current, Reproduces
    <3>7. version >= acked
      <4>1. OnDisk /\ version \in Int BY SMTT(30), <1>2 DEF IInv, Types
      <4>2. synced \in synced..Len(file) BY SMTT(30), <4>1 DEF OnDisk
      <4>3. At(file, synced).data <= version BY SMTT(30), <4>1, <4>2 DEF OnDisk, Good
      <4> QED BY SMTT(30), <1>2, <2>4, <4>1, <4>3 DEF Durable, Always
    <3>8. version \in Int BY SMTT(30) DEF IInv, Types
    <3> QED BY <2>2, <2>3, <3>1, <3>6, <3>7, <3>8
  <2>6. CASE w[1] # "ok"
    <3>1. run' = "down" /\ acked' = acked BY SMTT(30), <2>1, <2>6 DEF WriteBuffer, Always
    <3>2. synced' = Len(file') \/ (Len(file') >= synced /\ synced' = synced)
      <4>1. synced \in Nat /\ Len(file') \in Nat BY SMTT(30), <1>2 DEF IInv, OnDisk, Types
      <4> QED BY SMTT(30), <2>1, <4>1 DEF Fsync
    <3>3. At(file, synced).data <= At(file', synced').data
      BY SMTT(30), <1>4, <2>1, <2>3, <3>2, WroteDisk
    <3> QED BY SMTT(30), <1>2, <2>2, <2>3, <2>4, <3>1, <3>3 DEF Durable, Always
  <2> QED BY SMTT(30), <2>5, <2>6
<1> QED BY SMTT(30), <1>3, <1>4

\* RewriteSwitch syncs the new file before its end is acknowledged.
LEMMA DurableSwitch ==
  ASSUME IInv, IInv', Durable, RewriteSwitch
  PROVE  Durable'
<1>1. /\ run' = "up" /\ state' = (IF state = "wait" THEN "on" ELSE state)
      /\ acked' = (IF state' = "on" THEN version ELSE acked)
      /\ UNCHANGED <<conf, exposed, version, file, stray>> /\ ReplaceDescriptor
  BY SMTT(30) DEF RewriteSwitch
<1>2. acked' \in Int BY SMTT(30), <1>1 DEF Durable, Always, IInv, Types
<1> SUFFICES ASSUME Always
             PROVE  /\ ~stray'
                    /\ state' # "on" => buf' = << >> /\ acked' = 0
                    /\ At(file', synced').data >= acked'
  BY SMTT(30), <1>1, <1>2 DEF Durable, Always
<1>3. ~stray /\ ~stray' /\ (state # "on" => buf = << >> /\ acked = 0) BY SMTT(30), <1>1 DEF Durable, Always
<1>4. Current' /\ OnDisk' /\ file' \in Seq(Half) BY <1>3 DEF IInv, Types
<1>5. CASE state' # "on"
  <2>1. state # "on" BY <1>1, <1>5
  <2>2. buf' = << >> BY <1>1, <1>3, <2>1 DEF ReplaceDescriptor
  <2>3. acked' = 0 BY <1>1, <1>3, <1>5, <2>1
  <2>4. At(file', synced').data >= 0 BY <1>4 DEF OnDisk
  <2> QED BY <1>3, <2>2, <2>3, <2>4
<1>6. CASE state' = "on"
  <2>1. state # "off" BY SMTT(30), <1>1, <1>6
  <2>2. fd # "none" BY <2>1 DEF IInv, Control
  <2>3. synced' = Len(file) /\ buf' = << >> BY <1>1, <2>2 DEF ReplaceDescriptor, Always
  <2>4. file' \o << >> = file' BY <1>4
  <2>5. At(file', Len(file')).data = version'
    BY SMTT(30), <1>1, <1>4, <1>6, <2>3, <2>4 DEF Current, Reproduces
  <2>6. version' \in Int BY DEF IInv, Types
  <2> QED BY SMTT(30), <1>1, <1>3, <1>6, <2>3, <2>5, <2>6
<1> QED BY SMTT(30), <1>5, <1>6

\* stopAppendOnly, a power failure and the load keep what is durable.
LEMMA DurableStop ==
  ASSUME IInv, IInv', Durable, NEW w \in WriteOutcomes, stopAppendOnly(w)
  PROVE  Durable'
<1>1. run = "up" /\ UNCHANGED <<conf, exposed, version, inside>> BY SMTT(30) DEF stopAppendOnly
<1>2. \/ run' = "down" /\ UNCHANGED <<state, fd, synced, acked>>
      \/ run' # "down" /\ state' = "off" /\ synced' = Len(file') /\ acked' = 0
  BY DEF stopAppendOnly
<1>3. acked' \in Int BY <1>2 DEF Durable, Always
<1> SUFFICES ASSUME Always
             PROVE  /\ ~stray'
                    /\ state' # "on" => buf' = << >> /\ acked' = 0
                    /\ At(file', synced').data >= acked'
  BY <1>1, <1>3 DEF Durable, Always
<1>4. ~stray /\ (state # "on" => buf = << >> /\ acked = 0) /\ At(file, synced).data >= acked
      /\ acked \in Int
  BY SMTT(30), <1>1 DEF Durable, Always
<1>5. CASE buf = << >>
  <2>1. UNCHANGED <<run, file, buf, stray>> BY <1>5 DEF stopAppendOnly
  <2>2. run' = "up" BY <1>1, <2>1
  <2>3. OnDisk' BY SMTT(30), <1>4, <2>1 DEF IInv
  <2> QED BY SMTT(30), <1>2, <1>4, <1>5, <2>1, <2>2, <2>3 DEF OnDisk
<1>6. CASE buf # << >>
  <2>1. WriteBuffer(w) /\ state = "on" BY SMTT(30), <1>4, <1>6 DEF stopAppendOnly
  <2>2. ~stray' BY Zenon, <1>4, <2>1 DEF WriteBuffer
  <2>3. CASE run' = "down"
    <3>1. UNCHANGED <<state, synced, acked>> BY <1>2, <2>3
    <3>2. Len(file') >= synced
      <4>1. Len(file') \in Len(file)..Len(file \o buf) BY SMTT(30), <1>1, <1>6, <2>1, <2>2, BufferWritten
      <4>2. synced \in 0..Len(file) /\ file \in Seq(Half) BY SMTT(30), <1>4 DEF IInv, OnDisk, Types
      <4> QED BY SMTT(30), <4>1, <4>2
    <3>3. At(file, synced).data <= At(file', synced').data
      BY SMTT(30), <1>1, <1>6, <2>1, <2>2, <3>1, <3>2, WroteDisk
    <3>4. At(file, synced).data \in Int /\ At(file', synced').data \in Int
      BY SMTT(30), <1>4, <2>2, DataType, DataTypeNext
    <3> QED BY <1>4, <2>1, <2>2, <3>1, <3>3, <3>4
  <2>4. CASE run' # "down"
    <3>1. acked' = 0 BY SMTT(30), <1>2, <2>4
    <3>2. w[1] = "ok" BY SMTT(30), <2>1, <2>4 DEF WriteBuffer, Always
    <3>3. buf' = << >> BY SMTT(30), <1>6, <2>1, <3>2, BufferWritten
    <3>4. At(file', synced').data >= 0 BY SMTT(30), <2>2 DEF IInv, OnDisk
    <3> QED BY SMTT(30), <2>2, <3>1, <3>3, <3>4
  <2> QED BY SMTT(30), <2>3, <2>4
<1> QED BY SMTT(30), <1>5, <1>6

LEMMA DurablePowerFailure ==
  ASSUME IInv, IInv', Durable, NEW n \in 0..Len(file), PowerFailure(n), run # "switching"
  PROVE  Durable'
<1>1. /\ n \in synced..Len(file) /\ file' = SubSeq(file, 1, n) /\ synced' = n
      /\ UNCHANGED <<conf, exposed, version, state, buf, acked, inside, stray>>
  BY DEF PowerFailure, server
<1>2. ASSUME Always PROVE At(file, synced).data <= At(file', synced').data
  <2>1. ~stray BY SMTT(30), <1>2 DEF Durable, Always
  <2>2. /\ file \in Seq(Half) /\ version \in Int /\ synced \in 0..Len(file)
        /\ Good(file, synced, Len(file), version, Middle)
    BY SMTT(30), <2>1 DEF IInv, OnDisk, Types
  <2>3. n \in synced..n BY SMTT(30), <1>1, <2>2
  <2>4. At(file, synced).data <= At(SubSeq(file, 1, n), n).data BY SMTT(30), <1>1, <2>2, <2>3, GoodPart
  <2> QED BY SMTT(30), <1>1, <2>4
<1>3. Always /\ state' # "on" => buf' = << >> /\ acked = 0 BY SMTT(30), <1>1 DEF Durable, Always
<1> QED BY SMTT(30), <1>1, <1>2, <1>3, DurableGrows

LEMMA DurableLoad ==
  ASSUME IInv, IInv', Durable, loadAppendOnlyFile
  PROVE  Durable' /\ (Always => version' >= acked)
<1>1. run = "down" /\ state' = "on" /\ run' = "up" /\ UNCHANGED <<conf, exposed, stray>>
  BY SMTT(30) DEF loadAppendOnlyFile
<1>2. acked' = (IF version' < acked THEN version' ELSE acked) BY SMTT(30) DEF loadAppendOnlyFile
<1>3. version' \in Int /\ acked \in Int BY DEF Durable, Always, IInv, Types
<1>4. acked' \in Int /\ acked' <= version' /\ acked' <= acked BY SMTT(30), <1>2, <1>3
<1>5. ASSUME Always
      PROVE  ~stray' /\ At(file', synced').data >= acked' /\ version' >= acked
  <2>1. ~stray /\ At(file, synced).data >= acked BY SMTT(30), <1>1, <1>5 DEF Durable, Always
  <2>2. /\ At(file, synced).data <= version'
        /\ \/ At(file', synced').data = version'
           \/ At(file', synced').data = At(file, synced).data
    BY <2>1, LoadKeeps
  <2>3. At(file, synced).data \in Int BY SMTT(30), <2>1, DataType
  <2> QED BY SMTT(30), <1>1, <1>3, <1>4, <2>1, <2>2, <2>3
<1> QED BY SMTT(30), <1>1, <1>4, <1>5 DEF Durable, Always

\* Every step keeps what is durable.
LEMMA DurableNext ==
  ASSUME IInv, IInv', Durable, [Next]_vars
  PROVE  Durable'
<1>1. CASE UNCHANGED vars BY SMTT(30), <1>1, DurableSame DEF vars
<1>2. CASE \E d \in Dbs : Write(d) \/ Transaction(d)
  <2>1. /\ UNCHANGED <<conf, exposed, stray, acked, file, synced, state, run>>
        /\ state # "on" => buf' = buf
    BY SMTT(30), <1>2 DEF Write, Transaction, propagate, feedAppendOnlyFile, disk
  <2> QED BY SMTT(30), <2>1, DurableSame
<1>3. CASE \E w \in WriteOutcomes, due, late \in BOOLEAN : beforeSleep(w, due, late)
  <2>1. PICK w \in WriteOutcomes, due \in BOOLEAN, late \in BOOLEAN : beforeSleep(w, due, late)
    BY SMTT(30), <1>3
  <2>2. /\ run = "up" /\ buf # << >> /\ flushAppendOnlyFile(w, due, late)
        /\ UNCHANGED <<conf, exposed, version, state, fd, inside>>
        /\ acked' = (IF run' = "up" /\ state = "on" THEN version ELSE acked)
    BY SMTT(30), <2>1 DEF beforeSleep
  <2> QED BY <2>2, DurableFlush
<1>4. CASE \E w \in WriteOutcomes, due, late \in BOOLEAN : serverCronFlush(w, due, late)
  <2>1. PICK w \in WriteOutcomes, due \in BOOLEAN, late \in BOOLEAN : serverCronFlush(w, due, late)
    BY SMTT(30), <1>4
  <2>2. /\ run = "up" /\ flushAppendOnlyFile(w, due, late)
        /\ UNCHANGED <<conf, exposed, version, state, fd, inside>> /\ acked' = acked
    BY <2>1 DEF serverCronFlush
  <2> QED BY <2>2, DurableFlush
<1>5. CASE bioProcessBackgroundJobs \/ (\E saved \in BOOLEAN : prepareForShutdown(saved)) \/ Crash
  <2>1. /\ UNCHANGED <<conf, version, state, file, buf, acked, inside, stray>>
        /\ synced' = synced \/ synced' = Len(file)
    <3>1. CASE bioProcessBackgroundJobs BY <3>1 DEF bioProcessBackgroundJobs, server, history
    <3>2. CASE \E saved \in BOOLEAN : prepareForShutdown(saved) BY <3>2 DEF prepareForShutdown, server
    <3>3. CASE Crash BY <3>3 DEF Crash, server, disk
    <3> QED BY <1>5, <3>1, <3>2, <3>3
  <2>2. CASE run = "switching"
    <3>1. bioProcessBackgroundJobs \/ Crash BY SMTT(30), <1>5, <2>2 DEF prepareForShutdown
    <3>2. CASE bioProcessBackgroundJobs
      <4>1. run' = "switching" /\ exposed' = exposed
        BY SMTT(30), <2>2, <3>2 DEF bioProcessBackgroundJobs, history
      <4> QED BY SMTT(30), <2>1, <4>1 DEF Durable, Always
    <3>3. CASE Crash
      <4>1. exposed' BY <2>2, <3>3 DEF Crash
      <4> QED BY <2>1, <4>1 DEF Durable, Always
    <3> QED BY <3>1, <3>2, <3>3
  <2>3. CASE run # "switching"
    <3>1. exposed' = exposed
      BY <1>5, <2>3 DEF bioProcessBackgroundJobs, prepareForShutdown, Crash, history, Durable
    <3>2. Middle' = Middle BY SMTT(30), <2>1 DEF Middle
    <3>3. Always => At(file, synced).data <= At(file', synced').data
      BY SMTT(30), <2>1, <3>2, DiskSynced DEF Durable
    <3>4. Always /\ state' # "on" => buf' = << >> /\ acked = 0
      BY SMTT(30), <2>1 DEF Durable
    <3> QED BY SMTT(30), <2>1, <2>3, <3>1, <3>3, <3>4, DurableGrows
  <2> QED BY SMTT(30), <2>2, <2>3
<1>6. CASE \E d \in Dbs : bgrewriteaofCommand(d) \/ ScheduledRewrite(d)
  BY SMTT(30), <1>6, DurableSame DEF bgrewriteaofCommand, ScheduledRewrite, disk, history
<1>7. CASE ScheduleRewrite BY SMTT(30), <1>7, DurableSame DEF ScheduleRewrite, disk, history
<1>8. CASE RewriteFails BY SMTT(30), <1>8, DurableSame DEF RewriteFails, disk, history
<1>9. CASE RewriteRename
  <2>1. run' = "switching" /\ UNCHANGED <<conf, exposed, state, buf, acked, stray>>
    BY <1>9 DEF RewriteRename, server, history
  <2> QED BY SMTT(30), <2>1 DEF Durable, Always
<1>10. CASE RewriteSwitch BY <1>10, DurableSwitch
<1>11. CASE \E w \in WriteOutcomes : stopAppendOnly(w) BY SMTT(30), <1>11, DurableStop
<1>12. CASE \E opens, forks \in BOOLEAN, d \in Dbs : startAppendOnly(opens, forks, d)
  <2>1. /\ UNCHANGED <<conf, exposed, stray, acked, file, synced, buf, run>> /\ state = "off"
    BY <1>12 DEF startAppendOnly, disk, history
  <2> QED BY <2>1, DurableSame
<1>13. CASE \E n \in 0..Len(file) : PowerFailure(n)
  <2>1. PICK n \in 0..Len(file) : PowerFailure(n) BY SMTT(30), <1>13
  <2>2. CASE run = "switching"
    <3>1. exposed' /\ acked' = acked BY <2>1, <2>2 DEF PowerFailure
    <3> QED BY <3>1 DEF Durable, Always
  <2>3. CASE run # "switching" BY SMTT(30), <2>1, <2>3, DurablePowerFailure
  <2> QED BY <2>2, <2>3
<1>14. CASE loadAppendOnlyFile BY SMTT(30), <1>14, DurableLoad
<1> QED BY SMTT(30), <1>1, <1>2, <1>3, <1>4, <1>5, <1>6, <1>7, <1>8, <1>9, <1>10, <1>11, <1>12, <1>13,
           <1>14 DEF Next, Flush

\* Only loadAppendOnlyFile starts the server.
LEMMA StartLoads ==
  ASSUME [Next]_vars, run = "down", run' = "up"
  PROVE  loadAppendOnlyFile
BY DEF Next, Flush, vars, Write, Transaction, beforeSleep, serverCronFlush,
       bioProcessBackgroundJobs, bgrewriteaofCommand, ScheduledRewrite, ScheduleRewrite,
       RewriteFails, RewriteRename, RewriteSwitch, stopAppendOnly, startAppendOnly,
       prepareForShutdown, Crash, PowerFailure

\* AckedDurable: with appendfsync always and no-appendfsync-on-rewrite no an
\* acknowledged write survives every crash and power failure
\* (flushAppendOnlyFile, aof.c:330-333) that does not come between rename(2) and
\* fsync(2) in backgroundRewriteDoneHandler.
THEOREM AlwaysDurable == Spec => AckedDurable
<1>1. Init => IInv /\ Durable
  <2> SUFFICES ASSUME Init PROVE IInv /\ Durable OBVIOUS
  <2>1. IInv BY SMTT(30), InitKeeps
  <2>2. OnDisk BY SMTT(30), <2>1 DEF IInv, Init
  <2>3. acked = 0 /\ buf = << >> /\ ~stray BY DEF Init
  <2> QED BY <2>1, <2>2, <2>3 DEF Durable, Always, OnDisk
<1>2. (IInv /\ Durable) /\ [Next]_vars => (IInv /\ Durable)'
  <2> SUFFICES ASSUME IInv, Durable, [Next]_vars PROVE IInv' /\ Durable' BY SMTT(30)
  <2>1. IInv' BY NextKeeps, NothingChanged DEF vars
  <2> QED BY <2>1, DurableNext
<1>3. (IInv /\ Durable) /\ [Next]_vars =>
        [run = "down" /\ run' = "up" /\ conf.fsync = "always" /\ ~conf.lazy /\ ~exposed
           => version' >= acked]_vars
  <2> SUFFICES ASSUME IInv, Durable, [Next]_vars, run = "down", run' = "up", Always
               PROVE  version' >= acked
    BY DEF Always
  <2>1. loadAppendOnlyFile BY StartLoads
  <2>2. IInv' BY <2>1, LoadKeeps
  <2> QED BY <2>1, <2>2, DurableLoad
<1> QED BY <1>1, <1>2, <1>3, PTL DEF Spec, AckedDurable
=============================================================================
