-------------------------------- MODULE Dict --------------------------------
(***************************************************************************)
(* The hash table of src/struct/dict.c: two tables while it is rehashed a  *)
(* bucket at a time by the operations themselves, safe iterators, which    *)
(* suspend rehashing, and the stateless cursors of dictScan, which have to *)
(* return every element although the table is resized between two calls.   *)
(***************************************************************************)
EXTENDS Integers, Sequences, FiniteSets, FiniteSetsExt, SequencesExt

CONSTANTS
  Keys,
  Hash,          \* dictHashKey
  InitialSize,   \* DICT_HT_INITIAL_SIZE
  ForceRatio,    \* dict_force_resize_ratio
  MaxSize,       \* bound on the size of a table
  None

VARIABLES
  d,      \* [ht, rehashidx, iterators]
  can,    \* dict_can_resize
  it,     \* a safe iterator, or None
  sc      \* a scan in progress, or None

vars == <<d, can, it, sc>>

Powers == {1, 2, 4, 8, 16, 32}

NoTable == [size |-> 0, used |-> 0, tab |-> <<>>]
NewTable(n) == [size |-> n, used |-> 0, tab |-> [i \in 0..(n - 1) |-> <<>>]]

Rehashing(x) == x.rehashidx # -1

\* Where key k is in a table; the keys of a table and of both.
Slot(ht, k) == Hash[k] % ht.size
In(ht) == UNION {ToSet(ht.tab[i]) : i \in DOMAIN ht.tab}
All(x) == In(x.ht[1]) \cup In(x.ht[2])

----------------------------------------------------------------------------
(* Resizing and rehashing.                                                 *)

\* _dictNextPower.
NextPower(n) == CHOOSE p \in Powers : p >= InitialSize /\ p >= n
                                      /\ \A q \in Powers : q >= InitialSize /\ q >= n => p <= q

\* dictExpand.
Expand(x, n) ==
  IF Rehashing(x) \/ x.ht[1].used > n THEN x
  ELSE IF x.ht[1].size = 0 THEN [x EXCEPT !.ht[1] = NewTable(NextPower(n))]
  ELSE [x EXCEPT !.ht[2] = NewTable(NextPower(n)), !.rehashidx = 0]

\* _dictExpandIfNeeded.
ExpandIfNeeded(x) ==
  IF Rehashing(x) THEN x
  ELSE IF x.ht[1].size = 0 THEN Expand(x, InitialSize)
  ELSE IF /\ x.ht[1].used >= x.ht[1].size
          /\ can \/ x.ht[1].used \div x.ht[1].size > ForceRatio
       THEN Expand(x, x.ht[1].used * 2) ELSE x

\* Entry k becomes the first of its bucket.
Link(ht, k) == [ht EXCEPT !.tab[Slot(ht, k)] = <<k>> \o @, !.used = @ + 1]

\* A round of dictRehash: the new table takes the place of the old one, or the
\* next bucket that is not empty is moved, entry by entry.
dictRehash(x) ==
  LET i == CHOOSE j \in x.rehashidx..(x.ht[1].size - 1) :
             x.ht[1].tab[j] # <<>> /\ \A h \in x.rehashidx..(j - 1) : x.ht[1].tab[h] = <<>>
      b == x.ht[1].tab[i]
      to[n \in 0..Len(b)] == IF n = 0 THEN x.ht[2] ELSE Link(to[n - 1], b[n])
  IN IF ~Rehashing(x) THEN x
     ELSE IF x.ht[1].used = 0
     THEN [x EXCEPT !.ht = <<x.ht[2], NoTable>>, !.rehashidx = -1]
     ELSE [x EXCEPT !.ht[1].tab[i] = <<>>, !.ht[1].used = @ - Len(b),
                    !.ht[2] = to[Len(b)], !.rehashidx = i + 1]

\* _dictRehashStep.
RehashStep(x) == IF x.iterators = 0 THEN dictRehash(x) ELSE x

----------------------------------------------------------------------------
(* Elements.                                                               *)

\* dictAddRaw.
Add(x, k) ==
  LET y == ExpandIfNeeded(RehashStep(x))
  IN IF k \in All(y) THEN y
     ELSE IF Rehashing(y) THEN [y EXCEPT !.ht[2] = Link(@, k)]
     ELSE [y EXCEPT !.ht[1] = Link(@, k)]

Unlink(ht, k) ==
  [ht EXCEPT !.tab[Slot(ht, k)] = SelectSeq(@, LAMBDA e : e # k), !.used = @ - 1]

\* dictGenericDelete.
GenericDelete(x, k) ==
  LET y == RehashStep(x)
  IN IF x.ht[1].size = 0 THEN x
     ELSE IF k \in In(y.ht[1]) THEN [y EXCEPT !.ht[1] = Unlink(@, k)]
     ELSE IF Rehashing(y) /\ k \in In(y.ht[2]) THEN [y EXCEPT !.ht[2] = Unlink(@, k)]
     ELSE y

\* dictFind looks for a key only in the buckets it hashes to.
dictFind(x, k) ==
  /\ x.ht[1].size # 0
  /\ \/ k \in ToSet(x.ht[1].tab[Slot(x.ht[1], k)])
     \/ Rehashing(x) /\ k \in ToSet(x.ht[2].tab[Slot(x.ht[2], k)])

\* dictGetRandomKey: the keys it may return.
Random(x) == In(x.ht[1]) \cup (IF Rehashing(x) THEN In(x.ht[2]) ELSE {})

----------------------------------------------------------------------------
(* Iterators.                                                              *)

\* What is left of the bucket an iterator is in, after the entry it returned:
\* nextEntry, which is kept because that entry may be deleted.  Entries are only
\* added in front of a bucket.
NewIterator == [table |-> 1, index |-> -1, rest |-> <<>>, last |-> None]

\* dictNext: the bucket the iterator goes to, and the iterator then; at the end
\* last is None.
dictNext(x, i) ==
  LET places == {<<1, j>> : j \in (IF i.table = 1 THEN i.index + 1 ELSE MaxSize)..(x.ht[1].size - 1)}
                \cup IF Rehashing(x)
                     THEN {<<2, j>> : j \in (IF i.table = 1 THEN 0 ELSE i.index + 1)..(x.ht[2].size - 1)}
                     ELSE {}
      full == {p \in places : x.ht[p[1]].tab[p[2]] # <<>>}
      p == CHOOSE q \in full : \A r \in full : q[1] < r[1] \/ (q[1] = r[1] /\ q[2] <= r[2])
      b == x.ht[p[1]].tab[p[2]]
  IN IF i.rest # <<>> THEN [i EXCEPT !.rest = Tail(@), !.last = Head(i.rest)]
     ELSE IF full = {} THEN [i EXCEPT !.last = None]
     ELSE [table |-> p[1], index |-> p[2], rest |-> Tail(b), last |-> Head(b)]

----------------------------------------------------------------------------
(* dictScan.                                                               *)

\* The cursor after v, for a table of size n: the reversed cursor is incremented.
\* Its highest bit that is not set is set, and the ones above it are cleared.
NextCursor(v, n) ==
  LET zeros == {b \in Powers : b < n /\ (v \div b) % 2 = 0}
  IN IF zeros = {} THEN 0 ELSE (v % Max(zeros)) + Max(zeros)

\* The buckets of the larger table, of size n1, that the loop visits from v on.
Expansions(v, n0, n1) ==
  LET stop == CHOOSE k \in 1..(n1 \div n0) : /\ ((v + k * n0) % n1) \div n0 = 0
                                             /\ \A j \in 1..(k - 1) : ((v + j * n0) % n1) \div n0 # 0
  IN {(v + k * n0) % n1 : k \in 0..(stop - 1)}

dictScan_SmallOnly(x, v) ==
  LET small == IF ~Rehashing(x) \/ x.ht[1].size <= x.ht[2].size THEN x.ht[1] ELSE x.ht[2]
  IN IF All(x) = {} THEN [keys |-> {}, v |-> 0]
     ELSE [keys |-> ToSet(small.tab[v % small.size]), v |-> NextCursor(v, small.size)]

\* dictScan with cursor v: the keys it returns and the next cursor.
dictScan(x, v) ==
  LET small == IF ~Rehashing(x) \/ x.ht[1].size <= x.ht[2].size THEN x.ht[1] ELSE x.ht[2]
      large == IF x.ht[1].size <= x.ht[2].size THEN x.ht[2] ELSE x.ht[1]
      there == ToSet(small.tab[v % small.size])
  IN IF All(x) = {} THEN [keys |-> {}, v |-> 0]
     ELSE [keys |-> there \cup
                    IF Rehashing(x)
                    THEN UNION {ToSet(large.tab[i]) : i \in Expansions(v, small.size, large.size)}
                    ELSE {},
           v |-> NextCursor(v, small.size)]

----------------------------------------------------------------------------

Init ==
  /\ d = [ht |-> <<NoTable, NoTable>>, rehashidx |-> -1, iterators |-> 0]
  /\ can = TRUE /\ it = None /\ sc = None

\* What a scan has to know of key k, and the iteration as well: that it was not
\* there all the time.
Gone(s, k) == IF s = None THEN s ELSE [s EXCEPT !.since = @ \ {k}]

\* dictAdd, dictReplace.
DoAdd(k) ==
  /\ d' = Add(d, k)
  /\ d'.ht[1].size <= MaxSize /\ d'.ht[2].size <= MaxSize
  /\ UNCHANGED <<can, it, sc>>

\* dictDelete.  While a dictionary is iterated over only the entry that was
\* returned last is deleted.
DoDelete(k) ==
  /\ it # None => it.i.last = k
  /\ d' = GenericDelete(d, k)
  /\ it' = Gone(it, k) /\ sc' = Gone(sc, k)
  /\ UNCHANGED can

\* dictFind and dictGetRandomKey move the rehashing on.
DoFind ==
  /\ d' = IF d.ht[1].size = 0 THEN d ELSE RehashStep(d)
  /\ UNCHANGED <<can, it, sc>>

\* dictRehashMilliseconds, from serverCron, when there are no iterators.
DoRehash ==
  /\ it = None /\ Rehashing(d)
  /\ d' = dictRehash(d)
  /\ UNCHANGED <<can, it, sc>>

\* dictResize, which serverCron calls for a table that is nearly empty.
DoResize ==
  LET n == IF d.ht[1].used < InitialSize THEN InitialSize ELSE d.ht[1].used
  IN /\ can /\ ~Rehashing(d) /\ it = None /\ d.ht[1].size > InitialSize
     /\ NextPower(n) < d.ht[1].size
     /\ d' = Expand(d, n)
     /\ UNCHANGED <<can, it, sc>>

\* dictEnableResize and dictDisableResize, as there is a child or not.
DoCanResize ==
  /\ can' = ~can
  /\ UNCHANGED <<d, it, sc>>

\* dictEmpty.
DoEmpty ==
  /\ it = None /\ d.ht[1].size > 0
  /\ d' = [ht |-> <<NoTable, NoTable>>, rehashidx |-> -1, iterators |-> 0]
  /\ sc' = IF sc = None THEN None ELSE [sc EXCEPT !.since = {}]
  /\ UNCHANGED <<can, it>>

\* dictGetSafeIterator and the first dictNext (a bound: not between the calls of
\* a scan).
IterStart ==
  /\ it = None /\ sc = None
  /\ it' = [i |-> dictNext(d, NewIterator), since |-> All(d), seen |-> <<>>]
  /\ d' = [d EXCEPT !.iterators = @ + 1]
  /\ UNCHANGED <<can, sc>>

\* dictNext; at the end dictReleaseIterator.
IterNext ==
  /\ it # None
  /\ IF it.i.last = None
     THEN it' = None /\ d' = [d EXCEPT !.iterators = @ - 1]
     ELSE /\ it' = [it EXCEPT !.i = dictNext(d, it.i), !.seen = Append(@, it.i.last)]
          /\ UNCHANGED d
  /\ UNCHANGED <<can, sc>>

\* A cursor v that a larger table has left is used while there are two tables,
\* one at least four times as large as the other, and v is no bucket of the
\* smaller one.
Astride(x, v) ==
  LET n == {x.ht[1].size, x.ht[2].size}
  IN Rehashing(x) /\ Max(n) > 2 * Min(n) /\ v >= Min(n)

\* A first call of dictScan, and the next one.  A scan is over when the cursor
\* is 0 again.
ScanStart ==
  LET s == dictScan(d, 0)
  IN /\ sc = None /\ it = None
     /\ sc' = [v |-> s.v, since |-> All(d), seen |-> s.keys, astride |-> FALSE]
     /\ UNCHANGED <<d, can, it>>
ScanNext ==
  LET s == dictScan(d, sc.v)
  IN /\ sc # None /\ it = None
     /\ sc' = IF sc.v = 0 THEN None
              ELSE [sc EXCEPT !.v = s.v, !.seen = @ \cup s.keys, !.astride = @ \/ Astride(d, sc.v)]
     /\ UNCHANGED <<d, can, it>>

Next ==
  \/ \E k \in Keys : DoAdd(k) \/ DoDelete(k)
  \/ DoFind \/ DoRehash \/ DoResize \/ DoCanResize \/ DoEmpty
  \/ IterStart \/ IterNext \/ ScanStart \/ ScanNext

Spec == Init /\ [][Next]_vars

----------------------------------------------------------------------------

\* Every key is where dictFind looks for it, in one table only, buckets below
\* rehashidx are empty, and used counts the entries.
TablesConsistent ==
  /\ \A k \in All(d) : dictFind(d, k)
  /\ In(d.ht[1]) \cap In(d.ht[2]) = {}
  /\ \A t \in {1, 2} : d.ht[t].used = Cardinality(In(d.ht[t]))
  /\ \A i \in 0..(d.rehashidx - 1) : d.ht[1].tab[i] = <<>>
  /\ Rehashing(d) <=> d.ht[2].size # 0

\* A safe iterator returns nothing twice and, at its end, has returned all that
\* was in the dictionary from beginning to end, although entries were added and
\* deleted, and the table was expanded, in between.
SafeIteration ==
  it # None =>
    /\ \A i, j \in DOMAIN it.seen : it.seen[i] = it.seen[j] => i = j \/ it.seen[i] \notin it.since
    /\ it.i.last = None => it.since \subseteq ToSet(it.seen)

\* At the end of a scan every element that was there all the time was returned,
\* whatever the table went through, unless a cursor was used astride two tables.
ScanComplete == (sc # None /\ sc.v = 0 /\ ~sc.astride) => sc.since \subseteq sc.seen

\* The same without the exception, as the comment on dictScan has it: "The
\* function guarantees all elements present in the dictionary get returned
\* between the start and end of the iteration."
ScanReturnsAll == (sc # None /\ sc.v = 0) => sc.since \subseteq sc.seen
=============================================================================
