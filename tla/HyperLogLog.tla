---------------------------- MODULE HyperLogLog ----------------------------
(***************************************************************************)
(* HyperLogLogs (struct/hyperloglog.c): an array of registers, each the    *)
(* longest run seen of an element that maps to it, kept as opcodes (runs   *)
(* of zeros, runs of a value) while that is short, then as 6 bit counters  *)
(* packed in bytes; and the cardinality, cached in the header until the    *)
(* registers change.                                                       *)
(*                                                                         *)
(* An element is its register and its run.  What is computed from the      *)
(* registers depends only on how many there are of each value: that is     *)
(* what stands for the cardinality here.                                   *)
(***************************************************************************)
EXTENDS Integers, Sequences, FiniteSets, SequencesExt

CONSTANTS
  Keys,
  Batches,       \* per key, what is added to it at once: sequences of [index, count]
  Registers,     \* HLL_REGISTERS, a multiple of 4
  ValMaxValue, ValMaxLen, ZeroMaxLen, XzeroMaxLen,     \* HLL_SPARSE_...
  Word,          \* bytes that hllRawSum looks at together
  SparseMax      \* hll_sparse_max_bytes, without the header

VARIABLES
  db,            \* key -> [enc, ops, bytes, card, valid]
  call           \* the last command: [keys, es, dirty, reply, card]

vars == <<db, call>>

Regs == 0..(Registers - 1)

----------------------------------------------------------------------------
(* Dense: HLL_DENSE_GET_REGISTER and HLL_DENSE_SET_REGISTER on bytes, the  *)
(* one after the last of which exists.                                     *)

NoBytes == [i \in 0..((Registers * 6) \div 8) |-> 0]

GetRegister(p, n) ==
  LET byte == (n * 6) \div 8
      fb == (n * 6) % 8
  IN (p[byte] \div 2^fb + p[byte + 1] * 2^(8 - fb)) % 64

\* The bits below and above the register stay as they are, in both bytes.
SetRegister(p, n, v) ==
  LET byte == (n * 6) \div 8
      fb == (n * 6) % 8
      fb8 == 8 - fb
  IN [p EXCEPT ![byte] = @ - ((@ \div 2^fb) % 64) * 2^fb + ((v * 2^fb) % 256),
               ![byte + 1] = @ - (@ % (63 \div 2^fb8 + 1)) + v \div 2^fb8]

hllDenseAdd(o, e) ==
  IF e.count > GetRegister(o.bytes, e.index)
  THEN [o |-> [o EXCEPT !.bytes = SetRegister(@, e.index, e.count)], r |-> 1]
  ELSE [o |-> o, r |-> 0]

\* How many registers have each value, from a function of registers.
Tally(f) == [v \in {f[n] : n \in DOMAIN f} |-> Cardinality({n \in DOMAIN f : f[n] = v})]
NoneSeen == Tally([n \in Regs |-> 0])

\* HLL_INVALIDATE_CACHE: what is cached is not looked at until it is set again.
Invalidate(o) == [o EXCEPT !.valid = FALSE, !.card = NoneSeen]

\* hllDenseSum, four registers of three bytes at a time.
hllDenseSum(p) ==
  LET r(b, n) == CASE n = 0 -> p[b] % 64
                   [] n = 1 -> (p[b] \div 64 + p[b + 1] * 4) % 64
                   [] n = 2 -> (p[b + 1] \div 16 + p[b + 2] * 16) % 64
                   [] n = 3 -> (p[b + 2] \div 4) % 64
  IN Tally([n \in Regs |-> r(3 * (n \div 4), n % 4)])

----------------------------------------------------------------------------
(* Sparse: opcodes of a byte, or two (XZERO).                              *)

ZERO(len) == [op |-> "zero", len |-> len, val |-> 0]
XZERO(len) == [op |-> "xzero", len |-> len, val |-> 0]
VAL(val, len) == [op |-> "val", len |-> len, val |-> val]

Size(op) == IF op.op = "xzero" THEN 2 ELSE 1
Total(s) == LET t[i \in 0..Len(s)] == IF i = 0 THEN 0 ELSE t[i - 1] + s[i] IN t[Len(s)]
SparseLen(ops) == Total([i \in DOMAIN ops |-> Size(ops[i])])

\* The registers before opcode i, and the value of register n.
First(ops, i) == Total([j \in 1..(i - 1) |-> ops[j].len])
At(ops, n) == CHOOSE i \in DOMAIN ops : First(ops, i) <= n /\ n < First(ops, i + 1)
Value(ops, n) == ops[At(ops, n)].val

createHLLObject ==
  LET n == (Registers + XzeroMaxLen - 1) \div XzeroMaxLen
      ops == [i \in 1..n |-> XZERO(IF i < n THEN XzeroMaxLen ELSE Registers - (n - 1) * XzeroMaxLen)]
  IN [enc |-> "sparse", ops |-> ops, bytes |-> NoBytes, card |-> NoneSeen, valid |-> TRUE]

\* Each VAL opcode sets its registers; the header with the cached value is copied.
hllSparseToDense(o) ==
  LET each[n \in 0..Registers] ==
        IF n = 0 THEN NoBytes
        ELSE IF Value(o.ops, n - 1) = 0 THEN each[n - 1]
        ELSE SetRegister(each[n - 1], n - 1, Value(o.ops, n - 1))
  IN IF o.enc = "dense" THEN o ELSE [o EXCEPT !.enc = "dense", !.ops = <<>>, !.bytes = each[Registers]]

\* The opcodes that take the place of op, which begins at register `first'.
Zeros(len) == IF len = 0 THEN <<>> ELSE IF len > ZeroMaxLen THEN <<XZERO(len)>> ELSE <<ZERO(len)>>
Split(op, first, e) ==
  LET before == e.index - first
      after == first + op.len - 1 - e.index
      Vals(len) == IF len = 0 THEN <<>> ELSE <<VAL(op.val, len)>>
  IN IF op.op = "val" THEN Vals(before) \o <<VAL(e.count, 1)>> \o Vals(after)
     ELSE Zeros(before) \o <<VAL(e.count, 1)>> \o Zeros(after)

MergeStep_Longer(s) ==
  LET ops == s.ops
      p == s.p
  IN IF p > Len(ops) THEN s
     ELSE IF ops[p].op = "val" /\ p < Len(ops) /\ ops[p + 1].op = "val" /\ ops[p].val = ops[p + 1].val
     THEN [ops |-> SubSeq(ops, 1, p - 1)
                   \o <<VAL(ops[p].val, 1 + ((ops[p].len + ops[p + 1].len - 1) % ValMaxLen))>>
                   \o SubSeq(ops, p + 2, Len(ops)), p |-> p]
     ELSE [s EXCEPT !.p = p + 1]

\* A round of the loop of step 4, at opcode p: it is merged with the next one if
\* both are values, the same ones, and the length still fits.
MergeStep(s) ==
  LET ops == s.ops
      p == s.p
      len == ops[p].len + ops[p + 1].len
  IN IF p > Len(ops) THEN s
     ELSE IF /\ ops[p].op = "val" /\ p < Len(ops) /\ ops[p + 1].op = "val"
             /\ ops[p].val = ops[p + 1].val /\ len <= ValMaxLen
     THEN [ops |-> SubSeq(ops, 1, p - 1) \o <<VAL(ops[p].val, len)>> \o SubSeq(ops, p + 2, Len(ops)), p |-> p]
     ELSE [s EXCEPT !.p = p + 1]

\* Five rounds from the opcode before the one that was changed.
Merge(ops, from) ==
  LET round[n \in 0..5] == IF n = 0 THEN [ops |-> ops, p |-> from] ELSE MergeStep(round[n - 1])
  IN round[5].ops

\* Case A.
HighEnough(op, e) == op.op = "val" /\ op.val >= e.count

\* hllSparseAdd: 1 if the register was changed, also if the value or the length had
\* the representation promoted; the assertion on the result of hllDenseAdd is `ok'.
hllSparseAdd(o, e) ==
  LET i == At(o.ops, e.index)
      op == o.ops[i]
      seq == Split(op, First(o.ops, i), e)
      delta == SparseLen(seq) - Size(op)
      dense == hllDenseAdd(hllSparseToDense(o), e)
      promote == [o |-> dense.o, r |-> 1, ok |-> dense.r = 1]
      from == IF i = 1 THEN 1 ELSE i - 1
      update(new) ==
        [o |-> [Invalidate(o) EXCEPT !.ops = Merge(SubSeq(@, 1, i - 1) \o new \o SubSeq(@, i + 1, Len(@)), from)],
         r |-> 1, ok |-> TRUE]
  IN IF e.count > ValMaxValue THEN promote
     ELSE IF HighEnough(op, e) THEN [o |-> o, r |-> 0, ok |-> TRUE]
     ELSE IF op.op # "xzero" /\ op.len = 1 THEN update(<<VAL(e.count, 1)>>)
     ELSE IF delta > 0 /\ SparseLen(o.ops) + delta > SparseMax THEN promote
     ELSE update(seq)

hllSparseSum(ops) ==
  [v \in {ops[i].val : i \in DOMAIN ops} |-> Total([i \in DOMAIN ops |-> IF ops[i].val = v THEN ops[i].len ELSE 0])]

----------------------------------------------------------------------------

\* hllRawSum: a word of zeros at once, else byte by byte.
hllRawSum(max) ==
  LET zeros(w) == \A n \in Regs : n \div Word = w => max[n] = 0
      words == {n \div Word : n \in Regs}
      ez(w) == IF zeros(w) THEN Word ELSE Cardinality({n \in Regs : n \div Word = w /\ max[n] = 0})
      byWord[k \in 0..Cardinality(words)] == IF k = 0 THEN 0 ELSE byWord[k - 1] + ez(k - 1)
  IN [v \in DOMAIN Tally(max) |-> IF v = 0 THEN byWord[Cardinality(words)] ELSE Tally(max)[v]]

hllCount(o) == IF o.enc = "dense" THEN hllDenseSum(o.bytes) ELSE hllSparseSum(o.ops)

hllAdd(o, e) ==
  IF o.enc = "dense" THEN hllDenseAdd(o, e)
  ELSE LET s == hllSparseAdd(o, e) IN [o |-> s.o, r |-> s.r]

hllMerge(max, o) ==
  [n \in Regs |-> LET v == IF o.enc = "dense" THEN GetRegister(o.bytes, n) ELSE Value(o.ops, n)
                  IN IF v > max[n] THEN v ELSE max[n]]

NoKey == [enc |-> "none", ops |-> <<>>, bytes |-> NoBytes, card |-> NoneSeen, valid |-> FALSE]
Junk == [NoKey EXCEPT !.enc = "junk"]

\* isHLLObjectOrReply, of a key that is there.
isHLLObject(o) == o.enc \in {"sparse", "dense"}

\* The maximum of the registers of a sequence of keys.
MaxOf(ks) ==
  LET m[i \in 0..Len(ks)] ==
        IF i = 0 THEN [n \in Regs |-> 0]
        ELSE IF db[ks[i]] = NoKey THEN m[i - 1] ELSE hllMerge(m[i - 1], db[ks[i]])
  IN m[Len(ks)]

Reply(ks, es, dirty, reply, card) == [keys |-> ks, es |-> es, dirty |-> dirty, reply |-> reply, card |-> card]

Error(ks) == UNCHANGED db /\ call' = Reply(ks, <<>>, FALSE, "error", NoneSeen)

\* PFADD k es.
pfaddCommand(k, es) ==
  LET o == IF db[k] = NoKey THEN createHLLObject ELSE db[k]
      add[i \in 0..Len(es)] ==
        IF i = 0 THEN [o |-> o, n |-> IF db[k] = NoKey THEN 1 ELSE 0]
        ELSE LET a == hllAdd(add[i - 1].o, es[i]) IN [o |-> a.o, n |-> add[i - 1].n + a.r]
      new == add[Len(es)]
  IN IF db[k].enc = "junk" THEN Error(<<k>>)
     ELSE /\ db' = [db EXCEPT ![k] = IF new.n > 0 THEN Invalidate(new.o) ELSE new.o]
          /\ call' = Reply(<<k>>, es, new.n > 0, IF new.n > 0 THEN "1" ELSE "0", NoneSeen)

\* PFCOUNT of one key, by the cache, which it fills.
pfcountCommand(k) ==
  LET o == db[k]
  IN IF o = NoKey THEN UNCHANGED db /\ call' = Reply(<<k>>, <<>>, FALSE, "card", NoneSeen)
     ELSE IF ~isHLLObject(o) THEN Error(<<k>>)
     ELSE IF o.valid THEN UNCHANGED db /\ call' = Reply(<<k>>, <<>>, FALSE, "card", o.card)
     ELSE /\ db' = [db EXCEPT ![k].card = hllCount(o), ![k].valid = TRUE]
          /\ call' = Reply(<<k>>, <<>>, TRUE, "card", hllCount(o))

\* PFCOUNT of several keys.
pfcountKeys(ks) ==
  IF \E i \in DOMAIN ks : db[ks[i]].enc = "junk" THEN Error(ks)
  ELSE UNCHANGED db /\ call' = Reply(ks, <<>>, FALSE, "card", hllRawSum(MaxOf(ks)))

\* PFMERGE: the first key is the destination, and one of the sources.
pfmergeCommand(ks) ==
  LET k == ks[1]
      max == MaxOf(ks)
      o == hllSparseToDense(IF db[k] = NoKey THEN createHLLObject ELSE db[k])
      each[n \in 0..Registers] == IF n = 0 THEN o.bytes ELSE SetRegister(each[n - 1], n - 1, max[n - 1])
  IN IF \E i \in DOMAIN ks : db[ks[i]].enc = "junk" THEN Error(ks)
     ELSE /\ db' = [db EXCEPT ![k] = [Invalidate(o) EXCEPT !.bytes = each[Registers]]]
          /\ call' = Reply(ks, <<>>, TRUE, "merged", NoneSeen)

\* SET of something else, and DEL.
Overwrite(k) == db' = [db EXCEPT ![k] = Junk] /\ call' = Reply(<<k>>, <<>>, TRUE, "ok", NoneSeen)
Delete(k) == db' = [db EXCEPT ![k] = NoKey] /\ call' = Reply(<<k>>, <<>>, db[k] # NoKey, "ok", NoneSeen)

Init == db = [k \in Keys |-> NoKey] /\ call = Reply(<<>>, <<>>, FALSE, "ok", NoneSeen)

Next ==
  \/ \E k \in Keys : \/ \E es \in Batches[k] : pfaddCommand(k, es)
                     \/ pfcountCommand(k) \/ Overwrite(k) \/ Delete(k)
  \/ \E k1, k2 \in Keys : pfcountKeys(<<k1, k2>>) \/ pfmergeCommand(<<k1, k2>>)

Spec == Init /\ [][Next]_vars

----------------------------------------------------------------------------
(* Properties.  Those with primes are about every step.                    *)

\* The registers of an object, whatever its encoding.
RegistersOf(o) ==
  [n \in Regs |-> CASE o.enc = "sparse" -> Value(o.ops, n)
                    [] o.enc = "dense" -> GetRegister(o.bytes, n)
                    [] OTHER -> 0]
Higher(f, g) == [n \in Regs |-> IF f[n] > g[n] THEN f[n] ELSE g[n]]
With(f, es) ==
  [n \in Regs |-> Max({f[n]} \cup {es[i].count : i \in {j \in DOMAIN es : es[j].index = n}})]

\* The opcodes, after any splits and merges, cover all registers exactly, have
\* lengths that their encodings can hold, and stay within the configured size.
SparseRight ==
  \A k \in Keys : db[k].enc = "sparse" =>
    LET ops == db[k].ops
    IN /\ First(ops, Len(ops) + 1) = Registers
       /\ \A i \in DOMAIN ops :
            CASE ops[i].op = "val" -> ops[i].len \in 1..ValMaxLen /\ ops[i].val \in 1..ValMaxValue
              [] ops[i].op = "zero" -> ops[i].len \in 1..ZeroMaxLen
              [] OTHER -> ops[i].len \in 1..XzeroMaxLen
       /\ SparseLen(ops) <= SparseMax

\* hllSparseAdd asserts that a promotion changes a register.
PromotionChanges ==
  \A k \in Keys : db[k].enc = "sparse" => \A es \in Batches[k], i \in 1..2 : i \in DOMAIN es => hllSparseAdd(db[k], es[i]).ok

\* PFADD and PFMERGE take the maximum in every register and touch no other, in both
\* encodings and across promotions; and a change of the registers is propagated.
RegistersRight ==
  /\ \A k \in Keys : RegistersOf(db'[k]) # RegistersOf(db[k]) => call'.dirty
  /\ LET new == RegistersOf(db'[call'.keys[1]])
         old(i) == RegistersOf(db[call'.keys[i]])
     IN /\ call'.reply \in {"1", "0"} => new = With(old(1), call'.es) /\ (call'.dirty <=> call'.reply = "1")
        /\ call'.reply = "merged" => new = Higher(old(1), old(2))

\* A cached cardinality that is marked valid is the one of the registers.
CacheRight ==
  \A k \in Keys : (isHLLObject(db[k]) /\ db[k].valid) => db[k].card = Tally(RegistersOf(db[k]))

\* The sums over opcodes, over packed registers four at a time and over plain bytes
\* a word at a time count the same registers.
SumsAgree ==
  \A k \in Keys : isHLLObject(db[k]) =>
    /\ hllCount(db[k]) = Tally(RegistersOf(db[k]))
    /\ hllRawSum(MaxOf(<<k>>)) = Tally(RegistersOf(db[k]))
=============================================================================
