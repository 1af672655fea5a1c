------------------------------- MODULE Bitops -------------------------------
(***************************************************************************)
(* Bits and ranges of strings: SETBIT, GETBIT, BITOP, BITCOUNT, BITPOS     *)
(* (tool/bitops.c) and GETRANGE (struct/t_string.c).  Strings are          *)
(* sequences of bytes; a key that is not there is Nil, one that is no      *)
(* string Wrong.  The functions that go through a string a word or a block *)
(* at a time are compared with what they compute, bit by bit.              *)
(***************************************************************************)
EXTENDS Integers, Sequences, FiniteSets, FiniteSetsExt

CONSTANTS
  Keys, Nil, Wrong,
  Word,           \* sizeof(unsigned long)
  Block,          \* bytes redisPopcount and the fast path of BITOP do at once
  Strs,           \* values that SET gives to keys
  BitOffsets,     \* of SETBIT
  Indexes,        \* arguments of GETRANGE, BITCOUNT and BITPOS
  MaxLength       \* 512MB

VARIABLES
  strs,           \* key -> string, Nil or Wrong
  call            \* [name, args, reply]

vars == <<strs, call>>

\* The bit at a position, the first one of a byte being its most significant; beyond
\* the string all are zero.
Bit(s, i) == IF i \div 8 < Len(s) THEN (s[i \div 8 + 1] \div 2^(7 - (i % 8))) % 2 ELSE 0

----------------------------------------------------------------------------
(* Ranges: negative indexes are from the end.  The first and last byte,    *)
(* from 0, or nothing if first > last.                                     *)

Clip(start, end, len) ==
  LET s == Max({0, IF start < 0 THEN len + start ELSE start})
      e == Max({0, IF end < 0 THEN len + end ELSE end})
  IN [first |-> s, last |-> IF e >= len THEN len - 1 ELSE e]

getrangeCommand(s, start, end) ==
  LET r == Clip(start, end, Len(s))
  IN IF r.first > r.last \/ Len(s) = 0 THEN <<>> ELSE [i \in 1..(r.last - r.first + 1) |-> s[r.first + i]]

----------------------------------------------------------------------------

\* The bits of a byte as the words of redisPopcount have them counted, in pairs of
\* bits, then of counts: none of these sums carries into the next byte.
Parallel(x) ==
  LET Pair(k) == LET two == (x \div 4^k) % 4 IN two - two \div 2
      Nibble(k) == (Pair(2 * k) + Pair(2 * k + 1)) % 16
  IN (Nibble(0) + Nibble(1)) % 16

\* redisPopcount of `count' bytes from byte p on, at an address that is `p + a' up to
\* a multiple of 4: the bytes before an aligned one, by a table; blocks, the counts of
\* whose bytes are summed up in one byte by a multiplication; and the rest.
redisPopcount(s, p, count, a) ==
  LET bitsinbyte(i) == Cardinality({b \in 0..7 : Bit(s, 8 * i + b) = 1})
      head == Min({count, (4 - ((p + a) % 4)) % 4})
      blocks == (count - head) \div Block
      InBlock(i) == i >= p + head /\ i < p + head + blocks * Block
      block[j \in 0..Block, n \in 0..blocks] ==
        IF j = 0 THEN 0 ELSE (block[j - 1, n] + Parallel(s[p + head + n * Block + j])) % 256
      bits[i \in p..(p + count)] ==
        IF i = p THEN 0
        ELSE IF ~InBlock(i - 1) THEN bits[i - 1] + bitsinbyte(i - 1)
        ELSE IF (i - p - head) % Block = 0
        THEN bits[i - Block] + block[Block, (i - p - head) \div Block - 1] ELSE 0
  IN bits[p + count]

redisBitpos_NoTail(s, p, count, bit, a) ==
  LET skip == IF bit = 1 THEN 0 ELSE 255
      stop == {i \in p..(p + count) : i = p + count \/ s[i + 1] # skip}
      i == Min(stop)
  IN IF bit = 1 /\ i = p + count THEN -1
     ELSE 8 * (i - p) + Min({b \in 0..8 : b = 8 \/ Bit(s, 8 * i + b) = bit})

\* redisBitpos: bytes up to an aligned one, then words, are skipped while all their bits
\* are the other ones; the word that follows is padded with zeros and searched.
redisBitpos(s, p, count, bit, a) ==
  LET skip == IF bit = 1 THEN 0 ELSE 255
      Skipped(i, n) == \A j \in i..(i + n - 1) : s[j + 1] = skip
      end == p + count
      bytes[i \in p..end] ==
        IF (i + a) % Word # 0 /\ i < end /\ Skipped(i, 1) THEN bytes[i + 1] ELSE i
      words[i \in p..end] == IF end - i >= Word /\ Skipped(i, Word) THEN words[i + Word] ELSE i
      w == words[bytes[p]]
      at(b) == IF w + b \div 8 < end THEN Bit(s, 8 * w + b) ELSE 0
      found == {b \in 0..(8 * Word - 1) : at(b) = bit}
  IN IF bit = 1 /\ found = {} THEN -1 ELSE 8 * (w - p) + Min(found)

----------------------------------------------------------------------------

ByteOf(f) == LET v[b \in 0..8] == IF b = 0 THEN 0 ELSE 2 * v[b - 1] + f[b - 1] IN v[8]
Op(op, x, y) ==
  CASE op = "and" -> x * y
    [] op = "or" -> IF x + y > 0 THEN 1 ELSE 0
    [] op = "xor" -> (x + y) % 2
ByteOp(op, x, y) == ByteOf([b \in 0..7 |-> Op(op, Bit(<<x>>, b), Bit(<<y>>, b))])

\* minlen as the loop over the sources leaves it: a missing one makes it 0 for good.
MinLen(srcs) ==
  LET m[j \in 0..Len(srcs)] ==
        IF j = 0 \/ srcs[j] = Nil THEN 0
        ELSE IF j = 1 \/ Len(srcs[j]) < m[j - 1] THEN Len(srcs[j]) ELSE m[j - 1]
  IN m[Len(srcs)]

\* The result of BITOP: blocks that all sources have, then byte by byte with zeros for
\* what a source does not have.
bitop(op, srcs) ==
  LET len(i) == IF srcs[i] = Nil THEN 0 ELSE Len(srcs[i])
      maxlen == Max({len(i) : i \in DOMAIN srcs})
      fast == IF Len(srcs) <= 16 THEN (MinLen(srcs) \div Block) * Block ELSE 0
      Byte(i, j) == IF j > fast /\ j > len(i) THEN 0 ELSE srcs[i][j]
      Fold(j) == LET r[i \in 1..Len(srcs)] ==
                       IF i > 1 THEN ByteOp(op, r[i - 1], Byte(i, j))
                       ELSE IF op = "not" THEN 255 - Byte(1, j) ELSE Byte(1, j)
                 IN r[Len(srcs)]
  IN [j \in 1..maxlen |-> Fold(j)]

----------------------------------------------------------------------------
(* Commands                                                                *)

Says(name, args, reply) == call' = [name |-> name, args |-> args, reply |-> reply]

setCommand(k, v) == strs' = [strs EXCEPT ![k] = v] /\ Says("set", <<k>>, 0)

setbitCommand(k, offset, on) ==
  LET old == IF strs[k] = Nil THEN <<>> ELSE strs[k]
      byte == offset \div 8
      grown == [i \in 1..Max({Len(old), byte + 1}) |-> IF i <= Len(old) THEN old[i] ELSE 0]
      bit == 7 - (offset % 8)
      bitval == (grown[byte + 1] \div 2^bit) % 2
  IN /\ byte < MaxLength /\ strs[k] # Wrong
     /\ strs' = [strs EXCEPT ![k] = [grown EXCEPT ![byte + 1] = @ + (on - bitval) * 2^bit]]
     /\ Says("setbit", <<k, offset, on>>, bitval)

bitopCommand(op, target, ks) ==
  LET srcs == [i \in DOMAIN ks |-> strs[ks[i]]]
      res == bitop(op, srcs)
  IN /\ \A i \in DOMAIN ks : strs[ks[i]] # Wrong
     /\ op = "not" => Len(ks) = 1
     /\ strs' = [strs EXCEPT ![target] = IF Len(res) > 0 THEN res ELSE Nil]
     /\ Says("bitop", <<op, target, ks>>, Len(res))

bitcountCommand(s, start, end, a) ==
  LET r == Clip(start, end, Len(s))
  IN IF r.first > r.last THEN 0 ELSE redisPopcount(s, r.first, r.last - r.first + 1, a)

\* BITPOS of a key that is there; `given' if the end of the range is.
bitposCommand(s, bit, start, end, given, a) ==
  LET r == Clip(start, IF given THEN end ELSE Len(s) - 1, Len(s))
      bytes == r.last - r.first + 1
      pos == redisBitpos(s, r.first, bytes, bit, a)
  IN IF r.first > r.last THEN -1
     ELSE IF given /\ bit = 0 /\ pos = bytes * 8 THEN -1
     ELSE IF pos = -1 THEN -1 ELSE pos + r.first * 8

Init == strs = [k \in Keys |-> Nil] /\ call = [name |-> "none", args |-> <<>>, reply |-> 0]

Next ==
  \/ \E k \in Keys : \/ \E v \in Strs \cup {Nil, Wrong} : setCommand(k, v)
                     \/ \E o \in BitOffsets, on \in {0, 1} : setbitCommand(k, o, on)
  \/ \E op \in {"and", "or", "xor", "not"}, t \in Keys :
       \/ \E k \in Keys : bitopCommand(op, t, <<k>>)
       \/ \E k1, k2 \in Keys : bitopCommand(op, t, <<k1, k2>>)

Spec == Init /\ [][Next]_vars

----------------------------------------------------------------------------
(* Properties.  Those with primes are about every step.                    *)

Texts == {strs[k] : k \in Keys} \ {Nil, Wrong}

\* GETRANGE and BITCOUNT see the bytes from `start' to `end', counted from the end if
\* negative, that the string has.  (If both are before its beginning they see the
\* first byte, as Clip is written.)
RangesRight ==
  \A s \in Texts, x, y \in Indexes :
    LET from == IF x < 0 THEN Len(s) + x ELSE x
        to == Max({0, IF y < 0 THEN Len(s) + y ELSE y})
        inside == {i \in DOMAIN s : i - 1 >= from /\ i - 1 <= to}
        ones == {i \in 0..(8 * Len(s) - 1) : Bit(s, i) = 1 /\ i \div 8 + 1 \in inside}
    IN /\ getrangeCommand(s, x, y) = IF inside = {} THEN <<>> ELSE [i \in 1..Cardinality(inside) |-> s[Min(inside) + i - 1]]
       /\ \A a \in 0..3 : bitcountCommand(s, x, y, a) = Cardinality(ones)

\* BITPOS finds the first such bit of the range, whatever the alignment of the string.
\* A clear one is also found just after the string if no end is given; in a range with
\* an end there may be none.
BitposRight ==
  \A s \in Texts, x, y \in Indexes, bit \in {0, 1}, given \in BOOLEAN, a \in 0..(Word - 1) :
    LET r == Clip(x, IF given THEN y ELSE Len(s) - 1, Len(s))
        in == {i \in (8 * r.first)..(8 * r.last + 7) : Bit(s, i) = bit}
    IN bitposCommand(s, bit, x, y, given, a) =
         IF r.first > r.last THEN -1
         ELSE IF in # {} THEN Min(in)
         ELSE IF bit = 0 /\ ~given THEN 8 * Len(s) ELSE -1

\* BITOP computes every bit from the bits at its position, zero where a source has
\* none, over the length of the longest source; SETBIT changes one bit.
BitsRight ==
  /\ call'.name = "bitop" =>
       LET op == call'.args[1]
           ks == call'.args[3]
           src(i) == IF strs[ks[i]] = Nil THEN <<>> ELSE strs[ks[i]]
           res == IF strs'[call'.args[2]] = Nil THEN <<>> ELSE strs'[call'.args[2]]
           longest == Max({Len(src(i)) : i \in DOMAIN ks})
       IN /\ Len(res) = longest
          /\ \A b \in 0..(8 * longest - 1) :
               LET ones == Cardinality({i \in DOMAIN ks : Bit(src(i), b) = 1})
               IN Bit(res, b) = 1 <=> CASE op = "and" -> ones = Len(ks)
                                        [] op = "or" -> ones > 0
                                        [] op = "xor" -> ones % 2 = 1
                                        [] op = "not" -> ones = 0
  /\ call'.name = "setbit" =>
       LET k == call'.args[1]
           old == IF strs[k] = Nil THEN <<>> ELSE strs[k]
       IN \A b \in 0..(8 * Len(strs'[k]) - 1) :
            Bit(strs'[k], b) = IF b = call'.args[2] THEN call'.args[3] ELSE Bit(old, b)
=============================================================================
