------------------------------ MODULE Ziplist ------------------------------
(***************************************************************************)
(* The ziplist of src/struct/ziplist.c: entries that follow one another in *)
(* one block of memory, each with the length of the entry before it, in    *)
(* one byte or in five, so that the list can be walked backwards.          *)
(*                                                                         *)
(* An entry is what zipEntry reads of it: the size of the field for the    *)
(* previous length, that length, and the value; a position p is the number *)
(* of an entry, or one more than the last for the end marker.  The header  *)
(* (bytes, tail, len) is kept by the arithmetic of the code and is not     *)
(* derived from the entries.  A value is an integer, wide when it does not *)
(* fit 32 bits, or a string of some length; the bytes of a string, and of  *)
(* a wide integer, which is copied whole, are not modelled.                *)
(***************************************************************************)
EXTENDS Integers, Sequences, SequencesExt

CONSTANTS
  Values,       \* records [int, wide, n]: an integer, or a string of n bytes
  MaxEntries,   \* bound on the entries of the list
  Uint16Max     \* the value of zllen that means "count them"

VARIABLES
  zl,           \* [bytes, tail, len, es]
  lost          \* the header of the last entry was overwritten

vars == <<zl, lost>>

HeaderSize == 10
BigLen == 254

----------------------------------------------------------------------------
(* Encodings.                                                              *)

\* The smallest encoding of an integer, and its bytes; 0: the value is in the encoding.
zipTryEncoding(n) ==
  CASE n \in 0..12 -> "imm"
    [] n \in (-128)..127 /\ n \notin 0..12 -> "8b"
    [] n \in (-32768)..32767 /\ n \notin (-128)..127 -> "16b"
    [] n >= -8388608 /\ n <= 8388607 /\ n \notin (-32768)..32767 -> "24b"
    [] OTHER -> "32b"
Encoding(v) == IF v.wide THEN "64b" ELSE zipTryEncoding(v.n)
zipIntSize(encoding) ==
  CASE encoding = "imm" -> 0 [] encoding = "8b" -> 1 [] encoding = "16b" -> 2
    [] encoding = "24b" -> 3 [] encoding = "32b" -> 4 [] encoding = "64b" -> 8

\* zipSaveInteger and zipLoadInteger, lowest byte first: the bytes that are kept
\* of an integer and, with the sign of the highest, the integer they are read as.
zipSaveInteger(n, size) ==
  LET rest[i \in 0..size] == IF i = 0 THEN n ELSE rest[i - 1] \div 256
  IN [i \in 1..size |-> rest[i - 1] % 256]

zipLoadInteger(bs, imm) ==
  LET val[i \in 0..Len(bs)] ==
        IF i = 0 THEN IF bs[Len(bs)] >= 128 THEN -1 ELSE 0
        ELSE val[i - 1] * 256 + bs[Len(bs) + 1 - i]
  IN IF bs = <<>> THEN imm ELSE val[Len(bs)]

\* zipEncodeLength: the bytes of the encoding and the length.
zipEncodeLength(v) == IF v.int \/ v.n <= 63 THEN 1 ELSE IF v.n <= 16383 THEN 2 ELSE 5

\* The bytes of the value, and with those of the encoding and the length.
Payload(v) == IF v.int THEN zipIntSize(Encoding(v)) ELSE v.n
Body(v) == zipEncodeLength(v) + Payload(v)

zipPrevEncodeLength_OffByOne(len) == IF len <= BigLen THEN 1 ELSE 5

\* zipPrevEncodeLength: one byte for the length, or a marker and four.
zipPrevEncodeLength(len) == IF len < BigLen THEN 1 ELSE 5

\* zipRawEntryLength.
zipRawEntryLength(e) == e.ps + Body(e.v)

\* The bytes of the entries i to j, and where entry i starts.
Span(es, i, j) ==
  LET sum[k \in (i - 1)..j] == IF k < i THEN 0 ELSE sum[k - 1] + zipRawEntryLength(es[k])
  IN IF j < i THEN 0 ELSE sum[j]
Offset(z, i) == HeaderSize + Span(z.es, 1, i - 1)

\* The entry that starts at offset off; one past the last is the end marker.
At(z, off) == CHOOSE i \in 1..(Len(z.es) + 1) : Offset(z, i) = off

----------------------------------------------------------------------------
(* Changes.                                                                *)

ziplistNew == [bytes |-> HeaderSize + 1, tail |-> HeaderSize, len |-> 0, es |-> <<>>]

\* ZIPLIST_INCR_LENGTH.
INCR_LENGTH(z, incr) == IF z.len < Uint16Max THEN [z EXCEPT !.len = @ + incr] ELSE z


\* A round of the loop of __ziplistCascadeUpdate, at entry i: the entry after it
\* is made larger and the loop goes on, or the length goes into the room there
\* is, also when that is more than it needs.
CascadeStep(z, i) ==
  LET rawlen == zipRawEntryLength(z.es[i])
      next == z.es[i + 1]
      need == zipPrevEncodeLength(rawlen)
  IN IF i >= Len(z.es) THEN [z |-> z, more |-> FALSE]
     ELSE IF next.pl = rawlen THEN [z |-> z, more |-> FALSE]
     ELSE IF next.ps < need
     THEN [z |-> [z EXCEPT !.es[i + 1].ps = need, !.es[i + 1].pl = rawlen,
                           !.bytes = @ + need - next.ps,
                           !.tail = IF @ # Offset(z, i + 1) THEN @ + need - next.ps ELSE @],
           more |-> TRUE]
     ELSE [z |-> [z EXCEPT !.es[i + 1].pl = rawlen], more |-> FALSE]

\* __ziplistCascadeUpdate from entry i on.
CascadeUpdate(z, i) ==
  LET round[k \in i..(Len(z.es) + 1)] ==
        IF k = i THEN [z |-> z, more |-> TRUE]
        ELSE IF round[k - 1].more THEN CascadeStep(round[k - 1].z, k - 1) ELSE round[k - 1]
  IN round[Len(z.es) + 1].z

\* __ziplistDelete: up to num entries from entry i on.
Delete(z, i, num) ==
  LET n == Len(z.es)
      deleted == IF num < n - i + 1 THEN num ELSE n - i + 1
      j == i + deleted
      prevlen == z.es[i].pl
      totlen == Span(z.es, i, j - 1)
      nextdiff == IF j <= n THEN zipPrevEncodeLength(prevlen) - z.es[j].ps ELSE 0
      es == [k \in 1..(n - deleted) |->
              IF k < i THEN z.es[k]
              ELSE IF k = i THEN [z.es[j] EXCEPT !.ps = zipPrevEncodeLength(prevlen), !.pl = prevlen]
              ELSE z.es[k + deleted]]
      tail == IF j > n THEN Offset(z, i) - prevlen
              ELSE z.tail - totlen + (IF j < n THEN nextdiff ELSE 0)
      d == INCR_LENGTH([z EXCEPT !.bytes = @ - totlen + nextdiff, !.tail = tail, !.es = es], -deleted)
  IN IF deleted = 0 THEN z
     ELSE IF nextdiff # 0 THEN CascadeUpdate(d, i) ELSE d

\* The bytes __ziplistInsert needs for v at i, and by how much the field for the
\* previous length of the entry that is there now changes.
PrevLen(z, i) ==
  IF i <= Len(z.es) THEN z.es[i].pl
  ELSE IF At(z, z.tail) <= Len(z.es) THEN zipRawEntryLength(z.es[At(z, z.tail)]) ELSE 0
ReqLen(z, i, v) == zipPrevEncodeLength(PrevLen(z, i)) + Body(v)
NextDiff(z, i, v) ==
  IF i <= Len(z.es) THEN zipPrevEncodeLength(ReqLen(z, i, v)) - z.es[i].ps ELSE 0

\* __ziplistInsert: v before entry i, or at the end.
Insert(z, i, v) ==
  LET n == Len(z.es)
      prevlen == PrevLen(z, i)
      reqlen == ReqLen(z, i, v)
      nextdiff == NextDiff(z, i, v)
      new == [ps |-> zipPrevEncodeLength(prevlen), pl |-> prevlen, v |-> v, torn |-> FALSE]
      es == [k \in 1..(n + 1) |->
              IF k < i THEN z.es[k]
              ELSE IF k = i THEN new
              ELSE IF k = i + 1
                   THEN [z.es[i] EXCEPT !.ps = zipPrevEncodeLength(reqlen), !.pl = reqlen]
              ELSE z.es[k - 1]]
      tail == IF i > n THEN Offset(z, i) ELSE z.tail + reqlen + (IF i < n THEN nextdiff ELSE 0)
      d == [z EXCEPT !.bytes = @ + reqlen + nextdiff, !.tail = tail, !.es = es]
  IN INCR_LENGTH(IF nextdiff # 0 THEN CascadeUpdate(d, i + 1) ELSE d, 1)

\* ziplistResize comes before the memmove: when the field for the previous length
\* shrinks by more than the new entry takes, that many bytes at the end of the last
\* entry are overwritten, by the end marker, or past the block, before they are moved.
CutBytes(z, i, v) ==
  LET grow == ReqLen(z, i, v) + NextDiff(z, i, v) IN IF grow < 0 THEN -grow ELSE 0

\* The value of the last entry is no longer what it was; its header is.
Torn(z) == [z EXCEPT !.es[Len(z.es)].torn = TRUE]

----------------------------------------------------------------------------
(* Reading.                                                                *)

\* ziplistIndex: forwards by the lengths of the entries, backwards from the tail
\* by the lengths they keep of the one before; 0 is NULL.
ziplistIndex(z, index) ==
  LET k == -index - 1
      back[j \in 0..k] ==
        IF j = 0 THEN z.tail
        ELSE IF back[j - 1] = -1 THEN -1
        ELSE LET pl == z.es[At(z, back[j - 1])].pl IN IF pl = 0 THEN -1 ELSE back[j - 1] - pl
  IN IF index >= 0 THEN IF index < Len(z.es) THEN index + 1 ELSE 0
     ELSE IF z.es = <<>> \/ back[k] = -1 THEN 0 ELSE At(z, back[k])

\* ziplistPrev and ziplistNext; 0 is NULL.
ziplistPrev(z, i) ==
  IF i > Len(z.es) THEN IF At(z, z.tail) > Len(z.es) THEN 0 ELSE At(z, z.tail)
  ELSE IF i = 1 THEN 0 ELSE At(z, Offset(z, i) - z.es[i].pl)
ziplistNext(z, i) == IF i >= Len(z.es) THEN 0 ELSE i + 1

\* ziplistLen, which counts when the field cannot tell.
ziplistLen(z) == IF z.len < Uint16Max THEN z.len ELSE Len(z.es)

\* ziplistCompare: a string is never equal to an entry that is an integer.
ziplistCompare(z, i, v) == i <= Len(z.es) /\ z.es[i].v = v /\ ~z.es[i].torn

\* ziplistFind from entry i on, skipping skip entries after each comparison.
ziplistFind(z, i, v, skip) ==
  LET hits == {j \in i..Len(z.es) : (j - i) % (skip + 1) = 0 /\ ziplistCompare(z, j, v)}
  IN IF hits = {} THEN 0 ELSE CHOOSE j \in hits : \A h \in hits : j <= h

----------------------------------------------------------------------------

Init == zl = ziplistNew /\ lost = FALSE

\* ziplistInsert, and ziplistPush at the head or at the end.  When the bytes that are
\* cut off are not only of the value, what is in the last entry is undefined, and the
\* behaviour ends.
DoInsert(i, v) ==
  /\ ~lost /\ Len(zl.es) < MaxEntries /\ i \in 1..(Len(zl.es) + 1)
  /\ lost' = (CutBytes(zl, i, v) > 0 /\ Payload(Last(zl.es).v) < CutBytes(zl, i, v))
  /\ zl' = CASE lost' -> zl
             [] ~lost' /\ CutBytes(zl, i, v) > 0 -> Torn(Insert(zl, i, v))
             [] OTHER -> Insert(zl, i, v)

\* ziplistDelete.
DoDelete(i) ==
  /\ ~lost /\ i \in 1..Len(zl.es)
  /\ zl' = Delete(zl, i, 1)
  /\ UNCHANGED lost

\* ziplistDeleteRange.
DoDeleteRange(index, num) ==
  LET i == ziplistIndex(zl, index)
  IN /\ ~lost
     /\ zl' = IF i = 0 THEN zl ELSE Delete(zl, i, num)
     /\ UNCHANGED lost

\* ziplistLen writes the length back once it can be written.
DoLen ==
  /\ ~lost
  /\ zl' = IF ziplistLen(zl) < Uint16Max THEN [zl EXCEPT !.len = ziplistLen(zl)] ELSE zl
  /\ UNCHANGED lost

Next ==
  \/ \E i \in 1..MaxEntries, v \in Values : DoInsert(i, v)
  \/ \E i \in 1..MaxEntries : DoDelete(i)
  \/ \E i \in (-MaxEntries)..MaxEntries, num \in 0..MaxEntries : DoDeleteRange(i, num)
  \/ DoLen

Spec == Init /\ [][Next]_vars

----------------------------------------------------------------------------

\* The header describes the entries: bytes is the size of the block, tail where
\* the last entry starts, and every entry has the length of the one before it in
\* a field that is large enough, whatever cascades went through the list, and also
\* after an insertion that cut bytes off the last value.
WellFormed ==
  LET n == Len(zl.es)
  IN /\ zl.bytes = Offset(zl, n + 1) + 1
     /\ zl.tail = IF n = 0 THEN HeaderSize ELSE Offset(zl, n)
     /\ \A i \in 1..n : LET before == IF i = 1 THEN 0 ELSE zipRawEntryLength(zl.es[i - 1])
                        IN zl.es[i].pl = before /\ (before >= 254 => zl.es[i].ps = 5)

\* ziplistLen is the number of entries, also after the field was at its maximum.
LengthRight == ziplistLen(zl) = Len(zl.es)

\* An integer of up to 32 bits is read back from its bytes as it was written, at the
\* ends of the range of every encoding.
IntegersKept ==
  \A n \in {0, 12, 13, -1, -128, 127, -129, 128, -32768, 32767, -32769, 32768, -8388608, 8388607,
            -8388609, 8388608, -2147483647 - 1, 2147483647} :
    zipLoadInteger(zipSaveInteger(n, zipIntSize(zipTryEncoding(n))), n) = n

\* No value in the list is changed by the insertion of another.  It does not hold: a
\* short entry inserted between a long one and one whose field for the previous length
\* was never shrunk makes the block smaller before its end is moved (ziplist.c:1080).
ValuesKept == ~lost /\ \A i \in 1..Len(zl.es) : ~zl.es[i].torn
=============================================================================
