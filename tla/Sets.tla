-------------------------------- MODULE Sets --------------------------------
(***************************************************************************)
(* Sets (src/struct/t_set.c) in their two encodings, a hash table and the  *)
(* intset of src/struct/intset.c: integers in order in one block, all in   *)
(* the width that the widest of them needs.                                *)
(*                                                                         *)
(* A cell of the block is a byte of an integer, <<v, k>> for byte k of v;  *)
(* cells that do not belong together are read as Mixed.  The limits of     *)
(* the widths of 2 and 4 bytes are constants, so that small integers need  *)
(* all widths.  A member that is no integer is greater than all of them.   *)
(***************************************************************************)
EXTENDS Integers, Sequences, SequencesExt, FiniteSetsExt

CONSTANTS
  Keys,
  Ints, Strings,   \* the members: integers, and names of strings
  Max16, Max32,    \* INT16_MAX, INT32_MAX
  MaxEntries,      \* set_max_intset_entries
  UintMod          \* UINT_MAX + 1

VARIABLES
  db,              \* key -> [enc, is, ht]
  call             \* the last command: [prop: as it is propagated, keys: those signalled as
                   \* modified, dirty: server.dirty was increased]

vars == <<db, call>>

Elements == Ints \cup Strings
Mixed == Max32 * 1000

----------------------------------------------------------------------------
(* The intset.                                                             *)

\* _intsetValueEncoding, with the widths of 2, 4 and 8 bytes.
ValueEncoding(v) ==
  CASE v < -Max32 - 1 \/ v > Max32 -> 8
    [] v < -Max16 - 1 \/ v > Max16 -> 4
    [] OTHER -> 2

\* _intsetGetEncoded, at a position from 0 on; _intsetSet.
GetEncoded(mem, pos, enc) ==
  LET v == mem[pos * enc + 1][1]
  IN IF \A k \in 1..enc : mem[pos * enc + k] = <<v, k>> THEN v ELSE Mixed
Get(is, pos) == GetEncoded(is.mem, pos, is.enc)
Set(mem, pos, enc, v) ==
  [i \in DOMAIN mem |-> IF i \in (pos * enc + 1)..(pos * enc + enc) THEN <<v, i - pos * enc>> ELSE mem[i]]

intsetNew == [enc |-> 2, len |-> 0, mem |-> <<>>]

\* intsetResize.
Resize(mem, size) == [i \in 1..size |-> IF i <= Len(mem) THEN mem[i] ELSE <<Mixed, 0>>]

\* intsetSearch: the value is there, and the position where it is or belongs.
intsetSearch(is, v) ==
  LET search[fuel \in 0..is.len, min \in 0..is.len, max \in (-1)..(is.len - 1)] ==
        LET mid == (min + max) \div 2
            cur == Get(is, mid)
        IN IF max < min THEN <<FALSE, min>>
           ELSE IF v > cur THEN search[fuel - 1, mid + 1, max]
           ELSE IF v < cur THEN search[fuel - 1, min, mid - 1]
           ELSE <<TRUE, mid>>
  IN IF is.len = 0 THEN <<FALSE, 0>>
     ELSE IF v > Get(is, is.len - 1) THEN <<FALSE, is.len>>
     ELSE IF v < Get(is, 0) THEN <<FALSE, 0>>
     ELSE search[is.len, 0, is.len - 1]

\* intsetUpgradeAndAdd: the wider integers are written from back to front over
\* the narrower ones.
UpgradeAndAdd(is, v) ==
  LET enc == ValueEncoding(v)
      prepend == IF v < 0 THEN 1 ELSE 0
      moved[i \in 0..is.len] ==
        IF i = 0 THEN Resize(is.mem, (is.len + 1) * enc)
        ELSE LET length == is.len - i
             IN Set(moved[i - 1], length + prepend, enc, GetEncoded(moved[i - 1], length, is.enc))
  IN [enc |-> enc, len |-> is.len + 1,
      mem |-> Set(moved[is.len], IF prepend = 1 THEN 0 ELSE is.len, enc, v)]

\* intsetMoveTail: memmove of the integers from from to the end.
MoveTail(is, mem, from, to) ==
  LET n == (is.len - from) * is.enc
  IN [i \in DOMAIN mem |->
       LET k == i - to * is.enc IN IF k \in 1..n THEN mem[from * is.enc + k] ELSE mem[i]]

\* intsetAdd and intsetRemove.
intsetAdd(is, v) ==
  IF ValueEncoding(v) > is.enc THEN UpgradeAndAdd(is, v)
  ELSE LET s == intsetSearch(is, v)
           mem == Resize(is.mem, (is.len + 1) * is.enc)
           moved == IF s[2] < is.len THEN MoveTail(is, mem, s[2], s[2] + 1) ELSE mem
       IN IF s[1] THEN is
          ELSE [is EXCEPT !.mem = Set(moved, s[2], is.enc, v), !.len = @ + 1]

intsetRemove(is, v) ==
  LET s == intsetSearch(is, v)
      moved == IF s[2] < is.len - 1 THEN MoveTail(is, is.mem, s[2] + 1, s[2]) ELSE is.mem
  IN IF ValueEncoding(v) <= is.enc /\ s[1]
     THEN [is EXCEPT !.mem = Resize(moved, (is.len - 1) * is.enc), !.len = @ - 1] ELSE is

intsetFind(is, v) == ValueEncoding(v) <= is.enc /\ intsetSearch(is, v)[1]

----------------------------------------------------------------------------
(* The set object.                                                         *)

NoKey == [enc |-> "none", is |-> intsetNew, ht |-> {}]

setTypeCreate(v) == [NoKey EXCEPT !.enc = IF v \in Ints THEN "intset" ELSE "ht"]

\* setTypeInitIterator and setTypeNext: the members, in the order of an intset.
Contents(o) ==
  IF o.enc = "intset" THEN [i \in 1..o.is.len |-> Get(o.is, i - 1)] ELSE SetToSeq(o.ht)

setTypeSize(o) == IF o.enc = "intset" THEN o.is.len ELSE Cardinality(o.ht)

setTypeIsMember(o, v) ==
  IF o.enc = "intset" THEN v \in Ints /\ intsetFind(o.is, v) ELSE v \in o.ht

\* setTypeConvert, to a hash table.
setTypeConvert(o) == [enc |-> "ht", is |-> intsetNew, ht |-> ToSet(Contents(o))]

setTypeAdd(o, v) ==
  IF o.enc = "ht" THEN [o EXCEPT !.ht = @ \cup {v}]
  ELSE IF v \in Ints
  THEN LET is == intsetAdd(o.is, v)
           n == [o EXCEPT !.is = is]
       IN IF is # o.is /\ is.len > MaxEntries THEN setTypeConvert(n) ELSE n
  ELSE LET c == setTypeConvert(o) IN [c EXCEPT !.ht = @ \cup {v}]

setTypeRemove(o, v) ==
  IF o.enc = "ht" THEN [o EXCEPT !.ht = @ \ {v}]
  ELSE IF v \in Ints THEN [o EXCEPT !.is = intsetRemove(@, v)] ELSE o

\* dbDelete when the last member is gone.
OrDelete(o) == IF setTypeSize(o) = 0 THEN NoKey ELSE o

AddAll(o, vs) ==
  LET add[i \in 0..Len(vs)] == IF i = 0 THEN o ELSE setTypeAdd(add[i - 1], vs[i])
  IN add[Len(vs)]
RemoveAll(o, vs) ==
  LET rem[i \in 0..Len(vs)] == IF i = 0 THEN o ELSE setTypeRemove(rem[i - 1], vs[i])
  IN rem[Len(vs)]

----------------------------------------------------------------------------
(* Commands.                                                               *)

\* The keys for which signalModifiedKey is called; with one, the command is dirty.
Done(prop, d, keys) == db' = d /\ call' = [prop |-> prop, keys |-> keys, dirty |-> keys # {}]

saddCommand(k, vs) ==
  LET o == AddAll(IF db[k] = NoKey THEN setTypeCreate(vs[1]) ELSE db[k], vs)
      added == setTypeSize(o) - setTypeSize(db[k])
  IN Done([name |-> "sadd", key |-> k, members |-> ToSet(vs)],
          [db EXCEPT ![k] = o], IF added > 0 THEN {k} ELSE {})

sremCommand(k, vs) ==
  LET o == RemoveAll(db[k], vs)
      deleted == setTypeSize(db[k]) - setTypeSize(o)
  IN /\ db[k] # NoKey
     /\ Done([name |-> "srem", key |-> k, members |-> ToSet(vs)],
             [db EXCEPT ![k] = OrDelete(o)], IF deleted > 0 THEN {k} ELSE {})

\* smoveCommand: a member that is moved is removed before it is added.
smoveCommand(src, dst, v) ==
  LET o == setTypeRemove(db[src], v)
      cmd == [name |-> "smove", src |-> src, dst |-> dst, member |-> v]
      d == setTypeAdd(IF db[dst] = NoKey THEN setTypeCreate(v) ELSE db[dst], v)
  IN /\ db[src] # NoKey
     /\ IF src = dst \/ o = db[src] THEN Done(cmd, db, {})
        ELSE Done(cmd, [db EXCEPT ![src] = OrDelete(o), ![dst] = d], {src, dst})

\* spopCommand: a random member; what is propagated is an SREM of it.
spopCommand(k) ==
  \E i \in DOMAIN Contents(db[k]) :
    LET v == Contents(db[k])[i]
    IN Done([name |-> "srem", key |-> k, members |-> {v}],
            [db EXCEPT ![k] = OrDelete(setTypeRemove(@, v))], {k})

\* The sets of sinterGenericCommand, from the smallest on, one of several of the
\* same size in any order; those of sunionDiffGenericCommand, a missing key as Null.
Missing == "missing"
Obj(k) == IF k = Missing THEN NoKey ELSE db[k]

InterOf(sets) ==
  SelectSeq(Contents(sets[1]),
            LAMBDA v : \A j \in 2..Len(sets) : sets[j] = sets[1] \/ setTypeIsMember(sets[j], v))

\* sunionDiffGenericCommand: for a difference, the algorithm with less work.
DiffAlgo(sets) ==
  LET one == setTypeSize(sets[1]) * Cardinality({j \in DOMAIN sets : sets[j] # NoKey})
      two[j \in 0..Len(sets)] == IF j = 0 THEN 0 ELSE two[j - 1] + setTypeSize(sets[j])
  IN IF one \div 2 <= two[Len(sets)] THEN 1 ELSE 2

\* Algorithm 1 asks every other set; algorithm 2 removes the members of the others
\* from a copy of the first, until it is empty.
DiffOne(sets) ==
  AddAll([NoKey EXCEPT !.enc = "intset"],
         SelectSeq(Contents(sets[1]),
                   LAMBDA v : \A j \in 2..Len(sets) :
                                sets[j] = NoKey \/ (sets[j] # sets[1] /\ ~setTypeIsMember(sets[j], v))))
DiffTwo(sets) ==
  LET round[j \in 1..Len(sets)] ==
        IF j = 1 THEN AddAll([NoKey EXCEPT !.enc = "intset"], Contents(sets[1]))
        ELSE IF setTypeSize(round[j - 1]) = 0 THEN round[j - 1]
        ELSE RemoveAll(round[j - 1], Contents(sets[j]))
  IN round[Len(sets)]
DiffOf(sets) ==
  CASE sets[1] = NoKey -> [NoKey EXCEPT !.enc = "intset"]
    [] sets[1] # NoKey /\ DiffAlgo(sets) = 1 -> DiffOne(sets)
    [] OTHER -> DiffTwo(sets)

UnionOf(sets) ==
  LET add[j \in 0..Len(sets)] ==
        IF j = 0 THEN [NoKey EXCEPT !.enc = "intset"] ELSE AddAll(add[j - 1], Contents(sets[j]))
  IN add[Len(sets)]

\* sinterGenericCommand with a destination: without one of the sets there is
\* nothing to store, and what was at the destination is deleted.
sinterstoreCommand(dst, keys) ==
  LET sets == [i \in DOMAIN keys |-> Obj(keys[i])]
      o == AddAll([NoKey EXCEPT !.enc = "intset"], InterOf(sets))
      cmd == [name |-> "store", op |-> "inter", dst |-> dst, keys |-> keys]
  IN /\ \A i \in 1..(Len(sets) - 1) : setTypeSize(sets[i]) <= setTypeSize(sets[i + 1])
     /\ IF NoKey \in ToSet(sets)
        THEN Done(cmd, [db EXCEPT ![dst] = NoKey], IF db[dst] # NoKey THEN {dst} ELSE {})
        ELSE Done(cmd, [db EXCEPT ![dst] = OrDelete(o)], {dst})

\* sunionDiffGenericCommand with a destination.
sunionDiffstoreCommand(op, dst, keys) ==
  LET sets == [i \in DOMAIN keys |-> Obj(keys[i])]
      o == IF op = "union" THEN UnionOf(sets) ELSE DiffOf(sets)
  IN Done([name |-> "store", op |-> op, dst |-> dst, keys |-> keys],
          [db EXCEPT ![dst] = OrDelete(o)], {dst})

\* srandmemberWithCountCommand: the sets of members it can answer with, for a
\* count that is not negative, of which an unsigned int is kept.
srandmember(o, l) ==
  LET count == l % UintMod
      all == ToSet(Contents(o))
      size == setTypeSize(o)
  IN CASE count = 0 -> {{}}
       [] count > 0 /\ count >= size -> {ToSet(Contents(UnionOf(<<o>>)))}
       [] count > 0 /\ count < size /\ count * 3 > size -> {all \ S : S \in kSubset(size - count, all)}
       [] OTHER -> kSubset(count, all)

Init == db = [k \in Keys |-> NoKey] /\ call = [prop |-> [name |-> "none"], keys |-> {}, dirty |-> FALSE]

Next ==
  \/ \E k \in Keys, v, w \in Elements : saddCommand(k, <<v, w>>) \/ sremCommand(k, <<v, w>>)
  \/ \E k, l \in Keys, v \in Elements : smoveCommand(k, l, v)
  \/ \E k \in Keys : spopCommand(k)
  \/ \E dst \in Keys, a, b \in Keys \cup {Missing} :
       \/ sinterstoreCommand(dst, <<a, b>>)
       \/ \E op \in {"union", "diff"} : sunionDiffstoreCommand(op, dst, <<a, b>>)

----------------------------------------------------------------------------
(* Properties.                                                             *)

\* The integers of an intset are in order, each once and whole, in a width that
\* holds them all; the search finds those there and the place of the others; and
\* an intset is within the configured limit, a set without members not kept.
IntsetRight ==
  \A k \in Keys :
    LET o == db[k]
        in == ToSet(Contents(o))
    IN /\ o.enc = "intset" =>
            /\ Len(o.is.mem) = o.is.len * o.is.enc /\ o.is.len <= MaxEntries
            /\ \A i \in 1..(o.is.len - 1) : Contents(o)[i] < Contents(o)[i + 1]
            /\ in \subseteq Ints
            /\ \A v \in Ints : intsetFind(o.is, v) <=> v \in in
       /\ (setTypeSize(o) = 0) <=> (o = NoKey)

\* In both encodings the commands do to the sets what set theory says that the
\* commands as they are propagated do, which for SPOP is an SREM.
SS == INSTANCE SetsSpec WITH set <- [k \in Keys |-> ToSet(Contents(db[k]))], cmd <- call.prop
SetsImplement == SS!Spec

\* Both algorithms for a difference give the same answer, for three sets too, and
\* a random choice of members has the size that was asked for, or all members there
\* are; of a count of UintMod or more the remainder is asked for (t_set.c:433).
AlgorithmsAgree ==
  \A a, b, c \in Keys \cup {Missing} :
    LET sets == <<Obj(a), Obj(b), Obj(c)>>
        in == [i \in 1..3 |-> ToSet(Contents(sets[i]))]
    IN /\ sets[1] # NoKey =>
            /\ ToSet(Contents(DiffOne(sets))) = in[1] \ (in[2] \cup in[3])
            /\ ToSet(Contents(DiffTwo(sets))) = in[1] \ (in[2] \cup in[3])
       /\ \A n \in 0..(UintMod + 1) :
            LET m == IF n % UintMod > Cardinality(in[1]) THEN Cardinality(in[1]) ELSE n % UintMod
            IN srandmember(sets[1], n) = {S \in SUBSET in[1] : Cardinality(S) = m}

\* A command that changes a set signals its key as modified, and counts as dirty.
SetChangesSignalled ==
  \A k \in Keys : ToSet(Contents(db'[k])) # ToSet(Contents(db[k])) =>
    k \in call'.keys /\ call'.dirty
=============================================================================
