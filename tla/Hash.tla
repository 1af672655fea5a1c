-------------------------------- MODULE Hash --------------------------------
(***************************************************************************)
(* Hashes (src/struct/t_hash.c) in their two encodings: a ziplist in which *)
(* each field is followed by its value, and a dict.  Fields and values are *)
(* strings, here integers: those up to IntMax are read as such by HINCRBY, *)
(* the others are floats, or Long: no numbers, and too long for a ziplist. *)
(***************************************************************************)
EXTENDS Integers, Sequences, SequencesExt, FiniteSetsExt

CONSTANTS
  Fields, Values, Incrs,
  Long,          \* strings that are no numbers, longer than hash_max_ziplist_value
  IntMax,        \* LLONG_MAX; LLONG_MIN is -IntMax - 1
  Inexact,       \* what a sum of floats is off by when it is rounded
  MaxEntries     \* hash_max_ziplist_entries

VARIABLES
  hobj,          \* the object at the key: [enc, zl, ht]; history: unchecked, the long
                 \* fields that HINCRBY and HINCRBYFLOAT added to a ziplist
  call           \* the last command: [prop: as it is propagated, touched, dirty]

vars == <<hobj, call>>

NoKey == [enc |-> "none", zl |-> <<>>, ht |-> [f \in {} |-> 0], unchecked |-> {}]

IsInt(v) == v >= -IntMax - 1 /\ v <= IntMax

----------------------------------------------------------------------------

\* ziplistFind from the head, skipping the values; 0 if the field is not there.
ziplistFind(zl, f) ==
  LET at == SelectInSeq([i \in 1..(Len(zl) \div 2) |-> zl[2 * i - 1]], LAMBDA s : s = f)
  IN IF at = 0 THEN 0 ELSE 2 * at - 1

\* hashTypeExists, hashTypeGetObject.
hashTypeExists(o, f) == IF o.enc = "ht" THEN f \in DOMAIN o.ht ELSE ziplistFind(o.zl, f) # 0
hashTypeGetObject(o, f) == IF o.enc = "ht" THEN o.ht[f] ELSE o.zl[ziplistFind(o.zl, f) + 1]

hashTypeLength(o) == IF o.enc = "ht" THEN Cardinality(DOMAIN o.ht) ELSE Len(o.zl) \div 2

\* The iterator: all pairs.
Pairs(o) ==
  IF o.enc = "ht" THEN {<<f, o.ht[f]>> : f \in DOMAIN o.ht}
  ELSE {<<o.zl[2 * i - 1], o.zl[2 * i]>> : i \in 1..(Len(o.zl) \div 2)}

\* hashTypeConvertZiplist, which asserts that no field is there twice.
NoDups(o) == \A p, q \in Pairs(o) : p[1] = q[1] => p = q
hashTypeConvert(o) ==
  [enc |-> "ht", zl |-> <<>>, unchecked |-> {},
   ht |-> [f \in {p[1] : p \in Pairs(o)} |-> (CHOOSE p \in Pairs(o) : p[1] = f)[2]]]

\* hashTypeTryConversion, with the strings of the command.
hashTypeTryConversion(o, strings) ==
  IF o.enc = "ziplist" /\ strings \cap Long # {} THEN hashTypeConvert(o) ELSE o

hashTypeSet(o, f, v) ==
  LET at == ziplistFind(o.zl, f)
      zl == IF at # 0 THEN [o.zl EXCEPT ![at + 1] = v] ELSE o.zl \o <<f, v>>
      n == [o EXCEPT !.zl = zl]
  IN IF o.enc = "ht" THEN [o EXCEPT !.ht = [x \in DOMAIN @ \cup {f} |-> IF x = f THEN v ELSE @[x]]]
     ELSE IF hashTypeLength(n) > MaxEntries THEN hashTypeConvert(n) ELSE n

hashTypeDelete(o, f) ==
  LET at == ziplistFind(o.zl, f)
  IN IF o.enc = "ht" THEN [o EXCEPT !.ht = [x \in DOMAIN @ \ {f} |-> @[x]]]
     ELSE IF at = 0 THEN o
     ELSE [o EXCEPT !.zl = SubSeq(@, 1, at - 1) \o SubSeq(@, at + 2, Len(@)), !.unchecked = @ \ {f}]

\* hashTypeSet by a command that does not call hashTypeTryConversion.
SetUnchecked(o, f, v) ==
  LET n == hashTypeSet(o, f, v)
  IN [n EXCEPT !.unchecked = IF n.enc = "ziplist" THEN @ \cup ({f} \cap Long) ELSE @]

hashTypeLookupWriteOrCreate == IF hobj = NoKey THEN [NoKey EXCEPT !.enc = "ziplist"] ELSE hobj

----------------------------------------------------------------------------
(* Commands.                                                               *)

Done(prop, o, changed) ==
  hobj' = o /\ call' = [prop |-> prop, touched |-> changed, dirty |-> changed]

\* hsetCommand with one pair and hmsetCommand.
hmsetCommand(ps) ==
  LET o == hashTypeTryConversion(hashTypeLookupWriteOrCreate, UNION {{ps[i][1], ps[i][2]} : i \in DOMAIN ps})
      set[i \in 0..Len(ps)] == IF i = 0 THEN o ELSE hashTypeSet(set[i - 1], ps[i][1], ps[i][2])
  IN Done([name |-> "hset", pairs |-> ps], set[Len(ps)], TRUE)

\* hsetnxCommand: the encoding may be converted even if the field exists.
hsetnxCommand(f, v) ==
  LET o == hashTypeTryConversion(hashTypeLookupWriteOrCreate, {f, v})
      prop == [name |-> "hsetnx", pairs |-> <<<<f, v>>>>]
  IN IF hashTypeExists(o, f) THEN Done(prop, o, FALSE) ELSE Done(prop, hashTypeSet(o, f, v), TRUE)

Overflow(old, incr) ==
  \/ incr < 0 /\ old < 0 /\ incr < (-IntMax - 1) - old
  \/ incr > 0 /\ old > 0 /\ incr > IntMax - old

\* hincrbyCommand; on an error the command is over before anything changes, but for
\* the creation of the hash.
hincrbyCommand(f, incr) ==
  LET o == hashTypeLookupWriteOrCreate
      old == IF hashTypeExists(o, f) THEN hashTypeGetObject(o, f) ELSE 0
      prop == [name |-> "hincrby", pairs |-> <<<<f, incr>>>>]
  IN IF ~IsInt(old) \/ Overflow(old, incr) THEN Done(prop, o, FALSE)
     ELSE Done(prop, SetUnchecked(o, f, old + incr), TRUE)

\* The sums a float can be printed as; how it is rounded depends on the machine.
FloatSums(old, incr) ==
  {new \in {old + incr, old + incr + (IF IsInt(old) THEN Inexact ELSE 0)} :
     IsInt(new) \/ IsInt(new - Inexact)}

\* hincrbyfloatCommand: an HSET of the result is propagated.
hincrbyfloatCommand(f, incr) ==
  LET o == hashTypeLookupWriteOrCreate
      old == IF hashTypeExists(o, f) THEN hashTypeGetObject(o, f) ELSE 0
  IN IF old \in Long THEN Done([name |-> "hset", pairs |-> <<>>], o, FALSE)
     ELSE \E new \in FloatSums(old, incr) :
            Done([name |-> "hset", pairs |-> <<<<f, new>>>>], SetUnchecked(o, f, new), TRUE)

\* hdelCommand.
hdelCommand(fs) ==
  LET del[i \in 0..Len(fs)] == IF i = 0 THEN hobj ELSE hashTypeDelete(del[i - 1], fs[i])
      o == del[Len(fs)]
  IN /\ hobj # NoKey
     /\ Done([name |-> "hdel", fields |-> ToSet(fs)],
             IF hashTypeLength(o) = 0 THEN NoKey ELSE o, hashTypeLength(o) # hashTypeLength(hobj))

Init == hobj = NoKey /\ call = [prop |-> [name |-> "none"], touched |-> FALSE, dirty |-> FALSE]

Next ==
  \/ \E f \in Fields, v \in Values : hmsetCommand(<<<<f, v>>>>) \/ hsetnxCommand(f, v)
  \/ \E f, g \in Fields, v, w \in Values : hmsetCommand(<<<<f, v>>, <<g, w>>>>)
  \/ \E f \in Fields, incr \in Incrs : hincrbyCommand(f, incr) \/ hincrbyfloatCommand(f, incr)
  \/ \E f, g \in Fields : hdelCommand(<<f, g>>)

----------------------------------------------------------------------------
(* Properties.                                                             *)

\* No field is in a ziplist twice, which the conversion to a dict asserts; a key
\* whose hash is empty is not kept, also after a command that failed; and a ziplist
\* has no more fields than configured and no longer strings, but for fields that
\* HINCRBY or HINCRBYFLOAT added: they never call hashTypeTryConversion
\* (t_hash.c:519-587).
HashEncodingRight ==
  /\ NoDups(hobj)
  /\ (hashTypeLength(hobj) = 0) <=> (hobj = NoKey)
  /\ hobj.enc = "ziplist" => /\ hashTypeLength(hobj) <= MaxEntries /\ Len(hobj.zl) % 2 = 0
                             /\ ToSet(hobj.zl) \cap Long \subseteq hobj.unchecked

\* The map a hash is, by the pairs its iterator gives.
AbsHash(o) == [f \in {p[1] : p \in Pairs(o)} |-> (CHOOSE p \in Pairs(o) : p[1] = f)[2]]

\* In both encodings the commands do to the map what the commands as they are
\* propagated to slaves and to the append only file do.
HS == INSTANCE HashSpec WITH hash <- AbsHash(hobj), cmd <- call.prop
HashImplements == HS!Spec

\* A command that changes the hash signals the key as modified, and counts as dirty.
HashChangesSignalled ==
  AbsHash(hobj') # AbsHash(hobj) => call'.touched /\ call'.dirty

\* No string longer than hash_max_ziplist_value is in a ziplist, which the server
\* promises by its configuration; it does not hold for the fields named above.
ValuesShort == hobj.enc = "ziplist" => ToSet(hobj.zl) \cap Long = {}
=============================================================================
