------------------------------ MODULE Strings ------------------------------
(***************************************************************************)
(* String values (struct/t_string.c) as objects with reference counts      *)
(* (struct/object.c).  An object may be the value of several keys (the     *)
(* shared integers) and may at the same time be part of a reply that was   *)
(* not sent yet; APPEND and SETRANGE change objects in place.              *)
(*                                                                         *)
(* Strings are sequences of bytes.  Each command is a function of the      *)
(* state [db, heap]: which object a key has, and the objects.  (Expires    *)
(* are the matter of module Keyspace.)                                     *)
(***************************************************************************)
EXTENDS Numbers

CONSTANTS
  Keys, NoObj,
  Ids,            \* objects that can be allocated, numbers
  Args,           \* per key, the values that are arguments of commands
  Pairs,          \* and two at a time
  Increments,
  Offsets,        \* of SETRANGE
  SharedInts,     \* REDIS_SHARED_INTEGERS
  MaxLength,      \* 512MB
  MaxPending

VARIABLES
  st,             \* [db, heap]
  lru,            \* maxmemory with an LRU policy is configured
  pending,        \* objects in output lists: [obj, val], val what it has to show
  call

vars == <<st, lru, pending, call>>

----------------------------------------------------------------------------
(* Objects (struct/object.c)                                               *)

Free == [refs |-> 0, enc |-> "free", val |-> <<>>, n |-> 0]
Shared(n) == -1 - n                                  \* shared.integers[n]
AllIds == Ids \cup {Shared(n) : n \in 0..(SharedInts - 1)}

Value(s, o) == IF s.heap[o].enc = "int" THEN ll2string(s.heap[o].n) ELSE s.heap[o].val

NewId(s) == Min({i \in Ids : s.heap[i].refs = 0})
createObject(s, enc, val, n) ==
  [s EXCEPT !.heap[NewId(s)] = [refs |-> 1, enc |-> enc, val |-> val, n |-> n]]
createStringObject(s, val) == createObject(s, "raw", val, 0)

incrRefCount(s, o) == [s EXCEPT !.heap[o].refs = @ + 1]
decrRefCount(s, o) ==
  IF s.heap[o].refs = 1 THEN [s EXCEPT !.heap[o] = Free] ELSE [s EXCEPT !.heap[o].refs = @ - 1]

\* The object is r.o, the state r.s.
createStringObjectFromLongLong(s, v) ==
  IF v \in 0..(SharedInts - 1) THEN [s |-> incrRefCount(s, Shared(v)), o |-> Shared(v)]
  ELSE [s |-> createObject(s, "int", <<>>, v), o |-> NewId(s)]

tryObjectEncoding(s, o) ==
  LET Encode(l) ==
        IF ~l.ok THEN [s |-> s, o |-> o]
        ELSE IF ~lru /\ l.v \in 0..(SharedInts - 1)
        THEN [s |-> incrRefCount(decrRefCount(s, o), Shared(l.v)), o |-> Shared(l.v)]
        ELSE [s |-> [s EXCEPT !.heap[o].enc = "int", !.heap[o].val = <<>>, !.heap[o].n = l.v], o |-> o]
  IN IF s.heap[o].enc # "raw" \/ s.heap[o].refs > 1 THEN [s |-> s, o |-> o]
     ELSE Encode(string2ll(s.heap[o].val))

getDecodedObject(s, o) ==
  IF s.heap[o].enc = "raw" THEN [s |-> incrRefCount(s, o), o |-> o]
  ELSE [s |-> createStringObject(s, Value(s, o)), o |-> NewId(s)]

\* strtoll has to stop at a zero byte: which may be one inside of the string.
getLongLongFromObject(s, o) ==
  LET Parsed(t) == [ok |-> AtEnd(s.heap[o].val, t.eptr) /\ t.v \in IntRange, v |-> t.v]
  IN IF o = NoObj THEN [ok |-> TRUE, v |-> 0]
     ELSE IF s.heap[o].enc = "int" THEN [ok |-> TRUE, v |-> s.heap[o].n]
     ELSE Parsed(strtoll(s.heap[o].val))

stringObjectLen(s, o) == Len(Value(s, o))
IsString(s, o) == s.heap[o].enc \in {"raw", "int"}

----------------------------------------------------------------------------
(* Keys (data/db.c)                                                        *)

dbAdd(s, k, o) == [s EXCEPT !.db[k] = o]
dbOverwrite(s, k, o) == [decrRefCount(s, s.db[k]) EXCEPT !.db[k] = o]

\* setKey: the new value's count is incremented.
setKey(s, k, o) ==
  incrRefCount(IF s.db[k] = NoObj THEN dbAdd(s, k, o) ELSE dbOverwrite(s, k, o), o)

\* The key gets a copy of the decoded object d.o.
Copied(d, k) ==
  dbOverwrite(decrRefCount(createStringObject(d.s, d.s.heap[d.o].val), d.o), k, NewId(d.s))

dbUnshareStringValue_Encoded(s, k) ==
  LET o == s.db[k]
  IN IF s.heap[o].enc # "raw" THEN Copied(getDecodedObject(s, o), k) ELSE s

\* dbUnshareStringValue: a raw object of its own for the key.
dbUnshareStringValue(s, k) ==
  LET o == s.db[k]
  IN IF s.heap[o].refs # 1 \/ s.heap[o].enc # "raw" THEN Copied(getDecodedObject(s, o), k) ELSE s

dbDelete(s, k) == [decrRefCount(s, s.db[k]) EXCEPT !.db[k] = NoObj]

----------------------------------------------------------------------------
(* Commands.  The value is an argument: an object of the client's until    *)
(* the end of the command.                                                 *)

Argument(s, val) == [s |-> createStringObject(s, val), o |-> NewId(s)]
Encoded(a) == tryObjectEncoding(a.s, a.o)

Done(s, name, k, val, dirty) ==
  /\ st' = s
  /\ call' = [name |-> name, key |-> k, val |-> val, dirty |-> dirty]
  /\ UNCHANGED <<lru, pending>>
Fails(k) == Done(st, "fails", k, <<>>, FALSE)

\* SET with NX, XX and EX or PX, SETNX, SETEX, PSETEX.
setGenericCommand(k, val, flag) ==
  IF (flag = "nx" /\ st.db[k] # NoObj) \/ (flag = "xx" /\ st.db[k] = NoObj) THEN Fails(k)
  ELSE \E e \in {Encoded(Argument(st, val))} :
         Done(decrRefCount(setKey(e.s, k, e.o), e.o), "set", k, val, TRUE)

\* GET, with the object in the list of replies (what goes to the static buffer is
\* copied and keeps none).
getCommand(k) ==
  /\ st.db[k] # NoObj /\ IsString(st, st.db[k]) /\ Len(pending) < MaxPending
  /\ LET d == getDecodedObject(st, st.db[k])
     IN /\ st' = d.s
        /\ pending' = Append(pending, [obj |-> d.o, val |-> Value(st, st.db[k])])
  /\ call' = [name |-> "get", key |-> k, val |-> <<>>, dirty |-> FALSE]
  /\ UNCHANGED lru

\* sendReplyToClient is done with the first object of the list.
Sent ==
  /\ pending # <<>>
  /\ st' = decrRefCount(st, pending[1].obj)
  /\ pending' = Tail(pending)
  /\ call' = [name |-> "sent", key |-> NoObj, val |-> <<>>, dirty |-> FALSE]
  /\ UNCHANGED lru

\* GETSET: the old value goes to the reply, whose list may hold it, and is replaced.
getsetCommand(k, val) ==
  LET old == st.db[k]
  IN IF old # NoObj /\ ~IsString(st, old) THEN Fails(k)
     ELSE /\ old = NoObj \/ Len(pending) < MaxPending
          /\ \E d \in {IF old = NoObj THEN [s |-> st, o |-> NoObj] ELSE getDecodedObject(st, old)} :
               /\ pending' = IF old = NoObj THEN pending
                             ELSE Append(pending, [obj |-> d.o, val |-> Value(st, old)])
               /\ \E e \in {Encoded(Argument(d.s, val))} :
                    st' = decrRefCount(setKey(e.s, k, e.o), e.o)
          /\ call' = [name |-> "set", key |-> k, val |-> val, dirty |-> TRUE]
          /\ UNCHANGED lru

\* sdsgrowzero and the copy.
Overlay(old, offset, val) ==
  [i \in 1..Max({Len(old), offset + Len(val)}) |->
     IF i \in (offset + 1)..(offset + Len(val)) THEN val[i - offset] ELSE IF i <= Len(old) THEN old[i] ELSE 0]

setrangeCommand(k, offset, val) ==
  LET o == st.db[k]
      Own(a) == IF o = NoObj THEN dbAdd(createStringObject(a, <<>>), k, NewId(a))
                ELSE dbUnshareStringValue(a, k)
  IN IF val = <<>> \/ (o # NoObj /\ ~IsString(st, o)) \/ offset + Len(val) > MaxLength THEN Fails(k)
     ELSE \E t \in {Own(createStringObject(st, val))} :
            Done(decrRefCount([t EXCEPT !.heap[t.db[k]].val = Overlay(@, offset, val)], NewId(st)),
                 "setrange", k, <<offset>> \o val, TRUE)

\* APPEND: to a key that is not there, the argument itself is the value.
appendCommand(k, val) ==
  LET o == st.db[k]
  IN IF o = NoObj
     THEN \E e \in {Encoded(Argument(st, val))} :
            Done(decrRefCount(incrRefCount(dbAdd(e.s, k, e.o), e.o), e.o), "append", k, val, TRUE)
     ELSE IF ~IsString(st, o) \/ stringObjectLen(st, o) + Len(val) > MaxLength THEN Fails(k)
     ELSE \E t \in {dbUnshareStringValue(createStringObject(st, val), k)} :
            Done(decrRefCount([t EXCEPT !.heap[t.db[k]].val = @ \o val], NewId(st)), "append", k, val, TRUE)

\* The test on the signs keeps the subtractions in range.
Overflows(old, incr) ==
  \/ incr < 0 /\ old < 0 /\ incr < -IntMax - 1 - old
  \/ incr > 0 /\ old > 0 /\ incr > IntMax - old

incrDecrCommand_InPlace(k, incr) ==
  LET o == st.db[k]
  IN \E old \in {getLongLongFromObject(st, o)} :
     IF (o # NoObj /\ ~IsString(st, o)) \/ ~old.ok \/ Overflows(old.v, incr) THEN Fails(k)
     ELSE \E new \in {createStringObjectFromLongLong(st, old.v + incr)} :
            Done(IF o = NoObj THEN dbAdd(new.s, k, new.o)
                 ELSE IF st.heap[o].enc = "int" THEN [st EXCEPT !.heap[o].n = @ + incr]
                 ELSE dbOverwrite(new.s, k, new.o),
                 "incrby", k, <<incr>>, TRUE)

incrDecrCommand(k, incr) ==
  LET o == st.db[k]
  IN \E old \in {getLongLongFromObject(st, o)} :
     IF (o # NoObj /\ ~IsString(st, o)) \/ ~old.ok \/ Overflows(old.v, incr) THEN Fails(k)
     ELSE \E new \in {createStringObjectFromLongLong(st, old.v + incr)} :
            Done(IF o = NoObj THEN dbAdd(new.s, k, new.o) ELSE dbOverwrite(new.s, k, new.o),
                 "incrby", k, <<incr>>, TRUE)

incrbyCommand(k, incr) == incrDecrCommand(k, incr)
\* -LLONG_MIN is LLONG_MIN.
decrbyCommand(k, incr) == incrDecrCommand(k, IF incr = -IntMax - 1 THEN incr ELSE -incr)

\* MSET and MSETNX of two pairs, the keys of which may be the same.
msetGenericCommand(k1, v1, k2, v2, nx) ==
  IF nx /\ (st.db[k1] # NoObj \/ st.db[k2] # NoObj) THEN Fails(k1)
  ELSE \E a \in {Argument(st, v1)} : \E b \in {Argument(a.s, v2)} :
       \E e \in {tryObjectEncoding(b.s, a.o)} :
       \E f \in {tryObjectEncoding(setKey(e.s, k1, e.o), b.o)} :
         Done(decrRefCount(decrRefCount(setKey(f.s, k2, f.o), e.o), f.o),
              "mset", <<k1, k2>>, <<v1, v2>>, TRUE)

\* DEL, and a key of another type.
delCommand(k) == st.db[k] # NoObj /\ Done(dbDelete(st, k), "del", k, <<>>, TRUE)
pushCommand(k) == /\ st.db[k] = NoObj
                  /\ Done(dbAdd(createObject(st, "list", <<>>, 0), k, NewId(st)), "push", k, <<>>, TRUE)

configSet == /\ lru' = ~lru /\ UNCHANGED <<st, pending>>
             /\ call' = [name |-> "config", key |-> NoObj, val |-> <<>>, dirty |-> FALSE]

Init ==
  /\ st = [db |-> [k \in Keys |-> NoObj],
           heap |-> [i \in AllIds |-> IF i < 0 THEN [refs |-> 1, enc |-> "int", val |-> <<>>, n |-> -1 - i] ELSE Free]]
  /\ lru \in BOOLEAN
  /\ pending = <<>>
  /\ call = [name |-> "none", key |-> NoObj, val |-> <<>>, dirty |-> FALSE]

Next ==
  \/ Sent \/ configSet
  \/ \E k \in Keys :
       \/ \E v \in Args[k] : \/ \E flag \in {"none", "nx", "xx"} : setGenericCommand(k, v, flag)
                             \/ getsetCommand(k, v) \/ appendCommand(k, v)
                             \/ \E off \in Offsets : setrangeCommand(k, off, v)
       \/ \E n \in Increments : incrbyCommand(k, n) \/ decrbyCommand(k, n)
       \/ \E k2 \in Keys, p \in Pairs, nx \in BOOLEAN : msetGenericCommand(k, p[1], k2, p[2], nx)
       \/ getCommand(k) \/ delCommand(k) \/ pushCommand(k)

Spec == Init /\ [][Next]_vars

\* A state up to the names of its objects, for model checking: what each key and each
\* reply has, which of them are the same object, and how many objects there are.
Shape ==
  LET have == {st.db[k] : k \in Keys} \cup {pending[i].obj : i \in DOMAIN pending}
      rec(o) == IF o = NoObj THEN Free ELSE st.heap[o]
      owners(o) == IF o = NoObj THEN {} ELSE {k \in Keys : st.db[k] = o}
  IN <<[k \in Keys |-> rec(st.db[k])],
       [i \in DOMAIN pending |-> <<rec(pending[i].obj), owners(pending[i].obj), pending[i].val>>],
       Cardinality({o \in AllIds : st.heap[o].refs > 0}), have \cap {o \in AllIds : o < 0}, lru>>

----------------------------------------------------------------------------
(* Properties.  Those with primes are about every step.                    *)

\* The values of the keys: a list is a list.
Contents(s) ==
  [k \in Keys |-> IF s.db[k] = NoObj THEN <<"none">>
                  ELSE IF ~IsString(s, s.db[k]) THEN <<"list">> ELSE <<"string", Value(s, s.db[k])>>]
Str(c, k) == IF c[k] = <<"none">> THEN <<>> ELSE c[k][2]

\* What a command does to the values, without objects.
Effect(c, a) ==
  CASE a.name = "set" -> [c EXCEPT ![a.key] = <<"string", a.val>>]
    [] a.name = "append" -> [c EXCEPT ![a.key] = <<"string", Str(c, a.key) \o a.val>>]
    [] a.name = "setrange" -> [c EXCEPT ![a.key] = <<"string", Overlay(Str(c, a.key), a.val[1], Tail(a.val))>>]
    [] a.name = "incrby" -> [c EXCEPT ![a.key] = <<"string", ll2string(strtoll(Str(c, a.key)).v + a.val[1])>>]
    [] a.name = "mset" -> [c EXCEPT ![a.key[1]] = <<"string", a.val[1]>>, ![a.key[2]] = <<"string", a.val[2]>>]
    [] a.name = "del" -> [c EXCEPT ![a.key] = <<"none">>]
    [] a.name = "push" -> [c EXCEPT ![a.key] = <<"list">>]
    [] OTHER -> c

\* Whatever objects keys and replies share, a command changes the values of the keys
\* it names, to what it says, and of no other; without a command that is propagated
\* nothing changes.
CommandsRight ==
  /\ Contents(st') = Effect(Contents(st), call')
  /\ ~call'.dirty => Contents(st') = Contents(st)

\* A reply that is not sent yet shows the value the key had when it was asked for.
RepliesIntact == \A i \in DOMAIN pending : Value(st, pending[i].obj) = pending[i].val

\* An object has one count for each key and each reply that has it (and, if it is a
\* shared integer, one more): none is freed too early, none is leaked.
RefsRight ==
  \A o \in AllIds :
    st.heap[o].refs = Cardinality({k \in Keys : st.db[k] = o}) + Cardinality({i \in DOMAIN pending : pending[i].obj = o})
                      + IF o < 0 THEN 1 ELSE 0

\* INCRBY and DECRBY leave no number out of the range of a long long.
NumbersInRange == \A o \in AllIds : st.heap[o].enc = "int" => st.heap[o].n \in IntRange
=============================================================================
