------------------------------ MODULE Numbers ------------------------------
(***************************************************************************)
(* Integers as strings of bytes: ll2string, string2ll (tool/util.c) and    *)
(* strtoll of the C library, as struct/object.c uses it.                   *)
(***************************************************************************)
EXTENDS Integers, Sequences, FiniteSets, FiniteSetsExt

CONSTANT IntMax         \* LLONG_MAX; LLONG_MIN is -IntMax - 1

IntRange == (-IntMax - 1)..IntMax

\* Two digits at a time from the end, then the last one or two and the sign.
ll2string(n) ==
  LET pair(m) == <<48 + (m \div 10), 48 + (m % 10)>>
      digits[m \in Nat] ==
        IF m >= 100 THEN digits[m \div 100] \o pair(m % 100) ELSE IF m < 10 THEN <<48 + m>> ELSE pair(m)
  IN IF n < 0 THEN <<45>> \o digits[-n] ELSE digits[n]

\* strtoll: the value of the digits after a sign, and where it stops (at the first
\* byte if there are none).
strtoll(s) ==
  LET from == IF Len(s) > 0 /\ s[1] \in {43, 45} THEN 2 ELSE 1
      stop == Min({i \in from..(Len(s) + 1) : i = Len(s) + 1 \/ s[i] \notin 48..57})
      value[i \in 0..Len(s)] == IF i < from THEN 0 ELSE value[i - 1] * 10 + (s[i] - 48)
      v == IF from = 2 /\ s[1] = 45 THEN -value[stop - 1] ELSE value[stop - 1]
  IN [v |-> v, eptr |-> IF stop = from THEN 1 ELSE stop]

\* What follows the last byte of a string is a zero byte.
AtEnd(s, i) == i > Len(s) \/ s[i] = 0

\* string2ll: the first digit is not zero (unless it is all there is), no byte is left,
\* and neither the unsigned arithmetic nor the result overflows.
string2ll(s) ==
  LET neg == Len(s) > 0 /\ s[1] = 45
      from == IF neg THEN 2 ELSE 1
      UMax == 2 * IntMax + 1
      v[i \in (from - 1)..Len(s)] ==
        IF i < from THEN 0
        ELSE IF v[i - 1] < 0 \/ v[i - 1] > UMax \div 10 \/ v[i - 1] * 10 > UMax - (s[i] - 48) THEN -1
        ELSE v[i - 1] * 10 + (s[i] - 48)
      Digits == Len(s) >= from /\ s[from] \in 49..57 /\ \A i \in from..Len(s) : s[i] \in 48..57
  IN IF s = <<48>> THEN [ok |-> TRUE, v |-> 0]
     ELSE IF ~Digits THEN [ok |-> FALSE, v |-> 0]
     ELSE [ok |-> v[Len(s)] \in 0..(IF neg THEN IntMax + 1 ELSE IntMax),
           v |-> IF neg THEN -v[Len(s)] ELSE v[Len(s)]]
=============================================================================
