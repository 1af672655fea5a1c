-------------------------------- MODULE Lzf --------------------------------
(***************************************************************************)
(* LZF compression of strings in dumps (tool/lzf_c.c, tool/lzf_d.c).  The  *)
(* compressor finds earlier occurrences through a hash table that is not   *)
(* initialized: what it reads there is any place, and only the tests that  *)
(* follow make a reference of it.  Each step of its loop is an action.     *)
(*                                                                         *)
(* A control byte below MaxLit is a run of literals; otherwise it has a    *)
(* length (up to LenMax, then a byte more) and, below it, the high part of *)
(* an offset, whose low part is the last byte.                             *)
(***************************************************************************)
EXTENDS Integers, Sequences, FiniteSets, FiniteSetsExt

CONSTANTS
  Inputs,       \* sequences of bytes
  Byte,         \* how many values a byte has (256)
  MaxLit,       \* 32; Byte = MaxLit * (LenMax + 1)
  LenMax,       \* 7
  MaxRef,       \* 264
  Unroll        \* comparisons that are written out (16)

VARIABLES in, ip, out, lit, phase

vars == <<in, ip, out, lit, phase>>

MaxOff == MaxLit * Byte

\* in_data[ip] is in[ip + 1]; out has the op bytes written so far, the control bytes of
\* runs that are not ended included (as 0).  rdbSaveLzfStringObject gives room for four
\* bytes less than the input has, and allocates one more.
op == Len(out)
OutLen == Len(in) - 4
At(i) == in[i + 1]

\* "op [- lit - 1] = lit - 1; op -= !lit": the run ends, or is undone if it is empty.
EndRun(o, n) == IF n = 0 THEN SubSeq(o, 1, Len(o) - 1) ELSE [o EXCEPT ![Len(o) - n] = n - 1]

\* How many bytes at ref and at ip are the same: three are; at most maxlen, except in
\* the comparisons that are written out.
MatchLen_Unbounded(ref) ==
  LET rest == Len(in) - ip
      Differ(i) == At(ref + i) # At(ip + i)
  IN Min({i \in 3..rest : i = rest \/ Differ(i)})

MatchLen(ref) ==
  LET maxlen == Min({Len(in) - ip - 2, MaxRef})
      Differ(i) == At(ref + i) # At(ip + i)
      unrolled == {i \in 3..(2 + Unroll) : Differ(i)}
      from == IF maxlen > Unroll THEN 3 + Unroll ELSE 3
  IN IF maxlen > Unroll /\ unrolled # {} THEN Min(unrolled)
     ELSE Min({i \in from..Max({from, maxlen}) : i >= maxlen \/ Differ(i)})

\* The condition for a match at ref, anything that the table may hold.
Matches(ref) ==
  /\ ip - ref - 1 < MaxOff
  /\ ip + 4 < Len(in)
  /\ ref > 0
  /\ \A i \in 0..2 : At(ref + i) = At(ip + i)

Match(ref) ==
  LET run == EndRun(out, lit)
      off == ip - ref - 1
      len == MatchLen(ref) - 2
      code == IF len < LenMax THEN <<off \div Byte + len * MaxLit, off % Byte>>
              ELSE <<off \div Byte + LenMax * MaxLit, (len - LenMax) % Byte, off % Byte>>
  IN /\ phase = "compress" /\ ip < Len(in) - 2 /\ Matches(ref)
     /\ lit' = 0
     /\ IF Len(run) + 3 + 1 >= OutLen THEN phase' = "incompressible" /\ UNCHANGED <<ip, out>>
        ELSE /\ out' = run \o code \o <<0>>
             /\ ip' = ip + len + 2
             /\ phase' = phase
     /\ UNCHANGED in

\* A byte more in the run, which ends when it is full.
AddLiteral(o, n, b) ==
  IF n + 1 = MaxLit THEN [o |-> Append(EndRun(Append(o, b), n + 1), 0), n |-> 0]
  ELSE [o |-> Append(o, b), n |-> n + 1]

Literal ==
  LET a == AddLiteral(out, lit, At(ip))
  IN /\ phase = "compress" /\ ip < Len(in) - 2
     /\ IF op >= OutLen THEN phase' = "incompressible" /\ UNCHANGED <<ip, out, lit>>
        ELSE out' = a.o /\ lit' = a.n /\ ip' = ip + 1 /\ phase' = phase
     /\ UNCHANGED in

\* The last bytes, two at most.
Finish ==
  LET tail[i \in ip..Len(in)] ==
        IF i = ip THEN [o |-> out, n |-> lit] ELSE AddLiteral(tail[i - 1].o, tail[i - 1].n, At(i - 1))
      all == tail[Len(in)]
  IN /\ phase = "compress" /\ ip >= Len(in) - 2
     /\ IF op + 3 > OutLen THEN phase' = "incompressible" /\ UNCHANGED <<ip, out, lit>>
        ELSE out' = EndRun(all.o, all.n) /\ lit' = 0 /\ ip' = Len(in) /\ phase' = "done"
     /\ UNCHANGED in

Init ==
  /\ in \in Inputs
  /\ ip = 0 /\ out = <<0>> /\ lit = 0
  /\ phase = IF Len(in) <= 4 THEN "incompressible" ELSE "compress"

Next == Literal \/ Finish \/ \E ref \in 0..Len(in) : ref < ip /\ Match(ref)

Spec == Init /\ [][Next]_vars

----------------------------------------------------------------------------

\* lzf_decompress of c to `outlen' bytes: <<>> is its 0.
lzf_decompress(c, outlen) ==
  LET Copy(o, ref, n) ==        \* byte by byte: what is copied may overlap
        LET r[i \in 0..n] == IF i = 0 THEN o ELSE Append(r[i - 1], r[i - 1][ref + i]) IN r[n]
      step[n \in 0..Len(c)] ==
        IF n = 0 THEN [o |-> <<>>, p |-> 1, ok |-> TRUE]
        ELSE LET s == step[n - 1]
                 ctrl == c[s.p]
                 len == ctrl \div MaxLit
                 long == len = LenMax
                 q == IF long THEN s.p + 2 ELSE s.p + 1           \* of the offset
                 n2 == (IF long THEN len + c[s.p + 1] ELSE len) + 2
                 ref == Len(s.o) - (ctrl % MaxLit) * Byte - 1 - c[q]
             IN IF ~s.ok \/ s.p > Len(c) THEN s
                ELSE IF ctrl < MaxLit
                THEN IF Len(s.o) + ctrl + 1 > outlen \/ s.p + ctrl + 1 > Len(c) THEN [s EXCEPT !.ok = FALSE]
                     ELSE [s EXCEPT !.o = @ \o SubSeq(c, s.p + 1, s.p + ctrl + 1), !.p = @ + ctrl + 2]
                ELSE IF q > Len(c) THEN [s EXCEPT !.ok = FALSE]
                ELSE IF Len(s.o) + n2 > outlen \/ ref < 0 THEN [s EXCEPT !.ok = FALSE]
                ELSE [s EXCEPT !.o = Copy(@, ref, n2), !.p = q + 1]
  IN IF step[Len(c)].ok THEN step[Len(c)].o ELSE <<>>

\* Whatever the hash table had in it, what the compressor returns decompresses to its
\* input and is shorter by four bytes at least.
RoundTrip ==
  phase = "done" => lzf_decompress(out, Len(in)) = in /\ Len(out) <= OutLen

\* The compressor writes no more than the byte that was allocated beyond the end.
InsideBuffer == phase \in {"compress", "done"} => op - (IF lit = 0 THEN 1 ELSE 0) <= OutLen
=============================================================================
