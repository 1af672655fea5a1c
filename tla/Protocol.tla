------------------------------ MODULE Protocol ------------------------------
(***************************************************************************)
(* How the query buffer of a client becomes commands (networking.c).  The  *)
(* bytes of a connection arrive in reads cut anywhere; the parser keeps    *)
(* where it is in reqtype, multibulklen and bulklen, trims the buffer, and *)
(* for a large argument takes the buffer itself.  While the client is      *)
(* blocked the buffer only grows; what it holds is parsed afterwards.      *)
(*                                                                         *)
(* A byte is a string of one letter: "*" and "$" start lengths, "r" is CR, *)
(* "n" LF, "_" a space, "0" to "3" and "-" make numbers; the two quotes    *)
(* and the backslash are themselves.                                       *)
(***************************************************************************)
EXTENDS Integers, Sequences, SequencesExt

CONSTANTS
  Streams,    \* what a client may send
  BigArg,     \* REDIS_MBULK_BIG_ARG
  InlineMax,  \* REDIS_INLINE_MAX_SIZE
  IoBuf,      \* REDIS_IOBUF_LEN
  MaxQuery    \* server.client_max_querybuf_len

VARIABLES
  stream,     \* all the client sends
  nread,      \* how much of it was read
  c,          \* the client: qb, reqtype, mbl (multibulklen), bl (bulklen), argv, flags
  done        \* the commands given to processCommand, and an error if there was one

vars == <<stream, nread, c, done>>

Bad == -99
Error == <<<<"error">>>>
Digit == [s \in {"0", "1", "2", "3"} |-> CASE s = "0" -> 0 [] s = "1" -> 1 [] s = "2" -> 2 [] OTHER -> 3]

\* string2ll, of the numbers these bytes can make.
string2ll(s) ==
  CASE Len(s) = 1 /\ s[1] \in DOMAIN Digit -> Digit[s[1]]
    [] s = <<"-", "1">> -> -1
    [] OTHER -> Bad

From(s, i) == SubSeq(s, i, Len(s))

\* Where byte b is in s, from position i on; 0 if it is not.
strchr(s, i, b) ==
  LET at == SelectInSeq(From(s, i), LAMBDA x : x = b) IN IF at = 0 THEN 0 ELSE i + at - 1

DQuote == "\""
Backslash == "\\"

\* A byte of a line for sdssplitargs, w being the words so far, the one that is open,
\* and where in it the line is: "out" of a word, in a "word", in a string with double
\* ("dq") or single quotes ("sq"), or after one that was "closed".  In double quotes a
\* backslash takes the next byte as it is (the bytes have no letter that stands for
\* another), in single quotes only a quote; after a string there must be a space.
SplitStep(w, b) ==
  LET In(mode) == [w EXCEPT !.mode = mode]
      With(s, mode) == [w EXCEPT !.cur = @ \o s, !.mode = mode]
  IN CASE w.mode \in {"out", "word", "closed"} /\ b \in {"_", "r"} ->
            [words |-> IF w.mode = "out" THEN w.words ELSE Append(w.words, w.cur), cur |-> <<>>, mode |-> "out"]
       [] w.mode \in {"out", "word"} /\ b \notin {"_", "r"} ->
            IF b = DQuote THEN In("dq") ELSE IF b = "'" THEN In("sq") ELSE With(<<b>>, "word")
       [] w.mode = "dq" -> IF b = Backslash THEN In("dq escape")
                           ELSE IF b = DQuote THEN In("closed") ELSE With(<<b>>, "dq")
       [] w.mode = "dq escape" -> With(<<b>>, "dq")
       [] w.mode = "sq" -> IF b = Backslash THEN In("sq escape")
                           ELSE IF b = "'" THEN In("closed") ELSE With(<<b>>, "sq")
       [] w.mode = "sq escape" -> IF b = "'" THEN With(<<b>>, "sq")
                                  ELSE IF b = Backslash THEN With(<<Backslash>>, "sq escape")
                                  ELSE With(<<Backslash, b>>, "sq")
       [] OTHER -> In("error")

\* sdssplitargs: the words of a line, or that its quotes are not balanced.
sdssplitargs(line) ==
  LET w == FoldLeft(SplitStep, [words |-> <<>>, cur |-> <<>>, mode |-> "out"], line)
  IN [ok |-> w.mode \in {"out", "word", "closed"},
      argv |-> IF w.mode = "out" THEN w.words ELSE Append(w.words, w.cur)]

\* The arguments of a line: the words that are not empty.
InlineArgs(words) == SelectSeq(words, LAMBDA w : w # <<>>)

resetClient(x) == [x EXCEPT !.argv = <<>>, !.reqtype = "", !.mbl = 0, !.bl = -1]

\* A parser gives back the client and whether it is "ok", "more" is needed, or it
\* is an "error"; setProtocolError trims to pos and has the client closed.
setProtocolError(x, pos) == [x |-> [x EXCEPT !.closing = TRUE, !.qb = From(@, pos + 1)], r |-> "error"]

-----------------------------------------------------------------------------

\* A line.  What is cut off the buffer is the line and two bytes, also if it ended in
\* LF alone: then the second one is of what follows, if that was read already.
processInlineBuffer(x) ==
  LET lf == strchr(x.qb, 1, "n")
      len == IF lf > 1 /\ x.qb[lf - 1] = "r" THEN lf - 2 ELSE lf - 1
      split == sdssplitargs(SubSeq(x.qb, 1, len))
  IN CASE lf = 0 -> IF Len(x.qb) > InlineMax THEN setProtocolError(x, 0) ELSE [x |-> x, r |-> "more"]
       [] lf # 0 /\ ~split.ok -> setProtocolError(x, 0)
       [] OTHER -> [x |-> [x EXCEPT !.qb = From(@, len + 3), !.argv = InlineArgs(split.argv)], r |-> "ok"]

\* processMultibulkBuffer, the line with the number of arguments; "go" has one.
MultibulkLen(x) ==
  LET cr == strchr(x.qb, 1, "r")
      ll == string2ll(SubSeq(x.qb, 2, cr - 1))
  IN CASE cr = 0 -> IF Len(x.qb) > InlineMax THEN setProtocolError(x, 0) ELSE [x |-> x, r |-> "more"]
       [] cr # 0 /\ cr - 1 > Len(x.qb) - 2 -> [x |-> x, r |-> "more"]
       [] cr # 0 /\ cr - 1 <= Len(x.qb) - 2 /\ ll = Bad -> setProtocolError(x, 0)
       [] OTHER -> IF ll <= 0 THEN [x |-> [x EXCEPT !.qb = From(@, cr + 2)], r |-> "ok"]
                   ELSE [x |-> [x EXCEPT !.mbl = ll], pos |-> cr + 1, r |-> "go"]

\* The line with the length of an argument, from offset pos on; a large argument
\* is moved to the beginning of the buffer.
BulkLen(x, pos) ==
  LET cr == strchr(x.qb, pos + 1, "r")
      ll == string2ll(SubSeq(x.qb, pos + 2, cr - 1))
  IN CASE cr = 0 -> IF Len(x.qb) > InlineMax THEN setProtocolError(x, 0)
                    ELSE [x |-> x, pos |-> pos, r |-> "more"]
       [] cr # 0 /\ cr - 1 > Len(x.qb) - 2 -> [x |-> x, pos |-> pos, r |-> "more"]
       [] OTHER -> IF x.qb[pos + 1] # "$" \/ ll < 0 THEN setProtocolError(x, pos)
                   ELSE IF ll >= BigArg
                   THEN [x |-> [x EXCEPT !.bl = ll, !.qb = From(@, cr + 2)], pos |-> 0, r |-> "go"]
                   ELSE [x |-> [x EXCEPT !.bl = ll], pos |-> cr + 1, r |-> "go"]

BulkArg_TakesAll(x, pos) ==
  IF Len(x.qb) - pos < x.bl + 2 THEN [x |-> x, pos |-> pos, r |-> "more"]
  ELSE IF pos = 0 /\ x.bl >= BigArg
  THEN [x |-> [x EXCEPT !.argv = Append(@, SubSeq(x.qb, 1, x.bl)), !.qb = <<>>,
                        !.bl = -1, !.mbl = @ - 1], pos |-> 0, r |-> "go"]
  ELSE [x |-> [x EXCEPT !.argv = Append(@, SubSeq(x.qb, pos + 1, pos + x.bl)),
                        !.bl = -1, !.mbl = @ - 1], pos |-> pos + x.bl + 2, r |-> "go"]

\* The argument: the buffer itself, without its last two bytes, if it is large and
\* there is nothing else in the buffer; a copy otherwise.
BulkArg(x, pos) ==
  IF Len(x.qb) - pos < x.bl + 2 THEN [x |-> x, pos |-> pos, r |-> "more"]
  ELSE IF pos = 0 /\ x.bl >= BigArg /\ Len(x.qb) = x.bl + 2
  THEN [x |-> [x EXCEPT !.argv = Append(@, SubSeq(x.qb, 1, Len(x.qb) - 2)), !.qb = <<>>,
                        !.bl = -1, !.mbl = @ - 1], pos |-> 0, r |-> "go"]
  ELSE [x |-> [x EXCEPT !.argv = Append(@, SubSeq(x.qb, pos + 1, pos + x.bl)),
                        !.bl = -1, !.mbl = @ - 1], pos |-> pos + x.bl + 2, r |-> "go"]

\* The loop over the arguments, and the trimming after it.
RECURSIVE Arguments(_, _)
Arguments(x, pos) ==
  LET Argument(l) == IF l.r = "go" THEN BulkArg(l.x, l.pos) ELSE l
      Then(a) == CASE a.r = "error" -> a
                   [] a.r = "more" -> [x |-> [a.x EXCEPT !.qb = From(@, a.pos + 1)], r |-> "more"]
                   [] a.r = "go" -> Arguments(a.x, a.pos)
  IN IF x.mbl = 0 THEN [x |-> [x EXCEPT !.qb = From(@, pos + 1)], r |-> "ok"]
     ELSE Then(Argument(IF x.bl = -1 THEN BulkLen(x, pos) ELSE [x |-> x, pos |-> pos, r |-> "go"]))

processMultibulkBuffer(x) ==
  LET Then(m) == IF m.r = "go" THEN Arguments(m.x, m.pos) ELSE m
  IN Then(IF x.mbl # 0 THEN [x |-> x, pos |-> 0, r |-> "go"] ELSE MultibulkLen(x))

\* Of a command it matters here whether it blocks ("b") or is QUIT ("q"), after
\* which the client is not reset.
processCommand(x) ==
  IF x.argv[1] = <<"q">> THEN [x EXCEPT !.closing = TRUE]
  ELSE IF x.argv[1] = <<"b">> THEN resetClient([x EXCEPT !.blocked = TRUE])
  ELSE resetClient(x)

\* One round of the loop of processInputBuffer: what the first byte says the request is.
Parse(x) ==
  LET Typed(y) == IF y.reqtype = "inline" THEN processInlineBuffer(y) ELSE processMultibulkBuffer(y)
  IN Typed(IF x.reqtype # "" THEN x
           ELSE [x EXCEPT !.reqtype = IF x.qb[1] = "*" THEN "multibulk" ELSE "inline"])

\* The loop; w is the client and the commands so far.
RECURSIVE processInputBuffer(_)
processInputBuffer(w) ==
  LET Then(p) == CASE p.r = "error" -> [x |-> p.x, done |-> w.done \o Error]
                   [] p.r = "more" -> [x |-> p.x, done |-> w.done]
                   [] p.r = "ok" ->
                        processInputBuffer(
                          IF p.x.argv = <<>> THEN [x |-> resetClient(p.x), done |-> w.done]
                          ELSE [x |-> processCommand(p.x), done |-> Append(w.done, p.x.argv)])
  IN IF w.x.qb = <<>> \/ w.x.blocked \/ w.x.closing THEN w ELSE Then(Parse(w.x))

-----------------------------------------------------------------------------

Init ==
  /\ stream \in Streams /\ nread = 0 /\ done = <<>>
  /\ c = [qb |-> <<>>, reqtype |-> "", mbl |-> 0, bl |-> -1, argv |-> <<>>,
          blocked |-> FALSE, closing |-> FALSE, alive |-> TRUE]

Process(x) ==
  \E w \in {processInputBuffer([x |-> x, done |-> done])} : c' = w.x /\ done' = w.done

\* Not more than what is missing of a large argument.
ReadLen(x) ==
  IF x.reqtype = "multibulk" /\ x.mbl # 0 /\ x.bl # -1 /\ x.bl >= BigArg
  THEN LET remaining == x.bl + 2 - Len(x.qb) IN IF remaining < IoBuf THEN remaining ELSE IoBuf
  ELSE IoBuf

\* readQueryFromClient gets n bytes; with more than the maximum in its buffer the
\* client is freed, as it is when there is nothing more to come.
readQueryFromClient(n) ==
  LET x == [c EXCEPT !.qb = @ \o SubSeq(stream, nread + 1, nread + n)]
  IN /\ c.alive /\ n <= ReadLen(c) /\ nread + n <= Len(stream)
     /\ nread' = nread + n
     /\ IF Len(x.qb) > MaxQuery THEN c' = [x EXCEPT !.alive = FALSE] /\ UNCHANGED done
        ELSE Process(x)
     /\ UNCHANGED stream

Disconnect ==
  /\ c.alive /\ nread = Len(stream)
  /\ c' = [c EXCEPT !.alive = FALSE]
  /\ UNCHANGED <<stream, nread, done>>

\* The blocking command ends, and beforeSleep turns to the buffer.
Unblock ==
  /\ c.alive /\ c.blocked
  /\ Process([c EXCEPT !.blocked = FALSE])
  /\ UNCHANGED <<stream, nread>>

Next == (\E n \in 1..IoBuf : readQueryFromClient(n)) \/ Disconnect \/ Unblock

Spec == Init /\ [][Next]_vars

-----------------------------------------------------------------------------

\* What a stream means, by the grammar of the protocol, read as a whole: more than one
\* thing if a line ends in LF alone, for the byte after it may be lost.
RECURSIVE Meanings(_), Args(_, _)
Args(s, n) ==    \* n arguments and what follows them; ok is FALSE if s ends before
  LET cr == strchr(s, 1, "r")
      ll == string2ll(SubSeq(s, 2, cr - 1))
      rest == Args(From(s, cr + 2 + ll + 2), n - 1)
  IN CASE n = 0 -> [r |-> "ok", argv |-> <<>>, rest |-> s]
       [] n > 0 /\ (cr = 0 \/ cr = Len(s)) -> [r |-> "more"]
       [] n > 0 /\ cr # 0 /\ cr # Len(s) /\ (s[1] # "$" \/ ll < 0) -> [r |-> "error"]
       [] OTHER -> IF Len(s) < cr + 1 + ll + 2 THEN [r |-> "more"]
                   ELSE IF rest.r # "ok" THEN rest
                   ELSE [rest EXCEPT !.argv = <<SubSeq(s, cr + 2, cr + 1 + ll)>> \o @]
Meanings(s) ==
  LET cr == strchr(s, 1, "r")
      n == string2ll(SubSeq(s, 2, cr - 1))
      a == Args(From(s, cr + 2), n)
      lf == strchr(s, 1, "n")
      bare == lf = 1 \/ s[lf - 1] # "r"
      line == sdssplitargs(SubSeq(s, 1, IF bare THEN lf - 1 ELSE lf - 2))
      then(argv, rest) == IF argv = <<>> THEN Meanings(rest)
                          ELSE {<<argv>> \o m : m \in IF argv[1] = <<"q">> THEN {<<>>} ELSE Meanings(rest)}
  IN CASE s = <<>> \/ (s[1] = "*" /\ (cr = 0 \/ cr = Len(s))) \/ (s[1] # "*" /\ lf = 0) -> {<<>>}
       [] s # <<>> /\ s[1] # "*" /\ lf # 0 ->
            IF ~line.ok THEN {Error}
            ELSE UNION {then(InlineArgs(line.argv), From(s, lf + i)) : i \in IF bare THEN {1, 2} ELSE {1}}
       [] OTHER -> IF n = Bad THEN {Error}
                   ELSE IF n <= 0 THEN Meanings(From(s, cr + 2))
                   ELSE IF a.r = "more" THEN {<<>>}
                   ELSE IF a.r = "error" THEN {Error}
                   ELSE then(a.argv, a.rest)

\* A first line longer than a line may be: whether it is refused depends on the reads.
TooLong == Len(stream) > InlineMax /\ strchr(SubSeq(stream, 1, InlineMax + 1), 1, "n") = 0

\* However the bytes are cut by reads, and whether or not the client was blocked
\* when they came, the commands are those of the stream, argument by argument; once
\* all was read and the client is not blocked, processCommand got all of them.  The
\* reads do matter in two cases: a line that is too long is refused only if it is not
\* complete when it is looked at, and after a line that ends in LF alone the next byte
\* is dropped with it if it came in the same read (networking.c:906, where the comment
\* says that the data after the first line is left in the buffer).
ParsedAsWhole ==
  \/ TooLong /\ done = Error
  \/ \E m \in Meanings(stream) :
       IsPrefix(done, m) /\ ((c.alive /\ nread = Len(stream) /\ ~c.blocked) => done = m)
=============================================================================
