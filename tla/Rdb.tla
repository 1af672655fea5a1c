-------------------------------- MODULE Rdb --------------------------------
(***************************************************************************)
(* The dump file (data/rdb.c): how values are written and read back, and   *)
(* how rdbSave() replaces the file, with crashes and power losses.         *)
(*                                                                         *)
(* A file is a sequence of tokens: bytes, and a few that stand for several *)
(* bytes that are written and read at once (the signature, a time, a       *)
(* packed value, the checksum).  The checksum of a file is its contents.   *)
(***************************************************************************)
EXTENDS Numbers

CONSTANTS
  Names,           \* keys: [db, name], the name a sequence of bytes
  Values,         \* per key, the values it may have, Nothing among them
  Nothing,
  Configs,         \* [compression, checksum, slave, entries, value, dbnum]
  RdbVersion,      \* REDIS_RDB_VERSION
  Lzf,             \* what lzf_compress makes of the strings it can compress
  LzfMin,          \* 20: no shorter string is compressed
  IntBytes,        \* sizes of integers on disk, <<1, 2, 4>>
  Lengths, Scores, \* lengths and scores to be tried
  MaxNow, MaxSaves

VARIABLES
  db,              \* key -> value
  cfg, now, up,
  disk,            \* the dump file, Nothing if there is none
  tmp,             \* the temp file while it is written: [image, n, synced, data]
  saved,           \* what the dump file has to give back: [data, dbs]
  saves, restored

vars == <<db, cfg, now, up, disk, tmp, saved, saves, restored>>

----------------------------------------------------------------------------
(* Lengths and integers                                                    *)

B(n) == <<"byte", n>>
Bytes(s) == [i \in DOMAIN s |-> B(s[i])]

rdbSaveLen(n) ==
  IF n < 2^6 THEN <<B(n)>>
  ELSE IF n < 2^14 THEN <<B(64 + n \div 256), B(n % 256)>>
  ELSE <<B(128), B(n \div 2^24), B((n \div 2^16) % 256), B((n \div 2^8) % 256), B(n % 256)>>

\* Reads give what was read, r.v, and the next position, r.p; ~r.ok at the end of file.
Short == [ok |-> FALSE, v |-> 0, p |-> 0, enc |-> FALSE]
Got(v, p) == [ok |-> TRUE, v |-> v, p |-> p, enc |-> FALSE]
Has(f, p, n) == p + n - 1 <= Len(f)

rdbLoadLen(f, p) ==
  LET b == f[p][2]
      at(i) == f[p + i][2]
  IN IF ~Has(f, p, 1) THEN Short
     ELSE CASE b \div 64 = 3 -> [Got(b % 64, p + 1) EXCEPT !.enc = TRUE]
            [] b \div 64 = 0 -> Got(b, p + 1)
            [] b \div 64 = 1 -> IF ~Has(f, p, 2) THEN Short ELSE Got((b % 64) * 256 + at(1), p + 2)
            [] OTHER -> IF ~Has(f, p, 5) THEN Short
                        ELSE Got(at(1) * 2^24 + at(2) * 2^16 + at(3) * 2^8 + at(4), p + 5)

Half(k) == 2^(8 * IntBytes[k] - 1)

\* The sizes that can hold an integer.
EncClass(v) == {k \in 1..3 : v >= -Half(k) /\ v <= Half(k) - 1}

\* rdbEncodeInteger: <<>> if there is none.
rdbEncodeInteger(v) ==
  LET k == Min(EncClass(v))
      u == IF v < 0 THEN v + 2 * Half(k) ELSE v
  IN IF EncClass(v) = {} THEN <<>>
     ELSE <<B(192 + (k - 1))>> \o [i \in 1..IntBytes[k] |-> B((u \div 2^(8 * (i - 1))) % 256)]

\* The value of rdbLoadIntegerObject.
rdbLoadInteger(f, p, k) ==
  LET n == IntBytes[k]
      sum[i \in 0..n] == IF i = 0 THEN 0 ELSE sum[i - 1] + f[p + i - 1][2] * 2^(8 * (i - 1))
  IN IF ~Has(f, p, n) THEN Short
     ELSE Got(IF sum[n] >= Half(k) THEN sum[n] - 2 * Half(k) ELSE sum[n], p + n)

----------------------------------------------------------------------------
(* Strings: objects [enc, s, n]                                            *)

Raw(s) == [enc |-> "raw", s |-> s, n |-> 0]
Num(n) == [enc |-> "int", s |-> <<>>, n |-> n]
Text(e) == IF e.enc = "int" THEN ll2string(e.n) ELSE e.s
tryObjectEncoding(e) ==
  LET Then(l) == IF l.ok THEN Num(l.v) ELSE e IN IF e.enc = "raw" THEN Then(string2ll(e.s)) ELSE e

rdbTryIntegerEncoding(s) ==
  LET t == strtoll(s)
  IN IF AtEnd(s, t.eptr) /\ ll2string(t.v) = s THEN rdbEncodeInteger(t.v) ELSE <<>>

rdbSaveRawString(s, compression) ==
  LET Then(e) ==
        IF e # <<>> THEN e
        ELSE IF compression /\ Len(s) > LzfMin /\ s \in DOMAIN Lzf
        THEN <<B(192 + 3)>> \o rdbSaveLen(Len(Lzf[s])) \o rdbSaveLen(Len(s)) \o Bytes(Lzf[s])
        ELSE rdbSaveLen(Len(s)) \o Bytes(s)
  IN Then(IF Len(s) <= 11 THEN rdbTryIntegerEncoding(s) ELSE <<>>)

rdbSaveStringObject(e, compression) ==
  LET Then(i) == IF i # <<>> THEN i ELSE rdbSaveLen(Len(ll2string(e.n))) \o Bytes(ll2string(e.n))
  IN IF e.enc = "raw" THEN rdbSaveRawString(e.s, compression) ELSE Then(rdbEncodeInteger(e.n))

ReadBytes(f, p, n) == IF ~Has(f, p, n) THEN Short ELSE Got([i \in 1..n |-> f[p + i - 1][2]], p + n)

\* lzf_decompress fails if the bytes are no compressed string, or one that is longer
\* than the length; the room that it does not fill has zeros.
rdbLoadLzfString(f, p) ==
  LET Compressed(len, c) ==
        LET of == {s \in DOMAIN Lzf : Lzf[s] = c.v /\ Len(s) <= len}
            s == CHOOSE s \in of : TRUE
        IN IF ~c.ok \/ of = {} THEN Short ELSE Got(Raw(s \o [i \in 1..(len - Len(s)) |-> 0]), c.p)
      Length(clen, len) == IF ~len.ok THEN Short ELSE Compressed(len.v, ReadBytes(f, len.p, clen.v))
      Clen(clen) == IF ~clen.ok THEN Short ELSE Length(clen, rdbLoadLen(f, clen.p))
  IN Clen(rdbLoadLen(f, p))

\* rdbGenericLoadStringObject: with `encode' an integer stays one.
rdbLoadString(f, p, encode) ==
  LET Integer(i) == IF ~i.ok THEN Short ELSE Got(IF encode THEN Num(i.v) ELSE Raw(ll2string(i.v)), i.p)
      Plain(s) == IF ~s.ok THEN Short ELSE Got(Raw(s.v), s.p)
      Then(l) == IF ~l.ok THEN Short
                 ELSE IF l.enc /\ l.v = 3 THEN rdbLoadLzfString(f, l.p)
                 ELSE IF l.enc THEN Integer(rdbLoadInteger(f, l.p, l.v + 1))
                 ELSE Plain(ReadBytes(f, l.p, l.v))
  IN Then(rdbLoadLen(f, p))

----------------------------------------------------------------------------
(* Values: [type, enc, items, ex].  A packed value (ziplist or intset) has *)
(* strings of bytes, the others have string objects; sorted sets and       *)
(* hashes alternate elements and scores, fields and values.  A score is a  *)
(* number of halves, an infinity, or no number.                            *)

Packed(v) == v.enc \in {"ziplist", "intset"}
Width(type) == IF type \in {"zset", "hash"} THEN 2 ELSE 1
Count(v) == Len(v.items) \div Width(v.type)
PosInf == 1000000
NegInf == -1000000
NaN == 1000001

Types == <<"string", "list", "set", "zset", "hash">>
TypeCode(v) ==
  LET t == CHOOSE i \in 1..5 : Types[i] = v.type
  IN IF ~Packed(v) THEN t - 1
     ELSE CASE v.type = "list" -> 10 [] v.type = "set" -> 11 [] v.type = "zset" -> 12 [] v.type = "hash" -> 13

\* ll2string of a whole number, "%.17g" of another (no score is beyond 2^52).
DoubleText(x) ==
  LET abs == IF x < 0 THEN -x ELSE x
  IN IF x % 2 = 0 THEN ll2string(x \div 2)
     ELSE (IF x < 0 THEN <<45>> ELSE <<>>) \o ll2string(abs \div 2) \o <<46, 53>>

rdbSaveDoubleValue(x) ==
  CASE x = NaN -> <<B(253)>> [] x = PosInf -> <<B(254)>> [] x = NegInf -> <<B(255)>>
    [] OTHER -> <<B(Len(DoubleText(x)))>> \o Bytes(DoubleText(x))

\* sscanf of such a text.
ScanDouble(s) ==
  LET neg == s[1] = 45
      t == strtoll(IF neg THEN Tail(s) ELSE s)
      n == Len(s) - (IF neg THEN 1 ELSE 0)
      abs == 2 * t.v + (IF t.eptr <= n THEN 1 ELSE 0)
  IN IF neg THEN -abs ELSE abs

rdbLoadDoubleValue(f, p) ==
  LET s == ReadBytes(f, p + 1, f[p][2])
  IN IF ~Has(f, p, 1) THEN Short
     ELSE CASE f[p][2] = 255 -> Got(NegInf, p + 1) [] f[p][2] = 254 -> Got(PosInf, p + 1)
            [] f[p][2] = 253 -> Got(NaN, p + 1)
            [] OTHER -> IF ~s.ok THEN Short ELSE Got(ScanDouble(s.v), s.p)

IsScore(type, i) == type = "zset" /\ i % 2 = 0

rdbSaveObject(v, compression) ==
  LET item(i) == IF IsScore(v.type, i) THEN rdbSaveDoubleValue(v.items[i])
                 ELSE rdbSaveStringObject(v.items[i], compression)
      all[i \in 0..Len(v.items)] == IF i = 0 THEN <<>> ELSE all[i - 1] \o item(i)
  IN IF v.type = "string" THEN rdbSaveStringObject(v.items[1], compression)
     ELSE IF Packed(v) THEN rdbSaveLen(1) \o <<<<"packed", v.items>>>>
     ELSE rdbSaveLen(Count(v)) \o all[Len(v.items)]

\* n items of a value that is not packed.
LoadItems(f, p, type, n) ==
  LET Read(r, x) == IF ~x.ok THEN [r EXCEPT !.ok = FALSE]
                    ELSE [ok |-> TRUE, p |-> x.p, items |-> Append(r.items, x.v)]
      Item(r, i) == IF ~r.ok THEN r
                    ELSE Read(r, IF IsScore(type, i) THEN rdbLoadDoubleValue(f, r.p) ELSE rdbLoadString(f, r.p, TRUE))
      r[i \in 0..n] == IF i = 0 THEN [ok |-> TRUE, p |-> p, items |-> <<>>] ELSE Item(r[i - 1], i)
  IN r[n]

Long(e, c) == e.enc = "raw" /\ Len(e.s) > c.value

\* The encoding of a value of n elements that was read item by item.
Encoding(type, items, n, c) ==
  LET elements == {items[i] : i \in {j \in DOMAIN items : ~IsScore(type, j)}}
  IN CASE type = "list" -> IF n > c.entries \/ \E e \in elements : Long(e, c) THEN "linkedlist" ELSE "ziplist"
       [] type = "set" -> IF n <= c.entries /\ \A e \in elements : tryObjectEncoding(e).enc = "int" THEN "intset" ELSE "ht"
       [] type = "zset" -> IF n <= c.entries /\ ~\E e \in elements : Long(tryObjectEncoding(e), c)
                           THEN "ziplist" ELSE "skiplist"
       [] type = "hash" -> IF n > c.entries \/ \E e \in elements : Len(Text(e)) > c.value THEN "ht" ELSE "ziplist"

Unpack(type, items) == [i \in DOMAIN items |-> IF IsScore(type, i) THEN items[i] ELSE tryObjectEncoding(Raw(items[i]))]
Pack(type, items) == [i \in DOMAIN items |-> IF IsScore(type, i) THEN items[i] ELSE Text(items[i])]
Loose(type) == CASE type = "list" -> "linkedlist" [] type \in {"set", "hash"} -> "ht" [] type = "zset" -> "skiplist"

\* A packed value stays so unless it has too many elements for this server.
FromPacked(type, items, c) ==
  IF Len(items) \div Width(type) > c.entries
  THEN [type |-> type, enc |-> Loose(type), items |-> Unpack(type, items)]
  ELSE [type |-> type, enc |-> IF type = "set" THEN "intset" ELSE "ziplist", items |-> items]

\* What was read item by item, in the encoding that this server gives it.
FromItems(type, items, n, c) ==
  LET As(enc) ==
        [type |-> type, enc |-> enc,
         items |-> IF enc \in {"ziplist", "intset"} THEN Pack(type, items)
                   ELSE [i \in DOMAIN items |-> IF IsScore(type, i) THEN items[i] ELSE tryObjectEncoding(items[i])]]
  IN As(Encoding(type, items, n, c))

rdbLoadObject(code, f, p, c) ==
  LET type == IF code < 5 THEN Types[code + 1]
              ELSE CASE code = 10 -> "list" [] code = 11 -> "set" [] code = 12 -> "zset" [] code = 13 -> "hash"
      String(s) ==
        IF ~s.ok THEN Short
        ELSE Got([type |-> type, enc |-> "string", items |-> <<tryObjectEncoding(s.v)>>], s.p)
      Items(n, r) == IF ~r.ok THEN Short ELSE Got(FromItems(type, r.items, n, c), r.p)
      Length(l) ==
        IF ~l.ok THEN Short
        ELSE IF code < 5 THEN Items(l.v, LoadItems(f, l.p, type, l.v * Width(type)))
        ELSE IF ~Has(f, l.p, 1) THEN Short
        ELSE Got(FromPacked(type, f[l.p][2], c), l.p + 1)
  IN IF type = "string" THEN String(rdbLoadString(f, p, TRUE)) ELSE Length(rdbLoadLen(f, p))

----------------------------------------------------------------------------
(* Files                                                                   *)

Dbs == {k.db : k \in Names}
KeysOf(d) == {k \in Names : k.db = d /\ db[k] # Nothing}

rdbSaveKeyValuePair(k, v) ==
  IF v.ex # -1 /\ v.ex < now THEN <<>>
  ELSE (IF v.ex = -1 THEN <<>> ELSE <<B(252), <<"ms", v.ex>>>>)
       \o <<B(TypeCode(v))>> \o rdbSaveStringObject(Raw(k.name), cfg.compression) \o rdbSaveObject(v, cfg.compression)

\* The keys of a database in some order.
Sequence(S) == LET r[T \in SUBSET S] == IF T = {} THEN <<>> ELSE LET x == CHOOSE x \in T : TRUE IN Append(r[T \ {x}], x) IN r[S]

rdbSaveRio ==
  LET pairs(ks) == LET r[i \in 0..Len(ks)] == IF i = 0 THEN <<>> ELSE r[i - 1] \o rdbSaveKeyValuePair(ks[i], db[ks[i]]) IN r[Len(ks)]
      part(d) == IF KeysOf(d) = {} THEN <<>> ELSE <<B(254)>> \o rdbSaveLen(d) \o pairs(Sequence(KeysOf(d)))
      parts[i \in 0..Cardinality(Dbs)] == IF i = 0 THEN <<>> ELSE parts[i - 1] \o part(i - 1)
      body == <<<<"REDIS", RdbVersion>>>> \o parts[Cardinality(Dbs)] \o <<B(255)>>
  IN Append(body, <<"sum", IF cfg.checksum THEN body ELSE <<>>>>)

NoKeys == [k \in Names |-> Nothing]

rdbLoadType(f, p) == IF Has(f, p, 1) THEN f[p][2] ELSE -1

\* rdbLoad under a configuration: "ok" and the keys, the process exits, or it is an
\* "err", for the signature or the version.  s is where the loop is: the position, the
\* database, the keys, and "more" while it goes on.
rdbLoad(f, c) ==
  LET Exit(s) == [s EXCEPT !.res = "exit"]
      End(s, p) ==
        [s EXCEPT !.res = IF f[1][2] < 5 \/ ~c.checksum THEN "ok"
                          ELSE IF Len(f) < p + 1 THEN "exit"
                          ELSE IF f[p + 1][2] \in {<<>>, SubSeq(f, 1, p)} THEN "ok" ELSE "exit"]
      Select(s, l) == IF ~l.ok \/ l.v >= c.dbnum THEN Exit(s) ELSE [s EXCEPT !.p = l.p, !.d = l.v]
      Value(s, ex, name, val) ==
        IF ~val.ok THEN Exit(s)
        ELSE IF ~c.slave /\ ex # -1 /\ ex < now THEN [s EXCEPT !.p = val.p]
        ELSE [s EXCEPT !.p = val.p,
                       !.keys = [@ EXCEPT ![[db |-> s.d, name |-> name]] =
                                   [type |-> val.v.type, enc |-> val.v.enc, items |-> val.v.items, ex |-> ex]]]
      Key(s, ex, code, key) ==
        IF ~key.ok THEN Exit(s) ELSE Value(s, ex, key.v.s, rdbLoadObject(code, f, key.p, c))
      Opcode(s, ex, code, p) ==
        CASE code \in {-1, 252} -> Exit(s)
          [] code = 255 -> End(s, p)
          [] code = 254 -> Select(s, rdbLoadLen(f, p + 1))
          [] OTHER -> Key(s, ex, code, rdbLoadString(f, p + 1, FALSE))
      Entry(s, ex, p) == Opcode(s, ex, rdbLoadType(f, p), p)
      Round(s) ==
        IF s.res # "more" THEN s
        ELSE LET timed == Has(f, s.p, 2) /\ f[s.p] = B(252)
             IN Entry(s, IF timed THEN f[s.p + 1][2] ELSE -1, IF timed THEN s.p + 2 ELSE s.p)
      round[i \in 0..Len(f)] ==
        IF i = 0 THEN [p |-> 2, d |-> 0, keys |-> NoKeys,
                       res |-> IF ~Has(f, 1, 1) THEN "exit"
                               ELSE IF f[1][1] = "REDIS" /\ f[1][2] \in 1..RdbVersion THEN "more" ELSE "err"]
        ELSE Round(round[i - 1])
  IN round[Len(f)]

----------------------------------------------------------------------------
(* The server                                                              *)

\* What a value is, whatever its encoding.
Content(v) ==
  LET item(i) == IF IsScore(v.type, i) THEN ll2string(v.items[i]) ELSE IF Packed(v) THEN v.items[i] ELSE Text(v.items[i])
      n == Count(v)
      pairs == {<<item(2 * i - 1), item(2 * i)>> : i \in 1..n}
  IN IF v = Nothing THEN <<"none", {}, -1>>
     ELSE <<v.type, CASE v.type = "set" -> {item(i) : i \in 1..n}
                      [] Width(v.type) = 2 -> pairs
                      [] OTHER -> {<<i, item(i)>> : i \in 1..n}, v.ex>>
Contents(keys) == [k \in Names |-> Content(keys[k])]
Alive(c, t) == [k \in Names |-> IF c[k][3] # -1 /\ c[k][3] < t THEN Content(Nothing) ELSE c[k]]

Change(k) ==
  /\ up /\ k.db < cfg.dbnum
  /\ \E v \in Values[k] : v # db[k] /\ db' = [db EXCEPT ![k] = v]
  /\ UNCHANGED <<cfg, now, up, disk, tmp, saved, saves, restored>>

Tick == now < MaxNow /\ now' = now + 1 /\ UNCHANGED <<db, cfg, up, disk, tmp, saved, saves, restored>>

NoTmp == [image |-> <<>>, n |-> -1, synced |-> 0, data |-> <<>>]

\* The steps of rdbSave(), in a child or not: the temp file, its contents, fsync(),
\* rename().  Each may fail.
SaveBegins ==
  /\ up /\ tmp = NoTmp /\ saves < MaxSaves
  /\ tmp' = [image |-> rdbSaveRio, n |-> 0, synced |-> 0,
             data |-> [data |-> Alive(Contents(db), now), dbs |-> {d \in Dbs : KeysOf(d) # {}}]]
  /\ saves' = saves + 1
  /\ UNCHANGED <<db, cfg, now, up, disk, saved, restored>>

SaveWrites ==
  /\ up /\ tmp.n \in 0..(Len(tmp.image) - 1)
  /\ \E n \in {tmp.n + 1, Len(tmp.image)} : tmp' = [tmp EXCEPT !.n = n]
  /\ UNCHANGED <<db, cfg, now, up, disk, saved, saves, restored>>

SaveSyncs ==
  /\ up /\ tmp.n = Len(tmp.image) /\ tmp.synced = 0
  /\ tmp' = [tmp EXCEPT !.synced = tmp.n]
  /\ UNCHANGED <<db, cfg, now, up, disk, saved, saves, restored>>

SaveRenames_Early ==
  /\ up /\ tmp.n = Len(tmp.image)
  /\ disk' = [image |-> tmp.image, synced |-> tmp.synced] /\ saved' = tmp.data /\ tmp' = NoTmp
  /\ UNCHANGED <<db, cfg, now, up, saves, restored>>

SaveRenames ==
  /\ up /\ tmp.n = Len(tmp.image) /\ tmp.synced = tmp.n
  /\ disk' = [image |-> tmp.image, synced |-> tmp.synced] /\ saved' = tmp.data /\ tmp' = NoTmp
  /\ UNCHANGED <<db, cfg, now, up, saves, restored>>

SaveFails == up /\ tmp # NoTmp /\ tmp' = NoTmp /\ UNCHANGED <<db, cfg, now, up, disk, saved, saves, restored>>

\* A crash, with which what was not synced is lost (a rename() is not).
Crash ==
  /\ up /\ up' = FALSE /\ tmp' = NoTmp
  /\ disk' = IF disk = Nothing THEN disk ELSE [disk EXCEPT !.image = SubSeq(@, 1, disk.synced)]
  /\ db' = NoKeys
  /\ UNCHANGED <<cfg, now, saved, saves, restored>>

\* loadDataFromDisk: a file that cannot be loaded ends the process, one way or other.
Restart ==
  /\ ~up
  /\ \E c \in Configs :
       /\ cfg' = c
       /\ IF disk = Nothing THEN db' = NoKeys /\ restored' = "ok" /\ up' = TRUE
          ELSE \E r \in {rdbLoad(disk.image, c)} : db' = r.keys /\ restored' = r.res /\ up' = (r.res = "ok")
  /\ UNCHANGED <<now, disk, tmp, saved, saves>>

Init ==
  /\ db = NoKeys /\ cfg \in Configs /\ now = 0 /\ up = TRUE
  /\ disk = Nothing /\ tmp = NoTmp /\ saved = [data |-> Contents(NoKeys), dbs |-> {}] /\ saves = 0 /\ restored = "no"

Next ==
  \/ \E k \in Names : Change(k)
  \/ Tick \/ SaveBegins \/ SaveWrites \/ SaveSyncs \/ SaveRenames \/ SaveFails \/ Crash \/ Restart

Spec == Init /\ [][Next]_vars

----------------------------------------------------------------------------
(* Properties.  Those with primes are about every step.                    *)

\* After a crash at any point of a save, with an older dump or without, the server
\* starts with what the last save that was renamed had: the same values, in whatever
\* encodings, but for keys that expired (which a slave keeps).  It exits if it is
\* configured for fewer databases than those the dump selects, also if all the keys of
\* one had expired when it was saved.
RestoredRight ==
  (~up /\ now' = now) =>
    IF \E d \in saved.dbs : d >= cfg'.dbnum THEN restored' = "exit" /\ ~up'
    ELSE /\ restored' = "ok"
         /\ Contents(db') = IF cfg'.slave THEN saved.data ELSE Alive(saved.data, now)

\* A file that is cut anywhere is not taken for a complete one: the process exits, or
\* only the checksum is missing and nobody asked for it.  Nor is one that has another
\* signature or is of a later version.
CutsNoticed ==
  (disk # Nothing /\ ~up) =>
    LET f == disk.image
        cuts == {SubSeq(f, 1, n) : n \in 1..(Len(f) - 1)}
        others == {[f EXCEPT ![1] = m] : m \in {<<"other", RdbVersion>>, <<"REDIS", RdbVersion + 1>>}}
    IN \A c \in Configs : \E loaded \in {[g \in {f} \cup cuts \cup others |-> rdbLoad(g, c)]} :
         /\ \A g \in cuts : loaded[g].res = "exit" \/ (~c.checksum /\ loaded[g].keys = loaded[f].keys)
         /\ \A g \in others : loaded[g].res = "err" /\ loaded[g].keys = NoKeys

\* A value that was loaded is not packed with more elements than the configuration
\* allows, also if the file was written under another one.  (How large the elements of
\* a packed value are is not looked at when it is loaded.)
LimitsKept ==
  (~up /\ up') => \A k \in Names : (db'[k] # Nothing /\ Packed(db'[k])) => Count(db'[k]) <= cfg'.entries

\* Lengths and integers are read back as they were written, at the ends of the ranges
\* of all their encodings; so are scores, whole or not, finite or not.
NumbersRight ==
  /\ \A n \in Lengths : rdbLoadLen(rdbSaveLen(n), 1) = Got(n, 1 + Len(rdbSaveLen(n)))
  /\ \A x \in Scores : rdbLoadDoubleValue(rdbSaveDoubleValue(x), 1) = Got(x, 1 + Len(rdbSaveDoubleValue(x)))
  /\ \A k \in 1..3, d \in {-1, 0}, s \in {-1, 1} :
       LET v == s * Half(k) + d
           e == rdbSaveStringObject(Num(v), FALSE)
       IN rdbLoadString(e, 1, FALSE).v = Raw(ll2string(v)) /\ tryObjectEncoding(rdbLoadString(e, 1, TRUE).v) = Num(v)
=============================================================================
