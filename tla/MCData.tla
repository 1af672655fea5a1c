------------------------------- MODULE MCData -------------------------------
(***************************************************************************)
(* The data structures and the types built on them, checked one after      *)
(* another in a single run: a behaviour is one of the part the variable    *)
(* `part' names.  The backlog is that of ReplBacklog, which this module    *)
(* extends.  The variables *call record the last command of a type; no     *)
(* guard reads them, so MCView leaves them out.                            *)
(***************************************************************************)
EXTENDS ReplBacklog

CONSTANT NotString       \* a value that is no string, for the commands on bits

VARIABLES
  part,
  zl, lost,              \* Ziplist
  d, can, it, sc,        \* Dict
  zsl,                   \* Skiplist
  zobj, zcall,           \* Zset
  sdb, scall,            \* Sets
  hobj, hcall,           \* Hash
  ldb, lcall,            \* Lists
  pdb, pcall,            \* HyperLogLog
  strs, tcall            \* Bitops

MCBytes == {"a", "b", "garbage"}

Number(n) == [int |-> TRUE, wide |-> FALSE, n |-> n]
Wide == [int |-> TRUE, wide |-> TRUE, n |-> 0]
Str(n) == [int |-> FALSE, wide |-> FALSE, n |-> n]

P == INSTANCE Ziplist WITH
  Values <- {Number(5), Wide, Str(249), Str(300)}, MaxEntries <- 4, Uint16Max <- 3
D == INSTANCE Dict WITH
  Keys <- {1, 2, 3}, Hash <- <<1, 2, 3>>, InitialSize <- 1, ForceRatio <- 1, MaxSize <- 4, None <- NoBuffer
K == INSTANCE Skiplist WITH Elements <- {1, 2, 3}, Scores <- {1, 2}, MaxLevel <- 2
Z == INSTANCE Zset WITH
  call <- zcall, Elements <- {1, 2, 3}, Long <- {3}, MaxEntries <- 2, Inputs <- {-99, 1, 99},
  Inf <- 99, MaxScore <- 2, Other <- {1, 2}, Weights <- {0, 1, 2}
S == INSTANCE Sets WITH
  db <- sdb, call <- scall, Keys <- {"a", "b"}, Ints <- {-4, 1, 20}, Strings <- {101},
  Max16 <- 2, Max32 <- 9, MaxEntries <- 2, UintMod <- 4
H == INSTANCE Hash WITH
  call <- hcall, Fields <- {1, 2, 50}, Values <- {-3, 2, 50}, Incrs <- {-1, 1}, Long <- {50},
  IntMax <- 2, Inexact <- 1000, MaxEntries <- 2
L == INSTANCE Lists WITH
  db <- ldb, call <- lcall, Keys <- {"a", "b"}, Values <- {1, 50}, Long <- {50},
  MaxEntries <- 2, MaxTotal <- 3

\* An element that maps to a register, with its run.
Element(i, n) == [index |-> i, count |-> n]
MCBatches == [k \in {"a", "b"} |->
  IF k = "b" THEN {<<Element(7, 1), Element(0, 2)>>}
  ELSE {<<>>, <<Element(0, 1)>>, <<Element(1, 1)>>, <<Element(2, 1)>>, <<Element(5, 40)>>,
        <<Element(1, 1), Element(0, 1)>>}]

Y == INSTANCE HyperLogLog WITH
  db <- pdb, call <- pcall, Keys <- {"a", "b"}, Batches <- MCBatches, Registers <- 8, ValMaxValue <- 32,
  ValMaxLen <- 2, ZeroMaxLen <- 2, XzeroMaxLen <- 8, Word <- 4, SparseMax <- 4
T == INSTANCE Bitops WITH
  call <- tcall, Keys <- {"a", "b"}, Nil <- NoBuffer, Wrong <- NotString, Word <- 2, Block <- 2,
  Strs <- {<<255, 255, 255>>, <<0, 16>>}, BitOffsets <- {17}, Indexes <- {-9, -1, 0, 1, 5}, MaxLength <- 4

zlvars == <<zl, lost>>
dvars == <<d, can, it, sc>>
zvars == <<zobj, zcall>>
svars == <<sdb, scall>>
hvars == <<hobj, hcall>>
lvars == <<ldb, lcall>>
pvars == <<pdb, pcall>>
tvars == <<strs, tcall>>
all == <<part, vars, zlvars, dvars, zsl, zvars, svars, hvars, lvars, pvars, tvars>>
MCView == <<part, vars, zlvars, dvars, zsl, zobj, sdb, hobj, ldb, pdb, strs>>

MCInit ==
  /\ part \in {"backlog", "ziplist", "dict", "skiplist", "zset", "sets", "hash", "lists", "hll", "bits"}
  /\ Init /\ P!Init /\ D!Init /\ K!Init /\ Z!Init /\ S!Init /\ H!Init /\ L!Init /\ Y!Init /\ T!Init
  /\ part # "backlog" => size = 1

MCNext ==
  /\ UNCHANGED part
  /\ \/ part = "backlog" /\ Next /\ UNCHANGED <<zlvars, dvars, zsl, zvars, svars, hvars, lvars, pvars, tvars>>
     \/ part = "ziplist" /\ P!Next /\ UNCHANGED <<vars, dvars, zsl, zvars, svars, hvars, lvars, pvars, tvars>>
     \/ part = "dict" /\ D!Next /\ UNCHANGED <<vars, zlvars, zsl, zvars, svars, hvars, lvars, pvars, tvars>>
     \/ part = "skiplist" /\ K!Next /\ UNCHANGED <<vars, zlvars, dvars, zvars, svars, hvars, lvars, pvars, tvars>>
     \/ part = "zset" /\ Z!Next /\ UNCHANGED <<vars, zlvars, dvars, zsl, svars, hvars, lvars, pvars, tvars>>
     \/ part = "sets" /\ S!Next /\ UNCHANGED <<vars, zlvars, dvars, zsl, zvars, hvars, lvars, pvars, tvars>>
     \/ part = "hash" /\ H!Next /\ UNCHANGED <<vars, zlvars, dvars, zsl, zvars, svars, lvars, pvars, tvars>>
     \/ part = "lists" /\ L!Next /\ UNCHANGED <<vars, zlvars, dvars, zsl, zvars, svars, hvars, pvars, tvars>>
     \/ part = "hll" /\ Y!Next /\ UNCHANGED <<vars, zlvars, dvars, zsl, zvars, svars, hvars, lvars, tvars>>
     \/ part = "bits" /\ T!Next /\ UNCHANGED <<vars, zlvars, dvars, zsl, zvars, svars, hvars, lvars, pvars>>

MCSpec == MCInit /\ [][MCNext]_all

-----------------------------------------------------------------------------
(* The properties of the parts, as this run checks them.                   *)


\* dict.c: every key is in one slot of one table where dictFind looks for it; while keys
\* come and go and the tables are resized a safe iterator returns every key that stays
\* once, and SCAN returns every key that was there all the time, unless a cursor that a
\* larger table left was used while there were two tables, one at least four times as
\* large as the other: there the guarantee of dict.c:961-962 fails (ScanReturnsAll).
DictRight == part = "dict" => D!TablesConsistent /\ D!SafeIteration /\ D!ScanComplete

\* The skiplist of t_zset.c: levels, spans, backward pointers and tail agree, ranks found
\* by adding spans are positions, and ranges end where their definitions say.
SkiplistRight == part = "skiplist" => K!Linked /\ K!RanksRight /\ K!RangesRight

\* The types in their two encodings: each value is in the encoding its limits allow (but
\* for a long field that HINCRBY or HINCRBYFLOAT added to a ziplist), the
\* parts of an encoding agree (the dict and the skiplist of a sorted set, the cells of an
\* intset, the links of a list), and the reads and algorithms that depend on the encoding
\* give what the abstract value says.
EncodingsRight ==
  /\ part = "zset" => Z!EncodingRight /\ Z!ReadsRight
  /\ part = "sets" => S!IntsetRight /\ S!AlgorithmsAgree
  /\ part = "hash" => H!HashEncodingRight
  /\ part = "lists" => L!AdlistRight /\ L!ListEncodingRight /\ L!ListReadsRight

\* hyperloglog.c: the opcodes of the sparse encoding cover the registers and fit their
\* bytes, a promotion changes a register, a cached cardinality that is marked valid is
\* that of the registers, and the three ways to sum registers agree.
HllRight == part = "hll" => Y!SparseRight /\ Y!PromotionChanges /\ Y!CacheRight /\ Y!SumsAgree

\* GETRANGE, BITCOUNT and BITPOS see the bytes and bits that their indexes name, whatever
\* the length and the alignment of the string (bitops.c, t_string.c).
BitRangesRight == part = "bits" => T!RangesRight /\ T!BitposRight

\* What a step may do to the values: a value that changed was signalled to WATCH and
\* counted as dirty; a deletion by rank removes those ranks; PFADD and PFMERGE take maxima
\* in every register; BITOP and SETBIT compute every bit from those at its position.
WritesRight ==
  [][/\ part = "zset" => Z!ChangesSignalled
     /\ part = "sets" => S!SetChangesSignalled
     /\ part = "hash" => H!HashChangesSignalled
     /\ part = "lists" => L!ListChangesSignalled
     /\ part = "skiplist" => K!RankDeletion
     /\ part = "hll" => Y!RegistersRight
     /\ part = "bits" => T!BitsRight]_all

\* Whatever its encoding, a value changes as the propagated command says: the types
\* implement ZsetSpec, SetSpec, HashSpec and ListSpec.
TypesImplement == Z!Implements /\ S!SetsImplement /\ H!HashImplements /\ L!ListImplements
=============================================================================
