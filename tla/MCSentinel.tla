------------------------------ MODULE MCSentinel ------------------------------
(***************************************************************************)
(* The parts of a Sentinel, checked one after another in a single run: a   *)
(* behaviour is one of the part the variable part names.  The votes are    *)
(* those of SentinelVote, which this module extends.                       *)
(***************************************************************************)
EXTENDS SentinelVote, TLC

VARIABLES
  part,
  fo, inst, wire, failovers, faults,                  \* SentinelFailover
  kind, cc, pc, disc, sent, psent, pending, ping,     \* SentinelLinks
  pong, refresh, sdown, killed, silent, failed,
  queue, running, child,                              \* SentinelScripts
  masters, file, exec, dirty, up                      \* SentinelConfig

Symmetry == Permutations(Seeing)

F == INSTANCE SentinelFailover WITH
  sen <- fo, Addrs <- 1..3, FirstMaster <- 1, None <- 0, Priority <- <<1, 1, 1>>,
  Offset <- <<1, 2, 1>>, Runid <- <<1, 2, 3>>, ParallelSyncs <- 1, MaxFailovers <- 1,
  MaxWire <- 1, MaxFaults <- 1
L == INSTANCE SentinelLinks WITH
  DownAfter <- 1, PingPeriod <- 1, InfoPeriod <- 1, MaxPending <- 3, MaxDrift <- 1
S == INSTANCE SentinelScripts WITH MaxQueue <- 3, MaxRunning <- 2, MaxRetry <- 2
C == INSTANCE SentinelConfig WITH
  Names <- {"m"}, Slaves <- {"a"}, Quorums <- {0, 1}, DownAfters <- {0, 1, 3}, Scripts <- {"", "p"}

fvars == <<fo, inst, wire, failovers, faults>>
lvars == <<kind, cc, pc, disc, sent, psent, pending, ping, pong, refresh, sdown, killed,
           silent, failed>>
svars == <<queue, running, child>>
cvars == <<masters, file, exec, dirty, up>>
all == <<part, vars, fvars, lvars, svars, cvars>>

MCInit ==
  /\ part \in {"vote", "failover", "links", "scripts", "config"}
  /\ Init /\ F!Init /\ L!Init /\ S!Init /\ C!Init
  /\ part # "links" => kind = "redis"

MCNext ==
  \/ part = "vote" /\ Next /\ UNCHANGED <<part, fvars, lvars, svars, cvars>>
  \/ part = "failover" /\ F!Next /\ UNCHANGED <<part, vars, lvars, svars, cvars>>
  \/ part = "links" /\ L!Next /\ UNCHANGED <<part, vars, fvars, svars, cvars>>
  \/ part = "scripts" /\ S!Next /\ UNCHANGED <<part, vars, fvars, lvars, cvars>>
  \/ part = "config" /\ C!Next /\ UNCHANGED <<part, vars, fvars, lvars, svars>>

MCSpec == MCInit /\ [][MCNext]_all

----------------------------------------------------------------------------
(* The properties of the parts, as this run checks them.                   *)

\* promoted_slave points to a slave of the table as long as it may be followed.
PromotedSlave == part = "failover" => F!PromotedSlave

\* A link that is missing is flagged SRI_DISCONNECTED, pending_commands is what was
\* sent to a Sentinel and not answered, and one that no longer answers is
\* subjectively down in time.
LinksRight == part = "links" => L!LinksRight

\* An instance that was not silent for down_after_period is not taken for down.
NoFalseDown == L!NoFalseDown

\* The queue of scripts keeps to its limit, every child belongs to one job of it, and
\* running_scripts is never below the number of jobs that run.
ScriptsTracked == part = "scripts" => S!ScriptsTracked

\* A restart finds what was saved, whichever option of SENTINEL SET was wrong, and the
\* slaves of a master have its down_after_period.
ConfigurationKept == part = "config" => C!ConfigurationKept
===============================================================================
