------------------------------ MODULE MCLiveness ------------------------------
(***************************************************************************)
(* What must happen eventually, of replication (the module this one        *)
(* extends) and of the failover of a master with one slave.  A behaviour   *)
(* is one of the part that the variable part names; the fairness of the    *)
(* other parts is then void.  Replication has two parts: the slaves of the *)
(* configuration, with few writes and saves on disk, and one slave, with   *)
(* more writes and saves of both kinds.                                    *)
(***************************************************************************)
EXTENDS Replication, TLC

VARIABLES part, sen, inst, wire, failovers, trouble

Disk == {FALSE}
FirstSlave == CHOOSE s \in Slaves : TRUE
OneConns == {1, 2}

One == INSTANCE Replication WITH
  Slaves <- {FirstSlave}, Conns <- OneConns, BacklogSize <- 2, DisklessModes <- BOOLEAN,
  MaxVersion <- 2, MaxOffset <- 4, MaxPing <- 2

F == INSTANCE SentinelFailover WITH
  Addrs <- 1..2, FirstMaster <- 1, None <- 0, Priority <- <<1, 1>>, Offset <- <<1, 2>>,
  Runid <- <<1, 2>>, ParallelSyncs <- 1, MaxFailovers <- 1, MaxWire <- 2,
  MaxFaults <- 1, faults <- trouble

fvars == <<sen, inst, wire, failovers, trouble>>
all == <<part, vars, fvars>>

MCInit ==
  /\ F!Init
  /\ \/ part = "one slave" /\ One!Init
     \/ part \in {"two slaves", "failover"} /\ Init

\* The step A of the part with two slaves or B of the part with one.
R(A, B) ==
  /\ \/ part = "two slaves" /\ A
     \/ part = "one slave" /\ B
  /\ UNCHANGED <<part, fvars>>
O(A) == part = "failover" /\ A /\ UNCHANGED <<part, vars>>

MCNext == R(Next, One!Next) \/ O(F!Next)

\* Replication!Fairness and SentinelFailover!Fairness.
MCFairness ==
  /\ WF_all(R(\E ok \in BOOLEAN, outcome \in Outcomes : SaveDoneDisk(ok, outcome),
              \E ok \in BOOLEAN, outcome \in Outcomes : One!SaveDoneDisk(ok, outcome)))
  /\ WF_all(R(\E ok \in BOOLEAN, outcome \in Outcomes : SaveDoneSocket(ok, outcome),
              \E ok \in BOOLEAN, outcome \in Outcomes : One!SaveDoneSocket(ok, outcome)))
  /\ WF_all(R(\E outcome \in Outcomes : CronBgsave(outcome),
              \E outcome \in Outcomes : One!CronBgsave(outcome)))
  /\ \A c \in Conns :
       /\ WF_all(R(StreamRdb(c), c \in OneConns /\ One!StreamRdb(c)))
       /\ WF_all(R(sendBulkToSlave(c), c \in OneConns /\ One!sendBulkToSlave(c)))
       /\ WF_all(R(replconfCommand(c), c \in OneConns /\ One!replconfCommand(c)))
       /\ WF_all(R(conn[c].peer = NoSlave /\ FreeSlave(c),
                   c \in OneConns /\ conn[c].peer = NoSlave /\ One!FreeSlave(c)))
  /\ \A s \in Slaves :
       /\ WF_all(R(PartialResync(s) \/ FullResync(s),
                   s = FirstSlave /\ (One!PartialResync(s) \/ One!FullResync(s))))
       /\ WF_all(R(LoadRdb(s) \/ LoadFails(s) \/ ReadItem(s),
                   s = FirstSlave /\ (One!LoadRdb(s) \/ One!LoadFails(s) \/ One!ReadItem(s))))
       /\ WF_all(R(slave[s].conn # 0 /\ conn[slave[s].conn].state = "closed" /\ LoseMaster(s),
                   /\ s = FirstSlave /\ slave[s].conn # 0
                   /\ conn[slave[s].conn].state = "closed" /\ One!LoseMaster(s)))
  /\ WF_all(O(F!HandleMaster(TRUE, TRUE))) /\ WF_all(O(F!HandleMasterReconf(TRUE, TRUE)))
  /\ WF_all(O(F!RefreshMasterInfo))
  /\ \A a \in 1..2 : /\ WF_all(O(F!HandleSlave(a, TRUE, TRUE)))
                     /\ WF_all(O(F!RefreshInstanceInfo(a, TRUE, FALSE)))
                     /\ WF_all(O(\E i \in 1..2 : F!RunSlaveOf(a, i)))

MCSpec == MCInit /\ [][MCNext]_all /\ MCFairness

----------------------------------------------------------------------------

\* Once faults cease every slave gets connected, stays connected and catches up with
\* the writes that were propagated while it was attached, whatever it went through
\* before: with saves on disk, and with saves to sockets when there is one slave.
\* (Two slaves can turn each other away from saves to sockets for ever: the one that
\* attaches while a child runs is moved to WAIT_BGSAVE_END, replication.c:751, and
\* closed at the end of the next child, which does not serve it.)
SlavesCatchUp ==
  part # "failover" =>
    <>[](IF part = "two slaves" THEN InSync ELSE part = "one slave" /\ One!InSync)

\* A failover that was started ends, unless the slave promoted by it is down.
FailoverEnds == F!FailoverEnds

\* The slaves that run come to replicate from a master that stays up.
EventuallyConfigured == F!EventuallyConfigured
===============================================================================
