---------------------------- MODULE SentinelLemmas ---------------------------
(***************************************************************************)
(* The inductive invariant of SentinelVote, what the functions of a        *)
(* Sentinel do to it, and how majorities meet.  The theorems that rest on  *)
(* these lemmas are in SentinelProofs.                                     *)
(***************************************************************************)
EXTENDS SentinelVote, FiniteSetTheorems, TLAPS

----------------------------------------------------------------------------
(* The inductive invariant.                                                *)

Sen == [epoch : Nat, addr : Addrs, cfg : Nat, leader : Sentinels \cup {Nobody},
        leaderEpoch : Nat, state : States, failoverEpoch : Nat, promoted : Addrs,
        recent : BOOLEAN, disk : Config]

\* One Sentinel: nothing it holds has an epoch it has not reached, the vote is in the
\* file, and so is the epoch of the vote and of the configuration.
Ok(r) ==
  /\ r \in Sen
  /\ r.epoch <= MaxEpoch /\ r.leaderEpoch <= r.epoch /\ r.cfg <= r.epoch
  /\ r.failoverEpoch <= r.epoch /\ (r.state # "none" => r.failoverEpoch >= 1)
  /\ r.disk.leaderEpoch = r.leaderEpoch
  /\ r.disk.leaderEpoch <= r.disk.epoch /\ r.disk.cfg <= r.disk.epoch /\ r.disk.epoch <= r.epoch

SenOK == sen \in [Sentinels -> Sen] /\ \A s \in Sentinels : Ok(sen[s])

AsksOK == asks \subseteq [from : Sentinels, addr : Addrs, epoch : 0..MaxEpoch]

\* Votes are not above the last epoch voted in, one for each epoch, and the leader a
\* Sentinel names is one it voted for.
Vote(s, c, e) == [by |-> s, leader |-> c, epoch |-> e]
VotesOK ==
  /\ votes \subseteq [by : Sentinels, leader : Sentinels, epoch : Nat]
  /\ \A v \in votes : v.epoch <= sen[v.by].leaderEpoch
  /\ \A v, u \in votes : v.by = u.by /\ v.epoch = u.epoch => v.leader = u.leader
  /\ \A s \in Sentinels :
       sen[s].leader # Nobody => Vote(s, sen[s].leader, sen[s].leaderEpoch) \in votes

\* A majority voted for the winner of a clean election.
Voters(c, e) == {t \in Sentinels : Vote(t, c, e) \in votes}
Majority == Cardinality(Sentinels) \div 2 + 1
ElectedOK ==
  /\ elected \subseteq [by : Sentinels, epoch : Nat, clean : BOOLEAN]
  /\ \A x \in elected : x.clean => Cardinality(Voters(x.by, x.epoch)) >= Majority

\* The configurations in memory, as they are published, and in the files.
Said(r) == {[cfg |-> r.cfg, addr |-> CurrentMasterAddress(r)],
            [cfg |-> r.disk.cfg, addr |-> r.disk.addr]}
Known == UNION {Said(sen[s]) : s \in Sentinels}

\* A clean election is won once: its epoch is in the file of the winner, and a later
\* failover of the winner has a higher one.
WonOnce ==
  /\ \A x \in elected : x.clean =>
       /\ x.epoch <= sen[x.by].disk.epoch
       /\ sen[x.by].state = "wait_start" => x.epoch < sen[x.by].failoverEpoch
  /\ \A s \in Sentinels : sen[s].state \in {"elected", "reconf_slaves"} =>
       \E x \in elected : x.by = s /\ x.epoch = sen[s].failoverEpoch

\* A configuration comes from an election, is not there before the slave was promoted,
\* and there is one for each epoch.
KnownOK ==
  /\ \A k \in Known : k.cfg = 0 => k.addr = FirstMaster
  /\ \A k \in Known : k.cfg > 0 => \E x \in elected : x.epoch = k.cfg
  /\ \A s \in Sentinels : sen[s].state = "elected" /\ ~Contested(sen[s].failoverEpoch) =>
       \A k \in Known : k.cfg # sen[s].failoverEpoch
  /\ \A k, l \in Known : k.cfg = l.cfg /\ ~Contested(k.cfg) /\ k.cfg \notin mixed => k.addr = l.addr

IInv ==
  /\ SenOK /\ AsksOK /\ VotesOK /\ ElectedOK /\ WonOnce /\ KnownOK /\ restarts \in 0..MaxRestarts

----------------------------------------------------------------------------
(* What the functions do to one Sentinel.                                  *)

\* No vote is given, nothing new is said, and a failover goes on or is over.
Quiet(r, n) == n.leaderEpoch = r.leaderEpoch /\ n.leader \in {r.leader, Nobody}
Goes(r, n) == n.state = "none" \/ (n.state = r.state /\ n.failoverEpoch = r.failoverEpoch)
Keeps(r, n) == Ok(n) /\ n.disk.epoch >= r.disk.epoch /\ Said(n) \subseteq Said(r) /\ Goes(r, n)

LEMMA FlushFields ==
  ASSUME NEW r \in Sen, NEW f, f = sentinelFlushConfig(r)
  PROVE  /\ f \in Sen
         /\ f.epoch = r.epoch /\ f.addr = r.addr /\ f.cfg = r.cfg /\ f.leader = r.leader
         /\ f.leaderEpoch = r.leaderEpoch /\ f.state = r.state /\ f.failoverEpoch = r.failoverEpoch
         /\ f.promoted = r.promoted
         /\ f.disk = [epoch |-> r.epoch, addr |-> CurrentMasterAddress(r), cfg |-> r.cfg,
                      leaderEpoch |-> r.leaderEpoch]
<1>1. CurrentMasterAddress(r) \in Addrs BY DEF CurrentMasterAddress, Sen
<1> QED BY <1>1 DEF sentinelFlushConfig, Sen, Config

\* Writing the file keeps a Sentinel in order if its epochs are.
LEMMA FlushKeeps ==
  ASSUME NEW r \in Sen, NEW f, f = sentinelFlushConfig(r),
         r.epoch <= MaxEpoch, r.leaderEpoch <= r.epoch, r.cfg <= r.epoch,
         r.failoverEpoch <= r.epoch, r.state # "none" => r.failoverEpoch >= 1
  PROVE  Ok(f) /\ Said(f) = {[cfg |-> r.cfg, addr |-> CurrentMasterAddress(r)]}
<1>1. /\ f \in Sen
      /\ f.epoch = r.epoch /\ f.addr = r.addr /\ f.cfg = r.cfg /\ f.leader = r.leader
      /\ f.leaderEpoch = r.leaderEpoch /\ f.state = r.state /\ f.failoverEpoch = r.failoverEpoch
      /\ f.promoted = r.promoted
      /\ f.disk = [epoch |-> r.epoch, addr |-> CurrentMasterAddress(r), cfg |-> r.cfg,
                   leaderEpoch |-> r.leaderEpoch]
  BY FlushFields
<1>2. /\ f.disk.epoch = r.epoch /\ f.disk.addr = CurrentMasterAddress(r) /\ f.disk.cfg = r.cfg
      /\ f.disk.leaderEpoch = r.leaderEpoch
  BY <1>1
<1>3. Ok(f)
  <2>1. r.epoch \in Nat BY DEF Sen
  <2> QED BY <1>1, <1>2, <2>1 DEF Ok
<1>4. CurrentMasterAddress(f) = CurrentMasterAddress(r) BY <1>1 DEF CurrentMasterAddress
<1> QED BY <1>1, <1>2, <1>3, <1>4 DEF Said

LEMMA NewEpochKeeps ==
  ASSUME NEW r, Ok(r), NEW e \in 0..MaxEpoch, NEW n, n = NewEpoch(r, e)
  PROVE  /\ Keeps(r, n) /\ Quiet(r, n) /\ n.state = r.state /\ n.failoverEpoch = r.failoverEpoch
         /\ n.cfg = r.cfg /\ n.addr = r.addr /\ n.promoted = r.promoted
         /\ n.leader = r.leader
         /\ n.epoch = IF e > r.epoch THEN e ELSE r.epoch
<1>1. CASE e > r.epoch
  <2> DEFINE m == [r EXCEPT !.epoch = e]
  <2>1. /\ m \in Sen /\ m.epoch = e /\ m.cfg = r.cfg /\ m.leaderEpoch = r.leaderEpoch
        /\ m.leader = r.leader /\ m.state = r.state /\ m.failoverEpoch = r.failoverEpoch
        /\ m.addr = r.addr /\ m.promoted = r.promoted
    BY DEF Ok, Sen
  <2>2. CurrentMasterAddress(m) = CurrentMasterAddress(r) BY <2>1 DEF CurrentMasterAddress
  <2>3. n = sentinelFlushConfig(m) BY <1>1 DEF NewEpoch
  <2>4. /\ m.epoch <= MaxEpoch /\ m.leaderEpoch <= m.epoch /\ m.cfg <= m.epoch
        /\ m.failoverEpoch <= m.epoch /\ (m.state # "none" => m.failoverEpoch >= 1)
    BY <1>1, <2>1, QuorumAssumption DEF Ok, Sen
  <2> HIDE DEF m
  <2>5. Ok(n) /\ Said(n) = {[cfg |-> m.cfg, addr |-> CurrentMasterAddress(m)]}
    BY <2>1, <2>3, <2>4, FlushKeeps
  <2>6. /\ n.epoch = m.epoch /\ n.addr = m.addr /\ n.cfg = m.cfg /\ n.leader = m.leader
        /\ n.leaderEpoch = m.leaderEpoch /\ n.state = m.state /\ n.failoverEpoch = m.failoverEpoch
        /\ n.promoted = m.promoted
        /\ n.disk = [epoch |-> m.epoch, addr |-> CurrentMasterAddress(m), cfg |-> m.cfg,
                     leaderEpoch |-> m.leaderEpoch]
    BY <2>1, <2>3, FlushFields, ZenonT(60)
  <2>7. Said(n) \subseteq Said(r) BY <2>1, <2>2, <2>5 DEF Said
  <2>8. n.disk.epoch >= r.disk.epoch
    BY <1>1, <2>1, <2>6 DEF Ok, Sen, Config
  <2> QED BY <1>1, <2>1, <2>5, <2>6, <2>7, <2>8 DEF Keeps, Quiet, Goes
<1>2. CASE ~(e > r.epoch)
  <2>1. n = r BY <1>2 DEF NewEpoch
  <2> QED BY <1>2, <2>1 DEF Keeps, Quiet, Goes, Ok, Sen, Config
<1> QED BY <1>1, <1>2

\* sentinelVoteLeader: the vote given, if any, is for the epoch asked for, which is
\* above all voted in before; without one the epoch asked for is not the current one
\* or was voted in.
LEMMA VoteKeeps ==
  ASSUME NEW r, Ok(r), NEW s, NEW e \in 0..MaxEpoch, NEW c \in Sentinels,
         NEW n, n = sentinelVoteLeader(r, s, e, c)
  PROVE  /\ Keeps(r, n) /\ n.state = r.state /\ n.failoverEpoch = r.failoverEpoch
         /\ n.addr = r.addr /\ n.epoch = IF e > r.epoch THEN e ELSE r.epoch
         /\ \/ n.leaderEpoch = r.leaderEpoch /\ n.leader = r.leader
            \/ n.leaderEpoch > r.leaderEpoch /\ n.leader = c /\ n.leaderEpoch = e
         /\ n.epoch = e => n.leaderEpoch >= e
<1>1. PICK m : m = NewEpoch(r, e) OBVIOUS
<1>2. /\ Keeps(r, m) /\ m.state = r.state /\ m.failoverEpoch = r.failoverEpoch
      /\ m.cfg = r.cfg /\ m.addr = r.addr /\ m.promoted = r.promoted /\ m.leader = r.leader
      /\ m.leaderEpoch = r.leaderEpoch
      /\ m.epoch = IF e > r.epoch THEN e ELSE r.epoch
  BY <1>1, NewEpochKeeps DEF Quiet
<1>3. Ok(m) /\ m \in Sen BY <1>2 DEF Keeps, Ok
<1>4. m.leaderEpoch \in Nat /\ m.epoch \in Nat /\ r.epoch \in Nat /\ e \in Nat /\ r.leaderEpoch \in Nat
  BY <1>3, QuorumAssumption DEF Sen, Ok
<1>5. CASE MayVote(m, e)
  <2> DEFINE v == [m EXCEPT !.leader = c, !.leaderEpoch = m.epoch, !.recent = @ \/ c # s]
  <2>1. m.leaderEpoch < e /\ m.epoch <= e BY <1>5 DEF MayVote
  <2>2. m.epoch = e BY <2>1, <1>2, <1>4
  <2>3. n = sentinelFlushConfig(v) BY <1>1, <1>5 DEF sentinelVoteLeader
  <2>4. (m.recent \/ c # s) \in BOOLEAN OBVIOUS
  <2>5. /\ v \in Sen /\ v.epoch = m.epoch /\ v.cfg = m.cfg /\ v.leaderEpoch = m.epoch
        /\ v.leader = c /\ v.state = m.state /\ v.failoverEpoch = m.failoverEpoch
        /\ v.addr = m.addr /\ v.promoted = m.promoted
    BY Zenon, <1>3, <2>4 DEF Sen
  <2> HIDE DEF v
  <2>6. /\ v.epoch <= MaxEpoch /\ v.leaderEpoch <= v.epoch /\ v.cfg <= v.epoch
        /\ v.failoverEpoch <= v.epoch /\ (v.state # "none" => v.failoverEpoch >= 1)
    BY <1>3, <1>4, <2>5 DEF Ok
  <2>7. CurrentMasterAddress(v) = CurrentMasterAddress(m) BY <2>5 DEF CurrentMasterAddress
  <2>8. Ok(n) /\ Said(n) = {[cfg |-> v.cfg, addr |-> CurrentMasterAddress(v)]}
    BY <2>3, <2>5, <2>6, FlushKeeps
  <2>9. /\ n.epoch = v.epoch /\ n.addr = v.addr /\ n.leader = v.leader
        /\ n.leaderEpoch = v.leaderEpoch /\ n.state = v.state /\ n.failoverEpoch = v.failoverEpoch
        /\ n.disk = [epoch |-> v.epoch, addr |-> CurrentMasterAddress(v), cfg |-> v.cfg,
                     leaderEpoch |-> v.leaderEpoch]
    BY <2>3, <2>5, FlushFields, Zenon
  <2>10. Said(n) \subseteq Said(m) BY <2>5, <2>7, <2>8 DEF Said
  <2>11. Said(n) \subseteq Said(r) BY <2>10, <1>2 DEF Keeps
  <2>12. n.disk.epoch >= r.disk.epoch
    <3>1. m.disk.epoch >= r.disk.epoch /\ m.disk.epoch <= m.epoch BY <1>2, <1>3 DEF Keeps, Ok
    <3>2. m.disk.epoch \in Nat /\ r.disk.epoch \in Nat BY <1>3 DEF Ok, Sen, Config
    <3>3. n.disk.epoch = m.epoch BY <2>5, <2>9
    <3> QED BY <3>1, <3>2, <3>3, <1>4
  <2> QED BY <1>2, <1>4, <2>1, <2>2, <2>5, <2>8, <2>9, <2>11, <2>12 DEF Keeps, Goes
<1>6. CASE ~MayVote(m, e)
  <2>1. n = m BY <1>1, <1>6 DEF sentinelVoteLeader
  <2>2. ~(m.leaderEpoch < e) \/ ~(m.epoch <= e) BY <1>6 DEF MayVote
  <2> QED BY <1>2, <1>4, <2>1, <2>2
<1> QED BY <1>5, <1>6

LEMMA StartFields ==
  ASSUME NEW r, Ok(r), r.state = "none", r.epoch < MaxEpoch, NEW b, b = sentinelStartFailover(r)
  PROVE  /\ Ok(b) /\ b.disk = r.disk /\ Said(b) = Said(r) /\ b.state = "wait_start"
         /\ b.epoch = r.epoch + 1 /\ b.failoverEpoch = r.epoch + 1 /\ b.addr = r.addr
         /\ b.leader = r.leader /\ b.leaderEpoch = r.leaderEpoch
<1>1. r \in Sen /\ r.epoch \in Nat BY DEF Ok, Sen
<1>2. /\ b \in Sen /\ b.disk = r.disk /\ b.state = "wait_start" /\ b.addr = r.addr
      /\ b.epoch = r.epoch + 1 /\ b.failoverEpoch = r.epoch + 1 /\ b.cfg = r.cfg
      /\ b.leader = r.leader /\ b.leaderEpoch = r.leaderEpoch
  <2>1. PICK e : e = r.epoch + 1 OBVIOUS
  <2>2. e \in Nat /\ TRUE \in BOOLEAN BY <1>1, <2>1
  <2>3. b = [r EXCEPT !.state = "wait_start", !.epoch = e, !.failoverEpoch = e, !.recent = TRUE]
    BY <2>1 DEF sentinelStartFailover
  <2>4. b \in Sen BY Zenon, <1>1, <2>2, <2>3 DEF Sen, States
  <2>5. /\ b.disk = r.disk /\ b.state = "wait_start" /\ b.addr = r.addr
        /\ b.epoch = e /\ b.failoverEpoch = e /\ b.cfg = r.cfg
        /\ b.leader = r.leader /\ b.leaderEpoch = r.leaderEpoch
    BY <1>1, <2>3 DEF Sen
  <2> QED BY <2>1, <2>4, <2>5
<1>3. CurrentMasterAddress(b) = CurrentMasterAddress(r) BY <1>2 DEF CurrentMasterAddress
<1>4. Ok(b)
  <2>1. r.leaderEpoch \in Nat /\ r.cfg \in Nat /\ r.disk.epoch \in Nat BY <1>1 DEF Sen, Config
  <2> QED BY <1>1, <1>2, <2>1, QuorumAssumption DEF Ok
<1> QED BY <1>2, <1>3, <1>4 DEF Said

LEMMA AbortKeeps ==
  ASSUME NEW r, Ok(r), r.state \in {"wait_start", "elected"}, NEW b, b = sentinelAbortFailover(r)
  PROVE  /\ Keeps(r, b) /\ b.state = "none" /\ b.leader = r.leader /\ b.leaderEpoch = r.leaderEpoch
         /\ b.epoch = r.epoch /\ b.addr = r.addr /\ b.disk = r.disk
<1>1. r \in Sen BY DEF Ok
<1>2. /\ b \in Sen /\ b.disk = r.disk /\ b.state = "none" /\ b.addr = r.addr
      /\ b.epoch = r.epoch /\ b.failoverEpoch = 0 /\ b.cfg = r.cfg
      /\ b.leader = r.leader /\ b.leaderEpoch = r.leaderEpoch
  BY Zenon, <1>1 DEF sentinelAbortFailover, Sen, States
<1>3. CurrentMasterAddress(b) = CurrentMasterAddress(r) BY <1>2 DEF CurrentMasterAddress
<1>4. Ok(b) /\ r.disk.epoch \in Nat BY <1>1, <1>2 DEF Ok, Sen, Config
<1> QED BY <1>2, <1>3, <1>4 DEF Said, Keeps, Goes

LEMMA ResetFields ==
  ASSUME NEW r \in Sen, r.epoch <= MaxEpoch, r.leaderEpoch <= r.epoch, r.cfg <= r.epoch,
         NEW a \in Addrs, NEW n, n = sentinelResetMasterAndChangeAddress(r, a)
  PROVE  /\ Ok(n) /\ Said(n) = {[cfg |-> r.cfg, addr |-> a]} /\ n.state = "none"
         /\ n.leaderEpoch = r.leaderEpoch /\ n.leader = Nobody
         /\ n.epoch = r.epoch /\ n.disk.epoch = r.epoch /\ n.cfg = r.cfg
         /\ CurrentMasterAddress(n) = a
<1> DEFINE m == [r EXCEPT !.addr = a, !.leader = Nobody, !.state = "none", !.failoverEpoch = 0,
                          !.promoted = a, !.recent = FALSE]
<1>1. m \in Sen BY Zenon DEF Sen, States
<1>2. /\ m.epoch = r.epoch /\ m.cfg = r.cfg /\ m.leaderEpoch = r.leaderEpoch
      /\ m.leader = Nobody /\ m.state = "none" /\ m.failoverEpoch = 0 /\ m.addr = a
  BY DEF Sen
<1>3. n = sentinelFlushConfig(m) BY DEF sentinelResetMasterAndChangeAddress
<1> HIDE DEF m
<1>4. CurrentMasterAddress(m) = a BY <1>2 DEF CurrentMasterAddress
<1>5. m.epoch <= MaxEpoch /\ m.leaderEpoch <= m.epoch /\ m.cfg <= m.epoch /\ m.failoverEpoch <= m.epoch
  BY <1>2 DEF Sen
<1>6. Ok(n) /\ Said(n) = {[cfg |-> m.cfg, addr |-> CurrentMasterAddress(m)]}
  BY <1>1, <1>2, <1>3, <1>5, FlushKeeps
<1>7. /\ n.epoch = m.epoch /\ n.addr = m.addr /\ n.leader = m.leader /\ n.cfg = m.cfg
      /\ n.leaderEpoch = m.leaderEpoch /\ n.state = m.state
      /\ n.disk = [epoch |-> m.epoch, addr |-> CurrentMasterAddress(m), cfg |-> m.cfg,
                   leaderEpoch |-> m.leaderEpoch]
  BY <1>1, <1>3, FlushFields, ZenonT(60)
<1>8. CurrentMasterAddress(n) = a BY <1>2, <1>7 DEF CurrentMasterAddress
<1> QED BY <1>2, <1>4, <1>6, <1>7, <1>8

\* A newer configuration: what is said afterwards was said before, or is it, or is
\* counted as mixed.
LEMMA NewerKeeps ==
  ASSUME NEW r, Ok(r), NEW a \in Addrs, NEW g \in Nat, g <= r.epoch, NEW n, n = Newer(r, a, g)
  PROVE  /\ Ok(n) /\ n.disk.epoch >= r.disk.epoch /\ Goes(r, n) /\ Quiet(r, n)
         /\ \A k \in Said(n) : \/ k \in Said(r)
                               \/ k = [cfg |-> g, addr |-> a]
                               \/ /\ g > r.cfg /\ n.cfg = g /\ CurrentMasterAddress(n) # a
                                  /\ k.cfg = g
<1>1. r \in Sen /\ r.epoch \in Nat /\ r.cfg \in Nat /\ r.disk.epoch \in Nat BY DEF Ok, Sen, Config
<1>2. CASE r.cfg < g
  <2>1. PICK m : m = [r EXCEPT !.cfg = g] BY Zenon
  <2>2. /\ m \in Sen /\ m.epoch = r.epoch /\ m.cfg = g /\ m.leaderEpoch = r.leaderEpoch
        /\ m.leader = r.leader /\ m.state = r.state /\ m.failoverEpoch = r.failoverEpoch
        /\ m.addr = r.addr /\ m.disk = r.disk /\ m.promoted = r.promoted
    BY <1>1, <2>1 DEF Sen
  <2>3. CASE a # r.addr
    <3>1. n = sentinelResetMasterAndChangeAddress(m, a) BY <1>2, <2>1, <2>3 DEF Newer
    <3>2. m.epoch <= MaxEpoch /\ m.leaderEpoch <= m.epoch /\ m.cfg <= m.epoch
      BY <2>2 DEF Ok
    <3>3. /\ Ok(n) /\ Said(n) = {[cfg |-> m.cfg, addr |-> a]} /\ n.state = "none"
          /\ n.leaderEpoch = m.leaderEpoch /\ n.leader = Nobody
          /\ n.epoch = m.epoch /\ n.disk.epoch = m.epoch
      BY <2>2, <3>1, <3>2, ResetFields
    <3>4. n.disk.epoch >= r.disk.epoch BY <1>1, <2>2, <3>3 DEF Ok
    <3>5. \A k \in Said(n) : k = [cfg |-> g, addr |-> a] BY <2>2, <3>3
    <3> QED BY <2>2, <3>3, <3>4, <3>5 DEF Goes, Quiet
  <2>4. CASE a = r.addr
    <3>1. n = m BY <1>2, <2>1, <2>4 DEF Newer
    <3>2. Ok(n) BY <2>2, <3>1 DEF Ok
    <3>3. n.disk.epoch >= r.disk.epoch /\ Goes(r, n) /\ Quiet(r, n)
      BY <1>1, <2>2, <3>1 DEF Goes, Quiet
    <3>4. SUFFICES ASSUME NEW k \in Said(n)
                   PROVE  \/ k \in Said(r)
                          \/ k = [cfg |-> g, addr |-> a]
                          \/ /\ g > r.cfg /\ n.cfg = g /\ CurrentMasterAddress(n) # a
                             /\ k.cfg = g
      BY <3>2, <3>3
    <3>5. CASE k = [cfg |-> n.disk.cfg, addr |-> n.disk.addr]
      BY <2>2, <3>1, <3>5 DEF Said
    <3>6. CASE k = [cfg |-> n.cfg, addr |-> CurrentMasterAddress(n)]
      BY <1>2, <2>2, <3>1, <3>6
    <3> QED BY <3>5, <3>6 DEF Said
  <2> QED BY <2>3, <2>4
<1>3. CASE ~(r.cfg < g)
  <2>1. n = r BY <1>3 DEF Newer
  <2> QED BY <1>1, <2>1 DEF Goes, Quiet
<1> QED BY <1>2, <1>3

\* The slave was promoted: the epoch of the failover is that of the new configuration.
LEMMA PromotedKeeps ==
  ASSUME NEW r, Ok(r), r.state = "elected", NEW i \in Addrs,
         NEW n, n = sentinelFlushConfig([r EXCEPT !.cfg = r.failoverEpoch,
                                                  !.state = "reconf_slaves", !.promoted = i])
  PROVE  /\ Ok(n) /\ n.disk.epoch >= r.disk.epoch /\ Quiet(r, n)
         /\ n.state = "reconf_slaves" /\ n.failoverEpoch = r.failoverEpoch
         /\ Said(n) = {[cfg |-> r.failoverEpoch, addr |-> i]}
<1>1. /\ r \in Sen /\ r.epoch \in Nat /\ r.cfg \in Nat /\ r.disk.epoch \in Nat
      /\ r.failoverEpoch \in Nat
  BY DEF Ok, Sen, Config
<1>2. PICK m : m = [r EXCEPT !.cfg = r.failoverEpoch, !.state = "reconf_slaves", !.promoted = i]
  OBVIOUS
<1>3. /\ m \in Sen /\ m.epoch = r.epoch /\ m.cfg = r.failoverEpoch /\ m.leaderEpoch = r.leaderEpoch
      /\ m.leader = r.leader /\ m.state = "reconf_slaves" /\ m.failoverEpoch = r.failoverEpoch
      /\ m.promoted = i
  BY Zenon, <1>1, <1>2 DEF Sen, States
<1>4. n = sentinelFlushConfig(m) BY <1>2
<1>5. /\ m.epoch <= MaxEpoch /\ m.leaderEpoch <= m.epoch /\ m.cfg <= m.epoch
      /\ m.failoverEpoch <= m.epoch /\ m.failoverEpoch >= 1
  BY <1>3 DEF Ok
<1>6. Ok(n) /\ Said(n) = {[cfg |-> m.cfg, addr |-> CurrentMasterAddress(m)]}
  BY <1>3, <1>4, <1>5, FlushKeeps
<1>7. CurrentMasterAddress(m) = i BY <1>3 DEF CurrentMasterAddress
<1>8. /\ n.epoch = m.epoch /\ n.leader = m.leader /\ n.leaderEpoch = m.leaderEpoch
      /\ n.state = m.state /\ n.failoverEpoch = m.failoverEpoch
      /\ n.disk = [epoch |-> m.epoch, addr |-> CurrentMasterAddress(m), cfg |-> m.cfg,
                   leaderEpoch |-> m.leaderEpoch]
  BY <1>3, <1>4, FlushFields, Zenon
<1>9. n.disk.epoch >= r.disk.epoch BY <1>1, <1>3, <1>8 DEF Ok
<1> QED BY <1>3, <1>6, <1>7, <1>8, <1>9 DEF Quiet

\* A restart: memory is what the file says.
LEMMA LoadedKeeps ==
  ASSUME NEW r, Ok(r), NEW n, n = Loaded(r.disk)
  PROVE  /\ Keeps(r, n) /\ Quiet(r, n) /\ n.state = "none"
<1>1. /\ r.disk \in Config /\ r.disk.epoch \in Nat /\ r.disk.cfg \in Nat
      /\ r.disk.leaderEpoch \in Nat /\ r.disk.addr \in Addrs /\ r.epoch \in Nat
  BY DEF Ok, Sen, Config
<1>2. n = [epoch |-> r.disk.epoch, addr |-> r.disk.addr, cfg |-> r.disk.cfg, leader |-> Nobody,
           leaderEpoch |-> r.disk.leaderEpoch, state |-> "none", failoverEpoch |-> 0,
           promoted |-> r.disk.addr, recent |-> FALSE, disk |-> r.disk]
  <2>1. ~(r.disk.cfg > r.disk.epoch) BY <1>1 DEF Ok
  <2> QED BY Zenon, <2>1 DEF Loaded
<1>3. n \in Sen BY <1>1, <1>2 DEF Sen, States
<1>4. /\ n.epoch = r.disk.epoch /\ n.addr = r.disk.addr /\ n.cfg = r.disk.cfg /\ n.leader = Nobody
      /\ n.leaderEpoch = r.disk.leaderEpoch /\ n.state = "none" /\ n.failoverEpoch = 0
      /\ n.disk = r.disk
  BY <1>2
<1>5. Ok(n) BY <1>1, <1>3, <1>4, QuorumAssumption DEF Ok
<1>6. CurrentMasterAddress(n) = r.disk.addr BY <1>4 DEF CurrentMasterAddress
<1>7. Said(n) \subseteq Said(r) BY <1>4, <1>6 DEF Said
<1>8. n.leaderEpoch = r.leaderEpoch BY <1>4 DEF Ok
<1> QED BY <1>1, <1>4, <1>5, <1>7, <1>8 DEF Keeps, Quiet, Goes

----------------------------------------------------------------------------
(* What a step of one Sentinel does to the parts of the invariant.         *)

LEMMA SenStep ==
  ASSUME SenOK, NEW t \in Sentinels, NEW n, Ok(n), sen' = [sen EXCEPT ![t] = n]
  PROVE  SenOK' /\ sen'[t] = n /\ \A s \in Sentinels : s # t => sen'[s] = sen[s]
<1>1. n \in Sen BY DEF Ok
<1>2. sen' \in [Sentinels -> Sen] /\ sen'[t] = n /\ \A s \in Sentinels : s # t => sen'[s] = sen[s]
  BY <1>1 DEF SenOK
<1>3. \A s \in Sentinels : Ok(sen'[s]) BY <1>2 DEF SenOK
<1>4. \A s \in Sentinels : Ok(sen[s])' BY <1>3 DEF Ok
<1> QED BY <1>2, <1>4 DEF SenOK

LEMMA NoVoteStep ==
  ASSUME SenOK, VotesOK, NEW t \in Sentinels, NEW n, Ok(n), sen' = [sen EXCEPT ![t] = n],
         votes' = votes, Quiet(sen[t], n)
  PROVE  VotesOK'
<1>1. sen'[t] = n /\ \A s \in Sentinels : s # t => sen'[s] = sen[s] BY Zenon, SenStep
<1>2. \A s \in Sentinels : sen'[s].leaderEpoch = sen[s].leaderEpoch /\ sen'[s].leader \in {sen[s].leader, Nobody}
  BY <1>1 DEF Quiet
<1>3. \A v \in votes' : v.epoch <= sen'[v.by].leaderEpoch BY <1>2 DEF VotesOK
<1>4. \A s \in Sentinels :
        sen'[s].leader # Nobody => Vote(s, sen'[s].leader, sen'[s].leaderEpoch) \in votes'
  BY <1>2 DEF VotesOK
<1> QED BY <1>3, <1>4 DEF VotesOK, Vote

LEMMA VoteStep ==
  ASSUME SenOK, VotesOK, NEW t \in Sentinels, NEW n, Ok(n), sen' = [sen EXCEPT ![t] = n],
         n.leader \in Sentinels, n.leaderEpoch > sen[t].leaderEpoch,
         votes' = votes \cup {Vote(t, n.leader, n.leaderEpoch)}
  PROVE  VotesOK'
<1>1. sen'[t] = n /\ \A s \in Sentinels : s # t => sen'[s] = sen[s] BY Zenon, SenStep
<1>2. n.leaderEpoch \in Nat /\ \A s \in Sentinels : sen[s].leaderEpoch \in Nat
  BY DEF SenOK, Ok, Sen
<1>3. PICK w : w = Vote(t, n.leader, n.leaderEpoch) OBVIOUS
<1>4. w.by = t /\ w.leader = n.leader /\ w.epoch = n.leaderEpoch /\ w \in [by : Sentinels, leader : Sentinels, epoch : Nat]
  BY <1>2, <1>3 DEF Vote
<1>5. votes' = votes \cup {w} BY <1>3
<1>6. votes' \subseteq [by : Sentinels, leader : Sentinels, epoch : Nat] BY <1>4, <1>5 DEF VotesOK
<1>7. \A v \in votes : v.by \in Sentinels /\ v.epoch \in Nat /\ v.epoch <= sen[v.by].leaderEpoch
  BY DEF VotesOK
<1>8. \A v \in votes : v.epoch <= sen'[v.by].leaderEpoch
  <2> SUFFICES ASSUME NEW v \in votes PROVE v.epoch <= sen'[v.by].leaderEpoch OBVIOUS
  <2>1. CASE v.by = t BY <1>1, <1>2, <1>7, <2>1
  <2>2. CASE v.by # t BY <1>1, <1>7, <2>2
  <2> QED BY <2>1, <2>2
<1>9. \A v \in votes' : v.epoch <= sen'[v.by].leaderEpoch
  BY <1>1, <1>2, <1>4, <1>5, <1>8
<1>10. \A v \in votes : v.by = t => v.epoch # n.leaderEpoch BY <1>2, <1>7
<1>11. \A v, u \in votes' : v.by = u.by /\ v.epoch = u.epoch => v.leader = u.leader
  BY <1>4, <1>5, <1>10 DEF VotesOK
<1>12. \A s \in Sentinels :
         sen'[s].leader # Nobody => Vote(s, sen'[s].leader, sen'[s].leaderEpoch) \in votes'
  <2> SUFFICES ASSUME NEW s \in Sentinels, sen'[s].leader # Nobody
               PROVE  Vote(s, sen'[s].leader, sen'[s].leaderEpoch) \in votes' OBVIOUS
  <2>1. CASE s = t BY <1>1, <2>1
  <2>2. CASE s # t BY <1>1, <2>2 DEF VotesOK
  <2> QED BY <2>1, <2>2
<1> QED BY <1>6, <1>9, <1>11, <1>12 DEF VotesOK, Vote

\* More votes are no fewer voters.
LEMMA VotersGrow ==
  ASSUME votes \subseteq votes', NEW c, NEW e
  PROVE  /\ Cardinality(Voters(c, e)) \in Nat /\ Cardinality(Voters(c, e)') \in Nat
         /\ Cardinality(Voters(c, e)) <= Cardinality(Voters(c, e)')
<1>1. Voters(c, e) \subseteq Sentinels /\ Voters(c, e)' \subseteq Sentinels BY DEF Voters
<1>2. IsFiniteSet(Voters(c, e)) /\ IsFiniteSet(Voters(c, e)')
  BY <1>1, FS_Subset, FiniteAssumption
<1>3. Voters(c, e) \subseteq Voters(c, e)' BY DEF Voters, Vote
<1> QED BY <1>2, <1>3, FS_Subset, FS_CardinalityType

LEMMA MajorityNat == Majority \in Nat /\ 2 * Majority > Cardinality(Sentinels) /\ Cardinality(Sentinels) \in Nat
<1>1. Cardinality(Sentinels) \in Nat BY FS_CardinalityType, FiniteAssumption
<1> QED BY <1>1 DEF Majority

LEMMA ElectedStep ==
  ASSUME ElectedOK, elected' = elected, votes \subseteq votes'
  PROVE  ElectedOK'
<1> SUFFICES ASSUME NEW x \in elected, x.clean
             PROVE  Cardinality(Voters(x.by, x.epoch)') >= Majority
  BY DEF ElectedOK, Majority
<1>1. Cardinality(Voters(x.by, x.epoch)) >= Majority BY DEF ElectedOK
<1>2. /\ Cardinality(Voters(x.by, x.epoch)) \in Nat /\ Cardinality(Voters(x.by, x.epoch)') \in Nat
      /\ Cardinality(Voters(x.by, x.epoch)) <= Cardinality(Voters(x.by, x.epoch)')
  BY VotersGrow
<1> QED BY <1>1, <1>2, MajorityNat

\* A failover goes on, is over, or is a new one with an epoch of its own.
GoesOn(r, n) ==
  \/ n.state = "none"
  \/ n.state = r.state /\ n.failoverEpoch = r.failoverEpoch
  \/ n.state = "wait_start" /\ n.failoverEpoch > r.epoch
  \/ r.state = "elected" /\ n.state = "reconf_slaves" /\ n.failoverEpoch = r.failoverEpoch

LEMMA WonStep ==
  ASSUME SenOK, ElectedOK, WonOnce, NEW t \in Sentinels, NEW n, Ok(n), sen' = [sen EXCEPT ![t] = n],
         elected' = elected, n.disk.epoch >= sen[t].disk.epoch, GoesOn(sen[t], n)
  PROVE  WonOnce'
<1>1. sen'[t] = n /\ \A s \in Sentinels : s # t => sen'[s] = sen[s] BY Zenon, SenStep
<1>2. /\ n.disk.epoch \in Nat /\ n.failoverEpoch \in Nat /\ n.epoch \in Nat
      /\ sen[t].disk.epoch \in Nat /\ sen[t].epoch \in Nat /\ sen[t].disk.epoch <= sen[t].epoch
  BY DEF SenOK, Ok, Sen, Config
<1>3. ASSUME NEW x \in elected, x.clean
      PROVE  /\ x.epoch <= sen'[x.by].disk.epoch
             /\ sen'[x.by].state = "wait_start" => x.epoch < sen'[x.by].failoverEpoch
  <2>1. /\ x.by \in Sentinels /\ x.epoch \in Nat /\ x.epoch <= sen[x.by].disk.epoch
        /\ sen[x.by].state = "wait_start" => x.epoch < sen[x.by].failoverEpoch
    BY <1>3 DEF ElectedOK, WonOnce
  <2>2. CASE x.by # t BY <1>1, <2>1, <2>2
  <2>3. CASE x.by = t
    <3>1. x.epoch <= n.disk.epoch /\ x.epoch <= sen[t].epoch BY <1>2, <2>1, <2>3
    <3>2. n.state = "wait_start" => x.epoch < n.failoverEpoch
      BY <1>2, <2>1, <2>3, <3>1 DEF GoesOn
    <3> QED BY <1>1, <2>3, <3>1, <3>2
  <2> QED BY <2>2, <2>3
<1>4. ASSUME NEW s \in Sentinels, sen'[s].state \in {"elected", "reconf_slaves"}
      PROVE  \E x \in elected : x.by = s /\ x.epoch = sen'[s].failoverEpoch
  <2>1. CASE s # t BY <1>1, <1>4, <2>1 DEF WonOnce
  <2>2. CASE s = t
    <3>1. n.state \in {"elected", "reconf_slaves"} BY <1>1, <1>4, <2>2
    <3>2. sen[t].state \in {"elected", "reconf_slaves"} /\ n.failoverEpoch = sen[t].failoverEpoch
      BY <3>1 DEF GoesOn
    <3> QED BY <1>1, <2>2, <3>2 DEF WonOnce
  <2> QED BY <2>1, <2>2
<1> QED BY <1>3, <1>4 DEF WonOnce

LEMMA KnownType ==
  ASSUME SenOK, NEW k \in Known
  PROVE  k.cfg \in Nat /\ k.addr \in Addrs
<1>1. PICK s \in Sentinels : k \in Said(sen[s]) BY DEF Known
<1>2. sen[s] \in Sen BY DEF SenOK
<1>3. CurrentMasterAddress(sen[s]) \in Addrs BY <1>2 DEF CurrentMasterAddress, Sen
<1> QED BY <1>1, <1>2, <1>3 DEF Said, Sen, Config

\* What is known after a step of t was known before, or t says it now.
LEMMA KnownAfter ==
  ASSUME SenOK, NEW t \in Sentinels, NEW n, Ok(n), sen' = [sen EXCEPT ![t] = n], NEW k \in Known'
  PROVE  k \in Known \/ k \in Said(n)
<1>1. sen'[t] = n /\ \A s \in Sentinels : s # t => sen'[s] = sen[s] BY Zenon, SenStep
<1>2. PICK s \in Sentinels : k \in Said(sen[s])' BY DEF Known
<1>3. Said(sen[s])' = Said(sen'[s]) BY DEF Said, CurrentMasterAddress
<1>4. CASE s = t BY <1>1, <1>2, <1>3, <1>4
<1>5. CASE s # t BY <1>1, <1>2, <1>3, <1>5 DEF Known
<1> QED BY <1>4, <1>5

\* Nothing is said that was not known, or its epoch is one that was taken over without
\* the address.
LEMMA KnownStep ==
  ASSUME SenOK, KnownOK, NEW t \in Sentinels, NEW n, Ok(n), sen' = [sen EXCEPT ![t] = n],
         elected \subseteq elected', mixed \subseteq mixed',
         n.state = "elected" => sen[t].state = "elected" /\ n.failoverEpoch = sen[t].failoverEpoch,
         \A k \in Said(n) : \/ k \in Known
                            \/ k.cfg \in mixed' /\ k.cfg > 0 /\ \E l \in Known : l.cfg = k.cfg
  PROVE  KnownOK'
<1>1. SenOK' /\ sen'[t] = n /\ \A s \in Sentinels : s # t => sen'[s] = sen[s] BY Zenon, SenStep
<1>2. \A k \in Known' : \/ k \in Known
                        \/ k.cfg \in mixed' /\ k.cfg > 0 /\ \E l \in Known : l.cfg = k.cfg
  BY Zenon, KnownAfter
<1>3. \A e : Contested(e) => Contested(e)' BY DEF Contested
<1>4. \A k \in Known' : k.cfg \in Nat
  <2>1. \A k \in Said(n) : k.cfg \in Nat BY DEF Ok, Said, Sen, Config
  <2> QED BY Zenon, <2>1, KnownAfter, KnownType
<1>5. \A k \in Known' : k.cfg = 0 => k.addr = FirstMaster BY <1>2, <1>4 DEF KnownOK
<1>6. \A k \in Known' : k.cfg > 0 => \E x \in elected' : x.epoch = k.cfg
  <2> SUFFICES ASSUME NEW k \in Known', k.cfg > 0 PROVE \E x \in elected' : x.epoch = k.cfg OBVIOUS
  <2>1. PICK l \in Known : l.cfg = k.cfg BY <1>2
  <2> QED BY <2>1 DEF KnownOK
<1>7. ASSUME NEW s \in Sentinels, sen'[s].state = "elected", ~Contested(sen[s].failoverEpoch)',
             NEW k \in Known'
      PROVE  k.cfg # sen'[s].failoverEpoch
  <2>1. sen[s].state = "elected" /\ sen'[s].failoverEpoch = sen[s].failoverEpoch
    BY <1>1, <1>7
  <2>2. PICK l \in Known : l.cfg = k.cfg BY <1>2
  <2>3. ~Contested(sen[s].failoverEpoch) BY <1>7, <2>1 DEF Contested
  <2> QED BY <2>1, <2>2, <2>3 DEF KnownOK
<1>8. ASSUME NEW k \in Known', NEW l \in Known', k.cfg = l.cfg, ~Contested(k.cfg)', k.cfg \notin mixed'
      PROVE  k.addr = l.addr
  <2>1. k \in Known /\ l \in Known BY <1>2, <1>8
  <2>2. ~Contested(k.cfg) /\ k.cfg \notin mixed BY <1>3, <1>8
  <2> QED BY <1>8, <2>1, <2>2 DEF KnownOK
<1> QED BY <1>5, <1>6, <1>7, <1>8 DEF KnownOK, Contested

----------------------------------------------------------------------------
(* Majorities meet.                                                        *)

LEMMA MajoritiesMeet ==
  ASSUME NEW A \in SUBSET Sentinels, NEW B \in SUBSET Sentinels,
         Cardinality(A) >= Majority, Cardinality(B) >= Majority
  PROVE  \E t \in Sentinels : t \in A /\ t \in B
<1> SUFFICES ASSUME A \cap B = {} PROVE FALSE OBVIOUS
<1>1. IsFiniteSet(A) /\ IsFiniteSet(B) BY FS_Subset, FiniteAssumption
<1>2. A \cup B \subseteq Sentinels OBVIOUS
<1>3. Cardinality(A \cup B) = Cardinality(A) + Cardinality(B) - Cardinality({}) BY <1>1, FS_Union
<1>4. Cardinality({}) = 0 BY FS_EmptySet
<1>5. Cardinality(A \cup B) <= Cardinality(Sentinels) BY <1>2, FS_Subset, FiniteAssumption
<1>6. Cardinality(A) \in Nat /\ Cardinality(B) \in Nat BY <1>1, FS_CardinalityType
<1> QED BY <1>3, <1>4, <1>5, <1>6, MajorityNat

\* Nobody votes twice in an epoch, so two majorities voted for the same Sentinel.
LEMMA CleanWinner ==
  ASSUME VotesOK, ElectedOK, NEW x \in elected, NEW y \in elected,
         x.clean, y.clean, x.epoch = y.epoch
  PROVE  x.by = y.by
<1>1. Voters(x.by, x.epoch) \in SUBSET Sentinels /\ Voters(y.by, y.epoch) \in SUBSET Sentinels
  BY DEF Voters
<1>2. /\ Cardinality(Voters(x.by, x.epoch)) >= Majority
      /\ Cardinality(Voters(y.by, y.epoch)) >= Majority
  BY DEF ElectedOK
<1>3. PICK t \in Sentinels : t \in Voters(x.by, x.epoch) /\ t \in Voters(y.by, y.epoch)
  BY <1>1, <1>2, MajoritiesMeet
<1>4. Vote(t, x.by, x.epoch) \in votes /\ Vote(t, y.by, x.epoch) \in votes BY <1>3 DEF Voters
<1>5. Vote(t, x.by, x.epoch).leader = Vote(t, y.by, x.epoch).leader BY <1>4 DEF VotesOK, Vote
<1> QED BY <1>5 DEF Vote

\* The same after a step.
LEMMA CleanWinnerNext ==
  ASSUME VotesOK', ElectedOK', NEW x \in elected', NEW y \in elected',
         x.clean, y.clean, x.epoch = y.epoch
  PROVE  x.by = y.by
<1>1. Voters(x.by, x.epoch)' \in SUBSET Sentinels /\ Voters(y.by, y.epoch)' \in SUBSET Sentinels
  BY DEF Voters
<1>2. /\ Cardinality(Voters(x.by, x.epoch)') >= Majority
      /\ Cardinality(Voters(y.by, y.epoch)') >= Majority
  BY DEF ElectedOK, Majority
<1>3. PICK t \in Sentinels : t \in Voters(x.by, x.epoch)' /\ t \in Voters(y.by, y.epoch)'
  BY <1>1, <1>2, MajoritiesMeet
<1>4. Vote(t, x.by, x.epoch) \in votes' /\ Vote(t, y.by, x.epoch) \in votes' BY <1>3 DEF Voters, Vote
<1>5. Vote(t, x.by, x.epoch).leader = Vote(t, y.by, x.epoch).leader BY <1>4 DEF VotesOK, Vote
<1> QED BY <1>5 DEF Vote
=============================================================================
