--------------------------- MODULE SentinelScripts ---------------------------
(***************************************************************************)
(* The queue of notification and reconfiguration scripts of a Sentinel     *)
(* (src/others/sentinel.c), and the children that run them.                *)
(***************************************************************************)
EXTENDS Integers, Sequences, FiniteSets, SequencesExt

CONSTANTS
  MaxQueue,      \* SENTINEL_SCRIPT_MAX_QUEUE
  MaxRunning,    \* SENTINEL_SCRIPT_MAX_RUNNING
  MaxRetry       \* SENTINEL_SCRIPT_MAX_RETRY

VARIABLES
  queue,     \* scripts_queue: the jobs, the oldest first; pid 0: not running;
             \* due: its start_time is not in the future
  running,   \* running_scripts
  child      \* what became of each child, "free" if there is none with this pid

vars == <<queue, running, child>>

Pids == 1..MaxRunning
Jobs == [pid : 0..MaxRunning, retry : 0..MaxRetry + 1, due : BOOLEAN]

Init == queue = <<>> /\ running = 0 /\ child = [p \in Pids |-> "free"]

Schedule_DropOldest ==
  LET q == Append(queue, [pid |-> 0, retry |-> 0, due |-> TRUE]) IN
  /\ queue' = IF Len(q) > MaxQueue THEN Tail(q) ELSE q
  /\ UNCHANGED <<running, child>>

\* sentinelScheduleScriptExecution: past the limit the oldest job that is not
\* running is dropped.
Schedule ==
  LET q == Append(queue, [pid |-> 0, retry |-> 0, due |-> TRUE])
      idle == {i \in DOMAIN q : q[i].pid = 0}
      oldest == CHOOSE i \in idle : \A j \in idle : i <= j
  IN /\ queue' = IF Len(q) > MaxQueue THEN RemoveAt(q, oldest) ELSE q
     /\ UNCHANGED <<running, child>>

\* sentinelRunPendingScripts from the i-th job on, in the state x; for the jobs in
\* fails fork fails.  retry_num stays at MaxRetry + 1 here once it is past the limit.
Started(job, p) ==
  [pid |-> p, due |-> TRUE, retry |-> IF job.retry > MaxRetry THEN job.retry ELSE job.retry + 1]

RunJob(x, i, fails) ==
  LET p == CHOOSE q \in Pids : x.child[q] = "free" IN
  CASE x.running >= MaxRunning \/ x.queue[i].pid # 0 \/ ~x.queue[i].due -> x
    [] i \in fails -> [x EXCEPT !.queue[i] = Started(@, 0)]
    [] OTHER -> [queue |-> [x.queue EXCEPT ![i] = Started(@, p)], running |-> x.running + 1,
                 child |-> [x.child EXCEPT ![p] = "running"]]

RunPendingScripts(x, fails) ==
  LET run[i \in 0..Len(x.queue)] == IF i = 0 THEN x ELSE RunJob(run[i - 1], i, fails)
  IN run[Len(x.queue)]

\* sentinelCollectTerminatedScripts, for one child that has ended; the job is the one
\* sentinelGetScriptListNodeByPid finds.  A job to be tried again keeps its place in
\* running_scripts.
CollectScript(x, p) ==
  LET jobs == {i \in DOMAIN x.queue : x.queue[i].pid = p}
      i == CHOOSE j \in jobs : TRUE
      y == [x EXCEPT !.child[p] = "free"]
  IN CASE jobs = {} -> y
       [] jobs # {} /\ x.child[p] = "retry" /\ x.queue[i].retry # MaxRetry ->
            [y EXCEPT !.queue[i] = [@ EXCEPT !.pid = 0, !.due = FALSE]]
       [] OTHER -> [y EXCEPT !.queue = RemoveAt(@, i), !.running = @ - 1]

CollectTerminatedScripts(x) ==
  LET collect[p \in 0..MaxRunning] ==
        IF p = 0 THEN x
        ELSE IF collect[p - 1].child[p] \in {"done", "retry"} THEN CollectScript(collect[p - 1], p)
        ELSE collect[p - 1]
  IN collect[MaxRunning]

\* sentinelKillTimedoutScripts: the children in late have run for too long.
KillTimedoutScripts(x, late) ==
  [x EXCEPT !.child = [p \in Pids |->
     IF p \in late /\ @[p] = "running" /\ \E i \in DOMAIN x.queue : x.queue[i].pid = p
     THEN "retry" ELSE @[p]]]

\* The part of sentinelTimer about scripts.
Timer(fails, late) ==
  LET x == KillTimedoutScripts(CollectTerminatedScripts(
             RunPendingScripts([queue |-> queue, running |-> running, child |-> child], fails)), late)
  IN queue' = x.queue /\ running' = x.running /\ child' = x.child

\* The delay of a job to be tried again is over: sentinelScriptRetryDelay.
DelayOver(i) ==
  /\ ~queue[i].due
  /\ queue' = [queue EXCEPT ![i].due = TRUE]
  /\ UNCHANGED <<running, child>>

\* A script ends: with exit code 1 or by a signal it is to be tried again.
Ends(p, code) ==
  /\ child[p] = "running"
  /\ child' = [child EXCEPT ![p] = code]
  /\ UNCHANGED <<queue, running>>

Next ==
  \/ Schedule
  \/ \E fails \in SUBSET DOMAIN queue, late \in SUBSET Pids : Timer(fails, late)
  \/ \E i \in DOMAIN queue : DelayOver(i)
  \/ \E p \in Pids, code \in {"done", "retry"} : Ends(p, code)

Spec == Init /\ [][Next]_vars

----------------------------------------------------------------------------

\* The assertion of sentinelScheduleScriptExecution, and the limit of children.
QueueBounded == Len(queue) <= MaxQueue /\ running \in 0..MaxRunning

\* Every child there is belongs to one job of the queue that is marked running: when
\* it ends sentinelCollectTerminatedScripts finds its job.
ChildrenTracked ==
  \A p \in Pids : child[p] # "free" <=> Cardinality({i \in DOMAIN queue : queue[i].pid = p}) = 1

\* running_scripts is never below the number of jobs that run.
CountCovers == Cardinality({i \in DOMAIN queue : queue[i].pid # 0}) <= running

\* The queue, the children and the count of those that run.
ScriptsTracked == QueueBounded /\ ChildrenTracked /\ CountCovers

\* A job waits while the count is at its limit only if that many scripts run,
\* as the comment on sentinelRunPendingScripts says.
LimitIsReal == running = MaxRunning => \A p \in Pids : child[p] # "free"
=============================================================================
