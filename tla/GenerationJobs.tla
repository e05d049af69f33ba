--------------------------- MODULE GenerationJobs ---------------------------
(***************************************************************************)
(* The durable generation queue of LocalCast and the worker processes that *)
(* serve it: server/jobs/generationJobStore.ts (every method is one SQLite *)
(* IMMEDIATE transaction, hence one atomic action), generationWorker.ts    *)
(* (claim, heartbeat, error settlement) and the start and stop of          *)
(* applicationWorker.ts and workerProcess.ts.                              *)
(*                                                                         *)
(* A lease is kept as the number of clock ticks it has left, so that       *)
(* lease_expires_at <= now is ttl = 0 and the clock needs no bound.        *)
(***************************************************************************)
EXTENDS Integers, Sequences

CONSTANTS
  Job,         \* generation jobs (each with its briefing run) that users may ask for
  Worker,      \* worker process incarnations: baseId-randomUUID, never reused
  Key,         \* idempotency keys of enqueue and of retry requests
  NoKey,       \* idempotency_key IS NULL
  NoWorker,    \* lease_owner IS NULL
  NoJob,       \* currentJob is undefined
  LeaseTicks,  \* LOCALCAST_LEASE_MS, in ticks of the clock
  MaxFaults    \* bound on crashes, stop signals and stalls longer than a lease

ASSUME JobsAssumption ==
  /\ LeaseTicks \in Nat \ {0}
  /\ MaxFaults \in Nat
  /\ NoWorker \notin Worker
  /\ NoJob \notin Job
  /\ NoKey \notin Key

VARIABLES
  jobs,      \* table generation_jobs
  attempts,  \* table generation_attempts: per job, the rows by attempt number
  runs,      \* table briefing_runs: status and whether completed_at is set
  episode,   \* attempt whose sections and audio are published, 0 for none
  retries,   \* table generation_retry_requests: requested attempt number, 0 for none
  worker,    \* memory of each worker process
  lastRow,   \* last rowid of generation_jobs
  faults     \* faults used up, see MaxFaults

vars == <<jobs, attempts, runs, episode, retries, worker, lastRow, faults>>

-----------------------------------------------------------------------------
(* Types *)

ActivePhase == {"syncing", "selecting", "drafting", "validating", "rendering_audio"}
Phase       == ActivePhase \cup {"queued", "complete", "failed"}
Outcome     == {"running", "complete", "failed", "interrupted", "recovered"}

JobRow == [
  state        : {"absent", "queued", "running", "complete", "failed"},
  phase        : Phase,
  row          : Nat,                    \* FIFO position: created_at, rowid
  key          : Key \cup {NoKey},
  readable     : BOOLEAN,                \* payload_json parses and has its version
  attemptCount : Nat,
  owner        : Worker \cup {NoWorker},
  ttl          : 0..LeaseTicks,
  retryable    : BOOLEAN,
  finished     : BOOLEAN]                \* completed_at is set

Attempt == [by : Worker, outcome : Outcome]
RunRow  == [status : Phase, finished : BOOLEAN]

(* "down" has not started; "exited" left its loop after a stop signal,      *)
(* "failed" left it by an exception, "killed" was killed from outside.      *)
WorkerState == [
  pc       : {"down", "idle", "processing", "settling", "exited", "failed", "killed"},
  job      : Job \cup {NoJob},           \* currentJob
  attempt  : Nat,                        \* attemptCount of the claimed job object
  stage    : Phase,                      \* how far the processor has come
  aborted  : BOOLEAN,                    \* currentAbort.signal.aborted
  stopping : BOOLEAN,
  verdict  : {"nothing", "interrupt", "retryable", "final"}]

TypeOK ==
  /\ jobs \in [Job -> JobRow]
  /\ attempts \in [Job -> Seq(Attempt)]
  /\ runs \in [Job -> RunRow]
  /\ episode \in [Job -> Nat]
  /\ retries \in [Job -> [Key -> Nat]]
  /\ worker \in [Worker -> WorkerState]
  /\ lastRow \in Nat
  /\ faults \in 0..MaxFaults

NoRow == [state |-> "absent", phase |-> "queued", row |-> 0, key |-> NoKey,
          readable |-> TRUE, attemptCount |-> 0, owner |-> NoWorker, ttl |-> 0,
          retryable |-> FALSE, finished |-> FALSE]

DownWorker == [pc |-> "down", job |-> NoJob, attempt |-> 0, stage |-> "queued",
               aborted |-> FALSE, stopping |-> FALSE, verdict |-> "nothing"]

Init ==
  /\ jobs = [j \in Job |-> NoRow]
  /\ attempts = [j \in Job |-> <<>>]
  /\ runs = [j \in Job |-> [status |-> "queued", finished |-> FALSE]]
  /\ episode = [j \in Job |-> 0]
  /\ retries = [j \in Job |-> [k \in Key |-> 0]]
  /\ worker = [w \in Worker |-> DownWorker]
  /\ lastRow = 0
  /\ faults = 0

-----------------------------------------------------------------------------
(* Row updates shared by the transactions *)

NextPhase(p) ==
  CASE p = "syncing"    -> "selecting"
    [] p = "selecting"  -> "drafting"
    [] p = "drafting"   -> "validating"
    [] p = "validating" -> "rendering_audio"
    [] OTHER            -> "failed"      \* the source's undefined: equals no requested phase

Released(r) == [r EXCEPT !.state = "queued", !.phase = "queued", !.owner = NoWorker, !.ttl = 0]

(* A lease is counted from now, never from its old end. *)
Renewed(r) == [r EXCEPT !.ttl = LeaseTicks]

Claimed(r, w) ==
  [r EXCEPT !.state = "running", !.phase = "syncing", !.attemptCount = @ + 1, !.owner = w,
            !.ttl = LeaseTicks, !.retryable = FALSE, !.finished = FALSE]

Finished(r, how, again) ==
  [r EXCEPT !.state = how, !.phase = how, !.owner = NoWorker, !.ttl = 0,
            !.retryable = again, !.finished = TRUE]

Malformed(r) ==
  [r EXCEPT !.state = "failed", !.phase = "failed", !.retryable = FALSE, !.finished = TRUE]

(* mutant: the update names the job only *)
ClosedAll(j, how) ==
  [n \in 1..Len(attempts[j]) |-> [attempts[j][n] EXCEPT !.outcome = how]]

(* finishAttempt: the update names the current attempt and outcome 'running'. *)
Closed(j, how) ==
  LET n == jobs[j].attemptCount
  IN  IF n \in 1..Len(attempts[j]) /\ attempts[j][n].outcome = "running"
      THEN [attempts[j] EXCEPT ![n].outcome = how]
      ELSE attempts[j]

(* mutant: any worker's call is accepted *)
OwnedByAnyone(w) ==
  LET r == jobs[worker[w].job]
  IN  r.state = "running" /\ r.ttl > 0

(* requireOwnedRunningJob: the guard of every store call a worker makes. *)
Owned(w) ==
  LET r == jobs[worker[w].job]
  IN  r.state = "running" /\ r.owner = w /\ r.ttl > 0

(* stillOwned in the worker's catch block: the expiry is not looked at. *)
StillOwned(w) ==
  LET r == jobs[worker[w].job]
  IN  r.state = "running" /\ r.owner = w

-----------------------------------------------------------------------------
(* recoverStale, inside the transaction of its caller *)

StaleEarly == {j \in Job : jobs[j].state = "running" /\ jobs[j].ttl <= 1}   \* mutant

Stale == {j \in Job : jobs[j].state = "running" /\ jobs[j].ttl = 0}

AttemptsLeftOpen  == attempts                             \* mutant

RecoveredJobs     == [j \in Job |-> IF j \in Stale THEN Released(jobs[j]) ELSE jobs[j]]
RecoveredAttempts == [j \in Job |-> IF j \in Stale THEN Closed(j, "recovered") ELSE attempts[j]]
RecoveredRuns     == [j \in Job |-> IF j \in Stale THEN [runs[j] EXCEPT !.status = "queued"]
                                    ELSE runs[j]]

-----------------------------------------------------------------------------
(* Requests to the API process *)

(* A key that already names a job returns that job, or a conflict, and      *)
(* changes nothing; only the creating case is a step.                       *)
Enqueue(j, k) ==
  /\ jobs[j].state = "absent"
  /\ k # NoKey => \A i \in Job : jobs[i].key # k
  /\ jobs' = [jobs EXCEPT ![j] = [NoRow EXCEPT !.state = "queued", !.row = lastRow + 1, !.key = k]]
  /\ lastRow' = lastRow + 1
  /\ UNCHANGED <<attempts, runs, episode, retries, worker, faults>>

PriorFailedAttempt(j) ==
  \E n \in 1..Len(attempts[j]) : attempts[j][n].outcome = "failed"

RequestedNext(j) == jobs[j].attemptCount + 1              \* mutant

(* The attempt that answers a retry: the one in hand or delivered, or the   *)
(* next one.                                                                *)
RequestedAttempt(j) ==
  IF jobs[j].state \in {"running", "complete"} THEN jobs[j].attemptCount
                                               ELSE jobs[j].attemptCount + 1

(* The job is already being retried or has completed since it failed: the   *)
(* key is only recorded.                                                    *)
RetryAnswered(j, k) ==
  /\ jobs[j].readable
  /\ retries[j][k] = 0
  /\ PriorFailedAttempt(j)
  /\ jobs[j].state \in {"queued", "running", "complete"}
  /\ retries' = [retries EXCEPT ![j][k] = RequestedAttempt(j)]
  /\ UNCHANGED <<jobs, attempts, runs, episode, worker, lastRow, faults>>

RetryRequeues(j, k) ==
  /\ jobs[j].readable
  /\ retries[j][k] = 0
  /\ jobs[j].state = "failed" /\ jobs[j].retryable
  /\ retries' = [retries EXCEPT ![j][k] = RequestedAttempt(j)]
  /\ jobs' = [jobs EXCEPT ![j].state = "queued", ![j].phase = "queued",
                          ![j].retryable = FALSE, ![j].finished = FALSE]
  /\ runs' = [runs EXCEPT ![j] = [status |-> "queued", finished |-> FALSE]]
  /\ UNCHANGED <<attempts, episode, worker, lastRow, faults>>

(* A replayed key returns the job unchanged and is no step. *)
Retry(j, k) == RetryAnswered(j, k) \/ RetryRequeues(j, k)

-----------------------------------------------------------------------------
(* The worker loop *)

(* The random UUID in its name makes every process a new worker. *)
MayRestart(w) == worker[w].pc \in {"down", "killed"}      \* mutant: the label is the name
MayStart(w)   == worker[w].pc = "down"

Start(w) ==
  /\ MayStart(w)
  /\ worker' = [worker EXCEPT ![w].pc = "idle"]
  /\ jobs' = RecoveredJobs
  /\ attempts' = RecoveredAttempts
  /\ runs' = RecoveredRuns
  /\ UNCHANGED <<episode, retries, lastRow, faults>>

Waiting    == {j \in Job : RecoveredJobs[j].state = "queued"}
SlotIgnored == FALSE                                      \* mutant
SlotTaken  == \E j \in Job : RecoveredJobs[j].state = "running"
Newer(i, j) == jobs[i].row > jobs[j].row                  \* mutant
Older(i, j) == jobs[i].row < jobs[j].row

(* claimNext, the queue part: unreadable rows in the way are failed. *)
RejectNone(bad, others) == others                         \* mutant
Reject(bad, others) == [j \in Job |-> IF j \in bad THEN Malformed(others[j]) ELSE others[j]]
RejectRuns(bad, others) ==
  [j \in Job |-> IF j \in bad THEN [status |-> "failed", finished |-> TRUE] ELSE others[j]]

ClaimNothing(w) ==
  LET bad == IF SlotTaken THEN {} ELSE Waiting
  IN  /\ SlotTaken \/ \A j \in Waiting : ~jobs[j].readable
      /\ jobs' = Reject(bad, RecoveredJobs)
      /\ runs' = RejectRuns(bad, RecoveredRuns)
      /\ attempts' = RecoveredAttempts
      /\ UNCHANGED worker

ClaimJob(w, j) ==
  LET bad == {i \in Waiting : Older(i, j)}
  IN  /\ ~SlotTaken
      /\ j \in Waiting /\ jobs[j].readable
      /\ \A i \in bad : ~jobs[i].readable
      /\ jobs' = [Reject(bad, RecoveredJobs) EXCEPT ![j] = Claimed(@, w)]
      /\ runs' = [RejectRuns(bad, RecoveredRuns) EXCEPT
                    ![j] = [status |-> "syncing", finished |-> FALSE]]
      /\ attempts' = [RecoveredAttempts EXCEPT ![j] = Append(@, [by |-> w, outcome |-> "running"])]
      /\ worker' = [worker EXCEPT ![w] = [@ EXCEPT !.pc = "processing", !.job = j,
                      !.attempt = jobs[j].attemptCount + 1, !.stage = "syncing",
                      !.aborted = FALSE]]

ClaimNext(w) ==
  /\ worker[w].pc = "idle" /\ ~worker[w].stopping
  /\ ClaimNothing(w) \/ \E j \in Job : ClaimJob(w, j)
  /\ UNCHANGED <<episode, retries, lastRow, faults>>

-----------------------------------------------------------------------------
(* While a job is processed *)

(* The heartbeat, and the fences around audio publication. *)
RenewLease(w) ==
  /\ worker[w].pc = "processing" /\ Owned(w)
  /\ jobs' = [jobs EXCEPT ![worker[w].job] = Renewed(@)]
  /\ UNCHANGED <<attempts, runs, episode, retries, worker, lastRow, faults>>

HeartbeatFails(w) ==
  /\ worker[w].pc = "processing" /\ ~Owned(w) /\ ~worker[w].aborted
  /\ worker' = [worker EXCEPT ![w].aborted = TRUE]
  /\ UNCHANGED <<jobs, attempts, runs, episode, retries, lastRow, faults>>

UpdatePhase(w) ==
  LET j == worker[w].job
      p == NextPhase(worker[w].stage)
  IN  /\ worker[w].pc = "processing" /\ worker[w].stage # "rendering_audio"
      /\ Owned(w) /\ p = NextPhase(jobs[j].phase)
      /\ jobs' = [jobs EXCEPT ![j] = [Renewed(@) EXCEPT !.phase = p]]
      /\ runs' = [runs EXCEPT ![j].status = p]
      /\ worker' = [worker EXCEPT ![w].stage = p]
      /\ UNCHANGED <<attempts, episode, retries, lastRow, faults>>

(* The processor returns, runOnce clears the current job. *)
Idle(w) == [worker EXCEPT ![w] = [@ EXCEPT !.pc = "idle", !.job = NoJob, !.attempt = 0,
              !.stage = "queued", !.aborted = FALSE, !.verdict = "nothing"]]

(* complete(), with the publication callback in the same transaction. *)
Complete(w) ==
  LET j == worker[w].job
  IN  /\ worker[w].pc = "processing" /\ worker[w].stage = "rendering_audio"
      /\ Owned(w) /\ jobs[j].phase = "rendering_audio"
      /\ episode' = [episode EXCEPT ![j] = worker[w].attempt]
      /\ jobs' = [jobs EXCEPT ![j] = Finished(@, "complete", FALSE)]
      /\ runs' = [runs EXCEPT ![j] = [status |-> "complete", finished |-> TRUE]]
      /\ attempts' = [attempts EXCEPT ![j] = Closed(j, "complete")]
      /\ worker' = Idle(w)
      /\ UNCHANGED <<retries, lastRow, faults>>

(* The catch block first reads the job back and decides what to do. *)
Caught(w, how) ==
  worker' = [worker EXCEPT ![w].pc = "settling",
               ![w].verdict = IF ~StillOwned(w) THEN "nothing"
                              ELSE IF worker[w].aborted THEN "interrupt"
                              ELSE how]

(* A provider, the evidence or the publication fails, or the abort signal   *)
(* is noticed.                                                              *)
ProcessorThrows(w, how) ==
  /\ worker[w].pc = "processing"
  /\ how = "interrupt" => worker[w].aborted
  /\ Caught(w, how)
  /\ UNCHANGED <<jobs, attempts, runs, episode, retries, lastRow, faults>>

(* A store call of the processor throws JobStateError. *)
StoreRefuses(w) ==
  /\ worker[w].pc = "processing" /\ ~Owned(w)
  /\ Caught(w, "retryable")
  /\ UNCHANGED <<jobs, attempts, runs, episode, retries, lastRow, faults>>

Settle(w) ==
  /\ worker[w].pc = "settling" /\ (worker[w].verdict = "nothing" \/ Owned(w))
  /\ LET j == worker[w].job
         v == worker[w].verdict
     IN  \/ /\ v = "nothing"
            /\ UNCHANGED <<jobs, runs, attempts>>
         \/ /\ v = "interrupt"
            /\ jobs' = [jobs EXCEPT ![j] = Released(@)]
            /\ runs' = [runs EXCEPT ![j].status = "queued"]
            /\ attempts' = [attempts EXCEPT ![j] = Closed(j, "interrupted")]
         \/ /\ v \in {"retryable", "final"}
            /\ jobs' = [jobs EXCEPT ![j] = Finished(@, "failed", v = "retryable")]
            /\ runs' = [runs EXCEPT ![j] = [status |-> "failed", finished |-> TRUE]]
            /\ attempts' = [attempts EXCEPT ![j] = Closed(j, "failed")]
  /\ worker' = Idle(w)
  /\ UNCHANGED <<episode, retries, lastRow, faults>>

(* interrupt() or fail() throws out of the catch block: the loop rejects    *)
(* and the process ends with exit code 1.                                   *)
SettleThrows(w) ==
  /\ worker[w].pc = "settling" /\ worker[w].verdict # "nothing" /\ ~Owned(w)
  /\ worker' = [Idle(w) EXCEPT ![w].pc = "failed"]
  /\ UNCHANGED <<jobs, attempts, runs, episode, retries, lastRow, faults>>

-----------------------------------------------------------------------------
(* Stop signals, crashes, the clock, damaged rows *)

Alive(w) == worker[w].pc \in {"idle", "processing", "settling"}

(* SIGTERM is handled between two turns of the event loop. *)
Stop(w) ==
  /\ worker[w].pc \in {"idle", "processing"} /\ ~worker[w].stopping
  /\ faults < MaxFaults /\ faults' = faults + 1
  /\ worker' = [worker EXCEPT ![w].stopping = TRUE,
                              ![w].aborted = (worker[w].pc = "processing")]
  /\ UNCHANGED <<jobs, attempts, runs, episode, retries, lastRow>>

Exit(w) ==
  /\ worker[w].pc = "idle" /\ worker[w].stopping
  /\ worker' = [worker EXCEPT ![w].pc = "exited"]
  /\ UNCHANGED <<jobs, attempts, runs, episode, retries, lastRow, faults>>

(* Power loss, kill, or the forced exit when the shutdown deadline passes. *)
Crash(w) ==
  /\ Alive(w)
  /\ faults < MaxFaults /\ faults' = faults + 1
  /\ worker' = [Idle(w) EXCEPT ![w].pc = "killed"]
  /\ UNCHANGED <<jobs, attempts, runs, episode, retries, lastRow>>

Leased   == {j \in Job : jobs[j].state = "running" /\ jobs[j].ttl > 0}
(* Jobs whose lease this tick uses up although their owner is alive: the    *)
(* process was suspended or its event loop blocked for a whole lease.       *)
Stalled  == {j \in Leased : jobs[j].ttl = 1 /\ \E w \in Worker : jobs[j].owner = w /\ Alive(w)}

Tick ==
  /\ Leased # {}
  /\ jobs' = [j \in Job |-> IF j \in Leased THEN [jobs[j] EXCEPT !.ttl = @ - 1] ELSE jobs[j]]
  /\ IF Stalled = {} THEN faults' = faults
                     ELSE faults < MaxFaults /\ faults' = faults + 1
  /\ UNCHANGED <<attempts, runs, episode, retries, worker, lastRow>>

(* A waiting row comes to hold a payload this build cannot read. *)
Damage(j) ==
  /\ jobs[j].state = "queued" /\ jobs[j].readable
  /\ jobs' = [jobs EXCEPT ![j].readable = FALSE]
  /\ UNCHANGED <<attempts, runs, episode, retries, worker, lastRow, faults>>

-----------------------------------------------------------------------------
Processes(w) ==
  \/ RenewLease(w) \/ HeartbeatFails(w)
  \/ UpdatePhase(w) \/ Complete(w)
  \/ \E how \in {"interrupt", "retryable", "final"} : ProcessorThrows(w, how)
  \/ StoreRefuses(w) \/ Settle(w) \/ SettleThrows(w)

Next ==
  \/ \E j \in Job, k \in Key \cup {NoKey} : Enqueue(j, k)
  \/ \E j \in Job, k \in Key : Retry(j, k)
  \/ \E w \in Worker : Start(w) \/ ClaimNext(w) \/ Processes(w) \/ Stop(w) \/ Exit(w) \/ Crash(w)
  \/ \E j \in Job : Damage(j)
  \/ Tick

Spec == Init /\ [][Next]_vars

(* Compose restarts the worker container (restart: unless-stopped); a live  *)
(* loop keeps polling, provider calls end by answer, error or time limit,   *)
(* the heartbeat timer fires and time passes.  Users promise nothing, and   *)
(* nothing forces a fault.                                                  *)
Fairness ==
  /\ WF_vars(\E w \in Worker : Start(w))
  /\ WF_vars(Tick)
  /\ \A w \in Worker :
       /\ WF_vars(ClaimNext(w) \/ Settle(w) \/ SettleThrows(w) \/ Exit(w))
       /\ WF_vars(RenewLease(w))
       /\ WF_vars(UpdatePhase(w) \/ Complete(w) \/ StoreRefuses(w)
                    \/ (worker[w].aborted /\ ProcessorThrows(w, "interrupt")))

FairSpec == Spec /\ Fairness

-----------------------------------------------------------------------------
(* Properties *)

(* JOB-02, at most one active generation: two worker processes that claim,  *)
(* recover, renew and retry in any order never have two running jobs, which *)
(* the partial unique index on active_slot would turn into a failed write.  *)
SingleRunning ==
  \A i, j \in Job : jobs[i].state = "running" /\ jobs[j].state = "running" => i = j

(* The attempt history agrees with the job row, whatever sequence of        *)
(* claims, recoveries, failures, shutdowns and retries led here: the rows   *)
(* are numbered without gap, only a running job has an open attempt and its *)
(* worker is the lease owner, and each settled state is the outcome of the  *)
(* last attempt.                                                            *)
LastOutcome(j) == attempts[j][jobs[j].attemptCount].outcome

HistoryMatchesJob ==
  \A j \in Job :
    /\ Len(attempts[j]) = jobs[j].attemptCount
    /\ \A n \in 1..Len(attempts[j]) :
         attempts[j][n].outcome \in {"running", "complete"} => n = jobs[j].attemptCount
    /\ jobs[j].state = "running" =>
         /\ jobs[j].attemptCount > 0
         /\ attempts[j][jobs[j].attemptCount] = [by |-> jobs[j].owner, outcome |-> "running"]
    /\ jobs[j].state = "complete" => jobs[j].attemptCount > 0 /\ LastOutcome(j) = "complete"
    /\ jobs[j].state \in {"absent", "queued", "failed"} /\ jobs[j].attemptCount > 0 =>
         LastOutcome(j) \in {"failed", "interrupted", "recovered"}
    /\ jobs[j].state = "failed" /\ jobs[j].readable =>
         jobs[j].attemptCount > 0 /\ LastOutcome(j) = "failed"

(* Store calls are fenced by the owner's name alone, not by the attempt     *)
(* number.  That is enough because a live owner is always processing the    *)
(* very attempt that runs, and has come exactly as far as the job's phase:  *)
(* no worker can act on a job on the strength of an attempt it lost.        *)
OwnerHoldsCurrentAttempt ==
  \A j \in Job, w \in Worker :
    jobs[j].state = "running" /\ jobs[j].owner = w /\ Alive(w) =>
      /\ worker[w].job = j
      /\ worker[w].attempt = jobs[j].attemptCount
      /\ worker[w].stage = jobs[j].phase

(* The run a listener sees (briefing_runs) and the job behind it are        *)
(* written by separate statements of seven transactions and never disagree. *)
RunMirrorsJob ==
  \A j \in Job :
    /\ runs[j].status = jobs[j].phase
    /\ runs[j].finished = jobs[j].finished
    /\ jobs[j].finished <=> jobs[j].state \in {"complete", "failed"}
    /\ jobs[j].phase \in ActivePhase <=> jobs[j].state = "running"

(* JOB-04: an episode is published if and only if its job is complete, and  *)
(* what is published is the work of the attempt recorded as complete, never *)
(* that of an attempt that was interrupted, failed or recovered.            *)
PublishedByCompleteAttempt ==
  \A j \in Job :
    /\ jobs[j].state = "complete" => episode[j] = jobs[j].attemptCount
    /\ episode[j] # 0 =>
         /\ episode[j] \in 1..Len(attempts[j])
         /\ attempts[j][episode[j]].outcome = "complete"

(* An accepted retry key stands for an attempt that exists or is next in    *)
(* line: a later crash, shutdown or second key never leaves it pointing at  *)
(* an attempt that nothing will start.                                      *)
RetryNamesAnAttempt ==
  \A j \in Job, k \in Key :
    /\ retries[j][k] <= jobs[j].attemptCount + 1
    /\ retries[j][k] = jobs[j].attemptCount + 1 =>
         jobs[j].state = "queued" \/ ~jobs[j].readable

(* Attempt history is only appended to, a closed attempt is never           *)
(* rewritten, and a complete job and its episode never change again.        *)
HistoryIsFinal ==
  [][\A j \in Job :
       /\ Len(attempts[j]) <= Len(attempts'[j])
       /\ \A n \in 1..Len(attempts[j]) :
            attempts[j][n].outcome # "running" => attempts'[j][n] = attempts[j][n]
       /\ jobs[j].state = "complete" => jobs'[j] = jobs[j] /\ episode'[j] = episode[j]]_vars

(* While a lease has time left nobody but its owner ends or replaces the    *)
(* attempt: the step that does is one the owner takes itself.               *)
LeaseProtectsAttempt ==
  [][\A j \in Job :
       /\ jobs[j].state = "running" /\ jobs[j].ttl > 0
       /\ jobs'[j].state # "running" \/ jobs'[j].attemptCount # jobs[j].attemptCount
       => worker'[jobs[j].owner] # worker[jobs[j].owner]]_vars

(* Every accepted job is eventually complete or failed, although workers    *)
(* crash, stall and are stopped: stale leases expire, are recovered by the  *)
(* next start or claim, and the first in line is not overtaken forever.     *)
EveryJobSettles ==
  \A j \in Job : jobs[j].state \in {"queued", "running"} ~> jobs[j].state \in {"complete", "failed"}

-----------------------------------------------------------------------------
(* The queue promised to users *)

Standing == [absent |-> "new", queued |-> "waiting", running |-> "active",
             complete |-> "delivered", failed |-> "refused"]

Queue == INSTANCE JobQueue WITH
  status <- [j \in Job |-> Standing[jobs[j].state]],
  ticket <- [j \in Job |-> jobs[j].row],
  tries  <- [j \in Job |-> jobs[j].attemptCount],
  result <- episode,
  again  <- [j \in Job |-> jobs[j].retryable]

(* The store and its workers implement the queue of JobQueue.tla: leases,   *)
(* recoveries, crashes and damaged rows only ever show as one of its steps. *)
(* In particular no waiting request is overtaken by a younger one, JOB-02's *)
(* FIFO order, also when the oldest was interrupted or retried.             *)
ImplementsQueue == Queue!Spec
=============================================================================
