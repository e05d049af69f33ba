----------------------- MODULE GenerationJobs_proofs -----------------------
(***************************************************************************)
(* Proofs about GenerationJobs for any sets of jobs, workers and keys, any *)
(* lease and any number of faults.                                         *)
(*                                                                         *)
(* The four rows that describe one request (its job, its attempt history,  *)
(* its run and its episode) are related by Consistent, which each row      *)
(* update of the store preserves whatever the other requests are.  The     *)
(* inductive invariant adds what the worker processes remember.            *)
(***************************************************************************)
EXTENDS JobsBackup, SequenceTheorems, TLAPS

-----------------------------------------------------------------------------
(* The rows of one request *)

Ended == {"failed", "interrupted", "recovered"}

(* r, h, b, e stand for jobs[j], attempts[j], runs[j] and episode[j]. *)
Consistent(r, h, b, e) ==
  /\ r \in JobRow /\ h \in Seq(Attempt) /\ b \in RunRow /\ e \in Nat
  /\ Len(h) = r.attemptCount
  /\ \A n \in 1..Len(h) : h[n].outcome \in {"running", "complete"} => n = r.attemptCount
  /\ r.state = "absent" => r.attemptCount = 0 /\ r.phase = "queued"
  /\ r.state = "running" =>
       /\ r.attemptCount > 0
       /\ h[r.attemptCount].by = r.owner /\ h[r.attemptCount].outcome = "running"
  /\ r.state = "complete" => r.attemptCount > 0 /\ h[r.attemptCount].outcome = "complete"
  /\ r.state \in {"absent", "queued", "failed"} /\ r.attemptCount > 0 =>
       h[r.attemptCount].outcome \in Ended
  /\ r.state = "failed" /\ r.readable = TRUE =>
       r.attemptCount > 0 /\ h[r.attemptCount].outcome = "failed"
  /\ b.status = r.phase /\ b.finished = r.finished
  /\ (r.finished = TRUE) <=> (r.state \in {"complete", "failed"})
  /\ (r.phase \in ActivePhase) <=> (r.state = "running")
  /\ r.state \in {"queued", "complete", "failed"} => r.phase = r.state
  /\ r.state = "complete" => e = r.attemptCount
  /\ e # 0 => e \in 1..Len(h) /\ h[e].outcome = "complete"

RowsConsistent == \A j \in Job : Consistent(jobs[j], attempts[j], runs[j], episode[j])

(* What closing the current attempt does to a history. *)
ClosesAs(h, g, n, how) ==
  /\ g \in Seq(Attempt) /\ Len(g) = Len(h)
  /\ \A i \in 1..Len(h) :
       IF i = n /\ h[i].outcome = "running"
       THEN g[i].by = h[i].by /\ g[i].outcome = how
       ELSE g[i] = h[i]

LEMMA ClosedCloses ==
  ASSUME TypeOK, NEW j \in Job, NEW how \in Outcome
  PROVE  ClosesAs(attempts[j], Closed(j, how), jobs[j].attemptCount, how)
<1> DEFINE s == attempts[j]
           n == jobs[j].attemptCount
           e == [s[n] EXCEPT !.outcome = how]
<1>1. s \in Seq(Attempt) /\ n \in Nat
  BY DEF TypeOK, JobRow
<1>2. CASE n \in 1..Len(s) /\ s[n].outcome = "running"
  <2>1. s[n] \in Attempt
    BY <1>1, <1>2, ElementOfSeq
  <2>2. e.by = s[n].by /\ e.outcome = how /\ e \in Attempt
    BY <2>1 DEF Attempt
  <2>3. Closed(j, how) = [s EXCEPT ![n] = e]
    BY <1>2 DEF Closed
  <2> HIDE DEF s, n, e
  <2>4. QED
    BY <1>1, <1>2, <2>2, <2>3, ExceptSeq DEF s, n, ClosesAs
<1>3. CASE ~(n \in 1..Len(s) /\ s[n].outcome = "running")
  BY <1>1, <1>3 DEF Closed, ClosesAs
<1>4. QED
  BY <1>2, <1>3

LEMMA RowConstants ==
  /\ 0 \in 0..LeaseTicks /\ LeaseTicks \in 0..LeaseTicks
  /\ {"queued", "syncing", "complete", "failed"} \subseteq Phase
  /\ "syncing" \in ActivePhase
  /\ {"queued", "complete", "failed"} \cap ActivePhase = {}
BY JobsAssumption DEF Phase, ActivePhase

(* The four updates of a job row. *)
LEMMA ReleasedRow ==
  ASSUME NEW r \in JobRow
  PROVE  /\ Released(r) \in JobRow
         /\ Released(r).state = "queued" /\ Released(r).phase = "queued"
         /\ Released(r).attemptCount = r.attemptCount /\ Released(r).finished = r.finished
BY RowConstants DEF Released, JobRow

LEMMA ClaimedRow ==
  ASSUME NEW r \in JobRow, NEW w \in Worker
  PROVE  /\ Claimed(r, w) \in JobRow
         /\ Claimed(r, w).state = "running" /\ Claimed(r, w).phase = "syncing"
         /\ Claimed(r, w).attemptCount = r.attemptCount + 1
         /\ Claimed(r, w).owner = w /\ Claimed(r, w).finished = FALSE
<1>1. r.attemptCount + 1 \in Nat
  BY DEF JobRow
<1>2. QED
  BY <1>1, RowConstants DEF Claimed, JobRow

LEMMA MalformedRow ==
  ASSUME NEW r \in JobRow
  PROVE  /\ Malformed(r) \in JobRow
         /\ Malformed(r).state = "failed" /\ Malformed(r).phase = "failed"
         /\ Malformed(r).attemptCount = r.attemptCount
         /\ Malformed(r).readable = r.readable /\ Malformed(r).finished = TRUE
BY RowConstants DEF Malformed, JobRow

(* The history of a running job once its attempt is closed. *)
LEMMA CloseRunning ==
  ASSUME NEW r, NEW h, NEW b, NEW e, Consistent(r, h, b, e), r.state = "running",
         NEW how \in {"interrupted", "recovered", "complete", "failed"},
         NEW g, ClosesAs(h, g, r.attemptCount, how)
  PROVE  /\ g \in Seq(Attempt) /\ Len(g) = r.attemptCount /\ r.attemptCount \in Nat \ {0}
         /\ g[r.attemptCount].outcome = how
         /\ \A n \in 1..Len(g) : n # r.attemptCount => g[n].outcome \notin {"running", "complete"}
         /\ e \in Nat /\ (e # 0 => e \in 1..Len(g) /\ e # r.attemptCount
                                   /\ g[e].outcome = "complete")
<1>1. /\ g \in Seq(Attempt) /\ Len(g) = Len(h) /\ Len(h) = r.attemptCount
      /\ r.attemptCount \in Nat \ {0}
      /\ h[r.attemptCount].outcome = "running"
  BY DEF Consistent, ClosesAs, JobRow
<1>2. g[r.attemptCount].outcome = how
  <2>1. r.attemptCount \in 1..Len(h)
    BY <1>1
  <2>2. QED
    BY <1>1, <2>1 DEF ClosesAs
<1>3. ASSUME NEW n \in 1..Len(g), n # r.attemptCount
      PROVE  g[n] = h[n] /\ g[n].outcome \notin {"running", "complete"}
  BY <1>1, <1>3 DEF ClosesAs, Consistent
<1>4. e \in Nat /\ (e # 0 => e \in 1..Len(h) /\ h[e].outcome = "complete")
  BY DEF Consistent
<1>5. QED
  BY <1>1, <1>2, <1>3, <1>4

(* An interrupted or recovered job goes back to the queue. *)
LEMMA ReleaseConsistent ==
  ASSUME NEW r, NEW h, NEW b, NEW e, Consistent(r, h, b, e), r.state = "running",
         NEW how \in {"interrupted", "recovered"}, NEW g, ClosesAs(h, g, r.attemptCount, how)
  PROVE  Consistent(Released(r), g, [b EXCEPT !.status = "queued"], e)
<1> DEFINE q == Released(r)
           c == [b EXCEPT !.status = "queued"]
<1>1. r \in JobRow /\ b \in RunRow /\ b.finished = r.finished /\ r.finished = FALSE
  BY DEF Consistent, JobRow
<1>2. /\ q \in JobRow /\ q.state = "queued" /\ q.phase = "queued" /\ q.finished = FALSE
      /\ q.attemptCount = r.attemptCount
  BY <1>1, ReleasedRow
<1>3. c \in RunRow /\ c.status = "queued" /\ c.finished = FALSE
  BY <1>1, RowConstants DEF RunRow
<1>4. /\ g \in Seq(Attempt) /\ Len(g) = r.attemptCount /\ r.attemptCount \in Nat \ {0}
      /\ g[r.attemptCount].outcome = how
      /\ \A n \in 1..Len(g) : n # r.attemptCount => g[n].outcome \notin {"running", "complete"}
      /\ e \in Nat /\ (e # 0 => e \in 1..Len(g) /\ g[e].outcome = "complete")
  BY CloseRunning
<1> HIDE DEF q, c
<1>5. Consistent(q, g, c, e)
  BY <1>2, <1>3, <1>4, RowConstants DEF Consistent, Ended
<1>6. QED
  BY <1>5 DEF q, c

(* A job ends with its current attempt; a completed one with its episode.   *)
LEMMA FinishConsistent ==
  ASSUME NEW r, NEW h, NEW b, NEW e, Consistent(r, h, b, e), r.state = "running",
         NEW how \in {"complete", "failed"}, NEW again \in BOOLEAN,
         NEW g, ClosesAs(h, g, r.attemptCount, how)
  PROVE  Consistent(Finished(r, how, again), g, [status |-> how, finished |-> TRUE],
                    IF how = "complete" THEN r.attemptCount ELSE e)
<1> DEFINE q == Finished(r, how, again)
           c == [status |-> how, finished |-> TRUE]
           f == IF how = "complete" THEN r.attemptCount ELSE e
<1>1. r \in JobRow
  BY DEF Consistent
<1>2. /\ q \in JobRow /\ q.state = how /\ q.phase = how /\ q.finished = TRUE
      /\ q.attemptCount = r.attemptCount
  BY <1>1, RowConstants DEF Finished, JobRow
<1>3. c \in RunRow /\ c.status = how /\ c.finished = TRUE
  BY RowConstants DEF RunRow
<1>4. /\ g \in Seq(Attempt) /\ Len(g) = r.attemptCount /\ r.attemptCount \in Nat \ {0}
      /\ g[r.attemptCount].outcome = how
      /\ \A n \in 1..Len(g) : n # r.attemptCount => g[n].outcome \notin {"running", "complete"}
      /\ e \in Nat /\ (e # 0 => e \in 1..Len(g) /\ g[e].outcome = "complete")
  BY CloseRunning
<1>5. f \in Nat /\ (f # 0 => f \in 1..Len(g) /\ g[f].outcome = "complete")
  BY <1>4
<1> HIDE DEF q, c, f
<1>7. Consistent(q, g, c, f)
  <2>1. CASE how = "complete"
    BY <1>2, <1>3, <1>4, <1>5, <2>1, RowConstants DEF Consistent, Ended, f
  <2>2. CASE how = "failed"
    BY <1>2, <1>3, <1>4, <1>5, <2>2, RowConstants DEF Consistent, Ended
  <2>3. QED
    BY <2>1, <2>2
<1>8. QED
  BY <1>7 DEF q, c, f

LEMMA ClaimConsistent ==
  ASSUME NEW r, NEW h, NEW b, NEW e, Consistent(r, h, b, e), r.state = "queued",
         NEW w \in Worker
  PROVE  Consistent(Claimed(r, w), Append(h, [by |-> w, outcome |-> "running"]),
                    [status |-> "syncing", finished |-> FALSE], e)
<1> DEFINE a == [by |-> w, outcome |-> "running"]
           g == Append(h, a)
           q == Claimed(r, w)
           c == [status |-> "syncing", finished |-> FALSE]
<1>1. a \in Attempt /\ h \in Seq(Attempt) /\ Len(h) = r.attemptCount /\ r.attemptCount \in Nat
  BY DEF Consistent, Attempt, Outcome, JobRow
<1>2. /\ g \in Seq(Attempt) /\ Len(g) = r.attemptCount + 1
      /\ \A i \in 1..Len(h) : g[i] = h[i]
      /\ g[r.attemptCount + 1].by = w /\ g[r.attemptCount + 1].outcome = "running"
  <2>1. g[r.attemptCount + 1] = a
    BY <1>1, AppendProperties
  <2>2. QED
    BY <1>1, <2>1, AppendProperties
<1>3. /\ q \in JobRow /\ q.state = "running" /\ q.phase = "syncing" /\ q.finished = FALSE
      /\ q.attemptCount = r.attemptCount + 1 /\ q.owner = w
  BY ClaimedRow DEF Consistent
<1>4. \A n \in 1..Len(h) : h[n].outcome \notin {"running", "complete"}
  BY <1>1 DEF Consistent, Ended
<1>5. e \in Nat /\ e = 0
  BY <1>4 DEF Consistent
<1>6. c \in RunRow /\ c.status = "syncing" /\ c.finished = FALSE
  BY RowConstants DEF RunRow
<1>7. \A n \in 1..Len(g) : g[n].outcome \in {"running", "complete"} => n = r.attemptCount + 1
  BY <1>1, <1>2, <1>4
<1> HIDE DEF g, q, c
<1>8. Consistent(q, g, c, e)
  <2>1. q.attemptCount > 0 /\ r.attemptCount \in Nat
    BY <1>1, <1>3
  <2>2. g[q.attemptCount].by = q.owner /\ g[q.attemptCount].outcome = "running"
    BY <1>2, <1>3
  <2>3. \A n \in 1..Len(g) : g[n].outcome \in {"running", "complete"} => n = q.attemptCount
    BY <1>3, <1>7
  <2>4. q.phase \in ActivePhase /\ Len(g) = q.attemptCount /\ g \in Seq(Attempt)
    BY <1>2, <1>3, RowConstants
  <2> HIDE DEF a
  <2>5. QED
    BY <1>3, <1>5, <1>6, <2>1, <2>2, <2>3, <2>4 DEF Consistent
<1>9. QED
  BY <1>8 DEF g, q, c

LEMMA RejectConsistent ==
  ASSUME NEW r, NEW h, NEW b, NEW e, Consistent(r, h, b, e), r.state = "queued", r.readable = FALSE
  PROVE  Consistent(Malformed(r), h, [status |-> "failed", finished |-> TRUE], e)
<1> DEFINE q == Malformed(r)
           c == [status |-> "failed", finished |-> TRUE]
<1>1. /\ q \in JobRow /\ q.state = "failed" /\ q.phase = "failed" /\ q.finished = TRUE
      /\ q.attemptCount = r.attemptCount /\ q.readable = FALSE
  BY MalformedRow DEF Consistent
<1>2. c \in RunRow /\ c.status = "failed" /\ c.finished = TRUE
  BY RowConstants DEF RunRow
<1> HIDE DEF q, c
<1>3. Consistent(q, h, c, e)
  BY <1>1, <1>2, RowConstants DEF Consistent, Ended
<1>4. QED
  BY <1>3 DEF q, c

LEMMA RenewConsistent ==
  ASSUME NEW r, NEW h, NEW b, NEW e, Consistent(r, h, b, e), r.state = "running"
  PROVE  Consistent(Renewed(r), h, b, e)
<1> DEFINE q == Renewed(r)
<1>1. r \in JobRow
  BY DEF Consistent
<1>2. /\ q \in JobRow /\ q.state = r.state /\ q.phase = r.phase /\ q.finished = r.finished
      /\ q.attemptCount = r.attemptCount /\ q.owner = r.owner /\ q.readable = r.readable
  BY <1>1, RowConstants DEF Renewed, JobRow
<1> HIDE DEF q
<1>3. Consistent(q, h, b, e)
  BY <1>2 DEF Consistent
<1>4. QED
  BY <1>3 DEF q

LEMMA RephaseConsistent ==
  ASSUME NEW r, NEW h, NEW b, NEW e, Consistent(r, h, b, e), r.state = "running",
         NEW p \in ActivePhase
  PROVE  Consistent([Renewed(r) EXCEPT !.phase = p], h, [b EXCEPT !.status = p], e)
<1> DEFINE q == [Renewed(r) EXCEPT !.phase = p]
           c == [b EXCEPT !.status = p]
<1>1. r \in JobRow /\ b \in RunRow /\ p \in Phase
  BY DEF Consistent, Phase
<1>2. /\ q \in JobRow /\ q.state = r.state /\ q.phase = p /\ q.finished = r.finished
      /\ q.attemptCount = r.attemptCount /\ q.owner = r.owner /\ q.readable = r.readable
  BY <1>1, RowConstants DEF Renewed, JobRow
<1>3. c \in RunRow /\ c.status = p /\ c.finished = b.finished
  BY <1>1 DEF RunRow
<1> HIDE DEF q, c
<1>4. Consistent(q, h, c, e)
  BY <1>2, <1>3 DEF Consistent
<1>5. QED
  BY <1>4 DEF q, c

Requeued(r) == [r EXCEPT !.state = "queued", !.phase = "queued",
                         !.retryable = FALSE, !.finished = FALSE]

LEMMA RequeueConsistent ==
  ASSUME NEW r, NEW h, NEW b, NEW e, Consistent(r, h, b, e), r.state = "failed"
  PROVE  Consistent(Requeued(r), h, [status |-> "queued", finished |-> FALSE], e)
<1> DEFINE q == Requeued(r)
           c == [status |-> "queued", finished |-> FALSE]
<1>1. r \in JobRow
  BY DEF Consistent
<1>2. /\ q \in JobRow /\ q.state = "queued" /\ q.phase = "queued" /\ q.finished = FALSE
      /\ q.attemptCount = r.attemptCount
  BY <1>1, RowConstants DEF Requeued, JobRow
<1>3. c \in RunRow /\ c.status = "queued" /\ c.finished = FALSE
  BY RowConstants DEF RunRow
<1> HIDE DEF q, c
<1>4. Consistent(q, h, c, e)
  BY <1>2, <1>3, RowConstants DEF Consistent
<1>5. QED
  BY <1>4 DEF q, c

NewRow(n, k) == [NoRow EXCEPT !.state = "queued", !.row = n, !.key = k]

LEMMA NewConsistent ==
  ASSUME NEW r, NEW h, NEW b, NEW e, Consistent(r, h, b, e), r.state = "absent",
         NEW n \in Nat, NEW k \in Key \cup {NoKey}
  PROVE  Consistent(NewRow(n, k), h, b, e)
<1> DEFINE q == NewRow(n, k)
<1>1. /\ q \in JobRow /\ q.state = "queued" /\ q.phase = "queued" /\ q.finished = FALSE
      /\ q.attemptCount = 0
  BY RowConstants DEF NewRow, NoRow, JobRow
<1>2. r.finished = FALSE
  BY DEF Consistent, JobRow
<1> HIDE DEF q
<1>3. Consistent(q, h, b, e)
  BY <1>1, <1>2, RowConstants DEF Consistent
<1>4. QED
  BY <1>3 DEF q

(* Time passes for the lease, or a waiting row is damaged.                  *)
LEMMA TickConsistent ==
  ASSUME NEW r, NEW h, NEW b, NEW e, Consistent(r, h, b, e), NEW t \in 0..LeaseTicks
  PROVE  Consistent([r EXCEPT !.ttl = t], h, b, e)
<1> DEFINE q == [r EXCEPT !.ttl = t]
<1>1. /\ q \in JobRow /\ q.state = r.state /\ q.phase = r.phase /\ q.finished = r.finished
      /\ q.attemptCount = r.attemptCount /\ q.owner = r.owner /\ q.readable = r.readable
  BY DEF JobRow, Consistent
<1> HIDE DEF q
<1>2. Consistent(q, h, b, e)
  BY <1>1 DEF Consistent
<1>3. QED
  BY <1>2 DEF q

LEMMA DamageConsistent ==
  ASSUME NEW r, NEW h, NEW b, NEW e, Consistent(r, h, b, e), r.state = "queued"
  PROVE  Consistent([r EXCEPT !.readable = FALSE], h, b, e)
<1> DEFINE q == [r EXCEPT !.readable = FALSE]
<1>1. r \in JobRow
  BY DEF Consistent
<1>2. /\ q \in JobRow /\ q.state = r.state /\ q.phase = r.phase /\ q.finished = r.finished
      /\ q.attemptCount = r.attemptCount /\ q.owner = r.owner
  BY <1>1 DEF JobRow
<1> HIDE DEF q
<1>3. Consistent(q, h, b, e)
  BY <1>2 DEF Consistent
<1>4. QED
  BY <1>3 DEF q

-----------------------------------------------------------------------------
(* The inductive invariant *)

(* What a worker's memory says of the rows: a live worker that owns a       *)
(* running job is processing it, a process that has not started owns none,  *)
(* and one that found its job lost never owns it again before it is idle.   *)
WorkersKnow ==
  \A w \in Worker :
    /\ worker[w].pc \in {"processing", "settling"} => worker[w].job \in Job
    /\ worker[w].pc \in {"down", "idle"} => worker[w].job = NoJob
    /\ worker[w].pc = "down" => \A j \in Job : jobs[j].state = "running" => jobs[j].owner # w
    /\ worker[w].pc = "settling" /\ worker[w].verdict = "nothing" => ~StillOwned(w)

IInv ==
  /\ TypeOK
  /\ RowsConsistent
  /\ SingleRunning
  /\ WorkersKnow
  /\ OwnerHoldsCurrentAttempt

LEMMA RecoveryConsistent ==
  ASSUME TypeOK, RowsConsistent, NEW j \in Job
  PROVE  /\ Consistent(RecoveredJobs[j], RecoveredAttempts[j], RecoveredRuns[j], episode[j])
         /\ RecoveredJobs[j].state = "running" => RecoveredJobs[j] = jobs[j] /\ jobs[j].ttl # 0
         /\ RecoveredJobs[j].attemptCount = jobs[j].attemptCount
         /\ RecoveredJobs[j].readable = jobs[j].readable
<1>1. Consistent(jobs[j], attempts[j], runs[j], episode[j])
  BY DEF RowsConsistent
<1>2. jobs[j] \in JobRow
  BY DEF TypeOK
<1>3. CASE j \in Stale
  <2>1. /\ RecoveredJobs[j] = Released(jobs[j])
        /\ RecoveredAttempts[j] = Closed(j, "recovered")
        /\ RecoveredRuns[j] = [runs[j] EXCEPT !.status = "queued"]
        /\ jobs[j].state = "running"
    BY <1>3 DEF RecoveredJobs, RecoveredAttempts, RecoveredRuns, Stale
  <2>2. ClosesAs(attempts[j], Closed(j, "recovered"), jobs[j].attemptCount, "recovered")
    BY ClosedCloses DEF Outcome
  <2>3. /\ Released(jobs[j]).readable = jobs[j].readable
        /\ Released(jobs[j]).attemptCount = jobs[j].attemptCount
        /\ Released(jobs[j]).state = "queued"
    BY <1>2 DEF Released, JobRow
  <2>4. Consistent(Released(jobs[j]), Closed(j, "recovered"),
                   [runs[j] EXCEPT !.status = "queued"], episode[j])
    BY <1>1, <2>1, <2>2, ReleaseConsistent
  <2>5. QED
    BY <2>1, <2>3, <2>4
<1>4. CASE j \notin Stale
  BY <1>1, <1>4 DEF RecoveredJobs, RecoveredAttempts, RecoveredRuns, Stale
<1>5. QED
  BY <1>3, <1>4

-----------------------------------------------------------------------------
(* Every step keeps the rows of every request consistent. *)

LEMMA EnqueueRows ==
  ASSUME IInv, NEW j \in Job, NEW k \in Key \cup {NoKey}, Enqueue(j, k)
  PROVE  RowsConsistent'
<1> SUFFICES ASSUME NEW i \in Job
             PROVE  Consistent(jobs'[i], attempts'[i], runs'[i], episode'[i])
  BY DEF RowsConsistent
<1>1. Consistent(jobs[i], attempts[i], runs[i], episode[i])
  BY DEF IInv, RowsConsistent
<1>2. attempts' = attempts /\ runs' = runs /\ episode' = episode
  BY DEF Enqueue
<1>3. CASE i = j
  <2>1. jobs'[i] = NewRow(lastRow + 1, k) /\ jobs[i].state = "absent"
    BY <1>3 DEF Enqueue, NewRow, IInv, TypeOK
  <2>2. lastRow + 1 \in Nat
    BY DEF IInv, TypeOK
  <2>3. QED
    BY <1>1, <1>2, <2>1, <2>2, NewConsistent
<1>4. CASE i # j
  BY <1>1, <1>2, <1>4 DEF Enqueue
<1>5. QED
  BY <1>3, <1>4

LEMMA RetryRows ==
  ASSUME IInv, NEW j \in Job, NEW k \in Key, Retry(j, k)
  PROVE  RowsConsistent'
<1>1. CASE RetryAnswered(j, k)
  BY <1>1 DEF RetryAnswered, IInv, RowsConsistent
<1>2. CASE RetryRequeues(j, k)
  <2> SUFFICES ASSUME NEW i \in Job
               PROVE  Consistent(jobs'[i], attempts'[i], runs'[i], episode'[i])
    BY DEF RowsConsistent
  <2>1. Consistent(jobs[i], attempts[i], runs[i], episode[i])
    BY DEF IInv, RowsConsistent
  <2>2. attempts' = attempts /\ episode' = episode
    BY <1>2 DEF RetryRequeues
  <2>3. CASE i = j
    <3>1. /\ jobs'[i] = Requeued(jobs[i]) /\ jobs[i].state = "failed"
          /\ runs'[i] = [status |-> "queued", finished |-> FALSE]
      BY <1>2, <2>3 DEF RetryRequeues, Requeued, IInv, TypeOK
    <3>2. QED
      BY <2>1, <2>2, <3>1, RequeueConsistent
  <2>4. CASE i # j
    <3>1. jobs'[i] = jobs[i] /\ runs'[i] = runs[i]
      BY <1>2, <2>4 DEF RetryRequeues, IInv, TypeOK
    <3>2. QED
      BY <2>1, <2>2, <3>1
  <2>5. QED
    BY <2>3, <2>4
<1>3. QED
  BY <1>1, <1>2 DEF Retry

LEMMA StartRows ==
  ASSUME IInv, NEW w \in Worker, Start(w)
  PROVE  RowsConsistent'
BY RecoveryConsistent DEF Start, IInv, RowsConsistent

LEMMA RejectedRows ==
  ASSUME IInv, NEW bad \in SUBSET Waiting, \A i \in bad : jobs[i].readable = FALSE, NEW i \in Job
  PROVE  Consistent(Reject(bad, RecoveredJobs)[i], RecoveredAttempts[i],
                    RejectRuns(bad, RecoveredRuns)[i], episode[i])
<1>1. Consistent(RecoveredJobs[i], RecoveredAttempts[i], RecoveredRuns[i], episode[i])
  BY RecoveryConsistent DEF IInv
<1>2. CASE i \in bad
  <2>1. RecoveredJobs[i].state = "queued" /\ RecoveredJobs[i].readable = FALSE
    BY <1>2, RecoveryConsistent DEF IInv, Waiting
  <2>2. /\ Reject(bad, RecoveredJobs)[i] = Malformed(RecoveredJobs[i])
        /\ RejectRuns(bad, RecoveredRuns)[i] = [status |-> "failed", finished |-> TRUE]
    BY <1>2 DEF Reject, RejectRuns
  <2>3. QED
    BY <1>1, <2>1, <2>2, RejectConsistent
<1>3. CASE i \notin bad
  BY <1>1, <1>3 DEF Reject, RejectRuns
<1>4. QED
  BY <1>2, <1>3

LEMMA ClaimRows ==
  ASSUME IInv, NEW w \in Worker, ClaimNext(w)
  PROVE  RowsConsistent'
<1> SUFFICES ASSUME NEW i \in Job
             PROVE  Consistent(jobs'[i], attempts'[i], runs'[i], episode'[i])
  BY DEF RowsConsistent
<1>1. episode' = episode
  BY DEF ClaimNext
<1>2. CASE ClaimNothing(w)
  <2> DEFINE bad == IF SlotTaken THEN {} ELSE Waiting
  <2>1. bad \in SUBSET Waiting /\ \A n \in bad : jobs[n].readable = FALSE
    BY <1>2 DEF ClaimNothing, IInv, TypeOK, JobRow, Waiting
  <2>2. /\ jobs' = Reject(bad, RecoveredJobs) /\ attempts' = RecoveredAttempts
        /\ runs' = RejectRuns(bad, RecoveredRuns)
    BY <1>2 DEF ClaimNothing
  <2> HIDE DEF bad
  <2>3. QED
    BY <1>1, <2>1, <2>2, RejectedRows
<1>3. ASSUME NEW j \in Job, ClaimJob(w, j)
      PROVE  Consistent(jobs'[i], attempts'[i], runs'[i], episode'[i])
  <2> DEFINE bad == {n \in Waiting : Older(n, j)}
  <2>1. bad \in SUBSET Waiting /\ \A n \in bad : jobs[n].readable = FALSE
    BY <1>3 DEF ClaimJob, IInv, TypeOK, JobRow, Waiting
  <2>2. j \in Waiting /\ j \notin bad
    BY <1>3 DEF ClaimJob, IInv, TypeOK, JobRow
  <2>3. /\ jobs' = [Reject(bad, RecoveredJobs) EXCEPT ![j] = Claimed(@, w)]
        /\ attempts' = [RecoveredAttempts EXCEPT ![j] = Append(@, [by |-> w, outcome |-> "running"])]
        /\ runs' = [RejectRuns(bad, RecoveredRuns) EXCEPT
                      ![j] = [status |-> "syncing", finished |-> FALSE]]
    BY <1>3 DEF ClaimJob
  <2> HIDE DEF bad
  <2>4. Consistent(Reject(bad, RecoveredJobs)[i], RecoveredAttempts[i],
                   RejectRuns(bad, RecoveredRuns)[i], episode[i])
    BY <2>1, RejectedRows
  <2>5. CASE i = j
    <3>1. /\ jobs'[i] = Claimed(RecoveredJobs[i], w)
          /\ attempts'[i] = Append(RecoveredAttempts[i], [by |-> w, outcome |-> "running"])
          /\ runs'[i] = [status |-> "syncing", finished |-> FALSE]
      BY <2>2, <2>3, <2>5 DEF Reject, RejectRuns, RecoveredAttempts
    <3>2. RecoveredJobs[i].state = "queued"
      BY <2>2, <2>5 DEF Waiting
    <3>3. Consistent(RecoveredJobs[i], RecoveredAttempts[i], RecoveredRuns[i], episode[i])
      BY RecoveryConsistent DEF IInv
    <3>4. QED
      BY <1>1, <3>1, <3>2, <3>3, ClaimConsistent
  <2>6. CASE i # j
    <3>1. /\ jobs'[i] = Reject(bad, RecoveredJobs)[i] /\ attempts'[i] = RecoveredAttempts[i]
          /\ runs'[i] = RejectRuns(bad, RecoveredRuns)[i]
      BY <2>3, <2>6 DEF Reject, RejectRuns, RecoveredAttempts
    <3>2. QED
      BY <1>1, <2>4, <3>1
  <2>7. QED
    BY <2>5, <2>6
<1>4. QED
  BY <1>2, <1>3 DEF ClaimNext

(* A worker whose store call is accepted knows its attempt and its phase.   *)
LEMMA OwnedFacts ==
  ASSUME IInv, NEW w \in Worker, worker[w].pc \in {"processing", "settling"}, Owned(w)
  PROVE  LET j == worker[w].job
         IN  /\ j \in Job /\ jobs[j].state = "running" /\ jobs[j].owner = w
             /\ worker[w].attempt = jobs[j].attemptCount
             /\ worker[w].stage = jobs[j].phase /\ jobs[j].phase \in ActivePhase
<1>1. worker[w].job \in Job
  BY DEF IInv, WorkersKnow
<1>2. jobs[worker[w].job].state = "running" /\ jobs[worker[w].job].owner = w
  BY DEF Owned
<1>3. /\ worker[w].attempt = jobs[worker[w].job].attemptCount
      /\ worker[w].stage = jobs[worker[w].job].phase
  BY <1>1, <1>2 DEF IInv, OwnerHoldsCurrentAttempt, Alive
<1>4. jobs[worker[w].job].phase \in ActivePhase
  BY <1>1, <1>2 DEF IInv, RowsConsistent, Consistent
<1>5. QED
  BY <1>1, <1>2, <1>3, <1>4

LEMMA NextPhaseActive ==
  ASSUME NEW p \in ActivePhase, p # "rendering_audio"
  PROVE  NextPhase(p) \in ActivePhase
BY DEF ActivePhase, NextPhase

LEMMA RenewRows ==
  ASSUME IInv, NEW w \in Worker, RenewLease(w) \/ UpdatePhase(w)
  PROVE  RowsConsistent'
<1> DEFINE j == worker[w].job
           p == NextPhase(worker[w].stage)
<1>1. worker[w].pc = "processing" /\ Owned(w)
  BY DEF RenewLease, UpdatePhase
<1>2. j \in Job /\ jobs[j].state = "running" /\ worker[w].stage \in ActivePhase
  BY <1>1, OwnedFacts
<1> SUFFICES ASSUME NEW i \in Job
             PROVE  Consistent(jobs'[i], attempts'[i], runs'[i], episode'[i])
  BY DEF RowsConsistent
<1>3. Consistent(jobs[i], attempts[i], runs[i], episode[i])
  BY DEF IInv, RowsConsistent
<1>4. attempts' = attempts /\ episode' = episode
  BY DEF RenewLease, UpdatePhase
<1>5. CASE i # j
  <2>1. jobs'[i] = jobs[i] /\ runs'[i] = runs[i]
    BY <1>5 DEF RenewLease, UpdatePhase, IInv, TypeOK
  <2>2. QED
    BY <1>3, <1>4, <2>1
<1>6. CASE i = j /\ RenewLease(w)
  <2>1. jobs'[i] = Renewed(jobs[i]) /\ runs'[i] = runs[i]
    BY <1>6 DEF RenewLease, IInv, TypeOK
  <2>2. QED
    BY <1>2, <1>3, <1>4, <1>6, <2>1, RenewConsistent
<1>7. CASE i = j /\ UpdatePhase(w)
  <2>1. /\ jobs'[i] = [Renewed(jobs[i]) EXCEPT !.phase = p]
        /\ runs'[i] = [runs[i] EXCEPT !.status = p]
    BY <1>7 DEF UpdatePhase, IInv, TypeOK
  <2>2. p \in ActivePhase
    BY <1>2, <1>7, NextPhaseActive DEF UpdatePhase
  <2> HIDE DEF p
  <2>3. QED
    BY <1>2, <1>3, <1>4, <1>7, <2>1, <2>2, RephaseConsistent
<1>8. QED
  BY <1>5, <1>6, <1>7

LEMMA CompleteRows ==
  ASSUME IInv, NEW w \in Worker, Complete(w)
  PROVE  RowsConsistent'
<1> DEFINE j == worker[w].job
<1>1. worker[w].pc = "processing" /\ Owned(w)
  BY DEF Complete
<1>2. j \in Job /\ jobs[j].state = "running" /\ worker[w].attempt = jobs[j].attemptCount
  BY <1>1, OwnedFacts
<1> SUFFICES ASSUME NEW i \in Job
             PROVE  Consistent(jobs'[i], attempts'[i], runs'[i], episode'[i])
  BY DEF RowsConsistent
<1>3. Consistent(jobs[i], attempts[i], runs[i], episode[i])
  BY DEF IInv, RowsConsistent
<1>4. CASE i # j
  <2>1. /\ jobs'[i] = jobs[i] /\ runs'[i] = runs[i] /\ attempts'[i] = attempts[i]
        /\ episode'[i] = episode[i]
    BY <1>4 DEF Complete, IInv, TypeOK
  <2>2. QED
    BY <1>3, <2>1
<1>5. CASE i = j
  <2>1. /\ jobs'[i] = Finished(jobs[i], "complete", FALSE)
        /\ attempts'[i] = Closed(i, "complete")
        /\ runs'[i] = [status |-> "complete", finished |-> TRUE]
        /\ episode'[i] = jobs[i].attemptCount
    BY <1>2, <1>5 DEF Complete, IInv, TypeOK
  <2>2. ClosesAs(attempts[i], Closed(i, "complete"), jobs[i].attemptCount, "complete")
    BY ClosedCloses DEF Outcome, IInv
  <2>3. QED
    BY <1>2, <1>3, <1>5, <2>1, <2>2, FinishConsistent
<1>6. QED
  BY <1>4, <1>5

LEMMA SettleRows ==
  ASSUME IInv, NEW w \in Worker, Settle(w)
  PROVE  RowsConsistent'
<1> DEFINE j == worker[w].job
           v == worker[w].verdict
<1>1. episode' = episode
  BY DEF Settle
<1> SUFFICES ASSUME NEW i \in Job
             PROVE  Consistent(jobs'[i], attempts'[i], runs'[i], episode'[i])
  BY DEF RowsConsistent
<1>2. Consistent(jobs[i], attempts[i], runs[i], episode[i])
  BY DEF IInv, RowsConsistent
<1>3. CASE v = "nothing" \/ i # j
  <2>1. jobs'[i] = jobs[i] /\ runs'[i] = runs[i] /\ attempts'[i] = attempts[i]
    BY <1>3 DEF Settle, IInv, TypeOK
  <2>2. QED
    BY <1>1, <1>2, <2>1
<1>4. ASSUME v # "nothing"
      PROVE  j \in Job /\ jobs[j].state = "running"
  <2>1. worker[w].pc = "settling" /\ Owned(w)
    BY <1>4 DEF Settle
  <2>2. QED
    BY <2>1, OwnedFacts
<1>5. CASE v = "interrupt" /\ i = j
  <2>1. /\ jobs'[i] = Released(jobs[i])
        /\ attempts'[i] = Closed(i, "interrupted")
        /\ runs'[i] = [runs[i] EXCEPT !.status = "queued"]
    BY <1>5 DEF Settle, IInv, TypeOK
  <2>2. ClosesAs(attempts[i], Closed(i, "interrupted"), jobs[i].attemptCount, "interrupted")
    BY ClosedCloses DEF Outcome, IInv
  <2>3. QED
    BY <1>1, <1>2, <1>4, <1>5, <2>1, <2>2, ReleaseConsistent
<1>6. CASE v \in {"retryable", "final"} /\ i = j
  <2> DEFINE again == (v = "retryable")
  <2>1. /\ jobs'[i] = Finished(jobs[i], "failed", again)
        /\ attempts'[i] = Closed(i, "failed")
        /\ runs'[i] = [status |-> "failed", finished |-> TRUE]
    BY <1>6 DEF Settle, IInv, TypeOK
  <2>2. ClosesAs(attempts[i], Closed(i, "failed"), jobs[i].attemptCount, "failed")
    BY ClosedCloses DEF Outcome, IInv
  <2>3. again \in BOOLEAN
    OBVIOUS
  <2> HIDE DEF again
  <2>4. QED
    BY <1>1, <1>2, <1>4, <1>6, <2>1, <2>2, <2>3, FinishConsistent
<1>7. QED
  BY <1>3, <1>5, <1>6 DEF IInv, TypeOK, WorkerState

LEMMA OtherRows ==
  ASSUME IInv, Tick \/ \E j \in Job : Damage(j)
  PROVE  RowsConsistent'
<1> SUFFICES ASSUME NEW i \in Job
             PROVE  Consistent(jobs'[i], attempts'[i], runs'[i], episode'[i])
  BY DEF RowsConsistent
<1>1. Consistent(jobs[i], attempts[i], runs[i], episode[i])
  BY DEF IInv, RowsConsistent
<1>2. attempts' = attempts /\ runs' = runs /\ episode' = episode
  BY DEF Tick, Damage
<1>3. CASE jobs'[i] = jobs[i]
  BY <1>1, <1>2, <1>3
<1>4. CASE Tick /\ jobs'[i] # jobs[i]
  <2> DEFINE t == jobs[i].ttl - 1
  <2>1. jobs'[i] = [jobs[i] EXCEPT !.ttl = t] /\ jobs[i].ttl > 0
    BY <1>4 DEF Tick, Leased
  <2>2. t \in 0..LeaseTicks
    BY <2>1, JobsAssumption DEF IInv, TypeOK, JobRow
  <2> HIDE DEF t
  <2>3. QED
    BY <1>1, <1>2, <2>1, <2>2, TickConsistent
<1>5. ASSUME NEW j \in Job, Damage(j), jobs'[i] # jobs[i]
      PROVE  Consistent(jobs'[i], attempts'[i], runs'[i], episode'[i])
  <2>1. jobs'[i] = [jobs[i] EXCEPT !.readable = FALSE] /\ jobs[i].state = "queued"
    BY <1>5 DEF Damage, IInv, TypeOK
  <2>2. QED
    BY <1>1, <1>2, <2>1, DamageConsistent
<1>6. QED
  BY <1>3, <1>4, <1>5

LEMMA RowsStep ==
  ASSUME IInv, [Next]_vars
  PROVE  RowsConsistent'
<1>1. ASSUME NEW j \in Job, NEW k \in Key \cup {NoKey}, Enqueue(j, k)
      PROVE  RowsConsistent'
  BY <1>1, EnqueueRows
<1>2. ASSUME NEW j \in Job, NEW k \in Key, Retry(j, k)
      PROVE  RowsConsistent'
  BY <1>2, RetryRows
<1>3. ASSUME NEW w \in Worker, Start(w) \/ ClaimNext(w) \/ Complete(w) \/ Settle(w)
      PROVE  RowsConsistent'
  BY <1>3, StartRows, ClaimRows, CompleteRows, SettleRows
<1>4. ASSUME NEW w \in Worker, RenewLease(w) \/ UpdatePhase(w)
      PROVE  RowsConsistent'
  BY <1>4, RenewRows
<1>5. CASE Tick \/ \E j \in Job : Damage(j)
  BY <1>5, OtherRows
<1>6. CASE UNCHANGED <<jobs, attempts, runs, episode>>
  BY <1>6 DEF IInv, RowsConsistent
<1>7. ASSUME NEW w \in Worker,
             \/ HeartbeatFails(w) \/ StoreRefuses(w) \/ SettleThrows(w)
             \/ \E how \in {"interrupt", "retryable", "final"} : ProcessorThrows(w, how)
             \/ Stop(w) \/ Exit(w) \/ Crash(w)
      PROVE  RowsConsistent'
  BY <1>6, <1>7 DEF HeartbeatFails, StoreRefuses, SettleThrows, ProcessorThrows, Stop, Exit, Crash
<1>8. QED
  BY <1>1, <1>2, <1>3, <1>4, <1>5, <1>6, <1>7 DEF Next, Processes, vars

-----------------------------------------------------------------------------
(* What the workers remember stays true. *)

(* A running job of the next state was running already, in the same hands.  *)
Kept(i) ==
  jobs'[i].state = "running" =>
    /\ jobs[i].state = "running"
    /\ jobs'[i].owner = jobs[i].owner
    /\ jobs'[i].attemptCount = jobs[i].attemptCount
    /\ jobs'[i].phase = jobs[i].phase

Memory == SingleRunning /\ WorkersKnow /\ OwnerHoldsCurrentAttempt

LEMMA KeptStill ==
  ASSUME IInv, \A i \in Job : Kept(i), UNCHANGED worker
  PROVE  Memory'
<1>1. SingleRunning'
  BY DEF IInv, SingleRunning, Kept
<1>2. WorkersKnow'
  BY DEF IInv, WorkersKnow, StillOwned, Kept
<1>3. OwnerHoldsCurrentAttempt'
  BY DEF IInv, OwnerHoldsCurrentAttempt, Alive, Kept
<1>4. QED
  BY <1>1, <1>2, <1>3 DEF Memory

(* A step of worker w after which it is idle with no job, keeps its job, or *)
(* is gone. *)
LEMMA KeptMemory ==
  ASSUME IInv, \A i \in Job : Kept(i), NEW w \in Worker,
         \A u \in Worker : u # w => worker'[u] = worker[u],
         worker'[w].pc # "down",
         worker'[w].pc \in {"processing", "settling"} =>
           /\ worker[w].pc \in {"processing", "settling"}
           /\ worker'[w].job = worker[w].job /\ worker'[w].attempt = worker[w].attempt
           /\ worker'[w].stage = worker[w].stage
           /\ worker'[w].pc = "settling" /\ worker'[w].verdict = "nothing" => ~StillOwned(w)',
         worker'[w].pc = "idle" =>
           /\ worker'[w].job = NoJob
           /\ \A i \in Job : ~(jobs'[i].state = "running" /\ jobs'[i].owner = w)
  PROVE  Memory'
<1>1. SingleRunning'
  BY DEF IInv, SingleRunning, Kept
<1>2. WorkersKnow'
  <2> SUFFICES ASSUME NEW u \in Worker
               PROVE  /\ worker'[u].pc \in {"processing", "settling"} => worker'[u].job \in Job
                      /\ worker'[u].pc \in {"down", "idle"} => worker'[u].job = NoJob
                      /\ worker'[u].pc = "down" =>
                           \A j \in Job : jobs'[j].state = "running" => jobs'[j].owner # u
                      /\ worker'[u].pc = "settling" /\ worker'[u].verdict = "nothing" =>
                           ~StillOwned(u)'
    BY DEF WorkersKnow
  <2>1. CASE u # w
    BY <2>1 DEF IInv, WorkersKnow, StillOwned, Kept
  <2>2. CASE u = w
    BY <2>2 DEF IInv, WorkersKnow
  <2>3. QED
    BY <2>1, <2>2
<1>3. OwnerHoldsCurrentAttempt'
  <2> SUFFICES ASSUME NEW j \in Job, NEW u \in Worker,
                      jobs'[j].state = "running", jobs'[j].owner = u, Alive(u)'
               PROVE  /\ worker'[u].job = j
                      /\ worker'[u].attempt = jobs'[j].attemptCount
                      /\ worker'[u].stage = jobs'[j].phase
    BY DEF OwnerHoldsCurrentAttempt
  <2>1. Kept(j)
    OBVIOUS
  <2>2. CASE u # w
    BY <2>1, <2>2 DEF IInv, OwnerHoldsCurrentAttempt, Alive, Kept
  <2>3. CASE u = w
    BY <2>1, <2>3 DEF IInv, OwnerHoldsCurrentAttempt, Alive, Kept
  <2>4. QED
    BY <2>2, <2>3
<1>4. QED
  BY <1>1, <1>2, <1>3 DEF Memory

(* The steps of users and of the clock. *)
LEMMA OutsideMemory ==
  ASSUME IInv,
         \/ \E j \in Job, k \in Key \cup {NoKey} : Enqueue(j, k)
         \/ \E j \in Job, k \in Key : Retry(j, k)
         \/ \E j \in Job : Damage(j)
         \/ Tick
         \/ \E w \in Worker : RenewLease(w)
         \/ UNCHANGED vars
  PROVE  Memory'
<1>0. UNCHANGED worker
  BY DEF Enqueue, Retry, RetryAnswered, RetryRequeues, Damage, Tick, RenewLease, vars
<1> SUFFICES ASSUME NEW i \in Job PROVE Kept(i)
  BY <1>0, KeptStill
<1>1. jobs \in [Job -> JobRow]
  BY DEF IInv, TypeOK
<1>2. CASE \E j \in Job, k \in Key \cup {NoKey} : Enqueue(j, k)
  BY <1>1, <1>2 DEF Enqueue, Kept, NoRow
<1>3. CASE \E j \in Job, k \in Key : Retry(j, k)
  <2>1. PICK j \in Job, k \in Key : RetryAnswered(j, k) \/ RetryRequeues(j, k)
    BY <1>3 DEF Retry
  <2>2. CASE RetryAnswered(j, k)
    BY <2>2 DEF RetryAnswered, Kept
  <2>3. CASE RetryRequeues(j, k)
    BY <1>1, <2>3 DEF RetryRequeues, Kept, JobRow
  <2>4. QED
    BY <2>1, <2>2, <2>3
<1>4. CASE \E j \in Job : Damage(j)
  BY <1>1, <1>4 DEF Damage, Kept, JobRow
<1>5. CASE Tick
  BY <1>1, <1>5 DEF Tick, Kept, JobRow
<1>6. ASSUME NEW w \in Worker, RenewLease(w)
      PROVE  Kept(i)
  BY <1>1, <1>6 DEF RenewLease, Renewed, Kept, JobRow
<1>7. CASE UNCHANGED vars
  BY <1>7 DEF vars, Kept
<1>8. QED
  BY <1>2, <1>3, <1>4, <1>5, <1>6, <1>7

(* The steps of a worker that change no row. *)
LEMMA WorkerMemory ==
  ASSUME IInv, NEW w \in Worker,
         \/ HeartbeatFails(w) \/ StoreRefuses(w) \/ SettleThrows(w)
         \/ \E how \in {"interrupt", "retryable", "final"} : ProcessorThrows(w, how)
         \/ Stop(w) \/ Exit(w) \/ Crash(w)
  PROVE  Memory'
<1>1. worker \in [Worker -> WorkerState] /\ jobs \in [Job -> JobRow]
  BY DEF IInv, TypeOK
<1>2. jobs' = jobs
  BY DEF HeartbeatFails, StoreRefuses, SettleThrows, ProcessorThrows, Stop, Exit, Crash
<1>3. \A i \in Job : Kept(i)
  BY <1>2 DEF Kept
<1>4. CASE HeartbeatFails(w)
  <2>1. /\ worker[w].pc = "processing"
        /\ worker' = [worker EXCEPT ![w] = [@ EXCEPT !.aborted = TRUE]]
    BY <1>4 DEF HeartbeatFails
  <2>2. QED
    BY <1>1, <1>3, <2>1, KeptMemory DEF WorkerState
<1>5. ASSUME NEW how \in {"interrupt", "retryable", "final"},
             worker[w].pc = "processing", Caught(w, how)
      PROVE  Memory'
  <2>1. /\ \A u \in Worker : u # w => worker'[u] = worker[u]
        /\ worker'[w].pc = "settling"
        /\ worker'[w].job = worker[w].job /\ worker'[w].attempt = worker[w].attempt
        /\ worker'[w].stage = worker[w].stage
        /\ worker'[w].verdict = "nothing" => ~StillOwned(w)
    BY <1>1, <1>5 DEF Caught, WorkerState
  <2>2. StillOwned(w)' <=> StillOwned(w)
    BY <1>2, <2>1 DEF StillOwned
  <2>3. QED
    BY <1>3, <1>5, <2>1, <2>2, KeptMemory
<1>6. CASE StoreRefuses(w) \/ \E how \in {"interrupt", "retryable", "final"} : ProcessorThrows(w, how)
  BY <1>5, <1>6 DEF StoreRefuses, ProcessorThrows
<1>7. CASE SettleThrows(w) \/ Exit(w) \/ Crash(w)
  <2>1. /\ \A u \in Worker : u # w => worker'[u] = worker[u]
        /\ worker'[w].pc \in {"failed", "exited", "killed"}
    BY <1>1, <1>7 DEF SettleThrows, Exit, Crash, Idle, WorkerState
  <2>2. QED
    BY <1>3, <2>1, KeptMemory
<1>8. CASE Stop(w)
  <2>1. /\ \A u \in Worker : u # w => worker'[u] = worker[u]
        /\ worker[w].pc \in {"idle", "processing"} /\ worker'[w].pc = worker[w].pc
        /\ worker'[w].job = worker[w].job /\ worker'[w].attempt = worker[w].attempt
        /\ worker'[w].stage = worker[w].stage
    BY <1>1, <1>8 DEF Stop, WorkerState
  <2>2. worker[w].pc = "idle" => worker[w].job = NoJob /\
          \A i \in Job : ~(jobs[i].state = "running" /\ jobs[i].owner = w)
    BY JobsAssumption DEF IInv, WorkersKnow, OwnerHoldsCurrentAttempt, Alive
  <2>3. QED
    BY <1>2, <1>3, <2>1, <2>2, KeptMemory
<1>9. QED
  BY <1>4, <1>6, <1>7, <1>8

(* Start, a claim that finds nothing, and the ends of a job. *)
LEMMA IdleMemory ==
  ASSUME IInv, NEW w \in Worker, Start(w) \/ Complete(w) \/ Settle(w)
  PROVE  Memory'
<1>1. worker \in [Worker -> WorkerState] /\ jobs \in [Job -> JobRow]
  BY DEF IInv, TypeOK
<1>2. CASE Start(w)
  <2>1. \A i \in Job : Kept(i)
    BY <1>2, RecoveryConsistent DEF Start, Kept, IInv
  <2>2. /\ worker[w].pc = "down"
        /\ \A u \in Worker : u # w => worker'[u] = worker[u]
        /\ worker'[w].pc = "idle" /\ worker'[w].job = worker[w].job
    BY <1>1, <1>2 DEF Start, MayStart, WorkerState
  <2>3. \A i \in Job : ~(jobs'[i].state = "running" /\ jobs'[i].owner = w)
    BY <2>1, <2>2 DEF Kept, IInv, WorkersKnow
  <2>4. worker[w].job = NoJob
    BY <2>2 DEF IInv, WorkersKnow
  <2>5. QED
    BY <2>1, <2>2, <2>3, <2>4, KeptMemory
<1>3. ASSUME worker[w].pc \in {"processing", "settling"}, worker' = Idle(w),
             \A i \in Job : Kept(i),
             jobs'[worker[w].job].state = "running" => jobs'[worker[w].job].owner # w
      PROVE  Memory'
  <2>1. /\ \A u \in Worker : u # w => worker'[u] = worker[u]
        /\ worker'[w].pc = "idle" /\ worker'[w].job = NoJob
    BY <1>1, <1>3 DEF Idle, WorkerState
  <2>2. ASSUME NEW i \in Job, jobs'[i].state = "running", jobs'[i].owner = w
        PROVE  FALSE
    <3>1. jobs[i].state = "running" /\ jobs[i].owner = w
      BY <1>3, <2>2 DEF Kept
    <3>2. worker[w].job = i
      BY <1>3, <3>1 DEF IInv, OwnerHoldsCurrentAttempt, Alive
    <3>3. QED
      BY <1>3, <2>2, <3>2
  <2>3. QED
    BY <1>3, <2>1, <2>2, KeptMemory
<1>4. CASE Complete(w)
  <2> DEFINE j == worker[w].job
  <2>1. worker[w].pc = "processing" /\ worker' = Idle(w) /\ j \in Job
    BY <1>4 DEF Complete, IInv, WorkersKnow
  <2>2. \A i \in Job : Kept(i)
    BY <1>1, <1>4 DEF Complete, Kept, Finished, JobRow
  <2>3. jobs'[j].state # "running"
    BY <1>1, <1>4, <2>1 DEF Complete, Finished, JobRow
  <2>4. QED
    BY <1>3, <2>1, <2>2, <2>3
<1>5. CASE Settle(w)
  <2> DEFINE j == worker[w].job
  <2>1. worker[w].pc = "settling" /\ worker' = Idle(w) /\ j \in Job
    BY <1>5 DEF Settle, IInv, WorkersKnow
  <2>2. CASE worker[w].verdict = "nothing"
    <3>1. jobs' = jobs /\ ~StillOwned(w)
      BY <1>5, <2>1, <2>2 DEF Settle, IInv, WorkersKnow
    <3>2. QED
      BY <1>3, <2>1, <3>1 DEF Kept, StillOwned
  <2>3. CASE worker[w].verdict # "nothing"
    <3>1. jobs'[j].state \in {"queued", "failed"}
      <4>1. CASE worker[w].verdict = "interrupt"
        <5>1. jobs'[j] = Released(jobs[j])
          BY <1>1, <1>5, <2>1, <4>1 DEF Settle
        <5>2. QED
          BY <1>1, <2>1, <5>1, ReleasedRow
      <4>2. CASE worker[w].verdict \in {"retryable", "final"}
        <5>1. jobs'[j] = Finished(jobs[j], "failed", worker[w].verdict = "retryable")
          BY <1>1, <1>5, <2>1, <4>2 DEF Settle
        <5>2. QED
          BY <1>1, <2>1, <5>1 DEF Finished, JobRow
      <4>3. QED
        BY <1>1, <2>3, <4>1, <4>2 DEF WorkerState
    <3>2. \A i \in Job : i # j => jobs'[i] = jobs[i]
      BY <1>1, <1>5, <2>3 DEF Settle
    <3>3. QED
      BY <1>3, <2>1, <3>1, <3>2 DEF Kept
  <2>4. QED
    BY <2>2, <2>3
<1>6. QED
  BY <1>2, <1>4, <1>5

LEMMA PhaseMemory ==
  ASSUME IInv, NEW w \in Worker, UpdatePhase(w)
  PROVE  Memory'
<1> DEFINE j == worker[w].job
           p == NextPhase(worker[w].stage)
<1>1. worker \in [Worker -> WorkerState] /\ jobs \in [Job -> JobRow]
  BY DEF IInv, TypeOK
<1>2. worker[w].pc = "processing" /\ j \in Job /\ jobs[j].state = "running" /\ jobs[j].owner = w
  BY OwnedFacts DEF UpdatePhase
<1>3. /\ \A i \in Job : i # j => jobs'[i] = jobs[i]
      /\ jobs'[j] = [Renewed(jobs[j]) EXCEPT !.phase = p]
      /\ \A u \in Worker : u # w => worker'[u] = worker[u]
      /\ worker'[w] = [worker[w] EXCEPT !.stage = p]
  BY <1>1, <1>2 DEF UpdatePhase
<1>4. /\ jobs'[j].state = "running" /\ jobs'[j].owner = w /\ jobs'[j].phase = p
      /\ jobs'[j].attemptCount = jobs[j].attemptCount
  BY <1>1, <1>2, <1>3 DEF Renewed, JobRow
<1>5. /\ worker'[w].pc = "processing" /\ worker'[w].job = j
      /\ worker'[w].attempt = worker[w].attempt /\ worker'[w].stage = p
  BY <1>1, <1>2, <1>3 DEF WorkerState
<1> HIDE DEF j, p
<1>6. \A i \in Job : /\ jobs'[i].state = jobs[i].state /\ jobs'[i].owner = jobs[i].owner
                     /\ jobs'[i].attemptCount = jobs[i].attemptCount
                     /\ i # j => jobs'[i].phase = jobs[i].phase
  BY <1>2, <1>3, <1>4
<1>7. SingleRunning'
  BY <1>6 DEF IInv, SingleRunning
<1>8. WorkersKnow'
  <2> SUFFICES ASSUME NEW u \in Worker
               PROVE  /\ worker'[u].pc \in {"processing", "settling"} => worker'[u].job \in Job
                      /\ worker'[u].pc \in {"down", "idle"} => worker'[u].job = NoJob
                      /\ worker'[u].pc = "down" =>
                           \A i \in Job : jobs'[i].state = "running" => jobs'[i].owner # u
                      /\ worker'[u].pc = "settling" /\ worker'[u].verdict = "nothing" =>
                           ~StillOwned(u)'
    BY DEF WorkersKnow
  <2>1. CASE u = w
    BY <1>2, <1>5, <2>1
  <2>2. CASE u # w
    BY <1>3, <1>6, <2>2 DEF IInv, WorkersKnow, StillOwned
  <2>3. QED
    BY <2>1, <2>2
<1>9. OwnerHoldsCurrentAttempt'
  <2> SUFFICES ASSUME NEW i \in Job, NEW u \in Worker,
                      jobs'[i].state = "running", jobs'[i].owner = u, Alive(u)'
               PROVE  /\ worker'[u].job = i
                      /\ worker'[u].attempt = jobs'[i].attemptCount
                      /\ worker'[u].stage = jobs'[i].phase
    BY DEF OwnerHoldsCurrentAttempt
  <2>1. i = j /\ u = w
    BY <1>2, <1>6 DEF IInv, SingleRunning
  <2>2. worker[w].attempt = jobs[j].attemptCount
    BY <1>2 DEF IInv, OwnerHoldsCurrentAttempt, Alive
  <2>3. QED
    BY <1>2, <1>4, <1>5, <2>1, <2>2
<1>10. QED
  BY <1>7, <1>8, <1>9 DEF Memory

LEMMA ClaimMemory ==
  ASSUME IInv, NEW w \in Worker, ClaimNext(w)
  PROVE  Memory'
<1>1. worker \in [Worker -> WorkerState] /\ jobs \in [Job -> JobRow]
  BY DEF IInv, TypeOK
<1>2. ASSUME NEW bad, NEW i \in Job
      PROVE  Reject(bad, RecoveredJobs)[i].state = "running" =>
               Reject(bad, RecoveredJobs)[i] = jobs[i] /\ RecoveredJobs[i].state = "running"
  <2>1. RecoveredJobs[i] \in JobRow
    BY RecoveryConsistent DEF IInv, Consistent
  <2>2. Malformed(RecoveredJobs[i]).state = "failed"
    BY <2>1, MalformedRow
  <2>3. QED
    BY <2>2, RecoveryConsistent DEF Reject, IInv
<1>3. CASE ClaimNothing(w)
  <2>1. UNCHANGED worker
    BY <1>3 DEF ClaimNothing
  <2>2. \A i \in Job : Kept(i)
    BY <1>2, <1>3 DEF ClaimNothing, Kept
  <2>3. QED
    BY <2>1, <2>2, KeptStill
<1>4. ASSUME NEW j \in Job, ClaimJob(w, j)
      PROVE  Memory'
  <2> DEFINE bad == {n \in Waiting : Older(n, j)}
             old == Reject(bad, RecoveredJobs)
             n == jobs[j].attemptCount + 1
  <2>1. /\ jobs' = [old EXCEPT ![j] = Claimed(@, w)]
        /\ worker' = [worker EXCEPT ![w] = [@ EXCEPT !.pc = "processing", !.job = j,
                        !.attempt = n, !.stage = "syncing", !.aborted = FALSE]]
        /\ ~SlotTaken /\ j \in Waiting /\ j \notin bad
    BY <1>1, <1>4 DEF ClaimJob, JobRow
  <2>2. \A i \in Job : i # j => jobs'[i].state # "running"
    <3>1. \A i \in Job : i # j => jobs'[i] = old[i]
      BY <2>1 DEF Reject
    <3>2. QED
      BY <1>2, <2>1, <3>1 DEF SlotTaken
  <2>3. jobs'[j] = Claimed(RecoveredJobs[j], w)
    BY <2>1 DEF Reject
  <2>4. RecoveredJobs[j] \in JobRow /\ RecoveredJobs[j].attemptCount = jobs[j].attemptCount
    BY RecoveryConsistent DEF IInv, Consistent
  <2>5. /\ jobs'[j].state = "running" /\ jobs'[j].owner = w /\ jobs'[j].phase = "syncing"
        /\ jobs'[j].attemptCount = n
    <3>1. LET r == RecoveredJobs[j]
          IN  /\ Claimed(r, w).state = "running" /\ Claimed(r, w).phase = "syncing"
              /\ Claimed(r, w).attemptCount = r.attemptCount + 1 /\ Claimed(r, w).owner = w
      BY <2>4, ClaimedRow
    <3> HIDE DEF bad, old
    <3>2. QED
      BY <2>3, <2>4, <3>1
  <2>6. /\ \A u \in Worker : u # w => worker'[u] = worker[u]
        /\ worker'[w].pc = "processing" /\ worker'[w].job = j
        /\ worker'[w].attempt = n /\ worker'[w].stage = "syncing"
    BY <1>1, <2>1 DEF WorkerState
  <2> HIDE DEF bad, old, n
  <2>7. SingleRunning'
    BY <2>2 DEF SingleRunning
  <2>8. WorkersKnow'
    <3> SUFFICES ASSUME NEW u \in Worker
                 PROVE  /\ worker'[u].pc \in {"processing", "settling"} => worker'[u].job \in Job
                        /\ worker'[u].pc \in {"down", "idle"} => worker'[u].job = NoJob
                        /\ worker'[u].pc = "down" =>
                             \A i \in Job : jobs'[i].state = "running" => jobs'[i].owner # u
                        /\ worker'[u].pc = "settling" /\ worker'[u].verdict = "nothing" =>
                             ~StillOwned(u)'
      BY DEF WorkersKnow
    <3>1. CASE u = w
      BY <2>6, <3>1
    <3>2. CASE u # w
      BY <2>2, <2>5, <2>6, <3>2 DEF IInv, WorkersKnow, StillOwned
    <3>3. QED
      BY <3>1, <3>2
  <2>9. OwnerHoldsCurrentAttempt'
    BY <2>2, <2>5, <2>6 DEF OwnerHoldsCurrentAttempt
  <2>10. QED
    BY <2>7, <2>8, <2>9 DEF Memory
<1>5. QED
  BY <1>3, <1>4 DEF ClaimNext

LEMMA MemoryStep ==
  ASSUME IInv, [Next]_vars
  PROVE  Memory'
<1>1. ASSUME NEW w \in Worker, Start(w) \/ ClaimNext(w) \/ Processes(w) \/ Stop(w) \/ Exit(w) \/ Crash(w)
      PROVE  Memory'
  BY <1>1, IdleMemory, ClaimMemory, PhaseMemory, WorkerMemory, OutsideMemory DEF Processes
<1>2. QED
  BY <1>1, OutsideMemory DEF Next

-----------------------------------------------------------------------------
(* Type correctness, given that the rows of the next state are consistent.  *)

LEMMA RowTypes ==
  ASSUME IInv, [Next]_vars, RowsConsistent'
  PROVE  /\ jobs' \in [Job -> JobRow] /\ attempts' \in [Job -> Seq(Attempt)]
         /\ runs' \in [Job -> RunRow] /\ episode' \in [Job -> Nat]
<1>1. \A i \in Job : /\ jobs'[i] \in JobRow /\ attempts'[i] \in Seq(Attempt)
                     /\ runs'[i] \in RunRow /\ episode'[i] \in Nat
  BY DEF RowsConsistent, Consistent
<1>2. /\ jobs \in [Job -> JobRow] /\ attempts \in [Job -> Seq(Attempt)]
      /\ runs \in [Job -> RunRow] /\ episode \in [Job -> Nat]
  BY DEF IInv, TypeOK
<1> SUFFICES /\ jobs' = [i \in Job |-> jobs'[i]] /\ attempts' = [i \in Job |-> attempts'[i]]
             /\ runs' = [i \in Job |-> runs'[i]] /\ episode' = [i \in Job |-> episode'[i]]
  BY <1>1
<1>3. ASSUME NEW j \in Job, NEW k \in Key \cup {NoKey}, Enqueue(j, k)
      PROVE  /\ jobs' = [i \in Job |-> jobs'[i]] /\ attempts' = [i \in Job |-> attempts'[i]]
             /\ runs' = [i \in Job |-> runs'[i]] /\ episode' = [i \in Job |-> episode'[i]]
  BY <1>2, <1>3 DEF Enqueue
<1>4. ASSUME NEW j \in Job, NEW k \in Key, Retry(j, k)
      PROVE  /\ jobs' = [i \in Job |-> jobs'[i]] /\ attempts' = [i \in Job |-> attempts'[i]]
             /\ runs' = [i \in Job |-> runs'[i]] /\ episode' = [i \in Job |-> episode'[i]]
  BY <1>2, <1>4 DEF Retry, RetryAnswered, RetryRequeues
<1>5. ASSUME NEW w \in Worker, Start(w) \/ ClaimNext(w)
      PROVE  /\ jobs' = [i \in Job |-> jobs'[i]] /\ attempts' = [i \in Job |-> attempts'[i]]
             /\ runs' = [i \in Job |-> runs'[i]] /\ episode' = [i \in Job |-> episode'[i]]
  <2>1. CASE Start(w)
    BY <1>2, <2>1 DEF Start, RecoveredJobs, RecoveredAttempts, RecoveredRuns
  <2>2. CASE ClaimNothing(w) /\ episode' = episode
    BY <1>2, <2>2 DEF ClaimNothing, Reject, RejectRuns, RecoveredAttempts
  <2>3. ASSUME NEW j \in Job, ClaimJob(w, j) /\ episode' = episode
        PROVE  /\ jobs' = [i \in Job |-> jobs'[i]] /\ attempts' = [i \in Job |-> attempts'[i]]
               /\ runs' = [i \in Job |-> runs'[i]] /\ episode' = [i \in Job |-> episode'[i]]
    BY <1>2, <2>3 DEF ClaimJob, Reject, RejectRuns, RecoveredAttempts
  <2>4. QED
    BY <1>5, <2>1, <2>2, <2>3 DEF ClaimNext
<1>6. ASSUME NEW w \in Worker, RenewLease(w) \/ UpdatePhase(w) \/ Complete(w)
      PROVE  /\ jobs' = [i \in Job |-> jobs'[i]] /\ attempts' = [i \in Job |-> attempts'[i]]
             /\ runs' = [i \in Job |-> runs'[i]] /\ episode' = [i \in Job |-> episode'[i]]
  BY <1>2, <1>6 DEF RenewLease, UpdatePhase, Complete
<1>7. ASSUME NEW w \in Worker, Settle(w)
      PROVE  /\ jobs' = [i \in Job |-> jobs'[i]] /\ attempts' = [i \in Job |-> attempts'[i]]
             /\ runs' = [i \in Job |-> runs'[i]] /\ episode' = [i \in Job |-> episode'[i]]
  BY <1>2, <1>7 DEF Settle
<1>8. CASE Tick \/ \E j \in Job : Damage(j)
  BY <1>2, <1>8 DEF Tick, Damage
<1>9. CASE UNCHANGED <<jobs, attempts, runs, episode>>
  BY <1>2, <1>9
<1>10. ASSUME NEW w \in Worker,
              \/ HeartbeatFails(w) \/ StoreRefuses(w) \/ SettleThrows(w)
              \/ \E how \in {"interrupt", "retryable", "final"} : ProcessorThrows(w, how)
              \/ Stop(w) \/ Exit(w) \/ Crash(w)
       PROVE  UNCHANGED <<jobs, attempts, runs, episode>>
  BY <1>10 DEF HeartbeatFails, StoreRefuses, SettleThrows, ProcessorThrows, Stop, Exit, Crash
<1>11. QED
  BY <1>3, <1>4, <1>5, <1>6, <1>7, <1>8, <1>9, <1>10 DEF Next, Processes, vars

LEMMA OtherTypes ==
  ASSUME IInv, [Next]_vars
  PROVE  /\ retries' \in [Job -> [Key -> Nat]] /\ lastRow' \in Nat /\ faults' \in 0..MaxFaults
<1>1. /\ retries \in [Job -> [Key -> Nat]] /\ lastRow \in Nat /\ faults \in 0..MaxFaults
      /\ jobs \in [Job -> JobRow] /\ MaxFaults \in Nat
  BY JobsAssumption DEF IInv, TypeOK
<1>2. ASSUME NEW j \in Job, NEW k \in Key \cup {NoKey}, Enqueue(j, k)
      PROVE  retries' = retries /\ lastRow' \in Nat /\ faults' = faults
  BY <1>1, <1>2 DEF Enqueue
<1>3. ASSUME NEW j \in Job, NEW k \in Key, Retry(j, k)
      PROVE  retries' \in [Job -> [Key -> Nat]] /\ lastRow' = lastRow /\ faults' = faults
  <2>1. RequestedAttempt(j) \in Nat
    BY <1>1 DEF RequestedAttempt, JobRow
  <2>2. QED
    BY <1>1, <1>3, <2>1 DEF Retry, RetryAnswered, RetryRequeues
<1>4. ASSUME Tick \/ \E w \in Worker : Stop(w) \/ Crash(w)
      PROVE  retries' = retries /\ lastRow' = lastRow /\ faults' \in 0..MaxFaults
  <2>1. /\ retries' = retries /\ lastRow' = lastRow
        /\ faults' = faults \/ (faults < MaxFaults /\ faults' = faults + 1)
    BY <1>4 DEF Tick, Stop, Crash
  <2>2. QED
    BY <1>1, <2>1
<1>5. ASSUME NEW w \in Worker, Start(w) \/ ClaimNext(w) \/ Processes(w) \/ Exit(w)
      PROVE  UNCHANGED <<retries, lastRow, faults>>
  BY <1>5 DEF Start, ClaimNext, Processes, RenewLease, HeartbeatFails, UpdatePhase, Complete,
     ProcessorThrows, StoreRefuses, Settle, SettleThrows, Exit
<1>6. ASSUME NEW j \in Job, Damage(j)
      PROVE  UNCHANGED <<retries, lastRow, faults>>
  BY <1>6 DEF Damage
<1>7. QED
  BY <1>1, <1>2, <1>3, <1>4, <1>5, <1>6 DEF Next, vars

LEMMA WorkerTypes ==
  ASSUME IInv, [Next]_vars
  PROVE  worker' \in [Worker -> WorkerState]
<1>1. worker \in [Worker -> WorkerState] /\ jobs \in [Job -> JobRow]
  BY DEF IInv, TypeOK
<1>2. "queued" \in Phase /\ "syncing" \in Phase /\ ActivePhase \subseteq Phase
  BY DEF Phase, ActivePhase
<1>3. ASSUME NEW w \in Worker
      PROVE  Idle(w) \in [Worker -> WorkerState]
  BY <1>1, <1>2 DEF Idle, WorkerState
<1>4. ASSUME NEW w \in Worker, NEW pc \in {"failed", "killed", "exited"}
      PROVE  [Idle(w) EXCEPT ![w].pc = pc] \in [Worker -> WorkerState]
  <2> DEFINE f == Idle(w)
  <2>1. f \in [Worker -> WorkerState]
    BY <1>3
  <2> HIDE DEF f
  <2>2. [f EXCEPT ![w].pc = pc] \in [Worker -> WorkerState]
    BY <2>1 DEF WorkerState
  <2>3. QED
    BY <2>2 DEF f
<1>5. ASSUME NEW w \in Worker, Start(w) \/ HeartbeatFails(w) \/ Stop(w) \/ Exit(w)
      PROVE  worker' \in [Worker -> WorkerState]
  <2>1. CASE Start(w)
    BY <1>1, <2>1 DEF Start, WorkerState
  <2>2. CASE HeartbeatFails(w)
    BY <1>1, <2>2 DEF HeartbeatFails, WorkerState
  <2>3. CASE Stop(w)
    <3> DEFINE b == worker[w].pc = "processing"
               m == [worker[w] EXCEPT !.stopping = TRUE, !.aborted = b]
    <3>1. b \in BOOLEAN /\ worker[w] \in WorkerState
      BY <1>1
    <3>2. worker' = [worker EXCEPT ![w] = m]
      BY <1>1, <2>3 DEF Stop
    <3> HIDE DEF b
    <3>3. m \in WorkerState
      BY <3>1 DEF WorkerState
    <3> HIDE DEF m
    <3>4. QED
      BY <1>1, <3>2, <3>3
  <2>4. CASE Exit(w)
    BY <1>1, <2>4 DEF Exit, WorkerState
  <2>5. QED
    BY <1>5, <2>1, <2>2, <2>3, <2>4
<1>6. ASSUME NEW w \in Worker, ClaimNext(w)
      PROVE  worker' \in [Worker -> WorkerState]
  <2>1. CASE ClaimNothing(w)
    BY <1>1, <2>1 DEF ClaimNothing
  <2>2. ASSUME NEW j \in Job, ClaimJob(w, j)
        PROVE  worker' \in [Worker -> WorkerState]
    <3> DEFINE n == jobs[j].attemptCount + 1
               m == [worker[w] EXCEPT !.pc = "processing", !.job = j, !.attempt = n,
                                      !.stage = "syncing", !.aborted = FALSE]
    <3>1. n \in Nat /\ worker[w] \in WorkerState
      BY <1>1 DEF JobRow
    <3>2. worker' = [worker EXCEPT ![w] = m]
      BY <1>1, <2>2 DEF ClaimJob
    <3> HIDE DEF n
    <3>3. m \in WorkerState
      BY <1>2, <3>1 DEF WorkerState
    <3> HIDE DEF m
    <3>4. QED
      BY <1>1, <3>2, <3>3
  <2>3. QED
    BY <1>6, <2>1, <2>2 DEF ClaimNext
<1>7. ASSUME NEW w \in Worker, UpdatePhase(w)
      PROVE  worker' \in [Worker -> WorkerState]
  <2>1. worker[w].stage \in ActivePhase /\ worker[w].stage # "rendering_audio"
    BY <1>7, OwnedFacts DEF UpdatePhase
  <2>2. NextPhase(worker[w].stage) \in Phase
    BY <1>2, <2>1, NextPhaseActive
  <2>3. QED
    BY <1>1, <1>7, <2>2 DEF UpdatePhase, WorkerState
<1>8. ASSUME NEW w \in Worker, NEW how \in {"interrupt", "retryable", "final"}, Caught(w, how)
      PROVE  worker' \in [Worker -> WorkerState]
  <2> DEFINE v == IF ~StillOwned(w) THEN "nothing"
                  ELSE IF worker[w].aborted THEN "interrupt" ELSE how
  <2>1. v \in {"nothing", "interrupt", "retryable", "final"}
    OBVIOUS
  <2> DEFINE m == [worker[w] EXCEPT !.pc = "settling", !.verdict = v]
  <2>2. worker' = [worker EXCEPT ![w] = m]
    BY <1>1, <1>8 DEF Caught
  <2> HIDE DEF v
  <2>3. m \in WorkerState
    BY <1>1, <2>1 DEF WorkerState
  <2> HIDE DEF m
  <2>4. QED
    BY <1>1, <2>2, <2>3
<1>9. ASSUME NEW w \in Worker, Processes(w) \/ Crash(w)
      PROVE  worker' \in [Worker -> WorkerState]
  BY <1>1, <1>3, <1>4, <1>5, <1>7, <1>8, <1>9 DEF Processes, Crash, RenewLease, Complete,
     ProcessorThrows, StoreRefuses, Settle, SettleThrows
<1>10. CASE UNCHANGED worker
  BY <1>1, <1>10
<1>11. ASSUME \/ \E j \in Job, k \in Key \cup {NoKey} : Enqueue(j, k)
              \/ \E j \in Job, k \in Key : Retry(j, k)
              \/ \E j \in Job : Damage(j)
              \/ Tick
       PROVE  UNCHANGED worker
  BY <1>11 DEF Enqueue, Retry, RetryAnswered, RetryRequeues, Damage, Tick
<1>12. QED
  BY <1>5, <1>6, <1>9, <1>10, <1>11 DEF Next, vars

-----------------------------------------------------------------------------
(* The theorems *)

LEMMA FreshConsistent ==
  ASSUME NEW r \in JobRow, r.state = "absent", r.phase = "queued", r.attemptCount = 0,
         r.finished = FALSE,
         NEW b \in RunRow, b.status = "queued", b.finished = FALSE, NEW e \in {0}
  PROVE  Consistent(r, <<>>, b, e)
<1> DEFINE h == <<>>
<1>1. h \in Seq(Attempt) /\ Len(h) = 0 /\ 1..Len(h) = {}
  OBVIOUS
<1> HIDE DEF h
<1>2. "queued" \notin ActivePhase
  BY RowConstants
<1>3. \A n \in 1..Len(h) : h[n].outcome \in {"running", "complete"} => n = r.attemptCount
  BY <1>1
<1>4. e \in Nat /\ Len(h) = r.attemptCount /\ ~(r.attemptCount > 0)
  BY <1>1
<1>5. /\ r.finished = TRUE <=> r.state \in {"complete", "failed"}
      /\ b.status = r.phase /\ b.finished = r.finished
  OBVIOUS
<1>6. r.phase \in ActivePhase <=> r.state = "running"
  BY <1>2
<1>7. e # 0 => e \in 1..Len(h) /\ h[e].outcome = "complete"
  OBVIOUS
<1>8. Consistent(r, h, b, e)
  BY <1>1, <1>3, <1>4, <1>5, <1>6, <1>7 DEF Consistent
<1>9. QED
  BY <1>8 DEF h

LEMMA InitIInv == Init => IInv
<1> SUFFICES ASSUME Init PROVE IInv
  OBVIOUS
<1>1. NoRow \in JobRow /\ DownWorker \in WorkerState /\ [status |-> "queued", finished |-> FALSE] \in RunRow
  BY RowConstants DEF NoRow, JobRow, DownWorker, WorkerState, RunRow
<1>2. TypeOK
  <2>1. 0 \in 0..MaxFaults /\ <<>> \in Seq(Attempt)
    BY JobsAssumption
  <2>2. QED
    BY <1>1, <2>1 DEF Init, TypeOK
<1>3. RowsConsistent
  <2> SUFFICES ASSUME NEW j \in Job
               PROVE  Consistent(jobs[j], attempts[j], runs[j], episode[j])
    BY DEF RowsConsistent
  <2>1. /\ jobs[j] \in JobRow /\ jobs[j].state = "absent" /\ jobs[j].phase = "queued"
        /\ jobs[j].attemptCount = 0 /\ jobs[j].finished = FALSE
    BY <1>1 DEF Init, NoRow
  <2>2. /\ runs[j] \in RunRow /\ runs[j].status = "queued" /\ runs[j].finished = FALSE
        /\ episode[j] = 0 /\ attempts[j] = <<>>
    BY <1>1 DEF Init
  <2>3. QED
    BY <2>1, <2>2, FreshConsistent
<1>4. \A j \in Job : jobs[j].state = "absent"
  BY DEF Init, NoRow
<1>5. \A w \in Worker : worker[w].pc = "down" /\ worker[w].job = NoJob
  BY DEF Init, DownWorker
<1>6. SingleRunning /\ WorkersKnow /\ OwnerHoldsCurrentAttempt
  BY <1>4, <1>5 DEF SingleRunning, WorkersKnow, OwnerHoldsCurrentAttempt
<1>7. QED
  BY <1>2, <1>3, <1>6 DEF IInv

LEMMA IInvStep == IInv /\ [Next]_vars => IInv'
<1> SUFFICES ASSUME IInv, [Next]_vars PROVE IInv'
  OBVIOUS
<1>1. RowsConsistent'
  BY RowsStep
<1>2. Memory'
  BY MemoryStep
<1>3. TypeOK'
  BY <1>1, RowTypes, OtherTypes, WorkerTypes DEF TypeOK
<1>4. QED
  BY <1>1, <1>2, <1>3 DEF IInv, Memory

LEMMA Invariance == Spec => []IInv
BY InitIInv, IInvStep, PTL DEF Spec

(* The rows and the processes' memory keep their types: in particular a     *)
(* lease never has more than LeaseTicks left and no phase but the durable   *)
(* ones is ever written. *)
THEOREM TypeCorrect == Spec => []TypeOK
<1>1. IInv => TypeOK
  BY DEF IInv
<1>2. QED
  BY <1>1, Invariance, PTL

(* JOB-02: however many worker processes overlap, at most one job runs.     *)
THEOREM AtMostOneRuns == Spec => []SingleRunning
<1>1. IInv => SingleRunning
  BY DEF IInv
<1>2. QED
  BY <1>1, Invariance, PTL

(* The attempt history always explains the state of its job. *)
THEOREM HistoryIsConsistent == Spec => []HistoryMatchesJob
<1>1. IInv => HistoryMatchesJob
  <2> SUFFICES ASSUME IInv, NEW j \in Job
               PROVE  /\ Len(attempts[j]) = jobs[j].attemptCount
                      /\ \A n \in 1..Len(attempts[j]) :
                           attempts[j][n].outcome \in {"running", "complete"} =>
                             n = jobs[j].attemptCount
                      /\ jobs[j].state = "running" =>
                           /\ jobs[j].attemptCount > 0
                           /\ attempts[j][jobs[j].attemptCount] =
                                [by |-> jobs[j].owner, outcome |-> "running"]
                      /\ jobs[j].state = "complete" =>
                           jobs[j].attemptCount > 0 /\ LastOutcome(j) = "complete"
                      /\ jobs[j].state \in {"absent", "queued", "failed"} /\ jobs[j].attemptCount > 0 =>
                           LastOutcome(j) \in {"failed", "interrupted", "recovered"}
                      /\ jobs[j].state = "failed" /\ jobs[j].readable =>
                           jobs[j].attemptCount > 0 /\ LastOutcome(j) = "failed"
    BY DEF HistoryMatchesJob
  <2> DEFINE h == attempts[j]
             n == jobs[j].attemptCount
  <2>1. Consistent(jobs[j], attempts[j], runs[j], episode[j])
    BY DEF IInv, RowsConsistent
  <2>2. ASSUME jobs[j].state = "running"
        PROVE  h[n] = [by |-> jobs[j].owner, outcome |-> "running"]
    <3>1. h \in Seq(Attempt) /\ n \in 1..Len(h)
      BY <2>1, <2>2 DEF Consistent, JobRow
    <3>2. h[n] \in Attempt
      BY <3>1, ElementOfSeq
    <3>3. h[n].by = jobs[j].owner /\ h[n].outcome = "running"
      BY <2>1, <2>2 DEF Consistent
    <3> HIDE DEF h, n
    <3>4. QED
      BY <3>2, <3>3 DEF Attempt
  <2>3. QED
    BY <2>1, <2>2 DEF Consistent, LastOutcome, Ended
<1>2. QED
  BY <1>1, Invariance, PTL

(* No worker ever acts on an attempt it has lost. *)
THEOREM OwnersAreCurrent == Spec => []OwnerHoldsCurrentAttempt
<1>1. IInv => OwnerHoldsCurrentAttempt
  BY DEF IInv
<1>2. QED
  BY <1>1, Invariance, PTL

(* The run shown to listeners never disagrees with its job. *)
THEOREM RunsAreConsistent == Spec => []RunMirrorsJob
<1>1. IInv => RunMirrorsJob
  BY DEF IInv, TypeOK, RowsConsistent, Consistent, RunMirrorsJob
<1>2. QED
  BY <1>1, Invariance, PTL

(* JOB-04: what is published is the work of the completed attempt. *)
THEOREM PublicationIsFenced == Spec => []PublishedByCompleteAttempt
<1>1. IInv => PublishedByCompleteAttempt
  BY DEF IInv, RowsConsistent, Consistent, PublishedByCompleteAttempt
<1>2. QED
  BY <1>1, Invariance, PTL

-----------------------------------------------------------------------------
(***************************************************************************)
(* What a step of the job store may do, for any sets of jobs, workers and  *)
(* keys: it is a step of the queue of JobQueue.tla (ImplementsQueue), it   *)
(* rewrites no history (HistoryIsFinal), and it takes no attempt from its  *)
(* owner before the lease is over (LeaseProtectsAttempt).  Of its states:  *)
(* a retry key names an attempt that exists or will (RetryNamesAnAttempt), *)
(* and a store at rest can be backed up (QuietJobsAreBackedUp).            *)
(*                                                                         *)
(* The queue sees four columns of a job row (state, rowid, attempt_count,  *)
(* retryable) and the published attempt.  Each kind of queue step is first *)
(* stated in terms of these columns, then every action of the store is     *)
(* shown to be such a step or to leave the columns alone.                  *)
(***************************************************************************)

(* What the queue needs beyond IInv: only a failed job can be retried, and  *)
(* rowids are handed out in order without gap.                              *)
LineInOrder ==
  /\ \A i \in Job : jobs[i].retryable = TRUE => jobs[i].state = "failed"
  /\ \A i \in Job : jobs[i].row <= lastRow
  /\ Job = {} \/ \E i \in Job : jobs[i].row = lastRow

QInv == IInv /\ LineInOrder

(* The columns of i that do not depend on where it stands. *)
SamePlace(i) ==
  jobs'[i].row = jobs[i].row /\ jobs'[i].attemptCount = jobs[i].attemptCount

Unseen(i) ==
  SamePlace(i) /\ jobs'[i].state = jobs[i].state /\ jobs'[i].retryable = jobs[i].retryable

LEMMA StandingOf ==
  /\ Standing["absent"] = "new" /\ Standing["queued"] = "waiting"
  /\ Standing["running"] = "active" /\ Standing["complete"] = "delivered"
  /\ Standing["failed"] = "refused"
BY DEF Standing

LEMMA StandingTells ==
  ASSUME TypeOK, NEW i \in Job
  PROVE  /\ Standing[jobs[i].state] = "new" <=> jobs[i].state = "absent"
         /\ Standing[jobs[i].state] = "waiting" <=> jobs[i].state = "queued"
         /\ Standing[jobs[i].state] = "active" <=> jobs[i].state = "running"
         /\ Standing[jobs[i].state] = "refused" <=> jobs[i].state = "failed"
<1>1. jobs[i].state \in {"absent", "queued", "running", "complete", "failed"}
  BY DEF TypeOK, JobRow
<1>2. QED
  BY <1>1, StandingOf

Idling == {i \in Job : jobs[i].state = "queued"}
Running == {i \in Job : jobs[i].state = "running"}

LEMMA LineSets ==
  ASSUME TypeOK
  PROVE  Queue!Waiting = Idling /\ Queue!Active = Running
BY StandingTells DEF Queue!Waiting, Queue!Active, Idling, Running

-----------------------------------------------------------------------------
(* The steps of the queue, by columns *)

LEMMA IsSubmit ==
  ASSUME NEW j \in Job, TypeOK, LineInOrder, jobs[j].state = "absent",
         jobs'[j].state = "queued", jobs'[j].row = lastRow + 1,
         jobs'[j].attemptCount = jobs[j].attemptCount, jobs'[j].retryable = jobs[j].retryable,
         \A i \in Job \ {j} : jobs'[i] = jobs[i], episode' = episode
  PROVE  Queue!Next
<1> DEFINE ticket == [i \in Job |-> jobs[i].row]
           t == lastRow + 1
<1>1. /\ \A i \in Job : jobs[i].row \in Nat /\ jobs[i].row <= lastRow
      /\ lastRow \in Nat
  BY DEF TypeOK, JobRow, LineInOrder
<1>2. \A i \in Job : ticket[i] < t
  BY <1>1
<1>3. t \in {ticket[i] + 1 : i \in Job}
  <2>1. PICK n \in Job : jobs[n].row = lastRow
    BY DEF LineInOrder
  <2>2. ticket[n] + 1 = t
    BY <2>1
  <2>3. QED
    BY <2>2
<1>4. [i \in Job |-> jobs'[i].row] = [ticket EXCEPT ![j] = t]
  OBVIOUS
<1>5. [i \in Job |-> Standing[jobs'[i].state]]
        = [[i \in Job |-> Standing[jobs[i].state]] EXCEPT ![j] = "waiting"]
  BY StandingOf
<1>6. /\ [i \in Job |-> jobs'[i].attemptCount] = [i \in Job |-> jobs[i].attemptCount]
      /\ [i \in Job |-> jobs'[i].retryable] = [i \in Job |-> jobs[i].retryable]
  OBVIOUS
<1>7. [i \in Job |-> Standing[jobs[i].state]][j] = "new"
  BY StandingOf
<1>8. \E u \in {ticket[i] + 1 : i \in Job} :
        /\ \A i \in Job : ticket[i] < u
        /\ [i \in Job |-> jobs'[i].row] = [ticket EXCEPT ![j] = u]
  BY <1>2, <1>3, <1>4
<1>9. Queue!Submit(j)
  BY <1>5, <1>6, <1>7, <1>8 DEF Queue!Submit
<1>10. QED
  BY <1>9 DEF Queue!Next

LEMMA IsPassBy ==
  ASSUME NEW lost \in SUBSET Running, NEW bad \in SUBSET (Idling \cup lost), TypeOK,
         bad = {} \/ (lost = Running /\ bad = Idling \cup lost),
         \A i \in Job :
           /\ SamePlace(i) /\ jobs'[i].retryable = jobs[i].retryable
           /\ jobs'[i].state = IF i \in bad THEN "failed"
                               ELSE IF i \in lost THEN "queued" ELSE jobs[i].state,
         episode' = episode
  PROVE  Queue!Next
<1>1. [i \in Job |-> Standing[jobs'[i].state]] = Queue!PutBack(lost, bad)
  BY StandingOf DEF Queue!PutBack
<1>2. /\ [i \in Job |-> jobs'[i].attemptCount] = [i \in Job |-> jobs[i].attemptCount]
      /\ [i \in Job |-> jobs'[i].retryable] = [i \in Job |-> jobs[i].retryable]
      /\ [i \in Job |-> jobs'[i].row] = [i \in Job |-> jobs[i].row]
  BY DEF SamePlace
<1>3. /\ lost \in SUBSET Queue!Active /\ bad \in SUBSET (Queue!Waiting \cup lost)
      /\ bad = {} \/ (lost = Queue!Active /\ bad = Queue!Waiting \cup lost)
  BY LineSets
<1>4. Queue!PassBy(lost, bad)
  BY <1>1, <1>2, <1>3 DEF Queue!PassBy
<1>5. QED
  BY <1>3, <1>4 DEF Queue!Next

LEMMA IsBegin ==
  ASSUME NEW j \in Idling \cup Running, TypeOK, NEW bad,
         bad = {i \in Idling \cup Running : jobs[i].row < jobs[j].row},
         jobs'[j].state = "running", jobs'[j].row = jobs[j].row,
         jobs'[j].attemptCount = jobs[j].attemptCount + 1,
         jobs'[j].retryable = jobs[j].retryable,
         \A i \in Job \ {j} :
           /\ SamePlace(i) /\ jobs'[i].retryable = jobs[i].retryable
           /\ jobs'[i].state = IF i \in bad THEN "failed"
                               ELSE IF i \in Running THEN "queued" ELSE jobs[i].state,
         episode' = episode
  PROVE  Queue!Next
<1>1. j \in Job /\ jobs[j].row \in Nat /\ j \notin bad
  BY DEF Idling, Running, TypeOK, JobRow
<1>2. [i \in Job |-> Standing[jobs'[i].state]]
        = [Queue!PutBack(Running, bad) EXCEPT ![j] = "active"]
  BY <1>1, StandingOf DEF Queue!PutBack
<1>3. [i \in Job |-> jobs'[i].attemptCount]
        = [[i \in Job |-> jobs[i].attemptCount] EXCEPT ![j] = @ + 1]
  BY <1>1 DEF SamePlace
<1>4. /\ [i \in Job |-> jobs'[i].retryable] = [i \in Job |-> jobs[i].retryable]
      /\ [i \in Job |-> jobs'[i].row] = [i \in Job |-> jobs[i].row]
  BY <1>1 DEF SamePlace
<1>5. /\ Running \in SUBSET Queue!Active /\ bad \in SUBSET (Queue!Waiting \cup Running)
      /\ Running = Queue!Active /\ j \in (Queue!Waiting \cup Running) \ bad
      /\ bad = {i \in Queue!Waiting \cup Running :
                  [n \in Job |-> jobs[n].row][i] < [n \in Job |-> jobs[n].row][j]}
  BY <1>1, LineSets DEF Idling, Running
<1>6. Queue!Begin(j, Running, bad)
  BY <1>2, <1>3, <1>4, <1>5 DEF Queue!Begin
<1>7. QED
  BY <1>1, <1>5, <1>6 DEF Queue!Next

LEMMA IsDeliver ==
  ASSUME NEW j \in Job, TypeOK, jobs[j].state = "running", jobs'[j].state = "complete",
         SamePlace(j), jobs'[j].retryable = jobs[j].retryable,
         \A i \in Job \ {j} : jobs'[i] = jobs[i],
         episode' = [episode EXCEPT ![j] = jobs[j].attemptCount]
  PROVE  Queue!Next
<1>1. [i \in Job |-> Standing[jobs'[i].state]]
        = [[i \in Job |-> Standing[jobs[i].state]] EXCEPT ![j] = "delivered"]
  BY StandingOf
<1>2. /\ [i \in Job |-> jobs'[i].attemptCount] = [i \in Job |-> jobs[i].attemptCount]
      /\ [i \in Job |-> jobs'[i].retryable] = [i \in Job |-> jobs[i].retryable]
      /\ [i \in Job |-> jobs'[i].row] = [i \in Job |-> jobs[i].row]
  BY DEF SamePlace
<1>3. [i \in Job |-> Standing[jobs[i].state]][j] = "active"
  BY StandingOf
<1>4. episode' = [episode EXCEPT ![j] = [i \in Job |-> jobs[i].attemptCount][j]]
  OBVIOUS
<1>5. Queue!Deliver(j)
  BY <1>1, <1>2, <1>3, <1>4 DEF Queue!Deliver
<1>6. QED
  BY <1>5 DEF Queue!Next

LEMMA IsRefuse ==
  ASSUME NEW j \in Job, TypeOK, jobs[j].state = "running", jobs'[j].state = "failed",
         SamePlace(j), jobs'[j].retryable \in BOOLEAN,
         \A i \in Job \ {j} : jobs'[i] = jobs[i],
         episode' = episode
  PROVE  Queue!Next
<1>1. [i \in Job |-> Standing[jobs'[i].state]]
        = [[i \in Job |-> Standing[jobs[i].state]] EXCEPT ![j] = "refused"]
  BY StandingOf
<1>2. /\ [i \in Job |-> jobs'[i].attemptCount] = [i \in Job |-> jobs[i].attemptCount]
      /\ [i \in Job |-> jobs'[i].row] = [i \in Job |-> jobs[i].row]
  BY DEF SamePlace
<1>3. [i \in Job |-> Standing[jobs[i].state]][j] = "active"
  BY StandingOf
<1>4. \E b \in BOOLEAN : [i \in Job |-> jobs'[i].retryable]
                           = [[i \in Job |-> jobs[i].retryable] EXCEPT ![j] = b]
  OBVIOUS
<1>5. Queue!Refuse(j)
  BY <1>1, <1>2, <1>3, <1>4 DEF Queue!Refuse
<1>6. QED
  BY <1>5 DEF Queue!Next

LEMMA IsAskAgain ==
  ASSUME NEW j \in Job, TypeOK, jobs[j].state = "failed", jobs[j].retryable,
         jobs'[j].state = "queued", SamePlace(j), jobs'[j].retryable = FALSE,
         \A i \in Job \ {j} : jobs'[i] = jobs[i],
         episode' = episode
  PROVE  Queue!Next
<1>1. [i \in Job |-> Standing[jobs'[i].state]]
        = [[i \in Job |-> Standing[jobs[i].state]] EXCEPT ![j] = "waiting"]
  BY StandingOf
<1>2. /\ [i \in Job |-> jobs'[i].attemptCount] = [i \in Job |-> jobs[i].attemptCount]
      /\ [i \in Job |-> jobs'[i].row] = [i \in Job |-> jobs[i].row]
  BY DEF SamePlace
<1>3. [i \in Job |-> Standing[jobs[i].state]][j] = "refused"
  BY StandingOf
<1>4. [i \in Job |-> jobs'[i].retryable] = [[i \in Job |-> jobs[i].retryable] EXCEPT ![j] = FALSE]
  OBVIOUS
<1>5. [i \in Job |-> jobs[i].retryable][j]
  OBVIOUS
<1>6. Queue!AskAgain(j)
  BY <1>1, <1>2, <1>3, <1>4, <1>5 DEF Queue!AskAgain
<1>7. QED
  BY <1>6 DEF Queue!Next

LEMMA IsStutter ==
  ASSUME \A i \in Job : Unseen(i), episode' = episode
  PROVE  UNCHANGED Queue!qvars
BY DEF Queue!qvars, Unseen, SamePlace

-----------------------------------------------------------------------------
(* The columns after each update of a row *)

LEMMA RowUpdates ==
  ASSUME NEW r \in JobRow, NEW w \in Worker, NEW how, NEW again \in BOOLEAN
  PROVE  /\ Released(r).row = r.row /\ Released(r).retryable = r.retryable
         /\ Released(r).attemptCount = r.attemptCount /\ Released(r).state = "queued"
         /\ Renewed(r).row = r.row /\ Renewed(r).retryable = r.retryable
         /\ Renewed(r).attemptCount = r.attemptCount /\ Renewed(r).state = r.state
         /\ Claimed(r, w).row = r.row /\ Claimed(r, w).retryable = FALSE
         /\ Claimed(r, w).attemptCount = r.attemptCount + 1 /\ Claimed(r, w).state = "running"
         /\ Malformed(r).row = r.row /\ Malformed(r).retryable = FALSE
         /\ Malformed(r).attemptCount = r.attemptCount /\ Malformed(r).state = "failed"
         /\ Finished(r, how, again).row = r.row /\ Finished(r, how, again).retryable = again
         /\ Finished(r, how, again).attemptCount = r.attemptCount
         /\ Finished(r, how, again).state = how
<1>1. /\ Released(r).row = r.row /\ Released(r).retryable = r.retryable
      /\ Released(r).attemptCount = r.attemptCount /\ Released(r).state = "queued"
  BY DEF Released, JobRow
<1>2. /\ Renewed(r).row = r.row /\ Renewed(r).retryable = r.retryable
      /\ Renewed(r).attemptCount = r.attemptCount /\ Renewed(r).state = r.state
  BY DEF Renewed, JobRow
<1>3. /\ Claimed(r, w).row = r.row /\ Claimed(r, w).retryable = FALSE
      /\ Claimed(r, w).attemptCount = r.attemptCount + 1 /\ Claimed(r, w).state = "running"
  BY DEF Claimed, JobRow
<1>4. /\ Malformed(r).row = r.row /\ Malformed(r).retryable = FALSE
      /\ Malformed(r).attemptCount = r.attemptCount /\ Malformed(r).state = "failed"
  BY DEF Malformed, JobRow
<1>5. /\ Finished(r, how, again).row = r.row /\ Finished(r, how, again).retryable = again
      /\ Finished(r, how, again).attemptCount = r.attemptCount
      /\ Finished(r, how, again).state = how
  BY DEF Finished, JobRow
<1>6. QED
  BY <1>1, <1>2, <1>3, <1>4, <1>5

LEMMA RecoveredColumns ==
  ASSUME TypeOK, NEW i \in Job
  PROVE  /\ RecoveredJobs[i] \in JobRow
         /\ RecoveredJobs[i].row = jobs[i].row
         /\ RecoveredJobs[i].attemptCount = jobs[i].attemptCount
         /\ RecoveredJobs[i].retryable = jobs[i].retryable
         /\ RecoveredJobs[i].state = IF i \in Stale THEN "queued" ELSE jobs[i].state
<1>1. jobs[i] \in JobRow
  BY DEF TypeOK
<1>2. CASE i \in Stale
  <2>1. RecoveredJobs[i] = Released(jobs[i])
    BY <1>2 DEF RecoveredJobs
  <2>2. /\ Released(jobs[i]).row = jobs[i].row
        /\ Released(jobs[i]).retryable = jobs[i].retryable
        /\ Released(jobs[i]).attemptCount = jobs[i].attemptCount
        /\ Released(jobs[i]).state = "queued"
    BY <1>1 DEF Released, JobRow
  <2>3. QED
    BY <1>1, <1>2, <2>1, <2>2, ReleasedRow
<1>3. CASE i \notin Stale
  <2>1. RecoveredJobs[i] = jobs[i]
    BY <1>3 DEF RecoveredJobs
  <2>2. QED
    BY <1>1, <1>3, <2>1
<1>4. QED
  BY <1>2, <1>3

(* The line a claim looks at: what waits, and what is put back to wait.     *)
LEMMA ClaimLine ==
  ASSUME TypeOK
  PROVE  /\ Stale \subseteq Running /\ Waiting = Idling \cup Stale
         /\ ~SlotTaken => Stale = Running
<1>1. Stale \subseteq Running /\ Running \cap Idling = {}
  BY DEF Stale, Running, Idling
<1>2. \A i \in Job : (RecoveredJobs[i].state = "queued") <=> (i \in Idling \cup Stale)
  BY RecoveredColumns DEF Idling
<1>3. Waiting = Idling \cup Stale
  BY <1>2 DEF Waiting, Idling, Stale
<1>4. ASSUME ~SlotTaken
      PROVE  Stale = Running
  BY <1>1, <1>4, RecoveredColumns DEF SlotTaken, Running
<1>5. QED
  BY <1>1, <1>3, <1>4

(* A row that waits or runs cannot be retried. *)
LEMMA NotRetryable ==
  ASSUME TypeOK, LineInOrder, NEW i \in Idling \cup Running
  PROVE  jobs[i].retryable = FALSE
BY DEF LineInOrder, TypeOK, JobRow, Idling, Running

LEMMA RejectedColumns ==
  ASSUME TypeOK, LineInOrder, NEW bad \in SUBSET Waiting, NEW i \in Job
  PROVE  LET r == Reject(bad, RecoveredJobs)[i]
         IN  /\ r.row = jobs[i].row /\ r.attemptCount = jobs[i].attemptCount
             /\ r.retryable = jobs[i].retryable
             /\ r.state = IF i \in bad THEN "failed"
                          ELSE IF i \in Stale THEN "queued" ELSE jobs[i].state
<1>1. CASE i \in bad
  <2>1. Reject(bad, RecoveredJobs)[i] = Malformed(RecoveredJobs[i])
    BY <1>1 DEF Reject
  <2>2. /\ Malformed(RecoveredJobs[i]).row = RecoveredJobs[i].row
        /\ Malformed(RecoveredJobs[i]).retryable = FALSE
        /\ Malformed(RecoveredJobs[i]).attemptCount = RecoveredJobs[i].attemptCount
        /\ Malformed(RecoveredJobs[i]).state = "failed"
    BY RecoveredColumns DEF Malformed, JobRow
  <2>3. i \in Idling \cup Running
    BY <1>1, ClaimLine
  <2>4. QED
    BY <1>1, <2>1, <2>2, <2>3, NotRetryable, RecoveredColumns
<1>2. CASE i \notin bad
  <2>1. Reject(bad, RecoveredJobs)[i] = RecoveredJobs[i]
    BY <1>2 DEF Reject
  <2>2. QED
    BY <1>2, <2>1, RecoveredColumns
<1>3. QED
  BY <1>1, <1>2

-----------------------------------------------------------------------------
(* Every action is a step of the queue, or the queue does not see it *)

LEMMA EnqueueQueues ==
  ASSUME QInv, NEW j \in Job, NEW k \in Key \cup {NoKey}, Enqueue(j, k)
  PROVE  Queue!Next /\ LineInOrder'
<1>1. /\ jobs[j].state = "absent" /\ jobs'[j] = NewRow(lastRow + 1, k)
      /\ \A i \in Job \ {j} : jobs'[i] = jobs[i]
      /\ lastRow' = lastRow + 1 /\ episode' = episode
  BY DEF Enqueue, NewRow, QInv, IInv, TypeOK
<1>2. /\ jobs'[j].state = "queued" /\ jobs'[j].row = lastRow + 1
      /\ jobs'[j].attemptCount = 0 /\ jobs'[j].retryable = FALSE
  BY <1>1 DEF NewRow, NoRow
<1>3. jobs[j].attemptCount = 0
  BY <1>1 DEF QInv, IInv, RowsConsistent, Consistent
<1>4. jobs[j].retryable = FALSE
  BY <1>1 DEF QInv, IInv, LineInOrder, TypeOK, JobRow
<1>5. Queue!Next
  BY <1>1, <1>2, <1>3, <1>4, IsSubmit DEF QInv, IInv
<1>6. LineInOrder'
  <2>1. /\ \A i \in Job : jobs[i].row \in Nat /\ jobs[i].row <= lastRow
        /\ lastRow \in Nat
    BY DEF QInv, IInv, TypeOK, JobRow, LineInOrder
  <2>2. \A i \in Job : jobs'[i].row <= lastRow'
    BY <1>1, <1>2, <2>1
  <2>3. \A i \in Job : jobs'[i].retryable = TRUE => jobs'[i].state = "failed"
    BY <1>1, <1>2 DEF QInv, LineInOrder
  <2>4. \E i \in Job : jobs'[i].row = lastRow'
    BY <1>1, <1>2
  <2>5. QED
    BY <2>2, <2>3, <2>4 DEF LineInOrder
<1>7. QED
  BY <1>5, <1>6

(* No other action hands out a place in the line. *)
LEMMA LineStays ==
  ASSUME LineInOrder, lastRow' = lastRow,
         \A i \in Job : /\ jobs'[i].row = jobs[i].row
                        /\ jobs'[i].retryable = TRUE => jobs'[i].state = "failed"
  PROVE  LineInOrder'
BY DEF LineInOrder

LEMMA UnseenStep ==
  ASSUME LineInOrder, lastRow' = lastRow, episode' = episode, \A i \in Job : Unseen(i)
  PROVE  UNCHANGED Queue!qvars /\ LineInOrder'
BY IsStutter, LineStays DEF Unseen, SamePlace, LineInOrder

LEMMA RetryQueues ==
  ASSUME QInv, NEW j \in Job, NEW k \in Key, Retry(j, k)
  PROVE  [Queue!Next]_(Queue!qvars) /\ LineInOrder'
<1>1. CASE RetryAnswered(j, k)
  BY <1>1, UnseenStep DEF RetryAnswered, QInv, Unseen, SamePlace
<1>2. CASE RetryRequeues(j, k)
  <2>1. /\ jobs[j].state = "failed" /\ jobs[j].retryable /\ jobs'[j] = Requeued(jobs[j])
        /\ \A i \in Job \ {j} : jobs'[i] = jobs[i]
        /\ lastRow' = lastRow /\ episode' = episode
    BY <1>2 DEF RetryRequeues, Requeued, QInv, IInv, TypeOK
  <2>2. /\ jobs'[j].state = "queued" /\ SamePlace(j) /\ jobs'[j].retryable = FALSE
    BY <2>1 DEF Requeued, SamePlace, QInv, IInv, TypeOK, JobRow
  <2>3. Queue!Next
    BY <2>1, <2>2, IsAskAgain DEF QInv, IInv
  <2>4. LineInOrder'
    BY <2>1, <2>2, LineStays DEF QInv, LineInOrder, SamePlace
  <2>5. QED
    BY <2>3, <2>4
<1>3. QED
  BY <1>1, <1>2 DEF Retry

LEMMA StartQueues ==
  ASSUME QInv, NEW w \in Worker, Start(w)
  PROVE  Queue!Next /\ LineInOrder'
<1>1. jobs' = RecoveredJobs /\ episode' = episode /\ lastRow' = lastRow
  BY DEF Start
<1>2. ASSUME NEW i \in Job
      PROVE  /\ SamePlace(i) /\ jobs'[i].retryable = jobs[i].retryable
             /\ jobs'[i].state = IF i \in {} THEN "failed"
                                 ELSE IF i \in Stale THEN "queued" ELSE jobs[i].state
  BY <1>1, RecoveredColumns DEF SamePlace, QInv, IInv
<1>3. Stale \in SUBSET Running /\ {} \in SUBSET (Idling \cup Stale)
  BY ClaimLine DEF QInv, IInv
<1>4. Queue!Next
  BY <1>1, <1>2, <1>3, IsPassBy DEF QInv, IInv
<1>5. LineInOrder'
  BY <1>1, <1>2, LineStays DEF QInv, LineInOrder, SamePlace, Stale
<1>6. QED
  BY <1>4, <1>5

LEMMA ClaimNothingQueues ==
  ASSUME QInv, NEW w \in Worker, ClaimNothing(w), episode' = episode, lastRow' = lastRow
  PROVE  Queue!Next /\ LineInOrder'
<1> DEFINE bad == IF SlotTaken THEN {} ELSE Waiting
<1>1. jobs' = Reject(bad, RecoveredJobs)
  BY DEF ClaimNothing
<1>2. /\ bad \in SUBSET Waiting /\ bad \in SUBSET (Idling \cup Stale)
      /\ Stale \in SUBSET Running
      /\ bad = {} \/ (Stale = Running /\ bad = Idling \cup Stale)
  BY ClaimLine DEF QInv, IInv
<1> HIDE DEF bad
<1>3. ASSUME NEW i \in Job
      PROVE  /\ SamePlace(i) /\ jobs'[i].retryable = jobs[i].retryable
             /\ jobs'[i].state = IF i \in bad THEN "failed"
                                 ELSE IF i \in Stale THEN "queued" ELSE jobs[i].state
  BY <1>1, <1>2, RejectedColumns DEF SamePlace, QInv, IInv
<1>4. Queue!Next
  BY <1>2, <1>3, IsPassBy DEF QInv, IInv
<1>5. LineInOrder'
  BY <1>3, LineStays DEF QInv, LineInOrder, SamePlace, Stale
<1>6. QED
  BY <1>4, <1>5

LEMMA ClaimJobQueues ==
  ASSUME QInv, NEW w \in Worker, NEW j \in Job, ClaimJob(w, j),
         episode' = episode, lastRow' = lastRow
  PROVE  Queue!Next /\ LineInOrder'
<1> DEFINE bad == {i \in Waiting : Older(i, j)}
           rejected == Reject(bad, RecoveredJobs)
<1>1. /\ ~SlotTaken /\ j \in Waiting
      /\ jobs' = [rejected EXCEPT ![j] = Claimed(@, w)]
  BY DEF ClaimJob
<1>2. Stale = Running /\ Waiting = Idling \cup Running
  BY <1>1, ClaimLine DEF QInv, IInv
<1>3. /\ bad = {i \in Idling \cup Running : jobs[i].row < jobs[j].row}
      /\ bad \in SUBSET Waiting /\ j \in Idling \cup Running
  BY <1>1, <1>2 DEF Older
<1>4. j \notin bad /\ jobs[j].retryable = FALSE
  <2>1. jobs[j].row \in Nat
    BY DEF QInv, IInv, TypeOK, JobRow
  <2>2. jobs[j].retryable = FALSE
    BY <1>3, NotRetryable DEF QInv, IInv
  <2>3. QED
    BY <1>3, <2>1, <2>2
<1> HIDE DEF bad
<1>5. ASSUME NEW i \in Job \ {j}
      PROVE  /\ SamePlace(i) /\ jobs'[i].retryable = jobs[i].retryable
             /\ jobs'[i].state = IF i \in bad THEN "failed"
                                 ELSE IF i \in Running THEN "queued" ELSE jobs[i].state
  <2>1. jobs'[i] = rejected[i]
    BY <1>1 DEF Reject
  <2>2. QED
    BY <1>2, <1>3, <2>1, RejectedColumns DEF SamePlace, QInv, IInv
<1>6. /\ jobs'[j].state = "running" /\ jobs'[j].row = jobs[j].row
      /\ jobs'[j].attemptCount = jobs[j].attemptCount + 1 /\ jobs'[j].retryable = FALSE
      /\ jobs'[j].retryable = jobs[j].retryable
  <2>1. jobs'[j] = Claimed(RecoveredJobs[j], w)
    BY <1>1, <1>4 DEF Reject
  <2>2. /\ Claimed(RecoveredJobs[j], w).row = RecoveredJobs[j].row
        /\ Claimed(RecoveredJobs[j], w).retryable = FALSE
        /\ Claimed(RecoveredJobs[j], w).attemptCount = RecoveredJobs[j].attemptCount + 1
        /\ Claimed(RecoveredJobs[j], w).state = "running"
    BY RecoveredColumns DEF Claimed, JobRow, QInv, IInv
  <2>3. QED
    BY <1>4, <2>1, <2>2, RecoveredColumns DEF QInv, IInv
<1>7. Queue!Next
  BY <1>3, <1>4, <1>5, <1>6, IsBegin DEF QInv, IInv
<1>8. LineInOrder'
  <2>1. ASSUME NEW i \in Job, jobs'[i].retryable = TRUE
        PROVE  i # j /\ jobs'[i].state = "failed"
    BY <1>5, <1>6, <2>1 DEF QInv, LineInOrder, Running
  <2>2. QED
    BY <1>5, <1>6, <2>1, LineStays DEF QInv, SamePlace
<1>9. QED
  BY <1>7, <1>8

LEMMA ClaimQueues ==
  ASSUME QInv, NEW w \in Worker, ClaimNext(w)
  PROVE  Queue!Next /\ LineInOrder'
BY ClaimNothingQueues, ClaimJobQueues DEF ClaimNext

(* Leases and phases are not seen. *)
LEMMA RenewQueues ==
  ASSUME QInv, NEW w \in Worker, RenewLease(w) \/ UpdatePhase(w)
  PROVE  UNCHANGED Queue!qvars /\ LineInOrder'
<1> DEFINE j == worker[w].job
<1>1. j \in Job
  BY OwnedFacts DEF QInv, RenewLease, UpdatePhase
<1>2. /\ lastRow' = lastRow /\ episode' = episode
      /\ \A i \in Job \ {j} : jobs'[i] = jobs[i]
      /\ jobs[j] \in JobRow
  BY <1>1 DEF RenewLease, UpdatePhase, QInv, IInv, TypeOK
<1> HIDE DEF j
<1>3. CASE RenewLease(w)
  <2>1. jobs'[j] = Renewed(jobs[j])
    BY <1>1, <1>3 DEF RenewLease, j, QInv, IInv, TypeOK
  <2>2. Unseen(j)
    BY <1>2, <2>1 DEF Renewed, JobRow, Unseen, SamePlace
  <2>3. QED
    BY <1>2, <2>2, UnseenStep DEF QInv, Unseen, SamePlace
<1>4. CASE UpdatePhase(w)
  <2> DEFINE p == NextPhase(worker[w].stage)
  <2>1. jobs'[j] = [Renewed(jobs[j]) EXCEPT !.phase = p]
    BY <1>1, <1>4 DEF UpdatePhase, j, QInv, IInv, TypeOK
  <2> HIDE DEF p
  <2>2. Unseen(j)
    BY <1>2, <2>1 DEF Renewed, JobRow, Unseen, SamePlace
  <2>3. QED
    BY <1>2, <2>2, UnseenStep DEF QInv, Unseen, SamePlace
<1>5. QED
  BY <1>3, <1>4

LEMMA CompleteQueues ==
  ASSUME QInv, NEW w \in Worker, Complete(w)
  PROVE  Queue!Next /\ LineInOrder'
<1> DEFINE j == worker[w].job
<1>1. /\ j \in Job /\ jobs[j].state = "running" /\ worker[w].attempt = jobs[j].attemptCount
  BY OwnedFacts DEF QInv, Complete
<1>2. /\ lastRow' = lastRow /\ episode' = [episode EXCEPT ![j] = jobs[j].attemptCount]
      /\ \A i \in Job \ {j} : jobs'[i] = jobs[i]
      /\ jobs'[j] = Finished(jobs[j], "complete", FALSE) /\ jobs[j] \in JobRow
  BY <1>1 DEF Complete, QInv, IInv, TypeOK
<1> HIDE DEF j
<1>3. /\ SamePlace(j) /\ jobs'[j].retryable = FALSE /\ jobs'[j].state = "complete"
  BY <1>2 DEF Finished, JobRow, SamePlace
<1>4. jobs[j].retryable = FALSE
  BY <1>1, NotRetryable DEF QInv, IInv, Running
<1>5. jobs'[j].retryable = jobs[j].retryable
  BY <1>3, <1>4
<1>6. Queue!Next
  BY <1>1, <1>2, <1>3, <1>5, IsDeliver DEF QInv, IInv
<1>7. LineInOrder'
  BY <1>2, <1>3, LineStays DEF QInv, LineInOrder, SamePlace
<1>8. QED
  BY <1>6, <1>7

LEMMA SettleQueues ==
  ASSUME QInv, NEW w \in Worker, Settle(w)
  PROVE  [Queue!Next]_(Queue!qvars) /\ LineInOrder'
<1> DEFINE j == worker[w].job
           v == worker[w].verdict
<1>1. lastRow' = lastRow /\ episode' = episode
  BY DEF Settle
<1>2. CASE v = "nothing"
  <2>1. jobs' = jobs
    BY <1>2 DEF Settle
  <2>2. QED
    BY <1>1, <2>1, UnseenStep DEF QInv, Unseen, SamePlace
<1>3. CASE v # "nothing"
  <2>1. j \in Job /\ jobs[j].state = "running" /\ jobs[j] \in JobRow
    BY <1>3, OwnedFacts DEF QInv, IInv, TypeOK, Settle
  <2>2. jobs[j].retryable = FALSE
    BY <2>1, NotRetryable DEF QInv, IInv, Running
  <2>3. CASE v = "interrupt"
    <3>1. jobs'[j] = Released(jobs[j]) /\ \A i \in Job \ {j} : jobs'[i] = jobs[i]
      BY <2>1, <2>3 DEF Settle, QInv, IInv, TypeOK
    <3> HIDE DEF j, v
    <3>2. /\ SamePlace(j) /\ jobs'[j].retryable = jobs[j].retryable
          /\ jobs'[j].state = "queued"
      BY <2>1, <3>1 DEF Released, JobRow, SamePlace
    <3>3. ASSUME NEW i \in Job
          PROVE  /\ SamePlace(i) /\ jobs'[i].retryable = jobs[i].retryable
                 /\ jobs'[i].state = IF i \in {} THEN "failed"
                                     ELSE IF i \in {j} THEN "queued" ELSE jobs[i].state
      BY <3>1, <3>2 DEF SamePlace
    <3>4. {j} \in SUBSET Running /\ {} \in SUBSET (Idling \cup {j})
      BY <2>1 DEF Running
    <3>5. Queue!Next
      BY <1>1, <3>3, <3>4, IsPassBy DEF QInv, IInv
    <3>6. LineInOrder'
      BY <1>1, <2>2, <3>1, <3>2, LineStays DEF QInv, LineInOrder, SamePlace
    <3>7. QED
      BY <3>5, <3>6
  <2>4. CASE v \in {"retryable", "final"}
    <3> DEFINE again == v = "retryable"
    <3>1. /\ jobs'[j] = Finished(jobs[j], "failed", again)
          /\ \A i \in Job \ {j} : jobs'[i] = jobs[i]
      BY <2>1, <2>4 DEF Settle, QInv, IInv, TypeOK
    <3>2. again \in BOOLEAN
      OBVIOUS
    <3> HIDE DEF j, v, again
    <3>3. SamePlace(j) /\ jobs'[j].retryable = again /\ jobs'[j].state = "failed"
      BY <2>1, <3>1 DEF Finished, JobRow, SamePlace
    <3>4. jobs'[j].retryable \in BOOLEAN
      BY <3>2, <3>3, Zenon
    <3>5. Queue!Next
      BY <1>1, <2>1, <3>1, <3>3, <3>4, IsRefuse DEF QInv, IInv
    <3>6. LineInOrder'
      BY <1>1, <3>1, <3>3, LineStays DEF QInv, LineInOrder, SamePlace
    <3>7. QED
      BY <3>5, <3>6
  <2>5. QED
    BY <1>3, <2>3, <2>4 DEF QInv, IInv, TypeOK, WorkerState
<1>4. QED
  BY <1>2, <1>3

LEMMA TickQueues ==
  ASSUME QInv, Tick
  PROVE  UNCHANGED Queue!qvars /\ LineInOrder'
<1>1. ASSUME NEW i \in Job
      PROVE  Unseen(i)
  <2>1. jobs[i] \in JobRow
    BY DEF QInv, IInv, TypeOK
  <2>2. jobs'[i] = IF i \in Leased THEN [jobs[i] EXCEPT !.ttl = @ - 1] ELSE jobs[i]
    BY DEF Tick
  <2>3. QED
    BY <2>1, <2>2 DEF JobRow, Unseen, SamePlace
<1>2. QED
  BY <1>1, UnseenStep DEF Tick, QInv

LEMMA DamageQueues ==
  ASSUME QInv, NEW j \in Job, Damage(j)
  PROVE  UNCHANGED Queue!qvars /\ LineInOrder'
<1>1. ASSUME NEW i \in Job
      PROVE  Unseen(i)
  <2>1. jobs[i] \in JobRow
    BY DEF QInv, IInv, TypeOK
  <2>2. jobs'[i] = IF i = j THEN [jobs[i] EXCEPT !.readable = FALSE] ELSE jobs[i]
    BY DEF Damage, QInv, IInv, TypeOK
  <2>3. QED
    BY <2>1, <2>2 DEF JobRow, Unseen, SamePlace
<1>2. QED
  BY <1>1, UnseenStep DEF Damage, QInv

-----------------------------------------------------------------------------
LEMMA QueueStep == QInv /\ [Next]_vars => [Queue!Next]_(Queue!qvars) /\ LineInOrder'
<1> SUFFICES ASSUME QInv, [Next]_vars
             PROVE  [Queue!Next]_(Queue!qvars) /\ LineInOrder'
  OBVIOUS
<1> USE DEF Next, Processes
<1>1. ASSUME NEW j \in Job, NEW k \in Key \cup {NoKey}, Enqueue(j, k)
      PROVE  [Queue!Next]_(Queue!qvars) /\ LineInOrder'
  BY <1>1, EnqueueQueues
<1>2. ASSUME NEW j \in Job, NEW k \in Key, Retry(j, k)
      PROVE  [Queue!Next]_(Queue!qvars) /\ LineInOrder'
  BY <1>2, RetryQueues
<1>3. ASSUME NEW w \in Worker, Start(w) \/ ClaimNext(w)
      PROVE  [Queue!Next]_(Queue!qvars) /\ LineInOrder'
  BY <1>3, StartQueues, ClaimQueues
<1>4. ASSUME NEW w \in Worker, RenewLease(w) \/ UpdatePhase(w)
      PROVE  [Queue!Next]_(Queue!qvars) /\ LineInOrder'
  BY <1>4, RenewQueues
<1>5. ASSUME NEW w \in Worker, Complete(w)
      PROVE  [Queue!Next]_(Queue!qvars) /\ LineInOrder'
  BY <1>5, CompleteQueues
<1>6. ASSUME NEW w \in Worker, Settle(w)
      PROVE  [Queue!Next]_(Queue!qvars) /\ LineInOrder'
  BY <1>6, SettleQueues
<1>7. ASSUME UNCHANGED <<jobs, episode, lastRow>>
      PROVE  [Queue!Next]_(Queue!qvars) /\ LineInOrder'
  BY <1>7, UnseenStep DEF QInv, Unseen, SamePlace
<1>8. ASSUME NEW w \in Worker,
             \/ HeartbeatFails(w) \/ StoreRefuses(w) \/ SettleThrows(w)
             \/ \E how \in {"interrupt", "retryable", "final"} : ProcessorThrows(w, how)
             \/ Stop(w) \/ Exit(w) \/ Crash(w)
      PROVE  [Queue!Next]_(Queue!qvars) /\ LineInOrder'
  BY <1>7, <1>8 DEF HeartbeatFails, StoreRefuses, SettleThrows, ProcessorThrows, Stop, Exit, Crash
<1>9. CASE Tick \/ \E j \in Job : Damage(j)
  BY <1>9, TickQueues, DamageQueues
<1>10. CASE UNCHANGED vars
  BY <1>7, <1>10 DEF vars
<1>11. QED
  BY <1>1, <1>2, <1>3, <1>4, <1>5, <1>6, <1>8, <1>9, <1>10

LEMMA LineAtStart == Init => LineInOrder /\ Queue!Init
<1> SUFFICES ASSUME Init
             PROVE  LineInOrder /\ Queue!Init
  OBVIOUS
<1>1. /\ \A i \in Job : /\ jobs[i].state = "absent" /\ jobs[i].row = 0
                        /\ jobs[i].attemptCount = 0 /\ jobs[i].retryable = FALSE
      /\ lastRow = 0 /\ episode = [i \in Job |-> 0]
  BY DEF Init, NoRow
<1>2. LineInOrder
  BY <1>1 DEF LineInOrder
<1>3. Queue!Init
  BY <1>1, StandingOf DEF Queue!Init
<1>4. QED
  BY <1>2, <1>3

(* The store and its workers implement the queue promised to users: every   *)
(* step of a request, a worker or the clock, crashes, stalls and damaged    *)
(* rows included, is a step of JobQueue or is not seen.  In particular the  *)
(* oldest waiting request is begun first (claimNext orders by created_at    *)
(* and rowid), also after it was interrupted, recovered or retried.         *)
THEOREM StoreImplementsQueue == Spec => ImplementsQueue
<1>1. Init => QInv /\ Queue!Init
  BY InitIInv, LineAtStart DEF QInv
<1>2. QInv /\ [Next]_vars => QInv' /\ [Queue!Next]_(Queue!qvars)
  BY IInvStep, QueueStep DEF QInv
<1>3. QED
  BY <1>1, <1>2, PTL DEF Spec, ImplementsQueue, Queue!Spec

-----------------------------------------------------------------------------
(* History and leases *)

(* g is h with its running attempts perhaps closed and others appended. *)
Continues(h, g) ==
  /\ Len(h) <= Len(g)
  /\ \A n \in 1..Len(h) : h[n].outcome # "running" => g[n] = h[n]

(* What a step does to one request. *)
Settled(j) ==
  /\ Continues(attempts[j], attempts'[j])
  /\ jobs[j].state = "complete" => jobs'[j] = jobs[j] /\ episode'[j] = episode[j]
  /\ /\ jobs[j].state = "running" /\ jobs[j].ttl > 0
     /\ jobs'[j].state # "running" \/ jobs'[j].attemptCount # jobs[j].attemptCount
     => worker'[jobs[j].owner] # worker[jobs[j].owner]

LEMMA ClosingContinues ==
  ASSUME TypeOK, NEW j \in Job, NEW how \in Outcome
  PROVE  Continues(attempts[j], Closed(j, how)) /\ Closed(j, how) \in Seq(Attempt)
<1>1. ClosesAs(attempts[j], Closed(j, how), jobs[j].attemptCount, how)
  BY ClosedCloses
<1>2. attempts[j] \in Seq(Attempt)
  BY DEF TypeOK
<1> DEFINE g == Closed(j, how)
<1> HIDE DEF g
<1>3. g \in Seq(Attempt) /\ Continues(attempts[j], g)
  BY <1>1, <1>2 DEF ClosesAs, Continues, g
<1>4. QED
  BY <1>3 DEF g

LEMMA RecoveryContinues ==
  ASSUME TypeOK, NEW j \in Job
  PROVE  Continues(attempts[j], RecoveredAttempts[j]) /\ RecoveredAttempts[j] \in Seq(Attempt)
<1>1. attempts[j] \in Seq(Attempt)
  BY DEF TypeOK
<1>2. CASE j \in Stale
  BY <1>2, ClosingContinues DEF RecoveredAttempts, Outcome
<1>3. CASE j \notin Stale
  BY <1>1, <1>3 DEF RecoveredAttempts, Continues
<1>4. QED
  BY <1>2, <1>3

LEMMA AppendContinues ==
  ASSUME NEW h \in Seq(Attempt), NEW g \in Seq(Attempt), NEW a \in Attempt, Continues(h, g)
  PROVE  Continues(h, Append(g, a))
<1>1. Len(Append(g, a)) = Len(g) + 1 /\ \A n \in 1..Len(g) : Append(g, a)[n] = g[n]
  BY AppendProperties
<1>2. Len(h) \in Nat /\ Len(g) \in Nat
  OBVIOUS
<1>3. QED
  BY <1>1, <1>2 DEF Continues

(* Nothing happens to a request whose rows stay. *)
LEMMA LeftAlone ==
  ASSUME TypeOK, NEW j \in Job, attempts'[j] = attempts[j], episode'[j] = episode[j],
         jobs'[j] = jobs[j] \/ (jobs[j].state \notin {"running", "complete"})
         \/ /\ jobs[j].state = "running" /\ jobs'[j].state = "running"
            /\ jobs'[j].attemptCount = jobs[j].attemptCount
  PROVE  Settled(j)
<1>1. Continues(attempts[j], attempts'[j])
  BY DEF Continues, TypeOK
<1>2. QED
  BY <1>1 DEF Settled

LEMMA RequestsSettle ==
  ASSUME QInv, NEW j \in Job,
         \/ \E i \in Job, k \in Key \cup {NoKey} : Enqueue(i, k)
         \/ \E i \in Job, k \in Key : Retry(i, k)
         \/ \E i \in Job : Damage(i)
         \/ Tick
  PROVE  Settled(j)
<1>1. TypeOK /\ jobs[j] \in JobRow
  BY DEF QInv, IInv, TypeOK
<1>2. attempts' = attempts /\ episode' = episode
  BY DEF Enqueue, Retry, RetryAnswered, RetryRequeues, Damage, Tick
<1>3. ASSUME NEW i \in Job, NEW k \in Key \cup {NoKey}, Enqueue(i, k)
      PROVE  Settled(j)
  <2>1. jobs'[j] = jobs[j] \/ jobs[j].state = "absent"
    BY <1>3 DEF Enqueue, QInv, IInv, TypeOK
  <2>2. QED
    BY <1>1, <1>2, <2>1, LeftAlone
<1>4. ASSUME NEW i \in Job, NEW k \in Key, Retry(i, k)
      PROVE  Settled(j)
  <2>1. CASE RetryAnswered(i, k)
    BY <1>1, <1>2, <2>1, LeftAlone DEF RetryAnswered
  <2>2. CASE RetryRequeues(i, k)
    <3>1. jobs'[j] = jobs[j] \/ jobs[j].state = "failed"
      BY <2>2 DEF RetryRequeues, QInv, IInv, TypeOK
    <3>2. QED
      BY <1>1, <1>2, <3>1, LeftAlone
  <2>3. QED
    BY <1>4, <2>1, <2>2 DEF Retry
<1>5. ASSUME NEW i \in Job, Damage(i)
      PROVE  Settled(j)
  <2>1. jobs'[j] = jobs[j] \/ jobs[j].state = "queued"
    BY <1>5 DEF Damage, QInv, IInv, TypeOK
  <2>2. QED
    BY <1>1, <1>2, <2>1, LeftAlone
<1>6. CASE Tick
  <2>1. jobs'[j] = IF j \in Leased THEN [jobs[j] EXCEPT !.ttl = @ - 1] ELSE jobs[j]
    BY <1>6 DEF Tick
  <2>2. \/ jobs'[j] = jobs[j]
        \/ /\ jobs[j].state = "running" /\ jobs'[j].state = "running"
           /\ jobs'[j].attemptCount = jobs[j].attemptCount
    BY <1>1, <2>1 DEF Leased, JobRow
  <2>3. QED
    BY <1>1, <1>2, <2>2, LeftAlone
<1>7. QED
  BY <1>3, <1>4, <1>5, <1>6

(* A recovery takes only what has no lease left. *)
LEMMA ClaimsSettle ==
  ASSUME QInv, NEW j \in Job, NEW w \in Worker, Start(w) \/ ClaimNext(w)
  PROVE  Settled(j)
<1>1. TypeOK /\ jobs[j] \in JobRow /\ attempts[j] \in Seq(Attempt)
  BY DEF QInv, IInv, TypeOK
<1>2. episode' = episode
  BY DEF Start, ClaimNext
<1>3. Continues(attempts[j], attempts'[j])
  <2>1. CASE attempts' = RecoveredAttempts
    BY <1>1, <2>1, RecoveryContinues
  <2>2. ASSUME NEW i \in Job, ClaimJob(w, i)
        PROVE  Continues(attempts[j], attempts'[j])
    <3> DEFINE a == [by |-> w, outcome |-> "running"]
    <3>1. attempts' = [RecoveredAttempts EXCEPT ![i] = Append(@, a)]
      BY <2>2 DEF ClaimJob
    <3>2. a \in Attempt
      BY DEF Attempt, Outcome
    <3> HIDE DEF a
    <3>3. \/ attempts'[j] = RecoveredAttempts[j]
          \/ attempts'[j] = Append(RecoveredAttempts[j], a)
      BY <3>1 DEF RecoveredAttempts
    <3>4. QED
      BY <1>1, <3>2, <3>3, RecoveryContinues, AppendContinues
  <2>3. QED
    BY <2>1, <2>2 DEF Start, ClaimNext, ClaimNothing
<1>4. ASSUME jobs[j].state = "complete" \/ (jobs[j].state = "running" /\ jobs[j].ttl > 0)
      PROVE  jobs'[j] = jobs[j]
  <2>1. j \notin Stale /\ RecoveredJobs[j] = jobs[j] /\ j \notin Waiting
    BY <1>1, <1>4 DEF Stale, RecoveredJobs, Waiting, JobRow
  <2>2. CASE Start(w)
    BY <2>1, <2>2 DEF Start
  <2>3. CASE ClaimNothing(w)
    <3>1. \/ jobs' = Reject({}, RecoveredJobs)
          \/ jobs' = Reject(Waiting, RecoveredJobs)
      BY <2>3 DEF ClaimNothing
    <3>2. QED
      BY <2>1, <3>1 DEF Reject
  <2>4. ASSUME NEW i \in Job, ClaimJob(w, i)
        PROVE  jobs'[j] = jobs[j]
    <3>1. PICK bad \in SUBSET Waiting :
            jobs' = [Reject(bad, RecoveredJobs) EXCEPT ![i] = Claimed(@, w)]
      BY <2>4 DEF ClaimJob
    <3>2. i # j
      BY <2>1, <2>4 DEF ClaimJob
    <3>3. QED
      BY <2>1, <3>1, <3>2 DEF Reject
  <2>5. QED
    BY <2>2, <2>3, <2>4 DEF ClaimNext
<1>5. QED
  BY <1>2, <1>3, <1>4 DEF Settled

(* The owner's own steps. *)
LEMMA OwnersSettle ==
  ASSUME QInv, NEW j \in Job, NEW w \in Worker, Processes(w)
  PROVE  Settled(j)
<1>1. TypeOK /\ jobs[j] \in JobRow
  BY DEF QInv, IInv, TypeOK
<1>2. ASSUME jobs' = jobs, attempts' = attempts, episode' = episode
      PROVE  Settled(j)
  BY <1>1, <1>2, LeftAlone
<1>3. CASE RenewLease(w) \/ UpdatePhase(w)
  <2> DEFINE i == worker[w].job
  <2>1. /\ attempts' = attempts /\ episode' = episode
        /\ i \in Job /\ jobs[i].state = "running" /\ jobs[i] \in JobRow
    BY <1>3, OwnedFacts DEF QInv, IInv, TypeOK, RenewLease, UpdatePhase
  <2>2. /\ \A n \in Job \ {i} : jobs'[n] = jobs[n]
        /\ jobs'[i].state = "running" /\ jobs'[i].attemptCount = jobs[i].attemptCount
    <3>1. CASE RenewLease(w)
      <4>1. /\ \A n \in Job \ {i} : jobs'[n] = jobs[n]
            /\ jobs'[i] = Renewed(jobs[i])
        BY <2>1, <3>1 DEF RenewLease, TypeOK, QInv, IInv
      <4> HIDE DEF i
      <4>2. QED
        BY <2>1, <4>1 DEF Renewed, JobRow
    <3>2. CASE UpdatePhase(w)
      <4> DEFINE p == NextPhase(worker[w].stage)
      <4>1. /\ \A n \in Job \ {i} : jobs'[n] = jobs[n]
            /\ jobs'[i] = [Renewed(jobs[i]) EXCEPT !.phase = p]
        BY <2>1, <3>2 DEF UpdatePhase, TypeOK, QInv, IInv
      <4> HIDE DEF i, p
      <4>2. QED
        BY <2>1, <4>1 DEF Renewed, JobRow
    <3>3. QED
      BY <1>3, <3>1, <3>2
  <2> HIDE DEF i
  <2>3. QED
    BY <1>1, <2>1, <2>2, LeftAlone
<1>4. CASE Complete(w) \/ (Settle(w) /\ worker[w].verdict # "nothing")
  <2> DEFINE i == worker[w].job
  <2>1. i \in Job /\ jobs[i].state = "running" /\ jobs[i].owner = w
    BY <1>4, OwnedFacts DEF QInv, Complete, Settle
  <2>2. \A n \in Job \ {i} : /\ jobs'[n] = jobs[n] /\ attempts'[n] = attempts[n]
                             /\ episode'[n] = episode[n]
    BY <1>4, <1>1 DEF Complete, Settle, TypeOK
  <2>3. PICK how \in Outcome : attempts'[i] = Closed(i, how)
    BY <1>4, <1>1, <2>1 DEF Complete, Settle, TypeOK, Outcome, WorkerState
  <2>4. worker'[w] # worker[w]
    <3>1. worker' = Idle(w) /\ worker[w].pc \in {"processing", "settling"}
      BY <1>4 DEF Complete, Settle
    <3>2. worker'[w].pc = "idle"
      BY <1>1, <3>1 DEF Idle, TypeOK, WorkerState
    <3>3. QED
      BY <3>1, <3>2
  <2> HIDE DEF i
  <2>5. CASE j = i
    BY <1>1, <2>1, <2>3, <2>4, <2>5, ClosingContinues DEF Settled
  <2>6. CASE j # i
    BY <1>1, <2>2, <2>6, LeftAlone
  <2>7. QED
    BY <2>5, <2>6
<1>5. QED
  BY <1>2, <1>3, <1>4 DEF Processes, HeartbeatFails, ProcessorThrows, StoreRefuses, Settle,
     SettleThrows

LEMMA EveryStepSettles ==
  ASSUME QInv, [Next]_vars, NEW j \in Job
  PROVE  Settled(j)
<1>1. TypeOK
  BY DEF QInv, IInv
<1>2. ASSUME NEW w \in Worker, Start(w) \/ ClaimNext(w)
      PROVE  Settled(j)
  BY <1>2, ClaimsSettle
<1>3. ASSUME NEW w \in Worker, Processes(w)
      PROVE  Settled(j)
  BY <1>3, OwnersSettle
<1>4. ASSUME UNCHANGED <<jobs, attempts, episode>>
      PROVE  Settled(j)
  BY <1>1, <1>4, LeftAlone
<1>5. CASE \/ UNCHANGED vars
           \/ \E w \in Worker : Stop(w) \/ Exit(w) \/ Crash(w)
  BY <1>4, <1>5 DEF vars, Stop, Exit, Crash
<1>6. QED
  BY <1>2, <1>3, <1>5, RequestsSettle DEF Next

LEMMA QInvariance == Spec => []QInv
<1>1. Init => QInv
  BY InitIInv, LineAtStart DEF QInv
<1>2. QInv /\ [Next]_vars => QInv'
  BY IInvStep, QueueStep DEF QInv
<1>3. QED
  BY <1>1, <1>2, PTL DEF Spec

(* generation_job_attempts is append-only in effect: finishAttempt closes   *)
(* the current open attempt and nothing touches a closed one; a complete    *)
(* job and its published episode never change again.                        *)
THEOREM HistoryStaysFinal == Spec => HistoryIsFinal
<1>1. ASSUME QInv, [Next]_vars
      PROVE  \A j \in Job :
               /\ Len(attempts[j]) <= Len(attempts'[j])
               /\ \A n \in 1..Len(attempts[j]) :
                    attempts[j][n].outcome # "running" => attempts'[j][n] = attempts[j][n]
               /\ jobs[j].state = "complete" => jobs'[j] = jobs[j] /\ episode'[j] = episode[j]
  BY <1>1, EveryStepSettles DEF Settled, Continues
<1>2. QED
  BY <1>1, QInvariance, PTL DEF Spec, HistoryIsFinal

(* While a lease has time left, no recovery, claim or settlement of another *)
(* worker ends or replaces the attempt: only a step of the owner does.      *)
THEOREM LeaseIsRespected == Spec => LeaseProtectsAttempt
<1>1. ASSUME QInv, [Next]_vars
      PROVE  \A j \in Job :
               /\ jobs[j].state = "running" /\ jobs[j].ttl > 0
               /\ jobs'[j].state # "running" \/ jobs'[j].attemptCount # jobs[j].attemptCount
               => worker'[jobs[j].owner] # worker[jobs[j].owner]
  BY <1>1, EveryStepSettles DEF Settled
<1>2. QED
  BY <1>1, QInvariance, PTL DEF Spec, LeaseProtectsAttempt

-----------------------------------------------------------------------------
(* Retry keys *)

(* A step begins the next attempt, or leaves the job in line for it, or     *)
(* does not concern who is.                                                 *)
Promised(j) ==
  \/ jobs'[j].attemptCount = jobs[j].attemptCount + 1
  \/ /\ jobs'[j].attemptCount = jobs[j].attemptCount
     /\ \/ jobs'[j].state = "queued" \/ jobs'[j].readable = FALSE
        \/ jobs[j].state # "queued" /\ jobs'[j].readable = jobs[j].readable

LEMMA PromiseKept ==
  ASSUME TypeOK, RetryNamesAnAttempt, retries' = retries,
         \A j \in Job : jobs'[j] = jobs[j] \/ Promised(j)
  PROVE  RetryNamesAnAttempt'
<1> SUFFICES ASSUME NEW j \in Job, NEW k \in Key
             PROVE  /\ retries[j][k] <= jobs'[j].attemptCount + 1
                    /\ retries[j][k] = jobs'[j].attemptCount + 1 =>
                         jobs'[j].state = "queued" \/ ~jobs'[j].readable
  BY DEF RetryNamesAnAttempt
<1>1. /\ retries[j][k] \in Nat /\ jobs[j].attemptCount \in Nat
      /\ retries[j][k] <= jobs[j].attemptCount + 1
      /\ retries[j][k] = jobs[j].attemptCount + 1 =>
           jobs[j].state = "queued" \/ ~jobs[j].readable
  BY DEF TypeOK, JobRow, RetryNamesAnAttempt
<1>2. CASE jobs'[j] = jobs[j]
  BY <1>1, <1>2
<1>3. CASE Promised(j)
  BY <1>1, <1>3 DEF Promised
<1>4. QED
  BY <1>2, <1>3

LEMMA RequestsPromise ==
  ASSUME QInv, RetryNamesAnAttempt,
         \/ \E i \in Job, k \in Key \cup {NoKey} : Enqueue(i, k)
         \/ \E i \in Job, k \in Key : Retry(i, k)
         \/ \E i \in Job : Damage(i)
         \/ Tick
  PROVE  RetryNamesAnAttempt'
<1>1. TypeOK /\ \A i \in Job : jobs[i] \in JobRow
  BY DEF QInv, IInv, TypeOK
<1>2. ASSUME NEW i \in Job, NEW k \in Key \cup {NoKey}, Enqueue(i, k)
      PROVE  RetryNamesAnAttempt'
  <2>1. /\ jobs'[i] = NewRow(lastRow + 1, k) /\ jobs[i].state = "absent"
        /\ \A j \in Job \ {i} : jobs'[j] = jobs[j]
        /\ retries' = retries
    BY <1>1, <1>2 DEF Enqueue, NewRow, TypeOK
  <2>2. jobs[i].attemptCount = 0
    BY <2>1 DEF QInv, IInv, RowsConsistent, Consistent
  <2>3. Promised(i)
    BY <2>1, <2>2 DEF Promised, NewRow, NoRow
  <2>4. QED
    BY <1>1, <2>1, <2>3, PromiseKept
<1>3. ASSUME NEW i \in Job, NEW k \in Key, Retry(i, k)
      PROVE  RetryNamesAnAttempt'
  <2>1. /\ retries' = [retries EXCEPT ![i][k] = RequestedAttempt(i)]
        /\ \A j \in Job : jobs'[j].attemptCount = jobs[j].attemptCount
        /\ \A j \in Job : jobs'[j].readable = jobs[j].readable
        /\ \A j \in Job : jobs[j].state = "queued" => jobs'[j].state = "queued"
        /\ jobs[i].state \notin {"running", "complete"} => jobs'[i].state = "queued"
    <3>1. CASE RetryAnswered(i, k)
      BY <3>1 DEF RetryAnswered
    <3>2. CASE RetryRequeues(i, k)
      <4>1. /\ retries' = [retries EXCEPT ![i][k] = RequestedAttempt(i)]
            /\ \A j \in Job \ {i} : jobs'[j] = jobs[j]
            /\ jobs'[i] = Requeued(jobs[i])
        BY <1>1, <3>2 DEF RetryRequeues, Requeued, TypeOK
      <4>2. /\ Requeued(jobs[i]).attemptCount = jobs[i].attemptCount
            /\ Requeued(jobs[i]).readable = jobs[i].readable
            /\ Requeued(jobs[i]).state = "queued"
        BY <1>1 DEF Requeued, JobRow
      <4>3. QED
        BY <4>1, <4>2
    <3>3. QED
      BY <1>3, <3>1, <3>2 DEF Retry
  <2>2. /\ RequestedAttempt(i) \in Nat /\ RequestedAttempt(i) <= jobs[i].attemptCount + 1
        /\ RequestedAttempt(i) = jobs[i].attemptCount + 1 => jobs'[i].state = "queued"
    <3>1. jobs[i].attemptCount \in Nat
      BY <1>1 DEF JobRow
    <3>2. QED
      BY <2>1, <3>1 DEF RequestedAttempt
  <2>3. ASSUME NEW j \in Job, NEW n \in Key
        PROVE  /\ retries'[j][n] <= jobs'[j].attemptCount + 1
               /\ retries'[j][n] = jobs'[j].attemptCount + 1 =>
                    jobs'[j].state = "queued" \/ ~jobs'[j].readable
    <3>1. retries'[j][n] = IF j = i /\ n = k THEN RequestedAttempt(i) ELSE retries[j][n]
      BY <1>1, <2>1 DEF TypeOK
    <3>2. CASE j = i /\ n = k
      BY <2>1, <2>2, <3>1, <3>2
    <3>3. CASE ~(j = i /\ n = k)
      BY <2>1, <3>1, <3>3 DEF RetryNamesAnAttempt
    <3>4. QED
      BY <3>2, <3>3
  <2>4. QED
    BY <2>3 DEF RetryNamesAnAttempt
<1>4. ASSUME NEW i \in Job, Damage(i)
      PROVE  RetryNamesAnAttempt'
  <2>1. /\ retries' = retries /\ \A j \in Job \ {i} : jobs'[j] = jobs[j]
        /\ jobs'[i] = [jobs[i] EXCEPT !.readable = FALSE]
    BY <1>1, <1>4 DEF Damage, TypeOK
  <2>2. Promised(i)
    BY <1>1, <2>1 DEF Promised, JobRow
  <2>3. QED
    BY <1>1, <2>1, <2>2, PromiseKept
<1>5. CASE Tick
  <2>1. ASSUME NEW j \in Job
        PROVE  jobs'[j] = jobs[j] \/ Promised(j)
    <3>1. jobs'[j] = IF j \in Leased THEN [jobs[j] EXCEPT !.ttl = @ - 1] ELSE jobs[j]
      BY <1>5 DEF Tick
    <3>2. j \in Leased => Promised(j)
      BY <1>1, <3>1 DEF Leased, Promised, JobRow
    <3>3. QED
      BY <3>1, <3>2
  <2>2. QED
    BY <1>1, <1>5, <2>1, PromiseKept DEF Tick
<1>6. QED
  BY <1>2, <1>3, <1>4, <1>5

LEMMA ClaimsPromise ==
  ASSUME QInv, NEW w \in Worker, Start(w) \/ ClaimNext(w), NEW j \in Job
  PROVE  jobs'[j] = jobs[j] \/ Promised(j)
<1>1. TypeOK /\ RowsConsistent
  BY DEF QInv, IInv
<1>2. /\ RecoveredJobs[j] = jobs[j] \/ RecoveredJobs[j].state = "queued"
      /\ RecoveredJobs[j].attemptCount = jobs[j].attemptCount
      /\ RecoveredJobs[j].readable = jobs[j].readable
      /\ RecoveredJobs[j] \in JobRow
  <2>1. RecoveredJobs[j] = jobs[j] \/ RecoveredJobs[j].state = "queued"
    BY <1>1, RecoveredColumns DEF RecoveredJobs
  <2>2. QED
    BY <1>1, <2>1, RecoveredColumns, RecoveryConsistent
<1>3. ASSUME NEW bad \in SUBSET Waiting, \A i \in bad : ~jobs[i].readable,
             jobs'[j] = Reject(bad, RecoveredJobs)[j]
      PROVE  jobs'[j] = jobs[j] \/ Promised(j)
  <2>1. CASE j \in bad
    <3>1. jobs'[j] = Malformed(RecoveredJobs[j]) /\ jobs[j].readable = FALSE
      BY <1>1, <1>3, <2>1 DEF Reject, TypeOK, JobRow
    <3>2. /\ Malformed(RecoveredJobs[j]).readable = RecoveredJobs[j].readable
          /\ Malformed(RecoveredJobs[j]).attemptCount = RecoveredJobs[j].attemptCount
      BY <1>2 DEF Malformed, JobRow
    <3>3. QED
      BY <1>2, <3>1, <3>2 DEF Promised
  <2>2. CASE j \notin bad
    BY <1>2, <1>3, <2>2 DEF Reject, Promised
  <2>3. QED
    BY <2>1, <2>2
<1>4. CASE Start(w)
  BY <1>2, <1>4 DEF Start, Promised
<1>5. CASE ClaimNothing(w)
  <2>1. PICK bad \in SUBSET Waiting : jobs' = Reject(bad, RecoveredJobs)
                                      /\ \A i \in bad : ~jobs[i].readable
    BY <1>5 DEF ClaimNothing
  <2>2. QED
    BY <1>3, <2>1
<1>6. ASSUME NEW i \in Job, ClaimJob(w, i)
      PROVE  jobs'[j] = jobs[j] \/ Promised(j)
  <2> DEFINE bad == {n \in Waiting : Older(n, i)}
  <2>1. /\ jobs' = [Reject(bad, RecoveredJobs) EXCEPT ![i] = Claimed(@, w)]
        /\ \A n \in bad : ~jobs[n].readable
        /\ bad \in SUBSET Waiting
    BY <1>6 DEF ClaimJob
  <2>2. i \notin bad
    BY <1>1 DEF Older, TypeOK, JobRow
  <2> HIDE DEF bad
  <2>3. CASE j = i
    <3>1. jobs'[j] = Claimed(RecoveredJobs[j], w)
      BY <2>1, <2>2, <2>3 DEF Reject
    <3>2. Claimed(RecoveredJobs[j], w).attemptCount = RecoveredJobs[j].attemptCount + 1
      BY <1>2 DEF Claimed, JobRow
    <3>3. QED
      BY <1>2, <3>1, <3>2 DEF Promised
  <2>4. CASE j # i
    <3>1. jobs'[j] = Reject(bad, RecoveredJobs)[j]
      BY <2>1, <2>4 DEF Reject
    <3>2. QED
      BY <1>3, <2>1, <3>1
  <2>5. QED
    BY <2>3, <2>4
<1>7. QED
  BY <1>4, <1>5, <1>6 DEF ClaimNext

LEMMA OwnersPromise ==
  ASSUME QInv, NEW w \in Worker, Processes(w), NEW j \in Job
  PROVE  jobs'[j] = jobs[j] \/ Promised(j)
<1> DEFINE i == worker[w].job
<1>1. TypeOK /\ \A n \in Job : jobs[n] \in JobRow
  BY DEF QInv, IInv, TypeOK
<1>2. CASE jobs' = jobs
  BY <1>2
<1>3. CASE jobs' # jobs
  <2>1. /\ RenewLease(w) \/ UpdatePhase(w) \/ Complete(w) \/ Settle(w)
        /\ i \in Job /\ jobs[i].state = "running"
    <3>1. RenewLease(w) \/ UpdatePhase(w) \/ Complete(w) \/ Settle(w)
      BY <1>3 DEF Processes, HeartbeatFails, ProcessorThrows, StoreRefuses, SettleThrows
    <3>2. worker[w].pc \in {"processing", "settling"} /\ Owned(w)
      BY <1>3, <3>1 DEF RenewLease, UpdatePhase, Complete, Settle
    <3>3. QED
      BY <3>1, <3>2, OwnedFacts DEF QInv
  <2>2. \A n \in Job \ {i} : jobs'[n] = jobs[n]
    BY <1>1, <1>3, <2>1 DEF RenewLease, UpdatePhase, Complete, Settle, TypeOK
  <2>3. PICK p \in Phase, how \in {"complete", "failed"}, again \in BOOLEAN :
          \/ jobs'[i] = Renewed(jobs[i])
          \/ jobs'[i] = [Renewed(jobs[i]) EXCEPT !.phase = p]
          \/ jobs'[i] = Finished(jobs[i], how, again)
          \/ jobs'[i] = Released(jobs[i])
    <3>1. CASE RenewLease(w)
      BY <1>1, <2>1, <3>1, RowConstants DEF RenewLease, TypeOK
    <3>2. CASE UpdatePhase(w)
      <4>1. NextPhase(worker[w].stage) \in Phase
        BY DEF NextPhase, Phase, ActivePhase
      <4>2. jobs'[i] = [Renewed(jobs[i]) EXCEPT !.phase = NextPhase(worker[w].stage)]
        BY <1>1, <2>1, <3>2 DEF UpdatePhase, TypeOK
      <4>3. QED
        BY <4>1, <4>2
    <3>3. CASE Complete(w)
      <4>1. jobs'[i] = Finished(jobs[i], "complete", FALSE)
        BY <1>1, <2>1, <3>3 DEF Complete, TypeOK
      <4>2. QED
        BY <4>1, RowConstants
    <3>4. CASE Settle(w)
      <4> DEFINE v == worker[w].verdict
                 again == v = "retryable"
      <4>1. jobs'[i] = Released(jobs[i]) \/ jobs'[i] = Finished(jobs[i], "failed", again)
        BY <1>1, <1>3, <2>1, <3>4 DEF Settle, TypeOK
      <4>2. again \in BOOLEAN
        OBVIOUS
      <4> HIDE DEF again
      <4>3. QED
        BY <4>1, <4>2, RowConstants
    <3>5. QED
      BY <2>1, <3>1, <3>2, <3>3, <3>4
  <2> HIDE DEF i
  <2>4. jobs[i] \in JobRow /\ jobs[i].state # "queued"
    BY <1>1, <2>1
  <2>5. /\ jobs'[i].attemptCount = jobs[i].attemptCount
        /\ jobs'[i].readable = jobs[i].readable
    BY <2>3, <2>4 DEF Renewed, Finished, Released, JobRow
  <2>6. QED
    BY <2>2, <2>4, <2>5 DEF Promised
<1>4. QED
  BY <1>2, <1>3

LEMMA EveryStepPromises == QInv /\ RetryNamesAnAttempt /\ [Next]_vars => RetryNamesAnAttempt'
<1> SUFFICES ASSUME QInv, RetryNamesAnAttempt, [Next]_vars
             PROVE  RetryNamesAnAttempt'
  OBVIOUS
<1>1. TypeOK
  BY DEF QInv, IInv
<1>2. ASSUME NEW w \in Worker, Start(w) \/ ClaimNext(w)
      PROVE  RetryNamesAnAttempt'
  <2>1. retries' = retries
    BY <1>2 DEF Start, ClaimNext
  <2>2. QED
    BY <1>1, <1>2, <2>1, ClaimsPromise, PromiseKept
<1>3. ASSUME NEW w \in Worker, Processes(w)
      PROVE  RetryNamesAnAttempt'
  <2>1. retries' = retries
    BY <1>3 DEF Processes, RenewLease, HeartbeatFails, UpdatePhase, Complete, ProcessorThrows,
       StoreRefuses, Settle, SettleThrows
  <2>2. QED
    BY <1>1, <1>3, <2>1, OwnersPromise, PromiseKept
<1>4. CASE \/ UNCHANGED vars
           \/ \E w \in Worker : Stop(w) \/ Exit(w) \/ Crash(w)
  BY <1>4 DEF vars, Stop, Exit, Crash, RetryNamesAnAttempt
<1>5. QED
  BY <1>2, <1>3, <1>4, RequestsPromise DEF Next

(* requestRetry records, with every accepted key, the attempt that answers  *)
(* it: one that exists, or the next one of a job that is in line for it.    *)
THEOREM RetryKeysNameAttempts == Spec => []RetryNamesAnAttempt
<1>1. Init => RetryNamesAnAttempt
  BY DEF Init, NoRow, RetryNamesAnAttempt
<1>2. QED
  BY <1>1, EveryStepPromises, QInvariance, PTL DEF Spec

-----------------------------------------------------------------------------
(* validateDatabase accepts the generation tables of a store at rest: every *)
(* readable job that neither waits nor runs has the history, the run and    *)
(* the publication that backup and restore ask for.                         *)
THEOREM QuietStoreIsBackedUp == Spec => []QuietJobsAreBackedUp
<1>1. ASSUME IInv
      PROVE  QuietJobsAreBackedUp
  <2> SUFFICES ASSUME \A j \in Job : /\ jobs[j].state \notin {"queued", "running"}
                                     /\ jobs[j].readable
               PROVE  BackupAcceptsJobs
    BY DEF QuietJobsAreBackedUp
  <2>1. ASSUME NEW j \in Job
        PROVE  /\ \A n \in 1..Len(attempts[j]) : attempts[j][n].outcome # "running"
               /\ jobs[j].state # "absent" => JobRowIsSound(j)
    <3>1. /\ Consistent(jobs[j], attempts[j], runs[j], episode[j])
          /\ jobs[j].state \in {"absent", "complete", "failed"}
          /\ jobs[j].readable = TRUE
      BY <1>1 DEF IInv, RowsConsistent, TypeOK, JobRow
    <3>2. /\ Len(attempts[j]) = jobs[j].attemptCount /\ jobs[j].attemptCount \in Nat
          /\ runs[j].status = jobs[j].phase
      BY <3>1 DEF Consistent, JobRow
    <3>3. ASSUME NEW n \in 1..Len(attempts[j])
          PROVE  attempts[j][n].outcome # "running"
      BY <3>1, <3>2 DEF Consistent, Ended
    <3>4. CASE jobs[j].state = "complete"
      BY <3>1, <3>2, <3>4 DEF Consistent, JobRowIsSound, EndedBy
    <3>5. CASE jobs[j].state = "failed"
      <4>1. /\ jobs[j].attemptCount \in 1..Len(attempts[j])
            /\ attempts[j][jobs[j].attemptCount].outcome = "failed"
            /\ jobs[j].finished
        BY <3>1, <3>2, <3>5 DEF Consistent
      <4>2. runs[j].status # "complete"
        BY <3>1, <3>2, <3>5 DEF Consistent
      <4>3. EndedBy(j, "failed")
        BY <4>1 DEF EndedBy
      <4>4. QED
        BY <3>2, <3>3, <3>5, <4>1, <4>2, <4>3 DEF JobRowIsSound
    <3>6. QED
      BY <3>1, <3>3, <3>4, <3>5
  <2>2. QED
    BY <2>1 DEF BackupAcceptsJobs, ActiveJobs
<1>2. QED
  BY <1>1, Invariance, PTL

=============================================================================
