----------------------------- MODULE JobsBackup -----------------------------
(***************************************************************************)
(* What the backup and restore commands demand of the generation tables    *)
(* (validateDatabase in server/operations/backupRestore.ts).               *)
(***************************************************************************)
EXTENDS GenerationJobs

ActiveJobs ==
  \E j \in Job :
    \/ jobs[j].state \in {"queued", "running"}
    \/ \E n \in 1..Len(attempts[j]) : attempts[j][n].outcome = "running"

EndedBy(j, how) ==
  \E n \in 1..Len(attempts[j]) : n = jobs[j].attemptCount /\ attempts[j][n].outcome = how

(* The relationship query over generation_jobs and generation_attempts, for *)
(* one row that is no longer active, and the publication of its run.        *)
JobRowIsSound(j) ==
  /\ jobs[j].attemptCount = Len(attempts[j])
  /\ jobs[j].finished
  /\ jobs[j].state = "complete" => EndedBy(j, "complete")
  /\ jobs[j].state = "failed" => EndedBy(j, "failed")
  /\ runs[j].status = "complete" => episode[j] # 0

BackupAcceptsJobs ==
  ~ActiveJobs /\ \A j \in Job : jobs[j].state # "absent" => JobRowIsSound(j)

(* Once no job waits or runs, a backup can be taken, whatever crashes,      *)
(* recoveries, retries and shutdowns came before: README.md's "stop all     *)
(* writers and verify quiescence" is enough.  Damaged rows are excepted, an *)
(* unreadable job fails without a failed attempt.                           *)
QuietJobsAreBackedUp ==
  (\A j \in Job : jobs[j].state \notin {"queued", "running"} /\ jobs[j].readable)
    => BackupAcceptsJobs
=============================================================================
