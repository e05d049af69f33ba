----------------------------- MODULE ChatSchema -----------------------------
(***************************************************************************)
(* The rules that migration 008 puts on every write to the chat tables as  *)
(* triggers, unique indexes and checks (server/database/migrations.ts),    *)
(* stated over the row before and after a step of ChatTurns.  The store    *)
(* was written against them but repeats them in its own words: a write     *)
(* that it allows and a trigger aborts would surface as a failed request   *)
(* or a worker that dies.                                                  *)
(***************************************************************************)
EXTENDS ChatTurns

(* The current attempt is the running one of the lease owner. *)
LeasedAttempt(t, n, w) ==
  /\ turns[t].state = "running" /\ turns[t].lock
  /\ turns[t].attemptCount = n
  /\ turns[t].owner = w /\ turns[t].ttl > 0
  /\ n \in 1..Len(attempts[t]) /\ attempts[t][n] = [by |-> w, outcome |-> "running"]

(* chat_turns_safe_episode_release, a failure that never used the provider. *)
ReleasedUnused(t) ==
  /\ turns'[t].state = "failed"
  /\ turns'[t].owner = NoWorker
  /\ \A n \in AttemptNumber, s \in Stage : calls[t][n][s].status = "none"

(* ... and a publication by the current attempt. *)
ReleasedByPublication(t) ==
  LET n == turns[t].attemptCount
      w == turns[t].owner
  IN  /\ n \in AttemptNumber /\ LeasedAttempt(t, n, w)
      /\ turns'[t].attemptCount = n /\ turns'[t].owner = NoWorker /\ ~turns'[t].retryable
      /\ Len(attempts[t]) = n
      /\ \A m \in 1..(n - 1), s \in Stage : calls[t][m][s].status \notin Unconfirmed
      /\ n = 1 \/ /\ retried[t]
                  /\ attempts[t][1].outcome \in {"failed", "interrupted", "recovered"}
      /\ \/ /\ turns'[t].state = "answered" /\ answer'[t] # 0
            /\ calls[t][n]["draft"] = [status |-> "draft_answer_validated", by |-> w]
            /\ calls[t][n]["support"] = [status |-> "support_validated", by |-> w]
         \/ /\ turns'[t].state = "refused" /\ answer'[t] = 0
            /\ calls[t][n]["draft"] = [status |-> "draft_refusal", by |-> w]
            /\ calls[t][n]["support"].status = "none"

(* The two partial unique indexes, checked against the other rows. *)
NoOtherRow(t) ==
  \A u \in Turn \ {t} :
    /\ ~(turns'[t].state = "running" /\ turns'[u].state = "running")
    /\ ~(turns'[t].lock /\ turns'[u].lock /\ turns'[u].run = turns'[t].run)

TurnInserted(t) ==
  /\ turns'[t].state = "queued" /\ turns'[t].lock
  /\ \A u \in Turn \ {t} : turns'[u].order # turns'[t].order
  /\ NoOtherRow(t)

TurnUpdated(t) ==
  /\ turns'[t].run = turns[t].run /\ turns'[t].order = turns[t].order
  /\ NoOtherRow(t)
  /\ turns'[t].state \in {"queued", "running"} => turns'[t].lock
  /\ turns'[t].state \in {"answered", "refused"} => ~turns'[t].lock
  /\ turns'[t].lock \/ ReleasedUnused(t) \/ ReleasedByPublication(t)

(* chat_attempts_monotonic_outcome and chat_attempts_identity_immutable. *)
AttemptUpdated(t, n) ==
  LET old == attempts[t][n]
      new == attempts'[t][n]
  IN  /\ new.by = old.by
      /\ old.outcome = "running" /\ new.outcome # "running"
      /\ new.outcome \in {"answered", "refused"} =>
           /\ turns'[t].attemptCount = n
           /\ turns'[t].state = new.outcome
           /\ ~turns'[t].lock

(* chat_provider_calls_begin_reserved and ..._require_episode_lock. *)
CallInserted(t, n, s) ==
  LET new == calls'[t][n][s]
  IN  /\ new.status = "reserved"
      /\ LeasedAttempt(t, n, new.by)
      /\ \/ s = "draft" /\ \A u \in Stage : calls[t][n][u].status = "none"
         \/ /\ s = "support"
            /\ calls[t][n]["draft"] = [status |-> "draft_answer_validated", by |-> new.by]

(* chat_provider_calls_monotonic_transition and ..._identity_immutable. *)
CallUpdated(t, n, s) ==
  LET old == calls[t][n][s]
      new == calls'[t][n][s]
  IN  /\ new.by = old.by
      /\ LeasedAttempt(t, n, new.by)
      /\ \/ old.status = "reserved" /\ new.status \in {"response_received", "ambiguous"}
         \/ old.status = "response_received" /\ new.status \in FinalOutcome

(* Every write the store makes is one the database accepts: no interleaving *)
(* of claims, recoveries, retries, provider events and publications ends in *)
(* a trigger abort or a unique index violation.                             *)
SchemaAcceptsEveryWrite ==
  [][\A t \in Turn :
       /\ turns'[t] # turns[t] =>
            IF turns[t].state = "absent" THEN TurnInserted(t) ELSE TurnUpdated(t)
       /\ \A n \in 1..Len(attempts[t]) :
            attempts'[t][n] # attempts[t][n] => AttemptUpdated(t, n)
       /\ \A n \in AttemptNumber, s \in Stage :
            calls'[t][n][s] # calls[t][n][s] =>
              IF calls[t][n][s].status = "none" THEN CallInserted(t, n, s)
                                                ELSE CallUpdated(t, n, s)]_vars
=============================================================================
