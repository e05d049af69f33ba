----------------------------- MODULE ChatTurns -----------------------------
(***************************************************************************)
(* Follow-up chat of LocalCast: server/services/chatStore.ts (every method *)
(* is one SQLite IMMEDIATE transaction), the chat half of the worker       *)
(* processes (jobs/chatWorker.ts, jobs/chatProcessor.ts), the part of      *)
(* providers/openai.ts that records a provider call, and the triggers of   *)
(* migration 008 that the store's writes have to satisfy.                  *)
(*                                                                         *)
(* Idempotency keys are left out: a replayed key changes nothing, and a    *)
(* turn accepts one retry whatever its key.  Leases count down as in       *)
(* GenerationJobs.                                                         *)
(***************************************************************************)
EXTENDS Integers, Sequences

CONSTANTS
  Turn,        \* questions that listeners may ask
  Run,         \* episodes (briefing runs) they are asked about
  Fragile,     \* bound: the episodes that may stop being available
  Worker,      \* worker process incarnations, never reused
  NoTurn,      \* currentTurn is undefined
  NoRun,       \* run of a turn that does not exist yet
  NoWorker,    \* lease_owner IS NULL
  LeaseTicks,  \* LOCALCAST_LEASE_MS, in ticks of the clock
  MaxFaults    \* bound on crashes, stop signals and stalls longer than a lease

ASSUME ChatAssumption ==
  /\ LeaseTicks \in Nat \ {0}
  /\ MaxFaults \in Nat
  /\ Fragile \subseteq Run
  /\ NoTurn \notin Turn
  /\ NoRun \notin Run
  /\ NoWorker \notin Worker

VARIABLES
  turns,      \* table chat_turns
  attempts,   \* table chat_attempts: per turn, the rows by attempt number
  calls,      \* table chat_provider_calls: per turn, attempt and stage
  retried,    \* table chat_retry_requests has a row for the turn
  answer,     \* attempt whose claims are in chat_claims, 0 for none
  available,  \* the run is a completed, grounded episode
  working,    \* requests the external provider is executing
  worker,     \* memory of each worker process
  faults      \* faults used up, see MaxFaults

vars == <<turns, attempts, calls, retried, answer, available, working, worker, faults>>

-----------------------------------------------------------------------------
(* Types *)

MaximumAttempts == 2
AttemptNumber   == 1..MaximumAttempts
Stage           == {"draft", "support"}

(* safe_outcome of a finalized call; "rejected" stands for provider_rejected, *)
(* support_rejected and the invalid, empty and oversized responses.          *)
FinalOutcome == {"draft_refusal", "draft_answer_validated", "support_validated", "rejected"}
Unconfirmed  == {"reserved", "response_received", "ambiguous"}
CallStatus   == {"none"} \cup Unconfirmed \cup FinalOutcome

AttemptOutcome == {"running", "answered", "refused", "failed", "interrupted", "recovered"}

TurnRow == [
  state        : {"absent", "queued", "running", "answered", "refused", "failed"},
  run          : Run \cup {NoRun},
  order        : Nat,                    \* enqueue_order
  lock         : BOOLEAN,                \* episode_lock = 1
  attemptCount : 0..MaximumAttempts,
  owner        : Worker \cup {NoWorker},
  ttl          : 0..LeaseTicks,
  retryable    : BOOLEAN]

Attempt == [by : Worker, outcome : AttemptOutcome]
Call    == [status : CallStatus, by : Worker \cup {NoWorker}]
Request == [turn : Turn, attempt : AttemptNumber, stage : Stage]

(* After the claim a worker holds "claimed" (nothing reserved), "reserved"  *)
(* (a grant), "entered" (the grant is consumed), "waiting" (for the         *)
(* provider), "received" or the outcome it finalized.                       *)
InProcess == {"claimed", "reserved", "entered", "waiting", "received"} \cup FinalOutcome

WorkerState == [
  pc       : {"down", "idle", "settling", "exited", "failed", "killed"} \cup InProcess,
  turn     : Turn \cup {NoTurn},
  attempt  : 0..MaximumAttempts,         \* identity.attemptNumber
  stage    : Stage,
  aborted  : BOOLEAN,
  stopping : BOOLEAN,
  verdict  : {"nothing", "interrupt", "retryable", "final"}]

TypeOK ==
  /\ turns \in [Turn -> TurnRow]
  /\ attempts \in [Turn -> Seq(Attempt)]
  /\ calls \in [Turn -> [AttemptNumber -> [Stage -> Call]]]
  /\ retried \in [Turn -> BOOLEAN]
  /\ answer \in [Turn -> 0..MaximumAttempts]
  /\ available \in [Run -> BOOLEAN]
  /\ working \subseteq Request
  /\ worker \in [Worker -> WorkerState]
  /\ faults \in 0..MaxFaults

NoRow  == [state |-> "absent", run |-> NoRun, order |-> 0, lock |-> FALSE, attemptCount |-> 0,
           owner |-> NoWorker, ttl |-> 0, retryable |-> FALSE]
NoCall == [status |-> "none", by |-> NoWorker]

DownWorker == [pc |-> "down", turn |-> NoTurn, attempt |-> 0, stage |-> "draft",
               aborted |-> FALSE, stopping |-> FALSE, verdict |-> "nothing"]

Init ==
  /\ turns = [t \in Turn |-> NoRow]
  /\ attempts = [t \in Turn |-> <<>>]
  /\ calls = [t \in Turn |-> [n \in AttemptNumber |-> [s \in Stage |-> NoCall]]]
  /\ retried = [t \in Turn |-> FALSE]
  /\ answer = [t \in Turn |-> 0]
  /\ available = [r \in Run |-> TRUE]
  /\ working = {}
  /\ worker = [w \in Worker |-> DownWorker]
  /\ faults = 0

-----------------------------------------------------------------------------
(* What the transactions read and write *)

UnansweredOnly(t) ==                                      \* mutant: ambiguous counts as resolved
  \E s \in Stage :
    calls[t][turns[t].attemptCount][s].status \in {"reserved", "response_received"}
UsedThisTime(t) ==                                        \* mutant: earlier attempts not looked at
  \E s \in Stage, n \in AttemptNumber :
    n = turns[t].attemptCount /\ calls[t][n][s].status # "none"

(* hasUnresolvedProviderCall of the current attempt, hasProviderCallLifecycle. *)
Unresolved(t)   == \E s \in Stage : calls[t][turns[t].attemptCount][s].status \in Unconfirmed
UsedProvider(t) == \E n \in AttemptNumber, s \in Stage : calls[t][n][s].status # "none"

LockedElsewhere(r, t) == \E u \in Turn \ {t} : turns[u].run = r /\ turns[u].lock

(* requireOwnedRunningTurn, and isOwnedRunning in the catch block. *)
Owned(w) ==
  LET r == turns[worker[w].turn]
  IN  r.state = "running" /\ r.owner = w /\ r.ttl > 0

FailedAnyhow(t, again) ==                                 \* mutant: unconfirmed calls not looked at
  [turns[t] EXCEPT !.state = "failed", !.owner = NoWorker, !.ttl = 0, !.lock = UsedProvider(t),
                   !.retryable = again /\ turns[t].attemptCount < MaximumAttempts]

(* A turn that ends without publication keeps its episode locked once any   *)
(* provider call exists, and may be retried if all of them are finalized.   *)
FailedTurn(t, again) ==
  [turns[t] EXCEPT !.state = "failed", !.owner = NoWorker, !.ttl = 0, !.lock = UsedProvider(t),
                   !.retryable = /\ again /\ ~Unresolved(t)
                                 /\ turns[t].attemptCount < MaximumAttempts]

RejectedTurn(t) ==
  [turns[t] EXCEPT !.state = "failed", !.lock = UsedProvider(t), !.retryable = FALSE]

ClaimedTurn(t, w) ==
  [turns[t] EXCEPT !.state = "running", !.attemptCount = @ + 1, !.owner = w, !.ttl = LeaseTicks,
                   !.retryable = FALSE]

RenewedOnTop(r) == [r EXCEPT !.ttl = @ + LeaseTicks]      \* mutant
Renewed(r)      == [r EXCEPT !.ttl = LeaseTicks]

PublishedTurn(t, how) ==
  [turns[t] EXCEPT !.state = how, !.lock = FALSE, !.owner = NoWorker, !.ttl = 0,
                   !.retryable = FALSE]

Closed(t, how) ==
  LET n == turns[t].attemptCount
  IN  IF n \in 1..Len(attempts[t]) /\ attempts[t][n].outcome = "running"
      THEN [attempts[t] EXCEPT ![n].outcome = how]
      ELSE attempts[t]

-----------------------------------------------------------------------------
(* recoverStale: an expired attempt is never resumed, its turn fails. *)

Stale == {t \in Turn : turns[t].state = "running" /\ turns[t].ttl = 0}

AttemptsLeftOpen  == attempts                             \* mutant
RecoveredTurns    == [t \in Turn |-> IF t \in Stale THEN FailedTurn(t, TRUE) ELSE turns[t]]
RecoveredAttempts == [t \in Turn |-> IF t \in Stale THEN Closed(t, "recovered") ELSE attempts[t]]

-----------------------------------------------------------------------------
(* Requests to the API process *)

(* enqueue_order is MAX + 1; absent rows count as 0. *)
Enqueue(t, r) ==
  /\ turns[t].state = "absent"
  /\ ~LockedElsewhere(r, t)
  /\ available[r]
  /\ \E n \in {turns[u].order + 1 : u \in Turn} :
       /\ \A u \in Turn : turns[u].order < n
       /\ turns' = [turns EXCEPT ![t] = [NoRow EXCEPT !.state = "queued", !.run = r,
                                                      !.order = n, !.lock = TRUE]]
  /\ UNCHANGED <<attempts, calls, retried, answer, available, working, worker, faults>>

Retryable(t) == turns[t].state = "failed" /\ turns[t].retryable

Retry(t) ==
  /\ Retryable(t)
  /\ ~retried[t]
  /\ turns[t].attemptCount < MaximumAttempts
  /\ ~LockedElsewhere(turns[t].run, t)
  /\ ~Unresolved(t)
  /\ available[turns[t].run]
  /\ retried' = [retried EXCEPT ![t] = TRUE]
  /\ turns' = [turns EXCEPT ![t] = [@ EXCEPT !.state = "queued", !.lock = TRUE,
                                             !.retryable = FALSE]]
  /\ UNCHANGED <<attempts, calls, answer, available, working, worker, faults>>

-----------------------------------------------------------------------------
(* The worker loop *)

Start(w) ==
  /\ worker[w].pc = "down"
  /\ worker' = [worker EXCEPT ![w].pc = "idle"]
  /\ turns' = RecoveredTurns
  /\ attempts' = RecoveredAttempts
  /\ UNCHANGED <<calls, retried, answer, available, working, faults>>

Waiting == {t \in Turn : turns[t].state = "queued"}
Servable(t) == turns[t].attemptCount < MaximumAttempts /\ available[turns[t].run]
SlotTaken == \E t \in Turn \ Stale : turns[t].state = "running"

RejectingNone(bad) == RecoveredTurns                      \* mutant
Rejecting(bad) == [t \in Turn |-> IF t \in bad THEN RejectedTurn(t) ELSE RecoveredTurns[t]]

(* claimNext fails the turns in its way that have no attempt left or whose  *)
(* episode is no longer available, and claims the first other one.          *)
ClaimNothing(w) ==
  /\ SlotTaken \/ \A t \in Waiting : ~Servable(t)
  /\ turns' = Rejecting(IF SlotTaken THEN {} ELSE Waiting)
  /\ attempts' = RecoveredAttempts
  /\ UNCHANGED worker

ClaimTurn(w, t) ==
  LET bad == {u \in Waiting : turns[u].order < turns[t].order}
  IN  /\ ~SlotTaken
      /\ t \in Waiting /\ Servable(t)
      /\ \A u \in bad : ~Servable(u)
      /\ turns' = [Rejecting(bad) EXCEPT ![t] = ClaimedTurn(t, w)]
      /\ attempts' = [RecoveredAttempts EXCEPT ![t] = Append(@, [by |-> w, outcome |-> "running"])]
      /\ worker' = [worker EXCEPT ![w] = [@ EXCEPT !.pc = "claimed", !.turn = t,
                      !.attempt = turns[t].attemptCount + 1, !.stage = "draft",
                      !.aborted = FALSE]]

ClaimNext(w) ==
  /\ worker[w].pc = "idle" /\ ~worker[w].stopping
  /\ ClaimNothing(w) \/ \E t \in Turn : ClaimTurn(w, t)
  /\ UNCHANGED <<calls, retried, answer, available, working, faults>>

-----------------------------------------------------------------------------
(* One attempt: reserve a stage, enter it, send the request, record what    *)
(* came back, publish.  The event loop turns only while the worker waits.   *)

Mine(w)     == calls[worker[w].turn][worker[w].attempt]
Current(w)  == Mine(w)[worker[w].stage]
MyRequest(w) == [turn |-> worker[w].turn, attempt |-> worker[w].attempt,
                 stage |-> worker[w].stage]

Recorded(w, s, what) ==
  [calls EXCEPT ![worker[w].turn][worker[w].attempt][s] = [status |-> what, by |-> w]]

RenewLease(w) ==
  /\ worker[w].pc = "waiting" /\ Owned(w)
  /\ turns' = [turns EXCEPT ![worker[w].turn] = Renewed(@)]
  /\ UNCHANGED <<attempts, calls, retried, answer, available, working, worker, faults>>

HeartbeatFails(w) ==
  /\ worker[w].pc = "waiting" /\ ~Owned(w) /\ ~worker[w].aborted
  /\ worker' = [worker EXCEPT ![w].aborted = TRUE]
  /\ UNCHANGED <<turns, attempts, calls, retried, answer, available, working, faults>>

(* The draft needs an attempt without calls, the support an accepted draft; *)
(* with one row per stage the ceilings of 2 and 4 calls cannot be passed.   *)
ReserveProviderCall(w, s) ==
  /\ worker[w].pc = (IF s = "draft" THEN "claimed" ELSE "draft_answer_validated")
  /\ Owned(w)
  /\ \/ s = "draft" /\ \A u \in Stage : Mine(w)[u].status = "none"
     \/ /\ s = "support" /\ Mine(w)["support"].status = "none"
        /\ Mine(w)["draft"].status = "draft_answer_validated"
  /\ calls' = Recorded(w, s, "reserved")
  /\ worker' = [worker EXCEPT ![w].pc = "reserved", ![w].stage = s]
  /\ UNCHANGED <<turns, attempts, retried, answer, available, working, faults>>

(* The grant is checked against the database once, then consumed. *)
EnterStage(w) ==
  /\ worker[w].pc = "reserved"
  /\ Owned(w) /\ turns[worker[w].turn].attemptCount = worker[w].attempt
  /\ Current(w) = [status |-> "reserved", by |-> w]
  /\ worker' = [worker EXCEPT ![w].pc = "entered"]
  /\ UNCHANGED <<turns, attempts, calls, retried, answer, available, working, faults>>

SendRequest(w) ==
  /\ worker[w].pc = "entered" /\ ~worker[w].aborted
  /\ working' = working \cup {MyRequest(w)}
  /\ worker' = [worker EXCEPT ![w].pc = "waiting"]
  /\ UNCHANGED <<turns, attempts, calls, retried, answer, available, faults>>

(* recordProviderCallEvent writes only for the owner of the current attempt. *)
MayRecord(w, from) ==
  /\ Owned(w) /\ turns[worker[w].turn].attemptCount = worker[w].attempt
  /\ Current(w) = [status |-> from, by |-> w]

ReceiveResponse(w) ==
  /\ worker[w].pc = "waiting" /\ MyRequest(w) \notin working
  /\ MayRecord(w, "reserved")
  /\ calls' = Recorded(w, worker[w].stage, "response_received")
  /\ worker' = [worker EXCEPT ![w].pc = "received"]
  /\ UNCHANGED <<turns, attempts, retried, answer, available, working, faults>>

StageOutcomes(s) ==
  IF s = "draft" THEN {"draft_refusal", "draft_answer_validated", "rejected"}
                 ELSE {"support_validated", "rejected"}

FinalizeCall(w, outcome) ==
  /\ worker[w].pc = "received" /\ outcome \in StageOutcomes(worker[w].stage)
  /\ MayRecord(w, "response_received")
  /\ calls' = Recorded(w, worker[w].stage, outcome)
  /\ worker' = [worker EXCEPT ![w].pc = outcome]
  /\ UNCHANGED <<turns, attempts, retried, answer, available, working, faults>>

Idle(w) == [worker EXCEPT ![w] = [@ EXCEPT !.pc = "idle", !.turn = NoTurn, !.attempt = 0,
              !.stage = "draft", !.aborted = FALSE, !.verdict = "nothing"]]

(* assertProviderCallsReadyForPublication, for an answer and a refusal. *)
ReadyToAnswer(w) ==
  Mine(w) = [s \in Stage |-> [by |-> w, status |-> IF s = "draft" THEN "draft_answer_validated"
                                                                  ELSE "support_validated"]]
ReadyToRefuse(w) ==
  Mine(w) = [s \in Stage |-> IF s = "draft" THEN [status |-> "draft_refusal", by |-> w]
                                            ELSE NoCall]

Publish(w, how, claims) ==
  LET t == worker[w].turn
  IN  /\ Owned(w)
      /\ turns' = [turns EXCEPT ![t] = PublishedTurn(t, how)]
      /\ attempts' = [attempts EXCEPT ![t] = Closed(t, how)]
      /\ answer' = [answer EXCEPT ![t] = claims]
      /\ worker' = Idle(w)
      /\ UNCHANGED <<calls, retried, available, working, faults>>

AnswerUnsupported(w) ==                                   \* mutant: the support call is not required
  /\ worker[w].pc \in {"draft_answer_validated", "support_validated"}
  /\ Publish(w, "answered", worker[w].attempt)

CompleteAnswer(w) ==
  /\ worker[w].pc = "support_validated" /\ ReadyToAnswer(w)
  /\ Publish(w, "answered", worker[w].attempt)

CompleteRefusal(w) ==
  /\ worker[w].pc = "draft_refusal" /\ ReadyToRefuse(w)
  /\ Publish(w, "refused", 0)

-----------------------------------------------------------------------------
(* Errors *)

(* The catch block first asks whether the turn is still owned. *)
Caught(w, how) ==
  worker' = [worker EXCEPT ![w].pc = "settling",
               ![w].verdict = IF ~Owned(w) THEN "nothing"
                              ELSE IF worker[w].aborted THEN "interrupt"
                              ELSE how]

(* Time limit, network failure or cancellation: the call is ambiguous. *)
RequestFails(w, how) ==
  /\ worker[w].pc = "waiting" /\ MayRecord(w, "reserved")
  /\ calls' = Recorded(w, worker[w].stage, "ambiguous")
  /\ Caught(w, how)
  /\ UNCHANGED <<turns, attempts, retried, answer, available, working, faults>>

(* The evidence or the credential is refused before any call, the request   *)
(* is too large or already aborted after the stage was entered, or the      *)
(* finalized outcome is a rejection.                                        *)
ProcessorThrows(w, how) ==
  /\ worker[w].pc \in {"claimed", "entered", "rejected"}
  /\ Caught(w, how)
  /\ UNCHANGED <<turns, attempts, calls, retried, answer, available, working, faults>>

StoreRefuses(w) ==
  /\ worker[w].pc \in {"claimed", "reserved", "waiting", "received", "draft_refusal",
                       "draft_answer_validated", "support_validated"}
  /\ ~Owned(w)
  /\ Caught(w, "final")
  /\ UNCHANGED <<turns, attempts, calls, retried, answer, available, working, faults>>

Settle(w) ==
  /\ worker[w].pc = "settling" /\ (worker[w].verdict = "nothing" \/ Owned(w))
  /\ LET t == worker[w].turn
         v == worker[w].verdict
     IN  IF v = "nothing" THEN UNCHANGED <<turns, attempts>>
         ELSE /\ turns' = [turns EXCEPT ![t] = FailedTurn(t, v # "final")]
              /\ attempts' = [attempts EXCEPT ![t] =
                                Closed(t, IF v = "interrupt" THEN "interrupted" ELSE "failed")]
  /\ worker' = Idle(w)
  /\ UNCHANGED <<calls, retried, answer, available, working, faults>>

SettleThrows(w) ==
  /\ worker[w].pc = "settling" /\ worker[w].verdict # "nothing" /\ ~Owned(w)
  /\ worker' = [Idle(w) EXCEPT ![w].pc = "failed"]
  /\ UNCHANGED <<turns, attempts, calls, retried, answer, available, working, faults>>

-----------------------------------------------------------------------------
(* Stop signals, crashes, the clock, the provider *)

Alive(w) == worker[w].pc \in {"idle", "settling"} \cup InProcess

Stop(w) ==
  /\ worker[w].pc \in {"idle", "waiting"} /\ ~worker[w].stopping
  /\ faults < MaxFaults /\ faults' = faults + 1
  /\ worker' = [worker EXCEPT ![w].stopping = TRUE, ![w].aborted = (worker[w].pc = "waiting")]
  /\ UNCHANGED <<turns, attempts, calls, retried, answer, available, working>>

Exit(w) ==
  /\ worker[w].pc = "idle" /\ worker[w].stopping
  /\ worker' = [worker EXCEPT ![w].pc = "exited"]
  /\ UNCHANGED <<turns, attempts, calls, retried, answer, available, working, faults>>

Crash(w) ==
  /\ Alive(w)
  /\ faults < MaxFaults /\ faults' = faults + 1
  /\ worker' = [Idle(w) EXCEPT ![w].pc = "killed"]
  /\ UNCHANGED <<turns, attempts, calls, retried, answer, available, working>>

Leased  == {t \in Turn : turns[t].state = "running" /\ turns[t].ttl > 0}
Stalled == {t \in Leased : turns[t].ttl = 1 /\ \E w \in Worker : turns[t].owner = w /\ Alive(w)}

Tick ==
  /\ Leased # {}
  /\ turns' = [t \in Turn |-> IF t \in Leased THEN [turns[t] EXCEPT !.ttl = @ - 1] ELSE turns[t]]
  /\ IF Stalled = {} THEN faults' = faults
                     ELSE faults < MaxFaults /\ faults' = faults + 1
  /\ UNCHANGED <<attempts, calls, retried, answer, available, working, worker>>

(* The provider ends a request, whether or not anybody still waits for it.  *)
ProviderEnds(q) ==
  /\ q \in working
  /\ working' = working \ {q}
  /\ UNCHANGED <<turns, attempts, calls, retried, answer, available, worker, faults>>

(* An episode stops being complete or grounded. *)
Withdraw(r) ==
  /\ r \in Fragile /\ available[r]
  /\ available' = [available EXCEPT ![r] = FALSE]
  /\ UNCHANGED <<turns, attempts, calls, retried, answer, working, worker, faults>>

-----------------------------------------------------------------------------
Processes(w) ==
  \/ RenewLease(w) \/ HeartbeatFails(w)
  \/ (\E s \in Stage : ReserveProviderCall(w, s)) \/ EnterStage(w) \/ SendRequest(w)
  \/ ReceiveResponse(w) \/ (\E o \in FinalOutcome : FinalizeCall(w, o))
  \/ CompleteAnswer(w) \/ CompleteRefusal(w)

Errs(w) ==
  \/ (\E how \in {"retryable", "final"} : RequestFails(w, how) \/ ProcessorThrows(w, how))
  \/ StoreRefuses(w) \/ Settle(w) \/ SettleThrows(w)

Next ==
  \/ \E t \in Turn : Retry(t) \/ \E r \in Run : Enqueue(t, r)
  \/ \E w \in Worker : \/ Start(w) \/ ClaimNext(w) \/ Processes(w) \/ Errs(w)
                       \/ Stop(w) \/ Exit(w) \/ Crash(w)
  \/ \E q \in working : ProviderEnds(q)
  \/ \E r \in Run : Withdraw(r)
  \/ Tick

Spec == Init /\ [][Next]_vars

(* Workers are restarted by Compose and keep polling; a request ends by an  *)
(* answer or by its own time limit; the code between two awaits runs on;    *)
(* the heartbeat fires and time passes.                                     *)
Fairness ==
  /\ WF_vars(\E w \in Worker : Start(w))
  /\ WF_vars(Tick)
  /\ \A w \in Worker :
       /\ WF_vars(ClaimNext(w) \/ Settle(w) \/ SettleThrows(w) \/ Exit(w))
       /\ WF_vars(RenewLease(w))
       /\ WF_vars(\/ \E s \in Stage : ReserveProviderCall(w, s)
                  \/ EnterStage(w) \/ SendRequest(w)
                  \/ \E o \in FinalOutcome : FinalizeCall(w, o)
                  \/ CompleteAnswer(w) \/ CompleteRefusal(w) \/ StoreRefuses(w)
                  \/ \E how \in {"retryable", "final"} :
                       RequestFails(w, how) \/ ProcessorThrows(w, how))

FairSpec == Spec /\ Fairness

-----------------------------------------------------------------------------
(* Properties *)

(* LocalCast never has two requests of one episode executing at the        *)
(* external provider, although requests outlive the worker that sent them,  *)
(* leases expire under live workers and users retry: "another call could    *)
(* overlap" is why unconfirmed outcomes are final (DECISIONS.md D-035).     *)
OneRequestPerEpisode ==
  \A p, q \in working : turns[p.turn].run = turns[q.turn].run => p = q

(* An answer is published only by the attempt, and the worker, whose draft  *)
(* and support calls were both accepted, a refusal only by the one whose    *)
(* only call ended in a refusal; no other turn shows claims.                *)
PublicationIsValidated ==
  \A t \in Turn :
    LET n  == turns[t].attemptCount
        by == attempts[t][n].by
    IN  /\ turns[t].state = "answered" =>
             /\ answer[t] = n
             /\ calls[t][n]["draft"]   = [status |-> "draft_answer_validated", by |-> by]
             /\ calls[t][n]["support"] = [status |-> "support_validated", by |-> by]
        /\ turns[t].state = "refused" =>
             /\ calls[t][n]["draft"] = [status |-> "draft_refusal", by |-> by]
             /\ calls[t][n]["support"].status = "none"
        /\ turns[t].state # "answered" => answer[t] = 0

(* The attempts agree with the turn through every claim, recovery, stop and *)
(* retry: no attempt is missing, only a running turn has an open one and    *)
(* its worker owns the lease, a settled turn ends like its last attempt.    *)
HistoryMatchesTurn ==
  \A t \in Turn :
    LET n == turns[t].attemptCount
    IN  /\ Len(attempts[t]) = n
        /\ n = 2 => attempts[t][1].outcome \in {"failed", "interrupted", "recovered"}
        /\ turns[t].state = "running" =>
             n > 0 /\ attempts[t][n] = [by |-> turns[t].owner, outcome |-> "running"]
        /\ turns[t].state \in {"answered", "refused"} =>
             n > 0 /\ attempts[t][n].outcome = turns[t].state
        /\ turns[t].state \in {"absent", "queued", "failed"} /\ n > 0 =>
             attempts[t][n].outcome \in {"failed", "interrupted", "recovered"}

(* A second attempt takes a user's retry, and that retry is offered and     *)
(* accepted only when every call of the first attempt is finalized.  A      *)
(* worker that still holds a grant of the first attempt can change nothing. *)
RetryIsSafe ==
  \A t \in Turn :
    /\ turns[t].attemptCount = 2 => retried[t]
    /\ turns[t].retryable =>
         turns[t].state = "failed" /\ turns[t].attemptCount = 1 /\ ~retried[t]
    /\ retried[t] => turns[t].attemptCount = 2 \/ turns[t].state \in {"queued", "failed"}
    /\ retried[t] \/ turns[t].retryable =>
         \A s \in Stage : calls[t][1][s].status \notin Unconfirmed

(* Every question a listener asked is eventually answered, refused or       *)
(* failed, whatever happens to the workers and the provider.                *)
EveryTurnSettles ==
  \A t \in Turn :
    turns[t].state \in {"queued", "running"} ~> turns[t].state \in {"answered", "refused", "failed"}
=============================================================================
