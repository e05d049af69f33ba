-------------------------- MODULE ChatTurns_proofs --------------------------
(***************************************************************************)
(* Proofs about ChatTurns and ChatSchema for any sets of turns, episodes   *)
(* and workers, any lease and any number of faults.                        *)
(*                                                                         *)
(* What the five tables hold of one turn is related by Consistent.  Every  *)
(* action changes a turn by one of the row transitions below or not at     *)
(* all; each transition preserves Consistent and satisfies the rules of    *)
(* migration 008.  The inductive invariant adds what relates the turns to  *)
(* each other, to the workers and to the requests at the provider.         *)
(***************************************************************************)
EXTENDS ChatSchema, SequenceTheorems, TLAPS

-----------------------------------------------------------------------------
(* The rows of one turn: r, h, c, y, a stand for turns[t], attempts[t],     *)
(* calls[t], retried[t] and answer[t].                                      *)

Ended     == {"failed", "interrupted", "recovered"}
Grid      == [AttemptNumber -> [Stage -> Call]]
Used(c)   == \E n \in AttemptNumber, s \in Stage : c[n][s].status # "none"
Open(c, n) == \E s \in Stage : c[n][s].status \in Unconfirmed

RowMatchesHistory(r, h) ==
  /\ Len(h) = r.attemptCount
  /\ r.attemptCount = 2 => h[1].outcome \in Ended
  /\ r.state = "running" =>
       /\ r.attemptCount > 0 /\ r.owner \in Worker
       /\ h[r.attemptCount].by = r.owner /\ h[r.attemptCount].outcome = "running"
  /\ r.state # "running" => r.owner = NoWorker
  /\ r.state \in {"answered", "refused"} =>
       r.attemptCount > 0 /\ h[r.attemptCount].outcome = r.state
  /\ r.state \in {"queued", "failed"} /\ r.attemptCount > 0 =>
       h[r.attemptCount].outcome \in Ended
  /\ r.state = "absent" => r.attemptCount = 0

CallsMatchHistory(r, h, c) ==
  \A n \in AttemptNumber :
    /\ \A s \in Stage :
         /\ c[n][s].status = "none" => c[n][s].by = NoWorker
         /\ c[n][s].status # "none" => n <= r.attemptCount /\ c[n][s].by = h[n].by
    /\ c[n]["support"].status # "none" => c[n]["draft"].status = "draft_answer_validated"

RowMatchesCalls(r, c) ==
  /\ r.state \in {"queued", "running"} => r.lock = TRUE
  /\ r.state \in {"absent", "answered", "refused"} => r.lock = FALSE
  /\ r.state = "failed" => ((r.lock = TRUE) <=> Used(c))

RetryRules(r, c, y) ==
  /\ r.attemptCount = 2 => y = TRUE
  /\ r.retryable = TRUE => r.state = "failed" /\ r.attemptCount = 1 /\ y = FALSE
  /\ y = TRUE => r.attemptCount = 2 \/ (r.attemptCount = 1 /\ r.state \in {"queued", "failed"})
  /\ r.state = "queued" /\ r.attemptCount = 1 => y = TRUE
  /\ y = TRUE \/ r.retryable = TRUE => ~Open(c, 1)

PublicationRules(r, c, a) ==
  /\ r.state = "answered" =>
       /\ a = r.attemptCount
       /\ c[r.attemptCount]["draft"].status = "draft_answer_validated"
       /\ c[r.attemptCount]["support"].status = "support_validated"
  /\ r.state = "refused" =>
       /\ c[r.attemptCount]["draft"].status = "draft_refusal"
       /\ c[r.attemptCount]["support"].status = "none"
  /\ r.state # "answered" => a = 0

Typed(r, h, c, y, a) ==
  r \in TurnRow /\ h \in Seq(Attempt) /\ c \in Grid /\ y \in BOOLEAN /\ a \in 0..MaximumAttempts

Consistent(r, h, c, y, a) ==
  /\ Typed(r, h, c, y, a)
  /\ RowMatchesHistory(r, h)
  /\ CallsMatchHistory(r, h, c)
  /\ RowMatchesCalls(r, c)
  /\ RetryRules(r, c, y)
  /\ PublicationRules(r, c, a)

-----------------------------------------------------------------------------
(* The transitions of a turn, from r, h, c to q, g, d. *)

SameTurn(r, q) == q.run = r.run /\ q.order = r.order

(* What closing the current attempt does to a history. *)
ClosesAs(h, g, n, how) ==
  /\ g \in Seq(Attempt) /\ Len(g) = Len(h)
  /\ \A i \in 1..Len(h) :
       IF i = n /\ h[i].outcome = "running"
       THEN g[i].by = h[i].by /\ g[i].outcome = how
       ELSE g[i] = h[i]

AskStep(r, q) ==
  /\ r.state = "absent"
  /\ q.state = "queued" /\ q.lock = TRUE /\ q.attemptCount = 0
  /\ q.owner = NoWorker /\ q.retryable = FALSE

RetryStep(r, c, q) ==
  /\ r.state = "failed" /\ r.retryable = TRUE
  /\ SameTurn(r, q)
  /\ q.state = "queued" /\ q.lock = TRUE /\ q.attemptCount = r.attemptCount
  /\ q.owner = r.owner /\ q.retryable = FALSE

FailStep(r, h, c, q, g, how) ==
  /\ r.state = "running" /\ how \in Ended
  /\ SameTurn(r, q)
  /\ q.state = "failed" /\ q.owner = NoWorker /\ q.attemptCount = r.attemptCount
  /\ (q.lock = TRUE) <=> Used(c)
  /\ q.retryable = TRUE => ~Open(c, r.attemptCount) /\ r.attemptCount < MaximumAttempts
  /\ ClosesAs(h, g, r.attemptCount, how)

RejectStep(r, c, q) ==
  /\ r.state = "queued"
  /\ SameTurn(r, q)
  /\ q.state = "failed" /\ q.owner = r.owner /\ q.attemptCount = r.attemptCount
  /\ (q.lock = TRUE) <=> Used(c)
  /\ q.retryable = FALSE

ClaimStep(r, h, q, g, w) ==
  /\ r.state = "queued" /\ r.attemptCount < MaximumAttempts /\ w \in Worker
  /\ SameTurn(r, q)
  /\ q.state = "running" /\ q.owner = w /\ q.attemptCount = r.attemptCount + 1
  /\ q.lock = r.lock /\ q.retryable = FALSE
  /\ g = Append(h, [by |-> w, outcome |-> "running"])

LeaseStep(r, q) ==
  /\ r.state = "running"
  /\ SameTurn(r, q)
  /\ q.state = r.state /\ q.owner = r.owner /\ q.attemptCount = r.attemptCount
  /\ q.lock = r.lock /\ q.retryable = r.retryable

(* How the status of a stage may go on, the way migration 008 puts it. *)
Follows(c, n, s, to) ==
  \/ /\ to = "reserved" /\ c[n][s].status = "none"
     /\ \/ s = "draft" /\ \A u \in Stage : c[n][u].status = "none"
        \/ s = "support" /\ c[n]["draft"].status = "draft_answer_validated"
  \/ /\ c[n][s].status = "reserved" /\ to \in {"response_received", "ambiguous"}
  \/ /\ c[n][s].status = "response_received" /\ to \in FinalOutcome

CallStep(r, c, d, w, s, to) ==
  /\ r.state = "running" /\ r.owner = w /\ r.ttl > 0 /\ w \in Worker /\ s \in Stage
  /\ Follows(c, r.attemptCount, s, to)
  /\ d = [c EXCEPT ![r.attemptCount][s] = [status |-> to, by |-> w]]

PublishStep(r, h, c, q, g, b, how) ==
  /\ r.state = "running" /\ r.ttl > 0
  /\ SameTurn(r, q)
  /\ q.state = how /\ q.owner = NoWorker /\ q.attemptCount = r.attemptCount
  /\ q.lock = FALSE /\ q.retryable = FALSE
  /\ ClosesAs(h, g, r.attemptCount, how)
  /\ \/ /\ how = "answered" /\ b = r.attemptCount
        /\ c[r.attemptCount]["draft"].status = "draft_answer_validated"
        /\ c[r.attemptCount]["support"].status = "support_validated"
     \/ /\ how = "refused" /\ b = 0
        /\ c[r.attemptCount]["draft"].status = "draft_refusal"
        /\ c[r.attemptCount]["support"].status = "none"

-----------------------------------------------------------------------------
(* Each transition preserves Consistent. *)

LEMMA TypeFacts ==
  /\ AttemptNumber = {1, 2} /\ MaximumAttempts = 2 /\ Stage = {"draft", "support"}
  /\ Ended \subseteq AttemptOutcome /\ {"running", "answered", "refused"} \subseteq AttemptOutcome
  /\ Ended \cap {"running", "answered", "refused"} = {}
  /\ Unconfirmed \cap FinalOutcome = {} /\ "none" \notin Unconfirmed \cup FinalOutcome
  /\ LeaseTicks \in 0..LeaseTicks /\ 0 \in 0..LeaseTicks
BY ChatAssumption DEF AttemptNumber, MaximumAttempts, Stage, Ended, AttemptOutcome,
                      Unconfirmed, FinalOutcome

LEMMA RowFields ==
  ASSUME NEW r \in TurnRow
  PROVE  /\ r.attemptCount \in {0, 1, 2} /\ r.owner \in Worker \cup {NoWorker}
         /\ r.lock \in BOOLEAN /\ r.retryable \in BOOLEAN
         /\ r.state \in {"absent", "queued", "running", "answered", "refused", "failed"}
BY DEF TurnRow, MaximumAttempts

LEMMA AskKeeps ==
  ASSUME NEW r, NEW h, NEW c, NEW y, NEW a, NEW q,
         Consistent(r, h, c, y, a), q \in TurnRow, AskStep(r, q)
  PROVE  Consistent(q, h, c, y, a)
<1> USE TypeFacts, RowFields
<1>1. r \in TurnRow
  BY DEF Consistent, Typed
<1>2. Typed(q, h, c, y, a)
  BY DEF Consistent, Typed
<1>3. RowMatchesHistory(q, h)
  BY <1>1 DEF Consistent, RowMatchesHistory, AskStep
<1>4. CallsMatchHistory(q, h, c)
  BY <1>1 DEF Consistent, RowMatchesHistory, CallsMatchHistory, AskStep
<1>5. RowMatchesCalls(q, c) /\ PublicationRules(q, c, a)
  BY <1>1 DEF Consistent, RowMatchesCalls, PublicationRules, AskStep
<1>6. RetryRules(q, c, y)
  BY <1>1 DEF Consistent, Typed, RowMatchesHistory, RetryRules, AskStep
<1>7. QED
  BY <1>2, <1>3, <1>4, <1>5, <1>6 DEF Consistent

LEMMA RetryKeeps ==
  ASSUME NEW r, NEW h, NEW c, NEW y, NEW a, NEW q, NEW z,
         Consistent(r, h, c, y, a), q \in TurnRow, RetryStep(r, c, q), z \in BOOLEAN, z
  PROVE  Consistent(q, h, c, z, a)
<1> USE TypeFacts, RowFields
<1>1. r \in TurnRow
  BY DEF Consistent, Typed
<1>2. Typed(q, h, c, z, a)
  BY DEF Consistent, Typed
<1>3. RowMatchesHistory(q, h)
  BY <1>1 DEF Consistent, RowMatchesHistory, RetryStep
<1>4. CallsMatchHistory(q, h, c)
  BY <1>1 DEF Consistent, CallsMatchHistory, RetryStep
<1>5. RowMatchesCalls(q, c) /\ PublicationRules(q, c, a)
  BY <1>1 DEF Consistent, RowMatchesCalls, PublicationRules, RetryStep
<1>6. RetryRules(q, c, z)
  BY <1>1 DEF Consistent, RetryRules, RetryStep
<1>7. QED
  BY <1>2, <1>3, <1>4, <1>5, <1>6 DEF Consistent

LEMMA RejectKeeps ==
  ASSUME NEW r, NEW h, NEW c, NEW y, NEW a, NEW q,
         Consistent(r, h, c, y, a), q \in TurnRow, RejectStep(r, c, q)
  PROVE  Consistent(q, h, c, y, a)
<1> USE TypeFacts, RowFields
<1>1. r \in TurnRow
  BY DEF Consistent, Typed
<1>2. Typed(q, h, c, y, a)
  BY DEF Consistent, Typed
<1>3. RowMatchesHistory(q, h)
  BY <1>1 DEF Consistent, RowMatchesHistory, RejectStep
<1>4. CallsMatchHistory(q, h, c)
  BY <1>1 DEF Consistent, CallsMatchHistory, RejectStep
<1>5. RowMatchesCalls(q, c) /\ PublicationRules(q, c, a)
  BY <1>1 DEF Consistent, RowMatchesCalls, PublicationRules, RejectStep
<1>6. RetryRules(q, c, y)
  BY <1>1 DEF Consistent, RetryRules, RejectStep
<1>7. QED
  BY <1>2, <1>3, <1>4, <1>5, <1>6 DEF Consistent

LEMMA LeaseKeeps ==
  ASSUME NEW r, NEW h, NEW c, NEW y, NEW a, NEW q,
         Consistent(r, h, c, y, a), q \in TurnRow, LeaseStep(r, q)
  PROVE  Consistent(q, h, c, y, a)
<1> USE TypeFacts, RowFields
<1>1. r \in TurnRow
  BY DEF Consistent, Typed
<1>2. Typed(q, h, c, y, a)
  BY DEF Consistent, Typed
<1>3. RowMatchesHistory(q, h)
  BY <1>1 DEF Consistent, RowMatchesHistory, LeaseStep
<1>4. CallsMatchHistory(q, h, c)
  BY <1>1 DEF Consistent, CallsMatchHistory, LeaseStep
<1>5. RowMatchesCalls(q, c) /\ PublicationRules(q, c, a)
  BY <1>1 DEF Consistent, RowMatchesCalls, PublicationRules, LeaseStep
<1>6. RetryRules(q, c, y)
  BY <1>1 DEF Consistent, RetryRules, LeaseStep
<1>7. QED
  BY <1>2, <1>3, <1>4, <1>5, <1>6 DEF Consistent

LEMMA ClosedHistory ==
  ASSUME NEW h, NEW n, NEW how, NEW g, h \in Seq(Attempt), n \in {1, 2},
         Len(h) = n, h[n].outcome = "running", ClosesAs(h, g, n, how)
  PROVE  /\ g \in Seq(Attempt) /\ Len(g) = n /\ g[n].outcome = how
         /\ \A i \in 1..n : g[i].by = h[i].by
         /\ n = 2 => g[1] = h[1]
<1>1. n \in 1..Len(h)
  OBVIOUS
<1>2. g[n].outcome = how
  BY <1>1 DEF ClosesAs
<1>3. \A i \in 1..n : g[i].by = h[i].by
  BY DEF ClosesAs
<1>4. n = 2 => g[1] = h[1]
  <2> SUFFICES ASSUME n = 2 PROVE g[1] = h[1]
    OBVIOUS
  <2>1. 1 \in 1..Len(h) /\ 1 # n
    OBVIOUS
  <2>2. QED
    BY <2>1 DEF ClosesAs
<1>5. QED
  BY <1>2, <1>3, <1>4 DEF ClosesAs

LEMMA FailKeeps ==
  ASSUME NEW r, NEW h, NEW c, NEW y, NEW a, NEW q, NEW g, NEW how,
         Consistent(r, h, c, y, a), q \in TurnRow, FailStep(r, h, c, q, g, how)
  PROVE  Consistent(q, g, c, y, a)
<1> DEFINE n == r.attemptCount
<1>1. r \in TurnRow /\ h \in Seq(Attempt) /\ n \in {1, 2} /\ q.attemptCount = n
  BY TypeFacts, RowFields DEF Consistent, Typed, RowMatchesHistory, FailStep
<1>2. Len(h) = n /\ h[n].outcome = "running"
  BY TypeFacts, RowFields DEF Consistent, RowMatchesHistory, FailStep
<1>3. ClosesAs(h, g, n, how) /\ how \in Ended
  BY TypeFacts, RowFields DEF FailStep
<1> HIDE DEF n
<1>4. /\ g \in Seq(Attempt) /\ Len(g) = n /\ g[n].outcome = how
      /\ \A i \in 1..n : g[i].by = h[i].by
      /\ n = 2 => g[1] = h[1]
  BY <1>1, <1>2, <1>3, ClosedHistory
<1> USE TypeFacts, RowFields
<1>5. Typed(q, g, c, y, a)
  BY <1>4 DEF Consistent, Typed
<1>6. n = 2 => h[1].outcome \in Ended
  BY DEF Consistent, RowMatchesHistory, n
<1>7. n = 2 => g[1].outcome \in Ended
  BY <1>4, <1>6
<1>8. RowMatchesHistory(q, g)
  BY <1>1, <1>3, <1>4, <1>7 DEF RowMatchesHistory, FailStep
<1>9. CallsMatchHistory(q, g, c)
  BY <1>1, <1>4 DEF Consistent, CallsMatchHistory, n
<1>10. RowMatchesCalls(q, c) /\ PublicationRules(q, c, a)
  BY <1>1 DEF Consistent, RowMatchesCalls, PublicationRules, FailStep
<1>11. RetryRules(q, c, y)
  BY <1>1 DEF Consistent, Typed, RetryRules, FailStep, n
<1>12. QED
  BY <1>5, <1>8, <1>9, <1>10, <1>11 DEF Consistent

LEMMA PublishKeeps ==
  ASSUME NEW r, NEW h, NEW c, NEW y, NEW a, NEW q, NEW g, NEW b, NEW how,
         Consistent(r, h, c, y, a), q \in TurnRow, PublishStep(r, h, c, q, g, b, how)
  PROVE  Consistent(q, g, c, y, b)
<1> DEFINE n == r.attemptCount
<1>1. r \in TurnRow /\ h \in Seq(Attempt) /\ n \in {1, 2} /\ q.attemptCount = n
  BY TypeFacts, RowFields DEF Consistent, Typed, RowMatchesHistory, PublishStep
<1>2. Len(h) = n /\ h[n].outcome = "running"
  BY TypeFacts, RowFields DEF Consistent, RowMatchesHistory, PublishStep
<1>3. ClosesAs(h, g, n, how)
      /\ how \in {"answered", "refused"} /\ b \in {0, n}
  BY TypeFacts, RowFields DEF PublishStep
<1> HIDE DEF n
<1>4. /\ g \in Seq(Attempt) /\ Len(g) = n /\ g[n].outcome = how
      /\ \A i \in 1..n : g[i].by = h[i].by
      /\ n = 2 => g[1] = h[1]
  BY <1>1, <1>2, <1>3, ClosedHistory
<1> USE TypeFacts, RowFields
<1>5. Typed(q, g, c, y, b)
  BY <1>1, <1>3, <1>4 DEF Consistent, Typed
<1>6. n = 2 => h[1].outcome \in Ended
  BY DEF Consistent, RowMatchesHistory, n
<1>7. n = 2 => g[1].outcome \in Ended
  BY <1>4, <1>6
<1>8. RowMatchesHistory(q, g)
  BY <1>1, <1>3, <1>4, <1>7 DEF RowMatchesHistory, PublishStep
<1>9. CallsMatchHistory(q, g, c)
  BY <1>1, <1>4 DEF Consistent, CallsMatchHistory, n
<1>10. RowMatchesCalls(q, c)
  BY <1>3 DEF RowMatchesCalls, PublishStep
<1>11. PublicationRules(q, c, b)
  BY <1>1 DEF PublicationRules, PublishStep, n
<1>12. RetryRules(q, c, y)
  BY <1>1 DEF Consistent, Typed, RetryRules, PublishStep, n
<1>13. QED
  BY <1>5, <1>8, <1>9, <1>10, <1>11, <1>12 DEF Consistent

LEMMA ClaimKeeps ==
  ASSUME NEW r, NEW h, NEW c, NEW y, NEW a, NEW q, NEW g, NEW w,
         Consistent(r, h, c, y, a), q \in TurnRow, ClaimStep(r, h, q, g, w)
  PROVE  Consistent(q, g, c, y, a)
<1> USE TypeFacts, RowFields
<1> DEFINE n == r.attemptCount
           new == [by |-> w, outcome |-> "running"]
<1>1. r \in TurnRow /\ h \in Seq(Attempt) /\ n \in {0, 1} /\ Len(h) = n
      /\ q.attemptCount = n + 1
  BY DEF Consistent, Typed, RowMatchesHistory, ClaimStep
<1>2. new \in Attempt /\ new.by = w /\ new.outcome = "running" /\ g = Append(h, new)
  BY DEF Attempt, ClaimStep
<1> HIDE DEF new
<1>3. /\ g \in Seq(Attempt) /\ Len(g) = n + 1 /\ g[n + 1] = new
      /\ \A i \in 1..n : g[i] = h[i]
  BY <1>1, <1>2
<1>4. Typed(q, g, c, y, a)
  BY <1>3 DEF Consistent, Typed
<1>5. n = 1 => h[1].outcome \in Ended
  BY DEF Consistent, RowMatchesHistory, ClaimStep
<1>6. RowMatchesHistory(q, g)
  BY <1>1, <1>2, <1>3, <1>5 DEF RowMatchesHistory, ClaimStep
<1>7. CallsMatchHistory(q, g, c)
  <2> SUFFICES ASSUME NEW m \in AttemptNumber, NEW s \in Stage, c[m][s].status # "none",
                      m <= n /\ c[m][s].by = h[m].by
               PROVE  m <= n + 1 /\ c[m][s].by = g[m].by
    BY <1>1 DEF Consistent, CallsMatchHistory
  <2>1. m \in 1..n
    BY <1>1
  <2>2. QED
    BY <1>1, <1>3, <2>1
<1>8. RowMatchesCalls(q, c) /\ PublicationRules(q, c, a)
  BY <1>1 DEF Consistent, RowMatchesCalls, PublicationRules, ClaimStep
<1>9. RetryRules(q, c, y)
  BY <1>1 DEF Consistent, Typed, RetryRules, ClaimStep, n
<1>10. QED
  BY <1>4, <1>6, <1>7, <1>8, <1>9 DEF Consistent

LEMMA CallKeeps ==
  ASSUME NEW r, NEW h, NEW c, NEW y, NEW a, NEW d, NEW w, NEW s, NEW to,
         Consistent(r, h, c, y, a), CallStep(r, c, d, w, s, to)
  PROVE  /\ Consistent(r, h, d, y, a)
         /\ \A m \in AttemptNumber, u \in Stage :
              d[m][u] # c[m][u] => m = r.attemptCount /\ u = s /\ d[m][u].status = to
<1> DEFINE n == r.attemptCount
           new == [status |-> to, by |-> w]
<1>1. r \in TurnRow /\ c \in Grid /\ n \in AttemptNumber /\ s \in Stage /\ w \in Worker
  BY TypeFacts, RowFields DEF Consistent, Typed, RowMatchesHistory, CallStep
<1>2. to \in CallStatus /\ to # "none"
  BY DEF CallStep, Follows, CallStatus, Unconfirmed, FinalOutcome
<1>3. new \in Call /\ new.status = to /\ new.by = w
  BY <1>1, <1>2 DEF Call
<1>4. d = [c EXCEPT ![n][s] = new]
  BY DEF CallStep
<1> HIDE DEF new
<1>5. /\ d \in Grid
      /\ \A m \in AttemptNumber, u \in Stage : d[m][u] = IF m = n /\ u = s THEN new ELSE c[m][u]
  BY <1>1, <1>3, <1>4 DEF Grid
<1>6. Typed(r, h, d, y, a) /\ RowMatchesHistory(r, h)
  BY <1>5 DEF Consistent, Typed
<1>7. h[n].by = w
  BY DEF Consistent, RowMatchesHistory, CallStep
<1>8. CallsMatchHistory(r, h, d)
  <2> SUFFICES ASSUME NEW m \in AttemptNumber
               PROVE  /\ \A u \in Stage :
                           /\ d[m][u].status = "none" => d[m][u].by = NoWorker
                           /\ d[m][u].status # "none" => m <= n /\ d[m][u].by = h[m].by
                      /\ d[m]["support"].status # "none" =>
                           d[m]["draft"].status = "draft_answer_validated"
    BY DEF CallsMatchHistory
  <2>1. \A u \in Stage : /\ c[m][u].status = "none" => c[m][u].by = NoWorker
                         /\ c[m][u].status # "none" => m <= n /\ c[m][u].by = h[m].by
    BY DEF Consistent, CallsMatchHistory
  <2>2. c[m]["support"].status # "none" => c[m]["draft"].status = "draft_answer_validated"
    BY DEF Consistent, CallsMatchHistory
  <2>3. \A u \in Stage : /\ d[m][u].status = "none" => d[m][u].by = NoWorker
                         /\ d[m][u].status # "none" => m <= n /\ d[m][u].by = h[m].by
    BY <1>1, <1>2, <1>3, <1>5, <1>7, <2>1, TypeFacts
  <2>4. d[m]["support"].status # "none" => d[m]["draft"].status = "draft_answer_validated"
    <3>1. CASE m # n
      BY <1>5, <2>2, <3>1, TypeFacts
    <3>2. CASE m = n /\ s = "support"
      BY <1>5, <2>2, <3>2, TypeFacts
         DEF CallStep, Follows, Unconfirmed, FinalOutcome
    <3>3. CASE m = n /\ s = "draft"
      <4>1. c[n]["draft"].status # "draft_answer_validated"
        BY <3>3, TypeFacts DEF CallStep, Follows
      <4>2. c[n]["support"].status = "none"
        BY <2>2, <3>3, <4>1
      <4>3. QED
        BY <1>5, <3>3, <4>2, TypeFacts
    <3>4. QED
      BY <1>1, <3>1, <3>2, <3>3, TypeFacts
  <2>5. QED
    BY <2>3, <2>4
<1>9. RowMatchesCalls(r, d) /\ PublicationRules(r, d, a)
  BY DEF Consistent, RowMatchesCalls, PublicationRules, CallStep
<1>10. RetryRules(r, d, y)
  <2>1. RetryRules(r, c, y) /\ r.state = "running"
    BY DEF Consistent, CallStep
  <2>2. y = TRUE => ~Open(d, 1)
    <3> SUFFICES ASSUME y = TRUE PROVE ~Open(d, 1)
      OBVIOUS
    <3>1. n = 2 /\ ~Open(c, 1)
      BY <2>1 DEF RetryRules
    <3>2. \A u \in Stage : d[1][u] = c[1][u]
      BY <1>5, <3>1, TypeFacts
    <3>3. QED
      BY <3>1, <3>2 DEF Open
  <2>3. QED
    BY <2>1, <2>2 DEF RetryRules
<1>11. QED
  BY <1>3, <1>5, <1>6, <1>8, <1>9, <1>10 DEF Consistent

-----------------------------------------------------------------------------
(* The inductive invariant *)

ConsistentTurn(t) == Consistent(turns[t], attempts[t], calls[t], retried[t], answer[t])

(* An episode is locked by one turn, and one turn is running at a time. *)
LocksDisjoint ==
  \A t, u \in Turn : t # u /\ turns[t].lock = TRUE /\ turns[u].lock = TRUE =>
                       turns[t].run # turns[u].run
OneRunning ==
  \A t, u \in Turn : turns[t].state = "running" /\ turns[u].state = "running" => t = u

Busy(w) == worker[w].pc \in InProcess \cup {"settling"}

(* A worker at work remembers an attempt that it made, which is the current *)
(* one while it owns the turn, and a consumed grant is still a reservation. *)
RemembersAttempt(w) ==
  LET t == worker[w].turn
      n == worker[w].attempt
  IN  Busy(w) =>
        /\ t \in Turn /\ n \in 1..turns[t].attemptCount
        /\ attempts[t][n].by = w
        /\ turns[t].owner = w => n = turns[t].attemptCount
        /\ worker[w].pc = "entered" => calls[t][n][worker[w].stage].status = "reserved"

(* A request is executed for a call whose answer nobody has recorded. *)
RequestsUnanswered ==
  \A q \in working : calls[q.turn][q.attempt][q.stage].status \in {"reserved", "ambiguous"}

IInv ==
  /\ TypeOK
  /\ \A t \in Turn : ConsistentTurn(t)
  /\ LocksDisjoint
  /\ OneRunning
  /\ \A w \in Worker : RemembersAttempt(w)
  /\ RequestsUnanswered

-----------------------------------------------------------------------------
(* What a step does to the tables *)

KeepsCalls(t)  == calls'[t] = calls[t] /\ retried'[t] = retried[t]
KeepsOthers(t) == attempts'[t] = attempts[t] /\ KeepsCalls(t) /\ answer'[t] = answer[t]

CallRecorded(t, w, s, to) ==
  /\ CallStep(turns[t], calls[t], calls'[t], w, s, to)
  /\ worker[w].pc # "entered"
  /\ to \in FinalOutcome \cup {"response_received"} =>
       [turn |-> t, attempt |-> turns[t].attemptCount, stage |-> s] \notin working

QuietMove(t) ==
  \/ turns'[t] = turns[t] /\ KeepsOthers(t)
  \/ RejectStep(turns[t], calls[t], turns'[t]) /\ KeepsOthers(t)
  \/ LeaseStep(turns[t], turns'[t]) /\ KeepsOthers(t)
  \/ \E how : /\ FailStep(turns[t], attempts[t], calls[t], turns'[t], attempts'[t], how)
              /\ KeepsCalls(t) /\ answer'[t] = answer[t]
  \/ \E how : /\ PublishStep(turns[t], attempts[t], calls[t], turns'[t], attempts'[t],
                             answer'[t], how)
              /\ KeepsCalls(t)
  \/ /\ \E w, s, to : CallRecorded(t, w, s, to)
     /\ turns'[t] = turns[t] /\ attempts'[t] = attempts[t]
     /\ retried'[t] = retried[t] /\ answer'[t] = answer[t]

Moves(t) ==
  \/ QuietMove(t)
  \/ AskStep(turns[t], turns'[t]) /\ KeepsOthers(t)
  \/ /\ RetryStep(turns[t], calls[t], turns'[t])
     /\ attempts'[t] = attempts[t] /\ calls'[t] = calls[t] /\ answer'[t] = answer[t]
     /\ retried'[t] = TRUE
  \/ \E w : /\ ClaimStep(turns[t], attempts[t], turns'[t], attempts'[t], w)
            /\ KeepsCalls(t) /\ answer'[t] = answer[t]

TablesTyped ==
  /\ turns \in [Turn -> TurnRow]
  /\ attempts \in [Turn -> Seq(Attempt)]
  /\ calls \in [Turn -> Grid]
  /\ retried \in [Turn -> BOOLEAN]
  /\ answer \in [Turn -> 0..MaximumAttempts]

(* A lock is taken when no other turn holds the episode, a turn starts to   *)
(* run when no other turn runs.                                             *)
LocksCarefully ==
  \A t \in Turn : turns'[t].lock = TRUE /\ turns[t].lock = FALSE =>
    \A u \in Turn \ {t} :
      turns'[u] = turns[u] /\ ~(turns[u].lock = TRUE /\ turns[u].run = turns'[t].run)
RunsAlone ==
  \A t \in Turn : turns'[t].state = "running" /\ turns[t].state # "running" =>
    \A u \in Turn \ {t} : turns'[u].state # "running"

Effect == TablesTyped' /\ (\A t \in Turn : Moves(t)) /\ LocksCarefully /\ RunsAlone

LEMMA MoveKeeps ==
  ASSUME NEW t \in Turn, TablesTyped', ConsistentTurn(t), Moves(t)
  PROVE  ConsistentTurn(t)'
<1> USE DEF ConsistentTurn
<1>1. turns'[t] \in TurnRow /\ retried'[t] \in BOOLEAN
  BY DEF TablesTyped
<1>2. CASE turns'[t] = turns[t] /\ KeepsOthers(t)
  BY <1>2 DEF KeepsOthers, KeepsCalls
<1>3. CASE AskStep(turns[t], turns'[t]) /\ KeepsOthers(t)
  BY <1>1, <1>3, AskKeeps DEF KeepsOthers, KeepsCalls
<1>4. CASE /\ RetryStep(turns[t], calls[t], turns'[t])
           /\ attempts'[t] = attempts[t] /\ calls'[t] = calls[t] /\ answer'[t] = answer[t]
           /\ retried'[t] = TRUE
  <2>1. Consistent(turns'[t], attempts[t], calls[t], retried'[t], answer[t])
    BY <1>1, <1>4, RetryKeeps
  <2>2. QED
    BY <1>4, <2>1, Zenon
<1>5. CASE RejectStep(turns[t], calls[t], turns'[t]) /\ KeepsOthers(t)
  BY <1>1, <1>5, RejectKeeps DEF KeepsOthers, KeepsCalls
<1>6. CASE LeaseStep(turns[t], turns'[t]) /\ KeepsOthers(t)
  BY <1>1, <1>6, LeaseKeeps DEF KeepsOthers, KeepsCalls
<1>7. CASE \E how : /\ FailStep(turns[t], attempts[t], calls[t], turns'[t], attempts'[t], how)
                    /\ KeepsCalls(t) /\ answer'[t] = answer[t]
  BY <1>1, <1>7, FailKeeps DEF KeepsCalls
<1>8. CASE \E w : /\ ClaimStep(turns[t], attempts[t], turns'[t], attempts'[t], w)
                  /\ KeepsCalls(t) /\ answer'[t] = answer[t]
  BY <1>1, <1>8, ClaimKeeps DEF KeepsCalls
<1>9. CASE \E how : /\ PublishStep(turns[t], attempts[t], calls[t], turns'[t], attempts'[t],
                                   answer'[t], how)
                    /\ KeepsCalls(t)
  BY <1>1, <1>9, PublishKeeps DEF KeepsCalls
<1>10. CASE /\ \E w, s, to : CallRecorded(t, w, s, to)
            /\ turns'[t] = turns[t] /\ attempts'[t] = attempts[t]
            /\ retried'[t] = retried[t] /\ answer'[t] = answer[t]
  BY <1>10, CallKeeps DEF CallRecorded
<1>11. QED
  BY <1>2, <1>3, <1>4, <1>5, <1>6, <1>7, <1>8, <1>9, <1>10 DEF Moves, QuietMove

(* What a transition may do to the columns that relate turns to each other. *)
LEMMA MoveColumns ==
  ASSUME NEW t \in Turn, TablesTyped, TablesTyped', ConsistentTurn(t), Moves(t)
  PROVE  LET r == turns[t]
             q == turns'[t]
         IN  /\ q.lock \in BOOLEAN /\ r.lock \in BOOLEAN
             /\ r.state # "absent" => SameTurn(r, q)
             /\ r.state = "absent" => r.lock = FALSE /\ r.attemptCount = 0
             /\ r.attemptCount \in {0, 1, 2} /\ q.attemptCount \in {0, 1, 2}
             /\ q.attemptCount >= r.attemptCount
             /\ q.owner = r.owner /\ q.owner # NoWorker => q.attemptCount = r.attemptCount
             /\ r.state # "running" => r.owner = NoWorker
<1>1. turns[t] \in TurnRow /\ turns'[t] \in TurnRow
  BY DEF TablesTyped
<1>2. /\ turns[t].state = "absent" => turns[t].lock = FALSE /\ turns[t].attemptCount = 0
      /\ turns[t].state # "running" => turns[t].owner = NoWorker
  BY DEF ConsistentTurn, Consistent, RowMatchesHistory, RowMatchesCalls
<1>3. turns[t].state # "absent" => SameTurn(turns[t], turns'[t])
  BY DEF Moves, QuietMove, AskStep, RetryStep, RejectStep, LeaseStep, FailStep,
     ClaimStep, PublishStep,
         SameTurn
<1>4. turns'[t].attemptCount >= turns[t].attemptCount
  <2>1. \/ turns'[t].attemptCount = turns[t].attemptCount
        \/ turns'[t].attemptCount = turns[t].attemptCount + 1
    BY <1>2 DEF Moves, QuietMove, AskStep, RetryStep, RejectStep, LeaseStep, FailStep,
       ClaimStep,
                PublishStep
  <2>2. QED
    BY <1>1, <2>1, RowFields
<1>5. turns'[t].owner = turns[t].owner /\ turns'[t].owner # NoWorker =>
        turns'[t].attemptCount = turns[t].attemptCount
  BY <1>1, <1>2, ChatAssumption
     DEF Moves, QuietMove, AskStep, RetryStep, RejectStep, LeaseStep, FailStep,
        ClaimStep, PublishStep
<1>6. QED
  BY <1>1, <1>2, <1>3, <1>4, <1>5, RowFields

LEMMA EffectKeeps ==
  ASSUME TablesTyped, \A t \in Turn : ConsistentTurn(t), LocksDisjoint, OneRunning, Effect
  PROVE  /\ \A t \in Turn : ConsistentTurn(t)'
         /\ LocksDisjoint' /\ OneRunning'
<1>1. \A t \in Turn : ConsistentTurn(t)'
  BY MoveKeeps DEF Effect
<1>2. ASSUME NEW t \in Turn, NEW u \in Turn, t # u,
             turns'[t].lock = TRUE, turns'[u].lock = TRUE
      PROVE  turns'[t].run # turns'[u].run
  <2>1. TablesTyped' /\ Moves(t) /\ Moves(u)
    BY DEF Effect
  <2>2. turns[t].lock \in BOOLEAN /\ turns[u].lock \in BOOLEAN
    BY <2>1, MoveColumns
  <2>3. CASE turns[t].lock = TRUE /\ turns[u].lock = TRUE
    <3>1. SameTurn(turns[t], turns'[t]) /\ SameTurn(turns[u], turns'[u])
      BY <2>1, <2>3, MoveColumns
    <3>2. QED
      BY <1>2, <2>3, <3>1 DEF LocksDisjoint, SameTurn
  <2>4. CASE turns[t].lock = FALSE
    BY <1>2, <2>4 DEF Effect, LocksCarefully
  <2>5. CASE turns[u].lock = FALSE
    BY <1>2, <2>5 DEF Effect, LocksCarefully
  <2>6. QED
    BY <2>2, <2>3, <2>4, <2>5
<1>3. LocksDisjoint'
  BY <1>2 DEF LocksDisjoint
<1>4. OneRunning'
  <2> SUFFICES ASSUME NEW t \in Turn, NEW u \in Turn, t # u,
                      turns'[t].state = "running", turns'[u].state = "running"
               PROVE  FALSE
    BY DEF OneRunning
  <2>1. turns[t].state = "running" /\ turns[u].state = "running"
    BY DEF Effect, RunsAlone
  <2>2. QED
    BY <2>1 DEF OneRunning
<1>5. QED
  BY <1>1, <1>3, <1>4

-----------------------------------------------------------------------------
(* Each transition is a write that migration 008 accepts. *)

LEMMA CallEntry ==
  ASSUME NEW c \in Grid, NEW n \in AttemptNumber, NEW s \in Stage
  PROVE  /\ c[n][s] \in Call
         /\ c[n][s] = [status |-> c[n][s].status, by |-> c[n][s].by]
BY DEF Grid, Call

LEMMA AttemptEntry ==
  ASSUME NEW h \in Seq(Attempt), NEW n \in 1..Len(h)
  PROVE  h[n] \in Attempt /\ h[n] = [by |-> h[n].by, outcome |-> h[n].outcome]
<1>1. h[n] \in Attempt
  BY ElementOfSeq
<1>2. QED
  BY <1>1 DEF Attempt

LEMMA RunningAttempt ==
  ASSUME NEW t \in Turn, ConsistentTurn(t), turns[t].state = "running", turns[t].ttl > 0
  PROVE  /\ turns[t].attemptCount \in AttemptNumber
         /\ LeasedAttempt(t, turns[t].attemptCount, turns[t].owner)
<1> DEFINE n == turns[t].attemptCount
<1>1. turns[t] \in TurnRow /\ attempts[t] \in Seq(Attempt)
  BY DEF ConsistentTurn, Consistent, Typed
<1>2. /\ n \in AttemptNumber /\ n \in 1..Len(attempts[t])
      /\ attempts[t][n].by = turns[t].owner /\ attempts[t][n].outcome = "running"
  BY <1>1, RowFields, TypeFacts DEF ConsistentTurn, Consistent, RowMatchesHistory
<1>3. attempts[t][n] = [by |-> turns[t].owner, outcome |-> "running"]
  BY <1>1, <1>2, AttemptEntry
<1>4. turns[t].lock
  BY DEF ConsistentTurn, Consistent, RowMatchesCalls
<1>5. QED
  BY <1>2, <1>3, <1>4 DEF LeasedAttempt

LEMMA UpdateAccepted ==
  ASSUME NEW t \in Turn, TablesTyped, TablesTyped', ConsistentTurn(t), ConsistentTurn(t)',
         Moves(t), NoOtherRow(t), turns'[t] # turns[t], turns[t].state # "absent"
  PROVE  TurnUpdated(t)
<1> DEFINE r == turns[t]
           q == turns'[t]
           n == turns[t].attemptCount
<1>1. r \in TurnRow /\ q \in TurnRow /\ n \in {0, 1, 2} /\ r.lock \in BOOLEAN /\ q.lock \in BOOLEAN
  BY RowFields DEF TablesTyped
<1>2. SameTurn(r, q)
  BY MoveColumns
<1>3. /\ q.state \in {"queued", "running"} => q.lock
      /\ q.state \in {"answered", "refused"} => ~q.lock
  BY <1>1 DEF ConsistentTurn, Consistent, RowMatchesCalls
<1>4. ASSUME q.lock = FALSE
      PROVE  ReleasedUnused(t) \/ ReleasedByPublication(t)
  <2>1. CASE q.state = "failed"
    <3>1. q.owner = NoWorker
      BY <2>1 DEF ConsistentTurn, Consistent, RowMatchesHistory
    <3>2. ~Used(calls'[t])
      BY <1>4, <2>1 DEF ConsistentTurn, Consistent, RowMatchesCalls
    <3>3. calls'[t] = calls[t]
      BY <2>1, TypeFacts DEF Moves, QuietMove, KeepsOthers, KeepsCalls, CallRecorded,
         CallStep, ConsistentTurn, Consistent,
             RowMatchesHistory
    <3>4. QED
      BY <2>1, <3>1, <3>2, <3>3 DEF ReleasedUnused, Used
  <2>2. CASE q.state # "failed"
    <3>1. PICK how : PublishStep(r, attempts[t], calls[t], q, attempts'[t], answer'[t], how)
      BY <1>4, <2>2, <1>1, TypeFacts
         DEF Moves, QuietMove, AskStep, RetryStep, RejectStep, LeaseStep, FailStep,
            ClaimStep,
             ConsistentTurn, Consistent, RowMatchesCalls
    <3>2. /\ n \in AttemptNumber /\ LeasedAttempt(t, n, r.owner)
          /\ n \in {1, 2} /\ n \in 1..Len(attempts[t])
          /\ Len(attempts[t]) = n /\ attempts[t][n].by = r.owner
      <4>1. r.state = "running" /\ r.ttl > 0
        BY <3>1 DEF PublishStep
      <4>2. n \in AttemptNumber /\ LeasedAttempt(t, n, r.owner)
        BY <4>1, RunningAttempt
      <4>3. Len(attempts[t]) = n /\ attempts[t][n].by = r.owner
        BY <4>1 DEF ConsistentTurn, Consistent, RowMatchesHistory
      <4> HIDE DEF n, r
      <4>4. QED
        BY <4>2, <4>3, TypeFacts
    <3>3. q.attemptCount = n /\ q.owner = NoWorker /\ ~q.retryable
      BY <3>1 DEF PublishStep
    <3>4. n = 2 => retried[t] /\ attempts[t][1].outcome \in Ended /\ ~Open(calls[t], 1)
      BY DEF ConsistentTurn, Consistent, RowMatchesHistory, RetryRules
    <3>5. \A m \in 1..(n - 1), s \in Stage : calls[t][m][s].status \notin Unconfirmed
      BY <3>2, <3>4 DEF Open
    <3>6. \A s \in Stage : calls[t][n][s].status # "none" =>
            calls[t][n][s] = [status |-> calls[t][n][s].status, by |-> r.owner]
      <4> SUFFICES ASSUME NEW s \in Stage, calls[t][n][s].status # "none"
                   PROVE  calls[t][n][s] = [status |-> calls[t][n][s].status, by |-> r.owner]
        OBVIOUS
      <4>1. calls[t] \in Grid
        BY DEF TablesTyped
      <4>2. calls[t][n][s].by = attempts[t][n].by
        BY <3>2 DEF ConsistentTurn, Consistent, CallsMatchHistory
      <4>3. calls[t][n][s] = [status |-> calls[t][n][s].status, by |-> calls[t][n][s].by]
        BY <3>2, <4>1, CallEntry
      <4>4. QED
        BY <3>2, <4>2, <4>3
    <3>7. \/ /\ q.state = "answered" /\ answer'[t] # 0
             /\ calls[t][n]["draft"] = [status |-> "draft_answer_validated", by |-> r.owner]
             /\ calls[t][n]["support"] = [status |-> "support_validated", by |-> r.owner]
          \/ /\ q.state = "refused" /\ answer'[t] = 0
             /\ calls[t][n]["draft"] = [status |-> "draft_refusal", by |-> r.owner]
             /\ calls[t][n]["support"].status = "none"
      <4>1. CASE q.state = "answered"
        <5>1. /\ answer'[t] = n
              /\ calls[t][n]["draft"].status = "draft_answer_validated"
              /\ calls[t][n]["support"].status = "support_validated"
          BY <3>1, <4>1 DEF PublishStep
        <5>2. QED
          BY <3>2, <3>6, <4>1, <5>1, TypeFacts
      <4>2. CASE q.state = "refused"
        <5>1. /\ answer'[t] = 0
              /\ calls[t][n]["draft"].status = "draft_refusal"
              /\ calls[t][n]["support"].status = "none"
          BY <3>1, <4>2 DEF PublishStep
        <5>2. QED
          BY <3>6, <4>2, <5>1, TypeFacts
      <4>3. QED
        BY <3>1, <4>1, <4>2 DEF PublishStep
    <3>8. n = 1 \/ (retried[t] /\ attempts[t][1].outcome \in {"failed", "interrupted", "recovered"})
      BY <3>2, <3>4 DEF Ended
    <3> HIDE DEF r, q, n
    <3>9. ReleasedByPublication(t)
      BY <3>2, <3>3, <3>5, <3>7, <3>8 DEF ReleasedByPublication, r, q, n
    <3>10. QED
      BY <3>9
  <2>3. QED
    BY <2>1, <2>2
<1>5. QED
  BY <1>1, <1>2, <1>3, <1>4 DEF TurnUpdated, SameTurn

LEMMA AttemptAccepted ==
  ASSUME NEW t \in Turn, TablesTyped, TablesTyped', ConsistentTurn(t), ConsistentTurn(t)',
         Moves(t), NEW n \in 1..Len(attempts[t]), attempts'[t][n] # attempts[t][n]
  PROVE  AttemptUpdated(t, n)
<1>1. /\ attempts[t] \in Seq(Attempt) /\ turns[t] \in TurnRow
      /\ Len(attempts[t]) = turns[t].attemptCount
  BY DEF TablesTyped, ConsistentTurn, Consistent, RowMatchesHistory
<1>2. ASSUME NEW w, ClaimStep(turns[t], attempts[t], turns'[t], attempts'[t], w)
      PROVE  FALSE
  <2>1. [by |-> w, outcome |-> "running"] \in Attempt
    BY <1>2 DEF ClaimStep, Attempt, AttemptOutcome
  <2>2. attempts'[t][n] = attempts[t][n]
    BY <1>1, <1>2, <2>1, AppendProperties DEF ClaimStep
  <2>3. QED
    BY <2>2
<1>3. CASE \E how : FailStep(turns[t], attempts[t], calls[t], turns'[t], attempts'[t], how)
  BY <1>3, TypeFacts DEF FailStep, ClosesAs, AttemptUpdated
<1>4. CASE \E how : PublishStep(turns[t], attempts[t], calls[t], turns'[t], attempts'[t],
                                answer'[t], how)
  <2>1. PICK how : PublishStep(turns[t], attempts[t], calls[t], turns'[t], attempts'[t],
                               answer'[t], how)
    BY <1>4
  <2>2. /\ n = turns[t].attemptCount
        /\ attempts[t][n].outcome = "running" /\ attempts'[t][n].outcome = how
        /\ attempts'[t][n].by = attempts[t][n].by
    BY <2>1 DEF PublishStep, ClosesAs
  <2>3. turns'[t].attemptCount = n /\ turns'[t].state = how /\ ~turns'[t].lock
        /\ how \in {"answered", "refused"}
    BY <2>1, <2>2 DEF PublishStep
  <2>4. QED
    BY <2>2, <2>3 DEF AttemptUpdated
<1>5. QED
  BY <1>2, <1>3, <1>4 DEF Moves, QuietMove, KeepsOthers

LEMMA CallAccepted ==
  ASSUME NEW t \in Turn, TablesTyped, ConsistentTurn(t), ConsistentTurn(t)', Moves(t),
         NEW n \in AttemptNumber, NEW s \in Stage, calls'[t][n][s] # calls[t][n][s]
  PROVE  IF calls[t][n][s].status = "none" THEN CallInserted(t, n, s) ELSE CallUpdated(t, n, s)
<1> DEFINE c == calls[t]
           d == calls'[t]
<1>1. PICK w, z, to : CallRecorded(t, w, z, to)
  BY DEF Moves, QuietMove, KeepsOthers, KeepsCalls
<1>2. CallStep(turns[t], c, d, w, z, to)
  BY <1>1 DEF CallRecorded
<1>3. n = turns[t].attemptCount /\ s = z /\ d[n][s].status = to
  BY <1>2, CallKeeps DEF ConsistentTurn
<1>4. LeasedAttempt(t, n, w) /\ attempts[t][n].by = w
  BY <1>2, <1>3, RunningAttempt DEF CallStep, LeasedAttempt, ConsistentTurn, Consistent,
     RowMatchesHistory
<1>5. c \in Grid /\ attempts'[t] = attempts[t] /\ d \in Grid
  BY <1>1, <1>2 DEF TablesTyped, ConsistentTurn, Consistent, Typed, Moves, QuietMove,
     KeepsOthers, CallStep,
     FailStep, ClaimStep, PublishStep, KeepsCalls
<1>6. Follows(c, n, s, to)
  BY <1>2, <1>3 DEF CallStep
<1>7. to # "none"
  BY <1>6 DEF Follows, FinalOutcome
<1>8. d[n][s].by = w
  BY <1>3, <1>4, <1>5, <1>7 DEF ConsistentTurn, Consistent, CallsMatchHistory
<1>9. \A u \in Stage : c[n][u].status # "none" =>
        c[n][u].by = w /\ c[n][u] = [status |-> c[n][u].status, by |-> w]
  BY <1>4, <1>5, CallEntry DEF ConsistentTurn, Consistent, CallsMatchHistory
<1>10. CASE c[n][s].status = "none"
  <2>1. to = "reserved" /\ \/ s = "draft" /\ \A u \in Stage : c[n][u].status = "none"
                           \/ s = "support" /\ c[n]["draft"].status = "draft_answer_validated"
    BY <1>6, <1>10 DEF Follows
  <2>2. s = "support" => c[n]["draft"] = [status |-> "draft_answer_validated", by |-> w]
    BY <1>9, <2>1, TypeFacts
  <2>3. CallInserted(t, n, s)
    BY <1>3, <1>4, <1>8, <2>1, <2>2 DEF CallInserted
  <2>4. QED
    BY <1>10, <2>3
<1>11. CASE c[n][s].status # "none"
  <2>1. \/ c[n][s].status = "reserved" /\ to \in {"response_received", "ambiguous"}
        \/ c[n][s].status = "response_received" /\ to \in FinalOutcome
    BY <1>6, <1>11 DEF Follows
  <2>2. CallUpdated(t, n, s)
    BY <1>3, <1>4, <1>8, <1>9, <1>11, <2>1 DEF CallUpdated
  <2>3. QED
    BY <1>11, <2>2
<1>12. QED
  BY <1>10, <1>11

-----------------------------------------------------------------------------
(* Every step of the tables satisfies the schema, and what the workers and  *)
(* the provider hold stays true.                                            *)

OrdersFresh ==
  \A t \in Turn : turns[t].state = "absent" /\ turns'[t] # turns[t] =>
    \A u \in Turn \ {t} : turns'[u].order # turns'[t].order

SchemaAccepts ==
  \A t \in Turn :
    /\ turns'[t] # turns[t] =>
         IF turns[t].state = "absent" THEN TurnInserted(t) ELSE TurnUpdated(t)
    /\ \A n \in 1..Len(attempts[t]) :
         attempts'[t][n] # attempts[t][n] => AttemptUpdated(t, n)
    /\ \A n \in AttemptNumber, s \in Stage :
         calls'[t][n][s] # calls[t][n][s] =>
           IF calls[t][n][s].status = "none" THEN CallInserted(t, n, s)
                                             ELSE CallUpdated(t, n, s)

LEMMA EffectAccepted ==
  ASSUME TablesTyped, \A t \in Turn : ConsistentTurn(t), LocksDisjoint, OneRunning,
         Effect, OrdersFresh
  PROVE  SchemaAccepts
<1>1. TablesTyped' /\ (\A t \in Turn : ConsistentTurn(t)') /\ LocksDisjoint' /\ OneRunning'
  BY EffectKeeps DEF Effect
<1>2. SUFFICES ASSUME NEW t \in Turn
      PROVE  /\ turns'[t] # turns[t] =>
                  IF turns[t].state = "absent" THEN TurnInserted(t) ELSE TurnUpdated(t)
             /\ \A n \in 1..Len(attempts[t]) :
                  attempts'[t][n] # attempts[t][n] => AttemptUpdated(t, n)
             /\ \A n \in AttemptNumber, s \in Stage :
                  calls'[t][n][s] # calls[t][n][s] =>
                    IF calls[t][n][s].status = "none" THEN CallInserted(t, n, s)
                                                      ELSE CallUpdated(t, n, s)
  BY DEF SchemaAccepts
<1>3. Moves(t) /\ ConsistentTurn(t) /\ ConsistentTurn(t)'
  BY <1>1 DEF Effect
<1>4. NoOtherRow(t)
  <2>1. \A u \in Turn : turns'[u].lock \in BOOLEAN
    BY <1>1, RowFields DEF TablesTyped
  <2>2. QED
    BY <1>1, <2>1 DEF NoOtherRow, LocksDisjoint, OneRunning
<1>5. ASSUME turns'[t] # turns[t], turns[t].state = "absent"
      PROVE  TurnInserted(t)
  <2>1. AskStep(turns[t], turns'[t])
    BY <1>3, <1>5 DEF Moves, QuietMove, AskStep, RetryStep, RejectStep, LeaseStep,
       FailStep, ClaimStep,
                      PublishStep
  <2>2. QED
    BY <1>4, <1>5, <2>1 DEF AskStep, TurnInserted, OrdersFresh
<1>6. ASSUME turns'[t] # turns[t], turns[t].state # "absent"
      PROVE  TurnUpdated(t)
  BY <1>1, <1>3, <1>4, <1>6, UpdateAccepted
<1>7. ASSUME NEW n \in 1..Len(attempts[t]), attempts'[t][n] # attempts[t][n]
      PROVE  AttemptUpdated(t, n)
  BY <1>1, <1>3, <1>7, AttemptAccepted
<1>8. ASSUME NEW n \in AttemptNumber, NEW s \in Stage, calls'[t][n][s] # calls[t][n][s]
      PROVE  IF calls[t][n][s].status = "none" THEN CallInserted(t, n, s)
                                               ELSE CallUpdated(t, n, s)
  BY <1>1, <1>3, <1>8, CallAccepted
<1>9. QED
  BY <1>5, <1>6, <1>7, <1>8

LEMMA MoveHistory ==
  ASSUME NEW t \in Turn, TablesTyped, TablesTyped', ConsistentTurn(t), Moves(t),
         NEW n \in 1..turns[t].attemptCount
  PROVE  attempts'[t][n].by = attempts[t][n].by
<1>1. attempts[t] \in Seq(Attempt) /\ Len(attempts[t]) = turns[t].attemptCount
  BY DEF TablesTyped, ConsistentTurn, Consistent, RowMatchesHistory
<1>2. ASSUME NEW w, ClaimStep(turns[t], attempts[t], turns'[t], attempts'[t], w)
      PROVE  attempts'[t][n] = attempts[t][n]
  <2>1. [by |-> w, outcome |-> "running"] \in Attempt
    BY <1>2 DEF ClaimStep, Attempt, AttemptOutcome
  <2>2. QED
    BY <1>1, <1>2, <2>1, AppendProperties DEF ClaimStep
<1>3. ASSUME NEW how, ClosesAs(attempts[t], attempts'[t], turns[t].attemptCount, how)
      PROVE  attempts'[t][n].by = attempts[t][n].by
  BY <1>1, <1>3 DEF ClosesAs
<1>4. QED
  BY <1>2, <1>3 DEF Moves, QuietMove, KeepsOthers, FailStep, PublishStep

(* Nobody records a call of an attempt whose grant is consumed but unused.  *)
LEMMA EnteredCall ==
  ASSUME NEW t \in Turn, NEW v \in Worker, ConsistentTurn(t), Moves(t),
         NEW n \in AttemptNumber, NEW s \in Stage,
         attempts[t][n].by = v, worker[v].pc = "entered"
  PROVE  calls'[t][n][s] = calls[t][n][s]
<1> SUFFICES ASSUME calls'[t][n][s] # calls[t][n][s] PROVE FALSE
  OBVIOUS
<1>1. PICK w, z, to : CallRecorded(t, w, z, to)
  BY DEF Moves, QuietMove, KeepsOthers, KeepsCalls
<1>2. CallStep(turns[t], calls[t], calls'[t], w, z, to) /\ worker[w].pc # "entered"
  BY <1>1 DEF CallRecorded
<1>3. n = turns[t].attemptCount
  BY <1>2, CallKeeps DEF ConsistentTurn
<1>4. attempts[t][n].by = w
  BY <1>2, <1>3 DEF CallStep, ConsistentTurn, Consistent, RowMatchesHistory
<1>5. QED
  BY <1>2, <1>4

(* What a step must show of each worker. *)
StaysAtWork(v) ==
  /\ Busy(v)' => /\ Busy(v)
                 /\ worker'[v].turn = worker[v].turn
                 /\ worker'[v].attempt = worker[v].attempt
  /\ worker'[v].pc = "entered" =>
       \/ worker[v].pc = "entered" /\ worker'[v].stage = worker[v].stage
       \/ /\ calls' = calls
          /\ calls[worker[v].turn][worker[v].attempt][worker'[v].stage].status = "reserved"
  /\ \A t \in Turn : turns'[t].owner = v => turns[t].owner = v

LEMMA WorkerKeeps ==
  ASSUME NEW v \in Worker, TablesTyped, \A t \in Turn : ConsistentTurn(t), Effect,
         worker \in [Worker -> WorkerState], worker' \in [Worker -> WorkerState],
         RemembersAttempt(v), StaysAtWork(v)
  PROVE  RemembersAttempt(v)'
<1> SUFFICES ASSUME Busy(v)'
             PROVE  LET t == worker'[v].turn
                        n == worker'[v].attempt
                    IN  /\ t \in Turn /\ n \in 1..turns'[t].attemptCount
                        /\ attempts'[t][n].by = v
                        /\ turns'[t].owner = v => n = turns'[t].attemptCount
                        /\ worker'[v].pc = "entered" =>
                             calls'[t][n][worker'[v].stage].status = "reserved"
  BY DEF RemembersAttempt
<1> DEFINE t == worker[v].turn
           n == worker[v].attempt
<1>1. Busy(v) /\ worker'[v].turn = t /\ worker'[v].attempt = n
  BY DEF StaysAtWork
<1>2. /\ t \in Turn /\ n \in 1..turns[t].attemptCount
      /\ attempts[t][n].by = v
      /\ turns[t].owner = v => n = turns[t].attemptCount
      /\ worker[v].pc = "entered" => calls[t][n][worker[v].stage].status = "reserved"
  BY <1>1 DEF RemembersAttempt
<1>3. TablesTyped' /\ Moves(t) /\ ConsistentTurn(t)
  BY <1>2 DEF Effect
<1>4. /\ turns[t].attemptCount \in {0, 1, 2} /\ turns'[t].attemptCount \in {0, 1, 2}
      /\ turns'[t].attemptCount >= turns[t].attemptCount
      /\ turns'[t].owner = turns[t].owner /\ turns'[t].owner # NoWorker =>
           turns'[t].attemptCount = turns[t].attemptCount
  BY <1>2, <1>3, MoveColumns
<1>5. attempts'[t][n].by = v
  BY <1>2, <1>3, MoveHistory
<1>6. turns'[t].owner = v => n = turns'[t].attemptCount
  <2> SUFFICES ASSUME turns'[t].owner = v PROVE n = turns'[t].attemptCount
    OBVIOUS
  <2>1. turns[t].owner = v
    BY <1>2 DEF StaysAtWork
  <2>2. v # NoWorker
    BY ChatAssumption
  <2>3. QED
    BY <1>2, <1>4, <2>1, <2>2
<1>7. n \in AttemptNumber /\ worker[v].stage \in Stage
  <2>1. n \in 1..2
    BY <1>2, <1>4
  <2>2. QED
    BY <2>1, TypeFacts DEF WorkerState
<1>8. worker'[v].pc = "entered" => calls'[t][n][worker'[v].stage].status = "reserved"
  BY <1>2, <1>3, <1>7, EnteredCall DEF StaysAtWork
<1>9. n \in 1..turns'[t].attemptCount
  BY <1>2, <1>4
<1> HIDE DEF t, n
<1>10. QED
  BY <1>1, <1>2, <1>5, <1>6, <1>8, <1>9

LEMMA RequestsKeep ==
  ASSUME \A t \in Turn : ConsistentTurn(t), Effect, RequestsUnanswered,
         working \subseteq Request, working' \subseteq working
  PROVE  RequestsUnanswered'
<1> SUFFICES ASSUME NEW q \in working
             PROVE  calls'[q.turn][q.attempt][q.stage].status \in {"reserved", "ambiguous"}
  BY DEF RequestsUnanswered
<1> DEFINE t == q.turn
           n == q.attempt
           s == q.stage
<1>1. t \in Turn /\ n \in AttemptNumber /\ s \in Stage
      /\ q = [turn |-> t, attempt |-> n, stage |-> s]
  BY DEF Request
<1>2. calls[t][n][s].status \in {"reserved", "ambiguous"}
  BY DEF RequestsUnanswered
<1>3. Moves(t) /\ ConsistentTurn(t)
  BY <1>1 DEF Effect
<1> HIDE DEF t, n, s
<1>4. CASE calls'[t][n][s] # calls[t][n][s]
  <2>1. PICK w, z, to : CallRecorded(t, w, z, to)
    BY <1>3, <1>4 DEF Moves, QuietMove, KeepsOthers, KeepsCalls
  <2>2. CallStep(turns[t], calls[t], calls'[t], w, z, to)
    BY <2>1 DEF CallRecorded
  <2>3. n = turns[t].attemptCount /\ s = z /\ calls'[t][n][s].status = to
    BY <1>1, <1>3, <1>4, <2>2, CallKeeps DEF ConsistentTurn
  <2>4. to \notin FinalOutcome \cup {"response_received"}
    BY <1>1, <2>1, <2>3 DEF CallRecorded
  <2>5. Follows(calls[t], n, s, to)
    BY <2>2, <2>3 DEF CallStep
  <2>6. to \in {"reserved", "ambiguous"}
    BY <1>2, <2>4, <2>5 DEF Follows
  <2>7. calls'[t][n][s].status \in {"reserved", "ambiguous"}
    BY <2>3, <2>6
  <2>8. QED
    BY <2>7 DEF t, n, s
<1>5. CASE calls'[t][n][s] = calls[t][n][s]
  BY <1>2, <1>5 DEF t, n, s
<1>6. QED
  BY <1>4, <1>5

-----------------------------------------------------------------------------
(* The rows that the store writes are those of the transitions. *)

LEMMA TypedTables ==
  ASSUME TypeOK
  PROVE  TablesTyped
BY DEF TypeOK, TablesTyped, Grid

LEMMA ClosedCloses ==
  ASSUME TablesTyped, NEW t \in Turn, NEW how \in AttemptOutcome
  PROVE  ClosesAs(attempts[t], Closed(t, how), turns[t].attemptCount, how)
<1> DEFINE s == attempts[t]
           n == turns[t].attemptCount
           e == [s[n] EXCEPT !.outcome = how]
<1>1. s \in Seq(Attempt) /\ n \in Nat
  <2>1. turns[t] \in TurnRow
    BY DEF TablesTyped
  <2>2. QED
    <3>1. turns[t].attemptCount \in {0, 1, 2}
      BY <2>1, RowFields
    <3>2. QED
      BY <3>1 DEF TablesTyped
<1>2. CASE n \in 1..Len(s) /\ s[n].outcome = "running"
  <2>1. s[n] \in Attempt
    BY <1>1, <1>2, ElementOfSeq
  <2>2. e.by = s[n].by /\ e.outcome = how /\ e \in Attempt
    BY <2>1 DEF Attempt
  <2>3. Closed(t, how) = [s EXCEPT ![n] = e]
    BY <1>2 DEF Closed
  <2> HIDE DEF s, n, e
  <2>4. QED
    BY <1>1, <1>2, <2>2, <2>3, ExceptSeq DEF s, n, ClosesAs
<1>3. CASE ~(n \in 1..Len(s) /\ s[n].outcome = "running")
  BY <1>1, <1>3 DEF Closed, ClosesAs
<1>4. QED
  BY <1>2, <1>3

LEMMA FailedRow ==
  ASSUME TablesTyped, NEW t \in Turn, NEW again \in BOOLEAN, NEW how \in Ended,
         ConsistentTurn(t), turns[t].state = "running"
  PROVE  /\ FailedTurn(t, again) \in TurnRow /\ Closed(t, how) \in Seq(Attempt)
         /\ FailStep(turns[t], attempts[t], calls[t], FailedTurn(t, again), Closed(t, how), how)
<1> DEFINE r == turns[t]
           n == turns[t].attemptCount
           k == UsedProvider(t)
           y == again /\ ~Unresolved(t) /\ n < MaximumAttempts
           q == FailedTurn(t, again)
<1>1. r \in TurnRow /\ 0 \in 0..LeaseTicks
  BY TypeFacts DEF TablesTyped
<1>2. k \in BOOLEAN /\ y \in BOOLEAN
  BY DEF UsedProvider
<1>3. q = [r EXCEPT !.state = "failed", !.owner = NoWorker, !.ttl = 0, !.lock = k,
                    !.retryable = y]
  BY DEF FailedTurn
<1>4. (k <=> Used(calls[t])) /\ (Unresolved(t) <=> Open(calls[t], n))
  BY DEF UsedProvider, Used, Unresolved, Open
<1>5. ClosesAs(attempts[t], Closed(t, how), n, how)
  BY TypeFacts, ClosedCloses
<1> HIDE DEF k, y, q
<1>6. /\ q \in TurnRow /\ SameTurn(r, q)
      /\ q.state = "failed" /\ q.owner = NoWorker /\ q.attemptCount = n
      /\ q.lock = k /\ q.retryable = y
  BY <1>1, <1>2, <1>3 DEF TurnRow, SameTurn
<1>7. ((q.lock = TRUE) <=> k) /\ (q.retryable = TRUE => y)
  BY <1>2, <1>6
<1>8. FailStep(r, attempts[t], calls[t], q, Closed(t, how), how)
  BY <1>4, <1>5, <1>6, <1>7 DEF FailStep, y
<1>9. QED
  BY <1>5, <1>6, <1>8 DEF q, ClosesAs

LEMMA RejectedRow ==
  ASSUME TablesTyped, NEW t \in Turn, turns[t].state = "queued"
  PROVE  /\ RejectedTurn(t) \in TurnRow
         /\ RejectStep(turns[t], calls[t], RejectedTurn(t))
<1> DEFINE r == turns[t]
           k == UsedProvider(t)
           q == RejectedTurn(t)
<1>1. r \in TurnRow
  BY DEF TablesTyped
<1>2. k \in BOOLEAN
  BY DEF UsedProvider
<1>3. q = [r EXCEPT !.state = "failed", !.lock = k, !.retryable = FALSE]
  BY DEF RejectedTurn
<1>4. k <=> Used(calls[t])
  BY DEF UsedProvider, Used
<1> HIDE DEF k, q
<1>5. /\ q \in TurnRow /\ SameTurn(r, q)
      /\ q.state = "failed" /\ q.owner = r.owner /\ q.attemptCount = r.attemptCount
      /\ q.lock = k /\ q.retryable = FALSE
  BY <1>1, <1>2, <1>3 DEF TurnRow, SameTurn
<1>6. (q.lock = TRUE) <=> k
  BY <1>2, <1>5
<1>7. QED
  BY <1>4, <1>5, <1>6 DEF RejectStep, q

LEMMA ClaimedRow ==
  ASSUME TablesTyped, NEW t \in Turn, NEW w \in Worker, turns[t].state = "queued",
         turns[t].attemptCount < MaximumAttempts
  PROVE  /\ ClaimedTurn(t, w) \in TurnRow
         /\ Append(attempts[t], [by |-> w, outcome |-> "running"]) \in Seq(Attempt)
         /\ ClaimStep(turns[t], attempts[t], ClaimedTurn(t, w),
                      Append(attempts[t], [by |-> w, outcome |-> "running"]), w)
<1> DEFINE r == turns[t]
           q == ClaimedTurn(t, w)
<1>1. r \in TurnRow /\ LeaseTicks \in 0..LeaseTicks
  BY TypeFacts DEF TablesTyped
<1>2. r.attemptCount + 1 \in 0..MaximumAttempts
  <2>1. r.attemptCount \in {0, 1, 2}
    BY <1>1, RowFields
  <2>2. QED
    BY <2>1, TypeFacts
<1>3. q = [r EXCEPT !.state = "running", !.attemptCount = r.attemptCount + 1, !.owner = w,
                    !.ttl = LeaseTicks, !.retryable = FALSE]
  BY DEF ClaimedTurn
<1> HIDE DEF q
<1>4. /\ q \in TurnRow /\ SameTurn(r, q)
      /\ q.state = "running" /\ q.owner = w /\ q.attemptCount = r.attemptCount + 1
      /\ q.lock = r.lock /\ q.retryable = FALSE
  BY <1>1, <1>2, <1>3 DEF TurnRow, SameTurn
<1>5. [by |-> w, outcome |-> "running"] \in Attempt /\ attempts[t] \in Seq(Attempt)
  BY DEF Attempt, AttemptOutcome, TablesTyped
<1>6. QED
  BY <1>4, <1>5, AppendProperties DEF ClaimStep, q

LEMMA LeaseRow ==
  ASSUME TablesTyped, NEW t \in Turn, turns[t].state = "running", NEW ttl \in 0..LeaseTicks
  PROVE  /\ [turns[t] EXCEPT !.ttl = ttl] \in TurnRow
         /\ LeaseStep(turns[t], [turns[t] EXCEPT !.ttl = ttl])
<1> DEFINE q == [turns[t] EXCEPT !.ttl = ttl]
<1>1. turns[t] \in TurnRow
  BY DEF TablesTyped
<1>2. /\ q \in TurnRow /\ SameTurn(turns[t], q)
      /\ q.state = turns[t].state /\ q.owner = turns[t].owner
      /\ q.attemptCount = turns[t].attemptCount
      /\ q.lock = turns[t].lock /\ q.retryable = turns[t].retryable
  BY <1>1 DEF TurnRow, SameTurn
<1> HIDE DEF q
<1>3. q \in TurnRow /\ LeaseStep(turns[t], q)
  BY <1>2 DEF LeaseStep
<1>4. QED
  BY <1>3 DEF q

LEMMA PublishedRow ==
  ASSUME TablesTyped, NEW t \in Turn, NEW how \in {"answered", "refused"}
  PROVE  LET r == turns[t]
             q == PublishedTurn(t, how)
         IN  /\ q \in TurnRow /\ SameTurn(r, q)
             /\ q.state = how /\ q.owner = NoWorker /\ q.attemptCount = r.attemptCount
             /\ q.lock = FALSE /\ q.retryable = FALSE
<1>1. turns[t] \in TurnRow
  BY DEF TablesTyped
<1>2. QED
  BY <1>1, TypeFacts DEF PublishedTurn, TurnRow, SameTurn

LEMMA AskedRow ==
  ASSUME NEW r \in Run, NEW n \in Nat
  PROVE  LET q == [NoRow EXCEPT !.state = "queued", !.run = r, !.order = n, !.lock = TRUE]
         IN  /\ q \in TurnRow
             /\ q.state = "queued" /\ q.lock = TRUE /\ q.attemptCount = 0
             /\ q.owner = NoWorker /\ q.retryable = FALSE /\ q.order = n /\ q.run = r
<1>1. /\ NoRow \in TurnRow
      /\ NoRow.attemptCount = 0 /\ NoRow.owner = NoWorker /\ NoRow.retryable = FALSE
  BY TypeFacts DEF NoRow, TurnRow
<1>2. QED
  BY <1>1 DEF TurnRow

-----------------------------------------------------------------------------
(* What each action does to the tables *)

NoClaims ==
  \A t \in Turn, v \in Worker : turns'[t].owner = v => turns[t].owner = v

LEMMA QuietColumns ==
  ASSUME NEW t \in Turn, TablesTyped, TablesTyped', ConsistentTurn(t), QuietMove(t)
  PROVE  /\ turns[t].state = "absent" => turns'[t] = turns[t]
         /\ turns'[t].lock = TRUE => turns[t].lock = TRUE
         /\ turns'[t].state = "running" => turns[t].state = "running"
         /\ \A v \in Worker : turns'[t].owner = v => turns[t].owner = v
<1>1. turns[t] \in TurnRow /\ turns'[t] \in TurnRow
  BY DEF TablesTyped
<1>2. turns[t].state \in {"queued", "running"} => turns[t].lock = TRUE
  BY DEF ConsistentTurn, Consistent, RowMatchesCalls
<1>3. turns[t].state = "absent" => turns'[t] = turns[t]
  BY DEF QuietMove, RejectStep, LeaseStep, FailStep, PublishStep
<1>4. turns'[t].lock = TRUE => turns[t].lock = TRUE
  BY <1>2 DEF QuietMove, RejectStep, LeaseStep, FailStep, PublishStep
<1>5. turns'[t].state = "running" => turns[t].state = "running"
  BY DEF QuietMove, RejectStep, LeaseStep, FailStep, PublishStep
<1>6. \A v \in Worker : turns'[t].owner = v => turns[t].owner = v
  BY ChatAssumption DEF QuietMove, RejectStep, LeaseStep, FailStep, PublishStep
<1>7. QED
  BY <1>3, <1>4, <1>5, <1>6

LEMMA QuietEffect ==
  ASSUME TablesTyped, TablesTyped', \A t \in Turn : ConsistentTurn(t),
         \A t \in Turn : QuietMove(t)
  PROVE  Effect /\ OrdersFresh /\ NoClaims
<1>1. \A t \in Turn : /\ turns[t].state = "absent" => turns'[t] = turns[t]
                      /\ turns'[t].lock = TRUE => turns[t].lock = TRUE
                      /\ turns'[t].state = "running" => turns[t].state = "running"
                      /\ \A v \in Worker : turns'[t].owner = v => turns[t].owner = v
  BY QuietColumns
<1>2. LocksCarefully
  BY <1>1 DEF LocksCarefully
<1>3. RunsAlone
  BY <1>1 DEF RunsAlone
<1>4. OrdersFresh /\ NoClaims
  BY <1>1 DEF OrdersFresh, NoClaims
<1>5. QED
  BY <1>2, <1>3, <1>4 DEF Effect, Moves

LEMMA UnchangedTables ==
  ASSUME TypeOK, \A t \in Turn : ConsistentTurn(t),
         UNCHANGED <<turns, attempts, calls, retried, answer>>
  PROVE  Effect /\ OrdersFresh /\ NoClaims
<1>1. TablesTyped /\ TablesTyped'
  BY TypedTables DEF TablesTyped
<1>2. \A t \in Turn : QuietMove(t)
  BY DEF QuietMove, KeepsOthers, KeepsCalls
<1>3. QED
  BY <1>1, <1>2, QuietEffect

(* One turn is updated, the others keep their rows. *)
LEMMA OneTurnMoves ==
  ASSUME TablesTyped, \A t \in Turn : ConsistentTurn(t),
         NEW t \in Turn, NEW q \in TurnRow, NEW h \in Seq(Attempt), NEW b \in 0..MaximumAttempts,
         turns' = [turns EXCEPT ![t] = q],
         attempts' = [attempts EXCEPT ![t] = h],
         answer' = [answer EXCEPT ![t] = b],
         UNCHANGED <<calls, retried>>,
         QuietMove(t)
  PROVE  TablesTyped' /\ Effect /\ OrdersFresh /\ NoClaims
<1>1. TablesTyped'
  BY DEF TablesTyped
<1>2. \A u \in Turn \ {t} : QuietMove(u)
  BY DEF TablesTyped, QuietMove, KeepsOthers, KeepsCalls
<1>3. \A u \in Turn : QuietMove(u)
  BY <1>2
<1>4. QED
  BY <1>1, <1>3, QuietEffect

LEMMA RenewEffect ==
  ASSUME TypeOK, \A t \in Turn : ConsistentTurn(t), NEW w \in Worker,
         worker[w].turn \in Turn, RenewLease(w)
  PROVE  TablesTyped' /\ Effect /\ OrdersFresh /\ NoClaims
<1> DEFINE t == worker[w].turn
           q == [turns[t] EXCEPT !.ttl = LeaseTicks]
<1>1. TablesTyped /\ turns[t].state = "running"
  BY TypedTables DEF RenewLease, Owned
<1>2. q \in TurnRow /\ LeaseStep(turns[t], q)
  BY <1>1, LeaseRow, TypeFacts
<1>3. turns' = [turns EXCEPT ![t] = q]
  BY DEF RenewLease, Renewed
<1>4. UNCHANGED <<attempts, calls, retried, answer>>
  BY DEF RenewLease
<1> HIDE DEF q
<1>5. /\ attempts' = [attempts EXCEPT ![t] = attempts[t]]
      /\ answer' = [answer EXCEPT ![t] = answer[t]]
      /\ attempts[t] \in Seq(Attempt) /\ answer[t] \in 0..MaximumAttempts
  BY <1>1, <1>4 DEF TablesTyped
<1>6. turns'[t] = q
  BY <1>1, <1>3 DEF TablesTyped
<1>7. QuietMove(t)
  BY <1>2, <1>4, <1>6 DEF QuietMove, KeepsOthers, KeepsCalls
<1>8. QED
  BY <1>1, <1>2, <1>3, <1>4, <1>5, <1>7, OneTurnMoves

LEMMA TickEffect ==
  ASSUME TypeOK, \A t \in Turn : ConsistentTurn(t), Tick
  PROVE  TablesTyped' /\ Effect /\ OrdersFresh /\ NoClaims
<1>1. TablesTyped
  BY TypedTables
<1>2. ASSUME NEW t \in Turn
      PROVE  turns'[t] \in TurnRow /\ QuietMove(t)
  <2>1. CASE t \in Leased
    <3> DEFINE n == turns[t].ttl - 1
    <3>1. turns'[t] = [turns[t] EXCEPT !.ttl = n]
      BY <2>1 DEF Tick
    <3>2. turns[t] \in TurnRow
      BY <1>1 DEF TablesTyped
    <3>3. turns[t].ttl \in 0..LeaseTicks
      BY <3>2 DEF TurnRow
    <3>4. n \in 0..LeaseTicks /\ turns[t].state = "running"
      BY <2>1, <3>3, ChatAssumption DEF Leased
    <3> HIDE DEF n
    <3>5. turns'[t] \in TurnRow /\ LeaseStep(turns[t], turns'[t])
      BY <1>1, <3>1, <3>4, LeaseRow
    <3>6. QED
      BY <3>5 DEF Tick, QuietMove, KeepsOthers, KeepsCalls
  <2>2. CASE t \notin Leased
    BY <1>1, <2>2 DEF Tick, TablesTyped, QuietMove, KeepsOthers, KeepsCalls
  <2>3. QED
    BY <2>1, <2>2
<1>3. turns' = [t \in Turn |-> turns'[t]]
  BY DEF Tick
<1>4. TablesTyped'
  BY <1>1, <1>2, <1>3 DEF TablesTyped, Tick
<1>5. QED
  BY <1>1, <1>2, <1>4, QuietEffect

(* A call of the current attempt is recorded by the owner of the turn. *)
LEMMA RecordEffect ==
  ASSUME TypeOK, \A t \in Turn : ConsistentTurn(t),
         NEW w \in Worker, NEW s \in Stage, NEW to \in CallStatus,
         worker[w].turn \in Turn, Owned(w),
         worker[w].attempt = turns[worker[w].turn].attemptCount,
         worker[w].pc # "entered",
         Follows(calls[worker[w].turn], worker[w].attempt, s, to),
         to \in FinalOutcome \cup {"response_received"} =>
           [turn |-> worker[w].turn, attempt |-> worker[w].attempt, stage |-> s] \notin working,
         calls' = Recorded(w, s, to),
         UNCHANGED <<turns, attempts, retried, answer>>
  PROVE  TablesTyped' /\ Effect /\ OrdersFresh /\ NoClaims
<1> DEFINE t == worker[w].turn
           n == worker[w].attempt
           call == [status |-> to, by |-> w]
           g == [calls[t][n] EXCEPT ![s] = call]
           d == [calls[t] EXCEPT ![n] = g]
<1>1. TablesTyped /\ turns[t].state = "running" /\ turns[t].owner = w /\ turns[t].ttl > 0
  BY TypedTables DEF Owned
<1>2. n \in AttemptNumber
  BY <1>1, RunningAttempt
<1>3. call \in Call
  BY DEF Call
<1>4. calls' = [calls EXCEPT ![t] = d]
  BY DEF Recorded
<1>5. d = [calls[t] EXCEPT ![turns[t].attemptCount][s] = call]
  OBVIOUS
<1> HIDE DEF call
<1>6. g \in [Stage -> Call]
  BY <1>1, <1>2, <1>3 DEF TablesTyped, Grid
<1> HIDE DEF g
<1>7. d \in Grid
  BY <1>1, <1>2, <1>6 DEF TablesTyped, Grid
<1> HIDE DEF d
<1>8. TablesTyped' /\ calls'[t] = d
  BY <1>1, <1>4, <1>7 DEF TablesTyped
<1>9. CallStep(turns[t], calls[t], calls'[t], w, s, to)
  BY <1>1, <1>5, <1>8 DEF CallStep, call
<1>10. CallRecorded(t, w, s, to)
  BY <1>9 DEF CallRecorded
<1>11. QuietMove(t)
  BY <1>10 DEF QuietMove
<1>12. \A u \in Turn \ {t} : QuietMove(u)
  BY <1>1, <1>4 DEF TablesTyped, QuietMove, KeepsOthers, KeepsCalls
<1>13. \A u \in Turn : QuietMove(u)
  BY <1>11, <1>12
<1>14. QED
  BY <1>1, <1>8, <1>13, QuietEffect

LEMMA PublishEffect ==
  ASSUME TypeOK, \A t \in Turn : ConsistentTurn(t),
         NEW w \in Worker, NEW how, NEW b,
         worker[w].turn \in Turn, worker[w].attempt = turns[worker[w].turn].attemptCount,
         \/ how = "answered" /\ b = worker[w].attempt /\ ReadyToAnswer(w)
         \/ how = "refused" /\ b = 0 /\ ReadyToRefuse(w),
         Publish(w, how, b)
  PROVE  TablesTyped' /\ Effect /\ OrdersFresh /\ NoClaims
<1> DEFINE t == worker[w].turn
           n == worker[w].attempt
           q == PublishedTurn(t, how)
           h == Closed(t, how)
<1>1. TablesTyped /\ turns[t].state = "running" /\ turns[t].owner = w /\ turns[t].ttl > 0
      /\ how \in {"answered", "refused"}
  BY TypedTables DEF Owned, Publish
<1>2. n \in {1, 2}
  BY <1>1, RunningAttempt, TypeFacts
<1>3. /\ q \in TurnRow /\ SameTurn(turns[t], q)
      /\ q.state = how /\ q.owner = NoWorker /\ q.attemptCount = turns[t].attemptCount
      /\ q.lock = FALSE /\ q.retryable = FALSE
  BY <1>1, PublishedRow
<1>4. how \in AttemptOutcome
  BY <1>1, TypeFacts
<1>5. ClosesAs(attempts[t], h, turns[t].attemptCount, how)
  BY <1>1, <1>4, ClosedCloses
<1>6. h \in Seq(Attempt) /\ b \in 0..MaximumAttempts
  BY <1>2, <1>5, TypeFacts DEF ClosesAs
<1>7. /\ turns' = [turns EXCEPT ![t] = q] /\ attempts' = [attempts EXCEPT ![t] = h]
      /\ answer' = [answer EXCEPT ![t] = b] /\ UNCHANGED <<calls, retried>>
  BY DEF Publish
<1> HIDE DEF q, h
<1>8. turns'[t] = q /\ attempts'[t] = h /\ answer'[t] = b /\ KeepsCalls(t)
  BY <1>1, <1>7 DEF TablesTyped, KeepsCalls
<1>9. \/ /\ how = "answered" /\ b = turns[t].attemptCount
         /\ calls[t][turns[t].attemptCount]["draft"].status = "draft_answer_validated"
         /\ calls[t][turns[t].attemptCount]["support"].status = "support_validated"
      \/ /\ how = "refused" /\ b = 0
         /\ calls[t][turns[t].attemptCount]["draft"].status = "draft_refusal"
         /\ calls[t][turns[t].attemptCount]["support"].status = "none"
  <2>1. "draft" \in Stage /\ "support" \in Stage /\ Mine(w) = calls[t][turns[t].attemptCount]
    BY TypeFacts DEF Mine
  <2>2. ASSUME ReadyToAnswer(w)
        PROVE  /\ Mine(w)["draft"].status = "draft_answer_validated"
               /\ Mine(w)["support"].status = "support_validated"
    BY <2>1, <2>2 DEF ReadyToAnswer
  <2>3. ASSUME ReadyToRefuse(w)
        PROVE  /\ Mine(w)["draft"].status = "draft_refusal"
               /\ Mine(w)["support"].status = "none"
    BY <2>1, <2>3 DEF ReadyToRefuse, NoCall
  <2>4. QED
    BY <2>1, <2>2, <2>3
<1>10. PublishStep(turns[t], attempts[t], calls[t], q, h, b, how)
  BY <1>1, <1>3, <1>5, <1>9 DEF PublishStep
<1>11. QuietMove(t)
  BY <1>8, <1>10 DEF QuietMove
<1>12. QED
  BY <1>1, <1>3, <1>6, <1>7, <1>11, OneTurnMoves DEF q

LEMMA SettleEffect ==
  ASSUME TypeOK, \A t \in Turn : ConsistentTurn(t), NEW w \in Worker,
         worker[w].turn \in Turn, Settle(w)
  PROVE  Effect /\ OrdersFresh /\ NoClaims
<1> DEFINE t == worker[w].turn
           v == worker[w].verdict
           how == IF v = "interrupt" THEN "interrupted" ELSE "failed"
           again == v # "final"
           q == FailedTurn(t, again)
           h == Closed(t, how)
<1>1. CASE v = "nothing"
  BY <1>1, UnchangedTables DEF Settle
<1>2. CASE v # "nothing"
  <2>1. TablesTyped /\ turns[t].state = "running" /\ how \in Ended /\ again \in BOOLEAN
    BY <1>2, TypedTables DEF Settle, Owned, Ended
  <2>2. /\ turns' = [turns EXCEPT ![t] = q] /\ attempts' = [attempts EXCEPT ![t] = h]
        /\ UNCHANGED <<calls, retried, answer>>
    BY <1>2 DEF Settle
  <2> HIDE DEF again, how
  <2>3. /\ q \in TurnRow /\ h \in Seq(Attempt)
        /\ FailStep(turns[t], attempts[t], calls[t], q, h, how)
    BY <2>1, FailedRow
  <2> HIDE DEF q, h
  <2>4. answer[t] \in 0..MaximumAttempts /\ answer' = [answer EXCEPT ![t] = answer[t]]
    BY <2>1, <2>2 DEF TablesTyped
  <2>5. turns'[t] = q /\ attempts'[t] = h /\ KeepsCalls(t) /\ answer'[t] = answer[t]
    BY <2>1, <2>2 DEF TablesTyped, KeepsCalls
  <2>6. QuietMove(t)
    BY <2>3, <2>5 DEF QuietMove
  <2>7. QED
    BY <2>1, <2>2, <2>3, <2>4, <2>6, OneTurnMoves
<1>3. QED
  BY <1>1, <1>2

(* recoverStale and the rejections of claimNext, turn by turn. *)
LEMMA RecoveredMoves ==
  ASSUME TablesTyped, NEW t \in Turn, ConsistentTurn(t), t \in Stale,
         turns'[t] = RecoveredTurns[t], attempts'[t] = RecoveredAttempts[t],
         KeepsCalls(t), answer'[t] = answer[t]
  PROVE  turns'[t] \in TurnRow /\ attempts'[t] \in Seq(Attempt) /\ QuietMove(t)
<1>1. turns'[t] = FailedTurn(t, TRUE) /\ attempts'[t] = Closed(t, "recovered")
  BY DEF RecoveredTurns, RecoveredAttempts
<1>2. turns[t].state = "running" /\ "recovered" \in Ended
  BY DEF Stale, Ended
<1>3. /\ turns'[t] \in TurnRow /\ attempts'[t] \in Seq(Attempt)
      /\ FailStep(turns[t], attempts[t], calls[t], turns'[t], attempts'[t], "recovered")
  BY <1>1, <1>2, FailedRow
<1>4. QED
  BY <1>3 DEF QuietMove

LEMMA RejectingMoves ==
  ASSUME TablesTyped, NEW bad \in SUBSET Waiting, NEW t \in Turn, ConsistentTurn(t),
         turns'[t] = Rejecting(bad)[t], attempts'[t] = RecoveredAttempts[t],
         KeepsCalls(t), answer'[t] = answer[t]
  PROVE  turns'[t] \in TurnRow /\ attempts'[t] \in Seq(Attempt) /\ QuietMove(t)
<1>1. CASE t \in bad
  <2>1. turns[t].state = "queued" /\ t \notin Stale
    BY <1>1 DEF Waiting, Stale
  <2>2. turns'[t] = RejectedTurn(t) /\ attempts'[t] = attempts[t]
    BY <1>1, <2>1 DEF Rejecting, RecoveredAttempts
  <2>3. turns'[t] \in TurnRow /\ RejectStep(turns[t], calls[t], turns'[t])
    BY <2>1, <2>2, RejectedRow
  <2>4. attempts[t] \in Seq(Attempt)
    BY DEF TablesTyped
  <2>5. QED
    BY <2>2, <2>3, <2>4 DEF QuietMove, KeepsOthers
<1>2. CASE t \notin bad /\ t \in Stale
  <2>1. turns'[t] = RecoveredTurns[t]
    BY <1>2 DEF Rejecting
  <2>2. QED
    BY <1>2, <2>1, RecoveredMoves
<1>3. CASE t \notin bad /\ t \notin Stale
  <2>1. turns'[t] = turns[t] /\ attempts'[t] = attempts[t]
    BY <1>3 DEF Rejecting, RecoveredTurns, RecoveredAttempts
  <2>2. turns[t] \in TurnRow /\ attempts[t] \in Seq(Attempt)
    BY DEF TablesTyped
  <2>3. QED
    BY <2>1, <2>2 DEF QuietMove, KeepsOthers
<1>4. QED
  BY <1>1, <1>2, <1>3

(* Start recovers, a claim that finds nothing recovers and rejects. *)
LEMMA SweepEffect ==
  ASSUME TypeOK, \A t \in Turn : ConsistentTurn(t), NEW bad \in SUBSET Waiting,
         turns' = Rejecting(bad), attempts' = RecoveredAttempts,
         UNCHANGED <<calls, retried, answer>>
  PROVE  TablesTyped' /\ Effect /\ OrdersFresh /\ NoClaims
<1>1. TablesTyped
  BY TypedTables
<1>2. \A t \in Turn : turns'[t] \in TurnRow /\ attempts'[t] \in Seq(Attempt) /\ QuietMove(t)
  BY <1>1, RejectingMoves DEF KeepsCalls
<1>3. turns' = [t \in Turn |-> turns'[t]] /\ attempts' = [t \in Turn |-> attempts'[t]]
  BY DEF Rejecting, RecoveredAttempts
<1>4. TablesTyped'
  BY <1>1, <1>2, <1>3 DEF TablesTyped
<1>5. QED
  BY <1>1, <1>2, <1>4, QuietEffect

LEMMA StartEffect ==
  ASSUME TypeOK, \A t \in Turn : ConsistentTurn(t), NEW w \in Worker, Start(w)
  PROVE  TablesTyped' /\ Effect /\ OrdersFresh /\ NoClaims
<1>1. turns' = Rejecting({}) /\ attempts' = RecoveredAttempts
      /\ UNCHANGED <<calls, retried, answer>>
  BY DEF Start, Rejecting, RecoveredTurns
<1>2. QED
  BY <1>1, SweepEffect

LEMMA ClaimNothingEffect ==
  ASSUME TypeOK, \A t \in Turn : ConsistentTurn(t), NEW w \in Worker, ClaimNothing(w),
         UNCHANGED <<calls, retried, answer>>
  PROVE  TablesTyped' /\ Effect /\ OrdersFresh /\ NoClaims
<1> DEFINE bad == IF SlotTaken THEN {} ELSE Waiting
<1>1. bad \in SUBSET Waiting
  OBVIOUS
<1>2. turns' = Rejecting(bad) /\ attempts' = RecoveredAttempts
  BY DEF ClaimNothing
<1> HIDE DEF bad
<1>3. QED
  BY <1>1, <1>2, SweepEffect

LEMMA ClaimTurnEffect ==
  ASSUME TypeOK, \A u \in Turn : ConsistentTurn(u), OneRunning,
         NEW w \in Worker, NEW t \in Turn, ClaimTurn(w, t),
         UNCHANGED <<calls, retried, answer>>
  PROVE  /\ TablesTyped' /\ Effect /\ OrdersFresh
         /\ \A u \in Turn, v \in Worker \ {w} : turns'[u].owner = v => turns[u].owner = v
         /\ \A u \in Turn \ {t} : turns'[u].owner = w => turns[u].owner = w
         /\ turns'[t].attemptCount = turns[t].attemptCount + 1
         /\ turns[t].attemptCount \in {0, 1}
         /\ attempts'[t][turns[t].attemptCount + 1].by = w
<1> DEFINE bad == {u \in Waiting : turns[u].order < turns[t].order}
           new == [by |-> w, outcome |-> "running"]
           h == Append(attempts[t], new)
           q == ClaimedTurn(t, w)
<1>1. TablesTyped /\ turns[t] \in TurnRow /\ attempts[t] \in Seq(Attempt)
      /\ Len(attempts[t]) = turns[t].attemptCount
  BY TypedTables DEF TablesTyped, ConsistentTurn, Consistent, RowMatchesHistory
<1>2. /\ turns[t].state = "queued" /\ turns[t].attemptCount < MaximumAttempts
      /\ turns[t].attemptCount \in {0, 1} /\ t \notin Stale
  <2>1. turns[t].state = "queued" /\ turns[t].attemptCount < MaximumAttempts /\ t \notin Stale
    BY DEF ClaimTurn, Waiting, Servable, Stale
  <2>2. turns[t].attemptCount \in {0, 1, 2}
    BY <1>1, RowFields
  <2>3. QED
    BY <2>1, <2>2, TypeFacts
<1>3. q \in TurnRow /\ h \in Seq(Attempt) /\ ClaimStep(turns[t], attempts[t], q, h, w)
  BY <1>1, <1>2, ClaimedRow
<1>4. /\ turns' = [Rejecting(bad) EXCEPT ![t] = q]
      /\ attempts' = [RecoveredAttempts EXCEPT ![t] = Append(RecoveredAttempts[t], new)]
      /\ ~SlotTaken
  BY DEF ClaimTurn
<1>5. RecoveredAttempts[t] = attempts[t]
  BY <1>2 DEF RecoveredAttempts
<1>6. bad \in SUBSET Waiting
  OBVIOUS
<1>7. new \in Attempt /\ new.by = w
  BY DEF Attempt, AttemptOutcome
<1> HIDE DEF bad, q, new
<1>8. turns'[t] = q /\ attempts'[t] = h
  BY <1>4, <1>5 DEF Rejecting, RecoveredAttempts
<1>9. attempts'[t][turns[t].attemptCount + 1] = new
  BY <1>1, <1>2, <1>7, <1>8, AppendProperties
<1> HIDE DEF h
<1>10. \A u \in Turn \ {t} : /\ turns'[u] = Rejecting(bad)[u]
                             /\ attempts'[u] = RecoveredAttempts[u]
  BY <1>4 DEF Rejecting, RecoveredAttempts
<1>11. \A u \in Turn \ {t} :
         turns'[u] \in TurnRow /\ attempts'[u] \in Seq(Attempt) /\ QuietMove(u)
  BY <1>1, <1>6, <1>10, RejectingMoves DEF KeepsCalls
<1>12. Moves(t)
  BY <1>3, <1>8 DEF Moves, KeepsCalls
<1>13. turns' = [u \in Turn |-> turns'[u]] /\ attempts' = [u \in Turn |-> attempts'[u]]
  BY <1>4 DEF Rejecting, RecoveredAttempts
<1>14. TablesTyped'
  BY <1>1, <1>3, <1>8, <1>11, <1>13 DEF TablesTyped
<1>15. \A u \in Turn \ {t} :
         /\ turns[u].state = "absent" => turns'[u] = turns[u]
         /\ turns'[u].lock = TRUE => turns[u].lock = TRUE
         /\ turns'[u].state = "running" => turns[u].state = "running"
         /\ \A v \in Worker : turns'[u].owner = v => turns[u].owner = v
  BY <1>1, <1>11, <1>14, QuietColumns
<1>16. turns[t].lock = TRUE /\ turns'[t].owner = w /\ turns'[t].state = "running"
       /\ turns'[t].attemptCount = turns[t].attemptCount + 1
  BY <1>2, <1>3, <1>8 DEF ConsistentTurn, Consistent, RowMatchesCalls, ClaimStep
<1>17. LocksCarefully
  BY <1>15, <1>16 DEF LocksCarefully
<1>18. RunsAlone
  <2> SUFFICES ASSUME NEW u \in Turn \ {t}, turns'[u].state = "running" PROVE FALSE
    BY <1>15 DEF RunsAlone
  <2>1. turns[u].state = "running"
    BY <1>15
  <2>2. u \in Stale
    BY <1>4, <2>1 DEF SlotTaken
  <2>3. turns[u].state = "running" /\ u \notin bad
    BY <1>6, <2>1 DEF Waiting
  <2>4. turns'[u] = FailedTurn(u, TRUE)
    BY <1>10, <2>2, <2>3 DEF Rejecting, RecoveredTurns
  <2>5. turns'[u].state = "failed"
    <3>1. FailStep(turns[u], attempts[u], calls[u], FailedTurn(u, TRUE), Closed(u, "recovered"),
                   "recovered")
      BY <1>1, <2>1, FailedRow DEF Ended
    <3>2. QED
      BY <2>4, <3>1 DEF FailStep
  <2>6. QED
    BY <2>5
<1>19. OrdersFresh
  BY <1>2, <1>15 DEF OrdersFresh
<1>20. Effect
  BY <1>11, <1>12, <1>14, <1>17, <1>18 DEF Effect, Moves
<1>21. QED
  BY <1>2, <1>7, <1>9, <1>14, <1>15, <1>16, <1>19, <1>20

LEMMA EnqueueEffect ==
  ASSUME TypeOK, \A u \in Turn : ConsistentTurn(u), NEW t \in Turn, NEW r \in Run, Enqueue(t, r)
  PROVE  TablesTyped' /\ Effect /\ OrdersFresh /\ NoClaims
<1>1. TablesTyped /\ turns[t].state = "absent"
  BY TypedTables DEF Enqueue
<1>2. PICK n \in {turns[u].order + 1 : u \in Turn} :
        /\ \A u \in Turn : turns[u].order < n
        /\ turns' = [turns EXCEPT ![t] = [NoRow EXCEPT !.state = "queued", !.run = r,
                                                       !.order = n, !.lock = TRUE]]
  BY DEF Enqueue
<1> DEFINE q == [NoRow EXCEPT !.state = "queued", !.run = r, !.order = n, !.lock = TRUE]
<1>3. n \in Nat
  BY <1>1 DEF TablesTyped, TurnRow
<1>4. /\ q \in TurnRow
      /\ q.state = "queued" /\ q.lock = TRUE /\ q.attemptCount = 0
      /\ q.owner = NoWorker /\ q.retryable = FALSE /\ q.order = n /\ q.run = r
  BY <1>3, AskedRow
<1> HIDE DEF q
<1>5. /\ turns'[t] = q /\ UNCHANGED <<attempts, calls, retried, answer>>
      /\ \A u \in Turn \ {t} : turns'[u] = turns[u]
  BY <1>1, <1>2 DEF TablesTyped, q, Enqueue
<1>6. TablesTyped'
  BY <1>1, <1>2, <1>4, <1>5 DEF TablesTyped, q
<1>7. Moves(t)
  BY <1>1, <1>4, <1>5 DEF Moves, AskStep, KeepsOthers, KeepsCalls
<1>8. \A u \in Turn \ {t} : Moves(u)
  BY <1>5 DEF Moves, QuietMove, KeepsOthers, KeepsCalls
<1>9. LocksCarefully
  <2>1. \A u \in Turn \ {t} : ~(turns[u].run = r /\ turns[u].lock = TRUE)
    BY DEF Enqueue, LockedElsewhere
  <2>2. QED
    BY <1>4, <1>5, <2>1 DEF LocksCarefully
<1>10. RunsAlone
  BY <1>4, <1>5 DEF RunsAlone
<1>11. OrdersFresh
  <2>1. \A u \in Turn \ {t} : turns'[u].order # turns'[t].order
    <3>1. \A u \in Turn : turns[u].order \in Nat
      BY <1>1 DEF TablesTyped, TurnRow
    <3>2. QED
      BY <1>2, <1>3, <1>4, <1>5, <3>1
  <2>2. QED
    BY <1>5, <2>1 DEF OrdersFresh
<1>12. NoClaims
  BY <1>4, <1>5, ChatAssumption DEF NoClaims
<1>13. QED
  BY <1>6, <1>7, <1>8, <1>9, <1>10, <1>11, <1>12 DEF Effect

LEMMA RetryEffect ==
  ASSUME TypeOK, \A u \in Turn : ConsistentTurn(u), NEW t \in Turn, Retry(t)
  PROVE  TablesTyped' /\ Effect /\ OrdersFresh /\ NoClaims
<1> DEFINE r == turns[t]
           q == [r EXCEPT !.state = "queued", !.lock = TRUE, !.retryable = FALSE]
<1>1. TablesTyped /\ r \in TurnRow /\ r.state = "failed" /\ r.retryable = TRUE
  <2>1. TablesTyped /\ r \in TurnRow
    BY TypedTables DEF TablesTyped
  <2>2. r.state = "failed" /\ r.retryable
    BY DEF Retry, Retryable
  <2>3. QED
    BY <2>1, <2>2, RowFields
<1>2. turns' = [turns EXCEPT ![t] = q]
  BY DEF Retry
<1>3. /\ q \in TurnRow /\ SameTurn(r, q)
      /\ q.state = "queued" /\ q.lock = TRUE /\ q.attemptCount = r.attemptCount
      /\ q.owner = r.owner /\ q.retryable = FALSE
  BY <1>1 DEF TurnRow, SameTurn
<1> HIDE DEF q
<1>4. /\ turns'[t] = q /\ UNCHANGED <<attempts, calls, answer>>
      /\ retried'[t] = TRUE
      /\ \A u \in Turn \ {t} : turns'[u] = turns[u] /\ retried'[u] = retried[u]
  BY <1>1, <1>2 DEF TablesTyped, Retry
<1>5. TablesTyped'
  BY <1>1, <1>2, <1>3, <1>4 DEF TablesTyped, Retry
<1>6. RetryStep(turns[t], calls[t], turns'[t])
  BY <1>1, <1>3, <1>4 DEF RetryStep
<1>7. Moves(t)
  BY <1>4, <1>6 DEF Moves
<1>8. \A u \in Turn \ {t} : Moves(u)
  BY <1>4 DEF Moves, QuietMove, KeepsOthers, KeepsCalls
<1>9. LocksCarefully
  <2>1. \A u \in Turn \ {t} : ~(turns[u].run = r.run /\ turns[u].lock = TRUE)
    BY DEF Retry, LockedElsewhere
  <2>2. QED
    BY <1>3, <1>4, <2>1 DEF LocksCarefully, SameTurn
<1>10. RunsAlone
  BY <1>3, <1>4 DEF RunsAlone
<1>11. OrdersFresh
  BY <1>1, <1>4 DEF OrdersFresh
<1>12. NoClaims
  BY <1>3, <1>4 DEF NoClaims
<1>13. QED
  BY <1>5, <1>7, <1>8, <1>9, <1>10, <1>11, <1>12 DEF Effect

-----------------------------------------------------------------------------
(* Every action preserves the inductive invariant. *)

Sound ==
  /\ TypeOK' /\ Effect /\ OrdersFresh
  /\ \A v \in Worker : RemembersAttempt(v)'
  /\ RequestsUnanswered'

AtWork == InProcess \cup {"settling"}

(* The memory of one worker becomes m; it stays in its attempt or leaves it. *)
WorkerMoves(w, m) ==
  /\ worker' = [worker EXCEPT ![w] = m]
  /\ m.pc \in AtWork =>
       worker[w].pc \in AtWork /\ m.turn = worker[w].turn /\ m.attempt = worker[w].attempt
  /\ m.pc = "entered" =>
       \/ worker[w].pc = "entered" /\ m.stage = worker[w].stage
       \/ /\ calls' = calls
          /\ calls[worker[w].turn][worker[w].attempt][m.stage].status = "reserved"

LEMMA WorkersKeep ==
  ASSUME IInv, Effect, NoClaims,
         worker' = worker \/ \E w \in Worker, m \in WorkerState : WorkerMoves(w, m)
  PROVE  worker' \in [Worker -> WorkerState] /\ \A v \in Worker : RemembersAttempt(v)'
<1>1. /\ TablesTyped /\ (\A t \in Turn : ConsistentTurn(t))
      /\ worker \in [Worker -> WorkerState] /\ \A v \in Worker : RemembersAttempt(v)
  BY TypedTables DEF IInv, TypeOK
<1>2. worker' \in [Worker -> WorkerState]
  BY <1>1 DEF WorkerMoves
<1>3. ASSUME NEW v \in Worker
      PROVE  StaysAtWork(v)
  <2>1. \A t \in Turn : turns'[t].owner = v => turns[t].owner = v
    BY DEF NoClaims
  <2>2. CASE worker'[v] = worker[v]
    BY <2>1, <2>2 DEF StaysAtWork, Busy
  <2>3. CASE \E m \in WorkerState : WorkerMoves(v, m)
    <3>1. PICK m \in WorkerState : WorkerMoves(v, m)
      BY <2>3
    <3>2. worker'[v] = m
      BY <1>1, <3>1 DEF WorkerMoves
    <3>3. QED
      BY <2>1, <3>1, <3>2 DEF StaysAtWork, Busy, WorkerMoves, AtWork
  <2>4. QED
    BY <1>1, <2>2, <2>3 DEF WorkerMoves
<1>4. \A v \in Worker : RemembersAttempt(v)'
  BY <1>1, <1>2, <1>3, WorkerKeeps
<1>5. QED
  BY <1>2, <1>4

LEMMA Assemble ==
  ASSUME IInv, TablesTyped', Effect, OrdersFresh, NoClaims,
         working' \subseteq working,
         available' \in [Run -> BOOLEAN], faults' \in 0..MaxFaults,
         worker' = worker \/ \E w \in Worker, m \in WorkerState : WorkerMoves(w, m)
  PROVE  Sound
<1>1. worker' \in [Worker -> WorkerState] /\ \A v \in Worker : RemembersAttempt(v)'
  BY WorkersKeep
<1>2. RequestsUnanswered'
  BY RequestsKeep DEF IInv, TypeOK
<1>3. TypeOK'
  BY <1>1 DEF TypeOK, TablesTyped, Grid, IInv
<1>4. QED
  BY <1>1, <1>2, <1>3 DEF Sound

LEMMA BusyFacts ==
  ASSUME IInv, NEW w \in Worker, worker[w].pc \in AtWork
  PROVE  /\ worker[w] \in WorkerState
         /\ worker[w].turn \in Turn
         /\ worker[w].attempt \in 1..turns[worker[w].turn].attemptCount
         /\ attempts[worker[w].turn][worker[w].attempt].by = w
         /\ Owned(w) => worker[w].attempt = turns[worker[w].turn].attemptCount
BY DEF IInv, TypeOK, RemembersAttempt, Busy, AtWork, Owned

LEMMA IdleRecord ==
  ASSUME IInv, NEW w \in Worker, NEW p \in {"idle", "failed", "killed"}
  PROVE  LET m == [worker[w] EXCEPT !.pc = p, !.turn = NoTurn, !.attempt = 0,
                     !.stage = "draft", !.aborted = FALSE, !.verdict = "nothing"]
         IN  m \in WorkerState /\ m.pc = p /\ m.pc \notin AtWork /\ m.pc # "entered"
<1>1. worker[w] \in WorkerState
  BY DEF IInv, TypeOK
<1>2. p \notin AtWork /\ p # "entered"
  BY DEF AtWork, InProcess, FinalOutcome
<1> DEFINE m == [worker[w] EXCEPT !.pc = p, !.turn = NoTurn, !.attempt = 0,
                   !.stage = "draft", !.aborted = FALSE, !.verdict = "nothing"]
<1>3. 0 \in 0..MaximumAttempts /\ "draft" \in Stage
  BY TypeFacts
<1>4. m \in WorkerState /\ m.pc = p
  BY <1>1, <1>3 DEF WorkerState
<1> HIDE DEF m
<1>5. m \in WorkerState /\ m.pc = p /\ m.pc \notin AtWork /\ m.pc # "entered"
  BY <1>2, <1>4
<1>6. QED
  BY <1>5 DEF m

LEMMA IdleMoves ==
  ASSUME IInv, NEW w \in Worker, worker' = Idle(w)
  PROVE  \E m \in WorkerState : WorkerMoves(w, m)
<1> DEFINE m == [worker[w] EXCEPT !.pc = "idle", !.turn = NoTurn, !.attempt = 0,
                   !.stage = "draft", !.aborted = FALSE, !.verdict = "nothing"]
<1>1. m \in WorkerState /\ m.pc \notin AtWork /\ m.pc # "entered"
  BY IdleRecord
<1>2. worker' = [worker EXCEPT ![w] = m]
  BY DEF Idle
<1> HIDE DEF m
<1>3. QED
  BY <1>1, <1>2 DEF WorkerMoves

LEMMA GoneMoves ==
  ASSUME IInv, NEW w \in Worker, NEW p \in {"failed", "killed"},
         worker' = [Idle(w) EXCEPT ![w].pc = p]
  PROVE  \E m \in WorkerState : WorkerMoves(w, m)
<1> DEFINE i == [worker[w] EXCEPT !.pc = "idle", !.turn = NoTurn, !.attempt = 0,
                   !.stage = "draft", !.aborted = FALSE, !.verdict = "nothing"]
           m == [i EXCEPT !.pc = p]
<1>1. i \in WorkerState /\ worker \in [Worker -> WorkerState]
  BY IdleRecord DEF IInv, TypeOK
<1>2. Idle(w) = [worker EXCEPT ![w] = i]
  BY DEF Idle
<1> HIDE DEF i
<1>3. worker' = [worker EXCEPT ![w] = m]
  BY <1>1, <1>2
<1>4. m \in WorkerState /\ m.pc = p
  BY <1>1 DEF WorkerState
<1> HIDE DEF m
<1>5. m.pc \notin AtWork /\ m.pc # "entered"
  BY <1>4 DEF AtWork, InProcess, FinalOutcome
<1>6. QED
  BY <1>3, <1>4, <1>5 DEF WorkerMoves

LEMMA CaughtMoves ==
  ASSUME IInv, NEW w \in Worker, NEW how \in {"retryable", "final"}, Caught(w, how),
         worker[w].pc \in AtWork
  PROVE  \E m \in WorkerState : WorkerMoves(w, m)
<1> DEFINE v == IF ~Owned(w) THEN "nothing" ELSE IF worker[w].aborted THEN "interrupt" ELSE how
           m == [worker[w] EXCEPT !.pc = "settling", !.verdict = v]
<1>1. worker \in [Worker -> WorkerState] /\ v \in {"nothing", "interrupt", "retryable", "final"}
  BY DEF IInv, TypeOK
<1>2. worker' = [worker EXCEPT ![w].pc = "settling", ![w].verdict = v]
  BY DEF Caught
<1> HIDE DEF v
<1>3. worker' = [worker EXCEPT ![w] = m]
  BY <1>1, <1>2
<1>4. m \in WorkerState /\ m.pc = "settling" /\ m.turn = worker[w].turn
      /\ m.attempt = worker[w].attempt
  BY <1>1 DEF WorkerState
<1> HIDE DEF m
<1>5. QED
  BY <1>3, <1>4 DEF WorkerMoves

(* The program counter and perhaps the stage change, within the attempt. *)
LEMMA StageMoves ==
  ASSUME IInv, NEW w \in Worker, NEW p \in InProcess, NEW s \in Stage,
         worker[w].pc \in AtWork,
         worker' = [worker EXCEPT ![w].pc = p, ![w].stage = s],
         p = "entered" =>
           /\ calls' = calls
           /\ calls[worker[w].turn][worker[w].attempt][s].status = "reserved"
  PROVE  \E m \in WorkerState : WorkerMoves(w, m)
<1> DEFINE m == [worker[w] EXCEPT !.pc = p, !.stage = s]
<1>1. worker \in [Worker -> WorkerState]
  BY DEF IInv, TypeOK
<1>2. worker' = [worker EXCEPT ![w] = m]
  BY <1>1
<1>3. m \in WorkerState /\ m.pc = p /\ m.turn = worker[w].turn /\ m.stage = s
      /\ m.attempt = worker[w].attempt
  BY <1>1 DEF WorkerState
<1> HIDE DEF m
<1>4. QED
  BY <1>2, <1>3 DEF WorkerMoves

LEMMA PhaseMoves ==
  ASSUME IInv, NEW w \in Worker, NEW p \in InProcess,
         worker[w].pc \in AtWork,
         worker' = [worker EXCEPT ![w].pc = p],
         p = "entered" =>
           /\ calls' = calls
           /\ calls[worker[w].turn][worker[w].attempt][worker[w].stage].status = "reserved"
  PROVE  \E m \in WorkerState : WorkerMoves(w, m)
<1> DEFINE m == [worker[w] EXCEPT !.pc = p]
<1>1. worker \in [Worker -> WorkerState]
  BY DEF IInv, TypeOK
<1>2. worker' = [worker EXCEPT ![w] = m]
  BY <1>1
<1>3. m \in WorkerState /\ m.pc = p /\ m.turn = worker[w].turn /\ m.stage = worker[w].stage
      /\ m.attempt = worker[w].attempt
  BY <1>1 DEF WorkerState
<1> HIDE DEF m
<1>4. QED
  BY <1>2, <1>3 DEF WorkerMoves

LEMMA Parts ==
  ASSUME IInv
  PROVE  /\ TypeOK /\ TablesTyped
         /\ \A t \in Turn : ConsistentTurn(t)
         /\ available \in [Run -> BOOLEAN] /\ faults \in 0..MaxFaults /\ faults + 1 \in Nat
BY TypedTables, ChatAssumption DEF IInv, TypeOK

LEMMA FaultCounts ==
  ASSUME IInv, faults < MaxFaults, faults' = faults + 1
  PROVE  faults' \in 0..MaxFaults
BY ChatAssumption DEF IInv, TypeOK

LEMMA ApiSound ==
  ASSUME IInv,
         \E t \in Turn : Retry(t) \/ \E r \in Run : Enqueue(t, r)
  PROVE  Sound
<1>1. TablesTyped' /\ Effect /\ OrdersFresh /\ NoClaims
  BY Parts, RetryEffect, EnqueueEffect
<1>2. UNCHANGED <<available, working, worker, faults>>
  BY DEF Retry, Enqueue
<1>3. QED
  BY <1>1, <1>2, Parts, Assemble

LEMMA StartSound ==
  ASSUME IInv, NEW w \in Worker, Start(w)
  PROVE  Sound
<1> DEFINE m == [worker[w] EXCEPT !.pc = "idle"]
<1>1. TablesTyped' /\ Effect /\ OrdersFresh /\ NoClaims
  BY Parts, StartEffect
<1>2. UNCHANGED <<available, working, faults>> /\ worker' = [worker EXCEPT ![w] = m]
  BY DEF Start
<1>3. m \in WorkerState /\ m.pc = "idle"
  BY DEF IInv, TypeOK, WorkerState
<1> HIDE DEF m
<1>4. WorkerMoves(w, m)
  BY <1>2, <1>3 DEF WorkerMoves, AtWork, InProcess, FinalOutcome
<1>5. QED
  BY <1>1, <1>2, <1>3, <1>4, Parts, Assemble

LEMMA ClaimTurnSound ==
  ASSUME IInv, NEW w \in Worker, NEW t \in Turn, worker[w].pc = "idle", ClaimTurn(w, t),
         UNCHANGED <<calls, retried, answer, available, working, faults>>
  PROVE  Sound
<1> DEFINE n == turns[t].attemptCount + 1
           m == [worker[w] EXCEPT !.pc = "claimed", !.turn = t, !.attempt = n, !.stage = "draft",
                                  !.aborted = FALSE]
<1>1. /\ TablesTyped' /\ Effect /\ OrdersFresh
      /\ \A u \in Turn, v \in Worker \ {w} : turns'[u].owner = v => turns[u].owner = v
      /\ \A u \in Turn \ {t} : turns'[u].owner = w => turns[u].owner = w
      /\ turns'[t].attemptCount = n
      /\ turns[t].attemptCount \in {0, 1}
      /\ attempts'[t][n].by = w
  <2>1. OneRunning
    BY DEF IInv
  <2>2. QED
    BY <2>1, Parts, ClaimTurnEffect
<1>2. worker \in [Worker -> WorkerState] /\ worker' = [worker EXCEPT ![w] = m]
  BY DEF IInv, TypeOK, ClaimTurn
<1>3. n \in 0..MaximumAttempts /\ "draft" \in Stage /\ n \in 1..n
  BY <1>1, TypeFacts
<1> HIDE DEF n
<1>4. m \in WorkerState /\ m.pc = "claimed" /\ m.turn = t /\ m.attempt = n
  BY <1>2, <1>3 DEF WorkerState, InProcess
<1> HIDE DEF m
<1>5. worker' \in [Worker -> WorkerState] /\ worker'[w] = m
  BY <1>2, <1>4
<1>6. RemembersAttempt(w)'
  BY <1>1, <1>3, <1>4, <1>5 DEF RemembersAttempt
<1>7. ASSUME NEW v \in Worker \ {w}
      PROVE  RemembersAttempt(v)'
  <2>1. worker'[v] = worker[v]
    BY <1>2
  <2>2. StaysAtWork(v)
    BY <1>1, <2>1 DEF StaysAtWork, Busy
  <2>3. RemembersAttempt(v)
    BY DEF IInv
  <2>4. QED
    BY <1>1, <1>2, <1>5, <2>2, <2>3, Parts, WorkerKeeps
<1>8. RequestsUnanswered'
  BY <1>1, Parts, RequestsKeep DEF IInv, TypeOK
<1>9. TypeOK'
  BY <1>1, <1>5, Parts DEF TypeOK, TablesTyped, Grid
<1>10. QED
  BY <1>1, <1>6, <1>7, <1>8, <1>9 DEF Sound

LEMMA ClaimNextSound ==
  ASSUME IInv, NEW w \in Worker, ClaimNext(w)
  PROVE  Sound
<1>1. CASE ClaimNothing(w)
  <2>1. UNCHANGED <<calls, retried, answer, available, working, faults>>
    BY DEF ClaimNext
  <2>2. TablesTyped' /\ Effect /\ OrdersFresh /\ NoClaims
    BY <1>1, <2>1, Parts, ClaimNothingEffect
  <2>3. worker' = worker
    BY <1>1 DEF ClaimNothing
  <2>4. QED
    BY <2>1, <2>2, <2>3, Parts, Assemble
<1>2. CASE \E t \in Turn : ClaimTurn(w, t)
  BY <1>2, ClaimTurnSound DEF ClaimNext
<1>3. QED
  BY <1>1, <1>2 DEF ClaimNext

(* The steps of a worker at work *)

LEMMA RenewSound ==
  ASSUME IInv, NEW w \in Worker, RenewLease(w)
  PROVE  Sound
<1>1. worker[w].pc \in AtWork
  BY DEF RenewLease, AtWork, InProcess
<1>2. TablesTyped' /\ Effect /\ OrdersFresh /\ NoClaims
  BY <1>1, Parts, BusyFacts, RenewEffect
<1>3. UNCHANGED <<available, working, worker, faults>>
  BY DEF RenewLease
<1>4. QED
  BY <1>2, <1>3, Parts, Assemble

LEMMA HeartbeatSound ==
  ASSUME IInv, NEW w \in Worker, HeartbeatFails(w)
  PROVE  Sound
<1> DEFINE m == [worker[w] EXCEPT !.aborted = TRUE]
<1>1. TablesTyped' /\ Effect /\ OrdersFresh /\ NoClaims
      /\ UNCHANGED <<available, working, faults>>
  BY Parts, UnchangedTables DEF HeartbeatFails, TablesTyped
<1>2. worker[w].pc = "waiting" /\ worker' = [worker EXCEPT ![w] = m]
  BY DEF HeartbeatFails
<1>3. m \in WorkerState /\ m.pc = "waiting" /\ m.turn = worker[w].turn
      /\ m.attempt = worker[w].attempt
  BY <1>2 DEF IInv, TypeOK, WorkerState
<1> HIDE DEF m
<1>4. WorkerMoves(w, m)
  BY <1>2, <1>3 DEF WorkerMoves, AtWork, InProcess
<1>5. QED
  BY <1>1, <1>3, <1>4, Parts, Assemble

LEMMA ReserveSound ==
  ASSUME IInv, NEW w \in Worker, NEW s \in Stage, ReserveProviderCall(w, s)
  PROVE  Sound
<1>1. worker[w].pc \in AtWork /\ worker[w].pc # "entered" /\ Owned(w)
  BY DEF ReserveProviderCall, AtWork, InProcess, FinalOutcome
<1>2. worker[w].turn \in Turn /\ worker[w].attempt = turns[worker[w].turn].attemptCount
  BY <1>1, BusyFacts
<1>3. Follows(calls[worker[w].turn], worker[w].attempt, s, "reserved")
  BY TypeFacts DEF ReserveProviderCall, Follows, Mine
<1>4. calls' = Recorded(w, s, "reserved") /\ UNCHANGED <<turns, attempts, retried, answer>>
      /\ UNCHANGED <<available, working, faults>>
  BY DEF ReserveProviderCall
<1>5. "reserved" \in CallStatus /\ "reserved" \notin FinalOutcome \cup {"response_received"}
  BY DEF CallStatus, Unconfirmed, FinalOutcome
<1>6. TablesTyped' /\ Effect /\ OrdersFresh /\ NoClaims
  BY <1>1, <1>2, <1>3, <1>4, <1>5, Parts, RecordEffect
<1>7. \E m \in WorkerState : WorkerMoves(w, m)
  <2>1. worker' = [worker EXCEPT ![w].pc = "reserved", ![w].stage = s]
        /\ "reserved" \in InProcess
    BY DEF ReserveProviderCall, InProcess
  <2>2. QED
    BY <1>1, <2>1, StageMoves
<1>8. QED
  BY <1>4, <1>6, <1>7, Parts, Assemble

LEMMA EnterSound ==
  ASSUME IInv, NEW w \in Worker, EnterStage(w)
  PROVE  Sound
<1>1. TablesTyped' /\ Effect /\ OrdersFresh /\ NoClaims
      /\ UNCHANGED <<available, working, faults>>
  BY Parts, UnchangedTables DEF EnterStage, TablesTyped
<1>2. /\ worker[w].pc \in AtWork /\ "entered" \in InProcess
      /\ worker' = [worker EXCEPT ![w].pc = "entered"]
      /\ calls' = calls
      /\ calls[worker[w].turn][worker[w].attempt][worker[w].stage].status = "reserved"
  BY DEF EnterStage, AtWork, InProcess, Current, Mine
<1>3. \E m \in WorkerState : WorkerMoves(w, m)
  BY <1>2, PhaseMoves
<1>4. QED
  BY <1>1, <1>3, Parts, Assemble

LEMMA SendSound ==
  ASSUME IInv, NEW w \in Worker, SendRequest(w)
  PROVE  Sound
<1> DEFINE q == MyRequest(w)
<1>1. TablesTyped' /\ Effect /\ OrdersFresh /\ NoClaims
      /\ UNCHANGED <<calls, available, faults>>
  BY Parts, UnchangedTables DEF SendRequest, TablesTyped
<1>2. worker[w].pc = "entered" /\ worker[w].pc \in AtWork /\ "waiting" \in InProcess
      /\ worker' = [worker EXCEPT ![w].pc = "waiting"] /\ working' = working \cup {q}
  BY DEF SendRequest, AtWork, InProcess
<1>3. \E m \in WorkerState : WorkerMoves(w, m)
  BY <1>2, PhaseMoves
<1>4. worker' \in [Worker -> WorkerState] /\ \A v \in Worker : RemembersAttempt(v)'
  BY <1>1, <1>3, WorkersKeep
<1>5. q \in Request /\ q.turn = worker[w].turn /\ q.attempt = worker[w].attempt
      /\ q.stage = worker[w].stage
  <2>1. worker[w] \in WorkerState /\ worker[w].turn \in Turn
        /\ worker[w].attempt \in 1..turns[worker[w].turn].attemptCount
    BY <1>2, BusyFacts
  <2>2. worker[w].attempt \in AttemptNumber /\ worker[w].stage \in Stage
    BY <2>1, TypeFacts DEF WorkerState, AttemptNumber, MaximumAttempts
  <2>3. QED
    BY <2>1, <2>2 DEF MyRequest, Request
<1>6. calls[q.turn][q.attempt][q.stage].status = "reserved"
  BY <1>2, <1>5 DEF IInv, RemembersAttempt, Busy, InProcess
<1> HIDE DEF q
<1>7. RequestsUnanswered'
  BY <1>1, <1>2, <1>6 DEF IInv, RequestsUnanswered
<1>8. TypeOK'
  BY <1>1, <1>2, <1>4, <1>5, Parts DEF TypeOK, TablesTyped, Grid
<1>9. QED
  BY <1>1, <1>4, <1>7, <1>8 DEF Sound

LEMMA ReceiveSound ==
  ASSUME IInv, NEW w \in Worker, ReceiveResponse(w)
  PROVE  Sound
<1> DEFINE s == worker[w].stage
<1>1. worker[w].pc \in AtWork /\ worker[w].pc # "entered" /\ Owned(w)
  BY DEF ReceiveResponse, AtWork, InProcess, MayRecord
<1>2. worker[w].turn \in Turn /\ worker[w].attempt = turns[worker[w].turn].attemptCount
      /\ s \in Stage
  BY <1>1, BusyFacts DEF WorkerState
<1>3. Follows(calls[worker[w].turn], worker[w].attempt, s, "response_received")
  BY DEF ReceiveResponse, MayRecord, Current, Mine, Follows
<1>4. calls' = Recorded(w, s, "response_received") /\ UNCHANGED <<turns, attempts, retried, answer>>
      /\ UNCHANGED <<available, working, faults>>
  BY DEF ReceiveResponse
<1>5. /\ "response_received" \in CallStatus
      /\ [turn |-> worker[w].turn, attempt |-> worker[w].attempt, stage |-> s] \notin working
  BY DEF CallStatus, Unconfirmed, ReceiveResponse, MyRequest
<1>6. TablesTyped' /\ Effect /\ OrdersFresh /\ NoClaims
  BY <1>1, <1>2, <1>3, <1>4, <1>5, Parts, RecordEffect
<1>7. \E m \in WorkerState : WorkerMoves(w, m)
  <2>1. worker' = [worker EXCEPT ![w].pc = "received"] /\ "received" \in InProcess
    BY DEF ReceiveResponse, InProcess
  <2>2. QED
    BY <1>1, <2>1, PhaseMoves
<1>8. QED
  BY <1>4, <1>6, <1>7, Parts, Assemble

LEMMA FinalizeSound ==
  ASSUME IInv, NEW w \in Worker, NEW o \in FinalOutcome, FinalizeCall(w, o)
  PROVE  Sound
<1> DEFINE s == worker[w].stage
           q == [turn |-> worker[w].turn, attempt |-> worker[w].attempt, stage |-> s]
<1>1. worker[w].pc \in AtWork /\ worker[w].pc # "entered" /\ Owned(w)
  BY DEF FinalizeCall, AtWork, InProcess, MayRecord
<1>2. worker[w].turn \in Turn /\ worker[w].attempt = turns[worker[w].turn].attemptCount
      /\ s \in Stage
  BY <1>1, BusyFacts DEF WorkerState
<1>3. calls[worker[w].turn][worker[w].attempt][s].status = "response_received"
  BY DEF FinalizeCall, MayRecord, Current, Mine
<1>4. Follows(calls[worker[w].turn], worker[w].attempt, s, o)
  BY <1>3 DEF Follows
<1>5. calls' = Recorded(w, s, o) /\ UNCHANGED <<turns, attempts, retried, answer>>
      /\ UNCHANGED <<available, working, faults>>
  BY DEF FinalizeCall
<1>6. o \in CallStatus /\ q \notin working
  <2>1. q \in working => calls[q.turn][q.attempt][q.stage].status \in {"reserved", "ambiguous"}
    BY DEF IInv, RequestsUnanswered
  <2>2. QED
    BY <1>3, <2>1 DEF CallStatus
<1>7. TablesTyped' /\ Effect /\ OrdersFresh /\ NoClaims
  BY <1>1, <1>2, <1>4, <1>5, <1>6, Parts, RecordEffect
<1>8. \E m \in WorkerState : WorkerMoves(w, m)
  <2>1. worker' = [worker EXCEPT ![w].pc = o] /\ o \in InProcess /\ o # "entered"
    BY DEF FinalizeCall, InProcess, FinalOutcome
  <2>2. QED
    BY <1>1, <2>1, PhaseMoves
<1>9. QED
  BY <1>5, <1>7, <1>8, Parts, Assemble

LEMMA PublishSound ==
  ASSUME IInv, NEW w \in Worker, CompleteAnswer(w) \/ CompleteRefusal(w)
  PROVE  Sound
<1>1. PICK how, b : /\ Publish(w, how, b)
                    /\ \/ how = "answered" /\ b = worker[w].attempt /\ ReadyToAnswer(w)
                       \/ how = "refused" /\ b = 0 /\ ReadyToRefuse(w)
  BY DEF CompleteAnswer, CompleteRefusal
<1>2. worker[w].pc \in AtWork
  BY DEF CompleteAnswer, CompleteRefusal, AtWork, InProcess, FinalOutcome
<1>3. Owned(w) /\ worker' = Idle(w) /\ UNCHANGED <<available, working, faults>>
  BY <1>1 DEF Publish
<1>4. worker[w].turn \in Turn /\ worker[w].attempt = turns[worker[w].turn].attemptCount
  BY <1>2, <1>3, BusyFacts
<1>5. TablesTyped' /\ Effect /\ OrdersFresh /\ NoClaims
  BY <1>1, <1>4, Parts, PublishEffect
<1>6. QED
  BY <1>3, <1>5, Parts, IdleMoves, Assemble

(* Errors, stop signals, crashes, the clock and the world outside *)

LEMMA RequestFailsSound ==
  ASSUME IInv, NEW w \in Worker, NEW how \in {"retryable", "final"}, RequestFails(w, how)
  PROVE  Sound
<1> DEFINE s == worker[w].stage
<1>1. worker[w].pc \in AtWork /\ worker[w].pc # "entered" /\ Owned(w)
  BY DEF RequestFails, AtWork, InProcess, MayRecord
<1>2. worker[w].turn \in Turn /\ worker[w].attempt = turns[worker[w].turn].attemptCount
      /\ s \in Stage
  BY <1>1, BusyFacts DEF WorkerState
<1>3. Follows(calls[worker[w].turn], worker[w].attempt, s, "ambiguous")
  BY DEF RequestFails, MayRecord, Current, Mine, Follows
<1>4. calls' = Recorded(w, s, "ambiguous") /\ UNCHANGED <<turns, attempts, retried, answer>>
      /\ UNCHANGED <<available, working, faults>> /\ Caught(w, how)
  BY DEF RequestFails
<1>5. "ambiguous" \in CallStatus /\ "ambiguous" \notin FinalOutcome \cup {"response_received"}
  BY DEF CallStatus, Unconfirmed, FinalOutcome
<1>6. TablesTyped' /\ Effect /\ OrdersFresh /\ NoClaims
  BY <1>1, <1>2, <1>3, <1>4, <1>5, Parts, RecordEffect
<1>7. QED
  BY <1>1, <1>4, <1>6, Parts, CaughtMoves, Assemble

LEMMA CaughtSound ==
  ASSUME IInv, NEW w \in Worker, NEW how \in {"retryable", "final"},
         ProcessorThrows(w, how) \/ StoreRefuses(w)
  PROVE  Sound
<1>1. worker[w].pc \in AtWork
  BY DEF ProcessorThrows, StoreRefuses, AtWork, InProcess, FinalOutcome
<1>2. PICK x \in {"retryable", "final"} : Caught(w, x)
  BY DEF ProcessorThrows, StoreRefuses
<1>3. UNCHANGED <<turns, attempts, calls, retried, answer, available, working, faults>>
  BY DEF ProcessorThrows, StoreRefuses
<1>4. TablesTyped' /\ Effect /\ OrdersFresh /\ NoClaims
  BY <1>3, Parts, UnchangedTables DEF TablesTyped
<1>5. QED
  BY <1>1, <1>2, <1>3, <1>4, Parts, CaughtMoves, Assemble

LEMMA SettleSound ==
  ASSUME IInv, NEW w \in Worker, Settle(w) \/ SettleThrows(w)
  PROVE  Sound
<1>1. worker[w].pc \in AtWork
  BY DEF Settle, SettleThrows, AtWork
<1>2. UNCHANGED <<available, working, faults>>
  BY DEF Settle, SettleThrows
<1>3. CASE Settle(w)
  <2>1. Effect /\ OrdersFresh /\ NoClaims /\ worker' = Idle(w)
    BY <1>1, <1>3, Parts, BusyFacts, SettleEffect DEF Settle
  <2>2. QED
    BY <1>2, <2>1, Parts, IdleMoves, Assemble DEF Effect
<1>4. CASE SettleThrows(w)
  <2>1. Effect /\ OrdersFresh /\ NoClaims
    BY <1>4, Parts, UnchangedTables DEF SettleThrows
  <2>2. \E m \in WorkerState : WorkerMoves(w, m)
    BY <1>4, GoneMoves DEF SettleThrows
  <2>3. QED
    BY <1>2, <2>1, <2>2, Parts, Assemble DEF Effect
<1>5. QED
  BY <1>3, <1>4

LEMMA SignalSound ==
  ASSUME IInv, NEW w \in Worker, Stop(w) \/ Exit(w) \/ Crash(w)
  PROVE  Sound
<1>1. UNCHANGED <<turns, attempts, calls, retried, answer, available, working>>
  BY DEF Stop, Exit, Crash
<1>2. Effect /\ OrdersFresh /\ NoClaims
  BY <1>1, Parts, UnchangedTables
<1>3. faults' \in 0..MaxFaults
  BY Parts, FaultCounts DEF Stop, Exit, Crash
<1>4. \E m \in WorkerState : WorkerMoves(w, m)
  <2>1. worker[w] \in WorkerState /\ worker \in [Worker -> WorkerState]
    BY DEF IInv, TypeOK
  <2>2. CASE Stop(w)
    <3> DEFINE a == worker[w].pc = "waiting"
               m == [worker[w] EXCEPT !.stopping = TRUE, !.aborted = a]
    <3>1. a \in BOOLEAN
      OBVIOUS
    <3>2. worker' = [worker EXCEPT ![w].stopping = TRUE, ![w].aborted = a]
          /\ worker[w].pc # "entered"
      BY <2>2 DEF Stop
    <3> HIDE DEF a
    <3>3. worker' = [worker EXCEPT ![w] = m]
      BY <2>1, <3>2
    <3>4. m \in WorkerState /\ m.pc = worker[w].pc /\ m.turn = worker[w].turn
          /\ m.attempt = worker[w].attempt
      BY <2>1, <3>1 DEF WorkerState
    <3> HIDE DEF m
    <3>5. QED
      BY <3>2, <3>3, <3>4 DEF WorkerMoves
  <2>3. CASE Exit(w)
    <3> DEFINE m == [worker[w] EXCEPT !.pc = "exited"]
    <3>1. worker' = [worker EXCEPT ![w] = m]
      BY <2>3 DEF Exit
    <3>2. m \in WorkerState /\ m.pc = "exited"
      BY <2>1 DEF WorkerState
    <3> HIDE DEF m
    <3>3. QED
      BY <3>1, <3>2 DEF WorkerMoves, AtWork, InProcess, FinalOutcome
  <2>4. CASE Crash(w)
    BY <2>4, GoneMoves DEF Crash
  <2>5. QED
    BY <2>2, <2>3, <2>4
<1>5. QED
  BY <1>1, <1>2, <1>3, <1>4, Parts, Assemble DEF Effect

LEMMA TickSound ==
  ASSUME IInv, Tick
  PROVE  Sound
<1>1. TablesTyped' /\ Effect /\ OrdersFresh /\ NoClaims
  BY Parts, TickEffect
<1>2. UNCHANGED <<available, working, worker>>
  BY DEF Tick
<1>3. faults' \in 0..MaxFaults
  BY Parts, FaultCounts DEF Tick
<1>4. QED
  BY <1>1, <1>2, <1>3, Parts, Assemble

LEMMA OutsideSound ==
  ASSUME IInv, (\E q \in working : ProviderEnds(q)) \/ \E r \in Run : Withdraw(r)
  PROVE  Sound
<1>1. UNCHANGED <<turns, attempts, calls, retried, answer, worker, faults>>
  BY DEF ProviderEnds, Withdraw
<1>2. Effect /\ OrdersFresh /\ NoClaims
  BY <1>1, Parts, UnchangedTables
<1>3. working' \subseteq working /\ available' \in [Run -> BOOLEAN]
  BY Parts DEF ProviderEnds, Withdraw
<1>4. QED
  BY <1>1, <1>2, <1>3, Parts, Assemble DEF Effect

LEMMA NextSound ==
  ASSUME IInv, Next
  PROVE  Sound
<1>1. CASE \E t \in Turn : Retry(t) \/ \E r \in Run : Enqueue(t, r)
  BY <1>1, ApiSound
<1>2. ASSUME NEW w \in Worker, Start(w) \/ ClaimNext(w) \/ Stop(w) \/ Exit(w) \/ Crash(w)
      PROVE  Sound
  BY <1>2, StartSound, ClaimNextSound, SignalSound
<1>3. ASSUME NEW w \in Worker, Processes(w)
      PROVE  Sound
  BY <1>3, RenewSound, HeartbeatSound, ReserveSound, EnterSound, SendSound, ReceiveSound,
     FinalizeSound, PublishSound DEF Processes
<1>4. ASSUME NEW w \in Worker, Errs(w)
      PROVE  Sound
  BY <1>4, RequestFailsSound, CaughtSound, SettleSound DEF Errs
<1>5. CASE (\E q \in working : ProviderEnds(q)) \/ \E r \in Run : Withdraw(r)
  BY <1>5, OutsideSound
<1>6. CASE Tick
  BY <1>6, TickSound
<1>7. QED
  BY <1>1, <1>2, <1>3, <1>4, <1>5, <1>6 DEF Next

-----------------------------------------------------------------------------
(* The inductive invariant holds and implies the properties. *)

LEMMA InitInv ==
  ASSUME Init
  PROVE  IInv
<1>1. NoRow \in TurnRow /\ NoCall \in Call /\ DownWorker \in WorkerState
  BY TypeFacts DEF NoRow, TurnRow, NoCall, Call, CallStatus, DownWorker, WorkerState,
                   MaximumAttempts
<1>2. TypeOK
  BY <1>1, ChatAssumption DEF Init, TypeOK, MaximumAttempts
<1>3. /\ NoRow.state = "absent" /\ NoRow.attemptCount = 0 /\ NoRow.owner = NoWorker
      /\ NoRow.lock = FALSE /\ NoRow.retryable = FALSE
      /\ NoCall.status = "none" /\ NoCall.by = NoWorker /\ DownWorker.pc = "down"
  BY DEF NoRow, NoCall, DownWorker
<1>4. ASSUME NEW t \in Turn
      PROVE  ConsistentTurn(t)
  <2>1. /\ turns[t] = NoRow /\ attempts[t] = <<>> /\ retried[t] = FALSE /\ answer[t] = 0
        /\ \A n \in AttemptNumber, s \in Stage : calls[t][n][s] = NoCall
    BY DEF Init
  <2>2. Typed(turns[t], attempts[t], calls[t], retried[t], answer[t])
    BY <1>2 DEF TypeOK, Typed, Grid
  <2>3. RowMatchesHistory(turns[t], attempts[t])
    BY <1>3, <2>1 DEF RowMatchesHistory
  <2>4. CallsMatchHistory(turns[t], attempts[t], calls[t])
    BY <1>3, <2>1, TypeFacts DEF CallsMatchHistory
  <2>5. RowMatchesCalls(turns[t], calls[t]) /\ PublicationRules(turns[t], calls[t], answer[t])
    BY <1>3, <2>1 DEF RowMatchesCalls, PublicationRules
  <2>6. RetryRules(turns[t], calls[t], retried[t])
    BY <1>3, <2>1 DEF RetryRules
  <2>7. QED
    BY <2>2, <2>3, <2>4, <2>5, <2>6 DEF ConsistentTurn, Consistent
<1>5. LocksDisjoint /\ OneRunning
  BY <1>3 DEF Init, LocksDisjoint, OneRunning
<1>6. (\A w \in Worker : RemembersAttempt(w)) /\ RequestsUnanswered
  BY <1>3 DEF Init, RemembersAttempt, Busy, InProcess, FinalOutcome, RequestsUnanswered
<1>7. QED
  BY <1>2, <1>4, <1>5, <1>6 DEF IInv

LEMMA NextInv ==
  ASSUME IInv, Next
  PROVE  IInv' /\ SchemaAccepts
<1>1. Sound
  BY NextSound
<1>2. TablesTyped /\ (\A t \in Turn : ConsistentTurn(t)) /\ LocksDisjoint /\ OneRunning
  BY Parts DEF IInv
<1>3. (\A t \in Turn : ConsistentTurn(t)') /\ LocksDisjoint' /\ OneRunning' /\ SchemaAccepts
  BY <1>1, <1>2, EffectKeeps, EffectAccepted DEF Sound
<1>4. QED
  BY <1>1, <1>3 DEF Sound, IInv

LEMMA StutterInv ==
  ASSUME IInv, UNCHANGED vars
  PROVE  IInv'
BY DEF IInv, vars, TypeOK, ConsistentTurn, LocksDisjoint, OneRunning, RemembersAttempt,
   Busy,
       RequestsUnanswered

LEMMA Inductive == Spec => []IInv
<1>1. IInv /\ [Next]_vars => IInv'
  BY NextInv, StutterInv
<1>2. QED
  BY <1>1, InitInv, PTL DEF Spec

-----------------------------------------------------------------------------
(* Theorems *)

(* The tables and the memory of the workers keep the types of the module.   *)
THEOREM ChatTypes == Spec => []TypeOK
<1>1. IInv => TypeOK
  BY DEF IInv
<1>2. QED
  BY <1>1, Inductive, PTL

(* The attempts agree with the turn through every claim, recovery, stop and *)
(* retry (chatStore.ts: claimNext, recoverStale, failAttempt, complete).    *)
THEOREM ChatHistoryMatchesTurn == Spec => []HistoryMatchesTurn
<1>1. ASSUME IInv
      PROVE  HistoryMatchesTurn
  <2> SUFFICES ASSUME NEW t \in Turn
               PROVE  LET n == turns[t].attemptCount
                      IN  /\ Len(attempts[t]) = n
                          /\ n = 2 =>
                               attempts[t][1].outcome \in {"failed", "interrupted", "recovered"}
                          /\ turns[t].state = "running" =>
                               /\ n > 0
                               /\ attempts[t][n] = [by |-> turns[t].owner, outcome |-> "running"]
                          /\ turns[t].state \in {"answered", "refused"} =>
                               n > 0 /\ attempts[t][n].outcome = turns[t].state
                          /\ turns[t].state \in {"absent", "queued", "failed"} /\ n > 0 =>
                               attempts[t][n].outcome \in {"failed", "interrupted", "recovered"}
    BY DEF HistoryMatchesTurn
  <2> DEFINE n == turns[t].attemptCount
  <2>1. RowMatchesHistory(turns[t], attempts[t]) /\ attempts[t] \in Seq(Attempt)
        /\ n \in {0, 1, 2}
    BY <1>1, RowFields DEF IInv, ConsistentTurn, Consistent, Typed
  <2>2. turns[t].state = "running" =>
          n > 0 /\ attempts[t][n] = [by |-> turns[t].owner, outcome |-> "running"]
    <3> SUFFICES ASSUME turns[t].state = "running"
                 PROVE  n > 0 /\ attempts[t][n] = [by |-> turns[t].owner, outcome |-> "running"]
      OBVIOUS
    <3>1. /\ n > 0 /\ n \in 1..Len(attempts[t])
          /\ attempts[t][n].by = turns[t].owner /\ attempts[t][n].outcome = "running"
      BY <2>1 DEF RowMatchesHistory
    <3>2. QED
      BY <2>1, <3>1, AttemptEntry
  <2>3. QED
    BY <2>1, <2>2 DEF RowMatchesHistory, Ended
<1>2. QED
  BY <1>1, Inductive, PTL

(* An answer is published only by the attempt, and the worker, whose draft  *)
(* and support calls were both accepted, a refusal only after a refusal,    *)
(* and no other turn shows claims (chatStore.ts: complete and               *)
(* assertProviderCallsReadyForPublication).                                 *)
THEOREM ChatPublicationIsValidated == Spec => []PublicationIsValidated
<1>1. ASSUME IInv
      PROVE  PublicationIsValidated
  <2> SUFFICES ASSUME NEW t \in Turn
               PROVE  LET n  == turns[t].attemptCount
                          by == attempts[t][n].by
                      IN  /\ turns[t].state = "answered" =>
                               /\ answer[t] = n
                               /\ calls[t][n]["draft"] =
                                    [status |-> "draft_answer_validated", by |-> by]
                               /\ calls[t][n]["support"] =
                                    [status |-> "support_validated", by |-> by]
                          /\ turns[t].state = "refused" =>
                               /\ calls[t][n]["draft"] = [status |-> "draft_refusal", by |-> by]
                               /\ calls[t][n]["support"].status = "none"
                          /\ turns[t].state # "answered" => answer[t] = 0
    BY DEF PublicationIsValidated
  <2> DEFINE n == turns[t].attemptCount
             by == attempts[t][n].by
  <2>1. /\ RowMatchesHistory(turns[t], attempts[t]) /\ calls[t] \in Grid
        /\ CallsMatchHistory(turns[t], attempts[t], calls[t])
        /\ PublicationRules(turns[t], calls[t], answer[t]) /\ n \in {0, 1, 2}
    BY <1>1, RowFields DEF IInv, ConsistentTurn, Consistent, Typed
  <2>2. ASSUME turns[t].state \in {"answered", "refused"}, NEW s \in Stage,
               calls[t][n][s].status # "none"
        PROVE  calls[t][n][s] = [status |-> calls[t][n][s].status, by |-> by]
    <3>1. n \in AttemptNumber
      BY <2>1, <2>2, TypeFacts DEF RowMatchesHistory
    <3>2. calls[t][n][s].by = by
      BY <2>1, <2>2, <3>1 DEF CallsMatchHistory
    <3>3. calls[t][n][s] = [status |-> calls[t][n][s].status, by |-> calls[t][n][s].by]
      BY <2>1, <3>1, CallEntry
    <3>4. QED
      BY <3>2, <3>3
  <2>3. CASE turns[t].state = "answered"
    <3>1. /\ answer[t] = n
          /\ calls[t][n]["draft"].status = "draft_answer_validated"
          /\ calls[t][n]["support"].status = "support_validated"
      BY <2>1, <2>3 DEF PublicationRules
    <3>2. QED
      BY <2>2, <2>3, <3>1, TypeFacts
  <2>4. CASE turns[t].state = "refused"
    <3>1. /\ answer[t] = 0
          /\ calls[t][n]["draft"].status = "draft_refusal"
          /\ calls[t][n]["support"].status = "none"
      BY <2>1, <2>4 DEF PublicationRules
    <3>2. QED
      BY <2>2, <2>4, <3>1, TypeFacts
  <2>5. CASE turns[t].state \notin {"answered", "refused"}
    BY <2>1, <2>5 DEF PublicationRules
  <2>6. QED
    BY <2>3, <2>4, <2>5
<1>2. QED
  BY <1>1, Inductive, PTL

(* A second attempt takes a user's retry, offered and accepted only when    *)
(* every call of the first attempt is finalized (chatStore.ts: retryTurn).  *)
THEOREM ChatRetryIsSafe == Spec => []RetryIsSafe
<1>1. ASSUME IInv
      PROVE  RetryIsSafe
  <2> SUFFICES ASSUME NEW t \in Turn
               PROVE  /\ turns[t].attemptCount = 2 => retried[t]
                      /\ turns[t].retryable =>
                           turns[t].state = "failed" /\ turns[t].attemptCount = 1 /\ ~retried[t]
                      /\ retried[t] =>
                           turns[t].attemptCount = 2 \/ turns[t].state \in {"queued", "failed"}
                      /\ retried[t] \/ turns[t].retryable =>
                           \A s \in Stage : calls[t][1][s].status \notin Unconfirmed
    BY DEF RetryIsSafe
  <2>1. RetryRules(turns[t], calls[t], retried[t]) /\ retried[t] \in BOOLEAN
        /\ turns[t].retryable \in BOOLEAN
    BY <1>1, RowFields DEF IInv, ConsistentTurn, Consistent, Typed
  <2>2. QED
    BY <2>1 DEF RetryRules, Open
<1>2. QED
  BY <1>1, Inductive, PTL

(* Two requests about one episode are never executed at once by the         *)
(* provider, although they outlive workers and leases (openai.ts, and the   *)
(* episode lock of chatStore.ts).                                           *)
THEOREM ChatOneRequestPerEpisode == Spec => []OneRequestPerEpisode
<1>1. ASSUME IInv
      PROVE  OneRequestPerEpisode
  <2> SUFFICES ASSUME NEW p \in working, NEW q \in working,
                      turns[p.turn].run = turns[q.turn].run
               PROVE  p = q
    BY DEF OneRequestPerEpisode
  <2>1. ASSUME NEW x \in working
        PROVE  /\ x.turn \in Turn /\ x.attempt \in AttemptNumber /\ x.stage \in Stage
               /\ x = [turn |-> x.turn, attempt |-> x.attempt, stage |-> x.stage]
               /\ calls[x.turn][x.attempt][x.stage].status \in {"reserved", "ambiguous"}
               /\ ConsistentTurn(x.turn)
    BY <1>1 DEF IInv, TypeOK, Request, RequestsUnanswered
  <2>2. ASSUME NEW x \in working
        PROVE  /\ turns[x.turn].lock = TRUE
               /\ x.attempt = turns[x.turn].attemptCount
               /\ x.stage = "support" \/ calls[x.turn][x.attempt]["support"].status = "none"
    <3> DEFINE t == x.turn
               n == x.attempt
               s == x.stage
               r == turns[t]
               c == calls[t]
    <3>1. /\ t \in Turn /\ n \in AttemptNumber /\ s \in Stage
          /\ c[n][s].status \in {"reserved", "ambiguous"} /\ r \in TurnRow
          /\ RowMatchesHistory(r, attempts[t]) /\ CallsMatchHistory(r, attempts[t], c)
          /\ RowMatchesCalls(r, c) /\ RetryRules(r, c, retried[t])
          /\ PublicationRules(r, c, answer[t])
      BY <2>1 DEF ConsistentTurn, Consistent, Typed
    <3> HIDE DEF t, n, s, r, c
    <3>2. n <= r.attemptCount /\ r.attemptCount \in {0, 1, 2} /\ n \in {1, 2}
      BY <3>1, RowFields, TypeFacts DEF CallsMatchHistory
    <3>3. Open(c, n)
      BY <3>1 DEF Open, Unconfirmed
    <3>4. n = r.attemptCount
      BY <3>1, <3>2, <3>3 DEF RetryRules
    <3>5. s = "support" \/ c[n]["support"].status = "none"
      BY <3>1, TypeFacts DEF CallsMatchHistory
    <3>6. r.state \notin {"answered", "refused"}
      BY <3>1, <3>4, <3>5, TypeFacts DEF PublicationRules
    <3>7. r.state # "absent"
      BY <3>1, <3>2 DEF RowMatchesHistory
    <3>8. Used(c)
      BY <3>1 DEF Used
    <3>9. r.lock = TRUE
      BY <3>1, <3>6, <3>7, <3>8, RowFields DEF RowMatchesCalls
    <3>10. QED
      BY <3>4, <3>5, <3>9 DEF t, n, s, r, c
  <2>3. p.turn = q.turn
    BY <1>1, <2>1, <2>2 DEF IInv, LocksDisjoint
  <2>4. p.attempt = q.attempt
    BY <2>2, <2>3
  <2>5. p.stage = q.stage
    <3>1. ASSUME NEW x \in working, NEW y \in working, x.turn = y.turn, x.attempt = y.attempt,
                 x.stage = "support"
          PROVE  y.stage = "support"
      <4>1. calls[y.turn][y.attempt]["support"].status # "none"
        BY <2>1, <3>1
      <4>2. QED
        BY <2>2, <4>1
    <3>2. p.stage \in {"draft", "support"} /\ q.stage \in {"draft", "support"}
      BY <2>1, TypeFacts
    <3>3. QED
      BY <2>3, <2>4, <3>1, <3>2
  <2>6. QED
    BY <2>1, <2>3, <2>4, <2>5
<1>2. QED
  BY <1>1, Inductive, PTL

(* No interleaving makes the store issue a write that a trigger, a check or *)
(* a unique index of migration 008 would abort (migrations.ts).             *)
THEOREM ChatSchemaAcceptsEveryWrite == Spec => SchemaAcceptsEveryWrite
<1>1. IInv /\ [Next]_vars => [SchemaAccepts]_vars
  BY NextInv
<1>2. QED
  BY <1>1, Inductive, PTL DEF Spec, SchemaAcceptsEveryWrite, SchemaAccepts

=============================================================================
