----------------------- MODULE EpisodePipeline_proofs -----------------------
(***************************************************************************)
(* Proofs about EpisodePipeline.  The type invariant is strengthened by    *)
(* what a worker holds in each phase (Typed).  The evidence changes only   *)
(* from empty to what was collected, which gives the two theorems about    *)
(* the snapshot.  Disclosure is the inductive form of OpenAiSeesPublicOnly: *)
(* every row, stored or in a worker's memory, carries the scope of the     *)
(* item it copies, and a worker past the authorization holds only rows     *)
(* that the providers of the request may see.                              *)
(***************************************************************************)
EXTENDS EpisodePipeline, TLAPS

Scripted == {"written", "cleaning", "opening", "speaking", "fencing", "moving", "describing", "publishing"}

(* What a worker holds in each phase. *)
Held(w) ==
  /\ wk[w].pc \in Working => wk[w].attempt \in 1..job.attempt
  /\ wk[w].pc \in Scripted => wk[w].script \in Script

Typed == TypeOK /\ \A w \in Worker : Held(w)

LEMMA RestingIsMemory == Idle \in Memory /\ Down \in Memory /\ Idle.pc = "idle" /\ Down.pc = "down"
                         /\ Idle.rows = {} /\ Down.rows = {}
BY PipelineAssumption DEF Idle, Down, Memory, Working

LEMMA Replaced ==
  ASSUME wk \in [Worker -> Memory], NEW w \in Worker, NEW m \in Memory, wk' = [wk EXCEPT ![w] = m]
  PROVE  /\ wk' \in [Worker -> Memory] /\ wk'[w] = m
         /\ \A v \in Worker : v # w => wk'[v] = wk[v]
OBVIOUS

LEMMA GoIs ==
  ASSUME wk \in [Worker -> Memory], NEW w \in Worker, NEW pc \in Working, Go(w, pc)
  PROVE  /\ wk' \in [Worker -> Memory]
         /\ wk'[w].pc = pc /\ wk'[w].attempt = wk[w].attempt /\ wk'[w].todo = wk[w].todo
         /\ wk'[w].rows = wk[w].rows /\ wk'[w].script = wk[w].script /\ wk'[w].audio = wk[w].audio
         /\ \A v \in Worker : v # w => wk'[v] = wk[v]
<1> DEFINE m == [wk[w] EXCEPT !.pc = pc]
<1>1. m \in Memory
  BY DEF Memory
<1> QED
  BY <1>1 DEF Go, Memory

LEMMA RestIs ==
  ASSUME wk \in [Worker -> Memory], NEW w \in Worker, Leave(w) \/ Gone(w)
  PROVE  /\ wk' \in [Worker -> Memory]
         /\ wk'[w].pc \in {"idle", "down"} /\ wk'[w].pc \notin Working /\ wk'[w].rows = {}
         /\ \A v \in Worker : v # w => wk'[v] = wk[v]
<1>1. wk'[w].pc \in {"idle", "down"} /\ wk'[w].rows = {}
  BY RestingIsMemory DEF Leave, Gone
<1>2. wk' \in [Worker -> Memory] /\ \A v \in Worker : v # w => wk'[v] = wk[v]
  BY RestingIsMemory DEF Leave, Gone
<1> QED
  BY <1>1, <1>2 DEF Working

LEMMA FailsIs ==
  ASSUME TypeOK, NEW w \in Worker, NEW again \in BOOLEAN, Fails(w, again)
  PROVE  /\ wk' \in [Worker -> Memory]
         /\ wk'[w].pc \in {"idle", "down"} /\ wk'[w].pc \notin Working /\ wk'[w].rows = {}
         /\ \A v \in Worker : v # w => wk'[v] = wk[v]
         /\ job' \in JobRow /\ job'.attempt = job.attempt
         /\ job' = job \/ (job.state = "running" /\ job'.state = "failed" /\ job'.leased = FALSE)
         /\ temps' = temps \ TakesOf(w) /\ files' = files
<1>1. Leave(w) \/ Gone(w)
  BY DEF Fails
<1>2. /\ job' \in JobRow /\ job'.attempt = job.attempt
      /\ job' = job \/ (job.state = "running" /\ job'.state = "failed" /\ job'.leased = FALSE)
  <2> DEFINE m == [job EXCEPT !.state = "failed", !.owner = NoWorker, !.leased = FALSE, !.retryable = again]
  <2>1. m \in JobRow /\ m.attempt = job.attempt /\ m.state = "failed" /\ m.leased = FALSE
    BY DEF TypeOK, JobRow
  <2> HIDE DEF m
  <2>2. CASE Owned(w) /\ job' = m
    BY <2>1, <2>2 DEF Owned
  <2>3. CASE job' = job
    BY <2>3 DEF TypeOK
  <2> QED
    BY <2>2, <2>3 DEF Fails, m
<1> QED
  BY <1>1, <1>2, RestIs DEF Fails, TypeOK

LEMMA FencedIs ==
  ASSUME TypeOK, NEW w \in Worker, NEW pc \in Working, Fenced(w, pc)
  PROVE  /\ wk' \in [Worker -> Memory]
         /\ \/ /\ Owned(w) /\ wk'[w].pc = pc /\ temps' = temps
               /\ wk'[w].attempt = wk[w].attempt /\ wk'[w].todo = wk[w].todo
               /\ wk'[w].rows = wk[w].rows /\ wk'[w].script = wk[w].script /\ wk'[w].audio = wk[w].audio
            \/ /\ ~Owned(w) /\ wk'[w].pc \in {"idle", "down"} /\ wk'[w].pc \notin Working
               /\ wk'[w].rows = {} /\ temps' = temps \ TakesOf(w)
         /\ \A v \in Worker : v # w => wk'[v] = wk[v]
<1>1. CASE Owned(w) /\ Go(w, pc) /\ UNCHANGED temps
  BY <1>1, GoIs DEF TypeOK
<1>2. CASE ~Owned(w) /\ Gone(w) /\ temps' = temps \ TakesOf(w)
  BY <1>2, RestIs DEF TypeOK
<1> QED
  BY <1>1, <1>2 DEF Fenced

(* Others hold what they held while the attempt does not fall. *)
LEMMA OthersHold ==
  ASSUME TypeOK, NEW v \in Worker, wk'[v] = wk[v], Held(v), job' \in JobRow, job'.attempt >= job.attempt
  PROVE  Held(v)'
BY DEF Held, TypeOK, JobRow, Memory

LEMMA RestersHold ==
  ASSUME NEW v \in Worker, wk'[v].pc \notin Working
  PROVE  Held(v)'
BY DEF Held, Working, Scripted

LEMMA HolderGoesOn ==
  ASSUME TypeOK, NEW w \in Worker, Held(w), wk[w].pc \in Working,
         wk'[w].attempt = wk[w].attempt, wk'[w].script = wk[w].script,
         wk'[w].pc \in Scripted => wk[w].pc \in Scripted, job' = job
  PROVE  Held(w)'
BY DEF Held

LEMMA InitTyped == Init => Typed
<1> SUFFICES ASSUME Init PROVE Typed
  OBVIOUS
<1>1. job \in JobRow
  BY PipelineAssumption DEF Init, JobRow
<1>2. items \in [Source -> Item] /\ captured \in [Source -> Capture]
  BY DEF Init, Item, Capture, Scope, Fetched, NoItem
<1>3. wk \in [Worker -> Memory] /\ \A w \in Worker : Held(w)
  BY RestingIsMemory DEF Init, Held, Working, Scripted
<1>4. episode \in Episode /\ files \in [Script -> Audio \cup {NoAudio}]
  BY DEF Init, NoEpisode, Episode, NoAudio
<1>5. edits \in 0..MaxEdits /\ faults \in 0..MaxFaults
  BY PipelineAssumption DEF Init
<1>6. url \in [Source -> Url \cup {NoUrl}]
  BY PipelineAssumption DEF Init
<1> QED
  BY <1>1, <1>2, <1>3, <1>4, <1>5, <1>6 DEF Init, Typed, TypeOK

(* The closing step of every action of a worker: its own memory is typed    *)
(* and held, the others' is as before.                                      *)
LEMMA WorkerStepIsTyped ==
  ASSUME Typed, NEW w \in Worker, UNCHANGED <<setup, url, edits>>,
         wk' \in [Worker -> Memory], Held(w)', \A v \in Worker : v # w => wk'[v] = wk[v],
         job' \in JobRow, job'.attempt >= job.attempt,
         items' \in [Source -> Item], captured' \in [Source -> Capture], evidence' \subseteq Row,
         temps' \subseteq Audio, files' \in [Script -> Audio \cup {NoAudio}],
         episode' \in Episode, disclosed' \subseteq FeedRow, faults' \in 0..MaxFaults
  PROVE  Typed'
<1>1. TypeOK'
  BY DEF Typed, TypeOK
<1>2. ASSUME NEW v \in Worker PROVE Held(v)'
  BY OthersHold DEF Typed
<1> QED
  BY <1>1, <1>2 DEF Typed

LEMMA MemoryStepIsTyped ==
  ASSUME Typed, NEW w \in Worker,
         UNCHANGED <<setup, job, url, items, captured, evidence, temps, files, episode, disclosed,
                     edits, faults>>,
         wk' \in [Worker -> Memory], Held(w)', \A v \in Worker : v # w => wk'[v] = wk[v]
  PROVE  Typed'
<1>1. TypeOK'
  BY DEF Typed, TypeOK
<1>2. job' \in JobRow /\ job'.attempt >= job.attempt
  BY DEF Typed, TypeOK, JobRow
<1>3. ASSUME NEW v \in Worker PROVE Held(v)'
  BY <1>2, OthersHold DEF Typed
<1> QED
  BY <1>1, <1>3 DEF Typed

-----------------------------------------------------------------------------
(* Type correctness, one action at a time *)

LEMMA ClaimTyped ==
  ASSUME Typed, NEW w \in Worker, Claim(w)
  PROVE  Typed'
<1> DEFINE m == [Idle EXCEPT !.pc = "claimed", !.attempt = job.attempt + 1]
           j == [state |-> "running", owner |-> w, leased |-> TRUE, attempt |-> job.attempt + 1,
                 retryable |-> FALSE]
<1>1. job.attempt \in 0..MaxAttempts /\ job.attempt + 1 \in 0..MaxAttempts /\ job.attempt + 1 \in 1..(job.attempt + 1)
  BY PipelineAssumption DEF Claim, Typed, TypeOK, JobRow
<1>2. m \in Memory /\ m.pc = "claimed" /\ m.attempt = job.attempt + 1
  BY <1>1, PipelineAssumption DEF Memory, Idle, Working
<1>3. j \in JobRow /\ j.attempt = job.attempt + 1
  BY <1>1 DEF JobRow
<1>4. wk' = [wk EXCEPT ![w] = m] /\ job' = j
  BY DEF Claim
<1> HIDE DEF m, j
<1>5. wk' \in [Worker -> Memory] /\ wk'[w] = m /\ \A v \in Worker : v # w => wk'[v] = wk[v]
  BY <1>2, <1>4 DEF Typed, TypeOK
<1>6. Held(w)'
  BY <1>1, <1>2, <1>3, <1>4, <1>5 DEF Held, Scripted
<1>7. job'.attempt >= job.attempt
  BY <1>1, <1>3, <1>4
<1> QED
  BY <1>3, <1>4, <1>5, <1>6, <1>7, WorkerStepIsTyped DEF Claim, Typed, TypeOK, InputsUnchanged, MediaUnchanged

LEMMA BeginTyped ==
  ASSUME Typed, NEW w \in Worker, Begin(w)
  PROVE  Typed'
<1> DEFINE m == [wk[w] EXCEPT !.pc = "syncing", !.todo = IF evidence = {} THEN Source ELSE {}]
<1>1. m \in Memory /\ m.pc = "syncing" /\ m.attempt = wk[w].attempt
  BY DEF Typed, TypeOK, Memory, Working
<1>2. wk' = [wk EXCEPT ![w] = m]
  BY DEF Begin, Typed, TypeOK
<1> HIDE DEF m
<1>3. wk' \in [Worker -> Memory] /\ wk'[w] = m /\ \A v \in Worker : v # w => wk'[v] = wk[v]
  BY <1>1, <1>2 DEF Typed, TypeOK
<1>4. Held(w)'
  BY <1>1, <1>3 DEF Held, Scripted, Begin, At, Typed, Working
<1> QED
  BY <1>3, <1>4, MemoryStepIsTyped DEF Begin, InputsUnchanged, MediaUnchanged

LEMMA JobStays == ASSUME TypeOK, job' = job PROVE job' \in JobRow /\ job'.attempt >= job.attempt
BY DEF TypeOK, JobRow

LEMMA RecordedIs ==
  ASSUME TypeOK, NEW s \in Source, NEW status \in {"success", "not_modified", "error"},
         NEW scope \in Scope \cup {"keep"}, Recorded(s, status, scope)
  PROVE  captured' \in [Source -> Capture]
<1> DEFINE c == [captured[s] EXCEPT !.status = status, !.scope = IF scope = "keep" THEN @ ELSE scope]
<1>1. c \in Capture
  BY DEF TypeOK, Capture, Scope, Fetched
<1>2. captured' = [captured EXCEPT ![s] = c]
  BY DEF Recorded, TypeOK, Capture
<1> HIDE DEF c
<1> QED
  BY <1>1, <1>2 DEF TypeOK

LEMMA Next1Is ==
  ASSUME TypeOK, NEW w \in Worker, NEW s \in Source, Next1(w, s)
  PROVE  /\ wk' \in [Worker -> Memory]
         /\ wk'[w].pc = wk[w].pc /\ wk'[w].attempt = wk[w].attempt /\ wk'[w].rows = wk[w].rows
         /\ wk'[w].script = wk[w].script /\ wk'[w].audio = wk[w].audio
         /\ \A v \in Worker : v # w => wk'[v] = wk[v]
<1> DEFINE m == [wk[w] EXCEPT !.todo = @ \ {s}]
<1>1. m \in Memory
  BY DEF TypeOK, Memory
<1> QED
  BY <1>1 DEF Next1, TypeOK, Memory

LEMMA StoredItem ==
  ASSUME TypeOK, NEW s \in Source, NEW u \in Url, NEW scope \in Fetched
  PROVE  [items EXCEPT ![s] = [url |-> u, scope |-> scope]] \in [Source -> Item]
<1>1. [url |-> u, scope |-> scope] \in Item
  BY DEF Item, Scope
<1> QED
  BY <1>1 DEF TypeOK

LEMMA SyncFailsTyped ==
  ASSUME Typed, NEW w \in Worker, NEW s \in Source, SyncFails(w, s)
  PROVE  Typed'
<1>1. captured' \in [Source -> Capture]
  BY RecordedIs DEF SyncFails, Typed
<1>2. items' \in [Source -> Item]
  BY DEF SyncFails, Typed, TypeOK
<1>3. wk' \in [Worker -> Memory] /\ Held(w)' /\ \A v \in Worker : v # w => wk'[v] = wk[v]
  BY Next1Is DEF SyncFails, At, Held, Typed, Working, Scripted
<1>4. job' \in JobRow /\ job'.attempt >= job.attempt
  BY JobStays DEF SyncFails, Typed
<1> QED
  BY <1>1, <1>2, <1>3, <1>4, WorkerStepIsTyped DEF SyncFails, Typed, TypeOK, MediaUnchanged

LEMMA SyncStoresTyped ==
  ASSUME Typed, NEW w \in Worker, NEW s \in Source, NEW scope \in Fetched, SyncStores(w, s, scope)
  PROVE  Typed'
<1>1. captured' \in [Source -> Capture]
  BY RecordedIs DEF SyncStores, Typed, Scope, Fetched
<1>2. items' \in [Source -> Item]
  BY PipelineAssumption, StoredItem DEF SyncStores, Typed, TypeOK
<1>3. wk' \in [Worker -> Memory] /\ Held(w)' /\ \A v \in Worker : v # w => wk'[v] = wk[v]
  BY Next1Is DEF SyncStores, At, Held, Typed, Working, Scripted
<1>4. job' \in JobRow /\ job'.attempt >= job.attempt
  BY JobStays DEF SyncStores, Typed
<1> QED
  BY <1>1, <1>2, <1>3, <1>4, WorkerStepIsTyped DEF SyncStores, Typed, TypeOK, MediaUnchanged

LEMMA SyncUnmodifiedTyped ==
  ASSUME Typed, NEW w \in Worker, NEW s \in Source, NEW scope \in Fetched, SyncUnmodified(w, s, scope)
  PROVE  Typed'
<1>1. captured' \in [Source -> Capture]
  BY RecordedIs DEF SyncUnmodified, Typed, Scope, Fetched
<1>2. items' \in [Source -> Item]
  BY PipelineAssumption DEF SyncUnmodified, Typed, TypeOK
<1>3. wk' \in [Worker -> Memory] /\ Held(w)' /\ \A v \in Worker : v # w => wk'[v] = wk[v]
  BY Next1Is DEF SyncUnmodified, At, Held, Typed, Working, Scripted
<1>4. job' \in JobRow /\ job'.attempt >= job.attempt
  BY JobStays DEF SyncUnmodified, Typed
<1> QED
  BY <1>1, <1>2, <1>3, <1>4, WorkerStepIsTyped DEF SyncUnmodified, Typed, TypeOK, MediaUnchanged

LEMMA SyncBusyTyped ==
  ASSUME Typed, NEW w \in Worker, NEW s \in Source, SyncBusy(w, s)
  PROVE  Typed'
<1>1. captured' \in [Source -> Capture]
  BY RecordedIs DEF SyncBusy, Typed
<1>2. Fails(w, TRUE)
  BY DEF SyncBusy
<1>3. /\ wk' \in [Worker -> Memory] /\ Held(w)' /\ \A v \in Worker : v # w => wk'[v] = wk[v]
      /\ job' \in JobRow /\ job'.attempt = job.attempt /\ temps' \subseteq temps /\ files' = files
  BY <1>2, FailsIs, RestersHold DEF Typed
<1>4. job'.attempt >= job.attempt
  BY <1>3 DEF Typed, TypeOK, JobRow
<1> QED
  BY <1>1, <1>3, <1>4, WorkerStepIsTyped DEF SyncBusy, Typed, TypeOK

(* A step that ends in a failure and touches nothing but the disclosures. *)
LEMMA FailureIsTyped ==
  ASSUME Typed, NEW w \in Worker, NEW again \in BOOLEAN, Fails(w, again), disclosed' \subseteq FeedRow,
         UNCHANGED <<setup, url, items, captured, edits, evidence, episode, faults>>
  PROVE  Typed'
<1>1. /\ wk' \in [Worker -> Memory] /\ Held(w)' /\ \A v \in Worker : v # w => wk'[v] = wk[v]
      /\ job' \in JobRow /\ job'.attempt = job.attempt /\ temps' \subseteq temps /\ files' = files
  BY FailsIs, RestersHold DEF Typed
<1>2. job'.attempt >= job.attempt
  BY <1>1 DEF Typed, TypeOK, JobRow
<1> QED
  BY <1>1, <1>2, WorkerStepIsTyped DEF Typed, TypeOK

LEMMA FenceIsTyped ==
  ASSUME Typed, NEW w \in Worker, NEW pc \in Working, Fenced(w, pc), wk[w].pc \in Working,
         pc \in Scripted => wk[w].pc \in Scripted, disclosed' \subseteq FeedRow,
         UNCHANGED <<setup, job, url, items, captured, edits, evidence, files, episode, faults>>
  PROVE  Typed'
<1>1. wk' \in [Worker -> Memory] /\ temps' \subseteq temps /\ \A v \in Worker : v # w => wk'[v] = wk[v]
  BY FencedIs DEF Typed
<1>2. Held(w)'
  BY FencedIs, RestersHold, HolderGoesOn DEF Typed
<1>3. job' \in JobRow /\ job'.attempt >= job.attempt
  BY JobStays DEF Typed
<1> QED
  BY <1>1, <1>2, <1>3, WorkerStepIsTyped DEF Typed, TypeOK

LEMMA SyncedTyped ==
  ASSUME Typed, NEW w \in Worker, Synced(w)
  PROVE  Typed'
BY FenceIsTyped DEF Synced, At, Working, Scripted, InputsUnchanged, Typed, TypeOK

LEMMA WrittenTyped ==
  ASSUME Typed, NEW w \in Worker, Written(w)
  PROVE  Typed'
<1> DEFINE pc == IF setup.speech = "openai" THEN "cleaning" ELSE "opening"
<1>1. pc \in Working /\ wk[w].pc \in Working /\ wk[w].pc \in Scripted /\ Fenced(w, pc)
  BY DEF Written, At, Working, Scripted
<1> QED
  BY <1>1, FenceIsTyped DEF Written, InputsUnchanged, Typed, TypeOK

LEMMA CollectedIsTyped == ASSUME TypeOK PROVE Collected \subseteq Row
<1>1. ASSUME NEW s \in Source
      PROVE  [kind |-> "feed", source |-> s, item |-> items[s], scope |-> items[s].scope] \in FeedRow
  BY DEF TypeOK, FeedRow, Item, NoItem, Scope
<1> QED
  BY <1>1 DEF Collected, ItemsJoined, ScopeOfItem, Row

LEMMA SelectedIsTyped == ASSUME TypeOK PROVE Selected \subseteq Row
BY CollectedIsTyped DEF Selected, TypeOK

LEMMA DisclosedIsTyped ==
  ASSUME TypeOK, NEW w \in Worker, NEW provider
  PROVE  DisclosedTo(provider, w) \subseteq FeedRow
<1>1. wk[w].rows \subseteq Row
  BY DEF TypeOK, Memory
<1>2. NoteRow.kind = "note" /\ "note" # "feed"
  BY DEF NoteRow
<1>3. FeedRows(wk[w].rows) \subseteq FeedRow
  BY <1>1, <1>2 DEF FeedRows, Row
<1> QED
  BY <1>3 DEF DisclosedTo, TypeOK

LEMMA FinalizeTyped ==
  ASSUME Typed, NEW w \in Worker, Finalize(w)
  PROVE  Typed'
<1>1. CASE ~Sufficient(Selected)
  BY <1>1, FailureIsTyped DEF Finalize, InputsUnchanged, Typed, TypeOK
<1>2. CASE Sufficient(Selected)
  <2> DEFINE m == [wk[w] EXCEPT !.pc = "authorizing", !.rows = Selected]
  <2>1. Selected \subseteq Row
    BY SelectedIsTyped DEF Typed
  <2>2. m \in Memory /\ m.pc = "authorizing" /\ m.attempt = wk[w].attempt
    BY <2>1 DEF Typed, TypeOK, Memory, Working
  <2>3. wk' = [wk EXCEPT ![w] = m] /\ job' = job
    BY <1>2 DEF Finalize, Typed, TypeOK, Memory
  <2> HIDE DEF m
  <2>4. wk' \in [Worker -> Memory] /\ wk'[w] = m /\ \A v \in Worker : v # w => wk'[v] = wk[v]
    BY <2>2, <2>3 DEF Typed, TypeOK
  <2>5. Held(w)'
    BY <2>2, <2>3, <2>4 DEF Held, Scripted, Finalize, At, Typed, Working
  <2>6. job' \in JobRow /\ job'.attempt >= job.attempt
    BY <2>3, JobStays DEF Typed
  <2> QED
    BY <1>2, <2>1, <2>4, <2>5, <2>6, WorkerStepIsTyped
    DEF Finalize, Typed, TypeOK, InputsUnchanged, MediaUnchanged
<1> QED
  BY <1>1, <1>2

LEMMA AuthorizeTyped ==
  ASSUME Typed, NEW w \in Worker, Authorize(w)
  PROVE  Typed'
<1>1. CASE Authorized(wk[w].rows) /\ Fenced(w, "drafting") /\ UNCHANGED <<job, files>>
  BY <1>1, FenceIsTyped DEF Authorize, At, Working, Scripted, InputsUnchanged, Typed, TypeOK
<1>2. CASE Fails(w, FALSE)
  BY <1>2, FailureIsTyped DEF Authorize, InputsUnchanged, Typed, TypeOK
<1> QED
  BY <1>1, <1>2 DEF Authorize

LEMMA DraftTyped ==
  ASSUME Typed, NEW w \in Worker, Draft(w)
  PROVE  Typed'
<1>1. disclosed' \subseteq FeedRow
  BY DisclosedIsTyped DEF Draft, Typed
<1> QED
  BY <1>1, FenceIsTyped DEF Draft, At, Working, Scripted, InputsUnchanged

LEMMA ValidateTyped ==
  ASSUME Typed, NEW w \in Worker, NEW script \in Script, Validate(w, script)
  PROVE  Typed'
<1> DEFINE m == [wk[w] EXCEPT !.pc = "written", !.script = script]
<1>1. m \in Memory /\ m.pc = "written" /\ m.attempt = wk[w].attempt /\ m.script = script
  BY DEF Typed, TypeOK, Memory, Working
<1>2. wk' = [wk EXCEPT ![w] = m]
  BY DEF Validate, Typed, TypeOK, Memory
<1> HIDE DEF m
<1>3. wk' \in [Worker -> Memory] /\ wk'[w] = m /\ \A v \in Worker : v # w => wk'[v] = wk[v]
  BY <1>1, <1>2 DEF Typed, TypeOK
<1>4. Held(w)'
  BY <1>1, <1>3 DEF Held, Validate, At, Typed, Working
<1> QED
  BY <1>3, <1>4, MemoryStepIsTyped DEF Validate, InputsUnchanged, MediaUnchanged

LEMMA TextFailsTyped ==
  ASSUME Typed, NEW w \in Worker, NEW again \in BOOLEAN, TextFails(w, again)
  PROVE  Typed'
<1>1. disclosed' \subseteq FeedRow
  BY DisclosedIsTyped DEF TextFails, Typed
<1> QED
  BY <1>1, FailureIsTyped DEF TextFails, InputsUnchanged

LEMMA SpeechFailsTyped ==
  ASSUME Typed, NEW w \in Worker, NEW again \in BOOLEAN, SpeechFails(w, again)
  PROVE  Typed'
<1>1. disclosed' \subseteq FeedRow
  BY DisclosedIsTyped DEF SpeechFails, Typed
<1> QED
  BY <1>1, FailureIsTyped DEF SpeechFails, InputsUnchanged

LEMMA CleanTyped ==
  ASSUME Typed, NEW w \in Worker, Clean(w)
  PROVE  Typed'
<1>1. /\ wk' \in [Worker -> Memory] /\ Held(w)' /\ \A v \in Worker : v # w => wk'[v] = wk[v]
      /\ job' = job
  BY GoIs, HolderGoesOn DEF Clean, At, Working, Scripted, Typed, TypeOK
<1>2. job' \in JobRow /\ job'.attempt >= job.attempt /\ temps' \subseteq temps
  BY <1>1, JobStays DEF Clean, Typed
<1> QED
  BY <1>1, <1>2, WorkerStepIsTyped DEF Clean, InputsUnchanged, Typed, TypeOK

LEMMA OpenTyped ==
  ASSUME Typed, NEW w \in Worker, Open(w)
  PROVE  Typed'
<1> DEFINE pc == IF Destination(w) = NoAudio THEN "speaking" ELSE "describing"
<1>1. pc \in Working /\ pc \in Scripted /\ wk[w].pc \in Working /\ wk[w].pc \in Scripted /\ Go(w, pc)
  BY DEF Open, At, Working, Scripted
<1> HIDE DEF pc
<1>2. /\ wk' \in [Worker -> Memory] /\ Held(w)' /\ \A v \in Worker : v # w => wk'[v] = wk[v]
  BY <1>1, GoIs, HolderGoesOn DEF Open, Typed, TypeOK
<1> QED
  BY <1>2, MemoryStepIsTyped DEF Open, InputsUnchanged, MediaUnchanged

(* A worker that speaks or moves has a script and an attempt: its take is   *)
(* an audio file.                                                           *)
LEMMA TakeIsAudio ==
  ASSUME Typed, NEW w \in Worker, wk[w].pc \in Scripted
  PROVE  MyTake(w) \in Audio /\ MyTake(w).script = wk[w].script /\ MyTake(w).take = wk[w].attempt
<1>1. wk[w].pc \in Working
  BY DEF Scripted, Working
<1>2. wk[w].script \in Script /\ wk[w].attempt \in 1..job.attempt /\ job.attempt \in 0..MaxAttempts
  BY <1>1 DEF Typed, Held, TypeOK, JobRow
<1>3. wk[w].attempt \in 1..MaxAttempts
  BY <1>2, PipelineAssumption
<1> QED
  BY <1>2, <1>3 DEF MyTake, Audio

LEMMA SpeakTyped ==
  ASSUME Typed, NEW w \in Worker, Speak(w)
  PROVE  Typed'
<1>1. wk[w].pc \in Working /\ wk[w].pc \in Scripted /\ "fencing" \in Working /\ job' = job
  BY DEF Speak, At, Working, Scripted
<1>2. /\ wk' \in [Worker -> Memory] /\ Held(w)' /\ \A v \in Worker : v # w => wk'[v] = wk[v]
  BY <1>1, GoIs, HolderGoesOn DEF Speak, Typed, TypeOK
<1>3. job' \in JobRow /\ job'.attempt >= job.attempt
  BY <1>1, JobStays DEF Typed
<1>4. disclosed' \subseteq FeedRow
  BY DisclosedIsTyped DEF Speak, Typed
<1>5. temps' \subseteq Audio
  BY <1>1, TakeIsAudio DEF Speak, Typed, TypeOK
<1> QED
  BY <1>2, <1>3, <1>4, <1>5, WorkerStepIsTyped DEF Speak, InputsUnchanged, Typed, TypeOK

LEMMA FencePublicationTyped ==
  ASSUME Typed, NEW w \in Worker, FencePublication(w)
  PROVE  Typed'
<1>1. CASE Fenced(w, "moving") /\ UNCHANGED <<job, files>>
  BY <1>1, FenceIsTyped DEF FencePublication, At, Working, Scripted, InputsUnchanged, Typed, TypeOK
<1>2. CASE Fails(w, TRUE)
  BY <1>2, FailureIsTyped DEF FencePublication, InputsUnchanged, Typed, TypeOK
<1> QED
  BY <1>1, <1>2 DEF FencePublication

LEMMA MoveTyped ==
  ASSUME Typed, NEW w \in Worker, Move(w)
  PROVE  Typed'
<1>1. CASE Fails(w, TRUE)
  BY <1>1, FailureIsTyped DEF Move, InputsUnchanged, Typed, TypeOK
<1>2. CASE /\ temps' = temps \ {MyTake(w)} /\ files' = [files EXCEPT ![FileOf(wk[w].script)] = MyTake(w)]
           /\ Go(w, "describing") /\ UNCHANGED job
  <2>1. wk[w].pc \in Working /\ wk[w].pc \in Scripted /\ "describing" \in Working
    BY DEF Move, At, Working, Scripted
  <2>2. /\ wk' \in [Worker -> Memory] /\ Held(w)' /\ \A v \in Worker : v # w => wk'[v] = wk[v]
    BY <1>2, <2>1, GoIs, HolderGoesOn DEF Typed, TypeOK
  <2>3. files' \in [Script -> Audio \cup {NoAudio}]
    BY <1>2, <2>1, TakeIsAudio DEF Typed, TypeOK, FileOf
  <2>4. job' \in JobRow /\ job'.attempt >= job.attempt
    BY <1>2, JobStays DEF Typed
  <2> QED
    BY <1>2, <2>2, <2>3, <2>4, WorkerStepIsTyped DEF Move, InputsUnchanged, Typed, TypeOK
<1> QED
  BY <1>1, <1>2 DEF Move

LEMMA DescribeIs ==
  ASSUME Typed, NEW w \in Worker, Describe(w)
  PROVE  /\ wk' \in [Worker -> Memory] /\ \A v \in Worker : v # w => wk'[v] = wk[v]
         /\ wk'[w].pc = "publishing" /\ wk'[w].attempt = wk[w].attempt /\ wk'[w].rows = wk[w].rows
         /\ wk'[w].script = wk[w].script /\ wk'[w].audio = files[wk[w].script]
<1> DEFINE m == [wk[w] EXCEPT !.pc = "publishing", !.audio = Destination(w)]
<1>1. wk[w].script \in Script
  BY DEF Describe, At, Typed, Held, Scripted
<1>2. Destination(w) = files[wk[w].script] /\ Destination(w) \in Audio \cup {NoAudio}
  BY <1>1 DEF Destination, FileOf, Typed, TypeOK
<1>3. /\ m \in Memory /\ m.pc = "publishing" /\ m.attempt = wk[w].attempt /\ m.rows = wk[w].rows
      /\ m.script = wk[w].script /\ m.audio = files[wk[w].script]
  BY <1>2 DEF Typed, TypeOK, Memory, Working
<1>4. wk' = [wk EXCEPT ![w] = m]
  BY DEF Describe, Typed, TypeOK, Memory
<1> HIDE DEF m
<1> QED
  BY <1>3, <1>4 DEF Typed, TypeOK

LEMMA DescribeTyped ==
  ASSUME Typed, NEW w \in Worker, Describe(w)
  PROVE  Typed'
<1>1. Held(w)'
  BY DescribeIs, HolderGoesOn DEF Describe, At, Working, Scripted, Typed
<1> QED
  BY <1>1, DescribeIs, MemoryStepIsTyped DEF Describe, InputsUnchanged, MediaUnchanged

LEMMA PublishTyped ==
  ASSUME Typed, NEW w \in Worker, Publish(w)
  PROVE  Typed'
<1>1. wk' \in [Worker -> Memory] /\ Held(w)' /\ \A v \in Worker : v # w => wk'[v] = wk[v]
  BY RestIs, RestersHold DEF Publish, Typed, TypeOK
<1>2. [job EXCEPT !.state = "complete", !.owner = NoWorker, !.leased = FALSE] \in JobRow
  BY DEF Typed, TypeOK, JobRow
<1>3. job' \in JobRow /\ job'.attempt >= job.attempt
  <2>1. job'.attempt = job.attempt
    BY DEF Publish, Typed, TypeOK, JobRow
  <2>2. job' \in JobRow
    BY <1>2 DEF Publish, Typed, TypeOK
  <2> QED
    BY <2>1, <2>2 DEF Typed, TypeOK, JobRow
<1>4. episode' \in Episode
  <2>1. [script |-> wk[w].script, rows |-> wk[w].rows, audio |-> wk[w].audio] \in Episode
    BY DEF Typed, TypeOK, Memory, Episode
  <2> QED
    BY <2>1 DEF Publish, Typed, TypeOK
<1> QED
  BY <1>1, <1>3, <1>4, WorkerStepIsTyped DEF Publish, Typed, TypeOK, InputsUnchanged, MediaUnchanged

LEMMA StopIs ==
  ASSUME Typed, NEW w \in Worker, Stop(w)
  PROVE  /\ wk' \in [Worker -> Memory] /\ \A v \in Worker : v # w => wk'[v] = wk[v]
         /\ wk'[w].pc \notin Working /\ wk'[w].rows = {}
         /\ job' \in JobRow /\ job'.attempt = job.attempt
         /\ job' = job \/ (job.state = "running" /\ job'.state = "queued" /\ job'.leased = FALSE)
         /\ temps' = temps \ TakesOf(w) /\ files' = files
<1> DEFINE j == [job EXCEPT !.state = "queued", !.owner = NoWorker, !.leased = FALSE]
<1>1. j \in JobRow /\ j.attempt = job.attempt /\ j.state = "queued" /\ j.leased = FALSE
  BY DEF Typed, TypeOK, JobRow
<1>2. job' = IF Owned(w) THEN j ELSE job
  BY DEF Stop
<1> HIDE DEF j
<1>3. /\ job' \in JobRow /\ job'.attempt = job.attempt
      /\ job' = job \/ (job.state = "running" /\ job'.state = "queued" /\ job'.leased = FALSE)
  BY <1>1, <1>2 DEF Owned, Typed, TypeOK
<1> QED
  BY <1>3, RestIs DEF Stop, Typed, TypeOK

LEMMA CrashIs ==
  ASSUME Typed, NEW w \in Worker, Crash(w)
  PROVE  /\ wk' \in [Worker -> Memory] /\ \A v \in Worker : v # w => wk'[v] = wk[v]
         /\ wk'[w].pc \notin Working /\ wk'[w].rows = {}
         /\ job' \in JobRow /\ job'.attempt = job.attempt /\ job'.state = job.state
         /\ job'.owner = job.owner
         /\ job'.leased => job.leased /\ ~(job.state = "running" /\ job.owner = w)
<1> DEFINE j == [job EXCEPT !.leased = FALSE]
<1>1. /\ j \in JobRow /\ j.attempt = job.attempt /\ j.state = job.state /\ j.leased = FALSE
      /\ j.owner = job.owner
  BY DEF Typed, TypeOK, JobRow
<1>2. job' = IF job.state = "running" /\ job.owner = w THEN j ELSE job
  BY DEF Crash
<1> HIDE DEF j
<1>3. job' \in JobRow /\ job'.attempt = job.attempt /\ job'.state = job.state /\ job'.owner = job.owner
      /\ (job'.leased => job.leased /\ ~(job.state = "running" /\ job.owner = w))
  BY <1>1, <1>2 DEF Typed, TypeOK
<1> QED
  BY <1>3, RestIs DEF Crash, Typed, TypeOK

LEMMA StopTyped ==
  ASSUME Typed, NEW w \in Worker, Stop(w)
  PROVE  Typed'
<1>1. Held(w)'
  BY StopIs, RestersHold
<1>3. job'.attempt >= job.attempt
  <2>1. job'.attempt = job.attempt
    BY StopIs
  <2> QED
    BY <2>1 DEF Typed, TypeOK, JobRow
<1>2. faults' \in 0..MaxFaults
  BY PipelineAssumption DEF Stop, Fault, Typed, TypeOK
<1> QED
  BY <1>1, <1>2, <1>3, StopIs, WorkerStepIsTyped DEF Stop, Typed, TypeOK, InputsUnchanged

LEMMA CrashTyped ==
  ASSUME Typed, NEW w \in Worker, Crash(w)
  PROVE  Typed'
<1>1. Held(w)'
  BY CrashIs, RestersHold
<1>3. job'.attempt >= job.attempt
  BY CrashIs DEF Typed, TypeOK, JobRow
<1>2. faults' \in 0..MaxFaults
  BY PipelineAssumption DEF Crash, Fault, Typed, TypeOK
<1> QED
  BY <1>1, <1>2, <1>3, CrashIs, WorkerStepIsTyped DEF Crash, Typed, TypeOK, InputsUnchanged, MediaUnchanged

LEMMA RestartTyped ==
  ASSUME Typed, NEW w \in Worker, Restart(w)
  PROVE  Typed'
<1>1. wk' \in [Worker -> Memory] /\ Held(w)' /\ \A v \in Worker : v # w => wk'[v] = wk[v]
  BY RestIs, RestersHold DEF Restart, Typed, TypeOK
<1> QED
  BY <1>1, MemoryStepIsTyped DEF Restart, InputsUnchanged, MediaUnchanged

(* Steps outside the workers leave their memory alone. *)
LEMMA OutsideStepIsTyped ==
  ASSUME Typed, wk' = wk, job' \in JobRow, job'.attempt = job.attempt, TypeOK'
  PROVE  Typed'
BY DEF Typed, Held, TypeOK

LEMMA EditSourceTyped ==
  ASSUME Typed, NEW s \in Source, NEW to \in Url \cup {NoUrl}, EditSource(s, to)
  PROVE  Typed'
<1>1. edits' \in 0..MaxEdits
  BY PipelineAssumption DEF EditSource, Typed, TypeOK
<1>2. items' \in [Source -> Item] /\ url' \in [Source -> Url \cup {NoUrl}]
  BY DEF EditSource, Typed, TypeOK, Item
<1> QED
  BY <1>1, <1>2, OutsideStepIsTyped DEF EditSource, SourceUnchanged, Typed, TypeOK

LEMMA OtherSyncTyped ==
  ASSUME Typed, NEW s \in Source, NEW scope \in Fetched, OtherSync(s, scope)
  PROVE  Typed'
<1>1. edits' \in 0..MaxEdits
  BY PipelineAssumption DEF OtherSync, Typed, TypeOK
<1>2. items' \in [Source -> Item]
  <2>1. url[s] \in Url
    BY DEF OtherSync, Typed, TypeOK
  <2> QED
    BY <2>1, StoredItem DEF OtherSync, Typed
<1> QED
  BY <1>1, <1>2, OutsideStepIsTyped DEF OtherSync, SourceUnchanged, Typed, TypeOK

LEMMA RetryTyped == ASSUME Typed, Retry PROVE Typed'
<1>1. job' \in JobRow /\ job'.attempt = job.attempt
  BY DEF Retry, Typed, TypeOK, JobRow
<1> QED
  BY <1>1, OutsideStepIsTyped DEF Retry, InputsUnchanged, MediaUnchanged, Typed, TypeOK

LEMMA StallTyped == ASSUME Typed, Stall PROVE Typed'
<1>1. job' \in JobRow /\ job'.attempt = job.attempt
  BY DEF Stall, Typed, TypeOK, JobRow
<1>2. faults' \in 0..MaxFaults
  BY PipelineAssumption DEF Stall, Fault, Typed, TypeOK
<1> QED
  BY <1>1, <1>2, OutsideStepIsTyped DEF Stall, InputsUnchanged, MediaUnchanged, Typed, TypeOK

LEMMA StutterTyped == ASSUME Typed, UNCHANGED vars PROVE Typed'
BY DEF Typed, TypeOK, Held, vars

LEMMA StepTyped == Typed /\ [Next]_vars => Typed'
<1> SUFFICES ASSUME Typed, [Next]_vars PROVE Typed'
  OBVIOUS
<1>1. ASSUME NEW w \in Worker, WorkerStep(w) PROVE Typed'
  BY <1>1, ClaimTyped, BeginTyped, SyncFailsTyped, SyncBusyTyped, SyncStoresTyped, SyncUnmodifiedTyped,
     SyncedTyped, FinalizeTyped, AuthorizeTyped, DraftTyped, ValidateTyped, TextFailsTyped,
     SpeechFailsTyped, WrittenTyped, CleanTyped, OpenTyped, SpeakTyped, FencePublicationTyped, MoveTyped,
     DescribeTyped, PublishTyped, StopTyped, CrashTyped, RestartTyped DEF WorkerStep
<1> QED
  BY <1>1, EditSourceTyped, OtherSyncTyped, RetryTyped, StallTyped, StutterTyped DEF Next

(* Type correctness of the request, its workers and the media directory,    *)
(* for any sources, scripts, workers and numbers of attempts and faults.    *)
THEOREM PipelineTypes == Spec => []TypeOK
<1>1. Spec => []Typed
  BY InitTyped, StepTyped, PTL DEF Spec
<1>2. Typed => TypeOK
  BY DEF Typed
<1> QED
  BY <1>1, <1>2, PTL

-----------------------------------------------------------------------------
(* Evidence and what is disclosed of it *)

(* Only finalizeEvidence writes the snapshot, and it writes what it selected. *)
LEMMA EvidenceChanges == ASSUME Next PROVE evidence' = evidence \/ evidence' = Selected
<1>1. ASSUME NEW w \in Worker, WorkerStep(w) PROVE evidence' = evidence \/ evidence' = Selected
  <2>1. CASE Finalize(w)
    BY <2>1 DEF Finalize
  <2>2. CASE Claim(w) \/ Begin(w) \/ Synced(w) \/ Authorize(w) \/ Draft(w) \/ Written(w)
    BY <2>2 DEF Claim, Begin, Synced, Authorize, Draft, Written
  <2>3. CASE \E s \in Source : SyncFails(w, s) \/ SyncBusy(w, s)
    BY <2>3 DEF SyncFails, SyncBusy
  <2>4. CASE \E s \in Source, scope \in Fetched : SyncStores(w, s, scope) \/ SyncUnmodified(w, s, scope)
    BY <2>4 DEF SyncStores, SyncUnmodified
  <2>5. CASE \E script \in Script : Validate(w, script)
    BY <2>5 DEF Validate
  <2>6. CASE \E again \in BOOLEAN : TextFails(w, again) \/ SpeechFails(w, again)
    BY <2>6 DEF TextFails, SpeechFails
  <2>7. CASE Clean(w) \/ Open(w) \/ Speak(w) \/ FencePublication(w) \/ Move(w)
    BY <2>7 DEF Clean, Open, Speak, FencePublication, Move
  <2>8. CASE Describe(w) \/ Publish(w) \/ Stop(w) \/ Crash(w) \/ Restart(w)
    BY <2>8 DEF Describe, Publish, Stop, Crash, Restart
  <2> QED
    BY <1>1, <2>1, <2>2, <2>3, <2>4, <2>5, <2>6, <2>7, <2>8 DEF WorkerStep
<1>2. CASE \/ \E s \in Source, to \in Url \cup {NoUrl} : EditSource(s, to)
           \/ \E s \in Source, scope \in Fetched : OtherSync(s, scope)
           \/ Retry \/ Stall
  BY <1>2 DEF EditSource, OtherSync, Retry, Stall, SourceUnchanged
<1> QED
  BY <1>1, <1>2 DEF Next

(* For any instance: what an attempt, a retry, a stale worker, an edit or a *)
(* synchronization does after the evidence exists leaves it as it is.       *)
THEOREM PipelineEvidenceIsFrozen == Spec => EvidenceIsFrozen
<1>1. [Next]_vars => [evidence # {} => evidence' = evidence]_vars
  BY EvidenceChanges DEF Selected, vars
<1> QED
  BY <1>1, PTL DEF Spec, EvidenceIsFrozen

(* For any instance: evidence is only of the address that was captured.     *)
THEOREM PipelineEvidenceIsOfCapturedUrl == Spec => []EvidenceIsOfCapturedUrl
<1>1. Init => EvidenceIsOfCapturedUrl
  BY DEF Init, EvidenceIsOfCapturedUrl, FeedRows
<1>2. ASSUME EvidenceIsOfCapturedUrl, [Next]_vars PROVE EvidenceIsOfCapturedUrl'
  <2>1. NoteRow.kind # "feed"
    BY DEF NoteRow
  <2>2. \A r \in FeedRows(Collected) : r.item.url = CapturedUrl
    BY <2>1 DEF FeedRows, Collected, ItemsJoined
  <2>3. \A r \in FeedRows(Selected) : r.item.url = CapturedUrl
    BY <1>2, <2>2 DEF Selected, EvidenceIsOfCapturedUrl
  <2>4. evidence' = evidence \/ evidence' = Selected
    BY <1>2, EvidenceChanges DEF vars
  <2> QED
    BY <1>2, <2>3, <2>4 DEF EvidenceIsOfCapturedUrl, FeedRows
<1> QED
  BY <1>1, <1>2, PTL DEF Spec

(* Phases behind the authorization of the evidence *)
Cleared == {"drafting", "validating"} \cup Scripted

Honest(rows) == \A r \in FeedRows(rows) : r.scope = r.item.scope

Safe(w) ==
  /\ Honest(wk[w].rows)
  /\ wk[w].pc \in Cleared => Authorized(wk[w].rows)

Disclosure == Honest(evidence) /\ (\A w \in Worker : Safe(w)) /\ OpenAiSeesPublicOnly

(* What a step of a worker does to its rows and to the disclosures. *)
RowsStep(w) ==
  /\ setup' = setup
  /\ \A v \in Worker : v # w => wk'[v] = wk[v]
  /\ \/ wk'[w].rows = {} /\ wk'[w].pc \notin Cleared
     \/ /\ wk'[w].rows = wk[w].rows
        /\ wk'[w].pc \in Cleared => wk[w].pc \in Cleared \/ Authorized(wk[w].rows)
     \/ wk'[w].rows = Selected /\ wk'[w].pc \notin Cleared
  /\ \/ disclosed' = disclosed
     \/ /\ wk[w].pc \in Cleared
        /\ disclosed' = DisclosedTo(setup.text, w) \/ disclosed' = DisclosedTo(setup.speech, w)

LEMMA ClearedIsWorking == Cleared \subseteq Working
BY DEF Cleared, Scripted, Working

LEMMA ClaimRows ==
  ASSUME Typed, NEW w \in Worker, Claim(w)
  PROVE  RowsStep(w)
<1> DEFINE m == [Idle EXCEPT !.pc = "claimed", !.attempt = job.attempt + 1]
<1>1. m.rows = {} /\ m.pc \notin Cleared
  BY DEF Idle, Cleared, Scripted
<1>2. wk' = [wk EXCEPT ![w] = m]
  BY DEF Claim
<1> HIDE DEF m
<1> QED
  BY <1>1, <1>2 DEF Claim, RowsStep, InputsUnchanged, Typed, TypeOK

LEMMA BeginRows ==
  ASSUME Typed, NEW w \in Worker, Begin(w)
  PROVE  RowsStep(w)
<1>1. wk'[w].rows = wk[w].rows /\ wk'[w].pc = "syncing" /\ \A v \in Worker : v # w => wk'[v] = wk[v]
  BY DEF Begin, Typed, TypeOK, Memory
<1> QED
  BY <1>1 DEF Begin, RowsStep, Cleared, Scripted, InputsUnchanged

LEMMA SyncFailsRows ==
  ASSUME Typed, NEW w \in Worker, NEW s \in Source, SyncFails(w, s)
  PROVE  RowsStep(w)
<1>1. wk[w].pc = "syncing" /\ Next1(w, s) /\ setup' = setup /\ disclosed' = disclosed /\ TypeOK
  BY DEF SyncFails, At, Typed
<1>2. "syncing" \notin Cleared
  BY DEF Cleared, Scripted
<1> QED
  BY <1>1, <1>2, Next1Is DEF RowsStep

LEMMA SyncStoresRows ==
  ASSUME Typed, NEW w \in Worker, NEW s \in Source, NEW scope \in Fetched, SyncStores(w, s, scope)
  PROVE  RowsStep(w)
<1>1. wk[w].pc = "syncing" /\ Next1(w, s) /\ setup' = setup /\ disclosed' = disclosed /\ TypeOK
  BY DEF SyncStores, At, Typed
<1>2. "syncing" \notin Cleared
  BY DEF Cleared, Scripted
<1> QED
  BY <1>1, <1>2, Next1Is DEF RowsStep

LEMMA SyncUnmodifiedRows ==
  ASSUME Typed, NEW w \in Worker, NEW s \in Source, NEW scope \in Fetched, SyncUnmodified(w, s, scope)
  PROVE  RowsStep(w)
<1>1. wk[w].pc = "syncing" /\ Next1(w, s) /\ setup' = setup /\ disclosed' = disclosed /\ TypeOK
  BY DEF SyncUnmodified, At, Typed
<1>2. "syncing" \notin Cleared
  BY DEF Cleared, Scripted
<1> QED
  BY <1>1, <1>2, Next1Is DEF RowsStep

LEMMA FailureRows ==
  ASSUME Typed, NEW w \in Worker, NEW again \in BOOLEAN, Fails(w, again), setup' = setup,
         \/ disclosed' = disclosed
         \/ /\ wk[w].pc \in Cleared
            /\ disclosed' = DisclosedTo(setup.text, w) \/ disclosed' = DisclosedTo(setup.speech, w)
  PROVE  RowsStep(w)
BY FailsIs, ClearedIsWorking DEF RowsStep, Typed

LEMMA FenceRows ==
  ASSUME Typed, NEW w \in Worker, NEW pc \in Working, Fenced(w, pc), setup' = setup,
         pc \in Cleared => wk[w].pc \in Cleared \/ Authorized(wk[w].rows),
         \/ disclosed' = disclosed
         \/ /\ wk[w].pc \in Cleared
            /\ disclosed' = DisclosedTo(setup.text, w) \/ disclosed' = DisclosedTo(setup.speech, w)
  PROVE  RowsStep(w)
BY FencedIs, ClearedIsWorking DEF RowsStep, Typed

LEMMA GoRows ==
  ASSUME Typed, NEW w \in Worker, NEW pc \in Working, Go(w, pc), setup' = setup, wk[w].pc \in Cleared,
         \/ disclosed' = disclosed
         \/ disclosed' = DisclosedTo(setup.text, w) \/ disclosed' = DisclosedTo(setup.speech, w)
  PROVE  RowsStep(w)
BY GoIs DEF RowsStep, Typed, TypeOK

LEMMA SyncBusyRows ==
  ASSUME Typed, NEW w \in Worker, NEW s \in Source, SyncBusy(w, s)
  PROVE  RowsStep(w)
BY FailureRows DEF SyncBusy

LEMMA SyncedRows ==
  ASSUME Typed, NEW w \in Worker, Synced(w)
  PROVE  RowsStep(w)
BY FenceRows DEF Synced, InputsUnchanged, Working, Cleared, Scripted

LEMMA FinalizeRows ==
  ASSUME Typed, NEW w \in Worker, Finalize(w)
  PROVE  RowsStep(w)
<1>1. CASE Fails(w, FALSE)
  BY <1>1, FailureRows DEF Finalize, InputsUnchanged
<1>2. CASE wk' = [wk EXCEPT ![w].pc = "authorizing", ![w].rows = Selected]
  <2>1. wk'[w].rows = Selected /\ wk'[w].pc = "authorizing" /\ \A v \in Worker : v # w => wk'[v] = wk[v]
    BY <1>2 DEF Typed, TypeOK, Memory
  <2> QED
    BY <2>1 DEF Finalize, RowsStep, Cleared, Scripted, InputsUnchanged
<1> QED
  BY <1>1, <1>2 DEF Finalize

LEMMA AuthorizeRows ==
  ASSUME Typed, NEW w \in Worker, Authorize(w)
  PROVE  RowsStep(w)
<1>1. CASE Fails(w, FALSE)
  BY <1>1, FailureRows DEF Authorize, InputsUnchanged
<1>2. CASE Authorized(wk[w].rows) /\ Fenced(w, "drafting")
  BY <1>2, FenceRows DEF Authorize, InputsUnchanged, Working
<1> QED
  BY <1>1, <1>2 DEF Authorize

LEMMA DraftRows ==
  ASSUME Typed, NEW w \in Worker, Draft(w)
  PROVE  RowsStep(w)
BY FenceRows DEF Draft, At, InputsUnchanged, Working, Cleared, Scripted

LEMMA ValidateRows ==
  ASSUME Typed, NEW w \in Worker, NEW script \in Script, Validate(w, script)
  PROVE  RowsStep(w)
<1>1. wk'[w].rows = wk[w].rows /\ wk[w].pc = "validating" /\ \A v \in Worker : v # w => wk'[v] = wk[v]
  BY DEF Validate, At, Typed, TypeOK, Memory
<1> QED
  BY <1>1 DEF Validate, RowsStep, Cleared, Scripted, InputsUnchanged

LEMMA TextFailsRows ==
  ASSUME Typed, NEW w \in Worker, NEW again \in BOOLEAN, TextFails(w, again)
  PROVE  RowsStep(w)
BY FailureRows DEF TextFails, InputsUnchanged, Cleared, Scripted

LEMMA SpeechFailsRows ==
  ASSUME Typed, NEW w \in Worker, NEW again \in BOOLEAN, SpeechFails(w, again)
  PROVE  RowsStep(w)
BY FailureRows DEF SpeechFails, At, InputsUnchanged, Cleared, Scripted

LEMMA WrittenRows ==
  ASSUME Typed, NEW w \in Worker, Written(w)
  PROVE  RowsStep(w)
<1> DEFINE pc == IF setup.speech = "openai" THEN "cleaning" ELSE "opening"
<1>1. pc \in Working /\ wk[w].pc \in Cleared /\ Fenced(w, pc)
  BY DEF Written, At, Working, Cleared, Scripted
<1> QED
  BY <1>1, FenceRows DEF Written, InputsUnchanged

LEMMA CleanRows ==
  ASSUME Typed, NEW w \in Worker, Clean(w)
  PROVE  RowsStep(w)
BY GoRows DEF Clean, At, InputsUnchanged, Working, Cleared, Scripted

LEMMA OpenRows ==
  ASSUME Typed, NEW w \in Worker, Open(w)
  PROVE  RowsStep(w)
<1> DEFINE pc == IF Destination(w) = NoAudio THEN "speaking" ELSE "describing"
<1>1. pc \in Working /\ wk[w].pc \in Cleared /\ Go(w, pc)
  BY DEF Open, At, Working, Cleared, Scripted
<1> QED
  BY <1>1, GoRows DEF Open, InputsUnchanged

LEMMA SpeakRows ==
  ASSUME Typed, NEW w \in Worker, Speak(w)
  PROVE  RowsStep(w)
BY GoRows DEF Speak, At, InputsUnchanged, Working, Cleared, Scripted

LEMMA FencePublicationRows ==
  ASSUME Typed, NEW w \in Worker, FencePublication(w)
  PROVE  RowsStep(w)
<1>1. CASE Fails(w, TRUE)
  BY <1>1, FailureRows DEF FencePublication, InputsUnchanged
<1>2. CASE Fenced(w, "moving")
  BY <1>2, FenceRows DEF FencePublication, At, InputsUnchanged, Working, Cleared, Scripted
<1> QED
  BY <1>1, <1>2 DEF FencePublication

LEMMA MoveRows ==
  ASSUME Typed, NEW w \in Worker, Move(w)
  PROVE  RowsStep(w)
<1>1. CASE Fails(w, TRUE)
  BY <1>1, FailureRows DEF Move, InputsUnchanged
<1>2. CASE Go(w, "describing")
  BY <1>2, GoRows DEF Move, At, InputsUnchanged, Working, Cleared, Scripted
<1> QED
  BY <1>1, <1>2 DEF Move

LEMMA DescribeRows ==
  ASSUME Typed, NEW w \in Worker, Describe(w)
  PROVE  RowsStep(w)
BY DescribeIs DEF Describe, At, RowsStep, InputsUnchanged, Cleared, Scripted

LEMMA PublishRows ==
  ASSUME Typed, NEW w \in Worker, Publish(w)
  PROVE  RowsStep(w)
BY RestIs, ClearedIsWorking DEF Publish, RowsStep, InputsUnchanged, Typed, TypeOK

LEMMA StopRows ==
  ASSUME Typed, NEW w \in Worker, Stop(w)
  PROVE  RowsStep(w)
BY StopIs, ClearedIsWorking DEF Stop, RowsStep, InputsUnchanged

LEMMA CrashRows ==
  ASSUME Typed, NEW w \in Worker, Crash(w)
  PROVE  RowsStep(w)
BY CrashIs, ClearedIsWorking DEF Crash, RowsStep, InputsUnchanged

LEMMA RestartRows ==
  ASSUME Typed, NEW w \in Worker, Restart(w)
  PROVE  RowsStep(w)
BY RestIs, ClearedIsWorking DEF Restart, RowsStep, InputsUnchanged, Typed, TypeOK

LEMMA WorkerStepRows == ASSUME Typed, NEW w \in Worker, WorkerStep(w) PROVE RowsStep(w)
BY ClaimRows, BeginRows, SyncFailsRows, SyncBusyRows, SyncStoresRows, SyncUnmodifiedRows, SyncedRows,
   FinalizeRows, AuthorizeRows, DraftRows, ValidateRows, TextFailsRows, SpeechFailsRows, WrittenRows,
   CleanRows, OpenRows, SpeakRows, FencePublicationRows, MoveRows, DescribeRows, PublishRows, StopRows,
   CrashRows, RestartRows DEF WorkerStep

LEMMA SelectedIsHonest == ASSUME Honest(evidence) PROVE Honest(Selected)
<1>1. NoteRow.kind # "feed"
  BY DEF NoteRow
<1>2. Honest(Collected)
  BY <1>1 DEF Honest, FeedRows, Collected, ScopeOfItem
<1> QED
  BY <1>2 DEF Selected

(* A provider that serves the request is given what was cleared. *)
LEMMA ClearedIsPublic ==
  ASSUME Disclosure, NEW w \in Worker, wk[w].pc \in Cleared, NEW p \in {setup.text, setup.speech}
  PROVE  \A r \in DisclosedTo(p, w) : r.item.scope = "public"
<1>1. CASE p # "openai"
  BY <1>1 DEF DisclosedTo, Disclosure, OpenAiSeesPublicOnly
<1>2. CASE p = "openai"
  <2>1. UsesOpenAi
    BY <1>2 DEF UsesOpenAi
  <2>2. \A r \in FeedRows(wk[w].rows) : r.scope = "public" /\ r.scope = r.item.scope
    BY <2>1 DEF Disclosure, Safe, Authorized, Honest
  <2> QED
    BY <1>2, <2>2 DEF DisclosedTo, Disclosure, OpenAiSeesPublicOnly
<1> QED
  BY <1>1, <1>2

LEMMA WorkerStepDiscloses ==
  ASSUME Typed, Disclosure, NEW w \in Worker, WorkerStep(w)
  PROVE  (\A v \in Worker : Safe(v))' /\ OpenAiSeesPublicOnly'
<1>1. RowsStep(w)
  BY WorkerStepRows
<1>2. Honest(Selected) /\ Honest({})
  BY SelectedIsHonest DEF Disclosure, Honest, FeedRows
<1>3. \A rows : Honest(rows)' <=> Honest(rows)
  BY DEF Honest, FeedRows
<1>4. \A rows : Authorized(rows)' <=> Authorized(rows)
  BY <1>1 DEF Authorized, UsesOpenAi, FeedRows, RowsStep
<1>5. ASSUME NEW v \in Worker, v # w PROVE Safe(v)'
  BY <1>1, <1>5, <1>3, <1>4 DEF Safe, Disclosure, RowsStep, Honest, Authorized, UsesOpenAi, FeedRows
<1>6. Honest(wk'[w].rows)
  BY <1>1, <1>2 DEF RowsStep, Disclosure, Safe
<1>7. wk'[w].pc \in Cleared => Authorized(wk'[w].rows)
  BY <1>1 DEF RowsStep, Disclosure, Safe
<1>8. Safe(w)'
  BY <1>1, <1>6, <1>7 DEF Safe, Honest, Authorized, UsesOpenAi, FeedRows, RowsStep
<1>9. OpenAiSeesPublicOnly'
  BY <1>1, ClearedIsPublic DEF RowsStep, OpenAiSeesPublicOnly, Disclosure
<1> QED
  BY <1>5, <1>8, <1>9

LEMMA OutsideStepDiscloses ==
  ASSUME Disclosure, UNCHANGED <<setup, wk, disclosed>>
  PROVE  (\A v \in Worker : Safe(v))' /\ OpenAiSeesPublicOnly'
BY DEF Disclosure, Safe, Honest, Authorized, UsesOpenAi, FeedRows, OpenAiSeesPublicOnly

(* For any instance: OpenAI is never given feed material that was fetched   *)
(* from a private network or whose scope is unknown.                        *)
THEOREM PipelineOpenAiSeesPublicOnly == Spec => []OpenAiSeesPublicOnly
<1>1. Init => Disclosure
  BY RestingIsMemory DEF Init, Disclosure, Safe, Honest, FeedRows, OpenAiSeesPublicOnly, Cleared, Scripted
<1>2. ASSUME Typed, Disclosure, [Next]_vars PROVE Disclosure'
  <2>1. Honest(evidence')
    BY <1>2, EvidenceChanges, SelectedIsHonest DEF Disclosure, vars
  <2>2. CASE \E w \in Worker : WorkerStep(w)
    BY <1>2, <2>1, <2>2, WorkerStepDiscloses DEF Disclosure, Honest, FeedRows
  <2>3. CASE UNCHANGED <<setup, wk, disclosed>>
    BY <1>2, <2>1, <2>3, OutsideStepDiscloses DEF Disclosure, Honest, FeedRows
  <2>4. (\E w \in Worker : WorkerStep(w)) \/ UNCHANGED <<setup, wk, disclosed>>
    BY <1>2 DEF Next, EditSource, OtherSync, Retry, Stall, SourceUnchanged, InputsUnchanged, vars
  <2> QED
    BY <2>2, <2>3, <2>4
<1>3. Disclosure => OpenAiSeesPublicOnly
  BY DEF Disclosure
<1>4. Spec => []Typed
  BY InitTyped, StepTyped, PTL DEF Spec
<1> QED
  BY <1>1, <1>2, <1>3, <1>4, PTL DEF Spec

-----------------------------------------------------------------------------
(***************************************************************************)
(* That a published episode is heard as it was published                   *)
(* (PublishedAudioIsServed).  What could go wrong is a worker of a lost    *)
(* attempt that still has a rename to do.  Prepared says why it cannot:    *)
(* the worker that holds the lease removed every temporary of its file     *)
(* name before it went on, and nobody without the lease gets as far as a   *)
(* rename any more.  Served carries this over to the time after the        *)
(* publication.  Most steps of a worker are Quiet in this respect.         *)
(***************************************************************************)

Late == {"opening", "speaking", "fencing", "moving", "describing", "publishing"}
Described == {"describing", "publishing"}

OpenAiSpeaks == setup.speech = "openai"

(* Nobody but w has a temporary to rename to the file of the script. *)
Alone(w, script) ==
  \A v \in Worker : v # w /\ wk[v].pc = "moving" /\ wk[v].script = script => MyTake(v) \notin temps

NoMover(script) ==
  \A v \in Worker : wk[v].pc = "moving" /\ wk[v].script = script => MyTake(v) \notin temps

Current == \A w \in Worker : Owned(w) => wk[w].pc \in Working

Distinct == \A v, w \in Worker :
  v # w /\ wk[v].pc \in Working /\ wk[w].pc \in Working => wk[v].attempt # wk[w].attempt

Prepared(w) == OpenAiSpeaks /\ Owned(w) =>
  /\ wk[w].pc \in Late => Alone(w, wk[w].script)
  /\ wk[w].pc \in Described => files[wk[w].script] # NoAudio
  /\ wk[w].pc = "publishing" => wk[w].audio = files[wk[w].script]

FilesNamed == \A n \in Script : files[n] # NoAudio => files[n].script = n

Served == episode # NoEpisode =>
  /\ job.state = "complete"
  /\ episode.script \in Script
  /\ OpenAiSpeaks => /\ files[episode.script] # NoAudio
                     /\ episode.audio = files[episode.script]
                     /\ NoMover(episode.script)

MediaInv == Current /\ Distinct /\ (\A w \in Worker : Prepared(w)) /\ FilesNamed /\ Served

-----------------------------------------------------------------------------
(* Quiet steps *)

Quiet(w) ==
  /\ setup' = setup /\ files' = files /\ episode' = episode /\ temps' \subseteq temps
  /\ \A v \in Worker : v # w => wk'[v] = wk[v]
  /\ job.state = "complete" => job'.state = "complete"
  /\ \A v \in Worker : Owned(v)' => Owned(v)
  /\ wk'[w].pc \notin Working => ~Owned(w)'
  /\ wk'[w].pc \in Working => wk[w].pc \in Working /\ wk'[w].attempt = wk[w].attempt
  /\ wk'[w].pc \in Late /\ OpenAiSpeaks => wk[w].pc \in Late /\ wk'[w].script = wk[w].script
  /\ wk'[w].pc = "moving" => Owned(w)
  /\ wk'[w].pc \in Described /\ OpenAiSpeaks /\ Owned(w) => files[wk'[w].script] # NoAudio
  /\ wk'[w].pc = "publishing" => wk'[w].audio = files[wk'[w].script]

LEMMA QuietKeeps == ASSUME Typed, MediaInv, NEW w \in Worker, Quiet(w) PROVE MediaInv'
<1>1. Current'
  BY DEF MediaInv, Current, Quiet
<1>2. Distinct'
  BY DEF MediaInv, Distinct, Quiet
<1>3. FilesNamed'
  BY DEF MediaInv, FilesNamed, Quiet
<1>4. ASSUME NEW u \in Worker PROVE Prepared(u)'
  <2> SUFFICES ASSUME OpenAiSpeaks, Owned(u), Owned(u)' PROVE Prepared(u)'
    BY DEF Prepared, Quiet, OpenAiSpeaks
  <2>1. Prepared(u)
    BY DEF MediaInv
  <2>2. CASE u = w
    <3>1. ASSUME wk'[w].pc \in Late PROVE Alone(w, wk[w].script)'
      <4>1. Alone(w, wk[w].script) /\ wk'[w].script = wk[w].script
        BY <2>1, <2>2, <3>1 DEF Prepared, Quiet
      <4>2. temps' \subseteq temps /\ \A v \in Worker : v # w => wk'[v] = wk[v]
        BY DEF Quiet
      <4> QED
        BY <4>1, <4>2 DEF Alone, MyTake
    <3>2. wk'[w].pc \in Described => files'[wk'[w].script] # NoAudio
      BY <2>2 DEF Quiet
    <3>3. wk'[w].pc = "publishing" => wk'[w].audio = files'[wk'[w].script]
      BY DEF Quiet
    <3> QED
      BY <2>2, <3>1, <3>2, <3>3 DEF Prepared
  <2>3. CASE u # w
    <3>1. wk'[u] = wk[u] /\ wk'[w].pc # "moving"
      BY <2>3 DEF Quiet, Owned
    <3>2. wk[u].pc \in Late => Alone(u, wk[u].script)'
      BY <2>1, <3>1 DEF Prepared, Quiet, Alone, MyTake
    <3> QED
      BY <2>1, <3>1, <3>2 DEF Prepared, Quiet
  <2> QED
    BY <2>2, <2>3
<1>5. Served'
  <2> SUFFICES ASSUME episode # NoEpisode PROVE Served'
    BY DEF Served, Quiet
  <2>1. job.state = "complete" /\ wk'[w].pc # "moving"
    BY DEF MediaInv, Served, Quiet, Owned
  <2>2. OpenAiSpeaks => NoMover(episode.script)'
    BY <2>1 DEF MediaInv, Served, Quiet, NoMover, MyTake
  <2> QED
    BY <2>1, <2>2 DEF MediaInv, Served, Quiet, OpenAiSpeaks
<1> QED
  BY <1>1, <1>2, <1>3, <1>4, <1>5 DEF MediaInv

LEMMA LateIsWorking == Late \subseteq Working /\ Described \subseteq Late /\ Late \subseteq Scripted
BY DEF Late, Described, Working, Scripted

(* A worker that comes to rest having given up its lease, if it had it. *)
LEMMA RestIsQuiet ==
  ASSUME Typed, NEW w \in Worker, setup' = setup, files' = files, episode' = episode, temps' \subseteq temps,
         \A v \in Worker : v # w => wk'[v] = wk[v], wk'[w].pc \notin Working,
         job.state = "complete" => job'.state = "complete",
         \A v \in Worker : Owned(v)' => Owned(v), ~Owned(w)'
  PROVE  Quiet(w)
BY LateIsWorking DEF Quiet, Working

LEMMA FailureIsQuiet ==
  ASSUME Typed, NEW w \in Worker, NEW again \in BOOLEAN, Fails(w, again), setup' = setup, episode' = episode
  PROVE  Quiet(w)
<1>1. /\ wk'[w].pc \notin Working /\ \A v \in Worker : v # w => wk'[v] = wk[v]
      /\ job' = job \/ (job.state = "running" /\ job'.state = "failed" /\ job'.leased = FALSE)
      /\ temps' = temps \ TakesOf(w) /\ files' = files
  BY FailsIs DEF Typed
<1>2. CASE Owned(w)
  <2>1. job'.state = "failed"
    BY <1>2 DEF Fails, Typed, TypeOK, JobRow
  <2>2. \A v \in Worker : ~Owned(v)'
    BY <2>1 DEF Owned
  <2> QED
    BY <1>1, <1>2, <2>2, RestIsQuiet DEF Owned
<1>3. CASE ~Owned(w)
  <2>1. job' = job
    BY <1>3 DEF Fails
  <2>2. \A v \in Worker : Owned(v)' <=> Owned(v)
    BY <2>1 DEF Owned
  <2> QED
    BY <1>1, <1>3, <2>1, <2>2, RestIsQuiet
<1> QED
  BY <1>2, <1>3

LEMMA FenceIsQuiet ==
  ASSUME Typed, NEW w \in Worker, NEW pc \in Working \ Described, Fenced(w, pc), wk[w].pc \in Working,
         pc \in Late /\ OpenAiSpeaks => wk[w].pc \in Late,
         setup' = setup, files' = files, episode' = episode, job' = job
  PROVE  Quiet(w)
<1>1. \A v \in Worker : Owned(v)' <=> Owned(v)
  BY DEF Owned
<1>2. CASE Owned(w) /\ wk'[w].pc = pc
  <2>1. /\ \A v \in Worker : v # w => wk'[v] = wk[v]
        /\ temps' = temps /\ wk'[w].attempt = wk[w].attempt /\ wk'[w].script = wk[w].script
    BY <1>2, FencedIs DEF Typed
  <2> QED
    BY <1>1, <1>2, <2>1 DEF Quiet, Described
<1>3. CASE ~Owned(w)
  <2>1. /\ \A v \in Worker : v # w => wk'[v] = wk[v]
        /\ temps' \subseteq temps /\ wk'[w].pc \notin Working
    BY <1>3, FencedIs DEF Typed
  <2> QED
    BY <1>1, <1>3, <2>1, RestIsQuiet
<1> QED
  BY <1>2, <1>3, FencedIs DEF Typed

(* A step in the worker's memory alone, before the speech. *)
LEMMA EarlyIsQuiet ==
  ASSUME Typed, NEW w \in Worker, wk[w].pc \in Working, wk'[w].pc \in Working \ Late,
         wk'[w].attempt = wk[w].attempt, \A v \in Worker : v # w => wk'[v] = wk[v],
         setup' = setup, job' = job, temps' = temps, files' = files, episode' = episode
  PROVE  Quiet(w)
<1>1. \A v \in Worker : Owned(v)' <=> Owned(v)
  BY DEF Owned
<1> QED
  BY <1>1 DEF Quiet, Late, Described

LEMMA BeginIsQuiet == ASSUME Typed, NEW w \in Worker, Begin(w) PROVE Quiet(w)
<1> DEFINE m == [wk[w] EXCEPT !.pc = "syncing", !.todo = IF evidence = {} THEN Source ELSE {}]
<1>1. m.pc = "syncing" /\ m.attempt = wk[w].attempt /\ wk' = [wk EXCEPT ![w] = m]
  BY DEF Begin, Typed, TypeOK, Memory
<1> HIDE DEF m
<1>2. wk'[w] = m /\ \A v \in Worker : v # w => wk'[v] = wk[v]
  BY <1>1 DEF Typed, TypeOK
<1>3. wk[w].pc \in Working /\ wk'[w].pc \in Working \ Late
  BY <1>1, <1>2 DEF Begin, At, Working, Late
<1> QED
  BY <1>1, <1>2, <1>3, EarlyIsQuiet DEF Begin, InputsUnchanged, MediaUnchanged

LEMMA NextSourceIsQuiet ==
  ASSUME Typed, NEW w \in Worker, NEW s \in Source, At(w, "syncing"), Next1(w, s),
         setup' = setup, job' = job, temps' = temps, files' = files, episode' = episode
  PROVE  Quiet(w)
<1>1. /\ wk'[w].pc = wk[w].pc /\ wk'[w].attempt = wk[w].attempt
      /\ \A v \in Worker : v # w => wk'[v] = wk[v]
  BY Next1Is DEF Typed
<1>2. wk[w].pc \in Working /\ wk'[w].pc \in Working \ Late
  BY <1>1 DEF At, Working, Late
<1> QED
  BY <1>1, <1>2, EarlyIsQuiet

LEMMA SyncIsQuiet ==
  ASSUME Typed, NEW w \in Worker, NEW s \in Source, NEW scope \in Fetched,
         SyncFails(w, s) \/ SyncBusy(w, s) \/ SyncStores(w, s, scope) \/ SyncUnmodified(w, s, scope)
  PROVE  Quiet(w)
<1>1. CASE SyncFails(w, s)
  BY <1>1, NextSourceIsQuiet DEF SyncFails, MediaUnchanged
<1>2. CASE SyncBusy(w, s)
  BY <1>2, FailureIsQuiet DEF SyncBusy
<1>3. CASE SyncStores(w, s, scope)
  BY <1>3, NextSourceIsQuiet DEF SyncStores, MediaUnchanged
<1>4. CASE SyncUnmodified(w, s, scope)
  BY <1>4, NextSourceIsQuiet DEF SyncUnmodified, MediaUnchanged
<1> QED
  BY <1>1, <1>2, <1>3, <1>4

LEMMA FinalizeIsQuiet == ASSUME Typed, NEW w \in Worker, Finalize(w) PROVE Quiet(w)
<1>1. CASE ~Sufficient(Selected)
  BY <1>1, FailureIsQuiet DEF Finalize, InputsUnchanged
<1>2. CASE Sufficient(Selected)
  <2> DEFINE m == [wk[w] EXCEPT !.pc = "authorizing", !.rows = Selected]
  <2>1. m.pc = "authorizing" /\ m.attempt = wk[w].attempt /\ wk' = [wk EXCEPT ![w] = m]
    BY <1>2 DEF Finalize, Typed, TypeOK, Memory
  <2> HIDE DEF m
  <2>2. wk'[w] = m /\ \A v \in Worker : v # w => wk'[v] = wk[v]
    BY <2>1 DEF Typed, TypeOK
  <2>3. wk[w].pc \in Working /\ wk'[w].pc \in Working \ Late
    BY <2>1, <2>2 DEF Finalize, At, Working, Late
  <2> QED
    BY <1>2, <2>1, <2>2, <2>3, EarlyIsQuiet DEF Finalize, InputsUnchanged, MediaUnchanged
<1> QED
  BY <1>1, <1>2

LEMMA ValidateIsQuiet ==
  ASSUME Typed, NEW w \in Worker, NEW script \in Script, Validate(w, script)
  PROVE  Quiet(w)
<1> DEFINE m == [wk[w] EXCEPT !.pc = "written", !.script = script]
<1>1. m.pc = "written" /\ m.attempt = wk[w].attempt /\ wk' = [wk EXCEPT ![w] = m]
  BY DEF Validate, Typed, TypeOK, Memory
<1> HIDE DEF m
<1>2. wk'[w] = m /\ \A v \in Worker : v # w => wk'[v] = wk[v]
  BY <1>1 DEF Typed, TypeOK
<1>3. wk[w].pc \in Working /\ wk'[w].pc \in Working \ Late
  BY <1>1, <1>2 DEF Validate, At, Working, Late
<1> QED
  BY <1>1, <1>2, <1>3, EarlyIsQuiet DEF Validate, InputsUnchanged, MediaUnchanged

LEMMA FencedStepIsQuiet ==
  ASSUME Typed, NEW w \in Worker,
         Synced(w) \/ Authorize(w) \/ Draft(w) \/ Written(w) \/ FencePublication(w)
  PROVE  Quiet(w)
<1>1. CASE Synced(w)
  BY <1>1, FenceIsQuiet DEF Synced, At, Working, Late, Described, InputsUnchanged
<1>2. CASE Authorize(w)
  <2>1. CASE Fenced(w, "drafting") /\ UNCHANGED <<job, files>>
    BY <1>2, <2>1, FenceIsQuiet DEF Authorize, At, Working, Late, Described, InputsUnchanged
  <2>2. CASE Fails(w, FALSE)
    BY <1>2, <2>2, FailureIsQuiet DEF Authorize, InputsUnchanged
  <2> QED
    BY <1>2, <2>1, <2>2 DEF Authorize
<1>3. CASE Draft(w)
  BY <1>3, FenceIsQuiet DEF Draft, At, Working, Late, Described, InputsUnchanged
<1>4. CASE Written(w)
  <2> DEFINE pc == IF setup.speech = "openai" THEN "cleaning" ELSE "opening"
  <2>1. pc \in Working \ Described /\ wk[w].pc \in Working /\ Fenced(w, pc) /\ (pc \in Late => ~OpenAiSpeaks)
    BY <1>4 DEF Written, At, Working, Late, Described, OpenAiSpeaks
  <2> HIDE DEF pc
  <2> QED
    BY <1>4, <2>1, FenceIsQuiet DEF Written, InputsUnchanged
<1>5. CASE FencePublication(w)
  <2>1. CASE Fenced(w, "moving") /\ UNCHANGED <<job, files>>
    BY <1>5, <2>1, FenceIsQuiet DEF FencePublication, At, Working, Late, Described, InputsUnchanged
  <2>2. CASE Fails(w, TRUE)
    BY <1>5, <2>2, FailureIsQuiet DEF FencePublication, InputsUnchanged
  <2> QED
    BY <1>5, <2>1, <2>2 DEF FencePublication
<1> QED
  BY <1>1, <1>2, <1>3, <1>4, <1>5

LEMMA FailedCallIsQuiet ==
  ASSUME Typed, NEW w \in Worker, NEW again \in BOOLEAN, TextFails(w, again) \/ SpeechFails(w, again)
  PROVE  Quiet(w)
BY FailureIsQuiet DEF TextFails, SpeechFails, InputsUnchanged

LEMMA OpenIsQuiet == ASSUME Typed, NEW w \in Worker, Open(w) PROVE Quiet(w)
<1> DEFINE pc == IF Destination(w) = NoAudio THEN "speaking" ELSE "describing"
<1>1. /\ pc \in Working /\ pc \in Late /\ pc # "moving" /\ pc # "publishing" /\ Go(w, pc)
      /\ pc \in Described => files[wk[w].script] # NoAudio
      /\ wk[w].pc \in Working /\ wk[w].pc \in Late
  BY DEF Open, At, Working, Late, Described, Destination, FileOf
<1> HIDE DEF pc
<1>2. /\ wk'[w].pc = pc /\ wk'[w].attempt = wk[w].attempt /\ wk'[w].script = wk[w].script
      /\ \A v \in Worker : v # w => wk'[v] = wk[v]
  BY <1>1, GoIs DEF Typed, TypeOK
<1>3. /\ setup' = setup /\ files' = files /\ episode' = episode /\ temps' = temps /\ job' = job
  BY DEF Open, InputsUnchanged, MediaUnchanged
<1>4. \A v \in Worker : Owned(v)' <=> Owned(v)
  BY <1>3 DEF Owned
<1> QED
  BY <1>1, <1>2, <1>3, <1>4 DEF Quiet

LEMMA DescribeIsQuiet == ASSUME Typed, MediaInv, NEW w \in Worker, Describe(w) PROVE Quiet(w)
<1>1. /\ wk'[w].pc = "publishing" /\ wk'[w].attempt = wk[w].attempt /\ wk'[w].script = wk[w].script
      /\ wk'[w].audio = files[wk[w].script] /\ \A v \in Worker : v # w => wk'[v] = wk[v]
  BY DescribeIs
<1>2. /\ setup' = setup /\ files' = files /\ episode' = episode /\ temps' = temps /\ job' = job
  BY DEF Describe, InputsUnchanged, MediaUnchanged
<1>3. \A v \in Worker : Owned(v)' <=> Owned(v)
  BY <1>2 DEF Owned
<1>4. wk[w].pc \in Working /\ wk[w].pc \in Late /\ wk[w].pc \in Described
  BY DEF Describe, At, Working, Late, Described
<1>5. OpenAiSpeaks /\ Owned(w) => files[wk[w].script] # NoAudio
  BY <1>4 DEF MediaInv, Prepared
<1>6. wk'[w].pc # "moving" /\ wk'[w].pc \in Working
  BY <1>1 DEF Working
<1> QED
  BY <1>1, <1>2, <1>3, <1>4, <1>5, <1>6 DEF Quiet

LEMMA RefusedIsQuiet ==
  ASSUME Typed, NEW w \in Worker, Publish(w), ~Owned(w)
  PROVE  Quiet(w)
<1>1. Gone(w) /\ job' = job /\ setup' = setup /\ files' = files /\ episode' = episode /\ temps' = temps
  BY DEF Publish, InputsUnchanged, MediaUnchanged
<1>2. \A v \in Worker : Owned(v)' <=> Owned(v)
  BY <1>1 DEF Owned
<1> QED
  BY <1>1, <1>2, RestIs, RestIsQuiet DEF Typed, TypeOK

LEMMA StopIsQuiet == ASSUME Typed, NEW w \in Worker, Stop(w) PROVE Quiet(w)
<1>1. setup' = setup /\ files' = files /\ episode' = episode /\ temps' \subseteq temps
  BY StopIs DEF Stop, InputsUnchanged
<1>2. wk'[w].pc \notin Working /\ \A v \in Worker : v # w => wk'[v] = wk[v]
  BY StopIs
<1>3. /\ \A v \in Worker : Owned(v)' => Owned(v)
      /\ ~Owned(w)' /\ (job.state = "complete" => job'.state = "complete")
  <2>1. CASE Owned(w)
    <3>1. job'.state = "queued" /\ job.state = "running"
      BY <2>1 DEF Stop, Owned, Typed, TypeOK, JobRow
    <3> QED
      BY <3>1 DEF Owned
  <2>2. CASE ~Owned(w)
    <3>1. job' = job
      BY <2>2 DEF Stop
    <3> QED
      BY <2>2, <3>1 DEF Owned
  <2> QED
    BY <2>1, <2>2
<1> QED
  BY <1>1, <1>2, <1>3, RestIsQuiet

LEMMA CrashIsQuiet == ASSUME Typed, NEW w \in Worker, Crash(w) PROVE Quiet(w)
<1>1. setup' = setup /\ files' = files /\ episode' = episode /\ temps' = temps
  BY DEF Crash, InputsUnchanged, MediaUnchanged
<1>2. wk'[w].pc \notin Working /\ \A v \in Worker : v # w => wk'[v] = wk[v]
  BY CrashIs
<1>3. /\ \A v \in Worker : Owned(v)' => Owned(v)
      /\ ~Owned(w)' /\ (job.state = "complete" => job'.state = "complete")
  BY CrashIs DEF Owned
<1> QED
  BY <1>1, <1>2, <1>3, RestIsQuiet

LEMMA RestartIsQuiet == ASSUME Typed, MediaInv, NEW w \in Worker, Restart(w) PROVE Quiet(w)
<1>1. Leave(w) /\ job' = job /\ setup' = setup /\ files' = files /\ episode' = episode /\ temps' = temps
  BY DEF Restart, InputsUnchanged, MediaUnchanged
<1>2. ~Owned(w)
  BY DEF MediaInv, Current, Restart, At, Working
<1>3. \A v \in Worker : Owned(v)' <=> Owned(v)
  BY <1>1 DEF Owned
<1> QED
  BY <1>1, <1>2, <1>3, RestIs, RestIsQuiet DEF Typed, TypeOK

-----------------------------------------------------------------------------
(* The steps that are not quiet *)

(* A new attempt: its number is above every other's, and its worker has yet *)
(* to clean up.                                                             *)
LEMMA ClaimKeepsMedia == ASSUME Typed, MediaInv, NEW w \in Worker, Claim(w) PROVE MediaInv'
<1> DEFINE m == [Idle EXCEPT !.pc = "claimed", !.attempt = job.attempt + 1]
<1>1. m.pc = "claimed" /\ m.attempt = job.attempt + 1 /\ wk' = [wk EXCEPT ![w] = m]
  BY DEF Claim, Idle
<1> HIDE DEF m
<1>2. wk'[w] = m /\ \A v \in Worker : v # w => wk'[v] = wk[v]
  BY <1>1 DEF Typed, TypeOK
<1>3. wk'[w].pc \notin Late /\ wk'[w].pc \notin Described /\ wk'[w].pc \in Working /\ wk'[w].pc # "moving"
  BY <1>1, <1>2 DEF Late, Described, Working
<1>4. setup' = setup /\ files' = files /\ episode' = episode /\ temps' = temps
  BY DEF Claim, InputsUnchanged, MediaUnchanged
<1>5. job'.state = "running" /\ job'.owner = w /\ job.state # "complete"
  BY DEF Claim
<1>6. Current'
  BY <1>3, <1>5 DEF Current, Owned
<1>7. Distinct'
  <2>1. ASSUME NEW v \in Worker, wk[v].pc \in Working PROVE wk[v].attempt # job.attempt + 1
    <3>1. wk[v].attempt \in 1..job.attempt /\ job.attempt \in Nat
      BY <2>1 DEF Typed, Held, TypeOK, JobRow
    <3> QED
      BY <3>1
  <2> QED
    BY <1>1, <1>2, <2>1 DEF Distinct, MediaInv
<1>8. \A u \in Worker : Prepared(u)'
  <2>1. \A u \in Worker : Owned(u)' => u = w
    BY <1>5 DEF Owned
  <2>2. Prepared(w)'
    BY <1>3 DEF Prepared, Described
  <2> QED
    BY <2>1, <2>2 DEF Prepared
<1>9. FilesNamed' /\ Served'
  BY <1>4, <1>5 DEF MediaInv, FilesNamed, Served
<1> QED
  BY <1>6, <1>7, <1>8, <1>9 DEF MediaInv

(* The clean-up leaves nobody a temporary to rename to this script's file,  *)
(* whoever cleans up.                                                       *)
LEMMA CleanKeepsMedia == ASSUME Typed, MediaInv, NEW w \in Worker, Clean(w) PROVE MediaInv'
<1>1. /\ wk'[w].pc = "opening" /\ wk'[w].attempt = wk[w].attempt /\ wk'[w].script = wk[w].script
      /\ \A v \in Worker : v # w => wk'[v] = wk[v]
  BY GoIs DEF Clean, Working, Typed, TypeOK
<1>2. /\ setup' = setup /\ files' = files /\ episode' = episode /\ job' = job
      /\ temps' = temps \ StaleTemps(w)
  BY DEF Clean, InputsUnchanged
<1>3. \A v \in Worker : Owned(v)' <=> Owned(v)
  BY <1>2 DEF Owned
<1>4. wk[w].pc \in Working /\ wk'[w].pc \in Working /\ wk'[w].pc \notin Described /\ wk'[w].pc # "moving"
  BY <1>1 DEF Clean, At, Working, Described
<1>5. Current' /\ Distinct' /\ FilesNamed'
  BY <1>1, <1>2, <1>3, <1>4 DEF MediaInv, Current, Distinct, FilesNamed
<1>6. ASSUME NEW u \in Worker PROVE Prepared(u)'
  <2>1. CASE u = w
    <3>1. Alone(w, wk[w].script)'
      <4> SUFFICES ASSUME NEW v \in Worker, v # w, wk[v].pc = "moving", wk[v].script = wk[w].script
                   PROVE  MyTake(v) \notin temps'
        BY <1>1 DEF Alone, MyTake
      <4>1. MyTake(v).script = wk[w].script
        BY DEF MyTake
      <4> QED
        BY <1>2, <4>1 DEF StaleTemps, FileOf
    <3> QED
      BY <2>1, <3>1, <1>4 DEF Prepared, Described
  <2>2. CASE u # w
    <3>1. Prepared(u) /\ temps' \subseteq temps
      BY <1>2 DEF MediaInv
    <3>2. OpenAiSpeaks /\ Owned(u) /\ wk[u].pc \in Late => Alone(u, wk[u].script)'
      BY <3>1, <1>1, <1>4, <2>2 DEF Prepared, Alone, MyTake
    <3> QED
      BY <3>1, <3>2, <1>1, <1>2, <1>3, <2>2 DEF Prepared, OpenAiSpeaks
  <2> QED
    BY <2>1, <2>2
<1>7. Served'
  <2>1. temps' \subseteq temps
    BY <1>2
  <2>2. episode # NoEpisode /\ OpenAiSpeaks => NoMover(episode.script)'
    BY <1>1, <1>2, <1>4, <2>1 DEF MediaInv, Served, NoMover, MyTake
  <2> QED
    BY <1>2, <2>2 DEF MediaInv, Served, OpenAiSpeaks
<1> QED
  BY <1>5, <1>6, <1>7 DEF MediaInv

(* A new temporary belongs to an attempt nobody else works for.             *)
LEMMA SpeakKeepsMedia == ASSUME Typed, MediaInv, NEW w \in Worker, Speak(w) PROVE MediaInv'
<1>1. /\ wk'[w].pc = "fencing" /\ wk'[w].attempt = wk[w].attempt /\ wk'[w].script = wk[w].script
      /\ \A v \in Worker : v # w => wk'[v] = wk[v]
  BY GoIs DEF Speak, Working, Typed, TypeOK
<1>2. /\ setup' = setup /\ files' = files /\ episode' = episode /\ job' = job
      /\ temps' = temps \cup {MyTake(w)}
  BY DEF Speak, InputsUnchanged
<1>3. \A v \in Worker : Owned(v)' <=> Owned(v)
  BY <1>2 DEF Owned
<1>4. /\ wk[w].pc \in Working /\ wk[w].pc \in Late
      /\ wk'[w].pc \in Working /\ wk'[w].pc \notin Described /\ wk'[w].pc # "moving"
  BY <1>1 DEF Speak, At, Working, Late, Described
<1>5. Current' /\ Distinct' /\ FilesNamed'
  BY <1>1, <1>2, <1>3, <1>4 DEF MediaInv, Current, Distinct, FilesNamed
<1>6. ASSUME NEW v \in Worker, v # w, wk[v].pc = "moving", MyTake(v) \notin temps
      PROVE  MyTake(v)' \notin temps'
  <2>1. wk[v].attempt # wk[w].attempt
    BY <1>4, <1>6 DEF MediaInv, Distinct, Working
  <2>2. MyTake(v) # MyTake(w)
    BY <2>1 DEF MyTake
  <2>3. MyTake(v)' = MyTake(v)
    BY <1>1, <1>6 DEF MyTake
  <2> QED
    BY <1>2, <1>6, <2>2, <2>3
<1>7. ASSUME NEW u \in Worker PROVE Prepared(u)'
  <2>1. Prepared(u)
    BY DEF MediaInv
  <2>2. CASE u = w
    <3>1. OpenAiSpeaks /\ Owned(w) => Alone(w, wk[w].script)'
      BY <2>1, <2>2, <1>1, <1>4, <1>6 DEF Prepared, Alone
    <3> QED
      BY <2>2, <3>1, <1>2, <1>3, <1>4 DEF Prepared, OpenAiSpeaks, Described
  <2>3. CASE u # w
    <3>1. OpenAiSpeaks /\ Owned(u) /\ wk[u].pc \in Late => Alone(u, wk[u].script)'
      BY <2>1, <2>3, <1>1, <1>4, <1>6 DEF Prepared, Alone
    <3> QED
      BY <2>1, <2>3, <3>1, <1>1, <1>2, <1>3 DEF Prepared, OpenAiSpeaks
  <2> QED
    BY <2>2, <2>3
<1>8. Served'
  <2>1. episode # NoEpisode /\ OpenAiSpeaks => NoMover(episode.script)'
    BY <1>1, <1>2, <1>4, <1>6 DEF MediaInv, Served, NoMover
  <2> QED
    BY <1>2, <2>1 DEF MediaInv, Served, OpenAiSpeaks
<1> QED
  BY <1>5, <1>7, <1>8 DEF MediaInv

(* The rename.  The holder of the lease may replace its file, and nobody    *)
(* else can touch the file of the holder or of the published episode.       *)
LEMMA MoveKeepsMedia ==
  ASSUME Typed, MediaInv, NEW w \in Worker, At(w, "moving"), MyTake(w) \in temps,
         temps' = temps \ {MyTake(w)}, files' = [files EXCEPT ![FileOf(wk[w].script)] = MyTake(w)],
         Go(w, "describing"), job' = job, setup' = setup, episode' = episode
  PROVE  MediaInv'
<1>1. /\ wk'[w].pc = "describing" /\ wk'[w].attempt = wk[w].attempt /\ wk'[w].script = wk[w].script
      /\ \A v \in Worker : v # w => wk'[v] = wk[v]
  BY GoIs DEF Working, Typed, TypeOK
<1>2. \A v \in Worker : Owned(v)' <=> Owned(v)
  BY DEF Owned
<1>3. /\ wk[w].pc \in Working /\ wk[w].pc \in Late /\ wk[w].pc = "moving"
      /\ wk'[w].pc \in Working /\ wk'[w].pc # "publishing" /\ wk'[w].pc # "moving"
  BY <1>1 DEF At, Working, Late
<1>4. /\ wk[w].script \in Script /\ MyTake(w) \in Audio /\ MyTake(w).script = wk[w].script
      /\ MyTake(w) # NoAudio
  <2>1. wk[w].pc \in Scripted
    BY <1>3 DEF Scripted
  <2>2. wk[w].script \in Script /\ MyTake(w) \in Audio /\ MyTake(w).script = wk[w].script
    BY <2>1, TakeIsAudio DEF Typed, Held
  <2>3. MyTake(w).script # NoScript
    BY <2>2, PipelineAssumption
  <2> QED
    BY <2>2, <2>3 DEF NoAudio
<1>5. /\ files'[wk[w].script] = MyTake(w)
      /\ \A n \in Script : n # wk[w].script => files'[n] = files[n]
  BY <1>4 DEF Typed, TypeOK, FileOf
<1>6. Current' /\ Distinct'
  BY <1>1, <1>2, <1>3 DEF MediaInv, Current, Distinct
<1>7. FilesNamed'
  BY <1>4, <1>5 DEF MediaInv, FilesNamed
<1>8. ASSUME NEW v \in Worker, v # w, MyTake(v) \notin temps PROVE MyTake(v)' \notin temps'
  <2>1. MyTake(v)' = MyTake(v)
    BY <1>1, <1>8 DEF MyTake
  <2> QED
    BY <1>8, <2>1
<1>9. ASSUME NEW u \in Worker PROVE Prepared(u)'
  <2>1. Prepared(u)
    BY DEF MediaInv
  <2>2. CASE u = w
    <3>1. OpenAiSpeaks /\ Owned(w) => Alone(w, wk[w].script)'
      BY <2>1, <2>2, <1>1, <1>3, <1>8 DEF Prepared, Alone
    <3> QED
      BY <2>2, <3>1, <1>1, <1>2, <1>3, <1>4, <1>5 DEF Prepared, OpenAiSpeaks
  <2>3. CASE u # w
    <3> SUFFICES ASSUME OpenAiSpeaks, Owned(u) PROVE Prepared(u)'
      BY <1>2 DEF Prepared, OpenAiSpeaks
    <3>1. wk[u].pc \in Late => Alone(u, wk[u].script)'
      BY <2>1, <2>3, <1>1, <1>3, <1>8 DEF Prepared, Alone
    <3>2. wk[u].pc \in Late => wk[w].script # wk[u].script
      BY <2>1, <2>3, <1>3 DEF Prepared, Alone
    <3>3. wk[u].pc \in Late => files'[wk[u].script] = files[wk[u].script]
      <4>1. wk[u].pc \in Late => wk[u].script \in Script
        BY LateIsWorking DEF Typed, Held
      <4> QED
        BY <3>2, <4>1, <1>5
    <3>4. wk[u].pc \in Described => wk[u].pc \in Late
      BY LateIsWorking
    <3>5. wk[u].pc = "publishing" => wk[u].pc \in Late
      BY DEF Late
    <3> QED
      BY <2>1, <2>3, <3>1, <3>3, <3>4, <3>5, <1>1 DEF Prepared
  <2> QED
    BY <2>2, <2>3
<1>10. Served'
  <2> SUFFICES ASSUME episode # NoEpisode PROVE Served'
    BY DEF Served
  <2>1. Served
    BY DEF MediaInv
  <2>2. OpenAiSpeaks => wk[w].script # episode.script
    BY <2>1, <1>3 DEF Served, NoMover
  <2>3. OpenAiSpeaks => NoMover(episode.script)'
    BY <2>1, <1>1, <1>3, <1>8 DEF Served, NoMover
  <2>4. OpenAiSpeaks => files'[episode.script] = files[episode.script]
    BY <2>1, <2>2, <1>5 DEF Served
  <2> QED
    BY <2>1, <2>3, <2>4 DEF Served, OpenAiSpeaks
<1> QED
  BY <1>6, <1>7, <1>9, <1>10 DEF MediaInv

(* The publication takes over what the holder prepared.                     *)
LEMMA PublishKeepsMedia ==
  ASSUME Typed, MediaInv, NEW w \in Worker, Publish(w), Owned(w)
  PROVE  MediaInv'
<1>1. wk'[w].pc \notin Working /\ \A v \in Worker : v # w => wk'[v] = wk[v]
  BY RestIs DEF Publish, Typed, TypeOK
<1>2. setup' = setup /\ files' = files /\ temps' = temps
  BY DEF Publish, InputsUnchanged, MediaUnchanged
<1>3. episode' = [script |-> wk[w].script, rows |-> wk[w].rows, audio |-> wk[w].audio]
  BY DEF Publish
<1>4. job'.state = "complete"
  BY DEF Publish, Typed, TypeOK, JobRow
<1>5. \A v \in Worker : ~Owned(v)'
  BY <1>4 DEF Owned
<1>6. wk[w].pc = "publishing" /\ wk[w].pc \in Late /\ wk[w].pc \in Described /\ wk[w].pc # "moving"
  BY DEF Publish, At, Late, Described
<1>7. Current' /\ (\A u \in Worker : Prepared(u)') /\ FilesNamed'
  BY <1>2, <1>5 DEF MediaInv, Current, Prepared, FilesNamed
<1>8. Distinct'
  BY <1>1 DEF MediaInv, Distinct
<1>9. episode'.script = wk[w].script /\ episode'.audio = wk[w].audio /\ wk[w].script \in Script
  BY <1>3, <1>6, LateIsWorking DEF Typed, Held
<1>10. OpenAiSpeaks => /\ Alone(w, wk[w].script) /\ files[wk[w].script] # NoAudio
                       /\ wk[w].audio = files[wk[w].script]
  BY <1>6 DEF MediaInv, Prepared
<1>11. wk'[w].pc # "moving"
  BY <1>1 DEF Working
<1>12. OpenAiSpeaks => NoMover(episode.script)'
  BY <1>1, <1>2, <1>9, <1>10, <1>11 DEF NoMover, Alone, MyTake
<1>13. Served'
  BY <1>2, <1>4, <1>9, <1>10, <1>12 DEF Served, OpenAiSpeaks
<1> QED
  BY <1>7, <1>8, <1>13 DEF MediaInv

(* What happens around the workers leaves media, memory and the episode.    *)
LEMMA OutsideKeepsMedia ==
  ASSUME MediaInv, setup' = setup, files' = files, temps' = temps, episode' = episode, wk' = wk,
         \A v \in Worker : Owned(v)' => Owned(v), job.state = "complete" => job'.state = "complete"
  PROVE  MediaInv'
<1>1. Current' /\ Distinct' /\ FilesNamed'
  BY DEF MediaInv, Current, Distinct, FilesNamed
<1>2. \A u \in Worker : Prepared(u)'
  BY DEF MediaInv, Prepared, OpenAiSpeaks, Alone, MyTake
<1>3. Served'
  BY DEF MediaInv, Served, OpenAiSpeaks, NoMover, MyTake
<1> QED
  BY <1>1, <1>2, <1>3 DEF MediaInv

LEMMA InitMedia == Init => MediaInv
<1> SUFFICES ASSUME Init PROVE MediaInv
  OBVIOUS
<1>1. \A w \in Worker : ~Owned(w) /\ wk[w].pc \notin Working
  BY DEF Init, Owned, Idle, Working
<1> QED
  BY <1>1 DEF Init, MediaInv, Current, Distinct, Prepared, FilesNamed, Served

LEMMA WorkerKeepsMedia == ASSUME Typed, MediaInv, NEW w \in Worker, WorkerStep(w) PROVE MediaInv'
<1>1. CASE Claim(w) \/ Clean(w) \/ Speak(w)
  BY <1>1, ClaimKeepsMedia, CleanKeepsMedia, SpeakKeepsMedia
<1>2. CASE Begin(w) \/ Finalize(w) \/ Open(w) \/ Describe(w) \/ Stop(w) \/ Crash(w) \/ Restart(w)
  BY <1>2, BeginIsQuiet, FinalizeIsQuiet, OpenIsQuiet, DescribeIsQuiet, StopIsQuiet, CrashIsQuiet,
     RestartIsQuiet, QuietKeeps
<1>3. CASE Synced(w) \/ Authorize(w) \/ Draft(w) \/ Written(w) \/ FencePublication(w)
  BY <1>3, FencedStepIsQuiet, QuietKeeps
<1>4. CASE \E s \in Source : SyncFails(w, s) \/ SyncBusy(w, s)
  <2>1. "public" \in Fetched
    BY DEF Fetched
  <2> QED
    BY <1>4, <2>1, SyncIsQuiet, QuietKeeps
<1>5. CASE \E s \in Source, scope \in Fetched : SyncStores(w, s, scope) \/ SyncUnmodified(w, s, scope)
  BY <1>5, SyncIsQuiet, QuietKeeps
<1>6. CASE \E script \in Script : Validate(w, script)
  BY <1>6, ValidateIsQuiet, QuietKeeps
<1>7. CASE \E again \in BOOLEAN : TextFails(w, again) \/ SpeechFails(w, again)
  BY <1>7, FailedCallIsQuiet, QuietKeeps
<1>8. CASE Move(w)
  <2>1. CASE Fails(w, TRUE)
    BY <1>8, <2>1, FailureIsQuiet, QuietKeeps DEF Move, InputsUnchanged
  <2>2. CASE ~Fails(w, TRUE)
    BY <1>8, <2>2, MoveKeepsMedia DEF Move, InputsUnchanged
  <2> QED
    BY <2>1, <2>2
<1>9. CASE Publish(w)
  BY <1>9, PublishKeepsMedia, RefusedIsQuiet, QuietKeeps
<1> QED
  BY <1>1, <1>2, <1>3, <1>4, <1>5, <1>6, <1>7, <1>8, <1>9 DEF WorkerStep

LEMMA StepKeepsMedia == Typed /\ MediaInv /\ [Next]_vars => MediaInv'
<1> SUFFICES ASSUME Typed, MediaInv, [Next]_vars PROVE MediaInv'
  OBVIOUS
<1>1. ASSUME NEW s \in Source, NEW to \in Url \cup {NoUrl}, EditSource(s, to) PROVE MediaInv'
  BY <1>1, OutsideKeepsMedia DEF EditSource, SourceUnchanged, Owned
<1>2. ASSUME NEW s \in Source, NEW scope \in Fetched, OtherSync(s, scope) PROVE MediaInv'
  BY <1>2, OutsideKeepsMedia DEF OtherSync, SourceUnchanged, Owned
<1>3. CASE Retry
  <2>1. job.state = "failed" /\ job'.state = "queued"
    BY <1>3 DEF Retry, Typed, TypeOK, JobRow
  <2> QED
    BY <1>3, <2>1, OutsideKeepsMedia DEF Retry, InputsUnchanged, MediaUnchanged, Owned
<1>4. CASE Stall
  <2>1. job.state = "running" /\ job'.leased = FALSE
    BY <1>4 DEF Stall, Typed, TypeOK, JobRow
  <2> QED
    BY <1>4, <2>1, OutsideKeepsMedia DEF Stall, InputsUnchanged, MediaUnchanged, Owned
<1>5. CASE UNCHANGED vars
  BY <1>5, OutsideKeepsMedia DEF vars, Owned
<1> QED
  BY <1>1, <1>2, <1>3, <1>4, <1>5, WorkerKeepsMedia DEF Next

(* For any instance with OpenAI's speech: whatever crashes, stalls and      *)
(* retries, a published episode is answered with the audio published with   *)
(* it, and that audio speaks its script.                                    *)
THEOREM PipelinePublishedAudioIsServed == Spec => []PublishedAudioIsServed
<1>1. Spec => []Typed
  BY InitTyped, StepTyped, PTL DEF Spec
<1>2. Spec => []MediaInv
  BY <1>1, InitMedia, StepKeepsMedia, PTL DEF Spec
<1>3. MediaInv => PublishedAudioIsServed
  BY DEF MediaInv, Served, FilesNamed, PublishedAudioIsServed, MediaAnswer, FileOf, OpenAiSpeaks
<1> QED
  BY <1>2, <1>3, PTL

=============================================================================
