-------------------------- MODULE EpisodePipeline --------------------------
(***************************************************************************)
(* How one briefing run becomes an audible episode: the processor that a   *)
(* claimed job is given to (server/jobs/generationProcessor.ts), the       *)
(* synchronization of the captured sources (services/episodePreparation),  *)
(* the evidence snapshot and the publication (services/episodeStore.ts),   *)
(* the speech providers (providers/openai.ts, piper.ts) and the media      *)
(* route.  The queue and its workers are GenerationJobs; here one job, its *)
(* lease a flag, is served by workers that may stall, stop or crash.       *)
(*                                                                         *)
(* A narration is named by the attempt that rendered it: two attempts      *)
(* never produce the same bytes, even from the same script.                *)
(***************************************************************************)
EXTENDS Integers, FiniteSets

CONSTANTS
  Worker,       \* worker processes
  NoWorker,     \* lease_owner IS NULL
  Source,       \* the sources captured by the request
  Url,          \* feed addresses a source may have
  CapturedUrl,  \* source_url_snapshot of every captured source
  NoUrl,        \* the source was deleted
  Script,       \* scripts the text provider may write
  NoScript,
  MinRows,      \* evidence rows that make the material sufficient for the mode
  MaxAttempts,  \* bound on attempt_count
  MaxEdits,     \* bound on what users and other synchronizations do to a source
  MaxFaults     \* bound on stalls, stop signals and crashes

ASSUME PipelineAssumption ==
  /\ NoWorker \notin Worker
  /\ CapturedUrl \in Url /\ NoUrl \notin Url
  /\ NoScript \notin Script
  /\ MinRows \in Nat \ {0} /\ MaxAttempts \in Nat \ {0}
  /\ MaxEdits \in Nat /\ MaxFaults \in Nat

VARIABLES
  setup,     \* what the request and the configuration fix: notes, text and speech provider
  job,       \* the generation_jobs row
  url,       \* sources: current address, NoUrl when deleted
  items,     \* source_items kept for each source
  captured,  \* generation_request_sources: outcome and network scope of the last sync
  evidence,  \* episode_evidence_snapshots of the run
  wk,        \* memory of each worker
  temps,     \* temporary files in the media directory
  files,     \* finished files in the media directory, by name
  episode,   \* what publishEpisode wrote
  disclosed, \* feed rows that OpenAI was given, as they are or in a narration
  edits, faults

vars == <<setup, job, url, items, captured, evidence, wk, temps, files, episode, disclosed,
          edits, faults>>

-----------------------------------------------------------------------------
(* Types *)

(* An item kept since before scopes were recorded has an unknown one. *)
Fetched == {"public", "private"}
Scope   == Fetched \cup {"unknown"}

NoItem == [url |-> NoUrl, scope |-> "unknown"]
Item   == [url : Url, scope : Scope] \cup {NoItem}

(* A feed row copies an item, and says of which scope it is. *)
NoteRow == [kind |-> "note", source |-> NoUrl, item |-> NoItem, scope |-> "user_supplied"]
FeedRow == [kind : {"feed"}, source : Source, item : Item, scope : Scope]
Row     == FeedRow \cup {NoteRow}

(* The bytes of an audio file: whose words they speak, and which attempt    *)
(* rendered them.                                                           *)
NoAudio == [script |-> NoScript, take |-> 0]
Audio   == [script : Script, take : 1..MaxAttempts]

Setup == [note : BOOLEAN, text : {"openai", "local"}, speech : {"openai", "piper"}]
JobRow == [state : {"queued", "running", "failed", "complete"}, owner : Worker \cup {NoWorker},
           leased : BOOLEAN, attempt : 0..MaxAttempts, retryable : BOOLEAN]
Capture == [status : {"pending", "success", "not_modified", "error"}, scope : Scope]
Episode == [script : Script \cup {NoScript}, rows : SUBSET Row, audio : Audio \cup {NoAudio}]

Working == {"claimed", "syncing", "selecting", "authorizing", "drafting", "validating", "written",
            "cleaning", "opening", "speaking", "fencing", "moving", "describing", "publishing"}

Memory == [pc : Working \cup {"idle", "down"}, attempt : 0..MaxAttempts, todo : SUBSET Source,
           rows : SUBSET Row, script : Script \cup {NoScript}, audio : Audio \cup {NoAudio}]

TypeOK ==
  /\ setup \in Setup
  /\ job \in JobRow
  /\ url \in [Source -> Url \cup {NoUrl}]
  /\ items \in [Source -> Item]
  /\ captured \in [Source -> Capture]
  /\ evidence \subseteq Row
  /\ wk \in [Worker -> Memory]
  /\ temps \subseteq Audio
  /\ files \in [Script -> Audio \cup {NoAudio}]
  /\ episode \in Episode
  /\ disclosed \subseteq FeedRow
  /\ edits \in 0..MaxEdits /\ faults \in 0..MaxFaults

NoEpisode == [script |-> NoScript, rows |-> {}, audio |-> NoAudio]
Idle == [pc |-> "idle", attempt |-> 0, todo |-> {}, rows |-> {}, script |-> NoScript, audio |-> NoAudio]
Down == [Idle EXCEPT !.pc = "down"]

(* The request was captured with the sources at their captured address;     *)
(* what earlier synchronizations left there is arbitrary.                   *)
Init ==
  /\ setup \in Setup
  /\ job = [state |-> "queued", owner |-> NoWorker, leased |-> FALSE, attempt |-> 0, retryable |-> FALSE]
  /\ url = [s \in Source |-> CapturedUrl]
  /\ items \in [Source -> {i \in Item : i.url \in {CapturedUrl, NoUrl}}]
  /\ captured = [s \in Source |-> [status |-> "pending", scope |-> items[s].scope]]
  /\ evidence = {}
  /\ wk = [w \in Worker |-> Idle]
  /\ temps = {}
  /\ files = [n \in Script |-> NoAudio]
  /\ episode = NoEpisode
  /\ disclosed = {}
  /\ edits = 0 /\ faults = 0

-----------------------------------------------------------------------------
(* The job row *)

Owned(w) == job.state = "running" /\ job.owner = w /\ job.leased

At(w, pc)   == wk[w].pc = pc
Go(w, pc)   == wk' = [wk EXCEPT ![w].pc = pc]
Leave(w)    == wk' = [wk EXCEPT ![w] = Idle]
Gone(w)     == wk' = [wk EXCEPT ![w] = Down]
TakesOf(w)  == {t \in temps : t.take = wk[w].attempt}

InputsUnchanged == UNCHANGED <<setup, url, items, captured, edits>>
MediaUnchanged  == UNCHANGED <<temps, files>>

(* claimNext, with the recovery of an expired lease in the same transaction *)
Claim(w) ==
  /\ At(w, "idle")
  /\ job.state = "queued" \/ (job.state = "running" /\ ~job.leased)
  /\ job.attempt < MaxAttempts
  /\ job' = [state |-> "running", owner |-> w, leased |-> TRUE, attempt |-> job.attempt + 1,
             retryable |-> FALSE]
  /\ wk' = [wk EXCEPT ![w] = [Idle EXCEPT !.pc = "claimed", !.attempt = job.attempt + 1]]
  /\ InputsUnchanged /\ MediaUnchanged
  /\ UNCHANGED <<evidence, episode, disclosed, faults>>

(* A failure the worker settles; its finally block removes its temporaries. *)
Fails(w, again) ==
  /\ temps' = temps \ TakesOf(w)
  /\ IF Owned(w)
     THEN /\ job' = [job EXCEPT !.state = "failed", !.owner = NoWorker, !.leased = FALSE,
                                !.retryable = again]
          /\ Leave(w)
     ELSE /\ Gone(w)                     \* the store refuses: the process ends
          /\ UNCHANGED job
  /\ UNCHANGED files

(* A phase change or renewal the store accepts, or refuses for good. *)
Fenced(w, pc) ==
  \/ Owned(w) /\ Go(w, pc) /\ UNCHANGED temps
  \/ ~Owned(w) /\ Gone(w) /\ temps' = temps \ TakesOf(w)

(* The API's retry of a retryable failure. *)
Retry ==
  /\ job.state = "failed" /\ job.retryable /\ job.attempt < MaxAttempts
  /\ job' = [job EXCEPT !.state = "queued", !.retryable = FALSE]
  /\ InputsUnchanged /\ MediaUnchanged
  /\ UNCHANGED <<evidence, wk, episode, disclosed, faults>>

-----------------------------------------------------------------------------
(* Synchronizing what the request captured *)

(* process: evidence of an earlier attempt makes synchronization needless. *)
Begin(w) ==
  /\ At(w, "claimed")
  /\ wk' = [wk EXCEPT ![w].pc = "syncing",
                      ![w].todo = IF evidence = {} THEN Source ELSE {}]
  /\ InputsUnchanged /\ MediaUnchanged
  /\ UNCHANGED <<job, evidence, episode, disclosed, faults>>

Recorded(s, status, scope) ==
  captured' = [captured EXCEPT ![s].status = status,
                               ![s].scope = IF scope = "keep" THEN @ ELSE scope]

Next1(w, s) == wk' = [wk EXCEPT ![w].todo = @ \ {s}]

(* The source is gone, has another address, or its feed cannot be read: the *)
(* error is recorded and the request goes on with what is stored.           *)
SyncFails(w, s) ==
  /\ At(w, "syncing") /\ s \in wk[w].todo
  /\ Recorded(s, "error", "keep") /\ Next1(w, s)
  /\ MediaUnchanged
  /\ UNCHANGED <<setup, job, url, items, edits, evidence, episode, disclosed, faults>>

SyncStores(w, s, scope) ==
  /\ At(w, "syncing") /\ s \in wk[w].todo
  /\ url[s] = CapturedUrl                \* expectedUrl
  /\ items' = [items EXCEPT ![s] = [url |-> CapturedUrl, scope |-> scope]]
  /\ Recorded(s, "success", scope) /\ Next1(w, s)
  /\ MediaUnchanged
  /\ UNCHANGED <<setup, job, url, edits, evidence, episode, disclosed, faults>>

(* A 304 leaves the items and their scope, and reports where it came from. *)
SyncUnmodified(w, s, scope) ==
  /\ At(w, "syncing") /\ s \in wk[w].todo
  /\ url[s] = CapturedUrl /\ items[s] # NoItem
  /\ Recorded(s, "not_modified", scope) /\ Next1(w, s)
  /\ MediaUnchanged
  /\ UNCHANGED <<setup, job, url, items, edits, evidence, episode, disclosed, faults>>

(* Another synchronization holds the source: recorded, and the attempt ends *)
(* in a failure that may be retried.                                        *)
SyncBusy(w, s) ==
  /\ At(w, "syncing") /\ s \in wk[w].todo /\ url[s] = CapturedUrl
  /\ Recorded(s, "error", "keep")
  /\ Fails(w, TRUE)
  /\ UNCHANGED <<setup, url, items, edits, evidence, episode, disclosed, faults>>

Synced(w) ==
  /\ At(w, "syncing") /\ wk[w].todo = {}
  /\ Fenced(w, "selecting")
  /\ InputsUnchanged /\ UNCHANGED <<job, files, evidence, episode, disclosed, faults>>

-----------------------------------------------------------------------------
(* Freezing the evidence *)

ItemsOfAnyUrl == {s \in Source : items[s] # NoItem}       \* mutant: joined by source only
ItemsJoined   == {s \in Source : items[s].url = CapturedUrl}

ScopeOfSource(s) == captured[s].scope                     \* mutant: the source's scope
ScopeOfItem(s)   == items[s].scope

Collected ==
  {[kind |-> "feed", source |-> s, item |-> items[s], scope |-> ScopeOfItem(s)] : s \in ItemsJoined}
    \cup (IF setup.note THEN {NoteRow} ELSE {})

SelectedAnew == Collected                                 \* mutant: collected on every attempt
Selected     == IF evidence # {} THEN evidence ELSE Collected

Sufficient(rows) == Cardinality(rows) >= MinRows

(* finalizeEvidence: not fenced by the lease, rolled back when insufficient *)
Finalize(w) ==
  /\ At(w, "selecting")
  /\ \/ /\ Sufficient(Selected)
        /\ evidence' = Selected
        /\ wk' = [wk EXCEPT ![w].pc = "authorizing", ![w].rows = Selected]
        /\ MediaUnchanged /\ UNCHANGED job
     \/ /\ ~Sufficient(Selected)
        /\ Fails(w, FALSE)
        /\ UNCHANGED evidence
  /\ InputsUnchanged /\ UNCHANGED <<episode, disclosed, faults>>

FeedRows(rows) == {r \in rows : r.kind = "feed"}
UsesOpenAi == setup.text = "openai" \/ setup.speech = "openai"
Authorized(rows) == UsesOpenAi => \A r \in FeedRows(rows) : r.scope = "public"

(* assertGenerationEvidenceAuthorized, then updatePhase('drafting') *)
Authorize(w) ==
  /\ At(w, "authorizing")
  /\ \/ Authorized(wk[w].rows) /\ Fenced(w, "drafting") /\ UNCHANGED <<job, files>>
     \/ ~Authorized(wk[w].rows) /\ Fails(w, FALSE)
  /\ InputsUnchanged /\ UNCHANGED <<evidence, episode, disclosed, faults>>

-----------------------------------------------------------------------------
(* Text *)

DisclosedTo(provider, w) ==
  IF provider = "openai" THEN disclosed \cup FeedRows(wk[w].rows) ELSE disclosed

(* The drafting request goes out; its answer comes with onDraftComplete,    *)
(* whose fence guards the step to validating.                               *)
Draft(w) ==
  /\ At(w, "drafting")
  /\ disclosed' = DisclosedTo(setup.text, w)
  /\ Fenced(w, "validating")
  /\ InputsUnchanged /\ UNCHANGED <<job, files, evidence, episode, faults>>

(* The script resolves, is supported by its evidence and has its sections. *)
Validate(w, script) ==
  /\ At(w, "validating")
  /\ wk' = [wk EXCEPT ![w].pc = "written", ![w].script = script]
  /\ InputsUnchanged /\ MediaUnchanged
  /\ UNCHANGED <<job, evidence, episode, disclosed, faults>>

TextFails(w, again) ==
  /\ wk[w].pc \in {"drafting", "validating"}
  /\ Fails(w, again)
  /\ disclosed' = DisclosedTo(setup.text, w)
  /\ InputsUnchanged /\ UNCHANGED <<evidence, episode, faults>>

(* recordEditorialLengthWarning and updatePhase('rendering_audio') *)
Written(w) ==
  /\ At(w, "written")
  /\ Fenced(w, IF setup.speech = "openai" THEN "cleaning" ELSE "opening")
  /\ InputsUnchanged /\ UNCHANGED <<job, files, evidence, episode, disclosed, faults>>

-----------------------------------------------------------------------------
(* Speech *)

(* The file name holds a fingerprint of the script. *)
FileOf(script) == script

NothingStale(w)  == {}                                    \* mutant: left-overs stay
(* Every temporary of this file name, whoever is writing it. *)
StaleTemps(w) == {t \in temps : FileOf(t.script) = FileOf(wk[w].script)}

(* OpenAiSpeechProvider.render removes them; Piper's has no such step. *)
Clean(w) ==
  /\ At(w, "cleaning")
  /\ temps' = temps \ StaleTemps(w)
  /\ Go(w, "opening")
  /\ InputsUnchanged /\ UNCHANGED <<job, files, evidence, episode, disclosed, faults>>

Destination(w) == files[FileOf(wk[w].script)]

(* A file that an earlier attempt finished is used as it is. *)
Open(w) ==
  /\ At(w, "opening")
  /\ Go(w, IF Destination(w) = NoAudio THEN "speaking" ELSE "describing")
  /\ InputsUnchanged /\ MediaUnchanged
  /\ UNCHANGED <<job, evidence, episode, disclosed, faults>>

MyTake(w) == [script |-> wk[w].script, take |-> wk[w].attempt]

(* Chunks are rendered, probed and joined into the combined temporary. *)
Speak(w) ==
  /\ At(w, "speaking")
  /\ temps' = temps \cup {MyTake(w)}
  /\ disclosed' = DisclosedTo(setup.speech, w)
  /\ Go(w, "fencing")
  /\ InputsUnchanged /\ UNCHANGED <<job, files, evidence, episode, faults>>

SpeechFails(w, again) ==
  /\ At(w, "speaking")
  /\ Fails(w, again)
  /\ disclosed' = DisclosedTo(setup.speech, w)
  /\ InputsUnchanged /\ UNCHANGED <<evidence, episode, faults>>

(* The last probe reads the temporary; then renewLease is the fence. *)
FencePublication(w) ==
  /\ At(w, "fencing")
  /\ \/ MyTake(w) \in temps /\ Fenced(w, "moving") /\ UNCHANGED <<job, files>>
     \/ MyTake(w) \notin temps /\ Fails(w, TRUE)
  /\ InputsUnchanged /\ UNCHANGED <<evidence, episode, disclosed, faults>>

(* rename replaces whatever has the name. *)
Move(w) ==
  /\ At(w, "moving")
  /\ \/ /\ MyTake(w) \in temps
        /\ temps' = temps \ {MyTake(w)}
        /\ files' = [files EXCEPT ![FileOf(wk[w].script)] = MyTake(w)]
        /\ Go(w, "describing")
        /\ UNCHANGED job
     \/ MyTake(w) \notin temps /\ Fails(w, TRUE)
  /\ InputsUnchanged /\ UNCHANGED <<evidence, episode, disclosed, faults>>

(* describeValidated hashes the file it finds under the name. *)
Describe(w) ==
  /\ At(w, "describing")
  /\ wk' = [wk EXCEPT ![w].pc = "publishing", ![w].audio = Destination(w)]
  /\ InputsUnchanged /\ MediaUnchanged
  /\ UNCHANGED <<job, evidence, episode, disclosed, faults>>

-----------------------------------------------------------------------------
(* Publication: renewLease, then complete with publishEpisode inside *)

Publish(w) ==
  /\ At(w, "publishing")
  /\ \/ /\ Owned(w)
        /\ evidence # {} /\ wk[w].rows \subseteq evidence       \* assertGeneratedEpisode
        /\ episode' = [script |-> wk[w].script, rows |-> wk[w].rows, audio |-> wk[w].audio]
        /\ job' = [job EXCEPT !.state = "complete", !.owner = NoWorker, !.leased = FALSE]
        /\ Leave(w)
     \/ /\ ~Owned(w)
        /\ Gone(w)
        /\ UNCHANGED <<episode, job>>
  /\ InputsUnchanged /\ MediaUnchanged
  /\ UNCHANGED <<evidence, disclosed, faults>>

(* openValidatedMedia: the file of the record, if it is the recorded bytes. *)
MediaAnswer ==
  LET found == files[FileOf(episode.script)]
  IN  CASE found = NoAudio       -> "not_found"
        [] found # episode.audio -> "unavailable"
        [] OTHER                 -> "audio"

-----------------------------------------------------------------------------
(* What happens around the workers *)

SourceUnchanged == UNCHANGED <<setup, job, captured, evidence, wk, temps, files, episode, disclosed, faults>>

(* updateSource with another address removes the items; deleteSource too. *)
EditSource(s, to) ==
  /\ edits < MaxEdits /\ edits' = edits + 1
  /\ url[s] # NoUrl /\ to # url[s]
  /\ url' = [url EXCEPT ![s] = to]
  /\ items' = [items EXCEPT ![s] = NoItem]
  /\ SourceUnchanged

(* A synchronization by the API or another job. *)
OtherSync(s, scope) ==
  /\ edits < MaxEdits /\ edits' = edits + 1
  /\ url[s] # NoUrl
  /\ items' = [items EXCEPT ![s] = [url |-> url[s], scope |-> scope]]
  /\ UNCHANGED url
  /\ SourceUnchanged

Fault == faults < MaxFaults /\ faults' = faults + 1

(* The owner, or its heartbeat, is late: the lease runs out while it lives. *)
Stall ==
  /\ Fault
  /\ job.state = "running" /\ job.leased
  /\ job' = [job EXCEPT !.leased = FALSE]
  /\ InputsUnchanged /\ MediaUnchanged
  /\ UNCHANGED <<evidence, wk, episode, disclosed>>

(* Where the abort signal of a stopping worker is looked at; a file it has  *)
(* just renamed is described without another look.                          *)
Interruptible(w) ==
  \/ wk[w].pc \in {"syncing", "drafting", "validating", "speaking", "fencing", "moving"}
  \/ At(w, "describing") /\ Destination(w) # MyTake(w)

Stop(w) ==
  /\ Fault
  /\ Interruptible(w)
  /\ temps' = temps \ TakesOf(w)
  /\ Gone(w)
  /\ job' = IF Owned(w) THEN [job EXCEPT !.state = "queued", !.owner = NoWorker, !.leased = FALSE]
                        ELSE job
  /\ InputsUnchanged /\ UNCHANGED <<files, evidence, episode, disclosed>>

(* The process is killed: nothing is cleaned up, its lease runs out. *)
Crash(w) ==
  /\ Fault
  /\ wk[w].pc \in Working
  /\ Gone(w)
  /\ job' = IF job.state = "running" /\ job.owner = w THEN [job EXCEPT !.leased = FALSE] ELSE job
  /\ InputsUnchanged /\ MediaUnchanged
  /\ UNCHANGED <<evidence, episode, disclosed>>

Restart(w) ==
  /\ At(w, "down")
  /\ Leave(w)
  /\ InputsUnchanged /\ MediaUnchanged
  /\ UNCHANGED <<job, evidence, episode, disclosed, faults>>

WorkerStep(w) ==
  \/ Claim(w) \/ Begin(w)
  \/ \E s \in Source : SyncFails(w, s) \/ SyncBusy(w, s)
  \/ \E s \in Source, scope \in Fetched : SyncStores(w, s, scope) \/ SyncUnmodified(w, s, scope)
  \/ Synced(w) \/ Finalize(w) \/ Authorize(w) \/ Draft(w)
  \/ \E script \in Script : Validate(w, script)
  \/ \E again \in BOOLEAN : TextFails(w, again) \/ SpeechFails(w, again)
  \/ Written(w) \/ Clean(w) \/ Open(w) \/ Speak(w) \/ FencePublication(w) \/ Move(w)
  \/ Describe(w) \/ Publish(w)
  \/ Stop(w) \/ Crash(w) \/ Restart(w)

Next ==
  \/ \E w \in Worker : WorkerStep(w)
  \/ \E s \in Source, to \in Url \cup {NoUrl} : EditSource(s, to)
  \/ \E s \in Source, scope \in Fetched : OtherSync(s, scope)
  \/ Retry \/ Stall

Spec == Init /\ [][Next]_vars

-----------------------------------------------------------------------------
(* Properties *)

(* Once a run has evidence, no attempt, retry, stale worker, edit or        *)
(* synchronization changes it: finalizeEvidence returns what it finds.      *)
EvidenceIsFrozen == [][evidence # {} => evidence' = evidence]_vars

(* A source that was given another address while the job waited or ran      *)
(* contributes nothing of the new address: the join compares                *)
(* feed_source_url with the captured one.                                   *)
EvidenceIsOfCapturedUrl == \A r \in FeedRows(evidence) : r.item.url = CapturedUrl

(* OpenAI receives no feed material that was fetched from a private         *)
(* network, whichever of the two providers it serves, and whatever scope a  *)
(* later 304 gave to the source: the items carry their own.                 *)
OpenAiSeesPublicOnly == \A r \in disclosed : r.item.scope = "public"

(* What the media route finds for a published episode is the audio that was *)
(* published with it, speaking the published script: after a crash between  *)
(* the rename and the publication, after a retry with another script, and   *)
(* when a worker that was suspended between renewLease and rename comes     *)
(* back.  Of OpenAI's provider only: Piper leaves the temporary of a lost   *)
(* attempt in place.                                                        *)
PublishedAudioIsServed ==
  (episode # NoEpisode /\ setup.speech = "openai") =>
    MediaAnswer = "audio" /\ episode.audio.script = episode.script
=============================================================================
