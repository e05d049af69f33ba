# LocalCast, a verification project

LocalCast turns RSS feeds and pasted notes into narrated episodes, and answers
follow-up questions about them. An application process and a worker process share one
SQLite database (WAL), one media directory and one key file; every guarantee between
them rests on database transactions, leases and atomic renames. This directory models
that coordination in TLA+, checks it with TLC on small instances and proves its
safety properties for every value of the constants with TLAPS. `PROJECT.json` lists components, runs,
mutants, the map from definitions to source lines, hazards, findings and theorems.

## The system

| Part | State | Operations | Hard part | Correct when |
|---|---|---|---|---|
| Generation jobs (`server/jobs/generationJobStore.ts`) | tables `generation_jobs`, `generation_job_attempts`, retry requests, `briefing_runs` | enqueue, claim, renew, phase, complete, fail, interrupt, retry, recover | overlapping workers, stalls, crashes, retries at any time | one job runs, FIFO, history agrees, only the owner of the lease publishes |
| Worker processes (`generationWorker.ts`, `chatWorker.ts`, `applicationWorker.ts`, `workerProcess.ts`) | current job or turn, abort flag, stopping flag | start, poll, heartbeat, catch block, stop, forced exit | decisions on rows read earlier, shutdown with a lost lease | work is released or recovered, nothing is settled by a former owner |
| Generation pipeline (`generationProcessor.ts`, `episodePreparation.ts`, `episodeStore.ts`, `providers/*`, `routes/media.ts`) | captured sources, evidence snapshots, temporary and finished audio files, the episode | synchronize, freeze, authorize, draft, validate, render, rename, publish, serve | sources change meanwhile, rename outside the transaction, reuse after a crash | evidence is of the captured address and frozen, private material stays from OpenAI, the published audio is served |
| Rules of an episode (`episodes/*`, script splitting, `Range` headers) | none | length policy, evidence catalog, reference resolution, chunks, byte ranges | boundaries | every input gets a result that the next step accepts |
| Follow-up chat (`services/chatStore.ts`, `jobs/chatProcessor.ts`) | `chat_turns`, attempts, provider calls, claims, retry requests | ask, claim, reserve, enter, send, record, publish, refuse, fail, retry, recover | external requests outlive workers and leases | no overlap, validated publication, retry only when it is safe |
| Chat schema (`database/migrations.ts`, migration 008) | triggers, partial unique indexes | abort a write | restates the lifecycle in SQL | never aborts a write the store makes |
| Chat panel (`src/features/briefings/EpisodeChat.tsx`) | shown history, action, messages per tab; one record in local storage | read, submit, retry, reconcile, storage events | answers in any order, several tabs, lost answers | the history never goes back, an undecided action stays blocked |
| Source synchronization (`sourceStore.ts`, `rssIngestion.ts`) | `sources`, `source_items`, sync lease | acquire, fetch, commit, fail, release, edit, delete | lease not renewed, URL edits during a fetch, stale ETag | items belong to the URL, stale syncs write nothing, backoff kept |
| Feed fetcher (`safeFeedFetcher.ts`) | slots, waiting calls, hops | fetch, resolve, redirect, answer, time out, abort | hand-over of slots, names resolved anew at every hop, validators after redirects | no slot is lost, reports are true |
| Storage, backup, restore (`storage.ts`, `database/connection.ts`, `operations/backupRestore.ts`) | markers, database identity, staged directories, artifact | initialize, verify, open, back up, restore | concurrent writers, kills between two renames or markers, swapped volumes | what runs has its media, an artifact is current or absent |
| Provider status, credentials (`providerCheckStore.ts`, `openAiCredentialService.ts`) | `provider_checks`, key file | replace key, test, record, refresh | verdicts of a replaced key | status belongs to the current configuration |
| Stations, notes, podcast feed, settings, search, health, other views | rows and files | single-transaction reads and writes | little | not modelled, see below |

Interactions: HTTP handlers call the stores directly (one transaction each). The
worker loop alternates between the chat and the generation queue; while a job is
processed a timer renews its lease, and a failed renewal aborts the work. Providers
are called over HTTP between transactions. Backup and restore are commands of their own.

## Modules

| Module | Content |
|---|---|
| `JobQueue` | abstract queue: waiting, active, delivered and refused requests in order of arrival |
| `GenerationJobs` | job store and worker processes, transaction by transaction; `Queue == INSTANCE JobQueue` is the refinement mapping |
| `JobsBackup` | what backup validation demands of the job tables |
| `EpisodePipeline` | one request through the processor: captured sources, evidence, authorization, text, speech, files, publication, media route |
| `EpisodeRules` | the pure rules, as operators over bounded inputs |
| `ChatTurns` | chat store, chat worker, chat half of the OpenAI adapter, and the external provider |
| `ChatSchema` | triggers and indexes of migration 008 as an action property over `ChatTurns` |
| `ChatBackup` | what backup validation demands of the chat tables |
| `ChatView` | the chat panel in several tabs against the chat API and an unreliable network |
| `SourceSync` | one RSS source: syncs of the API and of workers, edits, deletion, the feed server |
| `FeedFetcher` | the fetches of one process: slots, queue, hops |
| `Storage` | volumes, markers, database identity; initialization, start, backup, restore |
| `ProviderChecks` | the key file, the rows of `provider_checks`, what is shown of them |
| `*_proofs` | theorems with their proofs: `GenerationJobs_proofs` (with the refinement of `JobQueue`), `ChatTurns_proofs`, `SourceSync_proofs` (with `FeedFetcher`), `EpisodePipeline_proofs`, `EpisodeRules_proofs`, `Storage_proofs`, `ProviderChecks_proofs`, `ChatView_proofs` |
| `MC*` | symmetry sets and compositions for TLC |

`MCEpisodePipeline` puts the pipeline and the rules it uses side by side: a behaviour
either runs the pipeline or shows one input of a rule. `MCSourceSync` does the same with
the syncs of a source, where a fetch is a single step with an arbitrary outcome, and the
fetches of one process, step by step; `MCInstallation` with the volumes (`Storage`) and the
key of an installation (`ProviderChecks`). The parts of such a pair meet only through what
one of them is told by the other, or not at all, so no interleaving is lost.

### How the models read

* A store method is one `BEGIN IMMEDIATE` transaction, hence one action. Code between
  two awaits of a worker is sequential, but other processes run between its
  transactions, so each transaction of `runOnce` and of the processors is an action of
  its own, and what the worker remembers in between is a record (`worker[w]`, `wk[w]`).
* In the queue models a lease is the number of ticks it has left. `Tick` lowers every
  running lease; a lease whose owner is alive runs out only in a stall (a suspended process
  or a blocked event loop), which counts as a fault. `Owned` and `StillOwned` are the two
  ownership tests of the code; they differ in looking at the expiry.
* A worker name contains a fresh UUID, so `Worker` of the queue models is a set of process
  incarnations, each started at most once (`MayStart`).
* `Damage` makes a queued row unreadable (the case `tests/integration/generation-jobs.test.ts`
  builds); `claimNext` fails such rows in its transaction.
* `EpisodePipeline` keeps one job and reduces its lease to a flag, since the queue itself is
  `GenerationJobs`; a worker that comes back is `Restart`. A narration is named by the attempt
  that rendered it: two attempts never produce the same bytes, so serving the wrong file is
  visible. `disclosed` collects the feed rows OpenAI was sent, as material of a draft or in a
  narration. A feed item carries the network scope of the fetch that stored it, and evidence
  copies it; the captured source has a scope of its own, which a later 304 changes.
* `EpisodeRules` gives text as a sequence of units of four classes (a letter, a blank, the two
  halves of a surrogate pair); limits that only scale a rule (600 units an excerpt, 4096 a
  speech request) are small constants. The product by 0.7 is modelled with its rounding: a
  whole number may come out as one less. A body may have any runs of blanks: feed items have
  theirs collapsed (`rssIngestion.ts:87`), notes are only trimmed (`validation.ts:44`). The times
  of a request and of a file are numbers of milliseconds; `Last-Modified` and the comparisons of
  `media.ts:155` are in whole seconds. A Range of numbers beyond the safe integers, of several
  parts or of another unit is refused, like one that names nothing.
* In `ChatTurns`, `working` is the set of requests the external provider is executing. It
  belongs to no process: a crash, a timeout or an abort leaves a request in it, and only
  `ProviderEnds` removes it. `ProviderEnds` and `Withdraw` (an operator changes an
  episode's status, as `tests/integration/chat-workflow.test.ts` does) are external.
* A provider call row goes `none`, `reserved`, `response_received`, then a final outcome, or
  `ambiguous`. The outcomes that all reject the stage are one value, `rejected`. A worker's
  `pc` says which grant it holds, so `enterReservedChatProviderStage` consuming a grant is
  `EnterStage`.
* In `ChatView` a handler runs from an event or an await to the next one in one step, its
  read, check and write of local storage included: D-035 calls the coordination between
  browsers advisory, and the server decides. A read is answered when it starts and delivered
  at any later time; the counter `latestHistoryCheckId` is the one field `read` of a tab. A
  message of a certain rejection changes wording only and is left out. A request may also fail
  at the browser while the server still receives and accepts it (`ErrorArrives`). The first active turn
  that the code takes is the only one a history can have.
* In `SourceSync` a feed document is its ETag (a number), and `items` is the document whose
  entries were stored last; entries are upserted by identity, so which document supplied them
  is what a stale write would change. `ReadSource` and `ReadForUpdate` are the two reads that
  precede their transaction; the API process has one thread, so `ApiBusy` lets only worker
  processes run between such a read and its write. `since` is history: the URL changes before
  the lease.
* In `FeedFetcher` a page is a URL on a host of its own, a document is its page and its ETag
  (two servers may use the same one), and servers answer 304 only to the ETag they would send.
  What a name resolves to and where a page redirects may differ at every hop.
* In `Storage` a marker is ours, another installation's or missing; `version` is SQLite's
  `data_version`. The operator runs one command at a time. A database without identity that
  `storage-init` adopts is assumed to have published nothing (`StorageInit`).
* In `ProviderChecks` a fingerprint is what it is a digest of. `verified` and `accepted` are
  history. The application is one process, so `ReplaceWritesFile` and `ReplaceRecords` have no
  other handler of the application between them, only the worker.
* Left out because no property tells them apart: texts, event and diagnostic rows, usage
  figures, error codes, idempotent replays (a replay changes nothing). A chat turn has one
  retry (unique key on `turn_id`), so its keys are left out too.

## Runs

| Run | Instance | Shows |
|---|---|---|
| `jobs_queue` | 2 jobs, 2 workers, 1 retry key, lease 1, 1 fault | `SingleRunning`, `HistoryMatchesJob`, `OwnerHoldsCurrentAttempt`, `PublishedByCompleteAttempt`, `QuietJobsAreBackedUp`, `HistoryIsFinal`, `LeaseProtectsAttempt`, and `ImplementsQueue`: FIFO, delivery by the try in hand, no unasked repeat |
| `jobs_liveness` | 1 job, 2 workers, 2 retry keys, lease 2, 1 fault, fairness | `EveryJobSettles`, `RetryNamesAnAttempt` |
| `chat_turns` | 2 questions, 1 episode, 2 workers, lease 1, 1 fault, withdrawal | `OneRequestPerEpisode`, `PublicationIsValidated`, `HistoryMatchesTurn`, `RetryIsSafe`, `SchemaAcceptsEveryWrite`, `TypeOK` |
| `chat_liveness` | 1 question, 2 workers, 1 fault, withdrawal, fairness | `EveryTurnSettles` |
| `chat_backup` | violation | finding 1 |
| `source_sync` | 1 source, 2 URLs, 1 API sync, 2 worker syncs, 2 documents, 2 URL changes, 1 fault; 3 fetches, 1 slot, 1 waiting place, 2 pages, 1 redirect | `HealthAgrees`, `FetchesDoNotOverlap`, `ItemsNeverGoBack`, `EditsFenceFetches`; `SlotsAreAccounted`, `ReportsAreTrue` |
| `source_edit` | violation | finding 2 |
| `pipeline` | 1 source, 2 addresses, 2 workers, 2 scripts, 2 attempts, 2 edits, 1 fault, every provider setting; every bounded input of a rule | `EvidenceIsFrozen`, `EvidenceIsOfCapturedUrl`, `OpenAiSeesPublicOnly`, `PublishedAudioIsServed`; `LengthContractIsSatisfiable`, `CatalogIsCitable`, `ReferencesResolve`, `ChunksSpeakTheScript`, `RangesLieInTheFile` |
| `evidence_catalog` | violation | finding 4 |
| `installation` | volumes: 2 episodes, 5 commits, 3 kills, failed writes or lost volumes; key: 2 keys, 2 models, 2 replacements, 1 job, 1 test, 1 deployment, 1 fault | `RunningHasItsMedia`, `HalfInstalledOnlyByDamage`, `BackupIsCurrent`; `LiveMeansVerified`, `EvidenceSurvives` |
| `provider_race` | violation | finding 3 |
| `chat_view` | 2 tabs, 2 keys, 2 mounts, 1 fault | `HistoryNeverGoesBack`, `UncertaintyIsKept`, `TypeOK` |

Bounds. Two workers are the overlap the code meets: a stalled process and its replacement
(a lease is held by one; every further worker only repeats the claimant's role). One fault
gives every single crash, stop or stall at every point. A lease of one tick already
separates "renewed in time" from "expired"; two ticks (`jobs_liveness`) let a renewal arrive
between. Two jobs give order, overtaking and the occupied slot; two keys let a second retry
meet every state the first one led to. Chat allows two attempts per turn in the code itself,
so its retry behaviour is complete at that bound; two questions give the competition for an
episode's lock. Sources do not interact, so one is enough; two changes of the URL are the
smallest number that brings an address back under a running fetch, and three syncs let one
stall while a second finishes and a third holds the lease. Three fetches with one slot give
one that runs, one that waits and one that is refused. In the pipeline a second attempt
writes the same or another script beside the temporaries of the first. The bodies tried are of
up to nine units where an excerpt has three to six, so there are two cuts, pairs and blanks at
each, and runs of blanks shorter and longer than the allowed one; the dates tried lie on both sides of a
second, the files have up to four bytes and the ranges reach beyond them. Three faults let a
restore be killed, a volume be replaced and a command fail in one history; five commits give
an episode, and writes before, during and after a backup. Two replacements bring back an
older key. `chat_view` has a question, a retry of it and a competing question from another
device. Deadlock is not checked: when every worker has stopped, or every bound is used up,
the system is at rest.

Fairness (the two liveness runs). Compose restarts the worker (`restart: unless-stopped`), so
some unstarted incarnation starts; the loop polls without end; the catch block is synchronous;
the heartbeat is a timer; provider calls end by an answer or by the code's own time limit; time
passes. Users, faults, the provider and withdrawals promise nothing. The bounds of `MaxFaults`
mean: after finitely many faults the system recovers.

Every property has a mutant in `PROJECT.json`: an operator next to the original (marked
`mutant` in the modules) with a plausible slip of the code, under which TLC finds the
property violated in the same run.

## Findings

1. `backupRestore.ts:313` and `:373` refuse a database whose chat history contains a call that
   is not finalized, or a failed question whose last attempt was interrupted or recovered. The
   chat store keeps both for ever on purpose (D-035), so one timed-out question makes every
   later backup of a quiescent installation fail. For generation jobs the corresponding
   property holds (`QuietJobsAreBackedUp`), with the exception of unreadable jobs, which fail
   without a failed attempt.
2. `sourceStore.ts:216` reads the row before the transaction that writes all its columns back.
   A rename (or switching a source on or off) that overlaps the commit of a worker's sync
   restores the validator, outcome, failure count and backoff of before. What still holds is
   proved: the row stays consistent in itself (`HealthAgrees`), and no item is lost or
   replaced by an older one. The same property fails on a second, rarer path once URLs change:
   the validators a sync sends are read before its lease (`rssIngestion.ts:168`), so an
   address changed away and back in between, whose items were deleted, gets its old ETag
   again from a 304 answer and stays empty until the feed publishes.
3. `openAiCredentialService.ts:107` and `generationProcessor.ts:17` record the verdict of a
   request with the configuration it began with, over whatever row is there. A job or test
   that began with the old key hides the row of a replaced one, and generation requests are
   refused until an operator tests the key or the worker restarts. The verdict is never shown
   as the new key's: `LiveMeansVerified` is proved.
4. `evidenceCatalog.ts:107` replaces a piece of a body that is too short to cite by the last 600
   units of the body, and `:108` refuses the body if these, trimmed, are too short as well.
   DECISIONS.md:470 promises that a longer body is split within the bounds of a citation. It is
   not when a note has 595 blanks or line ends in a row: after ten letters and 700 blanks the
   piece `xy` cannot be cited, and every episode with that note as evidence fails for good; of
   `abcd`, 700 blanks and `efghij` only the end can be cited, twice. `LongBodiesAreSplit` is the
   promise; `CatalogIsCitable` says that without such a run it is kept and no text is left out,
   and that what a catalog contains is always valid.

Observations, which no run states as a violation:

* `generationWorker.ts:56` tests ownership without the expiry, `interrupt()` with it. After a
  stall of a whole lease a stopping worker fails in its own catch block, exits with code 1 and
  leaves the job running in its name until the lease is recovered, where the repository's
  README.md:131 says that shutdown interrupts and releases owned work. `EveryJobSettles` still
  holds. The chat worker tests the expiry.
* `piper.ts:251` has no clean-up of the temporaries of lost attempts as `openai.ts:952` has, so
  `PublishedAudioIsServed` is stated for OpenAI speech: with Piper a worker suspended between
  its fence and its rename can still replace the file of a published episode, which the media
  route then answers as unavailable. OpenAI's clean-up covers temporaries of the same file
  name only; those of a crashed attempt with another script stay in the media directory.
* `validation.ts` accepts a narration of 32,000 characters, `openai.ts:876` refuses one of more
  than 8 requests of 4096; long segments can need a ninth. `ChunksSpeakTheScript` states when
  the refusal cannot happen.
* `validation.ts:44` accepts a note of one unit, `evidenceCatalog.ts:87` none of fewer than five;
  a catalog with such a note is refused. The bodies tried are those that may be cited.
* A `storage-init` killed after its first marker refuses for good (`SafeToInitialize`), and a
  restore killed between its renames leaves a half installation that nothing starts; DECISIONS.md
  acknowledges the second. `HalfInstalledOnlyByDamage` says nothing else leads there.
* In `safeFeedFetcher.ts` an abort while the name is resolved becomes `FEED_DNS_FAILED`; the
  catch of `rssIngestion.ts` looks at the signal first, so no failure is recorded.

## Proofs

All theorems hold for every value of the constants, from the `...Assumption` of the module.
`tlapm` checks them to the last leaf.

`GenerationJobs_proofs`: `TypeCorrect`, `AtMostOneRuns`, `HistoryIsConsistent`,
`OwnersAreCurrent`, `RunsAreConsistent`, `PublicationIsFenced`. None of these invariants is
inductive alone. That a publication belongs to the complete attempt needs that the owner
processes the current attempt; that needs that worker names are never reused and that a
worker which is not processing owns nothing; the history needs the types. The inductive
invariant has two halves: `Consistent(r, h, b, e)`, a relation between the four rows of one
request (job, history, run, episode), and what a worker's memory says of the job it holds.
Each row update of the store is shown once to preserve `Consistent`; the steps of `Next` then
only say which update happens to which request. The queue slot (`SingleRunning`) is proved
over the recovered rows, as the code tests it.

Its second part: `StoreImplementsQueue` (the refinement of `JobQueue`), the action
properties `HistoryStaysFinal` and `LeaseIsRespected`, `RetryKeysNameAttempts` and
`QuietStoreIsBackedUp`. The queue sees four columns of a row and the published attempt; each
kind of queue step is stated in these columns first, then every action is shown to be one of
them or to leave the columns alone. `LineInOrder` is what that needs beyond the invariant
above: only a failed row can be retried, and row numbers are handed out in order. The other
four follow from what a step does to a single request (`Settled`, `Promised`) and, for the
backup, from `Consistent` alone.

`ChatTurns_proofs`: `ChatTypes`, `ChatHistoryMatchesTurn`, `ChatPublicationIsValidated`,
`ChatRetryIsSafe`, `ChatOneRequestPerEpisode`, `ChatSchemaAcceptsEveryWrite`. Its `Consistent`
relates the rows of one turn in the five chat tables. Every action changes a turn by one of
a few transitions of these rows, or not at all; each transition keeps `Consistent` and obeys
the triggers of migration 008. `IInv` adds that episode locks are disjoint and one turn runs,
that the attempt a worker remembers is the current one while it owns the turn
(`RemembersAttempt`), and that the call of a request the provider still executes is reserved or
ambiguous (`RequestsUnanswered`). The last is what makes the episode lock outlive the
workers: such a call can neither be retried nor be forgotten.

`SourceSync_proofs`: `SourceTypes`, `SourceItemsBelongToUrl`, `SourceHealthAgrees` the two
action properties `SourceItemsNeverGoBack` and `SourceEditsFenceFetches`, and
`SourceFetchesDoNotOverlap`. The strengthening
(`SyncIsSound`) says what a sync that still owns the lease may rely on: no URL change since it
took the lease, because a change takes the lease away, and a fetched document not older than
the stored one, because only the owner stores. The health an open edit will write back is sound
too, so the lost update of finding 2 cannot make the row contradict itself. `OneFetch` says that,
before any fault, a fetch of the current address still has its lease.

Its second part is about the fetches of one process: `FetcherSlots`, `FetcherReports`. The
count `active` is the cardinality of the running calls, so a slot that `releaseFetchSlot`
passes on must move from one running call to another in the same step. The queue holds each
waiting call once, which makes the `splice` of a call that gives up remove that call and no
other (`SplicedQueue`), and calls wait only while every slot is taken. A call that sends is
connected to an address its policy allows (`Connected`), which with the exact validators of
the hop gives what a report may say.

`EpisodePipeline_proofs`: `PipelineTypes`, `PipelineEvidenceIsFrozen`,
`PipelineEvidenceIsOfCapturedUrl`, `PipelineOpenAiSeesPublicOnly`. `Typed` adds to the types
what a worker holds in each phase. The snapshot theorems follow from one fact about all steps
(`EvidenceChanges`): evidence stays or becomes what was selected. What is disclosed needs more:
every row, in the snapshot or in a worker's memory, carries the scope of the item it copies,
and a worker past the authorization holds only rows its providers may see (`Disclosure`).

Its second part: `PipelinePublishedAudioIsServed`. The danger is a worker of a lost attempt
with a rename still to do. `Prepared` says why it cannot matter: the worker that holds the
lease removed every temporary of its file name before it went on, attempts have different
numbers (`Distinct`), and nobody without the lease passes the fence before a rename any more;
`Served` carries this over to the time after the publication. Most steps are shown to be
`Quiet` in one lemma.

`Storage_proofs`: `StorageTypes`, `StorageRunningHasItsMedia`,
`StorageHalfInstalledOnlyByDamage`, `StorageBackupIsCurrent`. `Sound` relates volumes of one
installation and the artifact: whoever has both of our markers has the audio of what is
published. `InHand` says what the volumes look like while a command is between two of its
steps, `Copying` that a copy taken at a version equals the database as long as the version is
the same.

`ProviderChecks_proofs`: `ProviderTypes`, `ProviderLiveMeansVerified`, `ProviderEvidenceSurvives`.
`Verdicts` says that a row which claims a live request was written after one with exactly that
fingerprint; `Projected` that, without a key file, a row of the configured model the
application shows is the worker's own.

`EpisodeRules_proofs`: `RangesOfAnyFile`, `LengthOfAnyEvidence`, `CatalogOfAnyBody`,
`ReferencesOfAnyEvidence`, `ChunksOfAnyScript`; `RulesOfAnyInput` puts them together for the
inputs of the run. The runs try short bodies, small catalogs and tiny limits; the theorems are
about bodies, scripts and evidence of any length (`AnyBody`, `AnyRequest`, `AnyReferences` contain
what the run tries) and any limits that satisfy `RulesAssumption`, the real ones (600, 4096, 8)
included. `RangesOfAnyFile` compares the bytes of an answer with those the header names
(`Named`), as sets, and the two forms of a date condition, whole seconds on both sides and
`Last-Modified` on one (`DatesCompare`). Three of the rules are recursive. The
induction is over numbers and needs no rule with an operator parameter: a set of numbers has a
least element (`LeastElement`, from the finiteness of an interval), so the set of positions
where a claim fails is empty. A recursive function and the folds behind `FoldLeft` and
`FlattenSeq` are defined by a choice of a function that satisfies an equation; that there is
one (`SumExists`, `ChunksExist`, `JoinExists`) comes first, then its turns are unfolded. For
`bodyRanges` the claim carried along (`Offers`) is that the excerpts from a start on split no
pair and, without a long run of blanks (`Spaced`), have a length that may be cited and cover all
text from there. The excerpt that ends where the text ends loses half a pair and a run of
blanks at its start; `RunIsShort` bounds the run, so what is left has `MinExcerpt` units, and a
piece that is too short can only be the last one.
For the speech requests (`Packed`, `Fills`) it is that the chunks so far and the open one
concatenate to the segments so far, and that every closed chunk is too full for the next
segment, which bounds their number.

`ChatView_proofs`: `ViewTypes`, `ViewHistory`, `ViewUncertainty`. The panel's functions call
each other (an effect installs a record and reconciles, which applies, rejects or adopts), so
each has a lemma about what it leaves (`Follows`: shown history untouched, a read kept or
ended, remembered actions honest) and when it lets go of the shared record (`Kept`).
`ViewInv` relates three copies of the history: what a tab shows is older than what it reads,
which is older than the server's (`Older`, also in the retry of a turn). That is why a read
delivered late never takes a turn back: the counter of the code discards every read that was
not started last, and what is merged from an answer (`MergedHistory`) is merged into both. The
other half says that a record, in storage or in a tab's memory, was requested under its key for
its turn. So a turn of any history, however old, has the record that was requested for it, and
an active turn that does not prove a tab's action is another action's turn; the record is let
go of only then, on the turn that proves it, or on the server's certain rejection.

Only model-checked: liveness under fairness (`EveryJobSettles`, `EveryTurnSettles`), which is
out of the prover's reach. Every safety invariant and action property of a passing run is a
theorem. What the findings state as violated has no theorem.

## Not modelled

Stations, notes, the podcast feed, settings, search and the views other than the chat panel
are reads or single-transaction writes without protocol. Request validation, health and
diagnostics, debug traces, configuration parsing and the runner of migrations are linear code
without shared state; what the configuration means for provider rows is in `ProviderChecks`, the
identity check of a connection in `Storage`. Provider wire formats, audio probing and
transcoding appear through their outcomes. Feed parsing appears as the document it yields. The
alternation of the two queues in one process is not modelled: each queue is modelled with
workers that may pause at any point, which includes serving the other queue. A clock that is
set back, SQLITE_BUSY and edits of running rows from outside are listed as hazards with a note.

## Plan

1. Several captured sources of one request synchronized at once; the alternation of the two
   queues in one process.
