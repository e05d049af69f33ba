----------------------------- MODULE SourceSync -----------------------------
(***************************************************************************)
(* Synchronization of one RSS source: server/services/sourceStore.ts and   *)
(* the syncs of services/rssIngestion.ts that the API process and worker   *)
(* processes run, with the edits and deletions that arrive meanwhile.      *)
(*                                                                         *)
(* Each statement or transaction of the store is one action.  Two reads    *)
(* precede the transaction that uses them: the source row a sync starts    *)
(* from (URL and validators) and the row updateSource writes back.  The    *)
(* API process has one thread, so between such a read and its write only   *)
(* worker processes run (ApiBusy).                                         *)
(***************************************************************************)
EXTENDS Integers

CONSTANTS
  Url,         \* feed addresses
  ApiSync,     \* syncs started through the API
  WorkerSync,  \* syncs of worker processes, each in a process of its own
  NoSync,      \* sync_lease_owner IS NULL
  LeaseTicks,  \* syncLeaseMs, in ticks of the clock
  MaxVersion,  \* bound on the documents a feed publishes
  MaxEdits,    \* bound on changes of the URL
  MaxFaults    \* bound on crashes and stalls longer than a lease

Sync == ApiSync \cup WorkerSync

ASSUME SourceAssumption ==
  /\ LeaseTicks \in Nat \ {0}
  /\ MaxVersion \in Nat \ {0} /\ MaxEdits \in Nat /\ MaxFaults \in Nat
  /\ ApiSync \cap WorkerSync = {}
  /\ NoSync \notin Sync

VARIABLES
  source,   \* row of the source in table sources
  items,    \* document whose entries were last stored for it in source_items
  feed,     \* document each address serves
  sync,     \* memory of each sync
  edit,     \* the updateSource call in progress
  edits,    \* changes of the URL so far
  faults    \* faults used up, see MaxFaults

vars == <<source, items, feed, sync, edit, edits, faults>>

-----------------------------------------------------------------------------
(* Types.  A document is named by its ETag; 0 is no validator, no document. *)

Version == 0..MaxVersion
Backoff == 0..3                \* next_sync_after: none, 15 minutes, 1 hour, 6 hours

Health == [
  etag     : Version,                            \* feed_etag, for feed_validator_url = url
  last     : {"none", "success", "error"},       \* last_sync_status
  failures : Nat,                                \* consecutive_sync_failures
  backoff  : Backoff,
  status   : {"healthy", "error", "syncing"}]

Source == [present : BOOLEAN, url : Url, health : Health,
           owner : Sync \cup {NoSync}, ttl : 0..LeaseTicks]

Items == [url : Url, version : Version]

SyncState == [
  pc     : {"ready", "read", "fetching", "answered", "failing", "done"},
  url    : Url,                \* canonicalUrl
  etag   : Version,            \* source.feedEtag of the row read first
  answer : Version,            \* fetched document, 0 for 304 Not Modified
  count  : Nat,                \* consecutiveSyncFailures read by the catch block
  since  : 0..MaxEdits]        \* history: URL changes before the lease

Edit == [open : BOOLEAN, url : Url, health : Health]

TypeOK ==
  /\ source \in Source
  /\ items \in Items
  /\ feed \in [Url -> Version]
  /\ sync \in [Sync -> SyncState]
  /\ edit \in Edit
  /\ edits \in 0..MaxEdits
  /\ faults \in 0..MaxFaults

NeverSynced == [etag |-> 0, last |-> "none", failures |-> 0, backoff |-> 0, status |-> "healthy"]

(* The source has just been added. *)
Init ==
  \E u \in Url :
    /\ source = [present |-> TRUE, url |-> u, health |-> NeverSynced, owner |-> NoSync, ttl |-> 0]
    /\ items = [url |-> u, version |-> 0]
    /\ feed = [v \in Url |-> 1]
    /\ sync = [s \in Sync |-> [pc |-> "ready", url |-> u, etag |-> 0, answer |-> 0,
                               count |-> 0, since |-> 0]]
    /\ edit = [open |-> FALSE, url |-> u, health |-> NeverSynced]
    /\ edits = 0
    /\ faults = 0

-----------------------------------------------------------------------------
(* What the statements read and write *)

(* A "syncing" row whose lease ended shows its last outcome (sourceFromRow). *)
ShownAsHealthy == IF source.health.status = "syncing" /\ source.ttl = 0     \* mutant
                  THEN "healthy" ELSE source.health.status
Shown ==
  IF source.health.status = "syncing" /\ source.ttl = 0
  THEN IF source.health.last = "error" THEN "error" ELSE "healthy"
  ELSE source.health.status

BackoffFor(count) == IF count <= 1 THEN 1 ELSE IF count = 2 THEN 2 ELSE 3

FencedByUrl(s) == source.present /\ source.url = sync[s].url /\ source.ttl > 0   \* mutant
Fenced(s) == FencedByUrl(s) /\ source.owner = s

Succeeded(etag) == [etag |-> etag, last |-> "success", failures |-> 0, backoff |-> 0,
                    status |-> "healthy"]

Unleased(health) == [source EXCEPT !.health = health, !.owner = NoSync, !.ttl = 0]

Ended(gone) ==
  [s \in Sync |-> IF s \in gone THEN [pc |-> "done", url |-> sync[s].url, etag |-> 0,
                                       answer |-> 0, count |-> 0, since |-> 0]
                  ELSE sync[s]]
Done(s) == Ended({s})

LeaseIgnored == source.present                                              \* mutant
LeaseIsFree  == source.present /\ source.ttl = 0

ApiBusy == edit.open \/ \E s \in ApiSync : sync[s].pc \in {"read", "failing"}
MayRun(s) == s \in ApiSync => ~ApiBusy

-----------------------------------------------------------------------------
(* One sync.  A sync that is not forced returns before the lease while the  *)
(* backoff lasts, one for another URL than expected too: nothing changes.   *)

ReadSource(s) ==
  /\ sync[s].pc = "ready" /\ MayRun(s) /\ source.present
  /\ sync' = [sync EXCEPT ![s].pc = "read", ![s].url = source.url,
                          ![s].etag = source.health.etag]
  /\ UNCHANGED <<source, items, feed, edit, edits, faults>>

AcquireSyncLease(s) ==
  /\ sync[s].pc = "read"
  /\ IF LeaseIsFree
     THEN /\ source' = [source EXCEPT !.owner = s, !.ttl = LeaseTicks,
                                      !.health.status = "syncing"]
          /\ sync' = [sync EXCEPT ![s].pc = "fetching", ![s].since = edits]
     ELSE /\ sync' = Done(s)                                   \* busy or missing
          /\ UNCHANGED source
  /\ UNCHANGED <<items, feed, edit, edits, faults>>

(* The server compares the validator with the document it serves. *)
ServerAnswers(s) ==
  /\ sync[s].pc = "fetching" /\ MayRun(s)
  /\ LET now == feed[sync[s].url]
     IN  sync' = [sync EXCEPT ![s].pc = "answered",
                              ![s].answer = IF sync[s].etag = now THEN 0 ELSE now]
  /\ UNCHANGED <<source, items, feed, edit, edits, faults>>


CompleteSync(s) ==
  /\ sync[s].pc = "answered" /\ MayRun(s) /\ sync[s].answer = 0 /\ Fenced(s)
  /\ source' = Unleased(Succeeded(sync[s].etag))
  /\ sync' = Done(s)
  /\ UNCHANGED <<items, feed, edit, edits, faults>>

CommitFetchedSync(s) ==
  /\ sync[s].pc = "answered" /\ MayRun(s) /\ sync[s].answer # 0 /\ Fenced(s)
  /\ items' = [url |-> sync[s].url, version |-> sync[s].answer]
  /\ source' = Unleased(Succeeded(sync[s].answer))
  /\ sync' = Done(s)
  /\ UNCHANGED <<feed, edit, edits, faults>>

(* The fetch fails, the document is malformed, or the fence refuses it; the *)
(* catch block then reads the failures counted so far.                      *)
SyncThrows(s) ==
  /\ \/ sync[s].pc = "fetching"
     \/ sync[s].pc = "answered" /\ (sync[s].answer # 0 \/ ~Fenced(s))
  /\ MayRun(s)
  /\ sync' = [sync EXCEPT ![s].pc = "failing",
                          ![s].count = IF source.present THEN source.health.failures ELSE 0]
  /\ UNCHANGED <<source, items, feed, edit, edits, faults>>

RecordSyncFailure(s) ==
  /\ sync[s].pc = "failing"
  /\ source' = IF Fenced(s)
               THEN Unleased([source.health EXCEPT !.status = "error", !.last = "error",
                                                   !.failures = @ + 1,
                                                   !.backoff = BackoffFor(sync[s].count + 1)])
               ELSE source
  /\ sync' = Done(s)
  /\ UNCHANGED <<items, feed, edit, edits, faults>>

(* Only the worker passes an abort signal. *)
ReleaseSyncLease(s) ==
  /\ s \in WorkerSync /\ sync[s].pc = "fetching"
  /\ source' = IF source.present /\ source.owner = s
               THEN Unleased([source.health EXCEPT !.status =
                                IF source.health.last = "error" THEN "error" ELSE "healthy"])
               ELSE source
  /\ sync' = Done(s)
  /\ UNCHANGED <<items, feed, edit, edits, faults>>

-----------------------------------------------------------------------------
(* Edits *)

(* updateSource reads the row before its transaction ... *)
ReadForUpdate(u) ==
  /\ source.present /\ ~ApiBusy
  /\ u # source.url => edits < MaxEdits
  /\ edit' = [open |-> TRUE, url |-> u, health |-> [source.health EXCEPT !.status = Shown]]
  /\ UNCHANGED <<source, items, feed, sync, edits, faults>>

LeaseKept == [source EXCEPT !.url = edit.url, !.health = NeverSynced]            \* mutant
ReplacedUrl == [Unleased(NeverSynced) EXCEPT !.url = edit.url]

ItemsOfNewUrl == [url |-> edit.url, version |-> 0]

(* ... and writes every column back; a new URL deletes the items, resets    *)
(* the health and takes the lease away.                                     *)
UpdateSource ==
  /\ edit.open
  /\ IF edit.url # source.url
     THEN /\ source' = ReplacedUrl
          /\ items' = ItemsOfNewUrl
          /\ edits' = edits + 1
     ELSE /\ source' = [source EXCEPT !.health = edit.health]
          /\ UNCHANGED <<items, edits>>
  /\ edit' = [open |-> FALSE, url |-> edit.url, health |-> NeverSynced]
  /\ UNCHANGED <<feed, sync, faults>>

(* Items are deleted with the row (ON DELETE CASCADE). *)
DeleteSource ==
  /\ source.present /\ ~ApiBusy
  /\ source' = [Unleased(NeverSynced) EXCEPT !.present = FALSE]
  /\ items' = [items EXCEPT !.version = 0]
  /\ UNCHANGED <<feed, sync, edit, edits, faults>>

-----------------------------------------------------------------------------
(* The feed, the clock, crashes *)

Publish(u) ==
  /\ feed[u] < MaxVersion
  /\ feed' = [feed EXCEPT ![u] = @ + 1]
  /\ UNCHANGED <<source, items, sync, edit, edits, faults>>

Working(s) == sync[s].pc \in {"fetching", "answered", "failing"}

(* A fetch ends well before its lease, so outliving it is a fault. *)
Tick ==
  /\ source.ttl > 0
  /\ source' = [source EXCEPT !.ttl = @ - 1]
  /\ IF source.ttl = 1 /\ \E s \in Sync : source.owner = s /\ Working(s)
     THEN faults < MaxFaults /\ faults' = faults + 1
     ELSE faults' = faults
  /\ UNCHANGED <<items, feed, sync, edit, edits>>

Started == {s \in Sync : sync[s].pc \notin {"ready", "done"}}

CrashWorker(s) ==
  /\ s \in WorkerSync \cap Started
  /\ faults < MaxFaults /\ faults' = faults + 1
  /\ sync' = Done(s)
  /\ UNCHANGED <<source, items, feed, edit, edits>>

CrashApi ==
  /\ edit.open \/ ApiSync \cap Started # {}
  /\ faults < MaxFaults /\ faults' = faults + 1
  /\ sync' = Ended(ApiSync \cap Started)
  /\ edit' = [open |-> FALSE, url |-> edit.url, health |-> NeverSynced]
  /\ UNCHANGED <<source, items, feed, edits>>

-----------------------------------------------------------------------------
Syncs(s) ==
  \/ ReadSource(s) \/ AcquireSyncLease(s) \/ ServerAnswers(s) \/ CompleteSync(s)
  \/ CommitFetchedSync(s) \/ SyncThrows(s) \/ RecordSyncFailure(s) \/ ReleaseSyncLease(s)
  \/ CrashWorker(s)

Next ==
  \/ \E s \in Sync : Syncs(s)
  \/ \E u \in Url : ReadForUpdate(u) \/ Publish(u)
  \/ UpdateSource \/ DeleteSource \/ Tick \/ CrashApi

Spec == Init /\ [][Next]_vars

-----------------------------------------------------------------------------
(* Properties *)

(* Material never outlives the address it came from, although a sync holds  *)
(* the old URL across its fetch: the stored items are of the current URL.   *)
ItemsBelongToUrl == items.url = source.url

(* What the source shows agrees with what its backoff enforces, whichever   *)
(* of syncs, stale syncs, edits and expiries wrote the row last: it shows   *)
(* an error exactly when its last outcome was one, and only then it counts  *)
(* failures and is held back.                                               *)
HealthAgrees ==
  LET h == source.health
  IN  /\ Shown # "syncing" => (Shown = "error" <=> h.last = "error")
      /\ h.last = "error" <=> h.failures > 0
      /\ h.failures > 0 <=> h.backoff > 0

(* "concurrent service instances perform one request"                       *)
(* (tests/integration/rss-ingestion.test.ts:241): while nothing crashes or  *)
(* stalls, two syncs fetch the source at a time only if its URL was changed *)
(* between their leases.                                                    *)
FetchesDoNotOverlap ==
  faults = 0 =>
    \A s, t \in Sync :
      /\ s # t
      /\ sync[s].pc \in {"fetching", "answered"} /\ sync[t].pc \in {"fetching", "answered"}
      => sync[s].since # sync[t].since

(* "a stale owner ... cannot publish old data" (DECISIONS.md D-029): while  *)
(* the URL stays, stored items are only replaced by a later document.       *)
ItemsNeverGoBack ==
  [][source'.present /\ edits' = edits => items'.version >= items.version]_vars

(* "... or concurrent URL edit": what a sync stores was fetched after the   *)
(* last change of the URL, even if the URL was changed back.                *)
EditsFenceFetches ==
  [][items' # items /\ items'.version # 0 =>
       \E s \in Sync : /\ sync[s].pc = "answered" /\ sync'[s].pc = "done"
                       /\ sync[s].since = edits]_vars

(* "Feed state records ETag ... values" (SPEC.md SRC-03): the recorded      *)
(* validator is that of the stored document.  An edit that read the row     *)
(* before a sync committed writes the former validator and health back.     *)
ValidatorIsOfStoredItems == source.present => source.health.etag = items.version
=============================================================================
