-------------------------- MODULE SourceSync_proofs --------------------------
(***************************************************************************)
(* Theorems about SourceSync, for any numbers of syncs, addresses, edits,  *)
(* documents and faults.                                                   *)
(*                                                                         *)
(* The strengthening says what a sync that still owns the lease may rely   *)
(* on: no URL change happened since it took the lease, and the document it *)
(* fetched is not older than the stored one.                               *)
(***************************************************************************)
EXTENDS SourceSync, FeedFetcher, SequenceTheorems, FiniteSetTheorems, TLAPS

HealthIsSound(h) ==
  /\ h.status # "syncing" => (h.status = "error" <=> h.last = "error")
  /\ h.last = "error" <=> h.failures > 0
  /\ h.failures > 0 <=> h.backoff > 0

StoredIsNotNewer(s) ==
  sync[s].pc = "answered" /\ sync[s].answer # 0 /\ sync[s].url = source.url =>
    sync[s].answer >= items.version

SyncIsSound(s) ==
  /\ sync[s].pc = "answered" => sync[s].answer <= feed[sync[s].url]
  /\ source.owner = s =>
       /\ sync[s].pc \in {"fetching", "answered"} => sync[s].since = edits
       /\ StoredIsNotNewer(s)

IInv ==
  /\ TypeOK
  /\ ItemsBelongToUrl
  /\ HealthIsSound(source.health)
  /\ HealthIsSound(edit.health)
  /\ edit.open /\ edit.url # source.url => edits < MaxEdits
  /\ items.version <= feed[items.url]
  /\ \A s \in Sync : SyncIsSound(s)

(* A sync that neither fetches nor commits relies on nothing. *)
LEMMA OtherPhasesAreSound ==
  ASSUME NEW t \in Sync, sync'[t].pc \notin {"fetching", "answered"}
  PROVE  SyncIsSound(t)'
<1>1. sync'[t].pc # "answered" /\ sync'[t].pc # "fetching"
  OBVIOUS
<1> QED
  BY <1>1, Zenon DEF SyncIsSound, StoredIsNotNewer

(* The health a new or edited source starts with. *)
LEMMA NeverSyncedIsSound == NeverSynced \in Health /\ HealthIsSound(NeverSynced)
<1>1. 0 \in Version /\ 0 \in Backoff /\ 0 \in Nat
  BY SourceAssumption DEF Version, Backoff
<1> QED
  BY <1>1 DEF NeverSynced, Health, HealthIsSound

(* What a sync records about a success and a failure. *)
LEMMA SucceededIsSound ==
  ASSUME NEW e \in Version
  PROVE  Succeeded(e) \in Health /\ HealthIsSound(Succeeded(e))
<1>1. 0 \in Backoff /\ 0 \in Nat
  BY DEF Backoff
<1> QED
  BY <1>1 DEF Succeeded, Health, HealthIsSound

LEMMA BackoffIsPositive ==
  ASSUME NEW n \in Nat
  PROVE  BackoffFor(n) \in Backoff /\ BackoffFor(n) > 0
BY DEF BackoffFor, Backoff

FailedHealth(h, n) ==
  [h EXCEPT !.status = "error", !.last = "error", !.failures = @ + 1, !.backoff = BackoffFor(n + 1)]

LEMMA FailedIsSound ==
  ASSUME NEW h \in Health, NEW n \in Nat
  PROVE  FailedHealth(h, n) \in Health /\ HealthIsSound(FailedHealth(h, n))
<1>1. n + 1 \in Nat /\ h.failures \in Nat /\ h.failures + 1 \in Nat /\ h.failures + 1 > 0
  BY DEF Health
<1>2. BackoffFor(n + 1) \in Backoff /\ BackoffFor(n + 1) > 0
  BY <1>1, BackoffIsPositive
<1> QED
  BY <1>1, <1>2 DEF FailedHealth, Health, HealthIsSound

(* Changing only the status keeps a sound health sound. *)
LEMMA StatusIsSound ==
  ASSUME NEW h \in Health, HealthIsSound(h),
         NEW st \in {"healthy", "error", "syncing"},
         st # "syncing" => (st = "error" <=> h.last = "error")
  PROVE  /\ [h EXCEPT !.status = st] \in Health
         /\ HealthIsSound([h EXCEPT !.status = st])
BY DEF Health, HealthIsSound

(* An ended sync is well-typed. *)
LEMMA EndedType ==
  ASSUME sync \in [Sync -> SyncState], NEW gone
  PROVE  /\ Ended(gone) \in [Sync -> SyncState]
         /\ \A s \in Sync : Ended(gone)[s] = sync[s] \/ Ended(gone)[s].pc = "done"
<1>1. 0 \in Version /\ 0 \in Nat /\ 0 \in 0..MaxEdits
  BY SourceAssumption DEF Version
<1>2. ASSUME NEW s \in Sync
      PROVE  [pc |-> "done", url |-> sync[s].url, etag |-> 0, answer |-> 0, count |-> 0,
              since |-> 0] \in SyncState
  BY <1>1 DEF SyncState
<1> QED
  BY <1>2 DEF Ended

(* A row without a lease is well-typed. *)
LEMMA UnleasedType ==
  ASSUME source \in Source, NEW h \in Health
  PROVE  /\ Unleased(h) \in Source
         /\ Unleased(h).health = h /\ Unleased(h).owner = NoSync
         /\ Unleased(h).url = source.url /\ Unleased(h).present = source.present
<1>1. 0 \in 0..LeaseTicks
  BY SourceAssumption
<1> QED
  BY <1>1 DEF Unleased, Source

LEMMA InitIInv == Init => IInv
<1> SUFFICES ASSUME Init PROVE IInv
  OBVIOUS
<1>0. PICK u \in Url :
        /\ source = [present |-> TRUE, url |-> u, health |-> NeverSynced, owner |-> NoSync, ttl |-> 0]
        /\ items = [url |-> u, version |-> 0]
        /\ feed = [v \in Url |-> 1]
        /\ sync = [s \in Sync |-> [pc |-> "ready", url |-> u, etag |-> 0, answer |-> 0,
                                   count |-> 0, since |-> 0]]
        /\ edit = [open |-> FALSE, url |-> u, health |-> NeverSynced]
        /\ edits = 0 /\ faults = 0
  BY DEF Init
<1>1. 0 \in Version /\ 1 \in Version /\ 0 \in Nat /\ 0 \in 0..MaxEdits /\ 0 \in 0..MaxFaults
      /\ 0 \in 0..LeaseTicks
  BY SourceAssumption DEF Version
<1>2. source \in Source /\ items \in Items /\ edit \in Edit
  BY <1>0, <1>1, NeverSyncedIsSound DEF Source, Items, Edit
<1>3. sync \in [Sync -> SyncState] /\ feed \in [Url -> Version]
  BY <1>0, <1>1 DEF SyncState
<1>4. \A s \in Sync : SyncIsSound(s)
  BY <1>0, SourceAssumption DEF SyncIsSound, StoredIsNotNewer
<1>5. items.version <= feed[items.url] /\ ItemsBelongToUrl
  BY <1>0 DEF ItemsBelongToUrl
<1> QED
  BY <1>0, <1>1, <1>2, <1>3, <1>4, <1>5, NeverSyncedIsSound DEF IInv, TypeOK

-----------------------------------------------------------------------------
(* The steps of a sync *)

(* What every step of a sync s that only changes its own memory keeps. *)
LEMMA ReadSourceKeepsIInv ==
  ASSUME IInv, NEW s \in Sync, ReadSource(s)
  PROVE  IInv'
<1> DEFINE m == [sync[s] EXCEPT !.pc = "read", !.url = source.url, !.etag = source.health.etag]
<1>1. m \in SyncState /\ m.pc = "read"
  BY DEF IInv, TypeOK, SyncState, Source, Health
<1>2. sync' = [sync EXCEPT ![s] = m]
  BY DEF ReadSource, IInv, TypeOK, SyncState
<1>3. sync' \in [Sync -> SyncState]
  BY <1>1, <1>2 DEF IInv, TypeOK
<1>4. \A t \in Sync : SyncIsSound(t)'
  BY <1>1, <1>2 DEF IInv, TypeOK, SyncIsSound, StoredIsNotNewer, ReadSource
<1> QED
  BY <1>3, <1>4 DEF IInv, TypeOK, ItemsBelongToUrl, ReadSource

LEMMA AcquireSyncLeaseKeepsIInv ==
  ASSUME IInv, NEW s \in Sync, AcquireSyncLease(s)
  PROVE  IInv'
<1>0. TypeOK /\ sync \in [Sync -> SyncState] /\ source \in Source /\ edits \in 0..MaxEdits
  BY DEF IInv, TypeOK
<1>1. CASE LeaseIsFree
  <2> DEFINE m == [sync[s] EXCEPT !.pc = "fetching", !.since = edits]
             h == [source.health EXCEPT !.status = "syncing"]
             n == [source EXCEPT !.owner = s, !.ttl = LeaseTicks, !.health = h]
  <2>1. m \in SyncState /\ m.pc = "fetching" /\ m.since = edits
    BY <1>0 DEF SyncState
  <2>2. sync' = [sync EXCEPT ![s] = m]
    BY <1>0, <1>1 DEF AcquireSyncLease, SyncState
  <2>3. h \in Health /\ HealthIsSound(h)
    BY <1>0, StatusIsSound DEF IInv, Source
  <2>4. source' = n
    BY <1>0, <1>1 DEF AcquireSyncLease, Source
  <2>5. n \in Source /\ n.health = h /\ n.owner = s /\ n.url = source.url
    <3>1. LeaseTicks \in 0..LeaseTicks
      BY SourceAssumption
    <3> HIDE DEF h
    <3> QED
      BY <1>0, <2>3, <3>1 DEF Source
  <2>6. sync' \in [Sync -> SyncState]
    BY <1>0, <2>1, <2>2
  <2>7. \A t \in Sync : SyncIsSound(t)'
    <3>1. /\ sync'[s].pc = "fetching" /\ sync'[s].since = edits
          /\ source'.owner = s /\ source'.url = source.url
      BY <1>0, <2>1, <2>2, <2>4, <2>5
    <3>2. SyncIsSound(s)'
      <4>1. sync'[s].pc # "answered" /\ edits' = edits
        BY <3>1 DEF AcquireSyncLease
      <4> QED
        BY <3>1, <4>1, Zenon DEF SyncIsSound, StoredIsNotNewer
    <3>3. ASSUME NEW t \in Sync, t # s PROVE SyncIsSound(t)'
      <4>1. sync'[t] = sync[t]
        BY <1>0, <2>2, <3>3
      <4> QED
        BY <3>1, <3>3, <4>1 DEF IInv, SyncIsSound, StoredIsNotNewer, AcquireSyncLease
    <3> QED
      BY <3>2, <3>3
  <2> HIDE DEF h, n, m
  <2>8. source' \in Source /\ HealthIsSound(source'.health) /\ source'.url = source.url
    BY <2>3, <2>4, <2>5
  <2> QED
    BY <2>6, <2>7, <2>8 DEF IInv, TypeOK, ItemsBelongToUrl, AcquireSyncLease
<1>2. CASE ~LeaseIsFree
  <2>1. sync' = Ended({s}) /\ UNCHANGED source
    BY <1>2 DEF AcquireSyncLease, Done
  <2>2. /\ sync' \in [Sync -> SyncState]
        /\ \A t \in Sync : sync'[t] = sync[t] \/ sync'[t].pc = "done"
    BY <1>0, <2>1, EndedType
  <2>3. ASSUME NEW t \in Sync PROVE SyncIsSound(t)'
    <3>1. CASE sync'[t] = sync[t]
      BY <2>1, <3>1 DEF IInv, SyncIsSound, StoredIsNotNewer, AcquireSyncLease
    <3>2. CASE sync'[t].pc = "done"
      BY <3>2, OtherPhasesAreSound
    <3> QED
      BY <2>2, <3>1, <3>2
  <2> QED
    BY <2>1, <2>2, <2>3 DEF IInv, TypeOK, ItemsBelongToUrl, AcquireSyncLease
<1> QED
  BY <1>1, <1>2

LEMMA ServerAnswersKeepsIInv ==
  ASSUME IInv, NEW s \in Sync, ServerAnswers(s)
  PROVE  IInv'
<1> DEFINE now == feed[sync[s].url]
           a == IF sync[s].etag = now THEN 0 ELSE now
           m == [sync[s] EXCEPT !.pc = "answered", !.answer = a]
<1>0. sync \in [Sync -> SyncState] /\ sync[s] \in SyncState /\ feed \in [Url -> Version]
  BY DEF IInv, TypeOK
<1>1. a \in Version /\ (a # 0 => a = now) /\ a <= now
  BY <1>0, SourceAssumption DEF SyncState, Version
<1>2. /\ m \in SyncState /\ m.pc = "answered" /\ m.answer = a
      /\ m.url = sync[s].url /\ m.since = sync[s].since
  BY <1>0, <1>1 DEF SyncState
<1>3. sync' = [sync EXCEPT ![s] = m]
  BY <1>0 DEF ServerAnswers, SyncState
<1>4. sync' \in [Sync -> SyncState]
  BY <1>0, <1>2, <1>3
<1>5. source.url = sync[s].url => now >= items.version
  BY <1>0 DEF IInv, ItemsBelongToUrl, TypeOK, Items, Version
<1>6. SyncIsSound(s)'
  BY <1>0, <1>1, <1>2, <1>3, <1>5 DEF IInv, SyncIsSound, StoredIsNotNewer, ServerAnswers
<1>7. ASSUME NEW t \in Sync, t # s PROVE SyncIsSound(t)'
  <2>1. sync'[t] = sync[t]
    BY <1>0, <1>3, <1>7
  <2> QED
    BY <2>1 DEF IInv, SyncIsSound, StoredIsNotNewer, ServerAnswers
<1>8. \A t \in Sync : SyncIsSound(t)'
  BY <1>6, <1>7
<1> QED
  BY <1>4, <1>8 DEF IInv, TypeOK, ItemsBelongToUrl, ServerAnswers

LEMMA SyncThrowsKeepsIInv ==
  ASSUME IInv, NEW s \in Sync, SyncThrows(s)
  PROVE  IInv'
<1> DEFINE c == IF source.present THEN source.health.failures ELSE 0
           m == [sync[s] EXCEPT !.pc = "failing", !.count = c]
<1>0. sync \in [Sync -> SyncState] /\ sync[s] \in SyncState
  BY DEF IInv, TypeOK
<1>1. c \in Nat
  BY DEF IInv, TypeOK, Source, Health
<1>2. m \in SyncState /\ m.pc = "failing"
  BY <1>0, <1>1 DEF SyncState
<1>3. sync' = [sync EXCEPT ![s] = m]
  BY <1>0 DEF SyncThrows, SyncState
<1>4. sync' \in [Sync -> SyncState]
  BY <1>0, <1>2, <1>3
<1>5. ASSUME NEW t \in Sync PROVE SyncIsSound(t)'
  <2>1. CASE t = s
    <3>1. sync'[t].pc = "failing"
      BY <1>0, <1>2, <1>3, <2>1
    <3> QED
      BY <3>1, OtherPhasesAreSound
  <2>2. CASE t # s
    <3>1. sync'[t] = sync[t]
      BY <1>0, <1>3, <2>2
    <3> QED
      BY <3>1 DEF IInv, SyncIsSound, StoredIsNotNewer, SyncThrows
  <2> QED
    BY <2>1, <2>2
<1> QED
  BY <1>4, <1>5 DEF IInv, TypeOK, ItemsBelongToUrl, SyncThrows

(* A step that ends syncs and leaves the row without a lease and with sound *)
(* health, or the row as it is.                                             *)
LEMMA EndingKeepsIInv ==
  ASSUME IInv, NEW gone, sync' = Ended(gone),
         UNCHANGED <<feed, edits>>, edit' \in Edit, HealthIsSound(edit'.health),
         source'.url = source.url, edit' = edit \/ ~edit'.open,
         faults' \in 0..MaxFaults, items' \in Items,
         items'.url = source'.url, items'.version <= feed[items'.url],
         \/ UNCHANGED <<source, items>>
         \/ /\ source' \in Source /\ source'.owner = NoSync
            /\ HealthIsSound(source'.health)
  PROVE  IInv'
<1>1. /\ sync' \in [Sync -> SyncState]
      /\ \A t \in Sync : sync'[t] = sync[t] \/ sync'[t].pc = "done"
  BY EndedType DEF IInv, TypeOK
<1>2. source' \in Source /\ HealthIsSound(source'.health)
  BY DEF IInv, TypeOK
<1>3. ASSUME NEW t \in Sync PROVE SyncIsSound(t)'
  <2>1. CASE sync'[t].pc = "done"
    BY <2>1, OtherPhasesAreSound
  <2>2. CASE sync'[t] = sync[t]
    BY <2>2, SourceAssumption DEF IInv, SyncIsSound, StoredIsNotNewer
  <2> QED
    BY <1>1, <2>1, <2>2
<1>4. edit'.open /\ edit'.url # source'.url => edits' < MaxEdits
  BY DEF IInv
<1> QED
  BY <1>1, <1>2, <1>3, <1>4 DEF IInv, TypeOK, ItemsBelongToUrl

LEMMA CompleteSyncKeepsIInv ==
  ASSUME IInv, NEW s \in Sync, CompleteSync(s)
  PROVE  IInv'
<1>1. sync[s].etag \in Version
  BY DEF IInv, TypeOK, SyncState
<1>2. source' = Unleased(Succeeded(sync[s].etag)) /\ sync' = Ended({s})
  BY DEF CompleteSync, Done
<1>3. /\ source' \in Source /\ source'.owner = NoSync /\ source'.url = source.url
      /\ HealthIsSound(source'.health)
  BY <1>1, <1>2, UnleasedType, SucceededIsSound DEF IInv, TypeOK
<1> QED
  BY <1>2, <1>3, EndingKeepsIInv DEF IInv, TypeOK, ItemsBelongToUrl, CompleteSync

LEMMA CommitFetchedSyncKeepsIInv ==
  ASSUME IInv, NEW s \in Sync, CommitFetchedSync(s)
  PROVE  IInv'
<1>1. sync[s].answer \in Version /\ sync[s].url \in Url /\ sync[s].url = source.url
  BY DEF IInv, TypeOK, SyncState, CommitFetchedSync, Fenced, FencedByUrl
<1>2. /\ source' = Unleased(Succeeded(sync[s].answer)) /\ sync' = Ended({s})
      /\ items' = [url |-> sync[s].url, version |-> sync[s].answer]
  BY DEF CommitFetchedSync, Done
<1>3. /\ source' \in Source /\ source'.owner = NoSync /\ source'.url = source.url
      /\ HealthIsSound(source'.health)
  BY <1>1, <1>2, UnleasedType, SucceededIsSound DEF IInv, TypeOK
<1>4. items' \in Items /\ items'.url = source'.url /\ items'.version = sync[s].answer
  BY <1>1, <1>2, <1>3 DEF Items
<1>5. items'.version <= feed[items'.url]
  BY <1>1, <1>3, <1>4 DEF IInv, SyncIsSound, StoredIsNotNewer, CommitFetchedSync
<1> QED
  BY <1>2, <1>3, <1>4, <1>5, EndingKeepsIInv DEF IInv, TypeOK, CommitFetchedSync

LEMMA RecordSyncFailureKeepsIInv ==
  ASSUME IInv, NEW s \in Sync, RecordSyncFailure(s)
  PROVE  IInv'
<1> DEFINE h == FailedHealth(source.health, sync[s].count)
<1>0. source.health \in Health /\ sync[s].count \in Nat /\ source \in Source
  BY DEF IInv, TypeOK, Source, SyncState
<1>1. sync' = Ended({s}) /\ source' \in {source, Unleased(h)}
  BY DEF RecordSyncFailure, Done, FailedHealth
<1>2. h \in Health /\ HealthIsSound(h)
  BY <1>0, FailedIsSound
<1> HIDE DEF h
<1>3. /\ Unleased(h) \in Source /\ Unleased(h).owner = NoSync /\ Unleased(h).url = source.url
      /\ Unleased(h).health = h
  BY <1>0, <1>2, UnleasedType
<1> QED
  BY <1>1, <1>2, <1>3, EndingKeepsIInv DEF IInv, TypeOK, ItemsBelongToUrl, RecordSyncFailure

LEMMA ReleaseSyncLeaseKeepsIInv ==
  ASSUME IInv, NEW s \in Sync, ReleaseSyncLease(s)
  PROVE  IInv'
<1> DEFINE st == IF source.health.last = "error" THEN "error" ELSE "healthy"
           h  == [source.health EXCEPT !.status = st]
<1>0. source.health \in Health /\ source \in Source /\ HealthIsSound(source.health)
  BY DEF IInv, TypeOK, Source
<1>1. sync' = Ended({s}) /\ source' \in {source, Unleased(h)}
  BY DEF ReleaseSyncLease, Done
<1>2. h \in Health /\ HealthIsSound(h)
  BY <1>0, StatusIsSound
<1> HIDE DEF h
<1>3. /\ Unleased(h) \in Source /\ Unleased(h).owner = NoSync /\ Unleased(h).url = source.url
      /\ Unleased(h).health = h
  BY <1>0, <1>2, UnleasedType
<1> QED
  BY <1>1, <1>2, <1>3, EndingKeepsIInv DEF IInv, TypeOK, ItemsBelongToUrl, ReleaseSyncLease

LEMMA CrashWorkerKeepsIInv ==
  ASSUME IInv, NEW s \in Sync, CrashWorker(s)
  PROVE  IInv'
<1>1. faults' \in 0..MaxFaults
  BY SourceAssumption DEF IInv, TypeOK, CrashWorker
<1> QED
  BY <1>1, EndingKeepsIInv DEF IInv, TypeOK, ItemsBelongToUrl, CrashWorker, Done

LEMMA SyncsKeepIInv ==
  ASSUME IInv, NEW s \in Sync, Syncs(s)
  PROVE  IInv'
BY ReadSourceKeepsIInv, AcquireSyncLeaseKeepsIInv, ServerAnswersKeepsIInv, CompleteSyncKeepsIInv,
   CommitFetchedSyncKeepsIInv, SyncThrowsKeepsIInv, RecordSyncFailureKeepsIInv,
   ReleaseSyncLeaseKeepsIInv, CrashWorkerKeepsIInv
   DEF Syncs

-----------------------------------------------------------------------------
(* Edits, the feed, the clock, the API process *)

LEMMA ReadForUpdateKeepsIInv ==
  ASSUME IInv, NEW u \in Url, ReadForUpdate(u)
  PROVE  IInv'
<1> DEFINE h == [source.health EXCEPT !.status = Shown]
<1>0. source.health \in Health /\ HealthIsSound(source.health)
  BY DEF IInv, TypeOK, Source
<1>1. /\ Shown \in {"healthy", "error", "syncing"}
      /\ Shown # "syncing" => (Shown = "error" <=> source.health.last = "error")
  BY <1>0 DEF Shown, Health, HealthIsSound
<1>2. h \in Health /\ HealthIsSound(h)
  BY <1>0, <1>1, StatusIsSound
<1>3. edit' = [open |-> TRUE, url |-> u, health |-> h]
  BY DEF ReadForUpdate
<1> HIDE DEF h
<1>4. edit' \in Edit /\ HealthIsSound(edit'.health)
  BY <1>2, <1>3 DEF Edit
<1>5. \A t \in Sync : SyncIsSound(t)'
  BY DEF IInv, SyncIsSound, StoredIsNotNewer, ReadForUpdate
<1> QED
  BY <1>4, <1>5 DEF IInv, TypeOK, ItemsBelongToUrl, ReadForUpdate

LEMMA UpdateSourceKeepsIInv ==
  ASSUME IInv, UpdateSource
  PROVE  IInv'
<1>0. /\ edit \in Edit /\ source \in Source /\ sync \in [Sync -> SyncState] /\ edits \in 0..MaxEdits
      /\ edit.url \in Url /\ edit.health \in Health /\ HealthIsSound(edit.health)
      /\ feed \in [Url -> Version]
      /\ (edit.url # source.url => edits < MaxEdits)
  BY DEF IInv, TypeOK, Edit, UpdateSource
<1>1. edit' \in Edit /\ HealthIsSound(edit'.health)
  <2>1. edit' = [open |-> FALSE, url |-> edit.url, health |-> NeverSynced]
    BY DEF UpdateSource
  <2> QED
    BY <1>0, <2>1, NeverSyncedIsSound DEF Edit
<1>2. CASE edit.url # source.url
  <2>1. /\ source' = [Unleased(NeverSynced) EXCEPT !.url = edit.url]
        /\ items' = [url |-> edit.url, version |-> 0] /\ edits' = edits + 1
    BY <1>2 DEF UpdateSource, ReplacedUrl, ItemsOfNewUrl
  <2>2. /\ Unleased(NeverSynced) \in Source /\ Unleased(NeverSynced).health = NeverSynced
        /\ Unleased(NeverSynced).owner = NoSync
    BY <1>0, NeverSyncedIsSound, UnleasedType
  <2>3. /\ source' \in Source /\ source'.owner = NoSync /\ source'.url = edit.url
        /\ source'.health = NeverSynced
    BY <1>0, <2>1, <2>2 DEF Source
  <2>4. /\ items' \in Items /\ items'.version <= feed[items'.url] /\ items'.url = source'.url
    <3>1. 0 \in Version
      BY SourceAssumption DEF Version
    <3> QED
      BY <1>0, <2>1, <2>3, <3>1 DEF Items, Version
  <2>5. edits' \in 0..MaxEdits
    BY <1>0, <1>2, <2>1, SourceAssumption
  <2>6. ASSUME NEW t \in Sync PROVE SyncIsSound(t)'
    BY <2>3, <2>6, SourceAssumption DEF IInv, SyncIsSound, StoredIsNotNewer, UpdateSource
  <2> QED
    BY <1>1, <2>3, <2>4, <2>5, <2>6, NeverSyncedIsSound
       DEF IInv, TypeOK, ItemsBelongToUrl, UpdateSource
<1>3. CASE edit.url = source.url
  <2>1. source' = [source EXCEPT !.health = edit.health] /\ UNCHANGED <<items, edits>>
    BY <1>3 DEF UpdateSource
  <2>2. /\ source' \in Source /\ source'.owner = source.owner /\ source'.url = source.url
        /\ source'.health = edit.health
    BY <1>0, <2>1 DEF Source
  <2>3. ASSUME NEW t \in Sync PROVE SyncIsSound(t)'
    BY <2>1, <2>2, <2>3 DEF IInv, SyncIsSound, StoredIsNotNewer, UpdateSource
  <2> QED
    BY <1>0, <1>1, <2>1, <2>2, <2>3 DEF IInv, TypeOK, ItemsBelongToUrl, UpdateSource
<1> QED
  BY <1>2, <1>3

LEMMA DeleteSourceKeepsIInv ==
  ASSUME IInv, DeleteSource
  PROVE  IInv'
<1>0. source \in Source /\ items \in Items /\ sync \in [Sync -> SyncState]
      /\ feed \in [Url -> Version]
  BY DEF IInv, TypeOK
<1>1. /\ Unleased(NeverSynced) \in Source /\ Unleased(NeverSynced).health = NeverSynced
      /\ Unleased(NeverSynced).owner = NoSync /\ Unleased(NeverSynced).url = source.url
  BY <1>0, NeverSyncedIsSound, UnleasedType
<1>2. /\ source' \in Source /\ source'.owner = NoSync /\ source'.url = source.url
      /\ source'.health = NeverSynced
  BY <1>1 DEF DeleteSource, Source
<1>3. items' \in Items /\ items'.url = items.url /\ items'.version = 0
  <2>1. 0 \in Version
    BY SourceAssumption DEF Version
  <2> QED
    BY <1>0, <2>1 DEF DeleteSource, Items
<1>4. items'.version <= feed[items'.url]
  BY <1>0, <1>3 DEF Items, Version
<1>5. ASSUME NEW t \in Sync PROVE SyncIsSound(t)'
  BY <1>2, <1>5, SourceAssumption DEF IInv, SyncIsSound, StoredIsNotNewer, DeleteSource
<1> QED
  BY <1>2, <1>3, <1>4, <1>5, NeverSyncedIsSound DEF IInv, TypeOK, ItemsBelongToUrl, DeleteSource

LEMMA PublishKeepsIInv ==
  ASSUME IInv, NEW u \in Url, Publish(u)
  PROVE  IInv'
<1>0. /\ feed \in [Url -> Version] /\ items \in Items /\ sync \in [Sync -> SyncState]
      /\ feed[u] \in Nat /\ feed[u] + 1 \in Version
  BY SourceAssumption DEF IInv, TypeOK, Publish, Version
<1>1. feed' = [feed EXCEPT ![u] = feed[u] + 1] /\ feed' \in [Url -> Version]
  BY <1>0 DEF Publish
<1>2. \A v \in Url : feed[v] <= feed'[v]
  BY <1>0, <1>1 DEF Version
<1>3. items.version <= feed'[items.url]
  BY <1>0, <1>1, <1>2 DEF IInv, Items, Version
<1>4. ASSUME NEW t \in Sync PROVE SyncIsSound(t)'
  <2>1. sync[t].url \in Url /\ sync[t].answer \in Version
    BY <1>0 DEF SyncState
  <2>2. sync[t].pc = "answered" => sync[t].answer <= feed'[sync[t].url]
    BY <1>0, <1>1, <1>2, <2>1 DEF IInv, SyncIsSound, StoredIsNotNewer, Version
  <2> QED
    BY <2>2 DEF IInv, SyncIsSound, StoredIsNotNewer, Publish
<1> QED
  BY <1>1, <1>3, <1>4 DEF IInv, TypeOK, ItemsBelongToUrl, Publish

LEMMA TickKeepsIInv ==
  ASSUME IInv, Tick
  PROVE  IInv'
<1>0. source \in Source /\ source.ttl \in 0..LeaseTicks /\ source.ttl > 0
  BY DEF IInv, TypeOK, Source, Tick
<1>1. source.ttl - 1 \in 0..LeaseTicks
  BY <1>0, SourceAssumption
<1>2. /\ source' \in Source /\ source'.owner = source.owner /\ source'.url = source.url
      /\ source'.health = source.health
  BY <1>0, <1>1 DEF Tick, Source
<1>3. faults' \in 0..MaxFaults
  BY SourceAssumption DEF IInv, TypeOK, Tick
<1>4. ASSUME NEW t \in Sync PROVE SyncIsSound(t)'
  BY <1>2, <1>4 DEF IInv, SyncIsSound, StoredIsNotNewer, Tick
<1> QED
  BY <1>2, <1>3, <1>4 DEF IInv, TypeOK, ItemsBelongToUrl, Tick

LEMMA CrashApiKeepsIInv ==
  ASSUME IInv, CrashApi
  PROVE  IInv'
<1>1. faults' \in 0..MaxFaults
  BY SourceAssumption DEF IInv, TypeOK, CrashApi
<1>2. edit' \in Edit /\ HealthIsSound(edit'.health)
  BY NeverSyncedIsSound DEF IInv, TypeOK, CrashApi, Edit
<1> QED
  BY <1>1, <1>2, EndingKeepsIInv DEF IInv, TypeOK, ItemsBelongToUrl, CrashApi

-----------------------------------------------------------------------------
LEMMA StepKeepsIInv == IInv /\ [Next]_vars => IInv'
<1> SUFFICES ASSUME IInv, [Next]_vars PROVE IInv'
  OBVIOUS
<1>1. CASE \E s \in Sync : Syncs(s)
  BY <1>1, SyncsKeepIInv
<1>2. CASE \E u \in Url : ReadForUpdate(u) \/ Publish(u)
  BY <1>2, ReadForUpdateKeepsIInv, PublishKeepsIInv
<1>3. CASE UpdateSource \/ DeleteSource \/ Tick \/ CrashApi
  BY <1>3, UpdateSourceKeepsIInv, DeleteSourceKeepsIInv, TickKeepsIInv, CrashApiKeepsIInv
<1>4. CASE UNCHANGED vars
  <2>1. \A t \in Sync : SyncIsSound(t)'
    BY <1>4 DEF IInv, SyncIsSound, StoredIsNotNewer, vars
  <2> QED
    BY <1>4, <2>1 DEF IInv, TypeOK, ItemsBelongToUrl, vars
<1> QED
  BY <1>1, <1>2, <1>3, <1>4 DEF Next

LEMMA Invariance == Spec => []IInv
BY InitIInv, StepKeepsIInv, PTL DEF Spec

(* Every reachable state is well-typed. *)
THEOREM SourceTypes == Spec => []TypeOK
<1>1. IInv => TypeOK
  BY DEF IInv
<1> QED
  BY <1>1, Invariance, PTL

(* No fetch that was under way stores items of a URL the source no longer has. *)
THEOREM SourceItemsBelongToUrl == Spec => []ItemsBelongToUrl
<1>1. IInv => ItemsBelongToUrl
  BY DEF IInv
<1> QED
  BY <1>1, Invariance, PTL

(* Shown status, failure count and backoff agree after any interleaving of  *)
(* outcomes, expiries and edits that write back a row read earlier.         *)
THEOREM SourceHealthAgrees == Spec => []HealthAgrees
<1>1. IInv => HealthAgrees
  BY DEF IInv, HealthIsSound, HealthAgrees, Shown
<1> QED
  BY <1>1, Invariance, PTL

(* A stale owner never replaces stored items by an older document. *)
THEOREM SourceItemsNeverGoBack == Spec => ItemsNeverGoBack
<1> DEFINE Kept == source'.present /\ edits' = edits => items'.version >= items.version
<1>1. IInv /\ [Next]_vars => [Kept]_vars
  <2> SUFFICES ASSUME IInv, Next PROVE Kept
    BY DEF vars
  <2>0. items.version \in Nat /\ edits \in Nat
    BY SourceAssumption DEF IInv, TypeOK, Items, Version
  <2>1. CASE items' = items
    BY <2>0, <2>1
  <2>2. ASSUME NEW s \in Sync, CommitFetchedSync(s) PROVE Kept
    BY <2>2 DEF IInv, SyncIsSound, StoredIsNotNewer, CommitFetchedSync, Fenced, FencedByUrl
  <2>3. ASSUME UpdateSource, items' # items PROVE edits' # edits
    BY <2>0, <2>3 DEF UpdateSource
  <2>4. ASSUME DeleteSource PROVE ~source'.present
    BY <2>4 DEF DeleteSource, IInv, TypeOK, Source, Unleased
  <2>5. items' = items \/ (\E s \in Sync : CommitFetchedSync(s)) \/ UpdateSource \/ DeleteSource
    BY DEF Next, Syncs, ReadSource, AcquireSyncLease, ServerAnswers, CompleteSync, SyncThrows,
           RecordSyncFailure, ReleaseSyncLease, CrashWorker, ReadForUpdate, Publish, Tick, CrashApi
  <2> QED
    BY <2>1, <2>2, <2>3, <2>4, <2>5
<1> QED
  BY <1>1, Invariance, PTL DEF Spec, ItemsNeverGoBack

(* Whatever a sync stores was fetched after the last change of the URL. *)
THEOREM SourceEditsFenceFetches == Spec => EditsFenceFetches
<1> DEFINE Fresh == items' # items /\ items'.version # 0 =>
                      \E s \in Sync : /\ sync[s].pc = "answered" /\ sync'[s].pc = "done"
                                      /\ sync[s].since = edits
<1>1. IInv /\ [Next]_vars => [Fresh]_vars
  <2> SUFFICES ASSUME IInv, Next PROVE Fresh
    BY DEF vars
  <2>1. CASE items' = items
    BY <2>1
  <2>2. ASSUME NEW s \in Sync, CommitFetchedSync(s) PROVE Fresh
    <3>1. sync[s].pc = "answered" /\ sync[s].since = edits
      BY <2>2 DEF IInv, SyncIsSound, StoredIsNotNewer, CommitFetchedSync, Fenced
    <3>2. sync'[s].pc = "done"
      BY <2>2 DEF CommitFetchedSync, Done, Ended
    <3> QED
      BY <3>1, <3>2
  <2>3. ASSUME UpdateSource \/ DeleteSource, items' # items PROVE items'.version = 0
    BY <2>3 DEF UpdateSource, DeleteSource, ItemsOfNewUrl, IInv, TypeOK, Items
  <2>4. items' = items \/ (\E s \in Sync : CommitFetchedSync(s)) \/ UpdateSource \/ DeleteSource
    BY DEF Next, Syncs, ReadSource, AcquireSyncLease, ServerAnswers, CompleteSync, SyncThrows,
           RecordSyncFailure, ReleaseSyncLease, CrashWorker, ReadForUpdate, Publish, Tick, CrashApi
  <2> QED
    BY <2>1, <2>2, <2>3, <2>4
<1> QED
  BY <1>1, Invariance, PTL DEF Spec, EditsFenceFetches

-----------------------------------------------------------------------------
(* One fetch at a time *)

Fetching(s) == sync[s].pc \in {"fetching", "answered"}

(* As long as nothing crashed or stalled, a fetch that began after the last *)
(* change of the URL still has its lease.                                   *)
FetchIsLeased(s) ==
  Fetching(s) =>
    /\ sync[s].since <= edits
    /\ sync[s].since = edits /\ source.present = TRUE => source.owner = s /\ source.ttl > 0

OneFetch ==
  /\ faults = 0 => \A s \in Sync : FetchIsLeased(s)
  /\ FetchesDoNotOverlap

LEMMA FetchesStay ==
  ASSUME TypeOK, OneFetch, faults' = faults,
         \A t \in Sync : Fetching(t)' => Fetching(t) /\ sync'[t].since = sync[t].since,
         \/ edits' = edits + 1
         \/ /\ edits' = edits
            /\ source'.present = TRUE => source.present = TRUE
            /\ \A t \in Sync :
                 Fetching(t)' /\ source.owner = t /\ source.ttl > 0 /\ source'.present = TRUE =>
                   source'.owner = t /\ source'.ttl > 0
  PROVE  OneFetch'
<1>1. edits \in Nat /\ \A t \in Sync : sync[t].since \in Nat
  BY SourceAssumption DEF TypeOK, SyncState
<1>2. ASSUME faults = 0, NEW t \in Sync, Fetching(t)'
      PROVE  /\ sync'[t].since <= edits'
             /\ sync'[t].since = edits' /\ source'.present = TRUE =>
                  source'.owner = t /\ source'.ttl > 0
  <2>1. /\ Fetching(t) /\ sync'[t].since = sync[t].since
        /\ sync[t].since <= edits
        /\ sync[t].since = edits /\ source.present = TRUE => source.owner = t /\ source.ttl > 0
    BY <1>2 DEF OneFetch, FetchIsLeased
  <2>2. QED
    BY <1>1, <1>2, <2>1
<1>3. faults' = 0 => \A t \in Sync : FetchIsLeased(t)'
  BY <1>2 DEF FetchIsLeased
<1>4. FetchesDoNotOverlap'
  BY DEF OneFetch, FetchesDoNotOverlap, Fetching
<1>5. QED
  BY <1>3, <1>4 DEF OneFetch

LEMMA AcquireKeepsOneFetch ==
  ASSUME IInv, OneFetch, NEW s \in Sync, AcquireSyncLease(s)
  PROVE  OneFetch'
<1>0. TypeOK /\ faults' = faults /\ edits' = edits
  BY DEF IInv, AcquireSyncLease
<1>1. CASE LeaseIsFree
  <2>1. /\ sync' = [sync EXCEPT ![s].pc = "fetching", ![s].since = edits]
        /\ source' = [source EXCEPT !.owner = s, !.ttl = LeaseTicks, !.health.status = "syncing"]
        /\ source.present = TRUE /\ source.ttl = 0
    BY <1>0, <1>1 DEF AcquireSyncLease, LeaseIsFree, TypeOK, Source
  <2>2. /\ \A t \in Sync \ {s} : sync'[t] = sync[t]
        /\ sync'[s].since = edits /\ sync'[s].pc = "fetching"
    BY <1>0, <2>1 DEF TypeOK, SyncState
  <2>3. source'.owner = s /\ source'.ttl = LeaseTicks /\ LeaseTicks > 0
    BY <1>0, <2>1, SourceAssumption DEF TypeOK, Source
  <2>4. edits \in Nat /\ \A t \in Sync : sync[t].since \in Nat
    BY <1>0, SourceAssumption DEF TypeOK, SyncState
  <2>5. ASSUME faults = 0, NEW t \in Sync \ {s}, Fetching(t)
        PROVE  sync[t].since < edits
    <3>1. /\ sync[t].since <= edits
          /\ sync[t].since = edits /\ source.present = TRUE => source.ttl > 0
      BY <2>5 DEF OneFetch, FetchIsLeased
    <3>2. QED
      BY <2>1, <2>4, <3>1
  <2>6. ASSUME faults = 0, NEW t \in Sync
        PROVE  FetchIsLeased(t)'
    <3>1. CASE t = s
      BY <1>0, <2>2, <2>3, <2>4, <3>1 DEF FetchIsLeased
    <3>2. CASE t # s
      BY <1>0, <2>2, <2>4, <2>5, <2>6, <3>2 DEF FetchIsLeased, Fetching
    <3>3. QED
      BY <3>1, <3>2
  <2>7. ASSUME faults = 0, NEW t \in Sync, NEW u \in Sync, t # u, Fetching(t)', Fetching(u)'
        PROVE  sync'[t].since # sync'[u].since
    <3>1. CASE t = s
      BY <2>2, <2>4, <2>5, <2>7, <3>1 DEF Fetching
    <3>2. CASE u = s
      BY <2>2, <2>4, <2>5, <2>7, <3>2 DEF Fetching
    <3>3. CASE t # s /\ u # s
      BY <2>2, <2>7, <3>3 DEF Fetching, OneFetch, FetchesDoNotOverlap
    <3>4. QED
      BY <3>1, <3>2, <3>3
  <2>8. QED
    BY <1>0, <2>6, <2>7 DEF OneFetch, FetchesDoNotOverlap, Fetching
<1>2. CASE ~LeaseIsFree
  <2>1. source' = source /\ sync' = Done(s)
    BY <1>2 DEF AcquireSyncLease
  <2>2. \A t \in Sync : Fetching(t)' => sync'[t] = sync[t]
    BY <2>1 DEF Fetching, Done, Ended
  <2>3. QED
    BY <1>0, <2>1, <2>2, FetchesStay DEF Fetching
<1>3. QED
  BY <1>1, <1>2

(* The steps of a sync that has its lease, or that never had one. *)
LEMMA SyncsKeepOneFetch ==
  ASSUME IInv, OneFetch, NEW s \in Sync, Syncs(s)
  PROVE  OneFetch'
<1>0. TypeOK
  BY DEF IInv
<1>1. CASE AcquireSyncLease(s)
  BY <1>1, AcquireKeepsOneFetch
<1>2. CASE CrashWorker(s)
  BY <1>0, <1>2 DEF CrashWorker, OneFetch, FetchesDoNotOverlap, TypeOK
<1>3. CASE ReadSource(s) \/ ServerAnswers(s) \/ SyncThrows(s)
  <2>1. /\ source' = source /\ faults' = faults /\ edits' = edits
        /\ \A t \in Sync \ {s} : sync'[t] = sync[t]
    BY <1>0, <1>3 DEF ReadSource, ServerAnswers, SyncThrows, TypeOK
  <2>2. Fetching(s)' => Fetching(s) /\ sync'[s].since = sync[s].since
    BY <1>0, <1>3 DEF ReadSource, ServerAnswers, SyncThrows, TypeOK, SyncState, Fetching
  <2>3. QED
    BY <1>0, <2>1, <2>2, FetchesStay DEF Fetching
<1>4. CASE CompleteSync(s) \/ CommitFetchedSync(s) \/ RecordSyncFailure(s) \/ ReleaseSyncLease(s)
  <2>1. /\ faults' = faults /\ edits' = edits /\ sync' = Done(s)
        /\ source' = source \/ (source.owner = s /\ \E h \in Health : source' = Unleased(h))
    <3>1. faults' = faults /\ edits' = edits /\ sync' = Done(s)
      BY <1>4 DEF CompleteSync, CommitFetchedSync, RecordSyncFailure, ReleaseSyncLease
    <3>2. source' = source \/ (source.owner = s /\ \E h : source' = Unleased(h))
      BY <1>4 DEF CompleteSync, CommitFetchedSync, RecordSyncFailure, ReleaseSyncLease, Fenced
    <3>3. source' \in Source
      BY <1>4, SyncsKeepIInv DEF IInv, TypeOK, Syncs
    <3>4. QED
      BY <1>0, <3>1, <3>2, <3>3 DEF TypeOK, Source, Unleased
  <2>2. /\ \A t \in Sync : Fetching(t)' => t # s /\ sync'[t] = sync[t]
    BY <2>1 DEF Fetching, Done, Ended
  <2>3. source'.present = source.present
    BY <1>0, <2>1, UnleasedType DEF TypeOK
  <2>4. ASSUME NEW t \in Sync, Fetching(t)', source.owner = t, source.ttl > 0
        PROVE  source'.owner = t /\ source'.ttl > 0
    BY <2>1, <2>2, <2>4
  <2>5. QED
    BY <1>0, <2>1, <2>2, <2>3, <2>4, FetchesStay DEF Fetching
<1>5. QED
  BY <1>1, <1>2, <1>3, <1>4 DEF Syncs

LEMMA OthersKeepOneFetch ==
  ASSUME IInv, OneFetch,
         \/ \E u \in Url : ReadForUpdate(u) \/ Publish(u)
         \/ UpdateSource \/ DeleteSource \/ Tick \/ CrashApi \/ UNCHANGED vars
  PROVE  OneFetch'
<1>0. TypeOK /\ source \in Source
  BY DEF IInv, TypeOK
<1>1. CASE (\E u \in Url : ReadForUpdate(u) \/ Publish(u)) \/ UNCHANGED vars
  BY <1>0, <1>1, FetchesStay DEF ReadForUpdate, Publish, vars, Fetching
<1>2. CASE UpdateSource
  <2>1. /\ sync' = sync /\ faults' = faults
        /\ \/ edits' = edits + 1
           \/ edits' = edits /\ source' = [source EXCEPT !.health = edit.health]
    BY <1>2 DEF UpdateSource
  <2>2. QED
    BY <1>0, <2>1, FetchesStay DEF Fetching, Source
<1>3. CASE DeleteSource
  <2>1. sync' = sync /\ faults' = faults /\ edits' = edits
    BY <1>3 DEF DeleteSource
  <2>2. source'.present = FALSE
    BY <1>0, <1>3, UnleasedType DEF DeleteSource, Source, Unleased
  <2>3. QED
    BY <1>0, <2>1, <2>2, FetchesStay DEF Fetching
<1>4. CASE Tick
  <2>1. /\ sync' = sync /\ edits' = edits /\ source' = [source EXCEPT !.ttl = @ - 1]
        /\ source.ttl > 0 /\ faults \in Nat
    BY <1>0, <1>4, SourceAssumption DEF Tick, TypeOK
  <2>2. CASE source.ttl = 1 /\ \E s \in Sync : source.owner = s /\ Working(s)
    <3>1. faults' # 0
      BY <1>4, <2>1, <2>2 DEF Tick
    <3>2. QED
      BY <3>1 DEF OneFetch, FetchesDoNotOverlap
  <2>3. CASE ~(source.ttl = 1 /\ \E s \in Sync : source.owner = s /\ Working(s))
    <3>1. faults' = faults
      BY <1>4, <2>3 DEF Tick
    <3>2. /\ source'.present = source.present /\ source'.owner = source.owner
          /\ source'.ttl = source.ttl - 1 /\ source.ttl \in Nat
      BY <1>0, <2>1, SourceAssumption DEF Source
    <3>3. ASSUME NEW t \in Sync, Fetching(t), source.owner = t
          PROVE  source'.owner = t /\ source'.ttl > 0
      <4>1. source.ttl # 1
        BY <2>3, <3>3 DEF Working, Fetching
      <4>2. QED
        BY <2>1, <3>2, <3>3, <4>1
    <3>4. QED
      BY <1>0, <2>1, <3>1, <3>2, <3>3, FetchesStay DEF Fetching
  <2>4. QED
    BY <2>2, <2>3
<1>5. CASE CrashApi
  BY <1>0, <1>5 DEF CrashApi, OneFetch, FetchesDoNotOverlap, TypeOK
<1>6. QED
  BY <1>1, <1>2, <1>3, <1>4, <1>5

(* A second sync of the source, of the API or of a worker, finds the lease  *)
(* taken: while nothing crashes or stalls, two fetches overlap only across  *)
(* a change of the URL, which takes the lease from the first.               *)
THEOREM SourceFetchesDoNotOverlap == Spec => []FetchesDoNotOverlap
<1>1. Init => OneFetch
  BY DEF Init, OneFetch, FetchesDoNotOverlap, FetchIsLeased, Fetching
<1>2. IInv /\ OneFetch /\ [Next]_vars => OneFetch'
  BY SyncsKeepOneFetch, OthersKeepOneFetch DEF Next
<1>3. OneFetch => FetchesDoNotOverlap
  BY DEF OneFetch
<1>4. QED
  BY <1>1, <1>2, <1>3, Invariance, PTL DEF Spec

-----------------------------------------------------------------------------
(***************************************************************************)
(* Theorems about FeedFetcher, for any fetches, pages and limit of         *)
(* concurrent fetches.                                                     *)
(*                                                                         *)
(* The strengthening counts the running calls and says that the queue      *)
(* holds each waiting call once, and only while every slot is taken.       *)
(***************************************************************************)

Phase == {"new", "waiting", "resolving", "requesting", "done"}
CallState ==
  [pc : Phase, url : Page \cup {NoPage}, kept : Document \cup {NoDocument},
   visited : SUBSET Page, pinned : AddressClass, scope : {"public", "private"}]

FetcherTypes ==
  /\ active \in Nat
  /\ waiters \in Seq(Fetch)
  /\ call \in [Fetch -> CallState]
  /\ current \in [Page -> 1..MaxETag]

Running == {f \in Fetch : call[f].pc \in {"resolving", "requesting"}}
Waiting(f) == call[f].pc = "waiting"

SlotsAreCounted ==
  /\ IsFiniteSet(Running)
  /\ active = Cardinality(Running)
  /\ active <= MaxFetches

QueueIsOfWaiters ==
  /\ \A i, j \in 1..Len(waiters) : waiters[i] = waiters[j] => i = j
  /\ \A f \in Fetch : Waiting(f) <=> \E i \in 1..Len(waiters) : waiters[i] = f
  /\ waiters # <<>> => active = MaxFetches

Connected(c) ==
  /\ c.pc \in {"waiting", "resolving", "requesting"} => c.url \in Page
  /\ c.pc = "requesting" =>
       /\ c.pinned # "always_blocked"
       /\ c.pinned = "private" => c.scope = "private" /\ c.url \in PrivatePage

Core ==
  /\ FetcherTypes
  /\ SlotsAreCounted
  /\ QueueIsOfWaiters
  /\ \A f \in Fetch : Connected(call[f])

FetcherInv == Core /\ ReportsAreTrue

LEMMA CalledTypes ==
  /\ NotCalled \in CallState /\ NotCalled.pc = "new"
  /\ Called \in CallState /\ Called.pc = "done"
  /\ Connected(Called) /\ Connected(NotCalled)
<1>1. NotCalled \in CallState /\ NotCalled.pc = "new"
  BY DEF NotCalled, CallState, Phase, AddressClass
<1>2. Called = [NotCalled EXCEPT !.pc = "done"]
  BY DEF Called
<1>3. Called \in CallState /\ Called.pc = "done"
  BY <1>1, <1>2 DEF CallState, Phase
<1>4. QED
  BY <1>1, <1>3 DEF Connected

(* What a call becomes when it begins: running or waiting. *)
LEMMA BegunTypes ==
  ASSUME NEW pc \in {"resolving", "waiting"}, NEW url \in Page,
         NEW kept \in Document \cup {NoDocument}
  PROVE  LET begun == [NotCalled EXCEPT !.pc = pc, !.url = url, !.kept = kept, !.visited = {url}]
         IN  begun \in CallState /\ begun.pc = pc /\ Connected(begun)
<1>1. NotCalled \in CallState
  BY CalledTypes
<1>2. QED
  BY <1>1 DEF CallState, Phase, Connected

(* The calls that change are the one that ends and the one it wakes. *)
LEMMA EndsCalls ==
  ASSUME NEW f \in Fetch, NEW result, Core, f \in Running, Ends(f, result)
  PROVE  /\ call'[f] = Called /\ f \notin Ready
         /\ \A g \in Ready : call'[g] = [call[g] EXCEPT !.pc = "resolving"]
         /\ \A g \in Fetch : g # f /\ g \notin Ready => call'[g] = call[g]
         /\ call' \in [Fetch -> CallState]
<1>1. f \notin Ready
  BY DEF Ready, Running
<1>2. call' = [g \in Fetch |-> CASE g = f       -> Called
                                 [] g \in Ready -> [call[g] EXCEPT !.pc = "resolving"]
                                 [] OTHER       -> call[g]]
  BY DEF Ends
<1>3. /\ call'[f] = Called
      /\ \A g \in Ready : call'[g] = [call[g] EXCEPT !.pc = "resolving"]
      /\ \A g \in Fetch : g # f /\ g \notin Ready => call'[g] = call[g]
  <2>1. call'[f] = Called
    BY <1>1, <1>2
  <2>2. ASSUME NEW g \in Ready
        PROVE  call'[g] = [call[g] EXCEPT !.pc = "resolving"]
    BY <1>1, <1>2, <2>2 DEF Ready
  <2>3. ASSUME NEW g \in Fetch, g # f, g \notin Ready
        PROVE  call'[g] = call[g]
    BY <1>2, <2>3
  <2>4. QED
    BY <2>1, <2>2, <2>3
<1>4. call' \in [Fetch -> CallState]
  <2>1. ASSUME NEW g \in Fetch
        PROVE  call'[g] \in CallState
    <3>1. CASE g = f
      BY <3>1, <1>3, CalledTypes
    <3>2. CASE g \in Ready
      <4>1. call[g] \in CallState
        BY <3>2 DEF Core, FetcherTypes, Ready
      <4>2. [call[g] EXCEPT !.pc = "resolving"] \in CallState
        BY <4>1 DEF CallState, Phase
      <4>3. QED
        BY <3>2, <4>2, <1>3
    <3>3. CASE g # f /\ g \notin Ready
      BY <3>3, <1>3 DEF Core, FetcherTypes
    <3>4. QED
      BY <3>1, <3>2, <3>3
  <2>2. QED
    BY <1>2, <2>1
<1>5. QED
  BY <1>1, <1>3, <1>4

(* The slot of a call that ends is free, or is the first waiter's. *)
LEMMA EndsKeepsCore ==
  ASSUME NEW f \in Fetch, NEW result, Core, f \in Running, Ends(f, result), UNCHANGED current
  PROVE  Core'
<1> USE DEF Core
<1> DEFINE begun == {"resolving", "requesting"}
<1>1. /\ call'[f] = Called /\ f \notin Ready
      /\ \A g \in Ready : call'[g] = [call[g] EXCEPT !.pc = "resolving"]
      /\ \A g \in Fetch : g # f /\ g \notin Ready => call'[g] = call[g]
      /\ call' \in [Fetch -> CallState]
  BY EndsCalls
<1>2. call \in [Fetch -> CallState] /\ waiters \in Seq(Fetch) /\ MaxFetches \in Nat \ {0}
  BY FetcherAssumption DEF FetcherTypes
<1>3. IsFiniteSet(Running \ {f}) /\ Cardinality(Running \ {f}) = active - 1 /\ active - 1 \in Nat
  <2>1. IsFiniteSet(Running \ {f}) /\ Cardinality(Running \ {f}) = Cardinality(Running) - 1
    BY FS_RemoveElement DEF SlotsAreCounted
  <2>2. Cardinality(Running \ {f}) \in Nat
    BY <2>1, FS_CardinalityType
  <2>3. QED
    BY <2>1, <2>2 DEF SlotsAreCounted
<1>4. \A g \in Fetch : Connected(call'[g])
  <2>1. ASSUME NEW g \in Ready
        PROVE  Connected(call'[g])
    <3>1. \E i \in 1..Len(waiters) : waiters[i] = g
      BY DEF QueueIsOfWaiters, Waiting, Ready
    <3>2. call[g] \in CallState /\ call'[g].pc = "resolving" /\ call'[g].url = call[g].url
      BY <1>1, <1>2 DEF CallState, Ready
    <3>3. call[g].url \in Page
      BY DEF Connected, Ready
    <3>4. QED
      BY <3>2, <3>3 DEF Connected
  <2>2. QED
    BY <1>1, <2>1, CalledTypes
<1>5. CASE waiters = <<>>
  <2>1. Ready = {} /\ waiters' = <<>> /\ Cardinality(Ready) = 0
    BY <1>5, FS_EmptySet DEF Ready, Ends
  <2>2. Running' = Running \ {f}
    BY <1>1, <2>1, CalledTypes DEF Running
  <2>3. active' = active - 1
    BY <1>3, <2>1 DEF Ends, FetcherTypes
  <2>4. SlotsAreCounted'
    BY <1>2, <1>3, <2>2, <2>3 DEF SlotsAreCounted, FetcherTypes
  <2>5. FetcherTypes'
    BY <1>1, <1>3, <2>1, <2>3 DEF FetcherTypes
  <2>6. QueueIsOfWaiters'
    <3>1. \A g \in Fetch : call'[g].pc # "waiting"
      BY <1>1, <1>5, <2>1, CalledTypes DEF QueueIsOfWaiters, Waiting
    <3>2. QED
      BY <2>1, <3>1 DEF QueueIsOfWaiters, Waiting
  <2>7. QED
    BY <1>4, <2>4, <2>5, <2>6
<1>6. CASE waiters # <<>>
  <2> DEFINE h == Head(waiters)
  <2>1. /\ h \in Fetch /\ h = waiters[1] /\ Len(waiters) \in Nat \ {0}
        /\ Tail(waiters) \in Seq(Fetch) /\ Len(Tail(waiters)) = Len(waiters) - 1
        /\ \A i \in 1..Len(Tail(waiters)) : Tail(waiters)[i] = waiters[i + 1]
    BY <1>2, <1>6, HeadTailProperties, EmptySeq, LenProperties
  <2>2. call[h].pc = "waiting"
    BY <2>1 DEF QueueIsOfWaiters, Waiting
  <2>3. Ready = {h}
    BY <1>6, <2>1, <2>2 DEF Ready
  <2>4. Cardinality(Ready) = 1
    BY <2>3, FS_Singleton
  <2>5. active' = active /\ active = MaxFetches /\ active \in Nat
    BY <1>2, <1>6, <2>4 DEF Ends, QueueIsOfWaiters, FetcherTypes
  <2>6. waiters' = Tail(waiters)
    BY <1>6 DEF Ends
  <2>7. h # f /\ h \notin Running
    BY <2>2 DEF Running
  <2>8. call'[h].pc = "resolving"
    BY <1>1, <1>2, <2>1, <2>3 DEF CallState
  <2>9. Running' = (Running \ {f}) \cup {h}
    BY <1>1, <2>1, <2>3, <2>8, CalledTypes DEF Running
  <2>10. SlotsAreCounted'
    <3>1. IsFiniteSet(Running') /\ Cardinality(Running') = active - 1 + 1
      BY <1>3, <2>7, <2>9, FS_AddElement
    <3>2. QED
      BY <2>5, <3>1 DEF SlotsAreCounted
  <2>11. FetcherTypes'
    BY <1>1, <2>1, <2>5, <2>6 DEF FetcherTypes
  <2>12. QueueIsOfWaiters'
    <3> DEFINE w == Tail(waiters)
    <3>1. ASSUME NEW i \in 1..Len(w), NEW j \in 1..Len(w), w[i] = w[j]
          PROVE  i = j
      <4>1. i + 1 \in 1..Len(waiters) /\ j + 1 \in 1..Len(waiters)
            /\ waiters[i + 1] = waiters[j + 1]
        BY <2>1, <3>1
      <4>2. i + 1 = j + 1
        BY <4>1 DEF QueueIsOfWaiters
      <4>3. QED
        BY <4>2
    <3>2. ASSUME NEW g \in Fetch
          PROVE  call'[g].pc = "waiting" <=> \E i \in 1..Len(w) : w[i] = g
      <4>1. call'[g].pc = "waiting" <=> call[g].pc = "waiting" /\ g # h
        <5>1. CASE g = f
          BY <5>1, <1>1, CalledTypes DEF Running
        <5>2. CASE g = h
          BY <5>2, <2>8
        <5>3. CASE g # f /\ g # h
          BY <5>3, <1>1, <2>3
        <5>4. QED
          BY <5>1, <5>2, <5>3
      <4>2. ASSUME NEW i \in 1..Len(w), w[i] = g
            PROVE  call[g].pc = "waiting" /\ g # h
        <5>1. i + 1 \in 1..Len(waiters) /\ waiters[i + 1] = g /\ 1 \in 1..Len(waiters)
          BY <2>1, <4>2
        <5>2. call[g].pc = "waiting"
          BY <5>1 DEF QueueIsOfWaiters, Waiting
        <5>3. CASE g = h
          <6>1. i + 1 = 1
            BY <2>1, <5>1, <5>3 DEF QueueIsOfWaiters
          <6>2. QED
            BY <6>1
        <5>4. QED
          BY <5>2, <5>3
      <4>3. ASSUME call[g].pc = "waiting", g # h
            PROVE  \E i \in 1..Len(w) : w[i] = g
        <5>1. PICK k \in 1..Len(waiters) : waiters[k] = g
          BY <4>3 DEF QueueIsOfWaiters, Waiting
        <5>2. k # 1 /\ k - 1 \in 1..Len(w) /\ w[k - 1] = waiters[k - 1 + 1]
          BY <2>1, <4>3, <5>1
        <5>3. k - 1 + 1 = k
          OBVIOUS
        <5>4. QED
          BY <5>1, <5>2, <5>3
      <4>4. QED
        BY <4>1, <4>2, <4>3
    <3>3. QED
      BY <2>5, <2>6, <3>1, <3>2 DEF QueueIsOfWaiters, Waiting
  <2>13. QED
    BY <1>4, <2>10, <2>11, <2>12
<1>7. QED
  BY <1>5, <1>6
(* A call that does not run can be changed without moving a slot or the   *)
(* queue, and so can one that keeps running.                              *)
LEMMA OneCallChanges ==
  ASSUME NEW f \in Fetch, NEW c \in CallState, Core, Connected(c),
         call' = [call EXCEPT ![f] = c],
         c.pc \in {"resolving", "requesting"} <=> call[f].pc \in {"resolving", "requesting"},
         c.pc = "waiting" <=> call[f].pc = "waiting",
         UNCHANGED <<active, waiters, current>>
  PROVE  Core'
<1> USE DEF Core
<1>1. call \in [Fetch -> CallState] /\ call' \in [Fetch -> CallState]
  BY DEF FetcherTypes
<1>2. \A g \in Fetch : call'[g] = IF g = f THEN c ELSE call[g]
  BY <1>1
<1>3. FetcherTypes'
  BY <1>1 DEF FetcherTypes
<1>4. Running' = Running
  BY <1>2 DEF Running
<1>5. SlotsAreCounted'
  BY <1>4 DEF SlotsAreCounted
<1>6. \A g \in Fetch : call'[g].pc = "waiting" <=> call[g].pc = "waiting"
  BY <1>2
<1>7. QueueIsOfWaiters'
  BY <1>6 DEF QueueIsOfWaiters, Waiting
<1>8. \A g \in Fetch : Connected(call'[g])
  BY <1>2
<1>9. QED
  BY <1>3, <1>5, <1>7, <1>8

LEMMA CallKeepsCore ==
  ASSUME NEW f \in Fetch, NEW url \in Page, NEW kept \in Document \cup {NoDocument},
         Core, Call(f, url, kept)
  PROVE  Core'
<1> USE DEF Core
<1> DEFINE begun(pc) == [NotCalled EXCEPT !.pc = pc, !.url = url, !.kept = kept, !.visited = {url}]
<1>1. call \in [Fetch -> CallState] /\ waiters \in Seq(Fetch) /\ active \in Nat
      /\ MaxFetches \in Nat \ {0} /\ MaxQueued \in Nat
  BY FetcherAssumption DEF FetcherTypes
<1>2. call[f].pc = "new" /\ UNCHANGED current
  BY DEF Call
<1>3. CASE active < MaxFetches /\ active' = active + 1 /\ call' = [call EXCEPT ![f] = begun("resolving")]
           /\ UNCHANGED waiters
  <2> DEFINE c == begun("resolving")
  <2>1. c \in CallState /\ c.pc = "resolving" /\ Connected(c)
    BY BegunTypes
  <2> HIDE DEF c
  <2>2. /\ call' \in [Fetch -> CallState]
        /\ \A g \in Fetch : call'[g] = IF g = f THEN c ELSE call[g]
    BY <1>1, <1>3, <2>1 DEF c
  <2>3. Running' = Running \cup {f} /\ f \notin Running
    BY <1>2, <2>1, <2>2 DEF Running
  <2>4. IsFiniteSet(Running') /\ Cardinality(Running') = active + 1
    BY <2>3, FS_AddElement DEF SlotsAreCounted
  <2>5. SlotsAreCounted'
    BY <1>1, <1>3, <2>4 DEF SlotsAreCounted
  <2>6. FetcherTypes'
    BY <1>1, <1>2, <1>3, <2>2 DEF FetcherTypes
  <2>7. \A g \in Fetch : call'[g].pc = "waiting" <=> call[g].pc = "waiting"
    BY <1>2, <2>1, <2>2
  <2>8. waiters = <<>>
    BY <1>1, <1>3 DEF QueueIsOfWaiters
  <2>9. QueueIsOfWaiters'
    BY <1>3, <2>7, <2>8 DEF QueueIsOfWaiters, Waiting
  <2>10. \A g \in Fetch : Connected(call'[g])
    BY <2>1, <2>2
  <2>11. QED
    BY <2>5, <2>6, <2>9, <2>10
<1>4. CASE active >= MaxFetches /\ waiters' = Append(waiters, f) /\ call' = [call EXCEPT ![f] = begun("waiting")]
           /\ UNCHANGED active
  <2> DEFINE c == begun("waiting")
  <2>1. c \in CallState /\ c.pc = "waiting" /\ Connected(c)
    BY BegunTypes
  <2> HIDE DEF c
  <2>2. /\ call' \in [Fetch -> CallState]
        /\ \A g \in Fetch : call'[g] = IF g = f THEN c ELSE call[g]
    BY <1>1, <1>4, <2>1 DEF c
  <2>3. Running' = Running
    BY <1>2, <2>1, <2>2 DEF Running
  <2>4. SlotsAreCounted'
    BY <1>4, <2>3 DEF SlotsAreCounted
  <2>5. /\ waiters' \in Seq(Fetch) /\ Len(waiters') = Len(waiters) + 1 /\ Len(waiters) \in Nat
        /\ \A i \in 1..Len(waiters) : waiters'[i] = waiters[i]
        /\ waiters'[Len(waiters) + 1] = f
    BY <1>1, <1>4, AppendProperties, LenProperties
  <2>6. FetcherTypes'
    BY <1>1, <1>2, <1>4, <2>2, <2>5 DEF FetcherTypes
  <2>7. \A i \in 1..Len(waiters) : waiters[i] # f
    BY <1>2 DEF QueueIsOfWaiters, Waiting
  <2>8. active = MaxFetches
    BY <1>1, <1>4 DEF SlotsAreCounted
  <2>9. ASSUME NEW i \in 1..Len(waiters'), NEW j \in 1..Len(waiters'), waiters'[i] = waiters'[j]
        PROVE  i = j
    <3>1. CASE i \in 1..Len(waiters) /\ j \in 1..Len(waiters)
      BY <2>5, <2>9, <3>1 DEF QueueIsOfWaiters
    <3>2. CASE i = Len(waiters) + 1 \/ j = Len(waiters) + 1
      BY <2>5, <2>7, <2>9, <3>2
    <3>3. QED
      BY <2>5, <3>1, <3>2
  <2>10. ASSUME NEW g \in Fetch
         PROVE  call'[g].pc = "waiting" <=> \E i \in 1..Len(waiters') : waiters'[i] = g
    <3>1. CASE g = f
      BY <2>1, <2>2, <2>5, <3>1
    <3>2. CASE g # f
      <4>1. call'[g] = call[g]
        BY <2>2, <3>2
      <4>2. (\E i \in 1..Len(waiters') : waiters'[i] = g) <=> \E i \in 1..Len(waiters) : waiters[i] = g
        BY <2>5, <3>2
      <4>3. QED
        BY <4>1, <4>2 DEF QueueIsOfWaiters, Waiting
    <3>3. QED
      BY <3>1, <3>2
  <2>11. QueueIsOfWaiters'
    BY <1>4, <2>8, <2>9, <2>10 DEF QueueIsOfWaiters, Waiting
  <2>12. \A g \in Fetch : Connected(call'[g])
    BY <2>1, <2>2
  <2>13. QED
    BY <2>4, <2>6, <2>11, <2>12
<1>5. CASE call' = [call EXCEPT ![f] = Called] /\ UNCHANGED <<active, waiters>>
  BY <1>2, <1>5, CalledTypes, OneCallChanges
<1>6. QED
  BY <1>3, <1>4, <1>5 DEF Call

(* The queue without one of its members, the others in their order.       *)
LEMMA SplicedQueue ==
  ASSUME NEW f \in Fetch, Core, call[f].pc = "waiting"
  PROVE  /\ Spliced(f) \in Seq(Fetch)
         /\ \A i, j \in 1..Len(Spliced(f)) : Spliced(f)[i] = Spliced(f)[j] => i = j
         /\ \A g \in Fetch : (\E i \in 1..Len(Spliced(f)) : Spliced(f)[i] = g)
                               <=> (g # f /\ \E i \in 1..Len(waiters) : waiters[i] = g)
<1> DEFINE index == CHOOSE i \in 1..Len(waiters) : waiters[i] = f
           front == SubSeq(waiters, 1, index - 1)
           rest  == SubSeq(waiters, index + 1, Len(waiters))
<1>1. waiters \in Seq(Fetch) /\ Len(waiters) \in Nat /\ \A i \in 1..Len(waiters) : waiters[i] \in Fetch
  BY LenProperties, ElementOfSeq DEF Core, FetcherTypes
<1>2. index \in 1..Len(waiters) /\ waiters[index] = f
  <2>1. \E i \in 1..Len(waiters) : waiters[i] = f
    BY DEF Core, QueueIsOfWaiters, Waiting
  <2>2. QED
    BY <2>1
<1>3. Spliced(f) = front \o rest
  BY DEF Spliced
<1> HIDE DEF index
<1>4. /\ front \in Seq(Fetch) /\ Len(front) = index - 1
      /\ \A i \in 1..(index - 1) : front[i] = waiters[i]
  <2>1. /\ front \in Seq(Fetch) /\ Len(front) = IF 1 <= index - 1 THEN index - 1 - 1 + 1 ELSE 0
        /\ \A i \in 1..(index - 1 - 1 + 1) : front[i] = waiters[1 + i - 1]
    <3>1. 1 \in Int /\ index - 1 \in Int /\ \A i \in 1..(index - 1) : waiters[i] \in Fetch
      BY <1>1, <1>2
    <3>2. QED
      BY <3>1, SubSeqProperties
  <2>2. QED
    BY <1>1, <1>2, <2>1
<1>5. /\ rest \in Seq(Fetch) /\ Len(rest) = Len(waiters) - index
      /\ \A i \in 1..(Len(waiters) - index) : rest[i] = waiters[index + i]
  <2>1. /\ rest \in Seq(Fetch)
        /\ Len(rest) = IF index + 1 <= Len(waiters) THEN Len(waiters) - (index + 1) + 1 ELSE 0
        /\ \A i \in 1..(Len(waiters) - (index + 1) + 1) : rest[i] = waiters[index + 1 + i - 1]
    <3>1. index + 1 \in Int /\ Len(waiters) \in Int
          /\ \A i \in (index + 1)..Len(waiters) : waiters[i] \in Fetch
      BY <1>1, <1>2
    <3>2. QED
      BY <3>1, SubSeqProperties
  <2>2. QED
    BY <1>1, <1>2, <2>1
<1> HIDE DEF front, rest
<1> DEFINE s == front \o rest
           from(i) == IF i < index THEN i ELSE i + 1
<1>6. /\ s \in Seq(Fetch) /\ Len(s) = Len(waiters) - 1
      /\ \A i \in 1..Len(s) : s[i] = waiters[from(i)] /\ from(i) \in 1..Len(waiters) /\ from(i) # index
  <2>1. /\ s \in Seq(Fetch) /\ Len(s) = Len(front) + Len(rest)
        /\ \A i \in 1..(Len(front) + Len(rest)) : s[i] = IF i <= Len(front) THEN front[i] ELSE rest[i - Len(front)]
    BY <1>4, <1>5, ConcatProperties
  <2>2. Len(front) + Len(rest) = Len(waiters) - 1
    BY <1>1, <1>2, <1>4, <1>5
  <2>3. ASSUME NEW i \in 1..(Len(waiters) - 1)
        PROVE  s[i] = waiters[from(i)] /\ from(i) \in 1..Len(waiters) /\ from(i) # index
    <3>1. CASE i < index
      BY <1>1, <1>2, <1>4, <2>1, <2>2, <3>1
    <3>2. CASE ~(i < index)
      <4>1. s[i] = rest[i - Len(front)]
        BY <1>1, <1>2, <1>4, <2>1, <2>2, <3>2
      <4>2. i - Len(front) \in 1..(Len(waiters) - index) /\ index + (i - Len(front)) = i + 1
        BY <1>1, <1>2, <1>4, <3>2
      <4>3. rest[i - Len(front)] = waiters[i + 1]
        BY <1>5, <4>2
      <4>4. from(i) = i + 1 /\ i + 1 \in 1..Len(waiters) /\ i + 1 # index
        BY <1>1, <1>2, <3>2
      <4>5. QED
        BY <4>1, <4>3, <4>4
    <3>3. QED
      BY <3>1, <3>2
  <2>4. QED
    BY <2>1, <2>2, <2>3
<1> HIDE DEF s
<1>7. ASSUME NEW i \in 1..Len(s), NEW j \in 1..Len(s), s[i] = s[j]
      PROVE  i = j
  <2>1. from(i) = from(j)
    BY <1>6, <1>7 DEF Core, QueueIsOfWaiters
  <2>2. QED
    BY <1>1, <1>2, <1>6, <2>1
<1>8. ASSUME NEW g \in Fetch
      PROVE  (\E i \in 1..Len(s) : s[i] = g) <=> (g # f /\ \E i \in 1..Len(waiters) : waiters[i] = g)
  <2>1. ASSUME NEW i \in 1..Len(s), s[i] = g
        PROVE  g # f /\ \E j \in 1..Len(waiters) : waiters[j] = g
    <3>1. from(i) \in 1..Len(waiters) /\ waiters[from(i)] = g /\ from(i) # index
      BY <1>6, <2>1
    <3>2. g # f
      BY <1>2, <3>1 DEF Core, QueueIsOfWaiters
    <3>3. QED
      BY <3>1, <3>2
  <2>2. ASSUME g # f, NEW k \in 1..Len(waiters), waiters[k] = g
        PROVE  \E i \in 1..Len(s) : s[i] = g
    <3>1. k # index
      BY <1>2, <2>2
    <3>2. CASE k < index
      <4>1. k \in 1..Len(s) /\ s[k] = waiters[from(k)] /\ from(k) = k
        BY <1>1, <1>2, <1>6, <3>2
      <4>2. QED
        BY <4>1, <2>2
    <3>3. CASE k > index
      <4>1. k - 1 \in 1..Len(s) /\ ~(k - 1 < index) /\ k - 1 + 1 = k
        BY <1>1, <1>2, <1>6, <3>3
      <4>2. s[k - 1] = waiters[k]
        BY <1>6, <4>1
      <4>3. QED
        BY <4>1, <4>2, <2>2
    <3>4. QED
      BY <1>1, <1>2, <3>1, <3>2, <3>3
  <2>3. QED
    BY <2>1, <2>2
<1>9. QED
  <2>1. Spliced(f) = s
    BY <1>3 DEF s
  <2>2. QED
    BY <2>1, <1>6, <1>7, <1>8

LEMMA WaitEndsKeepsCore ==
  ASSUME NEW f \in Fetch, NEW why, Core, WaitEnds(f, why)
  PROVE  Core'
<1> USE DEF Core
<1>1. call[f].pc = "waiting" /\ waiters' = Spliced(f) /\ call' = [call EXCEPT ![f] = Called]
      /\ UNCHANGED <<active, current>>
  BY DEF WaitEnds
<1>2. /\ call' \in [Fetch -> CallState]
      /\ \A g \in Fetch : call'[g] = IF g = f THEN Called ELSE call[g]
  BY <1>1, CalledTypes DEF FetcherTypes
<1>3. /\ waiters' \in Seq(Fetch)
      /\ \A i, j \in 1..Len(waiters') : waiters'[i] = waiters'[j] => i = j
      /\ \A g \in Fetch : (\E i \in 1..Len(waiters') : waiters'[i] = g)
                            <=> (g # f /\ \E i \in 1..Len(waiters) : waiters[i] = g)
  <2> HIDE DEF Core
  <2>1. /\ Spliced(f) \in Seq(Fetch)
        /\ \A i, j \in 1..Len(Spliced(f)) : Spliced(f)[i] = Spliced(f)[j] => i = j
        /\ \A g \in Fetch : (\E i \in 1..Len(Spliced(f)) : Spliced(f)[i] = g)
                              <=> (g # f /\ \E i \in 1..Len(waiters) : waiters[i] = g)
    BY <1>1, SplicedQueue
  <2>2. waiters' = Spliced(f)
    BY <1>1
  <2>3. QED
    BY <2>1, <2>2, Zenon
<1>4. Running' = Running
  BY <1>1, <1>2, CalledTypes DEF Running
<1>5. SlotsAreCounted'
  BY <1>1, <1>4 DEF SlotsAreCounted
<1>6. FetcherTypes'
  BY <1>1, <1>2, <1>3 DEF FetcherTypes
<1>7. waiters # <<>> /\ active = MaxFetches
  <2>1. \E i \in 1..Len(waiters) : waiters[i] = f
    BY <1>1 DEF QueueIsOfWaiters, Waiting
  <2>2. waiters # <<>>
    BY <2>1
  <2>3. QED
    BY <2>2 DEF QueueIsOfWaiters
<1>8. \A g \in Fetch : call'[g].pc = "waiting" <=> (g # f /\ call[g].pc = "waiting")
  BY <1>2, CalledTypes
<1>9. QueueIsOfWaiters'
  BY <1>1, <1>3, <1>7, <1>8 DEF QueueIsOfWaiters, Waiting
<1>10. \A g \in Fetch : Connected(call'[g])
  BY <1>2, CalledTypes
<1>11. QED
  BY <1>5, <1>6, <1>9, <1>10
(* What the end of a fetch reports *)
LEMMA FailuresAreTrue ==
  ASSUME NEW why, why \notin {"ok", "not_modified"}, report' = Failure(why)
  PROVE  ReportsAreTrue'
BY DEF ReportsAreTrue, Failure

LEMMA AnswersAreTrue ==
  ASSUME NEW f \in Fetch, Core, call[f].pc = "requesting",
         report' = Result(f, IF Sent(f).etag = current[call[f].url] THEN "not_modified" ELSE "ok")
  PROVE  ReportsAreTrue'
<1> DEFINE url == call[f].url
<1>1. /\ call[f] \in CallState /\ url \in Page /\ call[f].kept \in Document \cup {NoDocument}
      /\ call[f].pinned # "always_blocked"
      /\ call[f].pinned = "private" => call[f].scope = "private" /\ url \in PrivatePage
  BY DEF Core, FetcherTypes, Connected, CallState
<1>2. current[url] \in 1..MaxETag /\ MaxETag \in Nat
  BY <1>1, FetcherAssumption DEF Core, FetcherTypes
<1>3. ASSUME Sent(f).etag = current[url]
      PROVE  [page |-> url, etag |-> current[url]] = call[f].kept
  <2>1. NoDocument.etag = 0
    BY DEF NoDocument
  <2>2. Sent(f) = call[f].kept /\ call[f].kept.page = url
    BY <1>2, <1>3, <2>1 DEF Sent
  <2>3. call[f].kept # NoDocument
    BY <1>2, <1>3, <2>1, <2>2
  <2>4. call[f].kept \in Document
    BY <1>1, <2>3
  <2>5. QED
    BY <1>3, <2>2, <2>4 DEF Document
<1> HIDE DEF url
<1> DEFINE status == IF Sent(f).etag = current[url] THEN "not_modified" ELSE "ok"
<1>4. /\ report'.status = status /\ report'.document = [page |-> url, etag |-> current[url]]
      /\ report'.kept = call[f].kept /\ report'.pinned = call[f].pinned /\ report'.scope = call[f].scope
  BY DEF Result, url
<1>5. report'.document.page = url
  BY <1>4
<1>6. report'.status = "not_modified" => report'.document = report'.kept
  BY <1>3, <1>4
<1>7. QED
  BY <1>1, <1>4, <1>5, <1>6 DEF ReportsAreTrue

-----------------------------------------------------------------------------
(* Steps *)

LEMMA ResolveKeepsInv ==
  ASSUME NEW f \in Fetch, NEW classes \in SUBSET AddressClass, NEW pinned \in AddressClass,
         FetcherInv, Resolve(f, classes, pinned)
  PROVE  FetcherInv'
<1> USE DEF FetcherInv
<1>1. CASE Permitted(call[f].url, classes)
  <2> DEFINE c == [call[f] EXCEPT !.pc = "requesting", !.pinned = pinned, !.scope = ScopeOf(f, classes)]
  <2>1. call[f] \in CallState /\ call[f].pc = "resolving" /\ call[f].url \in Page
        /\ ScopeOf(f, classes) \in {"public", "private"}
    BY DEF Core, FetcherTypes, Connected, Resolve, ScopeOf
  <2>2. c \in CallState /\ c.pc = "requesting" /\ c.pinned = pinned /\ c.scope = ScopeOf(f, classes)
        /\ c.url = call[f].url
    BY <2>1 DEF CallState, Phase
  <2>3. call' = [call EXCEPT ![f] = c] /\ UNCHANGED <<active, waiters, current, report>>
    BY <1>1 DEF Resolve
  <2> HIDE DEF c
  <2>4. pinned # "always_blocked" /\ (pinned = "private" => ScopeOf(f, classes) = "private" /\ call[f].url \in PrivatePage)
    BY <1>1 DEF Resolve, Permitted, ScopeOf
  <2>5. Connected(c)
    BY <2>1, <2>2, <2>4 DEF Connected
  <2>6. Core'
    BY <2>1, <2>2, <2>3, <2>5, OneCallChanges
  <2>7. QED
    BY <2>3, <2>6 DEF ReportsAreTrue
<1>2. CASE ~Permitted(call[f].url, classes)
  <2>1. f \in Running /\ Ends(f, Failure("FEED_DESTINATION_BLOCKED")) /\ UNCHANGED current
    BY <1>2 DEF Resolve, Running
  <2>2. report' = Failure("FEED_DESTINATION_BLOCKED")
    BY <2>1 DEF Ends
  <2>3. QED
    BY <2>1, <2>2, EndsKeepsCore, FailuresAreTrue
<1>3. QED
  BY <1>1, <1>2

LEMMA RedirectsKeepsInv ==
  ASSUME NEW f \in Fetch, NEW target \in Page, FetcherInv, Redirects(f, target)
  PROVE  FetcherInv'
<1> USE DEF FetcherInv
<1> DEFINE follows == Cardinality(call[f].visited) <= MaxRedirects /\ target \notin call[f].visited
<1>1. CASE follows
  <2> DEFINE c == [call[f] EXCEPT !.pc = "resolving", !.url = target, !.visited = @ \cup {target}]
  <2>1. call[f] \in CallState /\ call[f].pc = "requesting"
    BY DEF Core, FetcherTypes, Redirects
  <2>2. c \in CallState /\ c.pc = "resolving" /\ c.url = target
    BY <2>1 DEF CallState, Phase
  <2>3. call' = [call EXCEPT ![f] = c] /\ UNCHANGED <<active, waiters, current, report>>
    BY <1>1 DEF Redirects
  <2> HIDE DEF c
  <2>4. Connected(c)
    BY <2>2 DEF Connected
  <2>5. Core'
    BY <2>1, <2>2, <2>3, <2>4, OneCallChanges
  <2>6. QED
    BY <2>3, <2>5 DEF ReportsAreTrue
<1>2. CASE ~follows
  <2>1. f \in Running /\ Ends(f, Failure("FEED_REDIRECT_LIMIT")) /\ UNCHANGED current
    BY <1>2 DEF Redirects, Running
  <2>2. report' = Failure("FEED_REDIRECT_LIMIT")
    BY <2>1 DEF Ends
  <2>3. QED
    BY <2>1, <2>2, EndsKeepsCore, FailuresAreTrue
<1>3. QED
  BY <1>1, <1>2

LEMMA FetchStepKeepsInv ==
  ASSUME NEW f \in Fetch, FetcherInv, FetchStep(f)
  PROVE  FetcherInv'
<1> USE DEF FetcherInv
<1>1. ASSUME NEW url \in Page, NEW kept \in Document \cup {NoDocument}, Call(f, url, kept)
      PROVE  FetcherInv'
  <2>1. Core'
    BY <1>1, CallKeepsCore
  <2>2. report' = report \/ report' = Failure("FEED_CONCURRENCY_LIMIT")
    BY <1>1 DEF Call
  <2>3. ReportsAreTrue'
    <3>1. CASE report' = report
      BY <3>1 DEF ReportsAreTrue
    <3>2. CASE report' = Failure("FEED_CONCURRENCY_LIMIT")
      BY <3>2, FailuresAreTrue
    <3>3. QED
      BY <2>2, <3>1, <3>2
  <2>4. QED
    BY <2>1, <2>3
<1>2. ASSUME NEW why \in {"INVALID_FEED_URL", "FEED_DNS_FAILED", "failed", "FEED_TIMEOUT", "AbortError"},
             f \in Running, Ends(f, Failure(why)), UNCHANGED current
      PROVE  FetcherInv'
  <2>1. Core'
    BY <1>2, EndsKeepsCore
  <2>2. report' = Failure(why) /\ why \notin {"ok", "not_modified"}
    BY <1>2 DEF Ends
  <2>3. QED
    BY <2>1, <2>2, FailuresAreTrue
<1>3. CASE ResolveFails(f)
  <2>1. f \in Running /\ UNCHANGED current
    BY <1>3 DEF ResolveFails, Running
  <2>2. PICK why \in {"INVALID_FEED_URL", "FEED_DNS_FAILED"} : Ends(f, Failure(why))
    BY <1>3 DEF ResolveFails
  <2>3. QED
    BY <1>2, <2>1, <2>2
<1>4. CASE RequestFails(f)
  <2>1. f \in Running /\ UNCHANGED current /\ Ends(f, Failure("failed"))
    BY <1>4 DEF RequestFails, Running
  <2>2. QED
    BY <1>2, <2>1
<1>5. ASSUME NEW why \in {"FEED_TIMEOUT", "AbortError"}, Interrupted(f, why)
      PROVE  FetcherInv'
  <2>1. f \in Running /\ UNCHANGED current /\ Ends(f, Failure(why))
    BY <1>5 DEF Interrupted, Running
  <2>2. QED
    BY <1>2, <2>1
<1>6. ASSUME NEW why \in {"FEED_TIMEOUT", "AbortError"}, WaitEnds(f, why)
      PROVE  FetcherInv'
  <2>1. report' = Failure(why)
    BY <1>6 DEF WaitEnds
  <2>2. QED
    BY <1>6, <2>1, WaitEndsKeepsCore, FailuresAreTrue
<1>7. CASE Answers(f)
  <2> DEFINE result == Result(f, IF Sent(f).etag = current[call[f].url] THEN "not_modified" ELSE "ok")
  <2>1. call[f].pc = "requesting" /\ f \in Running /\ UNCHANGED current /\ Ends(f, result)
    BY <1>7 DEF Answers, Running
  <2>2. report' = result
    BY <2>1 DEF Ends
  <2>3. QED
    BY <2>1, <2>2, EndsKeepsCore, AnswersAreTrue
<1>8. QED
  BY <1>1, <1>3, <1>4, <1>5, <1>6, <1>7, ResolveKeepsInv, RedirectsKeepsInv DEF FetchStep

LEMMA PageChangesKeepsInv ==
  ASSUME NEW p \in Page, FetcherInv, PageChanges(p)
  PROVE  FetcherInv'
<1> USE DEF FetcherInv, Core
<1>1. current[p] + 1 \in 1..MaxETag
  BY FetcherAssumption DEF PageChanges, FetcherTypes
<1>2. FetcherTypes'
  BY <1>1 DEF PageChanges, FetcherTypes
<1>3. Running' = Running
  BY DEF PageChanges, Running
<1>4. SlotsAreCounted' /\ QueueIsOfWaiters'
  BY <1>3 DEF PageChanges, SlotsAreCounted, QueueIsOfWaiters, Waiting
<1>5. QED
  BY <1>2, <1>4 DEF PageChanges, ReportsAreTrue

LEMMA InitFetcherInv == FetcherInit => FetcherInv
<1> SUFFICES ASSUME FetcherInit PROVE FetcherInv
  OBVIOUS
<1>1. \A f \in Fetch : call[f] = NotCalled
  BY DEF FetcherInit
<1>2. FetcherTypes
  BY CalledTypes, EmptySeq, FetcherAssumption DEF FetcherInit, FetcherTypes
<1>3. Running = {}
  BY <1>1, CalledTypes DEF Running
<1>4. SlotsAreCounted
  BY <1>3, FS_EmptySet, FetcherAssumption DEF FetcherInit, SlotsAreCounted
<1>5. QueueIsOfWaiters
  BY <1>1, CalledTypes DEF FetcherInit, QueueIsOfWaiters, Waiting
<1>6. ReportsAreTrue
  BY DEF FetcherInit, ReportsAreTrue, Failure
<1>7. QED
  BY <1>1, <1>2, <1>4, <1>5, <1>6, CalledTypes DEF FetcherInv, Core

LEMMA FetcherInvariant == FetcherSpec => []FetcherInv
<1>1. FetcherInv /\ [FetcherNext]_fetcherVars => FetcherInv'
  <2> SUFFICES ASSUME FetcherInv, [FetcherNext]_fetcherVars PROVE FetcherInv'
    OBVIOUS
  <2>1. CASE FetcherNext
    BY <2>1, FetchStepKeepsInv, PageChangesKeepsInv DEF FetcherNext
  <2>2. CASE UNCHANGED fetcherVars
    BY <2>2 DEF fetcherVars, FetcherInv, Core, FetcherTypes, SlotsAreCounted, QueueIsOfWaiters,
                Waiting, Running, ReportsAreTrue
  <2>3. QED
    BY <2>1, <2>2
<1>2. QED
  BY InitFetcherInv, <1>1, PTL DEF FetcherSpec

-----------------------------------------------------------------------------
(* A queue without duplicates is as long as its set of members is large. *)
LEMMA QueueCounts ==
  ASSUME NEW S, NEW q \in Seq(S), \A i, j \in 1..Len(q) : q[i] = q[j] => i = j
  PROVE  Len(q) = Cardinality({q[i] : i \in 1..Len(q)})
<1> DEFINE members == {q[i] : i \in 1..Len(q)}
<1>1. Len(q) \in Nat /\ q \in [1..Len(q) -> members]
  BY LenProperties
<1>2. q \in Bijection(1..Len(q), members)
  <2>1. q \in Injection(1..Len(q), members)
    BY <1>1 DEF Injection, IsInjective
  <2>2. q \in Surjection(1..Len(q), members)
    BY <1>1 DEF Surjection
  <2>3. QED
    BY <2>1, <2>2 DEF Bijection
<1>3. ExistsBijection(1..Len(q), members)
  BY <1>2 DEF ExistsBijection
<1>4. QED
  BY <1>1, <1>3, FS_CountingElements

(* For any instance: the slots of acquireFetchSlot and releaseFetchSlot are *)
(* held by the running calls and by no other, and a call that waits is in   *)
(* the queue, whatever order calls end, wait, give up and are stopped in.   *)
THEOREM FetcherSlots == FetcherSpec => []SlotsAreAccounted
<1>1. FetcherInv => SlotsAreAccounted
  <2> SUFFICES ASSUME FetcherInv PROVE SlotsAreAccounted
    OBVIOUS
  <2> USE DEF FetcherInv, Core
  <2> DEFINE waiting == {f \in Fetch : call[f].pc = "waiting"}
             members == {waiters[i] : i \in 1..Len(waiters)}
  <2>1. members = waiting
    <3>1. \A i \in 1..Len(waiters) : waiters[i] \in Fetch
      BY ElementOfSeq DEF FetcherTypes
    <3>2. QED
      BY <3>1 DEF QueueIsOfWaiters, Waiting
  <2>2. Len(waiters) = Cardinality(members)
    BY QueueCounts DEF FetcherTypes, QueueIsOfWaiters
  <2>3. waiting # {} => active = MaxFetches
    BY DEF QueueIsOfWaiters, Waiting
  <2>4. active = Cardinality({f \in Fetch : call[f].pc \in {"resolving", "requesting"}}) /\ active <= MaxFetches
    BY DEF SlotsAreCounted, Running
  <2>5. QED
    BY <2>1, <2>2, <2>3, <2>4 DEF SlotsAreAccounted
<1>2. QED
  BY FetcherInvariant, <1>1, PTL

(* For any instance, through any redirects and resolutions: "not modified"  *)
(* is said of the document that was kept only, no blocked address supplies  *)
(* a document, and a private one does so from an allow-listed host, under   *)
(* the label that keeps it from OpenAI.                                     *)
THEOREM FetcherReports == FetcherSpec => []ReportsAreTrue
<1>1. FetcherInv => ReportsAreTrue
  BY DEF FetcherInv
<1>2. QED
  BY FetcherInvariant, <1>1, PTL

=============================================================================
