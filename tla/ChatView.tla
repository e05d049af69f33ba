------------------------------ MODULE ChatView ------------------------------
(***************************************************************************)
(* The chat panel of an episode in the browser                             *)
(* (src/features/briefings/EpisodeChat.tsx) against the chat API           *)
(* (server/routes/chat.ts): several tabs of one browser, which share one   *)
(* pending-action record in local storage, another device, and a network   *)
(* that loses requests and answers.                                        *)
(*                                                                         *)
(* A handler runs from an event or an await to the next one in one step.   *)
(* A read of the history is answered when it is started and delivered at   *)
(* any time later; the code's counter latestHistoryCheckId, by which only  *)
(* the read started last takes effect, is the single field `read' of a     *)
(* tab.  The reconciliation window only ends polling and rewords messages: *)
(* a read may start at any time, so it is left out.  A record is told from *)
(* another of the same key by the tab that made it.                        *)
(***************************************************************************)
EXTENDS Naturals, FiniteSets

CONSTANTS
  Tab,
  Key, NoKey,  \* idempotency keys; each is used for one action
  MaxTurns, MaxMounts, MaxFaults  \* bounds

ASSUME ViewAssumption == NoKey \notin Key /\ {MaxTurns, MaxMounts, MaxFaults} \subseteq Nat

VARIABLES
  turns,    \* the history of the episode in the database
  request,  \* what became of the request of each key
  storage,  \* the shared record, or None, or Invalid
  tab,      \* the panel in each tab
  mounts, faults

vars == <<turns, request, storage, tab, mounts, faults>>

-----------------------------------------------------------------------------
(* Data *)

(* A turn is known by the key of its submission.  It is asked, may fail     *)
(* retryably, may be retried once, and is done.                             *)
Stage == {"asked", "failed", "retried", "done"}
Rank(stage) == CASE stage = "asked" -> 0 [] stage = "failed" -> 1
                 [] stage = "retried" -> 2 [] stage = "done" -> 3
Turn == [stage : Stage, retry : Key \cup {NoKey}]
History == UNION {[D -> Turn] : D \in SUBSET Key}
NoTurns == [id \in {} |-> 0]
WithTurn(history, id, turn) == [i \in DOMAIN history \cup {id} |-> IF i = id THEN turn ELSE history[i]]

(* turn is the retried turn, or NoKey for a submission.                     *)
Record == [key : Key, turn : Key \cup {NoKey}, owner : Tab]
None == [key |-> NoKey]
Invalid == [key |-> NoKey, damaged |-> TRUE]

NoAction == [http |-> "none"]
Action == [rec : Record, http : {"sent", "rejected", "unknown", "settled"}, turn : Key \cup {NoKey}]

(* The uncertainty a message states: about the action of a key, or about    *)
(* the coordination between tabs.  A message of a certain rejection shows   *)
(* wording only and replaces what was shown, so it is NoError.              *)
NoError == NoKey
Coordination == "coordination"
Error == Key \cup {Coordination, NoError}

NoRead == [by |-> "nobody"]
Read == [by : {"query", "check", "mutation"}, got : History]

Unmounted == [mounted |-> FALSE]
Mounted ==
  [mounted : {TRUE}, shown : History, loaded : BOOLEAN, action : {NoAction} \cup Action,
   unresolved : BOOLEAN, localError : Error, retainedError : Error,
   invalid : BOOLEAN, read : {NoRead} \cup Read, event : BOOLEAN]

Request == [status : {"unused", "sent", "accepted", "rejected", "lost"},
            turn : Key \cup {NoKey}]
Unused == [status |-> "unused", turn |-> NoKey]

TypeOK ==
  /\ turns \in History
  /\ \A k \in Key : request[k] \in Request
  /\ storage \in Record \cup {None, Invalid}
  /\ \A t \in Tab : tab[t] = Unmounted \/ tab[t] \in Mounted
  /\ mounts \in 0..MaxMounts
  /\ faults \in 0..MaxFaults

Init ==
  /\ turns = NoTurns
  /\ request = [k \in Key |-> Unused]
  /\ storage = None
  /\ tab = [t \in Tab |-> Unmounted]
  /\ mounts = 0
  /\ faults = 0

IsActive(turn) == turn.stage \in {"asked", "retried"}
ActiveIn(history) == {i \in DOMAIN history : IsActive(history[i])}
HasActive(history) == ActiveIn(history) # {}
TheActive(history) == CHOOSE i \in ActiveIn(history) : TRUE
  \* at most one in a read; the code takes the first

(* acceptedSubmission, acceptedRetry: the turn that proves the action of    *)
(* the record was accepted, or NoKey.                                       *)
Proves(history, id, rec) ==
  IF rec.turn = NoKey THEN id = rec.key ELSE history[id].retry = rec.key
AcceptedIn(history, rec) ==
  LET id == IF rec.turn = NoKey THEN rec.key ELSE rec.turn
  IN  IF id \in DOMAIN history /\ Proves(history, id, rec) THEN id ELSE NoKey

-----------------------------------------------------------------------------
(* The panel's functions, on s = [me, storage]: the tab's own state and the *)
(* shared record.                                                           *)

Known(s) == s.me.action # NoAction
Settled(me) == [me EXCEPT !.action.http = "settled"]
ClearedOf(me, key) ==
  [me EXCEPT !.localError = IF @ = key THEN NoError ELSE @,
             !.retainedError = IF @ = key THEN NoError ELSE @]

Showing(me, error, keepRetained) ==
  [me EXCEPT !.localError = error, !.retainedError = IF keepRetained THEN @ ELSE error]

(* installSharedAction: known is the turn known to be accepted, or NoKey.       *)
Installed(s, rec, known, keepRetained) ==
  IF Known(s) /\ s.me.action.rec = rec
  THEN [s EXCEPT !.me.action.turn = IF known # NoKey THEN known ELSE @]
  ELSE LET me == [s.me EXCEPT !.action = [rec |-> rec, http |-> "settled", turn |-> known],
                              !.read = NoRead, !.unresolved = (known = NoKey)]
       IN  [s EXCEPT !.me = IF known # NoKey THEN me ELSE Showing(me, rec.key, keepRetained)]

(* installInvalidStorageBlock *)
Blocked(s, keepRetained) ==
  [s EXCEPT !.me = Showing([@ EXCEPT !.invalid = TRUE, !.unresolved = TRUE],
                           Coordination, keepRetained)]

(* removePendingAction compares the whole record. *)
AnyRecordRemoved(stored, rec) == None  \* mutant: without comparing
RecordRemoved(stored, rec) == IF stored = rec THEN None ELSE stored

(* finishCurrentAction *)
Finished(s) ==
  LET rec == s.me.action.rec
      after == [me |-> [s.me EXCEPT !.action = NoAction, !.read = NoRead, !.unresolved = FALSE],
                storage |-> RecordRemoved(s.storage, rec)]
  IN  CASE after.storage \in Record -> Installed(after, after.storage, NoKey, TRUE)
        [] after.storage = Invalid -> Blocked(after, TRUE)
        [] OTHER -> after

(* applyAcceptedAction *)
Applied(s, history, i) ==
  LET key == s.me.action.rec.key
      known == s.me.action.turn = i /\ IsActive(history[i])
      me == [ClearedOf(Settled(s.me), key) EXCEPT !.action.turn = i,
                                                   !.read = IF known THEN @ ELSE NoRead]
  IN  IF IsActive(history[i]) THEN [s EXCEPT !.me = [me EXCEPT !.unresolved = FALSE]]
                              ELSE Finished([s EXCEPT !.me = me])

(* Mutant: the key of a retry, whether there was one or not.                *)
RecordOfRetry(t, history, i) == [key |-> history[i].retry, turn |-> i, owner |-> t]

(* createAuthoritativeRecord *)
RecordOf(t, history, i) ==
  IF history[i].retry # NoKey THEN [key |-> history[i].retry, turn |-> i, owner |-> t]
                              ELSE [key |-> i, turn |-> NoKey, owner |-> t]

(* adoptAuthoritativeTurn, in place of the rejected action's record.        *)
Adopted(t, s, history, i) ==
  LET rec == RecordOf(t, history, i)
  IN  CASE s.storage \in {None, s.me.action.rec} ->
             Installed([s EXCEPT !.storage = rec], rec, i, TRUE)
        [] s.storage \in Record \ {s.me.action.rec} ->
             Installed(s, s.storage, IF s.storage = rec THEN i ELSE NoKey, TRUE)
        [] OTHER -> [s EXCEPT !.me.unresolved = TRUE]

(* rejectAction *)
Rejected(t, s, history) ==
  LET shown == [s EXCEPT !.me = Showing(@, NoError, FALSE)]
  IN  IF HasActive(history) THEN Adopted(t, shown, history, TheActive(history))
                            ELSE Finished(shown)

(* The active turn proves that another action was accepted instead.         *)
Competes(rec, history) ==
  /\ HasActive(history)
  /\ LET i == TheActive(history)
     IN  rec.turn # NoKey /\ rec.turn = i => history[i].retry # NoKey

(* reconcilePendingHistory: whether it decided, and the state it leaves.    *)
Decides(s, history) ==
  /\ Known(s) /\ s.me.action.http = "settled"
  /\ AcceptedIn(history, s.me.action.rec) # NoKey \/ Competes(s.me.action.rec, history)

Reconciled(t, s, history) ==
  IF ~Decides(s, history) THEN s
  ELSE LET i == AcceptedIn(history, s.me.action.rec)
       IN  IF i # NoKey THEN Applied(s, history, i) ELSE Rejected(t, s, history)

(* recoverFromInvalidStorageComparison *)
Recovered(t, s, history) ==
  LET stored == IF s.storage = None /\ HasActive(history)
                THEN RecordOf(t, history, TheActive(history)) ELSE s.storage
      clear == [me |-> [ClearedOf(s.me, Coordination) EXCEPT !.invalid = FALSE], storage |-> stored]
  IN  CASE stored \in Record -> Installed(clear, stored, AcceptedIn(history, stored), TRUE)
        [] stored = Invalid -> Blocked(s, TRUE)
        [] OTHER -> [clear EXCEPT !.me.unresolved = FALSE]

(* fetchAndReconcile replaces an unreadable record by what the history says.*)
Repaired(t, s, history) ==
  CASE ~s.me.invalid -> s
    [] s.me.invalid /\ s.storage # Invalid -> Recovered(t, s, history)
    [] OTHER -> Recovered(t, [s EXCEPT !.storage = None], history)

-----------------------------------------------------------------------------
(* Steps of a tab *)

Here(t) == [me |-> tab[t], storage |-> storage]

(* The new state of a tab and of the storage; a change of the storage is an *)
(* event in the other mounted tabs.                                         *)
Becomes(t, s) ==
  /\ storage' = s.storage
  /\ tab' = [u \in Tab |->
               CASE u = t -> s.me
                 [] u # t /\ tab[u].mounted /\ s.storage # storage -> [tab[u] EXCEPT !.event = TRUE]
                 [] OTHER -> tab[u]]

Reading(me, by) == [me EXCEPT !.read = [by |-> by, got |-> turns]]

Visible(me) == IF me.localError # NoError THEN me.localError ELSE me.retainedError
InteractionBlocked(me) ==
  \/ ~me.loaded \/ HasActive(me.shown) \/ me.unresolved
  \/ me.action.http \in {"sent", "rejected", "unknown"}
  \/ Visible(me) # NoError

Fresh ==
  [mounted |-> TRUE, shown |-> NoTurns, loaded |-> FALSE, action |-> NoAction, unresolved |-> FALSE,
   localError |-> NoError, retainedError |-> NoError, invalid |-> FALSE, read |-> NoRead,
   event |-> FALSE]

(* loaded: the query neither loads nor has failed (isLoading, isError).    *)
(* The panel's query starts; a stored record is installed and checked, and *)
(* the check supersedes the query.                                          *)
Mount(t) ==
  /\ ~tab[t].mounted
  /\ mounts < MaxMounts /\ mounts' = mounts + 1
  /\ LET s == [me |-> Reading(Fresh, "query"), storage |-> storage]
     IN  Becomes(t, CASE storage \in Record ->
                           LET installed == Installed(s, storage, NoKey, FALSE)
                           IN  [installed EXCEPT !.me = Reading(@, "check")]
                      [] storage = Invalid -> Blocked(s, FALSE)
                      [] OTHER -> s)
  /\ UNCHANGED <<turns, request, faults>>

(* Leaving the page aborts the requests under way and keeps the record.     *)
Unmount(t) ==
  /\ tab[t].mounted
  /\ Becomes(t, [me |-> Unmounted, storage |-> storage])
  /\ UNCHANGED <<turns, request, mounts, faults>>

StartRead(t, by) ==
  /\ tab[t].mounted
  /\ by = "check" => Visible(tab[t]) # NoError /\ (tab[t].action # NoAction \/ tab[t].invalid)
  /\ Becomes(t, [Here(t) EXCEPT !.me = Reading(@, by)])
  /\ UNCHANGED <<turns, request, mounts, faults>>

QueryDelivered(t) ==
  /\ tab[t].mounted /\ tab[t].read.by = "query"
  /\ Becomes(t, [Here(t) EXCEPT !.me.shown = tab[t].read.got, !.me.loaded = TRUE, !.me.read = NoRead])
  /\ UNCHANGED <<turns, request, mounts, faults>>

(* A superseded query resolves to the history as it is, empty at first; it  *)
(* matters while none has succeeded since the page was opened or one failed.*)
QuerySuperseded(t) ==
  /\ tab[t].mounted /\ ~tab[t].loaded /\ tab[t].read.by # "query"
  /\ Becomes(t, [Here(t) EXCEPT !.me.loaded = TRUE])
  /\ UNCHANGED <<turns, request, mounts, faults>>

CheckDelivered(t) ==
  /\ tab[t].mounted /\ tab[t].read.by = "check"
  /\ LET history == tab[t].read.got
         s == [Here(t) EXCEPT !.me.shown = history, !.me.loaded = TRUE, !.me.read = NoRead]
     IN  Becomes(t, Reconciled(t, Repaired(t, s, history), history))
  /\ UNCHANGED <<turns, request, mounts, faults>>

ReadFails(t) ==
  /\ tab[t].mounted
  /\ faults < MaxFaults /\ faults' = faults + 1
  /\ \/ /\ tab[t].read.by = "query"
        /\ Becomes(t, [Here(t) EXCEPT !.me.read = NoRead, !.me.loaded = FALSE])
     \/ /\ tab[t].read.by = "check"
        /\ Becomes(t, [Here(t) EXCEPT !.me.read = NoRead])
  /\ UNCHANGED <<turns, request, mounts>>

StorageEvent(t) ==
  /\ tab[t].mounted /\ tab[t].event
  /\ LET s == [Here(t) EXCEPT !.me.event = FALSE]
         seen == CASE storage \in Record -> Installed(s, storage, NoKey, FALSE)
                   [] storage = Invalid -> Blocked(s, TRUE)
                   [] OTHER -> s
     IN  Becomes(t, [seen EXCEPT !.me = Reading(@, "check")])
  /\ UNCHANGED <<turns, request, mounts, faults>>

(* The effect on the shown turns. *)
EffectOf(t) ==
  LET s == Here(t)
      i == TheActive(s.me.shown)
  IN  CASE s.me.invalid -> [s EXCEPT !.me = Reading(@, "check")]
        [] ~s.me.invalid /\ Known(s) -> Reconciled(t, s, s.me.shown)
        [] ~s.me.invalid /\ ~Known(s) /\ HasActive(s.me.shown) /\ storage \in Record ->
             Reconciled(t, Installed(s, storage, IF Proves(s.me.shown, i, storage) THEN i ELSE NoKey, FALSE),
                        s.me.shown)
        [] ~s.me.invalid /\ ~Known(s) /\ HasActive(s.me.shown) /\ storage = None ->
             Installed([s EXCEPT !.storage = RecordOf(t, s.me.shown, i)],
                       RecordOf(t, s.me.shown, i), i, FALSE)
        [] OTHER -> s

TurnsEffect(t) ==
  /\ tab[t].mounted /\ tab[t].loaded
  /\ EffectOf(t) # Here(t)
  /\ Becomes(t, EffectOf(t))
  /\ UNCHANGED <<turns, request, mounts, faults>>

-----------------------------------------------------------------------------
(* Asking and retrying *)

(* beginAction: only a free record is written and only then is anything     *)
(* sent.                                                                     *)
Begin(t, k, i) ==
  /\ tab[t].mounted /\ ~InteractionBlocked(tab[t])
  /\ request[k].status = "unused"
  /\ i # NoKey => i \in DOMAIN tab[t].shown /\ tab[t].shown[i].stage = "failed"
  /\ LET s == Here(t)
         rec == [key |-> k, turn |-> i, owner |-> t]
         shared == Installed(s, storage, NoKey, FALSE)
     IN  CASE storage \in Record ->
                /\ Becomes(t, [shared EXCEPT !.me = Reading(@, "check")])
                /\ UNCHANGED request
           [] storage = Invalid ->
                /\ Becomes(t, Blocked(s, FALSE))
                /\ UNCHANGED request
           [] OTHER ->
                /\ Becomes(t, [me |-> [s.me EXCEPT !.action = [rec |-> rec, http |-> "sent", turn |-> NoKey],
                                                   !.unresolved = TRUE, !.localError = NoError,
                                                   !.retainedError = NoError],
                               storage |-> rec])
                /\ request' = [request EXCEPT ![k] = [status |-> "sent", turn |-> i]]
  /\ UNCHANGED <<turns, mounts, faults>>

Sending(t, k) == tab[t].mounted /\ tab[t].action.http = "sent" /\ tab[t].action.rec.key = k

StaleTurn(current, incoming) == incoming  \* mutant: the answer is always taken
NewerTurn(current, incoming) ==
  IF Rank(current.stage) > Rank(incoming.stage) THEN current ELSE incoming

(* The turn as it was when the request was accepted. *)
Answer(k) == IF request[k].turn = NoKey THEN [stage |-> "asked", retry |-> NoKey]
                                        ELSE [stage |-> "retried", retry |-> k]

Merged(shown, id, answer) ==
  WithTurn(shown, id, IF id \in DOMAIN shown THEN NewerTurn(shown[id], answer) ELSE answer)

ResponseArrives(t, k) ==
  /\ Sending(t, k) /\ request[k].status = "accepted"
  /\ LET id == IF request[k].turn = NoKey THEN k ELSE request[k].turn
         shown == Merged(tab[t].shown, id, Answer(k))
         me == [Settled(tab[t]) EXCEPT !.shown = shown, !.loaded = TRUE, !.read = NoRead]
     IN  Becomes(t, Reconciled(t, [me |-> me, storage |-> storage], shown))
  /\ UNCHANGED <<turns, request, mounts, faults>>

(* The request fails for the tab: rejected, failed, lost, accepted and the  *)
(* answer lost, or given up while it is still on its way and may yet be     *)
(* accepted.  The history is read before anything is decided.               *)
ErrorArrives(t, k) ==
  /\ Sending(t, k)
  /\ \/ /\ request[k].status = "rejected"
        /\ Becomes(t, [Here(t) EXCEPT !.me = Reading([@ EXCEPT !.action.http = "rejected"], "mutation")])
        /\ UNCHANGED faults
     \/ /\ request[k].status \in {"sent", "rejected", "accepted"}
        /\ faults < MaxFaults /\ faults' = faults + 1
        /\ Becomes(t, [Here(t) EXCEPT !.me = Reading([@ EXCEPT !.action.http = "unknown"], "mutation")])
     \/ /\ request[k].status = "lost"
        /\ Becomes(t, [Here(t) EXCEPT !.me = Reading([@ EXCEPT !.action.http = "unknown"], "mutation")])
        /\ UNCHANGED faults
  /\ UNCHANGED <<turns, request, mounts>>

(* The outcome of a failed request, with the history read after it or, if   *)
(* that read failed or was superseded, with the history as it is.           *)
OutcomeOf(t, s, terminal, history) ==
  LET settled == [s EXCEPT !.me = Settled(@)]
      key == s.me.action.rec.key
  IN  CASE Decides(settled, s.me.shown) -> Reconciled(t, settled, s.me.shown)
        [] ~Decides(settled, s.me.shown) /\ s.me.action.turn # NoKey -> settled
        [] ~Decides(settled, s.me.shown) /\ s.me.action.turn = NoKey /\ terminal -> Rejected(t, settled, history)
        [] OTHER -> [settled EXCEPT !.me = Showing([@ EXCEPT !.unresolved = TRUE],
                                                   key, FALSE)]

OutcomeArrives(t) ==
  /\ tab[t].mounted /\ tab[t].action.http \in {"rejected", "unknown"}
  /\ LET terminal == tab[t].action.http = "rejected"
     IN  \/ /\ tab[t].read.by = "mutation"
            /\ Becomes(t, OutcomeOf(t, [Here(t) EXCEPT !.me.shown = tab[t].read.got,
                                                       !.me.loaded = TRUE, !.me.read = NoRead],
                                    terminal, tab[t].read.got))
            /\ UNCHANGED faults
         \/ /\ tab[t].read.by # "mutation"
            /\ Becomes(t, OutcomeOf(t, Here(t), terminal, NoTurns))
            /\ UNCHANGED faults
         \/ /\ tab[t].read.by = "mutation"
            /\ faults < MaxFaults /\ faults' = faults + 1
            /\ Becomes(t, OutcomeOf(t, [Here(t) EXCEPT !.me.read = NoRead], terminal, NoTurns))
  /\ UNCHANGED <<turns, request, mounts>>

-----------------------------------------------------------------------------
(* The server, the other device and the network *)

CanAccept(i) ==
  /\ ~HasActive(turns)
  /\ IF i = NoKey THEN Cardinality(DOMAIN turns) < MaxTurns ELSE turns[i].stage = "failed"

AcceptedTurns(k, i) ==
  IF i = NoKey THEN WithTurn(turns, k, [stage |-> "asked", retry |-> NoKey])
               ELSE [turns EXCEPT ![i] = [stage |-> "retried", retry |-> k]]

ServerAccepts(k) ==
  /\ request[k].status = "sent" /\ CanAccept(request[k].turn)
  /\ turns' = AcceptedTurns(k, request[k].turn)
  /\ request' = [request EXCEPT ![k].status = "accepted"]
  /\ UNCHANGED <<storage, tab, mounts, faults>>

(* 409 while another turn holds the episode or the turn is not retryable,   *)
(* or 503 PROVIDER_NOT_CONFIGURED, which counts as a fault.                 *)
ServerRejects(k) ==
  /\ request[k].status = "sent"
  /\ \/ ~CanAccept(request[k].turn) /\ UNCHANGED faults
     \/ faults < MaxFaults /\ faults' = faults + 1
  /\ request' = [request EXCEPT ![k].status = "rejected"]
  /\ UNCHANGED <<turns, storage, tab, mounts>>

(* A 5xx without effect, or a request that never arrives.                   *)
RequestFails(k) ==
  /\ request[k].status = "sent"
  /\ faults < MaxFaults /\ faults' = faults + 1
  /\ request' = [request EXCEPT ![k].status = "lost"]
  /\ UNCHANGED <<turns, storage, tab, mounts>>

OtherDeviceActs(k, i) ==
  /\ request[k].status = "unused" /\ i \in DOMAIN turns \cup {NoKey} /\ CanAccept(i)
  /\ turns' = AcceptedTurns(k, i)
  /\ request' = [request EXCEPT ![k] = [status |-> "accepted", turn |-> i]]
  /\ UNCHANGED <<storage, tab, mounts, faults>>

TurnEnds(i) ==
  /\ i \in DOMAIN turns /\ IsActive(turns[i])
  /\ \E stage \in {"failed", "done"} :
       /\ stage = "failed" => turns[i].stage = "asked"
       /\ turns' = [turns EXCEPT ![i].stage = stage]
  /\ UNCHANGED <<request, storage, tab, mounts, faults>>

(* The stored record becomes unreadable. *)
StorageDamaged ==
  /\ storage # Invalid
  /\ faults < MaxFaults /\ faults' = faults + 1
  /\ storage' = Invalid
  /\ tab' = [t \in Tab |-> IF tab[t].mounted THEN [tab[t] EXCEPT !.event = TRUE] ELSE tab[t]]
  /\ UNCHANGED <<turns, request, mounts>>

Next ==
  \/ \E t \in Tab :
       \/ Mount(t) \/ Unmount(t)
       \/ \E by \in {"query", "check"} : StartRead(t, by)
       \/ QueryDelivered(t) \/ QuerySuperseded(t) \/ CheckDelivered(t) \/ ReadFails(t)
       \/ StorageEvent(t) \/ TurnsEffect(t) \/ OutcomeArrives(t)
       \/ \E k \in Key : \/ \E i \in Key \cup {NoKey} : Begin(t, k, i)
                         \/ ResponseArrives(t, k) \/ ErrorArrives(t, k)
  \/ \E k \in Key : \/ ServerAccepts(k) \/ ServerRejects(k) \/ RequestFails(k)
                    \/ \E i \in Key \cup {NoKey} : OtherDeviceActs(k, i)
  \/ \E i \in Key : TurnEnds(i)
  \/ StorageDamaged

Spec == Init /\ [][Next]_vars

-----------------------------------------------------------------------------
(* Properties *)

(* BUILD_LOG.md:580, 695: whatever reads, answers and events are delivered  *)
(* late, the history a tab shows never loses a turn or a later state of one.*)
HistoryNeverGoesBack ==
  [][\A t \in Tab : tab[t].mounted /\ tab'[t].mounted =>
       \A i \in DOMAIN tab[t].shown :
         /\ i \in DOMAIN tab'[t].shown
         /\ Rank(tab'[t].shown[i].stage) >= Rank(tab[t].shown[i].stage)]_vars

DecidesAbout(history, rec) ==
  AcceptedIn(history, rec) # NoKey \/ \E i \in ActiveIn(history) : ~Proves(history, i, rec)

(* D-035: the record of an action is dropped or replaced only when the      *)
(* server rejected it or a tab shows a turn that proves it was accepted, or *)
(* another one in its place; an empty or failed history, a reload, a late   *)
(* event or another tab's action never drops it.                            *)
UncertaintyIsKept ==
  [][(storage \in Record /\ storage' \notin {storage, Invalid})
       => \/ request[storage.key].status = "rejected"
          \/ \E t \in Tab : tab'[t].mounted /\ DecidesAbout(tab'[t].shown, storage)]_vars
=============================================================================
