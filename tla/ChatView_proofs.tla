-------------------------- MODULE ChatView_proofs --------------------------
(***************************************************************************)
(* Theorems about ChatView, for any tabs of a browser, any keys and any    *)
(* numbers of turns, page loads and faults.                                *)
(*                                                                         *)
(* The panel's functions are composed (an effect installs a record and     *)
(* reconciles it, which applies, rejects or adopts), so each has a lemma   *)
(* about what follows from it; a step of a tab is then a movement of the   *)
(* panel after what the event or the answer brought.  The strengthening    *)
(* says that what a panel shows and reads is an older state of the         *)
(* server's history, and that what it and the storage remember was         *)
(* requested under that key and for that turn.                             *)
(***************************************************************************)
EXTENDS ChatView, FiniteSetTheorems, TLAPS

-----------------------------------------------------------------------------
(* What local storage may hold.                                            *)
Stored == Record \cup {None, Invalid}

-----------------------------------------------------------------------------
(* The invariant *)

(* A history h that was read or merged before it became g.                  *)
Older(h, g) ==
  \A i \in DOMAIN h :
    /\ i \in DOMAIN g
    /\ Rank(h[i].stage) <= Rank(g[i].stage)
    /\ h[i].retry # NoKey => g[i].retry = h[i].retry

(* TypeOK, with the functions' domains.                                     *)
Types ==
  /\ turns \in History
  /\ request \in [Key -> Request]
  /\ storage \in Stored
  /\ tab \in [Tab -> {Unmounted} \cup Mounted]
  /\ mounts \in 0..MaxMounts
  /\ faults \in 0..MaxFaults

(* A turn of the history is an accepted submission, its retry an accepted   *)
(* retry of it; a request that was sent retries a turn there is.            *)
TurnsAreAccepted ==
  \A i \in DOMAIN turns :
    /\ request[i] = [status |-> "accepted", turn |-> NoKey]
    /\ turns[i].retry # NoKey =>
         /\ request[turns[i].retry] = [status |-> "accepted", turn |-> i]
         /\ turns[i].stage \in {"retried", "done"}

RequestsHaveTurns ==
  \A k \in Key :
    /\ request[k].status # "unused" /\ request[k].turn # NoKey => request[k].turn \in DOMAIN turns
    /\ request[k].status = "accepted" =>
         IF request[k].turn = NoKey THEN k \in DOMAIN turns
         ELSE turns[request[k].turn].retry = k

(* The record of an action tells what was requested under its key.          *)
RequestedIn(rec, requests) == requests[rec.key].status # "unused" /\ requests[rec.key].turn = rec.turn
Requested(rec) == RequestedIn(rec, request)

(* What a panel shows, reads and remembers agrees with the server.          *)
Agrees(me, history, requests) ==
  /\ Older(me.shown, history)
  /\ me.read # NoRead => Older(me.shown, me.read.got) /\ Older(me.read.got, history)
  /\ me.action # NoAction =>
       /\ RequestedIn(me.action.rec, requests)
       /\ me.action.http = "rejected" => requests[me.action.rec.key].status = "rejected"

ViewInv ==
  /\ Types
  /\ TurnsAreAccepted
  /\ RequestsHaveTurns
  /\ storage \in Record => RequestedIn(storage, request)
  /\ \A t \in Tab : tab[t].mounted => Agrees(tab[t], turns, request)

-----------------------------------------------------------------------------
(* The panel's functions keep types, the shown history and the read, and    *)
(* remember only actions that were requested.                               *)

(* A panel and the storage, where both records tell what was requested.     *)
PanelState == [me : Mounted, storage : Stored]

Honest(s) ==
  /\ s.storage \in Record => Requested(s.storage)
  /\ s.me.action # NoAction =>
       /\ Requested(s.me.action.rec)
       /\ s.me.action.http = "rejected" => request[s.me.action.rec.key].status = "rejected"

(* r comes after s without touching what is shown, and may end a read.      *)
Follows(s, r) ==
  /\ r \in PanelState /\ Honest(r)
  /\ r.me.shown = s.me.shown /\ (r.me.read = s.me.read \/ r.me.read = NoRead)

LEMMA ConstantTypes ==
  /\ None \notin Record /\ Invalid \notin Record /\ NoKey \notin Key /\ NoAction \notin Action
  /\ None \in Stored /\ Invalid \in Stored /\ NoError \in Error /\ Coordination \in Error
  /\ \A key \in Key : key \in Error
<1>1. None.key = NoKey /\ Invalid.key = NoKey
  BY DEF None, Invalid
<1>2. NoAction.http = "none"
  BY DEF NoAction
<1>3. NoKey \notin Key
  BY ViewAssumption
<1>4. \A rec \in Record : rec.key \in Key
  BY DEF Record
<1>5. \A action \in Action : action.http # "none"
  BY DEF Action
<1>6. QED
  BY <1>1, <1>2, <1>3, <1>4, <1>5 DEF Stored, Error, NoError

LEMMA ShowingTypes ==
  ASSUME NEW me \in Mounted, NEW error \in Error, NEW keep
  PROVE  LET now == Showing(me, error, keep)
         IN  now \in Mounted /\ now.shown = me.shown /\ now.read = me.read /\ now.action = me.action
BY DEF Showing, Mounted

LEMMA ClearedTypes ==
  ASSUME NEW me \in Mounted, NEW key
  PROVE  LET now == ClearedOf(me, key)
         IN  now \in Mounted /\ now.shown = me.shown /\ now.read = me.read /\ now.action = me.action
BY ConstantTypes DEF ClearedOf, Mounted

LEMMA SettledTypes ==
  ASSUME NEW me \in Mounted, me.action # NoAction
  PROVE  LET now == Settled(me)
         IN  /\ now \in Mounted /\ now.shown = me.shown /\ now.read = me.read
             /\ now.action \in Action /\ now.action.rec = me.action.rec /\ now.action.http = "settled"
             /\ now.action.turn = me.action.turn
<1>1. me.action \in Action
  BY DEF Mounted
<1>2. [me.action EXCEPT !.http = "settled"] \in Action
  BY <1>1 DEF Action
<1> DEFINE settled == [me.action EXCEPT !.http = "settled"]
<1>3. settled.rec = me.action.rec /\ settled.http = "settled" /\ settled.turn = me.action.turn
  BY <1>1 DEF Action
<1>4. Settled(me) = [me EXCEPT !.action = settled]
  BY DEF Settled
<1> HIDE DEF settled
<1>5. QED
  BY <1>2, <1>3, <1>4 DEF Mounted, settled

LEMMA InstalledFollows ==
  ASSUME NEW s \in PanelState, Honest(s), NEW rec \in Record, Requested(rec),
         NEW known \in Key \cup {NoKey}, NEW keep
  PROVE  /\ Follows(s, Installed(s, rec, known, keep))
         /\ Installed(s, rec, known, keep).storage = s.storage
         /\ Installed(s, rec, known, keep).me.action \in Action
         /\ Installed(s, rec, known, keep).me.action.rec = rec
<1> DEFINE r == Installed(s, rec, known, keep)
<1>1. CASE Known(s) /\ s.me.action.rec = rec
  <2> DEFINE turn == IF known # NoKey THEN known ELSE s.me.action.turn
             action == [s.me.action EXCEPT !.turn = turn]
             me == [s.me EXCEPT !.action = action]
  <2>1. s.me \in Mounted /\ s.storage \in Stored /\ s.me.action \in Action
    BY <1>1 DEF PanelState, Known, Mounted
  <2>2. turn \in Key \cup {NoKey}
    BY <2>1 DEF Action
  <2>3. action \in Action /\ action.rec = rec /\ action.http = s.me.action.http
    BY <1>1, <2>1, <2>2 DEF Action
  <2>4. r = [s EXCEPT !.me = me]
    BY <1>1 DEF Installed
  <2> HIDE DEF action, turn
  <2>5. me \in Mounted /\ me.shown = s.me.shown /\ me.read = s.me.read /\ me.action = action
    BY <2>1, <2>3 DEF Mounted
  <2> HIDE DEF me
  <2>6. r.me = me /\ r.storage = s.storage /\ r \in PanelState
    BY <2>1, <2>4, <2>5 DEF PanelState
  <2> HIDE DEF r
  <2>7. Honest(r)
    BY <1>1, <2>3, <2>5, <2>6 DEF Honest, Known
  <2>8. QED
    BY <2>3, <2>5, <2>6, <2>7 DEF Follows, r
<1>2. CASE ~(Known(s) /\ s.me.action.rec = rec)
  <2> DEFINE action == [rec |-> rec, http |-> "settled", turn |-> known]
             me == [s.me EXCEPT !.action = action, !.read = NoRead, !.unresolved = (known = NoKey)]
             now == IF known # NoKey THEN me ELSE Showing(me, rec.key, keep)
  <2>1. s.me \in Mounted /\ s.storage \in Stored /\ rec.key \in Error
    BY ConstantTypes DEF PanelState, Record
  <2>2. action \in Action /\ action.rec = rec /\ action.http = "settled"
    BY DEF Action
  <2>3. r = [s EXCEPT !.me = now]
    BY <1>2 DEF Installed
  <2> HIDE DEF action
  <2>4. me \in Mounted /\ me.shown = s.me.shown /\ me.read = NoRead /\ me.action = action
    BY <2>1, <2>2 DEF Mounted
  <2> HIDE DEF me
  <2>5. now \in Mounted /\ now.shown = s.me.shown /\ now.read = NoRead /\ now.action = action
    BY <2>1, <2>4, ShowingTypes
  <2> HIDE DEF now
  <2>6. r.me = now /\ r.storage = s.storage /\ r \in PanelState
    BY <2>1, <2>3, <2>5 DEF PanelState
  <2> HIDE DEF r
  <2>7. Honest(r)
    BY <2>2, <2>5, <2>6 DEF Honest
  <2>8. QED
    BY <2>2, <2>5, <2>6, <2>7 DEF Follows, r
<1>3. QED
  BY <1>1, <1>2

LEMMA BlockedFollows ==
  ASSUME NEW s \in PanelState, Honest(s), NEW keep
  PROVE  Follows(s, Blocked(s, keep)) /\ Blocked(s, keep).storage = s.storage
         /\ Blocked(s, keep).me.action = s.me.action
<1> DEFINE r == Blocked(s, keep)
           me == [s.me EXCEPT !.invalid = TRUE, !.unresolved = TRUE]
           now == Showing(me, Coordination, keep)
<1>1. s.me \in Mounted /\ s.storage \in Stored
  BY DEF PanelState
<1>2. r = [s EXCEPT !.me = now]
  BY DEF Blocked
<1>3. me \in Mounted /\ me.shown = s.me.shown /\ me.read = s.me.read /\ me.action = s.me.action
  BY <1>1 DEF Mounted
<1> HIDE DEF me
<1>4. now \in Mounted /\ now.shown = s.me.shown /\ now.read = s.me.read /\ now.action = s.me.action
  BY <1>3, ConstantTypes, ShowingTypes
<1> HIDE DEF now
<1>5. r.me = now /\ r.storage = s.storage /\ r \in PanelState
  BY <1>1, <1>2, <1>4 DEF PanelState
<1> HIDE DEF r
<1>6. Honest(r)
  BY <1>4, <1>5 DEF Honest
<1>7. QED
  BY <1>4, <1>5, <1>6 DEF Follows, r

(* What a dropped or replaced record of s needs, when r comes after it and  *)
(* the history h was looked at.                                             *)
Kept(s, r, h) ==
  s.storage \in Record /\ r.storage \notin {s.storage, Invalid} =>
    request[s.storage.key].status = "rejected" \/ DecidesAbout(h, s.storage)

(* A history from which records may be made.                                *)
Readable(h) ==
  /\ h \in History
  /\ \A i \in DOMAIN h :
       /\ request[i].status # "unused" /\ request[i].turn = NoKey
       /\ h[i].retry # NoKey => request[h[i].retry].status # "unused" /\ request[h[i].retry].turn = i

LEMMA HistoryTypes ==
  ASSUME NEW h \in History, NEW i \in DOMAIN h
  PROVE  i \in Key /\ h[i] \in Turn
<1>1. PICK D \in SUBSET Key : h \in [D -> Turn]
  BY DEF History
<1>2. QED
  BY <1>1

LEMMA ActiveTurn ==
  ASSUME NEW h, HasActive(h)
  PROVE  TheActive(h) \in ActiveIn(h) /\ TheActive(h) \in DOMAIN h /\ IsActive(h[TheActive(h)])
BY DEF HasActive, TheActive, ActiveIn

LEMMA RecordsAreRequested ==
  ASSUME NEW t \in Tab, NEW h, Readable(h), NEW i \in DOMAIN h
  PROVE  RecordOf(t, h, i) \in Record /\ Requested(RecordOf(t, h, i))
<1>1. i \in Key /\ h[i] \in Turn
  BY HistoryTypes DEF Readable
<1>2. CASE h[i].retry # NoKey
  <2> DEFINE rec == [key |-> h[i].retry, turn |-> i, owner |-> t]
  <2>1. h[i].retry \in Key
    BY <1>1, <1>2 DEF Turn
  <2>2. rec \in Record /\ rec.key = h[i].retry /\ rec.turn = i
    BY <1>1, <2>1 DEF Record
  <2>3. RecordOf(t, h, i) = rec
    BY <1>2 DEF RecordOf
  <2> HIDE DEF rec
  <2>4. Requested(rec)
    BY <1>2, <2>2 DEF Requested, RequestedIn, Readable
  <2>5. QED
    BY <2>2, <2>3, <2>4
<1>3. CASE h[i].retry = NoKey
  <2> DEFINE rec == [key |-> i, turn |-> NoKey, owner |-> t]
  <2>1. rec \in Record /\ rec.key = i /\ rec.turn = NoKey
    BY <1>1 DEF Record
  <2>2. RecordOf(t, h, i) = rec
    BY <1>3 DEF RecordOf
  <2> HIDE DEF rec
  <2>3. Requested(rec)
    BY <2>1 DEF Requested, RequestedIn, Readable
  <2>4. QED
    BY <2>1, <2>2, <2>3
<1>4. QED
  BY <1>2, <1>3

LEMMA AcceptedTurn ==
  ASSUME NEW h \in History, NEW rec
  PROVE  AcceptedIn(h, rec) \in Key \cup {NoKey} /\ (AcceptedIn(h, rec) # NoKey => AcceptedIn(h, rec) \in DOMAIN h)
<1> DEFINE id == IF rec.turn = NoKey THEN rec.key ELSE rec.turn
<1>1. AcceptedIn(h, rec) = IF id \in DOMAIN h /\ Proves(h, id, rec) THEN id ELSE NoKey
  BY DEF AcceptedIn
<1> HIDE DEF id
<1>2. QED
  BY <1>1, HistoryTypes

LEMMA FinishedArms ==
  ASSUME NEW s
  PROVE  LET after == [me |-> [s.me EXCEPT !.action = NoAction, !.read = NoRead, !.unresolved = FALSE],
                       storage |-> RecordRemoved(s.storage, s.me.action.rec)]
         IN  /\ after.storage \in Record => Finished(s) = Installed(after, after.storage, NoKey, TRUE)
             /\ after.storage = Invalid => Finished(s) = Blocked(after, TRUE)
             /\ after.storage \notin Record /\ after.storage # Invalid => Finished(s) = after
<1> DEFINE after == [me |-> [s.me EXCEPT !.action = NoAction, !.read = NoRead, !.unresolved = FALSE],
                     storage |-> RecordRemoved(s.storage, s.me.action.rec)]
<1>1. Finished(s) = CASE after.storage \in Record -> Installed(after, after.storage, NoKey, TRUE)
                      [] after.storage = Invalid -> Blocked(after, TRUE)
                      [] OTHER -> after
  BY DEF Finished
<1>2. Invalid \notin Record
  BY ConstantTypes
<1> HIDE DEF after
<1>3. ASSUME after.storage \in Record PROVE Finished(s) = Installed(after, after.storage, NoKey, TRUE)
  <2>1. after.storage # Invalid
    BY <1>2, <1>3
  <2>2. QED
    BY <1>1, <1>3, <2>1, Zenon
<1>4. ASSUME after.storage = Invalid PROVE Finished(s) = Blocked(after, TRUE)
  <2>1. after.storage \notin Record
    BY <1>2, <1>4
  <2>2. QED
    BY <1>1, <1>4, <2>1, Zenon
<1>5. ASSUME after.storage \notin Record, after.storage # Invalid PROVE Finished(s) = after
  BY <1>1, <1>5, Zenon
<1>6. QED
  BY <1>3, <1>4, <1>5 DEF after

LEMMA FinishedFollows ==
  ASSUME NEW s \in PanelState, Honest(s), Known(s)
  PROVE  /\ Follows(s, Finished(s))
         /\ \/ Finished(s).storage = s.storage
            \/ s.storage = s.me.action.rec /\ Finished(s).storage = None
<1> DEFINE me == [s.me EXCEPT !.action = NoAction, !.read = NoRead, !.unresolved = FALSE]
           after == [me |-> me, storage |-> RecordRemoved(s.storage, s.me.action.rec)]
<1>1. s.me \in Mounted /\ s.storage \in Stored
  BY DEF PanelState
<1>2. me \in Mounted /\ me.shown = s.me.shown /\ me.read = NoRead /\ me.action = NoAction
  BY <1>1 DEF Mounted
<1>3. /\ after.storage \in Stored
      /\ \/ after.storage = s.storage
         \/ s.storage = s.me.action.rec /\ after.storage = None
  <2>1. after.storage = IF s.storage = s.me.action.rec THEN None ELSE s.storage
    BY DEF RecordRemoved
  <2> HIDE DEF after
  <2>2. QED
    <3>1. CASE s.storage = s.me.action.rec
      <4>1. after.storage = None
        BY <2>1, <3>1
      <4>2. QED
        BY <3>1, <4>1, ConstantTypes
    <3>2. CASE s.storage # s.me.action.rec
      <4>1. after.storage = s.storage
        BY <2>1, <3>2
      <4>2. QED
        BY <1>1, <4>1
    <3>3. QED
      BY <3>1, <3>2
<1>4. /\ after.storage \in Record => Finished(s) = Installed(after, after.storage, NoKey, TRUE)
      /\ after.storage = Invalid => Finished(s) = Blocked(after, TRUE)
      /\ after.storage \notin Record /\ after.storage # Invalid => Finished(s) = after
  BY FinishedArms
<1>5. after \in PanelState /\ after.me = me
  BY <1>2, <1>3 DEF PanelState
<1> HIDE DEF me, after
<1>6. Honest(after)
  BY <1>2, <1>3, <1>5, ConstantTypes DEF Honest
<1>7. NoKey \in Key \cup {NoKey}
  OBVIOUS
<1>8. /\ Follows(after, Finished(s))
      /\ Finished(s).storage = after.storage
  <2>1. CASE after.storage \in Record
    <3>1. Requested(after.storage)
      BY <1>6, <2>1 DEF Honest
    <3>2. QED
      <4>1. PICK q \in Record : q = after.storage
        BY <2>1
      <4>2. Requested(q)
        BY <3>1, <4>1
      <4>3. Follows(after, Installed(after, q, NoKey, TRUE)) /\ Installed(after, q, NoKey, TRUE).storage = after.storage
        <5>1. \A keep : /\ Follows(after, Installed(after, q, NoKey, keep))
                        /\ Installed(after, q, NoKey, keep).storage = after.storage
          BY <1>5, <1>6, <1>7, <4>2, InstalledFollows
        <5>2. QED
          BY <5>1, Zenon
      <4>4. QED
        BY <1>4, <2>1, <4>1, <4>3
  <2>2. CASE after.storage = Invalid
    BY <1>4, <1>5, <1>6, <2>2, BlockedFollows
  <2>3. CASE after.storage \notin Record /\ after.storage # Invalid
    BY <1>4, <1>5, <1>6, <2>3 DEF Follows
  <2>4. QED
    BY <2>1, <2>2, <2>3
<1>9. QED
  BY <1>2, <1>3, <1>5, <1>8 DEF Follows

LEMMA AppliedFollows ==
  ASSUME NEW s \in PanelState, Honest(s), Known(s), NEW h \in History, NEW i \in DOMAIN h
  PROVE  /\ Follows(s, Applied(s, h, i))
         /\ \/ Applied(s, h, i).storage = s.storage
            \/ s.storage = s.me.action.rec /\ Applied(s, h, i).storage = None
<1> DEFINE key == s.me.action.rec.key
           known == s.me.action.turn = i /\ IsActive(h[i])
           cleared == ClearedOf(Settled(s.me), key)
           action == [cleared.action EXCEPT !.turn = i]
           me == [cleared EXCEPT !.action = action, !.read = IF known THEN @ ELSE NoRead]
<1>1. s.me \in Mounted /\ s.storage \in Stored /\ s.me.action # NoAction
  BY DEF PanelState, Known
<1>2. /\ Settled(s.me) \in Mounted /\ Settled(s.me).shown = s.me.shown /\ Settled(s.me).read = s.me.read
      /\ Settled(s.me).action \in Action /\ Settled(s.me).action.rec = s.me.action.rec
      /\ Settled(s.me).action.http = "settled"
  BY <1>1, SettledTypes
<1>3. /\ cleared \in Mounted /\ cleared.shown = s.me.shown /\ cleared.read = s.me.read
      /\ cleared.action = Settled(s.me).action
  BY <1>2, ClearedTypes
<1> HIDE DEF cleared
<1>4. action \in Action /\ action.rec = s.me.action.rec /\ action.http = "settled"
  <2>1. i \in Key
    BY HistoryTypes
  <2>2. cleared.action \in Action /\ cleared.action.rec = s.me.action.rec /\ cleared.action.http = "settled"
    BY <1>2, <1>3
  <2>3. QED
    BY <2>1, <2>2 DEF Action
<1>5. me = [ClearedOf(Settled(s.me), key) EXCEPT !.action.turn = i, !.read = IF known THEN @ ELSE NoRead]
  BY DEF cleared
<1> HIDE DEF action
<1>6. me \in Mounted /\ me.shown = s.me.shown /\ me.read \in {s.me.read, NoRead} /\ me.action = action
  BY <1>3, <1>4 DEF Mounted
<1>7. Applied(s, h, i) = IF IsActive(h[i]) THEN [s EXCEPT !.me = [me EXCEPT !.unresolved = FALSE]]
                                           ELSE Finished([s EXCEPT !.me = me])
  BY <1>5 DEF Applied
<1> HIDE DEF me, key
<1>8. CASE IsActive(h[i])
  <2> DEFINE now == [me EXCEPT !.unresolved = FALSE]
             r == [s EXCEPT !.me = now]
  <2>1. now \in Mounted /\ now.shown = me.shown /\ now.read = me.read /\ now.action = me.action
    BY <1>6 DEF Mounted
  <2> HIDE DEF now
  <2>2. r \in PanelState /\ r.me = now /\ r.storage = s.storage
    BY <1>1, <2>1 DEF PanelState
  <2>3. Applied(s, h, i) = r
    BY <1>7, <1>8 DEF now
  <2> HIDE DEF r
  <2>4. Honest(r)
    BY <1>1, <1>4, <1>6, <2>1, <2>2 DEF Honest
  <2>5. QED
    BY <1>6, <2>1, <2>2, <2>3, <2>4 DEF Follows
<1>9. CASE ~IsActive(h[i])
  <2> DEFINE s2 == [s EXCEPT !.me = me]
  <2>1. s2 \in PanelState /\ s2.me = me /\ s2.storage = s.storage
    BY <1>1, <1>6 DEF PanelState
  <2>2. Applied(s, h, i) = Finished(s2)
    BY <1>7, <1>9
  <2> HIDE DEF s2
  <2>3. Honest(s2) /\ Known(s2)
    BY <1>1, <1>4, <1>6, <2>1, ConstantTypes DEF Honest, Known
  <2>4. /\ Follows(s2, Finished(s2))
        /\ \/ Finished(s2).storage = s2.storage
           \/ s2.storage = s2.me.action.rec /\ Finished(s2).storage = None
    BY <2>1, <2>3, FinishedFollows
  <2>5. QED
    BY <1>4, <1>6, <2>1, <2>2, <2>4 DEF Follows
<1>10. QED
  BY <1>8, <1>9

LEMMA FollowsTwice ==
  ASSUME NEW s, NEW r, NEW q, Follows(s, r), Follows(r, q)
  PROVE  Follows(s, q)
BY DEF Follows

(* Only the record of the tab's own action is replaced.                     *)
DropsOwn(s, r) == s.storage \in Record /\ r.storage # s.storage => s.storage = s.me.action.rec

LEMMA AdoptedFollows ==
  ASSUME NEW t \in Tab, NEW s \in PanelState, Honest(s), NEW h, Readable(h), NEW i \in DOMAIN h
  PROVE  Follows(s, Adopted(t, s, h, i)) /\ DropsOwn(s, Adopted(t, s, h, i))
<1> DEFINE rec == RecordOf(t, h, i)
           r == Adopted(t, s, h, i)
<1>1. s.me \in Mounted /\ s.storage \in Stored
  BY DEF PanelState
<1>2. rec \in Record /\ Requested(rec) /\ i \in Key
  BY RecordsAreRequested, HistoryTypes DEF Readable
<1>3. /\ s.storage \in {None, s.me.action.rec} => r = Installed([s EXCEPT !.storage = rec], rec, i, TRUE)
      /\ s.storage \in Record \ {s.me.action.rec} =>
           r = Installed(s, s.storage, IF s.storage = rec THEN i ELSE NoKey, TRUE)
      /\ s.storage \notin {None, s.me.action.rec} /\ s.storage \notin Record => r = [s EXCEPT !.me.unresolved = TRUE]
  <2> DEFINE own == s.storage \in {None, s.me.action.rec}
             other == s.storage \in Record \ {s.me.action.rec}
             first == Installed([s EXCEPT !.storage = rec], rec, i, TRUE)
             second == Installed(s, s.storage, IF s.storage = rec THEN i ELSE NoKey, TRUE)
             third == [s EXCEPT !.me.unresolved = TRUE]
  <2>1. r = CASE own -> first [] other -> second [] OTHER -> third
    BY DEF Adopted
  <2>2. other => ~own
    BY ConstantTypes
  <2> HIDE DEF own, other, first, second, third, r
  <2>3. own => r = first
    BY <2>1, <2>2, Zenon
  <2>4. other => r = second
    BY <2>1, <2>2, Zenon
  <2>5. ~own /\ ~other => r = third
    BY <2>1, Zenon
  <2> HIDE DEF rec
  <2>6. s.storage \notin {None, s.me.action.rec} /\ s.storage \notin Record => ~own /\ ~other
    BY DEF own, other
  <2>7. QED
    BY <2>3, <2>4, <2>5, <2>6 DEF own, other, first, second, third
<1> HIDE DEF rec, r
<1>4. CASE s.storage \in {None, s.me.action.rec}
  <2> DEFINE s2 == [s EXCEPT !.storage = rec]
  <2>1. s2 \in PanelState /\ s2.me = s.me /\ s2.storage = rec
    BY <1>1, <1>2 DEF PanelState, Stored
  <2> HIDE DEF s2
  <2>2. Honest(s2)
    BY <1>2, <2>1 DEF Honest
  <2>3. i \in Key \cup {NoKey}
    BY <1>2
  <2>4. \A keep : Follows(s2, Installed(s2, rec, i, keep))
    BY <1>2, <2>1, <2>2, <2>3, InstalledFollows
  <2>5. Follows(s2, Installed(s2, rec, i, TRUE))
    BY <2>4, Zenon
  <2>6. r = Installed(s2, rec, i, TRUE)
    BY <1>3, <1>4 DEF s2
  <2>7. DropsOwn(s, r)
    BY <1>4, ConstantTypes DEF DropsOwn
  <2>8. QED
    BY <2>1, <2>5, <2>6, <2>7 DEF Follows, r
<1>5. CASE s.storage \in Record \ {s.me.action.rec}
  <2> DEFINE known == IF s.storage = rec THEN i ELSE NoKey
  <2>1. known \in Key \cup {NoKey}
    BY <1>2
  <2>2. Requested(s.storage) /\ s.storage \in Record
    BY <1>5 DEF Honest
  <2>3. r = Installed(s, s.storage, known, TRUE)
    BY <1>3, <1>5
  <2> HIDE DEF known
  <2>4. \A keep : /\ Follows(s, Installed(s, s.storage, known, keep))
                  /\ Installed(s, s.storage, known, keep).storage = s.storage
    BY <2>1, <2>2, InstalledFollows
  <2>5. Follows(s, r) /\ r.storage = s.storage
    BY <2>3, <2>4, Zenon
  <2>6. QED
    BY <2>5 DEF DropsOwn, r
<1>6. CASE s.storage \notin {None, s.me.action.rec} /\ s.storage \notin Record
  <2> DEFINE me == [s.me EXCEPT !.unresolved = TRUE]
  <2>1. r = [s EXCEPT !.me = me]
    BY <1>3, <1>6
  <2>2. me \in Mounted /\ me.shown = s.me.shown /\ me.read = s.me.read /\ me.action = s.me.action
    BY <1>1 DEF Mounted
  <2> HIDE DEF me
  <2>3. r \in PanelState /\ r.me = me /\ r.storage = s.storage
    BY <1>1, <2>1, <2>2 DEF PanelState
  <2>4. Honest(r)
    BY <2>2, <2>3 DEF Honest
  <2>5. QED
    BY <2>2, <2>3, <2>4 DEF Follows, DropsOwn, r
<1>7. QED
  BY <1>4, <1>5, <1>6

LEMMA RejectedFollows ==
  ASSUME NEW t \in Tab, NEW s \in PanelState, Honest(s), Known(s), NEW h, Readable(h)
  PROVE  Follows(s, Rejected(t, s, h)) /\ DropsOwn(s, Rejected(t, s, h))
<1> DEFINE me == Showing(s.me, NoError, FALSE)
           shown == [s EXCEPT !.me = me]
           r == Rejected(t, s, h)
<1>1. s.me \in Mounted /\ s.storage \in Stored
  BY DEF PanelState
<1>2. \A keep : LET now == Showing(s.me, NoError, keep)
                IN  now \in Mounted /\ now.shown = s.me.shown /\ now.read = s.me.read /\ now.action = s.me.action
  BY <1>1, ConstantTypes, ShowingTypes
<1>3. me \in Mounted /\ me.shown = s.me.shown /\ me.read = s.me.read /\ me.action = s.me.action
  BY <1>2, Zenon
<1>4. r = IF HasActive(h) THEN Adopted(t, shown, h, TheActive(h)) ELSE Finished(shown)
  BY DEF Rejected
<1> HIDE DEF me, r
<1>5. shown \in PanelState /\ shown.me = me /\ shown.storage = s.storage
  BY <1>1, <1>3 DEF PanelState
<1> HIDE DEF shown
<1>6. Honest(shown) /\ Known(shown)
  BY <1>3, <1>5 DEF Honest, Known
<1>7. Follows(shown, r) /\ DropsOwn(shown, r)
  <2>1. CASE HasActive(h)
    <3>1. TheActive(h) \in DOMAIN h
      BY <2>1, ActiveTurn
    <3>2. r = Adopted(t, shown, h, TheActive(h))
      BY <1>4, <2>1
    <3>3. QED
      BY <1>5, <1>6, <3>1, <3>2, AdoptedFollows
  <2>2. CASE ~HasActive(h)
    <3>1. r = Finished(shown)
      BY <1>4, <2>2
    <3>2. /\ Follows(shown, r)
          /\ \/ r.storage = shown.storage
             \/ shown.storage = shown.me.action.rec /\ r.storage = None
      BY <1>5, <1>6, <3>1, FinishedFollows
    <3>3. QED
      BY <3>2 DEF DropsOwn
  <2>3. QED
    BY <2>1, <2>2
<1>8. QED
  BY <1>3, <1>5, <1>7 DEF Follows, DropsOwn, r

(* What decides about the own action decides about its record.              *)
LEMMA DecidedAboutOwn ==
  ASSUME NEW s \in PanelState, Honest(s), NEW h, Readable(h), Decides(s, h)
  PROVE  DecidesAbout(h, s.me.action.rec)
<1> DEFINE rec == s.me.action.rec
           i == TheActive(h)
<1>1. CASE AcceptedIn(h, rec) # NoKey
  BY <1>1 DEF DecidesAbout
<1>2. CASE AcceptedIn(h, rec) = NoKey
  <2>1. Competes(rec, h) /\ s.me.action # NoAction
    BY <1>2 DEF Decides, Known
  <2>2. HasActive(h) /\ (rec.turn # NoKey /\ rec.turn = i => h[i].retry # NoKey)
    BY <2>1 DEF Competes
  <2>3. i \in ActiveIn(h) /\ i \in DOMAIN h
    BY <2>2, ActiveTurn
  <2>4. Requested(rec) /\ i \in Key /\ NoKey \notin Key
    BY <2>1, <2>3, HistoryTypes, ConstantTypes DEF Honest, Readable
  <2> DEFINE id == IF rec.turn = NoKey THEN rec.key ELSE rec.turn
  <2>5. rec.key \in Key /\ rec.turn \in Key \cup {NoKey}
    BY <2>1 DEF PanelState, Mounted, Action, Record
  <2>6. ~(id \in DOMAIN h /\ Proves(h, id, rec))
    <3>1. AcceptedIn(h, rec) = IF id \in DOMAIN h /\ Proves(h, id, rec) THEN id ELSE NoKey
      BY DEF AcceptedIn
    <3>2. id # NoKey
      BY <2>4, <2>5
    <3> HIDE DEF id, rec
    <3>3. QED
      BY <1>2, <3>1, <3>2
  <2> HIDE DEF rec, i
  <2>7. ASSUME Proves(h, i, rec) PROVE FALSE
    <3>1. CASE rec.turn = NoKey
      <4>1. i = rec.key
        BY <2>7, <3>1 DEF Proves
      <4>2. QED
        BY <2>3, <2>6, <2>7, <3>1, <4>1
    <3>2. CASE rec.turn # NoKey
      <4>1. h[i].retry = rec.key
        BY <2>7, <3>2 DEF Proves
      <4>2. h[i].retry # NoKey
        BY <2>4, <2>5, <4>1
      <4>3. request[rec.key].turn = i
        BY <2>3, <4>1, <4>2 DEF Readable
      <4>4. rec.turn = i
        BY <2>4, <4>3 DEF Requested, RequestedIn
      <4>5. QED
        BY <2>3, <2>6, <2>7, <3>2, <4>4
    <3>3. QED
      BY <3>1, <3>2
  <2>8. QED
    BY <2>3, <2>7 DEF DecidesAbout, rec
<1>3. QED
  BY <1>1, <1>2

LEMMA ReconciledFollows ==
  ASSUME NEW t \in Tab, NEW s \in PanelState, Honest(s), NEW h, Readable(h)
  PROVE  Follows(s, Reconciled(t, s, h)) /\ Kept(s, Reconciled(t, s, h), h)
<1> DEFINE r == Reconciled(t, s, h)
           rec == s.me.action.rec
           i == AcceptedIn(h, rec)
<1>1. r = IF ~Decides(s, h) THEN s ELSE IF i # NoKey THEN Applied(s, h, i) ELSE Rejected(t, s, h)
  BY DEF Reconciled
<1>2. h \in History
  BY DEF Readable
<1> HIDE DEF r, rec, i
<1>3. CASE ~Decides(s, h)
  BY <1>1, <1>3 DEF Follows, Kept, r
<1>4. CASE Decides(s, h)
  <2>1. Known(s) /\ DecidesAbout(h, rec)
    BY <1>4, DecidedAboutOwn DEF Decides, rec
  <2>2. Follows(s, r) /\ DropsOwn(s, r)
    <3>1. CASE i # NoKey
      <4>1. i \in DOMAIN h
        BY <1>2, <3>1, AcceptedTurn DEF i
      <4>2. r = Applied(s, h, i)
        BY <1>1, <1>4, <3>1
      <4>3. /\ Follows(s, r)
            /\ \/ r.storage = s.storage
               \/ s.storage = s.me.action.rec /\ r.storage = None
        BY <1>2, <2>1, <4>1, <4>2, AppliedFollows
      <4>4. QED
        BY <4>3 DEF DropsOwn
    <3>2. CASE i = NoKey
      <4>1. r = Rejected(t, s, h)
        BY <1>1, <1>4, <3>2
      <4>2. QED
        BY <2>1, <4>1, RejectedFollows
    <3>3. QED
      BY <3>1, <3>2
  <2>3. QED
    BY <2>1, <2>2 DEF DropsOwn, Kept, r, rec
<1>5. QED
  BY <1>3, <1>4

LEMMA RecoveredFollows ==
  ASSUME NEW t \in Tab, NEW s \in PanelState, Honest(s), NEW h, Readable(h)
  PROVE  /\ Follows(s, Recovered(t, s, h))
         /\ s.storage \in Record => Recovered(t, s, h).storage = s.storage
<1> DEFINE r == Recovered(t, s, h)
           made == RecordOf(t, h, TheActive(h))
           stored == IF s.storage = None /\ HasActive(h) THEN made ELSE s.storage
           me == [ClearedOf(s.me, Coordination) EXCEPT !.invalid = FALSE]
           clear == [me |-> me, storage |-> stored]
           known == AcceptedIn(h, stored)
           first == Installed(clear, stored, known, TRUE)
           second == Blocked(s, TRUE)
           third == [clear EXCEPT !.me.unresolved = FALSE]
<1>1. s.me \in Mounted /\ s.storage \in Stored /\ h \in History
  BY DEF PanelState, Readable
<1>2. r = CASE stored \in Record -> first [] stored = Invalid -> second [] OTHER -> third
  BY DEF Recovered
<1>3. stored \in Record => stored # Invalid
  BY ConstantTypes
<1> HIDE DEF r
<1>4. /\ stored \in Stored
      /\ stored \in Record => Requested(stored)
      /\ s.storage \in Record \cup {Invalid} => stored = s.storage
  <2>1. CASE s.storage = None /\ HasActive(h)
    <3>1. TheActive(h) \in DOMAIN h
      BY <2>1, ActiveTurn
    <3>2. made \in Record /\ Requested(made)
      BY <3>1, RecordsAreRequested
    <3> HIDE DEF made
    <3>3. None # Invalid
      <4>1. DOMAIN None = {"key"} /\ DOMAIN Invalid = {"key", "damaged"}
        BY DEF None, Invalid
      <4>2. QED
        BY <4>1
    <3>4. QED
      BY <2>1, <3>2, <3>3, ConstantTypes DEF Stored
  <2>2. CASE ~(s.storage = None /\ HasActive(h))
    <3>1. stored = s.storage
      BY <2>2
    <3> HIDE DEF stored
    <3>2. QED
      BY <1>1, <3>1 DEF Honest
  <2>3. QED
    BY <2>1, <2>2
<1>5. me \in Mounted /\ me.shown = s.me.shown /\ me.read = s.me.read /\ me.action = s.me.action
  <2> DEFINE cleared == ClearedOf(s.me, Coordination)
  <2>1. cleared \in Mounted /\ cleared.shown = s.me.shown /\ cleared.read = s.me.read /\ cleared.action = s.me.action
    BY <1>1, ClearedTypes
  <2> HIDE DEF cleared
  <2>2. me = [cleared EXCEPT !.invalid = FALSE]
    BY DEF cleared
  <2> HIDE DEF me
  <2>3. QED
    BY <2>1, <2>2 DEF Mounted
<1> HIDE DEF stored, me
<1>6. clear \in PanelState /\ clear.me = me /\ clear.storage = stored
  BY <1>4, <1>5 DEF PanelState
<1>7. third = [clear EXCEPT !.me = [me EXCEPT !.unresolved = FALSE]]
  OBVIOUS
<1> HIDE DEF clear
<1>8. Honest(clear)
  BY <1>4, <1>5, <1>6 DEF Honest
<1>9. known \in Key \cup {NoKey}
  BY <1>1, AcceptedTurn
<1> HIDE DEF known
<1>10. CASE stored \in Record
  <2>1. r = first
    <3> HIDE DEF first, second, third
    <3>1. QED
      BY <1>2, <1>3, <1>10, Zenon
  <2>2. \A keep : /\ Follows(clear, Installed(clear, stored, known, keep))
                  /\ Installed(clear, stored, known, keep).storage = stored
    <3>1. Requested(stored)
      BY <1>4, <1>10
    <3>2. QED
      BY <1>6, <1>8, <1>9, <1>10, <3>1, InstalledFollows
  <2>3. Follows(clear, r) /\ r.storage = stored
    BY <2>1, <2>2, Zenon
  <2>4. QED
    BY <1>4, <1>5, <1>6, <2>3 DEF Follows, r
<1>11. CASE stored = Invalid
  <2>1. stored \notin Record
    BY <1>3, <1>11
  <2>2. r = second
    <3> HIDE DEF first, second, third
    <3>1. QED
      BY <1>2, <1>11, <2>1, Zenon
  <2>3. \A keep : Follows(s, Blocked(s, keep)) /\ Blocked(s, keep).storage = s.storage
    BY BlockedFollows
  <2>4. Follows(s, r) /\ r.storage = s.storage
    BY <2>2, <2>3, Zenon
  <2>5. QED
    BY <2>4 DEF r
<1>12. CASE stored \notin Record /\ stored # Invalid
  <2>1. r = third
    <3> HIDE DEF first, second, third
    <3>1. QED
      BY <1>2, <1>12, Zenon
  <2> DEFINE now == [me EXCEPT !.unresolved = FALSE]
  <2>2. now \in Mounted /\ now.shown = s.me.shown /\ now.read = s.me.read /\ now.action = s.me.action
    BY <1>5 DEF Mounted
  <2>3. r = [clear EXCEPT !.me = now]
    BY <1>7, <2>1
  <2> HIDE DEF now, third
  <2>4. r \in PanelState /\ r.me = now /\ r.storage = stored
    BY <1>4, <1>6, <2>2, <2>3 DEF PanelState
  <2>5. Honest(r)
    BY <1>4, <2>2, <2>4 DEF Honest
  <2>6. QED
    BY <1>4, <1>12, <2>2, <2>4, <2>5 DEF Follows, r
<1>13. QED
  BY <1>10, <1>11, <1>12

LEMMA RepairedFollows ==
  ASSUME NEW t \in Tab, NEW s \in PanelState, Honest(s), NEW h, Readable(h)
  PROVE  /\ Follows(s, Repaired(t, s, h))
         /\ s.storage \in Record => Repaired(t, s, h).storage = s.storage
<1> DEFINE r == Repaired(t, s, h)
           fine == ~s.me.invalid
           changed == s.me.invalid /\ s.storage # Invalid
           freed == [s EXCEPT !.storage = None]
           first == Recovered(t, s, h)
           second == Recovered(t, freed, h)
<1>1. r = CASE fine -> s [] changed -> first [] OTHER -> second
  BY DEF Repaired
<1>2. changed => ~fine
  OBVIOUS
<1>3. ~fine /\ ~changed => s.storage = Invalid
  <2>1. s.me \in Mounted
    BY DEF PanelState
  <2>2. s.me.invalid \in BOOLEAN
    BY <2>1 DEF Mounted
  <2>3. QED
    BY <2>2
<1> HIDE DEF r, fine, changed
<1>4. CASE fine
  <2>1. r = s
    <3> HIDE DEF first, second
    <3>1. QED
      BY <1>1, <1>2, <1>4, Zenon
  <2>2. QED
    BY <2>1 DEF Follows, r
<1>5. CASE changed
  <2>1. r = first
    <3> HIDE DEF first, second
    <3>1. QED
      BY <1>1, <1>2, <1>5, Zenon
  <2>2. QED
    BY <2>1, RecoveredFollows DEF r
<1>6. CASE ~fine /\ ~changed
  <2>1. r = second
    <3> HIDE DEF first, second
    <3>1. QED
      BY <1>1, <1>6, Zenon
  <2>2. freed \in PanelState /\ freed.me = s.me /\ freed.storage = None
    BY ConstantTypes DEF PanelState
  <2> HIDE DEF freed
  <2>3. Honest(freed)
    BY <2>2, ConstantTypes DEF Honest
  <2>4. Follows(freed, r)
    BY <2>1, <2>2, <2>3, RecoveredFollows
  <2>5. s.storage \notin Record
    BY <1>3, <1>6, ConstantTypes
  <2>6. QED
    BY <2>2, <2>4, <2>5 DEF Follows, r
<1>7. QED
  BY <1>4, <1>5, <1>6

(* r comes after s by a decision about the history h or by a new read.      *)
Moves(s, r, h) ==
  /\ r \in PanelState /\ Honest(r) /\ r.me.shown = s.me.shown
  /\ r.me.read = s.me.read \/ r.me.read = NoRead \/ r.me.read.got = turns
  /\ Kept(s, r, h)

LEMMA ReadingTypes ==
  ASSUME NEW me \in Mounted, NEW by \in {"query", "check", "mutation"}, turns \in History
  PROVE  LET now == Reading(me, by)
         IN  now \in Mounted /\ now.shown = me.shown /\ now.action = me.action /\ now.read.got = turns
<1> DEFINE read == [by |-> by, got |-> turns]
<1>1. read \in Read /\ read.got = turns
  BY DEF Read
<1>2. Reading(me, by) = [me EXCEPT !.read = read]
  BY DEF Reading
<1> HIDE DEF read
<1>3. QED
  BY <1>1, <1>2 DEF Mounted

LEMMA ReadingMoves ==
  ASSUME NEW s, NEW r, Follows(s, r), NEW h, r.storage = s.storage,
         NEW by \in {"query", "check", "mutation"}, turns \in History
  PROVE  Moves(s, [r EXCEPT !.me = Reading(@, by)], h)
<1> DEFINE me == Reading(r.me, by)
           q == [r EXCEPT !.me = me]
<1>1. r \in PanelState /\ Honest(r) /\ r.me.shown = s.me.shown /\ r.me \in Mounted /\ r.storage \in Stored
  BY DEF Follows, PanelState
<1>2. me \in Mounted /\ me.shown = s.me.shown /\ me.action = r.me.action /\ me.read.got = turns
  BY <1>1, ReadingTypes
<1> HIDE DEF me
<1>3. q \in PanelState /\ q.me = me /\ q.storage = r.storage
  BY <1>1, <1>2 DEF PanelState
<1> HIDE DEF q
<1>4. Honest(q)
  BY <1>1, <1>2, <1>3 DEF Honest
<1>5. Moves(s, q, h)
  BY <1>2, <1>3, <1>4 DEF Moves, Kept
<1>6. QED
  BY <1>5 DEF q, me

LEMMA FollowsMoves ==
  ASSUME NEW s, NEW r, NEW h, Follows(s, r), Kept(s, r, h)
  PROVE  Moves(s, r, h)
BY DEF Follows, Moves

LEMMA EffectMoves ==
  ASSUME NEW t \in Tab, Here(t) \in PanelState, Honest(Here(t)), Readable(tab[t].shown), turns \in History
  PROVE  Moves(Here(t), EffectOf(t), tab[t].shown)
<1> DEFINE s == Here(t)
           h == tab[t].shown
           r == EffectOf(t)
           i == TheActive(h)
           made == RecordOf(t, h, i)
           known == IF Proves(h, i, storage) THEN i ELSE NoKey
           a1 == s.me.invalid
           a2 == ~s.me.invalid /\ Known(s)
           a3 == ~s.me.invalid /\ ~Known(s) /\ HasActive(h) /\ storage \in Record
           a4 == ~s.me.invalid /\ ~Known(s) /\ HasActive(h) /\ storage = None
           e1 == [s EXCEPT !.me = Reading(@, "check")]
           e2 == Reconciled(t, s, h)
           e3 == Reconciled(t, Installed(s, storage, known, FALSE), h)
           freed == [s EXCEPT !.storage = made]
           e4 == Installed(freed, made, i, FALSE)
<1>1. s.me = tab[t] /\ s.storage = storage /\ s.me.shown = h
  BY DEF Here
<1>2. r = CASE a1 -> e1 [] a2 -> e2 [] a3 -> e3 [] a4 -> e4 [] OTHER -> s
  BY <1>1 DEF EffectOf
<1>3. (a2 => ~a1) /\ (a3 => ~a1 /\ ~a2) /\ (a4 => ~a1 /\ ~a2 /\ ~a3)
  BY ConstantTypes
<1>4. h \in History
  BY DEF Readable
<1> HIDE DEF s, h, r, i
<1>5. CASE a1
  <2>1. r = e1
    <3> HIDE DEF a1, a2, a3, a4, e1, e2, e3, e4
    <3>1. QED
      BY <1>2, <1>3, <1>5, Zenon
  <2>2. Follows(s, s)
    BY DEF Follows, s
  <2>3. "check" \in {"query", "check", "mutation"}
    OBVIOUS
  <2>4. Moves(s, e1, h)
    BY <2>2, <2>3, ReadingMoves
  <2>5. QED
    BY <2>1, <2>4 DEF s, h, r
<1>6. CASE a2
  <2>1. r = e2
    <3> HIDE DEF a1, a2, a3, a4, e1, e2, e3, e4
    <3>1. QED
      BY <1>2, <1>3, <1>6, Zenon
  <2>2. Follows(s, r) /\ Kept(s, r, h)
    BY <2>1, ReconciledFollows DEF s, h
  <2>3. QED
    BY <2>2, FollowsMoves DEF s, h, r
<1>7. CASE a3
  <2>1. r = e3
    <3> HIDE DEF a1, a2, a3, a4, e1, e2, e3, e4
    <3>1. QED
      BY <1>2, <1>3, <1>7, Zenon
  <2>2. i \in Key /\ storage \in Record
    BY <1>4, <1>7, ActiveTurn, HistoryTypes DEF i
  <2>3. known \in Key \cup {NoKey}
    BY <2>2
  <2>4. s \in PanelState /\ Honest(s) /\ Requested(storage)
    BY <1>1, <2>2 DEF Honest, s
  <2> HIDE DEF known
  <2>5. \A keep : /\ Follows(s, Installed(s, storage, known, keep))
                  /\ Installed(s, storage, known, keep).storage = s.storage
    BY <2>2, <2>3, <2>4, InstalledFollows
  <2> DEFINE q == Installed(s, storage, known, FALSE)
  <2>6. Follows(s, q) /\ q.storage = s.storage
    BY <2>5, Zenon
  <2> HIDE DEF q
  <2>7. q \in PanelState /\ Honest(q) /\ Readable(h)
    BY <2>6 DEF Follows, h
  <2>8. Follows(q, r) /\ Kept(q, r, h)
    BY <2>1, <2>7, ReconciledFollows DEF q
  <2>9. Follows(s, r) /\ Kept(s, r, h)
    BY <2>6, <2>8, FollowsTwice DEF Kept
  <2>10. QED
    BY <2>9, FollowsMoves DEF s, h, r
<1>8. CASE a4
  <2>1. r = e4
    <3> HIDE DEF a1, a2, a3, a4, e1, e2, e3, e4
    <3>1. QED
      BY <1>2, <1>3, <1>8, Zenon
  <2>2. i \in DOMAIN h
    BY <1>8, ActiveTurn DEF i
  <2>3. made \in Record /\ Requested(made) /\ i \in Key \cup {NoKey}
    BY <1>4, <2>2, RecordsAreRequested, HistoryTypes DEF h
  <2> HIDE DEF made
  <2>4. s \in PanelState /\ Honest(s)
    BY DEF s
  <2>5. freed \in PanelState /\ freed.me = s.me /\ freed.storage = made
    BY <2>3, <2>4 DEF PanelState, Stored
  <2> HIDE DEF freed
  <2>6. Honest(freed)
    BY <2>3, <2>4, <2>5 DEF Honest
  <2>7. \A keep : Follows(freed, Installed(freed, made, i, keep))
    BY <2>3, <2>5, <2>6, InstalledFollows
  <2>8. Follows(freed, r)
    BY <2>1, <2>7, Zenon
  <2>9. Follows(s, r)
    BY <2>5, <2>8 DEF Follows
  <2>10. Kept(s, r, h)
    BY <1>1, <1>8, ConstantTypes DEF Kept
  <2>11. QED
    BY <2>9, <2>10, FollowsMoves DEF s, h, r
<1>9. CASE ~a1 /\ ~a2 /\ ~a3 /\ ~a4
  <2>1. r = s
    <3> HIDE DEF a1, a2, a3, a4, e1, e2, e3, e4
    <3>1. QED
      BY <1>2, <1>9, Zenon
  <2>2. QED
    BY <2>1 DEF Moves, Kept, s, h, r
<1>10. QED
  BY <1>5, <1>6, <1>7, <1>8, <1>9

LEMMA OutcomeFollows ==
  ASSUME NEW t \in Tab, NEW s \in PanelState, NEW terminal \in BOOLEAN, NEW h, Honest(s), Known(s),
         terminal => s.me.action.http = "rejected", Readable(s.me.shown), Readable(h)
  PROVE  Follows(s, OutcomeOf(t, s, terminal, h)) /\ Kept(s, OutcomeOf(t, s, terminal, h), s.me.shown)
<1> DEFINE settled == [s EXCEPT !.me = Settled(@)]
           shown == s.me.shown
           r == OutcomeOf(t, s, terminal, h)
           o1 == Decides(settled, shown)
           o2 == ~Decides(settled, shown) /\ s.me.action.turn # NoKey
           o3 == ~Decides(settled, shown) /\ s.me.action.turn = NoKey /\ terminal
           e1 == Reconciled(t, settled, shown)
           e3 == Rejected(t, settled, h)
           e4 == [settled EXCEPT !.me = Showing([@ EXCEPT !.unresolved = TRUE], s.me.action.rec.key, FALSE)]
<1>1. r = CASE o1 -> e1 [] o2 -> settled [] o3 -> e3 [] OTHER -> e4
  BY DEF OutcomeOf
<1>2. (o2 => ~o1) /\ (o3 => ~o1 /\ ~o2)
  OBVIOUS
<1>3. s.me \in Mounted /\ s.storage \in Stored /\ s.me.action # NoAction /\ s.me.action \in Action
  BY DEF PanelState, Known, Mounted
<1> DEFINE me == Settled(s.me)
<1>4. /\ me \in Mounted /\ me.shown = s.me.shown /\ me.read = s.me.read
      /\ me.action \in Action /\ me.action.rec = s.me.action.rec /\ me.action.http = "settled"
  BY <1>3, SettledTypes
<1> HIDE DEF me, r
<1>5. settled \in PanelState /\ settled.me = me /\ settled.storage = s.storage
  BY <1>3, <1>4 DEF PanelState, me
<1>6. Follows(s, settled) /\ Honest(settled) /\ Known(settled)
  <2> HIDE DEF settled
  <2>1. Honest(settled) /\ Known(settled)
    BY <1>3, <1>4, <1>5, ConstantTypes DEF Honest, Known
  <2>2. QED
    BY <1>4, <1>5, <2>1 DEF Follows
<1> HIDE DEF settled
<1>7. CASE o1
  <2>1. r = e1
    <3> HIDE DEF o1, o2, o3, e1, e3, e4
    <3>1. QED
      BY <1>1, <1>2, <1>7, Zenon
  <2>2. Follows(settled, r) /\ Kept(settled, r, shown)
    BY <1>5, <1>6, <2>1, ReconciledFollows
  <2>3. Follows(s, r) /\ Kept(s, r, shown)
    BY <1>5, <1>6, <2>2, FollowsTwice DEF Kept
  <2>4. QED
    BY <2>3 DEF r
<1>8. CASE o2
  <2>1. r = settled
    <3> HIDE DEF o1, o2, o3, e1, e3, e4
    <3>1. QED
      BY <1>1, <1>2, <1>8, Zenon
  <2>2. QED
    BY <1>5, <1>6, <2>1 DEF Kept, r
<1>9. CASE o3
  <2>1. r = e3
    <3> HIDE DEF o1, o2, o3, e1, e3, e4
    <3>1. QED
      BY <1>1, <1>2, <1>9, Zenon
  <2>2. Follows(settled, r) /\ DropsOwn(settled, r)
    BY <1>5, <1>6, <2>1, RejectedFollows
  <2>3. Follows(s, r)
    BY <1>6, <2>2, FollowsTwice
  <2>4. request[s.me.action.rec.key].status = "rejected"
    BY <1>3, <1>9 DEF Honest
  <2>5. Kept(s, r, shown)
    BY <1>4, <1>5, <2>2, <2>4 DEF DropsOwn, Kept
  <2>6. QED
    BY <2>3, <2>5 DEF r
<1>10. CASE ~o1 /\ ~o2 /\ ~o3
  <2>1. r = e4
    <3> HIDE DEF o1, o2, o3, e1, e3, e4
    <3>1. QED
      BY <1>1, <1>10, Zenon
  <2> DEFINE key == s.me.action.rec.key
             open == [me EXCEPT !.unresolved = TRUE]
             now == Showing(open, key, FALSE)
  <2>2. key \in Error
    BY <1>3, ConstantTypes DEF Action, Record
  <2>3. open \in Mounted /\ open.shown = me.shown /\ open.read = me.read /\ open.action = me.action
    BY <1>4 DEF Mounted
  <2> HIDE DEF open, key
  <2>4. \A keep : LET mine == Showing(open, key, keep)
                  IN  mine \in Mounted /\ mine.shown = open.shown /\ mine.read = open.read /\ mine.action = open.action
    BY <2>2, <2>3, ShowingTypes
  <2>5. now \in Mounted /\ now.shown = open.shown /\ now.read = open.read /\ now.action = open.action
    BY <2>4, Zenon
  <2>6. r = [settled EXCEPT !.me = now]
    BY <1>5, <2>1 DEF open, key
  <2> HIDE DEF now
  <2>7. r \in PanelState /\ r.me = now /\ r.storage = s.storage
    BY <1>3, <1>5, <2>5, <2>6 DEF PanelState
  <2>8. Honest(r)
    BY <1>3, <1>4, <2>3, <2>5, <2>7 DEF Honest
  <2>9. QED
    BY <1>4, <2>3, <2>5, <2>7, <2>8 DEF Follows, Kept, r
<1>11. QED
  BY <1>7, <1>8, <1>9, <1>10

-----------------------------------------------------------------------------
(* Steps *)

(* What a step does to the server's state.                                  *)
Grows ==
  /\ Older(turns, turns')
  /\ \A k \in Key :
       /\ request[k].status # "unused" => request'[k].status # "unused" /\ request'[k].turn = request[k].turn
       /\ request[k].status = "rejected" => request'[k].status = "rejected"

(* The two action properties, of one step.                                  *)
NoTabGoesBack ==
  \A t \in Tab : tab[t].mounted /\ tab'[t].mounted =>
    \A i \in DOMAIN tab[t].shown :
      /\ i \in DOMAIN tab'[t].shown
      /\ Rank(tab'[t].shown[i].stage) >= Rank(tab[t].shown[i].stage)

RecordIsKept ==
  (storage \in Record /\ storage' \notin {storage, Invalid})
    => \/ request[storage.key].status = "rejected"
       \/ \E t \in Tab : tab'[t].mounted /\ DecidesAbout(tab'[t].shown, storage)

Good == ViewInv' /\ NoTabGoesBack /\ RecordIsKept

(* No turn of h is missing in g or earlier there.                           *)
NotEarlier(h, g) == \A i \in DOMAIN h : i \in DOMAIN g /\ Rank(h[i].stage) <= Rank(g[i].stage)

LEMMA OlderIsNotLater ==
  ASSUME NEW h, NEW g, Older(h, g)
  PROVE  NotEarlier(h, g)
BY DEF Older, NotEarlier

LEMMA StageRanks == /\ Rank("asked") = 0 /\ Rank("failed") = 1
                    /\ Rank("retried") = 2 /\ Rank("done") = 3
<1>1. Rank("asked") = 0
  BY Zenon DEF Rank
<1>2. Rank("failed") = 1
  BY Zenon DEF Rank
<1>3. Rank("retried") = 2
  BY Zenon DEF Rank
<1>4. Rank("done") = 3
  BY Zenon DEF Rank
<1>5. QED
  BY <1>1, <1>2, <1>3, <1>4

LEMMA RankTypes ==
  ASSUME NEW stage \in Stage
  PROVE  Rank(stage) \in Nat
BY StageRanks DEF Stage

LEMMA HistoryRanks ==
  ASSUME NEW h \in History, NEW i \in DOMAIN h
  PROVE  Rank(h[i].stage) \in Nat
BY HistoryTypes, RankTypes DEF Turn

LEMMA OlderSelf ==
  ASSUME NEW h \in History
  PROVE  Older(h, h)
BY HistoryRanks DEF Older

LEMMA OlderTwice ==
  ASSUME NEW f \in History, NEW g \in History, NEW h \in History, Older(f, g), Older(g, h)
  PROVE  Older(f, h)
<1> SUFFICES ASSUME NEW i \in DOMAIN f
             PROVE  /\ i \in DOMAIN h /\ Rank(f[i].stage) <= Rank(h[i].stage)
                    /\ f[i].retry # NoKey => h[i].retry = f[i].retry
  BY DEF Older
<1>1. i \in DOMAIN g /\ i \in DOMAIN h
  BY DEF Older
<1>2. Rank(f[i].stage) \in Nat /\ Rank(g[i].stage) \in Nat /\ Rank(h[i].stage) \in Nat
  BY <1>1, HistoryRanks
<1>3. Rank(f[i].stage) <= Rank(g[i].stage) /\ Rank(g[i].stage) <= Rank(h[i].stage)
  BY <1>1 DEF Older
<1>4. f[i].retry # NoKey => h[i].retry = f[i].retry
  BY <1>1 DEF Older
<1>5. QED
  BY <1>1, <1>2, <1>3, <1>4

LEMMA PanelTypes ==
  ASSUME NEW me \in Mounted
  PROVE  /\ me.mounted = TRUE /\ me.shown \in History
         /\ me.read # NoRead => me.read \in Read /\ me.read.got \in History
         /\ me.action # NoAction => me.action \in Action /\ me.action.rec \in Record /\ me.action.rec.key \in Key
BY DEF Mounted, Read, Action, Record

LEMMA AgreesLater ==
  ASSUME NEW me \in Mounted, turns \in History, turns' \in History, Grows,
         Agrees(me, turns, request)
  PROVE  Agrees(me, turns', request')
<1>1. Older(me.shown, turns')
  BY PanelTypes, OlderTwice DEF Agrees, Grows
<1>2. me.read # NoRead => Older(me.shown, me.read.got) /\ Older(me.read.got, turns')
  BY PanelTypes, OlderTwice DEF Agrees, Grows
<1>3. ASSUME me.action # NoAction
      PROVE  /\ RequestedIn(me.action.rec, request')
             /\ me.action.http = "rejected" => request'[me.action.rec.key].status = "rejected"
  <2>1. me.action.rec.key \in Key
    BY <1>3, PanelTypes
  <2>2. QED
    BY <1>3, <2>1 DEF Agrees, Grows, RequestedIn
<1>4. QED
  BY <1>1, <1>2, <1>3 DEF Agrees

LEMMA TabsAfter ==
  ASSUME NEW t \in Tab, NEW r, Becomes(t, r)
  PROVE  /\ tab' = [u \in Tab |-> tab'[u]] /\ tab'[t] = r.me
         /\ \A u \in Tab \ {t} :
              \/ tab'[u] = tab[u]
              \/ tab[u].mounted /\ tab'[u] = [tab[u] EXCEPT !.event = TRUE]
<1> DEFINE arm(u) == CASE u = t -> r.me
                       [] u # t /\ tab[u].mounted /\ r.storage # storage -> [tab[u] EXCEPT !.event = TRUE]
                       [] OTHER -> tab[u]
<1>1. tab' = [u \in Tab |-> arm(u)]
  BY DEF Becomes
<1>2. arm(t) = r.me
  BY Zenon
<1>3. ASSUME NEW u \in Tab \ {t}
      PROVE  arm(u) = tab[u] \/ (tab[u].mounted /\ arm(u) = [tab[u] EXCEPT !.event = TRUE])
  <2>1. u # t
    OBVIOUS
  <2>2. CASE tab[u].mounted /\ r.storage # storage
    BY <2>1, <2>2, Zenon
  <2>3. CASE ~(tab[u].mounted /\ r.storage # storage)
    BY <2>1, <2>3, Zenon
  <2>4. QED
    BY <2>2, <2>3
<1> HIDE DEF arm
<1>4. QED
  BY <1>1, <1>2, <1>3

LEMMA EventTypes ==
  ASSUME NEW me \in Mounted
  PROVE  LET now == [me EXCEPT !.event = TRUE]
         IN  now \in Mounted /\ now.shown = me.shown /\ now.read = me.read /\ now.action = me.action
BY DEF Mounted

(* A step of one tab: what it must show for the other tabs, the server and  *)
(* the properties to be in order.                                           *)
LEMMA TabStep ==
  ASSUME ViewInv, NEW t \in Tab, NEW r, Becomes(t, r), Grows, r.storage \in Stored,
         turns' \in History, request' \in [Key -> Request], mounts' \in 0..MaxMounts, faults' \in 0..MaxFaults,
         TurnsAreAccepted', RequestsHaveTurns',
         r.storage \in Record => RequestedIn(r.storage, request'),
         r.me = Unmounted \/ (r.me \in Mounted /\ Agrees(r.me, turns', request')),
         r.me # Unmounted /\ tab[t].mounted => NotEarlier(tab[t].shown, r.me.shown),
         storage \in Record /\ r.storage \notin {storage, Invalid} =>
           \/ request[storage.key].status = "rejected"
           \/ r.me \in Mounted /\ DecidesAbout(r.me.shown, storage)
  PROVE  Good
<1>1. Types /\ turns \in History
  BY DEF ViewInv, Types
<1>2. /\ tab' = [u \in Tab |-> tab'[u]] /\ tab'[t] = r.me
      /\ \A u \in Tab \ {t} :
           \/ tab'[u] = tab[u]
           \/ tab[u].mounted /\ tab'[u] = [tab[u] EXCEPT !.event = TRUE]
  BY TabsAfter
<1>3. storage' = r.storage
  BY DEF Becomes
<1>4. Unmounted.mounted = FALSE
  BY DEF Unmounted
<1>5. ASSUME NEW u \in Tab
      PROVE  /\ tab[u] = Unmounted \/ tab[u] \in Mounted
             /\ tab[u].mounted => tab[u] \in Mounted /\ Agrees(tab[u], turns, request)
  BY <1>1, <1>4 DEF ViewInv, Types
<1>6. ASSUME NEW u \in Tab \ {t}
      PROVE  /\ tab'[u] = Unmounted \/ (tab'[u] \in Mounted /\ Agrees(tab'[u], turns', request'))
             /\ tab[u].mounted => tab'[u] \in Mounted /\ tab'[u].shown = tab[u].shown
  <2>1. CASE tab[u] = Unmounted
    BY <1>2, <1>4, <2>1
  <2>2. CASE tab[u] \in Mounted
    <3>1. Agrees(tab[u], turns', request')
      BY <1>1, <1>5, <2>2, PanelTypes, AgreesLater
    <3>2. CASE tab'[u] = tab[u]
      BY <2>2, <3>1, <3>2
    <3>3. CASE tab'[u] = [tab[u] EXCEPT !.event = TRUE]
      <4>1. /\ tab'[u] \in Mounted /\ tab'[u].shown = tab[u].shown /\ tab'[u].read = tab[u].read
            /\ tab'[u].action = tab[u].action
        BY <2>2, <3>3, EventTypes
      <4>2. QED
        BY <3>1, <4>1 DEF Agrees
    <3>4. QED
      BY <1>2, <3>2, <3>3
  <2>3. QED
    BY <1>5, <2>1, <2>2
<1>7. \A u \in Tab : tab'[u] = Unmounted \/ (tab'[u] \in Mounted /\ Agrees(tab'[u], turns', request'))
  BY <1>2, <1>6
<1>8. ViewInv'
  <2>1. tab' \in [Tab -> {Unmounted} \cup Mounted]
    BY <1>2, <1>7
  <2>2. storage' \in Stored
    BY <1>3
  <2>3. Types'
    BY <2>1, <2>2 DEF Types, Stored, Record, None, Invalid, Unmounted, Mounted
  <2>4. \A u \in Tab : tab'[u].mounted => Agrees(tab'[u], turns', request')
    BY <1>4, <1>7
  <2>5. storage' \in Record => RequestedIn(storage', request')
    BY <1>3
  <2>6. QED
    BY <2>3, <2>4, <2>5 DEF ViewInv, Record
<1>9. NoTabGoesBack
  <2> SUFFICES ASSUME NEW u \in Tab, tab[u].mounted, tab'[u].mounted, NEW i \in DOMAIN tab[u].shown
               PROVE  /\ i \in DOMAIN tab'[u].shown
                      /\ Rank(tab'[u].shown[i].stage) >= Rank(tab[u].shown[i].stage)
    BY DEF NoTabGoesBack
  <2>1. NotEarlier(tab[u].shown, tab'[u].shown) /\ tab[u].shown \in History /\ tab'[u].shown \in History
    <3>1. tab[u] \in Mounted /\ tab'[u] \in Mounted
      BY <1>4, <1>5, <1>7
    <3>2. tab[u].shown \in History /\ tab'[u].shown \in History
      BY <3>1, PanelTypes
    <3>3. CASE u = t
      BY <1>2, <1>4, <3>2, <3>3
    <3>4. CASE u # t
      BY <1>6, <3>2, <3>4, OlderSelf, OlderIsNotLater
    <3>5. QED
      BY <3>3, <3>4
  <2>2. i \in DOMAIN tab'[u].shown /\ Rank(tab[u].shown[i].stage) <= Rank(tab'[u].shown[i].stage)
    BY <2>1 DEF NotEarlier
  <2>3. Rank(tab[u].shown[i].stage) \in Nat /\ Rank(tab'[u].shown[i].stage) \in Nat
    BY <2>1, <2>2, HistoryRanks
  <2>4. QED
    BY <2>2, <2>3
<1>10. RecordIsKept
  <2>1. r.me \in Mounted => tab'[t].mounted /\ tab'[t].shown = r.me.shown
    BY <1>2, PanelTypes
  <2>2. QED
    BY <1>3, <2>1 DEF RecordIsKept
<1>11. QED
  BY <1>8, <1>9, <1>10 DEF Good

LEMMA OldHistoriesAreReadable ==
  ASSUME ViewInv, NEW h \in History, Older(h, turns)
  PROVE  Readable(h)
<1> SUFFICES ASSUME NEW i \in DOMAIN h
             PROVE  /\ request[i].status # "unused" /\ request[i].turn = NoKey
                    /\ h[i].retry # NoKey => request[h[i].retry].status # "unused" /\ request[h[i].retry].turn = i
  BY DEF Readable
<1>1. i \in DOMAIN turns /\ (h[i].retry # NoKey => turns[i].retry = h[i].retry)
  BY DEF Older
<1>2. request[i] = [status |-> "accepted", turn |-> NoKey]
  BY <1>1 DEF ViewInv, TurnsAreAccepted
<1>3. h[i].retry # NoKey => request[h[i].retry] = [status |-> "accepted", turn |-> i]
  BY <1>1 DEF ViewInv, TurnsAreAccepted
<1>4. QED
  BY <1>2, <1>3

LEMMA MountedPanel ==
  ASSUME ViewInv, NEW t \in Tab, tab[t].mounted
  PROVE  /\ tab[t] \in Mounted /\ tab[t].shown \in History
         /\ Here(t) \in PanelState /\ Honest(Here(t)) /\ Here(t).me = tab[t] /\ Here(t).storage = storage
         /\ turns \in History /\ Older(tab[t].shown, turns) /\ Readable(tab[t].shown) /\ Older(tab[t].shown, tab[t].shown)
         /\ tab[t].read # NoRead =>
              /\ tab[t].read \in Read /\ tab[t].read.got \in History /\ Readable(tab[t].read.got)
              /\ Older(tab[t].shown, tab[t].read.got) /\ Older(tab[t].read.got, turns)
<1>1. tab[t] \in Mounted /\ storage \in Stored /\ turns \in History
  BY DEF ViewInv, Types, Unmounted
<1>2. Agrees(tab[t], turns, request)
  BY DEF ViewInv
<1>3. Here(t).me = tab[t] /\ Here(t).storage = storage /\ Here(t) \in PanelState
  BY <1>1 DEF Here, PanelState
<1>4. Honest(Here(t))
  BY <1>2, <1>3 DEF Honest, Agrees, ViewInv, Requested
<1>5. Older(tab[t].shown, turns) /\ tab[t].shown \in History
  BY <1>1, <1>2, PanelTypes DEF Agrees
<1>6. Readable(tab[t].shown) /\ Older(tab[t].shown, tab[t].shown)
  BY <1>5, OldHistoriesAreReadable, OlderSelf
<1>7. ASSUME tab[t].read # NoRead
      PROVE  /\ tab[t].read \in Read /\ tab[t].read.got \in History /\ Readable(tab[t].read.got)
             /\ Older(tab[t].shown, tab[t].read.got) /\ Older(tab[t].read.got, turns)
  <2>1. tab[t].read \in Read /\ tab[t].read.got \in History
    BY <1>1, <1>7, PanelTypes
  <2>2. Older(tab[t].shown, tab[t].read.got) /\ Older(tab[t].read.got, turns)
    BY <1>2, <1>7 DEF Agrees
  <2>3. QED
    BY <2>1, <2>2, OldHistoriesAreReadable
<1>8. QED
  BY <1>1, <1>3, <1>4, <1>5, <1>6, <1>7

LEMMA ServerStays ==
  ASSUME ViewInv, UNCHANGED <<turns, request>>
  PROVE  /\ Grows /\ turns' \in History /\ request' \in [Key -> Request]
         /\ TurnsAreAccepted' /\ RequestsHaveTurns'
<1>1. turns \in History /\ request \in [Key -> Request]
  BY DEF ViewInv, Types
<1>2. Grows
  BY <1>1, OlderSelf DEF Grows
<1>3. QED
  BY <1>1, <1>2 DEF ViewInv, TurnsAreAccepted, RequestsHaveTurns

(* A tab moves from s, to which the event or the answer brought it, to r.   *)
LEMMA MoveToStep ==
  ASSUME ViewInv, NEW t \in Tab, NEW s, NEW r, Moves(s, r, s.me.shown), Becomes(t, r),
         UNCHANGED <<turns, request>>, mounts' \in 0..MaxMounts, faults' \in 0..MaxFaults,
         s.storage = storage, s.me.shown \in History, Older(s.me.shown, turns),
         tab[t].mounted => NotEarlier(tab[t].shown, s.me.shown),
         s.me.read # NoRead => Older(s.me.shown, s.me.read.got) /\ Older(s.me.read.got, turns)
  PROVE  Good
<1>1. /\ Grows /\ turns' \in History /\ request' \in [Key -> Request]
      /\ TurnsAreAccepted' /\ RequestsHaveTurns'
  BY ServerStays
<1>2. r.me \in Mounted /\ r.storage \in Stored /\ Honest(r) /\ r.me.shown = s.me.shown
  BY DEF Moves, PanelState
<1>3. turns \in History /\ turns' = turns /\ request' = request
  BY DEF ViewInv, Types
<1>4. r.storage \in Record => RequestedIn(r.storage, request')
  BY <1>2, <1>3 DEF Honest, Requested
<1>5. Agrees(r.me, turns, request)
  <2>1. r.me.action # NoAction =>
          /\ RequestedIn(r.me.action.rec, request)
          /\ r.me.action.http = "rejected" => request[r.me.action.rec.key].status = "rejected"
    BY <1>2 DEF Honest, Requested
  <2>2. r.me.read # NoRead => Older(r.me.shown, r.me.read.got) /\ Older(r.me.read.got, turns)
    <3>1. CASE r.me.read = s.me.read
      BY <1>2, <3>1
    <3>2. CASE r.me.read = NoRead
      BY <3>2
    <3>3. CASE r.me.read.got = turns
      BY <1>2, <1>3, <3>3, OlderSelf
    <3>4. QED
      BY <3>1, <3>2, <3>3 DEF Moves
  <2>3. QED
    BY <1>2, <2>1, <2>2 DEF Agrees
<1>6. storage \in Record /\ r.storage \notin {storage, Invalid} =>
        \/ request[storage.key].status = "rejected"
        \/ r.me \in Mounted /\ DecidesAbout(r.me.shown, storage)
  BY <1>2 DEF Moves, Kept
<1>7. r.me # Unmounted /\ tab[t].mounted => NotEarlier(tab[t].shown, r.me.shown)
  BY <1>2
<1>8. QED
  BY <1>1, <1>2, <1>3, <1>4, <1>5, <1>6, <1>7, TabStep

LEMMA MoveStep ==
  ASSUME ViewInv, NEW t \in Tab, NEW s, NEW r, Moves(s, r, s.me.shown), Becomes(t, r),
         UNCHANGED <<turns, request>>, mounts' \in 0..MaxMounts, faults' \in 0..MaxFaults,
         s.storage = storage, s.me.shown \in History, Older(s.me.shown, turns),
         tab[t].mounted => Older(tab[t].shown, s.me.shown),
         s.me.read # NoRead => Older(s.me.shown, s.me.read.got) /\ Older(s.me.read.got, turns)
  PROVE  Good
BY OlderIsNotLater, MoveToStep

(* The step to s itself.                                                    *)
LEMMA PlainStep ==
  ASSUME ViewInv, NEW t \in Tab, NEW s, s \in PanelState, Honest(s), Becomes(t, s),
         UNCHANGED <<turns, request>>, mounts' \in 0..MaxMounts, faults' \in 0..MaxFaults,
         s.storage = storage, Older(s.me.shown, turns),
         tab[t].mounted => Older(tab[t].shown, s.me.shown),
         s.me.read # NoRead => Older(s.me.shown, s.me.read.got) /\ Older(s.me.read.got, turns)
  PROVE  Good
<1>1. Moves(s, s, s.me.shown)
  BY DEF Moves, Kept
<1>2. s.me.shown \in History
  BY PanelTypes DEF PanelState
<1>3. QED
  BY <1>1, <1>2, MoveStep

LEMMA CounterBounds ==
  ASSUME ViewInv
  PROVE  /\ UNCHANGED mounts => mounts' \in 0..MaxMounts
         /\ UNCHANGED faults => faults' \in 0..MaxFaults
         /\ mounts < MaxMounts /\ mounts' = mounts + 1 => mounts' \in 0..MaxMounts
         /\ faults < MaxFaults /\ faults' = faults + 1 => faults' \in 0..MaxFaults
<1>1. mounts \in 0..MaxMounts /\ faults \in 0..MaxFaults /\ MaxMounts \in Nat /\ MaxFaults \in Nat
  BY ViewAssumption DEF ViewInv, Types
<1>2. QED
  BY <1>1

LEMMA StepUnmount ==
  ASSUME ViewInv, NEW t \in Tab, Unmount(t)
  PROVE  Good
<1> DEFINE r == [me |-> Unmounted, storage |-> storage]
<1>1. r.me = Unmounted /\ r.storage = storage
  OBVIOUS
<1>2. Becomes(t, r) /\ UNCHANGED <<turns, request, mounts, faults>>
  BY DEF Unmount
<1> HIDE DEF r
<1>3. mounts' \in 0..MaxMounts /\ faults' \in 0..MaxFaults
  BY <1>2, CounterBounds
<1>4. storage \in Stored /\ (storage \in Record => RequestedIn(storage, request')) /\ Unmounted \notin Mounted
  BY <1>2 DEF ViewInv, Types, Unmounted, Mounted
<1>5. /\ Grows /\ turns' \in History /\ request' \in [Key -> Request]
      /\ TurnsAreAccepted' /\ RequestsHaveTurns'
  BY <1>2, ServerStays
<1>6. QED
  BY <1>1, <1>2, <1>3, <1>4, <1>5, TabStep

LEMMA StepStartRead ==
  ASSUME ViewInv, NEW t \in Tab, NEW by \in {"query", "check"}, StartRead(t, by)
  PROVE  Good
<1> DEFINE s == Here(t)
           r == [s EXCEPT !.me = Reading(@, by)]
<1>1. tab[t].mounted /\ Becomes(t, r) /\ UNCHANGED <<turns, request, mounts, faults>>
  BY DEF StartRead
<1>2. /\ s \in PanelState /\ Honest(s) /\ s.me = tab[t] /\ s.storage = storage
      /\ turns \in History /\ tab[t].shown \in History /\ Older(tab[t].shown, turns) /\ Older(tab[t].shown, tab[t].shown)
      /\ tab[t].read # NoRead => Older(tab[t].shown, tab[t].read.got) /\ Older(tab[t].read.got, turns)
  BY <1>1, MountedPanel
<1> HIDE DEF s
<1>3. Follows(s, s) /\ by \in {"query", "check", "mutation"}
  BY <1>2 DEF Follows
<1>4. Moves(s, r, s.me.shown)
  BY <1>2, <1>3, ReadingMoves
<1> HIDE DEF r
<1>5. mounts' \in 0..MaxMounts /\ faults' \in 0..MaxFaults
  BY <1>1, CounterBounds
<1>6. QED
  BY <1>1, <1>2, <1>4, <1>5, MoveStep

LEMMA StepQueryDelivered ==
  ASSUME ViewInv, NEW t \in Tab, QueryDelivered(t)
  PROVE  Good
<1> DEFINE me == [tab[t] EXCEPT !.shown = tab[t].read.got, !.loaded = TRUE, !.read = NoRead]
           r == [Here(t) EXCEPT !.me = me]
<1>1. tab[t].mounted /\ tab[t].read.by = "query" /\ UNCHANGED <<turns, request, mounts, faults>>
  BY DEF QueryDelivered
<1>2. tab[t].read # NoRead
  BY <1>1 DEF NoRead
<1>3. /\ tab[t] \in Mounted /\ Here(t) \in PanelState /\ Honest(Here(t)) /\ Here(t).me = tab[t] /\ Here(t).storage = storage
      /\ tab[t].read.got \in History /\ Older(tab[t].shown, tab[t].read.got) /\ Older(tab[t].read.got, turns)
  BY <1>1, <1>2, MountedPanel
<1>4. Becomes(t, r)
  BY <1>3 DEF QueryDelivered
<1>5. me \in Mounted /\ me.shown = tab[t].read.got /\ me.read = NoRead /\ me.action = tab[t].action
  BY <1>3 DEF Mounted
<1> HIDE DEF me
<1>6. r \in PanelState /\ r.me = me /\ r.storage = storage
  BY <1>3, <1>5 DEF PanelState
<1> HIDE DEF r
<1>7. Honest(r)
  BY <1>3, <1>5, <1>6 DEF Honest
<1>8. mounts' \in 0..MaxMounts /\ faults' \in 0..MaxFaults
  BY <1>1, CounterBounds
<1>9. QED
  BY <1>1, <1>3, <1>4, <1>5, <1>6, <1>7, <1>8, PlainStep

LEMMA StepQuerySuperseded ==
  ASSUME ViewInv, NEW t \in Tab, QuerySuperseded(t)
  PROVE  Good
<1> DEFINE me == [tab[t] EXCEPT !.loaded = TRUE]
           r == [Here(t) EXCEPT !.me = me]
<1>1. tab[t].mounted /\ UNCHANGED <<turns, request, mounts, faults>>
  BY DEF QuerySuperseded
<1>2. /\ tab[t] \in Mounted /\ Here(t) \in PanelState /\ Honest(Here(t)) /\ Here(t).me = tab[t] /\ Here(t).storage = storage
      /\ Older(tab[t].shown, tab[t].shown) /\ Older(tab[t].shown, turns)
      /\ tab[t].read # NoRead => Older(tab[t].shown, tab[t].read.got) /\ Older(tab[t].read.got, turns)
  BY <1>1, MountedPanel
<1>3. Becomes(t, r)
  BY <1>2 DEF QuerySuperseded
<1>4. me \in Mounted /\ me.shown = tab[t].shown /\ me.read = tab[t].read /\ me.action = tab[t].action
  BY <1>2 DEF Mounted
<1> HIDE DEF me
<1>5. r \in PanelState /\ r.me = me /\ r.storage = storage
  BY <1>2, <1>4 DEF PanelState
<1> HIDE DEF r
<1>6. Honest(r)
  BY <1>2, <1>4, <1>5 DEF Honest
<1>7. mounts' \in 0..MaxMounts /\ faults' \in 0..MaxFaults
  BY <1>1, CounterBounds
<1>8. QED
  BY <1>1, <1>2, <1>3, <1>4, <1>5, <1>6, <1>7, PlainStep

LEMMA StepCheckDelivered ==
  ASSUME ViewInv, NEW t \in Tab, CheckDelivered(t)
  PROVE  Good
<1> DEFINE h == tab[t].read.got
           me == [tab[t] EXCEPT !.shown = h, !.loaded = TRUE, !.read = NoRead]
           s == [Here(t) EXCEPT !.me = me]
           q == Repaired(t, s, h)
           r == Reconciled(t, q, h)
<1>1. tab[t].mounted /\ tab[t].read.by = "check" /\ UNCHANGED <<turns, request, mounts, faults>>
  BY DEF CheckDelivered
<1>2. tab[t].read # NoRead
  BY <1>1 DEF NoRead
<1>3. /\ tab[t] \in Mounted /\ Here(t) \in PanelState /\ Honest(Here(t)) /\ Here(t).me = tab[t] /\ Here(t).storage = storage
      /\ h \in History /\ Older(tab[t].shown, h) /\ Older(h, turns) /\ Readable(h)
  BY <1>1, <1>2, MountedPanel
<1>4. Becomes(t, r)
  BY <1>3 DEF CheckDelivered
<1> HIDE DEF h
<1>5. me \in Mounted /\ me.shown = h /\ me.read = NoRead /\ me.action = tab[t].action
  BY <1>3 DEF Mounted
<1> HIDE DEF me
<1>6. s \in PanelState /\ s.me = me /\ s.storage = storage
  BY <1>3, <1>5 DEF PanelState
<1> HIDE DEF s
<1>7. Honest(s)
  BY <1>3, <1>5, <1>6 DEF Honest
<1>8. Follows(s, q) /\ (s.storage \in Record => q.storage = s.storage)
  BY <1>3, <1>6, <1>7, RepairedFollows
<1> HIDE DEF q
<1>9. q \in PanelState /\ Honest(q)
  BY <1>8 DEF Follows
<1>10. Follows(q, r) /\ Kept(q, r, h)
  BY <1>3, <1>9, ReconciledFollows
<1> HIDE DEF r
<1>11. Follows(s, r) /\ Kept(s, r, h)
  BY <1>8, <1>10, FollowsTwice DEF Kept
<1>12. Moves(s, r, s.me.shown)
  BY <1>5, <1>6, <1>11, FollowsMoves
<1>13. mounts' \in 0..MaxMounts /\ faults' \in 0..MaxFaults
  BY <1>1, CounterBounds
<1>14. QED
  BY <1>1, <1>3, <1>4, <1>5, <1>6, <1>12, <1>13, MoveStep

LEMMA StepReadFails ==
  ASSUME ViewInv, NEW t \in Tab, ReadFails(t)
  PROVE  Good
<1>1. tab[t].mounted /\ UNCHANGED <<turns, request, mounts>> /\ faults' \in 0..MaxFaults /\ mounts' \in 0..MaxMounts
  BY CounterBounds DEF ReadFails
<1>2. /\ tab[t] \in Mounted /\ Here(t) \in PanelState /\ Honest(Here(t)) /\ Here(t).me = tab[t] /\ Here(t).storage = storage
      /\ Older(tab[t].shown, tab[t].shown) /\ Older(tab[t].shown, turns)
  BY <1>1, MountedPanel
<1>3. PICK loaded \in BOOLEAN :
        Becomes(t, [Here(t) EXCEPT !.me = [tab[t] EXCEPT !.read = NoRead, !.loaded = loaded]])
  <2>1. CASE Becomes(t, [Here(t) EXCEPT !.me.read = NoRead, !.me.loaded = FALSE])
    <3>1. [Here(t) EXCEPT !.me.read = NoRead, !.me.loaded = FALSE]
            = [Here(t) EXCEPT !.me = [tab[t] EXCEPT !.read = NoRead, !.loaded = FALSE]]
      BY <1>2 DEF PanelState
    <3>2. QED
      BY <2>1, <3>1, Zenon
  <2>2. CASE Becomes(t, [Here(t) EXCEPT !.me.read = NoRead])
    <3>1. [Here(t) EXCEPT !.me.read = NoRead]
            = [Here(t) EXCEPT !.me = [tab[t] EXCEPT !.read = NoRead, !.loaded = tab[t].loaded]]
      BY <1>2 DEF PanelState, Mounted
    <3>2. tab[t].loaded \in BOOLEAN
      BY <1>2 DEF Mounted
    <3>3. QED
      BY <2>2, <3>1, <3>2
  <2>3. QED
    BY <2>1, <2>2 DEF ReadFails
<1> DEFINE me == [tab[t] EXCEPT !.read = NoRead, !.loaded = loaded]
           r == [Here(t) EXCEPT !.me = me]
<1>4. me \in Mounted /\ me.shown = tab[t].shown /\ me.read = NoRead /\ me.action = tab[t].action
  BY <1>2 DEF Mounted
<1>5. Becomes(t, r)
  BY <1>3
<1> HIDE DEF me
<1>6. r \in PanelState /\ r.me = me /\ r.storage = storage
  BY <1>2, <1>4 DEF PanelState
<1> HIDE DEF r
<1>7. Honest(r)
  BY <1>2, <1>4, <1>6 DEF Honest
<1>8. QED
  BY <1>1, <1>2, <1>4, <1>5, <1>6, <1>7, PlainStep

LEMMA MountedStep ==
  ASSUME ViewInv, NEW t \in Tab, tab[t].mounted, NEW r, Moves(Here(t), r, tab[t].shown), Becomes(t, r),
         UNCHANGED <<turns, request>>, mounts' \in 0..MaxMounts, faults' \in 0..MaxFaults
  PROVE  Good
<1> DEFINE s == Here(t)
<1>1. /\ s.me = tab[t] /\ s.storage = storage
      /\ tab[t].shown \in History /\ Older(tab[t].shown, turns) /\ Older(tab[t].shown, tab[t].shown)
      /\ tab[t].read # NoRead => Older(tab[t].shown, tab[t].read.got) /\ Older(tab[t].read.got, turns)
  BY MountedPanel
<1>2. Moves(s, r, tab[t].shown)
  OBVIOUS
<1> HIDE DEF s
<1>3. QED
  BY <1>1, <1>2, MoveStep

LEMMA StepTurnsEffect ==
  ASSUME ViewInv, NEW t \in Tab, TurnsEffect(t)
  PROVE  Good
<1>1. tab[t].mounted /\ Becomes(t, EffectOf(t)) /\ UNCHANGED <<turns, request, mounts, faults>>
  BY DEF TurnsEffect
<1>2. Here(t) \in PanelState /\ Honest(Here(t)) /\ Readable(tab[t].shown) /\ turns \in History
  BY <1>1, MountedPanel
<1>3. Moves(Here(t), EffectOf(t), tab[t].shown)
  BY <1>2, EffectMoves
<1>4. mounts' \in 0..MaxMounts /\ faults' \in 0..MaxFaults
  BY <1>1, CounterBounds
<1>5. QED
  BY <1>1, <1>3, <1>4, MountedStep

LEMMA MetFollows ==
  ASSUME NEW s \in PanelState, Honest(s)
  PROVE  /\ s.storage \in Record =>
              /\ Follows(s, Installed(s, s.storage, NoKey, FALSE))
              /\ Installed(s, s.storage, NoKey, FALSE).storage = s.storage
         /\ \A keep : Follows(s, Blocked(s, keep)) /\ Blocked(s, keep).storage = s.storage
<1>1. ASSUME s.storage \in Record
      PROVE  /\ Follows(s, Installed(s, s.storage, NoKey, FALSE))
             /\ Installed(s, s.storage, NoKey, FALSE).storage = s.storage
  <2>1. Requested(s.storage) /\ NoKey \in Key \cup {NoKey}
    BY <1>1 DEF Honest
  <2>2. \A keep : /\ Follows(s, Installed(s, s.storage, NoKey, keep))
                  /\ Installed(s, s.storage, NoKey, keep).storage = s.storage
    BY <1>1, <2>1, InstalledFollows
  <2>3. QED
    BY <2>2, Zenon
<1>2. ASSUME NEW keep
      PROVE  Follows(s, Blocked(s, keep)) /\ Blocked(s, keep).storage = s.storage
  BY BlockedFollows
<1>3. QED
  BY <1>1, <1>2

LEMMA FreshPanel ==
  ASSUME turns \in History
  PROVE  LET me == Reading(Fresh, "query")
         IN  me \in Mounted /\ me.shown = NoTurns /\ me.action = NoAction /\ me.read.got = turns
<1>1. NoTurns \in History
  <2>1. NoTurns \in [{} -> Turn]
    BY DEF NoTurns
  <2>2. QED
    BY <2>1 DEF History
<1>2. Fresh \in Mounted /\ Fresh.shown = NoTurns /\ Fresh.action = NoAction
  BY <1>1, ConstantTypes DEF Fresh, Mounted
<1>3. "query" \in {"query", "check", "mutation"}
  OBVIOUS
<1>4. QED
  BY <1>2, <1>3, ReadingTypes

LEMMA StepMount ==
  ASSUME ViewInv, NEW t \in Tab, Mount(t)
  PROVE  Good
<1> DEFINE me == Reading(Fresh, "query")
           s == [me |-> me, storage |-> storage]
           found == Installed(s, storage, NoKey, FALSE)
           e1 == [found EXCEPT !.me = Reading(@, "check")]
           e2 == Blocked(s, FALSE)
           a1 == storage \in Record
           a2 == storage = Invalid
           r == CASE a1 -> e1 [] a2 -> e2 [] OTHER -> s
<1>1. ~tab[t].mounted /\ UNCHANGED <<turns, request, faults>> /\ mounts < MaxMounts /\ mounts' = mounts + 1
  BY DEF Mount
<1>2. Becomes(t, r)
  BY DEF Mount
<1>3. mounts' \in 0..MaxMounts /\ faults' \in 0..MaxFaults
  BY <1>1, CounterBounds
<1>4. storage \in Stored /\ turns \in History
  BY DEF ViewInv, Types
<1>5. me \in Mounted /\ me.shown = NoTurns /\ me.action = NoAction /\ me.read.got = turns
  BY <1>4, FreshPanel
<1> HIDE DEF me
<1>6. s \in PanelState /\ s.me = me /\ s.storage = storage
  BY <1>4, <1>5 DEF PanelState
<1> HIDE DEF s
<1>7. Honest(s)
  BY <1>5, <1>6 DEF Honest, ViewInv, Requested
<1>8. Moves(s, r, s.me.shown)
  <2>1. CASE a1
    <3>1. r = e1
      <4>1. ~a2
        BY <2>1, ConstantTypes
      <4> HIDE DEF a1, a2, e1, e2
      <4>2. QED
        BY <2>1, <4>1, Zenon
    <3>2. Follows(s, found) /\ found.storage = s.storage
      BY <1>6, <1>7, <2>1, MetFollows
    <3> HIDE DEF found
    <3>3. "check" \in {"query", "check", "mutation"}
      OBVIOUS
    <3>4. Moves(s, e1, s.me.shown)
      BY <1>4, <3>2, <3>3, ReadingMoves
    <3>5. QED
      BY <3>1, <3>4
  <2>2. CASE a2
    <3>1. ~a1
      BY <2>2, ConstantTypes
    <3>2. r = e2
      <4> HIDE DEF a1, a2, e1, e2
      <4>1. QED
        BY <2>2, <3>1, Zenon
    <3>3. \A keep : Follows(s, Blocked(s, keep)) /\ Blocked(s, keep).storage = s.storage
      BY <1>6, <1>7, MetFollows
    <3> HIDE DEF r
    <3>4. Follows(s, r) /\ r.storage = s.storage
      BY <3>2, <3>3, Zenon
    <3>5. Kept(s, r, s.me.shown)
      BY <3>4 DEF Kept
    <3>6. QED
      BY <3>4, <3>5, FollowsMoves
  <2>3. CASE ~a1 /\ ~a2
    <3>1. r = s
      <4> HIDE DEF a1, a2, e1, e2
      <4>1. QED
        BY <2>3, Zenon
    <3>2. Moves(s, s, s.me.shown)
      BY <1>6, <1>7 DEF Moves, Kept
    <3>3. QED
      BY <3>1, <3>2
  <2>4. QED
    BY <2>1, <2>2, <2>3
<1> HIDE DEF r
<1>9. Older(NoTurns, turns) /\ NoTurns \in History
  <2>1. DOMAIN NoTurns = {}
    BY DEF NoTurns
  <2>2. NoTurns \in History
    BY <1>5, PanelTypes
  <2>3. QED
    BY <2>1, <2>2 DEF Older
<1>10. Older(s.me.shown, turns) /\ s.me.shown \in History
  BY <1>5, <1>6, <1>9
<1>11. Older(s.me.shown, s.me.read.got) /\ Older(s.me.read.got, turns)
  BY <1>4, <1>5, <1>6, <1>9, OlderSelf
<1>12. QED
  BY <1>1, <1>2, <1>3, <1>6, <1>8, <1>10, <1>11, MoveStep

LEMMA StepStorageEvent ==
  ASSUME ViewInv, NEW t \in Tab, StorageEvent(t)
  PROVE  Good
<1> DEFINE me == [tab[t] EXCEPT !.event = FALSE]
           s == [Here(t) EXCEPT !.me = me]
           e1 == Installed(s, storage, NoKey, FALSE)
           e2 == Blocked(s, TRUE)
           a1 == storage \in Record
           a2 == storage = Invalid
           seen == CASE a1 -> e1 [] a2 -> e2 [] OTHER -> s
           r == [seen EXCEPT !.me = Reading(@, "check")]
<1>1. tab[t].mounted /\ UNCHANGED <<turns, request, mounts, faults>>
  BY DEF StorageEvent
<1>2. /\ tab[t] \in Mounted /\ Here(t) \in PanelState /\ Honest(Here(t)) /\ Here(t).me = tab[t] /\ Here(t).storage = storage
      /\ turns \in History /\ tab[t].shown \in History /\ Older(tab[t].shown, turns) /\ Older(tab[t].shown, tab[t].shown)
      /\ tab[t].read # NoRead => Older(tab[t].shown, tab[t].read.got) /\ Older(tab[t].read.got, turns)
  BY <1>1, MountedPanel
<1>3. Becomes(t, r)
  BY <1>2 DEF StorageEvent
<1>4. me \in Mounted /\ me.shown = tab[t].shown /\ me.read = tab[t].read /\ me.action = tab[t].action
  BY <1>2 DEF Mounted
<1> HIDE DEF me
<1>5. s \in PanelState /\ s.me = me /\ s.storage = storage
  BY <1>2, <1>4 DEF PanelState
<1> HIDE DEF s
<1>6. Honest(s)
  BY <1>2, <1>4, <1>5 DEF Honest
<1>7. Follows(s, seen) /\ seen.storage = s.storage
  <2>1. CASE a1
    <3>1. seen = e1
      <4>1. ~a2
        BY <2>1, ConstantTypes
      <4> HIDE DEF a1, a2, e1, e2
      <4>2. QED
        BY <2>1, <4>1, Zenon
    <3>2. Follows(s, e1) /\ e1.storage = s.storage
      BY <1>5, <1>6, <2>1, MetFollows
    <3>3. QED
      BY <3>1, <3>2
  <2>2. CASE a2
    <3>1. ~a1
      BY <2>2, ConstantTypes
    <3>2. seen = e2
      <4> HIDE DEF a1, a2, e1, e2
      <4>1. QED
        BY <2>2, <3>1, Zenon
    <3>3. \A keep : Follows(s, Blocked(s, keep)) /\ Blocked(s, keep).storage = s.storage
      BY <1>5, <1>6, MetFollows
    <3>4. QED
      BY <3>2, <3>3, Zenon
  <2>3. CASE ~a1 /\ ~a2
    <3>1. seen = s
      <4> HIDE DEF a1, a2, e1, e2
      <4>1. QED
        BY <2>3, Zenon
    <3>2. Follows(s, s)
      BY <1>5, <1>6 DEF Follows
    <3>3. QED
      BY <3>1, <3>2
  <2>4. QED
    BY <2>1, <2>2, <2>3
<1> HIDE DEF seen
<1>8. "check" \in {"query", "check", "mutation"}
  OBVIOUS
<1>9. Moves(s, r, s.me.shown)
  BY <1>2, <1>7, <1>8, ReadingMoves
<1> HIDE DEF r
<1>10. mounts' \in 0..MaxMounts /\ faults' \in 0..MaxFaults
  BY <1>1, CounterBounds
<1>11. QED
  BY <1>1, <1>2, <1>3, <1>4, <1>5, <1>9, <1>10, MoveStep

LEMMA StepErrorArrives ==
  ASSUME ViewInv, NEW t \in Tab, NEW k \in Key, ErrorArrives(t, k)
  PROVE  Good
<1>1. tab[t].mounted /\ tab[t].action.http = "sent" /\ tab[t].action.rec.key = k /\ UNCHANGED <<turns, request, mounts>>
  BY DEF ErrorArrives, Sending
<1>2. faults' \in 0..MaxFaults /\ mounts' \in 0..MaxMounts
  BY CounterBounds DEF ErrorArrives
<1>3. PICK http \in {"rejected", "unknown"} :
        /\ http = "rejected" => request[k].status = "rejected"
        /\ Becomes(t, [Here(t) EXCEPT !.me = Reading([@ EXCEPT !.action.http = http], "mutation")])
  BY DEF ErrorArrives
<1> DEFINE action == [tab[t].action EXCEPT !.http = http]
           me == [tab[t] EXCEPT !.action = action]
           q == [Here(t) EXCEPT !.me = me]
           r == [q EXCEPT !.me = Reading(@, "mutation")]
<1>4. /\ tab[t] \in Mounted /\ Here(t) \in PanelState /\ Honest(Here(t)) /\ Here(t).me = tab[t] /\ Here(t).storage = storage
      /\ turns \in History
  BY <1>1, MountedPanel
<1>5. Becomes(t, r)
  <2>1. [Here(t) EXCEPT !.me = Reading([@ EXCEPT !.action.http = http], "mutation")] = r
    BY <1>4 DEF PanelState
  <2>2. QED
    BY <1>3, <2>1, Zenon
<1>6. tab[t].action # NoAction /\ tab[t].action \in Action
  <2>1. tab[t].action # NoAction
    BY <1>1 DEF NoAction
  <2>2. QED
    BY <1>4, <2>1, PanelTypes
<1>7. action \in Action /\ action.rec = tab[t].action.rec /\ action.http = http
  BY <1>6 DEF Action
<1> HIDE DEF action
<1>8. me \in Mounted /\ me.shown = tab[t].shown /\ me.read = tab[t].read /\ me.action = action
  BY <1>4, <1>7 DEF Mounted
<1> HIDE DEF me
<1>9. q \in PanelState /\ q.me = me /\ q.storage = storage
  BY <1>4, <1>8 DEF PanelState
<1> HIDE DEF q
<1>10. Honest(q)
  BY <1>1, <1>3, <1>4, <1>6, <1>7, <1>8, <1>9 DEF Honest
<1>11. Follows(Here(t), q) /\ q.storage = Here(t).storage
  BY <1>4, <1>8, <1>9, <1>10 DEF Follows
<1>12. "mutation" \in {"query", "check", "mutation"}
  OBVIOUS
<1>13. Moves(Here(t), r, tab[t].shown)
  BY <1>4, <1>11, <1>12, ReadingMoves
<1> HIDE DEF r
<1>14. QED
  BY <1>1, <1>2, <1>5, <1>13, MountedStep

LEMMA NoTurnsAreReadable ==
  Readable(NoTurns)
<1>1. NoTurns \in [{} -> Turn] /\ DOMAIN NoTurns = {}
  BY DEF NoTurns
<1>2. QED
  BY <1>1 DEF Readable, History

(* The outcome of the failed request, for the panel me the answer found.    *)
LEMMA OutcomeStep ==
  ASSUME ViewInv, NEW t \in Tab, NEW terminal \in BOOLEAN, NEW h, NEW me \in Mounted, NEW s,
         tab[t].mounted, tab[t].action # NoAction, terminal => tab[t].action.http = "rejected",
         Readable(h), me.action = tab[t].action, Older(tab[t].shown, me.shown), Older(me.shown, turns),
         me.read # NoRead => Older(me.shown, me.read.got) /\ Older(me.read.got, turns),
         s = [Here(t) EXCEPT !.me = me], Becomes(t, OutcomeOf(t, s, terminal, h)),
         UNCHANGED <<turns, request>>, mounts' \in 0..MaxMounts, faults' \in 0..MaxFaults
  PROVE  Good
<1> DEFINE r == OutcomeOf(t, s, terminal, h)
<1>1. Here(t) \in PanelState /\ Honest(Here(t)) /\ Here(t).me = tab[t] /\ Here(t).storage = storage
  BY MountedPanel
<1>2. s \in PanelState /\ s.me = me /\ s.storage = storage
  BY <1>1 DEF PanelState
<1>3. Honest(s)
  BY <1>1, <1>2 DEF Honest
<1>4. Known(s) /\ (terminal => s.me.action.http = "rejected")
  BY <1>2 DEF Known
<1>5. s.me.shown \in History /\ Readable(s.me.shown)
  BY <1>2, PanelTypes, OldHistoriesAreReadable
<1>6. Follows(s, r) /\ Kept(s, r, s.me.shown)
  BY <1>2, <1>3, <1>4, <1>5, OutcomeFollows
<1>7. Becomes(t, r)
  OBVIOUS
<1> HIDE DEF r
<1>8. Moves(s, r, s.me.shown)
  BY <1>6, FollowsMoves
<1>9. QED
  BY <1>2, <1>5, <1>7, <1>8, MoveStep

LEMMA StepOutcomeArrives ==
  ASSUME ViewInv, NEW t \in Tab, OutcomeArrives(t)
  PROVE  Good
<1> DEFINE rejected == tab[t].action.http = "rejected"
<1>1. tab[t].mounted /\ tab[t].action.http \in {"rejected", "unknown"} /\ UNCHANGED <<turns, request, mounts>>
  BY DEF OutcomeArrives
<1>2. faults' \in 0..MaxFaults /\ mounts' \in 0..MaxMounts
  BY CounterBounds DEF OutcomeArrives
<1>3. /\ tab[t] \in Mounted /\ Here(t) \in PanelState /\ Here(t).me = tab[t] /\ Here(t).storage = storage
      /\ tab[t].shown \in History /\ Older(tab[t].shown, turns) /\ Older(tab[t].shown, tab[t].shown)
      /\ tab[t].read # NoRead =>
           /\ tab[t].read.got \in History /\ Readable(tab[t].read.got)
           /\ Older(tab[t].shown, tab[t].read.got) /\ Older(tab[t].read.got, turns)
  BY <1>1, MountedPanel
<1>4. tab[t].action # NoAction
  BY <1>1 DEF NoAction
<1>5. PICK terminal \in BOOLEAN : terminal = rejected
  OBVIOUS
<1>6. terminal => tab[t].action.http = "rejected"
  BY <1>5
<1> DEFINE h == tab[t].read.got
           me1 == [tab[t] EXCEPT !.shown = h, !.loaded = TRUE, !.read = NoRead]
           me3 == [tab[t] EXCEPT !.read = NoRead]
           s1 == [Here(t) EXCEPT !.me = me1]
           s2 == [Here(t) EXCEPT !.me = tab[t]]
           s3 == [Here(t) EXCEPT !.me = me3]
<1>7. s1 = [Here(t) EXCEPT !.me.shown = h, !.me.loaded = TRUE, !.me.read = NoRead]
  BY <1>3 DEF PanelState
<1>8. s2 = Here(t)
  BY <1>3 DEF PanelState
<1>9. s3 = [Here(t) EXCEPT !.me.read = NoRead]
  BY <1>3 DEF PanelState
<1>10. \/ tab[t].read.by = "mutation" /\ Becomes(t, OutcomeOf(t, s1, rejected, h))
       \/ Becomes(t, OutcomeOf(t, s2, rejected, NoTurns))
       \/ Becomes(t, OutcomeOf(t, s3, rejected, NoTurns))
  <2> HIDE DEF s1, s2, s3, h
  <2>1. \/ /\ tab[t].read.by = "mutation"
           /\ Becomes(t, OutcomeOf(t, [Here(t) EXCEPT !.me.shown = h, !.me.loaded = TRUE, !.me.read = NoRead], rejected, h))
        \/ Becomes(t, OutcomeOf(t, Here(t), rejected, NoTurns))
        \/ Becomes(t, OutcomeOf(t, [Here(t) EXCEPT !.me.read = NoRead], rejected, NoTurns))
    BY Zenon DEF OutcomeArrives, h
  <2>2. QED
    BY <1>7, <1>8, <1>9, <2>1, Zenon
<1> HIDE DEF rejected
<1>11. \/ tab[t].read.by = "mutation" /\ Becomes(t, OutcomeOf(t, s1, terminal, h))
       \/ Becomes(t, OutcomeOf(t, s2, terminal, NoTurns))
       \/ Becomes(t, OutcomeOf(t, s3, terminal, NoTurns))
  BY <1>5, <1>10, Zenon
<1>12. CASE tab[t].read.by = "mutation" /\ Becomes(t, OutcomeOf(t, s1, terminal, h))
  <2>1. tab[t].read # NoRead
    BY <1>12 DEF NoRead
  <2>2. Readable(h) /\ h \in History /\ Older(tab[t].shown, h) /\ Older(h, turns)
    BY <1>3, <2>1
  <2> HIDE DEF h
  <2>3. me1 \in Mounted /\ me1.shown = h /\ me1.read = NoRead /\ me1.action = tab[t].action
    BY <1>3, <2>2 DEF Mounted
  <2>4. Becomes(t, OutcomeOf(t, s1, terminal, h))
    BY <1>12
  <2> DEFINE me == me1
             s == s1
  <2>5. me \in Mounted /\ me.shown = h /\ me.read = NoRead /\ me.action = tab[t].action
    BY <2>3
  <2>6. s = [Here(t) EXCEPT !.me = me] /\ Becomes(t, OutcomeOf(t, s, terminal, h))
    BY <2>4
  <2> HIDE DEF me, s
  <2>7. QED
    BY <1>1, <1>2, <1>4, <1>6, <2>2, <2>5, <2>6, OutcomeStep
<1>13. CASE Becomes(t, OutcomeOf(t, s2, terminal, NoTurns))
  <2> DEFINE s == s2
  <2>1. s = [Here(t) EXCEPT !.me = tab[t]] /\ Becomes(t, OutcomeOf(t, s, terminal, NoTurns))
    BY <1>13
  <2> HIDE DEF s
  <2>2. QED
    BY <1>1, <1>2, <1>3, <1>4, <1>6, <2>1, NoTurnsAreReadable, OutcomeStep
<1>14. CASE Becomes(t, OutcomeOf(t, s3, terminal, NoTurns))
  <2> DEFINE me == me3
             s == s3
  <2>1. me \in Mounted /\ me.shown = tab[t].shown /\ me.read = NoRead /\ me.action = tab[t].action
    BY <1>3 DEF Mounted
  <2>2. s = [Here(t) EXCEPT !.me = me] /\ Becomes(t, OutcomeOf(t, s, terminal, NoTurns))
    BY <1>14
  <2> HIDE DEF me, s
  <2>3. QED
    BY <1>1, <1>2, <1>3, <1>4, <1>6, <2>1, <2>2, NoTurnsAreReadable, OutcomeStep
<1>15. QED
  BY <1>11, <1>12, <1>13, <1>14

LEMMA StepBegin ==
  ASSUME ViewInv, NEW t \in Tab, NEW k \in Key, NEW i \in Key \cup {NoKey}, Begin(t, k, i)
  PROVE  Good
<1> DEFINE s == Here(t)
           rec == [key |-> k, turn |-> i, owner |-> t]
           action == [rec |-> rec, http |-> "sent", turn |-> NoKey]
           found == Installed(s, storage, NoKey, FALSE)
           e1 == [found EXCEPT !.me = Reading(@, "check")]
           e2 == Blocked(s, FALSE)
           me == [s.me EXCEPT !.action = action, !.unresolved = TRUE, !.localError = NoError, !.retainedError = NoError]
           e3 == [me |-> me, storage |-> rec]
           a1 == storage \in Record
           a2 == storage = Invalid
           sent == request' = [request EXCEPT ![k] = [status |-> "sent", turn |-> i]]
           p1 == Becomes(t, e1) /\ UNCHANGED request
           p2 == Becomes(t, e2) /\ UNCHANGED request
           p3 == Becomes(t, e3) /\ sent
<1>1. /\ tab[t].mounted /\ request[k].status = "unused" /\ UNCHANGED <<turns, mounts, faults>>
      /\ i # NoKey => i \in DOMAIN tab[t].shown
  BY DEF Begin
<1>2. (CASE a1 -> p1 [] a2 -> p2 [] OTHER -> p3)
  BY DEF Begin
<1>3. a1 => ~a2
  BY ConstantTypes
<1>4. mounts' \in 0..MaxMounts /\ faults' \in 0..MaxFaults
  BY <1>1, CounterBounds
<1>5. /\ tab[t] \in Mounted /\ s \in PanelState /\ Honest(s) /\ s.me = tab[t] /\ s.storage = storage
      /\ turns \in History /\ tab[t].shown \in History /\ Older(tab[t].shown, turns) /\ Older(tab[t].shown, tab[t].shown)
      /\ tab[t].read # NoRead => Older(tab[t].shown, tab[t].read.got) /\ Older(tab[t].read.got, turns)
  BY <1>1, MountedPanel
<1>6. CASE a1
  <2>1. p1
    <3> HIDE DEF a1, a2, p1, p2, p3
    <3>1. QED
      BY <1>2, <1>3, <1>6, Zenon
  <2>2. Follows(s, found) /\ found.storage = s.storage
    BY <1>5, <1>6, MetFollows
  <2>3. "check" \in {"query", "check", "mutation"}
    OBVIOUS
  <2>4. Becomes(t, e1) /\ UNCHANGED request
    BY <2>1
  <2> HIDE DEF found, s
  <2>5. Moves(s, e1, tab[t].shown)
    BY <1>5, <2>2, <2>3, ReadingMoves
  <2> HIDE DEF e1
  <2>6. QED
    BY <1>1, <1>4, <2>4, <2>5, MountedStep DEF s
<1>7. CASE a2
  <2>1. p2
    <3>1. ~a1
      BY <1>3, <1>7
    <3> HIDE DEF a1, a2, p1, p2, p3
    <3>2. QED
      BY <1>2, <1>7, <3>1, Zenon
  <2>2. \A keep : Follows(s, Blocked(s, keep)) /\ Blocked(s, keep).storage = s.storage
    BY <1>5, MetFollows
  <2>3. Follows(s, e2) /\ e2.storage = s.storage
    BY <2>2, Zenon
  <2>4. Becomes(t, e2) /\ UNCHANGED request
    BY <2>1
  <2> HIDE DEF e2, s
  <2>5. Moves(s, e2, tab[t].shown)
    BY <2>3, FollowsMoves DEF Kept
  <2>6. QED
    BY <1>1, <1>4, <2>4, <2>5, MountedStep DEF s
<1>8. CASE ~a1 /\ ~a2
  <2>1. p3
    <3> HIDE DEF a1, a2, p1, p2, p3
    <3>1. QED
      BY <1>2, <1>8, Zenon
  <2>2. Becomes(t, e3) /\ sent
    BY <2>1
  <2>3. rec \in Record /\ rec.key = k /\ rec.turn = i
    BY DEF Record
  <2> HIDE DEF rec
  <2>4. action \in Action /\ action.rec = rec /\ action.http = "sent"
    BY <2>3 DEF Action
  <2> HIDE DEF action
  <2>5. me \in Mounted /\ me.shown = tab[t].shown /\ me.read = tab[t].read /\ me.action = action
    BY <1>5, <2>4, ConstantTypes DEF Mounted
  <2> HIDE DEF me
  <2>6. e3.me = me /\ e3.storage = rec
    OBVIOUS
  <2> HIDE DEF e3
  <2>7. request \in [Key -> Request] /\ storage \in Stored
    BY DEF ViewInv, Types
  <2>8. request' \in [Key -> Request]
    BY <2>2, <2>7 DEF Request
  <2>9. request'[k] = [status |-> "sent", turn |-> i] /\ \A j \in Key \ {k} : request'[j] = request[j]
    BY <2>2, <2>7
  <2>10. turns' = turns /\ turns' \in History
    BY <1>1, <1>5
  <2> HIDE DEF sent
  <2>11. Grows
    BY <1>1, <1>5, <2>9, <2>10, OlderSelf DEF Grows
  <2>12. TurnsAreAccepted'
    <3> SUFFICES ASSUME NEW j \in DOMAIN turns
                 PROVE  /\ request'[j] = [status |-> "accepted", turn |-> NoKey]
                        /\ turns[j].retry # NoKey =>
                             /\ request'[turns[j].retry] = [status |-> "accepted", turn |-> j]
                             /\ turns[j].stage \in {"retried", "done"}
      BY <2>10 DEF TurnsAreAccepted
    <3>1. /\ request[j] = [status |-> "accepted", turn |-> NoKey]
          /\ turns[j].retry # NoKey =>
               /\ request[turns[j].retry] = [status |-> "accepted", turn |-> j]
               /\ turns[j].stage \in {"retried", "done"}
      BY DEF ViewInv, TurnsAreAccepted
    <3>2. j \in Key /\ turns[j].retry \in Key \cup {NoKey}
      BY <1>5, HistoryTypes DEF Turn
    <3>3. j # k /\ (turns[j].retry # NoKey => turns[j].retry # k)
      BY <1>1, <3>1
    <3>4. QED
      BY <2>9, <3>1, <3>2, <3>3
  <2>13. RequestsHaveTurns'
    <3> SUFFICES ASSUME NEW j \in Key
                 PROVE  /\ request'[j].status # "unused" /\ request'[j].turn # NoKey => request'[j].turn \in DOMAIN turns
                        /\ request'[j].status = "accepted" =>
                             IF request'[j].turn = NoKey THEN j \in DOMAIN turns
                             ELSE turns[request'[j].turn].retry = j
      BY <2>10 DEF RequestsHaveTurns
    <3>1. CASE j = k
      <4>1. i # NoKey => i \in DOMAIN turns
        BY <1>1, <1>5 DEF Older
      <4>2. QED
        BY <2>9, <3>1, <4>1
    <3>2. CASE j # k
      BY <2>9, <3>2 DEF ViewInv, RequestsHaveTurns
    <3>3. QED
      BY <3>1, <3>2
  <2>14. RequestedIn(rec, request')
    BY <2>3, <2>9 DEF RequestedIn
  <2>15. Agrees(me, turns', request')
    BY <1>5, <2>4, <2>5, <2>10, <2>14 DEF Agrees
  <2>16. NotEarlier(tab[t].shown, me.shown)
    BY <1>5, <2>5, OlderIsNotLater
  <2>17. rec \in Stored
    BY <2>3 DEF Stored
  <2>18. QED
    BY <1>4, <1>8, <2>2, <2>5, <2>6, <2>8, <2>10, <2>11, <2>12, <2>13, <2>14, <2>15, <2>16, <2>17, TabStep
<1>9. QED
  BY <1>6, <1>7, <1>8

(* An answer merged into an older history.                                  *)
LEMMA MergedHistory ==
  ASSUME ViewInv, NEW k \in Key, request[k].status = "accepted", NEW shown \in History, Older(shown, turns),
         NEW id, id = IF request[k].turn = NoKey THEN k ELSE request[k].turn
  PROVE  LET h == Merged(shown, id, Answer(k))
         IN  h \in History /\ Older(h, turns) /\ NotEarlier(shown, h)
<1> DEFINE answer == Answer(k)
           turn == IF id \in DOMAIN shown THEN NewerTurn(shown[id], answer) ELSE answer
           h == Merged(shown, id, answer)
<1>1. turns \in History /\ request \in [Key -> Request]
  BY DEF ViewInv, Types
<1>2. id \in DOMAIN turns /\ (request[k].turn # NoKey => turns[id].retry = k)
  BY DEF ViewInv, RequestsHaveTurns
<1>3. id \in Key /\ turns[id] \in Turn
  BY <1>1, <1>2, HistoryTypes
<1>4. /\ answer \in Turn /\ Rank(answer.stage) <= Rank(turns[id].stage)
      /\ answer.retry # NoKey => turns[id].retry = answer.retry
  <2>1. CASE request[k].turn = NoKey
    <3>1. answer = [stage |-> "asked", retry |-> NoKey]
      BY <2>1 DEF Answer
    <3>2. answer \in Turn /\ answer.retry = NoKey /\ Rank(answer.stage) = 0
      BY <3>1, StageRanks DEF Turn, Stage
    <3>3. Rank(turns[id].stage) \in Nat
      BY <1>1, <1>2, HistoryRanks
    <3>4. QED
      BY <3>2, <3>3
  <2>2. CASE request[k].turn # NoKey
    <3>1. answer = [stage |-> "retried", retry |-> k]
      BY <2>2 DEF Answer
    <3>2. answer \in Turn /\ answer.retry = k /\ Rank(answer.stage) = 2
      BY <3>1, StageRanks DEF Turn, Stage
    <3>3. turns[id].retry = k /\ turns[id].stage \in {"retried", "done"}
      BY <1>2, <2>2, ViewAssumption DEF ViewInv, TurnsAreAccepted
    <3>4. QED
      BY <3>2, <3>3, StageRanks
  <2>3. QED
    BY <2>1, <2>2
<1> HIDE DEF answer
<1>5. /\ turn \in Turn /\ Rank(turn.stage) <= Rank(turns[id].stage)
      /\ turn.retry # NoKey => turns[id].retry = turn.retry
      /\ id \in DOMAIN shown => Rank(shown[id].stage) <= Rank(turn.stage)
  <2>1. CASE id \in DOMAIN shown
    <3>1. /\ shown[id] \in Turn /\ Rank(shown[id].stage) <= Rank(turns[id].stage)
          /\ shown[id].retry # NoKey => turns[id].retry = shown[id].retry
      BY <2>1, HistoryTypes DEF Older
    <3>2. turn = IF Rank(shown[id].stage) > Rank(answer.stage) THEN shown[id] ELSE answer
      BY <2>1 DEF NewerTurn
    <3>3. Rank(shown[id].stage) \in Nat /\ Rank(answer.stage) \in Nat
      BY <1>4, <3>1, RankTypes DEF Turn
    <3> HIDE DEF turn
    <3>4. CASE Rank(shown[id].stage) > Rank(answer.stage)
      BY <3>1, <3>2, <3>3, <3>4
    <3>5. CASE ~(Rank(shown[id].stage) > Rank(answer.stage))
      BY <1>4, <3>2, <3>3, <3>5
    <3>6. QED
      BY <3>4, <3>5
  <2>2. CASE id \notin DOMAIN shown
    BY <1>4, <2>2
  <2>3. QED
    BY <2>1, <2>2
<1>6. /\ DOMAIN h = DOMAIN shown \cup {id} /\ h[id] = turn
      /\ h = [i \in DOMAIN h |-> h[i]]
      /\ \A i \in DOMAIN shown \ {id} : h[i] = shown[i]
  <2>1. h = WithTurn(shown, id, turn)
    BY DEF Merged
  <2> HIDE DEF h, turn
  <2>2. QED
    BY <2>1 DEF WithTurn
<1> HIDE DEF h, turn
<1>7. \A i \in DOMAIN h : i \in Key /\ h[i] \in Turn
  BY <1>3, <1>5, <1>6, HistoryTypes
<1>8. h \in History
  <2>1. DOMAIN h \in SUBSET Key /\ h \in [DOMAIN h -> Turn]
    BY <1>6, <1>7
  <2>2. QED
    BY <2>1 DEF History
<1>9. Older(h, turns)
  BY <1>2, <1>5, <1>6 DEF Older
<1>10. NotEarlier(shown, h)
  <2> SUFFICES ASSUME NEW i \in DOMAIN shown
               PROVE  i \in DOMAIN h /\ Rank(shown[i].stage) <= Rank(h[i].stage)
    BY DEF NotEarlier
  <2>1. Rank(shown[i].stage) \in Nat
    BY HistoryRanks
  <2>2. QED
    BY <1>5, <1>6, <2>1
<1>11. QED
  BY <1>8, <1>9, <1>10 DEF h, answer

LEMMA StepResponseArrives ==
  ASSUME ViewInv, NEW t \in Tab, NEW k \in Key, ResponseArrives(t, k)
  PROVE  Good
<1> DEFINE id == IF request[k].turn = NoKey THEN k ELSE request[k].turn
           h == Merged(tab[t].shown, id, Answer(k))
           settled == Settled(tab[t])
           me == [settled EXCEPT !.shown = h, !.loaded = TRUE, !.read = NoRead]
           s == [me |-> me, storage |-> storage]
           r == Reconciled(t, s, h)
<1>1. /\ tab[t].mounted /\ tab[t].action.http = "sent" /\ request[k].status = "accepted"
      /\ UNCHANGED <<turns, request, mounts, faults>>
  BY DEF ResponseArrives, Sending
<1>2. Becomes(t, r)
  BY DEF ResponseArrives
<1>3. mounts' \in 0..MaxMounts /\ faults' \in 0..MaxFaults
  BY <1>1, CounterBounds
<1>4. /\ tab[t] \in Mounted /\ Here(t) \in PanelState /\ Honest(Here(t)) /\ Here(t).me = tab[t] /\ Here(t).storage = storage
      /\ tab[t].shown \in History /\ Older(tab[t].shown, turns)
  BY <1>1, MountedPanel
<1>5. h \in History /\ Older(h, turns) /\ NotEarlier(tab[t].shown, h)
  BY <1>1, <1>4, MergedHistory
<1> HIDE DEF h
<1>6. Readable(h)
  BY <1>5, OldHistoriesAreReadable
<1>7. tab[t].action # NoAction
  BY <1>1 DEF NoAction
<1>8. settled \in Mounted /\ settled.action \in Action /\ settled.action.rec = tab[t].action.rec /\ settled.action.http = "settled"
  BY <1>4, <1>7, SettledTypes
<1> HIDE DEF settled
<1>9. me \in Mounted /\ me.shown = h /\ me.read = NoRead /\ me.action = settled.action
  BY <1>5, <1>8 DEF Mounted
<1> HIDE DEF me
<1>10. s \in PanelState /\ s.me = me /\ s.storage = storage
  BY <1>4, <1>9 DEF PanelState
<1> HIDE DEF s
<1>11. Honest(s)
  BY <1>4, <1>7, <1>8, <1>9, <1>10 DEF Honest
<1>12. Follows(s, r) /\ Kept(s, r, h)
  BY <1>6, <1>10, <1>11, ReconciledFollows
<1> HIDE DEF r
<1>13. Moves(s, r, s.me.shown)
  BY <1>9, <1>10, <1>12, FollowsMoves
<1>14. s.me.shown = h /\ s.me.read = NoRead
  BY <1>9, <1>10
<1>15. QED
  BY <1>1, <1>2, <1>3, <1>5, <1>10, <1>13, <1>14, MoveToStep

(* A step of the server, the network or another device.                     *)
LEMMA ServerStep ==
  ASSUME ViewInv, UNCHANGED <<storage, tab, mounts>>, Grows, turns' \in History, request' \in [Key -> Request],
         faults' \in 0..MaxFaults, TurnsAreAccepted', RequestsHaveTurns'
  PROVE  Good
<1>1. Types
  BY DEF ViewInv
<1>2. Types'
  BY <1>1, CounterBounds DEF Types, Stored, Record, None, Invalid, Unmounted, Mounted
<1>3. storage' \in Record => RequestedIn(storage', request')
  <2>1. storage' = storage
    OBVIOUS
  <2>2. ASSUME storage \in Record
        PROVE  RequestedIn(storage, request')
    <3>1. storage.key \in Key
      BY <2>2 DEF Record
    <3>2. QED
      BY <2>2, <3>1 DEF ViewInv, Grows, RequestedIn
  <2>3. QED
    BY <2>1, <2>2
<1>4. ASSUME NEW t \in Tab, tab[t].mounted
      PROVE  tab[t] \in Mounted /\ Agrees(tab[t], turns', request')
  <2>1. tab[t] \in Mounted /\ turns \in History /\ Agrees(tab[t], turns, request)
    BY <1>1, <1>4 DEF Types, Unmounted, ViewInv
  <2>2. QED
    BY <2>1, AgreesLater
<1>5. ViewInv'
  <2>1. \A t \in Tab : tab'[t].mounted => Agrees(tab'[t], turns', request')
    BY <1>4
  <2>2. QED
    BY <1>2, <1>3, <2>1 DEF ViewInv, Record
<1>6. NoTabGoesBack
  <2> SUFFICES ASSUME NEW u \in Tab, tab[u].mounted, NEW i \in DOMAIN tab[u].shown
               PROVE  Rank(tab[u].shown[i].stage) >= Rank(tab[u].shown[i].stage)
    BY DEF NoTabGoesBack
  <2>1. tab[u].shown \in History
    BY <1>4, PanelTypes
  <2>2. Rank(tab[u].shown[i].stage) \in Nat
    BY <2>1, HistoryRanks
  <2>3. QED
    BY <2>2
<1>7. RecordIsKept
  BY DEF RecordIsKept
<1>8. QED
  BY <1>5, <1>6, <1>7 DEF Good

(* The turns after a request of key k was accepted, for turn i.             *)
LEMMA AcceptedFollows ==
  ASSUME ViewInv, NEW k \in Key, NEW i \in Key \cup {NoKey}, CanAccept(i),
         request[k].status \in {"unused", "sent"}, request[k].status # "unused" => request[k].turn = i,
         i # NoKey => i \in DOMAIN turns,
         turns' = AcceptedTurns(k, i), request' = [request EXCEPT ![k] = [status |-> "accepted", turn |-> i]]
  PROVE  /\ Grows /\ turns' \in History /\ request' \in [Key -> Request]
         /\ TurnsAreAccepted' /\ RequestsHaveTurns'
<1>1. turns \in History /\ request \in [Key -> Request]
  BY DEF ViewInv, Types
<1>2. request' \in [Key -> Request]
  BY <1>1 DEF Request
<1>3. request'[k] = [status |-> "accepted", turn |-> i] /\ \A j \in Key \ {k} : request'[j] = request[j]
  BY <1>1
<1>4. \A j \in DOMAIN turns : j \in Key /\ turns[j] \in Turn /\ turns[j].retry \in Key \cup {NoKey}
  BY <1>1, HistoryTypes DEF Turn
<1>5. ASSUME NEW j \in DOMAIN turns
      PROVE  /\ request[j] = [status |-> "accepted", turn |-> NoKey] /\ j # k
             /\ turns[j].retry # NoKey =>
                  /\ request[turns[j].retry] = [status |-> "accepted", turn |-> j]
                  /\ turns[j].stage \in {"retried", "done"} /\ turns[j].retry # k
  BY DEF ViewInv, TurnsAreAccepted
<1>6. \A j \in Key : request[j].status = "accepted" => j # k
  OBVIOUS
<1>7. k \notin DOMAIN turns
  BY <1>5
<1>8. /\ request[k].status # "unused" => request'[k].status # "unused" /\ request'[k].turn = request[k].turn
      /\ request[k].status # "rejected"
  BY <1>3
<1>9. \A j \in Key :
        /\ request[j].status # "unused" => request'[j].status # "unused" /\ request'[j].turn = request[j].turn
        /\ request[j].status = "rejected" => request'[j].status = "rejected"
  BY <1>3, <1>8
<1>10. CASE i = NoKey
  <2> DEFINE asked == [stage |-> "asked", retry |-> NoKey]
  <2>1. asked \in Turn /\ asked.retry = NoKey
    BY DEF Turn, Stage
  <2>2. turns' = WithTurn(turns, k, asked)
    BY <1>10 DEF AcceptedTurns
  <2> HIDE DEF asked
  <2>3. /\ DOMAIN turns' = DOMAIN turns \cup {k} /\ turns'[k] = asked
        /\ turns' = [j \in DOMAIN turns' |-> turns'[j]]
        /\ \A j \in DOMAIN turns : turns'[j] = turns[j]
    BY <1>7, <2>2 DEF WithTurn
  <2>4. turns' \in History
    <3>1. DOMAIN turns' \in SUBSET Key /\ turns' \in [DOMAIN turns' -> Turn]
      BY <1>4, <2>1, <2>3
    <3>2. QED
      BY <3>1 DEF History
  <2>5. Older(turns, turns')
    <3> SUFFICES ASSUME NEW j \in DOMAIN turns
                 PROVE  /\ j \in DOMAIN turns' /\ Rank(turns[j].stage) <= Rank(turns'[j].stage)
                        /\ turns[j].retry # NoKey => turns'[j].retry = turns[j].retry
      BY DEF Older
    <3>1. Rank(turns[j].stage) \in Nat
      BY <1>1, HistoryRanks
    <3>2. QED
      BY <2>3, <3>1
  <2>6. Grows
    BY <1>9, <2>5 DEF Grows
  <2>7. TurnsAreAccepted'
    <3> SUFFICES ASSUME NEW j \in DOMAIN turns'
                 PROVE  /\ request'[j] = [status |-> "accepted", turn |-> NoKey]
                        /\ turns'[j].retry # NoKey =>
                             /\ request'[turns'[j].retry] = [status |-> "accepted", turn |-> j]
                             /\ turns'[j].stage \in {"retried", "done"}
      BY DEF TurnsAreAccepted
    <3>1. CASE j = k
      BY <1>3, <1>10, <2>1, <2>3, <3>1
    <3>2. CASE j # k
      <4>1. j \in DOMAIN turns /\ turns'[j] = turns[j]
        BY <2>3, <3>2
      <4>2. QED
        BY <1>3, <1>4, <1>5, <4>1
    <3>3. QED
      BY <3>1, <3>2
  <2>8. RequestsHaveTurns'
    <3> SUFFICES ASSUME NEW j \in Key
                 PROVE  /\ request'[j].status # "unused" /\ request'[j].turn # NoKey => request'[j].turn \in DOMAIN turns'
                        /\ request'[j].status = "accepted" =>
                             IF request'[j].turn = NoKey THEN j \in DOMAIN turns'
                             ELSE turns'[request'[j].turn].retry = j
      BY DEF RequestsHaveTurns
    <3>1. CASE j = k
      BY <1>3, <1>10, <2>3, <3>1
    <3>2. CASE j # k
      <4>1. request'[j] = request[j]
        BY <1>3, <3>2
      <4>2. /\ request[j].status # "unused" /\ request[j].turn # NoKey => request[j].turn \in DOMAIN turns
            /\ request[j].status = "accepted" =>
                 IF request[j].turn = NoKey THEN j \in DOMAIN turns ELSE turns[request[j].turn].retry = j
        BY DEF ViewInv, RequestsHaveTurns
      <4>3. QED
        BY <2>3, <4>1, <4>2
    <3>3. QED
      BY <3>1, <3>2
  <2>9. QED
    BY <1>2, <2>4, <2>6, <2>7, <2>8
<1>11. CASE i # NoKey
  <2> DEFINE retried == [stage |-> "retried", retry |-> k]
  <2>1. retried \in Turn /\ retried.retry = k /\ retried.stage = "retried"
    BY DEF Turn, Stage
  <2>2. turns' = [turns EXCEPT ![i] = retried] /\ i \in DOMAIN turns /\ turns[i].stage = "failed"
    BY <1>11 DEF AcceptedTurns, CanAccept
  <2> HIDE DEF retried
  <2>3. turns \in [DOMAIN turns -> Turn] /\ DOMAIN turns \in SUBSET Key
    BY <1>1 DEF History
  <2>4. /\ DOMAIN turns' = DOMAIN turns /\ turns'[i] = retried
        /\ turns' \in [DOMAIN turns -> Turn]
        /\ \A j \in DOMAIN turns \ {i} : turns'[j] = turns[j]
    BY <2>1, <2>2, <2>3
  <2>5. turns' \in History
    BY <2>3, <2>4 DEF History
  <2>6. turns[i].retry = NoKey
    BY <1>5, <2>2
  <2>7. Older(turns, turns')
    <3> SUFFICES ASSUME NEW j \in DOMAIN turns
                 PROVE  /\ j \in DOMAIN turns' /\ Rank(turns[j].stage) <= Rank(turns'[j].stage)
                        /\ turns[j].retry # NoKey => turns'[j].retry = turns[j].retry
      BY DEF Older
    <3>1. CASE j = i
      BY <2>1, <2>2, <2>4, <2>6, <3>1, StageRanks
    <3>2. CASE j # i
      <4>1. Rank(turns[j].stage) \in Nat
        BY <1>1, HistoryRanks
      <4>2. QED
        BY <2>4, <3>2, <4>1
    <3>3. QED
      BY <3>1, <3>2
  <2>8. Grows
    BY <1>9, <2>7 DEF Grows
  <2>9. TurnsAreAccepted'
    <3> SUFFICES ASSUME NEW j \in DOMAIN turns
                 PROVE  /\ request'[j] = [status |-> "accepted", turn |-> NoKey]
                        /\ turns'[j].retry # NoKey =>
                             /\ request'[turns'[j].retry] = [status |-> "accepted", turn |-> j]
                             /\ turns'[j].stage \in {"retried", "done"}
      BY <2>4 DEF TurnsAreAccepted
    <3>1. request'[j] = [status |-> "accepted", turn |-> NoKey]
      BY <1>3, <1>4, <1>5
    <3>2. CASE j = i
      BY <1>3, <2>1, <2>4, <3>1, <3>2
    <3>3. CASE j # i
      <4>1. turns'[j] = turns[j]
        BY <2>4, <3>3
      <4>2. QED
        BY <1>3, <1>4, <1>5, <3>1, <4>1
    <3>4. QED
      BY <3>2, <3>3
  <2>10. RequestsHaveTurns'
    <3> SUFFICES ASSUME NEW j \in Key
                 PROVE  /\ request'[j].status # "unused" /\ request'[j].turn # NoKey => request'[j].turn \in DOMAIN turns
                        /\ request'[j].status = "accepted" =>
                             IF request'[j].turn = NoKey THEN j \in DOMAIN turns
                             ELSE turns'[request'[j].turn].retry = j
      BY <2>4 DEF RequestsHaveTurns
    <3>1. CASE j = k
      BY <1>3, <1>11, <2>1, <2>2, <2>4, <3>1
    <3>2. CASE j # k
      <4>1. request'[j] = request[j]
        BY <1>3, <3>2
      <4>2. /\ request[j].status # "unused" /\ request[j].turn # NoKey => request[j].turn \in DOMAIN turns
            /\ request[j].status = "accepted" =>
                 IF request[j].turn = NoKey THEN j \in DOMAIN turns ELSE turns[request[j].turn].retry = j
        BY DEF ViewInv, RequestsHaveTurns
      <4>3. request[j].status = "accepted" /\ request[j].turn # NoKey => request[j].turn # i
        BY <2>6, <4>2, ViewAssumption
      <4>4. QED
        BY <2>4, <4>1, <4>2, <4>3
    <3>3. QED
      BY <3>1, <3>2
  <2>11. QED
    BY <1>2, <2>5, <2>8, <2>9, <2>10
<1>12. QED
  BY <1>10, <1>11

LEMMA StepServerAccepts ==
  ASSUME ViewInv, NEW k \in Key, ServerAccepts(k)
  PROVE  Good
<1>1. request \in [Key -> Request]
  BY DEF ViewInv, Types
<1>2. PICK i \in Key \cup {NoKey} : i = request[k].turn
  BY <1>1 DEF Request
<1>3. /\ request[k].status = "sent" /\ CanAccept(i) /\ turns' = AcceptedTurns(k, i)
      /\ UNCHANGED <<storage, tab, mounts, faults>>
  BY <1>2 DEF ServerAccepts
<1>4. request' = [request EXCEPT ![k] = [status |-> "accepted", turn |-> i]]
  <2>1. request[k] \in Request
    BY <1>1
  <2>2. [request[k] EXCEPT !.status = "accepted"] = [status |-> "accepted", turn |-> i]
    BY <1>2, <2>1 DEF Request
  <2>3. request' = [request EXCEPT ![k] = [request[k] EXCEPT !.status = "accepted"]]
    BY <1>1 DEF ServerAccepts
  <2>4. QED
    BY <2>2, <2>3
<1>5. i # NoKey => i \in DOMAIN turns
  BY <1>2, <1>3 DEF ViewInv, RequestsHaveTurns
<1>6. /\ Grows /\ turns' \in History /\ request' \in [Key -> Request]
      /\ TurnsAreAccepted' /\ RequestsHaveTurns'
  BY <1>2, <1>3, <1>4, <1>5, AcceptedFollows
<1>7. QED
  BY <1>3, <1>6, ServerStep, CounterBounds

LEMMA StepOtherDeviceActs ==
  ASSUME ViewInv, NEW k \in Key, NEW i \in Key \cup {NoKey}, OtherDeviceActs(k, i)
  PROVE  Good
<1>1. /\ request[k].status = "unused" /\ CanAccept(i) /\ turns' = AcceptedTurns(k, i) /\ (i # NoKey => i \in DOMAIN turns)
      /\ request' = [request EXCEPT ![k] = [status |-> "accepted", turn |-> i]]
      /\ UNCHANGED <<storage, tab, mounts, faults>>
  BY DEF OtherDeviceActs
<1>2. /\ Grows /\ turns' \in History /\ request' \in [Key -> Request]
      /\ TurnsAreAccepted' /\ RequestsHaveTurns'
  BY <1>1, AcceptedFollows
<1>3. QED
  BY <1>1, <1>2, ServerStep, CounterBounds

(* A request that ends without effect.                                      *)
LEMMA RefusedStep ==
  ASSUME ViewInv, NEW k \in Key, request[k].status = "sent", NEW status \in {"rejected", "lost"},
         request' = [request EXCEPT ![k].status = status], faults' \in 0..MaxFaults,
         UNCHANGED <<turns, storage, tab, mounts>>
  PROVE  Good
<1>1. turns \in History /\ request \in [Key -> Request]
  BY DEF ViewInv, Types
<1>2. request' \in [Key -> Request]
  BY <1>1 DEF Request
<1>3. request'[k].status = status /\ request'[k].turn = request[k].turn /\ \A j \in Key \ {k} : request'[j] = request[j]
  BY <1>1 DEF Request
<1>4. Grows
  BY <1>1, <1>3, OlderSelf DEF Grows
<1>5. \A j \in DOMAIN turns : j \in Key /\ turns[j].retry \in Key \cup {NoKey}
  BY <1>1, HistoryTypes DEF Turn
<1>6. TurnsAreAccepted'
  <2> SUFFICES ASSUME NEW j \in DOMAIN turns
               PROVE  /\ request'[j] = [status |-> "accepted", turn |-> NoKey]
                      /\ turns[j].retry # NoKey =>
                           /\ request'[turns[j].retry] = [status |-> "accepted", turn |-> j]
                           /\ turns[j].stage \in {"retried", "done"}
    BY DEF TurnsAreAccepted
  <2>1. /\ request[j] = [status |-> "accepted", turn |-> NoKey]
        /\ turns[j].retry # NoKey =>
             /\ request[turns[j].retry] = [status |-> "accepted", turn |-> j]
             /\ turns[j].stage \in {"retried", "done"}
    BY DEF ViewInv, TurnsAreAccepted
  <2>2. j # k /\ (turns[j].retry # NoKey => turns[j].retry # k)
    BY <2>1
  <2>3. QED
    BY <1>3, <1>5, <2>1, <2>2
<1>7. RequestsHaveTurns'
  <2> SUFFICES ASSUME NEW j \in Key
               PROVE  /\ request'[j].status # "unused" /\ request'[j].turn # NoKey => request'[j].turn \in DOMAIN turns
                      /\ request'[j].status = "accepted" =>
                           IF request'[j].turn = NoKey THEN j \in DOMAIN turns
                           ELSE turns[request'[j].turn].retry = j
    BY DEF RequestsHaveTurns
  <2>1. CASE j = k
    BY <1>3, <2>1 DEF ViewInv, RequestsHaveTurns
  <2>2. CASE j # k
    BY <1>3, <2>2 DEF ViewInv, RequestsHaveTurns
  <2>3. QED
    BY <2>1, <2>2
<1>8. QED
  BY <1>1, <1>2, <1>4, <1>6, <1>7, ServerStep

LEMMA StepServerRejects ==
  ASSUME ViewInv, NEW k \in Key, ServerRejects(k)
  PROVE  Good
<1>1. /\ request[k].status = "sent" /\ request' = [request EXCEPT ![k].status = "rejected"]
      /\ UNCHANGED <<turns, storage, tab, mounts>>
  BY DEF ServerRejects
<1>2. faults' \in 0..MaxFaults
  BY CounterBounds DEF ServerRejects
<1>3. "rejected" \in {"rejected", "lost"}
  OBVIOUS
<1>4. QED
  BY <1>1, <1>2, <1>3, RefusedStep

LEMMA StepRequestFails ==
  ASSUME ViewInv, NEW k \in Key, RequestFails(k)
  PROVE  Good
<1>1. /\ request[k].status = "sent" /\ request' = [request EXCEPT ![k].status = "lost"]
      /\ UNCHANGED <<turns, storage, tab, mounts>>
  BY DEF RequestFails
<1>2. faults' \in 0..MaxFaults
  BY CounterBounds DEF RequestFails
<1>3. "lost" \in {"rejected", "lost"}
  OBVIOUS
<1>4. QED
  BY <1>1, <1>2, <1>3, RefusedStep

LEMMA StepTurnEnds ==
  ASSUME ViewInv, NEW i \in Key, TurnEnds(i)
  PROVE  Good
<1>1. PICK stage \in {"failed", "done"} :
        /\ stage = "failed" => turns[i].stage = "asked"
        /\ turns' = [turns EXCEPT ![i].stage = stage]
  BY DEF TurnEnds
<1>2. i \in DOMAIN turns /\ turns[i].stage \in {"asked", "retried"} /\ UNCHANGED <<request, storage, tab, mounts, faults>>
  BY DEF TurnEnds, IsActive
<1>3. turns \in History /\ request \in [Key -> Request]
  BY DEF ViewInv, Types
<1>4. turns \in [DOMAIN turns -> Turn] /\ DOMAIN turns \in SUBSET Key
  BY <1>3 DEF History
<1>5. /\ turns' \in [DOMAIN turns -> Turn] /\ DOMAIN turns' = DOMAIN turns
      /\ turns'[i].stage = stage /\ turns'[i].retry = turns[i].retry
      /\ \A j \in DOMAIN turns \ {i} : turns'[j] = turns[j]
  BY <1>1, <1>2, <1>4 DEF Turn, Stage
<1>6. turns' \in History
  BY <1>4, <1>5 DEF History
<1>7. Older(turns, turns')
  <2> SUFFICES ASSUME NEW j \in DOMAIN turns
               PROVE  /\ j \in DOMAIN turns' /\ Rank(turns[j].stage) <= Rank(turns'[j].stage)
                      /\ turns[j].retry # NoKey => turns'[j].retry = turns[j].retry
    BY DEF Older
  <2>1. CASE j = i
    BY <1>1, <1>2, <1>5, <2>1, StageRanks
  <2>2. CASE j # i
    <3>1. Rank(turns[j].stage) \in Nat
      BY <1>3, HistoryRanks
    <3>2. QED
      BY <1>5, <2>2, <3>1
  <2>3. QED
    BY <2>1, <2>2
<1>8. Grows
  BY <1>2, <1>7 DEF Grows
<1>9. TurnsAreAccepted'
  <2> SUFFICES ASSUME NEW j \in DOMAIN turns
               PROVE  /\ request[j] = [status |-> "accepted", turn |-> NoKey]
                      /\ turns'[j].retry # NoKey =>
                           /\ request[turns'[j].retry] = [status |-> "accepted", turn |-> j]
                           /\ turns'[j].stage \in {"retried", "done"}
    BY <1>2, <1>5 DEF TurnsAreAccepted
  <2>1. /\ request[j] = [status |-> "accepted", turn |-> NoKey]
        /\ turns[j].retry # NoKey =>
             /\ request[turns[j].retry] = [status |-> "accepted", turn |-> j]
             /\ turns[j].stage \in {"retried", "done"}
    BY DEF ViewInv, TurnsAreAccepted
  <2>2. CASE j = i
    <3>1. turns[i].retry # NoKey => stage = "done"
      BY <1>1, <2>1, <2>2
    <3>2. QED
      BY <1>5, <2>1, <2>2, <3>1
  <2>3. CASE j # i
    BY <1>5, <2>1, <2>3
  <2>4. QED
    BY <2>2, <2>3
<1>10. \A j \in DOMAIN turns : turns'[j].retry = turns[j].retry
  BY <1>5
<1>11. RequestsHaveTurns'
  <2> SUFFICES ASSUME NEW j \in Key
               PROVE  /\ request[j].status # "unused" /\ request[j].turn # NoKey => request[j].turn \in DOMAIN turns
                      /\ request[j].status = "accepted" =>
                           IF request[j].turn = NoKey THEN j \in DOMAIN turns
                           ELSE turns'[request[j].turn].retry = j
    BY <1>2, <1>5 DEF RequestsHaveTurns
  <2>1. /\ request[j].status # "unused" /\ request[j].turn # NoKey => request[j].turn \in DOMAIN turns
        /\ request[j].status = "accepted" =>
             IF request[j].turn = NoKey THEN j \in DOMAIN turns ELSE turns[request[j].turn].retry = j
    BY DEF ViewInv, RequestsHaveTurns
  <2>2. QED
    BY <1>10, <2>1
<1>12. QED
  BY <1>2, <1>3, <1>6, <1>8, <1>9, <1>11, ServerStep, CounterBounds

LEMMA StepStorageDamaged ==
  ASSUME ViewInv, StorageDamaged
  PROVE  Good
<1>1. /\ storage' = Invalid /\ UNCHANGED <<turns, request, mounts>>
      /\ tab' = [t \in Tab |-> IF tab[t].mounted THEN [tab[t] EXCEPT !.event = TRUE] ELSE tab[t]]
  BY DEF StorageDamaged
<1>2. mounts' \in 0..MaxMounts /\ faults' \in 0..MaxFaults
  BY CounterBounds DEF StorageDamaged
<1>3. Types /\ Unmounted.mounted = FALSE
  BY DEF ViewInv, Unmounted
<1>4. ASSUME NEW t \in Tab
      PROVE  /\ tab'[t] \in {Unmounted} \cup Mounted
             /\ tab'[t].mounted <=> tab[t].mounted
             /\ tab[t].mounted => /\ tab'[t].shown = tab[t].shown /\ tab'[t].read = tab[t].read /\ tab'[t].action = tab[t].action
                                  /\ tab[t] \in Mounted /\ tab'[t] \in Mounted
  <2>1. CASE tab[t] = Unmounted
    BY <1>1, <1>3, <2>1
  <2>2. CASE tab[t] \in Mounted
    <3>1. tab[t].mounted /\ tab'[t] = [tab[t] EXCEPT !.event = TRUE]
      BY <1>1, <2>2, PanelTypes
    <3>2. /\ tab'[t] \in Mounted /\ tab'[t].shown = tab[t].shown /\ tab'[t].read = tab[t].read
          /\ tab'[t].action = tab[t].action
      BY <2>2, <3>1, EventTypes
    <3>3. QED
      BY <2>2, <3>1, <3>2, PanelTypes
  <2>3. QED
    BY <1>3, <2>1, <2>2 DEF Types
<1>5. ViewInv'
  <2>1. storage' \notin Record /\ storage' \in Stored
    BY <1>1, ConstantTypes
  <2>2. tab' = [t \in Tab |-> tab'[t]]
    BY <1>1
  <2>3. tab' \in [Tab -> {Unmounted} \cup Mounted]
    BY <1>4, <2>2
  <2>4. Types'
    BY <1>1, <1>2, <1>3, <2>1, <2>3 DEF Types, Stored, Record, None, Invalid, Unmounted, Mounted
  <2>5. TurnsAreAccepted' /\ RequestsHaveTurns'
    BY <1>1, ServerStays
  <2>6. ASSUME NEW t \in Tab, tab'[t].mounted
        PROVE  Agrees(tab'[t], turns', request')
    <3>1. tab[t].mounted
      BY <1>4, <2>6
    <3>2. Agrees(tab[t], turns, request)
      BY <3>1 DEF ViewInv
    <3>3. turns' = turns /\ request' = request
      BY <1>1
    <3>4. QED
      BY <1>4, <3>1, <3>2, <3>3 DEF Agrees
  <2>7. QED
    BY <2>1, <2>4, <2>5, <2>6 DEF ViewInv, Record
<1>6. NoTabGoesBack
  <2> SUFFICES ASSUME NEW u \in Tab, tab[u].mounted, tab'[u].mounted, NEW i \in DOMAIN tab[u].shown
               PROVE  Rank(tab[u].shown[i].stage) >= Rank(tab[u].shown[i].stage)
    BY <1>4 DEF NoTabGoesBack
  <2>1. tab[u].shown \in History
    BY <1>4, PanelTypes
  <2>2. Rank(tab[u].shown[i].stage) \in Nat
    BY <2>1, HistoryRanks
  <2>3. QED
    BY <2>2
<1>7. RecordIsKept
  BY <1>1 DEF RecordIsKept
<1>8. QED
  BY <1>5, <1>6, <1>7 DEF Good

LEMMA StepNext ==
  ASSUME ViewInv, Next
  PROVE  Good
<1>1. ASSUME NEW t \in Tab,
             \/ Mount(t) \/ Unmount(t)
             \/ \E by \in {"query", "check"} : StartRead(t, by)
             \/ QueryDelivered(t) \/ QuerySuperseded(t) \/ CheckDelivered(t) \/ ReadFails(t)
             \/ StorageEvent(t) \/ TurnsEffect(t) \/ OutcomeArrives(t)
      PROVE  Good
  BY <1>1, StepMount, StepUnmount, StepStartRead, StepQueryDelivered, StepQuerySuperseded, StepCheckDelivered,
     StepReadFails, StepStorageEvent, StepTurnsEffect, StepOutcomeArrives
<1>2. ASSUME NEW t \in Tab, NEW k \in Key,
             (\E i \in Key \cup {NoKey} : Begin(t, k, i)) \/ ResponseArrives(t, k) \/ ErrorArrives(t, k)
      PROVE  Good
  BY <1>2, StepBegin, StepResponseArrives, StepErrorArrives
<1>3. ASSUME NEW k \in Key,
             \/ ServerAccepts(k) \/ ServerRejects(k) \/ RequestFails(k)
             \/ \E i \in Key \cup {NoKey} : OtherDeviceActs(k, i)
      PROVE  Good
  BY <1>3, StepServerAccepts, StepServerRejects, StepRequestFails, StepOtherDeviceActs
<1>4. ASSUME NEW i \in Key, TurnEnds(i)
      PROVE  Good
  BY <1>4, StepTurnEnds
<1>5. CASE StorageDamaged
  BY <1>5, StepStorageDamaged
<1>6. QED
  BY <1>1, <1>2, <1>3, <1>4, <1>5 DEF Next

(* A step that changes nothing.                                             *)
LEMMA Stutters ==
  ASSUME ViewInv, UNCHANGED vars
  PROVE  Good
<1>1. UNCHANGED <<turns, request, storage, tab, mounts, faults>>
  BY DEF vars
<1>2. /\ Grows /\ turns' \in History /\ request' \in [Key -> Request]
      /\ TurnsAreAccepted' /\ RequestsHaveTurns'
  BY <1>1, ServerStays
<1>3. QED
  BY <1>1, <1>2, ServerStep, CounterBounds

LEMMA ViewStarts ==
  ASSUME Init
  PROVE  ViewInv
<1>1. NoTurns \in History /\ DOMAIN NoTurns = {}
  <2>1. NoTurns \in [{} -> Turn] /\ DOMAIN NoTurns = {}
    BY DEF NoTurns
  <2>2. QED
    BY <2>1 DEF History
<1>2. /\ turns = NoTurns /\ request = [k \in Key |-> Unused] /\ storage = None
      /\ tab = [t \in Tab |-> Unmounted] /\ mounts = 0 /\ faults = 0
  BY DEF Init
<1>3. Types
  <2>1. Unused \in Request
    BY DEF Unused, Request
  <2>2. None \in Stored
    BY ConstantTypes
  <2>3. mounts \in 0..MaxMounts /\ faults \in 0..MaxFaults
    BY <1>2, ViewAssumption
  <2>4. QED
    BY <1>1, <1>2, <2>1, <2>2, <2>3 DEF Types
<1>4. \A k \in Key : request[k].status = "unused" /\ request[k].turn = NoKey
  BY <1>2 DEF Unused
<1>5. TurnsAreAccepted /\ RequestsHaveTurns
  BY <1>1, <1>2, <1>4 DEF TurnsAreAccepted, RequestsHaveTurns
<1>6. storage \notin Record /\ \A t \in Tab : ~tab[t].mounted
  BY <1>2, ConstantTypes DEF Unmounted
<1>7. QED
  BY <1>3, <1>5, <1>6 DEF ViewInv

LEMMA ViewIsInvariant ==
  Spec => []ViewInv
<1>1. Init => ViewInv
  BY ViewStarts
<1>2. ViewInv /\ [Next]_vars => ViewInv'
  BY StepNext, Stutters DEF Good
<1>3. QED
  BY <1>1, <1>2, PTL DEF Spec

-----------------------------------------------------------------------------
(* Theorems *)

(* Type correctness of the panels, the shared record, the requests and the  *)
(* history, for any tabs, keys, turns, reloads and faults.                  *)
THEOREM ViewTypes == Spec => []TypeOK
<1>1. ViewInv => TypeOK
  BY DEF ViewInv, Types, TypeOK, Stored
<1>2. QED
  BY <1>1, ViewIsInvariant, PTL

(* For any instance: whatever reads, answers and events arrive late in      *)
(* EpisodeChat.tsx, no tab loses a turn or a later state of one.           *)
THEOREM ViewHistory == Spec => HistoryNeverGoesBack
<1>1. ViewInv /\ [Next]_vars => [NoTabGoesBack]_vars
  BY StepNext DEF Good
<1>2. Spec => [][NoTabGoesBack]_vars
  BY <1>1, ViewIsInvariant, PTL DEF Spec
<1>3. QED
  BY <1>2 DEF HistoryNeverGoesBack, NoTabGoesBack

(* For any instance: the record in local storage is dropped or replaced     *)
(* only when the server rejected its request or a tab shows a turn that     *)
(* decides about it.                                                        *)
THEOREM ViewUncertainty == Spec => UncertaintyIsKept
<1>1. ViewInv /\ [Next]_vars => [RecordIsKept]_vars
  BY StepNext DEF Good
<1>2. Spec => [][RecordIsKept]_vars
  BY <1>1, ViewIsInvariant, PTL DEF Spec
<1>3. QED
  BY <1>2 DEF UncertaintyIsKept, RecordIsKept
=============================================================================
