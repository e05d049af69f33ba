----------------------------- MODULE FeedFetcher -----------------------------
(***************************************************************************)
(* The feed fetcher of one process, server/services/safeFeedFetcher.ts:    *)
(* the slots that bound its concurrent fetches, the queue before them, and *)
(* the chain of hops of each fetch, every one with its own name            *)
(* resolution, network policy and validators.                              *)
(*                                                                         *)
(* A page is a URL on a host of its own.  Two servers may use the same     *)
(* ETag, so a document is named by its page and its ETag.  An address is   *)
(* reduced to its class.  What names resolve to and where pages redirect   *)
(* may be different at every hop; servers answer 304 only to the ETag they *)
(* would send.                                                             *)
(***************************************************************************)
EXTENDS Integers, Sequences, FiniteSets

CONSTANTS
  Fetch,         \* calls of fetch()
  Page,          \* feed addresses and what they redirect to
  NoPage,        \* no document is kept
  PrivatePage,   \* pages whose hosts are allow-listed as private
  MaxFetches,    \* maxConcurrentFetches, 4
  MaxQueued,     \* maxQueuedFetches, 32
  MaxRedirects,  \* limits.maxRedirects, 5
  MaxETag        \* bound on the documents a page publishes

ASSUME FetcherAssumption ==
  /\ NoPage \notin Page /\ PrivatePage \subseteq Page
  /\ MaxFetches \in Nat \ {0} /\ MaxQueued \in Nat /\ MaxRedirects \in Nat
  /\ MaxETag \in Nat \ {0}

VARIABLES
  active,   \* activeFetches
  waiters,  \* fetchWaiters
  call,     \* what each call holds
  current,  \* ETag of the document each page serves
  report    \* what the call that ended last returned or threw

fetcherVars == <<active, waiters, call, current, report>>

-----------------------------------------------------------------------------
AddressClass == {"public", "private", "always_blocked"}
Document     == [page : Page, etag : 1..MaxETag]
NoDocument   == [page |-> NoPage, etag |-> 0]

NotCalled == [pc |-> "new", url |-> NoPage, kept |-> NoDocument, visited |-> {}, pinned |-> "public",
              scope |-> "public"]
Called    == [NotCalled EXCEPT !.pc = "done"]
Failure(why) == [status |-> why, document |-> NoDocument, kept |-> NoDocument, pinned |-> "public",
                 scope |-> "public"]

FetcherInit ==
  /\ active = 0
  /\ waiters = <<>>
  /\ call = [f \in Fetch |-> NotCalled]
  /\ current = [p \in Page |-> 1]
  /\ report = Failure("none")

-----------------------------------------------------------------------------
(* Slots *)

(* fetch(): the source's address and the validators kept with its items *)
Call(f, url, kept) ==
  /\ call[f].pc = "new"
  /\ kept # NoDocument => kept.etag <= current[kept.page]
  /\ LET goes(pc) == call' = [call EXCEPT ![f] = [NotCalled EXCEPT !.pc = pc, !.url = url, !.kept = kept,
                                                                   !.visited = {url}]]
     IN  \/ /\ active < MaxFetches
            /\ active' = active + 1
            /\ goes("resolving")
            /\ UNCHANGED <<waiters, report>>
         \/ /\ active >= MaxFetches /\ Len(waiters) < MaxQueued
            /\ waiters' = Append(waiters, f)
            /\ goes("waiting")
            /\ UNCHANGED <<active, report>>
         \/ /\ active >= MaxFetches /\ Len(waiters) >= MaxQueued
            /\ call' = [call EXCEPT ![f] = Called]
            /\ report' = Failure("FEED_CONCURRENCY_LIMIT")
            /\ UNCHANGED <<active, waiters>>
  /\ UNCHANGED current

WaiterForgotten(f) == waiters  \* mutant: the waiter is not spliced out
Spliced(f) ==
  LET index == CHOOSE i \in 1..Len(waiters) : waiters[i] = f
  IN  SubSeq(waiters, 1, index - 1) \o SubSeq(waiters, index + 1, Len(waiters))

(* The deadline passes, or the worker stops, while the call waits. *)
WaitEnds(f, why) ==
  /\ call[f].pc = "waiting"
  /\ waiters' = Spliced(f)
  /\ call' = [call EXCEPT ![f] = Called]
  /\ report' = Failure(why)
  /\ UNCHANGED <<active, current>>

(* ready() of the first waiter does nothing if it has been settled. *)
Ready == {f \in Fetch : waiters # <<>> /\ f = Head(waiters) /\ call[f].pc = "waiting"}

(* The finally block of fetch(), releaseFetchSlot *)
Ends(f, result) ==
  /\ active' = active - 1 + Cardinality(Ready)
  /\ waiters' = IF waiters = <<>> THEN <<>> ELSE Tail(waiters)
  /\ call' = [g \in Fetch |-> CASE g = f       -> Called
                                [] g \in Ready -> [call[g] EXCEPT !.pc = "resolving"]
                                [] OTHER       -> call[g]]
  /\ report' = result

-----------------------------------------------------------------------------
(* One hop, fetchHop *)

Permitted(url, classes) ==
  /\ "always_blocked" \notin classes
  /\ "private" \in classes => url \in PrivatePage

ScopeOfFirst(f, classes) ==                              \* mutant: judged before redirects only
  IF Cardinality(call[f].visited) > 1 THEN call[f].scope
  ELSE IF "private" \in classes THEN "private" ELSE "public"
ScopeOf(f, classes) == IF "private" \in classes THEN "private" ELSE "public"

(* The name resolves to addresses of these classes; the first is connected *)
(* to, whatever the name resolves to later.                                *)
Resolve(f, classes, pinned) ==
  /\ call[f].pc = "resolving" /\ pinned \in classes
  /\ IF Permitted(call[f].url, classes)
     THEN /\ call' = [call EXCEPT ![f].pc = "requesting", ![f].pinned = pinned,
                                  ![f].scope = ScopeOf(f, classes)]
          /\ UNCHANGED <<active, waiters, report>>
     ELSE Ends(f, Failure("FEED_DESTINATION_BLOCKED"))
  /\ UNCHANGED current

(* The address is no feed URL, or its name does not resolve. *)
ResolveFails(f) ==
  /\ call[f].pc = "resolving"
  /\ \E why \in {"INVALID_FEED_URL", "FEED_DNS_FAILED"} : Ends(f, Failure(why))
  /\ UNCHANGED current

(* The validators in the headers of this hop *)
Sent(f) == IF call[f].kept.page = call[f].url THEN call[f].kept ELSE NoDocument

Result(f, status) ==
  [status   |-> status,
   document |-> [page |-> call[f].url, etag |-> current[call[f].url]],
   kept |-> call[f].kept, pinned |-> call[f].pinned, scope |-> call[f].scope]

Answers(f) ==
  /\ call[f].pc = "requesting"
  /\ Ends(f, Result(f, IF Sent(f).etag = current[call[f].url] THEN "not_modified" ELSE "ok"))
  /\ UNCHANGED current

Redirects(f, target) ==
  /\ call[f].pc = "requesting"
  /\ IF Cardinality(call[f].visited) <= MaxRedirects /\ target \notin call[f].visited
     THEN /\ call' = [call EXCEPT ![f].pc = "resolving", ![f].url = target, ![f].visited = @ \cup {target}]
          /\ UNCHANGED <<active, waiters, report>>
     ELSE Ends(f, Failure("FEED_REDIRECT_LIMIT"))
  /\ UNCHANGED current

(* An invalid redirect, a status, type, encoding or length that is refused, *)
(* a body that grows too long, a connection that fails.                     *)
RequestFails(f) ==
  /\ call[f].pc = "requesting"
  /\ Ends(f, Failure("failed"))
  /\ UNCHANGED current

(* The deadline and the idle limit, or the stop of the worker. *)
Interrupted(f, why) ==
  /\ call[f].pc \in {"resolving", "requesting"}
  /\ Ends(f, Failure(why))
  /\ UNCHANGED current

PageChanges(p) ==
  /\ current[p] < MaxETag
  /\ current' = [current EXCEPT ![p] = @ + 1]
  /\ UNCHANGED <<active, waiters, call, report>>

FetchStep(f) ==
  \/ \E url \in Page, kept \in Document \cup {NoDocument} : Call(f, url, kept)
  \/ \E classes \in SUBSET AddressClass, pinned \in AddressClass : Resolve(f, classes, pinned)
  \/ ResolveFails(f) \/ Answers(f) \/ RequestFails(f)
  \/ \E target \in Page : Redirects(f, target)
  \/ \E why \in {"FEED_TIMEOUT", "AbortError"} : WaitEnds(f, why) \/ Interrupted(f, why)

FetcherNext ==
  \/ \E f \in Fetch : FetchStep(f)
  \/ \E p \in Page : PageChanges(p)

FetcherSpec == FetcherInit /\ [][FetcherNext]_fetcherVars

-----------------------------------------------------------------------------
(* Properties *)

(* No slot is lost or used twice, however waiting calls time out, are       *)
(* stopped or are handed the slot of one that ends: activeFetches counts    *)
(* the calls that run, the queue holds exactly those that wait, and nobody  *)
(* waits while a slot is free.                                              *)
SlotsAreAccounted ==
  LET running == {f \in Fetch : call[f].pc \in {"resolving", "requesting"}}
      waiting == {f \in Fetch : call[f].pc = "waiting"}
  IN  /\ active = Cardinality(running) /\ active <= MaxFetches
      /\ {waiters[i] : i \in 1..Len(waiters)} = waiting /\ Len(waiters) = Cardinality(waiting)
      /\ waiting # {} => active = MaxFetches

(* What a fetch reports is so although every hop may be redirected and      *)
(* resolved anew: "not modified" is said of the document that is kept,      *)
(* never of another page with the same ETag, and what an address of a       *)
(* private network supplied comes from an allow-listed host and is labelled *)
(* private, which keeps it from OpenAI.                                     *)
ReportsAreTrue ==
  report.status \in {"ok", "not_modified"} =>
    /\ report.status = "not_modified" => report.document = report.kept
    /\ report.pinned = "private" => report.scope = "private" /\ report.document.page \in PrivatePage
    /\ report.pinned # "always_blocked"
=============================================================================
