---------------------------- MODULE MCSourceSync ----------------------------
(***************************************************************************)
(* SourceSync and FeedFetcher for TLC: a behaviour shows either the syncs  *)
(* of one source, whose fetches are single steps, or the fetches of one    *)
(* process, step by step.  Each is at rest in its initial state while the  *)
(* other one runs.                                                         *)
(***************************************************************************)
EXTENDS SourceSync, FeedFetcher, TLC

SourceSymmetry == Permutations(Url) \cup Permutations(WorkerSync)

VARIABLE shown  \* which of the two the behaviour shows

MCInit == Init /\ FetcherInit /\ (shown = "syncs" \/ shown = "fetches")

MCNext ==
  \/ shown = "syncs" /\ Next /\ UNCHANGED <<fetcherVars, shown>>
  \/ shown = "fetches" /\ FetcherNext /\ UNCHANGED <<vars, shown>>

MCSpec == MCInit /\ [][MCNext]_<<vars, fetcherVars, shown>>
=============================================================================
