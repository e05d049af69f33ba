------------------------- MODULE MCEpisodePipeline -------------------------
(***************************************************************************)
(* EpisodePipeline and EpisodeRules for TLC: a behaviour either runs the   *)
(* pipeline or shows one input of a rule.  Workers and scripts are only    *)
(* compared for equality.                                                  *)
(***************************************************************************)
EXTENDS EpisodePipeline, EpisodeRules, TLC

PipelineSymmetry == Permutations(Worker) \cup Permutations(Script)

Resting ==
  /\ setup = [note |-> FALSE, text |-> "local", speech |-> "piper"]
  /\ items = [s \in Source |-> NoItem]

MCInit == Init /\ (input = NoInput \/ (Resting /\ input \in Input))
MCNext == input = NoInput /\ Next /\ UNCHANGED input
MCSpec == MCInit /\ [][MCNext]_<<vars, input>>
=============================================================================
