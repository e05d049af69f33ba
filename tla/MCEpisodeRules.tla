--------------------------- MODULE MCEpisodeRules ---------------------------
(***************************************************************************)
(* EpisodeRules alone, for the run that shows a body the catalog refuses.  *)
(***************************************************************************)
EXTENDS EpisodeRules

MCInit == input \in BodyInput
MCNext == UNCHANGED input
MCSpec == MCInit /\ [][MCNext]_input
=============================================================================
