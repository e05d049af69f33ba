---------------------------- MODULE MCChatTurns ----------------------------
(***************************************************************************)
(* Constants for checking ChatTurns with TLC.  Turns, runs and workers are *)
(* only compared for equality.                                             *)
(***************************************************************************)
EXTENDS ChatSchema, ChatBackup, TLC

ChatSymmetry == Permutations(Turn) \cup Permutations(Run) \cup Permutations(Worker)
=============================================================================
