--------------------------- MODULE MCInstallation ---------------------------
(***************************************************************************)
(* Storage and ProviderChecks for TLC: a behaviour either works on the     *)
(* volumes of an installation or on its key and its jobs; the two share    *)
(* nothing, and one rests while the other is tried.                        *)
(***************************************************************************)
EXTENDS Storage, ProviderChecks, TLC

VARIABLE part  \* what a behaviour works on

InstallationSymmetry == Permutations(Episode) \cup Permutations(Key) \cup Permutations(Model)

LocalProviders ==
  config \in [text : {"ollama"}, speech : {"piper"}, model : Model, piperWorks : {TRUE}, key : {NoKey}]
FreshVolumes == data = EmptyData

MCInit ==
  /\ StorageInit /\ Init
  /\ \/ part = "volumes" /\ LocalProviders
     \/ part = "providers" /\ FreshVolumes
MCNext ==
  \/ part = "volumes" /\ StorageNext /\ UNCHANGED <<vars, part>>
  \/ part = "providers" /\ Next /\ UNCHANGED <<storageVars, part>>
MCSpec == MCInit /\ [][MCNext]_<<storageVars, vars, part>>
=============================================================================
