------------------------------ MODULE Storage ------------------------------
(***************************************************************************)
(* The two storage volumes of an installation and what is done to them:    *)
(* storage-init (server/storage.ts, server/storageInit.ts), the start of   *)
(* the application (verifyStorage, openDatabase), and the backup and       *)
(* restore commands (server/operations/backupRestore.ts).                  *)
(*                                                                         *)
(* The data volume holds the database and the media volume the audio       *)
(* files; each carries a marker with the installation id.  A command is    *)
(* interleaved with the application between its file operations, and may   *)
(* fail or be killed between any two of them.  An operator runs one        *)
(* command at a time.  Directory modes, link counts, checksums and size    *)
(* limits are abstracted: a file is present or absent.                     *)
(***************************************************************************)
EXTENDS Naturals, FiniteSets

CONSTANTS
  Episode,    \* runs that may be published; each has one audio file
  MaxCommits, \* bound on the commits of one database
  MaxMishaps  \* bound on kills, failed writes, lost volumes and stray files

ASSUME StorageAssumption == IsFiniteSet(Episode) /\ MaxCommits \in Nat /\ MaxMishaps \in Nat

VARIABLES
  data,     \* the data volume
  media,    \* the media volume
  app,      \* the application and worker processes, together
  command,  \* the operator command in progress
  artifact, \* the published backup, or NoArtifact
  damaged,  \* a command was killed or a volume was lost since both were whole
  faults

storageVars == <<data, media, app, command, artifact, damaged, faults>>

-----------------------------------------------------------------------------
(* Volumes and databases *)

Owner == {"none", "ours", "other"}

(* version is SQLite's data_version: every commit changes it.               *)
Database == [owner : Owner, published : SUBSET Episode, active : SUBSET Episode,
             version : 0..MaxCommits]
NoDatabase == [owner |-> "no database"]
NoArtifact == [db |-> NoDatabase]

DataVolume == [marker : Owner, stray : BOOLEAN, db : Database \cup {NoDatabase}]
MediaVolume == [marker : Owner, stray : BOOLEAN, files : SUBSET Episode]

NewDatabase(owner) == [owner |-> owner, published |-> {}, active |-> {}, version |-> 0]
EmptyData == [marker |-> "none", stray |-> FALSE, db |-> NoDatabase]
EmptyMedia == [marker |-> "none", stray |-> FALSE, files |-> {}]

Idle == [step |-> "idle"]
Initializing == [step : {"marking data", "marking media", "opening"}]
BackingUp ==
  [step : {"validated"}, count : Nat] \cup
  [step : {"versioned"}, count : Nat, version : Nat] \cup
  [step : {"copied", "collected", "verified"}, count : Nat, version : Nat,
   copy : Database, files : SUBSET Episode]
Restoring == [step : {"staged", "data published"}]

VolumeTypes ==
  /\ data \in DataVolume
  /\ media \in MediaVolume
  /\ app \in {"stopped", "running"}
  /\ command \in {Idle} \cup Initializing \cup BackingUp \cup Restoring
  /\ artifact \in [db : Database, files : SUBSET Episode] \cup {NoArtifact}
  /\ damaged \in BOOLEAN
  /\ faults \in 0..MaxMishaps

(* Fresh volumes, or the unmarked database of a development installation   *)
(* that has published nothing yet.                                         *)
StorageInit ==
  /\ \E db \in {NoDatabase, NewDatabase("none")} : data = [EmptyData EXCEPT !.db = db]
  /\ media = EmptyMedia
  /\ app = "stopped"
  /\ command = Idle
  /\ artifact = NoArtifact
  /\ damaged = FALSE
  /\ faults = 0

-----------------------------------------------------------------------------
(* What verifyStorage and openDatabase demand *)

DataMarkerIsOurs == data.marker = "ours"  \* mutant: the media volume is not asked
MarkersAreOurs == data.marker = "ours" /\ media.marker = "ours"
DatabaseIsOurs == data.db # NoDatabase /\ data.db.owner = "ours"
StorageVerified == data.db # NoDatabase /\ MarkersAreOurs
StorageAccepted == StorageVerified /\ DatabaseIsOurs

-----------------------------------------------------------------------------
(* storage-init *)

SafeToInitialize ==
  /\ data.marker = "none" /\ ~data.stray
  /\ media = EmptyMedia

(* With both markers present the volumes are only verified. *)
InitBegins ==
  /\ command = Idle
  /\ \/ SafeToInitialize /\ command' = [step |-> "marking data"]
     \/ StorageVerified /\ command' = [step |-> "opening"]
  /\ UNCHANGED <<data, media, app, artifact, damaged, faults>>

InitMarksData ==
  /\ command.step = "marking data"
  /\ data' = [data EXCEPT !.marker = "ours"]
  /\ command' = [step |-> "marking media"]
  /\ UNCHANGED <<media, app, artifact, damaged, faults>>

InitMarksMedia ==
  /\ command.step = "marking media"
  /\ media' = [media EXCEPT !.marker = "ours"]
  /\ command' = [step |-> "opening"]
  /\ UNCHANGED <<data, app, artifact, damaged, faults>>

MarkedData == data  \* mutant: the first marker is left behind
UnmarkedData == [data EXCEPT !.marker = "none"]

(* The second marker cannot be written: the first is taken back. *)
InitMediaFails ==
  /\ command.step = "marking media"
  /\ faults < MaxMishaps /\ faults' = faults + 1
  /\ data' = UnmarkedData
  /\ command' = Idle
  /\ UNCHANGED <<media, app, artifact, damaged>>

(* openDatabase with initializingStorage creates or adopts the database;   *)
(* one of another installation is refused.                                 *)
Bound(db) ==
  CASE db = NoDatabase -> NewDatabase("ours")
    [] db.owner = "none" -> [db EXCEPT !.owner = "ours"]
    [] OTHER -> db

InitOpens ==
  /\ command.step = "opening"
  /\ data' = IF MarkersAreOurs THEN [data EXCEPT !.db = Bound(@)] ELSE data
  /\ command' = Idle
  /\ UNCHANGED <<media, app, artifact, damaged, faults>>

-----------------------------------------------------------------------------
(* The application *)

AppStarts ==
  /\ app = "stopped"
  /\ StorageAccepted
  /\ app' = "running"
  /\ UNCHANGED <<data, media, command, artifact, damaged, faults>>

(* A stop may leave a job queued or running. *)
AppStops ==
  /\ app = "running"
  /\ app' = "stopped"
  /\ UNCHANGED <<data, media, command, artifact, damaged, faults>>

Commit(published, active) ==
  /\ app = "running"
  /\ data.db.version < MaxCommits
  /\ data' = [data EXCEPT !.db = [owner |-> @.owner, published |-> published, active |-> active,
                                  version |-> @.version + 1]]

(* An edit of a note, a source or a setting: no count changes. *)
EditRows ==
  /\ Commit(data.db.published, data.db.active)
  /\ UNCHANGED <<media, app, command, artifact, damaged, faults>>

BeginJob(e) ==
  /\ app = "running"
  /\ e \notin data.db.published
  /\ data.db.active = {}
  /\ Commit(data.db.published, {e})
  /\ UNCHANGED <<media, app, command, artifact, damaged, faults>>

Render(e) ==
  /\ app = "running"
  /\ e \in data.db.active
  /\ media' = [media EXCEPT !.files = @ \cup {e}]
  /\ UNCHANGED <<data, app, command, artifact, damaged, faults>>

PublishEpisode(e) ==
  /\ app = "running"
  /\ e \in data.db.active \cap media.files
  /\ Commit(data.db.published \cup {e}, {})
  /\ UNCHANGED <<media, app, command, artifact, damaged, faults>>

FailJob(e) ==
  /\ app = "running"
  /\ e \in data.db.active
  /\ Commit(data.db.published, {})
  /\ UNCHANGED <<media, app, command, artifact, damaged, faults>>

-----------------------------------------------------------------------------
(* The backup command *)

Quiescent(db) == db.active = {}
Valid(db) == db.owner # "none" /\ Quiescent(db)

BackupValidates ==
  /\ command = Idle
  /\ artifact = NoArtifact
  /\ data.db # NoDatabase
  /\ Valid(data.db)
  /\ command' = [step |-> "validated", count |-> Cardinality(data.db.published)]
  /\ UNCHANGED <<data, media, app, artifact, damaged, faults>>

BackupReadsVersion ==
  /\ command.step = "validated"
  /\ command' = [step |-> "versioned", count |-> command.count, version |-> data.db.version]
  /\ UNCHANGED <<data, media, app, artifact, damaged, faults>>

(* The backup API yields a snapshot of the database at one commit. *)
BackupCopies ==
  /\ command.step = "versioned"
  /\ command' = [step |-> "copied", count |-> command.count, version |-> command.version,
                 copy |-> data.db, files |-> {}]
  /\ UNCHANGED <<data, media, app, artifact, damaged, faults>>

(* The list of published files is read from the live database. *)
BackupCollects ==
  /\ command.step = "copied"
  /\ Cardinality(data.db.published) = command.count
  /\ data.db.published \subseteq media.files
  /\ command' = [command EXCEPT !.step = "collected", !.files = data.db.published]
  /\ UNCHANGED <<data, media, app, artifact, damaged, faults>>

SameCount == Cardinality(data.db.published) = command.count  \* mutant: counts compared again
SourceUnchanged == command.version = data.db.version

CopyMatches ==
  /\ Valid(command.copy)
  /\ Cardinality(command.copy.published) = command.count
  /\ command.copy.published = command.files

BackupVerifies ==
  /\ command.step = "collected"
  /\ CopyMatches
  /\ SourceUnchanged
  /\ command' = [command EXCEPT !.step = "verified"]
  /\ UNCHANGED <<data, media, app, artifact, damaged, faults>>

BackupPublishes ==
  /\ command.step = "verified"
  /\ artifact' = [db |-> command.copy, files |-> command.files]
  /\ command' = Idle
  /\ UNCHANGED <<data, media, app, damaged, faults>>

(* Any step that refuses removes the staging directory. *)
BackupFails ==
  /\ command \in BackingUp
  /\ command' = Idle
  /\ UNCHANGED <<data, media, app, artifact, damaged, faults>>

-----------------------------------------------------------------------------
(* The restore command *)

RestoreStages ==
  /\ command = Idle
  /\ artifact # NoArtifact
  /\ data = EmptyData /\ media = EmptyMedia
  /\ command' = [step |-> "staged"]
  /\ UNCHANGED <<data, media, app, artifact, damaged, faults>>

(* The staged directory replaces the empty target by a rename; the marker  *)
(* is the identity of the restored database.                               *)
RestorePublishesData ==
  /\ command.step = "staged"
  /\ data = EmptyData
  /\ data' = [marker |-> artifact.db.owner, stray |-> FALSE, db |-> artifact.db]
  /\ command' = [step |-> "data published"]
  /\ UNCHANGED <<media, app, artifact, damaged, faults>>

RestorePublishesMedia ==
  /\ command.step = "data published"
  /\ media = EmptyMedia
  /\ media' = [marker |-> artifact.db.owner, stray |-> FALSE, files |-> artifact.files]
  /\ command' = Idle
  /\ UNCHANGED <<data, app, artifact, damaged, faults>>

DataAfterFailure == IF command.step = "data published" THEN EmptyData ELSE data

RestoreFails ==
  /\ command \in Restoring
  /\ data' = DataAfterFailure
  /\ command' = Idle
  /\ UNCHANGED <<media, app, artifact, damaged, faults>>

-----------------------------------------------------------------------------
(* The environment *)

(* A command or a process is killed, or the power fails: nothing cleans up. *)
Killed ==
  /\ command # Idle
  /\ faults < MaxMishaps /\ faults' = faults + 1
  /\ command' = Idle
  /\ app' = "stopped"
  /\ damaged' = TRUE
  /\ UNCHANGED <<data, media, artifact>>

StrayFile ==
  /\ faults < MaxMishaps /\ faults' = faults + 1
  /\ \/ data' = [data EXCEPT !.stray = TRUE] /\ UNCHANGED media
     \/ media' = [media EXCEPT !.stray = TRUE] /\ UNCHANGED data
  /\ UNCHANGED <<app, command, artifact, damaged>>

(* A volume is lost, emptied by the operator, or mounted from another      *)
(* installation.                                                           *)
ReplaceVolume ==
  /\ app = "stopped" /\ command = Idle
  /\ faults < MaxMishaps /\ faults' = faults + 1
  /\ \/ /\ data' \in {EmptyData, [EmptyData EXCEPT !.marker = "other", !.db = NewDatabase("other")]}
        /\ UNCHANGED media
     \/ /\ media' \in {EmptyMedia, [EmptyMedia EXCEPT !.marker = "other"]}
        /\ UNCHANGED data
  /\ damaged' = ~(data' = EmptyData /\ media' = EmptyMedia)
  /\ UNCHANGED <<app, command, artifact>>

StorageNext ==
  \/ InitBegins \/ InitMarksData \/ InitMarksMedia \/ InitMediaFails \/ InitOpens
  \/ AppStarts \/ AppStops \/ EditRows
  \/ \E e \in Episode : BeginJob(e) \/ Render(e) \/ PublishEpisode(e) \/ FailJob(e)
  \/ BackupValidates \/ BackupReadsVersion \/ BackupCopies \/ BackupCollects
  \/ BackupVerifies \/ BackupPublishes \/ BackupFails
  \/ RestoreStages \/ RestorePublishesData \/ RestorePublishesMedia \/ RestoreFails
  \/ Killed \/ StrayFile \/ ReplaceVolume

StorageSpec == StorageInit /\ [][StorageNext]_storageVars

-----------------------------------------------------------------------------
(* Properties *)

(* README.md:90, SPEC.md DATA-03: an application that runs has the audio of *)
(* every published episode, whatever volumes were lost, replaced, half      *)
(* initialized or half restored before it started, and whatever backup it   *)
(* was restored from.                                                       *)
RunningHasItsMedia ==
  app = "running" => /\ data.db.owner = "ours"
                     /\ data.db.published \subseteq media.files

(* storage.ts:124 and the catch of restoreVersionedBackup: one marker       *)
(* without the other, a state every later command refuses, is left behind   *)
(* only by a kill or a lost volume, never by a command that failed.         *)
HalfInstalledOnlyByDamage ==
  ((data.marker = "ours") # (media.marker = "ours"))
    => damaged \/ command.step \in {"marking media", "data published"}

(* OPS-02: when a backup has been verified, the database it copied is the   *)
(* database as it is: no commit of the running application fell between     *)
(* what was validated, what was copied and the list of files.               *)
BackupIsCurrent ==
  [][command'.step = "verified" /\ command.step # "verified"
       => command.copy = data.db /\ command.files = data.db.published]_storageVars
=============================================================================
