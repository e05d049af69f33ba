--------------------------- MODULE Storage_proofs ---------------------------
(***************************************************************************)
(* Proofs about Storage.  Sound says what the two volumes have to do with  *)
(* each other and with the artifact, InHand what a command in progress     *)
(* relies on, Copying what a backup in progress knows of the database.     *)
(* Most steps change either the command or one volume; a lemma for each    *)
(* kind of step says what is left to show of it.                           *)
(***************************************************************************)
EXTENDS Storage, Integers, FiniteSetTheorems, TLAPS

Command == {Idle} \cup Initializing \cup BackingUp \cup Restoring

Copies == {"copied", "collected", "verified"}
BackupSteps == {"validated", "versioned"} \cup Copies

Empty == {NoDatabase, NewDatabase("none")}

(* The database is of the volume's installation, or was never opened; an    *)
(* unmarked media volume holds nothing; two volumes of one installation     *)
(* agree; an application runs on accepted storage only.                     *)
Sound ==
  /\ data.db \notin Empty => data.db \in Database /\ data.db.owner = data.marker /\ data.marker # "none"
  /\ media.marker = "none" => media.files = {}
  /\ data.marker = "ours" /\ media.marker = "ours" /\ data.db \notin Empty
       => data.db.published \subseteq media.files
  /\ app = "running" => data.db \notin Empty /\ MarkersAreOurs
  /\ artifact # NoArtifact => artifact.db \notin Empty /\ artifact.db.published = artifact.files
                              /\ artifact.db.owner # "none"

InHand ==
  /\ command.step = "marking data" => data.marker = "none" /\ media.marker = "none"
  /\ command.step = "marking media" => data.marker = "ours" /\ data.db \in Empty /\ media.marker = "none"
  /\ command.step \in {"staged", "data published"} => artifact # NoArtifact /\ media.marker = "none"
  /\ command.step = "staged" => data.marker = "none"
  /\ command.step = "data published" => data.marker = artifact.db.owner /\ data.db = artifact.db
  /\ command.step = "verified" => command.copy \notin Empty /\ command.copy.published = command.files
                                   /\ command.copy.owner # "none"

(* Versions only grow, and one version is one state of the database. *)
Copying ==
  /\ command.step \in BackupSteps => data.db \notin Empty
  /\ command.step = "versioned" => command.version <= data.db.version
  /\ command.step \in Copies =>
       /\ command.version <= command.copy.version /\ command.copy.version <= data.db.version
       /\ command.copy.version = data.db.version => command.copy = data.db

Inv == VolumeTypes /\ Sound /\ InHand /\ Copying /\ HalfInstalledOnlyByDamage

-----------------------------------------------------------------------------
(* Records *)

LEMMA CommandIs ==
  ASSUME NEW c \in Command
  PROVE  /\ c = Idle <=> c.step = "idle"
         /\ c \in BackingUp <=> c.step \in BackupSteps
         /\ c \in Restoring <=> c.step \in {"staged", "data published"}
         /\ c.step = "validated" => c.count \in Nat
         /\ c.step \in {"versioned"} \cup Copies => c.count \in Nat /\ c.version \in Nat
         /\ c.step \in Copies => c.copy \in Database /\ c.files \subseteq Episode
<1>1. c = Idle => c.step = "idle"
  BY DEF Idle
<1>2. c \in Initializing => c.step \in {"marking data", "marking media", "opening"}
  BY DEF Initializing
<1>3. c \in Restoring => c.step \in {"staged", "data published"}
  BY DEF Restoring
<1>4. c \in BackingUp =>
        /\ c.step \in BackupSteps /\ c.count \in Nat
        /\ c.step \in {"versioned"} \cup Copies => c.version \in Nat
        /\ c.step \in Copies => c.copy \in Database /\ c.files \subseteq Episode
  BY DEF BackingUp, BackupSteps, Copies
<1>5. c = Idle \/ c \in Initializing \/ c \in BackingUp \/ c \in Restoring
  BY DEF Command
<1> QED
  BY <1>1, <1>2, <1>3, <1>4, <1>5 DEF BackupSteps, Copies

LEMMA ShortCommands ==
  ASSUME NEW s \in {"idle", "marking data", "marking media", "opening", "staged", "data published"}
  PROVE  [step |-> s] \in Command
BY DEF Command, Idle, Initializing, Restoring

LEMMA EmptyIs == /\ NewDatabase("none") \in Database
                 /\ NewDatabase("none").owner = "none" /\ NewDatabase("none").published = {}
                 /\ NewDatabase("ours") \in Database
                 /\ NewDatabase("ours").owner = "ours" /\ NewDatabase("ours").published = {}
                 /\ NoDatabase.owner = "no database"
BY StorageAssumption DEF NewDatabase, Database, Owner, NoDatabase

LEMMA VolumesAre ==
  /\ EmptyData \in DataVolume /\ EmptyData.marker = "none" /\ EmptyData.db = NoDatabase
  /\ EmptyMedia \in MediaVolume /\ EmptyMedia.marker = "none" /\ EmptyMedia.files = {}
BY DEF EmptyData, EmptyMedia, DataVolume, MediaVolume, Owner

LEMMA DatabaseIs ==
  ASSUME NEW d \in Database
  PROVE  /\ d.version \in 0..MaxCommits /\ d.version \in Nat
         /\ d.owner \in Owner /\ d.published \subseteq Episode /\ d.active \subseteq Episode
BY StorageAssumption DEF Database

LEMMA FaultCounts ==
  ASSUME faults \in 0..MaxMishaps, faults < MaxMishaps, faults' = faults + 1
  PROVE  faults' \in 0..MaxMishaps
BY StorageAssumption

LEMMA UsedDatabase == ASSUME VolumeTypes, data.db \notin Empty PROVE data.db \in Database
BY DEF VolumeTypes, DataVolume, Empty

LEMMA InitSound == StorageInit => Inv
<1> SUFFICES ASSUME StorageInit PROVE Inv
  OBVIOUS
<1>1. PICK db \in Empty : data = [EmptyData EXCEPT !.db = db]
  BY DEF StorageInit, Empty
<1>2. data.db = db /\ data.marker = "none" /\ data \in DataVolume
  <2>1. db \in Database \cup {NoDatabase}
    BY EmptyIs DEF Empty
  <2> QED
    BY <1>1, <2>1 DEF EmptyData, DataVolume, Owner
<1>3. command = [step |-> "idle"] /\ command.step = "idle" /\ command \in Command
  BY ShortCommands DEF StorageInit, Idle
<1>4. media \in MediaVolume /\ media.files = {} /\ media.marker = "none"
  BY VolumesAre DEF StorageInit
<1>5. VolumeTypes
  <2>1. faults \in 0..MaxMishaps /\ artifact = NoArtifact /\ damaged = FALSE /\ app = "stopped"
    BY StorageAssumption DEF StorageInit
  <2> QED
    BY <1>2, <1>3, <1>4, <2>1 DEF VolumeTypes, Command
<1>6. Sound
  BY <1>2, <1>4 DEF StorageInit, Sound
<1>7. InHand /\ Copying /\ HalfInstalledOnlyByDamage
  BY <1>2, <1>3, <1>4 DEF InHand, Copying, BackupSteps, Copies, HalfInstalledOnlyByDamage
<1> QED
  BY <1>5, <1>6, <1>7 DEF Inv

-----------------------------------------------------------------------------
(* Kinds of steps *)

(* The command goes on; volumes, application and artifact stay. *)
LEMMA CommandStep ==
  ASSUME Inv, UNCHANGED <<data, media, artifact>>,
         app' = app \/ app' = "stopped", damaged' \in BOOLEAN, damaged => damaged', faults' \in 0..MaxMishaps,
         command' \in Command, InHand', Copying',
         damaged' \/ command.step \notin {"marking media", "data published"}
  PROVE  Inv'
<1>1. VolumeTypes'
  BY DEF Inv, VolumeTypes, Command
<1>2. Sound'
  BY DEF Inv, Sound, MarkersAreOurs, VolumeTypes
<1>3. HalfInstalledOnlyByDamage'
  BY DEF Inv, HalfInstalledOnlyByDamage, VolumeTypes
<1> QED
  BY <1>1, <1>2, <1>3 DEF Inv

(* An application may only run where no command is between its own steps. *)
LEMMA RunningMeets ==
  ASSUME Inv, app = "running"
  PROVE  /\ data.db \in Database /\ data.db \notin Empty
         /\ data.marker = "ours" /\ media.marker = "ours"
         /\ data.db.owner = "ours" /\ data.db.published \subseteq media.files
         /\ command.step \notin {"marking data", "marking media", "staged", "data published"}
BY DEF Inv, Sound, InHand, MarkersAreOurs

(* A commit of the application. *)
LEMMA CommitStep ==
  ASSUME Inv, NEW published \in SUBSET Episode, NEW active \in SUBSET Episode,
         published \subseteq media.files, Commit(published, active),
         UNCHANGED <<media, app, command, artifact, damaged, faults>>
  PROVE  Inv'
<1>1. /\ data.db \in Database /\ data.marker = "ours" /\ media.marker = "ours" /\ app = "running"
      /\ command.step \notin {"marking data", "marking media", "staged", "data published"}
      /\ data.db.owner = "ours"
  BY RunningMeets DEF Commit
<1>v. /\ data.db.version + 1 \in 0..MaxCommits /\ data.db.version + 1 \in Nat
      /\ data.db.version \in Nat /\ data.db.version < data.db.version + 1
  <2>1. data.db.version < MaxCommits
    BY DEF Commit
  <2>2. data.db.version \in Nat
    BY <1>1, DatabaseIs
  <2> QED
    BY <2>1, <2>2, StorageAssumption
<1> DEFINE db == [owner |-> data.db.owner, published |-> published, active |-> active,
                  version |-> data.db.version + 1]
<1>2. /\ db \in Database /\ db.owner = "ours" /\ db.published = published
      /\ db.version = data.db.version + 1
  BY <1>1, <1>v DEF Database, Owner
<1>3. data' = [data EXCEPT !.db = db]
  BY <1>1 DEF Commit
<1> HIDE DEF db
<1>4. data' \in DataVolume /\ data'.db = db /\ data'.marker = "ours"
  BY <1>1, <1>2, <1>3 DEF Inv, VolumeTypes, DataVolume
<1>5. db \notin Empty
  <2>1. db # NoDatabase
    BY <1>2, EmptyIs
  <2> QED
    BY <1>2, <2>1, EmptyIs DEF Empty
<1>6. VolumeTypes'
  BY <1>4 DEF Inv, VolumeTypes
<1>7. Sound'
  BY <1>1, <1>2, <1>4, <1>5 DEF Inv, Sound, MarkersAreOurs
<1>8. InHand'
  BY <1>1, <1>4 DEF Inv, InHand
<1>9. Copying'
  <2>1. command \in Command
    BY DEF Inv, VolumeTypes, Command
  <2>2. ASSUME command.step \in Copies PROVE command.copy.version \in Nat
    <3>1. command.copy \in Database
      BY <2>1, <2>2, CommandIs
    <3> QED
      BY <3>1 DEF Database
  <2>3. ASSUME command.step = "versioned" PROVE command.version \in Nat
    BY <2>1, <2>3, CommandIs
  <2>4. ASSUME command.step \in Copies PROVE command.version \in Nat
    BY <2>1, <2>4, CommandIs
  <2>5. data.db.version < data'.db.version /\ data'.db.version \in Nat
    BY <1>v, <1>2, <1>4
  <2>6. ASSUME command.step = "versioned" PROVE command.version <= data'.db.version
    BY <1>v, <2>3, <2>5, <2>6 DEF Inv, Copying
  <2>7. ASSUME command.step \in Copies
        PROVE  command.version <= command.copy.version /\ command.copy.version < data'.db.version
    BY <1>v, <2>2, <2>4, <2>5, <2>7 DEF Inv, Copying
  <2>8. ASSUME command.step \in Copies
        PROVE  command.copy.version <= data'.db.version /\ command.copy.version # data'.db.version
    BY <2>2, <2>5, <2>7, <2>8
  <2> QED
    BY <1>4, <1>5, <2>6, <2>7, <2>8 DEF Copying
<1>10. HalfInstalledOnlyByDamage'
  BY <1>1, <1>4 DEF HalfInstalledOnlyByDamage
<1> QED
  BY <1>6, <1>7, <1>8, <1>9, <1>10 DEF Inv

-----------------------------------------------------------------------------
(* storage-init *)

LEMMA InitBeginsSound == ASSUME Inv, InitBegins PROVE Inv'
<1>1. CASE command' = [step |-> "marking data"] /\ SafeToInitialize
  <2>1. command' \in Command /\ command'.step = "marking data"
    BY <1>1, ShortCommands
  <2>2. data.marker = "none" /\ media.marker = "none" /\ command.step = "idle"
    BY <1>1, VolumesAre DEF SafeToInitialize, InitBegins, Idle
  <2>3. InHand' /\ Copying'
    BY <2>1, <2>2 DEF InitBegins, InHand, Copying, BackupSteps, Copies
  <2> QED
    BY <2>1, <2>2, <2>3, CommandStep DEF InitBegins, Inv, VolumeTypes
<1>2. CASE command' = [step |-> "opening"]
  <2>1. command' \in Command /\ command'.step = "opening"
    BY <1>2, ShortCommands
  <2>2. InHand' /\ Copying'
    BY <2>1 DEF InHand, Copying, BackupSteps, Copies
  <2>3. command.step = "idle"
    BY DEF InitBegins, Idle
  <2> QED
    BY <2>1, <2>2, <2>3, CommandStep DEF InitBegins, Inv, VolumeTypes
<1> QED
  BY <1>1, <1>2 DEF InitBegins

(* A step of storage-init writes a volume while no application runs. *)
LEMMA VolumeStep ==
  ASSUME Inv, data' \in DataVolume, media' \in MediaVolume, command' \in Command,
         app' = "stopped", artifact' = artifact, damaged' \in BOOLEAN, faults' \in 0..MaxMishaps,
         data'.db \notin Empty => data'.db.owner = data'.marker /\ data'.marker # "none",
         media'.marker = "none" => media'.files = {},
         data'.marker = "ours" /\ media'.marker = "ours" /\ data'.db \notin Empty
           => data'.db.published \subseteq media'.files,
         InHand', command'.step \notin BackupSteps,
         \/ (data'.marker = "ours") = (media'.marker = "ours")
         \/ damaged' \/ command'.step \in {"marking media", "data published"}
  PROVE  Inv'
<1>1. VolumeTypes'
  BY DEF Inv, VolumeTypes, Command
<1>2. data'.db \notin Empty => data'.db \in Database
  BY <1>1, UsedDatabase DEF VolumeTypes, DataVolume, Empty
<1>3. Sound'
  BY <1>2 DEF Inv, Sound
<1>4. Copying'
  BY DEF Copying, BackupSteps, Copies
<1>5. HalfInstalledOnlyByDamage'
  BY DEF HalfInstalledOnlyByDamage
<1> QED
  BY <1>1, <1>3, <1>4, <1>5 DEF Inv

LEMMA StoppedUnless ==
  ASSUME Inv, command.step \in {"marking data", "marking media", "staged", "data published"}
  PROVE  app = "stopped"
BY RunningMeets DEF Inv, VolumeTypes

LEMMA InitMarksDataSound == ASSUME Inv, InitMarksData PROVE Inv'
<1>1. /\ data.marker = "none" /\ media.marker = "none" /\ app = "stopped" /\ data \in DataVolume
      /\ media \in MediaVolume /\ media.files = {} /\ data.db \in Empty
  BY StoppedUnless DEF Inv, VolumeTypes, InHand, Sound, InitMarksData
<1>2. data' \in DataVolume /\ data'.marker = "ours" /\ data'.db = data.db
  BY <1>1 DEF InitMarksData, DataVolume, Owner
<1>3. command' \in Command /\ command'.step = "marking media"
  BY ShortCommands DEF InitMarksData
<1>4. InHand'
  BY <1>1, <1>2, <1>3 DEF InitMarksData, InHand
<1> QED
  BY <1>1, <1>2, <1>3, <1>4, VolumeStep DEF InitMarksData, BackupSteps, Copies, Inv, VolumeTypes

LEMMA InitMarksMediaSound == ASSUME Inv, InitMarksMedia PROVE Inv'
<1>1. /\ data.marker = "ours" /\ app = "stopped" /\ data \in DataVolume /\ media \in MediaVolume
      /\ data.db \in Empty
  BY StoppedUnless DEF Inv, VolumeTypes, InHand, InitMarksMedia
<1>2. media' \in MediaVolume /\ media'.marker = "ours" /\ media'.files = media.files
  BY <1>1 DEF InitMarksMedia, MediaVolume, Owner
<1>3. command' \in Command /\ command'.step = "opening"
  BY ShortCommands DEF InitMarksMedia
<1>4. InHand'
  BY <1>3 DEF InHand
<1> QED
  BY <1>1, <1>2, <1>3, <1>4, VolumeStep DEF InitMarksMedia, BackupSteps, Copies, Inv, VolumeTypes

LEMMA InitMediaFailsSound == ASSUME Inv, InitMediaFails PROVE Inv'
<1>1. /\ data.marker = "ours" /\ app = "stopped" /\ data \in DataVolume /\ media \in MediaVolume
      /\ data.db \in Empty /\ media.marker = "none" /\ media.files = {}
  BY StoppedUnless DEF Inv, VolumeTypes, InHand, Sound, InitMediaFails
<1>2. data' \in DataVolume /\ data'.marker = "none" /\ data'.db = data.db
  BY <1>1 DEF InitMediaFails, UnmarkedData, DataVolume, Owner
<1>3. command' \in Command /\ command'.step = "idle"
  BY ShortCommands DEF InitMediaFails, Idle
<1>4. InHand'
  BY <1>3 DEF InHand
<1>5. faults' \in 0..MaxMishaps
  BY FaultCounts DEF InitMediaFails, Inv, VolumeTypes
<1> QED
  BY <1>1, <1>2, <1>3, <1>4, <1>5, VolumeStep DEF InitMediaFails, BackupSteps, Copies, Inv, VolumeTypes

LEMMA InitOpensSound == ASSUME Inv, InitOpens PROVE Inv'
<1>1. command' \in Command /\ command'.step = "idle" /\ command.step = "opening"
  BY ShortCommands DEF InitOpens, Idle
<1>2. InHand' /\ Copying'
  BY <1>1 DEF InHand, Copying, BackupSteps, Copies
<1>3. CASE ~MarkersAreOurs \/ data.db \notin Empty
  <2>1. data.db \notin Empty => Bound(data.db) = data.db
    BY DEF Inv, Sound, Bound, Empty
  <2>2. [data EXCEPT !.db = data.db] = data
    BY DEF Inv, VolumeTypes, DataVolume
  <2>3. data' = data
    BY <1>3, <2>1, <2>2 DEF InitOpens
  <2> QED
    BY <1>1, <1>2, <2>3, CommandStep DEF InitOpens, Inv, VolumeTypes
<1>4. CASE MarkersAreOurs /\ data.db \in Empty
  <2>1. Bound(data.db) \in Database /\ Bound(data.db).owner = "ours" /\ Bound(data.db).published = {}
    <3>1. CASE data.db = NoDatabase
      BY <3>1, EmptyIs DEF Bound
    <3>2. CASE data.db # NoDatabase /\ data.db = NewDatabase("none")
      <4>1. Bound(data.db) = [NewDatabase("none") EXCEPT !.owner = "ours"]
        BY <3>2, EmptyIs DEF Bound
      <4>2. [NewDatabase("none") EXCEPT !.owner = "ours"] = NewDatabase("ours")
        BY DEF NewDatabase
      <4> QED
        BY <4>1, <4>2, EmptyIs
    <3> QED
      BY <1>4, <3>1, <3>2 DEF Empty
  <2>2. data' = [data EXCEPT !.db = Bound(data.db)] /\ data \in DataVolume /\ data.marker = "ours"
    BY <1>4 DEF InitOpens, Inv, VolumeTypes, MarkersAreOurs
  <2>3. data' \in DataVolume /\ data'.marker = "ours" /\ data'.db = Bound(data.db)
    BY <2>1, <2>2 DEF DataVolume
  <2>4. app = "stopped" /\ media.marker = "ours"
    BY <1>4 DEF Inv, Sound, VolumeTypes, MarkersAreOurs
  <2> QED
    BY <1>1, <1>2, <2>1, <2>3, <2>4, VolumeStep DEF InitOpens, BackupSteps, Copies, Inv, VolumeTypes
<1> QED
  BY <1>3, <1>4

-----------------------------------------------------------------------------
(* The application *)

LEMMA AppStartsSound == ASSUME Inv, AppStarts PROVE Inv'
<1>1. data.db \notin Empty /\ MarkersAreOurs
  <2>1. data.db # NoDatabase /\ data.db.owner = "ours" /\ MarkersAreOurs
    BY DEF AppStarts, StorageAccepted, StorageVerified, DatabaseIsOurs
  <2> QED
    BY <2>1, EmptyIs DEF Empty
<1>2. VolumeTypes' /\ Sound' /\ HalfInstalledOnlyByDamage'
  BY <1>1 DEF AppStarts, Inv, VolumeTypes, Sound, HalfInstalledOnlyByDamage, MarkersAreOurs
<1>3. InHand' /\ Copying'
  BY DEF AppStarts, Inv, InHand, Copying
<1> QED
  BY <1>2, <1>3 DEF Inv

LEMMA AppStopsSound == ASSUME Inv, AppStops PROVE Inv'
<1>1. command' \in Command
  BY DEF AppStops, Inv, VolumeTypes, Command
<1>2. InHand' /\ Copying'
  BY DEF AppStops, Inv, InHand, Copying
<1>3. command.step \notin {"marking media", "data published"}
  BY RunningMeets DEF AppStops
<1> QED
  BY <1>1, <1>2, <1>3, CommandStep DEF AppStops, Inv, VolumeTypes

LEMMA AppCommitsSound ==
  ASSUME Inv, NEW e \in Episode, BeginJob(e) \/ PublishEpisode(e) \/ FailJob(e)
  PROVE  Inv'
<1>1. app = "running"
  BY DEF BeginJob, PublishEpisode, FailJob, Commit
<1>2. data.db.published \subseteq Episode /\ data.db.active \subseteq Episode /\ data.db.published \subseteq media.files
  BY <1>1, RunningMeets, DatabaseIs
<1>3. CASE BeginJob(e)
  BY <1>2, <1>3, CommitStep DEF BeginJob
<1>4. CASE PublishEpisode(e)
  BY <1>2, <1>4, CommitStep DEF PublishEpisode
<1>5. CASE FailJob(e)
  BY <1>2, <1>5, CommitStep DEF FailJob
<1> QED
  BY <1>3, <1>4, <1>5

LEMMA EditRowsSound == ASSUME Inv, EditRows PROVE Inv'
<1>1. data.db.published \subseteq Episode /\ data.db.active \subseteq Episode /\ data.db.published \subseteq media.files
  BY RunningMeets, DatabaseIs DEF EditRows, Commit
<1> QED
  BY <1>1, CommitStep DEF EditRows

LEMMA RenderSound == ASSUME Inv, NEW e \in Episode, Render(e) PROVE Inv'
<1>1. media' \in MediaVolume /\ media'.marker = media.marker /\ media'.files = media.files \cup {e}
  BY DEF Render, Inv, VolumeTypes, MediaVolume
<1>2. VolumeTypes' /\ Sound'
  BY <1>1, RunningMeets DEF Render, Inv, VolumeTypes, Sound, MarkersAreOurs
<1>3. InHand' /\ Copying' /\ HalfInstalledOnlyByDamage'
  BY <1>1 DEF Render, Inv, InHand, Copying, HalfInstalledOnlyByDamage
<1> QED
  BY <1>2, <1>3 DEF Inv

-----------------------------------------------------------------------------
(* Backup *)

CopyCommand == [step : Copies, count : Nat, version : Nat, copy : Database, files : SUBSET Episode]

LEMMA ValidatedCommand == ASSUME NEW n \in Nat PROVE [step |-> "validated", count |-> n] \in Command
BY DEF Command, BackingUp

LEMMA VersionedCommand ==
  ASSUME NEW n \in Nat, NEW v \in Nat
  PROVE  [step |-> "versioned", count |-> n, version |-> v] \in Command
BY DEF Command, BackingUp

LEMMA CopyCommandIs == CopyCommand \subseteq Command /\ \A c \in Command : c.step \in Copies => c \in CopyCommand
<1>1. CopyCommand \subseteq Command
  BY DEF CopyCommand, Command, BackingUp, Copies
<1>2. ASSUME NEW c \in Command, c.step \in Copies PROVE c \in CopyCommand
  <2>1. c \in BackingUp
    BY <1>2, CommandIs DEF BackupSteps
  <2> QED
    BY <1>2, <2>1 DEF CopyCommand, BackingUp, Copies
<1> QED
  BY <1>1, <1>2

LEMMA BackupValidatesSound == ASSUME Inv, BackupValidates PROVE Inv'
<1>1. data.db \notin Empty /\ data.db \in Database
  <2>1. data.db # NoDatabase /\ data.db.owner # "none"
    BY DEF BackupValidates, Valid
  <2>2. data.db \notin Empty
    BY <2>1, EmptyIs DEF Empty
  <2> QED
    BY <2>2, UsedDatabase DEF Inv
<1>2. Cardinality(data.db.published) \in Nat
  BY <1>1, DatabaseIs, StorageAssumption, FS_Subset, FS_CardinalityType
<1>3. command' \in Command /\ command'.step = "validated"
  BY <1>2, ValidatedCommand DEF BackupValidates
<1>4. InHand' /\ Copying'
  BY <1>1, <1>3 DEF BackupValidates, InHand, Copying, Copies
<1> QED
  BY <1>3, <1>4, CommandStep DEF BackupValidates, Inv, VolumeTypes, Idle

LEMMA BackupReadsVersionSound == ASSUME Inv, BackupReadsVersion PROVE Inv'
<1>1. command \in Command /\ command.step = "validated" /\ command.count \in Nat
  BY CommandIs DEF Inv, VolumeTypes, Command, BackupReadsVersion
<1>2. data.db \in Database /\ data.db \notin Empty /\ data.db.version \in Nat
  BY <1>1, UsedDatabase, DatabaseIs DEF Inv, Copying, BackupSteps
<1>3. command' \in Command /\ command'.step = "versioned" /\ command'.version = data.db.version
  BY <1>1, <1>2, VersionedCommand DEF BackupReadsVersion
<1>4. InHand'
  BY <1>3 DEF InHand
<1>5. Copying'
  BY <1>2, <1>3 DEF BackupReadsVersion, Copying, BackupSteps, Copies
<1> QED
  BY <1>1, <1>3, <1>4, <1>5, CommandStep DEF BackupReadsVersion, Inv, VolumeTypes

LEMMA BackupCopiesSound == ASSUME Inv, BackupCopies PROVE Inv'
<1>1. command \in Command /\ command.step = "versioned" /\ command.count \in Nat /\ command.version \in Nat
  BY CommandIs DEF Inv, VolumeTypes, Command, BackupCopies
<1>2. /\ data.db \in Database /\ data.db \notin Empty /\ data.db.version \in Nat
      /\ command.version <= data.db.version
  BY <1>1, UsedDatabase, DatabaseIs DEF Inv, Copying, BackupSteps
<1>3. /\ command' \in Command /\ command'.step = "copied"
      /\ command'.version = command.version /\ command'.copy = data.db
  <2>1. command' \in CopyCommand
    BY <1>1, <1>2 DEF BackupCopies, CopyCommand, Copies
  <2> QED
    BY <2>1, CopyCommandIs DEF BackupCopies
<1>4. InHand'
  BY <1>3 DEF InHand
<1>5. Copying'
  BY <1>2, <1>3 DEF BackupCopies, Copying, BackupSteps, Copies
<1> QED
  BY <1>1, <1>3, <1>4, <1>5, CommandStep DEF BackupCopies, Inv, VolumeTypes

(* What the two checks of a copy change is the step and the list of files. *)
LEMMA CopyStep ==
  ASSUME Inv, command.step \in Copies, NEW s \in Copies, NEW f \in SUBSET Episode,
         command' \in Command, command'.step = s, command'.version = command.version,
         command'.copy = command.copy, command'.files = f,
         s = "verified" => command.copy \notin Empty /\ command.copy.published = f /\ command.copy.owner # "none",
         UNCHANGED <<data, media, app, artifact, damaged, faults>>
  PROVE  Inv'
<1>1. Copying'
  BY DEF Inv, Copying, BackupSteps, Copies
<1>2. InHand'
  BY DEF InHand, Copies
<1> QED
  BY <1>1, <1>2, CommandStep DEF Inv, VolumeTypes, Copies

LEMMA BackupCollectsSound == ASSUME Inv, BackupCollects PROVE Inv'
<1>1. command \in Command /\ command.step = "copied"
  BY DEF Inv, VolumeTypes, Command, BackupCollects
<1>2. data.db \in Database /\ data.db.published \subseteq Episode
  BY <1>1, UsedDatabase, DatabaseIs DEF Inv, Copying, BackupSteps, Copies
<1>3. command \in CopyCommand
  BY <1>1, CopyCommandIs DEF Copies
<1>4. /\ command' \in CopyCommand
      /\ command'.step = "collected" /\ command'.version = command.version
      /\ command'.copy = command.copy /\ command'.files = data.db.published
  BY <1>2, <1>3 DEF BackupCollects, CopyCommand, Copies
<1>5. command' \in Command
  BY <1>4, CopyCommandIs
<1> QED
  BY <1>1, <1>2, <1>4, <1>5, CopyStep DEF BackupCollects, Copies

LEMMA BackupVerifiesSound == ASSUME Inv, BackupVerifies PROVE Inv'
<1>1. command \in Command /\ command.step = "collected"
  BY DEF Inv, VolumeTypes, Command, BackupVerifies
<1>2. command \in CopyCommand
  BY <1>1, CopyCommandIs DEF Copies
<1>3. /\ command' \in CopyCommand
      /\ command'.step = "verified" /\ command'.version = command.version
      /\ command'.copy = command.copy /\ command'.files = command.files
  BY <1>2 DEF BackupVerifies, CopyCommand, Copies
<1>4. command' \in Command
  BY <1>3, CopyCommandIs
<1>5. command.copy.owner # "none" /\ command.copy.published = command.files
  BY DEF BackupVerifies, CopyMatches, Valid
<1>7. command.files \in SUBSET Episode
  BY <1>2 DEF CopyCommand
<1>6. command.copy \in Database /\ command.copy \notin Empty
  <2>1. command.copy \in Database /\ command.copy # NewDatabase("none")
    BY <1>2, <1>5, EmptyIs DEF CopyCommand
  <2>2. command.copy # NoDatabase
    BY <2>1, DatabaseIs, EmptyIs DEF Owner
  <2> QED
    BY <2>1, <2>2 DEF Empty
<1> QED
  BY <1>1, <1>2, <1>3, <1>4, <1>5, <1>6, <1>7, CopyStep DEF BackupVerifies, Copies

LEMMA BackupPublishesSound == ASSUME Inv, BackupPublishes PROVE Inv'
<1>1. /\ command.step = "verified" /\ command.copy \in Database /\ command.files \subseteq Episode
      /\ command.copy \notin Empty /\ command.copy.published = command.files /\ command.copy.owner # "none"
  BY CommandIs DEF Inv, VolumeTypes, Command, BackupPublishes, InHand, Copies
<1>2. /\ artifact' \in [db : Database, files : SUBSET Episode]
      /\ artifact'.db = command.copy /\ artifact'.files = command.files
  BY <1>1 DEF BackupPublishes
<1>3. command' \in Command /\ command'.step = "idle"
  BY ShortCommands DEF BackupPublishes, Idle
<1>4. VolumeTypes'
  BY <1>2, <1>3 DEF BackupPublishes, Inv, VolumeTypes, Command
<1>5. Sound'
  BY <1>1, <1>2 DEF BackupPublishes, Inv, Sound, MarkersAreOurs
<1>6. InHand' /\ Copying'
  BY <1>3 DEF InHand, Copying, BackupSteps, Copies
<1>7. HalfInstalledOnlyByDamage'
  BY <1>1 DEF BackupPublishes, Inv, HalfInstalledOnlyByDamage
<1> QED
  BY <1>4, <1>5, <1>6, <1>7 DEF Inv

LEMMA BackupFailsSound == ASSUME Inv, BackupFails PROVE Inv'
<1>1. command' \in Command /\ command'.step = "idle"
  BY ShortCommands DEF BackupFails, Idle
<1>2. InHand' /\ Copying'
  BY <1>1 DEF InHand, Copying, BackupSteps, Copies
<1>3. command.step \in BackupSteps
  BY CommandIs DEF BackupFails, Inv, VolumeTypes, Command
<1> QED
  BY <1>1, <1>2, <1>3, CommandStep DEF BackupFails, Inv, VolumeTypes, BackupSteps, Copies

-----------------------------------------------------------------------------
(* Restore *)

LEMMA RestoreStagesSound == ASSUME Inv, RestoreStages PROVE Inv'
<1>1. command' \in Command /\ command'.step = "staged"
  BY ShortCommands DEF RestoreStages
<1>2. data.marker = "none" /\ media.marker = "none" /\ artifact # NoArtifact /\ command.step = "idle"
  BY VolumesAre DEF RestoreStages, Idle
<1>3. InHand'
  BY <1>1, <1>2 DEF RestoreStages, InHand
<1>4. Copying'
  BY <1>1 DEF Copying, BackupSteps, Copies
<1> QED
  BY <1>1, <1>2, <1>3, <1>4, CommandStep DEF RestoreStages, Inv, VolumeTypes

LEMMA ArtifactIs ==
  ASSUME Inv, artifact # NoArtifact
  PROVE  /\ artifact.db \in Database /\ artifact.files \subseteq Episode /\ artifact.db.owner \in Owner
         /\ artifact.db \notin Empty /\ artifact.db.owner # "none" /\ artifact.db.published = artifact.files
<1>1. artifact.db \in Database /\ artifact.files \subseteq Episode
  BY DEF Inv, VolumeTypes
<1> QED
  BY <1>1, DatabaseIs DEF Inv, Sound

LEMMA RestorePublishesDataSound == ASSUME Inv, RestorePublishesData PROVE Inv'
<1>1. /\ app = "stopped" /\ media \in MediaVolume /\ media.marker = "none" /\ media.files = {}
      /\ artifact # NoArtifact
  BY StoppedUnless DEF Inv, VolumeTypes, InHand, Sound, RestorePublishesData
<1>2. data' \in DataVolume /\ data'.marker = artifact.db.owner /\ data'.db = artifact.db
  BY <1>1, ArtifactIs DEF RestorePublishesData, DataVolume
<1>3. command' \in Command /\ command'.step = "data published"
  BY ShortCommands DEF RestorePublishesData
<1>4. InHand'
  BY <1>1, <1>2, <1>3 DEF RestorePublishesData, InHand
<1> QED
  BY <1>1, <1>2, <1>3, <1>4, ArtifactIs, VolumeStep DEF RestorePublishesData, BackupSteps, Copies, Inv, VolumeTypes

LEMMA RestorePublishesMediaSound == ASSUME Inv, RestorePublishesMedia PROVE Inv'
<1>1. /\ app = "stopped" /\ data \in DataVolume /\ artifact # NoArtifact
      /\ data.marker = artifact.db.owner /\ data.db = artifact.db
  BY StoppedUnless DEF Inv, VolumeTypes, InHand, RestorePublishesMedia
<1>2. media' \in MediaVolume /\ media'.marker = artifact.db.owner /\ media'.files = artifact.files
  BY <1>1, ArtifactIs DEF RestorePublishesMedia, MediaVolume
<1>3. command' \in Command /\ command'.step = "idle"
  BY ShortCommands DEF RestorePublishesMedia, Idle
<1>4. InHand'
  BY <1>3 DEF InHand
<1> QED
  BY <1>1, <1>2, <1>3, <1>4, ArtifactIs, VolumeStep DEF RestorePublishesMedia, BackupSteps, Copies, Inv, VolumeTypes

LEMMA RestoreFailsSound == ASSUME Inv, RestoreFails PROVE Inv'
<1>1. /\ command.step \in {"staged", "data published"} /\ app = "stopped" /\ media \in MediaVolume
      /\ data \in DataVolume /\ media.marker = "none" /\ media.files = {}
  <2>1. command.step \in {"staged", "data published"}
    BY CommandIs DEF RestoreFails, Inv, VolumeTypes, Command
  <2> QED
    BY <2>1, StoppedUnless DEF Inv, VolumeTypes, InHand, Sound
<1>2. data' \in DataVolume /\ data'.marker = "none" /\ (data'.db \notin Empty => data'.db = data.db /\ data'.marker = data.marker)
  <2>1. CASE command.step = "data published"
    BY <2>1, VolumesAre DEF RestoreFails, DataAfterFailure, Empty
  <2>2. CASE command.step = "staged"
    BY <1>1, <2>2 DEF RestoreFails, DataAfterFailure, Inv, InHand
  <2> QED
    BY <1>1, <2>1, <2>2
<1>3. command' \in Command /\ command'.step = "idle"
  BY ShortCommands DEF RestoreFails, Idle
<1>4. InHand'
  BY <1>3 DEF InHand
<1>5. data'.db \in Empty
  BY <1>2 DEF Inv, Sound
<1> QED
  BY <1>1, <1>2, <1>3, <1>4, <1>5, VolumeStep DEF RestoreFails, BackupSteps, Copies, Inv, VolumeTypes

-----------------------------------------------------------------------------
(* The environment *)

LEMMA KilledSound == ASSUME Inv, Killed PROVE Inv'
<1>1. command' \in Command /\ command'.step = "idle"
  BY ShortCommands DEF Killed, Idle
<1>2. InHand' /\ Copying'
  BY <1>1 DEF InHand, Copying, BackupSteps, Copies
<1>3. faults' \in 0..MaxMishaps
  BY FaultCounts DEF Killed, Inv, VolumeTypes
<1> QED
  BY <1>1, <1>2, <1>3, CommandStep DEF Killed

LEMMA StrayFileSound == ASSUME Inv, StrayFile PROVE Inv'
<1>1. faults' \in 0..MaxMishaps
  BY FaultCounts DEF StrayFile, Inv, VolumeTypes
<1>2. /\ data' \in DataVolume /\ media' \in MediaVolume
      /\ data'.marker = data.marker /\ data'.db = data.db
      /\ media'.marker = media.marker /\ media'.files = media.files
  BY DEF StrayFile, Inv, VolumeTypes, DataVolume, MediaVolume
<1>3. VolumeTypes'
  BY <1>1, <1>2 DEF StrayFile, Inv, VolumeTypes
<1>4. Sound'
  BY <1>2 DEF StrayFile, Inv, Sound, MarkersAreOurs
<1>5. InHand' /\ Copying' /\ HalfInstalledOnlyByDamage'
  BY <1>2 DEF StrayFile, Inv, InHand, Copying, HalfInstalledOnlyByDamage
<1> QED
  BY <1>3, <1>4, <1>5 DEF Inv

LEMMA ReplaceVolumeSound == ASSUME Inv, ReplaceVolume PROVE Inv'
<1> DEFINE OtherData == [EmptyData EXCEPT !.marker = "other", !.db = NewDatabase("other")]
           OtherMedia == [EmptyMedia EXCEPT !.marker = "other"]
<1>1. /\ OtherData \in DataVolume /\ OtherData.marker = "other" /\ OtherData.db = NewDatabase("other")
      /\ OtherMedia \in MediaVolume /\ OtherMedia.marker = "other"
      /\ NewDatabase("other").owner = "other"
  <2>1. NewDatabase("other") \in Database /\ NewDatabase("other").owner = "other"
    BY StorageAssumption DEF Database, NewDatabase, Owner
  <2>2. OtherData \in DataVolume /\ OtherData.marker = "other" /\ OtherData.db = NewDatabase("other")
    BY <2>1 DEF EmptyData, DataVolume, Owner
  <2>3. OtherMedia \in MediaVolume /\ OtherMedia.marker = "other"
    BY DEF EmptyMedia, MediaVolume, Owner
  <2> QED
    BY <2>1, <2>2, <2>3
<1> HIDE DEF OtherData, OtherMedia
<1>2. /\ command' \in Command /\ command'.step = "idle" /\ app' = "stopped" /\ faults' \in 0..MaxMishaps
      /\ data \in DataVolume /\ media \in MediaVolume
  BY FaultCounts DEF ReplaceVolume, Idle, Inv, VolumeTypes, Command
<1>3. InHand'
  BY <1>2 DEF InHand
<1>4. damaged' \in BOOLEAN /\ (damaged' \/ (data' = EmptyData /\ media' = EmptyMedia)) /\ artifact' = artifact
  BY DEF ReplaceVolume
<1>5. CASE data' \in {EmptyData, OtherData} /\ media' = media
  BY <1>1, <1>2, <1>3, <1>4, <1>5, VolumesAre, VolumeStep DEF Empty, Inv, Sound, BackupSteps, Copies
<1>6. CASE media' \in {EmptyMedia, OtherMedia} /\ data' = data
  BY <1>1, <1>2, <1>3, <1>4, <1>6, VolumesAre, VolumeStep DEF Empty, Inv, Sound, BackupSteps, Copies
<1> QED
  BY <1>5, <1>6 DEF ReplaceVolume, OtherData, OtherMedia

LEMMA StutterSound == ASSUME Inv, UNCHANGED storageVars PROVE Inv'
<1>1. VolumeTypes' /\ Sound'
  BY DEF storageVars, Inv, VolumeTypes, Sound, MarkersAreOurs
<1>2. InHand' /\ Copying' /\ HalfInstalledOnlyByDamage'
  BY DEF storageVars, Inv, InHand, Copying, HalfInstalledOnlyByDamage
<1> QED
  BY <1>1, <1>2 DEF Inv

LEMMA StepSound == Inv /\ [StorageNext]_storageVars => Inv'
BY InitBeginsSound, InitMarksDataSound, InitMarksMediaSound, InitMediaFailsSound, InitOpensSound,
   AppStartsSound, AppStopsSound, EditRowsSound, AppCommitsSound, RenderSound,
   BackupValidatesSound, BackupReadsVersionSound, BackupCopiesSound, BackupCollectsSound,
   BackupVerifiesSound, BackupPublishesSound, BackupFailsSound,
   RestoreStagesSound, RestorePublishesDataSound, RestorePublishesMediaSound, RestoreFailsSound,
   KilledSound, StrayFileSound, ReplaceVolumeSound, StutterSound DEF StorageNext

LEMMA StorageInvariant == StorageSpec => []Inv
BY InitSound, StepSound, PTL DEF StorageSpec

-----------------------------------------------------------------------------
(* Theorems *)

(* Type correctness of volumes, commands and the artifact, for any episodes *)
(* and any number of commits and faults.                                    *)
THEOREM StorageTypes == StorageSpec => []VolumeTypes
<1>1. Inv => VolumeTypes
  BY DEF Inv
<1> QED
  BY <1>1, StorageInvariant, PTL

(* For any instance: what runs has the audio of every published episode.    *)
THEOREM StorageRunningHasItsMedia == StorageSpec => []RunningHasItsMedia
<1>1. Inv => RunningHasItsMedia
  BY RunningMeets DEF RunningHasItsMedia
<1> QED
  BY <1>1, StorageInvariant, PTL

(* For any instance: a command that fails leaves no half-marked pair of     *)
(* volumes behind.                                                          *)
THEOREM StorageHalfInstalledOnlyByDamage == StorageSpec => []HalfInstalledOnlyByDamage
<1>1. Inv => HalfInstalledOnlyByDamage
  BY DEF Inv
<1> QED
  BY <1>1, StorageInvariant, PTL

(* For any instance: a verified backup is the database as it is; an equal   *)
(* version says that nothing was committed since the copy.                  *)
THEOREM StorageBackupIsCurrent == StorageSpec => BackupIsCurrent
<1>1. ASSUME Inv, BackupVerifies
      PROVE  command.copy = data.db /\ command.files = data.db.published
  <2>1. command \in CopyCommand /\ command.step = "collected"
    BY <1>1, CopyCommandIs DEF Inv, VolumeTypes, Command, BackupVerifies, Copies
  <2>2. command.copy.version \in Nat /\ command.version \in Nat
    BY <2>1, DatabaseIs DEF CopyCommand
  <2>3. command.version <= command.copy.version /\ command.copy.version <= data.db.version
    BY <1>1, <2>1 DEF Inv, Copying, Copies
  <2>4. command.version = data.db.version /\ command.copy.published = command.files
    BY <1>1 DEF BackupVerifies, SourceUnchanged, CopyMatches
  <2>5. command.copy.version = data.db.version
    BY <2>2, <2>3, <2>4
  <2> QED
    BY <1>1, <2>1, <2>4, <2>5 DEF Inv, Copying, Copies
<1>2. ASSUME Inv, StorageNext, command'.step = "verified", command.step # "verified" PROVE BackupVerifies
  <2>1. command' # command
    BY <1>2
  <2>2. CASE \E e \in Episode : BeginJob(e) \/ Render(e) \/ PublishEpisode(e) \/ FailJob(e)
    BY <2>1, <2>2 DEF BeginJob, Render, PublishEpisode, FailJob
  <2>3. CASE AppStarts \/ AppStops \/ EditRows \/ StrayFile \/ ReplaceVolume
    BY <2>1, <2>3 DEF AppStarts, AppStops, EditRows, StrayFile, ReplaceVolume
  <2>4. CASE InitBegins \/ InitMarksData \/ InitMarksMedia \/ InitMediaFails \/ InitOpens
    <3>1. PICK s \in {"idle", "marking data", "marking media", "opening"} : command' = [step |-> s]
      BY <2>4 DEF InitBegins, InitMarksData, InitMarksMedia, InitMediaFails, InitOpens, Idle
    <3> QED
      BY <1>2, <3>1
  <2>5. CASE BackupValidates \/ BackupReadsVersion \/ BackupCopies \/ BackupPublishes \/ BackupFails
    BY <1>2, <2>5 DEF BackupValidates, BackupReadsVersion, BackupCopies, BackupPublishes, BackupFails, Idle
  <2>6. CASE BackupCollects
    <3>1. command \in CopyCommand
      BY <1>2, <2>6, CopyCommandIs DEF Inv, VolumeTypes, Command, BackupCollects, Copies
    <3>2. command'.step = "collected"
      BY <2>6, <3>1 DEF BackupCollects, CopyCommand
    <3> QED
      BY <1>2, <3>2
  <2>7. CASE RestoreStages \/ RestorePublishesData \/ RestorePublishesMedia \/ RestoreFails \/ Killed
    <3>1. PICK s \in {"idle", "staged", "data published"} : command' = [step |-> s]
      BY <2>7 DEF RestoreStages, RestorePublishesData, RestorePublishesMedia, RestoreFails, Killed, Idle
    <3> QED
      BY <1>2, <3>1
  <2> QED
    BY <1>2, <2>2, <2>3, <2>4, <2>5, <2>6, <2>7 DEF StorageNext
<1>3. Inv /\ [StorageNext]_storageVars =>
        [command'.step = "verified" /\ command.step # "verified"
           => command.copy = data.db /\ command.files = data.db.published]_storageVars
  BY <1>1, <1>2
<1> QED
  BY <1>3, StorageInvariant, PTL DEF StorageSpec, BackupIsCurrent
=============================================================================
