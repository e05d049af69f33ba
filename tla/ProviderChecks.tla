--------------------------- MODULE ProviderChecks ---------------------------
(***************************************************************************)
(* Provider status: what the application tells of the text and the speech  *)
(* provider, and whether it accepts generation requests, while the OpenAI  *)
(* key is replaced (server/services/openAiCredentialService.ts), tested,   *)
(* used by the worker's jobs (server/jobs/generationProcessor.ts) and      *)
(* reconciled when the worker starts.  The rows are those of               *)
(* server/services/providerCheckStore.ts.                                  *)
(*                                                                         *)
(* The key file is shared by the application and the worker; the key in    *)
(* the environment is the worker's alone.  A fingerprint is modelled by    *)
(* what it is a digest of.  Every answer of a provider may be a success, a *)
(* failure that counts against the provider, or neither.                   *)
(***************************************************************************)
EXTENDS Integers, FiniteSets

CONSTANTS
  Key,             \* OpenAI keys
  NoKey, Damaged,  \* no key file, and one that cannot be read safely
  Model,           \* names of models
  MaxReplacements, MaxJobs, MaxTests, MaxDeployments, MaxFaults  \* bounds

ASSUME ProviderAssumption ==
  /\ NoKey \notin Key /\ Damaged \notin Key /\ NoKey # Damaged
  /\ {MaxReplacements, MaxJobs, MaxTests, MaxDeployments, MaxFaults} \subseteq Nat

VARIABLES
  config,    \* what the environment configures, the worker's key included
  file,      \* the key file
  check,     \* the row of provider_checks of each capability
  worker,    \* the worker process and the job it runs
  replacing, \* the replacement in progress in the application, or NoKey
  testing,   \* the connection test in progress in the application
  verified,  \* what live requests have proved (not in the code)
  accepted,  \* the last replacement wrote the file and the rows (not in the code)
  count      \* how often each bounded thing happened

vars == <<config, file, check, worker, replacing, testing, verified, accepted, count>>

Capability == {"text", "speech"}
Live == "LIVE VERIFIED"
Contract == "CONTRACT TESTED ONLY"
Unverified == "CONFIGURED UNVERIFIED"
NotConfigured == "NOT CONFIGURED"

Configuration ==
  [text : {"openai", "ollama"}, speech : {"openai", "piper"}, model : Model,
   piperWorks : BOOLEAN, key : Key \cup {NoKey}]

(* What providerDescriptorForConfig binds a row to.  A local adapter has no *)
(* key.                                                                     *)
Fingerprint == [adapter : {"OpenAI", "Local"}, model : Model, key : Key \cup {NoKey}]
Row == [of : Fingerprint, status : {Live, Contract}]
NoRow == [status |-> "no row"]

Down == [state |-> "down"]
Waiting == [state |-> "waiting"]
Working == [state : {"text", "speech"}, key : Key \cup {NoKey}]
NoTest == [state |-> "idle"]
Test == [state : Capability, key : Key]

Counted == {"replacements", "jobs", "tests", "deployments", "faults"}
BoundOf == [replacements |-> MaxReplacements, jobs |-> MaxJobs, tests |-> MaxTests,
            deployments |-> MaxDeployments, faults |-> MaxFaults]

TypeOK ==
  /\ config \in Configuration
  /\ file \in Key \cup {NoKey, Damaged}
  /\ check \in [Capability -> Row \cup {NoRow}]
  /\ worker \in {Down, Waiting} \cup Working
  /\ replacing \in Key \cup {NoKey}
  /\ testing \in {NoTest} \cup Test
  /\ verified \subseteq Capability \X {"openai", "ollama", "piper"} \X Model \X (Key \cup {NoKey})
  /\ accepted \in BOOLEAN
  /\ count \in [Counted -> Nat] /\ \A k \in Counted : count[k] <= BoundOf[k]

Init ==
  /\ config \in Configuration
  /\ file = NoKey
  /\ check = [c \in Capability |-> NoRow]
  /\ worker = Down
  /\ replacing = NoKey
  /\ testing = NoTest
  /\ verified = {}
  /\ accepted = FALSE
  /\ count = [k \in Counted |-> 0]

Counts(k) == count[k] < BoundOf[k] /\ count' = [count EXCEPT ![k] = @ + 1]

-----------------------------------------------------------------------------
(* Configuration and credentials *)

ProviderOf(c) == IF c = "text" THEN config.text ELSE config.speech
IsOpenAi(c) == ProviderOf(c) = "openai"
UsesOpenAi == \E c \in Capability : IsOpenAi(c)

(* The key the worker would use now: the file, if there is one, before the  *)
(* environment; none when the file cannot be read.                          *)
EffectiveKey ==
  CASE ~UsesOpenAi -> config.key
    [] UsesOpenAi /\ file = NoKey -> config.key
    [] UsesOpenAi /\ file = Damaged -> NoKey
    [] OTHER -> file

(* Mutant: the key is left out of the fingerprint.                         *)
WithoutKey(adapter, model, key) == [adapter |-> adapter, model |-> model, key |-> NoKey]

FingerprintOf(adapter, model, key) == [adapter |-> adapter, model |-> model, key |-> key]

HasDescriptor(c, key) == IsOpenAi(c) => key \in Key
DescriptorOf(c, key) ==
  IF IsOpenAi(c) THEN FingerprintOf("OpenAI", config.model, key)
                 ELSE FingerprintOf("Local", config.model, NoKey)

(* What a successful request proves.                                        *)
EvidenceOf(c, key) == <<c, ProviderOf(c), config.model, IF IsOpenAi(c) THEN key ELSE NoKey>>

(* Piper is configured only when its executable and model can be used.      *)
Configured(key) ==
  {c \in Capability : HasDescriptor(c, key) /\ (ProviderOf(c) = "piper" => config.piperWorks)}

-----------------------------------------------------------------------------
(* The rows *)

(* Mutant of the upsert: the row is always rewritten.                       *)
Rewritten(old, of) == [of |-> of, status |-> Contract]

(* A contract never replaces what is known of the same configuration.       *)
ContractRow(old, of) == IF old # NoRow /\ old.of = of THEN old ELSE [of |-> of, status |-> Contract]

RecordContract(key, capabilities) ==
  [c \in Capability |->
     IF c \in capabilities /\ HasDescriptor(c, key) THEN ContractRow(check[c], DescriptorOf(c, key))
                                                    ELSE check[c]]

(* refreshProviderConfiguration *)
Refreshed(key) ==
  [c \in Capability |->
     IF c \in Configured(key) THEN ContractRow(check[c], DescriptorOf(c, key))
                              ELSE NoRow]

FailureStatus == Contract

Recorded(c, key, status) == [check EXCEPT ![c] = [of |-> DescriptorOf(c, key), status |-> status]]

-----------------------------------------------------------------------------
(* What the application shows *)

MatchingStatus(c, key) ==
  IF check[c] # NoRow /\ check[c].of = DescriptorOf(c, key) THEN check[c].status ELSE Unverified

(* Without a key of its own the application shows the worker's row, if it  *)
(* is of the configured model.                                             *)
ProjectedStatus(c) ==
  IF check[c] # NoRow /\ check[c].of.adapter = "OpenAI" /\ check[c].of.model = config.model
  THEN check[c].status ELSE NotConfigured

Status(c) ==
  CASE ~IsOpenAi(c) -> MatchingStatus(c, NoKey)
    [] IsOpenAi(c) /\ file = Damaged -> NotConfigured
    [] IsOpenAi(c) /\ file = NoKey -> ProjectedStatus(c)
    [] OTHER -> MatchingStatus(c, file)

GenerationEnabled == \A c \in Capability : Status(c) \in {Live, Contract}

-----------------------------------------------------------------------------
(* The application: replacement and test of the key *)

ReplaceWritesFile(k) ==
  /\ replacing = NoKey
  /\ Counts("replacements")
  /\ file' = k
  /\ replacing' = k
  /\ accepted' = FALSE
  /\ UNCHANGED <<config, check, worker, testing, verified>>

ReplaceRecords ==
  /\ replacing \in Key
  /\ check' = RecordContract(replacing, {c \in Capability : IsOpenAi(c)})
  /\ replacing' = NoKey
  /\ accepted' = TRUE
  /\ UNCHANGED <<config, file, worker, testing, verified, count>>

(* The rows cannot be written: the replacement stands.                      *)
ReplaceSwallows ==
  /\ replacing \in Key
  /\ Counts("faults")
  /\ replacing' = NoKey
  /\ UNCHANGED <<config, file, check, worker, testing, verified, accepted>>

(* Only a key of the file can be tested.  The capabilities are tested one   *)
(* after the other with the key read at the start.                          *)
TestBegins ==
  /\ testing = NoTest /\ replacing = NoKey
  /\ UsesOpenAi /\ file \in Key
  /\ Counts("tests")
  /\ testing' = [state |-> IF IsOpenAi("text") THEN "text" ELSE "speech", key |-> file]
  /\ UNCHANGED <<config, file, check, worker, replacing, verified, accepted>>

TestSucceeds ==
  /\ testing # NoTest /\ replacing = NoKey
  /\ check' = Recorded(testing.state, testing.key, Live)
  /\ verified' = verified \cup {EvidenceOf(testing.state, testing.key)}
  /\ testing' = IF testing.state = "text" /\ IsOpenAi("speech")
                THEN [testing EXCEPT !.state = "speech"] ELSE NoTest
  /\ UNCHANGED <<config, file, worker, replacing, accepted, count>>

TestFails ==
  /\ testing # NoTest /\ replacing = NoKey
  /\ check' = Recorded(testing.state, testing.key, FailureStatus)
  /\ testing' = NoTest
  /\ UNCHANGED <<config, file, worker, replacing, verified, accepted, count>>

-----------------------------------------------------------------------------
(* The worker *)

WorkerStarts ==
  /\ worker = Down
  /\ check' = Refreshed(EffectiveKey)
  /\ worker' = Waiting
  /\ UNCHANGED <<config, file, replacing, testing, verified, accepted, count>>

(* A job resolves the key when it begins and keeps it to its end.           *)
JobBegins ==
  /\ worker = Waiting
  /\ Counts("jobs")
  /\ \/ /\ Configured(EffectiveKey) = Capability
        /\ worker' = [state |-> "text", key |-> EffectiveKey]
        /\ UNCHANGED check
     \/ /\ Configured(EffectiveKey) # Capability
        /\ check' = Refreshed(EffectiveKey)
        /\ UNCHANGED worker
  /\ UNCHANGED <<config, file, replacing, testing, verified, accepted>>

CallSucceeds ==
  /\ worker \in Working
  /\ check' = Recorded(worker.state, worker.key, Live)
  /\ verified' = verified \cup {EvidenceOf(worker.state, worker.key)}
  /\ worker' = IF worker.state = "text" THEN [worker EXCEPT !.state = "speech"] ELSE Waiting
  /\ UNCHANGED <<config, file, replacing, testing, accepted, count>>

(* Audio found in the media volume: no request, no verdict.                 *)
AudioReused ==
  /\ worker \in Working /\ worker.state = "speech"
  /\ worker' = Waiting
  /\ UNCHANGED <<config, file, check, replacing, testing, verified, accepted, count>>

(* Only errors with an impact on the provider's status are recorded.        *)
CallFails ==
  /\ worker \in Working
  /\ check' \in {check, Recorded(worker.state, worker.key, FailureStatus)}
  /\ worker' = Waiting
  /\ UNCHANGED <<config, file, replacing, testing, verified, accepted, count>>

WorkerStops ==
  /\ worker # Down
  /\ Counts("faults")
  /\ worker' = Down
  /\ UNCHANGED <<config, file, check, replacing, testing, verified, accepted>>

-----------------------------------------------------------------------------
(* The operator *)

FileDamaged ==
  /\ file \in Key
  /\ Counts("faults")
  /\ file' = Damaged
  /\ accepted' = FALSE
  /\ UNCHANGED <<config, check, worker, replacing, testing, verified>>

(* Both processes are restarted with another configuration, perhaps after  *)
(* a restore, which brings back no key file.                               *)
Deploy ==
  /\ Counts("deployments")
  /\ config' \in Configuration
  /\ file' \in {file, NoKey}
  /\ worker' = Down
  /\ replacing' = NoKey
  /\ testing' = NoTest
  /\ accepted' = FALSE
  /\ UNCHANGED <<check, verified>>

Next ==
  \/ \E k \in Key : ReplaceWritesFile(k)
  \/ ReplaceRecords \/ ReplaceSwallows
  \/ TestBegins \/ TestSucceeds \/ TestFails
  \/ WorkerStarts \/ JobBegins \/ CallSucceeds \/ AudioReused \/ CallFails \/ WorkerStops
  \/ FileDamaged \/ Deploy

Spec == Init /\ [][Next]_vars

-----------------------------------------------------------------------------
(* Properties *)

(* D-044, D-045: once the worker has started, LIVE VERIFIED is shown only   *)
(* of a configuration, key included, with which a live request succeeded,   *)
(* although rows are written by jobs and tests that began with older keys.  *)
LiveMeansVerified ==
  worker # Down =>
    \A c \in Capability :
      Status(c) = Live => EvidenceOf(c, EffectiveKey) \in verified

(* D-045: neither a restart of the worker nor a replacement by the same key *)
(* takes away the live evidence of the configuration in force; only a       *)
(* verdict of a live request does.                                          *)
EvidenceSurvives ==
  [][(testing' = testing /\ (worker = Down \/ worker' = worker) /\ file' = file /\ config' = config)
       => \A c \in Configured(EffectiveKey) :
            Status(c) = Live /\ check[c].of = DescriptorOf(c, EffectiveKey) => check'[c] = check[c]]_vars

(* D-044: "a replacement is available to new work without process or        *)
(* container restart".  Violated: see the finding.                          *)
ReplacedKeyIsUsable ==
  accepted /\ worker # Down /\ Configured(file) = Capability => GenerationEnabled
=============================================================================
