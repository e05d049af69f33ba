------------------------ MODULE ProviderChecks_proofs ------------------------
(***************************************************************************)
(* Proofs about ProviderChecks.  A row that says LIVE VERIFIED was written *)
(* after a request with exactly what its fingerprint names (Verdicts).     *)
(* What remains is that the row the application shows is of the key the    *)
(* worker would use; where the application has no key of its own that      *)
(* holds because the worker refreshed the rows when it started and no key  *)
(* file came or went since (Projected).                                    *)
(***************************************************************************)
EXTENDS ProviderChecks, TLAPS

Verdict == {Live, Contract}
Keys == Key \cup {NoKey}

ProviderNamed(c, adapter) ==
  IF adapter = "OpenAI" THEN "openai" ELSE IF c = "text" THEN "ollama" ELSE "piper"

Proved(c, row) == row.status = Live =>
  <<c, ProviderNamed(c, row.of.adapter), row.of.model, row.of.key>> \in verified

Verdicts == \A c \in Capability : Proved(c, check[c])

Projected ==
  /\ file = NoKey => testing = NoTest /\ replacing = NoKey
  /\ replacing \in Key => file \in {replacing, Damaged}
  /\ worker # Down /\ file = NoKey /\ UsesOpenAi =>
       /\ \A c \in Capability : IsOpenAi(c) /\ check[c] # NoRow => check[c].of.key = config.key
       /\ worker \in Working => worker.key = config.key

Inv == TypeOK /\ Verdicts /\ Projected

-----------------------------------------------------------------------------
(* Rows and fingerprints *)

LEMMA DescriptorIs ==
  ASSUME config \in Configuration, NEW c \in Capability, NEW key \in Keys
  PROVE  /\ DescriptorOf(c, key) \in Fingerprint
         /\ DescriptorOf(c, key).adapter = IF IsOpenAi(c) THEN "OpenAI" ELSE "Local"
         /\ DescriptorOf(c, key).model = config.model
         /\ DescriptorOf(c, key).key = IF IsOpenAi(c) THEN key ELSE NoKey
BY DEF DescriptorOf, FingerprintOf, Fingerprint, Configuration, Keys

LEMMA ProviderIs ==
  ASSUME config \in Configuration, NEW c \in Capability, NEW key \in Keys
  PROVE  EvidenceOf(c, key) = <<c, ProviderNamed(c, DescriptorOf(c, key).adapter), DescriptorOf(c, key).model,
                                DescriptorOf(c, key).key>>
<1>1. ProviderOf(c) = ProviderNamed(c, IF IsOpenAi(c) THEN "OpenAI" ELSE "Local")
  BY DEF ProviderOf, IsOpenAi, ProviderNamed, Configuration, Capability
<1> QED
  BY <1>1, DescriptorIs DEF EvidenceOf

LEMMA EvidenceTyped ==
  ASSUME config \in Configuration, NEW c \in Capability, NEW key \in Keys
  PROVE  EvidenceOf(c, key) \in Capability \X {"openai", "ollama", "piper"} \X Model \X Keys
BY DEF EvidenceOf, ProviderOf, Configuration, Keys

LEMMA RowIs ==
  ASSUME NEW r \in Row \cup {NoRow}
  PROVE  /\ r # NoRow <=> r.status \in Verdict
         /\ r # NoRow => r \in Row
         /\ r # NoRow => r.of \in Fingerprint
         /\ NoRow.status # Live
<1>1. NoRow.status = "no row" /\ "no row" \notin Verdict /\ Live \in Verdict
  BY DEF NoRow, Verdict, Live, Contract
<1>2. r \in Row => r.status \in Verdict /\ r.of \in Fingerprint
  BY DEF Row, Verdict
<1> QED
  BY <1>1, <1>2

LEMMA RowMade ==
  ASSUME NEW of \in Fingerprint, NEW s \in Verdict
  PROVE  /\ [of |-> of, status |-> s] \in Row
         /\ [of |-> of, status |-> s] # NoRow
<1>1. [of |-> of, status |-> s] \in Row
  BY DEF Row, Verdict
<1>2. [of |-> of, status |-> s].status # "no row"
  BY DEF Verdict, Live, Contract
<1> QED
  BY <1>1, <1>2 DEF NoRow

LEMMA ContractRowIs ==
  ASSUME NEW old \in Row \cup {NoRow}, NEW of \in Fingerprint
  PROVE  /\ ContractRow(old, of) \in Row /\ ContractRow(old, of) # NoRow
         /\ ContractRow(old, of).of = of
         /\ ContractRow(old, of) = old \/ ContractRow(old, of).status = Contract
BY RowIs, RowMade DEF ContractRow, Verdict

LEMMA WorkerIs ==
  ASSUME worker \in {Down, Waiting} \cup Working
  PROVE  /\ worker \in Working <=> worker.state \in {"text", "speech"}
         /\ worker = Down <=> worker.state = "down"
         /\ worker \in Working => worker.key \in Keys
         /\ Down # Waiting /\ Down \notin Working /\ Waiting \notin Working
BY DEF Working, Down, Waiting, Keys

LEMMA TestIs ==
  ASSUME testing \in {NoTest} \cup Test, testing # NoTest
  PROVE  testing.state \in Capability /\ testing.key \in Keys
BY DEF NoTest, Test, Keys

LEMMA EffectiveKeyTyped == ASSUME TypeOK PROVE EffectiveKey \in Keys
BY DEF EffectiveKey, TypeOK, Configuration, Keys

-----------------------------------------------------------------------------
(* What the writers of provider_checks make of the rows *)

LEMMA RecordedIs ==
  ASSUME Inv, NEW c \in Capability, NEW key \in Keys, NEW status \in Verdict
  PROVE  /\ Recorded(c, key, status) \in [Capability -> Row \cup {NoRow}]
         /\ Recorded(c, key, status)[c] # NoRow
         /\ Recorded(c, key, status)[c].of = DescriptorOf(c, key)
         /\ Recorded(c, key, status)[c].status = status
         /\ \A d \in Capability : d # c => Recorded(c, key, status)[d] = check[d]
<1> DEFINE r == [of |-> DescriptorOf(c, key), status |-> status]
<1>1. r \in Row /\ r # NoRow /\ r.of = DescriptorOf(c, key) /\ r.status = status
  BY DescriptorIs, RowMade DEF Inv, TypeOK
<1>2. Recorded(c, key, status) = [check EXCEPT ![c] = r]
  BY DEF Recorded
<1> HIDE DEF r
<1> QED
  BY <1>1, <1>2 DEF Inv, TypeOK

LEMMA RefreshedIs ==
  ASSUME Inv, NEW key \in Keys
  PROVE  /\ Refreshed(key) \in [Capability -> Row \cup {NoRow}]
         /\ \A c \in Capability : Refreshed(key)[c] # NoRow =>
              /\ Refreshed(key)[c].of = DescriptorOf(c, key)
              /\ Refreshed(key)[c] = check[c] \/ Refreshed(key)[c].status = Contract
<1>1. ASSUME NEW c \in Capability
      PROVE  /\ Refreshed(key)[c] \in Row \cup {NoRow}
             /\ Refreshed(key)[c] # NoRow =>
                  /\ Refreshed(key)[c].of = DescriptorOf(c, key)
                  /\ Refreshed(key)[c] = check[c] \/ Refreshed(key)[c].status = Contract
  BY DescriptorIs, ContractRowIs DEF Refreshed, Inv, TypeOK
<1> QED
  BY <1>1 DEF Refreshed

LEMMA ContractsAre ==
  ASSUME Inv, NEW key \in Keys, NEW capabilities \in SUBSET Capability
  PROVE  /\ RecordContract(key, capabilities) \in [Capability -> Row \cup {NoRow}]
         /\ \A c \in Capability :
              \/ RecordContract(key, capabilities)[c] = check[c]
              \/ /\ RecordContract(key, capabilities)[c].status = Contract
                 /\ RecordContract(key, capabilities)[c].of = DescriptorOf(c, key)
<1>1. ASSUME NEW c \in Capability
      PROVE  /\ RecordContract(key, capabilities)[c] \in Row \cup {NoRow}
             /\ \/ RecordContract(key, capabilities)[c] = check[c]
                \/ /\ RecordContract(key, capabilities)[c].status = Contract
                   /\ RecordContract(key, capabilities)[c].of = DescriptorOf(c, key)
  BY DescriptorIs, ContractRowIs DEF RecordContract, Inv, TypeOK
<1> QED
  BY <1>1 DEF RecordContract

LEMMA Counting ==
  ASSUME TypeOK, NEW k \in Counted, Counts(k)
  PROVE  count' \in [Counted -> Nat] /\ \A j \in Counted : count'[j] <= BoundOf[j]
<1>1. BoundOf[k] \in Nat /\ count[k] \in Nat /\ count[k] < BoundOf[k]
  BY ProviderAssumption DEF Counts, BoundOf, Counted, TypeOK
<1>2. count[k] + 1 \in Nat /\ count[k] + 1 <= BoundOf[k]
  BY <1>1
<1> QED
  BY <1>2 DEF Counts, TypeOK

(* Rows that are kept, or say no more than a contract, stay proved. *)
LEMMA VerdictsKept ==
  ASSUME Inv, verified \subseteq verified',
         \A c \in Capability : check'[c] = check[c] \/ check'[c].status # Live
  PROVE  Verdicts'
BY DEF Inv, Verdicts, Proved

(* A live verdict with its evidence, or any other verdict. *)
LEMMA VerdictsRecorded ==
  ASSUME Inv, NEW c \in Capability, NEW key \in Keys, NEW status \in Verdict,
         check' = Recorded(c, key, status), verified \subseteq verified',
         status = Live => EvidenceOf(c, key) \in verified'
  PROVE  Verdicts'
<1>1. \A d \in Capability : d # c => check'[d] = check[d]
  BY RecordedIs
<1>2. check'[c].of = DescriptorOf(c, key) /\ check'[c].status = status
  BY RecordedIs
<1>3. Proved(c, check[c])'
  BY <1>2, ProviderIs DEF Proved, Inv, TypeOK
<1>4. ASSUME NEW d \in Capability PROVE Proved(d, check[d])'
  BY <1>1, <1>3 DEF Inv, Verdicts, Proved
<1> QED
  BY <1>4 DEF Verdicts

-----------------------------------------------------------------------------
(* The actions *)

LEMMA InitHolds == Init => Inv
<1> SUFFICES ASSUME Init PROVE Inv
  OBVIOUS
<1>1. count \in [Counted -> Nat] /\ \A k \in Counted : count[k] <= BoundOf[k]
  BY ProviderAssumption DEF Init, BoundOf, Counted
<1>2. TypeOK
  BY <1>1 DEF Init, TypeOK
<1>3. Verdicts
  BY RowIs DEF Init, Verdicts, Proved
<1>4. Projected
  BY ProviderAssumption DEF Init, Projected
<1> QED
  BY <1>2, <1>3, <1>4 DEF Inv

LEMMA ReplaceWritesFileHolds == ASSUME Inv, NEW k \in Key, ReplaceWritesFile(k) PROVE Inv'
<1>1. TypeOK'
  BY Counting DEF ReplaceWritesFile, Inv, TypeOK, Counted
<1>2. Verdicts'
  BY VerdictsKept DEF ReplaceWritesFile
<1>3. Projected'
  BY ProviderAssumption DEF ReplaceWritesFile, Projected
<1> QED
  BY <1>1, <1>2, <1>3 DEF Inv

LEMMA ReplaceRecordsHolds == ASSUME Inv, ReplaceRecords PROVE Inv'
<1> DEFINE cs == {c \in Capability : IsOpenAi(c)}
<1>0. replacing \in Keys /\ cs \in SUBSET Capability /\ check' = RecordContract(replacing, cs)
  BY DEF ReplaceRecords, Keys
<1>1. /\ check' \in [Capability -> Row \cup {NoRow}]
      /\ \A c \in Capability : check'[c] = check[c] \/ check'[c].status = Contract
  BY <1>0, ContractsAre
<1>2. TypeOK'
  BY <1>1 DEF ReplaceRecords, Inv, TypeOK
<1>3. Verdicts'
  BY <1>1, VerdictsKept DEF ReplaceRecords, Live, Contract
<1>4. Projected'
  BY ProviderAssumption DEF ReplaceRecords, Inv, Projected
<1> QED
  BY <1>2, <1>3, <1>4 DEF Inv

LEMMA ReplaceSwallowsHolds == ASSUME Inv, ReplaceSwallows PROVE Inv'
<1>1. TypeOK'
  BY Counting DEF ReplaceSwallows, Inv, TypeOK, Counted
<1>2. Verdicts'
  BY VerdictsKept DEF ReplaceSwallows
<1>3. Projected'
  BY ProviderAssumption DEF ReplaceSwallows, Inv, Projected
<1> QED
  BY <1>1, <1>2, <1>3 DEF Inv

LEMMA TestBeginsHolds == ASSUME Inv, TestBegins PROVE Inv'
<1>1. testing' \in Test /\ file \in Key
  BY DEF TestBegins, Test, Capability
<1>2. TypeOK'
  BY <1>1, Counting DEF TestBegins, Inv, TypeOK, Counted
<1>3. Verdicts'
  BY VerdictsKept DEF TestBegins
<1>4. Projected'
  BY <1>1, ProviderAssumption DEF TestBegins, Inv, Projected, UsesOpenAi, IsOpenAi, ProviderOf
<1> QED
  BY <1>2, <1>3, <1>4 DEF Inv

(* A verdict of a test; there is a key file, or the test would be over. *)
LEMMA TestVerdict ==
  ASSUME Inv, testing # NoTest, NEW status \in Verdict,
         check' = Recorded(testing.state, testing.key, status), verified \subseteq verified',
         verified' \subseteq Capability \X {"openai", "ollama", "piper"} \X Model \X Keys,
         status = Live => EvidenceOf(testing.state, testing.key) \in verified',
         testing' \in {NoTest} \cup Test,
         UNCHANGED <<config, file, worker, replacing, accepted, count>>
  PROVE  Inv'
<1>1. testing.state \in Capability /\ testing.key \in Keys
  BY TestIs DEF Inv, TypeOK
<1>2. TypeOK'
  BY <1>1, RecordedIs DEF Inv, TypeOK, Keys
<1>3. Verdicts'
  BY <1>1, VerdictsRecorded
<1>4. Projected'
  BY DEF Inv, Projected
<1> QED
  BY <1>2, <1>3, <1>4 DEF Inv

LEMMA TestSucceedsHolds == ASSUME Inv, TestSucceeds PROVE Inv'
<1>1. testing \in Test
  BY DEF TestSucceeds, Inv, TypeOK
<1>2. testing' \in {NoTest} \cup Test
  BY <1>1 DEF TestSucceeds, Test, Capability
<1>3. EvidenceOf(testing.state, testing.key) \in Capability \X {"openai", "ollama", "piper"} \X Model \X Keys
  BY <1>1, TestIs, EvidenceTyped DEF TestSucceeds, Inv, TypeOK
<1>4. verified \subseteq Capability \X {"openai", "ollama", "piper"} \X Model \X Keys
  BY DEF Inv, TypeOK, Keys
<1> QED
  BY <1>2, <1>3, <1>4, TestVerdict DEF TestSucceeds, Verdict

LEMMA TestFailsHolds == ASSUME Inv, TestFails PROVE Inv'
<1>1. verified \subseteq Capability \X {"openai", "ollama", "piper"} \X Model \X Keys
  BY DEF Inv, TypeOK, Keys
<1> QED
  BY <1>1, TestVerdict DEF TestFails, FailureStatus, Verdict, Live, Contract

(* The rows refreshed by the worker are of the key it would use now. *)
LEMMA RefreshHolds ==
  ASSUME Inv, check' = Refreshed(EffectiveKey), worker' = Waiting, TypeOK',
         UNCHANGED <<config, file, replacing, testing, verified>>
  PROVE  Inv'
<1>1. EffectiveKey \in Keys
  BY EffectiveKeyTyped DEF Inv
<1>2. \A c \in Capability : check'[c] # NoRow =>
        /\ check'[c].of = DescriptorOf(c, EffectiveKey)
        /\ check'[c] = check[c] \/ check'[c].status = Contract
  BY <1>1, RefreshedIs
<1>3. \A c \in Capability : check'[c] = check[c] \/ check'[c].status # Live
  BY <1>2, RowIs DEF Live, Contract
<1>4. Verdicts'
  BY <1>3, VerdictsKept
<1>5. ASSUME file = NoKey, UsesOpenAi, NEW c \in Capability, IsOpenAi(c), check'[c] # NoRow
      PROVE  check'[c].of.key = config.key
  <2>1. EffectiveKey = config.key
    BY <1>5, ProviderAssumption DEF EffectiveKey
  <2> QED
    BY <1>1, <1>2, <1>5, <2>1, DescriptorIs DEF Inv, TypeOK
<1>6. Waiting \notin Working
  BY DEF Waiting, Working
<1>7. Projected'
  BY <1>5, <1>6 DEF Inv, Projected, UsesOpenAi, IsOpenAi, ProviderOf
<1> QED
  BY <1>4, <1>7 DEF Inv

LEMMA WorkerStartsHolds == ASSUME Inv, WorkerStarts PROVE Inv'
<1>1. TypeOK'
  BY EffectiveKeyTyped, RefreshedIs DEF WorkerStarts, Inv, TypeOK
<1> QED
  BY <1>1, RefreshHolds DEF WorkerStarts

LEMMA JobBeginsHolds == ASSUME Inv, JobBegins PROVE Inv'
<1>1. EffectiveKey \in Keys /\ worker = Waiting /\ worker # Down
  BY EffectiveKeyTyped, WorkerIs DEF JobBegins, Inv, TypeOK
<1>2. CASE check' = Refreshed(EffectiveKey) /\ UNCHANGED worker
  <2>1. TypeOK'
    BY <1>1, <1>2, Counting, RefreshedIs DEF JobBegins, Inv, TypeOK, Counted
  <2> QED
    BY <1>1, <1>2, <2>1, RefreshHolds DEF JobBegins
<1>3. CASE worker' = [state |-> "text", key |-> EffectiveKey] /\ UNCHANGED check
  <2>1. worker' \in Working /\ worker'.key = EffectiveKey
    BY <1>1, <1>3 DEF Working, Keys
  <2>2. TypeOK'
    BY <1>3, <2>1, Counting DEF JobBegins, Inv, TypeOK, Counted
  <2>3. Verdicts'
    BY <1>3, VerdictsKept DEF JobBegins
  <2>4. file = NoKey /\ UsesOpenAi => EffectiveKey = config.key
    BY ProviderAssumption DEF EffectiveKey
  <2>5. Projected'
    BY <1>1, <1>3, <2>1, <2>4 DEF JobBegins, Inv, Projected, UsesOpenAi, IsOpenAi, ProviderOf
  <2> QED
    BY <2>2, <2>3, <2>5 DEF Inv
<1> QED
  BY <1>2, <1>3 DEF JobBegins

(* A verdict of a job's call, with the key the job began with. *)
LEMMA CallVerdict ==
  ASSUME Inv, worker \in Working, NEW status \in Verdict,
         check' = Recorded(worker.state, worker.key, status), verified \subseteq verified',
         verified' \subseteq Capability \X {"openai", "ollama", "piper"} \X Model \X Keys,
         status = Live => EvidenceOf(worker.state, worker.key) \in verified',
         worker' = Waiting \/ (worker' \in Working /\ worker'.key = worker.key),
         UNCHANGED <<config, file, replacing, testing, accepted, count>>
  PROVE  Inv'
<1>1. worker.state \in Capability /\ worker.key \in Keys /\ worker # Down
  BY WorkerIs DEF Inv, TypeOK, Capability
<1>2. TypeOK'
  BY <1>1, RecordedIs DEF Inv, TypeOK, Keys
<1>3. Verdicts'
  BY <1>1, VerdictsRecorded
<1>4. ASSUME file = NoKey, UsesOpenAi, NEW c \in Capability, IsOpenAi(c), check'[c] # NoRow
      PROVE  check'[c].of.key = config.key
  <2>1. worker.key = config.key /\ (check[c] # NoRow => check[c].of.key = config.key)
    BY <1>1, <1>4 DEF Inv, Projected
  <2>2. check'[c] = check[c] \/ check'[c].of = DescriptorOf(c, worker.key)
    BY <1>1, RecordedIs
  <2> QED
    BY <1>1, <1>4, <2>1, <2>2, DescriptorIs DEF Inv, TypeOK
<1>5. file = NoKey /\ UsesOpenAi /\ worker' \in Working => worker'.key = config.key
  BY <1>1, WorkerIs DEF Inv, TypeOK, Projected
<1>6. Projected'
  BY <1>4, <1>5 DEF Inv, Projected, UsesOpenAi, IsOpenAi, ProviderOf
<1> QED
  BY <1>2, <1>3, <1>6 DEF Inv

LEMMA CallSucceedsHolds == ASSUME Inv, CallSucceeds PROVE Inv'
<1>1. worker \in Working /\ worker.state \in Capability /\ worker.key \in Keys
  BY WorkerIs DEF CallSucceeds, Inv, TypeOK, Capability
<1>2. worker' = Waiting \/ (worker' \in Working /\ worker'.key = worker.key)
  BY <1>1 DEF CallSucceeds, Working
<1>3. EvidenceOf(worker.state, worker.key) \in Capability \X {"openai", "ollama", "piper"} \X Model \X Keys
  BY <1>1, EvidenceTyped DEF Inv, TypeOK
<1>4. verified \subseteq Capability \X {"openai", "ollama", "piper"} \X Model \X Keys
  BY DEF Inv, TypeOK, Keys
<1> QED
  BY <1>1, <1>2, <1>3, <1>4, CallVerdict DEF CallSucceeds, Verdict

(* The worker waits again, or stops, and the rows stay. *)
LEMMA WorkerRests ==
  ASSUME Inv, worker' \in {Waiting, Down}, worker # Down \/ worker' = Down,
         UNCHANGED <<config, file, check, replacing, testing, verified, accepted>>,
         count' \in [Counted -> Nat], \A k \in Counted : count'[k] <= BoundOf[k]
  PROVE  Inv'
<1>1. TypeOK'
  BY DEF Inv, TypeOK
<1>2. Verdicts'
  BY VerdictsKept
<1>3. worker' \notin Working
  BY DEF Waiting, Down, Working
<1>4. Projected'
  BY <1>3 DEF Inv, Projected, UsesOpenAi, IsOpenAi, ProviderOf
<1> QED
  BY <1>1, <1>2, <1>4 DEF Inv

LEMMA AudioReusedHolds == ASSUME Inv, AudioReused PROVE Inv'
BY WorkerIs, WorkerRests DEF AudioReused, Inv, TypeOK

LEMMA CallFailsHolds == ASSUME Inv, CallFails PROVE Inv'
<1>1. CASE UNCHANGED check
  BY <1>1, WorkerIs, WorkerRests DEF CallFails, Inv, TypeOK
<1>2. CASE check' = Recorded(worker.state, worker.key, FailureStatus)
  <2>1. verified \subseteq Capability \X {"openai", "ollama", "piper"} \X Model \X Keys
    BY DEF Inv, TypeOK, Keys
  <2>2. FailureStatus \in Verdict /\ FailureStatus # Live
    BY DEF FailureStatus, Verdict, Live, Contract
  <2> QED
    BY <1>2, <2>1, <2>2, CallVerdict DEF CallFails
<1> QED
  BY <1>1, <1>2 DEF CallFails

LEMMA WorkerStopsHolds == ASSUME Inv, WorkerStops PROVE Inv'
<1>1. count' \in [Counted -> Nat] /\ \A k \in Counted : count'[k] <= BoundOf[k]
  BY Counting DEF WorkerStops, Inv, Counted
<1> QED
  BY <1>1, WorkerRests DEF WorkerStops

LEMMA FileDamagedHolds == ASSUME Inv, FileDamaged PROVE Inv'
<1>1. TypeOK'
  BY Counting DEF FileDamaged, Inv, TypeOK, Counted
<1>2. Verdicts'
  BY VerdictsKept DEF FileDamaged
<1>3. Projected'
  BY ProviderAssumption DEF FileDamaged, Inv, Projected
<1> QED
  BY <1>1, <1>2, <1>3 DEF Inv

LEMMA DeployHolds == ASSUME Inv, Deploy PROVE Inv'
<1>1. TypeOK'
  BY Counting DEF Deploy, Inv, TypeOK, Counted
<1>2. Verdicts'
  BY VerdictsKept DEF Deploy
<1>3. Projected'
  BY ProviderAssumption DEF Deploy, Projected
<1> QED
  BY <1>1, <1>2, <1>3 DEF Inv

LEMMA StutterHolds == ASSUME Inv, UNCHANGED vars PROVE Inv'
<1>1. TypeOK'
  BY DEF Inv, TypeOK, vars
<1>2. Verdicts'
  BY VerdictsKept DEF vars
<1>3. Projected'
  BY DEF Inv, Projected, UsesOpenAi, IsOpenAi, ProviderOf, vars
<1> QED
  BY <1>1, <1>2, <1>3 DEF Inv

LEMMA StepHolds == Inv /\ [Next]_vars => Inv'
BY ReplaceWritesFileHolds, ReplaceRecordsHolds, ReplaceSwallowsHolds, TestBeginsHolds, TestSucceedsHolds,
   TestFailsHolds, WorkerStartsHolds, JobBeginsHolds, CallSucceedsHolds, AudioReusedHolds, CallFailsHolds,
   WorkerStopsHolds, FileDamagedHolds, DeployHolds, StutterHolds DEF Next

LEMMA ProviderInvariant == Spec => []Inv
BY InitHolds, StepHolds, PTL DEF Spec

-----------------------------------------------------------------------------
(* Theorems *)

(* Type correctness of rows, key file, worker, test and replacement, for    *)
(* any keys, models and bounds.                                             *)
THEOREM ProviderTypes == Spec => []TypeOK
<1>1. Inv => TypeOK
  BY DEF Inv
<1> QED
  BY <1>1, ProviderInvariant, PTL

LEMMA LiveIsVerified == ASSUME Inv PROVE LiveMeansVerified
<1> SUFFICES ASSUME worker # Down, NEW c \in Capability, Status(c) = Live
             PROVE  EvidenceOf(c, EffectiveKey) \in verified
  BY DEF LiveMeansVerified
<1>1. config \in Configuration /\ EffectiveKey \in Keys /\ NoKey \in Keys
  BY EffectiveKeyTyped DEF Inv, TypeOK, Keys
<1>2. ASSUME NEW key \in Keys, check[c].status = Live, check[c].of = DescriptorOf(c, key)
      PROVE  EvidenceOf(c, key) \in verified
  BY <1>1, <1>2, ProviderIs DEF Inv, Verdicts, Proved
<1>3. ASSUME NEW key \in Keys, MatchingStatus(c, key) = Live PROVE EvidenceOf(c, key) \in verified
  BY <1>2, <1>3 DEF MatchingStatus, Live, Unverified
<1>4. CASE ~IsOpenAi(c)
  <2>1. EvidenceOf(c, NoKey) \in verified
    BY <1>1, <1>3, <1>4 DEF Status
  <2> QED
    BY <1>4, <2>1 DEF EvidenceOf
<1>5. CASE IsOpenAi(c) /\ file = Damaged
  BY <1>5, ProviderAssumption DEF Status, Live, NotConfigured
<1>6. CASE IsOpenAi(c) /\ file = NoKey
  <2>1. UsesOpenAi /\ EffectiveKey = config.key
    BY <1>6, ProviderAssumption DEF UsesOpenAi, EffectiveKey
  <2>2. ProjectedStatus(c) = Live
    BY <1>6, ProviderAssumption DEF Status
  <2>3. /\ check[c] # NoRow /\ check[c].status = Live
        /\ check[c].of.adapter = "OpenAI" /\ check[c].of.model = config.model
    BY <2>2 DEF ProjectedStatus, Live, NotConfigured
  <2>4. check[c].of.key = config.key
    BY <1>6, <2>1, <2>3 DEF Inv, Projected
  <2>5. <<c, "openai", config.model, config.key>> \in verified
    BY <2>3, <2>4 DEF Inv, Verdicts, Proved, ProviderNamed
  <2> QED
    BY <1>6, <2>1, <2>5 DEF EvidenceOf, IsOpenAi
<1>7. CASE IsOpenAi(c) /\ file # Damaged /\ file # NoKey
  <2>1. file \in Keys /\ EffectiveKey = file
    BY <1>7 DEF UsesOpenAi, EffectiveKey, Inv, TypeOK, Keys
  <2> QED
    BY <1>3, <1>7, <2>1 DEF Status
<1> QED
  BY <1>4, <1>5, <1>6, <1>7

(* For any instance: LIVE VERIFIED is shown of nothing that no request has  *)
(* verified.                                                                *)
THEOREM ProviderLiveMeansVerified == Spec => []LiveMeansVerified
BY LiveIsVerified, ProviderInvariant, PTL

(* For any instance: nothing but a verdict, a test, a new key or a new      *)
(* configuration takes away the live evidence of the one in force.          *)
THEOREM ProviderEvidenceSurvives == Spec => EvidenceSurvives
<1> DEFINE Quiet == testing' = testing /\ (worker = Down \/ worker' = worker) /\ file' = file /\ config' = config
           Kept(c) == check'[c] = check[c]
<1>1. ASSUME Inv, [Next]_vars, Quiet, NEW c \in Configured(EffectiveKey),
             Status(c) = Live, check[c].of = DescriptorOf(c, EffectiveKey)
      PROVE  Kept(c)
  <2>1. /\ c \in Capability /\ HasDescriptor(c, EffectiveKey) /\ EffectiveKey \in Keys
        /\ check \in [Capability -> Row \cup {NoRow}]
    <3>1. TypeOK /\ check \in [Capability -> Row \cup {NoRow}]
      BY <1>1 DEF Inv, TypeOK
    <3> QED
      BY <3>1, EffectiveKeyTyped DEF Configured
  <2>2. check[c].status = Live /\ check[c] # NoRow
    <3>1. check[c].status = Live
      BY <1>1 DEF Status, MatchingStatus, ProjectedStatus, Live, Unverified, NotConfigured
    <3> QED
      BY <2>1, <3>1, RowIs
  <2>3. CASE check' = check
    BY <2>3
  <2>4. CASE check' = Refreshed(EffectiveKey)
    BY <1>1, <2>1, <2>2, <2>4 DEF Refreshed, ContractRow
  <2>5. CASE ReplaceRecords
    <3>1. replacing \in Key /\ file \in {replacing, Damaged}
      BY <1>1, <2>5 DEF ReplaceRecords, Inv, Projected
    <3>2. check' = RecordContract(replacing, {d \in Capability : IsOpenAi(d)})
      BY <2>5 DEF ReplaceRecords
    <3>3. CASE ~IsOpenAi(c)
      BY <2>1, <3>2, <3>3 DEF RecordContract
    <3>4. CASE IsOpenAi(c) /\ file = Damaged
      BY <2>1, <3>4, ProviderAssumption DEF HasDescriptor, EffectiveKey, UsesOpenAi
    <3>5. CASE IsOpenAi(c) /\ file = replacing
      <4>1. EffectiveKey = replacing
        BY <2>1, <3>1, <3>5, ProviderAssumption DEF EffectiveKey, UsesOpenAi
      <4> QED
        BY <1>1, <2>1, <2>2, <3>2, <4>1 DEF RecordContract, ContractRow
    <3> QED
      BY <3>1, <3>3, <3>4, <3>5
  <2>6. CASE TestSucceeds \/ TestFails
    <3>1. testing \in Test
      BY <1>1, <2>6 DEF TestSucceeds, TestFails, Inv, TypeOK
    <3>2. testing' # testing
      BY <2>6, <3>1 DEF TestSucceeds, TestFails, Test, NoTest
    <3> QED
      BY <1>1, <3>2
  <2>7. CASE CallSucceeds \/ CallFails
    <3>1. worker \in Working
      BY <2>7 DEF CallSucceeds, CallFails
    <3>2. worker # Down /\ worker # Waiting
      BY <1>1, <3>1, WorkerIs DEF Inv, TypeOK
    <3>3. worker' # worker
      BY <2>7, <3>1, <3>2 DEF CallSucceeds, CallFails, Working
    <3> QED
      BY <1>1, <3>2, <3>3
  <2>8. check' = check \/ check' = Refreshed(EffectiveKey) \/ ReplaceRecords \/ TestSucceeds \/ TestFails
        \/ CallSucceeds \/ CallFails
    BY <1>1 DEF Next, ReplaceWritesFile, ReplaceSwallows, TestBegins, WorkerStarts, JobBegins, AudioReused,
      WorkerStops, FileDamaged, Deploy, vars
  <2> QED
    BY <2>3, <2>4, <2>5, <2>6, <2>7, <2>8
<1>2. Inv /\ [Next]_vars =>
        [Quiet => \A c \in Configured(EffectiveKey) :
                    Status(c) = Live /\ check[c].of = DescriptorOf(c, EffectiveKey) => Kept(c)]_vars
  BY <1>1
<1> QED
  BY <1>2, ProviderInvariant, PTL DEF Spec, EvidenceSurvives
=============================================================================
