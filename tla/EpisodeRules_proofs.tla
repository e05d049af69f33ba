------------------------ MODULE EpisodeRules_proofs ------------------------
(***************************************************************************)
(* Theorems about EpisodeRules: the five rules, for inputs of any size and *)
(* any limits that satisfy RulesAssumption.                                *)
(*                                                                         *)
(* bodyRanges, flat and reduce are recursive.  Each proof unfolds one turn *)
(* of the recursion and goes by induction, which here is the existence of  *)
(* a least element in a set of numbers: the numbers for which the claim    *)
(* fails have no least one.                                                *)
(***************************************************************************)
EXTENDS EpisodeRules, FiniteSetTheorems, SequenceTheorems, TLAPS

-----------------------------------------------------------------------------
(* Byte ranges *)

(* The bytes a Range header names of a file of n bytes                      *)
Named(n, first, last) ==
  {b \in 0..(n - 1) :
     IF first # Absent THEN first <= b /\ (last # Absent => b <= last)
                       ELSE last # Absent /\ n - last <= b}

LEMMA SuffixNames ==
  ASSUME NEW n \in Nat \ {0}, NEW last \in Nat
  PROVE  LET r == SuffixRange(last, n)
         IN  /\ r = Unsatisfiable => Named(n, Absent, last) = {}
             /\ r # Unsatisfiable => /\ r.start..r.end = Named(n, Absent, last)
                                     /\ Named(n, Absent, last) # {}
<1> DEFINE r == SuffixRange(last, n)
           named == Named(n, Absent, last)
<1>1. \A b \in Int : b \in named <=> 0 <= b /\ b < n /\ n - last <= b
  BY DEF Named, Absent
<1>2. named \subseteq Int
  BY DEF Named
<1> HIDE DEF named
<1>3. CASE last = 0
  <2>1. r = Unsatisfiable
    BY <1>3 DEF SuffixRange
  <2>2. named = {}
    BY <1>1, <1>2, <1>3
  <2>3. QED
    BY <2>1, <2>2 DEF named
<1>4. CASE last # 0
  <2>1. r = [start |-> Greatest(0, n - last), end |-> n - 1]
    BY <1>4 DEF SuffixRange
  <2>2. r.start = Greatest(0, n - last) /\ r.end = n - 1
    BY <2>1
  <2>3. r # Unsatisfiable
    BY <2>2 DEF Unsatisfiable, Absent
  <2> HIDE DEF r
  <2>4. \A b \in Int : b \in r.start..r.end <=> b \in named
    BY <1>1, <1>4, <2>2 DEF Greatest
  <2>5. r.start..r.end \subseteq Int
    BY <2>2 DEF Greatest
  <2>6. r.start..r.end = named
    BY <1>2, <2>4, <2>5
  <2>7. n - 1 \in named
    BY <1>1, <1>4
  <2>8. QED
    BY <2>3, <2>6, <2>7 DEF r, named
<1>5. QED
  BY <1>3, <1>4

LEMMA ParsedRange ==
  ASSUME NEW n \in Nat \ {0}, NEW first \in Nat \cup {-1}, NEW last \in Nat \cup {-1}
  PROVE  LET r == ParseSingleRange(first, last, n)
         IN  /\ r = Unsatisfiable => Named(n, first, last) = {}
             /\ r # Unsatisfiable => /\ r.start..r.end = Named(n, first, last)
                                     /\ Named(n, first, last) # {}
<1> DEFINE r == ParseSingleRange(first, last, n)
           named == Named(n, first, last)
<1>1. CASE first = -1 /\ last = -1
  <2>1. r = Unsatisfiable
    BY <1>1 DEF ParseSingleRange, Absent
  <2>2. named = {}
    BY <1>1 DEF Named, Absent
  <2>3. QED
    BY <2>1, <2>2
<1>2. CASE first = -1 /\ last # -1
  <2>1. r = SuffixRange(last, n)
    BY <1>2 DEF ParseSingleRange, Absent
  <2>2. last \in Nat /\ first = Absent
    BY <1>2 DEF Absent
  <2>3. QED
    BY <2>1, <2>2, SuffixNames
<1>3. CASE first # -1
  <2>1. \A b \in Int : b \in named <=> 0 <= b /\ b < n /\ first <= b /\ (last # -1 => b <= last)
    BY <1>3 DEF Named, Absent
  <2>2. named \subseteq Int /\ first \in Nat
    BY <1>3 DEF Named
  <2> HIDE DEF named
  <2>3. CASE first >= n \/ (last # -1 /\ last < first)
    <3>1. r = Unsatisfiable
      BY <1>3, <2>2, <2>3 DEF ParseSingleRange, Absent
    <3>2. named = {}
      BY <2>1, <2>2, <2>3
    <3>3. QED
      BY <3>1, <3>2 DEF named
  <2>4. CASE first < n /\ (last = -1 \/ first <= last)
    <3> DEFINE end == IF last = -1 THEN n - 1 ELSE Least(last, n - 1)
    <3>1. r = [start |-> first, end |-> end]
      <4>1. CASE last = -1
        BY <1>3, <2>2, <2>4, <4>1 DEF ParseSingleRange, Absent
      <4>2. CASE last # -1
        BY <1>3, <2>2, <2>4, <4>2 DEF ParseSingleRange, Absent
      <4>3. QED
        BY <4>1, <4>2
    <3>2. r.start = first /\ r.end = end
      BY <3>1
    <3>3. end \in Int /\ first <= end /\ end < n /\ (last # -1 => end <= last)
          /\ (end = n - 1 \/ end = last)
      BY <2>2, <2>4 DEF Least
    <3> HIDE DEF end, r
    <3>4. r # Unsatisfiable
      BY <2>2, <3>2, <3>3 DEF Unsatisfiable, Absent
    <3>5. \A b \in Int : b \in r.start..r.end <=> b \in named
      BY <2>1, <2>2, <3>2, <3>3
    <3>6. r.start..r.end = named
      <4>1. r.start..r.end \subseteq Int
        BY <2>2, <3>2, <3>3
      <4>2. QED
        BY <2>2, <3>5, <4>1
    <3>7. first \in named
      BY <2>1, <2>2, <2>4
    <3>8. QED
      BY <3>4, <3>6, <3>7 DEF r, named
  <2>5. QED
    BY <2>2, <2>3, <2>4
<1>4. QED
  BY <1>1, <1>2, <1>3

(* A date is not before the second of a change when it is not before the    *)
(* Last-Modified that is told of the change.                                *)
LEMMA DatesCompare ==
  ASSUME NEW date \in Nat \cup {-1}, NEW modified \in Nat
  PROVE  NotBefore(date, modified) <=> date >= Second * (modified \div Second)
<1>1. modified \div 1000 \in Nat
  OBVIOUS
<1>2. CASE date = -1
  BY <1>1, <1>2 DEF NotBefore, Absent, Second
<1>3. CASE date # -1
  <2>1. date \in Nat
    BY <1>3
  <2>2. modified \div 1000 <= date \div 1000 <=> date >= 1000 * (modified \div 1000)
    BY <2>1
  <2>3. QED
    BY <1>3, <2>2 DEF NotBefore, Absent, Second
<1>4. QED
  BY <1>2, <1>3

(* A request with any Range of numbers that the code does not refuse as too *)
(* large, any conditional headers, for a file of any size and date          *)
AnyRequest ==
  [rule : {"range"}, size : Nat \ {0}, first : Nat \cup {Absent}, last : Nat \cup {Absent},
   ranged : BOOLEAN, ifNoneMatch : {"absent", "this", "other"},
   modified : Nat, modifiedSince : Nat \cup {Absent},
   ifRange : {"absent", "this", "other", "date"}, ifRangeDate : Nat \cup {Absent}]

LEMMA TriedRequests == RangeInput \subseteq AnyRequest
<1> SUFFICES ASSUME NEW i \in RangeInput PROVE i \in AnyRequest
  OBVIOUS
<1>1. FileBound \in Nat
  BY RulesAssumption
<1>2. Dates \subseteq Nat /\ {Second, 2 * Second - 1} \subseteq Nat
  BY DEF Dates, Second
<1>3. /\ i.size \in Nat \ {0} /\ i.first \in Nat \cup {Absent} /\ i.last \in Nat \cup {Absent}
  BY <1>1 DEF RangeInput, Absent
<1>4. QED
  BY <1>2, <1>3 DEF RangeInput, AnyRequest

(* parseSingleRange and servePublishedMedia, for any request for a file of  *)
(* any size and date: exactly the bytes asked for are sent, the whole file  *)
(* when its part is outdated, nothing exactly when the copy is current.     *)
THEOREM RangesOfAnyFile == input \in AnyRequest => RangesLieInTheFile
<1> SUFFICES ASSUME input \in AnyRequest PROVE RangesLieInTheFile
  OBVIOUS
<1> DEFINE n == input.size
           range == ParseSingleRange(input.first, input.last, n)
           partial == input.ranged /\ AllowsRange(input)
           asked == Asked(input)
           outdated == \/ input.ifRange = "other"
                       \/ input.ifRange = "date" /\ input.ifRangeDate < LastModified(input)
           current == \/ input.ifNoneMatch = "this"
                      \/ input.ifNoneMatch = "absent" /\ input.modifiedSince >= LastModified(input)
           r == Response(input)
<1>1. /\ n \in Nat \ {0} /\ input.first \in Nat \cup {-1} /\ input.last \in Nat \cup {-1}
      /\ input.ranged \in BOOLEAN /\ input.modified \in Nat
      /\ input.modifiedSince \in Nat \cup {-1} /\ input.ifRangeDate \in Nat \cup {-1}
      /\ input.ifNoneMatch \in {"absent", "this", "other"}
      /\ input.ifRange \in {"absent", "this", "other", "date"}
  BY DEF AnyRequest, Absent
<1>2. NotModified(input) <=> current
  <2>1. NotBefore(input.modifiedSince, input.modified) <=> input.modifiedSince >= LastModified(input)
    BY <1>1, DatesCompare DEF LastModified
  <2>2. QED
    BY <1>1, <2>1 DEF NotModified
<1>3. AllowsRange(input) <=> ~outdated
  <2>1. NotBefore(input.ifRangeDate, input.modified) <=> ~(input.ifRangeDate < LastModified(input))
    <3>1. LastModified(input) \in Int
      BY <1>1 DEF LastModified, Second
    <3>2. NotBefore(input.ifRangeDate, input.modified) <=> input.ifRangeDate >= LastModified(input)
      BY <1>1, DatesCompare DEF LastModified
    <3>3. QED
      BY <1>1, <3>1, <3>2
  <2>2. QED
    BY <1>1, <2>1 DEF AllowsRange
<1>4. /\ range = Unsatisfiable => asked = {}
      /\ range # Unsatisfiable => range.start..range.end = asked /\ asked # {}
  <2>1. asked = Named(n, input.first, input.last)
    BY DEF Asked, Named
  <2>2. QED
    BY <1>1, <2>1, ParsedRange
<1> HIDE DEF range, asked, outdated, current
<1>5. SUFFICES
        /\ r.status \in {200, 206, 304, 416}
        /\ r.status = 304 <=> current
        /\ r.status = 200 => r.start..r.end = 0..(n - 1) /\ (~input.ranged \/ outdated)
        /\ r.status = 206 => r.start..r.end = asked /\ asked # {} /\ input.ranged /\ ~outdated
        /\ r.status = 416 => asked = {} /\ input.ranged /\ ~outdated
  BY DEF RangesLieInTheFile, current, outdated, asked
<1>6. CASE NotModified(input)
  <2>1. r = [status |-> 304]
    BY <1>6 DEF Response
  <2>2. r.status = 304
    BY <2>1
  <2>3. QED
    BY <1>2, <1>6, <2>2
<1>7. CASE ~NotModified(input) /\ partial /\ range = Unsatisfiable
  <2>1. r = [status |-> 416]
    BY <1>7 DEF Response, range
  <2>2. r.status = 416
    BY <2>1
  <2>3. QED
    BY <1>2, <1>3, <1>4, <1>7, <2>2
<1>8. CASE ~NotModified(input) /\ partial /\ range # Unsatisfiable
  <2>1. r = [status |-> 206, start |-> range.start, end |-> range.end]
    BY <1>8 DEF Response, range
  <2>2. r.status = 206 /\ r.start = range.start /\ r.end = range.end
    BY <2>1
  <2> HIDE DEF r
  <2>3. QED
    BY <1>2, <1>3, <1>4, <1>8, <2>2
<1>9. CASE ~NotModified(input) /\ ~partial
  <2>1. r = [status |-> 200, start |-> 0, end |-> n - 1]
    BY <1>9 DEF Response
  <2>2. r.status = 200 /\ r.start = 0 /\ r.end = n - 1
    BY <2>1
  <2> HIDE DEF r
  <2>3. QED
    BY <1>1, <1>2, <1>3, <1>9, <2>2
<1>10. QED
  BY <1>6, <1>7, <1>8, <1>9

-----------------------------------------------------------------------------
(* Length of an episode *)

LEMMA SparseLimits ==
  ASSUME NEW words \in Nat, NEW next \in Nat, NEW short \in BOOLEAN, NEW exact \in BOOLEAN,
         next = words + 1
  PROVE  /\ SparseMinimum(words, short) \in Int /\ SparseMaximum(words) \in Int
         /\ SparseMinimum(words, short) <= SparseMaximum(words)
         /\ SparseMinimum(words, short) <= SparseMinimum(next, exact)
         /\ SparseMaximum(words) <= SparseMaximum(next)
         /\ 47 <= SparseMaximum(words)
         /\ words < 593 => SparseMaximum(words) <= 600
<1> DEFINE part == SeventyPercent(words, short)
           more == SeventyPercent(next, exact)
<1>1. part \in Int /\ more \in Int /\ part <= more
  <2>1. part \in Int /\ part <= (7 * words) \div 10 /\ (7 * words) \div 10 \in Int
    BY DEF SeventyPercent
  <2>2. more \in {(7 * next) \div 10, (7 * next) \div 10 - 1} /\ (7 * next) \div 10 \in Int
    BY DEF SeventyPercent
  <2>3. (7 * words) \div 10 <= more
    <3>1. CASE (7 * next) % 10 = 0
      <4>1. (7 * words) \div 10 <= (7 * next) \div 10 - 1
        BY <3>1
      <4> HIDE DEF more
      <4>2. QED
        BY <2>1, <2>2, <4>1
    <3>2. CASE (7 * next) % 10 # 0
      <4>1. more = (7 * next) \div 10
        BY <3>2 DEF SeventyPercent
      <4>2. QED
        BY <4>1
    <3>3. QED
      BY <3>1, <3>2
  <2> HIDE DEF part, more
  <2>4. QED
    BY <2>1, <2>2, <2>3
<1>2. /\ SparseMaximum(words) = IF 47 >= words + 7 THEN 47 ELSE words + 7
      /\ SparseMaximum(next) = IF 47 >= next + 7 THEN 47 ELSE next + 7
  BY DEF SparseMaximum, Greatest, DisclosureWords
<1> HIDE DEF part, more
<1>3. /\ SparseMinimum(words, short) = Least(SparseMaximum(words), Greatest(48, part + 7))
      /\ SparseMinimum(next, exact) = Least(SparseMaximum(next), Greatest(48, more + 7))
  BY DEF SparseMinimum, DisclosureWords, part, more
<1>4. /\ SparseMaximum(words) \in Int /\ SparseMaximum(next) \in Int
      /\ SparseMaximum(words) <= SparseMaximum(next)
      /\ 47 <= SparseMaximum(words)
      /\ words < 593 => SparseMaximum(words) <= 600
  BY <1>2
<1> DEFINE lower == Greatest(48, part + 7)
           upper == Greatest(48, more + 7)
<1>5. lower \in Int /\ upper \in Int /\ lower <= upper
  BY <1>1 DEF Greatest
<1> HIDE DEF lower, upper
<1>6. /\ SparseMinimum(words, short) = IF SparseMaximum(words) <= lower THEN SparseMaximum(words) ELSE lower
      /\ SparseMinimum(next, exact) = IF SparseMaximum(next) <= upper THEN SparseMaximum(next) ELSE upper
  BY <1>3 DEF Least, lower, upper
<1> DEFINE a == SparseMinimum(words, short)
           b == SparseMinimum(next, exact)
           c == SparseMaximum(words)
           d == SparseMaximum(next)
<1> HIDE DEF a, b, c, d
<1>7. a \in Int /\ c \in Int /\ a <= c /\ a <= b /\ c <= d
  <2>1. a = IF c <= lower THEN c ELSE lower
    BY <1>6 DEF a, c
  <2>2. b = IF d <= upper THEN d ELSE upper
    BY <1>6 DEF b, d
  <2>3. c \in Int /\ d \in Int /\ c <= d
    BY <1>4 DEF c, d
  <2>4. QED
    BY <1>5, <2>1, <2>2, <2>3
<1>8. QED
  BY <1>4, <1>7 DEF a, b, c, d

LEMMA LimitsFields ==
  ASSUME NEW a, NEW b, NEW c, NEW d, NEW e, NEW f
  PROVE  LET p == Limits(a, b, c, d, e, f)
         IN  /\ p.min = a /\ p.max = b /\ p.preferredMin = c /\ p.preferredMax = d
             /\ p.target = e /\ p.providerTarget = f
BY DEF Limits

(* The arms of policyForEvidence, for evidence of any size *)
LEMMA PolicyArms ==
  ASSUME NEW mode \in {"brief", "deep"}, NEW preset \in {"compact", "standard"},
         NEW words \in Nat, NEW short \in BOOLEAN
  PROVE  LET full == words + 7
             deep == Least(2100, Greatest(1800, full))
             most == SparseMaximum(words)
             least == SparseMinimum(words, short)
             p == Policy(mode, preset, words, short)
         IN  /\ mode = "deep" => p = Limits(1800, 3000, 1800, 3000, deep, deep)
             /\ mode = "brief" /\ preset = "compact" => p = Limits(50, 350, 200, 350, 275, 300)
             /\ mode = "brief" /\ preset = "standard" /\ full >= 600
                  => p = Limits(600, 1000, 600, 1000, Least(700, full), Least(700, full))
             /\ mode = "brief" /\ preset = "standard" /\ ~(full >= 600)
                  => p = Limits(least, most, least, most, most, most)
<1>1. CASE mode = "deep"
  BY <1>1 DEF Policy, DisclosureWords
<1>2. CASE mode = "brief" /\ preset = "compact"
  BY <1>2 DEF Policy, DisclosureWords
<1>3. CASE mode = "brief" /\ preset = "standard" /\ words + 7 >= 600
  BY <1>3 DEF Policy, DisclosureWords
<1>4. CASE mode = "brief" /\ preset = "standard" /\ ~(words + 7 >= 600)
  BY <1>4 DEF Policy, DisclosureWords
<1>5. QED
  BY <1>1, <1>2, <1>3, <1>4

LEMMA LengthContract ==
  ASSUME NEW mode \in {"brief", "deep"}, NEW preset \in {"compact", "standard"},
         NEW words \in Nat, NEW next \in Nat, NEW short \in BOOLEAN, NEW exact \in BOOLEAN,
         next = words + 1
  PROVE  LET p == Policy(mode, preset, words, short)
             q == Policy(mode, preset, next, exact)
         IN  /\ p.min <= p.preferredMin /\ p.preferredMin <= p.preferredMax /\ p.preferredMax <= p.max
             /\ {p.target, p.providerTarget} \subseteq p.preferredMin..p.preferredMax
             /\ p.providerTarget > 7
             /\ p.min <= q.min /\ p.max <= q.max
             /\ ~WarnsOfLength(mode, preset, p, p.providerTarget)
<1> DEFINE p == Policy(mode, preset, words, short)
           q == Policy(mode, preset, next, exact)
           full == words + 7
           deep(n) == Least(2100, Greatest(1800, n))
           ask == Least(700, full)
           most == SparseMaximum(words)
           least == SparseMinimum(words, short)
<1> HIDE DEF p, q
<1> SUFFICES
      /\ p.min <= p.preferredMin /\ p.preferredMin <= p.preferredMax /\ p.preferredMax <= p.max
      /\ {p.target, p.providerTarget} \subseteq p.preferredMin..p.preferredMax
      /\ p.providerTarget > 7
      /\ p.min <= q.min /\ p.max <= q.max
      /\ ~WarnsOfLength(mode, preset, p, p.providerTarget)
  BY DEF p, q
<1>2. CASE mode = "deep"
  <2>1. p = Limits(1800, 3000, 1800, 3000, deep(full), deep(full))
    BY <1>2, PolicyArms DEF p
  <2>2. q = Limits(1800, 3000, 1800, 3000, deep(next + 7), deep(next + 7))
    BY <1>2, PolicyArms DEF q
  <2>3. deep(full) \in 1800..2100
    BY DEF Least, Greatest
  <2> HIDE DEF deep
  <2>4. /\ p.min = 1800 /\ p.max = 3000 /\ p.preferredMin = 1800 /\ p.preferredMax = 3000
        /\ p.target = deep(full) /\ p.providerTarget = deep(full) /\ q.min = 1800 /\ q.max = 3000
    BY <2>1, <2>2, LimitsFields
  <2>5. ~WarnsOfLength(mode, preset, p, p.providerTarget)
    BY <1>2 DEF WarnsOfLength
  <2>6. QED
    BY <2>3, <2>4, <2>5
<1>3. CASE mode = "brief" /\ preset = "compact"
  <2>1. p = Limits(50, 350, 200, 350, 275, 300)
    BY <1>3, PolicyArms DEF p
  <2>2. q = Limits(50, 350, 200, 350, 275, 300)
    BY <1>3, PolicyArms DEF q
  <2>3. /\ p.min = 50 /\ p.max = 350 /\ p.preferredMin = 200 /\ p.preferredMax = 350
        /\ p.target = 275 /\ p.providerTarget = 300 /\ q.min = 50 /\ q.max = 350
    BY <2>1, <2>2, LimitsFields
  <2>4. ~WarnsOfLength(mode, preset, p, p.providerTarget)
    BY <2>3 DEF WarnsOfLength
  <2>5. QED
    BY <2>3, <2>4
<1>4. CASE mode = "brief" /\ preset = "standard" /\ full >= 600
  <2>1. p = Limits(600, 1000, 600, 1000, ask, ask)
    BY <1>4, PolicyArms DEF p
  <2>2. next + 7 >= 600
    BY <1>4
  <2>3. q = Limits(600, 1000, 600, 1000, Least(700, next + 7), Least(700, next + 7))
    BY <1>4, <2>2, PolicyArms DEF q
  <2>4. ask \in 600..1000
    BY <1>4 DEF Least
  <2> HIDE DEF ask
  <2>5. /\ p.min = 600 /\ p.max = 1000 /\ p.preferredMin = 600 /\ p.preferredMax = 1000
        /\ p.target = ask /\ p.providerTarget = ask /\ q.min = 600 /\ q.max = 1000
    BY <2>1, <2>3, LimitsFields
  <2>6. ~WarnsOfLength(mode, preset, p, p.providerTarget)
    BY <1>4 DEF WarnsOfLength
  <2>7. QED
    BY <2>4, <2>5, <2>6
<1>5. CASE mode = "brief" /\ preset = "standard" /\ ~(full >= 600)
  <2>1. p = Limits(least, most, least, most, most, most)
    BY <1>5, PolicyArms DEF p
  <2>2. /\ p.min = least /\ p.max = most /\ p.preferredMin = least /\ p.preferredMax = most
        /\ p.target = most /\ p.providerTarget = most
    BY <2>1, LimitsFields
  <2>3. /\ least \in Int /\ most \in Int /\ least <= most /\ 47 <= most /\ most <= 600
        /\ least <= SparseMinimum(next, exact) /\ most <= SparseMaximum(next)
    <3>1. words < 593
      BY <1>5
    <3>2. QED
      BY <3>1, SparseLimits
  <2>4. p.min <= q.min /\ p.max <= q.max
    <3>1. CASE next + 7 >= 600
      <4>1. q = Limits(600, 1000, 600, 1000, Least(700, next + 7), Least(700, next + 7))
        BY <1>5, <3>1, PolicyArms DEF q
      <4>2. q.min = 600 /\ q.max = 1000
        BY <4>1, LimitsFields
      <4> HIDE DEF least, most
      <4>3. QED
        BY <2>2, <2>3, <4>2
    <3>2. CASE ~(next + 7 >= 600)
      <4> DEFINE more == SparseMaximum(next)
                 lower == SparseMinimum(next, exact)
      <4>1. q = Limits(lower, more, lower, more, more, more)
        BY <1>5, <3>2, PolicyArms DEF q
      <4>2. q.min = lower /\ q.max = more
        BY <4>1, LimitsFields
      <4>3. QED
        BY <2>2, <2>3, <4>2
    <3>3. QED
      BY <3>1, <3>2
  <2>5. ~WarnsOfLength(mode, preset, p, p.providerTarget)
    BY <1>5 DEF WarnsOfLength
  <2> HIDE DEF least, most
  <2>6. QED
    BY <2>2, <2>3, <2>4, <2>5
<1>6. QED
  BY <1>2, <1>3, <1>4, <1>5

(* policyForEvidence, for sufficient evidence of any number of words and    *)
(* either rounding of each product: some length is accepted, the one that is *)
(* asked of the provider raises no warning, and one more word of evidence   *)
(* never lowers the limits.                                                 *)
THEOREM LengthOfAnyEvidence == input \in LengthInput => LengthContractIsSatisfiable
<1> SUFFICES ASSUME input \in LengthInput PROVE LengthContractIsSatisfiable
  OBVIOUS
<1>1. /\ input.words \in Nat /\ input.words + 1 \in Nat /\ input.short \in BOOLEAN
      /\ input.mode \in {"brief", "deep"} /\ input.preset \in {"compact", "standard"}
  BY RulesAssumption DEF LengthInput
<1>2. PICK words \in Nat, next \in Nat, short \in BOOLEAN :
        words = input.words /\ next = words + 1 /\ short = input.short
  BY <1>1
<1>3. PICK mode \in {"brief", "deep"}, preset \in {"compact", "standard"} :
        mode = input.mode /\ preset = input.preset
  BY <1>1
<1> DEFINE p == Policy(mode, preset, words, short)
           q(exact) == Policy(mode, preset, next, exact)
<1>4. /\ p.min <= p.preferredMin /\ p.preferredMin <= p.preferredMax /\ p.preferredMax <= p.max
      /\ {p.target, p.providerTarget} \subseteq p.preferredMin..p.preferredMax
      /\ p.providerTarget > 7
      /\ \A exact \in BOOLEAN : p.min <= q(exact).min /\ p.max <= q(exact).max
      /\ ~WarnsOfLength(mode, preset, p, p.providerTarget)
  <2>1. next = words + 1
    BY <1>2
  <2>2. TRUE \in BOOLEAN
    OBVIOUS
  <2>3. QED
    BY <2>1, <2>2, LengthContract
<1>5. /\ p = Policy(input.mode, input.preset, input.words, input.short)
      /\ \A exact \in BOOLEAN : q(exact) = Policy(input.mode, input.preset, input.words + 1, exact)
  BY <1>2, <1>3, Zenon
<1> HIDE DEF p, q
<1>6. QED
  BY <1>3, <1>4, <1>5 DEF LengthContractIsSatisfiable, DisclosureWords

-----------------------------------------------------------------------------
(* Induction: a set of numbers has a least element, because the intervals   *)
(* below its elements are finite; no operator is instantiated.              *)

LEMMA LeastElement ==
  ASSUME NEW T \in SUBSET Nat, T # {}
  PROVE  \E n \in T : \A m \in T : n <= m
<1> DEFINE R == StrictSubsetOrdering(Nat)
           F == FiniteSubsetsOf(Nat)
           below(n) == 0..(n - 1)
           B == {below(n) : n \in T}
<1>1. B \subseteq F /\ B # {}
  <2>1. ASSUME NEW n \in T PROVE below(n) \in F
    <3>1. below(n) \subseteq Nat
      OBVIOUS
    <3>2. IsFiniteSet(below(n))
      BY FS_Interval
    <3>3. QED
      BY <3>1, <3>2 DEF FiniteSubsetsOf
  <2>2. QED
    BY <2>1
<1>2. IsWellFoundedOn(R, F)
  BY FS_StrictSubsetOrderingWellFounded
<1>3. \E x \in B : \A y \in B : ~(<<y, x>> \in R)
  <2> HIDE DEF R, F, B
  <2>1. QED
    BY <1>1, <1>2, WFMin
<1>4. PICK n \in T : \A y \in B : ~(<<y, below(n)>> \in R)
  <2>1. PICK x \in B : \A y \in B : ~(<<y, x>> \in R)
    BY <1>3
  <2>2. PICK n \in T : x = below(n)
    OBVIOUS
  <2>3. QED
    BY <2>1, <2>2
<1>5. ASSUME NEW m \in T PROVE n <= m
  <2>1. SUFFICES ASSUME m < n PROVE FALSE
    OBVIOUS
  <2>2. /\ below(m) \subseteq below(n) /\ m \in below(n) /\ m \notin below(m)
        /\ below(m) \subseteq Nat /\ below(n) \subseteq Nat
    BY <2>1
  <2>3. below(m) # below(n)
    BY <2>2
  <2>4. <<below(m), below(n)>> \in R
    BY <2>2, <2>3 DEF StrictSubsetOrdering
  <2>5. QED
    BY <1>4, <2>4
<1>6. QED
  BY <1>5

LEMMA GreatestElement ==
  ASSUME NEW N \in Nat, NEW T \in SUBSET (0..N), T # {}
  PROVE  \E n \in T : \A m \in T : m <= n
<1> DEFINE D == {N - n : n \in T}
<1>1. D \in SUBSET Nat /\ D # {}
  <2>1. ASSUME NEW n \in T PROVE N - n \in Nat
    OBVIOUS
  <2>2. PICK n \in T : TRUE
    OBVIOUS
  <2>3. QED
    BY <2>1, <2>2
<1>2. PICK d \in D : \A e \in D : d <= e
  <2> HIDE DEF D
  <2>1. QED
    BY <1>1, LeastElement
<1>3. PICK n \in T : d = N - n
  OBVIOUS
<1>4. ASSUME NEW m \in T PROVE m <= n
  <2>1. N - m \in D
    OBVIOUS
  <2>2. d <= N - m
    BY <1>2, <2>1
  <2>3. QED
    BY <1>3, <2>2
<1>5. QED
  BY <1>4

(* Induction downwards from N, over all greater numbers *)
LEMMA DownwardInduction ==
  ASSUME NEW N \in Nat, NEW S,
         \A k \in 0..N : (\A m \in (k + 1)..N : m \in S) => k \in S
  PROVE  \A k \in 0..N : k \in S
<1> DEFINE T == {k \in 0..N : k \notin S}
<1>1. ASSUME T # {} PROVE FALSE
  <2>1. PICK n \in T : \A m \in T : m <= n
    <3>1. T \in SUBSET (0..N)
      OBVIOUS
    <3> HIDE DEF T
    <3>2. QED
      BY <1>1, <3>1, GreatestElement
  <2>2. \A m \in (n + 1)..N : m \in S
    BY <2>1
  <2>3. QED
    BY <2>2
<1>2. QED
  BY <1>1

(* Induction upwards to N *)
LEMMA UpwardInduction ==
  ASSUME NEW N \in Nat, NEW S, 0 \in S, \A k \in 1..N : k - 1 \in S => k \in S
  PROVE  \A k \in 0..N : k \in S
<1> DEFINE T == {k \in 0..N : k \notin S}
<1>1. ASSUME T # {} PROVE FALSE
  <2>1. PICK n \in T : \A m \in T : n <= m
    <3>1. T \in SUBSET Nat
      OBVIOUS
    <3> HIDE DEF T
    <3>2. QED
      BY <1>1, <3>1, LeastElement
  <2>2. n # 0 /\ n \in 1..N /\ n - 1 \in 0..N
    OBVIOUS
  <2>3. n - 1 \notin T
    BY <2>1, <2>2
  <2>4. QED
    BY <2>2, <2>3
<1>2. QED
  BY <1>1

-----------------------------------------------------------------------------
(* Catalog of excerpts *)

(* A unit that trimming removes.                                           *)
Blank(body, i) == At0(body, i) = "blank"

LEMMA TrimmedStart ==
  ASSUME NEW body, NEW from \in Nat, NEW to \in Nat, from <= to
  PROVE  LET t == TrimStartOffset(body, from, to)
         IN  /\ t \in from..to
             /\ t < to => ~Blank(body, t)
             /\ \A i \in from..(t - 1) : Blank(body, i)
<1> DEFINE t == TrimStartOffset(body, from, to)
           kept == {i \in from..(to - 1) : At0(body, i) # "blank"}
<1>1. CASE kept = {}
  <2>1. t = to
    BY <1>1 DEF TrimStartOffset
  <2>2. QED
    BY <1>1, <2>1 DEF Blank
<1>2. CASE kept # {}
  <2>1. t = CHOOSE i \in kept : \A j \in kept : i <= j
    BY <1>2 DEF TrimStartOffset
  <2>2. \E i \in kept : \A j \in kept : i <= j
    <3>1. kept \in SUBSET Nat
      OBVIOUS
    <3> HIDE DEF kept
    <3>2. QED
      BY <1>2, <3>1, LeastElement
  <2>3. t \in kept /\ \A j \in kept : t <= j
    BY <2>1, <2>2
  <2> HIDE DEF t
  <2>4. QED
    BY <2>3 DEF Blank, t
<1>3. QED
  BY <1>1, <1>2

LEMMA TrimmedEnd ==
  ASSUME NEW body, NEW from \in Nat, NEW to \in Nat, from <= to
  PROVE  LET t == TrimEndOffset(body, from, to)
         IN  /\ t \in from..to
             /\ t > from => ~Blank(body, t - 1)
             /\ \A i \in t..(to - 1) : Blank(body, i)
<1> DEFINE t == TrimEndOffset(body, from, to)
           kept == {i \in from..(to - 1) : At0(body, i) # "blank"}
<1>1. CASE kept = {}
  <2>1. t = from
    BY <1>1 DEF TrimEndOffset
  <2>2. QED
    BY <1>1, <2>1 DEF Blank
<1>2. CASE kept # {}
  <2> DEFINE last == CHOOSE i \in kept : \A j \in kept : j <= i
  <2>1. t = 1 + last
    BY <1>2 DEF TrimEndOffset
  <2>2. \E i \in kept : \A j \in kept : j <= i
    <3>1. kept \in SUBSET (0..to)
      OBVIOUS
    <3> HIDE DEF kept
    <3>2. QED
      BY <1>2, <3>1, GreatestElement
  <2>3. last \in kept /\ \A j \in kept : j <= last
    BY <2>2
  <2> HIDE DEF t, last
  <2>4. t - 1 = last /\ t \in from..to
    BY <2>1, <2>3
  <2>5. ASSUME NEW i \in t..(to - 1) PROVE Blank(body, i)
    BY <2>1, <2>3, <2>5 DEF Blank
  <2>6. QED
    BY <2>3, <2>4, <2>5 DEF Blank, t
<1>3. QED
  BY <1>1, <1>2

(* What is known of a body that passes the first check *)
CitedBody(body) == body \in Seq(Unit) /\ Citable(body)

LEMMA Pairs ==
  ASSUME NEW body, CitedBody(body), NEW i \in 0..(Len(body) - 1)
  PROVE  /\ At0(body, i) = "high" => i + 1 < Len(body) /\ At0(body, i + 1) = "low"
         /\ At0(body, i) = "low" => i > 0 /\ At0(body, i - 1) = "high"
<1>1. Len(body) \in Nat /\ i + 1 \in 1..Len(body)
  BY LenProperties DEF CitedBody
<1>2. /\ body[i + 1] = "high" => i + 1 < Len(body) /\ body[i + 1 + 1] = "low"
      /\ body[i + 1] = "low" => i + 1 > 1 /\ body[i + 1 - 1] = "high"
  BY <1>1 DEF CitedBody, Citable, WellFormed
<1>3. i + 1 - 1 = i - 1 + 1
  BY <1>1
<1>4. QED
  BY <1>1, <1>2, <1>3 DEF At0

(* The text of a body lies between its first and its final offset. *)
LEMMA TextBounds ==
  ASSUME NEW body, CitedBody(body)
  PROVE  /\ FirstOffset(body) \in Nat /\ FinalOffset(body) \in Nat /\ Len(body) \in Nat
         /\ FinalOffset(body) <= Len(body)
         /\ FinalOffset(body) - FirstOffset(body) >= MinExcerpt
         /\ FirstOffset(body) < FinalOffset(body)
         /\ ~Blank(body, FirstOffset(body)) /\ ~Blank(body, FinalOffset(body) - 1)
         /\ \A i \in 0..(Len(body) - 1) :
              ~Blank(body, i) => i \in FirstOffset(body)..(FinalOffset(body) - 1)
<1> DEFINE first == FirstOffset(body)
           final == FinalOffset(body)
<1>1. Len(body) \in Nat /\ MinExcerpt \in Nat \ {0} /\ final - first >= MinExcerpt
  BY LenProperties, RulesAssumption DEF CitedBody, Citable
<1>2. /\ first \in 0..Len(body)
      /\ first < Len(body) => ~Blank(body, first)
      /\ \A i \in 0..(first - 1) : Blank(body, i)
  BY <1>1, TrimmedStart DEF FirstOffset
<1>3. /\ final \in 0..Len(body)
      /\ final > 0 => ~Blank(body, final - 1)
      /\ \A i \in final..(Len(body) - 1) : Blank(body, i)
  BY <1>1, TrimmedEnd DEF FinalOffset
<1> HIDE DEF first, final
<1>4. /\ first \in Nat /\ final \in Nat /\ first < final /\ final <= Len(body) /\ first < Len(body) /\ final > 0
  BY <1>1, <1>2, <1>3
<1>5. ASSUME NEW i \in 0..(Len(body) - 1), ~Blank(body, i)
      PROVE  i \in first..(final - 1)
  BY <1>1, <1>2, <1>3, <1>4, <1>5
<1>6. QED
  BY <1>1, <1>2, <1>3, <1>4, <1>5 DEF first, final

(* A slice that begins with no half of a pair and ends with none *)
LEMMA SliceIsWellFormed ==
  ASSUME NEW body, CitedBody(body), NEW from \in Nat, NEW to \in Nat, from < to, to <= Len(body),
         At0(body, from) # "low", At0(body, to - 1) # "high"
  PROVE  WellFormed(Slice(body, from, to))
<1> DEFINE s == Slice(body, from, to)
<1>1. Len(body) \in Nat /\ body \in Seq(Unit)
  BY LenProperties DEF CitedBody
<1>2. Len(s) = to - from /\ \A i \in 1..(to - from) : s[i] = At0(body, from + i - 1)
  <2>1. from + 1 \in Int /\ to \in Int /\ \A i \in (from + 1)..to : body[i] \in Unit
    BY <1>1, ElementOfSeq
  <2>2. /\ Len(SubSeq(body, from + 1, to)) = IF from + 1 <= to THEN to - (from + 1) + 1 ELSE 0
        /\ \A i \in 1..(to - (from + 1) + 1) : SubSeq(body, from + 1, to)[i] = body[from + 1 + i - 1]
    BY <2>1, SubSeqProperties
  <2>3. \A i \in 1..(to - from) : from + 1 + i - 1 = from + i - 1 + 1
    OBVIOUS
  <2>4. to - (from + 1) + 1 = to - from
    OBVIOUS
  <2>5. QED
    BY <2>2, <2>3, <2>4 DEF Slice, At0
<1> HIDE DEF s
<1>3. ASSUME NEW i \in 1..(to - from)
      PROVE  /\ s[i] = "high" => i < to - from /\ s[i + 1] = "low"
             /\ s[i] = "low" => i > 1 /\ s[i - 1] = "high"
  <2> DEFINE k == from + i - 1
  <2>1. k \in 0..(Len(body) - 1) /\ s[i] = At0(body, k)
    BY <1>1, <1>2
  <2>2. CASE s[i] = "high"
    <3>1. At0(body, k) = "high" /\ k # to - 1
      BY <2>1, <2>2
    <3>2. i < to - from
      BY <3>1
    <3>3. At0(body, k + 1) = "low"
      BY <2>1, <3>1, Pairs
    <3>4. i + 1 \in 1..(to - from) /\ from + (i + 1) - 1 = k + 1
      BY <3>2
    <3>5. s[i + 1] = At0(body, k + 1)
      BY <1>2, <3>4
    <3>6. QED
      BY <2>2, <3>2, <3>3, <3>5
  <2>3. CASE s[i] = "low"
    <3>1. At0(body, k) = "low" /\ k # from
      BY <2>1, <2>3
    <3>2. i > 1
      BY <3>1
    <3>3. At0(body, k - 1) = "high"
      BY <2>1, <3>1, Pairs
    <3>4. i - 1 \in 1..(to - from) /\ from + (i - 1) - 1 = k - 1
      BY <3>2
    <3>5. s[i - 1] = At0(body, k - 1)
      BY <1>2, <3>4
    <3>6. QED
      BY <2>3, <3>2, <3>3, <3>5
  <2>4. QED
    BY <2>2, <2>3
<1>4. WellFormed(s)
  BY <1>2, <1>3 DEF WellFormed
<1>5. QED
  BY <1>4 DEF s

(* A cut goes forward and splits no pair; only the last one is short. *)
LEMMA CutGoesOn ==
  ASSUME NEW body, CitedBody(body), NEW start \in 0..(FinalOffset(body) - 1)
  PROVE  LET final == FinalOffset(body)
             cut == Cut(body, start, final)
         IN  /\ cut \in (start + 1)..final /\ cut <= start + MaxExcerpt
             /\ cut # final => cut >= start + MaxExcerpt - 1
             /\ At0(body, cut - 1) # "high"
<1> DEFINE final == FinalOffset(body)
           cut == Cut(body, start, final)
           far == Least(final, start + MaxExcerpt)
<1>1. final \in Nat /\ final <= Len(body) /\ Len(body) \in Nat /\ ~Blank(body, final - 1)
  BY TextBounds
<1>2. MaxExcerpt \in Nat /\ MaxExcerpt >= 3
  BY RulesAssumption
<1>3. \A i \in Len(body)..(Len(body)) : i \notin 0..(Len(body) - 1)
  BY <1>1
<1>4. far \in (start + 1)..final /\ far <= start + MaxExcerpt /\ (far # final => far = start + MaxExcerpt)
  BY <1>1, <1>2 DEF Least
<1>5. cut = IF far < final /\ At0(body, far - 1) = "high" THEN far - 1 ELSE far
  BY DEF Cut
<1> HIDE DEF far, cut
<1>6. cut \in (start + 1)..final /\ cut <= start + MaxExcerpt /\ (cut # final => cut >= start + MaxExcerpt - 1)
  BY <1>1, <1>2, <1>4, <1>5
<1>7. At0(body, cut - 1) # "high"
  <2>1. CASE far < final /\ At0(body, far - 1) = "high"
    <3>1. far - 2 \in 0..(Len(body) - 1) /\ far - 2 + 1 = far - 1 /\ cut - 1 = far - 2
      BY <1>1, <1>2, <1>4, <1>5, <2>1
    <3>2. At0(body, far - 2) # "high"
      BY <2>1, <3>1, Pairs
    <3>3. QED
      BY <3>1, <3>2
  <2>2. CASE far < final /\ At0(body, far - 1) # "high"
    BY <1>5, <2>2
  <2>3. CASE ~(far < final)
    <3>1. cut = final
      BY <1>1, <1>4, <1>5, <2>3
    <3>2. SUFFICES ASSUME At0(body, final - 1) = "high" PROVE FALSE
      BY <3>1
    <3>3. final - 1 \in 0..(Len(body) - 1) /\ final - 1 + 1 = final
      BY <1>1
    <3>4. final < Len(body) /\ At0(body, final) = "low"
      BY <3>2, <3>3, Pairs
    <3>5. ~Blank(body, final) /\ final \in 0..(Len(body) - 1)
      BY <1>1, <3>4 DEF Blank
    <3>6. final \in FirstOffset(body)..(final - 1)
      BY <3>5, TextBounds
    <3>7. QED
      BY <1>1, <3>6
  <2>4. QED
    BY <2>1, <2>2, <2>3
<1>8. QED
  BY <1>6, <1>7 DEF cut

(* Where an excerpt may start *)
Start(body, i) ==
  /\ i \in FirstOffset(body)..(FinalOffset(body) - 1)
  /\ ~Blank(body, i) /\ At0(body, i) # "low"

LEMMA FirstIsStart ==
  ASSUME NEW body, CitedBody(body)
  PROVE  Start(body, FirstOffset(body))
<1> DEFINE first == FirstOffset(body)
<1>1. /\ first \in Nat /\ first < FinalOffset(body) /\ FinalOffset(body) <= Len(body) /\ Len(body) \in Nat
      /\ FinalOffset(body) \in Nat /\ ~Blank(body, first)
  BY TextBounds
<1>2. SUFFICES ASSUME At0(body, first) = "low" PROVE FALSE
  BY <1>1 DEF Start
<1>3. first > 0 /\ At0(body, first - 1) = "high"
  BY <1>1, <1>2, Pairs
<1>4. first - 1 \in 0..(Len(body) - 1) /\ ~Blank(body, first - 1)
  BY <1>1, <1>3 DEF Blank
<1>5. first - 1 \in first..(FinalOffset(body) - 1)
  BY <1>4, TextBounds
<1>6. QED
  BY <1>1, <1>5

(* The next turn of the loop starts behind the cut and the blank there. *)
LEMMA NextIsStart ==
  ASSUME NEW body, CitedBody(body), NEW start, Start(body, start),
         Cut(body, start, FinalOffset(body)) # FinalOffset(body)
  PROVE  LET cut == Cut(body, start, FinalOffset(body))
             next == TrimStartOffset(body, cut, FinalOffset(body))
         IN  /\ Start(body, next) /\ next > start /\ next >= cut
             /\ \A i \in cut..(next - 1) : Blank(body, i)
<1> DEFINE final == FinalOffset(body)
           first == FirstOffset(body)
           cut == Cut(body, start, final)
           next == TrimStartOffset(body, cut, final)
<1>1. /\ first \in Nat /\ final \in Nat /\ Len(body) \in Nat /\ final <= Len(body)
      /\ ~Blank(body, final - 1)
  BY TextBounds
<1>2. start \in first..(final - 1) /\ start \in 0..(final - 1)
  BY <1>1 DEF Start
<1>3. cut \in (start + 1)..final /\ At0(body, cut - 1) # "high" /\ cut # final
  BY <1>2, CutGoesOn
<1>4. cut \in Nat /\ cut <= final
  BY <1>1, <1>2, <1>3
<1>5. next \in cut..final /\ (next < final => ~Blank(body, next)) /\ \A i \in cut..(next - 1) : Blank(body, i)
  BY <1>1, <1>4, TrimmedStart
<1> HIDE DEF cut, next, final, first
<1>6. next # final
  <2>1. SUFFICES ASSUME next = final PROVE FALSE
    OBVIOUS
  <2>2. final - 1 \in cut..(next - 1)
    BY <1>1, <1>2, <1>3, <2>1
  <2>3. QED
    BY <1>1, <1>5, <2>2
<1>7. next \in first..(final - 1) /\ ~Blank(body, next) /\ next > start /\ next >= cut /\ next \in 0..(Len(body) - 1)
  BY <1>1, <1>2, <1>3, <1>5, <1>6
<1>8. At0(body, next) # "low"
  <2>1. SUFFICES ASSUME At0(body, next) = "low" PROVE FALSE
    OBVIOUS
  <2>2. next > 0 /\ At0(body, next - 1) = "high"
    BY <1>7, <2>1, Pairs
  <2>3. CASE next = cut
    BY <1>3, <2>2, <2>3
  <2>4. CASE next # cut
    <3>1. next - 1 \in cut..(next - 1)
      BY <1>1, <1>2, <1>3, <1>5, <2>4
    <3>2. Blank(body, next - 1)
      BY <1>5, <3>1
    <3>3. QED
      BY <2>2, <3>2 DEF Blank
  <2>5. QED
    BY <2>3, <2>4
<1>9. QED
  BY <1>5, <1>7, <1>8 DEF Start, cut, next, final, first

Excerpt == [from : Nat, to : Nat]

(* A range of the body that cuts no pair; if it fits, it may be cited.      *)
SoundExcerpt(body, r) ==
  /\ r \in Excerpt /\ r.to <= Len(body)
  /\ WellFormed(Slice(body, r.from, r.to))

(* A run of blanks inside a spaced text is shorter than Gap.                *)
LEMMA RunIsShort ==
  ASSUME NEW body, CitedBody(body), Spaced(body), NEW from \in Nat, NEW to \in Nat,
         FirstOffset(body) <= from, to <= FinalOffset(body), \A i \in from..(to - 1) : Blank(body, i)
  PROVE  to - from < Gap
<1>1. /\ Gap \in Nat /\ FirstOffset(body) \in Nat /\ FinalOffset(body) \in Nat
  BY RulesAssumption, TextBounds DEF Gap
<1>2. SUFFICES ASSUME to - from >= Gap PROVE FALSE
  BY <1>1
<1>3. from \in FirstOffset(body)..(FinalOffset(body) - Gap)
  BY <1>1, <1>2
<1>4. PICK j \in from..(from + Gap - 1) : At0(body, j) # "blank"
  BY <1>3 DEF Spaced
<1>5. j \in from..(to - 1)
  BY <1>1, <1>2, <1>4
<1>6. QED
  BY <1>4, <1>5 DEF Blank

(* A range between two places where an excerpt may start and end *)
LEMMA RangeIsSound ==
  ASSUME NEW body, CitedBody(body), NEW from \in Nat, NEW to \in Nat, to <= Len(body), from < to,
         ~Blank(body, from), ~Blank(body, to - 1), At0(body, from) # "low", At0(body, to - 1) # "high"
  PROVE  LET r == [from |-> from, to |-> to]
         IN  /\ SoundExcerpt(body, r)
             /\ to - from \in MinExcerpt..MaxExcerpt => Fits(body, r)
<1> DEFINE r == [from |-> from, to |-> to]
<1>1. r \in Excerpt /\ r.from = from /\ r.to = to
  BY DEF Excerpt
<1> HIDE DEF r
<1>2. WellFormed(Slice(body, from, to))
  BY SliceIsWellFormed
<1>3. SoundExcerpt(body, r) /\ (to - from \in MinExcerpt..MaxExcerpt => Fits(body, r))
  BY <1>1, <1>2 DEF SoundExcerpt, Fits, IsTrimmed, Blank
<1>4. QED
  BY <1>3 DEF r

(* An end behind a character that is not blank, before a blank or the cut *)
LEMMA LastEnd ==
  ASSUME NEW body, CitedBody(body)
  PROVE  At0(body, FinalOffset(body) - 1) # "high"
<1> DEFINE final == FinalOffset(body)
<1>1. final \in Nat /\ final <= Len(body) /\ Len(body) \in Nat /\ final > 0
  BY TextBounds
<1>2. SUFFICES ASSUME At0(body, final - 1) = "high" PROVE FALSE
  OBVIOUS
<1>3. final - 1 \in 0..(Len(body) - 1) /\ final - 1 + 1 = final
  BY <1>1
<1>4. final < Len(body) /\ At0(body, final) = "low"
  BY <1>2, <1>3, Pairs
<1>5. ~Blank(body, final) /\ final \in 0..(Len(body) - 1)
  BY <1>1, <1>4 DEF Blank
<1>6. final \in FirstOffset(body)..(final - 1)
  BY <1>5, TextBounds
<1>7. QED
  BY <1>1, <1>6

(* The excerpt that ends where the text ends: it fits, if no run of blanks   *)
(* is long, and has all text from any start that is near the end.            *)
LEMMA LastRange ==
  ASSUME NEW body, CitedBody(body)
  PROVE  LET r == RangeEndingAt(body, FinalOffset(body))
         IN  /\ SoundExcerpt(body, r) /\ r.to = FinalOffset(body)
             /\ Spaced(body) => Fits(body, r)
             /\ \A start : Start(body, start) /\ FinalOffset(body) - start < MinExcerpt => r.from <= start
<1> DEFINE final == FinalOffset(body)
           first == FirstOffset(body)
           far == Greatest(0, final - MaxExcerpt)
           from == IF far > 0 /\ At0(body, far) = "low" THEN far + 1 ELSE far
           t == TrimStartOffset(body, from, final)
           r == [from |-> t, to |-> final]
<1>1. /\ first \in Nat /\ final \in Nat /\ Len(body) \in Nat /\ final <= Len(body)
      /\ ~Blank(body, final - 1) /\ ~Blank(body, first) /\ first < final
      /\ final - first >= MinExcerpt
  BY TextBounds
<1>2. /\ MinExcerpt \in Nat \ {0} /\ MaxExcerpt \in Nat /\ MinExcerpt + 2 <= MaxExcerpt
  BY RulesAssumption
<1>3. RangeEndingAt(body, final) = r
  BY DEF RangeEndingAt
<1>4. far \in Nat /\ (far > 0 => far = final - MaxExcerpt) /\ final - far <= MaxExcerpt /\ far < final
  BY <1>1, <1>2 DEF Greatest
<1> HIDE DEF far
<1>5. from \in Nat /\ from < final /\ far <= from /\ from <= far + 1 /\ (far = 0 => from = 0)
  <2>1. from = far \/ (far > 0 /\ from = far + 1)
    OBVIOUS
  <2>2. far = 0 => from = 0
    OBVIOUS
  <2> HIDE DEF from, final, first
  <2>3. QED
    BY <1>1, <1>2, <1>4, <2>1, <2>2
<1>6. At0(body, from) # "low"
  <2>1. CASE far > 0 /\ At0(body, far) = "low"
    <3>1. far \in 0..(Len(body) - 1) /\ far + 1 \in 0..(Len(body) - 1) /\ far + 1 - 1 = far
      BY <1>1, <1>2, <1>4, <2>1
    <3>2. At0(body, far + 1) # "low"
      BY <2>1, <3>1, Pairs
    <3>3. QED
      BY <2>1, <3>2
  <2>2. CASE far > 0 /\ At0(body, far) # "low"
    BY <2>2
  <2>3. CASE ~(far > 0)
    <3>1. far = 0 /\ 0 \in 0..(Len(body) - 1)
      BY <1>1, <1>4, <2>3
    <3>2. At0(body, 0) # "low"
      BY <3>1, Pairs
    <3>3. QED
      BY <2>3, <3>1, <3>2
  <2>4. QED
    BY <2>1, <2>2, <2>3
<1> HIDE DEF from
<1>7. t \in from..final /\ (t < final => ~Blank(body, t)) /\ \A i \in from..(t - 1) : Blank(body, i)
  BY <1>1, <1>5, TrimmedStart
<1> HIDE DEF t, final, first
<1>8. ASSUME NEW i \in Nat, from <= i, i < final, ~Blank(body, i)
      PROVE  t <= i
  <2>1. SUFFICES ASSUME t > i PROVE FALSE
    BY <1>1, <1>5, <1>7, <1>8
  <2>2. i \in from..(t - 1)
    BY <1>1, <1>5, <1>7, <1>8, <2>1
  <2>3. QED
    BY <1>7, <1>8, <2>2
<1>9. t \in Nat /\ t < final /\ ~Blank(body, t) /\ final - t <= MaxExcerpt
  <2>1. final - 1 \in Nat /\ from <= final - 1 /\ final - 1 < final
    BY <1>1, <1>5
  <2>2. t <= final - 1
    BY <1>1, <1>8, <2>1
  <2>3. QED
    BY <1>1, <1>2, <1>4, <1>5, <1>7, <2>2
<1>10. At0(body, t) # "low"
  <2>1. SUFFICES ASSUME At0(body, t) = "low" PROVE FALSE
    OBVIOUS
  <2>2. CASE t = from
    BY <1>6, <2>1, <2>2
  <2>3. CASE t # from
    <3>1. t - 1 \in from..(t - 1) /\ t \in 0..(Len(body) - 1)
      BY <1>1, <1>5, <1>7, <1>9, <2>3
    <3>2. Blank(body, t - 1) /\ At0(body, t - 1) = "high"
      BY <1>7, <2>1, <3>1, Pairs
    <3>3. QED
      BY <3>2 DEF Blank
  <2>4. QED
    BY <2>2, <2>3
<1>11. ASSUME Spaced(body) PROVE final - t >= MinExcerpt
  <2>1. CASE from <= first
    <3>1. t <= first
      BY <1>1, <1>8, <2>1
    <3>2. QED
      BY <1>1, <1>2, <1>9, <3>1
  <2>2. CASE ~(from <= first)
    <3>1. first <= from /\ t <= final
      BY <1>1, <1>5, <1>9, <2>2
    <3>2. t - from < Gap
      BY <1>5, <1>7, <1>9, <1>11, <3>1, RunIsShort DEF first, final
    <3>3. far > 0
      BY <1>1, <1>4, <1>5, <2>2
    <3>4. QED
      BY <1>1, <1>2, <1>4, <1>5, <1>9, <3>2, <3>3 DEF Gap
  <2>3. QED
    BY <2>1, <2>2
<1>12. SoundExcerpt(body, r) /\ (Spaced(body) => Fits(body, r))
  <2>1. At0(body, final - 1) # "high"
    BY LastEnd DEF final
  <2>2. SoundExcerpt(body, r) /\ (final - t \in MinExcerpt..MaxExcerpt => Fits(body, r))
    BY <1>1, <1>9, <1>10, <2>1, RangeIsSound
  <2>3. Spaced(body) => final - t \in MinExcerpt..MaxExcerpt
    BY <1>1, <1>2, <1>9, <1>11
  <2>4. QED
    BY <2>2, <2>3
<1>13. ASSUME NEW start, Start(body, start), final - start < MinExcerpt
       PROVE  r.from <= start
  <2>1. start \in first..(final - 1) /\ ~Blank(body, start)
    BY <1>13 DEF Start, first, final
  <2>2. start \in Nat /\ from <= start /\ start < final
    BY <1>1, <1>2, <1>4, <1>5, <1>13, <2>1
  <2>3. t <= start
    BY <1>8, <2>1, <2>2
  <2>4. QED
    BY <2>3
<1>14. r.to = final
  OBVIOUS
<1> HIDE DEF r
<1>15. QED
  BY <1>3, <1>12, <1>13, <1>14 DEF final

(* One turn of the loop offers a sound excerpt; if no run of blanks is long, *)
(* it fits and has all text up to the cut.                                   *)
LEMMA TurnIsSound ==
  ASSUME NEW body, CitedBody(body), NEW start, Start(body, start)
  PROVE  LET r == RangeFrom(body, start)
             cut == Cut(body, start, FinalOffset(body))
         IN  /\ SoundExcerpt(body, r)
             /\ Spaced(body) => /\ Fits(body, r)
                                /\ \A i \in start..(cut - 1) : ~Blank(body, i) => i \in r.from..(r.to - 1)
<1> DEFINE final == FinalOffset(body)
           first == FirstOffset(body)
           cut == Cut(body, start, final)
           end == TrimEndOffset(body, start, cut)
<1>1. /\ first \in Nat /\ final \in Nat /\ Len(body) \in Nat /\ final <= Len(body)
      /\ ~Blank(body, final - 1)
  BY TextBounds
<1>2. /\ MinExcerpt \in Nat \ {0} /\ MaxExcerpt \in Nat /\ MinExcerpt + 2 <= MaxExcerpt
  BY RulesAssumption
<1>3. start \in first..(final - 1) /\ start \in Nat /\ start < final /\ ~Blank(body, start) /\ At0(body, start) # "low"
  BY <1>1 DEF Start
<1>4. /\ cut \in (start + 1)..final /\ cut <= start + MaxExcerpt
      /\ cut # final => cut >= start + MaxExcerpt - 1
      /\ At0(body, cut - 1) # "high"
  <2>1. start \in 0..(final - 1)
    BY <1>3
  <2>2. QED
    BY <2>1, CutGoesOn
<1>5. cut \in Nat /\ start <= cut /\ start < cut
  BY <1>1, <1>3, <1>4
<1>6. RangeFrom(body, start) = IF end - start < MinExcerpt THEN RangeEndingAt(body, final)
                                                           ELSE [from |-> start, to |-> end]
  BY DEF RangeFrom
<1> HIDE DEF cut
<1>7. end \in start..cut /\ (end > start => ~Blank(body, end - 1)) /\ \A i \in end..(cut - 1) : Blank(body, i)
  BY <1>3, <1>5, TrimmedEnd
<1> HIDE DEF end, final, first
<1>8. end > start
  <2>1. SUFFICES ASSUME end = start PROVE FALSE
    BY <1>3, <1>5, <1>7
  <2>2. start \in end..(cut - 1)
    BY <1>3, <1>5, <2>1
  <2>3. QED
    BY <1>3, <1>7, <2>2
<1>9. /\ end \in Nat /\ ~Blank(body, end - 1) /\ end <= cut /\ end <= Len(body)
  BY <1>1, <1>3, <1>4, <1>5, <1>7, <1>8
<1>10. At0(body, end - 1) # "high"
  <2>1. SUFFICES ASSUME At0(body, end - 1) = "high" PROVE FALSE
    OBVIOUS
  <2>2. end # cut
    BY <1>4, <2>1
  <2>3. end \in end..(cut - 1) /\ end - 1 \in 0..(Len(body) - 1) /\ end - 1 + 1 = end
    BY <1>1, <1>3, <1>4, <1>5, <1>8, <1>9, <2>2
  <2>4. Blank(body, end) /\ At0(body, end) = "low"
    BY <1>7, <2>1, <2>3, Pairs
  <2>5. QED
    BY <2>4 DEF Blank
<1>11. CASE end - start < MinExcerpt
  <2> DEFINE r == RangeEndingAt(body, final)
  <2>1. SoundExcerpt(body, r) /\ r.to = final /\ (Spaced(body) => Fits(body, r))
    BY LastRange DEF final
  <2>2. RangeFrom(body, start) = r
    BY <1>6, <1>11
  <2>3. ASSUME Spaced(body), NEW i \in start..(cut - 1)
        PROVE  i \in r.from..(r.to - 1)
    <3>1. cut = final
      <4>1. SUFFICES ASSUME cut # final PROVE FALSE
        OBVIOUS
      <4>2. cut - end >= Gap /\ first <= end /\ cut <= final
        BY <1>1, <1>2, <1>3, <1>4, <1>5, <1>8, <1>9, <1>11, <4>1 DEF Gap
      <4>3. cut - end < Gap
        BY <1>5, <1>7, <1>9, <2>3, <4>2, RunIsShort DEF first, final
      <4>4. Gap \in Int
        BY <1>2 DEF Gap
      <4>5. QED
        BY <1>5, <1>9, <4>2, <4>3, <4>4
    <3>2. end = final
      <4>1. SUFFICES ASSUME end < final PROVE FALSE
        BY <1>1, <1>9, <3>1
      <4>2. final - 1 \in end..(cut - 1)
        BY <1>1, <1>9, <3>1, <4>1
      <4>3. QED
        BY <1>1, <1>7, <4>2
    <3>3. final - start < MinExcerpt
      BY <1>11, <3>2
    <3>4. r.from <= start
      BY <3>3, LastRange DEF final
    <3>5. r.from \in Nat /\ r.to \in Nat
      BY <2>1 DEF SoundExcerpt, Excerpt
    <3> HIDE DEF r
    <3>6. QED
      BY <1>1, <1>3, <2>1, <2>3, <3>1, <3>4, <3>5
  <2> HIDE DEF r
  <2>4. QED
    BY <2>1, <2>2, <2>3 DEF cut, final
<1>12. CASE ~(end - start < MinExcerpt)
  <2> DEFINE r == [from |-> start, to |-> end]
  <2>1. RangeFrom(body, start) = r /\ r.from = start /\ r.to = end
    BY <1>6, <1>12
  <2>2. end - start \in MinExcerpt..MaxExcerpt
    BY <1>2, <1>3, <1>4, <1>5, <1>9, <1>12
  <2>3. SoundExcerpt(body, r) /\ Fits(body, r)
    BY <1>3, <1>8, <1>9, <1>10, <2>2, RangeIsSound
  <2> HIDE DEF r
  <2>4. ASSUME NEW i \in start..(cut - 1), ~Blank(body, i)
        PROVE  i \in r.from..(r.to - 1)
    <3>1. ~(i \in end..(cut - 1))
      BY <1>7, <2>4
    <3>2. QED
      BY <1>3, <1>5, <1>9, <2>1, <3>1
  <2>5. QED
    BY <2>1, <2>3, <2>4 DEF cut, final
<1>13. QED
  BY <1>11, <1>12

(* bodyRanges is defined by recursion to a later start; the recursion has   *)
(* a solution, and the definition is one.                                   *)
Turn(body, ranges, start) ==
  LET final == FinalOffset(body)
      end   == Cut(body, start, final)
  IN  IF start = final THEN <<>>
      ELSE <<RangeFrom(body, start)>> \o
           (IF end = final THEN <<>> ELSE ranges[TrimStartOffset(body, end, final)])

LEMMA TurnLooksAhead ==
  ASSUME NEW body, CitedBody(body), NEW start \in 0..FinalOffset(body), NEW g, NEW h,
         \A i \in (start + 1)..FinalOffset(body) : g[i] = h[i]
  PROVE  Turn(body, g, start) = Turn(body, h, start)
<1> DEFINE final == FinalOffset(body)
           cut == Cut(body, start, final)
           next == TrimStartOffset(body, cut, final)
<1>1. final \in Nat
  BY TextBounds
<1>2. CASE start = final
  BY <1>2 DEF Turn
<1>3. CASE start # final
  <2>1. start \in 0..(final - 1)
    BY <1>1, <1>3
  <2>2. cut \in (start + 1)..final
    BY <2>1, CutGoesOn
  <2>3. cut \in Nat /\ cut <= final
    BY <1>1, <2>1, <2>2
  <2>4. next \in cut..final
    BY <1>1, <2>3, TrimmedStart
  <2>5. next \in (start + 1)..final
    BY <1>1, <2>1, <2>2, <2>4
  <2>6. g[next] = h[next]
    BY <2>5
  <2>7. QED
    BY <1>3, <2>6 DEF Turn
<1>4. QED
  BY <1>2, <1>3

LEMMA RangesExist ==
  ASSUME NEW body, CitedBody(body)
  PROVE  \E g : g = [start \in 0..FinalOffset(body) |-> Turn(body, g, start)]
<1> DEFINE final == FinalOffset(body)
           Solves(g, k) == g = [start \in k..final |-> Turn(body, g, start)]
           S == {k \in 0..final : \E g : Solves(g, k)}
<1>1. final \in Nat
  BY TextBounds
<1>2. ASSUME NEW k \in 0..final, \A m \in (k + 1)..final : m \in S
      PROVE  k \in S
  <2>1. CASE k = final
    <3> DEFINE h == [start \in k..final |-> Turn(body, <<>>, start)]
    <3>1. \A start \in k..final : start \in 0..final /\ \A i \in (start + 1)..final : FALSE
      BY <1>1, <2>1
    <3>2. \A start \in k..final : Turn(body, <<>>, start) = Turn(body, h, start)
      <4> HIDE DEF h
      <4>1. QED
        BY <3>1, TurnLooksAhead
    <3>3. Solves(h, k)
      BY <3>2
    <3>4. QED
      BY <3>3
  <2>2. CASE k # final
    <3>1. k + 1 \in (k + 1)..final /\ k + 1 \in 0..final
      BY <1>1, <2>2
    <3>2. PICK g : Solves(g, k + 1)
      BY <1>2, <3>1
    <3> DEFINE h == [start \in k..final |-> Turn(body, g, start)]
    <3>3. \A i \in (k + 1)..final : h[i] = g[i]
      <4>1. ASSUME NEW i \in (k + 1)..final PROVE h[i] = g[i]
        <5>1. i \in k..final
          BY <1>1
        <5>2. g[i] = Turn(body, g, i)
          BY <3>2
        <5>3. QED
          BY <5>1, <5>2
      <4>2. QED
        BY <4>1
    <3>4. \A start \in k..final : Turn(body, g, start) = Turn(body, h, start)
      <4>1. ASSUME NEW start \in k..final PROVE Turn(body, g, start) = Turn(body, h, start)
        <5>1. start \in 0..final /\ \A i \in (start + 1)..final : i \in (k + 1)..final
          BY <1>1
        <5>2. \A i \in (start + 1)..final : g[i] = h[i]
          BY <3>3, <5>1
        <5> HIDE DEF h
        <5>3. QED
          BY <5>1, <5>2, TurnLooksAhead
      <4>2. QED
        BY <4>1
    <3>5. Solves(h, k)
      BY <3>4
    <3>6. QED
      BY <3>5
  <2>3. QED
    BY <2>1, <2>2
<1>3. \A k \in 0..final : k \in S
  <2> HIDE DEF S, final
  <2>1. QED
    BY <1>1, <1>2, DownwardInduction
<1>4. 0 \in 0..final
  BY <1>1
<1>5. 0 \in S
  BY <1>3, <1>4
<1>6. QED
  BY <1>5

LEMMA RangesUnfold ==
  ASSUME NEW body, CitedBody(body)
  PROVE  \E g : /\ BodyRanges(body) = g[FirstOffset(body)]
                /\ \A start \in 0..FinalOffset(body) : g[start] = Turn(body, g, start)
<1> DEFINE final == FinalOffset(body)
           G == CHOOSE g : g = [start \in 0..final |-> Turn(body, g, start)]
<1>1. G = [start \in 0..final |-> Turn(body, G, start)]
  BY RangesExist
<1>2. BodyRanges(body) = G[FirstOffset(body)]
  BY DEF BodyRanges, Turn
<1> HIDE DEF G
<1>3. \A start \in 0..final : G[start] = Turn(body, G, start)
  BY <1>1
<1>4. QED
  BY <1>2, <1>3

(* The excerpts q fit and have all text from start on.                      *)
Covers(body, q, start) ==
  /\ \A i \in 1..Len(q) : Fits(body, q[i])
  /\ \A j \in start..(FinalOffset(body) - 1) :
       ~Blank(body, j) => \E i \in 1..Len(q) : j \in q[i].from..(q[i].to - 1)

Offers(body, q, start) ==
  /\ q \in Seq(Excerpt)
  /\ \A i \in 1..Len(q) : SoundExcerpt(body, q[i])
  /\ Spaced(body) => Covers(body, q, start)

LEMMA TurnOffers ==
  ASSUME NEW body, CitedBody(body), NEW start, Start(body, start), NEW rest,
         LET cut == Cut(body, start, FinalOffset(body))
         IN  IF cut = FinalOffset(body) THEN rest = <<>>
             ELSE Offers(body, rest, TrimStartOffset(body, cut, FinalOffset(body)))
  PROVE  Offers(body, <<RangeFrom(body, start)>> \o rest, start)
<1> DEFINE final == FinalOffset(body)
           cut == Cut(body, start, final)
           next == TrimStartOffset(body, cut, final)
           r == RangeFrom(body, start)
           q == <<r>> \o rest
<1>1. /\ SoundExcerpt(body, r)
      /\ Spaced(body) => /\ Fits(body, r)
                         /\ \A i \in start..(cut - 1) : ~Blank(body, i) => i \in r.from..(r.to - 1)
  BY TurnIsSound
<1>2. r \in Excerpt
  BY <1>1 DEF SoundExcerpt
<1>3. /\ rest \in Seq(Excerpt)
      /\ \A i \in 1..Len(rest) : SoundExcerpt(body, rest[i]) /\ (Spaced(body) => Fits(body, rest[i]))
  <2>1. CASE cut = final
    <3>1. rest = <<>>
      BY <2>1
    <3>2. QED
      BY <3>1
  <2>2. CASE cut # final
    BY <2>2 DEF Offers, Covers
  <2>3. QED
    BY <2>1, <2>2
<1>4. start \in Nat /\ final \in Nat /\ start < final /\ cut \in (start + 1)..final
  <2>1. final \in Nat /\ FirstOffset(body) \in Nat
    BY TextBounds
  <2>2. start \in FirstOffset(body)..(final - 1)
    BY DEF Start
  <2>3. start \in 0..(final - 1)
    BY <2>1, <2>2
  <2>4. cut \in (start + 1)..final
    BY <2>3, CutGoesOn
  <2> HIDE DEF final, cut
  <2>5. QED
    BY <2>1, <2>3, <2>4
<1>5. ASSUME Spaced(body), NEW j \in start..(final - 1), ~Blank(body, j), ~(j \in start..(cut - 1))
      PROVE  \E i \in 1..Len(rest) : j \in rest[i].from..(rest[i].to - 1)
  <2>1. j >= cut /\ j \in cut..(final - 1)
    <3> HIDE DEF final, cut
    <3>1. QED
      BY <1>4, <1>5
  <2>2. cut # final
    <3> HIDE DEF final, cut
    <3>1. QED
      BY <1>4, <1>5, <2>1
  <2>3. Offers(body, rest, next)
    BY <2>2
  <2>4. next \in Nat /\ \A i \in cut..(next - 1) : Blank(body, i)
    <3>1. /\ Start(body, next)
          /\ \A i \in cut..(next - 1) : Blank(body, i)
      BY <2>2, NextIsStart
    <3>2. next \in FirstOffset(body)..(final - 1) /\ FirstOffset(body) \in Nat
      BY <3>1, TextBounds DEF Start
    <3> HIDE DEF next, final, cut
    <3>3. QED
      BY <1>4, <3>1, <3>2
  <2>5. j \in next..(final - 1)
    <3> HIDE DEF next, final, cut
    <3>1. QED
      BY <1>4, <1>5, <2>1, <2>4
  <2>6. QED
    BY <1>5, <2>3, <2>5 DEF Offers, Covers
<1> HIDE DEF r
<1>6. <<r>> \in Seq(Excerpt) /\ Len(<<r>>) = 1 /\ <<r>>[1] = r
  BY <1>2
<1>7. Len(rest) \in Nat
  BY <1>3, LenProperties
<1>8. /\ q \in Seq(Excerpt) /\ Len(q) = 1 + Len(rest)
      /\ \A i \in 1..(1 + Len(rest)) : q[i] = IF i <= 1 THEN <<r>>[i] ELSE rest[i - 1]
  <2> DEFINE one == <<r>>
  <2>1. one \in Seq(Excerpt) /\ Len(one) = 1
    BY <1>6
  <2> HIDE DEF one
  <2>2. /\ one \o rest \in Seq(Excerpt) /\ Len(one \o rest) = Len(one) + Len(rest)
        /\ \A i \in 1..(Len(one) + Len(rest)) :
             (one \o rest)[i] = IF i <= Len(one) THEN one[i] ELSE rest[i - Len(one)]
    BY <1>3, <2>1, ConcatProperties
  <2>3. QED
    BY <2>1, <2>2 DEF one
<1> HIDE DEF q, final, cut, next
<1>9. q[1] = r /\ \A i \in 1..Len(rest) : q[i + 1] = rest[i]
  <2>1. q[1] = r
    BY <1>6, <1>7, <1>8
  <2>2. ASSUME NEW i \in 1..Len(rest) PROVE q[i + 1] = rest[i]
    <3>1. i + 1 \in 1..(1 + Len(rest)) /\ ~(i + 1 <= 1) /\ i + 1 - 1 = i
      BY <1>7
    <3>2. QED
      BY <1>8, <3>1
  <2>3. QED
    BY <2>1, <2>2
<1>10. ASSUME NEW i \in 1..Len(q)
       PROVE  SoundExcerpt(body, q[i]) /\ (Spaced(body) => Fits(body, q[i]))
  <2>1. CASE i = 1
    BY <1>1, <1>9, <2>1 DEF r
  <2>2. CASE i # 1
    <3>1. i - 1 \in 1..Len(rest) /\ i - 1 + 1 = i
      BY <1>7, <1>8, <2>2
    <3>2. q[i] = rest[i - 1]
      BY <1>9, <3>1
    <3>3. QED
      BY <1>3, <3>1, <3>2
  <2>3. QED
    BY <2>1, <2>2
<1>11. ASSUME Spaced(body), NEW j \in start..(final - 1), ~Blank(body, j)
       PROVE  \E i \in 1..Len(q) : j \in q[i].from..(q[i].to - 1)
  <2>1. CASE j \in start..(cut - 1)
    <3>1. j \in r.from..(r.to - 1)
      BY <1>1, <1>11, <2>1 DEF r, cut, final
    <3>2. 1 \in 1..Len(q)
      BY <1>7, <1>8
    <3>3. QED
      BY <1>9, <3>1, <3>2
  <2>2. CASE ~(j \in start..(cut - 1))
    <3>1. PICK i \in 1..Len(rest) : j \in rest[i].from..(rest[i].to - 1)
      BY <1>5, <1>11, <2>2 DEF cut, final
    <3>2. i + 1 \in 1..Len(q) /\ q[i + 1] = rest[i]
      BY <1>7, <1>8, <1>9
    <3>3. QED
      BY <3>1, <3>2
  <2>3. QED
    BY <2>1, <2>2
<1>12. Offers(body, q, start)
  BY <1>8, <1>10, <1>11 DEF Offers, Covers, final
<1>13. QED
  BY <1>12 DEF q, r

LEMMA RangesOffer ==
  ASSUME NEW body, CitedBody(body)
  PROVE  Offers(body, BodyRanges(body), FirstOffset(body))
<1> DEFINE final == FinalOffset(body)
<1>1. PICK g : /\ BodyRanges(body) = g[FirstOffset(body)]
               /\ \A start \in 0..final : g[start] = Turn(body, g, start)
  BY RangesUnfold
<1> DEFINE S == {k \in 0..final : Start(body, k) => Offers(body, g[k], k)}
<1>2. final \in Nat /\ FirstOffset(body) \in Nat /\ FirstOffset(body) < final
  BY TextBounds
<1>3. ASSUME NEW k \in 0..final, \A m \in (k + 1)..final : m \in S
      PROVE  k \in S
  <2> SUFFICES ASSUME Start(body, k) PROVE Offers(body, g[k], k)
    OBVIOUS
  <2> DEFINE cut == Cut(body, k, final)
             next == TrimStartOffset(body, cut, final)
             rest == IF cut = final THEN <<>> ELSE g[next]
  <2>1. k # final /\ k \in 0..(final - 1)
    <3>1. k \in FirstOffset(body)..(final - 1)
      BY DEF Start
    <3> HIDE DEF final
    <3>2. QED
      BY <1>2, <3>1
  <2>2. g[k] = <<RangeFrom(body, k)>> \o rest
    BY <1>1, <2>1 DEF Turn
  <2>3. CASE cut = final
    <3>1. rest = <<>>
      BY <2>3
    <3>2. QED
      BY <2>2, <2>3, <3>1, TurnOffers
  <2>4. CASE cut # final
    <3>1. Start(body, next) /\ next > k
      BY <2>4, NextIsStart
    <3>2. next \in FirstOffset(body)..(final - 1)
      BY <3>1 DEF Start
    <3>3. next \in (k + 1)..final
      <4> HIDE DEF next, final
      <4>1. QED
        BY <1>2, <3>1, <3>2
    <3>4. next \in S
      BY <1>3, <3>3
    <3>5. Offers(body, g[next], next)
      BY <3>1, <3>4
    <3>6. rest = g[next]
      BY <2>4
    <3>7. QED
      BY <2>2, <2>4, <3>5, <3>6, TurnOffers
  <2>5. QED
    BY <2>3, <2>4
<1>4. \A k \in 0..final : k \in S
  <2> HIDE DEF S, final
  <2>1. QED
    BY <1>2, <1>3, DownwardInduction
<1>5. FirstOffset(body) \in 0..final
  <2> HIDE DEF final
  <2>1. QED
    BY <1>2
<1>6. FirstOffset(body) \in S
  BY <1>4, <1>5
<1>7. Offers(body, g[FirstOffset(body)], FirstOffset(body))
  BY <1>6, FirstIsStart
<1>8. QED
  BY <1>1, <1>7

(* A text that fits an excerpt is one.                                      *)
LEMMA ShortText ==
  ASSUME NEW body, CitedBody(body), FinalOffset(body) - FirstOffset(body) <= MaxExcerpt
  PROVE  LET r == [from |-> FirstOffset(body), to |-> FinalOffset(body)]
         IN  BodyRanges(body) = <<r>> /\ Fits(body, r)
<1> DEFINE final == FinalOffset(body)
           first == FirstOffset(body)
           end == TrimEndOffset(body, first, final)
           r == [from |-> first, to |-> final]
<1>1. /\ first \in Nat /\ final \in Nat /\ first < final /\ final <= Len(body)
      /\ final - first >= MinExcerpt /\ final - first <= MaxExcerpt
      /\ ~Blank(body, first) /\ ~Blank(body, final - 1)
  BY TextBounds
<1>2. MinExcerpt \in Nat /\ MaxExcerpt \in Nat
  BY RulesAssumption
<1>3. Cut(body, first, final) = final
  BY <1>1, <1>2 DEF Cut, Least
<1>4. end = final
  <2>1. end \in first..final /\ \A i \in end..(final - 1) : Blank(body, i)
    BY <1>1, TrimmedEnd
  <2> HIDE DEF end, final, first
  <2>2. end < final => final - 1 \in end..(final - 1)
    BY <1>1, <2>1
  <2>3. QED
    BY <1>1, <2>1, <2>2
<1>5. RangeFrom(body, first) = r
  <2>1. ~(end - first < MinExcerpt)
    BY <1>1, <1>2, <1>4
  <2>2. QED
    BY <1>3, <1>4, <2>1 DEF RangeFrom
<1>6. BodyRanges(body) = <<r>>
  <2>1. PICK g : BodyRanges(body) = g[first] /\ \A start \in 0..final : g[start] = Turn(body, g, start)
    BY RangesUnfold
  <2>2. first \in 0..final /\ first # final
    BY <1>1
  <2>3. g[first] = Turn(body, g, first)
    BY <2>1, <2>2
  <2>4. Turn(body, g, first) = <<r>> \o <<>>
    BY <1>3, <1>5, <2>2 DEF Turn
  <2>5. r \in Excerpt
    BY <1>1 DEF Excerpt
  <2> HIDE DEF r
  <2>6. <<r>> \o <<>> = <<r>>
    <3>1. <<r>> \in Seq(Excerpt)
      BY <2>5
    <3>2. QED
      BY <3>1, ConcatEmptySeq
  <2>7. QED
    BY <2>1, <2>3, <2>4, <2>6
<1>7. Fits(body, r)
  <2>1. r.from = first /\ r.to = final
    OBVIOUS
  <2> HIDE DEF r
  <2>2. QED
    BY <1>1, <1>2, <2>1 DEF Fits, IsTrimmed, Blank
<1>8. QED
  BY <1>6, <1>7

(* Any well-formed text that is long enough to cite                         *)
AnyBody == [rule : {"catalog"}, body : {b \in Seq(Unit) : Citable(b)}]

LEMMA TriedBodies == BodyInput \subseteq AnyBody
<1> SUFFICES ASSUME NEW i \in BodyInput PROVE i \in AnyBody
  OBVIOUS
<1>1. PICK b \in UNION {[1..n -> Unit] : n \in 0..BodyBound} :
        i = [rule |-> "catalog", body |-> b] /\ Citable(b)
  BY DEF BodyInput
<1>2. PICK n \in 0..BodyBound : b \in [1..n -> Unit]
  BY <1>1
<1>3. n \in Nat
  BY RulesAssumption
<1>4. b \in Seq(Unit)
  BY <1>2, <1>3
<1>5. QED
  BY <1>1, <1>4 DEF AnyBody

(* bodyRanges, for a citable body of any length, with any runs of blanks,   *)
(* and any limits of excerpts: every excerpt of a catalog that is built     *)
(* passes assertGeneratedEpisode and splits no surrogate pair; a text that  *)
(* fits an excerpt is one; and unless a run of blanks has MaxExcerpt -      *)
(* MinExcerpt units the catalog is built and no text is left out.           *)
THEOREM CatalogOfAnyBody == input \in AnyBody => CatalogIsCitable
<1> SUFFICES ASSUME input \in AnyBody PROVE CatalogIsCitable
  OBVIOUS
<1> DEFINE body == input.body
           ranges == BodyRanges(body)
           first == FirstOffset(body)
           final == FinalOffset(body)
           cited == UNION {ranges[i].from..(ranges[i].to - 1) : i \in 1..Len(ranges)}
<1>1. CitedBody(body)
  BY DEF AnyBody, CitedBody
<1>2. Offers(body, ranges, first)
  BY <1>1, RangesOffer
<1>3. final - first <= MaxExcerpt =>
        ranges = <<[from |-> first, to |-> final]>> /\ Fits(body, [from |-> first, to |-> final])
  BY <1>1, ShortText
<1>4. CatalogBuilt(body) <=> \A i \in 1..Len(ranges) : Fits(body, ranges[i])
  BY <1>1 DEF CatalogBuilt, CitedBody
<1>5. \A i \in 0..(Len(body) - 1) : ~Blank(body, i) => i \in first..(final - 1)
  BY <1>1, TextBounds
<1> HIDE DEF body, ranges, first, final
<1>6. ASSUME CatalogBuilt(body), NEW i \in 1..Len(ranges)
      PROVE  ValidCitation(body, ranges[i]) /\ WellFormed(Slice(body, ranges[i].from, ranges[i].to))
  <2>1. Fits(body, ranges[i]) /\ SoundExcerpt(body, ranges[i])
    BY <1>2, <1>4, <1>6 DEF Offers
  <2>2. ranges[i].from >= 0
    BY <2>1 DEF SoundExcerpt, Excerpt
  <2>3. QED
    BY <2>1, <2>2 DEF SoundExcerpt, Fits, ValidCitation
<1>7. ASSUME final - first <= MaxExcerpt
      PROVE  CatalogBuilt(body) /\ ranges = <<[from |-> first, to |-> final]>>
  <2> DEFINE r == [from |-> first, to |-> final]
  <2>1. ranges = <<r>> /\ Fits(body, r)
    BY <1>3, <1>7
  <2> HIDE DEF r
  <2>2. Len(ranges) = 1 /\ ranges[1] = r
    BY <2>1
  <2>3. QED
    BY <1>4, <2>1, <2>2 DEF r
<1>8. ASSUME Spaced(body)
      PROVE  CatalogBuilt(body) /\ {i \in 0..(Len(body) - 1) : At0(body, i) # "blank"} \subseteq cited
  <2>1. Covers(body, ranges, first)
    BY <1>2, <1>8 DEF Offers
  <2>2. ASSUME NEW i \in 0..(Len(body) - 1), At0(body, i) # "blank"
        PROVE  i \in cited
    <3>1. i \in first..(final - 1) /\ ~Blank(body, i)
      BY <1>5, <2>2 DEF Blank
    <3>2. PICK k \in 1..Len(ranges) : i \in ranges[k].from..(ranges[k].to - 1)
      BY <2>1, <3>1 DEF Covers, final
    <3>3. QED
      BY <3>2
  <2> HIDE DEF cited
  <2>3. QED
    BY <1>4, <2>1, <2>2 DEF Covers
<1> HIDE DEF cited
<1>9. QED
  BY <1>6, <1>7, <1>8 DEF CatalogIsCitable, body, ranges, first, final, cited

-----------------------------------------------------------------------------
(* Sequences of sequences *)

(* g[k] is the concatenation of the first k members of q.                   *)
Joins(q, g, N) ==
  g = [i \in 1..N |-> IF i = 1 THEN q[i] ELSE g[i - 1] \o q[i]]

LEMMA JoinExists ==
  ASSUME NEW q, NEW N \in Nat
  PROVE  \E g : Joins(q, g, N)
<1> DEFINE S == {k \in 0..N : \E g : Joins(q, g, k)}
<1>1. 0 \in S
  <2> DEFINE h == [i \in 1..0 |-> IF i = 1 THEN q[i] ELSE <<>>[i - 1] \o q[i]]
  <2>1. Joins(q, h, 0)
    BY DEF Joins
  <2>2. QED
    BY <2>1
<1>2. ASSUME NEW k \in 1..N, k - 1 \in S
      PROVE  k \in S
  <2>1. PICK g : Joins(q, g, k - 1)
    BY <1>2
  <2> DEFINE h == [i \in 1..k |-> IF i = 1 THEN q[i] ELSE g[i - 1] \o q[i]]
  <2>2. ASSUME NEW i \in 1..(k - 1) PROVE h[i] = g[i]
    <3>1. g[i] = IF i = 1 THEN q[i] ELSE g[i - 1] \o q[i]
      BY <2>1 DEF Joins
    <3>2. i \in 1..k
      OBVIOUS
    <3>3. QED
      BY <3>1, <3>2
  <2>3. h = [i \in 1..k |-> IF i = 1 THEN q[i] ELSE h[i - 1] \o q[i]]
    <3>1. ASSUME NEW i \in 1..k, i # 1 PROVE h[i - 1] = g[i - 1]
      <4>1. i - 1 \in 1..(k - 1)
        BY <3>1
      <4> HIDE DEF h
      <4>2. QED
        BY <2>2, <4>1
    <3>2. QED
      BY <3>1
  <2>4. Joins(q, h, k)
    <3> HIDE DEF h
    <3>1. QED
      BY <2>3 DEF Joins
  <2>5. QED
    BY <2>4
<1>3. N \in S
  <2> HIDE DEF S
  <2>1. \A k \in 0..N : k \in S
    BY <1>1, <1>2, UpwardInduction
  <2>2. QED
    BY <2>1
<1>4. QED
  BY <1>3

LEMMA FlattenUnfolds ==
  ASSUME NEW q, Len(q) \in Nat \ {0}
  PROVE  \E g : /\ FlattenSeq(q) = g[Len(q)]
                /\ g[1] = q[1]
                /\ \A i \in 2..Len(q) : g[i] = g[i - 1] \o q[i]
<1> DEFINE G == CHOOSE g : g = [i \in 1..Len(q) |-> IF i = 1 THEN q[i] ELSE g[i - 1] \o q[i]]
<1>1. G = [i \in 1..Len(q) |-> IF i = 1 THEN q[i] ELSE G[i - 1] \o q[i]]
  BY JoinExists DEF Joins
<1>2. FlattenSeq(q) = G[Len(q)]
  BY DEF FlattenSeq
<1> HIDE DEF G
<1>3. G[1] = q[1]
  <2>1. 1 \in 1..Len(q)
    OBVIOUS
  <2>2. \A i \in 1..Len(q) : G[i] = IF i = 1 THEN q[i] ELSE G[i - 1] \o q[i]
    BY <1>1
  <2>3. QED
    BY <2>1, <2>2
<1>4. ASSUME NEW i \in 2..Len(q) PROVE G[i] = G[i - 1] \o q[i]
  <2>1. i \in 1..Len(q) /\ i # 1
    OBVIOUS
  <2>2. \A j \in 1..Len(q) : G[j] = IF j = 1 THEN q[j] ELSE G[j - 1] \o q[j]
    BY <1>1
  <2>3. G[i] = IF i = 1 THEN q[i] ELSE G[i - 1] \o q[i]
    BY <2>1, <2>2
  <2>4. QED
    BY <2>1, <2>3
<1>5. QED
  BY <1>2, <1>3, <1>4

LEMMA FlattenAppend ==
  ASSUME NEW A, NEW q \in Seq(Seq(A)), NEW x \in Seq(A)
  PROVE  FlattenSeq(Append(q, x)) = FlattenSeq(q) \o x
<1> DEFINE r == Append(q, x)
           N == Len(q)
<1>1. N \in Nat /\ Len(r) = N + 1 /\ (\A i \in 1..N : r[i] = q[i]) /\ r[N + 1] = x
  BY AppendProperties, LenProperties
<1> HIDE DEF r, N
<1>2. PICK h : /\ FlattenSeq(r) = h[Len(r)] /\ h[1] = r[1]
               /\ \A i \in 2..Len(r) : h[i] = h[i - 1] \o r[i]
  <2>1. Len(r) \in Nat \ {0}
    BY <1>1
  <2>2. QED
    BY <2>1, FlattenUnfolds
<1>3. CASE N = 0
  <2>1. FlattenSeq(r) = x
    BY <1>1, <1>2, <1>3
  <2>2. FlattenSeq(q) = <<>>
    <3>1. Len(q) = 0 /\ q = <<>>
      BY <1>3, EmptySeq DEF N
    <3>2. QED
      BY <3>1 DEF FlattenSeq
  <2>3. QED
    BY <2>1, <2>2, ConcatEmptySeq DEF r
<1>4. CASE N # 0
  <2>1. PICK g : /\ FlattenSeq(q) = g[N] /\ g[1] = q[1]
                 /\ \A i \in 2..N : g[i] = g[i - 1] \o q[i]
    <3>1. Len(q) \in Nat \ {0}
      BY <1>1, <1>4 DEF N
    <3>2. QED
      BY <3>1, FlattenUnfolds DEF N
  <2> DEFINE S == {k \in 0..N : k # 0 => g[k] = h[k]}
  <2>2. 0 \in S
    BY <1>1
  <2>3. ASSUME NEW k \in 1..N, k - 1 \in S
        PROVE  k \in S
    <3>1. CASE k = 1
      <4>1. g[1] = h[1]
        BY <1>1, <1>2, <1>4, <2>1
      <4>2. QED
        BY <1>1, <3>1, <4>1
    <3>2. CASE k # 1
      <4>1. k \in 2..N /\ k \in 2..Len(r) /\ k - 1 # 0
        BY <1>1, <3>2
      <4>2. g[k - 1] = h[k - 1] /\ q[k] = r[k]
        BY <1>1, <2>3, <4>1
      <4>3. g[k] = h[k]
        BY <1>2, <2>1, <4>1, <4>2
      <4>4. QED
        BY <1>1, <4>3
    <3>3. QED
      BY <3>1, <3>2
  <2>4. N \in S
    <3> HIDE DEF S
    <3>1. \A k \in 0..N : k \in S
      BY <1>1, <2>2, <2>3, UpwardInduction
    <3>2. QED
      BY <1>1, <3>1
  <2>5. g[N] = h[N]
    BY <1>4, <2>4
  <2>6. N + 1 \in 2..Len(r) /\ N + 1 - 1 = N
    BY <1>1, <1>4
  <2>7. h[N + 1] = h[N] \o x
    <3>1. PICK k : k = N + 1
      OBVIOUS
    <3>2. k \in 2..Len(r) /\ k - 1 = N
      BY <1>1, <2>6, <3>1
    <3>3. h[k] = h[k - 1] \o r[k]
      BY <1>2, <3>2
    <3>4. h[k - 1] = h[N] /\ r[k] = x
      BY <1>1, <3>1, <3>2
    <3>5. QED
      BY <3>1, <3>3, <3>4
  <2>8. QED
    BY <1>1, <1>2, <2>1, <2>5, <2>7 DEF r
<1>5. QED
  BY <1>3, <1>4

LEMMA FlattenEmpty == FlattenSeq(<<>>) = <<>>
BY DEF FlattenSeq

-----------------------------------------------------------------------------
(* References *)

Entry == [snapshot : Nat, excerpt : Nat]

EntriesOf(evidence, s) == [e \in 1..evidence[s] |-> [snapshot |-> s, excerpt |-> e]]
RowsUpTo(evidence, k)  == [s \in 1..k |-> EntriesOf(evidence, s)]

(* The catalog of the first k rows has each of their excerpts once. *)
Lists(evidence, catalog, k) ==
  /\ catalog \in Seq(Entry)
  /\ \A n \in 1..Len(catalog) :
       catalog[n].snapshot \in 1..k /\ catalog[n].excerpt \in 1..evidence[catalog[n].snapshot]
  /\ \A s \in 1..k : \A e \in 1..evidence[s] :
       \E n \in 1..Len(catalog) : catalog[n] = [snapshot |-> s, excerpt |-> e]
  /\ \A m, n \in 1..Len(catalog) : catalog[m] = catalog[n] => m = n

LEMMA EntriesAreSequences ==
  ASSUME NEW evidence, NEW s \in Nat, evidence[s] \in Nat
  PROVE  /\ EntriesOf(evidence, s) \in Seq(Entry)
         /\ Len(EntriesOf(evidence, s)) = evidence[s]
         /\ \A e \in 1..evidence[s] : /\ EntriesOf(evidence, s)[e] = [snapshot |-> s, excerpt |-> e]
                                      /\ EntriesOf(evidence, s)[e].snapshot = s
                                      /\ EntriesOf(evidence, s)[e].excerpt = e
<1>1. \A e \in 1..evidence[s] : [snapshot |-> s, excerpt |-> e] \in Entry
  BY DEF Entry
<1>2. QED
  BY <1>1 DEF EntriesOf

LEMMA RowsGrow ==
  ASSUME NEW evidence, NEW k \in Nat \ {0}, \A s \in 1..k : evidence[s] \in Nat
  PROVE  /\ RowsUpTo(evidence, k - 1) \in Seq(Seq(Entry))
         /\ RowsUpTo(evidence, k) = Append(RowsUpTo(evidence, k - 1), EntriesOf(evidence, k))
<1>1. \A s \in 1..k : EntriesOf(evidence, s) \in Seq(Entry)
  BY EntriesAreSequences
<1> DEFINE short == RowsUpTo(evidence, k - 1)
           long == RowsUpTo(evidence, k)
           more == Append(short, EntriesOf(evidence, k))
<1>2. short \in Seq(Seq(Entry)) /\ Len(short) = k - 1 /\ \A s \in 1..(k - 1) : short[s] = EntriesOf(evidence, s)
  BY <1>1 DEF RowsUpTo
<1>3. long \in Seq(Seq(Entry)) /\ Len(long) = k /\ \A s \in 1..k : long[s] = EntriesOf(evidence, s)
  BY <1>1 DEF RowsUpTo
<1> HIDE DEF short, long
<1>4. EntriesOf(evidence, k) \in Seq(Entry)
  BY <1>1
<1>5. /\ more \in Seq(Seq(Entry)) /\ Len(more) = k
      /\ (\A s \in 1..(k - 1) : more[s] = short[s]) /\ more[k] = EntriesOf(evidence, k)
  <2>1. /\ more \in Seq(Seq(Entry)) /\ Len(more) = Len(short) + 1
        /\ (\A s \in 1..Len(short) : more[s] = short[s]) /\ more[Len(short) + 1] = EntriesOf(evidence, k)
    BY <1>2, <1>4, AppendProperties
  <2> HIDE DEF more
  <2>2. Len(short) + 1 = k
    BY <1>2
  <2>3. QED
    BY <1>2, <2>1, <2>2
<1> HIDE DEF more
<1>6. ASSUME NEW s \in 1..k PROVE more[s] = long[s]
  <2>1. CASE s \in 1..(k - 1)
    <3>1. more[s] = short[s] /\ short[s] = EntriesOf(evidence, s)
      BY <1>2, <1>5, <2>1
    <3>2. QED
      BY <1>3, <3>1
  <2>2. CASE s = k
    <3>1. long[s] = EntriesOf(evidence, s)
      BY <1>3
    <3>2. QED
      BY <1>5, <2>2, <3>1
  <2>3. QED
    BY <2>1, <2>2
<1>7. more = long
  BY <1>3, <1>5, <1>6, SeqEqual
<1>8. QED
  BY <1>2, <1>7 DEF short, long, more

LEMMA ListsGrow ==
  ASSUME NEW evidence, NEW k \in Nat \ {0}, evidence[k] \in Nat,
         NEW catalog, Lists(evidence, catalog, k - 1)
  PROVE  Lists(evidence, catalog \o EntriesOf(evidence, k), k)
<1> DEFINE row == EntriesOf(evidence, k)
           more == catalog \o row
           N == Len(catalog)
           M == evidence[k]
<1>1. /\ row \in Seq(Entry) /\ Len(row) = M /\ M \in Nat
      /\ \A e \in 1..M : row[e] = [snapshot |-> k, excerpt |-> e] /\ row[e].snapshot = k /\ row[e].excerpt = e
  BY EntriesAreSequences
<1>2. catalog \in Seq(Entry) /\ N \in Nat
  BY LenProperties DEF Lists
<1> HIDE DEF row
<1>3. /\ more \in Seq(Entry) /\ Len(more) = N + M
      /\ \A i \in 1..(N + M) : more[i] = IF i <= N THEN catalog[i] ELSE row[i - N]
  BY <1>1, <1>2, ConcatProperties
<1> HIDE DEF more, N, M
<1>4. ASSUME NEW n \in 1..(N + M)
      PROVE  \/ n \in 1..N /\ more[n] = catalog[n]
             \/ n - N \in 1..M /\ more[n] = row[n - N]
  BY <1>1, <1>2, <1>3, <1>4
<1>5. \A n \in 1..N : n \in 1..(N + M) /\ more[n] = catalog[n]
  BY <1>1, <1>2, <1>3
<1>6. ASSUME NEW e \in 1..M PROVE \E n \in 1..(N + M) : more[n] = row[e]
  <2>1. N + e \in 1..(N + M) /\ ~(N + e <= N) /\ N + e - N = e
    BY <1>1, <1>2
  <2>2. PICK n : n = N + e
    OBVIOUS
  <2>3. n \in 1..(N + M) /\ ~(n <= N) /\ n - N = e
    BY <1>1, <1>2, <2>1, <2>2
  <2>4. more[n] = IF n <= N THEN catalog[n] ELSE row[n - N]
    BY <1>3, <2>3
  <2>5. more[n] = row[n - N]
    BY <2>3, <2>4
  <2>6. row[n - N] = row[e]
    BY <2>3
  <2>7. QED
    BY <2>3, <2>5, <2>6
<1>7. \A n \in 1..N : catalog[n].snapshot \in 1..(k - 1) /\ catalog[n].excerpt \in 1..evidence[catalog[n].snapshot]
  BY DEF Lists, N
<1>8. ASSUME NEW n \in 1..(N + M)
      PROVE  more[n].snapshot \in 1..k /\ more[n].excerpt \in 1..evidence[more[n].snapshot]
  <2>1. CASE n \in 1..N /\ more[n] = catalog[n]
    BY <1>7, <2>1
  <2>2. CASE n - N \in 1..M /\ more[n] = row[n - N]
    <3>1. row[n - N].snapshot = k /\ row[n - N].excerpt = n - N
      BY <1>1, <2>2
    <3>2. more[n].snapshot = k /\ more[n].excerpt = n - N
      BY <2>2, <3>1
    <3>3. evidence[more[n].snapshot] = M
      BY <3>2 DEF M
    <3>4. more[n].excerpt \in 1..M /\ k \in 1..k
      BY <2>2, <3>2
    <3>5. QED
      BY <3>2, <3>3, <3>4
  <2>3. QED
    BY <1>4, <2>1, <2>2
<1>9. ASSUME NEW s \in 1..k, NEW e \in 1..evidence[s]
      PROVE  \E n \in 1..(N + M) : more[n] = [snapshot |-> s, excerpt |-> e]
  <2>1. CASE s = k
    BY <1>1, <1>6, <2>1 DEF M
  <2>2. CASE s # k
    <3>1. s \in 1..(k - 1)
      BY <2>2
    <3>2. PICK n \in 1..N : catalog[n] = [snapshot |-> s, excerpt |-> e]
      BY <3>1 DEF Lists, N
    <3>3. QED
      BY <1>5, <3>2
  <2>3. QED
    BY <2>1, <2>2
<1>10. ASSUME NEW m \in 1..(N + M), NEW n \in 1..(N + M), more[m] = more[n]
       PROVE  m = n
  <2>1. CASE m \in 1..N /\ n \in 1..N
    <3>1. catalog[m] = catalog[n]
      BY <1>5, <1>10, <2>1
    <3>2. QED
      BY <2>1, <3>1 DEF Lists, N
  <2>2. CASE m - N \in 1..M /\ n - N \in 1..M /\ more[m] = row[m - N] /\ more[n] = row[n - N]
    <3>1. row[m - N].excerpt = m - N /\ row[n - N].excerpt = n - N
      BY <1>1, <2>2
    <3>2. m - N = n - N
      BY <1>10, <2>2, <3>1
    <3>3. QED
      BY <1>2, <3>2
  <2>3. CASE m \in 1..N /\ n - N \in 1..M /\ more[n] = row[n - N]
    <3>1. more[m].snapshot \in 1..(k - 1) /\ more[n].snapshot = k
      BY <1>1, <1>5, <1>7, <2>3
    <3>2. QED
      BY <1>10, <3>1
  <2>4. CASE n \in 1..N /\ m - N \in 1..M /\ more[m] = row[m - N]
    <3>1. more[n].snapshot \in 1..(k - 1) /\ more[m].snapshot = k
      BY <1>1, <1>5, <1>7, <2>4
    <3>2. QED
      BY <1>10, <3>1
  <2>5. QED
    BY <1>4, <2>1, <2>2, <2>3, <2>4
<1>11. Lists(evidence, more, k)
  BY <1>3, <1>8, <1>9, <1>10 DEF Lists
<1>12. QED
  BY <1>11 DEF more, row

LEMMA CatalogLists ==
  ASSUME NEW evidence \in Seq(Nat)
  PROVE  Lists(evidence, BuildEvidenceCatalog(evidence), Len(evidence))
<1> DEFINE N == Len(evidence)
           catalog(k) == FlattenSeq(RowsUpTo(evidence, k))
           S == {k \in 0..N : Lists(evidence, catalog(k), k)}
<1>1. N \in Nat /\ \A s \in 1..N : evidence[s] \in Nat
  BY LenProperties, ElementOfSeq
<1>2. 0 \in S
  <2>1. RowsUpTo(evidence, 0) = <<>>
    BY DEF RowsUpTo
  <2>2. catalog(0) = <<>>
    BY <2>1, FlattenEmpty
  <2>3. Lists(evidence, <<>>, 0)
    BY DEF Lists
  <2>4. QED
    BY <1>1, <2>2, <2>3
<1>3. ASSUME NEW k \in 1..N, k - 1 \in S
      PROVE  k \in S
  <2>1. \A s \in 1..k : evidence[s] \in Nat
    BY <1>1
  <2>2. k \in Nat \ {0} /\ k \in 0..N
    OBVIOUS
  <2>3. Lists(evidence, catalog(k - 1), k - 1)
    BY <1>3
  <2>4. /\ RowsUpTo(evidence, k - 1) \in Seq(Seq(Entry))
        /\ RowsUpTo(evidence, k) = Append(RowsUpTo(evidence, k - 1), EntriesOf(evidence, k))
    BY <2>1, <2>2, RowsGrow
  <2>5. EntriesOf(evidence, k) \in Seq(Entry)
    BY <2>1, <2>2, EntriesAreSequences
  <2>6. catalog(k) = catalog(k - 1) \o EntriesOf(evidence, k)
    BY <2>4, <2>5, FlattenAppend
  <2>7. Lists(evidence, catalog(k), k)
    BY <2>1, <2>2, <2>3, <2>6, ListsGrow
  <2>8. QED
    BY <2>2, <2>7
<1>4. N \in S
  <2> HIDE DEF S
  <2>1. \A k \in 0..N : k \in S
    BY <1>1, <1>2, <1>3, UpwardInduction
  <2>2. QED
    BY <1>1, <2>1
<1>5. BuildEvidenceCatalog(evidence) = catalog(N)
  BY DEF BuildEvidenceCatalog, RowsUpTo, EntriesOf
<1>6. QED
  BY <1>4, <1>5

(* Rows of any numbers of excerpts, and any selection of references.        *)
AnyReferences == [rule : {"references"}, evidence : Seq(Nat), references : Seq(Nat)]

(* buildEvidenceCatalog, episodeDraftSchema, resolveEvidenceReferences and  *)
(* assertGeneratedEpisode, for any evidence: each excerpt has exactly one   *)
(* reference, and a draft's references are allowed if and only if the       *)
(* citations they resolve to are valid.                                     *)
THEOREM ReferencesOfAnyEvidence == input \in AnyReferences => ReferencesResolve
<1> SUFFICES ASSUME input \in AnyReferences PROVE ReferencesResolve
  OBVIOUS
<1> DEFINE evidence == input.evidence
           references == input.references
           catalog == BuildEvidenceCatalog(evidence)
           citations == ResolveEvidenceReferences(catalog, references)
<1>1. evidence \in Seq(Nat) /\ references \in Seq(Nat) /\ MaxCitations \in Nat
  BY RulesAssumption DEF AnyReferences
<1>2. Lists(evidence, catalog, Len(evidence))
  BY <1>1, CatalogLists
<1>3. Len(references) \in Nat /\ Len(citations) = Len(references)
      /\ \A i \in 1..Len(references) : citations[i] = catalog[references[i]]
  BY <1>1, LenProperties DEF ResolveEvidenceReferences
<1> HIDE DEF evidence, references, catalog, citations
<1>4. ASSUME \A i \in 1..Len(references) : references[i] \in 1..Len(catalog)
      PROVE  \A i \in 1..Len(references) :
               /\ citations[i].snapshot \in 1..Len(evidence)
               /\ citations[i].excerpt \in 1..evidence[citations[i].snapshot]
  BY <1>2, <1>3, <1>4 DEF Lists
<1>5. ASSUME Resolvable(catalog, references)
      PROVE  ValidCitations(evidence, citations)
  <2>1. \A i \in 1..Len(references) : references[i] \in 1..Len(catalog)
    BY <1>5 DEF Resolvable
  <2>2. \A i, j \in 1..Len(citations) : i < j => citations[i].snapshot # citations[j].snapshot
    BY <1>3, <1>5 DEF Resolvable, RepeatsSnapshot
  <2>3. Len(citations) \in 1..MaxCitations
    BY <1>3, <1>5 DEF Resolvable
  <2>4. QED
    BY <1>3, <1>4, <2>1, <2>2, <2>3 DEF ValidCitations
<1>6. ASSUME \A i \in 1..Len(references) : references[i] \in 1..Len(catalog),
             ValidCitations(evidence, citations)
      PROVE  Resolvable(catalog, references)
  <2>1. ~RepeatsSnapshot(catalog, references)
    BY <1>3, <1>6 DEF ValidCitations, RepeatsSnapshot
  <2>2. QED
    BY <1>3, <1>6, <2>1 DEF ValidCitations, Resolvable
<1>7. /\ \A s \in 1..Len(evidence) : \A e \in 1..evidence[s] :
           \E n \in 1..Len(catalog) : catalog[n] = [snapshot |-> s, excerpt |-> e]
      /\ \A m, n \in 1..Len(catalog) : catalog[m] = catalog[n] => m = n
  BY <1>2 DEF Lists
<1>8. QED
  BY <1>5, <1>6, <1>7 DEF ReferencesResolve, evidence, references, catalog, citations

-----------------------------------------------------------------------------
(* Folds: FoldLeft picks a function on all sets of indices; on 1..k it is   *)
(* the fold of the first k elements.                                        *)

LEMMA GreatestIndex ==
  ASSUME NEW n \in Nat, NEW t \in SUBSET (1..n), t # {}
  PROVE  Max(t) \in t /\ t \ {Max(t)} \in SUBSET (1..(n - 1))
<1>1. \E m \in t : \A i \in t : m >= i
  <2>1. t \in SUBSET (0..n)
    OBVIOUS
  <2>2. PICK m \in t : \A i \in t : i <= m
    BY <2>1, GreatestElement
  <2>3. \A i \in t : m >= i
    BY <2>2
  <2>4. QED
    BY <2>3
<1>2. Max(t) \in t /\ \A i \in t : Max(t) >= i
  BY <1>1 DEF Max
<1>3. PICK m \in 1..n : m = Max(t)
  BY <1>2
<1>4. ASSUME NEW i \in t \ {m} PROVE i \in 1..(n - 1)
  BY <1>2, <1>3
<1>5. QED
  BY <1>2, <1>3, <1>4

LEMMA GreatestOfInterval ==
  ASSUME NEW k \in Nat \ {0}
  PROVE  Max(1..k) = k /\ (1..k) \ {k} = 1..(k - 1)
<1>1. k \in 1..k /\ \A i \in 1..k : k >= i
  OBVIOUS
<1>2. Max(1..k) \in 1..k /\ \A i \in 1..k : Max(1..k) >= i
  BY <1>1 DEF Max
<1>3. Max(1..k) = k
  BY <1>1, <1>2
<1>4. (1..k) \ {k} = 1..(k - 1)
  OBVIOUS
<1>5. QED
  BY <1>3, <1>4

(* One turn of the fold of +, over the indices t.                           *)
SumTurn(s, g, t) == IF t = {} THEN 0 ELSE LET x == Max(t) IN g[t \ {x}] + s[x]

LEMMA SumExists ==
  ASSUME NEW s, NEW n \in Nat
  PROVE  \E g : g = [t \in SUBSET (1..n) |-> SumTurn(s, g, t)]
<1> DEFINE Solves(g, k) == g = [t \in SUBSET (1..k) |-> SumTurn(s, g, t)]
           S == {k \in 0..n : \E g : Solves(g, k)}
<1>1. 0 \in S
  <2> DEFINE h == [t \in SUBSET (1..0) |-> 0]
  <2>1. \A t \in SUBSET (1..0) : SumTurn(s, h, t) = 0
    BY DEF SumTurn
  <2>2. Solves(h, 0)
    BY <2>1
  <2>3. \E g : Solves(g, 0)
    <3> HIDE DEF h
    <3>1. QED
      BY <2>2
  <2>4. QED
    BY <2>3
<1>2. ASSUME NEW k \in 1..n, k - 1 \in S
      PROVE  k \in S
  <2>1. PICK g : Solves(g, k - 1)
    BY <1>2
  <2> DEFINE h == [t \in SUBSET (1..k) |-> SumTurn(s, g, t)]
  <2>2. ASSUME NEW t \in SUBSET (1..(k - 1)) PROVE h[t] = g[t]
    <3>1. t \in SUBSET (1..k)
      OBVIOUS
    <3>2. g[t] = SumTurn(s, g, t)
      BY <2>1
    <3>3. QED
      BY <3>1, <3>2
  <2>3. ASSUME NEW t \in SUBSET (1..k) PROVE SumTurn(s, g, t) = SumTurn(s, h, t)
    <3>1. CASE t = {}
      BY <3>1 DEF SumTurn
    <3>2. CASE t # {}
      <4>1. t \ {Max(t)} \in SUBSET (1..(k - 1))
        <5>1. k \in Nat
          OBVIOUS
        <5>2. QED
          BY <3>2, <5>1, GreatestIndex
      <4> HIDE DEF h
      <4>2. h[t \ {Max(t)}] = g[t \ {Max(t)}]
        BY <2>2, <4>1
      <4>3. QED
        BY <3>2, <4>2 DEF SumTurn
    <3>3. QED
      BY <3>1, <3>2
  <2>4. Solves(h, k)
    BY <2>3
  <2>5. \E f : Solves(f, k)
    <3> HIDE DEF h
    <3>1. QED
      BY <2>4
  <2>6. QED
    BY <2>5
<1>3. n \in S
  <2> HIDE DEF S
  <2>1. \A k \in 0..n : k \in S
    BY <1>1, <1>2, UpwardInduction
  <2>2. QED
    BY <2>1
<1>4. QED
  BY <1>3

SumOf(s) == FoldLeft(LAMBDA a, b : a + b, 0, s)

LEMMA SumUnfolds ==
  ASSUME NEW s, NEW n \in Nat, DOMAIN s = 1..n
  PROVE  \E g : /\ SumOf(s) = g[n]
                /\ g[0] = 0
                /\ \A k \in 1..n : g[k] = g[k - 1] + s[k]
<1> DEFINE iter == CHOOSE g : g = [t \in SUBSET (1..n) |-> SumTurn(s, g, t)]
<1>1. iter = [t \in SUBSET (1..n) |-> SumTurn(s, iter, t)]
  BY SumExists
<1>2. SumOf(s) = iter[1..n]
  BY DEF SumOf, FoldLeft, MapThenFoldSet, SumTurn
<1> HIDE DEF iter
<1>3. \A t \in SUBSET (1..n) : iter[t] = SumTurn(s, iter, t)
  BY <1>1
<1> DEFINE g == [k \in 0..n |-> iter[1..k]]
<1>4. g[0] = 0
  BY <1>3 DEF SumTurn
<1>5. ASSUME NEW k \in 1..n PROVE g[k] = g[k - 1] + s[k]
  <2>1. 1..k \in SUBSET (1..n) /\ 1..k # {} /\ k \in Nat \ {0}
    OBVIOUS
  <2>2. Max(1..k) = k /\ (1..k) \ {k} = 1..(k - 1)
    BY <2>1, GreatestOfInterval
  <2>3. iter[1..k] = iter[1..(k - 1)] + s[k]
    BY <1>3, <2>1, <2>2 DEF SumTurn
  <2>4. k \in 0..n /\ k - 1 \in 0..n
    OBVIOUS
  <2>5. QED
    BY <2>3, <2>4
<1>6. SumOf(s) = g[n]
  BY <1>2
<1> HIDE DEF g
<1>7. QED
  BY <1>4, <1>5, <1>6

LEMMA SumOfNumbers ==
  ASSUME NEW s \in Seq(Int)
  PROVE  SumOf(s) \in Int
<1> DEFINE n == Len(s)
<1>1. n \in Nat /\ DOMAIN s = 1..n
  BY LenProperties
<1>8. \A k \in 1..n : s[k] \in Int
  OBVIOUS
<1> HIDE DEF n
<1>2. PICK g : /\ SumOf(s) = g[n] /\ g[0] = 0
               /\ \A k \in 1..n : g[k] = g[k - 1] + s[k]
  BY <1>1, SumUnfolds
<1> DEFINE S == {k \in 0..n : g[k] \in Int}
<1>3. 0 \in S
  BY <1>1, <1>2
<1>4. ASSUME NEW k \in 1..n, k - 1 \in S PROVE k \in S
  <2>1. g[k - 1] \in Int /\ s[k] \in Int /\ g[k] = g[k - 1] + s[k]
    BY <1>2, <1>4, <1>8
  <2>2. QED
    BY <1>1, <2>1
<1> HIDE DEF S
<1>5. \A k \in 0..n : k \in S
  BY <1>1, <1>3, <1>4, UpwardInduction
<1>6. n \in S
  BY <1>1, <1>5
<1>7. QED
  BY <1>2, <1>6 DEF S

LEMMA SumAppend ==
  ASSUME NEW s \in Seq(Int), NEW x \in Int
  PROVE  SumOf(Append(s, x)) = SumOf(s) + x
<1> DEFINE r == Append(s, x)
           n == Len(s)
<1>1. /\ n \in Nat /\ DOMAIN s = 1..n /\ DOMAIN r = 1..(n + 1)
      /\ (\A k \in 1..n : r[k] = s[k]) /\ r[n + 1] = x
  BY AppendProperties, LenProperties
<1> HIDE DEF r, n
<1>2. PICK g : /\ SumOf(s) = g[n] /\ g[0] = 0
               /\ \A k \in 1..n : g[k] = g[k - 1] + s[k]
  BY <1>1, SumUnfolds
<1>3. PICK h : /\ SumOf(r) = h[n + 1] /\ h[0] = 0
               /\ \A k \in 1..(n + 1) : h[k] = h[k - 1] + r[k]
  <2>1. n + 1 \in Nat
    BY <1>1
  <2>2. QED
    BY <1>1, <2>1, SumUnfolds
<1> DEFINE S == {k \in 0..n : g[k] = h[k]}
<1>4. 0 \in S
  BY <1>1, <1>2, <1>3
<1>5. ASSUME NEW k \in 1..n, k - 1 \in S PROVE k \in S
  <2>1. k \in 1..(n + 1) /\ k \in 0..n
    BY <1>1
  <2>2. g[k - 1] = h[k - 1] /\ r[k] = s[k]
    BY <1>1, <1>5
  <2>3. g[k] = g[k - 1] + s[k] /\ h[k] = h[k - 1] + r[k]
    BY <1>2, <1>3, <2>1
  <2>4. QED
    BY <2>1, <2>2, <2>3
<1> HIDE DEF S
<1>6. \A k \in 0..n : k \in S
  BY <1>1, <1>4, <1>5, UpwardInduction
<1>7. g[n] = h[n]
  BY <1>1, <1>6 DEF S
<1>8. h[n + 1] = h[n] + x
  <2>1. PICK k : k = n + 1
    OBVIOUS
  <2>2. k \in 1..(n + 1) /\ k - 1 = n
    BY <1>1, <2>1
  <2>3. h[k] = h[k - 1] + r[k]
    BY <1>3, <2>2
  <2>4. h[k - 1] = h[n] /\ r[k] = x
    BY <1>1, <2>1, <2>2
  <2>5. QED
    BY <2>1, <2>3, <2>4
<1>9. QED
  BY <1>2, <1>3, <1>7, <1>8 DEF r

LEMMA SumEmpty == SumOf(<<>>) = 0
<1>1. DOMAIN <<>> = 1..0
  OBVIOUS
<1>2. QED
  BY <1>1, SumUnfolds

(* One turn of the fold of AddSegment.                                      *)
ChunksTurn(s, g, t) == IF t = {} THEN <<>> ELSE LET x == Max(t) IN AddSegment(g[t \ {x}], s[x])

LEMMA ChunksExist ==
  ASSUME NEW s, NEW n \in Nat
  PROVE  \E g : g = [t \in SUBSET (1..n) |-> ChunksTurn(s, g, t)]
<1> DEFINE Solves(g, k) == g = [t \in SUBSET (1..k) |-> ChunksTurn(s, g, t)]
           S == {k \in 0..n : \E g : Solves(g, k)}
<1>1. 0 \in S
  <2> DEFINE h == [t \in SUBSET (1..0) |-> <<>>]
  <2>1. \A t \in SUBSET (1..0) : ChunksTurn(s, h, t) = <<>>
    BY DEF ChunksTurn
  <2>2. Solves(h, 0)
    BY <2>1
  <2>3. \E g : Solves(g, 0)
    <3> HIDE DEF h
    <3>1. QED
      BY <2>2
  <2>4. QED
    BY <2>3
<1>2. ASSUME NEW k \in 1..n, k - 1 \in S
      PROVE  k \in S
  <2>1. PICK g : Solves(g, k - 1)
    BY <1>2
  <2> DEFINE h == [t \in SUBSET (1..k) |-> ChunksTurn(s, g, t)]
  <2>2. ASSUME NEW t \in SUBSET (1..(k - 1)) PROVE h[t] = g[t]
    <3>1. t \in SUBSET (1..k)
      OBVIOUS
    <3>2. g[t] = ChunksTurn(s, g, t)
      BY <2>1
    <3>3. QED
      BY <3>1, <3>2
  <2>3. ASSUME NEW t \in SUBSET (1..k) PROVE ChunksTurn(s, g, t) = ChunksTurn(s, h, t)
    <3>1. CASE t = {}
      BY <3>1 DEF ChunksTurn
    <3>2. CASE t # {}
      <4>1. t \ {Max(t)} \in SUBSET (1..(k - 1))
        <5>1. k \in Nat
          OBVIOUS
        <5>2. QED
          BY <3>2, <5>1, GreatestIndex
      <4> HIDE DEF h
      <4>2. h[t \ {Max(t)}] = g[t \ {Max(t)}]
        BY <2>2, <4>1
      <4>3. QED
        BY <3>2, <4>2 DEF ChunksTurn
    <3>3. QED
      BY <3>1, <3>2
  <2>4. Solves(h, k)
    BY <2>3
  <2>5. \E f : Solves(f, k)
    <3> HIDE DEF h
    <3>1. QED
      BY <2>4
  <2>6. QED
    BY <2>5
<1>3. n \in S
  <2> HIDE DEF S
  <2>1. \A k \in 0..n : k \in S
    BY <1>1, <1>2, UpwardInduction
  <2>2. QED
    BY <2>1
<1>4. QED
  BY <1>3

LEMMA ChunksUnfold ==
  ASSUME NEW s, NEW n \in Nat, DOMAIN s = 1..n
  PROVE  \E g : /\ SplitScriptForSpeech(s) = g[n]
                /\ g[0] = <<>>
                /\ \A k \in 1..n : g[k] = AddSegment(g[k - 1], s[k])
<1> DEFINE iter == CHOOSE g : g = [t \in SUBSET (1..n) |-> ChunksTurn(s, g, t)]
<1>1. iter = [t \in SUBSET (1..n) |-> ChunksTurn(s, iter, t)]
  BY ChunksExist
<1>2. SplitScriptForSpeech(s) = iter[1..n]
  BY DEF SplitScriptForSpeech, FoldLeft, MapThenFoldSet, ChunksTurn
<1> HIDE DEF iter
<1>3. \A t \in SUBSET (1..n) : iter[t] = ChunksTurn(s, iter, t)
  BY <1>1
<1> DEFINE g == [k \in 0..n |-> iter[1..k]]
<1>4. g[0] = <<>>
  <2>1. 1..0 = {} /\ {} \in SUBSET (1..n) /\ 0 \in 0..n
    OBVIOUS
  <2>2. iter[{}] = <<>>
    BY <1>3, <2>1 DEF ChunksTurn
  <2>3. g[0] = iter[{}]
    BY <2>1
  <2>4. QED
    BY <2>2, <2>3
<1>5. ASSUME NEW k \in 1..n PROVE g[k] = AddSegment(g[k - 1], s[k])
  <2>1. 1..k \in SUBSET (1..n) /\ 1..k # {} /\ k \in Nat \ {0}
    OBVIOUS
  <2>2. Max(1..k) = k /\ (1..k) \ {k} = 1..(k - 1)
    BY <2>1, GreatestOfInterval
  <2>3. iter[1..k] = AddSegment(iter[1..(k - 1)], s[k])
    BY <1>3, <2>1, <2>2 DEF ChunksTurn
  <2>4. k \in 0..n /\ k - 1 \in 0..n
    OBVIOUS
  <2>5. QED
    BY <2>3, <2>4
<1>6. SplitScriptForSpeech(s) = g[n]
  BY <1>2
<1> HIDE DEF g
<1>7. QED
  BY <1>4, <1>5, <1>6

-----------------------------------------------------------------------------
(* Speech requests *)

LEMMA LengthOfChunk ==
  ASSUME NEW c \in Seq(Int), NEW x \in Int
  PROVE  /\ ChunkLength(c) \in Int
         /\ ChunkLength(Append(c, x)) = ChunkLength(c) + 2 + x
         /\ ChunkLength(<<x>>) = x
<1>1. /\ ChunkLength(c) = SumOf(c) + 2 * (Len(c) - 1)
      /\ ChunkLength(Append(c, x)) = SumOf(Append(c, x)) + 2 * (Len(Append(c, x)) - 1)
      /\ ChunkLength(<<x>>) = SumOf(<<x>>) + 2 * (Len(<<x>>) - 1)
  BY DEF ChunkLength, SumOf, Separator
<1>2. Len(c) \in Nat /\ Len(Append(c, x)) = Len(c) + 1 /\ Len(<<x>>) = 1
  BY AppendProperties, LenProperties
<1>3. SumOf(c) \in Int /\ SumOf(Append(c, x)) = SumOf(c) + x
  BY SumOfNumbers, SumAppend
<1>4. SumOf(<<x>>) = x
  <2>1. Append(<<>>, x) = <<x>> /\ <<>> \in Seq(Int)
    OBVIOUS
  <2>2. SumOf(Append(<<>>, x)) = SumOf(<<>>) + x
    BY <2>1, SumAppend
  <2>3. QED
    BY <2>1, <2>2, SumEmpty
<1>5. QED
  BY <1>1, <1>2, <1>3, <1>4

(* A segment joins the last chunk l, or opens a chunk after it. *)
LEMMA AddedSegment ==
  ASSUME NEW F \in Seq(Seq(Int)), NEW l \in Seq(Int), NEW x \in Int
  PROVE  AddSegment(Append(F, l), x) =
           IF ChunkLength(Append(l, x)) <= MaxChunk
           THEN Append(F, Append(l, x)) ELSE Append(Append(F, l), <<x>>)
<1> DEFINE C == Append(F, l)
<1>1. /\ C \in Seq(Seq(Int)) /\ Len(C) = Len(F) + 1 /\ Len(F) \in Nat
      /\ C[Len(F) + 1] = l /\ \A i \in 1..Len(F) : C[i] = F[i]
  BY AppendProperties, LenProperties
<1>2. C # <<>>
  <2>1. ~(Len(F) + 1 = 0) /\ Len(<<>>) = 0
    BY <1>1
  <2> HIDE DEF C
  <2>2. QED
    BY <1>1, <2>1
<1>3. Last(C) = l
  BY <1>1 DEF Last
<1>4. Front(C) = F
  <2> HIDE DEF C
  <2>1. Front(C) = SubSeq(C, 1, Len(F))
    BY <1>1 DEF Front
  <2>2. \A i \in 1..Len(F) : C[i] \in Seq(Int)
    BY <1>1, ElementOfSeq
  <2>3. /\ SubSeq(C, 1, Len(F)) \in Seq(Seq(Int)) /\ Len(SubSeq(C, 1, Len(F))) = Len(F)
        /\ \A i \in 1..Len(F) : SubSeq(C, 1, Len(F))[i] = C[i]
    BY <1>1, <2>2, SubSeqProperties
  <2>4. SubSeq(C, 1, Len(F)) = F
    BY <1>1, <2>3, SeqEqual
  <2>5. QED
    BY <2>1, <2>4
<1>5. F \o <<Append(l, x)>> = Append(F, Append(l, x))
  OBVIOUS
<1> HIDE DEF C
<1>6. AddSegment(C, x) =
        IF ChunkLength(Append(l, x)) <= MaxChunk
        THEN F \o <<Append(l, x)>> ELSE Append(C, <<x>>)
  BY <1>2, <1>3, <1>4 DEF AddSegment
<1>7. QED
  BY <1>5, <1>6 DEF C

LEMMA ConcatThree ==
  ASSUME NEW a \in Seq(Int), NEW b \in Seq(Int), NEW c \in Seq(Int)
  PROVE  (a \o b) \o c = a \o (b \o c)
BY ConcatAssociative

(* The first k segments are cut into the chunks F and, after them, l. *)
Packed(s, k, F, l) ==
  /\ F \in Seq(Seq(Int)) /\ l \in Seq(Int) /\ l # <<>>
  /\ FlattenSeq(F) \in Seq(Int)
  /\ FlattenSeq(F) \o l = SubSeq(s, 1, k)
  /\ 1 <= ChunkLength(l) /\ ChunkLength(l) <= MaxChunk
  /\ \A i \in 1..Len(F) : F[i] # <<>> /\ ChunkLength(F[i]) <= MaxChunk
  /\ \A i \in 1..(Len(F) - 1) : ChunkLength(Append(F[i], Head(F[i + 1]))) > MaxChunk
  /\ Len(F) # 0 => ChunkLength(Append(F[Len(F)], Head(l))) > MaxChunk

(* Chunks that had no room for segments of the length longest are long. *)
Fills(s, k, F, l) ==
  \A longest \in 1..MaxChunk :
    (\A i \in 1..Len(s) : s[i] <= longest) =>
      ChunkLength(SubSeq(s, 1, k)) >= Len(F) * (MaxChunk - longest) + ChunkLength(l)

LEMMA PrefixGrows ==
  ASSUME NEW s \in Seq(Int), NEW k \in 2..Len(s)
  PROVE  /\ SubSeq(s, 1, k - 1) \in Seq(Int)
         /\ SubSeq(s, 1, k) = Append(SubSeq(s, 1, k - 1), s[k])
         /\ ChunkLength(SubSeq(s, 1, k)) = ChunkLength(SubSeq(s, 1, k - 1)) + 2 + s[k]
         /\ ChunkLength(SubSeq(s, 1, k - 1)) \in Int /\ s[k] \in Int
<1> DEFINE p == SubSeq(s, 1, k - 1)
<1>1. p \in Seq(Int) /\ s[k] \in Int
  <2>1. Len(s) \in Nat /\ \A i \in 1..Len(s) : s[i] \in Int
    OBVIOUS
  <2>2. 1 \in Int /\ k - 1 \in Int /\ \A i \in 1..(k - 1) : i \in 1..Len(s)
    BY <2>1
  <2>3. \A i \in 1..(k - 1) : s[i] \in Int
    BY <2>1, <2>2
  <2>4. QED
    BY <2>1, <2>2, <2>3, SubSeqProperties
<1>2. SubSeq(s, 1, k) = p \o <<s[k]>>
  <2>1. Len(s) \in Nat
    OBVIOUS
  <2>2. 1 \in 1..Len(s) /\ k \in 1..Len(s)
    BY <2>1
  <2>3. QED
    BY <2>2, SubSeqRecursiveSecond
<1> HIDE DEF p
<1>3. SubSeq(s, 1, k) = Append(p, s[k])
  BY <1>1, <1>2
<1>4. ChunkLength(p) \in Int /\ ChunkLength(Append(p, s[k])) = ChunkLength(p) + 2 + s[k]
  BY <1>1, LengthOfChunk
<1>5. QED
  BY <1>1, <1>3, <1>4 DEF p

LEMMA SegmentJoins ==
  ASSUME NEW s \in Seq(Int), NEW k \in 2..Len(s), NEW F, NEW l, Packed(s, k - 1, F, l),
         ChunkLength(Append(l, s[k])) <= MaxChunk, 1 <= s[k]
  PROVE  Packed(s, k, F, Append(l, s[k]))
<1> DEFINE x == s[k]
           m == Append(l, x)
<1>1. F \in Seq(Seq(Int)) /\ l \in Seq(Int) /\ l # <<>> /\ FlattenSeq(F) \in Seq(Int) /\ x \in Int
  BY PrefixGrows DEF Packed
<1>2. m \in Seq(Int) /\ m # <<>> /\ Head(m) = Head(l)
  <2>1. /\ m \in Seq(Int) /\ Len(m) = Len(l) + 1 /\ Len(l) \in Nat
        /\ \A i \in 1..Len(l) : m[i] = l[i]
    BY <1>1, AppendProperties, LenProperties
  <2> HIDE DEF m
  <2>2. Len(l) # 0
    BY <1>1
  <2>3. m # <<>> /\ m[1] = l[1]
    BY <2>1, <2>2
  <2>4. Head(m) = m[1] /\ Head(l) = l[1]
    BY <1>1, <2>1, <2>3, HeadTailProperties
  <2>5. QED
    BY <2>1, <2>3, <2>4
<1>3. FlattenSeq(F) \o m = SubSeq(s, 1, k)
  <2>1. m = l \o <<x>> /\ <<x>> \in Seq(Int)
    BY <1>1
  <2>2. (FlattenSeq(F) \o l) \o <<x>> = FlattenSeq(F) \o (l \o <<x>>)
    <3> DEFINE y == <<x>>
               f == FlattenSeq(F)
    <3>1. f \in Seq(Int) /\ l \in Seq(Int) /\ y \in Seq(Int)
      BY <1>1, <2>1
    <3> HIDE DEF x, y, f, m
    <3>2. (f \o l) \o y = f \o (l \o y)
      BY <3>1, ConcatThree
    <3>3. QED
      BY <3>2 DEF f, y
  <2>3. SubSeq(s, 1, k) = SubSeq(s, 1, k - 1) \o <<x>>
    BY PrefixGrows
  <2>4. FlattenSeq(F) \o l = SubSeq(s, 1, k - 1)
    BY DEF Packed
  <2> HIDE DEF m, x
  <2>5. QED
    BY <2>1, <2>2, <2>3, <2>4
<1>4. 1 <= ChunkLength(m) /\ ChunkLength(m) <= MaxChunk
  <2>1. ChunkLength(l) \in Int /\ ChunkLength(m) = ChunkLength(l) + 2 + x
    <3> HIDE DEF x
    <3>1. QED
      BY <1>1, LengthOfChunk
  <2>2. PICK a \in Int : a = ChunkLength(l)
    BY <2>1
  <2>3. 1 <= a /\ ChunkLength(m) = a + 2 + x
    BY <2>1, <2>2 DEF Packed
  <2>4. 1 <= a + 2 + x
    BY <1>1, <2>3
  <2>5. QED
    BY <2>3, <2>4
<1>5. Len(F) # 0 => ChunkLength(Append(F[Len(F)], Head(m))) > MaxChunk
  BY <1>2 DEF Packed
<1> HIDE DEF m
<1>6. Packed(s, k, F, m)
  BY <1>1, <1>2, <1>3, <1>4, <1>5 DEF Packed
<1>7. QED
  BY <1>6 DEF m

LEMMA SegmentOpens ==
  ASSUME NEW s \in Seq(Int), NEW k \in 2..Len(s), NEW F, NEW l, Packed(s, k - 1, F, l),
         ~(ChunkLength(Append(l, s[k])) <= MaxChunk), 1 <= s[k], s[k] <= MaxChunk
  PROVE  Packed(s, k, Append(F, l), <<s[k]>>)
<1> DEFINE x == s[k]
           C == Append(F, l)
           N == Len(F)
<1>1. F \in Seq(Seq(Int)) /\ l \in Seq(Int) /\ l # <<>> /\ FlattenSeq(F) \in Seq(Int) /\ x \in Int
  BY PrefixGrows DEF Packed
<1>2. MaxChunk \in Nat
  BY RulesAssumption
<1>3. <<x>> \in Seq(Int) /\ <<x>> # <<>> /\ Head(<<x>>) = x
  BY <1>1
<1>4. /\ C \in Seq(Seq(Int)) /\ N \in Nat /\ Len(C) = N + 1
      /\ C[N + 1] = l /\ \A i \in 1..N : C[i] = F[i]
  BY <1>1, AppendProperties, LenProperties
<1>5. FlattenSeq(C) = FlattenSeq(F) \o l
  BY <1>1, FlattenAppend
<1>6. FlattenSeq(C) \in Seq(Int)
  BY <1>1, <1>5, ConcatProperties
<1>7. FlattenSeq(C) \o <<x>> = SubSeq(s, 1, k)
  <2>1. SubSeq(s, 1, k) = SubSeq(s, 1, k - 1) \o <<x>>
    BY PrefixGrows
  <2>2. FlattenSeq(F) \o l = SubSeq(s, 1, k - 1)
    BY DEF Packed
  <2>3. QED
    BY <1>5, <2>1, <2>2
<1> HIDE DEF C, N
<1>8. ChunkLength(<<x>>) = x
  <2> HIDE DEF x
  <2>1. <<>> \in Seq(Int)
    OBVIOUS
  <2>2. QED
    BY <1>1, <2>1, LengthOfChunk
<1>9. ChunkLength(Append(l, x)) \in Int
  <2> HIDE DEF x
  <2>1. Append(l, x) \in Seq(Int)
    BY <1>1, AppendProperties
  <2>2. QED
    BY <1>1, <2>1, LengthOfChunk
<1>10. ChunkLength(Append(l, x)) > MaxChunk
  BY <1>2, <1>9
<1>11. ASSUME NEW i \in 1..(N + 1)
       PROVE  C[i] # <<>> /\ ChunkLength(C[i]) <= MaxChunk
  <2>1. CASE i \in 1..N
    <3>1. F[i] # <<>> /\ ChunkLength(F[i]) <= MaxChunk
      BY <2>1 DEF Packed, N
    <3>2. QED
      BY <1>4, <2>1, <3>1
  <2>2. CASE i = N + 1
    BY <1>1, <1>4, <2>2 DEF Packed
  <2>3. QED
    BY <1>4, <2>1, <2>2
<1>12. ASSUME NEW i \in 1..N
       PROVE  ChunkLength(Append(C[i], Head(C[i + 1]))) > MaxChunk
  <2>1. CASE i \in 1..(N - 1)
    <3>1. ChunkLength(Append(F[i], Head(F[i + 1]))) > MaxChunk
      BY <2>1 DEF Packed, N
    <3>2. i + 1 \in 1..N
      BY <1>4, <2>1
    <3>3. C[i] = F[i] /\ C[i + 1] = F[i + 1]
      BY <1>4, <3>2
    <3>4. QED
      BY <3>1, <3>3
  <2>2. CASE i = N
    <3>1. ChunkLength(Append(F[N], Head(l))) > MaxChunk
      BY <1>4, <2>2 DEF Packed, N
    <3>2. C[i] = F[N] /\ C[i + 1] = l
      BY <1>4, <2>2
    <3>3. QED
      BY <3>1, <3>2
  <2>3. QED
    BY <1>4, <2>1, <2>2
<1>13. ChunkLength(Append(C[Len(C)], Head(<<x>>))) > MaxChunk
  BY <1>3, <1>4, <1>10
<1>14. Len(C) - 1 = N
  BY <1>4
<1>15. Packed(s, k, C, <<x>>)
  <2>1. 1 <= ChunkLength(<<x>>) /\ ChunkLength(<<x>>) <= MaxChunk
    BY <1>8
  <2> HIDE DEF x
  <2>2. QED
    BY <1>3, <1>4, <1>6, <1>7, <1>11, <1>12, <1>13, <1>14, <2>1 DEF Packed
<1>16. QED
  BY <1>15 DEF C

LEMMA ProductGrows ==
  ASSUME NEW a \in Nat, NEW b \in Nat, NEW d \in Nat, b < a
  PROVE  b * d <= (a - 1) * d
<1>1. PICK e \in Nat : a - 1 = b + e
  <2>1. a - 1 - b \in Nat /\ a - 1 = b + (a - 1 - b)
    OBVIOUS
  <2>2. QED
    BY <2>1
<1>2. (b + e) * d = b * d + e * d /\ e * d \in Nat /\ b * d \in Nat
  OBVIOUS
<1>3. QED
  BY <1>1, <1>2

LEMMA JoinFills ==
  ASSUME NEW s \in Seq(Int), NEW k \in 2..Len(s), NEW F, NEW l,
         Packed(s, k - 1, F, l), Fills(s, k - 1, F, l)
  PROVE  Fills(s, k, F, Append(l, s[k]))
<1>1. l \in Seq(Int) /\ s[k] \in Int /\ F \in Seq(Seq(Int))
  BY PrefixGrows DEF Packed
<1>2. ChunkLength(l) \in Int /\ ChunkLength(Append(l, s[k])) = ChunkLength(l) + 2 + s[k]
  BY <1>1, LengthOfChunk
<1>3. /\ ChunkLength(SubSeq(s, 1, k)) = ChunkLength(SubSeq(s, 1, k - 1)) + 2 + s[k]
      /\ ChunkLength(SubSeq(s, 1, k - 1)) \in Int
  BY PrefixGrows
<1>4. ASSUME NEW longest \in 1..MaxChunk, \A i \in 1..Len(s) : s[i] <= longest
      PROVE  ChunkLength(SubSeq(s, 1, k)) >= Len(F) * (MaxChunk - longest) + ChunkLength(Append(l, s[k]))
  <2>1. ChunkLength(SubSeq(s, 1, k - 1)) >= Len(F) * (MaxChunk - longest) + ChunkLength(l)
    BY <1>4 DEF Fills
  <2> DEFINE room == Len(F) * (MaxChunk - longest)
  <2>2. room \in Int
    <3>1. Len(F) \in Nat /\ MaxChunk \in Nat
      BY <1>1, RulesAssumption, LenProperties
    <3>2. QED
      BY <3>1
  <2> HIDE DEF room
  <2>3. ChunkLength(SubSeq(s, 1, k - 1)) >= room + ChunkLength(l)
    BY <2>1 DEF room
  <2>4. ChunkLength(SubSeq(s, 1, k)) >= room + ChunkLength(Append(l, s[k]))
    <3>1. PICK a \in Int, b \in Int, c \in Int :
            /\ a = ChunkLength(SubSeq(s, 1, k - 1)) /\ b = ChunkLength(l) /\ c = s[k]
      BY <1>1, <1>2, <1>3
    <3>2. a >= room + b
      BY <2>3, <3>1
    <3>3. ChunkLength(SubSeq(s, 1, k)) = a + 2 + c /\ ChunkLength(Append(l, s[k])) = b + 2 + c
      BY <1>2, <1>3, <3>1
    <3>4. a + 2 + c >= room + (b + 2 + c)
      BY <2>2, <3>2
    <3>5. QED
      BY <3>3, <3>4
  <2>5. QED
    BY <2>4 DEF room
<1>5. QED
  BY <1>4 DEF Fills

LEMMA OpenFills ==
  ASSUME NEW s \in Seq(Int), NEW k \in 2..Len(s), NEW F, NEW l,
         Packed(s, k - 1, F, l), Fills(s, k - 1, F, l),
         ~(ChunkLength(Append(l, s[k])) <= MaxChunk)
  PROVE  Fills(s, k, Append(F, l), <<s[k]>>)
<1>1. l \in Seq(Int) /\ s[k] \in Int /\ F \in Seq(Seq(Int)) /\ MaxChunk \in Nat
  BY PrefixGrows, RulesAssumption DEF Packed
<1>2. /\ ChunkLength(l) \in Int /\ ChunkLength(Append(l, s[k])) = ChunkLength(l) + 2 + s[k]
      /\ ChunkLength(<<s[k]>>) = s[k]
  BY <1>1, LengthOfChunk
<1>3. /\ ChunkLength(SubSeq(s, 1, k)) = ChunkLength(SubSeq(s, 1, k - 1)) + 2 + s[k]
      /\ ChunkLength(SubSeq(s, 1, k - 1)) \in Int
  BY PrefixGrows
<1>4. Len(F) \in Nat /\ Len(Append(F, l)) = Len(F) + 1
  BY <1>1, AppendProperties, LenProperties
<1>5. ASSUME NEW longest \in 1..MaxChunk, \A i \in 1..Len(s) : s[i] <= longest
      PROVE  ChunkLength(SubSeq(s, 1, k)) >= Len(Append(F, l)) * (MaxChunk - longest) + ChunkLength(<<s[k]>>)
  <2>1. ChunkLength(SubSeq(s, 1, k - 1)) >= Len(F) * (MaxChunk - longest) + ChunkLength(l)
    BY <1>5 DEF Fills
  <2> DEFINE room == Len(F) * (MaxChunk - longest)
             more == Len(Append(F, l)) * (MaxChunk - longest)
  <2>2. room \in Int /\ more = room + (MaxChunk - longest)
    <3>1. \A n \in Nat, d \in Int : n * d \in Int /\ (n + 1) * d = n * d + d
      OBVIOUS
    <3>2. MaxChunk - longest \in Int
      BY <1>1
    <3>3. QED
      BY <1>4, <3>1, <3>2
  <2> HIDE DEF room, more
  <2>3. ChunkLength(SubSeq(s, 1, k - 1)) >= room + ChunkLength(l)
    BY <2>1 DEF room
  <2>4. s[k] <= longest
    <3>1. k \in 1..Len(s)
      OBVIOUS
    <3>2. QED
      BY <1>5, <3>1
  <2>5. ChunkLength(SubSeq(s, 1, k)) >= more + ChunkLength(<<s[k]>>)
    <3>1. PICK a \in Int, b \in Int, c \in Int :
            /\ a = ChunkLength(SubSeq(s, 1, k - 1)) /\ b = ChunkLength(l) /\ c = s[k]
      BY <1>1, <1>2, <1>3
    <3>2. ~(b + 2 + c <= MaxChunk) /\ c <= longest /\ a >= room + b
      BY <1>2, <2>3, <2>4, <3>1
    <3>3. ChunkLength(SubSeq(s, 1, k)) = a + 2 + c /\ ChunkLength(<<s[k]>>) = c
      BY <1>2, <1>3, <3>1
    <3>4. a + 2 + c >= more + c
      BY <1>1, <2>2, <3>2
    <3>5. QED
      BY <3>3, <3>4
  <2>6. QED
    BY <2>5 DEF more
<1>6. QED
  BY <1>5 DEF Fills

LEMMA ScriptIsPacked ==
  ASSUME NEW s \in Seq(Int), s # <<>>, \A i \in 1..Len(s) : s[i] \in 1..MaxChunk
  PROVE  \E F, l : /\ SplitScriptForSpeech(s) = Append(F, l)
                   /\ Packed(s, Len(s), F, l) /\ Fills(s, Len(s), F, l)
<1> DEFINE n == Len(s)
<1>1. n \in Nat /\ n # 0 /\ DOMAIN s = 1..n
  BY LenProperties
<1> HIDE DEF n
<1>2. PICK g : /\ SplitScriptForSpeech(s) = g[n] /\ g[0] = <<>>
               /\ \A k \in 1..n : g[k] = AddSegment(g[k - 1], s[k])
  BY <1>1, ChunksUnfold
<1> DEFINE Good(k) == \E F, l : g[k] = Append(F, l) /\ Packed(s, k, F, l) /\ Fills(s, k, F, l)
           S == {k \in 0..n : k # 0 => Good(k)}
<1>3. 0 \in S
  BY <1>1
<1>4. ASSUME NEW k \in 1..n, k - 1 \in S PROVE k \in S
  <2>1. s[k] \in 1..MaxChunk /\ MaxChunk \in Nat /\ s[k] \in Int
    BY RulesAssumption DEF n
  <2>2. CASE k = 1
    <3> DEFINE x == s[1]
    <3>1. x \in Int /\ 1 <= x /\ x <= MaxChunk /\ 1 \in 1..n
      BY <2>1, <2>2
    <3>2. g[1] = AddSegment(<<>>, x)
      <4>1. g[1] = AddSegment(g[1 - 1], s[1])
        BY <1>2, <3>1
      <4>2. 1 - 1 = 0
        OBVIOUS
      <4>3. QED
        BY <1>2, <4>1, <4>2
    <3>3. g[1] = Append(<<>>, <<x>>)
      BY <3>2 DEF AddSegment
    <3>4. SubSeq(s, 1, 1) = <<x>>
      <4>1. SubSeq(s, 1, 1) = SubSeq(s, 1, 1 - 1) \o <<s[1]>>
        <5>1. 1 \in 1..Len(s) /\ 1 \in 1..1
          BY <3>1 DEF n
        <5>2. QED
          BY <5>1, SubSeqRecursiveSecond
      <4>2. SubSeq(s, 1, 1 - 1) = <<>>
        BY SubSeqEmpty
      <4>3. <<s[1]>> \in Seq(Int) /\ <<>> \o <<s[1]>> = <<s[1]>>
        BY <3>1
      <4>4. QED
        BY <4>1, <4>2, <4>3
    <3> HIDE DEF x
    <3>5. ChunkLength(<<x>>) = x
      BY <3>1, EmptySeq, LengthOfChunk
    <3>6. FlattenSeq(<<>>) = <<>> /\ <<>> \o <<x>> = <<x>>
      BY FlattenEmpty
    <3>7. <<x>> \in Seq(Int) /\ <<x>> # <<>> /\ <<>> \in Seq(Seq(Int)) /\ <<>> \in Seq(Int) /\ Len(<<>>) = 0
      BY <3>1
    <3>8. Packed(s, 1, <<>>, <<x>>)
      <4>1. FlattenSeq(<<>>) \in Seq(Int) /\ FlattenSeq(<<>>) \o <<x>> = SubSeq(s, 1, 1)
        BY <3>4, <3>6, <3>7
      <4>2. 1 <= ChunkLength(<<x>>) /\ ChunkLength(<<x>>) <= MaxChunk
        BY <3>1, <3>5
      <4> DEFINE F == <<>>
      <4>3. F \in Seq(Seq(Int)) /\ Len(F) = 0
        BY <3>7
      <4>4. FlattenSeq(F) \in Seq(Int) /\ FlattenSeq(F) \o <<x>> = SubSeq(s, 1, 1)
        BY <4>1
      <4> HIDE DEF F
      <4>5. Packed(s, 1, F, <<x>>)
        BY <3>7, <4>2, <4>3, <4>4 DEF Packed
      <4>6. QED
        BY <4>5 DEF F
    <3>9. Fills(s, 1, <<>>, <<x>>)
      <4>1. \A longest \in 1..MaxChunk : 0 * (MaxChunk - longest) = 0
        BY <2>1
      <4>2. ChunkLength(SubSeq(s, 1, 1)) = x
        BY <3>4, <3>5
      <4>3. x >= 0 + x
        BY <3>1
      <4>4. QED
        BY <3>5, <3>7, <4>1, <4>2, <4>3 DEF Fills
    <3>10. Good(1)
      BY <3>3, <3>8, <3>9
    <3>11. QED
      BY <2>2, <3>10
  <2>3. CASE k # 1
    <3>1. k \in 2..n /\ k - 1 # 0 /\ k \in 0..n
      BY <1>1, <2>3
    <3>2. PICK F, l : g[k - 1] = Append(F, l) /\ Packed(s, k - 1, F, l) /\ Fills(s, k - 1, F, l)
      BY <1>4, <3>1
    <3>3. k \in 2..Len(s)
      BY <3>1 DEF n
    <3>4. F \in Seq(Seq(Int)) /\ l \in Seq(Int)
      BY <3>2 DEF Packed
    <3>5. g[k] = AddSegment(Append(F, l), s[k])
      BY <1>2, <3>2
    <3>6. CASE ChunkLength(Append(l, s[k])) <= MaxChunk
      <4>1. g[k] = Append(F, Append(l, s[k]))
        BY <2>1, <3>4, <3>5, <3>6, AddedSegment
      <4>2. Packed(s, k, F, Append(l, s[k]))
        <5>1. 1 <= s[k]
          BY <2>1
        <5>2. QED
          BY <3>2, <3>3, <3>6, <5>1, SegmentJoins
      <4>3. Fills(s, k, F, Append(l, s[k]))
        BY <3>2, <3>3, JoinFills
      <4>4. Good(k)
        BY <4>1, <4>2, <4>3
      <4>5. QED
        BY <3>1, <4>4
    <3>7. CASE ~(ChunkLength(Append(l, s[k])) <= MaxChunk)
      <4>1. g[k] = Append(Append(F, l), <<s[k]>>)
        BY <2>1, <3>4, <3>5, <3>7, AddedSegment
      <4>2. Packed(s, k, Append(F, l), <<s[k]>>)
        <5>1. 1 <= s[k] /\ s[k] <= MaxChunk
          BY <2>1
        <5>2. QED
          BY <3>2, <3>3, <3>7, <5>1, SegmentOpens
      <4>3. Fills(s, k, Append(F, l), <<s[k]>>)
        BY <3>2, <3>3, <3>7, OpenFills
      <4>4. Good(k)
        BY <4>1, <4>2, <4>3
      <4>5. QED
        BY <3>1, <4>4
    <3>8. QED
      BY <3>6, <3>7
  <2>4. QED
    BY <2>2, <2>3
<1> HIDE DEF S
<1>5. \A k \in 0..n : k \in S
  BY <1>1, <1>3, <1>4, UpwardInduction
<1>6. Good(n)
  BY <1>1, <1>5 DEF S
<1>7. QED
  BY <1>2, <1>6 DEF n

LEMMA SpeechOfAnyScript ==
  ASSUME NEW s \in Seq(Int), s # <<>>, \A i \in 1..Len(s) : s[i] \in 1..MaxChunk
  PROVE  LET chunks == SplitScriptForSpeech(s)
         IN  /\ FlattenSeq(chunks) = s
             /\ \A i \in 1..Len(chunks) : ChunkLength(chunks[i]) <= MaxChunk
             /\ \A i \in 1..(Len(chunks) - 1) : ChunkLength(Append(chunks[i], Head(chunks[i + 1]))) > MaxChunk
             /\ \A longest \in 1..MaxChunk :
                  ((\A i \in 1..Len(s) : s[i] <= longest)
                   /\ ChunkLength(s) <= MaxChunks * (MaxChunk - longest)) => Speakable(s)
<1> DEFINE C == SplitScriptForSpeech(s)
<1>1. PICK F, l : C = Append(F, l) /\ Packed(s, Len(s), F, l) /\ Fills(s, Len(s), F, l)
  BY ScriptIsPacked
<1> DEFINE N == Len(F)
<1>2. F \in Seq(Seq(Int)) /\ l \in Seq(Int) /\ l # <<>>
  BY <1>1 DEF Packed
<1> HIDE DEF C
<1>3. N \in Nat /\ Len(C) = N + 1 /\ C[N + 1] = l /\ \A i \in 1..N : C[i] = F[i]
  BY <1>1, <1>2, AppendProperties, LenProperties
<1>4. MaxChunk \in Nat /\ MaxChunks \in Nat
  BY RulesAssumption
<1>5. FlattenSeq(C) = s
  <2>1. FlattenSeq(C) = FlattenSeq(F) \o l
    BY <1>1, <1>2, FlattenAppend
  <2>2. SubSeq(s, 1, Len(s)) = s
    BY SubSeqFull
  <2>3. QED
    BY <1>1, <2>1, <2>2 DEF Packed
<1>6. ASSUME NEW i \in 1..(N + 1) PROVE ChunkLength(C[i]) <= MaxChunk
  <2>1. CASE i \in 1..N
    <3>1. ChunkLength(F[i]) <= MaxChunk
      BY <1>1, <2>1 DEF Packed
    <3>2. QED
      BY <1>3, <2>1, <3>1
  <2>2. CASE i = N + 1
    BY <1>1, <1>3, <2>2 DEF Packed
  <2>3. QED
    BY <1>3, <2>1, <2>2
<1>7. ASSUME NEW i \in 1..N PROVE ChunkLength(Append(C[i], Head(C[i + 1]))) > MaxChunk
  <2>1. CASE i \in 1..(N - 1)
    <3>1. ChunkLength(Append(F[i], Head(F[i + 1]))) > MaxChunk
      BY <1>1, <2>1 DEF Packed
    <3>2. i + 1 \in 1..N
      BY <1>3, <2>1
    <3>3. C[i] = F[i] /\ C[i + 1] = F[i + 1]
      BY <1>3, <3>2
    <3>4. QED
      BY <3>1, <3>3
  <2>2. CASE i = N
    <3>1. ChunkLength(Append(F[N], Head(l))) > MaxChunk
      BY <1>1, <1>3, <2>2 DEF Packed
    <3>2. C[i] = F[N] /\ C[i + 1] = l
      BY <1>3, <2>2
    <3>3. QED
      BY <3>1, <3>2
  <2>3. QED
    BY <1>3, <2>1, <2>2
<1>8. 1 <= ChunkLength(l)
  BY <1>1 DEF Packed
<1>9. ASSUME NEW longest \in 1..MaxChunk, \A i \in 1..Len(s) : s[i] <= longest,
             ChunkLength(s) <= MaxChunks * (MaxChunk - longest)
      PROVE  Speakable(s)
  <2> DEFINE d == MaxChunk - longest
  <2>1. d \in Nat
    BY <1>4
  <2>2. ChunkLength(s) >= N * d + ChunkLength(l)
    <3>1. SubSeq(s, 1, Len(s)) = s
      BY SubSeqFull
    <3>2. QED
      BY <1>1, <1>9, <3>1 DEF Fills
  <2>3. ChunkLength(s) <= MaxChunks * d
    BY <1>9
  <2>4. ChunkLength(s) \in Int /\ ChunkLength(l) \in Int
    <3>1. 0 \in Int
      OBVIOUS
    <3>2. QED
      BY <1>2, <3>1, LengthOfChunk
  <2> HIDE DEF d, N
  <2>5. N < MaxChunks
    <3>1. SUFFICES ASSUME ~(N < MaxChunks) PROVE FALSE
      OBVIOUS
    <3>2. MaxChunks * d <= N * d
      <4>1. PICK a \in Nat : MaxChunks < a /\ a - 1 = N
        <5>1. PICK a : a = N + 1
          OBVIOUS
        <5>2. a \in Nat /\ MaxChunks < a /\ a - 1 = N
          BY <1>3, <1>4, <3>1, <5>1
        <5>3. QED
          BY <5>2
      <4>2. MaxChunks * d <= (a - 1) * d
        BY <1>4, <2>1, <4>1, ProductGrows
      <4>3. QED
        BY <4>1, <4>2
    <3> DEFINE a == MaxChunks * d
               b == N * d
    <3>3. a \in Int /\ b \in Int /\ a <= b
      BY <1>3, <1>4, <2>1, <3>2
    <3>4. ChunkLength(s) >= b + ChunkLength(l) /\ ChunkLength(s) <= a
      BY <2>2, <2>3
    <3> HIDE DEF a, b
    <3>5. QED
      BY <1>8, <2>4, <3>3, <3>4
  <2>6. Len(SplitScriptForSpeech(s)) <= MaxChunks
    BY <1>3, <1>4, <2>5 DEF C
  <2>7. QED
    BY <2>6 DEF Speakable
<1>10. Len(C) - 1 = N
  BY <1>3
<1>11. QED
  BY <1>3, <1>5, <1>6, <1>7, <1>9, <1>10 DEF C

(* splitScriptForSpeech, for any script of speakable segments: the requests *)
(* speak it in order and completely, none is too long, none could have      *)
(* taken the next segment, and a script that leaves room for its longest    *)
(* segment in each request is not refused for their number.                 *)
THEOREM ChunksOfAnyScript == input \in ScriptInput => ChunksSpeakTheScript
<1> SUFFICES ASSUME input \in ScriptInput PROVE ChunksSpeakTheScript
  OBVIOUS
<1> DEFINE segments == input.segments
<1>1. segments \in Seq(Int) /\ segments # <<>> /\ \A i \in 1..Len(segments) : segments[i] \in 1..MaxChunk
  <2>1. PICK n \in 1..SegmentBound : segments \in [1..n -> 1..MaxChunk]
    BY DEF ScriptInput
  <2>2. n \in Nat /\ n # 0
    BY RulesAssumption
  <2> HIDE DEF segments
  <2>3. segments \in Seq(Int) /\ Len(segments) = n
    BY <2>1, <2>2
  <2>4. \A i \in 1..Len(segments) : segments[i] \in 1..MaxChunk
    BY <2>1, <2>3
  <2>5. QED
    BY <2>2, <2>3, <2>4
<1> HIDE DEF segments
<1> DEFINE chunks == SplitScriptForSpeech(segments)
<1>2. /\ FlattenSeq(chunks) = segments
      /\ \A i \in 1..Len(chunks) : ChunkLength(chunks[i]) <= MaxChunk
      /\ \A i \in 1..(Len(chunks) - 1) : ChunkLength(Append(chunks[i], Head(chunks[i + 1]))) > MaxChunk
      /\ \A longest \in 1..MaxChunk :
           ((\A i \in 1..Len(segments) : segments[i] <= longest)
            /\ ChunkLength(segments) <= MaxChunks * (MaxChunk - longest)) => Speakable(segments)
  BY <1>1, SpeechOfAnyScript
<1> HIDE DEF chunks
<1>3. QED
  BY <1>2 DEF ChunksSpeakTheScript, ChunkLength, Separator, segments, chunks

-----------------------------------------------------------------------------
LEMMA TriedReferences == ReferenceInput \subseteq AnyReferences
<1> SUFFICES ASSUME NEW i \in ReferenceInput PROVE i \in AnyReferences
  OBVIOUS
<1>1. SegmentBound \in Nat /\ MaxCitations \in Nat
  BY RulesAssumption
<1>2. PICK n \in 1..SegmentBound - 2 : i.evidence \in [1..n -> 1..2]
  BY DEF ReferenceInput
<1>3. i.evidence \in Seq(Nat)
  BY <1>1, <1>2
<1>4. PICK m \in 0..MaxCitations + 1 : i.references \in [1..m -> 0..SegmentBound + 1]
  BY DEF ReferenceInput
<1>5. i.references \in Seq(Nat)
  BY <1>1, <1>4
<1>6. QED
  BY <1>3, <1>5 DEF ReferenceInput, AnyReferences

(* All rules hold of any input of any of them, whatever the bounds.         *)
THEOREM RulesOfAnyInput ==
  input \in Input =>
    /\ RangesLieInTheFile /\ LengthContractIsSatisfiable /\ CatalogIsCitable
    /\ ReferencesResolve /\ ChunksSpeakTheScript
<1>1. CASE input \in LengthInput
  <2>1. input.rule = "length"
    BY <1>1 DEF LengthInput
  <2>2. QED
    BY <1>1, <2>1, LengthOfAnyEvidence
       DEF RangesLieInTheFile, CatalogIsCitable, ReferencesResolve, ChunksSpeakTheScript
<1>2. CASE input \in BodyInput
  <2>1. input.rule = "catalog"
    BY <1>2 DEF BodyInput
  <2>2. QED
    BY <1>2, <2>1, TriedBodies, CatalogOfAnyBody
       DEF RangesLieInTheFile, LengthContractIsSatisfiable, ReferencesResolve, ChunksSpeakTheScript
<1>3. CASE input \in ReferenceInput
  <2>1. input.rule = "references"
    BY <1>3 DEF ReferenceInput
  <2>2. QED
    BY <1>3, <2>1, TriedReferences, ReferencesOfAnyEvidence
       DEF RangesLieInTheFile, LengthContractIsSatisfiable, CatalogIsCitable, ChunksSpeakTheScript
<1>4. CASE input \in ScriptInput
  <2>1. input.rule = "speech"
    BY <1>4 DEF ScriptInput
  <2>2. QED
    BY <1>4, <2>1, ChunksOfAnyScript
       DEF RangesLieInTheFile, LengthContractIsSatisfiable, CatalogIsCitable, ReferencesResolve
<1>5. CASE input \in RangeInput
  <2>1. input.rule = "range"
    BY <1>5 DEF RangeInput
  <2>2. QED
    BY <1>5, <2>1, TriedRequests, RangesOfAnyFile
       DEF LengthContractIsSatisfiable, CatalogIsCitable, ReferencesResolve, ChunksSpeakTheScript
<1>6. QED
  BY <1>1, <1>2, <1>3, <1>4, <1>5 DEF Input

=============================================================================
