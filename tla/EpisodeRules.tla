---------------------------- MODULE EpisodeRules ----------------------------
(***************************************************************************)
(* The pure rules between evidence and audio: how long an episode may be   *)
(* (server/episodes/modePolicy.ts), how evidence becomes excerpts          *)
(* (evidenceCatalog.ts) that are validated when cited (validation.ts), how *)
(* a script is cut into speech requests (providers/openai.ts) and which    *)
(* bytes of a file a listener gets (routes/media.ts).                      *)
(*                                                                         *)
(* Text is a sequence of UTF-16 units of four classes.  The limits that    *)
(* only scale the problem are constants.  A state is one input of one of   *)
(* the rules.                                                              *)
(***************************************************************************)
EXTENDS Integers, Sequences, SequencesExt

CONSTANTS
  MaxExcerpt, MinExcerpt,      \* 600 and 5 units
  MaxCitations,                \* 4 references in a segment
  MaxChunk, MaxChunks,         \* 4096 units in each of 8 speech requests
  BodyBound,                   \* bound on the length of the bodies tried
  SegmentBound,                \* bound on the number of segments tried
  WordBound,                   \* bound on the evidence words tried
  FileBound                    \* bound on the sizes of the files tried

(* A piece of a body is at most MaxExcerpt units and loses at most half a   *)
(* pair and some blanks.                                                    *)
ASSUME RulesAssumption ==
  /\ MinExcerpt \in Nat \ {0} /\ MaxExcerpt \in Nat /\ MinExcerpt + 2 <= MaxExcerpt
  /\ MaxChunk \in Nat \ {0} /\ MaxChunks \in Nat \ {0} /\ MaxCitations \in Nat \ {0}
  /\ BodyBound \in Nat /\ SegmentBound \in Nat /\ WordBound \in Nat /\ FileBound \in Nat

VARIABLE input  \* what one of the rules is applied to

Least(a, b)    == IF a <= b THEN a ELSE b
Greatest(a, b) == IF a >= b THEN a ELSE b

-----------------------------------------------------------------------------
(* Length of an episode *)

DisclosureWords == 7           \* "This LocalCast audio was generated by AI."

(* evidenceWords * 0.7 is a floating-point product: a whole number of words *)
(* may come out just below itself, which floor turns into one less.         *)
SeventyPercent(words, short) ==
  IF (7 * words) % 10 = 0 /\ short THEN (7 * words) \div 10 - 1 ELSE (7 * words) \div 10

Limits(least, most, preferLeast, preferMost, target, ask) ==
  [min |-> least, max |-> most, preferredMin |-> preferLeast, preferredMax |-> preferMost,
   target |-> target, providerTarget |-> ask]

MinimumWords(mode) == IF mode = "deep" THEN 1800 ELSE 40

SparseMaximum(words) == Greatest(DisclosureWords + 40, words + DisclosureWords)

(* mutant: the floor of 48 words is not capped by what the evidence allows *)
UncappedMinimum(words, short) == Greatest(48, SeventyPercent(words, short) + DisclosureWords)
SparseMinimum(words, short) ==
  Least(SparseMaximum(words), Greatest(48, SeventyPercent(words, short) + DisclosureWords))

Policy(mode, preset, words, short) ==
  LET full   == words + DisclosureWords
      deep   == Least(2100, Greatest(1800, full))
      sparse == SparseMaximum(words)
      least  == SparseMinimum(words, short)
  IN  CASE mode = "deep"      -> Limits(1800, 3000, 1800, 3000, deep, deep)
        [] mode = "brief" /\ preset = "compact" -> Limits(50, 350, 200, 350, 275, 300)
        [] mode = "brief" /\ preset = "standard" /\ full >= 600 ->
             Limits(600, 1000, 600, 1000, Least(700, full), Least(700, full))
        [] OTHER              -> Limits(least, sparse, least, sparse, sparse, sparse)

AcceptsLength(p, words) == words \in p.min..p.max

(* editorialLengthWarningForScript *)
WarnsOfLength(mode, preset, p, words) ==
  mode = "brief" /\ preset = "compact" /\ AcceptsLength(p, words) /\ words < p.preferredMin

-----------------------------------------------------------------------------
(* Catalog of excerpts; offsets count from 0, and a range ends before "to" *)

Unit == {"letter", "blank", "high", "low"}

At0(body, i)           == body[i + 1]
Slice(body, from, to)  == SubSeq(body, from + 1, to)

(* isWellFormedLocalCastText: surrogates come in pairs *)
WellFormed(body) ==
  \A i \in 1..Len(body) :
    /\ body[i] = "high" => i < Len(body) /\ body[i + 1] = "low"
    /\ body[i] = "low"  => i > 1 /\ body[i - 1] = "high"

(* A whole code point is blank or is not; only single units are blank. *)
TrimStartOffset(body, from, to) ==
  LET kept == {i \in from..(to - 1) : At0(body, i) # "blank"}
  IN  IF kept = {} THEN to ELSE CHOOSE i \in kept : \A j \in kept : i <= j

TrimEndOffset(body, from, to) ==
  LET kept == {i \in from..(to - 1) : At0(body, i) # "blank"}
  IN  IF kept = {} THEN from ELSE 1 + (CHOOSE i \in kept : \A j \in kept : j <= i)

FirstOffset(body) == TrimStartOffset(body, 0, Len(body))
FinalOffset(body) == TrimEndOffset(body, 0, Len(body))

Citable(body) ==
  /\ FinalOffset(body) - FirstOffset(body) >= MinExcerpt
  /\ WellFormed(body)

RangeEndingAt(body, end) ==
  LET far   == Greatest(0, end - MaxExcerpt)
      start == IF far > 0 /\ At0(body, far) = "low" THEN far + 1 ELSE far
  IN  [from |-> TrimStartOffset(body, start, end), to |-> end]

CutAnywhere(body, start, final) == Least(final, start + MaxExcerpt)    \* mutant: splits pairs
Cut(body, start, final) ==
  LET end == Least(final, start + MaxExcerpt)
  IN  IF end < final /\ At0(body, end - 1) = "high" THEN end - 1 ELSE end

(* One turn of the loop of bodyRanges: a piece too short to cite is         *)
(* replaced by the one that ends where the body ends.                       *)
RangeFrom(body, start) ==
  LET final == FinalOffset(body)
      end   == TrimEndOffset(body, start, Cut(body, start, final))
  IN  IF end - start < MinExcerpt THEN RangeEndingAt(body, final)
                                  ELSE [from |-> start, to |-> end]

(* the ranges, the error of a piece that is still too short left to CatalogBuilt *)
BodyRanges(body) ==
  LET final == FinalOffset(body)
      ranges[start \in 0..final] ==
        IF start = final THEN <<>>
        ELSE LET end == Cut(body, start, final)
             IN  <<RangeFrom(body, start)>> \o
                 (IF end = final THEN <<>> ELSE ranges[TrimStartOffset(body, end, final)])
  IN  ranges[FirstOffset(body)]

IsTrimmed(body, r) == At0(body, r.from) # "blank" /\ At0(body, r.to - 1) # "blank"

(* bodyRanges refuses a body of which a piece, or what replaces it, does not *)
(* fit: the episode fails with EVIDENCE_CATALOG_INVALID.                     *)
Fits(body, r) == r.to - r.from \in MinExcerpt..MaxExcerpt /\ IsTrimmed(body, r)
CatalogBuilt(body) ==
  Citable(body) /\ \A i \in 1..Len(BodyRanges(body)) : Fits(body, BodyRanges(body)[i])

(* assertGeneratedEpisode, of one citation: length, trimmed, included *)
ValidCitation(body, r) ==
  /\ r.from >= 0 /\ r.to <= Len(body)
  /\ r.to - r.from \in MinExcerpt..MaxExcerpt
  /\ IsTrimmed(body, r)

-----------------------------------------------------------------------------
(* References; evidence is the number of excerpts of each of its rows, and  *)
(* reference n is the n-th entry of the catalog                             *)

BuildEvidenceCatalog(evidence) ==
  FlattenSeq([s \in 1..Len(evidence) |->
                [e \in 1..evidence[s] |-> [snapshot |-> s, excerpt |-> e]]])

RepeatsReference(catalog, references) ==                  \* mutant: of one row, two excerpts
  \E i, j \in 1..Len(references) : i < j /\ references[i] = references[j]
RepeatsSnapshot(catalog, references) ==
  \E i, j \in 1..Len(references) :
    i < j /\ catalog[references[i]].snapshot = catalog[references[j]].snapshot

(* episodeDraftSchema and resolveEvidenceReferences, of one segment *)
Resolvable(catalog, references) ==
  /\ Len(references) \in 1..MaxCitations
  /\ \A i \in 1..Len(references) : references[i] \in 1..Len(catalog)
  /\ ~RepeatsSnapshot(catalog, references)

ResolveEvidenceReferences(catalog, references) ==
  [i \in 1..Len(references) |-> catalog[references[i]]]

(* assertGeneratedEpisode, of the citations of one segment *)
ValidCitations(evidence, citations) ==
  /\ Len(citations) \in 1..MaxCitations
  /\ \A i, j \in 1..Len(citations) : i < j => citations[i].snapshot # citations[j].snapshot
  /\ \A i \in 1..Len(citations) :
       citations[i].snapshot \in 1..Len(evidence) /\ citations[i].excerpt \in 1..evidence[citations[i].snapshot]

-----------------------------------------------------------------------------
(* Speech requests; a segment is its length *)

Separator == 2

NoSeparator(chunk) == FoldLeft(LAMBDA a, b : a + b, 0, chunk)              \* mutant
ChunkLength(chunk) ==
  FoldLeft(LAMBDA a, b : a + b, 0, chunk) + Separator * (Len(chunk) - 1)

AddSegment(chunks, segment) ==
  LET joined == Append(Last(chunks), segment)
  IN  IF chunks # <<>> /\ ChunkLength(joined) <= MaxChunk
      THEN Front(chunks) \o <<joined>>
      ELSE Append(chunks, <<segment>>)

SplitScriptForSpeech(segments) == FoldLeft(AddSegment, <<>>, segments)

Speakable(segments) ==
  /\ segments # <<>>
  /\ \A i \in 1..Len(segments) : segments[i] \in 1..MaxChunk
  /\ Len(SplitScriptForSpeech(segments)) <= MaxChunks

-----------------------------------------------------------------------------
(* Byte ranges of a file of n bytes; -1 stands for an absent number.  A     *)
(* header that is no single range of safe integers reads like "bytes=-".    *)

Absent == -1
Unsatisfiable == [start |-> 0, end |-> Absent]

SuffixRange(suffix, n) ==
  IF suffix <= 0 THEN Unsatisfiable ELSE [start |-> Greatest(0, n - suffix), end |-> n - 1]

ParseSingleRange(first, last, n) ==
  CASE first = Absent /\ last = Absent -> Unsatisfiable
    [] first = Absent /\ last # Absent -> SuffixRange(last, n)
    [] first # Absent /\ first >= n    -> Unsatisfiable
    [] first \in 0..(n - 1) /\ last = Absent -> [start |-> first, end |-> n - 1]
    [] OTHER -> IF last < first THEN Unsatisfiable
                                ELSE [start |-> first, end |-> Least(last, n - 1)]

(* matchesModifiedSince: whether a date, in milliseconds, is not before the *)
(* second of the last change; a header that is no date is Absent.           *)
Second == 1000
ExactDate(date, modified) == date # Absent /\ modified <= date     \* mutant: to the millisecond
NotBefore(date, modified) == date # Absent /\ modified \div Second <= date \div Second

(* If-None-Match and If-Range name this file or another one by its tag; a   *)
(* tag comes first, and If-Range may be a date instead.                     *)
NotModified(request) ==
  IF request.ifNoneMatch # "absent" THEN request.ifNoneMatch = "this"
                                    ELSE NotBefore(request.modifiedSince, request.modified)

AllowsRange(request) ==
  IF request.ifRange = "date" THEN NotBefore(request.ifRangeDate, request.modified)
                              ELSE request.ifRange # "other"

(* servePublishedMedia *)
Response(request) ==
  LET n == request.size
      range == ParseSingleRange(request.first, request.last, n)
      partial == request.ranged /\ AllowsRange(request)
  IN  CASE NotModified(request) -> [status |-> 304]
        [] ~NotModified(request) /\ partial /\ range = Unsatisfiable -> [status |-> 416]
        [] ~NotModified(request) /\ partial /\ range # Unsatisfiable ->
             [status |-> 206, start |-> range.start, end |-> range.end]
        [] OTHER -> [status |-> 200, start |-> 0, end |-> n - 1]

-----------------------------------------------------------------------------
(* Inputs: sufficient evidence, bodies that may be cited, scripts of        *)
(* speakable segments, Range headers.  Only the blanks of feed items are    *)
(* collapsed; a note keeps its body as it was typed.                        *)

NoInput == [rule |-> "none"]

LengthInput ==
  {i \in [rule : {"length"}, mode : {"brief", "deep"}, preset : {"compact", "standard"},
          words : 0..WordBound, short : BOOLEAN] : i.words >= MinimumWords(i.mode)}
BodyInput ==
  {[rule |-> "catalog", body |-> b] : b \in
    {b \in UNION {[1..n -> Unit] : n \in 0..BodyBound} : Citable(b)}}
ScriptInput ==
  {[rule |-> "speech", segments |-> s] : s \in UNION {[1..n -> 1..MaxChunk] : n \in 1..SegmentBound}}
ReferenceInput ==
  [rule : {"references"}, evidence : UNION {[1..n -> 1..2] : n \in 1..SegmentBound - 2},
   references : UNION {[1..n -> 0..SegmentBound + 1] : n \in 0..MaxCitations + 1}]
Dates == {Second - 1, Second, 2 * Second - 1, 2 * Second}
RangeInput ==
  {i \in [rule : {"range"}, size : 1..FileBound, first : Absent..(FileBound + 1),
          last : Absent..(FileBound + 1), ranged : BOOLEAN, ifNoneMatch : {"absent", "this", "other"},
          modified : {Second, 2 * Second - 1}, modifiedSince : {Absent} \cup Dates,
          ifRange : {"absent", "this", "other", "date"}, ifRangeDate : {Absent} \cup Dates] :
     i.ifRange # "date" => i.ifRangeDate = Absent}

Input == LengthInput \cup BodyInput \cup ReferenceInput \cup ScriptInput \cup RangeInput

-----------------------------------------------------------------------------
(* Properties *)

(* Whatever evidence is sufficient, some length is accepted, the length     *)
(* asked of the provider lies where the request prefers it and is accepted  *)
(* without a warning, and more evidence never lowers what is demanded:      *)
(* policyForEvidence changes its formula at 600 words and rounds a product. *)
LengthContractIsSatisfiable ==
  input.rule = "length" =>
    LET p == Policy(input.mode, input.preset, input.words, input.short)
        more(short) == Policy(input.mode, input.preset, input.words + 1, short)
    IN  /\ p.min <= p.preferredMin /\ p.preferredMin <= p.preferredMax /\ p.preferredMax <= p.max
        /\ {p.target, p.providerTarget} \subseteq p.preferredMin..p.preferredMax
        /\ p.providerTarget > DisclosureWords
        /\ \A short \in BOOLEAN : p.min <= more(short).min /\ p.max <= more(short).max
        /\ ~WarnsOfLength(input.mode, input.preset, p, p.providerTarget)

Gap == MaxExcerpt - MinExcerpt

(* No run of blanks inside the text is of Gap units, which is 595 in the    *)
(* code: so of every feed item, and of every note without such a run.       *)
Spaced(body) ==
  \A i \in FirstOffset(body)..(FinalOffset(body) - Gap) : \E j \in i..(i + Gap - 1) : At0(body, j) # "blank"

(* Every excerpt of a catalog passes the validation its citation will meet  *)
(* and splits no surrogate pair.  A text that fits an excerpt is one, and   *)
(* of a text without a long run of blanks the catalog is built and leaves   *)
(* nothing uncitable (STATE.md:92).                                         *)
CatalogIsCitable ==
  input.rule = "catalog" =>
    LET body   == input.body
        ranges == BodyRanges(body)
        first  == FirstOffset(body)
        final  == FinalOffset(body)
        cited  == UNION {ranges[i].from..(ranges[i].to - 1) : i \in 1..Len(ranges)}
    IN  /\ CatalogBuilt(body) =>
             \A i \in 1..Len(ranges) :
               /\ ValidCitation(body, ranges[i])
               /\ WellFormed(Slice(body, ranges[i].from, ranges[i].to))
        /\ final - first <= MaxExcerpt =>
             CatalogBuilt(body) /\ ranges = <<[from |-> first, to |-> final]>>
        /\ Spaced(body) =>
             CatalogBuilt(body) /\ {i \in 0..(Len(body) - 1) : At0(body, i) # "blank"} \subseteq cited

(* DECISIONS.md:470: "longer bodies are split deterministically at          *)
(* Unicode-safe boundaries into excerpts that retain the existing 5-600-    *)
(* character citation bounds": of every trimmed, well-formed body that is   *)
(* long enough to cite, as a note is stored, the catalog is built.          *)
LongBodiesAreSplit ==
  input.rule = "catalog" /\ FirstOffset(input.body) = 0 /\ FinalOffset(input.body) = Len(input.body)
    => CatalogBuilt(input.body)

(* Every excerpt of the evidence can be referred to, and what a draft is    *)
(* allowed to select by reference is what assertGeneratedEpisode accepts    *)
(* once it is resolved: the two checks, in different files, agree about     *)
(* unknown references and about sources cited twice in a segment.           *)
ReferencesResolve ==
  input.rule = "references" =>
    LET catalog   == BuildEvidenceCatalog(input.evidence)
        citations == ResolveEvidenceReferences(catalog, input.references)
    IN  /\ \A s \in 1..Len(input.evidence) : \A e \in 1..input.evidence[s] :
             \E n \in 1..Len(catalog) : catalog[n] = [snapshot |-> s, excerpt |-> e]
        /\ \A m, n \in 1..Len(catalog) : catalog[m] = catalog[n] => m = n
        /\ Resolvable(catalog, input.references) => ValidCitations(input.evidence, citations)
        /\ (\A i \in 1..Len(input.references) : input.references[i] \in 1..Len(catalog))
             => (ValidCitations(input.evidence, citations) => Resolvable(catalog, input.references))

(* The speech requests speak the segments in order and completely, none is  *)
(* longer than the provider takes, none could have taken the segment that   *)
(* opens the next one, and short segments that leave room are never refused *)
(* for the number of requests.                                              *)
ChunksSpeakTheScript ==
  input.rule = "speech" =>
    LET segments == input.segments
        chunks   == SplitScriptForSpeech(segments)
        spoken(s) == FoldLeft(LAMBDA a, b : a + b, 0, s) + 2 * (Len(s) - 1)
    IN  /\ FlattenSeq(chunks) = segments
        /\ \A i \in 1..Len(chunks) : spoken(chunks[i]) <= MaxChunk
        /\ \A i \in 1..(Len(chunks) - 1) : spoken(Append(chunks[i], Head(chunks[i + 1]))) > MaxChunk
        /\ \A longest \in 1..MaxChunk :
             ((\A i \in 1..Len(segments) : segments[i] <= longest)
              /\ spoken(segments) <= MaxChunks * (MaxChunk - longest)) => Speakable(segments)

(* The bytes of the file that the Range header names                       *)
Asked(request) ==
  {b \in 0..(request.size - 1) :
     IF request.first # Absent THEN request.first <= b /\ (request.last # Absent => b <= request.last)
                               ELSE request.last # Absent /\ request.size - request.last <= b}

(* The Last-Modified the server tells: a date of whole seconds             *)
LastModified(request) == Second * (request.modified \div Second)

(* A listener is sent exactly the bytes of the file that were asked for, or *)
(* told that there are none; the whole file, when no range was asked for or *)
(* when its part is of another file or from before this one; and nothing,   *)
(* exactly when its copy is current: by its tag or, without one, when it is *)
(* not from before the Last-Modified it was told.                           *)
RangesLieInTheFile ==
  input.rule = "range" =>
    LET r == Response(input)
        outdated == \/ input.ifRange = "other"
                    \/ input.ifRange = "date" /\ input.ifRangeDate < LastModified(input)
    IN  /\ r.status \in {200, 206, 304, 416}
        /\ r.status = 304 <=> \/ input.ifNoneMatch = "this"
                              \/ input.ifNoneMatch = "absent" /\ input.modifiedSince >= LastModified(input)
        /\ r.status = 200 => /\ r.start..r.end = 0..(input.size - 1)
                             /\ ~input.ranged \/ outdated
        /\ r.status = 206 => /\ r.start..r.end = Asked(input) /\ Asked(input) # {}
                             /\ input.ranged /\ ~outdated
        /\ r.status = 416 => /\ Asked(input) = {}
                             /\ input.ranged /\ ~outdated
=============================================================================
