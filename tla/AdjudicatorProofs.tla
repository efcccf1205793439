------------------------- MODULE AdjudicatorProofs -------------------------
(***************************************************************************)
(* Theorems about the adjudicator, for any number of runs, materials,      *)
(* answers and limits: text that a rule matches as it came is marked, and  *)
(* a replay from a file that a run wrote is an answer to the same          *)
(* question.  The first rests on what every result carries, whichever way  *)
(* it came about (Flagged); the second on where a file's content came from *)
(* (CacheWasSaid).                                                         *)
(***************************************************************************)
EXTENDS Adjudicator, SequenceTheorems, TLAPS

Replayed(r, i, w) == [Validated(w, i, Flags(r)) EXCEPT !.hit = TRUE]

Shape ==
    /\ DOMAIN stage = Runs /\ DOMAIN results = Runs
    /\ \A r \in Runs :
        /\ \E S : results[r] \in Seq(S)
        /\ stage[r] = "idle" => results[r] = <<>>
        /\ stage[r] \in {"item", "asking", "failed"} => Len(results[r]) < Len(ItemOrder)
        /\ stage[r] = "done" => Len(results[r]) = Len(ItemOrder)

\* What the rubric takes as a result of item i.
Fits(i, x) ==
    /\ x.item_id = i /\ x.verdict \in AllowedVerdicts
    /\ x.gray_type = GrayTypeFor(x.verdict) /\ x.source_refs \subseteq Sources[i]

Answers == \A r \in Runs : \A n \in 1..Len(results[r]) : Fits(ItemOrder[n], results[r][n])

\* Every result carries the flags of its run's material.
Flagged ==
    \A r \in Runs : \A n \in 1..Len(results[r]) : Flags(r) \subseteq results[r][n].risk_flags

\* A file holds the answer last kept under its key, unless someone edited it.
CacheWasSaid ==
    /\ \A k \in DOMAIN cache : cache[k] \in Wires \union {Misshapen, NoEntry}
    /\ \A k \in DOMAIN cache \ edited : cache[k] \in Wires /\ <<k, cache[k]>> \in said

AdjudicatorInv == Shape /\ CacheWasSaid /\ Answers /\ Flagged

-----------------------------------------------------------------------------
(* What a result is *)

\* validate.ts: an answer, fresh or replayed, keeps the flags of the material
\* beside its own.
LEMMA ValidatedIsFlagged ==
  \A w, i, flags : flags \subseteq Validated(w, i, flags).risk_flags
  BY DEF Validated, RiskFlags

LEMMA ReplayedIsFlagged ==
  \A r, i, w : Flags(r) \subseteq Replayed(r, i, w).risk_flags
  BY DEF Replayed, Validated, RiskFlags

LEMMA FallbackIsFlagged ==
  \A i, reason, flags : flags \subseteq Fallback(i, reason, flags).risk_flags
  BY DEF Fallback

\* validate.ts: whatever the model says, what becomes of it fits the item.
LEMMA ValidatedFits ==
  \A w, i, flags : Fits(i, Validated(w, i, flags))
  <1> SUFFICES ASSUME NEW w, NEW i, NEW flags PROVE Fits(i, Validated(w, i, flags))
    OBVIOUS
  <1>1. InScope(w.verdict) \in AllowedVerdicts
    BY DEF InScope, AllowedVerdicts, FallbackVerdicts
  <1>2. SourceRefs(w.source_refs, i) \subseteq Sources[i]
    BY DEF SourceRefs, Listed
  <1> QED BY <1>1, <1>2 DEF Fits, Validated

LEMMA ReplayedFits ==
  \A r, i, w : Fits(i, Replayed(r, i, w))
  <1> SUFFICES ASSUME NEW r, NEW i, NEW w PROVE Fits(i, Replayed(r, i, w))
    OBVIOUS
  <1>1. InScope(w.verdict) \in AllowedVerdicts
    BY DEF InScope, AllowedVerdicts, FallbackVerdicts
  <1>2. SourceRefs(w.source_refs, i) \subseteq Sources[i]
    BY DEF SourceRefs, Listed
  <1> QED BY <1>1, <1>2 DEF Fits, Replayed, Validated

LEMMA FallbackFits ==
  \A i, reason, flags : Fits(i, Fallback(i, reason, flags))
  BY DEF Fits, Fallback, AllowedVerdicts, FallbackVerdicts, GrayTypeFor

\* sandbox/index.ts: a match in a text the walk comes to raises the flag.
LEMMA MatchIsFlagged ==
  ASSUME NEW material, NEW t \in material, Visited(t), "whole" \in t.matches
  PROVE  "injection_attempt" \in DetectedFlags(material)
  <1>1. Detected(t)
    BY DEF Detected
  <1>2. "role_forgery" \in InjectionRules /\ FlagOf["role_forgery"] = "injection_attempt"
    BY DEF InjectionRules, FlagOf
  <1> QED BY <1>1, <1>2 DEF DetectedFlags

\* A run's flags depend on its context only, which no step changes.
LEMMA FlagsStay ==
  ASSUME UNCHANGED context
  PROVE  \A q : Flags(q)' = Flags(q)
  BY DEF Flags

\* A result of the current item is added.
LEMMA AdjudicatedKeeps ==
  ASSUME AdjudicatorInv, NEW r \in Runs, stage[r] \in {"item", "asking"},
         UNCHANGED context, NEW x, Adjudicated(r, x),
         Flags(r) \subseteq x.risk_flags, Fits(Current(r), x)
  PROVE  Shape' /\ Answers' /\ Flagged'
  <1>1. /\ \A q \in Runs \ {r} : results'[q] = results[q] /\ stage'[q] = stage[q]
        /\ results'[r] = Append(results[r], x) /\ DOMAIN results' = Runs /\ DOMAIN stage' = Runs
        /\ stage'[r] = IF Len(results'[r]) = Len(ItemOrder) THEN "done" ELSE "item"
    BY DEF Adjudicated, Shape, AdjudicatorInv
  <1>2. PICK S : results[r] \in Seq(S)
    BY DEF Shape, AdjudicatorInv
  <1>3. results[r] \in Seq(S \union {x})
    BY <1>2, SeqDef
  <1>4. Len(ItemOrder) \in Nat /\ Len(results[r]) \in Nat /\ Len(results[r]) < Len(ItemOrder)
    BY <1>2, AdjudicatorAssumption DEF AdjudicatorAssumption, Shape, AdjudicatorInv
  <1>5. /\ results'[r] \in Seq(S \union {x})
        /\ Len(results'[r]) = Len(results[r]) + 1
        /\ results'[r][Len(results[r]) + 1] = x
        /\ \A n \in 1..Len(results[r]) : results'[r][n] = results[r][n]
    BY <1>1, <1>3
  <1>6. Shape'
    <2>1. ASSUME NEW q \in Runs
          PROVE  /\ \E T : results'[q] \in Seq(T)
                 /\ stage'[q] = "idle" => results'[q] = <<>>
                 /\ stage'[q] \in {"item", "asking", "failed"} => Len(results'[q]) < Len(ItemOrder)
                 /\ stage'[q] = "done" => Len(results'[q]) = Len(ItemOrder)
      <3>1. CASE q = r
        BY <1>1, <1>4, <1>5, <3>1
      <3>2. CASE q # r
        BY <1>1, <3>2 DEF Shape, AdjudicatorInv
      <3> QED BY <3>1, <3>2
    <2> QED BY <1>1, <2>1 DEF Shape
  <1>7. ASSUME NEW q \in Runs, NEW n \in 1..Len(results'[q])
        PROVE  \/ n \in 1..Len(results[q]) /\ results'[q][n] = results[q][n]
               \/ q = r /\ ItemOrder[n] = Current(r) /\ results'[q][n] = x
    <2>1. CASE q # r
      BY <1>1, <1>7, <2>1
    <2>2. CASE q = r
      BY <1>4, <1>5, <1>7, <2>2 DEF Current
    <2> QED BY <2>1, <2>2
  <1>10. Answers'
    BY <1>7 DEF Answers, Fits, AdjudicatorInv
  <1>8. Flagged'
    BY <1>7, FlagsStay DEF Flagged, AdjudicatorInv
  <1> QED BY <1>6, <1>8, <1>10

LEMMA FallsBackKeeps ==
  ASSUME AdjudicatorInv, NEW r \in Runs, stage[r] = "asking", UNCHANGED context,
         UNCHANGED said, NEW reason, FallsBack(r, reason)
  PROVE  AdjudicatorInv'
  <1> DEFINE x == Fallback(Current(r), reason, Flags(r))
  <1>1. Flags(r) \subseteq x.risk_flags /\ Fits(Current(r), x)
    BY FallbackIsFlagged, FallbackFits
  <1>2. Adjudicated(r, x) /\ UNCHANGED <<cache, edited>>
    BY DEF FallsBack
  <1>3. Shape' /\ Answers' /\ Flagged'
    <2> HIDE DEF x
    <2> QED BY <1>1, <1>2, AdjudicatedKeeps
  <1> QED BY <1>2, <1>3 DEF AdjudicatorInv, CacheWasSaid

-----------------------------------------------------------------------------
(* The steps *)

LEMMA CacheHitKeeps ==
  ASSUME AdjudicatorInv, NEW r \in Runs, CacheHit(r)
  PROVE  AdjudicatorInv'
  <1> DEFINE x == Replayed(r, Current(r), cache[CacheKey(r, Current(r))])
  <1>1. Adjudicated(r, x) /\ UNCHANGED <<context, cache, edited, said>> /\ stage[r] = "item"
    BY DEF CacheHit, Replayed
  <1>2. Flags(r) \subseteq x.risk_flags /\ Fits(Current(r), x)
    BY ReplayedIsFlagged, ReplayedFits
  <1>3. Shape' /\ Answers' /\ Flagged'
    <2> HIDE DEF x
    <2> QED BY <1>1, <1>2, AdjudicatedKeeps
  <1> QED BY <1>1, <1>3 DEF AdjudicatorInv, CacheWasSaid

LEMMA AnsweredKeeps ==
  ASSUME AdjudicatorInv, NEW r \in Runs, Answered(r)
  PROVE  AdjudicatorInv'
  <1> DEFINE i == Current(r)
             Keeps(w) == Put(CacheKey(r, i), w) /\ Says(Question(r, i), w)
  <1>1. PICK w \in Wires :
            \/ /\ Adjudicated(r, Validated(w, i, Flags(r)))
               /\ IF WritesCache(r) THEN Keeps(w) ELSE UNCHANGED <<cache, edited, said>>
            \/ FallsBack(r, "adjudicator_unavailable") /\ UNCHANGED said
    BY DEF Answered
  <1>2. stage[r] = "asking" /\ UNCHANGED context
    BY DEF Answered
  <1>3. CASE FallsBack(r, "adjudicator_unavailable") /\ UNCHANGED said
    BY <1>2, <1>3, FallsBackKeeps
  <1>4. CASE /\ Adjudicated(r, Validated(w, i, Flags(r)))
             /\ IF WritesCache(r) THEN Keeps(w) ELSE UNCHANGED <<cache, edited, said>>
    <2> DEFINE x == Validated(w, i, Flags(r))
    <2>1. Flags(r) \subseteq x.risk_flags /\ Fits(Current(r), x)
      BY ValidatedIsFlagged, ValidatedFits
    <2>2. Shape' /\ Answers' /\ Flagged'
      <3>1. Adjudicated(r, x)
        BY <1>4
      <3> HIDE DEF x
      <3> QED BY <1>1, <1>2, <2>1, <3>1, AdjudicatedKeeps
    <2>3. CacheWasSaid'
      BY <1>4 DEF AdjudicatorInv, CacheWasSaid, Put, FileHolds, Says, CacheKey
    <2> QED BY <2>2, <2>3 DEF AdjudicatorInv
  <1> QED BY <1>1, <1>3, <1>4

\* What is known of the files, when no one touches them and when someone does.
LEMMA SameFilesKeep ==
  ASSUME AdjudicatorInv, UNCHANGED <<cache, edited, said>>
  PROVE  CacheWasSaid'
  BY DEF AdjudicatorInv, CacheWasSaid

LEMMA EditKeepsFiles ==
  ASSUME AdjudicatorInv, NEW k, Edit(k)
  PROVE  CacheWasSaid'
  <1>1. PICK content \in Wires \union {Misshapen, NoEntry} : FileHolds(k, content)
    BY DEF Edit
  <1>2. edited' = edited \union {k} /\ said' = said
    BY DEF Edit
  <1> QED BY <1>1, <1>2 DEF AdjudicatorInv, CacheWasSaid, FileHolds

\* A step that adds no result.
LEMMA QuietKeeps ==
  ASSUME AdjudicatorInv, UNCHANGED <<context, results>>, CacheWasSaid', DOMAIN stage' = Runs,
         \A r \in Runs : stage'[r] \in {"item", "asking", "failed"} =>
            stage[r] \in {"item", "asking", "failed"} \/ Len(results[r]) < Len(ItemOrder),
         \A r \in Runs : stage'[r] = "idle" => stage[r] = "idle",
         \A r \in Runs : stage'[r] = "done" => Len(results[r]) = Len(ItemOrder)
  PROVE  AdjudicatorInv'
  <1>1. Shape'
    BY DEF AdjudicatorInv, Shape
  <1>2. Flagged'
    BY FlagsStay DEF AdjudicatorInv, Flagged
  <1>3. Answers'
    <2>1. results' = results
      OBVIOUS
    <2>2. \A r \in Runs : \A n \in 1..Len(results'[r]) : Fits(ItemOrder[n], results'[r][n])
      BY <2>1 DEF AdjudicatorInv, Answers
    <2> QED BY <2>2 DEF Answers, Fits
  <1> QED BY <1>1, <1>2, <1>3 DEF AdjudicatorInv

LEMMA AdjudicatorStep ==
  AdjudicatorInv /\ [AdjudicatorNext]_adjudicatorVars => AdjudicatorInv'
  <1> SUFFICES ASSUME AdjudicatorInv, [AdjudicatorNext]_adjudicatorVars PROVE AdjudicatorInv'
    OBVIOUS
  <1>1. CASE UNCHANGED adjudicatorVars
    BY <1>1, SameFilesKeep, QuietKeeps DEF adjudicatorVars, AdjudicatorInv, Shape
  <1>2. ASSUME NEW r \in Runs,
               Start(r) \/ CacheHitMisshapen(r) \/ CacheOnlyMiss(r) \/ AskModel(r)
        PROVE  AdjudicatorInv'
    <2>0. CacheWasSaid'
      BY <1>2, SameFilesKeep DEF Start, CacheHitMisshapen, CacheOnlyMiss, AskModel
    <2>1. CASE Start(r)
      <3>1. Len(results[r]) = 0 /\ IF ItemOrder = <<>> THEN Len(ItemOrder) = 0 ELSE 0 < Len(ItemOrder)
        BY <2>1, AdjudicatorAssumption DEF Start, AdjudicatorInv, Shape, AdjudicatorAssumption
      <3> QED BY <2>0, <2>1, <3>1, QuietKeeps DEF Start, AdjudicatorInv, Shape
    <2>2. CASE CacheHitMisshapen(r) \/ CacheOnlyMiss(r) \/ AskModel(r)
      BY <2>0, <2>2, QuietKeeps DEF CacheHitMisshapen, CacheOnlyMiss, AskModel, AdjudicatorInv, Shape
    <2> QED BY <1>2, <2>1, <2>2
  <1>3. ASSUME NEW r \in Runs, AnsweredMisshapen(r) \/ Refused(r) \/ CallFails(r)
        PROVE  AdjudicatorInv'
    <2>1. stage[r] = "asking" /\ UNCHANGED <<context, said>>
      BY <1>3 DEF AnsweredMisshapen, Refused, CallFails
    <2>2. \/ UNCHANGED <<stage, results, cache, edited>>
          \/ \E reason : FallsBack(r, reason)
      BY <1>3 DEF AnsweredMisshapen, Refused, CallFails
    <2>3. CASE UNCHANGED <<stage, results, cache, edited>>
      BY <2>1, <2>3, SameFilesKeep, QuietKeeps DEF AdjudicatorInv, Shape
    <2> QED BY <2>1, <2>2, <2>3, FallsBackKeeps
  <1>4. ASSUME NEW k, Edit(k) PROVE AdjudicatorInv'
    <2>1. UNCHANGED <<context, results, stage>>
      BY <1>4 DEF Edit
    <2> QED BY <1>4, <2>1, EditKeepsFiles, QuietKeeps DEF AdjudicatorInv, Shape
  <1> QED BY <1>1, <1>2, <1>3, <1>4, CacheHitKeeps, AnsweredKeeps DEF AdjudicatorNext, RunSteps

LEMMA AdjudicatorStarts == AdjudicatorInit => AdjudicatorInv
  <1> SUFFICES ASSUME AdjudicatorInit PROVE AdjudicatorInv
    OBVIOUS
  <1>1. results = [r \in Runs |-> <<>>] /\ stage = [r \in Runs |-> "idle"] /\ DOMAIN cache = {}
    BY DEF AdjudicatorInit
  <1>2. Shape
    <2>1. <<>> \in Seq({})
      OBVIOUS
    <2> QED BY <1>1, <2>1 DEF Shape
  <1>3. CacheWasSaid /\ Answers /\ Flagged
    BY <1>1 DEF CacheWasSaid, Answers, Flagged
  <1> QED BY <1>2, <1>3 DEF AdjudicatorInv

LEMMA AlwaysAdjudicatorInv == AdjudicatorSpec => []AdjudicatorInv
  BY AdjudicatorStarts, AdjudicatorStep, PTL DEF AdjudicatorSpec

\* A result marks the text of its material that a rule matches as it came, the
\* parts that are cut included, whether the model answered, flooded its own flags
\* or refused, or a file was replayed, whoever edited it, for any materials and
\* any limit of the list (sandbox/index.ts, validate.ts).
THEOREM AlwaysInjectionIsMarked == AdjudicatorSpec => []InjectionIsMarked
  <1>1. AdjudicatorInv => InjectionIsMarked
    <2> SUFFICES ASSUME AdjudicatorInv, NEW r \in Runs, NEW n \in 1..Len(results[r]),
                        NEW t \in context[r].material, Visited(t), "whole" \in t.matches
                 PROVE  "injection_attempt" \in results[r][n].risk_flags
      BY DEF InjectionIsMarked
    <2>1. Flags(r) \subseteq results[r][n].risk_flags
      BY DEF AdjudicatorInv, Flagged
    <2>2. "injection_attempt" \in Flags(r)
      BY MatchIsFlagged DEF Flags
    <2> QED BY <2>1, <2>2
  <1> QED BY <1>1, AlwaysAdjudicatorInv, PTL

\* A result that comes in is the last of its run, and no other run gets one.
LEMMA LastOfAdjudicated ==
  ASSUME AdjudicatorInv, NEW r \in Runs, NEW x, Adjudicated(r, x)
  PROVE  /\ Last(results'[r]) = x
         /\ \A q \in Runs \ {r} : results'[q] = results[q]
  <1>1. PICK S : results[r] \in Seq(S)
    BY DEF Shape, AdjudicatorInv
  <1>2. results[r] \in Seq(S \union {x})
    BY <1>1, SeqDef
  <1>3. results'[r] = Append(results[r], x)
    BY DEF Adjudicated, Shape, AdjudicatorInv
  <1> QED BY <1>2, <1>3 DEF Adjudicated, Shape, AdjudicatorInv, Last

\* Whatever the runs write and whoever edits files in between, a result replayed
\* from a file that is not someone's edit is the model's answer to the very same
\* question (cache.ts, index.ts).
THEOREM AlwaysReplayIsFaithful == AdjudicatorSpec => ReplayIsFaithful
  <1> DEFINE Faithful(r) ==
        /\ Len(results'[r]) > Len(results[r]) /\ Last(results'[r]).hit
        /\ Question(r, Current(r)) \notin edited
        => \E w \in Wires : /\ <<Question(r, Current(r)), w>> \in said
                            /\ Last(results'[r]) = Replayed(r, Current(r), w)
  <1>1. ASSUME AdjudicatorInv, [AdjudicatorNext]_adjudicatorVars, NEW r \in Runs PROVE Faithful(r)
    <2> SUFFICES ASSUME Len(results'[r]) > Len(results[r]), Last(results'[r]).hit,
                        Question(r, Current(r)) \notin edited
                 PROVE  \E w \in Wires : /\ <<Question(r, Current(r)), w>> \in said
                                         /\ Last(results'[r]) = Replayed(r, Current(r), w)
      OBVIOUS
    <2>0. Len(results[r]) \in Nat /\ results'[r] # results[r]
      BY <1>1 DEF AdjudicatorInv, Shape
    <2>1. ASSUME NEW q \in Runs, NEW x, Adjudicated(q, x), x.hit = FALSE PROVE FALSE
      <3>1. Last(results'[q]) = x /\ (q # r => results'[r] = results[r])
        BY <1>1, <2>1, LastOfAdjudicated
      <3> QED BY <2>0, <2>1, <3>1
    <2>2. ASSUME NEW q \in Runs, NEW reason, FallsBack(q, reason) PROVE FALSE
      BY <2>1, <2>2 DEF FallsBack, Fallback
    <2>3. ASSUME NEW q \in Runs, Answered(q) PROVE FALSE
      BY <2>1, <2>2, <2>3 DEF Answered, Validated
    <2>4. ASSUME NEW q \in Runs, AnsweredMisshapen(q) \/ Refused(q) \/ CallFails(q) PROVE FALSE
      BY <2>0, <2>2, <2>4 DEF AnsweredMisshapen, Refused, CallFails
    <2>5. PICK q \in Runs : CacheHit(q)
      BY <1>1, <2>0, <2>3, <2>4
         DEF AdjudicatorNext, RunSteps, adjudicatorVars, Start, CacheHitMisshapen, CacheOnlyMiss,
             AskModel, Edit
    <2> DEFINE w == cache[CacheKey(q, Current(q))]
               x == Replayed(q, Current(q), w)
    <2>6. Adjudicated(q, x) /\ Hit(CacheKey(q, Current(q))) /\ w # Misshapen
      BY <2>5 DEF CacheHit, Replayed
    <2>7. q = r /\ Last(results'[r]) = x
      <3> HIDE DEF x
      <3> QED BY <1>1, <2>0, <2>6, LastOfAdjudicated
    <2>8. w \in Wires /\ <<Question(r, Current(r)), w>> \in said
      BY <1>1, <2>6, <2>7 DEF AdjudicatorInv, CacheWasSaid, Hit, CacheKey
    <2> QED BY <2>7, <2>8
  <1>2. AdjudicatorInv /\ [AdjudicatorNext]_adjudicatorVars
          => [\A r \in Runs :
                LET i == Current(r) IN
                /\ Len(results'[r]) > Len(results[r]) /\ Last(results'[r]).hit
                /\ Question(r, i) \notin edited
                => \E w \in Wires :
                    /\ <<Question(r, i), w>> \in said
                    /\ Last(results'[r]) = [Validated(w, i, Flags(r)) EXCEPT !.hit = TRUE]
             ]_adjudicatorVars
    BY <1>1 DEF Replayed
  <1> QED BY <1>2, AlwaysAdjudicatorInv, PTL DEF AdjudicatorSpec, ReplayIsFaithful

\* One result per item, in order, under the item's own id and within the rubric,
\* whatever the model answers and whatever was cached (validate.ts, index.ts).
THEOREM AlwaysRubricIsAnswered == AdjudicatorSpec => []RubricIsAnswered
  <1>1. AdjudicatorInv => RubricIsAnswered
    BY DEF AdjudicatorInv, Shape, Answers, Fits, RubricIsAnswered
  <1> QED BY <1>1, AlwaysAdjudicatorInv, PTL

-----------------------------------------------------------------------------
(* Types *)

AdjudicatorTypes ==
    /\ \A r \in Runs : context[r] \in Contexts[r]
    /\ stage \in [Runs -> {"idle", "item", "asking", "done", "failed"}]
    /\ attempt \in [Runs -> [schema: 0..1, try: 0..Backoffs]]
    /\ edited \subseteq DOMAIN cache

LEMMA TypesOfAdjudicated ==
  ASSUME AdjudicatorTypes, NEW r \in Runs, UNCHANGED context, NEW x, Adjudicated(r, x),
         edited' \subseteq DOMAIN cache'
  PROVE  AdjudicatorTypes'
  <1>1. Fresh \in [schema: 0..1, try: 0..Backoffs]
    BY AdjudicatorAssumption DEF Fresh, AdjudicatorAssumption
  <1> QED BY <1>1 DEF AdjudicatorTypes, Adjudicated

LEMMA TypesOfAttempts ==
  ASSUME AdjudicatorTypes, NEW r \in Runs, AnsweredMisshapen(r) \/ Refused(r) \/ CallFails(r)
  PROVE  AdjudicatorTypes'
  <1>1. CASE \E reason : FallsBack(r, reason)
    BY <1>1, TypesOfAdjudicated DEF FallsBack, AdjudicatorTypes, AnsweredMisshapen, Refused, CallFails
  <1>2. CASE /\ UNCHANGED <<context, stage, cache, edited>>
             /\ attempt' = [attempt EXCEPT ![r] = [schema |-> 1, try |-> 0]]
    BY <1>2, AdjudicatorAssumption DEF AdjudicatorTypes, AdjudicatorAssumption
  <1>3. CASE /\ UNCHANGED <<context, stage, cache, edited>>
             /\ attempt[r].try < Backoffs /\ attempt' = [attempt EXCEPT ![r].try = @ + 1]
    <2>1. PICK next : next = [attempt[r] EXCEPT !.try = @ + 1]
      OBVIOUS
    <2>2. attempt[r] \in [schema: 0..1, try: 0..Backoffs] /\ Backoffs \in Nat
      BY AdjudicatorAssumption DEF AdjudicatorTypes, AdjudicatorAssumption
    <2>3. attempt[r].try + 1 \in 0..Backoffs
      BY <1>3, <2>2
    <2>4. next \in [schema: 0..1, try: 0..Backoffs]
      BY <2>1, <2>2, <2>3
    <2>5. attempt' = [attempt EXCEPT ![r] = next]
      BY <1>3, <2>1
    <2>6. attempt' \in [Runs -> [schema: 0..1, try: 0..Backoffs]]
      BY <2>4, <2>5 DEF AdjudicatorTypes
    <2> QED BY <1>3, <2>6 DEF AdjudicatorTypes
  <1> QED BY <1>1, <1>2, <1>3 DEF AnsweredMisshapen, Refused, CallFails

LEMMA TypesStep ==
  AdjudicatorTypes /\ [AdjudicatorNext]_adjudicatorVars => AdjudicatorTypes'
  <1> SUFFICES ASSUME AdjudicatorTypes, [AdjudicatorNext]_adjudicatorVars PROVE AdjudicatorTypes'
    OBVIOUS
  <1>1. CASE UNCHANGED adjudicatorVars
    BY <1>1 DEF adjudicatorVars, AdjudicatorTypes
  <1>2. ASSUME NEW r \in Runs,
               Start(r) \/ CacheHitMisshapen(r) \/ CacheOnlyMiss(r) \/ AskModel(r)
        PROVE  AdjudicatorTypes'
    BY <1>2 DEF AdjudicatorTypes, Start, CacheHitMisshapen, CacheOnlyMiss, AskModel
  <1>3. ASSUME NEW r \in Runs, CacheHit(r) PROVE AdjudicatorTypes'
    BY <1>3, TypesOfAdjudicated DEF AdjudicatorTypes, CacheHit
  <1>4. ASSUME NEW r \in Runs, Answered(r) PROVE AdjudicatorTypes'
    <2>1. edited' \subseteq DOMAIN cache'
      BY <1>4 DEF Answered, FallsBack, Put, FileHolds, AdjudicatorTypes
    <2>2. \E x : Adjudicated(r, x)
      BY <1>4 DEF Answered, FallsBack
    <2> QED BY <1>4, <2>1, <2>2, TypesOfAdjudicated DEF Answered
  <1>5. ASSUME NEW k, Edit(k) PROVE AdjudicatorTypes'
    BY <1>5 DEF AdjudicatorTypes, Edit, FileHolds
  <1> QED BY <1>1, <1>2, <1>3, <1>4, <1>5, TypesOfAttempts DEF AdjudicatorNext, RunSteps

\* Retries stay within their two bounds, no run is asked for an item beyond the
\* rubric, and a file holds a wire, a misshapen one or nothing that
\* counts as an entry (index.ts, cache.ts).
THEOREM AlwaysAdjudicatorTypeOK == AdjudicatorSpec => []AdjudicatorTypeOK
  <1>1. AdjudicatorInit => AdjudicatorTypes
    BY AdjudicatorAssumption DEF AdjudicatorInit, AdjudicatorTypes, Fresh, AdjudicatorAssumption
  <1>2. AdjudicatorInv /\ AdjudicatorTypes => AdjudicatorTypeOK
    <2> SUFFICES ASSUME AdjudicatorInv, AdjudicatorTypes PROVE AdjudicatorTypeOK
      OBVIOUS
    <2>1. ASSUME NEW r \in Runs, NEW n \in 1..Len(results[r])
          PROVE  results[r][n].verdict \in Verdict
      BY <2>1 DEF AdjudicatorInv, Answers, Fits, AllowedVerdicts, FallbackVerdicts, Verdict
    <2>2. ASSUME NEW r \in Runs
          PROVE  /\ Len(results[r]) \in 0..Len(ItemOrder)
                 /\ stage[r] \in {"item", "asking"} => Len(results[r]) < Len(ItemOrder)
      <3>1. Len(results[r]) \in Nat /\ Len(ItemOrder) \in Nat
        BY AdjudicatorAssumption DEF AdjudicatorInv, Shape, AdjudicatorAssumption
      <3>2. Len(results[r]) =< Len(ItemOrder)
        BY <3>1 DEF AdjudicatorInv, AdjudicatorTypes, Shape
      <3> QED BY <3>1, <3>2 DEF AdjudicatorInv, Shape
    <2> QED BY <2>1, <2>2 DEF AdjudicatorInv, AdjudicatorTypes, AdjudicatorTypeOK, CacheWasSaid
  <1> QED BY <1>1, <1>2, TypesStep, AlwaysAdjudicatorInv, PTL DEF AdjudicatorSpec
=============================================================================
