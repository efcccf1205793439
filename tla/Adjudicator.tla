----------------------------- MODULE Adjudicator -----------------------------
(***************************************************************************)
(* The adjudicator: rubric items are judged one after the other, by the    *)
(* golden cache or by a language model whose answer is checked, repaired   *)
(* and, in two of the four modes, kept for later runs.  Runs of several    *)
(* cases (or processes) share the cache directory, whose files are golden  *)
(* records in the repository: people edit, copy and delete them too.       *)
(***************************************************************************)
EXTENDS Naturals, Sequences, SequencesExt, FiniteSets, Verdicts, Sandbox

CONSTANTS
    Runs,         \* calls of adjudicateRubric
    ItemOrder,    \* the rubric's items, in order
    Contexts,     \* Contexts[r]: what r may start with: mode, material, settings
    VerdictStates,\* verdict_states of the rubric, known to the engine or not
    Sources,      \* Sources[i]: the sources item i may cite
    Wires,        \* answers of the model that have the schema's shape
    ListMax,      \* MAX_LIST_LENGTH
    Backoffs,     \* number of waits in BACKOFF_MS
    MaxEdits,     \* bound: files that are someone's edit at a time
    Statuses      \* HTTP statuses of failing calls; 0: no status at all

\* schema.ts: the verdicts every rubric may fall back to.
FallbackVerdicts == {"gray_data", "unverifiable"}
Mode == {"cache_first", "cache_only", "record", "live"}
FallbackReason == {"llm_refusal", "llm_schema_error", "adjudicator_unavailable"}
\* errors.ts: the kinds of LlmError; only a transient one is worth another try.
LlmError == {"refusal", "transient", "schema", "auth"}

\* schema.ts: an answer of another shape is not looked at.
IsAdjudicationWire(w) == w.verdict \in Verdict /\ w.gray_type \in GrayType

Items == ToSet(ItemOrder)
NoFlags == {}
\* What a file may hold beside a wire: an entry around a wire of another shape,
\* or nothing a reader takes for an entry (half a file, no file).
Misshapen == [holds |-> "another shape"]
NoEntry == [holds |-> "no entry"]

ASSUME AdjudicatorAssumption ==
    /\ \A r \in Runs : \A c \in Contexts[r] : c.mode \in Mode
    /\ ListMax \in Nat \ {0} /\ Backoffs \in Nat /\ MaxEdits \in Nat
    /\ ItemOrder \in Seq(Items)
    /\ \A w \in Wires : IsAdjudicationWire(w)

VARIABLES
    context,  \* context[r]: mode, material and model settings of the run
    stage,    \* stage[r]: what the run does next
    results,  \* results[r]: the items adjudicated so far
    attempt,  \* attempt[r]: schema attempts and tries within the attempt
    cache,    \* the files of the cache directory: key -> what the file holds
    edited,   \* history: keys whose file is someone's work, not a run's
    said      \* history: to each question, the answer of the model that was last kept
adjudicatorVars == <<context, stage, results, attempt, cache, edited, said>>

Fresh == [schema |-> 0, try |-> 0]

-----------------------------------------------------------------------------
\* openai.ts: what a model is asked with.  A family that reasons takes a
\* temperature only when the effort is "none".
Efforts == {"none", "minimal", "low", "medium", "high", "xhigh", "max"}
Caps(model) ==
    CASE model = "reasoning" -> [temperature |-> TRUE, effort |-> TRUE, needsNone |-> TRUE]
      [] model = "plain"     -> [temperature |-> TRUE, effort |-> FALSE, needsNone |-> FALSE]
      [] OTHER               -> [temperature |-> FALSE, effort |-> FALSE, needsNone |-> FALSE]

Effort(s) == IF Caps(s.model).effort /\ s.effort \in Efforts THEN s.effort ELSE "unset"

Temperature(s) ==
    IF \/ ~Caps(s.model).temperature
       \/ Caps(s.model).needsNone /\ Effort(s) # "none"
    THEN "unset" ELSE s.temperature

MaxOutputTokens(s) == IF Effort(s) \in {"unset", "none"} THEN 512 ELSE 2048

Fingerprint(s) ==
    [model |-> s.model, temperature |-> Temperature(s), effort |-> Effort(s),
     tokens |-> MaxOutputTokens(s)]

\* The question a run asks about an item, and the key it is cached under.  The
\* case's id is part of neither.
Flags(r) == DetectedFlags(context[r].material)
Question(r, i) == [item |-> i, facts |-> Fields(context[r].material), flags |-> Flags(r),
                   llm |-> Fingerprint(context[r].settings)]
\* BUG: the key forgets the sandbox's flags.
CacheKeyNoFlags(r, i) == [Question(r, i) EXCEPT !.flags = NoFlags]
CacheKey(r, i) == Question(r, i)

-----------------------------------------------------------------------------
\* validate.ts: an answer is never trusted, it is brought into the rubric.
AllowedVerdicts == FallbackVerdicts \union (VerdictStates \intersect Verdict)

Clamped(list) == SubSeq(list, 1, IF Len(list) < ListMax THEN Len(list) ELSE ListMax)

InScope(verdict) == IF verdict \in AllowedVerdicts THEN verdict ELSE "unverifiable"

\* Where an answer cites sources of the item, and the first ListMax of those.
Listed(refs, i) == {n \in DOMAIN refs : refs[n] \in Sources[i]}
SourceRefs(refs, i) ==
    {refs[n] : n \in {m \in Listed(refs, i) :
                        Cardinality(Listed(refs, i) \intersect 1..m) =< ListMax}}

\* The repairs an answer needs, by the flag each adds.
Repairs(w, i) ==
    {f \in {"item_id_mismatch", "verdict_out_of_rubric_scope", "gray_type_mismatch",
            "unlisted_source_ref", "output_truncated"} :
        \/ f = "item_id_mismatch" /\ w.item_id # i
        \/ f = "verdict_out_of_rubric_scope" /\ w.verdict \notin AllowedVerdicts
        \/ f = "gray_type_mismatch" /\ w.gray_type # GrayTypeFor(InScope(w.verdict))
        \/ f = "unlisted_source_ref" /\ Listed(w.source_refs, i) # DOMAIN w.source_refs
        \/ f = "output_truncated" /\ \/ Cardinality(Listed(w.source_refs, i)) > ListMax
                                     \/ Len(w.risk_flags) > ListMax}

\* BUG: the list is cut after the flags were merged into it.
RiskFlagsMergedFirst(w, i, flags) ==
    ToSet(Clamped(w.risk_flags \o SetToSeq(flags))) \union Repairs(w, i)
RiskFlags(w, i, flags) == ToSet(Clamped(w.risk_flags)) \union flags \union Repairs(w, i)

\* BUG: the item id is taken from the answer.
ValidatedUnderItsId(w, i, flags) ==
    [item_id |-> w.item_id, verdict |-> InScope(w.verdict),
     gray_type |-> GrayTypeFor(InScope(w.verdict)),
     source_refs |-> SourceRefs(w.source_refs, i),
     risk_flags |-> RiskFlags(w, i, flags), fallback |-> FALSE, hit |-> FALSE]
Validated(w, i, flags) ==
    [item_id |-> i, verdict |-> InScope(w.verdict),
     gray_type |-> GrayTypeFor(InScope(w.verdict)),
     source_refs |-> SourceRefs(w.source_refs, i),
     risk_flags |-> RiskFlags(w, i, flags), fallback |-> FALSE, hit |-> FALSE]

Fallback(i, reason, flags) ==
    [item_id |-> i, verdict |-> "unverifiable", gray_type |-> "none",
     source_refs |-> {}, risk_flags |-> {reason} \union flags, fallback |-> TRUE,
     hit |-> FALSE]

-----------------------------------------------------------------------------
\* openai.ts: how a call that brings no wire is understood.
Retriable(status) == status = 0 \/ status \in {408, 429} \/ status >= 500
Classified(status) ==
    CASE status \in {401, 403} -> "auth"
      [] Retriable(status)     -> "transient"
      [] OTHER                 -> "schema"

ReasonFor ==
    [error \in LlmError |-> CASE error = "refusal" -> "llm_refusal"
                             [] error = "schema"  -> "llm_schema_error"
                             [] OTHER             -> "adjudicator_unavailable"]

AdjudicatorInit ==
    /\ context \in {f \in [Runs -> UNION {Contexts[r] : r \in Runs}] :
                      \A r \in Runs : f[r] \in Contexts[r]}
    /\ stage = [r \in Runs |-> "idle"]
    /\ results = [r \in Runs |-> <<>>]
    /\ attempt = [r \in Runs |-> Fresh]
    /\ cache = <<>> /\ edited = {} /\ said = {}

ReadsCache(r) == context[r].mode \in {"cache_first", "cache_only"}
WritesCache(r) == context[r].mode \in {"cache_first", "record"}
Current(r) == ItemOrder[Len(results[r]) + 1]
\* A file that is missing, half written or without the fields of an entry is a
\* miss; what its wire looks like, and which key it names, is not looked at.
Hit(k) == k \in DOMAIN cache /\ cache[k] # NoEntry

\* A file is written whole and then renamed over the old one.
FileHolds(k, content) ==
    cache' = [x \in DOMAIN cache \union {k} |-> IF x = k THEN content ELSE cache[x]]
Put(k, w) == FileHolds(k, w) /\ edited' = edited \ {k}
Says(q, w) == said' = {x \in said : x[1] # q} \union {<<q, w>>}

\* The result of the current item is in: the next item, or the end.
Adjudicated(r, result) ==
    /\ results' = [results EXCEPT ![r] = Append(@, result)]
    /\ stage' = [stage EXCEPT ![r] = IF Len(results'[r]) = Len(ItemOrder)
                                     THEN "done" ELSE "item"]
    /\ attempt' = [attempt EXCEPT ![r] = Fresh]

FallsBack(r, reason) ==
    /\ Adjudicated(r, Fallback(Current(r), reason, Flags(r)))
    /\ UNCHANGED <<cache, edited>>

Start(r) ==
    /\ stage[r] = "idle"
    /\ stage' = [stage EXCEPT ![r] = IF ItemOrder = <<>> THEN "done" ELSE "item"]
    /\ UNCHANGED <<context, results, attempt, cache, edited, said>>

\* adjudicateItem up to the first await: a hit is validated again.
CacheHit(r) ==
    /\ stage[r] = "item" /\ ReadsCache(r)
    /\ LET k == CacheKey(r, Current(r)) IN
        /\ Hit(k) /\ cache[k] # Misshapen
        /\ Adjudicated(r, [Validated(cache[k], Current(r), Flags(r)) EXCEPT !.hit = TRUE])
    /\ UNCHANGED <<context, cache, edited, said>>

\* That validation stands outside the try: a wire of another shape ends the
\* whole rubric, in either mode that reads the cache.
CacheHitMisshapen(r) ==
    /\ stage[r] = "item" /\ ReadsCache(r)
    /\ Hit(CacheKey(r, Current(r))) /\ cache[CacheKey(r, Current(r))] = Misshapen
    /\ stage' = [stage EXCEPT ![r] = "failed"]
    /\ UNCHANGED <<context, results, attempt, cache, edited, said>>

\* cache_only: a miss is an error, the whole rubric is abandoned.
CacheOnlyMiss(r) ==
    /\ stage[r] = "item" /\ context[r].mode = "cache_only"
    /\ ~Hit(CacheKey(r, Current(r)))
    /\ stage' = [stage EXCEPT ![r] = "failed"]
    /\ UNCHANGED <<context, results, attempt, cache, edited, said>>

AskModel(r) ==
    /\ stage[r] = "item" /\ context[r].mode # "cache_only"
    /\ ReadsCache(r) => ~Hit(CacheKey(r, Current(r)))
    /\ stage' = [stage EXCEPT ![r] = "asking"]
    /\ UNCHANGED <<context, results, attempt, cache, edited, said>>

\* A wire of the right shape: validate, keep it if the mode says so, go on.
\* The put is inside the try: when the file cannot be written, the answer is
\* dropped for the fallback.
Answered(r) ==
    /\ stage[r] = "asking"
    /\ \E w \in Wires :
        LET i == Current(r) IN
        \/ /\ Adjudicated(r, Validated(w, i, Flags(r)))
           /\ IF WritesCache(r)
              THEN Put(CacheKey(r, i), w) /\ Says(Question(r, i), w)
              ELSE UNCHANGED <<cache, edited, said>>
        \/ WritesCache(r) /\ FallsBack(r, "adjudicator_unavailable") /\ UNCHANGED said
    /\ UNCHANGED context

\* JSON of another shape: asked once more, then the fallback.
\* BUG: the second attempt does not count.
AnsweredMisshapenForever(r) ==
    /\ stage[r] = "asking"
    /\ attempt' = [attempt EXCEPT ![r].try = 0]
    /\ UNCHANGED <<context, stage, results, cache, edited, said>>
AnsweredMisshapen(r) ==
    /\ stage[r] = "asking"
    /\ IF attempt[r].schema = 0
       THEN /\ attempt' = [attempt EXCEPT ![r] = [schema |-> 1, try |-> 0]]
            /\ UNCHANGED <<stage, results, cache, edited>>
       ELSE FallsBack(r, "llm_schema_error")
    /\ UNCHANGED <<context, said>>

\* No JSON to look at: a refusal, an incomplete answer or text.  None is retried.
Refused(r) ==
    /\ stage[r] = "asking"
    /\ \E error \in {"refusal", "schema"} : FallsBack(r, ReasonFor[error])
    /\ UNCHANGED <<context, said>>

\* The call fails: a transient failure waits and tries again.
\* BUG: one wait too many.
CallFailsOnceMore(r) ==
    /\ stage[r] = "asking"
    /\ \E status \in Statuses :
        IF Classified(status) = "transient" /\ attempt[r].try =< Backoffs
        THEN /\ attempt' = [attempt EXCEPT ![r].try = @ + 1]
             /\ UNCHANGED <<stage, results, cache, edited>>
        ELSE FallsBack(r, ReasonFor[Classified(status)])
    /\ UNCHANGED <<context, said>>
CallFails(r) ==
    /\ stage[r] = "asking"
    /\ \E status \in Statuses :
        IF Classified(status) = "transient" /\ attempt[r].try < Backoffs
        THEN /\ attempt' = [attempt EXCEPT ![r].try = @ + 1]
             /\ UNCHANGED <<stage, results, cache, edited>>
        ELSE FallsBack(r, ReasonFor[Classified(status)])
    /\ UNCHANGED <<context, said>>

\* Someone edits or replaces the file of a key (by another key's file, say), so
\* that it holds any wire, a misshapen one or no entry, or deletes it.
Edit(k) ==
    /\ Cardinality(edited \ {k}) < MaxEdits
    /\ \E content \in Wires \union {Misshapen, NoEntry} : FileHolds(k, content)
    /\ edited' = edited \union {k}
    /\ UNCHANGED <<context, stage, results, attempt, said>>

RunSteps(r) ==
    \/ Start(r) \/ CacheHit(r) \/ CacheHitMisshapen(r) \/ CacheOnlyMiss(r) \/ AskModel(r)
    \/ Answered(r) \/ AnsweredMisshapen(r) \/ Refused(r) \/ CallFails(r)

AdjudicatorNext == (\E r \in Runs : RunSteps(r)) \/ (\E r \in Runs, i \in Items : Edit(CacheKey(r, i)))

AdjudicatorSpec == AdjudicatorInit /\ [][AdjudicatorNext]_adjudicatorVars
\* Every call of the model ends: the SDK's timeout is set and its own retries are off.
AdjudicatorFairSpec == AdjudicatorSpec /\ WF_adjudicatorVars(\E r \in Runs : RunSteps(r))

-----------------------------------------------------------------------------
Finished(r) == stage[r] \in {"done", "failed"}

AdjudicatorTypeOK ==
    /\ \A r \in Runs : context[r] \in Contexts[r]
    /\ stage \in [Runs -> {"idle", "item", "asking", "done", "failed"}]
    /\ \A r \in Runs :
        /\ Len(results[r]) \in 0..Len(ItemOrder)
        /\ attempt[r].schema \in 0..1 /\ attempt[r].try \in 0..Backoffs
        /\ stage[r] \in {"item", "asking"} => Len(results[r]) < Len(ItemOrder)
        /\ \A n \in 1..Len(results[r]) : results[r][n].verdict \in Verdict
    /\ \A k \in DOMAIN cache : cache[k] \in Wires \union {Misshapen, NoEntry}
    /\ edited \subseteq DOMAIN cache

\* Text that a rule takes for an injection, as it came and also where it lies in
\* a part that is cut, is marked on every result of its run, whether the model
\* answered, flooded its own list of flags, refused, or the answer came from a
\* file that anyone may have edited (sandbox/index.ts, validate.ts, index.ts).
InjectionIsMarked ==
    \A r \in Runs : \A n \in 1..Len(results[r]) :
        (\E t \in context[r].material : Visited(t) /\ "whole" \in t.matches) =>
            "injection_attempt" \in results[r][n].risk_flags

\* An adjudicated rubric answers the rubric: one result per item, in order and
\* under the item's own id, whatever id the model put on it; the verdict is one
\* the rubric or the engine allows, the gray type is the one the routing expects
\* of it, and only the item's own sources are cited (validate.ts, index.ts).
RubricIsAnswered ==
    \A r \in Runs :
        /\ stage[r] = "done" => Len(results[r]) = Len(ItemOrder)
        /\ \A n \in 1..Len(results[r]) :
            LET x == results[r][n] IN
            /\ x.item_id = ItemOrder[n]
            /\ x.verdict \in AllowedVerdicts
            /\ x.gray_type = GrayTypeFor(x.verdict)
            /\ x.source_refs \subseteq Sources[ItemOrder[n]]

\* A result replayed from a file a run has written is what the model last answered
\* to the very same question, same item, facts, flags and model settings, of the
\* answers that were kept, whatever runs and people have done to the directory in
\* between; only a file that is still someone's edit answers for itself (cache.ts,
\* index.ts).
ReplayIsFaithful ==
    [][\A r \in Runs :
        LET i == Current(r) IN
        /\ Len(results'[r]) > Len(results[r]) /\ Last(results'[r]).hit
        /\ Question(r, i) \notin edited
        => \E w \in Wires :
            /\ <<Question(r, i), w>> \in said
            /\ Last(results'[r]) = [Validated(w, i, Flags(r)) EXCEPT !.hit = TRUE]
      ]_adjudicatorVars

\* Adjudications that start end, whatever the model does and whatever happens to
\* the cache: retries are counted, across schema attempts and transient failures
\* alike (index.ts).
EventuallyAdjudicated == <>[](\A r \in Runs : stage[r] # "idle" => Finished(r))

=============================================================================
