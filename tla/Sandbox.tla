------------------------------ MODULE Sandbox ------------------------------
(***************************************************************************)
(* The sandbox a case's material passes before anything reads it.  A       *)
(* material is the set of its texts: values and property names, each with  *)
(* its depth, its position in the array around it, and where an injection  *)
(* rule matches: in the text as it came ("whole"), in what is left of it   *)
(* once it is cut ("left").  Either may hold without the other: a match    *)
(* may lie in the part cut off, and a rule that ends at the end of a word  *)
(* may match only where the cut ends one.                                  *)
(***************************************************************************)
EXTENDS Naturals

MAX_DEPTH == 8
MAX_ARRAY_LENGTH == 100

\* Names are never cut, so they match in both or in neither.
Text ==
    {t \in [at: {"value", "key"}, depth: 1..MAX_DEPTH + 1, index: 0..MAX_ARRAY_LENGTH,
            matches: SUBSET {"whole", "left"}] :
        t.at = "key" => t.matches \in {{}, {"whole", "left"}}}

\* rules.ts: every rule, whatever it looks for, raises the same flag.
InjectionRules == {"imperative_override", "role_forgery", "targeted_instruction",
                   "obfuscation_zero_width", "obfuscation_bidi", "obfuscation_base64"}
FlagOf == [rule \in InjectionRules |-> "injection_attempt"]

\* walk comes to a text unless it lies too deep or past the end of an array.  A
\* name is read with the object it belongs to, one level above its value.
Visited(t) ==
    /\ t.index < MAX_ARRAY_LENGTH
    /\ IF t.at = "key" THEN t.depth - 1 =< MAX_DEPTH ELSE t.depth =< MAX_DEPTH

\* The text is scanned as it came, and only then cut.
\* BUG: the text is cut first and scanned after it.
DetectedOnceCut(t) == Visited(t) /\ "left" \in t.matches
Detected(t) == Visited(t) /\ "whole" \in t.matches

\* What is left of a text.
Kept(t) == [t EXCEPT !.matches = @ \intersect {"left"}]

Fields(material) == {Kept(t) : t \in {x \in material : Visited(x)}}

DetectedFlags(material) ==
    {FlagOf[rule] : rule \in IF \E t \in material : Detected(t) THEN InjectionRules ELSE {}}

Sanitized(material) == [fields |-> Fields(material), flags |-> DetectedFlags(material)]
=============================================================================
