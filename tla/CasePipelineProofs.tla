------------------------- MODULE CasePipelineProofs -------------------------
(***************************************************************************)
(* What holds of a case's pipeline for every rubric, module answer,        *)
(* deployment and policy.  Nothing of it depends on the order of steps     *)
(* except through PipelineInv, which says of each stage what the stages    *)
(* before it have left: the bought answer, the legs built from it, the     *)
(* document signed over the legs, the report made of the document.  The    *)
(* rest is what the operators do with these, each in a lemma of its own.   *)
(***************************************************************************)
EXTENDS CasePipeline, FiniteSetTheorems, WellFoundedInduction, TLAPS

-----------------------------------------------------------------------------
(* Least elements, and functions defined by a loop *)

LEMMA LeastElement ==
  ASSUME NEW S, S \subseteq Nat, S # {}
  PROVE  \E least \in S : \A other \in S : least =< other
  <1> DEFINE R == {ss \in Nat \X Nat : ss[1] < ss[2]}
  <1>1. IsWellFoundedOn(R, Nat)
    BY NatLessThanWellFounded DEF OpToRel
  <1> HIDE DEF R
  <1>2. PICK least \in S : \A other \in S : ~(<<other, least>> \in R)
    BY <1>1, WFMin
  <1>3. ASSUME NEW other \in S PROVE least =< other
    <2>1. least \in Nat /\ other \in Nat
      OBVIOUS
    <2>2. other < least => <<other, least>> \in R
      BY <2>1 DEF R
    <2> QED BY <1>2, <2>1, <2>2
  <1> QED BY <1>3

LEMMA MinIsLeast ==
  ASSUME NEW S, S \subseteq Nat, S # {}
  PROVE  Min(S) \in S
  BY LeastElement DEF Min

LEMMA UptoInduction ==
  ASSUME NEW n \in Nat, NEW P, 0 \in P, \A k \in 1..n : k - 1 \in P => k \in P
  PROVE  \A k \in 0..n : k \in P
  <1> DEFINE Bad == {k \in 0..n : k \notin P}
  <1>1. ASSUME Bad # {} PROVE FALSE
    <2>1. Bad \subseteq Nat
      OBVIOUS
    <2>2. PICK m \in Bad : \A other \in Bad : m =< other
      <3> HIDE DEF Bad
      <3> QED BY <1>1, <2>1, LeastElement
    <2>3. m \in 1..n /\ m \notin P
      OBVIOUS
    <2>4. m - 1 \in 0..n /\ ~(m =< m - 1)
      BY <2>3
    <2>5. m - 1 \notin Bad
      BY <2>2, <2>4
    <2> QED BY <2>3, <2>4, <2>5
  <1> QED BY <1>1

\* A loop over 1..n that turns a value of S into the next one has a result after
\* every turn.
IsTurn(n, S, turn) == turn \in [1..n -> [S -> S]]
IsRun(n, S, first, turn, f) ==
    f \in [0..n -> S] /\ f[0] = first /\ \A k \in 1..n : f[k] = turn[k][f[k - 1]]

LEMMA Loop ==
  ASSUME NEW n \in Nat, NEW S, NEW first \in S, NEW turn, IsTurn(n, S, turn)
  PROVE  \E f : IsRun(n, S, first, turn, f)
  <1> USE DEF IsTurn
  <1> DEFINE Upto(m, f) == f[0] = first /\ \A k \in 1..m : f[k] = turn[k][f[k - 1]]
             Good == {m \in 0..n : \E f \in [0..m -> S] : Upto(m, f)}
  <1>1. 0 \in Good
    <2>1. [k \in 0..0 |-> first] \in [0..0 -> S] /\ Upto(0, [k \in 0..0 |-> first])
      OBVIOUS
    <2> HIDE DEF Upto
    <2> QED BY <2>1
  <1>2. ASSUME NEW m \in 1..n, m - 1 \in Good PROVE m \in Good
    <2>1. PICK g \in [0..m - 1 -> S] : Upto(m - 1, g)
      BY <1>2
    <2> DEFINE f == [k \in 0..m |-> IF k = m THEN turn[m][g[m - 1]] ELSE g[k]]
    <2>2. turn[m][g[m - 1]] \in S
      BY <2>1
    <2>3. f \in [0..m -> S]
      BY <2>2
    <2>4. f[0] = first
      BY <2>1
    <2>5. ASSUME NEW k \in 1..m PROVE f[k] = turn[k][f[k - 1]]
      BY <2>1
    <2>6. f \in [0..m -> S] /\ Upto(m, f)
      BY <2>3, <2>4, <2>5
    <2> HIDE DEF Upto, f
    <2> QED BY <2>6
  <1>3. \A m \in 0..n : m \in Good
    <2> HIDE DEF Good
    <2> QED BY <1>1, <1>2, UptoInduction
  <1> QED BY <1>3 DEF IsRun

-----------------------------------------------------------------------------
(* The worst of what was found *)

LEMMA WorstOfThree ==
  ASSUME NEW found, found # {}, NEW severity,
         NEW a, NEW b, NEW c, found \subseteq {a, b, c},
         severity[a] \in Nat, severity[b] \in Nat, severity[c] \in Nat
  PROVE  /\ Worst(found, severity) \in found
         /\ \A other \in found : severity[other] =< severity[Worst(found, severity)]
  <1>1. \E worst \in found : \A other \in found : severity[other] =< severity[worst]
    OBVIOUS
  <1> QED BY <1>1 DEF Worst

LEMMA WorstCondition ==
  ASSUME NEW found, found # {}, found \subseteq Condition
  PROVE  /\ Worst(found, ConditionSeverity) \in found
         /\ \A other \in found :
                ConditionSeverity[other] =< ConditionSeverity[Worst(found, ConditionSeverity)]
  BY WorstOfThree DEF Condition, ConditionSeverity

LEMMA WorstConfidence ==
  ASSUME NEW found, found # {}, found \subseteq Confidence
  PROVE  /\ Worst(found, ConfidenceSeverity) \in found
         /\ \A other \in found :
                ConfidenceSeverity[other] =< ConfidenceSeverity[Worst(found, ConfidenceSeverity)]
  BY WorstOfThree DEF Confidence, ConfidenceSeverity

\* condition.ts: the module passes a leg only when nothing it found speaks
\* against it, and something was looked at.
LEMMA ModuleCondition ==
  ASSUME NEW m, m.overall \in CheckStatus, m.evaluated \in Nat
  PROVE  /\ ConditionFromModule(m) \in Condition
         /\ ConditionFromModule(m) = "PASS" =>
              /\ m.overall = "PASS" /\ m.evaluated > 0
              /\ m.blocked = {} /\ m.escalated = {}
  <1> DEFINE found == {ConditionFromConstraints(m), ConditionFromOverall(m.overall)}
  <1>1. ConditionFromConstraints(m) \in Condition /\ ConditionFromOverall(m.overall) \in Condition
    BY DEF ConditionFromConstraints, ConditionFromOverall, Condition, CheckStatus
  <1>2. ConditionFromModule(m) = Worst(found, ConditionSeverity)
    BY DEF ConditionFromModule
  <1>3. /\ ConditionFromModule(m) \in found
        /\ \A other \in found :
              ConditionSeverity[other] =< ConditionSeverity[ConditionFromModule(m)]
    BY <1>1, <1>2, WorstCondition
  <1>4. ASSUME ConditionFromModule(m) = "PASS"
        PROVE  ConditionFromConstraints(m) = "PASS" /\ ConditionFromOverall(m.overall) = "PASS"
    <2>1. \A c \in Condition : ConditionSeverity[c] =< 0 => c = "PASS"
      BY DEF Condition, ConditionSeverity
    <2>2. ConditionSeverity["PASS"] = 0
      BY DEF ConditionSeverity
    <2> QED BY <1>1, <1>3, <1>4, <2>1, <2>2
  <1>5. ConditionFromConstraints(m) = "PASS" => m.evaluated > 0 /\ m.blocked = {} /\ m.escalated = {}
    BY DEF ConditionFromConstraints
  <1>6. ConditionFromOverall(m.overall) = "PASS" => m.overall = "PASS"
    BY DEF ConditionFromOverall
  <1> QED BY <1>1, <1>3, <1>4, <1>5, <1>6

LEMMA ConditionOfOne ==
  ASSUME NEW m, m.overall \in CheckStatus, m.evaluated \in Nat
  PROVE  DeriveCondition(<<m>>) = ConditionFromModule(m)
  <1>1. {ConditionFromModule(x) : x \in ToSet(<<m>>)} = {ConditionFromModule(m)}
    BY DEF ToSet
  <1>2. ConditionFromModule(m) \in Condition
    BY ModuleCondition
  <1>3. Worst({ConditionFromModule(m)}, ConditionSeverity) = ConditionFromModule(m)
    BY <1>2, WorstCondition
  <1>4. <<m>> # <<>>
    OBVIOUS
  <1> QED BY <1>1, <1>3, <1>4 DEF DeriveCondition

\* confidence.ts: one gray verdict keeps a leg from high confidence.
LEMMA LegConfidence ==
  ASSUME NEW verdicts, verdicts \in Seq(Verdict), verdicts # <<>>
  PROVE  /\ DeriveLegConfidence(verdicts) \in Confidence
         /\ \A n \in DOMAIN verdicts :
                ConfidenceFromVerdict(verdicts[n]) # "high" => DeriveLegConfidence(verdicts) # "high"
  <1> DEFINE found == {ConfidenceFromVerdict(v) : v \in ToSet(verdicts)}
  <1>1. \A v : ConfidenceFromVerdict(v) \in Confidence
    BY DEF ConfidenceFromVerdict, Confidence
  <1>2. 1 \in DOMAIN verdicts
    OBVIOUS
  <1>3. \A n \in DOMAIN verdicts : ConfidenceFromVerdict(verdicts[n]) \in found
    BY DEF ToSet
  <1>4. found # {} /\ found \subseteq Confidence
    BY <1>1, <1>2, <1>3
  <1> HIDE DEF found
  <1>5. DeriveLegConfidence(verdicts) = Worst(found, ConfidenceSeverity)
    BY DEF DeriveLegConfidence, found
  <1>6. /\ DeriveLegConfidence(verdicts) \in Confidence
        /\ \A other \in found :
              ConfidenceSeverity[other] =< ConfidenceSeverity[DeriveLegConfidence(verdicts)]
    BY <1>4, <1>5, WorstConfidence
  <1>7. ConfidenceSeverity["high"] = 0
        /\ \A c \in Confidence : ConfidenceSeverity[c] =< 0 => c = "high"
    BY DEF Confidence, ConfidenceSeverity
  <1> QED BY <1>3, <1>4, <1>6, <1>7

-----------------------------------------------------------------------------
(* The wallet's policy *)

\* What is paid is a payable leg of the document.
LEMMA PaymentsArePayable ==
  ASSUME NEW legz, legz \in Seq(ToSet(legz)), NEW policy
  PROVE  PaymentsOf(legz, policy) \in Seq({leg \in ToSet(legz) : Payable(leg, policy)})
  <1> DEFINE Paid == {leg \in ToSet(legz) : Payable(leg, policy)}
             Turn(k, q) == IF k = 0 THEN <<>>
                           ELSE IF Payable(legz[k], policy) THEN Append(q, legz[k])
                           ELSE q
             IsLoop(g) == g = [k \in 0..Len(legz) |-> Turn(k, g[k - 1])]
             chosen == CHOOSE g : IsLoop(g)
  <1>1. PaymentsOf(legz, policy) = chosen[Len(legz)]
    BY DEF PaymentsOf
  <1>2. PICK n \in Nat : n = Len(legz)
    OBVIOUS
  <1>3. PICK S : S = Seq(Paid)
    OBVIOUS
  <1>4. PICK first : first = <<>>
    OBVIOUS
  <1>0. first \in S
    <2>1. <<>> \in Seq(Paid)
      OBVIOUS
    <2> QED BY <1>3, <1>4, <2>1
  <1>5. ASSUME NEW k \in 1..n, NEW q \in S PROVE Turn(k, q) \in S
    <2>1. legz[k] \in ToSet(legz) /\ k # 0
      BY <1>2 DEF ToSet
    <2> QED BY <1>3, <2>1
  <1>6. \A q : Turn(0, q) = first
    BY <1>4
  <1> HIDE DEF Turn, Paid, chosen
  <1>7. \E g : IsLoop(g)
    <2>1. PICK turn : turn = [k \in 1..n |-> [q \in S |-> Turn(k, q)]]
      OBVIOUS
    <2>2. IsTurn(n, S, turn)
      BY <1>5, <2>1 DEF IsTurn
    <2>3. PICK f : IsRun(n, S, first, turn, f)
      BY <1>0, <2>2, Loop
    <2>4. ASSUME NEW k \in 0..n PROVE f[k] = Turn(k, f[k - 1])
      <3>1. CASE k = 0
        BY <1>6, <2>3, <3>1 DEF IsRun
      <3>2. CASE k # 0
        <4>1. k \in 1..n /\ f[k - 1] \in S
          BY <2>3, <3>2 DEF IsRun
        <4>2. turn[k][f[k - 1]] = Turn(k, f[k - 1])
          BY <2>1, <4>1
        <4> QED BY <2>3, <4>1, <4>2 DEF IsRun
      <3> QED BY <3>1, <3>2
    <2>5. f = [k \in 0..n |-> Turn(k, f[k - 1])]
      BY <2>3, <2>4 DEF IsRun
    <2> QED BY <1>2, <2>5
  <1>8. IsLoop(chosen)
    <2> HIDE DEF IsLoop
    <2> QED BY <1>7 DEF chosen
  <1>9. \A k \in 0..n : chosen[k] = Turn(k, chosen[k - 1])
    BY <1>2, <1>8
  <1>10. chosen[0] \in S
    <2>1. 0 \in 0..n
      OBVIOUS
    <2> QED BY <1>0, <1>6, <1>9, <2>1
  <1>11. ASSUME NEW k \in 1..n, chosen[k - 1] \in S PROVE chosen[k] \in S
    BY <1>5, <1>9, <1>11
  <1>12. chosen[n] \in S
    <2>1. PICK P : P = {k \in 0..n : chosen[k] \in S}
      OBVIOUS
    <2>2. 0 \in P /\ \A k \in 1..n : k - 1 \in P => k \in P
      BY <1>10, <1>11, <2>1
    <2>3. \A k \in 0..n : k \in P
      BY <2>2, UptoInduction
    <2> QED BY <2>1, <2>3
  <1> QED BY <1>1, <1>2, <1>3, <1>12 DEF Paid

LEMMA AmountsLoop ==
  ASSUME NEW n \in Nat, NEW p, n = Len(p), \A k \in 1..n : p[k].amount \in Int
  PROVE  \E g \in [0..n -> Int] :
            /\ g[0] = 0 /\ \A k \in 1..n : g[k] = g[k - 1] + p[k].amount
            /\ Amounts(p) = g[n]
  <1> DEFINE IsLoop(g) == g = [k \in 0..Len(p) |-> IF k = 0 THEN 0 ELSE g[k - 1] + p[k].amount]
             chosen == CHOOSE g : IsLoop(g)
  <1>1. Amounts(p) = chosen[Len(p)]
    BY DEF Amounts
  <1>2. \E g : IsLoop(g)
    <2>1. PICK turn : turn = [k \in 1..n |-> [sum \in Int |-> sum + p[k].amount]]
      OBVIOUS
    <2>2. IsTurn(n, Int, turn)
      BY <2>1 DEF IsTurn
    <2>0. 0 \in Int
      OBVIOUS
    <2>3. PICK f : IsRun(n, Int, 0, turn, f)
      BY <2>0, <2>2, Loop
    <2>4. ASSUME NEW k \in 0..n
          PROVE  f[k] = IF k = 0 THEN 0 ELSE f[k - 1] + p[k].amount
      <3>1. CASE k = 0
        BY <2>3, <3>1 DEF IsRun
      <3>2. CASE k # 0
        <4>1. k \in 1..n /\ f[k - 1] \in Int
          BY <2>3, <3>2 DEF IsRun
        <4>2. turn[k][f[k - 1]] = f[k - 1] + p[k].amount
          BY <2>1, <4>1
        <4> QED BY <2>3, <3>2, <4>1, <4>2 DEF IsRun
      <3> QED BY <3>1, <3>2
    <2>5. IsLoop(f)
      BY <2>3, <2>4 DEF IsRun
    <2> QED BY <2>5
  <1>3. IsLoop(chosen)
    <2> HIDE DEF IsLoop
    <2> QED BY <1>2
  <1> HIDE DEF chosen
  <1>4. /\ chosen[0] = 0 /\ DOMAIN chosen = 0..n
        /\ \A k \in 1..n : chosen[k] = chosen[k - 1] + p[k].amount
        /\ chosen = [k \in 0..n |-> chosen[k]]
    BY <1>3
  <1> HIDE DEF IsLoop
  <1>5. \A k \in 0..n : chosen[k] \in Int
    <2>1. PICK P : P = {k \in 0..n : chosen[k] \in Int}
      OBVIOUS
    <2>2. 0 \in P
      BY <1>4, <2>1
    <2>4. ASSUME NEW k \in 1..n, k - 1 \in P PROVE k \in P
      <3>1. chosen[k] = chosen[k - 1] + p[k].amount /\ p[k].amount \in Int
        BY <1>4
      <3>2. chosen[k - 1] \in Int
        BY <2>1, <2>4
      <3> QED BY <2>1, <3>1, <3>2
    <2>3. \A k \in 0..n : k \in P
      BY <2>2, <2>4, UptoInduction
    <2> QED BY <2>1, <2>3
  <1>6. chosen \in [0..n -> Int]
    BY <1>4, <1>5
  <1> QED BY <1>1, <1>4, <1>6

\* The first payments come to no more than all of them.
LEMMA FirstPaymentsCostLess ==
  ASSUME NEW S, NEW p \in Seq(S), \A k \in 1..Len(p) : p[k].amount \in Nat,
         NEW m \in 0..Len(p)
  PROVE  /\ Amounts(p) \in Int /\ Amounts(SubSeq(p, 1, m)) \in Int
         /\ Amounts(SubSeq(p, 1, m)) =< Amounts(p)
  <1>1. PICK n \in Nat : n = Len(p)
    OBVIOUS
  <1>2. PICK some : some = SubSeq(p, 1, m)
    OBVIOUS
  <1>3. m \in Nat /\ m \in 0..n /\ Len(some) = m /\ \A k \in 1..m : some[k] = p[k]
    BY <1>1, <1>2
  <1>4. \A k \in 1..n : p[k].amount \in Nat
    BY <1>1
  <1>5. PICK g \in [0..n -> Int] :
            /\ g[0] = 0 /\ \A k \in 1..n : g[k] = g[k - 1] + p[k].amount
            /\ Amounts(p) = g[n]
    <2>1. \A k \in 1..n : p[k].amount \in Int
      BY <1>4
    <2> QED BY <1>1, <2>1, AmountsLoop
  <1>6. PICK h \in [0..m -> Int] :
            /\ h[0] = 0 /\ \A k \in 1..m : h[k] = h[k - 1] + some[k].amount
            /\ Amounts(some) = h[m]
    <2>1. \A k \in 1..m : some[k].amount \in Int
      BY <1>3, <1>4
    <2> QED BY <1>3, <2>1, AmountsLoop
  <1>7. h[m] = g[m]
    <2>1. PICK P : P = {k \in 0..m : h[k] = g[k]}
      OBVIOUS
    <2>2. 0 \in P
      BY <1>3, <1>5, <1>6, <2>1
    <2>3. ASSUME NEW k \in 1..m, k - 1 \in P PROVE k \in P
      <3>1. h[k] = h[k - 1] + p[k].amount
        BY <1>3, <1>6
      <3>2. g[k] = g[k - 1] + p[k].amount
        BY <1>3, <1>5
      <3> QED BY <2>1, <2>3, <3>1, <3>2
    <2>4. \A k \in 0..m : k \in P
      BY <1>3, <2>2, <2>3, UptoInduction
    <2> QED BY <1>3, <2>1, <2>4
  <1>8. g[m] =< g[n]
    <2>1. PICK P : P = {k \in 0..n : k >= m => g[m] =< g[k]}
      OBVIOUS
    <2>2. \A k \in 0..n : g[k] \in Int
      BY <1>5
    <2>3. 0 \in P
      <3>1. 0 >= m => m = 0
        BY <1>3
      <3> QED BY <1>3, <2>1, <2>2, <3>1
    <2>4. ASSUME NEW k \in 1..n, k - 1 \in P PROVE k \in P
      <3>1. g[k] = g[k - 1] + p[k].amount /\ p[k].amount \in Nat
        BY <1>4, <1>5
      <3>2. g[k] \in Int /\ g[k - 1] \in Int /\ g[m] \in Int
        BY <1>3, <2>2
      <3>3. CASE k = m
        BY <2>1, <3>2, <3>3
      <3>4. CASE k # m
        <4>1. k >= m => k - 1 >= m
          BY <1>3, <3>4
        <4>2. k - 1 >= m => g[m] =< g[k - 1]
          BY <2>1, <2>4
        <4>3. k >= m => g[m] =< g[k]
          <5>1. \A x, y, z \in Int : x =< y /\ z >= 0 => x =< y + z
            OBVIOUS
          <5>2. p[k].amount \in Int /\ p[k].amount >= 0
            BY <3>1
          <5> QED BY <3>1, <3>2, <4>1, <4>2, <5>1, <5>2
        <4> QED BY <2>1, <4>3
      <3> QED BY <3>3, <3>4
    <2>5. \A k \in 0..n : k \in P
      BY <2>3, <2>4, UptoInduction
    <2> QED BY <1>3, <2>1, <2>5
  <1> QED BY <1>1, <1>2, <1>3, <1>5, <1>6, <1>7, <1>8

-----------------------------------------------------------------------------
(* The invariant *)

Settled == job \in {"completed", "rejected"}
Bought ==
    \E answer \in Answers :
        Procured(answer, Module, Case) /\ purchase = PurchaseOf(answer) /\ spent = answer.amount
Escalates == decision.exit = "interpretive_gray"
Escalation ==
    IF Escalates
    THEN BuildCaseEscalation(Rubric, Items(input.verdicts), EscalatedIds, input.config)
    ELSE NoMaterial
Built ==
    /\ Bought /\ decision = RouteExit("ok", FALSE, Summaries)
    /\ Escalates => input.config # NoMaterial
    /\ legs = BuildSettlementLegs(input.settlement, purchase.response, Rubric,
                                  Items(input.verdicts), Escalation)
Document ==
    SignSa(BuildSaBody(Case, Job, Expiry, purchase.response, legs, Len(Rubric)),
           input.deployment.signer)
Reported ==
    Verify(sa, Rubric, input.deployment.manifest, input.deployment.registry,
           sa.attestation.sa_hash)
Inputs == [evidence: Evidence, config: Configs, verdicts: [DOMAIN Rubric -> Verdict],
           deployment: Deployments, settlement: Settlements]

\* A case's material and the cast of stages.
Stages ==
    /\ input \in Inputs
    /\ stage \in {"intake", "rejected", "opened", "adjudicated", "decided", "signed",
                  "submitted", "verified", "settled", "answered", "failed"}
    /\ job \in {"funded", "submitted", "completed", "rejected", "expired"}
    /\ Settled => stage \in {"settled", "answered", "failed"}
    /\ now \in 0..1

\* What the stages leave.
PurchaseInv ==
    /\ spent \in Nat
    /\ stage \in {"intake", "opened"} => spent = 0 /\ legs = <<>>
    /\ stage = "adjudicated" => Bought /\ legs = <<>>
LegsInv ==
    /\ stage \in {"decided", "signed", "submitted", "verified", "settled", "answered"} \/ Settled
         => legs # <<>>
    /\ legs # <<>> => Built
    /\ legs = <<>> => decision.exit \in {"none", "high_confidence", "interpretive_gray"}
DocumentInv ==
    /\ HasSa \/ Settled => sa = Document
    /\ stage \in {"verified", "settled", "answered"} \/ Settled => report = Reported
    /\ job = "completed" => report.passed

PipelineInv == Stages /\ PurchaseInv /\ LegsInv /\ DocumentInv

-----------------------------------------------------------------------------
(* Every step keeps it *)

LEMMA Unmoved ==
  ASSUME UNCHANGED <<input, decision, purchase, spent, legs>>
  PROVE  /\ Bought' <=> Bought
         /\ Built' <=> Built
         /\ Document' = Document
  BY DEF Bought, Built, Document, Escalation, Escalates, Summaries, EscalatedIds

LEMMA BuiltIsOneLeg ==
  ASSUME NEW s, NEW m, NEW rubric, NEW items, NEW e
  PROVE  BuildSettlementLegs(s, m, rubric, items, e) # <<>>
  BY DEF BuildSettlementLegs

LEMMA InitialPipeline ==
  ASSUME PipelineInit PROVE PipelineInv
  BY DEF PipelineInit, PipelineInv, Stages, PurchaseInv, LegsInv, DocumentInv, Inputs, Settled,
         HasSa, NoDecision, Decision

\* A material is never without a field: the deal's activity is one.
LEMMA IntakeIsOk ==
  ASSUME NEW evidence
  PROVE  IntakeStatus(Sanitized(evidence \union {Activity})) = "ok"
  <1>1. Visited(Activity)
    BY DEF Visited, Activity, MAX_ARRAY_LENGTH, MAX_DEPTH
  <1>2. Kept(Activity) \in Sanitized(evidence \union {Activity}).fields
    BY <1>1 DEF Sanitized, Fields
  <1> QED BY <1>2 DEF IntakeStatus

LEMMA ExitOfDecision ==
  ASSUME NEW exit, NEW chainAction, NEW actor
  PROVE  Decision(exit, chainAction, actor).exit = exit
  BY DEF Decision

\* What is bought leaves no gap to buy away: two exits are left.
LEMMA TwoExits ==
  ASSUME NEW taken, taken = RouteExit("ok", FALSE, Summaries)
  PROVE  /\ taken.exit \in {"high_confidence", "interpretive_gray"}
         /\ (taken.exit = "interpretive_gray") <=> \E a \in ToSet(Summaries) : NeedsEscalation(a)
  <1>1. \A a \in ToSet(Summaries) : a.exhausted = TRUE
    BY DEF Summaries, ToRoutingSummaries, ToSet
  <1>2. ~\E a \in ToSet(Summaries) : IsOpenDataGap(a)
    BY <1>1 DEF IsOpenDataGap
  <1>3. CASE \E a \in ToSet(Summaries) : NeedsEscalation(a)
    <2>1. taken = Decision("interpretive_gray", "submit", "operator")
      BY <1>2, <1>3 DEF RouteExit
    <2>2. taken.exit = "interpretive_gray"
      BY <2>1, ExitOfDecision, Zenon
    <2>3. taken.exit \in {"high_confidence", "interpretive_gray"}
      BY <2>2
    <2> QED BY <1>3, <2>2, <2>3, Zenon
  <1>4. CASE ~\E a \in ToSet(Summaries) : NeedsEscalation(a)
    <2>1. taken = Decision("high_confidence", "submit", "operator")
      BY <1>2, <1>4 DEF RouteExit
    <2>2. taken.exit = "high_confidence"
      BY <2>1, ExitOfDecision, Zenon
    <2>3. taken.exit \in {"high_confidence", "interpretive_gray"}
      BY <2>2
    <2>4. taken.exit # "interpretive_gray"
      BY <2>2
    <2> QED BY <1>4, <2>3, <2>4, Zenon
  <1> QED BY <1>3, <1>4

LEMMA StagesStep ==
  ASSUME PipelineInv, [PipelineNext]_pipelineVars PROVE Stages'
  <1> USE DEF Stages, Settled
  <1>1. Stages
    BY DEF PipelineInv
  <1>2. input' = input
    BY DEF PipelineNext, pipelineVars, caseVars, moneyVars, Intake, PurchaseFails, Procure, Decide,
           Sign, Submit, VerifyCase, Settle, ChangeRates, RecordBooks, AttachSettlement, Expire,
           ClaimRefund, Review, PayOut
  <1>3. CASE Intake \/ PurchaseFails \/ Procure \/ Decide \/ Sign \/ VerifyCase
    BY <1>1, <1>2, <1>3 DEF Intake, PurchaseFails, Procure, Decide, Sign, VerifyCase, moneyVars
  <1>4. CASE Submit \/ Settle \/ ChangeRates \/ RecordBooks
    BY <1>1, <1>2, <1>4 DEF Submit, Settle, ChangeRates, RecordBooks
  <1>5. CASE AttachSettlement \/ Expire \/ ClaimRefund \/ Review \/ PayOut
    BY <1>1, <1>2, <1>5 DEF AttachSettlement, Expire, ClaimRefund, Review, PayOut
  <1>6. CASE UNCHANGED pipelineVars
    BY <1>1, <1>6 DEF pipelineVars, moneyVars, caseVars
  <1> QED BY <1>3, <1>4, <1>5, <1>6 DEF PipelineNext

LEMMA BoughtStep ==
  ASSUME PipelineInv, [PipelineNext]_pipelineVars PROVE PurchaseInv'
  <1> USE DEF PurchaseInv
  <1>1. PurchaseInv
    BY DEF PipelineInv
  <1>2. CASE Intake \/ PurchaseFails
    BY <1>1, <1>2 DEF Intake, PurchaseFails, caseVars
  <1>3. CASE Procure
    <2>1. PICK answer \in Answers :
            /\ spent' = spent + answer.amount
            /\ IF Procured(answer, Module, Case)
               THEN purchase' = PurchaseOf(answer) /\ stage' = "adjudicated"
               ELSE purchase' = purchase /\ stage' = "failed"
      BY <1>3 DEF Procure
    <2>2. spent = 0 /\ legs = <<>> /\ legs' = <<>> /\ answer.amount \in Nat
      BY <1>1, <1>3, AmountsAssumption DEF Procure, AmountsAssumption
    <2>3. spent' = answer.amount
      BY <2>1, <2>2
    <2>4. Procured(answer, Module, Case) => Bought'
      BY <2>1, <2>3 DEF Bought
    <2> QED BY <2>1, <2>2, <2>3, <2>4
  <1>4. CASE Decide
    BY <1>1, <1>4 DEF Decide
  <1>5. CASE Sign \/ Submit \/ VerifyCase \/ Settle \/ ChangeRates \/ RecordBooks
    BY <1>1, <1>5 DEF Sign, Submit, VerifyCase, Settle, ChangeRates, RecordBooks, caseVars
  <1>6. CASE AttachSettlement \/ Expire \/ ClaimRefund \/ Review \/ PayOut
             \/ UNCHANGED pipelineVars
    <2>1. UNCHANGED <<stage, spent, legs>> /\ UNCHANGED <<input, decision, purchase, spent, legs>>
      BY <1>6 DEF AttachSettlement, Expire, ClaimRefund, Review, PayOut, pipelineVars, caseVars
    <2>2. Bought' <=> Bought
      BY <2>1, Unmoved
    <2> QED BY <1>1, <2>1, <2>2
  <1> QED BY <1>2, <1>3, <1>4, <1>5, <1>6 DEF PipelineNext

LEMMA LegsStep ==
  ASSUME PipelineInv, [PipelineNext]_pipelineVars PROVE LegsInv'
  <1> USE DEF LegsInv, Settled
  <1>1. Stages /\ PurchaseInv /\ LegsInv
    BY DEF PipelineInv
  <1>2. CASE Intake
    <2>1. stage' = "opened" /\ decision' = decision /\ UNCHANGED <<legs, job>>
      BY <1>2, IntakeIsOk DEF Intake, caseVars, moneyVars
    <2> QED BY <1>1, <1>2, <2>1 DEF Intake, PurchaseInv, Stages
  <1>3. CASE Procure
    BY <1>1, <1>3 DEF Procure, PurchaseInv, Stages, moneyVars
  <1>4. CASE Decide
    <2>1. /\ decision' = RouteExit("ok", FALSE, Summaries)
          /\ UNCHANGED <<input, purchase, spent, job>> /\ legs = <<>> /\ Bought
          /\ stage = "adjudicated"
      BY <1>1, <1>4 DEF Decide, PurchaseInv, moneyVars
    <2>2. ~Settled' /\ decision'.exit \in {"high_confidence", "interpretive_gray"}
      BY <1>1, <2>1, TwoExits DEF Stages
    <2>3. Bought'
      BY <2>1 DEF Bought
    <2>4. Summaries' = Summaries /\ EscalatedIds' = EscalatedIds
      BY <2>1 DEF Summaries, EscalatedIds
    <2>5. CASE stage' = "failed" /\ legs' = legs
      BY <2>1, <2>2, <2>5
    <2>6. CASE /\ stage' = "decided"
               /\ Escalates' => input.config # NoMaterial
               /\ legs' = BuildSettlementLegs(input.settlement, purchase.response, Rubric,
                                              Items(input.verdicts), Escalation')
      <3>1. Built'
        BY <2>1, <2>3, <2>4, <2>6 DEF Built, Escalates
      <3>2. legs' # <<>>
        BY <2>6, BuiltIsOneLeg
      <3> QED BY <2>2, <2>6, <3>1, <3>2
    <2> QED BY <1>4, <2>1, <2>4, <2>5, <2>6 DEF Decide, Escalation, Escalates
  <1>5. CASE PurchaseFails \/ Sign \/ Submit \/ VerifyCase \/ Settle \/ ChangeRates \/ RecordBooks
             \/ AttachSettlement \/ Expire \/ ClaimRefund \/ Review \/ PayOut
             \/ UNCHANGED pipelineVars
    <2>1. UNCHANGED <<input, decision, purchase, spent, legs>>
      BY <1>5 DEF PurchaseFails, Sign, Submit, VerifyCase, Settle, ChangeRates, RecordBooks,
                  AttachSettlement, Expire, ClaimRefund, Review, PayOut, pipelineVars, caseVars
    <2>2. Built' <=> Built
      BY <2>1, Unmoved
    <2>3. CASE PurchaseFails \/ Sign \/ Submit \/ VerifyCase
      BY <1>1, <2>1, <2>2, <2>3 DEF PurchaseFails, Sign, Submit, VerifyCase, moneyVars
    <2>4. CASE Settle \/ ChangeRates \/ RecordBooks
      BY <1>1, <2>1, <2>2, <2>4 DEF Settle, ChangeRates, RecordBooks
    <2>5. CASE AttachSettlement \/ Expire \/ ClaimRefund \/ Review \/ PayOut
      BY <1>1, <2>1, <2>2, <2>5 DEF AttachSettlement, Expire, ClaimRefund, Review, PayOut
    <2>6. CASE UNCHANGED pipelineVars
      BY <1>1, <2>1, <2>2, <2>6 DEF pipelineVars, moneyVars
    <2> QED BY <1>5, <2>3, <2>4, <2>5, <2>6
  <1> QED BY <1>2, <1>3, <1>4, <1>5 DEF PipelineNext

LEMMA DocumentStep ==
  ASSUME PipelineInv, [PipelineNext]_pipelineVars PROVE DocumentInv'
  <1> USE DEF DocumentInv, Settled, HasSa
  <1>1. Stages /\ LegsInv /\ DocumentInv
    BY DEF PipelineInv
  <1>2. CASE Intake \/ PurchaseFails \/ Procure \/ Decide
    <2>1. ~Settled' /\ stage' \in {"opened", "rejected", "failed", "adjudicated", "decided"}
      BY <1>1, <1>2 DEF Stages, Intake, PurchaseFails, Procure, Decide, moneyVars
    <2> QED BY <2>1
  <1>3. CASE Sign
    <2>1. ~Settled' /\ UNCHANGED <<input, decision, purchase, spent, legs>>
      BY <1>1, <1>3 DEF Stages, Sign, moneyVars
    <2>2. (stage' = "signed" /\ sa' = Document) \/ stage' = "failed"
      BY <1>3 DEF Sign, Document
    <2>3. Document' = Document
      BY <2>1, Unmoved
    <2> QED BY <2>1, <2>2, <2>3
  <1>4. CASE Submit \/ VerifyCase \/ Settle \/ ChangeRates \/ RecordBooks
             \/ AttachSettlement \/ Expire \/ ClaimRefund \/ Review \/ PayOut
             \/ UNCHANGED pipelineVars
    <2>1. UNCHANGED <<input, decision, purchase, spent, legs>> /\ UNCHANGED sa
      BY <1>4 DEF Submit, VerifyCase, Settle, ChangeRates, RecordBooks,
                  AttachSettlement, Expire, ClaimRefund, Review, PayOut, pipelineVars, caseVars
    <2>2. Document' = Document /\ Reported' = Reported
      BY <2>1, Unmoved DEF Reported
    <2>3. CASE Submit
      BY <1>1, <2>1, <2>2, <2>3 DEF Submit, Stages, caseVars
    <2>4. CASE VerifyCase
      BY <1>1, <2>1, <2>2, <2>4 DEF VerifyCase, Stages, moneyVars, Reported
    <2>5. CASE Settle
      BY <1>1, <2>1, <2>2, <2>5 DEF Settle, Stages, caseVars
    <2>6. CASE ChangeRates \/ RecordBooks
      BY <1>1, <2>1, <2>2, <2>6 DEF ChangeRates, RecordBooks, caseVars
    <2>7. CASE AttachSettlement \/ Expire \/ ClaimRefund \/ Review \/ PayOut
      BY <1>1, <2>1, <2>2, <2>7 DEF AttachSettlement, Expire, ClaimRefund, Review, PayOut, caseVars
    <2>8. CASE UNCHANGED pipelineVars
      BY <1>1, <2>1, <2>2, <2>8 DEF pipelineVars, moneyVars, caseVars
    <2> QED BY <1>4, <2>3, <2>4, <2>5, <2>6, <2>7, <2>8
  <1> QED BY <1>2, <1>3, <1>4 DEF PipelineNext

\* What each stage leaves to the next.
THEOREM AlwaysPipelineInv == PipelineSpec => []PipelineInv
  <1>1. PipelineInit => PipelineInv
    BY InitialPipeline
  <1>2. PipelineInv /\ [PipelineNext]_pipelineVars => PipelineInv'
    BY StagesStep, BoughtStep, LegsStep, DocumentStep DEF PipelineInv
  <1> QED BY <1>1, <1>2, PTL DEF PipelineSpec

-----------------------------------------------------------------------------
(* The verifier *)

\* A report passes exactly when none of the three checks found anything.
LEMMA PassedMeansNothingFound ==
  ASSUME NEW document, NEW rubric, NEW manifest, NEW registry, NEW submitted
  PROVE  Verify(document, rubric, manifest, registry, submitted).passed
            <=> /\ SignatureFailures(document, registry, submitted) = {}
                /\ AttestationFailures(document, manifest, registry) = {}
                /\ CoverageFailures(document, rubric) = {}
  <1> DEFINE a == Outcome("deliverable_signature", SignatureFailures(document, registry, submitted))
             b == Outcome("module_attestation", AttestationFailures(document, manifest, registry))
             c == Outcome("rubric_coverage", CoverageFailures(document, rubric))
  <1>1. Verify(document, rubric, manifest, registry, submitted).passed
          = \A o \in {a, b, c} : o.passed
    BY DEF Verify
  <1>2. /\ a.passed <=> SignatureFailures(document, registry, submitted) = {}
        /\ b.passed <=> AttestationFailures(document, manifest, registry) = {}
        /\ c.passed <=> CoverageFailures(document, rubric) = {}
    BY DEF Outcome
  <1> HIDE DEF a, b, c
  <1>3. (\A o \in {a, b, c} : o.passed) <=> a.passed /\ b.passed /\ c.passed
    OBVIOUS
  <1> QED BY <1>1, <1>2, <1>3

\* Nothing is found of a module only when the first entry for its version is
\* signed by a trusted attester over that very version and its rules.
LEMMA SoundEntry ==
  ASSUME NEW manifest, manifest \in Seq(ToSet(manifest)), NEW used, NEW registry,
         ModuleFailure(used, manifest, registry) = {}
  PROVE  \E n \in DOMAIN manifest :
            /\ manifest[n].module_id = used.module_id /\ manifest[n].version = used.version
            /\ manifest[n].attester \in registry.moduleAttesters
            /\ VerifyAttestationEntry(manifest[n])
  <1> DEFINE matching == {n \in DOMAIN manifest : /\ manifest[n].module_id = used.module_id
                                                  /\ manifest[n].version = used.version}
  <1>1. matching \subseteq Nat
    OBVIOUS
  <1>2. matching \subseteq DOMAIN manifest
        /\ \A n \in matching : /\ manifest[n].module_id = used.module_id
                               /\ manifest[n].version = used.version
    OBVIOUS
  <1>3. Unsound(matching, manifest, registry) = {}
    BY DEF ModuleFailure
  <1> HIDE DEF matching
  <1>4. matching # {}
    BY <1>3 DEF Unsound
  <1>5. Min(matching) \in matching
    BY <1>1, <1>4, MinIsLeast
  <1>6. PICK entry : entry = manifest[Min(matching)]
    OBVIOUS
  <1>7. entry.attester \in registry.moduleAttesters /\ VerifyAttestationEntry(entry)
    BY <1>3, <1>4, <1>6 DEF Unsound
  <1> QED BY <1>2, <1>5, <1>6, <1>7

\* A job is completed only for an answer of a module version that a trusted
\* attester, who is not the desk, has really signed, with its rules: for every
\* manifest and every answer (attestation.ts, trust-registry.ts).
THEOREM AlwaysCompletedMeansAttested == PipelineSpec => []CompletedMeansAttested
  <1>1. ASSUME PipelineInv, job = "completed" PROVE CompletedMeansAttested
    <2>1. sa = Document /\ report = Reported /\ report.passed /\ input.deployment \in Deployments
      BY <1>1 DEF PipelineInv, DocumentInv, Settled, Stages, Inputs
    <2>2. PICK d \in Deployments : d = input.deployment
      BY <2>1
    <2>3. /\ SignatureFailures(sa, d.registry, sa.attestation.sa_hash) = {}
          /\ AttestationFailures(sa, d.manifest, d.registry) = {}
      BY <2>1, <2>2, PassedMeansNothingFound DEF Reported
    <2>4. PICK used : used = [module_id |-> purchase.response.module_id,
                              version |-> purchase.response.version]
      OBVIOUS
    <2>5. used \in ToSet(sa.body.modules_used)
      BY <2>1, <2>4 DEF Document, SignSa, BuildSaBody, ToSet
    <2>6. ModuleFailure(used, d.manifest, d.registry) = {}
      BY <2>3, <2>5 DEF AttestationFailures
    <2>7. d.manifest \in Seq(ToSet(d.manifest)) /\ RegistryAccepted(d.registry)
      BY DeploymentAssumption DEF DeploymentAssumption
    <2>8. PICK n \in DOMAIN d.manifest :
            /\ d.manifest[n].module_id = used.module_id /\ d.manifest[n].version = used.version
            /\ d.manifest[n].attester \in d.registry.moduleAttesters
            /\ VerifyAttestationEntry(d.manifest[n])
      BY <2>6, <2>7, SoundEntry
    <2>9. PICK entry : entry = d.manifest[n]
      OBVIOUS
    <2>10. /\ entry.signature.by = entry.attester
           /\ entry.signature.over.version = entry.version
           /\ entry.signature.over.rulesHash = entry.rules_hash
      BY <2>8, <2>9 DEF VerifyAttestationEntry, Recovers, Signature, ModuleAttestationMessage
    <2>11. sa.attestation.signer \in d.registry.citelySigners
      BY <2>3 DEF SignatureFailures
    <2>12. entry.attester # sa.attestation.signer
      BY <2>7, <2>8, <2>9, <2>11 DEF RegistryAccepted
    <2> QED BY <2>2, <2>4, <2>8, <2>9, <2>10, <2>12 DEF CompletedMeansAttested
  <1>2. PipelineInv => CompletedMeansAttested
    BY <1>1 DEF CompletedMeansAttested
  <1> QED BY <1>2, AlwaysPipelineInv, PTL

-----------------------------------------------------------------------------
(* The leg of the case *)

LEMMA TheRubric ==
  /\ Len(Rubric) \in Nat \ {0} /\ DOMAIN Rubric = 1..Len(Rubric)
  /\ \A m, n \in DOMAIN Rubric : Rubric[m] = Rubric[n] => m = n
  /\ \A n \in DOMAIN Rubric : Rubric[n] \in ToSet(Rubric)
  BY RubricAssumption DEF RubricAssumption, ParseRubric, IsInjective, ToSet

LEMMA VerdictOfItem ==
  ASSUME NEW verdicts, verdicts \in [DOMAIN Rubric -> Verdict], NEW n \in DOMAIN Rubric
  PROVE  (CHOOSE a \in ToSet(Items(verdicts)) : a.item_id = Rubric[n]).verdict = verdicts[n]
  <1> DEFINE items == ToSet(Items(verdicts))
  <1>1. \A a \in items : \E m \in DOMAIN Rubric : a.item_id = Rubric[m] /\ a.verdict = verdicts[m]
    BY DEF Items, ToSet
  <1>2. \E a \in items : a.item_id = Rubric[n]
    <2>1. PICK a : a = Items(verdicts)[n]
      OBVIOUS
    <2>2. a \in items
      BY <2>1 DEF Items, ToSet
    <2>3. a.item_id = Rubric[n]
      BY <2>1 DEF Items
    <2> QED BY <2>2, <2>3
  <1> HIDE DEF items
  <1>3. PICK a : a = CHOOSE x \in items : x.item_id = Rubric[n]
    OBVIOUS
  <1>4. a \in items /\ a.item_id = Rubric[n]
    BY <1>2, <1>3
  <1>5. a.verdict = verdicts[n]
    BY <1>1, <1>4, TheRubric
  <1> QED BY <1>3, <1>5 DEF items

LegOf(s, m, verdicts, e) ==
    [party |-> s.party, payee |-> s.payee, amount |-> s.amount,
     basis |-> [n \in DOMAIN Rubric |-> [item_id |-> Rubric[n], verdict |-> verdicts[n]]],
     condition |-> DeriveCondition(<<m>>), confidence |-> DeriveLegConfidence(verdicts),
     escalation |-> e]

LEMMA TheLeg ==
  ASSUME NEW s, NEW m, NEW verdicts, verdicts \in [DOMAIN Rubric -> Verdict], NEW e
  PROVE  BuildSettlementLegs(s, m, Rubric, Items(verdicts), e) = <<LegOf(s, m, verdicts, e)>>
  <1> DEFINE VerdictOf(id) == (CHOOSE a \in ToSet(Items(verdicts)) : a.item_id = id).verdict
             basis == [n \in DOMAIN Rubric |->
                         [item_id |-> Rubric[n], verdict |-> VerdictOf(Rubric[n])]]
             known == [n \in DOMAIN Rubric |-> [item_id |-> Rubric[n], verdict |-> verdicts[n]]]
  <1>1. BuildSettlementLegs(s, m, Rubric, Items(verdicts), e)
          = <<BuildLeg(s.party, s.payee, s.amount, <<m>>, basis, e)>>
    BY DEF BuildSettlementLegs
  <1>2. \A n \in DOMAIN Rubric : VerdictOf(Rubric[n]) = verdicts[n]
    BY VerdictOfItem
  <1> HIDE DEF VerdictOf
  <1>3. basis = known
    BY <1>2
  <1>4. [n \in DOMAIN known |-> known[n].verdict] = verdicts
    OBVIOUS
  <1> HIDE DEF basis
  <1>5. BuildLeg(s.party, s.payee, s.amount, <<m>>, known, e) = LegOf(s, m, verdicts, e)
    BY <1>4 DEF BuildLeg, LegOf
  <1> QED BY <1>1, <1>3, <1>5

LEMMA VerdictsAreSequence ==
  ASSUME NEW verdicts, verdicts \in [DOMAIN Rubric -> Verdict]
  PROVE  verdicts \in Seq(Verdict) /\ verdicts # <<>> /\ DOMAIN verdicts = DOMAIN Rubric
  BY TheRubric

\* The items that are gray, by the kind of gray, are the items that escalate.
LEMMA GrayEscalates ==
  ASSUME input.verdicts \in [DOMAIN Rubric -> Verdict], NEW n \in DOMAIN Rubric,
         input.verdicts[n] \in {"gray_data", "gray_interpretive"}
  PROVE  /\ \E a \in ToSet(Summaries) : NeedsEscalation(a)
         /\ Rubric[n] \in EscalatedIds
  <1>1. PICK a : a = Summaries[n]
    OBVIOUS
  <1>2. a \in ToSet(Summaries) /\ a.item_id = Rubric[n] /\ a.exhausted = TRUE
        /\ a.gray_type = GrayTypeFor(input.verdicts[n])
    BY <1>1 DEF Summaries, ToRoutingSummaries, Items, ToSet
  <1>3. a.gray_type \in {"data", "interpretive"}
    BY <1>2 DEF GrayTypeFor
  <1>4. NeedsEscalation(a)
    BY <1>2, <1>3 DEF NeedsEscalation, ExitForGrayType
  <1> QED BY <1>2, <1>4 DEF EscalatedIds, ItemsNeedingEscalation

LEMMA EscalatedAreItems ==
  ASSUME input.verdicts \in [DOMAIN Rubric -> Verdict]
  PROVE  EscalatedIds \subseteq ToSet(Rubric)
  BY DEF EscalatedIds, ItemsNeedingEscalation, Summaries, ToRoutingSummaries, Items, ToSet

\* The leg has material exactly when an adjudication escalates.
LEMMA MaterialWhenEscalated ==
  ASSUME Built, input \in Inputs
  PROVE  (Escalation # NoMaterial) <=> Escalates
  <1>1. CASE ~Escalates
    BY <1>1 DEF Escalation
  <1>2. CASE Escalates
    <2>1. input.config \in Configs \ {NoMaterial} /\ input.verdicts \in [DOMAIN Rubric -> Verdict]
      BY <1>2 DEF Built, Inputs
    <2>2. EscalatedIds \in SUBSET ToSet(Rubric)
      BY <2>1, EscalatedAreItems
    <2>3. Escalation # NoMaterial
      BY <1>2, <2>1, <2>2, MaterialAssumption DEF Escalation, MaterialAssumption
    <2> QED BY <1>2, <2>3
  <1> QED BY <1>1, <1>2

\* Every item whose status is gray, or whose data gap the purchase did not
\* close, goes to a human with the leg, whatever the rubric and the rest of the
\* verdicts (exits.ts, stages.ts buildCaseEscalation).
THEOREM AlwaysGrayIsNeverSilent == PipelineSpec => []GrayIsNeverSilent
  <1>1. ASSUME PipelineInv, HasSa, NEW n \in DOMAIN Rubric,
               input.verdicts[n] \in {"gray_data", "gray_interpretive"},
               NEW leg \in ToSet(legs)
        PROVE  /\ leg.confidence # "high" /\ leg.escalation # NoMaterial
               /\ \E x \in leg.escalation.briefing :
                    x.item_id = Rubric[n] /\ x.verdict = input.verdicts[n]
    <2>1. Built /\ input \in Inputs
      BY <1>1 DEF PipelineInv, LegsInv, Stages, HasSa
    <2>2. PICK v : v = input.verdicts
      OBVIOUS
    <2>3. v \in [DOMAIN Rubric -> Verdict]
      BY <2>1, <2>2 DEF Inputs
    <2>4. leg = LegOf(input.settlement, purchase.response, v, Escalation)
      <3>1. legs = <<LegOf(input.settlement, purchase.response, v, Escalation)>>
        BY <2>1, <2>2, <2>3, TheLeg DEF Built
      <3> QED BY <3>1 DEF ToSet
    <2>5. leg.confidence = DeriveLegConfidence(v) /\ leg.escalation = Escalation
      BY <2>4 DEF LegOf
    <2>6. leg.confidence # "high"
      <3>1. ConfidenceFromVerdict(v[n]) # "high"
        BY <1>1, <2>2 DEF ConfidenceFromVerdict
      <3> QED BY <2>3, <2>5, <3>1, LegConfidence, VerdictsAreSequence
    <2>7. Rubric[n] \in EscalatedIds /\ \E a \in ToSet(Summaries) : NeedsEscalation(a)
      BY <1>1, <2>2, <2>3, GrayEscalates
    <2>8. Escalates
      BY <2>1, <2>7, TwoExits DEF Built, Escalates
    <2>9. Escalation # NoMaterial
      BY <2>1, <2>8, MaterialWhenEscalated
    <2>10. PICK x : x = [item_id |-> Rubric[n],
                         verdict |-> (CHOOSE a \in ToSet(Items(v)) : a.item_id = Rubric[n]).verdict]
      OBVIOUS
    <2>11. x \in BriefingItems(Rubric, Items(v), EscalatedIds)
      BY <2>7, <2>10, TheRubric DEF BriefingItems
    <2>12. x.item_id = Rubric[n] /\ x.verdict = v[n]
      BY <2>3, <2>10, VerdictOfItem
    <2>13. leg.escalation.briefing = BriefingItems(Rubric, Items(v), EscalatedIds)
      BY <2>2, <2>5, <2>8 DEF Escalation, BuildCaseEscalation
    <2> QED BY <2>2, <2>5, <2>6, <2>9, <2>11, <2>12, <2>13
  <1>2. PipelineInv => GrayIsNeverSilent
    BY <1>1 DEF GrayIsNeverSilent
  <1> QED BY <1>2, AlwaysPipelineInv, PTL

LEMMA RubricHasNoIdTwice == Cardinality(ToSet(Rubric)) = Len(Rubric)
  <1>1. PICK n \in Nat : n = Len(Rubric)
    BY TheRubric
  <1>2. IsFiniteSet(1..n) /\ Cardinality(1..n) = n
    BY FS_Interval
  <1>3. Rubric \in [1..n -> ToSet(Rubric)]
    BY <1>1, TheRubric, RubricAssumption DEF RubricAssumption
  <1>4. \A id \in ToSet(Rubric) : \E k \in 1..n : Rubric[k] = id
    BY <1>1, TheRubric DEF ToSet
  <1>5. Rubric \in Surjection(1..n, ToSet(Rubric))
    BY <1>3, <1>4 DEF Surjection
  <1>6. Rubric \in Injection(1..n, ToSet(Rubric))
    BY <1>3, RubricAssumption DEF Injection, RubricAssumption, ParseRubric
  <1> QED BY <1>1, <1>2, <1>5, <1>6, FS_Surjection

\* What the coverage check can find in the desk's own document: nothing but a
\* leg that escalates without material.
LEMMA CoverageOfOwnDocument ==
  ASSUME NEW leg, NEW response, NEW signer, NEW s, NEW verdicts, NEW e,
         verdicts \in [DOMAIN Rubric -> Verdict],
         leg = LegOf(s, response, verdicts, e),
         leg.condition \in Condition, leg.confidence \in Confidence
  PROVE  CoverageFailures(SignSa(BuildSaBody(Case, Job, Expiry, response, <<leg>>, Len(Rubric)),
                                 signer), Rubric)
            = IF leg.condition = "ESCALATE" /\ e = NoMaterial
              THEN {"escalation_material_missing"} ELSE {}
  <1> DEFINE document == SignSa(BuildSaBody(Case, Job, Expiry, response, <<leg>>, Len(Rubric)),
                                signer)
  <1>1. document.body.legs = <<leg>> /\ document.body.preview.items_covered = Len(Rubric)
    BY DEF SignSa, BuildSaBody, BuildPreview
  <1>2. ToSet(document.body.legs) = {leg}
    BY <1>1 DEF ToSet
  <1>3. PICK basis : basis = leg.basis
    OBVIOUS
  <1>4. basis = [n \in DOMAIN Rubric |-> [item_id |-> Rubric[n], verdict |-> verdicts[n]]]
        /\ leg.escalation = e
    BY <1>3 DEF LegOf
  <1>5. basis # <<>>
    <2>1. 1 \in DOMAIN basis
      BY <1>4, TheRubric
    <2>2. 1 \notin DOMAIN <<>>
      OBVIOUS
    <2> QED BY <2>1, <2>2
  <1>6. {b.item_id : b \in ToSet(basis)} = ToSet(Rubric)
    BY <1>4, TheRubric DEF ToSet
  <1>7. Covered(document.body.legs) = ToSet(Rubric)
    BY <1>2, <1>3, <1>6 DEF Covered
  <1>8. LegFailures(leg) = {code \in {"escalation_material_missing"} :
                              leg.condition = "ESCALATE" /\ leg.escalation = NoMaterial}
    BY <1>3, <1>5 DEF LegFailures
  <1>9. UNION {LegFailures(l) : l \in ToSet(document.body.legs)} = LegFailures(leg)
    <2>1. {LegFailures(l) : l \in ToSet(document.body.legs)} = {LegFailures(leg)}
      BY <1>2
    <2> QED BY <2>1
  <1>10. document.body.legs # <<>>
    <2>1. <<leg>> # <<>>
      OBVIOUS
    <2> QED BY <1>1, <2>1
  <1> HIDE DEF document
  <1>11. CoverageFailures(document, Rubric) = LegFailures(leg)
    BY <1>1, <1>7, <1>9, <1>10, RubricHasNoIdTwice DEF CoverageFailures
  <1> QED BY <1>4, <1>8, <1>11 DEF document

\* In a deployment that is configured right, the desk's own document fails in
\* one case only, and with one code only (exits.ts against condition.ts and
\* coverage.ts): for every rubric, answer and adjudication.
THEOREM AlwaysRejectedOnlyWhenPolicyAloneEscalates ==
  PipelineSpec => []RejectedOnlyWhenPolicyAloneEscalates
  <1> DEFINE Alone == /\ DeriveCondition(<<purchase.response>>) = "ESCALATE"
                      /\ decision.exit = "high_confidence"
             Material == "escalation_material_missing"
  <1>1. ASSUME PipelineInv, stage \in {"verified", "settled", "answered"}, SoundDeployment
        PROVE  /\ report.passed <=> ~Alone
               /\ Alone => /\ CodesOf("rubric_coverage") = {Material}
                           /\ CodesOf("deliverable_signature") = {}
                           /\ CodesOf("module_attestation") = {}
    <2>1. Built /\ input \in Inputs /\ sa = Document /\ report = Reported
      BY <1>1 DEF PipelineInv, LegsInv, Stages, DocumentInv, HasSa
    <2>2. PICK d : d = input.deployment
      OBVIOUS
    <2>3. /\ d.signer \in d.registry.citelySigners
          /\ ModuleFailure(purchase.response, d.manifest, d.registry) = {}
      BY <1>1, <2>2 DEF SoundDeployment
    <2>4. PICK m : m = purchase.response
      OBVIOUS
    <2>5. m.overall \in CheckStatus /\ m.evaluated \in Nat
      BY <2>1, <2>4 DEF Built, Bought, Procured, Check, AssertModuleResponse, ReadConstraints,
                        PurchaseOf
    <2>6. PICK v : v = input.verdicts
      OBVIOUS
    <2>7. PICK leg : leg = LegOf(input.settlement, m, v, Escalation)
      OBVIOUS
    <2>8. v \in [DOMAIN Rubric -> Verdict]
      BY <2>1, <2>6 DEF Inputs
    <2>9. legs = <<leg>>
      BY <2>1, <2>4, <2>6, <2>7, <2>8, TheLeg DEF Built
    <2>10. leg.condition = DeriveCondition(<<m>>) /\ leg.condition \in Condition
           /\ leg.confidence \in Confidence
      <3>1. leg.condition = DeriveCondition(<<m>>) /\ leg.confidence = DeriveLegConfidence(v)
        BY <2>7 DEF LegOf
      <3>2. DeriveCondition(<<m>>) \in Condition
        BY <2>5, ConditionOfOne, ModuleCondition
      <3>3. DeriveLegConfidence(v) \in Confidence
        BY <2>8, LegConfidence, VerdictsAreSequence
      <3> QED BY <3>1, <3>2, <3>3
    <2>11. decision.exit = "high_confidence" <=> Escalation = NoMaterial
      <3>1. decision.exit \in {"high_confidence", "interpretive_gray"}
        BY <2>1, TwoExits DEF Built
      <3>2. (Escalation # NoMaterial) <=> Escalates
        BY <2>1, MaterialWhenEscalated
      <3> QED BY <3>1, <3>2 DEF Escalates
    <2>12. SignatureFailures(sa, d.registry, sa.attestation.sa_hash) = {}
      <3>1. PICK body : body = BuildSaBody(Case, Job, Expiry, purchase.response, legs, Len(Rubric))
        OBVIOUS
      <3>2. sa = SignSa(body, d.signer)
        BY <2>1, <2>2, <3>1 DEF Document
      <3>3. /\ sa.body = body /\ sa.attestation.signer = d.signer
            /\ sa.attestation.sa_hash = ComputeDeliverableHash(body)
            /\ sa.attestation.signature = Signature(d.signer, BuildSaAttestationMessage(body))
        BY <3>2 DEF SignSa, BuildSaAttestationMessage
      <3> QED BY <2>3, <3>3 DEF SignatureFailures, Recovers
    <2>13. AttestationFailures(sa, d.manifest, d.registry) = {}
      <3>1. PICK used : used = [module_id |-> m.module_id, version |-> m.version]
        OBVIOUS
      <3>2. sa.body.modules_used = <<used>>
        BY <2>1, <2>4, <3>1 DEF Document, SignSa, BuildSaBody
      <3>3. ToSet(sa.body.modules_used) = {used} /\ sa.body.modules_used # <<>>
        BY <3>2 DEF ToSet
      <3>4. used.module_id = m.module_id /\ used.version = m.version
        BY <3>1
      <3>5. ModuleFailure(used, d.manifest, d.registry) = {}
        BY <2>3, <2>4, <3>4 DEF ModuleFailure
      <3> QED BY <3>3, <3>5 DEF AttestationFailures
    <2>14. CoverageFailures(sa, Rubric) = IF Alone THEN {Material} ELSE {}
      <3>1. CoverageFailures(sa, Rubric) =
              IF leg.condition = "ESCALATE" /\ Escalation = NoMaterial THEN {Material} ELSE {}
        BY <2>1, <2>2, <2>4, <2>7, <2>8, <2>9, <2>10, CoverageOfOwnDocument, ZenonT(30) DEF Document
      <3> QED BY <2>4, <2>10, <2>11, <3>1
    <2>15. report.outcomes =
              {Outcome("deliverable_signature", {}), Outcome("module_attestation", {}),
               Outcome("rubric_coverage", CoverageFailures(sa, Rubric))}
      BY <2>1, <2>2, <2>12, <2>13 DEF Reported, Verify
    <2>16. /\ CodesOf("deliverable_signature") = {} /\ CodesOf("module_attestation") = {}
           /\ CodesOf("rubric_coverage") = CoverageFailures(sa, Rubric)
      <3> DEFINE a == Outcome("deliverable_signature", {})
                 b == Outcome("module_attestation", {})
                 c == Outcome("rubric_coverage", CoverageFailures(sa, Rubric))
      <3>1. /\ a.check = "deliverable_signature" /\ a.codes = {}
            /\ b.check = "module_attestation" /\ b.codes = {}
            /\ c.check = "rubric_coverage" /\ c.codes = CoverageFailures(sa, Rubric)
        BY DEF Outcome
      <3>2. report.outcomes = {a, b, c}
        BY <2>15
      <3> HIDE DEF a, b, c
      <3>3. /\ {x \in report.outcomes : x.check = "deliverable_signature"} = {a}
            /\ {x \in report.outcomes : x.check = "module_attestation"} = {b}
            /\ {x \in report.outcomes : x.check = "rubric_coverage"} = {c}
        BY <3>1, <3>2
      <3>4. \A o : UNION {x.codes : x \in {o}} = o.codes
        OBVIOUS
      <3> QED BY <3>1, <3>3, <3>4 DEF CodesOf
    <2>17. report.passed <=> CoverageFailures(sa, Rubric) = {}
      BY <2>1, <2>2, <2>12, <2>13, PassedMeansNothingFound DEF Reported
    <2> HIDE DEF Alone
    <2> QED BY <2>14, <2>16, <2>17
  <1>2. PipelineInv => RejectedOnlyWhenPolicyAloneEscalates
    BY <1>1 DEF RejectedOnlyWhenPolicyAloneEscalates
  <1> QED BY <1>2, AlwaysPipelineInv, PTL

-----------------------------------------------------------------------------
(* The wallet's review *)

\* A document whose legs are a sequence of legs with amounts.
Readable(document) ==
    /\ document.body.legs \in Seq(ToSet(document.body.legs))
    /\ \A leg \in ToSet(document.body.legs) : leg.amount \in Int

LEMMA DocumentsAreReadable ==
  ASSUME PipelineInv, stage = "answered", NEW document \in {sa} \union OtherSas
  PROVE  Readable(document)
  <1>1. CASE document \in OtherSas
    BY <1>1, DocumentAssumption DEF DocumentAssumption, Readable
  <1>2. CASE document = sa
    <2>1. Built /\ input \in Inputs /\ sa = Document
      BY DEF PipelineInv, LegsInv, Stages, DocumentInv, HasSa
    <2>2. PICK v : v = input.verdicts
      OBVIOUS
    <2>3. PICK leg : leg = LegOf(input.settlement, purchase.response, v, Escalation)
      OBVIOUS
    <2>4. legs = <<leg>>
      BY <2>1, <2>2, <2>3, TheLeg DEF Built, Inputs
    <2>5. leg.amount = input.settlement.amount
      BY <2>3 DEF LegOf
    <2>6. input.settlement \in Settlements
      BY <2>1 DEF Inputs
    <2>7. leg.amount \in Int
      BY <2>5, <2>6, DocumentAssumption DEF DocumentAssumption
    <2>8. document.body.legs = <<leg>>
      BY <1>2, <2>1, <2>4 DEF Document, SignSa, BuildSaBody
    <2>9. ToSet(document.body.legs) = {leg}
      BY <2>8 DEF ToSet
    <2> QED BY <2>7, <2>8, <2>9 DEF Readable
  <1> QED BY <1>1, <1>2

LEMMA LegsObserved ==
  ASSUME NEW document, Readable(document), NEW observed, observed = ObserveSa(document)
  PROVE  /\ observed.jobId = document.body.bound_to.job_id
         /\ ToSet(observed.legs) = {ParseLeg(leg) : leg \in ToSet(document.body.legs)}
         /\ observed.legs \in Seq(ToSet(observed.legs))
  <1>1. PICK d : d = document.body.legs
    OBVIOUS
  <1>2. PICK n \in Nat : n = Len(d)
    BY <1>1 DEF Readable
  <1>3. observed.legs = [k \in 1..n |-> ParseLeg(d[k])]
    BY <1>1, <1>2 DEF ObserveSa
  <1>4. ToSet(observed.legs) = {ParseLeg(d[k]) : k \in 1..n}
    BY <1>3 DEF ToSet
  <1>5. ToSet(d) = {d[k] : k \in 1..n}
    BY <1>1, <1>2 DEF ToSet, Readable
  <1>6. ToSet(observed.legs) = {ParseLeg(leg) : leg \in ToSet(d)}
    BY <1>4, <1>5
  <1>7. observed.legs \in Seq(ToSet(observed.legs))
    BY <1>3, <1>4
  <1>8. observed.jobId = document.body.bound_to.job_id
    BY DEF ObserveSa
  <1> QED BY <1>1, <1>6, <1>7, <1>8

\* What a wallet's policy lets it pay on a document, if anything.
LEMMA PolicyPays ==
  ASSUME NEW document, Readable(document), NEW policy \in Policies, NEW funded, NEW t,
         NEW p, p = ApplySettlementPolicy(ObserveSa(document), policy, funded, t)
  PROVE  /\ p \in Seq({ParseLeg(leg) : leg \in ToSet(document.body.legs)})
         /\ \A k \in 1..Len(p) : p[k].condition = "PASS" /\ p[k].amount \in Nat
         /\ p # <<>> =>
              /\ document.body.bound_to.job_id = funded
              /\ \A leg \in ToSet(document.body.legs) :
                    leg.payee \notin policy.neverPayTo /\ leg.amount =< policy.maxLeg
              /\ Amounts(p) =< policy.maxTotal
  <1>1. PICK observed : observed = ObserveSa(document)
    OBVIOUS
  <1>2. /\ observed.jobId = document.body.bound_to.job_id
        /\ ToSet(observed.legs) = {ParseLeg(leg) : leg \in ToSet(document.body.legs)}
        /\ observed.legs \in Seq(ToSet(observed.legs))
    BY <1>1, LegsObserved
  <1>3. PICK payments : payments = PaymentsOf(observed.legs, policy)
    OBVIOUS
  <1>4. payments \in Seq({leg \in ToSet(observed.legs) : Payable(leg, policy)})
    BY <1>2, <1>3, PaymentsArePayable
  <1>5. PICK blockers : blockers = SaBlockers(observed, policy, funded, t)
                        \union UNION {LegBlockers(leg, policy) : leg \in ToSet(observed.legs)}
    OBVIOUS
  <1>6. p = IF blockers = {} /\ Amounts(payments) =< policy.maxTotal THEN payments ELSE <<>>
    BY <1>1, <1>3, <1>5 DEF ApplySettlementPolicy
  <1>7. p = payments \/ p = <<>>
    BY <1>6
  <1>8. p \in Seq({ParseLeg(leg) : leg \in ToSet(document.body.legs)})
    <2>1. PICK all : all = ToSet(observed.legs)
      OBVIOUS
    <2>2. \A some \in SUBSET all : Seq(some) \subseteq Seq(all)
      OBVIOUS
    <2>3. {leg \in all : Payable(leg, policy)} \in SUBSET all
      OBVIOUS
    <2>4. payments \in Seq(all)
      BY <1>4, <2>1, <2>2, <2>3
    <2>5. p \in Seq(all)
      <3>1. <<>> \in Seq(all)
        OBVIOUS
      <3> QED BY <1>7, <2>4, <3>1, Zenon
    <2> QED BY <1>2, <2>1, <2>5
  <1>9. ASSUME NEW k \in 1..Len(p) PROVE p[k].condition = "PASS" /\ p[k].amount \in Nat
    <2>1. PICK paid : paid = p[k]
      OBVIOUS
    <2>2. paid \in ToSet(observed.legs) /\ Payable(paid, policy)
      BY <1>4, <1>7, <2>1
    <2>3. PICK leg \in ToSet(document.body.legs) : paid = ParseLeg(leg)
      BY <1>2, <2>2
    <2>4. paid.amount = leg.amount
      BY <2>3 DEF ParseLeg
    <2>5. paid.amount \in Int
      BY <2>3, <2>4 DEF Readable
    <2>6. paid.condition = "PASS" /\ paid.amount > 0
      BY <2>2 DEF Payable
    <2> QED BY <2>1, <2>5, <2>6
  <1>10. ASSUME p # <<>>
         PROVE  /\ document.body.bound_to.job_id = funded
                /\ Amounts(p) =< policy.maxTotal
    <2>1. blockers = {} /\ Amounts(p) =< policy.maxTotal
      BY <1>6, <1>10
    <2>2. "job_id_mismatch" \notin SaBlockers(observed, policy, funded, t)
      BY <1>5, <2>1
    <2>3. observed.jobId = funded
      BY <2>2 DEF SaBlockers
    <2> QED BY <1>2, <2>1, <2>3
  <1>11. ASSUME p # <<>>, NEW leg \in ToSet(document.body.legs)
         PROVE  leg.payee \notin policy.neverPayTo /\ leg.amount =< policy.maxLeg
    <2>1. PICK parsed : parsed = ParseLeg(leg)
      OBVIOUS
    <2>2. parsed \in ToSet(observed.legs) /\ parsed.payee = leg.payee /\ parsed.amount = leg.amount
      BY <1>2, <2>1 DEF ParseLeg
    <2>3. blockers = {}
      BY <1>6, <1>11
    <2>4. LegBlockers(parsed, policy) = {}
      <3>1. LegBlockers(parsed, policy) \subseteq blockers
        BY <1>5, <2>2
      <3> QED BY <2>3, <3>1
    <2>5. leg.amount \in Int /\ policy.maxLeg \in Int
      BY DocumentAssumption DEF DocumentAssumption, Readable
    <2> QED BY <2>2, <2>4, <2>5 DEF LegBlockers
  <1> QED BY <1>8, <1>9, <1>10, <1>11

\* Taking the next payment off the ones that are due puts it behind the ones made.
LEMMA NextPayment ==
  ASSUME NEW S, NEW p \in Seq(S), NEW k \in 0..Len(p), SubSeq(p, k + 1, Len(p)) # <<>>
  PROVE  /\ k + 1 \in 0..Len(p)
         /\ Append(SubSeq(p, 1, k), Head(SubSeq(p, k + 1, Len(p)))) = SubSeq(p, 1, k + 1)
         /\ Tail(SubSeq(p, k + 1, Len(p))) = SubSeq(p, k + 2, Len(p))
  <1>1. PICK n \in Nat : n = Len(p)
    OBVIOUS
  <1>2. k \in 0..n /\ k \in Nat /\ k + 1 =< n
    BY <1>1
  <1>3. k + 1 \in 0..n
    BY <1>2
  <1>4. PICK rest : rest = SubSeq(p, k + 1, n)
    OBVIOUS
  <1>5. Len(rest) = n - k /\ \A i \in 1..n - k : rest[i] = p[k + i]
    BY <1>1, <1>2, <1>4
  <1>6. rest \in Seq(S) /\ rest # <<>> /\ Head(rest) = p[k + 1]
    BY <1>1, <1>2, <1>4, <1>5
  <1>7. Append(SubSeq(p, 1, k), p[k + 1]) = SubSeq(p, 1, k + 1)
    BY <1>1, <1>2
  <1>8. Tail(rest) = SubSeq(p, k + 2, n)
    BY <1>1, <1>2, <1>4
  <1> QED BY <1>1, <1>3, <1>4, <1>6, <1>7, <1>8

\* What the wallet agreed to pay, and how far it has come with it.
Reviewed(document, policy, funded, due, made) ==
    [shown |-> {document}, policy |-> {policy}, funded |-> funded, due |-> due, made |-> made]
Agreed(document, policy, funded, t) ==
    IF Legible(document) THEN ApplySettlementPolicy(ObserveSa(document), policy, funded, t)
    ELSE <<>>
UnderWay(document, policy, funded, p) ==
    \E k \in 0..Len(p) : \E due \in {<<>>, SubSeq(p, k + 1, Len(p))} :
        wallet = Reviewed(document, policy, funded, due, SubSeq(p, 1, k))
WalletInv ==
    \/ wallet = Unreviewed
    \/ /\ stage = "answered"
       /\ \E document \in {sa} \union OtherSas, policy \in Policies, funded \in {Job, "other"},
             t \in 0..1 :
            UnderWay(document, policy, funded, Agreed(document, policy, funded, t))

\* A document that crosses no red line, for payments within the total.
Permitted(document, policy, funded, p) ==
    /\ document.body.bound_to.job_id = funded
    /\ \A leg \in ToSet(document.body.legs) :
         leg.payee \notin policy.neverPayTo /\ leg.amount =< policy.maxLeg
    /\ Amounts(p) =< policy.maxTotal

LEMMA AgreedPayments ==
  ASSUME NEW document, Readable(document), NEW policy \in Policies, NEW funded, NEW t,
         NEW p, p = Agreed(document, policy, funded, t)
  PROVE  /\ p \in Seq({ParseLeg(leg) : leg \in ToSet(document.body.legs)})
         /\ \A k \in 1..Len(p) : p[k].condition = "PASS" /\ p[k].amount \in Nat
         /\ p # <<>> => Permitted(document, policy, funded, p)
  <1>1. CASE Legible(document)
    <2>1. p = ApplySettlementPolicy(ObserveSa(document), policy, funded, t)
      BY <1>1 DEF Agreed
    <2> QED BY <2>1, PolicyPays DEF Permitted
  <1>2. CASE ~Legible(document)
    <2>1. p = <<>>
      BY <1>2 DEF Agreed
    <2>2. Len(<<>>) = 0 /\ \A S : <<>> \in Seq(S)
      OBVIOUS
    <2> QED BY <2>1, <2>2
  <1> QED BY <1>1, <1>2

LEMMA WalletStep ==
  ASSUME PipelineInv, WalletInv, [PipelineNext]_pipelineVars PROVE WalletInv'
  <1>1. CASE Intake \/ PurchaseFails \/ Procure \/ Decide \/ Sign \/ Submit \/ VerifyCase
             \/ Settle \/ ChangeRates \/ RecordBooks
    <2>1. wallet' = wallet /\ stage # "answered"
      BY <1>1 DEF Intake, PurchaseFails, Procure, Decide, Sign, Submit, VerifyCase, Settle,
                  ChangeRates, RecordBooks, moneyVars
    <2> QED BY <2>1 DEF WalletInv
  <1>2. CASE AttachSettlement \/ Expire \/ ClaimRefund \/ UNCHANGED pipelineVars
    <2>1. UNCHANGED <<wallet, stage, sa>>
      BY <1>2 DEF AttachSettlement, Expire, ClaimRefund, pipelineVars, moneyVars, caseVars
    <2> QED BY <2>1 DEF WalletInv, UnderWay
  <1>3. CASE Review
    <2>1. stage' = "answered" /\ sa' = sa
      BY <1>3 DEF Review, caseVars
    <2>2. PICK document \in {sa} \union OtherSas, policy \in Policies, funded \in {Job, "other"} :
            wallet' = Reviewed(document, policy, funded, Agreed(document, policy, funded, now), <<>>)
      BY <1>3 DEF Review, Reviewed, Agreed
    <2>3. Readable(document)
      BY <1>3, <2>2, DocumentsAreReadable DEF Review
    <2>4. PICK p : p = Agreed(document, policy, funded, now)
      OBVIOUS
    <2>5. PICK S : p \in Seq(S)
      BY <2>3, <2>4, AgreedPayments
    <2>6. 0 \in 0..Len(p) /\ SubSeq(p, 1, 0) = <<>> /\ SubSeq(p, 0 + 1, Len(p)) = p
      BY <2>5
    <2>7. UnderWay(document, policy, funded, p)'
      <3>1. wallet' = Reviewed(document, policy, funded, p, SubSeq(p, 1, 0))
        BY <2>2, <2>4, <2>6
      <3> QED BY <2>6, <3>1 DEF UnderWay
    <2>8. now \in 0..1
      BY DEF PipelineInv, Stages
    <2> QED BY <2>1, <2>2, <2>4, <2>7, <2>8 DEF WalletInv
  <1>4. CASE PayOut
    <2>1. UNCHANGED <<stage, sa>> /\ wallet.due # <<>>
      BY <1>4 DEF PayOut, caseVars
    <2>2. wallet # Unreviewed
      BY <2>1 DEF Unreviewed
    <2>3. stage = "answered"
      BY <2>2 DEF WalletInv
    <2>4. PICK document \in {sa} \union OtherSas, policy \in Policies, funded \in {Job, "other"},
               t \in 0..1 :
            UnderWay(document, policy, funded, Agreed(document, policy, funded, t))
      BY <2>2 DEF WalletInv
    <2>5. PICK p : p = Agreed(document, policy, funded, t)
      OBVIOUS
    <2>6. PICK S : p \in Seq(S)
      BY <2>3, <2>4, <2>5, DocumentsAreReadable, AgreedPayments
    <2>0. PICK k \in 0..Len(p) : \E due \in {<<>>, SubSeq(p, k + 1, Len(p))} :
            wallet = Reviewed(document, policy, funded, due, SubSeq(p, 1, k))
      BY <2>4, <2>5 DEF UnderWay
    <2>7. PICK due \in {<<>>, SubSeq(p, k + 1, Len(p))} :
            wallet = Reviewed(document, policy, funded, due, SubSeq(p, 1, k))
      BY <2>0
    <2>8. wallet.due = due /\ wallet.made = SubSeq(p, 1, k)
      BY <2>7 DEF Reviewed
    <2>9. due = SubSeq(p, k + 1, Len(p)) /\ SubSeq(p, k + 1, Len(p)) # <<>>
      BY <2>1, <2>7, <2>8
    <2>10. UnderWay(document, policy, funded, p)'
      <3>1. CASE wallet' = [wallet EXCEPT !.due = Tail(@), !.made = Append(@, Head(wallet.due))]
        <4>1. wallet' = Reviewed(document, policy, funded, Tail(due),
                                 Append(SubSeq(p, 1, k), Head(due)))
          BY <2>7, <2>8, <3>1 DEF Reviewed
        <4>2. /\ k + 1 \in 0..Len(p) /\ Tail(due) = SubSeq(p, k + 2, Len(p))
              /\ Append(SubSeq(p, 1, k), Head(due)) = SubSeq(p, 1, k + 1)
          BY <2>6, <2>9, NextPayment
        <4>3. k \in Nat /\ (k + 1) + 1 = k + 2
          BY <2>7
        <4> QED BY <4>1, <4>2, <4>3 DEF UnderWay
      <3>2. CASE wallet' = [wallet EXCEPT !.due = <<>>]
        <4>1. wallet' = Reviewed(document, policy, funded, <<>>, SubSeq(p, 1, k))
          BY <2>7, <3>2 DEF Reviewed
        <4> QED BY <2>7, <4>1 DEF UnderWay
      <3> QED BY <1>4, <3>1, <3>2 DEF PayOut
    <2> QED BY <2>1, <2>3, <2>4, <2>5, <2>10 DEF WalletInv
  <1> QED BY <1>1, <1>2, <1>3, <1>4 DEF PipelineNext

LEMMA AlwaysWalletInv == PipelineSpec => [](PipelineInv /\ WalletInv)
  <1>1. PipelineInit => WalletInv
    BY DEF PipelineInit, WalletInv
  <1>2. PipelineInv /\ WalletInv /\ [PipelineNext]_pipelineVars => WalletInv'
    BY WalletStep
  <1> QED BY <1>1, <1>2, AlwaysPipelineInv, PTL DEF PipelineSpec

\* What a payment says of the review it was made in.
LEMMA PaymentsMade ==
  ASSUME PipelineInv, WalletInv, wallet.made # <<>>
  PROVE  \E document \in {sa} \union OtherSas, policy \in Policies :
            /\ stage = "answered" /\ Readable(document)
            /\ wallet.shown = {document} /\ wallet.policy = {policy}
            /\ document.body.bound_to.job_id = wallet.funded
            /\ \A leg \in ToSet(document.body.legs) :
                 leg.payee \notin policy.neverPayTo /\ leg.amount =< policy.maxLeg
            /\ Amounts(wallet.made) =< policy.maxTotal
            /\ wallet.made \in Seq({ParseLeg(leg) : leg \in ToSet(document.body.legs)})
            /\ \A payment \in ToSet(wallet.made) : payment.condition = "PASS"
  <1>1. wallet # Unreviewed
    BY DEF Unreviewed
  <1>2. stage = "answered"
    BY <1>1 DEF WalletInv
  <1>3. PICK document \in {sa} \union OtherSas, policy \in Policies, funded \in {Job, "other"},
             t \in 0..1 :
          UnderWay(document, policy, funded, Agreed(document, policy, funded, t))
    BY <1>1 DEF WalletInv
  <1>4. PICK p : p = Agreed(document, policy, funded, t)
    OBVIOUS
  <1>5. PICK k \in 0..Len(p) : \E due \in {<<>>, SubSeq(p, k + 1, Len(p))} :
          wallet = Reviewed(document, policy, funded, due, SubSeq(p, 1, k))
    BY <1>3, <1>4 DEF UnderWay
  <1>6. /\ wallet.made = SubSeq(p, 1, k) /\ wallet.shown = {document}
        /\ wallet.policy = {policy} /\ wallet.funded = funded
    BY <1>5 DEF Reviewed
  <1>7. Readable(document)
    BY <1>2, <1>3, DocumentsAreReadable
  <1>8. PICK S : S = {ParseLeg(leg) : leg \in ToSet(document.body.legs)}
    OBVIOUS
  <1>9. /\ p \in Seq(S)
        /\ \A n \in 1..Len(p) : p[n].condition = "PASS" /\ p[n].amount \in Nat
    BY <1>4, <1>7, <1>8, AgreedPayments
  <1>10. p # <<>>
    BY <1>5, <1>6, <1>9
  <1>11. Permitted(document, policy, funded, p)
    BY <1>4, <1>7, <1>10, AgreedPayments
  <1>12. Amounts(wallet.made) =< policy.maxTotal
    <2>1. /\ Amounts(p) \in Int /\ Amounts(wallet.made) \in Int
          /\ Amounts(wallet.made) =< Amounts(p)
      BY <1>6, <1>9, FirstPaymentsCostLess
    <2>2. policy.maxTotal \in Int
      BY DocumentAssumption DEF DocumentAssumption
    <2>3. Amounts(p) =< policy.maxTotal
      BY <1>11 DEF Permitted
    <2> QED BY <2>1, <2>2, <2>3
  <1>13. wallet.made \in Seq(S)
    BY <1>6, <1>9
  <1>14. \A payment \in ToSet(wallet.made) : payment.condition = "PASS"
    <2>1. \A n \in 1..Len(wallet.made) : n \in 1..Len(p) /\ wallet.made[n] = p[n]
      BY <1>6, <1>9
    <2>2. \A payment \in ToSet(wallet.made) : \E n \in 1..Len(wallet.made) : payment = wallet.made[n]
      BY <1>13 DEF ToSet
    <2> QED BY <1>9, <2>1, <2>2
  <1> QED BY <1>2, <1>6, <1>7, <1>8, <1>11, <1>12, <1>13, <1>14 DEF Permitted

\* A red line stops the whole settlement, not just its leg, whatever the
\* document, the wallet's policy and the moment the payments stop at: of a
\* document with a leg to a banned payee or over the cap nothing is paid, and
\* never more than the total (policy.ts, sa-view.ts, agent.ts).
THEOREM AlwaysNothingPastARedLine == PipelineSpec => []NothingPastARedLine
  <1>1. PipelineInv /\ WalletInv => NothingPastARedLine
    BY PaymentsMade DEF NothingPastARedLine
  <1> QED BY <1>1, AlwaysWalletInv, PTL

\* Whatever the model said of the items, and whatever the wallet's policy, a
\* wallet pays on the desk's document only when the module was asked about this
\* very deal, looked at something and found nothing (x402-client.ts,
\* condition.ts, policy.ts).
THEOREM AlwaysPaidMeansModulePassed == PipelineSpec => []PaidMeansModulePassed
  <1>1. ASSUME PipelineInv, WalletInv, wallet.made # <<>>, wallet.shown = {sa}
        PROVE  LET answer == purchase.response IN
               /\ answer.module_id = Module /\ answer.deal_id = Case
               /\ answer.overall = "PASS" /\ answer.evaluated > 0
               /\ answer.blocked = {} /\ answer.escalated = {}
    <2>1. /\ stage = "answered"
          /\ wallet.made \in Seq({ParseLeg(leg) : leg \in ToSet(sa.body.legs)})
          /\ \A payment \in ToSet(wallet.made) : payment.condition = "PASS"
      BY <1>1, PaymentsMade
    <2>2. Built /\ input \in Inputs /\ sa = Document
      BY <1>1, <2>1 DEF PipelineInv, LegsInv, Stages, DocumentInv, HasSa
    <2>3. PICK m : m = purchase.response
      OBVIOUS
    <2>4. /\ m.overall \in CheckStatus /\ m.evaluated \in Nat
          /\ m.module_id = Module /\ m.deal_id = Case
      BY <2>2, <2>3 DEF Built, Bought, Procured, Check, AssertModuleResponse, ReadConstraints,
                        AssertMatchesRequest, PurchaseOf
    <2>5. PICK leg : leg = LegOf(input.settlement, m, input.verdicts, Escalation)
      OBVIOUS
    <2>6. legs = <<leg>>
      BY <2>2, <2>3, <2>5, TheLeg DEF Built, Inputs
    <2>7. sa.body.legs = <<leg>>
      BY <2>2, <2>6 DEF Document, SignSa, BuildSaBody
    <2>8. ToSet(sa.body.legs) = {leg}
      BY <2>7 DEF ToSet
    <2>9. wallet.made[1] = ParseLeg(leg) /\ wallet.made[1] \in ToSet(wallet.made)
      <3>1. PICK made : made = wallet.made
        OBVIOUS
      <3>2. made \in Seq({ParseLeg(leg)}) /\ made # <<>>
        BY <1>1, <2>1, <2>8, <3>1
      <3>3. 1 \in DOMAIN made /\ made[1] = ParseLeg(leg)
        BY <3>2
      <3> QED BY <3>1, <3>3 DEF ToSet
    <2>10. ParseLeg(leg).condition = "PASS"
      BY <2>1, <2>9
    <2>11. leg.condition = "PASS"
      BY <2>10 DEF ParseLeg
    <2>12. DeriveCondition(<<m>>) = "PASS"
      BY <2>5, <2>11 DEF LegOf
    <2> QED BY <2>3, <2>4, <2>12, ConditionOfOne, ModuleCondition
  <1>2. PipelineInv /\ WalletInv => PaidMeansModulePassed
    BY <1>1 DEF PaidMeansModulePassed
  <1> QED BY <1>2, AlwaysWalletInv, PTL

-----------------------------------------------------------------------------
(* Sums over the rows of the books *)

\* What MapThenSumSet sums up, element by element, with v for its operator.
Chosen(s) == CHOOSE x \in s : TRUE
SumsUp(S, v, g) ==
    g = [s \in SUBSET S |-> IF s = {} THEN 0 ELSE v[Chosen(s)] + g[s \ {Chosen(s)}]]

LEMMA ChosenIsElement ==
  ASSUME NEW s, s # {} PROVE Chosen(s) \in s
  BY DEF Chosen

LEMMA SubsetInduction ==
  ASSUME NEW S, IsFiniteSet(S), NEW P,
         \A s \in SUBSET S :
            (\A t \in SUBSET s : t # s => t \in P) => s \in P
  PROVE  \A s \in SUBSET S : s \in P
  <1> DEFINE Bad == {s \in SUBSET S : s \notin P}
             Sizes == {Cardinality(s) : s \in Bad}
  <1>1. \A s \in SUBSET S : IsFiniteSet(s) /\ Cardinality(s) \in Nat
    BY FS_Subset, FS_CardinalityType
  <1>2. ASSUME Bad # {} PROVE FALSE
    <2>1. Sizes \subseteq Nat /\ Sizes # {}
      BY <1>1, <1>2
    <2>2. PICK least \in Sizes : \A other \in Sizes : least =< other
      <3> HIDE DEF Sizes
      <3> QED BY <2>1, LeastElement
    <2>3. PICK s \in Bad : least = Cardinality(s)
      OBVIOUS
    <2>4. ASSUME NEW t \in SUBSET s, t # s PROVE t \in P
      <3>1. IsFiniteSet(s) /\ Cardinality(s) \in Nat /\ t \in SUBSET S /\ Cardinality(t) \in Nat
        BY <1>1, <2>3
      <3>2. Cardinality(t) < Cardinality(s)
        BY <2>4, <3>1, FS_Subset
      <3>3. Cardinality(t) \notin Sizes
        BY <2>2, <2>3, <3>1, <3>2
      <3> QED BY <3>1, <3>3
    <2> QED BY <2>3, <2>4
  <1> QED BY <1>2

LEMMA SumExists ==
  ASSUME NEW S, IsFiniteSet(S), NEW v, v \in [S -> Int]
  PROVE  \E g \in [SUBSET S -> Int] : SumsUp(S, v, g)
  <1> DEFINE Turn(q) == [s \in SUBSET S |->
                            IF s = {} THEN 0 ELSE v[Chosen(s)] + q[s \ {Chosen(s)}]]
  <1>1. PICK n \in Nat : n = Cardinality(S)
    BY FS_CardinalityType
  <1>2. PICK F : F = [SUBSET S -> Int]
    OBVIOUS
  <1>3. PICK zero : zero = [s \in SUBSET S |-> 0]
    OBVIOUS
  <1>4. zero \in F
    BY <1>2, <1>3
  <1>5. \A s \in SUBSET S : s # {} => Chosen(s) \in s /\ Chosen(s) \in S
    BY ChosenIsElement
  <1>6. ASSUME NEW q \in F PROVE Turn(q) \in F
    <2>1. ASSUME NEW s \in SUBSET S, s # {} PROVE v[Chosen(s)] + q[s \ {Chosen(s)}] \in Int
      <3>1. PICK x \in S : x = Chosen(s)
        BY <1>5, <2>1
      <3>2. s \ {x} \in SUBSET S
        OBVIOUS
      <3>3. v[x] \in Int /\ q[s \ {x}] \in Int
        BY <1>2, <3>2
      <3> QED BY <3>1, <3>3
    <2> QED BY <1>2, <2>1
  <1>7. \A q : /\ Turn(q)[{}] = 0
               /\ \A s \in SUBSET S :
                     s # {} => Turn(q)[s] = v[Chosen(s)] + q[s \ {Chosen(s)}]
    OBVIOUS
  <1>8. \A g : SumsUp(S, v, g) <=> g = Turn(g)
    BY DEF SumsUp
  <1> HIDE DEF Turn
  <1>9. PICK f : IsRun(n + 1, F, zero, [k \in 1..n + 1 |-> [q \in F |-> Turn(q)]], f)
    <2>1. IsTurn(n + 1, F, [k \in 1..n + 1 |-> [q \in F |-> Turn(q)]])
      BY <1>6 DEF IsTurn
    <2>2. n + 1 \in Nat
      OBVIOUS
    <2> QED BY <1>4, <2>1, <2>2, Loop
  <1>10. /\ \A k \in 0..n + 1 : f[k] \in F
         /\ f[0] = zero /\ \A k \in 1..n + 1 : f[k] = Turn(f[k - 1])
    <2>1. ASSUME NEW k \in 1..n + 1 PROVE f[k] = Turn(f[k - 1])
      <3>1. k - 1 \in 0..n + 1
        OBVIOUS
      <3>2. f[k - 1] \in F
        BY <1>9, <3>1 DEF IsRun
      <3> QED BY <1>9, <3>2 DEF IsRun
    <2> QED BY <1>9, <2>1 DEF IsRun
  <1>11. f[n + 1] = f[n]
    <2>1. PICK P : P = {k \in 0..n : \A s \in SUBSET S :
                                        Cardinality(s) =< k => f[k + 1][s] = f[k][s]}
      OBVIOUS
    <2>2. \A s \in SUBSET S : IsFiniteSet(s) /\ Cardinality(s) \in Nat /\ Cardinality(s) =< n
      BY <1>1, FS_Subset, FS_CardinalityType
    <2>3. 0 \in P
      <3>1. ASSUME NEW s \in SUBSET S, Cardinality(s) =< 0 PROVE f[0 + 1][s] = f[0][s]
        <4>1. s = {}
          BY <2>2, <3>1, FS_EmptySet
        <4>2. f[1] = Turn(f[0])
          <5>1. 1 \in 1..n + 1 /\ 1 - 1 = 0
            OBVIOUS
          <5> QED BY <1>10, <5>1
        <4> QED BY <1>3, <1>7, <1>10, <4>1, <4>2
      <3> QED BY <2>1, <3>1
    <2>4. ASSUME NEW k \in 1..n, k - 1 \in P PROVE k \in P
      <3>1. ASSUME NEW s \in SUBSET S, Cardinality(s) =< k PROVE f[k + 1][s] = f[k][s]
        <4>1. f[k] = Turn(f[k - 1]) /\ f[k + 1] = Turn(f[k])
          <5>1. k \in 1..n + 1 /\ k + 1 \in 1..n + 1 /\ (k + 1) - 1 = k
            OBVIOUS
          <5> QED BY <1>10, <5>1
        <4>2. CASE s = {}
          BY <1>7, <4>1, <4>2
        <4>3. CASE s # {}
          <5>1. PICK x \in s : x = Chosen(s)
            BY <1>5, <4>3
          <5>2. s \ {x} \in SUBSET S /\ Cardinality(s \ {x}) = Cardinality(s) - 1
            BY <2>2, FS_RemoveElement
          <5>3. Cardinality(s \ {x}) =< k - 1
            BY <2>2, <3>1, <5>2
          <5>4. f[k][s \ {x}] = f[k - 1][s \ {x}]
            <6>1. (k - 1) + 1 = k
              OBVIOUS
            <6> QED BY <2>1, <2>4, <5>2, <5>3, <6>1
          <5>5. f[k + 1][s] = v[x] + f[k][s \ {x}]
            BY <1>7, <4>1, <4>3, <5>1
          <5>6. f[k][s] = v[x] + f[k - 1][s \ {x}]
            BY <1>7, <4>1, <4>3, <5>1
          <5> QED BY <5>4, <5>5, <5>6
        <4> QED BY <4>2, <4>3
      <3> QED BY <2>1, <3>1
    <2>5. \A k \in 0..n : k \in P
      BY <2>3, <2>4, UptoInduction
    <2>6. \A s \in SUBSET S : f[n + 1][s] = f[n][s]
      BY <2>1, <2>2, <2>5
    <2>7. f[n + 1] \in F /\ f[n] \in F
      BY <1>10
    <2> QED BY <1>2, <2>6, <2>7
  <1>12. f[n] = Turn(f[n]) /\ f[n] \in F
    <2>1. n + 1 \in 1..n + 1 /\ (n + 1) - 1 = n /\ n \in 0..n + 1
      OBVIOUS
    <2> QED BY <1>10, <1>11, <2>1
  <1> QED BY <1>2, <1>8, <1>12

LEMMA SumIsInt ==
  ASSUME NEW S, IsFiniteSet(S), NEW v, v \in [S -> Int], NEW g, SumsUp(S, v, g)
  PROVE  g \in [SUBSET S -> Int]
  <1>1. PICK P : P = {s \in SUBSET S : g[s] \in Int}
    OBVIOUS
  <1>2. ASSUME NEW s \in SUBSET S, \A t \in SUBSET s : t # s => t \in P PROVE s \in P
    <2>1. CASE s = {}
      BY <1>1, <2>1 DEF SumsUp
    <2>2. CASE s # {}
      <3>1. PICK x \in s : x = Chosen(s)
        BY <2>2, ChosenIsElement
      <3>2. s \ {x} \in SUBSET s /\ s \ {x} # s
        OBVIOUS
      <3>3. g[s \ {x}] \in Int /\ v[x] \in Int
        BY <1>1, <1>2, <3>2
      <3>4. g[s] = v[x] + g[s \ {x}]
        BY <2>2, <3>1 DEF SumsUp
      <3> QED BY <1>1, <3>3, <3>4
    <2> QED BY <2>1, <2>2
  <1>3. \A s \in SUBSET S : s \in P
    BY <1>2, SubsetInduction
  <1> QED BY <1>1, <1>3 DEF SumsUp

\* A sum does not depend on the element that is taken first.
AnyFirst(S, v, g) == \A s \in SUBSET S : \A x \in s : g[s] = v[x] + g[s \ {x}]

LEMMA SumTakes ==
  ASSUME NEW S, IsFiniteSet(S), NEW v, v \in [S -> Int], NEW g, SumsUp(S, v, g)
  PROVE  AnyFirst(S, v, g)
  <1>1. g \in [SUBSET S -> Int]
    BY SumIsInt
  <1>2. PICK P : P = {s \in SUBSET S : \A x \in s : g[s] = v[x] + g[s \ {x}]}
    OBVIOUS
  <1>3. ASSUME NEW s \in SUBSET S, \A t \in SUBSET s : t # s => t \in P PROVE s \in P
    <2>1. ASSUME NEW x \in s PROVE g[s] = v[x] + g[s \ {x}]
      <3>1. PICK c \in s : c = Chosen(s)
        BY ChosenIsElement
      <3>2. g[s] = v[c] + g[s \ {c}]
        BY <3>1 DEF SumsUp
      <3>3. CASE x = c
        BY <3>2, <3>3
      <3>4. CASE x # c
        <4>1. s \ {c} \in P /\ x \in s \ {c} /\ s \ {x} \in P /\ c \in s \ {x}
          <5>1. s \ {c} \in SUBSET s /\ s \ {c} # s /\ s \ {x} \in SUBSET s /\ s \ {x} # s
            OBVIOUS
          <5> QED BY <1>3, <3>4, <5>1
        <4>2. PICK rest \in SUBSET S : rest = (s \ {c}) \ {x}
          OBVIOUS
        <4>3. rest = (s \ {x}) \ {c}
          BY <4>2
        <4>4. g[s \ {c}] = v[x] + g[rest]
          BY <1>2, <4>1, <4>2
        <4>5. g[s \ {x}] = v[c] + g[rest]
          BY <1>2, <4>1, <4>3
        <4>6. v[x] \in Int /\ v[c] \in Int /\ g[rest] \in Int
          BY <1>1
        <4> QED BY <3>2, <4>4, <4>5, <4>6
      <3> QED BY <3>3, <3>4
    <2> QED BY <1>2, <2>1
  <1>4. \A s \in SUBSET S : s \in P
    BY <1>3, SubsetInduction
  <1> QED BY <1>2, <1>4 DEF AnyFirst

\* What a total of rows is: nothing for no row, and a row more adds its amount.
Adds(rows, v, g) ==
    g \in [SUBSET rows -> Int] /\ g[{}] = 0 /\ AnyFirst(rows, v, g)

LEMMA SumAdds ==
  ASSUME NEW rows, IsFiniteSet(rows), NEW v, v \in [rows -> Int]
  PROVE  /\ \E g : SumsUp(rows, v, g)
         /\ \A g : SumsUp(rows, v, g) => Adds(rows, v, g)
  <1>1. \E g : SumsUp(rows, v, g)
    BY SumExists
  <1>2. ASSUME NEW g, SumsUp(rows, v, g) PROVE Adds(rows, v, g)
    <2>1. g[{}] = 0
      BY <1>2 DEF SumsUp
    <2>2. g \in [SUBSET rows -> Int]
      BY <1>2, SumIsInt
    <2>3. AnyFirst(rows, v, g)
      BY <1>2, SumTakes
    <2> QED BY <2>1, <2>2, <2>3 DEF Adds
  <1> QED BY <1>1, <1>2

LEMMA TotalAdds ==
  ASSUME NEW rows, IsFiniteSet(rows), \A row \in rows : row.amount_actual \in Int
  PROVE  \E g : /\ Adds(rows, [row \in rows |-> ActualOf(row)], g)
                /\ MapThenSumSet(ActualOf, rows) = g[rows]
  <1>1. PICK v : v = [row \in rows |-> ActualOf(row)]
    OBVIOUS
  <1>2. \A g : SumsUp(rows, v, g) <=>
                g = [s \in SUBSET rows |->
                       IF s = {} THEN 0
                       ELSE LET x == CHOOSE x \in s : TRUE
                            IN  ActualOf(x) + g[s \ {x}]]
    <2>1. ASSUME NEW s \in SUBSET rows, s # {}
          PROVE  v[CHOOSE x \in s : TRUE] = ActualOf(CHOOSE x \in s : TRUE)
      BY <1>1, <2>1
    <2> QED BY <2>1 DEF SumsUp, Chosen
  <1>3. MapThenSumSet(ActualOf, rows) = (CHOOSE g : SumsUp(rows, v, g))[rows]
    BY <1>2, ZenonT(30) DEF MapThenSumSet, MapThenFoldSet
  <1>4. v \in [rows -> Int]
    BY <1>1 DEF ActualOf
  <1>5. PICK g : g = CHOOSE h : SumsUp(rows, v, h)
    OBVIOUS
  <1>6. SumsUp(rows, v, g)
    BY <1>4, <1>5, SumAdds
  <1> QED BY <1>1, <1>3, <1>4, <1>5, <1>6, SumAdds

LEMMA NetAdds ==
  ASSUME NEW booked, IsFiniteSet(booked), \A row \in booked : row.amount_actual \in Int
  PROVE  \E g : /\ Adds(booked, [row \in booked |-> Flow(row)], g)
                /\ NetActual(booked) = g[booked]
  <1>1. PICK v : v = [row \in booked |-> Flow(row)]
    OBVIOUS
  <1>2. \A g : SumsUp(booked, v, g) <=>
                g = [s \in SUBSET booked |->
                       IF s = {} THEN 0
                       ELSE LET x == CHOOSE x \in s : TRUE
                            IN  Flow(x) + g[s \ {x}]]
    <2>1. ASSUME NEW s \in SUBSET booked, s # {}
          PROVE  v[CHOOSE x \in s : TRUE] = Flow(CHOOSE x \in s : TRUE)
      BY <1>1, <2>1
    <2> QED BY <2>1 DEF SumsUp, Chosen
  <1>3. NetActual(booked) = (CHOOSE g : SumsUp(booked, v, g))[booked]
    BY <1>2, ZenonT(30) DEF NetActual, MapThenSumSet, MapThenFoldSet
  <1>4. v \in [booked -> Int]
    BY <1>1 DEF Flow
  <1>5. PICK g : g = CHOOSE h : SumsUp(booked, v, h)
    OBVIOUS
  <1>6. SumsUp(booked, v, g)
    BY <1>4, <1>5, SumAdds
  <1> QED BY <1>1, <1>3, <1>4, <1>5, <1>6, SumAdds

LEMMA OneMore ==
  ASSUME NEW rows, NEW v, NEW g, Adds(rows, v, g), NEW s \in SUBSET rows, NEW x \in rows, x \notin s
  PROVE  g[s \union {x}] = v[x] + g[s]
  <1>1. PICK more \in SUBSET rows : more = s \union {x}
    OBVIOUS
  <1>2. x \in more /\ more \ {x} = s
    BY <1>1
  <1>3. g[more] = v[x] + g[more \ {x}]
    BY <1>2 DEF Adds, AnyFirst
  <1> QED BY <1>1, <1>2, <1>3

LEMMA SumOfOne ==
  ASSUME NEW rows, NEW v, v \in [rows -> Int], NEW g, Adds(rows, v, g), NEW a \in rows
  PROVE  g[{a}] = v[a]
  <1>1. {} \union {a} = {a} /\ {} \in SUBSET rows /\ a \notin {}
    OBVIOUS
  <1>2. g[{a}] = v[a] + g[{}]
    BY <1>1, OneMore
  <1>3. g[{}] = 0 /\ v[a] \in Int
    BY DEF Adds
  <1> QED BY <1>2, <1>3

LEMMA SumOfTwo ==
  ASSUME NEW rows, NEW v, v \in [rows -> Int], NEW g, Adds(rows, v, g),
         NEW a \in rows, NEW b \in rows, a # b
  PROVE  g[{a, b}] = v[a] + v[b]
  <1>1. {a} \union {b} = {a, b} /\ {a} \in SUBSET rows /\ b \notin {a}
    OBVIOUS
  <1>2. g[{a, b}] = v[b] + g[{a}]
    BY <1>1, OneMore
  <1>3. g[{a}] = v[a] /\ v[a] \in Int /\ v[b] \in Int
    BY SumOfOne
  <1> QED BY <1>2, <1>3

-----------------------------------------------------------------------------
(* The books *)

Row(direction, nominal, actual, ref, refType, category, account, tx) ==
    [direction |-> direction, amount_nominal |-> nominal, amount_actual |-> actual,
     ref |-> ref, ref_type |-> refType, category |-> category, account |-> account,
     caseId |-> Case, settlement_tx |-> tx]

\* The rows of the case as they should be, once its receipt has settled in tx.
Split == SplitFees(Budget, escrow.rates)
Owed == (purchase.paid * purchase.response.royalty_bps) \div BPS_DENOMINATOR
HasRoyalty ==
    purchase.response.royalty_bps > 0 /\ purchase.response.maintainer_wallet # ZeroAddress
FeeRow == Row("in", Budget, Split.net, Job, "jobId", "case_fee", "operator", NoTx)
VerifierRow ==
    Row("in", Split.evaluatorFee, Split.evaluatorFee, Job, "jobId", "case_fee", "verifier", NoTx)
ModuleRow(tx) ==
    Row("out", QuotedPrice, purchase.paid, purchase.settlementId, "gateway_receipt",
        "module_fee", "procurement", tx)
RoyaltyRow(tx) ==
    Row("out", Owed, Owed, purchase.settlementId, "gateway_receipt", "royalty", "procurement", tx)
Income == IF job = "completed" THEN {FeeRow, VerifierRow} ELSE {}
Costs(tx) == IF HasRoyalty THEN {ModuleRow(tx), RoyaltyRow(tx)} ELSE {ModuleRow(tx)}

MoneyInv ==
    /\ escrow = [rates |-> escrow.rates, settledAt |-> escrow.settledAt, paid |-> escrow.paid]
    /\ escrow.rates \in Rates
    /\ stage \in {"settled", "answered"} => Settled
    /\ job = "completed" => escrow.paid = PaidOut(escrow.settledAt)
    /\ stage # "answered" => books = {}
    /\ stage = "answered" =>
         \E tx \in SettlementTxs \union {NoTx} : books = Income \union Costs(tx)

LEMMA Recorded ==
  ASSUME NEW n \in Nat, NEW entries, DOMAIN entries = 1..n,
         \A k, m \in 1..n : k # m => Key(entries[k]) # Key(entries[m])
  PROVE  RecordLedgerIdempotent({}, entries) = {entries[k] : k \in 1..n}
  <1> DEFINE Taken(k) == \E row \in {} \union {entries[m] : m \in 1..k - 1} :
                            Key(row) = Key(entries[k])
  <1>1. \A k \in 1..n : ~Taken(k)
    <2>1. ASSUME NEW k \in 1..n, NEW m \in 1..k - 1 PROVE Key(entries[m]) # Key(entries[k])
      <3>1. m \in 1..n /\ m # k
        OBVIOUS
      <3> QED BY <3>1
    <2> QED BY <2>1
  <1>2. RecordLedgerIdempotent({}, entries) = {} \union {entries[k] : k \in {m \in 1..n : ~Taken(m)}}
    BY DEF RecordLedgerIdempotent
  <1> HIDE DEF Taken
  <1>3. {m \in 1..n : ~Taken(m)} = 1..n
    BY <1>1
  <1> QED BY <1>2, <1>3

\* What sets the rows apart, and what the totals read of them.
LEMMA RowFields ==
  ASSUME NEW direction, NEW nominal, NEW actual, NEW ref, NEW refType, NEW category,
         NEW account, NEW tx, NEW row,
         row = Row(direction, nominal, actual, ref, refType, category, account, tx)
  PROVE  /\ row.direction = direction /\ row.amount_actual = actual
         /\ row.ref = ref /\ row.ref_type = refType
         /\ row.category = category /\ row.account = account /\ row.settlement_tx = tx
         /\ Key(row) = <<ref, refType, category, direction, account>>
         /\ ActualOf(row) = actual
         /\ \A other : [row EXCEPT !.settlement_tx = other]
                          = Row(direction, nominal, actual, ref, refType, category, account, other)
  BY DEF Row, Key, ActualOf

LEMMA AppendToOne ==
  ASSUME NEW c, NEW d PROVE Append(<<c>>, d) = <<c, d>>
  <1>1. PICK S : S = {c, d}
    OBVIOUS
  <1>2. <<c>> \in Seq(S) /\ d \in S /\ Len(<<c>>) = 1
    BY <1>1
  <1>3. <<c, d>> \in Seq(S) /\ Len(<<c, d>>) = 2
    BY <1>1
  <1>4. PICK x : x = Append(<<c>>, d)
    OBVIOUS
  <1>5. x \in Seq(S) /\ Len(x) = 2 /\ x[1] = c /\ x[2] = d
    BY <1>2, <1>4
  <1>6. x = <<c, d>>
    BY <1>3, <1>5
  <1> QED BY <1>4, <1>6

LEMMA Joined ==
  ASSUME NEW a, NEW b, NEW c, NEW d
  PROVE  <<a, b>> \o <<c, d>> = <<a, b, c, d>> /\ <<a, b>> \o <<c>> = <<a, b, c>>
  <1>1. PICK S : S = {a, b, c, d}
    OBVIOUS
  <1>2. <<a, b>> \in Seq(S) /\ <<c, d>> \in Seq(S) /\ <<c>> \in Seq(S)
    BY <1>1
  <1>3. <<a, b, c, d>> \in Seq(S) /\ Len(<<a, b, c, d>>) = 4
    BY <1>1
  <1>4. <<a, b, c>> \in Seq(S) /\ Len(<<a, b, c>>) = 3
    BY <1>1
  <1>5. Len(<<a, b>>) = 2 /\ Len(<<c, d>>) = 2 /\ Len(<<c>>) = 1
    OBVIOUS
  <1>6. PICK x : x = <<a, b>> \o <<c, d>>
    OBVIOUS
  <1>7. x \in Seq(S) /\ Len(x) = 4 /\ x[1] = a /\ x[2] = b /\ x[3] = c /\ x[4] = d
    BY <1>2, <1>5, <1>6
  <1>8. x = <<a, b, c, d>>
    BY <1>3, <1>7
  <1>9. PICK y : y = <<a, b>> \o <<c>>
    OBVIOUS
  <1>10. y \in Seq(S) /\ Len(y) = 3 /\ y[1] = a /\ y[2] = b /\ y[3] = c
    BY <1>2, <1>5, <1>9
  <1>11. y = <<a, b, c>>
    BY <1>4, <1>10
  <1> QED BY <1>6, <1>8, <1>9, <1>11

LEMMA EntriesAreRows ==
  RecordLedgerIdempotent({}, BookEntries) = Income \union Costs(NoTx)
  <1>1. PICK a : a = FeeRow
    OBVIOUS
  <1>2. PICK b : b = VerifierRow
    OBVIOUS
  <1>3. PICK c : c = ModuleRow(NoTx)
    OBVIOUS
  <1>4. PICK d : d = RoyaltyRow(NoTx)
    OBVIOUS
  <1>5. EntriesForComplete(Case, Job, Budget, escrow.rates) = <<a, b>>
    BY <1>1, <1>2 DEF EntriesForComplete, MakeEntry, FeeRow, VerifierRow, Row, Split
  <1>6. ProcurementLedger(Case, QuotedPrice, purchase) = IF HasRoyalty THEN <<c, d>> ELSE <<c>>
    <2>1. c = EntryForModuleFee(Case, QuotedPrice, purchase.paid, purchase.settlementId)
      BY <1>3 DEF EntryForModuleFee, MakeEntry, ModuleRow, Row
    <2>2. d = EntryForRoyalty(Case, Owed, purchase.settlementId)
      BY <1>4 DEF EntryForRoyalty, MakeEntry, RoyaltyRow, Row
    <2>3. Append(<<c>>, d) = <<c, d>>
      BY AppendToOne
    <2> QED BY <2>1, <2>2, <2>3 DEF ProcurementLedger, HasRoyalty, Owed
  <1>7. /\ a.category = "case_fee" /\ a.account = "operator"
        /\ b.category = "case_fee" /\ b.account = "verifier"
        /\ c.category = "module_fee" /\ d.category = "royalty"
    BY <1>1, <1>2, <1>3, <1>4, RowFields DEF FeeRow, VerifierRow, ModuleRow, RoyaltyRow
  <1>8. /\ Key(a) # Key(b) /\ Key(a) # Key(c) /\ Key(a) # Key(d)
        /\ Key(b) # Key(c) /\ Key(b) # Key(d) /\ Key(c) # Key(d)
    BY <1>7 DEF Key
  <1>9. CASE job = "completed" /\ HasRoyalty
    <2>1. BookEntries = <<a, b, c, d>>
      BY <1>5, <1>6, <1>9, Joined DEF BookEntries
    <2>2. PICK entries : entries = <<a, b, c, d>>
      OBVIOUS
    <2>3. /\ DOMAIN entries = 1..4
          /\ entries[1] = a /\ entries[2] = b /\ entries[3] = c /\ entries[4] = d
      BY <2>2
    <2>4. \A k, m \in 1..4 : k # m => Key(entries[k]) # Key(entries[m])
      BY <1>8, <2>3
    <2>5. RecordLedgerIdempotent({}, entries) = {entries[k] : k \in 1..4}
      BY <2>3, <2>4, Recorded
    <2>6. {entries[k] : k \in 1..4} = {a, b, c, d}
      BY <2>3
    <2> QED BY <1>1, <1>2, <1>3, <1>4, <1>9, <2>1, <2>2, <2>5, <2>6 DEF Income, Costs
  <1>10. CASE job = "completed" /\ ~HasRoyalty
    <2>1. BookEntries = <<a, b, c>>
      BY <1>5, <1>6, <1>10, Joined DEF BookEntries
    <2>2. PICK entries : entries = <<a, b, c>>
      OBVIOUS
    <2>3. DOMAIN entries = 1..3 /\ entries[1] = a /\ entries[2] = b /\ entries[3] = c
      BY <2>2
    <2>4. \A k, m \in 1..3 : k # m => Key(entries[k]) # Key(entries[m])
      BY <1>8, <2>3
    <2>5. RecordLedgerIdempotent({}, entries) = {entries[k] : k \in 1..3}
      BY <2>3, <2>4, Recorded
    <2>6. {entries[k] : k \in 1..3} = {a, b, c}
      BY <2>3
    <2> QED BY <1>1, <1>2, <1>3, <1>10, <2>1, <2>2, <2>5, <2>6 DEF Income, Costs
  <1>11. CASE job # "completed" /\ HasRoyalty
    <2>1. BookEntries = <<c, d>>
      BY <1>6, <1>11 DEF BookEntries
    <2>2. PICK entries : entries = <<c, d>>
      OBVIOUS
    <2>3. DOMAIN entries = 1..2 /\ entries[1] = c /\ entries[2] = d
      BY <2>2
    <2>4. \A k, m \in 1..2 : k # m => Key(entries[k]) # Key(entries[m])
      BY <1>8, <2>3
    <2>5. RecordLedgerIdempotent({}, entries) = {entries[k] : k \in 1..2}
      BY <2>3, <2>4, Recorded
    <2>6. {entries[k] : k \in 1..2} = {c, d}
      BY <2>3
    <2> QED BY <1>3, <1>4, <1>11, <2>1, <2>2, <2>5, <2>6 DEF Income, Costs
  <1>12. CASE job # "completed" /\ ~HasRoyalty
    <2>1. BookEntries = <<c>>
      BY <1>6, <1>12 DEF BookEntries
    <2>2. PICK entries : entries = <<c>>
      OBVIOUS
    <2>3. DOMAIN entries = 1..1 /\ entries[1] = c
      BY <2>2
    <2>4. \A k, m \in 1..1 : k # m => Key(entries[k]) # Key(entries[m])
      OBVIOUS
    <2>5. RecordLedgerIdempotent({}, entries) = {entries[k] : k \in 1..1}
      BY <2>3, <2>4, Recorded
    <2>6. {entries[k] : k \in 1..1} = {c}
      BY <2>3
    <2> QED BY <1>3, <1>12, <2>1, <2>2, <2>5, <2>6 DEF Income, Costs
  <1> QED BY <1>9, <1>10, <1>11, <1>12

\* The transaction reaches the rows of the receipt, which are what the purchase cost.
LEMMA SettledRows ==
  ASSUME NEW tx, NEW row \in PendingSettlements(books), NEW before,
         books = Income \union Costs(before)
  PROVE  AttachSettlementTx(books, row.ref, tx) = Income \union Costs(tx)
  <1>1. PICK c : c = ModuleRow(before)
    OBVIOUS
  <1>2. PICK d : d = RoyaltyRow(before)
    OBVIOUS
  <1>3. /\ c.ref = purchase.settlementId /\ c.ref_type = "gateway_receipt"
        /\ [c EXCEPT !.settlement_tx = tx] = ModuleRow(tx)
    BY <1>1, RowFields DEF ModuleRow
  <1>4. /\ d.ref = purchase.settlementId /\ d.ref_type = "gateway_receipt"
        /\ [d EXCEPT !.settlement_tx = tx] = RoyaltyRow(tx)
    BY <1>2, RowFields DEF RoyaltyRow
  <1>5. \A x \in Income : x.ref_type = "jobId"
    <2>1. FeeRow.ref_type = "jobId" /\ VerifierRow.ref_type = "jobId"
      BY RowFields DEF FeeRow, VerifierRow
    <2> QED BY <2>1 DEF Income
  <1>6. \A x \in Costs(before) : x.ref_type = "gateway_receipt" /\ x.ref = purchase.settlementId
    BY <1>1, <1>2, <1>3, <1>4 DEF Costs
  <1>7. row.ref = purchase.settlementId
    BY <1>5, <1>6 DEF PendingSettlements
  <1>8. ByReceipt(books, row.ref) = Costs(before)
    BY <1>5, <1>6, <1>7 DEF ByReceipt
  <1>9. \A x \in Income : x \notin Costs(before)
    BY <1>5, <1>6
  <1>10. AttachSettlementTx(books, row.ref, tx)
           = Income \union {[x EXCEPT !.settlement_tx = tx] : x \in Costs(before)}
    BY <1>8, <1>9 DEF AttachSettlementTx
  <1>11. {[x EXCEPT !.settlement_tx = tx] : x \in Costs(before)} = Costs(tx)
    <2>1. CASE HasRoyalty
      <3>1. Costs(before) = {c, d}
        BY <1>1, <1>2, <2>1 DEF Costs
      <3>2. {[x EXCEPT !.settlement_tx = tx] : x \in {c, d}}
              = {[c EXCEPT !.settlement_tx = tx], [d EXCEPT !.settlement_tx = tx]}
        OBVIOUS
      <3> QED BY <1>3, <1>4, <2>1, <3>1, <3>2 DEF Costs
    <2>2. CASE ~HasRoyalty
      <3>1. Costs(before) = {c}
        BY <1>1, <2>2 DEF Costs
      <3>2. {[x EXCEPT !.settlement_tx = tx] : x \in {c}} = {[c EXCEPT !.settlement_tx = tx]}
        OBVIOUS
      <3> QED BY <1>3, <2>2, <3>1, <3>2 DEF Costs
    <2> QED BY <2>1, <2>2
  <1> QED BY <1>10, <1>11

LEMMA MoneyStep ==
  ASSUME PipelineInv, MoneyInv, [PipelineNext]_pipelineVars PROVE MoneyInv'
  <1> USE DEF MoneyInv, Settled
  <1>1. Stages
    BY DEF PipelineInv
  <1>2. CASE Intake \/ PurchaseFails \/ Procure \/ Decide \/ Sign \/ Submit \/ VerifyCase
    <2>1. /\ UNCHANGED <<escrow, books>> /\ stage # "answered" /\ stage' # "answered"
          /\ stage' # "settled" /\ job' # "completed"
      BY <1>1, <1>2, IntakeIsOk DEF Stages, Intake, PurchaseFails, Procure, Decide, Sign, Submit,
                                    VerifyCase, caseVars, moneyVars
    <2> QED BY <2>1
  <1>3. CASE Settle
    <2>1. stage = "verified" /\ books' = books /\ stage' # "answered" /\ books = {}
      BY <1>3 DEF Settle
    <2>2. CASE job = "submitted"
      <3>1. /\ job' = IF report.passed THEN "completed" ELSE "rejected"
            /\ escrow' = [escrow EXCEPT
                            !.settledAt = escrow.rates,
                            !.paid = IF report.passed THEN PaidOut(escrow.rates) ELSE @]
        BY <1>3, <2>2 DEF Settle
      <3>2. /\ escrow'.rates = escrow.rates /\ escrow'.settledAt = escrow.rates
            /\ escrow' = [rates |-> escrow'.rates, settledAt |-> escrow'.settledAt,
                          paid |-> escrow'.paid]
        BY <3>1
      <3>3. report.passed => escrow'.paid = PaidOut(escrow.rates)
        BY <3>1
      <3>4. job' = "completed" => escrow'.paid = PaidOut(escrow'.settledAt)
        BY <3>1, <3>2, <3>3
      <3>5. job' \in {"completed", "rejected"}
        BY <3>1
      <3> QED BY <2>1, <3>2, <3>4, <3>5
    <2>3. CASE job # "submitted"
      BY <1>3, <2>1, <2>3 DEF Settle
    <2> QED BY <2>2, <2>3
  <1>4. CASE ChangeRates
    <2>1. PICK rates \in Rates : escrow' = [escrow EXCEPT !.rates = rates]
      BY <1>4 DEF ChangeRates
    <2>2. /\ escrow'.rates = rates /\ escrow'.settledAt = escrow.settledAt
          /\ escrow'.paid = escrow.paid
          /\ escrow' = [rates |-> escrow'.rates, settledAt |-> escrow'.settledAt,
                        paid |-> escrow'.paid]
      BY <2>1
    <2> QED BY <1>4, <2>2 DEF ChangeRates
  <1>5. CASE RecordBooks
    <2>1. /\ stage = "settled" /\ UNCHANGED <<job, escrow, purchase>> /\ Settled /\ books = {}
      BY <1>5 DEF RecordBooks, caseVars
    <2>2. CASE stage' = "answered" /\ books' = RecordLedgerIdempotent(books, BookEntries)
      <3>1. books' = Income \union Costs(NoTx)
        BY <2>1, <2>2, EntriesAreRows
      <3>2. Income' = Income /\ Costs(NoTx)' = Costs(NoTx)
        BY <2>1 DEF Income, Costs, FeeRow, VerifierRow, ModuleRow, RoyaltyRow, Split, Owed,
                    HasRoyalty
      <3> QED BY <2>1, <2>2, <3>1, <3>2
    <2>3. CASE stage' = "failed" /\ books' = books
      BY <2>1, <2>3
    <2> QED BY <1>5, <2>2, <2>3 DEF RecordBooks
  <1>6. CASE AttachSettlement
    <2>1. stage = "answered" /\ UNCHANGED <<stage, job, escrow, purchase>>
      BY <1>6 DEF AttachSettlement, caseVars
    <2>2. PICK before \in SettlementTxs \union {NoTx} : books = Income \union Costs(before)
      BY <2>1
    <2>3. PICK row \in PendingSettlements(books), tx \in SettlementTxs :
            books' = AttachSettlementTx(books, row.ref, tx)
      BY <1>6 DEF AttachSettlement
    <2>4. books' = Income \union Costs(tx)
      BY <2>2, <2>3, SettledRows
    <2>5. Income' = Income /\ Costs(tx)' = Costs(tx)
      BY <2>1 DEF Income, Costs, FeeRow, VerifierRow, ModuleRow, RoyaltyRow, Split, Owed,
                  HasRoyalty
    <2> QED BY <2>1, <2>4, <2>5
  <1>7. CASE Expire \/ ClaimRefund \/ Review \/ PayOut \/ UNCHANGED pipelineVars
    <2>1. UNCHANGED <<stage, escrow, books, purchase>>
      BY <1>7 DEF Expire, ClaimRefund, Review, PayOut, pipelineVars, caseVars, moneyVars
    <2>2. job' = job \/ (job \in {"funded", "submitted"} /\ job' = "expired")
      BY <1>7 DEF Expire, ClaimRefund, Review, PayOut, pipelineVars, moneyVars
    <2>3. CASE job' = job
      <3>1. Income' = Income /\ \A tx : Costs(tx)' = Costs(tx)
        BY <2>1, <2>3 DEF Income, Costs, FeeRow, VerifierRow, ModuleRow, RoyaltyRow, Split, Owed,
                          HasRoyalty
      <3> QED BY <2>1, <2>3, <3>1
    <2>4. CASE job \in {"funded", "submitted"} /\ job' = "expired"
      BY <2>1, <2>4
    <2> QED BY <2>2, <2>3, <2>4
  <1> QED BY <1>2, <1>3, <1>4, <1>5, <1>6, <1>7 DEF PipelineNext

LEMMA AlwaysMoneyInv == PipelineSpec => [](PipelineInv /\ MoneyInv)
  <1>1. PipelineInit => MoneyInv
    BY DEF PipelineInit, MoneyInv, Settled
  <1>2. PipelineInv /\ MoneyInv /\ [PipelineNext]_pipelineVars => MoneyInv'
    BY MoneyStep
  <1> QED BY <1>1, <1>2, AlwaysPipelineInv, PTL DEF PipelineSpec

\* Fees that come to no more than the budget leave a rest.
LEMMA FeesFit ==
  ASSUME NEW b \in Nat, NEW p \in Nat, NEW e \in Nat, p + e =< 10000
  PROVE  /\ (b * p) \div 10000 \in Nat /\ (b * e) \div 10000 \in Nat
         /\ (b * p) \div 10000 + (b * e) \div 10000 =< b
  <1>1. PICK x \in Nat : x = b * p
    OBVIOUS
  <1>2. PICK y \in Nat : y = b * e
    OBVIOUS
  <1>3. x + y =< b * 10000
    <2>1. x + y = b * (p + e)
      BY <1>1, <1>2
    <2>2. PICK rest \in Nat : rest = 10000 - (p + e)
      OBVIOUS
    <2>3. b * 10000 = b * (p + e) + b * rest
      <3>1. 10000 = (p + e) + rest
        BY <2>2
      <3>2. \A s, t \in Nat : b * (s + t) = b * s + b * t
        OBVIOUS
      <3>3. p + e \in Nat
        OBVIOUS
      <3> QED BY <3>1, <3>2, <3>3
    <2>4. b * rest \in Nat
      BY <2>2
    <2> QED BY <2>1, <2>3, <2>4
  <1>4. \A z \in Nat : z \div 10000 \in Nat /\ (z \div 10000) * 10000 =< z
    OBVIOUS
  <1> QED BY <1>1, <1>2, <1>3, <1>4

LEMMA SplitAmounts ==
  ASSUME MoneyInv
  PROVE  /\ Split.net \in Nat /\ Split.evaluatorFee \in Nat
         /\ Split.net + Split.evaluatorFee + PaidOut(escrow.rates).platformFee = Budget
         /\ Split.net = PaidOut(escrow.rates).net
         /\ Split.evaluatorFee = PaidOut(escrow.rates).evaluatorFee
  <1>1. PICK p : p = escrow.rates.platformFeeBP
    OBVIOUS
  <1>2. PICK e : e = escrow.rates.evaluatorFeeBP
    OBVIOUS
  <1>3. p \in Nat /\ e \in Nat /\ p + e =< 10000 /\ Budget \in Nat
    BY <1>1, <1>2, AmountsAssumption DEF MoneyInv, AmountsAssumption, BPS_DENOMINATOR
  <1>4. PICK platform : platform = (Budget * p) \div 10000
    OBVIOUS
  <1>5. PICK evaluator : evaluator = (Budget * e) \div 10000
    OBVIOUS
  <1>6. platform \in Nat /\ evaluator \in Nat /\ platform + evaluator =< Budget
    BY <1>3, <1>4, <1>5, FeesFit
  <1>7. Split.net = Budget - platform - evaluator /\ Split.evaluatorFee = evaluator
    BY <1>1, <1>2, <1>4, <1>5 DEF Split, SplitFees, BPS_DENOMINATOR
  <1>8. /\ PaidOut(escrow.rates).platformFee = platform
        /\ PaidOut(escrow.rates).evaluatorFee = evaluator
        /\ PaidOut(escrow.rates).net = Budget - (platform + evaluator)
    BY <1>1, <1>2, <1>4, <1>5 DEF PaidOut
  <1> QED BY <1>3, <1>6, <1>7, <1>8

LEMMA PurchaseAmounts ==
  ASSUME PipelineInv, stage = "answered"
  PROVE  /\ spent \in Nat /\ purchase.paid = spent /\ Owed \in Nat
  <1>1. Bought /\ spent \in Nat
    BY DEF PipelineInv, PurchaseInv, LegsInv, Built
  <1>2. PICK answer \in Answers :
          Procured(answer, Module, Case) /\ purchase = PurchaseOf(answer) /\ spent = answer.amount
    BY <1>1 DEF Bought
  <1>3. purchase.paid = spent /\ purchase.response = answer.data
    BY <1>2 DEF PurchaseOf, ProcurementOutcomeFrom
  <1>4. PICK bps : bps = purchase.response.royalty_bps
    OBVIOUS
  <1>5. bps \in 0..MAX_ROYALTY_BPS
    <2>1. PICK m : m = answer.data
      OBVIOUS
    <2>2. AssertModuleResponse(m)
      BY <1>2, <2>1 DEF Procured, Check
    <2>3. m.royalty_bps \in 0..MAX_ROYALTY_BPS
      BY <2>2 DEF AssertModuleResponse, ReadRoyaltyBps
    <2>4. bps = m.royalty_bps
      BY <1>3, <1>4, <2>1
    <2> QED BY <2>3, <2>4
  <1>6. (spent * bps) \div 10000 \in Nat
    <2>1. spent * bps \in Nat
      BY <1>1, <1>5
    <2>2. \A x \in Nat : x \div 10000 \in Nat
      OBVIOUS
    <2> QED BY <2>1, <2>2
  <1>7. Owed = (spent * bps) \div 10000
    BY <1>3, <1>4 DEF Owed, BPS_DENOMINATOR
  <1> QED BY <1>1, <1>3, <1>4, <1>6, <1>7

\* The rows of an answered case, field by field.
RowSays(row, direction, actual, ref, refType, category, account, tx) ==
    /\ row.direction = direction /\ row.amount_actual = actual
    /\ row.ref = ref /\ row.ref_type = refType
    /\ row.category = category /\ row.account = account /\ row.settlement_tx = tx
    /\ ActualOf(row) = actual

LEMMA RowsOfCase ==
  ASSUME NEW tx
  PROVE  /\ RowSays(FeeRow, "in", Split.net, Job, "jobId", "case_fee", "operator", NoTx)
         /\ RowSays(VerifierRow, "in", Split.evaluatorFee, Job, "jobId", "case_fee", "verifier",
                   NoTx)
         /\ RowSays(ModuleRow(tx), "out", purchase.paid, purchase.settlementId,
                   "gateway_receipt", "module_fee", "procurement", tx)
         /\ RowSays(RoyaltyRow(tx), "out", Owed, purchase.settlementId, "gateway_receipt",
                   "royalty", "procurement", tx)
  BY RowFields DEF FeeRow, VerifierRow, ModuleRow, RoyaltyRow, RowSays

\* Every row says what it is booked as, under evidence of the kind its category
\* asks for, and every stage and exit is one the code names (types.ts,
\* run-case.ts).
THEOREM AlwaysPipelineTypeOK == PipelineSpec => []PipelineTypeOK
  <1>1. ASSUME PipelineInv
        PROVE  decision.exit \in {"none", "high_confidence", "interpretive_gray"}
    <2>1. CASE legs = <<>>
      BY <1>1, <2>1 DEF PipelineInv, LegsInv
    <2>2. CASE legs # <<>>
      <3>1. decision = RouteExit("ok", FALSE, Summaries)
        BY <1>1, <2>2 DEF PipelineInv, LegsInv, Built
      <3> QED BY <3>1, TwoExits
    <2> QED BY <2>1, <2>2
  <1>2. ASSUME PipelineInv, NEW leg \in ToSet(legs)
        PROVE  leg.condition \in Condition /\ leg.confidence \in Confidence
    <2>1. legs # <<>>
      BY <1>2 DEF ToSet
    <2>2. Built /\ input \in Inputs
      BY <1>2, <2>1 DEF PipelineInv, LegsInv, Stages
    <2>3. PICK m : m = purchase.response
      OBVIOUS
    <2>4. m.overall \in CheckStatus /\ m.evaluated \in Nat
      BY <2>2, <2>3 DEF Built, Bought, Procured, Check, AssertModuleResponse, ReadConstraints,
                        PurchaseOf
    <2>5. PICK v : v = input.verdicts
      OBVIOUS
    <2>6. v \in [DOMAIN Rubric -> Verdict]
      BY <2>2, <2>5 DEF Inputs
    <2>7. legs = <<LegOf(input.settlement, m, v, Escalation)>>
      BY <2>2, <2>3, <2>5, <2>6, TheLeg DEF Built
    <2>8. leg = LegOf(input.settlement, m, v, Escalation)
      BY <2>7 DEF ToSet
    <2>9. leg.condition = DeriveCondition(<<m>>) /\ leg.confidence = DeriveLegConfidence(v)
      BY <2>8 DEF LegOf
    <2>10. DeriveCondition(<<m>>) \in Condition
      BY <2>4, ConditionOfOne, ModuleCondition
    <2>11. DeriveLegConfidence(v) \in Confidence
      BY <2>6, LegConfidence, VerdictsAreSequence
    <2> QED BY <2>9, <2>10, <2>11
  <1>3. ASSUME PipelineInv, MoneyInv, NEW row \in books
        PROVE  /\ row.category \in LedgerCategory /\ row.account \in LedgerAccount
               /\ RefTypeAllowed(row.category, row.ref_type)
               /\ row.amount_actual \in Nat /\ row.settlement_tx \in SettlementTxs \union {NoTx}
    <2>1. stage = "answered"
      BY <1>3 DEF MoneyInv
    <2>2. PICK tx \in SettlementTxs \union {NoTx} : books = Income \union Costs(tx)
      BY <1>3, <2>1 DEF MoneyInv
    <2>3. Split.net \in Nat /\ Split.evaluatorFee \in Nat /\ purchase.paid \in Nat /\ Owed \in Nat
      BY <1>3, <2>1, SplitAmounts, PurchaseAmounts
    <2>4. /\ RefTypeAllowed("case_fee", "jobId") /\ RefTypeAllowed("module_fee", "gateway_receipt")
          /\ RefTypeAllowed("royalty", "gateway_receipt")
      BY DEF RefTypeAllowed, REQUIRED_REF_TYPE
    <2>5. /\ {"case_fee", "module_fee", "royalty"} \subseteq LedgerCategory
          /\ {"operator", "verifier", "procurement"} \subseteq LedgerAccount
      BY DEF LedgerCategory, LedgerAccount
    <2>6. row \in {FeeRow, VerifierRow, ModuleRow(tx), RoyaltyRow(tx)}
      BY <2>2 DEF Income, Costs
    <2>7. CASE row = FeeRow
      BY <2>3, <2>4, <2>5, <2>7, RowsOfCase DEF RowSays
    <2>8. CASE row = VerifierRow
      BY <2>3, <2>4, <2>5, <2>8, RowsOfCase DEF RowSays
    <2>9. CASE row = ModuleRow(tx)
      BY <2>3, <2>4, <2>5, <2>9, RowsOfCase DEF RowSays
    <2>10. CASE row = RoyaltyRow(tx)
      BY <2>3, <2>4, <2>5, <2>10, RowsOfCase DEF RowSays
    <2> QED BY <2>6, <2>7, <2>8, <2>9, <2>10
  <1>4. PipelineInv /\ MoneyInv => PipelineTypeOK
    BY <1>1, <1>2, <1>3 DEF PipelineTypeOK, PipelineInv, Stages, PurchaseInv
  <1> QED BY <1>4, AlwaysMoneyInv, PTL

LEMMA TotalOfOne ==
  ASSUME NEW a, a.amount_actual \in Int
  PROVE  MapThenSumSet(ActualOf, {a}) = a.amount_actual
  <1>1. PICK rows : rows = {a}
    OBVIOUS
  <1>2. IsFiniteSet(rows) /\ \A row \in rows : row.amount_actual \in Int
    BY <1>1, FS_Singleton
  <1>3. PICK v : v = [row \in rows |-> ActualOf(row)]
    OBVIOUS
  <1>4. PICK g : Adds(rows, v, g) /\ MapThenSumSet(ActualOf, rows) = g[rows]
    BY <1>2, <1>3, TotalAdds
  <1>5. v \in [rows -> Int] /\ v[a] = a.amount_actual
    BY <1>1, <1>2, <1>3 DEF ActualOf
  <1>6. g[{a}] = v[a]
    BY <1>1, <1>4, <1>5, SumOfOne
  <1> QED BY <1>1, <1>4, <1>5, <1>6

LEMMA TotalOfTwo ==
  ASSUME NEW a, NEW b, a # b, a.amount_actual \in Int, b.amount_actual \in Int
  PROVE  MapThenSumSet(ActualOf, {a, b}) = a.amount_actual + b.amount_actual
  <1>1. PICK rows : rows = {a, b}
    OBVIOUS
  <1>2. IsFiniteSet(rows) /\ \A row \in rows : row.amount_actual \in Int
    <2>1. IsFiniteSet({a} \union {b})
      BY FS_Singleton, FS_Union
    <2>2. {a} \union {b} = rows
      BY <1>1
    <2> QED BY <1>1, <2>1, <2>2
  <1>3. PICK v : v = [row \in rows |-> ActualOf(row)]
    OBVIOUS
  <1>4. PICK g : Adds(rows, v, g) /\ MapThenSumSet(ActualOf, rows) = g[rows]
    BY <1>2, <1>3, TotalAdds
  <1>5. v \in [rows -> Int] /\ v[a] = a.amount_actual /\ v[b] = b.amount_actual
    BY <1>1, <1>2, <1>3 DEF ActualOf
  <1>6. g[{a, b}] = v[a] + v[b]
    BY <1>1, <1>4, <1>5, SumOfTwo
  <1> QED BY <1>1, <1>4, <1>5, <1>6

LEMMA TotalOf ==
  ASSUME NEW category, NEW rows, rows = {row \in books : row.category = category}
  PROVE  TotalActual(books, category) = MapThenSumSet(ActualOf, rows)
  BY DEF TotalActual

\* What two rows in and one row out come to.
LEMMA NetOfThree ==
  ASSUME NEW a, NEW b, NEW c, a # b, a # c, b # c,
         a.direction = "in", b.direction = "in", c.direction = "out",
         a.amount_actual \in Int, b.amount_actual \in Int, c.amount_actual \in Int
  PROVE  NetActual({a, b, c}) = a.amount_actual + b.amount_actual - c.amount_actual
  <1>1. PICK rows : rows = {a, b, c}
    OBVIOUS
  <1>2. IsFiniteSet(rows)
    <2>1. IsFiniteSet(({a} \union {b}) \union {c})
      BY FS_Singleton, FS_Union
    <2>2. ({a} \union {b}) \union {c} = rows
      BY <1>1
    <2> QED BY <2>1, <2>2
  <1>3. \A row \in rows : row.amount_actual \in Int
    BY <1>1
  <1>4. PICK v : v = [row \in rows |-> Flow(row)]
    OBVIOUS
  <1>5. PICK g : Adds(rows, v, g) /\ NetActual(rows) = g[rows]
    BY <1>2, <1>3, <1>4, NetAdds
  <1>6. /\ v[a] = a.amount_actual /\ v[b] = b.amount_actual /\ v[c] = -c.amount_actual
    BY <1>1, <1>4 DEF Flow
  <1>7. v \in [rows -> Int]
    BY <1>3, <1>4 DEF Flow
  <1>8. g[{a, b}] = v[a] + v[b]
    BY <1>1, <1>5, <1>7, SumOfTwo
  <1>9. g[{a, b} \union {c}] = v[c] + g[{a, b}]
    <2>1. PICK s \in SUBSET rows : s = {a, b}
      BY <1>1
    <2>2. c \in rows /\ c \notin s
      BY <1>1, <2>1
    <2>3. g[s \union {c}] = v[c] + g[s]
      BY <1>5, <2>2, OneMore
    <2> QED BY <2>1, <2>3
  <1>10. {a, b} \union {c} = rows
    BY <1>1
  <1>11. g[rows] = v[c] + (v[a] + v[b])
    BY <1>8, <1>9, <1>10
  <1>12. \A x, y, z \in Int : -z + (x + y) = x + y - z
    OBVIOUS
  <1>13. NetActual(rows) = -c.amount_actual + (a.amount_actual + b.amount_actual)
    BY <1>5, <1>6, <1>11
  <1> QED BY <1>1, <1>12, <1>13

\* Whatever the fee, the rates and the module's price: what the books of an
\* answered case call paid, the royalty aside, was paid (run-case.ts
\* recordLedger, entries.ts, stages.ts procurementLedger).
THEOREM AlwaysBooksMatchMoney == PipelineSpec => []BooksMatchMoney
  <1>1. ASSUME PipelineInv, MoneyInv, stage = "answered"
        PROVE  BooksMatchMoney
    <2>1. PICK tx \in SettlementTxs \union {NoTx} : books = Income \union Costs(tx)
      BY <1>1 DEF MoneyInv
    <2>2. PICK a : a = FeeRow
      OBVIOUS
    <2>3. PICK b : b = VerifierRow
      OBVIOUS
    <2>4. PICK c : c = ModuleRow(tx)
      OBVIOUS
    <2>5. PICK d : d = RoyaltyRow(tx)
      OBVIOUS
    <2>6. /\ RowSays(a, "in", Split.net, Job, "jobId", "case_fee", "operator", NoTx)
          /\ RowSays(b, "in", Split.evaluatorFee, Job, "jobId", "case_fee", "verifier", NoTx)
          /\ RowSays(c, "out", purchase.paid, purchase.settlementId, "gateway_receipt",
                     "module_fee", "procurement", tx)
          /\ RowSays(d, "out", Owed, purchase.settlementId, "gateway_receipt", "royalty",
                     "procurement", tx)
      BY <2>2, <2>3, <2>4, <2>5, RowsOfCase
    <2>7. /\ a.category = "case_fee" /\ a.account = "operator" /\ a.direction = "in"
          /\ b.category = "case_fee" /\ b.account = "verifier" /\ b.direction = "in"
          /\ c.category = "module_fee" /\ c.direction = "out"
          /\ d.category = "royalty" /\ d.direction = "out"
          /\ a.ref_type = "jobId" /\ b.ref_type = "jobId"
          /\ c.ref = purchase.settlementId /\ c.settlement_tx = tx
          /\ d.ref = purchase.settlementId /\ d.settlement_tx = tx
      BY <2>6 DEF RowSays
    <2>8. /\ a.amount_actual = Split.net /\ b.amount_actual = Split.evaluatorFee
          /\ c.amount_actual = purchase.paid /\ d.amount_actual = Owed
      BY <2>6 DEF RowSays
    <2>9. /\ Split.net \in Nat /\ Split.evaluatorFee \in Nat
          /\ Split.net + Split.evaluatorFee + PaidOut(escrow.rates).platformFee = Budget
          /\ Split.net = PaidOut(escrow.rates).net
          /\ Split.evaluatorFee = PaidOut(escrow.rates).evaluatorFee
      BY <1>1, SplitAmounts
    <2>10. spent \in Nat /\ purchase.paid = spent /\ Owed \in Nat
      BY <1>1, PurchaseAmounts
    <2>11. /\ a.amount_actual \in Int /\ b.amount_actual \in Int
           /\ c.amount_actual \in Int /\ d.amount_actual \in Int
      BY <2>8, <2>9, <2>10
    <2>12. a # b /\ a # c /\ b # c /\ d \notin {a, b, c}
      BY <2>7
    <2>13. Income = (IF job = "completed" THEN {a, b} ELSE {})
           /\ Costs(tx) = (IF HasRoyalty THEN {c, d} ELSE {c})
      BY <2>2, <2>3, <2>4, <2>5 DEF Income, Costs
    <2>14. TotalActual(books, "module_fee") = spent
      <3>1. {row \in books : row.category = "module_fee"} = {c}
        BY <2>1, <2>7, <2>13
      <3> QED BY <2>8, <2>10, <2>11, <3>1, TotalOf, TotalOfOne
    <2>15. ASSUME NEW row \in books, row.category = "module_fee"
           PROVE  row.ref = purchase.settlementId
      BY <2>1, <2>7, <2>13, <2>15
    <2>16. ASSUME NEW row \in books, NEW other \in books,
                  row.ref_type = "gateway_receipt", other.ref_type = "gateway_receipt"
           PROVE  row.settlement_tx = other.settlement_tx
      <3>1. row \in {a, b, c, d} /\ other \in {a, b, c, d}
        BY <2>1, <2>13
      <3>2. row \in {c, d} /\ other \in {c, d}
        BY <2>7, <2>16, <3>1
      <3> QED BY <2>7, <3>2
    <2>17. ASSUME job # "completed", NEW row \in books PROVE row.direction = "out"
      BY <2>1, <2>7, <2>13, <2>17
    <2>18. ASSUME job = "completed", escrow.rates = escrow.settledAt
           PROVE  /\ TotalActual(books, "case_fee") + escrow.paid.platformFee = Budget
                  /\ NetActual({row \in books : row.category # "royalty"})
                        = escrow.paid.net + escrow.paid.evaluatorFee - spent
      <3>1. escrow.paid = PaidOut(escrow.rates)
        BY <1>1, <2>18 DEF MoneyInv
      <3>2. TotalActual(books, "case_fee") = Split.net + Split.evaluatorFee
        <4>1. {row \in books : row.category = "case_fee"} = {a, b}
          BY <2>1, <2>7, <2>13, <2>18
        <4>2. TotalActual(books, "case_fee") = MapThenSumSet(ActualOf, {a, b})
          BY <4>1, TotalOf
        <4>3. MapThenSumSet(ActualOf, {a, b}) = a.amount_actual + b.amount_actual
          BY <2>11, <2>12, TotalOfTwo
        <4> QED BY <2>8, <4>2, <4>3
      <3>3. PICK net \in Nat : net = Split.net
        BY <2>9
      <3>4. PICK fee \in Nat : fee = Split.evaluatorFee
        BY <2>9
      <3>5. PICK platform : platform = PaidOut(escrow.rates).platformFee
        OBVIOUS
      <3>6. escrow.paid.platformFee = platform /\ escrow.paid.net = net
            /\ escrow.paid.evaluatorFee = fee
        BY <2>9, <3>1, <3>3, <3>4, <3>5
      <3>7. TotalActual(books, "case_fee") + escrow.paid.platformFee = Budget
        BY <2>9, <3>2, <3>5, <3>6
      <3>8. {row \in books : row.category # "royalty"} = {a, b, c}
        BY <2>1, <2>7, <2>13, <2>18
      <3>9. NetActual({a, b, c}) = a.amount_actual + b.amount_actual - c.amount_actual
        BY <2>7, <2>11, <2>12, NetOfThree
      <3>10. NetActual({row \in books : row.category # "royalty"}) = net + fee - spent
        BY <2>8, <2>10, <3>3, <3>4, <3>8, <3>9
      <3> QED BY <3>6, <3>7, <3>10
    <2> QED BY <2>14, <2>15, <2>16, <2>17, <2>18 DEF BooksMatchMoney
  <1>2. PipelineInv /\ MoneyInv => BooksMatchMoney
    BY <1>1 DEF BooksMatchMoney
  <1> QED BY <1>2, AlwaysMoneyInv, PTL
=============================================================================
