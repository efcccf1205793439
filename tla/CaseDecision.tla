---------------------------- MODULE CaseDecision ----------------------------
(***************************************************************************)
(* What a case's adjudications and the module's answer decide: the exit,   *)
(* the condition and confidence of each leg, the escalation material, and  *)
(* the settlement authorization (SA) that is signed over them.             *)
(* Everything here is a function of its arguments; CasePipeline runs it.   *)
(***************************************************************************)
EXTENDS Naturals, FiniteSets, Sequences, SequencesExt, FiniteSetsExt, Verdicts

CONSTANT NoMaterial  \* the escalation of a leg that has none

-----------------------------------------------------------------------------
\* exits.ts: an adjudication is [item_id, verdict, gray_type, exhausted].
ExitForGrayType(gray) ==
    CASE gray = "data" -> "data_gap"
      [] gray = "interpretive" -> "interpretive_gray"
      [] OTHER -> "none"

IsOpenDataGap(a) == ExitForGrayType(a.gray_type) = "data_gap" /\ ~a.exhausted

\* BUG: a gap that purchase did not close is not escalated.
NeedsEscalationInterpretive(a) == ExitForGrayType(a.gray_type) = "interpretive_gray"
NeedsEscalation(a) ==
    \/ ExitForGrayType(a.gray_type) = "interpretive_gray"
    \/ ExitForGrayType(a.gray_type) = "data_gap" /\ a.exhausted

Decision(exit, chainAction, actor) ==
    [exit |-> exit, chainAction |-> chainAction, actor |-> actor]

RouteExit(intake, expired, adjudications) ==
    CASE expired -> Decision("timeout", "claimRefund", "client")
      [] intake # "ok" -> Decision("intake_failed", "reject", "verifier")
      [] \E a \in ToSet(adjudications) : IsOpenDataGap(a) ->
            Decision("data_gap", "none", "none")
      [] \E a \in ToSet(adjudications) : NeedsEscalation(a) ->
            Decision("interpretive_gray", "submit", "operator")
      [] OTHER -> Decision("high_confidence", "submit", "operator")

ItemsNeedingEscalation(adjudications) == {a \in ToSet(adjudications) : NeedsEscalation(a)}

\* stages.ts: a case that has bought its module answer has nothing left to buy.
\* BUG: whether a data gap can still be bought away is not passed on.
ToRoutingSummariesUnprocured(items, procured) ==
    [n \in DOMAIN items |-> [item_id |-> items[n].item_id, verdict |-> items[n].verdict,
                             gray_type |-> items[n].gray_type, exhausted |-> FALSE]]
ToRoutingSummaries(items, procured) ==
    [n \in DOMAIN items |-> [item_id |-> items[n].item_id, verdict |-> items[n].verdict,
                             gray_type |-> items[n].gray_type, exhausted |-> procured]]

\* procurement.ts: the gate in front of a purchase, first denial first.
CheckProcurement(request, limits) ==
    CASE request.endpoint \notin limits.whitelist -> "not_whitelisted"
      [] request.amount > limits.maxSingle -> "exceeds_single_cap"
      [] request.amount > limits.available -> "insufficient_gateway_balance"
      [] limits.spent + request.amount > limits.maxPerCase -> "exceeds_case_budget"
      [] OTHER -> "allowed"

MAX_ATTEMPTS == 3
ShouldRetryProcurement(settled, attempts) == ~settled /\ attempts < MAX_ATTEMPTS

-----------------------------------------------------------------------------
\* condition.ts: a module answer is [overall, blocked, escalated, evaluated].
Condition == {"PASS", "HOLD", "ESCALATE"}
ConditionSeverity == [PASS |-> 0, HOLD |-> 1, ESCALATE |-> 2]

Worst(found, severity) ==
    CHOOSE worst \in found : \A other \in found : severity[other] =< severity[worst]

ConditionFromOverall(overall) ==
    IF overall = "NOT_APPLICABLE" THEN "ESCALATE" ELSE overall

\* BUG: an answer that looked at nothing passes.
ConditionFromConstraintsUncounted(m) ==
    CASE m.escalated # {} -> "ESCALATE"
      [] m.blocked # {} -> "HOLD"
      [] OTHER -> "PASS"
ConditionFromConstraints(m) ==
    CASE m.escalated # {} -> "ESCALATE"
      [] m.blocked # {} -> "HOLD"
      [] OTHER -> IF m.evaluated > 0 THEN "PASS" ELSE "ESCALATE"

ConditionFromModule(m) ==
    Worst({ConditionFromConstraints(m), ConditionFromOverall(m.overall)}, ConditionSeverity)

DeriveCondition(modules) ==
    IF modules = <<>> THEN "ESCALATE"
    ELSE Worst({ConditionFromModule(m) : m \in ToSet(modules)}, ConditionSeverity)

\* confidence.ts
Confidence == {"high", "gray_data_resolved", "gray_interpretive"}
ConfidenceSeverity == [high |-> 0, gray_data_resolved |-> 1, gray_interpretive |-> 2]

ConfidenceFromVerdict(verdict) ==
    CASE verdict \in {"confirmed_in_scope", "confirmed_exempt"} -> "high"
      [] verdict = "gray_data" -> "gray_data_resolved"
      [] OTHER -> "gray_interpretive"

DeriveLegConfidence(verdicts) ==
    IF verdicts = <<>> THEN "gray_interpretive"
    ELSE Worst({ConfidenceFromVerdict(v) : v \in ToSet(verdicts)}, ConfidenceSeverity)

-----------------------------------------------------------------------------
\* legs.ts and stages.ts: the condition comes from the modules alone, the
\* confidence from the verdicts alone.
\* BUG: confirmed verdicts overrule the module.
LegJudged(party, payee, amount, modules, basis, escalation) ==
    LET confidence == DeriveLegConfidence([n \in DOMAIN basis |-> basis[n].verdict])
    IN [party |-> party, payee |-> payee, amount |-> amount, basis |-> basis,
        condition |-> IF confidence = "high" THEN "PASS" ELSE DeriveCondition(modules),
        confidence |-> confidence, escalation |-> escalation]
BuildLeg(party, payee, amount, modules, basis, escalation) ==
    [party |-> party, payee |-> payee, amount |-> amount, basis |-> basis,
     condition |-> DeriveCondition(modules),
     confidence |-> DeriveLegConfidence([n \in DOMAIN basis |-> basis[n].verdict]),
     escalation |-> escalation]

CountConditions(legs) ==
    [c \in Condition |-> Cardinality({n \in DOMAIN legs : legs[n].condition = c})]

BuildPreview(legs, itemsCovered) ==
    [condition_summary |-> CountConditions(legs), items_covered |-> itemsCovered]

\* One leg whose basis has every rubric item, in the rubric's order.  An item
\* without a verdict is an error; CasePipeline's adjudications have none.
BuildSettlementLegs(settlement, module, rubric, items, escalation) ==
    LET VerdictOf(id) == (CHOOSE a \in ToSet(items) : a.item_id = id).verdict
        basis == [n \in DOMAIN rubric |-> [item_id |-> rubric[n], verdict |-> VerdictOf(rubric[n])]]
    IN <<BuildLeg(settlement.party, settlement.payee, settlement.amount,
                  <<module>>, basis, escalation)>>

-----------------------------------------------------------------------------
\* escalation/: the briefing pack and the review job's template.
TemplateAccepted(config) == config.client # "zero" /\ config.client # config.provider

BriefingItems(rubric, items, ids) ==
    {[item_id |-> id, verdict |-> (CHOOSE a \in ToSet(items) : a.item_id = id).verdict] :
        id \in ToSet(rubric) \intersect ids}

BuildCaseEscalation(rubric, items, ids, config) ==
    [briefing |-> BriefingItems(rubric, items, ids),
     template |-> [client |-> config.client, provider |-> config.provider,
                   evaluator |-> config.evaluator, escalated_item_ids |-> ids]]

-----------------------------------------------------------------------------
\* sa/build.ts: a document that speaks of authorizing is not built at all,
\* wherever in it the phrase stands: in any of the free texts of the body (its
\* conditions, verdicts, numbers and instants come from closed sets).
FORBIDDEN_SA_PHRASES ==
    {"citely authorizes", "authorizes the payment", "authorize the payment",
     "approves the payment", "instructs the wallet to pay"}

BuildSaBody(case, job, expires, module, legs, itemsCovered) ==
    [case_id |-> case, bound_to |-> [job_id |-> job, expires_at |-> expires],
     modules_used |-> <<[module_id |-> module.module_id, version |-> module.version]>>,
     legs |-> legs, preview |-> BuildPreview(legs, itemsCovered)]

Texts(body) ==
    LET Legs == ToSet(body.legs)
        Modules == ToSet(body.modules_used)
    IN {body.case_id} \union {m.module_id : m \in Modules} \union {m.version : m \in Modules}
       \union {leg.party : leg \in Legs} \union {leg.payee : leg \in Legs}
       \union UNION {{entry.item_id : entry \in ToSet(leg.basis)} : leg \in Legs}
AssertNoForbiddenWording(body) == Texts(body) \intersect FORBIDDEN_SA_PHRASES = {}

\* sa/hash.ts: the hash is taken of the body without its attestation, and two
\* bodies have the same hash only if they are the same.
ComputeDeliverableHash(body) == [sha256 |-> body]

\* sa/eip712.ts: a signature is one over a typed message, on one chain.
ChainId == "arcTestnet"
Signature(account, message) == [by |-> account, chain |-> ChainId, over |-> message]
Recovers(signature, account, message) == signature = Signature(account, message)

BuildSaAttestationMessage(body) ==
    [caseId |-> body.case_id, jobId |-> body.bound_to.job_id,
     expiresAt |-> body.bound_to.expires_at, deliverableHash |-> ComputeDeliverableHash(body)]

\* sa/sign.ts
SignSa(body, signer) ==
    LET message == BuildSaAttestationMessage(body) IN
    [body |-> body,
     attestation |-> [sa_hash |-> message.deliverableHash, signer |-> signer,
                      signature |-> Signature(signer, message)]]
=============================================================================
