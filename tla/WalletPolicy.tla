---------------------------- MODULE WalletPolicy ----------------------------
(***************************************************************************)
(* The paying wallet's side: what it can read of a signed document, and    *)
(* what its own policy lets it pay.                                        *)
(***************************************************************************)
EXTENDS Naturals, FiniteSets, Sequences, SequencesExt

CONSTANT Addresses  \* texts that are an address

\* sa-view.ts: a document is read as a whole or not at all, except that a
\* condition the wallet does not know is read as none.
KnownConditions == {"PASS", "HOLD", "ESCALATE"}
Legible(sa) ==
    /\ sa.attestation.signer \in Addresses
    /\ \A leg \in ToSet(sa.body.legs) : leg.payee \in Addresses
ParseLeg(leg) ==
    [payee |-> leg.payee, amount |-> leg.amount, basis |-> leg.basis,
     condition |-> IF leg.condition \in KnownConditions THEN leg.condition ELSE "null"]
ObserveSa(sa) ==
    [jobId |-> sa.body.bound_to.job_id, expiresAt |-> sa.body.bound_to.expires_at,
     moduleRefs |-> ToSet(sa.body.modules_used), signer |-> sa.attestation.signer,
     legs |-> [n \in 1..Len(sa.body.legs) |-> ParseLeg(sa.body.legs[n])]]

\* marketplace/src/policy.ts: what a wallet makes of an SA under its own policy.
SaBlockers(sa, policy, fundedJob, now) ==
    {code \in {"issuer_not_trusted", "sa_expired", "job_id_mismatch",
               "required_module_missing", "no_legs"} :
        \/ code = "issuer_not_trusted" /\ sa.signer \notin policy.trustedIssuers
        \/ code = "sa_expired" /\ sa.expiresAt =< now
        \/ code = "job_id_mismatch" /\ sa.jobId # fundedJob
        \/ code = "required_module_missing"
           /\ ~(policy.requiredModules \subseteq sa.moduleRefs)
        \/ code = "no_legs" /\ sa.legs = <<>>}

LegBlockers(leg, policy) ==
    CASE leg.payee \in policy.neverPayTo -> {"payee_blacklisted"}
      [] leg.amount > policy.maxLeg -> {"leg_amount_over_cap"}
      [] OTHER -> {}

\* A leg is withheld alone, unlike a leg that blocks the whole settlement.
Payable(leg, policy) ==
    /\ LegBlockers(leg, policy) = {}
    /\ leg.condition = "PASS" /\ leg.basis # <<>> /\ leg.amount > 0

\* The legs that are paid, in the document's order, and what they come to.
PaymentsOf(legs, policy) ==
    LET upto[n \in 0..Len(legs)] ==
            IF n = 0 THEN <<>>
            ELSE IF Payable(legs[n], policy) THEN Append(upto[n - 1], legs[n])
            ELSE upto[n - 1]
    IN upto[Len(legs)]
Amounts(payments) ==
    LET upto[n \in 0..Len(payments)] ==
            IF n = 0 THEN 0 ELSE upto[n - 1] + payments[n].amount
    IN upto[Len(payments)]

\* BUG: a blocked leg is skipped like one that is withheld.
ApplySettlementPolicySkipping(sa, policy, fundedJob, now) ==
    LET blockers == SaBlockers(sa, policy, fundedJob, now)
        payments == PaymentsOf(sa.legs, policy)
    IN IF blockers = {} /\ Amounts(payments) =< policy.maxTotal THEN payments ELSE <<>>
ApplySettlementPolicy(sa, policy, fundedJob, now) ==
    LET payments == PaymentsOf(sa.legs, policy)
        blockers == SaBlockers(sa, policy, fundedJob, now)
                    \union UNION {LegBlockers(leg, policy) : leg \in ToSet(sa.legs)}
    IN IF blockers = {} /\ Amounts(payments) =< policy.maxTotal THEN payments ELSE <<>>
=============================================================================
