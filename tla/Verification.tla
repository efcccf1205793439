---------------------------- MODULE Verification ----------------------------
(***************************************************************************)
(* The verifier: how attestations of module versions come about, which     *)
(* keys it trusts, and the three checks an SA must pass before its job is  *)
(* completed.  A check collects the codes of everything it finds.          *)
(***************************************************************************)
EXTENDS CaseDecision

\* attestation-source.ts: what the attester is asked to sign, an entry
\* [module_id, version, rules_file, rules_hash]; "none" where a field is absent.
SourceEntryAccepted(entry) == entry.rules_file # "none" \/ entry.rules_hash # "none"

SourceAccepted(source) ==
    /\ source # <<>>
    /\ \A entry \in ToSet(source) : SourceEntryAccepted(entry)
    /\ \A m, n \in DOMAIN source :
        source[m].module_id = source[n].module_id /\ source[m].version = source[n].version
            => m = n

\* A snapshot of the rules, where there is one, is hashed here.
ResolveRulesHash(entry) ==
    IF entry.rules_file # "none" THEN [sha256 |-> entry.rules_file] ELSE entry.rules_hash

ModuleAttestationMessage(entry) ==
    [moduleId |-> entry.module_id, version |-> entry.version, rulesHash |-> entry.rules_hash]

SignAttestationEntry(module, version, rulesHash, account) ==
    LET claim == [module_id |-> module, version |-> version, rules_hash |-> rulesHash] IN
    [module_id |-> module, version |-> version, rules_hash |-> rulesHash, attester |-> account,
     signature |-> Signature(account, ModuleAttestationMessage(claim))]

SignAttestationSource(source, account) ==
    [n \in DOMAIN source |->
        SignAttestationEntry(source[n].module_id, source[n].version,
                             ResolveRulesHash(source[n]), account)]

\* trust-registry.ts: signers and attesters are separate keys, neither empty.
RegistryAccepted(registry) ==
    /\ registry.citelySigners # {} /\ registry.moduleAttesters # {}
    /\ registry.citelySigners \intersect registry.moduleAttesters = {}

-----------------------------------------------------------------------------
\* checks/signature.ts
SignatureFailures(sa, registry, submitted) ==
    LET recomputed == ComputeDeliverableHash(sa.body) IN
    {code \in {"sa_hash_mismatch", "onchain_hash_mismatch", "signer_not_registered",
               "signature_invalid"} :
        \/ code = "sa_hash_mismatch" /\ recomputed # sa.attestation.sa_hash
        \/ code = "onchain_hash_mismatch" /\ recomputed # submitted
        \/ code = "signer_not_registered" /\ sa.attestation.signer \notin registry.citelySigners
        \/ code = "signature_invalid"
           /\ ~Recovers(sa.attestation.signature, sa.attestation.signer,
                        BuildSaAttestationMessage(sa.body))}

\* checks/attestation.ts: an entry is worth what its own signature says of it.
VerifyAttestationEntry(entry) ==
    Recovers(entry.signature, entry.attester, ModuleAttestationMessage(entry))

\* The first entry of the manifest for a module's version decides.
Unsound(matching, manifest, registry) ==
    LET entry == manifest[Min(matching)] IN
    CASE matching = {} -> {"attestation_missing"}
      [] matching # {} /\ entry.attester \notin registry.moduleAttesters ->
            {"attester_not_trusted"}
      [] matching # {} /\ entry.attester \in registry.moduleAttesters ->
            IF VerifyAttestationEntry(entry) THEN {} ELSE {"attestation_signature_invalid"}

\* BUG: the version of the entry is not compared.
ModuleFailureAnyVersion(used, manifest, registry) ==
    Unsound({n \in DOMAIN manifest : manifest[n].module_id = used.module_id},
            manifest, registry)
ModuleFailure(used, manifest, registry) ==
    Unsound({n \in DOMAIN manifest : /\ manifest[n].module_id = used.module_id
                                      /\ manifest[n].version = used.version},
            manifest, registry)

AttestationFailures(sa, manifest, registry) ==
    UNION {ModuleFailure(used, manifest, registry) : used \in ToSet(sa.body.modules_used)}
    \union IF sa.body.modules_used = <<>> THEN {"no_modules_referenced"} ELSE {}

\* checks/coverage.ts
Covered(legs) == UNION {{b.item_id : b \in ToSet(leg.basis)} : leg \in ToSet(legs)}

LegFailures(leg) ==
    {code \in {"condition_invalid", "confidence_invalid", "leg_without_basis",
               "escalation_material_missing"} :
        \/ code = "condition_invalid" /\ leg.condition \notin Condition
        \/ code = "confidence_invalid" /\ leg.confidence \notin Confidence
        \/ code = "leg_without_basis" /\ leg.basis = <<>>
        \/ code = "escalation_material_missing"
           /\ leg.condition = "ESCALATE" /\ leg.escalation = NoMaterial}

CoverageFailures(sa, rubric) ==
    LET covered == Covered(sa.body.legs)
        ids == ToSet(rubric)
    IN UNION {LegFailures(leg) : leg \in ToSet(sa.body.legs)} \union
       {code \in {"no_legs", "rubric_items_uncovered", "unknown_rubric_items",
                  "preview_items_covered_mismatch"} :
            \/ code = "no_legs" /\ sa.body.legs = <<>>
            \/ code = "rubric_items_uncovered" /\ ~(ids \subseteq covered)
            \/ code = "unknown_rubric_items" /\ ~(covered \subseteq ids)
            \/ code = "preview_items_covered_mismatch"
               /\ sa.body.preview.items_covered # Cardinality(covered)}

-----------------------------------------------------------------------------
\* checks/types.ts: a check passes when it found nothing.
Outcome(check, failures) == [check |-> check, passed |-> failures = {}, codes |-> failures]

\* reason.ts: what goes on chain as a hash, the codes of every check in it.
BuildReason(hash, job, outcomes) ==
    [outcome |-> IF \A o \in outcomes : o.passed THEN "accepted" ELSE "rejected",
     sa_hash |-> hash, job_id |-> job, checks |-> outcomes]
ReasonHash(reason) == [sha256 |-> reason]

\* verify.ts: all three checks always run.
Verify(sa, rubric, manifest, registry, submitted) ==
    LET outcomes ==
            {Outcome("deliverable_signature", SignatureFailures(sa, registry, submitted)),
             Outcome("module_attestation", AttestationFailures(sa, manifest, registry)),
             Outcome("rubric_coverage", CoverageFailures(sa, rubric))}
        reason == BuildReason(ComputeDeliverableHash(sa.body), sa.body.bound_to.job_id, outcomes)
    IN [passed |-> \A o \in outcomes : o.passed, outcomes |-> outcomes,
        reason |-> reason, reasonHash |-> ReasonHash(reason)]
=============================================================================
