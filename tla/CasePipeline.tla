---------------------------- MODULE CasePipeline ----------------------------
(***************************************************************************)
(* One case from its material to the wallet's payments: intake, purchase,  *)
(* routing, legs, signature, submission, the verifier's checks,            *)
(* settlement, the books, and the wallet's own review.  The adjudications  *)
(* are any that Adjudicator's RubricIsAnswered allows, the module's answer *)
(* any that passes the buyer's validation; neither is related to the other.*)
(***************************************************************************)
EXTENDS Verification, WalletPolicy, ModulePurchase, CaseBooks, Sandbox, TLC

CONSTANTS
    Rubric,       \* the rubric's item ids, in order
    Evidence,     \* sets of texts a case's evidence may have
    Module,       \* the module a case asks
    Answers,      \* what the gateway may answer to a payment
    Balances,     \* what the procurement wallet may hold at the gateway
    QuotedPrice,  \* the price of an answer in the request
    Budget,       \* the case's fee
    Rates,        \* fee rates the contract may have
    SettlementTxs,\* transactions that may settle a receipt later
    Configs,      \* escalation configurations, NoMaterial among them
    Deployments,  \* [signer, manifest, registry] of the desk and its verifier
    Settlements,  \* [party, payee, amount] a case may ask for
    OtherSas,     \* documents of others a wallet may be shown
    Policies      \* the wallet's policies

NoDecision == Decision("none", "none", "none")

\* index.ts, trust-registry.ts: a deployment whose keys overlap does not start.
ASSUME DeploymentAssumption ==
    \A d \in Deployments :
        /\ RegistryAccepted(d.registry) /\ SourceAccepted(d.source)
        /\ d.manifest \in Seq(ToSet(d.manifest))
\* rubric/index.ts: a rubric has items, and no id twice.
ParseRubric(rubric) == rubric # <<>> /\ IsInjective(rubric)
ASSUME RubricAssumption == Rubric \in Seq(ToSet(Rubric)) /\ ParseRubric(Rubric)
\* The contract takes no rates that come to more than the budget (FeesTooHigh);
\* a payment over the gateway is of an unsigned amount.
ASSUME AmountsAssumption ==
    /\ Budget \in Nat /\ \A answer \in Answers : answer.amount \in Nat
    /\ \A rates \in Rates : /\ rates.platformFeeBP \in Nat /\ rates.evaluatorFeeBP \in Nat
                           /\ rates.platformFeeBP + rates.evaluatorFeeBP =< BPS_DENOMINATOR
\* usdc6.ts, sa-view.ts: an amount with a sign is refused where it is read.
ASSUME DocumentAssumption ==
    /\ \A s \in Settlements : s.amount \in Nat
    /\ \A document \in OtherSas :
        /\ document.body.legs \in Seq(ToSet(document.body.legs))
        /\ \A leg \in ToSet(document.body.legs) : leg.amount \in Nat
    /\ \A policy \in Policies : policy.maxLeg \in Int /\ policy.maxTotal \in Int

VARIABLES
    input,      \* what the case starts from
    stage,      \* how far runCase has come
    decision,   \* the exit
    purchase,   \* what was bought, once it is on record
    spent,      \* what has left the procurement wallet
    legs,       \* the legs, once built
    sa,         \* the signed document
    report,     \* the verifier's report
    job,        \* state of the case's job on chain
    escrow,     \* the contract's fee rates and what it has paid out
    books,      \* the ledger's rows
    now,        \* 0 until the job expires, 1 from then on
    wallet      \* the wallet's review: payments still to make and made
caseVars == <<input, decision, purchase, spent, legs, sa, report>>
moneyVars == <<job, escrow, books, now, wallet>>
pipelineVars == <<caseVars, stage, moneyVars>>

Case == "case"
Job == "job"
Expiry == 1
Unpaid == [platformFee |-> 0, evaluatorFee |-> 0, net |-> 0]
Unreviewed == [shown |-> {}, policy |-> {}, due |-> <<>>, made |-> <<>>, funded |-> "none"]

Items(verdicts) ==
    [n \in DOMAIN Rubric |-> [item_id |-> Rubric[n], verdict |-> verdicts[n],
                              gray_type |-> GrayTypeFor(verdicts[n])]]

\* A leg without material is not mistaken for one that has some.
ASSUME MaterialAssumption ==
    \A verdicts \in [DOMAIN Rubric -> Verdict], ids \in SUBSET ToSet(Rubric),
       config \in Configs \ {NoMaterial} :
        BuildCaseEscalation(Rubric, Items(verdicts), ids, config) # NoMaterial

PipelineInit ==
    /\ input \in [evidence: Evidence, config: Configs, verdicts: [DOMAIN Rubric -> Verdict],
                  deployment: Deployments, settlement: Settlements]
    /\ escrow \in [rates: Rates, settledAt: {"none"}, paid: {Unpaid}]
    /\ stage = "intake" /\ decision = NoDecision /\ purchase = NoPurchase /\ spent = 0
    /\ legs = <<>> /\ sa = {} /\ report = {} /\ job = "funded" /\ books = {}
    /\ now = 0 /\ wallet = Unreviewed

\* stages.ts intake, deriveIntakeStatus: the deal's activity is a field of its
\* own, so that a material is never without one.
Activity == [at |-> "value", depth |-> 1, index |-> 0, matches |-> {}]
IntakeStatus(facts) == IF facts.fields = {} THEN "unparsable" ELSE "ok"

Intake ==
    /\ stage = "intake"
    /\ LET status == IntakeStatus(Sanitized(input.evidence \union {Activity})) IN
        IF status = "ok"
        THEN stage' = "opened" /\ decision' = decision
        ELSE stage' = "rejected" /\ decision' = RouteExit(status, FALSE, <<>>)
    /\ UNCHANGED <<input, purchase, spent, legs, sa, report, moneyVars>>

\* procureOnce of a case that has bought nothing yet.  A balance that is too low
\* or a payment that fails costs nothing; an answer that is refused has cost
\* its price all the same, and leaves no row.
PurchaseFails ==
    /\ stage = "opened"
    /\ \E available \in Balances : available < MINIMUM_GATEWAY_BALANCE
    /\ stage' = "failed"
    /\ UNCHANGED <<caseVars, moneyVars>>

Procure ==
    /\ stage = "opened"
    /\ \E available \in Balances, answer \in Answers :
        /\ available >= MINIMUM_GATEWAY_BALANCE
        /\ spent' = spent + answer.amount
        /\ IF Procured(answer, Module, Case)
           THEN purchase' = PurchaseOf(answer) /\ stage' = "adjudicated"
           ELSE purchase' = purchase /\ stage' = "failed"
    /\ UNCHANGED <<input, decision, legs, sa, report, moneyVars>>

Summaries == ToRoutingSummaries(Items(input.verdicts), TRUE)
EscalatedIds == {a.item_id : a \in ItemsNeedingEscalation(Summaries)}

\* adjudicateAndSign up to the signature: exit, escalation, legs.
Decide ==
    /\ stage = "adjudicated"
    /\ LET exit == RouteExit("ok", FALSE, Summaries)
           escalates == exit.exit = "interpretive_gray"
           usable == input.config # NoMaterial /\ TemplateAccepted(input.config)
       IN /\ decision' = exit
          /\ IF escalates /\ ~usable
             THEN stage' = "failed" /\ legs' = legs
             ELSE /\ stage' = "decided"
                  /\ legs' = BuildSettlementLegs(input.settlement, purchase.response, Rubric,
                                Items(input.verdicts),
                                IF escalates
                                THEN BuildCaseEscalation(Rubric, Items(input.verdicts),
                                                         EscalatedIds, input.config)
                                ELSE NoMaterial)
    /\ UNCHANGED <<input, purchase, spent, sa, report, moneyVars>>

\* A document with a forbidden phrase is not signed; the purchase is made by then.
Sign ==
    /\ stage = "decided"
    /\ LET body == BuildSaBody(Case, Job, Expiry, purchase.response, legs, Len(Rubric)) IN
        IF AssertNoForbiddenWording(body)
        THEN sa' = SignSa(body, input.deployment.signer) /\ stage' = "signed"
        ELSE sa' = sa /\ stage' = "failed"
    /\ UNCHANGED <<input, decision, purchase, spent, legs, report, moneyVars>>

\* The job takes the hash while it is funded; after a refund the run fails.
Submit ==
    /\ stage = "signed"
    /\ IF job = "funded"
       THEN job' = "submitted" /\ stage' = "submitted"
       ELSE job' = job /\ stage' = "failed"
    /\ UNCHANGED <<caseVars, escrow, books, now, wallet>>

VerifyCase ==
    /\ stage = "submitted"
    /\ report' = Verify(sa, Rubric, input.deployment.manifest, input.deployment.registry,
                        sa.attestation.sa_hash)
    /\ stage' = "verified"
    /\ UNCHANGED <<input, decision, purchase, spent, legs, sa, moneyVars>>

\* The contract pays out by the rates it has at that moment.
PaidOut(rates) ==
    LET platform == (Budget * rates.platformFeeBP) \div 10000
        evaluator == (Budget * rates.evaluatorFeeBP) \div 10000
    IN [platformFee |-> platform, evaluatorFee |-> evaluator,
        net |-> Budget - (platform + evaluator)]

\* settle.ts: complete needs a submitted job, reject a job that is still open to it.
Settle ==
    /\ stage = "verified"
    /\ IF job = "submitted"
       THEN /\ job' = IF report.passed THEN "completed" ELSE "rejected"
            /\ escrow' = [escrow EXCEPT
                            !.settledAt = escrow.rates,
                            !.paid = IF report.passed THEN PaidOut(escrow.rates) ELSE @]
            /\ stage' = "settled"
       ELSE job' = job /\ escrow' = escrow /\ stage' = "failed"
    /\ UNCHANGED <<caseVars, books, now, wallet>>

\* The contract's owner changes a rate.  Only between the settlement and the
\* read that follows it does this differ from having had it all along.
ChangeRates ==
    /\ stage = "settled"
    /\ \E rates \in Rates \ {escrow.rates} : escrow' = [escrow EXCEPT !.rates = rates]
    /\ UNCHANGED <<caseVars, stage, job, books, now, wallet>>

\* recordLedger: the rates are read after the settlement, the rows go in one by
\* one.  When the read fails the case is settled and has no rows.
BookEntries ==
    (IF job = "completed" THEN EntriesForComplete(Case, Job, Budget, escrow.rates) ELSE <<>>)
    \o ProcurementLedger(Case, QuotedPrice, purchase)

RecordBooks ==
    /\ stage = "settled"
    /\ \/ books' = RecordLedgerIdempotent(books, BookEntries) /\ stage' = "answered"
       \/ books' = books /\ stage' = "failed"
    /\ UNCHANGED <<caseVars, job, escrow, now, wallet>>

\* The gateway settles its receipts in batches, later; what is attached to a
\* receipt by then is every row of it.
AttachSettlement ==
    /\ stage = "answered" /\ wallet = Unreviewed
    /\ \E row \in PendingSettlements(books), tx \in SettlementTxs :
        /\ MayAttach(books, row.ref, tx)
        /\ books' = AttachSettlementTx(books, row.ref, tx)
    /\ UNCHANGED <<caseVars, stage, job, escrow, now, wallet>>

\* The job's expiry passes, and someone claims the refund.
Expire ==
    /\ now = 0 /\ now' = 1
    /\ UNCHANGED <<caseVars, stage, job, escrow, books, wallet>>
ClaimRefund ==
    /\ now = 1 /\ job \in {"funded", "submitted"}
    /\ job' = "expired"
    /\ UNCHANGED <<caseVars, stage, escrow, books, now, wallet>>

\* agent.ts reviewAndSettle: the wallet reads the document it is shown, the
\* case's or another, against the job it has funded.
Review ==
    /\ stage = "answered" /\ wallet = Unreviewed
    /\ \E document \in {sa} \union OtherSas, policy \in Policies, funded \in {Job, "other"} :
        wallet' = [shown |-> {document}, policy |-> {policy}, funded |-> funded, made |-> <<>>,
                   due |-> IF Legible(document)
                           THEN ApplySettlementPolicy(ObserveSa(document), policy, funded, now)
                           ELSE <<>>]
    /\ UNCHANGED <<caseVars, stage, job, escrow, books, now>>

\* Payments go out one by one; the first that fails ends the review.
PayOut ==
    /\ wallet.due # <<>>
    /\ \/ wallet' = [wallet EXCEPT !.due = Tail(@), !.made = Append(@, Head(wallet.due))]
       \/ wallet' = [wallet EXCEPT !.due = <<>>]
    /\ UNCHANGED <<caseVars, stage, job, escrow, books, now>>

PipelineNext ==
    \/ Intake \/ PurchaseFails \/ Procure \/ Decide \/ Sign \/ Submit \/ VerifyCase
    \/ Settle \/ ChangeRates \/ RecordBooks \/ AttachSettlement
    \/ Expire \/ ClaimRefund \/ Review \/ PayOut
PipelineSpec == PipelineInit /\ [][PipelineNext]_pipelineVars

-----------------------------------------------------------------------------
HasSa == stage \in {"signed", "submitted", "verified", "settled", "answered"}

PipelineTypeOK ==
    /\ stage \in {"intake", "rejected", "opened", "adjudicated", "decided", "signed",
                  "submitted", "verified", "settled", "answered", "failed"}
    /\ decision.exit \in {"none", "high_confidence", "interpretive_gray"}
    /\ job \in {"funded", "submitted", "completed", "rejected", "expired"}
    /\ \A leg \in ToSet(legs) : leg.condition \in Condition /\ leg.confidence \in Confidence
    /\ now \in 0..1 /\ spent \in Nat
    /\ \A row \in books :
        /\ row.category \in LedgerCategory /\ row.account \in LedgerAccount
        /\ RefTypeAllowed(row.category, row.ref_type)
        /\ row.amount_actual \in Nat /\ row.settlement_tx \in SettlementTxs \union {NoTx}

\* Every item whose status is gray, or whose data gap the purchase did not
\* close, goes to a human: the signed leg carries a briefing that names it, and
\* does not claim high confidence (exits.ts, stages.ts buildCaseEscalation).
GrayIsNeverSilent ==
    HasSa =>
        \A n \in DOMAIN Rubric :
            input.verdicts[n] \in {"gray_data", "gray_interpretive"} =>
                \A leg \in ToSet(legs) :
                    /\ leg.confidence # "high"
                    /\ leg.escalation # NoMaterial
                    /\ \E x \in leg.escalation.briefing :
                        x.item_id = Rubric[n] /\ x.verdict = input.verdicts[n]

\* In a deployment that is configured right, an SA the desk signed fails the
\* verifier in one case only: the module escalates and no adjudication does, so
\* that the leg says ESCALATE and routing attached no material (exits.ts
\* against condition.ts and coverage.ts).
SoundDeployment ==
    LET d == input.deployment IN
    /\ d.signer \in d.registry.citelySigners
    /\ ModuleFailure(purchase.response, d.manifest, d.registry) = {}
CodesOf(check) == UNION {o.codes : o \in {x \in report.outcomes : x.check = check}}
RejectedOnlyWhenPolicyAloneEscalates ==
    stage \in {"verified", "settled", "answered"} /\ SoundDeployment =>
        LET alone == /\ DeriveCondition(<<purchase.response>>) = "ESCALATE"
                     /\ decision.exit = "high_confidence"
        IN /\ report.passed <=> ~alone
           /\ alone => /\ CodesOf("rubric_coverage") = {"escalation_material_missing"}
                       /\ CodesOf("deliverable_signature") = {}
                       /\ CodesOf("module_attestation") = {}

\* A job is completed only for an answer of a module version that a trusted
\* attester, who is not the desk, has really signed, with its rules
\* (attestation.ts, attestation-source.ts, trust-registry.ts).
CompletedMeansAttested ==
    job = "completed" =>
        \E n \in DOMAIN input.deployment.manifest :
            LET entry == input.deployment.manifest[n] IN
            /\ entry.module_id = purchase.response.module_id
            /\ entry.version = purchase.response.version
            /\ entry.signature.by = entry.attester
            /\ entry.signature.over.version = purchase.response.version
            /\ entry.signature.over.rulesHash = entry.rules_hash
            /\ entry.attester \in input.deployment.registry.moduleAttesters
            /\ entry.attester # sa.attestation.signer

\* Whatever the model said of the items, a wallet pays on the desk's document
\* only when the module was asked about this very deal, looked at something and
\* found nothing (invariant 2 of stages.ts; x402-client.ts, condition.ts,
\* policy.ts).
PaidMeansModulePassed ==
    wallet.made # <<>> /\ wallet.shown = {sa} =>
        LET answer == purchase.response IN
        /\ answer.module_id = Module /\ answer.deal_id = Case
        /\ answer.overall = "PASS" /\ answer.evaluated > 0
        /\ answer.blocked = {} /\ answer.escalated = {}

\* A red line stops the whole settlement, not just its leg: of a document with
\* a leg to a banned payee or over the cap nothing is paid, and never more than
\* the total, even when payments stop half way; a leg whose condition the
\* wallet does not know is never paid (policy.ts, sa-view.ts, agent.ts).
NothingPastARedLine ==
    wallet.made # <<>> =>
        \A document \in wallet.shown, policy \in wallet.policy :
            /\ Amounts(wallet.made) =< policy.maxTotal
            /\ \A leg \in ToSet(document.body.legs) :
                leg.payee \notin policy.neverPayTo /\ leg.amount =< policy.maxLeg
            /\ \A payment \in ToSet(wallet.made) : payment.condition = "PASS"
            /\ document.body.bound_to.job_id = wallet.funded

\* What the books of an answered case call paid was paid, the royalty aside, which
\* is booked as paid though nobody pays it: the module's fee is what left the
\* wallet, under the receipt it left with, rows of one receipt name one
\* transaction, nothing came in unless the job was completed, and what came in is
\* what the contract paid - as long as nobody changed the rates between the payout
\* and the read (run-case.ts recordLedger, entries.ts, stages.ts procurementLedger).
BooksMatchMoney ==
    stage = "answered" =>
        /\ TotalActual(books, "module_fee") = spent
        /\ \A row \in books : row.category = "module_fee" => row.ref = purchase.settlementId
        /\ \A row, other \in books :
            row.ref_type = "gateway_receipt" /\ other.ref_type = "gateway_receipt"
                /\ row.ref = other.ref => row.settlement_tx = other.settlement_tx
        /\ job # "completed" => \A row \in books : row.direction = "out"
        /\ job = "completed" /\ escrow.rates = escrow.settledAt =>
            /\ TotalActual(books, "case_fee") + escrow.paid.platformFee = Budget
            /\ NetActual({row \in books : row.category # "royalty"})
                  = escrow.paid.net + escrow.paid.evaluatorFee - spent
=============================================================================
