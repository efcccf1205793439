------------------------------ MODULE CaseBooks ------------------------------
(***************************************************************************)
(* The ledger of a case: the rows its settlement and its purchase are      *)
(* booked as, and how the table keeps them.  A set of rows is the table;   *)
(* its UNIQUE key and the settlement_tx of a row come from the functions   *)
(* below.  Amounts are atomic units of USDC.                               *)
(***************************************************************************)
EXTENDS Integers, FiniteSets, Sequences, SequencesExt, FiniteSetsExt

CONSTANTS
    NoTx,        \* settlement_tx of a row whose payment has not settled
    ZeroAddress  \* maintainer_wallet of a module without royalties

LedgerCategory == {"case_fee", "module_fee", "kyb_data", "royalty", "reserve_release", "refund"}
LedgerAccount == {"operator", "verifier", "procurement", "escrow"}
BPS_DENOMINATOR == 10000

\* types.ts: the evidence a category is booked under; kyb_data takes any.
REQUIRED_REF_TYPE ==
    [case_fee |-> "jobId", reserve_release |-> "jobId", module_fee |-> "gateway_receipt",
     royalty |-> "gateway_receipt", refund |-> "txHash"]
RefTypeAllowed(category, refType) ==
    category \in DOMAIN REQUIRED_REF_TYPE => REQUIRED_REF_TYPE[category] = refType

MakeEntry(direction, nominal, actual, ref, refType, category, account, case) ==
    [direction |-> direction, amount_nominal |-> nominal, amount_actual |-> actual,
     ref |-> ref, ref_type |-> refType, category |-> category, account |-> account,
     caseId |-> case, settlement_tx |-> NoTx]

-----------------------------------------------------------------------------
\* job-client.ts splitFees: fees are rounded down, the provider has the rest.
SplitFees(budget, rates) ==
    LET platform == (budget * rates.platformFeeBP) \div BPS_DENOMINATOR
        evaluator == (budget * rates.evaluatorFeeBP) \div BPS_DENOMINATOR
    IN [platformFee |-> platform, evaluatorFee |-> evaluator,
        net |-> budget - platform - evaluator]

\* entries.ts: the case's fee as it was agreed and as it arrived, and the
\* verifier's part of it.  The platform's part is nobody's row.
\* BUG: the agreed fee is booked as what arrived.
EntriesForCompleteGross(case, job, budget, rates) ==
    LET split == SplitFees(budget, rates) IN
    <<MakeEntry("in", budget, budget, job, "jobId", "case_fee", "operator", case),
      MakeEntry("in", split.evaluatorFee, split.evaluatorFee, job, "jobId", "case_fee",
                "verifier", case)>>
EntriesForComplete(case, job, budget, rates) ==
    LET split == SplitFees(budget, rates) IN
    <<MakeEntry("in", budget, split.net, job, "jobId", "case_fee", "operator", case),
      MakeEntry("in", split.evaluatorFee, split.evaluatorFee, job, "jobId", "case_fee",
                "verifier", case)>>

EntryForModuleFee(case, quoted, paid, receipt) ==
    MakeEntry("out", quoted, paid, receipt, "gateway_receipt", "module_fee", "procurement", case)

EntryForRoyalty(case, amount, receipt) ==
    MakeEntry("out", amount, amount, receipt, "gateway_receipt", "royalty", "procurement", case)

\* stages.ts: a royalty that no one pays is booked as paid, under the receipt of
\* the module's own payment, and also when rounding down leaves nothing of it.
ProcurementLedger(case, quoted, purchase) ==
    LET response == purchase.response
        amount == (purchase.paid * response.royalty_bps) \div BPS_DENOMINATOR
        fee == <<EntryForModuleFee(case, quoted, purchase.paid, purchase.settlementId)>>
    IN IF response.royalty_bps > 0 /\ response.maintainer_wallet # ZeroAddress
       THEN Append(fee, EntryForRoyalty(case, amount, purchase.settlementId))
       ELSE fee

-----------------------------------------------------------------------------
\* store.ts, schema.ts: UNIQUE(ref, ref_type, category, direction, account).
Key(row) == <<row.ref, row.ref_type, row.category, row.direction, row.account>>

\* INSERT OR IGNORE; a row whose key is taken is counted as skipped.
RecordLedgerIdempotent(books, entries) ==
    LET Taken(n) == \E row \in books \union {entries[m] : m \in 1..n - 1} :
                        Key(row) = Key(entries[n])
    IN books \union {entries[n] : n \in {m \in DOMAIN entries : ~Taken(m)}}

ByReceipt(books, receipt) ==
    {row \in books : row.ref = receipt /\ row.ref_type = "gateway_receipt"}

\* The transaction that settled a receipt reaches all its rows, or none if one
\* of them already names another.
MayAttach(books, receipt, tx) ==
    /\ ByReceipt(books, receipt) # {}
    /\ \A row \in ByReceipt(books, receipt) : row.settlement_tx \in {NoTx, tx}

AttachSettlementTx(books, receipt, tx) ==
    {IF row \in ByReceipt(books, receipt) THEN [row EXCEPT !.settlement_tx = tx] ELSE row :
        row \in books}

PendingSettlements(books) ==
    {row \in books : row.ref_type = "gateway_receipt" /\ row.settlement_tx = NoTx}

Flow(row) == IF row.direction = "in" THEN row.amount_actual ELSE -row.amount_actual
NetActual(books) == MapThenSumSet(Flow, books)

ActualOf(row) == row.amount_actual
TotalActual(books, category) ==
    MapThenSumSet(ActualOf, {row \in books : row.category = category})
=============================================================================
