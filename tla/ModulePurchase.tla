--------------------------- MODULE ModulePurchase ---------------------------
(***************************************************************************)
(* Buying a module's answer over x402: what may come back from the gateway *)
(* for the money, and what of it the buyer accepts.  An answer is          *)
(* [status, transaction, amount, data]; of its data the fields stand that  *)
(* something reads, and `unreadable`, the names of those that are missing  *)
(* or of another type.                                                     *)
(***************************************************************************)
EXTENDS Naturals

CONSTANTS
    ModuleIds,  \* MODULE_IDS
    NoPurchase  \* a case that has bought nothing

MINIMUM_GATEWAY_BALANCE == 1050000

CheckStatus == {"PASS", "HOLD", "ESCALATE", "NOT_APPLICABLE"}
CheckBasis == {"not_applicable", "caller_assertion", "missing_evidence",
               "deterministic_threshold", "insufficient_aggregate_data", "manual_review"}

\* assertPaid: whatever else came back, no receipt is no payment.
AssertPaid(answer) == answer.status = 200 /\ answer.transaction # ""

ReadCheck(check) == check.result \in CheckStatus /\ check.basis \in CheckBasis

\* The constraints name a module of their own, which must only be one there is.
ReadConstraints(m) == m.constrained \in ModuleIds /\ m.evaluated \in Nat

MAX_ROYALTY_BPS == 10000
ReadRoyaltyBps(m) == m.royalty_bps \in 0..MAX_ROYALTY_BPS

\* assertModuleResponse: nothing relates one field to another.
AssertModuleResponse(m) ==
    /\ m.unreadable = {}
    /\ m.checks # {} /\ \A check \in m.checks : ReadCheck(check)
    /\ m.module_id \in ModuleIds /\ m.overall \in CheckStatus
    /\ ReadConstraints(m) /\ ReadRoyaltyBps(m)

\* An answer to another question is refused, but the money is gone.
AssertMatchesRequest(m, module, deal) == m.module_id = module /\ m.deal_id = deal

\* x402-client.ts check, after the payment.
Check(answer, module, deal) ==
    /\ AssertPaid(answer)
    /\ AssertModuleResponse(answer.data)
    /\ AssertMatchesRequest(answer.data, module, deal)

\* procurement.ts: a receipt of blanks is no receipt either.
Trimmed(text) == IF text = "blank" THEN "" ELSE text
ProcurementOutcomeFrom(answer) ==
    [ok |-> Trimmed(answer.transaction) # "", settlementId |-> Trimmed(answer.transaction),
     paidAtomic |-> answer.amount]

Procured(answer, module, deal) ==
    Check(answer, module, deal) /\ ProcurementOutcomeFrom(answer).ok

PurchaseOf(answer) ==
    LET outcome == ProcurementOutcomeFrom(answer) IN
    [response |-> answer.data, settlementId |-> outcome.settlementId,
     paid |-> outcome.paidAtomic]
=============================================================================
