----------------------------- MODULE CaseRequest -----------------------------
(***************************************************************************)
(* The shape check of POST /cases.  A raw body is a record of what each    *)
(* field of the JSON looks like; a check returns the paths it complains    *)
(* about, and all of them are collected before anything is refused.        *)
(***************************************************************************)
EXTENDS Naturals, Sequences

MAX_PARTIES == 32
MAX_DEAL_ID_LENGTH == 128
Field == {"absent", "bad", "ok"}

\* deal-input.ts
PartyIssues(party) == {f \in {"role", "country", "state"} :
    \/ f # "state" /\ party[f] # "ok"
    \/ f = "state" /\ party[f] = "bad"}

PartiesIssues(parties) ==
    IF parties = <<>> \/ Len(parties) > MAX_PARTIES THEN {"parties"}
    ELSE UNION {PartyIssues(parties[n]) : n \in DOMAIN parties}

DealIssues(raw) ==
    PartiesIssues(raw.parties) \union
    {f \in {"deal_id", "activity", "amount_usdc", "monthly_volume_usdc", "evidence"} :
        \/ f = "deal_id" /\ raw.deal_id \notin 1..MAX_DEAL_ID_LENGTH
        \/ f = "monthly_volume_usdc" /\ raw[f] = "bad"
        \/ f \in {"activity", "amount_usdc", "evidence"} /\ raw[f] # "ok"}

\* case-request.ts
SettlementIssues(settlement) ==
    {f \in {"party", "payee", "amount_usdc"} : settlement[f] # "ok"}

\* BUG: what is asked beyond the deal is not checked before the charge.
ParseCaseRequestDeal(raw) == [ok |-> DealIssues(raw) = {}, issues |-> DealIssues(raw)]
ParseCaseRequest(raw) ==
    LET issues == DealIssues(raw) \union SettlementIssues(raw.settlement) \union
                  {f \in {"expires_at", "job_id"} :
                      \/ f = "expires_at" /\ raw[f] # "ok"
                      \/ f = "job_id" /\ raw[f] = "bad"}
    IN [ok |-> issues = {}, issues |-> issues]
=============================================================================
