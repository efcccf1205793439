----------------------------- MODULE MCRunCase -----------------------------
(***************************************************************************)
(* Instances of RunCase for TLC.                                           *)
(***************************************************************************)
EXTENDS RunCaseProperties, TLC

CONSTANTS r1, r2, p1, p2, c1, c2

OwnProcess    == (r1 :> p1) @@ (r2 :> p2)
SharedProcess == (r1 :> p1) @@ (r2 :> p1)

Req(c, fp, job, readable, esc) ==
    [case |-> c, fp |-> fp, job |-> job, readable |-> readable, esc |-> esc]

\* The same request from every client, and one that differs for the same case.
OneRequest      == {Req(c1, "f1", 0, TRUE, FALSE)}
ConflictingPair == {Req(c1, "f1", 0, TRUE, FALSE), Req(c1, "f2", 0, FALSE, FALSE)}

\* A case with a job of its own, and one that brings job 1 but no escalation
\* configuration.
OwnAndExternal  == {Req(c1, "f1", 0, TRUE, TRUE), Req(c2, "f2", 1, TRUE, FALSE)}
TwoOwn          == {Req(c1, "f1", 0, TRUE, TRUE), Req(c2, "f2", 0, TRUE, TRUE)}

NoJobs == <<>>
WalletJob == [status |-> "funded", budgeted |-> TRUE, ours |-> TRUE, deliverable |-> NoSa]
OneWalletJob == <<WalletJob>>

\* Single points at which a run may fail.
NoPoints == {}
PaidPoint == {<<"paid", "call">>}
FeeRatePoint == {<<"ledger", "call">>}
OpenedPoint == {<<"opened", "call">>}
VerifyPoint == {<<"verify", "call">>}

\* Points at which something was done that is not yet on record: a broadcast
\* before its row in tx_log, a payment before its row in purchases, a settlement
\* before the books, the books before the end of the run.
UnrecordedPoints ==
    (Stage \X {"record"}) \cup ({"paid", "ledger", "succeed"} \X {"call"})

\* Points before the submission at which everything done so far is on record
\* and mined.
EarlyPoints ==
    {"createJob", "jobId", "setBudget", "fund", "opened", "pay", "assess", "submit"}
        \X {"call"}

\* Points from which a resumed run can always finish: everything but a lost
\* fund, submit or settlement hash and everything after the settlement.
ResumablePoints ==
    (Stage \X Phase) \
        (({"fund", "submit", "complete", "reject"} \X {"record"}) \cup
         ({"complete", "reject"} \X {"receipt"}) \cup
         ({"ledger", "reconcile", "succeed"} \X Phase))
=============================================================================
