-------------------------- MODULE RunCaseProperties --------------------------
(***************************************************************************)
(* What should hold of RunCase, and the abstract record it implements.     *)
(***************************************************************************)
EXTENDS RunCase

CreateTx(c) == LoggedTx(<<"createJob", c>>)

----------------------------------------------------------------------------
(* Safety, whatever crashes and however many processes overlap *)

\* However often createJob was broadcast for a case, every run that has a job
\* of its own works on the one that tx_log names, and so does the case's row
\* (run-case.ts openJob over sendWrite's record-or-throw).
OneJobPerCase ==
    \A r \in Runners :
        (Executing(r) /\ ctx[r].job # 0 /\ ctx[r].req.job = 0) =>
            /\ Logged(<<"createJob", CaseOf(r)>>)
            /\ ctx[r].job = txs[CreateTx(CaseOf(r))].made
            /\ cases[CaseOf(r)].job = ctx[r].job

\* A case is only ever worked on for the request that opened it: begin's
\* conflict check holds for every run that got past it, takeovers included.
SameRequestThroughout ==
    \A r \in Runners : Executing(r) \/ pc[r] = "takeOver" =>
        /\ Row(r).status # "none"
        /\ SameRequest(r)

\* Cost rows name the purchase that was kept for their own case, although
\* overlapping runs may have paid for others (PurchaseStore.record keeps the
\* first row and hands it back; recordLedger books what it was handed).
CostsMatchPurchase ==
    \A e \in ledger : e.refType = "gateway_receipt" =>
        /\ purchases[e.case] = e.ref
        /\ e.ref \in DOMAIN payments /\ payments[e.ref] = e.case

\* A case ends the way its job ended on chain: completed, rejected by the
\* verifier, or refunded after expiry (reconcileJobState over applyJobState).
EndAgreesWithChain ==
    \A c \in Cases :
        LET status == jobs[cases[c].job].status
        IN  /\ cases[c].state = "settled" => status = "completed"
            /\ cases[c].state = "rejected" =>
                 \/ cases[c].exit = "verifier_rejected" /\ status = "rejected"
                 \/ cases[c].exit = "timeout_refund" /\ status = "expired"

\* The tables implement the promised record of a case.
Progress(s) == IF s \in {"settled", "rejected"} THEN 6 ELSE Rank(s)

Promise == INSTANCE CaseRecord WITH
    progress <- [c \in Cases |-> Progress(cases[c].state)],
    boundJob <- [c \in Cases |-> cases[c].job],
    kept     <- purchases,
    books    <- {[case |-> e.case, income |-> e.category = "case_fee", ref |-> e.ref] :
                    e \in ledger}

ImplementsCaseRecord == Promise!Spec

----------------------------------------------------------------------------
(* One server process, the deployment that server/src/index.ts starts *)

\* No two runs of one case at the same time: KeyedMutex sees to it within a
\* process; between processes case_runs should ("running: CaseRunInFlightError",
\* run-store.ts:12), and does not when both resume a failed run.
OneRunPerCase ==
    \A r, s \in Runners :
        (Executing(r) /\ Executing(s) /\ CaseOf(r) = CaseOf(s)) => r = s

\* Once a case succeeded, its row and its snapshot are what every later
\* request is answered with (CaseRunStore: "nothing re-executed").
SucceededIsFinal ==
    [][\A c \in Cases : runs[c].status = "succeeded" => runs'[c] = runs[c]]_vars

\* Cases that open a job of their own rather than bring one.
OwnCases == {c \in Cases : \E q \in Requests : q.case = c /\ q.job = 0}

\* However often a case is sent, each of its chain writes is broadcast once
\* (tx_log), as long as no crash or error falls between a broadcast and its row.
WritesAreNotRepeated ==
    \A x \in DOMAIN txs :
        Cardinality({y \in DOMAIN txs : txs[y].act = txs[x].act /\ txs[y].on = txs[x].on})
            <= IF txs[x].act = "createJob" THEN Cardinality(OwnCases) ELSE 1

\* "The same Module of the same case is paid for only once"
\* (purchase-store.ts:2, run-case.ts:14); it is not so when the answer to a
\* payment is lost or unusable.
ModulePaidOnce ==
    \A c \in Cases : Cardinality({i \in DOMAIN payments : payments[i] = c}) <= 1

\* Income is booked only for a job that paid out.
IncomeIsReal ==
    \A e \in ledger : e.category = "case_fee" => jobs[e.ref].status = "completed"

\* What a success answers is what the chain holds: the job's deliverable is
\* the SA in the snapshot, and the verdict is the one it was settled with
\* (submittedDeliverableHash is "what submit really put on chain", types.ts:59).
AnswerMatchesChain ==
    \A c \in Cases : runs[c].status = "succeeded" =>
        LET snap == runs[c].snap
        IN  /\ jobs[snap.job].deliverable = snap.sa
            /\ jobs[snap.job].status = IF snap.passed THEN "completed" ELSE "rejected"
            /\ cases[c].state = IF snap.passed THEN "settled" ELSE "rejected"

\* A request that is sent again until it is answered does get answered, and
\* its case ends: a crash does not lock the caseId (run-store.ts header).
EventuallyAnswered ==
    \A q \in Requests :
        (runs[q.case].fp = q.fp) ~>
            (runs[q.case].status = "succeeded" /\ cases[q.case].state \in {"settled", "rejected"})

----------------------------------------------------------------------------
(* What the comments say and the code does not keep *)

\* "If it really reverts, the engine side reconciles by txHash"
\* (job-client.ts:193-194): no run goes past funding with an unfunded job.
WorksOnFundedJob ==
    \A r \in Runners :
        pc[r] \in {"pay", "paid", "assess", "submit"} => jobs[ctx[r].job].status # "open"
=============================================================================
