------------------------------ MODULE WalletFlow ------------------------------
(***************************************************************************)
(* The demo page: a browser wallet opens and funds the escrow itself, then *)
(* asks the server to run the case on that job.  One flow is one call of   *)
(* runFlow; its steps share the page's global state (steps, jobId, deal),  *)
(* which renderNew resets only in part while an earlier flow may still be  *)
(* waiting for its receipt.  The case page (CasePage) reads the same jobs  *)
(* back.  The chain is Escrow's; txs are the wallet's own transactions.    *)
(***************************************************************************)
EXTENDS Escrow, FiniteSets, FiniteSetsExt

CONSTANTS
    Flows,      \* calls of runFlow that may be under way at once
    MaxVisits,  \* bound: times #/new is opened; a visit's deal_id is its number
    MaxForms,   \* bound: times the form is read
    MaxFaults   \* bound: refusals, timeouts, lost answers and failed runs

VARIABLES
    visits,     \* visits of #/new so far; the newest is the one on screen
    page,       \* what is on screen: NewPage, or the case of a visit
    steps,      \* state.steps of the newest visit
    jobId,      \* state.jobId, 0 before the first receipt
    deal,       \* state.deal: the request body, named by visit and reading
    forms,      \* readings of the form so far; each has its own expires_at
    go, retry,  \* "Connect & run" enabled, "Retry failed step" shown
    flows,      \* where each flow is
    runs,       \* server: the case_runs row of each deal_id
    proposals,  \* server: the setBudget calls broadcast, and whether tx_log has them
    submits,    \* server: jobs with a submit row in tx_log
    faults,
    overlapped, \* history: #/new was opened again while a flow was under way
    disturbed   \* history: one of the events after which retrying is no promise

flowVars == <<visits, page, steps, jobId, deal, forms, go, retry, flows,
              runs, proposals, submits, faults, overlapped, disturbed>>
serverLog == <<proposals, submits>>
userVars == <<visits, deal, forms>>

NewPage == 0
Landing == MaxVisits + 1    \* the service page, where the session starts
STEPS == <<"connect", "createJob", "setBudget", "approve", "fund", "case">>
Visit == 1..MaxVisits
StepStatus == {"pending", "running", "done", "error"}
NoDeal == [id |-> 0, form |-> 0]
Deal == [id : Visit, form : 1..MaxForms] \cup {NoDeal}

\* `job` and `deal` are what the step's request was built from when it began.
Flow == [at : 0..Len(STEPS), phase : {"ask", "wait"}, visit : 0..MaxVisits,
         job : Nat, deal : Deal, tx : Nat]
Idle == [at |-> 0, phase |-> "ask", visit |-> 0, job |-> 0, deal |-> NoDeal, tx |-> 0]

Run == [phase : {"none", "running", "sent", "submitted", "failed", "completed", "rejected"},
        deal : Deal, job : Nat, adopted : BOOLEAN]
Succeeded == {"completed", "rejected"}
UnderWay == {"running", "sent", "submitted"}

WalletAssumption ==
    /\ IsFiniteSet(Flows) /\ Sas # {}
    /\ MaxVisits \in Nat \ {0} /\ MaxForms \in Nat \ {0} /\ MaxFaults \in Nat
    /\ ExternalJobs = <<>>
ASSUME WalletAssumption

FlowInit ==
    /\ EscrowInit
    /\ visits = 0 /\ page = Landing
    /\ steps = [i \in DOMAIN STEPS |-> "pending"]
    /\ jobId = 0 /\ deal = NoDeal /\ forms = 0
    /\ go = FALSE /\ retry = FALSE
    /\ flows = [f \in Flows |-> Idle]
    /\ runs = [v \in Visit |-> [phase |-> "none", deal |-> NoDeal, job |-> 0, adopted |-> FALSE]]
    /\ proposals = {} /\ submits = {} /\ faults = 0 /\ overlapped = FALSE /\ disturbed = FALSE

Doing(f, step) == flows[f].at # 0 /\ STEPS[flows[f].at] = step
Active == {f \in Flows : flows[f].at # 0}
Unserved == visits > 0 /\ runs[visits].phase \notin Succeeded

\* BUG: the steps of the previous visit stay.
KeepSteps == steps
ResetSteps == [i \in DOMAIN STEPS |-> "pending"]

\* renderNew: fresh steps and buttons; jobId, deal and running flows stay.
RenderNew ==
    /\ visits < MaxVisits
    /\ visits' = visits + 1
    /\ page' = NewPage
    /\ steps' = ResetSteps
    /\ go' = TRUE /\ retry' = FALSE
    /\ overlapped' = (overlapped \/ Active # {})
    /\ disturbed' = (disturbed \/ Unserved)
    /\ UNCHANGED <<chainVars, jobId, deal, forms, flows, runs, serverLog, faults>>

\* BUG: steps that are done already are done again.
ContinueUnskipped(f, k, st, job, d, visit) ==
    LET todo == k..Len(STEPS) IN
    IF todo = {}
    THEN /\ steps' = st
         /\ flows' = [flows EXCEPT ![f] = Idle]
         /\ page' = d.id
    ELSE /\ steps' = [st EXCEPT ![Min(todo)] = "running"]
         /\ flows' = [flows EXCEPT ![f] = [at |-> Min(todo), phase |-> "ask", visit |-> visit,
                                           job |-> job, deal |-> d, tx |-> 0]]
         /\ UNCHANGED page

\* run(id, fn) for the steps from k on: those done are skipped, the next one
\* starts with the jobId and the deal of this moment; after the last the page
\* moves to the case.
Continue(f, k, st, job, d, visit) ==
    LET todo == {i \in k..Len(STEPS) : st[i] # "done"} IN
    IF todo = {}
    THEN /\ steps' = st
         /\ flows' = [flows EXCEPT ![f] = Idle]
         /\ page' = d.id
    ELSE /\ steps' = [st EXCEPT ![Min(todo)] = "running"]
         /\ flows' = [flows EXCEPT ![f] = [at |-> Min(todo), phase |-> "ask", visit |-> visit,
                                           job |-> job, deal |-> d, tx |-> 0]]
         /\ UNCHANGED page

StepDone(f, job) ==
    /\ Continue(f, flows[f].at + 1, [steps EXCEPT ![flows[f].at] = "done"], job, deal, flows[f].visit)
    /\ UNCHANGED <<go, retry>>

\* The step throws: the flow's own page, if it is still there, offers the retry;
\* `go` is looked up again, so it is whichever page is there now.
StepFails(f) ==
    /\ steps' = [steps EXCEPT ![flows[f].at] = "error"]
    /\ flows' = [flows EXCEPT ![f] = Idle]
    /\ go' = (go \/ page = NewPage)
    /\ retry' = (retry \/ (page = NewPage /\ flows[f].visit = visits))
    /\ UNCHANGED page

\* What runFlow does before its first step.
Press(f, d) ==
    /\ page = NewPage
    /\ flows[f] = Idle
    /\ deal' = d
    /\ go' = FALSE /\ retry' = FALSE
    /\ Continue(f, 1, steps, jobId, d, visits)
    /\ UNCHANGED <<chainVars, visits, jobId, runs, serverLog, faults, overlapped>>

\* runFlow(false): the form is read again, with a new expiry.
ReadForm == [id |-> visits, form |-> forms + 1]
PressGo(f) ==
    /\ go
    /\ forms < MaxForms
    /\ forms' = forms + 1
    /\ disturbed' = (disturbed \/ (visits > 0 /\ runs[visits].phase # "none"))
    /\ Press(f, ReadForm)

\* runFlow(true): the deal of the failed attempt is kept.
\* BUG: the form is read again.
DealReread == ReadForm
DealOnRetry == deal
PressRetry(f) ==
    /\ retry
    /\ Press(f, DealOnRetry)
    /\ UNCHANGED <<forms, disturbed>>

-----------------------------------------------------------------------------
(* The wallet's steps: connect, createJob, approve, fund. *)

Connected(f) ==
    /\ Doing(f, "connect")
    /\ StepDone(f, jobId)
    /\ UNCHANGED <<chainVars, userVars, jobId, runs, serverLog, faults, overlapped, disturbed>>

WalletStep(f) == Doing(f, "createJob") \/ Doing(f, "approve") \/ Doing(f, "fund")
CallOf(f) == NewTx(STEPS[flows[f].at], IF Doing(f, "fund") THEN flows[f].job ELSE 0, NoSa)
Estimates(f) == Doing(f, "approve") \/ Accepts(CallOf(f))
Fault == faults < MaxFaults /\ faults' = faults + 1

\* The user signs; a call the wallet expects to revert may be sent all the same.
Sign(f) ==
    /\ WalletStep(f)
    /\ flows[f].phase = "ask"
    /\ IF Estimates(f) THEN UNCHANGED faults ELSE Fault
    /\ txs' = Append(txs, CallOf(f))
    /\ flows' = [flows EXCEPT ![f].phase = "wait", ![f].tx = Len(txs) + 1]
    /\ UNCHANGED <<jobs, allowance, visits, page, steps, jobId, deal, forms, go, retry, runs, serverLog, overlapped, disturbed>>

\* The user, the wallet's estimate or the encode call refuses.
Refuse(f) ==
    /\ WalletStep(f) \/ Doing(f, "connect")
    /\ flows[f].phase = "ask"
    /\ IF WalletStep(f) /\ ~Estimates(f) THEN UNCHANGED faults ELSE Fault
    /\ StepFails(f)
    /\ UNCHANGED <<chainVars, userVars, jobId, runs, serverLog, overlapped, disturbed>>

\* A wallet's transactions are mined in nonce order.  approve sets the allowance.
MineApprove(x) ==
    /\ txs[x].act = "approve"
    /\ txs' = [txs EXCEPT ![x].status = "success"]
    /\ allowance' = 1
    /\ UNCHANGED jobs

MineNext ==
    /\ \E x \in DOMAIN txs :
          /\ txs[x].status = "pending"
          /\ \A y \in 1..(x - 1) : txs[y].status # "pending"
          /\ IF txs[x].act = "approve" THEN MineApprove(x) ELSE Mine(x)
    /\ UNCHANGED flowVars

\* waitReceipt sees the receipt; createJob reads its job from the event.

\* BUG: a transaction is taken for done once it was broadcast.
ReceiptUnawaited(x) == x.status # "reverted"
ReceiptSeen(x) == x.status = "success"
JobIdAfter(f) == IF Doing(f, "createJob") THEN txs[flows[f].tx].made ELSE jobId

Receipt(f) ==
    /\ WalletStep(f)
    /\ flows[f].phase = "wait"
    /\ ReceiptSeen(txs[flows[f].tx])
    /\ jobId' = JobIdAfter(f)
    /\ StepDone(f, JobIdAfter(f))
    /\ UNCHANGED <<chainVars, userVars, runs, serverLog, faults, overlapped, disturbed>>

ReceiptReverted(f) ==
    /\ WalletStep(f)
    /\ flows[f].phase = "wait"
    /\ txs[flows[f].tx].status = "reverted"
    /\ StepFails(f)
    /\ UNCHANGED <<chainVars, userVars, jobId, runs, serverLog, faults, overlapped, disturbed>>

\* Sixty polls without a receipt: the step fails, the transaction lives on.
ReceiptTimeout(f) ==
    /\ WalletStep(f)
    /\ flows[f].phase = "wait"
    /\ txs[flows[f].tx].status = "pending"
    /\ Fault
    /\ disturbed' = (disturbed \/ Doing(f, "fund"))
    /\ StepFails(f)
    /\ UNCHANGED <<chainVars, userVars, jobId, runs, serverLog, overlapped>>

-----------------------------------------------------------------------------
(* The server's steps: setBudget and the case. *)

SetBudgetAllowed(j) == j \in DOMAIN jobs /\ jobs[j].status = "open"
Proposed(j) == [on |-> j, logged |-> TRUE] \in proposals

\* The provider sets the budget of an open job: the call is broadcast and
\* logged, then its receipt is awaited.
SetBudget(f) ==
    /\ Doing(f, "setBudget")
    /\ flows[f].phase = "ask"
    /\ SetBudgetAllowed(flows[f].job)
    /\ ~Proposed(flows[f].job)
    /\ proposals' = proposals \cup {[on |-> flows[f].job, logged |-> TRUE]}
    /\ flows' = [flows EXCEPT ![f].phase = "wait"]
    /\ UNCHANGED <<chainVars, visits, page, steps, jobId, deal, forms, go, retry, runs, submits, faults, overlapped, disturbed>>

\* A tx_log hit answers at once, whether or not the call has been mined.
SetBudgetHit(f) ==
    /\ Doing(f, "setBudget")
    /\ flows[f].phase = "ask"
    /\ SetBudgetAllowed(flows[f].job)
    /\ Proposed(flows[f].job)
    /\ StepDone(f, jobId)
    /\ UNCHANGED <<chainVars, userVars, jobId, runs, serverLog, faults, overlapped, disturbed>>

\* The receipt of the provider's call is there.
BudgetReceipt(f) ==
    /\ Doing(f, "setBudget")
    /\ flows[f].phase = "wait"
    /\ jobs[flows[f].job].budgeted
    /\ StepDone(f, jobId)
    /\ UNCHANGED <<chainVars, userVars, jobId, runs, serverLog, faults, overlapped, disturbed>>

Refused(f) == flows[f].phase = "ask" /\ ~SetBudgetAllowed(flows[f].job)

\* The job is not open any more; or the server cannot read the chain, the receipt
\* takes too long, the server stops between the broadcast and the row, or the
\* answer is lost on its way.
SetBudgetFails(f) ==
    /\ Doing(f, "setBudget")
    /\ IF Refused(f) THEN UNCHANGED faults ELSE Fault
    /\ \/ UNCHANGED proposals
       \/ /\ flows[f].phase = "ask"
          /\ SetBudgetAllowed(flows[f].job)
          /\ ~Proposed(flows[f].job)
          /\ \E logged \in BOOLEAN :
                proposals' = proposals \cup {[on |-> flows[f].job, logged |-> logged]}
    /\ StepFails(f)
    /\ UNCHANGED <<chainVars, userVars, jobId, runs, submits, overlapped, disturbed>>

\* The chain mines a setBudget; the provider's calls have nonces of their own.
MineBudget ==
    /\ \E p \in proposals :
          /\ SetBudgetAllowed(p.on) /\ ~jobs[p.on].budgeted
          /\ jobs' = [jobs EXCEPT ![p.on].budgeted = TRUE]
    /\ UNCHANGED <<txs, allowance, flowVars>>

Posted(f) == Doing(f, "case") /\ flows[f].phase = "ask"
RowOf(f) == runs[flows[f].deal.id]

\* POST /cases reaches runCase: it waits for the run of its case under way,
\* then conflicts, replays, or (re)runs on a job that must be funded.
Conflict(f) ==
    /\ RowOf(f).phase # "none"
    /\ <<RowOf(f).deal, RowOf(f).job>> # <<flows[f].deal, flows[f].job>>

Replayed(f) ==
    /\ Posted(f)
    /\ RowOf(f).phase \in Succeeded
    /\ ~Conflict(f)
    /\ StepDone(f, jobId)
    /\ UNCHANGED <<chainVars, userVars, jobId, runs, serverLog, faults, overlapped, disturbed>>

Conflicts(f) ==
    /\ Posted(f)
    /\ RowOf(f).phase \notin UnderWay
    /\ Conflict(f)
    /\ StepFails(f)
    /\ UNCHANGED <<chainVars, userVars, jobId, runs, serverLog, faults, overlapped, disturbed>>

Adoptable(j) == j \in DOMAIN jobs /\ jobs[j].status = "funded"

Admitted(f, phase) ==
    /\ Posted(f)
    /\ RowOf(f).phase \in {"none", "failed"}
    /\ ~Conflict(f)
    /\ runs' = [runs EXCEPT ![flows[f].deal.id] =
                   [phase |-> phase, deal |-> flows[f].deal, job |-> flows[f].job,
                    adopted |-> @.adopted \/ phase = "running"]]

Adopts(f) ==
    /\ Admitted(f, "running")
    /\ Adoptable(flows[f].job)
    /\ flows' = [flows EXCEPT ![f].phase = "wait"]
    /\ UNCHANGED <<chainVars, visits, page, steps, jobId, deal, forms, go, retry, serverLog, faults, overlapped, disturbed>>

RefusesJob(f) ==
    /\ Admitted(f, "failed")
    /\ ~Adoptable(flows[f].job)
    /\ StepFails(f)
    /\ UNCHANGED <<chainVars, userVars, jobId, serverLog, faults, overlapped, disturbed>>

\* The browser loses the connection: before the request arrives, or during the run.
AnswerLost(f) ==
    /\ Doing(f, "case")
    /\ Fault
    /\ StepFails(f)
    /\ UNCHANGED <<chainVars, userVars, jobId, runs, serverLog, overlapped, disturbed>>

\* The run of case v ends as `phase`; whoever waits for it is answered.
RunEnds(v, phase) ==
    LET waiting == {f \in Flows : Doing(f, "case") /\ flows[f].phase = "wait" /\ flows[f].deal.id = v} IN
    /\ runs' = [runs EXCEPT ![v].phase = phase]
    /\ \/ waiting = {} /\ UNCHANGED <<page, steps, go, retry, flows>>
       \/ \E f \in waiting : IF phase \in Succeeded THEN StepDone(f, jobId) ELSE StepFails(f)

\* submit: a tx_log hit returns at once; otherwise it is broadcast and logged.
RunSubmits(v) ==
    LET j == runs[v].job IN
    /\ runs[v].phase = "running"
    /\ IF j \in submits \/ jobs[j].status = "funded"
       THEN /\ runs' = [runs EXCEPT ![v].phase = IF j \in submits THEN "submitted" ELSE "sent"]
            /\ submits' = submits \cup {j}
            /\ UNCHANGED <<page, steps, go, retry, flows>>
       ELSE RunEnds(v, "failed") /\ UNCHANGED submits
    /\ UNCHANGED <<chainVars, userVars, jobId, proposals, faults, overlapped, disturbed>>

\* The submit is mined: it takes effect, or finds the job expired and reverts.
RunMined(v) ==
    LET j == runs[v].job IN
    /\ runs[v].phase = "sent"
    /\ IF jobs[j].status = "funded"
       THEN /\ jobs' = [jobs EXCEPT ![j].status = "submitted", ![j].deliverable = CHOOSE sa \in Sas : TRUE]
            /\ runs' = [runs EXCEPT ![v].phase = "submitted"]
            /\ UNCHANGED <<page, steps, go, retry, flows>>
       ELSE RunEnds(v, "failed") /\ UNCHANGED jobs
    /\ UNCHANGED <<txs, allowance, userVars, jobId, serverLog, faults, overlapped, disturbed>>

\* verify and settle: the evaluator completes or rejects; a settlement of the
\* job that is already there is a tx_log hit, any other state fails the run.
RunSettles(v) ==
    LET j == runs[v].job IN
    /\ runs[v].phase = "submitted"
    /\ \E outcome \in Succeeded :
          IF jobs[j].status \in {"submitted", outcome}
          THEN jobs' = [jobs EXCEPT ![j].status = outcome] /\ RunEnds(v, outcome)
          ELSE UNCHANGED jobs /\ RunEnds(v, "failed")
    /\ UNCHANGED <<txs, allowance, userVars, jobId, serverLog, faults, overlapped, disturbed>>

\* Anything else in the run throws (procurement, adjudication, a restart).
RunFails(v) ==
    /\ runs[v].phase \in {"running", "submitted"}
    /\ Fault
    /\ disturbed' = (disturbed \/ runs[v].phase = "submitted")
    /\ RunEnds(v, "failed")
    /\ UNCHANGED <<chainVars, userVars, jobId, serverLog, overlapped>>

Expires ==
    /\ \E j \in DOMAIN jobs : ClaimRefund(j)
    /\ disturbed' = TRUE
    /\ UNCHANGED <<visits, page, steps, jobId, deal, forms, go, retry, flows, runs, serverLog, faults, overlapped>>

FlowSteps(f) ==
    \/ Connected(f) \/ Sign(f) \/ Receipt(f) \/ ReceiptReverted(f)
    \/ SetBudget(f) \/ SetBudgetHit(f) \/ BudgetReceipt(f)
    \/ Replayed(f) \/ Conflicts(f) \/ Adopts(f) \/ RefusesJob(f)
RunSteps(v) == RunSubmits(v) \/ RunMined(v) \/ RunSettles(v)
=============================================================================
