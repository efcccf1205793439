--------------------------- MODULE WalletFlowProofs ---------------------------
(***************************************************************************)
(* Theorems about the demo page, for any number of flows, visits, readings *)
(* of the form, faults and cached views.  What the case page shows is true *)
(* because a job only moves forward (Grows): a claim about a status that   *)
(* was read once stays true.  While #/new was not opened under a running   *)
(* flow there is one flow at a time, its steps are done in order, and the  *)
(* job and the deal it works on are the page's (Solo); from that follow    *)
(* that steps shown as done are true, one case per job, and one escrow per *)
(* visit.                                                                  *)
(***************************************************************************)
EXTENDS CasePage, FiniteSetTheorems, TLAPS

USE DEF serverLog

StepIds == 1..6
LEMMA TheSteps ==
  /\ DOMAIN STEPS = StepIds /\ Len(STEPS) = 6
  /\ STEPS[1] = "connect" /\ STEPS[2] = "createJob" /\ STEPS[3] = "setBudget"
  /\ STEPS[4] = "approve" /\ STEPS[5] = "fund" /\ STEPS[6] = "case"
  BY DEF STEPS, StepIds

\* A job that is replaced by another one.
LEMMA JobSet ==
  ASSUME jobs \in Seq(Job), NEW j \in DOMAIN jobs, NEW n \in Job,
         jobs' = [jobs EXCEPT ![j] = n]
  PROVE  /\ jobs' \in Seq(Job) /\ Len(jobs') = Len(jobs) /\ DOMAIN jobs' = DOMAIN jobs
         /\ jobs'[j] = n /\ \A k \in DOMAIN jobs : k # j => jobs'[k] = jobs[k]
  OBVIOUS

LEMMA StatusSet ==
  ASSUME jobs \in Seq(Job), NEW j \in DOMAIN jobs, NEW s \in JobState,
         jobs' = [jobs EXCEPT ![j].status = s]
  PROVE  \E n \in Job : /\ jobs' = [jobs EXCEPT ![j] = n]
                        /\ n.status = s /\ n.budgeted = jobs[j].budgeted
                        /\ n.deliverable = jobs[j].deliverable
  <1> DEFINE n == [jobs[j] EXCEPT !.status = s]
  <1>1. jobs[j] \in Job
    OBVIOUS
  <1>2. n \in Job /\ n.status = s /\ n.budgeted = jobs[j].budgeted
        /\ n.deliverable = jobs[j].deliverable
    BY <1>1 DEF Job
  <1>3. jobs' = [jobs EXCEPT ![j] = n]
    OBVIOUS
  <1> QED BY <1>2, <1>3

LEMMA BudgetSet ==
  ASSUME jobs \in Seq(Job), NEW j \in DOMAIN jobs, jobs' = [jobs EXCEPT ![j].budgeted = TRUE]
  PROVE  \E n \in Job : /\ jobs' = [jobs EXCEPT ![j] = n]
                        /\ n.status = jobs[j].status /\ n.budgeted = TRUE
                        /\ n.deliverable = jobs[j].deliverable
  <1> DEFINE n == [jobs[j] EXCEPT !.budgeted = TRUE]
  <1>1. jobs[j] \in Job
    OBVIOUS
  <1>2. n \in Job /\ n.status = jobs[j].status /\ n.budgeted = TRUE
        /\ n.deliverable = jobs[j].deliverable
    BY <1>1 DEF Job
  <1>3. jobs' = [jobs EXCEPT ![j] = n]
    OBVIOUS
  <1> QED BY <1>2, <1>3

LEMMA SubmitSet ==
  ASSUME jobs \in Seq(Job), NEW j \in DOMAIN jobs, NEW sa \in Sas,
         jobs' = [jobs EXCEPT ![j].status = "submitted", ![j].deliverable = sa]
  PROVE  \E n \in Job : /\ jobs' = [jobs EXCEPT ![j] = n]
                        /\ n.status = "submitted" /\ n.budgeted = jobs[j].budgeted
                        /\ n.deliverable = sa
  <1> DEFINE n == [[jobs[j] EXCEPT !.status = "submitted"] EXCEPT !.deliverable = sa]
  <1>1. jobs[j] \in Job
    OBVIOUS
  <1>2. n \in Job /\ n.status = "submitted" /\ n.budgeted = jobs[j].budgeted
        /\ n.deliverable = sa
    BY <1>1 DEF Job, JobState
  <1>3. jobs' = [jobs EXCEPT ![j] = n]
    OBVIOUS
  <1> QED BY <1>2, <1>3

LEMMA DoingIs ==
  ASSUME flows \in [Flows -> Flow], NEW f \in Flows
  PROVE  /\ Doing(f, "connect") <=> flows[f].at = 1
         /\ Doing(f, "createJob") <=> flows[f].at = 2
         /\ Doing(f, "setBudget") <=> flows[f].at = 3
         /\ Doing(f, "approve") <=> flows[f].at = 4
         /\ Doing(f, "fund") <=> flows[f].at = 5
         /\ Doing(f, "case") <=> flows[f].at = 6
         /\ flows[f].at \in 0..6
  BY DEF Doing, Flow, STEPS

LEMMA LeastStep ==
  ASSUME NEW S \in SUBSET StepIds, S # {}
  PROVE  Min(S) \in S /\ \A i \in S : Min(S) =< i
  <1>1. \E m \in S : \A i \in S : m =< i
    <2>2. CASE 1 \in S
      BY <2>2 DEF StepIds
    <2>3. CASE 1 \notin S /\ 2 \in S
      BY <2>3 DEF StepIds
    <2>4. CASE 1 \notin S /\ 2 \notin S /\ 3 \in S
      BY <2>4 DEF StepIds
    <2>5. CASE 1 \notin S /\ 2 \notin S /\ 3 \notin S /\ 4 \in S
      BY <2>5 DEF StepIds
    <2>6. CASE 1 \notin S /\ 2 \notin S /\ 3 \notin S /\ 4 \notin S /\ 5 \in S
      BY <2>6 DEF StepIds
    <2>7. CASE 1 \notin S /\ 2 \notin S /\ 3 \notin S /\ 4 \notin S /\ 5 \notin S
      <3>1. \A i \in S : i = 6
        BY <2>7 DEF StepIds
      <3>2. PICK m \in S : TRUE
        OBVIOUS
      <3> QED BY <3>1, <3>2
    <2> QED BY <2>2, <2>3, <2>4, <2>5, <2>6, <2>7
  <1> QED BY <1>1 DEF Min

-----------------------------------------------------------------------------
(* Types *)

WalletTx == [act : {"createJob", "approve", "fund"}, on : Nat, sa : {NoSa},
             status : {"pending", "success", "reverted"}, made : Nat]

ChainTypes ==
    /\ jobs \in Seq(Job) /\ txs \in Seq(WalletTx) /\ allowance \in {0, 1}
    /\ \A x \in DOMAIN txs :
        txs[x].act = "createJob" /\ txs[x].status = "success" => txs[x].made \in DOMAIN jobs

FlowTypes ==
    /\ visits \in 0..MaxVisits /\ page \in 0..Landing /\ (page = NewPage => visits > 0)
    /\ steps \in [StepIds -> StepStatus]
    /\ jobId \in 0..Len(jobs) /\ deal \in Deal /\ forms \in 0..MaxForms
    /\ go \in BOOLEAN /\ retry \in BOOLEAN /\ (retry => deal # NoDeal)
    /\ flows \in [Flows -> Flow]
    /\ faults \in 0..MaxFaults /\ overlapped \in BOOLEAN /\ disturbed \in BOOLEAN
    /\ \A f \in Flows : flows[f].at # 0 =>
        deal # NoDeal /\ flows[f].deal # NoDeal /\ flows[f].visit > 0

\* A flow waits for a transaction it has sent, or for the provider's.
Awaits ==
    /\ \A f \in Flows : flows[f].at \in {2, 4, 5} /\ flows[f].phase = "wait" =>
        /\ flows[f].tx \in DOMAIN txs
        /\ txs[flows[f].tx].act = STEPS[flows[f].at]
        /\ flows[f].at = 5 => txs[flows[f].tx].on = flows[f].job
    /\ \A f \in Flows : flows[f].at = 3 /\ flows[f].phase = "wait" => Proposed(flows[f].job)

RunTypes ==
    /\ runs \in [Visit -> Run] /\ submits \subseteq DOMAIN jobs
    /\ \A v \in Visit :
        /\ runs[v].adopted => runs[v].phase # "none" /\ runs[v].job \in DOMAIN jobs
        /\ runs[v].phase \in UnderWay \cup Succeeded => runs[v].adopted

PageTypes ==
    /\ loads \subseteq Visit /\ reads \subseteq Read /\ shown \in Shown
    /\ cache \in Seq(Entry) /\ Len(cache) <= CacheMax /\ views \in 0..MaxViews
    /\ \A i, k \in DOMAIN cache : cache[i].job = cache[k].job => i = k
    /\ \A r \in reads : r.job \in DOMAIN jobs

LogTypes == proposals \subseteq [on : DOMAIN jobs, logged : BOOLEAN]

Types == ChainTypes /\ FlowTypes /\ Awaits /\ RunTypes /\ PageTypes /\ LogTypes

-----------------------------------------------------------------------------
(* What the steps of a flow do *)

Starts(m, visit, job, d) ==
    [at |-> m, phase |-> "ask", visit |-> visit, job |-> job, deal |-> d, tx |-> 0]

LEMMA ContinueDoes ==
  ASSUME NEW f \in Flows, NEW k \in 1..7, NEW st \in [StepIds -> StepStatus], NEW job, NEW d,
         NEW visit, Continue(f, k, st, job, d, visit)
  PROVE  \/ /\ \A i \in k..6 : st[i] = "done"
            /\ steps' = st /\ flows' = [flows EXCEPT ![f] = Idle] /\ page' = d.id
         \/ \E m \in k..6 :
            /\ st[m] # "done" /\ \A i \in k..m - 1 : st[i] = "done"
            /\ steps' = [st EXCEPT ![m] = "running"]
            /\ flows' = [flows EXCEPT ![f] = Starts(m, visit, job, d)]
            /\ page' = page
  <1> DEFINE todo == {i \in k..Len(STEPS) : st[i] # "done"}
  <1>1. Len(STEPS) = 6
    BY TheSteps
  <1>2. todo \in SUBSET StepIds /\ todo = {i \in k..6 : st[i] # "done"}
    BY <1>1 DEF StepIds
  <1>3. CASE todo = {}
    BY <1>2, <1>3 DEF Continue
  <1>4. CASE todo # {}
    <2>1. Min(todo) \in todo /\ \A i \in todo : Min(todo) =< i
      BY <1>2, <1>4, LeastStep
    <2>2. /\ steps' = [st EXCEPT ![Min(todo)] = "running"]
          /\ flows' = [flows EXCEPT ![f] = Starts(Min(todo), visit, job, d)]
          /\ page' = page
      BY <1>4 DEF Continue, Starts
    <2> HIDE DEF todo
    <2>3. PICK m : m = Min(todo)
      OBVIOUS
    <2>4. m \in k..6 /\ st[m] # "done"
      BY <1>2, <2>1, <2>3
    <2>5. \A i \in k..m - 1 : st[i] = "done"
      BY <1>2, <2>1, <2>3, <2>4
    <2> QED BY <2>2, <2>3, <2>4, <2>5
  <1> QED BY <1>3, <1>4

\* The end of a step: the flow ends, or starts the next step that is not done.
LEMMA StepDoneDoes ==
  ASSUME Types, NEW f \in Flows, flows[f].at # 0, NEW j, StepDone(f, j)
  PROVE  /\ UNCHANGED <<go, retry>>
         /\ \/ /\ \A i \in flows[f].at + 1..6 : steps[i] = "done"
               /\ steps' = [steps EXCEPT ![flows[f].at] = "done"]
               /\ flows' = [flows EXCEPT ![f] = Idle] /\ page' = deal.id
            \/ \E m \in flows[f].at + 1..6 :
                /\ steps[m] # "done" /\ \A i \in flows[f].at + 1..m - 1 : steps[i] = "done"
                /\ steps' = [steps EXCEPT ![flows[f].at] = "done", ![m] = "running"]
                /\ flows' = [flows EXCEPT ![f] = Starts(m, flows[f].visit, j, deal)]
                /\ page' = page
  <1> DEFINE st == [steps EXCEPT ![flows[f].at] = "done"]
             k == flows[f].at + 1
  <1>1. flows[f].at \in 1..6
    BY TheSteps DEF Types, FlowTypes, Flow
  <1>2. k \in 1..7 /\ st \in [StepIds -> StepStatus]
    BY <1>1 DEF Types, FlowTypes, StepStatus, StepIds
  <1>3. Continue(f, k, st, j, deal, flows[f].visit) /\ UNCHANGED <<go, retry>>
    BY DEF StepDone
  <1>4. \A i \in k..6 : st[i] = steps[i]
    BY <1>1 DEF Types, FlowTypes, StepIds
  <1>5. \A m \in k..6 : [st EXCEPT ![m] = "running"]
                      = [steps EXCEPT ![flows[f].at] = "done", ![m] = "running"]
    OBVIOUS
  <1> HIDE DEF st, k
  <1>6. \/ /\ \A i \in k..6 : st[i] = "done"
           /\ steps' = st /\ flows' = [flows EXCEPT ![f] = Idle] /\ page' = deal.id
        \/ \E m \in k..6 :
            /\ st[m] # "done" /\ \A i \in k..m - 1 : st[i] = "done"
            /\ steps' = [st EXCEPT ![m] = "running"]
            /\ flows' = [flows EXCEPT ![f] = Starts(m, flows[f].visit, j, deal)]
            /\ page' = page
    BY <1>2, <1>3, ContinueDoes
  <1> QED BY <1>2, <1>3, <1>4, <1>5, <1>6 DEF st, k

-----------------------------------------------------------------------------
(* What a step does to the flows, to the runs and to the chain *)

\* Nothing happens to the flows; the page may move to a case.
Quiet ==
    /\ UNCHANGED <<visits, steps, jobId, deal, forms, go, retry, flows, overlapped>>
    /\ page' = page \/ page' \in Visit

Presses(f) ==
    /\ go \/ retry
    /\ page = NewPage /\ flows[f] = Idle
    /\ forms' \in 0..MaxForms
    /\ \/ deal' = [id |-> visits, form |-> forms'] /\ forms' > 0
       \/ retry /\ deal' = deal
    /\ go' = FALSE /\ retry' = FALSE
    /\ Continue(f, 1, steps, jobId, deal', visits)
    /\ UNCHANGED <<chainVars, visits, jobId, runs, submits, overlapped>>

\* What has happened when a step of flow f is done.
Earned(f) ==
    /\ flows[f].at = 2 => /\ flows[f].phase = "wait" /\ txs[flows[f].tx].status = "success"
                          /\ jobId' = txs[flows[f].tx].made
    /\ flows[f].at # 2 => jobId' = jobId
    /\ flows[f].at = 3 => Proposed(flows[f].job)
    /\ flows[f].at = 5 => flows[f].phase = "wait" /\ txs[flows[f].tx].status = "success"
    /\ flows[f].at = 6 =>
        /\ runs'[flows[f].deal.id].phase \in Succeeded
        /\ runs'[flows[f].deal.id].job = runs[flows[f].deal.id].job
        /\ flows[f].phase = "wait" \/ runs[flows[f].deal.id].job = flows[f].job

Ends(f) ==
    /\ flows[f].at # 0 /\ Earned(f) /\ StepDone(f, jobId')
    /\ UNCHANGED <<visits, deal, forms, overlapped>>

Fails(f) ==
    /\ flows[f].at # 0 /\ StepFails(f)
    /\ UNCHANGED <<visits, deal, forms, jobId, overlapped>>

\* What a step does to the flows.
FlowChange ==
    \/ Quiet \/ RenderNew
    \/ \E f \in Flows : \/ Presses(f) \/ Ends(f) \/ Fails(f)
                        \/ Sign(f) \/ SetBudget(f) \/ Adopts(f)

Waiting(v) == {f \in Flows : Doing(f, "case") /\ flows[f].phase = "wait" /\ flows[f].deal.id = v}

\* The run of case v goes on, or ends and whoever waits for it is answered.
RunGoes(v) ==
    \E p \in UnderWay \cup Succeeded \cup {"failed"} :
        /\ runs[v].phase \in UnderWay
        /\ runs' = [runs EXCEPT ![v].phase = p]
        /\ p \in Succeeded => jobs'[runs[v].job].status = p
        /\ submits' = submits \/ submits' = submits \cup {runs[v].job}
        /\ \/ p \in UnderWay /\ Quiet
           \/ Waiting(v) = {} /\ Quiet
           \/ \E f \in Waiting(v) : Ends(f) \/ Fails(f)

RunChange ==
    \/ UNCHANGED <<runs, submits>>
    \/ \E f \in Flows : Adopts(f) \/ RefusesJob(f)
    \/ \E v \in Visit : RunGoes(v)

LEMMA RunEndsDoes ==
  ASSUME Types, NEW v \in Visit, NEW phase \in Succeeded \cup {"failed"},
         runs[v].phase \in UnderWay, RunEnds(v, phase),
         phase \in Succeeded => jobs'[runs[v].job].status = phase,
         submits' = submits, UNCHANGED <<userVars, jobId, overlapped>>
  PROVE  FlowChange /\ RunChange
  <1>1. /\ runs' = [runs EXCEPT ![v].phase = phase]
        /\ \/ Waiting(v) = {} /\ UNCHANGED <<page, steps, go, retry, flows>>
           \/ \E f \in Waiting(v) : IF phase \in Succeeded THEN StepDone(f, jobId) ELSE StepFails(f)
    BY DEF RunEnds, Waiting
  <1>2. phase \in Succeeded =>
            runs'[v].phase \in Succeeded /\ runs'[v].job = runs[v].job
    BY <1>1 DEF Types, RunTypes, Run
  <1>3. CASE Waiting(v) = {} /\ UNCHANGED <<page, steps, go, retry, flows>>
    <2>1. Quiet
      BY <1>3 DEF Quiet, userVars
    <2>2. RunGoes(v)
      BY <1>1, <1>3, <2>1 DEF RunGoes
    <2> QED BY <2>1, <2>2 DEF FlowChange, RunChange
  <1>4. ASSUME NEW f \in Waiting(v),
               IF phase \in Succeeded THEN StepDone(f, jobId) ELSE StepFails(f)
        PROVE  FlowChange /\ RunChange
    <2>1. f \in Flows /\ flows[f].at = 6 /\ flows[f].phase = "wait" /\ flows[f].deal.id = v
      BY <1>4, DoingIs DEF Waiting, Types, FlowTypes
    <2>2. phase \in Succeeded => Ends(f)
      BY <1>2, <1>4, <2>1 DEF Ends, Earned, userVars
    <2>3. phase \notin Succeeded => Fails(f)
      BY <1>4, <2>1 DEF Fails, userVars
    <2>4. RunGoes(v)
      BY <1>1, <1>4, <2>2, <2>3 DEF RunGoes
    <2> QED BY <2>1, <2>2, <2>3, <2>4 DEF FlowChange, RunChange
  <1> QED BY <1>1, <1>3, <1>4

LEMMA FlowStepChanges ==
  ASSUME Types, NEW f \in Flows,
         \/ PressGo(f) \/ PressRetry(f) \/ Connected(f) \/ Sign(f) \/ Refuse(f)
         \/ Receipt(f) \/ ReceiptReverted(f) \/ ReceiptTimeout(f)
         \/ SetBudget(f) \/ SetBudgetHit(f) \/ BudgetReceipt(f)
         \/ SetBudgetFails(f)
         \/ Replayed(f) \/ Conflicts(f) \/ AnswerLost(f) \/ Adopts(f) \/ RefusesJob(f)
  PROVE  FlowChange /\ RunChange
  <1> USE DoingIs DEF Types, FlowTypes
  <1>1. CASE PressGo(f)
    <2>1. forms' \in 0..MaxForms /\ forms' > 0 /\ deal' = [id |-> visits, form |-> forms']
      BY <1>1, WalletAssumption DEF PressGo, Press, ReadForm, WalletAssumption
    <2>2. Presses(f)
      BY <1>1, <2>1 DEF PressGo, Press, Presses
    <2> QED BY <1>1, <2>2 DEF FlowChange, RunChange, PressGo, Press
  <1>2. CASE PressRetry(f)
    <2>1. Presses(f)
      BY <1>2 DEF PressRetry, Press, Presses, DealOnRetry
    <2> QED BY <1>2, <2>1 DEF FlowChange, RunChange, PressRetry, Press
  <1>3. CASE Connected(f)
    <2>1. Ends(f)
      BY <1>3 DEF Connected, Ends, Earned, userVars
    <2> QED BY <1>3, <2>1 DEF FlowChange, RunChange, Connected
  <1>4. CASE Sign(f)
    BY <1>4 DEF FlowChange, RunChange, Sign
  <1>5. CASE Receipt(f)
    <2>1. Ends(f)
      BY <1>5 DEF Receipt, Ends, Earned, WalletStep, ReceiptSeen, JobIdAfter, userVars
    <2> QED BY <1>5, <2>1 DEF FlowChange, RunChange, Receipt
  <1>6. CASE Refuse(f) \/ ReceiptReverted(f) \/ ReceiptTimeout(f) \/ AnswerLost(f)
             \/ SetBudgetFails(f) \/ Conflicts(f)
    <2>1. Fails(f) /\ UNCHANGED <<runs, submits>>
      BY <1>6 DEF Refuse, ReceiptReverted, ReceiptTimeout, AnswerLost,
                  SetBudgetFails, Conflicts, Posted, WalletStep, Fails, userVars
    <2> QED BY <2>1 DEF FlowChange, RunChange
  <1>7. CASE SetBudgetHit(f) \/ BudgetReceipt(f)
    <2>1. Proposed(flows[f].job) /\ flows[f].at = 3
      BY <1>7 DEF SetBudgetHit, BudgetReceipt, Awaits
    <2>2. Ends(f)
      BY <1>7, <2>1 DEF SetBudgetHit, BudgetReceipt, Ends, Earned, userVars
    <2> QED BY <1>7, <2>2 DEF FlowChange, RunChange, SetBudgetHit, BudgetReceipt
  <1>11. CASE SetBudget(f)
    BY <1>11 DEF FlowChange, RunChange, SetBudget
  <1>8. CASE Replayed(f)
    <2>1. runs[flows[f].deal.id].job = flows[f].job
      BY <1>8 DEF Replayed, Conflict, RowOf, Succeeded
    <2>2. Ends(f)
      BY <1>8, <2>1 DEF Replayed, Posted, RowOf, Ends, Earned, userVars
    <2> QED BY <1>8, <2>2 DEF FlowChange, RunChange, Replayed
  <1>9. CASE Adopts(f)
    BY <1>9 DEF FlowChange, RunChange
  <1>10. CASE RefusesJob(f)
    <2>1. Fails(f)
      BY <1>10 DEF RefusesJob, Admitted, Posted, Fails, userVars
    <2> QED BY <1>10, <2>1 DEF FlowChange, RunChange
  <1> QED BY <1>1, <1>2, <1>3, <1>4, <1>5, <1>6, <1>7, <1>8, <1>9, <1>10, <1>11

LEMMA RunStepChanges ==
  ASSUME Types, NEW v \in Visit, RunSubmits(v) \/ RunMined(v) \/ RunSettles(v) \/ RunFails(v)
  PROVE  FlowChange /\ RunChange
  <1> USE DEF Types, UnderWay, Succeeded
  <1>1. CASE RunSubmits(v)
    <2>1. CASE runs[v].job \in submits \/ jobs[runs[v].job].status = "funded"
      <3>1. Quiet
        BY <1>1, <2>1 DEF RunSubmits, Quiet, userVars
      <3>2. PICK p \in {"submitted", "sent"} : runs' = [runs EXCEPT ![v].phase = p]
        BY <1>1, <2>1 DEF RunSubmits
      <3>3. RunGoes(v)
        BY <1>1, <2>1, <3>1, <3>2 DEF RunGoes, RunSubmits
      <3> QED BY <3>1, <3>3 DEF FlowChange, RunChange
    <2>2. CASE ~(runs[v].job \in submits \/ jobs[runs[v].job].status = "funded")
      BY <1>1, <2>2, RunEndsDoes DEF RunSubmits
    <2> QED BY <2>1, <2>2
  <1>2. CASE RunMined(v)
    <2>1. CASE jobs[runs[v].job].status = "funded"
      <3>1. Quiet
        BY <1>2, <2>1 DEF RunMined, Quiet, userVars
      <3>2. RunGoes(v)
        BY <1>2, <2>1, <3>1 DEF RunGoes, RunMined
      <3> QED BY <3>1, <3>2 DEF FlowChange, RunChange
    <2>2. CASE ~(jobs[runs[v].job].status = "funded")
      BY <1>2, <2>2, RunEndsDoes DEF RunMined
    <2> QED BY <2>1, <2>2
  <1>3. CASE RunSettles(v)
    <2>1. runs[v].job \in DOMAIN jobs
      BY <1>3 DEF RunSettles, RunTypes
    <2>2. PICK outcome \in Succeeded :
             IF jobs[runs[v].job].status \in {"submitted", outcome}
             THEN jobs' = [jobs EXCEPT ![runs[v].job].status = outcome] /\ RunEnds(v, outcome)
             ELSE UNCHANGED jobs /\ RunEnds(v, "failed")
      BY <1>3 DEF RunSettles
    <2>3. CASE jobs[runs[v].job].status \in {"submitted", outcome}
      <3>1. jobs'[runs[v].job].status = outcome
        BY <2>1, <2>2, <2>3, StatusSet, JobSet DEF ChainTypes, JobState
      <3> QED BY <1>3, <2>2, <2>3, <3>1, RunEndsDoes DEF RunSettles
    <2>4. CASE ~(jobs[runs[v].job].status \in {"submitted", outcome})
      BY <1>3, <2>2, <2>4, RunEndsDoes DEF RunSettles
    <2> QED BY <2>3, <2>4
  <1>4. CASE RunFails(v)
    BY <1>4, RunEndsDoes DEF RunFails
  <1> QED BY <1>1, <1>2, <1>3, <1>4

LEMMA StepChanges ==
  ASSUME Types, [Next]_vars
  PROVE  FlowChange /\ RunChange
  <1>1. CASE UNCHANGED vars
    BY <1>1 DEF vars, flowVars, FlowChange, RunChange, Quiet
  <1>2. CASE RenderNew
    BY <1>2 DEF FlowChange, RunChange, RenderNew
  <1>3. CASE MineNext \/ MineBudget
    BY <1>3 DEF MineNext, MineBudget, flowVars, FlowChange, RunChange, Quiet
  <1>4. CASE Expires
    BY <1>4 DEF Expires, FlowChange, RunChange, Quiet
  <1>5. CASE \E f \in Flows :
             \/ PressGo(f) \/ PressRetry(f) \/ Connected(f) \/ Sign(f) \/ Refuse(f)
             \/ Receipt(f) \/ ReceiptReverted(f) \/ ReceiptTimeout(f)
             \/ SetBudget(f) \/ SetBudgetHit(f) \/ BudgetReceipt(f)
             \/ SetBudgetFails(f)
             \/ Replayed(f) \/ Conflicts(f) \/ AnswerLost(f) \/ Adopts(f) \/ RefusesJob(f)
    BY <1>5, FlowStepChanges
  <1>6. CASE \E v \in Visit : RunSubmits(v) \/ RunMined(v) \/ RunSettles(v) \/ RunFails(v)
    BY <1>6, RunStepChanges
  <1>7. CASE \E v \in Visit : OpenCase(v) \/ LoadCase(v)
    BY <1>7 DEF OpenCase, LoadCase, FlowChange, RunChange, Quiet
  <1>8. CASE \E r \in reads : ServeCached(r) \/ ReadJob(r) \/ ReadTxLog(r) \/ ReadFails(r)
    BY <1>8 DEF ServeCached, ReadJob, ReadTxLog, ReadFails, flowVars, FlowChange, RunChange, Quiet
  <1>9. CASE CacheAges
    BY <1>9 DEF CacheAges, flowVars, FlowChange, RunChange, Quiet
  <1> QED BY <1>1, <1>2, <1>3, <1>4, <1>5, <1>6, <1>7, <1>8, <1>9 DEF Next, FlowMoves

-----------------------------------------------------------------------------
(* The chain: a job only moves forward *)

After(s) ==
    CASE s = "open"      -> JobState
      [] s = "funded"    -> JobState \ {"open"}
      [] s = "submitted" -> {"submitted"} \cup JobTerminal
      [] OTHER           -> {s}

Evolves(a, b) ==
    /\ b.status \in After(a.status)
    /\ a.budgeted => b.budgeted
    /\ a.deliverable # NoSa => b.deliverable # NoSa

\* What is submitted is on record, and what is funded has its budget.
Delivered(job) ==
    /\ job.status \in {"submitted", "completed", "rejected"} => job.deliverable # NoSa
    /\ job.status # "open" => job.budgeted

Funds(x, j) == txs[x].act = "fund" /\ txs[x].status = "success" /\ txs[x].on = j

\* A job left "open" by a transaction that funded it, and only by one.
Escrows ==
    /\ \A x \in DOMAIN txs, j \in Nat : Funds(x, j) => j \in DOMAIN jobs /\ jobs[j].status # "open"
    /\ \A j \in DOMAIN jobs : jobs[j].status # "open" => \E x \in DOMAIN txs : Funds(x, j)
    /\ \A j \in DOMAIN jobs : Delivered(jobs[j])

Mined(x) ==
    /\ txs[x].status = "pending"
    /\ IF txs[x].act = "approve" THEN MineApprove(x) ELSE Mine(x)
    /\ UNCHANGED flowVars

JobGoes ==
    /\ UNCHANGED <<txs, allowance>>
    /\ \E j \in DOMAIN jobs, n \in Job :
        /\ jobs' = [jobs EXCEPT ![j] = n]
        /\ Evolves(jobs[j], n) /\ Delivered(n)
        /\ n.status = "open" <=> jobs[j].status = "open"

ChainChange ==
    \/ UNCHANGED chainVars \/ JobGoes
    \/ \E f \in Flows : Sign(f)
    \/ \E x \in DOMAIN txs : Mined(x)

LEMMA ChainStep ==
  ASSUME Types, Escrows, [Next]_vars
  PROVE  ChainChange
  <1>1. CASE UNCHANGED chainVars
    BY <1>1 DEF ChainChange
  <1>2. CASE MineNext
    BY <1>2 DEF MineNext, ChainChange, Mined
  <1>3. CASE \E f \in Flows : Sign(f)
    BY <1>3 DEF ChainChange
  <1>4. CASE Expires
    <2>1. PICK j \in DOMAIN jobs : ClaimRefund(j)
      BY <1>4 DEF Expires
    <2>2. PICK n \in Job : /\ jobs' = [jobs EXCEPT ![j] = n]
                           /\ n.status = "expired" /\ n.budgeted = jobs[j].budgeted
                           /\ n.deliverable = jobs[j].deliverable
      BY <2>1, StatusSet DEF ClaimRefund, Types, ChainTypes, JobState
    <2>3. Evolves(jobs[j], n) /\ Delivered(n) /\ (n.status = "open" <=> jobs[j].status = "open")
      BY <2>1, <2>2 DEF Escrows, ClaimRefund, Evolves, Delivered, After, JobTerminal, JobState
    <2> QED BY <2>1, <2>2, <2>3 DEF ClaimRefund, JobGoes, ChainChange
  <1>5. CASE MineBudget
    <2>1. PICK p \in proposals : /\ SetBudgetAllowed(p.on)
                                /\ jobs' = [jobs EXCEPT ![p.on].budgeted = TRUE]
      BY <1>5 DEF MineBudget
    <2>2. PICK j : j = p.on
      OBVIOUS
    <2>3. j \in DOMAIN jobs /\ jobs[j].status = "open" /\ jobs' = [jobs EXCEPT ![j].budgeted = TRUE]
          /\ UNCHANGED <<txs, allowance>>
      BY <1>5, <2>1, <2>2 DEF MineBudget, SetBudgetAllowed
    <2>4. PICK n \in Job : /\ jobs' = [jobs EXCEPT ![j] = n]
                           /\ n.status = jobs[j].status /\ n.budgeted = TRUE
                           /\ n.deliverable = jobs[j].deliverable
      BY <2>3, BudgetSet DEF Types, ChainTypes
    <2>5. Evolves(jobs[j], n) /\ Delivered(n)
      BY <2>3, <2>4 DEF Evolves, Delivered, After, JobState
    <2> QED BY <2>3, <2>4, <2>5 DEF JobGoes, ChainChange
  <1>6. CASE \E v \in Visit : RunMined(v)
    <2>1. PICK v \in Visit : RunMined(v)
      BY <1>6
    <2>2. PICK j : j = runs[v].job
      OBVIOUS
    <2>3. j \in DOMAIN jobs /\ UNCHANGED <<txs, allowance>>
      BY <2>1, <2>2 DEF RunMined, Types, RunTypes, UnderWay
    <2>4. CASE jobs[j].status = "funded"
      <3>1. PICK sa \in Sas : jobs' = [jobs EXCEPT ![j].status = "submitted", ![j].deliverable = sa]
        <4>1. (CHOOSE sa \in Sas : TRUE) \in Sas
          BY WalletAssumption DEF WalletAssumption
        <4> QED BY <2>1, <2>2, <2>4, <4>1 DEF RunMined
      <3>2. PICK n \in Job : /\ jobs' = [jobs EXCEPT ![j] = n]
                             /\ n.status = "submitted" /\ n.budgeted = jobs[j].budgeted
                             /\ n.deliverable = sa
        BY <2>3, <3>1, SubmitSet DEF Types, ChainTypes
      <3>3. Evolves(jobs[j], n) /\ Delivered(n) /\ (n.status = "open" <=> jobs[j].status = "open")
        BY <2>3, <2>4, <3>2, EscrowAssumption DEF Escrows, EscrowAssumption, Evolves, Delivered, After, JobState
      <3> QED BY <2>3, <3>2, <3>3 DEF JobGoes, ChainChange
    <2>5. CASE jobs[j].status # "funded"
      BY <2>1, <2>2, <2>3, <2>5 DEF RunMined, ChainChange, chainVars
    <2> QED BY <2>4, <2>5
  <1>7. CASE \E v \in Visit : RunSettles(v)
    <2>1. PICK v \in Visit : RunSettles(v)
      BY <1>7
    <2>2. PICK j : j = runs[v].job
      OBVIOUS
    <2>3. j \in DOMAIN jobs /\ UNCHANGED <<txs, allowance>>
      BY <2>1, <2>2 DEF RunSettles, Types, RunTypes, UnderWay
    <2>4. PICK outcome \in Succeeded :
            \/ jobs[j].status \in {"submitted", outcome} /\ jobs' = [jobs EXCEPT ![j].status = outcome]
            \/ UNCHANGED jobs
      BY <2>1, <2>2 DEF RunSettles
    <2>5. CASE /\ jobs[j].status \in {"submitted", outcome}
               /\ jobs' = [jobs EXCEPT ![j].status = outcome]
      <3>1. PICK n \in Job : /\ jobs' = [jobs EXCEPT ![j] = n]
                             /\ n.status = outcome /\ n.budgeted = jobs[j].budgeted
                             /\ n.deliverable = jobs[j].deliverable
        <4>1. outcome \in JobState
          BY DEF JobState, Succeeded
        <4> QED BY <2>3, <2>5, <4>1, StatusSet DEF Types, ChainTypes
      <3>2. Delivered(jobs[j])
        BY <2>3 DEF Escrows
      <3>3. Evolves(jobs[j], n)
        BY <2>5, <3>1 DEF Evolves, After, JobTerminal, Succeeded
      <3>4. Delivered(n) /\ (n.status = "open" <=> jobs[j].status = "open")
        BY <2>5, <3>1, <3>2 DEF Delivered, Succeeded
      <3> QED BY <2>3, <3>1, <3>3, <3>4 DEF JobGoes, ChainChange
    <2> QED BY <2>3, <2>4, <2>5 DEF ChainChange, chainVars
  <1>8. CASE UNCHANGED vars
    BY <1>8, <1>1 DEF vars
  <1>9. CASE RenderNew \/ \E v \in Visit : OpenCase(v) \/ LoadCase(v)
    BY <1>9, <1>1 DEF RenderNew, OpenCase, LoadCase
  <1>10. CASE \/ \E r \in reads : ServeCached(r) \/ ReadJob(r) \/ ReadTxLog(r) \/ ReadFails(r)
              \/ CacheAges
    BY <1>10, <1>1 DEF ServeCached, ReadJob, ReadTxLog, ReadFails, CacheAges
  <1>11. CASE \E v \in Visit : RunSubmits(v) \/ RunFails(v)
    BY <1>11, <1>1 DEF RunSubmits, RunFails
  <1>12. CASE \E f \in Flows :
              \/ PressGo(f) \/ PressRetry(f) \/ Connected(f) \/ Refuse(f)
              \/ Receipt(f) \/ ReceiptReverted(f) \/ ReceiptTimeout(f)
              \/ SetBudget(f) \/ SetBudgetHit(f) \/ BudgetReceipt(f)
              \/ SetBudgetFails(f)
              \/ Replayed(f) \/ Conflicts(f) \/ AnswerLost(f) \/ Adopts(f) \/ RefusesJob(f)
    BY <1>12, <1>1 DEF PressGo, PressRetry, Press, Connected, Refuse, Receipt, ReceiptReverted,
         ReceiptTimeout, SetBudget, SetBudgetHit, BudgetReceipt, SetBudgetFails,
         Replayed, Conflicts, AnswerLost, Adopts, RefusesJob
  <1> QED BY <1>2, <1>3, <1>4, <1>5, <1>6, <1>7, <1>8, <1>9, <1>10, <1>11, <1>12 DEF Next, FlowMoves

Grows ==
    /\ DOMAIN jobs \subseteq DOMAIN jobs' /\ Len(jobs) =< Len(jobs')
    /\ \A j \in DOMAIN jobs : Evolves(jobs[j], jobs'[j])

\* A transaction keeps what it does, and once mined, how it ended.
TxsKept ==
    \A x \in DOMAIN txs :
        /\ x \in DOMAIN txs' /\ txs'[x].act = txs[x].act /\ txs'[x].on = txs[x].on
        /\ txs[x].status # "pending" => txs'[x] = txs[x]

LEMMA Forward == \A s \in JobState : s \in After(s)
  BY DEF After, JobState

LEMMA Same ==
  ASSUME NEW a \in Job
  PROVE  Evolves(a, a)
  <1>1. a.status \in JobState
    BY DEF Job
  <1> QED BY <1>1, Forward DEF Evolves

LEMMA StaysPut ==
  ASSUME jobs \in Seq(Job), UNCHANGED jobs
  PROVE  Grows
  <1>1. \A j \in DOMAIN jobs : jobs[j] \in Job
    OBVIOUS
  <1> QED BY <1>1, Same DEF Grows

LEMMA OneGoes ==
  ASSUME jobs \in Seq(Job), NEW j \in DOMAIN jobs, NEW n \in Job, Evolves(jobs[j], n),
         jobs' = [jobs EXCEPT ![j] = n]
  PROVE  Grows /\ jobs' \in Seq(Job) /\ DOMAIN jobs' = DOMAIN jobs /\ jobs'[j] = n
         /\ \A k \in DOMAIN jobs : k # j => jobs'[k] = jobs[k]
  <1>1. /\ jobs' \in Seq(Job) /\ Len(jobs') = Len(jobs) /\ DOMAIN jobs' = DOMAIN jobs
        /\ jobs'[j] = n /\ \A k \in DOMAIN jobs : k # j => jobs'[k] = jobs[k]
    BY JobSet
  <1>2. \A k \in DOMAIN jobs : Evolves(jobs[k], jobs[k])
    BY Same
  <1>3. Len(jobs) =< Len(jobs')
    BY <1>1
  <1> QED BY <1>1, <1>2, <1>3 DEF Grows

LEMMA TxSet ==
  ASSUME txs \in Seq(WalletTx), NEW x \in DOMAIN txs, NEW t \in WalletTx,
         txs[x].status = "pending", t.act = txs[x].act, t.on = txs[x].on,
         txs' = [txs EXCEPT ![x] = t]
  PROVE  /\ txs' \in Seq(WalletTx) /\ DOMAIN txs' = DOMAIN txs /\ txs'[x] = t /\ TxsKept
         /\ \A y \in DOMAIN txs : y # x => txs'[y] = txs[y]
  BY DEF TxsKept

LEMMA EscrowsJobGoes ==
  ASSUME Types, Escrows, JobGoes
  PROVE  ChainTypes' /\ Escrows' /\ Grows /\ TxsKept
  <1> USE DEF Types, ChainTypes
  <1>1. PICK j \in DOMAIN jobs, n \in Job :
           /\ jobs' = [jobs EXCEPT ![j] = n]
           /\ Evolves(jobs[j], n) /\ Delivered(n)
           /\ n.status = "open" <=> jobs[j].status = "open"
    BY DEF JobGoes
  <1>2. /\ Grows /\ jobs' \in Seq(Job) /\ DOMAIN jobs' = DOMAIN jobs /\ jobs'[j] = n
        /\ \A k \in DOMAIN jobs : k # j => jobs'[k] = jobs[k]
    BY <1>1, OneGoes
  <1>3. UNCHANGED <<txs, allowance>>
    BY DEF JobGoes
  <1>4. \A k \in DOMAIN jobs : Delivered(jobs'[k]) /\ (jobs'[k].status = "open" <=> jobs[k].status = "open")
    BY <1>1, <1>2 DEF Escrows
  <1>5. Escrows'
    BY <1>2, <1>3, <1>4 DEF Escrows, Funds
  <1> QED BY <1>2, <1>3, <1>5 DEF TxsKept

LEMMA CallTyped ==
  ASSUME Types, NEW f \in Flows, Sign(f)
  PROVE  CallOf(f) \in WalletTx /\ CallOf(f).status = "pending"
  <1>1. flows[f].at \in {2, 4, 5} /\ flows[f].job \in Nat
    BY DoingIs DEF Sign, WalletStep, Types, FlowTypes, Flow
  <1> QED BY <1>1, TheSteps DEF CallOf, NewTx, WalletTx

LEMMA EscrowsSign ==
  ASSUME Types, Escrows, NEW f \in Flows, Sign(f)
  PROVE  ChainTypes' /\ Escrows' /\ Grows /\ TxsKept
  <1> USE DEF Types, ChainTypes
  <1>1. CallOf(f) \in WalletTx /\ CallOf(f).status = "pending"
    BY CallTyped
  <1>2. txs' = Append(txs, CallOf(f)) /\ UNCHANGED <<jobs, allowance>>
    BY DEF Sign
  <1>3. PICK t : t = CallOf(f)
    OBVIOUS
  <1>4. /\ txs' \in Seq(WalletTx) /\ DOMAIN txs' = DOMAIN txs \cup {Len(txs) + 1}
        /\ txs'[Len(txs) + 1].status = "pending"
        /\ \A x \in DOMAIN txs : txs'[x] = txs[x]
    BY <1>1, <1>2, <1>3
  <1>5. \A x \in DOMAIN txs' : txs'[x].status # "pending" => x \in DOMAIN txs /\ txs'[x] = txs[x]
    BY <1>4
  <1>6. \A j \in Nat : /\ \A x \in DOMAIN txs' : Funds(x, j)' => x \in DOMAIN txs /\ Funds(x, j)
                       /\ \A x \in DOMAIN txs : Funds(x, j) => Funds(x, j)'
    BY <1>4, <1>5 DEF Funds
  <1>9. Escrows'
    <2>1. \A x \in DOMAIN txs', j \in Nat : Funds(x, j)' => j \in DOMAIN jobs' /\ jobs'[j].status # "open"
      BY <1>2, <1>6 DEF Escrows
    <2>2. ASSUME NEW j \in DOMAIN jobs', jobs'[j].status # "open"
          PROVE  \E x \in DOMAIN txs' : Funds(x, j)'
      <3>1. PICK x \in DOMAIN txs : Funds(x, j)
        BY <1>2, <2>2 DEF Escrows
      <3>2. j \in Nat
        BY <1>2
      <3> QED BY <1>4, <1>6, <3>1, <3>2
    <2>3. \A j \in DOMAIN jobs' : Delivered(jobs'[j])
      BY <1>2 DEF Escrows
    <2> QED BY <2>1, <2>2, <2>3 DEF Escrows
  <1>7. ChainTypes'
    BY <1>2, <1>4, <1>5
  <1>8. Grows
    BY <1>2, StaysPut
  <1> QED BY <1>1, <1>4, <1>7, <1>8, <1>9 DEF TxsKept

LEMMA EscrowsMined ==
  ASSUME Types, Escrows, NEW x \in DOMAIN txs, Mined(x)
  PROVE  ChainTypes' /\ Escrows' /\ Grows /\ TxsKept
  <1> USE DEF Types, ChainTypes
  <1>1. txs[x] \in WalletTx /\ txs[x].status = "pending"
    BY DEF Mined
  <1>2. ASSUME UNCHANGED jobs, allowance' \in {0, 1},
               NEW s \in {"success", "reverted"}, txs' = [txs EXCEPT ![x].status = s],
               txs[x].act = "approve" \/ s = "reverted"
        PROVE  ChainTypes' /\ Escrows' /\ Grows /\ TxsKept
    <2> DEFINE t == [txs[x] EXCEPT !.status = s]
    <2>1. /\ t \in WalletTx /\ t.act = txs[x].act /\ t.on = txs[x].on /\ t.status = s
          /\ t.act = "approve" \/ t.status = "reverted"
      BY <1>1, <1>2 DEF WalletTx
    <2>2. txs' = [txs EXCEPT ![x] = t]
      BY <1>2
    <2> HIDE DEF t
    <2>3. /\ txs' \in Seq(WalletTx) /\ DOMAIN txs' = DOMAIN txs /\ txs'[x] = t /\ TxsKept
          /\ \A y \in DOMAIN txs : y # x => txs'[y] = txs[y]
      BY <1>1, <2>1, <2>2, TxSet
    <2>4. \A y \in DOMAIN txs, j \in Nat : Funds(y, j)' <=> Funds(y, j)
      BY <1>1, <2>1, <2>3 DEF Funds
    <2>5. Escrows'
      BY <1>2, <2>3, <2>4 DEF Escrows
    <2>6. ChainTypes'
      BY <1>2, <2>1, <2>3
    <2> QED BY <1>2, <2>3, <2>5, <2>6, StaysPut
  <1>3. CASE MineApprove(x)
    BY <1>2, <1>3 DEF MineApprove
  <1>4. CASE MineRevert(x)
    BY <1>2, <1>4 DEF MineRevert
  <1>5. CASE MineCreate(x)
    <2> DEFINE t == [[txs[x] EXCEPT !.status = "success"] EXCEPT !.made = Len(jobs) + 1]
    <2>1. /\ t \in WalletTx /\ t.act = txs[x].act /\ t.on = txs[x].on /\ t.act = "createJob"
          /\ t.made = Len(jobs) + 1
      <3>1. Len(jobs) + 1 \in Nat /\ txs[x].act = "createJob"
        BY <1>5 DEF MineCreate
      <3> QED BY <1>1, <3>1 DEF WalletTx
    <2>2. txs' = [txs EXCEPT ![x] = t]
      BY <1>5 DEF MineCreate
    <2> HIDE DEF t
    <2>3. /\ txs' \in Seq(WalletTx) /\ DOMAIN txs' = DOMAIN txs /\ txs'[x] = t /\ TxsKept
          /\ \A y \in DOMAIN txs : y # x => txs'[y] = txs[y]
      BY <1>1, <2>1, <2>2, TxSet
    <2>4. NewJob \in Job /\ NewJob.status = "open"
      BY DEF NewJob, Job, JobState
    <2>5. /\ jobs' \in Seq(Job) /\ DOMAIN jobs' = DOMAIN jobs \cup {Len(jobs) + 1}
          /\ jobs'[Len(jobs) + 1] = NewJob /\ \A j \in DOMAIN jobs : jobs'[j] = jobs[j]
          /\ Len(jobs) =< Len(jobs')
      BY <1>5, <2>4 DEF MineCreate
    <2>6. \A y \in DOMAIN txs, j \in Nat : Funds(y, j)' <=> Funds(y, j)
      BY <1>5, <2>1, <2>3 DEF Funds, MineCreate
    <2>7. Escrows'
      <3>1. \A j \in DOMAIN jobs' : j \in DOMAIN jobs \/ jobs'[j].status = "open"
        BY <2>4, <2>5
      <3>2. \A j \in DOMAIN jobs' : Delivered(jobs'[j])
        BY <2>4, <2>5 DEF Escrows, Delivered
      <3> QED BY <2>3, <2>5, <2>6, <3>1, <3>2 DEF Escrows
    <2>8. ChainTypes'
      BY <1>5, <2>1, <2>3, <2>5 DEF MineCreate
    <2>9. \A j \in DOMAIN jobs : Evolves(jobs[j], jobs'[j])
      BY <2>5, Same
    <2> QED BY <2>3, <2>5, <2>7, <2>8, <2>9 DEF Grows
  <1>6. CASE MineCall(x) /\ txs[x].act # "approve"
    <2>1. PICK j : j = txs[x].on
      OBVIOUS
    <2>2. txs[x].act = "fund"
      BY <1>1, <1>6 DEF MineCall, WalletTx
    <2>3. /\ j \in DOMAIN jobs /\ jobs[j].status = "open" /\ allowance > 0 /\ jobs[j].budgeted
          /\ jobs' = [jobs EXCEPT ![j].status = "funded"] /\ allowance' = allowance - 1
      BY <1>6, <2>1, <2>2 DEF MineCall, Accepts, EntryStates, Applied
    <2>4. PICK n \in Job : /\ jobs' = [jobs EXCEPT ![j] = n]
                           /\ n.status = "funded" /\ n.budgeted = jobs[j].budgeted
                           /\ n.deliverable = jobs[j].deliverable
      BY <2>3, StatusSet DEF JobState
    <2>5. Evolves(jobs[j], n) /\ Delivered(n)
      BY <2>3, <2>4 DEF Evolves, Delivered, After, JobState
    <2>6. /\ Grows /\ jobs' \in Seq(Job) /\ DOMAIN jobs' = DOMAIN jobs /\ jobs'[j] = n
          /\ \A k \in DOMAIN jobs : k # j => jobs'[k] = jobs[k]
      BY <2>3, <2>4, <2>5, OneGoes
    <2> DEFINE t == [txs[x] EXCEPT !.status = "success"]
    <2>7. /\ t \in WalletTx /\ t.act = txs[x].act /\ t.on = txs[x].on /\ t.status = "success"
      BY <1>1 DEF WalletTx
    <2>8. txs' = [txs EXCEPT ![x] = t]
      BY <1>6 DEF MineCall
    <2> HIDE DEF t
    <2>9. /\ txs' \in Seq(WalletTx) /\ DOMAIN txs' = DOMAIN txs /\ txs'[x] = t /\ TxsKept
          /\ \A y \in DOMAIN txs : y # x => txs'[y] = txs[y]
      BY <1>1, <2>7, <2>8, TxSet
    <2>10. Funds(x, j)'
      BY <2>1, <2>2, <2>7, <2>9 DEF Funds
    <2>11. \A y \in DOMAIN txs, k \in Nat : y # x => (Funds(y, k)' <=> Funds(y, k))
      BY <2>9 DEF Funds
    <2>12. \A k \in Nat : Funds(x, k)' => k = j
      BY <2>1, <2>7, <2>9 DEF Funds
    <2>13. Escrows'
      <3>1. \A y \in DOMAIN txs', k \in Nat : Funds(y, k)' => k \in DOMAIN jobs' /\ jobs'[k].status # "open"
        BY <2>3, <2>4, <2>6, <2>9, <2>11, <2>12 DEF Escrows
      <3>2. ASSUME NEW k \in DOMAIN jobs', jobs'[k].status # "open"
            PROVE  \E y \in DOMAIN txs' : Funds(y, k)'
        <4>1. CASE k = j
          BY <2>9, <2>10, <4>1
        <4>2. CASE k # j
          <5>1. PICK y \in DOMAIN txs : Funds(y, k)
            BY <2>6, <3>2, <4>2 DEF Escrows
          <5>2. y # x
            BY <1>1, <5>1 DEF Funds
          <5> QED BY <2>6, <2>9, <2>11, <5>1, <5>2
        <4> QED BY <4>1, <4>2
      <3>3. \A k \in DOMAIN jobs' : Delivered(jobs'[k])
        BY <2>5, <2>6 DEF Escrows
      <3> QED BY <3>1, <3>2, <3>3 DEF Escrows
    <2>14. ChainTypes'
      <3>1. allowance' \in {0, 1}
        BY <2>3
      <3>2. \A y \in DOMAIN txs' : txs'[y].act = "createJob" /\ txs'[y].status = "success"
                                  => y # x /\ txs'[y] = txs[y]
        BY <2>2, <2>7, <2>9
      <3> QED BY <2>6, <2>9, <3>1, <3>2
    <2> QED BY <2>6, <2>9, <2>13, <2>14
  <1> QED BY <1>3, <1>4, <1>5, <1>6 DEF Mined, Mine, MineApprove

LEMMA ChainHolds ==
  ASSUME Types, Escrows, [Next]_vars
  PROVE  ChainTypes' /\ Escrows' /\ Grows /\ TxsKept
  <1>1. CASE UNCHANGED chainVars
    BY <1>1, StaysPut DEF Types, ChainTypes, Escrows, Funds, TxsKept, chainVars
  <1> QED BY <1>1, ChainStep, EscrowsJobGoes, EscrowsSign, EscrowsMined DEF ChainChange

-----------------------------------------------------------------------------
(* Type correctness *)

LEMMA CountersStep ==
  ASSUME Types, [Next]_vars
  PROVE  faults' \in 0..MaxFaults /\ disturbed' \in BOOLEAN
  <1> USE DEF userVars, flowVars
  <1>1. faults \in 0..MaxFaults /\ MaxFaults \in Nat /\ disturbed \in BOOLEAN
    BY WalletAssumption DEF WalletAssumption, Types, FlowTypes
  <1>2. Fault => faults' \in 0..MaxFaults
    BY <1>1 DEF Fault
  <1>3. CASE UNCHANGED vars \/ MineNext \/ MineBudget \/ CacheAges \/ RenderNew
             \/ Expires \/ \E v \in Visit : OpenCase(v) \/ LoadCase(v)
    BY <1>1, <1>3 DEF vars, MineNext, MineBudget, CacheAges, RenderNew, Expires, OpenCase, LoadCase
  <1>4. CASE \E r \in reads : ServeCached(r) \/ ReadJob(r) \/ ReadTxLog(r) \/ ReadFails(r)
    BY <1>1, <1>2, <1>4 DEF ServeCached, ReadJob, ReadTxLog, ReadFails
  <1>5. CASE \E v \in Visit : RunSubmits(v) \/ RunMined(v) \/ RunSettles(v) \/ RunFails(v)
    BY <1>1, <1>2, <1>5 DEF RunSubmits, RunMined, RunSettles, RunFails
  <1>6. CASE \E f \in Flows : \/ PressGo(f) \/ PressRetry(f) \/ Connected(f) \/ Sign(f) \/ Refuse(f)
                             \/ Receipt(f) \/ ReceiptReverted(f) \/ ReceiptTimeout(f)
    BY <1>1, <1>2, <1>6 DEF PressGo, PressRetry, Press, Connected, Sign, Refuse, Receipt,
       ReceiptReverted, ReceiptTimeout
  <1>7. CASE \E f \in Flows : \/ SetBudget(f) \/ SetBudgetHit(f) \/ BudgetReceipt(f)
                             \/ SetBudgetFails(f)
                             \/ Replayed(f) \/ Conflicts(f)
                             \/ AnswerLost(f) \/ Adopts(f) \/ RefusesJob(f)
    BY <1>1, <1>2, <1>7 DEF SetBudget, SetBudgetHit, BudgetReceipt,
       SetBudgetFails, Replayed, Conflicts, AnswerLost,
       Adopts, RefusesJob
  <1> QED BY <1>3, <1>4, <1>5, <1>6, <1>7 DEF Next, FlowMoves

LEMMA FlowWith ==
  ASSUME NEW F \in Flow, NEW t \in Nat
  PROVE  [[F EXCEPT !.phase = "wait"] EXCEPT !.tx = t]
       = [at |-> F.at, phase |-> "wait", visit |-> F.visit, job |-> F.job,
          deal |-> F.deal, tx |-> t]
  <1> DEFINE G == [at |-> F.at, phase |-> "wait", visit |-> F.visit, job |-> F.job,
                   deal |-> F.deal, tx |-> F.tx]
  <1>1. [F EXCEPT !.phase = "wait"] = G
    BY DEF Flow
  <1>2. [G EXCEPT !.tx = t] = [at |-> F.at, phase |-> "wait", visit |-> F.visit, job |-> F.job,
                               deal |-> F.deal, tx |-> t]
    OBVIOUS
  <1> QED BY <1>1, <1>2

LEMMA StartsIsFlow ==
  ASSUME NEW m \in 1..6, NEW visit \in 0..MaxVisits, NEW j \in Nat, NEW d \in Deal
  PROVE  Starts(m, visit, j, d) \in Flow
  BY TheSteps DEF Starts, Flow

LEMMA IdleIsFlow == Idle \in Flow
  BY WalletAssumption DEF WalletAssumption, Idle, Flow, Deal, STEPS

\* Where a flow that signs goes, and one whose case is admitted.
Signed(f) ==
    [at |-> flows[f].at, phase |-> "wait", visit |-> flows[f].visit, job |-> flows[f].job,
     deal |-> flows[f].deal, tx |-> Len(txs) + 1]
Admits(f) ==
    [at |-> flows[f].at, phase |-> "wait", visit |-> flows[f].visit, job |-> flows[f].job,
     deal |-> flows[f].deal, tx |-> flows[f].tx]

LEMMA SignDoes ==
  ASSUME Types, NEW f \in Flows, Sign(f)
  PROVE  /\ flows' = [flows EXCEPT ![f] = Signed(f)] /\ Signed(f) \in Flow
         /\ flows[f].at \in {2, 4, 5}
         /\ txs' = Append(txs, CallOf(f)) /\ CallOf(f).act = STEPS[flows[f].at]
         /\ CallOf(f).status = "pending" /\ (flows[f].at = 5 => CallOf(f).on = flows[f].job)
  <1>1. flows[f] \in Flow /\ Len(txs) + 1 \in Nat
    BY DEF Types, FlowTypes, ChainTypes
  <1>2. flows' = [flows EXCEPT ![f].phase = "wait", ![f].tx = Len(txs) + 1]
    BY DEF Sign
  <1>3. Signed(f) \in Flow
    BY <1>1 DEF Signed, Flow
  <1>4. [[flows[f] EXCEPT !.phase = "wait"] EXCEPT !.tx = Len(txs) + 1] = Signed(f)
    BY <1>1, FlowWith DEF Signed
  <1>5. flows' = [flows EXCEPT ![f] = Signed(f)]
    BY <1>2, <1>4 DEF Types, FlowTypes
  <1>6. flows[f].at \in {2, 4, 5}
    BY DoingIs DEF Sign, WalletStep, Types, FlowTypes
  <1>7. CallOf(f).on = flows[f].job \/ flows[f].at # 5
    BY DoingIs DEF CallOf, NewTx, Types, FlowTypes
  <1> QED BY <1>3, <1>5, <1>6, <1>7 DEF Sign, CallOf, NewTx

LEMMA AdoptsDoes ==
  ASSUME Types, NEW f \in Flows, Adopts(f)
  PROVE  /\ flows' = [flows EXCEPT ![f] = Admits(f)] /\ Admits(f) \in Flow
         /\ flows[f].at = 6
  <1>1. flows[f] \in Flow
    BY DEF Types, FlowTypes
  <1>2. flows' = [flows EXCEPT ![f].phase = "wait"]
    BY DEF Adopts
  <1>3. Admits(f) \in Flow
    BY <1>1 DEF Admits, Flow
  <1>4. [flows[f] EXCEPT !.phase = "wait"] = Admits(f)
    BY <1>1 DEF Admits, Flow
  <1>5. flows' = [flows EXCEPT ![f] = Admits(f)]
    BY <1>2, <1>4 DEF Types, FlowTypes
  <1>6. flows[f].at = 6
    BY DoingIs DEF Adopts, Admitted, Posted, Types, FlowTypes
  <1> QED BY <1>3, <1>5, <1>6

LEMMA BudgetDoes ==
  ASSUME Types, NEW f \in Flows, SetBudget(f)
  PROVE  /\ flows' = [flows EXCEPT ![f] = Admits(f)] /\ Admits(f) \in Flow
         /\ flows[f].at = 3 /\ [on |-> flows[f].job, logged |-> TRUE] \in proposals'
  <1>1. flows[f] \in Flow
    BY DEF Types, FlowTypes
  <1>2. flows' = [flows EXCEPT ![f].phase = "wait"]
    BY DEF SetBudget
  <1>3. Admits(f) \in Flow
    BY <1>1 DEF Admits, Flow
  <1>4. [flows[f] EXCEPT !.phase = "wait"] = Admits(f)
    BY <1>1 DEF Admits, Flow
  <1>5. flows' = [flows EXCEPT ![f] = Admits(f)]
    BY <1>2, <1>4 DEF Types, FlowTypes
  <1>6. flows[f].at = 3
    BY DoingIs DEF SetBudget, Types, FlowTypes
  <1>7. [on |-> flows[f].job, logged |-> TRUE] \in proposals'
    BY DEF SetBudget
  <1> QED BY <1>3, <1>5, <1>6, <1>7

\* A flow goes to `n`; the others stay.
Goes(f, n) ==
    /\ n \in Flow
    /\ flows' = [flows EXCEPT ![f] = n]
    /\ n.at # 0 => deal' # NoDeal /\ n.deal # NoDeal /\ n.visit > 0
    /\ n.at \in {2, 4, 5} /\ n.phase = "wait" =>
          /\ n.tx \in DOMAIN txs' /\ txs'[n.tx].act = STEPS[n.at]
          /\ n.at = 5 => txs'[n.tx].on = n.job
    /\ n.at = 3 /\ n.phase = "wait" => [on |-> n.job, logged |-> TRUE] \in proposals'

LEMMA PressesTyped ==
  ASSUME Types, NEW f \in Flows, Presses(f)
  PROVE  /\ \E n : Goes(f, n)
         /\ steps' \in [StepIds -> StepStatus] /\ page' \in 0..Landing
         /\ deal' \in Deal /\ deal' # NoDeal /\ (page' = NewPage => page = NewPage)
  <1> USE WalletAssumption DEF WalletAssumption, Types, FlowTypes
  <1>1. visits \in Visit /\ visits \in 0..MaxVisits
    BY DEF Presses, Visit
  <1>2. deal' \in Deal /\ deal' # NoDeal
    BY <1>1 DEF Presses, Deal, Visit, NoDeal
  <1>3. deal'.id \in Visit
    BY <1>2 DEF Deal
  <1>4. Idle.at = 0 /\ \A m, v, j, d : Starts(m, v, j, d).at = m /\ Starts(m, v, j, d).phase = "ask"
        /\ Starts(m, v, j, d).deal = d /\ Starts(m, v, j, d).visit = v
    BY DEF Idle, Starts
  <1>5. Continue(f, 1, steps, jobId, deal', visits)
    BY DEF Presses
  <1>6. CASE steps' = steps /\ flows' = [flows EXCEPT ![f] = Idle] /\ page' = deal'.id
    <2>1. Goes(f, Idle)
      BY <1>4, <1>6, IdleIsFlow DEF Goes
    <2> QED BY <1>2, <1>3, <1>6, <2>1 DEF Visit, Landing, NewPage
  <1>7. ASSUME NEW m \in 1..6, steps' = [steps EXCEPT ![m] = "running"], page' = page,
               flows' = [flows EXCEPT ![f] = Starts(m, visits, jobId, deal')]
        PROVE  /\ \E n : Goes(f, n)
               /\ steps' \in [StepIds -> StepStatus] /\ page' \in 0..Landing
    <2>1. jobId \in Nat
      BY DEF ChainTypes
    <2>2. Starts(m, visits, jobId, deal') \in Flow
      BY <1>1, <1>2, <2>1, StartsIsFlow
    <2>3. Goes(f, Starts(m, visits, jobId, deal'))
      BY <1>1, <1>2, <1>4, <1>7, <2>2 DEF Goes, Visit
    <2> QED BY <1>7, <2>3 DEF StepStatus, StepIds
  <1> QED BY <1>2, <1>3, <1>5, <1>6, <1>7, ContinueDoes DEF Visit, NewPage

LEMMA EndsTyped ==
  ASSUME Types, NEW f \in Flows, Ends(f)
  PROVE  /\ \E n : Goes(f, n)
         /\ steps' \in [StepIds -> StepStatus] /\ page' \in 0..Landing
         /\ jobId' \in 0..Len(jobs) /\ UNCHANGED <<go, retry, visits, deal, forms>>
         /\ page' = NewPage => page = NewPage
  <1> USE WalletAssumption DEF WalletAssumption, Types, FlowTypes
  <1>1. /\ flows[f].at \in 1..6 /\ flows[f].visit \in 0..MaxVisits /\ flows[f].visit > 0
        /\ deal # NoDeal /\ flows[f].at # 0
    BY TheSteps DEF Ends, Flow
  <1>2. deal.id \in Visit
    BY <1>1 DEF Deal
  <1>3. jobId' \in 0..Len(jobs)
    <2>1. CASE flows[f].at = 2
      <3>1. PICK x : x = flows[f].tx
        OBVIOUS
      <3>2. x \in DOMAIN txs /\ txs[x].act = "createJob"
        BY <2>1, <3>1, TheSteps DEF Ends, Earned, Awaits
      <3>3. txs[x].status = "success" /\ jobId' = txs[x].made
        BY <2>1, <3>1 DEF Ends, Earned
      <3> QED BY <3>2, <3>3 DEF ChainTypes
    <2>2. CASE flows[f].at # 2
      BY <2>2 DEF Ends, Earned
    <2> QED BY <2>1, <2>2
  <1>4. Idle.at = 0 /\ \A m, v, j, d : Starts(m, v, j, d).at = m /\ Starts(m, v, j, d).phase = "ask"
        /\ Starts(m, v, j, d).deal = d /\ Starts(m, v, j, d).visit = v
    BY DEF Idle, Starts
  <1>5. PICK k : k = flows[f].at
    OBVIOUS
  <1>6. PICK j : j = jobId'
    OBVIOUS
  <1>7. StepDone(f, j) /\ UNCHANGED <<visits, deal, forms>>
    BY <1>6 DEF Ends
  <1>8. /\ UNCHANGED <<go, retry>>
        /\ \/ /\ steps' = [steps EXCEPT ![k] = "done"]
              /\ flows' = [flows EXCEPT ![f] = Idle] /\ page' = deal.id
           \/ \E m \in k + 1..6 :
                /\ steps' = [steps EXCEPT ![k] = "done", ![m] = "running"]
                /\ flows' = [flows EXCEPT ![f] = Starts(m, flows[f].visit, j, deal)]
                /\ page' = page
    BY <1>1, <1>5, <1>7, StepDoneDoes
  <1>9. CASE /\ steps' = [steps EXCEPT ![k] = "done"]
             /\ flows' = [flows EXCEPT ![f] = Idle] /\ page' = deal.id
    <2>1. Goes(f, Idle)
      BY <1>4, <1>9, IdleIsFlow DEF Goes
    <2>2. steps' \in [StepIds -> StepStatus]
      BY <1>1, <1>5, <1>9 DEF StepStatus, StepIds
    <2> QED BY <1>2, <1>3, <1>7, <1>8, <1>9, <2>1, <2>2 DEF Visit, Landing, NewPage
  <1>10. ASSUME NEW m \in k + 1..6, steps' = [steps EXCEPT ![k] = "done", ![m] = "running"],
                page' = page, flows' = [flows EXCEPT ![f] = Starts(m, flows[f].visit, j, deal)]
         PROVE  /\ \E n : Goes(f, n)
                /\ steps' \in [StepIds -> StepStatus] /\ page' \in 0..Landing
    <2>1. m \in 1..6 /\ j \in Nat
      <3>1. k \in 1..6
        BY <1>1, <1>5
      <3>2. m \in 1..6
        BY <1>10, <3>1
      <3>3. j \in Nat
        BY <1>3, <1>6 DEF ChainTypes
      <3> QED BY <3>2, <3>3
    <2>2. Starts(m, flows[f].visit, j, deal) \in Flow
      BY <1>1, <2>1, StartsIsFlow
    <2>3. Goes(f, Starts(m, flows[f].visit, j, deal))
      BY <1>1, <1>4, <1>7, <1>10, <2>2 DEF Goes
    <2>4. steps' \in [StepIds -> StepStatus]
      <3>1. [steps EXCEPT ![k] = "done"] \in [StepIds -> StepStatus]
        BY <1>1, <1>5 DEF StepStatus, StepIds
      <3> QED BY <1>10, <2>1, <3>1 DEF StepStatus, StepIds
    <2> QED BY <1>10, <2>3, <2>4
  <1> QED BY <1>3, <1>7, <1>8, <1>9, <1>10

LEMMA FailsDoes ==
  ASSUME Types, NEW f \in Flows, Fails(f)
  PROVE  /\ Goes(f, Idle)
         /\ steps' = [steps EXCEPT ![flows[f].at] = "error"] /\ steps' \in [StepIds -> StepStatus]
         /\ go' = (go \/ page = NewPage) /\ UNCHANGED <<page, visits, deal, forms, jobId>>
         /\ retry' = (retry \/ (page = NewPage /\ flows[f].visit = visits))
  <1>1. flows[f].at \in 1..6
    BY TheSteps DEF Fails, Flow, Types, FlowTypes
  <1>2. Goes(f, Idle)
    BY IdleIsFlow DEF Fails, StepFails, Goes, Idle
  <1> QED BY <1>1, <1>2 DEF Fails, StepFails, Types, FlowTypes, StepStatus, StepIds

\* What every change of the flows keeps.
FlowsTyped ==
    /\ UNCHANGED flows \/ \E f \in Flows, n \in Flow : Goes(f, n)
    /\ visits' \in 0..MaxVisits /\ page' \in 0..Landing /\ (page' = NewPage => visits' > 0)
    /\ steps' \in [StepIds -> StepStatus] /\ jobId' \in 0..Len(jobs')
    /\ deal' \in Deal /\ (deal # NoDeal => deal' # NoDeal) /\ forms' \in 0..MaxForms
    /\ go' \in BOOLEAN /\ retry' \in BOOLEAN /\ (retry' => deal' # NoDeal)
    /\ overlapped' \in BOOLEAN

LEMMA FlowChangeTyped ==
  ASSUME Types, ChainTypes', TxsKept, Grows, FlowChange
  PROVE  FlowsTyped
  <1> USE WalletAssumption DEF WalletAssumption, FlowsTyped
  <1>1. /\ Len(jobs) \in Nat /\ Len(jobs') \in Nat /\ Len(jobs) =< Len(jobs')
        /\ \A k : k \in 0..Len(jobs) => k \in 0..Len(jobs')
    BY DEF Types, ChainTypes, Grows
  <1>2. CASE Quiet
    BY <1>1, <1>2 DEF Quiet, Types, FlowTypes, Visit, Landing, NewPage
  <1>3. CASE RenderNew
    <2>1. steps' \in [StepIds -> StepStatus]
      BY <1>3, TheSteps DEF RenderNew, ResetSteps, StepStatus
    <2>2. visits' \in 0..MaxVisits /\ visits' > 0 /\ page' \in 0..Landing
      BY <1>3 DEF RenderNew, Types, FlowTypes, Landing, NewPage
    <2>3. go' \in BOOLEAN /\ retry' = FALSE /\ overlapped' \in BOOLEAN
      BY <1>3 DEF RenderNew
    <2>4. UNCHANGED <<jobId, deal, forms, flows>>
      BY <1>3 DEF RenderNew
    <2> QED BY <1>1, <2>1, <2>2, <2>3, <2>4 DEF Types, FlowTypes
  <1>4. ASSUME NEW f \in Flows, Presses(f)
        PROVE  FlowsTyped
    <2>1. /\ \E n : Goes(f, n)
          /\ steps' \in [StepIds -> StepStatus] /\ page' \in 0..Landing
          /\ deal' \in Deal /\ deal' # NoDeal /\ (page' = NewPage => page = NewPage)
      BY <1>4, PressesTyped
    <2> QED BY <1>1, <1>4, <2>1 DEF Presses, Types, FlowTypes, Goes
  <1>5. ASSUME NEW f \in Flows, Ends(f)
        PROVE  FlowsTyped
    <2>1. /\ \E n : Goes(f, n)
          /\ steps' \in [StepIds -> StepStatus] /\ page' \in 0..Landing
          /\ jobId' \in 0..Len(jobs) /\ UNCHANGED <<go, retry, visits, deal, forms>>
          /\ page' = NewPage => page = NewPage
      BY <1>5, EndsTyped
    <2> QED BY <1>1, <1>5, <2>1 DEF Ends, Types, FlowTypes, Goes
  <1>6. ASSUME NEW f \in Flows, Fails(f)
        PROVE  FlowsTyped
    <2>1. deal # NoDeal
      BY <1>6 DEF Fails, Types, FlowTypes
    <2> QED BY <1>1, <1>6, <2>1, FailsDoes DEF Fails, Types, FlowTypes, Goes
  <1>7. ASSUME NEW f \in Flows, Sign(f)
        PROVE  FlowsTyped
    <2>1. PICK c : c = CallOf(f)
      OBVIOUS
    <2>2. /\ flows' = [flows EXCEPT ![f] = Signed(f)] /\ Signed(f) \in Flow
          /\ flows[f].at \in {2, 4, 5}
          /\ txs' = Append(txs, c) /\ c.act = STEPS[flows[f].at]
          /\ flows[f].at = 5 => c.on = flows[f].job
      BY <1>7, <2>1, SignDoes
    <2>3. txs \in Seq(WalletTx) /\ c \in WalletTx
      BY <1>7, <2>1, CallTyped DEF Types, ChainTypes
    <2>4. txs'[Len(txs) + 1] = c /\ Len(txs) + 1 \in DOMAIN txs'
      BY <2>2, <2>3
    <2>5. deal # NoDeal /\ flows[f].deal # NoDeal /\ flows[f].visit > 0
      BY <2>2 DEF Types, FlowTypes
    <2>6. UNCHANGED <<visits, page, steps, jobId, deal, forms, go, retry, overlapped>>
      BY <1>7 DEF Sign
    <2>7. Goes(f, Signed(f))
      BY <2>2, <2>4, <2>5, <2>6 DEF Goes, Signed
    <2> QED BY <1>1, <2>6, <2>7 DEF Types, FlowTypes, Goes
  <1>8. ASSUME NEW f \in Flows, Adopts(f)
        PROVE  FlowsTyped
    <2>1. /\ flows' = [flows EXCEPT ![f] = Admits(f)] /\ Admits(f) \in Flow
          /\ flows[f].at = 6
      BY <1>8, AdoptsDoes
    <2>2. UNCHANGED <<visits, page, steps, jobId, deal, forms, go, retry, overlapped>>
      BY <1>8 DEF Adopts
    <2>3. deal # NoDeal /\ flows[f].deal # NoDeal /\ flows[f].visit > 0
      BY <2>1 DEF Types, FlowTypes
    <2>4. Goes(f, Admits(f))
      BY <2>1, <2>2, <2>3 DEF Goes, Admits
    <2> QED BY <1>1, <2>2, <2>4 DEF Types, FlowTypes, Goes
  <1>9. ASSUME NEW f \in Flows, SetBudget(f)
        PROVE  FlowsTyped
    <2>1. /\ flows' = [flows EXCEPT ![f] = Admits(f)] /\ Admits(f) \in Flow
          /\ flows[f].at = 3 /\ [on |-> flows[f].job, logged |-> TRUE] \in proposals'
      BY <1>9, BudgetDoes
    <2>2. UNCHANGED <<visits, page, steps, jobId, deal, forms, go, retry, overlapped>>
      BY <1>9 DEF SetBudget
    <2>3. deal # NoDeal /\ flows[f].deal # NoDeal /\ flows[f].visit > 0
      BY <2>1 DEF Types, FlowTypes
    <2>7. Goes(f, Admits(f))
      BY <2>1, <2>2, <2>3 DEF Goes, Admits
    <2> QED BY <1>1, <2>2, <2>7 DEF Types, FlowTypes, Goes
  <1> QED BY <1>2, <1>3, <1>4, <1>5, <1>6, <1>7, <1>8, <1>9 DEF FlowChange

\* The setBudget calls stay what they are, and are about jobs that exist.
LEMMA LogStep ==
  ASSUME Types, Grows, [Next]_vars
  PROVE  LogTypes' /\ proposals \subseteq proposals'
  <1>1. ASSUME UNCHANGED proposals PROVE LogTypes' /\ proposals \subseteq proposals'
    BY <1>1 DEF Types, LogTypes, Grows
  <1>2. ASSUME NEW f \in Flows, NEW logged \in BOOLEAN, SetBudgetAllowed(flows[f].job),
               proposals' = proposals \cup {[on |-> flows[f].job, logged |-> logged]}
        PROVE  LogTypes' /\ proposals \subseteq proposals'
    <2>1. flows[f].job \in DOMAIN jobs'
      BY <1>2 DEF SetBudgetAllowed, Grows
    <2> QED BY <1>2, <2>1 DEF Types, LogTypes, Grows
  <1>3. CASE \E f \in Flows : SetBudget(f) \/ SetBudgetFails(f)
    BY <1>1, <1>2, <1>3 DEF SetBudget, SetBudgetFails
  <1>4. CASE UNCHANGED vars \/ MineNext \/ MineBudget \/ CacheAges \/ RenderNew
             \/ Expires \/ \E v \in Visit : OpenCase(v) \/ LoadCase(v)
    BY <1>1, <1>4 DEF vars, flowVars, MineNext, MineBudget, CacheAges, RenderNew, Expires,
                      OpenCase, LoadCase
  <1>5. CASE \E r \in reads : ServeCached(r) \/ ReadJob(r) \/ ReadTxLog(r) \/ ReadFails(r)
    BY <1>1, <1>5 DEF flowVars, ServeCached, ReadJob, ReadTxLog, ReadFails
  <1>6. CASE \E v \in Visit : RunSubmits(v) \/ RunMined(v) \/ RunSettles(v) \/ RunFails(v)
    BY <1>1, <1>6 DEF RunSubmits, RunMined, RunSettles, RunFails
  <1>7. CASE \E f \in Flows : \/ PressGo(f) \/ PressRetry(f) \/ Connected(f) \/ Sign(f) \/ Refuse(f)
                             \/ Receipt(f) \/ ReceiptReverted(f) \/ ReceiptTimeout(f)
    BY <1>1, <1>7 DEF PressGo, PressRetry, Press, Connected, Sign, Refuse, Receipt,
       ReceiptReverted, ReceiptTimeout
  <1>8. CASE \E f \in Flows : \/ SetBudgetHit(f) \/ BudgetReceipt(f)
                             \/ Replayed(f) \/ Conflicts(f)
                             \/ AnswerLost(f) \/ Adopts(f) \/ RefusesJob(f)
    BY <1>1, <1>8 DEF SetBudgetHit, BudgetReceipt, Replayed, Conflicts,
       AnswerLost, Adopts, RefusesJob
  <1> QED BY <1>3, <1>4, <1>5, <1>6, <1>7, <1>8 DEF Next, FlowMoves

LEMMA FlowTypesStep ==
  ASSUME Types, Escrows, [Next]_vars
  PROVE  FlowTypes' /\ Awaits'
  <1>1. ChainTypes' /\ Grows /\ TxsKept
    BY ChainHolds
  <1>6. proposals \subseteq proposals'
    BY <1>1, LogStep
  <1>2. FlowsTyped
    BY <1>1, StepChanges, FlowChangeTyped
  <1>3. faults' \in 0..MaxFaults /\ disturbed' \in BOOLEAN
    BY CountersStep
  <1>4. CASE UNCHANGED flows
    <2>1. Awaits'
      BY <1>1, <1>4, <1>6 DEF Types, Awaits, TxsKept, Proposed
    <2>2. FlowTypes'
      BY <1>2, <1>3, <1>4 DEF FlowsTyped, FlowTypes, Types
    <2> QED BY <2>1, <2>2
  <1>5. ASSUME NEW f \in Flows, NEW n \in Flow, Goes(f, n)
        PROVE  FlowTypes' /\ Awaits'
    <2>1. flows' \in [Flows -> Flow] /\ flows'[f] = n /\ \A g \in Flows : g # f => flows'[g] = flows[g]
      BY <1>5 DEF Goes, Types, FlowTypes
    <2>2. Awaits'
      <3>1. \A g \in Flows : flows'[g].at \in {2, 4, 5} /\ flows'[g].phase = "wait" =>
              /\ flows'[g].tx \in DOMAIN txs'
              /\ txs'[flows'[g].tx].act = STEPS[flows'[g].at]
              /\ flows'[g].at = 5 => txs'[flows'[g].tx].on = flows'[g].job
        BY <1>1, <1>5, <2>1 DEF Types, Awaits, TxsKept, Goes
      <3>2. ASSUME NEW g \in Flows, flows'[g].at = 3, flows'[g].phase = "wait"
            PROVE  [on |-> flows'[g].job, logged |-> TRUE] \in proposals'
        <4>1. CASE g = f
          BY <1>5, <2>1, <3>2, <4>1 DEF Goes
        <4>2. CASE g # f
          BY <1>6, <2>1, <3>2, <4>2 DEF Types, Awaits, Proposed
        <4> QED BY <4>1, <4>2
      <3> QED BY <3>1, <3>2 DEF Awaits, Proposed
    <2>3. \A g \in Flows : flows'[g].at # 0 => deal' # NoDeal /\ flows'[g].deal # NoDeal /\ flows'[g].visit > 0
      BY <1>2, <1>5, <2>1 DEF Goes, Types, FlowTypes, FlowsTyped
    <2>4. FlowTypes'
      BY <1>2, <1>3, <2>1, <2>3 DEF FlowsTyped, FlowTypes
    <2> QED BY <2>2, <2>4
  <1> QED BY <1>2, <1>4, <1>5 DEF FlowsTyped

\* A run that ended says how its job ended.
RunsTrue ==
    \A v \in Visit : runs[v].phase \in Succeeded => jobs[runs[v].job].status = runs[v].phase

LEMMA RunPhase ==
  ASSUME NEW R \in Run, NEW p \in UnderWay \cup Succeeded \cup {"failed"}
  PROVE  [R EXCEPT !.phase = p] \in Run /\ [R EXCEPT !.phase = p].phase = p
         /\ [R EXCEPT !.phase = p].job = R.job /\ [R EXCEPT !.phase = p].adopted = R.adopted
         /\ [R EXCEPT !.phase = p].deal = R.deal
  BY DEF Run, UnderWay, Succeeded

\* Where the row of a case goes when its request is admitted as `phase`.
Row(f, phase) ==
    [phase |-> phase, deal |-> flows[f].deal, job |-> flows[f].job,
     adopted |-> runs[flows[f].deal.id].adopted \/ phase = "running"]

LEMMA AdmittedDoes ==
  ASSUME Types, NEW f \in Flows, NEW phase \in {"running", "failed"}, Admitted(f, phase)
  PROVE  /\ flows[f].at = 6 /\ flows[f].deal.id \in Visit
         /\ runs' = [runs EXCEPT ![flows[f].deal.id] = Row(f, phase)] /\ Row(f, phase) \in Run
         /\ runs[flows[f].deal.id].phase \in {"none", "failed"}
         /\ runs[flows[f].deal.id].adopted => runs[flows[f].deal.id].job = flows[f].job
  <1>1. flows[f].at = 6
    BY DoingIs DEF Admitted, Posted, Types, FlowTypes
  <1>2. flows[f].deal \in Deal /\ flows[f].deal # NoDeal /\ flows[f].job \in Nat
    BY <1>1 DEF Types, FlowTypes, Flow
  <1>3. flows[f].deal.id \in Visit
    BY <1>2 DEF Deal
  <1>4. Row(f, phase) \in Run
    BY <1>2, <1>3 DEF Row, Run, Types, RunTypes
  <1>5. runs[flows[f].deal.id].adopted => runs[flows[f].deal.id].job = flows[f].job
    BY <1>3 DEF Admitted, Conflict, RowOf, Types, RunTypes
  <1>6. runs' = [runs EXCEPT ![flows[f].deal.id] = Row(f, phase)]
    BY <1>3 DEF Admitted, Row, Types, RunTypes
  <1> QED BY <1>1, <1>3, <1>4, <1>5, <1>6 DEF Admitted, RowOf

LEMMA RunTypesStep ==
  ASSUME Types, Escrows, RunsTrue, [Next]_vars
  PROVE  RunTypes' /\ RunsTrue' /\ submits \subseteq submits'
  <1> USE DEF Types, ChainTypes, RunTypes
  <1>1. Grows
    BY ChainHolds
  <1>2. RunChange
    BY StepChanges
  <1>3. \A v \in Visit : runs[v].phase \in Succeeded => jobs'[runs[v].job].status = runs[v].phase
    BY <1>1 DEF RunsTrue, Grows, Evolves, After, Succeeded
  <1>4. CASE UNCHANGED <<runs, submits>>
    <2>1. RunTypes'
      BY <1>1, <1>4 DEF Grows
    <2>2. RunsTrue'
      BY <1>3, <1>4 DEF RunsTrue
    <2> QED BY <1>4, <2>1, <2>2
  <1>5. ASSUME NEW f \in Flows, NEW phase \in {"running", "failed"}, Admitted(f, phase),
               UNCHANGED submits, phase = "running" => flows[f].job \in DOMAIN jobs
        PROVE  RunTypes' /\ RunsTrue' /\ submits \subseteq submits'
    <2> DEFINE row == Row(f, phase)
    <2>1. PICK v : v = flows[f].deal.id
      OBVIOUS
    <2>2. /\ v \in Visit /\ runs' = [runs EXCEPT ![v] = row] /\ row \in Run
          /\ row.phase = phase /\ row.job = flows[f].job
          /\ row.adopted = (runs[v].adopted \/ phase = "running")
          /\ runs[v].adopted => runs[v].job = flows[f].job
      BY <1>5, <2>1, AdmittedDoes, ZenonT(30) DEF Row
    <2>3. row.adopted => row.job \in DOMAIN jobs
      BY <1>5, <2>2
    <2> HIDE DEF row
    <2>4. runs' \in [Visit -> Run] /\ runs'[v] = row /\ \A w \in Visit : w # v => runs'[w] = runs[w]
      BY <2>2
    <2>5. row.phase # "none" /\ (row.phase \in UnderWay \cup Succeeded => row.adopted)
          /\ row.phase \notin Succeeded
      BY <2>2 DEF UnderWay, Succeeded
    <2>6. RunTypes'
      BY <1>1, <1>5, <2>3, <2>4, <2>5 DEF Grows
    <2>7. RunsTrue'
      BY <1>3, <2>4, <2>5 DEF RunsTrue
    <2> QED BY <1>5, <2>6, <2>7
  <1>6. ASSUME NEW f \in Flows, Adopts(f)
        PROVE  RunTypes' /\ RunsTrue' /\ submits \subseteq submits'
    BY <1>5, <1>6 DEF Adopts, Adoptable
  <1>7. ASSUME NEW f \in Flows, RefusesJob(f)
        PROVE  RunTypes' /\ RunsTrue' /\ submits \subseteq submits'
    BY <1>5, <1>7 DEF RefusesJob
  <1>8. ASSUME NEW v \in Visit, RunGoes(v)
        PROVE  RunTypes' /\ RunsTrue' /\ submits \subseteq submits'
    <2>1. PICK p \in UnderWay \cup Succeeded \cup {"failed"} :
             /\ runs[v].phase \in UnderWay
             /\ runs' = [runs EXCEPT ![v].phase = p]
             /\ p \in Succeeded => jobs'[runs[v].job].status = p
             /\ submits' = submits \/ submits' = submits \cup {runs[v].job}
      BY <1>8 DEF RunGoes
    <2> DEFINE row == [runs[v] EXCEPT !.phase = p]
    <2>2. row \in Run /\ row.phase = p /\ row.job = runs[v].job /\ row.adopted = runs[v].adopted
      BY RunPhase
    <2>3. runs' = [runs EXCEPT ![v] = row]
      BY <2>1
    <2> HIDE DEF row
    <2>4. runs' \in [Visit -> Run] /\ runs'[v] = row /\ \A w \in Visit : w # v => runs'[w] = runs[w]
      BY <2>2, <2>3
    <2>5. runs[v].adopted /\ runs[v].job \in DOMAIN jobs /\ row.phase # "none"
      BY <2>1, <2>2 DEF UnderWay, Succeeded
    <2>6. RunTypes'
      BY <1>1, <2>1, <2>2, <2>4, <2>5 DEF Grows
    <2>7. RunsTrue'
      BY <1>3, <2>1, <2>2, <2>4 DEF RunsTrue
    <2> QED BY <2>1, <2>6, <2>7
  <1> QED BY <1>2, <1>4, <1>6, <1>7, <1>8 DEF RunChange

-----------------------------------------------------------------------------
(* The demo API's cache *)

Distinct(s) == \A i, k \in DOMAIN s : s[i].job = s[k].job => i = k

\* The entries of t are entries of s.
From(t, s) ==
    t \in Seq(Entry) /\ Len(t) =< Len(s) /\ Distinct(t)
    /\ \A i \in DOMAIN t : \E k \in DOMAIN s : t[i] = s[k]

\* What is left of a sequence when one of its elements is taken out.
LEMMA RemoveAtShifts ==
  ASSUME NEW S, NEW s \in Seq(S), NEW m \in DOMAIN s
  PROVE  /\ RemoveAt(s, m) \in Seq(S) /\ Len(RemoveAt(s, m)) = Len(s) - 1
         /\ \A k \in 1..Len(s) - 1 : RemoveAt(s, m)[k] = s[IF k < m THEN k ELSE k + 1]
  <1> DEFINE front == SubSeq(s, 1, m - 1)
             back == SubSeq(s, m + 1, Len(s))
             t == RemoveAt(s, m)
  <1>1. m \in 1..Len(s) /\ Len(s) \in Nat
    OBVIOUS
  <1>2. /\ front \in Seq(S) /\ Len(front) = m - 1
        /\ \A i \in 1..m - 1 : front[i] = s[i]
    BY <1>1
  <1>3. /\ back \in Seq(S) /\ Len(back) = Len(s) - m
        /\ \A i \in 1..Len(s) - m : back[i] = s[i + m]
    BY <1>1
  <1>4. t = front \o back
    BY DEF RemoveAt
  <1> HIDE DEF front, back, t
  <1>5. t \in Seq(S) /\ Len(t) = Len(s) - 1
    BY <1>1, <1>2, <1>3, <1>4
  <1>6. ASSUME NEW k \in 1..Len(s) - 1 PROVE t[k] = s[IF k < m THEN k ELSE k + 1]
    <2>1. CASE k < m
      BY <1>1, <1>2, <1>3, <1>4, <1>6, <2>1
    <2>2. CASE k >= m
      BY <1>1, <1>2, <1>3, <1>4, <1>6, <2>2
    <2> QED BY <1>1, <1>6, <2>1, <2>2
  <1> QED BY <1>5, <1>6 DEF t

LEMMA WithoutDoes ==
  ASSUME cache \in Seq(Entry), Distinct(cache), NEW job
  PROVE  From(Without(job), cache) /\ \A i \in DOMAIN Without(job) : Without(job)[i].job # job
  <1>1. CASE \E i \in DOMAIN cache : cache[i].job = job
    <2>1. PICK m : m = CHOOSE i \in DOMAIN cache : cache[i].job = job
      OBVIOUS
    <2>2. m \in DOMAIN cache /\ cache[m].job = job
      BY <1>1, <2>1
    <2>3. PICK t : t = RemoveAt(cache, m)
      OBVIOUS
    <2>4. Without(job) = t
      BY <1>1, <2>1, <2>3 DEF Without
    <2>5. /\ t \in Seq(Entry) /\ Len(t) = Len(cache) - 1
          /\ \A k \in 1..Len(cache) - 1 : t[k] = cache[IF k < m THEN k ELSE k + 1]
      BY <2>2, <2>3, RemoveAtShifts
    <2>6. \A k \in DOMAIN t : (IF k < m THEN k ELSE k + 1) \in DOMAIN cache
                              /\ (IF k < m THEN k ELSE k + 1) # m
                              /\ t[k] = cache[IF k < m THEN k ELSE k + 1]
      <3>1. DOMAIN t = 1..Len(cache) - 1 /\ m \in 1..Len(cache) /\ Len(cache) \in Nat
        BY <2>2, <2>5
      <3>2. \A k \in 1..Len(cache) - 1 : (IF k < m THEN k ELSE k + 1) \in 1..Len(cache) \ {m}
        BY <3>1
      <3> QED BY <2>5, <3>1, <3>2
    <2>7. Distinct(t)
      <3>1. \A i, k \in DOMAIN t :
               (IF i < m THEN i ELSE i + 1) = (IF k < m THEN k ELSE k + 1) => i = k
        BY <2>2, <2>5
      <3> QED BY <2>6, <3>1 DEF Distinct
    <2>8. \A k \in DOMAIN t : t[k].job # job
      BY <2>2, <2>6 DEF Distinct
    <2> QED BY <2>4, <2>5, <2>6, <2>7, <2>8 DEF From
  <1>2. CASE ~ \E i \in DOMAIN cache : cache[i].job = job
    BY <1>2 DEF Without, From
  <1> QED BY <1>1, <1>2

LEMMA PutStatusDoes ==
  ASSUME cache \in Seq(Entry), Len(cache) =< CacheMax, Distinct(cache),
         NEW job \in Nat, NEW view \in JobView
  PROVE  LET put == PutStatus(job, view) IN
         /\ put \in Seq(Entry) /\ Len(put) =< CacheMax /\ Distinct(put)
         /\ \A i \in DOMAIN put : \/ put[i].job = job /\ put[i].view = view
                                  \/ \E k \in DOMAIN cache : put[i] = cache[k]
  <1>1. PICK w : w = Without(job)
    OBVIOUS
  <1>2. From(w, cache) /\ \A i \in DOMAIN w : w[i].job # job
    BY <1>1, WithoutDoes
  <1> DEFINE kept == IF Len(w) >= CacheMax THEN Tail(w) ELSE w
             e == [job |-> job, view |-> view, fresh |-> TRUE]
  <1>3. CacheMax \in Nat \ {0} /\ Len(w) \in Nat /\ Len(w) =< CacheMax
    BY <1>2, PageAssumption DEF PageAssumption, From
  <1>4. /\ kept \in Seq(Entry) /\ Len(kept) < CacheMax /\ Distinct(kept)
        /\ \A i \in DOMAIN kept : kept[i].job # job /\ \E k \in DOMAIN cache : kept[i] = cache[k]
    <2>1. CASE Len(w) >= CacheMax
      <3>1. w # <<>>
        BY <1>3, <2>1
      <3>2. /\ Tail(w) \in Seq(Entry) /\ Len(Tail(w)) = Len(w) - 1
            /\ \A i \in 1..Len(w) - 1 : Tail(w)[i] = w[i + 1] /\ i + 1 \in DOMAIN w
        BY <1>2, <3>1 DEF From
      <3>3. \A i \in DOMAIN Tail(w) : i \in 1..Len(w) - 1
        BY <1>3, <3>2
      <3>4. Distinct(Tail(w))
        BY <1>2, <3>2, <3>3 DEF From, Distinct
      <3>5. \A i \in DOMAIN Tail(w) : Tail(w)[i].job # job /\ \E k \in DOMAIN cache : Tail(w)[i] = cache[k]
        BY <1>2, <3>2, <3>3 DEF From
      <3> QED BY <1>3, <2>1, <3>2, <3>4, <3>5
    <2>2. CASE ~(Len(w) >= CacheMax)
      BY <1>2, <1>3, <2>2 DEF From
    <2> QED BY <2>1, <2>2
  <1>5. PutStatus(job, view) = Append(kept, e)
    BY <1>1 DEF PutStatus
  <1>6. e \in Entry /\ e.job = job /\ e.view = view
    BY DEF Entry
  <1> HIDE DEF kept, e
  <1>7. PICK put : put = Append(kept, e)
    OBVIOUS
  <1>8. /\ put \in Seq(Entry) /\ Len(put) = Len(kept) + 1 /\ put[Len(kept) + 1] = e
        /\ \A i \in 1..Len(kept) : put[i] = kept[i] /\ i \in DOMAIN kept
        /\ \A i \in DOMAIN put : i \in 1..Len(kept) \/ i = Len(kept) + 1
        /\ Len(kept) \in Nat
    BY <1>4, <1>6, <1>7
  <1>9. Distinct(put)
    <2> SUFFICES ASSUME NEW i \in DOMAIN put, NEW k \in DOMAIN put, put[i].job = put[k].job
                 PROVE  i = k
      BY DEF Distinct
    <2>1. CASE i \in 1..Len(kept) /\ k \in 1..Len(kept)
      BY <1>4, <1>8, <2>1 DEF Distinct
    <2>2. CASE i = Len(kept) + 1 /\ k \in 1..Len(kept)
      BY <1>4, <1>6, <1>8, <2>2
    <2>3. CASE i \in 1..Len(kept) /\ k = Len(kept) + 1
      BY <1>4, <1>6, <1>8, <2>3
    <2> QED BY <1>8, <2>1, <2>2, <2>3
  <1>10. Len(put) =< CacheMax
    BY <1>3, <1>4, <1>8
  <1>11. \A i \in DOMAIN put : \/ put[i].job = job /\ put[i].view = view
                               \/ \E k \in DOMAIN cache : put[i] = cache[k]
    BY <1>4, <1>6, <1>8
  <1> QED BY <1>5, <1>7, <1>8, <1>9, <1>10, <1>11

-----------------------------------------------------------------------------
(* What the case page shows *)

\* The job was once seen with status s.
Seen(j, s) ==
    /\ jobs[j].status \in After(s)
    /\ s = "submitted" => jobs[j].deliverable # NoSa

ViewTrue(j, view) ==
    /\ view.status # "none" => Seen(j, view.status)
    /\ view.submit => j \in submits

SnapshotTrue(j, snapshot) == snapshot # "none" => jobs[j].status = snapshot

Claims(j, b) ==
    /\ b[2] = "done" => jobs[j].status # "open"
    /\ b[3] = "done" => \/ jobs[j].deliverable # NoSa
                        \/ jobs[j].status = "expired" /\ j \in submits
    /\ b[4] = "done" => jobs[j].status = "completed"
    /\ b[4] = "failed" => jobs[j].status \in {"rejected", "expired"}

ShownTrue(s) == s \in Shown /\ (s.job # 0 => s.job \in DOMAIN jobs /\ Claims(s.job, s.beats))

ReadTrue(r) ==
    /\ r \in Read /\ r.job \in DOMAIN jobs /\ SnapshotTrue(r.job, r.snapshot)
    /\ r.status # "none" => Seen(r.job, r.status)

EntryTrue(e) == e \in Entry /\ e.job \in DOMAIN jobs /\ ViewTrue(e.job, e.view)

PageTrue ==
    /\ ShownTrue(shown)
    /\ \A r \in reads : ReadTrue(r)
    /\ \A i \in DOMAIN cache : EntryTrue(cache[i])

LEMMA StatusOf ==
  ASSUME jobs \in Seq(Job), NEW j \in DOMAIN jobs
  PROVE  jobs[j].status \in JobState
  <1>1. jobs[j] \in Job
    OBVIOUS
  <1> QED BY <1>1 DEF Job

LEMMA AfterAfter ==
  ASSUME NEW s \in JobState, NEW t \in After(s)
  PROVE  t \in JobState /\ After(t) \subseteq After(s)
  BY DEF After, JobState, JobTerminal

\* What was true of a job stays true.
LEMMA StaysTrue ==
  ASSUME Types, Grows, submits \subseteq submits', NEW j \in DOMAIN jobs
  PROVE  /\ \A s \in JobState : Seen(j, s) => Seen(j, s)'
         /\ \A view \in JobView : ViewTrue(j, view) => ViewTrue(j, view)'
         /\ \A s \in Snapshot : SnapshotTrue(j, s) => SnapshotTrue(j, s)'
         /\ \A b : Claims(j, b) => Claims(j, b)'
  <1>1. jobs[j].status \in JobState /\ jobs'[j].status \in After(jobs[j].status)
        /\ (jobs[j].deliverable # NoSa => jobs'[j].deliverable # NoSa)
    BY StatusOf DEF Types, ChainTypes, Grows, Evolves
  <1>2. \A s \in JobState : Seen(j, s) => Seen(j, s)'
    BY <1>1, AfterAfter DEF Seen
  <1>3. \A view \in JobView : ViewTrue(j, view) => ViewTrue(j, view)'
    BY <1>2 DEF ViewTrue, JobView
  <1>4. \A s \in Snapshot : SnapshotTrue(j, s) => SnapshotTrue(j, s)'
    BY <1>1 DEF SnapshotTrue, Snapshot, Succeeded, After
  <1>5. \A b : Claims(j, b) => Claims(j, b)'
    BY <1>1 DEF Claims, After, JobState, JobTerminal
  <1> QED BY <1>2, <1>3, <1>4, <1>5

LEMMA BeatsAre ==
  /\ \A s \in JobState : BEATS_BY_CHAIN_STATE[s] \in [1..4 -> Beat]
  /\ \A s \in JobState : BEATS_BY_CHAIN_STATE[s][2] = "done" => s # "open"
  /\ \A s \in JobState : BEATS_BY_CHAIN_STATE[s][3] = "done" => s \in {"submitted", "completed"}
  /\ \A s \in JobState : BEATS_BY_CHAIN_STATE[s][3] = "unknown" <=> s \in {"rejected", "expired"}
  /\ \A s \in JobState : BEATS_BY_CHAIN_STATE[s][4] = "done" => s = "completed"
  /\ \A s \in JobState : BEATS_BY_CHAIN_STATE[s][4] = "failed" => s \in {"rejected", "expired"}
  BY DEF BEATS_BY_CHAIN_STATE, JobState, Beat

LEMMA TimelineTyped ==
  ASSUME NEW view \in JobView, NEW snapshot \in Snapshot
  PROVE  Timeline(view, snapshot) \in [1..4 -> Beat]
  BY BeatsAre DEF Timeline, FromRecord, Beat, JobView, Snapshot, Succeeded

LEMMA TimelineTrue ==
  ASSUME Types, Escrows, NEW j \in DOMAIN jobs, NEW view \in JobView, NEW snapshot \in Snapshot,
         ViewTrue(j, view), SnapshotTrue(j, snapshot)
  PROVE  Claims(j, Timeline(view, snapshot))
  <1>1. Delivered(jobs[j]) /\ jobs[j].status \in JobState
    BY StatusOf DEF Escrows, Types, ChainTypes
  <1>2. CASE view.status = "none"
    <2>1. Timeline(view, snapshot) = FromRecord(snapshot)
      BY <1>2 DEF Timeline
    <2>2. CASE snapshot = "none"
      BY <2>1, <2>2 DEF FromRecord, Claims
    <2>3. CASE snapshot # "none"
      <3>1. jobs[j].status = snapshot /\ snapshot \in {"completed", "rejected"}
        BY <2>3 DEF SnapshotTrue, Snapshot, Succeeded
      <3>2. jobs[j].deliverable # NoSa
        BY <1>1, <3>1 DEF Delivered
      <3> QED BY <2>1, <3>1, <3>2 DEF FromRecord, Claims
    <2> QED BY <2>2, <2>3
  <1>3. CASE view.status # "none"
    <2>1. PICK s : s = view.status
      OBVIOUS
    <2>2. s \in JobState /\ Seen(j, s)
      BY <1>3, <2>1 DEF JobView, ViewTrue
    <2>3. PICK beats \in [1..4 -> Beat] : beats = BEATS_BY_CHAIN_STATE[s]
      BY <2>2, BeatsAre
    <2>4. PICK b : b = Timeline(view, snapshot)
      OBVIOUS
    <2>5. /\ b[2] = beats[2] /\ b[4] = beats[4]
          /\ b[3] = "done" => \/ beats[3] = "done"
                              \/ beats[3] = "unknown" /\ (view.submit \/ snapshot # "none")
      BY <1>3, <2>1, <2>3, <2>4 DEF Timeline
    <2>6. b[2] = "done" => jobs[j].status # "open"
      BY <2>2, <2>3, <2>5, BeatsAre DEF Seen, After, JobState, JobTerminal
    <2>7. b[4] = "done" => jobs[j].status = "completed"
      BY <2>2, <2>3, <2>5, BeatsAre DEF Seen, After
    <2>8. b[4] = "failed" => jobs[j].status \in {"rejected", "expired"}
      BY <2>2, <2>3, <2>5, BeatsAre DEF Seen, After
    <2>9. beats[3] = "done" => jobs[j].deliverable # NoSa
      BY <1>1, <2>2, <2>3, BeatsAre DEF Seen, After, Delivered
    <2>10. beats[3] = "unknown" /\ (view.submit \/ snapshot # "none") =>
              \/ jobs[j].deliverable # NoSa
              \/ jobs[j].status = "expired" /\ j \in submits
      <3>1. beats[3] = "unknown" => s \in {"rejected", "expired"} /\ jobs[j].status = s
        BY <2>2, <2>3, BeatsAre DEF Seen, After
      <3>2. s = "expired" => snapshot = "none" \/ jobs[j].status # s
        BY DEF SnapshotTrue, Snapshot, Succeeded
      <3>3. view.submit => j \in submits
        BY DEF ViewTrue
      <3> QED BY <1>1, <3>1, <3>2, <3>3 DEF Delivered
    <2> QED BY <2>4, <2>5, <2>6, <2>7, <2>8, <2>9, <2>10 DEF Claims
  <1> QED BY <1>2, <1>3

LEMMA PageStaysTrue ==
  ASSUME Types, Grows, submits \subseteq submits'
  PROVE  /\ \A s : ShownTrue(s) => ShownTrue(s)'
         /\ \A r : ReadTrue(r) => ReadTrue(r)'
         /\ \A e : EntryTrue(e) => EntryTrue(e)'
  <1>1. DOMAIN jobs \subseteq DOMAIN jobs'
    BY DEF Grows
  <1>2. \A s : ShownTrue(s) => ShownTrue(s)'
    BY <1>1, StaysTrue DEF ShownTrue
  <1>3. \A r : ReadTrue(r) => ReadTrue(r)'
    BY <1>1, StaysTrue DEF ReadTrue, Read
  <1>4. \A e : EntryTrue(e) => EntryTrue(e)'
    BY <1>1, StaysTrue DEF EntryTrue, Entry
  <1> QED BY <1>2, <1>3, <1>4

\* The flow moves, or nothing happens on the page.
PageMoves ==
    /\ UNCHANGED <<reads, cache>> /\ shown' \in {shown, NothingShown}
    /\ loads' = loads \/ (page' \in Visit /\ loads' = loads \cup {page'})
    /\ views' \in 0..MaxViews

LEMMA NothingIsTrue == ShownTrue(NothingShown)
  BY DEF ShownTrue, NothingShown, Shown, Beat

LEMMA PageMovesTrue ==
  ASSUME Types, PageTrue, Grows, submits \subseteq submits', PageMoves
  PROVE  PageTypes' /\ PageTrue'
  <1>1. PageTrue'
    BY PageStaysTrue, NothingIsTrue DEF PageTrue, PageMoves
  <1>2. PageTypes'
    BY <1>1, PageAssumption DEF PageAssumption, PageTrue, ShownTrue, ReadTrue, EntryTrue, PageMoves, Types, PageTypes
  <1> QED BY <1>1, <1>2

LEMMA PaintTrue ==
  ASSUME Types, Escrows, PageTrue, UNCHANGED <<jobs, submits>>, NEW r \in reads,
         NEW view \in JobView, ViewTrue(r.job, view), Paint(r, view)
  PROVE  ShownTrue(shown)' /\ reads' \subseteq reads
  <1>1. ReadTrue(r) /\ ShownTrue(shown)
    BY DEF PageTrue
  <1>2. Claims(r.job, Timeline(view, r.snapshot)) /\ Timeline(view, r.snapshot) \in [1..4 -> Beat]
    BY <1>1, TimelineTrue, TimelineTyped DEF ReadTrue, Read
  <1>3. ShownTrue([job |-> r.job, beats |-> Timeline(view, r.snapshot)])
    BY <1>1, <1>2 DEF ShownTrue, Shown, ReadTrue, Read
  <1>4. \A s : ShownTrue(s) => ShownTrue(s)'
    BY StaysPut, PageStaysTrue DEF Types, ChainTypes
  <1> QED BY <1>1, <1>3, <1>4 DEF Paint

\* A view the demo API keeps loses its freshness and nothing else.
LEMMA AgedEntry ==
    ASSUME NEW x \in Entry
    PROVE LET e == [x EXCEPT !.fresh = FALSE]
          IN e \in Entry /\ e.job = x.job /\ e.view = x.view
  BY DEF Entry

\* Whatever the chain, the flows and the runs do, and whenever a load or a read
\* ends, what the page shows and what the demo API keeps stay true of the chain.
LEMMA PageHolds ==
  ASSUME Types, Escrows, RunsTrue, PageTrue, [Next]_vars
  PROVE  PageTypes' /\ PageTrue'
  <1>1. Grows /\ submits \subseteq submits'
    BY ChainHolds, RunTypesStep
  <1>2. /\ \A s : ShownTrue(s) => ShownTrue(s)'
        /\ \A r : ReadTrue(r) => ReadTrue(r)'
        /\ \A e : EntryTrue(e) => EntryTrue(e)'
    BY <1>1, PageStaysTrue
  <1>3. views \in 0..MaxViews /\ MaxViews \in Nat
    BY PageAssumption DEF PageAssumption, Types, PageTypes
  \* Once the parts are true of the next state, so are the types.
  <1>4. ASSUME PageTrue', loads' \subseteq Visit, cache' \in Seq(Entry), Len(cache') =< CacheMax,
               Distinct(cache'), views' \in 0..MaxViews
        PROVE  PageTypes' /\ PageTrue'
    BY <1>4 DEF PageTypes, PageTrue, ShownTrue, ReadTrue, Distinct
  <1>5. /\ loads \subseteq Visit /\ cache \in Seq(Entry) /\ Len(cache) =< CacheMax /\ Distinct(cache)
    BY DEF Types, PageTypes, Distinct
  <1>6. /\ loads' = (IF page' \in Visit /\ page' # page THEN loads \cup {page'} ELSE loads)
        /\ shown' = (IF page' = page THEN shown ELSE NothingShown)
        /\ UNCHANGED <<reads, cache, views>>
        => PageMoves
    BY <1>3 DEF PageMoves
  <1>7. CASE PageMoves
    BY <1>1, <1>7, PageMovesTrue
  <1>8. CASE UNCHANGED vars
    BY <1>3, <1>7, <1>8 DEF vars, pageVars, PageMoves
  <1>9. ASSUME NEW v \in Visit, OpenCase(v)
        PROVE  PageMoves
    BY <1>3, <1>9 DEF OpenCase, PageMoves
  <1>10. ASSUME NEW v \in Visit, LoadCase(v)
         PROVE  PageTypes' /\ PageTrue'
    <2> DEFINE snapshot == IF runs[v].phase \in Succeeded THEN runs[v].phase ELSE "none"
               opened == [job |-> runs[v].job, snapshot |-> snapshot, status |-> "none"]
    <2>1. /\ snapshot \in Snapshot /\ (snapshot # "none" => runs[v].adopted)
          /\ (runs[v].adopted => runs[v].job \in DOMAIN jobs) /\ runs[v].job \in Nat
          /\ SnapshotTrue(runs[v].job, snapshot)
      BY DEF Types, RunTypes, Run, RunsTrue, SnapshotTrue, Snapshot
    <2>2. ShownTrue(shown')
      <3>1. NoView \in JobView /\ \A j : ViewTrue(j, NoView)
        BY DEF NoView, JobView, ViewTrue
      <3>2. Timeline(NoView, snapshot) \in [1..4 -> Beat]
        BY <2>1, <3>1, TimelineTyped
      <3>3. snapshot # "none" => Claims(runs[v].job, Timeline(NoView, snapshot))
        BY <2>1, <3>1, TimelineTrue
      <3>4. shown' = [job |-> IF snapshot = "none" THEN 0 ELSE runs[v].job,
                      beats |-> Timeline(NoView, snapshot)]
        BY <1>10 DEF LoadCase
      <3> HIDE DEF snapshot
      <3> QED BY <2>1, <3>2, <3>3, <3>4 DEF ShownTrue, Shown
    <2>3. reads' = reads \/ (runs[v].adopted /\ reads' = reads \cup {opened})
      BY <1>10 DEF LoadCase
    <2>4. runs[v].adopted => ReadTrue(opened)
      BY <2>1 DEF ReadTrue, Read
    <2> HIDE DEF opened, snapshot
    <2>5. \A r \in reads' : ReadTrue(r)
      BY <2>3, <2>4 DEF PageTrue
    <2>6. UNCHANGED <<cache, views>> /\ loads' \subseteq Visit
      BY <1>5, <1>10 DEF LoadCase
    <2>7. PageTrue'
      BY <1>2, <2>2, <2>5, <2>6 DEF PageTrue
    <2> QED BY <1>3, <1>4, <1>5, <2>6, <2>7
  <1>11. ASSUME NEW r \in reads, ServeCached(r) \/ ReadFails(r)
         PROVE  PageTypes' /\ PageTrue'
    <2>1. UNCHANGED <<jobs, submits, loads, cache, views>>
      BY <1>11 DEF ServeCached, ReadFails, chainVars, flowVars
    <2>2. PICK view \in JobView : ViewTrue(r.job, view) /\ Paint(r, view)
      <3>1. CASE ServeCached(r)
        <4>1. PICK i \in FreshEntries(r.job) : Paint(r, cache[i].view)
          BY <3>1 DEF ServeCached
        <4>2. i \in DOMAIN cache /\ cache[i].job = r.job /\ EntryTrue(cache[i])
          BY DEF FreshEntries, PageTrue
        <4> QED BY <4>1, <4>2 DEF EntryTrue, Entry
      <3>2. CASE ReadFails(r)
        BY <3>2 DEF ReadFails, NoView, JobView, ViewTrue
      <3> QED BY <1>11, <3>1, <3>2
    <2>3. ShownTrue(shown)' /\ reads' \subseteq reads
      BY <2>1, <2>2, PaintTrue
    <2>4. PageTrue'
      BY <1>2, <2>1, <2>3 DEF PageTrue
    <2> QED BY <1>3, <1>4, <1>5, <2>1, <2>4
  <1>12. ASSUME NEW r \in reads, ReadJob(r)
         PROVE  PageTypes' /\ PageTrue'
    <2>1. PICK s : s = jobs[r.job].status
      OBVIOUS
    <2>2. PICK n : n = [job |-> r.job, snapshot |-> r.snapshot, status |-> s]
      OBVIOUS
    <2>3. ReadTrue(r)
      BY DEF PageTrue
    <2>4. s \in JobState /\ Seen(r.job, s) /\ s # "none"
      <3>1. r.job \in DOMAIN jobs /\ Delivered(jobs[r.job])
        BY <2>3 DEF ReadTrue, Escrows
      <3>2. s \in JobState
        BY <2>1, <3>1, StatusOf DEF Types, ChainTypes
      <3> QED BY <2>1, <3>1, <3>2, Forward DEF Seen, Delivered, JobState
    <2>5. ReadTrue(n)
      BY <2>2, <2>3, <2>4 DEF ReadTrue, Read
    <2>6. [r EXCEPT !.status = s] = n
      BY <2>2, <2>3 DEF ReadTrue, Read
    <2>7. reads' = (reads \ {r}) \cup {n} /\ UNCHANGED <<loads, shown, cache, views>>
      BY <1>12, <2>1, <2>6 DEF ReadJob
    <2>8. PageTrue'
      BY <1>2, <2>5, <2>7 DEF PageTrue
    <2> QED BY <1>3, <1>4, <1>5, <2>7, <2>8
  <1>13. ASSUME NEW r \in reads, ReadTxLog(r)
         PROVE  PageTypes' /\ PageTrue'
    <2>1. PICK view : view = [status |-> r.status, submit |-> r.job \in submits]
      OBVIOUS
    <2>2. /\ cache' = PutStatus(r.job, view) /\ Paint(r, view)
          /\ UNCHANGED <<jobs, submits, loads, views>>
      BY <1>13, <2>1 DEF ReadTxLog, chainVars, flowVars
    <2>3. ReadTrue(r)
      BY DEF PageTrue
    <2>4. view \in JobView /\ ViewTrue(r.job, view) /\ r.job \in Nat /\ r.job \in DOMAIN jobs
      <3>1. r \in Read
        BY <2>3 DEF ReadTrue
      <3>2. r.status \in JobState \cup {"none"} /\ r.job \in Nat
        BY <3>1 DEF Read
      <3>3. view \in JobView
        BY <2>1, <3>2 DEF JobView
      <3>4. view.status = r.status /\ (view.submit <=> r.job \in submits)
        BY <2>1
      <3> QED BY <2>3, <3>2, <3>3, <3>4 DEF ReadTrue, ViewTrue
    <2>5. ShownTrue(shown)' /\ reads' \subseteq reads
      BY <2>2, <2>4, PaintTrue
    <2>6. /\ cache' \in Seq(Entry) /\ Len(cache') =< CacheMax /\ Distinct(cache')
          /\ \A i \in DOMAIN cache' : \/ cache'[i].job = r.job /\ cache'[i].view = view
                                      \/ \E k \in DOMAIN cache : cache'[i] = cache[k]
      BY <1>5, <2>2, <2>4, PutStatusDoes
    <2>7. ASSUME NEW i \in DOMAIN cache' PROVE EntryTrue(cache'[i])
      <3>1. cache'[i] \in Entry
        BY <2>6
      <3> QED BY <2>4, <2>6, <3>1 DEF EntryTrue, PageTrue
    <2>8. PageTrue'
      BY <1>2, <2>5, <2>7 DEF PageTrue
    <2> QED BY <1>3, <1>4, <1>5, <2>2, <2>6, <2>8
  <1>14. CASE CacheAges
    <2>1. PICK i \in DOMAIN cache : cache' = [cache EXCEPT ![i].fresh = FALSE]
      BY <1>14 DEF CacheAges
    <2>2. PICK e : e = [cache[i] EXCEPT !.fresh = FALSE]
      OBVIOUS
    <2>3. cache[i] \in Entry
      BY <1>5
    <2>4. e \in Entry /\ e.job = cache[i].job /\ e.view = cache[i].view
      BY <2>2, <2>3, AgedEntry
    <2>5. cache' = [cache EXCEPT ![i] = e]
      BY <2>1, <2>2
    <2>6. /\ cache' \in Seq(Entry) /\ Len(cache') = Len(cache) /\ DOMAIN cache' = DOMAIN cache
          /\ cache'[i] = e /\ \A k \in DOMAIN cache : k # i => cache'[k] = cache[k]
      BY <1>5, <2>4, <2>5
    <2>7. \A k \in DOMAIN cache : cache'[k].job = cache[k].job
      BY <2>4, <2>6
    <2>8. Distinct(cache')
      BY <1>5, <2>6, <2>7 DEF Distinct
    <2>9. \A k \in DOMAIN cache' : EntryTrue(cache'[k])
      <3>1. ASSUME NEW k \in DOMAIN cache' PROVE EntryTrue(cache'[k])
        <4>1. cache'[k].job = cache[k].job /\ cache'[k].view = cache[k].view /\ EntryTrue(cache[k])
          BY <2>4, <2>6 DEF PageTrue
        <4>2. cache'[k] \in Entry
          BY <2>6
        <4> QED BY <4>1, <4>2 DEF EntryTrue
      <3> QED BY <3>1
    <2>10. UNCHANGED <<loads, reads, shown, views>>
      BY <1>14 DEF CacheAges
    <2>11. PageTrue'
      BY <1>2, <2>9, <2>10 DEF PageTrue
    <2> QED BY <1>3, <1>4, <1>5, <2>6, <2>8, <2>10, <2>11
  <1> QED BY <1>6, <1>7, <1>8, <1>9, <1>10, <1>11, <1>12, <1>13, <1>14 DEF Next, FlowMoves

-----------------------------------------------------------------------------
(* The two unconditional theorems *)

Base == Types /\ Escrows /\ RunsTrue /\ PageTrue

LEMMA PageInitBase ==
  ASSUME PageInit
  PROVE  Base
  <1> USE WalletAssumption DEF WalletAssumption, PageInit, FlowInit, EscrowInit
  <1>1. jobs = <<>> /\ txs = <<>> /\ allowance = 0
    OBVIOUS
  <1>2. ChainTypes /\ Escrows /\ RunsTrue
    <2>1. ChainTypes
      BY <1>1 DEF ChainTypes
    <2>2. Escrows
      BY <1>1 DEF Escrows
    <2>3. RunsTrue
      BY DEF RunsTrue, Succeeded
    <2> QED BY <2>1, <2>2, <2>3
  <1>3. FlowTypes
    <2>1. steps \in [StepIds -> StepStatus]
      BY TheSteps DEF StepStatus
    <2>2. deal \in Deal /\ visits \in 0..MaxVisits /\ page \in 0..Landing /\ page # NewPage
      BY DEF Deal, Landing, NewPage
    <2>3. flows \in [Flows -> Flow] /\ \A f \in Flows : flows[f].at = 0
      BY IdleIsFlow DEF Idle
    <2>4. jobId \in 0..Len(jobs)
      <3>1. jobId = 0 /\ Len(jobs) = 0
        BY <1>1
      <3> QED BY <3>1
    <2>5. forms \in 0..MaxForms /\ faults \in 0..MaxFaults
      OBVIOUS
    <2>6. go = FALSE /\ retry = FALSE /\ overlapped = FALSE /\ disturbed = FALSE
      OBVIOUS
    <2> QED BY <2>1, <2>2, <2>3, <2>4, <2>5, <2>6 DEF FlowTypes
  <1>4. Awaits /\ LogTypes
    BY DEF Awaits, Idle, LogTypes
  <1>5. RunTypes
    BY DEF RunTypes, Run, Deal, UnderWay, Succeeded
  <1>6. PageTypes /\ PageTrue
    <2>1. shown \in Shown /\ shown.job = 0
      BY DEF NothingShown, Shown, Beat
    <2>2. cache \in Seq(Entry) /\ Len(cache) <= CacheMax /\ views \in 0..MaxViews
          /\ DOMAIN cache = {}
      BY PageAssumption DEF PageAssumption
    <2>3. PageTypes
      BY <2>1, <2>2 DEF PageTypes
    <2>4. PageTrue
      BY <2>1, <2>2 DEF PageTrue, ShownTrue
    <2> QED BY <2>3, <2>4
  <1> QED BY <1>2, <1>3, <1>4, <1>5, <1>6 DEF Base, Types

LEMMA BaseStep ==
  ASSUME Base, [Next]_vars
  PROVE  Base'
  BY ChainHolds, FlowTypesStep, RunTypesStep, LogStep, PageHolds DEF Base, Types

LEMMA AlwaysBase == Spec => []Base
  <1>1. PageInit => Base
    BY PageInitBase
  <1>2. Base /\ [Next]_vars => Base'
    BY BaseStep
  <1> QED BY <1>1, <1>2, PTL DEF Spec

\* Every variable keeps its shape, and the demo API never holds more than
\* CacheMax views nor two views of one job (demo-api.ts:282).
THEOREM AlwaysWalletTypeOK == Spec => []WalletTypeOK
  <1>1. Base => WalletTypeOK
    BY TheSteps DEF Base, Types, ChainTypes, FlowTypes, RunTypes, LogTypes, PageTypes, WalletTypeOK
  <1> QED BY <1>1, AlwaysBase, PTL

\* A beat the case page paints "done" or "failed" has happened to the job its
\* card names, with any number of flows, loads and reads in any order (app.js:189).
THEOREM AlwaysShownIsTrue == Spec => []ShownIsTrue
  <1>1. Base => ShownIsTrue
    BY DEF Base, PageTrue, ShownTrue, SnapshotTrue, Claims, ShownIsTrue
  <1> QED BY <1>1, AlwaysBase, PTL

-----------------------------------------------------------------------------
(* One flow at a time *)

\* While flows do not overlap: the flow under way, if there is one, works on the
\* page's visit, job and deal, and its step is the running one.
Alone ==
    /\ \A f, g \in Active : f = g
    /\ go \/ retry => Active = {}
    /\ retry => deal.id = visits
    /\ \A f \in Active :
          /\ flows[f].visit = visits /\ flows[f].job = jobId
          /\ flows[f].deal = deal /\ deal.id = visits
          /\ steps[flows[f].at] = "running"

\* Steps are done in order.
Ordered == \A k, l \in StepIds : k < l /\ steps[l] # "pending" => steps[k] = "done"

\* A flow that waits for a run waits for the run of its job.
Held ==
    \A f \in Flows : flows[f].at = 6 /\ flows[f].phase = "wait" =>
        runs[flows[f].deal.id].job = flows[f].job

DoneTrue ==
    /\ steps[2] = "done" => jobId \in DOMAIN jobs
    /\ steps[3] = "done" => Proposed(jobId)
    /\ steps[5] = "done" => jobs[jobId].status # "open"
    /\ steps[6] = "done" => \E v \in Visit : runs[v].job = jobId /\ runs[v].phase \in Succeeded

\* The job of a visit is no other visit's: it was made in this one, and a job
\* just made is nobody's.
Fresh ==
    /\ steps[2] = "done" =>
          \A v \in Visit : runs[v].adopted /\ runs[v].job = jobId => v = visits
    /\ \A f \in Flows :
          flows[f].at = 2 /\ flows[f].phase = "wait" /\ txs[flows[f].tx].status = "success" =>
              \A v \in Visit : runs[v].adopted => runs[v].job # txs[flows[f].tx].made
    /\ \A v, w \in Visit :
          runs[v].adopted /\ runs[w].adopted /\ runs[v].job = runs[w].job => v = w

\* The jobs that are funded or may still be: those a fund was sent for, and
\* the one whose fund is still to come.
Funding == {txs[x].on : x \in {x \in DOMAIN txs : txs[x].act = "fund"}}
Committed == Funding \cup (IF steps[2] = "done" THEN {jobId} ELSE {})
Spare ==
    /\ IsFiniteSet(Committed) /\ Cardinality(Committed) =< visits
    /\ steps[2] # "done" /\ visits > 0 => Cardinality(Committed) < visits

Solo == ~overlapped => Alone /\ Ordered /\ Held /\ DoneTrue /\ Fresh /\ Spare

\* What a step does to the steps, to the visit and to a flow that waits.
Moves ==
    /\ \A l \in StepIds : steps'[l] = "done" =>
          /\ visits' = visits
          /\ \/ steps[l] = "done" /\ (l > 1 => jobId' = jobId)
             \/ \E f \in Flows : flows[f].at = l /\ Ends(f)
    /\ \A f \in Flows : flows'[f].at # 0 /\ flows'[f].phase = "wait" =>
          flows'[f] = flows[f] \/ Sign(f) \/ SetBudget(f) \/ Adopts(f)
    /\ visits' = visits /\ steps'[2] # "done" => steps[2] # "done"
    /\ visits' # visits => visits' = visits + 1 /\ steps'[2] # "done"

\* The flow under way goes on to n, or ends: nobody else is under way.
LEMMA AloneWith ==
  ASSUME flows \in [Flows -> Flow], NEW f \in Flows, NEW n \in Flow,
         flows' = [flows EXCEPT ![f] = n], \A g \in Flows : flows[g].at # 0 => g = f,
         n.at # 0 => /\ n.visit = visits' /\ n.job = jobId' /\ n.deal = deal'
                     /\ deal'.id = visits' /\ steps'[n.at] = "running" /\ ~go' /\ ~retry',
         retry' => deal'.id = visits'
  PROVE  /\ Alone' /\ flows'[f] = n
         /\ \A g \in Flows : flows'[g].at # 0 => g = f
  <1>1. flows'[f] = n /\ \A g \in Flows : g # f => flows'[g] = flows[g]
    OBVIOUS
  <1>2. \A g \in Flows : flows'[g].at # 0 => g = f
    BY <1>1
  <1>3. \A g \in Active' : g = f /\ flows'[g] = n /\ n.at # 0
    BY <1>1, <1>2 DEF Active
  <1>4. Active' # {} => n.at # 0
    BY <1>3
  <1> QED BY <1>1, <1>2, <1>3, <1>4 DEF Alone

LEMMA NobodyElse ==
  ASSUME Alone, NEW f \in Flows, flows[f].at # 0
  PROVE  /\ \A g \in Flows : flows[g].at # 0 => g = f
         /\ ~go /\ ~retry
         /\ flows[f].visit = visits /\ flows[f].job = jobId
         /\ flows[f].deal = deal /\ deal.id = visits /\ steps[flows[f].at] = "running"
  BY DEF Alone, Active

LEMMA UnderwayFlow ==
  ASSUME Types, NEW f \in Flows, flows[f].at # 0
  PROVE  /\ flows[f].at \in StepIds /\ flows[f].deal.id \in Visit /\ flows[f].job \in Nat
         /\ flows[f].visit \in 0..MaxVisits /\ flows[f].visit > 0
  <1>1. flows[f] \in Flow /\ flows[f].deal # NoDeal /\ flows[f].visit > 0
    BY DEF Types, FlowTypes
  <1>2. flows[f].at \in StepIds /\ flows[f].deal \in Deal /\ flows[f].job \in Nat
        /\ flows[f].visit \in 0..MaxVisits
    BY <1>1, TheSteps DEF Flow, StepIds
  <1> QED BY <1>1, <1>2 DEF Deal

LEMMA AloneFails ==
  ASSUME Types, Alone, Ordered, NEW f \in Flows, Fails(f)
  PROVE  Alone' /\ Ordered' /\ Moves
  <1> USE DEF Types, FlowTypes
  <1>1. PICK k : k = flows[f].at
    OBVIOUS
  <1>2. k \in 1..6 /\ k \in StepIds /\ k # 0
    BY <1>1, TheSteps DEF Fails, Flow, StepIds
  <1>3. /\ \A g \in Flows : flows[g].at # 0 => g = f
        /\ deal.id = visits /\ steps[k] = "running"
    BY <1>1, <1>2, NobodyElse
  <1>4. /\ Idle \in Flow /\ Idle.at = 0 /\ flows' = [flows EXCEPT ![f] = Idle]
        /\ steps' = [steps EXCEPT ![k] = "error"]
        /\ UNCHANGED <<page, visits, deal, forms, jobId>>
    BY <1>1, FailsDoes, IdleIsFlow DEF Goes, Idle
  <1>5. Alone' /\ flows'[f] = Idle /\ \A g \in Flows : flows'[g].at # 0 => g = f
    BY <1>3, <1>4, AloneWith
  <1>6. steps'[k] = "error" /\ \A l \in StepIds : l # k => steps'[l] = steps[l]
    BY <1>2, <1>4
  <1>7. Ordered'
    BY <1>2, <1>3, <1>6 DEF Ordered, StepIds
  <1>8. Moves
    BY <1>2, <1>3, <1>4, <1>5, <1>6 DEF Moves, StepIds
  <1> QED BY <1>5, <1>7, <1>8

LEMMA AloneEnds ==
  ASSUME Types, Alone, Ordered, NEW f \in Flows, Ends(f), jobId' \in Nat
  PROVE  Alone' /\ Ordered' /\ Moves
  <1> USE DEF Types, FlowTypes
  <1>1. PICK k : k = flows[f].at
    OBVIOUS
  <1>2. k \in 1..6 /\ k \in StepIds /\ k # 0
    BY <1>1, TheSteps DEF Ends, Flow, StepIds
  <1>3. /\ \A g \in Flows : flows[g].at # 0 => g = f
        /\ ~go /\ ~retry /\ flows[f].visit = visits
        /\ deal.id = visits /\ steps[k] = "running"
    BY <1>1, <1>2, NobodyElse
  <1>4. PICK j \in Nat : j = jobId'
    OBVIOUS
  <1>5. StepDone(f, j) /\ UNCHANGED <<visits, deal, forms>> /\ (k # 2 => jobId' = jobId)
    BY <1>1, <1>4 DEF Ends, Earned
  <1>6. \A l \in k + 1..6 : steps[l] = "pending"
    BY <1>2, <1>3 DEF Ordered, StepIds
  <1>7. \A l \in 1..k - 1 : steps[l] = "done"
    BY <1>2, <1>3, SMTT(30) DEF Ordered, StepIds
  <1>8. UNCHANGED <<go, retry>>
    BY <1>1, <1>2, <1>5, StepDoneDoes
  <1>9. CASE /\ steps' = [steps EXCEPT ![k] = "done"]
             /\ flows' = [flows EXCEPT ![f] = Idle]
    <2>1. Alone' /\ flows'[f] = Idle /\ \A g \in Flows : flows'[g].at # 0 => g = f
      BY <1>3, <1>5, <1>8, <1>9, AloneWith, IdleIsFlow DEF Idle
    <2>2. steps'[k] = "done" /\ \A l \in StepIds : l # k => steps'[l] = steps[l]
      BY <1>2, <1>9
    <2>3. Ordered'
      <3>1. \A l \in StepIds : /\ l > k => steps'[l] = "pending"
                               /\ l =< k => steps'[l] = "done"
        BY <1>2, <1>6, <1>7, <2>2 DEF StepIds
      <3> QED BY <1>2, <3>1, SMTT(30) DEF Ordered, StepIds
    <2>4. \A g \in Flows : flows'[g].at # 0 => FALSE
      BY <2>1 DEF Idle
    <2>5. \A l \in StepIds : steps'[l] = "done" => l = k \/ (steps[l] = "done" /\ l < k)
      BY <1>2, <1>6, <2>2 DEF StepIds
    <2>6. \A l \in StepIds : l > 1 /\ l < k => jobId' = jobId
      BY <1>2, <1>5 DEF StepIds
    <2>7. Moves
      BY <1>1, <1>2, <1>3, <1>5, <2>2, <2>4, <2>5, <2>6 DEF Moves, StepIds
    <2> QED BY <2>1, <2>3, <2>7
  <1>10. ASSUME NEW m \in k + 1..6, \A i \in k + 1..m - 1 : steps[i] = "done",
                steps' = [steps EXCEPT ![k] = "done", ![m] = "running"],
                flows' = [flows EXCEPT ![f] = Starts(m, flows[f].visit, j, deal)]
         PROVE  Alone' /\ Ordered' /\ Moves
    <2>1. m = k + 1
      BY <1>2, <1>6, <1>10, SMTT(30)
    <2>2. m \in StepIds /\ m \in 1..6 /\ m # k
      BY <1>2, <2>1 DEF StepIds
    <2>3. /\ steps'[k] = "done" /\ steps'[m] = "running"
          /\ \A l \in StepIds : l # k /\ l # m => steps'[l] = steps[l]
      BY <1>2, <1>10, <2>2
    <2> DEFINE n == Starts(m, flows[f].visit, j, deal)
    <2>4. n \in Flow /\ n.at = m /\ n.visit = visits /\ n.job = j /\ n.deal = deal /\ n.phase = "ask"
      <3>1. visits \in 0..MaxVisits /\ deal \in Deal
        OBVIOUS
      <3> QED BY <1>3, <2>2, <3>1, StartsIsFlow DEF Starts
    <2>5. flows' = [flows EXCEPT ![f] = n]
      BY <1>10
    <2> HIDE DEF n
    <2>6. Alone' /\ flows'[f] = n /\ \A g \in Flows : flows'[g].at # 0 => g = f
      BY <1>3, <1>4, <1>5, <1>8, <2>3, <2>4, <2>5, AloneWith
    <2>7. Ordered'
      BY <1>2, <1>6, <1>7, <2>1, <2>3, SMTT(30) DEF Ordered, StepIds
    <2>8. \A l \in StepIds : steps'[l] = "done" => l = k \/ (steps[l] = "done" /\ l < k)
      BY <1>2, <1>6, <2>1, <2>3, SMTT(30) DEF StepIds
    <2>9. \A l \in StepIds : l > 1 /\ l < k => jobId' = jobId
      BY <1>2, <1>5 DEF StepIds
    <2>10. \A g \in Flows : flows'[g].at # 0 => flows'[g].phase # "wait"
      BY <2>4, <2>6
    <2>11. steps'[2] # "done" => steps[2] # "done"
      <3>1. 2 \in StepIds
        BY DEF StepIds
      <3>2. CASE m = 2
        BY <1>6, <2>1, <3>2
      <3> QED BY <2>3, <3>1, <3>2
    <2>12. Moves
      <3>1. ASSUME NEW l \in StepIds, steps'[l] = "done"
            PROVE  \/ steps[l] = "done" /\ (l > 1 => jobId' = jobId)
                   \/ \E g \in Flows : flows[g].at = l /\ Ends(g)
        BY <1>1, <2>8, <2>9, <3>1
      <3> QED BY <1>5, <2>10, <2>11, <3>1 DEF Moves
    <2> QED BY <2>6, <2>7, <2>12
  <1>11. \/ /\ steps' = [steps EXCEPT ![k] = "done"]
            /\ flows' = [flows EXCEPT ![f] = Idle]
         \/ \E m \in k + 1..6 :
             /\ \A i \in k + 1..m - 1 : steps[i] = "done"
             /\ steps' = [steps EXCEPT ![k] = "done", ![m] = "running"]
             /\ flows' = [flows EXCEPT ![f] = Starts(m, flows[f].visit, j, deal)]
    <2>1. flows[f].at # 0
      BY <1>1, <1>2
    <2> QED BY <1>1, <1>5, <2>1, StepDoneDoes
  <1> QED BY <1>9, <1>10, <1>11

LEMMA AlonePresses ==
  ASSUME Types, Alone, Ordered, NEW f \in Flows, Presses(f), deal' \in Deal
  PROVE  Alone' /\ Ordered' /\ Moves
  <1> USE DEF Types, FlowTypes
  <1>1. /\ flows[f] = Idle /\ go' = FALSE /\ retry' = FALSE
        /\ UNCHANGED <<visits, jobId>> /\ Continue(f, 1, steps, jobId, deal', visits)
    BY DEF Presses
  <1>2. deal'.id = visits
    BY DEF Presses, Alone
  <1>3. \A g \in Flows : flows[g].at = 0
    BY DEF Presses, Alone, Active
  <1>4. PICK d \in Deal : d = deal'
    OBVIOUS
  <1>5. CASE steps' = steps /\ flows' = [flows EXCEPT ![f] = Idle]
    <2>1. flows' = flows
      BY <1>1, <1>5
    <2>2. Alone'
      BY <1>1, <1>2, <1>3, <2>1 DEF Alone, Active
    <2>3. Ordered' /\ Moves
      BY <1>1, <1>3, <1>5, <2>1 DEF Ordered, Moves
    <2> QED BY <2>2, <2>3
  <1>6. ASSUME NEW m \in 1..6, steps[m] # "done", \A i \in 1..m - 1 : steps[i] = "done",
               steps' = [steps EXCEPT ![m] = "running"],
               flows' = [flows EXCEPT ![f] = Starts(m, visits, jobId, d)]
        PROVE  Alone' /\ Ordered' /\ Moves
    <2> DEFINE n == Starts(m, visits, jobId, d)
    <2>1. n \in Flow /\ n.at = m /\ n.visit = visits /\ n.job = jobId /\ n.deal = d /\ n.phase = "ask"
      <3>1. jobId \in Nat /\ visits \in 0..MaxVisits
        BY DEF ChainTypes
      <3> QED BY <3>1, StartsIsFlow DEF Starts
    <2>2. flows' = [flows EXCEPT ![f] = n]
      BY <1>6
    <2> HIDE DEF n
    <2>3. m \in StepIds /\ steps'[m] = "running" /\ \A l \in StepIds : l # m => steps'[l] = steps[l]
      BY <1>6 DEF StepIds
    <2>4. Alone' /\ flows'[f] = n /\ \A g \in Flows : flows'[g].at # 0 => g = f
      BY <1>1, <1>2, <1>3, <1>4, <2>1, <2>2, <2>3, AloneWith
    <2>5. \A l \in StepIds : l > m => steps[l] = "pending"
      BY <1>6, <2>3 DEF Ordered, StepIds
    <2>6. Ordered'
      <3>1. \A l \in StepIds : /\ l > m => steps'[l] = "pending"
                               /\ l < m => steps'[l] = "done"
        BY <1>6, <2>3, <2>5 DEF StepIds
      <3> QED BY <2>3, <3>1 DEF Ordered, StepIds
    <2>7. \A l \in StepIds : steps'[l] = "done" => steps[l] = "done"
      BY <2>3
    <2>8. \A g \in Flows : flows'[g].at # 0 => flows'[g].phase # "wait"
      BY <2>1, <2>4
    <2>9. steps'[2] # "done" => steps[2] # "done"
      BY <1>6, <2>3 DEF StepIds
    <2>10. Moves
      BY <1>1, <2>7, <2>8, <2>9 DEF Moves
    <2> QED BY <2>4, <2>6, <2>10
  <1>7. Continue(f, 1, steps, jobId, d, visits)
    BY <1>1, <1>4
  <1>8. \/ steps' = steps /\ flows' = [flows EXCEPT ![f] = Idle]
        \/ \E m \in 1..6 :
            /\ steps[m] # "done" /\ \A i \in 1..m - 1 : steps[i] = "done"
            /\ steps' = [steps EXCEPT ![m] = "running"]
            /\ flows' = [flows EXCEPT ![f] = Starts(m, visits, jobId, d)]
    BY <1>7, ContinueDoes
  <1> QED BY <1>5, <1>6, <1>8

LEMMA AloneWaits ==
  ASSUME Types, Alone, Ordered, NEW f \in Flows, Sign(f) \/ SetBudget(f) \/ Adopts(f)
  PROVE  Alone' /\ Ordered' /\ Moves
  <1> USE DEF Types, FlowTypes
  <1>1. UNCHANGED <<visits, steps, jobId, deal, go, retry>>
    BY DEF Sign, SetBudget, Adopts
  <1>2. PICK n \in Flow : /\ flows' = [flows EXCEPT ![f] = n]
                          /\ n.at = flows[f].at /\ n.visit = flows[f].visit
                          /\ n.job = flows[f].job /\ n.deal = flows[f].deal
    <2>1. CASE Sign(f)
      BY <2>1, SignDoes DEF Signed
    <2>2. CASE SetBudget(f)
      BY <2>2, BudgetDoes DEF Admits
    <2>3. CASE Adopts(f)
      BY <2>3, AdoptsDoes DEF Admits
    <2> QED BY <2>1, <2>2, <2>3
  <1>3. flows[f].at # 0
    <2>1. flows[f].at \in {2, 3, 4, 5, 6}
      BY SignDoes, BudgetDoes, AdoptsDoes
    <2> QED BY <2>1
  <1>4. /\ \A g \in Flows : flows[g].at # 0 => g = f
        /\ ~go /\ ~retry
        /\ flows[f].visit = visits /\ flows[f].job = jobId
        /\ flows[f].deal = deal /\ deal.id = visits /\ steps[flows[f].at] = "running"
    BY <1>3, NobodyElse
  <1>5. Alone' /\ flows'[f] = n /\ \A g \in Flows : flows'[g].at # 0 => g = f
    BY <1>1, <1>2, <1>4, AloneWith
  <1>6. \A g \in Flows : flows'[g].at # 0 => g = f
    BY <1>5
  <1>7. Ordered' /\ Moves
    BY <1>1, <1>6 DEF Ordered, Moves
  <1> QED BY <1>5, <1>7

LEMMA AloneStep ==
  ASSUME Types, Types', Alone, Ordered, ~overlapped', FlowChange
  PROVE  Alone' /\ Ordered' /\ Moves
  <1>1. CASE Quiet
    <2>1. UNCHANGED <<visits, steps, jobId, deal, go, retry, flows>>
      BY <1>1 DEF Quiet
    <2> QED BY <2>1 DEF Alone, Active, Ordered, Moves
  <1>2. CASE RenderNew
    <2>1. Active = {} /\ UNCHANGED <<flows, deal, jobId>> /\ retry' = FALSE
          /\ steps' = ResetSteps /\ visits' = visits + 1
      BY <1>2 DEF RenderNew
    <2>2. Active' = {}
      BY <2>1 DEF Active
    <2>3. \A l \in StepIds : steps'[l] = "pending"
      BY <2>1, TheSteps DEF ResetSteps
    <2>4. \A f \in Flows : flows'[f].at = 0
      BY <2>2 DEF Active
    <2>5. visits' # visits /\ 2 \in StepIds
      BY <2>1 DEF Types, FlowTypes, StepIds
    <2>6. Moves
      BY <2>1, <2>3, <2>4, <2>5 DEF Moves
    <2> QED BY <2>1, <2>2, <2>3, <2>6 DEF Alone, Ordered
  <1>3. ASSUME NEW f \in Flows, Presses(f) PROVE Alone' /\ Ordered' /\ Moves
    BY <1>3, AlonePresses DEF Types, FlowTypes
  <1>4. ASSUME NEW f \in Flows, Ends(f) PROVE Alone' /\ Ordered' /\ Moves
    <2>1. jobId' \in Nat
      BY DEF Types, FlowTypes, ChainTypes
    <2> QED BY <1>4, <2>1, AloneEnds
  <1> QED BY <1>1, <1>2, <1>3, <1>4, AloneFails, AloneWaits DEF FlowChange

\* A row of case_runs: one that succeeded stays; its job is set by the flow that
\* posts the case, and a row that was adopted keeps its job.
RowStays(w) ==
    /\ runs[w].phase \in Succeeded => runs'[w] = runs[w]
    /\ runs'[w].adopted =>
          \/ runs[w].adopted /\ runs'[w].job = runs[w].job
          \/ \E f \in Flows : Adopts(f) /\ w = flows[f].deal.id /\ runs'[w].job = flows[f].job
    /\ runs'[w].job # runs[w].job => \E f \in Flows : flows[f].at = 6 /\ flows[f].phase = "ask"

LEMMA AdmittedRow ==
  ASSUME Types, NEW f \in Flows, NEW phase \in {"running", "failed"}, Admitted(f, phase),
         phase = "running" => Adopts(f), NEW w \in Visit
  PROVE  RowStays(w)
  <1> DEFINE row == Row(f, phase)
  <1>1. PICK v : v = flows[f].deal.id
    OBVIOUS
  <1>2. /\ v \in Visit /\ runs' = [runs EXCEPT ![v] = row]
        /\ row.job = flows[f].job /\ row.adopted = (runs[v].adopted \/ phase = "running")
        /\ runs[v].phase \in {"none", "failed"}
        /\ runs[v].adopted => runs[v].job = flows[f].job
    BY <1>1, AdmittedDoes, ZenonT(30) DEF Row
  <1> HIDE DEF row
  <1>3. runs'[v] = row /\ \A u \in Visit : u # v => runs'[u] = runs[u]
    BY <1>2 DEF Types, RunTypes
  <1>4. flows[f].at = 6 /\ flows[f].phase = "ask"
    BY AdmittedDoes DEF Admitted, Posted
  <1>5. CASE w = v
    <2>1. runs[v].phase \notin Succeeded
      BY <1>2 DEF Succeeded
    <2>2. runs'[v].adopted => (runs[v].adopted /\ runs'[v].job = runs[v].job)
                              \/ (Adopts(f) /\ runs'[v].job = flows[f].job)
      BY <1>2, <1>3
    <2> QED BY <1>1, <1>4, <1>5, <2>1, <2>2 DEF RowStays
  <1>6. CASE w # v
    <2>1. runs'[w] = runs[w]
      BY <1>3, <1>6
    <2> QED BY <2>1 DEF RowStays
  <1> QED BY <1>5, <1>6

LEMMA RowsStay ==
  ASSUME Types, RunChange, NEW w \in Visit
  PROVE  RowStays(w)
  <1>1. CASE UNCHANGED <<runs, submits>>
    BY <1>1 DEF RowStays
  <1>2. ASSUME NEW f \in Flows, Adopts(f) PROVE RowStays(w)
    BY <1>2, AdmittedRow DEF Adopts
  <1>3. ASSUME NEW f \in Flows, RefusesJob(f) PROVE RowStays(w)
    BY <1>3, AdmittedRow DEF RefusesJob
  <1>4. ASSUME NEW v \in Visit, RunGoes(v) PROVE RowStays(w)
    <2>1. PICK p \in UnderWay \cup Succeeded \cup {"failed"} :
             runs[v].phase \in UnderWay /\ runs' = [runs EXCEPT ![v].phase = p]
      BY <1>4 DEF RunGoes
    <2> DEFINE row == [runs[v] EXCEPT !.phase = p]
    <2>2. row.job = runs[v].job /\ row.adopted = runs[v].adopted
      BY RunPhase DEF Types, RunTypes
    <2>3. runs' = [runs EXCEPT ![v] = row]
      BY <2>1
    <2> HIDE DEF row
    <2>4. runs'[v] = row /\ (w # v => runs'[w] = runs[w])
      BY <2>3 DEF Types, RunTypes
    <2>5. runs[v].phase \notin Succeeded
      BY <2>1 DEF UnderWay, Succeeded
    <2> QED BY <2>2, <2>4, <2>5 DEF RowStays
  <1> QED BY <1>1, <1>2, <1>3, <1>4 DEF RunChange

LEMMA AdoptedRow ==
  ASSUME Types, NEW f \in Flows, Adopts(f)
  PROVE  /\ flows[f].deal.id \in Visit /\ runs'[flows[f].deal.id].job = flows[f].job
         /\ flows[f].at = 6
  <1>1. PICK v : v = flows[f].deal.id
    OBVIOUS
  <1>2. Admitted(f, "running")
    BY DEF Adopts
  <1>3. /\ v \in Visit /\ runs' = [runs EXCEPT ![v] = Row(f, "running")] /\ flows[f].at = 6
    BY <1>1, <1>2, AdmittedDoes
  <1>4. runs'[v] = Row(f, "running")
    BY <1>3 DEF Types, RunTypes
  <1> QED BY <1>1, <1>3, <1>4 DEF Row

LEMMA HeldStep ==
  ASSUME Types, Types', Alone, Held, RunChange, Moves, Alone'
  PROVE  Held'
  <1> SUFFICES ASSUME NEW f \in Flows, flows'[f].at = 6, flows'[f].phase = "wait"
               PROVE  runs'[flows'[f].deal.id].job = flows'[f].job
    BY DEF Held
  <1>1. flows'[f] = flows[f] \/ Sign(f) \/ SetBudget(f) \/ Adopts(f)
    BY DEF Moves
  <1>2. CASE Adopts(f)
    <2>1. flows'[f] = Admits(f)
      BY <1>2, AdoptsDoes DEF Types, FlowTypes
    <2> QED BY <1>2, <2>1, AdoptedRow DEF Admits
  <1>3. CASE Sign(f)
    <2>1. flows' = [flows EXCEPT ![f] = Signed(f)] /\ flows[f].at \in {2, 4, 5}
      BY <1>3, SignDoes
    <2>2. flows'[f] = Signed(f)
      BY <2>1 DEF Types, FlowTypes
    <2> QED BY <2>1, <2>2 DEF Signed
  <1>4. CASE flows'[f] = flows[f]
    <2>1. PICK v : v = flows[f].deal.id
      OBVIOUS
    <2>2. v \in Visit /\ runs[v].job = flows[f].job
      <3>1. flows[f].deal.id \in Visit
        BY <1>4, UnderwayFlow
      <3> QED BY <1>4, <2>1, <3>1 DEF Held
    <2>3. \A g \in Flows : flows[g].at # 0 => g = f
      BY <1>4, NobodyElse
    <2>4. ~ \E g \in Flows : flows[g].at = 6 /\ flows[g].phase = "ask"
      BY <1>4, <2>3
    <2>5. runs'[v].job = runs[v].job
      BY <2>2, <2>4, RowsStay DEF RowStays
    <2> QED BY <1>4, <2>1, <2>2, <2>5
  <1>5. CASE SetBudget(f)
    <2>1. flows' = [flows EXCEPT ![f] = Admits(f)] /\ flows[f].at = 3
      BY <1>5, BudgetDoes
    <2>2. flows'[f] = Admits(f)
      BY <2>1 DEF Types, FlowTypes
    <2> QED BY <2>1, <2>2 DEF Admits
  <1> QED BY <1>1, <1>2, <1>3, <1>4, <1>5

LEMMA DoneTrueStep ==
  ASSUME Types, Types', Escrows, Alone, Ordered, Held, DoneTrue, Grows, RunChange, Moves,
         proposals \subseteq proposals'
  PROVE  DoneTrue'
  <1>1. \A l \in StepIds : steps'[l] = "done" =>
               \/ steps[l] = "done" /\ (l > 1 => jobId' = jobId)
               \/ \E f \in Flows : flows[f].at = l /\ Ends(f)
    BY DEF Moves
  <1>2. 2 \in StepIds /\ 3 \in StepIds /\ 5 \in StepIds /\ 6 \in StepIds
    BY DEF StepIds
  <1>3. ASSUME NEW f \in Flows, flows[f].at # 0
        PROVE  /\ flows[f].job = jobId
               /\ flows[f].at > 2 => jobId \in DOMAIN jobs
    <2>1. flows[f].job = jobId /\ steps[flows[f].at] = "running" /\ flows[f].at \in StepIds
      BY <1>3, NobodyElse, UnderwayFlow
    <2>2. flows[f].at > 2 => steps[2] = "done"
      BY <1>2, <2>1 DEF Ordered, StepIds
    <2> QED BY <2>1, <2>2 DEF DoneTrue
  <1>4. ASSUME NEW j \in DOMAIN jobs
        PROVE  /\ j \in DOMAIN jobs'
               /\ jobs[j].status # "open" => jobs'[j].status # "open"
    <2>1. Evolves(jobs[j], jobs'[j]) /\ j \in DOMAIN jobs'
      BY DEF Grows
    <2>2. jobs[j].status \in JobState
      BY StatusOf DEF Types, ChainTypes
    <2> QED BY <2>1, <2>2 DEF Evolves, After, JobState, JobTerminal
  <1>5. \A l \in StepIds : l > 2 /\ steps[l] = "done" => jobId \in DOMAIN jobs
    BY <1>2 DEF Ordered, DoneTrue, StepIds
  <1>6. steps'[2] = "done" => jobId' \in DOMAIN jobs'
    <2>1. CASE steps[2] = "done" /\ jobId' = jobId
      BY <1>4, <2>1 DEF DoneTrue
    <2>2. ASSUME NEW f \in Flows, flows[f].at = 2, Ends(f) PROVE jobId' \in DOMAIN jobs'
      <3>1. PICK x : x = flows[f].tx
        OBVIOUS
      <3>2. flows[f].phase = "wait" /\ txs[x].status = "success" /\ jobId' = txs[x].made
        BY <2>2, <3>1 DEF Ends, Earned
      <3>3. x \in DOMAIN txs /\ txs[x].act = "createJob"
        BY <2>2, <3>1, <3>2, TheSteps DEF Awaits, Types
      <3>4. txs[x].made \in DOMAIN jobs
        BY <3>2, <3>3 DEF Types, ChainTypes
      <3> QED BY <1>4, <3>2, <3>4
    <2> QED BY <1>1, <1>2, <2>1, <2>2
  <1>7. steps'[3] = "done" => Proposed(jobId)'
    <2>1. CASE steps[3] = "done" /\ jobId' = jobId
      BY <2>1 DEF DoneTrue, Proposed
    <2>2. ASSUME NEW f \in Flows, flows[f].at = 3, Ends(f) PROVE Proposed(jobId)'
      <3>1. jobId' = jobId /\ Proposed(flows[f].job)
        BY <2>2 DEF Ends, Earned
      <3>2. flows[f].job = jobId
        BY <1>3, <2>2
      <3>3. [on |-> jobId, logged |-> TRUE] \in proposals
        BY <3>1, <3>2 DEF Proposed
      <3> QED BY <3>1, <3>3 DEF Proposed
    <2> QED BY <1>1, <1>2, <2>1, <2>2
  <1>8. steps'[5] = "done" => jobs'[jobId'].status # "open"
    <2>1. CASE steps[5] = "done" /\ jobId' = jobId
      <3>1. jobId \in DOMAIN jobs
        BY <1>2, <1>5, <2>1
      <3> QED BY <1>4, <2>1, <3>1 DEF DoneTrue
    <2>2. ASSUME NEW f \in Flows, flows[f].at = 5, Ends(f) PROVE jobs'[jobId'].status # "open"
      <3>1. jobId' = jobId /\ flows[f].phase = "wait" /\ txs[flows[f].tx].status = "success"
        BY <2>2 DEF Ends, Earned
      <3>2. flows[f].job = jobId /\ jobId \in DOMAIN jobs
        BY <1>3, <2>2
      <3>3. PICK x : x = flows[f].tx
        OBVIOUS
      <3>4. x \in DOMAIN txs /\ txs[x].act = "fund" /\ txs[x].on = jobId
        BY <2>2, <3>1, <3>2, <3>3, TheSteps DEF Awaits, Types
      <3>5. Funds(x, jobId) /\ jobId \in Nat
        <4>1. jobId \in Nat
          BY <3>2 DEF Types, ChainTypes
        <4> QED BY <3>1, <3>3, <3>4, <4>1 DEF Funds
      <3>6. jobs[jobId].status # "open"
        BY <3>4, <3>5 DEF Escrows
      <3> QED BY <1>4, <3>1, <3>2, <3>6
    <2> QED BY <1>1, <1>2, <2>1, <2>2
  <1>9. steps'[6] = "done" =>
           \E v \in Visit : runs'[v].job = jobId' /\ runs'[v].phase \in Succeeded
    <2>1. CASE steps[6] = "done" /\ jobId' = jobId
      <3>1. PICK v \in Visit : runs[v].job = jobId /\ runs[v].phase \in Succeeded
        BY <2>1 DEF DoneTrue
      <3>2. runs'[v] = runs[v]
        BY <3>1, RowsStay DEF RowStays
      <3> QED BY <2>1, <3>1, <3>2
    <2>2. ASSUME NEW f \in Flows, flows[f].at = 6, Ends(f)
          PROVE  \E v \in Visit : runs'[v].job = jobId' /\ runs'[v].phase \in Succeeded
      <3>1. PICK v : v = flows[f].deal.id
        OBVIOUS
      <3>2. v \in Visit /\ flows[f].job = jobId
        BY <1>3, <2>2, <3>1, UnderwayFlow
      <3>3. /\ jobId' = jobId
            /\ runs'[v].phase \in Succeeded /\ runs'[v].job = runs[v].job
            /\ flows[f].phase = "wait" \/ runs[v].job = flows[f].job
        BY <2>2, <3>1 DEF Ends, Earned
      <3>4. runs[v].job = flows[f].job
        BY <2>2, <3>1, <3>3 DEF Held
      <3> QED BY <3>2, <3>3, <3>4
    <2> QED BY <1>1, <1>2, <2>1, <2>2
  <1> QED BY <1>6, <1>7, <1>8, <1>9 DEF DoneTrue

\* A createJob that is mined in this step makes a job that was not there.
LEMMA JustMade ==
  ASSUME Types, Escrows, [Next]_vars, NEW x \in DOMAIN txs, txs[x].act = "createJob",
         txs[x].status = "pending", txs'[x].status = "success"
  PROVE  txs'[x].made \notin DOMAIN jobs
  <1>1. jobs \in Seq(Job) /\ txs \in Seq(WalletTx)
    BY DEF Types, ChainTypes
  <1>2. ChainChange
    BY ChainStep
  <1>3. CASE UNCHANGED txs
    BY <1>3
  <1>4. ASSUME NEW f \in Flows, Sign(f) PROVE FALSE
    <2>1. PICK c : c = CallOf(f)
      OBVIOUS
    <2>2. txs' = Append(txs, c)
      BY <1>4, <2>1 DEF Sign
    <2>3. txs'[x] = txs[x]
      BY <1>1, <2>2
    <2> QED BY <2>3
  <1>5. ASSUME NEW y \in DOMAIN txs, Mined(y) PROVE txs'[x].made \notin DOMAIN jobs
    <2>1. \E s : txs' = [txs EXCEPT ![y] = s]
      BY <1>5 DEF Mined, MineApprove, Mine, MineCreate, MineCall, MineRevert
    <2>2. y = x
      BY <1>1, <2>1
    <2>3. MineCreate(x)
      <3>1. Mine(x)
        BY <1>5, <2>2 DEF Mined
      <3>2. ~MineCall(x)
        BY DEF MineCall
      <3>3. ~MineRevert(x)
        BY DEF MineRevert, Accepts
      <3> QED BY <3>1, <3>2, <3>3 DEF Mine
    <2>4. txs'[x] = [txs[x] EXCEPT !.status = "success", !.made = Len(jobs) + 1]
      BY <1>1, <2>3 DEF MineCreate
    <2>5. txs[x] \in WalletTx
      BY <1>1
    <2>6. txs'[x].made = Len(jobs) + 1
      BY <2>4, <2>5 DEF WalletTx
    <2> QED BY <1>1, <2>6
  <1> QED BY <1>2, <1>3, <1>4, <1>5 DEF ChainChange, JobGoes, chainVars

LEMMA FreshStep ==
  ASSUME Types, Escrows, Alone, Ordered, Fresh, [Next]_vars, Grows, TxsKept, RunChange, Moves
  PROVE  Fresh'
  <1> DEFINE Old(u) == runs[u].adopted /\ runs'[u].job = runs[u].job
             New(u) == \E f \in Flows : Adopts(f) /\ u = flows[f].deal.id /\ runs'[u].job = flows[f].job
  <1>1. \A u \in Visit : runs'[u].adopted => Old(u) \/ New(u)
    BY RowsStay DEF RowStays
  <1>2. 2 \in StepIds
    BY DEF StepIds
  <1>3. ASSUME NEW u \in Visit, New(u)
        PROVE  /\ u = visits /\ runs'[u].job = jobId /\ steps[2] = "done"
               /\ \A f \in Flows : flows[f].at # 0 => flows[f].at = 6
    <2>1. PICK f \in Flows : Adopts(f) /\ u = flows[f].deal.id /\ runs'[u].job = flows[f].job
      BY <1>3
    <2>2. flows[f].at = 6
      BY <2>1, AdoptedRow
    <2>3. /\ flows[f].job = jobId /\ flows[f].deal = deal /\ deal.id = visits /\ steps[6] = "running"
          /\ \A g \in Flows : flows[g].at # 0 => g = f
      BY <2>2, NobodyElse
    <2>4. steps[2] = "done"
      BY <2>3 DEF Ordered, StepIds
    <2> QED BY <2>1, <2>2, <2>3, <2>4
  <1> HIDE DEF New
  <1>4. \A v, w \in Visit :
           runs'[v].adopted /\ runs'[w].adopted /\ runs'[v].job = runs'[w].job => v = w
    <2> SUFFICES ASSUME NEW v \in Visit, NEW w \in Visit, runs'[v].adopted, runs'[w].adopted,
                        runs'[v].job = runs'[w].job
                 PROVE  v = w
      OBVIOUS
    <2>1. CASE Old(v) /\ Old(w)
      BY <2>1 DEF Fresh
    <2>2. CASE Old(v) /\ New(w)
      BY <1>3, <2>2 DEF Fresh
    <2>3. CASE New(v) /\ Old(w)
      BY <1>3, <2>3 DEF Fresh
    <2>4. CASE New(v) /\ New(w)
      BY <1>3, <2>4
    <2> QED BY <1>1, <2>1, <2>2, <2>3, <2>4
  <1>5. ASSUME steps'[2] = "done", NEW u \in Visit, runs'[u].adopted, runs'[u].job = jobId'
        PROVE  u = visits'
    <2>1. visits' = visits
      BY <1>2, <1>5 DEF Moves
    <2>2. CASE steps[2] = "done" /\ jobId' = jobId
      BY <1>1, <1>3, <1>5, <2>1, <2>2 DEF Fresh
    <2>3. ASSUME NEW f \in Flows, flows[f].at = 2, Ends(f) PROVE u = visits'
      <3>1. flows[f].phase = "wait" /\ txs[flows[f].tx].status = "success"
            /\ jobId' = txs[flows[f].tx].made
        BY <2>3 DEF Ends, Earned
      <3>2. ~New(u)
        BY <1>3, <2>3
      <3> QED BY <1>1, <1>5, <2>3, <3>1, <3>2 DEF Fresh
    <2> QED BY <1>2, <1>5, <2>2, <2>3 DEF Moves
  <1>6. ASSUME NEW f \in Flows, flows'[f].at = 2, flows'[f].phase = "wait",
               txs'[flows'[f].tx].status = "success", NEW u \in Visit, runs'[u].adopted
        PROVE  runs'[u].job # txs'[flows'[f].tx].made
    <2>1. flows'[f] = flows[f] \/ Sign(f) \/ SetBudget(f) \/ Adopts(f)
      BY <1>6 DEF Moves
    <2>2. ~Adopts(f) /\ ~SetBudget(f)
      <3>1. SUFFICES ASSUME Adopts(f) \/ SetBudget(f) PROVE FALSE
        OBVIOUS
      <3>2. flows' = [flows EXCEPT ![f] = Admits(f)] /\ flows[f].at \in {3, 6}
        BY <3>1, AdoptsDoes, BudgetDoes
      <3>3. flows'[f] = Admits(f)
        BY <3>2 DEF Types, FlowTypes
      <3> QED BY <1>6, <3>2, <3>3 DEF Admits
    <2>3. ~Sign(f)
      <3>1. SUFFICES ASSUME Sign(f) PROVE FALSE
        OBVIOUS
      <3>2. PICK c : c = CallOf(f)
        OBVIOUS
      <3>3. flows' = [flows EXCEPT ![f] = Signed(f)] /\ txs' = Append(txs, c) /\ c.status = "pending"
        BY <3>1, <3>2, SignDoes
      <3>4. flows'[f] = Signed(f) /\ txs'[Len(txs) + 1] = c
        BY <3>3 DEF Types, FlowTypes, ChainTypes
      <3> QED BY <1>6, <3>3, <3>4 DEF Signed
    <2>4. PICK x : x = flows[f].tx
      OBVIOUS
    <2>5. flows'[f] = flows[f] /\ flows[f].at = 2
      BY <1>6, <2>1, <2>2, <2>3
    <2>6. x \in DOMAIN txs /\ txs[x].act = "createJob" /\ txs'[x].status = "success"
          /\ flows[f].phase = "wait" /\ flows'[f].tx = x
      BY <1>6, <2>4, <2>5, TheSteps DEF Awaits, Types
    <2>7. Old(u)
      <3>1. ~New(u)
        BY <1>3, <2>5
      <3> QED BY <1>1, <1>6, <3>1
    <2>8. CASE txs[x].status = "pending"
      <3>1. txs'[x].made \notin DOMAIN jobs
        BY <2>6, <2>8, JustMade
      <3>2. runs[u].job \in DOMAIN jobs
        BY <2>7 DEF Types, RunTypes
      <3> QED BY <2>6, <2>7, <3>1, <3>2
    <2>9. CASE txs[x].status # "pending"
      <3>1. txs'[x] = txs[x]
        BY <2>6, <2>9 DEF TxsKept
      <3> QED BY <2>4, <2>5, <2>6, <2>7, <3>1 DEF Fresh
    <2> QED BY <2>8, <2>9
  <1> HIDE DEF Old
  <1> QED BY <1>4, <1>5, <1>6 DEF Fresh

\* A fund is only ever sent for the job of the page.
LEMMA FundsTheCommitted ==
  ASSUME Types, Escrows, Alone, Ordered, [Next]_vars
  PROVE  Funding' \subseteq Committed
  <1>1. jobs \in Seq(Job) /\ txs \in Seq(WalletTx)
    BY DEF Types, ChainTypes
  <1>2. ChainChange /\ TxsKept
    BY ChainStep, ChainHolds
  <1>3. ASSUME DOMAIN txs' = DOMAIN txs PROVE Funding' \subseteq Committed
    BY <1>2, <1>3 DEF TxsKept, Funding, Committed
  <1>4. ASSUME NEW f \in Flows, Sign(f) PROVE Funding' \subseteq Committed
    <2>1. PICK c : c = CallOf(f)
      OBVIOUS
    <2>2. /\ txs' = Append(txs, c) /\ c.act = STEPS[flows[f].at] /\ flows[f].at \in {2, 4, 5}
          /\ flows[f].at = 5 => c.on = flows[f].job
      BY <1>4, <2>1, SignDoes
    <2>3. c.act = "fund" => flows[f].at = 5
      BY <2>2, TheSteps
    <2>4. flows[f].at = 5 => steps[2] = "done" /\ c.on = jobId
      <3>1. flows[f].at = 5 => flows[f].job = jobId /\ steps[5] = "running"
        BY NobodyElse
      <3> QED BY <2>2, <3>1 DEF Ordered, StepIds
    <2>5. \A x \in DOMAIN txs' : (x \in DOMAIN txs /\ txs'[x] = txs[x]) \/ txs'[x] = c
      BY <1>1, <2>2
    <2> QED BY <2>3, <2>4, <2>5 DEF Funding, Committed
  <1>5. ASSUME NEW y \in DOMAIN txs, Mined(y) PROVE Funding' \subseteq Committed
    <2>1. \E s : txs' = [txs EXCEPT ![y] = s]
      BY <1>5 DEF Mined, MineApprove, Mine, MineCreate, MineCall, MineRevert
    <2> QED BY <1>1, <1>3, <2>1
  <1> QED BY <1>2, <1>3, <1>4, <1>5 DEF ChainChange, JobGoes, chainVars

LEMMA SpareStep ==
  ASSUME Types, Types', Escrows, Alone, Ordered, Spare, [Next]_vars, Moves
  PROVE  Spare'
  <1>1. PICK C : C = Committed
    OBVIOUS
  <1>2. /\ IsFiniteSet(C) /\ Cardinality(C) \in Nat /\ Cardinality(C) =< visits
        /\ steps[2] # "done" /\ visits > 0 => Cardinality(C) < visits
        /\ visits \in Nat
    BY <1>1, FS_CardinalityType, SMTT(30) DEF Spare, Types, FlowTypes
  <1>3. Funding' \subseteq C
    BY <1>1, FundsTheCommitted
  <1>4. PICK D : D = Committed'
    OBVIOUS
  <1>5. 2 \in StepIds
    BY DEF StepIds
  <1>6. ASSUME D \subseteq C
        PROVE  IsFiniteSet(D) /\ Cardinality(D) =< Cardinality(C) /\ Cardinality(D) \in Nat
    BY <1>2, <1>6, FS_Subset, FS_CardinalityType
  <1>7. CASE steps'[2] # "done"
    <2>1. D \subseteq C
      BY <1>3, <1>4, <1>7 DEF Committed
    <2>2. CASE visits' = visits
      <3>1. steps[2] # "done"
        BY <1>7, <2>2 DEF Moves
      <3> QED BY <1>2, <1>4, <1>6, <2>1, <2>2, <3>1 DEF Spare
    <2>3. CASE visits' # visits
      <3>1. visits' = visits + 1
        BY <2>3 DEF Moves
      <3>2. Cardinality(D) =< visits' /\ Cardinality(D) < visits'
        BY <1>2, <1>6, <2>1, <3>1
      <3> QED BY <1>4, <1>6, <2>1, <3>2 DEF Spare
    <2> QED BY <2>2, <2>3
  <1>8. CASE steps'[2] = "done" /\ steps[2] = "done" /\ jobId' = jobId
    <2>1. D \subseteq C /\ visits' = visits
      BY <1>1, <1>3, <1>4, <1>5, <1>8 DEF Committed, Moves
    <2> QED BY <1>2, <1>4, <1>6, <1>8, <2>1 DEF Spare
  <1>9. ASSUME steps'[2] = "done", NEW f \in Flows, flows[f].at = 2, Ends(f)
        PROVE  Spare'
    <2>1. steps[2] = "running" /\ visits > 0 /\ visits' = visits
      BY <1>9, NobodyElse, UnderwayFlow DEF Ends
    <2>2. Cardinality(C) < visits
      BY <1>2, <2>1
    <2>3. PICK j : j = jobId'
      OBVIOUS
    <2>4. IsFiniteSet(C \cup {j}) /\ Cardinality(C \cup {j}) =< Cardinality(C) + 1
          /\ Cardinality(C \cup {j}) \in Nat
      <3>1. Cardinality(C \cup {j}) = IF j \in C THEN Cardinality(C) ELSE Cardinality(C) + 1
        BY <1>2, FS_AddElement
      <3>2. IsFiniteSet(C \cup {j})
        BY <1>2, FS_AddElement
      <3> QED BY <1>2, <3>1, <3>2
    <2>5. D \subseteq C \cup {j}
      BY <1>3, <1>4, <2>3 DEF Committed
    <2>6. IsFiniteSet(D) /\ Cardinality(D) =< Cardinality(C \cup {j}) /\ Cardinality(D) \in Nat
      BY <2>4, <2>5, FS_Subset, FS_CardinalityType
    <2>7. Cardinality(D) =< visits'
      BY <1>2, <2>1, <2>2, <2>4, <2>6
    <2> QED BY <1>4, <1>9, <2>6, <2>7 DEF Spare
  <1> QED BY <1>5, <1>7, <1>8, <1>9 DEF Moves

LEMMA SoloInit ==
  ASSUME PageInit
  PROVE  Solo
  <1> USE DEF PageInit, FlowInit, EscrowInit
  <1>1. \A f \in Flows : flows[f].at = 0
    BY DEF Idle
  <1>2. \A l \in StepIds : steps[l] = "pending"
    BY TheSteps
  <1>3. Alone
    BY <1>1 DEF Alone, Active
  <1>4. Ordered /\ DoneTrue
    BY <1>2 DEF Ordered, DoneTrue, StepIds
  <1>5. Held /\ Fresh
    BY <1>1, <1>2 DEF Held, Fresh, StepIds
  <1>6. Spare
    <2>1. Committed = {} /\ visits = 0
      BY <1>2 DEF Committed, Funding, StepIds
    <2> QED BY <2>1, FS_EmptySet DEF Spare
  <1> QED BY <1>3, <1>4, <1>5, <1>6 DEF Solo

LEMMA SoloStep ==
  ASSUME Base, Solo, [Next]_vars
  PROVE  Solo'
  <1> SUFFICES ASSUME ~overlapped'
               PROVE  (Alone /\ Ordered /\ Held /\ DoneTrue /\ Fresh /\ Spare)'
    BY DEF Solo
  <1>1. Types /\ Escrows /\ Types'
    BY BaseStep DEF Base
  <1>2. FlowChange /\ RunChange
    BY <1>1, StepChanges
  <1>3. ~overlapped
    BY <1>2 DEF FlowChange, Quiet, RenderNew, Presses, Ends, Fails, Sign, SetBudget, Adopts
  <1>4. Alone /\ Ordered /\ Held /\ DoneTrue /\ Fresh /\ Spare
    BY <1>3 DEF Solo
  <1>5. Grows /\ TxsKept
    BY <1>1, ChainHolds
  <1>6. Alone' /\ Ordered' /\ Moves
    BY <1>1, <1>2, <1>4, AloneStep
  <1>7. Held'
    BY <1>1, <1>2, <1>4, <1>6, HeldStep
  <1>8. DoneTrue'
    BY <1>1, <1>2, <1>4, <1>5, <1>6, LogStep, DoneTrueStep
  <1>9. Fresh'
    BY <1>1, <1>2, <1>4, <1>5, <1>6, FreshStep
  <1>10. Spare'
    BY <1>1, <1>4, <1>6, SpareStep
  <1> QED BY <1>6, <1>7, <1>8, <1>9, <1>10

LEMMA AlwaysSolo == Spec => []Solo
  <1>1. PageInit => Solo
    BY SoloInit
  <1>2. Base /\ Solo /\ [Next]_vars => Solo'
    BY SoloStep
  <1> QED BY <1>1, <1>2, AlwaysBase, PTL DEF Spec

\* Unless #/new was opened again under a running flow, a step shown as done is
\* true of the job the page goes on with.
THEOREM DoneStepsStayTrue == Spec => []DoneStepsAreTrue
  <1>1. ASSUME Base, Solo, ~overlapped, steps[5] = "done" PROVE jobs[jobId].budgeted
    <2>1. jobId \in DOMAIN jobs /\ jobs[jobId].status # "open"
      BY <1>1 DEF Solo, DoneTrue, Ordered, StepIds
    <2> QED BY <2>1, <1>1 DEF Base, Escrows, Delivered
  <1>2. Base /\ Solo => DoneStepsAreTrue
    BY <1>1, TheSteps DEF Solo, DoneTrue, DoneStepsAreTrue, StepIds
  <1> QED BY <1>2, AlwaysBase, AlwaysSolo, PTL

\* Unless flows overlapped, two cases never run on the same job.
THEOREM JobsAreNotShared == Spec => []OneCasePerJob
  <1>1. Solo => OneCasePerJob
    BY DEF Solo, Fresh, OneCasePerJob
  <1> QED BY <1>1, AlwaysSolo, PTL

\* Unless flows overlapped, at most one escrow per visit is ever funded, however
\* often a step is refused, times out and is retried (docs/demo-ui.md:97).
THEOREM RetriesFundOnce == Spec => []OneEscrowPerVisit
  <1>1. ASSUME Base, Solo PROVE OneEscrowPerVisit
    <2> SUFFICES ASSUME ~overlapped
                 PROVE  Cardinality({j \in DOMAIN jobs : jobs[j].status # "open"}) <= visits
      BY DEF OneEscrowPerVisit
    <2> DEFINE funded == {j \in DOMAIN jobs : jobs[j].status # "open"}
    <2>1. Spare /\ visits \in Nat
      BY <1>1 DEF Solo, Base, Types, FlowTypes
    <2>2. funded \subseteq Committed
      BY <1>1 DEF Base, Escrows, Funds, Funding, Committed
    <2> HIDE DEF funded
    <2>3. Cardinality(funded) =< Cardinality(Committed) /\ Cardinality(funded) \in Nat
          /\ Cardinality(Committed) \in Nat /\ Cardinality(Committed) =< visits
      BY <2>1, <2>2, FS_Subset, FS_CardinalityType DEF Spare
    <2> QED BY <2>1, <2>3 DEF funded
  <1> QED BY <1>1, AlwaysBase, AlwaysSolo, PTL
===============================================================================
