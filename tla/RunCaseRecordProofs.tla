------------------------- MODULE RunCaseRecordProofs -------------------------
(***************************************************************************)
(* RunCase implements CaseRecord, and a case ends the way its job did, for *)
(* any number of processes, runners, cases and requests and any bounds.    *)
(***************************************************************************)
EXTENDS RunCaseProofs

----------------------------------------------------------------------------
(* What the chain never takes back *)

\* Only these steps touch the contract's jobs or the list of transactions.
LEMMA ChainEffects ==
  ASSUME Basic, [Next]_vars
  PROVE  \/ UNCHANGED <<jobs, txs>>
         \/ \E r \in Runners : WriteSend(r) /\ RunnerStep(r) /\ UNCHANGED jobs
         \/ ChainStep /\ \E x \in DOMAIN txs : MineCreate(x)
         \/ ChainStep /\ \E x \in DOMAIN txs : MineCall(x)
         \/ ChainStep /\ \E x \in DOMAIN txs : MineRevert(x)
         \/ ChainStep /\ \E j \in DOMAIN jobs : ClaimRefund(j)
<1>1. CASE ChainStep
  BY <1>1 DEF ChainStep, Mine
<1>2. ASSUME NEW r \in Runners, RunnerStep(r)
      PROVE  UNCHANGED <<jobs, txs>> \/ (WriteSend(r) /\ RunnerStep(r) /\ UNCHANGED jobs)
  BY <1>2, AdmitChanges, WriteChanges, ProceedChanges DEF RunnerStep
<1> QED BY <1>1, <1>2, NextSteps
    DEF EnvStep, CallFails, Arrive, Crash, GrowStale, vars, chainVars

\* What a mined transaction does to the contract's jobs.
LEMMA CallEffects ==
  ASSUME Basic, NEW x \in DOMAIN txs, MineCall(x)
  PROVE  /\ txs[x].on \in DOMAIN jobs
         /\ jobs[txs[x].on] \in Job
         /\ jobs[txs[x].on].status \in EntryStates(txs[x].act)
         /\ jobs[txs[x].on].status \notin JobTerminal
         /\ DOMAIN jobs' = DOMAIN jobs
         /\ \A j \in DOMAIN jobs : jobs'[j] = IF j = txs[x].on THEN Applied(txs[x]) ELSE jobs[j]
         /\ DOMAIN txs' = DOMAIN txs
         /\ txs'[x].status = "success"
         /\ txs'[x].act = txs[x].act /\ txs'[x].on = txs[x].on /\ txs'[x].sa = txs[x].sa
         /\ \A y \in DOMAIN txs : y # x => txs'[y] = txs[y]
<1> USE DEF Basic, Types, JobsType, TxsType
<1>1. txs[x].on \in DOMAIN jobs /\ jobs[txs[x].on].status \in EntryStates(txs[x].act)
  BY DEF MineCall, Accepts
<1>2. jobs[txs[x].on].status \notin JobTerminal
  BY <1>1 DEF EntryStates, JobTerminal
<1>3. jobs' = [jobs EXCEPT ![txs[x].on] = Applied(txs[x])]
  BY DEF MineCall
<1>4. txs' = [txs EXCEPT ![x].status = "success"]
  BY DEF MineCall
<1> HIDE DEF MineCall, Applied
<1>5. PICK t \in Tx : /\ txs' = [txs EXCEPT ![x] = t]
                      /\ t.status = "success"
                      /\ t.act = txs[x].act /\ t.on = txs[x].on /\ t.sa = txs[x].sa
  <2> DEFINE u == [txs[x] EXCEPT !.status = "success"]
  <2>1. txs[x] \in Tx
    OBVIOUS
  <2>2. /\ u \in Tx /\ u.status = "success"
        /\ u.act = txs[x].act /\ u.on = txs[x].on /\ u.sa = txs[x].sa
    BY <2>1 DEF Tx
  <2>3. txs' = [txs EXCEPT ![x] = u]
    BY <1>4
  <2> HIDE DEF u
  <2> QED BY <2>2, <2>3
<1>6. /\ DOMAIN txs' = DOMAIN txs /\ txs'[x] = t
      /\ \A y \in DOMAIN txs : y # x => txs'[y] = txs[y]
  BY <1>5
<1>7. /\ DOMAIN jobs' = DOMAIN jobs
      /\ \A j \in DOMAIN jobs : jobs'[j] = IF j = txs[x].on THEN Applied(txs[x]) ELSE jobs[j]
  BY <1>1, <1>3
<1> QED BY <1>1, <1>2, <1>5, <1>6, <1>7

\* A mined createJob carries its job and is otherwise what was sent.
LEMMA MinedCreate ==
  ASSUME NEW t \in Tx, NEW n \in Nat
  PROVE  LET u == [t EXCEPT !.status = "success", !.made = n + 1]
         IN  /\ u \in Tx /\ u.status = "success" /\ u.made = n + 1
             /\ u.act = t.act /\ u.on = t.on /\ u.sa = t.sa
<1> DEFINE u == [t EXCEPT !.status = "success", !.made = n + 1]
<1>1. n + 1 \in Nat
  OBVIOUS
<1>2. u \in Tx
  BY <1>1 DEF Tx
<1>3. u.status = "success" /\ u.made = n + 1
  BY DEF Tx
<1>4. u.act = t.act /\ u.on = t.on /\ u.sa = t.sa
  BY DEF Tx
<1> QED BY <1>2, <1>3, <1>4

\* What the creation of a job does to the contract's jobs.
LEMMA CreateEffects ==
  ASSUME Basic, NEW x \in DOMAIN txs, MineCreate(x)
  PROVE  /\ Len(jobs) \in Nat
         /\ Len(jobs) + 1 \notin DOMAIN jobs
         /\ DOMAIN jobs' = DOMAIN jobs \cup {Len(jobs) + 1}
         /\ jobs'[Len(jobs) + 1] = NewJob
         /\ \A j \in DOMAIN jobs : jobs'[j] = jobs[j]
         /\ DOMAIN txs' = DOMAIN txs
         /\ txs'[x].status = "success" /\ txs'[x].made = Len(jobs) + 1
         /\ txs'[x].act = txs[x].act /\ txs'[x].on = txs[x].on /\ txs'[x].sa = txs[x].sa
         /\ \A y \in DOMAIN txs : y # x => txs'[y] = txs[y]
<1> USE DEF Basic, Types, JobsType, TxsType
<1>1. jobs' = Append(jobs, NewJob)
  BY DEF MineCreate
<1>2. txs' = [txs EXCEPT ![x] = [@ EXCEPT !.status = "success", !.made = Len(jobs) + 1]]
  BY DEF MineCreate
<1> HIDE DEF MineCreate
<1>3. NewJob \in Job
  BY DEF NewJob, Job, JobState
<1>4. DOMAIN jobs = 1 .. Len(jobs) /\ DOMAIN jobs' = 1 .. Len(jobs) + 1
  BY <1>1, <1>3
<1>5. Len(jobs) \in Nat /\ jobs'[Len(jobs) + 1] = NewJob /\ \A j \in DOMAIN jobs : jobs'[j] = jobs[j]
  BY <1>1, <1>3
<1>6. /\ Len(jobs) + 1 \notin DOMAIN jobs
      /\ DOMAIN jobs' = DOMAIN jobs \cup {Len(jobs) + 1}
  BY <1>4, <1>5
<1>7. PICK t \in Tx : /\ txs' = [txs EXCEPT ![x] = t]
                      /\ t.status = "success" /\ t.made = Len(jobs) + 1
                      /\ t.act = txs[x].act /\ t.on = txs[x].on /\ t.sa = txs[x].sa
  <2> DEFINE u == [txs[x] EXCEPT !.status = "success", !.made = Len(jobs) + 1]
  <2>1. txs[x] \in Tx
    OBVIOUS
  <2>2. /\ u \in Tx /\ u.status = "success" /\ u.made = Len(jobs) + 1
        /\ u.act = txs[x].act /\ u.on = txs[x].on /\ u.sa = txs[x].sa
    BY <1>5, <2>1, MinedCreate
  <2>3. txs' = [txs EXCEPT ![x] = u]
    BY <1>2
  <2> HIDE DEF u
  <2> QED BY <2>2, <2>3
<1>8. /\ DOMAIN txs' = DOMAIN txs /\ txs'[x] = t
      /\ \A y \in DOMAIN txs : y # x => txs'[y] = txs[y]
  BY <1>7
<1> QED BY <1>5, <1>6, <1>7, <1>8

\* Jobs are only added, and a job that ended stays as it ended.
LEMMA JobsAreKept ==
  ASSUME Basic, [Next]_vars
  PROVE  /\ DOMAIN jobs \subseteq DOMAIN jobs'
         /\ \A j \in DOMAIN jobs :
               jobs[j].status \in JobTerminal => jobs'[j] = jobs[j]
<1>1. ASSUME NEW x \in DOMAIN txs, MineCreate(x)
      PROVE  DOMAIN jobs \subseteq DOMAIN jobs' /\ \A j \in DOMAIN jobs : jobs'[j] = jobs[j]
  BY <1>1, CreateEffects
<1>2. ASSUME NEW x \in DOMAIN txs, MineCall(x)
      PROVE  /\ DOMAIN jobs' = DOMAIN jobs
             /\ \A j \in DOMAIN jobs : jobs[j].status \in JobTerminal => jobs'[j] = jobs[j]
  BY <1>2, CallEffects
<1>3. ASSUME NEW j \in DOMAIN jobs, ClaimRefund(j)
      PROVE  /\ DOMAIN jobs' = DOMAIN jobs
             /\ \A k \in DOMAIN jobs : jobs[k].status \in JobTerminal => jobs'[k] = jobs[k]
  BY <1>3 DEF ClaimRefund, JobTerminal, Basic, Types, JobsType
<1> QED BY <1>1, <1>2, <1>3, ChainEffects DEF MineRevert

\* A transaction stays what it was sent as.
LEMMA TxsAreKept ==
  ASSUME Basic, [Next]_vars, NEW x \in DOMAIN txs
  PROVE  /\ x \in DOMAIN txs'
         /\ txs'[x].act = txs[x].act /\ txs'[x].on = txs[x].on /\ txs'[x].sa = txs[x].sa
<1>0. txs[x] \in Tx
  BY DEF Basic, Types, TxsType
<1>1. ASSUME NEW y \in DOMAIN txs, MineCreate(y)
      PROVE  /\ x \in DOMAIN txs'
             /\ txs'[x].act = txs[x].act /\ txs'[x].on = txs[x].on /\ txs'[x].sa = txs[x].sa
  BY <1>1, CreateEffects
<1>2. ASSUME NEW y \in DOMAIN txs, MineCall(y)
      PROVE  /\ x \in DOMAIN txs'
             /\ txs'[x].act = txs[x].act /\ txs'[x].on = txs[x].on /\ txs'[x].sa = txs[x].sa
  BY <1>2, CallEffects
<1>3. ASSUME NEW y \in DOMAIN txs, MineRevert(y)
      PROVE  /\ x \in DOMAIN txs'
             /\ txs'[x].act = txs[x].act /\ txs'[x].on = txs[x].on /\ txs'[x].sa = txs[x].sa
  BY <1>0, <1>3 DEF MineRevert, Basic, Types, TxsType, Tx
<1>4. ASSUME NEW r \in Runners, WriteSend(r)
      PROVE  x \in DOMAIN txs' /\ txs'[x] = txs[x]
  BY <1>4 DEF WriteSend, Send, Basic, Types, TxsType
<1> QED BY <1>1, <1>2, <1>3, <1>4, ChainEffects DEF ClaimRefund

----------------------------------------------------------------------------
(* Handles, rows and transactions belong together *)

\* A runner that is not in a write has none in progress; one that is holds a
\* transaction it sent in this stage, for its own job and deliverable; a row of
\* tx_log names a transaction of its own action and job; and a mined createJob
\* made a job.
FreshCall ==
    \A r \in Runners : pc[r] \notin ChainAction \cup {"fail"} => call[r].phase = "call"
HeldWrites ==
    \A r \in Runners : pc[r] \in ChainAction /\ call[r].phase \in {"record", "receipt"} =>
        /\ txs[call[r].tx].act = pc[r]
        /\ txs[call[r].tx].on = ctx[r].job
        /\ txs[call[r].tx].sa = Deliverable(r)
LoggedWrites ==
    \A row \in txLog :
        /\ row.key[1] = txs[row.tx].act
        /\ row.key[1] # "createJob" => row.key[2] = txs[row.tx].on
CreatedJobs ==
    \A x \in DOMAIN txs :
        txs[x].act = "createJob" /\ txs[x].status = "success" => txs[x].made \in DOMAIN jobs

WritesInv == FreshCall /\ HeldWrites /\ LoggedWrites /\ CreatedJobs

\* FreshCall is preserved by every step.
LEMMA FreshCallStep ==
  ASSUME Basic, FreshCall, [Next]_vars
  PROVE  FreshCall'
<1> SUFFICES ASSUME NEW s \in Runners, pc'[s] \notin ChainAction \cup {"fail"}
             PROVE  call'[s].phase = "call"
  BY DEF FreshCall
<1>1. CASE RunnerStep(s)
  <2> USE DEF Basic, Types, PcType, CallType, Goto
  <2>1. CASE pc'[s] = "idle"
    BY <1>1, <2>1, KeepsRequest DEF NoCall
  <2>2. CASE Admit(s) /\ pc'[s] # "idle"
    <3>1. pc[s] \notin ChainAction \cup {"fail"} /\ UNCHANGED call
      BY <2>2, AdmitChanges
         DEF BeginStarted, BeginResume, MarkRunning, Admitted, Return, clientVars, ChainAction
    <3> QED BY <3>1 DEF FreshCall
  <2>3. CASE Write(s)
    <3>1. WriteHit(s) \/ WriteDone(s)
      BY <2>3, WriteChanges
         DEF Write, Writing, WriteApprove, WriteSend, WriteRefused, WriteRecord, WriteDuplicate,
             WriteReverted
    <3> QED BY <3>1 DEF WriteHit, WriteDone, LookupHit, ReceiptSuccess, Returned, NoCall
  <2>4. CASE Proceed(s) /\ pc'[s] # "idle"
    <3>1. pc[s] \notin ChainAction \cup {"fail"} /\ (UNCHANGED call \/ call'[s] = NoCall)
      BY <2>4 DEF Proceed, Intake, AdoptExternalJob, ExternalJobRefused, JobIdFromTx,
                ReceiptMissing, ReusePurchase, NotPurchased, Pay, RecordPurchase, Assess,
                EscalationUnconfigured, MarkSubmitted, Verify, Settle, RecordLedger,
                ReconcileJobState, Succeed, Fail, Return, clientVars, ChainAction
    <3> QED BY <3>1 DEF FreshCall, NoCall
  <2> QED BY <1>1, <2>1, <2>2, <2>3, <2>4 DEF RunnerStep
<1>2. CASE pc'[s] = pc[s] /\ call'[s] = call[s]
  BY <1>2 DEF FreshCall
<1>3. CASE EnvStep
  <2> USE DEF Basic, Types, PcType, CallType, FreshCall, Goto, ChainAction
  <2>1. CASE \E r \in Runners : CallFails(r)
    BY <2>1 DEF CallFails, clientVars
  <2>2. CASE \E r \in Runners, q \in Requests : Arrive(r, q)
    BY <2>2 DEF Arrive, clientVars
  <2>3. CASE \E p \in Procs : Crash(p)
    BY <2>3 DEF Crash, Dies, NoCall
  <2>4. CASE (\E c \in Cases : GrowStale(c)) \/ ChainStep
    BY <2>4 DEF GrowStale, ChainStep, clientVars
  <2> QED BY <1>3, <2>1, <2>2, <2>3, <2>4 DEF EnvStep
<1>4. CASE UNCHANGED vars
  BY <1>2, <1>4 DEF vars, clientVars
<1> QED BY <1>1, <1>2, <1>3, <1>4, NextSteps, OthersStay

\* A runner holds a transaction it has just sent, just recorded or held before.
LEMMA HoldsAfter ==
  ASSUME Basic, FreshCall, NEW r \in Runners, RunnerStep(r),
         pc'[r] \in ChainAction, call'[r].phase \in {"record", "receipt"}
  PROVE  /\ pc'[r] = pc[r] /\ ctx' = ctx
         /\ WriteSend(r) \/ (WriteRecord(r) /\ call'[r].tx = call[r].tx /\ call[r].phase = "record")
<1> USE DEF Basic, Types, PcType, CallType, Goto
<1>1. CASE Admit(r)
  BY <1>1, AdmitChanges
     DEF BeginStarted, BeginResume, MarkRunning, Admitted, Return, ChainAction
<1>2. CASE Write(r)
  <2>1. pc[r] \in ChainAction /\ UNCHANGED ctx
    BY <1>2, WriteChanges
  <2>2. CASE WriteHit(r) \/ WriteDone(r)
    BY <2>2 DEF WriteHit, WriteDone, LookupHit, ReceiptSuccess, Returned, NoCall
  <2>6. CASE WriteApprove(r)
    BY <2>6 DEF WriteApprove, ApproveUsdc, Call
  <2>3. CASE WriteRefused(r) \/ WriteDuplicate(r) \/ WriteReverted(r)
    BY <2>3 DEF WriteRefused, WriteDuplicate, WriteReverted, Writing, ChainAction
  <2>4. CASE WriteSend(r)
    BY <2>1, <2>4 DEF WriteSend, Writing
  <2>5. CASE WriteRecord(r)
    BY <2>1, <2>5 DEF WriteRecord, Writing, Record, Call
  <2> QED BY <1>2, <2>2, <2>3, <2>4, <2>5, <2>6 DEF Write
<1>3. CASE Proceed(r)
  <2>1. Intake(r) \/ JobIdFromTx(r) \/ (\E sa \in Sas : Assess(r, sa)) \/ Settle(r)
    BY <1>3 DEF Proceed, AdoptExternalJob, ExternalJobRefused,
                ReceiptMissing, ReusePurchase, NotPurchased, Pay, RecordPurchase,
                EscalationUnconfigured, MarkSubmitted, Verify, RecordLedger,
                ReconcileJobState, Succeed, Fail, Return, ChainAction
  <2>2. call'[r].phase = "call"
    BY <2>1 DEF Intake, JobIdFromTx, Assess, Settle, FreshCall, clientVars, NoCall, ChainAction
  <2> QED BY <2>2
<1> QED BY <1>1, <1>2, <1>3 DEF RunnerStep

\* HeldWrites is preserved by every step.
LEMMA HeldWritesStep ==
  ASSUME Basic, FreshCall, HeldWrites, [Next]_vars
  PROVE  HeldWrites'
<1> SUFFICES ASSUME NEW s \in Runners, pc'[s] \in ChainAction,
                    call'[s].phase \in {"record", "receipt"}
             PROVE  /\ txs'[call'[s].tx].act = pc'[s]
                    /\ txs'[call'[s].tx].on = ctx'[s].job
                    /\ txs'[call'[s].tx].sa = Deliverable(s)'
  BY DEF HeldWrites
<1>1. ASSUME pc'[s] = pc[s], ctx'[s] = ctx[s], call'[s].tx = call[s].tx,
             call[s].phase \in {"record", "receipt"}
      PROVE  /\ txs'[call'[s].tx].act = pc'[s]
             /\ txs'[call'[s].tx].on = ctx'[s].job
             /\ txs'[call'[s].tx].sa = Deliverable(s)'
  <2>1. call[s].tx \in DOMAIN txs
    BY <1>1 DEF Basic, HeldHandles
  <2> QED BY <1>1, <2>1, TxsAreKept DEF HeldWrites, Deliverable
<1>2. CASE RunnerStep(s)
  <2>1. CASE WriteSend(s)
    <3>1. /\ txs' = Append(txs, NewTx(pc[s], ctx[s].job, Deliverable(s)))
          /\ call'[s].tx = Len(txs) + 1
          /\ pc'[s] = pc[s] /\ ctx' = ctx
      BY <1>2, <2>1, HoldsAfter DEF WriteSend, Send, Basic, Types, CallType
    <3>2. txs'[Len(txs) + 1] = NewTx(pc[s], ctx[s].job, Deliverable(s))
      BY <3>1 DEF Basic, Types, TxsType
    <3> QED BY <3>1, <3>2 DEF NewTx, Deliverable
  <2> QED BY <1>1, <1>2, <2>1, HoldsAfter
<1>3. CASE pc'[s] = pc[s] /\ ctx'[s] = ctx[s] /\ call'[s] = call[s]
  BY <1>1, <1>3
<1>4. CASE EnvStep
  BY <1>1, <1>4, EnvChanges DEF Inside, Executing, ChainAction, Work
<1>5. CASE UNCHANGED vars
  BY <1>3, <1>5 DEF vars, clientVars
<1> QED BY <1>2, <1>3, <1>4, <1>5, NextSteps, OthersStay

\* LoggedWrites is preserved by every step.
LEMMA LoggedWritesStep ==
  ASSUME Basic, HeldWrites, LoggedWrites, [Next]_vars
  PROVE  LoggedWrites'
<1> SUFFICES ASSUME NEW row \in txLog'
             PROVE  /\ row.key[1] = txs'[row.tx].act
                    /\ row.key[1] # "createJob" => row.key[2] = txs'[row.tx].on
  BY DEF LoggedWrites
<1>1. CASE row \in txLog
  BY <1>1, TxsAreKept DEF LoggedWrites, Basic, LoggedHandles
<1>2. ASSUME NEW r \in Runners, WriteRecord(r), row \notin txLog
      PROVE  /\ row.key[1] = txs'[row.tx].act
             /\ row.key[1] # "createJob" => row.key[2] = txs'[row.tx].on
  <2>1. row = [key |-> KeyOf(r), tx |-> call[r].tx] /\ call[r].phase = "record" /\ UNCHANGED txs
    BY <1>2 DEF WriteRecord, Record, chainVars
  <2>2. pc[r] \in ChainAction
    BY <1>2 DEF WriteRecord, Writing
  <2>3. txs[row.tx].act = pc[r] /\ txs[row.tx].on = ctx[r].job
    BY <2>1, <2>2 DEF HeldWrites
  <2>4. row.key = KeyOf(r)
    BY <2>1
  <2>5. KeyOf(r)[1] = pc[r] /\ (pc[r] # "createJob" => KeyOf(r)[2] = ctx[r].job)
    BY DEF KeyOf, Key
  <2> QED BY <2>1, <2>3, <2>4, <2>5
<1> QED BY <1>1, <1>2, NextSteps, EnvChanges, AdmitChanges, WriteChanges, ProceedChanges
    DEF RunnerStep, vars, clientVars

\* CreatedJobs is preserved by every step.
LEMMA CreatedJobsStep ==
  ASSUME Basic, CreatedJobs, [Next]_vars
  PROVE  CreatedJobs'
<1> SUFFICES ASSUME NEW x \in DOMAIN txs', txs'[x].act = "createJob", txs'[x].status = "success"
             PROVE  txs'[x].made \in DOMAIN jobs'
  BY DEF CreatedJobs
<1>0. DOMAIN jobs \subseteq DOMAIN jobs'
  BY JobsAreKept
<1>1. CASE x \in DOMAIN txs /\ txs'[x] = txs[x]
  BY <1>0, <1>1 DEF CreatedJobs
<1>2. ASSUME NEW y \in DOMAIN txs, MineCreate(y)
      PROVE  txs'[x].made \in DOMAIN jobs'
  <2>2. x \in DOMAIN txs
    BY <1>2, CreateEffects
  <2>3. x = y => txs'[x].made = Len(jobs) + 1
    BY <1>2, CreateEffects
  <2> QED BY <1>1, <1>2, <2>2, <2>3, CreateEffects
<1>3. ASSUME NEW y \in DOMAIN txs, MineCall(y)
      PROVE  txs'[x].made \in DOMAIN jobs'
  <2>1. txs'[y].act # "createJob"
    BY <1>3, TxsAreKept DEF MineCall
  <2>2. x \in DOMAIN txs /\ x # y
    BY <1>3, <2>1, CallEffects
  <2> QED BY <1>1, <1>3, <2>2, CallEffects
<1>4. ASSUME NEW y \in DOMAIN txs, MineRevert(y)
      PROVE  txs'[x].made \in DOMAIN jobs'
  <2>1. x \in DOMAIN txs /\ txs[y] \in Tx
    BY <1>4 DEF MineRevert, Basic, Types, TxsType
  <2>2. x # y
    BY <1>4, <2>1 DEF MineRevert, Basic, Types, TxsType, Tx
  <2> QED BY <1>1, <1>4, <2>1, <2>2 DEF MineRevert, Basic, Types, TxsType
<1>5. ASSUME NEW r \in Runners, WriteSend(r)
      PROVE  txs'[x].made \in DOMAIN jobs'
  <2>1. txs' = Append(txs, NewTx(pc[r], ctx[r].job, Deliverable(r)))
    BY <1>5 DEF WriteSend, Send
  <2>2. x \in DOMAIN txs \/ txs'[x] = NewTx(pc[r], ctx[r].job, Deliverable(r))
    BY <2>1 DEF Basic, Types, TxsType
  <2>3. x \in DOMAIN txs /\ txs'[x] = txs[x]
    BY <2>1, <2>2 DEF NewTx, Basic, Types, TxsType
  <2> QED BY <1>1, <2>3
<1> QED BY <1>1, <1>2, <1>3, <1>4, <1>5, ChainEffects DEF ClaimRefund

\* WritesInv is an invariant.
LEMMA WritesInvariant == Spec => []WritesInv
<1>1. Init => WritesInv
  BY DEF Init, JobClientInit, EscrowInit, WritesInv, FreshCall, HeldWrites, LoggedWrites, CreatedJobs,
         NoCall, ChainAction
<1>2. Basic /\ WritesInv /\ [Next]_vars => WritesInv'
  BY FreshCallStep, HeldWritesStep, LoggedWritesStep, CreatedJobsStep DEF WritesInv
<1> QED BY <1>1, <1>2, BasicInvariant, PTL DEF Spec

----------------------------------------------------------------------------
(* Where a step leads, and what it makes of the case *)

\* The stages a runner comes to, and by which action it comes there.
LEMMA WhereTo ==
  ASSUME Basic, NEW r \in Runners, RunnerStep(r)
  PROVE  \/ pc'[r] \in {"idle", "fail", "takeOver"}
         \/ pc'[r] = "intake" /\ (BeginStarted(r) \/ MarkRunning(r))
         \/ Intake(r) /\ pc'[r] = IF ctx[r].req.job = 0 THEN "createJob" ELSE "adopt"
         \/ AdoptExternalJob(r) /\ pc'[r] = "opened"
         \/ JobIdFromTx(r) /\ pc'[r] = "setBudget"
         \/ Write(r) /\ pc[r] \in ChainAction /\ pc'[r] = pc[r]
         \/ (WriteHit(r) \/ WriteDone(r)) /\ pc[r] \in ChainAction /\ pc'[r] = AfterWrite(pc[r])
         \/ NotPurchased(r) /\ pc'[r] = "pay"
         \/ Pay(r) /\ pc'[r] = "paid"
         \/ (ReusePurchase(r) \/ RecordPurchase(r)) /\ pc'[r] = "assess"
         \/ (\E sa \in Sas : Assess(r, sa)) /\ pc'[r] = "submit"
         \/ MarkSubmitted(r) /\ pc'[r] = "verify"
         \/ Verify(r) /\ pc'[r] = "settle"
         \/ Settle(r) /\ pc'[r] = (IF ctx[r].passed THEN "complete" ELSE "reject")
              /\ jobs[ctx[r].job].status \in SettleState(r)
         \/ RecordLedger(r) /\ pc'[r] = "reconcile"
         \/ ReconcileJobState(r) /\ pc'[r] = "succeed"
<1> USE DEF Basic, Types, PcType, Goto
<1>1. CASE Admit(r)
  BY <1>1, AdmitChanges DEF BeginStarted, BeginResume, MarkRunning, Admitted, Return
<1>2. CASE Write(r)
  <2>1. CASE WriteHit(r) \/ WriteDone(r)
    BY <2>1 DEF WriteHit, WriteDone, Writing
  <2>2. CASE WriteApprove(r) \/ WriteSend(r) \/ WriteRecord(r)
    BY <1>2, <2>2 DEF WriteApprove, WriteSend, WriteRecord, Writing
  <2>3. CASE WriteRefused(r) \/ WriteDuplicate(r) \/ WriteReverted(r)
    BY <2>3 DEF WriteRefused, WriteDuplicate, WriteReverted, Writing
  <2> QED BY <1>2, <2>1, <2>2, <2>3 DEF Write
<1>3. CASE Proceed(r)
  <2>1. CASE Intake(r) \/ AdoptExternalJob(r) \/ JobIdFromTx(r)
    BY <2>1 DEF Intake, AdoptExternalJob, JobIdFromTx
  <2>2. CASE ExternalJobRefused(r) \/ ReceiptMissing(r) \/ \E sa \in Sas : EscalationUnconfigured(r, sa)
    BY <2>2 DEF ExternalJobRefused, ReceiptMissing, EscalationUnconfigured
  <2>3. CASE NotPurchased(r) \/ Pay(r) \/ ReusePurchase(r) \/ RecordPurchase(r)
    BY <2>3 DEF NotPurchased, Pay, ReusePurchase, RecordPurchase
  <2>4. CASE (\E sa \in Sas : Assess(r, sa)) \/ MarkSubmitted(r) \/ Verify(r) \/ RecordLedger(r)
    BY <2>4 DEF Assess, MarkSubmitted, Verify, RecordLedger
  <2>5. CASE Settle(r)
    BY <2>5 DEF Settle
  <2>6. CASE ReconcileJobState(r)
    BY <2>6 DEF ReconcileJobState
  <2>7. CASE Succeed(r) \/ Fail(r)
    BY <2>7 DEF Succeed, Fail, Return
  <2> QED BY <1>3, <2>1, <2>2, <2>3, <2>4, <2>5, <2>6, <2>7 DEF Proceed
<1> QED BY <1>1, <1>2, <1>3 DEF RunnerStep

\* The case moved on along CASE_STATE_ORDER, or did not move.
Forward(old, row) ==
    /\ row.job = old.job /\ row.exit = old.exit
    /\ \/ row.state = old.state
       \/ Rank(old.state) >= 1 /\ Rank(row.state) \in Rank(old.state) + 1 .. 5

\* The case ended as its job did.
Ends(old, row, status) ==
    /\ row.job = old.job /\ Rank(old.state) >= 1
    /\ \/ row.state = "settled" /\ status = "completed"
       \/ row.state = "rejected" /\ status = "rejected"
            /\ row.exit = IF old.state = "submitted" THEN "verifier_rejected" ELSE "intake_rejected"
       \/ row.state = "rejected" /\ status = "expired" /\ row.exit = "timeout_refund"

\* Ranks and progress of the states.
LEMMA Ranks ==
  ASSUME NEW s \in CaseState
  PROVE  /\ Rank(s) \in 0 .. 5 /\ Progress(s) \in 0 .. 6
         /\ Progress(s) = 6 <=> s \in {"settled", "rejected"}
         /\ Progress(s) = 0 <=> s = "none"
         /\ Progress(s) = 5 <=> s = "submitted"
         /\ Rank(s) >= 1 => Progress(s) = Rank(s)
         /\ Rank(s) = 0 => Progress(s) \in {0, 6}
  BY DEF CaseState, Rank, Progress

\* advanceCaseState moves a case forward only, and far enough if it was opened.
LEMMA AdvancedMoves ==
  ASSUME NEW old \in CaseRow,
         NEW to \in {"decomposed", "assessing", "conditions_ready", "submitted"}
  PROVE  /\ Advanced(old, to) \in CaseRow
         /\ Forward(old, Advanced(old, to))
         /\ old.state # "none" => Progress(Advanced(old, to).state) >= Rank(to)
         /\ Advanced(old, to).state = old.state \/ Advanced(old, to).state = to
<1>1. Rank(to) \in 2 .. 5 /\ to \in CaseState
  BY DEF Rank, CaseState
<1>2. old.state \in CaseState
  BY DEF CaseRow
<1>3. CASE Rank(old.state) \in 1 .. Rank(to) - 1
  <2>1. Advanced(old, to) = [old EXCEPT !.state = to]
    BY <1>3 DEF Advanced
  <2>2. /\ [old EXCEPT !.state = to] \in CaseRow
        /\ [old EXCEPT !.state = to].state = to
        /\ [old EXCEPT !.state = to].job = old.job
        /\ [old EXCEPT !.state = to].exit = old.exit
    BY <1>1 DEF CaseRow
  <2>3. Progress(to) = Rank(to)
    BY <1>1, Ranks
  <2> QED BY <1>1, <1>2, <1>3, <2>1, <2>2, <2>3, Ranks DEF Forward
<1>4. CASE Rank(old.state) \notin 1 .. Rank(to) - 1
  <2>1. Advanced(old, to) = old
    BY <1>4 DEF Advanced
  <2>2. /\ Rank(old.state) \in 0 .. 5 /\ Progress(old.state) \in 0 .. 6
        /\ Rank(old.state) >= 1 => Progress(old.state) = Rank(old.state)
        /\ Rank(old.state) = 0 => Progress(old.state) \in {0, 6}
        /\ Progress(old.state) = 0 <=> old.state = "none"
    BY <1>2, Ranks
  <2>3. CASE Rank(old.state) = 0
    BY <1>1, <2>1, <2>2, <2>3 DEF Forward
  <2>4. CASE Rank(old.state) >= Rank(to)
    BY <1>1, <2>1, <2>2, <2>4 DEF Forward
  <2> QED BY <1>1, <1>4, <2>2, <2>3, <2>4
<1> QED BY <1>3, <1>4

\* One move after another is a move.
LEMMA ForwardTwice ==
  ASSUME NEW a \in CaseRow, NEW b \in CaseRow, NEW c \in CaseRow, Forward(a, b), Forward(b, c)
  PROVE  Forward(a, c)
<1>1. a.state \in CaseState /\ b.state \in CaseState /\ c.state \in CaseState
  BY DEF CaseRow
<1> QED BY <1>1, Ranks DEF Forward

\* reconcileJobState ends a case as its job did, or leaves it.
LEMMA ReconciledEnds ==
  ASSUME NEW old \in CaseRow, NEW status
  PROVE  LET new == Reconciled(old, status)
             row == IF new = old \/ MayEnd(old.state, new.state) THEN new ELSE old
         IN  row \in CaseRow /\ (row = old \/ Ends(old, row, status))
<1> DEFINE new == Reconciled(old, status)
<1> DEFINE row == IF new = old \/ MayEnd(old.state, new.state) THEN new ELSE old
<1>0. old.state \in CaseState
  BY DEF CaseRow
<1>1. new \in CaseRow
  BY ReconciledType
<1>2. ASSUME new # old, MayEnd(old.state, new.state)
      PROVE  Ends(old, new, status)
  <2> DEFINE out == Outcome(status, old.state = "submitted")
  <2>1. status \in JobTerminal /\ new = [old EXCEPT !.state = out.state, !.exit = out.exit]
    BY <1>2 DEF Reconciled
  <2>2. new.state = out.state /\ new.exit = out.exit /\ new.job = old.job
    BY <2>1 DEF CaseRow
  <2>3. \/ status = "completed" /\ out.state = "settled"
        \/ status = "rejected" /\ out.state = "rejected"
             /\ out.exit = IF old.state = "submitted" THEN "verifier_rejected" ELSE "intake_rejected"
        \/ status = "expired" /\ out.state = "rejected" /\ out.exit = "timeout_refund"
    BY <2>1 DEF JobTerminal, Outcome
  <2>4. Rank(old.state) >= 1
    BY <1>0, <1>2, Ranks DEF MayEnd, Rank
  <2> HIDE DEF out, new
  <2> QED BY <2>2, <2>3, <2>4 DEF Ends
<1> QED BY <1>1, <1>2

\* What a runner's step makes of the row of its case.
Turns(r, old, row) ==
    \/ row = old
    \/ Intake(r) /\ old.state = "none" /\ row.state = "intake"
         /\ row.job = old.job /\ row.exit = old.exit
    \/ (AdoptExternalJob(r) \/ JobIdFromTx(r))
         /\ row.job = ctx'[r].job /\ row.state = old.state /\ row.exit = old.exit
    \/ (ReusePurchase(r) \/ RecordPurchase(r) \/ MarkSubmitted(r) \/ \E sa \in Sas : Assess(r, sa))
         /\ Forward(old, row)
    \/ NotPurchased(r) /\ Forward(old, row) /\ row.state \in {old.state, "decomposed"}
    \/ ReconcileJobState(r) /\ Ends(old, row, jobs[ctx[r].job].status)

LEMMA CaseChanges ==
  ASSUME Basic, NEW r \in Runners, RunnerStep(r)
  PROVE  /\ CaseOf(r) \in Cases /\ cases[CaseOf(r)] \in CaseRow
         /\ \E row \in CaseRow :
               /\ cases' = [cases EXCEPT ![CaseOf(r)] = row]
               /\ Turns(r, cases[CaseOf(r)], row)
               /\ Intake(r) => row.state # "none"
               /\ MarkSubmitted(r) /\ cases[CaseOf(r)].state # "none" => Progress(row.state) >= 5
<1> DEFINE old == cases[CaseOf(r)]
<1> DEFINE Goal(row) ==
      /\ cases' = [cases EXCEPT ![CaseOf(r)] = row]
      /\ Turns(r, old, row)
      /\ Intake(r) => row.state # "none"
      /\ MarkSubmitted(r) /\ old.state # "none" => Progress(row.state) >= 5
<1>0. CaseOf(r) \in Cases /\ old \in CaseRow /\ ctx[r].req.job \in Nat
  BY KeepsRequest, RunnerLocals DEF Basic, Types, CasesType, Request
<1>1. CASE UNCHANGED cases /\ ~Intake(r) /\ ~MarkSubmitted(r)
  <2>1. cases' = [cases EXCEPT ![CaseOf(r)] = old]
    BY <1>0, <1>1 DEF Basic, Types, CasesType
  <2>2. Goal(old)
    BY <1>1, <2>1 DEF Turns
  <2> QED BY <1>0, <2>2
<1>2. CASE Intake(r)
  <2>1. ~MarkSubmitted(r)
    BY <1>2 DEF Intake, MarkSubmitted
  <2>2. [old EXCEPT !.state = "intake"] \in CaseRow
    BY <1>0 DEF CaseRow, CaseState
  <2>3. CASE old.state = "none"
    <3>1. cases' = [cases EXCEPT ![CaseOf(r)] = [old EXCEPT !.state = "intake"]]
      BY <1>2, <2>3 DEF Intake, SetCase
    <3>2. /\ [old EXCEPT !.state = "intake"].state = "intake"
          /\ [old EXCEPT !.state = "intake"].job = old.job
          /\ [old EXCEPT !.state = "intake"].exit = old.exit
      BY <1>0 DEF CaseRow
    <3>3. Goal([old EXCEPT !.state = "intake"])
      BY <1>2, <2>1, <2>3, <3>1, <3>2 DEF Turns
    <3> QED BY <1>0, <2>2, <3>3
  <2>4. CASE old.state # "none"
    <3>1. Goal(old)
      BY <1>2, <2>1, <2>4 DEF Intake, SetCase, Turns
    <3> QED BY <1>0, <3>1
  <2> QED BY <2>3, <2>4
<1>3. CASE AdoptExternalJob(r) \/ JobIdFromTx(r)
  <2>1. PICK j \in Nat : BindJob(r, j)
    <3>1. JobIdFromTx(r) => txs[call[r].tx].made \in Nat
      <4>1. JobIdFromTx(r) => txs[call[r].tx] \in Tx
        BY DEF JobIdFromTx, Basic, Types, HeldHandles, TxsType
      <4> QED BY <4>1 DEF Tx
    <3> QED BY <1>0, <1>3, <3>1 DEF AdoptExternalJob, JobIdFromTx
  <2>2. ctx'[r].job = j
    BY <2>1 DEF BindJob, Basic, Types, CtxType, Ctx
  <2>3. /\ [old EXCEPT !.job = j] \in CaseRow
        /\ [old EXCEPT !.job = j].job = j
        /\ [old EXCEPT !.job = j].state = old.state
        /\ [old EXCEPT !.job = j].exit = old.exit
    BY <1>0 DEF CaseRow
  <2>4. cases' = [cases EXCEPT ![CaseOf(r)] = [old EXCEPT !.job = j]]
    BY <2>1 DEF BindJob, SetCase
  <2>5. ~Intake(r) /\ ~MarkSubmitted(r)
    BY <1>3 DEF AdoptExternalJob, JobIdFromTx, Intake, MarkSubmitted
  <2>6. Goal([old EXCEPT !.job = j])
    BY <1>3, <2>2, <2>3, <2>4, <2>5 DEF Turns
  <2> QED BY <1>0, <2>3, <2>6
<1>4. CASE ReusePurchase(r)
  <2>1. PICK row \in CaseRow : SetCase(r, row) /\ Forward(old, row)
    <3>1. /\ Advanced(old, "decomposed") \in CaseRow
          /\ Advanced(Advanced(old, "decomposed"), "assessing") \in CaseRow
      BY <1>0, AdvancedMoves
    <3>2. Forward(old, Advanced(Advanced(old, "decomposed"), "assessing"))
      BY <1>0, <3>1, AdvancedMoves, ForwardTwice
    <3> QED BY <1>4, <3>1, <3>2 DEF ReusePurchase
  <2>2. ~Intake(r) /\ ~MarkSubmitted(r)
    BY <1>4 DEF ReusePurchase, Intake, MarkSubmitted
  <2>3. Goal(row)
    BY <1>4, <2>1, <2>2 DEF SetCase, Turns
  <2> QED BY <1>0, <2>3
<1>5. CASE RecordPurchase(r) \/ (\E sa \in Sas : Assess(r, sa))
  <2>1. PICK row \in CaseRow : SetCase(r, row) /\ Forward(old, row)
    BY <1>0, <1>5, AdvancedMoves DEF RecordPurchase, Assess
  <2>2. ~Intake(r) /\ ~MarkSubmitted(r)
    BY <1>5 DEF RecordPurchase, Assess, Intake, MarkSubmitted
  <2>3. Goal(row)
    BY <1>5, <2>1, <2>2 DEF SetCase, Turns
  <2> QED BY <1>0, <2>3
<1>6. CASE MarkSubmitted(r)
  <2>1. Rank("submitted") = 5
    BY DEF Rank
  <2>2. PICK row \in CaseRow : SetCase(r, row) /\ Forward(old, row)
                               /\ (old.state # "none" => Progress(row.state) >= 5)
    BY <1>0, <1>6, <2>1, AdvancedMoves DEF MarkSubmitted
  <2>3. ~Intake(r)
    BY <1>6 DEF MarkSubmitted, Intake
  <2>4. Goal(row)
    BY <1>6, <2>2, <2>3 DEF SetCase, Turns
  <2> QED BY <1>0, <2>4
<1>7. CASE NotPurchased(r)
  <2>1. PICK row \in CaseRow : SetCase(r, row) /\ Forward(old, row)
                               /\ row.state \in {old.state, "decomposed"}
    BY <1>0, <1>7, AdvancedMoves DEF NotPurchased
  <2>2. ~Intake(r) /\ ~MarkSubmitted(r)
    BY <1>7 DEF NotPurchased, Intake, MarkSubmitted
  <2>3. Goal(row)
    BY <1>7, <2>1, <2>2 DEF SetCase, Turns
  <2> QED BY <1>0, <2>3
<1>8. CASE ReconcileJobState(r)
  <2>1. PICK row \in CaseRow : SetCase(r, row) /\ (row = old \/ Ends(old, row, jobs[ctx[r].job].status))
    BY <1>0, <1>8, ReconciledEnds DEF ReconcileJobState
  <2>2. ~Intake(r) /\ ~MarkSubmitted(r)
    BY <1>8 DEF ReconcileJobState, Intake, MarkSubmitted
  <2>3. Goal(row)
    BY <1>8, <2>1, <2>2 DEF SetCase, Turns
  <2> QED BY <1>0, <2>3
<1>9. CASE UNCHANGED cases /\ (Intake(r) \/ MarkSubmitted(r))
  BY <1>2, <1>6, <1>9
<1> QED
  <2>1. \/ UNCHANGED cases \/ Intake(r) \/ AdoptExternalJob(r) \/ JobIdFromTx(r) \/ ReusePurchase(r)
        \/ RecordPurchase(r) \/ (\E sa \in Sas : Assess(r, sa)) \/ MarkSubmitted(r)
        \/ NotPurchased(r) \/ ReconcileJobState(r)
    <3>1. CASE Proceed(r)
      BY <3>1 DEF Proceed, ExternalJobRefused, ReceiptMissing, Pay, EscalationUnconfigured, Verify,
                  Settle, RecordLedger, Succeed, Fail, storeVars
    <3> QED BY <3>1, AdmitChanges, WriteChanges DEF RunnerStep
  <2> QED BY <1>1, <1>2, <1>3, <1>4, <1>5, <1>6, <1>7, <1>8, <1>9, <2>1

----------------------------------------------------------------------------
(* The record of a case, and who works on it *)

\* A runner opens a job only for a request that brings none.  One that has a job
\* works on the job of its case's row; and that row's job is the request's, or the
\* one the recorded createJob made.
OwnRequest == \A r \in Runners : pc[r] \in {"createJob", "jobId"} => ctx[r].req.job = 0
BoundStages == Work \ {"intake", "adopt", "createJob", "jobId", "fail"}
WorksOnBound ==
    \A r \in Runners : pc[r] \in BoundStages =>
        ctx[r].job # 0 /\ cases[CaseOf(r)].job = ctx[r].job
BoundBy(c, q) ==
    /\ q.fp = runs[c].fp
    /\ q.job # 0 => cases[c].job = q.job
    /\ q.job = 0 => \E row \in txLog : CreatedBy(row, c, cases[c].job)
BoundJobs ==
    \A c \in Cases : cases[c].job # 0 =>
        /\ runs[c].status # "none"
        /\ cases[c].job \in DOMAIN jobs
        /\ \E q \in Requests : BoundBy(c, q)

BindingInv == OwnRequest /\ WorksOnBound /\ BoundJobs

\* A job once bound to a case stays bound, whoever binds it again.
LEMMA JobIsFixed ==
  ASSUME Basic, SameRequestThroughout, JobsInv, BindingInv, [Next]_vars,
         NEW c \in Cases, cases[c].job # 0
  PROVE  cases'[c].job = cases[c].job
<1> PICK q \in Requests : BoundBy(c, q)
  BY DEF BindingInv, BoundJobs
<1>1. ASSUME NEW r \in Runners, RunnerStep(r), AdoptExternalJob(r), c = CaseOf(r)
      PROVE  ctx[r].req.job = cases[c].job
  <2>1. Executing(r) /\ ctx[r].req.job # 0
    BY <1>1 DEF AdoptExternalJob, Adoptable, Executing, Work, Basic, Types, JobsType
  <2>2. ctx[r].req.fp = q.fp /\ ctx[r].req \in Requests
    BY <1>1, <2>1 DEF SameRequestThroughout, SameRequest, Row, BoundBy, Basic, HasRequest,
                      Executing, Work
  <2>3. ctx[r].req = q
    BY <2>2, RunCaseAssumption
  <2> QED BY <2>1, <2>3 DEF BoundBy
<1>2. ASSUME NEW r \in Runners, RunnerStep(r), JobIdFromTx(r), c = CaseOf(r)
      PROVE  txs[call[r].tx].made = cases[c].job
  <2>1. Executing(r) /\ ctx[r].req.job = 0
    BY <1>2 DEF JobIdFromTx, BindingInv, OwnRequest, Executing, Work
  <2>2. ctx[r].req.fp = q.fp /\ ctx[r].req \in Requests
    BY <1>2, <2>1 DEF SameRequestThroughout, SameRequest, Row, BoundBy, Basic, HasRequest,
                      Executing, Work
  <2>3. ctx[r].req = q
    BY <2>2, RunCaseAssumption
  <2>4. PICK row \in txLog : CreatedBy(row, c, cases[c].job)
    BY <2>1, <2>3 DEF BoundBy
  <2>5. [key |-> CreateKey(CaseOf(r)), tx |-> call[r].tx] \in txLog
    BY <1>2 DEF JobIdFromTx, JobsInv, HoldsCreateRow
  <2>6. row.tx = call[r].tx
    BY <1>2, <2>4, <2>5 DEF CreatedBy, JobsInv, UniqueKeys
  <2> QED BY <2>4, <2>6 DEF CreatedBy
<1>3. CASE UNCHANGED cases
  BY <1>3
<1> QED BY <1>1, <1>2, <1>3, JobOfCase, NextSteps, EnvChanges DEF vars, storeVars

\* OwnRequest is preserved by every step.
LEMMA OwnRequestStep ==
  ASSUME Basic, OwnRequest, [Next]_vars
  PROVE  OwnRequest'
<1> SUFFICES ASSUME NEW s \in Runners, pc'[s] \in {"createJob", "jobId"}
             PROVE  ctx'[s].req.job = 0
  BY DEF OwnRequest
<1>1. CASE RunnerStep(s)
  <2>1. ctx'[s].req = ctx[s].req
    BY <1>1, KeepsRequest
  <2>2. (Intake(s) /\ ctx[s].req.job = 0) \/ pc[s] = "createJob"
    BY <1>1, WhereTo DEF ChainAction, AfterWrite
  <2> QED BY <2>1, <2>2 DEF OwnRequest
<1>2. CASE pc'[s] = pc[s] /\ ctx'[s] = ctx[s]
  BY <1>2 DEF OwnRequest
<1>3. CASE EnvStep
  BY <1>2, <1>3, EnvChanges DEF Inside, Executing, Work
<1>4. CASE UNCHANGED vars
  BY <1>2, <1>4 DEF vars
<1> QED BY <1>1, <1>2, <1>3, <1>4, NextSteps, OthersStay

\* A successful createJob that is in a runner's hands made a job.
LEMMA MadeJob ==
  ASSUME Basic, JobsInv, WritesInv, NEW r \in Runners, JobIdFromTx(r)
  PROVE  txs[call[r].tx].made \in DOMAIN jobs /\ txs[call[r].tx].made # 0
<1>1. /\ call[r].tx \in DOMAIN txs /\ txs[call[r].tx].status = "success"
      /\ [key |-> CreateKey(CaseOf(r)), tx |-> call[r].tx] \in txLog
  BY DEF JobIdFromTx, JobsInv, HoldsCreateRow, Basic, HeldHandles
<1>2. CreateKey(CaseOf(r))[1] = "createJob"
  BY DEF CreateKey
<1>3. txs[call[r].tx].act = "createJob"
  BY <1>1, <1>2 DEF WritesInv, LoggedWrites
<1>4. txs[call[r].tx].made \in DOMAIN jobs
  BY <1>1, <1>3 DEF WritesInv, CreatedJobs
<1> QED BY <1>4 DEF Basic, Types, JobsType

\* WorksOnBound is preserved by every step.
LEMMA WorksOnBoundStep ==
  ASSUME Basic, SameRequestThroughout, JobsInv, WritesInv, BindingInv, [Next]_vars
  PROVE  WorksOnBound'
<1> SUFFICES ASSUME NEW s \in Runners, pc'[s] \in BoundStages
             PROVE  ctx'[s].job # 0 /\ cases'[CaseOf(s)'].job = ctx'[s].job
  BY DEF WorksOnBound
<1>1. ASSUME pc[s] \in BoundStages, ctx'[s].job = ctx[s].job, ctx'[s].req = ctx[s].req
      PROVE  ctx'[s].job # 0 /\ cases'[CaseOf(s)'].job = ctx'[s].job
  <2>1. ctx[s].job # 0 /\ cases[CaseOf(s)].job = ctx[s].job
    BY <1>1 DEF BindingInv, WorksOnBound
  <2>2. CaseOf(s)' = CaseOf(s) /\ CaseOf(s) \in Cases
    BY <1>1, RunnerLocals DEF CaseOf, BoundStages, Work
  <2> QED BY <1>1, <2>1, <2>2, JobIsFixed
<1>2. CASE RunnerStep(s)
  <2>0. ctx'[s].req = ctx[s].req /\ CaseOf(s)' = CaseOf(s) /\ CaseOf(s) \in Cases
    BY <1>2, KeepsRequest, RunnerLocals DEF BoundStages, Work, CaseOf
  <2>1. CASE AdoptExternalJob(s)
    BY <2>0, <2>1 DEF AdoptExternalJob, BindJob, SetCase, Adoptable, Basic, Types, CtxType, Ctx,
                      CasesType, CaseRow, JobsType
  <2>2. CASE JobIdFromTx(s)
    <3>1. txs[call[s].tx].made # 0
      BY <2>2, MadeJob
    <3> QED BY <2>0, <2>2, <3>1 DEF JobIdFromTx, BindJob, SetCase, Basic, Types, CtxType, Ctx,
                                    CasesType, CaseRow
  <2>3. CASE ~(AdoptExternalJob(s) \/ JobIdFromTx(s))
    <3>1. pc[s] \in BoundStages
      BY <1>2, <2>3, WhereTo, ZenonT(30)
         DEF BoundStages, Work, ChainAction, AfterWrite, NotPurchased, Pay, ReusePurchase,
             RecordPurchase, Assess, MarkSubmitted, Verify, Settle, RecordLedger,
             ReconcileJobState
    <3>2. ctx'[s].job = ctx[s].job
      BY <1>2, <2>3, JobOfRunner DEF BoundStages, Work
    <3> QED BY <1>1, <2>0, <3>1, <3>2
  <2> QED BY <2>1, <2>2, <2>3
<1>3. CASE pc'[s] = pc[s] /\ ctx'[s] = ctx[s]
  BY <1>1, <1>3
<1>4. CASE EnvStep
  BY <1>3, <1>4, EnvChanges DEF Inside, Executing, Work, BoundStages
<1>5. CASE UNCHANGED vars
  BY <1>3, <1>5 DEF vars
<1> QED BY <1>2, <1>3, <1>4, <1>5, NextSteps, OthersStay

\* The row of a case that was begun keeps its fingerprint.
LEMMA FpIsFixed ==
  ASSUME Basic, [Next]_vars, NEW c \in Cases, runs[c].status # "none"
  PROVE  runs'[c].status # "none" /\ runs'[c].fp = runs[c].fp
<1>1. CASE \E r \in Runners : RunnerStep(r)
  BY <1>1, RowChanges
<1>2. CASE EnvStep
  BY <1>2, EnvChanges
<1> QED BY <1>1, <1>2, NextSteps DEF vars, storeVars

\* BoundJobs is preserved by every step.
LEMMA BoundJobsStep ==
  ASSUME Basic, SameRequestThroughout, JobsInv, WritesInv, BindingInv, [Next]_vars
  PROVE  BoundJobs'
<1> SUFFICES ASSUME NEW c \in Cases, cases'[c].job # 0
             PROVE  /\ runs'[c].status # "none"
                    /\ cases'[c].job \in DOMAIN jobs'
                    /\ \E q \in Requests : BoundBy(c, q)'
  BY DEF BoundJobs
<1>0. DOMAIN jobs \subseteq DOMAIN jobs' /\ txLog \subseteq txLog'
  BY JobsAreKept, RowsAreKept
<1>1. CASE cases[c].job # 0
  <2>1. PICK q \in Requests : BoundBy(c, q)
    BY <1>1 DEF BindingInv, BoundJobs
  <2>2. /\ cases'[c].job = cases[c].job /\ cases[c].job \in DOMAIN jobs
        /\ runs'[c].status # "none" /\ runs'[c].fp = runs[c].fp
    BY <1>1, JobIsFixed, FpIsFixed DEF BindingInv, BoundJobs
  <2>3. ASSUME NEW row \in txLog, CreatedBy(row, c, cases[c].job)
        PROVE  row \in txLog' /\ CreatedBy(row, c, cases[c].job)'
    <3>1. row.tx \in DOMAIN txs /\ txs[row.tx].status = "success"
      BY <2>3 DEF CreatedBy, Basic, LoggedHandles
    <3>2. txs'[row.tx] = txs[row.tx]
      BY <3>1, MinedIsFinal
    <3> QED BY <1>0, <2>2, <2>3, <3>2 DEF CreatedBy, CreateKey
  <2>4. BoundBy(c, q)'
    BY <2>1, <2>2, <2>3 DEF BoundBy
  <2> QED BY <1>0, <2>2, <2>4
<1>2. ASSUME cases[c].job = 0, NEW r \in Runners, RunnerStep(r)
      PROVE  /\ runs'[c].status # "none"
             /\ cases'[c].job \in DOMAIN jobs'
             /\ \E q \in Requests : BoundBy(c, q)'
  <2>1. /\ c = CaseOf(r)
        /\ \/ AdoptExternalJob(r) /\ cases'[c].job = ctx[r].req.job
           \/ JobIdFromTx(r) /\ cases'[c].job = txs[call[r].tx].made
    BY <1>2, JobOfCase
  <2>2. Executing(r) /\ ctx[r].req \in Requests
    BY <2>1 DEF AdoptExternalJob, JobIdFromTx, Executing, Work, Basic, HasRequest
  <2>3. runs[c].status # "none" /\ ctx[r].req.fp = runs[c].fp
    BY <2>1, <2>2 DEF SameRequestThroughout, SameRequest, Row
  <2>4. runs'[c].status # "none" /\ runs'[c].fp = ctx[r].req.fp
    BY <2>3, FpIsFixed
  <2>5. PICK q \in Requests : q = ctx[r].req
    BY <2>2
  <2>6. CASE AdoptExternalJob(r) /\ cases'[c].job = ctx[r].req.job
    <3>1. q.job \in DOMAIN jobs /\ q.job # 0 /\ cases'[c].job = q.job
      BY <2>5, <2>6 DEF AdoptExternalJob, Adoptable, Basic, Types, JobsType
    <3>2. BoundBy(c, q)'
      BY <2>4, <2>5, <3>1 DEF BoundBy
    <3> QED BY <1>0, <2>4, <3>1, <3>2
  <2>7. CASE JobIdFromTx(r) /\ cases'[c].job = txs[call[r].tx].made
    <3>1. q.job = 0
      BY <2>5, <2>7 DEF JobIdFromTx, BindingInv, OwnRequest
    <3>2. txs[call[r].tx].made \in DOMAIN jobs
      BY <2>7, MadeJob
    <3>3. PICK row \in txLog : row.key = CreateKey(c) /\ row.tx = call[r].tx
      BY <2>1, <2>7 DEF JobIdFromTx, JobsInv, HoldsCreateRow
    <3>4. row.tx \in DOMAIN txs /\ txs[row.tx].status = "success"
      BY <2>7, <3>3 DEF JobIdFromTx, Basic, LoggedHandles
    <3>5. txs'[row.tx] = txs[row.tx]
      BY <3>4, MinedIsFinal
    <3>6. CreatedBy(row, c, cases[c].job)'
      BY <2>7, <3>3, <3>4, <3>5 DEF CreatedBy, CreateKey
    <3>7. BoundBy(c, q)'
      BY <1>0, <2>4, <2>5, <3>1, <3>3, <3>6 DEF BoundBy
    <3> QED BY <1>0, <2>4, <2>7, <3>2, <3>7
  <2> QED BY <2>1, <2>6, <2>7
<1> QED BY <1>1, <1>2, NextSteps, EnvChanges DEF vars, storeVars

\* BindingInv is an invariant.
LEMMA BindingInvariant == Spec => []BindingInv
<1>1. Init => BindingInv
  BY DEF Init, BindingInv, OwnRequest, WorksOnBound, BoundJobs, BoundStages, Work
<1>2. Basic /\ SameRequestThroughout /\ JobsInv /\ WritesInv /\ BindingInv /\ [Next]_vars
        => BindingInv'
  BY OwnRequestStep, WorksOnBoundStep, BoundJobsStep DEF BindingInv
<1> QED BY <1>1, <1>2, BasicInvariant, AlwaysSameRequest, JobsInvariant, WritesInvariant, PTL DEF Spec

----------------------------------------------------------------------------
(* How far a case has come *)

\* A runner past intake works on a case that was opened; one past the submission
\* on a case that was submitted, or ended since.  A case is assessed only with its
\* purchase kept, and ends only with a job, and as that job did.
Begun ==
    \A r \in Runners : pc[r] \in Work \ {"intake", "fail"} => cases[CaseOf(r)].state # "none"
AfterSubmit == {"verify", "settle", "complete", "reject", "ledger", "reconcile", "succeed"}
SubmittedFirst ==
    \A r \in Runners : pc[r] \in AfterSubmit => Progress(cases[CaseOf(r)].state) >= 5
PurchasedFirst == \A c \in Cases : Progress(cases[c].state) >= 3 => purchases[c] # 0
EndedBound == \A c \in Cases : cases[c].state \in {"settled", "rejected"} => cases[c].job # 0

ProgressInv == Begun /\ SubmittedFirst /\ PurchasedFirst /\ EndedBound /\ EndAgreesWithChain

\* No step takes a case back, and a case that ended stays as it ended.
LEMMA CaseMoves ==
  ASSUME Basic, [Next]_vars, NEW c \in Cases
  PROVE  /\ Progress(cases[c].state) \in 0 .. 6 /\ Progress(cases'[c].state) \in 0 .. 6
         /\ Progress(cases'[c].state) >= Progress(cases[c].state)
         /\ Progress(cases[c].state) = 6 =>
              cases'[c].state = cases[c].state /\ cases'[c].exit = cases[c].exit
<1>0. cases[c] \in CaseRow /\ cases[c].state \in CaseState /\ Progress(cases[c].state) \in 0 .. 6
  BY Ranks DEF Basic, Types, CasesType, CaseRow
<1>1. ASSUME NEW r \in Runners, RunnerStep(r)
      PROVE  /\ Progress(cases'[c].state) \in 0 .. 6
             /\ Progress(cases'[c].state) >= Progress(cases[c].state)
             /\ Progress(cases[c].state) = 6 =>
                  cases'[c].state = cases[c].state /\ cases'[c].exit = cases[c].exit
  <2>1. PICK row \in CaseRow : /\ cases' = [cases EXCEPT ![CaseOf(r)] = row]
                               /\ Turns(r, cases[CaseOf(r)], row)
    BY <1>1, CaseChanges
  <2>2. CASE c # CaseOf(r)
    BY <1>0, <2>1, <2>2 DEF Basic, Types, CasesType
  <2>3. CASE c = CaseOf(r)
    <3>1. cases'[c] = row /\ Turns(r, cases[c], row) /\ row.state \in CaseState
      BY <2>1, <2>3 DEF Basic, Types, CasesType, CaseRow
    <3>2. /\ Rank(row.state) \in 0 .. 5 /\ Progress(row.state) \in 0 .. 6
          /\ Rank(row.state) >= 1 => Progress(row.state) = Rank(row.state)
          /\ row.state \in {"settled", "rejected"} => Progress(row.state) = 6
          /\ row.state = "intake" => Progress(row.state) >= 1
      BY <3>1, Ranks
    <3>3. /\ Rank(cases[c].state) \in 0 .. 5
          /\ Rank(cases[c].state) >= 1 => Progress(cases[c].state) = Rank(cases[c].state)
          /\ cases[c].state = "none" => Progress(cases[c].state) = 0
      BY <1>0, Ranks
    <3>4. CASE Forward(cases[c], row)
      BY <1>0, <3>1, <3>2, <3>3, <3>4 DEF Forward
    <3>5. CASE Ends(cases[c], row, jobs[ctx[r].job].status)
      BY <1>0, <3>1, <3>2, <3>3, <3>5 DEF Ends
    <3>6. CASE cases[c].state = "none" /\ row.state = "intake"
      BY <1>0, <3>1, <3>2, <3>3, <3>6
    <3>7. CASE row.state = cases[c].state /\ row.exit = cases[c].exit
      BY <1>0, <3>1, <3>7
    <3> QED BY <3>1, <3>4, <3>5, <3>6, <3>7, <2>3 DEF Turns
  <2> QED BY <2>2, <2>3
<1>2. CASE UNCHANGED cases
  BY <1>0, <1>2
<1> QED BY <1>0, <1>1, <1>2, NextSteps, EnvChanges DEF vars, storeVars

\* What newly ended a case, and what newly brought it to assessment.
LEMMA CaseTurns ==
  ASSUME Basic, [Next]_vars, NEW c \in Cases, cases'[c].state # cases[c].state
  PROVE  \E r \in Runners :
            /\ RunnerStep(r) /\ c = CaseOf(r)
            /\ \/ cases'[c].state = "intake"
               \/ cases'[c].state = "decomposed"
               \/ /\ ReusePurchase(r) \/ RecordPurchase(r) \/ MarkSubmitted(r)
                       \/ \E sa \in Sas : Assess(r, sa)
                  /\ cases'[c].state \notin {"settled", "rejected"}
               \/ ReconcileJobState(r) /\ Ends(cases[c], cases'[c], jobs[ctx[r].job].status)
<1>1. PICK r \in Runners : RunnerStep(r)
  BY NextSteps, EnvChanges DEF vars, storeVars
<1>2. PICK row \in CaseRow : /\ cases' = [cases EXCEPT ![CaseOf(r)] = row]
                             /\ Turns(r, cases[CaseOf(r)], row)
  BY <1>1, CaseChanges
<1>3. c = CaseOf(r) /\ cases'[c] = row /\ row.state \in CaseState
  BY <1>2 DEF Basic, Types, CasesType, CaseRow
<1>4. Forward(cases[c], row) => row.state \notin {"settled", "rejected"}
  BY <1>3 DEF Forward, Rank
<1> QED BY <1>1, <1>2, <1>3, <1>4 DEF Turns

\* Begun and SubmittedFirst are preserved by every step.
LEMMA BegunStep ==
  ASSUME Basic, Begun, SubmittedFirst, [Next]_vars
  PROVE  Begun' /\ SubmittedFirst'
<1> SUFFICES ASSUME NEW s \in Runners, pc'[s] \in Work \ {"intake", "fail"}
             PROVE  /\ cases'[CaseOf(s)'].state # "none"
                    /\ pc'[s] \in AfterSubmit => Progress(cases'[CaseOf(s)'].state) >= 5
  BY DEF Begun, SubmittedFirst, AfterSubmit, Work
<1>1. ASSUME pc[s] \in Work \ {"intake", "fail"}, CaseOf(s)' = CaseOf(s),
             pc'[s] \in AfterSubmit => pc[s] \in AfterSubmit
      PROVE  /\ cases'[CaseOf(s)'].state # "none"
             /\ pc'[s] \in AfterSubmit => Progress(cases'[CaseOf(s)'].state) >= 5
  <2>1. CaseOf(s) \in Cases /\ cases[CaseOf(s)].state # "none" /\ cases[CaseOf(s)].state \in CaseState
    BY <1>1, RunnerLocals DEF Begun, Work, Basic, Types, CasesType, CaseRow
  <2>2. Progress(cases[CaseOf(s)].state) >= 1
    BY <2>1, Ranks
  <2>3. pc'[s] \in AfterSubmit => Progress(cases[CaseOf(s)].state) >= 5
    BY <1>1 DEF SubmittedFirst
  <2>4. Progress("none") = 0
    BY DEF Progress, Rank
  <2> QED BY <1>1, <2>1, <2>2, <2>3, <2>4, CaseMoves
<1>2. CASE RunnerStep(s)
  <2>0. CaseOf(s)' = CaseOf(s)
    BY <1>2, KeepsRequest DEF Work, CaseOf
  <2>1. PICK row \in CaseRow :
               /\ cases' = [cases EXCEPT ![CaseOf(s)] = row]
               /\ Intake(s) => row.state # "none"
               /\ MarkSubmitted(s) /\ cases[CaseOf(s)].state # "none" => Progress(row.state) >= 5
    BY <1>2, CaseChanges
  <2>2. CaseOf(s) \in Cases /\ cases'[CaseOf(s)] = row /\ row.state \in CaseState
    BY <1>2, <2>1, CaseChanges DEF Basic, Types, CasesType, CaseRow
  <2>3. CASE Intake(s)
    <3>1. pc'[s] \notin AfterSubmit
      BY <2>3 DEF Intake, Goto, AfterSubmit, Basic, Types, PcType
    <3> QED BY <2>0, <2>1, <2>2, <2>3, <3>1
  <2>4. CASE MarkSubmitted(s)
    <3>1. cases[CaseOf(s)].state # "none"
      BY <2>4 DEF MarkSubmitted, Begun, Work
    <3>2. Progress(row.state) >= 5
      BY <2>1, <2>4, <3>1
    <3>3. Progress("none") = 0
      BY DEF Progress, Rank
    <3> QED BY <2>0, <2>2, <3>2, <3>3
  <2>5. CASE ~(Intake(s) \/ MarkSubmitted(s))
    <3>1. pc[s] \in Work \ {"intake", "fail"} /\ (pc'[s] \in AfterSubmit => pc[s] \in AfterSubmit)
      BY <1>2, <2>5, WhereTo
         DEF Work, AfterSubmit, ChainAction, AfterWrite, AdoptExternalJob, JobIdFromTx,
             NotPurchased, Pay, ReusePurchase, RecordPurchase, Assess, Verify, Settle,
             RecordLedger, ReconcileJobState
    <3> QED BY <1>1, <2>0, <3>1
  <2> QED BY <2>3, <2>4, <2>5
<1>3. CASE pc'[s] = pc[s] /\ ctx'[s] = ctx[s]
  BY <1>1, <1>3 DEF CaseOf
<1>4. CASE EnvStep
  BY <1>3, <1>4, EnvChanges DEF Inside, Executing, Work
<1>5. CASE UNCHANGED vars
  BY <1>3, <1>5 DEF vars
<1> QED BY <1>2, <1>3, <1>4, <1>5, NextSteps, OthersStay

\* PurchasedFirst is preserved by every step.
LEMMA PurchasedFirstStep ==
  ASSUME Basic, Receipts, SubmittedFirst, PurchasedFirst, [Next]_vars
  PROVE  PurchasedFirst'
<1> SUFFICES ASSUME NEW c \in Cases, Progress(cases'[c].state) >= 3
             PROVE  purchases'[c] # 0
  BY DEF PurchasedFirst
<1>1. CASE purchases[c] # 0
  BY <1>1, NextSteps, PurchaseIsKept, EnvChanges DEF vars, storeVars
<1>2. CASE purchases[c] = 0
  <2>1. ~(Progress(cases[c].state) >= 3)
    BY <1>2 DEF PurchasedFirst
  <2>2. PICK r \in Runners :
            /\ RunnerStep(r) /\ c = CaseOf(r)
            /\ \/ cases'[c].state = "intake"
               \/ cases'[c].state = "decomposed"
               \/ ReusePurchase(r) \/ RecordPurchase(r) \/ MarkSubmitted(r)
                       \/ \E sa \in Sas : Assess(r, sa)
               \/ ReconcileJobState(r)
    BY <2>1, CaseTurns
  <2>3. Progress("intake") = 1 /\ Progress("decomposed") = 2
    BY DEF Progress, Rank
  <2>4. ~ReusePurchase(r)
    BY <1>2, <2>2 DEF ReusePurchase
  <2>5. ~(MarkSubmitted(r) \/ \E sa \in Sas : Assess(r, sa))
    BY <1>2, <2>2 DEF MarkSubmitted, Assess, Receipts, HeldReceipts, Purchased
  <2>6. ~ReconcileJobState(r)
    <3>1. ReconcileJobState(r) => Progress(cases[c].state) >= 5
      BY <2>2 DEF ReconcileJobState, SubmittedFirst, AfterSubmit
    <3> QED BY <2>1, <3>1, CaseMoves
  <2>7. RecordPurchase(r)
    BY <2>2, <2>3, <2>4, <2>5, <2>6
  <2>8. ctx[r].receipt # 0
    BY <2>7 DEF RecordPurchase, Receipts, PaidReceipts, ReceiptFor, Basic, Types, PaymentsType
  <2> QED BY <1>2, <2>2, <2>7, <2>8 DEF RecordPurchase, Kept, Basic, Types, PurchasesType
<1> QED BY <1>1, <1>2

\* A case ends only at a runner's reconciliation, after its submission, with the
\* outcome of the job the case is bound to.
LEMMA EndsAtReconcile ==
  ASSUME Basic, BindingInv, SubmittedFirst, [Next]_vars, NEW c \in Cases,
         cases'[c].state # cases[c].state, cases'[c].state \in {"settled", "rejected"}
  PROVE  /\ cases[c].job # 0 /\ cases[c].state = "submitted" /\ UNCHANGED jobs
         /\ cases'[c].job = cases[c].job
         /\ Ends(cases[c], cases'[c], jobs[cases[c].job].status)
<1>1. PICK r \in Runners :
            /\ RunnerStep(r) /\ c = CaseOf(r) /\ ReconcileJobState(r)
            /\ Ends(cases[c], cases'[c], jobs[ctx[r].job].status)
  <2>1. PICK r \in Runners :
            /\ RunnerStep(r) /\ c = CaseOf(r)
            /\ \/ cases'[c].state = "intake"
               \/ cases'[c].state = "decomposed"
               \/ cases'[c].state \notin {"settled", "rejected"}
               \/ ReconcileJobState(r) /\ Ends(cases[c], cases'[c], jobs[ctx[r].job].status)
    BY CaseTurns
  <2> QED BY <2>1
<1>2. /\ ctx[r].job # 0 /\ cases[c].job = ctx[r].job
      /\ Progress(cases[c].state) >= 5
  BY <1>1 DEF ReconcileJobState, BindingInv, WorksOnBound, BoundStages, Work, SubmittedFirst,
              AfterSubmit
<1>3. cases[c].state \in CaseState /\ Rank(cases[c].state) >= 1
  BY <1>1 DEF Ends, Basic, Types, CasesType, CaseRow
<1>4. cases[c].state = "submitted"
  BY <1>2, <1>3, Ranks
<1>5. UNCHANGED jobs
  BY <1>1 DEF ReconcileJobState, chainVars
<1> QED BY <1>1, <1>2, <1>4, <1>5 DEF Ends

\* EndedBound and EndAgreesWithChain are preserved by every step.
LEMMA EndStep ==
  ASSUME Basic, SameRequestThroughout, JobsInv, BindingInv, SubmittedFirst, EndedBound,
         EndAgreesWithChain, [Next]_vars
  PROVE  EndedBound' /\ EndAgreesWithChain'
<1> DEFINE Agrees(c) ==
      LET status == jobs[cases[c].job].status
      IN  /\ cases[c].state = "settled" => status = "completed"
          /\ cases[c].state = "rejected" =>
               \/ cases[c].exit = "verifier_rejected" /\ status = "rejected"
               \/ cases[c].exit = "timeout_refund" /\ status = "expired"
<1> SUFFICES ASSUME NEW c \in Cases, cases'[c].state \in {"settled", "rejected"}
             PROVE  cases'[c].job # 0 /\ Agrees(c)'
  BY DEF EndedBound, EndAgreesWithChain
<1>1. CASE cases'[c].state = cases[c].state
  <2>1. cases[c].job # 0 /\ Agrees(c)
    BY <1>1 DEF EndedBound, EndAgreesWithChain
  <2>2. cases'[c].job = cases[c].job /\ cases[c].job \in DOMAIN jobs
    BY <2>1, JobIsFixed DEF BindingInv, BoundJobs
  <2>3. cases'[c].exit = cases[c].exit
    <3>1. Progress(cases[c].state) = 6
      BY <1>1 DEF Progress
    <3> QED BY <3>1, CaseMoves
  <2>4. jobs[cases[c].job].status \in JobTerminal
    BY <1>1, <2>1 DEF JobTerminal
  <2>5. jobs'[cases[c].job] = jobs[cases[c].job]
    BY <2>2, <2>4, JobsAreKept
  <2> QED BY <1>1, <2>1, <2>2, <2>3, <2>5
<1>2. CASE cases'[c].state # cases[c].state
  <2>1. /\ cases[c].job # 0 /\ cases[c].state = "submitted" /\ UNCHANGED jobs
        /\ cases'[c].job = cases[c].job
        /\ Ends(cases[c], cases'[c], jobs[cases[c].job].status)
    BY <1>2, EndsAtReconcile
  <2> QED BY <2>1 DEF Ends
<1> QED BY <1>1, <1>2

\* ProgressInv is an invariant.
LEMMA ProgressInvariant == Spec => []ProgressInv
<1>1. Init => ProgressInv
  <2>1. Progress("none") = 0
    BY DEF Progress, Rank
  <2> QED BY <2>1 DEF Init, ProgressInv, Begun, SubmittedFirst, PurchasedFirst, EndedBound,
                      EndAgreesWithChain, AfterSubmit, Work
<1>2. Basic /\ SameRequestThroughout /\ Receipts /\ JobsInv /\ BindingInv /\ ProgressInv
        /\ [Next]_vars => ProgressInv'
  BY BegunStep, PurchasedFirstStep, EndStep DEF ProgressInv
<1> QED BY <1>1, <1>2, BasicInvariant, AlwaysSameRequest, ReceiptsInvariant, JobsInvariant,
           BindingInvariant, PTL DEF Spec

\* A case is settled only if its job was completed, and rejected only by the
\* verifier or by the refund after expiry, as its job was, in every state: whatever
\* crashes, overlaps or is taken over, a case never ends against the chain.
THEOREM EndAlwaysAgrees == Spec => []EndAgreesWithChain
  BY ProgressInvariant, PTL DEF ProgressInv

----------------------------------------------------------------------------
(* The tables implement the promised record of a case *)

\* What the abstract record is made of.
ProgressOf == [c \in Cases |-> Progress(cases[c].state)]
JobsOf == [c \in Cases |-> cases[c].job]
ImageOf(e) == [case |-> e.case, income |-> e.category = "case_fee", ref |-> e.ref]
BooksOf == {ImageOf(e) : e \in ledger}

\* A step that leaves the three tables as they are is a stutter of the record.
LEMMA RecordStutters ==
  ASSUME ProgressOf' = ProgressOf, JobsOf' = JobsOf, purchases' = purchases, BooksOf' = BooksOf
  PROVE  [Promise!Next]_(Promise!record)
  BY DEF ProgressOf, JobsOf, BooksOf, ImageOf, Promise!record

\* A case that moves on moves the record on.
LEMMA RecordMoves ==
  ASSUME NEW c \in Cases, NEW n \in 0 .. 6, ProgressOf[c] \in 0 .. 6, n >= ProgressOf[c],
         ProgressOf' = [ProgressOf EXCEPT ![c] = n],
         JobsOf' = JobsOf, purchases' = purchases, BooksOf' = BooksOf
  PROVE  [Promise!Next]_(Promise!record)
<1>1. CASE n = ProgressOf[c]
  <2>1. ProgressOf' = ProgressOf
    BY <1>1 DEF ProgressOf
  <2> QED BY <2>1, RecordStutters
<1>2. CASE n > ProgressOf[c]
  <2>1. ProgressOf[c] < 6 /\ n \in ProgressOf[c] + 1 .. 6
    BY <1>2
  <2>2. Promise!Move(c)
    BY <2>1 DEF Promise!Move, ProgressOf, JobsOf, BooksOf, ImageOf
  <2> QED BY <2>2 DEF Promise!Next
<1> QED BY <1>1, <1>2

\* What a runner's step makes of the record's view of the case it is about.
LEMMA RecordOfCase ==
  ASSUME Basic, NEW c \in Cases, NEW row \in CaseRow, cases' = [cases EXCEPT ![c] = row]
  PROVE  /\ ProgressOf' = [ProgressOf EXCEPT ![c] = Progress(row.state)]
         /\ JobsOf' = [JobsOf EXCEPT ![c] = row.job]
         /\ Progress(row.state) \in 0 .. 6 /\ ProgressOf[c] \in 0 .. 6
         /\ ProgressOf[c] = Progress(cases[c].state) /\ JobsOf[c] = cases[c].job
         /\ Progress(row.state) = Progress(cases[c].state) => ProgressOf' = ProgressOf
         /\ row.job = cases[c].job => JobsOf' = JobsOf
<1>1. cases \in [Cases -> CaseRow]
  BY DEF Basic, Types, CasesType
<1>2. \A d \in Cases : cases'[d] = IF d = c THEN row ELSE cases[d]
  BY <1>1
<1>3. row.state \in CaseState /\ cases[c].state \in CaseState
  BY <1>1 DEF CaseRow
<1>4. Progress(row.state) \in 0 .. 6 /\ Progress(cases[c].state) \in 0 .. 6
  BY <1>3, Ranks
<1>5. ProgressOf' = [ProgressOf EXCEPT ![c] = Progress(row.state)]
  <2>1. ProgressOf' = [d \in Cases |-> Progress(cases'[d].state)]
    BY DEF ProgressOf, Progress, Rank
  <2>2. \A d \in Cases : Progress(cases'[d].state) = IF d = c THEN Progress(row.state) ELSE ProgressOf[d]
    BY <1>2 DEF ProgressOf
  <2>3. ProgressOf = [d \in Cases |-> ProgressOf[d]]
    BY DEF ProgressOf
  <2> HIDE DEF ProgressOf
  <2> QED BY <2>1, <2>2, <2>3
<1>6. JobsOf' = [JobsOf EXCEPT ![c] = row.job]
  <2>1. JobsOf' = [d \in Cases |-> cases'[d].job]
    BY DEF JobsOf
  <2>2. \A d \in Cases : cases'[d].job = IF d = c THEN row.job ELSE JobsOf[d]
    BY <1>2 DEF JobsOf
  <2>3. JobsOf = [d \in Cases |-> JobsOf[d]]
    BY DEF JobsOf
  <2> QED BY <2>1, <2>2, <2>3
<1>7. ProgressOf[c] = Progress(cases[c].state) /\ JobsOf[c] = cases[c].job
  BY DEF ProgressOf, JobsOf
<1>8. Progress(row.state) = Progress(cases[c].state) => ProgressOf' = ProgressOf
  BY <1>2 DEF ProgressOf
<1>9. row.job = cases[c].job => JobsOf' = JobsOf
  BY <1>2 DEF JobsOf
<1> QED BY <1>4, <1>5, <1>6, <1>7, <1>8, <1>9

\* Binding the job is Bind, or a stutter when it was bound before.
LEMMA BindPromise ==
  ASSUME Basic, SameRequestThroughout, JobsInv, WritesInv, BindingInv, ProgressInv,
         NEW r \in Runners, RunnerStep(r), AdoptExternalJob(r) \/ JobIdFromTx(r)
  PROVE  [Promise!Next]_(Promise!record)
<1> DEFINE c == CaseOf(r)
<1>1. c \in Cases /\ cases[c] \in CaseRow
  BY CaseChanges
<1>2. PICK row \in CaseRow : cases' = [cases EXCEPT ![c] = row] /\ Turns(r, cases[c], row)
  BY CaseChanges
<1>3. row.state = cases[c].state /\ (row = cases[c] \/ row.job = ctx'[r].job)
  BY <1>2 DEF Turns, AdoptExternalJob, JobIdFromTx, Intake, ReusePurchase, RecordPurchase,
              MarkSubmitted, Assess, NotPurchased, ReconcileJobState
<1>4. UNCHANGED <<purchases, ledger>>
  BY DEF AdoptExternalJob, JobIdFromTx
<1>5. BooksOf' = BooksOf
  BY <1>4 DEF BooksOf, ImageOf
<1>6. ProgressOf' = ProgressOf
  BY <1>1, <1>2, <1>3, RecordOfCase
<1>7. cases'[c] = row
  BY <1>1, <1>2 DEF Basic, Types, CasesType
<1>8. CASE cases[c].job # 0 \/ row = cases[c]
  <2>1. row.job = cases[c].job
    BY <1>1, <1>7, <1>8, JobIsFixed, NextSteps
  <2>2. JobsOf' = JobsOf
    BY <1>1, <1>2, <2>1, RecordOfCase
  <2> QED BY <1>4, <1>5, <1>6, <2>2, RecordStutters
<1>9. CASE cases[c].job = 0 /\ row # cases[c]
  <2>1. row.job \in Nat \ {0}
    <3>1. ctx'[r].job # 0
      <4>1. JobIdFromTx(r) => txs[call[r].tx].made # 0
        BY MadeJob
      <4>2. AdoptExternalJob(r) => ctx[r].req.job # 0
        BY DEF AdoptExternalJob, Adoptable, Basic, Types, JobsType
      <4>3. /\ AdoptExternalJob(r) => ctx'[r].job = ctx[r].req.job
            /\ JobIdFromTx(r) => ctx'[r].job = txs[call[r].tx].made
        BY DEF AdoptExternalJob, JobIdFromTx, BindJob, Basic, Types, CtxType, Ctx
      <4> QED BY <4>1, <4>2, <4>3
    <3> QED BY <1>3, <1>9, <3>1 DEF CaseRow
  <2>2. Progress(cases[c].state) > 0
    <3>1. cases[c].state # "none"
      BY DEF AdoptExternalJob, JobIdFromTx, ProgressInv, Begun, Work
    <3>2. cases[c].state \in CaseState
      BY <1>1 DEF CaseRow
    <3> QED BY <3>1, <3>2, Ranks
  <2>3. JobsOf' = [JobsOf EXCEPT ![c] = row.job] /\ JobsOf[c] = 0 /\ ProgressOf[c] > 0
    BY <1>1, <1>2, <1>9, <2>2, RecordOfCase
  <2>4. JobsOf'[c] = row.job
    BY <1>1, <2>3 DEF JobsOf
  <2> HIDE DEF c
  <2>5. ProgressOf[c] > 0 /\ JobsOf[c] = 0 /\ JobsOf'[c] \in Nat \ {0}
    BY <2>1, <2>3, <2>4
  <2>6. JobsOf' = [JobsOf EXCEPT ![c] = JobsOf'[c]]
    BY <2>3, <2>4
  <2>7. PICK d \in Cases : d = c
    BY <1>1
  <2>8. Promise!Bind(d)
    <3>1. ProgressOf[d] > 0 /\ JobsOf[d] = 0 /\ JobsOf'[d] \in Nat \ {0}
          /\ JobsOf' = [JobsOf EXCEPT ![d] = JobsOf'[d]]
      BY <2>5, <2>6, <2>7
    <3> QED BY <1>4, <1>5, <1>6, <3>1 DEF Promise!Bind, ProgressOf, JobsOf, BooksOf, ImageOf
  <2>9. Promise!Next
    BY <2>8 DEF Promise!Next
  <2> QED BY <2>9
<1> QED BY <1>8, <1>9

\* Recording the purchase is Keep, or a move when one was kept before.
LEMMA KeepPromise ==
  ASSUME Basic, Receipts, BindingInv, ProgressInv,
         NEW r \in Runners, RunnerStep(r), RecordPurchase(r)
  PROVE  [Promise!Next]_(Promise!record)
<1> DEFINE c == CaseOf(r)
<1>1. c \in Cases /\ cases[c] \in CaseRow /\ purchases \in [Cases -> Nat] /\ cases[c].state \in CaseState
  BY CaseChanges DEF Basic, Types, PurchasesType, CaseRow
<1>2. PICK row \in CaseRow : cases' = [cases EXCEPT ![c] = row] /\ Turns(r, cases[c], row)
  BY CaseChanges
<1>3. row = cases[c] \/ Forward(cases[c], row)
  BY <1>2 DEF Turns, AdoptExternalJob, JobIdFromTx, Intake, RecordPurchase, NotPurchased,
              ReconcileJobState
<1>4. BooksOf' = BooksOf
  BY DEF RecordPurchase, BooksOf, ImageOf
<1>5. JobsOf' = JobsOf
  BY <1>1, <1>2, <1>3, RecordOfCase DEF Forward
<1>6. /\ Progress(row.state) \in 0 .. 6 /\ Progress(cases[c].state) \in 0 .. 6
      /\ Progress(row.state) >= Progress(cases[c].state)
      /\ Progress(cases[c].state) < 6 => Progress(row.state) < 6
  <2>1. row.state \in CaseState
    BY DEF CaseRow
  <2> QED BY <1>1, <1>3, <2>1, Ranks DEF Forward
<1>7. /\ ProgressOf' = [ProgressOf EXCEPT ![c] = Progress(row.state)]
      /\ ProgressOf[c] = Progress(cases[c].state)
  BY <1>1, <1>2, RecordOfCase
<1>8. CASE purchases[c] # 0
  <2>1. purchases' = purchases
    BY <1>1, <1>8 DEF RecordPurchase, Kept
  <2> HIDE DEF c
  <2> QED BY <1>1, <1>4, <1>5, <1>6, <1>7, <2>1, RecordMoves
<1>9. CASE purchases[c] = 0
  <2>1. ctx[r].receipt \in Nat \ {0}
    BY DEF RecordPurchase, Receipts, PaidReceipts, ReceiptFor, Basic, Types, PaymentsType
  <2>2. purchases' = [purchases EXCEPT ![c] = ctx[r].receipt] /\ purchases'[c] = ctx[r].receipt
    BY <1>1, <1>9 DEF RecordPurchase, Kept
  <2>3. JobsOf[c] # 0
    BY <1>1, <1>2, RecordOfCase DEF RecordPurchase, BindingInv, WorksOnBound, BoundStages, Work
  <2>4. Progress(cases[c].state) < 3
    BY <1>1, <1>6, <1>9 DEF ProgressInv, PurchasedFirst
  <2>5. Progress(row.state) \in ProgressOf[c] .. 5
    BY <1>6, <1>7, <2>4
  <2> HIDE DEF c
  <2>6. PICK d \in Cases : d = c
    BY <1>1
  <2>7. Promise!Keep(d)
    <3>1. /\ JobsOf[d] # 0 /\ purchases[d] = 0 /\ purchases'[d] \in Nat \ {0}
          /\ purchases' = [purchases EXCEPT ![d] = purchases'[d]]
          /\ \E n \in ProgressOf[d] .. 5 : ProgressOf' = [ProgressOf EXCEPT ![d] = n]
      BY <1>7, <1>9, <2>1, <2>2, <2>3, <2>5, <2>6
    <3> QED BY <1>4, <1>5, <3>1 DEF Promise!Keep, ProgressOf, JobsOf, BooksOf, ImageOf
  <2> QED BY <2>7 DEF Promise!Next
<1> QED BY <1>8, <1>9

\* What the record sees of a row of the books.
LEMMA CostImage ==
  ASSUME NEW e, e.category # "case_fee"
  PROVE  ImageOf(e) = [case |-> e.case, income |-> FALSE, ref |-> e.ref]
<1>1. PICK b \in BOOLEAN : b = (e.category = "case_fee")
  OBVIOUS
<1>2. ImageOf(e) = [case |-> e.case, income |-> b, ref |-> e.ref]
  BY <1>1 DEF ImageOf
<1>3. b = FALSE
  BY <1>1
<1> QED BY <1>2, <1>3

LEMMA FeeImage ==
  ASSUME NEW e, e.category = "case_fee"
  PROVE  ImageOf(e) = [case |-> e.case, income |-> TRUE, ref |-> e.ref]
<1>1. PICK b \in BOOLEAN : b = (e.category = "case_fee")
  OBVIOUS
<1>2. ImageOf(e) = [case |-> e.case, income |-> b, ref |-> e.ref]
  BY <1>1 DEF ImageOf
<1>3. b = TRUE
  BY <1>1
<1> QED BY <1>2, <1>3

\* The rows a booking writes for a case's purchase and for its job.
LEMMA CostRows ==
  ASSUME NEW c, NEW n, NEW e \in ProcurementEntries(c, n)
  PROVE  e.case = c /\ e.ref = n /\ e.refType = "gateway_receipt" /\ e.category # "case_fee"
BY DEF ProcurementEntries, Entry

LEMMA FeeRows ==
  ASSUME NEW c, NEW j, NEW e \in CompleteEntries(c, j)
  PROVE  e.case = c /\ e.ref = j /\ e.refType = "jobId" /\ e.category = "case_fee"
BY DEF CompleteEntries, Entry

\* A booking is Book: its rows are about the purchase and the job of the case.
LEMMA BookPromise ==
  ASSUME Basic, Receipts, BindingInv, ProgressInv,
         NEW r \in Runners, RunnerStep(r), RecordLedger(r)
  PROVE  [Promise!Next]_(Promise!record)
<1> DEFINE c == CaseOf(r)
<1> DEFINE costs == ProcurementEntries(c, ctx[r].receipt)
<1> DEFINE fees == IF ctx[r].passed THEN CompleteEntries(c, ctx[r].job) ELSE {}
<1> DEFINE cost == [case |-> c, income |-> FALSE, ref |-> purchases[c]]
<1> DEFINE fee == [case |-> c, income |-> TRUE, ref |-> JobsOf[c]]
<1>1. c \in Cases /\ CaseOf(r) = c
  BY CaseChanges
<1>2. /\ purchases[c] # 0 /\ ctx[r].receipt = purchases[c]
      /\ cases[c].job = ctx[r].job /\ JobsOf[c] = ctx[r].job
      /\ Progress(cases[c].state) >= 5 /\ ProgressOf[c] >= 5
  BY <1>1 DEF RecordLedger, Receipts, HeldReceipts, Purchased, BindingInv, WorksOnBound,
              BoundStages, Work, ProgressInv, SubmittedFirst, AfterSubmit, JobsOf, ProgressOf
<1>3. UNCHANGED <<cases, purchases>> /\ ledger' = Booked(ledger, costs \cup fees)
  BY DEF RecordLedger
<1>4. ProgressOf' = ProgressOf /\ JobsOf' = JobsOf
  BY <1>3 DEF ProgressOf, JobsOf
<1>5. \A e \in costs : ImageOf(e) = cost /\ e.refType = "gateway_receipt" /\ e.ref = purchases[c]
  BY <1>2, CostRows, CostImage
<1>6. \A e \in fees : ImageOf(e) = fee
  BY <1>2, FeeRows, FeeImage
<1>7. \E e \in costs : TRUE
  BY DEF ProcurementEntries, Entry
<1>8. \A e \in costs : \A f \in ledger : SameEntry(e, f) => ImageOf(f) = cost
  <2> SUFFICES ASSUME NEW e \in costs, NEW f \in ledger, SameEntry(e, f)
               PROVE  ImageOf(f) = cost
    OBVIOUS
  <2>1. f.refType = "gateway_receipt" /\ f.ref = purchases[c] /\ f.category = e.category
    BY <1>5 DEF SameEntry
  <2>2. payments[f.ref] = f.case
    BY <2>1 DEF Receipts, CostsMatchPurchase
  <2>3. payments[purchases[c]] = c
    BY <1>1, <1>2 DEF Receipts, KeptReceipts, ReceiptFor
  <2>4. e.category # "case_fee"
    BY CostRows
  <2>5. f.case = c /\ f.ref = purchases[c] /\ f.category # "case_fee"
    BY <2>1, <2>2, <2>3, <2>4
  <2> QED BY <2>5, CostImage
<1> DEFINE added == {e \in fees : \A f \in ledger : ~SameEntry(e, f)}
<1>9. BooksOf' = BooksOf \cup {cost} \cup (IF added # {} THEN {fee} ELSE {})
  <2> HIDE DEF c, costs, fees, cost, fee, added
  <2>1. ledger' = ledger \cup {e \in costs : \A f \in ledger : ~SameEntry(e, f)} \cup added
    BY <1>3 DEF Booked, added
  <2>2. cost \in BooksOf'
    <3>1. PICK e \in costs : TRUE
      BY <1>7
    <3>2. CASE \A f \in ledger : ~SameEntry(e, f)
      BY <1>5, <2>1, <3>2 DEF BooksOf
    <3>3. CASE \E f \in ledger : SameEntry(e, f)
      BY <1>8, <2>1, <3>3 DEF BooksOf
    <3> QED BY <3>2, <3>3
  <2>3. BooksOf \subseteq BooksOf'
    BY <2>1 DEF BooksOf, ImageOf
  <2>4. added # {} => fee \in BooksOf'
    BY <1>6, <2>1 DEF BooksOf, added
  <2>5. BooksOf' \subseteq BooksOf \cup {cost} \cup (IF added # {} THEN {fee} ELSE {})
    BY <1>5, <1>6, <2>1 DEF BooksOf, ImageOf, added
  <2> QED BY <2>2, <2>3, <2>4, <2>5
<1>10. PICK d \in Cases : d = c
  BY <1>1
<1>11. Promise!Book(d)
  <2>1. PICK income \in BOOLEAN : income = (added # {})
    OBVIOUS
  <2>2. BooksOf' = BooksOf \cup {cost} \cup (IF income THEN {fee} ELSE {})
    BY <1>9, <2>1
  <2>3. BooksOf' = BooksOf \cup {[case |-> c, income |-> FALSE, ref |-> purchases[c]]}
                    \cup (IF income THEN {[case |-> c, income |-> TRUE, ref |-> JobsOf[c]]} ELSE {})
    BY <2>2
  <2>4. ProgressOf[d] >= 5
    BY <1>2, <1>10
  <2>5. BooksOf' = BooksOf \cup {[case |-> d, income |-> FALSE, ref |-> purchases[d]]}
                    \cup (IF income THEN {[case |-> d, income |-> TRUE, ref |-> JobsOf[d]]} ELSE {})
    BY <1>10, <2>3
  <2> HIDE DEF c, costs, fees, added, cost, fee
  <2> QED BY <1>3, <1>4, <2>4, <2>5 DEF Promise!Book, ProgressOf, JobsOf, BooksOf, ImageOf
<1>12. Promise!Next
  BY <1>11 DEF Promise!Next
<1> QED BY <1>12

\* Every step of a runner is a step of the record, or a stutter.
LEMMA RunnerPromise ==
  ASSUME Basic, SameRequestThroughout, Receipts, JobsInv, WritesInv, BindingInv, ProgressInv,
         NEW r \in Runners, RunnerStep(r)
  PROVE  [Promise!Next]_(Promise!record)
<1>1. CASE AdoptExternalJob(r) \/ JobIdFromTx(r)
  BY <1>1, BindPromise
<1>2. CASE RecordPurchase(r)
  BY <1>2, KeepPromise
<1>3. CASE RecordLedger(r)
  BY <1>3, BookPromise
<1>4. CASE ~(AdoptExternalJob(r) \/ JobIdFromTx(r) \/ RecordPurchase(r) \/ RecordLedger(r))
  <2> DEFINE c == CaseOf(r)
  <2>1. c \in Cases
    BY CaseChanges
  <2>2. PICK row \in CaseRow : cases' = [cases EXCEPT ![c] = row] /\ Turns(r, cases[c], row)
    BY CaseChanges
  <2>3. row.job = cases[c].job
    BY <1>4, <2>2 DEF Turns, Forward, Ends
  <2>4. UNCHANGED <<purchases, ledger>>
    BY <1>4, AdmitChanges, WriteChanges, ProceedChanges DEF RunnerStep
  <2>5. BooksOf' = BooksOf
    BY <2>4 DEF BooksOf, ImageOf
  <2>6. cases'[c] = row
    BY <2>1, <2>2 DEF Basic, Types, CasesType
  <2>7. Progress(row.state) >= Progress(cases[c].state)
    BY <2>1, <2>6, CaseMoves, NextSteps
  <2>8. /\ ProgressOf' = [ProgressOf EXCEPT ![c] = Progress(row.state)]
        /\ JobsOf' = JobsOf
        /\ Progress(row.state) \in 0 .. 6 /\ ProgressOf[c] \in 0 .. 6
        /\ ProgressOf[c] = Progress(cases[c].state)
    BY <2>1, <2>2, <2>3, RecordOfCase
  <2> HIDE DEF c
  <2> QED BY <2>1, <2>4, <2>5, <2>7, <2>8, RecordMoves
<1> QED BY <1>1, <1>2, <1>3, <1>4

\* The four tables, seen as a record of each case, only ever move forward, bind a
\* job once, keep a purchase once and book against their own case's job and
\* purchase (CaseRecord), however many processes run and whatever fails.
THEOREM RecordRefinement == Spec => ImplementsCaseRecord
<1>1. Init => Promise!Init
  <2>1. Progress("none") = 0
    BY DEF Progress, Rank
  <2> QED BY <2>1 DEF Init, Promise!Init
<1>2. Basic /\ SameRequestThroughout /\ Receipts /\ JobsInv /\ WritesInv /\ BindingInv
        /\ ProgressInv /\ [Next]_vars => [Promise!Next]_(Promise!record)
  <2> SUFFICES ASSUME Basic, SameRequestThroughout, Receipts, JobsInv, WritesInv, BindingInv,
                      ProgressInv, [Next]_vars
               PROVE  [Promise!Next]_(Promise!record)
    OBVIOUS
  <2>1. CASE \E r \in Runners : RunnerStep(r)
    BY <2>1, RunnerPromise
  <2>2. CASE UNCHANGED <<cases, purchases, ledger>>
    <3>1. ProgressOf' = ProgressOf /\ JobsOf' = JobsOf /\ BooksOf' = BooksOf /\ purchases' = purchases
      BY <2>2 DEF ProgressOf, JobsOf, BooksOf, ImageOf
    <3> QED BY <3>1, RecordStutters
  <2> QED BY <2>1, <2>2, NextSteps, EnvChanges DEF vars, storeVars
<1> QED BY <1>1, <1>2, BasicInvariant, AlwaysSameRequest, ReceiptsInvariant, JobsInvariant,
           WritesInvariant, BindingInvariant, ProgressInvariant, PTL
    DEF Spec, ImplementsCaseRecord, Promise!Spec
====================================================================
