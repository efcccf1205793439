------------------------ MODULE RunCaseOnceProofs ------------------------
(***************************************************************************)
(* What RunCase keeps when one server process runs it and no run is cut    *)
(* off between an effect and its record: a module is paid for once, a      *)
(* write is broadcast once, income is booked only for a job that paid out, *)
(* and a success answers what the chain holds.  Every hypothesis on FailAt *)
(* names the points whose failure breaks the property; the other points    *)
(* may fail, and any number of requests, runners and cases may be in play. *)
(***************************************************************************)
EXTENDS RunCaseRecordProofs, FiniteSetTheorems

\* A payment, a broadcast, or a settlement in flight is never cut off before it
\* is on record or mined.
PurchasesNotCut == \A f \in FailAt : f[1] # "paid"
NotCut(acts, phase) == \A f \in FailAt : ~(f[1] \in acts /\ f[2] = phase)
BroadcastsNotCut == NotCut(ChainAction, "record")
PayoutsNotCut == NotCut({"complete"}, "receipt")
SubmissionNotCut ==
    /\ \A f \in FailAt : f[1] \notin AfterSubmit \cup {"submitted"}
    /\ \A f \in FailAt : f[1] = "submit" => f[2] = "call"

\* No two cases bring the same job, and a job that is brought was made by a
\* browser wallet.
JobsApart ==
    \A q, s \in Requests : q.job # 0 =>
        /\ q.job \in DOMAIN ExternalJobs
        /\ q.job = s.job => q.case = s.case

\* A runner is cut off only where FailAt says so.
LEMMA Uncut ==
  ASSUME Basic, EnvStep, NEW s \in Runners, Executing(s), Point(s) \notin FailAt
  PROVE  pc'[s] = pc[s] /\ ctx'[s] = ctx[s] /\ call'[s] = call[s]
<1> USE DEF Basic, Types, PcType, CtxType, CallType
<1>1. CASE \E r \in Runners : CallFails(r)
  BY <1>1 DEF CallFails, Goto, clientVars
<1>2. CASE \E r \in Runners, q \in Requests : Arrive(r, q)
  BY <1>2 DEF Arrive, Goto, clientVars, Executing, Work
<1>3. CASE \E p \in Procs : Crash(p)
  BY <1>3 DEF Crash, Dies
<1>4. CASE (\E c \in Cases : GrowStale(c)) \/ ChainStep
  BY <1>4 DEF GrowStale, ChainStep, clientVars
<1> QED BY <1>1, <1>2, <1>3, <1>4 DEF EnvStep

----------------------------------------------------------------------------
(* A module is paid for once *)

\* Every payment is the one kept for its case, or is about to be: the runner that
\* made it holds its receipt. A runner that is to pay finds nothing kept.
InHand(r, n) == pc[r] = "paid" /\ CaseOf(r) = payments[n] /\ ctx[r].receipt = n
KeptOrInHand ==
    \A n \in DOMAIN payments :
        \/ purchases[payments[n]] = n
        \/ purchases[payments[n]] = 0 /\ \E r \in Runners : InHand(r, n)
NothingKept == \A r \in Runners : pc[r] \in {"pay", "paid"} => purchases[CaseOf(r)] = 0

PaymentsInv == KeptOrInHand /\ NothingKept

\* A runner comes to pay only from a case that has nothing kept.
LEMMA EntersPay ==
  ASSUME Basic, NEW r \in Runners, RunnerStep(r), pc'[r] \in {"pay", "paid"}
  PROVE  /\ NotPurchased(r) \/ (Pay(r) /\ pc[r] = "pay")
         /\ ctx'[r].req = ctx[r].req /\ UNCHANGED purchases
<1>1. NotPurchased(r) \/ Pay(r)
  BY WhereTo DEF ChainAction, AfterWrite
<1>2. ctx'[r].req = ctx[r].req
  BY KeepsRequest
<1> QED BY <1>1, <1>2 DEF NotPurchased, Pay, storeVars

\* Within one process a case's purchase is recorded by the run that paid for it.
LEMMA PaymentsRunnerStep ==
  ASSUME OneRunPerCase, Basic, PaymentsInv, NEW r \in Runners, RunnerStep(r)
  PROVE  PaymentsInv'
<1> USE DEF PaymentsInv
<1>0. CaseOf(r) \in Cases /\ ctx[r].receipt \in Nat /\ pc[r] # "idle"
  BY KeepsRequest, RunnerLocals DEF Ctx
<1>1. ASSUME NEW s \in Runners, pc'[s] \in {"pay", "paid"}
      PROVE  purchases'[CaseOf(s)'] = 0
  <2>1. CASE s = r
    BY <1>1, <2>1, EntersPay DEF NotPurchased, NothingKept, CaseOf
  <2>2. CASE s # r
    <3>1. pc[s] \in {"pay", "paid"} /\ CaseOf(s)' = CaseOf(s) /\ purchases[CaseOf(s)] = 0
      BY <1>1, <2>2, OthersStay DEF NothingKept, CaseOf
    <3>2. CASE RecordPurchase(r)
      <4>1. CaseOf(r) # CaseOf(s)
        BY <2>2, <3>1, <3>2 DEF OneRunPerCase, Executing, Work, RecordPurchase
      <4> QED BY <1>0, <3>1, <3>2, <4>1 DEF RecordPurchase, Basic, Types, PurchasesType
    <3> QED BY <3>1, <3>2, AdmitChanges, WriteChanges, ProceedChanges DEF RunnerStep
  <2> QED BY <2>1, <2>2
<1>2. ASSUME NEW n \in DOMAIN payments
      PROVE  \/ purchases'[payments'[n]] = n
             \/ purchases'[payments'[n]] = 0 /\ \E s \in Runners : InHand(s, n)'
  <2>0. payments'[n] = payments[n] /\ payments[n] \in Cases /\ n # 0
    BY PaymentsGrow DEF Basic, Types, PaymentsType
  <2>1. CASE purchases[payments[n]] = n
    BY <2>0, <2>1, PurchaseIsKept
  <2>2. CASE purchases[payments[n]] = 0 /\ \E s \in Runners : InHand(s, n)
    <3>1. PICK s \in Runners : InHand(s, n)
      BY <2>2
    <3>2. CASE s # r
      <4>1. InHand(s, n)'
        BY <2>0, <3>1, <3>2, OthersStay DEF InHand, CaseOf
      <4>2. purchases'[payments[n]] = 0
        BY <1>1, <2>0, <3>1, <3>2, <4>1, OthersStay DEF InHand
      <4> QED BY <2>0, <4>1, <4>2
    <3>3. CASE s = r
      <4>1. pc[r] = "paid" /\ CaseOf(r) = payments[n] /\ ctx[r].receipt = n
        BY <3>1, <3>3 DEF InHand
      <4>2. RecordPurchase(r)
        BY <4>1, AdmitChanges, WriteChanges
           DEF RunnerStep, ChainAction, Proceed, Intake, AdoptExternalJob, ExternalJobRefused, JobIdFromTx,
               ReceiptMissing, ReusePurchase, NotPurchased, Pay, Assess,
               EscalationUnconfigured, MarkSubmitted, Verify, Settle, RecordLedger,
               ReconcileJobState, Succeed, Fail
      <4>3. purchases'[CaseOf(r)] = n
        BY <1>0, <2>2, <4>1, <4>2 DEF RecordPurchase, Kept, Basic, Types, PurchasesType
      <4> QED BY <2>0, <4>1, <4>3
    <3> QED BY <3>2, <3>3
  <2> QED BY <2>1, <2>2 DEF KeptOrInHand
<1>3. ASSUME NEW n \in DOMAIN payments', n \notin DOMAIN payments
      PROVE  purchases'[payments'[n]] = 0 /\ \E s \in Runners : InHand(s, n)'
  <2>1. Pay(r)
    BY <1>3, AdmitChanges, WriteChanges, ProceedChanges DEF RunnerStep
  <2>2. payments' = Append(payments, CaseOf(r)) /\ n = Len(payments) + 1 /\ payments'[n] = CaseOf(r)
    BY <1>0, <1>3, <2>1 DEF Pay, Basic, Types, PaymentsType
  <2>3. /\ pc'[r] = "paid" /\ CaseOf(r)' = CaseOf(r) /\ ctx'[r].receipt = n
        /\ purchases' = purchases /\ purchases[CaseOf(r)] = 0
    BY <1>0, <2>1, <2>2, KeepsRequest
       DEF Pay, Goto, NothingKept, CaseOf, storeVars, Basic, Types, PcType, CtxType, Ctx
  <2> QED BY <2>2, <2>3 DEF InHand
<1> QED BY <1>1, <1>2, <1>3 DEF KeptOrInHand, NothingKept

\* A runner that holds an unrecorded payment is not cut off.
LEMMA PaymentsEnvStep ==
  ASSUME PurchasesNotCut, Basic, PaymentsInv, EnvStep
  PROVE  PaymentsInv'
<1> USE DEF PaymentsInv
<1>1. UNCHANGED <<purchases, payments>>
  BY EnvChanges
<1>2. ASSUME NEW s \in Runners, pc'[s] \in {"pay", "paid"}
      PROVE  pc[s] = pc'[s] /\ ctx'[s] = ctx[s]
  BY <1>2, EnvChanges DEF Inside, Executing, Work
<1>3. ASSUME NEW s \in Runners, pc[s] = "paid"
      PROVE  pc'[s] = "paid" /\ ctx'[s] = ctx[s]
  <2>1. Point(s)[1] = "paid" /\ Executing(s)
    BY <1>3 DEF Point, Executing, Work
  <2> QED BY <1>3, <2>1, Uncut DEF PurchasesNotCut
<1>4. NothingKept'
  BY <1>1, <1>2 DEF NothingKept, CaseOf
<1>5. KeptOrInHand'
  BY <1>1, <1>3 DEF KeptOrInHand, InHand, CaseOf
<1> QED BY <1>4, <1>5

\* OneRunPerCase in the form the assumption OneProcess gives it.
LEMMA OneRunAtATime == ASSUME OneProcess PROVE Spec => []OneRunPerCase
  BY OneProcessOneRun DEF OneProcess

LEMMA PaymentsInvariant ==
  ASSUME OneProcess, PurchasesNotCut
  PROVE  Spec => []PaymentsInv
<1>1. Init => PaymentsInv
  BY DEF Init, PaymentsInv, KeptOrInHand, NothingKept
<1>2. OneRunPerCase /\ Basic /\ PaymentsInv /\ [Next]_vars => PaymentsInv'
  <2> SUFFICES ASSUME OneRunPerCase, Basic, PaymentsInv, [Next]_vars
               PROVE  PaymentsInv'
    OBVIOUS
  <2>1. CASE UNCHANGED vars
    BY <2>1 DEF vars, storeVars, PaymentsInv, KeptOrInHand, InHand, NothingKept, CaseOf
  <2> QED BY <2>1, PaymentsRunnerStep, PaymentsEnvStep, NextSteps
<1> QED BY <1>1, <1>2, BasicInvariant, OneRunAtATime, PTL DEF Spec

\* What is true of at most one element is a set of at most one element.
LEMMA AtMostOne ==
  ASSUME NEW S, \A x, y \in S : x = y
  PROVE  Cardinality(S) <= 1
<1>1. CASE S = {}
  BY <1>1, FS_EmptySet
<1>2. CASE S # {}
  <2>1. PICK x \in S : S = {x}
    BY <1>2
  <2> QED BY <2>1, FS_Singleton
<1> QED BY <1>1, <1>2

\* "The same Module of the same case is paid for only once" (purchase-store.ts:2,
\* run-case.ts:14), for any number of requests and failures, when one process
\* serves the case and no payment is cut off from its row. The run "repay" shows
\* that the second condition is needed.
THEOREM OneProcessPaysOnce ==
  ASSUME OneProcess, PurchasesNotCut
  PROVE  Spec => []ModulePaidOnce
<1>1. OneRunPerCase /\ PaymentsInv /\ Basic => ModulePaidOnce
  <2> SUFFICES ASSUME OneRunPerCase, PaymentsInv, Basic, NEW c \in Cases
               PROVE  Cardinality({i \in DOMAIN payments : payments[i] = c}) <= 1
    BY DEF ModulePaidOnce
  <2>1. ASSUME NEW m \in DOMAIN payments, NEW n \in DOMAIN payments,
               payments[m] = c, payments[n] = c
        PROVE  m = n
    <3>1. m # 0 /\ n # 0
      BY DEF Basic, Types, PaymentsType
    <3>2. CASE purchases[c] # 0
      BY <2>1, <3>2 DEF PaymentsInv, KeptOrInHand
    <3>3. CASE purchases[c] = 0
      <4>1. PICK r \in Runners : InHand(r, m)
        BY <2>1, <3>1, <3>3 DEF PaymentsInv, KeptOrInHand
      <4>2. PICK s \in Runners : InHand(s, n)
        BY <2>1, <3>1, <3>3 DEF PaymentsInv, KeptOrInHand
      <4>3. r = s
        BY <2>1, <4>1, <4>2 DEF InHand, OneRunPerCase, Executing, Work
      <4> QED BY <4>1, <4>2, <4>3 DEF InHand
    <3> QED BY <3>2, <3>3
  <2> QED BY <2>1, AtMostOne
<1> QED BY <1>1, BasicInvariant, OneRunAtATime, PaymentsInvariant, PTL

----------------------------------------------------------------------------
(* A transaction has one row or one holder, and a job one maker *)

\* The hash of a broadcast is with the process that sent it until it is on record.
Sending(r) == pc[r] \in ChainAction /\ call[r].phase = "record"
OneHolder ==
    /\ \A r, s \in Runners : Sending(r) /\ Sending(s) /\ call[r].tx = call[s].tx => r = s
    /\ \A r \in Runners, row \in txLog : Sending(r) => row.tx # call[r].tx
    /\ \A a, b \in txLog : a.tx = b.tx => a = b

\* A mined createJob is the only one to have made its job, which no wallet brought.
Created(x) == txs[x].act = "createJob" /\ txs[x].status = "success"
MadeOnce ==
    /\ DOMAIN ExternalJobs \subseteq DOMAIN jobs
    /\ \A x \in DOMAIN txs : Created(x) => txs[x].made \notin DOMAIN ExternalJobs
    /\ \A x, y \in DOMAIN txs : Created(x) /\ Created(y) /\ txs[x].made = txs[y].made => x = y

\* The row of case_runs is about a request for its own case.
OwnRows ==
    \A c \in Cases : runs[c].status # "none" =>
        \E q \in Requests : q.case = c /\ q.fp = runs[c].fp

OriginInv == OneHolder /\ MadeOnce /\ OwnRows

\* A runner comes to hold an unrecorded hash by broadcasting.
LEMMA SendingAfter ==
  ASSUME Basic, FreshCall, NEW r \in Runners, RunnerStep(r), Sending(r)'
  PROVE  /\ WriteSend(r) /\ pc'[r] = pc[r] /\ ctx' = ctx
         /\ Len(txs) \in Nat /\ call'[r].tx = Len(txs) + 1 /\ Len(txs) + 1 \notin DOMAIN txs
         /\ ~Logged(KeyOf(r)) /\ UNCHANGED <<txLog, jobs>>
         /\ DOMAIN txs' = DOMAIN txs \cup {Len(txs) + 1}
         /\ txs'[Len(txs) + 1] = NewTx(pc[r], ctx[r].job, Deliverable(r))
         /\ \A x \in DOMAIN txs : txs'[x] = txs[x]
<1> USE DEF Basic, Types, CallType, TxsType
<1>1. /\ pc'[r] = pc[r] /\ ctx' = ctx
      /\ WriteSend(r) \/ WriteRecord(r)
  BY HoldsAfter DEF Sending
<1>2. ~WriteRecord(r)
  BY DEF WriteRecord, Record, Sending, Call
<1>3. /\ txs' = Append(txs, NewTx(pc[r], ctx[r].job, Deliverable(r)))
      /\ call'[r].tx = Len(txs) + 1 /\ ~Logged(KeyOf(r)) /\ UNCHANGED <<txLog, jobs>>
  BY <1>1, <1>2 DEF WriteSend, Send
<1> QED BY <1>1, <1>2, <1>3

\* What a step does to tx_log.
LEMMA LogChanges ==
  ASSUME Basic, NEW r \in Runners, RunnerStep(r)
  PROVE  \/ UNCHANGED txLog
         \/ /\ WriteRecord(r) /\ Sending(r) /\ ~Logged(KeyOf(r)) /\ UNCHANGED <<txs, jobs, ctx>>
            /\ txLog' = txLog \cup {[key |-> KeyOf(r), tx |-> call[r].tx]}
            /\ pc'[r] = pc[r] /\ call'[r].phase = "receipt" /\ call'[r].tx = call[r].tx
<1>1. CASE WriteRecord(r)
  BY <1>1 DEF WriteRecord, Record, Writing, Sending, Goto, Basic, Types, PcType, CallType, Call, chainVars
<1> QED BY <1>1, AdmitChanges, WriteChanges, ProceedChanges DEF RunnerStep

\* OneHolder is preserved by every step.
LEMMA OneHolderStep ==
  ASSUME Basic, FreshCall, OneHolder, [Next]_vars
  PROVE  OneHolder'
<1>1. ASSUME NEW r \in Runners, RunnerStep(r)
      PROVE  OneHolder'
  <2>1. ASSUME NEW s \in Runners, Sending(s)'
        PROVE  \/ s # r /\ Sending(s) /\ call'[s].tx = call[s].tx /\ call[s].tx \in DOMAIN txs
               \/ s = r /\ call'[s].tx \notin DOMAIN txs /\ UNCHANGED txLog
    <3>1. CASE s # r
      BY <1>1, <2>1, <3>1, OthersStay DEF Sending, Basic, HeldHandles
    <3>2. CASE s = r
      BY <1>1, <2>1, <3>2, SendingAfter
    <3> QED BY <3>1, <3>2
  <2>2. ASSUME NEW s \in Runners, NEW t \in Runners, Sending(s)', Sending(t)', call'[s].tx = call'[t].tx
        PROVE  s = t
    BY <2>1, <2>2 DEF OneHolder
  <2>3. CASE UNCHANGED txLog
    <3>1. ASSUME NEW s \in Runners, NEW row \in txLog', Sending(s)'
          PROVE  row.tx # call'[s].tx
      BY <2>1, <2>3, <3>1 DEF OneHolder, Basic, LoggedHandles
    <3> QED BY <2>2, <2>3, <3>1 DEF OneHolder
  <2>4. CASE Sending(r) /\ txLog' = txLog \cup {[key |-> KeyOf(r), tx |-> call[r].tx]}
    <3>1. ASSUME NEW s \in Runners, NEW row \in txLog', Sending(s)'
          PROVE  row.tx # call'[s].tx
      <4>1. CASE s = r
        <5>1. UNCHANGED txLog
          BY <2>1, <3>1, <4>1
        <5> QED BY <2>3, <3>1, <5>1 DEF OneHolder
      <4>2. CASE s # r
        BY <2>1, <2>4, <3>1, <4>2 DEF OneHolder
      <4> QED BY <4>1, <4>2
    <3>2. ASSUME NEW a \in txLog', NEW b \in txLog', a.tx = b.tx
          PROVE  a = b
      BY <2>4, <3>2 DEF OneHolder
    <3> QED BY <2>2, <3>1, <3>2 DEF OneHolder
  <2> QED BY <1>1, <2>3, <2>4, LogChanges
<1>2. CASE EnvStep
  <2>1. ASSUME NEW s \in Runners, Sending(s)'
        PROVE  Sending(s) /\ call'[s].tx = call[s].tx
    BY <1>2, <2>1, EnvChanges DEF Sending, Inside, Executing, ChainAction, Work
  <2>2. UNCHANGED txLog
    BY <1>2, EnvChanges
  <2> QED BY <2>1, <2>2 DEF OneHolder
<1>3. CASE UNCHANGED vars
  BY <1>3 DEF vars, clientVars, OneHolder, Sending
<1> QED BY <1>1, <1>2, <1>3, NextSteps

\* A createJob that is mined was mined before, or is mined in this step.
LEMMA CreatedBefore ==
  ASSUME Basic, [Next]_vars, NEW x \in DOMAIN txs', Created(x)'
  PROVE  /\ x \in DOMAIN txs
         /\ \/ Created(x) /\ txs'[x] = txs[x]
            \/ MineCreate(x) /\ txs'[x].made = Len(jobs) + 1
<1>1. CASE UNCHANGED <<jobs, txs>>
  BY <1>1 DEF Created
<1>2. ASSUME NEW r \in Runners, WriteSend(r), RunnerStep(r)
      PROVE  x \in DOMAIN txs /\ Created(x) /\ txs'[x] = txs[x]
  <2>1. txs' = Append(txs, NewTx(pc[r], ctx[r].job, Deliverable(r)))
    BY <1>2 DEF WriteSend, Send
  <2>2. NewTx(pc[r], ctx[r].job, Deliverable(r)).status = "pending"
    BY DEF NewTx
  <2> HIDE DEF NewTx
  <2>3. x \in DOMAIN txs
    BY <2>1, <2>2 DEF Created, Basic, Types, TxsType
  <2> QED BY <2>1, <2>3 DEF Created, Basic, Types, TxsType
<1>3. ASSUME NEW y \in DOMAIN txs, MineCreate(y)
      PROVE  /\ x \in DOMAIN txs
             /\ \/ Created(x) /\ txs'[x] = txs[x]
                \/ MineCreate(x) /\ txs'[x].made = Len(jobs) + 1
  BY <1>3, CreateEffects DEF Created
<1>4. ASSUME NEW y \in DOMAIN txs, MineCall(y)
      PROVE  x \in DOMAIN txs /\ Created(x) /\ txs'[x] = txs[x]
  BY <1>4, CallEffects DEF Created, MineCall
<1>5. ASSUME NEW y \in DOMAIN txs, MineRevert(y)
      PROVE  x \in DOMAIN txs /\ Created(x) /\ txs'[x] = txs[x]
  <2>1. txs' = [txs EXCEPT ![y].status = "reverted"] /\ txs \in Seq(Tx)
    BY <1>5 DEF MineRevert, Basic, Types, TxsType
  <2>2. x \in DOMAIN txs /\ x # y
    BY <2>1 DEF Created, Tx
  <2> QED BY <2>1, <2>2 DEF Created
<1>6. ASSUME NEW j \in DOMAIN jobs, ClaimRefund(j)
      PROVE  x \in DOMAIN txs /\ Created(x) /\ txs'[x] = txs[x]
  BY <1>6 DEF ClaimRefund, Created
<1> QED BY <1>1, <1>2, <1>3, <1>4, <1>5, <1>6, ChainEffects

\* MadeOnce is preserved by every step.
LEMMA MadeOnceStep ==
  ASSUME Basic, CreatedJobs, MadeOnce, [Next]_vars
  PROVE  MadeOnce'
<1>1. DOMAIN ExternalJobs \subseteq DOMAIN jobs'
  BY JobsAreKept DEF MadeOnce
<1>2. ASSUME NEW x \in DOMAIN txs', Created(x)'
      PROVE  /\ x \in DOMAIN txs
             /\ \/ Created(x) /\ txs'[x].made = txs[x].made /\ txs[x].made \in DOMAIN jobs
                \/ txs'[x].made \notin DOMAIN jobs
             /\ txs'[x].made \notin DOMAIN ExternalJobs
  <2>1. x \in DOMAIN txs
    BY <1>2, CreatedBefore
  <2>2. CASE Created(x) /\ txs'[x] = txs[x]
    BY <2>1, <2>2 DEF CreatedJobs, Created, MadeOnce
  <2>3. CASE MineCreate(x) /\ txs'[x].made = Len(jobs) + 1
    BY <2>1, <2>3, CreateEffects DEF MadeOnce
  <2> QED BY <1>2, <2>1, <2>2, <2>3, CreatedBefore
<1>3. ASSUME NEW x \in DOMAIN txs', NEW y \in DOMAIN txs', Created(x)', Created(y)',
             txs'[x].made = txs'[y].made
      PROVE  x = y
  <2>1. CASE Created(x) /\ txs'[x] = txs[x] /\ Created(y) /\ txs'[y] = txs[y]
    BY <1>2, <1>3, <2>1 DEF MadeOnce
  <2>2. CASE MineCreate(x) /\ txs'[x].made = Len(jobs) + 1
    <3>1. x \in DOMAIN txs /\ y \in DOMAIN txs
      BY <1>2, <1>3
    <3>2. txs'[y].made \notin DOMAIN jobs
      BY <1>3, <2>2, <3>1, CreateEffects
    <3>3. y # x => txs'[y] = txs[y]
      BY <2>2, <3>1, CreateEffects
    <3> QED BY <1>3, <3>1, <3>2, <3>3 DEF CreatedJobs, Created
  <2>3. CASE MineCreate(y) /\ txs'[y].made = Len(jobs) + 1
    <3>1. x \in DOMAIN txs /\ y \in DOMAIN txs
      BY <1>2, <1>3
    <3>2. txs'[x].made \notin DOMAIN jobs
      BY <1>3, <2>3, <3>1, CreateEffects
    <3>3. x # y => txs'[x] = txs[x]
      BY <2>3, <3>1, CreateEffects
    <3> QED BY <1>3, <3>1, <3>2, <3>3 DEF CreatedJobs, Created
  <2> QED BY <1>3, <2>1, <2>2, <2>3, CreatedBefore
<1> QED BY <1>1, <1>2, <1>3 DEF MadeOnce

\* OwnRows is preserved by every step.
LEMMA OwnRowsStep ==
  ASSUME Basic, SameRequestThroughout, OwnRows, [Next]_vars
  PROVE  OwnRows'
<1> SUFFICES ASSUME NEW c \in Cases, runs'[c].status # "none"
             PROVE  \E q \in Requests : q.case = c /\ q.fp = runs'[c].fp
  BY DEF OwnRows
<1>1. CASE runs[c].status # "none"
  BY <1>1, FpIsFixed DEF OwnRows
<1>2. CASE runs[c].status = "none"
  <2>1. PICK r \in Runners : RunnerStep(r)
    BY <1>2, EnvChanges, NextSteps DEF vars, storeVars
  <2>2. MarkRunning(r) \/ Succeed(r) \/ Fail(r) => Row(r).status # "none"
    BY DEF MarkRunning, Succeed, Fail, SameRequestThroughout, Executing, Work
  <2>3. c = CaseOf(r) /\ runs'[c].fp = ctx[r].req.fp
    BY <1>2, <2>1, <2>2, RowChanges DEF Row
  <2>4. ctx[r].req \in Requests
    BY <2>1, KeepsRequest DEF Basic, HasRequest
  <2> QED BY <2>3, <2>4 DEF CaseOf
<1> QED BY <1>1, <1>2

LEMMA OriginInvariant == Spec => []OriginInv
<1>1. Init => OriginInv
  BY EscrowAssumption DEF Init, EscrowInit, JobClientInit, OriginInv, OneHolder, MadeOnce, OwnRows, Sending,
                          ChainAction
<1>2. Basic /\ SameRequestThroughout /\ WritesInv /\ OriginInv /\ [Next]_vars => OriginInv'
  BY OneHolderStep, MadeOnceStep, OwnRowsStep DEF OriginInv, WritesInv
<1> QED BY <1>1, <1>2, BasicInvariant, AlwaysSameRequest, WritesInvariant, PTL DEF Spec

\* The invariants every process keeps, however many there are.
Everywhere ==
    /\ Basic /\ SameRequestThroughout /\ Receipts /\ JobsInv
    /\ WritesInv /\ BindingInv /\ ProgressInv /\ OriginInv

LEMMA EverywhereInvariant == Spec => []Everywhere
  BY BasicInvariant, AlwaysSameRequest, ReceiptsInvariant, JobsInvariant, WritesInvariant,
     BindingInvariant, ProgressInvariant, OriginInvariant, PTL DEF Everywhere

\* Two cases do not share a job.
LEMMA CasesApart ==
  ASSUME JobsApart, Everywhere, NEW c \in Cases, NEW d \in Cases,
         cases[c].job # 0, cases[c].job = cases[d].job
  PROVE  c = d
<1> USE DEF Everywhere
<1>1. PICK q \in Requests : BoundBy(c, q)
  BY DEF BindingInv, BoundJobs
<1>2. PICK s \in Requests : BoundBy(d, s)
  BY DEF BindingInv, BoundJobs
<1>3. q.case = c /\ s.case = d
  <2>1. runs[c].status # "none" /\ runs[d].status # "none"
    BY DEF BindingInv, BoundJobs
  <2> QED BY <1>1, <1>2, <2>1, RunCaseAssumption DEF OriginInv, OwnRows, BoundBy
<1>4. ASSUME NEW row \in txLog, NEW e, NEW j, CreatedBy(row, e, j)
      PROVE  row.tx \in DOMAIN txs /\ Created(row.tx) /\ txs[row.tx].made = j
  <2>1. row.key[1] = "createJob"
    BY <1>4 DEF CreatedBy, CreateKey
  <2> QED BY <1>4, <2>1 DEF CreatedBy, Created, WritesInv, LoggedWrites, Basic, LoggedHandles
<1>5. CASE q.job # 0 /\ s.job # 0
  BY <1>1, <1>2, <1>3, <1>5 DEF JobsApart, BoundBy
<1>6. CASE q.job # 0 /\ s.job = 0
  BY <1>1, <1>2, <1>4, <1>6 DEF JobsApart, BoundBy, OriginInv, MadeOnce
<1>7. CASE q.job = 0 /\ s.job # 0
  BY <1>1, <1>2, <1>4, <1>7 DEF JobsApart, BoundBy, OriginInv, MadeOnce
<1>8. CASE q.job = 0 /\ s.job = 0
  <2>1. PICK a \in txLog : CreatedBy(a, c, cases[c].job)
    BY <1>1, <1>8 DEF BoundBy
  <2>2. PICK b \in txLog : CreatedBy(b, d, cases[d].job)
    BY <1>2, <1>8 DEF BoundBy
  <2>3. a.tx = b.tx
    BY <1>4, <2>1, <2>2 DEF OriginInv, MadeOnce
  <2>4. a = b
    BY <2>3 DEF OriginInv, OneHolder
  <2> QED BY <2>1, <2>2, <2>4 DEF CreatedBy, CreateKey
<1> QED BY <1>5, <1>6, <1>7, <1>8

\* Within one process a job has one runner at work on it.
LEMMA OneWorker ==
  ASSUME JobsApart, Everywhere, OneRunPerCase, NEW r \in Runners, NEW s \in Runners,
         pc[r] \in BoundStages, pc[s] \in BoundStages, ctx[r].job = ctx[s].job
  PROVE  r = s
<1>1. pc[r] # "idle" /\ pc[s] # "idle" /\ Executing(r) /\ Executing(s)
  BY DEF BoundStages, Work, Executing
<1>2. CaseOf(r) \in Cases /\ CaseOf(s) \in Cases
  BY <1>1, RunnerLocals DEF Everywhere
<1>3. cases[CaseOf(r)].job = ctx[r].job /\ cases[CaseOf(s)].job = ctx[s].job /\ ctx[r].job # 0
  BY DEF Everywhere, BindingInv, WorksOnBound
<1>4. CaseOf(r) = CaseOf(s)
  BY <1>2, <1>3, CasesApart
<1> QED BY <1>1, <1>4 DEF OneRunPerCase

----------------------------------------------------------------------------
(* A write is broadcast once *)

\* Every transaction is on record or in the hands of the runner that sent it,
\* whose key is not on record yet; a createJob is about no job, and its key names a
\* case that opens its own.
Known(x) ==
    \/ \E row \in txLog : row.tx = x
    \/ \E r \in Runners : Sending(r) /\ call[r].tx = x
KnownOf(acts) == \A x \in DOMAIN txs : txs[x].act \in acts => Known(x)
SendingUnlogged == \A r \in Runners : Sending(r) => ~Logged(KeyOf(r))
NoJobBefore == \A r \in Runners : pc[r] \in {"intake", "createJob"} => ctx[r].job = 0
CreateRows == \A row \in txLog : row.key[1] = "createJob" => row.key[2] \in OwnCases
CreatesNothing == \A x \in DOMAIN txs : txs[x].act = "createJob" => txs[x].on = 0

CreatesInv == NoJobBefore /\ CreateRows /\ CreatesNothing

\* A runner that has no job yet comes by none before its createJob returns.
LEMMA NoJobBeforeStep ==
  ASSUME Basic, JobsInv, NoJobBefore, [Next]_vars
  PROVE  NoJobBefore'
<1> SUFFICES ASSUME NEW s \in Runners, pc'[s] \in {"intake", "createJob"}
             PROVE  ctx'[s].job = 0
  BY DEF NoJobBefore
<1>1. CASE RunnerStep(s)
  <2>1. ~AdoptExternalJob(s) /\ ~JobIdFromTx(s)
    BY DEF AdoptExternalJob, JobIdFromTx, Goto, Basic, Types, PcType
  <2>2. ctx'[s].job = ctx[s].job
    BY <1>1, <2>1, JobOfRunner
  <2>3. \/ BeginStarted(s) \/ MarkRunning(s)
        \/ pc[s] \in {"intake", "createJob"}
    BY <1>1, WhereTo DEF ChainAction, AfterWrite, Intake
  <2>4. BeginStarted(s) \/ MarkRunning(s) => ~Executing(s)
    BY DEF BeginStarted, Admitted, MarkRunning, Executing, Work
  <2> QED BY <2>2, <2>3, <2>4 DEF JobsInv, NoJobYet, NoJobBefore
<1>2. CASE pc'[s] = pc[s] /\ ctx'[s].job = ctx[s].job
  BY <1>2 DEF NoJobBefore
<1>3. CASE EnvStep
  BY <1>2, <1>3, EnvChanges DEF Inside, Executing, Work
<1>4. CASE UNCHANGED vars
  BY <1>2, <1>4 DEF vars
<1> QED BY <1>1, <1>2, <1>3, <1>4, NextSteps, OthersStay

\* What a broadcast adds to the transactions.
LEMMA SendEffects ==
  ASSUME Basic, NEW r \in Runners, WriteSend(r)
  PROVE  /\ Len(txs) \in Nat /\ DOMAIN txs' = DOMAIN txs \cup {Len(txs) + 1}
         /\ Len(txs) + 1 \notin DOMAIN txs
         /\ txs'[Len(txs) + 1] = NewTx(pc[r], ctx[r].job, Deliverable(r))
         /\ \A x \in DOMAIN txs : txs'[x] = txs[x]
         /\ pc[r] \in ChainAction /\ pc'[r] = pc[r] /\ ctx' = ctx
         /\ call'[r].phase = "record" /\ call'[r].tx = Len(txs) + 1
<1> USE DEF Basic, Types, CallType, TxsType, PcType
<1>1. txs' = Append(txs, NewTx(pc[r], ctx[r].job, Deliverable(r)))
  BY DEF WriteSend, Send
<1>2. Len(txs) \in Nat /\ DOMAIN txs = 1 .. Len(txs)
  OBVIOUS
<1>3. call' = [call EXCEPT ![r] = [phase |-> "record", tx |-> Len(txs) + 1]]
  BY DEF WriteSend, Send
<1>4. pc[r] \in ChainAction /\ pc'[r] = pc[r] /\ ctx' = ctx
  BY DEF WriteSend, Writing, Goto
<1> HIDE DEF NewTx
<1>5. /\ DOMAIN txs' = 1 .. Len(txs) + 1
      /\ txs'[Len(txs) + 1] = NewTx(pc[r], ctx[r].job, Deliverable(r))
      /\ \A x \in DOMAIN txs : txs'[x] = txs[x]
  BY <1>1, <1>2
<1>6. call'[r].phase = "record" /\ call'[r].tx = Len(txs) + 1
  BY <1>2, <1>3
<1> QED BY <1>2, <1>4, <1>5, <1>6

\* Transactions are added by broadcasts only.
LEMMA TxsOfStep ==
  ASSUME Basic, [Next]_vars
  PROVE  \/ \E r \in Runners : WriteSend(r) /\ RunnerStep(r)
         \/ DOMAIN txs' = DOMAIN txs
<1>1. ASSUME NEW x \in DOMAIN txs, MineRevert(x)
      PROVE  DOMAIN txs' = DOMAIN txs
  BY <1>1 DEF MineRevert, Basic, Types, TxsType
<1> QED BY <1>1, ChainEffects, CreateEffects, CallEffects DEF ClaimRefund

\* CreatesInv is preserved by every step.
LEMMA CreatesStep ==
  ASSUME Basic, JobsInv, BindingInv, CreatesInv, [Next]_vars
  PROVE  CreatesInv'
<1> USE DEF CreatesInv
<1>1. CreatesNothing'
  <2> SUFFICES ASSUME NEW x \in DOMAIN txs', txs'[x].act = "createJob"
               PROVE  txs'[x].on = 0
    BY DEF CreatesNothing
  <2>1. CASE x \in DOMAIN txs
    BY <2>1, TxsAreKept DEF CreatesNothing
  <2>2. CASE x \notin DOMAIN txs
    <3>1. PICK r \in Runners : WriteSend(r)
      BY <2>2, TxsOfStep
    <3>2. txs'[x] = NewTx(pc[r], ctx[r].job, Deliverable(r))
      BY <2>2, <3>1, SendEffects
    <3> QED BY <3>2 DEF NewTx, NoJobBefore
  <2> QED BY <2>1, <2>2
<1>2. CreateRows'
  <2> SUFFICES ASSUME NEW row \in txLog', row.key[1] = "createJob", row \notin txLog
               PROVE  row.key[2] \in OwnCases
    BY DEF CreateRows
  <2>1. PICK r \in Runners : RunnerStep(r) /\ Sending(r) /\ row.key = KeyOf(r)
    BY LogChanges, NextSteps, EnvChanges DEF vars, clientVars
  <2>2. pc[r] = "createJob" /\ row.key[2] = CaseOf(r)
    BY <2>1 DEF KeyOf, Key
  <2>3. ctx[r].req \in Requests /\ ctx[r].req.job = 0 /\ CaseOf(r) \in Cases
    BY <2>1, <2>2, KeepsRequest, RunnerLocals DEF Basic, HasRequest, BindingInv, OwnRequest
  <2> QED BY <2>2, <2>3 DEF OwnCases, CaseOf
<1> QED BY <1>1, <1>2, NoJobBeforeStep

\* Within one process no two runners are in the same write.
LEMMA KeysApart ==
  ASSUME JobsApart, Everywhere, OneRunPerCase, NEW r \in Runners, NEW s \in Runners,
         pc[r] \in ChainAction, pc[s] \in ChainAction, KeyOf(r) = KeyOf(s)
  PROVE  r = s
<1>1. pc[r] = pc[s]
  BY DEF KeyOf, Key
<1>2. CASE pc[r] = "createJob"
  <2>1. CaseOf(r) = CaseOf(s)
    BY <1>1, <1>2 DEF KeyOf, Key
  <2> QED BY <1>1, <1>2, <2>1 DEF OneRunPerCase, Executing, Work
<1>3. CASE pc[r] # "createJob"
  <2>1. ctx[r].job = ctx[s].job
    BY <1>1, <1>3 DEF KeyOf, Key
  <2>2. pc[r] \in BoundStages
    BY <1>3 DEF ChainAction, BoundStages, Work
  <2> QED BY <1>1, <2>1, <2>2, OneWorker
<1> QED BY <1>2, <1>3

\* SendingUnlogged is preserved by every step.
LEMMA SendingUnloggedStep ==
  ASSUME JobsApart, Everywhere, OneRunPerCase, SendingUnlogged, [Next]_vars
  PROVE  SendingUnlogged'
<1> SUFFICES ASSUME NEW s \in Runners, Sending(s)'
             PROVE  ~Logged(KeyOf(s))'
  BY DEF SendingUnlogged
<1> USE DEF Everywhere
<1>1. ASSUME NEW r \in Runners, RunnerStep(r)
      PROVE  ~Logged(KeyOf(s))'
  <2>1. CASE s = r
    BY <1>1, <2>1, SendingAfter DEF WritesInv, KeyOf, CaseOf, Logged
  <2>2. CASE s # r
    <3>1. Sending(s) /\ KeyOf(s)' = KeyOf(s) /\ ~Logged(KeyOf(s))
      BY <1>1, <2>2, OthersStay DEF Sending, KeyOf, CaseOf, SendingUnlogged
    <3>2. CASE UNCHANGED txLog
      BY <3>1, <3>2 DEF Logged
    <3>3. CASE Sending(r) /\ txLog' = txLog \cup {[key |-> KeyOf(r), tx |-> call[r].tx]}
      <4>1. KeyOf(r) # KeyOf(s)
        BY <2>2, <3>1, <3>3, KeysApart DEF Sending
      <4> QED BY <3>1, <3>3, <4>1 DEF Logged
    <3> QED BY <1>1, <3>2, <3>3, LogChanges
  <2> QED BY <2>1, <2>2
<1>2. CASE EnvStep
  <2>1. Sending(s) /\ KeyOf(s)' = KeyOf(s) /\ UNCHANGED txLog
    BY <1>2, EnvChanges DEF Sending, Inside, Executing, ChainAction, Work, KeyOf, CaseOf
  <2> QED BY <2>1 DEF SendingUnlogged, Logged
<1>3. CASE UNCHANGED vars
  BY <1>3 DEF vars, clientVars, SendingUnlogged, Sending, KeyOf, CaseOf, Logged
<1> QED BY <1>1, <1>2, <1>3, NextSteps

\* A runner that holds an unrecorded hash goes on to record it.
LEMMA SendingRecords ==
  ASSUME Basic, SendingUnlogged, NEW r \in Runners, RunnerStep(r), Sending(r)
  PROVE  \E row \in txLog' : row.tx = call[r].tx
<1>1. Write(r)
  BY AdmitChanges DEF RunnerStep, Sending, ChainAction, Proceed, Intake, AdoptExternalJob,
     ExternalJobRefused, JobIdFromTx, ReceiptMissing, ReusePurchase, NotPurchased, Pay,
     RecordPurchase, Assess, EscalationUnconfigured, MarkSubmitted, Verify, Settle, RecordLedger,
     ReconcileJobState, Succeed, Fail
<1>2. WriteRecord(r)
  BY <1>1 DEF Write, WriteHit, LookupHit, WriteApprove, ApproveUsdc, WriteSend, Send, SendPhase,
     WriteRefused, SendRefused, WriteDuplicate, RecordDuplicate, WriteDone, ReceiptSuccess,
     WriteReverted, ReceiptReverted, Sending, SendingUnlogged
<1>3. txLog' = txLog \cup {[key |-> KeyOf(r), tx |-> call[r].tx]}
  BY <1>2 DEF WriteRecord, Record
<1>4. [key |-> KeyOf(r), tx |-> call[r].tx].tx = call[r].tx
  OBVIOUS
<1>5. [key |-> KeyOf(r), tx |-> call[r].tx] \in txLog'
  BY <1>3
<1> QED BY <1>4, <1>5

\* A process that holds an unrecorded hash is not cut off.
LEMMA SendingGoesOn ==
  ASSUME NEW acts, NotCut(acts, "record"), Basic, EnvStep,
         NEW s \in Runners, Sending(s), pc[s] \in acts
  PROVE  Sending(s)' /\ call'[s].tx = call[s].tx
<1>1. Point(s)[1] \in acts /\ Point(s)[2] = "record" /\ Executing(s)
  BY DEF Point, Executing, Sending, ChainAction, Work
<1> QED BY <1>1, Uncut DEF NotCut, Sending

\* KnownOf is preserved by every step.
LEMMA KnownStep ==
  ASSUME NEW acts, NotCut(acts, "record"), Basic, HeldWrites, SendingUnlogged,
         KnownOf(acts), [Next]_vars
  PROVE  KnownOf(acts)'
<1> SUFFICES ASSUME NEW x \in DOMAIN txs', txs'[x].act \in acts
             PROVE  Known(x)'
  BY DEF KnownOf
<1>1. CASE x \notin DOMAIN txs
  <2>1. PICK r \in Runners : WriteSend(r)
    BY <1>1, TxsOfStep
  <2>2. Sending(r)' /\ call'[r].tx = x
    BY <1>1, <2>1, SendEffects DEF Sending
  <2> QED BY <2>2 DEF Known
<1>2. CASE x \in DOMAIN txs /\ \E row \in txLog : row.tx = x
  BY <1>2, RowsAreKept DEF Known
<1>3. CASE x \in DOMAIN txs /\ \E r \in Runners : Sending(r) /\ call[r].tx = x
  <2>1. PICK s \in Runners : Sending(s) /\ call[s].tx = x
    BY <1>3
  <2>2. CASE RunnerStep(s)
    BY <2>1, <2>2, SendingRecords DEF Known
  <2>3. CASE pc'[s] = pc[s] /\ call'[s] = call[s]
    BY <2>1, <2>3 DEF Known, Sending
  <2>4. CASE EnvStep
    <3>1. pc[s] \in acts
      BY <1>3, <2>1, TxsAreKept DEF HeldWrites, Sending
    <3> QED BY <2>1, <2>4, <3>1, SendingGoesOn DEF Known
  <2> QED BY <2>1, <2>2, <2>3, <2>4, NextSteps, OthersStay DEF vars, clientVars
<1> QED BY <1>1, <1>2, <1>3, TxsAreKept DEF KnownOf, Known

LEMMA CreatesInvariant == Spec => []CreatesInv
<1>1. Init => CreatesInv
  BY DEF Init, EscrowInit, JobClientInit, CreatesInv, NoJobBefore, CreateRows, CreatesNothing
<1> QED BY <1>1, BasicInvariant, JobsInvariant, BindingInvariant, CreatesStep, PTL DEF Spec

LEMMA SendingInvariant ==
  ASSUME OneProcess, JobsApart
  PROVE  Spec => []SendingUnlogged
<1>1. Init => SendingUnlogged
  BY DEF Init, SendingUnlogged, Sending, ChainAction
<1> QED BY <1>1, EverywhereInvariant, OneRunAtATime, SendingUnloggedStep, PTL DEF Spec

\* The key a transaction was sent under.
SentAs(x, k) ==
    \/ \E row \in txLog : row.tx = x /\ row.key = k
    \/ \E r \in Runners : Sending(r) /\ call[r].tx = x /\ KeyOf(r) = k

\* What is known of a transaction tells its key, and the key tells it apart.
LEMMA KeyOfTx ==
  ASSUME Everywhere, CreatesInv, NEW x \in DOMAIN txs, Known(x)
  PROVE  /\ txs[x].act # "createJob" => SentAs(x, <<txs[x].act, txs[x].on>>)
         /\ txs[x].act = "createJob" => \E c \in OwnCases : SentAs(x, CreateKey(c))
<1> USE DEF Everywhere
<1>1. CASE \E row \in txLog : row.tx = x
  <2>1. PICK row \in txLog : row.tx = x
    BY <1>1
  <2>2. row.key[1] = txs[x].act /\ row.key \in Keys
    BY <2>1 DEF WritesInv, LoggedWrites, Basic, Types, TxLogType, TxLogRow
  <2>3. CASE txs[x].act # "createJob"
    <3>1. row.key[2] = txs[x].on
      BY <2>1, <2>2, <2>3 DEF WritesInv, LoggedWrites
    <3>2. row.key = <<txs[x].act, txs[x].on>>
      BY <2>2, <3>1 DEF Keys
    <3> QED BY <2>1, <2>3, <3>2 DEF SentAs
  <2>4. CASE txs[x].act = "createJob"
    <3>1. row.key = CreateKey(row.key[2])
      BY <2>2, <2>4 DEF Keys, CreateKey
    <3>2. row.key[2] \in OwnCases
      BY <2>2, <2>4 DEF CreatesInv, CreateRows
    <3> QED BY <2>1, <2>4, <3>1, <3>2 DEF SentAs
  <2> QED BY <2>3, <2>4
<1>2. CASE \E r \in Runners : Sending(r) /\ call[r].tx = x
  <2>1. PICK r \in Runners : Sending(r) /\ call[r].tx = x
    BY <1>2
  <2>2. txs[x].act = pc[r] /\ txs[x].on = ctx[r].job
    BY <2>1 DEF Sending, WritesInv, HeldWrites
  <2>3. txs[x].act # "createJob" => KeyOf(r) = <<txs[x].act, txs[x].on>>
    BY <2>2 DEF KeyOf, Key
  <2>4. CASE txs[x].act = "createJob"
    <3>1. KeyOf(r) = CreateKey(CaseOf(r))
      BY <2>2, <2>4 DEF KeyOf, Key, CreateKey
    <3>2. ctx[r].req \in Requests /\ ctx[r].req.job = 0 /\ CaseOf(r) \in Cases
      BY <2>2, <2>4, RunnerLocals DEF Basic, HasRequest, BindingInv, OwnRequest
    <3>3. CaseOf(r) \in OwnCases
      BY <3>2 DEF OwnCases, CaseOf
    <3> QED BY <2>1, <2>4, <3>1, <3>3 DEF SentAs
  <2> QED BY <2>1, <2>3, <2>4 DEF SentAs
<1> QED BY <1>1, <1>2 DEF Known

LEMMA OneTxPerKey ==
  ASSUME JobsApart, Everywhere, OneRunPerCase, SendingUnlogged,
         NEW x, NEW y, NEW k, SentAs(x, k), SentAs(y, k)
  PROVE  x = y
<1>1. ASSUME NEW a \in txLog, NEW b \in txLog, a.key = k, b.key = k
      PROVE  a.tx = b.tx
  BY <1>1 DEF Everywhere, JobsInv, UniqueKeys
<1>2. ASSUME NEW row \in txLog, row.key = k, NEW r \in Runners, Sending(r), KeyOf(r) = k
      PROVE  FALSE
  BY <1>2 DEF SendingUnlogged, Logged
<1>3. ASSUME NEW r \in Runners, NEW s \in Runners, Sending(r), Sending(s), KeyOf(r) = k, KeyOf(s) = k
      PROVE  r = s
  BY <1>3, KeysApart DEF Sending
<1> QED BY <1>1, <1>2, <1>3 DEF SentAs

\* The idempotency keys of tx_log: each of a case's chain writes is broadcast once,
\* however often the case is sent again, retried or resumed after a crash, when one
\* process serves it and no broadcast is cut off from its row.
THEOREM OneProcessWritesOnce ==
  ASSUME OneProcess, JobsApart, BroadcastsNotCut, IsFiniteSet(Cases)
  PROVE  Spec => []WritesAreNotRepeated
<1>1. Everywhere /\ OneRunPerCase /\ CreatesInv /\ SendingUnlogged /\ KnownOf(ChainAction)
        => WritesAreNotRepeated
  <2> SUFFICES ASSUME Everywhere, OneRunPerCase, CreatesInv, SendingUnlogged, KnownOf(ChainAction),
                      NEW x \in DOMAIN txs
               PROVE  Cardinality({y \in DOMAIN txs : txs[y].act = txs[x].act /\ txs[y].on = txs[x].on})
                        <= IF txs[x].act = "createJob" THEN Cardinality(OwnCases) ELSE 1
    BY DEF WritesAreNotRepeated
  <2>0. \A y \in DOMAIN txs : Known(y)
    <3>1. \A y \in DOMAIN txs : txs[y] \in Tx
      BY DEF Everywhere, Basic, Types, TxsType
    <3>2. \A y \in DOMAIN txs : txs[y].act \in ChainAction
      BY <3>1 DEF Tx
    <3> QED BY <3>2 DEF KnownOf
  <2> DEFINE S == {y \in DOMAIN txs : txs[y].act = txs[x].act /\ txs[y].on = txs[x].on}
  <2>1. CASE txs[x].act # "createJob"
    <3>1. \A y \in S : SentAs(y, <<txs[x].act, txs[x].on>>)
      BY <2>0, <2>1, KeyOfTx
    <3>2. \A y, z \in S : y = z
      BY <3>1, OneTxPerKey
    <3> HIDE DEF S
    <3> QED BY <2>1, <3>2, AtMostOne DEF S
  <2>2. CASE txs[x].act = "createJob"
    <3>1. \A y \in S : \E c \in OwnCases : SentAs(y, CreateKey(c))
      BY <2>0, <2>2, KeyOfTx
    <3> DEFINE maker == [y \in S |-> CHOOSE c \in OwnCases : SentAs(y, CreateKey(c))]
    <3>2. \A y \in S : maker[y] \in OwnCases /\ SentAs(y, CreateKey(maker[y]))
      BY <3>1
    <3>3. \A y, z \in S : maker[y] = maker[z] => y = z
      BY <3>2, OneTxPerKey
    <3>4. IsFiniteSet(OwnCases)
      BY FS_Subset DEF OwnCases
    <3>5. maker \in Injection(S, OwnCases)
      <4> HIDE DEF S
      <4>1. maker \in [S -> OwnCases]
        BY <3>2
      <4> HIDE DEF maker
      <4> QED BY <3>3, <4>1 DEF Injection, IsInjective
    <3>6. Cardinality(S) <= Cardinality(OwnCases)
      <4> HIDE DEF S, maker
      <4> QED BY <3>4, <3>5, FS_Injection
    <3> QED BY <2>2, <3>6
  <2> QED BY <2>1, <2>2
<1>2. NotCut(ChainAction, "record")
  BY DEF BroadcastsNotCut
<1>3. Init => KnownOf(ChainAction)
  BY DEF Init, EscrowInit, KnownOf
<1>4. Basic /\ WritesInv /\ SendingUnlogged /\ KnownOf(ChainAction) /\ [Next]_vars
        => KnownOf(ChainAction)'
  BY <1>2, KnownStep DEF WritesInv
<1> QED BY <1>1, <1>3, <1>4, EverywhereInvariant, OneRunAtATime, CreatesInvariant, SendingInvariant,
          BasicInvariant, WritesInvariant, PTL DEF Spec

----------------------------------------------------------------------------
(* What a transaction did to its job stays done *)

\* A submit, complete or reject is about a job that has got as far as it asks for,
\* and one that is mined left its mark on it.
OnJob == {"submit", "complete", "reject"}
Since(act) == IF act = "complete" THEN {"submitted"} \cup JobTerminal
                                  ELSE {"funded", "submitted"} \cup JobTerminal
TxFits(x) ==
    LET t == txs[x]
        job == jobs[t.on]
    IN  /\ t.on \in DOMAIN jobs
        /\ job.status \in Since(t.act)
        /\ t.status # "pending" => job.status \in {"submitted"} \cup JobTerminal
        /\ t.status = "reverted" /\ t.act # "submit" => job.status \in JobTerminal
        /\ t.status = "success" =>
              /\ t.act = "submit" => job.deliverable = t.sa
              /\ t.act = "complete" => job.status = "completed"
              /\ t.act = "reject" => job.status = "rejected"
TxsFit == \A x \in DOMAIN txs : txs[x].act \in OnJob => TxFits(x)

\* What may be settled was verified so.
Verdict ==
    \A r \in Runners : /\ pc[r] = "complete" => ctx[r].passed
                       /\ pc[r] = "reject" => ~ctx[r].passed

\* A job moves open -> funded -> submitted -> ended, and ends from escrow; its
\* deliverable is set when it is submitted.
LEMMA StatusMoves ==
  ASSUME Basic, [Next]_vars, NEW j \in DOMAIN jobs
  PROVE  /\ j \in DOMAIN jobs'
         /\ \/ jobs'[j].status = jobs[j].status
            \/ jobs[j].status = "open" /\ jobs'[j].status = "funded"
            \/ jobs[j].status = "funded" /\ jobs'[j].status = "submitted"
            \/ jobs[j].status \in {"funded", "submitted"} /\ jobs'[j].status \in JobTerminal
         /\ \/ jobs'[j].deliverable = jobs[j].deliverable
            \/ jobs[j].status = "funded" /\ jobs'[j].status = "submitted"
<1> DEFINE Moved ==
      /\ j \in DOMAIN jobs'
      /\ \/ jobs'[j].status = jobs[j].status
         \/ jobs[j].status = "open" /\ jobs'[j].status = "funded"
         \/ jobs[j].status = "funded" /\ jobs'[j].status = "submitted"
         \/ jobs[j].status \in {"funded", "submitted"} /\ jobs'[j].status \in JobTerminal
      /\ \/ jobs'[j].deliverable = jobs[j].deliverable
         \/ jobs[j].status = "funded" /\ jobs'[j].status = "submitted"
<1>0. jobs[j] \in Job
  BY DEF Basic, Types, JobsType
<1>1. ASSUME NEW x \in DOMAIN txs, MineCreate(x)
      PROVE  Moved
  BY <1>1, CreateEffects
<1>2. ASSUME NEW x \in DOMAIN txs, MineCall(x)
      PROVE  Moved
  <2>1. CASE j # txs[x].on
    BY <1>2, <2>1, CallEffects
  <2>2. CASE j = txs[x].on
    <3>1. jobs'[j] = Applied(txs[x]) /\ j \in DOMAIN jobs' /\ jobs[j].status \in EntryStates(txs[x].act)
      BY <1>2, <2>2, CallEffects
    <3>2. txs[x].act \in ChainAction \ {"createJob"}
      <4>1. txs[x] \in Tx
        BY <1>2 DEF Basic, Types, TxsType
      <4>2. txs[x].act # "createJob"
        BY <1>2 DEF MineCall
      <4> QED BY <4>1, <4>2 DEF Tx
    <3>3. CASE txs[x].act \in {"setBudget", "fund"}
      BY <1>0, <2>2, <3>1, <3>3 DEF Applied, EntryStates, Job
    <3>4. CASE txs[x].act = "submit"
      BY <1>0, <2>2, <3>1, <3>4 DEF Applied, EntryStates, Job
    <3>5. CASE txs[x].act \in {"complete", "reject"}
      BY <1>0, <2>2, <3>1, <3>5 DEF Applied, EntryStates, Job, JobTerminal
    <3> QED BY <3>2, <3>3, <3>4, <3>5 DEF ChainAction
  <2> QED BY <2>1, <2>2
<1>3. ASSUME NEW k \in DOMAIN jobs, ClaimRefund(k)
      PROVE  Moved
  BY <1>0, <1>3 DEF ClaimRefund, JobTerminal, Job, Basic, Types, JobsType
<1> QED BY <1>1, <1>2, <1>3, ChainEffects DEF MineRevert

\* How a transaction's status changes.
LEMMA MinedInStep ==
  ASSUME Basic, [Next]_vars, NEW x \in DOMAIN txs
  PROVE  \/ txs'[x] = txs[x]
         \/ MineCreate(x)
         \/ MineCall(x) /\ ChainStep
         \/ MineRevert(x) /\ UNCHANGED jobs /\ txs'[x].status = "reverted"
<1>1. ASSUME NEW y \in DOMAIN txs, MineCreate(y) \/ MineCall(y)
      PROVE  txs'[x] = txs[x] \/ x = y
  BY <1>1, CreateEffects, CallEffects
<1>2. ASSUME NEW y \in DOMAIN txs, MineRevert(y)
      PROVE  txs'[x] = txs[x] \/ (x = y /\ UNCHANGED jobs /\ txs'[x].status = "reverted")
  BY <1>2 DEF MineRevert, Basic, Types, TxsType, Tx
<1>3. ASSUME NEW r \in Runners, WriteSend(r)
      PROVE  txs'[x] = txs[x]
  BY <1>3, SendEffects
<1> QED BY <1>1, <1>2, <1>3, ChainEffects DEF ClaimRefund

\* A transaction that is pending was pending.
LEMMA PendingBefore ==
  ASSUME Basic, [Next]_vars, NEW x \in DOMAIN txs, txs'[x].status = "pending"
  PROVE  txs[x].status = "pending"
  BY MinedInStep DEF MineCreate, MineCall, MineRevert

\* TxFits survives what the jobs may do.
LEMMA TxStillFits ==
  ASSUME Basic, [Next]_vars, NEW x \in DOMAIN txs, txs[x].act \in OnJob, TxFits(x),
         txs'[x] = txs[x]
  PROVE  TxFits(x)'
<1>1. txs[x].on \in DOMAIN jobs
  BY DEF TxFits
<1>2. /\ txs[x].on \in DOMAIN jobs'
      /\ jobs[txs[x].on].status \in JobTerminal => jobs'[txs[x].on] = jobs[txs[x].on]
  BY <1>1, JobsAreKept
<1> DEFINE before == jobs[txs[x].on].status
<1> DEFINE after == jobs'[txs[x].on].status
<1>3. /\ \/ after = before
         \/ before = "open" /\ after = "funded"
         \/ before = "funded" /\ after = "submitted"
         \/ before \in {"funded", "submitted"} /\ after \in JobTerminal
      /\ \/ jobs'[txs[x].on].deliverable = jobs[txs[x].on].deliverable
         \/ before = "funded" /\ after = "submitted"
  BY <1>1, StatusMoves
<1>4. /\ before \in Since(txs[x].act)
      /\ txs[x].status # "pending" => before \in {"submitted"} \cup JobTerminal
      /\ txs[x].status = "reverted" /\ txs[x].act # "submit" => before \in JobTerminal
      /\ txs[x].status = "success" =>
            /\ txs[x].act = "submit" => jobs[txs[x].on].deliverable = txs[x].sa
            /\ txs[x].act = "complete" => before = "completed"
            /\ txs[x].act = "reject" => before = "rejected"
  BY DEF TxFits
<1>5. before \in JobTerminal => after = before
  BY <1>2
<1>6. after \in Since(txs[x].act)
  BY <1>3, <1>4, <1>5 DEF Since, JobTerminal
<1>7. txs[x].status # "pending" => after \in {"submitted"} \cup JobTerminal
  BY <1>3, <1>4, <1>5 DEF JobTerminal
<1>8. txs[x].status = "reverted" /\ txs[x].act # "submit" => after \in JobTerminal
  BY <1>4, <1>5
<1>9. txs[x].status = "success" =>
         /\ txs[x].act = "submit" => jobs'[txs[x].on].deliverable = txs[x].sa
         /\ txs[x].act = "complete" => after = "completed"
         /\ txs[x].act = "reject" => after = "rejected"
  BY <1>3, <1>4, <1>5 DEF JobTerminal
<1> QED BY <1>2, <1>6, <1>7, <1>8, <1>9 DEF TxFits

\* TxsFit is preserved by every step.
LEMMA TxsFitStep ==
  ASSUME Basic, TxsFit, [Next]_vars
  PROVE  TxsFit'
<1> SUFFICES ASSUME NEW x \in DOMAIN txs', txs'[x].act \in OnJob
             PROVE  TxFits(x)'
  BY DEF TxsFit
<1>1. CASE x \notin DOMAIN txs
  <2>1. PICK r \in Runners : WriteSend(r)
    BY <1>1, TxsOfStep
  <2> DEFINE t == NewTx(pc[r], ctx[r].job, Deliverable(r))
  <2>2. txs'[x] = t /\ jobs' = jobs
    BY <1>1, <2>1, SendEffects DEF WriteSend, Send
  <2>3. t.status = "pending" /\ t.act \in OnJob /\ Accepts(t)
    BY <2>1, <2>2 DEF NewTx, WriteSend, Send
  <2> HIDE DEF t
  <2>4. t.on \in DOMAIN jobs /\ jobs[t.on].status \in Since(t.act)
    BY <2>3 DEF Accepts, OnJob, EntryStates, Since
  <2> QED BY <2>2, <2>3, <2>4 DEF TxFits
<1>2. CASE x \in DOMAIN txs
  <2>0. /\ txs'[x].act = txs[x].act /\ txs'[x].on = txs[x].on /\ txs'[x].sa = txs[x].sa
        /\ TxFits(x)
    BY <1>2, TxsAreKept DEF TxsFit
  <2>1. CASE txs'[x] = txs[x]
    BY <1>2, <2>0, <2>1, TxStillFits
  <2>2. CASE MineCall(x)
    <3>1. /\ txs[x].on \in DOMAIN jobs /\ txs[x].on \in DOMAIN jobs' /\ jobs[txs[x].on] \in Job
          /\ jobs'[txs[x].on] = Applied(txs[x]) /\ txs'[x].status = "success"
      BY <1>2, <2>2, CallEffects
    <3>2. CASE txs[x].act = "submit"
      <4>1. jobs'[txs[x].on].status = "submitted" /\ jobs'[txs[x].on].deliverable = txs[x].sa
        BY <3>1, <3>2 DEF Applied, Job
      <4> QED BY <2>0, <3>1, <3>2, <4>1 DEF TxFits, Since
    <3>3. CASE txs[x].act = "complete"
      <4>1. jobs'[txs[x].on].status = "completed"
        BY <3>1, <3>3 DEF Applied, Job
      <4> QED BY <2>0, <3>1, <3>3, <4>1 DEF TxFits, Since, JobTerminal
    <3>4. CASE txs[x].act = "reject"
      <4>1. jobs'[txs[x].on].status = "rejected"
        BY <3>1, <3>4 DEF Applied, Job
      <4> QED BY <2>0, <3>1, <3>4, <4>1 DEF TxFits, Since, JobTerminal
    <3> QED BY <2>0, <3>2, <3>3, <3>4 DEF OnJob
  <2>3. CASE MineRevert(x) /\ UNCHANGED jobs /\ txs'[x].status = "reverted"
    <3>1. jobs[txs[x].on].status \in Since(txs[x].act) /\ txs[x].on \in DOMAIN jobs
      BY <2>0 DEF TxFits
    <3>2. jobs[txs[x].on].status \notin EntryStates(txs[x].act)
      BY <2>0, <2>3, <3>1 DEF MineRevert, Accepts, OnJob
    <3>3. /\ jobs[txs[x].on].status \in {"submitted"} \cup JobTerminal
          /\ txs[x].act # "submit" => jobs[txs[x].on].status \in JobTerminal
      BY <2>0, <3>1, <3>2 DEF Since, EntryStates, OnJob
    <3> QED BY <2>0, <2>3, <3>1, <3>3 DEF TxFits
  <2>4. ~MineCreate(x)
    BY <2>0 DEF MineCreate, OnJob
  <2> QED BY <1>2, <2>1, <2>2, <2>3, <2>4, MinedInStep
<1> QED BY <1>1, <1>2

\* Verdict is preserved by every step.
LEMMA VerdictStep ==
  ASSUME Basic, Verdict, [Next]_vars
  PROVE  Verdict'
<1> SUFFICES ASSUME NEW s \in Runners
             PROVE  /\ pc'[s] = "complete" => ctx'[s].passed
                    /\ pc'[s] = "reject" => ~ctx'[s].passed
  BY DEF Verdict
<1>1. CASE RunnerStep(s)
  <2>1. CASE Settle(s)
    BY <2>1 DEF Settle, Goto, Basic, Types, PcType
  <2>2. CASE Write(s) /\ pc'[s] = pc[s]
    BY <2>2, WriteChanges DEF Verdict
  <2>3. CASE pc'[s] \notin {"complete", "reject"}
    BY <2>3
  <2> QED BY <1>1, <2>1, <2>2, <2>3, WhereTo DEF AfterWrite
<1>2. CASE pc'[s] = pc[s] /\ ctx'[s] = ctx[s]
  BY <1>2 DEF Verdict
<1>3. CASE EnvStep
  BY <1>2, <1>3, EnvChanges DEF Inside, Executing, Work
<1>4. CASE UNCHANGED vars
  BY <1>2, <1>4 DEF vars
<1> QED BY <1>1, <1>2, <1>3, <1>4, NextSteps, OthersStay

OutcomesInv == TxsFit /\ Verdict

LEMMA OutcomesInvariant == Spec => []OutcomesInv
<1>1. Init => OutcomesInv
  BY DEF Init, EscrowInit, OutcomesInv, TxsFit, Verdict
<1> QED BY <1>1, BasicInvariant, TxsFitStep, VerdictStep, PTL DEF Spec, OutcomesInv

----------------------------------------------------------------------------
(* Income is booked for a job that paid out *)

\* A settlement that is out but not mined has a runner waiting for its receipt; one
\* that is to be sent is not on record; and what was settled stays settled.
Awaits(r, act, x) == pc[r] = act /\ call[r].phase = "receipt" /\ call[r].tx = x
Watched(act) ==
    \A row \in txLog : row.key[1] = act /\ txs[row.tx].status = "pending" =>
        \E r \in Runners : Awaits(r, act, row.tx)
Unlogged(r, act) == ~Logged(<<act, ctx[r].job>>)
FirstCall(act) == \A r \in Runners : pc[r] = act /\ call[r].phase = "call" => Unlogged(r, act)
Booking == {"ledger", "reconcile", "succeed"}
Settles(act) == IF act = "complete" THEN "completed" ELSE "rejected"
SettledAs(act) ==
    \A r \in Runners : pc[r] \in Booking /\ (ctx[r].passed <=> act = "complete") =>
        ctx[r].job \in DOMAIN jobs /\ jobs[ctx[r].job].status = Settles(act)
SettlingInv(act) == Watched(act) /\ FirstCall(act) /\ SettledAs(act)

FeesArePaid ==
    \A e \in ledger : e.category = "case_fee" =>
        e.ref \in DOMAIN jobs /\ jobs[e.ref].status = "completed"

\* A runner that waits for a receipt goes on once the transaction is mined.
LEMMA AwaitsMining ==
  ASSUME Basic, NEW r \in Runners, RunnerStep(r), pc[r] \in ChainAction, call[r].phase = "receipt"
  PROVE  /\ WriteDone(r) \/ WriteReverted(r)
         /\ txs[call[r].tx].status # "pending"
<1>1. Write(r)
  BY AdmitChanges DEF RunnerStep, ChainAction, Proceed, Intake, AdoptExternalJob,
     ExternalJobRefused, JobIdFromTx, ReceiptMissing, ReusePurchase, NotPurchased, Pay,
     RecordPurchase, Assess, EscalationUnconfigured, MarkSubmitted, Verify, Settle, RecordLedger,
     ReconcileJobState, Succeed, Fail
<1>2. WriteDone(r) \/ WriteReverted(r)
  BY <1>1 DEF Write, WriteHit, LookupHit, WriteApprove, ApproveUsdc, WriteSend, Send, SendPhase,
     WriteRefused, SendRefused, WriteRecord, Record, WriteDuplicate, RecordDuplicate
<1> QED BY <1>2 DEF WriteDone, ReceiptSuccess, WriteReverted, ReceiptReverted

\* A runner that waits for a receipt is not cut off.
LEMMA AwaitsOn ==
  ASSUME NEW act \in ChainAction, NotCut({act}, "receipt"), Basic, EnvStep,
         NEW s \in Runners, NEW x, Awaits(s, act, x)
  PROVE  Awaits(s, act, x)'
<1>1. Point(s)[1] \in {act} /\ Point(s)[2] = "receipt" /\ Executing(s)
  BY DEF Point, Executing, Awaits, ChainAction, Work
<1> QED BY <1>1, Uncut DEF NotCut, Awaits

\* Watched is preserved by every step.
LEMMA WatchedStep ==
  ASSUME NEW act \in ChainAction, NotCut({act}, "receipt"), Basic, Watched(act), [Next]_vars
  PROVE  Watched(act)'
<1> SUFFICES ASSUME NEW row \in txLog', row.key[1] = act, txs'[row.tx].status = "pending"
             PROVE  \E r \in Runners : Awaits(r, act, row.tx)'
  BY DEF Watched
<1>1. CASE row \in txLog
  <2>1. txs[row.tx].status = "pending"
    BY <1>1, PendingBefore DEF Basic, LoggedHandles
  <2>2. PICK s \in Runners : Awaits(s, act, row.tx)
    BY <1>1, <2>1 DEF Watched
  <2>3. ~RunnerStep(s)
    BY <2>1, <2>2, AwaitsMining DEF Awaits
  <2>4. CASE pc'[s] = pc[s] /\ call'[s] = call[s]
    BY <2>2, <2>4 DEF Awaits
  <2>5. CASE EnvStep
    BY <2>2, <2>5, AwaitsOn
  <2> QED BY <2>3, <2>4, <2>5, NextSteps, OthersStay DEF vars, clientVars
<1>2. CASE row \notin txLog
  <2>1. PICK r \in Runners : RunnerStep(r)
    BY <1>2, NextSteps, EnvChanges DEF vars, clientVars
  <2>2. /\ row = [key |-> KeyOf(r), tx |-> call[r].tx]
        /\ pc'[r] = pc[r] /\ call'[r].phase = "receipt" /\ call'[r].tx = call[r].tx
    BY <1>2, <2>1, LogChanges
  <2>3. row.key = KeyOf(r) /\ row.tx = call[r].tx
    BY <2>2
  <2>4. pc[r] = act
    BY <2>3 DEF KeyOf, Key
  <2> QED BY <2>2, <2>3, <2>4 DEF Awaits
<1> QED BY <1>1, <1>2

\* What is on record of a job that may still be settled has its waiting runner, so a
\* runner that comes to settle finds nothing on record.
LEMMA NothingLogged ==
  ASSUME NEW act \in {"complete", "reject"}, JobsApart, Everywhere, OneRunPerCase, OutcomesInv,
         Watched(act), NEW s \in Runners, pc[s] \in BoundStages, pc[s] # act,
         jobs[ctx[s].job].status \notin JobTerminal
  PROVE  Unlogged(s, act)
<1> SUFFICES ASSUME NEW row \in txLog, row.key = <<act, ctx[s].job>>
             PROVE  FALSE
  BY DEF Unlogged, Logged
<1> USE DEF Everywhere
<1>1. row.key[1] = act /\ row.key[2] = ctx[s].job
  OBVIOUS
<1>2. row.tx \in DOMAIN txs /\ txs[row.tx].act = act /\ txs[row.tx].on = ctx[s].job
  BY <1>1 DEF WritesInv, LoggedWrites, Basic, LoggedHandles
<1>3. TxFits(row.tx)
  BY <1>2 DEF OutcomesInv, TxsFit, OnJob
<1>4. txs[row.tx].status \in {"pending", "success", "reverted"}
  <2>1. txs[row.tx] \in Tx
    BY <1>2 DEF Basic, Types, TxsType
  <2> QED BY <2>1 DEF Tx
<1>5. txs[row.tx].status = "pending"
  BY <1>2, <1>3, <1>4 DEF TxFits, JobTerminal
<1>6. PICK r \in Runners : Awaits(r, act, row.tx)
  BY <1>1, <1>5 DEF Watched
<1>7. ctx[r].job = ctx[s].job
  BY <1>2, <1>6 DEF Awaits, WritesInv, HeldWrites, ChainAction
<1>8. pc[r] \in BoundStages
  BY <1>6 DEF Awaits, BoundStages, Work
<1>9. r = s
  BY <1>7, <1>8, OneWorker
<1> QED BY <1>6, <1>9 DEF Awaits

\* A runner that stays in a write has broadcast it or recorded it.
LEMMA StaysCalling ==
  ASSUME Basic, NEW r \in Runners, Write(r), pc'[r] = pc[r], pc[r] # "fund"
  PROVE  call'[r].phase # "call"
<1> USE DEF Writing, Goto, Basic, Types, PcType, CallType, Call
<1>1. WriteSend(r) \/ WriteRecord(r)
  BY DEF Write, WriteHit, WriteApprove, WriteRefused, WriteDuplicate, WriteDone,
         WriteReverted, AfterWrite, ChainAction
<1> QED BY <1>1 DEF WriteSend, Send, WriteRecord, Record

\* FirstCall is preserved by every step.
LEMMA FirstCallStep ==
  ASSUME NEW act \in {"complete", "reject"}, JobsApart, Everywhere, OneRunPerCase, OutcomesInv,
         Watched(act), FirstCall(act), [Next]_vars
  PROVE  FirstCall(act)'
<1> SUFFICES ASSUME NEW s \in Runners, pc'[s] = act, call'[s].phase = "call"
             PROVE  Unlogged(s, act)'
  BY DEF FirstCall
<1>0. Basic
  BY DEF Everywhere
<1>1. CASE RunnerStep(s)
  <2>1. Settle(s) /\ jobs[ctx[s].job].status \in SettleState(s)
    <3>1. ~(Write(s) /\ pc'[s] = pc[s])
      BY <1>0, StaysCalling
    <3> QED BY <1>0, <1>1, <3>1, WhereTo DEF AfterWrite
  <2>2. UNCHANGED <<ctx, txLog>> /\ pc[s] = "settle"
    BY <2>1 DEF Settle, clientVars
  <2>3. jobs[ctx[s].job].status \notin JobTerminal
    BY <2>1 DEF SettleState, JobTerminal
  <2>4. Unlogged(s, act)
    BY <2>2, <2>3, NothingLogged DEF BoundStages, Work
  <2> QED BY <2>2, <2>4 DEF Unlogged, Logged
<1>2. ASSUME NEW r \in Runners, RunnerStep(r), r # s
      PROVE  Unlogged(s, act)'
  <2>1. pc[s] = act /\ ctx'[s] = ctx[s] /\ Unlogged(s, act)
    BY <1>0, <1>2, OthersStay DEF FirstCall
  <2>2. CASE UNCHANGED txLog
    BY <2>1, <2>2 DEF Unlogged, Logged
  <2>3. CASE Sending(r) /\ txLog' = txLog \cup {[key |-> KeyOf(r), tx |-> call[r].tx]}
    <3>1. KeyOf(s) = <<act, ctx[s].job>>
      BY <2>1 DEF KeyOf, Key
    <3>2. KeyOf(r) # KeyOf(s)
      BY <1>2, <2>1, <2>3, KeysApart DEF Sending, ChainAction
    <3> QED BY <2>1, <2>3, <3>1, <3>2 DEF Unlogged, Logged
  <2> QED BY <1>0, <1>2, <2>2, <2>3, LogChanges
<1>3. CASE pc'[s] = pc[s] /\ call'[s] = call[s] /\ ctx'[s] = ctx[s] /\ UNCHANGED txLog
  BY <1>3 DEF FirstCall, Unlogged, Logged
<1>4. CASE EnvStep
  BY <1>0, <1>3, <1>4, EnvChanges DEF Inside, Executing, Work
<1> QED BY <1>1, <1>2, <1>3, <1>4, NextSteps DEF vars, clientVars

\* A write that found its hash on record was not the first.
LEMMA SettledByReceipt ==
  ASSUME NEW act \in {"complete", "reject"}, Basic, WritesInv, OutcomesInv, FirstCall(act),
         NEW r \in Runners, pc[r] = act, WriteHit(r) \/ WriteDone(r)
  PROVE  ctx[r].job \in DOMAIN jobs /\ jobs[ctx[r].job].status = Settles(act)
<1>1. ~WriteHit(r)
  BY DEF WriteHit, LookupHit, SendPhase, FirstCall, Unlogged, KeyOf, Key
<1>2. call[r].phase = "receipt" /\ txs[call[r].tx].status = "success"
  BY <1>1 DEF WriteDone, ReceiptSuccess
<1>3. /\ txs[call[r].tx].act = act /\ txs[call[r].tx].on = ctx[r].job
      /\ call[r].tx \in DOMAIN txs
  BY <1>2 DEF WritesInv, HeldWrites, ChainAction, Basic, HeldHandles
<1>4. TxFits(call[r].tx)
  BY <1>3 DEF OutcomesInv, TxsFit, OnJob
<1> QED BY <1>2, <1>3, <1>4 DEF TxFits, Settles

\* SettledAs is preserved by every step.
LEMMA SettledAsStep ==
  ASSUME NEW act \in {"complete", "reject"}, Basic, WritesInv, OutcomesInv, FirstCall(act),
         SettledAs(act), [Next]_vars
  PROVE  SettledAs(act)'
<1> SUFFICES ASSUME NEW s \in Runners, pc'[s] \in Booking, ctx'[s].passed <=> act = "complete"
             PROVE  ctx'[s].job \in DOMAIN jobs' /\ jobs'[ctx'[s].job].status = Settles(act)
  BY DEF SettledAs
<1>1. \A j \in DOMAIN jobs : jobs[j].status = Settles(act)
        => j \in DOMAIN jobs' /\ jobs'[j].status = Settles(act)
  BY JobsAreKept DEF Settles, JobTerminal
<1>2. CASE pc[s] \in Booking /\ ctx'[s] = ctx[s]
  BY <1>1, <1>2 DEF SettledAs
<1>3. CASE RunnerStep(s)
  <2>1. CASE (WriteHit(s) \/ WriteDone(s)) /\ pc[s] \in ChainAction /\ pc'[s] = AfterWrite(pc[s])
    <3>1. ctx' = ctx
      BY <2>1 DEF WriteHit, WriteDone, Writing
    <3>2. pc[s] \in {"complete", "reject"}
      BY <2>1 DEF AfterWrite, ChainAction, Booking
    <3>3. pc[s] = act
      BY <3>1, <3>2 DEF OutcomesInv, Verdict
    <3> QED BY <1>1, <2>1, <3>1, <3>3, SettledByReceipt
  <2>2. CASE RecordLedger(s) \/ ReconcileJobState(s)
    BY <1>2, <2>2 DEF RecordLedger, ReconcileJobState, Booking
  <2> QED BY <1>3, <2>1, <2>2, WhereTo DEF Booking, ChainAction
<1>4. CASE EnvStep
  BY <1>2, <1>4, EnvChanges DEF Inside, Executing, Work, Booking
<1>5. CASE pc'[s] = pc[s] /\ ctx'[s] = ctx[s]
  BY <1>2, <1>5
<1> QED BY <1>3, <1>4, <1>5, NextSteps, OthersStay DEF vars

LEMMA SettlingStep ==
  ASSUME NEW act \in {"complete", "reject"}, NotCut({act}, "receipt"), JobsApart, Everywhere,
         OneRunPerCase, OutcomesInv, SettlingInv(act), [Next]_vars
  PROVE  SettlingInv(act)'
  BY WatchedStep, FirstCallStep, SettledAsStep DEF SettlingInv, Everywhere, ChainAction

LEMMA SettlingInit ==
  ASSUME NEW act \in {"complete", "reject"}, Init
  PROVE  SettlingInv(act)
  BY DEF Init, JobClientInit, SettlingInv, Watched, FirstCall, SettledAs, Booking

\* FeesArePaid is preserved by every step.
LEMMA FeesStep ==
  ASSUME Basic, SettledAs("complete"), FeesArePaid, [Next]_vars
  PROVE  FeesArePaid'
<1> SUFFICES ASSUME NEW e \in ledger', e.category = "case_fee"
             PROVE  e.ref \in DOMAIN jobs' /\ jobs'[e.ref].status = "completed"
  BY DEF FeesArePaid
<1>1. e.ref \in DOMAIN jobs /\ jobs[e.ref].status = "completed"
  <2>1. CASE e \in ledger
    BY <2>1 DEF FeesArePaid
  <2>2. CASE e \notin ledger
    <3>1. PICK r \in Runners : RunnerStep(r) /\ RecordLedger(r)
      BY <2>2, NextSteps, EnvChanges, AdmitChanges, WriteChanges, ProceedChanges
         DEF RunnerStep, vars, storeVars
    <3>2. e \in ProcurementEntries(CaseOf(r), ctx[r].receipt)
            \/ (ctx[r].passed /\ e \in CompleteEntries(CaseOf(r), ctx[r].job))
      BY <2>2, <3>1 DEF RecordLedger, Booked
    <3>3. ctx[r].passed /\ e.ref = ctx[r].job
      BY <3>2, CostRows, FeeRows
    <3>4. PICK b \in BOOLEAN : b = ctx[r].passed
      BY <3>1, KeepsRequest, RunnerLocals DEF Ctx
    <3> QED BY <3>1, <3>3, <3>4 DEF SettledAs, RecordLedger, Booking, Settles
  <2> QED BY <2>1, <2>2
<1> QED BY <1>1, JobsAreKept DEF JobTerminal

\* Income is booked only for a job that paid out, for any number of requests,
\* crashes and failed calls, when one process serves the case and no payout is cut
\* off while its transaction is out: a later run would find the hash on record and
\* take the settlement for done.
THEOREM OneProcessIncomeIsReal ==
  ASSUME OneProcess, JobsApart, PayoutsNotCut
  PROVE  Spec => []IncomeIsReal
<1>0. NotCut({"complete"}, "receipt")
  BY DEF PayoutsNotCut
<1>1. Init => SettlingInv("complete") /\ FeesArePaid
  BY SettlingInit DEF Init, FeesArePaid
<1>2. Everywhere /\ OneRunPerCase /\ OutcomesInv /\ SettlingInv("complete") /\ [Next]_vars
        => SettlingInv("complete")'
  BY <1>0, SettlingStep
<1>3. Everywhere /\ SettlingInv("complete") /\ FeesArePaid /\ [Next]_vars => FeesArePaid'
  BY FeesStep DEF SettlingInv, Everywhere
<1>4. FeesArePaid => IncomeIsReal
  BY DEF FeesArePaid, IncomeIsReal
<1> QED BY <1>1, <1>2, <1>3, <1>4, EverywhereInvariant, OneRunAtATime, OutcomesInvariant, PTL DEF Spec

----------------------------------------------------------------------------
(* A success answers what the chain holds *)

\* A submission that is out finds its job funded until it is mined, for it is the
\* only one; if it reverts, the job has ended without it.
SubmitOpen ==
    \A x \in DOMAIN txs : txs[x].act = "submit" =>
        /\ txs[x].status = "pending" => jobs[txs[x].on].status \in {"funded"} \cup JobTerminal
        /\ txs[x].status = "reverted" => jobs[txs[x].on].status \in JobTerminal

\* A job that was submitted has a runner at work on it until it ends, so no other
\* runner submits to it; and past the submission a runner holds the deliverable
\* that is on chain, or goes on only to find that the job has ended.
Submitted == AfterSubmit \cup {"submitted"}
Over(j) == j \in DOMAIN jobs /\ jobs[j].status \in JobTerminal
Serves(r, row) ==
    /\ ctx[r].job = row.key[2]
    /\ Awaits(r, "submit", row.tx) \/ pc[r] \in Submitted
Attended ==
    \A row \in txLog : row.key[1] = "submit" =>
        Over(row.key[2]) \/ \E r \in Runners : Serves(r, row)
MayResubmit(r) == Logged(<<"submit", ctx[r].job>>) => Over(ctx[r].job)
SubmitKnown == \A r \in Runners : pc[r] = "submit" /\ call[r].phase = "call" => MayResubmit(r)
Carries(j, sa) ==
    /\ j \in DOMAIN jobs
    /\ jobs[j].status \in {"submitted"} \cup JobTerminal
    /\ jobs[j].deliverable = sa
AsSubmitted ==
    \A r \in Runners : pc[r] \in Submitted =>
        \/ Carries(ctx[r].job, ctx[r].sa)
        \/ pc[r] \in {"submitted", "verify", "settle"} /\ Over(ctx[r].job)

SubmissionInv == Attended /\ SubmitKnown /\ AsSubmitted

\* A job becomes submitted by a submission to it.
LEMMA SubmittedBy ==
  ASSUME Basic, [Next]_vars, NEW j \in DOMAIN jobs,
         jobs[j].status = "funded", jobs'[j].status = "submitted"
  PROVE  \E y \in DOMAIN txs : MineCall(y) /\ txs[y].act = "submit" /\ txs[y].on = j
<1>0. jobs[j] \in Job
  BY DEF Basic, Types, JobsType
<1>1. ASSUME NEW x \in DOMAIN txs, MineCreate(x)
      PROVE  FALSE
  BY <1>1, CreateEffects
<1>2. ASSUME NEW x \in DOMAIN txs, MineCall(x)
      PROVE  txs[x].act = "submit" /\ txs[x].on = j
  <2>1. txs[x].on = j
    BY <1>2, CallEffects
  <2>2. jobs'[j] = Applied(txs[x]) /\ jobs[j].status \in EntryStates(txs[x].act)
    BY <1>2, <2>1, CallEffects
  <2>3. CASE txs[x].act \in {"setBudget", "fund"}
    BY <2>2, <2>3 DEF EntryStates
  <2>4. CASE txs[x].act \notin {"setBudget", "fund", "submit"}
    BY <1>0, <2>1, <2>2, <2>4 DEF Applied, Job
  <2> QED BY <2>1, <2>3, <2>4
<1>3. ASSUME NEW k \in DOMAIN jobs, ClaimRefund(k)
      PROVE  FALSE
  BY <1>0, <1>3 DEF ClaimRefund, Job, Basic, Types, JobsType
<1> QED BY <1>1, <1>2, <1>3, ChainEffects DEF MineRevert

\* Within one process a job is submitted by one transaction.
LEMMA OneSubmission ==
  ASSUME JobsApart, Everywhere, OneRunPerCase, CreatesInv, SendingUnlogged, KnownOf({"submit"}),
         NEW x \in DOMAIN txs, NEW y \in DOMAIN txs,
         txs[x].act = "submit", txs[y].act = "submit", txs[x].on = txs[y].on
  PROVE  x = y
<1>1. Known(x) /\ Known(y)
  BY DEF KnownOf
<1>2. SentAs(x, <<"submit", txs[x].on>>) /\ SentAs(y, <<"submit", txs[x].on>>)
  BY <1>1, KeyOfTx
<1> QED BY <1>2, OneTxPerKey

\* SubmitOpen is preserved by every step.
LEMMA SubmitOpenStep ==
  ASSUME JobsApart, Everywhere, OneRunPerCase, CreatesInv, SendingUnlogged, KnownOf({"submit"}),
         OutcomesInv, SubmitOpen, [Next]_vars
  PROVE  SubmitOpen'
<1> SUFFICES ASSUME NEW x \in DOMAIN txs', txs'[x].act = "submit"
             PROVE  LET status == jobs'[txs'[x].on].status
                    IN  /\ txs'[x].status = "pending" => status \in {"funded"} \cup JobTerminal
                        /\ txs'[x].status = "reverted" => status \in JobTerminal
  BY DEF SubmitOpen
<1>0. Basic
  BY DEF Everywhere
<1>1. CASE x \notin DOMAIN txs
  <2>1. PICK r \in Runners : WriteSend(r)
    BY <1>0, <1>1, TxsOfStep
  <2> DEFINE t == NewTx(pc[r], ctx[r].job, Deliverable(r))
  <2>2. txs'[x] = t /\ jobs' = jobs
    BY <1>0, <1>1, <2>1, SendEffects DEF WriteSend, Send
  <2>3. t.status = "pending" /\ Accepts(t)
    BY <2>1, <2>2 DEF NewTx, WriteSend, Send
  <2> HIDE DEF t
  <2>4. jobs[t.on].status = "funded"
    BY <2>2, <2>3 DEF Accepts, EntryStates
  <2> QED BY <2>2, <2>3, <2>4
<1>2. CASE x \in DOMAIN txs
  <2>0. /\ txs[x].act = "submit" /\ txs'[x].on = txs[x].on /\ txs[x].on \in DOMAIN jobs
    BY <1>0, <1>2, TxsAreKept DEF OutcomesInv, TxsFit, TxFits, OnJob
  <2>1. CASE txs'[x] = txs[x]
    <3>1. jobs[txs[x].on].status \in JobTerminal => jobs'[txs[x].on] = jobs[txs[x].on]
      BY <1>0, <2>0, JobsAreKept
    <3>2. ASSUME txs[x].status = "pending", jobs[txs[x].on].status = "funded"
          PROVE  jobs'[txs[x].on].status \in {"funded"} \cup JobTerminal
      <4>1. jobs'[txs[x].on].status # "submitted"
        <5> SUFFICES ASSUME jobs'[txs[x].on].status = "submitted"
                     PROVE  FALSE
          OBVIOUS
        <5>1. PICK y \in DOMAIN txs : MineCall(y) /\ txs[y].act = "submit" /\ txs[y].on = txs[x].on
          BY <1>0, <2>0, <3>2, SubmittedBy
        <5>2. x = y
          BY <1>2, <2>0, <5>1, OneSubmission
        <5>3. txs'[x].status = "success"
          BY <1>0, <5>1, <5>2, CallEffects
        <5> QED BY <2>1, <3>2, <5>3
      <4> QED BY <1>0, <2>0, <3>2, <4>1, StatusMoves
    <3> QED BY <1>2, <2>0, <2>1, <3>1, <3>2 DEF SubmitOpen
  <2>2. CASE MineCall(x)
    BY <1>0, <1>2, <2>2, CallEffects
  <2>3. CASE MineRevert(x) /\ UNCHANGED jobs /\ txs'[x].status = "reverted"
    <3>1. jobs[txs[x].on].status # "funded"
      BY <2>0, <2>3 DEF MineRevert, Accepts, EntryStates
    <3> QED BY <1>2, <2>0, <2>3, <3>1 DEF MineRevert, SubmitOpen
  <2>4. ~MineCreate(x)
    BY <2>0 DEF MineCreate
  <2> QED BY <1>0, <1>2, <2>1, <2>2, <2>3, <2>4, MinedInStep
<1> QED BY <1>1, <1>2

\* What is over stays over, and what is on chain stays on chain.
LEMMA OverStays ==
  ASSUME Basic, [Next]_vars, NEW j, Over(j)
  PROVE  Over(j)'
  BY JobsAreKept DEF Over

LEMMA CarriesOn ==
  ASSUME Basic, [Next]_vars, NEW j, NEW sa, Carries(j, sa)
  PROVE  Carries(j, sa)'
<1>1. j \in DOMAIN jobs' /\ (jobs[j].status \in JobTerminal => jobs'[j] = jobs[j])
  BY JobsAreKept DEF Carries
<1>2. jobs[j].status = "submitted" =>
        jobs'[j].status \in {"submitted"} \cup JobTerminal /\ jobs'[j].deliverable = jobs[j].deliverable
  BY StatusMoves DEF Carries
<1> QED BY <1>1, <1>2 DEF Carries

\* Past the submission, the job is submitted or over.
LEMMA SubmittedJob ==
  ASSUME AsSubmitted, NEW r \in Runners, pc[r] \in Submitted
  PROVE  /\ ctx[r].job \in DOMAIN jobs
         /\ jobs[ctx[r].job].status = "submitted" \/ Over(ctx[r].job)
  BY DEF AsSubmitted, Carries, Over

\* What is known on one process of every runner's settlement.
Settling == SettlingInv("complete") /\ SettlingInv("reject")

\* A runner that books has seen its job end.
LEMMA BookedJob ==
  ASSUME Basic, Settling, NEW r \in Runners, pc[r] \in Booking
  PROVE  /\ ctx[r].job \in DOMAIN jobs
         /\ jobs[ctx[r].job].status = IF ctx[r].passed THEN "completed" ELSE "rejected"
<1>1. PICK b \in BOOLEAN : b = ctx[r].passed
  BY DEF Basic, Types, CtxType, Ctx
<1>2. CASE b = TRUE
  BY <1>1, <1>2 DEF Settling, SettlingInv, SettledAs, Settles
<1>3. CASE b = FALSE
  BY <1>1, <1>3 DEF Settling, SettlingInv, SettledAs, Settles
<1> QED BY <1>2, <1>3

\* A settlement that does not go through has lost its job to a refund.
LEMMA SettlementFails ==
  ASSUME Everywhere, OutcomesInv, SendingUnlogged, AsSubmitted, NEW r \in Runners,
         pc[r] \in {"complete", "reject"}, WriteRefused(r) \/ WriteDuplicate(r) \/ WriteReverted(r)
  PROVE  Over(ctx[r].job)
<1> USE DEF Everywhere
<1>0. ctx[r].job \in DOMAIN jobs /\ (jobs[ctx[r].job].status = "submitted" \/ Over(ctx[r].job))
  BY SubmittedJob DEF Submitted, AfterSubmit
<1>1. CASE WriteRefused(r)
  <2> DEFINE t == NewTx(pc[r], ctx[r].job, Deliverable(r))
  <2>1. ~ClientPre(pc[r], ctx[r].job) \/ ~Accepts(t)
    BY <1>1 DEF WriteRefused, SendRefused
  <2>2. t.act = pc[r] /\ t.on = ctx[r].job
    BY DEF NewTx
  <2> HIDE DEF t
  <2>3. jobs[ctx[r].job].status # "submitted"
    BY <1>0, <2>1, <2>2 DEF ClientPre, Accepts, EntryStates
  <2> QED BY <1>0, <2>3
<1>2. ~WriteDuplicate(r)
  BY DEF WriteDuplicate, RecordDuplicate, SendingUnlogged, Sending, ChainAction
<1>3. CASE WriteReverted(r)
  <2>1. call[r].phase = "receipt" /\ txs[call[r].tx].status = "reverted"
    BY <1>3 DEF WriteReverted, ReceiptReverted
  <2>2. /\ txs[call[r].tx].act = pc[r] /\ txs[call[r].tx].on = ctx[r].job
        /\ call[r].tx \in DOMAIN txs
    BY <2>1 DEF WritesInv, HeldWrites, ChainAction, Basic, HeldHandles
  <2>3. TxFits(call[r].tx)
    BY <2>2 DEF OutcomesInv, TxsFit, OnJob
  <2> QED BY <2>1, <2>2, <2>3 DEF TxFits, Over
<1> QED BY <1>1, <1>2, <1>3

\* A runner past the submission goes on, or its job is over.
LEMMA GoesOnOrOver ==
  ASSUME Everywhere, OutcomesInv, SendingUnlogged, Settling, AsSubmitted,
         NEW r \in Runners, RunnerStep(r), pc[r] \in Submitted
  PROVE  (pc'[r] \in Submitted /\ ctx'[r].job = ctx[r].job) \/ Over(ctx[r].job)
<1> USE DEF Everywhere, Submitted, AfterSubmit
<1>0. /\ ctx[r].job \in DOMAIN jobs
      /\ jobs[ctx[r].job].status = "submitted" \/ Over(ctx[r].job)
      /\ Basic
  BY SubmittedJob
<1>1. CASE pc[r] \in {"complete", "reject"}
  <2>1. Write(r)
    BY <1>1, AdmitChanges DEF RunnerStep, Proceed, Intake, AdoptExternalJob,
       ExternalJobRefused, JobIdFromTx, ReceiptMissing, ReusePurchase, NotPurchased, Pay,
       RecordPurchase, Assess, EscalationUnconfigured, MarkSubmitted, Verify, Settle, RecordLedger,
       ReconcileJobState, Succeed, Fail
  <2>2. CASE WriteRefused(r) \/ WriteDuplicate(r) \/ WriteReverted(r)
    BY <1>1, <2>2, SettlementFails
  <2>3. CASE WriteHit(r) \/ WriteApprove(r) \/ WriteSend(r) \/ WriteRecord(r) \/ WriteDone(r)
    BY <1>0, <1>1, <2>3 DEF WriteHit, WriteApprove, WriteSend, WriteRecord, WriteDone, Writing, Goto,
       AfterWrite, Basic, Types, PcType
  <2> QED BY <2>1, <2>2, <2>3 DEF Write
<1>2. CASE pc[r] \in {"submitted", "verify"}
  <2>1. MarkSubmitted(r) \/ Verify(r)
    BY <1>2, AdmitChanges, WriteChanges DEF RunnerStep, ChainAction, Proceed, Intake, AdoptExternalJob,
       ExternalJobRefused, JobIdFromTx, ReceiptMissing, ReusePurchase, NotPurchased, Pay,
       RecordPurchase, Assess, EscalationUnconfigured, Settle, RecordLedger,
       ReconcileJobState, Succeed, Fail
  <2> QED BY <1>0, <2>1 DEF MarkSubmitted, Verify, Goto, Basic, Types, PcType, CtxType, Ctx
<1>3. CASE pc[r] = "settle"
  <2>1. Settle(r)
    BY <1>3, AdmitChanges, WriteChanges DEF RunnerStep, ChainAction, Proceed, Intake, AdoptExternalJob,
       ExternalJobRefused, JobIdFromTx, ReceiptMissing, ReusePurchase, NotPurchased, Pay,
       RecordPurchase, Assess, EscalationUnconfigured, MarkSubmitted, Verify, RecordLedger,
       ReconcileJobState, Succeed, Fail
  <2> QED BY <1>0, <2>1 DEF Settle, SettleState, Goto, Basic, Types, PcType
<1>4. CASE pc[r] \in Booking
  BY <1>0, <1>4, BookedJob DEF Over, JobTerminal
<1> QED BY <1>1, <1>2, <1>3, <1>4 DEF Booking

\* A runner that waits for its submission goes on with it, or its job is over.
LEMMA SubmissionReturns ==
  ASSUME Everywhere, OutcomesInv, SubmitOpen, NEW r \in Runners, NEW x, RunnerStep(r),
         Awaits(r, "submit", x)
  PROVE  (pc'[r] \in Submitted /\ ctx'[r].job = ctx[r].job) \/ Over(ctx[r].job)
<1> USE DEF Everywhere, Awaits
<1>1. WriteDone(r) \/ WriteReverted(r)
  BY AwaitsMining DEF ChainAction
<1>2. CASE WriteDone(r)
  BY <1>2 DEF WriteDone, Writing, Goto, AfterWrite, Submitted, Basic, Types, PcType
<1>3. CASE WriteReverted(r)
  <2>1. txs[x].status = "reverted"
    BY <1>3 DEF WriteReverted, ReceiptReverted
  <2>2. txs[x].act = "submit" /\ txs[x].on = ctx[r].job /\ x \in DOMAIN txs
    BY DEF WritesInv, HeldWrites, ChainAction, Basic, HeldHandles
  <2>3. TxFits(x)
    BY <2>2 DEF OutcomesInv, TxsFit, OnJob
  <2> QED BY <2>1, <2>2, <2>3 DEF SubmitOpen, TxFits, Over
<1> QED BY <1>1, <1>2, <1>3

\* Attended is preserved by every step.
LEMMA AttendedStep ==
  ASSUME SubmissionNotCut, Everywhere, OutcomesInv, SendingUnlogged, Settling, SubmitOpen,
         SubmissionInv, [Next]_vars
  PROVE  Attended'
<1> SUFFICES ASSUME NEW row \in txLog', row.key[1] = "submit"
             PROVE  Over(row.key[2])' \/ \E r \in Runners : Serves(r, row)'
  BY DEF Attended
<1>0. Basic
  BY DEF Everywhere
<1>1. CASE row \in txLog
  <2>1. CASE Over(row.key[2])
    BY <1>0, <2>1, OverStays
  <2>2. CASE \E r \in Runners : Serves(r, row)
    <3>1. PICK s \in Runners : Serves(s, row)
      BY <2>2
    <3>2. CASE RunnerStep(s)
      <4>1. (pc'[s] \in Submitted /\ ctx'[s].job = ctx[s].job) \/ Over(ctx[s].job)
        BY <3>1, <3>2, GoesOnOrOver, SubmissionReturns DEF Serves, SubmissionInv
      <4> QED BY <1>0, <3>1, <4>1, OverStays DEF Serves
    <3>3. CASE pc'[s] = pc[s] /\ ctx'[s] = ctx[s] /\ call'[s] = call[s]
      BY <3>1, <3>3 DEF Serves, Awaits
    <3>4. CASE EnvStep
      <4>1. Point(s) \notin FailAt /\ Executing(s)
        BY <3>1 DEF SubmissionNotCut, Serves, Awaits, Point, Submitted, AfterSubmit, Executing, Work
      <4> QED BY <1>0, <3>3, <3>4, <4>1, Uncut
    <3> QED BY <1>0, <3>2, <3>3, <3>4, NextSteps, OthersStay DEF vars, clientVars
  <2> QED BY <1>1, <2>1, <2>2 DEF SubmissionInv, Attended
<1>2. CASE row \notin txLog
  <2>1. PICK r \in Runners : RunnerStep(r)
    BY <1>0, <1>2, NextSteps, EnvChanges DEF vars, clientVars
  <2>2. /\ row = [key |-> KeyOf(r), tx |-> call[r].tx] /\ ctx' = ctx
        /\ pc'[r] = pc[r] /\ call'[r].phase = "receipt" /\ call'[r].tx = call[r].tx
    BY <1>0, <1>2, <2>1, LogChanges
  <2>3. row.key = KeyOf(r) /\ row.tx = call[r].tx
    BY <2>2
  <2>4. pc[r] = "submit" /\ row.key[2] = ctx[r].job
    BY <2>3 DEF KeyOf, Key
  <2> QED BY <2>2, <2>3, <2>4 DEF Serves, Awaits
<1> QED BY <1>1, <1>2

\* SubmitKnown is preserved by every step.
LEMMA SubmitKnownStep ==
  ASSUME JobsApart, Everywhere, OneRunPerCase, SubmissionInv, [Next]_vars
  PROVE  SubmitKnown'
<1> SUFFICES ASSUME NEW s \in Runners, pc'[s] = "submit", call'[s].phase = "call"
             PROVE  MayResubmit(s)'
  BY DEF SubmitKnown
<1>0. Basic
  BY DEF Everywhere
<1>j. PICK j : j = ctx[s].job
  OBVIOUS
<1>1. ASSUME ctx'[s].job = j, MayResubmit(s),
             Logged(<<"submit", j>>)' => Logged(<<"submit", j>>)
      PROVE  MayResubmit(s)'
  BY <1>0, <1>1, <1>j, OverStays DEF MayResubmit, Logged, Over
<1>2. CASE RunnerStep(s)
  <2>1. ~(Write(s) /\ pc'[s] = pc[s])
    BY <1>0, StaysCalling
  <2>2. \E sa \in Sas : Assess(s, sa)
    BY <1>0, <1>2, <2>1, WhereTo DEF AfterWrite
  <2>3. ctx'[s].job = j /\ UNCHANGED txLog /\ pc[s] = "assess"
    BY <1>0, <1>j, <2>2 DEF Assess, clientVars, Basic, Types, CtxType, Ctx
  <2>4. MayResubmit(s)
    <3> SUFFICES ASSUME NEW row \in txLog, row.key = <<"submit", j>>
                 PROVE  Over(j)
      BY <1>j DEF MayResubmit, Logged
    <3>1. row.key[1] = "submit" /\ row.key[2] = j
      OBVIOUS
    <3>2. ASSUME NEW r \in Runners, Serves(r, row)
          PROVE  FALSE
      <4>1. ctx[r].job = ctx[s].job /\ pc[r] \in Submitted \cup {"submit"}
        BY <1>j, <3>1, <3>2 DEF Serves, Awaits
      <4>2. r = s
        BY <2>3, <4>1, OneWorker DEF Submitted, AfterSubmit, BoundStages, Work
      <4> QED BY <2>3, <4>1, <4>2 DEF Submitted, AfterSubmit
    <3> QED BY <3>1, <3>2 DEF SubmissionInv, Attended
  <2> QED BY <1>1, <2>3, <2>4 DEF Logged
<1>3. ASSUME NEW r \in Runners, RunnerStep(r), r # s
      PROVE  MayResubmit(s)'
  <2>1. pc[s] = "submit" /\ ctx'[s] = ctx[s] /\ MayResubmit(s)
    BY <1>0, <1>3, OthersStay DEF SubmissionInv, SubmitKnown
  <2>2. CASE UNCHANGED txLog
    BY <1>1, <1>j, <2>1, <2>2 DEF Logged
  <2>3. CASE Sending(r) /\ txLog' = txLog \cup {[key |-> KeyOf(r), tx |-> call[r].tx]}
    <3>1. KeyOf(s) = <<"submit", j>>
      BY <1>j, <2>1 DEF KeyOf, Key
    <3>2. KeyOf(r) # KeyOf(s)
      BY <1>3, <2>1, <2>3, KeysApart DEF Sending, ChainAction
    <3>3. Logged(<<"submit", j>>)' => Logged(<<"submit", j>>)
      BY <2>3, <3>1, <3>2 DEF Logged
    <3> QED BY <1>1, <1>j, <2>1, <3>3
  <2> QED BY <1>0, <1>3, <2>2, <2>3, LogChanges
<1>4. CASE pc'[s] = pc[s] /\ call'[s] = call[s] /\ ctx'[s] = ctx[s] /\ UNCHANGED txLog
  BY <1>1, <1>4, <1>j DEF SubmissionInv, SubmitKnown, Logged
<1>5. CASE EnvStep
  BY <1>0, <1>4, <1>5, EnvChanges DEF Inside, Executing, Work
<1> QED BY <1>2, <1>3, <1>4, <1>5, NextSteps DEF vars, clientVars

\* The submission that brought a runner on carries its deliverable.
LEMMA SubmitReturns ==
  ASSUME Everywhere, OutcomesInv, SubmitKnown, NEW r \in Runners, pc[r] = "submit",
         WriteHit(r) \/ WriteDone(r)
  PROVE  Carries(ctx[r].job, ctx[r].sa) \/ Over(ctx[r].job)
<1> USE DEF Everywhere
<1>1. CASE WriteHit(r)
  BY <1>1 DEF WriteHit, LookupHit, SendPhase, SubmitKnown, MayResubmit, KeyOf, Key
<1>2. CASE WriteDone(r)
  <2>1. call[r].phase = "receipt" /\ txs[call[r].tx].status = "success"
    BY <1>2 DEF WriteDone, ReceiptSuccess
  <2>2. /\ txs[call[r].tx].act = "submit" /\ txs[call[r].tx].on = ctx[r].job
        /\ txs[call[r].tx].sa = ctx[r].sa /\ call[r].tx \in DOMAIN txs
    BY <2>1 DEF WritesInv, HeldWrites, Deliverable, ChainAction, Basic, HeldHandles
  <2>3. TxFits(call[r].tx)
    BY <2>2 DEF OutcomesInv, TxsFit, OnJob
  <2> QED BY <2>1, <2>2, <2>3 DEF TxFits, Carries
<1> QED BY <1>1, <1>2

\* AsSubmitted is preserved by every step.
LEMMA AsSubmittedStep ==
  ASSUME Everywhere, OutcomesInv, SubmissionInv, [Next]_vars
  PROVE  AsSubmitted'
<1> DEFINE Unsettled == {"submitted", "verify", "settle"}
<1> SUFFICES ASSUME NEW s \in Runners, pc'[s] \in Submitted
             PROVE  \/ Carries(ctx[s].job, ctx[s].sa)'
                    \/ pc'[s] \in Unsettled /\ Over(ctx[s].job)'
  BY DEF AsSubmitted
<1>0. Basic
  BY DEF Everywhere
<1>1. ASSUME NEW j, NEW sa, ctx'[s].job = j, ctx'[s].sa = sa,
             Carries(j, sa) \/ (pc'[s] \in Unsettled /\ Over(j))
      PROVE  Carries(ctx[s].job, ctx[s].sa)' \/ (pc'[s] \in Unsettled /\ Over(ctx[s].job)')
  <2>1. Carries(j, sa) => Carries(j, sa)'
    BY <1>0, CarriesOn
  <2>2. Over(j) => Over(j)'
    BY <1>0, OverStays
  <2> QED BY <1>1, <2>1, <2>2 DEF Carries, Over
<1>2. CASE pc[s] \in Submitted /\ (pc[s] \in Unsettled => pc'[s] \in Unsettled)
             /\ ctx'[s].job = ctx[s].job /\ ctx'[s].sa = ctx[s].sa
  BY <1>1, <1>2 DEF SubmissionInv, AsSubmitted
<1>3. CASE RunnerStep(s)
  <2>1. CASE (WriteHit(s) \/ WriteDone(s)) /\ pc[s] \in ChainAction /\ pc'[s] = AfterWrite(pc[s])
    <3>1. ctx' = ctx
      BY <2>1 DEF WriteHit, WriteDone, Writing
    <3>2. CASE pc[s] = "submit"
      <4>1. Carries(ctx[s].job, ctx[s].sa) \/ Over(ctx[s].job)
        BY <2>1, <3>2, SubmitReturns DEF SubmissionInv
      <4> QED BY <1>1, <2>1, <3>1, <3>2, <4>1 DEF AfterWrite
    <3>3. CASE pc[s] \in {"complete", "reject"}
      BY <1>2, <3>1, <3>3 DEF Submitted, AfterSubmit
    <3> QED BY <2>1, <3>2, <3>3 DEF AfterWrite, ChainAction, Submitted, AfterSubmit
  <2>2. CASE Write(s) /\ pc[s] \in ChainAction /\ pc'[s] = pc[s]
    BY <1>2, <2>2, WriteChanges
  <2>3. CASE (MarkSubmitted(s) /\ pc'[s] = "verify") \/ (Verify(s) /\ pc'[s] = "settle")
    BY <1>0, <1>2, <2>3 DEF MarkSubmitted, Verify, Submitted, AfterSubmit, Basic, Types, CtxType, Ctx
  <2>4. CASE Settle(s) /\ jobs[ctx[s].job].status \in SettleState(s)
    <3>1. pc[s] = "settle" /\ ctx' = ctx /\ ~Over(ctx[s].job)
      BY <2>4 DEF Settle, SettleState, Over, JobTerminal
    <3>2. Carries(ctx[s].job, ctx[s].sa)
      BY <3>1 DEF SubmissionInv, AsSubmitted, Submitted, AfterSubmit
    <3> QED BY <1>1, <3>1, <3>2
  <2>5. CASE RecordLedger(s) \/ ReconcileJobState(s)
    BY <1>2, <2>5 DEF RecordLedger, ReconcileJobState, Submitted, AfterSubmit
  <2>6. \/ (WriteHit(s) \/ WriteDone(s)) /\ pc[s] \in ChainAction /\ pc'[s] = AfterWrite(pc[s])
        \/ Write(s) /\ pc[s] \in ChainAction /\ pc'[s] = pc[s]
        \/ (MarkSubmitted(s) /\ pc'[s] = "verify") \/ (Verify(s) /\ pc'[s] = "settle")
        \/ Settle(s) /\ jobs[ctx[s].job].status \in SettleState(s)
        \/ RecordLedger(s) \/ ReconcileJobState(s)
    BY <1>0, <1>3, WhereTo DEF Submitted, AfterSubmit
  <2> QED BY <2>1, <2>2, <2>3, <2>4, <2>5, <2>6
<1>4. CASE pc'[s] = pc[s] /\ ctx'[s] = ctx[s]
  BY <1>2, <1>4
<1>5. CASE EnvStep
  BY <1>0, <1>4, <1>5, EnvChanges DEF Inside, Executing, Work, Submitted, AfterSubmit
<1> QED BY <1>0, <1>3, <1>4, <1>5, NextSteps, OthersStay DEF vars

\* The snapshot of a success, and the end of its case, are those of its job; a run
\* that is about to succeed has left its case so.
EndOf(passed) == IF passed THEN "settled" ELSE "rejected"
EndedAs ==
    \A r \in Runners : pc[r] = "succeed" => cases[CaseOf(r)].state = EndOf(ctx[r].passed)
AnswerIsTrue(c, snap) ==
    /\ Carries(snap.job, snap.sa)
    /\ jobs[snap.job].status = IF snap.passed THEN "completed" ELSE "rejected"
    /\ cases[c].state = EndOf(snap.passed)
Answers == \A c \in Cases : runs[c].status = "succeeded" => AnswerIsTrue(c, runs[c].snap)

AnswersInv == EndedAs /\ Answers

\* A reconciliation that goes through leaves the case as its job ended.
LEMMA ReconciledAs ==
  ASSUME Basic, Settling, NEW r \in Runners, ReconcileJobState(r), pc'[r] = "succeed"
  PROVE  cases'[CaseOf(r)].state = EndOf(ctx[r].passed)
<1> DEFINE status == jobs[ctx[r].job].status
           new == Reconciled(cases[CaseOf(r)], status)
<1>1. status = IF ctx[r].passed THEN "completed" ELSE "rejected"
  BY BookedJob DEF ReconcileJobState, Booking
<1>2. CaseOf(r) \in Cases /\ cases[CaseOf(r)] \in CaseRow
  BY RunnerLocals DEF ReconcileJobState, Basic, Types, CasesType
<1>3. cases'[CaseOf(r)] = new
  BY <1>2 DEF ReconcileJobState, SetCase, Goto, Basic, Types, PcType, CasesType
<1>4. new.state = EndOf(ctx[r].passed)
  BY <1>1, <1>2 DEF Reconciled, Outcome, EndOf, JobTerminal, CaseRow
<1> QED BY <1>3, <1>4

\* A case that ended keeps its state.
LEMMA EndStays ==
  ASSUME Basic, [Next]_vars, NEW c \in Cases, cases[c].state \in {"settled", "rejected"}
  PROVE  cases'[c].state = cases[c].state
  BY CaseMoves DEF Progress

\* EndedAs is preserved by every step.
LEMMA EndedAsStep ==
  ASSUME Basic, Settling, EndedAs, [Next]_vars
  PROVE  EndedAs'
<1> SUFFICES ASSUME NEW s \in Runners, pc'[s] = "succeed"
             PROVE  (cases[CaseOf(s)].state = EndOf(ctx[s].passed))'
  BY DEF EndedAs
<1>1. CASE RunnerStep(s)
  <2>1. ReconcileJobState(s)
    BY <1>1, WhereTo DEF AfterWrite, ChainAction
  <2>2. ctx' = ctx
    BY <2>1 DEF ReconcileJobState
  <2> QED BY <2>1, <2>2, ReconciledAs DEF CaseOf
<1>2. CASE pc'[s] = pc[s] /\ ctx'[s] = ctx[s]
  <2>1. PICK c \in Cases : c = CaseOf(s)
    BY <1>2, RunnerLocals
  <2>2. cases[c].state = EndOf(ctx[s].passed)
    BY <1>2, <2>1 DEF EndedAs
  <2>3. cases'[c].state = cases[c].state
    BY <2>2, EndStays DEF EndOf
  <2> QED BY <1>2, <2>1, <2>2, <2>3 DEF CaseOf
<1>3. CASE EnvStep
  BY <1>2, <1>3, EnvChanges DEF Inside, Executing, Work
<1> QED BY <1>1, <1>2, <1>3, NextSteps, OthersStay DEF vars

\* What was answered truly stays true.
LEMMA AnswerStays ==
  ASSUME Basic, [Next]_vars, NEW c \in Cases, NEW snap, AnswerIsTrue(c, snap)
  PROVE  AnswerIsTrue(c, snap)'
<1>1. Carries(snap.job, snap.sa)'
  BY CarriesOn DEF AnswerIsTrue
<1>2. jobs'[snap.job] = jobs[snap.job]
  BY JobsAreKept DEF AnswerIsTrue, Carries, JobTerminal
<1>3. cases'[c].state = cases[c].state
  BY EndStays DEF AnswerIsTrue, EndOf
<1> QED BY <1>1, <1>2, <1>3 DEF AnswerIsTrue

\* Answers is preserved by every step.
LEMMA AnswersStep ==
  ASSUME Basic, Settling, AsSubmitted, AnswersInv, [Next]_vars
  PROVE  Answers'
<1> SUFFICES ASSUME NEW c \in Cases, runs'[c].status = "succeeded"
             PROVE  AnswerIsTrue(c, runs[c].snap)'
  BY DEF Answers
<1>1. CASE runs[c].status = "succeeded" /\ runs'[c].snap = runs[c].snap
  <2>1. PICK snap : snap = runs[c].snap
    OBVIOUS
  <2>2. AnswerIsTrue(c, snap)'
    BY <1>1, <2>1, AnswerStays DEF AnswersInv, Answers
  <2> QED BY <1>1, <2>1, <2>2 DEF AnswerIsTrue, Carries
<1>2. ASSUME NEW r \in Runners, RunnerStep(r), Succeed(r), c = CaseOf(r)
      PROVE  AnswerIsTrue(c, runs[c].snap)'
  <2>1. PICK snap : snap = SnapshotOf(r)
    OBVIOUS
  <2>2. runs'[c].snap = snap
    BY <1>2, <2>1 DEF Succeed, Basic, Types, RunsType, RunRow
  <2>3. /\ snap.job = ctx[r].job /\ snap.sa = ctx[r].sa /\ snap.passed = ctx[r].passed
        /\ pc[r] = "succeed"
    BY <1>2, <2>1 DEF SnapshotOf, Succeed
  <2>4. Carries(snap.job, snap.sa)
    BY <2>3 DEF AsSubmitted, Submitted, AfterSubmit
  <2>5. AnswerIsTrue(c, snap)
    BY <1>2, <2>3, <2>4, BookedJob DEF AnswerIsTrue, AnswersInv, EndedAs, Booking
  <2>6. AnswerIsTrue(c, snap)'
    BY <2>5, AnswerStays
  <2> QED BY <2>2, <2>6 DEF AnswerIsTrue, Carries
<1>3. CASE EnvStep \/ UNCHANGED vars
  BY <1>1, <1>3, EnvChanges DEF vars, storeVars
<1> QED BY <1>1, <1>2, <1>3, NextSteps, RowChanges

LEMMA SubmissionInit ==
  ASSUME Init
  PROVE  SubmitOpen /\ SubmissionInv /\ AnswersInv /\ KnownOf({"submit"})
  BY DEF Init, EscrowInit, JobClientInit, SubmitOpen, SubmissionInv, Attended, SubmitKnown, AsSubmitted,
         Submitted, AfterSubmit, AnswersInv, EndedAs, Answers, KnownOf

LEMMA NothingCut ==
  ASSUME SubmissionNotCut
  PROVE  /\ NotCut({"submit"}, "record")
         /\ NotCut({"complete"}, "receipt") /\ NotCut({"reject"}, "receipt")
  BY DEF SubmissionNotCut, NotCut, AfterSubmit

\* What a success answers is what the chain holds: the deliverable in the snapshot,
\* the verdict it was settled with, and the end of the case, for any number of
\* requests and failures, when one process serves the case and no run is cut off
\* from the moment its submission is out. The run "rejudged" shows that the second
\* condition is needed: a run resumed after that may judge otherwise.
THEOREM OneProcessAnswers ==
  ASSUME OneProcess, JobsApart, SubmissionNotCut
  PROVE  Spec => []AnswerMatchesChain
<1> DEFINE Known1 == KnownOf({"submit"})
<1>1. Init => Settling /\ SubmitOpen /\ SubmissionInv /\ AnswersInv /\ Known1
  BY SettlingInit, SubmissionInit DEF Settling
<1>2. Basic /\ WritesInv /\ SendingUnlogged /\ Known1 /\ [Next]_vars => Known1'
  BY NothingCut, KnownStep DEF WritesInv
<1>3. Everywhere /\ OneRunPerCase /\ OutcomesInv /\ Settling /\ [Next]_vars => Settling'
  BY NothingCut, SettlingStep DEF Settling
<1>4. Everywhere /\ OneRunPerCase /\ CreatesInv /\ SendingUnlogged /\ Known1 /\ OutcomesInv
        /\ SubmitOpen /\ [Next]_vars => SubmitOpen'
  BY SubmitOpenStep
<1>5. Everywhere /\ OneRunPerCase /\ SendingUnlogged /\ OutcomesInv /\ Settling /\ SubmitOpen
        /\ SubmissionInv /\ [Next]_vars => SubmissionInv'
  <2> SUFFICES ASSUME Everywhere, OneRunPerCase, SendingUnlogged, OutcomesInv, Settling, SubmitOpen,
                      SubmissionInv, [Next]_vars
               PROVE  SubmissionInv'
    OBVIOUS
  <2> QED BY AttendedStep, SubmitKnownStep, AsSubmittedStep DEF SubmissionInv
<1>6. Everywhere /\ Settling /\ SubmissionInv /\ AnswersInv /\ [Next]_vars => AnswersInv'
  BY EndedAsStep, AnswersStep DEF AnswersInv, SubmissionInv, Everywhere
<1>7. AnswersInv => AnswerMatchesChain
  BY DEF AnswersInv, Answers, AnswerIsTrue, Carries, EndOf, AnswerMatchesChain
<1> HIDE DEF Known1
<1> QED BY <1>1, <1>2, <1>3, <1>4, <1>5, <1>6, <1>7, BasicInvariant, WritesInvariant,
          EverywhereInvariant, OneRunAtATime, OutcomesInvariant, CreatesInvariant,
          SendingInvariant, PTL DEF Spec
=============================================================================
