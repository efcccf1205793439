---------------------------- MODULE RunCaseProofs ----------------------------
(***************************************************************************)
(* Theorems about RunCase, for any runners, processes, cases, requests and *)
(* bounds.  The type invariant is not inductive alone: a step that reads a *)
(* transaction needs its index to be one (Handles), and a step that looks  *)
(* at a runner's case needs the runner to have a request (HasRequest).     *)
(***************************************************************************)
EXTENDS RunCaseProperties, TLAPS

PcType        == pc \in [Runners -> Stage]
CtxType       == ctx \in [Runners -> Ctx]
MutexType     == mutex \in [Procs \X Cases -> Runners \cup {NoRunner}]
RunsType      == runs \in [Cases -> RunRow]
CasesType     == cases \in [Cases -> CaseRow]
PurchasesType == purchases \in [Cases -> Nat]
LedgerType    == ledger \in SUBSET LedgerRow
PaymentsType  == payments \in Seq(Cases)
JobsType      == jobs \in Seq(Job)
TxsType       == txs \in Seq(Tx)
AllowanceType == allowance \in Nat
TxLogType     == txLog \in SUBSET TxLogRow
CallType      == call \in [Runners -> Call]
BoundsType    == arrived \in Nat /\ crashes \in Nat /\ faults \in Nat /\ slow \in Nat

Types ==
    /\ PcType /\ CtxType /\ MutexType /\ RunsType /\ CasesType /\ PurchasesType
    /\ LedgerType /\ PaymentsType /\ JobsType /\ TxsType /\ AllowanceType
    /\ TxLogType /\ CallType /\ BoundsType

HasRequest == \A r \in Runners : pc[r] # "idle" => ctx[r].req \in Requests

LoggedHandles == \A row \in txLog : row.tx \in DOMAIN txs
HeldHandles ==
    \A r \in Runners :
        call[r].phase \in {"record", "receipt"} \/ pc[r] = "jobId" => call[r].tx \in DOMAIN txs

Basic == Types /\ HasRequest /\ LoggedHandles /\ HeldHandles

\* Types is TypeOK cut into one named part per variable.
LEMMA TypesAreTypeOK == Types <=> TypeOK
  BY DEF Types, TypeOK, EscrowTypeOK, JobClientTypeOK, PcType, CtxType, MutexType, RunsType,
         CasesType, PurchasesType, LedgerType, PaymentsType, JobsType, TxsType,
         AllowanceType, TxLogType, CallType, BoundsType

----------------------------------------------------------------------------
(* What the steps of a runner change *)

\* Admission touches the lock, the run's row and the runner itself.
LEMMA AdmitChanges ==
  ASSUME NEW r \in Runners, Admit(r)
  PROVE  /\ pc[r] \in {"queued", "takeOver"}
         /\ UNCHANGED <<jobs, txs, allowance, txLog, cases, purchases, ledger, payments, boundVars>>
         /\ \/ BeginStarted(r)
            \/ MarkRunning(r)
            \/ BeginResume(r)
            \/ Return(r) /\ pc[r] = "queued" /\ mutex[Lock(r)] = NoRunner /\ UNCHANGED runs
  BY DEF Admit, BeginStarted, BeginConflict, BeginReplay, BeginInFlight, BeginResume,
         MarkRunning, Admitted, Answered, chainVars, clientVars, storeVars

\* A chain write touches the chain, tx_log and the runner's stage and handle.
LEMMA WriteChanges ==
  ASSUME NEW r \in Runners, Write(r)
  PROVE  /\ pc[r] \in ChainAction
         /\ UNCHANGED <<jobs, ctx, mutex, runs, cases, purchases, ledger, payments, boundVars>>
         /\ WriteSend(r) \/ UNCHANGED txs
         /\ WriteApprove(r) \/ UNCHANGED allowance
         /\ WriteRecord(r) \/ UNCHANGED txLog
         /\ pc' = [pc EXCEPT ![r] = pc[r]] \/ pc' = [pc EXCEPT ![r] = AfterWrite(pc[r])]
            \/ pc' = [pc EXCEPT ![r] = "fail"]
  BY DEF Write, WriteHit, WriteApprove, WriteSend, WriteRefused, WriteRecord, WriteDuplicate,
         WriteDone, WriteReverted, Writing, Goto, LookupHit, ApproveUsdc, Send, SendRefused,
         Record, RecordDuplicate, ReceiptSuccess, ReceiptReverted, storeVars, chainVars

\* Every other step leaves the chain and tx_log alone, and each table has one
\* step that writes it.
LEMMA ProceedChanges ==
  ASSUME NEW r \in Runners, Proceed(r)
  PROVE  /\ pc[r] \in Work
         /\ UNCHANGED <<jobs, txs, allowance, txLog, boundVars>>
         /\ RecordPurchase(r) \/ UNCHANGED purchases
         /\ RecordLedger(r) \/ UNCHANGED ledger
         /\ Pay(r) \/ UNCHANGED payments
         /\ Succeed(r) \/ Fail(r) \/ UNCHANGED <<runs, mutex>>
         /\ Succeed(r) \/ Fail(r) \/ JobIdFromTx(r) \/ UNCHANGED call
  BY DEF Proceed, Intake, AdoptExternalJob, ExternalJobRefused, JobIdFromTx, ReceiptMissing,
         ReusePurchase, NotPurchased, Pay, RecordPurchase, Assess, EscalationUnconfigured,
         MarkSubmitted, Verify, Settle, RecordLedger, ReconcileJobState, Succeed, Fail,
         Work, chainVars, clientVars, storeVars

\* A runner that is not idle has a request, so its case, lock and locals exist.
LEMMA RunnerLocals ==
  ASSUME Basic, NEW r \in Runners, pc[r] # "idle"
  PROVE  /\ ctx[r].req \in Request
         /\ CaseOf(r) \in Cases
         /\ Lock(r) \in Procs \X Cases
         /\ ctx[r] \in Ctx
  BY RunCaseAssumption DEF Basic, Types, CtxType, Ctx, HasRequest, Request, CaseOf, Lock

\* The locals a runner starts with, and returns to, are well typed.
LEMMA NoCtxType == NoCtx \in Ctx /\ NoCall \in Call
  BY EscrowAssumption DEF NoCtx, Ctx, NoCall, Call, Phase

----------------------------------------------------------------------------
(* Types, table by table *)

\* Every step of a runner leads to a stage.
LEMMA PcStep ==
  ASSUME PcType, NEW r \in Runners, RunnerStep(r)
  PROVE  PcType'
<1> USE DEF PcType, Goto, Stage, Work
<1>1. CASE Admit(r)
  BY <1>1 DEF Admit, BeginStarted, BeginConflict, BeginReplay, BeginInFlight, BeginResume,
              MarkRunning, Admitted, Answered, Return
<1>2. CASE Write(r)
  BY <1>2, WriteChanges DEF AfterWrite, ChainAction
<1>3. CASE Proceed(r)
  BY <1>3 DEF Proceed, Intake, AdoptExternalJob, ExternalJobRefused, JobIdFromTx,
              ReceiptMissing, ReusePurchase, NotPurchased, Pay, RecordPurchase, Assess,
              EscalationUnconfigured, MarkSubmitted, Verify, Settle, RecordLedger,
              ReconcileJobState, Succeed, Fail, Return
<1> QED BY <1>1, <1>2, <1>3 DEF RunnerStep

\* Every step of a runner leaves well-typed locals.
LEMMA CtxStep ==
  ASSUME Basic, NEW r \in Runners, RunnerStep(r)
  PROVE  CtxType'
<1> USE NoCtxType DEF Basic, Types, CtxType
<1>1. CASE Admit(r)
  BY <1>1, AdmitChanges DEF BeginStarted, BeginResume, MarkRunning, Admitted, Return
<1>2. CASE Write(r)
  BY <1>2, WriteChanges
<1>3. CASE Proceed(r)
  <2> USE DEF Ctx
  <2>0. pc[r] # "idle"
    BY <1>3, ProceedChanges DEF Work
  <2> CaseOf(r) \in Cases /\ ctx[r].req.job \in Nat
    BY <2>0, RunnerLocals DEF Request
  <2>1. CASE JobIdFromTx(r)
    <3>1. txs[call[r].tx] \in Tx
      BY <2>1 DEF JobIdFromTx, HeldHandles, TxsType
    <3> QED BY <2>1, <3>1 DEF JobIdFromTx, BindJob, Tx
  <2>2. CASE AdoptExternalJob(r)
    BY <2>2 DEF AdoptExternalJob, BindJob
  <2>3. CASE ReusePurchase(r)
    BY <2>3 DEF ReusePurchase, PurchasesType
  <2>4. CASE RecordPurchase(r)
    <3>1. Kept(CaseOf(r), ctx[r].receipt) \in Nat
      BY DEF Kept, PurchasesType
    <3> QED BY <2>4, <3>1 DEF RecordPurchase
  <2>5. CASE Pay(r)
    <3>1. Len(payments) + 1 \in Nat
      BY DEF PaymentsType
    <3> QED BY <2>5, <3>1 DEF Pay
  <2>6. CASE Verify(r)
    <3>1. (ctx[r].sa \in PassingSas) \in BOOLEAN
      OBVIOUS
    <3> QED BY <2>6, <3>1 DEF Verify
  <2>7. CASE \E sa \in Sas : Assess(r, sa)
    BY <2>7 DEF Assess
  <2>8. CASE Succeed(r) \/ Fail(r)
    BY <2>8 DEF Succeed, Fail, Return
  <2> QED BY <1>3, <2>1, <2>2, <2>3, <2>4, <2>5, <2>6, <2>7, <2>8
      DEF Proceed, Intake, ExternalJobRefused, ReceiptMissing, NotPurchased,
          EscalationUnconfigured, MarkSubmitted, Settle, RecordLedger, ReconcileJobState
<1> QED BY <1>1, <1>2, <1>3 DEF RunnerStep

\* Every step of a runner leaves a well-typed write in progress.
LEMMA CallStep ==
  ASSUME Basic, NEW r \in Runners, RunnerStep(r)
  PROVE  CallType'
<1> USE NoCtxType DEF Basic, Types, CallType, Call, Phase
<1>1. CASE Admit(r)
  BY <1>1, AdmitChanges DEF BeginStarted, BeginResume, MarkRunning, Admitted, Return, clientVars
<1>2. CASE Write(r)
  <2>1. CASE WriteHit(r)
    <3>1. Logged(KeyOf(r)) => LoggedTx(KeyOf(r)) \in Nat
      BY DEF TxLogType, TxLogRow, Logged, LoggedTx
    <3> QED BY <2>1, <3>1 DEF WriteHit, LookupHit, Returned
  <2>2. CASE WriteSend(r)
    BY <2>2 DEF WriteSend, Send, TxsType
  <2> QED BY <1>2, <2>1, <2>2
      DEF Write, WriteApprove, WriteRefused, WriteRecord, WriteDuplicate, WriteDone,
          WriteReverted, ApproveUsdc, SendRefused, Record, RecordDuplicate, ReceiptSuccess,
          ReceiptReverted, Returned
<1>3. CASE Proceed(r)
  BY <1>3, ProceedChanges DEF Succeed, Fail, JobIdFromTx, Return
<1> QED BY <1>1, <1>2, <1>3 DEF RunnerStep

\* Every step of a runner leaves runners, or nobody, in the locks.
LEMMA MutexStep ==
  ASSUME Basic, NEW r \in Runners, RunnerStep(r)
  PROVE  MutexType'
<1> USE DEF Basic, Types, MutexType
<1>1. CASE Admit(r)
  <2>1. Lock(r) \in Procs \X Cases
    BY <1>1, AdmitChanges, RunnerLocals
  <2> QED BY <1>1, <2>1, AdmitChanges DEF BeginStarted, BeginResume, MarkRunning, Admitted, Return
<1>2. CASE Write(r)
  BY <1>2, WriteChanges
<1>3. CASE Proceed(r)
  <2>1. Lock(r) \in Procs \X Cases
    BY <1>3, ProceedChanges, RunnerLocals DEF Work
  <2> QED BY <1>3, <2>1, ProceedChanges DEF Succeed, Fail, Return
<1> QED BY <1>1, <1>2, <1>3 DEF RunnerStep

\* A step of one runner leaves the other runners where they are.
LEMMA OthersStay ==
  ASSUME Basic, NEW r \in Runners, RunnerStep(r), NEW s \in Runners, s # r
  PROVE  pc'[s] = pc[s] /\ ctx'[s] = ctx[s] /\ call'[s] = call[s]
<1> USE DEF Basic, Types, PcType, CtxType, CallType, Goto
<1>1. CASE Admit(r)
  BY <1>1, AdmitChanges, ZenonT(30) DEF BeginStarted, BeginResume, MarkRunning, Admitted, Return, clientVars
<1>2. CASE Write(r)
  BY <1>2, WriteChanges
     DEF Write, WriteHit, WriteApprove, WriteSend, WriteRefused, WriteRecord, WriteDuplicate,
         WriteDone, WriteReverted, LookupHit, ApproveUsdc, Send, SendRefused, Record,
         RecordDuplicate, ReceiptSuccess, ReceiptReverted
<1>3. CASE Proceed(r)
  BY <1>3 DEF Proceed, Intake, AdoptExternalJob, ExternalJobRefused, JobIdFromTx, BindJob,
              ReceiptMissing, ReusePurchase, NotPurchased, Pay, RecordPurchase, Assess,
              EscalationUnconfigured, MarkSubmitted, Verify, Settle, RecordLedger,
              ReconcileJobState, Succeed, Fail, Return, clientVars
<1> QED BY <1>1, <1>2, <1>3 DEF RunnerStep

\* A runner keeps its request until it returns.
LEMMA KeepsRequest ==
  ASSUME Basic, NEW r \in Runners, RunnerStep(r)
  PROVE  /\ pc[r] # "idle"
         /\ \/ pc'[r] = "idle" /\ ctx'[r] = NoCtx /\ call'[r] = NoCall
            \/ pc'[r] # "idle" /\ ctx'[r].req = ctx[r].req
<1> USE DEF Basic, Types, PcType, CtxType, CallType, Goto
<1>1. CASE Admit(r)
  BY <1>1, AdmitChanges DEF BeginStarted, BeginResume, MarkRunning, Admitted, Return
<1>2. CASE Write(r)
  BY <1>2, WriteChanges DEF ChainAction, AfterWrite
<1>3. CASE Proceed(r)
  <2>1. CASE Succeed(r) \/ Fail(r)
    BY <2>1 DEF Succeed, Fail, Return
  <2>2. CASE ~(Succeed(r) \/ Fail(r))
    <3> USE DEF Ctx
    <3> QED BY <1>3, <2>2 
     DEF Proceed, Intake, AdoptExternalJob, ExternalJobRefused, JobIdFromTx, BindJob,
              ReceiptMissing, ReusePurchase, NotPurchased, Pay, RecordPurchase, Assess,
              EscalationUnconfigured, MarkSubmitted, Verify, Settle, RecordLedger,
              ReconcileJobState
  <2> QED BY <2>1, <2>2
<1> QED BY <1>1, <1>2, <1>3 DEF RunnerStep

\* Every step of a runner leaves well-typed transactions and jobs.
LEMMA TxsStep ==
  ASSUME Basic, NEW r \in Runners, RunnerStep(r)
  PROVE  TxsType' /\ AllowanceType' /\ JobsType' /\ DOMAIN txs \subseteq DOMAIN txs'
<1> USE DEF Basic, Types, TxsType, AllowanceType, JobsType
<1>1. CASE Admit(r)
  BY <1>1, AdmitChanges
<1>2. CASE Write(r)
  <2>1. CASE WriteSend(r)
    <3>1. pc[r] \in ChainAction /\ ctx[r] \in Ctx
      BY <1>2, WriteChanges, RunnerLocals DEF ChainAction
    <3>2. NewTx(pc[r], ctx[r].job, Deliverable(r)) \in Tx
      BY <3>1 DEF NewTx, Tx, Deliverable, Ctx
    <3> QED BY <2>1, <3>2 DEF WriteSend, Send
  <2>2. CASE WriteApprove(r)
    BY <2>2 DEF WriteApprove, ApproveUsdc
  <2> QED BY <1>2, <2>1, <2>2, WriteChanges DEF WriteSend, Send, WriteApprove, ApproveUsdc
<1>3. CASE Proceed(r)
  BY <1>3, ProceedChanges
<1> QED BY <1>1, <1>2, <1>3 DEF RunnerStep

\* Every row a runner adds to tx_log is well typed.
LEMMA TxLogStep ==
  ASSUME Basic, NEW r \in Runners, RunnerStep(r)
  PROVE  TxLogType' /\ LoggedHandles'
<1> USE DEF Basic, Types
<1>1. CASE Write(r) /\ WriteRecord(r)
  <2>1. pc[r] \in ChainAction /\ CaseOf(r) \in Cases /\ ctx[r].job \in Nat /\ call[r].tx \in Nat
    BY <1>1, WriteChanges, RunnerLocals DEF ChainAction, Ctx, CallType, Call
  <2>2. KeyOf(r) \in Keys
    BY <2>1 DEF KeyOf, Key, Keys
  <2>3. [key |-> KeyOf(r), tx |-> call[r].tx] \in TxLogRow
    BY <2>1, <2>2 DEF TxLogRow
  <2>4. txLog' = txLog \cup {[key |-> KeyOf(r), tx |-> call[r].tx]} /\ call[r].phase = "record"
    BY <1>1 DEF WriteRecord, Record
  <2>5. call[r].tx \in DOMAIN txs
    BY <2>4 DEF HeldHandles
  <2> QED BY <2>3, <2>4, <2>5, TxsStep DEF TxLogType, LoggedHandles
<1>2. CASE UNCHANGED txLog
  BY <1>2, TxsStep DEF TxLogType, LoggedHandles
<1> QED BY <1>1, <1>2, AdmitChanges, WriteChanges, ProceedChanges DEF RunnerStep

\* HeldHandles is preserved by every step of a runner.
LEMMA HandlesStep ==
  ASSUME Basic, NEW r \in Runners, RunnerStep(r)
  PROVE  HeldHandles'
<1> USE DEF Basic, Types, PcType, CallType
<1>0. DOMAIN txs \subseteq DOMAIN txs'
  BY TxsStep
<1> SUFFICES call'[r].phase \in {"record", "receipt"} \/ pc'[r] = "jobId"
               => call'[r].tx \in DOMAIN txs'
  BY <1>0, OthersStay DEF HeldHandles
<1> USE DEF HeldHandles
<1>1. CASE Admit(r)
  <2>1. pc'[r] # "jobId"
    BY <1>1, AdmitChanges
       DEF BeginStarted, BeginResume, MarkRunning, Admitted, Return, Goto
  <2>2. CASE call' = [call EXCEPT ![r] = NoCall]
    BY <2>1, <2>2 DEF NoCall
  <2>3. CASE UNCHANGED call
    BY <1>0, <2>1, <2>3
  <2> QED BY <1>1, <2>2, <2>3, AdmitChanges
      DEF BeginStarted, BeginResume, MarkRunning, Admitted, Return, clientVars
<1>2. CASE Write(r)
  <2>0. pc[r] \in ChainAction
    BY <1>2, WriteChanges
  <2>1. CASE WriteHit(r)
    <3>1. LoggedTx(KeyOf(r)) \in DOMAIN txs
      BY <2>1 DEF WriteHit, LookupHit, Logged, LoggedTx, LoggedHandles
    <3> QED BY <2>0, <2>1, <3>1, <1>0
        DEF WriteHit, Writing, Goto, LookupHit, Returned, AfterWrite, NoCall, ChainAction
  <2>2. CASE WriteSend(r)
    <3>1. Len(txs) + 1 \in DOMAIN txs'
      BY <2>2 DEF WriteSend, Send, TxsType
    <3> QED BY <2>0, <2>2, <3>1, <1>0 DEF WriteSend, Writing, Goto, Send, ChainAction
  <2>3. CASE WriteDone(r)
    BY <2>0, <2>3, <1>0
       DEF WriteDone, Writing, Goto, ReceiptSuccess, Returned, AfterWrite, NoCall, ChainAction
  <2>4. CASE WriteApprove(r)
    BY <2>0, <2>4, <1>0 DEF WriteApprove, Writing, Goto, ApproveUsdc
  <2>5. CASE WriteRecord(r)
    BY <2>0, <2>5, <1>0 DEF WriteRecord, Writing, Goto, Record, ChainAction
  <2> QED BY <1>2, <2>0, <2>1, <2>2, <2>3, <2>4, <2>5, <1>0
      DEF Write, WriteRefused, WriteDuplicate, WriteReverted, Writing, Goto, SendRefused,
          RecordDuplicate, ReceiptReverted
<1>3. CASE Proceed(r)
  <2>1. CASE Succeed(r) \/ Fail(r)
    BY <2>1, <1>0 DEF Succeed, Fail, Return, Goto, NoCall
  <2>2. CASE JobIdFromTx(r)
    BY <2>2, <1>0 DEF JobIdFromTx, Goto, NoCall
  <2> QED BY <1>0, <1>3, <2>1, <2>2
      DEF Proceed, Intake, AdoptExternalJob, ExternalJobRefused, ReceiptMissing,
          ReusePurchase, NotPurchased, Pay, RecordPurchase, Assess, EscalationUnconfigured,
          MarkSubmitted, Verify, Settle, RecordLedger, ReconcileJobState, Goto, clientVars
<1> QED BY <1>1, <1>2, <1>3 DEF RunnerStep

\* HasRequest is preserved by every step of a runner.
LEMMA RequestStep ==
  ASSUME Basic, NEW r \in Runners, RunnerStep(r)
  PROVE  HasRequest'
  BY OthersStay, KeepsRequest DEF Basic, HasRequest

\* Every step of a runner leaves well-typed rows of case_runs.
LEMMA RunsStep ==
  ASSUME Basic, NEW r \in Runners, RunnerStep(r)
  PROVE  RunsType'
<1> USE DEF Basic, Types, RunsType
<1>0. /\ CaseOf(r) \in Cases
      /\ runs[CaseOf(r)] \in RunRow
      /\ ctx[r].req.fp \in Fps
      /\ SnapshotOf(r) \in Snapshot
  BY KeepsRequest, RunnerLocals DEF Request, Ctx, SnapshotOf, Snapshot
<1>1. CASE BeginStarted(r)
  BY <1>0, <1>1 DEF BeginStarted, RunRow
<1>2. CASE MarkRunning(r)
  BY <1>0, <1>2 DEF MarkRunning, RunRow
<1>3. CASE Succeed(r)
  BY <1>0, <1>3 DEF Succeed, RunRow
<1>4. CASE Fail(r)
  BY <1>0, <1>4 DEF Fail, RunRow
<1>5. CASE UNCHANGED runs
  BY <1>5
<1> QED BY <1>1, <1>2, <1>3, <1>4, <1>5, AdmitChanges, WriteChanges, ProceedChanges
    DEF RunnerStep, BeginResume

\* advanceCaseState keeps a row's type.
LEMMA AdvancedType ==
  ASSUME NEW row \in CaseRow, NEW to \in CaseState
  PROVE  Advanced(row, to) \in CaseRow
  BY DEF Advanced, CaseRow

\* reconcileJobState keeps a row's type.
LEMMA ReconciledType ==
  ASSUME NEW row \in CaseRow, NEW s
  PROVE  Reconciled(row, s) \in CaseRow
<1>1. Outcome(s, row.state = "submitted") \in [state : CaseState, exit : ExitReason]
  BY DEF Outcome, CaseState, ExitReason
<1> QED BY <1>1 DEF Reconciled, CaseRow

\* Every step of a runner leaves well-typed rows of cases.
LEMMA CasesStep ==
  ASSUME Basic, NEW r \in Runners, RunnerStep(r)
  PROVE  CasesType'
<1> USE DEF Basic, Types, CasesType, SetCase
<1>0. CaseOf(r) \in Cases /\ cases[CaseOf(r)] \in CaseRow /\ ctx[r].req.job \in Nat
  BY KeepsRequest, RunnerLocals DEF Request
<1>1. ASSUME NEW row \in CaseRow, SetCase(r, row)
      PROVE  CasesType'
  BY <1>0, <1>1
<1>2. \A to \in CaseState : Advanced(cases[CaseOf(r)], to) \in CaseRow
  BY <1>0, AdvancedType
<1>3. CASE Proceed(r)
  <2>1. CASE Intake(r)
    BY <1>0, <2>1 DEF Intake, CaseRow, CaseState
  <2>2. CASE AdoptExternalJob(r)
    BY <1>0, <2>2 DEF AdoptExternalJob, BindJob, CaseRow
  <2>3. CASE JobIdFromTx(r)
    <3>1. txs[call[r].tx] \in Tx
      BY <2>3 DEF JobIdFromTx, HeldHandles, TxsType
    <3>2. txs[call[r].tx].made \in Nat
      BY <3>1 DEF Tx
    <3> QED BY <1>0, <2>3, <3>2 DEF JobIdFromTx, BindJob, CaseRow
  <2>4. CASE ReusePurchase(r)
    <3>1. Advanced(Advanced(cases[CaseOf(r)], "decomposed"), "assessing") \in CaseRow
      BY <1>0, AdvancedType DEF CaseState
    <3> QED BY <1>1, <2>4, <3>1 DEF ReusePurchase
  <2>5. CASE \/ NotPurchased(r) \/ RecordPurchase(r) \/ MarkSubmitted(r)
             \/ \E sa \in Sas : Assess(r, sa)
    <3>1. {"decomposed", "assessing", "conditions_ready", "submitted"} \subseteq CaseState
      BY DEF CaseState
    <3> QED BY <1>1, <1>2, <2>5, <3>1
        DEF NotPurchased, RecordPurchase, MarkSubmitted, Assess
  <2>6. CASE ReconcileJobState(r)
    <3>1. PICK row \in CaseRow : SetCase(r, row)
      BY <1>0, <2>6, ReconciledType DEF ReconcileJobState
    <3> QED BY <1>1, <3>1
  <2> QED BY <1>3, <2>1, <2>2, <2>3, <2>4, <2>5, <2>6
      DEF Proceed, ExternalJobRefused, ReceiptMissing, Pay, EscalationUnconfigured, Verify,
          Settle, RecordLedger, Succeed, Fail, storeVars
<1> QED BY <1>3, AdmitChanges, WriteChanges DEF RunnerStep

\* Every step of a runner leaves well-typed purchases, ledger rows and payments.
LEMMA BooksStep ==
  ASSUME Basic, NEW r \in Runners, RunnerStep(r)
  PROVE  PurchasesType' /\ LedgerType' /\ PaymentsType' /\ BoundsType'
<1> USE DEF Basic, Types, PurchasesType, LedgerType, PaymentsType, BoundsType
<1>0. /\ CaseOf(r) \in Cases
      /\ ctx[r].receipt \in Nat /\ ctx[r].job \in Nat
  BY KeepsRequest, RunnerLocals DEF Ctx
<1>1. PurchasesType'
  <2>1. CASE RecordPurchase(r)
    <3>1. Kept(CaseOf(r), ctx[r].receipt) \in Nat
      BY <1>0 DEF Kept
    <3> QED BY <2>1, <3>1 DEF RecordPurchase
  <2> QED BY <2>1, AdmitChanges, WriteChanges, ProceedChanges DEF RunnerStep
<1>2. LedgerType'
  <2>1. CASE RecordLedger(r)
    <3>1. ProcurementEntries(CaseOf(r), ctx[r].receipt) \subseteq LedgerRow
      BY <1>0 DEF ProcurementEntries, Entry, LedgerRow
    <3>2. CompleteEntries(CaseOf(r), ctx[r].job) \subseteq LedgerRow
      BY <1>0 DEF CompleteEntries, Entry, LedgerRow
    <3> QED BY <2>1, <3>1, <3>2 DEF RecordLedger, Booked
  <2> QED BY <2>1, AdmitChanges, WriteChanges, ProceedChanges DEF RunnerStep
<1>3. PaymentsType'
  <2>1. CASE Pay(r)
    BY <1>0, <2>1 DEF Pay
  <2> QED BY <2>1, AdmitChanges, WriteChanges, ProceedChanges DEF RunnerStep
<1>4. BoundsType'
  BY AdmitChanges, WriteChanges, ProceedChanges DEF RunnerStep, boundVars
<1> QED BY <1>1, <1>2, <1>3, <1>4

\* Basic is preserved by every step of a runner.
LEMMA RunnerBasic ==
  ASSUME Basic, NEW r \in Runners, RunnerStep(r)
  PROVE  Basic'
  BY PcStep, CtxStep, CallStep, MutexStep, TxsStep, TxLogStep, HandlesStep, RequestStep,
     RunsStep, CasesStep, BooksStep
     DEF Basic, Types

----------------------------------------------------------------------------
(* The environment *)

\* Basic is preserved when a request arrives.
LEMMA ArriveBasic ==
  ASSUME Basic, NEW r \in Runners, NEW q \in Requests, Arrive(r, q)
  PROVE  Basic'
<1> USE DEF Basic, Types, Arrive, Goto
<1>1. PcType' /\ CtxType'
  BY DEF PcType, Stage, CtxType, Ctx
<1>2. HasRequest'
  BY DEF HasRequest, PcType, CtxType, Ctx
<1>3. HeldHandles'
  BY DEF HeldHandles, PcType, chainVars, clientVars
<1>4. BoundsType' /\ LoggedHandles'
  BY DEF BoundsType, LoggedHandles, chainVars, clientVars
<1>5. RunsType' /\ CasesType' /\ PurchasesType' /\ LedgerType' /\ PaymentsType' /\ MutexType'
  BY DEF RunsType, CasesType, PurchasesType, LedgerType, PaymentsType, MutexType, storeVars
<1>6. JobsType' /\ TxsType' /\ AllowanceType' /\ TxLogType' /\ CallType'
  BY DEF JobsType, TxsType, AllowanceType, TxLogType, CallType, chainVars, clientVars
<1> QED BY <1>1, <1>2, <1>3, <1>4, <1>5, <1>6

\* Basic is preserved when a call fails.
LEMMA CallFailsBasic ==
  ASSUME Basic, NEW r \in Runners, CallFails(r)
  PROVE  Basic'
<1> USE DEF Basic, Types, CallFails, Goto
<1>1. PcType'
  BY DEF PcType, Stage, Work
<1>2. HasRequest'
  BY DEF HasRequest, PcType, Work
<1>3. HeldHandles'
  BY DEF HeldHandles, PcType, chainVars, clientVars
<1>4. BoundsType' /\ LoggedHandles'
  BY DEF BoundsType, LoggedHandles, chainVars, clientVars
<1>5. /\ RunsType' /\ CasesType' /\ PurchasesType' /\ LedgerType' /\ PaymentsType'
      /\ MutexType' /\ CtxType'
  BY DEF RunsType, CasesType, PurchasesType, LedgerType, PaymentsType, MutexType, CtxType,
         storeVars
<1>6. JobsType' /\ TxsType' /\ AllowanceType' /\ TxLogType' /\ CallType'
  BY DEF JobsType, TxsType, AllowanceType, TxLogType, CallType, chainVars, clientVars
<1> QED BY <1>1, <1>2, <1>3, <1>4, <1>5, <1>6

\* Basic is preserved when a process dies.
LEMMA CrashBasic ==
  ASSUME Basic, NEW p \in Procs, Crash(p)
  PROVE  Basic'
<1> USE NoCtxType DEF Basic, Types, Crash, Dies
<1>1. PcType' /\ CtxType' /\ CallType'
  BY DEF PcType, Stage, CtxType, CallType
<1>2. HasRequest'
  BY DEF HasRequest
<1>3. HeldHandles'
  BY DEF HeldHandles, NoCall, chainVars
<1>4. BoundsType' /\ LoggedHandles'
  BY DEF BoundsType, LoggedHandles, chainVars
<1>5. RunsType' /\ CasesType' /\ PurchasesType' /\ LedgerType' /\ PaymentsType'
  BY DEF RunsType, CasesType, PurchasesType, LedgerType, PaymentsType, storeVars
<1>6. MutexType'
  BY DEF MutexType
<1>7. JobsType' /\ TxsType' /\ AllowanceType' /\ TxLogType'
  BY DEF JobsType, TxsType, AllowanceType, TxLogType, chainVars
<1> QED BY <1>1, <1>2, <1>3, <1>4, <1>5, <1>6, <1>7

\* Basic is preserved when a run grows stale.
LEMMA GrowStaleBasic ==
  ASSUME Basic, NEW c \in Cases, GrowStale(c)
  PROVE  Basic'
<1> USE DEF Basic, Types, GrowStale
<1>1. RunsType'
  BY DEF RunsType, RunRow
<1>2. HasRequest' /\ HeldHandles' /\ LoggedHandles'
  BY DEF HasRequest, HeldHandles, LoggedHandles, chainVars, clientVars
<1>3. BoundsType'
  BY DEF BoundsType
<1>4. /\ PcType' /\ CasesType' /\ PurchasesType' /\ LedgerType' /\ PaymentsType'
      /\ MutexType' /\ CtxType'
  BY DEF PcType, CasesType, PurchasesType, LedgerType, PaymentsType, MutexType, CtxType
<1>5. JobsType' /\ TxsType' /\ AllowanceType' /\ TxLogType' /\ CallType'
  BY DEF JobsType, TxsType, AllowanceType, TxLogType, CallType, chainVars, clientVars
<1> QED BY <1>1, <1>2, <1>3, <1>4, <1>5

\* The chain's own steps keep its types and its transactions.
LEMMA ChainTypes ==
  ASSUME Basic, ChainStep
  PROVE  JobsType' /\ TxsType' /\ AllowanceType' /\ DOMAIN txs = DOMAIN txs'
<1> USE DEF Basic, Types, JobsType, TxsType, AllowanceType
<1>1. ASSUME NEW x \in DOMAIN txs, MineCreate(x)
      PROVE  JobsType' /\ TxsType' /\ AllowanceType' /\ DOMAIN txs = DOMAIN txs'
  <2>1. NewJob \in Job
    BY DEF NewJob, Job, JobState
  <2>2. txs[x] \in Tx /\ Len(jobs) + 1 \in Nat
    OBVIOUS
  <2>3. [txs[x] EXCEPT !.status = "success", !.made = Len(jobs) + 1] \in Tx
    BY <2>2 DEF Tx
  <2>4. txs' \in Seq(Tx) /\ DOMAIN txs' = DOMAIN txs
    BY <1>1, <2>3 DEF MineCreate
  <2>5. jobs' \in Seq(Job)
    BY <1>1, <2>1 DEF MineCreate
  <2> QED BY <1>1, <2>4, <2>5 DEF MineCreate
<1>2. ASSUME NEW x \in DOMAIN txs, MineCall(x)
      PROVE  JobsType' /\ TxsType' /\ AllowanceType' /\ DOMAIN txs = DOMAIN txs'
  <2>1. txs[x] \in Tx /\ txs[x].on \in DOMAIN jobs
    BY <1>2 DEF MineCall, Accepts
  <2>2. jobs[txs[x].on] \in Job /\ txs[x].sa \in Sas \cup {NoSa}
    BY <2>1 DEF Tx
  <2>3. Applied(txs[x]) \in Job
    BY <2>2 DEF Applied, Job, JobState
  <2>4. [txs[x] EXCEPT !.status = "success"] \in Tx
    BY <2>1 DEF Tx
  <2>5. txs[x].act = "fund" => allowance > 0
    BY <1>2 DEF MineCall, Accepts
  <2> QED BY <1>2, <2>1, <2>3, <2>4, <2>5 DEF MineCall
<1>3. ASSUME NEW x \in DOMAIN txs, MineRevert(x)
      PROVE  JobsType' /\ TxsType' /\ AllowanceType' /\ DOMAIN txs = DOMAIN txs'
  <2>1. txs[x] \in Tx
    OBVIOUS
  <2>2. [txs[x] EXCEPT !.status = "reverted"] \in Tx
    BY <2>1 DEF Tx
  <2> QED BY <1>3, <2>2 DEF MineRevert
<1>4. ASSUME NEW j \in DOMAIN jobs, ClaimRefund(j)
      PROVE  JobsType' /\ TxsType' /\ AllowanceType' /\ DOMAIN txs = DOMAIN txs'
  <2>0. jobs[j] \in Job
    OBVIOUS
  <2>1. [jobs[j] EXCEPT !.status = "expired"] \in Job
    BY <2>0 DEF Job, JobState
  <2> QED BY <1>4, <2>1 DEF ClaimRefund
<1> QED BY <1>1, <1>2, <1>3, <1>4 DEF ChainStep, Mine

\* Basic is preserved by the chain's own steps.
LEMMA ChainBasic ==
  ASSUME Basic, ChainStep
  PROVE  Basic'
<1> USE DEF Basic, Types
<1>0. UNCHANGED <<clientVars, pc, ctx, mutex, storeVars, payments, boundVars>>
  BY DEF ChainStep
<1>1. JobsType' /\ TxsType' /\ AllowanceType' /\ DOMAIN txs = DOMAIN txs'
  BY ChainTypes
<1>2. HasRequest' /\ HeldHandles' /\ LoggedHandles'
  BY <1>0, <1>1 DEF HasRequest, HeldHandles, LoggedHandles, clientVars
<1>3. TxLogType' /\ CallType' /\ BoundsType'
  BY <1>0 DEF TxLogType, CallType, BoundsType, clientVars, boundVars
<1>4. /\ PcType' /\ CasesType' /\ PurchasesType' /\ LedgerType' /\ PaymentsType'
      /\ MutexType' /\ CtxType' /\ RunsType'
  BY <1>0 DEF PcType, CasesType, PurchasesType, LedgerType, PaymentsType, MutexType, CtxType,
         RunsType, storeVars
<1> QED BY <1>1, <1>2, <1>3, <1>4

\* Basic is preserved by a stutter.
LEMMA StutterBasic ==
  ASSUME Basic, UNCHANGED vars
  PROVE  Basic'
<1> USE DEF Basic, Types, vars, chainVars, clientVars, storeVars, boundVars
<1>1. HasRequest' /\ HeldHandles' /\ LoggedHandles'
  BY DEF HasRequest, HeldHandles, LoggedHandles
<1>2. /\ PcType' /\ CasesType' /\ PurchasesType' /\ LedgerType' /\ PaymentsType'
      /\ MutexType' /\ CtxType' /\ RunsType'
  BY DEF PcType, CasesType, PurchasesType, LedgerType, PaymentsType, MutexType, CtxType, RunsType
<1>3. JobsType' /\ TxsType' /\ AllowanceType' /\ TxLogType' /\ CallType' /\ BoundsType'
  BY DEF JobsType, TxsType, AllowanceType, TxLogType, CallType, BoundsType
<1> QED BY <1>1, <1>2, <1>3

----------------------------------------------------------------------------
(* Type correctness *)

\* Basic holds initially.
LEMMA BasicInit == Init => Basic
<1> SUFFICES ASSUME Init PROVE Basic
  OBVIOUS
<1> USE NoCtxType, EscrowAssumption, RunCaseAssumption DEF Init, EscrowInit, JobClientInit
<1>1. PcType /\ CtxType /\ MutexType /\ CallType
  BY DEF PcType, Stage, CtxType, MutexType, CallType
<1>2. RunsType
  BY DEF RunsType, RunRow, Snapshot, NoSnap
<1>3. CasesType
  BY DEF CasesType, CaseRow, CaseState, ExitReason
<1>4. PurchasesType /\ LedgerType /\ PaymentsType /\ BoundsType
  BY DEF PurchasesType, LedgerType, PaymentsType, BoundsType
<1>5. JobsType /\ TxsType /\ AllowanceType /\ TxLogType
  BY DEF JobsType, TxsType, AllowanceType, TxLogType
<1>6. HasRequest /\ HeldHandles /\ LoggedHandles
  BY DEF HasRequest, HeldHandles, LoggedHandles, NoCall
<1> QED BY <1>1, <1>2, <1>3, <1>4, <1>5, <1>6 DEF Basic, Types

\* Basic is inductive.
LEMMA BasicStep == Basic /\ [Next]_vars => Basic'
<1> SUFFICES ASSUME Basic, [Next]_vars PROVE Basic'
  OBVIOUS
<1>1. CASE \E r \in Runners : RunnerStep(r)
  BY <1>1, RunnerBasic
<1>2. CASE \E r \in Runners : CallFails(r)
  BY <1>2, CallFailsBasic
<1>3. CASE \E r \in Runners, q \in Requests : Arrive(r, q)
  BY <1>3, ArriveBasic
<1>4. CASE \E p \in Procs : Crash(p)
  BY <1>4, CrashBasic
<1>5. CASE \E c \in Cases : GrowStale(c)
  BY <1>5, GrowStaleBasic
<1>6. CASE ChainStep
  BY <1>6, ChainBasic
<1>7. CASE UNCHANGED vars
  BY <1>7, StutterBasic
<1> QED BY <1>1, <1>2, <1>3, <1>4, <1>5, <1>6, <1>7 DEF Next

\* Basic, the inductive invariant behind every theorem of this module.
THEOREM BasicInvariant == Spec => []Basic
  BY BasicInit, BasicStep, PTL DEF Spec

\* Every table row, chain object and local variable keeps its type, for any
\* number of processes, runners, cases and requests and any bounds.
THEOREM TypeCorrect == Spec => []TypeOK
  BY BasicInvariant, TypesAreTypeOK, PTL DEF Basic

----------------------------------------------------------------------------
(***************************************************************************)
(* The safety properties of RunCase, for every value of its constants.     *)
(***************************************************************************)

\* The runner got past begin: it executes the case or is about to take it over.
Inside(r) == Executing(r) \/ pc[r] = "takeOver"

EnvStep ==
    \/ \E r \in Runners : CallFails(r)
    \/ \E r \in Runners, q \in Requests : Arrive(r, q)
    \/ \E p \in Procs : Crash(p)
    \/ \E c \in Cases : GrowStale(c)
    \/ ChainStep

\* A step is a runner's, the environment's or a stutter.
LEMMA NextSteps == [Next]_vars <=> (\E r \in Runners : RunnerStep(r)) \/ EnvStep \/ UNCHANGED vars
  BY DEF Next, EnvStep

\* The environment leaves the tables alone, but for a run growing stale, and
\* only takes runners away or sends them to "fail".
LEMMA EnvChanges ==
  ASSUME Basic, EnvStep
  PROVE  /\ UNCHANGED <<txLog, cases, purchases, ledger, payments>>
         /\ \A c \in Cases : /\ runs'[c].status = runs[c].status
                             /\ runs'[c].fp = runs[c].fp
                             /\ runs'[c].snap = runs[c].snap
         /\ \A s \in Runners : Inside(s)' =>
               /\ Inside(s)
               /\ ctx'[s] = ctx[s] /\ call'[s] = call[s]
               /\ pc'[s] = pc[s] \/ pc'[s] = "fail"
<1> USE DEF Basic, Types, PcType, CtxType, CallType, Inside, Executing
<1>1. CASE \E r \in Runners : CallFails(r)
  BY <1>1 DEF CallFails, Goto, Work, chainVars, clientVars, storeVars
<1>2. CASE \E r \in Runners, q \in Requests : Arrive(r, q)
  BY <1>2 DEF Arrive, Goto, Work, clientVars, storeVars
<1>3. CASE \E p \in Procs : Crash(p)
  BY <1>3 DEF Crash, Dies, Work, storeVars
<1>4. CASE \E c \in Cases : GrowStale(c)
  BY <1>4 DEF GrowStale, clientVars, RunsType, RunRow
<1>5. CASE ChainStep
  BY <1>5 DEF ChainStep, clientVars, storeVars
<1> QED BY <1>1, <1>2, <1>3, <1>4, <1>5 DEF EnvStep

\* A step of a runner that is past begin afterwards found it there, or let it in.
LEMMA RunnerInside ==
  ASSUME Basic, NEW r \in Runners, RunnerStep(r), Inside(r)'
  PROVE  /\ ctx'[r].req = ctx[r].req
         /\ Inside(r) \/ BeginStarted(r) \/ BeginResume(r)
<1> USE DEF Inside, Executing, Work
<1>1. pc'[r] # "idle"
  OBVIOUS
<1>2. ctx'[r].req = ctx[r].req
  BY <1>1, KeepsRequest
<1>3. Inside(r) \/ BeginStarted(r) \/ BeginResume(r)
  <2>1. CASE Admit(r)
    BY <1>1, <2>1, AdmitChanges DEF MarkRunning, Return, Goto, Basic, Types, PcType
  <2> QED BY <2>1, WriteChanges, ProceedChanges DEF RunnerStep, ChainAction
<1> QED BY <1>2, <1>3

\* What a runner's step makes of the rows of case_runs.
LEMMA RowChanges ==
  ASSUME Basic, NEW r \in Runners, RunnerStep(r), NEW c \in Cases
  PROVE  \/ runs'[c] = runs[c]
         \/ /\ c = CaseOf(r)
            /\ \/ BeginStarted(r) /\ runs[c].status = "none" /\ runs'[c].fp = ctx[r].req.fp
                  /\ runs'[c].status = "running"
               \/ MarkRunning(r) /\ runs'[c].fp = runs[c].fp /\ runs'[c].status = "running"
               \/ Succeed(r) /\ runs'[c].fp = runs[c].fp /\ runs'[c].status = "succeeded"
               \/ Fail(r) /\ runs'[c].fp = runs[c].fp /\ runs'[c].status = "failed"
<1> USE DEF Basic, Types, RunsType, RunRow
<1>0. CaseOf(r) \in Cases
  BY KeepsRequest, RunnerLocals
<1>1. CASE BeginStarted(r)
  BY <1>0, <1>1 DEF BeginStarted, Row
<1>2. CASE MarkRunning(r)
  BY <1>0, <1>2 DEF MarkRunning
<1>3. CASE Succeed(r)
  BY <1>0, <1>3 DEF Succeed
<1>4. CASE Fail(r)
  BY <1>0, <1>4 DEF Fail
<1>5. CASE UNCHANGED runs
  BY <1>5
<1> QED BY <1>1, <1>2, <1>3, <1>4, <1>5, AdmitChanges, WriteChanges, ProceedChanges
    DEF RunnerStep, BeginResume

----------------------------------------------------------------------------
(* A case is only worked on for the request that opened it *)

\* SameRequestThroughout is preserved by every step, given Basic.
LEMMA SameRequestStep ==
  ASSUME Basic, SameRequestThroughout, [Next]_vars
  PROVE  SameRequestThroughout'
<1> USE DEF SameRequestThroughout
<1>1. ASSUME NEW r \in Runners, RunnerStep(r)
      PROVE  SameRequestThroughout'
  <2> SUFFICES ASSUME NEW s \in Runners, Inside(s)'
               PROVE  (Row(s).status # "none" /\ SameRequest(s))'
    BY DEF Inside
  <2>1. CaseOf(s)' = CaseOf(s) /\ ctx'[s].req = ctx[s].req /\ pc[s] # "idle"
    BY <1>1, OthersStay, RunnerInside, KeepsRequest DEF CaseOf, Inside, Executing, Work
  <2>2. CaseOf(s) \in Cases
    BY <2>1, RunnerLocals
  <2>3. CASE Row(s).status # "none" /\ SameRequest(s)
    BY <1>1, <2>1, <2>2, <2>3, RowChanges DEF Row, SameRequest
  <2>4. CASE s = r /\ BeginStarted(r)
    BY <2>1, <2>2, <2>4
       DEF Row, SameRequest, BeginStarted, Basic, Types, RunsType, RunRow
  <2>5. CASE s = r /\ BeginResume(r)
    <3>1. Row(s).status # "none" /\ SameRequest(s)
      BY <2>5 DEF BeginResume
    <3> QED BY <2>3, <3>1
  <2>6. CASE Inside(s)
    BY <2>3, <2>6 DEF Inside
  <2>7. CASE s = r
    BY <1>1, <2>4, <2>5, <2>6, <2>7, RunnerInside
  <2>8. CASE s # r
    BY <1>1, <2>6, <2>8, OthersStay DEF Inside, Executing
  <2> QED BY <2>7, <2>8
<1>2. ASSUME EnvStep
      PROVE  SameRequestThroughout'
  <2> SUFFICES ASSUME NEW s \in Runners, Inside(s)'
               PROVE  (Row(s).status # "none" /\ SameRequest(s))'
    BY DEF Inside
  <2>1. Inside(s) /\ ctx'[s] = ctx[s]
    BY <1>2, EnvChanges
  <2>2. CaseOf(s) \in Cases
    BY <2>1, RunnerLocals DEF Inside, Executing, Work
  <2> QED BY <1>2, <2>1, <2>2, EnvChanges DEF Inside, Row, SameRequest, CaseOf
<1>3. ASSUME UNCHANGED vars
      PROVE  SameRequestThroughout'
  BY <1>3 DEF vars, storeVars, Executing, Row, SameRequest, CaseOf
<1> QED BY <1>1, <1>2, <1>3, NextSteps

\* begin's conflict check holds for as long as a run works on the case, also
\* when another process takes the run over between the check and the UPDATE.
THEOREM AlwaysSameRequest == Spec => []SameRequestThroughout
<1>1. Init => SameRequestThroughout
  BY DEF Init, SameRequestThroughout, Executing, Work
<1> QED BY <1>1, BasicInvariant, SameRequestStep, PTL DEF Spec

----------------------------------------------------------------------------
(* One run of a case at a time within a process *)

\* Whoever is past begin holds the mutex of its process and case.
LockHeld == \A r \in Runners : Inside(r) => mutex[Lock(r)] = r

\* Who may enter and who must leave a lock in a runner's step.
LEMMA LockChanges ==
  ASSUME Basic, NEW r \in Runners, RunnerStep(r)
  PROVE  \/ mutex[Lock(r)] = NoRunner /\ mutex' = [mutex EXCEPT ![Lock(r)] = r]
         \/ /\ Inside(r) \/ mutex[Lock(r)] = NoRunner
            /\ mutex' = [mutex EXCEPT ![Lock(r)] = NoRunner]
            /\ pc'[r] = "idle"
         \/ Inside(r) /\ mutex' = mutex
<1> USE DEF Inside, Executing
<1>1. CASE Admit(r)
  BY <1>1, AdmitChanges
     DEF BeginStarted, BeginResume, MarkRunning, Admitted, Return, Goto, Basic, Types, PcType
<1>2. CASE Write(r)
  BY <1>2, WriteChanges DEF ChainAction, Work
<1>3. CASE Proceed(r)
  BY <1>3, ProceedChanges DEF Succeed, Fail, Return, Goto, Basic, Types, PcType
<1> QED BY <1>1, <1>2, <1>3 DEF RunnerStep

\* LockHeld is preserved by every step.
LEMMA LockStep ==
  ASSUME Basic, LockHeld, [Next]_vars
  PROVE  LockHeld'
<1> SUFFICES ASSUME NEW s \in Runners, Inside(s)'
             PROVE  mutex'[Lock(s)'] = s
  BY DEF LockHeld
<1>1. ASSUME NEW r \in Runners, RunnerStep(r)
      PROVE  mutex'[Lock(s)'] = s
  <2>1. Lock(s)' = Lock(s) /\ pc[s] # "idle"
    BY <1>1, OthersStay, RunnerInside, KeepsRequest DEF Lock, CaseOf, Inside, Executing, Work
  <2>2. Lock(s) \in Procs \X Cases /\ Lock(r) \in Procs \X Cases
    BY <1>1, <2>1, KeepsRequest, RunnerLocals
  <2>3. MutexType /\ NoRunner \notin Runners
    BY RunCaseAssumption DEF Basic, Types
  <2>4. CASE s # r
    <3>1. Inside(s) /\ mutex[Lock(s)] = s
      BY <1>1, <2>4, OthersStay DEF Inside, Executing, LockHeld
    <3>2. Inside(r) => mutex[Lock(r)] = r
      BY DEF LockHeld
    <3> QED BY <1>1, <2>1, <2>2, <2>3, <2>4, <3>1, <3>2, LockChanges DEF MutexType
  <2>5. CASE s = r
    <3>1. pc'[r] # "idle"
      BY <2>5 DEF Inside, Executing, Work
    <3>2. Inside(r) => mutex[Lock(r)] = r
      BY DEF LockHeld
    <3> QED BY <1>1, <2>1, <2>2, <2>3, <2>5, <3>1, <3>2, LockChanges DEF MutexType
  <2> QED BY <2>4, <2>5
<1>2. ASSUME EnvStep
      PROVE  mutex'[Lock(s)'] = s
  <2>1. Inside(s) /\ Lock(s)' = Lock(s)
    BY <1>2, EnvChanges DEF Lock, CaseOf
  <2>2. mutex[Lock(s)] = s /\ Lock(s) \in Procs \X Cases /\ Lock(s)[1] = ProcOf[s]
    BY <2>1, RunnerLocals DEF LockHeld, Inside, Executing, Work, Lock
  <2>3. CASE \E p \in Procs : Crash(p)
    <3>1. PICK p \in Procs : Crash(p)
      BY <2>3
    <3>2. ProcOf[s] # p
      BY <3>1 DEF Crash, Dies, Inside, Executing, Work
    <3> QED BY <2>1, <2>2, <3>1, <3>2 DEF Crash
  <2>4. CASE UNCHANGED mutex
    BY <2>1, <2>2, <2>4
  <2> QED BY <1>2, <2>3, <2>4 DEF EnvStep, CallFails, Arrive, GrowStale, ChainStep
<1>3. ASSUME UNCHANGED vars
      PROVE  mutex'[Lock(s)'] = s
  BY <1>3 DEF vars, Lock, CaseOf, Inside, Executing, LockHeld
<1> QED BY <1>1, <1>2, <1>3, NextSteps

\* A run that is past begin holds its process's KeyedMutex for its case until it
\* returns or dies (keyed-mutex.ts runExclusive around the whole of runExclusive).
THEOREM LockInvariant == Spec => []LockHeld
<1>1. Init => LockHeld
  BY DEF Init, LockHeld, Inside, Executing, Work
<1> QED BY <1>1, BasicInvariant, LockStep, PTL DEF Spec

\* KeyedMutex: within a process no two runs are past begin for one case.
OneRunPerLock ==
    \A r, s \in Runners :
        Inside(r) /\ Inside(s) /\ CaseOf(r) = CaseOf(s) /\ ProcOf[r] = ProcOf[s] => r = s

\* A lock has one holder.
LEMMA LockMeansOne == LockHeld => OneRunPerLock
  BY DEF LockHeld, OneRunPerLock, Lock

\* With one server process, as server/src/index.ts starts it, no two runs of a
\* case execute at the same time.  (The run "overlap" shows two processes do.)
THEOREM OneProcessOneRun ==
  ASSUME \A r, s \in Runners : ProcOf[r] = ProcOf[s]
  PROVE  Spec => []OneRunPerCase
<1>1. OneRunPerLock => OneRunPerCase
  BY DEF OneRunPerLock, OneRunPerCase, Inside
<1> QED BY <1>1, LockInvariant, LockMeansOne, PTL

----------------------------------------------------------------------------
(* A run that succeeded is final *)

\* The row of a case that is executed says so; one about to be taken over is
\* not finished.  Two processes can break this: a slow run that was taken over
\* may still write "failed" or "succeeded" over the other's row.
RowOpen ==
    \A r \in Runners :
        /\ Executing(r) => Row(r).status = "running"
        /\ pc[r] = "takeOver" => Row(r).status \in {"running", "failed"}

OneProcess == \A r, s \in Runners : ProcOf[r] = ProcOf[s]

\* Only begin sends a runner to "takeOver", and only a run in progress fails.
LEMMA StaysExecuting ==
  ASSUME Basic, NEW r \in Runners, RunnerStep(r), Executing(r)
  PROVE  pc'[r] # "takeOver"
<1> USE DEF Basic, Types, PcType, Executing, Goto
<1>1. CASE Write(r)
  BY <1>1, WriteChanges DEF ChainAction, AfterWrite
<1>2. CASE Proceed(r)
  BY <1>2 DEF Proceed, Intake, AdoptExternalJob, ExternalJobRefused, JobIdFromTx,
              ReceiptMissing, ReusePurchase, NotPurchased, Pay, RecordPurchase, Assess,
              EscalationUnconfigured, MarkSubmitted, Verify, Settle, RecordLedger,
              ReconcileJobState, Succeed, Fail, Return
<1> QED BY <1>1, <1>2, AdmitChanges DEF RunnerStep, Work

\* A run that is past begin after a step of the environment did not move, or was
\* executing and is sent to "fail".
LEMMA EnvFails ==
  ASSUME Basic, EnvStep, NEW s \in Runners, Inside(s)'
  PROVE  pc'[s] = pc[s] \/ Executing(s)
<1> USE DEF Basic, Types, PcType, Inside, Executing
<1>1. CASE \E r \in Runners : CallFails(r)
  BY <1>1 DEF CallFails, Goto
<1>2. CASE \E r \in Runners, q \in Requests : Arrive(r, q)
  BY <1>2 DEF Arrive, Goto, Work
<1>3. CASE \E p \in Procs : Crash(p)
  BY <1>3 DEF Crash, Dies, Work
<1> QED BY <1>1, <1>2, <1>3 DEF EnvStep, GrowStale, ChainStep

\* RowOpen is preserved by every step, with one process.
LEMMA RowOpenStep ==
  ASSUME OneProcess, Basic, LockHeld, LockHeld', RowOpen, [Next]_vars
  PROVE  RowOpen'
<1>1. ASSUME NEW r \in Runners, RunnerStep(r)
      PROVE  RowOpen'
  <2> SUFFICES ASSUME NEW s \in Runners, Inside(s)'
               PROVE  /\ Executing(s)' => Row(s)'.status = "running"
                      /\ pc'[s] = "takeOver" => Row(s)'.status \in {"running", "failed"}
    BY DEF RowOpen, Inside
  <2>1. CaseOf(s)' = CaseOf(s) /\ CaseOf(s) \in Cases /\ pc[s] # "idle"
    BY <1>1, OthersStay, RunnerInside, KeepsRequest, RunnerLocals
       DEF CaseOf, Inside, Executing, Work
  <2>2. CASE s # r
    <3>1. Inside(s) /\ pc'[s] = pc[s]
      BY <1>1, <2>2, OthersStay DEF Inside, Executing
    <3>2. Inside(r) => CaseOf(r) # CaseOf(s)
      BY <2>2, <3>1, LockMeansOne DEF OneRunPerLock, OneProcess
    <3>3. BeginStarted(r) => CaseOf(r) # CaseOf(s)
      BY <3>1 DEF BeginStarted, RowOpen, Inside, Row
    <3>4. MarkRunning(r) \/ Succeed(r) \/ Fail(r) => Inside(r)
      BY DEF MarkRunning, Succeed, Fail, Inside, Executing, Work
    <3>5. runs'[CaseOf(s)] = runs[CaseOf(s)]
      BY <1>1, <2>1, <3>2, <3>3, <3>4, RowChanges
    <3> QED BY <2>1, <3>1, <3>5 DEF RowOpen, Row, Executing
  <2>3. CASE s = r
    <3>1. CASE BeginStarted(r) \/ MarkRunning(r)
      <4>1. pc'[s] = "intake"
        BY <2>3, <3>1 DEF BeginStarted, MarkRunning, Admitted, Goto, Basic, Types, PcType
      <4>2. runs'[CaseOf(s)].status = "running"
        BY <2>1, <2>3, <3>1 DEF BeginStarted, MarkRunning, Basic, Types, RunsType, RunRow
      <4> QED BY <2>1, <4>1, <4>2 DEF Row
    <3>2. CASE BeginResume(r)
      BY <2>1, <2>3, <3>2 DEF BeginResume, Admitted, Goto, Row, Basic, Types, PcType, Executing, Work
    <3>3. CASE Succeed(r) \/ Fail(r)
      BY <2>3, <3>3 DEF Succeed, Fail, Return, Goto, Basic, Types, PcType, Inside, Executing, Work
    <3>4. CASE ~(BeginStarted(r) \/ MarkRunning(r) \/ BeginResume(r) \/ Succeed(r) \/ Fail(r))
      <4>1. UNCHANGED runs /\ Inside(r)
        BY <1>1, <2>3, <3>4, RunnerInside, AdmitChanges, WriteChanges, ProceedChanges DEF RunnerStep
      <4>2. Executing(r)
        BY <1>1, <2>3, <3>4, <4>1, AdmitChanges, WriteChanges, ProceedChanges
           DEF RunnerStep, Executing, Inside, ChainAction, Work
      <4>3. pc'[r] # "takeOver"
        BY <1>1, <2>3, <3>4, <4>2, StaysExecuting
      <4> QED BY <2>1, <2>3, <4>1, <4>2, <4>3 DEF RowOpen, Row
    <3> QED BY <3>1, <3>2, <3>3, <3>4
  <2> QED BY <2>2, <2>3
<1>2. ASSUME EnvStep
      PROVE  RowOpen'
  <2> SUFFICES ASSUME NEW s \in Runners, Inside(s)'
               PROVE  /\ Executing(s)' => Row(s)'.status = "running"
                      /\ pc'[s] = "takeOver" => Row(s)'.status \in {"running", "failed"}
    BY DEF RowOpen, Inside
  <2>1. Inside(s) /\ ctx'[s] = ctx[s] /\ (pc'[s] = pc[s] \/ pc'[s] = "fail")
    BY <1>2, EnvChanges
  <2>2. CaseOf(s) \in Cases /\ CaseOf(s)' = CaseOf(s)
    BY <2>1, RunnerLocals DEF Inside, Executing, Work, CaseOf
  <2>3. Row(s)'.status = Row(s).status
    BY <1>2, <2>2, EnvChanges DEF Row
  <2>4. pc'[s] = pc[s] \/ Executing(s)
    BY <1>2, <2>1, EnvFails DEF Executing
  <2> QED BY <2>1, <2>3, <2>4 DEF RowOpen, Executing
<1>3. ASSUME UNCHANGED vars
      PROVE  RowOpen'
  BY <1>3 DEF vars, storeVars, Executing, Row, CaseOf, RowOpen
<1> QED BY <1>1, <1>2, <1>3, NextSteps

\* A row that succeeded is changed by no step, with one process.
LEMMA FinalStep ==
  ASSUME OneProcess, Basic, LockHeld, RowOpen, [Next]_vars, NEW c \in Cases,
         runs[c].status = "succeeded"
  PROVE  runs'[c] = runs[c]
<1>1. ASSUME NEW r \in Runners, RunnerStep(r)
      PROVE  runs'[c] = runs[c]
  <2>1. MarkRunning(r) \/ Succeed(r) \/ Fail(r) => Executing(r) \/ pc[r] = "takeOver"
    BY DEF MarkRunning, Succeed, Fail, Executing, Work
  <2> QED BY <1>1, <2>1, RowChanges DEF RowOpen, Row
<1>2. ASSUME EnvStep
      PROVE  runs'[c] = runs[c]
  <2>1. CASE \E d \in Cases : GrowStale(d)
    BY <2>1 DEF GrowStale, Basic, Types, RunsType
  <2> QED BY <1>2, <2>1 DEF EnvStep, CallFails, Arrive, Crash, ChainStep, storeVars
<1>3. ASSUME UNCHANGED vars
      PROVE  runs'[c] = runs[c]
  BY <1>3 DEF vars, storeVars
<1> QED BY <1>1, <1>2, <1>3, NextSteps

\* With one process, the case_runs row of a case that is being executed stays
\* "running", and that of a run about to be taken over stays open: begin admitted
\* the run and nobody else ends it (run-store.ts succeed and fail check nothing).
THEOREM RowOpenInvariant ==
  ASSUME OneProcess
  PROVE  Spec => []RowOpen
<1>1. Init => RowOpen
  BY DEF Init, RowOpen, Executing, Work
<1>2. Basic /\ LockHeld /\ LockHeld' /\ RowOpen /\ [Next]_vars => RowOpen'
  BY RowOpenStep
<1> QED BY <1>1, <1>2, BasicInvariant, LockInvariant, PTL DEF Spec

\* With one server process the row and the snapshot of a case that succeeded
\* never change again, whatever is sent, crashes or grows stale.
THEOREM OneProcessFinal ==
  ASSUME OneProcess
  PROVE  Spec => SucceededIsFinal
<1>1. Basic /\ LockHeld /\ RowOpen /\ [Next]_vars =>
        [\A c \in Cases : runs[c].status = "succeeded" => runs'[c] = runs[c]]_vars
  BY FinalStep
<1> QED BY <1>1, BasicInvariant, LockInvariant, RowOpenInvariant, PTL DEF Spec, SucceededIsFinal

----------------------------------------------------------------------------
(* Costs are booked against the purchase that was kept *)

Purchased == {"assess", "submit", "submitted", "verify", "settle", "complete", "reject",
              "ledger"}

\* A payment is an index of `payments`, made for its own case: the one a run
\* just made, and the one that was kept.  Past the purchase every run of the
\* case has the kept one in hand.
ReceiptFor(c, n) == n \in DOMAIN payments /\ payments[n] = c
PaidReceipts == \A r \in Runners : pc[r] = "paid" => ReceiptFor(CaseOf(r), ctx[r].receipt)
KeptReceipts == \A c \in Cases : purchases[c] # 0 => ReceiptFor(c, purchases[c])
HeldReceipts ==
    \A r \in Runners : pc[r] \in Purchased =>
        purchases[CaseOf(r)] # 0 /\ ctx[r].receipt = purchases[CaseOf(r)]

Receipts == PaidReceipts /\ KeptReceipts /\ HeldReceipts /\ CostsMatchPurchase

\* What a step makes of the payments and the purchases.
LEMMA PaymentsGrow ==
  ASSUME Basic, NEW r \in Runners, RunnerStep(r), NEW n \in DOMAIN payments
  PROVE  n \in DOMAIN payments' /\ payments'[n] = payments[n]
<1> USE DEF Basic, Types, PaymentsType
<1>1. CASE Pay(r)
  BY <1>1, KeepsRequest, RunnerLocals DEF Pay
<1> QED BY <1>1, AdmitChanges, WriteChanges, ProceedChanges DEF RunnerStep

\* A purchase that is kept stays the one that is kept.
LEMMA PurchaseIsKept ==
  ASSUME Basic, NEW r \in Runners, RunnerStep(r), NEW c \in Cases, purchases[c] # 0
  PROVE  purchases'[c] = purchases[c]
<1> USE DEF Basic, Types, PurchasesType
<1>1. CASE RecordPurchase(r)
  BY <1>1, KeepsRequest, RunnerLocals DEF RecordPurchase, Kept
<1> QED BY <1>1, AdmitChanges, WriteChanges, ProceedChanges DEF RunnerStep

\* A run comes past the purchase with the kept receipt in hand.
LEMMA EntersPurchased ==
  ASSUME Basic, NEW r \in Runners, RunnerStep(r), pc'[r] \in Purchased
  PROVE  \/ ReusePurchase(r)
         \/ RecordPurchase(r)
         \/ pc[r] \in Purchased /\ ctx'[r].receipt = ctx[r].receipt
<1> USE DEF Basic, Types, PcType, CtxType, Ctx, Purchased, Goto
<1>1. CASE Admit(r)
  BY <1>1, AdmitChanges DEF BeginStarted, BeginResume, MarkRunning, Admitted, Return
<1>2. CASE Write(r)
  BY <1>2, WriteChanges DEF ChainAction, AfterWrite
<1>3. CASE Proceed(r)
  BY <1>3 DEF Proceed, Intake, AdoptExternalJob, ExternalJobRefused, JobIdFromTx, BindJob,
              ReceiptMissing, NotPurchased, Pay, Assess, EscalationUnconfigured,
              MarkSubmitted, Verify, Settle, RecordLedger, ReconcileJobState, Succeed, Fail,
              Return
<1> QED BY <1>1, <1>2, <1>3 DEF RunnerStep

\* A run comes to "paid" by paying for its own case.
LEMMA EntersPaid ==
  ASSUME Basic, NEW r \in Runners, RunnerStep(r), pc'[r] = "paid"
  PROVE  Pay(r)
<1> USE DEF Basic, Types, PcType, Goto
<1>1. CASE Admit(r)
  BY <1>1, AdmitChanges DEF BeginStarted, BeginResume, MarkRunning, Admitted, Return
<1>2. CASE Write(r)
  BY <1>2, WriteChanges DEF ChainAction, AfterWrite
<1>3. CASE Proceed(r)
  BY <1>3 DEF Proceed, Intake, AdoptExternalJob, ExternalJobRefused, JobIdFromTx,
              ReceiptMissing, ReusePurchase, NotPurchased, RecordPurchase, Assess,
              EscalationUnconfigured, MarkSubmitted, Verify, Settle, RecordLedger,
              ReconcileJobState, Succeed, Fail, Return
<1> QED BY <1>1, <1>2, <1>3 DEF RunnerStep

\* Receipts is preserved by every step of a runner.
LEMMA ReceiptsRunnerStep ==
  ASSUME Basic, Receipts, NEW r \in Runners, RunnerStep(r)
  PROVE  Receipts'
<1> USE DEF Receipts
<1>0. pc[r] # "idle" /\ CaseOf(r) \in Cases /\ ctx[r].receipt \in Nat
  BY KeepsRequest, RunnerLocals DEF Ctx
<1>1. PaidReceipts'
  <2> SUFFICES ASSUME NEW s \in Runners, pc'[s] = "paid"
               PROVE  ctx'[s].receipt \in DOMAIN payments' /\ payments'[ctx'[s].receipt] = CaseOf(s)'
    BY DEF PaidReceipts, ReceiptFor
  <2>1. CASE s = r
    <3>1. Pay(r)
      BY <2>1, EntersPaid
    <3>2. payments' = Append(payments, CaseOf(r)) /\ CaseOf(r)' = CaseOf(r)
      BY <3>1 DEF Pay, CaseOf, Basic, Types, CtxType, Ctx
    <3>3. ctx'[r].receipt = Len(payments) + 1
      BY <3>1 DEF Pay, Basic, Types, CtxType, Ctx
    <3> QED BY <1>0, <2>1, <3>2, <3>3 DEF Basic, Types, PaymentsType
  <2>2. CASE s # r
    <3>1. pc[s] = "paid" /\ ctx'[s] = ctx[s] /\ CaseOf(s)' = CaseOf(s)
      BY <2>2, OthersStay DEF CaseOf
    <3>2. CaseOf(s) \in Cases
      BY <3>1, RunnerLocals
    <3> QED BY <3>1, <3>2, PaymentsGrow DEF PaidReceipts, ReceiptFor
  <2> QED BY <2>1, <2>2
<1>2. KeptReceipts'
  <2> SUFFICES ASSUME NEW c \in Cases, purchases'[c] # 0
               PROVE  purchases'[c] \in DOMAIN payments' /\ payments'[purchases'[c]] = c
    BY DEF KeptReceipts, ReceiptFor
  <2>1. CASE purchases[c] # 0
    BY <2>1, PurchaseIsKept, PaymentsGrow DEF KeptReceipts, ReceiptFor
  <2>2. CASE purchases[c] = 0
    <3>1. RecordPurchase(r) /\ c = CaseOf(r)
      BY <1>0, <2>2, AdmitChanges, WriteChanges, ProceedChanges
         DEF RunnerStep, RecordPurchase, Basic, Types, PurchasesType
    <3>2. purchases'[c] = ctx[r].receipt
      BY <2>2, <3>1 DEF RecordPurchase, Kept, Basic, Types, PurchasesType
    <3>3. ReceiptFor(c, ctx[r].receipt)
      BY <3>1 DEF RecordPurchase, PaidReceipts
    <3> QED BY <3>2, <3>3, PaymentsGrow DEF ReceiptFor
  <2> QED BY <2>1, <2>2
<1>3. HeldReceipts'
  <2> SUFFICES ASSUME NEW s \in Runners, pc'[s] \in Purchased
               PROVE  (purchases[CaseOf(s)] # 0 /\ ctx[s].receipt = purchases[CaseOf(s)])'
    BY DEF HeldReceipts
  <2>1. CASE s = r /\ RecordPurchase(r)
    <3>1. PICK kept \in Nat \ {0} : /\ purchases' = [purchases EXCEPT ![CaseOf(r)] = kept]
                                    /\ ctx' = [ctx EXCEPT ![r].receipt = kept]
      <4>1. Kept(CaseOf(r), ctx[r].receipt) \in Nat \ {0}
        BY <1>0, <2>1 DEF RecordPurchase, Kept, PaidReceipts, ReceiptFor, Basic, Types,
                         PaymentsType, PurchasesType
      <4> QED BY <2>1, <4>1 DEF RecordPurchase
    <3>2. CaseOf(r)' = CaseOf(r)
      BY <3>1 DEF CaseOf, Basic, Types, CtxType, Ctx
    <3> QED BY <1>0, <2>1, <3>1, <3>2 DEF Basic, Types, CtxType, Ctx, PurchasesType
  <2>2. CASE s = r /\ ReusePurchase(r)
    BY <1>0, <2>2 DEF ReusePurchase, CaseOf, Basic, Types, CtxType, Ctx
  <2>3. CASE ~(s = r /\ (RecordPurchase(r) \/ ReusePurchase(r)))
    <3>1. pc[s] \in Purchased /\ ctx'[s].receipt = ctx[s].receipt
      BY <2>3, EntersPurchased, OthersStay
    <3>2. CaseOf(s)' = CaseOf(s)
      BY OthersStay, KeepsRequest DEF CaseOf, Purchased
    <3>3. CaseOf(s) \in Cases
      BY <3>1, RunnerLocals DEF Purchased
    <3> QED BY <3>1, <3>2, <3>3, PurchaseIsKept DEF HeldReceipts
  <2> QED BY <2>1, <2>2, <2>3
<1>4. CostsMatchPurchase'
  <2> SUFFICES ASSUME NEW e \in ledger', e.refType = "gateway_receipt"
               PROVE  purchases'[e.case] = e.ref /\ e.ref \in DOMAIN payments' /\ payments'[e.ref] = e.case
    BY DEF CostsMatchPurchase
  <2>1. purchases[e.case] = e.ref /\ ReceiptFor(e.case, e.ref) /\ e.case \in Cases /\ e.ref # 0
    <3>1. CASE e \in ledger
      <4>1. e.case \in Cases /\ purchases[e.case] = e.ref /\ ReceiptFor(e.case, e.ref)
        BY <3>1 DEF CostsMatchPurchase, ReceiptFor, Basic, Types, LedgerType, LedgerRow
      <4> QED BY <4>1 DEF ReceiptFor, Basic, Types, PaymentsType
    <3>2. CASE e \notin ledger
      <4>1. RecordLedger(r)
        BY <3>2, AdmitChanges, WriteChanges, ProceedChanges DEF RunnerStep
      <4>2. e \in ProcurementEntries(CaseOf(r), ctx[r].receipt)
        BY <3>2, <4>1 DEF RecordLedger, Booked, CompleteEntries, Entry
      <4>3. e.case = CaseOf(r) /\ e.ref = ctx[r].receipt
        BY <4>2 DEF ProcurementEntries, Entry
      <4> QED BY <1>0, <4>1, <4>3 DEF RecordLedger, HeldReceipts, KeptReceipts, Purchased
    <3> QED BY <3>1, <3>2
  <2>2. purchases'[e.case] = e.ref
    BY <2>1, PurchaseIsKept
  <2>3. e.ref \in DOMAIN payments' /\ payments'[e.ref] = e.case
    BY <2>1, PaymentsGrow DEF ReceiptFor
  <2> QED BY <2>2, <2>3
<1> QED BY <1>1, <1>2, <1>3, <1>4

\* Receipts is inductive, given Basic.
LEMMA ReceiptsStep ==
  ASSUME Basic, Receipts, [Next]_vars
  PROVE  Receipts'
<1>1. ASSUME EnvStep
      PROVE  Receipts'
  <2>1. UNCHANGED <<purchases, ledger, payments>>
    BY <1>1, EnvChanges
  <2>2. \A s \in Runners : pc'[s] \in Purchased \cup {"paid"} => pc'[s] = pc[s] /\ ctx'[s] = ctx[s]
    BY <1>1, EnvChanges DEF Inside, Executing, Work, Purchased
  <2> QED BY <2>1, <2>2
      DEF Receipts, PaidReceipts, KeptReceipts, HeldReceipts, CostsMatchPurchase, ReceiptFor, CaseOf
<1>2. ASSUME UNCHANGED vars
      PROVE  Receipts'
  BY <1>2 DEF vars, storeVars, Receipts, PaidReceipts, KeptReceipts, HeldReceipts,
              CostsMatchPurchase, ReceiptFor, CaseOf
<1> QED BY <1>1, <1>2, NextSteps, ReceiptsRunnerStep

\* Receipts is an invariant.
LEMMA ReceiptsInvariant == Spec => []Receipts
<1>1. Init => Receipts
  BY DEF Init, Receipts, PaidReceipts, KeptReceipts, HeldReceipts, CostsMatchPurchase, Purchased
<1> QED BY <1>1, BasicInvariant, ReceiptsStep, PTL DEF Spec

\* A cost row names a payment that was made for its own case and is the one
\* `purchases` keeps, however many overlapping runs paid.
THEOREM CostsAlwaysMatch == Spec => []CostsMatchPurchase
  BY ReceiptsInvariant, PTL DEF Receipts

----------------------------------------------------------------------------
(* A case has one escrow job *)

CreateKey(c) == <<"createJob", c>>

\* tx_log has one row per key; the hash a run takes the jobId from is the
\* recorded one; a run that has not begun has no job and no write in hand; and the
\* job of a run that opened its own is the one its case's recorded createJob made.
UniqueKeys == \A a, b \in txLog : a.key = b.key => a = b
HoldsCreateRow ==
    \A r \in Runners :
        (pc[r] = "createJob" /\ call[r].phase = "receipt") \/ pc[r] = "jobId" =>
            [key |-> CreateKey(CaseOf(r)), tx |-> call[r].tx] \in txLog
NotStarted == {"idle", "queued", "takeOver", "intake"}
NoCallYet == \A r \in Runners : pc[r] \in NotStarted => call[r] = NoCall
NoJobYet == \A r \in Runners : ~Executing(r) => ctx[r].job = 0
CreatedBy(row, c, j) ==
    row.key = CreateKey(c) /\ txs[row.tx].status = "success" /\ txs[row.tx].made = j
OwnJobs ==
    \A r \in Runners : Executing(r) /\ ctx[r].job # 0 /\ ctx[r].req.job = 0 =>
        /\ \E row \in txLog : CreatedBy(row, CaseOf(r), ctx[r].job)
        /\ cases[CaseOf(r)].job = ctx[r].job

JobsInv == UniqueKeys /\ HoldsCreateRow /\ NoCallYet /\ NoJobYet /\ OwnJobs

\* A transaction that succeeded keeps its receipt.
LEMMA MinedIsFinal ==
  ASSUME Basic, [Next]_vars, NEW x \in DOMAIN txs, txs[x].status = "success"
  PROVE  x \in DOMAIN txs' /\ txs'[x] = txs[x]
<1> USE DEF Basic, Types, TxsType
<1>1. ASSUME NEW r \in Runners, RunnerStep(r)
      PROVE  x \in DOMAIN txs' /\ txs'[x] = txs[x]
  <2>1. CASE WriteSend(r)
    BY <2>1 DEF WriteSend, Send
  <2> QED BY <1>1, <2>1, AdmitChanges, WriteChanges, ProceedChanges DEF RunnerStep
<1>2. CASE ChainStep
  BY <1>2 DEF ChainStep, Mine, MineCreate, MineCall, MineRevert, ClaimRefund
<1>3. CASE UNCHANGED txs
  BY <1>3
<1> QED BY <1>1, <1>2, <1>3, NextSteps
    DEF EnvStep, CallFails, Arrive, Crash, GrowStale, vars, chainVars

\* A row of tx_log is never removed.
LEMMA RowsAreKept ==
  ASSUME Basic, [Next]_vars
  PROVE  txLog \subseteq txLog'
<1>1. ASSUME NEW r \in Runners, RunnerStep(r)
      PROVE  txLog \subseteq txLog'
  BY <1>1, AdmitChanges, WriteChanges, ProceedChanges DEF RunnerStep, WriteRecord, Record
<1> QED BY <1>1, NextSteps, EnvChanges DEF vars, clientVars

\* How a run comes by its job, and where the case's row gets it.
LEMMA JobOfRunner ==
  ASSUME Basic, NEW r \in Runners, RunnerStep(r)
  PROVE  \/ AdoptExternalJob(r) /\ ctx'[r].job = ctx[r].req.job
         \/ JobIdFromTx(r) /\ ctx'[r].job = txs[call[r].tx].made
         \/ pc'[r] = "idle" /\ ctx'[r].job = 0
         \/ ctx'[r].job = ctx[r].job /\ (Executing(r) \/ ~Executing(r)' \/ pc'[r] = "intake")
<1> USE DEF Basic, Types, PcType, CtxType, Ctx, Goto
<1>1. CASE Admit(r)
  <2>1. CASE Return(r)
    BY <2>1 DEF Return, NoCtx
  <2>2. CASE ~Return(r)
    <3>1. UNCHANGED ctx /\ (pc'[r] = "intake" \/ pc'[r] = "takeOver")
      BY <1>1, <2>2, AdmitChanges DEF BeginStarted, BeginResume, MarkRunning, Admitted
    <3> QED BY <3>1 DEF Executing, Work
  <2> QED BY <2>1, <2>2
<1>2. CASE Write(r)
  BY <1>2, WriteChanges DEF ChainAction, Executing, Work
<1>3. CASE Proceed(r)
  <2>1. CASE Succeed(r) \/ Fail(r)
    BY <2>1 DEF Succeed, Fail, Return, NoCtx
  <2>2. CASE AdoptExternalJob(r)
    BY <2>2 DEF AdoptExternalJob, BindJob
  <2>3. CASE JobIdFromTx(r)
    BY <2>3 DEF JobIdFromTx, BindJob
  <2>4. CASE ~(Succeed(r) \/ Fail(r) \/ AdoptExternalJob(r) \/ JobIdFromTx(r))
    <3>1. Executing(r)
      BY <1>3, ProceedChanges DEF Executing
    <3>2. ctx'[r].job = ctx[r].job
      BY <1>3, <2>4
         DEF Proceed, Intake, ExternalJobRefused, ReceiptMissing, ReusePurchase, NotPurchased,
             Pay, RecordPurchase, Assess, EscalationUnconfigured, MarkSubmitted, Verify,
             Settle, RecordLedger, ReconcileJobState
    <3> QED BY <3>1, <3>2
  <2> QED BY <2>1, <2>2, <2>3, <2>4
<1> QED BY <1>1, <1>2, <1>3 DEF RunnerStep

\* A case's row gets its job from a run that binds it.
LEMMA JobOfCase ==
  ASSUME Basic, NEW r \in Runners, RunnerStep(r), NEW c \in Cases
  PROVE  \/ cases'[c].job = cases[c].job
         \/ AdoptExternalJob(r) /\ c = CaseOf(r) /\ cases'[c].job = ctx[r].req.job
         \/ JobIdFromTx(r) /\ c = CaseOf(r) /\ cases'[c].job = txs[call[r].tx].made
<1> USE DEF Basic, Types, CasesType, SetCase
<1>0. CaseOf(r) \in Cases /\ cases[CaseOf(r)] \in CaseRow
  BY KeepsRequest, RunnerLocals
<1>1. ASSUME NEW row \in CaseRow, SetCase(r, row), row.job = cases[CaseOf(r)].job
      PROVE  cases'[c].job = cases[c].job
  BY <1>0, <1>1
<1>2. \A to \in CaseState :
         /\ Advanced(cases[CaseOf(r)], to) \in CaseRow
         /\ Advanced(cases[CaseOf(r)], to).job = cases[CaseOf(r)].job
  BY <1>0, AdvancedType DEF Advanced, CaseRow
<1>3. CASE Proceed(r)
  <2>1. CASE Intake(r)
    BY <1>0, <2>1 DEF Intake, CaseRow
  <2>2. CASE AdoptExternalJob(r)
    BY <1>0, <2>2 DEF AdoptExternalJob, BindJob, CaseRow
  <2>3. CASE JobIdFromTx(r)
    BY <1>0, <2>3 DEF JobIdFromTx, BindJob, CaseRow
  <2>4. CASE ReusePurchase(r)
    <3>1. PICK row \in CaseRow : SetCase(r, row) /\ row.job = cases[CaseOf(r)].job
      <4>1. {"decomposed", "assessing"} \subseteq CaseState
        BY DEF CaseState
      <4>2. /\ Advanced(Advanced(cases[CaseOf(r)], "decomposed"), "assessing") \in CaseRow
            /\ Advanced(Advanced(cases[CaseOf(r)], "decomposed"), "assessing").job
                 = cases[CaseOf(r)].job
        BY <1>2, <4>1, AdvancedType DEF Advanced, CaseRow
      <4> QED BY <2>4, <4>2 DEF ReusePurchase
    <3> QED BY <1>1, <3>1
  <2>5. CASE \/ NotPurchased(r) \/ RecordPurchase(r) \/ MarkSubmitted(r)
             \/ \E sa \in Sas : Assess(r, sa)
    <3>1. {"decomposed", "assessing", "conditions_ready", "submitted"} \subseteq CaseState
      BY DEF CaseState
    <3>2. PICK row \in CaseRow : SetCase(r, row) /\ row.job = cases[CaseOf(r)].job
      BY <1>2, <2>5, <3>1 DEF NotPurchased, RecordPurchase, MarkSubmitted, Assess
    <3> QED BY <1>1, <3>2
  <2>6. CASE ReconcileJobState(r)
    <3>1. /\ Reconciled(cases[CaseOf(r)], jobs[ctx[r].job].status) \in CaseRow
          /\ Reconciled(cases[CaseOf(r)], jobs[ctx[r].job].status).job = cases[CaseOf(r)].job
      BY <1>0, ReconciledType DEF Reconciled, CaseRow
    <3>2. PICK row \in CaseRow : SetCase(r, row) /\ row.job = cases[CaseOf(r)].job
      BY <1>0, <2>6, <3>1 DEF ReconcileJobState
    <3> QED BY <1>1, <3>2
  <2> QED BY <1>3, <2>1, <2>2, <2>3, <2>4, <2>5, <2>6
      DEF Proceed, ExternalJobRefused, ReceiptMissing, Pay, EscalationUnconfigured, Verify,
          Settle, RecordLedger, Succeed, Fail, storeVars
<1> QED BY <1>3, AdmitChanges, WriteChanges DEF RunnerStep

\* A second row for a key is refused.
LEMMA UniqueKeysStep ==
  ASSUME Basic, UniqueKeys, [Next]_vars
  PROVE  UniqueKeys'
<1>1. ASSUME NEW r \in Runners, WriteRecord(r)
      PROVE  UniqueKeys'
  BY <1>1 DEF UniqueKeys, WriteRecord, Record, Logged
<1>2. CASE UNCHANGED txLog
  BY <1>2 DEF UniqueKeys
<1> QED BY <1>1, <1>2, NextSteps, EnvChanges, AdmitChanges, WriteChanges, ProceedChanges
    DEF RunnerStep, vars, clientVars

\* LoggedTx returns the hash of a row with that key.
LEMMA RowOfKey ==
  ASSUME Basic, NEW k, Logged(k)
  PROVE  [key |-> k, tx |-> LoggedTx(k)] \in txLog
<1>1. PICK row \in txLog : row.key = k /\ LoggedTx(k) = row.tx
  BY DEF Logged, LoggedTx
<1> QED BY <1>1 DEF Basic, Types, TxLogType, TxLogRow

\* NoCallYet is preserved by every step.
LEMMA NoCallYetStep ==
  ASSUME Basic, NoCallYet, [Next]_vars
  PROVE  NoCallYet'
<1> SUFFICES ASSUME NEW s \in Runners, pc'[s] \in NotStarted
             PROVE  call'[s] = NoCall
  BY DEF NoCallYet
<1>1. CASE RunnerStep(s)
  <2> USE DEF Basic, Types, PcType, Goto, NotStarted
  <2>1. CASE pc'[s] = "idle"
    BY <1>1, <2>1, KeepsRequest
  <2>2. CASE Admit(s) /\ pc'[s] # "idle"
    <3>1. pc[s] \in NotStarted /\ UNCHANGED call
      BY <2>2, AdmitChanges
         DEF BeginStarted, BeginResume, MarkRunning, Admitted, Return, clientVars
    <3> QED BY <3>1 DEF NoCallYet
  <2>3. CASE Write(s)
    BY <2>3, WriteChanges DEF ChainAction, AfterWrite
  <2>4. CASE Proceed(s) /\ pc'[s] # "idle"
    BY <2>4 DEF Proceed, Intake, AdoptExternalJob, ExternalJobRefused, JobIdFromTx,
                ReceiptMissing, ReusePurchase, NotPurchased, Pay, RecordPurchase, Assess,
                EscalationUnconfigured, MarkSubmitted, Verify, Settle, RecordLedger,
                ReconcileJobState, Succeed, Fail, Return
  <2> QED BY <1>1, <2>1, <2>2, <2>3, <2>4 DEF RunnerStep
<1>2. CASE pc'[s] = pc[s] /\ call'[s] = call[s]
  BY <1>2 DEF NoCallYet
<1>3. CASE EnvStep
  <2> USE DEF Basic, Types, PcType, CallType, NotStarted, NoCallYet, Goto
  <2>1. CASE \E r \in Runners : CallFails(r)
    BY <2>1 DEF CallFails, clientVars
  <2>2. CASE \E r \in Runners, q \in Requests : Arrive(r, q)
    BY <2>2 DEF Arrive, clientVars
  <2>3. CASE \E p \in Procs : Crash(p)
    BY <2>3 DEF Crash, Dies
  <2>4. CASE (\E c \in Cases : GrowStale(c)) \/ ChainStep
    BY <2>4 DEF GrowStale, ChainStep, clientVars
  <2> QED BY <1>3, <2>1, <2>2, <2>3, <2>4 DEF EnvStep
<1>4. CASE UNCHANGED vars
  BY <1>2, <1>4 DEF vars, clientVars
<1> QED BY <1>1, <1>2, <1>3, <1>4, NextSteps, OthersStay

\* HoldsCreateRow is preserved by every step.
LEMMA HoldsCreateRowStep ==
  ASSUME Basic, NoCallYet, HoldsCreateRow, [Next]_vars
  PROVE  HoldsCreateRow'
<1>0. txLog \subseteq txLog'
  BY RowsAreKept
<1> SUFFICES ASSUME NEW s \in Runners,
                    \/ pc'[s] = "createJob" /\ call'[s].phase = "receipt"
                    \/ pc'[s] = "jobId"
             PROVE  [key |-> CreateKey(CaseOf(s)'), tx |-> call'[s].tx] \in txLog'
  BY DEF HoldsCreateRow, CreateKey
<1>a. pc'[s] # "idle" /\ Inside(s)'
  BY DEF Inside, Executing, Work
<1>1. CASE RunnerStep(s)
  <2> USE DEF Basic, Types, PcType, CallType, Goto
  <2>0. CaseOf(s)' = CaseOf(s)
    BY <1>a, <1>1, KeepsRequest DEF CaseOf
  <2>1. CASE Admit(s)
    BY <1>a, <2>1, AdmitChanges DEF BeginStarted, BeginResume, MarkRunning, Admitted, Return
  <2>2. CASE Write(s)
    <3>0. pc[s] = "createJob" /\ KeyOf(s) = CreateKey(CaseOf(s))
      <4>1. pc[s] = "createJob"
        BY <2>2, WriteChanges DEF ChainAction, AfterWrite
      <4> QED BY <4>1 DEF KeyOf, Key, CreateKey
    <3>1. CASE WriteHit(s)
      <4>1. Logged(KeyOf(s)) /\ call'[s].tx = LoggedTx(KeyOf(s))
        BY <3>0, <3>1 DEF WriteHit, LookupHit, Returned
      <4> QED BY <1>0, <2>0, <3>0, <4>1, RowOfKey
    <3>2. CASE WriteRecord(s)
      <4>1. txLog' = txLog \cup {[key |-> KeyOf(s), tx |-> call[s].tx]}
        BY <3>2 DEF WriteRecord, Record
      <4>2. call'[s].tx = call[s].tx
        BY <3>2 DEF WriteRecord, Record, Call
      <4> QED BY <2>0, <3>0, <4>1, <4>2
    <3>3. CASE WriteDone(s)
      <4>1. call[s].phase = "receipt" /\ call'[s].tx = call[s].tx
        BY <3>0, <3>3 DEF WriteDone, ReceiptSuccess, Returned
      <4> QED BY <1>0, <2>0, <3>0, <4>1 DEF HoldsCreateRow
    <3>4. CASE ~(WriteHit(s) \/ WriteRecord(s) \/ WriteDone(s))
      BY <2>2, <3>0, <3>4
         DEF Write, WriteApprove, WriteSend, WriteRefused, WriteDuplicate, WriteReverted,
             Writing, Send
    <3> QED BY <3>1, <3>2, <3>3, <3>4
  <2>3. CASE Proceed(s)
    <3>1. pc'[s] # "jobId"
      BY <2>3 DEF Proceed, Intake, AdoptExternalJob, ExternalJobRefused, JobIdFromTx,
                  ReceiptMissing, ReusePurchase, NotPurchased, Pay, RecordPurchase, Assess,
                  EscalationUnconfigured, MarkSubmitted, Verify, Settle, RecordLedger,
                  ReconcileJobState, Succeed, Fail, Return
    <3>2. pc'[s] = "createJob" => Intake(s)
      BY <2>3 DEF Proceed, AdoptExternalJob, ExternalJobRefused, JobIdFromTx,
                  ReceiptMissing, ReusePurchase, NotPurchased, Pay, RecordPurchase, Assess,
                  EscalationUnconfigured, MarkSubmitted, Verify, Settle, RecordLedger,
                  ReconcileJobState, Succeed, Fail, Return
    <3>3. Intake(s) => call'[s].phase = "call"
      BY DEF Intake, clientVars, NoCallYet, NotStarted, NoCall
    <3> QED BY <3>1, <3>2, <3>3
  <2> QED BY <1>1, <2>1, <2>2, <2>3 DEF RunnerStep
<1>2. CASE pc'[s] = pc[s] /\ ctx'[s] = ctx[s] /\ call'[s] = call[s]
  BY <1>0, <1>2 DEF HoldsCreateRow, CaseOf
<1>3. CASE EnvStep
  BY <1>a, <1>2, <1>3, EnvChanges
<1>4. CASE UNCHANGED vars
  BY <1>2, <1>4 DEF vars, clientVars
<1> QED BY <1>1, <1>2, <1>3, <1>4, NextSteps, OthersStay

\* A run stops executing only by returning or dying; the environment starts none.
LEMMA StaysOrReturns ==
  ASSUME Basic, NEW r \in Runners, RunnerStep(r), Executing(r), ~Executing(r)'
  PROVE  pc'[r] = "idle"
<1>1. pc'[r] \in Stage
  BY PcStep DEF Basic, Types, PcType
<1>2. pc'[r] # "takeOver"
  BY StaysExecuting
<1>3. pc'[r] # "queued"
  <2> USE DEF Basic, Types, PcType, Executing, Goto
  <2>1. CASE Write(r)
    BY <2>1, WriteChanges DEF ChainAction, AfterWrite
  <2>2. CASE Proceed(r)
    BY <2>2 DEF Proceed, Intake, AdoptExternalJob, ExternalJobRefused, JobIdFromTx,
                ReceiptMissing, ReusePurchase, NotPurchased, Pay, RecordPurchase, Assess,
                EscalationUnconfigured, MarkSubmitted, Verify, Settle, RecordLedger,
                ReconcileJobState, Succeed, Fail, Return
  <2> QED BY <2>1, <2>2, AdmitChanges DEF RunnerStep, Work
<1> QED BY <1>1, <1>2, <1>3 DEF Stage, Executing

\* The environment starts no run.
LEMMA EnvStays ==
  ASSUME Basic, EnvStep, NEW s \in Runners, Executing(s)'
  PROVE  Executing(s)
  BY EnvFails, EnvChanges DEF Inside, Executing

\* NoJobYet is preserved by every step.
LEMMA NoJobYetStep ==
  ASSUME Basic, NoJobYet, [Next]_vars
  PROVE  NoJobYet'
<1> SUFFICES ASSUME NEW s \in Runners, ~Executing(s)'
             PROVE  ctx'[s].job = 0
  BY DEF NoJobYet
<1>1. CASE RunnerStep(s)
  <2>1. ~(AdoptExternalJob(s) \/ JobIdFromTx(s))
    BY DEF AdoptExternalJob, JobIdFromTx, Goto, Executing, Work, Basic, Types, PcType
  <2>2. Executing(s) => pc'[s] = "idle"
    BY <1>1, StaysOrReturns
  <2>3. pc'[s] = "idle" => ctx'[s] = NoCtx
    BY <1>1, KeepsRequest
  <2> QED BY <1>1, <2>1, <2>2, <2>3, JobOfRunner DEF NoJobYet, NoCtx
<1>2. CASE pc'[s] = pc[s] /\ ctx'[s] = ctx[s]
  BY <1>2 DEF NoJobYet, Executing
<1>3. CASE EnvStep
  <2> USE DEF Basic, Types, PcType, CtxType, Ctx, Executing, NoJobYet, Goto
  <2>1. CASE \E r \in Runners : CallFails(r)
    BY <2>1 DEF CallFails, Work
  <2>2. CASE \E r \in Runners, q \in Requests : Arrive(r, q)
    BY <2>2 DEF Arrive, Work
  <2>3. CASE \E p \in Procs : Crash(p)
    BY <2>3 DEF Crash, Dies, NoCtx
  <2>4. CASE (\E c \in Cases : GrowStale(c)) \/ ChainStep
    BY <2>4 DEF GrowStale, ChainStep
  <2> QED BY <1>3, <2>1, <2>2, <2>3, <2>4 DEF EnvStep
<1>4. CASE UNCHANGED vars
  BY <1>2, <1>4 DEF vars
<1> QED BY <1>1, <1>2, <1>3, <1>4, NextSteps, OthersStay

\* OwnJobs is preserved by every step of a runner.
LEMMA OwnJobsRunnerStep ==
  ASSUME Basic, SameRequestThroughout, JobsInv, [Next]_vars, NEW r \in Runners, RunnerStep(r),
         NEW s \in Runners, Executing(s)', ctx'[s].job # 0, ctx'[s].req.job = 0
  PROVE  /\ \E row \in txLog' : CreatedBy(row, CaseOf(s), ctx[s].job)'
         /\ cases'[CaseOf(s)'].job = ctx'[s].job
<1>0. txLog \subseteq txLog'
  BY RowsAreKept
<1>1. CaseOf(s)' = CaseOf(s) /\ ctx'[s].req = ctx[s].req /\ pc[s] # "idle" /\ CaseOf(s) \in Cases
  BY OthersStay, KeepsRequest, RunnerLocals DEF CaseOf, Executing, Work
<1>2. CASE s = r /\ JobIdFromTx(r)
  <2>1. /\ txs[call[r].tx].status = "success" /\ call[r].tx \in DOMAIN txs
        /\ [key |-> CreateKey(CaseOf(r)), tx |-> call[r].tx] \in txLog
        /\ txs[call[r].tx] \in Tx
    BY <1>2 DEF JobIdFromTx, JobsInv, HoldsCreateRow, Basic, HeldHandles, Types, TxsType
  <2>2. txs'[call[r].tx] = txs[call[r].tx]
    BY <2>1, MinedIsFinal
  <2>3. /\ ctx'[r].job = txs[call[r].tx].made
        /\ cases'[CaseOf(r)].job = txs[call[r].tx].made
    BY <1>1, <1>2, <2>1 DEF JobIdFromTx, BindJob, SetCase, Basic, Types, CtxType, Ctx,
                            CasesType, CaseRow, Tx
  <2> DEFINE row == [key |-> CreateKey(CaseOf(r)), tx |-> call[r].tx]
  <2>4. row \in txLog' /\ row.key = CreateKey(CaseOf(r)) /\ row.tx = call[r].tx
    BY <1>0, <2>1
  <2> QED BY <1>1, <1>2, <2>1, <2>2, <2>3, <2>4 DEF CreatedBy, CreateKey
<1>3. CASE ~(s = r /\ JobIdFromTx(r))
  <2>1. ctx'[s].job = ctx[s].job /\ Executing(s)
    <3>1. CASE s # r
      BY <3>1, OthersStay DEF Executing
    <3>2. CASE s = r
      <4>1. ~AdoptExternalJob(r)
        BY <1>1, <3>2 DEF AdoptExternalJob, Adoptable, Basic, Types, JobsType
      <4>2. pc'[r] # "idle"
        BY <3>2 DEF Executing, Work
      <4>3. ctx'[r].job = ctx[r].job
        BY <1>3, <3>2, <4>1, <4>2, JobOfRunner
      <4>4. Executing(r)
        BY <3>2, <4>3 DEF JobsInv, NoJobYet
      <4> QED BY <3>2, <4>3, <4>4
    <3> QED BY <3>1, <3>2
  <2>2. PICK row \in txLog : CreatedBy(row, CaseOf(s), ctx[s].job)
    BY <1>1, <2>1 DEF JobsInv, OwnJobs
  <2>3. cases[CaseOf(s)].job = ctx[s].job
    BY <1>1, <2>1 DEF JobsInv, OwnJobs
  <2>4. row \in txLog' /\ txs'[row.tx] = txs[row.tx]
    BY <1>0, <2>2, MinedIsFinal DEF CreatedBy, Basic, LoggedHandles
  <2>5. cases'[CaseOf(s)].job = cases[CaseOf(s)].job
    <3>1. CASE AdoptExternalJob(r) /\ CaseOf(s) = CaseOf(r)
      <4>1. Executing(r) /\ ctx[r].req.job # 0
        BY <3>1 DEF AdoptExternalJob, Adoptable, Executing, Work, Basic, Types, JobsType
      <4>2. ctx[r].req.fp = ctx[s].req.fp
        BY <2>1, <3>1, <4>1 DEF SameRequestThroughout, SameRequest, Row
      <4>3. ctx[r].req \in Requests /\ ctx[s].req \in Requests
        BY <1>1, <4>1 DEF Basic, HasRequest, Executing, Work
      <4>4. ctx[r].req = ctx[s].req
        BY <4>2, <4>3, RunCaseAssumption
      <4> QED BY <1>1, <4>1, <4>4
    <3>2. CASE JobIdFromTx(r) /\ CaseOf(s) = CaseOf(r)
      <4>1. [key |-> CreateKey(CaseOf(r)), tx |-> call[r].tx] \in txLog
        BY <3>2 DEF JobIdFromTx, JobsInv, HoldsCreateRow
      <4>2. row = [key |-> CreateKey(CaseOf(r)), tx |-> call[r].tx]
        BY <2>2, <3>2, <4>1 DEF CreatedBy, JobsInv, UniqueKeys
      <4>3. txs[call[r].tx].made = ctx[s].job
        BY <2>2, <4>2 DEF CreatedBy
      <4>4. CASE cases'[CaseOf(s)].job = txs[call[r].tx].made
        BY <2>3, <4>3, <4>4
      <4> QED BY <1>1, <3>2, <4>4, JobOfCase DEF AdoptExternalJob, JobIdFromTx
    <3> QED BY <1>1, <3>1, <3>2, JobOfCase
  <2> QED BY <1>1, <2>1, <2>2, <2>3, <2>4, <2>5 DEF CreatedBy, CreateKey
<1> QED BY <1>2, <1>3

\* OwnJobs is preserved by every step.
LEMMA OwnJobsStep ==
  ASSUME Basic, SameRequestThroughout, JobsInv, [Next]_vars
  PROVE  OwnJobs'
<1> SUFFICES ASSUME NEW s \in Runners, Executing(s)', ctx'[s].job # 0, ctx'[s].req.job = 0
             PROVE  /\ \E row \in txLog' : CreatedBy(row, CaseOf(s), ctx[s].job)'
                    /\ cases'[CaseOf(s)'].job = ctx'[s].job
  BY DEF OwnJobs
<1>1. CASE \E r \in Runners : RunnerStep(r)
  BY <1>1, OwnJobsRunnerStep
<1>2. CASE EnvStep \/ UNCHANGED vars
  <2>1. UNCHANGED <<txLog, cases>> /\ ctx'[s] = ctx[s]
    BY <1>2, EnvChanges DEF vars, clientVars, storeVars, Inside
  <2>2. Executing(s)
    BY <1>2, EnvStays DEF vars, Executing
  <2>3. PICK row \in txLog : CreatedBy(row, CaseOf(s), ctx[s].job)
    BY <2>1, <2>2 DEF JobsInv, OwnJobs
  <2>4. txs'[row.tx] = txs[row.tx]
    BY <2>3, MinedIsFinal DEF CreatedBy, Basic, LoggedHandles
  <2>5. cases[CaseOf(s)].job = ctx[s].job
    BY <2>1, <2>2 DEF JobsInv, OwnJobs
  <2> QED BY <2>1, <2>3, <2>4, <2>5 DEF CreatedBy, CreateKey, CaseOf
<1> QED BY <1>1, <1>2, NextSteps

\* JobsInv is an invariant.
LEMMA JobsInvariant == Spec => []JobsInv
<1>1. Init => JobsInv
  BY DEF Init, JobClientInit, JobsInv, UniqueKeys, HoldsCreateRow, NoCallYet, NoJobYet, OwnJobs, NoCtx,
         NoCall, NotStarted, Executing, Work
<1>2. Basic /\ SameRequestThroughout /\ JobsInv /\ [Next]_vars => JobsInv'
  BY UniqueKeysStep, HoldsCreateRowStep, NoCallYetStep, NoJobYetStep, OwnJobsStep DEF JobsInv
<1> QED BY <1>1, <1>2, BasicInvariant, AlwaysSameRequest, PTL DEF Spec

\* Every run of a case that opens its own job works on the job of the one
\* recorded createJob, and the case's row names it, whatever crashes and however
\* many processes broadcast createJob for the case.
THEOREM AlwaysOneJob == Spec => []OneJobPerCase
<1>1. Basic /\ JobsInv => OneJobPerCase
  <2> SUFFICES ASSUME Basic, JobsInv, NEW r \in Runners, Executing(r), ctx[r].job # 0,
                      ctx[r].req.job = 0
               PROVE  /\ Logged(<<"createJob", CaseOf(r)>>)
                      /\ ctx[r].job = txs[CreateTx(CaseOf(r))].made
                      /\ cases[CaseOf(r)].job = ctx[r].job
    BY DEF OneJobPerCase
  <2>1. PICK row \in txLog : CreatedBy(row, CaseOf(r), ctx[r].job)
    BY DEF JobsInv, OwnJobs
  <2>2. LoggedTx(CreateKey(CaseOf(r))) = row.tx
    BY <2>1 DEF LoggedTx, CreatedBy, JobsInv, UniqueKeys
  <2> QED BY <2>1, <2>2 DEF CreatedBy, CreateKey, CreateTx, Logged, JobsInv, OwnJobs
<1> QED BY <1>1, BasicInvariant, JobsInvariant, PTL
=============================================================================
