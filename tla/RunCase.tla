------------------------------ MODULE RunCase ------------------------------
(***************************************************************************)
(* The orchestrator (engine/src/orchestrator/run-case.ts) and the stores   *)
(* it runs on: one HTTP request becomes one runner, which takes the        *)
(* process's KeyedMutex for its caseId, is admitted by case_runs, and then *)
(* walks intake -> job -> purchase -> adjudication -> submit -> checks ->  *)
(* settlement -> ledger -> reconciliation.  Several server processes may   *)
(* share the SQLite file; a process may die at any await.                  *)
(*                                                                         *)
(* One action is one stretch of code between two awaits.  What is done in  *)
(* one stretch is one action even where it is several SQL statements; the  *)
(* exception is the takeover of a run (check, then UPDATE), which is split *)
(* because another process may come between the two.                      *)
(***************************************************************************)
EXTENDS JobClient, FiniteSets

CONSTANTS
    Procs,          \* server processes on one database file
    ProcOf,         \* the process that serves each runner
    Requests,       \* what clients send: a set of Request records
    Fps,            \* request fingerprints
    NoReq, NoRunner, NoFp,
    PassingSas,     \* deliverables the three checks accept
    GraySas,        \* deliverables that need escalation material (exit 4)
    Royalty,        \* whether the module's response owes a royalty
    MaxArrivals,    \* bound on requests sent, 0 for none
    MaxSlow,        \* bound on live runs that outlast staleRunMs
    FailAt,         \* <<stage, phase>> points at which a run may fail or die
    MaxCrashes,     \* bound on process crashes
    MaxFaults       \* bound on failed calls (RPC, x402, LLM, verifier)

VARIABLES
    pc,             \* per runner: the stage of runCase it is in
    ctx,            \* per runner: the local variables of that call
    mutex,          \* per process and case: the runner inside KeyedMutex
    runs,           \* table case_runs, a row per case
    cases,          \* table cases, a row per case
    purchases,      \* table purchases: the receipt kept per case, 0 for no row
    ledger,         \* table ledger, a set of rows
    payments,       \* <<case, ...>>: every x402 payment made; a receipt is an index
    arrived, crashes, faults, slow   \* how often each of these happened

storeVars == <<runs, cases, purchases, ledger>>
boundVars == <<arrived, crashes, faults, slow>>
vars == <<chainVars, clientVars, pc, ctx, mutex, storeVars, payments, boundVars>>

----------------------------------------------------------------------------
(* Types *)

\* `fp` is requestFingerprint, a hash over every field a run depends on; `job` is existingJobId (0 when absent), `esc`
\* says whether the request carries an escalation configuration.
Request == [case : Cases, fp : Fps, job : Nat, readable : BOOLEAN, esc : BOOLEAN]

Work == {"intake", "adopt", "createJob", "jobId", "setBudget", "fund", "opened",
         "pay", "paid", "assess", "submit", "submitted", "verify", "settle",
         "complete", "reject", "ledger", "reconcile", "succeed", "fail"}
Stage == {"idle", "queued", "takeOver"} \cup Work

Ctx == [req : Requests \cup {NoReq}, job : Nat, receipt : Nat,
        sa : Sas \cup {NoSa}, passed : BOOLEAN]
NoCtx == [req |-> NoReq, job |-> 0, receipt |-> 0, sa |-> NoSa, passed |-> FALSE]

\* snap is the snapshot: what a replay answers.
Snapshot == [job : Nat, receipt : Nat, sa : Sas \cup {NoSa}, passed : BOOLEAN]
NoSnap == [job |-> 0, receipt |-> 0, sa |-> NoSa, passed |-> FALSE]
RunRow == [status : {"none", "running", "succeeded", "failed"},
           fp : Fps \cup {NoFp}, stale : BOOLEAN, snap : Snapshot]

CaseState == {"none", "intake", "decomposed", "assessing", "conditions_ready",
              "submitted", "settled", "rejected"}
ExitReason == {"none", "completed", "verifier_rejected", "intake_rejected", "timeout_refund"}
CaseRow == [state : CaseState, exit : ExitReason, job : Nat]

LedgerRow == [case : Cases, refType : {"jobId", "gateway_receipt"}, ref : Nat,
              category : {"case_fee", "module_fee", "royalty"},
              account : {"operator", "verifier", "procurement"}]

ASSUME RunCaseAssumption ==
    /\ ProcOf \in [Runners -> Procs]
    /\ Requests \subseteq Request
    /\ \A q, s \in Requests : q.fp = s.fp => q = s
    /\ NoReq \notin Requests
    /\ NoRunner \notin Runners
    /\ NoFp \notin Fps
    /\ PassingSas \subseteq Sas /\ GraySas \subseteq Sas
    /\ FailAt \subseteq Stage \X Phase
    /\ \A bound \in {MaxArrivals, MaxCrashes, MaxFaults, MaxSlow} : bound \in Nat
    /\ Royalty \in BOOLEAN

TypeOK ==
    /\ EscrowTypeOK
    /\ JobClientTypeOK
    /\ pc \in [Runners -> Stage]
    /\ ctx \in [Runners -> Ctx]
    /\ mutex \in [Procs \X Cases -> Runners \cup {NoRunner}]
    /\ runs \in [Cases -> RunRow]
    /\ cases \in [Cases -> CaseRow]
    /\ purchases \in [Cases -> Nat]
    /\ ledger \in SUBSET LedgerRow
    /\ payments \in Seq(Cases)
    /\ \A n \in {arrived, crashes, faults, slow} : n \in Nat

Init ==
    /\ EscrowInit
    /\ JobClientInit
    /\ pc = [r \in Runners |-> "idle"]
    /\ ctx = [r \in Runners |-> NoCtx]
    /\ mutex = [l \in Procs \X Cases |-> NoRunner]
    /\ runs = [c \in Cases |->
                 [status |-> "none", fp |-> NoFp, stale |-> FALSE, snap |-> NoSnap]]
    /\ cases = [c \in Cases |-> [state |-> "none", exit |-> "none", job |-> 0]]
    /\ purchases = [c \in Cases |-> 0]
    /\ ledger = {}
    /\ payments = <<>>
    /\ arrived = 0
    /\ crashes = 0
    /\ faults = 0
    /\ slow = 0

----------------------------------------------------------------------------
(* Stores *)

CaseOf(r) == ctx[r].req.case
Lock(r) == <<ProcOf[r], CaseOf(r)>>
Executing(r) == pc[r] \in Work

\* CASE_STATE_ORDER.
Rank(s) ==
    CASE s = "intake"           -> 1
      [] s = "decomposed"       -> 2
      [] s = "assessing"        -> 3
      [] s = "conditions_ready" -> 4
      [] s = "submitted"        -> 5
      [] OTHER                  -> 0

\* Mutant of Advanced: sets the state whatever it was.
AdvancedAlways(row, to) == [row EXCEPT !.state = to]

\* advanceCaseState: forward only, never out of a terminal state.
Advanced(row, to) ==
    IF Rank(row.state) \in 1 .. Rank(to) - 1 THEN [row EXCEPT !.state = to] ELSE row

\* Mutant of Outcome: the two rejections are taken for each other.
OutcomeSwapped(status, submitted) ==
    CASE status = "completed" -> [state |-> "settled", exit |-> "completed"]
      [] status = "rejected"  -> [state |-> "rejected",
                                  exit |-> IF submitted THEN "intake_rejected"
                                                        ELSE "verifier_rejected"]
      [] OTHER                -> [state |-> "rejected", exit |-> "timeout_refund"]

\* applyJobState: what a terminal state of the job makes of the case.
Outcome(status, submitted) ==
    CASE status = "completed" -> [state |-> "settled", exit |-> "completed"]
      [] status = "rejected"  -> [state |-> "rejected",
                                  exit |-> IF submitted THEN "verifier_rejected"
                                                        ELSE "intake_rejected"]
      [] OTHER                -> [state |-> "rejected", exit |-> "timeout_refund"]

\* assertCaseTransition, for the two terminal targets.
MayEnd(from, to) ==
    \/ to = "settled" /\ from = "submitted"
    \/ to = "rejected" /\ Rank(from) > 0

\* UNIQUE(ref, ref_type, category, direction, account).
SameEntry(e, f) ==
    /\ e.refType = f.refType /\ e.ref = f.ref
    /\ e.category = f.category /\ e.account = f.account

\* recordLedgerIdempotent: a row that is already there is skipped.
Booked(rows, new) == rows \cup {e \in new : \A f \in rows : ~SameEntry(e, f)}

Entry(c, refType, ref, category, account) ==
    [case |-> c, refType |-> refType, ref |-> ref, category |-> category, account |-> account]

\* Mutant of CompleteEntries: books the platform's fee as ours as well.
CompleteEntriesAll(c, j) ==
    {Entry(c, "jobId", j, "case_fee", a) : a \in {"operator", "verifier", "platform"}}

CompleteEntries(c, j) ==
    {Entry(c, "jobId", j, "case_fee", a) : a \in {"operator", "verifier"}}

ProcurementEntries(c, receipt) ==
    {Entry(c, "gateway_receipt", receipt, k, "procurement") :
        k \in IF Royalty THEN {"module_fee", "royalty"} ELSE {"module_fee"}}

----------------------------------------------------------------------------
(* Admission *)

Goto(r, s) == pc' = [pc EXCEPT ![r] = s]
Return(r) ==
    /\ Goto(r, "idle")
    /\ ctx' = [ctx EXCEPT ![r] = NoCtx]
    /\ call' = [call EXCEPT ![r] = NoCall]
    /\ mutex' = [mutex EXCEPT ![Lock(r)] = NoRunner]

\* A client sends, or sends again, a request; runCase queues on the mutex.
Arrive(r, q) ==
    /\ pc[r] = "idle"
    /\ IF MaxArrivals = 0 THEN arrived' = arrived
       ELSE arrived < MaxArrivals /\ arrived' = arrived + 1
    /\ Goto(r, "queued")
    /\ ctx' = [ctx EXCEPT ![r].req = q]
    /\ UNCHANGED <<chainVars, clientVars, mutex, storeVars, payments,
                   crashes, faults, slow>>

\* Mutant of Admitted: does not wait for the mutex.
AdmittedUnlocked(r, to) ==
    /\ pc[r] = "queued"
    /\ mutex' = [mutex EXCEPT ![Lock(r)] = r]
    /\ Goto(r, to)
    /\ UNCHANGED <<chainVars, clientVars, ctx, cases, purchases, ledger,
                   payments, boundVars>>

\* The mutex is free; its new holder runs on, without an await, into begin.
Admitted(r, to) ==
    /\ pc[r] = "queued"
    /\ mutex[Lock(r)] = NoRunner
    /\ mutex' = [mutex EXCEPT ![Lock(r)] = r]
    /\ Goto(r, to)
    /\ UNCHANGED <<chainVars, clientVars, ctx, cases, purchases, ledger,
                   payments, boundVars>>

\* begin returns or throws at once, so the mutex is free again.
Answered(r) ==
    /\ pc[r] = "queued"
    /\ mutex[Lock(r)] = NoRunner
    /\ Return(r)
    /\ UNCHANGED <<chainVars, txLog, storeVars, payments, boundVars>>

Row(r) == runs[CaseOf(r)]
SameRequest(r) == Row(r).fp = ctx[r].req.fp

\* INSERT OR IGNORE inserted the row: this run is the first.
BeginStarted(r) ==
    /\ Admitted(r, "intake")
    /\ Row(r).status = "none"
    /\ runs' = [runs EXCEPT ![CaseOf(r)] =
                  [@ EXCEPT !.status = "running", !.fp = ctx[r].req.fp]]

\* Same caseId, other parameters: CaseRequestConflictError.
BeginConflict(r) == Answered(r) /\ Row(r).status # "none" /\ ~SameRequest(r)
\* The stored snapshot is the answer.
BeginReplay(r) == Answered(r) /\ SameRequest(r) /\ Row(r).status = "succeeded"
\* CaseRunInFlightError.
BeginInFlight(r) == Answered(r) /\ SameRequest(r) /\ Row(r).status = "running" /\ ~Row(r).stale

\* Mutants of BeginResume: the fingerprint is not compared; a finished run is
\* taken over too; only failed runs are taken over.
BeginResumeAny(r) ==
    /\ Admitted(r, "takeOver")
    /\ Row(r).status = "failed" \/ (Row(r).status = "running" /\ Row(r).stale)
    /\ UNCHANGED runs

BeginResumeFinished(r) ==
    /\ Admitted(r, "takeOver")
    /\ SameRequest(r)
    /\ Row(r).status \in {"failed", "succeeded"} \/ (Row(r).status = "running" /\ Row(r).stale)
    /\ UNCHANGED runs

BeginResumeFailed(r) ==
    /\ Admitted(r, "takeOver")
    /\ SameRequest(r)
    /\ Row(r).status = "failed"
    /\ UNCHANGED runs

\* The row is failed, or running and stale: this caller will take it over.
BeginResume(r) ==
    /\ Admitted(r, "takeOver")
    /\ SameRequest(r)
    /\ Row(r).status = "failed" \/ (Row(r).status = "running" /\ Row(r).stale)
    /\ UNCHANGED runs

\* markRunning: an UPDATE by case_id alone, whatever the row says by now.
MarkRunning(r) ==
    /\ pc[r] = "takeOver"
    /\ runs' = [runs EXCEPT ![CaseOf(r)] = [@ EXCEPT !.status = "running", !.stale = FALSE]]
    /\ Goto(r, "intake")
    /\ UNCHANGED <<chainVars, clientVars, ctx, mutex, cases, purchases, ledger,
                   payments, boundVars>>

----------------------------------------------------------------------------
(* Intake and the escrow job *)

SetCase(r, row) == cases' = [cases EXCEPT ![CaseOf(r)] = row]

\* ensureCase, then exit 1 for unreadable material: before any chain write.
Intake(r) ==
    /\ pc[r] = "intake"
    /\ SetCase(r, IF cases[CaseOf(r)].state = "none"
                    THEN [cases[CaseOf(r)] EXCEPT !.state = "intake"]
                    ELSE cases[CaseOf(r)])
    /\ Goto(r, IF ~ctx[r].req.readable THEN "fail"
               ELSE IF ctx[r].req.job = 0 THEN "createJob" ELSE "adopt")
    /\ UNCHANGED <<chainVars, clientVars, ctx, mutex, runs, purchases, ledger,
                   payments, boundVars>>

BindJob(r, j) ==
    /\ ctx' = [ctx EXCEPT ![r].job = j]
    /\ SetCase(r, [cases[CaseOf(r)] EXCEPT !.job = j])

Adoptable(j) == j \in DOMAIN jobs /\ jobs[j].status = "funded" /\ jobs[j].ours

AdoptExternalJob(r) ==
    /\ pc[r] = "adopt"
    /\ Adoptable(ctx[r].req.job)
    /\ BindJob(r, ctx[r].req.job)
    /\ Goto(r, "opened")
    /\ UNCHANGED <<chainVars, clientVars, mutex, runs, purchases, ledger,
                   payments, boundVars>>

ExternalJobRefused(r) ==
    /\ pc[r] = "adopt"
    /\ ~Adoptable(ctx[r].req.job)
    /\ Goto(r, "fail")
    /\ UNCHANGED <<chainVars, clientVars, ctx, mutex, storeVars, payments, boundVars>>

\* jobIdFromTx reads the receipt without waiting; then the job is bound.
JobIdFromTx(r) ==
    /\ pc[r] = "jobId"
    /\ txs[call[r].tx].status = "success"
    /\ BindJob(r, txs[call[r].tx].made)
    /\ call' = [call EXCEPT ![r] = NoCall]
    /\ Goto(r, "setBudget")
    /\ UNCHANGED <<chainVars, txLog, mutex, runs, purchases, ledger,
                   payments, boundVars>>

ReceiptMissing(r) ==
    /\ pc[r] = "jobId"
    /\ txs[call[r].tx].status # "success"
    /\ Goto(r, "fail")
    /\ UNCHANGED <<chainVars, clientVars, ctx, mutex, storeVars, payments, boundVars>>

----------------------------------------------------------------------------
(* Keyed chain writes: createJob, setBudget, fund, submit, complete, reject *)

KeyOf(r) == Key(pc[r], CaseOf(r), ctx[r].job)
Deliverable(r) == IF pc[r] = "submit" THEN ctx[r].sa ELSE NoSa

AfterWrite(act) ==
    CASE act = "createJob" -> "jobId"
      [] act = "setBudget" -> "fund"
      [] act = "fund"      -> "opened"
      [] act = "submit"    -> "submitted"
      [] OTHER             -> "ledger"

\* Every step of a write leaves the runner's locals, the lock and the other
\* tables alone.
Writing(r, to) ==
    /\ pc[r] \in ChainAction
    /\ Goto(r, to)
    /\ UNCHANGED <<ctx, mutex, storeVars, payments, boundVars>>

WriteHit(r)       == Writing(r, AfterWrite(pc[r])) /\ LookupHit(r, pc[r], KeyOf(r))
WriteApprove(r)   == Writing(r, "fund") /\ pc[r] = "fund" /\ ApproveUsdc(r, KeyOf(r), ctx[r].job)
WriteSend(r)      == Writing(r, pc[r]) /\ Send(r, pc[r], KeyOf(r), ctx[r].job, Deliverable(r))
WriteRefused(r)   == Writing(r, "fail") /\ SendRefused(r, pc[r], KeyOf(r), ctx[r].job, Deliverable(r))
WriteRecord(r)    == Writing(r, pc[r]) /\ Record(r, KeyOf(r))
WriteDuplicate(r) == Writing(r, "fail") /\ RecordDuplicate(r, KeyOf(r))
WriteDone(r)      == Writing(r, AfterWrite(pc[r])) /\ ReceiptSuccess(r, pc[r])
WriteReverted(r)  == Writing(r, "fail") /\ ReceiptReverted(r)

----------------------------------------------------------------------------
(* Procurement, adjudication, verification *)

\* The open job has been read back; the case advances, and purchases is asked
\* whether this case already owns the module's answer.
ReusePurchase(r) ==
    /\ pc[r] = "opened"
    /\ purchases[CaseOf(r)] # 0
    /\ SetCase(r, Advanced(Advanced(cases[CaseOf(r)], "decomposed"), "assessing"))
    /\ ctx' = [ctx EXCEPT ![r].receipt = purchases[CaseOf(r)]]
    /\ Goto(r, "assess")
    /\ UNCHANGED <<chainVars, clientVars, mutex, runs, purchases, ledger,
                   payments, boundVars>>

\* Mutant of NotPurchased: buys without asking purchases first.
NotPurchasedUnchecked(r) ==
    /\ pc[r] = "opened"
    /\ SetCase(r, Advanced(cases[CaseOf(r)], "decomposed"))
    /\ Goto(r, "pay")
    /\ UNCHANGED <<chainVars, clientVars, ctx, mutex, runs, purchases, ledger,
                   payments, boundVars>>

NotPurchased(r) ==
    /\ pc[r] = "opened"
    /\ purchases[CaseOf(r)] = 0
    /\ SetCase(r, Advanced(cases[CaseOf(r)], "decomposed"))
    /\ Goto(r, "pay")
    /\ UNCHANGED <<chainVars, clientVars, ctx, mutex, runs, purchases, ledger,
                   payments, boundVars>>

\* The x402 request settles: the money is spent when the answer arrives.
Pay(r) ==
    /\ pc[r] = "pay"
    /\ payments' = Append(payments, CaseOf(r))
    /\ ctx' = [ctx EXCEPT ![r].receipt = Len(payments) + 1]
    /\ Goto(r, "paid")
    /\ UNCHANGED <<chainVars, clientVars, mutex, storeVars, boundVars>>

Kept(c, receipt) == IF purchases[c] = 0 THEN receipt ELSE purchases[c]

\* Mutant of RecordPurchase: goes on with its own receipt, not the kept one.
RecordPurchaseOwn(r) ==
    /\ pc[r] = "paid"
    /\ purchases' = [purchases EXCEPT ![CaseOf(r)] = Kept(CaseOf(r), ctx[r].receipt)]
    /\ SetCase(r, Advanced(cases[CaseOf(r)], "assessing"))
    /\ Goto(r, "assess")
    /\ UNCHANGED <<chainVars, clientVars, ctx, mutex, runs, ledger, payments, boundVars>>

\* INSERT OR IGNORE, then the row that is there is what the run goes on with.
RecordPurchase(r) ==
    /\ pc[r] = "paid"
    /\ LET kept == Kept(CaseOf(r), ctx[r].receipt)
       IN  /\ purchases' = [purchases EXCEPT ![CaseOf(r)] = kept]
           /\ ctx' = [ctx EXCEPT ![r].receipt = kept]
    /\ SetCase(r, Advanced(cases[CaseOf(r)], "assessing"))
    /\ Goto(r, "assess")
    /\ UNCHANGED <<chainVars, clientVars, mutex, runs, ledger, payments, boundVars>>

NeedsConfig(r, sa) == sa \in GraySas /\ ~ctx[r].req.esc

\* Adjudication may come out differently in another run of the same case.
Assess(r, sa) ==
    /\ pc[r] = "assess"
    /\ ~NeedsConfig(r, sa)
    /\ ctx' = [ctx EXCEPT ![r].sa = sa]
    /\ SetCase(r, Advanced(cases[CaseOf(r)], "conditions_ready"))
    /\ Goto(r, "submit")
    /\ UNCHANGED <<chainVars, clientVars, mutex, runs, purchases, ledger,
                   payments, boundVars>>

\* EscalationConfigMissingError.
EscalationUnconfigured(r, sa) ==
    /\ pc[r] = "assess"
    /\ NeedsConfig(r, sa)
    /\ Goto(r, "fail")
    /\ UNCHANGED <<chainVars, clientVars, ctx, mutex, storeVars, payments, boundVars>>

MarkSubmitted(r) ==
    /\ pc[r] = "submitted"
    /\ SetCase(r, Advanced(cases[CaseOf(r)], "submitted"))
    /\ Goto(r, "verify")
    /\ UNCHANGED <<chainVars, clientVars, ctx, mutex, runs, purchases, ledger,
                   payments, boundVars>>

\* The three checks get the local deliverable, not the one read from chain.
Verify(r) ==
    /\ pc[r] = "verify"
    /\ ctx' = [ctx EXCEPT ![r].passed = ctx[r].sa \in PassingSas]
    /\ Goto(r, "settle")
    /\ UNCHANGED <<chainVars, clientVars, mutex, storeVars, payments, boundVars>>

\* settleVerifiedJob reads the state before it asks the client to write.
SettleState(r) == IF ctx[r].passed THEN {"submitted"} ELSE {"funded", "submitted"}

Settle(r) ==
    /\ pc[r] = "settle"
    /\ Goto(r, IF jobs[ctx[r].job].status \notin SettleState(r) THEN "fail"
               ELSE IF ctx[r].passed THEN "complete" ELSE "reject")
    /\ UNCHANGED <<chainVars, clientVars, ctx, mutex, storeVars, payments, boundVars>>

----------------------------------------------------------------------------
(* Ledger, reconciliation, end of the run *)

RecordLedger(r) ==
    /\ pc[r] = "ledger"
    /\ ledger' = Booked(ledger,
                   ProcurementEntries(CaseOf(r), ctx[r].receipt) \cup
                   (IF ctx[r].passed THEN CompleteEntries(CaseOf(r), ctx[r].job) ELSE {}))
    /\ Goto(r, "reconcile")
    /\ UNCHANGED <<chainVars, clientVars, ctx, mutex, runs, cases, purchases,
                   payments, boundVars>>

Reconciled(row, status) ==
    LET out == Outcome(status, row.state = "submitted")
    IN  IF status \notin JobTerminal \/ out.state = row.state THEN row
        ELSE [row EXCEPT !.state = out.state, !.exit = out.exit]

\* reconcileJobState; a transition the table forbids throws and changes nothing.
ReconcileJobState(r) ==
    /\ pc[r] = "reconcile"
    /\ LET row == cases[CaseOf(r)]
           new == Reconciled(row, jobs[ctx[r].job].status)
           ok  == new = row \/ MayEnd(row.state, new.state)
       IN  /\ SetCase(r, IF ok THEN new ELSE row)
           /\ Goto(r, IF ok THEN "succeed" ELSE "fail")
    /\ UNCHANGED <<chainVars, clientVars, ctx, mutex, runs, purchases, ledger,
                   payments, boundVars>>

SnapshotOf(r) == [job |-> ctx[r].job, receipt |-> ctx[r].receipt,
                  sa |-> ctx[r].sa, passed |-> ctx[r].passed]

Succeed(r) ==
    /\ pc[r] = "succeed"
    /\ runs' = [runs EXCEPT ![CaseOf(r)] =
                  [@ EXCEPT !.status = "succeeded", !.snap = SnapshotOf(r)]]
    /\ Return(r)
    /\ UNCHANGED <<chainVars, txLog, cases, purchases, ledger, payments, boundVars>>

\* runs.fail: an UPDATE by case_id alone, then the error goes to the caller.
Fail(r) ==
    /\ pc[r] = "fail"
    /\ runs' = [runs EXCEPT ![CaseOf(r)] = [@ EXCEPT !.status = "failed"]]
    /\ Return(r)
    /\ UNCHANGED <<chainVars, txLog, cases, purchases, ledger, payments, boundVars>>

----------------------------------------------------------------------------
(* Environment *)

Point(r) == <<pc[r], call[r].phase>>

\* A call to the outside fails, or its answer is lost: in phase "record" the
\* transaction is out but the client never learns its hash, in stage "paid"
\* the module was paid but its answer is unusable.
CallFails(r) ==
    /\ Point(r) \in FailAt
    /\ pc[r] \in Work \ {"intake", "submitted", "succeed", "fail"}
    /\ faults < MaxFaults
    /\ faults' = faults + 1
    /\ Goto(r, "fail")
    /\ UNCHANGED <<chainVars, clientVars, ctx, mutex, storeVars, payments, arrived, crashes, slow>>

Dies(p, f, none) == [r \in Runners |-> IF ProcOf[r] = p THEN none ELSE f[r]]

\* Mutant of Crash: the client runs on the in-memory store of packages/chain
\* instead of the table tx_log.
CrashForgetsTxLog(p) ==
    /\ \E r \in Runners : ProcOf[r] = p /\ Executing(r)
    /\ \A r \in Runners : ProcOf[r] = p /\ Executing(r) => Point(r) \in FailAt
    /\ crashes < MaxCrashes
    /\ crashes' = crashes + 1
    /\ pc' = Dies(p, pc, "idle")
    /\ ctx' = Dies(p, ctx, NoCtx)
    /\ call' = Dies(p, call, NoCall)
    /\ mutex' = [l \in Procs \X Cases |-> IF l[1] = p THEN NoRunner ELSE mutex[l]]
    /\ txLog' = {}
    /\ UNCHANGED <<chainVars, storeVars, payments, arrived, faults, slow>>

\* The process dies: its runners and its mutex are gone, the database stays.
Crash(p) ==
    /\ \E r \in Runners : ProcOf[r] = p /\ Executing(r)
    /\ \A r \in Runners : ProcOf[r] = p /\ Executing(r) => Point(r) \in FailAt
    /\ crashes < MaxCrashes
    /\ crashes' = crashes + 1
    /\ pc' = Dies(p, pc, "idle")
    /\ ctx' = Dies(p, ctx, NoCtx)
    /\ call' = Dies(p, call, NoCall)
    /\ mutex' = [l \in Procs \X Cases |-> IF l[1] = p THEN NoRunner ELSE mutex[l]]
    /\ UNCHANGED <<chainVars, txLog, storeVars, payments, arrived, faults, slow>>

\* staleRunMs passes since the row was last marked running.  The run may be
\* dead, or alive and slow.
GrowStale(c) ==
    /\ runs[c].status = "running"
    /\ ~runs[c].stale
    /\ runs' = [runs EXCEPT ![c].stale = TRUE]
    /\ IF \E r \in Runners : Executing(r) /\ CaseOf(r) = c
         THEN slow < MaxSlow /\ slow' = slow + 1
         ELSE slow' = slow
    /\ UNCHANGED <<chainVars, clientVars, pc, ctx, mutex, cases, purchases, ledger,
                   payments, arrived, crashes, faults>>

ChainStep ==
    /\ \/ \E x \in DOMAIN txs : Mine(x)
       \/ \E j \in DOMAIN jobs : ClaimRefund(j)
    /\ UNCHANGED <<clientVars, pc, ctx, mutex, storeVars, payments, boundVars>>

----------------------------------------------------------------------------

Admit(r) == \/ BeginStarted(r) \/ BeginConflict(r) \/ BeginReplay(r)
            \/ BeginInFlight(r) \/ BeginResume(r) \/ MarkRunning(r)

Write(r) == \/ WriteHit(r) \/ WriteApprove(r) \/ WriteSend(r) \/ WriteRefused(r)
            \/ WriteRecord(r) \/ WriteDuplicate(r) \/ WriteDone(r) \/ WriteReverted(r)

Proceed(r) ==
    \/ Intake(r) \/ AdoptExternalJob(r) \/ ExternalJobRefused(r)
    \/ JobIdFromTx(r) \/ ReceiptMissing(r)
    \/ ReusePurchase(r) \/ NotPurchased(r) \/ Pay(r) \/ RecordPurchase(r)
    \/ \E sa \in Sas : Assess(r, sa) \/ EscalationUnconfigured(r, sa)
    \/ MarkSubmitted(r) \/ Verify(r) \/ Settle(r) \/ RecordLedger(r) \/ ReconcileJobState(r)
    \/ Succeed(r) \/ Fail(r)

RunnerStep(r) == Admit(r) \/ Write(r) \/ Proceed(r)

Next ==
    \/ \E r \in Runners : RunnerStep(r) \/ CallFails(r)
    \/ \E r \in Runners, q \in Requests : Arrive(r, q)
    \/ \E p \in Procs : Crash(p)
    \/ \E c \in Cases : GrowStale(c)
    \/ ChainStep

Spec == Init /\ [][Next]_vars

\* A pending transaction is mined, an abandoned run grows stale, clients send
\* a request again until they have an answer, and a live runner moves on.
Fairness ==
    /\ \A r \in Runners : WF_vars(RunnerStep(r))
    /\ \A r \in Runners : WF_vars(\E q \in Requests : Arrive(r, q))
    /\ \A c \in Cases : WF_vars(GrowStale(c))
    /\ WF_vars(ChainStep)

FairSpec == Spec /\ Fairness
=============================================================================
