------------------------------- MODULE Escrow -------------------------------
(***************************************************************************)
(* The Arc chain as the engine uses it: the ERC-8183 escrow contract, the  *)
(* client wallet's USDC allowance towards it, and transactions that are    *)
(* broadcast first and mined later, in any order.  The contract is not in  *)
(* this repository; its rules are those of the state and authorisation     *)
(* matrix that JobClient and the settlement code rely on.                  *)
(***************************************************************************)
EXTENDS Naturals, Sequences

CONSTANTS
    Sas,            \* deliverables: the settlement authorizations a run may sign
    NoSa,           \* the deliverable of a job nothing was submitted to
    MayExpire,      \* whether expiredAt may pass while a job is in escrow
    ExternalJobs    \* <<job, ...>>: jobs a browser wallet created and funded

VARIABLES
    jobs,           \* <<job, ...>>: the contract's jobs; a jobId is an index
    txs,            \* <<tx, ...>>: every transaction broadcast; a txHash is an index
    allowance       \* USDC the client lets the contract pull, in case budgets

chainVars == <<jobs, txs, allowance>>

JobState == {"open", "funded", "submitted", "completed", "rejected", "expired"}
JobTerminal == {"completed", "rejected", "expired"}
ChainAction == {"createJob", "setBudget", "fund", "submit", "complete", "reject"}

\* `ours`: provider, evaluator and budget are the ones this deployment expects.
Job == [status : JobState, budgeted : BOOLEAN, ours : BOOLEAN,
        deliverable : Sas \cup {NoSa}]

\* `on` is the job a write is about (0 for createJob); `made` is the jobId of
\* the JobCreated event in the receipt.
Tx == [act : ChainAction, on : Nat, sa : Sas \cup {NoSa},
       status : {"pending", "success", "reverted"}, made : Nat]

ASSUME EscrowAssumption ==
    /\ NoSa \notin Sas
    /\ MayExpire \in BOOLEAN
    /\ ExternalJobs \in Seq(Job)

EscrowTypeOK ==
    /\ jobs \in Seq(Job)
    /\ txs \in Seq(Tx)
    /\ allowance \in Nat

EscrowInit ==
    /\ jobs = ExternalJobs
    /\ txs = <<>>
    /\ allowance = 0

NewTx(act, j, sa) ==
    [act |-> act, on |-> j, sa |-> sa, status |-> "pending", made |-> 0]

NewJob == [status |-> "open", budgeted |-> FALSE, ours |-> TRUE, deliverable |-> NoSa]

EntryStates(act) ==
    CASE act \in {"setBudget", "fund"} -> {"open"}
      [] act = "submit"                -> {"funded"}
      [] act = "complete"              -> {"submitted"}
      [] OTHER                         -> {"funded", "submitted"}

\* The contract accepts t in the current state.  A wallet evaluates the same
\* predicate (gas estimation) before it broadcasts.
Accepts(t) ==
    \/ t.act = "createJob"
    \/ /\ t.on \in DOMAIN jobs
       /\ jobs[t.on].status \in EntryStates(t.act)
       /\ t.act = "fund" => jobs[t.on].budgeted /\ allowance > 0

Applied(t) ==
    CASE t.act = "setBudget" -> [jobs[t.on] EXCEPT !.budgeted = TRUE]
      [] t.act = "fund"      -> [jobs[t.on] EXCEPT !.status = "funded"]
      [] t.act = "submit"    -> [jobs[t.on] EXCEPT !.status = "submitted", !.deliverable = t.sa]
      [] t.act = "complete"  -> [jobs[t.on] EXCEPT !.status = "completed"]
      [] OTHER               -> [jobs[t.on] EXCEPT !.status = "rejected"]

\* createJob is mined: the job exists and the receipt carries its id.
MineCreate(x) ==
    /\ txs[x].status = "pending"
    /\ txs[x].act = "createJob"
    /\ jobs' = Append(jobs, NewJob)
    /\ txs' = [txs EXCEPT ![x] = [@ EXCEPT !.status = "success", !.made = Len(jobs) + 1]]
    /\ UNCHANGED allowance

\* Any other write is mined while the contract accepts it.
MineCall(x) ==
    /\ txs[x].status = "pending"
    /\ txs[x].act # "createJob"
    /\ Accepts(txs[x])
    /\ jobs' = [jobs EXCEPT ![txs[x].on] = Applied(txs[x])]
    /\ txs' = [txs EXCEPT ![x].status = "success"]
    /\ allowance' = IF txs[x].act = "fund" THEN allowance - 1 ELSE allowance

\* A write whose entry state has gone is mined and reverts; it changes nothing else.
MineRevert(x) ==
    /\ txs[x].status = "pending"
    /\ ~Accepts(txs[x])
    /\ txs' = [txs EXCEPT ![x].status = "reverted"]
    /\ UNCHANGED <<jobs, allowance>>

Mine(x) == MineCreate(x) \/ MineCall(x) \/ MineRevert(x)

\* claimRefund is permissionless: once expiredAt has passed, anyone may call it.
ClaimRefund(j) ==
    /\ MayExpire
    /\ jobs[j].status \in {"funded", "submitted"}
    /\ jobs' = [jobs EXCEPT ![j].status = "expired"]
    /\ UNCHANGED <<txs, allowance>>
=============================================================================
