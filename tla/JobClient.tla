----------------------------- MODULE JobClient -----------------------------
(***************************************************************************)
(* The idempotent write shell of packages/chain (sendWrite and the six     *)
(* write methods a case uses) over the SQLite table tx_log.  A write is    *)
(* steps with an await between them, so another runner, a crash or the     *)
(* chain may come in between:                                              *)
(*   call     look the key up, read the preconditions, broadcast           *)
(*   approved (fund only) the allowance covers the budget; look the key up *)
(*            again and broadcast                                          *)
(*   record   insert the row key -> txHash (the process holds the hash)    *)
(*   receipt  wait until the transaction is mined                          *)
(* Lookup, precondition reads and broadcast are one step: the lookup and   *)
(* the reads change nothing, and the broadcast repeats what they check.    *)
(***************************************************************************)
EXTENDS Escrow

CONSTANTS Runners,      \* concurrent callers of the client
          Cases         \* caseIds

VARIABLES txLog,        \* rows [key, tx] of the table tx_log
          call          \* per runner: the write in progress and its txHash

clientVars == <<txLog, call>>

Phase == {"call", "approved", "record", "receipt"}
Call == [phase : Phase, tx : Nat]
NoCall == [phase |-> "call", tx |-> 0]

\* idempotencyKey: createJob has no jobId yet, so it is keyed by the case.
Key(act, c, j) == IF act = "createJob" THEN <<act, c>> ELSE <<act, j>>

Keys == ({"createJob"} \X Cases) \cup ((ChainAction \ {"createJob"}) \X Nat)
TxLogRow == [key : Keys, tx : Nat]

JobClientTypeOK ==
    /\ txLog \in SUBSET TxLogRow
    /\ call \in [Runners -> Call]

JobClientInit ==
    /\ txLog = {}
    /\ call = [r \in Runners |-> NoCall]

\* The caller of a finished write; only createJob goes on with the hash.
Returned(act, x) == IF act = "createJob" THEN [phase |-> "call", tx |-> x] ELSE NoCall

Logged(k) == \E row \in txLog : row.key = k
LoggedTx(k) == (CHOOSE row \in txLog : row.key = k).tx

\* What the write method itself reads before sendWrite: fund re-reads status
\* and budget, complete and reject assert the state, the others read nothing.
ClientPre(act, j) ==
    CASE act = "fund"     -> jobs[j].status = "open" /\ jobs[j].budgeted
      [] act = "complete" -> jobs[j].status = "submitted"
      [] act = "reject"   -> jobs[j].status \in {"funded", "submitted"}
      [] OTHER            -> TRUE

\* fund makes sure of the allowance: if it does not cover the budget, approve
\* exactly one budget (it sets the allowance, it does not add to it) and wait.
ApproveUsdc(r, k, j) ==
    /\ call[r].phase = "call"
    /\ ~Logged(k)
    /\ ClientPre("fund", j)
    /\ allowance' = IF allowance = 0 THEN 1 ELSE allowance
    /\ call' = [call EXCEPT ![r].phase = "approved"]
    /\ UNCHANGED <<jobs, txs, txLog>>

\* The phase from which a write is broadcast.
SendPhase(act) == IF act = "fund" THEN "approved" ELSE "call"

\* The key is in tx_log: nothing is sent, the recorded hash is the answer.
LookupHit(r, act, k) ==
    /\ call[r].phase \in {"call", SendPhase(act)}
    /\ Logged(k)
    /\ call' = [call EXCEPT ![r] = Returned(act, LoggedTx(k))]
    /\ UNCHANGED <<chainVars, txLog>>

Send(r, act, k, j, sa) ==
    /\ call[r].phase = SendPhase(act)
    /\ ~Logged(k)
    /\ act # "fund" => ClientPre(act, j)
    /\ Accepts(NewTx(act, j, sa))
    /\ txs' = Append(txs, NewTx(act, j, sa))
    /\ call' = [call EXCEPT ![r] = [phase |-> "record", tx |-> Len(txs) + 1]]
    /\ UNCHANGED <<jobs, allowance, txLog>>

\* The method throws before anything is broadcast: a precondition it reads
\* does not hold, or the wallet's gas estimate fails.
SendRefused(r, act, k, j, sa) ==
    /\ ~Logged(k)
    /\ \/ call[r].phase = "call" /\ ~ClientPre(act, j)
       \/ call[r].phase = SendPhase(act) /\ ~Accepts(NewTx(act, j, sa))
    /\ UNCHANGED <<chainVars, txLog, call>>

\* Mutant of Record: INSERT OR REPLACE, the last hash wins.
RecordOverwriting(r, k) ==
    /\ call[r].phase = "record"
    /\ txLog' = {row \in txLog : row.key # k} \cup {[key |-> k, tx |-> call[r].tx]}
    /\ call' = [call EXCEPT ![r].phase = "receipt"]
    /\ UNCHANGED chainVars

Record(r, k) ==
    /\ call[r].phase = "record"
    /\ ~Logged(k)
    /\ txLog' = txLog \cup {[key |-> k, tx |-> call[r].tx]}
    /\ call' = [call EXCEPT ![r].phase = "receipt"]
    /\ UNCHANGED chainVars

\* INSERT OR IGNORE changed no row: DuplicateIdempotencyKeyError.
RecordDuplicate(r, k) ==
    /\ call[r].phase = "record"
    /\ Logged(k)
    /\ UNCHANGED <<chainVars, txLog, call>>

\* Mutants of ReceiptSuccess: the receipt's status is not looked at; the
\* receipt is not waited for.
ReceiptMined(r, act) ==
    /\ call[r].phase = "receipt"
    /\ txs[call[r].tx].status # "pending"
    /\ call' = [call EXCEPT ![r] = Returned(act, call[r].tx)]
    /\ UNCHANGED <<chainVars, txLog>>

ReceiptUnawaited(r, act) ==
    /\ call[r].phase = "receipt"
    /\ call' = [call EXCEPT ![r] = Returned(act, call[r].tx)]
    /\ UNCHANGED <<chainVars, txLog>>

ReceiptSuccess(r, act) ==
    /\ call[r].phase = "receipt"
    /\ txs[call[r].tx].status = "success"
    /\ call' = [call EXCEPT ![r] = Returned(act, call[r].tx)]
    /\ UNCHANGED <<chainVars, txLog>>

ReceiptReverted(r) ==
    /\ call[r].phase = "receipt"
    /\ txs[call[r].tx].status = "reverted"
    /\ UNCHANGED <<chainVars, txLog, call>>
=============================================================================
