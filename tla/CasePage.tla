------------------------------- MODULE CasePage -------------------------------
(***************************************************************************)
(* The case page on top of the wallet flow: it loads the case record, paints *)
(* the job's four beats from the record and repaints them when the job has *)
(* been read back through the demo API, which caches what it read.  Loads  *)
(* and reads are asynchronous: the page may have moved on when they end.   *)
(***************************************************************************)
EXTENDS WalletFlow, SequencesExt

CONSTANTS
    CacheMax,   \* jobs the demo API keeps a view of (JOB_STATUS_CACHE_MAX)
    MaxViews    \* bound: times a case page is opened

VARIABLES
    loads,      \* cases whose record is being fetched
    reads,      \* job reads under way, each with the snapshot it will paint
    shown,      \* the lifecycle on screen: the job it names and its beats
    cache,      \* demo API: job views, oldest first
    views

pageVars == <<loads, reads, shown, cache, views>>
vars == <<chainVars, flowVars, pageVars>>

ASSUME PageAssumption == CacheMax \in Nat \ {0} /\ MaxViews \in Nat

\* What the demo API answers: the chain's status, and whether tx_log holds a
\* submit of ours; NoView when it could not be read.
JobView == [status : JobState \cup {"none"}, submit : BOOLEAN]
NoView == [status |-> "none", submit |-> FALSE]
Snapshot == Succeeded \cup {"none"}
Read == [job : Nat, snapshot : Snapshot, status : JobState \cup {"none"}]
Beat == {"done", "active", "pending", "unknown", "failed"}
Shown == [job : Nat, beats : [1..4 -> Beat]]
Entry == [job : Nat, view : JobView, fresh : BOOLEAN]

\* BUG: a job that was rejected or expired is taken to have been submitted.
BeatsAssumed ==
    [open      |-> <<"done", "pending", "pending", "pending">>,
     funded    |-> <<"done", "done", "active", "pending">>,
     submitted |-> <<"done", "done", "done", "active">>,
     completed |-> <<"done", "done", "done", "done">>,
     rejected  |-> <<"done", "done", "done", "failed">>,
     expired   |-> <<"done", "done", "done", "failed">>]
BEATS_BY_CHAIN_STATE ==
    [open      |-> <<"done", "pending", "pending", "pending">>,
     funded    |-> <<"done", "done", "active", "pending">>,
     submitted |-> <<"done", "done", "done", "active">>,
     completed |-> <<"done", "done", "done", "done">>,
     rejected  |-> <<"done", "done", "unknown", "failed">>,
     expired   |-> <<"done", "done", "unknown", "failed">>]

\* buildTimelineModel: the chain wins when it was read; otherwise a beat is
\* done if the record proves it, and unknown if not.
FromRecord(snapshot) ==
    [i \in 1..4 |-> CASE snapshot = "none"                -> "unknown"
                      [] i = 4 /\ snapshot = "rejected"   -> "failed"
                      [] OTHER                            -> "done"]

Timeline(view, snapshot) ==
    IF view.status = "none" THEN FromRecord(snapshot)
    ELSE LET beats == BEATS_BY_CHAIN_STATE[view.status] IN
         IF beats[3] = "unknown" /\ (view.submit \/ snapshot # "none")
         THEN [beats EXCEPT ![3] = "done"] ELSE beats

NothingShown == [job |-> 0, beats |-> [i \in 1..4 |-> "unknown"]]

PageInit ==
    /\ FlowInit
    /\ loads = {} /\ reads = {} /\ shown = NothingShown /\ cache = <<>> /\ views = 0

\* A step of the flow; when it moves the page to a case, that case is loaded.
FlowMoves(A) ==
    /\ A
    /\ loads' = IF page' \in Visit /\ page' # page THEN loads \cup {page'} ELSE loads
    /\ shown' = IF page' = page THEN shown ELSE NothingShown
    /\ UNCHANGED <<reads, cache, views>>

\* The user follows the link to a case.
OpenCase(v) ==
    /\ views < MaxViews
    /\ v <= visits /\ page # v
    /\ views' = views + 1
    /\ page' = v
    /\ loads' = loads \cup {v}
    /\ shown' = NothingShown
    /\ disturbed' = (disturbed \/ Unserved)
    /\ UNCHANGED <<chainVars, visits, steps, jobId, deal, forms, go, retry, flows,
                   runs, serverLog, faults, overlapped, reads, cache>>

\* The record arrives and is rendered, whatever the page shows by now: painted
\* from the record first, then from the job it names.
LoadCase(v) ==
    LET row == runs[v]
        snapshot == IF row.phase \in Succeeded THEN row.phase ELSE "none" IN
    /\ v \in loads
    /\ loads' = loads \ {v}
    /\ page' = v
    /\ shown' = [job |-> IF snapshot = "none" THEN 0 ELSE row.job, beats |-> Timeline(NoView, snapshot)]
    /\ reads' = IF row.adopted THEN reads \cup {[job |-> row.job, snapshot |-> snapshot, status |-> "none"]}
                ELSE reads
    /\ disturbed' = (disturbed \/ (page # v /\ Unserved))
    /\ UNCHANGED <<chainVars, visits, steps, jobId, deal, forms, go, retry, flows,
                   runs, serverLog, faults, overlapped, cache, views>>

\* refreshLifecycle paints into the lifecycle card on screen, if there is one.
Paint(r, view) ==
    /\ reads' = reads \ {r}
    /\ shown' = IF page \in Visit THEN [job |-> r.job, beats |-> Timeline(view, r.snapshot)] ELSE shown

FreshEntries(job) == {i \in DOMAIN cache : cache[i].job = job /\ cache[i].fresh}

ServeCached(r) ==
    /\ r.status = "none"
    /\ \E i \in FreshEntries(r.job) : Paint(r, cache[i].view)
    /\ UNCHANGED <<chainVars, flowVars, loads, cache, views>>

ReadJob(r) ==
    /\ r.status = "none"
    /\ FreshEntries(r.job) = {}
    /\ reads' = (reads \ {r}) \cup {[r EXCEPT !.status = jobs[r.job].status]}
    /\ UNCHANGED <<chainVars, flowVars, loads, shown, cache, views>>

\* Map.delete: the map has one entry of a job.
Without(job) ==
    IF \E i \in DOMAIN cache : cache[i].job = job
    THEN RemoveAt(cache, CHOOSE i \in DOMAIN cache : cache[i].job = job) ELSE cache

\* BUG: only its own entry goes.
PutStatusWithoutRoom(job, view) ==
    Append(Without(job), [job |-> job, view |-> view, fresh |-> TRUE])
\* Its own entry goes first, then the oldest if there is no room.
PutStatus(job, view) ==
    LET kept == IF Len(Without(job)) >= CacheMax THEN Tail(Without(job)) ELSE Without(job) IN
    Append(kept, [job |-> job, view |-> view, fresh |-> TRUE])

\* The tx_log lookups come after the job was read; then the view is cached.
ReadTxLog(r) ==
    LET view == [status |-> r.status, submit |-> r.job \in submits] IN
    /\ r.status # "none"
    /\ cache' = PutStatus(r.job, view)
    /\ Paint(r, view)
    /\ UNCHANGED <<chainVars, flowVars, loads, views>>

\* The read fails, or takes longer than eight seconds.
ReadFails(r) ==
    /\ Fault
    /\ Paint(r, NoView)
    /\ UNCHANGED <<chainVars, visits, page, steps, jobId, deal, forms, go, retry, flows,
                   runs, serverLog, overlapped, disturbed, loads, cache, views>>

CacheAges ==
    /\ \E i \in DOMAIN cache :
          cache[i].fresh /\ cache' = [cache EXCEPT ![i].fresh = FALSE]
    /\ UNCHANGED <<chainVars, flowVars, loads, reads, shown, views>>

Next ==
    \/ FlowMoves(RenderNew) \/ FlowMoves(MineNext) \/ FlowMoves(MineBudget) \/ FlowMoves(Expires)
    \/ \E f \in Flows :
          \/ FlowMoves(PressGo(f)) \/ FlowMoves(PressRetry(f))
          \/ FlowMoves(Connected(f)) \/ FlowMoves(Sign(f)) \/ FlowMoves(Refuse(f))
          \/ FlowMoves(Receipt(f)) \/ FlowMoves(ReceiptReverted(f)) \/ FlowMoves(ReceiptTimeout(f))
          \/ FlowMoves(SetBudget(f)) \/ FlowMoves(SetBudgetHit(f)) \/ FlowMoves(BudgetReceipt(f))
          \/ FlowMoves(SetBudgetFails(f))
          \/ FlowMoves(Replayed(f)) \/ FlowMoves(Conflicts(f)) \/ FlowMoves(AnswerLost(f))
          \/ FlowMoves(Adopts(f)) \/ FlowMoves(RefusesJob(f))
    \/ \E v \in Visit : \/ FlowMoves(RunSubmits(v)) \/ FlowMoves(RunMined(v))
                        \/ FlowMoves(RunSettles(v)) \/ FlowMoves(RunFails(v))
    \/ \E v \in Visit : OpenCase(v) \/ LoadCase(v)
    \/ \E r \in reads : ServeCached(r) \/ ReadJob(r) \/ ReadTxLog(r) \/ ReadFails(r)
    \/ CacheAges

\* The user signs and retries; the chain mines, the server's runs and the loads of
\* their records go on.  Nothing of either goes on for ever.
Fairness ==
    /\ WF_vars(\E f \in Flows : FlowMoves(FlowSteps(f)) \/ FlowMoves(PressRetry(f)))
    /\ WF_vars(\/ FlowMoves(MineNext) \/ FlowMoves(MineBudget)
               \/ \E v \in Visit : FlowMoves(RunSteps(v)) \/ LoadCase(v))

Spec == PageInit /\ [][Next]_vars
FairSpec == Spec /\ Fairness

-----------------------------------------------------------------------------
(* Properties *)

\* Every variable keeps its shape; in particular the demo API never holds more
\* than CacheMax views and never two of one job (demo-api.ts:282).
WalletTypeOK ==
    /\ jobs \in Seq(Job) /\ allowance \in {0, 1}
    /\ visits \in 0..MaxVisits /\ page \in 0..Landing
    /\ steps \in [DOMAIN STEPS -> StepStatus]
    /\ jobId \in 0..Len(jobs) /\ deal \in Deal /\ forms \in 0..MaxForms
    /\ go \in BOOLEAN /\ retry \in BOOLEAN
    /\ flows \in [Flows -> Flow] /\ runs \in [Visit -> Run]
    /\ proposals \subseteq [on : DOMAIN jobs, logged : BOOLEAN]
    /\ submits \subseteq DOMAIN jobs /\ faults \in 0..MaxFaults
    /\ overlapped \in BOOLEAN /\ disturbed \in BOOLEAN
    /\ loads \subseteq Visit /\ reads \subseteq Read /\ shown \in Shown
    /\ cache \in Seq(Entry) /\ Len(cache) <= CacheMax /\ views \in 0..MaxViews
    /\ \A i, k \in DOMAIN cache : cache[i].job = cache[k].job => i = k

\* A beat painted "done" or "failed" has happened to the job the card names,
\* however stale the cached view and wherever the page has moved meanwhile
\* ("evidence only ... never a guess", app.js:189).  The third beat of an
\* expired job rests on tx_log, which holds a submit from its broadcast on.
ShownIsTrue ==
    LET j == jobs[shown.job]  b == shown.beats IN
    shown.job # 0 =>
        /\ b[2] = "done" => j.status # "open"
        /\ b[3] = "done" => \/ j.deliverable # NoSa
                            \/ j.status = "expired" /\ shown.job \in submits
        /\ b[4] = "done" => j.status = "completed"
        /\ b[4] = "failed" => j.status \in {"rejected", "expired"}

\* Unless #/new was opened again under a running flow, a step shown as done is
\* true of the job the page goes on with: setBudget done means that tx_log holds
\* this job's setBudget (mined or not: a retry is answered from tx_log), fund done
\* means its escrow was funded, and so its budget set, case done means its run
\* settled.
DoneStepsAreTrue ==
    ~overlapped => \A i \in DOMAIN STEPS : steps[i] = "done" =>
        CASE STEPS[i] = "createJob" -> jobId \in DOMAIN jobs
          [] STEPS[i] = "setBudget" -> Proposed(jobId)
          [] STEPS[i] = "fund"      -> jobs[jobId].status # "open" /\ jobs[jobId].budgeted
          [] STEPS[i] = "case"      -> \E v \in Visit : runs[v].job = jobId /\ runs[v].phase \in Succeeded
          [] OTHER                  -> TRUE

\* However often the steps of a visit are refused, time out and are retried,
\* whichever step it was, at most one escrow per visit is funded ("retries never
\* double-spend", docs/demo-ui.md:97); unless flows overlapped.
OneEscrowPerVisit ==
    ~overlapped => Cardinality({j \in DOMAIN jobs : jobs[j].status # "open"}) <= visits

\* Unless flows overlapped, two cases never run on the same job: tx_log is keyed
\* by job, so the second would take over the first one's submit (types.ts:115).
OneCasePerJob ==
    ~overlapped => \A v, w \in Visit :
        runs[v].adopted /\ runs[w].adopted /\ runs[v].job = runs[w].job => v = w

\* The deal the user has entered last ends as a settled case, through any bounded
\* number of refusals, lost receipts, lost answers and failed runs, as long as
\* the user signs and presses Retry; except after the events `disturbed` names.
EventuallyServed ==
    <>[](deal = NoDeal \/ runs[deal.id].phase \in Succeeded \/ disturbed \/ overlapped)
=============================================================================
