---------------------------- MODULE CaseService ----------------------------
(***************************************************************************)
(* POST /cases from the rate limiter to the answer: shape check, payment   *)
(* gate with its memory of what was paid and not delivered, one turn per   *)
(* case, and a run that asks another process to verify and settle.  What a *)
(* run does on chain and in the database is RunCase's; here it is the      *)
(* status of the case's row and of its job.                                *)
(***************************************************************************)
EXTENDS RateLimiter, CaseRequest, FiniteSets

CONSTANTS
    MaxSends,     \* number of requests
    Bodies,       \* the bodies sent, by name: [case, variant, job, raw]
    Plans,        \* the requests clients send, in order: [client, cred, body], a body by name
    Cases, ExternalJobs,
    NoCred,       \* no payment header
    RetryWindow,  \* PAID_RETRY_WINDOW_MS
    MaxUpsets     \* number of clock ticks and restarts together

Requests == 1..MaxSends
NoRequest == 0
Jobs == Cases \union ExternalJobs

VARIABLES
    plan,       \* one of Plans
    now,
    buckets,    \* the limiter's map
    req,        \* req[n]: the request and how far it has come
    charged,    \* credential -> what the facilitator charged it for
    remembered, \* PaidRetryStore: retry key -> expiry
    rows,       \* rows[c]: the case's row in case_runs
    restarts,
    tails, previous, phase, keyOf, ticket, issued,
    jobs, calls, parked

IsExternal(body) == body.raw.job_id = "ok"
BodyJob(body) == IF IsExternal(body) THEN body.job ELSE body.case

\* A plan is a request for each number, with a body there is, about a case and a
\* job there are; a case's requests of one variant (fingerprint) are the same.
ServiceAssumption ==
    /\ MaxSends \in Nat /\ RetryWindow \in Nat /\ Cases # {}
    /\ \A sends \in Plans : \A n \in Requests :
        sends[n].body \in DOMAIN Bodies
    /\ \A b \in DOMAIN Bodies :
        /\ Bodies[b].case \in Cases /\ Bodies[b].raw.job_id \in Field
        /\ Bodies[b].job \in Cases \union ExternalJobs
    /\ \A b, d \in DOMAIN Bodies :
        Bodies[b].case = Bodies[d].case /\ Bodies[b].variant = Bodies[d].variant
            => BodyJob(Bodies[b]) = BodyJob(Bodies[d])
ASSUME ServiceAssumption

Mutex == INSTANCE KeyedMutex WITH Callers <- Requests, Keys <- Cases, NoCaller <- NoRequest
Verifier == INSTANCE RemoteVerifier WITH VCalls <- Requests, Jobs <- Jobs

mutexVars == <<tails, previous, phase, keyOf, ticket, issued>>
remoteVars == <<jobs, calls, parked>>
serviceVars == <<plan, now, buckets, req, charged, remembered, rows, restarts, mutexVars, remoteVars>>

\* Map.set.
With(map, key, value) ==
    [k \in DOMAIN map \union {key} |-> IF k = key THEN value ELSE map[k]]

NoRow == [status |-> "none", variant |-> "", action |-> "none"]
Unsent == [client |-> "", cred |-> NoCred, body |-> "", stage |-> "unsent",
           paid |-> FALSE, free |-> FALSE, status |-> 0, action |-> "none"]

ServiceInit ==
    /\ plan \in Plans /\ now = 0 /\ buckets = <<>> /\ restarts = 0
    /\ req = [n \in Requests |-> Unsent]
    /\ charged = <<>> /\ remembered = <<>>
    /\ rows = [c \in Cases |-> NoRow]
    /\ Mutex!MutexInit /\ keyOf = [n \in Requests |-> CHOOSE c \in Cases : TRUE]
    /\ Verifier!RemoteInit

Body(n) == Bodies[req[n].body]
CaseOf(n) == Body(n).case
JobOf(n) == BodyJob(Body(n))
At(n, stage) == req[n].stage = stage

Goto(n, stage) == req' = [req EXCEPT ![n].stage = stage]
Answer(n, status) == req' = [req EXCEPT ![n].stage = "answered", ![n].status = status]

-----------------------------------------------------------------------------
\* paid-retry.ts: what a payment may be used for again.
\* BUG: any body.
RetryKeyAnyBody(n) == <<req[n].cred>>
RetryKey(n) == <<req[n].cred, req[n].body>>
Remembers(key) == key \in DOMAIN remembered /\ remembered[key] > now

\* app.ts: the limiter, then the shape of the body, before anything is paid.
Precheck(send) ==
    CASE OverLimit(buckets, send.client, now) -> 429
      [] ~OverLimit(buckets, send.client, now)
         /\ ~ParseCaseRequest(Bodies[send.body].raw).ok -> 400
      [] OTHER -> 0
Arrive(n) ==
    /\ At(n, "unsent") /\ \A m \in 1..n - 1 : ~At(m, "unsent")
    /\ LET send == plan[n] IN
        /\ buckets' = Touched(buckets, send.client, now)
        /\ req' = [req EXCEPT ![n] =
              [Unsent EXCEPT !.client = send.client, !.cred = send.cred, !.body = send.body,
                  !.stage = IF Precheck(send) = 0 THEN "gate" ELSE "answered",
                  !.status = Precheck(send)]]
    /\ UNCHANGED <<now, charged, remembered, rows, restarts, mutexVars, remoteVars>>

\* runCase queues for its case at once.
ToHandler(n, paid, free) ==
    /\ req' = [req EXCEPT ![n].stage = "queued", ![n].paid = paid, ![n].free = free]
    /\ Mutex!Enqueue(n, CaseOf(n))

\* A job on chain is the payment, so a request that names one passes.
GateExternal(n) ==
    /\ At(n, "gate") /\ IsExternal(Body(n))
    /\ ToHandler(n, FALSE, FALSE)
    /\ UNCHANGED <<now, buckets, charged, remembered, rows, restarts, remoteVars>>

GateRetry(n) ==
    /\ At(n, "gate") /\ ~IsExternal(Body(n))
    /\ req[n].cred # NoCred /\ Remembers(RetryKey(n))
    /\ ToHandler(n, FALSE, TRUE)
    /\ UNCHANGED <<now, buckets, charged, remembered, rows, restarts, remoteVars>>

\* has() drops an entry that has expired.
GateCharge(n) ==
    /\ At(n, "gate") /\ ~IsExternal(Body(n))
    /\ req[n].cred # NoCred => ~Remembers(RetryKey(n))
    /\ remembered' = Restrict(remembered, DOMAIN remembered \ {RetryKey(n)})
    /\ Goto(n, "facilitator")
    /\ UNCHANGED <<now, buckets, charged, rows, restarts, mutexVars, remoteVars>>

\* The x402 middleware: a credential pays once.
FacilitatorPays(n) ==
    /\ At(n, "facilitator") /\ req[n].cred \notin DOMAIN charged \union {NoCred}
    /\ charged' = With(charged, req[n].cred,
                       [body |-> req[n].body, at |-> now, epoch |-> restarts])
    /\ ToHandler(n, TRUE, FALSE)
    /\ UNCHANGED <<now, buckets, remembered, rows, restarts, remoteVars>>
FacilitatorRefuses(n) ==
    /\ At(n, "facilitator")
    /\ \/ req[n].cred \in DOMAIN charged \union {NoCred} /\ Answer(n, 402)
       \/ Answer(n, 502)
    /\ UNCHANGED <<now, buckets, charged, remembered, rows, restarts, mutexVars, remoteVars>>

-----------------------------------------------------------------------------
\* runCase: a turn for the case, then the run.
Turn(n) ==
    /\ At(n, "queued") /\ Mutex!Enter(n)
    /\ Goto(n, "admission")
    /\ UNCHANGED <<now, buckets, charged, remembered, rows, restarts, remoteVars>>

\* The end of a run gives the turn away; the answer is on its way back.
EndRun(n, status, action) ==
    /\ Mutex!Release(n)
    /\ req' = [req EXCEPT ![n].stage = "responding", ![n].status = status,
                          ![n].action = action]

Row(n) == rows[CaseOf(n)]
SetRow(n, status, action) ==
    rows' = [rows EXCEPT ![CaseOf(n)] =
                [status |-> status, variant |-> Body(n).variant, action |-> action]]

\* begin: another request under the same id, and a row left "running" by a
\* process that is gone and not yet stale, are errors.
AdmissionRefused(n) ==
    /\ At(n, "admission")
    /\ \/ Row(n).status # "none" /\ Row(n).variant # Body(n).variant
       \/ Row(n).status = "running"
    /\ EndRun(n, 500, "none")
    /\ UNCHANGED <<now, buckets, charged, remembered, rows, restarts, remoteVars>>
AdmissionReplay(n) ==
    /\ At(n, "admission")
    /\ Row(n).status = "succeeded" /\ Row(n).variant = Body(n).variant
    /\ EndRun(n, 200, Row(n).action)
    /\ UNCHANGED <<now, buckets, charged, remembered, rows, restarts, remoteVars>>
AdmissionRuns(n) ==
    /\ At(n, "admission") /\ Row(n).status # "succeeded"
    /\ Row(n).status # "none" => Row(n).variant = Body(n).variant
    /\ SetRow(n, "running", "none")
    /\ Goto(n, "working")
    /\ UNCHANGED <<now, buckets, charged, remembered, restarts, mutexVars, remoteVars>>

FailRun(n, status) == SetRow(n, "failed", "none") /\ EndRun(n, status, "none")

Preparing(n) == req[n].stage \in {"working", "adopted"}

\* Any step of the run may fail, before or after the settlement.
RunFails(n) ==
    /\ req[n].stage \in {"working", "adopted", "settled"}
    /\ FailRun(n, 500)
    /\ UNCHANGED <<now, buckets, charged, remembered, restarts, remoteVars>>
ExternalJobRefused(n) ==
    /\ At(n, "working") /\ IsExternal(Body(n)) /\ jobs[JobOf(n)] # "funded"
    /\ FailRun(n, 409)
    /\ UNCHANGED <<now, buckets, charged, remembered, restarts, remoteVars>>

\* The job is opened, or looks usable: purchase and adjudication are awaited.
Adopts(n) ==
    /\ At(n, "working")
    /\ IsExternal(Body(n)) => jobs[JobOf(n)] = "funded"
    /\ Goto(n, "adopted")
    /\ UNCHANGED <<now, buckets, charged, remembered, rows, restarts, mutexVars, remoteVars>>

\* Submission of the deliverable, skipped when an earlier run, or another case
\* with the same job, has sent it (tx_log), and the call of the verifier.
Submits(n) ==
    /\ At(n, "adopted")
    /\ jobs' = [jobs EXCEPT ![JobOf(n)] = IF @ = "funded" THEN "submitted" ELSE @]
    /\ calls' = [calls EXCEPT ![n].status = "open"]
    /\ Goto(n, "verifying")
    /\ UNCHANGED <<now, buckets, charged, remembered, rows, restarts, mutexVars, parked>>
VerifierAnswers(n) ==
    /\ At(n, "verifying") /\ Verifier!ReceiveAnswer(n, Body(n), JobOf(n))
    /\ Goto(n, "verified")
    /\ UNCHANGED <<now, buckets, charged, remembered, rows, restarts, mutexVars>>
VerifierUnreachable(n) ==
    /\ At(n, "verifying") /\ Verifier!CallFailed(n)
    /\ FailRun(n, 500)
    /\ UNCHANGED <<now, buckets, charged, remembered, restarts>>

Settles(n) ==
    /\ At(n, "verified")
    /\ \E m \in Verifier!FirstParked(JobOf(n)) :
        /\ req' = [req EXCEPT ![n].stage = "settled", ![n].action = parked[m].action]
        /\ Verifier!TakeParked(m)
    /\ UNCHANGED <<now, buckets, charged, remembered, rows, restarts, mutexVars>>
NothingToSettle(n) ==
    /\ At(n, "verified") /\ Verifier!FirstParked(JobOf(n)) = {}
    /\ FailRun(n, 500)
    /\ UNCHANGED <<now, buckets, charged, remembered, restarts, remoteVars>>

Succeeds(n) ==
    /\ At(n, "settled")
    /\ SetRow(n, "succeeded", req[n].action)
    /\ EndRun(n, 201, req[n].action)
    /\ UNCHANGED <<now, buckets, charged, remembered, restarts, remoteVars>>

-----------------------------------------------------------------------------
\* x402-server.ts: the answer passes the middleware again.  A charge whose
\* answer is an error is remembered; an error of the middleware itself, after
\* the handler ran, counts as one.
Remember(n) == remembered' = With(remembered, RetryKey(n), now + RetryWindow)
\* BUG: only an error of the middleware counts.
RespondUnremembered(n) ==
    /\ At(n, "responding")
    /\ Answer(n, req[n].status)
    /\ UNCHANGED <<now, buckets, charged, remembered, rows, restarts, mutexVars, remoteVars>>
Respond(n) ==
    /\ At(n, "responding")
    /\ \/ /\ Answer(n, req[n].status)
          /\ IF req[n].paid /\ req[n].status >= 500 THEN Remember(n) ELSE UNCHANGED remembered
       \/ req[n].paid /\ Answer(n, 500) /\ Remember(n)
    /\ UNCHANGED <<now, buckets, charged, rows, restarts, mutexVars, remoteVars>>

\* The process ends: requests in flight, turns, limiter, retry memory and parked
\* settlements are gone; a call the verifier has taken goes on there.
InFlight(n) == req[n].stage \notin {"unsent", "answered", "dropped"}
Restart ==
    /\ now + restarts < MaxUpsets /\ restarts' = restarts + 1
    /\ req' = [n \in Requests |->
                  IF InFlight(n) THEN [req[n] EXCEPT !.stage = "dropped"] ELSE req[n]]
    /\ buckets' = <<>> /\ remembered' = <<>> /\ parked' = <<>>
    /\ Mutex!ProcessLost
    /\ UNCHANGED <<now, charged, rows, jobs, calls>>

Tick == /\ now + restarts < MaxUpsets /\ now' = now + 1
        /\ UNCHANGED <<buckets, req, charged, remembered, rows, restarts, mutexVars, remoteVars>>

VerifierStep(n) ==
    /\ Verifier!ServeCall(n, JobOf(n), At(n, "verifying"))
    /\ UNCHANGED <<now, buckets, req, charged, remembered, rows, restarts, mutexVars>>

Gate(n) == GateExternal(n) \/ GateRetry(n) \/ GateCharge(n)
Charge(n) == FacilitatorPays(n) \/ FacilitatorRefuses(n)
Admission(n) == AdmissionRefused(n) \/ AdmissionReplay(n) \/ AdmissionRuns(n)
Verification(n) == VerifierAnswers(n) \/ VerifierUnreachable(n)
Settlement(n) == Settles(n) \/ NothingToSettle(n)
Working(n) == RunFails(n) \/ ExternalJobRefused(n) \/ Adopts(n) \/ Submits(n)
Serve(n) ==
    \/ At(n, "gate") /\ Gate(n)
    \/ At(n, "facilitator") /\ Charge(n)
    \/ At(n, "queued") /\ Turn(n)
    \/ At(n, "admission") /\ Admission(n)
    \/ Preparing(n) /\ Working(n)
    \/ At(n, "verifying") /\ Verification(n)
    \/ At(n, "verified") /\ Settlement(n)
    \/ At(n, "settled") /\ (Succeeds(n) \/ RunFails(n))
    \/ At(n, "responding") /\ Respond(n)

ServiceNext ==
    /\ UNCHANGED plan
    /\ \/ \E n \in Requests : Arrive(n) \/ Serve(n) \/ VerifierStep(n)
       \/ Restart \/ Tick
ServiceSpec == ServiceInit /\ [][ServiceNext]_serviceVars
\* The server's own steps are taken: every await ends, the call of the verifier
\* by its timeout.  Nothing is assumed of clients, time or the verifier.
ServiceFairSpec ==
    /\ ServiceSpec
    /\ \A n \in Requests : WF_serviceVars(Serve(n) /\ UNCHANGED plan)

-----------------------------------------------------------------------------
Stages == {"unsent", "gate", "facilitator", "queued", "admission", "working",
           "adopted", "verifying", "verified", "settled", "responding", "answered", "dropped"}

ServiceTypeOK ==
    /\ \A n \in Requests :
        /\ req[n].stage \in Stages /\ req[n].body \in DOMAIN Bodies \union {""}
        /\ req[n].status \in {0, 200, 201, 400, 402, 409, 429, 500, 502}
        /\ ~(req[n].paid /\ req[n].free)
        /\ phase[n] \in Mutex!Phase
    /\ Len(buckets) =< MaxBuckets
    /\ \A c \in Cases : rows[c].status \in {"none", "running", "failed", "succeeded"}
    /\ \A j \in Jobs : jobs[j] \in {"funded", "submitted", "completed", "rejected"}

\* A request for a case starts only when the ones before it have ended, also
\* when they end in an error (keyed-mutex.ts).
TurnsInOrder == Mutex!TurnsInOrder

\* What passes the gate without a charge has been charged before, with the same
\* credential and for the same body (paid-retry.ts).
FreeWasPaid ==
    \A n \in Requests : req[n].free =>
        req[n].cred \in DOMAIN charged /\ charged[req[n].cred].body = req[n].body

\* Nothing is charged that the handler would refuse for its shape, and nothing
\* that is paid by a job on chain (app.ts).
ChargedIsServable ==
    \A cred \in DOMAIN charged :
        LET raw == Bodies[charged[cred].body].raw IN
        /\ DealIssues(raw) = {} /\ SettlementIssues(raw.settlement) = {}
        /\ raw.expires_at = "ok" /\ raw.job_id = "absent"

\* A charge is never for nothing: its request is on its way, or its case has
\* succeeded and GET shows it, or the same request passes free of charge;
\* unless the process restarted or the retry window has passed.
PaidIsRecoverable ==
    \A cred \in DOMAIN charged :
        LET paid == charged[cred]
            body == Bodies[paid.body]
            row == rows[body.case]
        IN \/ \E n \in Requests : InFlight(n) /\ req[n].paid /\ req[n].cred = cred
           \/ row.status = "succeeded" /\ row.variant = body.variant
           \/ Remembers(<<cred, paid.body>>)
           \/ paid.epoch # restarts
           \/ now >= paid.at + RetryWindow

\* What a run answers, replays included, is what the verifier did with its job,
\* not what it did with another one (verify-client.ts).
AnswerIsTheSettlement ==
    \A n \in Requests : At(n, "answered") /\ req[n].status \in {200, 201} =>
        req[n].action \in Verifier!Action
        /\ jobs[JobOf(n)] = Verifier!EndState[req[n].action]

\* When no request is in flight nothing is left of them in memory: no parked
\* settlement that a later one could take, no key in the mutex.
NothingLeftBehind ==
    (\A n \in Requests : ~InFlight(n)) =>
        parked = <<>> /\ \A c \in Cases : tails[c] = NoRequest

\* A client's count is dropped inside its window only for want of room: a new
\* client came, the map was full, and no bucket had expired (rate-limit.ts).
EvictsOnlyWhenFull ==
    [][\A b \in ToSet(buckets) :
        ~Expired(b, now) /\ ~HasBucket(buckets', b.key) /\ restarts' = restarts =>
            /\ Len(buckets) = MaxBuckets
            /\ \E new \in ToSet(buckets') : ~HasBucket(buckets, new.key)
            /\ \A other \in ToSet(buckets) : ~Expired(other, now)]_serviceVars

\* Every request that comes past the limiter is answered, however its
\* predecessors of the same case end, unless the process ends first.
EveryRequestEnds ==
    \A n \in Requests : At(n, "gate") ~> req[n].stage \in {"answered", "dropped"}
=============================================================================
