--------------------------- MODULE RemoteVerifier ---------------------------
(***************************************************************************)
(* Verify and settle in one call to another process.  The client makes two *)
(* ports of it: verify sends the call and parks the settlement that comes  *)
(* back, settle takes it out again.                                        *)
(***************************************************************************)
EXTENDS Naturals, Sequences, SequencesExt

CONSTANTS VCalls, Jobs

VARIABLES
    jobs,       \* the state of each job on chain
    calls,      \* calls[n]: the verifier's side of a call
    parked      \* settledBySaHash in insertion order: [sa, job, action]
remoteVars == <<jobs, calls, parked>>

Action == {"complete", "reject"}
NoCall == [status |-> "none", action |-> "none"]
EndState == [complete |-> "completed", reject |-> "rejected"]

RemoteInit ==
    /\ jobs = [j \in Jobs |-> "funded"]
    /\ calls = [n \in VCalls |-> NoCall]
    /\ parked = <<>>

\* verifier-app.ts: the checks, whatever they find, then the settlement; a job
\* that is not submitted any more makes it an error.  A call that does not get
\* as far (no token, no JSON, too many of them) stays open: to the client it is
\* one that failed.
ServeCall(n, job, awaited) ==
    /\ calls[n].status = "open"
    /\ \E action \in Action :
        /\ jobs' = IF jobs[job] = "submitted" THEN [jobs EXCEPT ![job] = EndState[action]]
                                              ELSE jobs
        /\ calls' = [calls EXCEPT ![n] =
              IF awaited /\ jobs[job] = "submitted"
              THEN [status |-> "answered", action |-> action]
              ELSE NoCall]
    /\ UNCHANGED parked

\* Map.set: a hash that is there already keeps its place.
Park(entries, entry) ==
    IF \E e \in ToSet(entries) : e.sa = entry.sa
    THEN [m \in DOMAIN entries |-> IF entries[m].sa = entry.sa THEN entry ELSE entries[m]]
    ELSE Append(entries, entry)

ReceiveAnswer(n, sa, job) ==
    /\ calls[n].status = "answered"
    /\ parked' = Park(parked, [sa |-> sa, job |-> job, action |-> calls[n].action])
    /\ calls' = [calls EXCEPT ![n] = NoCall]
    /\ UNCHANGED jobs

\* An error comes back, or AbortSignal.timeout ends the wait: the verifier does
\* not notice, and may settle later.
CallFailed(n) ==
    /\ calls' = IF calls[n].status = "open" THEN calls ELSE [calls EXCEPT ![n] = NoCall]
    /\ UNCHANGED <<jobs, parked>>

\* settle: the first entry of the job.
\* BUG: the first entry, whatever its job.
FirstParkedAny(job) == {m \in DOMAIN parked : m = 1}
FirstParked(job) ==
    {m \in DOMAIN parked : parked[m].job = job /\ \A l \in 1..m - 1 : parked[l].job # job}

\* BUG: the entry stays.
TakeParkedKeeping(m) == UNCHANGED <<jobs, calls, parked>>
TakeParked(m) == parked' = RemoveAt(parked, m) /\ UNCHANGED <<jobs, calls>>
=============================================================================
