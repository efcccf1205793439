-------------------------- MODULE CaseServiceProofs --------------------------
(***************************************************************************)
(* Theorems about the service, for any number of requests, bodies, plans   *)
(* and cases.  Its turns are KeyedMutex's: every step of the service is a  *)
(* step of the mutex or leaves it alone.  What passes free and what may be *)
(* charged follow from what the gate keeps about a request on its way.     *)
(***************************************************************************)
EXTENDS CaseService, FiniteSetTheorems, TLAPS

Turns == INSTANCE KeyedMutexProofs
    WITH Callers <- Requests, Keys <- Cases, NoCaller <- NoRequest

\* A run on its way to the submission.
USE DEF Preparing

Shape ==
    /\ plan \in Plans
    /\ DOMAIN req = Requests
    /\ \A n \in Requests : DOMAIN req[n] = DOMAIN Unsent

\* A request that has arrived has a body there is; at the gate it has passed
\* the check, and at the facilitator it names no job.
Accepted ==
    \A n \in Requests :
        /\ ~At(n, "unsent") => req[n].body \in DOMAIN Bodies
        /\ req[n].stage \in {"gate", "facilitator"} => ParseCaseRequest(Body(n).raw).ok
        /\ At(n, "facilitator") => ~IsExternal(Body(n))

\* Whoever has paid was charged for what it asks.
PaidWasCharged ==
    \A n \in Requests : req[n].paid =>
        req[n].cred \in DOMAIN charged /\ charged[req[n].cred].body = req[n].body
\* What is remembered was charged.
RememberedWasCharged ==
    \A key \in DOMAIN remembered :
        \E cred \in DOMAIN charged : key = <<cred, charged[cred].body>>
ChargedBodies ==
    \A cred \in DOMAIN charged : charged[cred].body \in DOMAIN Bodies

ServiceInv ==
    /\ Shape /\ Accepted /\ PaidWasCharged /\ RememberedWasCharged /\ ChargedBodies
    /\ FreeWasPaid /\ ChargedIsServable

\* A step that keeps who a request is and what it has paid; it may move it on
\* behind the gate, and remember the key of a request that has paid.
Later ==
    /\ UNCHANGED <<plan, charged>>
    /\ DOMAIN req' = Requests
    /\ \A n \in Requests :
        /\ DOMAIN req'[n] = DOMAIN Unsent
        /\ req'[n].body = req[n].body /\ req'[n].cred = req[n].cred
        /\ req'[n].paid = req[n].paid /\ req'[n].free = req[n].free
        /\ \/ req'[n].stage = req[n].stage
           \/ ~At(n, "unsent") /\ req'[n].stage \notin {"unsent", "gate", "facilitator"}
    /\ \A key \in DOMAIN remembered' :
        key \in DOMAIN remembered \/ \E n \in Requests : req[n].paid /\ key = RetryKey(n)

LEMMA LaterKeeps == ServiceInv /\ Later => ServiceInv'
  <1> SUFFICES ASSUME ServiceInv, Later PROVE ServiceInv'
    OBVIOUS
  <1>1. Shape'
    BY DEF ServiceInv, Shape, Later
  <1>2. Accepted'
    BY DEF ServiceInv, Accepted, Later, At, Body, IsExternal
  <1>3. PaidWasCharged' /\ FreeWasPaid'
    BY DEF ServiceInv, PaidWasCharged, FreeWasPaid, Later
  <1>4. RememberedWasCharged'
    BY DEF ServiceInv, PaidWasCharged, RememberedWasCharged, Later, RetryKey
  <1>5. ChargedBodies' /\ ChargedIsServable'
    BY DEF ServiceInv, ChargedBodies, ChargedIsServable, Later
  <1> QED BY <1>1, <1>2, <1>3, <1>4, <1>5 DEF ServiceInv

\* Every step behind the gate is one of those.
LEMMA GotoIsLater ==
  ASSUME Shape, NEW n \in Requests, ~At(n, "unsent"),
         UNCHANGED <<plan, charged, remembered>>,
         NEW s \in Stages \ {"unsent", "gate", "facilitator"},
         NEW t, NEW a, \/ Goto(n, s)
                       \/ req' = [req EXCEPT ![n].stage = s, ![n].status = t]
                       \/ req' = [req EXCEPT ![n].stage = s, ![n].action = a]
                       \/ req' = [req EXCEPT ![n].stage = s, ![n].status = t, ![n].action = a]
  PROVE  Later
  BY DEF Shape, Later, Goto, At, Unsent

\* The end of a run gives the answer to its way back.
LEMMA EndRunIsLater ==
  ASSUME Shape, NEW n \in Requests, ~At(n, "unsent"),
         UNCHANGED <<plan, charged, remembered>>, NEW t, NEW a, EndRun(n, t, a)
  PROVE  Later
  BY DEF Shape, Later, EndRun, At, Unsent

LEMMA BehindTheGate ==
  ASSUME Shape, UNCHANGED plan, NEW n \in Requests,
         \/ At(n, "facilitator") /\ FacilitatorRefuses(n)
         \/ At(n, "queued") /\ Turn(n)
         \/ At(n, "admission") /\ Admission(n)
         \/ Preparing(n) /\ Working(n)
         \/ At(n, "verifying") /\ Verification(n)
         \/ At(n, "verified") /\ Settlement(n)
         \/ At(n, "settled") /\ (Succeeds(n) \/ RunFails(n))
         \/ At(n, "responding") /\ Respond(n)
  PROVE  Later
  <1>1. ~At(n, "unsent")
    BY DEF At
  <1> USE DEF Stages
  <1>2. CASE FacilitatorRefuses(n)
    BY <1>1, <1>2 DEF FacilitatorRefuses, Answer, Shape, Later, At, Unsent
  <1>3. CASE Turn(n)
    BY <1>1, <1>3 DEF Turn, Goto, Shape, Later, At, Unsent
  <1>4. CASE Admission(n)
    <2>1. CASE AdmissionRuns(n)
      BY <1>1, <2>1 DEF AdmissionRuns, Goto, Shape, Later, At, Unsent
    <2>2. CASE AdmissionRefused(n)
      BY <1>1, <2>2, EndRunIsLater DEF AdmissionRefused
    <2>3. CASE AdmissionReplay(n)
      BY <1>1, <2>3, EndRunIsLater DEF AdmissionReplay
    <2> QED BY <1>4, <2>1, <2>2, <2>3 DEF Admission
  <1>5. CASE Working(n)
    <2>1. CASE Adopts(n) \/ Submits(n)
      BY <1>1, <2>1 DEF Adopts, Submits, Goto, Shape, Later, At, Unsent
    <2>2. CASE RunFails(n)
      BY <1>1, <2>2, EndRunIsLater DEF RunFails, FailRun
    <2>3. CASE ExternalJobRefused(n)
      BY <1>1, <2>3, EndRunIsLater DEF ExternalJobRefused, FailRun
    <2> QED BY <1>5, <2>1, <2>2, <2>3 DEF Working
  <1>6. CASE Verification(n)
    <2>1. CASE VerifierAnswers(n)
      BY <1>1, <2>1 DEF VerifierAnswers, Goto, Shape, Later, At, Unsent
    <2>2. CASE VerifierUnreachable(n)
      BY <1>1, <2>2, EndRunIsLater DEF VerifierUnreachable, FailRun
    <2> QED BY <1>6, <2>1, <2>2 DEF Verification
  <1>7. CASE Settlement(n)
    <2>1. CASE Settles(n)
      BY <1>1, <2>1 DEF Settles, Shape, Later, At, Unsent
    <2>2. CASE NothingToSettle(n)
      BY <1>1, <2>2, EndRunIsLater DEF NothingToSettle, FailRun
    <2> QED BY <1>7, <2>1, <2>2 DEF Settlement
  <1>8. CASE Succeeds(n)
    BY <1>1, <1>8, EndRunIsLater DEF Succeeds
  <1>9. CASE RunFails(n)
    BY <1>1, <1>9, EndRunIsLater DEF RunFails, FailRun
  <1>10. CASE Respond(n)
    BY <1>1, <1>10 DEF Respond, Answer, Remember, With, Shape, Later, At, Unsent
  <1> QED BY <1>2, <1>3, <1>4, <1>5, <1>6, <1>7, <1>8, <1>9, <1>10

LEMMA OthersAreLater ==
  ASSUME Shape, UNCHANGED plan,
         Restart \/ Tick \/ \E n \in Requests : VerifierStep(n)
  PROVE  Later
  <1>1. CASE Restart
    BY <1>1 DEF Restart, InFlight, Shape, Later, At, Unsent
  <1>2. CASE Tick \/ \E n \in Requests : VerifierStep(n)
    BY <1>2 DEF Tick, VerifierStep, Shape, Later, At
  <1> QED BY <1>1, <1>2

\* A request that arrives has neither paid nor passed.
LEMMA ArriveKeeps ==
  ASSUME ServiceAssumption, ServiceInv, UNCHANGED plan, NEW n \in Requests, Arrive(n)
  PROVE  ServiceInv'
  <1>1. plan[n].body \in DOMAIN Bodies
    BY DEF ServiceAssumption, ServiceInv, Shape
  <1>2. /\ req'[n].body = plan[n].body /\ ~req'[n].paid /\ ~req'[n].free
        /\ DOMAIN req'[n] = DOMAIN Unsent /\ req'[n].stage \in {"gate", "answered"}
        /\ req'[n].stage = "gate" => ParseCaseRequest(Bodies[plan[n].body].raw).ok
    BY SMTT(30) DEF Arrive, Precheck, ServiceInv, Shape, Unsent
  <1>3. DOMAIN req' = Requests /\ \A m \in Requests \ {n} : req'[m] = req[m]
    BY DEF Arrive, ServiceInv, Shape
  <1>4. UNCHANGED <<charged, remembered>>
    BY DEF Arrive
  <1>5. Shape' /\ Accepted'
    BY <1>1, <1>2, <1>3 DEF ServiceInv, Shape, Accepted, At, Body, IsExternal
  <1>6. PaidWasCharged' /\ FreeWasPaid'
    BY <1>2, <1>3, <1>4 DEF ServiceInv, PaidWasCharged, FreeWasPaid
  <1>7. RememberedWasCharged' /\ ChargedBodies' /\ ChargedIsServable'
    BY <1>4 DEF ServiceInv, RememberedWasCharged, ChargedBodies, ChargedIsServable
  <1> QED BY <1>5, <1>6, <1>7 DEF ServiceInv

LEMMA GateKeeps ==
  ASSUME ServiceInv, UNCHANGED plan, NEW n \in Requests, Gate(n)
  PROVE  ServiceInv'
  <1>1. /\ At(n, "gate") /\ UNCHANGED charged
        /\ DOMAIN remembered' \subseteq DOMAIN remembered
        /\ DOMAIN req' = Requests /\ \A m \in Requests \ {n} : req'[m] = req[m]
        /\ DOMAIN req'[n] = DOMAIN Unsent
        /\ req'[n].body = req[n].body /\ req'[n].cred = req[n].cred
    BY DEF Gate, GateExternal, GateRetry, GateCharge, ToHandler, Goto, Restrict,
           ServiceInv, Shape, Unsent
  <1>2. \/ req'[n].stage = "queued" /\ ~req'[n].paid
           /\ (req'[n].free => RetryKey(n) \in DOMAIN remembered)
        \/ /\ req'[n].stage = "facilitator" /\ ~IsExternal(Body(n))
           /\ req'[n].paid = req[n].paid /\ req'[n].free = req[n].free
    BY DEF Gate, GateExternal, GateRetry, GateCharge, ToHandler, Goto, Remembers,
           ServiceInv, Shape, Unsent
  <1>3. Shape' /\ Accepted'
    BY <1>1, <1>2 DEF ServiceInv, Shape, Accepted, At, Body, IsExternal
  <1>4. PaidWasCharged'
    BY <1>1, <1>2 DEF ServiceInv, PaidWasCharged
  <1>5. FreeWasPaid'
    BY <1>1, <1>2 DEF ServiceInv, RememberedWasCharged, FreeWasPaid, RetryKey
  <1>6. RememberedWasCharged' /\ ChargedBodies' /\ ChargedIsServable'
    BY <1>1 DEF ServiceInv, RememberedWasCharged, ChargedBodies, ChargedIsServable
  <1> QED BY <1>3, <1>4, <1>5, <1>6 DEF ServiceInv

\* What the shape check lets through and names no job.
LEMMA AcceptedIsServable ==
  ASSUME NEW raw, ParseCaseRequest(raw).ok
  PROVE  /\ DealIssues(raw) = {} /\ SettlementIssues(raw.settlement) = {}
         /\ raw.expires_at = "ok" /\ raw.job_id # "bad"
         /\ raw.job_id \in Field \ {"ok"} => raw.job_id = "absent"
  <1>1. DealIssues(raw) = {} /\ SettlementIssues(raw.settlement) = {}
    BY DEF ParseCaseRequest
  <1>2. {f \in {"expires_at", "job_id"} :
            \/ f = "expires_at" /\ raw[f] # "ok"
            \/ f = "job_id" /\ raw[f] = "bad"} = {}
    BY DEF ParseCaseRequest
  <1>3. raw.expires_at = "ok" /\ raw.job_id # "bad"
    BY <1>2
  <1> QED BY <1>1, <1>3 DEF Field

\* A credential pays once, so that what it paid for stays what it paid for.
LEMMA FacilitatorPaysKeeps ==
  ASSUME ServiceAssumption, ServiceInv, UNCHANGED plan, NEW n \in Requests, FacilitatorPays(n)
  PROVE  ServiceInv'
  <1>1. /\ At(n, "facilitator") /\ UNCHANGED remembered
        /\ req[n].cred \notin DOMAIN charged
        /\ DOMAIN charged' = DOMAIN charged \cup {req[n].cred}
        /\ charged'[req[n].cred].body = req[n].body
        /\ \A cred \in DOMAIN charged : charged'[cred] = charged[cred]
    BY DEF FacilitatorPays, With
  <1>2. /\ DOMAIN req' = Requests /\ \A m \in Requests \ {n} : req'[m] = req[m]
        /\ DOMAIN req'[n] = DOMAIN Unsent /\ req'[n].stage = "queued"
        /\ req'[n].body = req[n].body /\ req'[n].cred = req[n].cred /\ ~req'[n].free
    BY DEF FacilitatorPays, ToHandler, ServiceInv, Shape, Unsent
  <1>3. Shape' /\ Accepted'
    BY <1>1, <1>2 DEF ServiceInv, Shape, Accepted, At, Body, IsExternal
  <1>4. PaidWasCharged' /\ FreeWasPaid'
    BY <1>1, <1>2 DEF ServiceInv, PaidWasCharged, FreeWasPaid
  <1>5. RememberedWasCharged'
    BY <1>1 DEF ServiceInv, RememberedWasCharged
  <1>6. /\ req[n].body \in DOMAIN Bodies
        /\ ParseCaseRequest(Bodies[req[n].body].raw).ok
        /\ Bodies[req[n].body].raw.job_id \notin {"ok", "bad"}
    <2>1. ParseCaseRequest(Bodies[req[n].body].raw).ok
      BY <1>1 DEF ServiceInv, Accepted, At, Body
    <2> QED BY <1>1, <2>1, AcceptedIsServable DEF ServiceInv, Accepted, At, Body, IsExternal
  <1>7. /\ DealIssues(Bodies[req[n].body].raw) = {}
        /\ SettlementIssues(Bodies[req[n].body].raw.settlement) = {}
        /\ Bodies[req[n].body].raw.expires_at = "ok"
        /\ Bodies[req[n].body].raw.job_id = "absent"
    BY <1>6, AcceptedIsServable DEF ServiceAssumption
  <1>8. ChargedBodies'
    BY <1>1, <1>6 DEF ServiceInv, ChargedBodies
  <1>9. ChargedIsServable'
    BY <1>1, <1>7 DEF ServiceInv, ChargedIsServable
  <1> QED BY <1>3, <1>4, <1>5, <1>8, <1>9 DEF ServiceInv

LEMMA ServiceStarts == ServiceInit => ServiceInv
  <1> SUFFICES ASSUME ServiceInit PROVE ServiceInv
    OBVIOUS
  <1>1. \A n \in Requests : req[n].stage = "unsent" /\ ~req[n].paid /\ ~req[n].free
    BY DEF ServiceInit, Unsent
  <1>2. Shape /\ Accepted /\ PaidWasCharged /\ FreeWasPaid
    BY <1>1 DEF ServiceInit, Shape, Accepted, PaidWasCharged, FreeWasPaid, At
  <1>3. DOMAIN charged = {} /\ DOMAIN remembered = {}
    BY DEF ServiceInit
  <1>4. RememberedWasCharged /\ ChargedBodies /\ ChargedIsServable
    BY <1>3 DEF RememberedWasCharged, ChargedBodies, ChargedIsServable
  <1> QED BY <1>2, <1>4 DEF ServiceInv

LEMMA ServiceStep ==
  ServiceAssumption /\ ServiceInv /\ [ServiceNext]_serviceVars => ServiceInv'
  <1> SUFFICES ASSUME ServiceAssumption, ServiceInv, [ServiceNext]_serviceVars PROVE ServiceInv'
    OBVIOUS
  <1>1. CASE UNCHANGED serviceVars
    BY <1>1 DEF serviceVars, ServiceInv, Shape, Accepted, PaidWasCharged, RememberedWasCharged,
                ChargedBodies, FreeWasPaid, ChargedIsServable, At, Body, IsExternal
  <1>2. ASSUME NEW n \in Requests, UNCHANGED plan, Arrive(n) PROVE ServiceInv'
    BY <1>2, ArriveKeeps
  <1>3. ASSUME NEW n \in Requests, UNCHANGED plan, Serve(n) PROVE ServiceInv'
    <2>1. CASE Gate(n)
      BY <1>3, <2>1, GateKeeps
    <2>2. CASE FacilitatorPays(n)
      BY <1>3, <2>2, FacilitatorPaysKeeps
    <2>3. CASE ~Gate(n) /\ ~FacilitatorPays(n)
      <3>1. Later
        BY <1>3, <2>3, BehindTheGate DEF Serve, Charge, ServiceInv
      <3> QED BY <3>1, LaterKeeps
    <2> QED BY <2>1, <2>2, <2>3
  <1>4. ASSUME UNCHANGED plan, Restart \/ Tick \/ \E n \in Requests : VerifierStep(n)
        PROVE ServiceInv'
    BY <1>4, OthersAreLater, LaterKeeps DEF ServiceInv
  <1> QED BY <1>1, <1>2, <1>3, <1>4 DEF ServiceNext

LEMMA AlwaysServiceInv == ServiceSpec => []ServiceInv
  BY ServiceAssumption, ServiceStarts, ServiceStep, PTL DEF ServiceSpec

-----------------------------------------------------------------------------
(* The turns *)

\* Each step of a request is a step of the mutex, for a case there is, or
\* leaves it alone.
LEMMA ServeTakesTurns ==
  ASSUME ServiceAssumption, ServiceInv, NEW n \in Requests, Serve(n)
  PROVE  [Mutex!MutexNext]_mutexVars
  <1>1. ~At(n, "unsent") => CaseOf(n) \in Cases
    BY DEF ServiceAssumption, ServiceInv, Accepted, CaseOf, Body
  <1>2. ASSUME NEW paid, NEW free, ~At(n, "unsent"), ToHandler(n, paid, free)
        PROVE  Mutex!MutexNext
    BY <1>1, <1>2 DEF ToHandler, Mutex!MutexNext
  <1>3. ASSUME NEW status, NEW action, EndRun(n, status, action) PROVE Mutex!MutexNext
    BY <1>3 DEF EndRun, Mutex!MutexNext
  <1>4. CASE At(n, "gate") /\ Gate(n)
    BY <1>2, <1>4 DEF Gate, GateExternal, GateRetry, GateCharge, At, mutexVars
  <1>5. CASE At(n, "facilitator") /\ Charge(n)
    BY <1>2, <1>5 DEF Charge, FacilitatorPays, FacilitatorRefuses, At, mutexVars
  <1>6. CASE Turn(n)
    BY <1>6 DEF Turn, Mutex!MutexNext
  <1>7. CASE Admission(n)
    BY <1>3, <1>7 DEF Admission, AdmissionRefused, AdmissionReplay, AdmissionRuns, mutexVars
  <1>8. CASE Working(n)
    BY <1>3, <1>8 DEF Working, RunFails, ExternalJobRefused, Adopts, Submits, FailRun, mutexVars
  <1>9. CASE Verification(n)
    BY <1>3, <1>9 DEF Verification, VerifierAnswers, VerifierUnreachable, FailRun, mutexVars
  <1>10. CASE Settlement(n)
    BY <1>3, <1>10 DEF Settlement, Settles, NothingToSettle, FailRun, mutexVars
  <1>11. CASE Succeeds(n) \/ RunFails(n)
    BY <1>3, <1>11 DEF Succeeds, RunFails, FailRun
  <1>12. CASE Respond(n)
    BY <1>12 DEF Respond, mutexVars
  <1> QED BY <1>4, <1>5, <1>6, <1>7, <1>8, <1>9, <1>10, <1>11, <1>12 DEF Serve

LEMMA ServiceTakesTurns ==
  ServiceAssumption /\ ServiceInv /\ [ServiceNext]_serviceVars => [Mutex!MutexNext]_mutexVars
  <1> SUFFICES ASSUME ServiceAssumption, ServiceInv, [ServiceNext]_serviceVars
               PROVE  [Mutex!MutexNext]_mutexVars
    OBVIOUS
  <1>1. CASE UNCHANGED serviceVars
    BY <1>1 DEF serviceVars, mutexVars
  <1>2. ASSUME NEW n \in Requests, Arrive(n) \/ VerifierStep(n)
        PROVE  [Mutex!MutexNext]_mutexVars
    BY <1>2 DEF Arrive, VerifierStep, mutexVars
  <1>3. ASSUME NEW n \in Requests, Serve(n) PROVE [Mutex!MutexNext]_mutexVars
    BY <1>3, ServeTakesTurns
  <1>4. CASE Restart
    BY <1>4 DEF Restart, Mutex!MutexNext
  <1>5. CASE Tick
    BY <1>5 DEF Tick, mutexVars
  <1> QED BY <1>1, <1>2, <1>3, <1>4, <1>5 DEF ServiceNext

\* The mutex of the service is KeyedMutex: what holds of the promise chain for
\* any callers and keys holds of requests and cases (keyed-mutex.ts, run-case.ts).
THEOREM ServiceRefinesMutex == ServiceSpec => Mutex!MutexSpec
  <1>1. ServiceInit => Mutex!MutexInit
    BY DEF ServiceInit
  <1>2. ServiceAssumption /\ ServiceInv /\ [ServiceNext]_serviceVars
            => [Mutex!MutexNext]_(Mutex!mutexVars)
    BY ServiceTakesTurns DEF mutexVars, Mutex!mutexVars
  <1> QED BY <1>1, <1>2, ServiceAssumption, AlwaysServiceInv, PTL DEF ServiceSpec, Mutex!MutexSpec

\* A request for a case starts only when all that came before it for the same
\* case have ended, however they ended and whenever the process restarts.
THEOREM ServiceTurnsInOrder == ServiceSpec => []TurnsInOrder
  <1>1. Turns!MutexParameters
    BY DEF Turns!MutexParameters, Requests, NoRequest
  <1>2. Mutex!MutexSpec => Turns!MutexSpec
    <2>1. Mutex!MutexInit => Turns!MutexInit
      BY DEF Mutex!MutexInit, Turns!MutexInit
    <2>2. [Mutex!MutexNext]_(Mutex!mutexVars) => [Turns!MutexNext]_(Turns!mutexVars)
      BY DEF Mutex!MutexNext, Mutex!Enqueue, Mutex!Enter, Mutex!MayEnter, Mutex!Release,
             Mutex!ProcessLost, Mutex!mutexVars, Turns!MutexNext, Turns!Enqueue, Turns!Enter,
             Turns!MayEnter, Turns!Release, Turns!ProcessLost, Turns!mutexVars
    <2> QED BY <2>1, <2>2, PTL DEF Mutex!MutexSpec, Turns!MutexSpec
  <1>3. Turns!TurnsInOrder => TurnsInOrder
    BY DEF TurnsInOrder, Turns!TurnsInOrder, Mutex!TurnsInOrder
  <1> QED BY <1>1, <1>2, <1>3, ServiceRefinesMutex, Turns!MutexOrder, PTL

\* What passes the gate without a charge was charged for the same body, with
\* the same credential (paid-retry.ts).
THEOREM AlwaysFreeWasPaid == ServiceSpec => []FreeWasPaid
  BY AlwaysServiceInv, PTL DEF ServiceInv

\* Nothing is charged that the handler would refuse for its shape, and nothing
\* that names a job on chain (app.ts).
THEOREM AlwaysChargedIsServable == ServiceSpec => []ChargedIsServable
  BY AlwaysServiceInv, PTL DEF ServiceInv

----------------------------------------------------------------------------
(***************************************************************************)
(* What a request is answered is the settlement of its own job, for any    *)
(* number of requests, bodies, plans, cases and restarts.  The settlement  *)
(* is followed on its way: call, parked entry, run, row, answer (CallsRight*)
(* to RowsRight); what makes each stage last is that a settled job stays   *)
(* as it is.                                                               *)
(***************************************************************************)

\* What a step of a request leaves alone.
LEMMA ServeFrame ==
  ASSUME Shape, UNCHANGED plan, NEW n \in Requests, Serve(n)
  PROVE  /\ UNCHANGED <<now, restarts>>
         /\ ~At(n, "unsent")
         /\ \A m \in Requests : req'[m].body = req[m].body /\ req'[m].cred = req[m].cred
         /\ \A m \in Requests \ {n} : req'[m] = req[m]
         /\ req'[n].stage # "unsent"
  <1>1. CASE At(n, "gate") /\ Gate(n)
    BY <1>1 DEF Shape, Gate, GateExternal, GateRetry, GateCharge, ToHandler, Goto, At, Unsent
  <1>2. CASE At(n, "facilitator") /\ Charge(n)
    BY <1>2 DEF Shape, Charge, FacilitatorPays, FacilitatorRefuses, ToHandler, Answer, At, Unsent
  <1>3. CASE At(n, "queued") /\ Turn(n)
    BY <1>3 DEF Shape, Turn, Goto, At, Unsent
  <1>4. CASE At(n, "admission") /\ Admission(n)
    BY <1>4 DEF Shape, Admission, AdmissionRefused, AdmissionReplay, AdmissionRuns, EndRun, Goto,
                At, Unsent
  <1>5. CASE Preparing(n) /\ Working(n)
    BY <1>5 DEF Shape, Working, RunFails, ExternalJobRefused, Adopts, Submits, FailRun, EndRun,
                Goto, At, Unsent
  <1>6. CASE At(n, "verifying") /\ Verification(n)
    BY <1>6 DEF Shape, Verification, VerifierAnswers, VerifierUnreachable, FailRun, EndRun, Goto,
                At, Unsent
  <1>7. CASE At(n, "verified") /\ Settlement(n)
    BY <1>7 DEF Shape, Settlement, Settles, NothingToSettle, FailRun, EndRun, At, Unsent
  <1>8. CASE At(n, "settled") /\ (Succeeds(n) \/ RunFails(n))
    BY <1>8 DEF Shape, Succeeds, RunFails, FailRun, EndRun, At, Unsent
  <1>9. CASE At(n, "responding") /\ Respond(n)
    BY <1>9 DEF Shape, Respond, Answer, At, Unsent
  <1> QED BY <1>1, <1>2, <1>3, <1>4, <1>5, <1>6, <1>7, <1>8, <1>9 DEF Serve

-----------------------------------------------------------------------------
(* The settlement *)

\* What the verifier did with the job.
SettledAs(job, action) ==
    action \in Verifier!Action /\ jobs[job] = Verifier!EndState[action]

Parkings == [sa : {Bodies[b] : b \in DOMAIN Bodies}, job : Jobs, action : Verifier!Action]
RemoteShape ==
    /\ DOMAIN jobs = Jobs
    /\ DOMAIN calls = Requests /\ \A n \in Requests : DOMAIN calls[n] = {"status", "action"}
    /\ parked \in Seq(Parkings)
    /\ DOMAIN rows = Cases

NoCallYet == \A n \in Requests : At(n, "unsent") => calls[n].status = "none"
CallsRight ==
    \A n \in Requests : calls[n].status = "answered" => SettledAs(JobOf(n), calls[n].action)
ParkedRight == \A m \in DOMAIN parked : SettledAs(parked[m].job, parked[m].action)
RunsRight ==
    \A n \in Requests :
        \/ At(n, "settled")
        \/ req[n].stage \in {"responding", "answered"} /\ req[n].status \in {200, 201}
        => SettledAs(JobOf(n), req[n].action)
RowsRight ==
    \A c \in Cases, b \in DOMAIN Bodies :
        rows[c].status = "succeeded" /\ Bodies[b].case = c /\ Bodies[b].variant = rows[c].variant
            => SettledAs(BodyJob(Bodies[b]), rows[c].action)

SettlementInv ==
    /\ ServiceInv /\ RemoteShape
    /\ NoCallYet /\ CallsRight /\ ParkedRight /\ RunsRight /\ RowsRight

\* A settled job stays as it is.
JobsSettle ==
    /\ DOMAIN jobs' = Jobs
    /\ \A j \in Jobs : jobs[j] \notin {"funded", "submitted"} => jobs'[j] = jobs[j]
LEMMA SettledStays ==
  ASSUME JobsSettle
  PROVE  \A j \in Jobs, a \in Verifier!Action :
            jobs[j] = Verifier!EndState[a] => jobs'[j] = Verifier!EndState[a]
  BY DEF JobsSettle, Verifier!Action, Verifier!EndState

LEMMA ParkedJobs == RemoteShape => \A m \in DOMAIN parked : parked[m].job \in Jobs
  <1> SUFFICES ASSUME RemoteShape, NEW m \in DOMAIN parked PROVE parked[m].job \in Jobs
    OBVIOUS
  <1>1. parked[m] \in Parkings
    BY DEF RemoteShape
  <1> QED BY <1>1 DEF Parkings

LEMMA BodiesHaveJobs ==
  ASSUME ServiceAssumption, ServiceInv
  PROVE  /\ \A b \in DOMAIN Bodies : BodyJob(Bodies[b]) \in Jobs
         /\ \A n \in Requests : ~At(n, "unsent") =>
                Body(n) \in {Bodies[b] : b \in DOMAIN Bodies} /\ JobOf(n) \in Jobs
  BY DEF ServiceAssumption, ServiceInv, Accepted, BodyJob, JobOf, Body, Jobs

\* An entry parked for a call's answer, or taken out again.
LEMMA ParkKeeps ==
  ASSUME ParkedRight, parked \in Seq(Parkings), NEW e \in Parkings, SettledAs(e.job, e.action),
         UNCHANGED jobs, parked' = Verifier!Park(parked, e)
  PROVE  ParkedRight' /\ parked' \in Seq(Parkings)
  BY DEF ParkedRight, SettledAs, Verifier!Park

LEMMA RemoveAtShifts ==
  ASSUME NEW S, NEW s \in Seq(S), NEW m \in DOMAIN s
  PROVE  /\ RemoveAt(s, m) \in Seq(S) /\ Len(RemoveAt(s, m)) = Len(s) - 1
         /\ \A k \in 1..Len(s) - 1 : RemoveAt(s, m)[k] = s[IF k < m THEN k ELSE k + 1]
  <1> DEFINE front == SubSeq(s, 1, m - 1)
             back == SubSeq(s, m + 1, Len(s))
             t == RemoveAt(s, m)
  <1>1. m \in 1..Len(s) /\ Len(s) \in Nat
    OBVIOUS
  <1>2. /\ front \in Seq(S) /\ Len(front) = m - 1
        /\ \A i \in 1..m - 1 : front[i] = s[i]
    BY <1>1
  <1>3. /\ back \in Seq(S) /\ Len(back) = Len(s) - m
        /\ \A i \in 1..Len(s) - m : back[i] = s[i + m]
    BY <1>1
  <1>4. t = front \o back
    BY DEF RemoveAt
  <1> HIDE DEF front, back, t
  <1>5. t \in Seq(S) /\ Len(t) = Len(s) - 1
    BY <1>1, <1>2, <1>3, <1>4
  <1>6. ASSUME NEW k \in 1..Len(s) - 1 PROVE t[k] = s[IF k < m THEN k ELSE k + 1]
    <2>1. CASE k < m
      BY <1>1, <1>2, <1>3, <1>4, <1>6, <2>1
    <2>2. CASE k >= m
      BY <1>1, <1>2, <1>3, <1>4, <1>6, <2>2
    <2> QED BY <1>1, <1>6, <2>1, <2>2
  <1> QED BY <1>5, <1>6 DEF t

LEMMA TakeKeeps ==
  ASSUME ParkedRight, parked \in Seq(Parkings), NEW m \in DOMAIN parked, UNCHANGED jobs,
         parked' = RemoveAt(parked, m)
  PROVE  ParkedRight' /\ parked' \in Seq(Parkings)
  <1>1. /\ parked' \in Seq(Parkings) /\ Len(parked') = Len(parked) - 1
        /\ \A k \in 1..Len(parked) - 1 : parked'[k] = parked[IF k < m THEN k ELSE k + 1]
    BY RemoveAtShifts
  <1>2. ASSUME NEW k \in DOMAIN parked' PROVE \E l \in DOMAIN parked : parked'[k] = parked[l]
    <2>1. k \in 1..Len(parked) - 1 /\ Len(parked) \in Nat /\ m \in 1..Len(parked)
      BY <1>1
    <2>2. (IF k < m THEN k ELSE k + 1) \in DOMAIN parked
      BY <2>1
    <2> QED BY <1>1, <2>1, <2>2
  <1> QED BY <1>1, <1>2 DEF ParkedRight, SettledAs

\* What a step does to the jobs, the calls and the parked entries.
LEMMA RemoteKeeps ==
  ASSUME ServiceAssumption, SettlementInv, NEW n \in Requests, ~At(n, "unsent"),
         UNCHANGED <<plan>>, DOMAIN rows' = Cases,
         \A m \in Requests : req'[m].body = req[m].body,
         \A m \in Requests : req'[m].stage = "unsent" => At(m, "unsent"),
         \/ UNCHANGED remoteVars
         \/ Submits(n)
         \/ Verifier!CallFailed(n)
         \/ Verifier!ReceiveAnswer(n, Body(n), JobOf(n))
         \/ \E m \in DOMAIN parked : Verifier!TakeParked(m)
         \/ \E awaited : Verifier!ServeCall(n, JobOf(n), awaited)
  PROVE  JobsSettle /\ RemoteShape' /\ NoCallYet' /\ CallsRight' /\ ParkedRight'
  <1>1. JobOf(n) \in Jobs /\ Body(n) \in {Bodies[b] : b \in DOMAIN Bodies}
    BY BodiesHaveJobs DEF SettlementInv
  <1>2. \A m \in Requests : JobOf(m)' = JobOf(m)
    BY DEF JobOf, Body
  <1>3. \A m \in Requests : calls[m].status # "none" => JobOf(m) \in Jobs
    BY BodiesHaveJobs DEF SettlementInv, NoCallYet
  <1> USE DEF SettlementInv, RemoteShape
  <1>4. CASE UNCHANGED remoteVars
    BY <1>2, <1>4 DEF remoteVars, JobsSettle, NoCallYet, CallsRight, ParkedRight, SettledAs, At
  <1>5. CASE Submits(n)
    <2>1. JobsSettle /\ RemoteShape'
      BY <1>1, <1>5 DEF Submits, JobsSettle
    <2>2. NoCallYet'
      BY <1>5 DEF Submits, NoCallYet, At
    <2>3. CallsRight'
      BY <1>2, <1>3, <1>5, <2>1, SettledStays DEF Submits, CallsRight, SettledAs
    <2>4. ParkedRight'
      BY <1>5, <2>1, SettledStays, ParkedJobs DEF Submits, ParkedRight, SettledAs
    <2> QED BY <2>1, <2>2, <2>3, <2>4
  <1>6. CASE Verifier!CallFailed(n)
    <2>1. UNCHANGED <<jobs, parked>> /\ JobsSettle /\ RemoteShape'
      BY <1>6 DEF Verifier!CallFailed, Verifier!NoCall, JobsSettle
    <2>2. NoCallYet'
      BY <1>6 DEF Verifier!CallFailed, Verifier!NoCall, NoCallYet, At
    <2>3. CallsRight'
      BY <1>2, <1>6, <2>1 DEF Verifier!CallFailed, Verifier!NoCall, CallsRight, SettledAs
    <2> QED BY <2>1, <2>2, <2>3 DEF ParkedRight, SettledAs
  <1>7. CASE Verifier!ReceiveAnswer(n, Body(n), JobOf(n))
    <2> DEFINE e == [sa |-> Body(n), job |-> JobOf(n), action |-> calls[n].action]
    <2>1. UNCHANGED jobs /\ JobsSettle
      BY <1>7 DEF Verifier!ReceiveAnswer, JobsSettle
    <2>2. SettledAs(e.job, e.action) /\ e \in Parkings
      BY <1>1, <1>7 DEF Verifier!ReceiveAnswer, CallsRight, SettledAs, Parkings
    <2>3. ParkedRight' /\ parked' \in Seq(Parkings)
      <3>1. parked' = Verifier!Park(parked, e)
        BY <1>7 DEF Verifier!ReceiveAnswer
      <3> HIDE DEF e
      <3> QED BY <2>1, <2>2, <3>1, ParkKeeps
    <2>4. RemoteShape'
      BY <1>7, <2>1, <2>3 DEF Verifier!ReceiveAnswer, Verifier!NoCall
    <2>5. NoCallYet' /\ CallsRight'
      BY <1>2, <1>7, <2>1 DEF Verifier!ReceiveAnswer, Verifier!NoCall, NoCallYet, CallsRight,
                               SettledAs, At
    <2> QED BY <2>1, <2>3, <2>4, <2>5
  <1>8. ASSUME NEW m \in DOMAIN parked, Verifier!TakeParked(m)
        PROVE  JobsSettle /\ RemoteShape' /\ NoCallYet' /\ CallsRight' /\ ParkedRight'
    <2>1. ParkedRight' /\ parked' \in Seq(Parkings) /\ UNCHANGED <<jobs, calls>>
      <3>1. parked' = RemoveAt(parked, m)
      BY <1>8 DEF Verifier!TakeParked, Verifier!RemoveAt, RemoveAt
    <3> QED BY <1>8, <3>1, TakeKeeps DEF Verifier!TakeParked
    <2> QED BY <1>2, <2>1 DEF JobsSettle, NoCallYet, CallsRight, SettledAs, At
  <1>9. ASSUME NEW awaited, Verifier!ServeCall(n, JobOf(n), awaited)
        PROVE  JobsSettle /\ RemoteShape' /\ NoCallYet' /\ CallsRight' /\ ParkedRight'
    <2>1. PICK action \in Verifier!Action :
              /\ jobs' = IF jobs[JobOf(n)] = "submitted"
                         THEN [jobs EXCEPT ![JobOf(n)] = Verifier!EndState[action]] ELSE jobs
              /\ calls' = [calls EXCEPT ![n] =
                    IF awaited /\ jobs[JobOf(n)] = "submitted"
                    THEN [status |-> "answered", action |-> action] ELSE Verifier!NoCall]
      BY <1>9 DEF Verifier!ServeCall
    <2>2. JobsSettle /\ UNCHANGED parked /\ RemoteShape'
      BY <1>1, <1>9, <2>1 DEF Verifier!ServeCall, Verifier!NoCall, JobsSettle
    <2>3. NoCallYet'
      BY <2>1 DEF Verifier!NoCall, NoCallYet, At
    <2>4. CallsRight'
      <3> SUFFICES ASSUME NEW m \in Requests, calls'[m].status = "answered"
                   PROVE  SettledAs(JobOf(m), calls[m].action)'
        BY DEF CallsRight
      <3>1. CASE m = n
        BY <1>1, <1>2, <2>1, <3>1 DEF Verifier!NoCall, SettledAs, Verifier!EndState
      <3>2. CASE m # n
        BY <1>2, <1>3, <2>1, <2>2, <3>2, SettledStays DEF CallsRight, SettledAs
      <3> QED BY <3>1, <3>2
    <2>5. ParkedRight'
      BY <2>2, SettledStays, ParkedJobs DEF ParkedRight, SettledAs
    <2> QED BY <2>2, <2>3, <2>4, <2>5
  <1> QED BY <1>4, <1>5, <1>6, <1>7, <1>8, <1>9

\* A step may bring a request its answer and its case a row with that answer;
\* all other answers and rows keep theirs.
HasAnswer(n) ==
    \/ At(n, "settled")
    \/ req[n].stage \in {"responding", "answered"} /\ req[n].status \in {200, 201}
LEMMA AnswersKeep ==
  ASSUME ServiceAssumption, SettlementInv, JobsSettle, UNCHANGED plan,
         NEW n \in Requests, ~At(n, "unsent"),
         \A m \in Requests : req'[m].body = req[m].body,
         \A m \in Requests \ {n} : req'[m] = req[m],
         HasAnswer(n)' => SettledAs(JobOf(n), req[n].action)',
         \A c \in Cases :
            \/ rows'[c] = rows[c]
            \/ rows'[c].status # "succeeded"
            \/ /\ c = CaseOf(n) /\ rows'[c].variant = Body(n).variant
               /\ rows'[c].action = req'[n].action /\ HasAnswer(n)'
  PROVE  RunsRight' /\ RowsRight'
  <1>1. \A m \in Requests : JobOf(m)' = JobOf(m) /\ Body(m)' = Body(m)
    BY DEF JobOf, Body
  <1>2. \A m \in Requests : HasAnswer(m) => JobOf(m) \in Jobs
    BY BodiesHaveJobs DEF SettlementInv, HasAnswer, At
  <1>3. RunsRight'
    <2> SUFFICES ASSUME NEW m \in Requests, HasAnswer(m)'
                 PROVE  SettledAs(JobOf(m), req[m].action)'
      BY DEF RunsRight, HasAnswer
    <2>1. CASE m = n
      BY <2>1
    <2>2. CASE m # n
      <3>1. HasAnswer(m) /\ req'[m] = req[m]
        BY <2>2 DEF HasAnswer, At
      <3>2. SettledAs(JobOf(m), req[m].action)
        BY <3>1 DEF SettlementInv, RunsRight, HasAnswer
      <3> QED BY <1>1, <1>2, <3>1, <3>2, SettledStays DEF SettledAs
    <2> QED BY <2>1, <2>2
  <1>4. RowsRight'
    <2> SUFFICES ASSUME NEW c \in Cases, NEW b \in DOMAIN Bodies, rows'[c].status = "succeeded",
                        Bodies[b].case = c, Bodies[b].variant = rows'[c].variant
                 PROVE  SettledAs(BodyJob(Bodies[b]), rows[c].action)'
      BY DEF RowsRight
    <2>1. CASE rows'[c] = rows[c]
      BY <2>1, BodiesHaveJobs, SettledStays DEF SettlementInv, RowsRight, SettledAs
    <2>2. CASE /\ c = CaseOf(n) /\ rows'[c].variant = Body(n).variant
               /\ rows'[c].action = req'[n].action /\ HasAnswer(n)'
      <3>1. req[n].body \in DOMAIN Bodies
        BY DEF SettlementInv, ServiceInv, Accepted
      <3>2. BodyJob(Bodies[b]) = JobOf(n)
        BY <2>2, <3>1 DEF ServiceAssumption, JobOf, CaseOf, Body
      <3> QED BY <1>1, <2>2, <3>2 DEF SettledAs
    <2> QED BY <2>1, <2>2
  <1> QED BY <1>3, <1>4

\* The rows of the other cases stay, and a row that is set has its variant.
LEMMA SetRowSets ==
  ASSUME RemoteShape, NEW n \in Requests, CaseOf(n) \in Cases,
         NEW status, NEW action, SetRow(n, status, action)
  PROVE  /\ DOMAIN rows' = Cases
         /\ \A c \in Cases \ {CaseOf(n)} : rows'[c] = rows[c]
         /\ rows'[CaseOf(n)].status = status /\ rows'[CaseOf(n)].variant = Body(n).variant
         /\ rows'[CaseOf(n)].action = action
  BY DEF RemoteShape, SetRow

LEMMA RunEnds ==
  ASSUME Shape, NEW n \in Requests, NEW status, NEW action, EndRun(n, status, action)
  PROVE  req'[n].stage = "responding" /\ req'[n].status = status /\ req'[n].action = action
  BY DEF Shape, EndRun, Unsent

LEMMA ServeSettles ==
  ASSUME ServiceAssumption, SettlementInv, UNCHANGED plan, NEW n \in Requests, Serve(n)
  PROVE  SettlementInv'
  <1> USE DEF SettlementInv
  <1>1. Shape
    BY DEF ServiceInv
  <1>2. /\ ~At(n, "unsent") /\ req'[n].stage # "unsent"
        /\ \A m \in Requests : req'[m].body = req[m].body
        /\ \A m \in Requests \ {n} : req'[m] = req[m]
    BY <1>1, ServeFrame
  <1>3. CaseOf(n) \in Cases /\ JobOf(n)' = JobOf(n)
    BY <1>2 DEF ServiceAssumption, ServiceInv, Accepted, CaseOf, JobOf, Body
  <1>4. \A m \in Requests : req'[m].stage = "unsent" => At(m, "unsent")
    BY <1>2 DEF At
  <1>5. ServiceInv'
    BY ServiceStep DEF ServiceNext
  <1> DEFINE
        Remote == \/ UNCHANGED remoteVars \/ Submits(n) \/ Verifier!CallFailed(n)
                  \/ Verifier!ReceiveAnswer(n, Body(n), JobOf(n))
                  \/ \E m \in DOMAIN parked : Verifier!TakeParked(m)
        Answers == HasAnswer(n)' => SettledAs(JobOf(n), req[n].action)'
        Rows == /\ DOMAIN rows' = Cases
                /\ \A c \in Cases :
                    \/ rows'[c] = rows[c]
                    \/ rows'[c].status # "succeeded"
                    \/ /\ c = CaseOf(n) /\ rows'[c].variant = Body(n).variant
                       /\ rows'[c].action = req'[n].action /\ HasAnswer(n)'
  <1>6. Remote /\ Answers /\ Rows
    <2> USE DEF RemoteShape
    <2>1. CASE At(n, "gate") /\ Gate(n)
      BY <1>1, <2>1 DEF Gate, GateExternal, GateRetry, GateCharge, ToHandler, Goto, Shape, Unsent,
                        HasAnswer, At
    <2>2. CASE At(n, "facilitator") /\ Charge(n)
      BY <1>1, <2>2 DEF Charge, FacilitatorPays, FacilitatorRefuses, ToHandler, Answer, Shape,
                        Unsent, HasAnswer, At
    <2>3. CASE At(n, "queued") /\ Turn(n)
      BY <1>1, <2>3 DEF Turn, Goto, Shape, Unsent, HasAnswer, At
    <2>4. CASE AdmissionRefused(n)
      BY <1>1, <2>4, RunEnds DEF AdmissionRefused, HasAnswer, At
    <2>5. CASE AdmissionReplay(n)
      <3>1. /\ UNCHANGED <<rows, remoteVars>> /\ req'[n].action = rows[CaseOf(n)].action
        BY <1>1, <2>5, RunEnds DEF AdmissionReplay, Row
      <3>2. SettledAs(JobOf(n), rows[CaseOf(n)].action)
        BY <1>2, <1>3, <2>5
           DEF AdmissionReplay, Row, RowsRight, ServiceInv, Accepted, JobOf, CaseOf, Body
      <3> QED BY <1>3, <3>1, <3>2 DEF SettledAs, remoteVars
    <2>6. CASE AdmissionRuns(n)
      BY <1>1, <1>3, <2>6, SetRowSets DEF AdmissionRuns, Goto, Shape, Unsent, HasAnswer, At
    <2>7. ASSUME NEW status \in {409, 500}, FailRun(n, status)
          PROVE  Answers /\ Rows
      BY <1>1, <1>3, <2>7, RunEnds, SetRowSets DEF FailRun, HasAnswer, At
    <2>8. CASE Working(n)
      <3>1. CASE Adopts(n) \/ Submits(n)
        BY <1>1, <3>1 DEF Adopts, Submits, Goto, Shape, Unsent, HasAnswer, At
      <3>2. CASE RunFails(n) \/ ExternalJobRefused(n)
        BY <2>7, <3>2 DEF RunFails, ExternalJobRefused
      <3> QED BY <2>8, <3>1, <3>2 DEF Working
    <2>9. CASE Verification(n)
      <3>1. CASE VerifierAnswers(n)
        BY <1>1, <3>1 DEF VerifierAnswers, Goto, Shape, Unsent, HasAnswer, At
      <3>2. CASE VerifierUnreachable(n)
        BY <2>7, <3>2 DEF VerifierUnreachable
      <3> QED BY <2>9, <3>1, <3>2 DEF Verification
    <2>10. CASE Settles(n)
      <3>1. PICK m \in Verifier!FirstParked(JobOf(n)) :
                /\ req' = [req EXCEPT ![n].stage = "settled", ![n].action = parked[m].action]
                /\ Verifier!TakeParked(m)
        BY <2>10 DEF Settles
      <3>2. m \in DOMAIN parked /\ parked[m].job = JobOf(n) /\ UNCHANGED <<jobs, calls, rows>>
        BY <2>10, <3>1 DEF Settles, Verifier!FirstParked, Verifier!TakeParked
      <3>3. SettledAs(JobOf(n), parked[m].action)
        BY <3>2 DEF ParkedRight
      <3>4. req'[n].action = parked[m].action
        BY <1>1, <3>1 DEF Shape, Unsent
      <3> QED BY <1>3, <3>1, <3>2, <3>3, <3>4 DEF SettledAs
    <2>11. CASE NothingToSettle(n)
      BY <2>7, <2>11 DEF NothingToSettle
    <2>12. CASE At(n, "settled") /\ Succeeds(n)
      <3>1. SettledAs(JobOf(n), req[n].action) /\ UNCHANGED remoteVars
        BY <2>12 DEF RunsRight, Succeeds
      <3>2. /\ req'[n].stage = "responding" /\ req'[n].status = 201
            /\ req'[n].action = req[n].action
        BY <1>1, <2>12, RunEnds DEF Succeeds
      <3>3. Rows
        BY <1>3, <2>12, <3>2, SetRowSets DEF Succeeds, HasAnswer, At
      <3> QED BY <1>3, <3>1, <3>2, <3>3 DEF SettledAs, remoteVars
    <2>13. CASE RunFails(n)
      BY <2>7, <2>13 DEF RunFails
    <2>14. CASE At(n, "responding") /\ Respond(n)
      <3>1. UNCHANGED <<rows, remoteVars>> /\ req'[n].action = req[n].action
            /\ (req'[n].status = req[n].status \/ req'[n].status = 500)
        BY <1>1, <2>14 DEF Respond, Answer, Shape, Unsent
      <3>2. req[n].status \in {200, 201} => SettledAs(JobOf(n), req[n].action)
        BY <2>14 DEF RunsRight, At
      <3>3. req'[n].stage = "answered"
        BY <1>1, <2>14 DEF Respond, Answer, Shape, Unsent
      <3> QED BY <1>3, <3>1, <3>2, <3>3 DEF SettledAs, HasAnswer, At, remoteVars
    <2> QED BY <2>1, <2>2, <2>3, <2>4, <2>5, <2>6, <2>8, <2>9, <2>10, <2>11, <2>12, <2>13, <2>14
            DEF Serve, Admission, Settlement
  <1>7. JobsSettle /\ RemoteShape' /\ NoCallYet' /\ CallsRight' /\ ParkedRight'
    BY <1>2, <1>4, <1>6, RemoteKeeps
  <1>8. RunsRight' /\ RowsRight'
    BY <1>2, <1>6, <1>7, AnswersKeep
  <1> QED BY <1>5, <1>7, <1>8

\* A request that arrives has no call and no answer of a run.
LEMMA ArriveSettles ==
  ASSUME ServiceAssumption, SettlementInv, UNCHANGED plan, NEW n \in Requests, Arrive(n)
  PROVE  SettlementInv'
  <1> USE DEF SettlementInv
  <1>1. ServiceInv'
    BY ServiceStep DEF ServiceNext
  <1>2. /\ UNCHANGED <<rows, jobs, calls, parked>> /\ At(n, "unsent")
        /\ \A m \in Requests \ {n} : req'[m] = req[m]
    BY DEF Arrive, remoteVars, ServiceInv, Shape
  <1>3. /\ req'[n].stage \in {"gate", "answered"}
        /\ req'[n].stage = "answered" => req'[n].status \in {400, 429}
    BY SMTT(30) DEF Arrive, Precheck, ServiceInv, Shape, Unsent
  <1>4. calls[n].status = "none"
    BY <1>2 DEF NoCallYet
  <1>5. RemoteShape' /\ ParkedRight' /\ RowsRight'
    BY <1>2 DEF RemoteShape, ParkedRight, RowsRight, SettledAs
  <1>6. NoCallYet'
    BY <1>2, <1>3 DEF NoCallYet, At
  <1>7. \A m \in Requests \ {n} : JobOf(m)' = JobOf(m)
    BY <1>2 DEF JobOf, Body
  <1>8. CallsRight'
    BY <1>2, <1>4, <1>7 DEF CallsRight, SettledAs
  <1>9. RunsRight'
    BY <1>2, <1>3, <1>7 DEF RunsRight, SettledAs, At
  <1> QED BY <1>1, <1>5, <1>6, <1>8, <1>9

\* The verifier has a call only of a request that has arrived.
LEMMA VerifierStepSettles ==
  ASSUME ServiceAssumption, SettlementInv, UNCHANGED plan, NEW n \in Requests, VerifierStep(n)
  PROVE  SettlementInv'
  <1> USE DEF SettlementInv
  <1>1. ServiceInv'
    BY ServiceStep DEF ServiceNext
  <1>2. UNCHANGED <<req, rows>> /\ Verifier!ServeCall(n, JobOf(n), At(n, "verifying"))
    BY DEF VerifierStep
  <1>3. ~At(n, "unsent")
    BY <1>2 DEF Verifier!ServeCall, NoCallYet
  <1>4. DOMAIN rows' = Cases
    BY <1>2 DEF RemoteShape
  <1>5. JobsSettle /\ RemoteShape' /\ NoCallYet' /\ CallsRight' /\ ParkedRight'
    BY <1>2, <1>3, <1>4, RemoteKeeps DEF At
  <1>6. HasAnswer(n)' => SettledAs(JobOf(n), req[n].action)'
    <2> SUFFICES ASSUME HasAnswer(n) PROVE SettledAs(JobOf(n), req[n].action)'
      BY <1>2 DEF HasAnswer, At
    <2>1. JobOf(n) \in Jobs /\ SettledAs(JobOf(n), req[n].action)
      BY <1>3, BodiesHaveJobs DEF RunsRight, HasAnswer
    <2> QED BY <1>2, <1>5, <2>1, SettledStays DEF SettledAs, JobOf, Body
  <1>7. RunsRight' /\ RowsRight'
    BY <1>2, <1>3, <1>5, <1>6, AnswersKeep
  <1> QED BY <1>1, <1>5, <1>7

\* What the end of the process loses was right before.
LEMMA RestartSettles ==
  ASSUME ServiceAssumption, SettlementInv, UNCHANGED plan, Restart
  PROVE  SettlementInv'
  <1> USE DEF SettlementInv
  <1>1. ServiceInv'
    BY ServiceStep DEF ServiceNext
  <1>2. /\ UNCHANGED <<rows, jobs, calls>> /\ parked' = <<>>
        /\ \A m \in Requests :
            /\ req'[m].body = req[m].body /\ req'[m].action = req[m].action
            /\ req'[m].status = req[m].status
            /\ req'[m].stage \in {req[m].stage, "dropped"}
            /\ req'[m].stage = "unsent" => At(m, "unsent")
    BY DEF Restart, InFlight, ServiceInv, Shape, Unsent, At
  <1>3. \A m \in Requests : JobOf(m)' = JobOf(m)
    BY <1>2 DEF JobOf, Body
  <1>4. RemoteShape' /\ ParkedRight' /\ RowsRight'
    BY <1>2 DEF RemoteShape, ParkedRight, RowsRight, SettledAs
  <1>5. NoCallYet' /\ CallsRight'
    BY <1>2, <1>3 DEF NoCallYet, CallsRight, SettledAs, At
  <1>6. RunsRight'
    BY <1>2, <1>3 DEF RunsRight, SettledAs, At
  <1> QED BY <1>1, <1>4, <1>5, <1>6

LEMMA SettlementStarts == ServiceAssumption /\ ServiceInit => SettlementInv
  <1> SUFFICES ASSUME ServiceAssumption, ServiceInit PROVE SettlementInv
    OBVIOUS
  <1>1. /\ jobs = [j \in Jobs |-> "funded"] /\ calls = [n \in Requests |-> Verifier!NoCall]
        /\ parked = <<>> /\ rows = [c \in Cases |-> NoRow]
        /\ \A n \in Requests : req[n].stage = "unsent"
    BY DEF ServiceInit, Verifier!RemoteInit, Unsent
  <1>2. RemoteShape /\ NoCallYet /\ CallsRight
    BY <1>1 DEF Verifier!NoCall, RemoteShape, NoCallYet, CallsRight
  <1>3. ParkedRight
    BY <1>1 DEF ParkedRight
  <1>4. RunsRight
    BY <1>1 DEF RunsRight, At
  <1>5. \A c \in Cases : rows[c].status = "none"
    BY <1>1 DEF NoRow
  <1>6. RowsRight
    BY <1>5 DEF RowsRight
  <1> QED BY <1>2, <1>3, <1>4, <1>6, ServiceStarts DEF SettlementInv

LEMMA SettlementStep ==
  ServiceAssumption /\ SettlementInv /\ [ServiceNext]_serviceVars => SettlementInv'
  <1> SUFFICES ASSUME ServiceAssumption, SettlementInv, [ServiceNext]_serviceVars
               PROVE  SettlementInv'
    OBVIOUS
  <1>1. CASE UNCHANGED <<plan, req, rows, jobs, calls, parked>>
    <2>1. ServiceInv'
      BY ServiceStep DEF SettlementInv
    <2>2. \A m \in Requests : JobOf(m)' = JobOf(m)
      BY <1>1 DEF JobOf, Body
    <2> QED BY <1>1, <2>1, <2>2
            DEF SettlementInv, RemoteShape, NoCallYet, CallsRight, ParkedRight, RunsRight,
                RowsRight, SettledAs, At
  <1>2. ASSUME NEW n \in Requests, UNCHANGED plan, Arrive(n) PROVE SettlementInv'
    BY <1>2, ArriveSettles
  <1>3. ASSUME NEW n \in Requests, UNCHANGED plan, Serve(n) PROVE SettlementInv'
    BY <1>3, ServeSettles
  <1>4. ASSUME NEW n \in Requests, UNCHANGED plan, VerifierStep(n) PROVE SettlementInv'
    BY <1>4, VerifierStepSettles
  <1>5. CASE UNCHANGED plan /\ Restart
    BY <1>5, RestartSettles
  <1>6. CASE UNCHANGED plan /\ Tick
    BY <1>1, <1>6 DEF Tick, remoteVars
  <1> QED BY <1>1, <1>2, <1>3, <1>4, <1>5, <1>6 DEF ServiceNext, serviceVars, remoteVars

LEMMA AlwaysSettlementInv == ServiceSpec => []SettlementInv
  BY ServiceAssumption, SettlementStarts, SettlementStep, PTL DEF ServiceSpec

\* What a run answers, replays included, is what the verifier did with its own
\* job, for any number of requests and cases, of calls that time out while the
\* verifier settles, and of restarts (verify-client.ts, run-store.ts).
THEOREM AlwaysAnswerIsTheSettlement == ServiceSpec => []AnswerIsTheSettlement
  <1>1. SettlementInv => AnswerIsTheSettlement
    BY DEF SettlementInv, RunsRight, SettledAs, AnswerIsTheSettlement, At
  <1> QED BY <1>1, AlwaysSettlementInv, PTL

----------------------------------------------------------------------------
(***************************************************************************)
(* A charge is never for nothing, for any number of requests, credentials, *)
(* cases, restarts and any window.  A charge is accounted for by a request *)
(* in flight, then by a row that has succeeded or by the retry memory.     *)
(* That a row stays succeeded is where the turns are needed: a run inside  *)
(* holds its case's row (RowHeld), for nobody else is inside (TurnHeld).   *)
(***************************************************************************)

AtWork == {"working", "adopted", "verifying", "verified", "settled"}
Inside == {"admission"} \cup AtWork

\* A request that waits for its turn, or has it, has it for its case.
TurnHeld ==
    \A n \in Requests :
        /\ At(n, "queued") => phase[n] = "queued" /\ keyOf[n] = CaseOf(n)
        /\ req[n].stage \in Inside => phase[n] = "inside" /\ keyOf[n] = CaseOf(n)
        /\ phase[n] \in {"queued", "inside"} => req[n].stage \in Inside \cup {"queued"}

\* While a run works, its case's row is its own.
RowHeld ==
    \A n \in Requests : req[n].stage \in AtWork =>
        Row(n).status = "running" /\ Row(n).variant = Body(n).variant

\* What is on its way back: a success has its row; a job that cannot be adopted
\* was named by the request.
Responses ==
    \A n \in Requests : At(n, "responding") =>
        /\ req[n].status \in {200, 201} =>
            Row(n).status = "succeeded" /\ Row(n).variant = Body(n).variant
        /\ req[n].status \in {200, 201, 500} \/ IsExternal(Body(n))

\* Who has paid is past the gate, and names no job.
PaidPast ==
    \A n \in Requests : req[n].paid =>
        req[n].stage \notin {"unsent", "gate", "facilitator"} /\ ~IsExternal(Body(n))

\* Charges are of the past, and are remembered for the whole window.
Clock ==
    /\ now \in Nat /\ restarts \in Nat /\ NoCred \notin DOMAIN charged
    /\ \A cred \in DOMAIN charged :
        /\ charged[cred].at \in Nat /\ charged[cred].at =< now
        /\ charged[cred].epoch \in Nat /\ charged[cred].epoch =< restarts
    /\ \A key \in DOMAIN remembered : remembered[key] \in Nat
    /\ \A cred \in DOMAIN charged :
        <<cred, charged[cred].body>> \in DOMAIN remembered =>
            remembered[<<cred, charged[cred].body>>] >= charged[cred].at + RetryWindow

PaymentInv ==
    /\ SettlementInv /\ Turns!MutexInv
    /\ TurnHeld /\ RowHeld /\ Responses /\ PaidPast /\ Clock /\ PaidIsRecoverable

-----------------------------------------------------------------------------
(* Turns and rows *)

LEMMA OneInside ==
  ASSUME Turns!MutexInv, TurnHeld, NEW n \in Requests, NEW m \in Requests,
         req[n].stage \in Inside, req[m].stage \in Inside, CaseOf(n) = CaseOf(m)
  PROVE  n = m
  <1>1. phase[n] = "inside" /\ phase[m] = "inside" /\ keyOf[n] = keyOf[m]
    BY DEF TurnHeld
  <1>2. /\ ticket \in [Requests -> Nat]
        /\ ticket[n] = ticket[m] => n = m
        /\ Turns!Before(n, m) => phase[n] = "gone"
        /\ Turns!Before(m, n) => phase[m] = "gone"
    BY <1>1 DEF Turns!MutexInv, Turns!MutexTypes, Turns!Tickets, Turns!NotOvertaken, Turns!Arrived
  <1>3. ~(ticket[n] < ticket[m]) /\ ~(ticket[m] < ticket[n])
    BY <1>1, <1>2 DEF Turns!Before, Turns!SameKey, Turns!Arrived
  <1> QED BY <1>2, <1>3

LEMMA TurnsStep ==
  ServiceAssumption /\ ServiceInv /\ Turns!MutexInv /\ [ServiceNext]_serviceVars => Turns!MutexInv'
  <1>1. [Mutex!MutexNext]_mutexVars => [Turns!MutexNext]_(Turns!mutexVars)
    BY DEF Mutex!MutexNext, Mutex!Enqueue, Mutex!Enter, Mutex!MayEnter, Mutex!Release,
           Mutex!ProcessLost, mutexVars, Turns!MutexNext, Turns!Enqueue, Turns!Enter,
           Turns!MayEnter, Turns!Release, Turns!ProcessLost, Turns!mutexVars
  <1> QED BY <1>1, ServiceTakesTurns, Turns!MutexStep

\* What a step of a request does to its turn; the others keep theirs.
LEMMA ServeTurns ==
  ASSUME SettlementInv, Turns!MutexInv, TurnHeld, UNCHANGED plan, NEW n \in Requests, Serve(n)
  PROVE  TurnHeld'
  <1> USE DEF SettlementInv, ServiceInv, Inside, AtWork
  <1>1. /\ \A m \in Requests : req'[m].body = req[m].body
        /\ \A m \in Requests \ {n} : req'[m] = req[m]
    BY ServeFrame
  <1>2. \A m \in Requests : CaseOf(m)' = CaseOf(m)
    BY <1>1 DEF CaseOf, Body
  <1>3. phase \in [Requests -> Turns!Phase] /\ keyOf \in [Requests -> Cases]
    BY DEF Turns!MutexInv, Turns!MutexTypes
  <1>4. /\ \A m \in Requests \ {n} : phase'[m] = phase[m] /\ keyOf'[m] = keyOf[m]
        /\ req'[n].stage = "queued" => phase'[n] = "queued" /\ keyOf'[n] = CaseOf(n)
        /\ req'[n].stage \in Inside => phase'[n] = "inside" /\ keyOf'[n] = CaseOf(n)
        /\ phase'[n] \in {"queued", "inside"} => req'[n].stage \in Inside \cup {"queued"}
    <2>1. CASE At(n, "gate") /\ Gate(n)
      BY <1>3, <2>1 DEF Gate, GateExternal, GateRetry, GateCharge, ToHandler, Goto, Shape, Unsent,
                        Mutex!Enqueue, mutexVars, TurnHeld, At
    <2>2. CASE At(n, "facilitator") /\ Charge(n)
      BY <1>3, <2>2 DEF Charge, FacilitatorPays, FacilitatorRefuses, ToHandler, Answer, Shape,
                        Unsent, Mutex!Enqueue, mutexVars, TurnHeld, At
    <2>3. CASE At(n, "queued") /\ Turn(n)
      BY <1>3, <2>3 DEF Turn, Goto, Shape, Unsent, Mutex!Enter, TurnHeld, At
    <2>4. ASSUME NEW status, NEW action, EndRun(n, status, action)
          PROVE  /\ \A m \in Requests \ {n} : phase'[m] = phase[m] /\ keyOf'[m] = keyOf[m]
                 /\ req'[n].stage = "responding" /\ phase'[n] = "gone"
      BY <1>3, <2>4, RunEnds DEF EndRun, Mutex!Release
    <2>5. CASE At(n, "admission") /\ Admission(n)
      <3>1. CASE AdmissionRuns(n)
        BY <2>5, <3>1 DEF AdmissionRuns, Goto, Shape, Unsent, mutexVars, TurnHeld, At
      <3> QED BY <2>4, <2>5, <3>1 DEF Admission, AdmissionRefused, AdmissionReplay
    <2>6. CASE Preparing(n) /\ Working(n)
      <3>1. CASE Adopts(n) \/ Submits(n)
        BY <2>6, <3>1 DEF Adopts, Submits, Goto, Shape, Unsent, mutexVars, TurnHeld, At
      <3> QED BY <2>4, <2>6, <3>1 DEF Working, RunFails, ExternalJobRefused, FailRun
    <2>7. CASE At(n, "verifying") /\ Verification(n)
      <3>1. CASE VerifierAnswers(n)
        BY <2>7, <3>1 DEF VerifierAnswers, Goto, Shape, Unsent, mutexVars, TurnHeld, At
      <3> QED BY <2>4, <2>7, <3>1 DEF Verification, VerifierUnreachable, FailRun
    <2>8. CASE At(n, "verified") /\ Settlement(n)
      <3>1. CASE Settles(n)
        BY <2>8, <3>1 DEF Settles, Shape, Unsent, mutexVars, TurnHeld, At
      <3> QED BY <2>4, <2>8, <3>1 DEF Settlement, NothingToSettle, FailRun
    <2>9. CASE At(n, "settled") /\ (Succeeds(n) \/ RunFails(n))
      BY <2>4, <2>9 DEF Succeeds, RunFails, FailRun
    <2>10. CASE At(n, "responding") /\ Respond(n)
      BY <2>10 DEF Respond, Answer, Shape, Unsent, mutexVars, TurnHeld, At
    <2> QED BY <2>1, <2>2, <2>3, <2>5, <2>6, <2>7, <2>8, <2>9, <2>10 DEF Serve
  <1> QED BY <1>1, <1>2, <1>4 DEF TurnHeld, At

\* A step writes only the row of a case whose turn it has, and never one that
\* has succeeded.
LEMMA ServeRows ==
  ASSUME SettlementInv, RowHeld, UNCHANGED plan, NEW n \in Requests, CaseOf(n) \in Cases, Serve(n)
  PROVE  /\ DOMAIN rows' = Cases
         /\ \A c \in Cases \ {CaseOf(n)} : rows'[c] = rows[c]
         /\ \/ rows' = rows
            \/ req[n].stage \in Inside /\ rows[CaseOf(n)].status # "succeeded"
         /\ req'[n].stage \in AtWork =>
                /\ rows'[CaseOf(n)].status = "running"
                /\ rows'[CaseOf(n)].variant = Body(n).variant
         /\ At(n, "responding")' =>
                \/ /\ req'[n].status \in {200, 201} /\ rows'[CaseOf(n)].status = "succeeded"
                   /\ rows'[CaseOf(n)].variant = Body(n).variant
                \/ req'[n].status = 500
                \/ req'[n].status = 409 /\ IsExternal(Body(n))
  <1> USE DEF SettlementInv, ServiceInv, RemoteShape, Inside, AtWork
  <1> DEFINE
        Framed == /\ DOMAIN rows' = Cases
                  /\ \A c \in Cases \ {CaseOf(n)} : rows'[c] = rows[c]
  <1>1. CASE At(n, "gate") /\ Gate(n)
    BY <1>1 DEF Gate, GateExternal, GateRetry, GateCharge, ToHandler, Goto, Shape, Unsent, At
  <1>2. CASE At(n, "facilitator") /\ Charge(n)
    BY <1>2 DEF Charge, FacilitatorPays, FacilitatorRefuses, ToHandler, Answer, Shape, Unsent, At
  <1>3. CASE At(n, "queued") /\ Turn(n)
    BY <1>3 DEF Turn, Goto, Shape, Unsent, At
  <1>4. ASSUME NEW status \in {409, 500}, FailRun(n, status), req[n].stage \in AtWork
        PROVE  /\ Framed /\ rows[CaseOf(n)].status # "succeeded"
               /\ req'[n].stage = "responding" /\ req'[n].status = status
    BY <1>4, SetRowSets, RunEnds DEF FailRun, RowHeld, Row
  <1>5. CASE At(n, "admission") /\ Admission(n)
    <2>1. CASE AdmissionRefused(n)
      BY <2>1, RunEnds DEF AdmissionRefused, At
    <2>2. CASE AdmissionReplay(n)
      BY <2>2, RunEnds DEF AdmissionReplay, Row, At
    <2>3. CASE AdmissionRuns(n)
      BY <2>3, SetRowSets DEF AdmissionRuns, Row, Goto, Shape, Unsent, At
    <2> QED BY <1>5, <2>1, <2>2, <2>3 DEF Admission
  <1>6. CASE Preparing(n) /\ Working(n)
    <2>1. CASE Adopts(n) \/ Submits(n)
      BY <1>6, <2>1 DEF Adopts, Submits, Goto, RowHeld, Row, Shape, Unsent, At
    <2>2. CASE RunFails(n)
      BY <1>4, <1>6, <2>2 DEF RunFails, At
    <2>3. CASE ExternalJobRefused(n)
      BY <1>4, <1>6, <2>3 DEF ExternalJobRefused, At
    <2> QED BY <1>6, <2>1, <2>2, <2>3 DEF Working
  <1>7. CASE At(n, "verifying") /\ Verification(n)
    <2>1. CASE VerifierAnswers(n)
      BY <1>7, <2>1 DEF VerifierAnswers, Goto, RowHeld, Row, Shape, Unsent, At
    <2>2. CASE VerifierUnreachable(n)
      BY <1>4, <1>7, <2>2 DEF VerifierUnreachable, At
    <2> QED BY <1>7, <2>1, <2>2 DEF Verification
  <1>8. CASE At(n, "verified") /\ Settlement(n)
    <2>1. CASE Settles(n)
      BY <1>8, <2>1 DEF Settles, RowHeld, Row, Shape, Unsent, At
    <2>2. CASE NothingToSettle(n)
      BY <1>4, <1>8, <2>2 DEF NothingToSettle, At
    <2> QED BY <1>8, <2>1, <2>2 DEF Settlement
  <1>9. CASE At(n, "settled") /\ Succeeds(n)
    BY <1>9, SetRowSets, RunEnds DEF Succeeds, RowHeld, Row, At
  <1>10. CASE At(n, "settled") /\ RunFails(n)
    BY <1>4, <1>10 DEF RunFails, At
  <1>11. CASE At(n, "responding") /\ Respond(n)
    BY <1>11 DEF Respond, Answer, Shape, Unsent, At
  <1> QED BY <1>1, <1>2, <1>3, <1>5, <1>6, <1>7, <1>8, <1>9, <1>10, <1>11 DEF Serve

LEMMA ServeKeepsRows ==
  ASSUME ServiceAssumption, SettlementInv, Turns!MutexInv, TurnHeld, RowHeld, Responses,
         UNCHANGED plan, NEW n \in Requests, Serve(n)
  PROVE  /\ RowHeld' /\ Responses'
         /\ \A c \in Cases : rows[c].status = "succeeded" => rows'[c] = rows[c]
  <1>1. /\ ~At(n, "unsent")
        /\ \A m \in Requests : req'[m].body = req[m].body
        /\ \A m \in Requests \ {n} : req'[m] = req[m]
        /\ req'[n].stage # "unsent"
    BY ServeFrame DEF SettlementInv, ServiceInv
  <1>2. \A m \in Requests : CaseOf(m)' = CaseOf(m) /\ Body(m)' = Body(m)
    BY <1>1 DEF CaseOf, Body
  <1>3. \A m \in Requests : ~At(m, "unsent") => CaseOf(m) \in Cases
    BY DEF ServiceAssumption, SettlementInv, ServiceInv, Accepted, CaseOf, Body
  <1>4. /\ \A c \in Cases \ {CaseOf(n)} : rows'[c] = rows[c]
        /\ \/ rows' = rows
           \/ req[n].stage \in Inside /\ rows[CaseOf(n)].status # "succeeded"
    BY <1>1, <1>3, ServeRows
  <1>5. \A c \in Cases : rows[c].status = "succeeded" => rows'[c] = rows[c]
    BY <1>4
  <1>6. RowHeld'
    <2> SUFFICES ASSUME NEW m \in Requests, req'[m].stage \in AtWork
                 PROVE  Row(m)'.status = "running" /\ Row(m)'.variant = Body(m)'.variant
      BY DEF RowHeld
    <2>1. CASE m = n
      BY <1>1, <1>2, <1>3, <2>1, ServeRows DEF Row
    <2>2. CASE m # n
      <3>1. req[m].stage \in AtWork /\ CaseOf(m) \in Cases
        BY <1>1, <1>3, <2>2 DEF AtWork, At
      <3>2. rows'[CaseOf(m)] = rows[CaseOf(m)]
        BY <1>4, <2>2, <3>1, OneInside DEF Inside
      <3> QED BY <1>2, <3>1, <3>2 DEF RowHeld, Row
    <2> QED BY <2>1, <2>2
  <1>7. Responses'
    <2> SUFFICES ASSUME NEW m \in Requests, At(m, "responding")'
                 PROVE  /\ req'[m].status \in {200, 201} =>
                            /\ Row(m)'.status = "succeeded"
                            /\ Row(m)'.variant = Body(m)'.variant
                        /\ req'[m].status \in {200, 201, 500} \/ IsExternal(Body(m))'
      BY DEF Responses
    <2>1. CASE m = n
      BY <1>1, <1>2, <1>3, <2>1, ServeRows DEF Row, IsExternal
    <2>2. CASE m # n
      BY <1>1, <1>2, <1>3, <1>5, <2>2 DEF Responses, Row, IsExternal, At
    <2> QED BY <2>1, <2>2
  <1> QED BY <1>5, <1>6, <1>7

-----------------------------------------------------------------------------
(* Charges *)

\* What accounts for a charge.
Accounted(cred) ==
    LET paid == charged[cred]
        body == Bodies[paid.body]
        row == rows[body.case]
    IN \/ \E n \in Requests : InFlight(n) /\ req[n].paid /\ req[n].cred = cred
       \/ row.status = "succeeded" /\ row.variant = body.variant
       \/ Remembers(<<cred, paid.body>>)
       \/ paid.epoch # restarts
       \/ now >= paid.at + RetryWindow

\* The steps that touch the charges or the memory.
LEMMA ServeMoneyMoves ==
  ASSUME NEW n \in Requests, Serve(n)
  PROVE  \/ GateCharge(n) \/ FacilitatorPays(n) \/ Respond(n)
         \/ UNCHANGED <<charged, remembered>>
  BY ZenonT(30) DEF Serve, Gate, GateExternal, GateRetry, Charge, FacilitatorRefuses, Turn, Admission,
         AdmissionRefused, AdmissionReplay, AdmissionRuns, Working, RunFails, ExternalJobRefused,
         Adopts, Submits, Verification, VerifierAnswers, VerifierUnreachable, Settlement, Settles,
         NothingToSettle, Succeeds

\* What a step of a request does to what it has paid.
LEMMA ServeMoney ==
  ASSUME SettlementInv, PaidPast, UNCHANGED plan, NEW n \in Requests, Serve(n)
  PROVE  /\ UNCHANGED charged \/ FacilitatorPays(n)
         /\ req'[n].cred = req[n].cred
         /\ req[n].paid /\ ~At(n, "responding") =>
                req'[n].paid /\ InFlight(n)'
         /\ req'[n].paid =>
                /\ req'[n].stage \notin {"unsent", "gate", "facilitator"}
                /\ req[n].paid \/ FacilitatorPays(n)
  <1> USE DEF SettlementInv, ServiceInv, PaidPast, At
  <1>1. CASE At(n, "gate") /\ Gate(n)
    BY <1>1 DEF Gate, GateExternal, GateRetry, GateCharge, ToHandler, Goto, Shape, Unsent, InFlight
  <1>2. CASE At(n, "facilitator") /\ Charge(n)
    BY <1>2 DEF Charge, FacilitatorPays, FacilitatorRefuses, ToHandler, Answer, Shape, Unsent,
                InFlight
  <1>3. CASE At(n, "queued") /\ Turn(n)
    BY <1>3 DEF Turn, Goto, Shape, Unsent, InFlight
  <1>4. ASSUME NEW status, NEW action, EndRun(n, status, action)
        PROVE  /\ req'[n].stage = "responding" /\ req'[n].paid = req[n].paid
               /\ req'[n].cred = req[n].cred
    BY <1>4 DEF EndRun, Shape, Unsent
  <1>5. CASE At(n, "admission") /\ Admission(n)
    <2>1. CASE AdmissionRuns(n)
      BY <1>5, <2>1 DEF AdmissionRuns, Goto, Shape, Unsent, InFlight
    <2> QED BY <1>4, <1>5, <2>1 DEF Admission, AdmissionRefused, AdmissionReplay, InFlight
  <1>6. CASE Preparing(n) /\ Working(n)
    <2>1. CASE Adopts(n) \/ Submits(n)
      BY <1>6, <2>1 DEF Adopts, Submits, Goto, Shape, Unsent, InFlight
    <2> QED BY <1>4, <1>6, <2>1 DEF Working, RunFails, ExternalJobRefused, FailRun, InFlight
  <1>7. CASE At(n, "verifying") /\ Verification(n)
    <2>1. CASE VerifierAnswers(n)
      BY <1>7, <2>1 DEF VerifierAnswers, Goto, Shape, Unsent, InFlight
    <2> QED BY <1>4, <1>7, <2>1 DEF Verification, VerifierUnreachable, FailRun, InFlight
  <1>8. CASE At(n, "verified") /\ Settlement(n)
    <2>1. CASE Settles(n)
      BY <1>8, <2>1 DEF Settles, Shape, Unsent, InFlight
    <2> QED BY <1>4, <1>8, <2>1 DEF Settlement, NothingToSettle, FailRun, InFlight
  <1>9. CASE At(n, "settled") /\ (Succeeds(n) \/ RunFails(n))
    BY <1>4, <1>9 DEF Succeeds, RunFails, FailRun, InFlight
  <1>10. CASE At(n, "responding") /\ Respond(n)
    BY <1>10 DEF Respond, Answer, Shape, Unsent, InFlight
  <1> QED BY <1>1, <1>2, <1>3, <1>5, <1>6, <1>7, <1>8, <1>9, <1>10 DEF Serve

LEMMA ServePaidPast ==
  ASSUME SettlementInv, PaidPast, UNCHANGED plan, NEW n \in Requests, Serve(n)
  PROVE  PaidPast'
  <1>1. /\ \A m \in Requests : req'[m].body = req[m].body
        /\ \A m \in Requests \ {n} : req'[m] = req[m]
    BY ServeFrame DEF SettlementInv, ServiceInv
  <1>2. req'[n].paid => ~IsExternal(Body(n))
    <2>1. FacilitatorPays(n) => ~IsExternal(Body(n))
      BY DEF FacilitatorPays, SettlementInv, ServiceInv, Accepted
    <2> QED BY <2>1, ServeMoney DEF PaidPast
  <1>3. \A m \in Requests : Body(m)' = Body(m)
    BY <1>1 DEF Body
  <1>4. req'[n].paid => req'[n].stage \notin {"unsent", "gate", "facilitator"}
    BY ServeMoney
  <1> QED BY <1>1, <1>2, <1>3, <1>4 DEF PaidPast, IsExternal

\* How the clock, the charges and the memory move.
LEMMA ServeClock ==
  ASSUME ServiceAssumption, SettlementInv, Clock, UNCHANGED plan, NEW n \in Requests, Serve(n)
  PROVE  Clock'
  <1>0. RetryWindow \in Nat
    BY DEF ServiceAssumption
  <1>1. UNCHANGED <<now, restarts>>
    BY ServeFrame DEF SettlementInv, ServiceInv
  <1>2. CASE UNCHANGED <<charged, remembered>>
    BY <1>1, <1>2 DEF Clock
  <1>3. CASE GateCharge(n)
    BY <1>1, <1>3 DEF GateCharge, Restrict, Clock
  <1>4. CASE FacilitatorPays(n)
    <2>1. /\ req[n].cred \notin DOMAIN charged \cup {NoCred}
          /\ DOMAIN charged' = DOMAIN charged \cup {req[n].cred}
          /\ charged'[req[n].cred].at = now /\ charged'[req[n].cred].epoch = restarts
          /\ \A cred \in DOMAIN charged : charged'[cred] = charged[cred]
          /\ UNCHANGED remembered
      BY <1>4 DEF FacilitatorPays, With
    <2>2. \A key \in DOMAIN remembered : key[1] \in DOMAIN charged
      BY DEF SettlementInv, ServiceInv, RememberedWasCharged
    <2>3. <<req[n].cred, charged'[req[n].cred].body>> \notin DOMAIN remembered
      BY <2>1, <2>2
    <2> QED BY <1>1, <2>1, <2>3 DEF Clock
  <1>5. CASE Respond(n)
    <2>1. UNCHANGED charged /\ (UNCHANGED remembered \/ Remember(n))
      BY <1>5 DEF Respond
    <2>2. CASE Remember(n)
      <3>1. /\ DOMAIN remembered' = DOMAIN remembered \cup {RetryKey(n)}
            /\ remembered'[RetryKey(n)] = now + RetryWindow
            /\ \A key \in DOMAIN remembered \ {RetryKey(n)} : remembered'[key] = remembered[key]
        BY <2>2 DEF Remember, With
      <3>2. \A key \in DOMAIN remembered' : remembered'[key] \in Nat
        BY <1>0, <3>1 DEF Clock
      <3>3. ASSUME NEW cred \in DOMAIN charged,
                   <<cred, charged[cred].body>> \in DOMAIN remembered'
            PROVE  remembered'[<<cred, charged[cred].body>>] >= charged[cred].at + RetryWindow
        BY <1>0, <3>1, <3>3 DEF Clock
      <3> QED BY <1>1, <2>1, <3>2, <3>3 DEF Clock
    <2> QED BY <1>1, <1>2, <2>1, <2>2
  <1> QED BY <1>2, <1>3, <1>4, <1>5, ServeMoneyMoves

LEMMA ServeRecovers ==
  ASSUME ServiceAssumption, PaymentInv, UNCHANGED plan, NEW n \in Requests, Serve(n)
  PROVE  PaidIsRecoverable'
  <1> USE DEF PaymentInv
  <1>1. UNCHANGED <<now, restarts>> /\ \A m \in Requests \ {n} : req'[m] = req[m]
    BY ServeFrame DEF SettlementInv, ServiceInv
  <1>2. RetryWindow \in Nat /\ now \in Nat
    BY DEF ServiceAssumption, Clock
  <1>3. SUFFICES ASSUME NEW cred \in DOMAIN charged' PROVE Accounted(cred)'
    BY DEF PaidIsRecoverable, Accounted
  <1>4. CASE cred \notin DOMAIN charged
    <2>1. FacilitatorPays(n)
      BY <1>3, <1>4, ServeMoney
    <2>2. cred = req[n].cred
      BY <1>3, <1>4, <2>1 DEF FacilitatorPays, With
    <2>3. req'[n].paid /\ req'[n].stage = "queued" /\ req'[n].cred = cred
      BY <2>1, <2>2 DEF FacilitatorPays, ToHandler, SettlementInv, ServiceInv, Shape, Unsent
    <2> QED BY <2>3 DEF Accounted, InFlight
  <1>5. CASE cred \in DOMAIN charged
    <2> DEFINE body == Bodies[charged[cred].body]
               key == <<cred, charged[cred].body>>
    <2>1. charged'[cred] = charged[cred]
      <3>1. CASE FacilitatorPays(n)
        BY <1>5, <3>1 DEF FacilitatorPays, With
      <3> QED BY <3>1, ServeMoney
    <2>2. body.case \in Cases
      BY <1>5 DEF ServiceAssumption, SettlementInv, ServiceInv, ChargedBodies
    <2>3. Accounted(cred)
      BY <1>5 DEF PaidIsRecoverable, Accounted
    <2>4. CASE \E m \in Requests : InFlight(m) /\ req[m].paid /\ req[m].cred = cred
      <3>1. PICK m \in Requests : InFlight(m) /\ req[m].paid /\ req[m].cred = cred
        BY <2>4
      <3>2. CASE m # n
        BY <1>1, <3>1, <3>2 DEF Accounted, InFlight
      <3>3. CASE m = n /\ ~At(n, "responding")
        BY <3>1, <3>3, ServeMoney DEF Accounted
      <3>4. CASE m = n /\ At(n, "responding")
        <4>1. Respond(n) /\ UNCHANGED rows
          BY <3>4 DEF Serve, At, Respond
        <4>2. req[n].body = charged[cred].body
          BY <3>1, <3>4 DEF SettlementInv, ServiceInv, PaidWasCharged
        <4>3. \/ Remember(n)
              \/ ~(req[n].status >= 500)
          BY <3>1, <3>4, <4>1 DEF Respond
        <4>4. CASE Remember(n)
          <5>1. key \in DOMAIN remembered' /\ remembered'[key] = now + RetryWindow
            BY <3>1, <3>4, <4>2, <4>4 DEF Remember, With, RetryKey
          <5>2. charged[cred].at \in Nat /\ charged[cred].at =< now
            BY <1>5 DEF Clock
          <5>3. CASE RetryWindow > 0
            BY <1>1, <1>2, <2>1, <5>1, <5>3 DEF Accounted, Remembers
          <5>4. CASE RetryWindow = 0
            BY <1>1, <1>2, <2>1, <5>2, <5>4 DEF Accounted
          <5> QED BY <1>2, <5>3, <5>4
        <4>5. CASE ~(req[n].status >= 500) /\ req[n].status \in {200, 201}
          BY <2>1, <3>4, <4>1, <4>2, <4>5 DEF Responses, Row, CaseOf, Body, Accounted
        <4>6. CASE ~(req[n].status >= 500) /\ req[n].status \notin {200, 201}
          <5>1. ~IsExternal(Body(n))
            BY <3>1, <3>4 DEF PaidPast
          <5> QED BY <3>4, <4>6, <5>1 DEF Responses
        <4> QED BY <4>3, <4>4, <4>5, <4>6
      <3> QED BY <3>2, <3>3, <3>4
    <2>5. CASE rows[body.case].status = "succeeded" /\ rows[body.case].variant = body.variant
      <3>1. rows'[body.case] = rows[body.case]
        BY <2>2, <2>5, ServeKeepsRows
      <3> QED BY <2>1, <2>5, <3>1 DEF Accounted
    <2>6. CASE Remembers(key)
      <3>1. CASE GateCharge(n)
        <4>1. RetryKey(n) # key
          BY <1>5, <2>6, <3>1 DEF GateCharge, RetryKey, Clock
        <4>2. key \in DOMAIN remembered' /\ remembered'[key] = remembered[key]
          BY <2>6, <3>1, <4>1 DEF GateCharge, Restrict, Remembers
        <4> QED BY <1>1, <2>1, <2>6, <4>2 DEF Accounted, Remembers
      <3>2. CASE Respond(n)
        <4>1. UNCHANGED remembered \/ Remember(n)
          BY <3>2 DEF Respond
        <4>2. key \in DOMAIN remembered'
              /\ remembered'[key] \in {remembered[key], now + RetryWindow}
          BY <2>6, <4>1 DEF Remember, With, Remembers
        <4>3. CASE remembered'[key] > now
          BY <1>1, <2>1, <4>2, <4>3 DEF Accounted, Remembers
        <4>4. CASE ~(remembered'[key] > now)
          <5>1. RetryWindow = 0
            BY <1>2, <2>6, <4>2, <4>4 DEF Remembers, Clock
          <5>2. now >= charged[cred].at + RetryWindow
            BY <1>2, <1>5, <5>1 DEF Clock
          <5> QED BY <1>1, <2>1, <5>2 DEF Accounted
        <4> QED BY <4>3, <4>4
      <3>3. CASE UNCHANGED remembered
        BY <1>1, <2>1, <2>6, <3>3 DEF Accounted, Remembers
      <3>4. FacilitatorPays(n) => UNCHANGED remembered
        BY DEF FacilitatorPays
      <3> QED BY <3>1, <3>2, <3>3, <3>4, ServeMoneyMoves
    <2>7. CASE charged[cred].epoch # restarts \/ now >= charged[cred].at + RetryWindow
      BY <1>1, <2>1, <2>7 DEF Accounted
    <2> QED BY <2>3, <2>4, <2>5, <2>6, <2>7 DEF Accounted
  <1> QED BY <1>4, <1>5

LEMMA ServePays ==
  ASSUME ServiceAssumption, PaymentInv, UNCHANGED plan, NEW n \in Requests, Serve(n)
  PROVE  PaymentInv'
  <1>1. SettlementInv' /\ Turns!MutexInv'
    BY SettlementStep, TurnsStep DEF PaymentInv, SettlementInv, ServiceNext
  <1> QED BY <1>1, ServeTurns, ServeKeepsRows, ServePaidPast, ServeClock, ServeRecovers
          DEF PaymentInv

-----------------------------------------------------------------------------
(* The steps of clients, the verifier, time, and the end of the process *)

LEMMA ArrivePays ==
  ASSUME ServiceAssumption, PaymentInv, UNCHANGED plan, NEW n \in Requests, Arrive(n)
  PROVE  PaymentInv'
  <1> USE DEF PaymentInv
  <1>1. SettlementInv' /\ Turns!MutexInv'
    BY SettlementStep, TurnsStep DEF SettlementInv, ServiceNext
  <1>2. /\ At(n, "unsent") /\ \A m \in Requests \ {n} : req'[m] = req[m]
        /\ req'[n].stage \in {"gate", "answered"} /\ ~req'[n].paid
    BY DEF Arrive, Precheck, SettlementInv, ServiceInv, Shape, Unsent
  <1>3. UNCHANGED <<now, charged, remembered, rows, restarts, phase, keyOf>>
    BY DEF Arrive, mutexVars
  <1>4. \A m \in Requests \ {n} : CaseOf(m)' = CaseOf(m) /\ Body(m)' = Body(m)
    BY <1>2 DEF CaseOf, Body
  <1>5. TurnHeld' /\ RowHeld' /\ Responses' /\ PaidPast'
    BY <1>2, <1>3, <1>4
       DEF TurnHeld, RowHeld, Responses, PaidPast, Inside, AtWork, Row, IsExternal, At
  <1>6. Clock'
    BY <1>3 DEF Clock
  <1>7. PaidIsRecoverable'
    <2>1. \A m \in Requests : InFlight(m) => m # n
      BY <1>2 DEF InFlight, At
    <2>2. \A m \in Requests : InFlight(m) => InFlight(m)' /\ req'[m] = req[m]
      BY <1>2, <2>1 DEF InFlight
    <2> QED BY <1>3, <2>2 DEF PaidIsRecoverable, Remembers
  <1> QED BY <1>1, <1>5, <1>6, <1>7

\* At the end of the process every charge so far is of an earlier one.
LEMMA RestartPays ==
  ASSUME ServiceAssumption, PaymentInv, UNCHANGED plan, Restart
  PROVE  PaymentInv'
  <1> USE DEF PaymentInv
  <1>1. SettlementInv' /\ Turns!MutexInv'
    BY SettlementStep, TurnsStep DEF SettlementInv, ServiceNext
  <1>2. /\ UNCHANGED <<now, charged, rows>> /\ remembered' = <<>> /\ restarts' = restarts + 1
        /\ \A m \in Requests :
            /\ req'[m].stage \in {"unsent", "answered", "dropped"}
            /\ req'[m].stage = "unsent" => At(m, "unsent")
            /\ req'[m].body = req[m].body /\ req'[m].paid = req[m].paid
    BY DEF Restart, InFlight, SettlementInv, ServiceInv, Shape, Unsent, At
  <1>3. TurnHeld' /\ RowHeld' /\ Responses'
    <2>1. \A m \in Requests : phase'[m] \in {"idle", "gone"}
      BY DEF Restart, Mutex!ProcessLost
    <2> QED BY <1>2, <2>1 DEF TurnHeld, RowHeld, Responses, Inside, AtWork, At
  <1>4. PaidPast'
    BY <1>2 DEF PaidPast, At, Body, IsExternal
  <1>5. Clock'
    BY <1>2 DEF Clock
  <1>6. PaidIsRecoverable'
    BY <1>2 DEF Clock, PaidIsRecoverable
  <1> QED BY <1>1, <1>3, <1>4, <1>5, <1>6

\* What is forgotten as time passes has been remembered for the whole window.
LEMMA TickPays ==
  ASSUME ServiceAssumption, PaymentInv, UNCHANGED plan, Tick
  PROVE  PaymentInv'
  <1> USE DEF PaymentInv
  <1>1. SettlementInv' /\ Turns!MutexInv'
    BY SettlementStep, TurnsStep DEF SettlementInv, ServiceNext
  <1>2. /\ UNCHANGED <<req, charged, remembered, rows, restarts, phase, keyOf>>
        /\ now' = now + 1
    BY DEF Tick, mutexVars
  <1>3. TurnHeld' /\ RowHeld' /\ Responses' /\ PaidPast'
    BY <1>2 DEF TurnHeld, RowHeld, Responses, PaidPast, Row, CaseOf, Body, IsExternal, At
  <1>4. Clock'
    BY <1>2 DEF Clock
  <1>5. PaidIsRecoverable'
    <2> SUFFICES ASSUME NEW cred \in DOMAIN charged PROVE Accounted(cred)'
      BY <1>2 DEF PaidIsRecoverable, Accounted
    <2>1. Accounted(cred)
      BY DEF PaidIsRecoverable, Accounted
    <2>2. CASE Remembers(<<cred, charged[cred].body>>)
      BY <1>2, <2>2 DEF Accounted, Remembers, Clock, ServiceAssumption
    <2>3. CASE now >= charged[cred].at + RetryWindow
      BY <1>2, <2>3 DEF Accounted, Clock, ServiceAssumption
    <2> QED BY <1>2, <2>1, <2>2, <2>3 DEF Accounted, InFlight
  <1> QED BY <1>1, <1>3, <1>4, <1>5

LEMMA OthersPay ==
  ASSUME ServiceAssumption, PaymentInv, [ServiceNext]_serviceVars,
         UNCHANGED <<req, now, charged, remembered, rows, restarts, phase, keyOf>>
  PROVE  PaymentInv'
  <1>1. SettlementInv' /\ Turns!MutexInv'
    BY SettlementStep, TurnsStep DEF PaymentInv, SettlementInv
  <1>2. TurnHeld' /\ RowHeld' /\ Responses' /\ PaidPast' /\ Clock'
    BY SMTT(30) DEF PaymentInv, TurnHeld, RowHeld, Responses, PaidPast, Clock, Row, CaseOf, Body,
           IsExternal, At
  <1>3. PaidIsRecoverable'
    BY DEF PaymentInv, PaidIsRecoverable, InFlight, Remembers
  <1> QED BY <1>1, <1>2, <1>3 DEF PaymentInv

LEMMA PaymentStarts == ServiceAssumption /\ ServiceInit => PaymentInv
  <1> SUFFICES ASSUME ServiceAssumption, ServiceInit PROVE PaymentInv
    OBVIOUS
  <1>1. Turns!MutexInv
    <2>1. Turns!MutexParameters /\ Turns!MutexInit
      BY DEF ServiceInit, Mutex!MutexInit, Turns!MutexInit, Turns!MutexParameters, Requests,
             NoRequest
    <2> QED BY <2>1, Turns!MutexStarts
  <1>2. \A n \in Requests : req[n].stage = "unsent" /\ ~req[n].paid
    BY DEF ServiceInit, Unsent
  <1>3. TurnHeld /\ RowHeld /\ Responses /\ PaidPast
    <2>1. \A n \in Requests : phase[n] = "idle"
      BY DEF ServiceInit, Mutex!MutexInit
    <2> QED BY <1>2, <2>1 DEF TurnHeld, RowHeld, Responses, PaidPast, Inside, AtWork, At
  <1>4. DOMAIN charged = {} /\ DOMAIN remembered = {} /\ now = 0 /\ restarts = 0
    BY DEF ServiceInit
  <1>5. Clock /\ PaidIsRecoverable
    BY <1>4 DEF Clock, PaidIsRecoverable
  <1> QED BY <1>1, <1>3, <1>5, SettlementStarts DEF PaymentInv

LEMMA PaymentStep ==
  ServiceAssumption /\ PaymentInv /\ [ServiceNext]_serviceVars => PaymentInv'
  <1> SUFFICES ASSUME ServiceAssumption, PaymentInv, [ServiceNext]_serviceVars
               PROVE  PaymentInv'
    OBVIOUS
  <1>1. CASE UNCHANGED serviceVars
    BY <1>1, OthersPay DEF serviceVars, mutexVars
  <1>2. ASSUME NEW n \in Requests, UNCHANGED plan, Arrive(n) PROVE PaymentInv'
    BY <1>2, ArrivePays
  <1>3. ASSUME NEW n \in Requests, UNCHANGED plan, Serve(n) PROVE PaymentInv'
    BY <1>3, ServePays
  <1>4. ASSUME NEW n \in Requests, UNCHANGED plan, VerifierStep(n) PROVE PaymentInv'
    BY <1>4, OthersPay DEF VerifierStep, mutexVars
  <1>5. CASE UNCHANGED plan /\ Restart
    BY <1>5, RestartPays
  <1>6. CASE UNCHANGED plan /\ Tick
    BY <1>6, TickPays
  <1> QED BY <1>1, <1>2, <1>3, <1>4, <1>5, <1>6 DEF ServiceNext

\* Every charge is accounted for: its request is on its way, its case has
\* succeeded, or the same request passes free; unless the process ended or the
\* window has passed (x402-server.ts, paid-retry.ts, run-store.ts).
THEOREM AlwaysPaidIsRecoverable == ServiceSpec => []PaidIsRecoverable
  <1>1. PaymentInv => PaidIsRecoverable
    BY DEF PaymentInv
  <1> QED BY <1>1, ServiceAssumption, PaymentStarts, PaymentStep, PTL DEF ServiceSpec

----------------------------------------------------------------------------
(***************************************************************************)
(* Nothing is left behind, for any number of requests, restarts and calls  *)
(* that time out.  The verifier settles a job once, so it answers at most  *)
(* one call about it, and what is parked is one entry for that answer: the *)
(* request that parked it is the one that takes it (OneAnswer).            *)
(***************************************************************************)

Answering(n) == calls[n].status = "answered"
OneAnswer ==
    /\ \A n, m \in Requests : Answering(n) /\ Answering(m) /\ JobOf(n) = JobOf(m) => n = m
    /\ \A n \in Requests : Answering(n) => \A k \in DOMAIN parked : parked[k].job # JobOf(n)
    /\ \A k, l \in DOMAIN parked : parked[k].job = parked[l].job => k = l
    /\ \A k \in DOMAIN parked :
        /\ parked[k].job = BodyJob(parked[k].sa)
        /\ \E n \in Requests : At(n, "verified") /\ JobOf(n) = parked[k].job

\* A step that brings no answer and parks nothing; who leaves the settlement
\* finds nothing there.
LEMMA QuietAnswers ==
  ASSUME SettlementInv, OneAnswer, UNCHANGED parked,
         \A m \in Requests : Answering(m)' => Answering(m),
         \A m \in Requests : ~At(m, "unsent") => req'[m].body = req[m].body,
         \A m \in Requests : At(m, "verified") =>
            \/ At(m, "verified")'
            \/ \A k \in DOMAIN parked : parked[k].job # JobOf(m)
  PROVE  OneAnswer'
  <1>1. \A m \in Requests : Answering(m) \/ At(m, "verified") => JobOf(m)' = JobOf(m)
    BY DEF SettlementInv, NoCallYet, Answering, JobOf, Body, At
  <1>2. \A k \in DOMAIN parked : \E m \in Requests : At(m, "verified")' /\ JobOf(m)' = parked[k].job
    BY <1>1 DEF OneAnswer
  <1> QED BY <1>1, <1>2 DEF OneAnswer

LEMMA ServeCallAnswersOnce ==
  ASSUME SettlementInv, OneAnswer, NEW n \in Requests, VerifierStep(n)
  PROVE  OneAnswer'
  <1>1. /\ UNCHANGED <<req, parked>>
        /\ \A m \in Requests \ {n} : calls'[m] = calls[m]
        /\ calls'[n].status = "answered" => jobs[JobOf(n)] = "submitted"
    BY DEF VerifierStep, Verifier!ServeCall, Verifier!NoCall, SettlementInv, RemoteShape
  <1>2. \A m \in Requests : JobOf(m)' = JobOf(m) /\ At(m, "verified")' = At(m, "verified")
    BY <1>1 DEF JobOf, Body, At
  <1>3. \A job, action : SettledAs(job, action) => jobs[job] # "submitted"
    BY DEF SettledAs, Verifier!Action, Verifier!EndState
  <1>4. CASE jobs[JobOf(n)] = "submitted"
    <2>1. \A m \in Requests : Answering(m) => JobOf(m) # JobOf(n)
      BY <1>3, <1>4 DEF SettlementInv, CallsRight, Answering
    <2>2. \A k \in DOMAIN parked : parked[k].job # JobOf(n)
      BY <1>3, <1>4 DEF SettlementInv, ParkedRight
    <2> QED BY <1>1, <1>2, <2>1, <2>2 DEF OneAnswer, Answering
  <1>5. CASE calls'[n].status # "answered"
    BY <1>1, <1>5, QuietAnswers DEF Answering, At
  <1> QED BY <1>1, <1>4, <1>5

LEMMA ReceiveParksOnce ==
  ASSUME ServiceAssumption, SettlementInv, OneAnswer, NEW n \in Requests, At(n, "verifying"),
         VerifierAnswers(n)
  PROVE  OneAnswer'
  <1> DEFINE e == [sa |-> Body(n), job |-> JobOf(n), action |-> calls[n].action]
  <1>1. /\ Answering(n) /\ parked' = Verifier!Park(parked, e)
        /\ calls' = [calls EXCEPT ![n] = Verifier!NoCall] /\ Goto(n, "verified")
    BY DEF VerifierAnswers, Verifier!ReceiveAnswer, Answering
  <1>2. /\ \A m \in Requests \ {n} : req'[m] = req[m] /\ calls'[m] = calls[m]
        /\ req'[n].body = req[n].body /\ At(n, "verified")' /\ ~Answering(n)'
    BY <1>1 DEF Goto, At, Answering, Verifier!NoCall, SettlementInv, ServiceInv, Shape, Unsent,
                RemoteShape
  <1>3. \A m \in Requests : JobOf(m)' = JobOf(m)
    BY <1>2 DEF JobOf, Body
  <1>4. \A k \in DOMAIN parked : parked[k].job # JobOf(n) /\ parked[k].sa # e.sa
    BY <1>1 DEF OneAnswer, JobOf
  <1>5. e.sa = Body(n) /\ e.job = JobOf(n) /\ e.job = BodyJob(e.sa)
    BY DEF JobOf
  <1>6. parked \in Seq(Parkings) /\ e \in Parkings
    <2>1. e.action \in Verifier!Action
      BY <1>1 DEF SettlementInv, CallsRight, SettledAs, Answering
    <2>2. JobOf(n) \in Jobs /\ Body(n) \in {Bodies[b] : b \in DOMAIN Bodies}
      BY BodiesHaveJobs DEF SettlementInv, At
    <2> QED BY <2>1, <2>2 DEF Parkings, SettlementInv, RemoteShape
  <1> HIDE DEF e
  <1>7. parked' = Append(parked, e)
    BY <1>1, <1>4, <1>6 DEF Verifier!Park, Verifier!ToSet, ToSet
  <1>8. /\ DOMAIN parked' = DOMAIN parked \cup {Len(parked) + 1}
        /\ parked'[Len(parked) + 1] = e
        /\ \A k \in DOMAIN parked : parked'[k] = parked[k] /\ k # Len(parked) + 1
    BY <1>6, <1>7
  <1>9. \A m \in Requests : At(m, "verified") => At(m, "verified")'
    BY <1>2 DEF At
  <1>10. \A m \in Requests : Answering(m)' => Answering(m) /\ m # n
    BY <1>2 DEF Answering
  <1>11. \A m \in Requests : Answering(m)' => JobOf(m) # JobOf(n)
    BY <1>1, <1>10 DEF OneAnswer
  <1>12. \A k \in DOMAIN parked' :
            \/ k \in DOMAIN parked /\ parked'[k] = parked[k]
            \/ k = Len(parked) + 1 /\ parked'[k] = e
    BY <1>8
  <1>13. \A k, l \in DOMAIN parked' : parked'[k].job = parked'[l].job => k = l
    BY <1>4, <1>5, <1>12 DEF OneAnswer
  <1>14. ASSUME NEW k \in DOMAIN parked'
         PROVE  /\ parked'[k].job = BodyJob(parked'[k].sa)
                /\ \E m \in Requests : At(m, "verified")' /\ JobOf(m)' = parked'[k].job
    <2>1. CASE k \in DOMAIN parked /\ parked'[k] = parked[k]
      BY <1>3, <1>9, <2>1 DEF OneAnswer
    <2>2. CASE parked'[k] = e
      BY <1>2, <1>3, <1>5, <2>2
    <2> QED BY <1>12, <2>1, <2>2
  <1>15. \A m \in Requests : Answering(m)' => \A k \in DOMAIN parked' : parked'[k].job # JobOf(m)'
    BY <1>3, <1>5, <1>10, <1>11, <1>12 DEF OneAnswer
  <1>16. \A q, m \in Requests : Answering(q)' /\ Answering(m)' /\ JobOf(q)' = JobOf(m)' => q = m
    BY <1>3, <1>10 DEF OneAnswer
  <1> QED BY <1>13, <1>14, <1>15, <1>16 DEF OneAnswer

LEMMA SettlesTakesIts ==
  ASSUME SettlementInv, OneAnswer, NEW n \in Requests, Settles(n)
  PROVE  OneAnswer'
  <1>1. PICK m \in Verifier!FirstParked(JobOf(n)) :
            /\ req' = [req EXCEPT ![n].stage = "settled", ![n].action = parked[m].action]
            /\ Verifier!TakeParked(m)
    BY DEF Settles
  <1>2. m \in DOMAIN parked /\ parked[m].job = JobOf(n) /\ UNCHANGED calls
    BY <1>1 DEF Verifier!FirstParked, Verifier!TakeParked
  <1>3. parked' = RemoveAt(parked, m)
    BY <1>1 DEF Verifier!TakeParked, Verifier!RemoveAt, RemoveAt
  <1>4. /\ \A q \in Requests \ {n} : req'[q] = req[q]
        /\ \A q \in Requests : req'[q].body = req[q].body
    BY <1>1 DEF SettlementInv, ServiceInv, Shape, Unsent
  <1>5. \A q \in Requests : JobOf(q)' = JobOf(q) /\ Answering(q)' = Answering(q)
    BY <1>2, <1>4 DEF JobOf, Body, Answering
  <1> DEFINE old(k) == IF k < m THEN k ELSE k + 1
  <1>6. /\ \A k \in DOMAIN parked' : old(k) \in DOMAIN parked \ {m} /\ parked'[k] = parked[old(k)]
        /\ \A k, l \in DOMAIN parked' : old(k) = old(l) => k = l
    <2>1. /\ parked \in Seq(Parkings) /\ parked' \in Seq(Parkings)
          /\ Len(parked') = Len(parked) - 1
          /\ \A k \in 1..Len(parked) - 1 : parked'[k] = parked[old(k)]
      BY <1>2, <1>3, RemoveAtShifts DEF SettlementInv, RemoteShape
    <2> QED BY <1>2, <2>1, SMTT(30)
  <1> HIDE DEF old
  <1>7. \A k \in DOMAIN parked' : parked'[k].job # JobOf(n)
    BY <1>2, <1>6 DEF OneAnswer
  <1>8. \A k \in DOMAIN parked' : \E q \in Requests : At(q, "verified")' /\ JobOf(q) = parked'[k].job
    <2> SUFFICES ASSUME NEW k \in DOMAIN parked'
                 PROVE  \E q \in Requests : At(q, "verified")' /\ JobOf(q) = parked'[k].job
      OBVIOUS
    <2>1. PICK q \in Requests : At(q, "verified") /\ JobOf(q) = parked'[k].job
      BY <1>6 DEF OneAnswer
    <2> QED BY <1>4, <1>7, <2>1 DEF At
  <1> QED BY <1>5, <1>6, <1>8 DEF OneAnswer

\* The other steps of a request.
LEMMA ServeQuietly ==
  ASSUME SettlementInv, NEW n \in Requests, UNCHANGED plan, Serve(n),
         ~VerifierAnswers(n), ~Settles(n)
  PROVE  /\ UNCHANGED parked
         /\ \A m \in Requests : Answering(m)' => Answering(m)
         /\ At(n, "verified") => Verifier!FirstParked(JobOf(n)) = {}
  <1> USE DEF SettlementInv, RemoteShape
  <1>1. CASE UNCHANGED remoteVars
    BY <1>1 DEF remoteVars, Answering, Serve, Settlement, NothingToSettle, At
  <1>2. CASE Submits(n)
    BY <1>2 DEF Submits, Answering, At
  <1>3. CASE At(n, "verifying") /\ VerifierUnreachable(n)
    BY <1>3 DEF VerifierUnreachable, Verifier!CallFailed, Verifier!NoCall, Answering, At
  <1>4. CASE At(n, "verified") /\ NothingToSettle(n)
    BY <1>4 DEF NothingToSettle, remoteVars, Answering
  <1> QED BY <1>1, <1>2, <1>3, <1>4
          DEF Serve, Gate, GateExternal, GateRetry, GateCharge, Charge, FacilitatorPays,
              FacilitatorRefuses, Turn, Admission, AdmissionRefused, AdmissionReplay,
              AdmissionRuns, Working, RunFails, ExternalJobRefused, Adopts, Verification,
              Settlement, Succeeds, Respond

LEMMA OneAnswerStep ==
  ServiceAssumption /\ SettlementInv /\ OneAnswer /\ [ServiceNext]_serviceVars => OneAnswer'
  <1> SUFFICES ASSUME ServiceAssumption, SettlementInv, OneAnswer, [ServiceNext]_serviceVars
               PROVE  OneAnswer'
    OBVIOUS
  <1>1. CASE UNCHANGED <<req, calls, parked>>
    BY <1>1, QuietAnswers DEF Answering, At
  <1>2. ASSUME NEW n \in Requests, Arrive(n) PROVE OneAnswer'
    <2>1. /\ UNCHANGED <<calls, parked>> /\ At(n, "unsent")
          /\ \A m \in Requests \ {n} : req'[m] = req[m]
      BY <1>2 DEF Arrive, remoteVars, SettlementInv, ServiceInv, Shape
    <2> QED BY <2>1, QuietAnswers DEF Answering, At
  <1>3. ASSUME NEW n \in Requests, UNCHANGED plan, Serve(n) PROVE OneAnswer'
    <2>1. CASE VerifierAnswers(n)
      BY <2>1, ReceiveParksOnce DEF VerifierAnswers
    <2>2. CASE Settles(n)
      BY <2>2, SettlesTakesIts
    <2>3. CASE ~VerifierAnswers(n) /\ ~Settles(n)
      <3>1. /\ \A m \in Requests \ {n} : req'[m] = req[m]
            /\ \A m \in Requests : req'[m].body = req[m].body
        BY <1>3, ServeFrame DEF SettlementInv, ServiceInv
      <3>2. At(n, "verified") => \A k \in DOMAIN parked : parked[k].job # JobOf(n)
        <4> SUFFICES ASSUME At(n, "verified"), NEW k \in DOMAIN parked, parked[k].job = JobOf(n)
                     PROVE  FALSE
          OBVIOUS
        <4>1. parked \in Seq(Parkings)
          BY DEF SettlementInv, RemoteShape
        <4>2. \A l \in 1..k - 1 : l \in DOMAIN parked /\ l # k
          BY <4>1
        <4>3. k \in Verifier!FirstParked(JobOf(n))
          BY <4>2 DEF Verifier!FirstParked, OneAnswer
        <4> QED BY <1>3, <2>3, <4>3, ServeQuietly
      <3>3. UNCHANGED parked /\ \A m \in Requests : Answering(m)' => Answering(m)
        BY <1>3, <2>3, ServeQuietly
      <3> QED BY <3>1, <3>2, <3>3, QuietAnswers DEF At
    <2> QED BY <2>1, <2>2, <2>3
  <1>4. ASSUME NEW n \in Requests, VerifierStep(n) PROVE OneAnswer'
    BY <1>4, ServeCallAnswersOnce
  <1>5. CASE Restart
    <2>1. /\ parked' = <<>> /\ UNCHANGED calls
          /\ \A m \in Requests : req'[m].body = req[m].body
      BY <1>5 DEF Restart, SettlementInv, ServiceInv, Shape, Unsent
    <2>2. \A m \in Requests : JobOf(m)' = JobOf(m) /\ Answering(m)' = Answering(m)
      BY <2>1 DEF JobOf, Body, Answering
    <2> QED BY <2>1, <2>2 DEF OneAnswer
  <1>6. CASE Tick
    BY <1>1, <1>6 DEF Tick, remoteVars
  <1> QED BY <1>1, <1>2, <1>3, <1>4, <1>5, <1>6 DEF ServiceNext, serviceVars, remoteVars

\* When every request has been answered or dropped nothing of them is left in
\* memory: no settlement that a later request of the same job could take for its
\* own, and no key in the mutex (verify-client.ts, keyed-mutex.ts).
THEOREM AlwaysNothingLeftBehind == ServiceSpec => []NothingLeftBehind
  <1>1. ServiceAssumption /\ ServiceInit => OneAnswer
    BY DEF ServiceInit, Verifier!RemoteInit, Verifier!NoCall, OneAnswer, Answering
  <1>2. PaymentInv /\ OneAnswer => NothingLeftBehind
    <2> SUFFICES ASSUME PaymentInv, OneAnswer, \A n \in Requests : ~InFlight(n)
                 PROVE  parked = <<>> /\ \A c \in Cases : tails[c] = NoRequest
      BY DEF NothingLeftBehind
    <2>1. parked = <<>>
      <3>1. DOMAIN parked = {}
        BY DEF OneAnswer, InFlight, At
      <3>2. parked \in Seq(Parkings)
        BY DEF PaymentInv, SettlementInv, RemoteShape
      <3> QED BY <3>1, <3>2
    <2>2. ASSUME NEW c \in Cases PROVE tails[c] = NoRequest
      <3>1. tails[c] # NoRequest =>
                tails[c] \in Requests /\ phase[tails[c]] \in {"queued", "inside"}
        BY DEF PaymentInv, Turns!MutexInv, Turns!MutexTypes, Turns!TailHasNotLeft
      <3> QED BY <3>1 DEF PaymentInv, TurnHeld, Inside, AtWork, InFlight
    <2> QED BY <2>1, <2>2
  <1>3. PaymentInv => SettlementInv
    BY DEF PaymentInv
  <1> QED BY <1>1, <1>2, <1>3, ServiceAssumption, PaymentStarts, PaymentStep, OneAnswerStep, PTL
          DEF ServiceSpec

----------------------------------------------------------------------------
(***************************************************************************)
(* The limiter, for any number of clients, any window and any bound of its *)
(* map: the map stays within the bound, and a bucket that is still in its  *)
(* window goes only when the map is full of such buckets.                  *)
(***************************************************************************)

IsList(s) == s \in Seq(ToSet(s))

LEMMA SequencesAreLists == ASSUME NEW T, NEW s \in Seq(T) PROVE IsList(s)
  BY DEF IsList, ToSet

LEMMA KeptBuckets ==
  ASSUME NEW list, IsList(list), NEW kept, kept \subseteq DOMAIN list
  PROVE  /\ IsList(Kept(list, kept))
         /\ Len(Kept(list, kept)) =< Len(list)
         /\ Len(Kept(list, kept)) = Len(list) => kept = DOMAIN list
         /\ \A n \in kept : list[n] \in ToSet(Kept(list, kept))
  <1> DEFINE Place(n) == Cardinality({m \in kept : m =< n})
             At_(k) == list[CHOOSE n \in kept : Place(n) = k]
  <1>1. /\ DOMAIN list = 1..Len(list) /\ Len(list) \in Nat
        /\ IsFiniteSet(1..Len(list)) /\ Cardinality(1..Len(list)) = Len(list)
    <2>1. DOMAIN list = 1..Len(list) /\ Len(list) \in Nat
      BY DEF IsList
    <2>2. 0 \in Int /\ 1 \in Int /\ Len(list) \in Int
      BY <2>1
    <2>3. IsFiniteSet(1..Len(list))
      BY <2>2, FS_Interval
    <2>4. Cardinality(1..Len(list)) = IF 1 > Len(list) THEN 0 ELSE Len(list) - 1 + 1
      BY <2>2, FS_Interval
    <2>5. Cardinality(1..Len(list)) = Len(list)
      BY <2>1, <2>4
    <2> QED BY <2>1, <2>3, <2>5
  <1>2. /\ IsFiniteSet(kept) /\ Cardinality(kept) \in Nat
        /\ Cardinality(kept) =< Len(list)
        /\ Cardinality(kept) = Len(list) => kept = DOMAIN list
    BY <1>1, FS_Subset, FS_CardinalityType
  <1>3. PICK c \in Nat : c = Cardinality(kept)
    BY <1>2
  <1>4. Kept(list, kept) = [k \in 1..c |-> At_(k)]
    BY <1>3 DEF Kept
  <1>5. Kept(list, kept) \in Seq({At_(k) : k \in 1..c}) /\ Len(Kept(list, kept)) = c
    <2> HIDE DEF At_
    <2> QED BY <1>4
  <1>6. ASSUME NEW n \in kept PROVE list[n] \in ToSet(Kept(list, kept))
    <2>1. \A m \in kept : {x \in kept : x =< m} \in SUBSET kept
      OBVIOUS
    <2>2. \A m \in kept : /\ IsFiniteSet({x \in kept : x =< m})
                          /\ Place(m) \in Nat /\ Place(m) =< c
      BY <1>2, <1>3, <2>1, FS_Subset, FS_CardinalityType
    <2>3. ASSUME NEW m \in kept, NEW q \in kept, m < q PROVE Place(m) # Place(q)
      <3>1. {x \in kept : x =< m} \subseteq {x \in kept : x =< q}
        BY <1>1, <2>3
      <3>2. q \in {x \in kept : x =< q} /\ q \notin {x \in kept : x =< m}
        BY <1>1, <2>3
      <3> QED BY <2>2, <3>1, <3>2, FS_Subset
    <2>4. Place(n) # 0
      <3>1. n \in {x \in kept : x =< n}
        BY <1>1
      <3> QED BY <2>2, <3>1, FS_EmptySet
    <2>5. Place(n) \in 1..c
      BY <2>2, <2>4
    <2>6. \A m \in kept : Place(m) = Place(n) => m = n
      <3> HIDE DEF Place
      <3> QED BY <1>1, <2>3
    <2>7. (CHOOSE m \in kept : Place(m) = Place(n)) = n
      BY <2>6
    <2>8. Kept(list, kept)[Place(n)] = list[n]
      BY <1>4, <2>5, <2>7
    <2>9. DOMAIN Kept(list, kept) = 1..c
      BY <1>4
    <2> HIDE DEF Place
    <2> QED BY <2>5, <2>8, <2>9 DEF ToSet
  <1> QED BY <1>2, <1>3, <1>5, <1>6, SequencesAreLists

\* What is left when room was made: within the bound, with room for one more.
LEMMA RoomMade ==
  ASSUME NEW list, IsList(list), Len(list) =< MaxBuckets, NEW t
  PROVE  /\ IsList(MakeRoom(list, t)) /\ Len(MakeRoom(list, t)) + 1 =< MaxBuckets
         /\ \A b \in ToSet(list) :
              \/ b \in ToSet(MakeRoom(list, t)) \/ Expired(b, t)
              \/ Len(list) = MaxBuckets /\ \A other \in ToSet(list) : ~Expired(other, t)
  <1>1. PICK live : live = Kept(list, Live(list, t))
    OBVIOUS
  <1>2. MaxBuckets \in Nat \ {0} /\ Len(list) \in Nat /\ DOMAIN list = 1..Len(list)
    BY RateLimiterAssumption DEF RateLimiterAssumption, IsList
  <1>3. /\ IsList(live) /\ Len(live) \in Nat /\ Len(live) =< Len(list)
        /\ Len(live) = Len(list) => Live(list, t) = DOMAIN list
        /\ \A n \in Live(list, t) : list[n] \in ToSet(live)
    <2>1. Live(list, t) \subseteq DOMAIN list
      BY DEF Live
    <2>2. IsList(live) => Len(live) \in Nat
      BY DEF IsList
    <2> QED BY <1>1, <2>1, <2>2, KeptBuckets
  <1>4. MakeRoom(list, t) = IF Len(list) < MaxBuckets THEN list
                            ELSE IF Len(live) < MaxBuckets THEN live ELSE Tail(live)
    BY <1>1 DEF MakeRoom
  <1>5. ASSUME ~(Len(live) < MaxBuckets)
        PROVE  IsList(Tail(live)) /\ Len(Tail(live)) + 1 = Len(live)
    <2>1. live \in Seq(ToSet(live)) /\ live # <<>>
      BY <1>2, <1>3, <1>5 DEF IsList
    <2>2. Tail(live) \in Seq(ToSet(live)) /\ Len(Tail(live)) = Len(live) - 1
      BY <2>1
    <2>3. IsList(Tail(live))
      BY <2>2, SequencesAreLists
    <2> QED BY <1>3, <2>2, <2>3
  <1>6. IsList(MakeRoom(list, t)) /\ Len(MakeRoom(list, t)) + 1 =< MaxBuckets
    BY <1>2, <1>3, <1>4, <1>5
  <1>7. ASSUME NEW b \in ToSet(list), ~Expired(b, t), b \notin ToSet(MakeRoom(list, t))
        PROVE  Len(list) = MaxBuckets /\ \A other \in ToSet(list) : ~Expired(other, t)
    <2>1. PICK n \in DOMAIN list : list[n] = b
      BY DEF ToSet
    <2>2. b \in ToSet(live)
      BY <1>3, <1>7, <2>1 DEF Live
    <2>3. ~(Len(list) < MaxBuckets) /\ ~(Len(live) < MaxBuckets)
      BY <1>4, <1>7, <2>2
    <2>4. Len(list) = MaxBuckets /\ Live(list, t) = DOMAIN list
      <3>1. /\ Len(list) \in Nat /\ Len(live) \in Nat /\ MaxBuckets \in Nat
            /\ Len(list) =< MaxBuckets /\ Len(live) =< Len(list)
        BY <1>2, <1>3
      <3>2. Len(list) = MaxBuckets /\ Len(live) = Len(list)
        BY <2>3, <3>1
      <3> QED BY <1>3, <3>2
    <2>5. \A m \in DOMAIN list : ~Expired(list[m], t)
      BY <2>4 DEF Live
    <2> QED BY <2>4, <2>5 DEF ToSet
  <1> QED BY <1>6, <1>7

\* What a request does to the map.
LEMMA KeyIsTouched ==
  ASSUME NEW list, IsList(list), Len(list) =< MaxBuckets, NEW key, NEW t,
         NEW touched, touched = Touched(list, key, t)
  PROVE  /\ IsList(touched) /\ Len(touched) =< MaxBuckets
         /\ \A b \in ToSet(list) :
              \/ HasBucket(touched, b.key) \/ Expired(b, t)
              \/ /\ Len(list) = MaxBuckets /\ \E new \in ToSet(touched) : ~HasBucket(list, new.key)
                 /\ \A other \in ToSet(list) : ~Expired(other, t)
  <1>1. PICK counted : counted = Counted(list, key, t)
    OBVIOUS
  <1>2. counted.key = key
    BY <1>1 DEF Counted
  <1>3. CASE HasBucket(list, key)
    <2>1. touched = [n \in DOMAIN list |-> IF list[n].key = key THEN counted ELSE list[n]]
      BY <1>1, <1>3 DEF Touched
    <2>2. DOMAIN list = 1..Len(list) /\ Len(list) \in Nat
      BY DEF IsList
    <2>3. touched \in Seq({touched[n] : n \in 1..Len(list)}) /\ Len(touched) = Len(list)
      <3> DEFINE At_(n) == IF list[n].key = key THEN counted ELSE list[n]
      <3>1. touched = [n \in 1..Len(list) |-> At_(n)]
        BY <2>1, <2>2
      <3>2. PICK size \in Nat : size = Len(list)
        BY <2>2
      <3> HIDE DEF At_
      <3>3. touched = [n \in 1..size |-> At_(n)]
        BY <3>1, <3>2
      <3>4. touched \in [1..size -> {touched[n] : n \in 1..size}]
        BY <3>3
      <3>5. touched \in Seq({touched[n] : n \in 1..size}) /\ Len(touched) = size
        BY <3>3, <3>4
      <3> QED BY <3>2, <3>5
    <2>4. ASSUME NEW b \in ToSet(list) PROVE HasBucket(touched, b.key)
      <3>1. PICK n \in DOMAIN list : list[n] = b
        BY DEF ToSet
      <3>2. touched[n].key = b.key /\ n \in DOMAIN touched
        BY <1>2, <2>1, <3>1
      <3> QED BY <3>2 DEF HasBucket, ToSet
    <2> QED BY <2>3, <2>4, SequencesAreLists
  <1>4. CASE ~HasBucket(list, key)
    <2>1. PICK room : room = MakeRoom(list, t)
      OBVIOUS
    <2>2. touched = Append(room, counted)
      BY <1>1, <1>4, <2>1 DEF Touched
    <2>3. IsList(room) /\ Len(room) + 1 =< MaxBuckets
      BY <2>1, RoomMade
    <2>4. /\ touched \in Seq(ToSet(room) \cup {counted}) /\ Len(touched) = Len(room) + 1
          /\ ToSet(room) \subseteq ToSet(touched) /\ counted \in ToSet(touched)
      <3>1. room \in Seq(ToSet(room) \cup {counted}) /\ Len(room) \in Nat
            /\ DOMAIN room = 1..Len(room)
        BY <2>3 DEF IsList, ToSet
      <3>2. touched \in Seq(ToSet(room) \cup {counted}) /\ Len(touched) = Len(room) + 1
        BY <2>2, <3>1
      <3>3. touched[Len(room) + 1] = counted /\ \A n \in DOMAIN room : touched[n] = room[n]
        BY <2>2, <3>1
      <3>4. DOMAIN room \subseteq DOMAIN touched /\ Len(room) + 1 \in DOMAIN touched
        BY <3>1, <3>2
      <3> QED BY <3>2, <3>3, <3>4 DEF ToSet
    <2>5. ASSUME NEW b \in ToSet(list), ~HasBucket(touched, b.key), ~Expired(b, t)
          PROVE  Len(list) = MaxBuckets /\ \A other \in ToSet(list) : ~Expired(other, t)
      <3>1. b \notin ToSet(room)
        BY <2>4, <2>5 DEF HasBucket
      <3> QED BY <2>1, <2>5, <3>1, RoomMade
    <2>6. \E new \in ToSet(touched) : ~HasBucket(list, new.key)
      BY <1>2, <1>4, <2>4
    <2> QED BY <2>3, <2>4, <2>5, <2>6, SequencesAreLists
  <1> QED BY <1>3, <1>4

\* The map of the limiter, and the types of what is kept about a request, a case
\* and a job.
BucketsBounded == IsList(buckets) /\ Len(buckets) =< MaxBuckets
RequestTyped(x) ==
    /\ x.stage \in Stages
    /\ x.status \in {0, 200, 201, 400, 402, 409, 429, 500, 502}
    /\ ~(x.paid /\ x.free)
RequestTypes == \A n \in Requests : RequestTyped(req[n]) /\ (At(n, "unsent") => req[n].body = "")
RowTypes == \A c \in Cases : rows[c].status \in {"none", "running", "failed", "succeeded"}
JobTypes == \A j \in Jobs : jobs[j] \in {"funded", "submitted", "completed", "rejected"}
ServiceTypes == BucketsBounded /\ RequestTypes /\ RowTypes /\ JobTypes

LEMMA ServeKeepsBuckets == ASSUME NEW n \in Requests, Serve(n) PROVE UNCHANGED buckets
  BY ZenonT(30)
     DEF Serve, Gate, GateExternal, GateRetry, GateCharge, Charge, FacilitatorPays,
         FacilitatorRefuses, Turn, Admission, AdmissionRefused, AdmissionReplay, AdmissionRuns,
         Working, RunFails, ExternalJobRefused, Adopts, Submits, Verification, VerifierAnswers,
         VerifierUnreachable, Settlement, Settles, NothingToSettle, Succeeds, Respond

\* What a step does to a request: it moves on, it ends with a status, or it passes.
MovesTo(n, stages) ==
    req'[n].stage \in stages /\ \A f \in DOMAIN Unsent \ {"stage", "action"} : req'[n][f] = req[n][f]
EndsWith(n, statuses) ==
    /\ req'[n].stage \in {"answered", "responding"} /\ req'[n].status \in statuses
    /\ \A f \in {"paid", "free"} : req'[n][f] = req[n][f]
Passes(n) ==
    /\ req'[n].stage = "queued" /\ ~(req'[n].paid /\ req'[n].free)
    /\ req'[n].status = req[n].status

LEMMA ServeMoves ==
  ASSUME Shape, NEW n \in Requests, Serve(n)
  PROVE  \/ MovesTo(n, Stages) \/ Passes(n)
         \/ EndsWith(n, {req[n].status, 200, 201, 402, 409, 500, 502})
  <1>1. DOMAIN req = Requests /\ DOMAIN req[n] = DOMAIN Unsent
    BY DEF Shape
  <1>2. ASSUME NEW stage \in Stages, Goto(n, stage) PROVE MovesTo(n, Stages)
    BY <1>1, <1>2 DEF Goto, MovesTo, Unsent
  <1>3. ASSUME NEW status, Answer(n, status) PROVE EndsWith(n, {status})
    BY <1>1, <1>3 DEF Answer, EndsWith, Unsent
  <1>4. ASSUME NEW status, NEW action, EndRun(n, status, action) PROVE EndsWith(n, {status})
    BY <1>1, <1>4 DEF EndRun, EndsWith, Unsent
  <1>5. ASSUME NEW paid, NEW free, ToHandler(n, paid, free), ~(paid /\ free) PROVE Passes(n)
    BY <1>1, <1>5 DEF ToHandler, Passes, Unsent
  <1>6. ASSUME Settles(n) PROVE MovesTo(n, Stages)
    BY <1>1, <1>6 DEF Settles, MovesTo, Unsent, Stages
  <1>7. CASE At(n, "gate") /\ Gate(n)
    BY <1>2, <1>5, <1>7 DEF Gate, GateExternal, GateRetry, GateCharge, Stages
  <1>8. CASE At(n, "facilitator") /\ Charge(n)
    <2>1. FacilitatorPays(n) => Passes(n)
      BY <1>5 DEF FacilitatorPays
    <2>2. FacilitatorRefuses(n) => EndsWith(n, {402}) \/ EndsWith(n, {502})
      BY <1>3 DEF FacilitatorRefuses
    <2> QED BY <1>8, <2>1, <2>2 DEF Charge, EndsWith
  <1>9. CASE At(n, "queued") /\ Turn(n)
    BY <1>2, <1>9 DEF Turn, Stages
  <1>10. CASE At(n, "admission") /\ Admission(n)
    <2>1. AdmissionRefused(n) => EndsWith(n, {500})
      BY <1>4 DEF AdmissionRefused
    <2>2. AdmissionReplay(n) => EndsWith(n, {200})
      BY <1>4 DEF AdmissionReplay
    <2>3. AdmissionRuns(n) => MovesTo(n, Stages)
      BY <1>2 DEF AdmissionRuns, Stages
    <2> QED BY <1>10, <2>1, <2>2, <2>3 DEF Admission, EndsWith
  <1>11. RunFails(n) \/ ExternalJobRefused(n) => EndsWith(n, {409}) \/ EndsWith(n, {500})
    BY <1>4 DEF RunFails, ExternalJobRefused, FailRun
  <1>12. CASE Preparing(n) /\ Working(n)
    <2>1. Adopts(n) \/ Submits(n) => MovesTo(n, Stages)
      BY <1>2 DEF Adopts, Submits, Stages
    <2> QED BY <1>11, <1>12, <2>1 DEF Working, EndsWith
  <1>13. CASE At(n, "verifying") /\ Verification(n)
    <2>1. VerifierAnswers(n) => MovesTo(n, Stages)
      BY <1>2 DEF VerifierAnswers, Stages
    <2>2. VerifierUnreachable(n) => EndsWith(n, {500})
      BY <1>4 DEF VerifierUnreachable, FailRun
    <2> QED BY <1>13, <2>1, <2>2 DEF Verification, EndsWith
  <1>14. CASE At(n, "verified") /\ Settlement(n)
    <2>1. NothingToSettle(n) => EndsWith(n, {500})
      BY <1>4 DEF NothingToSettle, FailRun
    <2> QED BY <1>6, <1>14, <2>1 DEF Settlement, EndsWith
  <1>15. CASE At(n, "settled") /\ (Succeeds(n) \/ RunFails(n))
    <2>1. Succeeds(n) => EndsWith(n, {201})
      BY <1>4 DEF Succeeds
    <2> QED BY <1>11, <1>15, <2>1 DEF EndsWith
  <1>16. CASE At(n, "responding") /\ Respond(n)
    <2>1. Respond(n) => EndsWith(n, {req[n].status}) \/ EndsWith(n, {500})
      BY <1>3 DEF Respond
    <2> QED BY <1>16, <2>1 DEF EndsWith
  <1> QED BY <1>7, <1>8, <1>9, <1>10, <1>12, <1>13, <1>14, <1>15, <1>16 DEF Serve

LEMMA ServeTyped ==
  ASSUME ServiceInv, RequestTypes, UNCHANGED plan, NEW n \in Requests, Serve(n)
  PROVE  RequestTypes'
  <1>1. /\ \A m \in Requests \ {n} : req'[m] = req[m]
        /\ req'[n].stage # "unsent"
    BY ServeFrame DEF ServiceInv
  <1>2. RequestTyped(req[n])
    BY DEF RequestTypes
  <1>3. RequestTyped(req'[n])
    <2>1. MovesTo(n, Stages) => RequestTyped(req'[n])
      BY <1>2 DEF MovesTo, RequestTyped, Unsent
    <2>2. Passes(n) => RequestTyped(req'[n])
      BY <1>2 DEF Passes, RequestTyped, Stages
    <2>3. EndsWith(n, {req[n].status, 200, 201, 402, 409, 500, 502}) => RequestTyped(req'[n])
      BY <1>2 DEF EndsWith, RequestTyped, Stages
    <2> QED BY <2>1, <2>2, <2>3, ServeMoves DEF ServiceInv
  <1> QED BY <1>1, <1>3 DEF RequestTypes, At

LEMMA RowsTyped ==
  ASSUME ServiceAssumption, SettlementInv, RowTypes, NEW n \in Requests, Serve(n)
  PROVE  RowTypes'
  <1>1. CASE UNCHANGED rows
    BY <1>1 DEF RowTypes
  <1>2. ASSUME NEW status \in {"running", "failed", "succeeded"}, NEW action,
               SetRow(n, status, action)
        PROVE  RowTypes'
    <2>1. rows' = [rows EXCEPT ![CaseOf(n)] =
                     [status |-> status, variant |-> Body(n).variant, action |-> action]]
      BY <1>2 DEF SetRow
    <2> QED BY <2>1 DEF RowTypes, SettlementInv, RemoteShape
  <1>3. \/ UNCHANGED rows
        \/ \E status \in {"running", "failed", "succeeded"} : \E action : SetRow(n, status, action)
    BY DEF Serve, Gate, GateExternal, GateRetry, GateCharge, Charge, FacilitatorPays,
           FacilitatorRefuses, Turn, Admission, AdmissionRefused, AdmissionReplay, AdmissionRuns,
           Working, RunFails, ExternalJobRefused, Adopts, Submits, Verification, VerifierAnswers,
           VerifierUnreachable, Settlement, Settles, NothingToSettle, Succeeds, Respond, FailRun
  <1> QED BY <1>1, <1>2, <1>3

LEMMA JobsTyped ==
  ASSUME JobTypes, RemoteShape, NEW n \in Requests, Serve(n) \/ VerifierStep(n)
  PROVE  JobTypes'
  <1>1. ASSUME NEW job, NEW state \in {"submitted", "completed", "rejected"},
               jobs' = [jobs EXCEPT ![job] = state]
        PROVE  JobTypes'
    BY <1>1 DEF JobTypes, RemoteShape
  <1>2. CASE UNCHANGED jobs
    BY <1>2 DEF JobTypes
  <1>3. CASE Submits(n)
    BY <1>3 DEF Submits, JobTypes, RemoteShape
  <1>4. CASE VerifierStep(n)
    <2>1. PICK action \in Verifier!Action :
            jobs' = IF jobs[JobOf(n)] = "submitted"
                    THEN [jobs EXCEPT ![JobOf(n)] = Verifier!EndState[action]] ELSE jobs
      BY <1>4 DEF VerifierStep, Verifier!ServeCall
    <2>2. Verifier!EndState[action] \in {"submitted", "completed", "rejected"}
      BY DEF Verifier!Action, Verifier!EndState
    <2> QED BY <1>1, <1>2, <2>1, <2>2
  <1>5. CASE Serve(n)
    <2>1. UNCHANGED jobs \/ Submits(n)
      BY <1>5
         DEF Serve, Gate, GateExternal, GateRetry, GateCharge, Charge, FacilitatorPays,
             FacilitatorRefuses, Turn, Admission, AdmissionRefused, AdmissionReplay,
             AdmissionRuns, Working, RunFails, ExternalJobRefused, Adopts, Verification,
             VerifierAnswers, VerifierUnreachable, Settlement, Settles, NothingToSettle, Succeeds, Respond,
             remoteVars, Verifier!ReceiveAnswer, Verifier!CallFailed, Verifier!TakeParked
    <2> QED BY <1>2, <1>3, <2>1
  <1> QED BY <1>4, <1>5

LEMMA ServiceTypesStart == ServiceAssumption /\ ServiceInit => ServiceTypes
  <1> SUFFICES ASSUME ServiceAssumption, ServiceInit PROVE ServiceTypes
    OBVIOUS
  <1>1. BucketsBounded
    BY RateLimiterAssumption DEF ServiceInit, RateLimiterAssumption, BucketsBounded, IsList
  <1>2. RequestTypes
    BY DEF ServiceInit, RequestTypes, RequestTyped, Unsent, Stages
  <1>3. RowTypes /\ JobTypes
    BY DEF ServiceInit, Verifier!RemoteInit, NoRow, RowTypes, JobTypes
  <1> QED BY <1>1, <1>2, <1>3 DEF ServiceTypes

LEMMA ServiceTypesStep ==
  ServiceAssumption /\ PaymentInv /\ ServiceTypes /\ [ServiceNext]_serviceVars => ServiceTypes'
  <1> SUFFICES ASSUME ServiceAssumption, PaymentInv, ServiceTypes, [ServiceNext]_serviceVars
               PROVE  ServiceTypes'
    OBVIOUS
  <1> USE DEF ServiceTypes
  <1>1. ServiceInv /\ RemoteShape /\ SettlementInv
    BY DEF PaymentInv, SettlementInv
  <1>2. UNCHANGED buckets => BucketsBounded'
    BY DEF BucketsBounded, IsList
  <1>3. UNCHANGED req => RequestTypes'
    BY DEF RequestTypes, At
  <1>4. UNCHANGED rows => RowTypes'
    BY DEF RowTypes
  <1>5. UNCHANGED jobs => JobTypes'
    BY DEF JobTypes
  <1>6. CASE UNCHANGED <<buckets, req, rows, jobs>>
    BY <1>2, <1>3, <1>4, <1>5, <1>6
  <1>7. ASSUME NEW n \in Requests, UNCHANGED plan, Arrive(n) PROVE ServiceTypes'
    <2>1. BucketsBounded'
      BY <1>7, KeyIsTouched DEF Arrive, BucketsBounded
    <2>2. /\ \A m \in Requests \ {n} : req'[m] = req[m]
          /\ req'[n].stage \in {"gate", "answered"} /\ req'[n].status \in {0, 400, 429}
          /\ ~req'[n].paid
      BY <1>1, <1>7 DEF Arrive, Precheck, ServiceInv, Shape, Unsent
    <2>3. RequestTyped(req'[n]) /\ req'[n].stage # "unsent"
      BY <2>2 DEF RequestTyped, Stages
    <2>4. RequestTypes'
      <3>1. ASSUME NEW m \in Requests
            PROVE  RequestTyped(req'[m]) /\ (req'[m].stage = "unsent" => req'[m].body = "")
        <4>1. CASE m = n
          BY <2>3, <4>1
        <4>2. CASE m # n
          <5>1. req'[m] = req[m]
            BY <2>2, <4>2
          <5>2. RequestTyped(req[m]) /\ (req[m].stage = "unsent" => req[m].body = "")
            BY DEF RequestTypes, At
          <5> QED BY <5>1, <5>2
        <4> QED BY <4>1, <4>2
      <3> QED BY <3>1 DEF RequestTypes, At
    <2>5. UNCHANGED <<rows, jobs>>
      BY <1>7 DEF Arrive, remoteVars
    <2> QED BY <1>4, <1>5, <2>1, <2>4, <2>5
  <1>8. ASSUME NEW n \in Requests, UNCHANGED plan, Serve(n) PROVE ServiceTypes'
    BY <1>1, <1>2, <1>8, ServeKeepsBuckets, ServeTyped, RowsTyped, JobsTyped
  <1>9. ASSUME NEW n \in Requests, UNCHANGED plan, VerifierStep(n) PROVE ServiceTypes'
    <2>1. UNCHANGED <<buckets, req, rows>>
      BY <1>9 DEF VerifierStep
    <2> QED BY <1>1, <1>2, <1>3, <1>4, <1>9, <2>1, JobsTyped
  <1>10. CASE UNCHANGED plan /\ Restart
    <2>1. buckets' = <<>> /\ UNCHANGED <<rows, jobs>>
      BY <1>10 DEF Restart
    <2>2. BucketsBounded'
      BY <2>1, RateLimiterAssumption DEF RateLimiterAssumption, BucketsBounded, IsList
    <2>3. \A n \in Requests :
            /\ req'[n].stage \in {req[n].stage, "dropped"}
            /\ req'[n].stage = "unsent" => At(n, "unsent")
            /\ req'[n].status = req[n].status /\ req'[n].body = req[n].body
            /\ req'[n].paid = req[n].paid /\ req'[n].free = req[n].free
      BY <1>1, <1>10 DEF Restart, InFlight, ServiceInv, Shape, Unsent, At
    <2>4. ASSUME NEW n \in Requests PROVE RequestTyped(req'[n])
      <3>1. RequestTyped(req[n])
        BY DEF RequestTypes
      <3> QED BY <2>3, <3>1 DEF RequestTyped, Stages
    <2>5. RequestTypes'
      BY <2>3, <2>4 DEF RequestTypes, At
    <2> QED BY <1>4, <1>5, <2>1, <2>2, <2>5
  <1>11. CASE UNCHANGED plan /\ Tick
    BY <1>6, <1>11 DEF Tick, remoteVars
  <1> QED BY <1>6, <1>7, <1>8, <1>9, <1>10, <1>11 DEF ServiceNext, serviceVars, remoteVars

LEMMA AlwaysServiceTypes == ServiceSpec => [](PaymentInv /\ ServiceTypes)
  <1> QED BY ServiceAssumption, PaymentStarts, PaymentStep, ServiceTypesStart, ServiceTypesStep,
             PTL DEF ServiceSpec

\* Whatever is kept about requests, cases and jobs keeps its shape, and the map
\* of the limiter its bound (app.ts, rate-limit.ts).
THEOREM AlwaysServiceTypeOK == ServiceSpec => []ServiceTypeOK
  <1>1. PaymentInv /\ ServiceTypes => ServiceTypeOK
    <2> SUFFICES ASSUME PaymentInv, ServiceTypes PROVE ServiceTypeOK
      OBVIOUS
    <2>1. \A n \in Requests : req[n].body \in DOMAIN Bodies \cup {""}
      BY DEF ServiceTypes, RequestTypes, PaymentInv, SettlementInv, ServiceInv, Accepted
    <2>2. \A n \in Requests : phase[n] \in Mutex!Phase
      BY DEF PaymentInv, Turns!MutexInv, Turns!MutexTypes, Turns!Phase, Mutex!Phase
    <2>3. /\ Len(buckets) =< MaxBuckets
          /\ \A n \in Requests : RequestTyped(req[n])
      BY DEF ServiceTypes, BucketsBounded, RequestTypes
    <2>4. ASSUME NEW n \in Requests
          PROVE  /\ req[n].stage \in Stages /\ req[n].body \in DOMAIN Bodies \union {""}
                 /\ req[n].status \in {0, 200, 201, 400, 402, 409, 429, 500, 502}
                 /\ ~(req[n].paid /\ req[n].free)
                 /\ phase[n] \in Mutex!Phase
      <3>1. RequestTyped(req[n])
        BY <2>3
      <3>2. req[n].stage \in Stages /\ ~(req[n].paid /\ req[n].free)
        BY <3>1 DEF RequestTyped
      <3>3. req[n].status \in {0, 200, 201, 400, 402, 409, 429, 500, 502}
        BY <3>1 DEF RequestTyped
      <3>4. req[n].body \in DOMAIN Bodies \union {""} /\ phase[n] \in Mutex!Phase
        BY <2>1, <2>2
      <3> QED BY ONLY <3>2, <3>3, <3>4
    <2>5. /\ \A c \in Cases : rows[c].status \in {"none", "running", "failed", "succeeded"}
          /\ \A j \in Jobs : jobs[j] \in {"funded", "submitted", "completed", "rejected"}
      BY DEF ServiceTypes, RowTypes, JobTypes
    <2>6. Len(buckets) =< MaxBuckets
      BY <2>3
    <2> HIDE DEF ServiceTypes
    <2> QED BY ONLY <2>4, <2>5, <2>6 DEF ServiceTypeOK
  <1> QED BY <1>1, AlwaysServiceTypes, PTL

\* A client that is still inside its window is forgotten only for a newcomer,
\* and only when the map is full of such clients; or with the process
\* (rate-limit.ts).
THEOREM FullMapsEvict == ServiceSpec => EvictsOnlyWhenFull
  <1> DEFINE Kept_ == \A b \in ToSet(buckets) :
               ~Expired(b, now) /\ ~HasBucket(buckets', b.key) /\ restarts' = restarts =>
                 /\ Len(buckets) = MaxBuckets
                 /\ \E new \in ToSet(buckets') : ~HasBucket(buckets, new.key)
                 /\ \A other \in ToSet(buckets) : ~Expired(other, now)
  <1>1. PaymentInv /\ ServiceTypes /\ [ServiceNext]_serviceVars => [Kept_]_serviceVars
    <2> SUFFICES ASSUME PaymentInv, ServiceTypes, ServiceNext PROVE Kept_
      OBVIOUS
    <2>1. CASE UNCHANGED buckets
      BY <2>1 DEF HasBucket
    <2>2. ASSUME NEW n \in Requests, Arrive(n) PROVE Kept_
      <3>1. buckets' = Touched(buckets, plan[n].client, now)
        BY <2>2 DEF Arrive
      <3>2. IsList(buckets) /\ Len(buckets) =< MaxBuckets
        BY DEF ServiceTypes, BucketsBounded
      <3> QED BY <3>1, <3>2, KeyIsTouched
    <2>3. CASE Restart
      <3>1. restarts' # restarts
        BY <2>3 DEF Restart, PaymentInv, Clock
      <3> QED BY <3>1
    <2> QED BY <2>1, <2>2, <2>3, ServeKeepsBuckets DEF ServiceNext, VerifierStep, Tick
  <1> QED BY <1>1, AlwaysServiceTypes, PTL DEF ServiceSpec, EvictsOnlyWhenFull

=============================================================================
