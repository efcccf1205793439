----------------------------- MODULE CaseRecord -----------------------------
(***************************************************************************)
(* What the orchestrator promises about the record it keeps of a case,     *)
(* whatever is retried, taken over or lost on the way: a case moves        *)
(* forward and ends once; it has one escrow job and one module purchase,   *)
(* each fixed when first bound; the books only grow, and a booked row      *)
(* names the job or the purchase of its own case.                          *)
(***************************************************************************)
EXTENDS Naturals

CONSTANTS Cases

VARIABLES progress,     \* per case: 0 unknown .. 5 submitted, 6 ended
          boundJob,     \* per case: its escrow job, 0 while it has none
          kept,         \* per case: the receipt of its purchase, 0 while none
          books         \* set of [case, income, ref]

record == <<progress, boundJob, kept, books>>

Init ==
    /\ progress = [c \in Cases |-> 0]
    /\ boundJob = [c \in Cases |-> 0]
    /\ kept = [c \in Cases |-> 0]
    /\ books = {}

\* A case is opened, moves on or ends; a case that ended stays as it is.
Move(c) ==
    /\ progress[c] < 6
    /\ \E n \in progress[c] + 1 .. 6 : progress' = [progress EXCEPT ![c] = n]
    /\ UNCHANGED <<boundJob, kept, books>>

Bind(c) ==
    /\ progress[c] > 0
    /\ boundJob[c] = 0
    /\ boundJob'[c] \in Nat \ {0}
    /\ boundJob' = [boundJob EXCEPT ![c] = boundJob'[c]]
    /\ UNCHANGED <<progress, kept, books>>

\* The purchase is kept; the case moves on to assessment if it was not there.
Keep(c) ==
    /\ boundJob[c] # 0
    /\ kept[c] = 0
    /\ kept'[c] \in Nat \ {0}
    /\ kept' = [kept EXCEPT ![c] = kept'[c]]
    /\ \E n \in progress[c] .. 5 : progress' = [progress EXCEPT ![c] = n]
    /\ UNCHANGED <<boundJob, books>>

\* Costs are booked against the purchase, income against the job, and a case
\* is booked only after its deliverable was submitted.
Book(c) ==
    /\ progress[c] >= 5
    /\ \E income \in BOOLEAN :
          books' = books \cup
              {[case |-> c, income |-> FALSE, ref |-> kept[c]]} \cup
              (IF income THEN {[case |-> c, income |-> TRUE, ref |-> boundJob[c]]} ELSE {})
    /\ UNCHANGED <<progress, boundJob, kept>>

Next == \E c \in Cases : Move(c) \/ Bind(c) \/ Keep(c) \/ Book(c)

Spec == Init /\ [][Next]_record
=============================================================================
