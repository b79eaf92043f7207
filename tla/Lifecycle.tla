------------------------------ MODULE Lifecycle ------------------------------
(***************************************************************************)
(* What the pipeline promises about one document, seen from outside: where *)
(* it is in its life and how many automatic attempts it has used.  Slots,  *)
(* leases, sweeps, transactions and histories are not mentioned.           *)
(***************************************************************************)
EXTENDS Naturals

CONSTANTS
    Documents,
    MaxAttempts     \* attempts before a document fails for good

VARIABLES
    phase,          \* where each document is
    tries           \* automatic attempts since the upload or the manual retry

vars == <<phase, tries>>

Phases == {"absent", "waiting", "working", "processed", "rejected", "failed"}

Init == /\ phase = [d \in Documents |-> "absent"]
        /\ tries = [d \in Documents |-> 0]

\* Several documents move together when one statement or one crash moves them.
Move(D, from, to) == /\ D # {}
                     /\ \A d \in D : phase[d] = from
                     /\ phase' = [d \in Documents |-> IF d \in D THEN to ELSE phase[d]]

Submit(d) == Move({d}, "absent", "waiting") /\ UNCHANGED tries

Start(d) == /\ Move({d}, "waiting", "working")
            /\ tries[d] < MaxAttempts
            /\ tries' = [tries EXCEPT ![d] = @ + 1]

Conclude(d) == /\ Move({d}, "working", "processed") \/ Move({d}, "working", "rejected")
               /\ UNCHANGED tries

\* Another attempt, only while the budget lasts.
TryAgain(D) == /\ Move(D, "working", "waiting")
               /\ \A d \in D : tries[d] < MaxAttempts
               /\ UNCHANGED tries

GiveUp(D) == Move(D, "working", "failed") /\ UNCHANGED tries

\* Only an operator takes a document out of a settled phase, and only out of
\* this one; the budget starts afresh.
Reopen(d) == Move({d}, "failed", "waiting") /\ tries' = [tries EXCEPT ![d] = 0]

Next == \/ \E d \in Documents : Submit(d) \/ Start(d) \/ Conclude(d) \/ Reopen(d)
        \/ \E D \in SUBSET Documents : TryAgain(D) \/ GiveUp(D)

Spec == Init /\ [][Next]_vars

=============================================================================
