------------------------- MODULE MCDocumentPipeline -------------------------
(* DocumentPipeline on small sets, for TLC.                                *)
EXTENDS DocumentPipeline, TLC

\* Documents and requests are interchangeable; worker processes and their slots
\* as well.  Only for runs without liveness.
Symmetry == Permutations(Documents) \cup Permutations(Requests) \cup Permutations(Workers)

\* Bound of the runs that let attempts outlive their leases: a history this long
\* is not continued.
MaxEvents == 7
ShortHistory == \A d \in Documents : Len(history[d]) <= MaxEvents

=============================================================================
