--------------------------- MODULE MCDocumentsPage ---------------------------
(* Two documents on two pages, one of which the search finds. *)
EXTENDS DocumentsPage, TLC

MCHits == "" :> {1, 2} @@ "acme" :> {1} @@ " " :> {}
=============================================================================
