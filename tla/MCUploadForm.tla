----------------------------- MODULE MCUploadForm -----------------------------
(* UploadForm on small sets, for TLC. *)
EXTENDS UploadForm, TLC
=============================================================================
