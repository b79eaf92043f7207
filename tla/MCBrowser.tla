------------------------------- MODULE MCBrowser ------------------------------
(* Browser over a small pipeline, for TLC.                                 *)
EXTENDS Browser, TLC
=============================================================================
