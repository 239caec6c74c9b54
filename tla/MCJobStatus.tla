---------------------------- MODULE MCJobStatus ----------------------------
(* A small instance of JobStatus for TLC.                                  *)
EXTENDS JobStatus, TLC
=============================================================================
