-------------------------- MODULE MCApprovalStore --------------------------
(***************************************************************************)
(* Instance of ApprovalStore for TLC.  The keys are interchangeable, and   *)
(* so are the requests; no symmetry is declared because the run checks     *)
(* liveness.                                                               *)
(***************************************************************************)
EXTENDS ApprovalStore
=============================================================================
