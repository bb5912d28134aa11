-------------------------- MODULE MCSecureSession --------------------------
(***************************************************************************)
(* SecureSession for TLC.                                                  *)
(***************************************************************************)
EXTENDS SecureSession

=============================================================================
