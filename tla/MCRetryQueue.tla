---------------------------- MODULE MCRetryQueue ----------------------------
(***************************************************************************)
(* Small instances of RetryQueue for TLC.                                  *)
(***************************************************************************)
EXTENDS RetryQueue, TLC

CONSTANTS r1, r2, r3

=============================================================================
