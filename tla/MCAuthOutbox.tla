---------------------------- MODULE MCAuthOutbox ----------------------------
(***************************************************************************)
(* AuthOutbox for TLC.  Batches are interchangeable; the safety run uses    *)
(* that, the liveness run does not.                                        *)
(***************************************************************************)
EXTENDS AuthOutbox, TLC

AnyPoll == Permutations(Polls)
=============================================================================
