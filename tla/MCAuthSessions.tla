--------------------------- MODULE MCAuthSessions ---------------------------
(***************************************************************************)
(* AuthSessions for TLC: overlapping requests are interchangeable.         *)
(***************************************************************************)
EXTENDS AuthSessions, TLC

AnyRequest == Permutations(Requests)
=============================================================================
