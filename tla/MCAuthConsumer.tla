--------------------------- MODULE MCAuthConsumer ---------------------------
(***************************************************************************)
(* AuthConsumer for TLC: which registration each message is about.         *)
(***************************************************************************)
EXTENDS AuthConsumer

\* Every message is a copy of one registration's event.
CopiesOfOne == [m \in Messages |-> CHOOSE e \in Events : TRUE]
=============================================================================
