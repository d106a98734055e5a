----------------------------- MODULE MCPipeline -----------------------------
(***************************************************************************)
(* Pipeline for TLC: one account, announced in up to two messages, and a   *)
(* POST /users with the same email.                                        *)
(***************************************************************************)
EXTENDS Pipeline

CONSTANTS account, stranger, sync1, sync2, post

UserOfCall == [t \in {sync1, sync2, post} |-> IF t = post THEN stranger ELSE account]
OneEmail   == [x \in {account, stranger} |-> "email"]
OneAccount == [m \in Deliveries |-> account]
=============================================================================
