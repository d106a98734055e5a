---------------------------- MODULE MCChatRooms ----------------------------
(***************************************************************************)
(* ChatRooms for TLC: two participants share a node, the third is on        *)
(* another.                                                                *)
(***************************************************************************)
EXTENDS ChatRooms

CONSTANTS n1, n2, s1, s2, s3, s4

TwoNodes == [s \in Sockets |-> IF s \in {s1, s2} THEN n1 ELSE n2]
=============================================================================
