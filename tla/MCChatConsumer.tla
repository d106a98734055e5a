--------------------------- MODULE MCChatConsumer ---------------------------
(***************************************************************************)
(* ChatConsumer for TLC: the event of each message, the configurations.    *)
(***************************************************************************)
EXTENDS ChatConsumer

\* Every message is a copy of one event.
CopiesOfOne == [m \in Messages |-> CHOOSE e \in Events : TRUE]

\* Two copies and one trouble: with de-duplication, with it and in vain for one of the
\* copies, and without.  One copy, redelivered through three troubles.
FourSettings ==
  LET one == {CHOOSE m \in Messages : TRUE} IN
  [dedupe : {TRUE}, unmarked : {{}, one}, published : {Messages}, trouble : {1}]
    \union [dedupe : {FALSE}, unmarked : {{}}, published : {Messages}, trouble : {1}]
    \union [dedupe : {TRUE}, unmarked : {{}}, published : {one}, trouble : {3}]
=============================================================================
