------------------------------- MODULE Queues --------------------------------
(* The tail queues and lists (TAILQ, LIST) of libevent's events.           *)
EXTENDS Naturals, Sequences, FiniteSets

(* TAILQ_REMOVE or LIST_REMOVE of every member of a set: in the n-th place *)
(* comes the n-th that stays.                                              *)
Without(q, S) ==
  LET stay == {i \in DOMAIN q : q[i] \notin S}
  IN  [n \in 1..Cardinality(stay) |->
         q[CHOOSE i \in stay : Cardinality({j \in stay : j <= i}) = n]]

(* A queue holds the members of S and each of them once.                   *)
Lists(q, S) == /\ {q[i] : i \in DOMAIN q} = S
               /\ \A i, j \in DOMAIN q : q[i] = q[j] => i = j
=============================================================================
