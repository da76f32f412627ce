--------------------------- MODULE MCSubscriptions ---------------------------
(* Small instances of Subscriptions: every socket is of u1, who asks for     *)
(* posts and tags; the others ask for conversations with him.                *)
EXTENDS Subscriptions, TLC

CONSTANTS u1

MCOneUser == [s \in Sockets |-> u1]
MCAsksFor == [u \in Users |-> IF u = u1 THEN PostTopics \cup EntityTopics ELSE ChatTopics]

Symmetric == Permutations(Sockets)

=============================================================================
