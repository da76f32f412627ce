--------------------------- MODULE MCConversations ---------------------------
(* Small instances of Conversations: the first user bought, everybody sells. *)
EXTENDS Conversations, TLC

CONSTANTS buyer, seller

MCBuyer == [o \in Offers |-> buyer]
MCSeller == [o \in Offers |-> seller]

Symmetric == Permutations(Requests) \cup Permutations(Offers)
                \cup Permutations(ConvIds)

=============================================================================
