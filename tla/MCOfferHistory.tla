--------------------------- MODULE MCOfferHistory ---------------------------
(* A small instance of OfferHistory: one buyer who owns every post.         *)
EXTENDS OfferHistory, TLC

CONSTANT buyer

MCPostOwner == [p \in PostIds |-> buyer]

(* Requests, offers and prices are only compared for equality. *)
Symmetric == Permutations(Requests) \cup Permutations(OfferIds)
                \cup Permutations(Prices)

=============================================================================
