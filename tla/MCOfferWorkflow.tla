-------------------------- MODULE MCOfferWorkflow --------------------------
(* Small instances of OfferWorkflow: one buyer who owns every post.        *)
EXTENDS OfferWorkflow

CONSTANT buyer

MCPostOwner == [p \in PostIds |-> buyer]

=============================================================================
