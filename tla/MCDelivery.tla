----------------------------- MODULE MCDelivery -----------------------------
(* A small instance of Delivery: t is a prefix of tt, as chat:1 is of        *)
(* chat:12; one event loop publishes each; the sockets are of one user.      *)
EXTENDS Delivery, TLC

CONSTANTS t, tt, h1, h2, u1

MCPrefixes == (t :> {t}) @@ (tt :> {t, tt})
MCPublishes == (h1 :> {t}) @@ (h2 :> {tt})
MCOneUser == [s \in Sockets |-> u1]

=============================================================================
