----------------------------- MODULE MCListings -----------------------------
(* A small instance of Listings: two rows have the same key.                *)
EXTENDS Listings

MCRows == 1 .. 5
MCKeyOf == <<1, 2, 2, 3, 4>>
MCNumbers == {0, 2, 3, 4}

=============================================================================
