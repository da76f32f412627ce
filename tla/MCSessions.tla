----------------------------- MODULE MCSessions -----------------------------
(* A small instance of Sessions: the database is west of UTC.               *)
EXTENDS Sessions, TLC

MCZone == -1

Symmetric == Permutations(Requests) \cup Permutations(RefreshTokens)
                \cup Permutations(Names) \cup Permutations(Emails)

=============================================================================
