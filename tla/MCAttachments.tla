---------------------------- MODULE MCAttachments ----------------------------
(* Small instances of Attachments. *)
EXTENDS Attachments, TLC

Symmetric == Permutations(Requests) \cup Permutations(Keys)

=============================================================================
