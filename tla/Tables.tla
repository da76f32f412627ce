------------------------------- MODULE Tables -------------------------------
(* Database tables, and the parts of tables a transaction has written, as  *)
(* functions from ids to rows.                                             *)

(* The tables with ids in Ids and rows in Rows. *)
Tables(Ids, Rows) == UNION {[S -> Rows] : S \in SUBSET Ids}

NoRows == [id \in {} |-> id]

Row(id, row) == [x \in {id} |-> row]

(* The rows of t, and those of u whose ids are not in t. *)
t \oplus u == [x \in DOMAIN t \cup DOMAIN u |-> IF x \in DOMAIN t THEN t[x] ELSE u[x]]

=============================================================================
