---------------------------- MODULE TableLemmas ----------------------------
(* What the operators on tables return, for every table. *)
EXTENDS Tables, TLAPS

(* A table is a function from some of the ids to rows. *)
LEMMA TableIsFunction ==
    ASSUME NEW Ids, NEW Rows, NEW t
    PROVE  t \in Tables(Ids, Rows) <=>
              DOMAIN t \subseteq Ids /\ t \in [DOMAIN t -> Rows]
BY DEF Tables

(* The empty table is a table of any rows. *)
LEMMA NoRowsIsTable ==
    ASSUME NEW Ids, NEW Rows
    PROVE  NoRows \in Tables(Ids, Rows) /\ DOMAIN NoRows = {}
BY TableIsFunction DEF NoRows

(* A single row is a table. *)
LEMMA OneRow ==
    ASSUME NEW Ids, NEW Rows, NEW id \in Ids, NEW row \in Rows
    PROVE  /\ Row(id, row) \in Tables(Ids, Rows)
           /\ DOMAIN Row(id, row) = {id}
           /\ Row(id, row)[id] = row
BY TableIsFunction DEF Row

(* Changing one row of a table, to a row, keeps its ids. *)
LEMMA ChangedRow ==
    ASSUME NEW Ids, NEW Rows, NEW t \in Tables(Ids, Rows),
           NEW id \in DOMAIN t, NEW row \in Rows
    PROVE  /\ [t EXCEPT ![id] = row] \in Tables(Ids, Rows)
           /\ DOMAIN [t EXCEPT ![id] = row] = DOMAIN t
           /\ [t EXCEPT ![id] = row][id] = row
           /\ \A x \in DOMAIN t \ {id} : [t EXCEPT ![id] = row][x] = t[x]
<1>1. DOMAIN t \subseteq Ids /\ t \in [DOMAIN t -> Rows]
    BY TableIsFunction
<1>2. [t EXCEPT ![id] = row] \in [DOMAIN t -> Rows]
    BY <1>1
<1>3. QED
    BY <1>1, <1>2, TableIsFunction

(* The rows of a table laid over a table: its own rows first. *)
LEMMA OverlayRows ==
    ASSUME NEW t, NEW u
    PROVE  /\ DOMAIN (t \oplus u) = DOMAIN t \cup DOMAIN u
           /\ \A x \in DOMAIN t : (t \oplus u)[x] = t[x]
           /\ \A x \in DOMAIN u \ DOMAIN t : (t \oplus u)[x] = u[x]
BY DEF \oplus

(* A table laid over a table is a table. *)
LEMMA Overlay ==
    ASSUME NEW Ids, NEW Rows,
           NEW t \in Tables(Ids, Rows), NEW u \in Tables(Ids, Rows)
    PROVE  t \oplus u \in Tables(Ids, Rows)
<1>1. DOMAIN t \subseteq Ids /\ t \in [DOMAIN t -> Rows]
    BY TableIsFunction
<1>2. DOMAIN u \subseteq Ids /\ u \in [DOMAIN u -> Rows]
    BY TableIsFunction
<1>3. (t \oplus u) \in [(DOMAIN t) \cup (DOMAIN u) -> Rows]
    BY <1>1, <1>2 DEF \oplus
<1>4. QED
    BY <1>1, <1>2, <1>3, TableIsFunction, OverlayRows

=============================================================================
