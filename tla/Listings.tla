------------------------------ MODULE Listings ------------------------------
(***************************************************************************)
(* The lists that are read page by page: get_posts and filter_posts of      *)
(* controllers/community.cc, orders.cc, users.cc, dashboard.cc, find_nearby  *)
(* of location.cc and the two statements of search.cc.  A page is one SELECT *)
(* with ORDER BY, LIMIT and OFFSET and remembers nothing of the page before, *)
(* while rows come into the list, in any place, and leave it.               *)
(*                                                                         *)
(* The sort key of a row is its id, its name, its status, the time its       *)
(* transaction began or its distance.  No two rows have the same id, name or  *)
(* status; times and distances may be the same, and ORDER BY then leaves the *)
(* order open, to every page anew.                                          *)
(***************************************************************************)
EXTENDS Integers, FiniteSets, FiniteSetsExt

CONSTANTS AllRows,     \* bound: the rows there may be
          KeyOf,       \* their sort keys
          FixedPage,   \* how long the pages of posts and places are
          DefaultPage, \* pageSize where the client names none
          LargestPage, \* the largest pageSize he gets
          Numbers,     \* what a client may send for a number
          NoNumber,    \* nothing, or what is not a number
          MaxChanges   \* bound: how often rows leave the list while it is read

ASSUME RowsAssumption == IsFiniteSet(AllRows) /\ KeyOf \in [AllRows -> Int]
ASSUME SizesAssumption == /\ FixedPage \in Nat \ {0} /\ LargestPage \in Nat \ {0}
                          /\ DefaultPage \in 1 .. LargestPage
ASSUME NumbersAssumption == Numbers \subseteq Int /\ NoNumber \notin Int
ASSUME BoundAssumption == MaxChanges \in Nat

VARIABLES list,  \* the list the client reads
          asked, \* the pageSize he asks for
          rows,  \* the committed rows of the table of the list
          shown, \* those the WHERE clause selects
          read,  \* how many pages he has read
          kept,  \* the rows that were shown when he began, and ever since,
                 \* and had the same key as no other that was shown
          seen,  \* the rows he was sent
          gone   \* how many rows left the list since he began

reader == <<list, asked>>
vars == <<reader, rows, shown, read, kept, seen, gone>>

-----------------------------------------------------------------------------
PostLists == {"get_posts", "filter_posts"}
PlaceLists == {"find_nearby"}
Lists == PostLists \cup PlaceLists \cup
            {"search_posts", "search_orders", "get_orders", "get_users",
             "get_dashboard_data"}

(* WHERE clauses on what a request can change: status, tags, location and    *)
(* content of a post.                                                        *)
Filtered == {"filter_posts", "search_posts"}

(* ORDER BY username, status or distance; the others are DESC. *)
Ascending == {"get_users", "get_dashboard_data", "find_nearby"}

Before(x, y) ==
    IF list \in Ascending THEN KeyOf[x] < KeyOf[y] ELSE KeyOf[x] > KeyOf[y]

Rank(x) == Cardinality({y \in shown : Before(y, x)})

(* ORDER BY created_at and ORDER BY distance tell some rows not apart. *)
Tying == PostLists \cup PlaceLists
Tied(x, S) == {y \in S : KeyOf[y] = KeyOf[x]}
Alone(S) == {x \in S : Tied(x, S) = {x}}

(* find_nearby is sent (page - 1) * 15 and takes less than zero for zero. *)
AtLeastOne(number) == IF number = NoNumber THEN 1 ELSE Max({1, number})

(* The lists of posts and places take no pageSize. *)
Size ==
    IF list \in PostLists \cup PlaceLists THEN FixedPage
    ELSE Max({1, Min({LargestPage, IF asked = NoNumber THEN DefaultPage ELSE asked})})

(* Mutation: pages are counted from zero. *)
OffsetFromZero(page) == AtLeastOne(page) * Size
Offset(page) == (AtLeastOne(page) - 1) * Size

(* What the statement may return for a page: of the rows with one key as      *)
(* many as have their places on the page, whichever they are.               *)
Window(page) == Offset(page) .. (Offset(page) + Size - 1)
Pages(page) == {P \in SUBSET shown : \A x \in shown :
    Cardinality(P \cap Tied(x, shown)) =
        Cardinality(Window(page) \cap
            (Rank(x) .. (Rank(x) + Cardinality(Tied(x, shown)) - 1)))}

-----------------------------------------------------------------------------
(* A transaction that began earlier may commit later, and names come in any  *)
(* order: a row appears anywhere in the list.                               *)
Insert(x) ==
    /\ x \notin rows
    /\ list \notin Tying => Tied(x, rows) = {}
    /\ rows' = rows \cup {x}
    /\ \/ shown' = shown \cup {x}
       \/ list \in Filtered \cup PlaceLists /\ UNCHANGED shown
    /\ kept' = kept \cap Alone(shown')
    /\ UNCHANGED <<reader, read, seen, gone>>

(* update_post, or an acceptance that fulfils the post. *)
EnterFilter(x) ==
    /\ list \in Filtered /\ x \in rows \ shown
    /\ shown' = shown \cup {x}
    /\ kept' = kept \cap Alone(shown')
    /\ UNCHANGED <<reader, rows, read, seen, gone>>

(* A row leaves its place in the list. *)
Leave(x) ==
    /\ x \in shown => gone < MaxChanges
    /\ kept' = (kept \ {x}) \cap Alone(shown')
    /\ gone' = IF x \in shown /\ read > 0 THEN gone + 1 ELSE gone
    /\ UNCHANGED <<reader, read, seen>>

LeaveFilter(x) ==
    /\ list \in Filtered /\ x \in shown
    /\ shown' = shown \ {x}
    /\ Leave(x)
    /\ UNCHANGED rows

(* add_location of a user who has a row: he is nearer or farther than he was. *)
Move(x, y) ==
    /\ list \in PlaceLists /\ x \in rows /\ y \notin rows
    /\ rows' = (rows \ {x}) \cup {y}
    /\ shown' \in {shown \ {x}, (shown \ {x}) \cup {y}}
    /\ Leave(x)

(* The client asks for the next page, or again for one he had; bound: not     *)
(* far behind the end.                                                      *)
Get(page) ==
    /\ AtLeastOne(page) <= read + 1
    /\ Offset(page) <= Cardinality(AllRows)
    /\ \E P \in Pages(page) : seen' = seen \cup P
    /\ read' = Max({read, AtLeastOne(page)})
    /\ kept' = IF read = 0 THEN Alone(shown) ELSE kept
    /\ UNCHANGED <<reader, rows, shown, gone>>

-----------------------------------------------------------------------------
Init ==
    /\ list \in Lists
    /\ asked \in IF list \in PostLists \cup PlaceLists THEN {NoNumber}
                ELSE Numbers \cup {NoNumber}
    /\ rows = {} /\ shown = {}
    /\ read = 0 /\ kept = {} /\ seen = {} /\ gone = 0

Next ==
    \/ \E x \in AllRows : Insert(x) \/ EnterFilter(x) \/ LeaveFilter(x)
    \/ \E x, y \in AllRows : Move(x, y)
    \/ \E page \in Numbers \cup {NoNumber} : Get(page)

Spec == Init /\ [][Next]_vars

-----------------------------------------------------------------------------
(* Every variable holds rows, numbers and lists of its kind. *)
TypeOK ==
    /\ list \in Lists
    /\ asked \in Numbers \cup {NoNumber}
    /\ rows \subseteq AllRows
    /\ shown \subseteq rows
    /\ kept \subseteq Alone(shown)
    /\ seen \subseteq AllRows
    /\ read \in Nat
    /\ gone \in 0 .. MaxChanges

(* The rows the client will not find on the pages that are left. *)
Missed == {x \in kept \ seen : Rank(x) < read * Size}

(* A client who turns the pages one by one is sent every row that was in    *)
(* the list all the time, and had its sort key for itself, or finds it on a  *)
(* later page, however many rows come in before and behind it and however    *)
(* others are tied; each row that leaves the list, where the WHERE or the   *)
(* ORDER BY is on what requests change, costs him one row at most.          *)
NothingMissed == Cardinality(Missed) <= gone

=============================================================================
