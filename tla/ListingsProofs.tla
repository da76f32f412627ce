---------------------------- MODULE ListingsProofs ----------------------------
(* Whoever turns the pages misses at most one row for every row that leaves.  *)
EXTENDS Listings, FiniteSetTheorems, TLAPS

(* The rows of S that the list shows before x. *)
Ahead(S, x) == {y \in S : Before(y, x)}

(* A page holds one row or more. *)
LEMMA SizeType == TypeOK => Size \in Nat \ {0}
<1> SUFFICES ASSUME TypeOK PROVE Size \in Nat \ {0}
  OBVIOUS
<1>1. ASSUME NEW a \in Int, NEW b \in Int
      PROVE Max({a, b}) \in {a, b} /\ Max({a, b}) >= a /\ Max({a, b}) >= b
  <2>1. \E x \in {a, b} : \A y \in {a, b} : x >= y
    BY DEF Max
  <2> QED BY <2>1 DEF Max
<1>2. ASSUME NEW a \in Int, NEW b \in Int PROVE Min({a, b}) \in {a, b}
  <2>1. \E x \in {a, b} : \A y \in {a, b} : x <= y
    OBVIOUS
  <2> QED BY <2>1 DEF Min
<1> DEFINE n == IF asked = NoNumber THEN DefaultPage ELSE asked
<1>3. n \in Int /\ LargestPage \in Int
  BY SizesAssumption, NumbersAssumption DEF TypeOK
<1>4. Min({LargestPage, n}) \in Int
  BY <1>2, <1>3
<1>5. Max({1, Min({LargestPage, n})}) \in Nat \ {0}
  <2> DEFINE k == Min({LargestPage, n})
  <2>1. k \in Int
    BY <1>4
  <2> HIDE DEF k
  <2>2. Max({1, k}) \in {1, k} /\ Max({1, k}) >= 1
    BY <1>1, <2>1
  <2>3. Max({1, k}) \in Nat \ {0}
    BY <2>1, <2>2
  <2> QED BY <2>3 DEF k
<1> QED BY <1>5, SizesAssumption DEF Size

(* Ranks are numbers, and no two rows with keys of their own have the same. *)
LEMMA RankOrders ==
  ASSUME NEW S \in SUBSET AllRows, NEW x \in Alone(S), NEW y \in S,
         Cardinality(Ahead(S, x)) = Cardinality(Ahead(S, y))
  PROVE  x = y
<1>1. ASSUME NEW a \in S, NEW b \in S, Before(a, b)
      PROVE Cardinality(Ahead(S, a)) # Cardinality(Ahead(S, b))
  <2>0. \A z \in S : KeyOf[z] \in Int
    BY RowsAssumption
  <2>1. Ahead(S, a) \subseteq Ahead(S, b) /\ a \in Ahead(S, b) \ Ahead(S, a)
    <3>1. \A z \in S : Before(z, a) => Before(z, b)
      BY <1>1, <2>0 DEF Before
    <3>2. ~ Before(a, a)
      BY <2>0 DEF Before
    <3> QED BY <1>1, <3>1, <3>2 DEF Ahead
  <2>2. IsFiniteSet(Ahead(S, b))
    BY FS_Subset, RowsAssumption DEF Ahead
  <2> QED BY <2>1, <2>2, FS_Subset
<1>2. x \in S /\ (x = y \/ Before(x, y) \/ Before(y, x))
  <2>1. x \in S /\ (KeyOf[y] = KeyOf[x] => x = y)
    BY DEF Alone, Tied
  <2>2. KeyOf[x] \in Int /\ KeyOf[y] \in Int
    BY <2>1, RowsAssumption
  <2> QED BY <2>1, <2>2 DEF Before
<1> QED BY <1>1, <1>2

(* More rows, higher ranks; one row less takes one from a rank at most. *)
LEMMA RankGrows ==
  ASSUME NEW S \in SUBSET AllRows, NEW T \in SUBSET AllRows, NEW a, NEW x, S \ {a} \subseteq T
  PROVE  /\ Cardinality(Ahead(S, x)) \in Nat /\ Cardinality(Ahead(T, x)) \in Nat
         /\ Cardinality(Ahead(T, x)) >= Cardinality(Ahead(S, x)) - 1
         /\ a \notin S => Cardinality(Ahead(T, x)) >= Cardinality(Ahead(S, x))
<1>1. IsFiniteSet(Ahead(S, x)) /\ IsFiniteSet(Ahead(T, x))
  BY FS_Subset, RowsAssumption DEF Ahead
<1>2. /\ IsFiniteSet(Ahead(S, x) \ {a})
      /\ Cardinality(Ahead(S, x) \ {a}) =
            IF a \in Ahead(S, x) THEN Cardinality(Ahead(S, x)) - 1
            ELSE Cardinality(Ahead(S, x))
  BY <1>1, FS_RemoveElement
<1>3. Ahead(S, x) \ {a} \subseteq Ahead(T, x)
  BY DEF Ahead
<1>4. Cardinality(Ahead(S, x) \ {a}) <= Cardinality(Ahead(T, x))
  BY <1>1, <1>3, FS_Subset
<1>5. Cardinality(Ahead(S, x)) \in Nat /\ Cardinality(Ahead(T, x)) \in Nat
  BY <1>1, FS_CardinalityType
<1>6. a \notin S => a \notin Ahead(S, x)
  BY DEF Ahead
<1> QED BY <1>2, <1>4, <1>5, <1>6

(* A smaller set of missed rows is no more than before. *)
LEMMA FewerMissed ==
  ASSUME TypeOK, NothingMissed, NEW M, M \subseteq Missed
  PROVE  Cardinality(M) <= gone
<1>1. IsFiniteSet(Missed)
  BY FS_Subset, RowsAssumption DEF TypeOK, Missed, Alone
<1>2. Cardinality(M) <= Cardinality(Missed)
  BY <1>1, FS_Subset
<1>3. IsFiniteSet(M)
  BY <1>1, FS_Subset
<1> QED BY <1>1, <1>2, <1>3, FS_CardinalityType DEF NothingMissed, TypeOK

(* The list starts empty, and nobody has read of it. *)
LEMMA InitMissed == Init => TypeOK /\ NothingMissed
<1> SUFFICES ASSUME Init PROVE TypeOK /\ NothingMissed
  OBVIOUS
<1>1. TypeOK
  BY BoundAssumption DEF Init, TypeOK
<1>2. Missed = {}
  BY DEF Missed, Init
<1> QED BY <1>1, <1>2, FS_EmptySet DEF NothingMissed, Init

(* There is something that is no row. *)
LEMMA FreshRow == \E a : a \notin AllRows
<1> DEFINE Russell == {x \in AllRows : x \notin x}
<1>1. Russell \notin AllRows
  OBVIOUS
<1> QED BY <1>1

(* A page shows the rows with keys of their own that have their ranks there. *)
LEMMA PageShows ==
  ASSUME TypeOK, NEW page, NEW P \in Pages(page), NEW x \in Alone(shown),
         Rank(x) \in Window(page)
  PROVE  x \in P
<1>1. x \in shown /\ Tied(x, shown) = {x}
  BY DEF Alone
<1>2. Rank(x) \in Nat
  BY FS_Subset, FS_CardinalityType, RowsAssumption DEF Rank, TypeOK
<1>3. Cardinality({x}) = 1 /\ Cardinality({Rank(x)}) = 1
  BY FS_Singleton
<1>4. Rank(x) .. (Rank(x) + 1 - 1) = {Rank(x)}
  BY <1>2
<1>5. Window(page) \cap (Rank(x) .. (Rank(x) + Cardinality(Tied(x, shown)) - 1)) = {Rank(x)}
  BY <1>1, <1>3, <1>4
<1>6. Cardinality(P \cap {x}) = 1
  BY <1>1, <1>3, <1>5 DEF Pages
<1>7. P \cap {x} # {}
  BY <1>6, FS_EmptySet
<1> QED BY <1>7

(* Rows that come in push the others back, never forward. *)
LEMMA GrowingMisses ==
  ASSUME TypeOK, NothingMissed, TypeOK', shown \subseteq shown',
         UNCHANGED <<list, asked, read, seen, gone>>, kept' \subseteq kept
  PROVE  NothingMissed'
<1>1. Size' = Size
  BY DEF Size
<1>2. \A x : Rank(x)' >= Rank(x)
  <2> TAKE x
  <2> DEFINE S == shown  T == shown'
  <2>1. Ahead(S, x) = {y \in shown : Before(y, x)} /\ Rank(x) = Cardinality(Ahead(S, x))
    BY DEF Rank, Ahead
  <2>2. Rank(x)' = Cardinality(Ahead(T, x))
    BY DEF Rank, Ahead, Before
  <2>3. PICK a : a \notin AllRows
    BY RowsAssumption, FreshRow
  <2>4. S \in SUBSET AllRows /\ T \in SUBSET AllRows /\ S \ {a} \subseteq T /\ a \notin S
    BY <2>3 DEF TypeOK
  <2> HIDE DEF S, T
  <2> QED BY <2>1, <2>2, <2>4, RankGrows
<1>3. \A x \in shown : Rank(x) \in Nat /\ Rank(x)' \in Nat
  BY FS_Subset, FS_CardinalityType, RowsAssumption DEF Rank, TypeOK
<1>4. read * Size \in Nat
  BY SizeType DEF TypeOK
<1>5. Missed' \subseteq Missed
  BY <1>1, <1>2, <1>3, <1>4 DEF Missed, TypeOK, Alone
<1> QED BY <1>5, FewerMissed DEF NothingMissed

(* Turning a page shows all that has its rank there, and so misses nothing.  *)
LEMMA GettingMisses ==
  ASSUME TypeOK, NothingMissed, NEW page \in Numbers \cup {NoNumber}, Get(page)
  PROVE  NothingMissed'
<1> DEFINE p == AtLeastOne(page)
<1>1. Size' = Size /\ gone' = gone /\ (\A x : Rank(x)' = Rank(x))
  BY DEF Get, reader, Size, Rank, Before
<1>2. p \in Nat \ {0}
  <2>1. ASSUME NEW a \in Int PROVE Max({1, a}) \in {1, a} /\ Max({1, a}) >= 1
    <3>1. \E x \in {1, a} : \A y \in {1, a} : x >= y
      OBVIOUS
    <3> QED BY <3>1 DEF Max
  <2>2. page # NoNumber => page \in Int
    BY NumbersAssumption
  <2>3. page # NoNumber => Max({1, page}) \in Nat \ {0}
    BY <2>1, <2>2
  <2> QED BY <2>3 DEF AtLeastOne
<1>3. read \in Nat /\ p <= read + 1 /\ Size \in Nat \ {0}
  BY SizeType DEF Get, TypeOK
<1>4. read' = IF read >= p THEN read ELSE read + 1
  <2> HIDE DEF p
  <2>1. read' = Max({read, p})
    BY DEF Get, p
  <2>2. \E x \in {read, p} : \A y \in {read, p} : x >= y
    BY <1>2, <1>3
  <2>3. Max({read, p}) \in {read, p} /\ Max({read, p}) >= read /\ Max({read, p}) >= p
    BY <2>2 DEF Max
  <2> QED BY <2>1, <2>3, <1>2, <1>3
<1>5. \A x \in shown : Rank(x) \in Nat
  BY FS_Subset, FS_CardinalityType, RowsAssumption DEF Rank, TypeOK
<1>6. /\ seen \subseteq seen' /\ kept' \subseteq Alone(shown) /\ kept' \subseteq shown
      /\ (read > 0 => kept' = kept)
  BY DEF Get, TypeOK, Alone
<1>7. \A x \in Alone(shown) :
         Rank(x) \in (p - 1) * Size .. ((p - 1) * Size + Size - 1) => x \in seen'
  BY PageShows DEF Get, Window, Offset
<1>8. CASE read >= p
  <2>1. Missed' \subseteq Missed
    BY <1>1, <1>2, <1>3, <1>4, <1>6, <1>8 DEF Missed
  <2> QED BY <1>1, <2>1, FewerMissed DEF NothingMissed
<1>9. CASE p = read + 1
  <2> DEFINE m == read * Size
  <2>1. m \in Nat /\ read' = read + 1 /\ read' * Size = m + Size /\ (p - 1) * Size = m
    BY <1>2, <1>3, <1>4, <1>9
  <2> HIDE DEF m, p
  <2>2. \A x \in Alone(shown) : ~ (Rank(x) < m) /\ Rank(x) < m + Size => x \in seen'
    <3>1. Alone(shown) \subseteq shown
      BY DEF Alone
    <3> QED BY <1>3, <1>5, <1>7, <2>1, <3>1
  <2>3. \A x \in Missed' : x \in Alone(shown) /\ x \in shown /\ x \in kept' /\ x \notin seen' /\ Rank(x) < m + Size
    BY <1>1, <1>6, <2>1 DEF Missed
  <2>4. \A x \in Missed' : Rank(x) < m
    BY <2>2, <2>3
  <2>5. CASE read = 0
    <3>1. m = 0
      BY <1>3, <2>5 DEF m
    <3>2. Missed' = {}
      BY <1>5, <2>3, <2>4, <3>1
    <3>3. gone \in Nat
      BY BoundAssumption DEF TypeOK
    <3> QED BY <1>1, <3>2, <3>3, FS_EmptySet DEF NothingMissed
  <2>6. CASE read > 0
    <3>1. Missed' \subseteq Missed
      BY <1>6, <2>3, <2>4, <2>6 DEF Missed, m
    <3> QED BY <1>1, <3>1, FewerMissed DEF NothingMissed
  <2> QED BY <1>3, <2>5, <2>6
<1> QED BY <1>2, <1>3, <1>8, <1>9

(* A row that leaves pulls one row, the first of the pages that are left, to *)
(* a page that was read.                                                    *)
LEMMA LeavingMisses ==
  ASSUME TypeOK, NothingMissed, TypeOK', NEW a \in AllRows, Leave(a), shown \ {a} \subseteq shown'
  PROVE  NothingMissed'
<1> DEFINE m == read * Size
<1>1. Size' = Size /\ read' = read /\ seen' = seen /\ kept' \subseteq kept
  BY DEF Size, Leave, reader
<1>2. m \in Nat
  BY SizeType DEF TypeOK
<1>3. \A x : /\ Rank(x) \in Nat /\ Rank(x)' \in Nat
             /\ Rank(x)' >= Rank(x) - 1
             /\ a \notin shown => Rank(x)' >= Rank(x)
  <2> TAKE x
  <2> DEFINE S == shown  T == shown'
  <2>1. Rank(x) = Cardinality(Ahead(S, x))
    BY DEF Rank, Ahead
  <2>2. Rank(x)' = Cardinality(Ahead(T, x))
    BY DEF Rank, Ahead, Before, Leave, reader
  <2>3. S \in SUBSET AllRows /\ T \in SUBSET AllRows /\ S \ {a} \subseteq T
    BY DEF TypeOK
  <2>4. a \notin shown <=> a \notin S
    OBVIOUS
  <2> HIDE DEF S, T
  <2> QED BY <2>1, <2>2, <2>3, <2>4, RankGrows
<1>4. /\ Missed = {x \in kept \ seen : Rank(x) < m}
      /\ Missed' = {x \in kept' \ seen : Rank(x)' < m}
  BY <1>1 DEF Missed
<1> HIDE DEF m
<1>5. IsFiniteSet(Missed) /\ Cardinality(Missed) \in Nat /\ Cardinality(Missed) <= gone /\ gone \in Nat
  <2>1. Missed \in SUBSET AllRows
    BY DEF TypeOK, Missed, Alone
  <2>2. IsFiniteSet(Missed)
    BY <2>1, FS_Subset, RowsAssumption
  <2>3. Cardinality(Missed) \in Nat
    BY <2>2, FS_CardinalityType
  <2> QED BY <2>2, <2>3, BoundAssumption DEF TypeOK, NothingMissed
<1>6. CASE a \notin shown
  <2>1. gone' = gone
    BY <1>6 DEF Leave
  <2>2. Missed' \subseteq Missed
    BY <1>1, <1>2, <1>3, <1>4, <1>6
  <2> QED BY <2>1, <2>2, FewerMissed DEF NothingMissed
<1>7. CASE a \in shown /\ read = 0
  <2>1. m = 0
    BY <1>7, SizeType DEF m
  <2>2. Missed' = {}
    BY <1>3, <1>4, <2>1
  <2>3. gone' = gone
    BY <1>7 DEF Leave, TypeOK
  <2> QED BY <1>5, <2>2, <2>3, FS_EmptySet DEF NothingMissed
<1>8. CASE a \in shown /\ read > 0
  <2>1. gone' = gone + 1
    BY <1>8 DEF Leave
  <2>2. \A x \in Missed' \ Missed : x \in Alone(shown) /\ Rank(x) = m
    BY <1>1, <1>2, <1>3, <1>4 DEF TypeOK
  <2>3. ASSUME NEW x \in Missed' \ Missed, NEW y \in Missed' \ Missed PROVE x = y
    <3> DEFINE S == shown
    <3>1. x \in Alone(S) /\ y \in S /\ S \in SUBSET AllRows
      BY <2>2 DEF TypeOK, Alone
    <3>2. Cardinality(Ahead(S, x)) = Cardinality(Ahead(S, y))
      BY <2>2 DEF Rank, Ahead
    <3> HIDE DEF S
    <3> QED BY <3>1, <3>2, RankOrders
  <2>4. PICK z : Missed' \subseteq Missed \cup {z}
    BY <2>3
  <2>5. IsFiniteSet(Missed \cup {z}) /\ Cardinality(Missed \cup {z}) <= Cardinality(Missed) + 1
    <3> DEFINE M == Missed
    <3>1. IsFiniteSet(M) /\ Cardinality(M) \in Nat
      BY <1>5
    <3> HIDE DEF M
    <3>2. /\ IsFiniteSet(M \cup {z})
          /\ Cardinality(M \cup {z}) = IF z \in M THEN Cardinality(M) ELSE Cardinality(M) + 1
      BY <3>1, FS_AddElement
    <3>3. Cardinality(M \cup {z}) <= Cardinality(M) + 1
      BY <3>1, <3>2
    <3> QED BY <3>2, <3>3 DEF M
  <2>6. IsFiniteSet(Missed') /\ Cardinality(Missed') <= Cardinality(Missed \cup {z})
    BY <2>4, <2>5, FS_Subset
  <2>7. Cardinality(Missed') \in Nat /\ Cardinality(Missed \cup {z}) \in Nat
    BY <2>5, <2>6, FS_CardinalityType
  <2> QED BY <1>5, <2>1, <2>5, <2>6, <2>7 DEF NothingMissed
<1> QED BY <1>6, <1>7, <1>8 DEF TypeOK

(* Every step keeps the types. *)
LEMMA NextType == TypeOK /\ [Next]_vars => TypeOK'
<1> SUFFICES ASSUME TypeOK, [Next]_vars PROVE TypeOK'
  OBVIOUS
<1> USE DEF TypeOK, reader
<1>1. ASSUME NEW x \in AllRows, Insert(x) PROVE TypeOK'
  BY <1>1 DEF Insert
<1>2. ASSUME NEW x \in AllRows, EnterFilter(x) PROVE TypeOK'
  BY <1>2 DEF EnterFilter
<1>3. ASSUME NEW x \in AllRows, LeaveFilter(x) PROVE TypeOK'
  BY <1>3, BoundAssumption DEF LeaveFilter, Leave
<1>4. ASSUME NEW x \in AllRows, NEW y \in AllRows, Move(x, y) PROVE TypeOK'
  <2>1. shown' \subseteq rows' /\ shown \ {x} \subseteq shown'
    BY <1>4 DEF Move
  <2> QED BY <1>4, <2>1, BoundAssumption DEF Move, Leave
<1>5. ASSUME NEW page \in Numbers \cup {NoNumber}, Get(page) PROVE TypeOK'
  <2>1. read' \in Nat
    <3> DEFINE p == AtLeastOne(page)
    <3>1. \A a, b \in Int : Max({a, b}) \in {a, b} /\ Max({a, b}) >= a
      <4>1. \A a, b \in Int : \E x \in {a, b} : \A y \in {a, b} : x >= y
        OBVIOUS
      <4> QED BY <4>1 DEF Max
    <3>2. p \in Int
      <4>1. page # NoNumber => page \in Int
        BY NumbersAssumption
      <4>2. ASSUME page # NoNumber PROVE Max({1, page}) \in Int
        <5>1. Max({1, page}) \in {1, page}
          BY <3>1, <4>1, <4>2
        <5> QED BY <4>1, <4>2, <5>1
      <4> QED BY <4>2 DEF AtLeastOne
    <3> HIDE DEF p
    <3>3. read' = Max({read, p})
      BY <1>5 DEF Get, p
    <3>4. Max({read, p}) \in {read, p} /\ Max({read, p}) >= read
      BY <3>1, <3>2
    <3> QED BY <3>2, <3>3, <3>4
  <2>2. seen' \subseteq AllRows /\ kept' \subseteq Alone(shown')
    BY <1>5 DEF Get, Pages
  <2> QED BY <1>5, <2>1, <2>2 DEF Get
<1>6. CASE UNCHANGED vars
  BY <1>6 DEF vars
<1> QED BY <1>1, <1>2, <1>3, <1>4, <1>5, <1>6 DEF Next

(* One step, whichever it is, misses no more rows than have left. *)
LEMMA NextMissed == TypeOK /\ NothingMissed /\ [Next]_vars => NothingMissed'
<1> SUFFICES ASSUME TypeOK, NothingMissed, [Next]_vars PROVE NothingMissed'
  OBVIOUS
<1>0. TypeOK'
  BY NextType
<1>1. ASSUME NEW x \in AllRows, Insert(x) PROVE NothingMissed'
  BY <1>0, <1>1, GrowingMisses DEF Insert, reader
<1>2. ASSUME NEW x \in AllRows, EnterFilter(x) PROVE NothingMissed'
  BY <1>0, <1>2, GrowingMisses DEF EnterFilter, reader
<1>3. ASSUME NEW x \in AllRows, LeaveFilter(x) PROVE NothingMissed'
  BY <1>0, <1>3, LeavingMisses DEF LeaveFilter
<1>4. ASSUME NEW x \in AllRows, NEW y \in AllRows, Move(x, y) PROVE NothingMissed'
  <2>1. shown \ {x} \subseteq shown'
    BY <1>4 DEF Move
  <2> QED BY <1>0, <1>4, <2>1, LeavingMisses DEF Move
<1>5. ASSUME NEW page \in Numbers \cup {NoNumber}, Get(page) PROVE NothingMissed'
  BY <1>5, GettingMisses
<1>6. CASE UNCHANGED vars
  <2>1. Missed' = Missed
    BY <1>6 DEF vars, reader, Missed, Rank, Before, Size
  <2> QED BY <1>6, <2>1 DEF vars, NothingMissed
<1> QED BY <1>1, <1>2, <1>3, <1>4, <1>5, <1>6 DEF Next

(* Every variable of the lists keeps its type, for any keys and page sizes. *)
THEOREM TypeCorrect == Spec => []TypeOK
<1>1. Init => TypeOK
  BY InitMissed
<1> QED BY <1>1, NextType, PTL DEF Spec

(* A client who turns the pages misses at most one row for every row that    *)
(* left the list, for any number of rows and any size of a page.            *)
THEOREM NothingIsMissed == Spec => []NothingMissed
<1>1. TypeOK /\ NothingMissed /\ [Next]_vars => (TypeOK /\ NothingMissed)'
  BY NextType, NextMissed
<1>2. Spec => [](TypeOK /\ NothingMissed)
  BY InitMissed, <1>1, PTL DEF Spec
<1> QED BY <1>2, PTL

=============================================================================
