-------------------------- MODULE SelectionTree_proof --------------------------
(***************************************************************************)
(* Proofs about SelectionTree, for every list of rows.                     *)
(*                                                                         *)
(* Settle goes through the rows from the last to the first.  What it       *)
(* leaves (Settled) is shown by induction over the rows it has been        *)
(* through; the rest follows from it and from what it means for a path to  *)
(* begin with another.                                                     *)
(***************************************************************************)
EXTENDS SelectionTree, Induction

L == Len(Rows)

(* What RowsAssumption says of one row.                                    *)
LEMMA RowsType ==
  /\ L \in Nat
  /\ \A i \in Row : /\ i \in Nat /\ i >= 1 /\ i <= L
                    /\ Rows[i].path \in Seq(STRING) /\ Rows[i].path # <<>>
  /\ \A i \in Row : Below[i] = {k \in Row : Rows[k].archive = Rows[i].archive
                                            /\ IsBelow(k, i)}
<1> DEFINE Item == [path : Seq(STRING) \ {<<>>}, archive : Nat, directory : BOOLEAN]
<1>1. Rows \in Seq(Item)
  BY RowsAssumption
<1>2. L \in Nat /\ Row = 1..L
  BY <1>1 DEF L, Row
<1>3. ASSUME NEW i \in Row
      PROVE  Rows[i].path \in Seq(STRING) /\ Rows[i].path # <<>>
  <2>1. Rows[i] \in Item
    <3> HIDE DEF Item
    <3> QED
      BY <1>1 DEF Row
  <2> QED
    BY <2>1, Zenon
<1> QED
  BY <1>2, <1>3 DEF Below

(* A row comes before all that is below it, in its archive.                *)
LEMMA BelowIsLater ==
  ASSUME NEW i \in Row, NEW k \in Below[i]
  PROVE  /\ k \in Row /\ i < k
         /\ Rows[k].archive = Rows[i].archive /\ IsBelow(k, i)
<1>1. k \in Row /\ Rows[k].archive = Rows[i].archive /\ IsBelow(k, i)
  BY RowsType
<1> QED
  BY <1>1, RowsAssumption

-----------------------------------------------------------------------------
(* Settle.                                                                 *)

(* What the loop does at row i.                                            *)
SettleRow(i, before) ==
    IF i \notin Parents THEN before
    ELSE IF Below[i] \subseteq before THEN before \cup {i} ELSE before \ {i}

Going(marks) ==
    CHOOSE f : f = [i \in 1..(L + 1) |->
                      IF i = L + 1 THEN marks ELSE SettleRow(i, f[i + 1])]

(* Settle is the last turn of that loop.                                   *)
LEMMA SettleGoes == \A marks : Settle(marks) = Going(marks)[1]
  BY Zenon DEF Settle, Going, SettleRow, L

(* The recursion has a solution.                                           *)
LEMMA GoingSteps ==
  ASSUME NEW marks \in SUBSET Row
  PROVE  /\ Going(marks) \in [1..(L + 1) -> SUBSET Row]
         /\ Going(marks)[L + 1] = marks
         /\ \A i \in Row : Going(marks)[i] = SettleRow(i, Going(marks)[i + 1])
<1> DEFINE next == [m \in 1..L |-> [s \in SUBSET Row |-> SettleRow(L + 1 - m, s)]]
<1>1. L \in Nat /\ Row = 1..L
  BY RowsType DEF L, Row
<1>2. \A i \in Row : \A s \in SUBSET Row : SettleRow(i, s) \in SUBSET Row
  BY DEF SettleRow
<1>3. \A m \in 1..L : \A s \in SUBSET Row :
         next[m][s] = SettleRow(L + 1 - m, s) /\ next[m][s] \in SUBSET Row
  BY <1>1, <1>2
<1> HIDE DEF next
<1>4. PICK g \in [0..L -> SUBSET Row] :
         /\ g[0] = marks
         /\ \A m \in 1..L : g[m] = next[m][g[m - 1]]
  <2>1. Turns(next, SUBSET Row, L)
    BY <1>3, Zenon DEF Turns
  <2>2. \E g : Runs(g, SUBSET Row, marks, next, L)
    BY <1>1, <2>1, Iterated
  <2> QED
    BY <2>2, Zenon DEF Runs
<1> DEFINE f == [i \in 1..(L + 1) |-> g[L + 1 - i]]
<1>5. /\ f \in [1..(L + 1) -> SUBSET Row]
      /\ f[L + 1] = marks
  BY <1>1, <1>4
<1>6. ASSUME NEW i \in Row PROVE f[i] = SettleRow(i, f[i + 1])
  <2> DEFINE m == L + 1 - i
  <2>1. m \in 1..L /\ m - 1 \in 0..L /\ L + 1 - m = i /\ L + 1 - (i + 1) = m - 1
        /\ i \in 1..(L + 1) /\ i + 1 \in 1..(L + 1)
    BY <1>1
  <2>2. f[i] = g[m] /\ f[i + 1] = g[m - 1]
    BY <2>1
  <2> HIDE DEF f, m
  <2>3. g[m] = SettleRow(i, g[m - 1])
    BY <1>3, <1>4, <2>1
  <2> QED
    BY <2>2, <2>3
<1>7. f = [i \in 1..(L + 1) |-> IF i = L + 1 THEN marks ELSE SettleRow(i, f[i + 1])]
  <2>1. \A i \in 1..(L + 1) :
           f[i] = IF i = L + 1 THEN marks ELSE SettleRow(i, f[i + 1])
    <3> HIDE DEF f
    <3>1. \A i \in 1..(L + 1) : i # L + 1 => i \in Row
      BY <1>1
    <3> QED
      BY <1>5, <1>6, <3>1, Zenon
  <2> QED
    BY <2>1, Zenon
<1> HIDE DEF f
<1>8. Going(marks) = [i \in 1..(L + 1) |->
         IF i = L + 1 THEN marks ELSE SettleRow(i, Going(marks)[i + 1])]
  BY <1>7, Zenon DEF Going
<1> DEFINE h == Going(marks)
           T == {m \in Nat : m <= L => h[L + 1 - m] \in SUBSET Row}
<1>9. /\ \A i \in 1..(L + 1) : h[i] = IF i = L + 1 THEN marks ELSE SettleRow(i, h[i + 1])
      /\ h = [i \in 1..(L + 1) |-> h[i]]
  BY <1>8, Zenon
<1> HIDE DEF h
<1>10. h[L + 1] = marks /\ \A i \in Row : h[i] = SettleRow(i, h[i + 1])
  <2>1. /\ L + 1 \in 1..(L + 1)
        /\ \A i \in Row : i \in 1..(L + 1) /\ i # L + 1
    BY <1>1
  <2> QED
    BY <1>9, <2>1, Zenon
<1>11. ASSUME NEW m \in Nat, \A k \in Nat : k < m => k \in T
       PROVE  m \in T
  <2> SUFFICES ASSUME m <= L PROVE h[L + 1 - m] \in SUBSET Row
    OBVIOUS
  <2>1. CASE m = 0
    <3>1. L + 1 - m = L + 1
      BY <1>1, <2>1
    <3> QED
      BY <1>10, <3>1, Zenon
  <2>2. CASE m # 0
    <3> DEFINE i == L + 1 - m
    <3>1. m - 1 \in Nat /\ m - 1 < m /\ m - 1 <= L /\ L + 1 - (m - 1) = i + 1 /\ i \in Row
      BY <1>1, <2>2
    <3>2. m - 1 \in T
      BY <1>11, <3>1
    <3>3. h[i + 1] \in SUBSET Row
      BY <3>1, <3>2
    <3> HIDE DEF i
    <3>4. h[i] \in SUBSET Row
      BY <1>2, <1>10, <3>1, <3>3, Zenon
    <3> QED
      BY <3>4 DEF i
  <2> QED
    BY <2>1, <2>2
<1>12. \A m \in Nat : m \in T
  <2> HIDE DEF T
  <2> QED
    BY <1>11, Induct, Zenon
<1>13. \A i \in 1..(L + 1) : h[i] \in SUBSET Row
  <2> SUFFICES ASSUME NEW i \in 1..(L + 1) PROVE h[i] \in SUBSET Row
    OBVIOUS
  <2>1. L + 1 - i \in Nat /\ L + 1 - i <= L /\ L + 1 - (L + 1 - i) = i
    BY <1>1
  <2>2. L + 1 - i \in T
    BY <1>12, <2>1, Zenon
  <2> QED
    BY <2>1, <2>2
<1>14. h \in [1..(L + 1) -> SUBSET Row]
  BY <1>9, <1>13, Zenon
<1> QED
  BY <1>10, <1>14 DEF h

(* What Settle leaves: other rows stay, and every folder with something    *)
(* below it is checked exactly when all of that is.                        *)
Settled(final, marks) ==
    /\ final \subseteq Row
    /\ \A i \in Row \ Parents : i \in final <=> i \in marks
    /\ \A i \in Parents : i \in final <=> Below[i] \subseteq final

(* Settle settles the marks it is given.                                   *)
LEMMA SettleSettles ==
  ASSUME NEW marks \in SUBSET Row
  PROVE  Settled(Settle(marks), marks)
<1> DEFINE d == Going(marks)
<1>1. /\ d \in [1..(L + 1) -> SUBSET Row] /\ d[L + 1] = marks
      /\ \A i \in Row : d[i] = SettleRow(i, d[i + 1])
  BY GoingSteps
<1>2. L \in Nat /\ Row = 1..L
  BY RowsType DEF L, Row
<1>3. Parents \subseteq Row
  BY DEF Parents
<1> HIDE DEF d
(* After m rows, the last m are settled and the others as they were.       *)
<1> DEFINE Done(m) ==
             LET j == L + 1 - m IN
             /\ \A i \in Row : i < j => (i \in d[j] <=> i \in marks)
             /\ \A i \in Row \ Parents : i \in d[j] <=> i \in marks
             /\ \A i \in Parents : i >= j => (i \in d[j] <=> Below[i] \subseteq d[j])
           T == {m \in Nat : m <= L => Done(m)}
<1>4. ASSUME NEW m \in Nat, \A k \in Nat : k < m => k \in T
      PROVE  m \in T
  <2> SUFFICES ASSUME m <= L PROVE Done(m)
    OBVIOUS
  <2>1. CASE m = 0
    BY <1>1, <1>2, <1>3, <2>1
  <2>2. CASE m # 0
    <3> DEFINE j == L + 1 - m
    <3>1. /\ m - 1 \in Nat /\ m - 1 < m /\ m - 1 <= L
          /\ L + 1 - (m - 1) = j + 1 /\ j \in Row /\ j \in Nat
      BY <1>2, <2>2
    <3>2. Done(m - 1)
      BY <1>4, <3>1
    <3>3. /\ \A i \in Row : i < j + 1 => (i \in d[j + 1] <=> i \in marks)
          /\ \A i \in Row \ Parents : i \in d[j + 1] <=> i \in marks
          /\ \A i \in Parents : i >= j + 1 =>
                 (i \in d[j + 1] <=> Below[i] \subseteq d[j + 1])
      BY <3>1, <3>2
    <3> SUFFICES /\ \A i \in Row : i < j => (i \in d[j] <=> i \in marks)
                 /\ \A i \in Row \ Parents : i \in d[j] <=> i \in marks
                 /\ \A i \in Parents : i >= j => (i \in d[j] <=> Below[i] \subseteq d[j])
      OBVIOUS
    <3> HIDE DEF j, Done, T
    <3>4. d[j] = SettleRow(j, d[j + 1])
      BY <1>1, <3>1
    <3>5. \A i \in Row : i # j => (i \in d[j] <=> i \in d[j + 1])
      BY <3>4 DEF SettleRow
    <3>6. j \notin Parents => d[j] = d[j + 1]
      BY <3>4 DEF SettleRow
    <3>7. j \in Parents => (j \in d[j] <=> Below[j] \subseteq d[j + 1])
      BY <3>4 DEF SettleRow
    <3>8. \A i \in Row : i >= j =>
             (Below[i] \subseteq d[j] <=> Below[i] \subseteq d[j + 1])
      <4> SUFFICES ASSUME NEW i \in Row, i >= j, NEW k \in Below[i]
                   PROVE  k \in d[j] <=> k \in d[j + 1]
        OBVIOUS
      <4>1. k \in Row /\ i < k
        BY BelowIsLater
      <4>2. k # j
        BY <1>2, <3>1, <4>1
      <4> QED
        BY <3>5, <4>1, <4>2
    <3>9. \A i \in Row : i < j => (i \in d[j] <=> i \in marks)
      BY <1>2, <3>1, <3>3, <3>5
    <3>10. \A i \in Row \ Parents : i \in d[j] <=> i \in marks
      BY <3>3, <3>5, <3>6, Zenon
    <3>11. ASSUME NEW i \in Parents, i >= j
           PROVE  i \in d[j] <=> Below[i] \subseteq d[j]
      <4>1. CASE i = j
        <5>1. j >= j
          BY <3>1
        <5> QED
          BY <3>1, <3>7, <3>8, <3>11, <4>1, <5>1, Zenon
      <4>2. CASE i # j
        <5>1. i \in Row /\ i >= j + 1
          BY <1>2, <1>3, <3>1, <3>11, <4>2
        <5> QED
          BY <3>3, <3>5, <3>8, <3>11, <4>2, <5>1, Zenon
      <4> QED
        BY <4>1, <4>2
    <3> QED
      BY <3>9, <3>10, <3>11
  <2> QED
    BY <2>1, <2>2
<1>5. Done(L)
  <2>1. L \in T
    <3> HIDE DEF T
    <3> QED
      BY <1>2, <1>4, Induct, Zenon
  <2> QED
    BY <1>2, <2>1
<1>6. L + 1 - L = 1 /\ 1 \in 1..(L + 1)
  BY <1>2
<1>7. Settle(marks) = d[1]
  BY SettleGoes, Zenon DEF d
<1>8. d[1] \subseteq Row
  BY <1>1, <1>6
<1>9. \A i \in Parents : i >= 1
  BY <1>2, <1>3
<1> QED
  BY <1>5, <1>6, <1>7, <1>8, <1>9 DEF Settled

-----------------------------------------------------------------------------
(* Paths.                                                                  *)

Begins(p, q) == Len(q) > Len(p) /\ SubSeq(q, 1, Len(p)) = p

(* A beginning of a path.                                                  *)
LEMMA SubSeqType ==
  ASSUME NEW q \in Seq(STRING), NEW n \in Nat, n <= Len(q)
  PROVE  /\ SubSeq(q, 1, n) \in Seq(STRING) /\ Len(SubSeq(q, 1, n)) = n
         /\ \A k \in 1..n : SubSeq(q, 1, n)[k] = q[k]
  OBVIOUS

(* A path begins with another when it is longer and agrees with it.        *)
LEMMA BeginsIsAgreement ==
  ASSUME NEW p \in Seq(STRING), NEW q \in Seq(STRING)
  PROVE  Begins(p, q) <=> Len(q) > Len(p) /\ \A k \in 1..Len(p) : q[k] = p[k]
<1>1. Len(p) \in Nat /\ Len(q) \in Nat
  OBVIOUS
<1>2. CASE Len(q) > Len(p)
  <2> DEFINE r == SubSeq(q, 1, Len(p))
  <2>1. /\ r \in Seq(STRING) /\ Len(r) = Len(p)
        /\ \A k \in 1..Len(p) : r[k] = q[k]
    BY <1>1, <1>2
  <2> HIDE DEF r
  <2>2. r = p <=> \A k \in 1..Len(p) : q[k] = p[k]
    BY <2>1
  <2> QED
    BY <1>2, <2>2 DEF Begins, r
<1> QED
  BY <1>1, <1>2 DEF Begins

(* Of two beginnings of a path one begins with the other, or they are the  *)
(* same.                                                                   *)
LEMMA BeginningsCompare ==
  ASSUME NEW p \in Seq(STRING), NEW q \in Seq(STRING), NEW r \in Seq(STRING),
         Begins(p, r), Begins(q, r)
  PROVE  p = q \/ Begins(p, q) \/ Begins(q, p)
<1>1. Len(p) \in Nat /\ Len(q) \in Nat
  OBVIOUS
<1>2. /\ \A k \in 1..Len(p) : r[k] = p[k]
      /\ \A k \in 1..Len(q) : r[k] = q[k]
  BY BeginsIsAgreement
<1>3. CASE Len(p) < Len(q)
  BY <1>1, <1>2, <1>3, BeginsIsAgreement
<1>4. CASE Len(q) < Len(p)
  BY <1>1, <1>2, <1>4, BeginsIsAgreement
<1>5. CASE Len(p) = Len(q)
  BY <1>2, <1>5
<1> QED
  BY <1>1, <1>3, <1>4, <1>5

(* A beginning of a beginning is one.                                      *)
LEMMA BeginningsChain ==
  ASSUME NEW p \in Seq(STRING), NEW q \in Seq(STRING), NEW r \in Seq(STRING),
         Begins(p, q), Begins(q, r)
  PROVE  Begins(p, r)
<1>1. Len(p) \in Nat /\ Len(q) \in Nat /\ Len(r) \in Nat
  OBVIOUS
<1>2. /\ Len(q) > Len(p) /\ Len(r) > Len(q)
      /\ \A k \in 1..Len(p) : q[k] = p[k]
      /\ \A k \in 1..Len(q) : r[k] = q[k]
  BY BeginsIsAgreement
<1> QED
  BY <1>1, <1>2, BeginsIsAgreement

(* A row is below another when the path of the other begins its own.       *)
LEMMA IsBelowBegins ==
  \A i, k \in Row : IsBelow(k, i) <=> Begins(Rows[i].path, Rows[k].path)
  BY Zenon DEF IsBelow, Begins

-----------------------------------------------------------------------------
(* The invariant.                                                          *)
IInv == checked \subseteq Row /\ ListAgrees /\ FolderIsSubtree

(* A change is the marks of the rows the list view shows, spread and       *)
(* settled; the list view is corrected to exactly those.                   *)
LEMMA Changed ==
  ASSUME IInv, NEW new \in SUBSET Row, Change(new)
  PROVE  /\ selected' = checked' /\ checked' \subseteq Row
         /\ \/ new = Row /\ checked' = Row
            \/ LET marks == Spread(new, new \ checked, checked \ new) IN
               marks \subseteq Row /\ Settled(checked', marks)
<1> DEFINE added == new \ selected
           removed == selected \ new
           first == (checked \cup added) \ removed
           marks == Spread(first, added, removed)
           final == IF new = Row THEN first ELSE Settle(marks)
<1>1. selected = checked /\ checked \subseteq Row
  BY DEF IInv, ListAgrees
<1>2. first = new /\ added = new \ checked /\ removed = checked \ new
  BY <1>1
<1>3. /\ checked' = final
      /\ selected' = (new \cup (final \ first)) \ (first \ final)
  BY Zenon DEF Change
<1>4. marks \subseteq Row
  <2>1. \A i \in Row : Below[i] \subseteq Row
    BY RowsType, Zenon
  <2>2. Subtrees(added) \subseteq Row
    BY <1>2, <2>1, Zenon DEF Subtrees
  <2> QED
    BY <1>2, <2>2 DEF Spread
<1> HIDE DEF marks
<1>5. new # Row => Settled(final, marks)
  BY <1>4, SettleSettles
<1>6. final \subseteq Row
  BY <1>2, <1>5 DEF Settled
<1>7. new = Row => final = Row
  BY <1>2
<1> HIDE DEF final
<1>8. selected' = final
  BY <1>2, <1>3, <1>6
<1>9. marks = Spread(new, new \ checked, checked \ new)
  BY <1>2 DEF marks
<1> QED
  BY <1>3, <1>4, <1>5, <1>6, <1>7, <1>8, <1>9

(* OnEntrySelectionChanged keeps the invariant.                            *)
LEMMA ChangeKeeps ==
  ASSUME IInv, NEW new \in SUBSET Row, Change(new)
  PROVE  IInv'
<1>1. CASE new = Row /\ checked' = Row
  <2>1. \A i \in Parents : i \in Row /\ Below[i] \subseteq Row
    BY RowsType, Zenon DEF Parents
  <2> QED
    BY <1>1, <2>1, Changed DEF IInv, ListAgrees, FolderIsSubtree
<1>2. CASE \E marks : Settled(checked', marks)
  BY <1>2, Changed DEF Settled, IInv, ListAgrees, FolderIsSubtree
<1> QED
  BY <1>1, <1>2, Changed, Zenon

(* The list starts with every row checked.                                 *)
LEMMA Initially == Init => IInv
<1>1. \A i \in Parents : i \in Row /\ Below[i] \subseteq Row
  BY RowsType, Zenon DEF Parents
<1> QED
  BY <1>1 DEF Init, IInv, ListAgrees, FolderIsSubtree

(* So does every operation of the user.                                    *)
LEMMA NextKeeps == IInv /\ [Next]_vars => IInv'
<1> SUFFICES ASSUME IInv, [Next]_vars PROVE IInv'
  OBVIOUS
<1>1. checked \subseteq Row /\ selected = checked
  BY DEF IInv, ListAgrees
<1>2. CASE SelectRange
  <2>1. PICK first \in Row : \E last \in first..Len(Rows) :
           Change(selected \cup first..last) \/ Change(selected \ (first..last))
    BY <1>2, Zenon DEF SelectRange
  <2>2. PICK last \in first..Len(Rows) :
           Change(selected \cup first..last) \/ Change(selected \ (first..last))
    BY <2>1
  <2>3. first..last \subseteq Row
    BY RowsType DEF Row, L
  <2> QED
    BY <1>1, <2>2, <2>3, ChangeKeeps
<1>3. CASE SelectAll
  <2>1. \A i \in Parents : i \in Row /\ Below[i] \subseteq Row /\ Below[i] # {}
    BY RowsType, Zenon DEF Parents
  <2>2. (checked' = Row \/ checked' = {}) /\ selected' = checked'
    BY <1>3 DEF SelectAll
  <2> QED
    BY <2>1, <2>2 DEF IInv, ListAgrees, FolderIsSubtree
<1>4. ASSUME NEW i \in Row, Toggle(i) PROVE IInv'
  BY <1>1, <1>4, ChangeKeeps DEF Toggle
<1>5. CASE UNCHANGED vars
  BY <1>5 DEF vars, IInv, ListAgrees, FolderIsSubtree
<1> QED
  BY <1>2, <1>3, <1>4, <1>5 DEF Next

(* The marks are always the list view's, and folders stand for subtrees.   *)
LEMMA Inductive == Spec => []IInv
  BY Initially, NextKeeps, PTL DEF Spec

-----------------------------------------------------------------------------
(* ListAgrees: after any series of clicks, ranges and "select all" the     *)
(* list view shows as selected what the page will extract.                 *)
THEOREM ListShowsMarks == Spec => []ListAgrees
<1>1. IInv => ListAgrees
  BY DEF IInv
<1> QED
  BY <1>1, Inductive, PTL

(* FolderIsSubtree: the comment in OnEntrySelectionChanged, "a checked     *)
(* folder always represents its entire subtree", for every list of rows.   *)
THEOREM FoldersStandForSubtrees == Spec => []FolderIsSubtree
<1>1. IInv => FolderIsSubtree
  BY DEF IInv
<1> QED
  BY <1>1, Inductive, PTL

(* What the rule of the engine reaches through the path of a checked row:  *)
(* a checked row, or one that is taken along.  Folders reach no other,     *)
(* because they stand for their subtrees.                                  *)
LEMMA ReachedThroughChecked ==
  ASSUME IInv, NEW a, NEW i \in Listed(a), NEW c \in Checked(a),
         NEW n \in 1..Len(Rows[i].path), Rows[c].path = SubSeq(Rows[i].path, 1, n)
  PROVE  i \in Checked(a) \cup TakenAlong(a)
<1>1. /\ i \in Row /\ c \in Row /\ Rows[c].archive = Rows[i].archive
      /\ c \in checked
  BY DEF Checked, Listed
<1>2. Rows[i].path \in Seq(STRING) /\ Len(Rows[i].path) \in Nat
  BY <1>1, RowsType
<1>3. CASE n = Len(Rows[i].path)
  <2>1. Rows[i].path = Rows[c].path
    BY <1>2, <1>3
  <2> QED
    BY <2>1, Zenon DEF TakenAlong
<1>4. CASE n # Len(Rows[i].path)
  <2>1. n \in Nat /\ n < Len(Rows[i].path)
    BY <1>2, <1>4
  <2>2. Len(Rows[c].path) = n
    BY <1>2, <2>1, SubSeqType
  <2>3. IsBelow(i, c)
    BY <2>1, <2>2, Zenon DEF IsBelow
  <2>4. CASE ~Rows[c].directory
    BY <2>3, <2>4, Zenon DEF TakenAlong
  <2>5. CASE Rows[c].directory
    <3>1. i \in Below[c]
      BY <1>1, <2>3, RowsType
    <3>2. c \in Parents
      BY <1>1, <2>5, <3>1, Zenon DEF Parents
    <3>3. i \in checked
      BY <1>1, <3>1, <3>2 DEF IInv, FolderIsSubtree
    <3> QED
      BY <3>3 DEF Checked
  <2> QED
    BY <2>4, <2>5
<1> QED
  BY <1>3, <1>4

(* What is checked or taken along is reached by the rule.                  *)
LEMMA TakenIsReached ==
  ASSUME NEW a, NEW i \in Checked(a) \cup TakenAlong(a)
  PROVE  Included(Rows[i].path, {Rows[c].path : c \in Checked(a)})
<1> DEFINE paths == {Rows[c].path : c \in Checked(a)}
<1>1. i \in Row
  BY DEF Checked, Listed, TakenAlong
<1>2. /\ Rows[i].path \in Seq(STRING) /\ Rows[i].path # <<>>
      /\ Len(Rows[i].path) \in 1..Len(Rows[i].path)
      /\ SubSeq(Rows[i].path, 1, Len(Rows[i].path)) = Rows[i].path
  BY <1>1, RowsType
<1>3. PICK c \in Checked(a) : Rows[i].path = Rows[c].path \/ IsBelow(i, c)
  BY Zenon DEF TakenAlong
<1>4. Rows[c].path \in paths /\ c \in Row
  BY DEF Checked, Listed
<1> SUFFICES Included(Rows[i].path, paths)
  OBVIOUS
<1> HIDE DEF paths
<1>5. CASE Rows[i].path = Rows[c].path
  BY <1>2, <1>4, <1>5, Zenon DEF Included
<1>6. CASE IsBelow(i, c)
  <2>1. /\ Rows[c].path \in Seq(STRING) /\ Rows[c].path # <<>>
        /\ Len(Rows[i].path) > Len(Rows[c].path)
        /\ SubSeq(Rows[i].path, 1, Len(Rows[c].path)) = Rows[c].path
    BY <1>4, <1>6, RowsType DEF IsBelow
  <2>2. Len(Rows[c].path) \in 1..Len(Rows[i].path)
    BY <1>2, <2>1
  <2> QED
    BY <1>4, <2>1, <2>2, Zenon DEF Included
<1> QED
  BY <1>3, <1>5, <1>6

(* In a tree nothing but checked rows is taken along.                      *)
LEMMA TreesTakeNothingAlong ==
  ASSUME NEW a, IsTree(a)
  PROVE  TakenAlong(a) \subseteq Checked(a)
<1> SUFFICES ASSUME NEW k \in TakenAlong(a) PROVE k \in Checked(a)
  OBVIOUS
<1>1. PICK i \in Checked(a) : \/ Rows[k].path = Rows[i].path
                              \/ ~Rows[i].directory /\ IsBelow(k, i)
  BY Zenon DEF TakenAlong
<1>2. k \in Listed(a) /\ i \in Listed(a)
  BY DEF TakenAlong, Checked
<1>3. k = i
  BY <1>1, <1>2, Zenon DEF IsTree
<1> QED
  BY <1>3

(* ExtractsChecked: the engine's rule, which extracts all that is below a  *)
(* selected path, reaches no unchecked row through a folder, whatever the  *)
(* archive lists; of a tree it yields the checked rows and no other.       *)
THEOREM ChecksAreExtracted == Spec => []ExtractsChecked
<1>1. ASSUME IInv, NEW a \in Archives
      PROVE  Extracted(a) = Checked(a) \cup TakenAlong(a)
  <2> DEFINE paths == {Rows[i].path : i \in Checked(a)}
  <2>1. Checked(a) \subseteq Listed(a) /\ TakenAlong(a) \subseteq Listed(a)
    BY DEF Checked, TakenAlong
  <2>2. \A i \in Checked(a) \cup TakenAlong(a) : Included(Rows[i].path, paths)
    BY TakenIsReached
  <2>3. ASSUME NEW i \in Listed(a), Included(Rows[i].path, paths)
        PROVE  i \in Checked(a) \cup TakenAlong(a)
    <3>1. PICK n \in 1..Len(Rows[i].path) : SubSeq(Rows[i].path, 1, n) \in paths
      BY <2>3, Zenon DEF Included
    <3>2. PICK c \in Checked(a) : Rows[c].path = SubSeq(Rows[i].path, 1, n)
      BY <3>1
    <3> QED
      BY <1>1, <3>2, ReachedThroughChecked
  <2> HIDE DEF paths
  <2>4. Extracted(a) = IF Checked(a) = {} THEN {}
                       ELSE IF Checked(a) = Listed(a) THEN Listed(a)
                       ELSE {i \in Listed(a) : Included(Rows[i].path, paths)}
    BY Zenon DEF Extracted, paths
  <2>5. {i \in Listed(a) : Included(Rows[i].path, paths)}
          = Checked(a) \cup TakenAlong(a)
    BY <2>1, <2>2, <2>3, Zenon
  <2>6. Checked(a) = {} => TakenAlong(a) = {}
    BY Zenon DEF TakenAlong
  <2> HIDE DEF Extracted
  <2>7. CASE Checked(a) = {}
    BY <2>4, <2>6, <2>7
  <2>8. CASE Checked(a) # {} /\ Checked(a) = Listed(a)
    BY <2>1, <2>4, <2>8
  <2>9. CASE Checked(a) # {} /\ Checked(a) # Listed(a)
    BY <2>4, <2>5, <2>9, Zenon
  <2> QED
    BY <2>7, <2>8, <2>9
<1>2. ASSUME IInv, NEW a \in Archives, IsTree(a)
      PROVE  Extracted(a) = Checked(a)
  BY <1>1, <1>2, TreesTakeNothingAlong, Zenon
<1>3. IInv => ExtractsChecked
  BY <1>1, <1>2, Zenon DEF ExtractsChecked
<1> QED
  BY <1>3, Inductive, PTL

-----------------------------------------------------------------------------
(* Rows that a click on row i may reach.                                   *)
Related(i) ==
    {k \in Row : /\ Rows[k].archive = Rows[i].archive
                 /\ \/ Rows[k].path = Rows[i].path
                    \/ IsBelow(k, i) \/ IsBelow(i, k)}

(* What is below an unrelated row is unrelated.                            *)
LEMMA UnrelatedBelow ==
  ASSUME NEW i \in Row, NEW k \in Row \ Related(i), NEW m \in Below[k]
  PROVE  m \in Row \ Related(i)
<1>1. m \in Row /\ Rows[m].archive = Rows[k].archive /\ IsBelow(m, k)
  BY BelowIsLater
<1> SUFFICES ASSUME Rows[m].archive = Rows[i].archive,
                    \/ Rows[m].path = Rows[i].path
                    \/ IsBelow(m, i) \/ IsBelow(i, m)
             PROVE  \/ Rows[k].path = Rows[i].path
                    \/ IsBelow(k, i) \/ IsBelow(i, k)
  BY <1>1 DEF Related
<1>2. /\ Rows[i].path \in Seq(STRING) /\ Rows[k].path \in Seq(STRING)
      /\ Rows[m].path \in Seq(STRING)
  BY <1>1, RowsType
<1>3. CASE Rows[m].path = Rows[i].path
  BY <1>1, <1>3, IsBelowBegins, Zenon
<1>4. CASE IsBelow(i, m)
  BY <1>1, <1>2, <1>4, IsBelowBegins, BeginningsChain
<1>5. CASE IsBelow(m, i)
  BY <1>1, <1>2, <1>5, IsBelowBegins, BeginningsCompare
<1> QED
  BY <1>3, <1>4, <1>5

(* Settling marks that differ from settled ones in related rows only       *)
(* changes related rows only.                                              *)
LEMMA SettledIsLocal ==
  ASSUME NEW i \in Row, NEW marks, NEW before, NEW after,
         before \subseteq Row, \A k \in Parents : k \in before <=> Below[k] \subseteq before,
         \A k \in Row \ Related(i) : k \in marks <=> k \in before,
         Settled(after, marks)
  PROVE  \A k \in Row \ Related(i) : k \in after <=> k \in before
<1> DEFINE T == {n \in Nat : \A k \in Row \ Related(i) :
                    k = L - n => (k \in after <=> k \in before)}
<1>1. L \in Nat /\ \A k \in Row : k \in Nat /\ k >= 1 /\ k <= L
  BY RowsType
<1>2. ASSUME NEW n \in Nat, \A k \in Nat : k < n => k \in T
      PROVE  n \in T
  <2> SUFFICES ASSUME NEW k \in Row \ Related(i), k = L - n
               PROVE  k \in after <=> k \in before
    OBVIOUS
  <2>1. ASSUME NEW m \in Below[k] PROVE m \in after <=> m \in before
    <3>1. m \in Row \ Related(i) /\ k < m
      BY UnrelatedBelow, BelowIsLater
    <3>2. L - m \in Nat /\ L - m < n /\ m = L - (L - m)
      BY <1>1, <3>1
    <3>3. L - m \in T
      BY <1>2, <3>2
    <3> QED
      BY <3>1, <3>2, <3>3
  <2>2. CASE k \in Parents
    BY <2>1, <2>2, Zenon DEF Settled
  <2>3. CASE k \notin Parents
    BY <2>3 DEF Settled
  <2> QED
    BY <2>2, <2>3
<1>3. \A n \in Nat : n \in T
  <2> HIDE DEF T
  <2> QED
    BY <1>2, Induct, Zenon
<1> SUFFICES ASSUME NEW k \in Row \ Related(i) PROVE k \in after <=> k \in before
  OBVIOUS
<1>4. L - k \in Nat /\ k = L - (L - k)
  BY <1>1
<1> QED
  BY <1>3, <1>4

(* ClickIsLocal: a click changes its row, what is below it, the folders    *)
(* above it and rows of its path, and nothing else of any archive.         *)
THEOREM ClicksStayLocal == Spec => ClickIsLocal
<1>1. ASSUME IInv, NEW i \in Row, Toggle(i), NEW k \in Row \ Related(i)
      PROVE  k \in checked' <=> k \in checked
  <2> DEFINE new == IF i \in selected THEN selected \ {i} ELSE selected \cup {i}
             marks == Spread(new, new \ checked, checked \ new)
  <2>1. selected = checked /\ checked \subseteq Row
    BY <1>1 DEF IInv, ListAgrees
  <2>2. /\ new \subseteq Row /\ Change(new)
        /\ new \ checked \subseteq {i} /\ checked \ new \subseteq {i}
        /\ \A m \in Row : m # i => (m \in new <=> m \in checked)
    BY <1>1, <2>1 DEF Toggle
  <2>3. i \in Related(i) /\ Below[i] \subseteq Related(i)
    BY BelowIsLater, Zenon DEF Related
  <2> HIDE DEF new
  <2>4. CASE new = Row /\ checked' = Row
    BY <2>2, <2>3, <2>4
  <2>5. CASE Settled(checked', marks)
    <3>1. /\ Subtrees(new \ checked) \subseteq Below[i]
          /\ Subtrees(checked \ new) \subseteq Below[i]
      BY <2>2 DEF Subtrees
    <3>2. \A m \in Row \ Related(i) : m \in marks <=> m \in checked
      BY <2>2, <2>3, <3>1 DEF Spread
    <3> HIDE DEF marks
    <3>3. \A m \in Parents : m \in checked <=> Below[m] \subseteq checked
      BY <1>1 DEF IInv, FolderIsSubtree
    <3> QED
      BY <2>1, <2>5, <3>2, <3>3, SettledIsLocal
  <2> QED
    BY <1>1, <2>2, <2>4, <2>5, Changed
<1>2. ASSUME IInv, IInv', NEW i \in Row, Toggle(i),
             NEW k \in (checked \ checked') \cup (checked' \ checked)
      PROVE  /\ Rows[k].archive = Rows[i].archive
             /\ \/ Rows[k].path = Rows[i].path
                \/ IsBelow(k, i) \/ IsBelow(i, k)
  <2>1. k \in Row
    BY <1>2 DEF IInv
  <2>2. k \in Related(i)
    BY <1>1, <1>2, <2>1
  <2> QED
    BY <2>2 DEF Related
<1>3. IInv /\ IInv' /\ [Next]_vars =>
         [\A i \in Row : Toggle(i) =>
             \A k \in (checked \ checked') \cup (checked' \ checked) :
                 /\ Rows[k].archive = Rows[i].archive
                 /\ \/ Rows[k].path = Rows[i].path
                    \/ IsBelow(k, i) \/ IsBelow(i, k)]_vars
  BY <1>2, Zenon
<1> QED
  BY <1>3, Inductive, PTL DEF Spec, ClickIsLocal
=============================================================================
