---------------------------- MODULE SelectionTree ----------------------------
(***************************************************************************)
(* Which entries of the listed archives are checked, and what extracting   *)
(* them yields.                                                            *)
(*                                                                         *)
(* The page keeps its own check marks (entry_selection_) beside the list   *)
(* view's selection.  The list view reports what the user changed; the     *)
(* page spreads a change of a folder over its subtree, recomputes every    *)
(* folder from its subtree and corrects the list view.  OnExtract hands    *)
(* the checked paths of each archive to the engine, which extracts an      *)
(* entry when its path or one of its parents is among them.                *)
(*                                                                         *)
(* Rows are in the order of the list: per archive, sorted by path, so that *)
(* a path comes before what begins with it.  A path is the sequence of its *)
(* components.  Nothing else is assumed of the archives: an entry may come *)
(* twice, and one that is no folder may have others below it.              *)
(***************************************************************************)
EXTENDS Integers, Sequences, FiniteSets

CONSTANT Rows    \* the list: a sequence of [path, archive, directory]

Row == 1..Len(Rows)

(* descendants: rows whose path starts with the folder's path and a slash. *)
IsBelow(k, i) ==
    LET p == Rows[i].path  q == Rows[k].path IN
    /\ Len(q) > Len(p) /\ SubSeq(q, 1, Len(p)) = p

(* Mutant: the archive is not compared.                                    *)
BelowAnywhere == [i \in Row |-> {k \in Row : IsBelow(k, i)}]

Below ==
    [i \in Row |-> {k \in Row : Rows[k].archive = Rows[i].archive /\ IsBelow(k, i)}]

(* Folders with something below them.                                      *)
Parents == {i \in Row : Rows[i].directory /\ Below[i] # {}}

ASSUME RowsAssumption ==
    /\ Rows \in Seq([path : Seq(STRING) \ {<<>>}, archive : Nat, directory : BOOLEAN])
    /\ \A i, k \in Row :
          Rows[i].archive = Rows[k].archive /\ IsBelow(k, i) => i < k

VARIABLES
    checked,   \* the rows marked in entry_selection_
    selected   \* the rows the list view shows as selected

vars == <<checked, selected>>

Init == checked = Row /\ selected = Row

-----------------------------------------------------------------------------
Subtrees(rows) == UNION {Below[i] : i \in {k \in rows : Rows[k].directory}}

(* Removed folders take their subtree with them, then added folders bring  *)
(* theirs.                                                                 *)
Spread(first, added, removed) ==
    (first \ Subtrees(removed)) \cup added \cup Subtrees(added)

(* Mutants: folders stay as they were clicked; from the first row to the   *)
(* last.                                                                   *)
SettleNothing(marks) == marks

SettleForward(marks) ==
    LET upTo[i \in 0..Len(Rows)] ==
          IF i = 0 THEN marks
          ELSE LET before == upTo[i - 1] IN
               IF i \notin Parents THEN before
               ELSE IF Below[i] \subseteq before THEN before \cup {i}
                                                ELSE before \ {i}
    IN  upTo[Len(Rows)]

(* From the last row to the first, every folder with something below it    *)
(* becomes checked when all of that is.                                    *)
Settle(marks) ==
    LET downTo[i \in 1..(Len(Rows) + 1)] ==
          IF i = Len(Rows) + 1 THEN marks
          ELSE LET before == downTo[i + 1] IN
               IF i \notin Parents THEN before
               ELSE IF Below[i] \subseteq before THEN before \cup {i}
                                                ELSE before \ {i}
    IN  downTo[1]

(* Mutant: the list view is left as the user made it.                      *)
ChangeUncorrected(new) ==
    LET added   == new \ selected
        removed == selected \ new
        first   == (checked \cup added) \ removed
    IN  /\ checked' = IF new = Row THEN first
                                   ELSE Settle(Spread(first, added, removed))
        /\ selected' = new

(* OnEntrySelectionChanged: the list view now shows the rows "new" as      *)
(* selected.  When that is every row there is nothing to work out.  Rows   *)
(* whose mark ends up other than the user left it are then selected or     *)
(* deselected, with this handler switched off.                             *)
Change(new) ==
    LET added   == new \ selected
        removed == selected \ new
        first   == (checked \cup added) \ removed
        final   == IF new = Row THEN first
                                ELSE Settle(Spread(first, added, removed))
    IN  /\ checked' = final
        /\ selected' = (new \cup (final \ first)) \ (first \ final)

(* A click on one row; a click with Shift on a range.                      *)
Toggle(i) ==
    Change(IF i \in selected THEN selected \ {i} ELSE selected \cup {i})

SelectRange ==
    \E first \in Row : \E last \in first..Len(Rows) :
        Change(selected \cup first..last) \/ Change(selected \ (first..last))

(* The "select all" box clears everything when everything is checked.      *)
SelectAll ==
    /\ checked' = IF checked = Row THEN {} ELSE Row
    /\ selected' = checked'

Next == SelectRange \/ SelectAll \/ \E i \in Row : Toggle(i)

Spec == Init /\ [][Next]_vars

-----------------------------------------------------------------------------
(* OnExtract and ArchiveEngine::extract.  *)
Archives  == {Rows[i].archive : i \in Row}
Listed(a) == {i \in Row : Rows[i].archive = a}
Checked(a) == Listed(a) \cap checked

(* The engine looks up the path and each of its parents.                   *)
Included(path, paths) ==
    \E n \in 1..Len(path) : SubSeq(path, 1, n) \in paths

(* The rows the engine writes, should it accept the archive.  Archives     *)
(* without a checked row are skipped; with every row checked the whole     *)
(* archive is extracted.                                                   *)
Extracted(a) ==
    LET paths == {Rows[i].path : i \in Checked(a)} IN
    IF Checked(a) = {} THEN {}
    ELSE IF Checked(a) = Listed(a) THEN Listed(a)
    ELSE {i \in Listed(a) : Included(Rows[i].path, paths)}

-----------------------------------------------------------------------------
(* What the list view shows is what the page will extract, although the    *)
(* page corrects it with its own handler switched off.                     *)
ListAgrees == selected = checked

(* A checked folder always stands for its entire subtree, and a folder     *)
(* whose subtree is checked is checked.                                    *)
FolderIsSubtree ==
    \A i \in Parents : i \in checked <=> Below[i] \subseteq checked

(* What the engine's rule takes along: another entry of a checked path,    *)
(* and what is below a checked entry that is no folder, whose mark the     *)
(* page does not spread.                                                   *)
TakenAlong(a) ==
    {k \in Listed(a) : \E i \in Checked(a) :
        \/ Rows[k].path = Rows[i].path
        \/ ~Rows[i].directory /\ IsBelow(k, i)}

(* An archive that lists no path twice and has content in folders only.    *)
IsTree(a) ==
    \A i, k \in Listed(a) :
        /\ i # k => Rows[i].path # Rows[k].path
        /\ IsBelow(k, i) => Rows[i].directory

(* Extracting yields the checked entries and what is taken along with      *)
(* them: the engine's rule for parents never reaches an unchecked entry    *)
(* through a folder.  Of a tree it yields the checked entries and no other.*)
ExtractsChecked ==
    \A a \in Archives :
        /\ Extracted(a) = Checked(a) \cup TakenAlong(a)
        /\ IsTree(a) => Extracted(a) = Checked(a)

(* A click changes its row, what is below it and the folders above it (and *)
(* a folder that is listed a second time), and nothing else of any archive.*)
ClickIsLocal ==
    [][\A i \in Row : Toggle(i) =>
          \A k \in (checked \ checked') \cup (checked' \ checked) :
              /\ Rows[k].archive = Rows[i].archive
              /\ \/ Rows[k].path = Rows[i].path
                 \/ IsBelow(k, i) \/ IsBelow(i, k)]_vars
=============================================================================
