------------------------ MODULE SourceTraversal_proof ------------------------
(***************************************************************************)
(* What is proved of SourceTraversal, for every tree, selection, bound and *)
(* number of changes by other programs.  TLC checks the same invariants on *)
(* the small tree of the run "split".                                      *)
(***************************************************************************)
EXTENDS SourceTraversal, TLAPS

-----------------------------------------------------------------------------
(* The tree of places.                                                     *)

(* What has every item whose folder it has, has all items.                 *)
LEMMA TreeInduct ==
  ASSUME NEW T,
         \A n \in Items : (Parent[n] # Top => Parent[n] \in T) => n \in T
  PROVE  \A n \in Items : n \in T
<1> DEFINE S == Items \ T
<1> SUFFICES ASSUME S # {} PROVE FALSE
  OBVIOUS
<1>1. PICK n \in S : Parent[n] \notin S
  BY TreeAssumption
<1> QED
  BY <1>1, TreeAssumption

(* Above is what its definition says.                                      *)
LEMMA AboveIs ==
  \A n \in Items :
      Above[n] = IF Parent[n] = Top THEN {} ELSE {Parent[n]} \cup Above[Parent[n]]
<1> DEFINE Closed(S) == \A m \in S : Parent[m] \in S \cup {Top}
           From(n)   == {a \in Items : \A S \in SUBSET Items :
                           Closed(S) /\ Parent[n] \in S \cup {Top} => a \in S}
           f == [n \in Items |-> From(n)]
           Solves(g) ==
               g = [n \in Items |->
                      IF Parent[n] = Top THEN {} ELSE {Parent[n]} \cup g[Parent[n]]]
<1>1. ASSUME NEW n \in Items
      PROVE  From(n) = IF Parent[n] = Top THEN {} ELSE {Parent[n]} \cup From(Parent[n])
  <2>1. CASE Parent[n] = Top
    <3>1. {} \in SUBSET Items /\ Closed({}) /\ Parent[n] \in {} \cup {Top}
      BY <2>1
    <3>2. \A a \in From(n) : a \in {}
      BY <3>1, Zenon
    <3> QED
      BY <2>1, <3>2
  <2>2. CASE Parent[n] # Top
    <3> DEFINE p == Parent[n]
               U == {p} \cup From(p)
    <3>1. p \in Items
      BY <2>2, TreeAssumption
    <3>2. Closed(U)
      <4>1. p # Top
        BY <2>2
      <4>2. Parent[p] \in From(p) \cup {Top}
        BY <3>1, TreeAssumption
      <4>3. ASSUME NEW a \in From(p) PROVE Parent[a] \in From(p) \cup {Top}
        BY <4>3, TreeAssumption
      <4> QED
        BY <4>2, <4>3
    <3>3. U \in SUBSET Items /\ p \in U \cup {Top}
      BY <3>1
    <3>4. From(n) \subseteq U
      BY <3>2, <3>3, Zenon
    <3>5. ASSUME NEW S \in SUBSET Items, Closed(S), p \in S \cup {Top}
          PROVE  U \subseteq S
      <4>1. p \in S /\ Parent[p] \in S \cup {Top}
        BY <2>2, <3>5
      <4>2. From(p) \subseteq S
        BY <3>5, <4>1, Zenon
      <4> QED
        BY <4>1, <4>2
    <3>6. U \subseteq From(n)
      BY <3>3, <3>5
    <3> QED
      BY <2>2, <3>4, <3>6
  <2> QED
    BY <2>1, <2>2
<1> HIDE DEF From
<1>2. Solves(f)
  <2>1. ASSUME NEW n \in Items
        PROVE  f[n] = IF Parent[n] = Top THEN {} ELSE {Parent[n]} \cup f[Parent[n]]
    BY <1>1, TreeAssumption
  <2> HIDE DEF f
  <2>2. f = [n \in Items |-> f[n]]
    BY DEF f
  <2> QED
    BY <2>1, <2>2
<1> HIDE DEF f
<1>3. Above = CHOOSE g : Solves(g)
  BY Zenon DEF Above
<1>4. Solves(Above)
  BY <1>2, <1>3, Zenon
<1> HIDE DEF Solves
<1>5. ASSUME NEW n \in Items
      PROVE  Above[n] = IF Parent[n] = Top THEN {} ELSE {Parent[n]} \cup Above[Parent[n]]
  BY <1>4, Zenon DEF Solves
<1> QED
  BY <1>5

(* The folders above an item are items, and those above them are too; the  *)
(* item is not among them, nor is the staging directory.                   *)
LEMMA AboveIsItems ==
  \A n \in Items : Above[n] \subseteq Items \ {Stage}
<1> DEFINE T == {n \in Items : Above[n] \subseteq Items \ {Stage}}
<1>1. ASSUME NEW n \in Items, Parent[n] # Top => Parent[n] \in T
      PROVE  n \in T
  <2>1. Parent[n] # Stage /\ (Parent[n] # Top => Parent[n] \in Items)
    BY TreeAssumption
  <2> QED
    BY <1>1, <2>1, AboveIs
<1> HIDE DEF T
<1>2. \A n \in Items : n \in T
  BY <1>1, TreeInduct, Zenon
<1> QED
  BY <1>2 DEF T

(* What is above a place is above everything below that place.             *)
LEMMA AboveChain ==
  \A n \in Items : \A a \in Above[n] : Above[a] \subseteq Above[n]
<1> DEFINE T == {n \in Items : \A a \in Above[n] : Above[a] \subseteq Above[n]}
<1>1. ASSUME NEW n \in Items, Parent[n] # Top => Parent[n] \in T
      PROVE  n \in T
  BY <1>1, AboveIs
<1> HIDE DEF T
<1>2. \A n \in Items : n \in T
  BY <1>1, TreeInduct, Zenon
<1> QED
  BY <1>2 DEF T

(* No item is above itself.                                                *)
LEMMA NotAboveItself ==
  \A n \in Items : n \notin Above[n]
<1> DEFINE T == {n \in Items : n \notin Above[n]}
<1>1. ASSUME NEW n \in Items, Parent[n] # Top => Parent[n] \in T
      PROVE  n \in T
  <2>1. CASE Parent[n] = Top
    BY <2>1, AboveIs
  <2>2. CASE Parent[n] # Top
    <3>1. Parent[n] \in Items /\ Parent[n] \notin Above[Parent[n]]
      BY <1>1, <2>2
    <3>2. Above[n] = {Parent[n]} \cup Above[Parent[n]]
      BY <2>2, AboveIs
    <3>3. n \notin Above[Parent[n]]
      BY <3>1, <3>2, AboveChain
    <3> QED
      BY <3>1, <3>2, <3>3
  <2> QED
    BY <2>1, <2>2
<1> HIDE DEF T
<1>2. \A n \in Items : n \in T
  BY <1>1, TreeInduct, Zenon
<1> QED
  BY <1>2 DEF T

(* The folder of an item is above it.                                      *)
LEMMA ParentIsAbove ==
  ASSUME NEW n \in Items, NEW p \in Items, Parent[n] = p
  PROVE  p # n /\ p \in Above[n]
<1>1. p # Top
  BY TreeAssumption
<1>2. p \in Above[n]
  BY <1>1, AboveIs
<1> QED
  BY <1>2, NotAboveItself

(* From a folder to what is below it leads one of its children.            *)
LEMMA ChildTowards ==
  \A n \in Items : \A a \in Above[n] :
      \E c \in Items : Parent[c] = a /\ (c = n \/ c \in Above[n])
<1> DEFINE T == {n \in Items : \A a \in Above[n] :
                    \E c \in Items : Parent[c] = a /\ (c = n \/ c \in Above[n])}
<1>1. ASSUME NEW n \in Items, Parent[n] # Top => Parent[n] \in T
      PROVE  n \in T
  <2> SUFFICES ASSUME NEW a \in Above[n]
               PROVE  \E c \in Items : Parent[c] = a /\ (c = n \/ c \in Above[n])
    OBVIOUS
  <2>1. Parent[n] # Top /\ Above[n] = {Parent[n]} \cup Above[Parent[n]]
    BY AboveIs
  <2>2. CASE a = Parent[n]
    BY <2>2
  <2>3. CASE a \in Above[Parent[n]]
    <3>1. PICK c \in Items : Parent[c] = a /\ (c = Parent[n] \/ c \in Above[Parent[n]])
      BY <1>1, <2>1, <2>3
    <3> QED
      BY <2>1, <3>1
  <2> QED
    BY <2>1, <2>2, <2>3
<1> HIDE DEF T
<1>2. \A n \in Items : n \in T
  BY <1>1, TreeInduct, Zenon
<1> QED
  BY <1>2 DEF T

(* A child of what is the same as or below a folder is below that folder,  *)
(* and what lies between an item and the folder lies between the child and *)
(* the folder, or is the child.                                            *)
LEMMA BelowParent ==
  ASSUME NEW c \in Items, NEW s \in Items, Parent[c] # Top, IsSameOrBelow(Parent[c], s)
  PROVE  IsSameOrBelow(c, s) /\ s \in Above[c]
  BY AboveIs DEF IsSameOrBelow

-----------------------------------------------------------------------------
(* The invariant.  First, where compress is.                               *)
Frame == [item : Items, steady : SUBSET Items, met : SUBSET Items, given : SUBSET Items]
Record == [item : Items, source : 1..Len(sources), declared : 0..MaxSize,
           written : 0..MaxSize]

Control ==
    /\ TypeOK
    /\ pc = "checking" => source = 0 /\ archive = <<>>
    /\ pc # "walking" => folders = <<>> /\ reading = NoFile
    /\ pc = "closed" => source = Len(sources)
    /\ reading # NoFile => reading.item \in Items
    /\ folders # <<>> \/ reading # NoFile => source \in 1..Len(sources)

(* What other programs leave of the tree: an item that is there is in a    *)
(* folder that is there, and the destination stays.  It is below no source *)
(* once the checks have passed.                                            *)
Started == pc \in {"walking", "closed"}

Grounded ==
    /\ kind[destination] = "dir"
    /\ \A n \in Items \ {Stage} :
          kind[n] # "none" /\ Parent[n] # Top => kind[Parent[n]] = "dir"
    /\ Started => \A i \in DOMAIN sources : ~IsSameOrBelow(destination, sources[i])

(* An item that may go into the archive for source i, and its folder.      *)
Written(n, i) == \E e \in DOMAIN archive : archive[e].item = n /\ archive[e].source = i
Due(n, i)     == n # Stage /\ ~Excluded(n) /\ IsSameOrBelow(n, sources[i])
Placed(n, i)  == n # sources[i] => Written(Parent[n], i)

(* Each open folder is written; its iterator meets its children; no folder *)
(* is open twice.                                                          *)
OpenIn(open, i) ==
    /\ \A k \in DOMAIN open :
          /\ Due(open[k].item, i) /\ Written(open[k].item, i)
          /\ Stage \notin open[k].met
          /\ \A c \in open[k].met : Parent[c] = open[k].item
    /\ \A k, l \in DOMAIN open : open[k].item = open[l].item => k = l

(* Item n is not to come again from an open folder.                        *)
GivenIn(open, n) ==
    \A k \in DOMAIN open : open[k].item = Parent[n] => n \in open[k].given

(* Entries come once, after their folder, and not from a later source.     *)
EntryIn(e) ==
    LET n == archive[e].item  i == archive[e].source IN
    /\ Due(n, i)
    /\ n # sources[i] =>
          \E d \in 1..(e - 1) : archive[d].item = Parent[n] /\ archive[d].source = i
    /\ \A d \in DOMAIN archive :
          archive[d].item = n /\ archive[d].source = i => d = e
    /\ archive[e].written = archive[e].declared

OrderedIn(open, i) ==
    \A e \in DOMAIN archive :
        /\ EntryIn(e) /\ archive[e].source <= i
        /\ archive[e].source = i => GivenIn(open, archive[e].item)

(* An item that belongs into the archive and is not in it yet will be met: *)
(* it is one of those at hand, or an open folder has yet to give it or a   *)
(* folder above it.                                                        *)
PendingIn(open, hand, n, s) ==
    \/ n \in hand
    \/ \E k \in DOMAIN open :
          \E c \in open[k].steady \ open[k].given : c \in Between(n, s)

CompleteIn(open, i, hand) ==
    \A j \in 1..i : \A n \in Items \ {Stage} :
        Belongs(n, sources[j]) =>
            Written(n, j) \/ (j = i /\ PendingIn(open, hand, n, sources[j]))

(* The open file is yet to be written, and only once.                      *)
Reading ==
    reading # NoFile =>
        LET n == reading.item IN
        /\ Due(n, source) /\ Placed(n, source) /\ ~Written(n, source)
        /\ GivenIn(folders, n)

AtHand == IF reading = NoFile THEN {} ELSE {reading.item}

IInv ==
    /\ Control /\ Grounded /\ Reading
    /\ OpenIn(folders, source) /\ OrderedIn(folders, source)
    /\ Started => CompleteIn(folders, source, AtHand)

-----------------------------------------------------------------------------
(* The invariant holds at the beginning.                                   *)
LEMMA SourcesType ==
  ASSUME TypeOK
  PROVE  /\ sources \in Seq(Items \ {Stage}) /\ Len(sources) \in Nat
         /\ \A i \in 1..Len(sources) : sources[i] \in Items \ {Stage}
         /\ destination \in Items \ {Stage}
  BY TreeAssumption DEF TypeOK

(* The archive is a sequence of entries, the open folders one of folders.  *)
LEMMA ArchiveType ==
  ASSUME TypeOK
  PROVE  /\ archive \in Seq(Record) /\ Len(archive) \in Nat
         /\ DOMAIN archive = 1..Len(archive)
         /\ \A e \in DOMAIN archive :
               archive[e].item \in Items /\ archive[e].source \in 1..Len(sources)
<1>1. archive \in Seq(Record)
  BY DEF TypeOK, Record
<1>2. \A x \in Record : x.item \in Items /\ x.source \in 1..Len(sources)
  BY DEF Record
<1> QED
  BY <1>1, <1>2

(* The invariant holds at the beginning.                                   *)
LEMMA InitKeeps == Init => IInv
<1> SUFFICES ASSUME Init PROVE IInv
  OBVIOUS
<1>1. TypeOK
  <2>1. /\ kind \in [Items -> Kinds] /\ size \in [Items -> 0..MaxSize]
        /\ sources \in Selections /\ destination \in Destinations
        /\ sources \in Seq(Items \ {Stage}) /\ Len(sources) \in Nat
    BY TreeAssumption DEF Init
  <2>2. reading \in [item : Items \cup {Top}, declared : 0..MaxSize, done : 0..MaxSize]
    BY TreeAssumption DEF Init, NoFile
  <2>3. /\ pc \in {"checking", "walking", "closed", "failed"}
        /\ source \in 0..Len(sources)
        /\ cancelled \in BOOLEAN /\ touched \subseteq Items
        /\ changes \in 0..MaxChanges
    <3>1. /\ pc = "checking" /\ source = 0 /\ cancelled = FALSE /\ touched = {}
          /\ changes = 0
      BY DEF Init
    <3>2. MaxChanges \in Nat
      BY TreeAssumption
    <3>3. cancelled \in BOOLEAN
      BY <3>1, Zenon
    <3>4. source \in 0..Len(sources) /\ changes \in 0..MaxChanges
      BY <2>1, <3>1, <3>2
    <3> QED
      BY <3>1, <3>3, <3>4
  <2>4. folders = <<>> /\ archive = <<>>
    BY DEF Init
  <2> QED
    BY <2>1, <2>2, <2>3, <2>4 DEF TypeOK
<1>2. Control
  BY <1>1 DEF Init, Control
<1>3. Grounded
  BY DEF Init, Grounded, Started
<1>4. OpenIn(folders, source) /\ OrderedIn(folders, source) /\ Reading
  BY DEF Init, OpenIn, OrderedIn, Reading
<1>5. ~Started
  BY DEF Init, Started
<1> QED
  BY <1>2, <1>3, <1>4, <1>5 DEF IInv

(* Every folder above an item that is there is a folder that is there.     *)
LEMMA FoldersAbove ==
  ASSUME Grounded
  PROVE  \A n \in Items \ {Stage} : kind[n] # "none" => \A a \in Above[n] : kind[a] = "dir"
<1> DEFINE T == {n \in Items : n # Stage /\ kind[n] # "none" =>
                                  \A a \in Above[n] : kind[a] = "dir"}
<1>1. ASSUME NEW n \in Items, Parent[n] # Top => Parent[n] \in T
      PROVE  n \in T
  <2> SUFFICES ASSUME n # Stage, kind[n] # "none", NEW a \in Above[n]
               PROVE  kind[a] = "dir"
    OBVIOUS
  <2>1. /\ Parent[n] # Top /\ Parent[n] # Stage
        /\ Above[n] = {Parent[n]} \cup Above[Parent[n]]
    BY AboveIs, TreeAssumption
  <2>2. kind[Parent[n]] = "dir"
    BY <2>1 DEF Grounded
  <2> QED
    BY <1>1, <2>1, <2>2
<1> HIDE DEF T
<1>2. \A n \in Items : n \in T
  BY <1>1, TreeInduct, Zenon
<1> QED
  BY <1>2 DEF T

(* After the checks the destination is below no source.                    *)
LEMMA ChecksSeparate ==
  ASSUME TypeOK, Grounded, Acceptable
  PROVE  \A i \in DOMAIN sources : ~IsSameOrBelow(destination, sources[i])
<1> SUFFICES ASSUME NEW i \in DOMAIN sources, IsSameOrBelow(destination, sources[i])
             PROVE  FALSE
  OBVIOUS
<1>1. kind[sources[i]] = "dir"
  BY FoldersAbove, SourcesType DEF IsSameOrBelow, Grounded
<1> QED
  BY <1>1 DEF Acceptable

-----------------------------------------------------------------------------
(* Steps that leave the walk and the tree's items alone.                   *)

(* What the invariant says of the walk depends on these variables only.    *)
LEMMA WalkDepends ==
  ASSUME UNCHANGED <<kind, touched, sources, archive>>
  PROVE  /\ \A n, i : Written(n, i)' <=> Written(n, i)
         /\ \A n, i : Due(n, i)' <=> Due(n, i)
         /\ \A n, i : Placed(n, i)' <=> Placed(n, i)
         /\ \A open, i : OpenIn(open, i)' <=> OpenIn(open, i)
         /\ \A open, i : OrderedIn(open, i)' <=> OrderedIn(open, i)
         /\ \A open, i, hand : CompleteIn(open, i, hand)' <=> CompleteIn(open, i, hand)
<1>1. \A n, i : Written(n, i)' <=> Written(n, i)
  BY DEF Written
<1>2. \A n, i : Due(n, i)' <=> Due(n, i)
  BY DEF Due, Excluded, IsSameOrBelow
<1>3. \A n, i : Placed(n, i)' <=> Placed(n, i)
  BY <1>1 DEF Placed
<1>4. \A open, i : OpenIn(open, i)' <=> OpenIn(open, i)
  BY <1>1, <1>2 DEF OpenIn
<1>5. \A e : EntryIn(e)' <=> EntryIn(e)
  BY <1>2 DEF EntryIn
<1>6. \A open, i : OrderedIn(open, i)' <=> OrderedIn(open, i)
  BY <1>5 DEF OrderedIn
<1>7. \A n, s : Belongs(n, s)' <=> Belongs(n, s)
  BY DEF Belongs, IsSameOrBelow, Excluded, Between
<1>8. \A open, i, hand : CompleteIn(open, i, hand)' <=> CompleteIn(open, i, hand)
  BY <1>1, <1>7 DEF CompleteIn, PendingIn, Between
<1> QED
  BY <1>1, <1>2, <1>3, <1>4, <1>6, <1>8

(* A cancellation changes nothing that the invariant speaks of.            *)
LEMMA CancelKeeps ==
  ASSUME IInv, cancelled' \in BOOLEAN, UNCHANGED <<fsVars, jobVars, pc, walkVars>>
  PROVE  IInv'
<1> USE DEF fsVars, jobVars, walkVars
<1>1. Control'
  BY DEF IInv, Control, TypeOK
<1>2. Grounded'
  BY DEF IInv, Grounded, Started, IsSameOrBelow
<1>3. Reading' /\ OpenIn(folders, source)' /\ OrderedIn(folders, source)'
  BY WalkDepends DEF IInv, Reading, GivenIn
<1>4. Started' => CompleteIn(folders, source, AtHand)'
  BY WalkDepends DEF IInv, AtHand, Started
<1> QED
  BY <1>1, <1>2, <1>3, <1>4 DEF IInv

(* Nor does a failure: nothing is open, and the staging directory was      *)
(* never part of the walk.                                                 *)
LEMMA FailKeeps ==
  ASSUME IInv, Fail
  PROVE  IInv'
<1> USE DEF jobVars
<1>1. TypeOK'
  <2>1. kind' \in [Items -> Kinds]
    BY DEF IInv, Control, TypeOK, Fail, Kinds
  <2>2. reading' \in [item : Items \cup {Top}, declared : 0..MaxSize, done : 0..MaxSize]
    BY TreeAssumption DEF Fail, NoFile
  <2>3. /\ folders' = <<>> /\ pc' = "failed"
        /\ UNCHANGED <<size, touched, changes, sources, destination, source,
                       archive,
                       cancelled>>
    BY DEF Fail
  <2>4. folders' \in Seq(Frame) /\ pc' \in {"checking", "walking", "closed", "failed"}
    BY <2>3
  <2>5. TypeOK
    BY DEF IInv, Control
  <2>6. cancelled' \in BOOLEAN
    BY <2>3, <2>5, Zenon DEF TypeOK
  <2> QED
    BY <2>1, <2>2, <2>3, <2>4, <2>5, <2>6 DEF TypeOK, Frame
<1>2. Control'
  BY <1>1 DEF IInv, Control, TypeOK, Fail
<1>3. Grounded'
  <2>1. \A n \in Items \ {Stage} : kind'[n] = kind[n]
    BY DEF IInv, Control, TypeOK, Fail
  <2>2. destination' = destination /\ destination \in Items \ {Stage}
    BY SourcesType DEF IInv, Control, Fail
  <2>3. \A n \in Items : Parent[n] # Top => Parent[n] \in Items \ {Stage}
    BY TreeAssumption
  <2> QED
    BY <2>1, <2>2, <2>3 DEF IInv, Grounded, Started, Fail
<1>4. Reading' /\ OpenIn(folders, source)'
  BY DEF Reading, OpenIn, Fail
<1>5. OrderedIn(folders, source)'
  BY DEF IInv, OrderedIn, EntryIn, Due, Excluded, IsSameOrBelow, GivenIn, Fail
<1>6. ~Started'
  BY DEF Fail, Started
<1> QED
  BY <1>2, <1>3, <1>4, <1>5, <1>6 DEF IInv

(* The walk begins with nothing open and nothing written.                  *)
LEMMA BeginKeeps ==
  ASSUME IInv, Begin
  PROVE  IInv'
<1>1. CASE Fail
  BY <1>1, FailKeeps
<1>2. CASE ~Fail
  <2>1. /\ pc = "checking" /\ Acceptable /\ pc' = "walking"
        /\ kind' = [kind EXCEPT ![Stage] = "dir"]
        /\ UNCHANGED <<size, touched, changes, jobVars, walkVars, cancelled>>
    BY <1>2 DEF Begin
  <2>2. source = 0 /\ archive = <<>> /\ folders = <<>> /\ reading = NoFile
    BY <2>1 DEF IInv, Control
  <2> USE DEF jobVars, walkVars
  <2>3. Control'
    BY <2>1, <2>2, TreeAssumption DEF IInv, Control, TypeOK, Kinds
  <2>4. Grounded'
    <3>1. \A i \in DOMAIN sources : ~IsSameOrBelow(destination, sources[i])
      BY <2>1, ChecksSeparate DEF IInv, Control
    <3>2. (\A i \in DOMAIN sources : ~IsSameOrBelow(destination, sources[i]))'
      BY <2>1, <3>1 DEF IsSameOrBelow
    <3> QED
      BY <2>1, <3>2, SourcesType, TreeAssumption
         DEF IInv, Control, Grounded, TypeOK
  <2>5. /\ Reading' /\ OpenIn(folders, source)' /\ OrderedIn(folders, source)'
        /\ CompleteIn(folders, source, AtHand)'
    BY <2>1, <2>2 DEF Reading, OpenIn, OrderedIn, CompleteIn
  <2> QED
    BY <2>3, <2>4, <2>5 DEF IInv
<1> QED
  BY <1>1, <1>2

-----------------------------------------------------------------------------
(* Appending an item.                                                      *)

(* What an entry adds to the archive.                                      *)
LEMMA WrittenMore ==
  ASSUME NEW S, archive \in Seq(S), NEW x \in S, archive' = Append(archive, x)
  PROVE  \A m, j : Written(m, j)' <=> Written(m, j) \/ (x.item = m /\ x.source = j)
<1>1. /\ DOMAIN archive = 1..Len(archive) /\ Len(archive) \in Nat
      /\ DOMAIN archive' = 1..(Len(archive) + 1)
      /\ \A e \in 1..Len(archive) : archive'[e] = archive[e]
      /\ archive'[Len(archive) + 1] = x
  OBVIOUS
<1>2. \A e \in DOMAIN archive' : e \in DOMAIN archive \/ e = Len(archive) + 1
  BY <1>1
<1>3. Len(archive) + 1 \in DOMAIN archive' /\ DOMAIN archive \subseteq DOMAIN archive'
  BY <1>1
<1> QED
  BY <1>1, <1>2, <1>3, Zenon DEF Written

(* It keeps the order of the entries when the item is due, its folder is   *)
(* written, it is not, and the open folders have given it.                 *)
LEMMA Adding ==
  ASSUME TypeOK, UNCHANGED sources,
         NEW open, NEW i \in 1..Len(sources), NEW n \in Items, NEW d \in 0..MaxSize,
         archive' = Append(archive, Entry(n, i, d, d)),
         Due(n, i), Placed(n, i), ~Written(n, i), OrderedIn(open, i), GivenIn(open, n)
  PROVE  /\ archive' \in Seq(Record)
         /\ \A m, j : Written(m, j)' <=> Written(m, j) \/ (m = n /\ j = i)
         /\ OrderedIn(open, i)'
<1> DEFINE x == Entry(n, i, d, d)
<1>0. PICK last : last = Len(archive) + 1
  OBVIOUS
<1>1. archive \in Seq(Record) /\ x \in Record
  BY DEF TypeOK, Record, Entry
<1>2. x.item = n /\ x.source = i /\ x.written = d /\ x.declared = d
  BY DEF Entry
<1> HIDE DEF x
<1>3. archive' = Append(archive, x)
  BY DEF x
<1>4. archive' \in Seq(Record)
  BY <1>1, <1>3
<1>5. \A m, j : Written(m, j)' <=> Written(m, j) \/ (m = n /\ j = i)
  BY <1>1, <1>2, <1>3, WrittenMore, Zenon
<1>6. /\ Len(archive) \in Nat
      /\ DOMAIN archive = 1..Len(archive) /\ DOMAIN archive' = 1..last
      /\ \A e \in DOMAIN archive : archive'[e] = archive[e]
      /\ archive'[last] = x
  BY <1>0, <1>1, <1>3
<1>7. \A e \in DOMAIN archive' : e \in DOMAIN archive \/ e = last
  BY <1>0, <1>6
<1>8. \A m, j : Due(m, j)' <=> Due(m, j)
  BY DEF Due, Excluded, IsSameOrBelow
<1>9. \A e \in DOMAIN archive : ~(archive[e].item = n /\ archive[e].source = i)
  BY DEF Written
<1>10. ASSUME NEW e \in DOMAIN archive
       PROVE  EntryIn(e)'
  <2>1. EntryIn(e) /\ archive'[e] = archive[e]
    BY <1>6 DEF OrderedIn
  <2> DEFINE m == archive[e].item
             j == archive[e].source
  <2>2. Due(m, j)'
    BY <1>8, <2>1 DEF EntryIn
  <2>3. m # sources'[j] =>
          \E c \in 1..(e - 1) : archive'[c].item = Parent[m] /\ archive'[c].source = j
    <3>1. \A c \in 1..(e - 1) : c \in DOMAIN archive
      BY <1>6
    <3> QED
      BY <1>6, <2>1, <3>1 DEF EntryIn
  <2>4. ASSUME NEW c \in DOMAIN archive', archive'[c].item = m, archive'[c].source = j
        PROVE  c = e
    BY <1>2, <1>6, <1>7, <1>9, <2>1, <2>4 DEF EntryIn
  <2>5. archive'[e].written = archive'[e].declared
    BY <2>1 DEF EntryIn
  <2> QED
    BY <2>1, <2>2, <2>3, <2>4, <2>5, Zenon DEF EntryIn
<1>11. EntryIn(last)'
  <2>1. n # sources'[i] =>
          \E c \in 1..(last - 1) : archive'[c].item = Parent[n] /\ archive'[c].source = i
    BY <1>0, <1>6 DEF Placed, Written
  <2>2. \A c \in DOMAIN archive' : archive'[c].item = n /\ archive'[c].source = i => c = last
    BY <1>6, <1>7, <1>9
  <2>3. Due(n, i)'
    BY <1>8
  <2>4. /\ archive'[last].item = n /\ archive'[last].source = i
        /\ archive'[last].written = archive'[last].declared
    BY <1>2, <1>6
  <2> QED
    BY <2>1, <2>2, <2>3, <2>4, Zenon DEF EntryIn
<1>12. GivenIn(open, n)' /\ \A m : GivenIn(open, m)' <=> GivenIn(open, m)
  BY DEF GivenIn
<1>13. OrderedIn(open, i)'
  <2> SUFFICES ASSUME NEW e \in DOMAIN archive'
               PROVE  /\ EntryIn(e)' /\ archive'[e].source <= i
                      /\ archive'[e].source = i => GivenIn(open, archive'[e].item)
    BY <1>12 DEF OrderedIn
  <2>1. CASE e \in DOMAIN archive
    BY <1>6, <1>10, <2>1 DEF OrderedIn
  <2>2. CASE e = last
    <3>1. archive'[e].item = n /\ archive'[e].source = i /\ i <= i
      BY <1>2, <1>6, <2>2
    <3> QED
      BY <1>11, <2>2, <3>1, Zenon
  <2> QED
    BY <1>7, <2>1, <2>2
<1> QED
  BY <1>4, <1>5, <1>13

(* Item n may be appended for source i while these folders are open.       *)
Ready(n, i, open) ==
    /\ n \in Items /\ i \in 1..Len(sources) /\ open \in Seq(Frame)
    /\ Due(n, i) /\ Placed(n, i) /\ ~Written(n, i) /\ GivenIn(open, n)
    /\ OpenIn(open, i) /\ OrderedIn(open, i)
    /\ CompleteIn(open, i, {m \in Items : n \in Between(m, sources[i])})

(* What belongs into the archive and is at a folder, or below it, will be  *)
(* met by the folder's iterator; at another item there is only the item.   *)
LEMMA MetBelow ==
  ASSUME TypeOK, Grounded, Started,
         NEW i \in 1..Len(sources), NEW n \in Items, IsSameOrBelow(n, sources[i]),
         NEW m \in Items \ {Stage}, Belongs(m, sources[i]),
         n \in Between(m, sources[i]), n # m
  PROVE  /\ kind[n] = "dir" /\ n # destination
         /\ \E c \in Children(n) : c \in Between(m, sources[i])
<1> DEFINE s == sources[i]
<1>1. n \in Above[m] /\ kind[m] # "none"
  BY DEF Between, Belongs
<1>2. kind[n] = "dir"
  BY <1>1, FoldersAbove
<1>3. n # destination
  BY SourcesType DEF Grounded
<1>4. PICK c \in Items : Parent[c] = n /\ (c = m \/ c \in Above[m])
  BY <1>1, ChildTowards
<1>5. c # Stage /\ kind[c] # "none"
  BY <1>1, <1>4, AboveIsItems, FoldersAbove
<1>6. c \in Children(n)
  BY <1>4, <1>5 DEF Children, FolderOf
<1>7. Parent[c] # Top /\ IsSameOrBelow(Parent[c], s)
  BY <1>4, TreeAssumption
<1>8. s \in Above[c]
  BY <1>4, <1>7, BelowParent, SourcesType
<1>9. c \in Between(m, s)
  BY <1>4, <1>8 DEF Between
<1> QED
  BY <1>2, <1>3, <1>6, <1>9

(* Children of a folder below a source: never the staging directory.       *)
LEMMA OpenedFrame ==
  ASSUME TypeOK, NEW n \in Items, n # destination
  PROVE  /\ Opened(n) \in Frame
         /\ Opened(n).item = n /\ Opened(n).given = {}
         /\ Opened(n).steady = Children(n) /\ Opened(n).met = Children(n)
         /\ Stage \notin Children(n) /\ \A c \in Children(n) : Parent[c] = n
  BY SourcesType DEF Opened, Frame, Children, FolderOf

(* A folder is written and opened.                                         *)
LEMMA AppendFolder ==
  ASSUME IInv, NEW n, NEW i, NEW open, Ready(n, i, open),
         Walking, Untouched, source' = i, UNCHANGED reading,
         kind[n] = "dir", archive' = Append(archive, Entry(n, i, 0, 0)),
         folders' = Append(open, Opened(n))
  PROVE  IInv'
<1>1. /\ n \in Items /\ i \in 1..Len(sources) /\ open \in Seq(Frame)
      /\ Due(n, i) /\ Placed(n, i) /\ ~Written(n, i) /\ GivenIn(open, n)
      /\ OpenIn(open, i) /\ OrderedIn(open, i)
      /\ CompleteIn(open, i, {m \in Items : n \in Between(m, sources[i])})
  BY DEF Ready
<1>2. TypeOK /\ Grounded /\ Started /\ reading = NoFile /\ pc = "walking"
  BY DEF IInv, Control, Walking, Started
<1>3. UNCHANGED <<kind, size, touched, changes, sources, destination, pc, cancelled, reading>>
  BY DEF Untouched, fsVars, jobVars
<1>4. sources[i] \in Items \ {Stage} /\ sources' = sources /\ IsSameOrBelow(n, sources[i])
  BY <1>1, <1>2, <1>3, SourcesType DEF Due
<1>5. n # destination
  BY <1>1, <1>2, <1>4, SourcesType DEF Grounded
<1>6. PICK f : f = Opened(n)
  OBVIOUS
<1>7. /\ f \in Frame /\ f.item = n /\ f.given = {}
      /\ f.steady = Children(n) /\ f.met = Children(n)
      /\ Stage \notin f.met /\ \A c \in f.met : Parent[c] = n
  BY <1>1, <1>2, <1>5, <1>6, OpenedFrame
<1>8. PICK wide : wide = Append(open, f)
  OBVIOUS
<1>9. PICK last : last = Len(open) + 1
  OBVIOUS
<1>10. /\ wide \in Seq(Frame) /\ wide # <<>>
       /\ DOMAIN open = 1..Len(open) /\ Len(open) \in Nat
       /\ DOMAIN wide = 1..last /\ last \notin DOMAIN open
       /\ \A k \in DOMAIN open : k \in DOMAIN wide /\ wide[k] = open[k]
       /\ last \in DOMAIN wide /\ wide[last] = f
       /\ \A k \in DOMAIN wide : k \in DOMAIN open \/ k = last
  BY <1>1, <1>7, <1>8, <1>9
<1>11. \A m : Parent[m] = n => ~Written(m, i)
  <2> SUFFICES ASSUME NEW e \in DOMAIN archive, archive[e].source = i,
                      Parent[archive[e].item] = n
               PROVE  FALSE
    BY DEF Written
  <2> DEFINE m == archive[e].item
  <2>1. EntryIn(e) /\ Due(m, i)
    BY <1>1 DEF OrderedIn, EntryIn
  <2>2. m \in Items /\ e \in DOMAIN archive /\ DOMAIN archive = 1..Len(archive)
    BY <1>2, ArchiveType
  <2>3. CASE m # sources[i]
    <3>1. PICK d \in 1..(e - 1) : archive[d].item = n /\ archive[d].source = i
      BY <2>1, <2>3 DEF EntryIn
    <3>2. d \in DOMAIN archive
      BY <1>2, <2>2, ArchiveType
    <3> QED
      BY <1>1, <3>1, <3>2 DEF Written
  <2>4. CASE m = sources[i]
    <3>1. n \in Above[sources[i]]
      BY <1>1, <1>4, <2>4, ParentIsAbove
    <3>2. sources[i] \in Above[n] \/ n = sources[i]
      BY <1>4 DEF IsSameOrBelow
    <3> QED
      BY <1>1, <1>4, <3>1, <3>2, AboveChain, NotAboveItself
  <2> QED
    BY <2>3, <2>4
<1>12. Parent[n] # n
  BY <1>1, ParentIsAbove
<1>13. GivenIn(wide, n)
  BY <1>1, <1>7, <1>10, <1>12 DEF GivenIn
<1>14. OrderedIn(wide, i)
  <2>1. ASSUME NEW e \in DOMAIN archive, archive[e].source = i
        PROVE  GivenIn(wide, archive[e].item)
    <3>1. Written(archive[e].item, i)
      BY <2>1 DEF Written
    <3>2. Parent[archive[e].item] # n
      BY <1>11, <3>1
    <3>3. GivenIn(open, archive[e].item)
      BY <1>1, <2>1 DEF OrderedIn
    <3> QED
      BY <1>7, <1>10, <3>2, <3>3 DEF GivenIn
  <2> QED
    BY <1>1, <2>1 DEF OrderedIn
<1>15. /\ archive' \in Seq(Record)
       /\ \A m, j : Written(m, j)' <=> Written(m, j) \/ (m = n /\ j = i)
       /\ OrderedIn(wide, i)'
  <2>1. 0 \in 0..MaxSize
    BY TreeAssumption
  <2> QED
    BY <1>1, <1>2, <1>4, <1>13, <1>14, <2>1, Adding
<1>16. folders' = wide
  BY <1>6, <1>8
<1>17. OpenIn(wide, i)'
  <2>1. \A m, j : Due(m, j)' <=> Due(m, j)
    BY <1>3 DEF Due, Excluded, IsSameOrBelow
  <2>2. ASSUME NEW k \in DOMAIN wide
        PROVE  /\ Due(wide[k].item, i)' /\ Written(wide[k].item, i)'
               /\ Stage \notin wide[k].met
               /\ \A c \in wide[k].met : Parent[c] = wide[k].item
    BY <1>1, <1>7, <1>10, <1>15, <2>1 DEF OpenIn
  <2>3. \A k \in DOMAIN open : wide[k].item # n
    BY <1>1, <1>10 DEF OpenIn
  <2>4. \A k, l \in DOMAIN wide : wide[k].item = wide[l].item => k = l
    BY <1>1, <1>7, <1>10, <2>3 DEF OpenIn
  <2> QED
    BY <2>2, <2>4 DEF OpenIn
<1>18. CompleteIn(wide, i, {})'
  <2> SUFFICES ASSUME NEW j \in 1..i, NEW m \in Items \ {Stage},
                      Belongs(m, sources[j]), ~Written(m, j)'
               PROVE  j = i /\ PendingIn(wide, {}, m, sources[j])
    BY <1>3 DEF CompleteIn, Belongs, IsSameOrBelow, Between, Excluded,
       PendingIn
  <2>1. ~Written(m, j) /\ ~(m = n /\ j = i)
    BY <1>15
  <2>2. /\ j = i
        /\ PendingIn(open, {c \in Items : n \in Between(c, sources[i])}, m, sources[i])
    BY <1>1, <2>1 DEF CompleteIn
  <2>3. CASE n \in Between(m, sources[i])
    <3>1. PICK c \in Children(n) : c \in Between(m, sources[i])
      BY <1>1, <1>2, <1>4, <2>1, <2>2, <2>3, MetBelow
    <3>2. c \in wide[last].steady \ wide[last].given
      BY <1>7, <1>10, <3>1
    <3> QED
      BY <1>10, <2>2, <3>1, <3>2 DEF PendingIn
  <2>4. CASE n \notin Between(m, sources[i])
    BY <1>10, <2>2, <2>4 DEF PendingIn
  <2> QED
    BY <2>3, <2>4
<1>19. Control'
  <2>1. TypeOK'
    <3>1. folders' \in Seq(Frame) /\ source' \in 0..Len(sources')
      BY <1>1, <1>4, <1>10, <1>16
    <3>2. archive' \in Seq(Record)'
      BY <1>4, <1>15 DEF Record
    <3> QED
      BY <1>2, <1>3, <3>1, <3>2 DEF TypeOK, Frame, Record
  <2> QED
    BY <1>1, <1>2, <1>3, <2>1 DEF Control
<1>20. Grounded'
  BY <1>2, <1>3 DEF Grounded, Started, IsSameOrBelow
<1>21. Reading' /\ AtHand' = {}
  BY <1>2, <1>3 DEF Reading, AtHand
<1> QED
  BY <1>15, <1>16, <1>17, <1>18, <1>19, <1>20, <1>21 DEF IInv

(* A link is written; nothing is below it.                                 *)
LEMMA AppendLink ==
  ASSUME IInv, NEW n, NEW i, NEW open, Ready(n, i, open),
         Walking, Untouched, source' = i, UNCHANGED reading,
         kind[n] = "link", archive' = Append(archive, Entry(n, i, 0, 0)),
         folders' = open
  PROVE  IInv'
<1>1. /\ n \in Items /\ i \in 1..Len(sources) /\ open \in Seq(Frame)
      /\ Due(n, i) /\ Placed(n, i) /\ ~Written(n, i) /\ GivenIn(open, n)
      /\ OpenIn(open, i) /\ OrderedIn(open, i)
      /\ CompleteIn(open, i, {m \in Items : n \in Between(m, sources[i])})
  BY DEF Ready
<1>2. TypeOK /\ Grounded /\ Started /\ reading = NoFile /\ pc = "walking"
  BY DEF IInv, Control, Walking, Started
<1>3. UNCHANGED <<kind, size, touched, changes, sources, destination, pc, cancelled, reading>>
  BY DEF Untouched, fsVars, jobVars
<1>4. sources' = sources /\ IsSameOrBelow(n, sources[i])
  BY <1>1, <1>3 DEF Due
<1>5. /\ archive' \in Seq(Record)
      /\ \A m, j : Written(m, j)' <=> Written(m, j) \/ (m = n /\ j = i)
      /\ OrderedIn(open, i)'
  <2>1. 0 \in 0..MaxSize
    BY TreeAssumption
  <2> QED
    BY <1>1, <1>2, <1>4, <2>1, Adding
<1>6. OpenIn(open, i)'
  <2>1. \A m, j : Due(m, j)' <=> Due(m, j)
    BY <1>3 DEF Due, Excluded, IsSameOrBelow
  <2> QED
    BY <1>1, <1>5, <2>1 DEF OpenIn
<1>7. CompleteIn(open, i, {})'
  <2> SUFFICES ASSUME NEW j \in 1..i, NEW m \in Items \ {Stage},
                      Belongs(m, sources[j]), ~Written(m, j)'
               PROVE  j = i /\ PendingIn(open, {}, m, sources[j])
    BY <1>3 DEF CompleteIn, Belongs, IsSameOrBelow, Between, Excluded,
       PendingIn
  <2>1. ~Written(m, j) /\ ~(m = n /\ j = i)
    BY <1>5
  <2>2. /\ j = i
        /\ PendingIn(open, {c \in Items : n \in Between(c, sources[i])}, m, sources[i])
    BY <1>1, <2>1 DEF CompleteIn
  <2>3. n \notin Between(m, sources[i])
    BY <1>1, <1>2, <1>4, <2>1, <2>2, MetBelow
  <2> QED
    BY <2>2, <2>3 DEF PendingIn
<1>8. Control'
  <2>1. archive' \in Seq(Record)' /\ source' \in 0..Len(sources')
    BY <1>1, <1>4, <1>5 DEF Record
  <2>2. TypeOK'
    BY <1>1, <1>2, <1>3, <2>1 DEF TypeOK, Frame, Record
  <2> QED
    BY <1>1, <1>2, <1>3, <2>2 DEF Control
<1>9. Grounded'
  BY <1>2, <1>3 DEF Grounded, Started, IsSameOrBelow
<1>10. Reading' /\ AtHand' = {}
  BY <1>2, <1>3 DEF Reading, AtHand
<1> QED
  BY <1>5, <1>6, <1>7, <1>8, <1>9, <1>10 DEF IInv

(* A file's header is written and its bytes are due.                       *)
LEMMA AppendFile ==
  ASSUME IInv, NEW n, NEW i, NEW open, Ready(n, i, open),
         Walking, Untouched, source' = i, UNCHANGED archive,
         kind[n] = "file", reading' = [item |-> n, declared |-> size[n], done |-> 0],
         folders' = open
  PROVE  IInv'
<1>1. /\ n \in Items /\ i \in 1..Len(sources) /\ open \in Seq(Frame)
      /\ Due(n, i) /\ Placed(n, i) /\ ~Written(n, i) /\ GivenIn(open, n)
      /\ OpenIn(open, i) /\ OrderedIn(open, i)
      /\ CompleteIn(open, i, {m \in Items : n \in Between(m, sources[i])})
  BY DEF Ready
<1>2. TypeOK /\ Grounded /\ Started /\ pc = "walking"
  BY DEF IInv, Control, Walking, Started
<1>3. UNCHANGED <<kind, size, touched, changes, sources, destination, pc, cancelled, archive>>
  BY DEF Untouched, fsVars, jobVars
<1>4. IsSameOrBelow(n, sources[i])
  BY <1>1 DEF Due
<1>5. reading'.item = n /\ reading' # NoFile
  BY <1>1, TreeAssumption DEF NoFile
<1>6. Reading'
  BY <1>1, <1>3, <1>5, WalkDepends DEF Reading, GivenIn
<1>7. OpenIn(open, i)' /\ OrderedIn(open, i)'
  BY <1>1, <1>3, WalkDepends
<1>8. AtHand' = {n}
  BY <1>5 DEF AtHand
<1>9. CompleteIn(open, i, {n})
  <2> SUFFICES ASSUME NEW j \in 1..i, NEW m \in Items \ {Stage},
                      Belongs(m, sources[j]), ~Written(m, j)
               PROVE  j = i /\ PendingIn(open, {n}, m, sources[j])
    BY DEF CompleteIn
  <2>1. /\ j = i
        /\ PendingIn(open, {c \in Items : n \in Between(c, sources[i])}, m, sources[i])
    BY <1>1 DEF CompleteIn
  <2>2. n \in Between(m, sources[i]) => m = n
    BY <1>1, <1>2, <1>4, <2>1, MetBelow
  <2> QED
    BY <2>1, <2>2 DEF PendingIn
<1>10. CompleteIn(open, i, {n})'
  BY <1>3, <1>9, WalkDepends
<1>11. Control'
  <2>1. source' \in 0..Len(sources') /\ source' \in 1..Len(sources')
    BY <1>1, <1>3
  <2>2. reading' \in [item : Items \cup {Top}, declared : 0..MaxSize, done : 0..MaxSize]
    BY <1>1, <1>2, TreeAssumption DEF TypeOK
  <2>3. TypeOK'
    BY <1>1, <1>2, <1>3, <2>1, <2>2 DEF TypeOK, Frame
  <2> QED
    BY <1>1, <1>2, <1>3, <1>5, <2>1, <2>3 DEF Control
<1>12. Grounded'
  BY <1>2, <1>3 DEF Grounded, Started, IsSameOrBelow
<1> QED
  BY <1>6, <1>7, <1>8, <1>10, <1>11, <1>12 DEF IInv

(* Appending an item: its entry, and its folder or file opened.            *)
LEMMA AppendKeeps ==
  ASSUME IInv, NEW n, NEW i, NEW open, Ready(n, i, open),
         Walking, Untouched, source' = i, AppendItem(n, i, open)
  PROVE  IInv'
  BY AppendFolder, AppendLink, AppendFile DEF AppendItem

(* Nothing is appended: an excluded item, or the end of a folder.          *)
LEMMA PassKeeps ==
  ASSUME IInv, NEW i \in 1..Len(sources), NEW open \in Seq(Frame),
         Walking, Untouched, source' = i, folders' = open, UNCHANGED <<reading, archive>>,
         OpenIn(open, i), OrderedIn(open, i), CompleteIn(open, i, {})
  PROVE  IInv'
<1>1. TypeOK /\ Grounded /\ Started /\ pc = "walking" /\ reading = NoFile
  BY DEF IInv, Control, Walking, Started
<1>2. UNCHANGED <<kind, size, touched, changes, sources, destination, pc, cancelled, archive,
                  reading>>
  BY DEF Untouched, fsVars, jobVars
<1>3. OpenIn(open, i)' /\ OrderedIn(open, i)' /\ CompleteIn(open, i, {})'
  BY <1>2, WalkDepends
<1>4. Reading' /\ AtHand' = {}
  BY <1>1, <1>2 DEF Reading, AtHand
<1>5. Control'
  <2>1. source' \in 0..Len(sources') /\ source' \in 1..Len(sources')
    BY <1>2
  <2>2. TypeOK'
    BY <1>1, <1>2, <2>1 DEF TypeOK, Frame
  <2> QED
    BY <1>1, <1>2, <2>1, <2>2 DEF Control
<1>6. Grounded'
  BY <1>1, <1>2 DEF Grounded, Started, IsSameOrBelow
<1> QED
  BY <1>3, <1>4, <1>5, <1>6 DEF IInv

-----------------------------------------------------------------------------
(* The walk.                                                               *)
LEMMA WalkingFacts ==
  ASSUME IInv, Walking
  PROVE  /\ TypeOK /\ Grounded /\ Started /\ pc = "walking" /\ reading = NoFile
         /\ folders \in Seq(Frame) /\ Len(folders) \in Nat
         /\ DOMAIN folders = 1..Len(folders)
         /\ \A k \in DOMAIN folders : folders[k] \in Frame
         /\ OpenIn(folders, source) /\ OrderedIn(folders, source)
         /\ CompleteIn(folders, source, {})
         /\ folders # <<>> => source \in 1..Len(sources)
<1>1. TypeOK /\ Grounded /\ Started /\ pc = "walking" /\ reading = NoFile
  BY DEF IInv, Control, Walking, Started
<1>2. folders \in Seq(Frame)
  BY <1>1 DEF TypeOK, Frame
<1>3. AtHand = {}
  BY <1>1 DEF AtHand
<1> QED
  BY <1>1, <1>2, <1>3 DEF IInv, Control

(* The next source is appended when no folder is open.                     *)
LEMMA NextSourceKeeps ==
  ASSUME IInv, NextSource
  PROVE  IInv'
<1>1. CASE Fail
  BY <1>1, FailKeeps
<1>2. CASE ~Fail
  <2>1. PICK i : i = source + 1
    OBVIOUS
  <2>2. PICK n : n = sources[i]
    OBVIOUS
  <2>3. /\ Walking /\ folders = <<>> /\ source < Len(sources) /\ source' = i
        /\ IF Excluded(n) THEN UNCHANGED <<folders, reading, archive>>
                          ELSE AppendItem(n, i, <<>>)
        /\ Untouched
    BY <1>2, <2>1, <2>2 DEF NextSource
  <2>4. /\ TypeOK /\ CompleteIn(<<>>, source, {}) /\ OrderedIn(<<>>, source)
        /\ source \in Nat /\ i \in 1..Len(sources) /\ n \in Items \ {Stage}
    BY <2>1, <2>2, <2>3, WalkingFacts, SourcesType DEF TypeOK
  <2>5. <<>> \in Seq(Frame) /\ OpenIn(<<>>, i) /\ \A m : GivenIn(<<>>, m)
    BY DEF OpenIn, GivenIn
  <2>6. OrderedIn(<<>>, i)
    BY <2>1, <2>4, <2>5, ArchiveType DEF OrderedIn
  <2>7. \A j \in 1..i, m \in Items \ {Stage} :
           Belongs(m, sources[j]) /\ j # i => Written(m, j)
    <3> SUFFICES ASSUME NEW j \in 1..i, NEW m \in Items \ {Stage},
                        Belongs(m, sources[j]), j # i
                 PROVE  Written(m, j)
      OBVIOUS
    <3>1. j \in 1..source
      BY <2>1, <2>4
    <3>2. ~PendingIn(<<>>, {}, m, sources[j])
      BY DEF PendingIn
    <3> QED
      BY <2>4, <3>1, <3>2 DEF CompleteIn
  <2>8. ASSUME NEW m \in Items \ {Stage}, Belongs(m, n)
        PROVE  n \in Between(m, n) /\ ~Excluded(n)
    BY <2>8 DEF Belongs, Between, IsSameOrBelow
  <2>9. CASE Excluded(n)
    <3>1. CompleteIn(<<>>, i, {})
      BY <2>2, <2>7, <2>8, <2>9 DEF CompleteIn
    <3> QED
      BY <2>3, <2>4, <2>5, <2>6, <2>9, <3>1, PassKeeps
  <2>10. CASE ~Excluded(n)
    <3>1. CompleteIn(<<>>, i, {m \in Items : n \in Between(m, sources[i])})
      BY <2>2, <2>7, <2>8 DEF CompleteIn, PendingIn
    <3>2. ~Written(n, i)
      BY <2>1, <2>4, ArchiveType DEF Written, OrderedIn
    <3>3. Due(n, i) /\ Placed(n, i)
      BY <2>2, <2>4, <2>10 DEF Due, Placed, IsSameOrBelow
    <3>4. Ready(n, i, <<>>)
      BY <2>4, <2>5, <2>6, <3>1, <3>2, <3>3 DEF Ready
    <3> QED
      BY <2>3, <2>10, <3>4, AppendKeeps
  <2> QED
    BY <2>9, <2>10
<1> QED
  BY <1>1, <1>2

(* A frame that has given one more.                                        *)
LEMMA GiveOne ==
  ASSUME NEW top \in Frame, NEW c \in top.met, NEW f,
         f = [top EXCEPT !.given = @ \cup {c}]
  PROVE  /\ f \in Frame /\ f.item = top.item /\ f.met = top.met
         /\ f.steady = top.steady /\ f.given = top.given \cup {c}
         /\ c \in Items
  BY DEF Frame

(* The innermost open folder gives an item it has not given yet.           *)
LEMMA NextChildKeeps ==
  ASSUME IInv, NextChild
  PROVE  IInv'
<1>1. PICK last, top : last = Len(folders) /\ top = Last(folders)
  OBVIOUS
<1>2. PICK c \in top.met \ top.given :
         LET open == Append(Front(folders), [top EXCEPT !.given = @ \cup {c}]) IN
         \/ Fail
         \/ /\ IF Excluded(c) THEN folders' = open /\ UNCHANGED <<reading, archive>>
                              ELSE AppendItem(c, source, open)
            /\ UNCHANGED source /\ Untouched
  BY <1>1 DEF NextChild
<1>3. PICK f : f = [top EXCEPT !.given = @ \cup {c}]
  OBVIOUS
<1>4. PICK open : open = Append(Front(folders), f)
  OBVIOUS
<1>5. PICK i : i = source
  OBVIOUS
<1>6. CASE Fail
  BY <1>6, FailKeeps
<1>7. CASE ~Fail
  <2>1. /\ Walking /\ folders # <<>> /\ source' = i /\ Untouched
        /\ IF Excluded(c) THEN folders' = open /\ UNCHANGED <<reading, archive>>
                          ELSE AppendItem(c, i, open)
    BY <1>2, <1>3, <1>4, <1>5, <1>7 DEF NextChild
  <2>2. /\ TypeOK /\ Grounded /\ Started /\ i \in 1..Len(sources)
        /\ folders \in Seq(Frame) /\ last \in Nat \ {0}
        /\ DOMAIN folders = 1..last
        /\ OpenIn(folders, i) /\ OrderedIn(folders, i)
        /\ CompleteIn(folders, i, {})
    BY <1>1, <1>5, <2>1, WalkingFacts
  <2>3. last \in DOMAIN folders /\ top = folders[last] /\ top \in Frame
    BY <1>1, <2>2 DEF Last
  <2>4. /\ f \in Frame /\ f.item = top.item /\ f.met = top.met
        /\ f.steady = top.steady /\ f.given = top.given \cup {c} /\ c \in Items
    BY <1>2, <1>3, <2>3, GiveOne
  <2>5. /\ open \in Seq(Frame) /\ DOMAIN open = DOMAIN folders
        /\ \A k \in DOMAIN folders : open[k] = IF k = last THEN f ELSE folders[k]
    <3>1. PICK front : front = Front(folders)
      OBVIOUS
    <3>2. /\ front \in Seq(Frame) /\ Len(front) = last - 1
          /\ \A k \in 1..(last - 1) : front[k] = folders[k]
      BY <1>1, <2>2, <3>1 DEF Front
    <3>3. open = Append(front, f)
      BY <1>4, <3>1
    <3> QED
      BY <2>2, <2>4, <3>2, <3>3
  <2>6. /\ Due(top.item, i) /\ Written(top.item, i)
        /\ Stage \notin top.met /\ Parent[c] = top.item
    BY <1>2, <2>2, <2>3 DEF OpenIn
  <2>7. OpenIn(open, i)
    <3>1. \A k \in DOMAIN folders : /\ open[k].item = folders[k].item
                                    /\ open[k].met = folders[k].met
      BY <2>3, <2>4, <2>5
    <3> QED
      BY <2>2, <2>5, <3>1 DEF OpenIn
  <2>8. \A m : GivenIn(folders, m) => GivenIn(open, m)
    <3>1. \A k \in DOMAIN folders : /\ open[k].item = folders[k].item
                                    /\ folders[k].given \subseteq open[k].given
      BY <2>3, <2>4, <2>5
    <3> QED
      BY <2>5, <3>1 DEF GivenIn
  <2>9. OrderedIn(open, i)
    BY <2>2, <2>8 DEF OrderedIn
  <2>10. ASSUME NEW m, PendingIn(folders, {}, m, sources[i]), c \notin Between(m, sources[i])
         PROVE  PendingIn(open, {}, m, sources[i])
    <3>1. PICK k \in DOMAIN folders :
             \E d \in folders[k].steady \ folders[k].given : d \in Between(m, sources[i])
      BY <2>10 DEF PendingIn
    <3>2. PICK d \in folders[k].steady \ folders[k].given : d \in Between(m, sources[i])
      BY <3>1
    <3>3. d # c
      BY <2>10, <3>2
    <3>4. d \in open[k].steady \ open[k].given
      BY <2>3, <2>4, <2>5, <3>2, <3>3
    <3> QED
      BY <2>5, <3>2, <3>4 DEF PendingIn
  <2>11. CASE Excluded(c)
    <3>1. CompleteIn(open, i, {})
      <4> SUFFICES ASSUME NEW j \in 1..i, NEW m \in Items \ {Stage},
                          Belongs(m, sources[j]), ~Written(m, j)
                   PROVE  j = i /\ PendingIn(open, {}, m, sources[j])
        BY DEF CompleteIn
      <4>1. j = i /\ PendingIn(folders, {}, m, sources[j])
        BY <2>2 DEF CompleteIn
      <4>2. c \notin Between(m, sources[j])
        BY <2>11 DEF Belongs
      <4> QED
        BY <2>10, <4>1, <4>2
    <3> QED
      BY <2>1, <2>2, <2>5, <2>7, <2>9, <2>11, <3>1, PassKeeps
  <2>12. CASE ~Excluded(c)
    <3>1. CompleteIn(open, i, {m \in Items : c \in Between(m, sources[i])})
      <4> DEFINE hand == {m \in Items : c \in Between(m, sources[i])}
      <4> SUFFICES ASSUME NEW j \in 1..i, NEW m \in Items \ {Stage},
                          Belongs(m, sources[j]), ~Written(m, j)
                   PROVE  j = i /\ PendingIn(open, hand, m, sources[j])
        BY DEF CompleteIn
      <4>1. j = i /\ PendingIn(folders, {}, m, sources[j])
        BY <2>2 DEF CompleteIn
      <4>2. CASE c \in Between(m, sources[i])
        BY <4>1, <4>2 DEF PendingIn
      <4>3. CASE c \notin Between(m, sources[i])
        BY <2>10, <4>1, <4>3 DEF PendingIn
      <4> QED
        BY <4>2, <4>3
    <3>2. Due(c, i)
      <4>1. sources[i] \in Items /\ top.item \in Items
        BY <2>2, <2>3, SourcesType DEF Frame
      <4>2. IsSameOrBelow(c, sources[i])
        BY <2>4, <2>6, <4>1, BelowParent, TreeAssumption DEF Due
      <4> QED
        BY <1>2, <2>6, <2>12, <4>2 DEF Due
    <3>3. Placed(c, i)
      BY <2>6 DEF Placed
    <3>4. ~Written(c, i)
      <4> SUFFICES ASSUME NEW e \in DOMAIN archive, archive[e].item = c,
                          archive[e].source = i
                   PROVE  FALSE
        BY DEF Written
      <4>1. GivenIn(folders, c)
        BY <2>2 DEF OrderedIn
      <4> QED
        BY <1>2, <2>3, <2>6, <4>1 DEF GivenIn
    <3>5. GivenIn(open, c)
      <4> SUFFICES ASSUME NEW k \in DOMAIN open, open[k].item = Parent[c]
                   PROVE  c \in open[k].given
        BY DEF GivenIn
      <4>1. open[k].item = open[last].item /\ k \in DOMAIN open /\ last \in DOMAIN open
        BY <2>3, <2>4, <2>5, <2>6
      <4>2. k = last
        BY <2>7, <4>1 DEF OpenIn
      <4> QED
        BY <2>3, <2>4, <2>5, <4>2
    <3>6. Ready(c, i, open)
      BY <2>2, <2>4, <2>5, <2>7, <2>9, <3>1, <3>2, <3>3, <3>4, <3>5 DEF Ready
    <3> QED
      BY <2>1, <2>12, <3>6, AppendKeeps
  <2> QED
    BY <2>11, <2>12
<1> QED
  BY <1>6, <1>7

(* A folder ends when all that stood still in it has been given.           *)
LEMMA EndFolderKeeps ==
  ASSUME IInv, EndFolder
  PROVE  IInv'
<1>1. CASE Fail
  BY <1>1, FailKeeps
<1>2. CASE ~Fail
  <2>1. PICK last, open, i : last = Len(folders) /\ open = Front(folders) /\ i = source
    OBVIOUS
  <2>2. /\ Walking /\ folders # <<>>
        /\ Last(folders).steady \subseteq Last(folders).given
        /\ folders' = open /\ source' = i /\ UNCHANGED <<reading, archive>>
        /\ Untouched
    BY <1>2, <2>1 DEF EndFolder
  <2>3. /\ i \in 1..Len(sources)
        /\ folders \in Seq(Frame) /\ last \in Nat \ {0}
        /\ DOMAIN folders = 1..last
        /\ OpenIn(folders, i) /\ OrderedIn(folders, i)
        /\ CompleteIn(folders, i, {})
    BY <2>1, <2>2, WalkingFacts
  <2>4. /\ open \in Seq(Frame) /\ DOMAIN open = 1..(last - 1)
        /\ \A k \in DOMAIN open : k \in DOMAIN folders /\ open[k] = folders[k]
    BY <2>1, <2>3 DEF Front
  <2>5. OpenIn(open, i)
    BY <2>3, <2>4 DEF OpenIn
  <2>6. OrderedIn(open, i)
    BY <2>3, <2>4 DEF OrderedIn, GivenIn
  <2>7. \A k \in DOMAIN folders : folders[k].steady \ folders[k].given # {} => k \in DOMAIN open
    BY <2>1, <2>2, <2>3, <2>4 DEF Last
  <2>8. \A m, s : PendingIn(folders, {}, m, s) => PendingIn(open, {}, m, s)
    BY <2>4, <2>7 DEF PendingIn
  <2>9. CompleteIn(open, i, {})
    BY <2>3, <2>8 DEF CompleteIn
  <2> QED
    BY <2>2, <2>3, <2>4, <2>5, <2>6, <2>9, PassKeeps
<1> QED
  BY <1>1, <1>2

(* A buffer of the open file goes into the last entry.                     *)
LEMMA ReadChunkKeeps ==
  ASSUME IInv, ReadChunk
  PROVE  IInv'
<1>1. CASE Fail
  BY <1>1, FailKeeps
<1>2. CASE ~Fail
  <2>1. /\ pc = "walking" /\ reading # NoFile
        /\ reading.done < reading.declared
        /\ reading' = [reading EXCEPT !.done = @ + 1]
        /\ UNCHANGED <<source, folders, archive>> /\ Untouched
    BY <1>2 DEF ReadChunk
  <2>2. UNCHANGED <<kind, size, touched, changes, sources, destination, pc, cancelled,
                    source, folders, archive>>
    BY <2>1 DEF Untouched, fsVars, jobVars
  <2>3. TypeOK /\ reading.item \in Items
    BY <2>1 DEF IInv, Control
  <2>4. /\ reading' \in [item : Items \cup {Top}, declared : 0..MaxSize, done : 0..MaxSize]
        /\ reading'.item = reading.item
    <3>1. reading \in [item : Items \cup {Top}, declared : 0..MaxSize, done : 0..MaxSize]
      BY <2>3 DEF TypeOK
    <3>2. MaxSize \in Nat
      BY TreeAssumption
    <3>3. reading.done + 1 \in 0..MaxSize
      BY <2>1, <3>1, <3>2
    <3> QED
      BY <2>1, <3>1, <3>3
  <2>5. reading' # NoFile
    BY <2>3, <2>4, TreeAssumption DEF NoFile
  <2>6. AtHand' = AtHand
    BY <2>1, <2>4, <2>5 DEF AtHand
  <2>7. Control'
    <3>1. TypeOK'
      BY <2>2, <2>3, <2>4 DEF TypeOK
    <3> QED
      BY <2>1, <2>2, <2>3, <2>4, <3>1 DEF IInv, Control
  <2>8. Grounded' /\ (Started' <=> Started)
    BY <2>2 DEF IInv, Grounded, Started, IsSameOrBelow
  <2>9. Reading' /\ OpenIn(folders, source)' /\ OrderedIn(folders, source)'
    BY <2>1, <2>2, <2>4, WalkDepends DEF IInv, Reading, GivenIn
  <2>10. CompleteIn(folders, source, AtHand)' <=> CompleteIn(folders, source, AtHand)
    BY <2>2, <2>6, WalkDepends
  <2> QED
    BY <2>7, <2>8, <2>9, <2>10 DEF IInv
<1> QED
  BY <1>1, <1>2

(* The file that was at hand is written, once.                             *)
LEMMA EndFileKeeps ==
  ASSUME IInv, EndFile
  PROVE  IInv'
<1>1. CASE Fail
  BY <1>1, FailKeeps
<1>2. CASE ~Fail
  <2>1. PICK n, d, i : n = reading.item /\ d = reading.declared /\ i = source
    OBVIOUS
  <2>2. /\ pc = "walking" /\ reading # NoFile /\ reading' = NoFile
        /\ archive' = Append(archive, Entry(n, i, d, d))
        /\ UNCHANGED <<source, folders>> /\ Untouched
    BY <1>2, <2>1 DEF EndFile
  <2>3. UNCHANGED <<kind, size, touched, changes, sources, destination, pc, cancelled,
                    source, folders>>
    BY <2>2 DEF Untouched, fsVars, jobVars
  <2>4. /\ TypeOK /\ Grounded /\ Started /\ n \in Items /\ d \in 0..MaxSize
        /\ i \in 1..Len(sources)
    BY <2>1, <2>2 DEF IInv, Control, Started, TypeOK
  <2>5. /\ Due(n, i) /\ Placed(n, i) /\ ~Written(n, i) /\ GivenIn(folders, n)
        /\ OpenIn(folders, i) /\ OrderedIn(folders, i)
        /\ CompleteIn(folders, i, {n})
    BY <2>1, <2>2, <2>4 DEF IInv, Reading, AtHand
  <2>6. PICK open : open = folders
    OBVIOUS
  <2>7. /\ archive' \in Seq(Record)
        /\ \A m, j : Written(m, j)' <=> Written(m, j) \/ (m = n /\ j = i)
        /\ OrderedIn(open, i)'
    BY <2>2, <2>3, <2>4, <2>5, <2>6, Adding
  <2>8. OpenIn(open, i)'
    <3>1. \A m, j : Due(m, j)' <=> Due(m, j)
      BY <2>3 DEF Due, Excluded, IsSameOrBelow
    <3> QED
      BY <2>5, <2>6, <2>7, <3>1 DEF OpenIn
  <2>9. CompleteIn(open, i, {})'
    <3> SUFFICES ASSUME NEW j \in 1..i, NEW m \in Items \ {Stage},
                        Belongs(m, sources[j]), ~Written(m, j)'
                 PROVE  j = i /\ PendingIn(open, {}, m, sources[j])
      BY <2>3 DEF CompleteIn, Belongs, IsSameOrBelow, Between, Excluded,
         PendingIn
    <3>1. ~Written(m, j) /\ ~(m = n /\ j = i)
      BY <2>7
    <3>2. j = i /\ PendingIn(open, {n}, m, sources[j])
      BY <2>5, <2>6, <3>1 DEF CompleteIn
    <3> QED
      BY <3>1, <3>2 DEF PendingIn
  <2>10. Reading' /\ AtHand' = {}
    BY <2>2 DEF Reading, AtHand
  <2>11. Control'
    <3>1. archive' \in Seq(Record)'
      BY <2>3, <2>7 DEF Record
    <3>2. reading' \in [item : Items \cup {Top}, declared : 0..MaxSize, done : 0..MaxSize]
      BY <2>2, TreeAssumption DEF NoFile
    <3>3. TypeOK'
      BY <2>3, <2>4, <3>1, <3>2 DEF TypeOK, Record
    <3> QED
      BY <2>1, <2>2, <2>3, <2>4, <3>3 DEF Control
  <2>12. Grounded'
    BY <2>3, <2>4 DEF Grounded, Started, IsSameOrBelow
  <2> QED
    BY <2>1, <2>3, <2>6, <2>7, <2>8, <2>9, <2>10, <2>11, <2>12 DEF IInv
<1> QED
  BY <1>1, <1>2

(* After the last source, no folder is open and nothing is left.           *)
LEMMA EndSourcesKeeps ==
  ASSUME IInv, EndSources
  PROVE  IInv'
<1>1. CASE Fail
  BY <1>1, FailKeeps
<1>2. CASE ~Fail
  <2>1. /\ Walking /\ folders = <<>> /\ source = Len(sources) /\ pc' = "closed"
        /\ UNCHANGED <<fsVars, jobVars, walkVars, cancelled>>
    BY <1>2 DEF EndSources
  <2> USE DEF fsVars, jobVars, walkVars
  <2>2. Started /\ Started' /\ TypeOK /\ reading = NoFile
    BY <2>1 DEF IInv, Control, Started, Walking
  <2>3. Control'
    BY <2>1, <2>2 DEF Control, TypeOK
  <2>4. Grounded'
    BY <2>1, <2>2 DEF IInv, Grounded, IsSameOrBelow
  <2>5. Reading' /\ OpenIn(folders, source)' /\ OrderedIn(folders, source)'
    BY <2>1, WalkDepends DEF IInv, Reading, GivenIn
  <2>6. CompleteIn(folders, source, AtHand)'
    BY <2>1, <2>2, WalkDepends DEF IInv, AtHand
  <2> QED
    BY <2>3, <2>4, <2>5, <2>6 DEF IInv
<1> QED
  BY <1>1, <1>2

-----------------------------------------------------------------------------
(* Other programs.                                                         *)

(* A change keeps the invariant when the iterators follow it and nothing   *)
(* that is at or below a changed item belongs into the archive.            *)
LEMMA ChangeKeeps ==
  ASSUME IInv, UNCHANGED <<sources, destination, pc, source, reading, archive, cancelled>>,
         TypeOK', Grounded', DOMAIN folders' = DOMAIN folders,
         \A k \in DOMAIN folders :
            /\ folders'[k].item = folders[k].item
            /\ folders'[k].given = folders[k].given
            /\ \A c \in folders'[k].met \ folders[k].met :
                  c # Stage /\ Parent[c] = folders[k].item
            /\ \A c \in folders[k].steady \ folders'[k].steady : c \in touched',
         touched \subseteq touched',
         \A n \in Items : kind'[n] = kind[n] \/ n \in touched'
  PROVE  IInv'
<1>1. \A n, i : /\ Written(n, i)' <=> Written(n, i)
                /\ Due(n, i)' <=> Due(n, i)
                /\ Placed(n, i)' <=> Placed(n, i)
  BY DEF Written, Due, Placed, Excluded, IsSameOrBelow
<1>2. \A n : GivenIn(folders, n)' <=> GivenIn(folders, n)
  BY DEF GivenIn
<1>3. OpenIn(folders, source)'
  BY <1>1 DEF IInv, OpenIn
<1>4. Reading'
  BY <1>1, <1>2 DEF IInv, Reading
<1>5. OrderedIn(folders, source)'
  <2>1. \A e : EntryIn(e)' <=> EntryIn(e)
    BY <1>1 DEF EntryIn
  <2> QED
    BY <1>2, <2>1 DEF IInv, OrderedIn
<1>6. Control'
  <2>1. TypeOK /\ Control
    BY DEF IInv, Control
  <2>2. folders = <<>> => folders' = <<>>
    BY <2>1 DEF TypeOK
  <2>3. folders' # <<>> => folders # <<>>
    BY <2>2
  <2> QED
    BY <2>1, <2>2, <2>3 DEF Control
<1>7. ASSUME Started'
      PROVE  CompleteIn(folders, source, AtHand)'
  <2> SUFFICES ASSUME NEW j \in 1..source, NEW m \in Items \ {Stage},
                      Belongs(m, sources[j])', ~Written(m, j)
               PROVE  j = source /\ PendingIn(folders, AtHand, m, sources[j])'
    BY <1>1 DEF CompleteIn, PendingIn, Belongs, IsSameOrBelow, Excluded,
       Between, AtHand
  <2>1. /\ IsSameOrBelow(m, sources[j]) /\ kind'[m] # "none"
        /\ \A a \in Between(m, sources[j]) : a \notin touched' /\ ~Excluded(a)
    BY DEF Belongs, IsSameOrBelow, Between, Excluded
  <2>2. m \in Between(m, sources[j])
    BY DEF Between
  <2>3. Belongs(m, sources[j])
    BY <2>1, <2>2 DEF Belongs
  <2>4. j = source /\ PendingIn(folders, AtHand, m, sources[j])
    BY <1>7, <2>3 DEF IInv, CompleteIn, Started
  <2>5. CASE m \in AtHand
    BY <2>4, <2>5 DEF PendingIn, AtHand
  <2>6. CASE m \notin AtHand
    <3>1. PICK k \in DOMAIN folders :
             \E c \in folders[k].steady \ folders[k].given : c \in Between(m, sources[j])
      BY <2>4, <2>6 DEF PendingIn
    <3>2. PICK c \in folders[k].steady \ folders[k].given : c \in Between(m, sources[j])
      BY <3>1
    <3>3. c \in folders'[k].steady \ folders'[k].given
      BY <2>1, <3>2
    <3>4. c \in Between(m, sources[j])'
      BY <3>2 DEF Between
    <3> QED
      BY <2>4, <3>3, <3>4 DEF PendingIn
  <2> QED
    BY <2>5, <2>6
<1> QED
  BY <1>3, <1>4, <1>5, <1>6, <1>7 DEF IInv

(* What a change by another program leaves alone.                          *)
LEMMA ChangeFacts ==
  ASSUME IInv, Change
  PROVE  /\ TypeOK /\ Grounded /\ changes' \in 0..MaxChanges
         /\ UNCHANGED <<sources, destination, pc, source, reading, archive,
                        cancelled>>
         /\ folders \in Seq(Frame) /\ Len(folders) \in Nat
         /\ DOMAIN folders = 1..Len(folders)
         /\ \A k \in DOMAIN folders : folders[k] \in Frame
<1>1. TypeOK /\ Grounded
  BY DEF IInv, Control
<1>2. folders \in Seq(Frame)
  BY <1>1 DEF TypeOK, Frame
<1>3. changes' \in 0..MaxChanges
  BY <1>1, TreeAssumption DEF Change, TypeOK
<1> QED
  BY <1>1, <1>2, <1>3 DEF Change, jobVars

(* A new item was not there before: nothing had to give it.                *)
LEMMA CreateKeeps ==
  ASSUME IInv, NEW n \in Items, Create(n)
  PROVE  IInv'
<1>1. /\ Change /\ n # Stage /\ kind[n] = "none"
      /\ Parent[n] # Top => kind[Parent[n]] = "dir"
      /\ folders' = [i \in DOMAIN folders |->
            IF folders[i].item = Parent[n]
            THEN [folders[i] EXCEPT !.met = @ \cup {n}] ELSE folders[i]]
      /\ touched' = touched \cup {n}
  BY DEF Create
<1>2. PICK k \in NewKinds : kind' = [kind EXCEPT ![n] = k]
  BY DEF Create
<1>3. PICK bytes \in 0..MaxSize : size' = [size EXCEPT ![n] = bytes]
  BY DEF Create
<1>4. /\ TypeOK /\ Grounded /\ changes' \in 0..MaxChanges
      /\ UNCHANGED <<sources, destination, pc, source, reading, archive,
                     cancelled>>
      /\ folders \in Seq(Frame) /\ Len(folders) \in Nat
      /\ DOMAIN folders = 1..Len(folders)
      /\ \A l \in DOMAIN folders : folders[l] \in Frame
  BY <1>1, ChangeFacts
<1>5. /\ k \in Kinds /\ k # "none"
      /\ kind' \in [Items -> Kinds] /\ kind'[n] = k
      /\ \A m \in Items \ {n} : kind'[m] = kind[m]
  <2>1. k \in Kinds /\ k # "none"
    BY <1>2, TreeAssumption
  <2> QED
    BY <1>2, <1>4, <2>1 DEF TypeOK
<1>6. /\ DOMAIN folders' = DOMAIN folders /\ folders' \in Seq(Frame)
      /\ \A l \in DOMAIN folders :
            /\ folders'[l].item = folders[l].item
            /\ folders'[l].given = folders[l].given
            /\ folders'[l].steady = folders[l].steady
            /\ \A c \in folders'[l].met \ folders[l].met :
                  c # Stage /\ Parent[c] = folders[l].item
  <2>1. ASSUME NEW l \in DOMAIN folders
        PROVE  /\ folders'[l] \in Frame
               /\ folders'[l].item = folders[l].item
               /\ folders'[l].given = folders[l].given
               /\ folders'[l].steady = folders[l].steady
               /\ \A c \in folders'[l].met \ folders[l].met :
                     c # Stage /\ Parent[c] = folders[l].item
    <3>1. folders[l] \in Frame
      BY <1>4
    <3>2. folders'[l] = IF folders[l].item = Parent[n]
                        THEN [folders[l] EXCEPT !.met = @ \cup {n}] ELSE folders[l]
      BY <1>1
    <3> QED
      BY <1>1, <3>1, <3>2 DEF Frame
  <2>2. DOMAIN folders' = DOMAIN folders /\ folders' = [l \in 1..Len(folders) |-> folders'[l]]
    BY <1>1, <1>4
  <2>3. folders' \in [1..Len(folders) -> Frame]
    BY <1>4, <2>1, <2>2
  <2>4. folders' \in Seq(Frame)
    BY <1>4, <2>3
  <2> QED
    BY <2>1, <2>2, <2>4
<1>7. TypeOK'
  <2>1. size' \in [Items -> 0..MaxSize] /\ touched' \subseteq Items
    BY <1>1, <1>3, <1>4 DEF TypeOK
  <2> QED
    BY <1>4, <1>5, <1>6, <2>1 DEF TypeOK, Frame
<1>8. Grounded'
  <2>1. kind'[destination] = "dir"
    BY <1>1, <1>4, <1>5, SourcesType DEF Grounded
  <2>2. ASSUME NEW m \in Items \ {Stage}, kind'[m] # "none", Parent[m] # Top
        PROVE  kind'[Parent[m]] = "dir"
    <3>1. kind[Parent[m]] = "dir" /\ Parent[m] \in Items
      BY <1>1, <1>4, <1>5, <2>2, TreeAssumption DEF Grounded
    <3> QED
      BY <1>1, <1>5, <3>1
  <2> QED
    BY <1>4, <2>1, <2>2 DEF Grounded, Started, IsSameOrBelow
<1> QED
  BY <1>1, <1>4, <1>5, <1>6, <1>7, <1>8, ChangeKeeps

(* A deleted item did not stand still: nothing has to give it any more.    *)
LEMMA DeleteKeeps ==
  ASSUME IInv, NEW n \in Items, Delete(n)
  PROVE  IInv'
<1>1. /\ Change /\ n \notin {Stage, destination} /\ Children(n) = {}
      /\ kind' = [kind EXCEPT ![n] = "none"]
      /\ folders' = [i \in DOMAIN folders |-> [folders[i] EXCEPT !.steady = @ \ {n}]]
      /\ touched' = touched \cup {n} /\ size' = size
  BY DEF Delete
<1>2. /\ TypeOK /\ Grounded /\ changes' \in 0..MaxChanges
      /\ UNCHANGED <<sources, destination, pc, source, reading, archive,
                     cancelled>>
      /\ folders \in Seq(Frame) /\ Len(folders) \in Nat
      /\ DOMAIN folders = 1..Len(folders)
      /\ \A l \in DOMAIN folders : folders[l] \in Frame
  BY <1>1, ChangeFacts
<1>3. /\ kind' \in [Items -> Kinds] /\ kind'[n] = "none"
      /\ \A m \in Items \ {n} : kind'[m] = kind[m]
  BY <1>1, <1>2 DEF TypeOK, Kinds
<1>4. /\ DOMAIN folders' = DOMAIN folders /\ folders' \in Seq(Frame)
      /\ \A l \in DOMAIN folders :
            /\ folders'[l].item = folders[l].item
            /\ folders'[l].given = folders[l].given
            /\ folders'[l].steady = folders[l].steady \ {n}
            /\ folders'[l].met = folders[l].met
  <2>1. ASSUME NEW l \in DOMAIN folders
        PROVE  /\ folders'[l] \in Frame
               /\ folders'[l].item = folders[l].item
               /\ folders'[l].given = folders[l].given
               /\ folders'[l].steady = folders[l].steady \ {n}
               /\ folders'[l].met = folders[l].met
    <3>1. folders[l] \in Frame
      BY <1>2
    <3>2. folders'[l] = [folders[l] EXCEPT !.steady = @ \ {n}]
      BY <1>1
    <3> QED
      BY <3>1, <3>2 DEF Frame
  <2>2. DOMAIN folders' = DOMAIN folders /\ folders' = [l \in 1..Len(folders) |-> folders'[l]]
    BY <1>1, <1>2
  <2>3. folders' \in [1..Len(folders) -> Frame]
    BY <1>2, <2>1, <2>2
  <2>4. folders' \in Seq(Frame)
    BY <1>2, <2>3
  <2> QED
    BY <2>1, <2>2, <2>4
<1>5. TypeOK'
  <2>1. touched' \subseteq Items
    BY <1>1, <1>2 DEF TypeOK
  <2> QED
    BY <1>1, <1>2, <1>3, <1>4, <2>1 DEF TypeOK, Frame
<1>6. Grounded'
  <2>1. kind'[destination] = "dir"
    BY <1>1, <1>2, <1>3, SourcesType DEF Grounded
  <2>2. ASSUME NEW m \in Items \ {Stage}, kind'[m] # "none", Parent[m] # Top
        PROVE  kind'[Parent[m]] = "dir"
    <3>1. kind[m] # "none" /\ m # n
      BY <1>3, <2>2
    <3>2. kind[Parent[m]] = "dir" /\ Parent[m] \in Items
      BY <1>2, <2>2, <3>1, TreeAssumption DEF Grounded
    <3>3. Parent[m] # n
      BY <1>1, <3>1 DEF Children, FolderOf
    <3> QED
      BY <1>3, <3>2, <3>3
  <2> QED
    BY <1>2, <2>1, <2>2 DEF Grounded, Started, IsSameOrBelow
<1> QED
  BY <1>1, <1>2, <1>3, <1>4, <1>5, <1>6, ChangeKeeps

(* A file that changes its size did not stand still.                       *)
LEMMA ResizeKeeps ==
  ASSUME IInv, NEW n \in Items, Resize(n)
  PROVE  IInv'
<1>1. PICK bytes \in 0..MaxSize : size' = [size EXCEPT ![n] = bytes]
  BY DEF Resize
<1>2. Change /\ UNCHANGED <<kind, folders, touched>>
  BY DEF Resize
<1>3. /\ TypeOK /\ Grounded /\ changes' \in 0..MaxChanges
      /\ UNCHANGED <<sources, destination, pc, source, reading, archive,
                     cancelled>>
  BY <1>2, ChangeFacts
<1>4. TypeOK'
  <2>1. size' \in [Items -> 0..MaxSize]
    BY <1>1, <1>3 DEF TypeOK
  <2> QED
    BY <1>2, <1>3, <2>1 DEF TypeOK
<1>5. Grounded'
  BY <1>2, <1>3 DEF Grounded, Started, IsSameOrBelow
<1> QED
  BY <1>2, <1>3, <1>4, <1>5, ChangeKeeps

-----------------------------------------------------------------------------
(* Every step keeps the invariant.                                         *)
LEMMA NextKeeps == IInv /\ [Next]_vars => IInv'
<1> SUFFICES ASSUME IInv, [Next]_vars PROVE IInv'
  OBVIOUS
<1>1. TypeOK
  BY DEF IInv, Control
<1>2. CASE UNCHANGED vars
  <2>1. cancelled' \in BOOLEAN
    BY <1>1, <1>2 DEF TypeOK, vars
  <2> QED
    BY <1>2, <2>1, CancelKeeps DEF vars
<1>3. CASE Cancel
  BY <1>3, CancelKeeps DEF Cancel
<1>4. CASE \E n \in Items : Create(n) \/ Delete(n) \/ Resize(n)
  BY <1>4, CreateKeeps, DeleteKeeps, ResizeKeeps
<1>5. CASE Begin \/ NextSource \/ NextChild
  BY <1>5, BeginKeeps, NextSourceKeeps, NextChildKeeps
<1>6. CASE EndFolder \/ ReadChunk \/ EndFile \/ EndSources
  BY <1>6, EndFolderKeeps, ReadChunkKeeps, EndFileKeeps, EndSourcesKeeps
<1> QED
  BY <1>2, <1>3, <1>4, <1>5, <1>6 DEF Next

-----------------------------------------------------------------------------
(* What the invariant is for.                                              *)
LEMMA AllOfIt == IInv => ArchivesAll
<1> SUFFICES ASSUME IInv, pc = "closed", NEW i \in DOMAIN sources, NEW n \in Items \ {Stage},
                    Belongs(n, sources[i])
             PROVE  Written(n, i)
  BY DEF ArchivesAll, Written
<1>1. /\ folders = <<>> /\ reading = NoFile /\ source = Len(sources) /\ TypeOK
      /\ Started
      /\ CompleteIn(<<>>, source, {})
  BY DEF IInv, Control, Started, AtHand
<1>2. i \in 1..source
  BY <1>1, SourcesType
<1>3. ~PendingIn(<<>>, {}, n, sources[i])
  BY DEF PendingIn
<1> QED
  BY <1>1, <1>2, <1>3 DEF CompleteIn

(* ArchivesOnly is a consequence of the invariant.                         *)
LEMMA NothingElse == IInv => ArchivesOnly
  BY Zenon DEF IInv, OrderedIn, EntryIn, Due, ArchivesOnly
=============================================================================
