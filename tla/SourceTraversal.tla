--------------------------- MODULE SourceTraversal ---------------------------
(***************************************************************************)
(* How ArchiveEngine::compress turns files and folders into an archive.    *)
(*                                                                         *)
(* The sources are checked once; then append descends from each of them:   *)
(* it inspects an item, writes its header, and goes through a folder's     *)
(* directory entries or a file's bytes.  Other programs create, delete and *)
(* resize items meanwhile.                                                 *)
(*                                                                         *)
(* An item is identified by its place in the tree.  A directory iterator   *)
(* gives each name at most once: every item that is there from its opening *)
(* to its end, and perhaps others that were there at some time.  A file    *)
(* that is open keeps its bytes when it is deleted.  Abstracted: contents  *)
(* (a size stands for them), times and permissions, formats and options,   *)
(* and what a change of a file that keeps its size does.                   *)
(***************************************************************************)
EXTENDS Integers, SequencesExt

CONSTANTS
    Items,            \* places in the tree
    Parent,           \* the folder of each item, or Top
    Top,
    Stage,            \* the staging directory, an item of the destination
    Key,              \* an item's file name without case
    Metadata,         \* items called desktop.ini, thumbs.db, ...
    ExcludeMetadata,  \* options.exclude_windows_metadata
    Selections,       \* what may be selected: sequences of items
    Destinations,     \* folders that may be the destination
    InitialTrees,     \* what the items may be at first
    InitialSizes,     \* how large
    NewKinds,         \* what other programs may create
    MaxSize,          \* bound on a file's size, in buffers
    MaxChanges        \* bound on changes by other programs

Kinds == {"none", "file", "dir", "link", "unsafe link", "special"}

(* Places form a tree: no folder is above itself, and the staging          *)
(* directory, which is in the destination, is not written as a place.      *)
ASSUME TreeAssumption ==
    /\ Stage \in Items /\ Top \notin Items /\ Parent \in [Items -> Items \cup {Top}]
    /\ \A S \in SUBSET Items : S # {} => \E n \in S : Parent[n] \notin S
    /\ Parent[Stage] = Top /\ \A n \in Items : Parent[n] # Stage
    /\ Destinations \subseteq Items \ {Stage} /\ Metadata \subseteq Items
    /\ Selections \subseteq Seq(Items \ {Stage}) \ {<<>>}
    /\ InitialTrees \subseteq [Items -> Kinds] /\ InitialSizes \subseteq [Items -> 0..MaxSize]
    /\ NewKinds \subseteq Kinds \ {"none"}
    /\ ExcludeMetadata \in BOOLEAN
    /\ MaxSize \in Nat /\ MaxChanges \in Nat

NoFile == [item |-> Top, declared |-> 0, done |-> 0]

VARIABLES
    kind, size,   \* the file system
    sources,      \* what is selected
    destination,  \* the folder the archive goes to
    pc,           \* where compress is
    source,       \* sources begun
    folders,      \* the folders being gone through, innermost last
    reading,      \* the file being read
    archive,      \* the entries written
    cancelled,    \* the user has cancelled
    touched,      \* items created or deleted since the beginning
    changes       \* changes by other programs so far

fsVars   == <<kind, size, touched, changes>>
jobVars  == <<sources, destination>>
walkVars == <<source, folders, reading, archive>>
vars     == <<fsVars, jobVars, pc, walkVars, cancelled>>

-----------------------------------------------------------------------------
FolderOf(n) == IF n = Stage THEN destination ELSE Parent[n]

(* The folders above an item, without the staging directory's.             *)
Above[n \in Items] == IF Parent[n] = Top THEN {} ELSE {Parent[n]} \cup Above[Parent[n]]

(* is_same_or_descendant.                                                  *)
IsSameOrBelow(n, folder) == n = folder \/ folder \in Above[n]

Children(n) == {c \in Items : FolderOf(c) = n /\ kind[c] # "none"}
Excluded(n) == ExcludeMetadata /\ n \in Metadata

Init ==
    /\ kind \in InitialTrees
    /\ \A n \in Items \ {Stage} : kind[n] # "none" /\ Parent[n] # Top => kind[Parent[n]] = "dir"
    /\ kind[Stage] = "none"
    /\ size \in InitialSizes
    /\ sources \in Selections /\ destination \in Destinations
    /\ kind[destination] = "dir"
    /\ pc = "checking" /\ source = 0 /\ folders = <<>> /\ reading = NoFile
    /\ archive = <<>> /\ cancelled = FALSE /\ touched = {} /\ changes = 0

-----------------------------------------------------------------------------
(* The staging directory goes.                                             *)
Fail ==
    /\ pc' = "failed" /\ kind' = [kind EXCEPT ![Stage] = "none"]
    /\ folders' = <<>> /\ reading' = NoFile
    /\ UNCHANGED <<size, touched, changes, jobVars, source, archive, cancelled>>

(* Mutant: only the sources themselves are compared with the destination.  *)
AcceptableSameOnly ==
    /\ \A i \in DOMAIN sources : kind[sources[i]] # "none" /\ sources[i] # destination
    /\ \A i, k \in DOMAIN sources : i # k => Key[sources[i]] # Key[sources[k]]

(* What the checks before anything is made accept: sources that exist, of  *)
(* which no folder holds the destination, with distinct names.             *)
Acceptable ==
    /\ \A i \in DOMAIN sources :
          /\ kind[sources[i]] # "none"
          /\ kind[sources[i]] = "dir" => ~IsSameOrBelow(destination, sources[i])
    /\ \A i, k \in DOMAIN sources : i # k => Key[sources[i]] # Key[sources[k]]

Begin ==
    /\ pc = "checking"
    /\ \/ Fail
       \/ /\ ~cancelled /\ Acceptable
          /\ pc' = "walking" /\ kind' = [kind EXCEPT ![Stage] = "dir"]
          /\ UNCHANGED <<size, touched, changes, jobVars, walkVars, cancelled>>

-----------------------------------------------------------------------------
Entry(n, i, declared, written) ==
    [item |-> n, source |-> i, declared |-> declared, written |-> written]

Opened(n) == [item |-> n, steady |-> Children(n), met |-> Children(n), given |-> {}]

(* append up to the first directory entry or the first byte, called for an *)
(* item of source number i with these folders open.  Anything it inspects, *)
(* opens or writes may fail; so does an item that has gone, a special file *)
(* and a link that is absolute, empty or leads out.                        *)
AppendItem(n, i, open) ==
    /\ ~cancelled
    /\ \/ /\ kind[n] = "dir"
          /\ archive' = Append(archive, Entry(n, i, 0, 0))
          /\ folders' = Append(open, Opened(n))
          /\ UNCHANGED reading
       \/ /\ kind[n] = "link"
          /\ archive' = Append(archive, Entry(n, i, 0, 0))
          /\ folders' = open
          /\ UNCHANGED reading
       \/ /\ kind[n] = "file"
          /\ reading' = [item |-> n, declared |-> size[n], done |-> 0]
          /\ folders' = open
          /\ UNCHANGED archive

Walking == pc = "walking" /\ reading = NoFile
Untouched == UNCHANGED <<fsVars, jobVars, pc, cancelled>>

NextSource ==
    /\ Walking /\ folders = <<>> /\ source < Len(sources)
    /\ \/ Fail
       \/ /\ source' = source + 1
          /\ IF Excluded(sources[source + 1])
             THEN UNCHANGED <<folders, reading, archive>>
             ELSE AppendItem(sources[source + 1], source + 1, <<>>)
          /\ Untouched

(* The next directory entry of the innermost folder.                       *)
NextChild ==
    /\ Walking /\ folders # <<>>
    /\ LET top == Last(folders) IN
       \E c \in top.met \ top.given :
          LET open == Append(Front(folders), [top EXCEPT !.given = @ \cup {c}]) IN
          \/ Fail
          \/ /\ IF Excluded(c) THEN folders' = open /\ UNCHANGED <<reading, archive>>
                               ELSE AppendItem(c, source, open)
             /\ UNCHANGED source /\ Untouched

(* Mutant: an iterator that stops on an error counts as finished.          *)
EndFolderEarly ==
    /\ Walking /\ folders # <<>>
    /\ folders' = Front(folders)
    /\ UNCHANGED <<source, reading, archive>> /\ Untouched

(* The iterator reaches its end, or an error that is no end.               *)
EndFolder ==
    /\ Walking /\ folders # <<>>
    /\ \/ Fail
       \/ /\ Last(folders).steady \subseteq Last(folders).given
          /\ folders' = Front(folders)
          /\ UNCHANGED <<source, reading, archive>> /\ Untouched

(* One buffer.  The writer takes no more than the header declared.         *)
ReadChunk ==
    /\ pc = "walking" /\ reading # NoFile /\ reading.done < size[reading.item]
    /\ \/ Fail
       \/ /\ ~cancelled /\ reading.done < reading.declared
          /\ reading' = [reading EXCEPT !.done = @ + 1]
          /\ UNCHANGED <<source, folders, archive>> /\ Untouched

(* The end of the file: it must have given what its header declares.       *)
EndFile ==
    /\ pc = "walking" /\ reading # NoFile /\ reading.done >= size[reading.item]
    /\ \/ Fail
       \/ /\ ~cancelled /\ reading.done = reading.declared
          /\ archive' = Append(archive, Entry(reading.item, source, reading.declared, reading.done))
          /\ reading' = NoFile
          /\ UNCHANGED <<source, folders>> /\ Untouched

(* The writer is closed.                                                   *)
EndSources ==
    /\ Walking /\ folders = <<>> /\ source = Len(sources)
    /\ \/ Fail
       \/ /\ ~cancelled /\ pc' = "closed"
          /\ UNCHANGED <<fsVars, jobVars, walkVars, cancelled>>

-----------------------------------------------------------------------------
Compressing == pc \in {"checking", "walking"}

Cancel ==
    /\ Compressing /\ ~cancelled /\ cancelled' = TRUE
    /\ UNCHANGED <<fsVars, jobVars, pc, walkVars>>

Change ==
    /\ Compressing /\ changes < MaxChanges /\ changes' = changes + 1
    /\ UNCHANGED <<jobVars, pc, source, reading, archive, cancelled>>

(* An open iterator may or may not give an item that comes or goes.        *)
Create(n) ==
    /\ Change
    /\ n # Stage /\ kind[n] = "none" /\ n # reading.item
    /\ Parent[n] # Top => kind[Parent[n]] = "dir"
    /\ \E k \in NewKinds : kind' = [kind EXCEPT ![n] = k]
    /\ \E bytes \in 0..MaxSize :
          /\ kind'[n] # "file" => bytes = 0
          /\ size' = [size EXCEPT ![n] = bytes]
    /\ folders' = [i \in DOMAIN folders |->
          IF folders[i].item = Parent[n]
          THEN [folders[i] EXCEPT !.met = @ \cup {n}] ELSE folders[i]]
    /\ touched' = touched \cup {n}

Delete(n) ==
    /\ Change
    /\ n \notin {Stage, destination} /\ kind[n] # "none" /\ Children(n) = {}
    /\ kind' = [kind EXCEPT ![n] = "none"]
    /\ folders' = [i \in DOMAIN folders |->
          [folders[i] EXCEPT !.steady = @ \ {n}]]
    /\ touched' = touched \cup {n}
    /\ UNCHANGED size

Resize(n) ==
    /\ Change
    /\ kind[n] = "file"
    /\ \E bytes \in 0..MaxSize \ {size[n]} : size' = [size EXCEPT ![n] = bytes]
    /\ UNCHANGED <<kind, folders, touched>>

Next ==
    \/ Begin \/ NextSource \/ NextChild \/ EndFolder \/ ReadChunk \/ EndFile
    \/ EndSources \/ Cancel
    \/ \E n \in Items : Create(n) \/ Delete(n) \/ Resize(n)

Spec == Init /\ [][Next]_vars

-----------------------------------------------------------------------------
TypeOK ==
    /\ kind \in [Items -> Kinds] /\ size \in [Items -> 0..MaxSize]
    /\ sources \in Selections /\ destination \in Destinations
    /\ pc \in {"checking", "walking", "closed", "failed"}
    /\ source \in 0..Len(sources)
    /\ folders \in Seq([item : Items, steady : SUBSET Items, met : SUBSET Items,
                        given : SUBSET Items])
    /\ reading \in [item : Items \cup {Top}, declared : 0..MaxSize, done : 0..MaxSize]
    /\ archive \in Seq([item : Items, source : 1..Len(sources), declared : 0..MaxSize,
                        written : 0..MaxSize])
    /\ cancelled \in BOOLEAN /\ touched \subseteq Items /\ changes \in 0..MaxChanges

(* An item that belongs into the archive: it and the folders between it    *)
(* and its source were there, unchanged, all the time, and none of them is *)
(* excluded.                                                               *)
Between(n, s) == {n} \cup {a \in Above[n] : s = a \/ s \in Above[a]}
Belongs(n, s) ==
    /\ IsSameOrBelow(n, s) /\ kind[n] # "none"
    /\ \A a \in Between(n, s) : a \notin touched /\ ~Excluded(a)

(* When the archive is closed without a failure, it holds every item that  *)
(* belongs into it, however the tree changed around it.                    *)
ArchivesAll ==
    pc = "closed" =>
        \A i \in DOMAIN sources : \A n \in Items \ {Stage} :
            Belongs(n, sources[i]) =>
                \E e \in DOMAIN archive : archive[e].item = n /\ archive[e].source = i

(* What is in the archive belongs to a source: nothing twice, no folder    *)
(* after its contents, nothing excluded, not the archive that is being     *)
(* written, and of each file as many bytes as its header says.             *)
ArchivesOnly ==
    \A e \in DOMAIN archive :
        LET n == archive[e].item  i == archive[e].source IN
        /\ n # Stage /\ IsSameOrBelow(n, sources[i]) /\ ~Excluded(n)
        /\ n # sources[i] =>
              \E d \in 1..(e - 1) : archive[d].item = Parent[n] /\ archive[d].source = i
        /\ \A d \in DOMAIN archive :
              archive[d].item = n /\ archive[d].source = i => d = e
        /\ archive[e].written = archive[e].declared
=============================================================================
