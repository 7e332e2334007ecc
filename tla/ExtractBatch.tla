----------------------------- MODULE ExtractBatch -----------------------------
(***************************************************************************)
(* Reading several archives, checking entries and extracting them.         *)
(*                                                                         *)
(* The page reads the selected archives one after the other and lists      *)
(* their entries (LoadArchivePreview); the user checks some; OnExtract     *)
(* hands each archive with checked entries, in order, to                   *)
(* ArchiveEngine::extract, which opens the file again, applies its entry   *)
(* rules, writes the selected entries into a staging directory and         *)
(* publishes that.  Between listing and extraction another program may     *)
(* replace or delete an archive.  A throw ends the batch; what earlier     *)
(* archives yielded stays.                                                 *)
(*                                                                         *)
(* An archive is a sequence of entries as it stores them: a name that is   *)
(* not yet checked, a type and, for links, a target.  A name is the        *)
(* sequence of what stands between its slashes or backslashes: <<"", "a">> *)
(* is "/a".  An open file is a snapshot; a file that changes under its     *)
(* reader may also make it throw.  Abstracted: contents of entries,        *)
(* passwords, formats, the length of a name in bytes and zero bytes in it. *)
(* How the output gets its name and what a crash leaves is ArchiveOutput.  *)
(***************************************************************************)
EXTENDS Integers, Sequences, FiniteSets

CONSTANTS
    Archives,         \* how many archives are selected
    Split,            \* those given by their first volume, ".001"
    InitialContents,  \* for each archive, what its file may hold at first
    Replacements,     \* what another program may put in place of a file
    NoFile,           \* no regular file of that name
    Components,       \* what may stand between the slashes of a name
    DriveLike,        \* components with a colon
    MaxDepth,         \* components of a path (127 in the code)
    MaxOperations,    \* bound on readings and extractions
    MaxReplacements   \* bound on changes by another program

Archive == 1..Archives
Name    == Seq(Components) \ {<<>>}
Entry   == [name : Name, type : {"file", "dir", "link", "hard link", "special"},
            target : Name]

ASSUME ArchivesAssumption ==
    /\ Archives \in Nat \ {0} /\ Split \subseteq Archive
    /\ \A a \in Archive : InitialContents[a] \subseteq Seq(Entry) \cup {NoFile}
    /\ Replacements \subseteq Seq(Entry) \cup {NoFile}
    /\ NoFile \notin Seq(Entry)
ASSUME NamesAssumption ==
    /\ {"", ".", ".."} \subseteq Components
    /\ DriveLike \subseteq Components \ {"", ".", ".."}
    /\ {MaxDepth, MaxOperations, MaxReplacements} \subseteq Nat

VARIABLES
    file,        \* what each selected path holds now
    listing,     \* what reading saw of each archive: preview_entries_
    checked,     \* the rows that are checked, <<archive, entry>>
    pc,          \* where the page, or its worker, is
    current,     \* the archive the worker has reached
    opened,      \* what the open archive holds
    position,    \* entries read of it
    staged,      \* entries written to the staging directory
    matched,     \* selected paths that were met
    staging,     \* the staging directory exists
    temporary,   \* the directory of a joined archive exists
    outputs,     \* what the batch has published, in order
    outcome,     \* what the page was told last
    cancelled,   \* the user has cancelled the operation
    operations,  \* readings and extractions so far
    replaced     \* changes by other programs so far

inputVars  == <<listing, checked>>
workVars   == <<opened, position, staged, matched, staging, temporary>>
boundVars  == <<operations, replaced>>
vars == <<file, inputVars, pc, current, workVars, outputs, outcome, cancelled,
          boundVars>>

-----------------------------------------------------------------------------
(* safe_relative_path: where a name leads below the destination, or a      *)
(* refusal.                                                                *)
Proper(c) == c \notin {"", "."}
SafePath(name) ==
    LET parts[n \in 0..Len(name)] ==
            IF n = 0 THEN <<>>
            ELSE IF Proper(name[n]) THEN Append(parts[n - 1], name[n])
            ELSE parts[n - 1]
    IN  parts[Len(name)]

(* Mutant: only a name that begins with ".." is refused.                   *)
UnsafeLeadingOnly(name) ==
    \/ Len(name) > 1 /\ name[1] = ""
    \/ \E n \in DOMAIN name : name[n] \in DriveLike
    \/ name[1] = ".."
    \/ Len(SafePath(name)) > MaxDepth

Unsafe(name) ==
    \/ Len(name) > 1 /\ name[1] = ""
    \/ \E n \in DOMAIN name : name[n] = ".." \/ name[n] \in DriveLike
    \/ Len(SafePath(name)) > MaxDepth

IsAtOrBelow(path, parent) ==
    Len(parent) <= Len(path) /\ SubSeq(path, 1, Len(parent)) = parent

(* What the page lists: entries with a path.                               *)
Path(a, i) == SafePath(listing[a][i].name)
Rows == UNION {{a} \X {i \in DOMAIN listing[a] : Path(a, i) # <<>>} : a \in Archive}

RowsOf(a)    == {r \in Rows : r[1] = a}
CheckedOf(a) == checked \cap RowsOf(a)
Paths(rows)  == {Path(r[1], r[2]) : r \in rows}

(* What the user may leave checked: a folder with something below it is    *)
(* checked when all of that is (SelectionTree!FolderIsSubtree).            *)
Below(r) == {s \in RowsOf(r[1]) :
                s # r /\ Path(r[1], r[2]) # Path(s[1], s[2])
                /\ IsAtOrBelow(Path(s[1], s[2]), Path(r[1], r[2]))}
IsFolder(r) == listing[r[1]][r[2]].type = "dir"
Checkable(marks) ==
    \A r \in Rows : IsFolder(r) /\ Below(r) # {} =>
        (r \in marks <=> Below(r) \subseteq marks)

(* OnExtract: with every row of an archive checked no selection is given.  *)
Whole(a) == Cardinality(CheckedOf(a)) = Cardinality(RowsOf(a))
Selection(a) == Paths(CheckedOf(a))

-----------------------------------------------------------------------------
Busy == pc \notin {"selected", "listed"}

NothingOpen ==
    /\ opened = <<>> /\ position = 0 /\ staged = {} /\ matched = {}
    /\ staging = FALSE /\ temporary = FALSE

Init ==
    /\ file \in [Archive -> UNION {InitialContents[a] : a \in Archive}]
    /\ \A a \in Archive : file[a] \in InitialContents[a]
    /\ listing = [a \in Archive |-> <<>>] /\ checked = {}
    /\ pc = "selected" /\ current = 0
    /\ NothingOpen
    /\ outputs = <<>> /\ outcome = "none" /\ cancelled = FALSE
    /\ operations = 0 /\ replaced = 0

(* Mutant: the archive is opened before the try block of extract.          *)
ThrownOutsideTry ==
    CASE pc \in {"reading", "scanning"} -> "unread"
      [] pc = "opening"                -> "listed"
      [] OTHER                         -> "unwinding"

Thrown == IF pc \in {"reading", "scanning"} THEN "unread" ELSE "unwinding"

(* An exception leaves the operation; "cancelled" is thrown by             *)
(* check_cancelled alone.                                                  *)
Throw(reason) ==
    /\ reason = "cancelled" => cancelled
    /\ outcome' = reason
    /\ pc' = Thrown
    /\ UNCHANGED <<file, inputVars, current, outputs, cancelled, boundVars>>

Goto(place) ==
    /\ pc' = place
    /\ UNCHANGED <<file, outcome, cancelled, boundVars>>

-----------------------------------------------------------------------------
(* LoadArchivePreview: the list is cleared and a worker starts.            *)
ReadArchives ==
    /\ pc = "selected" /\ operations < MaxOperations
    /\ operations' = operations + 1
    /\ pc' = "reading" /\ current' = 1
    /\ outcome' = "none" /\ cancelled' = FALSE
    /\ UNCHANGED <<file, inputVars, workVars, outputs, replaced>>

(* ArchiveEngine::preview of one archive, up to its first entry.           *)
OpenPreview ==
    /\ pc = "reading" /\ current <= Archives
    /\ \/ /\ file[current] = NoFile
          /\ Throw("failed") /\ UNCHANGED workVars
       \/ /\ file[current] # NoFile /\ cancelled
          /\ Throw("cancelled") /\ UNCHANGED workVars
       \/ /\ file[current] # NoFile /\ ~cancelled
          /\ temporary' = (current \in Split)
          /\ UNCHANGED <<position, staged, matched, staging>>
          /\ \/ /\ opened' = file[current]
                /\ Goto("scanning")
                /\ UNCHANGED <<inputVars, current, outputs>>
             \/ Throw("failed") /\ UNCHANGED opened

(* The rest of it: every name is checked, nothing else about an entry.     *)
Scan ==
    /\ pc = "scanning"
    /\ \/ /\ \E reason \in {"failed", "cancelled"} : Throw(reason)
          /\ UNCHANGED workVars
       \/ /\ ~cancelled
          /\ \A i \in DOMAIN opened : ~Unsafe(opened[i].name)
          /\ listing' = [listing EXCEPT ![current] = opened]
          /\ current' = current + 1
          /\ opened' = <<>> /\ temporary' = FALSE
          /\ Goto("reading")
          /\ UNCHANGED <<checked, position, staged, matched, staging, outputs>>

(* The page gets the list, unless the user has cancelled meanwhile;        *)
(* everything is checked.                                                  *)
List ==
    /\ pc = "reading" /\ current > Archives
    /\ \/ /\ cancelled
          /\ outcome' = "cancelled" /\ pc' = "selected"
          /\ listing' = [a \in Archive |-> <<>>]
          /\ UNCHANGED checked
       \/ /\ ~cancelled
          /\ outcome' = "listed" /\ pc' = "listed"
          /\ checked' = Rows
          /\ UNCHANGED listing
    /\ UNCHANGED <<file, current, workVars, outputs, cancelled, boundVars>>

UnwindReading ==
    /\ pc = "unread"
    /\ temporary' = FALSE /\ opened' = <<>>
    /\ listing' = [a \in Archive |-> <<>>]
    /\ Goto("selected")
    /\ UNCHANGED <<checked, current, position, staged, matched, staging, outputs>>

-----------------------------------------------------------------------------
(* The user checks some entries and OnExtract starts a worker.             *)
ExtractChecked ==
    /\ pc = "listed" /\ operations < MaxOperations
    /\ \E marks \in (SUBSET Rows) \ {{}} : Checkable(marks) /\ checked' = marks
    /\ operations' = operations + 1
    /\ pc' = "batch" /\ current' = 1 /\ outputs' = <<>>
    /\ outcome' = "none" /\ cancelled' = FALSE
    /\ UNCHANGED <<file, listing, workVars, replaced>>

SkipArchive ==
    /\ pc = "batch" /\ current <= Archives /\ CheckedOf(current) = {}
    /\ current' = current + 1
    /\ Goto("batch")
    /\ UNCHANGED <<inputVars, workVars, outputs>>

(* ArchiveEngine::extract of one archive, up to its staging directory.     *)
StartArchive ==
    /\ pc = "batch" /\ current <= Archives /\ CheckedOf(current) # {}
    /\ \/ /\ file[current] = NoFile
          /\ Throw("failed") /\ UNCHANGED workVars
       \/ /\ file[current] # NoFile /\ cancelled
          /\ Throw("cancelled") /\ UNCHANGED workVars
       \/ /\ file[current] # NoFile /\ ~cancelled
          /\ \/ /\ staging' = TRUE /\ Goto("opening")
                /\ UNCHANGED <<inputVars, current, outputs>>
             \/ Throw("failed") /\ UNCHANGED staging
          /\ UNCHANGED <<opened, position, staged, matched, temporary>>

(* A volume is missing, the file is gone or no archive, or it opens.       *)
OpenArchive ==
    /\ pc = "opening"
    /\ temporary' = (current \in Split /\ ~cancelled)
    /\ UNCHANGED <<position, staged, matched, staging>>
    /\ \/ cancelled /\ Throw("cancelled") /\ UNCHANGED opened
       \/ ~cancelled /\ Throw("failed") /\ UNCHANGED opened
       \/ /\ ~cancelled /\ file[current] # NoFile
          /\ opened' = file[current] /\ Goto("extracting")
          /\ UNCHANGED <<inputVars, current, outputs>>

(* Mutant: the type is not looked at.                                      *)
RefusedLinksOnly(e) ==
    \/ e.type = "hard link"
    \/ e.type = "link" /\ (Unsafe(e.target) \/ SafePath(e.target) = <<>>)

(* validate_link and the check of the type.                                *)
Refused(e) ==
    \/ e.type \in {"hard link", "special"}
    \/ e.type = "link" /\ (Unsafe(e.target) \/ SafePath(e.target) = <<>>)

(* The path or one of its parents is selected; all that are count as met.  *)
Meets(path) == {p \in Selection(current) : IsAtOrBelow(path, p)}

(* The disk writer writes nothing below a file or a link and overwrites    *)
(* nothing.  An entry for a path where something stands is passed over     *)
(* (content for a file makes it throw), unless it takes the place of a     *)
(* link; where something was written below the path, a folder stands.      *)
WriteEntry(path, type) ==
    LET there == {s \in staged : s.path = path}
        below == {s \in staged : IsAtOrBelow(s.path, path)} \ there
    IN  /\ \A s \in staged \ there : IsAtOrBelow(path, s.path) => s.type = "dir"
        /\ \/ there # {} /\ staged' = staged
           \/ /\ \A s \in there : s.type = "link"
              /\ staged' = (staged \ there)
                    \cup {[path |-> path, type |-> IF below = {} THEN type ELSE "dir"]}

(* One entry: the checks of its path, of links and of its type come first, *)
(* then the selection; reading or writing may fail at any entry.           *)
ReadEntry ==
    /\ pc = "extracting" /\ position < Len(opened)
    /\ LET e == opened[position + 1]  path == SafePath(e.name)
           met == IF Whole(current) THEN {} ELSE Meets(path)
       IN  \/ cancelled /\ Throw("cancelled") /\ UNCHANGED <<position, staged, matched>>
           \/ ~cancelled /\ Throw("failed") /\ UNCHANGED <<position, staged, matched>>
           \/ /\ ~cancelled /\ ~Unsafe(e.name)
              /\ path # <<>> => ~Refused(e)
              /\ position' = position + 1 /\ matched' = matched \cup met
              /\ \/ /\ path = <<>> \/ (~Whole(current) /\ met = {})
                    /\ staged' = staged
                 \/ /\ path # <<>> /\ (Whole(current) \/ met # {})
                    /\ WriteEntry(path, e.type)
              /\ Goto("extracting")
              /\ UNCHANGED <<inputVars, current, outputs>>
    /\ UNCHANGED <<opened, staging, temporary>>

(* Readers and writers go, and with them what they made in private.        *)
LeaveArchive ==
    /\ opened' = <<>> /\ position' = 0 /\ staged' = {} /\ matched' = {}
    /\ staging' = FALSE /\ temporary' = FALSE

(* Mutants: selected paths that were not met are passed over; the result   *)
(* of an archive takes the place of the ones before.                       *)
AllMetAlways == TRUE
TotalLast(result) == <<result>>

AllMet == Whole(current) \/ matched = Selection(current)
Total(result) == Append(outputs, result)

Published == [archive |-> current, content |-> opened,
              paths |-> {s.path : s \in staged}]

(* The end of the archive: both sides are closed, every selected path must *)
(* have been met, the staged directory is published and what is left of    *)
(* staging and of a joined archive removed.                                *)
FinishArchive ==
    /\ pc = "extracting" /\ position = Len(opened)
    /\ \/ cancelled /\ Throw("cancelled") /\ UNCHANGED workVars
       \/ ~cancelled /\ Throw("failed") /\ UNCHANGED workVars
       \/ /\ ~cancelled /\ AllMet
          /\ outputs' = Total(Published)
          /\ current' = current + 1
          /\ LeaveArchive
          /\ Goto("batch") /\ UNCHANGED inputVars

(* Mutant: the batch goes on with the next archive.                        *)
UnwindExtractionGoesOn ==
    /\ pc = "unwinding"
    /\ LeaveArchive
    /\ current' = current + 1
    /\ Goto("batch") /\ UNCHANGED <<inputVars, outputs>>

(* The destructors and the handler remove the joined archive and the       *)
(* staging directory; the page tells the failure and is idle again.        *)
UnwindExtraction ==
    /\ pc = "unwinding"
    /\ LeaveArchive
    /\ Goto("listed") /\ UNCHANGED <<inputVars, current, outputs>>

EndBatch ==
    /\ pc = "batch" /\ current > Archives
    /\ outcome' = "made" /\ pc' = "listed"
    /\ UNCHANGED <<file, inputVars, current, workVars, outputs, cancelled, boundVars>>

-----------------------------------------------------------------------------
Cancel ==
    /\ Busy /\ ~cancelled
    /\ cancelled' = TRUE
    /\ UNCHANGED <<file, inputVars, pc, current, workVars, outputs, outcome, boundVars>>

(* Another program puts something else in an archive's place.              *)
ReplaceFile ==
    /\ replaced < MaxReplacements /\ replaced' = replaced + 1
    /\ \E a \in Archive, c \in Replacements :
          c # file[a] /\ file' = [file EXCEPT ![a] = c]
    /\ UNCHANGED <<inputVars, pc, current, workVars, outputs, outcome, cancelled,
                   operations>>

Worker ==
    \/ OpenPreview \/ Scan \/ List \/ UnwindReading
    \/ SkipArchive \/ StartArchive \/ OpenArchive \/ ReadEntry \/ FinishArchive
    \/ UnwindExtraction \/ EndBatch

Next == ReadArchives \/ ExtractChecked \/ Worker \/ Cancel \/ ReplaceFile

Spec == Init /\ [][Next]_vars

(* The worker thread runs on, and the dispatcher runs what it queues.      *)
FairSpec == Spec /\ WF_vars(Worker)

-----------------------------------------------------------------------------
Contents == Seq(Entry)
TypeOK ==
    /\ file \in [Archive -> Contents \cup {NoFile}]
    /\ listing \in [Archive -> Contents]
    /\ checked \subseteq Rows
    /\ pc \in {"selected", "reading", "scanning", "unread", "listed", "batch",
               "opening", "extracting", "unwinding"}
    /\ current \in 0..(Archives + 1)
    /\ opened \in Contents /\ position \in 0..Len(opened)
    /\ matched \subseteq Seq(Components)
    /\ staged \subseteq [path : Seq(Components) \ {<<>>}, type : {"file", "dir", "link"}]
    /\ outputs \in Seq([archive : Archive, content : Contents,
                        paths : SUBSET Seq(Components)])
    /\ outcome \in {"none", "listed", "made", "failed", "cancelled"}
    /\ {staging, temporary, cancelled} \subseteq BOOLEAN
    /\ operations \in 0..MaxOperations /\ replaced \in 0..MaxReplacements

(* Below a checked entry that is no folder: the page lets it be unchecked, *)
(* the engine takes it along.                                              *)
TakenAlong(a) == Paths(UNION {Below(r) : r \in {q \in CheckedOf(a) : ~IsFolder(q)}})

(* Extracting yields what was checked.  An archive that still holds what   *)
(* the list showed gives exactly the checked entries (and what lies below  *)
(* a checked one that is no folder).  One that was replaced in between     *)
(* gives, for a selection, nothing outside the selected paths, and only if *)
(* each of them was found.                                                 *)
MatchesChecks ==
    \A n \in DOMAIN outputs :
        LET o == outputs[n]  chosen == Selection(o.archive) IN
        IF o.content = listing[o.archive]
        THEN o.paths = chosen \cup TakenAlong(o.archive)
        ELSE Whole(o.archive) \/
             /\ \A p \in o.paths : \E c \in chosen : IsAtOrBelow(p, c)
             /\ \A c \in chosen : \E p \in o.paths : IsAtOrBelow(p, c)

(* Where a name leads, taken step by step from the destination.            *)
Depth(name, n) ==
    Cardinality({k \in 1..n : name[k] \notin {"", ".", ".."}})
        - Cardinality({k \in 1..n : name[k] = ".."})
Escapes(name) ==
    \/ name[1] = "" /\ Len(name) > 1
    \/ \E n \in DOMAIN name : name[n] \in DriveLike \/ Depth(name, n) < 0

(* An archive of which anything was published has no entry that leaves the *)
(* destination, no link that does, no hard link and no special file; not   *)
(* even one that was not selected or came after the selected ones.         *)
NothingUnsafe ==
    \A n \in DOMAIN outputs : \A i \in DOMAIN outputs[n].content :
        LET e == outputs[n].content[i] IN
        /\ ~Escapes(e.name)
        /\ SafePath(e.name) # <<>> =>
              /\ e.type \notin {"hard link", "special"}
              /\ e.type = "link" => ~Escapes(e.target)

(* The archives with checked entries are published in their order, none    *)
(* twice and none left out, and success is told when all are, never with   *)
(* an empty result (the page shows the first output).                      *)
Due == {a \in Archive : CheckedOf(a) # {}}
Done == {outputs[n].archive : n \in DOMAIN outputs}
BatchInOrder ==
    pc \notin {"selected", "reading", "scanning", "unread"} =>
        /\ Done \subseteq Due
        /\ \A m, n \in DOMAIN outputs :
              m < n => outputs[m].archive < outputs[n].archive
        /\ \A a \in Due, b \in Done : a < b => a \in Done
        /\ outcome = "made" => Done = Due /\ outputs # <<>>

(* When the page is idle again, neither a staging directory nor a joined   *)
(* archive is left, whichever archive and step failed.                     *)
CleansUp == ~Busy => ~staging /\ ~temporary

(* A batch that is cancelled while a later archive is due does not end as  *)
(* a success: it ends, and as cancelled or failed.                         *)
CancelEndsBatch ==
    (/\ cancelled /\ pc \in {"batch", "opening", "extracting", "unwinding"}
     /\ \E a \in Archive : a > current /\ CheckedOf(a) # {})
    ~> (pc = "listed" /\ outcome \in {"cancelled", "failed"})
=============================================================================
