-------------------------- MODULE ExtractBatch_proof --------------------------
(***************************************************************************)
(* Proofs about ExtractBatch, for any archives, names and bounds.          *)
(*                                                                         *)
(* That nothing unsafe is published needs what is known of the entries     *)
(* read so far (Vetting) and that a name which is not refused leads        *)
(* nowhere above the destination (SafeNames).  That nothing is left needs  *)
(* to say where private directories may be (Private).                      *)
(***************************************************************************)
EXTENDS ExtractBatch, FiniteSetTheorems, Induction, TLAPS

(* What the steps of a batch rely on: a worker is at one of the archives,  *)
(* and what it has opened is a sequence of entries.                        *)
Ranges ==
    /\ file \in [Archive -> Contents \cup {NoFile}]
    /\ opened \in Contents /\ position \in Nat
    /\ current \in Int
    /\ pc \in {"reading", "batch"} => current >= 1
    /\ pc \in {"scanning", "opening", "extracting"} => current \in Archive
    /\ \E S : outputs \in Seq(S)
    /\ \A n \in 1..Len(outputs) : outputs[n].content \in Contents

(* The first n entries have passed every check of the entry loop.          *)
Vetted(content, n) ==
    \A i \in 1..n :
        /\ ~Unsafe(content[i].name)
        /\ SafePath(content[i].name) # <<>> => ~Refused(content[i])

Vetting ==
    /\ position # 0 => pc \in {"extracting", "unwinding"}
    /\ pc = "extracting" => position <= Len(opened) /\ Vetted(opened, position)
    /\ \A n \in 1..Len(outputs) :
          Vetted(outputs[n].content, Len(outputs[n].content))

(* Private directories exist only while an archive is dealt with.          *)
Private ==
    /\ staging => pc \in {"opening", "extracting", "unwinding"}
    /\ temporary => pc \in {"scanning", "unread", "opening", "extracting", "unwinding"}

-----------------------------------------------------------------------------
(* Names.                                                                  *)

(* A name that safe_relative_path accepts stays below the destination.     *)
LEMMA SafeNames ==
  ASSUME NEW name \in Name, ~Unsafe(name)
  PROVE  ~Escapes(name)
<1>1. name \in Seq(Components) /\ Len(name) \in Nat
  BY DEF Name
<1>2. \A n \in DOMAIN name : name[n] # ".." /\ name[n] \notin DriveLike
  BY DEF Unsafe
<1>3. ASSUME NEW n \in DOMAIN name PROVE ~(Depth(name, n) < 0)
  <2> DEFINE Up   == {k \in 1..n : name[k] = ".."}
             Down == {k \in 1..n : name[k] \notin {"", ".", ".."}}
  <2>1. n \in 1..Len(name) /\ DOMAIN name = 1..Len(name)
    BY <1>1
  <2>2. Up = {}
    BY <1>2, <2>1, SMT
  <2>3. Cardinality(Up) = 0
    BY <2>2, FS_EmptySet, Zenon
  <2>4. n \in Int /\ 1 \in Int
    BY <1>1, <2>1, SMT
  <2>5. IsFiniteSet(1..n)
    BY <2>4, FS_Interval
  <2>6. Cardinality(Down) \in Nat
    <3>1. Down \in SUBSET (1..n)
      BY Zenon
    <3> QED
      BY <2>5, <3>1, FS_Subset, FS_CardinalityType, Zenon
  <2> HIDE DEF Up, Down
  <2>7. Cardinality(Down) - Cardinality(Up) >= 0
    BY <2>3, <2>6, SMT
  <2>8. Depth(name, n) = Cardinality(Down) - Cardinality(Up)
    BY Zenon DEF Depth, Up, Down
  <2> QED
    BY <2>3, <2>6, <2>7, <2>8, SMT
<1> QED
  BY <1>1, <1>2, <1>3 DEF Escapes, Unsafe

(* Entries that were vetted are as NothingUnsafe wants them.               *)
LEMMA VettedIsSafe ==
  ASSUME NEW content \in Contents, Vetted(content, Len(content)),
         NEW i \in DOMAIN content
  PROVE  /\ ~Escapes(content[i].name)
         /\ SafePath(content[i].name) # <<>> =>
               /\ content[i].type \notin {"hard link", "special"}
               /\ content[i].type = "link" => ~Escapes(content[i].target)
<1>1. content[i].name \in Name /\ content[i].target \in Name
  <2>1. content[i] \in Entry
    BY DEF Contents
  <2> QED
    BY <2>1, Zenon DEF Entry
<1>2. i \in 1..Len(content)
  BY DEF Contents
<1>3. /\ ~Unsafe(content[i].name)
      /\ SafePath(content[i].name) # <<>> => ~Refused(content[i])
  BY <1>2, Zenon DEF Vetted
<1>4. ~Escapes(content[i].name)
  BY <1>1, <1>3, SafeNames
<1>5. ASSUME SafePath(content[i].name) # <<>>
      PROVE  /\ content[i].type \notin {"hard link", "special"}
             /\ content[i].type = "link" => ~Escapes(content[i].target)
  <2>1. /\ content[i].type \notin {"hard link", "special"}
        /\ content[i].type = "link" => ~Unsafe(content[i].target)
    BY <1>3, <1>5, Zenon DEF Refused
  <2> QED
    BY <1>1, <2>1, SafeNames
<1> QED
  BY <1>4, <1>5

-----------------------------------------------------------------------------
(* Nothing is open and nothing published.                                  *)
LEMMA Initially == Init => Ranges /\ Vetting /\ Private
<1> SUFFICES ASSUME Init PROVE Ranges /\ Vetting /\ Private
  OBVIOUS
<1>1. /\ pc = "selected" /\ current = 0 /\ outputs = <<>> /\ opened = <<>>
      /\ position = 0 /\ staging = FALSE /\ temporary = FALSE
  BY DEF Init, NothingOpen
<1>2. file \in [Archive -> Contents \cup {NoFile}]
  <2>1. \A a \in Archive : file[a] \in Contents \cup {NoFile}
    BY ArchivesAssumption DEF Init, Contents
  <2> QED
    BY <2>1, Zenon DEF Init
<1>3. opened \in Contents /\ outputs \in Seq({})
  BY <1>1 DEF Contents
<1> QED
  BY <1>1, <1>2, <1>3 DEF Ranges, Vetting, Private

(* An exception moves the page on; the caller may have joined an archive.  *)
LEMMA ThrowKeeps ==
  ASSUME Ranges, Vetting, Private, NEW reason, Throw(reason),
         pc \in {"reading", "scanning", "batch", "opening", "extracting"},
         UNCHANGED <<opened, position, staging>>
  PROVE  Ranges' /\ Vetting' /\ Private'
<1>1. /\ pc \in {"reading", "scanning"} => pc' = "unread"
      /\ pc \in {"batch", "opening", "extracting"} => pc' = "unwinding"
      /\ UNCHANGED <<file, current, outputs>>
  BY DEF Throw, Thrown
<1>2. Ranges'
  BY <1>1 DEF Ranges
<1>3. Vetting'
  <2>1. position # 0 => pc \in {"extracting", "unwinding"}
    BY DEF Vetting
  <2>2. \A n \in 1..Len(outputs) : Vetted(outputs[n].content, Len(outputs[n].content))
    BY DEF Vetting
  <2>3. pc' # "extracting" /\ (position' # 0 => pc' = "unwinding")
    BY <1>1, <2>1
  <2>4. \A n \in 1..Len(outputs') :
           Vetted(outputs[n].content, Len(outputs[n].content))'
    BY <1>1, <2>2, Zenon DEF Vetted
  <2> QED
    BY <2>3, <2>4, Zenon DEF Vetting
<1>4. Private'
  BY <1>1 DEF Private
<1> QED
  BY <1>2, <1>3, <1>4

(* So does a step that publishes nothing and leaves the entry loop alone.  *)
LEMMA ElsewhereKeeps ==
  ASSUME Vetting, pc' # "extracting", position' = 0,
         outputs' = outputs \/ outputs' = <<>>
  PROVE  Vetting'
<1>1. \A n \in 1..Len(outputs) : Vetted(outputs[n].content, Len(outputs[n].content))
  BY DEF Vetting
<1>2. \A n \in 1..Len(outputs') :
         Vetted(outputs[n].content, Len(outputs[n].content))'
  <2>1. CASE outputs' = outputs
    BY <1>1, <2>1, Zenon DEF Vetted
  <2>2. CASE outputs' = <<>>
    BY <2>2
  <2> QED
    BY <2>1, <2>2
<1> QED
  BY <1>2, Zenon DEF Vetting

-----------------------------------------------------------------------------
(* One lemma for the reading of the archives, one for the batch.           *)
LEMMA ReadingKeeps ==
  ASSUME Ranges, Vetting, Private,
         ReadArchives \/ OpenPreview \/ Scan \/ List \/ UnwindReading
  PROVE  Ranges' /\ Vetting' /\ Private'
<1>1. CASE ReadArchives
  <2>1. /\ pc = "selected" /\ pc' = "reading" /\ current' = 1
        /\ UNCHANGED <<file, opened, position, staging, temporary, outputs>>
    BY <1>1 DEF ReadArchives, workVars
  <2>2. position' = 0
    BY <2>1 DEF Vetting
  <2>3. Ranges'
    BY <2>1 DEF Ranges
  <2>4. Vetting'
    BY <2>1, <2>2, ElsewhereKeeps
  <2>5. Private'
    BY <2>1 DEF Private
  <2> QED
    BY <2>3, <2>4, <2>5
<1>2. CASE OpenPreview
  <2>1. pc = "reading" /\ current <= Archives
    BY <1>2 DEF OpenPreview
  <2>2. CASE \E reason : Throw(reason) /\ UNCHANGED <<opened, position, staging>>
    BY <2>1, <2>2, ThrowKeeps
  <2>3. CASE /\ file[current] # NoFile /\ opened' = file[current]
             /\ Goto("scanning")
             /\ UNCHANGED <<position, staging, current, outputs>>
    <3>1. pc' = "scanning" /\ file' = file
      BY <2>3 DEF Goto
    <3>2. current \in Archive
      BY <2>1, ArchivesAssumption DEF Ranges, Archive
    <3>3. opened' \in Contents
      BY <2>3, <3>2 DEF Ranges
    <3>4. Ranges'
      BY <2>3, <3>1, <3>2, <3>3 DEF Ranges
    <3>5. position' = 0
      BY <2>1, <2>3 DEF Vetting
    <3>6. Vetting'
      BY <2>3, <3>1, <3>5, ElsewhereKeeps
    <3>7. Private'
      BY <2>1, <2>3, <3>1 DEF Private
    <3> QED
      BY <3>4, <3>6, <3>7
  <2> QED
    BY <1>2, <2>2, <2>3, Zenon DEF OpenPreview, workVars, inputVars
<1>3. CASE Scan
  <2>1. pc = "scanning"
    BY <1>3 DEF Scan
  <2>2. CASE \E reason : Throw(reason) /\ UNCHANGED workVars
    BY <2>1, <2>2, ThrowKeeps DEF workVars
  <2>3. CASE /\ current' = current + 1 /\ opened' = <<>> /\ temporary' = FALSE
             /\ Goto("reading") /\ UNCHANGED <<position, staging, outputs>>
    <3>1. pc' = "reading" /\ file' = file
      BY <2>3 DEF Goto
    <3>2. Ranges'
      BY <2>1, <2>3, <3>1 DEF Ranges, Contents, Archive
    <3>3. position' = 0
      BY <2>1, <2>3 DEF Vetting
    <3>4. Vetting'
      BY <2>3, <3>1, <3>3, ElsewhereKeeps
    <3>5. Private'
      BY <2>1, <2>3, <3>1 DEF Private
    <3> QED
      BY <3>2, <3>4, <3>5
  <2> QED
    BY <1>3, <2>2, <2>3, Zenon DEF Scan
<1>4. CASE List
  <2>1. /\ pc = "reading" /\ pc' \in {"selected", "listed"}
        /\ UNCHANGED <<file, current, opened, position, staging, temporary,
                       outputs>>
    BY <1>4 DEF List, workVars
  <2>2. position' = 0
    BY <2>1 DEF Vetting
  <2>3. Ranges'
    BY <2>1 DEF Ranges
  <2>4. Vetting'
    BY <2>1, <2>2, ElsewhereKeeps
  <2>5. Private'
    BY <2>1 DEF Private
  <2> QED
    BY <2>3, <2>4, <2>5
<1>5. CASE UnwindReading
  <2>1. /\ pc = "unread" /\ pc' = "selected" /\ temporary' = FALSE
        /\ opened' = <<>>
        /\ UNCHANGED <<file, current, position, staging, outputs>>
    BY <1>5 DEF UnwindReading, Goto
  <2>2. position' = 0
    BY <2>1 DEF Vetting
  <2>3. Ranges'
    BY <2>1 DEF Ranges, Contents
  <2>4. Vetting'
    BY <2>1, <2>2, ElsewhereKeeps
  <2>5. Private'
    BY <2>1 DEF Private
  <2> QED
    BY <2>3, <2>4, <2>5
<1> QED
  BY <1>1, <1>2, <1>3, <1>4, <1>5

(* The batch up to the first entry of an archive.                          *)
LEMMA StartingKeeps ==
  ASSUME Ranges, Vetting, Private,
         ExtractChecked \/ SkipArchive \/ StartArchive \/ OpenArchive
  PROVE  Ranges' /\ Vetting' /\ Private'
<1>1. CASE ExtractChecked
  <2>1. /\ pc = "listed" /\ pc' = "batch" /\ current' = 1 /\ outputs' = <<>>
        /\ UNCHANGED <<file, opened, position, staging, temporary>>
    BY <1>1 DEF ExtractChecked, workVars
  <2>2. position' = 0
    BY <2>1 DEF Vetting
  <2>3. outputs' \in Seq({}) /\ Len(outputs') = 0
    BY <2>1
  <2>4. Ranges'
    BY <2>1, <2>3 DEF Ranges
  <2>5. Vetting'
    BY <2>1, <2>2, ElsewhereKeeps
  <2>6. Private'
    BY <2>1 DEF Private
  <2> QED
    BY <2>4, <2>5, <2>6
<1>2. CASE SkipArchive
  <2>1. /\ pc = "batch" /\ pc' = "batch" /\ current' = current + 1
        /\ UNCHANGED <<file, opened, position, staging, temporary, outputs>>
    BY <1>2 DEF SkipArchive, Goto, workVars
  <2>2. position' = 0
    BY <2>1 DEF Vetting
  <2>3. Ranges'
    BY <2>1 DEF Ranges
  <2>4. Vetting'
    BY <2>1, <2>2, ElsewhereKeeps
  <2>5. Private'
    BY <2>1 DEF Private
  <2> QED
    BY <2>3, <2>4, <2>5
<1>3. CASE StartArchive
  <2>1. pc = "batch" /\ current <= Archives
    BY <1>3 DEF StartArchive
  <2>2. CASE \E reason : Throw(reason) /\ UNCHANGED <<opened, position, staging>>
    BY <2>1, <2>2, ThrowKeeps
  <2>3. CASE /\ staging' = TRUE /\ Goto("opening")
             /\ UNCHANGED <<opened, position, temporary, current, outputs>>
    <3>1. pc' = "opening" /\ file' = file
      BY <2>3 DEF Goto
    <3>2. current \in Archive
      BY <2>1, ArchivesAssumption DEF Ranges, Archive
    <3>3. Ranges'
      BY <2>3, <3>1, <3>2 DEF Ranges
    <3>4. position' = 0
      BY <2>1, <2>3 DEF Vetting
    <3>5. Vetting'
      BY <2>3, <3>1, <3>4, ElsewhereKeeps
    <3>6. Private'
      BY <3>1 DEF Private
    <3> QED
      BY <3>3, <3>5, <3>6
  <2> QED
    BY <1>3, <2>2, <2>3, Zenon DEF StartArchive, workVars, inputVars
<1>4. CASE OpenArchive
  <2>1. pc = "opening"
    BY <1>4 DEF OpenArchive
  <2>2. CASE \E reason : Throw(reason) /\ UNCHANGED <<opened, position, staging>>
    BY <2>1, <2>2, ThrowKeeps
  <2>3. CASE /\ file[current] # NoFile /\ opened' = file[current]
             /\ Goto("extracting")
             /\ UNCHANGED <<position, staging, current, outputs>>
    <3>1. pc' = "extracting" /\ file' = file
      BY <2>3 DEF Goto
    <3>2. opened' \in Contents
      BY <2>1, <2>3 DEF Ranges
    <3>3. Ranges'
      BY <2>1, <2>3, <3>1, <3>2 DEF Ranges
    <3>4. position' = 0
      BY <2>1, <2>3 DEF Vetting
    <3>5. position' <= Len(opened') /\ Vetted(opened, position)'
      BY <3>2, <3>4 DEF Vetted, Contents
    <3>6. \A n \in 1..Len(outputs') :
             Vetted(outputs[n].content, Len(outputs[n].content))'
      BY <2>3, Zenon DEF Vetting, Vetted
    <3>7. Vetting'
      BY <3>4, <3>5, <3>6, Zenon DEF Vetting
    <3>8. Private'
      BY <3>1 DEF Private
    <3> QED
      BY <3>3, <3>7, <3>8
  <2> QED
    BY <1>4, <2>2, <2>3, Zenon DEF OpenArchive, inputVars
<1> QED
  BY <1>1, <1>2, <1>3, <1>4

(* One entry more has passed the checks, whether it was selected or not.   *)
LEMMA ReadEntryKeeps ==
  ASSUME Ranges, Vetting, Private, ReadEntry
  PROVE  Ranges' /\ Vetting' /\ Private'
<1>1. /\ pc = "extracting" /\ position < Len(opened)
      /\ UNCHANGED <<opened, staging, temporary>>
  BY DEF ReadEntry
<1>2. CASE \E reason : Throw(reason) /\ UNCHANGED position
  BY <1>1, <1>2, ThrowKeeps
<1>3. CASE /\ ~Unsafe(opened[position + 1].name)
           /\ SafePath(opened[position + 1].name) # <<>> =>
                 ~Refused(opened[position + 1])
           /\ position' = position + 1
           /\ Goto("extracting") /\ UNCHANGED <<current, outputs>>
  <2>1. pc' = "extracting" /\ file' = file
    BY <1>3 DEF Goto
  <2>2. opened \in Contents /\ position \in Nat /\ Len(opened) \in Nat
    BY DEF Ranges, Contents
  <2>3. Ranges'
    BY <1>1, <1>3, <2>1 DEF Ranges
  <2>4. Vetted(opened, position)
    BY <1>1 DEF Vetting
  <2>5. Vetted(opened, position)'
    <3>1. ASSUME NEW i \in 1..position'
          PROVE  /\ ~Unsafe(opened[i].name)
                 /\ SafePath(opened[i].name) # <<>> => ~Refused(opened[i])
      <4>1. i \in 1..position \/ i = position + 1
        BY <1>3, <2>2
      <4> QED
        BY <1>3, <2>4, <4>1, Zenon DEF Vetted
    <3> QED
      BY <1>1, <3>1, Zenon DEF Vetted
  <2>6. position' <= Len(opened')
    BY <1>1, <1>3, <2>2
  <2>7. \A n \in 1..Len(outputs') :
           Vetted(outputs[n].content, Len(outputs[n].content))'
    BY <1>3, Zenon DEF Vetting, Vetted
  <2>8. Vetting'
    BY <2>1, <2>5, <2>6, <2>7, Zenon DEF Vetting
  <2>9. Private'
    BY <2>1 DEF Private
  <2> QED
    BY <2>3, <2>8, <2>9
<1> QED
  BY <1>2, <1>3, Zenon DEF ReadEntry, inputVars

(* At the end of an archive all of its entries have passed.                *)
LEMMA FinishArchiveKeeps ==
  ASSUME Ranges, Vetting, Private, FinishArchive
  PROVE  Ranges' /\ Vetting' /\ Private'
<1>1. pc = "extracting" /\ position = Len(opened)
  BY DEF FinishArchive
<1>2. CASE \E reason : Throw(reason) /\ UNCHANGED workVars
  BY <1>1, <1>2, ThrowKeeps DEF workVars
<1>3. CASE /\ outputs' = Append(outputs, Published)
           /\ current' = current + 1 /\ LeaveArchive /\ Goto("batch")
  <2>1. /\ pc' = "batch" /\ file' = file /\ opened' = <<>> /\ position' = 0
        /\ staging' = FALSE /\ temporary' = FALSE
    BY <1>3 DEF Goto, LeaveArchive
  <2>2. PICK S : outputs \in Seq(S)
    BY DEF Ranges
  <2> DEFINE last == Published
  <2>3. last.content = opened
    BY DEF Published
  <2> HIDE DEF last
  <2>4. /\ outputs' \in Seq(S \cup {last})
        /\ Len(outputs') = Len(outputs) + 1 /\ Len(outputs) \in Nat
        /\ \A n \in 1..Len(outputs) : outputs'[n] = outputs[n]
        /\ outputs'[Len(outputs) + 1] = last
    <3>1. outputs' = Append(outputs, last)
      BY <1>3 DEF last
    <3>2. outputs \in Seq(S \cup {last}) /\ last \in S \cup {last}
      BY <2>2
    <3> QED
      BY <3>1, <3>2
  <2>5. \A n \in 1..Len(outputs') : n \in 1..Len(outputs) \/ n = Len(outputs) + 1
    BY <2>4
  <2>6. opened \in Contents
    BY DEF Ranges
  <2>7. \A n \in 1..Len(outputs') : outputs'[n].content \in Contents
    <3>1. \A n \in 1..Len(outputs) : outputs[n].content \in Contents
      BY DEF Ranges
    <3> QED
      BY <2>3, <2>4, <2>5, <2>6, <3>1, Zenon
  <2>8. Ranges'
    <3>1. current' \in Int /\ current' >= 1
      BY <1>1, <1>3 DEF Ranges, Archive
    <3>2. opened' \in Contents /\ position' \in Nat
      BY <2>1 DEF Contents
    <3> QED
      BY <2>1, <2>4, <2>7, <3>1, <3>2 DEF Ranges
  <2>9. \A n \in 1..Len(outputs') :
           Vetted(outputs[n].content, Len(outputs[n].content))'
    <3>1. Vetted(opened, Len(opened))
      BY <1>1, Zenon DEF Vetting
    <3>2. \A n \in 1..Len(outputs) :
             Vetted(outputs[n].content, Len(outputs[n].content))
      BY Zenon DEF Vetting
    <3> QED
      BY <2>3, <2>4, <2>5, <3>1, <3>2, Zenon DEF Vetted
  <2>10. Vetting'
    BY <2>1, <2>9, Zenon DEF Vetting
  <2>11. Private'
    BY <2>1 DEF Private
  <2> QED
    BY <2>8, <2>10, <2>11
<1> QED
  BY <1>2, <1>3, Zenon DEF FinishArchive, Total

(* The end of a batch, by an exception or after its last archive.          *)
LEMMA EndingKeeps ==
  ASSUME Ranges, Vetting, Private, UnwindExtraction \/ EndBatch
  PROVE  Ranges' /\ Vetting' /\ Private'
<1>1. CASE UnwindExtraction
  <2>1. /\ pc = "unwinding" /\ pc' = "listed" /\ opened' = <<>>
        /\ position' = 0
        /\ staging' = FALSE /\ temporary' = FALSE
        /\ UNCHANGED <<file, current, outputs>>
    BY <1>1 DEF UnwindExtraction, LeaveArchive, Goto
  <2>2. Ranges'
    BY <2>1 DEF Ranges, Contents
  <2>3. Vetting'
    BY <2>1, ElsewhereKeeps
  <2>4. Private'
    BY <2>1 DEF Private
  <2> QED
    BY <2>2, <2>3, <2>4
<1>2. CASE EndBatch
  <2>1. /\ pc = "batch" /\ pc' = "listed"
        /\ UNCHANGED <<file, current, opened, position, staging, temporary,
                       outputs>>
    BY <1>2 DEF EndBatch, workVars
  <2>2. position' = 0
    BY <2>1 DEF Vetting
  <2>3. Ranges'
    BY <2>1 DEF Ranges
  <2>4. Vetting'
    BY <2>1, <2>2, ElsewhereKeeps
  <2>5. Private'
    BY <2>1 DEF Private
  <2> QED
    BY <2>3, <2>4, <2>5
<1> QED
  BY <1>1, <1>2

(* The user and the other programs reach neither the worker nor what it    *)
(* has opened.                                                             *)
LEMMA OthersKeep ==
  ASSUME Ranges, Vetting, Private, Cancel \/ ReplaceFile \/ UNCHANGED vars
  PROVE  Ranges' /\ Vetting' /\ Private'
<1>1. UNCHANGED <<pc, current, opened, position, staging, temporary, outputs>>
  BY DEF Cancel, ReplaceFile, vars, workVars
<1>2. file' \in [Archive -> Contents \cup {NoFile}]
  <2>1. CASE file' = file
    BY <2>1 DEF Ranges
  <2>2. CASE ReplaceFile
    <3>1. PICK a \in Archive, c \in Replacements : file' = [file EXCEPT ![a] = c]
      BY <2>2, Zenon DEF ReplaceFile
    <3>2. c \in Contents \cup {NoFile}
      BY ArchivesAssumption DEF Contents
    <3> QED
      BY <3>1, <3>2 DEF Ranges
  <2> QED
    BY <2>1, <2>2 DEF Cancel, vars
<1>3. Ranges'
  BY <1>1, <1>2 DEF Ranges
<1>4. Vetting'
  BY <1>1, Zenon DEF Vetting, Vetted
<1>5. Private'
  BY <1>1 DEF Private
<1> QED
  BY <1>3, <1>4, <1>5

-----------------------------------------------------------------------------
(* What the steps rely on holds always: every entry that was read has      *)
(* passed the checks of the entry loop, for any file another program puts  *)
(* in an archive's place.                                                  *)
THEOREM BatchInvariant == Spec => [](Ranges /\ Vetting /\ Private)
<1> DEFINE Inv == Ranges /\ Vetting /\ Private
<1>1. Init => Inv
  BY Initially
<1>2. Inv /\ [Next]_vars => Inv'
  BY ReadingKeeps, StartingKeeps, ReadEntryKeeps, FinishArchiveKeeps,
     EndingKeeps, OthersKeep, Zenon DEF Next, Worker
<1> QED
  BY <1>1, <1>2, PTL DEF Spec

(* NothingUnsafe: nothing is ever published of an archive with an entry or *)
(* a link that leads out of the destination, a hard link or a special      *)
(* file, whatever was selected and whatever replaced the archive.          *)
THEOREM BatchPublishesNothingUnsafe == Spec => []NothingUnsafe
<1>1. Ranges /\ Vetting => NothingUnsafe
  <2> SUFFICES ASSUME Ranges, Vetting, NEW n \in DOMAIN outputs,
                      NEW i \in DOMAIN outputs[n].content
               PROVE  LET e == outputs[n].content[i] IN
                      /\ ~Escapes(e.name)
                      /\ SafePath(e.name) # <<>> =>
                            /\ e.type \notin {"hard link", "special"}
                            /\ e.type = "link" => ~Escapes(e.target)
    BY Zenon DEF NothingUnsafe
  <2>1. n \in 1..Len(outputs)
    BY DEF Ranges
  <2>2. /\ outputs[n].content \in Contents
        /\ Vetted(outputs[n].content, Len(outputs[n].content))
    BY <2>1, Zenon DEF Ranges, Vetting
  <2> QED
    BY <2>2, VettedIsSafe, Zenon
<1> QED
  BY <1>1, BatchInvariant, PTL

(* CleansUp: an idle page has left neither a staging directory nor the     *)
(* directory of a joined archive, whatever failed.                         *)
THEOREM BatchCleansUp == Spec => []CleansUp
<1>1. Private => CleansUp
  BY DEF Private, CleansUp, Busy
<1> QED
  BY <1>1, BatchInvariant, PTL

-----------------------------------------------------------------------------
(* Paths and rows.                                                         *)
Parts(name) ==
    CHOOSE f : f = [n \in 0..Len(name) |->
                      IF n = 0 THEN <<>>
                      ELSE IF Proper(name[n]) THEN Append(f[n - 1], name[n])
                      ELSE f[n - 1]]

(* SafePath is the last turn of that loop.                                 *)
LEMMA SafePathIsLast == \A name : SafePath(name) = Parts(name)[Len(name)]
  BY Zenon DEF SafePath, Parts

(* A path is made of the components of the name.                           *)
LEMMA SafePathType ==
  ASSUME NEW name \in Seq(Components)
  PROVE  SafePath(name) \in Seq(Components)
<1> DEFINE S == Seq(Components)
           step(n, p) == IF Proper(name[n]) THEN Append(p, name[n]) ELSE p
           next == [n \in 1..Len(name) |-> [p \in S |-> step(n, p)]]
           Solves(f) == f = [n \in 0..Len(name) |->
                               IF n = 0 THEN <<>>
                               ELSE IF Proper(name[n]) THEN Append(f[n - 1], name[n])
                               ELSE f[n - 1]]
<1>1. Len(name) \in Nat /\ <<>> \in S
  OBVIOUS
<1>2. \A n \in 1..Len(name), p \in S : step(n, p) \in S
  OBVIOUS
<1>3. \A n \in 1..Len(name), p \in S : next[n][p] = step(n, p)
  OBVIOUS
<1>4. Turns(next, S, Len(name))
  BY <1>2, <1>3, Zenon DEF Turns
<1> HIDE DEF next, S
<1>5. PICK g : Runs(g, S, <<>>, next, Len(name))
  BY <1>1, <1>4, Iterated
<1>6. /\ g \in [0..Len(name) -> S] /\ g[0] = <<>>
      /\ \A n \in 1..Len(name) : g[n] = next[n][g[n - 1]]
  BY <1>5 DEF Runs
<1>7. Solves(g)
  <2>1. ASSUME NEW n \in 0..Len(name)
        PROVE  g[n] = IF n = 0 THEN <<>>
                      ELSE IF Proper(name[n]) THEN Append(g[n - 1], name[n])
                      ELSE g[n - 1]
    <3>1. CASE n = 0
      BY <1>6, <3>1
    <3>2. CASE n # 0
      <4>1. n \in 1..Len(name) /\ n - 1 \in 0..Len(name)
        BY <1>1, <3>2
      <4>2. g[n - 1] \in S
        BY <1>6, <4>1
      <4>3. g[n] = step(n, g[n - 1])
        BY <1>3, <1>6, <4>1, <4>2, Zenon
      <4> QED
        BY <3>2, <4>3
    <3> QED
      BY <3>1, <3>2
  <2> QED
    BY <1>6, <2>1
<1>8. Parts(name) = CHOOSE f : Solves(f)
  BY Zenon DEF Parts
<1>9. Solves(Parts(name))
  BY <1>7, <1>8, Zenon
<1> DEFINE r == Parts(name)
           T == {n \in Nat : n <= Len(name) => r[n] \in S}
<1>10. \A n \in 0..Len(name) : r[n] = IF n = 0 THEN <<>> ELSE step(n, r[n - 1])
  <2> HIDE DEF r
  <2>1. Solves(r)
    BY <1>9, Zenon DEF r
  <2> QED
    BY <2>1
<1> HIDE DEF r
<1>11. ASSUME NEW n \in Nat, \A k \in Nat : k < n => k \in T
       PROVE  n \in T
  <2> SUFFICES ASSUME n <= Len(name) PROVE r[n] \in S
    OBVIOUS
  <2>1. CASE n = 0
    BY <1>1, <1>10, <2>1
  <2>2. CASE n # 0
    <3>1. n - 1 \in Nat /\ n - 1 < n /\ n - 1 <= Len(name) /\ n \in 1..Len(name)
          /\ n \in 0..Len(name)
      BY <1>1, <2>2
    <3>2. r[n - 1] \in S
      BY <1>11, <3>1
    <3>3. r[n] = step(n, r[n - 1])
      BY <1>10, <2>2, <3>1, Zenon
    <3> QED
      BY <1>2, <3>1, <3>2, <3>3, Zenon
  <2> QED
    BY <2>1, <2>2
<1> HIDE DEF T
<1>12. Len(name) \in T
  BY <1>1, <1>11, Induct, Zenon
<1>13. r[Len(name)] \in S
  BY <1>1, <1>12 DEF T
<1> QED
  BY <1>13, SafePathIsLast DEF r, S

(* A row is an archive and one of its listed entries, one with a path.     *)
LEMMA RowFacts ==
  ASSUME NEW r \in Rows
  PROVE  /\ r[1] \in Archive /\ r[2] \in DOMAIN listing[r[1]]
         /\ Path(r[1], r[2]) # <<>> /\ r = <<r[1], r[2]>>
<1>1. PICK a \in Archive : r \in {a} \X {i \in DOMAIN listing[a] : Path(a, i) # <<>>}
  BY Zenon DEF Rows
<1>2. PICK i \in DOMAIN listing[a] : r = <<a, i>> /\ Path(a, i) # <<>>
  BY <1>1
<1> QED
  BY <1>2

(* Every such pair is a row.                                               *)
LEMMA RowsAll ==
  ASSUME NEW a \in Archive, NEW i \in DOMAIN listing[a], Path(a, i) # <<>>
  PROVE  <<a, i>> \in RowsOf(a)
<1>1. <<a, i>> \in {a} \X {j \in DOMAIN listing[a] : Path(a, j) # <<>>}
  OBVIOUS
<1>2. <<a, i>> \in Rows
  BY <1>1, Zenon DEF Rows
<1> QED
  BY <1>2 DEF RowsOf

(* What rows and selections are depends on the list and the checks only.   *)
LEMMA SameRows == listing' = listing => Rows' = Rows
<1> DEFINE R(list) == UNION {{a} \X {i \in DOMAIN list[a] : SafePath(list[a][i].name) # <<>>}
                              : a \in Archive}
<1>1. Rows = R(listing) /\ Rows' = R(listing')
  BY Zenon DEF Rows, Path
<1> HIDE DEF R
<1> QED
  BY <1>1, Zenon

(* So does what is checked, for each archive.                              *)
LEMMA SameChecks ==
  ASSUME listing' = listing, checked' = checked
  PROVE  \A a : /\ CheckedOf(a)' = CheckedOf(a) /\ RowsOf(a)' = RowsOf(a)
                /\ Selection(a)' = Selection(a) /\ Whole(a)' = Whole(a)
  BY SameRows, Zenon DEF CheckedOf, RowsOf, Selection, Paths, Path, Whole

(* A listed entry has a path of components, a selection is a set of them.  *)
LEMMA PathType ==
  ASSUME listing \in [Archive -> Contents], NEW a \in Archive,
         NEW i \in DOMAIN listing[a]
  PROVE  Path(a, i) \in Seq(Components)
<1>1. listing[a] \in Seq(Entry)
  BY DEF Contents
<1>2. listing[a][i] \in Entry
  BY <1>1
<1>3. listing[a][i].name \in Seq(Components)
  BY <1>2, Zenon DEF Entry, Name
<1> QED
  BY <1>3, SafePathType DEF Path

(* A selection is a set of paths that are not empty.                       *)
LEMMA SelectionType ==
  ASSUME listing \in [Archive -> Contents], NEW a
  PROVE  Selection(a) \subseteq Seq(Components) \ {<<>>}
<1> SUFFICES ASSUME NEW r \in Rows
             PROVE  Path(r[1], r[2]) \in Seq(Components) \ {<<>>}
  BY Zenon DEF Selection, Paths, CheckedOf, RowsOf
<1> QED
  BY RowFacts, PathType

-----------------------------------------------------------------------------
(* Types.  Before a list is there, nothing is checked and nothing of a     *)
(* batch exists; entries are staged while an archive is extracted only.    *)
Unlisted == {"selected", "reading", "scanning", "unread"}
Fresh == pc \in Unlisted => checked = {} /\ outputs = <<>>
Bare  == pc \notin {"extracting", "unwinding"} => staged = {} /\ matched = {}

Typed == TypeOK /\ Fresh /\ Bare

(* The bounds are numbers.                                                 *)
LEMMA Bounds == /\ Archives \in Nat /\ Archives >= 1
                /\ MaxOperations \in Nat /\ MaxReplacements \in Nat
<1>1. Archives \in Nat \ {0}
  BY ArchivesAssumption, Zenon
<1>2. MaxOperations \in Nat /\ MaxReplacements \in Nat
  BY NamesAssumption, Zenon
<1> QED
  BY <1>1, <1>2

(* The types hold at the beginning.                                        *)
LEMMA TypedAtFirst == Init => Typed
<1> SUFFICES ASSUME Init PROVE Typed
  OBVIOUS
<1>1. Init /\ Ranges
  BY Initially
<1>2. /\ listing \in [Archive -> Contents]
      /\ outputs \in Seq([archive : Archive, content : Contents,
                           paths : SUBSET Seq(Components)])
  BY DEF Init, Contents
<1>3. /\ pc = "selected" /\ current = 0 /\ outputs = <<>> /\ opened = <<>>
      /\ checked = {}
      /\ position = 0 /\ staged = {} /\ matched = {} /\ staging = FALSE
      /\ temporary = FALSE
      /\ outcome = "none" /\ cancelled = FALSE /\ operations = 0
      /\ replaced = 0
  BY DEF Init, NothingOpen
<1>4. opened \in Contents /\ Len(opened) = 0
  BY <1>3 DEF Contents
<1>5. 0 \in 0..(Archives + 1) /\ 0 \in 0..MaxOperations /\ 0 \in 0..MaxReplacements
  BY Bounds
<1>6. TypeOK
  <2>1. file \in [Archive -> Contents \cup {NoFile}]
    BY <1>1 DEF Ranges
  <2>2. checked \subseteq Rows /\ matched \subseteq Seq(Components)
        /\ staged \subseteq [path : Seq(Components) \ {<<>>}, type : {"file", "dir", "link"}]
    BY <1>3, Zenon
  <2>3. {staging, temporary, cancelled} \subseteq BOOLEAN
    BY <1>3
  <2>4. current \in 0..(Archives + 1) /\ position \in 0..Len(opened)
        /\ operations \in 0..MaxOperations /\ replaced \in 0..MaxReplacements
    BY <1>3, <1>4, <1>5
  <2> QED
    BY <1>2, <1>3, <1>4, <2>1, <2>2, <2>3, <2>4, Zenon DEF TypeOK
<1> QED
  BY <1>3, <1>6 DEF Typed, Fresh, Bare, Unlisted

(* An exception stages nothing.                                            *)
LEMMA ThrowTyped ==
  ASSUME Typed, Ranges, NEW reason, Throw(reason), reason \in {"failed", "cancelled"},
         pc \in {"reading", "scanning", "batch", "opening", "extracting"},
         UNCHANGED <<opened, position, staged, matched, staging>>,
         temporary' \in BOOLEAN
  PROVE  Typed'
<1>1. /\ pc \in {"reading", "scanning"} => pc' = "unread"
      /\ pc \in {"batch", "opening", "extracting"} => pc' = "unwinding"
      /\ outcome' = reason
      /\ UNCHANGED <<file, listing, checked, current, outputs, cancelled,
                     operations, replaced>>
  BY DEF Throw, Thrown, inputVars, boundVars
<1>2. Rows' = Rows
  BY <1>1, SameRows
<1>3. TypeOK'
  BY <1>1, <1>2 DEF TypeOK, Typed
<1>4. Fresh' /\ Bare'
  BY <1>1 DEF Typed, Fresh, Bare, Unlisted
<1> QED
  BY <1>3, <1>4 DEF Typed

(* Reading the archives changes the list only while nothing is checked.    *)
LEMMA ReadingTyped ==
  ASSUME Typed, Ranges, Vetting,
         ReadArchives \/ OpenPreview \/ Scan \/ List \/ UnwindReading
  PROVE  Typed'
<1> USE DEF workVars, inputVars, boundVars
<1>0. pc \in {"selected", "reading", "scanning", "unread"} => position = 0
  BY DEF Vetting
<1>1. CASE ReadArchives
  <2>1. /\ pc = "selected" /\ operations < MaxOperations
        /\ operations' = operations + 1
        /\ pc' = "reading" /\ current' = 1 /\ outcome' = "none"
        /\ cancelled' = FALSE
        /\ UNCHANGED <<file, listing, checked, opened, position, staged,
                       matched, staging,
                       temporary, outputs, replaced>>
    BY <1>1 DEF ReadArchives
  <2>2. Rows' = Rows
    BY <2>1, SameRows
  <2>3. operations' \in 0..MaxOperations /\ current' \in 0..(Archives + 1)
    <3>1. operations \in 0..MaxOperations
      BY DEF Typed, TypeOK
    <3> QED
      BY <2>1, <3>1, Bounds
  <2>4. TypeOK'
    BY <2>1, <2>2, <2>3 DEF TypeOK, Typed
  <2>5. Fresh' /\ Bare'
    BY <2>1 DEF Typed, Fresh, Bare, Unlisted
  <2> QED
    BY <2>4, <2>5 DEF Typed
<1>2. CASE OpenPreview
  <2>1. pc = "reading" /\ current <= Archives
    BY <1>2 DEF OpenPreview
  <2>2. CASE /\ \E reason \in {"failed", "cancelled"} : Throw(reason)
             /\ UNCHANGED <<opened, position, staged, matched, staging>>
             /\ temporary' = temporary \/ temporary' = (current \in Split)
    <3>1. temporary' \in BOOLEAN
      <4>1. temporary \in BOOLEAN /\ (current \in Split) \in BOOLEAN
        BY DEF Typed, TypeOK
      <4> QED
        BY <2>2, <4>1
    <3> QED
      BY <2>1, <2>2, <3>1, ThrowTyped
  <2>3. CASE /\ file[current] # NoFile /\ opened' = file[current]
             /\ Goto("scanning") /\ temporary' = (current \in Split)
             /\ UNCHANGED <<listing, checked, position, staged, matched,
                            staging, current, outputs>>
    <3>1. /\ pc' = "scanning" /\ file' = file
          /\ UNCHANGED <<outcome, cancelled, operations, replaced>>
      BY <2>3 DEF Goto
    <3>2. current \in Archive
      BY <2>1, ArchivesAssumption DEF Ranges, Archive
    <3>3. opened' \in Contents
      BY <2>3, <3>2 DEF Ranges
    <3>4. temporary' \in BOOLEAN
      BY <2>3
    <3>5. Rows' = Rows
      BY <2>3, SameRows
    <3>6. position' \in 0..Len(opened)'
      BY <1>0, <2>1, <2>3, <3>3 DEF Contents
    <3>7. TypeOK'
      BY <2>3, <3>1, <3>3, <3>4, <3>5, <3>6 DEF TypeOK, Typed
    <3>8. Fresh' /\ Bare'
      BY <2>1, <2>3, <3>1 DEF Typed, Fresh, Bare, Unlisted
    <3> QED
      BY <3>7, <3>8 DEF Typed
  <2> QED
    BY <1>2, <2>2, <2>3, Zenon DEF OpenPreview
<1>3. CASE Scan
  <2>1. pc = "scanning" /\ current \in Archive
    BY <1>3 DEF Scan, Ranges
  <2>2. CASE (\E reason \in {"failed", "cancelled"} : Throw(reason)) /\ UNCHANGED workVars
    <3>1. temporary' \in BOOLEAN
      BY <2>2 DEF Typed, TypeOK
    <3> QED
      BY <2>1, <2>2, <3>1, ThrowTyped
  <2>3. CASE /\ listing' = [listing EXCEPT ![current] = opened]
             /\ current' = current + 1 /\ opened' = <<>> /\ temporary' = FALSE
             /\ Goto("reading")
             /\ UNCHANGED <<checked, position, staged, matched, staging,
                            outputs>>
    <3>1. /\ pc' = "reading" /\ file' = file
          /\ UNCHANGED <<outcome, cancelled, operations, replaced>>
      BY <2>3 DEF Goto
    <3>2. listing' \in [Archive -> Contents]
      BY <2>1, <2>3 DEF Typed, TypeOK
    <3>3. checked' = {} /\ outputs' = <<>>
      BY <2>1, <2>3 DEF Typed, Fresh, Unlisted
    <3>4. position' \in 0..Len(opened)' /\ opened' \in Contents
      BY <1>0, <2>1, <2>3 DEF Contents
    <3>5. current' \in 0..(Archives + 1)
      BY <2>1, <2>3, ArchivesAssumption DEF Archive
    <3>6. TypeOK'
      BY <2>3, <3>1, <3>2, <3>3, <3>4, <3>5 DEF TypeOK, Typed
    <3>7. Fresh' /\ Bare'
      BY <2>1, <2>3, <3>1, <3>3 DEF Typed, Fresh, Bare, Unlisted
    <3> QED
      BY <3>6, <3>7 DEF Typed
  <2> QED
    BY <1>3, <2>2, <2>3, Zenon DEF Scan
<1>4. CASE List
  <2>1. /\ pc = "reading"
        /\ UNCHANGED <<file, current, opened, position, staged, matched,
                       staging, temporary,
                       outputs, cancelled, operations, replaced>>
    BY <1>4 DEF List
  <2>2. CASE /\ outcome' = "cancelled" /\ pc' = "selected"
             /\ listing' = [a \in Archive |-> <<>>] /\ checked' = checked
    <3>1. listing' \in [Archive -> Contents]
      BY <2>2 DEF Contents
    <3>2. checked' = {} /\ outputs' = <<>>
      BY <2>1, <2>2 DEF Typed, Fresh, Unlisted
    <3>3. TypeOK'
      BY <2>1, <2>2, <3>1, <3>2 DEF TypeOK, Typed
    <3>4. Fresh' /\ Bare'
      BY <2>1, <2>2, <3>2 DEF Typed, Fresh, Bare, Unlisted
    <3> QED
      BY <3>3, <3>4 DEF Typed
  <2>3. CASE /\ outcome' = "listed" /\ pc' = "listed"
             /\ checked' = Rows /\ listing' = listing
    <3>1. Rows' = Rows
      BY <2>3, SameRows
    <3>2. TypeOK'
      BY <2>1, <2>3, <3>1 DEF TypeOK, Typed
    <3>3. Fresh' /\ Bare'
      BY <2>1, <2>3 DEF Typed, Fresh, Bare, Unlisted
    <3> QED
      BY <3>2, <3>3 DEF Typed
  <2> QED
    BY <1>4, <2>2, <2>3, Zenon DEF List
<1>5. CASE UnwindReading
  <2>1. /\ pc = "unread" /\ pc' = "selected" /\ temporary' = FALSE
        /\ opened' = <<>>
        /\ listing' = [a \in Archive |-> <<>>]
        /\ UNCHANGED <<file, checked, current, position, staged, matched,
                       staging, outputs,
                       outcome, cancelled, operations, replaced>>
    BY <1>5 DEF UnwindReading, Goto
  <2>2. listing' \in [Archive -> Contents]
    BY <2>1 DEF Contents
  <2>3. checked' = {} /\ outputs' = <<>>
    BY <2>1 DEF Typed, Fresh, Unlisted
  <2>4. position' \in 0..Len(opened)' /\ opened' \in Contents
    BY <1>0, <2>1 DEF Contents
  <2>5. TypeOK'
    BY <2>1, <2>2, <2>3, <2>4 DEF TypeOK, Typed
  <2>6. Fresh' /\ Bare'
    BY <2>1, <2>3 DEF Typed, Fresh, Bare, Unlisted
  <2> QED
    BY <2>5, <2>6 DEF Typed
<1> QED
  BY <1>1, <1>2, <1>3, <1>4, <1>5

(* A batch starts with checked rows, an archive with what its file holds.  *)
LEMMA StartingTyped ==
  ASSUME Typed, Ranges, Vetting,
         ExtractChecked \/ SkipArchive \/ StartArchive \/ OpenArchive
  PROVE  Typed'
<1> USE DEF workVars, inputVars, boundVars
<1>0. pc \in {"listed", "batch", "opening"} => position = 0
  BY DEF Vetting
<1>1. CASE ExtractChecked
  <2>1. /\ pc = "listed" /\ operations < MaxOperations
        /\ operations' = operations + 1
        /\ pc' = "batch" /\ current' = 1 /\ outputs' = <<>>
        /\ outcome' = "none"
        /\ cancelled' = FALSE /\ checked' \subseteq Rows
        /\ UNCHANGED <<file, listing, opened, position, staged, matched,
                       staging,
                       temporary, replaced>>
    BY <1>1 DEF ExtractChecked
  <2>2. Rows' = Rows
    BY <2>1, SameRows
  <2>3. outputs' \in Seq([archive : Archive, content : Contents,
                          paths : SUBSET Seq(Components)])
    BY <2>1
  <2>4. operations' \in 0..MaxOperations /\ current' \in 0..(Archives + 1)
    <3>1. operations \in 0..MaxOperations
      BY DEF Typed, TypeOK
    <3> QED
      BY <2>1, <3>1, Bounds
  <2>5. TypeOK'
    BY <2>1, <2>2, <2>3, <2>4 DEF TypeOK, Typed
  <2>6. Fresh' /\ Bare'
    BY <2>1 DEF Typed, Fresh, Bare, Unlisted
  <2> QED
    BY <2>5, <2>6 DEF Typed
<1>2. CASE SkipArchive
  <2>1. /\ pc = "batch" /\ pc' = "batch" /\ current <= Archives
        /\ current' = current + 1
        /\ UNCHANGED <<file, listing, checked, opened, position, staged,
                       matched, staging,
                       temporary, outputs, outcome, cancelled, operations, replaced>>
    BY <1>2 DEF SkipArchive, Goto
  <2>2. Rows' = Rows
    BY <2>1, SameRows
  <2>3. current' \in 0..(Archives + 1)
    BY <2>1, ArchivesAssumption DEF Typed, TypeOK
  <2>4. TypeOK'
    BY <2>1, <2>2, <2>3 DEF TypeOK, Typed
  <2>5. Fresh' /\ Bare'
    BY <2>1 DEF Typed, Fresh, Bare, Unlisted
  <2> QED
    BY <2>4, <2>5 DEF Typed
<1>3. CASE StartArchive
  <2>1. pc = "batch" /\ current <= Archives
    BY <1>3 DEF StartArchive
  <2>2. CASE /\ \E reason \in {"failed", "cancelled"} : Throw(reason)
             /\ UNCHANGED <<opened, position, staged, matched, staging,
                            temporary>>
    <3>1. temporary' \in BOOLEAN
      BY <2>2 DEF Typed, TypeOK
    <3> QED
      BY <2>1, <2>2, <3>1, ThrowTyped
  <2>3. CASE /\ staging' = TRUE /\ Goto("opening")
             /\ UNCHANGED <<listing, checked, opened, position, staged,
                            matched, temporary,
                            current, outputs>>
    <3>1. /\ pc' = "opening" /\ file' = file
          /\ UNCHANGED <<outcome, cancelled, operations, replaced>>
      BY <2>3 DEF Goto
    <3>2. Rows' = Rows
      BY <2>3, SameRows
    <3>3. TypeOK'
      BY <2>3, <3>1, <3>2 DEF TypeOK, Typed
    <3>4. Fresh' /\ Bare'
      BY <2>1, <2>3, <3>1 DEF Typed, Fresh, Bare, Unlisted
    <3> QED
      BY <3>3, <3>4 DEF Typed
  <2> QED
    BY <1>3, <2>2, <2>3, Zenon DEF StartArchive
<1>4. CASE OpenArchive
  <2>1. pc = "opening" /\ current \in Archive
    BY <1>4 DEF OpenArchive, Ranges
  <2>2. temporary' \in BOOLEAN
    BY <1>4, Zenon DEF OpenArchive
  <2>3. CASE /\ \E reason \in {"failed", "cancelled"} : Throw(reason)
             /\ UNCHANGED <<opened, position, staged, matched, staging>>
    BY <2>1, <2>2, <2>3, ThrowTyped
  <2>4. CASE /\ file[current] # NoFile /\ opened' = file[current]
             /\ Goto("extracting")
             /\ UNCHANGED <<listing, checked, position, staged, matched,
                            staging, current, outputs>>
    <3>1. /\ pc' = "extracting" /\ file' = file
          /\ UNCHANGED <<outcome, cancelled, operations, replaced>>
      BY <2>4 DEF Goto
    <3>2. opened' \in Contents
      BY <2>1, <2>4 DEF Ranges
    <3>3. Rows' = Rows
      BY <2>4, SameRows
    <3>4. position' \in 0..Len(opened)'
      BY <1>0, <2>1, <2>4, <3>2 DEF Contents
    <3>5. TypeOK'
      BY <2>2, <2>4, <3>1, <3>2, <3>3, <3>4 DEF TypeOK, Typed
    <3>6. Fresh' /\ Bare'
      BY <2>1, <2>4, <3>1 DEF Typed, Fresh, Bare, Unlisted
    <3> QED
      BY <3>5, <3>6 DEF Typed
  <2> QED
    BY <1>4, <2>3, <2>4, Zenon DEF OpenArchive
<1> QED
  BY <1>1, <1>2, <1>3, <1>4

(* What an entry stages has a path and one of the three types.             *)
LEMMA StagedType ==
  ASSUME NEW e \in Entry, SafePath(e.name) # <<>>, ~Refused(e),
         NEW type \in {e.type, "dir"}
  PROVE  [path |-> SafePath(e.name), type |-> type]
            \in [path : Seq(Components) \ {<<>>}, type : {"file", "dir", "link"}]
<1>1. e.name \in Seq(Components)
  BY Zenon DEF Entry, Name
<1>2. e.type \in {"file", "dir", "link", "hard link", "special"}
  BY Zenon DEF Entry
<1>3. type \in {"file", "dir", "link"}
  BY <1>2 DEF Refused
<1>4. SafePath(e.name) \in Seq(Components) \ {<<>>}
  BY <1>1, SafePathType
<1> QED
  BY <1>3, <1>4

(* Where something was written or passed over.                             *)
StagedPaths == {s.path : s \in staged}

(* After an entry something stands where it stood before and at the path   *)
(* of the entry.                                                           *)
LEMMA EntryWritten ==
  ASSUME NEW path, NEW type, WriteEntry(path, type)
  PROVE  /\ StagedPaths' = StagedPaths \cup {path}
         /\ \A s \in staged' : \/ s \in staged
                             \/ s = [path |-> path, type |-> type]
                             \/ s = [path |-> path, type |-> "dir"]
<1> DEFINE there == {s \in staged : s.path = path}
           below == {s \in staged : IsAtOrBelow(s.path, path)} \ there
           new == [path |-> path, type |-> IF below = {} THEN type ELSE "dir"]
<1>1. \/ there # {} /\ staged' = staged
      \/ staged' = (staged \ there) \cup {new}
  BY Zenon DEF WriteEntry
<1>2. /\ new.path = path
      /\ \/ new = [path |-> path, type |-> type]
         \/ new = [path |-> path, type |-> "dir"]
  <2> HIDE DEF below
  <2> QED
    OBVIOUS
<1>3. \A s : s \in there <=> s \in staged /\ s.path = path
  OBVIOUS
<1> HIDE DEF there, new
<1>4. \A q : q \in StagedPaths <=> \E s \in staged : q = s.path
  BY Zenon DEF StagedPaths
<1>5. \A q : q \in StagedPaths' <=> \E s \in staged' : q = s.path
  BY Zenon DEF StagedPaths
<1>6. CASE there # {} /\ staged' = staged
  <2>1. path \in StagedPaths
    BY <1>3, <1>4, <1>6, Zenon
  <2>2. StagedPaths' = StagedPaths
    BY <1>6, Zenon DEF StagedPaths
  <2> QED
    BY <1>6, <2>1, <2>2, Zenon
<1>7. CASE staged' = (staged \ there) \cup {new}
  <2>1. \A s : s \in staged' <=> (s \in staged /\ s \notin there) \/ s = new
    BY <1>7, Zenon
  <2>2. \A q : q \in StagedPaths' <=> q \in StagedPaths \/ q = path
    BY <1>2, <1>3, <1>4, <1>5, <2>1, Zenon
  <2> QED
    BY <1>2, <2>1, <2>2, Zenon
<1> QED
  BY <1>1, <1>6, <1>7

(* An entry adds a staged record and selected paths, both of their types.  *)
LEMMA ReadEntryTyped ==
  ASSUME Typed, Ranges, Vetting, ReadEntry
  PROVE  Typed'
<1> USE DEF workVars, inputVars, boundVars
<1> DEFINE e == opened[position + 1]
           met == IF Whole(current) THEN {} ELSE Meets(SafePath(e.name))
           new(type) == [path |-> SafePath(e.name), type |-> type]
<1>1. /\ pc = "extracting" /\ position < Len(opened)
      /\ UNCHANGED <<opened, staging, temporary>>
  BY DEF ReadEntry
<1>2. CASE /\ \E reason \in {"failed", "cancelled"} : Throw(reason)
           /\ UNCHANGED <<position, staged, matched>>
  <2>1. temporary' \in BOOLEAN
    BY <1>1 DEF Typed, TypeOK
  <2> QED
    BY <1>1, <1>2, <2>1, ThrowTyped
<1>3. CASE /\ SafePath(e.name) # <<>> => ~Refused(e)
           /\ position' = position + 1 /\ matched' = matched \cup met
           /\ \/ staged' = staged
              \/ SafePath(e.name) # <<>> /\ WriteEntry(SafePath(e.name), e.type)
           /\ Goto("extracting")
           /\ UNCHANGED <<listing, checked, current, outputs>>
  <2>1. e \in Entry
    <3>1. opened \in Seq(Entry) /\ position \in Nat
      BY DEF Ranges, Contents
    <3> QED
      BY <1>1, <3>1
  <2>2. met \subseteq Seq(Components)
    <3>1. Selection(current) \subseteq Seq(Components)
      BY SelectionType DEF Typed, TypeOK
    <3> QED
      BY <3>1, Zenon DEF Meets
  <2>3. staged' \subseteq [path : Seq(Components) \ {<<>>}, type : {"file", "dir", "link"}]
    <3> DEFINE S == [path : Seq(Components) \ {<<>>}, type : {"file", "dir", "link"}]
    <3>1. staged \subseteq S
      BY DEF Typed, TypeOK
    <3>2. SafePath(e.name) # <<>> => new(e.type) \in S /\ new("dir") \in S
      BY <1>3, <2>1, StagedType, Zenon
    <3>3. SafePath(e.name) # <<>> /\ WriteEntry(SafePath(e.name), e.type)
             => \A s \in staged' : s \in staged \/ s = new(e.type) \/ s = new("dir")
      BY EntryWritten, Zenon
    <3> HIDE DEF S, new, e
    <3>4. staged' \subseteq S
      BY <1>3, <3>1, <3>2, <3>3, Zenon
    <3> QED
      BY <3>4 DEF S
  <2>4. matched' \subseteq Seq(Components)
    <3>1. matched \subseteq Seq(Components)
      BY DEF Typed, TypeOK
    <3> QED
      BY <1>3, <2>2, <3>1, Zenon
  <2>5. position' \in 0..Len(opened)' /\ opened' \in Contents
    BY <1>1, <1>3 DEF Ranges, Contents
  <2>6. /\ pc' = "extracting"
        /\ UNCHANGED <<file, listing, checked, current, outputs, outcome,
                       cancelled,
                       operations, replaced>>
    BY <1>3 DEF Goto
  <2>7. Rows' = Rows
    BY <2>6, SameRows
  <2> HIDE DEF e, met, new
  <2>8. TypeOK'
    BY <1>1, <2>3, <2>4, <2>5, <2>6, <2>7 DEF TypeOK, Typed
  <2>9. Fresh' /\ Bare'
    BY <2>6 DEF Fresh, Bare, Unlisted
  <2> QED
    BY <2>8, <2>9 DEF Typed
<1> HIDE DEF e, met, new
<1> QED
  BY <1>2, <1>3, Zenon DEF ReadEntry, e, met

(* A result tells of an archive, its content and a set of paths.           *)
Result == [archive : Archive, content : Contents, paths : SUBSET Seq(Components)]

(* The end of an archive adds a result.                                    *)
LEMMA FinishTyped ==
  ASSUME Typed, Ranges, Vetting, FinishArchive
  PROVE  Typed'
<1> USE DEF workVars, inputVars, boundVars
<1>1. pc = "extracting" /\ position = Len(opened)
  BY DEF FinishArchive
<1>2. CASE (\E reason \in {"failed", "cancelled"} : Throw(reason)) /\ UNCHANGED workVars
  <2>1. temporary' \in BOOLEAN
    BY <1>2 DEF Typed, TypeOK
  <2> QED
    BY <1>1, <1>2, <2>1, ThrowTyped
<1>3. CASE /\ outputs' = Append(outputs, Published)
           /\ current' = current + 1 /\ LeaveArchive /\ Goto("batch")
           /\ UNCHANGED <<listing, checked>>
  <2>1. /\ pc' = "batch" /\ opened' = <<>> /\ position' = 0 /\ staged' = {}
        /\ matched' = {}
        /\ staging' = FALSE /\ temporary' = FALSE
        /\ UNCHANGED <<file, listing, checked, outcome, cancelled,
                       operations, replaced>>
    BY <1>3 DEF Goto, LeaveArchive
  <2>2. Published \in Result
    <3>1. current \in Archive /\ opened \in Contents
      BY <1>1 DEF Ranges
    <3>2. {s.path : s \in staged} \in SUBSET Seq(Components)
      <4>1. \A s \in staged : s.path \in Seq(Components)
        BY DEF Typed, TypeOK
      <4> QED
        BY <4>1, Zenon
    <3> QED
      BY <3>1, <3>2, Zenon DEF Published, Result
  <2>3. outputs' \in Seq(Result)
    <3>1. outputs \in Seq(Result)
      BY Zenon DEF Typed, TypeOK, Result
    <3> HIDE DEF Result
    <3> QED
      BY <1>3, <2>2, <3>1
  <2>4. current' \in 0..(Archives + 1)
    BY <1>1, <1>3, Bounds DEF Ranges, Archive
  <2>5. Rows' = Rows
    BY <2>1, SameRows
  <2>6. position' \in 0..Len(opened)' /\ opened' \in Contents
    BY <2>1 DEF Contents
  <2>7. TypeOK'
    BY <2>1, <2>3, <2>4, <2>5, <2>6 DEF TypeOK, Typed, Result
  <2>8. Fresh' /\ Bare'
    BY <2>1 DEF Fresh, Bare, Unlisted
  <2> QED
    BY <2>7, <2>8 DEF Typed
<1> QED
  BY <1>2, <1>3, Zenon DEF FinishArchive, Total

(* The end of a batch leaves nothing open.                                 *)
LEMMA EndingTyped ==
  ASSUME Typed, Ranges, Vetting, UnwindExtraction \/ EndBatch
  PROVE  Typed'
<1> USE DEF workVars, inputVars, boundVars
<1>1. CASE UnwindExtraction
  <2>1. /\ pc = "unwinding" /\ pc' = "listed" /\ opened' = <<>>
        /\ position' = 0
        /\ staged' = {} /\ matched' = {} /\ staging' = FALSE
        /\ temporary' = FALSE
        /\ UNCHANGED <<file, listing, checked, current, outputs, outcome,
                       cancelled,
                       operations, replaced>>
    BY <1>1 DEF UnwindExtraction, LeaveArchive, Goto
  <2>2. Rows' = Rows
    BY <2>1, SameRows
  <2>3. position' \in 0..Len(opened)' /\ opened' \in Contents
    BY <2>1 DEF Contents
  <2>4. TypeOK'
    BY <2>1, <2>2, <2>3 DEF TypeOK, Typed
  <2>5. Fresh' /\ Bare'
    BY <2>1 DEF Fresh, Bare, Unlisted
  <2> QED
    BY <2>4, <2>5 DEF Typed
<1>2. CASE EndBatch
  <2>1. /\ pc = "batch" /\ pc' = "listed" /\ outcome' = "made"
        /\ UNCHANGED <<file, listing, checked, current, opened, position,
                       staged, matched,
                       staging, temporary, outputs, cancelled, operations, replaced>>
    BY <1>2 DEF EndBatch
  <2>2. Rows' = Rows
    BY <2>1, SameRows
  <2>3. TypeOK'
    BY <2>1, <2>2 DEF TypeOK, Typed
  <2>4. Fresh' /\ Bare'
    BY <2>1 DEF Typed, Fresh, Bare, Unlisted
  <2> QED
    BY <2>3, <2>4 DEF Typed
<1> QED
  BY <1>1, <1>2

(* The user and other programs change only what is theirs.                 *)
LEMMA OthersTyped ==
  ASSUME Typed, Ranges, Vetting, Cancel \/ ReplaceFile \/ UNCHANGED vars
  PROVE  Typed'
<1> USE DEF vars, workVars, inputVars, boundVars
<1>1. UNCHANGED <<pc, listing, checked, current, opened, position, staged, matched, staging,
                  temporary, outputs, outcome, operations>>
  BY DEF Cancel, ReplaceFile
<1>2. file' \in [Archive -> Contents \cup {NoFile}]
  <2>1. CASE file' = file
    BY <2>1 DEF Ranges
  <2>2. CASE ReplaceFile
    <3>1. PICK a \in Archive, c \in Replacements : file' = [file EXCEPT ![a] = c]
      BY <2>2, Zenon DEF ReplaceFile
    <3>2. c \in Contents \cup {NoFile}
      BY ArchivesAssumption DEF Contents
    <3> QED
      BY <3>1, <3>2 DEF Ranges
  <2> QED
    BY <2>1, <2>2 DEF Cancel
<1>3. cancelled' \in BOOLEAN /\ replaced' \in 0..MaxReplacements
  <2>1. cancelled \in BOOLEAN /\ replaced \in 0..MaxReplacements
    BY DEF Typed, TypeOK
  <2>2. \/ UNCHANGED <<cancelled, replaced>>
        \/ cancelled' = TRUE /\ replaced' = replaced
        \/ cancelled' = cancelled /\ replaced < MaxReplacements /\ replaced' = replaced + 1
    BY DEF Cancel, ReplaceFile
  <2>3. cancelled' \in BOOLEAN
    BY <2>1, <2>2, Zenon
  <2>4. replaced' \in 0..MaxReplacements
    <3>1. MaxReplacements \in Nat
      BY Bounds
    <3> QED
      BY <2>1, <2>2, <3>1
  <2> QED
    BY <2>3, <2>4
<1>4. Rows' = Rows
  BY <1>1, SameRows
<1>5. TypeOK'
  BY <1>1, <1>2, <1>3, <1>4 DEF TypeOK, Typed
<1>6. Fresh' /\ Bare'
  BY <1>1 DEF Typed, Fresh, Bare
<1> QED
  BY <1>5, <1>6 DEF Typed

(* TypeOK, and that nothing is checked before there is a list, nothing     *)
(* staged outside the extraction of an archive.                            *)
THEOREM BatchTypesHold == Spec => [](TypeOK /\ Fresh /\ Bare)
<1>1. Init => Typed
  BY TypedAtFirst
<1>2. Typed /\ Ranges /\ Vetting /\ [Next]_vars => Typed'
  BY ReadingTyped, StartingTyped, ReadEntryTyped, FinishTyped, EndingTyped,
     OthersTyped, Zenon DEF Next, Worker
<1>3. Typed => TypeOK /\ Fresh /\ Bare
  BY DEF Typed
<1> QED
  BY <1>1, <1>2, <1>3, BatchInvariant, PTL DEF Spec

-----------------------------------------------------------------------------
(* Order.  While a batch is under way, the archives published so far are   *)
(* those with checked entries before the current one.                      *)
InBatch == {"batch", "opening", "extracting", "unwinding"}

Ascending == \A m, n \in DOMAIN outputs :
                m < n => outputs[m].archive < outputs[n].archive

Progress ==
    /\ outcome = "made" => pc = "listed"
    /\ pc \in InBatch =>
          /\ checked # {}
          /\ Ascending
          /\ Done \subseteq Due /\ \A a \in Done : a < current
          /\ \A a \in Due : a < current => a \in Done
    /\ pc \in {"opening", "extracting"} => current \in Due

Ordered == Progress /\ BatchInOrder

(* Which archives are due depends on the list and the checks only.         *)
LEMMA SameDue ==
  ASSUME listing' = listing, checked' = checked
  PROVE  Due' = Due
<1>1. \A a : CheckedOf(a)' = CheckedOf(a)
  BY SameChecks, Zenon
<1>2. Due' = {a \in Archive : CheckedOf(a)' # {}}
  BY Zenon DEF Due
<1> QED
  BY <1>1, <1>2, Zenon DEF Due

(* What was published, on the results only.                                *)
LEMMA SameBatch ==
  ASSUME listing' = listing, checked' = checked, outputs' = outputs
  PROVE  Due' = Due /\ Done' = Done /\ (Ascending => Ascending')
<1>1. Due' = Due
  BY SameDue
<1>2. Done' = Done
  BY Zenon DEF Done
<1>3. Ascending => Ascending'
  BY Zenon DEF Ascending
<1> QED
  BY <1>1, <1>2, <1>3

(* Before anything is listed there is nothing to keep in order.            *)
LEMMA UnlistedOrdered ==
  ASSUME pc' \in Unlisted, outcome' # "made"
  PROVE  Ordered'
  BY DEF Ordered, Progress, BatchInOrder, Unlisted, InBatch

(* Nor is there before anything is published.                              *)
LEMMA UnpublishedOrdered ==
  ASSUME Ordered, pc' = "listed", outcome' # "made", outputs' = <<>>
  PROVE  Ordered'
<1>1. Done' = {} /\ DOMAIN outputs' = {}
  BY DEF Done
<1> QED
  BY <1>1 DEF Ordered, Progress, BatchInOrder, InBatch

(* A step of a batch that publishes nothing and stays at its archive.      *)
LEMMA StillOrdered ==
  ASSUME Ordered, listing' = listing, checked' = checked, outputs' = outputs,
         current' = current, pc \notin Unlisted,
         pc' \in InBatch => pc \in InBatch,
         pc' \in {"opening", "extracting"} => current \in Due,
         outcome' = "made" => outcome = "made" /\ pc' = pc
  PROVE  Ordered'
<1>1. Due' = Due /\ Done' = Done /\ (Ascending => Ascending')
  BY SameBatch
<1>2. Progress'
  BY <1>1 DEF Ordered, Progress
<1>3. BatchInOrder'
  BY <1>1 DEF Ordered, BatchInOrder, Unlisted, Ascending
<1> QED
  BY <1>2, <1>3 DEF Ordered

(* In a batch, its progress is all that BatchInOrder asks for.             *)
LEMMA ProgressIsOrder ==
  ASSUME pc \in InBatch, Progress, current \in Int
  PROVE  BatchInOrder
<1>1. /\ Ascending /\ Done \subseteq Due /\ \A a \in Done : a < current
      /\ \A a \in Due : a < current => a \in Done
      /\ outcome # "made"
  BY DEF Progress, InBatch
<1>2. ASSUME NEW a \in Due, NEW b \in Done, a < b
      PROVE  a \in Done
  <2>1. a \in Int /\ b \in Int
    BY <1>1, Bounds DEF Due, Archive
  <2>2. a < current
    BY <1>1, <1>2, <2>1
  <2> QED
    BY <1>1, <2>2
<1> QED
  BY <1>1, <1>2, Zenon DEF BatchInOrder, Ascending

(* Nothing is in the wrong order at the beginning.                         *)
LEMMA OrderedAtFirst == Init => Ordered
  BY DEF Init, Ordered, Progress, BatchInOrder, InBatch

(* Reading the archives tells no success, the list begins with no result.  *)
LEMMA ReadingOrdered ==
  ASSUME Ordered, Typed,
         ReadArchives \/ OpenPreview \/ Scan \/ List \/ UnwindReading
  PROVE  Ordered'
<1>0. outcome = "made" => pc = "listed"
  BY DEF Ordered, Progress
<1>1. CASE ReadArchives
  <2>1. pc' = "reading" /\ outcome' = "none"
    BY <1>1 DEF ReadArchives
  <2> QED
    BY <2>1, UnlistedOrdered DEF Unlisted
<1>2. CASE OpenPreview
  <2>1. pc = "reading"
    BY <1>2 DEF OpenPreview
  <2>2. \/ \E reason \in {"failed", "cancelled"} : Throw(reason)
        \/ Goto("scanning")
    BY <1>2, Zenon DEF OpenPreview
  <2>3. pc' \in Unlisted /\ outcome' # "made"
    BY <1>0, <2>1, <2>2 DEF Throw, Thrown, Goto, Unlisted
  <2> QED
    BY <2>3, UnlistedOrdered
<1>3. CASE Scan
  <2>1. pc = "scanning"
    BY <1>3 DEF Scan
  <2>2. (\E reason \in {"failed", "cancelled"} : Throw(reason)) \/ Goto("reading")
    BY <1>3, Zenon DEF Scan
  <2>3. pc' \in Unlisted /\ outcome' # "made"
    BY <1>0, <2>1, <2>2 DEF Throw, Thrown, Goto, Unlisted
  <2> QED
    BY <2>3, UnlistedOrdered
<1>4. CASE List
  <2>1. pc = "reading" /\ outputs' = outputs
    BY <1>4 DEF List
  <2>2. \/ outcome' = "cancelled" /\ pc' = "selected"
        \/ outcome' = "listed" /\ pc' = "listed"
    BY <1>4 DEF List
  <2>3. outputs' = <<>>
    BY <2>1 DEF Typed, Fresh, Unlisted
  <2> QED
    BY <2>2, <2>3, UnlistedOrdered, UnpublishedOrdered DEF Unlisted
<1>5. CASE UnwindReading
  <2>1. pc = "unread" /\ pc' = "selected" /\ outcome' = outcome
    BY <1>5 DEF UnwindReading, Goto
  <2> QED
    BY <1>0, <2>1, UnlistedOrdered DEF Unlisted
<1> QED
  BY <1>1, <1>2, <1>3, <1>4, <1>5

(* An exception, or a step within an archive, publishes nothing.           *)
LEMMA WithinOrdered ==
  ASSUME Ordered, listing' = listing, checked' = checked, outputs' = outputs,
         current' = current, pc \in InBatch, pc' \in InBatch,
         pc' \in {"opening", "extracting"} => current \in Due,
         outcome' \in {outcome, "failed", "cancelled"}
  PROVE  Ordered'
<1>1. outcome # "made" /\ pc \notin Unlisted
  BY DEF Ordered, Progress, InBatch, Unlisted
<1> QED
  BY <1>1, StillOrdered

(* What an exception in a batch leaves alone.                              *)
LEMMA ThrowWithin ==
  ASSUME NEW reason \in {"failed", "cancelled"}, Throw(reason),
         pc \in {"batch", "opening", "extracting"}
  PROVE  /\ UNCHANGED <<listing, checked, outputs, current>>
         /\ pc' \in InBatch \ {"opening", "extracting"}
         /\ outcome' \in {outcome, "failed", "cancelled"}
  BY DEF Throw, Thrown, InBatch, inputVars

(* Steps up to the last entry of an archive publish nothing.               *)
LEMMA InsideOrdered ==
  ASSUME Ordered, Ranges, StartArchive \/ OpenArchive \/ ReadEntry
  PROVE  Ordered'
<1>1. pc \in {"batch", "opening", "extracting"}
  BY DEF StartArchive, OpenArchive, ReadEntry
<1>2. \/ \E reason \in {"failed", "cancelled"} : Throw(reason)
      \/ /\ Goto("opening") \/ Goto("extracting")
         /\ UNCHANGED <<listing, checked, outputs, current>>
  BY Zenon DEF StartArchive, OpenArchive, ReadEntry, inputVars
<1>3. CASE \E reason \in {"failed", "cancelled"} : Throw(reason)
  BY <1>1, <1>3, ThrowWithin, WithinOrdered DEF InBatch
<1>4. CASE /\ Goto("opening") \/ Goto("extracting")
           /\ UNCHANGED <<listing, checked, outputs, current>>
  <2>1. pc' \in InBatch /\ outcome' = outcome
    BY <1>4 DEF Goto, InBatch
  <2>2. current \in Due
    BY Bounds DEF StartArchive, OpenArchive, ReadEntry, Ordered, Progress,
       Ranges, Due, Archive
  <2> QED
    BY <1>1, <1>4, <2>1, <2>2, WithinOrdered DEF InBatch
<1> QED
  BY <1>2, <1>3, <1>4

(* The batch begins before the first archive, with nothing published, and  *)
(* passes over archives of which nothing is checked.                       *)
LEMMA BeginningOrdered ==
  ASSUME Ordered, Typed, ExtractChecked \/ SkipArchive
  PROVE  Ordered'
<1>1. CASE ExtractChecked
  <2>1. /\ pc' = "batch" /\ current' = 1 /\ outputs' = <<>>
        /\ outcome' = "none"
        /\ checked' # {}
    BY <1>1 DEF ExtractChecked
  <2>2. Done' = {} /\ DOMAIN outputs' = {}
    BY <2>1 DEF Done
  <2>3. \A a \in Due' : ~(a < 1)
    BY Bounds DEF Due, Archive
  <2>4. Progress'
    BY <2>1, <2>2, <2>3 DEF Progress, Ascending
  <2>5. BatchInOrder'
    BY <2>1, <2>2 DEF BatchInOrder
  <2> QED
    BY <2>4, <2>5 DEF Ordered
<1>2. CASE SkipArchive
  <2>1. /\ pc = "batch" /\ pc' = "batch" /\ current' = current + 1
        /\ CheckedOf(current) = {}
        /\ UNCHANGED <<listing, checked, outputs, outcome>>
    BY <1>2 DEF SkipArchive, Goto, inputVars
  <2>2. current \in Int /\ current' \in Int
    BY <2>1 DEF Typed, TypeOK
  <2>3. Due' = Due /\ Done' = Done /\ (Ascending => Ascending')
    BY <2>1, SameBatch
  <2>4. Progress
    BY DEF Ordered
  <2>5. current \notin Due
    BY <2>1 DEF Due
  <2>6. ASSUME NEW a \in Due, a < current + 1 PROVE a \in Done
    <3>1. a \in Int
      BY Bounds DEF Due, Archive
    <3>2. a < current
      BY <2>2, <2>5, <2>6, <3>1
    <3> QED
      BY <2>1, <2>4, <3>2 DEF Progress, InBatch
  <2>7. ASSUME NEW a \in Done PROVE a < current + 1
    <3>1. a < current /\ a \in Due
      BY <2>1, <2>4 DEF Progress, InBatch
    <3>2. a \in Int
      BY <3>1, Bounds DEF Due, Archive
    <3> QED
      BY <2>2, <3>1, <3>2
  <2>8. Progress'
    BY <2>1, <2>3, <2>4, <2>6, <2>7 DEF Progress, InBatch
  <2>9. BatchInOrder'
    <3>1. pc \in InBatch /\ Progress /\ current \in Int => BatchInOrder
      BY ProgressIsOrder
    <3>2. (pc \in InBatch /\ Progress /\ current \in Int => BatchInOrder)'
      BY ProgressIsOrder, PTL
    <3> QED
      BY <2>1, <2>2, <2>8, <3>2 DEF InBatch
  <2> QED
    BY <2>8, <2>9 DEF Ordered
<1> QED
  BY <1>1, <1>2

(* Publishing adds the current archive, which has checked entries.         *)
LEMMA FinishOrdered ==
  ASSUME Ordered, Typed, Ranges, FinishArchive
  PROVE  Ordered'
<1>1. pc = "extracting"
  BY DEF FinishArchive
<1>2. CASE \E reason \in {"failed", "cancelled"} : Throw(reason)
  BY <1>1, <1>2, ThrowWithin, WithinOrdered DEF InBatch
<1>3. CASE /\ outputs' = Append(outputs, Published)
           /\ current' = current + 1 /\ Goto("batch")
           /\ UNCHANGED <<listing, checked>>
  <2> DEFINE last == Published
  <2>1. pc' = "batch" /\ outcome' = outcome
    BY <1>3 DEF Goto
  <2>2. last.archive = current
    BY DEF Published
  <2> HIDE DEF last
  <2>3. PICK S : outputs \in Seq(S)
    BY DEF Ranges
  <2>4. /\ DOMAIN outputs' = 1..(Len(outputs) + 1)
        /\ DOMAIN outputs = 1..Len(outputs)
        /\ Len(outputs) \in Nat
        /\ \A n \in DOMAIN outputs : outputs'[n] = outputs[n]
        /\ outputs'[Len(outputs) + 1] = last
    <3>1. outputs' = Append(outputs, last)
      BY <1>3 DEF last
    <3>2. outputs \in Seq(S \cup {last}) /\ last \in S \cup {last}
      BY <2>3
    <3> QED
      BY <3>1, <3>2
  <2>5. current \in Int /\ current' \in Int /\ current \in Due
    BY <1>1, <1>3 DEF Ranges, Ordered, Progress
  <2>6. Due' = Due
    BY <1>3, SameDue
  <2>7. Progress
    BY DEF Ordered
  <2>8. ASSUME NEW a PROVE a \in Done' <=> a \in Done \/ a = current
    <3>1. a \in Done' <=> \E n \in 1..(Len(outputs) + 1) : a = outputs'[n].archive
      BY <2>4, Zenon DEF Done
    <3>2. a \in Done <=> \E n \in 1..Len(outputs) : a = outputs[n].archive
      BY <2>4, Zenon DEF Done
    <3>3. 1..(Len(outputs) + 1) = (1..Len(outputs)) \cup {Len(outputs) + 1}
      BY <2>4
    <3> QED
      BY <2>2, <2>4, <3>1, <3>2, <3>3, Zenon
  <2>9. /\ Ascending /\ Done \subseteq Due /\ \A a \in Done : a < current
        /\ \A a \in Due : a < current => a \in Done
        /\ checked # {} /\ outcome # "made"
    BY <1>1, <2>7 DEF Progress, InBatch
  <2>10. \A a \in Due : a \in Int
    BY Bounds DEF Due, Archive
  <2>11. Done' \subseteq Due'
    BY <2>5, <2>6, <2>8, <2>9, Zenon
  <2>12. \A a \in Done' : a < current'
    <3>1. ASSUME NEW a \in Done' PROVE a < current + 1
      <4>1. a \in Int
        BY <2>6, <2>10, <2>11
      <4>2. a < current \/ a = current
        BY <2>8, <2>9
      <4> QED
        BY <2>5, <4>1, <4>2
    <3> QED
      BY <1>3, <3>1
  <2>13. \A a \in Due' : a < current' => a \in Done'
    <3>1. ASSUME NEW a \in Due, a < current + 1 PROVE a \in Done'
      <4>1. a < current \/ a = current
        BY <2>5, <2>10, <3>1
      <4> QED
        BY <2>8, <2>9, <4>1
    <3> QED
      BY <1>3, <2>6, <3>1
  <2>14. Ascending'
    <3>1. ASSUME NEW m \in 1..(Len(outputs) + 1), NEW n \in 1..(Len(outputs) + 1), m < n
          PROVE  outputs'[m].archive < outputs'[n].archive
      <4>1. m \in 1..Len(outputs)
        BY <2>4, <3>1
      <4>2. CASE n \in 1..Len(outputs)
        BY <2>4, <2>9, <3>1, <4>1, <4>2 DEF Ascending
      <4>3. CASE n = Len(outputs) + 1
        <5>1. outputs[m].archive \in Done
          BY <2>4, <4>1 DEF Done
        <5> QED
          BY <2>2, <2>4, <2>9, <4>1, <4>3, <5>1
      <4> QED
        BY <2>4, <4>2, <4>3
    <3> QED
      BY <2>4, <3>1 DEF Ascending
  <2>15. Progress'
    BY <1>3, <2>1, <2>9, <2>11, <2>12, <2>13, <2>14 DEF Progress, InBatch
  <2>16. BatchInOrder'
    <3>1. pc \in InBatch /\ Progress /\ current \in Int => BatchInOrder
      BY ProgressIsOrder
    <3>2. (pc \in InBatch /\ Progress /\ current \in Int => BatchInOrder)'
      BY <3>1, ProgressIsOrder, PTL
    <3> QED
      BY <2>1, <2>5, <2>15, <3>2 DEF InBatch
  <2> QED
    BY <2>15, <2>16 DEF Ordered
<1> QED
  BY <1>2, <1>3, Zenon DEF FinishArchive, Total, inputVars

(* After the last archive everything due has been published, and something *)
(* was due.                                                                *)
LEMMA EndOrdered ==
  ASSUME Ordered, Typed, EndBatch
  PROVE  Ordered'
<1>1. /\ pc = "batch" /\ current > Archives /\ outcome' = "made"
      /\ pc' = "listed"
      /\ UNCHANGED <<listing, checked, outputs>>
  BY DEF EndBatch, inputVars
<1>2. Due' = Due /\ Done' = Done /\ (Ascending => Ascending')
  BY <1>1, SameBatch
<1>3. /\ Ascending /\ Done \subseteq Due /\ checked # {}
      /\ \A a \in Due : a < current => a \in Done
  BY <1>1 DEF Ordered, Progress, InBatch
<1>4. Done = Due
  <2>1. \A a \in Due : a < current
    BY <1>1, Bounds DEF Due, Archive, Typed, TypeOK
  <2> QED
    BY <1>3, <2>1
<1>5. outputs # <<>>
  <2>1. PICK r \in checked : r \in Rows
    BY <1>3 DEF Typed, TypeOK
  <2>2. r[1] \in Archive
    BY <2>1, RowFacts
  <2>3. r \in CheckedOf(r[1])
    BY <2>1 DEF CheckedOf, RowsOf
  <2>4. r[1] \in Done
    BY <1>4, <2>2, <2>3 DEF Due
  <2> QED
    BY <2>4 DEF Done
<1>6. BatchInOrder'
  BY <1>1, <1>2, <1>3, <1>4, <1>5 DEF BatchInOrder, Ascending
<1>7. Progress'
  BY <1>1 DEF Progress, InBatch
<1> QED
  BY <1>6, <1>7 DEF Ordered

(* The failed archive is left, the results of the ones before stay.        *)
LEMMA UnwindOrdered ==
  ASSUME Ordered, UnwindExtraction
  PROVE  Ordered'
<1>1. /\ pc = "unwinding" /\ pc' = "listed"
      /\ UNCHANGED <<listing, checked, outputs, current, outcome>>
  BY DEF UnwindExtraction, Goto, inputVars
<1>2. outcome' # "made"
  BY <1>1 DEF Ordered, Progress
<1> QED
  BY <1>1, <1>2, StillOrdered DEF InBatch, Unlisted

(* The user's cancellation and other programs change nothing of it.        *)
LEMMA OthersOrdered ==
  ASSUME Ordered, Cancel \/ ReplaceFile \/ UNCHANGED vars
  PROVE  Ordered'
<1>1. UNCHANGED <<pc, listing, checked, outputs, current, outcome>>
  BY DEF Cancel, ReplaceFile, vars, inputVars
<1>2. CASE pc \in Unlisted
  <2>1. outcome' # "made"
    BY <1>1, <1>2 DEF Ordered, Progress, Unlisted
  <2> QED
    BY <1>1, <1>2, <2>1, UnlistedOrdered
<1>3. CASE pc \notin Unlisted
  <2>1. pc' \in {"opening", "extracting"} => current \in Due
    BY <1>1 DEF Ordered, Progress
  <2> QED
    BY <1>1, <1>3, <2>1, StillOrdered
<1> QED
  BY <1>2, <1>3

(* BatchInOrder: the archives with checked entries are published in their  *)
(* order, none twice and none left out before a later one; success means   *)
(* that all of them were, and that there was one.                          *)
THEOREM BatchPublishesInOrder == Spec => []BatchInOrder
<1>1. Init => Ordered
  BY OrderedAtFirst
<1>2. Ordered /\ Typed /\ Ranges /\ [Next]_vars => Ordered'
  BY ReadingOrdered, InsideOrdered, BeginningOrdered, FinishOrdered,
     EndOrdered,
     UnwindOrdered, OthersOrdered, Zenon DEF Next, Worker
<1>3. Ordered => BatchInOrder
  BY DEF Ordered
<1>4. Spec => [](Typed /\ Ranges)
  <2>1. TypeOK /\ Fresh /\ Bare => Typed
    BY DEF Typed
  <2> QED
    BY <2>1, BatchTypesHold, BatchInvariant, PTL
<1> QED
  BY <1>1, <1>2, <1>3, <1>4, PTL DEF Spec

-----------------------------------------------------------------------------
(* What was checked.  The paths of the entries read so far that have one   *)
(* and are selected are those that stand in the staging directory; each    *)
(* selected path met was met by one of them.                               *)
Entered(i) == SafePath(opened[i].name)
Wanted(i)  == Entered(i) # <<>> /\ (Whole(current) \/ Meets(Entered(i)) # {})

Taken ==
    /\ \A p \in StagedPaths : \E i \in 1..position : Wanted(i) /\ p = Entered(i)
    /\ \A i \in 1..position : Wanted(i) => Entered(i) \in StagedPaths
Met == \A c \in matched : \E i \in 1..position : c \in Meets(Entered(i))

Matching ==
    /\ pc \in InBatch => Checkable(checked)
    /\ pc = "extracting" => Taken /\ Met
    /\ MatchesChecks

(* Paths.                                                                  *)
LEMMA AtItself ==
  ASSUME NEW p \in Seq(Components)
  PROVE  IsAtOrBelow(p, p)
  BY DEF IsAtOrBelow

(* The empty path, the destination itself, is below no path.               *)
LEMMA BelowNotEmpty ==
  ASSUME NEW c \in Seq(Components) \ {<<>>}, IsAtOrBelow(<<>>, c)
  PROVE  FALSE
  BY DEF IsAtOrBelow

(* When as many rows are checked as there are, all are.                    *)
LEMMA WholeIsAll ==
  ASSUME Typed, NEW a \in Archive, Whole(a)
  PROVE  CheckedOf(a) = RowsOf(a)
<1> DEFINE Pairs == {a} \X (1..Len(listing[a]))
<1>1. listing[a] \in Seq(Entry)
  BY DEF Typed, TypeOK, Contents
<1>2. DOMAIN listing[a] = 1..Len(listing[a]) /\ Len(listing[a]) \in Nat
  BY <1>1
<1>3. IsFiniteSet(Pairs)
  <2>1. IsFiniteSet({a}) /\ IsFiniteSet(1..Len(listing[a]))
    <3>1. 1 \in Int /\ Len(listing[a]) \in Int
      BY <1>2
    <3> QED
      BY <3>1, FS_Singleton, FS_Interval, Zenon
  <2> QED
    BY <2>1, FS_Product, Zenon
<1>4. RowsOf(a) \subseteq Pairs
  <2> SUFFICES ASSUME NEW r \in Rows, r[1] = a PROVE r \in Pairs
    BY Zenon DEF RowsOf
  <2>1. r = <<a, r[2]>> /\ r[2] \in 1..Len(listing[a])
    BY <1>2, RowFacts
  <2> QED
    BY <2>1
<1>5. IsFiniteSet(RowsOf(a))
  BY <1>3, <1>4, FS_Subset, Zenon
<1>6. CheckedOf(a) \subseteq RowsOf(a)
  BY Zenon DEF CheckedOf
<1> QED
  BY <1>5, <1>6, FS_Subset, Zenon DEF Whole

(* A selected path is that of a checked row.                               *)
LEMMA SelectedRow ==
  ASSUME NEW a, NEW c \in Selection(a)
  PROVE  \E i \in DOMAIN listing[a] :
            /\ <<a, i>> \in CheckedOf(a) /\ c = Path(a, i) /\ c # <<>>
<1>1. PICK r \in CheckedOf(a) : c = Path(r[1], r[2])
  BY Zenon DEF Selection, Paths
<1>2. r \in Rows /\ r[1] = a
  BY <1>1 DEF CheckedOf, RowsOf
<1> QED
  BY <1>1, <1>2, RowFacts

(* The path of a checked row is selected.                                  *)
LEMMA RowSelected ==
  ASSUME NEW a, NEW i, <<a, i>> \in CheckedOf(a)
  PROVE  Path(a, i) \in Selection(a)
<1> DEFINE r == <<a, i>>
<1>1. r[1] = a /\ r[2] = i
  OBVIOUS
<1>2. r \in CheckedOf(a)
  OBVIOUS
<1> HIDE DEF r
<1> QED
  BY <1>1, <1>2, Zenon DEF Selection, Paths

(* A checked folder stands for what is below it.                           *)
LEMMA FolderChecked ==
  ASSUME NEW a \in Archive, Checkable(checked),
         NEW i \in DOMAIN listing[a], NEW j \in DOMAIN listing[a],
         Path(a, i) # <<>>, <<a, j>> \in CheckedOf(a),
         listing[a][j].type = "dir", Path(a, i) # Path(a, j),
         IsAtOrBelow(Path(a, i), Path(a, j))
  PROVE  <<a, i>> \in CheckedOf(a)
<1> DEFINE r == <<a, j>>
           s == <<a, i>>
<1>1. r[1] = a /\ r[2] = j /\ s[1] = a /\ s[2] = i /\ r # s
  OBVIOUS
<1>2. s \in RowsOf(a)
  BY RowsAll
<1>3. r \in checked /\ r \in Rows
  BY DEF CheckedOf, RowsOf
<1> HIDE DEF r, s
<1>4. s \in Below(r)
  BY <1>1, <1>2, Zenon DEF Below
<1>5. IsFolder(r)
  BY <1>1 DEF IsFolder
<1>6. Below(r) \subseteq checked
  BY <1>3, <1>4, <1>5, Zenon DEF Checkable
<1>7. s \in CheckedOf(a)
  BY <1>2, <1>4, <1>6, Zenon DEF CheckedOf
<1> QED
  BY <1>7 DEF s

(* A listed entry below a checked one that is no folder is taken along.    *)
LEMMA AlongTaken ==
  ASSUME NEW a \in Archive,
         NEW i \in DOMAIN listing[a], NEW j \in DOMAIN listing[a],
         Path(a, i) # <<>>, <<a, j>> \in CheckedOf(a),
         listing[a][j].type # "dir", Path(a, i) # Path(a, j),
         IsAtOrBelow(Path(a, i), Path(a, j))
  PROVE  Path(a, i) \in TakenAlong(a)
<1> DEFINE r == <<a, j>>
           s == <<a, i>>
<1>1. r[1] = a /\ r[2] = j /\ s[1] = a /\ s[2] = i /\ r # s
  OBVIOUS
<1>2. s \in RowsOf(a) /\ r \in CheckedOf(a)
  BY RowsAll
<1> HIDE DEF r, s
<1>3. s \in Below(r)
  BY <1>1, <1>2, Zenon DEF Below
<1>4. ~IsFolder(r)
  BY <1>1 DEF IsFolder
<1>5. s \in UNION {Below(q) : q \in {t \in CheckedOf(a) : ~IsFolder(t)}}
  BY <1>2, <1>3, <1>4, Zenon
<1> QED
  BY <1>1, <1>5, Zenon DEF TakenAlong, Paths

(* What is taken along is listed, below a selected path.                   *)
LEMMA AlongListed ==
  ASSUME NEW a, NEW p \in TakenAlong(a)
  PROVE  \E i \in DOMAIN listing[a] :
            /\ p = Path(a, i) /\ p # <<>>
            /\ \E c \in Selection(a) : IsAtOrBelow(p, c)
<1>1. PICK r \in CheckedOf(a) : \E s \in Below(r) : p = Path(s[1], s[2])
  BY Zenon DEF TakenAlong, Paths
<1>2. PICK s \in Below(r) : p = Path(s[1], s[2])
  BY <1>1
<1>3. r[1] = a
  BY DEF CheckedOf, RowsOf
<1>4. s \in Rows /\ s[1] = a /\ IsAtOrBelow(p, Path(r[1], r[2]))
  BY <1>2, <1>3, Zenon DEF Below, RowsOf
<1>5. Path(r[1], r[2]) \in Selection(a)
  BY Zenon DEF Selection, Paths
<1>6. s[2] \in DOMAIN listing[a] /\ p = Path(a, s[2]) /\ p # <<>>
  BY <1>2, <1>4, RowFacts
<1> QED
  BY <1>4, <1>5, <1>6, Zenon

(* What MatchesChecks says of one result, for what the list showed of its  *)
(* archive, what was selected of it, what that takes along and whether it  *)
(* was everything.                                                         *)
Faithful(o, shown, chosen, along, whole) ==
    IF o.content = shown THEN o.paths = chosen \cup along
    ELSE whole \/
         /\ \A p \in o.paths : \E c \in chosen : IsAtOrBelow(p, c)
         /\ \A c \in chosen : \E p \in o.paths : IsAtOrBelow(p, c)

(* At the end of an archive, what is staged is what was checked.           *)
LEMMA StagedIsChecked ==
  ASSUME Typed, Ranges, Checkable(checked), Taken, Met,
         pc = "extracting", position = Len(opened), AllMet
  PROVE  Faithful(Published, listing[current], Selection(current),
                  TakenAlong(current), Whole(current))
<1> DEFINE P == StagedPaths
           chosen == Selection(current)
           along == TakenAlong(current)
<1>1. current \in Archive
  BY DEF Ranges
<1>2. Published.content = opened /\ Published.paths = P
  BY DEF Published, StagedPaths
<1>3. opened \in Seq(Entry) /\ DOMAIN opened = 1..Len(opened) /\ Len(opened) \in Nat
  BY DEF Ranges, Contents
<1>4. ASSUME NEW p \in P
      PROVE  \E i \in 1..Len(opened) : Wanted(i) /\ p = Entered(i)
  BY Zenon DEF Taken
<1>5. ASSUME NEW i \in 1..Len(opened), Wanted(i)
      PROVE  Entered(i) \in P
  BY <1>5, Zenon DEF Taken
<1>6. ASSUME NEW c \in chosen
      PROVE  c \in Seq(Components) /\ c # <<>>
  BY SelectionType DEF Typed, TypeOK
<1>7. \A i \in 1..Len(opened) : Entered(i) \in Seq(Components)
  <2> SUFFICES ASSUME NEW i \in 1..Len(opened) PROVE Entered(i) \in Seq(Components)
    OBVIOUS
  <2>1. opened[i] \in Entry
    BY <1>3
  <2>2. opened[i].name \in Seq(Components)
    BY <2>1, Zenon DEF Entry, Name
  <2> QED
    BY <2>2, SafePathType DEF Entered
<1> HIDE DEF P, chosen, along
<1>8. CASE opened = listing[current]
  <2>1. ASSUME NEW i \in 1..Len(opened)
        PROVE  Entered(i) = Path(current, i) /\ i \in DOMAIN listing[current]
    BY <1>3, <1>8, Zenon DEF Entered, Path
  <2>2. ASSUME NEW c \in chosen PROVE c \in P
    <3>1. PICK i \in DOMAIN listing[current] :
             <<current, i>> \in CheckedOf(current) /\ c = Path(current, i) /\ c # <<>>
      BY SelectedRow, Zenon DEF chosen
    <3>2. i \in 1..Len(opened)
      BY <1>3, <1>8, <3>1, Zenon
    <3>3. c = Entered(i)
      BY <2>1, <3>1, <3>2, Zenon
    <3>4. IsAtOrBelow(c, c)
      BY <1>6, AtItself
    <3>5. Wanted(i)
      BY <3>1, <3>3, <3>4, Zenon DEF Wanted, Meets, chosen
    <3> QED
      BY <1>5, <3>2, <3>3, <3>5, Zenon
  <2>3. ASSUME NEW p \in P PROVE p \in chosen \cup along
    <3>1. PICK i \in 1..Len(opened) : Wanted(i) /\ p = Entered(i)
      BY <1>4, Zenon
    <3>2. i \in DOMAIN listing[current] /\ p = Path(current, i) /\ p # <<>>
      BY <2>1, <3>1, Zenon DEF Wanted
    <3>3. <<current, i>> \in RowsOf(current)
      BY <1>1, <3>2, RowsAll
    <3>4. p \in chosen \cup along
      <4>0. <<current, i>> \in CheckedOf(current) => p \in chosen
        BY <3>2, RowSelected, Zenon DEF chosen
      <4>1. CASE Whole(current)
        BY <1>1, <3>3, <4>0, <4>1, WholeIsAll
      <4>2. CASE ~Whole(current)
        <5>1. PICK c \in chosen : IsAtOrBelow(p, c)
          BY <3>1, <4>2, Zenon DEF Wanted, Meets, chosen
        <5>2. PICK j \in DOMAIN listing[current] :
                 <<current, j>> \in CheckedOf(current) /\ c = Path(current, j) /\ c # <<>>
          BY SelectedRow, Zenon DEF chosen
        <5>3. j \in 1..Len(opened)
          BY <1>3, <1>8, <5>2, Zenon
        <5>4. c = Entered(j)
          BY <2>1, <5>2, <5>3, Zenon
        <5>5. Wanted(j)
          <6>1. IsAtOrBelow(c, c)
            BY <1>6, AtItself
          <6> QED
            BY <5>2, <5>4, <6>1, Zenon DEF Wanted, Meets, chosen
        <5>6. CASE p = c
          BY <5>1, <5>6
        <5>7. CASE p # c
          <6>1. CASE listing[current][j].type = "dir"
            <7>1. <<current, i>> \in CheckedOf(current)
              BY <1>1, <3>2, <5>1, <5>2, <5>7, <6>1, FolderChecked
            <7> QED
              BY <4>0, <7>1
          <6>2. CASE listing[current][j].type # "dir"
            <7>1. p \in along
              BY <1>1, <3>2, <5>1, <5>2, <5>7, <6>2, AlongTaken DEF along
            <7> QED
              BY <7>1
          <6> QED
            BY <6>1, <6>2
        <5> QED
          BY <5>6, <5>7
      <4> QED
        BY <4>1, <4>2
    <3> QED
      BY <3>4
  <2>4. ASSUME NEW p \in along PROVE p \in P
    <3>1. PICK i \in DOMAIN listing[current] :
             /\ p = Path(current, i) /\ p # <<>>
             /\ \E c \in chosen : IsAtOrBelow(p, c)
      BY AlongListed, Zenon DEF along, chosen
    <3>2. i \in 1..Len(opened) /\ p = Entered(i)
      BY <1>3, <1>8, <2>1, <3>1, Zenon
    <3>3. Wanted(i)
      BY <3>1, <3>2, Zenon DEF Wanted, Meets, chosen
    <3> QED
      BY <1>5, <3>2, <3>3, Zenon
  <2>5. P = chosen \cup along
    BY <2>2, <2>3, <2>4
  <2> QED
    BY <1>2, <1>8, <2>5, Zenon DEF Faithful, chosen, along
<1>9. CASE opened # listing[current] /\ ~Whole(current)
  <2>1. matched = chosen
    BY <1>9, Zenon DEF AllMet, chosen
  <2>2. ASSUME NEW p \in P PROVE \E c \in chosen : IsAtOrBelow(p, c)
    <3>1. PICK i \in 1..Len(opened) : Wanted(i) /\ p = Entered(i)
      BY <1>4, Zenon
    <3> QED
      BY <1>9, <3>1, Zenon DEF Wanted, Meets, chosen
  <2>3. ASSUME NEW c \in chosen PROVE \E p \in P : IsAtOrBelow(p, c)
    <3>1. PICK i \in 1..Len(opened) : c \in Meets(Entered(i))
      BY <2>1, Zenon DEF Met
    <3>2. IsAtOrBelow(Entered(i), c)
      BY <3>1, Zenon DEF Meets
    <3>3. Entered(i) # <<>>
      BY <1>6, <3>2, BelowNotEmpty
    <3>4. Wanted(i)
      BY <3>1, <3>3, Zenon DEF Wanted
    <3> QED
      BY <1>5, <3>2, <3>4, Zenon
  <2> QED
    BY <1>2, <1>9, <2>2, <2>3, Zenon DEF Faithful, chosen
<1>10. CASE opened # listing[current] /\ Whole(current)
  BY <1>2, <1>10, Zenon DEF Faithful
<1> QED
  BY <1>8, <1>9, <1>10

(* MatchesChecks in those terms.                                           *)
Selections == [a \in Archive |-> Selection(a)]
Alongs     == [a \in Archive |-> TakenAlong(a)]
Entire     == [a \in Archive |-> Whole(a)]

FaithfulAll ==
    \A n \in DOMAIN outputs :
        LET a == outputs[n].archive IN
        Faithful(outputs[n], listing[a], Selections[a], Alongs[a], Entire[a])

(* Both say the same.                                                      *)
LEMMA MatchesIsFaithful == Typed => (MatchesChecks <=> FaithfulAll)
<1> SUFFICES ASSUME Typed PROVE MatchesChecks <=> FaithfulAll
  OBVIOUS
<1>1. ASSUME NEW n \in DOMAIN outputs
      PROVE  outputs[n].archive \in Archive
  <2>1. outputs \in Seq(Result)
    BY Zenon DEF Typed, TypeOK, Result
  <2> HIDE DEF Result
  <2>2. outputs[n] \in Result
    BY <2>1
  <2> QED
    BY <2>2, Zenon DEF Result
<1>2. ASSUME NEW n \in DOMAIN outputs
      PROVE  /\ Selections[outputs[n].archive] = Selection(outputs[n].archive)
             /\ Alongs[outputs[n].archive] = TakenAlong(outputs[n].archive)
             /\ Entire[outputs[n].archive] = Whole(outputs[n].archive)
  BY <1>1, Zenon DEF Selections, Alongs, Entire
<1> QED
  BY <1>2, Zenon DEF MatchesChecks, FaithfulAll, Faithful

(* Selections depend on the list and the checks only.                      *)
LEMMA SameSelections ==
  ASSUME listing' = listing, checked' = checked
  PROVE  /\ Selections' = Selections /\ Alongs' = Alongs /\ Entire' = Entire
         /\ current' = current => Selection(current)' = Selection(current)
                                  /\ (Whole(current)' <=> Whole(current))
<1>1. \A a : Selection(a)' = Selection(a) /\ Whole(a)' = Whole(a)
  BY SameChecks, Zenon
<1>2. Selections' = Selections /\ Entire' = Entire
  BY <1>1, Zenon DEF Selections, Entire
<1>3. Alongs' = Alongs
  <2>1. \A r : Below(r)' = Below(r) /\ (IsFolder(r)' <=> IsFolder(r))
    BY SameRows, Zenon DEF Below, IsFolder, RowsOf, Path
  <2>2. \A a : CheckedOf(a)' = CheckedOf(a)
    BY SameChecks, Zenon
  <2>3. \A a : TakenAlong(a)' = TakenAlong(a)
    BY <2>1, <2>2, Zenon DEF TakenAlong, Paths, Path
  <2> QED
    BY <2>3, Zenon DEF Alongs
<1>4. ASSUME current' = current
      PROVE  Selection(current)' = Selection(current) /\ (Whole(current)' <=> Whole(current))
  BY <1>4, SameRows, Zenon DEF Selection, CheckedOf, RowsOf, Paths, Path, Whole
<1> QED
  BY <1>2, <1>3, <1>4

(* So does what may be checked.                                            *)
LEMMA SameCheckable ==
  ASSUME listing' = listing, Checkable(checked')
  PROVE  Checkable(checked)'
<1>1. Rows' = Rows
  BY SameRows
<1>2. \A r : Below(r)' = Below(r) /\ (IsFolder(r)' <=> IsFolder(r))
  BY <1>1, Zenon DEF Below, IsFolder, RowsOf, Path
<1> QED
  BY <1>1, <1>2, Zenon DEF Checkable

(* Results stay what they are while the list and the checks do.            *)
LEMMA SameMatches ==
  ASSUME Typed, Typed', MatchesChecks,
         listing' = listing, checked' = checked, outputs' = outputs
  PROVE  MatchesChecks'
<1>1. (Typed => (MatchesChecks <=> FaithfulAll))'
  BY MatchesIsFaithful, PTL
<1>2. FaithfulAll
  BY MatchesIsFaithful
<1>3. FaithfulAll'
  BY <1>2, SameSelections, Zenon DEF FaithfulAll, Faithful
<1> QED
  BY <1>1, <1>3

(* Nothing has been extracted at the beginning.                            *)
LEMMA MatchingAtFirst == Init => Matching
  BY DEF Init, Matching, MatchesChecks, InBatch

(* Without results there is nothing to match.                              *)
LEMMA EmptyMatching ==
  ASSUME pc' \notin InBatch, outputs' = <<>>
  PROVE  Matching'
  BY DEF Matching, MatchesChecks, InBatch

(* A step that leaves the entry loop, or stays out of it.                  *)
LEMMA OutsideMatching ==
  ASSUME Typed, Typed', Matching,
         listing' = listing, checked' = checked, outputs' = outputs,
         pc' # "extracting", pc' \in InBatch => pc \in InBatch
  PROVE  Matching'
<1>1. MatchesChecks'
  BY SameMatches DEF Matching
<1>2. pc' \in InBatch => Checkable(checked)'
  BY SameCheckable DEF Matching
<1> QED
  BY <1>1, <1>2 DEF Matching

(* The same entries have been read.                                        *)
LEMMA SameEntries ==
  ASSUME listing' = listing, checked' = checked, opened' = opened, current' = current
  PROVE  \A i : /\ Entered(i)' = Entered(i) /\ (Wanted(i)' <=> Wanted(i))
                /\ Meets(Entered(i))' = Meets(Entered(i))
<1>1. \A i : Entered(i)' = Entered(i)
  BY Zenon DEF Entered
<1>2. Selection(current)' = Selection(current) /\ (Whole(current)' <=> Whole(current))
  BY SameSelections
<1>3. \A i : Meets(Entered(i))' = Meets(Entered(i))
  BY <1>1, <1>2, Zenon DEF Meets
<1>4. \A i : Wanted(i)' <=> Wanted(i)
  BY <1>1, <1>2, <1>3, Zenon DEF Wanted
<1> QED
  BY <1>1, <1>3, <1>4

(* Reading the archives drops no result that was there: there is none.     *)
LEMMA ReadingMatching ==
  ASSUME Typed, Typed', Matching,
         ReadArchives \/ OpenPreview \/ Scan \/ List \/ UnwindReading
  PROVE  Matching'
<1>1. pc \in Unlisted
  BY DEF ReadArchives, OpenPreview, Scan, List, UnwindReading, Unlisted
<1>2. pc' \in Unlisted \cup {"listed"}
  BY DEF ReadArchives, OpenPreview, Scan, List, UnwindReading, Throw, Thrown,
     Goto, Unlisted
<1>3. outputs = <<>>
  BY <1>1 DEF Typed, Fresh
<1>4. outputs' = outputs
  BY DEF ReadArchives, OpenPreview, Scan, List, UnwindReading, Throw
<1> QED
  BY <1>2, <1>3, <1>4, EmptyMatching DEF Unlisted, InBatch

(* The user leaves checked what the tree allows; nothing is published yet. *)
LEMMA ExtractMatching ==
  ASSUME ExtractChecked
  PROVE  Matching'
<1>1. PICK marks \in (SUBSET Rows) \ {{}} : Checkable(marks) /\ checked' = marks
  BY Zenon DEF ExtractChecked
<1>2. /\ pc' = "batch" /\ outputs' = <<>> /\ listing' = listing
  BY DEF ExtractChecked
<1>3. Checkable(checked)'
  BY <1>1, <1>2, SameCheckable
<1> QED
  BY <1>2, <1>3 DEF Matching, MatchesChecks

(* An exception publishes nothing.                                         *)
LEMMA ThrowMatching ==
  ASSUME Typed, Typed', Matching, NEW reason \in {"failed", "cancelled"}, Throw(reason),
         pc \in {"batch", "opening", "extracting"}
  PROVE  Matching'
  BY ThrowWithin, OutsideMatching DEF InBatch

(* Steps between the archives, and the opening of one.                     *)
LEMMA StartingMatching ==
  ASSUME Typed, Typed', Matching, Vetting, SkipArchive \/ StartArchive \/ OpenArchive
  PROVE  Matching'
<1>1. CASE SkipArchive
  <2>1. pc = "batch" /\ pc' = "batch" /\ UNCHANGED <<listing, checked, outputs>>
    BY <1>1 DEF SkipArchive, Goto, inputVars
  <2> QED
    BY <2>1, OutsideMatching DEF InBatch
<1>2. CASE StartArchive
  <2>1. pc = "batch"
    BY <1>2 DEF StartArchive
  <2>2. \/ \E reason \in {"failed", "cancelled"} : Throw(reason)
        \/ Goto("opening") /\ UNCHANGED <<listing, checked, outputs>>
    BY <1>2, Zenon DEF StartArchive, inputVars
  <2>3. CASE Goto("opening") /\ UNCHANGED <<listing, checked, outputs>>
    <3>1. pc' = "opening"
      BY <2>3 DEF Goto
    <3> QED
      BY <2>1, <2>3, <3>1, OutsideMatching DEF InBatch
  <2> QED
    BY <2>1, <2>2, <2>3, ThrowMatching
<1>3. CASE OpenArchive
  <2>1. pc = "opening" /\ UNCHANGED <<position, staged, matched>>
    BY <1>3 DEF OpenArchive
  <2>2. \/ \E reason \in {"failed", "cancelled"} : Throw(reason)
        \/ Goto("extracting") /\ UNCHANGED <<listing, checked, outputs>>
    BY <1>3, Zenon DEF OpenArchive, inputVars
  <2>3. CASE Goto("extracting") /\ UNCHANGED <<listing, checked, outputs>>
    <3>1. pc' = "extracting"
      BY <2>3 DEF Goto
    <3>2. position' = 0 /\ staged' = {} /\ matched' = {}
      BY <2>1 DEF Typed, Bare, Vetting
    <3>3. Taken' /\ Met'
      BY <3>2 DEF Taken, Met, StagedPaths
    <3>4. MatchesChecks'
      BY <2>3, SameMatches DEF Matching
    <3>5. Checkable(checked)'
      BY <2>1, <2>3, SameCheckable DEF Matching, InBatch
    <3> QED
      BY <3>1, <3>3, <3>4, <3>5 DEF Matching
  <2> QED
    BY <2>1, <2>2, <2>3, ThrowMatching
<1> QED
  BY <1>1, <1>2, <1>3

(* One entry more: staged when it is selected, and written over nothing.   *)
LEMMA ReadEntryMatching ==
  ASSUME Typed, Typed', Ranges, Matching, ReadEntry
  PROVE  Matching'
<1> DEFINE k == position + 1
           met == IF Whole(current) THEN {} ELSE Meets(Entered(k))
<1>1. /\ pc = "extracting" /\ position < Len(opened) /\ opened' = opened
      /\ position \in Nat /\ Taken /\ Met
  BY DEF ReadEntry, Ranges, Matching
<1>2. CASE \E reason \in {"failed", "cancelled"} : Throw(reason)
  BY <1>1, <1>2, ThrowMatching
<1>3. CASE /\ position' = k /\ matched' = matched \cup met
           /\ \/ /\ Entered(k) = <<>> \/ (~Whole(current) /\ met = {})
                 /\ staged' = staged
              \/ /\ Entered(k) # <<>> /\ (Whole(current) \/ met # {})
                 /\ WriteEntry(Entered(k), opened[k].type)
           /\ Goto("extracting")
           /\ UNCHANGED <<listing, checked, current, outputs>>
  <2>1. pc' = "extracting"
    BY <1>3 DEF Goto
  <2>2. MatchesChecks' /\ Checkable(checked)'
    BY <1>1, <1>3, SameMatches, SameCheckable DEF Matching, InBatch
  <2>3. \A i : /\ Entered(i)' = Entered(i) /\ (Wanted(i)' <=> Wanted(i))
               /\ Meets(Entered(i))' = Meets(Entered(i))
    BY <1>1, <1>3, SameEntries
  <2>4. \A i : i \in 1..position' <=> i \in 1..position \/ i = k
    BY <1>1, <1>3
  <2> HIDE DEF k
  <2>5. ASSUME /\ Entered(k) = <<>> \/ (~Whole(current) /\ met = {})
             /\ staged' = staged
        PROVE  Taken'
    <3>1. ~Wanted(k)
      BY <2>5, Zenon DEF Wanted
    <3>2. StagedPaths' = StagedPaths
      BY <2>5, Zenon DEF StagedPaths
    <3> QED
      BY <1>1, <2>3, <2>4, <3>1, <3>2, Zenon DEF Taken
  <2>6. ASSUME /\ Entered(k) # <<>> /\ (Whole(current) \/ met # {})
             /\ WriteEntry(Entered(k), opened[k].type)
        PROVE  Taken'
    <3>1. Wanted(k)
      BY <2>6, Zenon DEF Wanted
    <3>2. StagedPaths' = StagedPaths \cup {Entered(k)}
      BY <2>6, EntryWritten
    <3> QED
      BY <1>1, <2>3, <2>4, <3>1, <3>2, Zenon DEF Taken
  <2>7. Met'
    <3>1. ASSUME NEW c \in matched'
          PROVE  \E i \in 1..position' : c \in Meets(Entered(i))
      <4>1. c \in matched \/ c \in Meets(Entered(k))
        BY <1>3, <3>1, Zenon
      <4> QED
        BY <1>1, <2>4, <4>1, Zenon DEF Met
    <3> QED
      BY <2>3, <3>1, Zenon DEF Met
  <2>8. Taken'
    BY <1>3, <2>5, <2>6, Zenon
  <2> QED
    BY <2>1, <2>2, <2>7, <2>8 DEF Matching
<1> HIDE DEF k, met
<1> QED
  BY <1>2, <1>3, Zenon DEF ReadEntry, inputVars, k, met, Entered

(* What an archive ends with is what was checked; the rest stays.          *)
LEMMA FinishMatching ==
  ASSUME Typed, Typed', Ranges, Matching, FinishArchive
  PROVE  Matching'
<1>1. pc = "extracting" /\ position = Len(opened)
  BY DEF FinishArchive
<1>2. CASE \E reason \in {"failed", "cancelled"} : Throw(reason)
  BY <1>1, <1>2, ThrowMatching
<1>3. CASE /\ AllMet /\ outputs' = Append(outputs, Published) /\ Goto("batch")
           /\ UNCHANGED <<listing, checked>>
  <2>1. pc' = "batch"
    BY <1>3 DEF Goto
  <2>2. Checkable(checked) /\ Taken /\ Met /\ FaithfulAll
    BY <1>1, MatchesIsFaithful DEF Matching, InBatch
  <2>3. Checkable(checked)'
    BY <1>3, <2>2, SameCheckable
  <2> DEFINE last == Published
  <2>4. Faithful(last, listing[current], Selection(current),
                 TakenAlong(current), Whole(current))
    BY <1>1, <1>3, <2>2, StagedIsChecked
  <2>5. last.archive = current /\ current \in Archive
    BY <1>1 DEF Published, Ranges
  <2>6. /\ Selections[current] = Selection(current)
        /\ Alongs[current] = TakenAlong(current)
        /\ Entire[current] = Whole(current)
    BY <2>5, Zenon DEF Selections, Alongs, Entire
  <2> HIDE DEF last
  <2>7. LET a == last.archive IN Faithful(last, listing[a], Selections[a], Alongs[a], Entire[a])
    BY <2>4, <2>5, <2>6, Zenon DEF Faithful
  <2>8. PICK S : outputs \in Seq(S)
    BY DEF Ranges
  <2>9. /\ DOMAIN outputs' = 1..(Len(outputs) + 1)
        /\ DOMAIN outputs = 1..Len(outputs)
        /\ \A n \in DOMAIN outputs : outputs'[n] = outputs[n]
        /\ outputs'[Len(outputs) + 1] = last
        /\ \A n \in DOMAIN outputs' : n \in DOMAIN outputs \/ n = Len(outputs) + 1
    <3>1. outputs' = Append(outputs, last)
      BY <1>3 DEF last
    <3>2. outputs \in Seq(S \cup {last}) /\ last \in S \cup {last}
      BY <2>8
    <3> QED
      BY <3>1, <3>2
  <2>10. FaithfulAll'
    <3>1. /\ listing' = listing /\ Selections' = Selections
          /\ Alongs' = Alongs /\ Entire' = Entire
      BY <1>3, SameSelections
    <3>2. ASSUME NEW n \in DOMAIN outputs'
          PROVE  LET a == outputs'[n].archive IN
                 Faithful(outputs'[n], listing[a], Selections[a], Alongs[a], Entire[a])
      <4>1. CASE n \in DOMAIN outputs
        BY <2>2, <2>9, <4>1, Zenon DEF FaithfulAll
      <4>2. CASE n = Len(outputs) + 1
        BY <2>7, <2>9, <4>2, Zenon
      <4> QED
        BY <2>9, <4>1, <4>2, Zenon
    <3> QED
      BY <3>1, <3>2, Zenon DEF FaithfulAll, Faithful
  <2>11. MatchesChecks'
    <3>1. (Typed => (MatchesChecks <=> FaithfulAll))'
      BY MatchesIsFaithful, PTL
    <3> QED
      BY <2>10, <3>1
  <2> QED
    BY <2>1, <2>3, <2>11 DEF Matching
<1> QED
  BY <1>2, <1>3, Zenon DEF FinishArchive, Total, inputVars

(* The end of a batch, and what the user and other programs do.            *)
LEMMA RestMatching ==
  ASSUME Typed, Typed', Matching,
         UnwindExtraction \/ EndBatch \/ Cancel \/ ReplaceFile \/ UNCHANGED vars
  PROVE  Matching'
<1>1. UNCHANGED <<listing, checked, outputs>>
  BY DEF UnwindExtraction, EndBatch, Cancel, ReplaceFile, vars, inputVars
<1>2. CASE UnwindExtraction \/ EndBatch
  <2>1. pc' = "listed"
    BY <1>2 DEF UnwindExtraction, EndBatch, Goto
  <2> QED
    BY <1>1, <2>1, OutsideMatching DEF InBatch
<1>3. CASE Cancel \/ ReplaceFile \/ UNCHANGED vars
  <2>1. UNCHANGED <<pc, current, opened, position, staged, matched>>
    BY <1>3 DEF Cancel, ReplaceFile, vars, workVars
  <2>2. CASE pc # "extracting"
    BY <1>1, <2>1, <2>2, OutsideMatching
  <2>3. CASE pc = "extracting"
    <3>1. MatchesChecks' /\ Checkable(checked)'
      BY <1>1, <2>3, SameMatches, SameCheckable DEF Matching, InBatch
    <3>2. \A i : /\ Entered(i)' = Entered(i) /\ (Wanted(i)' <=> Wanted(i))
                  /\ Meets(Entered(i))' = Meets(Entered(i))
      BY <1>1, <2>1, SameEntries
    <3>3. Taken /\ Met
      BY <2>3 DEF Matching
    <3>4. Taken'
      BY <2>1, <3>2, <3>3, Zenon DEF Taken, StagedPaths
    <3>5. Met'
      BY <2>1, <3>2, <3>3, Zenon DEF Met
    <3> QED
      BY <3>1, <3>4, <3>5 DEF Matching
  <2> QED
    BY <2>2, <2>3
<1> QED
  BY <1>2, <1>3

(* MatchesChecks: extracting yields what was checked; of an archive that   *)
(* was replaced since it was listed it yields nothing outside the          *)
(* selection, and only when each selected path was found.                  *)
THEOREM BatchYieldsWhatWasChecked == Spec => []MatchesChecks
<1>1. Init => Matching
  BY MatchingAtFirst
<1>2. Matching /\ Typed /\ Typed' /\ Ranges /\ Vetting /\ [Next]_vars => Matching'
  BY ReadingMatching, ExtractMatching, StartingMatching, ReadEntryMatching,
     FinishMatching, RestMatching, Zenon DEF Next, Worker
<1>3. Matching => MatchesChecks
  BY DEF Matching
<1>4. Spec => [](Typed /\ Ranges /\ Vetting)
  <2>1. TypeOK /\ Fresh /\ Bare => Typed
    BY DEF Typed
  <2> QED
    BY <2>1, BatchTypesHold, BatchInvariant, PTL
<1> QED
  BY <1>1, <1>2, <1>3, <1>4, PTL DEF Spec

-----------------------------------------------------------------------------
(* Cancellation.  An archive that is being dealt with is given up at the   *)
(* next check, and no batch ends as a success with an archive still due.   *)
Told == pc = "unwinding" => outcome \in {"failed", "cancelled"}

Stopping ==
    \/ cancelled /\ pc = "batch" /\ \E a \in Due : a >= current
    \/ cancelled /\ pc \in {"opening", "extracting"}
    \/ pc = "unwinding"
Stopped == pc = "listed" /\ outcome \in {"cancelled", "failed"}

CancelledBefore ==
    /\ cancelled /\ pc \in {"batch", "opening", "extracting", "unwinding"}
    /\ \E a \in Archive : a > current /\ CheckedOf(a) # {}

(* An archive is unwound only after a failure or a cancellation.           *)
LEMMA ToldNext == Told /\ [Next]_vars => Told'
<1> SUFFICES ASSUME Told, [Next]_vars PROVE Told'
  OBVIOUS
<1>1. ASSUME NEW reason, Throw(reason), reason \in {"failed", "cancelled"}
      PROVE  Told'
  BY <1>1 DEF Throw, Told
<1>2. CASE ReadArchives \/ List \/ UnwindReading \/ ExtractChecked \/ EndBatch
  BY <1>2 DEF ReadArchives, List, UnwindReading, ExtractChecked, EndBatch, Goto, Told
<1>3. CASE UnwindExtraction \/ SkipArchive
  BY <1>3 DEF UnwindExtraction, SkipArchive, Goto, Told
<1>4. CASE OpenPreview
  <2>1. \/ \E reason \in {"failed", "cancelled"} : Throw(reason)
        \/ Goto("scanning")
    BY <1>4, Zenon DEF OpenPreview
  <2> QED
    BY <1>1, <2>1 DEF Goto, Told
<1>5. CASE Scan
  <2>1. (\E reason \in {"failed", "cancelled"} : Throw(reason)) \/ Goto("reading")
    BY <1>5, Zenon DEF Scan
  <2> QED
    BY <1>1, <2>1 DEF Goto, Told
<1>6. CASE StartArchive
  <2>1. \/ \E reason \in {"failed", "cancelled"} : Throw(reason)
        \/ Goto("opening")
    BY <1>6, Zenon DEF StartArchive
  <2> QED
    BY <1>1, <2>1 DEF Goto, Told
<1>7. CASE OpenArchive
  <2>1. \/ \E reason \in {"failed", "cancelled"} : Throw(reason)
        \/ Goto("extracting")
    BY <1>7, Zenon DEF OpenArchive
  <2> QED
    BY <1>1, <2>1 DEF Goto, Told
<1>8. CASE ReadEntry
  <2>1. \/ \E reason \in {"failed", "cancelled"} : Throw(reason)
        \/ Goto("extracting")
    BY <1>8, Zenon DEF ReadEntry
  <2> QED
    BY <1>1, <2>1 DEF Goto, Told
<1>9. CASE FinishArchive
  <2>1. (\E reason \in {"failed", "cancelled"} : Throw(reason)) \/ Goto("batch")
    BY <1>9, Zenon DEF FinishArchive
  <2> QED
    BY <1>1, <2>1 DEF Goto, Told
<1>10. CASE Cancel \/ ReplaceFile \/ UNCHANGED vars
  BY <1>10 DEF Cancel, ReplaceFile, vars, Told
<1> QED
  BY <1>2, <1>3, <1>4, <1>5, <1>6, <1>7, <1>8, <1>9, <1>10, Zenon DEF Next, Worker

(* Once stopping, a batch goes on stopping until it has stopped.           *)
LEMMA StoppingNext ==
  ASSUME TypeOK, Told, Stopping, [Next]_vars
  PROVE  Stopping' \/ Stopped'
<1>0. pc \in InBatch
  BY DEF Stopping, InBatch
<1>1. ASSUME NEW reason, Throw(reason) PROVE Stopping'
  BY <1>0, <1>1 DEF Throw, Thrown, Stopping, InBatch
<1>2. CASE ReadArchives \/ OpenPreview \/ Scan \/ List \/ UnwindReading \/ ExtractChecked
  BY <1>0, <1>2 DEF ReadArchives, OpenPreview, Scan, List, UnwindReading,
                    ExtractChecked, InBatch
<1>3. CASE SkipArchive
  <2>1. /\ pc = "batch" /\ pc' = "batch" /\ CheckedOf(current) = {}
        /\ current' = current + 1 /\ UNCHANGED <<listing, checked, cancelled>>
    BY <1>3 DEF SkipArchive, Goto, inputVars
  <2>2. PICK a \in Due : a >= current
    BY <2>1 DEF Stopping
  <2>3. a # current /\ a \in Int /\ current \in Int
    BY <2>1, Bounds DEF Due, Archive, TypeOK
  <2>4. a >= current' /\ a \in Due'
    BY <2>1, <2>2, <2>3, SameDue
  <2> QED
    BY <2>1, <2>2, <2>4 DEF Stopping
<1>4. CASE StartArchive
  <2>1. cancelled
    BY <1>4 DEF StartArchive, Stopping
  <2>2. \E reason \in {"failed", "cancelled"} : Throw(reason)
    BY <1>4, <2>1, Zenon DEF StartArchive
  <2> QED
    BY <1>1, <2>2
<1>5. CASE OpenArchive \/ ReadEntry \/ FinishArchive
  <2>1. cancelled
    BY <1>5 DEF OpenArchive, ReadEntry, FinishArchive, Stopping
  <2>2. \E reason \in {"failed", "cancelled"} : Throw(reason)
    BY <1>5, <2>1, Zenon DEF OpenArchive, ReadEntry, FinishArchive
  <2> QED
    BY <1>1, <2>2
<1>6. CASE UnwindExtraction
  BY <1>6 DEF UnwindExtraction, Goto, Told, Stopped
<1>7. ~EndBatch
  <2> SUFFICES ASSUME EndBatch PROVE FALSE
    OBVIOUS
  <2>1. pc = "batch" /\ current > Archives
    BY DEF EndBatch
  <2>2. PICK a \in Due : a >= current
    BY <2>1 DEF Stopping
  <2>3. a \in 1..Archives /\ current \in Int
    BY <2>2, Bounds DEF Due, Archive, TypeOK
  <2> QED
    BY <2>1, <2>2, <2>3, Bounds
<1>8. CASE Cancel \/ ReplaceFile \/ UNCHANGED vars
  <2>1. /\ UNCHANGED <<pc, current, listing, checked>>
        /\ cancelled => cancelled'
    BY <1>8 DEF Cancel, ReplaceFile, vars, inputVars
  <2> QED
    BY <2>1, SameDue DEF Stopping
<1> QED
  BY <1>2, <1>3, <1>4, <1>5, <1>6, <1>7, <1>8, Zenon DEF Next, Worker

(* A batch that is cancelled with a later archive due stops, and stays so  *)
(* until it is over as cancelled or failed: the part of CancelEndsBatch    *)
(* that needs no fairness.                                                 *)
THEOREM CancelledBatchMakesNothing ==
  Spec => /\ [](CancelledBefore => Stopping)
          /\ [][Stopping => Stopping' \/ Stopped']_vars
<1>1. Init => Told
  BY DEF Init, Told
<1>2. Told /\ [Next]_vars => Told'
  BY ToldNext
<1>3. TypeOK /\ Told /\ [Next]_vars => [Stopping => Stopping' \/ Stopped']_vars
  BY StoppingNext
<1>4. TypeOK /\ CancelledBefore => Stopping
  <2> SUFFICES ASSUME TypeOK, CancelledBefore PROVE Stopping
    OBVIOUS
  <2>1. PICK a \in Archive : a > current /\ CheckedOf(a) # {}
    BY DEF CancelledBefore
  <2>2. a \in Due /\ a >= current
    BY <2>1, Bounds DEF Due, Archive, TypeOK
  <2> QED
    BY <2>2 DEF CancelledBefore, Stopping
<1>5. Spec => []TypeOK
  BY BatchTypesHold, PTL
<1> QED
  BY <1>1, <1>2, <1>3, <1>4, <1>5, PTL DEF Spec
=============================================================================
