----------------------------- MODULE SplitArchive -----------------------------
(***************************************************************************)
(* A compressed archive on its way through volumes: compress cuts the      *)
(* closed archive (SourceTraversal) into files, renames them into the      *)
(* destination one by one and takes them back when that fails; a reader    *)
(* that is given the first volume looks for the highest one and joins      *)
(* (prepare_archive_source).  Reader and writer are different processes,   *)
(* or the reader comes later; the user deletes volumes at any time.        *)
(*                                                                         *)
(* The archive is so many units long: one for its own directory, one for   *)
(* each entry and one for each buffer of its file.  The name is free;      *)
(* ArchiveOutput has what happens when it is not, and crashes.  Strays are *)
(* files whose suffix reads as a number but is not written like one, such  *)
(* as ".0003".                                                             *)
(***************************************************************************)
EXTENDS SourceTraversal

CONSTANTS
    SplitRequests,\* selections that are compressed with a split size
    SplitSize,    \* units of a volume
    MaxVolumes,   \* bound on volumes
    StrayChoices, \* what numbers strays may have
    MaxDeletions  \* bound on volumes the user deletes

ASSUME SplitAssumption ==
    /\ SplitSize \in Nat \ {0} /\ MaxVolumes \in Nat \ {0} /\ MaxDeletions \in Nat
    /\ SplitRequests \subseteq Selections
    /\ StrayChoices \subseteq SUBSET (1..MaxVolumes)

Number == 1..MaxVolumes
Missing == 0

VARIABLES
    job,        \* "waiting", "cutting", "renaming", "done", "undoing", "failed"
    position,   \* units of the archive that were cut
    ended,      \* the input met its end
    staged,     \* the sizes of the volumes in the staging directory
    renamed,    \* volumes renamed into the destination
    withdrawn,  \* volumes taken back
    shown,      \* the destination: which volume each number holds
    strays,     \* numbers that strays have
    deletions,  \* volumes the user has deleted
    reader,     \* "idle", "scanning", "joining", "joined", "refused"
    looked,     \* numbers the scan has come by
    highest,    \* the highest it has found
    joined,     \* what the joined archive consists of
    complete    \* the set was whole when the scan began, and while it ran

cutVars    == <<position, ended, staged>>
showVars   == <<renamed, withdrawn, shown>>
readVars   == <<reader, looked, highest, joined, complete>>
splitVars  == <<job, cutVars, showVars, strays, deletions, readVars>>

SplitInit ==
    /\ Init
    /\ job = "waiting" /\ position = 0 /\ ended = FALSE /\ staged = <<>>
    /\ renamed = 0 /\ withdrawn = 0 /\ shown = [n \in Number |-> Missing]
    /\ strays = {} /\ deletions = 0
    /\ reader = "idle" /\ looked = {} /\ highest = 1 /\ joined = <<>> /\ complete = FALSE

-----------------------------------------------------------------------------
SumOf(numbers) ==
    LET upTo[n \in 0..Len(numbers)] == IF n = 0 THEN 0 ELSE upTo[n - 1] + numbers[n]
    IN  upTo[Len(numbers)]

Total == 1 + SumOf([e \in DOMAIN archive |-> 1 + archive[e].written])

Splitting ==
    pc = "closed" /\ sources \in SplitRequests /\ job \in {"waiting", "cutting"}

Counted(bytes) == bytes > 0

(* One turn of the outer loop.  The input ends when a read asks for more   *)
(* than is left: an archive that fills its last volume exactly takes one   *)
(* more turn, with an empty file.                                          *)
CutVolume ==
    /\ Splitting /\ ~ended /\ ~cancelled
    /\ LET left  == Total - position
           bytes == IF left < SplitSize THEN left ELSE SplitSize
       IN  /\ position' = position + bytes
           /\ ended' = (bytes < SplitSize)
           /\ Counted(bytes) => Len(staged) < MaxVolumes
           /\ staged' = IF Counted(bytes) THEN Append(staged, bytes) ELSE staged
    /\ job' = "cutting"
    /\ UNCHANGED <<vars, showVars, strays, deletions, readVars>>

CutFails ==
    /\ Splitting
    /\ job' = "undoing"
    /\ UNCHANGED <<vars, cutVars, showVars, strays, deletions, readVars>>

(* The name is chosen for this number of volumes.                          *)
ChooseName ==
    /\ job = "cutting" /\ ended
    /\ job' = "renaming"
    /\ UNCHANGED <<vars, cutVars, showVars, strays, deletions, readVars>>

RenameVolume ==
    /\ job = "renaming" /\ renamed < Len(staged)
    /\ \/ /\ renamed' = renamed + 1
          /\ shown' = [shown EXCEPT ![renamed + 1] = renamed + 1]
          /\ UNCHANGED job
       \/ job' = "undoing" /\ UNCHANGED <<renamed, shown>>
    /\ UNCHANGED <<vars, cutVars, withdrawn, strays, deletions, readVars>>

Finish ==
    /\ job = "renaming" /\ renamed = Len(staged)
    /\ job' = "done"
    /\ UNCHANGED <<vars, cutVars, showVars, strays, deletions, readVars>>

(* Mutant: as many volumes are removed as were cut, renamed or not.        *)
TakeBackCut ==
    /\ job = "undoing"
    /\ IF withdrawn < Len(staged)
       THEN /\ withdrawn' = withdrawn + 1
            /\ shown' = [shown EXCEPT ![withdrawn + 1] = Missing]
            /\ UNCHANGED job
       ELSE job' = "failed" /\ UNCHANGED <<withdrawn, shown>>
    /\ UNCHANGED <<vars, cutVars, renamed, strays, deletions, readVars>>

(* The handler removes what was renamed, first volume first.               *)
TakeBack ==
    /\ job = "undoing"
    /\ IF withdrawn < renamed
       THEN /\ withdrawn' = withdrawn + 1
            /\ shown' = [shown EXCEPT ![withdrawn + 1] = Missing]
            /\ UNCHANGED job
       ELSE job' = "failed" /\ UNCHANGED <<withdrawn, shown>>
    /\ UNCHANGED <<vars, cutVars, renamed, strays, deletions, readVars>>

CancelCut ==
    /\ Splitting /\ ~cancelled /\ cancelled' = TRUE
    /\ UNCHANGED <<fsVars, jobVars, pc, walkVars, splitVars>>

-----------------------------------------------------------------------------
Exists(n) == shown[n] # Missing
Found(n)  == Exists(n) \/ n \in strays

(* A reader is given the first volume.                                     *)
OpenFirst ==
    /\ reader = "idle" /\ Exists(1)
    /\ reader' = "scanning" /\ looked' = {}
    /\ complete' = (job = "done" /\ deletions = 0)
    /\ strays' \in StrayChoices
    /\ UNCHANGED <<vars, job, cutVars, showVars, deletions, highest, joined>>

(* The directory iterator passes a number, in any order.                   *)
Look(n) ==
    /\ reader = "scanning" /\ n \notin looked
    /\ looked' = looked \cup {n}
    /\ highest' = IF Found(n) /\ n > highest THEN n ELSE highest
    /\ UNCHANGED <<vars, job, cutVars, showVars, strays, deletions, reader, joined,
                   complete>>

EndScan ==
    /\ reader = "scanning" /\ looked = Number
    /\ reader' = "joining"
    /\ UNCHANGED <<vars, job, cutVars, showVars, strays, deletions, looked, highest,
                   joined, complete>>

(* Mutant: a volume that is missing is passed over.                        *)
JoinVolumeOrSkip ==
    /\ reader = "joining"
    /\ LET n == Len(joined) + 1 IN
       IF n > highest THEN reader' = "joined" /\ UNCHANGED joined
       ELSE joined' = Append(joined, shown[n]) /\ UNCHANGED reader
    /\ UNCHANGED <<vars, job, cutVars, showVars, strays, deletions, looked, highest,
                   complete>>

(* Volumes are appended from the first to the highest; one that is missing *)
(* or cannot be read, and a cancellation, end the attempt.                 *)
JoinVolume ==
    /\ reader = "joining"
    /\ LET n == Len(joined) + 1 IN
       \/ /\ n > highest
          /\ reader' = "joined" /\ UNCHANGED joined
       \/ /\ n <= highest /\ Exists(n)
          /\ joined' = Append(joined, shown[n]) /\ UNCHANGED reader
       \/ /\ n <= highest
          /\ reader' = "refused" /\ UNCHANGED joined
    /\ UNCHANGED <<vars, job, cutVars, showVars, strays, deletions, looked, highest,
                   complete>>

DeleteVolume(n) ==
    /\ Exists(n) /\ deletions < MaxDeletions
    /\ deletions' = deletions + 1
    /\ shown' = [shown EXCEPT ![n] = Missing]
    /\ complete' = (complete /\ reader # "scanning")
    /\ UNCHANGED <<vars, job, cutVars, renamed, withdrawn, strays, reader, looked,
                   highest, joined>>

SplitNext ==
    \/ Next /\ UNCHANGED splitVars
    \/ CutVolume \/ CutFails \/ ChooseName \/ RenameVolume \/ Finish \/ TakeBack
    \/ CancelCut
    \/ OpenFirst \/ EndScan \/ JoinVolume
    \/ \E n \in Number : Look(n) \/ DeleteVolume(n)

SplitSpec == SplitInit /\ [][SplitNext]_<<vars, splitVars>>

-----------------------------------------------------------------------------
SplitTypeOK ==
    /\ TypeOK
    /\ job \in {"waiting", "cutting", "renaming", "done", "undoing", "failed"}
    /\ position \in 0..Total /\ ended \in BOOLEAN
    /\ staged \in Seq(0..SplitSize) /\ Len(staged) <= MaxVolumes
    /\ renamed \in 0..Len(staged) /\ withdrawn \in 0..renamed
    /\ shown \in [Number -> {Missing} \cup Number]
    /\ strays \subseteq Number /\ deletions \in 0..MaxDeletions
    /\ reader \in {"idle", "scanning", "joining", "joined", "refused"}
    /\ looked \subseteq Number /\ highest \in Number
    /\ joined \in Seq({Missing} \cup Number) /\ complete \in BOOLEAN

(* The volumes are the archive: full up to the last, which is not empty,   *)
(* and together all its units, also when the archive is an exact multiple  *)
(* of the split size.                                                      *)
VolumesFit ==
    /\ position = Total /\ SumOf(staged) = Total
    /\ \A n \in DOMAIN staged :
          staged[n] > 0 /\ (n < Len(staged) => staged[n] = SplitSize)

(* Cutting and joining give the archive back.  Before the first volume is  *)
(* renamed the volumes are the archive, and a reader that succeeds has     *)
(* joined the first of them in order and without a gap, whatever was       *)
(* renamed, taken back or deleted meanwhile; if the set was whole while it *)
(* looked for the highest volume, it has joined all of them.               *)
JoinsWhole ==
    /\ job \in {"renaming", "done"} => VolumesFit
    /\ reader = "joined" =>
          /\ \A n \in DOMAIN joined : joined[n] = n
          /\ complete => Len(joined) = Len(staged)
=============================================================================
