---------------------------- MODULE ArchiveOutput ----------------------------
(***************************************************************************)
(* How the archive engine brings a result into the destination folder.     *)
(*                                                                         *)
(* ArchiveEngine::compress and ArchiveEngine::extract work in a private    *)
(* directory ".unfurl-stage-<token>" beside the result, close the writer,  *)
(* look for a name nobody uses and rename what they made to that name.     *)
(* Looking and renaming are separate system calls: other engines, in other *)
(* processes, and the user share the folder and may act in between.  A     *)
(* split archive is renamed volume by volume, and a failure half way takes *)
(* the volumes back, after the staging directory.                          *)
(*                                                                         *)
(* A job is one call of compress or extract.  ProcOf gives its process: a  *)
(* process runs one job at a time (MainPage::Busy).                        *)
(*                                                                         *)
(* Faults: every step that can throw may throw (Abort), the user cancels,  *)
(* a process dies at any point, a staging token collides, and the user     *)
(* creates or deletes the names in UserNames at any moment.  Not modelled: *)
(* archive contents, a removal the file system refuses (remove_tree and    *)
(* the roll-back ignore such errors).                                      *)
(***************************************************************************)
EXTENDS Integers, FiniteSets

CONSTANTS
    Jobs,             \* calls of compress or extract
    ProcOf,           \* the process of each job
    Bases,            \* requested names: "Archive.zip", "notes", ...
    MaxIndex,         \* last " (i)" that is tried (9999 in the code)
    MaxVolumes,       \* bound on the volumes of a split archive
    Tokens,           \* staging directory tokens
    StagingAttempts,  \* attempts of make_staging (32 in the code)
    UserNames,        \* names the user creates and deletes while jobs run
    InitialNames,     \* names that may be taken from the start
    NoToken,          \* a job without a staging directory
    User, Nobody      \* whose an entry is when it is no job's

ASSUME JobsAssumption ==
    /\ IsFiniteSet(Jobs)
    /\ User \notin Jobs /\ Nobody \notin Jobs /\ User # Nobody
    /\ NoToken \notin Tokens
    /\ Bases # {}
ASSUME BoundsAssumption ==
    /\ MaxIndex \in Nat \ {0}
    /\ MaxVolumes \in Nat \ {0}
    /\ StagingAttempts \in Nat \ {0}
    /\ UserNames \subseteq Bases \X (1..MaxIndex) \X (0..MaxVolumes)
    /\ InitialNames \subseteq Bases \X (1..MaxIndex) \X (0..MaxVolumes)

VARIABLES
    dest,       \* the destination folder: what each name holds
    staging,    \* each token: "never" drawn, "present" directory, "gone"
    pc,         \* where each job is
    kind,       \* "archive", "split" or "extract"
    base,       \* the name a job asks for
    unwrapped,  \* extract: a single staged folder is published on its own
    token,      \* the staging directory of each job
    tries,      \* failed attempts of make_staging
    closed,     \* the writer was closed and the staged data is complete
    volumes,    \* files to rename: the volumes of a split archive, or one
    index,      \* the name candidate: 1 is the bare name, i is "name (i)"
    published,  \* files renamed into place so far
    withdrawn,  \* files taken back so far
    cancelled   \* what the job's cancelled() callback answers

jobVars == <<kind, base, unwrapped, token, tries, closed, volumes, index,
             published, withdrawn, cancelled>>
vars == <<dest, staging, pc, jobVars>>

-----------------------------------------------------------------------------
(* Names.  Volume 0 is the bare name; volume v is "<name>.00v".  *)
Names == Bases \X (1..MaxIndex) \X (0..MaxVolumes)
Kinds == {"archive", "split", "extract"}

Absent   == [by |-> Nobody, what |-> "none"]
UserFile == [by |-> User, what |-> "file"]
UserDir  == [by |-> User, what |-> "dir"]
Made(j)  == [by |-> j, what |-> IF kind[j] = "extract" THEN "dir" ELSE "file"]
Entries  == [by : Jobs \cup {User, Nobody}, what : {"none", "file", "dir"}]

Exists(n) == dest[n] # Absent

Volume(j, i) == IF kind[j] = "split" THEN i ELSE 0
Target(j, i) == <<base[j], index[j], Volume(j, i)>>

(* Mutants of Candidate: volumes are not looked at; the last one is not.   *)
CandidateBareOnly(j) == {<<base[j], index[j], 0>>}
CandidateMissesLast(j) ==
    {<<base[j], index[j], v>> :
        v \in IF kind[j] = "split" THEN 0..(volumes[j] - 1) ELSE {0}}

(* unique_path asks for the name only; unique_split_path also for each of  *)
(* the volumes it is about to write, and for no higher one.                *)
Candidate(j) ==
    IF kind[j] = "split"
    THEN {<<base[j], index[j], v>> : v \in 0..volumes[j]}
    ELSE {<<base[j], index[j], 0>>}

InStaging == {"writing", "splitting", "choosing", "renaming"}
Active    == {"staging", "cleanup", "unwinding", "rollback"} \cup InStaging
Final     == {"succeeded", "failed", "crashed"}

Running(j) == pc[j] \in Active
Alone(j)   == \A k \in Jobs : ProcOf[k] = ProcOf[j] => ~Running(k)

Goto(j, place) == pc' = [pc EXCEPT ![j] = place]

-----------------------------------------------------------------------------
Init ==
    /\ \E taken \in [InitialNames -> {Absent, UserFile, UserDir}] :
          dest = [n \in Names |-> IF n \in InitialNames THEN taken[n]
                                                        ELSE Absent]
    /\ staging   = [t \in Tokens |-> "never"]
    /\ pc        = [j \in Jobs |-> "idle"]
    /\ kind      = [j \in Jobs |-> "archive"]
    /\ base      = [j \in Jobs |-> CHOOSE b \in Bases : TRUE]
    /\ unwrapped = [j \in Jobs |-> FALSE]
    /\ token     = [j \in Jobs |-> NoToken]
    /\ tries     = [j \in Jobs |-> 0]
    /\ closed    = [j \in Jobs |-> FALSE]
    /\ volumes   = [j \in Jobs |-> 0]
    /\ index     = [j \in Jobs |-> 1]
    /\ published = [j \in Jobs |-> 0]
    /\ withdrawn = [j \in Jobs |-> 0]
    /\ cancelled = [j \in Jobs |-> FALSE]

-----------------------------------------------------------------------------
(* Mutants of the actions below: bugs this code could have.                *)

(* create_directories in place of create_directory: an existing directory  *)
(* will do.                                                                *)
MakeStagingReused(j, t) ==
    /\ pc[j] = "staging" /\ tries[j] < StagingAttempts
    /\ staging[t] # "gone"
    /\ staging' = [staging EXCEPT ![t] = "present"]
    /\ token' = [token EXCEPT ![j] = t]
    /\ Goto(j, "writing")
    /\ UNCHANGED <<dest, kind, base, unwrapped, tries, closed, volumes, index,
                   published, withdrawn, cancelled>>

(* The attempts run out and nothing is thrown.                             *)
GiveUpStagingFirstOnly(j) ==
    /\ pc[j] = "staging" /\ tries[j] = 0
    /\ Goto(j, "failed")
    /\ UNCHANGED <<dest, staging, jobVars>>

(* The archive is published before its writer is closed.                   *)
FinishArchiveOpen(j) ==
    /\ pc[j] = "writing" /\ kind[j] # "extract" /\ ~cancelled[j]
    /\ Goto(j, IF kind[j] = "split" THEN "splitting" ELSE "choosing")
    /\ volumes' = [volumes EXCEPT ![j] = IF kind[j] = "split" THEN 0 ELSE 1]
    /\ UNCHANGED <<dest, staging, kind, base, unwrapped, token, tries, closed,
                   index, published, withdrawn, cancelled>>

(* No check_cancelled after the reader was closed.                         *)
FinishExtractUnchecked(j) ==
    /\ pc[j] = "writing" /\ kind[j] = "extract"
    /\ Goto(j, "choosing")
    /\ closed' = [closed EXCEPT ![j] = TRUE]
    /\ volumes' = [volumes EXCEPT ![j] = 1]
    /\ UNCHANGED <<dest, staging, kind, base, unwrapped, token, tries, index,
                   published, withdrawn, cancelled>>

(* unique_path never stops counting.                                       *)
NextNameUnbounded(j) ==
    /\ pc[j] = "choosing" /\ index[j] <= MaxIndex + 1
    /\ index[j] <= MaxIndex => \E n \in Candidate(j) : Exists(n)
    /\ index' = [index EXCEPT ![j] = @ + 1]
    /\ UNCHANGED <<dest, staging, pc, kind, base, unwrapped, token, tries,
                   closed, volumes, published, withdrawn, cancelled>>

(* The staging directory is only removed after success.                    *)
RemoveStagingOnSuccess(j) ==
    /\ pc[j] \in {"cleanup", "unwinding"}
    /\ staging' = IF pc[j] = "cleanup"
                  THEN [staging EXCEPT ![token[j]] = "gone"] ELSE staging
    /\ Goto(j, IF pc[j] = "cleanup" THEN "succeeded" ELSE "rollback")
    /\ UNCHANGED <<dest, jobVars>>

(* The roll-back forgets that the job ended up under another name.         *)
WithdrawRequested(j) ==
    LET n == <<base[j], 1, Volume(j, withdrawn[j] + 1)>> IN
    /\ pc[j] = "rollback" /\ withdrawn[j] < published[j]
    /\ dest' = IF dest[n].what = "file" THEN [dest EXCEPT ![n] = Absent]
                                        ELSE dest
    /\ withdrawn' = [withdrawn EXCEPT ![j] = @ + 1]
    /\ UNCHANGED <<staging, pc, kind, base, unwrapped, token, tries, closed,
                   volumes, index, published, cancelled>>

(* The catch block leaves renamed volumes behind.                          *)
FailAtOnce(j) ==
    /\ pc[j] = "rollback"
    /\ Goto(j, "failed")
    /\ UNCHANGED <<dest, staging, jobVars>>

-----------------------------------------------------------------------------
(* compress or extract is called and its arguments are accepted.  *)
Start(j) ==
    /\ pc[j] = "idle" /\ Alone(j)
    /\ \E k \in Kinds : kind' = [kind EXCEPT ![j] = k]
    /\ \E b \in Bases : base' = [base EXCEPT ![j] = b]
    /\ Goto(j, "staging")
    /\ UNCHANGED <<dest, staging, unwrapped, token, tries, closed, volumes,
                   index, published, withdrawn, cancelled>>

(* The arguments are refused, or the job was cancelled before it began:    *)
(* nothing has been created yet.                                           *)
Refuse(j) ==
    /\ pc[j] = "idle" /\ Alone(j)
    /\ Goto(j, "failed")
    /\ UNCHANGED <<dest, staging, jobVars>>

(* make_staging: create_directory succeeds only for a directory that is    *)
(* not there.  A token starts with a clock tick, so one that has been used *)
(* up is not drawn again.                                                  *)
MakeStaging(j, t) ==
    /\ pc[j] = "staging" /\ tries[j] < StagingAttempts
    /\ staging[t] = "never"
    /\ staging' = [staging EXCEPT ![t] = "present"]
    /\ token' = [token EXCEPT ![j] = t]
    /\ Goto(j, "writing")
    /\ UNCHANGED <<dest, kind, base, unwrapped, tries, closed, volumes, index,
                   published, withdrawn, cancelled>>

(* An attempt that creates nothing: a collision, or an error.  *)
MissStaging(j) ==
    /\ pc[j] = "staging" /\ tries[j] < StagingAttempts
    /\ tries' = [tries EXCEPT ![j] = @ + 1]
    /\ UNCHANGED <<dest, staging, pc, kind, base, unwrapped, token, closed,
                   volumes, index, published, withdrawn, cancelled>>

(* make_staging throws outside the try block: there is nothing to clean.   *)
(* Either the destination folder cannot be made or the attempts ran out.   *)
GiveUpStaging(j) ==
    /\ pc[j] = "staging" /\ tries[j] \in {0, StagingAttempts}
    /\ Goto(j, "failed")
    /\ UNCHANGED <<dest, staging, jobVars>>

(* compress: all sources were appended, the writer closed, and the job was *)
(* not cancelled.  A split archive is cut into volumes next.               *)
FinishArchive(j) ==
    /\ pc[j] = "writing" /\ kind[j] # "extract" /\ ~cancelled[j]
    /\ Goto(j, IF kind[j] = "split" THEN "splitting" ELSE "choosing")
    /\ closed' = [closed EXCEPT ![j] = TRUE]
    /\ volumes' = [volumes EXCEPT ![j] = IF kind[j] = "split" THEN 0 ELSE 1]
    /\ UNCHANGED <<dest, staging, kind, base, unwrapped, token, tries, index,
                   published, withdrawn, cancelled>>

(* extract: the same, then publish_staged_directory looks at what was      *)
(* staged.  One folder and nothing else is published under its own name.   *)
FinishExtract(j) ==
    /\ pc[j] = "writing" /\ kind[j] = "extract" /\ ~cancelled[j]
    /\ Goto(j, "choosing")
    /\ closed' = [closed EXCEPT ![j] = TRUE]
    /\ volumes' = [volumes EXCEPT ![j] = 1]
    /\ \/ UNCHANGED <<base, unwrapped>>
       \/ /\ unwrapped' = [unwrapped EXCEPT ![j] = TRUE]
          /\ \E b \in Bases : base' = [base EXCEPT ![j] = b]
    /\ UNCHANGED <<dest, staging, kind, token, tries, index, published,
                   withdrawn, cancelled>>

WriteVolume(j) ==
    /\ pc[j] = "splitting" /\ ~cancelled[j] /\ volumes[j] < MaxVolumes
    /\ volumes' = [volumes EXCEPT ![j] = @ + 1]
    /\ UNCHANGED <<dest, staging, pc, kind, base, unwrapped, token, tries,
                   closed, index, published, withdrawn, cancelled>>

(* The archive file is at its end; the loop leaves without another check.  *)
FinishSplit(j) ==
    /\ pc[j] = "splitting" /\ volumes[j] > 0
    /\ Goto(j, "choosing")
    /\ UNCHANGED <<dest, staging, jobVars>>

(* unique_path, unique_split_path: the first candidate nobody uses.  *)
ChooseName(j) ==
    /\ pc[j] = "choosing" /\ index[j] <= MaxIndex
    /\ \A n \in Candidate(j) : ~Exists(n)
    /\ Goto(j, "renaming")
    /\ UNCHANGED <<dest, staging, jobVars>>

NextName(j) ==
    /\ pc[j] = "choosing" /\ index[j] <= MaxIndex
    /\ \E n \in Candidate(j) : Exists(n)
    /\ index' = [index EXCEPT ![j] = @ + 1]
    /\ UNCHANGED <<dest, staging, pc, kind, base, unwrapped, token, tries,
                   closed, volumes, published, withdrawn, cancelled>>

(* std::filesystem::rename puts a file in the place of a file; every other *)
(* clash is an error (Abort).  The staging directory itself is what an     *)
(* extraction renames, unless its single folder was taken out of it.       *)
Rename(j) ==
    LET n == Target(j, published[j] + 1) IN
    /\ pc[j] = "renaming"
    /\ \/ ~Exists(n)
       \/ dest[n].what = "file" /\ kind[j] # "extract"
    /\ dest' = [dest EXCEPT ![n] = Made(j)]
    /\ staging' = IF kind[j] = "extract" /\ ~unwrapped[j]
                  THEN [staging EXCEPT ![token[j]] = "gone"] ELSE staging
    /\ published' = [published EXCEPT ![j] = @ + 1]
    /\ Goto(j, IF published[j] + 1 = volumes[j] THEN "cleanup" ELSE "renaming")
    /\ UNCHANGED <<kind, base, unwrapped, token, tries, closed, volumes, index,
                   withdrawn, cancelled>>

(* Any exception inside the try block: an I/O error, a cancellation, no    *)
(* name left, a rename that fails.                                         *)
Abort(j) ==
    /\ pc[j] \in InStaging
    /\ Goto(j, "unwinding")
    /\ UNCHANGED <<dest, staging, jobVars>>

(* remove_tree(staging) after success, and as the first step of the catch  *)
(* block.                                                                  *)
RemoveStaging(j) ==
    /\ pc[j] \in {"cleanup", "unwinding"}
    /\ staging' = [staging EXCEPT ![token[j]] = "gone"]
    /\ Goto(j, IF pc[j] = "cleanup" THEN "succeeded" ELSE "rollback")
    /\ UNCHANGED <<dest, jobVars>>

(* The catch block of compress removes what it renamed, first volume       *)
(* first, by name: whatever file is there now.                             *)
Withdraw(j) ==
    LET n == Target(j, withdrawn[j] + 1) IN
    /\ pc[j] = "rollback" /\ withdrawn[j] < published[j]
    /\ dest' = IF dest[n].what = "file" THEN [dest EXCEPT ![n] = Absent]
                                        ELSE dest
    /\ withdrawn' = [withdrawn EXCEPT ![j] = @ + 1]
    /\ UNCHANGED <<staging, pc, kind, base, unwrapped, token, tries, closed,
                   volumes, index, published, cancelled>>

Fail(j) ==
    /\ pc[j] = "rollback" /\ withdrawn[j] = published[j]
    /\ Goto(j, "failed")
    /\ UNCHANGED <<dest, staging, jobVars>>

-----------------------------------------------------------------------------
(* The environment.  *)

Cancel(j) ==
    /\ Running(j) /\ ~cancelled[j]
    /\ cancelled' = [cancelled EXCEPT ![j] = TRUE]
    /\ UNCHANGED <<dest, staging, pc, kind, base, unwrapped, token, tries,
                   closed, volumes, index, published, withdrawn>>

(* The process of job j ends: nothing of the job is unwound.  *)
Crash(j) ==
    /\ Running(j)
    /\ Goto(j, "crashed")
    /\ UNCHANGED <<dest, staging, jobVars>>

UserCreates(n) ==
    /\ ~Exists(n)
    /\ dest' = [dest EXCEPT ![n] = UserFile]
    /\ UNCHANGED <<staging, pc, jobVars>>

UserDeletes(n) ==
    /\ Exists(n)
    /\ dest' = [dest EXCEPT ![n] = Absent]
    /\ UNCHANGED <<staging, pc, jobVars>>

-----------------------------------------------------------------------------
(* What a job does on its own once it has started.  *)
Step(j) ==
    \/ \E t \in Tokens : MakeStaging(j, t)
    \/ MissStaging(j) \/ GiveUpStaging(j)
    \/ FinishArchive(j) \/ FinishExtract(j)
    \/ WriteVolume(j) \/ FinishSplit(j)
    \/ ChooseName(j) \/ NextName(j) \/ Rename(j)
    \/ Abort(j)
    \/ RemoveStaging(j) \/ Withdraw(j) \/ Fail(j)

Environment ==
    \/ \E j \in Jobs : Start(j) \/ Refuse(j) \/ Cancel(j) \/ Crash(j)
    \/ \E n \in UserNames : UserCreates(n) \/ UserDeletes(n)

Next == Environment \/ \E j \in Jobs : Step(j)

Spec == Init /\ [][Next]_vars

(* A running job's thread keeps running; nobody has to start, cancel or    *)
(* kill one.                                                               *)
FairSpec == Spec /\ \A j \in Jobs : WF_vars(Step(j))

-----------------------------------------------------------------------------
(* What prepare_archive_source joins when <<b, i, 1>> is opened: the scan  *)
(* of the folder finds the highest volume, and every volume up to it has   *)
(* to be there.                                                            *)
IsFile(n) == dest[n].what = "file"
Highest(b, i) ==
    CHOOSE v \in 1..MaxVolumes :
        /\ v = 1 \/ IsFile(<<b, i, v>>)
        /\ \A w \in 1..MaxVolumes : IsFile(<<b, i, w>>) => w <= v
Joins(b, i) == \A v \in 1..Highest(b, i) : IsFile(<<b, i, v>>)

-----------------------------------------------------------------------------
(* Every variable stays within its range.                                  *)
TypeOK ==
    /\ dest \in [Names -> Entries]
    /\ staging \in [Tokens -> {"never", "present", "gone"}]
    /\ pc \in [Jobs -> {"idle"} \cup Active \cup Final]
    /\ kind \in [Jobs -> Kinds]
    /\ base \in [Jobs -> Bases]
    /\ unwrapped \in [Jobs -> BOOLEAN]
    /\ token \in [Jobs -> Tokens \cup {NoToken}]
    /\ tries \in [Jobs -> 0..StagingAttempts]
    /\ closed \in [Jobs -> BOOLEAN]
    /\ volumes \in [Jobs -> 0..MaxVolumes]
    /\ index \in [Jobs -> 1..(MaxIndex + 1)]
    /\ published \in [Jobs -> 0..MaxVolumes]
    /\ withdrawn \in [Jobs -> 0..MaxVolumes]
    /\ cancelled \in [Jobs -> BOOLEAN]

(* The staging directory a job works in stays there until the job removes  *)
(* or renames it, and no other job of any process works in it              *)
(* (make_staging takes a directory only when create_directory made it).    *)
StagingPrivate ==
    /\ \A j \in Jobs : pc[j] \in InStaging => /\ token[j] \in Tokens
                                            /\ staging[token[j]] = "present"
    /\ \A j, k \in Jobs :
          j # k /\ token[j] # NoToken => token[j] # token[k]

(* Archive writes are renamed into place only after the writer closed:     *)
(* whatever happens, also after a crash, a name of the destination never   *)
(* shows a result that is still being written or cut into volumes.         *)
OnlyComplete ==
    \A n \in Names, j \in Jobs :
        dest[n].by = j => closed[j] /\ pc[j] \notin {"writing", "splitting"}

(* Existing entries are never replaced or removed: an entry leaves the     *)
(* folder only when the failing job that made it takes it back.            *)
ExistingKept ==
    [][\A n \in Names : Exists(n) /\ dest'[n] # dest[n] =>
          /\ dest'[n] = Absent
          /\ dest[n].by \in Jobs /\ pc[dest[n].by] = "rollback"]_vars

(* What a job reported as its result is in the folder, all of it, and      *)
(* stays there.                                                            *)
ResultStays ==
    \A j \in Jobs : pc[j] = "succeeded" =>
        \A i \in 1..volumes[j] : dest[Target(j, i)] = Made(j)

(* A job that failed or was cancelled leaves neither an output nor a       *)
(* staging directory, and one that succeeded leaves no staging directory.  *)
NothingLeftBehind ==
    \A j \in Jobs :
        /\ pc[j] \in {"succeeded", "failed"} /\ token[j] # NoToken
              => staging[token[j]] = "gone"
        /\ pc[j] = "failed" => \A n \in Names : dest[n].by # j

(* Publishing is atomic: unless a job is just renaming or taking back, the *)
(* folder holds all files of its result or none, whoever was interrupted.  *)
WholeSets ==
    \A j \in Jobs :
        pc[j] \notin {"renaming", "unwinding", "rollback"} =>
            Cardinality({n \in Names : dest[n].by = j}) \in {0, volumes[j]}

(* Selecting the first volume of a split archive that was reported as      *)
(* written joins exactly its volumes.                                      *)
JoinsBack ==
    \A j \in Jobs : pc[j] = "succeeded" /\ kind[j] = "split" =>
        /\ Joins(base[j], index[j])
        /\ Highest(base[j], index[j]) = volumes[j]

(* A job cancelled while it reads and writes does not succeed: it is       *)
(* unwound.                                                                *)
CancelStops ==
    \A j \in Jobs : (pc[j] = "writing" /\ cancelled[j])
                      ~> (pc[j] \in {"failed", "crashed"})

(* Every job that starts comes to an end.                                  *)
Terminates ==
    \A j \in Jobs : Running(j) ~> pc[j] \in Final

-----------------------------------------------------------------------------
(* The engine keeps the promise of ArchivePromise: a caller sees the phase *)
(* of a job only as one outcome.                                           *)
Outcome(j) ==
    IF pc[j] = "idle" THEN "pending"
    ELSE IF Running(j) THEN "running" ELSE pc[j]

Promise == INSTANCE ArchivePromise
             WITH entries <- dest, outcome <- [j \in Jobs |-> Outcome(j)]

(* Seen from outside, every step of the engine is a step of the promise.   *)
KeepsPromise == Promise!Spec
=============================================================================
