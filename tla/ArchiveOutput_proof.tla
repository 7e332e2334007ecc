------------------------- MODULE ArchiveOutput_proof -------------------------
(***************************************************************************)
(* Proofs about ArchiveOutput for any number of jobs, names and volumes.   *)
(***************************************************************************)
EXTENDS ArchiveOutput, FiniteSetTheorems, TLAPS

(* What Init and the steps say of the job variables, in one definition.    *)
USE DEF jobVars

-----------------------------------------------------------------------------
(* Where a job is decides how far its counters have come.                  *)
CountersOf(j) ==
    /\ pc[j] \in {"choosing", "renaming", "cleanup", "succeeded"} =>
          volumes[j] > 0
    /\ pc[j] \in {"choosing", "renaming", "cleanup", "succeeded", "splitting"}
          => closed[j]
    /\ published[j] > 0 => closed[j] /\ index[j] <= MaxIndex
    /\ pc[j] \in {"renaming", "cleanup", "succeeded"} => index[j] <= MaxIndex
    /\ published[j] > 0 =>
          pc[j] \notin {"idle", "staging", "writing", "splitting", "choosing"}
    /\ published[j] <= volumes[j] /\ withdrawn[j] <= published[j]
    /\ withdrawn[j] > 0 => pc[j] \in {"rollback", "failed", "crashed"}
    /\ pc[j] = "renaming" => published[j] < volumes[j]
    /\ pc[j] \in {"cleanup", "succeeded"} => published[j] = volumes[j]
    /\ pc[j] = "failed" => withdrawn[j] = published[j]
    /\ kind[j] # "split" => volumes[j] <= 1 /\ pc[j] # "splitting"
    /\ pc[j] \in {"unwinding", "rollback"} /\ published[j] > 0 =>
          kind[j] = "split"
    /\ pc[j] \in {"idle", "staging"} => volumes[j] = 0

Counters == \A j \in Jobs : CountersOf(j)

(* Every variable starts in its range.                                     *)
LEMMA TypeInit == Init => TypeOK
  <1> SUFFICES ASSUME Init PROVE TypeOK
    OBVIOUS
  <1> USE JobsAssumption, BoundsAssumption DEF Init, TypeOK
  <1>1. dest \in [Names -> Entries]
    BY DEF Names, Entries, Absent, UserFile, UserDir
  <1>2. base \in [Jobs -> Bases]
    OBVIOUS
  <1>3. QED
    BY <1>1, <1>2 DEF Kinds, Active, Final

(* Each step leaves every variable in its range.                           *)
LEMMA TypeNext == TypeOK /\ Counters /\ [Next]_vars => TypeOK'
  <1> SUFFICES ASSUME TypeOK, Counters, [Next]_vars PROVE TypeOK'
    OBVIOUS
  <1> USE JobsAssumption, BoundsAssumption
      DEF TypeOK, Goto, Kinds, Active, Final, InStaging
  <1>1. ASSUME NEW j \in Jobs, Start(j) PROVE TypeOK'
    BY <1>1 DEF Start
  <1>2. ASSUME NEW j \in Jobs, Refuse(j) PROVE TypeOK'
    BY <1>2 DEF Refuse
  <1>3. ASSUME NEW j \in Jobs, NEW t \in Tokens, MakeStaging(j, t)
        PROVE TypeOK'
    BY <1>3 DEF MakeStaging
  <1>4. ASSUME NEW j \in Jobs, MissStaging(j) PROVE TypeOK'
    BY <1>4 DEF MissStaging
  <1>5. ASSUME NEW j \in Jobs, GiveUpStaging(j) PROVE TypeOK'
    BY <1>5 DEF GiveUpStaging
  <1>6. ASSUME NEW j \in Jobs, FinishArchive(j) PROVE TypeOK'
    BY <1>6 DEF FinishArchive
  <1>7. ASSUME NEW j \in Jobs, FinishExtract(j) PROVE TypeOK'
    <2>1. CASE UNCHANGED <<base, unwrapped>>
      BY <1>7, <2>1 DEF FinishExtract
    <2>2. ASSUME NEW b \in Bases, base' = [base EXCEPT ![j] = b],
                 unwrapped' = [unwrapped EXCEPT ![j] = TRUE]
          PROVE  TypeOK'
      BY <1>7, <2>2 DEF FinishExtract
    <2>3. QED
      BY <1>7, <2>1, <2>2 DEF FinishExtract
  <1>8. ASSUME NEW j \in Jobs, WriteVolume(j) PROVE TypeOK'
    BY <1>8 DEF WriteVolume
  <1>9. ASSUME NEW j \in Jobs, FinishSplit(j) PROVE TypeOK'
    BY <1>9 DEF FinishSplit
  <1>10. ASSUME NEW j \in Jobs, ChooseName(j) PROVE TypeOK'
    BY <1>10 DEF ChooseName
  <1>11. ASSUME NEW j \in Jobs, NextName(j) PROVE TypeOK'
    BY <1>11 DEF NextName
  <1>12. ASSUME NEW j \in Jobs, Rename(j) PROVE TypeOK'
    <2>1. dest' \in [Names -> Entries]
      BY <1>12 DEF Rename, Made, Entries
    <2>2. published' \in [Jobs -> 0..MaxVolumes]
      BY <1>12 DEF Rename, Counters, CountersOf
    <2>3. staging' \in [Tokens -> {"never", "present", "gone"}]
      BY <1>12 DEF Rename
    <2>4. QED
      BY <1>12, <2>1, <2>2, <2>3 DEF Rename
  <1>13. ASSUME NEW j \in Jobs, Abort(j) PROVE TypeOK'
    BY <1>13 DEF Abort
  <1>14. ASSUME NEW j \in Jobs, RemoveStaging(j) PROVE TypeOK'
    BY <1>14 DEF RemoveStaging
  <1>15. ASSUME NEW j \in Jobs, Withdraw(j) PROVE TypeOK'
    <2>1. dest' \in [Names -> Entries]
      BY <1>15 DEF Withdraw, Absent, Entries
    <2>2. withdrawn' \in [Jobs -> 0..MaxVolumes]
      BY <1>15 DEF Withdraw
    <2>3. QED
      BY <1>15, <2>1, <2>2 DEF Withdraw
  <1>16. ASSUME NEW j \in Jobs, Fail(j) PROVE TypeOK'
    BY <1>16 DEF Fail
  <1>17. ASSUME NEW j \in Jobs, Cancel(j) PROVE TypeOK'
    BY <1>17 DEF Cancel
  <1>18. ASSUME NEW j \in Jobs, Crash(j) PROVE TypeOK'
    BY <1>18 DEF Crash
  <1>19. ASSUME NEW n \in UserNames, UserCreates(n) PROVE TypeOK'
    BY <1>19 DEF UserCreates, UserFile, Entries
  <1>20. ASSUME NEW n \in UserNames, UserDeletes(n) PROVE TypeOK'
    BY <1>20 DEF UserDeletes, Absent, Entries
  <1>21. CASE UNCHANGED vars
    BY <1>21 DEF vars
  <1>22. QED
    BY <1>1, <1>2, <1>3, <1>4, <1>5, <1>6, <1>7, <1>8, <1>9, <1>10, <1>11,
       <1>12, <1>13, <1>14, <1>15, <1>16, <1>17, <1>18, <1>19, <1>20, <1>21
       DEF Next, Environment, Step

(* No job has a volume or a published file at the beginning.               *)
LEMMA CountersInit == Init => Counters
  BY JobsAssumption, BoundsAssumption DEF Init, Counters, CountersOf

(* Each step keeps phase, volumes and published files consistent.          *)
LEMMA CountersNext == TypeOK /\ Counters /\ [Next]_vars => Counters'
  <1> SUFFICES ASSUME TypeOK, Counters, [Next]_vars,
                      NEW k \in Jobs
               PROVE  CountersOf(k)'
    BY DEF Counters
  <1> CountersOf(k)
    BY DEF Counters
  <1> USE JobsAssumption, BoundsAssumption
      DEF TypeOK, Goto, CountersOf, Kinds, InStaging
  <1>1. ASSUME NEW j \in Jobs, Start(j) PROVE CountersOf(k)'
    BY <1>1 DEF Start
  <1>2. ASSUME NEW j \in Jobs, Refuse(j) PROVE CountersOf(k)'
    BY <1>2 DEF Refuse
  <1>3. ASSUME NEW j \in Jobs, NEW t \in Tokens, MakeStaging(j, t)
        PROVE CountersOf(k)'
    BY <1>3 DEF MakeStaging
  <1>4. ASSUME NEW j \in Jobs, MissStaging(j) PROVE CountersOf(k)'
    BY <1>4 DEF MissStaging
  <1>5. ASSUME NEW j \in Jobs, GiveUpStaging(j) PROVE CountersOf(k)'
    BY <1>5 DEF GiveUpStaging
  <1>6. ASSUME NEW j \in Jobs, FinishArchive(j) PROVE CountersOf(k)'
    BY <1>6 DEF FinishArchive
  <1>7. ASSUME NEW j \in Jobs, FinishExtract(j) PROVE CountersOf(k)'
    BY <1>7 DEF FinishExtract
  <1>8. ASSUME NEW j \in Jobs, WriteVolume(j) PROVE CountersOf(k)'
    BY <1>8 DEF WriteVolume
  <1>9. ASSUME NEW j \in Jobs, FinishSplit(j) PROVE CountersOf(k)'
    BY <1>9 DEF FinishSplit
  <1>10. ASSUME NEW j \in Jobs, ChooseName(j) PROVE CountersOf(k)'
    BY <1>10 DEF ChooseName
  <1>11. ASSUME NEW j \in Jobs, NextName(j) PROVE CountersOf(k)'
    BY <1>11 DEF NextName
  <1>12. ASSUME NEW j \in Jobs, Rename(j) PROVE CountersOf(k)'
    BY <1>12 DEF Rename
  <1>13. ASSUME NEW j \in Jobs, Abort(j) PROVE CountersOf(k)'
    BY <1>13 DEF Abort
  <1>14. ASSUME NEW j \in Jobs, RemoveStaging(j) PROVE CountersOf(k)'
    BY <1>14 DEF RemoveStaging
  <1>15. ASSUME NEW j \in Jobs, Withdraw(j) PROVE CountersOf(k)'
    BY <1>15 DEF Withdraw
  <1>16. ASSUME NEW j \in Jobs, Fail(j) PROVE CountersOf(k)'
    BY <1>16 DEF Fail
  <1>17. ASSUME NEW j \in Jobs, Cancel(j) PROVE CountersOf(k)'
    BY <1>17 DEF Cancel
  <1>18. ASSUME NEW j \in Jobs, Crash(j) PROVE CountersOf(k)'
    BY <1>18 DEF Crash
  <1>19. ASSUME NEW n \in UserNames, UserCreates(n) PROVE CountersOf(k)'
    BY <1>19 DEF UserCreates
  <1>20. ASSUME NEW n \in UserNames, UserDeletes(n) PROVE CountersOf(k)'
    BY <1>20 DEF UserDeletes
  <1>21. CASE UNCHANGED vars
    BY <1>21 DEF vars
  <1>22. QED
    BY <1>1, <1>2, <1>3, <1>4, <1>5, <1>6, <1>7, <1>8, <1>9, <1>10, <1>11,
       <1>12, <1>13, <1>14, <1>15, <1>16, <1>17, <1>18, <1>19, <1>20, <1>21
       DEF Next, Environment, Step

-----------------------------------------------------------------------------
(* A token belongs to the job that drew it for good.  Its directory is     *)
(* there while the job works in it and gone once the job has cleaned up.   *)
TokenOf(j) ==
    /\ pc[j] \in {"idle", "staging"} => token[j] = NoToken
    /\ pc[j] \in InStaging \cup {"cleanup", "unwinding", "rollback", "succeeded"}
          => token[j] \in Tokens
    /\ pc[j] \in InStaging => staging[token[j]] = "present"
    /\ token[j] # NoToken => staging[token[j]] # "never"
    /\ pc[j] \in {"rollback", "succeeded", "failed"} /\ token[j] # NoToken
          => staging[token[j]] = "gone"

OneOwner ==
    \A j, k \in Jobs : j # k /\ token[j] # NoToken => token[j] # token[k]

Tokening == OneOwner /\ \A j \in Jobs : TokenOf(j)

(* No token has been drawn at the beginning.                               *)
LEMMA TokeningInit == Init => Tokening
  BY JobsAssumption DEF Init, Tokening, OneOwner, TokenOf, InStaging

(* A token is drawn only once, so that no step makes two jobs share one.   *)
LEMMA OneOwnerNext == TypeOK /\ Tokening /\ [Next]_vars => OneOwner'
  <1> SUFFICES ASSUME TypeOK, Tokening, [Next]_vars,
                      NEW k \in Jobs, NEW l \in Jobs, k # l,
                      token'[k] # NoToken
               PROVE  token'[k] # token'[l]
    BY DEF OneOwner
  <1>1. CASE UNCHANGED token
    BY <1>1 DEF Tokening, OneOwner
  <1>2. ASSUME NEW j \in Jobs, NEW t \in Tokens, MakeStaging(j, t)
        PROVE  token'[k] # token'[l]
    BY <1>2, JobsAssumption
       DEF MakeStaging, Tokening, OneOwner, TokenOf, TypeOK
  <1>3. QED
    BY <1>1, <1>2
       DEF Next, Environment, Step, vars, Start, Refuse, MissStaging,
           GiveUpStaging, FinishArchive, FinishExtract, WriteVolume,
           FinishSplit, ChooseName, NextName, Rename, Abort, RemoveStaging,
           Withdraw, Fail, Cancel, Crash, UserCreates, UserDeletes

(* Each step keeps token, staging directory and phase consistent.          *)
LEMMA TokenOfNext ==
    TypeOK /\ Counters /\ Tokening /\ [Next]_vars => \A j \in Jobs : TokenOf(j)'
  <1> SUFFICES ASSUME TypeOK, Counters, Tokening, [Next]_vars,
                      NEW k \in Jobs
               PROVE  TokenOf(k)'
    OBVIOUS
  <1> TokenOf(k)
    BY DEF Tokening
  <1> USE JobsAssumption, BoundsAssumption
      DEF TypeOK, Goto, TokenOf, InStaging
  <1>1. ASSUME NEW j \in Jobs, Start(j) PROVE TokenOf(k)'
    BY <1>1 DEF Start
  <1>2. ASSUME NEW j \in Jobs, Refuse(j) PROVE TokenOf(k)'
    BY <1>2 DEF Refuse
  <1>3. ASSUME NEW j \in Jobs, NEW t \in Tokens, MakeStaging(j, t)
        PROVE TokenOf(k)'
    BY <1>3 DEF MakeStaging, Tokening, OneOwner
  <1>4. ASSUME NEW j \in Jobs, MissStaging(j) PROVE TokenOf(k)'
    BY <1>4 DEF MissStaging
  <1>5. ASSUME NEW j \in Jobs, GiveUpStaging(j) PROVE TokenOf(k)'
    BY <1>5 DEF GiveUpStaging
  <1>6. ASSUME NEW j \in Jobs, FinishArchive(j) PROVE TokenOf(k)'
    BY <1>6 DEF FinishArchive
  <1>7. ASSUME NEW j \in Jobs, FinishExtract(j) PROVE TokenOf(k)'
    BY <1>7 DEF FinishExtract
  <1>8. ASSUME NEW j \in Jobs, WriteVolume(j) PROVE TokenOf(k)'
    BY <1>8 DEF WriteVolume
  <1>9. ASSUME NEW j \in Jobs, FinishSplit(j) PROVE TokenOf(k)'
    BY <1>9 DEF FinishSplit
  <1>10. ASSUME NEW j \in Jobs, ChooseName(j) PROVE TokenOf(k)'
    BY <1>10 DEF ChooseName
  <1>11. ASSUME NEW j \in Jobs, NextName(j) PROVE TokenOf(k)'
    BY <1>11 DEF NextName
  <1>12. ASSUME NEW j \in Jobs, Rename(j) PROVE TokenOf(k)'
    BY <1>12 DEF Rename, Counters, CountersOf, Kinds, Tokening, OneOwner
  <1>13. ASSUME NEW j \in Jobs, Abort(j) PROVE TokenOf(k)'
    BY <1>13 DEF Abort
  <1>14. ASSUME NEW j \in Jobs, RemoveStaging(j) PROVE TokenOf(k)'
    BY <1>14 DEF RemoveStaging, Tokening, OneOwner
  <1>15. ASSUME NEW j \in Jobs, Withdraw(j) PROVE TokenOf(k)'
    BY <1>15 DEF Withdraw
  <1>16. ASSUME NEW j \in Jobs, Fail(j) PROVE TokenOf(k)'
    BY <1>16 DEF Fail
  <1>17. ASSUME NEW j \in Jobs, Cancel(j) PROVE TokenOf(k)'
    BY <1>17 DEF Cancel
  <1>18. ASSUME NEW j \in Jobs, Crash(j) PROVE TokenOf(k)'
    BY <1>18 DEF Crash
  <1>19. ASSUME NEW n \in UserNames, UserCreates(n) PROVE TokenOf(k)'
    BY <1>19 DEF UserCreates
  <1>20. ASSUME NEW n \in UserNames, UserDeletes(n) PROVE TokenOf(k)'
    BY <1>20 DEF UserDeletes
  <1>21. CASE UNCHANGED vars
    BY <1>21 DEF vars
  <1>22. QED
    BY <1>1, <1>2, <1>3, <1>4, <1>5, <1>6, <1>7, <1>8, <1>9, <1>10, <1>11,
       <1>12, <1>13, <1>14, <1>15, <1>16, <1>17, <1>18, <1>19, <1>20, <1>21
       DEF Next, Environment, Step


-----------------------------------------------------------------------------
(* An entry a job made is one of the files it renamed and has not yet      *)
(* taken back.  Other processes may have removed some of them.             *)
OwnedBy(j, n) ==
    dest[n].by = j =>
        /\ dest[n] = Made(j)
        /\ \E i \in (withdrawn[j] + 1)..published[j] : n = Target(j, i)

Owning == \A j \in Jobs, n \in Names : OwnedBy(j, n)

(* At the beginning the folder holds nothing of any job.                   *)
LEMMA OwningInit == Init => Owning
  BY JobsAssumption DEF Init, Owning, OwnedBy, Absent, UserFile, UserDir

(* Each step leaves in the folder only what its job published.             *)
LEMMA OwningNext ==
    TypeOK /\ Counters /\ Owning /\ [Next]_vars => Owning'
  <1> SUFFICES ASSUME TypeOK, Counters, Owning, [Next]_vars,
                      NEW k \in Jobs, NEW m \in Names
               PROVE  OwnedBy(k, m)'
    BY DEF Owning
  <1> OwnedBy(k, m) /\ CountersOf(k)
    BY DEF Owning, Counters
  <1> USE JobsAssumption, BoundsAssumption
      DEF TypeOK, Goto, OwnedBy, Made, Target, Volume, CountersOf, InStaging
  <1>1. ASSUME NEW j \in Jobs, Start(j) PROVE OwnedBy(k, m)'
    BY <1>1 DEF Start
  <1>2. ASSUME NEW j \in Jobs, Refuse(j) PROVE OwnedBy(k, m)'
    BY <1>2 DEF Refuse
  <1>3. ASSUME NEW j \in Jobs, NEW t \in Tokens, MakeStaging(j, t)
        PROVE OwnedBy(k, m)'
    BY <1>3 DEF MakeStaging
  <1>4. ASSUME NEW j \in Jobs, MissStaging(j) PROVE OwnedBy(k, m)'
    BY <1>4 DEF MissStaging
  <1>5. ASSUME NEW j \in Jobs, GiveUpStaging(j) PROVE OwnedBy(k, m)'
    BY <1>5 DEF GiveUpStaging
  <1>6. ASSUME NEW j \in Jobs, FinishArchive(j) PROVE OwnedBy(k, m)'
    BY <1>6 DEF FinishArchive
  <1>7. ASSUME NEW j \in Jobs, FinishExtract(j) PROVE OwnedBy(k, m)'
    BY <1>7 DEF FinishExtract
  <1>8. ASSUME NEW j \in Jobs, WriteVolume(j) PROVE OwnedBy(k, m)'
    BY <1>8 DEF WriteVolume
  <1>9. ASSUME NEW j \in Jobs, FinishSplit(j) PROVE OwnedBy(k, m)'
    BY <1>9 DEF FinishSplit
  <1>10. ASSUME NEW j \in Jobs, ChooseName(j) PROVE OwnedBy(k, m)'
    BY <1>10 DEF ChooseName
  <1>11. ASSUME NEW j \in Jobs, NextName(j) PROVE OwnedBy(k, m)'
    BY <1>11 DEF NextName
  <1>12. ASSUME NEW j \in Jobs, Rename(j) PROVE OwnedBy(k, m)'
    BY <1>12 DEF Rename
  <1>13. ASSUME NEW j \in Jobs, Abort(j) PROVE OwnedBy(k, m)'
    BY <1>13 DEF Abort
  <1>14. ASSUME NEW j \in Jobs, RemoveStaging(j) PROVE OwnedBy(k, m)'
    BY <1>14 DEF RemoveStaging
  <1>15. ASSUME NEW j \in Jobs, Withdraw(j) PROVE OwnedBy(k, m)'
    <2> SUFFICES ASSUME dest'[m].by = k
                 PROVE  OwnedBy(k, m)'
      BY <1>15 DEF Withdraw
    <2>1. dest'[m] = dest[m] /\ dest[m].by = k
      BY <1>15 DEF Withdraw, Absent
    <2>2. PICK i \in (withdrawn[k] + 1)..published[k] : m = Target(k, i)
      BY <2>1
    <2>3. CASE k # j
      BY <1>15, <2>1, <2>2, <2>3 DEF Withdraw
    <2>4. CASE k = j
      <3>1. kind[j] = "split" /\ dest[m].what = "file"
        BY <1>15, <2>1, <2>2, <2>4 DEF Withdraw
      <3>2. i # withdrawn[j] + 1
        BY <1>15, <2>1, <2>2, <2>4, <3>1 DEF Withdraw, Absent
      <3>3. i \in (withdrawn'[j] + 1)..published'[j]
        BY <1>15, <2>2, <2>4, <3>2 DEF Withdraw
      <3>4. QED
        BY <1>15, <2>1, <2>2, <2>4, <3>3 DEF Withdraw
    <2>5. QED
      BY <2>3, <2>4
  <1>16. ASSUME NEW j \in Jobs, Fail(j) PROVE OwnedBy(k, m)'
    BY <1>16 DEF Fail
  <1>17. ASSUME NEW j \in Jobs, Cancel(j) PROVE OwnedBy(k, m)'
    BY <1>17 DEF Cancel
  <1>18. ASSUME NEW j \in Jobs, Crash(j) PROVE OwnedBy(k, m)'
    BY <1>18 DEF Crash
  <1>19. ASSUME NEW n \in UserNames, UserCreates(n) PROVE OwnedBy(k, m)'
    BY <1>19 DEF UserCreates, UserFile
  <1>20. ASSUME NEW n \in UserNames, UserDeletes(n) PROVE OwnedBy(k, m)'
    BY <1>20 DEF UserDeletes, Absent
  <1>21. CASE UNCHANGED vars
    BY <1>21 DEF vars
  <1>22. QED
    BY <1>1, <1>2, <1>3, <1>4, <1>5, <1>6, <1>7, <1>8, <1>9, <1>10, <1>11,
       <1>12, <1>13, <1>14, <1>15, <1>16, <1>17, <1>18, <1>19, <1>20, <1>21
       DEF Next, Environment, Step

-----------------------------------------------------------------------------
(* The inductive invariant that needs no assumption about who else uses    *)
(* the folder.                                                             *)
IInv == TypeOK /\ Counters /\ Tokening /\ Owning

(* The parts hold together, always.                                        *)
LEMMA IInvCorrect == Spec => []IInv
  <1>1. Init => IInv
    BY TypeInit, CountersInit, TokeningInit, OwningInit DEF IInv
  <1>2. IInv /\ [Next]_vars => IInv'
    BY TypeNext, CountersNext, OneOwnerNext, TokenOfNext, OwningNext
       DEF IInv, Tokening
  <1>3. QED
    BY <1>1, <1>2, PTL DEF Spec

(* Every variable of the engine stays within its range.                    *)
THEOREM TypeCorrect == Spec => []TypeOK
  <1>1. IInv => TypeOK
    BY DEF IInv
  <1>2. QED
    BY <1>1, IInvCorrect, PTL

(* However many processes share the folder, and whoever dies: the staging  *)
(* directory a job works in is there and is its own.                       *)
THEOREM StagingIsPrivate == Spec => []StagingPrivate
  <1>1. IInv => StagingPrivate
    BY DEF IInv, Tokening, OneOwner, TokenOf, StagingPrivate
  <1>2. QED
    BY <1>1, IInvCorrect, PTL

(* However many processes share the folder, whoever dies and whatever the  *)
(* user does: no unfinished output is ever visible in it.                  *)
THEOREM PublishedIsComplete == Spec => []OnlyComplete
  <1>1. IInv => OnlyComplete
    <2> SUFFICES ASSUME IInv, NEW n \in Names, NEW j \in Jobs,
                        dest[n].by = j
                 PROVE  closed[j] /\ pc[j] \notin {"writing", "splitting"}
      BY DEF OnlyComplete
    <2>1. published[j] > 0
      BY DEF IInv, Owning, OwnedBy, TypeOK
    <2>2. QED
      BY <2>1 DEF IInv, Counters, CountersOf
  <1>2. QED
    BY <1>1, IInvCorrect, PTL

(* Under the same conditions a failed or cancelled job leaves neither an   *)
(* output nor a staging directory.                                         *)
THEOREM FailureCleansUp == Spec => []NothingLeftBehind
  <1>1. IInv => NothingLeftBehind
    <2> SUFFICES ASSUME IInv, NEW j \in Jobs
                 PROVE  /\ pc[j] \in {"succeeded", "failed"} /\ token[j] # NoToken
                              => staging[token[j]] = "gone"
                        /\ pc[j] = "failed" =>
                              \A n \in Names : dest[n].by # j
      BY DEF NothingLeftBehind
    <2>1. pc[j] \in {"succeeded", "failed"} /\ token[j] # NoToken
             => staging[token[j]] = "gone"
      BY DEF IInv, Tokening, TokenOf
    <2>2. ASSUME pc[j] = "failed", NEW n \in Names PROVE dest[n].by # j
      <3>1. withdrawn[j] = published[j]
        BY <2>2 DEF IInv, Counters, CountersOf
      <3>2. QED
        BY <3>1 DEF IInv, Owning, OwnedBy, TypeOK
    <2>3. QED
      BY <2>1, <2>2
  <1>2. QED
    BY <1>1, IInvCorrect, PTL

-----------------------------------------------------------------------------
(* A job that was cancelled while it read and wrote, and one that is taken *)
(* back already, can only go on towards its end without a result.          *)
Stopping(j) ==
    \/ pc[j] = "writing" /\ cancelled[j]
    \/ pc[j] \in {"unwinding", "rollback", "failed", "crashed"}

(* Nobody makes such a job go on with its work, not even another process.  *)
LEMMA StoppingStays ==
    ASSUME NEW k \in Jobs
    PROVE  TypeOK /\ Stopping(k) /\ [Next]_vars => Stopping(k)'
  <1> SUFFICES ASSUME TypeOK, Stopping(k), [Next]_vars PROVE Stopping(k)'
    OBVIOUS
  <1> USE DEF TypeOK, Stopping, Goto
  <1>1. ASSUME NEW j \in Jobs, Start(j) \/ Refuse(j) PROVE Stopping(k)'
    BY <1>1 DEF Start, Refuse
  <1>2. ASSUME NEW j \in Jobs,
               \/ \E t \in Tokens : MakeStaging(j, t)
               \/ MissStaging(j) \/ GiveUpStaging(j)
        PROVE  Stopping(k)'
    BY <1>2 DEF MakeStaging, MissStaging, GiveUpStaging
  <1>3. ASSUME NEW j \in Jobs, FinishArchive(j) \/ FinishExtract(j)
        PROVE  Stopping(k)'
    BY <1>3 DEF FinishArchive, FinishExtract
  <1>4. ASSUME NEW j \in Jobs,
               WriteVolume(j) \/ FinishSplit(j) \/ ChooseName(j) \/ NextName(j)
        PROVE  Stopping(k)'
    BY <1>4 DEF WriteVolume, FinishSplit, ChooseName, NextName
  <1>5. ASSUME NEW j \in Jobs, Rename(j) PROVE Stopping(k)'
    BY <1>5 DEF Rename
  <1>6. ASSUME NEW j \in Jobs, Abort(j) PROVE Stopping(k)'
    BY <1>6 DEF Abort, InStaging
  <1>7. ASSUME NEW j \in Jobs, RemoveStaging(j) \/ Withdraw(j) \/ Fail(j)
        PROVE  Stopping(k)'
    BY <1>7 DEF RemoveStaging, Withdraw, Fail
  <1>8. ASSUME NEW j \in Jobs, Cancel(j) PROVE Stopping(k)'
    BY <1>8 DEF Cancel
  <1>9. ASSUME NEW j \in Jobs, Crash(j) PROVE Stopping(k)'
    BY <1>9 DEF Crash
  <1>10. ASSUME NEW n \in UserNames, UserCreates(n) \/ UserDeletes(n)
         PROVE  Stopping(k)'
    BY <1>10 DEF UserCreates, UserDeletes
  <1>11. CASE UNCHANGED vars
    BY <1>11 DEF vars
  <1>12. QED
    BY <1>1, <1>2, <1>3, <1>4, <1>5, <1>6, <1>7, <1>8, <1>9, <1>10, <1>11
       DEF Next, Environment, Step

(* A job that is cancelled while it reads and writes never succeeds: the   *)
(* part of CancelStops that needs no fairness.                             *)
THEOREM CancelledNeverSucceeds ==
    ASSUME NEW j \in Jobs
    PROVE  Spec => []((pc[j] = "writing" /\ cancelled[j])
                        => [](pc[j] # "succeeded"))
  <1>1. pc[j] = "writing" /\ cancelled[j] => Stopping(j)
    BY DEF Stopping
  <1>2. Stopping(j) => pc[j] # "succeeded"
    BY DEF Stopping
  <1>3. TypeOK /\ Stopping(j) /\ [Next]_vars => Stopping(j)'
    BY StoppingStays
  <1>4. QED
    BY <1>1, <1>2, <1>3, TypeCorrect, PTL DEF Spec

-----------------------------------------------------------------------------
(* The rest holds while no two jobs are about to rename to the same name,  *)
(* of whatever processes they are, and the user keeps away from the names  *)
(* they may use.                                                           *)
UserAway == UserNames = {}

Ahead(j) == {Target(j, i) : i \in (published[j] + 1)..volumes[j]}
Apart ==
    \A j, k \in Jobs : pc[j] = "renaming" /\ pc[k] = "renaming" /\ j # k =>
        Ahead(j) \cap Ahead(k) = {}

(* What ChooseName saw free is still free when it is renamed to: this is   *)
(* where looking and renaming being two system calls does not matter.      *)
ReservedFor(j) ==
    pc[j] = "renaming" =>
        \A i \in (published[j] + 1)..volumes[j] : ~Exists(Target(j, i))

PresentOf(j) ==
    \A i \in (withdrawn[j] + 1)..published[j] : dest[Target(j, i)] = Made(j)

Exclusive == \A j \in Jobs : ReservedFor(j) /\ PresentOf(j)

(* One process, which runs one job at a time, keeps its jobs apart.        *)
OneEngine ==
    /\ \A j, k \in Jobs : ProcOf[j] = ProcOf[k]
    /\ UserAway

Turns == \A j, k \in Jobs : Running(j) /\ Running(k) => j = k

(* The target of a rename is a name of the folder.                         *)
LEMMA TargetInNames ==
    ASSUME TypeOK, Counters, NEW j \in Jobs,
           index[j] <= MaxIndex, NEW i \in 1..volumes[j]
    PROVE  Target(j, i) \in Names
  BY BoundsAssumption DEF TypeOK, Target, Volume, Names

(* Two files of one result have different names.                           *)
LEMMA TargetsDiffer ==
    ASSUME TypeOK, Counters, NEW j \in Jobs,
           NEW h \in 1..volumes[j], NEW i \in 1..volumes[j], h # i
    PROVE  Target(j, h) # Target(j, i)
  BY BoundsAssumption DEF TypeOK, Counters, CountersOf, Target, Volume

(* No job runs at the beginning.                                           *)
LEMMA ExclusiveInit == Init => Exclusive
  BY JobsAssumption
     DEF Init, Exclusive, ReservedFor, PresentOf

(* Kept apart, the names found free stay free until they are used.         *)
LEMMA ReservedNext ==
    ASSUME UserAway
    PROVE  TypeOK /\ Counters /\ Exclusive /\ Apart /\ [Next]_vars
             => \A j \in Jobs : ReservedFor(j)'
  <1> SUFFICES ASSUME TypeOK, Counters, Exclusive, Apart, [Next]_vars,
                      NEW k \in Jobs
               PROVE  ReservedFor(k)'
    OBVIOUS
  <1> ReservedFor(k) /\ CountersOf(k)
    BY DEF Exclusive, Counters
  <1> USE JobsAssumption, BoundsAssumption, UserAway
      DEF UserAway, TypeOK, Goto, ReservedFor, Exists, Target, Volume,
          CountersOf, InStaging
  <1>1. ASSUME NEW j \in Jobs, Start(j) PROVE ReservedFor(k)'
    BY <1>1 DEF Start
  <1>2. ASSUME NEW j \in Jobs, Refuse(j) PROVE ReservedFor(k)'
    BY <1>2 DEF Refuse
  <1>3. ASSUME NEW j \in Jobs, NEW t \in Tokens, MakeStaging(j, t)
        PROVE ReservedFor(k)'
    BY <1>3 DEF MakeStaging
  <1>4. ASSUME NEW j \in Jobs, MissStaging(j) PROVE ReservedFor(k)'
    BY <1>4 DEF MissStaging
  <1>5. ASSUME NEW j \in Jobs, GiveUpStaging(j) PROVE ReservedFor(k)'
    BY <1>5 DEF GiveUpStaging
  <1>6. ASSUME NEW j \in Jobs, FinishArchive(j) PROVE ReservedFor(k)'
    BY <1>6 DEF FinishArchive
  <1>7. ASSUME NEW j \in Jobs, FinishExtract(j) PROVE ReservedFor(k)'
    BY <1>7 DEF FinishExtract
  <1>8. ASSUME NEW j \in Jobs, WriteVolume(j) PROVE ReservedFor(k)'
    BY <1>8 DEF WriteVolume
  <1>9. ASSUME NEW j \in Jobs, FinishSplit(j) PROVE ReservedFor(k)'
    BY <1>9 DEF FinishSplit
  <1>10. ASSUME NEW j \in Jobs, ChooseName(j) PROVE ReservedFor(k)'
    <2>1. CASE k = j /\ kind[j] = "split"
      BY <1>10, <2>1 DEF ChooseName, Candidate
    <2>2. CASE k = j /\ kind[j] # "split"
      BY <1>10, <2>2 DEF ChooseName, Candidate
    <2>3. CASE k # j
      BY <1>10, <2>3 DEF ChooseName
    <2>4. QED
      BY <2>1, <2>2, <2>3
  <1>11. ASSUME NEW j \in Jobs, NextName(j) PROVE ReservedFor(k)'
    BY <1>11 DEF NextName
  <1>12. ASSUME NEW j \in Jobs, Rename(j) PROVE ReservedFor(k)'
    <2>1. CASE k = j
      <3> SUFFICES ASSUME published'[j] < volumes'[j],
                          NEW i \in (published[j] + 2)..volumes[j]
                   PROVE  dest'[Target(j, i)] = Absent
        BY <1>12, <2>1 DEF Rename, Absent
      <3>1. kind[j] = "split"
        BY <1>12, <2>1 DEF Rename
      <3>2. Target(j, i) # Target(j, published[j] + 1)
        BY <3>1
      <3>3. dest[Target(j, i)] = Absent
        BY <1>12, <2>1 DEF Rename
      <3>4. QED
        BY <1>12, <3>2, <3>3 DEF Rename
    <2>2. CASE k # j /\ pc[k] = "renaming"
      <3> DEFINE target == Target(j, published[j] + 1)
      <3>1. target \in Ahead(j)
        BY <1>12 DEF Rename, Ahead, Counters
      <3>2. Ahead(j) \cap Ahead(k) = {}
        BY <1>12, <2>2 DEF Rename, Apart
      <3> SUFFICES ASSUME NEW i \in (published[k] + 1)..volumes[k]
                   PROVE  dest'[Target(k, i)] = Absent
        BY <1>12, <2>2 DEF Rename, Absent
      <3>3. Target(k, i) # target
        <4>1. Target(k, i) \in Ahead(k)
          BY ONLY i \in (published[k] + 1)..volumes[k], Zenon DEF Ahead
        <4> HIDE DEF target
        <4>2. QED
          BY ONLY <3>1, <3>2, <4>1
      <3>4. dest[Target(k, i)] = Absent
        BY <2>2
      <3>5. QED
        BY <1>12, <3>3, <3>4 DEF Rename
    <2>3. CASE k # j /\ pc[k] # "renaming"
      BY <1>12, <2>3 DEF Rename
    <2>4. QED
      BY <2>1, <2>2, <2>3
  <1>13. ASSUME NEW j \in Jobs, Abort(j) PROVE ReservedFor(k)'
    BY <1>13 DEF Abort
  <1>14. ASSUME NEW j \in Jobs, RemoveStaging(j) PROVE ReservedFor(k)'
    BY <1>14 DEF RemoveStaging
  <1>15. ASSUME NEW j \in Jobs, Withdraw(j) PROVE ReservedFor(k)'
    BY <1>15 DEF Withdraw, Absent
  <1>16. ASSUME NEW j \in Jobs, Fail(j) PROVE ReservedFor(k)'
    BY <1>16 DEF Fail
  <1>17. ASSUME NEW j \in Jobs, Cancel(j) PROVE ReservedFor(k)'
    BY <1>17 DEF Cancel
  <1>18. ASSUME NEW j \in Jobs, Crash(j) PROVE ReservedFor(k)'
    BY <1>18 DEF Crash
  <1>19. ASSUME NEW n \in UserNames, UserCreates(n) PROVE ReservedFor(k)'
    BY <1>19 DEF UserCreates
  <1>20. ASSUME NEW n \in UserNames, UserDeletes(n) PROVE ReservedFor(k)'
    BY <1>20 DEF UserDeletes
  <1>21. CASE UNCHANGED vars
    BY <1>21 DEF vars
  <1>22. QED
    BY <1>1, <1>2, <1>3, <1>4, <1>5, <1>6, <1>7, <1>8, <1>9, <1>10, <1>11,
       <1>12, <1>13, <1>14, <1>15, <1>16, <1>17, <1>18, <1>19, <1>20, <1>21
       DEF Next, Environment, Step

(* Kept apart, what a job published stays where it is.                     *)
LEMMA PresentNext ==
    ASSUME UserAway
    PROVE  TypeOK /\ Counters /\ Owning /\ Exclusive /\ [Next]_vars
             => \A j \in Jobs : PresentOf(j)'
  <1> SUFFICES ASSUME TypeOK, Counters, Owning, Exclusive, [Next]_vars,
                      NEW k \in Jobs
               PROVE  PresentOf(k)'
    OBVIOUS
  <1> PresentOf(k) /\ CountersOf(k)
    BY DEF Exclusive, Counters
  <1> USE JobsAssumption, BoundsAssumption, UserAway
      DEF UserAway, TypeOK, Goto, PresentOf, Target, Volume, Made,
          CountersOf, InStaging
  <1>1. ASSUME NEW j \in Jobs, Start(j) PROVE PresentOf(k)'
    BY <1>1 DEF Start
  <1>2. ASSUME NEW j \in Jobs, Refuse(j) PROVE PresentOf(k)'
    BY <1>2 DEF Refuse
  <1>3. ASSUME NEW j \in Jobs, NEW t \in Tokens, MakeStaging(j, t)
        PROVE PresentOf(k)'
    BY <1>3 DEF MakeStaging
  <1>4. ASSUME NEW j \in Jobs, MissStaging(j) PROVE PresentOf(k)'
    BY <1>4 DEF MissStaging
  <1>5. ASSUME NEW j \in Jobs, GiveUpStaging(j) PROVE PresentOf(k)'
    BY <1>5 DEF GiveUpStaging
  <1>6. ASSUME NEW j \in Jobs, FinishArchive(j) PROVE PresentOf(k)'
    BY <1>6 DEF FinishArchive
  <1>7. ASSUME NEW j \in Jobs, FinishExtract(j) PROVE PresentOf(k)'
    BY <1>7 DEF FinishExtract
  <1>8. ASSUME NEW j \in Jobs, WriteVolume(j) PROVE PresentOf(k)'
    BY <1>8 DEF WriteVolume
  <1>9. ASSUME NEW j \in Jobs, FinishSplit(j) PROVE PresentOf(k)'
    BY <1>9 DEF FinishSplit
  <1>10. ASSUME NEW j \in Jobs, ChooseName(j) PROVE PresentOf(k)'
    BY <1>10 DEF ChooseName
  <1>11. ASSUME NEW j \in Jobs, NextName(j) PROVE PresentOf(k)'
    BY <1>11 DEF NextName
  <1>12. ASSUME NEW j \in Jobs, Rename(j) PROVE PresentOf(k)'
    <2> SUFFICES ASSUME NEW i \in (withdrawn'[k] + 1)..published'[k]
                 PROVE  dest'[Target(k, i)'] = Made(k)'
      OBVIOUS
    <2> DEFINE target == Target(j, published[j] + 1)
    <2>1. ~Exists(target)
      <3>1. ReservedFor(j) /\ CountersOf(j)
        BY DEF Exclusive, Counters
      <3>2. pc[j] = "renaming"
        BY <1>12 DEF Rename
      <3>3. published[j] + 1 \in (published[j] + 1)..volumes[j]
        BY <3>1, <3>2
      <3>4. QED
        BY <3>1, <3>2, <3>3 DEF ReservedFor
    <2>2. target \in Names /\ dest' = [dest EXCEPT ![target] = Made(j)]
      BY <1>12, TargetInNames DEF Rename, Counters
    <2>3. Made(k)' = Made(k) /\ Target(k, i)' = Target(k, i)
      BY <1>12 DEF Rename
    <2>4. CASE k = j /\ i = published[j] + 1
      BY <2>2, <2>3, <2>4
    <2>5. CASE ~(k = j /\ i = published[j] + 1)
      <3>1. i \in (withdrawn[k] + 1)..published[k]
        BY <1>12, <2>5 DEF Rename
      <3>2. dest[Target(k, i)] = Made(k)
        BY <3>1
      <3>3. Made(k) # Absent
        BY DEF Absent
      <3>4. Target(k, i) # target
        BY <2>1, <3>2, <3>3 DEF Exists
      <3>5. dest'[Target(k, i)] = dest[Target(k, i)]
        BY <2>2, <3>4, <3>1, TargetInNames DEF Counters
      <3>6. QED
        BY <2>3, <3>2, <3>5
    <2>6. QED
      BY <2>4, <2>5
  <1>13. ASSUME NEW j \in Jobs, Abort(j) PROVE PresentOf(k)'
    BY <1>13 DEF Abort
  <1>14. ASSUME NEW j \in Jobs, RemoveStaging(j) PROVE PresentOf(k)'
    BY <1>14 DEF RemoveStaging
  <1>15. ASSUME NEW j \in Jobs, Withdraw(j) PROVE PresentOf(k)'
    <2> SUFFICES ASSUME NEW i \in (withdrawn'[k] + 1)..published'[k]
                 PROVE  dest'[Target(k, i)'] = Made(k)'
      OBVIOUS
    <2> DEFINE target == Target(j, withdrawn[j] + 1)
    <2>1. Made(k)' = Made(k) /\ Target(k, i)' = Target(k, i)
      BY <1>15 DEF Withdraw
    <2>2. i \in (withdrawn[k] + 1)..published[k]
      BY <1>15 DEF Withdraw
    <2>3. dest[Target(k, i)] = Made(k)
      BY <2>2
    <2>4. Target(k, i) # target
      <3>1. CASE k = j
        BY <1>15, <3>1, <2>2 DEF Withdraw
      <3>2. CASE k # j
        <4>1. dest[target] = Made(j)
          <5>1. PresentOf(j) /\ CountersOf(j)
            BY DEF Exclusive, Counters
          <5>2. withdrawn[j] + 1 \in (withdrawn[j] + 1)..published[j]
            BY <1>15, <5>1 DEF Withdraw
          <5>3. QED
            BY <5>1, <5>2 DEF PresentOf
        <4>2. Made(j) # Made(k)
          BY <3>2
        <4>3. QED
          BY ONLY <2>3, <4>1, <4>2
      <3>3. QED
        BY <3>1, <3>2
    <2>5. dest' \in {dest, [dest EXCEPT ![target] = Absent]}
      BY <1>15 DEF Withdraw
    <2>6. dest'[Target(k, i)] = dest[Target(k, i)]
      BY <2>2, <2>4, <2>5, TargetInNames DEF Counters
    <2>7. QED
      BY <2>1, <2>3, <2>6
  <1>16. ASSUME NEW j \in Jobs, Fail(j) PROVE PresentOf(k)'
    BY <1>16 DEF Fail
  <1>17. ASSUME NEW j \in Jobs, Cancel(j) PROVE PresentOf(k)'
    BY <1>17 DEF Cancel
  <1>18. ASSUME NEW j \in Jobs, Crash(j) PROVE PresentOf(k)'
    BY <1>18 DEF Crash
  <1>19. ASSUME NEW n \in UserNames, UserCreates(n) PROVE PresentOf(k)'
    BY <1>19 DEF UserCreates
  <1>20. ASSUME NEW n \in UserNames, UserDeletes(n) PROVE PresentOf(k)'
    BY <1>20 DEF UserDeletes
  <1>21. CASE UNCHANGED vars
    BY <1>21 DEF vars
  <1>22. QED
    BY <1>1, <1>2, <1>3, <1>4, <1>5, <1>6, <1>7, <1>8, <1>9, <1>10, <1>11,
       <1>12, <1>13, <1>14, <1>15, <1>16, <1>17, <1>18, <1>19, <1>20, <1>21
       DEF Next, Environment, Step

ApartInv == IInv /\ Exclusive

(* What jobs that are kept apart may rely on holds always.                 *)
LEMMA ApartInvCorrect ==
    ASSUME UserAway
    PROVE  Spec /\ []Apart => []ApartInv
  <1>1. Init /\ IInv => ApartInv
    BY ExclusiveInit DEF ApartInv
  <1>2. ApartInv /\ Apart /\ IInv' /\ [Next]_vars => ApartInv'
    BY UserAway, ReservedNext, PresentNext DEF ApartInv, IInv, Exclusive
  <1>3. QED
    BY <1>1, <1>2, IInvCorrect, PTL DEF Spec

(* Renaming finds its target free, taking back finds the job's own file.   *)
LEMMA RenameFindsFree ==
    ASSUME ApartInv, NEW j \in Jobs, Rename(j)
    PROVE  /\ Target(j, published[j] + 1) \in Names
           /\ ~Exists(Target(j, published[j] + 1))
  <1>1. published[j] + 1 \in (published[j] + 1)..volumes[j]
    BY DEF Rename, ApartInv, IInv, TypeOK, Counters, CountersOf
  <1>2. published[j] + 1 \in 1..volumes[j] /\ index[j] <= MaxIndex
    BY DEF Rename, ApartInv, IInv, TypeOK, Counters, CountersOf
  <1>3. QED
    BY <1>1, <1>2, TargetInNames
       DEF Rename, ApartInv, IInv, Exclusive, ReservedFor

(* The roll-back removes only what its own job has published.              *)
LEMMA WithdrawFindsOwn ==
    ASSUME ApartInv, NEW j \in Jobs, Withdraw(j)
    PROVE  /\ Target(j, withdrawn[j] + 1) \in Names
           /\ dest[Target(j, withdrawn[j] + 1)] = Made(j)
  <1>1. withdrawn[j] + 1 \in (withdrawn[j] + 1)..published[j]
    BY DEF Withdraw, ApartInv, IInv, TypeOK
  <1>2. withdrawn[j] + 1 \in 1..volumes[j] /\ index[j] <= MaxIndex
    BY DEF Withdraw, ApartInv, IInv, TypeOK, Counters, CountersOf
  <1>3. QED
    BY <1>1, <1>2, TargetInNames DEF ApartInv, IInv, Exclusive, PresentOf

(* Existing entries are never replaced, by any number of engines, while no *)
(* two jobs rename to the same name: what was found free still is.         *)
THEOREM ApartKeepsExisting ==
    ASSUME UserAway
    PROVE  Spec /\ []Apart => ExistingKept
  <1>1. ASSUME ApartInv, [Next]_vars, NEW n \in Names,
               Exists(n), dest'[n] # dest[n]
        PROVE  /\ dest'[n] = Absent
               /\ dest[n].by \in Jobs /\ pc[dest[n].by] = "rollback"
    <2>1. dest \in [Names -> Entries]
      BY <1>1 DEF ApartInv, IInv, TypeOK
    <2>2. ASSUME NEW j \in Jobs, Rename(j)
          PROVE  FALSE
      BY <1>1, <2>1, <2>2, RenameFindsFree DEF Rename, Exists
    <2>3. ASSUME NEW j \in Jobs, Withdraw(j)
          PROVE  /\ dest'[n] = Absent
                 /\ dest[n].by \in Jobs /\ pc[dest[n].by] = "rollback"
      <3>1. n = Target(j, withdrawn[j] + 1)
        BY <1>1, <2>1, <2>3 DEF Withdraw
      <3>2. dest'[n] = Absent
        BY <1>1, <2>1, <2>3, <3>1 DEF Withdraw
      <3>3. dest[n] = Made(j) /\ pc[j] = "rollback"
        BY <1>1, <2>3, <3>1, WithdrawFindsOwn DEF Withdraw
      <3>4. QED
        BY <3>2, <3>3 DEF Made
    <2>4. QED
      BY <1>1, <2>2, <2>3, UserAway
         DEF UserAway, Next, Environment, Step, vars, Start, Refuse,
             MakeStaging, MissStaging, GiveUpStaging, FinishArchive,
             FinishExtract, WriteVolume, FinishSplit, ChooseName, NextName,
             Abort, RemoveStaging, Fail, Cancel, Crash
  <1>2. ApartInv /\ [Next]_vars =>
          [\A n \in Names : Exists(n) /\ dest'[n] # dest[n] =>
             /\ dest'[n] = Absent
             /\ dest[n].by \in Jobs /\ pc[dest[n].by] = "rollback"]_vars
    BY <1>1
  <1>3. QED
    BY <1>2, ApartInvCorrect, UserAway, PTL DEF Spec, ExistingKept

(* Under the same assumption what was reported as the result stays.        *)
THEOREM ApartKeepsResults ==
    ASSUME UserAway
    PROVE  Spec /\ []Apart => []ResultStays
  <1>1. ApartInv => ResultStays
    BY DEF ApartInv, IInv, TypeOK, Counters, CountersOf, Exclusive, PresentOf,
           ResultStays
  <1>2. QED
    BY <1>1, ApartInvCorrect, UserAway, PTL

-----------------------------------------------------------------------------
(* Refinement: every step of the engine is a step of ArchivePromise.       *)
Phases == [j \in Jobs |-> Outcome(j)]

(* A step within the phases that the promise does not tell apart.          *)
LEMMA SamePhase ==
    ASSUME NEW j \in Jobs, NEW place \in Active,
           pc \in [Jobs -> {"idle"} \cup Active \cup Final], Goto(j, place), Running(j)
    PROVE  Phases' = Phases
  BY DEF Phases, Outcome, Running, Active, InStaging, Goto

(* A step of one job changes the promise's phase of that job alone.        *)
LEMMA NewPhase ==
    ASSUME NEW j \in Jobs, NEW place \in Active \cup Final,
           pc \in [Jobs -> {"idle"} \cup Active \cup Final], Goto(j, place)
    PROVE  Phases' = [Phases EXCEPT ![j] =
                        IF place \in Active THEN "running" ELSE place]
  BY DEF Phases, Outcome, Running, Active, InStaging, Final, Goto

(* A job that took back whatever it published owns nothing.                *)
LEMMA NothingPublished ==
    ASSUME IInv, NEW j \in Jobs, withdrawn[j] = published[j]
    PROVE  Promise!OwnedBy(j) = {}
  BY DEF IInv, Owning, OwnedBy, TypeOK, Promise!OwnedBy

(* The initial states are initial states of the promise.                   *)
LEMMA PromiseInit == Init => Promise!Init
  <1> SUFFICES ASSUME Init PROVE Promise!Init
    OBVIOUS
  <1>1. IInv
    BY TypeInit, CountersInit, TokeningInit, OwningInit DEF IInv
  <1>2. \A j \in Jobs : Promise!OwnedBy(j) = {}
    BY <1>1, NothingPublished DEF Init
  <1>3. Phases = [j \in Jobs |-> "pending"]
    BY DEF Phases, Outcome, Init
  <1>4. QED
    BY <1>1, <1>2, <1>3 DEF Promise!Init, IInv, TypeOK, Phases

(* Every step is a step of the promise or a stutter.                       *)
LEMMA PromiseNext ==
    ASSUME UserAway, ApartInv, [Next]_vars
    PROVE  [Promise!Next]_<<dest, Phases>>
  <1> USE DEF Phases
  <1> pc \in [Jobs -> {"idle"} \cup Active \cup Final]
    BY DEF ApartInv, IInv, TypeOK
  <1>1. ASSUME NEW j \in Jobs, Start(j) PROVE Promise!Begin(j)
    <2>1. Phases' = [Phases EXCEPT ![j] = "running"]
      BY <1>1, NewPhase DEF Start, Active
    <2>2. Phases[j] = "pending"
      BY <1>1 DEF Start, Outcome
    <2>3. QED
      BY <1>1, <2>1, <2>2 DEF Promise!Begin, Start
  <1>2. ASSUME NEW j \in Jobs, Refuse(j) \/ GiveUpStaging(j) \/ Fail(j)
        PROVE  Promise!Fail(j)
    <2>1. Phases' = [Phases EXCEPT ![j] = "failed"]
      BY <1>2, NewPhase
         DEF Refuse, GiveUpStaging, Fail, Active, InStaging, Final
    <2>2. Phases[j] \in {"pending", "running"}
      BY <1>2 DEF Refuse, GiveUpStaging, Fail, Outcome, Running, Active
    <2>3. withdrawn[j] = published[j]
      BY <1>2 DEF Refuse, GiveUpStaging, Fail, ApartInv, IInv, TypeOK,
                  Counters, CountersOf
    <2>4. Promise!OwnedBy(j) = {}
      BY <2>3, NothingPublished DEF ApartInv
    <2>5. QED
      BY <1>2, <2>1, <2>2, <2>4
         DEF Promise!Fail, Refuse, GiveUpStaging, Fail
  <1>3. ASSUME NEW j \in Jobs, Crash(j) PROVE Promise!Crash(j)
    <2>1. Phases' = [Phases EXCEPT ![j] = "crashed"]
      BY <1>3, NewPhase DEF Crash, Active, InStaging, Final
    <2>2. Phases[j] = "running"
      BY <1>3 DEF Crash, Outcome, Running, Active, InStaging
    <2>3. QED
      BY <1>3, <2>1, <2>2 DEF Promise!Crash, Crash
  <1>4. ASSUME NEW j \in Jobs, Rename(j)
        PROVE  Promise!Publish(j)
    <2>1. Phases' = Phases
      BY <1>4, SamePhase DEF Rename, Running, Active, InStaging
    <2>2. Phases[j] = "running"
      BY <1>4 DEF Rename, Outcome, Running, Active, InStaging
    <2>3. Made(j) \in Entries /\ Made(j) # Absent /\ Made(j).by = j
      BY JobsAssumption DEF Made, Entries, Absent
    <2>4. QED
      BY <1>4, <2>1, <2>2, <2>3, RenameFindsFree
         DEF Promise!Publish, Rename, Exists
  <1>5. ASSUME NEW j \in Jobs, Withdraw(j)
        PROVE  Promise!Withdraw(j) \/ UNCHANGED <<dest, Phases>>
    <2>1. Phases' = Phases
      BY <1>5 DEF Withdraw, Outcome, Running
    <2>2. Phases[j] = "running"
      BY <1>5 DEF Withdraw, Outcome, Running, Active
    <2>3. Target(j, withdrawn[j] + 1) \in Promise!OwnedBy(j)
      <3>1. Made(j) # Absent /\ Made(j).by = j
        BY JobsAssumption DEF Made, Absent
      <3>2. QED
        BY <1>5, <3>1, WithdrawFindsOwn DEF Promise!OwnedBy
    <2>4. QED
      BY <1>5, <2>1, <2>2, <2>3 DEF Promise!Withdraw, Withdraw
  <1>6. ASSUME NEW j \in Jobs, RemoveStaging(j)
        PROVE  Promise!Succeed(j) \/ UNCHANGED <<dest, Phases>>
    <2>1. CASE pc[j] = "cleanup"
      <3>1. Phases' = [Phases EXCEPT ![j] = "succeeded"]
        BY <1>6, <2>1, NewPhase DEF RemoveStaging, Active, InStaging, Final
      <3>2. Phases[j] = "running"
        BY <2>1 DEF Outcome, Running, Active
      <3>3. /\ 1 \in (withdrawn[j] + 1)..published[j] /\ 1 \in 1..volumes[j]
            /\ index[j] <= MaxIndex
        BY <2>1 DEF ApartInv, IInv, TypeOK, Counters, CountersOf
      <3>4. dest[Target(j, 1)] = Made(j) /\ Target(j, 1) \in Names
        BY <3>3, TargetInNames DEF ApartInv, IInv, Exclusive, PresentOf
      <3>5. Target(j, 1) \in Promise!OwnedBy(j)
        BY <3>4, JobsAssumption DEF Promise!OwnedBy, Made, Absent
      <3>6. QED
        BY <1>6, <3>1, <3>2, <3>5 DEF Promise!Succeed, RemoveStaging
    <2>2. CASE pc[j] = "unwinding"
      <3>1. Phases' = Phases
        BY <1>6, <2>2, SamePhase DEF RemoveStaging, Running, Active
      <3>2. QED
        BY <1>6, <3>1 DEF RemoveStaging
    <2>3. QED
      BY <1>6, <2>1, <2>2 DEF RemoveStaging
  <1>7. ASSUME NEW j \in Jobs,
               \/ \E t \in Tokens : MakeStaging(j, t)
               \/ MissStaging(j) \/ FinishArchive(j) \/ FinishExtract(j)
               \/ WriteVolume(j) \/ FinishSplit(j) \/ ChooseName(j)
               \/ NextName(j) \/ Abort(j) \/ Cancel(j)
        PROVE  UNCHANGED <<dest, Phases>>
    <2>1. CASE MissStaging(j) \/ WriteVolume(j) \/ NextName(j) \/ Cancel(j)
      BY <2>1 DEF MissStaging, WriteVolume, NextName, Cancel, Outcome, Running
    <2>2. CASE \/ \E t \in Tokens : MakeStaging(j, t)
               \/ FinishArchive(j) \/ FinishExtract(j) \/ FinishSplit(j)
               \/ ChooseName(j) \/ Abort(j)
      <3>1. Running(j) /\ \E place \in Active : Goto(j, place)
        BY <2>2
           DEF MakeStaging, FinishArchive, FinishExtract, FinishSplit,
               ChooseName, Abort, Running, Active, InStaging
      <3>2. Phases' = Phases
        BY <3>1, SamePhase
      <3>3. QED
        BY <2>2, <3>2
           DEF MakeStaging, FinishArchive, FinishExtract, FinishSplit,
               ChooseName, Abort
    <2>3. QED
      BY <1>7, <2>1, <2>2
  <1>8. CASE UNCHANGED vars
    BY <1>8 DEF vars, Outcome, Running
  <1>9. QED
    BY <1>1, <1>2, <1>3, <1>4, <1>5, <1>6, <1>7, <1>8, UserAway
       DEF UserAway, Next, Environment, Step, Promise!Next

(* Engines whose jobs never rename to the same name implement the promise: *)
(* results appear under free names, all of them or, on failure, none.      *)
THEOREM ApartKeepsPromise ==
    ASSUME UserAway
    PROVE  Spec /\ []Apart => KeepsPromise
  <1>1. Init => Promise!Init
    BY PromiseInit
  <1>2. ApartInv /\ [Next]_vars => [Promise!Next]_<<dest, Phases>>
    BY UserAway, PromiseNext
  <1>3. QED
    BY <1>1, <1>2, ApartInvCorrect, UserAway, PTL
       DEF Spec, KeepsPromise, Promise!Spec, Phases

-----------------------------------------------------------------------------
(* One engine.                                                             *)

(* With one engine, a job starts only when no other runs.                  *)
LEMMA TurnsNext ==
    ASSUME OneEngine
    PROVE  TypeOK /\ Turns /\ [Next]_vars => Turns'
  <1> SUFFICES ASSUME TypeOK, Turns, [Next]_vars
               PROVE  Turns'
    OBVIOUS
  <1> USE OneEngine
      DEF OneEngine, UserAway, TypeOK, Turns, Goto, Alone, Running, Active, InStaging
  <1>1. ASSUME NEW j \in Jobs, Start(j) PROVE Turns'
    BY <1>1 DEF Start
  <1>2. ASSUME NEW j \in Jobs, Refuse(j) PROVE Turns'
    BY <1>2 DEF Refuse
  <1>3. ASSUME NEW j \in Jobs, NEW t \in Tokens, MakeStaging(j, t)
        PROVE Turns'
    BY <1>3 DEF MakeStaging
  <1>4. ASSUME NEW j \in Jobs, MissStaging(j) PROVE Turns'
    BY <1>4 DEF MissStaging
  <1>5. ASSUME NEW j \in Jobs, GiveUpStaging(j) PROVE Turns'
    BY <1>5 DEF GiveUpStaging
  <1>6. ASSUME NEW j \in Jobs, FinishArchive(j) PROVE Turns'
    BY <1>6 DEF FinishArchive
  <1>7. ASSUME NEW j \in Jobs, FinishExtract(j) PROVE Turns'
    BY <1>7 DEF FinishExtract
  <1>8. ASSUME NEW j \in Jobs, WriteVolume(j) PROVE Turns'
    BY <1>8 DEF WriteVolume
  <1>9. ASSUME NEW j \in Jobs, FinishSplit(j) PROVE Turns'
    BY <1>9 DEF FinishSplit
  <1>10. ASSUME NEW j \in Jobs, ChooseName(j) PROVE Turns'
    BY <1>10 DEF ChooseName
  <1>11. ASSUME NEW j \in Jobs, NextName(j) PROVE Turns'
    BY <1>11 DEF NextName
  <1>12. ASSUME NEW j \in Jobs, Rename(j) PROVE Turns'
    BY <1>12 DEF Rename
  <1>13. ASSUME NEW j \in Jobs, Abort(j) PROVE Turns'
    BY <1>13 DEF Abort
  <1>14. ASSUME NEW j \in Jobs, RemoveStaging(j) PROVE Turns'
    BY <1>14 DEF RemoveStaging
  <1>15. ASSUME NEW j \in Jobs, Withdraw(j) PROVE Turns'
    BY <1>15 DEF Withdraw
  <1>16. ASSUME NEW j \in Jobs, Fail(j) PROVE Turns'
    BY <1>16 DEF Fail
  <1>17. ASSUME NEW j \in Jobs, Cancel(j) PROVE Turns'
    BY <1>17 DEF Cancel
  <1>18. ASSUME NEW j \in Jobs, Crash(j) PROVE Turns'
    BY <1>18 DEF Crash
  <1>19. ASSUME NEW n \in UserNames, UserCreates(n) PROVE Turns'
    BY <1>19 DEF UserCreates
  <1>20. ASSUME NEW n \in UserNames, UserDeletes(n) PROVE Turns'
    BY <1>20 DEF UserDeletes
  <1>21. CASE UNCHANGED vars
    BY <1>21 DEF vars
  <1>22. QED
    BY <1>1, <1>2, <1>3, <1>4, <1>5, <1>6, <1>7, <1>8, <1>9, <1>10, <1>11,
       <1>12, <1>13, <1>14, <1>15, <1>16, <1>17, <1>18, <1>19, <1>20, <1>21
       DEF Next, Environment, Step

(* One engine keeps its jobs apart: only one of them runs at a time.       *)
LEMMA OneEngineIsApart == ASSUME OneEngine PROVE Spec => []Apart
  <1>1. Init => Turns
    BY DEF Init, Turns, Running, Active, InStaging
  <1>2. IInv /\ Turns /\ [Next]_vars => Turns'
    BY OneEngine, TurnsNext DEF IInv
  <1>3. Turns => Apart
    BY DEF Turns, Apart, Running, Active, InStaging
  <1>4. QED
    BY <1>1, <1>2, <1>3, IInvCorrect, PTL DEF Spec

(* With one engine and no interference, existing entries are never         *)
(* replaced: the names found free are still free when they are renamed to. *)
THEOREM ExistingAreKept == ASSUME OneEngine PROVE Spec => ExistingKept
  <1>1. UserAway
    BY OneEngine DEF OneEngine
  <1>2. QED
    BY <1>1, OneEngine, OneEngineIsApart, ApartKeepsExisting, PTL

(* Under the same assumption what was reported as the result stays.        *)
THEOREM ResultsStay == ASSUME OneEngine PROVE Spec => []ResultStays
  <1>1. UserAway
    BY OneEngine DEF OneEngine
  <1>2. QED
    BY <1>1, OneEngine, OneEngineIsApart, ApartKeepsResults, PTL

(* With one engine and no interference the engine implements its promise:  *)
(* results appear under free names, all of them or, on failure, none.      *)
THEOREM EngineKeepsPromise == ASSUME OneEngine PROVE Spec => KeepsPromise
  <1>1. UserAway
    BY OneEngine DEF OneEngine
  <1>2. QED
    BY <1>1, OneEngine, OneEngineIsApart, ApartKeepsPromise, PTL

-----------------------------------------------------------------------------
(* What a crash breaks, and nothing else does.                             *)
Uncrashed == \A j \in Jobs : pc[j] # "crashed"

(* The names a job has published and not taken back are as many as that.   *)
LEMMA OwnedCount ==
    ASSUME ApartInv, NEW j \in Jobs, withdrawn[j] = 0
    PROVE  Cardinality({n \in Names : dest[n].by = j}) = published[j]
  <1> DEFINE own == {n \in Names : dest[n].by = j}
             f == [i \in 1..published[j] |-> Target(j, i)]
  <1>1. /\ TypeOK /\ Counters /\ Owning /\ CountersOf(j) /\ PresentOf(j)
        /\ published[j] \in Nat /\ published[j] <= volumes[j]
    BY BoundsAssumption
       DEF ApartInv, IInv, Exclusive, TypeOK, Counters, CountersOf
  <1>2. ASSUME NEW i \in 1..published[j]
        PROVE  f[i] \in own
    <2>1. i \in 1..volumes[j] /\ i \in (withdrawn[j] + 1)..published[j]
      BY <1>1 DEF TypeOK
    <2>2. index[j] <= MaxIndex
      BY <1>1 DEF CountersOf
    <2>3. Target(j, i) \in Names
      BY <1>1, <2>1, <2>2, TargetInNames
    <2>4. dest[Target(j, i)] = Made(j) /\ Made(j).by = j
      BY <1>1, <2>1 DEF PresentOf, Made
    <2> QED
      BY <2>3, <2>4
  <1>3. ASSUME NEW n \in own PROVE \E i \in 1..published[j] : f[i] = n
    <2>1. \E i \in (withdrawn[j] + 1)..published[j] : n = Target(j, i)
      BY <1>1 DEF Owning, OwnedBy
    <2> QED
      BY <2>1
  <1>4. ASSUME NEW h \in 1..published[j], NEW i \in 1..published[j], h # i
        PROVE  f[h] # f[i]
    BY <1>1, <1>4, TargetsDiffer DEF TypeOK
  <1> HIDE DEF own
  <1>5. f \in Bijection(1..published[j], own)
    BY <1>2, <1>3, <1>4 DEF Bijection, Injection, Surjection, IsInjective
  <1>6. ExistsBijection(1..published[j], own)
    BY <1>5 DEF ExistsBijection
  <1>7. Cardinality(own) = published[j]
    BY <1>1, <1>6, FS_CountingElements
  <1> QED
    BY <1>7 DEF own

(* Publishing is atomic where no process dies: the folder holds all files  *)
(* of a result or none, except while they are renamed or taken back.       *)
THEOREM UncrashedSetsAreWhole ==
    ASSUME UserAway
    PROVE  Spec /\ []Apart /\ []Uncrashed => []WholeSets
  <1>1. ASSUME ApartInv, Uncrashed PROVE WholeSets
    <2> SUFFICES ASSUME NEW j \in Jobs,
                        pc[j] \notin {"renaming", "unwinding", "rollback"}
                 PROVE  Cardinality({n \in Names : dest[n].by = j})
                          \in {0, volumes[j]}
      BY DEF WholeSets
    <2>1. /\ TypeOK /\ CountersOf(j) /\ pc[j] # "crashed"
          /\ pc[j] \in {"idle"} \cup Active \cup Final
      BY <1>1 DEF ApartInv, IInv, Counters, Uncrashed, TypeOK
    <2>2. CASE pc[j] = "failed"
      <3>1. {n \in Names : dest[n].by = j} = {}
        BY <1>1, <2>1, <2>2
           DEF ApartInv, IInv, Owning, OwnedBy, CountersOf, TypeOK
      <3> QED
        BY <3>1, FS_EmptySet
    <2>3. CASE pc[j] # "failed"
      <3>1. withdrawn[j] = 0
        BY <2>1, <2>3 DEF CountersOf, TypeOK
      <3>2. published[j] \in {0, volumes[j]}
        BY <2>1, <2>3 DEF CountersOf, TypeOK, Active, InStaging, Final
      <3> QED
        BY <1>1, <3>1, <3>2, OwnedCount
    <2> QED
      BY <2>2, <2>3
  <1>2. QED
    BY <1>1, ApartInvCorrect, UserAway, PTL

(* Split archives: the name of one that is being published, or of which    *)
(* something is published, is no other's.                                  *)
Holds(j)  == kind[j] = "split" /\ withdrawn[j] < published[j]
Chosen(j) == Holds(j) \/ (kind[j] = "split" /\ pc[j] = "renaming")
SetName(j) == <<base[j], index[j]>>
OneSetEach ==
    \A j, k \in Jobs :
        j # k /\ Chosen(j) /\ Holds(k) => SetName(j) # SetName(k)

(* Every volume in the folder was written by a job.                        *)
NoOldVolumes == \A n \in InitialNames : n[3] = 0
NoForeignVolumes ==
    \A n \in Names : n[3] # 0 => dest[n] = Absent \/ dest[n].by \in Jobs

(* A name is chosen only when the volumes of no other job bear it.         *)
LEMMA SetsNext ==
    ASSUME UserAway
    PROVE  ApartInv /\ Turns /\ Uncrashed /\ OneSetEach /\ [Next]_vars
             => OneSetEach'
  <1> SUFFICES ASSUME ApartInv, Turns, Uncrashed, OneSetEach, [Next]_vars,
                      NEW a \in Jobs, NEW b \in Jobs, a # b,
                      Chosen(a)', Holds(b)'
               PROVE  SetName(a)' # SetName(b)'
    BY DEF OneSetEach
  <1>0. TypeOK /\ CountersOf(a) /\ CountersOf(b) /\ PresentOf(b)
    BY DEF ApartInv, IInv, Counters, Exclusive
  <1>1. ASSUME Chosen(a), Holds(b), SetName(a)' = SetName(a),
               SetName(b)' = SetName(b)
        PROVE  SetName(a)' # SetName(b)'
    BY <1>1 DEF OneSetEach
  <1> USE DEF Chosen, Holds, SetName, Goto, TypeOK
  <1>2. ASSUME NEW j \in Jobs, Start(j) PROVE SetName(a)' # SetName(b)'
    BY <1>0, <1>1, <1>2 DEF Start, CountersOf
  <1>3. ASSUME NEW j \in Jobs,
               \/ Refuse(j) \/ \E t \in Tokens : MakeStaging(j, t)
               \/ MissStaging(j) \/ GiveUpStaging(j)
        PROVE  SetName(a)' # SetName(b)'
    BY <1>0, <1>1, <1>3 DEF Refuse, MakeStaging, MissStaging, GiveUpStaging
  <1>4. ASSUME NEW j \in Jobs, FinishArchive(j) \/ FinishExtract(j)
        PROVE  SetName(a)' # SetName(b)'
    BY <1>0, <1>1, <1>4 DEF FinishArchive, FinishExtract, CountersOf
  <1>5. ASSUME NEW j \in Jobs,
               WriteVolume(j) \/ FinishSplit(j) \/ NextName(j)
        PROVE  SetName(a)' # SetName(b)'
    BY <1>0, <1>1, <1>5 DEF WriteVolume, FinishSplit, NextName, CountersOf
  <1>6. ASSUME NEW j \in Jobs, ChooseName(j)
        PROVE  SetName(a)' # SetName(b)'
    <2>1. /\ UNCHANGED <<base, index, kind, published, withdrawn>> /\ Holds(b)
          /\ pc[j] = "choosing"
      BY <1>6 DEF ChooseName
    <2>2. CASE Chosen(a)
      BY <1>1, <2>1, <2>2
    <2>3. CASE ~Chosen(a)
      <3>1. a = j /\ kind[a] = "split"
        BY <1>6, <2>3 DEF ChooseName
      <3>2. ~Running(b)
        BY <2>1, <3>1 DEF Turns, Running, Active, InStaging
      <3>3. pc[b] = "succeeded"
        BY <1>0, <2>1, <3>2
           DEF Uncrashed, CountersOf, Running, Active, InStaging, Final
      <3>4. 1 \in (withdrawn[b] + 1)..published[b] /\ Volume(b, 1) = 1
        BY <1>0, <2>1, <3>3 DEF CountersOf, Volume
      <3>5. dest[Target(b, 1)] = Made(b) /\ Made(b) # Absent
        BY <1>0, <3>4, JobsAssumption DEF PresentOf, Made, Absent
      <3>6. ~Exists(<<base[a], index[a], 1>>)
        <4>1. <<base[a], index[a], 1>> \in Candidate(a)
          BY <1>0, <2>1, <3>1, BoundsAssumption DEF Candidate, CountersOf
        <4> QED
          BY <1>6, <3>1, <4>1 DEF ChooseName
      <3> QED
        BY <2>1, <3>4, <3>5, <3>6 DEF Exists, Target
    <2> QED
      BY <2>2, <2>3
  <1>7. ASSUME NEW j \in Jobs, Rename(j) PROVE SetName(a)' # SetName(b)'
    <2>1. UNCHANGED <<base, index, kind, withdrawn>> /\ pc[j] = "renaming"
      BY <1>7 DEF Rename
    <2>2. CASE b # j
      <3>1. Chosen(a) /\ Holds(b)
        BY <1>7, <2>2 DEF Rename
      <3> QED
        BY <1>1, <2>1, <3>1
    <2>3. CASE b = j
      <3>1. pc[a] # "renaming"
        BY <2>1, <2>3 DEF Turns, Running, Active, InStaging
      <3>2. Holds(a) /\ Chosen(b)
        BY <1>7, <2>3, <3>1 DEF Rename
      <3> QED
        BY <2>1, <3>2 DEF OneSetEach
    <2> QED
      BY <2>2, <2>3
  <1>8. ASSUME NEW j \in Jobs,
               \/ Abort(j) \/ RemoveStaging(j) \/ Withdraw(j) \/ Fail(j)
               \/ Cancel(j) \/ Crash(j)
        PROVE  SetName(a)' # SetName(b)'
    BY <1>0, <1>1, <1>8
       DEF Abort, RemoveStaging, Withdraw, Fail, Cancel, Crash
  <1>9. CASE UNCHANGED vars
    BY <1>1, <1>9 DEF vars
  <1> QED
    BY <1>2, <1>3, <1>4, <1>5, <1>6, <1>7, <1>8, <1>9, UserAway
       DEF UserAway, Next, Environment, Step

(* Only jobs add to the folder.                                            *)
LEMMA VolumesNext ==
    ASSUME UserAway
    PROVE  TypeOK /\ NoForeignVolumes /\ [Next]_vars => NoForeignVolumes'
  <1> SUFFICES ASSUME TypeOK, NoForeignVolumes, [Next]_vars,
                      NEW n \in Names, n[3] # 0
               PROVE  dest'[n] = Absent \/ dest'[n].by \in Jobs
    BY DEF NoForeignVolumes
  <1>1. dest[n] = Absent \/ dest[n].by \in Jobs
    BY DEF NoForeignVolumes
  <1>2. ASSUME NEW j \in Jobs, Rename(j)
        PROVE  dest'[n] = Absent \/ dest'[n].by \in Jobs
    BY <1>1, <1>2 DEF Rename, Made, TypeOK
  <1>3. ASSUME NEW j \in Jobs, Withdraw(j)
        PROVE  dest'[n] = Absent \/ dest'[n].by \in Jobs
    BY <1>1, <1>3 DEF Withdraw, TypeOK
  <1> QED
    BY <1>1, <1>2, <1>3, UserAway
       DEF UserAway, Next, Environment, Step, vars, Start, Refuse,
           MakeStaging, MissStaging, GiveUpStaging, FinishArchive,
           FinishExtract, WriteVolume, FinishSplit, ChooseName, NextName,
           Abort, RemoveStaging, Fail, Cancel, Crash

(* In these circumstances the volumes under the name of a split archive    *)
(* that was reported as written are its own, all of them and no more.      *)
LEMMA OwnVolumes ==
    ASSUME ApartInv, OneSetEach, NoForeignVolumes,
           NEW j \in Jobs, pc[j] = "succeeded", kind[j] = "split",
           NEW w \in 1..MaxVolumes
    PROVE  IsFile(<<base[j], index[j], w>>) <=> w <= volumes[j]
  <1> DEFINE n == <<base[j], index[j], w>>
  <1>1. /\ TypeOK /\ CountersOf(j) /\ PresentOf(j) /\ Owning
        /\ withdrawn[j] = 0 /\ published[j] = volumes[j] /\ volumes[j] \in Nat
        /\ volumes[j] > 0 /\ index[j] <= MaxIndex
    BY BoundsAssumption
       DEF ApartInv, IInv, Counters, Exclusive, CountersOf, TypeOK
  <1>2. ASSUME w <= volumes[j] PROVE IsFile(n)
    <2>1. dest[Target(j, w)] = Made(j)
      BY <1>1, <1>2 DEF PresentOf
    <2> QED
      BY <2>1 DEF Target, Volume, Made, IsFile
  <1>3. ASSUME IsFile(n) PROVE w <= volumes[j]
    <2>1. n \in Names /\ n[3] # 0
      BY <1>1, BoundsAssumption DEF TypeOK, Names
    <2>2. dest[n].by \in Jobs
      BY <1>3, <2>1 DEF IsFile, NoForeignVolumes, Absent
    <2>3. PICK k \in Jobs : dest[n].by = k
      BY <2>2
    <2>4. PICK i \in (withdrawn[k] + 1)..published[k] : n = Target(k, i)
      BY <1>1, <2>1, <2>3 DEF Owning, OwnedBy
    <2>5. kind[k] = "split" /\ i = w /\ SetName(k) = SetName(j)
      BY <2>4 DEF Target, Volume, SetName
    <2>6. Holds(k) /\ Holds(j)
      BY <1>1, <2>4, <2>5 DEF Holds, TypeOK
    <2>7. k = j
      BY <2>5, <2>6 DEF OneSetEach, Chosen
    <2> QED
      BY <1>1, <2>4, <2>5, <2>7
  <1> QED
    BY <1>2, <1>3

(* Selecting the first volume of a reported split archive joins exactly    *)
(* its volumes, if one engine works, no process dies, and no volumes are   *)
(* there from elsewhere.                                                   *)
THEOREM UncrashedSetsJoin ==
    ASSUME OneEngine, NoOldVolumes
    PROVE  Spec /\ []Uncrashed => []JoinsBack
  <1>0. UserAway
    BY OneEngine DEF OneEngine
  <1>1. Init => OneSetEach /\ Turns
    BY DEF Init, OneSetEach, Holds, Turns, Running, Active, InStaging
  <1>2. Init => NoForeignVolumes
    BY NoOldVolumes DEF Init, NoForeignVolumes, NoOldVolumes
  <1>3. ApartInv /\ Turns /\ Uncrashed /\ OneSetEach /\ [Next]_vars => OneSetEach'
    BY <1>0, SetsNext
  <1>4. ApartInv /\ NoForeignVolumes /\ [Next]_vars => NoForeignVolumes'
    BY <1>0, VolumesNext DEF ApartInv, IInv
  <1>5. ApartInv /\ Turns /\ [Next]_vars => Turns'
    BY OneEngine, TurnsNext DEF ApartInv, IInv
  <1>6. ASSUME ApartInv, OneSetEach, NoForeignVolumes PROVE JoinsBack
    <2> SUFFICES ASSUME NEW j \in Jobs, pc[j] = "succeeded", kind[j] = "split"
                 PROVE  /\ Joins(base[j], index[j])
                        /\ Highest(base[j], index[j]) = volumes[j]
      BY DEF JoinsBack
    <2> DEFINE last == volumes[j]
               Top(v) == /\ v = 1 \/ IsFile(<<base[j], index[j], v>>)
                         /\ \A w \in 1..MaxVolumes :
                              IsFile(<<base[j], index[j], w>>) => w <= v
    <2>1. last \in 1..MaxVolumes
      BY <1>6 DEF ApartInv, IInv, TypeOK, Counters, CountersOf
    <2>2. \A w \in 1..MaxVolumes :
             IsFile(<<base[j], index[j], w>>) <=> w <= last
      BY <1>6, OwnVolumes
    <2>3. Highest(base[j], index[j]) = CHOOSE v \in 1..MaxVolumes : Top(v)
      BY DEF Highest
    <2> HIDE DEF last
    <2>4. Top(last)
      BY <2>1, <2>2
    <2>5. ASSUME NEW v \in 1..MaxVolumes, Top(v) PROVE v = last
      <3>0. last \in Int /\ v \in Int /\ 1 <= last
        BY <2>1, BoundsAssumption
      <3>1. IsFile(<<base[j], index[j], last>>)
        BY <2>1, <2>2, <3>0
      <3>2. last <= v
        BY <2>1, <2>5, <3>1, Zenon
      <3>3. v <= last
        BY <2>2, <2>5, <3>0
      <3> QED
        BY <3>0, <3>2, <3>3
    <2> HIDE DEF Top
    <2>6. Highest(base[j], index[j]) = last
      BY <2>1, <2>3, <2>4, <2>5
    <2>7. Joins(base[j], index[j])
      <3>1. \A w \in 1..last : w \in 1..MaxVolumes /\ w <= last
        BY <2>1, BoundsAssumption
      <3> QED
        BY <2>2, <2>6, <3>1, Zenon DEF Joins
    <2> QED
      BY <2>6, <2>7 DEF last
  <1>7. Spec => []Apart
    BY OneEngine, OneEngineIsApart
  <1>8. Spec /\ []Apart => []ApartInv
    BY <1>0, ApartInvCorrect
  <1> QED
    BY <1>1, <1>2, <1>3, <1>4, <1>5, <1>6, <1>7, <1>8, PTL DEF Spec
=============================================================================
