-------------------------- MODULE SplitArchive_proof --------------------------
(***************************************************************************)
(* What is proved of SplitArchive, and through it of SourceTraversal, for  *)
(* every tree, archive, split size and number of volumes, deletions and    *)
(* changes by other programs.  TLC checks the same invariants on the small *)
(* instance of the run "split".                                            *)
(***************************************************************************)
EXTENDS SplitArchive, SourceTraversal_proof, Induction

-----------------------------------------------------------------------------
(* Sums of sequences of numbers.                                           *)
Running(numbers) ==
    CHOOSE f : f = [n \in 0..Len(numbers) |->
                      IF n = 0 THEN 0 ELSE f[n - 1] + numbers[n]]

(* SumOf is the last turn of that loop.                                    *)
LEMMA SumRuns == \A numbers : SumOf(numbers) = Running(numbers)[Len(numbers)]
  BY Zenon DEF SumOf, Running

(* The recursion has a solution.                                           *)
LEMMA RunningSteps ==
  ASSUME NEW s \in Seq(Nat)
  PROVE  /\ Running(s) \in [0..Len(s) -> Nat] /\ Running(s)[0] = 0
         /\ \A n \in 1..Len(s) : Running(s)[n] = Running(s)[n - 1] + s[n]
<1> DEFINE next == [n \in 1..Len(s) |-> [m \in Nat |-> m + s[n]]]
           Solves(f) == f = [n \in 0..Len(s) |-> IF n = 0 THEN 0 ELSE f[n - 1] + s[n]]
<1>1. Len(s) \in Nat /\ \A n \in 1..Len(s) : s[n] \in Nat
  OBVIOUS
<1>2. \A n \in 1..Len(s), m \in Nat : next[n][m] = m + s[n]
  OBVIOUS
<1>3. Turns(next, Nat, Len(s))
  BY <1>1, <1>2 DEF Turns
<1> HIDE DEF next
<1>4. PICK g : Runs(g, Nat, 0, next, Len(s))
  <2>1. 0 \in Nat
    OBVIOUS
  <2> QED
    BY <1>1, <1>3, <2>1, Iterated
<1>5. Solves(g)
  <2>1. g \in [0..Len(s) -> Nat] /\ g[0] = 0
        /\ \A n \in 1..Len(s) : g[n] = next[n][g[n - 1]]
    BY <1>4 DEF Runs
  <2>2. ASSUME NEW n \in 0..Len(s)
        PROVE  g[n] = IF n = 0 THEN 0 ELSE g[n - 1] + s[n]
    <3>1. CASE n = 0
      BY <2>1, <3>1
    <3>2. CASE n # 0
      <4>1. n \in 1..Len(s) /\ n - 1 \in 0..Len(s)
        BY <1>1, <3>2
      <4>2. g[n - 1] \in Nat
        BY <2>1, <4>1
      <4> QED
        BY <1>2, <2>1, <3>2, <4>1, <4>2
    <3> QED
      BY <3>1, <3>2
  <2> QED
    BY <2>1, <2>2
<1>6. Running(s) = CHOOSE f : Solves(f)
  BY Zenon DEF Running
<1>7. Solves(Running(s))
  BY <1>5, <1>6, Zenon
<1> DEFINE r == Running(s)
<1>8. DOMAIN r = 0..Len(s) /\ r = [n \in 0..Len(s) |-> r[n]]
      /\ \A n \in 0..Len(s) : r[n] = IF n = 0 THEN 0 ELSE r[n - 1] + s[n]
  <2> HIDE DEF r
  <2>1. Solves(r)
    BY <1>7, Zenon DEF r
  <2> QED
    BY <2>1
<1> HIDE DEF r, Solves
<1>9. \A n \in 0..Len(s) : r[n] \in Nat
  <2> DEFINE T == {n \in Nat : n <= Len(s) => r[n] \in Nat}
  <2>1. ASSUME NEW n \in Nat, \A k \in Nat : k < n => k \in T
        PROVE  n \in T
    <3>1. CASE n = 0
      BY <1>1, <1>8, <3>1
    <3>2. CASE n # 0 /\ n <= Len(s)
      <4>1. n - 1 \in Nat /\ n - 1 < n /\ n - 1 <= Len(s) /\ n \in 1..Len(s)
        BY <1>1, <3>2
      <4>2. r[n - 1] \in Nat
        BY <2>1, <4>1
      <4>3. n \in 0..Len(s) /\ s[n] \in Nat
        BY <1>1, <4>1
      <4>4. r[n] = r[n - 1] + s[n]
        BY <1>8, <3>2, <4>3, Zenon
      <4> QED
        BY <4>2, <4>3, <4>4
    <3> QED
      BY <3>1, <3>2
  <2> HIDE DEF T
  <2>2. \A n \in Nat : n \in T
    BY <2>1, Induct, Zenon
  <2> QED
    BY <1>1, <2>2 DEF T
<1>10. r \in [0..Len(s) -> Nat] /\ r[0] = 0
       /\ \A n \in 1..Len(s) : r[n] = r[n - 1] + s[n]
  BY <1>1, <1>8, <1>9
<1> QED
  BY <1>10 DEF r

(* A sum of numbers is a number.                                           *)
LEMMA SumType ==
  ASSUME NEW s \in Seq(Nat)
  PROVE  SumOf(s) \in Nat
  BY RunningSteps, SumRuns

(* The sum of nothing.                                                     *)
LEMMA SumEmpty == SumOf(<<>>) = 0
<1>1. <<>> \in Seq(Nat) /\ Len(<<>>) = 0
  OBVIOUS
<1> QED
  BY <1>1, RunningSteps, SumRuns

(* One more number adds to the sum.                                        *)
LEMMA SumAppend ==
  ASSUME NEW s \in Seq(Nat), NEW x \in Nat
  PROVE  SumOf(Append(s, x)) = SumOf(s) + x
<1> DEFINE t == Append(s, x)
           T == {n \in Nat : n <= Len(s) => Running(t)[n] = Running(s)[n]}
<1>1. /\ t \in Seq(Nat) /\ Len(s) \in Nat /\ Len(t) = Len(s) + 1
      /\ \A n \in 1..Len(s) : t[n] = s[n]
      /\ t[Len(s) + 1] = x
  OBVIOUS
<1> HIDE DEF t
<1>2. /\ Running(s)[0] = 0 /\ Running(t)[0] = 0
      /\ \A n \in 1..Len(s) : Running(s)[n] = Running(s)[n - 1] + s[n]
      /\ \A n \in 1..Len(t) : Running(t)[n] = Running(t)[n - 1] + t[n]
  BY <1>1, RunningSteps
<1>3. ASSUME NEW n \in Nat, \A k \in Nat : k < n => k \in T
      PROVE  n \in T
  <2>1. CASE n = 0
    BY <1>2, <2>1
  <2>2. CASE n # 0 /\ n <= Len(s)
    <3>1. n - 1 \in Nat /\ n - 1 < n /\ n - 1 <= Len(s) /\ n \in 1..Len(s) /\ n \in 1..Len(t)
      BY <1>1, <2>2
    <3>2. Running(t)[n - 1] = Running(s)[n - 1]
      BY <1>3, <3>1
    <3> QED
      BY <1>1, <1>2, <3>1, <3>2
  <2> QED
    BY <2>1, <2>2
<1> HIDE DEF T
<1>4. \A n \in Nat : n \in T
  BY <1>3, Induct, Zenon
<1>5. Running(t)[Len(s)] = Running(s)[Len(s)]
  BY <1>1, <1>4 DEF T
<1>6. Len(t) \in 1..Len(t) /\ Len(t) - 1 = Len(s) /\ t[Len(t)] = x
  BY <1>1
<1>7. Running(t)[Len(t)] = Running(s)[Len(s)] + x
  BY <1>2, <1>5, <1>6
<1> QED
  BY <1>7, SumRuns DEF t

-----------------------------------------------------------------------------
(* The invariant.  What is cut is the beginning of the archive.            *)
Cutting ==
    /\ job # "waiting" => pc = "closed"
    /\ job = "waiting" => position = 0 /\ ~ended /\ staged = <<>>
    /\ job \in {"waiting", "cutting"} => renamed = 0
    /\ SumOf(staged) = position
    /\ \A n \in 1..Len(staged) :
          staged[n] > 0 /\ (n < Len(staged) \/ ~ended => staged[n] = SplitSize)
    /\ ended => position = Total
    /\ job \in {"renaming", "done"} => ended
    /\ job = "done" => renamed = Len(staged)

(* A number in the destination holds its own volume or nothing, and what   *)
(* was renamed is there until it is taken back or deleted.                 *)
Showing ==
    /\ \A n \in Number : shown[n] \in {Missing, n} /\ (shown[n] = n => n <= renamed)
    /\ job \in {"renaming", "done"} /\ deletions = 0 =>
          \A n \in 1..renamed : shown[n] = n

(* What is joined is the beginning of the set; if that was whole all the   *)
(* time, the scan cannot miss a volume.                                    *)
Joining ==
    /\ \A n \in DOMAIN joined : joined[n] = n
    /\ Len(joined) <= Len(staged)
    /\ reader = "joined" => highest <= Len(joined)
    /\ complete => job = "done"
    /\ complete /\ reader = "scanning" =>
          \A n \in 1..Len(staged) : shown[n] = n /\ (n \in looked => n <= highest)
    /\ complete /\ reader \in {"joining", "joined"} => Len(staged) <= highest

SplitInv == IInv /\ SplitTypeOK /\ Cutting /\ Showing /\ Joining

(* The archive's length.                                                   *)
LEMMA TotalType == TypeOK => Total \in Nat
<1> SUFFICES ASSUME TypeOK PROVE Total \in Nat
  OBVIOUS
<1> DEFINE s == [e \in DOMAIN archive |-> 1 + archive[e].written]
<1>1. archive \in Seq(Record) /\ Len(archive) \in Nat /\ DOMAIN archive = 1..Len(archive)
  BY ArchiveType
<1>2. \A e \in DOMAIN archive : 1 + archive[e].written \in Nat
  <2>1. \A x \in Record : 1 + x.written \in Nat
    BY TreeAssumption DEF Record
  <2> QED
    BY <1>1, <2>1
<1>3. s \in Seq(Nat)
  BY <1>1, <1>2
<1> HIDE DEF s
<1>4. SumOf(s) \in Nat
  BY <1>3, SumType
<1> QED
  BY <1>4 DEF Total, s

(* The invariant holds at the beginning.                                   *)
LEMMA SplitInitially == SplitInit => SplitInv
<1> SUFFICES ASSUME SplitInit PROVE SplitInv
  OBVIOUS
<1>1. IInv /\ TypeOK
  BY InitKeeps DEF SplitInit, IInv, Control
<1>2. Total \in Nat
  BY <1>1, TotalType
<1>3. /\ job = "waiting" /\ position = 0 /\ ended = FALSE /\ staged = <<>>
      /\ renamed = 0 /\ withdrawn = 0 /\ shown = [n \in Number |-> Missing]
      /\ strays = {} /\ deletions = 0
      /\ reader = "idle" /\ looked = {} /\ highest = 1 /\ joined = <<>>
      /\ complete = FALSE
  BY DEF SplitInit
<1>4. Number = 1..MaxVolumes /\ MaxVolumes \in Nat \ {0} /\ MaxDeletions \in Nat /\ Missing = 0
  BY SplitAssumption DEF Number, Missing
<1>5. SplitTypeOK
  <2>1. complete \in BOOLEAN /\ ended \in BOOLEAN
    BY <1>3, Zenon
  <2>2. highest \in Number /\ shown \in [Number -> {Missing} \cup Number]
        /\ deletions \in 0..MaxDeletions /\ position \in 0..Total
    BY <1>2, <1>3, <1>4
  <2>3. staged \in Seq(0..SplitSize) /\ Len(staged) <= MaxVolumes
        /\ renamed \in 0..Len(staged) /\ withdrawn \in 0..renamed
        /\ joined \in Seq({Missing} \cup Number)
    BY <1>3, <1>4
  <2> QED
    BY <1>1, <1>3, <2>1, <2>2, <2>3 DEF SplitTypeOK
<1>6. Cutting
  BY <1>3, SumEmpty DEF Cutting
<1>7. Showing
  BY <1>3, <1>4 DEF Showing
<1>8. Joining
  BY <1>3 DEF Joining
<1> QED
  BY <1>1, <1>5, <1>6, <1>7, <1>8 DEF SplitInv

-----------------------------------------------------------------------------
(* Steps of compress before the archive is closed, and of other programs   *)
(* meanwhile: nothing is cut yet.                                          *)
LEMMA ClosedStays == pc = "closed" => ~Next
  BY DEF Next, Begin, NextSource, NextChild, EndFolder, ReadChunk, EndFile,
     EndSources,
         Cancel, Create, Delete, Resize, Change, Compressing, Walking

(* The steps of the traversal cut and publish nothing.                     *)
LEMMA WalkStepKeeps ==
  ASSUME SplitInv, Next, UNCHANGED splitVars
  PROVE  SplitInv'
<1> USE DEF splitVars, cutVars, showVars, readVars
<1>1. job = "waiting" /\ position = 0 /\ ~ended /\ staged = <<>> /\ renamed = 0
  BY ClosedStays DEF SplitInv, Cutting
<1>2. IInv' /\ TypeOK'
  <2>1. IInv'
    BY NextKeeps DEF SplitInv
  <2> QED
    BY <2>1 DEF IInv, Control
<1>3. Total' \in Nat
  <2>1. (TypeOK => Total \in Nat)'
    BY TotalType, PTL
  <2> QED
    BY <1>2, <2>1
<1>4. SplitTypeOK'
  <2>1. position' \in 0..Total'
    BY <1>1, <1>3
  <2> QED
    BY <1>2, <2>1 DEF SplitInv, SplitTypeOK
<1>5. Cutting'
  BY <1>1 DEF SplitInv, Cutting
<1>6. Showing' /\ Joining'
  BY DEF SplitInv, Showing, Joining
<1> QED
  BY <1>2, <1>4, <1>5, <1>6 DEF SplitInv

(* After that the archive stays as it is.                                  *)
LEMMA ArchiveStays ==
  ASSUME SplitInv, UNCHANGED <<fsVars, jobVars, pc, walkVars>>, cancelled' \in BOOLEAN
  PROVE  /\ IInv' /\ TypeOK' /\ UNCHANGED pc /\ UNCHANGED Total
         /\ Total \in Nat /\ TypeOK
<1>1. IInv'
  BY CancelKeeps DEF SplitInv
<1>2. Total' = Total /\ pc' = pc
  BY DEF Total, SumOf, walkVars
<1>3. TypeOK' /\ TypeOK
  BY <1>1 DEF IInv, Control, SplitInv
<1> QED
  BY <1>1, <1>2, <1>3, TotalType

(* What the steps after the traversal leave alone.                         *)
LEMMA StillFacts ==
  ASSUME SplitInv, UNCHANGED vars
  PROVE  /\ IInv' /\ TypeOK' /\ UNCHANGED <<pc, sources, cancelled>>
         /\ UNCHANGED Total
         /\ Total \in Nat /\ TypeOK
<1>1. UNCHANGED <<fsVars, jobVars, pc, walkVars>> /\ cancelled' = cancelled
  BY DEF vars
<1>2. cancelled' \in BOOLEAN
  BY <1>1 DEF SplitInv, SplitTypeOK, TypeOK
<1> QED
  BY <1>1, <1>2, ArchiveStays DEF jobVars

(* What the types say of the volumes.                                      *)
LEMMA VolumeFacts ==
  ASSUME SplitInv
  PROVE  /\ staged \in Seq(Nat) /\ Len(staged) \in Nat
         /\ Len(staged) <= MaxVolumes
         /\ DOMAIN staged = 1..Len(staged)
         /\ SplitSize \in Nat /\ SplitSize > 0 /\ MaxVolumes \in Nat
         /\ MaxVolumes > 0
         /\ Number = 1..MaxVolumes /\ Missing = 0 /\ MaxDeletions \in Nat
         /\ position \in Nat /\ position <= Total /\ Total \in Nat
         /\ renamed \in Nat /\ renamed <= Len(staged)
         /\ withdrawn \in Nat /\ withdrawn <= renamed
         /\ deletions \in Nat /\ deletions <= MaxDeletions
         /\ shown \in [Number -> {Missing} \cup Number] /\ highest \in Number
         /\ joined \in Seq({Missing} \cup Number) /\ Len(joined) \in Nat
         /\ DOMAIN joined = 1..Len(joined)
         /\ staged \in Seq(0..SplitSize)
<1>1. SplitTypeOK /\ Total \in Nat
  BY TotalType DEF SplitInv, SplitTypeOK
<1>2. SplitSize \in Nat /\ SplitSize > 0 /\ MaxVolumes \in Nat /\ MaxVolumes > 0
      /\ MaxDeletions \in Nat
  BY SplitAssumption
<1>3. staged \in Seq(0..SplitSize) /\ Len(staged) \in Nat /\ DOMAIN staged = 1..Len(staged)
  BY <1>1 DEF SplitTypeOK
<1>4. \A n \in 1..Len(staged) : staged[n] \in Nat
  BY <1>2, <1>3
<1>5. staged \in Seq(Nat)
  BY <1>3, <1>4
<1>6. joined \in Seq({Missing} \cup Number) /\ Len(joined) \in Nat
      /\ DOMAIN joined = 1..Len(joined)
  BY <1>1 DEF SplitTypeOK
<1> QED
  BY <1>1, <1>2, <1>3, <1>5, <1>6 DEF SplitTypeOK, Number, Missing

(* Each volume takes the next units, up to the end of the archive.         *)
LEMMA CutVolumeKeeps ==
  ASSUME SplitInv, CutVolume
  PROVE  SplitInv'
<1> DEFINE left == Total - position
<1>1. PICK bytes : bytes = IF left < SplitSize THEN left ELSE SplitSize
  OBVIOUS
<1>2. /\ pc = "closed" /\ job \in {"waiting", "cutting"} /\ ~ended
      /\ job' = "cutting"
      /\ position' = position + bytes /\ ended' = (bytes < SplitSize)
      /\ bytes > 0 => Len(staged) < MaxVolumes
      /\ staged' = IF bytes > 0 THEN Append(staged, bytes) ELSE staged
      /\ UNCHANGED <<vars, showVars, strays, deletions, readVars>>
  BY <1>1 DEF CutVolume, Splitting, Counted
<1> USE DEF showVars, readVars
<1>3. /\ IInv' /\ TypeOK' /\ pc' = pc /\ Total' = Total /\ Total \in Nat
  BY <1>2, StillFacts
<1>4. /\ bytes \in Nat /\ bytes <= SplitSize /\ position + bytes <= Total
      /\ bytes < SplitSize => position + bytes = Total
      /\ ~(bytes < SplitSize) => bytes = SplitSize
  BY <1>1, VolumeFacts
<1>5. ended' \in BOOLEAN
  BY <1>2
<1>6. /\ staged' \in Seq(0..SplitSize) /\ Len(staged') \in Nat
      /\ Len(staged) <= Len(staged') /\ Len(staged') <= MaxVolumes
      /\ \A n \in 1..Len(staged) : staged'[n] = staged[n]
      /\ \A n \in 1..Len(staged') : n \in 1..Len(staged) \/ (n = Len(staged') /\ staged'[n] = bytes /\ bytes > 0)
  <2> DEFINE V == 0..SplitSize
  <2>1. staged \in Seq(V) /\ Len(staged) \in Nat /\ Len(staged) <= MaxVolumes
        /\ MaxVolumes \in Nat /\ bytes \in V
    BY <1>4, VolumeFacts
  <2> HIDE DEF V
  <2>2. CASE bytes > 0
    <3>1. staged' = Append(staged, bytes)
      BY <1>2, <2>2
    <3>2. /\ staged' \in Seq(V) /\ Len(staged') = Len(staged) + 1
          /\ \A n \in 1..Len(staged) : staged'[n] = staged[n]
          /\ staged'[Len(staged) + 1] = bytes
      BY <2>1, <3>1
    <3>3. Len(staged) < MaxVolumes
      BY <1>2, <2>2
    <3>4. Len(staged') \in Nat /\ Len(staged) <= Len(staged') /\ Len(staged') <= MaxVolumes
      BY <2>1, <3>2, <3>3
    <3>5. \A n \in 1..Len(staged') : n \in 1..Len(staged) \/ n = Len(staged) + 1
      BY <2>1, <3>2
    <3> QED
      BY <2>2, <3>2, <3>4, <3>5 DEF V
  <2>3. CASE ~(bytes > 0)
    <3>1. staged' = staged
      BY <1>2, <2>3
    <3> QED
      BY <2>1, <3>1 DEF V
  <2> QED
    BY <2>2, <2>3
<1>7. SumOf(staged') = position'
  <2>1. SumOf(staged) = position
    BY DEF SplitInv, Cutting
  <2>2. CASE bytes > 0
    BY <1>2, <1>4, <2>1, <2>2, SumAppend, VolumeFacts
  <2>3. CASE ~(bytes > 0)
    BY <1>2, <1>4, <2>1, <2>3, VolumeFacts
  <2> QED
    BY <2>2, <2>3
<1>8. SplitTypeOK'
  <2>1. position' \in 0..Total' /\ renamed' \in 0..Len(staged') /\ withdrawn' \in 0..renamed'
    <3>1. /\ renamed \in Nat /\ renamed <= Len(staged) /\ Len(staged) \in Nat
          /\ withdrawn \in Nat /\ withdrawn <= renamed /\ position \in Nat
      BY VolumeFacts
    <3>2. renamed' = renamed /\ withdrawn' = withdrawn /\ position' = position + bytes
      BY <1>2
    <3>3. position' \in 0..Total'
      BY <1>3, <1>4, <3>1, <3>2
    <3> QED
      BY <1>6, <3>1, <3>2, <3>3
  <2>2. job' \in {"waiting", "cutting", "renaming", "done", "undoing", "failed"}
    BY <1>2
  <2>3. UNCHANGED <<shown, strays, deletions, reader, looked, highest, joined, complete>>
    BY <1>2
  <2> QED
    BY <1>3, <1>5, <1>6, <2>1, <2>2, <2>3 DEF SplitInv, SplitTypeOK
<1>9. Cutting'
  <2>1. \A n \in 1..Len(staged) : staged[n] > 0 /\ staged[n] = SplitSize
    BY <1>2 DEF SplitInv, Cutting
  <2>2. ASSUME NEW n \in 1..Len(staged')
        PROVE  /\ staged'[n] > 0
               /\ n < Len(staged') \/ ~ended' => staged'[n] = SplitSize
    <3>1. CASE n \in 1..Len(staged)
      <4>1. staged'[n] = staged[n]
        BY <1>6, <3>1
      <4> QED
        BY <2>1, <3>1, <4>1
    <3>2. CASE n = Len(staged') /\ staged'[n] = bytes /\ bytes > 0
      <4>1. ~(n < Len(staged'))
        BY <1>6, <3>2
      <4>2. ~ended' => bytes = SplitSize
        BY <1>2, <1>4
      <4> QED
        BY <3>2, <4>1, <4>2
    <3> QED
      BY <1>6, <3>1, <3>2
  <2>3. renamed' = 0 /\ (ended' => position' = Total')
    BY <1>2, <1>3, <1>4 DEF SplitInv, Cutting
  <2> QED
    BY <1>2, <1>3, <1>7, <2>2, <2>3 DEF Cutting
<1>10. Showing'
  BY <1>2 DEF SplitInv, Showing
<1>11. Joining'
  <2>1. ~complete /\ UNCHANGED <<joined, reader, highest, complete, looked>>
    BY <1>2 DEF SplitInv, Joining
  <2>2. Len(joined) <= Len(staged')
    BY <1>6, VolumeFacts DEF SplitInv, Joining
  <2> QED
    BY <2>1, <2>2 DEF SplitInv, Joining
<1> QED
  BY <1>3, <1>8, <1>9, <1>10, <1>11 DEF SplitInv

(* Steps that only move the job on.                                        *)
LEMMA JobStepKeeps ==
  ASSUME SplitInv, CutFails \/ ChooseName \/ Finish
  PROVE  SplitInv'
<1>1. UNCHANGED <<vars, cutVars, showVars, strays, deletions, readVars>>
  BY DEF CutFails, ChooseName, Finish
<1> USE DEF cutVars, showVars, readVars
<1>2. /\ IInv' /\ TypeOK' /\ pc' = pc /\ Total' = Total
  BY <1>1, StillFacts
<1>3. /\ job' \in {"undoing", "renaming", "done"} /\ job # "done"
      /\ pc = "closed"
      /\ job' \in {"renaming", "done"} => ended
      /\ job' = "done" => job = "renaming" /\ renamed = Len(staged)
      /\ job' = "renaming" => renamed = 0
  BY DEF SplitInv, Cutting, CutFails, ChooseName, Finish, Splitting
<1>4. SplitTypeOK'
  BY <1>1, <1>2, <1>3 DEF SplitInv, SplitTypeOK
<1>5. Cutting'
  BY <1>1, <1>2, <1>3 DEF SplitInv, Cutting
<1>6. Showing'
  <2>1. job' \in {"renaming", "done"} /\ deletions' = 0 =>
           \A n \in 1..renamed' : shown'[n] = n
    <3>1. renamed' = renamed /\ deletions' = deletions /\ shown' = shown
      BY <1>1
    <3>2. CASE job' = "renaming"
      <4>1. \A n \in 1..renamed' : FALSE
        BY <1>3, <3>1, <3>2
      <4> QED
        BY <4>1
    <3>3. CASE job' = "done"
      BY <1>3, <3>1, <3>3 DEF SplitInv, Showing
    <3> QED
      BY <1>3, <3>2, <3>3
  <2> QED
    BY <1>1, <2>1 DEF SplitInv, Showing
<1>7. Joining'
  BY <1>1, <1>3 DEF SplitInv, Joining
<1> QED
  BY <1>2, <1>4, <1>5, <1>6, <1>7 DEF SplitInv

(* Volumes appear in their order.                                          *)
LEMMA RenameVolumeKeeps ==
  ASSUME SplitInv, RenameVolume
  PROVE  SplitInv'
<1>1. /\ job = "renaming" /\ renamed < Len(staged)
      /\ UNCHANGED <<vars, cutVars, withdrawn, strays, deletions, readVars>>
  BY DEF RenameVolume
<1> USE DEF cutVars, readVars
<1>2. /\ IInv' /\ TypeOK' /\ pc' = pc /\ Total' = Total
  BY <1>1, StillFacts
<1>3. ~complete
  BY <1>1 DEF SplitInv, Joining
<1>4. CASE job' = "undoing" /\ UNCHANGED <<renamed, shown>>
  <2>1. SplitTypeOK'
    BY <1>1, <1>2, <1>4 DEF SplitInv, SplitTypeOK
  <2>2. Cutting' /\ Showing' /\ Joining'
    BY <1>1, <1>2, <1>3, <1>4 DEF SplitInv, Cutting, Showing, Joining
  <2> QED
    BY <1>2, <2>1, <2>2 DEF SplitInv
<1>5. CASE /\ renamed' = renamed + 1
           /\ shown' = [shown EXCEPT ![renamed + 1] = renamed + 1]
           /\ UNCHANGED job
  <2>1. renamed + 1 \in Number /\ renamed' \in 0..Len(staged') /\ withdrawn' \in 0..renamed'
    BY <1>1, <1>5, VolumeFacts
  <2>2. /\ shown' \in [Number -> {Missing} \cup Number]
        /\ \A n \in Number : shown'[n] = IF n = renamed + 1 THEN n ELSE shown[n]
    BY <1>5, <2>1, VolumeFacts
  <2>3. SplitTypeOK'
    BY <1>1, <1>2, <1>5, <2>1, <2>2 DEF SplitInv, SplitTypeOK
  <2>4. Cutting'
    BY <1>1, <1>2, <1>5 DEF SplitInv, Cutting
  <2>5. Showing'
    <3>1. ASSUME NEW n \in Number
          PROVE  shown'[n] \in {Missing, n} /\ (shown'[n] = n => n <= renamed')
      BY <1>5, <2>2, VolumeFacts DEF SplitInv, Showing
    <3>2. ASSUME deletions' = 0, NEW n \in 1..renamed'
          PROVE  shown'[n] = n
      <4>0. /\ renamed \in Nat /\ renamed < MaxVolumes
            /\ MaxVolumes \in Nat /\ Number = 1..MaxVolumes
        BY <1>1, VolumeFacts
      <4>1. n \in Number /\ (n = renamed + 1 \/ n \in 1..renamed)
        BY <1>5, <4>0
      <4> QED
        BY <1>1, <2>2, <3>2, <4>1 DEF SplitInv, Showing
    <3> QED
      BY <3>1, <3>2 DEF Showing
  <2>6. Joining'
    BY <1>1, <1>3, <1>5 DEF SplitInv, Joining
  <2> QED
    BY <1>2, <2>3, <2>4, <2>5, <2>6 DEF SplitInv
<1> QED
  BY <1>4, <1>5 DEF RenameVolume

(* They are taken back, the first volume first.                            *)
LEMMA TakeBackKeeps ==
  ASSUME SplitInv, TakeBack
  PROVE  SplitInv'
<1>1. /\ job = "undoing"
      /\ UNCHANGED <<vars, cutVars, renamed, strays, deletions, readVars>>
  BY DEF TakeBack
<1> USE DEF cutVars, readVars
<1>2. /\ IInv' /\ TypeOK' /\ pc' = pc /\ Total' = Total
  BY <1>1, StillFacts
<1>3. ~complete
  BY <1>1 DEF SplitInv, Joining
<1>4. CASE job' = "failed" /\ UNCHANGED <<withdrawn, shown>>
  <2>1. SplitTypeOK'
    BY <1>1, <1>2, <1>4 DEF SplitInv, SplitTypeOK
  <2>2. Cutting' /\ Showing' /\ Joining'
    BY <1>1, <1>2, <1>3, <1>4 DEF SplitInv, Cutting, Showing, Joining
  <2> QED
    BY <1>2, <2>1, <2>2 DEF SplitInv
<1>5. CASE /\ withdrawn < renamed /\ withdrawn' = withdrawn + 1
           /\ shown' = [shown EXCEPT ![withdrawn + 1] = Missing]
           /\ UNCHANGED job
  <2>0. withdrawn \in Nat /\ renamed \in Nat /\ renamed' = renamed
    BY <1>1, VolumeFacts
  <2>1. withdrawn' \in 0..renamed'
    BY <1>5, <2>0
  <2>2. /\ shown' \in [Number -> {Missing} \cup Number]
        /\ \A n \in Number : shown'[n] = Missing \/ shown'[n] = shown[n]
    BY <1>5, VolumeFacts
  <2>3. SplitTypeOK'
    BY <1>1, <1>2, <1>5, <2>1, <2>2 DEF SplitInv, SplitTypeOK
  <2>4. Cutting'
    BY <1>1, <1>2, <1>5 DEF SplitInv, Cutting
  <2>5. Showing'
    BY <1>1, <1>5, <2>2, VolumeFacts DEF SplitInv, Showing
  <2>6. Joining'
    BY <1>1, <1>3, <1>5 DEF SplitInv, Joining
  <2> QED
    BY <1>2, <2>3, <2>4, <2>5, <2>6 DEF SplitInv
<1> QED
  BY <1>4, <1>5 DEF TakeBack

(* A cancellation changes nothing yet.                                     *)
LEMMA CancelCutKeeps ==
  ASSUME SplitInv, CancelCut
  PROVE  SplitInv'
<1>1. UNCHANGED <<fsVars, jobVars, pc, walkVars, splitVars>> /\ cancelled' \in BOOLEAN
  BY DEF CancelCut
<1> USE DEF splitVars, cutVars, showVars, readVars
<1>2. /\ IInv' /\ TypeOK' /\ pc' = pc /\ Total' = Total
  BY <1>1, ArchiveStays
<1>3. SplitTypeOK'
  BY <1>1, <1>2 DEF SplitInv, SplitTypeOK
<1>4. Cutting' /\ Showing' /\ Joining'
  BY <1>1, <1>2 DEF SplitInv, Cutting, Showing, Joining
<1> QED
  BY <1>2, <1>3, <1>4 DEF SplitInv

-----------------------------------------------------------------------------
(* The reader, and the user who deletes volumes.                           *)
LEMMA OpenFirstKeeps ==
  ASSUME SplitInv, OpenFirst
  PROVE  SplitInv'
<1>1. /\ reader = "idle" /\ reader' = "scanning" /\ looked' = {}
      /\ complete' = (job = "done" /\ deletions = 0)
      /\ strays' \in StrayChoices
      /\ UNCHANGED <<vars, job, cutVars, showVars, deletions, highest, joined>>
  BY DEF OpenFirst
<1> USE DEF cutVars, showVars
<1>2. /\ IInv' /\ TypeOK' /\ pc' = pc /\ Total' = Total
  BY <1>1, StillFacts
<1>3. complete' \in BOOLEAN /\ strays' \subseteq Number
  BY <1>1, SplitAssumption DEF Number
<1>4. SplitTypeOK'
  BY <1>1, <1>2, <1>3 DEF SplitInv, SplitTypeOK
<1>5. Cutting' /\ Showing'
  BY <1>1, <1>2 DEF SplitInv, Cutting, Showing
<1>6. Joining'
  <2>1. complete' => job = "done" /\ \A n \in 1..Len(staged) : shown[n] = n
    BY <1>1 DEF SplitInv, Cutting, Showing
  <2> QED
    BY <1>1, <2>1 DEF SplitInv, Joining
<1> QED
  BY <1>2, <1>4, <1>5, <1>6 DEF SplitInv

(* The scan for the highest volume sees one number after the other.        *)
LEMMA LookKeeps ==
  ASSUME SplitInv, NEW n \in Number, Look(n)
  PROVE  SplitInv'
<1>1. /\ reader = "scanning" /\ looked' = looked \cup {n}
      /\ highest' = IF Found(n) /\ n > highest THEN n ELSE highest
      /\ UNCHANGED <<vars, job, cutVars, showVars, strays, deletions, reader,
                     joined,
                     complete>>
  BY DEF Look
<1> USE DEF cutVars, showVars
<1>2. /\ IInv' /\ TypeOK' /\ pc' = pc /\ Total' = Total
  BY <1>1, StillFacts
<1>3. highest' \in Number /\ highest' >= highest /\ (Found(n) => highest' >= n)
  BY <1>1, VolumeFacts
<1>4. SplitTypeOK'
  BY <1>1, <1>2, <1>3 DEF SplitInv, SplitTypeOK
<1>5. Cutting' /\ Showing'
  BY <1>1, <1>2 DEF SplitInv, Cutting, Showing
<1>6. Joining'
  <2>1. ASSUME complete, NEW m \in 1..Len(staged)
        PROVE  shown[m] = m /\ (m \in looked' => m <= highest')
    <3>1. shown[m] = m /\ (m \in looked => m <= highest)
      BY <1>1, <2>1 DEF SplitInv, Joining
    <3>2. m = n => Found(n)
      BY <3>1, VolumeFacts DEF Found, Exists
    <3>3. highest \in Nat /\ highest' \in Nat /\ m \in Nat
      <4>1. highest \in 1..MaxVolumes /\ highest' \in 1..MaxVolumes
        BY <1>3, VolumeFacts DEF Number
      <4> QED
        BY <4>1
    <3>4. CASE m = n
      BY <1>3, <3>1, <3>2, <3>3, <3>4
    <3>5. CASE m # n
      <4>1. m \in looked' => m \in looked
        BY <1>1, <3>5
      <4> QED
        BY <1>3, <3>1, <3>3, <4>1
    <3> QED
      BY <3>4, <3>5
  <2> QED
    BY <1>1, <2>1 DEF SplitInv, Joining
<1> QED
  BY <1>2, <1>4, <1>5, <1>6 DEF SplitInv

(* Joining starts when every number has been looked at.                    *)
LEMMA EndScanKeeps ==
  ASSUME SplitInv, EndScan
  PROVE  SplitInv'
<1>1. /\ reader = "scanning" /\ looked = Number /\ reader' = "joining"
      /\ UNCHANGED <<vars, job, cutVars, showVars, strays, deletions, looked,
                     highest,
                     joined, complete>>
  BY DEF EndScan
<1> USE DEF cutVars, showVars
<1>2. /\ IInv' /\ TypeOK' /\ pc' = pc /\ Total' = Total
  BY <1>1, StillFacts
<1>3. SplitTypeOK'
  BY <1>1, <1>2 DEF SplitInv, SplitTypeOK
<1>4. Cutting' /\ Showing'
  BY <1>1, <1>2 DEF SplitInv, Cutting, Showing
<1>5. Joining'
  <2>1. ASSUME complete PROVE Len(staged) <= highest
    <3>1. CASE Len(staged) = 0
      BY <3>1, VolumeFacts
    <3>2. CASE Len(staged) # 0
      <4>1. Len(staged) \in 1..Len(staged) /\ Len(staged) \in looked
        BY <1>1, <3>2, VolumeFacts
      <4> QED
        BY <1>1, <2>1, <4>1 DEF SplitInv, Joining
    <3> QED
      BY <3>1, <3>2
  <2> QED
    BY <1>1, <2>1 DEF SplitInv, Joining
<1> QED
  BY <1>2, <1>3, <1>4, <1>5 DEF SplitInv

(* A volume that is joined is the one that belongs there.                  *)
LEMMA JoinVolumeKeeps ==
  ASSUME SplitInv, JoinVolume
  PROVE  SplitInv'
<1>1. PICK n : n = Len(joined) + 1
  OBVIOUS
<1>2. /\ reader = "joining"
      /\ UNCHANGED <<vars, job, cutVars, showVars, strays, deletions, looked,
                     highest,
                     complete>>
      /\ \/ n > highest /\ reader' = "joined" /\ UNCHANGED joined
         \/ n <= highest /\ Exists(n) /\ joined' = Append(joined, shown[n]) /\ UNCHANGED reader
         \/ n <= highest /\ reader' = "refused" /\ UNCHANGED joined
  BY <1>1 DEF JoinVolume
<1> USE DEF cutVars, showVars
<1>3. /\ IInv' /\ TypeOK' /\ pc' = pc /\ Total' = Total
  BY <1>2, StillFacts
<1>4. Cutting' /\ Showing'
  BY <1>2, <1>3 DEF SplitInv, Cutting, Showing
<1>5. CASE reader' \in {"joined", "refused"} /\ UNCHANGED joined
           /\ (reader' = "joined" => n > highest)
  <2>1. SplitTypeOK'
    BY <1>2, <1>3, <1>5 DEF SplitInv, SplitTypeOK
  <2>2. reader' = "joined" => highest <= Len(joined)
    BY <1>1, <1>5, VolumeFacts
  <2>3. Joining'
    BY <1>2, <1>5, <2>2 DEF SplitInv, Joining
  <2> QED
    BY <1>3, <1>4, <2>1, <2>3 DEF SplitInv
<1>6. CASE n <= highest /\ Exists(n) /\ joined' = Append(joined, shown[n]) /\ UNCHANGED reader
  <2>1. n \in Number
    BY <1>1, <1>6, VolumeFacts
  <2>2. shown[n] = n /\ n <= renamed /\ n <= Len(staged)
    BY <1>6, <2>1, VolumeFacts DEF SplitInv, Showing, Exists
  <2> DEFINE V == {Missing} \cup Number
  <2>3. joined \in Seq(V) /\ n \in V /\ joined' = Append(joined, n)
    BY <1>6, <2>1, <2>2, VolumeFacts
  <2> HIDE DEF V
  <2>4. /\ joined' \in Seq(V) /\ Len(joined') = n /\ DOMAIN joined' = 1..n
        /\ \A m \in DOMAIN joined' : m \in DOMAIN joined \/ m = n
        /\ \A m \in DOMAIN joined : joined'[m] = joined[m]
        /\ joined'[n] = n
    BY <1>1, <2>3
  <2>5. SplitTypeOK'
    BY <1>2, <1>3, <1>6, <2>4 DEF SplitInv, SplitTypeOK, V
  <2>6. \A m \in DOMAIN joined' : joined'[m] = m
    BY <2>4 DEF SplitInv, Joining
  <2>7. Joining'
    BY <1>2, <1>6, <2>2, <2>4, <2>6 DEF SplitInv, Joining
  <2> QED
    BY <1>3, <1>4, <2>5, <2>7 DEF SplitInv
<1> QED
  BY <1>2, <1>5, <1>6

(* The user deletes a volume; none takes its place.                        *)
LEMMA DeleteVolumeKeeps ==
  ASSUME SplitInv, NEW n \in Number, DeleteVolume(n)
  PROVE  SplitInv'
<1>1. /\ deletions < MaxDeletions /\ deletions' = deletions + 1
      /\ shown' = [shown EXCEPT ![n] = Missing]
      /\ complete' = (complete /\ reader # "scanning")
      /\ UNCHANGED <<vars, job, cutVars, renamed, withdrawn, strays, reader,
                     looked,
                     highest, joined>>
  BY DEF DeleteVolume
<1> USE DEF cutVars
<1>2. /\ IInv' /\ TypeOK' /\ pc' = pc /\ Total' = Total
  BY <1>1, StillFacts
<1>3. complete' \in BOOLEAN /\ deletions' \in 0..MaxDeletions /\ deletions' # 0
  BY <1>1, VolumeFacts
<1>4. /\ shown' \in [Number -> {Missing} \cup Number]
      /\ \A m \in Number : shown'[m] = Missing \/ shown'[m] = shown[m]
  BY <1>1, VolumeFacts
<1>5. SplitTypeOK'
  BY <1>1, <1>2, <1>3, <1>4 DEF SplitInv, SplitTypeOK
<1>6. Cutting'
  BY <1>1, <1>2 DEF SplitInv, Cutting
<1>7. Showing'
  BY <1>1, <1>3, <1>4, VolumeFacts DEF SplitInv, Showing
<1>8. Joining'
  BY <1>1 DEF SplitInv, Joining
<1> QED
  BY <1>2, <1>5, <1>6, <1>7, <1>8 DEF SplitInv

(* A stutter keeps everything.                                             *)
LEMMA UnchangedKeeps ==
  ASSUME SplitInv, UNCHANGED <<vars, splitVars>>
  PROVE  SplitInv'
<1> USE DEF splitVars, cutVars, showVars, readVars
<1>1. /\ IInv' /\ TypeOK' /\ pc' = pc /\ Total' = Total
  BY StillFacts
<1>2. SplitTypeOK'
  BY <1>1 DEF SplitInv, SplitTypeOK
<1>3. Cutting' /\ Showing' /\ Joining'
  BY <1>1 DEF SplitInv, Cutting, Showing, Joining
<1> QED
  BY <1>1, <1>2, <1>3 DEF SplitInv

(* Every step keeps the invariant.                                         *)
LEMMA SplitInvariance == SplitSpec => []SplitInv
<1>1. SplitInv /\ [SplitNext]_<<vars, splitVars>> => SplitInv'
  <2> SUFFICES ASSUME SplitInv, [SplitNext]_<<vars, splitVars>> PROVE SplitInv'
    OBVIOUS
  <2>1. CASE Next /\ UNCHANGED splitVars
    BY <2>1, WalkStepKeeps
  <2>2. CASE CutVolume \/ CutFails \/ ChooseName \/ RenameVolume \/ Finish \/ TakeBack
             \/ CancelCut
    BY <2>2, CutVolumeKeeps, JobStepKeeps, RenameVolumeKeeps, TakeBackKeeps,
       CancelCutKeeps
  <2>3. CASE OpenFirst \/ EndScan \/ JoinVolume
    BY <2>3, OpenFirstKeeps, EndScanKeeps, JoinVolumeKeeps
  <2>4. CASE \E n \in Number : Look(n) \/ DeleteVolume(n)
    BY <2>4, LookKeeps, DeleteVolumeKeeps
  <2>5. CASE UNCHANGED <<vars, splitVars>>
    BY <2>5, UnchangedKeeps
  <2> QED
    BY <2>1, <2>2, <2>3, <2>4, <2>5 DEF SplitNext
<1> QED
  BY <1>1, SplitInitially, PTL DEF SplitSpec

-----------------------------------------------------------------------------
(* SplitTypeOK: every variable of the traversal, the cutting loop and the  *)
(* reader stays in its range; the cut never passes the archive's end and   *)
(* no more volumes are renamed than were cut.                              *)
THEOREM SplitTypesHold == SplitSpec => []SplitTypeOK
<1>1. SplitInv => SplitTypeOK
  BY DEF SplitInv
<1> QED
  BY <1>1, SplitInvariance, PTL

(* ArchivesAll: an archive that compress closed holds every item that was  *)
(* below a source, unchanged and not excluded, all the time.               *)
THEOREM CompressTakesAll == SplitSpec => []ArchivesAll
<1>1. SplitInv => ArchivesAll
  BY AllOfIt DEF SplitInv
<1> QED
  BY <1>1, SplitInvariance, PTL

(* ArchivesOnly: at every moment the archive has, for each source, nothing *)
(* but items at or below it, once, after their folders, never an excluded  *)
(* one and never the archive itself, and files as long as declared.        *)
THEOREM CompressTakesNothingElse == SplitSpec => []ArchivesOnly
<1>1. SplitInv => ArchivesOnly
  BY NothingElse DEF SplitInv
<1> QED
  BY <1>1, SplitInvariance, PTL

(* JoinsWhole: the volumes are the archive, and a reader that succeeds has *)
(* joined the first of them in order, all if the set stayed whole while it *)
(* looked.                                                                 *)
THEOREM VolumesJoin == SplitSpec => []JoinsWhole
<1>1. SplitInv => JoinsWhole
  <2> SUFFICES ASSUME SplitInv PROVE JoinsWhole
    OBVIOUS
  <2>1. job \in {"renaming", "done"} => VolumesFit
    BY VolumeFacts DEF SplitInv, Cutting, VolumesFit
  <2>2. reader = "joined" => \A n \in DOMAIN joined : joined[n] = n
    BY DEF SplitInv, Joining
  <2>3. reader = "joined" /\ complete => Len(joined) = Len(staged)
    BY VolumeFacts DEF SplitInv, Joining
  <2> QED
    BY <2>1, <2>2, <2>3 DEF JoinsWhole
<1> QED
  BY <1>1, SplitInvariance, PTL
=============================================================================
