---------------------------- MODULE MainPage_proof ----------------------------
(***************************************************************************)
(* Proofs about MainPage, for any number of operations and selections.     *)
(*                                                                         *)
(* The invariants of the runs support each other.  What is needed beside   *)
(* them: which operation a busy page belongs to (Started), when a window   *)
(* may be about to close (Closable), what the buttons say about the        *)
(* operation under way (Listed), and how the flag of an operation relates  *)
(* to the progress that is queued (Waiting).                               *)
(***************************************************************************)
EXTENDS MainPage, FiniteSetTheorems, TLAPS

Flags ==
    /\ checked \in BOOLEAN /\ readArchive \in BOOLEAN /\ reveal \in BOOLEAN
    /\ busy \in BOOLEAN /\ drop \in BOOLEAN /\ closing \in BOOLEAN

Ranges ==
    /\ mode \in {"extract", "compress"}
    /\ selection \in 0..MaxLoads /\ loads \in 0..MaxLoads
    /\ preview \in 0..MaxLoads /\ lastOutput \in 0..MaxLoads
    /\ status \in {"ready", "loaded", "working", "progress", "cancelling",
                   "cancelled", "listed", "made", "failed"}
    /\ operationId \in 0..MaxOps /\ token \in 0..MaxOps
    /\ cancelled \in [Ops -> BOOLEAN]
    /\ worker \in [Ops -> {"none", "preview", "archive", "done"}]
    /\ input \in [Ops -> 0..MaxLoads]
    /\ pending \in [Ops -> BOOLEAN]
    /\ queue \in Seq(Messages)
    /\ picker \in {"none", "files", "destination"}
    /\ window \in {"open", "closed"}

(* A busy page has begun the current operation with its selection; the     *)
(* flags of later operations are clear.                                    *)
Started ==
    /\ busy => /\ operationId # 0 /\ token = operationId
               /\ selection # 0 /\ input[operationId] = selection
    /\ \A o \in Ops : o > operationId => ~cancelled[o]

(* A close waits only for a busy page without a picker in front.           *)
Closable ==
    /\ closing => busy /\ picker = "none" /\ window = "open"
    /\ window = "closed" => ~busy /\ picker = "none"

(* What the buttons say fits what is under way.                            *)
Listed ==
    /\ checked => preview # 0
    /\ readArchive => mode = "extract" /\ ~reveal
    /\ busy /\ worker[operationId] = "preview" => mode = "extract"
    /\ busy /\ worker[operationId] = "archive" => ~readArchive
    /\ \A i \in 1..Len(queue) : queue[i].what = "listed" => mode = "extract"
    /\ \A i \in 1..Len(queue) : queue[i].what = "made" => ~readArchive

(* A progress message that waits is the only one, and its flag is set.     *)
Waiting ==
    /\ \A i, k \in 1..Len(queue) : ~IsAnswer(i) /\ ~IsAnswer(k) => i = k
    /\ \A i \in 1..Len(queue) : ~IsAnswer(i) => pending[queue[i].op]

IInv ==
    /\ Flags /\ Ranges /\ OneOperation /\ Started /\ Closable
    /\ Listed /\ PreviewMatches /\ RevealIsTrue /\ Waiting
    /\ NoProgressAfterCancel

(* TypeOK in two parts: the provers treat Booleans by themselves.          *)
LEMMA TypeParts == TypeOK <=> Flags /\ Ranges
  BY Zenon DEF TypeOK, Flags, Ranges

(* An idle page with an empty queue.                                       *)
LEMMA Initially == Init => IInv
<1> SUFFICES ASSUME Init PROVE IInv
  OBVIOUS
<1> USE BoundsAssumption DEF Init
<1>1. Flags
  BY DEF Flags
<1>2. Ranges
  BY DEF Ranges, Ops, Messages
<1>3. OneOperation
  BY DEF OneOperation, Working, IsAnswer, Ops
<1>4. Started /\ Closable
  BY DEF Started, Closable, Ops
<1>5. Listed /\ PreviewMatches /\ RevealIsTrue
  BY DEF Listed, PreviewMatches, RevealIsTrue
<1>6. Waiting /\ NoProgressAfterCancel
  BY DEF Waiting, NoProgressAfterCancel, IsAnswer
<1> QED
  BY <1>1, <1>2, <1>3, <1>4, <1>5, <1>6 DEF IInv

-----------------------------------------------------------------------------
(* The dispatcher queue.                                                   *)

(* What is left when the first message is taken.                           *)
LEMMA MessageTaken ==
  ASSUME NEW q \in Seq(Messages), q # <<>>
  PROVE  /\ Len(q) \in Nat \ {0} /\ Head(q) = q[1] /\ q[1] \in Messages
         /\ Tail(q) \in Seq(Messages) /\ Len(Tail(q)) = Len(q) - 1
         /\ \A i \in 1..Len(Tail(q)) : i + 1 \in 1..Len(q) /\ Tail(q)[i] = q[i + 1]
         /\ Len(q) = 1 => Tail(q) = <<>>
  BY SMT

(* What a message at the end of the queue changes.                         *)
LEMMA MessageQueued ==
  ASSUME NEW q \in Seq(Messages), NEW m \in Messages
  PROVE  /\ Append(q, m) \in Seq(Messages) /\ Len(Append(q, m)) = Len(q) + 1
         /\ Append(q, m)[Len(q) + 1] = m /\ Append(q, m) # <<>>
         /\ \A i \in 1..Len(q) : Append(q, m)[i] = q[i]
         /\ Len(q) \in Nat
  BY SMT

(* An answer is the last message of the operation that keeps the page busy.*)
LEMMA AnswerTaken ==
  ASSUME IInv, NEW what, what \subseteq Results, Dequeue(what)
  PROVE  /\ queue' = <<>> /\ busy /\ ~Working(operationId)
         /\ Head(queue).op = operationId /\ Head(queue) = queue[1]
         /\ Len(queue) = 1 /\ Current
<1> USE DEF IInv
<1>1. queue \in Seq(Messages) /\ queue # <<>> /\ queue' = Tail(queue)
      /\ Head(queue).what \in Results
  BY DEF Dequeue, Ranges
<1>2. Len(queue) \in Nat \ {0} /\ Head(queue) = queue[1]
      /\ (Len(queue) = 1 => Tail(queue) = <<>>)
  BY <1>1, MessageTaken
<1>3. busy /\ queue[1].op = operationId
  BY <1>1, <1>2, SMT DEF OneOperation
<1>4. IsAnswer(1)
  BY <1>1, <1>2, SMT DEF IsAnswer, Results
<1>5. Len(queue) = 1 /\ ~Working(operationId)
  <2>1. 1 \in 1..Len(queue)
    BY <1>2
  <2> QED
    BY <1>3, <1>4, <2>1, Zenon DEF OneOperation
<1> QED
  BY <1>1, <1>2, <1>3, <1>5 DEF Current

-----------------------------------------------------------------------------
(* Parts of steps.                                                         *)

(* Nothing but marks, the picker, a drop and a failure that is told.       *)
LEMMA Quiet ==
  ASSUME IInv, Flags', Ranges',
         UNCHANGED <<mode, selection, loads, preview, readArchive, lastOutput, busy,
                     opVars, pending, queue, closeVars>>,
         checked' => preview # 0,
         reveal' => reveal,
         ~busy \/ picker' \in {picker, "none"},
         window = "open" \/ picker' \in {picker, "none"},
         ~busy \/ status' \in {status, "failed"}
  PROVE  IInv'
<1> USE DEF IInv, opVars, closeVars
<1>1. OneOperation'
  BY DEF OneOperation, Working, IsAnswer
<1>2. Started'
  BY DEF Started
<1>3. Closable'
  BY DEF Closable
<1>4. Listed'
  BY DEF Listed
<1>5. PreviewMatches' /\ RevealIsTrue'
  BY DEF PreviewMatches, RevealIsTrue
<1>6. Waiting'
  BY DEF Waiting, IsAnswer
<1>7. NoProgressAfterCancel'
  BY DEF NoProgressAfterCancel
<1> QED
  BY <1>1, <1>2, <1>3, <1>4, <1>5, <1>6, <1>7

(* An idle page that begins an operation for what it selects.              *)
LEMMA Launched ==
  ASSUME IInv, ~busy, window = "open",
         NEW task \in {"preview", "archive"}, NEW source \in 0..MaxLoads, source # 0,
         Launch(task, source), selection' = source,
         picker' \in {picker, "none"},
         UNCHANGED <<pending, queue, closeVars>>
  PROVE  /\ OneOperation' /\ Started' /\ Closable' /\ Waiting'
         /\ NoProgressAfterCancel'
         /\ busy' = TRUE /\ status' = "working" /\ queue = <<>>
         /\ operationId' \in 0..MaxOps /\ token' \in 0..MaxOps
         /\ cancelled' \in [Ops -> BOOLEAN]
         /\ worker' \in [Ops -> {"none", "preview", "archive", "done"}]
         /\ input' \in [Ops -> 0..MaxLoads]
         /\ worker'[operationId'] = task
<1> USE DEF IInv, Launch, closeVars
<1>0. operationId + 1 \in Ops /\ operationId' = operationId + 1 /\ queue = <<>>
      /\ busy' = TRUE /\ status' = "working"
  BY BoundsAssumption, SMT DEF Ops, Ranges, OneOperation
<1>1. /\ operationId' \in 0..MaxOps /\ token' \in 0..MaxOps
      /\ cancelled' \in [Ops -> BOOLEAN]
      /\ worker' \in [Ops -> {"none", "preview", "archive", "done"}]
      /\ input' \in [Ops -> 0..MaxLoads]
      /\ worker'[operationId'] = task /\ input'[operationId'] = source
  BY <1>0, SMT DEF Ranges, Ops
<1>2. OneOperation'
  <2>1. \A o \in Ops : Working(o)' => o = operationId'
    BY <1>0, SMT DEF OneOperation, Working, Ranges
  <2>2. Working(operationId)'
    BY <1>1 DEF Working
  <2> QED
    BY <1>0, <2>1, <2>2, SMT DEF OneOperation, IsAnswer
<1>3. Started'
  BY <1>0, <1>1, SMT DEF Started, Ops, Ranges
<1>4. Closable'
  BY <1>0 DEF Closable
<1>5. Waiting'
  BY <1>0, SMT DEF Waiting, IsAnswer
<1>6. NoProgressAfterCancel'
  BY <1>0, SMT DEF NoProgressAfterCancel, Started, Ops, Ranges, Flags
<1> QED
  BY <1>0, <1>1, <1>2, <1>3, <1>4, <1>5, <1>6

(* The page becomes, or stays, idle.                                       *)
LEMMA GoesIdle ==
  ASSUME IInv, SetIdle, queue' = <<>>, picker' \in {picker, "none"},
         \A o \in Ops : ~Working(o),
         operationId' \in {operationId, operationId + 1},
         UNCHANGED <<worker, cancelled, pending>>
  PROVE  /\ OneOperation' /\ Started' /\ Closable' /\ Waiting'
         /\ NoProgressAfterCancel'
         /\ busy' = FALSE /\ closing' = FALSE /\ window' \in {"open", "closed"}
<1> USE DEF IInv, SetIdle
<1>1. OneOperation'
  BY SMT DEF OneOperation, Working, IsAnswer
<1>2. Started'
  BY SMT DEF Started, Ops, Ranges
<1>3. Closable'
  BY DEF Closable
<1>4. Waiting'
  BY SMT DEF Waiting, IsAnswer
<1>5. NoProgressAfterCancel'
  BY DEF NoProgressAfterCancel
<1>6. busy' = FALSE /\ closing' = FALSE /\ window' \in {"open", "closed"}
  BY DEF Ranges
<1> QED
  BY <1>1, <1>2, <1>3, <1>4, <1>5, <1>6

(* An idle page has nothing queued and nobody who works.                   *)
LEMMA IdlePage ==
  ASSUME IInv, ~busy
  PROVE  queue = <<>> /\ (\A o \in Ops : ~Working(o)) /\ closing = FALSE
  BY DEF IInv, OneOperation, Closable, Flags

(* LoadPaths, from a picker or a drop.                                     *)
LEMMA PathsLoaded ==
  ASSUME IInv, window = "open", NEW extracting \in BOOLEAN, LoadPaths(extracting),
         picker' \in {picker, "none"}, drop' \in BOOLEAN, UNCHANGED <<pending, queue>>
  PROVE  IInv'
<1>1. CASE UNCHANGED <<uiVars, outVars, status, busy, opVars, closeVars>>
  <2> USE <1>1 DEF uiVars, outVars, opVars, closeVars
  <2>1. Flags'
    BY DEF IInv, Flags
  <2>2. Ranges'
    BY DEF IInv, Ranges
  <2>3. checked' => preview # 0
    BY DEF IInv, Listed
  <2> QED
    BY <2>1, <2>2, <2>3, Quiet
<1>2. CASE ~busy /\ PathsGone
  <2> USE <1>2 DEF PathsGone, uiVars, outVars, opVars
  <2>1. /\ OneOperation' /\ Started' /\ Closable' /\ Waiting'
        /\ NoProgressAfterCancel' /\ busy' = FALSE /\ closing' = FALSE
        /\ window' \in {"open", "closed"} /\ queue = <<>>
    BY IdlePage, GoesIdle, Zenon
  <2>2. Flags'
    BY <2>1 DEF IInv, Flags
  <2>3. Ranges'
    BY <2>1 DEF IInv, Ranges
  <2>4. Listed' /\ PreviewMatches' /\ RevealIsTrue'
    BY <2>1 DEF IInv, Listed, PreviewMatches, RevealIsTrue
  <2> QED
    BY <2>1, <2>2, <2>3, <2>4 DEF IInv
<1>3. CASE ~busy /\ Replace(extracting) /\ extracting
  <2> USE <1>3 DEF Replace
  <2>0. loads + 1 \in 0..MaxLoads /\ loads + 1 # 0 /\ selection' = loads + 1
        /\ Launch("preview", loads + 1) /\ UNCHANGED closeVars
    BY BoundsAssumption, SMT DEF IInv, Ranges
  <2>1. /\ OneOperation' /\ Started' /\ Closable' /\ Waiting'
        /\ NoProgressAfterCancel' /\ busy' = TRUE /\ queue = <<>>
        /\ status' = "working"
        /\ operationId' \in 0..MaxOps /\ token' \in 0..MaxOps
        /\ cancelled' \in [Ops -> BOOLEAN]
        /\ worker' \in [Ops -> {"none", "preview", "archive", "done"}]
        /\ input' \in [Ops -> 0..MaxLoads]
        /\ worker'[operationId'] = "preview"
    <3> HIDE DEF Replace
    <3> QED
      BY <2>0, Launched
  <2>2. Flags'
    BY <2>0, <2>1 DEF IInv, Flags, closeVars
  <2>3. Ranges'
    BY <2>0, <2>1, BoundsAssumption DEF IInv, Ranges, closeVars
  <2>4. Listed' /\ PreviewMatches' /\ RevealIsTrue'
    BY <2>0, <2>1 DEF Listed, PreviewMatches, RevealIsTrue
  <2> QED
    BY <2>1, <2>2, <2>3, <2>4 DEF IInv
<1>4. CASE ~busy /\ Replace(extracting) /\ ~extracting
  <2> USE <1>4 DEF Replace, opVars
  <2>0. loads + 1 \in 0..MaxLoads /\ loads + 1 # 0
    BY BoundsAssumption, SMT DEF IInv, Ranges
  <2>1. /\ OneOperation' /\ Started' /\ Closable' /\ Waiting'
        /\ NoProgressAfterCancel' /\ busy' = FALSE /\ closing' = FALSE
        /\ window' \in {"open", "closed"} /\ queue = <<>>
    BY IdlePage, GoesIdle, Zenon
  <2>2. Flags'
    BY <2>1 DEF IInv, Flags
  <2>3. Ranges'
    BY <2>0, <2>1, BoundsAssumption DEF IInv, Ranges
  <2>4. Listed' /\ PreviewMatches' /\ RevealIsTrue'
    BY <2>1 DEF Listed, PreviewMatches, RevealIsTrue
  <2> QED
    BY <2>1, <2>2, <2>3, <2>4 DEF IInv
<1> QED
  BY <1>1, <1>2, <1>3, <1>4, Zenon DEF LoadPaths

(* The flag of the operation under way is set; it is told.                 *)
LEMMA FlagSet ==
  ASSUME IInv, busy, CancelNow, UNCHANGED <<busy, operationId, token, selection, input>>
  PROVE  /\ Started' /\ NoProgressAfterCancel'
         /\ cancelled' \in [Ops -> BOOLEAN]
         /\ status' \in {status, "cancelling"}
<1>1. /\ operationId \in Ops /\ token = operationId
      /\ cancelled \in [Ops -> BOOLEAN]
  BY SMT DEF IInv, Started, Ranges, Ops
<1>2. CASE cancelled[operationId]
  <2>1. UNCHANGED <<cancelled, status>>
    BY <1>1, <1>2 DEF CancelNow
  <2> QED
    BY <1>1, <2>1 DEF IInv, Started, NoProgressAfterCancel
<1>3. CASE ~cancelled[operationId]
  <2>1. /\ cancelled' = [cancelled EXCEPT ![operationId] = TRUE]
        /\ status' = "cancelling"
    BY <1>1, <1>3, SMT DEF CancelNow, Ops
  <2>2. ASSUME NEW o \in Ops, o > operationId PROVE cancelled'[o] = cancelled[o]
    <3>1. o # operationId
      BY <1>1, <2>2, SMT DEF Ops
    <3> QED
      BY <1>1, <2>1, <3>1
  <2>3. Started'
    BY <2>2 DEF IInv, Started
  <2> QED
    BY <1>1, <2>1, <2>3 DEF NoProgressAfterCancel
<1> QED
  BY <1>2, <1>3

-----------------------------------------------------------------------------
(* The user's steps.                                                       *)

(* One step for each handler of the window.                                *)
LEMMA UserSteps == IInv /\ UserStep => IInv'
<1> SUFFICES ASSUME IInv, UserStep PROVE IInv'
  OBVIOUS
<1>1. CASE OpenPicker
  <2> USE <1>1 DEF OpenPicker, uiVars, outVars, opVars, closeVars
  <2>1. Flags' /\ Ranges'
    BY DEF IInv, Flags, Ranges
  <2>2. checked' => preview # 0
    BY DEF IInv, Listed
  <2> QED
    BY <2>1, <2>2, Quiet DEF Interactive
<1>2. CASE PickerReturns
  <2>0. window = "open" /\ picker' = "none" /\ drop' = drop /\ drop \in BOOLEAN
        /\ UNCHANGED <<pending, queue>>
    BY <1>2 DEF PickerReturns, IInv, Closable, Ranges, Flags
  <2>1. CASE \E extracting \in BOOLEAN : LoadPaths(extracting)
    BY <2>0, <2>1, PathsLoaded
  <2>2. CASE /\ status' \in {status, "failed"}
             /\ UNCHANGED <<uiVars, outVars, busy, opVars, closeVars>>
    <3> USE <2>0, <2>2 DEF uiVars, outVars, opVars, closeVars
    <3>1. Flags' /\ Ranges'
      BY DEF IInv, Flags, Ranges
    <3>2. checked' => preview # 0
      BY DEF IInv, Listed
    <3> QED
      BY <3>1, <3>2, Quiet
  <2> QED
    BY <1>2, <2>1, <2>2, Zenon DEF PickerReturns
<1>3. CASE Drop
  <2> USE <1>3 DEF Drop, uiVars, outVars, opVars, closeVars
  <2>1. Flags' /\ Ranges'
    BY DEF IInv, Flags, Ranges
  <2>2. checked' => preview # 0
    BY DEF IInv, Listed
  <2> QED
    BY <2>1, <2>2, Quiet
<1>4. CASE DropItems
  <2>0. window = "open" /\ picker' = picker /\ drop' = FALSE
        /\ UNCHANGED <<pending, queue>>
    BY <1>4 DEF DropItems
  <2>1. CASE \E extracting \in BOOLEAN : LoadPaths(extracting)
    BY <2>0, <2>1, PathsLoaded
  <2>2. CASE status' = "failed" /\ UNCHANGED <<uiVars, outVars, busy, opVars, closeVars>>
    <3> USE <2>0, <2>2 DEF uiVars, outVars, opVars, closeVars
    <3>1. Flags' /\ Ranges'
      BY DEF IInv, Flags, Ranges
    <3>2. checked' => preview # 0
      BY DEF IInv, Listed
    <3> QED
      BY <3>1, <3>2, Quiet
  <2> QED
    BY <1>4, <2>1, <2>2, Zenon DEF DropItems
<1>5. CASE ClearSelection
  <2> USE <1>5 DEF ClearSelection
  <2>1. /\ OneOperation' /\ Started' /\ Closable' /\ Waiting'
        /\ NoProgressAfterCancel' /\ busy' = FALSE /\ closing' = FALSE
        /\ window' \in {"open", "closed"} /\ queue = <<>>
    BY IdlePage, GoesIdle, Zenon
  <2>2. Flags'
    BY <2>1 DEF IInv, Flags
  <2>3. Ranges'
    BY <2>1, BoundsAssumption DEF IInv, Ranges
  <2>4. Listed' /\ PreviewMatches' /\ RevealIsTrue'
    BY <2>1 DEF Listed, PreviewMatches, RevealIsTrue
  <2> QED
    BY <2>1, <2>2, <2>3, <2>4 DEF IInv
<1>6. CASE CheckEntries
  <2> USE <1>6 DEF CheckEntries, outVars, opVars, closeVars
  <2>1. Flags' /\ Ranges'
    BY DEF IInv, Flags, Ranges
  <2> QED
    BY <2>1, Quiet
<1>7. CASE ReadArchive
  <2> USE <1>7 DEF ReadArchive, outVars
  <2>0. ~busy /\ window = "open" /\ selection \in 0..MaxLoads
    BY DEF Interactive, IInv, Ranges
  <2>1. /\ OneOperation' /\ Started' /\ Closable' /\ Waiting'
        /\ NoProgressAfterCancel' /\ busy' = TRUE /\ queue = <<>>
        /\ status' = "working"
        /\ operationId' \in 0..MaxOps /\ token' \in 0..MaxOps
        /\ cancelled' \in [Ops -> BOOLEAN]
        /\ worker' \in [Ops -> {"none", "preview", "archive", "done"}]
        /\ input' \in [Ops -> 0..MaxLoads]
        /\ worker'[operationId'] = "preview"
    BY <2>0, Launched
  <2>2. Flags'
    BY <2>1 DEF IInv, Flags, closeVars
  <2>3. Ranges'
    BY <2>1, BoundsAssumption DEF IInv, Ranges, closeVars
  <2>4. Listed' /\ PreviewMatches' /\ RevealIsTrue'
    BY <2>1 DEF IInv, Listed, PreviewMatches, RevealIsTrue
  <2> QED
    BY <2>1, <2>2, <2>3, <2>4 DEF IInv
<1>8. CASE StartArchiveTask
  <2>0. /\ ~busy /\ window = "open" /\ selection \in 0..MaxLoads
        /\ selection # 0
        /\ ~readArchive
        /\ UNCHANGED <<uiVars, lastOutput, pending, queue, picker, drop,
                       closeVars>>
    BY <1>8 DEF StartArchiveTask, Interactive, IInv, Ranges, Listed,
       PreviewMatches
  <2>1. CASE reveal' = FALSE /\ Launch("archive", selection)
    <3> USE <2>0, <2>1
    <3>1. /\ OneOperation' /\ Started' /\ Closable' /\ Waiting'
          /\ NoProgressAfterCancel' /\ busy' = TRUE /\ queue = <<>>
          /\ status' = "working"
          /\ operationId' \in 0..MaxOps /\ token' \in 0..MaxOps
          /\ cancelled' \in [Ops -> BOOLEAN]
          /\ worker' \in [Ops -> {"none", "preview", "archive", "done"}]
          /\ input' \in [Ops -> 0..MaxLoads]
          /\ worker'[operationId'] = "archive"
      BY Launched DEF uiVars
    <3>2. Flags'
      BY <3>1 DEF IInv, Flags, closeVars, uiVars
    <3>3. Ranges'
      BY <3>1 DEF IInv, Ranges, closeVars, uiVars
    <3>4. Listed' /\ PreviewMatches' /\ RevealIsTrue'
      BY <3>1 DEF IInv, Listed, PreviewMatches, RevealIsTrue, uiVars
    <3> QED
      BY <3>1, <3>2, <3>3, <3>4 DEF IInv
  <2>2. CASE status' = "failed" /\ UNCHANGED <<reveal, busy, opVars>>
    <3> USE <2>0, <2>2 DEF uiVars, opVars, closeVars
    <3>1. Flags' /\ Ranges'
      BY DEF IInv, Flags, Ranges
    <3>2. checked' => preview # 0
      BY DEF IInv, Listed
    <3> QED
      BY <3>1, <3>2, Quiet
  <2> QED
    BY <1>8, <2>1, <2>2, Zenon DEF StartArchiveTask
<1>9. CASE OnCancel
  <2> USE <1>9 DEF OnCancel, uiVars, outVars, closeVars
  <2>1. /\ Started' /\ NoProgressAfterCancel'
        /\ cancelled' \in [Ops -> BOOLEAN]
        /\ status' \in {status, "cancelling"}
    BY FlagSet
  <2>2. Flags' /\ Ranges'
    BY <2>1 DEF IInv, Flags, Ranges
  <2>3. OneOperation' /\ Closable' /\ Waiting'
    BY DEF IInv, OneOperation, Closable, Waiting, IsAnswer, Working
  <2>4. Listed' /\ PreviewMatches' /\ RevealIsTrue'
    BY DEF IInv, Listed, PreviewMatches, RevealIsTrue
  <2> QED
    BY <2>1, <2>2, <2>3, <2>4 DEF IInv
<1>10. CASE CloseWindow
  <2> USE <1>10 DEF CloseWindow, RequestClose, uiVars, outVars, Interactive
  <2>1. /\ Started' /\ NoProgressAfterCancel'
        /\ cancelled' \in [Ops -> BOOLEAN]
        /\ status' \in {status, "cancelling"}
    <3>1. CASE busy
      BY <3>1, FlagSet
    <3>2. CASE ~busy
      BY <3>2 DEF IInv, Started, NoProgressAfterCancel, Ranges
    <3> QED
      BY <3>1, <3>2
  <2>2. Flags' /\ Ranges'
    BY <2>1 DEF IInv, Flags, Ranges
  <2>3. OneOperation' /\ Waiting'
    BY DEF IInv, OneOperation, Waiting, IsAnswer, Working
  <2>4. Closable'
    BY DEF IInv, Closable
  <2>5. Listed' /\ PreviewMatches' /\ RevealIsTrue'
    BY DEF IInv, Listed, PreviewMatches, RevealIsTrue
  <2> QED
    BY <2>1, <2>2, <2>3, <2>4, <2>5 DEF IInv
<1>11. CASE ShowOutput
  <2> USE <1>11 DEF ShowOutput, uiVars, outVars, opVars, closeVars
  <2>1. Flags' /\ Ranges'
    BY DEF IInv, Flags, Ranges
  <2>2. checked' => preview # 0
    BY DEF IInv, Listed
  <2> QED
    BY <2>1, <2>2, Quiet
<1> QED
  BY <1>1, <1>2, <1>3, <1>4, <1>5, <1>6, <1>7, <1>8, <1>9, <1>10, <1>11
     DEF UserStep

-----------------------------------------------------------------------------
(* The thread and the callbacks.                                           *)

(* Progress, and the return of the engine with one of the three answers.   *)
LEMMA ThreadSteps ==
  ASSUME IInv, NEW o \in Ops, Report(o) \/ Return(o)
  PROVE  IInv'
<1>0. /\ o = operationId /\ busy /\ Working(o) /\ queue \in Seq(Messages)
      /\ \A i \in 1..Len(queue) : ~IsAnswer(i)
  BY DEF Report, Return, IInv, OneOperation, Working, Ranges
<1>1. CASE Report(o)
  <2> USE <1>0, <1>1 DEF Report, uiVars, outVars, opVars, closeVars
  <2>0. Message("progress", o) \in Messages
    BY DEF Message, Messages
  <2>1. /\ queue' \in Seq(Messages) /\ Len(queue') = Len(queue) + 1
        /\ queue'[Len(queue) + 1] = Message("progress", o)
        /\ \A i \in 1..Len(queue) : queue'[i] = queue[i]
        /\ Len(queue) \in Nat
    BY <2>0, MessageQueued
  <2>2. Flags' /\ Ranges'
    BY <2>1 DEF IInv, Flags, Ranges
  <2>3. Len(queue) = 0
    BY <2>1, SMT DEF IInv, Waiting, OneOperation
  <2>4. \A i \in 1..Len(queue') : queue'[i].what = "progress" /\ queue'[i].op = o /\ i = 1
    BY <2>1, <2>3, SMT DEF Message
  <2>5. OneOperation'
    BY <2>4 DEF IInv, OneOperation, Working, IsAnswer
  <2>6. Started' /\ Closable'
    BY DEF IInv, Started, Closable
  <2>7. Listed' /\ PreviewMatches' /\ RevealIsTrue'
    BY <2>4 DEF IInv, Listed, PreviewMatches, RevealIsTrue
  <2>8. Waiting'
    BY <2>4 DEF IInv, Ranges, Waiting, IsAnswer
  <2>9. NoProgressAfterCancel'
    BY DEF IInv, NoProgressAfterCancel
  <2> QED
    BY <2>2, <2>5, <2>6, <2>7, <2>8, <2>9 DEF IInv
<1>2. CASE Return(o)
  <2>0. PICK what \in Results :
           /\ what = "listed" => worker[o] = "preview"
           /\ what = "made" => worker[o] = "archive"
           /\ queue' = Append(queue, Message(what, o))
           /\ worker' = [worker EXCEPT ![o] = "done"]
           /\ UNCHANGED <<uiVars, outVars, status, busy, operationId, token,
                          cancelled,
                          input, pending, picker, drop, closeVars>>
    BY <1>2 DEF Return
  <2> USE <1>0, <2>0 DEF uiVars, outVars, closeVars
  <2>1. Message(what, o) \in Messages /\ what # "progress"
    BY DEF Message, Messages, Results
  <2>2. /\ queue' \in Seq(Messages) /\ Len(queue') = Len(queue) + 1
        /\ queue'[Len(queue) + 1] = Message(what, o) /\ queue' # <<>>
        /\ \A i \in 1..Len(queue) : queue'[i] = queue[i]
        /\ Len(queue) \in Nat
    BY <2>1, MessageQueued
  <2>3. Flags' /\ Ranges'
    BY <2>2 DEF IInv, Flags, Ranges
  <2>4. \A i \in 1..Len(queue') :
           \/ i \in 1..Len(queue) /\ queue'[i] = queue[i]
           \/ i = Len(queue') /\ queue'[i] = Message(what, o)
    BY <2>2, SMT
  <2>5. \A i \in 1..Len(queue') : IsAnswer(i)' <=> i = Len(queue')
    BY <2>1, <2>2, <2>4, SMT DEF IsAnswer, Message
  <2>6. OneOperation'
    <3>1. \A p \in Ops : ~Working(p)'
      BY DEF IInv, OneOperation, Working, Ranges
    <3>2. \A i \in 1..Len(queue') : queue'[i].op = operationId
      BY <2>4, SMT DEF IInv, OneOperation, Message
    <3> QED
      BY <2>2, <2>5, <3>1, <3>2 DEF OneOperation
  <2>7. Started' /\ Closable'
    BY DEF IInv, Started, Closable
  <2>8. Listed' /\ PreviewMatches' /\ RevealIsTrue'
    <3>1. worker'[operationId] = "done"
      BY DEF IInv, Ranges
    <3>2. \A i \in 1..Len(queue') :
             /\ queue'[i].what = "listed" => mode = "extract"
             /\ queue'[i].what = "made" => ~readArchive
      BY <2>4, SMT DEF IInv, Listed, Message
    <3> QED
      BY <3>1, <3>2 DEF IInv, Listed, PreviewMatches, RevealIsTrue
  <2>9. Waiting'
    <3>1. \A i, k \in 1..Len(queue') : ~IsAnswer(i)' /\ ~IsAnswer(k)' => i = k
      BY <2>2, <2>4, <2>5, SMT DEF IInv, Waiting, IsAnswer
    <3>2. \A i \in 1..Len(queue') : ~IsAnswer(i)' => pending'[queue'[i].op]
      BY <2>2, <2>4, <2>5, SMT DEF IInv, Waiting, IsAnswer
    <3> QED
      BY <3>1, <3>2, Zenon DEF Waiting
  <2>10. NoProgressAfterCancel'
    BY DEF IInv, NoProgressAfterCancel
  <2> QED
    BY <2>3, <2>6, <2>7, <2>8, <2>9, <2>10 DEF IInv
<1> QED
  BY <1>1, <1>2

(* One step for each callback the dispatcher runs.                         *)
LEMMA Callbacks == IInv /\ Callback => IInv'
<1> SUFFICES ASSUME IInv, Callback PROVE IInv'
  OBVIOUS
<1>1. CASE OnProgress
  <2> USE <1>1 DEF OnProgress, outVars, opVars, closeVars
  <2>0. /\ queue \in Seq(Messages) /\ queue # <<>> /\ queue' = Tail(queue)
        /\ Head(queue).what = "progress"
        /\ UNCHANGED <<mode, selection, loads, opVars, picker, drop>>
    BY DEF Dequeue, IInv, Ranges
  <2>1. /\ Len(queue) \in Nat \ {0} /\ Head(queue) = queue[1]
        /\ queue[1] \in Messages
        /\ queue' \in Seq(Messages) /\ Len(queue') = Len(queue) - 1
        /\ \A i \in 1..Len(queue') : i + 1 \in 1..Len(queue) /\ queue'[i] = queue[i + 1]
        /\ Len(queue) = 1 => queue' = <<>>
    BY <2>0, MessageTaken
  <2>2. /\ ~IsAnswer(1) /\ 1 \in 1..Len(queue) /\ busy
        /\ queue[1].op = operationId /\ operationId \in Ops
    <3>1. ~IsAnswer(1) /\ 1 \in 1..Len(queue)
      BY <2>0, <2>1, SMT DEF IsAnswer
    <3>2. busy /\ queue[1].op = operationId
      BY <2>0, <3>1 DEF IInv, OneOperation
    <3>3. queue[1].op \in Ops
      BY <2>1 DEF Messages
    <3> QED
      BY <3>1, <3>2, <3>3
  <2>3. \A i \in 1..Len(queue') : IsAnswer(i)'
    BY <2>1, <2>2, SMT DEF IInv, Waiting, IsAnswer
  <2>4. Flags' /\ Ranges'
    BY <2>0, <2>1, <2>2 DEF IInv, Flags, Ranges
  <2>5. OneOperation'
    <3>1. CASE Working(operationId)
      <4>1. Len(queue) = 1
        BY <2>1, <2>2, <3>1, SMT DEF IInv, OneOperation, Waiting, IsAnswer
      <4> QED
        BY <2>0, <2>1, <2>2, <3>1, <4>1, SMT DEF IInv, OneOperation, Working,
           IsAnswer
    <3>2. CASE ~Working(operationId)
      <4>1. \A i \in 1..Len(queue) : IsAnswer(i) <=> i = Len(queue)
        BY <2>2, <3>2 DEF IInv, OneOperation
      <4>2. Len(queue) # 1
        BY <2>2, <4>1
      <4>3. \A i \in 1..Len(queue') : IsAnswer(i)' <=> i = Len(queue')
        BY <2>1, <4>1, SMT DEF IsAnswer
      <4>4. queue' # <<>>
        BY <2>1, <4>2, SMT
      <4>5. \A i \in 1..Len(queue') : queue'[i].op = operationId
        BY <2>1 DEF IInv, OneOperation
      <4> QED
        BY <2>0, <2>2, <3>2, <4>3, <4>4, <4>5 DEF IInv, OneOperation, Working
    <3> QED
      BY <3>1, <3>2
  <2>6. Started' /\ Closable'
    BY <2>0 DEF IInv, Started, Closable
  <2>7. Listed' /\ PreviewMatches' /\ RevealIsTrue'
    BY <2>0, <2>1 DEF IInv, Listed, PreviewMatches, RevealIsTrue
  <2>8. Waiting'
    BY <2>3, Zenon DEF Waiting
  <2>9. NoProgressAfterCancel'
    BY <2>0, <2>1, <2>2 DEF IInv, NoProgressAfterCancel
  <2> QED
    BY <2>4, <2>5, <2>6, <2>7, <2>8, <2>9 DEF IInv
<1>2. CASE OnListed \/ OnMade \/ OnFailure
  <2>0. /\ queue' = <<>> /\ busy /\ ~Working(operationId) /\ Len(queue) = 1
        /\ Head(queue) = queue[1] /\ Head(queue).op = operationId /\ Current
        /\ UNCHANGED <<mode, selection, loads, opVars, picker, drop>>
    <3>1. PICK what \in SUBSET Results : Dequeue(what)
      <4>1. CASE OnListed
        BY <4>1 DEF OnListed, Results
      <4>2. CASE OnMade
        BY <4>2 DEF OnMade, Results
      <4>3. CASE OnFailure
        BY <4>3 DEF OnFailure, Results
      <4> QED
        BY <1>2, <4>1, <4>2, <4>3
    <3> QED
      BY <3>1, AnswerTaken DEF Dequeue
  <2>1. SetIdle /\ pending' = pending
    BY <1>2, <2>0 DEF OnListed, OnMade, OnFailure
  <2>2. /\ operationId \in Ops /\ selection # 0
        /\ input[operationId] = selection
        /\ \A o \in Ops : ~Working(o)
    BY <2>0, SMT DEF IInv, Started, Ranges, Ops, OneOperation
  <2>3. /\ OneOperation' /\ Started' /\ Closable' /\ Waiting'
        /\ NoProgressAfterCancel' /\ busy' = FALSE /\ closing' = FALSE
        /\ window' \in {"open", "closed"}
    BY <2>0, <2>1, <2>2, GoesIdle DEF opVars
  <2>4. 1 \in 1..Len(queue)
    BY <2>0
  <2>5. CASE OnListed
    <3> USE <2>0, <2>2, <2>3, <2>5 DEF outVars, opVars
    <3>0. mode = "extract" /\ UNCHANGED outVars
      BY <2>4 DEF OnListed, Dequeue, IInv, Listed
    <3>1. \/ status' = "cancelled" /\ UNCHANGED <<preview, checked, readArchive>>
          \/ /\ status' = "listed" /\ readArchive' = FALSE
             /\ \/ preview' = 0 /\ checked' = FALSE
                \/ preview' = selection /\ checked' = TRUE
      BY DEF OnListed
    <3>2. Flags'
      BY <3>0, <3>1 DEF IInv, Flags
    <3>3. Ranges'
      <4>1. status' \in {"cancelled", "listed"} /\ preview' \in 0..MaxLoads
        BY <3>1, BoundsAssumption DEF IInv, Ranges
      <4> QED
        BY <2>1, <3>0, <4>1 DEF IInv, Ranges
    <3>4. Listed' /\ PreviewMatches' /\ RevealIsTrue'
      BY <3>0, <3>1 DEF IInv, Listed, PreviewMatches, RevealIsTrue
    <3> QED
      BY <3>2, <3>3, <3>4 DEF IInv
  <2>6. CASE OnMade
    <3> USE <2>0, <2>2, <2>3, <2>6 DEF OnMade, opVars
    <3>0. ~readArchive
      BY <2>4 DEF Dequeue, IInv, Listed
    <3>1. Flags'
      BY DEF IInv, Flags
    <3>2. Ranges'
      BY DEF IInv, Ranges
    <3>3. Listed' /\ PreviewMatches' /\ RevealIsTrue'
      BY <3>0 DEF IInv, Listed, PreviewMatches, RevealIsTrue
    <3> QED
      BY <3>1, <3>2, <3>3 DEF IInv
  <2>7. CASE OnFailure
    <3> USE <2>0, <2>2, <2>3, <2>7 DEF OnFailure, outVars, opVars
    <3>1. Flags'
      BY DEF IInv, Flags
    <3>2. Ranges'
      BY DEF IInv, Ranges
    <3>3. Listed' /\ PreviewMatches' /\ RevealIsTrue'
      BY DEF IInv, Listed, PreviewMatches, RevealIsTrue
    <3> QED
      BY <3>1, <3>2, <3>3 DEF IInv
  <2> QED
    BY <1>2, <2>5, <2>6, <2>7
<1> QED
  BY <1>1, <1>2 DEF Callback

(* A step that changes nothing.                                            *)
LEMMA Stuttering == IInv /\ UNCHANGED vars => IInv'
<1> SUFFICES ASSUME IInv, UNCHANGED vars PROVE IInv'
  OBVIOUS
<1> USE DEF vars, uiVars, outVars, opVars, closeVars
<1>1. Flags' /\ Ranges'
  BY DEF IInv, Flags, Ranges
<1>2. checked' => preview # 0
  BY DEF IInv, Listed
<1> QED
  BY <1>1, <1>2, Quiet

(* What the actions rely on holds always, whatever the user does.          *)
THEOREM Inductive == Spec => []IInv
<1>1. Init => IInv
  BY Initially
<1>2. IInv /\ [Next]_vars => IInv'
  BY UserSteps, Callbacks, ThreadSteps, Stuttering DEF Next
<1> QED
  BY <1>1, <1>2, PTL DEF Spec

-----------------------------------------------------------------------------
(* Every variable of the page stays in its range, however many operations  *)
(* and selections follow each other.                                       *)
THEOREM PageTypeCorrect == Spec => []TypeOK
<1>1. IInv => TypeOK
  BY TypeParts DEF IInv
<1> QED
  BY <1>1, Inductive, PTL

(* One operation at a time: a busy page has one that works or one answer   *)
(* under way, and nothing of an earlier operation can reach it.            *)
THEOREM PageRunsOneOperation == Spec => []OneOperation
<1>1. IInv => OneOperation
  BY DEF IInv
<1> QED
  BY <1>1, Inductive, PTL

(* The entries listed always are those of the selected archives.           *)
THEOREM PageListsItsSelection == Spec => []PreviewMatches
<1>1. IInv => PreviewMatches
  BY DEF IInv
<1> QED
  BY <1>1, Inductive, PTL

(* No progress of a cancelled operation is ever shown over "cancelling".   *)
THEOREM PageTellsCancel == Spec => []NoProgressAfterCancel
<1>1. IInv => NoProgressAfterCancel
  BY DEF IInv
<1> QED
  BY <1>1, Inductive, PTL

(* "Show output" always belongs to the selection that is shown.            *)
THEOREM PageRevealsItsOutput == Spec => []RevealIsTrue
<1>1. IInv => RevealIsTrue
  BY DEF IInv
<1> QED
  BY <1>1, Inductive, PTL

(* Progress messages that are the same one are at most one.                *)
LEMMA AtMostOne ==
  ASSUME NEW S, \A i, k \in S : i = k
  PROVE  Cardinality(S) <= 1
<1>1. CASE S = {}
  <2>1. Cardinality(S) = 0
    BY <1>1, FS_EmptySet, Zenon
  <2> QED
    BY <2>1
<1>2. CASE S # {}
  <2>1. PICK i \in S : S = {i}
    BY <1>2, Zenon
  <2>2. Cardinality({i}) = 1
    BY FS_Singleton, Zenon
  <2> QED
    BY <2>1, <2>2, SMT
<1> QED
  BY <1>1, <1>2

(* However fast the engine reports, the queue holds one report at most.    *)
THEOREM PageBoundsProgress == Spec => []ProgressBounded
<1>1. IInv => ProgressBounded
  <2> SUFFICES ASSUME IInv, NEW o \in Ops
               PROVE  Cardinality({i \in 1..Len(queue) :
                                      queue[i] = Message("progress", o)}) <= 1
    BY DEF ProgressBounded
  <2> DEFINE S == {i \in 1..Len(queue) : queue[i] = Message("progress", o)}
  <2>1. \A i, k \in S : i = k
    BY DEF IInv, Waiting, IsAnswer, Message
  <2> QED
    BY <2>1, AtMostOne
<1> QED
  BY <1>1, Inductive, PTL

(* The window never closes over a running engine call.                     *)
THEOREM PageClosesWhenIdle == Spec => []CloseWaits
<1>1. IInv => CloseWaits
  BY DEF IInv, CloseWaits, Closable, OneOperation
<1> QED
  BY <1>1, Inductive, PTL

(* What an operation was started with is what the page shows until it      *)
(* ends, although pickers and drops let other handlers run.                *)
THEOREM PageFreezesSelection == Spec => SelectionFrozen
<1>1. IInv /\ IInv' /\ [Next]_vars
        => [busy /\ busy' => UNCHANGED <<mode, selection>>
                            /\ input[operationId] = selection]_vars
  <2> SUFFICES ASSUME IInv, Next, busy, busy'
               PROVE  UNCHANGED <<mode, selection>> /\ input[operationId] = selection
    OBVIOUS
  <2>1. input[operationId] = selection
    BY DEF IInv, Started
  <2>2. CASE UserStep
    BY <2>1, <2>2 DEF UserStep, OpenPicker, PickerReturns, Drop, DropItems,
       LoadPaths,
         ClearSelection, CheckEntries, ReadArchive, StartArchiveTask, OnCancel,
         CloseWindow, RequestClose, ShowOutput, uiVars
  <2>3. CASE Callback
    BY <2>1, <2>3 DEF Callback, OnProgress, OnListed, OnMade, OnFailure,
       Dequeue
  <2>4. CASE \E o \in Ops : Report(o) \/ Return(o)
    BY <2>1, <2>4 DEF Report, Return, uiVars
  <2> QED
    BY <2>1, <2>2, <2>3, <2>4 DEF Next
<1> QED
  BY <1>1, Inductive, PTL DEF Spec, SelectionFrozen
=============================================================================
