------------------------------- MODULE MainPage ------------------------------
(***************************************************************************)
(* The life of an operation in the WinUI page: MainPage and the closing    *)
(* handler of App.                                                         *)
(*                                                                         *)
(* All handlers run on the UI thread, one at a time.  Reading an archive   *)
(* (LoadArchivePreview) and extracting or compressing (StartArchiveTask)   *)
(* run in a detached thread that talks back only through the dispatcher    *)
(* queue, first in first out; every callback carries the id its operation  *)
(* had when it started.  Two handlers let others run before they are       *)
(* done: a picker has a message loop of its own, and a drop waits for the  *)
(* shell.  Cancellation is an atomic flag per operation, read by the       *)
(* engine and by the callbacks.                                            *)
(*                                                                         *)
(* The engine is modelled by what it answers: a result, a failure, or the  *)
(* failure "cancelled" once the flag is set.  A selection is the number of *)
(* the load that made it.  Not modelled: layout, wording, password and     *)
(* split size boxes, the destination folder, which entries are checked     *)
(* (SelectionTree does that), TryEnqueue on a queue that is shut down, a   *)
(* thread that cannot be started.                                          *)
(***************************************************************************)
EXTENDS Integers, Sequences, FiniteSets

CONSTANTS
    MaxOps,     \* bound on operation ids
    MaxLoads    \* bound on selections

ASSUME BoundsAssumption == MaxOps \in Nat \ {0} /\ MaxLoads \in Nat \ {0}

Ops   == 1..MaxOps
Loads == 1..MaxLoads

VARIABLES
    mode,         \* extract_mode_: "extract" or "compress"
    selection,    \* selected_archives_ or selected_paths_; 0 is none
    loads,        \* selections made so far
    preview,      \* preview_entries_: the selection they list; 0 is none
    checked,      \* some entry is checked
    readArchive,  \* the "read archive" button shows
    reveal,       \* the "show output" button shows
    lastOutput,   \* last_output_: the selection it was made from
    status,       \* what the status line says
    busy,         \* busy_
    operationId,  \* operation_id_
    token,        \* cancellation_: the operation it belongs to; 0 is none
    cancelled,    \* the cancellation flag of each operation
    worker,       \* the thread of each operation
    input,        \* the selection each operation was started with
    pending,      \* progress_pending of each operation
    queue,        \* the dispatcher queue
    picker,       \* an open file or folder picker
    drop,         \* a drop that waits for the shell
    closing,      \* close_when_idle_
    window        \* "open" or "closed"

uiVars    == <<mode, selection, loads, preview, checked, readArchive>>
outVars   == <<reveal, lastOutput>>
opVars    == <<operationId, token, cancelled, worker, input>>
closeVars == <<closing, window>>
vars == <<uiVars, outVars, status, busy, opVars, pending, queue, picker, drop,
          closeVars>>

Message(what, o) == [what |-> what, op |-> o]
Results  == {"listed", "made", "failure", "cancelled"}
Messages == [what : Results \cup {"progress"}, op : Ops]

(* The window takes input while it is open and no picker is in front.      *)
Interactive == window = "open" /\ picker = "none"

Init ==
    /\ mode = "compress" /\ selection = 0 /\ loads = 0
    /\ preview = 0 /\ checked = FALSE /\ readArchive = FALSE
    /\ reveal = FALSE /\ lastOutput = 0
    /\ status = "ready" /\ busy = FALSE
    /\ operationId = 0 /\ token = 0
    /\ cancelled = [o \in Ops |-> FALSE]
    /\ worker = [o \in Ops |-> "none"]
    /\ input = [o \in Ops |-> 0]
    /\ pending = [o \in Ops |-> FALSE]
    /\ queue = <<>>
    /\ picker = "none" /\ drop = FALSE
    /\ closing = FALSE /\ window = "open"

-----------------------------------------------------------------------------
(* Parts of handlers.  *)

(* Mutant: a close that was asked for is forgotten.                        *)
SetIdleOnly == busy' = FALSE /\ UNCHANGED closeVars

(* SetBusy(false): a close that was asked for meanwhile happens now.       *)
SetIdle ==
    /\ busy' = FALSE
    /\ closing' = FALSE
    /\ window' = IF closing THEN "closed" ELSE window

(* Mutant: the thread captures the id before it is advanced.               *)
LaunchOldId(task, source) ==
    /\ operationId \in 1..(MaxOps - 1)
    /\ operationId' = operationId + 1
    /\ token' = operationId
    /\ worker' = [worker EXCEPT ![operationId] = task]
    /\ input' = [input EXCEPT ![operationId] = source]
    /\ status' = "working"
    /\ busy' = TRUE
    /\ UNCHANGED cancelled

(* A new id, a new cancellation flag, a new thread.                        *)
Launch(task, source) ==
    /\ operationId < MaxOps
    /\ operationId' = operationId + 1
    /\ token' = operationId + 1
    /\ worker' = [worker EXCEPT ![operationId + 1] = task]
    /\ input' = [input EXCEPT ![operationId + 1] = source]
    /\ status' = "working"
    /\ busy' = TRUE
    /\ UNCHANGED cancelled

(* LoadPaths: a path is gone, and nothing has been touched yet.            *)
PathsGone ==
    /\ status' = "failed"
    /\ SetIdle
    /\ UNCHANGED <<uiVars, outVars, opVars>>

(* LoadPaths: the selection is replaced.  Archives are read at once; the   *)
(* sizes of files to compress may turn out to be unreadable only after the *)
(* selection has been replaced.                                            *)
Replace(extracting) ==
    /\ loads < MaxLoads
    /\ loads' = loads + 1
    /\ selection' = loads + 1
    /\ mode' = IF extracting THEN "extract" ELSE "compress"
    /\ preview' = 0 /\ checked' = FALSE
    /\ readArchive' = extracting
    /\ reveal' = FALSE /\ lastOutput' = 0
    /\ IF extracting
       THEN Launch("preview", loads + 1) /\ UNCHANGED closeVars
       ELSE /\ status' \in {"loaded", "failed"}
            /\ SetIdle
            /\ UNCHANGED opVars

(* Mutant: the page is not asked again whether it is busy.                 *)
LoadPathsUnchecked(extracting) == PathsGone \/ Replace(extracting)

(* Nothing happens without paths or while the page is busy.                *)
LoadPaths(extracting) ==
    \/ UNCHANGED <<uiVars, outVars, status, busy, opVars, closeVars>>
    \/ ~busy /\ PathsGone
    \/ ~busy /\ Replace(extracting)

-----------------------------------------------------------------------------
(* Handlers of the UI thread.  *)

(* PickFiles, PickDestination: the picker runs a message loop; what it     *)
(* returns is used when it closes, in a page that may have moved on.       *)
OpenPicker ==
    /\ Interactive /\ ~busy
    /\ picker' \in {"files", "destination"}
    /\ UNCHANGED <<uiVars, outVars, status, busy, opVars, pending, queue, drop,
                   closeVars>>

PickerReturns ==
    /\ picker # "none"
    /\ picker' = "none"
    /\ \/ UNCHANGED <<uiVars, outVars, status, busy, opVars, closeVars>>
       \/ /\ picker = "files"
          /\ \E extracting \in BOOLEAN : LoadPaths(extracting)
       \/ /\ status' = "failed"
          /\ UNCHANGED <<uiVars, outVars, busy, opVars, closeVars>>
    /\ UNCHANGED <<pending, queue, drop>>

(* HandleDrop up to co_await, and from there on.                           *)
Drop ==
    /\ Interactive /\ ~busy /\ ~drop
    /\ drop' = TRUE
    /\ UNCHANGED <<uiVars, outVars, status, busy, opVars, pending, queue,
                   picker, closeVars>>

DropItems ==
    /\ drop /\ window = "open"
    /\ drop' = FALSE
    /\ \/ \E extracting \in BOOLEAN : LoadPaths(extracting)
       \/ /\ status' = "failed"
          /\ UNCHANGED <<uiVars, outVars, busy, opVars, closeVars>>
    /\ UNCHANGED <<pending, queue, picker>>

(* Mutants of ClearSelection: the id is advanced by the caller as well; the*)
(* preview is left alone.                                                  *)
ClearSelectionTwice ==
    /\ Interactive /\ ~busy /\ operationId < MaxOps
    /\ operationId' = operationId + 2
    /\ mode' \in {"extract", "compress"}
    /\ selection' = 0 /\ preview' = 0 /\ checked' = FALSE
    /\ readArchive' = FALSE /\ reveal' = FALSE /\ lastOutput' = 0
    /\ status' = "ready"
    /\ SetIdle
    /\ UNCHANGED <<loads, token, cancelled, worker, input, pending, queue,
                   picker, drop>>

ClearSelectionKeepsPreview ==
    /\ Interactive /\ ~busy /\ operationId < MaxOps
    /\ operationId' = operationId + 1
    /\ mode' \in {"extract", "compress"}
    /\ selection' = 0 /\ UNCHANGED <<preview, checked>>
    /\ readArchive' = FALSE /\ reveal' = FALSE /\ lastOutput' = 0
    /\ status' = "ready"
    /\ SetIdle
    /\ UNCHANGED <<loads, token, cancelled, worker, input, pending, queue,
                   picker, drop>>

(* ClearSelection, by its button or because the other mode was chosen.     *)
ClearSelection ==
    /\ Interactive /\ ~busy /\ operationId < MaxOps
    /\ operationId' = operationId + 1
    /\ mode' \in {"extract", "compress"}
    /\ selection' = 0 /\ preview' = 0 /\ checked' = FALSE
    /\ readArchive' = FALSE /\ reveal' = FALSE /\ lastOutput' = 0
    /\ status' = "ready"
    /\ SetIdle
    /\ UNCHANGED <<loads, token, cancelled, worker, input, pending, queue,
                   picker, drop>>

(* select_all_ and OnEntrySelectionChanged.                                *)
CheckEntries ==
    /\ Interactive /\ ~busy /\ preview # 0
    /\ checked' \in BOOLEAN
    /\ UNCHANGED <<mode, selection, loads, preview, readArchive, outVars,
                   status, busy, opVars, pending, queue, picker, drop,
                   closeVars>>

(* read_archive_: LoadArchivePreview again.                                *)
ReadArchive ==
    /\ Interactive /\ readArchive /\ ~busy /\ selection # 0
    /\ preview' = 0 /\ checked' = FALSE
    /\ Launch("preview", selection)
    /\ UNCHANGED <<mode, selection, loads, readArchive, outVars, pending,
                   queue, picker, drop, closeVars>>

(* Mutant: "show output" of an earlier run stays.                          *)
StartArchiveTaskKeepsReveal ==
    /\ Interactive /\ ~busy
    /\ IF mode = "extract" THEN checked ELSE selection # 0
    /\ Launch("archive", selection)
    /\ UNCHANGED <<uiVars, outVars, pending, queue, picker, drop, closeVars>>

(* OnExtract, OnCompress and StartArchiveTask; a split size that is no     *)
(* number is reported and nothing starts.                                  *)
StartArchiveTask ==
    /\ Interactive /\ ~busy
    /\ IF mode = "extract" THEN checked ELSE selection # 0
    /\ \/ reveal' = FALSE /\ Launch("archive", selection)
       \/ /\ mode = "compress" /\ status' = "failed"
          /\ UNCHANGED <<reveal, busy, opVars>>
    /\ UNCHANGED <<uiVars, lastOutput, pending, queue, picker, drop, closeVars>>

(* OnCancel: only the first call does something.                           *)
CancelNow ==
    IF token # 0 /\ ~cancelled[token]
    THEN /\ cancelled' = [cancelled EXCEPT ![token] = TRUE]
         /\ status' = "cancelling"
    ELSE UNCHANGED <<cancelled, status>>

OnCancel ==
    /\ Interactive /\ busy
    /\ CancelNow
    /\ UNCHANGED <<uiVars, outVars, busy, operationId, token, worker, input,
                   pending, queue, picker, drop, closeVars>>

(* Mutant: Closing does not set args.Cancel.                               *)
CloseWindowAtOnce ==
    /\ Interactive
    /\ window' = "closed"
    /\ IF busy THEN CancelNow ELSE UNCHANGED <<cancelled, status>>
    /\ UNCHANGED <<uiVars, outVars, busy, operationId, token, worker, input,
                   pending, queue, picker, drop, closing>>

(* RequestClose while an operation runs: it is remembered and the          *)
(* operation cancelled.                                                    *)
RequestClose == closing' = TRUE /\ CancelNow

(* The user closes the window: AppWindow.Closing lets it close unless an   *)
(* operation runs.                                                         *)
CloseWindow ==
    /\ Interactive
    /\ IF busy
       THEN RequestClose /\ UNCHANGED window
       ELSE window' = "closed" /\ UNCHANGED <<closing, cancelled, status>>
    /\ UNCHANGED <<uiVars, outVars, busy, operationId, token, worker, input,
                   pending, queue, picker, drop>>

ShowOutput ==
    /\ Interactive /\ reveal
    /\ status' \in {status, "failed"}
    /\ UNCHANGED <<uiVars, outVars, busy, opVars, pending, queue, picker, drop,
                   closeVars>>

-----------------------------------------------------------------------------
(* The thread of operation o.  *)

(* Mutant: every report is queued.                                         *)
ReportAlways(o) ==
    /\ worker[o] = "archive" /\ ~cancelled[o]
    /\ queue' = Append(queue, Message("progress", o))
    /\ UNCHANGED <<uiVars, outVars, status, busy, opVars, pending, picker,
                   drop, closeVars>>

(* The engine reports progress; at most one report waits in the queue.     *)
Report(o) ==
    /\ worker[o] = "archive"
    /\ ~cancelled[o] /\ ~pending[o]
    /\ pending' = [pending EXCEPT ![o] = TRUE]
    /\ queue' = Append(queue, Message("progress", o))
    /\ UNCHANGED <<uiVars, outVars, status, busy, opVars, picker, drop,
                   closeVars>>

(* The engine returns or throws, and the thread ends.                      *)
Return(o) ==
    /\ worker[o] \in {"preview", "archive"}
    /\ \E what \in Results :
          /\ what = "cancelled" => cancelled[o]
          /\ what = "listed" => worker[o] = "preview"
          /\ what = "made" => worker[o] = "archive"
          /\ queue' = Append(queue, Message(what, o))
    /\ worker' = [worker EXCEPT ![o] = "done"]
    /\ UNCHANGED <<uiVars, outVars, status, busy, operationId, token, cancelled,
                   input, pending, picker, drop, closeVars>>

-----------------------------------------------------------------------------
(* Callbacks of the dispatcher queue.  They run in a picker's message loop *)
(* as well.                                                                *)
Dequeue(what) ==
    /\ window = "open" /\ queue # <<>> /\ Head(queue).what \in what
    /\ queue' = Tail(queue)
    /\ UNCHANGED <<mode, selection, loads, opVars, picker, drop>>

Current == Head(queue).op = operationId

(* Mutant: a progress message that was queued before the cancellation.     *)
OnProgressUnchecked ==
    /\ Dequeue({"progress"})
    /\ pending' = [pending EXCEPT ![Head(queue).op] = FALSE]
    /\ status' = IF Current THEN "progress" ELSE status
    /\ UNCHANGED <<preview, checked, readArchive, outVars, busy, closeVars>>

OnProgress ==
    /\ Dequeue({"progress"})
    /\ pending' = [pending EXCEPT ![Head(queue).op] = FALSE]
    /\ status' = IF Current /\ ~cancelled[Head(queue).op] THEN "progress"
                                                          ELSE status
    /\ UNCHANGED <<preview, checked, readArchive, outVars, busy, closeVars>>

(* The rows and the preview are replaced together; an archive may be empty.*)
OnListed ==
    /\ Dequeue({"listed"})
    /\ IF Current
       THEN /\ SetIdle
            /\ IF cancelled[Head(queue).op]
               THEN /\ status' = "cancelled"
                    /\ UNCHANGED <<preview, checked, readArchive>>
               ELSE /\ status' = "listed"
                    /\ readArchive' = FALSE
                    /\ \E empty \in BOOLEAN :
                          /\ preview' = IF empty THEN 0
                                        ELSE input[Head(queue).op]
                          /\ checked' = ~empty
       ELSE UNCHANGED <<preview, checked, readArchive, status, busy, closeVars>>
    /\ UNCHANGED <<outVars, pending>>

OnMade ==
    /\ Dequeue({"made"})
    /\ IF Current
       THEN /\ lastOutput' = input[Head(queue).op]
            /\ reveal' = TRUE
            /\ status' = "made"
            /\ SetIdle
       ELSE UNCHANGED <<outVars, status, busy, closeVars>>
    /\ UNCHANGED <<preview, checked, readArchive, pending>>

(* Mutant: only a failure gives the page back, a cancellation does not.    *)
OnFailureStaysBusy ==
    /\ Dequeue({"failure", "cancelled"})
    /\ IF Current /\ Head(queue).what = "failure"
       THEN status' = "failed" /\ SetIdle
       ELSE status' = "cancelled" /\ UNCHANGED <<busy, closeVars>>
    /\ UNCHANGED <<preview, checked, readArchive, outVars, pending>>

(* FinishFailure.  *)
OnFailure ==
    /\ Dequeue({"failure", "cancelled"})
    /\ IF Current
       THEN /\ status' = IF Head(queue).what = "cancelled" THEN "cancelled"
                                                           ELSE "failed"
            /\ SetIdle
       ELSE UNCHANGED <<status, busy, closeVars>>
    /\ UNCHANGED <<preview, checked, readArchive, outVars, pending>>

Callback == OnProgress \/ OnListed \/ OnMade \/ OnFailure

-----------------------------------------------------------------------------
UserStep ==
    \/ OpenPicker \/ PickerReturns \/ Drop \/ DropItems \/ ClearSelection
    \/ CheckEntries \/ ReadArchive \/ StartArchiveTask \/ OnCancel
    \/ CloseWindow \/ ShowOutput

Next == UserStep \/ Callback \/ \E o \in Ops : Report(o) \/ Return(o)

Spec == Init /\ [][Next]_vars

(* The dispatcher runs what is queued and the engine comes to an end       *)
(* (ArchiveOutput: Terminates); the user owes nothing.                     *)
FairSpec ==
    /\ Spec
    /\ WF_vars(Callback)
    /\ \A o \in Ops : WF_vars(Return(o))

-----------------------------------------------------------------------------
(* Every variable stays within its range.                                  *)
TypeOK ==
    /\ mode \in {"extract", "compress"}
    /\ selection \in 0..MaxLoads /\ loads \in 0..MaxLoads
    /\ preview \in 0..MaxLoads /\ checked \in BOOLEAN
    /\ readArchive \in BOOLEAN /\ reveal \in BOOLEAN
    /\ lastOutput \in 0..MaxLoads
    /\ status \in {"ready", "loaded", "working", "progress", "cancelling",
                   "cancelled", "listed", "made", "failed"}
    /\ busy \in BOOLEAN
    /\ operationId \in 0..MaxOps /\ token \in 0..MaxOps
    /\ cancelled \in [Ops -> BOOLEAN]
    /\ worker \in [Ops -> {"none", "preview", "archive", "done"}]
    /\ input \in [Ops -> 0..MaxLoads]
    /\ pending \in [Ops -> BOOLEAN]
    /\ queue \in Seq(Messages)
    /\ picker \in {"none", "files", "destination"}
    /\ drop \in BOOLEAN /\ closing \in BOOLEAN
    /\ window \in {"open", "closed"}

Working(o)  == worker[o] \in {"preview", "archive"}
IsAnswer(i) == queue[i].what # "progress"

(* The page is busy exactly while one operation, the current one, either   *)
(* works or has its answer under way; the answer is one message, the last  *)
(* that the operation sends, and nothing of an earlier operation is still  *)
(* queued.                                                                 *)
OneOperation ==
    /\ \A o \in Ops : Working(o) => busy /\ o = operationId
    /\ \A i \in 1..Len(queue) : queue[i].op = operationId
    /\ busy => \/ Working(operationId) /\ \A i \in 1..Len(queue) : ~IsAnswer(i)
               \/ /\ ~Working(operationId) /\ queue # <<>>
                  /\ \A i \in 1..Len(queue) : IsAnswer(i) <=> i = Len(queue)
    /\ ~busy => queue = <<>>

(* What an operation was started with is what the page still shows while   *)
(* it works: no picker, drop or mode switch gets in between.               *)
SelectionFrozen ==
    [][busy /\ busy' => /\ UNCHANGED <<mode, selection>>
                       /\ input[operationId] = selection]_vars

(* The entries listed are those of the archives that are selected.         *)
PreviewMatches ==
    preview # 0 => mode = "extract" /\ preview = selection /\ ~readArchive

(* Once an operation is cancelled the status line shows no progress of it, *)
(* whatever was queued before.                                             *)
NoProgressAfterCancel ==
    busy /\ cancelled[operationId] => status \in {"cancelling", "failed"}

(* "Show output" is offered only for what was made from this selection,    *)
(* and never while an operation is under way.                              *)
RevealIsTrue ==
    reveal => ~busy /\ selection # 0 /\ lastOutput = selection

(* However fast the engine reports, one progress message waits at most.    *)
ProgressBounded ==
    \A o \in Ops :
        Cardinality({i \in 1..Len(queue) :
                        queue[i] = Message("progress", o)}) <= 1

(* The window closes only when no engine call is running any more, so a    *)
(* close never interrupts the clean-up of a staging directory.             *)
CloseWaits == window = "closed" => \A o \in Ops : ~Working(o)

(* Every operation ends and gives the page back.                           *)
BecomesIdle == busy ~> ~busy

(* A close that was asked for happens.                                     *)
CloseHappens == closing ~> (window = "closed")
=============================================================================
