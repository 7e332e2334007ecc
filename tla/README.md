# Verification of Unfurl

Unfurl is a small Windows program that extracts and creates archives: a C++
engine over libarchive, a WinUI page that drives it, and a setup program. This
directory holds TLA+ modules of its control logic, TLC configurations that check
them on small instances, and TLAPS proofs of what these check, liveness excepted,
for every value of the constants.

Paths below are relative to the repository.

## 1. The system

| Component | State | Operations | Talks to |
|---|---|---|---|
| Archive engine, output side (`src/core/archive_engine.cpp`) | destination folder, staging directory `.unfurl-stage-<token>`, files renamed so far | `compress`, `extract`, `make_staging`, `unique_path`, `unique_split_path`, `publish_staged_directory`, `remove_tree` | file system, shared with other processes and the user; `cancelled()` and `progress()` callbacks of the page |
| Archive engine, input side (same file) | joined volumes in a temporary directory, the libarchive reader, the staging directory | `prepare_archive_source`, `preview`, the entry loop of `extract`, `safe_relative_path`, `validate_link` | file system, libarchive; the page's lists and selections |
| Archive engine, sources (same file) | the folders being gone through, the open file, the archive so far | the checks and the recursive `append` of `compress`, cutting into volumes | file system, shared with other programs; libarchive |
| Main page, operations (`src/app/MainPage.cpp`, `MainPage.h`, `App.cpp`) | `busy_`, `operation_id_`, `cancellation_`, `close_when_idle_`, the selection, the preview, `last_output_` | pick, drop, clear, read, extract, compress, cancel, close, show output, and the callbacks of worker threads | one detached thread per operation, the dispatcher queue, the engine, the shell |
| Main page, checked entries | `entry_selection_`, the selection of the list view | click, range, "select all" | list view; hands paths to `extract` |
| Setup (`installer/SetupWindow.cpp`, `SetupDeployment.cpp`, `UnfurlSetup.cpp`) | `busy_`, `finished_`, `close_when_idle_`, the session with its directory and `cancelled`, `keep_feed` | `Begin`, cancel, close, `prepare_dependencies`, `open_app_installer`, `prepare_runtime_dialog` | background coroutine, dispatcher queue, a task dialog, Windows deployment |
| Start-up, localization, layout, registry files, build and verification scripts | none that the others depend on | - | - |

What is hard in it:

* **Concurrency.** Two windows are two processes over one folder. In a process,
  handlers run on one thread, but a picker's message loop and a drop's
  `co_await` let other handlers run in the middle of one, and worker threads
  answer through a queue while the page may have moved on.
* **Failure and crashes.** Every step of `compress` and `extract` may throw,
  also between the renames of two volumes; a process may die at any point.
* **Stale state.** What the page lists and lets the user check was read from a
  file that is opened again, perhaps much later, for extraction; a folder's
  content, a file's size and the highest volume are read before they are used.
* **Ordering.** Check-then-rename, close-then-publish, staging removed before
  the volumes are taken back, progress queued before a cancellation.
* **Liveness.** A page left busy is unusable and keeps its window from closing.

What makes each component correct: the engine never harms what exists, shows
only complete results and cleans up after itself, extracts what was checked
and nothing unsafe, and archives what belongs to the sources; the page runs one operation
at a time, never applies an answer to a selection it does not belong to, and
closes only when nothing runs; the check marks agree with the list view and with
what is extracted; setup shows the outcome that happened and cleans up its
session. The hazards behind these are listed, with their lines, in
`PROJECT.json`.

## 2. Modules

| Module | Role |
|---|---|
| `ArchiveOutput` | how `compress` and `extract` bring a result into the folder |
| `ArchivePromise` | what a caller may rely on; `ArchiveOutput` implements it |
| `MCArchiveOutput` | constants of the runs of `ArchiveOutput` |
| `ArchiveOutput_proof` | theorems and proofs about `ArchiveOutput` |
| `MainPage` | the life of an operation in the page |
| `MainPage_proof` | theorems and proofs about `MainPage` |
| `SelectionTree`, `MCSelectionTree` | check marks and what they extract; the entries of its run |
| `SelectionTree_proof` | theorems and proofs about `SelectionTree` |
| `ExtractBatch`, `MCExtractBatch` | reading several archives, checking entries, extracting them one after the other; the archives of its run |
| `ExtractBatch_proof` | theorems and proofs about `ExtractBatch` |
| `SourceTraversal` | the checks and the traversal of `compress` |
| `SplitArchive`, `MCSplitArchive` | extends `SourceTraversal`: cutting, publishing and joining volumes; the tree of its run |
| `SourceTraversal_proof`, `SplitArchive_proof` | lemmas about the traversal; theorems and proofs about the whole of `SplitArchive` |
| `Induction` | induction over numbers and loops of n turns, for the recursive functions of the models |
| `Setup` | the setup program: start, runtime dialog, window, worker and session |
| `Setup_proof` | theorems and proofs about `Setup` |

Two things are not told apart by the properties and are abstracted everywhere:
the bytes of a file (complete or not, or how many) and the characters of a name
(a member of a small set, or a sequence of such members where its components
matter).

### ArchiveOutput

One *job* is one call of `compress` or `extract`; `ProcOf` gives its process, and
a process runs one job at a time because the page does. `dest` maps each name
(requested name, number of the suffix " (i)", volume; volume 0 is the bare name)
to what is there and who made it. A job goes through
`staging -> writing -> (splitting) -> choosing -> renaming -> cleanup ->
succeeded`, or by `Abort` from anywhere inside the `try` block through
`unwinding` (staging removed) and `rollback` (committed volumes removed) to
`failed`.

| Action | Code (`archive_engine.cpp`) |
|---|---|
| `Start`, `Refuse` | argument checks before the staging directory, 719-739, 823-876 |
| `MakeStaging`, `MissStaging`, `GiveUpStaging` | `make_staging`, 208-226 |
| `FinishArchive`, `FinishExtract` | writing, close, `check_cancelled`, 741-809, 879-1042; unwrapping a single folder, 445-460 |
| `WriteVolume`, `FinishSplit` | cutting, 1053-1087 |
| `ChooseName`, `NextName` | one candidate of `unique_path`/`unique_split_path`, 160-206 |
| `Rename` | 462, 1046, 1095 |
| `Abort`, `RemoveStaging`, `Withdraw`, `Fail` | the `catch` blocks, 812-815, 1103-1110, and `remove_tree` after success |
| `Cancel`, `Crash`, `UserCreates`, `UserDeletes` | environment |

A whole candidate is examined in one step, although the code calls `exists` once
per volume: a finer grain would only add more ways to be overtaken, and the run
that shows the overtaking needs none of them. `rename` replaces a file by a file
and fails on every other clash. A staging token starts with a clock tick, so a
token that was used and removed is not drawn again. Directories created for the
destination path itself are not modelled.

### MainPage

One action per handler, callback and worker step. `queue` is the dispatcher
queue; each message carries the operation's id. Callbacks also run while a
picker is open, because the picker pumps messages; the window accepts no other
input then. `selection` is the number of the load that made it, so that "these
entries belong to that selection" can be said. The throttling of progress to one
report in 100 ms is left to chance (a report may come at any time).
The paths of the command line go through `LoadPaths` exactly as those of a
picker do and have no action of their own.

### SelectionTree

Rows of the list in list order, each with path (a sequence of components),
archive and kind. `Change(new)` is `OnEntrySelectionChanged` for a list view that
now shows `new` as selected: the change is spread over subtrees of folders, every
folder is recomputed from the last row to the first, and the list view is
corrected. `Extracted` composes `OnExtract` with the engine's prefix rule.
`RowsAssumption` is what the page ensures: a row has a path (MainPage.cpp:748) and,
because the list is sorted (746), comes before what begins with its path. `preview`
lists every header it meets (archive_engine.cpp:709-712), so an archive may list a
path twice and give content to an entry that is no folder. For such rows the page's
marks and the engine's rule differ: the page spreads a mark below folders only, the
engine below every selected path. `TakenAlong` is what extraction adds to the
checked rows then; `ExtractsChecked` says that there is nothing else, and that in a
tree (`IsTree`) there is nothing at all.

### ExtractBatch

What `SelectionTree` and `ArchiveOutput` leave open between them: from the files
the user selected to the directories the batch publishes. `pc` is where the page
or its one worker is; an exception is a step to `unread` or `unwinding`, where
destructors and handlers run.

| Action | Code |
|---|---|
| `ReadArchives`, `List`, `UnwindReading` | `LoadArchivePreview`, `MainPage.cpp` 720-808 |
| `OpenPreview`, `Scan` | `preview`, `archive_engine.cpp` 656-717 |
| `ExtractChecked`, `SkipArchive`, `EndBatch` | `OnExtract` and the end of `StartArchiveTask`, `MainPage.cpp` 864-897, 841-854 |
| `StartArchive`, `OpenArchive`, `ReadEntry`, `FinishArchive`, `UnwindExtraction` | `extract`, `archive_engine.cpp` 719-816 |
| `Cancel`, `ReplaceFile` | `OnCancel`; another program |

An entry name is the sequence of what stands between its slashes, so that "//",
"/./", a leading "/" and ".." are different names; `Unsafe` and `SafePath` are
what `safe_relative_path` refuses and returns. `NothingUnsafe` does not repeat them: it
walks a name from the destination step by step (`Depth`). `WriteEntry` is libarchive's
disk writer under the options `extract` gives it: it does not write through links or
files; what already stands at a path is kept, and an entry for it is passed over (an
empty file, a folder, a link) or throws (a file with content), except that it takes
the place of a link. `MatchesChecks` therefore allows, as `ExtractsChecked` does, what
lies below a checked entry that is no folder (`TakenAlong`): "a/", an empty file "a"
and "a/b" with only the file checked yield "a/b" too. A file that is open is a snapshot: one
that is changed in place while it is read may also make any step throw. The step
between two `check_cancelled` calls is atomic, so that a cancellation that falls
into it counts as a later one. `preview` is asked for all entries
(MainPage.cpp:743), so its limit of 250 is not reached: the repository's README.md:23,
"caps the list at 250 entries", is true of the engine's default only, which the page
does not use. Nothing else in the code depends on it, and no property is about it.
Which rows may be checked comes from `SelectionTree`
(`Checkable`); how the staged directory gets its name, and a crash, are
`ArchiveOutput`.

### SourceTraversal and SplitArchive

One call of `compress` over a tree of places; `kind` says what each place holds
now and other programs create, delete and resize items all along. `folders` is the
recursion of `append`: each open folder has what its iterator has `given`, what
it may give (`met`) and what it must give before it ends (`steady`: there since
the iterator was opened). This is what a directory iterator promises; it gives no
name twice. An open file keeps its bytes when it is deleted, and a file that is
being read is not created anew under its name. The staging directory is an item of the
destination, because the traversal must not meet it.

| Action | Code (`archive_engine.cpp`) |
|---|---|
| `Begin` | the checks, 823-876 (`Acceptable`: 855-874) |
| `NextSource`, `NextChild`, `EndFolder` | 1036-1040 and the directory loop of `append`, 961-971 |
| `AppendItem` | `append` up to the first directory entry or byte, 933-1003 |
| `ReadChunk`, `EndFile` | 1008-1031 |
| `EndSources` | 1041-1042 |
| `Fail` | the handler, 1103-1110; anything before it may throw |
| `CutVolume`, `CutFails`, `ChooseName` | 1053-1089 |
| `RenameVolume`, `Finish`, `TakeBack` | 1090-1109 |
| `OpenFirst`, `Look`, `EndScan`, `JoinVolume` | `prepare_archive_source`, 371-440 |
| `Cancel`, `CancelCut` | `OnCancel` |
| `Create`, `Delete`, `Resize`, `DeleteVolume` | other programs and the user |

The archive that is cut has one unit for its own directory, one for each entry
and one for each buffer of a file. `CutVolume` is one turn of the outer loop and
keeps its oddity: the end of the input shows only in a read that asks for more
than is left, so an archive that fills its last volume exactly takes one more
turn, whose file stays empty and is not counted. The scan for the highest volume
looks at one number after another, in any order, as a directory iterator may.
A file whose suffix reads as a number but is not written like one (".0003") is a
stray: it raises the highest number and joining then misses a volume, which is a
failure and not a wrong archive. The name is free and no process dies here:
those cases are `ArchiveOutput`'s, and the finding `stale_volume` shows what a
reader joins after them.

### Setup

One process from `wWinMain` to its return. `stage` says which part of it runs;
`worker` where the one worker is, in the dialog's thread or in the background
part of `Begin`.

| Action | Code (`installer/`) |
|---|---|
| `Start`, `Join` | `UnfurlSetup.cpp` 63-98 and 49-58: what leads to the dialog, the window or the end |
| `Trust`, `Elevated` | `request_certificate_trust`, `SetupDeployment.cpp` 303-325; `trust_certificate`, 292-301, in the elevated process |
| `NextDependency`, `Download`, `BeginDeployment`, `Deploy` | `prepare_dependencies`, 336-372, and `download` |
| `WorkFails` | an exception anywhere in them, caught in `SetupWindow.cpp` 131-135 or `UnfurlSetup.cpp` 34-38 |
| `DialogButton`, `DialogDone`, `DialogPost` | the dialog's callback and the end of its thread, `UnfurlSetup.cpp` 28-47 |
| `Begin`, `OnCancel`, `CloseWindow`, `OnProgress` | handlers of the window, `SetupWindow.cpp` 78-130 |
| `ResumeClosing`, `ResumeStopped`, `ResumeUnopened`, `ResumeOpened` | `Begin` after `co_await ui`, 136-166, with `open_app_installer` |

`check_cancelled` is a guard: where the code calls it, the next step is taken only
if nobody cancelled, otherwise only `WorkFails` is left. A deployment that was
asked to stop may still succeed, and `WorkFails` at a download or at the
elevation may leave what was done so far. Progress callbacks are counted in
`progress` and run in any order with the rest of `Begin`: nothing in the code
orders the dispatcher queue and `co_await ui`. A callback that runs after an
attempt that failed or finished on its own may therefore replace the outcome
that is shown; only for a cancelled attempt does the code (and `CancelTold`)
exclude it.

## 3. Runs

| Run | Question | Bounds |
|---|---|---|
| `output_alone` | one process: does the engine keep everything it promises, with failures, cancellation and crashes anywhere? | 2 jobs in a row, 1 name, suffix up to 2, 2 volumes, initially any mix of files and folders under the bare name and its last volume |
| `output_fair` | does every job end, and does a cancelled one not succeed? | 1 job, 2 staging attempts, the user creating and deleting the first volume's name |
| `output_shared` | what survives other processes and the user? | 2 jobs in 2 processes, user active |
| `page` | all interleavings of handlers, threads and queue; does the page come back, and does a requested close happen? | 4 operations, 3 selections |
| `selection` | every reachable combination of check marks | 13 entries of 3 archives: nesting, a folder without content, a parent that is not listed, equal names in the archives, a path listed as a file and twice as a folder |
| `extract` | is what a batch publishes what was listed and checked, and safe? does a failure or a cancellation end it cleanly? | 2 archives, one given by its first volume; 11 initial archives; 3 readings and extractions; 1 replacement by one of 6; paths of up to 4 components |
| `split` | does an archive hold what belongs into it while the tree changes, and do its volumes give it back? | 9 places, 5 selections, 2 destinations; files of up to 1 buffer, 2 changes; 3 volumes of 2 units, 1 deleted volume |
| `setup` | the whole life of setup: preparation, cancellation, close, retry, clean-up | 2 packages, 2 attempts |
| `two_windows_replace` | finding 1 | 2 jobs in 2 processes |
| `crash_splits_set` | finding 2 | 1 job, 2 volumes |
| `stale_volume` | finding 3 | 2 jobs in a row, up to 3 volumes |
| `partial_feed` | finding 4 | 1 package, 2 attempts |

Why these are enough: interference is pairwise, so two jobs are the smallest case
in which one overtakes another or meets what another left; two volumes are the
smallest set that can be half published, three the smallest in which a roll-back
leaves a higher volume than a later set has; two suffixes let a job both skip a
taken name and run out of names. In the page four operations leave room for an
answer, a clear, a new selection and another operation; ids only grow, so a
larger bound adds no new relation between them. A batch of two archives has an
earlier and a later one; three operations are a reading and two extractions, or
two readings and an extraction; one replacement is one chance for the list to be
stale, and the archives include each reason for a refusal, before and after good
entries, selected and not. `MaxDepth` is 127 in the code; 4 lets a run meet both
sides of it. In the tree a folder in a folder with a file is the smallest case in
which an iterator is open above another; two changes let an item go and come
back, or a file shrink while its folder's content changes. With 2 units to a
volume the archives of the selection that is split are exact multiples and not,
and a third volume lets a reader miss one in the middle. In setup a second package lets
one be deployed and the next fail, a second attempt is a retry. Every bound of a counter is a
guard: `MaxIndex` (9999 in the code) and `StagingAttempts` (32) are the code's
own, `MaxVolumes`, `MaxOps`, `MaxLoads`, `MaxAttempts`, `MaxOperations`,
`MaxReplacements`, `MaxSize`, `MaxChanges` and `MaxDeletions` are ours. Deadlock
is not checked where the system really stops (all jobs ended, window closed,
archive read, bound reached); it is for `SelectionTree`. `output_alone` does not
repeat the invariants that `output_shared` checks with more interference. Symmetry over staging tokens is used
in safety runs only.

**Fairness.** `output_fair`: weak fairness of a running job's own steps; the thread
that runs it is not stopped by anything in the code. Starting, cancelling and
crashing are not fair, so `Terminates` holds whether or not they happen. The steps
of writing and cutting are finite because sources and archives are
(`MaxVolumes`). `page`: weak fairness of the dispatcher
(callbacks run as long as the window is open) and of the engine's return, which
is what `Terminates` says of the engine. Nothing is required of the user.
`extract`: weak fairness of the worker together with the callbacks it queues
(`Worker`); reading, checking, cancelling and replacing files are not fair.
`setup`: weak fairness of the worker, of the dialog's thread and its message, and of
the return of `Begin` to the UI thread. Network calls have timeouts and a size
limit; a deployment and the elevated process end by themselves, which for the
latter means that somebody answers Windows' prompt: the code waits for it without
a limit (`SetupDeployment.cpp` 317).

**Deep properties.** `ExistingKept`, `ResultStays`, `NothingLeftBehind`,
`OnlyComplete`, `StagingPrivate` relate the folder to the phase of each job that
wrote to it; `KeepsPromise` says that all of it, seen from outside, is a step of
`ArchivePromise`. `OneOperation` is what the page's stale-id checks rest on: it
shows that with the present handlers an answer is always the last message of its
operation and that nothing of an earlier one is ever queued. `SelectionFrozen`
covers both places where a handler is suspended; its mutant drops the second
`busy_` check of `LoadPaths`. `ExtractsChecked` ties the page's invariant
(`FolderIsSubtree`) to the engine's rule for parents, which are a module apart in the code.
`MatchesChecks` relates a list to the result of an extraction
that opened the file anew: equal if the file is the same; if another file came in
between, nothing outside the selected paths and nothing selected missing, which
rests on the found marks (line 807) and on whole archives being extracted without
a selection. `ArchivesAll` says that an item which stood still is archived however
the tree moves around it; its mutant forgets that an iterator which fails looks
like one that is done (970). `ArchivesOnly` has the staging directory, the order of
folders and contents, and the bytes a header announces. `JoinsWhole` relates a
reader in another process to the writer: it joins a gapless beginning of the set or
fails. It may join only a beginning: when it looks while the volumes are still being
renamed, or while a set is removed from its end, the highest volume it finds is too
low and nothing tells it so. Whether such a prefix opens is libarchive's decision (a
ZIP file has its directory at the end). `OpensPrepared` and `CancelWins` relate the handover to everything that several
attempts, failures and cancellations did before; `LeavesOnlyFeed` relates the end
of the process to whether App Installer was opened.

## 4. Findings

1. `two_windows_replace` (`archive_engine.cpp:1046`, `:1095`): the check for a free
   name and the rename are separate, and the rename replaces a file. README.md:21
   says existing files are never replaced.
2. `crash_splits_set` (`archive_engine.cpp:1095`): volumes are renamed one at a time;
   a crash leaves a partial set under final names. README.md:75 speaks of atomic
   publishing.
3. `stale_volume` (`archive_engine.cpp:197`): the free-name search looks only at the
   volumes to be written, while opening joins up to the highest volume present
   (387-407). After a crash in a roll-back a new, shorter set is joined with the
   stale volume. README.md:11 says that selecting the first volume joins the
   sequence.
4. `partial_feed` (`SetupDeployment.cpp:390`): the feed is written only if no file of its
   name is there, but a write that fails leaves one behind. After a retry in the
   same window App Installer is opened with the partial feed. docs/updates.md:7
   speaks of the feed that setup embeds.

The first three need a second process, the user or a crash, and the theorems say
exactly what: finding 1 cannot happen while no two jobs are about to rename to the
same name (`ApartKeepsExisting`), as with one engine (`ExistingAreKept`); finding 2
needs a crash then (`UncrashedSetsAreWhole`), and so does finding 3 with one engine
and no volumes from elsewhere (`UncrashedSetsJoin`). Finding 4 needs a retry
(`SetupOpensWholeAtFirst`).

## 5. Proofs

Every type invariant, safety invariant and action property that a passing run checks
is also a theorem. `ArchiveOutput_proof` proves, for any sets of jobs, names, tokens
and any bounds:

| Theorem | Statement | Assumes |
|---|---|---|
| `TypeCorrect` | `Spec => []TypeOK` | - |
| `StagingIsPrivate` | `Spec => []StagingPrivate` | - |
| `PublishedIsComplete` | `Spec => []OnlyComplete` | - |
| `FailureCleansUp` | `Spec => []NothingLeftBehind` | - |
| `CancelledNeverSucceeds` | a job cancelled while it reads and writes never succeeds | - |
| `ApartKeepsExisting` | `Spec /\ []Apart => ExistingKept` | `UserAway` |
| `ApartKeepsResults` | `Spec /\ []Apart => []ResultStays` | `UserAway` |
| `ApartKeepsPromise` | `Spec /\ []Apart => KeepsPromise` | `UserAway` |
| `ExistingAreKept`, `ResultsStay`, `EngineKeepsPromise` | the same three without `[]Apart` | `OneEngine` |
| `UncrashedSetsAreWhole` | `Spec /\ []Apart /\ []Uncrashed => []WholeSets` | `UserAway` |
| `UncrashedSetsJoin` | `Spec /\ []Uncrashed => []JoinsBack` | `OneEngine`, `NoOldVolumes` |

"-" means only the constants' assumptions `JobsAssumption` and
`BoundsAssumption`: any number of processes, crashes and a user who interferes.
`Apart` says of a state that no two jobs, of whatever processes, are about to rename
to the same name. It is all that several engines must respect for the promise to
hold, and finding 1 shows that it cannot be dropped; the code does nothing to ensure
it, so it is a hypothesis about the behaviour and not a constant's assumption.
`UserAway` says that the user leaves the folder alone, `OneEngine` that in addition
all jobs belong to one process (which runs one at a time, hence `Apart`), `Uncrashed`
that no job's process has died, `NoOldVolumes` that no volumes are there at first.

*The argument.* `StagingPrivate` is not inductive: that no two jobs share a token
needs that a token drawn was never drawn, i.e. which tokens are `"never"`.
`NothingLeftBehind` needs to know where a job's files can be. Hence
`IInv == TypeOK /\ Counters /\ Tokening /\ Owning`: `Counters` relates phase,
volumes, published and withdrawn files; `Tokening` the token, its directory and
the phase; `Owning` says that a job's entries are among the targets it has
published and not yet withdrawn. `IInv` holds initially and is kept by each
action (one lemma step per action), and gives the first four theorems.
`ExistingKept` also needs that the names a renaming job found free are still free:
`ApartInv == IInv /\ Exclusive`, where `Exclusive` says that the rest of the names
a renaming job is about to use are free (`ReservedFor`) and that what a job has
published is present (`PresentOf`). `Apart` is needed in one place, where another
job's rename must not take a reserved name. The refinement maps the
destination folder to itself and every phase of a running job to "running"; a
rename maps to `Publish`, a removal of a volume to `Withdraw`, the last steps to
`Succeed` and `Fail`, everything else to a stutter. `WholeSets` then is a matter
of counting (`OwnedCount`). `JoinsBack` needs that the name of a split archive that
holds volumes is no other's (`OneSetEach`): when a name is chosen, every other job
is over, and one that succeeded still shows its first volume.

`Setup_proof` proves, for any number of packages and attempts (`CountAssumption`):
`SetupTypeCorrect` (`TypeOK`), `SetupPreparesFirst` (`OpensPrepared`),
`SetupAwaitsWorker` (`WorkerIsAwaited`), `SetupTellsCancel` (`CancelTold`),
`SetupCleansUp` (`LeavesOnlyFeed`) and `SetupHonoursCancel` (`CancelWins`). The
inductive invariant is `Flags /\ Ranges /\ Secured /\ Staffed /\ Told /\ Kept`:
`Secured` is the invariant of the worker's loop (the packages before the current
one are installed; from the window the loop is reached only with a trusted
certificate), without which nothing follows from the worker having ended without a
failure; `Staffed` says which stage has a worker; `Told` that nothing is busy or
cancelled before the first attempt; `Kept` that the feed is kept exactly when it
was opened. `CancelWins` follows from single steps. `OpensWholeFeed` cannot be
proved (finding 4); `SetupOpensWholeAtFirst` says that it holds up to the first
retry, because a feed in part is what an attempt leaves that failed (`Retried`).

`MainPage_proof` proves, for any number of operations and selections
(`BoundsAssumption`), every safety property of the page:

| Theorem | Statement |
|---|---|
| `PageTypeCorrect` | `Spec => []TypeOK` |
| `PageRunsOneOperation` | `Spec => []OneOperation` |
| `PageListsItsSelection` | `Spec => []PreviewMatches` |
| `PageTellsCancel` | `Spec => []NoProgressAfterCancel` |
| `PageRevealsItsOutput` | `Spec => []RevealIsTrue` |
| `PageBoundsProgress` | `Spec => []ProgressBounded` |
| `PageClosesWhenIdle` | `Spec => []CloseWaits` |
| `PageFreezesSelection` | `Spec => SelectionFrozen` |

None is inductive alone. `OneOperation` needs to know that a busy page has begun
the current operation and that later ones carry no flag (`Started`); the
closing of the window that a close waits only for a busy page without a picker
(`Closable`); `PreviewMatches` and `RevealIsTrue` what the buttons and the
queued answers say about the operation under way (`Listed`); `ProgressBounded`
that a queued report has its flag set (`Waiting`). Their conjunction with the
properties is `IInv`. Most handlers do one of four things (begin an operation,
become idle, replace the selection, nothing but marks), each of which is a
lemma.

`ExtractBatch_proof` proves, for any archives, names and replacements
(`ArchivesAssumption`, `NamesAssumption`), all safety properties of a batch:

| Theorem | Statement |
|---|---|
| `BatchTypesHold` | `Spec => [](TypeOK /\ Fresh /\ Bare)` |
| `BatchPublishesNothingUnsafe` | `Spec => []NothingUnsafe` |
| `BatchCleansUp` | `Spec => []CleansUp` |
| `BatchPublishesInOrder` | `Spec => []BatchInOrder` |
| `BatchYieldsWhatWasChecked` | `Spec => []MatchesChecks` |
| `CancelledBatchMakesNothing` | a batch cancelled with a later archive due stops, and ends as cancelled or failed if it ends |

`NothingUnsafe` rests on two facts: all entries up to `position` have passed the
checks, selected or not, and the end is reached only after the last (`Vetting`); and
a name without a leading slash, a drive and ".." never leads above the destination
(`SafeNames`, about the sum that `Depth` is). `CleansUp` is where private directories
may be (`Private`). What a file holds is not assumed to be safe anywhere. `TypeOK` needs that nothing is
checked or published before anything is listed (`Fresh`) and that nothing of an
archive is left open outside its steps (`Bare`); that `SafePath` returns a path is an
induction over the name. `BatchInOrder` needs the progress of a batch: published are
exactly the due archives before the current one (`Progress`). `MatchesChecks` needs an invariant of
the entry loop: the paths that stand in the staging directory are exactly those of the
selected entries so far (`Taken`), and each path that counts as found was found by one
of them (`Met`). At the end of an archive that still holds what was listed, these paths
are the checked ones and those below a checked entry that is no folder
(`StagedIsChecked`): an entry
below a checked folder is itself checked, because the marks are `Checkable`, and "as
many checked as listed" means all, because the rows are finitely many.

`SelectionTree_proof` proves, for any rows that are sorted (`RowsAssumption`), however
often a path is listed,
`ListShowsMarks` (`ListAgrees`), `FoldersStandForSubtrees` (`FolderIsSubtree`),
`ChecksAreExtracted` (`ExtractsChecked`) and `ClicksStayLocal` (`ClickIsLocal`). The
core is that `Settle`, one pass from the last row to the first, leaves every folder
checked exactly when all that is below it is (`SettleSettles`): a folder's rows come
after it, so they have their final marks when it is looked at. With the marks among
the rows and the list view in agreement this is inductive. A click is local because
a row that is neither above nor below the clicked one, nor of its path, depends only on
rows that are not either (`SettledIsLocal`). What the engine's rule reaches through the
path of a checked row is checked too, unless that row is no folder or has the same path
(`ReachedThroughChecked`): a folder with something below it stands for its subtree.

`SourceTraversal_proof` and `SplitArchive_proof` prove, for any tree, sizes, sources
and interference (`TreeAssumption`, `SplitAssumption`):
`SplitTypesHold` (`SplitTypeOK`), `CompressTakesAll` (`ArchivesAll`),
`CompressTakesNothingElse` (`ArchivesOnly`) and `VolumesJoin` (`JoinsWhole`).

* The traversal. `IInv` is a conjunction: where compress is (`Control`); what other
  programs may leave of the tree (`Grounded`); open folders are written, belong to the
  source and are open once (`OpenIn`); entries come once, after their folder and not from
  a later source (`OrderedIn`, `GivenIn`, `Reading`); and the part that `ArchivesAll`
  needs, what is still to come: an item that belongs into the archive is
  written, at hand, or is below something that an open iterator must still give
  (`CompleteIn`, `PendingIn`). An item that goes while it is pending no longer
  belongs. That a folder is never open above itself, and that an item not
  above another is not on the way to it, are inductions over the tree
  (`TreeInduct`), for which `TreeAssumption` says that the tree has no cycle.
* The volumes. `Cutting`: what is staged adds up to the position, with full volumes
  before the last; `Showing`: a number holds its own volume or nothing; `Joining`: what
  has been joined is the beginning of the set, and a scan during which the set was
  whole has not missed the highest. Sums are recursive functions; `SumAppend` is their
  induction.

*Induction over data.* The library's induction theorems are about predicates, which
the provers cannot instantiate. `Induction` states the same about sets, from the
library's theorem that < on numbers is well founded, and that a loop of n turns has a
function of its values (`Iterated`), which is what a recursive function of the models
is. The recursive definitions are therefore functions, never operators.

*Only model-checked:* liveness (`Terminates`, `CancelStops`, `BecomesIdle`,
`CloseHappens`, `Ends`, `CancelEndsBatch`), which is out of the prover's reach; of
two of these the part that needs no fairness is proved (`CancelledNeverSucceeds`,
`CancelledBatchMakesNothing`).

## 6. Not modelled

* Archive formats, compression, encryption, entry metadata: libarchive.
* The bytes of files and archives: a source file that is rewritten at the same
  size while it is read, a volume that is replaced by another of its number.
* The checks of names, passwords and options of `compress` (823-847): refusals
  without state, like the others of `Begin`.
* Errors that removal ignores (`remove_tree`, the roll-back), a thread that cannot
  be started, a dispatcher queue that is shut down.
* In setup: checks of hash and signature (a failed one is a failure like others),
  the loading of the bootstrap DLL, files that cannot be removed, and a process
  that is killed, which leaves its session directory behind.
* Layout, localization, themes, start-up, registry files, build and packaging.

## 7. Plan

Done: every module with the proofs of its safety properties. What is left, in this
order:

1. `ArchiveOutput`: `JoinsBack` for several engines, which needs more than `Apart`: a
   name must not be chosen while another engine takes volumes of it back.
2. The parts of `BecomesIdle`, `CloseHappens` and `Ends` that need no fairness.
