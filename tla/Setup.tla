--------------------------------- MODULE Setup --------------------------------
(***************************************************************************)
(* The setup program: wWinMain, the dialog that prepares the runtime, the  *)
(* window with its Begin coroutine, and the session they share.            *)
(*                                                                         *)
(* One worker at a time makes sure that the certificate is trusted (window *)
(* only), then downloads and deploys the packages that are missing.  From  *)
(* the dialog it runs in a thread that the dialog joins; from the window   *)
(* it is the part of Begin between resume_background and co_await ui.      *)
(* What the worker reports to the window goes through the dispatcher       *)
(* queue, the return of Begin to the UI thread does not, so neither waits  *)
(* for the other.  Session::cancelled is set by the UI and polled.         *)
(*                                                                         *)
(* Any call of the worker may throw.  A download may leave its file; a     *)
(* deployment may succeed although it was cancelled.  Not modelled: hash   *)
(* and signature checks (a failed check is a failure like others), removal *)
(* of files that the file system refuses, a process that is killed.        *)
(***************************************************************************)
EXTENDS Integers

CONSTANTS
    Count,         \* number of packages setup depends on
    MaxAttempts    \* bound on clicks on "continue"

ASSUME CountAssumption == Count \in Nat /\ MaxAttempts \in Nat

Dependencies == 1..Count

VARIABLES
    stage,       \* "starting", "dialog", "joining", "window", "exited"
    code,        \* what the process returned
    worker,      \* where the worker is
    at,          \* the package it is at
    failure,     \* it caught an exception
    done,        \* state.done of the dialog
    cancelled,   \* Session::cancelled
    busy,        \* busy_
    closing,     \* close_when_idle_
    finished,    \* finished_
    attempts,    \* calls of Begin
    status,      \* what the window says
    progress,    \* progress callbacks in the dispatcher queue
    trusted,     \* the certificate is in Trusted People
    installed,   \* packages that are installed
    files,       \* packages in the session directory
    feed,        \* the feed in the session directory
    keepFeed,    \* Session::keep_feed
    opened       \* the feed App Installer was opened with

workVars    == <<worker, at, failure, done>>
windowVars  == <<busy, closing, finished, attempts, status, progress>>
machineVars == <<trusted, installed>>
folderVars  == <<files, feed, keepFeed, opened>>
vars == <<stage, code, workVars, cancelled, windowVars, machineVars, folderVars>>

Working == {"trust", "elevating", "next", "downloading", "checking",
            "deploying"}

Init ==
    /\ stage = "starting" /\ code = "none"
    /\ worker = "none" /\ at = 1 /\ failure = FALSE /\ done = FALSE
    /\ cancelled = FALSE
    /\ busy = FALSE /\ closing = FALSE /\ finished = FALSE /\ attempts = 0
    /\ status = "ready" /\ progress = 0
    /\ trusted \in BOOLEAN /\ installed \in SUBSET Dependencies
    /\ files = {} /\ feed = "none" /\ keepFeed = FALSE /\ opened = "none"

-----------------------------------------------------------------------------
(* Parts of steps.  *)

(* wWinMain returns; the session's destructor empties its directory, but   *)
(* for the feed when App Installer still has to read it.                   *)
Exit(result) ==
    /\ stage' = "exited" /\ code' = result
    /\ files' = {}
    /\ feed' = IF keepFeed THEN feed ELSE "none"
    /\ UNCHANGED <<keepFeed, opened>>

StartWorker(first) ==
    /\ worker' = first /\ at' = 1 /\ failure' = FALSE

Say(what) == status' = what

-----------------------------------------------------------------------------
(* wWinMain up to the dialog or the window.  *)
Start ==
    /\ stage = "starting"
    /\ \/ Exit("failed") /\ UNCHANGED workVars
       \/ /\ stage' = "window"
          /\ UNCHANGED <<code, workVars, folderVars>>
       \/ /\ stage' = "dialog" /\ StartWorker("next")
          /\ UNCHANGED <<code, done, folderVars>>
    /\ UNCHANGED <<cancelled, windowVars, machineVars>>

-----------------------------------------------------------------------------
(* The worker: request_certificate_trust and prepare_dependencies.  *)

(* Progress is queued for the window; the dialog is told at once.          *)
Report == progress' = IF stage = "window" THEN progress + 1 ELSE progress

Trust ==
    /\ worker = "trust" /\ ~cancelled
    /\ worker' = IF trusted THEN "next" ELSE "elevating"
    /\ UNCHANGED <<at, failure, done, progress, machineVars, files>>

(* The elevated process has added the certificate and ended; a             *)
(* cancellation during the wait is noticed only now.                       *)
Elevated ==
    /\ worker = "elevating"
    /\ trusted' = TRUE
    /\ worker' = IF cancelled THEN "done" ELSE "next"
    /\ failure' = cancelled
    /\ UNCHANGED <<at, done, progress, installed, files>>

(* Mutant: one package too many.                                           *)
NextDependencyOffByOne ==
    /\ worker = "next"
    /\ IF at > Count + 1
       THEN worker' = "done" /\ UNCHANGED <<at, progress>>
       ELSE /\ ~cancelled
            /\ IF at \in installed
               THEN at' = at + 1 /\ UNCHANGED <<worker, progress>>
               ELSE worker' = "downloading" /\ Report /\ UNCHANGED at
    /\ UNCHANGED <<failure, done, machineVars, files>>

(* The loop over the packages; its end is not another check.               *)
NextDependency ==
    /\ worker = "next"
    /\ IF at > Count
       THEN worker' = "done" /\ UNCHANGED <<at, progress>>
       ELSE /\ ~cancelled
            /\ IF at \in installed
               THEN at' = at + 1 /\ UNCHANGED <<worker, progress>>
               ELSE worker' = "downloading" /\ Report /\ UNCHANGED at
    /\ UNCHANGED <<failure, done, machineVars, files>>

Download ==
    /\ worker = "downloading" /\ ~cancelled
    /\ files' = files \cup {at}
    /\ worker' = "checking"
    /\ UNCHANGED <<at, failure, done, progress, machineVars>>

BeginDeployment ==
    /\ worker = "checking" /\ ~cancelled
    /\ worker' = "deploying" /\ Report
    /\ UNCHANGED <<at, failure, done, machineVars, files>>

(* Mutant: the result of the deployment is not looked at.                  *)
DeployUnchecked ==
    /\ worker = "deploying"
    /\ installed' \in {installed, installed \cup {at}}
    /\ files' = files \ {at}
    /\ at' = at + 1 /\ worker' = "next"
    /\ UNCHANGED <<failure, done, progress, trusted>>

Deploy ==
    /\ worker = "deploying"
    /\ installed' = installed \cup {at}
    /\ files' = files \ {at}
    /\ at' = at + 1 /\ worker' = "next"
    /\ UNCHANGED <<failure, done, progress, trusted>>

(* An exception: an error of any call, or check_cancelled.  A download may *)
(* leave its file, and the elevated process its certificate.               *)
WorkFails ==
    /\ worker \in Working
    /\ worker' = "done" /\ failure' = TRUE
    /\ files' \in IF worker = "downloading" THEN {files, files \cup {at}}
                                            ELSE {files}
    /\ trusted' \in {trusted, trusted \/ worker = "elevating"}
    /\ UNCHANGED <<at, done, progress, installed>>

Work ==
    /\ \/ Trust \/ Elevated \/ NextDependency \/ Download \/ BeginDeployment
       \/ Deploy \/ WorkFails
    /\ UNCHANGED <<stage, code, cancelled, busy, closing, finished, attempts,
                   status, feed, keepFeed, opened>>

-----------------------------------------------------------------------------
(* prepare_runtime_dialog.  *)

(* Mutant: the button closes the dialog at once.                           *)
DialogButtonCloses ==
    /\ stage = "dialog"
    /\ cancelled' = (cancelled \/ ~done)
    /\ stage' = "joining"
    /\ UNCHANGED <<code, workVars, windowVars, machineVars, folderVars>>

(* TDN_BUTTON_CLICKED: until the worker is done the click only cancels.    *)
DialogButton ==
    /\ stage = "dialog"
    /\ IF done THEN stage' = "joining" /\ UNCHANGED cancelled
               ELSE cancelled' = TRUE /\ UNCHANGED stage
    /\ UNCHANGED <<code, workVars, windowVars, machineVars, folderVars>>

(* The thread stores done, then posts a click of its own and ends.         *)
DialogDone ==
    /\ stage = "dialog" /\ worker = "done" /\ ~done
    /\ done' = TRUE
    /\ UNCHANGED <<stage, code, worker, at, failure, cancelled, windowVars,
                   machineVars, folderVars>>

DialogPost ==
    /\ stage \in {"dialog", "joining"} /\ worker = "done" /\ done
    /\ worker' = "none" /\ stage' = "joining"
    /\ UNCHANGED <<code, at, failure, done, cancelled, windowVars, machineVars,
                   folderVars>>

(* worker.join, then what the dialog returns, then Bootstrap::Initialize.  *)
Join ==
    /\ stage = "joining" /\ worker = "none"
    /\ \/ cancelled /\ Exit("cancelled")
       \/ ~cancelled /\ Exit("failed")
       \/ /\ ~cancelled /\ ~failure
          /\ stage' = "window" /\ UNCHANGED <<code, folderVars>>
    /\ UNCHANGED <<workVars, cancelled, windowVars, machineVars>>

-----------------------------------------------------------------------------
(* The window.  *)

Begin ==
    /\ stage = "window" /\ ~busy /\ ~finished /\ attempts < MaxAttempts
    /\ busy' = TRUE /\ cancelled' = FALSE /\ attempts' = attempts + 1
    /\ Say("working")
    /\ StartWorker("trust")
    /\ UNCHANGED <<stage, code, done, closing, finished, progress, machineVars,
                   folderVars>>

OnCancel ==
    /\ stage = "window" /\ busy /\ ~cancelled
    /\ cancelled' = TRUE /\ Say("cancelling")
    /\ UNCHANGED <<stage, code, workVars, busy, closing, finished, attempts,
                   progress, machineVars, folderVars>>

(* AppWindow.Closing, the cancel button of an idle window and the start    *)
(* button of a finished one.                                               *)
CloseWindow ==
    /\ stage = "window"
    /\ IF busy
       THEN /\ closing' = TRUE /\ cancelled' = TRUE /\ Say("cancelling")
            /\ UNCHANGED <<stage, code, folderVars>>
       ELSE /\ Exit("closed")
            /\ UNCHANGED <<closing, cancelled, status>>
    /\ UNCHANGED <<workVars, busy, finished, attempts, progress, machineVars>>

(* Mutant: a progress callback does not look at the cancellation.          *)
OnProgressUnchecked ==
    /\ stage = "window" /\ progress > 0
    /\ progress' = progress - 1
    /\ Say("progress")
    /\ UNCHANGED <<stage, code, workVars, cancelled, busy, closing, finished,
                   attempts, machineVars, folderVars>>

OnProgress ==
    /\ stage = "window" /\ progress > 0
    /\ progress' = progress - 1
    /\ Say(IF cancelled THEN status ELSE "progress")
    /\ UNCHANGED <<stage, code, workVars, cancelled, busy, closing, finished,
                   attempts, machineVars, folderVars>>

(* Begin, back on the UI thread.  *)
Resume ==
    /\ stage = "window" /\ worker = "done"
    /\ worker' = "none" /\ busy' = FALSE
    /\ UNCHANGED <<at, failure, done, cancelled, closing, attempts, progress,
                   machineVars>>

(* Mutant: a close that was asked for is forgotten.                        *)
ResumeClosingForgets ==
    /\ Resume /\ closing
    /\ Say("cancelled")
    /\ UNCHANGED <<stage, code, finished, folderVars>>

ResumeClosing ==
    /\ Resume /\ closing
    /\ Exit("closed")
    /\ UNCHANGED <<finished, status>>

ResumeStopped ==
    /\ Resume /\ ~closing /\ (cancelled \/ failure)
    /\ Say(IF cancelled THEN "cancelled" ELSE "failed")
    /\ UNCHANGED <<stage, code, finished, folderVars>>

(* open_app_installer did not get as far as opening the feed: App          *)
(* Installer is not there, or the feed is written in part or in whole.     *)
ResumeUnopened ==
    /\ Resume /\ ~closing /\ ~cancelled /\ ~failure
    /\ feed' \in IF feed = "none" THEN {"none", "partial", "whole"} ELSE {feed}
    /\ Say("failed")
    /\ UNCHANGED <<stage, code, finished, files, keepFeed, opened>>

(* Mutant: neither Begin nor open_app_installer looks at the cancellation. *)
ResumeOpenedUnchecked ==
    /\ Resume /\ ~closing /\ ~failure
    /\ feed' = IF feed = "none" THEN "whole" ELSE feed
    /\ opened' = feed' /\ keepFeed' = TRUE /\ finished' = TRUE
    /\ Say("finished")
    /\ UNCHANGED <<stage, code, files>>

(* Mutant: the feed is not kept.                                           *)
ResumeOpenedUnkept ==
    /\ Resume /\ ~closing /\ ~cancelled /\ ~failure
    /\ feed' = IF feed = "none" THEN "whole" ELSE feed
    /\ opened' = feed' /\ UNCHANGED keepFeed /\ finished' = TRUE
    /\ Say("finished")
    /\ UNCHANGED <<stage, code, files>>

(* A feed that is there already is used as it is.  *)
ResumeOpened ==
    /\ Resume /\ ~closing /\ ~cancelled /\ ~failure
    /\ feed' = IF feed = "none" THEN "whole" ELSE feed
    /\ opened' = feed' /\ keepFeed' = TRUE /\ finished' = TRUE
    /\ Say("finished")
    /\ UNCHANGED <<stage, code, files>>

Resumed == ResumeClosing \/ ResumeStopped \/ ResumeUnopened \/ ResumeOpened

-----------------------------------------------------------------------------
Next ==
    \/ Start \/ Work
    \/ DialogButton \/ DialogDone \/ DialogPost \/ Join
    \/ Begin \/ OnCancel \/ CloseWindow \/ OnProgress \/ Resumed

Spec == Init /\ [][Next]_vars

(* Threads run, downloads and deployments end (timeouts, the size limit),  *)
(* and the user answers the prompt for elevation.  Nobody has to click.    *)
FairSpec ==
    /\ Spec
    /\ WF_vars(Work) /\ WF_vars(Resumed)
    /\ WF_vars(DialogDone) /\ WF_vars(DialogPost) /\ WF_vars(Join)

-----------------------------------------------------------------------------
(* Every variable stays within its range.                                  *)
TypeOK ==
    /\ stage \in {"starting", "dialog", "joining", "window", "exited"}
    /\ code \in {"none", "failed", "cancelled", "closed"}
    /\ worker \in {"none", "done"} \cup Working
    /\ at \in 1..(Count + 1)
    /\ failure \in BOOLEAN /\ done \in BOOLEAN /\ cancelled \in BOOLEAN
    /\ busy \in BOOLEAN /\ closing \in BOOLEAN /\ finished \in BOOLEAN
    /\ attempts \in 0..MaxAttempts
    /\ status \in {"ready", "working", "progress", "cancelling", "cancelled",
                   "failed", "finished"}
    /\ progress \in Nat
    /\ trusted \in BOOLEAN /\ installed \in SUBSET Dependencies
    /\ files \in SUBSET Dependencies
    /\ feed \in {"none", "partial", "whole"} /\ keepFeed \in BOOLEAN
    /\ opened \in {"none", "partial", "whole"}

(* App Installer is opened only with everything prepared, although a       *)
(* retry, a cancellation or a failure may have come at any point before.   *)
OpensPrepared == opened # "none" => trusted /\ installed = Dependencies

(* An attempt that was cancelled, at whatever moment, does not open App    *)
(* Installer.                                                              *)
CancelWins == [][opened' # opened => ~cancelled]_vars

(* Neither the dialog nor the window goes away while the worker still      *)
(* works: its clean-up is never cut short and it talks to no window that   *)
(* is gone.                                                                *)
WorkerIsAwaited ==
    /\ stage \in {"joining", "exited"} => worker \notin Working
    /\ stage = "window" => (busy <=> worker # "none")

(* A cancellation is told as such, also when it was overtaken by an error  *)
(* or by the end of the work, and no late progress hides it.               *)
CancelTold ==
    cancelled =>
        /\ stage = "window" => status = IF busy THEN "cancelling"
                                                ELSE "cancelled"
        /\ stage = "exited" /\ attempts = 0 => code = "cancelled"

(* The process leaves its feed if App Installer was opened to read it, and *)
(* otherwise nothing.                                                      *)
LeavesOnlyFeed ==
    stage = "exited" => files = {} /\ feed = opened

(* Whatever the worker is at, the dialog ends, and a window that was asked *)
(* to close closes.                                                        *)
Ends ==
    /\ stage = "dialog" ~> stage \in {"window", "exited"}
    /\ closing ~> stage = "exited"

(* What App Installer is opened with is the feed that setup embeds, also   *)
(* after a retry.                                                          *)
OpensWholeFeed == opened # "partial"
=============================================================================
