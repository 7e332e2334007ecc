------------------------------ MODULE Setup_proof -----------------------------
(***************************************************************************)
(* Proofs about Setup, for any number of packages and attempts.            *)
(*                                                                         *)
(* The inductive invariant says, beside types, what the worker has secured *)
(* when it is at a given point (Secured), which stages of the program have *)
(* a worker (Staffed), what is said of a cancellation (Told) and what the  *)
(* session directory keeps (Kept).  Types are split in two, because the    *)
(* provers handle flags and ranges by different means.                     *)
(***************************************************************************)
EXTENDS Setup, TLAPS

Flags ==
    /\ failure \in BOOLEAN /\ done \in BOOLEAN /\ cancelled \in BOOLEAN
    /\ busy \in BOOLEAN /\ closing \in BOOLEAN /\ finished \in BOOLEAN
    /\ trusted \in BOOLEAN /\ keepFeed \in BOOLEAN

Ranges ==
    /\ stage \in {"starting", "dialog", "joining", "window", "exited"}
    /\ code \in {"none", "failed", "cancelled", "closed"}
    /\ worker \in {"none", "done"} \cup Working
    /\ at \in 1..(Count + 1)
    /\ attempts \in 0..MaxAttempts
    /\ status \in {"ready", "working", "progress", "cancelling", "cancelled",
                   "failed", "finished"}
    /\ progress \in Nat
    /\ installed \in SUBSET Dependencies
    /\ files \in SUBSET Dependencies
    /\ feed \in {"none", "partial", "whole"}
    /\ opened \in {"none", "partial", "whole"}

InLoop == {"next", "downloading", "checking", "deploying"}

(* The packages before the current one are installed, at the end all are.  *)
(* From the window the loop is reached only with a trusted certificate.    *)
Secured ==
    /\ worker = "trust" => at = 1
    /\ worker = "elevating" => at = 1
    /\ worker \in InLoop => 1..(at - 1) \subseteq installed
    /\ worker \in InLoop \ {"next"} => at <= Count
    /\ worker = "done" /\ ~failure => Dependencies \subseteq installed
    /\ /\ stage = "window"
       /\ worker \in InLoop \/ (worker = "done" /\ ~failure)
       => trusted
    /\ OpensPrepared

(* The dialog has its worker until that has posted; an idle window none.   *)
Staffed ==
    /\ stage = "starting" => worker = "none" /\ ~done
    /\ stage = "dialog" => worker \in InLoop \cup {"done"}
    /\ stage = "dialog" /\ done => worker = "done"
    /\ stage = "joining" => worker \in {"none", "done"}
    /\ stage # "window" => ~busy
    /\ WorkerIsAwaited

(* The program has to be at the window before anything is begun.           *)
Told ==
    /\ stage \in {"starting", "dialog", "joining"} => attempts = 0
    /\ stage = "starting" => ~cancelled
    /\ stage = "window" /\ attempts = 0 => ~cancelled /\ ~busy
    /\ CancelTold

(* The feed is kept exactly when it was opened.                            *)
Kept ==
    /\ keepFeed => feed = opened /\ finished /\ opened # "none"
    /\ ~keepFeed => opened = "none"
    /\ stage = "window" /\ finished => ~busy
    /\ LeavesOnlyFeed

IInv == Flags /\ Ranges /\ Secured /\ Staffed /\ Told /\ Kept

(* The type invariant in two parts, flags and ranges.                      *)
LEMMA TypeParts == TypeOK <=> Flags /\ Ranges
  BY Zenon DEF TypeOK, Flags, Ranges

(* What Exit does to the session directory.                                *)
LEMMA ExitFacts ==
  ASSUME NEW r, Exit(r)
  PROVE  /\ stage' = "exited" /\ code' = r /\ files' = {}
         /\ feed' \in {feed, "none"} /\ opened' = opened
         /\ keepFeed' = keepFeed
         /\ keepFeed => feed' = feed
         /\ ~keepFeed => feed' = "none"
  BY Zenon DEF Exit

(* What the steps of the worker with a choice in them come to.             *)
LEMMA TrustFacts ==
  Trust => /\ worker = "trust"
           /\ ((worker' = "next" /\ trusted) \/ worker' = "elevating")
  <1>1. Trust /\ trusted => worker' = "next"
    BY Zenon DEF Trust
  <1>2. Trust /\ ~trusted => worker' = "elevating"
    BY Zenon DEF Trust
  <1>3. Trust => worker = "trust"
    BY Zenon DEF Trust
  <1>4. QED
    BY Zenon, <1>1, <1>2, <1>3

(* What the elevated process changes.                                      *)
LEMMA ElevatedFacts ==
  Elevated => /\ worker = "elevating" /\ trusted'
              /\ (worker' = "next" \/ (worker' = "done" /\ failure'))
  <1>1. Elevated /\ cancelled => worker' = "done" /\ failure'
    BY Zenon DEF Elevated
  <1>2. Elevated /\ ~cancelled => worker' = "next"
    BY Zenon DEF Elevated
  <1>3. Elevated => worker = "elevating" /\ trusted'
    BY Zenon DEF Elevated
  <1>4. QED
    BY Zenon, <1>1, <1>2, <1>3

(* What a failure of the worker changes.                                   *)
LEMMA WorkFailsFacts ==
  WorkFails => files' = files
                  \/ (worker = "downloading" /\ files' = files \cup {at})
  <1>1. WorkFails /\ worker = "downloading"
          => files' = files \/ files' = files \cup {at}
    BY Zenon DEF WorkFails
  <1>2. WorkFails /\ worker # "downloading" => files' = files
    BY Zenon DEF WorkFails
  <1>3. QED
    BY Zenon, <1>1, <1>2

(* The loop over the packages begins with the first one.                   *)
LEMMA BeforeLoop ==
  Secured /\ (worker = "trust" \/ worker = "elevating") => at = 1
  BY Zenon DEF Secured

(* There is no worker while setup starts.                                  *)
LEMMA IdleStart == Staffed /\ Start => worker = "none"
  BY Zenon DEF Staffed, Start

(* The invariant holds at the beginning.                                   *)
LEMMA InitInv == Init => IInv
  <1> SUFFICES ASSUME Init PROVE IInv
    OBVIOUS
  <1>1. Flags
    BY Zenon DEF Init, Flags
  <1>2. Ranges
    BY CountAssumption DEF Init, Ranges, Dependencies
  <1>3. Secured
    BY DEF Init, Secured, InLoop, OpensPrepared
  <1>4. Staffed
    BY DEF Init, Staffed, WorkerIsAwaited
  <1>5. Told
    BY DEF Init, Told, CancelTold
  <1>6. Kept
    BY DEF Init, Kept, LeavesOnlyFeed
  <1>7. QED
    BY <1>1, <1>2, <1>3, <1>4, <1>5, <1>6 DEF IInv

(* Flags stay flags, action by action.                                     *)
LEMMA FlagsNext ==
  Flags /\ [Next]_vars => Flags'
  <1> SUFFICES ASSUME Flags, [Next]_vars
               PROVE  Flags'
    OBVIOUS
  <1> USE DEF Flags
  <1>1. CASE Start
    BY Zenon, <1>1 DEF Start, StartWorker, windowVars, machineVars,
        folderVars, workVars, Exit
  <1>2. CASE Work /\ Trust
    BY Zenon, <1>2 DEF Work, Trust, machineVars
  <1>3. CASE Work /\ Elevated
    BY Zenon, <1>3 DEF Work, Elevated
  <1>4. CASE Work /\ NextDependency
    BY Zenon, <1>4 DEF Work, NextDependency, Report, machineVars
  <1>5. CASE Work /\ Download
    BY Zenon, <1>5 DEF Work, Download, machineVars
  <1>6. CASE Work /\ BeginDeployment
    BY Zenon, <1>6 DEF Work, BeginDeployment, Report, machineVars
  <1>7. CASE Work /\ Deploy
    BY Zenon, <1>7 DEF Work, Deploy
  <1>8. CASE Work /\ WorkFails
    BY Zenon, <1>8 DEF Work, WorkFails, machineVars, Working
  <1>9. CASE DialogButton
    BY Zenon, <1>9 DEF DialogButton, workVars, windowVars, machineVars,
        folderVars
  <1>10. CASE DialogDone
    BY Zenon, <1>10 DEF DialogDone, windowVars, machineVars, folderVars
  <1>11. CASE DialogPost
    BY Zenon, <1>11 DEF DialogPost, windowVars, machineVars, folderVars
  <1>12. CASE Join
    BY Zenon, <1>12 DEF Join, workVars, windowVars, machineVars, folderVars,
        Exit
  <1>13. CASE Begin
    BY Zenon, <1>13 DEF Begin, Say, StartWorker, machineVars, folderVars
  <1>14. CASE OnCancel
    BY Zenon, <1>14 DEF OnCancel, Say, workVars, machineVars, folderVars
  <1>15. CASE CloseWindow
    BY Zenon, <1>15 DEF CloseWindow, Say, workVars, machineVars, folderVars,
        Exit
  <1>16. CASE OnProgress
    BY Zenon, <1>16 DEF OnProgress, Say, workVars, machineVars, folderVars
  <1>17. CASE ResumeClosing
    BY Zenon, <1>17 DEF ResumeClosing, Resume, machineVars, Exit
  <1>18. CASE ResumeStopped
    BY Zenon, <1>18 DEF ResumeStopped, Resume, Say, machineVars, folderVars
  <1>19. CASE ResumeUnopened
    BY Zenon, <1>19 DEF ResumeUnopened, Resume, Say, machineVars, folderVars
  <1>20. CASE ResumeOpened
    BY Zenon, <1>20 DEF ResumeOpened, Resume, Say, machineVars, folderVars
  <1>21. CASE UNCHANGED vars
    BY <1>21 DEF vars, workVars, windowVars, machineVars, folderVars
  <1>22. QED
    BY <1>1, <1>2, <1>3, <1>4, <1>5, <1>6, <1>7, <1>8, <1>9, <1>10, <1>11,
       <1>12, <1>13, <1>14, <1>15, <1>16, <1>17, <1>18, <1>19, <1>20, <1>21
       DEF Next, Work, Resumed

(* Ranges, action by action.                                               *)
LEMMA RangesNext ==
  Ranges /\ Secured /\ [Next]_vars => Ranges'
  <1> SUFFICES ASSUME Ranges, Secured, [Next]_vars
               PROVE  Ranges'
    OBVIOUS
  <1> USE CountAssumption DEF Ranges, Dependencies, Working
  <1>1. CASE Start
    <2>1. UNCHANGED <<windowVars, machineVars, cancelled>>
      BY Zenon, <1>1 DEF Start
    <2>2. CASE Exit("failed") /\ UNCHANGED workVars
      BY <2>1, <2>2, ExitFacts DEF workVars, windowVars, machineVars
    <2>3. CASE stage' = "window" /\ UNCHANGED <<code, workVars, folderVars>>
      BY <2>1, <2>3 DEF workVars, windowVars, machineVars, folderVars
    <2>4. CASE /\ stage' = "dialog" /\ StartWorker("next")
               /\ UNCHANGED <<code, done, folderVars>>
      BY <2>1, <2>4 DEF StartWorker, windowVars, machineVars, folderVars
    <2>5. QED
      BY Zenon, <1>1, <2>2, <2>3, <2>4 DEF Start
  <1>2. CASE Work /\ Trust
    BY <1>2 DEF Work, Trust, machineVars
  <1>3. CASE Work /\ Elevated
    BY <1>3 DEF Work, Elevated
  <1>4. CASE Work /\ NextDependency
    BY <1>4 DEF Work, NextDependency, Report, machineVars
  <1>5. CASE Work /\ Download
    <2>1. UNCHANGED <<stage, code, attempts, status, feed, opened>>
      BY <1>5 DEF Work
    <2>2. worker = "downloading" /\ worker' = "checking"
          /\ files' = files \cup {at} /\ UNCHANGED <<at, progress, installed>>
      BY <1>5 DEF Download, machineVars
    <2>3. at \in 1..Count
      BY <2>2 DEF Secured, InLoop
    <2>4. files' \in SUBSET Dependencies
      BY <2>2, <2>3
    <2>5. QED
      BY <2>1, <2>2, <2>4
  <1>6. CASE Work /\ BeginDeployment
    BY <1>6 DEF Work, BeginDeployment, Report, machineVars
  <1>7. CASE Work /\ Deploy
    <2>1. UNCHANGED <<stage, code, attempts, status, feed, opened>>
      BY <1>7 DEF Work
    <2>2. worker = "deploying" /\ worker' = "next" /\ at' = at + 1
          /\ files' = files \ {at} /\ installed' = installed \cup {at}
          /\ UNCHANGED progress
      BY <1>7 DEF Deploy
    <2>3. at \in 1..Count
      BY <2>2 DEF Secured, InLoop
    <2>4. /\ files' \in SUBSET Dependencies
          /\ installed' \in SUBSET Dependencies
      BY <2>2, <2>3
    <2>5. at' \in 1..(Count + 1)
      BY <2>2, <2>3
    <2>6. QED
      BY <2>1, <2>2, <2>4, <2>5
  <1>8. CASE Work /\ WorkFails
    <2>1. UNCHANGED <<stage, code, attempts, status, feed, opened>>
      BY <1>8 DEF Work
    <2>2. worker' = "done" /\ UNCHANGED <<at, progress, installed>>
      BY <1>8 DEF WorkFails, machineVars
    <2>3. \/ files' = files
          \/ worker = "downloading" /\ files' = files \cup {at}
      BY Zenon, <1>8, WorkFailsFacts
    <2>4. worker = "downloading" => at \in 1..Count
      BY DEF Secured, InLoop
    <2>5. files' \in SUBSET Dependencies
      BY <2>3, <2>4
    <2>6. QED
      BY <2>1, <2>2, <2>5
  <1>9. CASE DialogButton
    BY <1>9 DEF DialogButton, workVars, windowVars, machineVars, folderVars
  <1>10. CASE DialogDone
    BY <1>10 DEF DialogDone, windowVars, machineVars, folderVars
  <1>11. CASE DialogPost
    BY <1>11 DEF DialogPost, windowVars, machineVars, folderVars
  <1>12. CASE Join
    BY <1>12, ExitFacts DEF Join, workVars, windowVars, machineVars,
        folderVars
  <1>13. CASE Begin
    BY <1>13 DEF Begin, Say, StartWorker, machineVars, folderVars
  <1>14. CASE OnCancel
    BY <1>14 DEF OnCancel, Say, workVars, machineVars, folderVars
  <1>15. CASE CloseWindow
    BY <1>15, ExitFacts DEF CloseWindow, Say, workVars, machineVars,
        folderVars
  <1>16. CASE OnProgress
    BY <1>16 DEF OnProgress, Say, workVars, machineVars, folderVars
  <1>17. CASE ResumeClosing
    BY <1>17, ExitFacts DEF ResumeClosing, Resume, machineVars
  <1>18. CASE ResumeStopped
    BY <1>18 DEF ResumeStopped, Resume, Say, machineVars, folderVars
  <1>19. CASE ResumeUnopened
    BY <1>19 DEF ResumeUnopened, Resume, Say, machineVars, folderVars
  <1>20. CASE ResumeOpened
    BY <1>20 DEF ResumeOpened, Resume, Say, machineVars, folderVars
  <1>21. CASE UNCHANGED vars
    BY <1>21 DEF vars, workVars, windowVars, machineVars, folderVars
  <1>22. QED
    BY <1>1, <1>2, <1>3, <1>4, <1>5, <1>6, <1>7, <1>8, <1>9, <1>10, <1>11,
       <1>12, <1>13, <1>14, <1>15, <1>16, <1>17, <1>18, <1>19, <1>20, <1>21
       DEF Next, Work, Resumed

(* Nothing that was secured is lost, and only finished work counts.        *)
LEMMA SecuredNext ==
  Ranges /\ Secured /\ Staffed /\ [Next]_vars => Secured'
  <1> SUFFICES ASSUME Ranges, Secured, Staffed, [Next]_vars
               PROVE  Secured'
    OBVIOUS
  <1> USE CountAssumption DEF Secured, Ranges, InLoop, Working, Dependencies,
      OpensPrepared
  <1>1. CASE Start
    <2>1. UNCHANGED <<windowVars, machineVars, cancelled>>
      BY Zenon, <1>1 DEF Start
    <2>2. CASE Exit("failed") /\ UNCHANGED workVars
      BY <2>1, <2>2, ExitFacts DEF workVars, windowVars, machineVars
    <2>3. CASE stage' = "window" /\ UNCHANGED <<code, workVars, folderVars>>
      <3>1. worker = "none"
        BY Zenon, <1>1, IdleStart
      <3>2. QED
        BY <2>1, <2>3, <3>1 DEF workVars, machineVars, folderVars
    <2>4. CASE /\ stage' = "dialog" /\ StartWorker("next")
               /\ UNCHANGED <<code, done, folderVars>>
      BY <2>1, <2>4 DEF StartWorker, windowVars, machineVars, folderVars
    <2>5. QED
      BY Zenon, <1>1, <2>2, <2>3, <2>4 DEF Start
  <1>2. CASE Work /\ Trust
    <2>1. UNCHANGED <<stage, opened, at, failure, trusted, installed>>
      BY <1>2 DEF Work, Trust, machineVars
    <2>2. worker = "trust" /\ at = 1
      BY Zenon, <1>2, TrustFacts, BeforeLoop
    <2>3. CASE worker' = "next" /\ trusted
      BY <2>1, <2>2, <2>3
    <2>4. CASE worker' = "elevating"
      BY <2>1, <2>2, <2>4
    <2>5. QED
      BY Zenon, <1>2, TrustFacts, <2>3, <2>4
  <1>3. CASE Work /\ Elevated
    <2>1. UNCHANGED <<stage, opened, at, installed>>
      BY <1>3 DEF Work, Elevated
    <2>2. worker = "elevating" /\ at = 1 /\ trusted'
      BY Zenon, <1>3, ElevatedFacts, BeforeLoop
    <2>3. CASE worker' = "next"
      BY <2>1, <2>2, <2>3
    <2>4. CASE worker' = "done" /\ failure'
      BY <2>1, <2>2, <2>4
    <2>5. QED
      BY Zenon, <1>3, ElevatedFacts, <2>3, <2>4
  <1>4. CASE Work /\ NextDependency
    BY <1>4 DEF Work, NextDependency, Report, machineVars
  <1>5. CASE Work /\ Download
    BY <1>5 DEF Work, Download, machineVars
  <1>6. CASE Work /\ BeginDeployment
    BY <1>6 DEF Work, BeginDeployment, Report, machineVars
  <1>7. CASE Work /\ Deploy
    BY <1>7 DEF Work, Deploy
  <1>8. CASE Work /\ WorkFails
    BY <1>8 DEF Work, WorkFails, machineVars
  <1>9. CASE DialogButton
    BY <1>9 DEF DialogButton, workVars, windowVars, machineVars, folderVars
  <1>10. CASE DialogDone
    BY <1>10 DEF DialogDone, windowVars, machineVars, folderVars
  <1>11. CASE DialogPost
    BY <1>11 DEF DialogPost, windowVars, machineVars, folderVars
  <1>12. CASE Join
    BY <1>12, ExitFacts DEF Join, workVars, windowVars, machineVars,
        folderVars
  <1>13. CASE Begin
    BY <1>13 DEF Begin, Say, StartWorker, machineVars, folderVars
  <1>14. CASE OnCancel
    BY <1>14 DEF OnCancel, Say, workVars, machineVars, folderVars
  <1>15. CASE CloseWindow
    BY <1>15, ExitFacts DEF CloseWindow, Say, workVars, machineVars,
        folderVars
  <1>16. CASE OnProgress
    BY <1>16 DEF OnProgress, Say, workVars, machineVars, folderVars
  <1>17. CASE ResumeClosing
    BY <1>17, ExitFacts DEF ResumeClosing, Resume, machineVars
  <1>18. CASE ResumeStopped
    BY <1>18 DEF ResumeStopped, Resume, Say, machineVars, folderVars
  <1>19. CASE ResumeUnopened
    BY <1>19 DEF ResumeUnopened, Resume, Say, machineVars, folderVars
  <1>20. CASE ResumeOpened
    BY <1>20 DEF ResumeOpened, Resume, Say, machineVars, folderVars
  <1>21. CASE UNCHANGED vars
    BY <1>21 DEF vars, workVars, windowVars, machineVars, folderVars
  <1>22. QED
    BY <1>1, <1>2, <1>3, <1>4, <1>5, <1>6, <1>7, <1>8, <1>9, <1>10, <1>11,
       <1>12, <1>13, <1>14, <1>15, <1>16, <1>17, <1>18, <1>19, <1>20, <1>21
       DEF Next, Work, Resumed

(* Every stage keeps the worker it waits for.                              *)
LEMMA StaffedNext ==
  Ranges /\ Staffed /\ [Next]_vars => Staffed'
  <1> SUFFICES ASSUME Ranges, Staffed, [Next]_vars
               PROVE  Staffed'
    OBVIOUS
  <1> USE DEF Staffed, InLoop, Working, WorkerIsAwaited
  <1>1. CASE Start
    BY <1>1, ExitFacts DEF Start, StartWorker, windowVars, machineVars,
        folderVars, workVars
  <1>2. CASE Work /\ Trust
    BY <1>2 DEF Work, Trust, machineVars
  <1>3. CASE Work /\ Elevated
    BY <1>3 DEF Work, Elevated
  <1>4. CASE Work /\ NextDependency
    BY <1>4 DEF Work, NextDependency, Report, machineVars
  <1>5. CASE Work /\ Download
    BY <1>5 DEF Work, Download, machineVars
  <1>6. CASE Work /\ BeginDeployment
    BY <1>6 DEF Work, BeginDeployment, Report, machineVars
  <1>7. CASE Work /\ Deploy
    BY <1>7 DEF Work, Deploy
  <1>8. CASE Work /\ WorkFails
    BY <1>8 DEF Work, WorkFails, machineVars
  <1>9. CASE DialogButton
    BY <1>9 DEF DialogButton, workVars, windowVars, machineVars, folderVars
  <1>10. CASE DialogDone
    BY <1>10 DEF DialogDone, windowVars, machineVars, folderVars
  <1>11. CASE DialogPost
    BY <1>11 DEF DialogPost, windowVars, machineVars, folderVars
  <1>12. CASE Join
    BY <1>12, ExitFacts DEF Join, workVars, windowVars, machineVars,
        folderVars
  <1>13. CASE Begin
    BY <1>13 DEF Begin, Say, StartWorker, machineVars, folderVars
  <1>14. CASE OnCancel
    BY <1>14 DEF OnCancel, Say, workVars, machineVars, folderVars
  <1>15. CASE CloseWindow
    BY <1>15, ExitFacts DEF CloseWindow, Say, workVars, machineVars,
        folderVars
  <1>16. CASE OnProgress
    BY <1>16 DEF OnProgress, Say, workVars, machineVars, folderVars
  <1>17. CASE ResumeClosing
    BY <1>17, ExitFacts DEF ResumeClosing, Resume, machineVars
  <1>18. CASE ResumeStopped
    BY <1>18 DEF ResumeStopped, Resume, Say, machineVars, folderVars
  <1>19. CASE ResumeUnopened
    BY <1>19 DEF ResumeUnopened, Resume, Say, machineVars, folderVars
  <1>20. CASE ResumeOpened
    BY <1>20 DEF ResumeOpened, Resume, Say, machineVars, folderVars
  <1>21. CASE UNCHANGED vars
    BY <1>21 DEF vars, workVars, windowVars, machineVars, folderVars
  <1>22. QED
    BY <1>1, <1>2, <1>3, <1>4, <1>5, <1>6, <1>7, <1>8, <1>9, <1>10, <1>11,
       <1>12, <1>13, <1>14, <1>15, <1>16, <1>17, <1>18, <1>19, <1>20, <1>21
       DEF Next, Work, Resumed

(* A cancellation is not forgotten.                                        *)
LEMMA ToldNext ==
  Ranges /\ Staffed /\ Told /\ [Next]_vars => Told'
  <1> SUFFICES ASSUME Ranges, Staffed, Told, [Next]_vars
               PROVE  Told'
    OBVIOUS
  <1> USE DEF Ranges, Staffed, WorkerIsAwaited, Told, CancelTold
  <1>1. CASE Start
    BY <1>1, ExitFacts DEF Start, StartWorker, windowVars, machineVars,
        folderVars, workVars
  <1>2. CASE Work /\ Trust
    BY <1>2 DEF Work, Trust, machineVars
  <1>3. CASE Work /\ Elevated
    BY <1>3 DEF Work, Elevated
  <1>4. CASE Work /\ NextDependency
    BY <1>4 DEF Work, NextDependency, Report, machineVars
  <1>5. CASE Work /\ Download
    BY <1>5 DEF Work, Download, machineVars
  <1>6. CASE Work /\ BeginDeployment
    BY <1>6 DEF Work, BeginDeployment, Report, machineVars
  <1>7. CASE Work /\ Deploy
    BY <1>7 DEF Work, Deploy
  <1>8. CASE Work /\ WorkFails
    BY <1>8 DEF Work, WorkFails, machineVars
  <1>9. CASE DialogButton
    BY <1>9 DEF DialogButton, workVars, windowVars, machineVars, folderVars
  <1>10. CASE DialogDone
    BY <1>10 DEF DialogDone, windowVars, machineVars, folderVars
  <1>11. CASE DialogPost
    BY <1>11 DEF DialogPost, windowVars, machineVars, folderVars
  <1>12. CASE Join
    BY <1>12, ExitFacts DEF Join, workVars, windowVars, machineVars,
        folderVars
  <1>13. CASE Begin
    BY <1>13 DEF Begin, Say, StartWorker, machineVars, folderVars
  <1>14. CASE OnCancel
    BY <1>14 DEF OnCancel, Say, workVars, machineVars, folderVars
  <1>15. CASE CloseWindow
    BY <1>15, ExitFacts DEF CloseWindow, Say, workVars, machineVars,
        folderVars
  <1>16. CASE OnProgress
    BY <1>16 DEF OnProgress, Say, workVars, machineVars, folderVars
  <1>17. CASE ResumeClosing
    BY <1>17, ExitFacts DEF ResumeClosing, Resume, machineVars
  <1>18. CASE ResumeStopped
    BY <1>18 DEF ResumeStopped, Resume, Say, machineVars, folderVars
  <1>19. CASE ResumeUnopened
    BY <1>19 DEF ResumeUnopened, Resume, Say, machineVars, folderVars
  <1>20. CASE ResumeOpened
    BY <1>20 DEF ResumeOpened, Resume, Say, machineVars, folderVars
  <1>21. CASE UNCHANGED vars
    BY <1>21 DEF vars, workVars, windowVars, machineVars, folderVars
  <1>22. QED
    BY <1>1, <1>2, <1>3, <1>4, <1>5, <1>6, <1>7, <1>8, <1>9, <1>10, <1>11,
       <1>12, <1>13, <1>14, <1>15, <1>16, <1>17, <1>18, <1>19, <1>20, <1>21
       DEF Next, Work, Resumed

(* The feed that was opened is the one that stays.                         *)
LEMMA KeptNext ==
  Ranges /\ Staffed /\ Kept /\ [Next]_vars => Kept'
  <1> SUFFICES ASSUME Ranges, Staffed, Kept, [Next]_vars
               PROVE  Kept'
    OBVIOUS
  <1> USE DEF Ranges, Staffed, WorkerIsAwaited, Kept, LeavesOnlyFeed
  <1>1. CASE Start
    BY <1>1, ExitFacts DEF Start, StartWorker, windowVars, machineVars,
        folderVars, workVars
  <1>2. CASE Work /\ Trust
    BY <1>2 DEF Work, Trust, machineVars
  <1>3. CASE Work /\ Elevated
    BY <1>3 DEF Work, Elevated
  <1>4. CASE Work /\ NextDependency
    BY <1>4 DEF Work, NextDependency, Report, machineVars
  <1>5. CASE Work /\ Download
    BY <1>5 DEF Work, Download, machineVars
  <1>6. CASE Work /\ BeginDeployment
    BY <1>6 DEF Work, BeginDeployment, Report, machineVars
  <1>7. CASE Work /\ Deploy
    BY <1>7 DEF Work, Deploy
  <1>8. CASE Work /\ WorkFails
    BY <1>8 DEF Work, WorkFails, machineVars
  <1>9. CASE DialogButton
    BY <1>9 DEF DialogButton, workVars, windowVars, machineVars, folderVars
  <1>10. CASE DialogDone
    BY <1>10 DEF DialogDone, windowVars, machineVars, folderVars
  <1>11. CASE DialogPost
    BY <1>11 DEF DialogPost, windowVars, machineVars, folderVars
  <1>12. CASE Join
    BY <1>12, ExitFacts DEF Join, workVars, windowVars, machineVars,
        folderVars
  <1>13. CASE Begin
    BY <1>13 DEF Begin, Say, StartWorker, machineVars, folderVars
  <1>14. CASE OnCancel
    BY <1>14 DEF OnCancel, Say, workVars, machineVars, folderVars
  <1>15. CASE CloseWindow
    BY <1>15, ExitFacts DEF CloseWindow, Say, workVars, machineVars,
        folderVars
  <1>16. CASE OnProgress
    BY <1>16 DEF OnProgress, Say, workVars, machineVars, folderVars
  <1>17. CASE ResumeClosing
    BY <1>17, ExitFacts DEF ResumeClosing, Resume, machineVars
  <1>18. CASE ResumeStopped
    BY <1>18 DEF ResumeStopped, Resume, Say, machineVars, folderVars
  <1>19. CASE ResumeUnopened
    BY <1>19 DEF ResumeUnopened, Resume, Say, machineVars, folderVars
  <1>20. CASE ResumeOpened
    BY <1>20 DEF ResumeOpened, Resume, Say, machineVars, folderVars
  <1>21. CASE UNCHANGED vars
    BY <1>21 DEF vars, workVars, windowVars, machineVars, folderVars
  <1>22. QED
    BY <1>1, <1>2, <1>3, <1>4, <1>5, <1>6, <1>7, <1>8, <1>9, <1>10, <1>11,
       <1>12, <1>13, <1>14, <1>15, <1>16, <1>17, <1>18, <1>19, <1>20, <1>21
       DEF Next, Work, Resumed

(* The invariant holds always.                                             *)
LEMMA Invariance == Spec => []IInv
  <1>1. IInv /\ [Next]_vars => IInv'
    BY FlagsNext, RangesNext, SecuredNext, StaffedNext, ToldNext, KeptNext
       DEF IInv
  <1>2. QED
    BY InitInv, <1>1, PTL DEF Spec

(* Every variable of setup stays in its range, for any number of packages. *)
THEOREM SetupTypeCorrect == Spec => []TypeOK
  <1>1. IInv => TypeOK
    BY TypeParts DEF IInv
  <1>2. QED
    BY Invariance, <1>1, PTL

(* App Installer is opened only on a machine that is prepared.             *)
THEOREM SetupPreparesFirst == Spec => []OpensPrepared
  <1>1. IInv => OpensPrepared
    BY DEF IInv, Secured
  <1>2. QED
    BY Invariance, <1>1, PTL

(* No window or dialog goes away under a working worker.                   *)
THEOREM SetupAwaitsWorker == Spec => []WorkerIsAwaited
  <1>1. IInv => WorkerIsAwaited
    BY DEF IInv, Staffed
  <1>2. QED
    BY Invariance, <1>1, PTL

(* A cancellation is told as such.                                         *)
THEOREM SetupTellsCancel == Spec => []CancelTold
  <1>1. IInv => CancelTold
    BY DEF IInv, Told
  <1>2. QED
    BY Invariance, <1>1, PTL

(* The process leaves nothing but the feed it opened.                      *)
THEOREM SetupCleansUp == Spec => []LeavesOnlyFeed
  <1>1. IInv => LeavesOnlyFeed
    BY DEF IInv, Kept
  <1>2. QED
    BY Invariance, <1>1, PTL

(* An attempt that was cancelled does not open App Installer.              *)
THEOREM SetupHonoursCancel == Spec => CancelWins
  <1>1. [Next]_vars => [opened' # opened => ~cancelled]_vars
    BY DEF Next, Start, Work, DialogButton, DialogDone, DialogPost, Join,
           Begin, OnCancel, CloseWindow, OnProgress, Resumed, ResumeClosing,
           ResumeStopped, ResumeUnopened, ResumeOpened, Exit, folderVars
  <1>2. QED
    BY <1>1, PTL DEF Spec, CancelWins

(* A feed that was written in part is left by an attempt that failed, so   *)
(* that only a later one can open it.                                      *)
Retried ==
    /\ feed = "partial" => attempts >= 1
    /\ feed = "partial" /\ busy => attempts >= 2
    /\ opened = "partial" => attempts >= 2

(* Each step keeps track of the attempt that left the feed.                *)
LEMMA RetriedNext == IInv /\ Retried /\ [Next]_vars => Retried'
  <1> SUFFICES ASSUME IInv, Retried, [Next]_vars PROVE Retried'
    OBVIOUS
  <1>0. attempts \in Nat /\ (stage = "window" /\ attempts = 0 => ~busy)
    BY CountAssumption DEF IInv, Ranges, Told
  <1> USE <1>0 DEF Retried
  <1>1. CASE Start \/ Work
    BY <1>1 DEF Start, Work, Trust, Elevated, NextDependency, Download,
        BeginDeployment, Deploy, WorkFails, windowVars, folderVars, Exit,
        StartWorker
  <1>2. CASE DialogButton \/ DialogDone \/ DialogPost \/ Join
    BY <1>2 DEF DialogButton, DialogDone, DialogPost, Join, windowVars,
        folderVars, Exit
  <1>3. CASE Begin
    BY <1>3 DEF Begin, folderVars
  <1>4. CASE OnCancel \/ CloseWindow \/ OnProgress
    BY <1>4 DEF OnCancel, CloseWindow, OnProgress, Exit, folderVars
  <1>5. CASE ResumeClosing \/ ResumeStopped
    BY <1>5 DEF ResumeClosing, ResumeStopped, Resume, Exit, folderVars
  <1>6. CASE ResumeUnopened \/ ResumeOpened
    <2>1. busy /\ stage = "window"
      BY <1>6 DEF ResumeUnopened, ResumeOpened, Resume, IInv, Staffed,
          WorkerIsAwaited
    <2>2. attempts >= 1 /\ (feed = "partial" => attempts >= 2)
      BY <2>1
    <2>3. attempts' = attempts /\ ~busy'
      BY <1>6 DEF ResumeUnopened, ResumeOpened, Resume
    <2>4. CASE ResumeUnopened
      BY <2>2, <2>3, <2>4 DEF ResumeUnopened
    <2>5. CASE ResumeOpened
      <3>1. feed' = "partial" => feed = "partial"
        BY <2>5 DEF ResumeOpened
      <3>2. opened' = feed'
        BY <2>5 DEF ResumeOpened
      <3> QED
        BY <2>2, <2>3, <3>1, <3>2
    <2> QED
      BY <1>6, <2>4, <2>5
  <1>7. CASE UNCHANGED vars
    BY <1>7 DEF vars, windowVars, folderVars
  <1> QED
    BY <1>1, <1>2, <1>3, <1>4, <1>5, <1>6, <1>7 DEF Next, Resumed

(* The first attempt opens a whole feed: what a write that failed left     *)
(* behind is opened only after a retry.                                    *)
THEOREM SetupOpensWholeAtFirst == Spec => [](attempts <= 1 => OpensWholeFeed)
  <1>1. Init => Retried
    BY DEF Init, Retried
  <1>2. IInv /\ Retried => (attempts <= 1 => OpensWholeFeed)
    BY CountAssumption DEF IInv, Ranges, Retried, OpensWholeFeed
  <1>3. QED
    BY <1>1, <1>2, RetriedNext, Invariance, PTL DEF Spec
=============================================================================
