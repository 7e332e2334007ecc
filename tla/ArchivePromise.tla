---------------------------- MODULE ArchivePromise ---------------------------
(***************************************************************************)
(* What a caller of compress and extract may rely on, with nothing of how  *)
(* it is done: entries appear under names that were free, only a job that  *)
(* is still running takes its own entries back, success comes with output, *)
(* failure comes with none.                                                *)
(***************************************************************************)
CONSTANTS Jobs, Names, Entries, Absent

VARIABLES
    entries,   \* what each name of the destination folder holds
    outcome    \* "pending", "running", "succeeded", "failed", "crashed"

OwnedBy(j) == {n \in Names : entries[n] # Absent /\ entries[n].by = j}

Init ==
    /\ entries \in [Names -> Entries]
    /\ \A j \in Jobs : OwnedBy(j) = {}
    /\ outcome = [j \in Jobs |-> "pending"]

Begin(j) ==
    /\ outcome[j] = "pending"
    /\ outcome' = [outcome EXCEPT ![j] = "running"]
    /\ UNCHANGED entries

Publish(j) ==
    /\ outcome[j] = "running"
    /\ \E n \in Names, e \in Entries :
          /\ entries[n] = Absent /\ e # Absent /\ e.by = j
          /\ entries' = [entries EXCEPT ![n] = e]
    /\ UNCHANGED outcome

Withdraw(j) ==
    /\ outcome[j] = "running"
    /\ \E n \in OwnedBy(j) : entries' = [entries EXCEPT ![n] = Absent]
    /\ UNCHANGED outcome

Succeed(j) ==
    /\ outcome[j] = "running" /\ OwnedBy(j) # {}
    /\ outcome' = [outcome EXCEPT ![j] = "succeeded"]
    /\ UNCHANGED entries

Fail(j) ==
    /\ outcome[j] \in {"pending", "running"} /\ OwnedBy(j) = {}
    /\ outcome' = [outcome EXCEPT ![j] = "failed"]
    /\ UNCHANGED entries

Crash(j) ==
    /\ outcome[j] = "running"
    /\ outcome' = [outcome EXCEPT ![j] = "crashed"]
    /\ UNCHANGED entries

Next ==
    \E j \in Jobs : Begin(j) \/ Publish(j) \/ Withdraw(j) \/ Succeed(j)
                    \/ Fail(j) \/ Crash(j)

Spec == Init /\ [][Next]_<<entries, outcome>>
=============================================================================
