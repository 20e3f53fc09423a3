------------------------------- MODULE SelfHeal ------------------------------
(***************************************************************************)
(* SelfHealer: a failed receipt that carries a patch has it applied to the *)
(* working tree, built, and committed or taken back.  Each git call is a   *)
(* child process that is awaited, so that two repairs may interleave; the  *)
(* receipts are handed over as they come and nothing holds them apart.     *)
(*                                                                         *)
(* A patch is a model value, and patches touch different files.  tree,     *)
(* index and head are the patches in the working tree, in the index and in *)
(* the last commit.                                                        *)
(***************************************************************************)
EXTENDS Integers, FiniteSets

CONSTANTS
    Receipts,      \* failed receipts, each with the patch of its own
    Fitting,       \* those whose patch applies to the sources
    MaxAttempts,
    CommitOnGreen

VARIABLES
    tree, index, head,
    at,        \* receipt |-> the call that is awaited, or the outcome
    attempt

vars == <<tree, index, head, at, attempt>>

Goto(r, step) == at' = [at EXCEPT ![r] = step]

\* repairFromReceipt, as far as its first await; without autoApply, and for a
\* receipt that did not fail, it ends there.
Begin(r) ==
    /\ at[r] = "new"
    /\ Goto(r, "branch") \/ Goto(r, "skipped")
    /\ UNCHANGED <<tree, index, head, attempt>>

\* currentBranch; then isBranchAllowed, extractRepairPatch, validateRepairPatch.
Branch(r) ==
    /\ at[r] = "branch"
    /\ Goto(r, "status") \/ Goto(r, "skipped")
    /\ UNCHANGED <<tree, index, head, attempt>>

\* gitStatus: only a clean working tree is patched.
Status(r) ==
    /\ at[r] = "status"
    /\ Goto(r, IF tree # head \/ index # head THEN "skipped" ELSE "check")
    /\ UNCHANGED <<tree, index, head, attempt>>

\* git apply --check, then git apply, which applies all of a patch or nothing.
Applies(r) == r \in Fitting \ tree

Check(r) ==
    /\ at[r] = "check"
    /\ Goto(r, IF Applies(r) THEN "apply" ELSE "failed")
    /\ UNCHANGED <<tree, index, head, attempt>>

Apply(r) ==
    /\ at[r] = "apply"
    /\ IF Applies(r) THEN tree' = tree \cup {r} /\ Goto(r, "test") ELSE tree' = tree /\ Goto(r, "failed")
    /\ UNCHANGED <<index, head, attempt>>

\* testCommand, on whatever the working tree holds then.
Test(r) ==
    /\ at[r] = "test"
    /\ Goto(r, IF CommitOnGreen THEN "add" ELSE "applied") \/ Goto(r, "reverse")
    /\ UNCHANGED <<tree, index, head, attempt>>

\* commitRepair.
Add(r) ==
    /\ at[r] = "add"
    /\ \/ index' = tree /\ Goto(r, "commit")
       \/ index' = index /\ Goto(r, "reverse")
    /\ UNCHANGED <<tree, head, attempt>>

\* With nothing to commit, or a hook that refuses, the commit fails.
Commit(r) ==
    /\ at[r] = "commit"
    /\ \/ index # head /\ head' = index /\ Goto(r, "applied")
       \/ head' = head /\ Goto(r, "reverse")
    /\ UNCHANGED <<tree, index, attempt>>

\* git apply --reverse: the index keeps what was added.
Reverse(r) ==
    /\ at[r] = "reverse"
    /\ IF r \in tree
       THEN /\ tree' = tree \ {r}
            /\ IF attempt[r] = MaxAttempts THEN Goto(r, "reverted") /\ UNCHANGED attempt
               ELSE Goto(r, "check") /\ attempt' = [attempt EXCEPT ![r] = @ + 1]
       ELSE tree' = tree /\ Goto(r, "failed") /\ UNCHANGED attempt
    /\ UNCHANGED <<index, head>>

Init ==
    /\ tree = {} /\ index = {} /\ head = {}
    /\ at = [r \in Receipts |-> "new"]
    /\ attempt = [r \in Receipts |-> 1]

Next == \E r \in Receipts :
    \/ Begin(r)
    \/ Branch(r)
    \/ Status(r)
    \/ Check(r)
    \/ Apply(r)
    \/ Test(r)
    \/ Add(r)
    \/ Commit(r)
    \/ Reverse(r)

Spec == Init /\ [][Next]_vars

-----------------------------------------------------------------------------
(* Properties                                                              *)

\* A repair that reports success has its patch in the history, if repairs are
\* committed, and one that reports anything else has left the working tree as
\* the history has it, whatever other repairs did in between.
OutcomeIsTrue ==
    \A r \in Receipts :
        /\ at[r] = "applied" => r \in tree /\ (CommitOnGreen => r \in head)
        /\ at[r] \in {"skipped", "failed", "reverted"} => r \notin tree
=============================================================================
