------------------------------- MODULE Thanos -------------------------------
(***************************************************************************)
(* The step pipeline (irdb-libs/thanos/thanos.cpp) over the shared IR      *)
(* objects (libIRDB-core/src/IRDB_Objects.cpp) and the database            *)
(* transaction (libIRDB-core/src/pqxxdb.cpp).  Transform steps run one     *)
(* after the other in one process on IR objects kept in memory.  A         *)
(* critical step that fails ends the run; an optional one must leave no    *)
(* trace, so everything is saved before it and thrown away after it.       *)
(*                                                                         *)
(* The IR of a file is represented by the set of steps whose changes it    *)
(* contains.                                                               *)
(***************************************************************************)
EXTENDS Integers, FiniteSets

CONSTANTS NSteps, File, NotLoaded

ASSUME NStepsAssumption == NSteps \in Nat
ASSUME NotLoadedAssumption == \A S \in SUBSET (1 .. NSteps) : NotLoaded # S

VARIABLES optional,    \* which steps are optional
          debug,       \* DEBUG_STEPS is set
          step, pc,
          result,      \* what became of each step
          touched,     \* the files each step changed
          mem,         \* file_IR_map: the fileIR pointer of each file
          registered,  \* variant_map has the variant, file_IR_map its files
          txn, broken, \* the view of the open transaction; an SQL error was raised
          committed    \* what the database would show after a crash

vars == <<optional, debug, step, pc, result, touched, mem, registered,
          txn, broken, committed>>

Step == 1 .. NSteps

Init ==
    /\ optional \in SUBSET Step /\ debug \in BOOLEAN
    /\ step = 1 /\ pc = "next"
    /\ result = [s \in Step |-> "pending"]
    /\ touched = [s \in Step |-> {}]
    /\ mem = [f \in File |-> NotLoaded] /\ registered = FALSE
    /\ txn = [f \in File |-> {}] /\ broken = FALSE
    /\ committed = [f \in File |-> {}]

Loaded == {f \in File : mem[f] # NotLoaded}

(* tidyIR and writeBackFileIR follow the fileIR pointer of every file of   *)
(* the variant, loaded or not.                                             *)
FollowsNull == registered /\ Loaded # File

Exit(code) == pc' = code

(* main's loop: go on unless a critical step returned nonzero.             *)
Advance(code) ==
    IF code = 0 \/ step \in optional
    THEN step' = step + 1 /\ pc' = "next"
    ELSE step' = step /\ Exit("exit1")

-----------------------------------------------------------------------------
(* writeBackAll(): the files in memory one after the other, going on past  *)
(* one that fails.  A failed statement also spoils the transaction.        *)

WriteBackOk ==
    /\ ~ FollowsNull /\ ~ broken
    /\ txn' = [f \in File |-> IF f \in Loaded THEN mem[f] ELSE txn[f]]

WriteBackFails ==
    /\ ~ FollowsNull /\ registered
    /\ \E W \in SUBSET Loaded :
          txn' = [f \in File |-> IF f \in W /\ ~ broken THEN mem[f] ELSE txn[f]]
    /\ broken' \in {broken, TRUE}

(* commit() followed by resetDBInterface(): a new transaction begins.      *)
CommitAndReset == committed' = txn' /\ broken' = FALSE

(* A mistake: the transaction is reset without a commit.                   *)
ResetOnly == txn' = committed /\ broken' = FALSE /\ UNCHANGED committed

-----------------------------------------------------------------------------
(* runPlugin and executeStep up to the step's own code.                    *)

(* dlopen, dlsym or parseArgs fails.                                       *)
StepUnusable ==
    /\ pc = "next" /\ step <= NSteps
    /\ result' = [result EXCEPT ![step] = "unusable"]
    /\ Advance(1)
    /\ UNCHANGED <<optional, debug, touched, mem, registered, txn, broken, committed>>

BeginStep ==
    /\ pc = "next" /\ step <= NSteps
    /\ ~ FollowsNull
    /\ pc' = IF step \in optional THEN "pre" ELSE "exec"
    /\ UNCHANGED <<optional, debug, step, result, touched, mem, registered,
                   txn, broken, committed>>

(* A mistake: what earlier steps did is written but not committed          *)
(* before the transaction is replaced.                                     *)
SaveBefore_NoCommit ==
    /\ pc = "pre"
    /\ ~ FollowsNull /\ ~ broken
    /\ ResetOnly
    /\ pc' = "exec"
    /\ UNCHANGED <<optional, debug, step, result, touched, mem, registered>>

(* Before an optional step: save what the steps before it did.             *)
SaveBefore ==
    /\ pc = "pre"
    /\ WriteBackOk /\ CommitAndReset
    /\ pc' = "exec"
    /\ UNCHANGED <<optional, debug, step, result, touched, mem, registered>>

SaveBeforeFails ==
    /\ pc = "pre"
    /\ WriteBackFails
    /\ result' = [result EXCEPT ![step] = "not_saved_before"]
    /\ Advance(1)
    /\ UNCHANGED <<optional, debug, touched, mem, registered, committed>>

-----------------------------------------------------------------------------
(* The step's code: it adds the variant, loads file IRs that are not in    *)
(* memory, through the transaction, and changes some of them.              *)

Run(L, T) ==
    /\ pc = "exec"
    /\ L \subseteq File \ Loaded /\ T \subseteq Loaded \cup L
    /\ L # {} => ~ broken

(* A file IR is added with its variant.                                    *)
Registers(L) == registered' \in (IF L = {} THEN {registered, TRUE} ELSE {TRUE})

(* A mistake: a file dropped from memory is read back as it was            *)
(* before the first step.                                                  *)
AfterRun_Original(L, T) ==
    [f \in File |-> LET now == IF f \in L THEN {} ELSE mem[f]
                    IN  IF f \in T THEN now \cup {step} ELSE now]

AfterRun(L, T) ==
    [f \in File |-> LET now == IF f \in L THEN txn[f] ELSE mem[f]
                    IN  IF f \in T THEN now \cup {step} ELSE now]

StepSucceeds ==
    /\ \E L, T \in SUBSET File : /\ Run(L, T) /\ Registers(L)
                                 /\ mem' = AfterRun(L, T)
                                 /\ touched' = [touched EXCEPT ![step] = T]
    /\ result' = [result EXCEPT ![step] = "ok"]
    /\ IF step \in optional \/ debug THEN pc' = "post" /\ UNCHANGED step
                                     ELSE Advance(0)
    /\ UNCHANGED <<optional, debug, txn, broken, committed>>

(* A critical step that fails: main returns, nothing is written.           *)
CriticalFails ==
    /\ step \notin optional
    /\ \E L, T \in SUBSET File : Run(L, T) /\ Registers(L) /\ mem' = AfterRun(L, T)
    /\ result' = [result EXCEPT ![step] = "failed"]
    /\ Advance(1)
    /\ UNCHANGED <<optional, debug, touched, txn, broken, committed>>

(* A mistake: the objects in memory survive the failure.                   *)
OptionalFails_KeepsObjects ==
    /\ step \in optional
    /\ \E L, T \in SUBSET File : Run(L, T) /\ Registers(L) /\ mem' = AfterRun(L, T)
    /\ result' = [result EXCEPT ![step] = "failed"]
    /\ pc' = "post"
    /\ UNCHANGED <<optional, debug, step, touched, txn, broken, committed>>

(* An optional step that fails: deleteAll() drops what it did to the       *)
(* objects, and the objects.                                               *)
OptionalFails ==
    /\ step \in optional
    /\ \E L, T \in SUBSET File : Run(L, T) /\ mem' = [f \in File |-> NotLoaded]
    /\ result' = [result EXCEPT ![step] = "failed"]
    /\ registered' = FALSE
    /\ pc' = "post"
    /\ UNCHANGED <<optional, debug, step, touched, txn, broken, committed>>

-----------------------------------------------------------------------------
(* executeStep after the step's own code.                                  *)

SaveAfter ==
    /\ pc = "post"
    /\ WriteBackOk
    /\ IF debug THEN CommitAndReset ELSE UNCHANGED <<broken, committed>>
    /\ Advance(0)
    /\ UNCHANGED <<optional, debug, result, touched, mem, registered>>

(* The write fails: the transaction of an optional step is replaced by a   *)
(* new one.  The objects stay in memory, and step_error is returned.       *)
SaveAfterFails ==
    /\ pc = "post"
    /\ IF step \in optional
       THEN /\ ~ FollowsNull /\ registered
            /\ ResetOnly
            /\ Advance(0)
       ELSE WriteBackFails /\ UNCHANGED committed /\ Advance(1)
    /\ result' = [result EXCEPT ![step] = "not_saved"]
    /\ UNCHANGED <<optional, debug, touched, mem, registered>>

(* A mistake: what could be written is committed.                          *)
SaveChangesFails_Commits ==
    /\ pc = "next" /\ step > NSteps
    /\ WriteBackFails
    /\ committed' = txn'
    /\ Exit("exit1")
    /\ UNCHANGED <<optional, debug, step, result, touched, mem, registered>>

(* saveChanges(), after the last step.                                     *)
SaveChanges ==
    /\ pc = "next" /\ step > NSteps
    /\ WriteBackOk /\ CommitAndReset
    /\ Exit("exit0")
    /\ UNCHANGED <<optional, debug, step, result, touched, mem, registered>>

SaveChangesFails ==
    /\ pc = "next" /\ step > NSteps
    /\ WriteBackFails
    /\ Exit("exit1")
    /\ UNCHANGED <<optional, debug, step, result, touched, mem, registered, committed>>

(* The process dies: killed at any point, by an exception nobody catches   *)
(* (a load through a spoiled transaction, a commit the server refuses), by *)
(* the null pointer of FollowsNull, or because deleteAll goes on from the  *)
(* map element it has erased.  The open transaction is rolled back.        *)
Crash ==
    /\ pc \notin {"exit0", "exit1", "crashed"}
    /\ pc' = "crashed"
    /\ txn' = committed /\ broken' = FALSE
    /\ mem' = [f \in File |-> NotLoaded] /\ registered' = FALSE
    /\ UNCHANGED <<optional, debug, step, result, touched, committed>>

Next == \/ StepUnusable \/ BeginStep \/ SaveBefore \/ SaveBeforeFails
        \/ StepSucceeds \/ CriticalFails \/ OptionalFails
        \/ SaveAfter \/ SaveAfterFails
        \/ SaveChanges \/ SaveChangesFails \/ Crash

Spec == Init /\ [][Next]_vars

-----------------------------------------------------------------------------
Contents == [File -> SUBSET Step]

TypeOK ==
    /\ optional \in SUBSET Step /\ debug \in BOOLEAN
    /\ step \in 1 .. NSteps + 1
    /\ pc \in {"next", "pre", "exec", "post", "exit0", "exit1", "crashed"}
    /\ result \in [Step -> {"pending", "unusable", "ok", "failed",
                            "not_saved_before", "not_saved"}]
    /\ touched \in [Step -> SUBSET File]
    /\ mem \in [File -> (SUBSET Step) \cup {NotLoaded}] /\ registered \in BOOLEAN
    /\ txn \in Contents /\ broken \in BOOLEAN /\ committed \in Contents

(* The steps whose own code succeeded (executeStep has set step_error to   *)
(* 0), saved or not, and what a file looks like after those among the      *)
(* first k.                                                                *)
Applied == {s \in Step : result[s] \in {"ok", "not_saved"}}
After(k) == [f \in File |-> {s \in Applied : s <= k /\ f \in touched[s]}]

(* CommittedIsAPrefix: whatever fails and whenever the process dies, the   *)
(* database shows every file as it was after the same number of steps:     *)
(* never half of a step, never a step without the ones before it, and      *)
(* nothing of a step that failed.  A step whose save failed counts as one  *)
(* that was done: its changes are committed by a later save.               *)
CommittedIsAPrefix == TypeOK /\ \E k \in 0 .. NSteps : committed = After(k)

(* What the running step has, or loads, of a file.                         *)
StartsFrom(f) == IF f \in Loaded THEN mem[f] ELSE txn[f]

(* The steps whose changes could not be saved when they were done.         *)
Unsaved == {s \in Step : result[s] = "not_saved"}

(* LastGoodVersion: a step starts on what the saved steps before it did    *)
(* and on nothing of a step that failed, whether the file is still in      *)
(* memory or is read back from the database: "next step will have to get   *)
(* the last good version from DB".  Of the steps whose save failed it says *)
(* nothing: there the code does not do what its comment says, see below.   *)
LastGoodVersion ==
    pc = "exec" => \A f \in File :
        StartsFrom(f) \ Unsaved = After(step - 1)[f] \ Unsaved

(* UnsavedOutlivesTheReset: a step also starts on what the steps did whose *)
(* save failed.  This is what the code does, not what it means to do: the  *)
(* comment at thanos.cpp:403 is "abort changes by resetting DB interface", *)
(* but the objects stay in memory, and the next save commits the changes.  *)
UnsavedOutlivesTheReset ==
    pc = "exec" => \A f \in File :
        StartsFrom(f) \cap Unsaved = After(step - 1)[f] \cap Unsaved

(* SuccessIsSaved: when the program reports success, the database has      *)
(* every applied step, one whose own save failed included: main ignores    *)
(* that failure, and the last save makes up for it.                        *)
SuccessIsSaved == pc = "exit0" => committed = After(NSteps)

(* SavedIsKept: no later step, failed or not, takes a committed change out *)
(* of the database or commits one again after a reload lost it.            *)
SavedIsKept == [][\A f \in File : committed[f] \subseteq committed'[f]]_vars

=============================================================================
