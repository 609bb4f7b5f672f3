----------------------------- MODULE ThanosProofs -----------------------------
(***************************************************************************)
(* Proofs about Thanos, for any number of steps and files: the database    *)
(* only ever shows a whole number of steps.                                *)
(*                                                                         *)
(* The inductive invariant relates the three copies of a file, in memory,  *)
(* in the open transaction and in the database, to the steps done so far.  *)
(* A file that is in memory is up to date there; one that is not is up to  *)
(* date both in the transaction, from which a step would load it, and in   *)
(* the database, to which the transaction may be reset at any time.        *)
(***************************************************************************)
EXTENDS Thanos, TLAPS

(* The steps whose outcome is known.                                       *)
StepsDone == IF pc = "post" THEN step ELSE step - 1

Running == pc \in {"next", "pre", "exec", "post"}

(* Where the pipeline stands, and that the outcome of a step is open until *)
(* its code has run.                                                       *)
PipelineInv ==
    /\ pc \in {"pre", "exec", "post"} => step <= NSteps
    /\ pc = "pre" => step \in optional
    /\ pc = "post" => result[step] \in {"ok", "failed"}
    /\ pc = "exit0" => step = NSteps + 1
    /\ \A s \in Step : s > step \/ (s = step /\ pc \in {"next", "pre", "exec"})
                          => result[s] = "pending"

(* What is in memory belongs to the variant; deleteAll leaves neither.     *)
ObjectsInv ==
    /\ Loaded # {} => registered
    /\ pc = "post" /\ result[step] = "failed" => ~ registered

UpToDate(f) ==
    IF f \in Loaded THEN mem[f] = After(StepsDone)[f]
    ELSE txn[f] = After(StepsDone)[f] /\ committed[f] = After(StepsDone)[f]

FilesInv == Running => \A f \in File : UpToDate(f)

(* The code of an optional step runs only when all before it is committed. *)
OptionalInv ==
    pc = "exec" /\ step \in optional =>
        txn = After(step - 1) /\ committed = After(step - 1)

DatabaseInv ==
    /\ \E k \in 0 .. step - 1 : committed = After(k)
    /\ SuccessIsSaved

IInv == /\ TypeOK /\ PipelineInv /\ ObjectsInv
        /\ FilesInv /\ OptionalInv /\ DatabaseInv

-----------------------------------------------------------------------------
(* What the files look like after k steps does not depend on what becomes  *)
(* of a later step.                                                        *)
LEMMA AfterEarlier ==
    ASSUME TypeOK, NEW s \in Step, NEW k \in Int, k < s,
           \A t \in Step : t # s => result'[t] = result[t] /\ touched'[t] = touched[t]
    PROVE  After(k)' = After(k)
<1>1. \A t \in Step : t <= k => t # s
  BY DEF Step
<1>2. \A f \in File : {t \in Applied' : t <= k /\ f \in touched'[t]}
                      = {t \in Applied : t <= k /\ f \in touched[t]}
  BY <1>1 DEF Applied
<1>3. QED
  BY <1>2 DEF After

(* Nor, if that step is not applied, do they look different after it.      *)
LEMMA AfterNotApplied ==
    ASSUME TypeOK, NEW s \in Step, s \notin Applied',
           \A t \in Step : t # s => result'[t] = result[t] /\ touched'[t] = touched[t]
    PROVE  After(s)' = After(s - 1)
<1>1. \A t \in Step : t <= s => t <= s - 1 \/ t = s
  BY DEF Step
<1>2. \A t \in Step : t <= s - 1 => t # s /\ t <= s
  BY DEF Step
<1>3. \A f \in File : {t \in Applied' : t <= s /\ f \in touched'[t]}
                      = {t \in Applied : t <= s - 1 /\ f \in touched[t]}
  BY <1>1, <1>2 DEF Applied
<1>4. QED
  BY <1>3 DEF After

(* An applied step adds itself to the files it changed.                    *)
LEMMA AfterApplied ==
    ASSUME TypeOK, NEW s \in Step, s \in Applied', NEW f \in File,
           \A t \in Step : t # s => result'[t] = result[t] /\ touched'[t] = touched[t]
    PROVE  After(s)'[f] = After(s - 1)[f] \cup (IF f \in touched'[s] THEN {s} ELSE {})
<1>1. \A t \in Step : t <= s <=> t <= s - 1 \/ t = s
  BY DEF Step
<1>2. \A t \in Step : t <= s - 1 => t # s
  BY DEF Step
<1>3. {t \in Applied' : t <= s /\ f \in touched'[t]}
      = {t \in Applied : t <= s - 1 /\ f \in touched[t]}
        \cup (IF f \in touched'[s] THEN {s} ELSE {})
  BY <1>1, <1>2 DEF Applied
<1>4. QED
  BY <1>3 DEF After

-----------------------------------------------------------------------------
(* A write-back that works puts all that was done so far into the open     *)
(* transaction: either every file is in memory, or none is.                *)
LEMMA WriteBackIsAll ==
    ASSUME IInv, Running, WriteBackOk
    PROVE  txn' = After(StepsDone)
<1>1. Loaded = File \/ Loaded = {}
  BY DEF WriteBackOk, FollowsNull, IInv, ObjectsInv
<1>2. \A f \in File : UpToDate(f)
  BY DEF IInv, FilesInv
<1>3. \A f \in File : txn'[f] = After(StepsDone)[f]
  BY <1>1, <1>2 DEF WriteBackOk, UpToDate
<1>4. QED
  BY <1>3 DEF WriteBackOk, After

(* A step number stays in range when the range does not shrink.            *)
LEMMA IntervalGrows ==
    ASSUME NEW s \in Int, NEW k \in 0 .. s - 1, NEW n \in {s, s + 1}
    PROVE  k \in 0 .. n - 1
OBVIOUS

(* What becomes of the step at hand does not change what the database      *)
(* shows.                                                                  *)
LEMMA CommittedIsOld ==
    ASSUME IInv, NEW s \in Step, s = step, UNCHANGED committed, step' \in {s, s + 1},
           \A t \in Step : t # s => result'[t] = result[t] /\ touched'[t] = touched[t]
    PROVE  \E k \in 0 .. step' - 1 : committed' = After(k)'
<1>1. PICK k \in 0 .. s - 1 : committed = After(k)
  BY DEF IInv, DatabaseInv
<1>2. s \in Int /\ k \in Int /\ k < s
  BY DEF Step
<1>3. After(k)' = After(k)
  BY <1>2, AfterEarlier DEF IInv
<1>4. k \in 0 .. step' - 1
  BY <1>2, IntervalGrows
<1>5. committed' = After(k)'
  BY <1>1, <1>3
<1>6. QED
  BY <1>4, <1>5

(* A write-back that fails leaves the types alone.                         *)
LEMMA WriteBackFailsType ==
    ASSUME TypeOK, WriteBackFails
    PROVE  txn' \in Contents /\ broken' \in BOOLEAN
<1>1. \A f \in Loaded : mem[f] \in SUBSET Step
  BY DEF TypeOK, Loaded
<1>2. QED
  BY <1>1 DEF TypeOK, WriteBackFails, Contents

LEMMA AfterUnchanged ==
    ASSUME UNCHANGED <<result, touched>>, NEW k
    PROVE  After(k)' = After(k)
BY DEF After, Applied

LEMMA AfterType ==
    ASSUME TypeOK, NEW k PROVE After(k) \in Contents
BY DEF TypeOK, After, Applied, Contents

(* Nor does a move of the pipeline that decides nothing.                   *)
LEMMA CommittedIsSame ==
    ASSUME IInv, UNCHANGED <<committed, result, touched>>, step' \in {step, step + 1}
    PROVE  \E k \in 0 .. step' - 1 : committed' = After(k)'
<1>1. PICK k \in 0 .. step - 1 : committed = After(k)
  BY DEF IInv, DatabaseInv
<1>2. After(k)' = After(k)
  BY AfterUnchanged
<1>3. step \in Int
  BY DEF IInv, TypeOK
<1>4. k \in 0 .. step' - 1
  BY <1>3, IntervalGrows
<1>5. committed' = After(k)'
  BY <1>1, <1>2
<1>6. QED
  BY <1>4, <1>5

-----------------------------------------------------------------------------
(* One lemma for each action: it preserves the invariant.                  *)

LEMMA StepUnusablePreserves == IInv /\ StepUnusable => IInv'
<1> SUFFICES ASSUME IInv, StepUnusable
             PROVE  IInv'
  OBVIOUS
<1>1. PICK s \in Step : s = step
  BY DEF IInv, TypeOK, StepUnusable, Step
<1>2. \A t \in Step : t # s => result'[t] = result[t] /\ touched'[t] = touched[t]
  BY <1>1 DEF IInv, TypeOK, StepUnusable
<1>3. TypeOK'
  BY <1>1, NStepsAssumption DEF IInv, TypeOK, StepUnusable, Advance, Exit, Step
<1>4. PipelineInv'
  BY <1>1, <1>2, NStepsAssumption DEF IInv, TypeOK, PipelineInv, StepUnusable, Advance, Exit, Step
<1>5. ObjectsInv'
  BY DEF IInv, ObjectsInv, StepUnusable, Advance, Exit, Loaded
<1>6. FilesInv'
  <2>1. s \notin Applied'
    BY <1>1 DEF IInv, TypeOK, StepUnusable, Applied
  <2>2. After(s)' = After(s - 1)
    BY <1>1, <1>2, <2>1, AfterNotApplied DEF IInv
  <2>3. CASE pc' = "next"
    <3>1. step' = s + 1
      BY <1>1, <2>3 DEF StepUnusable, Advance, Exit
    <3>2. StepsDone' = s /\ StepsDone = s - 1
      BY <1>1, <2>3, <3>1 DEF StepsDone, StepUnusable, Step
    <3>3. After(StepsDone)' = After(StepsDone)
      BY <2>2, <3>2 DEF After
    <3>4. \A f \in File : UpToDate(f)' <=> UpToDate(f)
      BY <3>3 DEF UpToDate, StepUnusable, Loaded
    <3>5. QED
      BY <3>4 DEF IInv, FilesInv, StepUnusable, Running
  <2>4. CASE pc' # "next"
    BY <2>4 DEF FilesInv, Running, StepUnusable, Advance, Exit
  <2>5. QED
    BY <2>3, <2>4
<1>7. OptionalInv'
  BY DEF OptionalInv, StepUnusable, Advance, Exit
<1>8. DatabaseInv'
  <2>1. step' \in {s, s + 1} /\ pc' # "exit0"
    BY <1>1 DEF StepUnusable, Advance, Exit
  <2>2. \E k \in 0 .. step' - 1 : committed' = After(k)'
    BY <1>1, <1>2, <2>1, CommittedIsOld DEF StepUnusable
  <2>3. QED
    BY <2>1, <2>2 DEF DatabaseInv, SuccessIsSaved
<1>9. QED
  BY <1>3, <1>4, <1>5, <1>6, <1>7, <1>8 DEF IInv

LEMMA BeginStepPreserves == IInv /\ BeginStep => IInv'
<1> SUFFICES ASSUME IInv, BeginStep
             PROVE  IInv'
  OBVIOUS
<1>1. TypeOK'
  BY DEF IInv, TypeOK, BeginStep, Contents
<1>2. PipelineInv'
  BY DEF IInv, TypeOK, PipelineInv, BeginStep
<1>3. ObjectsInv'
  BY DEF IInv, ObjectsInv, BeginStep, Loaded
<1>4. StepsDone' = StepsDone /\ StepsDone = step - 1
  BY DEF StepsDone, BeginStep
<1>5. After(StepsDone)' = After(StepsDone)
  BY <1>4 DEF After, Applied, BeginStep
<1>6. FilesInv'
  BY <1>5 DEF IInv, FilesInv, UpToDate, Running, Loaded, BeginStep
<1>7. OptionalInv'
  BY DEF OptionalInv, BeginStep
<1>8. DatabaseInv'
  BY CommittedIsSame DEF DatabaseInv, SuccessIsSaved, BeginStep
<1>9. QED
  BY <1>1, <1>2, <1>3, <1>6, <1>7, <1>8 DEF IInv

LEMMA SaveBeforePreserves == IInv /\ SaveBefore => IInv'
<1> SUFFICES ASSUME IInv, SaveBefore
             PROVE  IInv'
  OBVIOUS
<1>1. PICK s \in Step : s = step
  BY DEF IInv, TypeOK, PipelineInv, SaveBefore, Step
<1>2. txn' = After(s - 1) /\ committed' = After(s - 1)
  BY <1>1, WriteBackIsAll DEF SaveBefore, Running, StepsDone, CommitAndReset
<1>3. After(s - 1)' = After(s - 1)
  BY AfterUnchanged DEF SaveBefore
<1>4. TypeOK'
  BY <1>2, AfterType DEF IInv, TypeOK, SaveBefore, CommitAndReset
<1>5. PipelineInv'
  BY DEF IInv, TypeOK, PipelineInv, SaveBefore
<1>6. ObjectsInv'
  BY DEF IInv, ObjectsInv, SaveBefore, Loaded
<1>7. FilesInv'
  <2>1. StepsDone' = s - 1 /\ StepsDone = s - 1
    BY <1>1 DEF StepsDone, SaveBefore
  <2>2. After(StepsDone)' = After(s - 1)
    BY <1>3, <2>1 DEF After
  <2>3. ASSUME NEW f \in File PROVE UpToDate(f)'
    <3>1. UpToDate(f)
      BY DEF IInv, FilesInv, SaveBefore, Running
    <3>2. QED
      BY <1>2, <2>1, <2>2, <3>1 DEF UpToDate, SaveBefore, Loaded
  <2>4. QED
    BY <2>3 DEF FilesInv
<1>8. OptionalInv'
  <2>1. step' = s
    BY <1>1 DEF SaveBefore
  <2>2. After(step - 1)' = After(s - 1)
    BY <1>3, <2>1 DEF After
  <2>3. QED
    BY <1>2, <2>2 DEF OptionalInv
<1>9. DatabaseInv'
  <2>1. s - 1 \in 0 .. s - 1 /\ step' = s
    BY <1>1 DEF Step, SaveBefore
  <2>2. \E k \in 0 .. step' - 1 : committed' = After(k)'
    BY <1>2, <1>3, <2>1
  <2>3. QED
    BY <2>2 DEF DatabaseInv, SuccessIsSaved, SaveBefore
<1>10. QED
  BY <1>4, <1>5, <1>6, <1>7, <1>8, <1>9 DEF IInv

LEMMA SaveBeforeFailsPreserves == IInv /\ SaveBeforeFails => IInv'
<1> SUFFICES ASSUME IInv, SaveBeforeFails
             PROVE  IInv'
  OBVIOUS
<1>1. PICK s \in Step : s = step
  BY DEF IInv, TypeOK, PipelineInv, SaveBeforeFails, Step
<1>2. \A t \in Step : t # s => result'[t] = result[t] /\ touched'[t] = touched[t]
  BY <1>1 DEF IInv, TypeOK, SaveBeforeFails
<1>3. step' = s + 1 /\ pc' = "next" /\ s \in optional
  BY <1>1 DEF IInv, PipelineInv, SaveBeforeFails, Advance
<1>4. TypeOK'
  BY <1>1, <1>3, NStepsAssumption, WriteBackFailsType DEF IInv, TypeOK, SaveBeforeFails, Step
<1>5. PipelineInv'
  BY <1>1, <1>2, <1>3, NStepsAssumption DEF IInv, TypeOK, PipelineInv, SaveBeforeFails, Step
<1>6. ObjectsInv'
  BY <1>3 DEF IInv, ObjectsInv, SaveBeforeFails, Loaded
<1>7. FilesInv'
  <2>1. s \notin Applied'
    BY <1>1 DEF IInv, TypeOK, SaveBeforeFails, Applied
  <2>2. After(s)' = After(s - 1)
    BY <1>1, <1>2, <2>1, AfterNotApplied DEF IInv
  <2>3. StepsDone' = s /\ StepsDone = s - 1
    BY <1>1, <1>3 DEF StepsDone, SaveBeforeFails, Step
  <2>4. After(StepsDone)' = After(StepsDone)
    BY <2>2, <2>3 DEF After
  <2>5. ASSUME NEW f \in File PROVE UpToDate(f)'
    <3>1. UpToDate(f)
      BY DEF IInv, FilesInv, SaveBeforeFails, Running
    <3>2. f \notin Loaded => txn'[f] = txn[f]
      BY DEF SaveBeforeFails, WriteBackFails
    <3>3. QED
      BY <2>4, <3>1, <3>2 DEF UpToDate, SaveBeforeFails, Loaded
  <2>6. QED
    BY <2>5 DEF FilesInv
<1>8. OptionalInv'
  BY <1>3 DEF OptionalInv
<1>9. DatabaseInv'
  BY <1>1, <1>2, <1>3, CommittedIsOld DEF DatabaseInv, SuccessIsSaved, SaveBeforeFails
<1>10. QED
  BY <1>4, <1>5, <1>6, <1>7, <1>8, <1>9 DEF IInv

(* What a step's code does to the objects: the files it asked for are now  *)
(* in memory beside those that were, and the variant with them.            *)
LEMMA RunLoads ==
    ASSUME TypeOK, step \in Step, NEW L \in SUBSET File, NEW T \in SUBSET File,
           Run(L, T), Registers(L), mem' = AfterRun(L, T),
           Loaded # {} => registered
    PROVE  /\ mem' \in [File -> (SUBSET Step) \cup {NotLoaded}] /\ registered' \in BOOLEAN
           /\ Loaded' = Loaded \cup L
           /\ Loaded' # {} => registered'
<1>1. \A f \in Loaded \cup L : mem'[f] \in SUBSET Step
  <2>1. \A f \in L : txn[f] \in SUBSET Step
    BY DEF TypeOK, Contents
  <2>2. \A f \in Loaded : mem[f] \in SUBSET Step
    BY DEF TypeOK, Loaded
  <2>3. Loaded \cap L = {}
    BY DEF Run
  <2>4. QED
    BY <2>1, <2>2, <2>3 DEF AfterRun, Loaded
<1>2. \A f \in File \ (Loaded \cup L) : mem'[f] = NotLoaded
  BY DEF AfterRun, Run, Loaded
<1>3. DOMAIN mem' = File /\ mem' = [f \in File |-> mem'[f]]
  BY DEF AfterRun
<1>4. Loaded' = Loaded \cup L
  BY <1>1, <1>2, NotLoadedAssumption DEF Loaded, Step
<1>5. mem' \in [File -> (SUBSET Step) \cup {NotLoaded}]
  BY <1>1, <1>2, <1>3
<1>6. QED
  BY <1>4, <1>5 DEF Registers, TypeOK

LEMMA StepSucceedsPreserves == IInv /\ StepSucceeds => IInv'
<1> SUFFICES ASSUME IInv, StepSucceeds
             PROVE  IInv'
  OBVIOUS
<1>1. pc = "exec"
  BY DEF StepSucceeds, Run
<1>2. PICK s \in Step : s = step
  BY <1>1 DEF IInv, TypeOK, PipelineInv, Step
<1>3. PICK L \in SUBSET File, T \in SUBSET File :
          /\ Run(L, T) /\ Registers(L)
          /\ mem' = AfterRun(L, T) /\ touched' = [touched EXCEPT ![s] = T]
  BY <1>2 DEF StepSucceeds
<1>4. /\ mem' \in [File -> (SUBSET Step) \cup {NotLoaded}] /\ registered' \in BOOLEAN
      /\ Loaded' = Loaded \cup L
      /\ Loaded' # {} => registered'
  BY <1>2, <1>3, RunLoads DEF IInv, ObjectsInv
<1>5. /\ \A t \in Step : t # s => result'[t] = result[t] /\ touched'[t] = touched[t]
      /\ result'[s] = "ok" /\ touched'[s] = T
  BY <1>2, <1>3 DEF IInv, TypeOK, StepSucceeds
<1>6. \/ pc' = "post" /\ step' = s
      \/ pc' = "next" /\ step' = s + 1
  BY <1>2 DEF StepSucceeds, Advance
<1>7. TypeOK'
  <2>1. step' \in 1 .. NSteps + 1
    BY <1>2, <1>6, NStepsAssumption DEF Step
  <2>2. QED
    BY <1>2, <1>3, <1>4, <1>6, <2>1 DEF IInv, TypeOK, StepSucceeds
<1>8. PipelineInv'
  BY <1>1, <1>2, <1>5, <1>6, NStepsAssumption DEF IInv, TypeOK, PipelineInv, Step
<1>9. ObjectsInv'
  BY <1>2, <1>4, <1>5, <1>6 DEF ObjectsInv
<1>10. FilesInv'
  <2>1. StepsDone' = s /\ StepsDone = s - 1
    BY <1>1, <1>2, <1>6 DEF StepsDone, Step
  <2>2. After(StepsDone)' = After(s)'
    BY <2>1 DEF After
  <2>3. s \in Applied'
    BY <1>5 DEF Applied
  <2>4. ASSUME NEW f \in File PROVE UpToDate(f)'
    <3>1. UpToDate(f)
      BY <1>1 DEF IInv, FilesInv, Running
    <3>2. After(s)'[f] = After(s - 1)[f] \cup (IF f \in T THEN {s} ELSE {})
      BY <1>5, <2>3, AfterApplied DEF IInv
    <3>3. CASE f \in Loaded \cup L
      <4>1. (IF f \in L THEN txn[f] ELSE mem[f]) = After(s - 1)[f]
        BY <2>1, <3>1, <3>3, <1>3 DEF UpToDate, Run
      <4>2. mem'[f] = After(s)'[f]
        BY <1>2, <1>3, <3>2, <4>1 DEF AfterRun
      <4>3. QED
        BY <1>4, <2>2, <3>3, <4>2 DEF UpToDate
    <3>4. CASE f \notin Loaded \cup L
      <4>1. f \notin T
        BY <1>3, <3>4 DEF Run
      <4>2. QED
        BY <1>4, <2>1, <2>2, <3>1, <3>2, <3>4, <4>1 DEF UpToDate, StepSucceeds
    <3>5. QED
      BY <3>3, <3>4
  <2>5. QED
    BY <2>4 DEF FilesInv
<1>11. OptionalInv'
  BY <1>6 DEF OptionalInv
<1>12. DatabaseInv'
  <2>1. UNCHANGED committed /\ step' \in {s, s + 1} /\ pc' # "exit0"
    BY <1>6 DEF StepSucceeds
  <2>2. QED
    BY <1>2, <1>5, <2>1, CommittedIsOld DEF DatabaseInv, SuccessIsSaved
<1>13. QED
  BY <1>7, <1>8, <1>9, <1>10, <1>11, <1>12 DEF IInv

LEMMA CriticalFailsPreserves == IInv /\ CriticalFails => IInv'
<1> SUFFICES ASSUME IInv, CriticalFails
             PROVE  IInv'
  OBVIOUS
<1>1. pc = "exec"
  BY DEF CriticalFails, Run
<1>2. PICK s \in Step : s = step
  BY <1>1 DEF IInv, TypeOK, PipelineInv, Step
<1>3. PICK L \in SUBSET File, T \in SUBSET File :
          Run(L, T) /\ Registers(L) /\ mem' = AfterRun(L, T)
  BY DEF CriticalFails
<1>4. /\ mem' \in [File -> (SUBSET Step) \cup {NotLoaded}] /\ registered' \in BOOLEAN
      /\ Loaded' = Loaded \cup L
      /\ Loaded' # {} => registered'
  BY <1>2, <1>3, RunLoads DEF IInv, ObjectsInv
<1>5. /\ \A t \in Step : t # s => result'[t] = result[t] /\ touched'[t] = touched[t]
      /\ step' = s /\ pc' = "exit1"
  BY <1>2 DEF IInv, TypeOK, CriticalFails, Advance, Exit
<1>6. TypeOK'
  BY <1>2, <1>4, <1>5 DEF IInv, TypeOK, CriticalFails
<1>7. PipelineInv'
  BY <1>1, <1>2, <1>5, NStepsAssumption DEF IInv, TypeOK, PipelineInv, Step
<1>8. ObjectsInv' /\ FilesInv' /\ OptionalInv'
  BY <1>4, <1>5 DEF ObjectsInv, FilesInv, Running, OptionalInv
<1>9. DatabaseInv'
  BY <1>2, <1>5, CommittedIsOld DEF DatabaseInv, SuccessIsSaved, CriticalFails
<1>10. QED
  BY <1>6, <1>7, <1>8, <1>9 DEF IInv

LEMMA OptionalFailsPreserves == IInv /\ OptionalFails => IInv'
<1> SUFFICES ASSUME IInv, OptionalFails
             PROVE  IInv'
  OBVIOUS
<1>1. pc = "exec"
  BY DEF OptionalFails, Run
<1>2. PICK s \in Step : s = step
  BY <1>1 DEF IInv, TypeOK, PipelineInv, Step
<1>3. /\ \A t \in Step : t # s => result'[t] = result[t] /\ touched'[t] = touched[t]
      /\ result'[s] = "failed"
  BY <1>2 DEF IInv, TypeOK, OptionalFails
<1>4. mem' = [f \in File |-> NotLoaded] /\ registered' = FALSE /\ Loaded' = {}
  BY DEF OptionalFails, Loaded
<1>5. step' = s /\ pc' = "post"
  BY <1>2 DEF OptionalFails
<1>6. TypeOK'
  BY <1>2, <1>4, <1>5 DEF IInv, TypeOK, OptionalFails
<1>7. PipelineInv'
  BY <1>1, <1>2, <1>3, <1>5, NStepsAssumption DEF IInv, TypeOK, PipelineInv, Step
<1>8. ObjectsInv'
  BY <1>4 DEF ObjectsInv
<1>9. FilesInv'
  <2>1. txn = After(s - 1) /\ committed = After(s - 1)
    BY <1>1, <1>2 DEF IInv, OptionalInv, OptionalFails
  <2>2. s \notin Applied'
    BY <1>3 DEF Applied
  <2>3. After(s)' = After(s - 1)
    BY <1>3, <2>2, AfterNotApplied DEF IInv
  <2>4. After(StepsDone)' = After(s)'
    BY <1>5 DEF StepsDone, After
  <2>5. txn' = After(StepsDone)' /\ committed' = After(StepsDone)'
    BY <2>1, <2>3, <2>4 DEF OptionalFails
  <2>6. QED
    BY <1>4, <2>5 DEF FilesInv, UpToDate
<1>10. OptionalInv'
  BY <1>5 DEF OptionalInv
<1>11. DatabaseInv'
  BY <1>2, <1>3, <1>5, CommittedIsOld DEF DatabaseInv, SuccessIsSaved, OptionalFails
<1>12. QED
  BY <1>6, <1>7, <1>8, <1>9, <1>10, <1>11 DEF IInv

LEMMA SaveAfterPreserves == IInv /\ SaveAfter => IInv'
<1> SUFFICES ASSUME IInv, SaveAfter
             PROVE  IInv'
  OBVIOUS
<1>1. PICK s \in Step : s = step
  BY DEF IInv, TypeOK, PipelineInv, SaveAfter, Step
<1>2. txn' = After(s)
  BY <1>1, WriteBackIsAll DEF SaveAfter, Running, StepsDone
<1>3. committed' \in {committed, After(s)} /\ broken' \in {broken, FALSE}
  BY <1>2 DEF SaveAfter, CommitAndReset
<1>4. After(s)' = After(s)
  BY AfterUnchanged DEF SaveAfter
<1>5. step' = s + 1 /\ pc' = "next"
  BY <1>1 DEF SaveAfter, Advance
<1>6. TypeOK'
  <2>1. After(s) \in Contents
    BY AfterType DEF IInv
  <2>2. step' \in 1 .. NSteps + 1
    BY <1>5, NStepsAssumption DEF Step
  <2>3. QED
    BY <1>2, <1>3, <1>5, <2>1, <2>2 DEF IInv, TypeOK, SaveAfter
<1>7. PipelineInv'
  BY <1>1, <1>5, NStepsAssumption DEF IInv, TypeOK, PipelineInv, SaveAfter, Step
<1>8. ObjectsInv'
  BY <1>5 DEF IInv, ObjectsInv, SaveAfter, Loaded
<1>9. FilesInv'
  <2>1. StepsDone' = s /\ StepsDone = s
    BY <1>1, <1>5 DEF StepsDone, SaveAfter, Step
  <2>2. After(StepsDone)' = After(s)
    BY <1>4, <2>1 DEF After
  <2>3. ASSUME NEW f \in File PROVE UpToDate(f)'
    <3>1. UpToDate(f)
      BY DEF IInv, FilesInv, SaveAfter, Running
    <3>2. QED
      BY <1>2, <1>3, <2>1, <2>2, <3>1 DEF UpToDate, SaveAfter, Loaded
  <2>4. QED
    BY <2>3 DEF FilesInv
<1>10. OptionalInv'
  BY <1>5 DEF OptionalInv
<1>11. DatabaseInv'
  <2>1. CASE committed' = committed
    BY <1>1, <1>5, <2>1, CommittedIsSame DEF DatabaseInv, SuccessIsSaved, SaveAfter
  <2>2. CASE committed' = After(s)
    <3>1. s \in 0 .. step' - 1
      BY <1>5 DEF Step
    <3>2. committed' = After(s)'
      BY <1>4, <2>2
    <3>3. \E k \in 0 .. step' - 1 : committed' = After(k)'
      BY <3>1, <3>2
    <3>4. QED
      BY <1>5, <3>3 DEF DatabaseInv, SuccessIsSaved
  <2>3. QED
    BY <1>3, <2>1, <2>2
<1>12. QED
  BY <1>6, <1>7, <1>8, <1>9, <1>10, <1>11 DEF IInv

LEMMA SaveAfterFailsPreserves == IInv /\ SaveAfterFails => IInv'
<1> SUFFICES ASSUME IInv, SaveAfterFails
             PROVE  IInv'
  OBVIOUS
<1>1. PICK s \in Step : s = step
  BY DEF IInv, TypeOK, PipelineInv, SaveAfterFails, Step
<1>2. /\ \A t \in Step : t # s => result'[t] = result[t] /\ touched'[t] = touched[t]
      /\ result'[s] = "not_saved" /\ committed' = committed
  BY <1>1 DEF IInv, TypeOK, SaveAfterFails, ResetOnly
<1>3. \/ pc' = "next" /\ step' = s + 1 /\ s \in optional /\ ~ FollowsNull /\ registered
      \/ pc' = "exit1" /\ step' = s
  BY <1>1 DEF SaveAfterFails, Advance, Exit
<1>4. TypeOK'
  <2>1. step' \in 1 .. NSteps + 1
    BY <1>1, <1>3, NStepsAssumption DEF Step
  <2>2. txn' \in Contents /\ broken' \in BOOLEAN
    BY WriteBackFailsType DEF IInv, TypeOK, SaveAfterFails, ResetOnly
  <2>3. QED
    BY <1>1, <1>2, <1>3, <2>1, <2>2 DEF IInv, TypeOK, SaveAfterFails
<1>5. PipelineInv'
  BY <1>1, <1>2, <1>3, NStepsAssumption DEF IInv, TypeOK, PipelineInv, SaveAfterFails, Step
<1>6. ObjectsInv'
  BY <1>3 DEF IInv, ObjectsInv, SaveAfterFails, Loaded
<1>7. FilesInv'
  <2>1. CASE pc' = "next"
    <3>1. StepsDone' = s /\ StepsDone = s
      BY <1>1, <1>3, <2>1 DEF StepsDone, SaveAfterFails, Step
    <3>2. result[s] = "ok"
      BY <1>1, <1>3, <2>1 DEF IInv, PipelineInv, ObjectsInv, SaveAfterFails
    <3>3. Applied' = Applied
      BY <1>2, <3>2 DEF Applied
    <3>4. After(StepsDone)' = After(StepsDone)
      BY <3>1, <3>3 DEF After, SaveAfterFails
    <3>5. Loaded = File /\ Loaded' = File
      BY <1>3, <2>1 DEF FollowsNull, SaveAfterFails, Loaded
    <3>6. QED
      BY <3>4, <3>5 DEF IInv, FilesInv, UpToDate, Running, SaveAfterFails
  <2>2. QED
    BY <1>3, <2>1 DEF FilesInv, Running
<1>8. OptionalInv'
  BY <1>3 DEF OptionalInv
<1>9. DatabaseInv'
  <2>1. step' \in {s, s + 1} /\ pc' # "exit0"
    BY <1>3
  <2>2. QED
    BY <1>1, <1>2, <2>1, CommittedIsOld DEF DatabaseInv, SuccessIsSaved
<1>10. QED
  BY <1>4, <1>5, <1>6, <1>7, <1>8, <1>9 DEF IInv

LEMMA SaveChangesPreserves == IInv /\ SaveChanges => IInv'
<1> SUFFICES ASSUME IInv, SaveChanges
             PROVE  IInv'
  OBVIOUS
<1>1. step = NSteps + 1
  BY NStepsAssumption DEF IInv, TypeOK, SaveChanges
<1>2. StepsDone = NSteps
  BY <1>1, NStepsAssumption DEF StepsDone, SaveChanges
<1>3. txn' = After(NSteps) /\ committed' = After(NSteps) /\ broken' = FALSE
  BY <1>2, WriteBackIsAll DEF SaveChanges, Running, CommitAndReset
<1>4. After(NSteps)' = After(NSteps)
  BY AfterUnchanged DEF SaveChanges
<1>5. pc' = "exit0" /\ step' = NSteps + 1
  BY <1>1 DEF SaveChanges, Exit
<1>6. TypeOK'
  BY <1>3, <1>5, AfterType DEF IInv, TypeOK, SaveChanges
<1>7. PipelineInv'
  BY <1>1, <1>5, NStepsAssumption DEF IInv, PipelineInv, SaveChanges
<1>8. ObjectsInv'
  BY <1>5 DEF IInv, ObjectsInv, SaveChanges, Loaded
<1>9. FilesInv' /\ OptionalInv'
  BY <1>5 DEF FilesInv, Running, OptionalInv
<1>10. DatabaseInv'
  <2>1. NSteps \in 0 .. step' - 1
    BY <1>5, NStepsAssumption
  <2>2. committed' = After(NSteps)'
    BY <1>3, <1>4
  <2>3. \E k \in 0 .. step' - 1 : committed' = After(k)'
    BY <2>1, <2>2
  <2>4. QED
    BY <2>2, <2>3 DEF DatabaseInv, SuccessIsSaved
<1>11. QED
  BY <1>6, <1>7, <1>8, <1>9, <1>10 DEF IInv

LEMMA SaveChangesFailsPreserves == IInv /\ SaveChangesFails => IInv'
<1> SUFFICES ASSUME IInv, SaveChangesFails
             PROVE  IInv'
  OBVIOUS
<1>1. TypeOK'
  BY WriteBackFailsType DEF IInv, TypeOK, SaveChangesFails, Exit
<1>2. PipelineInv'
  BY DEF IInv, PipelineInv, SaveChangesFails, Exit
<1>3. ObjectsInv' /\ FilesInv' /\ OptionalInv'
  BY DEF IInv, ObjectsInv, FilesInv, OptionalInv, Running, SaveChangesFails, Exit, Loaded
<1>4. DatabaseInv'
  BY CommittedIsSame DEF DatabaseInv, SuccessIsSaved, SaveChangesFails, Exit
<1>5. QED
  BY <1>1, <1>2, <1>3, <1>4 DEF IInv

LEMMA CrashPreserves == IInv /\ Crash => IInv'
<1> SUFFICES ASSUME IInv, Crash
             PROVE  IInv'
  OBVIOUS
<1>1. TypeOK'
  BY DEF IInv, TypeOK, Crash
<1>2. PipelineInv'
  BY DEF IInv, PipelineInv, Crash
<1>3. ObjectsInv' /\ FilesInv' /\ OptionalInv'
  BY DEF ObjectsInv, FilesInv, OptionalInv, Running, Crash, Loaded
<1>4. DatabaseInv'
  BY CommittedIsSame DEF DatabaseInv, SuccessIsSaved, Crash
<1>5. QED
  BY <1>1, <1>2, <1>3, <1>4 DEF IInv

LEMMA StutterPreserves == IInv /\ UNCHANGED vars => IInv'
<1> SUFFICES ASSUME IInv, UNCHANGED vars
             PROVE  IInv'
  OBVIOUS
<1>1. TypeOK' /\ PipelineInv' /\ ObjectsInv'
  BY DEF IInv, TypeOK, PipelineInv, ObjectsInv, Loaded, vars
<1>2. After(StepsDone)' = After(StepsDone)
  BY DEF After, Applied, StepsDone, vars
<1>3. FilesInv'
  BY <1>2 DEF IInv, FilesInv, UpToDate, Running, Loaded, vars
<1>4. After(step - 1)' = After(step - 1)
  BY DEF After, Applied, vars
<1>5. OptionalInv'
  BY <1>4 DEF IInv, OptionalInv, vars
<1>6. After(NSteps)' = After(NSteps)
  BY AfterUnchanged DEF vars
<1>7. DatabaseInv'
  BY <1>6, CommittedIsSame DEF IInv, DatabaseInv, SuccessIsSaved, vars
<1>8. QED
  BY <1>1, <1>3, <1>5, <1>7 DEF IInv

LEMMA InitIInv == Init => IInv
<1> SUFFICES ASSUME Init
             PROVE  IInv
  OBVIOUS
<1>1. TypeOK /\ PipelineInv
  <2>1. step \in 1 .. NSteps + 1
    BY NStepsAssumption DEF Init
  <2>2. TypeOK
    BY <2>1 DEF Init, TypeOK, Contents
  <2>3. PipelineInv
    BY DEF Init, PipelineInv
  <2>4. QED
    BY <2>2, <2>3
<1>2. Loaded = {}
  BY DEF Init, Loaded
<1>3. ObjectsInv /\ OptionalInv
  BY <1>2 DEF Init, ObjectsInv, OptionalInv
<1>4. Applied = {}
  BY DEF Init, Applied
<1>5. \A k : After(k) = [f \in File |-> {}]
  BY <1>4 DEF After
<1>6. FilesInv
  BY <1>2, <1>5 DEF Init, FilesInv, UpToDate
<1>7. DatabaseInv
  BY <1>5 DEF Init, DatabaseInv, SuccessIsSaved
<1>8. QED
  BY <1>1, <1>3, <1>6, <1>7 DEF IInv

THEOREM Invariance == Spec => []IInv
<1>1. IInv /\ [Next]_vars => IInv'
  BY StepUnusablePreserves, BeginStepPreserves, SaveBeforePreserves,
     SaveBeforeFailsPreserves, StepSucceedsPreserves, CriticalFailsPreserves,
     OptionalFailsPreserves, SaveAfterPreserves, SaveAfterFailsPreserves,
     SaveChangesPreserves, SaveChangesFailsPreserves, CrashPreserves,
     StutterPreserves DEF Next
<1>2. QED
  BY InitIInv, <1>1, PTL DEF Spec

-----------------------------------------------------------------------------
(* Whatever fails and whenever the process dies, the database shows every  *)
(* file as it was after the same number of steps.                          *)
THEOREM OnlyWholeSteps == Spec => []CommittedIsAPrefix
<1>1. IInv => CommittedIsAPrefix
  <2> SUFFICES ASSUME IInv
               PROVE  CommittedIsAPrefix
    OBVIOUS
  <2>1. PICK k \in 0 .. step - 1 : committed = After(k)
    BY DEF IInv, DatabaseInv
  <2>2. k \in 0 .. NSteps
    BY NStepsAssumption DEF IInv, TypeOK
  <2>3. QED
    BY <2>1, <2>2 DEF IInv, CommittedIsAPrefix
<1>2. QED
  BY Invariance, <1>1, PTL

(* A running step has, or loads, exactly what the applied steps before it  *)
(* made of a file.                                                         *)
LEMMA StartIsAfter ==
    ASSUME IInv, pc = "exec", NEW f \in File
    PROVE  StartsFrom(f) = After(step - 1)[f]
<1>1. UpToDate(f) /\ StepsDone = step - 1
  BY DEF IInv, FilesInv, Running, StepsDone
<1>2. QED
  BY <1>1 DEF UpToDate, StartsFrom

(* A step starts on what the saved steps before it did, and on nothing of  *)
(* a step that failed, whether a file is in memory or will be read back    *)
(* from the database.                                                      *)
THEOREM StepsSeeTheLastGoodVersion == Spec => []LastGoodVersion
<1>1. IInv => LastGoodVersion
  BY StartIsAfter DEF LastGoodVersion
<1>2. QED
  BY Invariance, <1>1, PTL

(* A step starts on the changes of every step whose save failed, too: the  *)
(* reset at thanos.cpp:404 does not "abort changes", as the comment above  *)
(* it says.                                                                *)
THEOREM UnsavedStepsAreNotAborted == Spec => []UnsavedOutlivesTheReset
<1>1. IInv => UnsavedOutlivesTheReset
  BY StartIsAfter DEF UnsavedOutlivesTheReset
<1>2. QED
  BY Invariance, <1>1, PTL

(* When thanos exits with success, every applied step is in the database.  *)
THEOREM SuccessMeansSaved == Spec => []SuccessIsSaved
<1>1. IInv => SuccessIsSaved
  BY DEF IInv, DatabaseInv
<1>2. QED
  BY Invariance, <1>1, PTL

(* Nothing committed is ever taken out of the database: what a commit      *)
(* writes has at least the steps that were there.                          *)
THEOREM SavedChangesStay == Spec => SavedIsKept
<1>1. ASSUME IInv, [Next]_vars
      PROVE  \A f \in File : committed[f] \subseteq committed'[f]
  <2>1. CASE committed' = committed
    BY <2>1
  <2>2. CASE Running /\ WriteBackOk /\ committed' = txn'
    <3>1. PICK k \in 0 .. step - 1 : committed = After(k)
      BY <1>1 DEF IInv, DatabaseInv
    <3>2. committed' = After(StepsDone)
      BY <1>1, <2>2, WriteBackIsAll
    <3>3. step \in Int /\ k \in Int /\ k <= StepsDone /\ StepsDone \in Int
      BY <1>1, <3>1 DEF IInv, TypeOK, StepsDone
    <3>4. \A s \in Step : s <= k => s <= StepsDone
      BY <3>3 DEF Step
    <3>5. QED
      BY <3>1, <3>2, <3>4 DEF After, Applied
  <2>3. QED
    BY <1>1, <2>1, <2>2
       DEF Next, vars, Running, CommitAndReset, ResetOnly, StepUnusable, BeginStep,
           SaveBefore, SaveBeforeFails, StepSucceeds, CriticalFails, OptionalFails,
           SaveAfter, SaveAfterFails, SaveChanges, SaveChangesFails, Crash
<1>2. IInv /\ [Next]_vars => [\A f \in File : committed[f] \subseteq committed'[f]]_vars
  BY <1>1
<1>3. QED
  BY Invariance, <1>2, PTL DEF SavedIsKept, Spec

=============================================================================
