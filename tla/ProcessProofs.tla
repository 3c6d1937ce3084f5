----------------------------- MODULE ProcessProofs -----------------------------
(***************************************************************************)
(* Proofs about what the processes of the backend share: the rows of       *)
(* sagas, the queue of the worker pools, and the digital twins that        *)
(* requests and the synchronisation loop write.  They hold for any number  *)
(* of processes, sagas, steps, pools, tasks and agents, and of crashes,    *)
(* failures and writes that are lost.                                      *)
(***************************************************************************)
EXTENDS Saga, WorkerPool, Twins, Recursion, FiniteSetTheorems, SequenceTheorems, TLAPS

(***************************************************************************)
(* Sagas.                                                                  *)
(***************************************************************************)

Instance ==
  [state : SagaState, current_step : Nat, completed_steps : Seq(Nat), failed_step : Nat]
TaskRecord ==
  [pc : {"idle", "insert", "begin", "step", "push", "complete", "remove", "compensate", "undo",
         "fail", "stuck", "over"},
   inst : Instance, todo : Seq(Nat), tries : Nat]

SagaTypeOK ==
  /\ row \in [SagaId -> Instance]
  /\ task \in [Tasks -> TaskRecord]
  /\ executed \in [SagaId -> SUBSET Step]
  /\ undone \in [SagaId -> SUBSET Step] /\ failedUndo \in [SagaId -> SUBSET Step]

Done(inst) == 1 .. Len(inst.completed_steps)

\* Steps that need no compensation any more: theirs was called, or has no handler.
Treated(s) == undone[s] \union failedUndo[s] \union (Step \ Undoable)

\* What holds of every copy of an instance, in a row or in a task, of whatever age.
InstanceHolds(s, inst) ==
  /\ \A i \in Done(inst) : inst.completed_steps[i] = i
  /\ Done(inst) \subseteq executed[s]
  /\ inst.state = "Completed" => executed[s] = Step
  /\ inst.state \in {"Aborted", "Failed"} => Done(inst) \subseteq Treated(s)

\* What holds of a task at each of its steps: those that go forward have a step
\* left, and those that compensate have, treated or to do, all that was completed.
TaskHolds(t, x) ==
  /\ InstanceHolds(t[2], x.inst)
  /\ (x.pc \in {"begin", "step", "push"} \/ (x.pc = "insert" /\ t[3] = "run")) =>
       Len(x.inst.completed_steps) < NumSteps /\ x.inst.state \in {"Pending", "InProgress"}
  /\ x.pc = "push" => NextStep(x.inst) \in executed[t[2]]
  /\ x.pc = "complete" => Len(x.inst.completed_steps) = NumSteps
  /\ x.pc = "undo" => /\ ToSet(x.todo) \subseteq executed[t[2]]
                      /\ Done(x.inst) \subseteq Treated(t[2]) \union ToSet(x.todo)
  /\ x.pc = "fail" => Done(x.inst) \subseteq Treated(t[2])

SagaInv ==
  /\ SagaTypeOK
  /\ \A s \in SagaId : undone[s] \union failedUndo[s] \subseteq executed[s] /\ InstanceHolds(s, row[s])
  /\ \A t \in Tasks : TaskHolds(t, task[t])

\* What was done in the world stays done.
EffectsGrow ==
  \A s \in SagaId :
    /\ executed[s] \subseteq executed'[s]
    /\ undone[s] \subseteq undone'[s] /\ failedUndo[s] \subseteq failedUndo'[s]

LEMMA TasksShape ==
  ASSUME NEW t \in Tasks
  PROVE  t[1] \in Process /\ t[2] \in SagaId /\ t[3] \in {"run", "recover"}
BY DEF Tasks

LEMMA InstanceStays ==
  ASSUME SagaTypeOK, SagaTypeOK', EffectsGrow, NEW s \in SagaId, NEW inst,
         InstanceHolds(s, inst)
  PROVE  InstanceHolds(s, inst)'
<1>1. inst.state = "Completed" => executed'[s] = Step
  BY DEF InstanceHolds, SagaTypeOK, EffectsGrow
<1>2. Treated(s) \subseteq Treated(s)'
  BY DEF EffectsGrow, Treated
<1> QED
  BY <1>1, <1>2 DEF InstanceHolds, EffectsGrow, Done

LEMMA TaskStays ==
  ASSUME SagaTypeOK, SagaTypeOK', EffectsGrow, NEW t \in Tasks, NEW x, TaskHolds(t, x)
  PROVE  TaskHolds(t, x)'
<1>1. t[2] \in SagaId
  BY TasksShape
<1>2. InstanceHolds(t[2], x.inst)'
  BY <1>1, InstanceStays DEF TaskHolds
<1>3. executed[t[2]] \subseteq executed'[t[2]] /\ Treated(t[2]) \subseteq Treated(t[2])'
  BY <1>1 DEF EffectsGrow, Treated
<1> QED
  BY <1>2, <1>3 DEF TaskHolds, Done, NextStep

\* A step of one task, which may write its instance to the row of its saga.
LEMMA TaskMoves ==
  ASSUME SagaInv, EffectsGrow, NEW t \in Tasks, NEW x \in TaskRecord,
         task' = [task EXCEPT ![t] = x],
         row' = row \/ row' = [row EXCEPT ![t[2]] = x.inst],
         executed' \in [SagaId -> SUBSET Step],
         undone' \in [SagaId -> SUBSET Step], failedUndo' \in [SagaId -> SUBSET Step],
         \A s \in SagaId : undone'[s] \union failedUndo'[s] \subseteq executed'[s],
         TaskHolds(t, x)'
  PROVE  SagaInv'
<1>1. t[2] \in SagaId /\ x.inst \in Instance
  BY TasksShape DEF TaskRecord
<1>2. SagaTypeOK'
  BY <1>1 DEF SagaInv, SagaTypeOK
<1>3. ASSUME NEW s \in SagaId PROVE InstanceHolds(s, row[s])'
  <2>1. PICK old, new : old = row[s] /\ new = row'[s]
    OBVIOUS
  <2>2. new = old \/ (new = x.inst /\ s = t[2])
    BY <1>1, <2>1 DEF SagaInv, SagaTypeOK
  <2>3. InstanceHolds(s, old)'
    BY <1>2, <2>1, InstanceStays DEF SagaInv
  <2>4. InstanceHolds(s, new)'
    BY <2>2, <2>3 DEF TaskHolds
  <2> QED
    BY <2>1, <2>4 DEF InstanceHolds, Done
<1>4. ASSUME NEW y \in Tasks PROVE TaskHolds(y, task[y])'
  <2>1. PICK old, new : old = task[y] /\ new = task'[y]
    OBVIOUS
  <2>2. new = IF y = t THEN x ELSE old
    BY <2>1 DEF SagaInv, SagaTypeOK
  <2>3. TaskHolds(y, old)'
    BY <1>2, <2>1, TaskStays DEF SagaInv
  <2>4. TaskHolds(y, new)'
    BY <2>2, <2>3
  <2> QED
    BY <2>1, <2>4 DEF TaskHolds, InstanceHolds, Done, NextStep
<1> QED
  BY <1>2, <1>3, <1>4 DEF SagaInv

\* The same, where nothing happens in the world.
LEMMA TaskWrites ==
  ASSUME SagaInv, UNCHANGED effects, NEW t \in Tasks, NEW x \in TaskRecord,
         task' = [task EXCEPT ![t] = x],
         row' = row \/ row' = [row EXCEPT ![t[2]] = x.inst],
         TaskHolds(t, x)
  PROVE  SagaInv'
<1>1. EffectsGrow
  BY DEF EffectsGrow, effects
<1>2. TaskHolds(t, x)'
  BY DEF TaskHolds, InstanceHolds, Done, NextStep, Treated, effects
<1> QED
  BY <1>1, <1>2, TaskMoves DEF effects, SagaInv, SagaTypeOK

LEMMA TaskShape ==
  ASSUME SagaInv, NEW t \in Tasks
  PROVE  /\ task[t] \in TaskRecord /\ task[t].inst \in Instance
         /\ TaskHolds(t, task[t])
BY DEF SagaInv, SagaTypeOK, TaskRecord

AfterInsert ==
  {"begin", "step", "push", "complete", "remove", "compensate", "undo", "fail", "stuck", "over"}

\* What Write and GoTo make of a task's record.
LEMMA WriteSets ==
  ASSUME SagaInv, NEW t \in Tasks, NEW inst \in Instance, NEW pc \in AfterInsert, Write(t, inst, pc)
  PROVE  /\ \E x \in TaskRecord : /\ task' = [task EXCEPT ![t] = x]
                                  /\ x.inst = inst /\ x.pc = pc /\ x.todo = task[t].todo
         /\ row' = row \/ row' = [row EXCEPT ![t[2]] = inst]
<1>1. task[t] \in TaskRecord
  BY TaskShape
<1>2. PICK x : x = [task[t] EXCEPT !.inst = inst, !.pc = pc]
  OBVIOUS
<1>3. x \in TaskRecord /\ x.inst = inst /\ x.pc = pc /\ x.todo = task[t].todo
  BY <1>1, <1>2 DEF TaskRecord, AfterInsert
<1>4. task' = [task EXCEPT ![t] = x]
  BY <1>2 DEF Write, SagaInv, SagaTypeOK
<1>5. row' = row \/ row' = [row EXCEPT ![t[2]] = inst]
  BY DEF Write, Persist
<1> QED
  BY <1>3, <1>4, <1>5

LEMMA GoToSets ==
  ASSUME SagaInv, NEW t \in Tasks, NEW pc \in AfterInsert, GoTo(t, pc)
  PROVE  \E x \in TaskRecord : /\ task' = [task EXCEPT ![t] = x]
                               /\ x.inst = task[t].inst /\ x.pc = pc /\ x.todo = task[t].todo
<1>1. task[t] \in TaskRecord
  BY TaskShape
<1>2. PICK x : x = [task[t] EXCEPT !.pc = pc]
  OBVIOUS
<1>3. x \in TaskRecord /\ x.inst = task[t].inst /\ x.pc = pc /\ x.todo = task[t].todo
  BY <1>1, <1>2 DEF TaskRecord, AfterInsert
<1>4. task' = [task EXCEPT ![t] = x]
  BY <1>2 DEF GoTo
<1> QED
  BY <1>3, <1>4

\* A task writes its instance with another state, and goes on.
LEMMA StateWrites ==
  ASSUME SagaInv, NEW t \in Tasks, NEW inst \in Instance,
         NEW pc \in AfterInsert, Write(t, inst, pc), UNCHANGED effects,
         \A x \in TaskRecord : x.inst = inst /\ x.pc = pc /\ x.todo = task[t].todo => TaskHolds(t, x)
  PROVE  SagaInv'
<1>1. /\ \E x \in TaskRecord : /\ task' = [task EXCEPT ![t] = x]
                               /\ x.inst = inst /\ x.pc = pc /\ x.todo = task[t].todo
      /\ row' = row \/ row' = [row EXCEPT ![t[2]] = inst]
  BY WriteSets
<1>2. PICK x \in TaskRecord : /\ task' = [task EXCEPT ![t] = x]
                              /\ x.inst = inst /\ x.pc = pc /\ x.todo = task[t].todo
  BY <1>1
<1>3. TaskHolds(t, x)
  BY <1>2
<1> QED
  BY <1>1, <1>2, <1>3, TaskWrites

LEMMA InsertKeeps ==
  ASSUME SagaInv, NEW t \in Tasks, Insert(t)
  PROVE  SagaInv'
<1>1. PICK pc : pc = IF t[3] = "run" THEN "begin" ELSE "compensate"
  OBVIOUS
<1>2. pc \in AfterInsert /\ GoTo(t, pc)
  BY <1>1 DEF Insert, AfterInsert
<1>3. PICK x \in TaskRecord : /\ task' = [task EXCEPT ![t] = x]
                              /\ x.inst = task[t].inst /\ x.pc = pc
  BY <1>2, GoToSets
<1>4. TaskHolds(t, x)
  BY <1>1, <1>3, TaskShape DEF TaskHolds, Insert, At
<1> QED
  BY <1>3, <1>4, TaskWrites DEF Insert

LEMMA BeginKeeps ==
  ASSUME SagaInv, NEW t \in Tasks, Begin(t)
  PROVE  SagaInv'
<1>1. PICK old, inst : old = task[t].inst /\ inst = [old EXCEPT !.state = "InProgress"]
  OBVIOUS
<1>2. /\ inst \in Instance /\ inst.state = "InProgress"
      /\ inst.completed_steps = old.completed_steps
  BY <1>1, TaskShape DEF Instance, SagaState
<1>3. ASSUME NEW x \in TaskRecord, x.inst = inst, x.pc = "step"
      PROVE  TaskHolds(t, x)
  BY <1>1, <1>2, <1>3, TaskShape DEF TaskHolds, InstanceHolds, Done, Begin, At
<1>4. "step" \in AfterInsert /\ Write(t, inst, "step") /\ UNCHANGED effects
  BY <1>1 DEF Begin, AfterInsert
<1> QED
  BY <1>2, <1>3, <1>4, StateWrites

LEMMA ExecuteStepKeeps ==
  ASSUME SagaInv, NEW t \in Tasks, ExecuteStep(t)
  PROVE  SagaInv'
<1>1. PICK inst \in Instance : inst = task[t].inst
  BY TaskShape
<1>2. PICK x \in TaskRecord : /\ task' = [task EXCEPT ![t] = x]
                              /\ x.inst = inst /\ x.pc = "push"
  <2>1. "push" \in AfterInsert /\ Write(t, inst, "push")
    BY <1>1 DEF ExecuteStep, AfterInsert
  <2> QED
    BY <2>1, WriteSets
<1>3. /\ TaskHolds(t, task[t]) /\ task[t].pc = "step" /\ t[2] \in SagaId
  BY TaskShape, TasksShape DEF ExecuteStep, At
<1>4. /\ Len(inst.completed_steps) < NumSteps /\ inst.state \in {"Pending", "InProgress"}
      /\ InstanceHolds(t[2], inst)
  BY <1>1, <1>3 DEF TaskHolds
<1>5. PICK k : k = NextStep(inst)
  OBVIOUS
<1>6. k \in Step
  <2>1. Len(inst.completed_steps) \in Nat
    BY DEF Instance
  <2> QED
    BY <1>4, <1>5, <2>1, SagaAssumption DEF NextStep, Step
<1>7. /\ executed' = [executed EXCEPT ![t[2]] = executed[t[2]] \union {k}]
      /\ undone' = undone /\ failedUndo' = failedUndo
      /\ row' = row \/ row' = [row EXCEPT ![t[2]] = inst]
  BY <1>1, <1>5 DEF ExecuteStep, Write, Persist
<1>8. /\ executed' \in [SagaId -> SUBSET Step]
      /\ undone' \in [SagaId -> SUBSET Step] /\ failedUndo' \in [SagaId -> SUBSET Step]
      /\ \A s \in SagaId : executed'[s] = IF s = t[2] THEN executed[s] \union {k} ELSE executed[s]
  BY <1>3, <1>6, <1>7 DEF SagaInv, SagaTypeOK
<1>9. EffectsGrow /\ \A s \in SagaId : undone'[s] \union failedUndo'[s] \subseteq executed'[s]
  BY <1>7, <1>8 DEF EffectsGrow, SagaInv
<1>10. TaskHolds(t, x)'
  <2>1. InstanceHolds(t[2], inst)'
    BY <1>3, <1>4, <1>7, <1>8 DEF InstanceHolds, Done, Treated
  <2>2. NextStep(inst) \in executed'[t[2]]
    BY <1>3, <1>5, <1>8
  <2> QED
    BY <1>2, <1>4, <2>1, <2>2 DEF TaskHolds
<1> QED
  BY <1>2, <1>7, <1>8, <1>9, <1>10, TaskMoves

LEMMA FailAttemptKeeps ==
  ASSUME SagaInv, NEW t \in Tasks, FailAttempt(t)
  PROVE  SagaInv'
<1>1. PICK pc, x : /\ pc = IF NoAttemptsLeft(task[t].tries + 1) THEN "compensate" ELSE task[t].pc
                   /\ x = [task[t] EXCEPT !.tries = task[t].tries + 1, !.pc = pc]
  OBVIOUS
<1>2. x \in TaskRecord /\ x.inst = task[t].inst /\ x.pc = pc /\ x.todo = task[t].todo
  <2>1. /\ task[t] \in TaskRecord /\ task[t].tries + 1 \in Nat
        /\ pc \in {"compensate", "step"}
    BY <1>1, TaskShape DEF TaskRecord, FailAttempt, At
  <2> QED
    BY <1>1, <2>1 DEF TaskRecord
<1>3. task' = [task EXCEPT ![t] = x]
  BY <1>1 DEF FailAttempt, SagaInv, SagaTypeOK
<1>4. TaskHolds(t, x)
  BY <1>1, <1>2, TaskShape DEF TaskHolds, FailAttempt, At
<1> QED
  BY <1>2, <1>3, <1>4, TaskWrites DEF FailAttempt

\* The step that was executed joins the completed ones.
LEMMA Pushed ==
  ASSUME NEW cs \in Seq(Nat), NEW k, k = Len(cs) + 1, \A i \in 1 .. Len(cs) : cs[i] = i,
         NEW new, new = Append(cs, k)
  PROVE  /\ k \in Nat /\ new \in Seq(Nat) /\ Len(new) = k
         /\ 1 .. k = (1 .. Len(cs)) \union {k}
         /\ \A i \in 1 .. k : new[i] = i
OBVIOUS

LEMMA CompleteStepKeeps ==
  ASSUME SagaInv, NEW t \in Tasks, CompleteStep(t)
  PROVE  SagaInv'
<1>1. PICK inst, k : inst \in Instance /\ inst = task[t].inst /\ k = NextStep(inst)
  BY TaskShape
<1>2. PICK cs, new, pushed :
         /\ cs = inst.completed_steps /\ new = Append(cs, k)
         /\ pushed = [inst EXCEPT !.completed_steps = new, !.current_step = k]
  OBVIOUS
<1>3. /\ TaskHolds(t, task[t]) /\ task[t].pc = "push"
  BY TaskShape DEF CompleteStep, At
<1>4. /\ Len(inst.completed_steps) < NumSteps /\ inst.state \in {"Pending", "InProgress"}
      /\ InstanceHolds(t[2], inst) /\ k \in executed[t[2]]
  BY <1>1, <1>3 DEF TaskHolds
<1>5. /\ pushed \in Instance /\ pushed.state = inst.state
      /\ Len(pushed.completed_steps) = k
      /\ Done(pushed) = Done(inst) \union {k}
      /\ \A i \in Done(pushed) : pushed.completed_steps[i] = i
  <2>1. /\ cs \in Seq(Nat) /\ k = Len(cs) + 1
        /\ \A i \in 1 .. Len(cs) : cs[i] = i
    BY <1>1, <1>2, <1>4 DEF InstanceHolds, Done, NextStep, Instance
  <2>2. /\ k \in Nat /\ new \in Seq(Nat) /\ Len(new) = k
        /\ 1 .. k = (1 .. Len(cs)) \union {k}
        /\ \A i \in 1 .. k : new[i] = i
    BY <1>2, <2>1, Pushed
  <2>3. /\ pushed \in Instance /\ pushed.state = inst.state
        /\ pushed.completed_steps = new
    BY <1>1, <1>2, <2>2 DEF Instance
  <2> QED
    BY <1>2, <2>2, <2>3 DEF Done
<1>6. PICK pc, x : /\ pc = IF k = NumSteps THEN "complete" ELSE "step"
                   /\ x = [task[t] EXCEPT !.inst = pushed, !.tries = 0, !.pc = pc]
  OBVIOUS
<1>7. x \in TaskRecord /\ x.inst = pushed /\ x.pc = pc
  BY <1>5, <1>6, TaskShape DEF TaskRecord
<1>8. task' = [task EXCEPT ![t] = x] /\ (row' = row \/ row' = [row EXCEPT ![t[2]] = x.inst])
  BY <1>1, <1>2, <1>6, <1>7 DEF CompleteStep, Persist, SagaInv, SagaTypeOK
<1>9. TaskHolds(t, x)
  <2>1. InstanceHolds(t[2], pushed)
    BY <1>4, <1>5 DEF InstanceHolds
  <2>2. k # NumSteps => k < NumSteps
    <3>1. Len(inst.completed_steps) \in Nat
      BY <1>1 DEF Instance
    <3> QED
      BY <1>1, <1>4, <3>1, SagaAssumption DEF NextStep
  <2> QED
    BY <1>4, <1>5, <1>6, <1>7, <2>1, <2>2 DEF TaskHolds
<1> QED
  BY <1>7, <1>8, <1>9, TaskWrites DEF CompleteStep

LEMMA CompleteSagaKeeps ==
  ASSUME SagaInv, NEW t \in Tasks, CompleteSaga(t)
  PROVE  SagaInv'
<1>1. PICK old, inst : old = task[t].inst /\ inst = [old EXCEPT !.state = "Completed", !.current_step = 0]
  OBVIOUS
<1>2. /\ inst \in Instance /\ inst.state = "Completed"
      /\ inst.completed_steps = old.completed_steps
  BY <1>1, TaskShape DEF Instance, SagaState, Final
<1>3. /\ InstanceHolds(t[2], old) /\ Done(old) = Step
  BY <1>1, TaskShape DEF TaskHolds, CompleteSaga, At, Done, Step
<1>4. executed[t[2]] = Step
  <2>1. executed[t[2]] \subseteq Step
    BY TasksShape DEF SagaInv, SagaTypeOK
  <2> QED
    BY <1>3, <2>1 DEF InstanceHolds
<1>5. ASSUME NEW x \in TaskRecord, x.inst = inst, x.pc = "remove"
      PROVE  TaskHolds(t, x)
  BY <1>2, <1>3, <1>4, <1>5 DEF TaskHolds, InstanceHolds, Done
<1>6. "remove" \in AfterInsert /\ Write(t, inst, "remove") /\ UNCHANGED effects
  BY <1>1 DEF CompleteSaga, AfterInsert
<1> QED
  BY <1>2, <1>5, <1>6, StateWrites

LEMMA RemoveRunningKeeps ==
  ASSUME SagaInv, NEW t \in Tasks, RemoveRunning(t)
  PROVE  SagaInv'
<1>1. "over" \in AfterInsert /\ GoTo(t, "over")
  BY DEF RemoveRunning, AfterInsert
<1>2. PICK x \in TaskRecord : /\ task' = [task EXCEPT ![t] = x]
                              /\ x.inst = task[t].inst /\ x.pc = "over"
  BY <1>1, GoToSets
<1>3. TaskHolds(t, x)
  BY <1>2, TaskShape DEF TaskHolds
<1> QED
  BY <1>2, <1>3, TaskWrites DEF RemoveRunning

\* What is to be compensated is what was completed, in the other order.
LEMMA ReverseSet ==
  ASSUME NEW cs \in Seq(Nat)
  PROVE  Reverse(cs) \in Seq(Nat) /\ ToSet(Reverse(cs)) = ToSet(cs)
<1>1. PICK n \in Nat : n = Len(cs) /\ DOMAIN cs = 1 .. n /\ \A i \in 1 .. n : cs[i] \in Nat
  OBVIOUS
<1>2. PICK r : r = [i \in 1 .. n |-> cs[(n - i) + 1]] /\ r = Reverse(cs)
  BY <1>1 DEF Reverse
<1>3. \A i \in 1 .. n : (n - i) + 1 \in 1 .. n /\ (n - ((n - i) + 1)) + 1 = i
  BY <1>1
<1>4. \A i \in 1 .. n : r[i] \in Nat
  BY <1>1, <1>2, <1>3
<1>5. r \in Seq(Nat) /\ DOMAIN r = 1 .. n
  BY <1>1, <1>2, <1>4
<1>6. \A i \in 1 .. n : r[i] = cs[(n - i) + 1] /\ cs[i] = r[(n - i) + 1]
  BY <1>2, <1>3
<1>7. ToSet(r) = ToSet(cs)
  <2>1. ASSUME NEW i \in 1 .. n PROVE r[i] \in ToSet(cs) /\ cs[i] \in ToSet(r)
    <3>1. PICK j \in 1 .. n : r[i] = cs[j] /\ cs[i] = r[j]
      BY <1>3, <1>6
    <3> QED
      BY <1>1, <1>5, <3>1 DEF ToSet
  <2>2. /\ ToSet(r) \subseteq ToSet(cs) /\ ToSet(cs) \subseteq ToSet(r)
    BY <1>1, <1>5, <2>1 DEF ToSet
  <2> QED
    BY <2>2
<1> QED
  BY <1>2, <1>5, <1>7

LEMMA CountingSet ==
  ASSUME NEW cs \in Seq(Nat), \A i \in 1 .. Len(cs) : cs[i] = i
  PROVE  ToSet(cs) = 1 .. Len(cs)
BY DEF ToSet

LEMMA TailSet ==
  ASSUME NEW cs \in Seq(Nat), cs # <<>>
  PROVE  Tail(cs) \in Seq(Nat) /\ ToSet(cs) = {Head(cs)} \union ToSet(Tail(cs))
<1>1. PICK n \in Nat : n = Len(cs) /\ n > 0
  OBVIOUS
<1>2. /\ Tail(cs) \in Seq(Nat) /\ Len(Tail(cs)) = n - 1 /\ Head(cs) = cs[1]
      /\ \A i \in 1 .. n - 1 : Tail(cs)[i] = cs[i + 1]
  BY <1>1
<1>3. PICK rest \in Seq(Nat) : rest = Tail(cs)
  BY <1>2
<1>4. ToSet(cs) \subseteq {cs[1]} \union ToSet(rest)
  <2>1. ASSUME NEW i \in 1 .. n PROVE cs[i] \in {cs[1]} \union ToSet(rest)
    <3>1. CASE i # 1
      <4>1. i - 1 \in 1 .. n - 1 /\ cs[i] = rest[i - 1]
        BY <1>1, <1>2, <1>3, <3>1
      <4>2. DOMAIN rest = 1 .. n - 1
        BY <1>1, <1>2, <1>3
      <4>3. rest[i - 1] \in ToSet(rest)
        BY <4>1, <4>2 DEF ToSet
      <4> QED
        BY <4>1, <4>3
    <3> QED
      BY <3>1
  <2> QED
    BY <1>1, <2>1 DEF ToSet
<1>5. {cs[1]} \union ToSet(rest) \subseteq ToSet(cs)
  <2>1. ASSUME NEW i \in 1 .. n - 1 PROVE rest[i] \in ToSet(cs)
    <3>1. i + 1 \in 1 .. n /\ rest[i] = cs[i + 1]
      BY <1>1, <1>2, <1>3
    <3>2. i + 1 \in DOMAIN cs
      BY <1>1, <3>1
    <3> QED
      BY <3>1, <3>2 DEF ToSet
  <2>2. cs[1] \in ToSet(cs)
    BY <1>1 DEF ToSet
  <2> QED
    BY <1>2, <1>3, <2>1, <2>2 DEF ToSet
<1> QED
  BY <1>2, <1>3, <1>4, <1>5

LEMMA CompensateKeeps ==
  ASSUME SagaInv, NEW t \in Tasks, Compensate(t)
  PROVE  SagaInv'
<1>1. PICK old, inst, todo : /\ old = task[t].inst /\ inst = [old EXCEPT !.state = "Compensating"]
                             /\ todo = Backwards(inst)
  OBVIOUS
<1>2. /\ inst \in Instance /\ inst.state = "Compensating"
      /\ inst.completed_steps = old.completed_steps
  BY <1>1, TaskShape DEF Instance, SagaState
<1>3. InstanceHolds(t[2], old)
  BY <1>1, TaskShape DEF TaskHolds
<1>4. InstanceHolds(t[2], inst)
  BY <1>2, <1>3 DEF InstanceHolds, Done
<1>5. todo \in Seq(Nat) /\ ToSet(todo) = Done(inst)
  <2>1. inst.completed_steps \in Seq(Nat)
    BY <1>2 DEF Instance
  <2>2. ToSet(inst.completed_steps) = Done(inst)
    BY <1>4, <2>1, CountingSet DEF InstanceHolds, Done
  <2> QED
    BY <1>1, <2>1, <2>2, ReverseSet DEF Backwards
<1>6. PICK pc, x : /\ pc = IF t[1] \in registered THEN "undo" ELSE "over"
                   /\ x = [task[t] EXCEPT !.inst = inst, !.todo = todo, !.pc = pc]
  OBVIOUS
<1>7. x \in TaskRecord /\ x.inst = inst /\ x.todo = todo /\ x.pc = pc
  BY <1>2, <1>5, <1>6, TaskShape DEF TaskRecord
<1>8. task' = [task EXCEPT ![t] = x]
  BY <1>1, <1>6 DEF Compensate, SagaInv, SagaTypeOK
<1>9. (row' = row \/ row' = [row EXCEPT ![t[2]] = x.inst]) /\ UNCHANGED effects
  BY <1>1, <1>7 DEF Compensate, Persist
<1>10. TaskHolds(t, x)
  BY <1>4, <1>5, <1>6, <1>7 DEF TaskHolds, InstanceHolds
<1> QED
  BY <1>7, <1>8, <1>9, <1>10, TaskWrites

\* The first step to be compensated is treated, whatever became of it.
LEMMA FirstIsTreated ==
  ASSUME SagaInv, EffectsGrow, executed' = executed, NEW t \in Tasks, NEW h, NEW rest,
         task[t].pc = "undo", task[t].todo # <<>>, h = Head(task[t].todo), rest = Tail(task[t].todo),
         task' = [task EXCEPT ![t].todo = Tail(@)],
         h \in Treated(t[2])'
  PROVE  \E x \in TaskRecord : task' = [task EXCEPT ![t] = x] /\ x.inst = task[t].inst /\ TaskHolds(t, x)'
<1>1. /\ TaskHolds(t, task[t]) /\ t[2] \in SagaId /\ task[t].todo \in Seq(Nat)
  BY TaskShape, TasksShape DEF TaskRecord
<1>2. rest \in Seq(Nat) /\ ToSet(task[t].todo) = {h} \union ToSet(rest)
  BY <1>1, TailSet
<1>3. PICK x : x = [task[t] EXCEPT !.todo = rest]
  OBVIOUS
<1>4. /\ x \in TaskRecord /\ x.inst = task[t].inst /\ x.pc = "undo" /\ x.todo = rest
  BY <1>2, <1>3, TaskShape DEF TaskRecord
<1>5. task' = [task EXCEPT ![t] = x]
  BY <1>3 DEF SagaInv, SagaTypeOK
<1>6. Treated(t[2]) \subseteq Treated(t[2])'
  BY <1>1 DEF EffectsGrow, Treated
<1>7. InstanceHolds(t[2], x.inst)'
  BY <1>1, <1>4, <1>6 DEF TaskHolds, InstanceHolds, Done
<1>8. ToSet(x.todo) \subseteq executed'[t[2]]
  BY <1>1, <1>2, <1>4 DEF TaskHolds
<1>9. Done(x.inst) \subseteq Treated(t[2])' \union ToSet(x.todo)
  BY <1>1, <1>2, <1>4, <1>6 DEF TaskHolds
<1>10. TaskHolds(t, x)'
  BY <1>4, <1>7, <1>8, <1>9 DEF TaskHolds, Done
<1> QED
  BY <1>4, <1>5, <1>10

LEMMA CompensateStepKeeps ==
  ASSUME SagaInv, NEW t \in Tasks, CompensateStep(t)
  PROVE  SagaInv'
<1>1. PICK todo, h, rest : todo = task[t].todo /\ h = Head(todo) /\ rest = Tail(todo)
  OBVIOUS
<1>2. /\ TaskHolds(t, task[t]) /\ task[t].pc = "undo" /\ t[2] \in SagaId
      /\ todo \in Seq(Nat) /\ todo # <<>>
  BY <1>1, TaskShape, TasksShape DEF CompensateStep, CanUndo, At, TaskRecord
<1>3. h \in executed[t[2]] /\ h \in Step
  <2>1. ToSet(todo) = {h} \union ToSet(rest)
    BY <1>1, <1>2, TailSet
  <2> QED
    BY <1>1, <1>2, <2>1 DEF TaskHolds, SagaInv, SagaTypeOK
<1>4. /\ \/ undone' = [undone EXCEPT ![t[2]] = undone[t[2]] \union {h}] /\ failedUndo' = failedUndo
         \/ failedUndo' = [failedUndo EXCEPT ![t[2]] = failedUndo[t[2]] \union {h}] /\ undone' = undone
      /\ executed' = executed /\ row' = row
      /\ task' = [task EXCEPT ![t].todo = Tail(@)]
  BY <1>1 DEF CompensateStep
<1>5. /\ executed' \in [SagaId -> SUBSET Step]
      /\ undone' \in [SagaId -> SUBSET Step] /\ failedUndo' \in [SagaId -> SUBSET Step]
      /\ \A s \in SagaId : undone[s] \subseteq undone'[s] /\ failedUndo[s] \subseteq failedUndo'[s]
      /\ \A s \in SagaId : undone'[s] \union failedUndo'[s] \subseteq
                             undone[s] \union failedUndo[s] \union (IF s = t[2] THEN {h} ELSE {})
      /\ h \in undone'[t[2]] \union failedUndo'[t[2]]
  <2>1. /\ executed \in [SagaId -> SUBSET Step]
        /\ undone \in [SagaId -> SUBSET Step] /\ failedUndo \in [SagaId -> SUBSET Step]
    BY DEF SagaInv, SagaTypeOK
  <2>2. CASE undone' = [undone EXCEPT ![t[2]] = undone[t[2]] \union {h}] /\ failedUndo' = failedUndo
    <3>1. /\ undone' \in [SagaId -> SUBSET Step]
          /\ \A s \in SagaId : undone'[s] = IF s = t[2] THEN undone[s] \union {h} ELSE undone[s]
      BY <1>2, <1>3, <2>1, <2>2
    <3> QED
      BY <1>2, <1>4, <2>1, <2>2, <3>1
  <2>3. CASE failedUndo' = [failedUndo EXCEPT ![t[2]] = failedUndo[t[2]] \union {h}] /\ undone' = undone
    <3>1. /\ failedUndo' \in [SagaId -> SUBSET Step]
          /\ \A s \in SagaId :
               failedUndo'[s] = IF s = t[2] THEN failedUndo[s] \union {h} ELSE failedUndo[s]
      BY <1>2, <1>3, <2>1, <2>3
    <3> QED
      BY <1>2, <1>4, <2>1, <2>3, <3>1
  <2> QED
    BY <1>4, <2>2, <2>3
<1>6. EffectsGrow /\ \A s \in SagaId : undone'[s] \union failedUndo'[s] \subseteq executed'[s]
  BY <1>3, <1>4, <1>5 DEF EffectsGrow, SagaInv
<1>7. h \in Treated(t[2])'
  BY <1>5 DEF Treated
<1>8. PICK x \in TaskRecord : task' = [task EXCEPT ![t] = x] /\ TaskHolds(t, x)'
  BY <1>1, <1>2, <1>4, <1>6, <1>7, FirstIsTreated
<1> QED
  BY <1>4, <1>5, <1>6, <1>8, TaskMoves

LEMMA PassOverKeeps ==
  ASSUME SagaInv, NEW t \in Tasks, PassOver(t)
  PROVE  SagaInv'
<1>1. PICK todo, h, rest : todo = task[t].todo /\ h = Head(todo) /\ rest = Tail(todo)
  OBVIOUS
<1>2. /\ TaskHolds(t, task[t]) /\ task[t].pc = "undo" /\ t[2] \in SagaId
      /\ todo \in Seq(Nat) /\ todo # <<>> /\ h \notin Undoable
      /\ task' = [task EXCEPT ![t].todo = Tail(@)] /\ row' = row /\ UNCHANGED effects
  BY <1>1, TaskShape, TasksShape DEF PassOver, CanUndo, At, TaskRecord
<1>3. h \in Step
  <2>1. ToSet(todo) = {h} \union ToSet(rest)
    BY <1>1, <1>2, TailSet
  <2> QED
    BY <1>1, <1>2, <2>1 DEF TaskHolds, SagaInv, SagaTypeOK
<1>4. EffectsGrow /\ h \in Treated(t[2])'
  BY <1>2, <1>3 DEF EffectsGrow, Treated, effects
<1>5. PICK x \in TaskRecord : task' = [task EXCEPT ![t] = x] /\ TaskHolds(t, x)'
  BY <1>1, <1>2, <1>4, FirstIsTreated DEF effects
<1> QED
  BY <1>2, <1>4, <1>5, TaskMoves DEF effects, SagaInv, SagaTypeOK

LEMMA AbortKeeps ==
  ASSUME SagaInv, NEW t \in Tasks, Abort(t)
  PROVE  SagaInv'
<1>1. PICK old, inst, pc : /\ old = task[t].inst /\ inst = [old EXCEPT !.state = "Aborted"]
                           /\ pc = IF t[3] = "run" THEN "fail" ELSE "over"
  OBVIOUS
<1>2. /\ inst \in Instance /\ inst.state = "Aborted"
      /\ inst.completed_steps = old.completed_steps
  BY <1>1, TaskShape DEF Instance, SagaState, Final
<1>3. InstanceHolds(t[2], old) /\ Done(old) \subseteq Treated(t[2])
  BY <1>1, TaskShape DEF TaskHolds, Abort, At, ToSet
<1>4. ASSUME NEW x \in TaskRecord, x.inst = inst, x.pc = pc
      PROVE  TaskHolds(t, x)
  BY <1>1, <1>2, <1>3, <1>4 DEF TaskHolds, InstanceHolds, Done
<1>5. pc \in AfterInsert /\ Write(t, inst, pc) /\ UNCHANGED effects
  BY <1>1 DEF Abort, AfterInsert
<1> QED
  BY <1>2, <1>4, <1>5, StateWrites

LEMMA FailKeeps ==
  ASSUME SagaInv, NEW t \in Tasks, Fail(t)
  PROVE  SagaInv'
<1>1. PICK old, k, inst : /\ old = task[t].inst /\ k = NextStep(old)
                          /\ inst = [old EXCEPT !.state = "Failed", !.failed_step = k]
  OBVIOUS
<1>2. k \in Nat
  BY <1>1, TaskShape DEF Instance, NextStep
<1>3. /\ inst \in Instance /\ inst.state = "Failed"
      /\ inst.completed_steps = old.completed_steps
  BY <1>1, <1>2, TaskShape DEF Instance, SagaState, Final
<1>4. InstanceHolds(t[2], old) /\ Done(old) \subseteq Treated(t[2])
  BY <1>1, TaskShape DEF TaskHolds, Fail, At
<1>5. ASSUME NEW x \in TaskRecord, x.inst = inst, x.pc = "stuck"
      PROVE  TaskHolds(t, x)
  BY <1>3, <1>4, <1>5 DEF TaskHolds, InstanceHolds, Done
<1>6. "stuck" \in AfterInsert /\ Write(t, inst, "stuck") /\ UNCHANGED effects
  BY <1>1 DEF Fail, AfterInsert
<1> QED
  BY <1>3, <1>5, <1>6, StateWrites

\* A new instance, and no task: nothing has been done yet.
LEMMA NewHolds ==
  ASSUME NEW s \in SagaId, NEW st \in {"None", "Pending"}
  PROVE  NewInstance(st) \in Instance /\ InstanceHolds(s, NewInstance(st))
BY DEF NewInstance, Instance, SagaState, InstanceHolds, Done

LEMMA NoTaskHolds ==
  ASSUME NEW t \in Tasks
  PROVE  /\ NoTask \in TaskRecord /\ NoTask.pc = "idle"
         /\ TaskHolds(t, NoTask)
<1>1. PICK inst : inst = NewInstance("None")
  OBVIOUS
<1>2. inst \in Instance /\ InstanceHolds(t[2], inst)
  BY <1>1, TasksShape, NewHolds
<1>3. PICK none : none = [pc |-> "idle", inst |-> inst, todo |-> <<>>, tries |-> 0] /\ none = NoTask
  BY <1>1 DEF NoTask
<1>4. <<>> \in Seq(Nat)
  OBVIOUS
<1>5. none \in TaskRecord /\ none.pc = "idle" /\ none.inst = inst
  BY <1>2, <1>3, <1>4 DEF TaskRecord
<1>6. TaskHolds(t, none)
  BY <1>2, <1>5 DEF TaskHolds
<1> QED
  BY <1>3, <1>5, <1>6

LEMMA StartKeeps ==
  ASSUME SagaInv, NEW p \in Process, NEW s \in SagaId, StartSaga(p, s)
  PROVE  SagaInv'
<1>1. PICK t, inst, x : /\ t = <<p, s, "run">> /\ inst = NewInstance("Pending")
                        /\ x = [NoTask EXCEPT !.pc = "insert", !.inst = inst]
  OBVIOUS
<1>2. t \in Tasks /\ t[2] = s
  BY <1>1 DEF Tasks
<1>3. /\ inst \in Instance /\ InstanceHolds(s, inst) /\ inst.state = "Pending"
      /\ Len(inst.completed_steps) = 0
  BY <1>1, NewHolds DEF NewInstance
<1>4. x \in TaskRecord /\ x.inst = inst /\ x.pc = "insert"
  <2>1. PICK none \in TaskRecord : none = NoTask
    BY <1>2, NoTaskHolds
  <2> QED
    BY <1>1, <1>3, <2>1 DEF TaskRecord
<1>5. TaskHolds(t, x)
  BY <1>2, <1>3, <1>4, SagaAssumption DEF TaskHolds
<1>6. /\ task' = [task EXCEPT ![t] = x] /\ row' = [row EXCEPT ![t[2]] = x.inst]
      /\ UNCHANGED effects
  BY <1>1, <1>2, <1>4 DEF StartSaga
<1> QED
  BY <1>2, <1>4, <1>5, <1>6, TaskWrites

\* Steps that leave rows and effects alone, and many tasks otherwise than they were.
LEMMA TasksReplaced ==
  ASSUME SagaInv, UNCHANGED <<row, effects>>,
         task' \in [Tasks -> TaskRecord], \A t \in Tasks : TaskHolds(t, task'[t])
  PROVE  SagaInv'
<1>1. SagaTypeOK'
  BY DEF SagaInv, SagaTypeOK, effects
<1>2. \A s \in SagaId : (undone[s] \union failedUndo[s] \subseteq executed[s] /\ InstanceHolds(s, row[s]))'
  BY DEF SagaInv, InstanceHolds, Done, Treated, effects
<1>3. ASSUME NEW t \in Tasks PROVE TaskHolds(t, task[t])'
  <2>1. PICK new : new = task'[t] /\ TaskHolds(t, new)
    OBVIOUS
  <2> QED
    BY <2>1 DEF TaskHolds, InstanceHolds, Done, NextStep, Treated, effects
<1> QED
  BY <1>1, <1>2, <1>3 DEF SagaInv

\* A recovery takes over the instance as the row has it, whoever else runs it.
LEMMA RecoverKeeps ==
  ASSUME SagaInv, NEW p \in Process, Recover(p)
  PROVE  SagaInv'
<1>1. ASSUME NEW t \in Tasks PROVE task'[t] \in TaskRecord /\ TaskHolds(t, task'[t])
  <2>1. PICK x : x = task'[t]
    OBVIOUS
  <2>2. CASE t[1] = p /\ t[3] = "recover" /\ row[t[2]].state \in Recoverable
    <3>1. PICK inst \in Instance : inst = row[t[2]] /\ InstanceHolds(t[2], inst)
      BY TasksShape DEF SagaInv, SagaTypeOK
    <3>2. x = [NoTask EXCEPT !.pc = "insert", !.inst = inst]
      BY <2>1, <2>2, <3>1 DEF Recover
    <3>3. PICK none \in TaskRecord : none = NoTask
      BY NoTaskHolds
    <3>4. x \in TaskRecord /\ x.inst = inst /\ x.pc = "insert"
      BY <3>1, <3>2, <3>3 DEF TaskRecord
    <3>5. TaskHolds(t, x)
      BY <2>2, <3>1, <3>4 DEF TaskHolds
    <3> QED
      BY <2>1, <3>4, <3>5
  <2>3. CASE ~(t[1] = p /\ t[3] = "recover" /\ row[t[2]].state \in Recoverable)
    <3>1. x = task[t]
      BY <2>1, <2>3 DEF Recover
    <3> QED
      BY <2>1, <3>1, TaskShape
  <2> QED
    BY <2>2, <2>3
<1>2. task' \in [Tasks -> TaskRecord]
  BY <1>1 DEF Recover
<1> QED
  BY <1>1, <1>2, TasksReplaced DEF Recover

LEMMA CrashKeeps ==
  ASSUME SagaInv, NEW p \in Process, Crash(p)
  PROVE  SagaInv'
<1>1. ASSUME NEW t \in Tasks PROVE task'[t] \in TaskRecord /\ TaskHolds(t, task'[t])
  <2>1. PICK x : x = task'[t] /\ (x = NoTask \/ x = task[t])
    BY DEF Crash
  <2>2. x \in TaskRecord /\ TaskHolds(t, x)
    BY <2>1, TaskShape, NoTaskHolds
  <2> QED
    BY <2>1, <2>2
<1>2. task' \in [Tasks -> TaskRecord]
  BY <1>1 DEF Crash
<1> QED
  BY <1>1, <1>2, TasksReplaced DEF Crash

\* Whatever crashes, races or is lost, what a row or a task remembers of a saga is
\* true of the world (execute_saga, compensate_saga and recover_sagas).
THEOREM SagaInvariant == Spec => []SagaInv
<1>1. Init => SagaInv
  <2> SUFFICES ASSUME Init PROVE SagaInv
    OBVIOUS
  <2>1. SagaTypeOK
    BY NewHolds, NoTaskHolds DEF Init, SagaTypeOK
  <2>2. \A s \in SagaId : undone[s] \union failedUndo[s] \subseteq executed[s] /\ InstanceHolds(s, row[s])
    BY NewHolds DEF Init
  <2>3. \A t \in Tasks : TaskHolds(t, task[t])
    BY NoTaskHolds DEF Init
  <2> QED
    BY <2>1, <2>2, <2>3 DEF SagaInv
<1>2. SagaInv /\ [Next]_vars => SagaInv'
  <2> SUFFICES ASSUME SagaInv, [Next]_vars PROVE SagaInv'
    OBVIOUS
  <2>1. ASSUME NEW t \in Tasks, TaskStep(t) PROVE SagaInv'
    BY <2>1, InsertKeeps, BeginKeeps, ExecuteStepKeeps, FailAttemptKeeps, CompleteStepKeeps,
       CompleteSagaKeeps, RemoveRunningKeeps, CompensateKeeps, CompensateStepKeeps, PassOverKeeps,
       AbortKeeps, FailKeeps DEF TaskStep, OwnStep, Answered
  <2>2. ASSUME UNCHANGED <<row, task, effects>> PROVE SagaInv'
    BY <2>2, TasksReplaced DEF SagaInv, SagaTypeOK
  <2>3. ASSUME NEW p \in Process, NEW s \in SagaId, AskStatus(p, s) PROVE SagaInv'
    BY <2>2, <2>3 DEF AskStatus
  <2>4. ASSUME NEW p \in Process, Boot(p) \/ RecoverFails(p) PROVE SagaInv'
    BY <2>2, <2>4 DEF Boot, RecoverFails
  <2>5. CASE UNCHANGED vars
    BY <2>2, <2>5 DEF vars
  <2> QED
    BY <2>1, <2>3, <2>4, <2>5, StartKeeps, RecoverKeeps, CrashKeeps DEF Next, ComesUp
<1> QED
  BY <1>1, <1>2, PTL DEF Spec

\* Rows: the steps a row calls completed are the first of the definition, in order,
\* and were executed, and only what was executed is ever compensated.
THEOREM RowsAreTrue == Spec => []RowsBehindWorld
<1>1. SagaInv => RowsBehindWorld
  <2> SUFFICES ASSUME SagaInv, NEW s \in SagaId
               PROVE  /\ \A i \in 1 .. Len(row[s].completed_steps) : row[s].completed_steps[i] = i
                      /\ ToSet(row[s].completed_steps) \union undone[s] \union failedUndo[s] \subseteq executed[s]
                      /\ row[s].state = "Completed" => executed[s] = Step
    BY DEF RowsBehindWorld
  <2>1. InstanceHolds(s, row[s]) /\ undone[s] \union failedUndo[s] \subseteq executed[s]
    BY DEF SagaInv
  <2>2. row[s].completed_steps \in Seq(Nat)
    BY DEF SagaInv, SagaTypeOK, Instance
  <2>3. ToSet(row[s].completed_steps) = Done(row[s])
    BY <2>1, <2>2, CountingSet DEF InstanceHolds, Done
  <2> QED
    BY <2>1, <2>3 DEF InstanceHolds, Done
<1> QED
  BY <1>1, SagaInvariant, PTL

\* Giving up: a row that says aborted or failed had the compensation called of every
\* step it calls completed, where there is one (compensate_saga), whichever of several
\* tasks wrote it last; that the call succeeded it does not say.
THEOREM GivenUpIsCompensated == Spec => []GivenUpMeansCompensated
<1>1. SagaInv => GivenUpMeansCompensated
  <2> SUFFICES ASSUME SagaInv, NEW s \in SagaId, row[s].state \in {"Aborted", "Failed"}
               PROVE  ToSet(row[s].completed_steps) \intersect Undoable
                        \subseteq undone[s] \union failedUndo[s]
    BY DEF GivenUpMeansCompensated
  <2>1. InstanceHolds(s, row[s])
    BY DEF SagaInv
  <2>2. row[s].completed_steps \in Seq(Nat)
    BY DEF SagaInv, SagaTypeOK, Instance
  <2>3. ToSet(row[s].completed_steps) = Done(row[s])
    BY <2>1, <2>2, CountingSet DEF InstanceHolds, Done
  <2> QED
    BY <2>1, <2>3 DEF InstanceHolds, Treated
<1> QED
  BY <1>1, SagaInvariant, PTL

--------------------------------------------------------------------------------
(***************************************************************************)
(* Worker pools.                                                           *)
(***************************************************************************)

Attempt == 0 .. MaxRetries

PoolTypeOK ==
  /\ queue \subseteq WorkerTask \X Attempt /\ busy \subseteq Pool \X WorkerTask \X Attempt
  /\ enqueued \subseteq WorkerTask
  /\ handled \in [WorkerTask -> Nat] /\ outages \in Nat
  /\ results \in [WorkerTask -> {"none", "result", "error"}]

\* A copy of a task, in the queue or in a pool's hands, is the only one.
OneCopy ==
  /\ \A m, n \in queue : m[1] = n[1] => m = n
  /\ \A b, c \in busy : b[2] = c[2] => b = c
  /\ \A m \in queue, b \in busy : m[1] # b[2]

\* A task that has a copy was enqueued and not answered, and its handler has run
\* no oftener than the copy was retried.
LiveCopy(t, n) == t \in enqueued /\ results[t] = "none" /\ handled[t] <= n

CopiesLive ==
  /\ \A m \in queue : LiveCopy(m[1], m[2])
  /\ \A b \in busy : LiveCopy(b[2], b[3])

PoolInv ==
  /\ PoolTypeOK /\ OneCopy /\ CopiesLive
  /\ \A t \in WorkerTask :
       /\ handled[t] <= MaxRetries + 1
       /\ t \notin enqueued => handled[t] = 0 /\ results[t] = "none"
       /\ t \in enqueued /\ Copies(t) = {} /\ results[t] = "none" => outages > 0

LEMMA QueueShape ==
  ASSUME PoolInv
  PROVE  /\ \A m \in queue : m[1] \in WorkerTask /\ m[2] \in Attempt /\ m = <<m[1], m[2]>>
         /\ \A b \in busy : /\ b[1] \in Pool /\ b[2] \in WorkerTask /\ b[3] \in Attempt
                            /\ b = <<b[1], b[2], b[3]>>
BY DEF PoolInv, PoolTypeOK

LEMMA EnqueueKeeps ==
  ASSUME PoolInv, NEW t \in WorkerTask, EnqueueTask(t)
  PROVE  PoolInv'
<1>1. /\ t \notin enqueued /\ handled[t] = 0 /\ results[t] = "none"
      /\ enqueued' = enqueued \union {t}
      /\ UNCHANGED <<results, busy, handled>>
  BY DEF EnqueueTask, PoolInv
<1>2. PICK m : m = <<t, 0>>
  OBVIOUS
<1>3. \/ queue' = queue \union {m} /\ outages' = outages
      \/ queue' = queue /\ outages' = outages + 1
  BY <1>2 DEF EnqueueTask, Add, Outage
<1>4. m \in WorkerTask \X Attempt /\ m[1] = t /\ m[2] = 0
  BY <1>2, WorkerAssumption DEF Attempt
<1>5. PoolTypeOK'
  BY <1>1, <1>3, <1>4 DEF PoolTypeOK, PoolInv
<1>6. (\A n \in queue : n[1] # t) /\ (\A b \in busy : b[2] # t)
  BY <1>1 DEF PoolInv, CopiesLive, LiveCopy
<1>7. OneCopy'
  BY <1>1, <1>3, <1>4, <1>6 DEF OneCopy, PoolInv
<1>8. CopiesLive'
  BY <1>1, <1>3, <1>4 DEF CopiesLive, LiveCopy, PoolInv
<1>9. ASSUME NEW x \in WorkerTask
      PROVE  (/\ handled[x] <= MaxRetries + 1
              /\ x \notin enqueued => handled[x] = 0 /\ results[x] = "none"
              /\ x \in enqueued /\ Copies(x) = {} /\ results[x] = "none" => outages > 0)'
  <2>1. outages \in Nat
    BY DEF PoolInv, PoolTypeOK
  <2>2. CASE x = t
    BY <1>1, <1>3, <1>4, <2>1, <2>2, WorkerAssumption DEF PoolInv, Copies
  <2>3. CASE x # t
    BY <1>1, <1>3, <1>4, <2>1, <2>3 DEF PoolInv, Copies
  <2> QED
    BY <2>2, <2>3
<1> QED
  BY <1>5, <1>7, <1>8, <1>9 DEF PoolInv

\* zpopmax hands the copy over to one pool.
LEMMA PollKeeps ==
  ASSUME PoolInv, NEW p \in Pool, NEW m \in queue, PollTask(p, m)
  PROVE  PoolInv'
<1>1. PICK b : b = <<p, m[1], m[2]>>
  OBVIOUS
<1>2. /\ queue' = queue \ {m} /\ busy' = busy \union {b}
      /\ UNCHANGED <<enqueued, results, handled, outages>>
  BY <1>1 DEF PollTask
<1>3. b \in Pool \X WorkerTask \X Attempt /\ b[2] = m[1] /\ b[3] = m[2]
  BY <1>1, QueueShape
<1>4. PoolTypeOK'
  BY <1>2, <1>3 DEF PoolTypeOK, PoolInv
<1>5. OneCopy'
  BY <1>2, <1>3 DEF OneCopy, PoolInv
<1>6. CopiesLive'
  BY <1>2, <1>3 DEF CopiesLive, LiveCopy, PoolInv
<1>7. ASSUME NEW x \in WorkerTask, Copies(x) # {} PROVE Copies(x)' # {}
  BY <1>2, <1>3, <1>7 DEF Copies
<1> QED
  BY <1>2, <1>4, <1>5, <1>6, <1>7 DEF PoolInv

\* The steps in which a task that ran leaves its pool's hands.
LEMMA EndKeeps ==
  ASSUME PoolInv, NEW p \in Pool, NEW t \in WorkerTask, NEW n \in Attempt, EndTask(p, t, n)
  PROVE  PoolInv'
<1>0. PICK b : b = <<p, t, n>>
  OBVIOUS
<1>1. b = <<p, t, n>> /\ b[2] = t /\ b[3] = n
  BY <1>0
<1>2. /\ b \in busy /\ busy' = busy \ {b} /\ enqueued' = enqueued
      /\ handled' = handled \/ handled' = [handled EXCEPT ![t] = handled[t] + 1]
  BY <1>1 DEF EndTask, TaskCompleted, TaskFailed, TaskTimedOut, NoHandler, Finish, Ran
<1>3. PICK m : m = <<t, n + 1>>
  OBVIOUS
<1>4. PICK st \in {"result", "error"} :
        \/ /\ n < MaxRetries /\ results' = results
           /\ \/ queue' = queue \union {m} /\ outages' = outages
              \/ queue' = queue /\ outages' = outages + 1
        \/ /\ queue' = queue
           /\ \/ results' = [results EXCEPT ![t] = st] /\ outages' = outages
              \/ results' = results /\ outages' = outages + 1
  <2>1. CASE TaskFailed(p, t, n) /\ MayRetry(n)
    BY <1>3, <2>1 DEF TaskFailed, MayRetry, Add, Outage
  <2>2. CASE TaskFailed(p, t, n) /\ ~MayRetry(n)
    BY <2>2 DEF TaskFailed, Store, Outage
  <2>3. CASE TaskCompleted(p, t, n) \/ TaskTimedOut(p, t, n) \/ NoHandler(p, t, n)
    BY <2>3 DEF TaskCompleted, TaskTimedOut, NoHandler, Store, Outage
  <2> QED
    BY <2>1, <2>2, <2>3 DEF EndTask
<1>5. LiveCopy(t, n) /\ n \in Nat /\ n <= MaxRetries /\ outages \in Nat /\ handled[t] \in Nat
  BY <1>1, <1>2, WorkerAssumption DEF PoolInv, CopiesLive, Attempt, PoolTypeOK
<1>6. /\ handled' \in [WorkerTask -> Nat]
      /\ handled'[t] <= n + 1
      /\ \A x \in WorkerTask : x # t => handled'[x] = handled[x]
  BY <1>2, <1>5 DEF PoolInv, PoolTypeOK, LiveCopy
<1>7. PoolTypeOK'
  <2>1. n < MaxRetries => m \in WorkerTask \X Attempt
    BY <1>3, <1>5, WorkerAssumption DEF Attempt
  <2> QED
    BY <1>2, <1>3, <1>4, <1>5, <1>6, <2>1 DEF PoolTypeOK, PoolInv
<1>8. (\A q \in queue : q[1] # t) /\ (\A c \in busy' : c[2] # t)
  BY <1>1, <1>2 DEF PoolInv, OneCopy
<1>9. OneCopy'
  BY <1>2, <1>3, <1>4, <1>8 DEF OneCopy, PoolInv
<1>10. \A x \in WorkerTask : x # t => results'[x] = results[x]
  BY <1>3, <1>4 DEF PoolInv, PoolTypeOK
<1>11. CopiesLive'
  <2>1. ASSUME NEW c \in busy' PROVE LiveCopy(c[2], c[3])'
    BY <1>2, <1>6, <1>8, <1>10, <2>1, QueueShape DEF PoolInv, CopiesLive, LiveCopy
  <2>2. ASSUME NEW q \in queue' PROVE LiveCopy(q[1], q[2])'
    <3>1. CASE q \in queue
      BY <1>2, <1>6, <1>8, <1>10, <3>1, QueueShape DEF PoolInv, CopiesLive, LiveCopy
    <3>2. CASE q \notin queue
      <4>1. q = m /\ results' = results
        BY <1>3, <1>4, <2>2, <3>2
      <4> QED
        BY <1>2, <1>3, <1>4, <1>5, <1>6, <4>1 DEF LiveCopy
    <3> QED
      BY <3>1, <3>2
  <2> QED
    BY <2>1, <2>2 DEF CopiesLive
<1>12. ASSUME NEW x \in WorkerTask
       PROVE  (/\ handled[x] <= MaxRetries + 1
               /\ x \notin enqueued => handled[x] = 0 /\ results[x] = "none"
               /\ x \in enqueued /\ Copies(x) = {} /\ results[x] = "none" => outages > 0)'
  <2>1. CASE x = t
    <3>1. handled'[x] <= MaxRetries + 1
      BY <1>5, <1>6, <2>1, WorkerAssumption DEF PoolTypeOK
    <3>2. x \in enqueued'
      BY <1>2, <1>5, <2>1 DEF LiveCopy
    <3>3. Copies(x)' = {} /\ results'[x] = "none" => outages' > 0
      <4>1. m \in queue' => Copies(x)' # {}
        BY <1>3, <1>4, <2>1 DEF Copies
      <4>2. results' = [results EXCEPT ![t] = st] => results'[x] # "none"
        BY <1>3, <1>4, <2>1 DEF PoolInv, PoolTypeOK
      <4> QED
        BY <1>3, <1>4, <1>5, <4>1, <4>2
    <3> QED
      BY <3>1, <3>2, <3>3
  <2>2. CASE x # t
    <3>1. Copies(x)' = Copies(x)
      BY <1>1, <1>2, <1>3, <1>4, <2>2 DEF Copies
    <3>2. outages' >= outages
      BY <1>3, <1>4, <1>5
    <3>3. /\ handled'[x] = handled[x] /\ results'[x] = results[x]
          /\ enqueued' = enqueued /\ outages' \in Nat
      BY <1>2, <1>4, <1>5, <1>6, <1>10, <2>2
    <3> QED
      BY <1>5, <3>1, <3>2, <3>3 DEF PoolInv
  <2> QED
    BY <2>1, <2>2
<1> QED
  BY <1>7, <1>9, <1>11, <1>12 DEF PoolInv

\* Steps that touch no copy, and crashes, which take a pool's copies away.
LEMMA CopiesLost ==
  ASSUME PoolInv, UNCHANGED <<queue, enqueued, results, handled>>,
         \/ busy' = busy /\ outages' \in {outages, outages + 1}
         \/ busy' \subseteq busy /\ outages' = outages + 1
  PROVE  PoolInv'
<1>1. outages \in Nat
  BY DEF PoolInv, PoolTypeOK
<1>2. PoolTypeOK'
  BY <1>1 DEF PoolInv, PoolTypeOK
<1>3. OneCopy'
  BY DEF PoolInv, OneCopy
<1>4. CopiesLive'
  BY DEF PoolInv, CopiesLive, LiveCopy
<1>5. busy' = busy => \A x : Copies(x)' = Copies(x)
  BY DEF Copies
<1> QED
  BY <1>1, <1>2, <1>3, <1>4, <1>5 DEF PoolInv

\* One copy: for any number of pools and tasks, a task is queued, in one pool's hands
\* or answered, its handler runs at most once more than it may be retried, and only
\* an outage loses it (poll_task, process_task and the retry of redis_workers.rs).
THEOREM OneCopyOfATask == PoolSpec => []OneCopyOfEachTask
<1>1. PoolInit => PoolInv
  BY WorkerAssumption DEF PoolInit, PoolInv, PoolTypeOK, OneCopy, CopiesLive
<1>2. PoolInv /\ [PoolNext]_poolVars => PoolInv'
  <2> SUFFICES ASSUME PoolInv, [PoolNext]_poolVars PROVE PoolInv'
    OBVIOUS
  <2>1. ASSUME NEW p \in Pool,
               \/ StartPool(p) \/ StopPool(p) \/ Heartbeat(p)
               \/ CheckRunning(p) \/ AcquirePermit(p) \/ PollNothing(p) \/ PoolCrash(p)
        PROVE  PoolInv'
    BY <2>1, CopiesLost DEF StartPool, StopPool, Heartbeat, CheckRunning, AcquirePermit,
       PollNothing, PoolCrash, Outage
  <2>2. CASE UNCHANGED poolVars
    BY <2>2, CopiesLost DEF poolVars
  <2>3. ASSUME NEW b \in busy, EndTask(b[1], b[2], b[3]) PROVE PoolInv'
    BY <2>3, QueueShape, EndKeeps
  <2> QED
    BY <2>1, <2>2, <2>3, EnqueueKeeps, PollKeeps DEF PoolNext, LoopStep
<1>3. PoolInv => OneCopyOfEachTask
  <2> SUFFICES ASSUME PoolInv, NEW t \in WorkerTask
               PROVE  /\ Cardinality(Copies(t)) <= 1
                      /\ results[t] # "none" => Copies(t) = {}
                      /\ handled[t] <= MaxRetries + 1
                      /\ t \in enqueued /\ Copies(t) = {} /\ results[t] = "none" => outages > 0
    BY DEF OneCopyOfEachTask
  <2>1. \A a, b \in Copies(t) : a = b
    BY DEF PoolInv, OneCopy, Copies
  <2>2. Copies(t) = {} \/ \E a : Copies(t) = {a}
    BY <2>1
  <2>3. Cardinality(Copies(t)) <= 1
    <3>1. CASE Copies(t) = {}
      BY <3>1, FS_EmptySet
    <3>2. CASE \E a : Copies(t) = {a}
      <4>1. PICK a : Copies(t) = {a}
        BY <3>2
      <4>2. Cardinality({a}) = 1
        BY FS_Singleton
      <4> QED
        BY <4>1, <4>2
    <3> QED
      BY <2>2, <3>1, <3>2
  <2>4. results[t] # "none" => Copies(t) = {}
    BY DEF PoolInv, CopiesLive, LiveCopy, Copies
  <2> QED
    BY <2>3, <2>4 DEF PoolInv
<1> QED
  BY <1>1, <1>2, <1>3, PTL DEF PoolSpec

(***************************************************************************)
(* Digital twins.                                                          *)
(***************************************************************************)

(***************************************************************************)
(* What an agent may be at: nothing, a reading, the rows of a              *)
(* synchronisation that are left, or a twin, for a request or for such a   *)
(* row.                                                                    *)
(***************************************************************************)
HealthSteps == {"health", "write", "overall_health", "temperature_stress", "humidity_stress"}

RowsOf(todo, K) == \A s \in todo : s[1] \in K /\ s[1][2] \in TwinId

ReadingJob(j) ==
  /\ j.at \in {"check", "alert"} \/ (j.at = "insert" /\ j.row \in ReadingRows)
  /\ "twin" \notin DOMAIN j

PickJob(j, K) == j.at = "pick" /\ "twin" \notin DOMAIN j /\ RowsOf(j.todo, K)

OnTwin(j) == "at" \in DOMAIN j /\ "twin" \in DOMAIN j /\ j.twin \in TwinId

\* A list of whatever it holds.
IsList(s) == s \in Seq(Range(s))

SeenIsList(j) == j.at = "write" => IsList(j.seen)

RequestJob(j) ==
  /\ OnTwin(j)
  /\ \/ j.at \in HealthSteps /\ {"seen", "score", "sync"} \subseteq DOMAIN j /\ j.sync = <<>> /\ SeenIsList(j)
     \/ j.at = "record" /\ "source" \in DOMAIN j /\ j.source = "client"

SyncJob(j, K) ==
  /\ OnTwin(j) /\ {"todo", "sync"} \subseteq DOMAIN j
  /\ RowsOf(j.todo, K) /\ j.sync \in j.todo /\ j.sync[1][2] = j.twin
  /\ \/ j.at \in SyncTypes \union {"stamp"}
     \/ j.at = "merge" /\ "source" \in DOMAIN j /\ j.source # "client"
     \/ j.at \in HealthSteps /\ {"seen", "score"} \subseteq DOMAIN j /\ SeenIsList(j)
     \/ j.at = "record" /\ "source" \in DOMAIN j /\ j.source # "client"

JobOf(a, j, K) ==
  \/ j = AtRest
  \/ a # SyncLoop /\ ReadingJob(j)
  \/ PickJob(j, K)
  \/ a # SyncLoop /\ RequestJob(j)
  \/ SyncJob(j, K)

Tally(x) == x \in [calls : Nat, faults : Nat, crossed : BOOLEAN]

TwinOK(x) ==
  DOMAIN x = {"state", "health", "since", "synced"} /\ IsList(x.health) /\ \A p, q \in x.synced : p = q

ReadingsOK(rs) == IsList(rs) /\ \A i \in DOMAIN rs : rs[i].row.stamp \in Int

WorkInv ==
  /\ DOMAIN work = Agent /\ \A a \in Agent : JobOf(a, work[a], DOMAIN syncs)
  /\ Tally(iotTally)
  /\ \A k \in DOMAIN syncs : k[1] \in Sensor /\ k[2] \in TwinId
  /\ ~iotTally.crossed => \A a, b \in Agent, t \in TwinId : BusyOn(a, t) /\ BusyOn(b, t) => a = b

TablesInv ==
  /\ DOMAIN twins = TwinId /\ \A t \in TwinId : TwinOK(twins[t])
  /\ DOMAIN metrics = TwinId /\ \A t \in TwinId : IsList(metrics[t])
  /\ ReadingsOK(readings)

(***************************************************************************)
(* A step of an agent: the others stay at what they are at, what is noted  *)
(* of crossings and failures is not taken back, and an agent that takes up *)
(* a twin finds nobody at it or notes the crossing.                        *)
(***************************************************************************)
TallyGrows == (iotTally.crossed => iotTally'.crossed) /\ iotTally.faults <= iotTally'.faults

Moves(a) ==
  /\ DOMAIN work' = Agent /\ \A b \in Agent \ {a} : work'[b] = work[b]
  /\ JobOf(a, work'[a], DOMAIN syncs')
  /\ Tally(iotTally') /\ TallyGrows
  /\ DOMAIN syncs \subseteq DOMAIN syncs' /\ \A k \in DOMAIN syncs' : k[1] \in Sensor /\ k[2] \in TwinId
  /\ \A t \in TwinId : BusyOn(a, t)' =>
       BusyOn(a, t) \/ iotTally'.crossed \/ \A b \in Agent : ~BusyOn(b, t)

LEMMA JobsOfMore ==
  ASSUME NEW a, NEW j, NEW K, NEW L, K \subseteq L, JobOf(a, j, K) PROVE JobOf(a, j, L)
<1>1. \A todo : RowsOf(todo, K) => RowsOf(todo, L)
  BY DEF RowsOf
<1>. QED BY <1>1, Zenon DEF JobOf, PickJob, SyncJob

LEMMA MovesKeepWork ==
  ASSUME WorkInv, NEW a \in Agent, Moves(a) PROVE WorkInv'
<1>1. ASSUME NEW b \in Agent PROVE JobOf(b, work'[b], DOMAIN syncs')
  <2>1. CASE b = a
    BY <2>1 DEF Moves
  <2>2. CASE b # a
    <3>1. work'[b] = work[b] /\ JobOf(b, work[b], DOMAIN syncs) /\ DOMAIN syncs \subseteq DOMAIN syncs'
      BY <2>2 DEF Moves, WorkInv
    <3>2. JobOf(b, work[b], DOMAIN syncs')
      BY <3>1, JobsOfMore
    <3>. QED BY <3>1, <3>2
  <2>. QED BY <2>1, <2>2
<1>2. ASSUME ~iotTally'.crossed, NEW b \in Agent, NEW c \in Agent, NEW t \in TwinId,
             BusyOn(b, t)', BusyOn(c, t)'
      PROVE  b = c
  <2>1. \A d \in Agent \ {a} : BusyOn(d, t)' => BusyOn(d, t)
    BY DEF Moves, BusyOn
  <2>2. BusyOn(a, t)' => BusyOn(a, t) \/ \A d \in Agent : ~BusyOn(d, t)
    BY <1>2 DEF Moves
  <2>3. ~iotTally.crossed
    BY <1>2 DEF Moves, TallyGrows
  <2>4. \A d, e \in Agent : BusyOn(d, t) /\ BusyOn(e, t) => d = e
    BY <2>3 DEF WorkInv
  <2>. QED BY <1>2, <2>1, <2>2, <2>4
<1>. QED BY <1>1, <1>2 DEF WorkInv, Moves

\* An agent goes on with a job, on the twin it was at or on one that it may take up.
LEMMA GoesOn ==
  ASSUME WorkInv, NEW a \in Agent, NEW j, work' = [work EXCEPT ![a] = j], JobOf(a, j, DOMAIN syncs'),
         Tally(iotTally'), TallyGrows,
         DOMAIN syncs \subseteq DOMAIN syncs', \A k \in DOMAIN syncs' : k[1] \in Sensor /\ k[2] \in TwinId,
         "twin" \in DOMAIN j =>
           BusyOn(a, j.twin) \/ iotTally'.crossed \/ \A b \in Agent : ~BusyOn(b, j.twin)
  PROVE  Moves(a) /\ work'[a] = j
<1>1. DOMAIN work' = Agent /\ work'[a] = j /\ \A b \in Agent \ {a} : work'[b] = work[b]
  BY DEF WorkInv
<1>2. \A t : BusyOn(a, t)' => "twin" \in DOMAIN j /\ j.twin = t
  BY <1>1 DEF BusyOn
<1>. QED BY <1>1, <1>2 DEF Moves

\* The tally after a call, and after a failure.
LEMMA TallyCounts ==
  ASSUME Tally(iotTally), NEW c \in BOOLEAN, iotTally.crossed => c
  PROVE  /\ iotTally' = [iotTally EXCEPT !.calls = @ + 1, !.crossed = c] => Tally(iotTally') /\ TallyGrows /\ iotTally'.crossed = c
         /\ iotTally' = [iotTally EXCEPT !.calls = @ + 1] => Tally(iotTally') /\ TallyGrows
         /\ iotTally' = [iotTally EXCEPT !.crossed = c] => Tally(iotTally') /\ TallyGrows /\ iotTally'.crossed = c
         /\ iotTally' = [iotTally EXCEPT !.faults = @ + 1] => Tally(iotTally') /\ TallyGrows /\ iotTally'.faults > 0
         /\ iotTally' = iotTally => Tally(iotTally') /\ TallyGrows
<1>1. PICK n \in Nat, f \in Nat, k \in BOOLEAN : iotTally = [calls |-> n, faults |-> f, crossed |-> k]
  BY DEF Tally
<1>2. ASSUME NEW m \in Nat, NEW g \in Nat, NEW d \in BOOLEAN,
             iotTally' = [calls |-> m, faults |-> g, crossed |-> d], k => d, f <= g
      PROVE  Tally(iotTally') /\ TallyGrows
  BY <1>1, <1>2 DEF Tally, TallyGrows
<1>3. ASSUME iotTally' = [iotTally EXCEPT !.calls = @ + 1, !.crossed = c]
      PROVE  Tally(iotTally') /\ TallyGrows /\ iotTally'.crossed = c
  <2>1. iotTally' = [calls |-> n + 1, faults |-> f, crossed |-> c]
    BY <1>1, <1>3
  <2>2. n + 1 \in Nat /\ f <= f /\ (k => c)
    BY <1>1
  <2>3. iotTally'.crossed = c
    BY <2>1
  <2>. QED BY <1>2, <2>1, <2>2, <2>3
<1>4. ASSUME iotTally' = [iotTally EXCEPT !.calls = @ + 1] PROVE Tally(iotTally') /\ TallyGrows
  <2>1. iotTally' = [calls |-> n + 1, faults |-> f, crossed |-> k]
    BY <1>1, <1>4
  <2>2. n + 1 \in Nat /\ f <= f
    OBVIOUS
  <2>. QED BY <1>2, <2>1, <2>2
<1>5. ASSUME iotTally' = [iotTally EXCEPT !.crossed = c]
      PROVE  Tally(iotTally') /\ TallyGrows /\ iotTally'.crossed = c
  <2>1. iotTally' = [calls |-> n, faults |-> f, crossed |-> c]
    BY <1>1, <1>5
  <2>2. f <= f /\ (k => c)
    BY <1>1
  <2>3. iotTally'.crossed = c
    BY <2>1
  <2>. QED BY <1>2, <2>1, <2>2, <2>3
<1>6. ASSUME iotTally' = [iotTally EXCEPT !.faults = @ + 1]
      PROVE  Tally(iotTally') /\ TallyGrows /\ iotTally'.faults > 0
  <2>1. iotTally' = [calls |-> n, faults |-> f + 1, crossed |-> k]
    BY <1>1, <1>6
  <2>2. f + 1 \in Nat /\ f <= f + 1 /\ f + 1 > 0
    OBVIOUS
  <2>3. iotTally'.faults > 0
    BY <2>1, <2>2
  <2>. QED BY <1>2, <2>1, <2>2, <2>3
<1>7. ASSUME iotTally' = iotTally PROVE Tally(iotTally') /\ TallyGrows
  <2>1. f <= f
    OBVIOUS
  <2>. QED BY <1>1, <1>2, <1>7, <2>1
<1>. QED BY <1>3, <1>4, <1>5, <1>6, <1>7

LEMMA StartsOn ==
  ASSUME WorkInv, NEW a \in Agent, NEW t, NEW j, BeginOn(a, t, j), UNCHANGED syncs,
         JobOf(a, j, DOMAIN syncs), "twin" \in DOMAIN j => j.twin = t
  PROVE  Moves(a) /\ work'[a] = j
<1> DEFINE c == iotTally.crossed \/ \E b \in Agent : BusyOn(b, t)
<1>1. Tally(iotTally)
  BY DEF WorkInv
<1>2. c \in BOOLEAN /\ (iotTally.crossed => c)
  OBVIOUS
<1>3. iotTally' = [iotTally EXCEPT !.calls = @ + 1, !.crossed = c]
  BY DEF BeginOn
<1>4. Tally(iotTally') /\ TallyGrows /\ iotTally'.crossed = c
  <2> HIDE DEF c
  <2>. QED BY <1>1, <1>2, <1>3, TallyCounts
<1>5. iotTally'.crossed \/ \A b \in Agent : ~BusyOn(b, t)
  BY <1>4
<1>6. work' = [work EXCEPT ![a] = j] /\ syncs' = syncs
  BY DEF BeginOn
<1>7. \A k \in DOMAIN syncs : k[1] \in Sensor /\ k[2] \in TwinId
  BY DEF WorkInv
<1> HIDE DEF c
<1>. QED BY <1>4, <1>5, <1>6, <1>7, GoesOn

LEMMA Begins ==
  ASSUME WorkInv, NEW a \in Agent, NEW j, BeginWork(a, j), UNCHANGED syncs,
         JobOf(a, j, DOMAIN syncs), "twin" \notin DOMAIN j
  PROVE  Moves(a) /\ work'[a] = j
<1>1. Tally(iotTally) /\ \A k \in DOMAIN syncs : k[1] \in Sensor /\ k[2] \in TwinId
  BY DEF WorkInv
<1>2. Tally(iotTally') /\ TallyGrows
  BY <1>1, TallyCounts DEF BeginWork
<1>. QED BY <1>1, <1>2, GoesOn DEF BeginWork

LEMMA Nexts ==
  ASSUME WorkInv, NEW a \in Agent, NEW j, Next1(a, j), DOMAIN syncs' = DOMAIN syncs,
         JobOf(a, j, DOMAIN syncs), "twin" \in DOMAIN j => BusyOn(a, j.twin)
  PROVE  Moves(a) /\ work'[a] = j
<1>1. Tally(iotTally) /\ \A k \in DOMAIN syncs : k[1] \in Sensor /\ k[2] \in TwinId
  BY DEF WorkInv
<1>2. Tally(iotTally') /\ TallyGrows
  BY <1>1, TallyCounts DEF Next1
<1>. QED BY <1>1, <1>2, GoesOn DEF Next1

LEMMA FailsOn ==
  ASSUME WorkInv, NEW a \in Agent, NEW j, Fault(a, j), UNCHANGED syncs,
         JobOf(a, j, DOMAIN syncs), "twin" \notin DOMAIN j
  PROVE  Moves(a) /\ work'[a] = j /\ iotTally'.faults > 0
<1>1. Tally(iotTally) /\ \A k \in DOMAIN syncs : k[1] \in Sensor /\ k[2] \in TwinId
  BY DEF WorkInv
<1>2. Tally(iotTally') /\ TallyGrows /\ iotTally'.faults > 0
  BY <1>1, TallyCounts DEF Fault
<1>. QED BY <1>1, <1>2, GoesOn DEF Fault

LEMMA Singles ==
  ASSUME WorkInv, NEW a \in Agent, Single(a), DOMAIN syncs \subseteq DOMAIN syncs',
         \A k \in DOMAIN syncs' : k[1] \in Sensor /\ k[2] \in TwinId
  PROVE  Moves(a) /\ work'[a] = work[a] /\ work[a] = AtRest
<1>1. Tally(iotTally) /\ DOMAIN work = Agent
  BY DEF WorkInv
<1>2. Tally(iotTally') /\ TallyGrows
  BY <1>1, TallyCounts DEF Single
<1>3. work' = work /\ work[a] = AtRest
  BY DEF Single
<1>4. JobOf(a, AtRest, DOMAIN syncs')
  BY DEF JobOf
<1>5. ~BusyOn(a, 0)' /\ \A t \in TwinId : ~BusyOn(a, t)'
  BY <1>3 DEF BusyOn
<1>. QED BY <1>1, <1>2, <1>3, <1>4, <1>5 DEF Moves

\* A row done leaves the others, or nothing.
LEMMA RowDone ==
  ASSUME NEW a, NEW s, RowsOf(work[a].todo, DOMAIN syncs)
  PROVE  /\ JobOf(a, AfterSync(a, s), DOMAIN syncs) /\ "twin" \notin DOMAIN AfterSync(a, s)
         /\ AfterSync(a, s).at \in {"rest", "pick"}
<1>1. CASE work[a].todo = {s}
  <2>1. AfterSync(a, s) = AtRest
    BY <1>1 DEF AfterSync
  <2>. QED BY <2>1 DEF JobOf, AtRest
<1>2. CASE work[a].todo # {s}
  <2>1. AfterSync(a, s) = [at |-> "pick", todo |-> work[a].todo \ {s}]
    BY <1>2 DEF AfterSync
  <2>2. PickJob([at |-> "pick", todo |-> work[a].todo \ {s}], DOMAIN syncs)
    BY DEF PickJob, RowsOf
  <2>. QED BY <2>1, <2>2 DEF JobOf
<1>. QED BY <1>1, <1>2

\* Going on with the same job.
LEMMA SameJobAt ==
  ASSUME NEW j, OnTwin(j), NEW at
  PROVE  /\ OnTwin([j EXCEPT !.at = at]) /\ DOMAIN [j EXCEPT !.at = at] = DOMAIN j
         /\ [j EXCEPT !.at = at].at = at
         /\ \A f \in DOMAIN j \ {"at"} : [j EXCEPT !.at = at][f] = j[f]
  BY DEF OnTwin

------------------------------------------------------------------------------
(***************************************************************************)
(* What a step of an agent leaves as it was: of the health of the twins,   *)
(* and of the times of their readings.                                     *)
(***************************************************************************)
HealthCalm(a) ==
  /\ metrics' = metrics /\ \A t \in TwinId : twins'[t].health = twins[t].health
  /\ work'[a] = work[a] \/ work'[a].at \notin {"write", "overall_health"}
  /\ work[a].at = "overall_health" => work'[a] = work[a] \/ iotTally'.faults > 0

ReadingsGrow ==
  \A i \in DOMAIN readings : i \in DOMAIN readings' /\ readings'[i] = readings[i]

TimeCalm(a) ==
  /\ \A t \in TwinId : twins'[t].synced \subseteq twins[t].synced
  /\ ReadingsGrow
  /\ work'[a] = work[a] \/ work'[a].at # "merge"

Calm(a) == Moves(a) /\ TablesInv' /\ HealthCalm(a) /\ TimeCalm(a)

JobCalm(a) ==
  /\ work'[a] = work[a] \/ work'[a].at \notin {"write", "overall_health", "merge"}
  /\ work[a].at = "overall_health" => work'[a] = work[a] \/ iotTally'.faults > 0

LEMMA TablesStay ==
  ASSUME TablesInv, twins' = twins, metrics' = metrics, readings' = readings, NEW a,
         Moves(a), JobCalm(a)
  PROVE  Calm(a)
<1>1. TablesInv'
  BY DEF TablesInv
<1>2. HealthCalm(a) /\ TimeCalm(a)
  BY DEF HealthCalm, TimeCalm, JobCalm, ReadingsGrow
<1>. QED BY <1>1, <1>2 DEF Calm

\* A list with one more, and with fewer.
LEMMA LongerList ==
  ASSUME NEW s, IsList(s), NEW x
  PROVE  /\ IsList(Append(s, x)) /\ Len(Append(s, x)) = Len(s) + 1 /\ Len(s) \in Nat
         /\ Append(s, x)[Len(s) + 1] = x /\ DOMAIN s = 1 .. Len(s)
         /\ DOMAIN Append(s, x) = 1 .. Len(s) + 1
         /\ \A i \in DOMAIN s : i \in DOMAIN Append(s, x) /\ Append(s, x)[i] = s[i]
<1> DEFINE E == Range(s) \union {x}
<1>1. s \in Seq(E) /\ x \in E
  BY DEF IsList
<1>2. Append(s, x) \in Seq(E) /\ Len(Append(s, x)) = Len(s) + 1 /\ Len(s) \in Nat
      /\ Append(s, x)[Len(s) + 1] = x /\ DOMAIN s = 1 .. Len(s)
      /\ \A i \in 1 .. Len(s) : Append(s, x)[i] = s[i]
  <2> HIDE DEF E
  <2>. QED BY <1>1, AppendProperties, LenProperties
<1>3. Range(Append(s, x)) = E
  <2>1. DOMAIN Append(s, x) = 1 .. Len(s) + 1
    BY <1>2, LenProperties
  <2>2. 1 .. Len(s) + 1 = 1 .. Len(s) \union {Len(s) + 1}
    BY <1>2
  <2>3. ASSUME NEW e \in Range(Append(s, x)) PROVE e \in E
    <3>1. PICK i \in 1 .. Len(s) + 1 : e = Append(s, x)[i]
      BY <2>1 DEF Range
    <3>2. i \in 1 .. Len(s) \/ i = Len(s) + 1
      BY <2>2
    <3>3. i \in 1 .. Len(s) => e \in Range(s)
      BY <1>2, <3>1 DEF Range
    <3>. QED BY <1>2, <3>1, <3>2, <3>3
  <2>4. ASSUME NEW e \in E PROVE e \in Range(Append(s, x))
    <3>1. CASE e = x
      BY <1>2, <2>1, <2>2, <3>1 DEF Range
    <3>2. CASE e \in Range(s)
      <4>1. PICK i \in 1 .. Len(s) : e = s[i]
        BY <1>2, <3>2 DEF Range
      <4>2. i \in 1 .. Len(s) + 1 /\ Append(s, x)[i] = e
        BY <1>2, <2>2, <4>1
      <4>. QED BY <2>1, <4>2 DEF Range
    <3>. QED BY <3>1, <3>2
  <2>. QED BY <2>3, <2>4
<1>4. DOMAIN Append(s, x) = 1 .. Len(s) + 1
  BY <1>2, LenProperties
<1>5. IsList(Append(s, x))
  BY <1>2, <1>3 DEF IsList
<1>. QED BY <1>2, <1>4, <1>5

\* A list cut to its last elements.
LEMMA LastOnes ==
  ASSUME NEW s, IsList(s), HistoryCap \in Nat
  PROVE  /\ IsList(KeepLast(s))
         /\ Len(KeepLast(s)) = IF Len(s) < HistoryCap THEN Len(s) ELSE HistoryCap
         /\ \A i \in 0 .. Len(KeepLast(s)) - 1 : KeepLast(s)[Len(KeepLast(s)) - i] = s[Len(s) - i]
<1>1. s \in Seq(Range(s)) /\ Len(s) \in Nat /\ DOMAIN s = 1 .. Len(s)
  BY LenProperties DEF IsList
<1>2. CASE Len(s) > HistoryCap
  <2> DEFINE r == SubSeq(s, Len(s) - HistoryCap + 1, Len(s))
  <2>1. KeepLast(s) = r
    BY <1>2 DEF KeepLast
  <2>2. \A i \in Len(s) - HistoryCap + 1 .. Len(s) : s[i] \in Range(s)
    <3>1. \A i \in Len(s) - HistoryCap + 1 .. Len(s) : i \in DOMAIN s
      BY <1>1, <1>2
    <3>. QED BY <3>1, Zenon DEF Range
  <2>3. r \in Seq(Range(s)) /\ Len(r) = HistoryCap
        /\ \A i \in 1 .. HistoryCap : r[i] = s[Len(s) - HistoryCap + i]
    <3>1. r = [i \in 1 .. HistoryCap |-> s[Len(s) - HistoryCap + i]]
      BY <1>1, <1>2
    <3>2. \A i \in 1 .. HistoryCap : s[Len(s) - HistoryCap + i] \in Range(s)
      BY <1>1, <1>2, <2>2
    <3> HIDE DEF r
    <3>3. r \in [1 .. HistoryCap -> Range(s)]
      BY <3>1, <3>2
    <3>4. r \in Seq(Range(s))
      BY <3>3, SeqDef
    <3>. QED BY <3>1, <3>3, <3>4, LenProperties
  <2> HIDE DEF r
  <2>4. IsList(r)
    <3>1. r = [i \in 1 .. HistoryCap |-> r[i]] /\ \A i \in 1 .. HistoryCap : r[i] \in Range(r)
      <4>1. r \in [1 .. HistoryCap -> Range(s)]
        BY <2>3, LenProperties
      <4>2. DOMAIN r = 1 .. HistoryCap
        BY <4>1
      <4>. QED BY <4>1, <4>2, Zenon DEF Range
    <3>2. r \in [1 .. HistoryCap -> Range(r)]
      BY <3>1
    <3>. QED BY <3>2, SeqDef DEF IsList
  <2>5. Len(r) = IF Len(s) < HistoryCap THEN Len(s) ELSE HistoryCap
    <3>1. \A n, c \in Nat : n > c => c = IF n < c THEN n ELSE c
      OBVIOUS
    <3>2. Len(s) \in Nat /\ Len(r) = HistoryCap
      BY <1>1, <2>3
    <3>. QED BY <1>2, <3>1, <3>2
  <2>6. ASSUME NEW i \in 0 .. HistoryCap - 1 PROVE r[HistoryCap - i] = s[Len(s) - i]
    <3>1. HistoryCap - i \in 1 .. HistoryCap
      OBVIOUS
    <3>2. r[HistoryCap - i] = s[Len(s) - HistoryCap + (HistoryCap - i)]
      BY <2>3, <3>1
    <3>3. Len(s) - HistoryCap + (HistoryCap - i) = Len(s) - i
      BY <1>1
    <3>. QED BY <3>2, <3>3
  <2>. QED BY <2>1, <2>3, <2>4, <2>5, <2>6
<1>3. CASE ~(Len(s) > HistoryCap)
  <2>1. KeepLast(s) = s
    BY <1>3 DEF KeepLast
  <2>2. Len(s) = IF Len(s) < HistoryCap THEN Len(s) ELSE HistoryCap
    <3>1. \A n, c \in Nat : ~(n > c) => n = IF n < c THEN n ELSE c
      OBVIOUS
    <3>2. Len(s) \in Nat
      BY <1>1
    <3>. QED BY <1>3, <3>1, <3>2
  <2>. QED BY <2>1, <2>2
<1>. QED BY <1>2, <1>3

\* A write of one twin that leaves its health.
LEMMA StateWritten ==
  ASSUME TablesInv, NEW t \in TwinId, NEW x, TwinOK(x), x.health = twins[t].health,
         twins' = [twins EXCEPT ![t] = x]
  PROVE  /\ DOMAIN twins' = TwinId /\ \A u \in TwinId : TwinOK(twins'[u]) /\ twins'[u].health = twins[u].health
         /\ twins'[t] = x /\ \A u \in TwinId \ {t} : twins'[u] = twins[u]
<1>1. DOMAIN twins = TwinId /\ \A u \in TwinId : TwinOK(twins[u])
  BY DEF TablesInv
<1>2. twins'[t] = x /\ \A u \in TwinId \ {t} : twins'[u] = twins[u]
  BY <1>1
<1>. QED BY <1>1, <1>2

\* A twin whose state alone is written.
LEMMA NewState ==
  ASSUME NEW y, TwinOK(y), NEW state
  PROVE  /\ TwinOK([y EXCEPT !.state = state])
         /\ [y EXCEPT !.state = state].health = y.health /\ [y EXCEPT !.state = state].synced = y.synced
<1>1. PICK x : x = [y EXCEPT !.state = state]
  OBVIOUS
<1>2. DOMAIN x = {"state", "health", "since", "synced"} /\ x.health = y.health /\ x.synced = y.synced
  BY <1>1 DEF TwinOK
<1>3. TwinOK(x)
  BY <1>2 DEF TwinOK
<1>. QED BY <1>1, <1>2, <1>3

\* What an agent is at says what kind of job it has.
LEMMA JobAt ==
  ASSUME NEW a, NEW j, NEW K, JobOf(a, j, K)
  PROVE  /\ j.at \in {"insert", "check", "alert"} => ReadingJob(j) /\ a # SyncLoop
         /\ j.at = "pick" => PickJob(j, K)
         /\ j.at \in HealthSteps \union {"record"} => (RequestJob(j) /\ a # SyncLoop) \/ SyncJob(j, K)
         /\ j.at \in SyncTypes \union {"merge", "stamp"} => SyncJob(j, K)
         /\ j # AtRest /\ "twin" \in DOMAIN j => (RequestJob(j) /\ a # SyncLoop) \/ SyncJob(j, K)
<1>1. CASE j = AtRest
  BY <1>1 DEF AtRest, HealthSteps, SyncTypes
<1>2. CASE a # SyncLoop /\ ReadingJob(j)
  BY <1>2 DEF ReadingJob, HealthSteps, SyncTypes
<1>3. CASE PickJob(j, K)
  BY <1>3 DEF PickJob, HealthSteps, SyncTypes
<1>4. CASE a # SyncLoop /\ RequestJob(j)
  BY <1>4 DEF RequestJob, HealthSteps, SyncTypes
<1>5. CASE SyncJob(j, K)
  BY <1>5 DEF SyncJob, HealthSteps, SyncTypes
<1>. QED BY <1>1, <1>2, <1>3, <1>4, <1>5 DEF JobOf

LEMMA MyJob ==
  ASSUME WorkInv, NEW a \in Agent
  PROVE  JobOf(a, work[a], DOMAIN syncs) /\ AtRest.at = "rest" /\ "twin" \notin DOMAIN AtRest
  BY DEF WorkInv, AtRest

------------------------------------------------------------------------------
(* Readings.                                                               *)

LEMMA CreateReadingMoves ==
  ASSUME WorkInv, TablesInv, NEW a \in Agent, a # SyncLoop, NEW taken \in ReadingRows,
         CreateReading(a, taken), UNCHANGED twinTables
  PROVE  Calm(a)
<1> DEFINE j == [at |-> "insert", row |-> taken]
<1>1. JobOf(a, j, DOMAIN syncs) /\ "twin" \notin DOMAIN j /\ j.at = "insert"
  BY DEF JobOf, ReadingJob
<1>2. BeginWork(a, j) /\ UNCHANGED syncs
  BY DEF CreateReading, twinTables
<1>3. work[a] = AtRest
  BY DEF CreateReading, BeginWork
<1>4. AtRest.at = "rest"
  BY DEF AtRest
<1> HIDE DEF j
<1>5. Moves(a) /\ work'[a] = j
  BY <1>1, <1>2, Begins
<1>. QED BY <1>1, <1>3, <1>4, <1>5, TablesStay DEF JobCalm, CreateReading, twinTables, sensorVars

LEMMA InsertReadingMoves ==
  ASSUME WorkInv, TablesInv, NEW a \in Agent, InsertReading(a), UNCHANGED twinTables
  PROVE  Calm(a)
<1>1. JobOf(a, work[a], DOMAIN syncs) /\ work[a].at = "insert"
  BY MyJob DEF InsertReading
<1>2. ReadingJob(work[a]) /\ a # SyncLoop
  BY <1>1, JobAt
<1>3. work[a].row \in ReadingRows
  BY <1>1, <1>2 DEF ReadingJob
<1>4. PICK j : /\ Next1(a, j) /\ (j = AtRest \/ j = [at |-> "check", row |-> work[a].row, reading |-> Len(readings')])
  BY DEF InsertReading
<1>5. JobOf(a, j, DOMAIN syncs) /\ "twin" \notin DOMAIN j /\ j.at \in {"rest", "check"}
  BY <1>2, <1>4 DEF JobOf, ReadingJob, AtRest
<1>6. Moves(a) /\ work'[a] = j
  BY <1>4, <1>5, Nexts DEF twinTables
<1>7. JobCalm(a)
  BY <1>1, <1>5, <1>6 DEF JobCalm
<1>8. CASE readings' = readings
  BY <1>6, <1>7, <1>8, TablesStay DEF twinTables
<1>9. CASE readings' = Append(readings, [row |-> work[a].row, anomaly |-> CheckAnomaly(work[a].row),
                                         before |-> DOMAIN thresholds])
  <2>1. PICK r : readings' = Append(readings, r) /\ r.row = work[a].row
    BY <1>9
  <2>2. r.row.stamp \in Int
    BY <1>3, <2>1, TwinAssumption
  <2>3. IsList(readings) /\ \A i \in DOMAIN readings : readings[i].row.stamp \in Int
    BY DEF TablesInv, ReadingsOK
  <2>4. /\ IsList(readings') /\ DOMAIN readings' = 1 .. Len(readings) + 1 /\ Len(readings) \in Nat
        /\ readings'[Len(readings) + 1] = r /\ DOMAIN readings = 1 .. Len(readings)
        /\ \A i \in DOMAIN readings : i \in DOMAIN readings' /\ readings'[i] = readings[i]
    BY <2>1, <2>3, LongerList
  <2>5. ASSUME NEW i \in DOMAIN readings' PROVE readings'[i].row.stamp \in Int
    <3>1. i \in DOMAIN readings \/ i = Len(readings) + 1
      BY <2>4
    <3>. QED BY <2>2, <2>3, <2>4, <3>1
  <2>6. ReadingsOK(readings')
    BY <2>4, <2>5 DEF ReadingsOK
  <2>7. TablesInv'
    BY <2>6 DEF TablesInv, twinTables
  <2>8. HealthCalm(a) /\ TimeCalm(a)
    BY <1>7, <2>4 DEF HealthCalm, TimeCalm, JobCalm, ReadingsGrow, twinTables
  <2>. QED BY <1>6, <2>7, <2>8 DEF Calm
<1>. QED BY <1>8, <1>9 DEF InsertReading

LEMMA CheckThresholdsMoves ==
  ASSUME WorkInv, TablesInv, NEW a \in Agent, CheckThresholds(a), UNCHANGED twinTables
  PROVE  Calm(a)
<1>1. JobOf(a, work[a], DOMAIN syncs) /\ work[a].at = "check"
  BY MyJob DEF CheckThresholds
<1>2. a # SyncLoop
  BY <1>1, JobAt
<1>3. PICK j, l : /\ Next1(a, j)
                  /\ j = AtRest \/ j = [at |-> "alert", row |-> work[a].row, reading |-> work[a].reading, left |-> l]
  BY DEF CheckThresholds
<1>4. JobOf(a, j, DOMAIN syncs) /\ "twin" \notin DOMAIN j /\ j.at \in {"rest", "alert"}
  <2>1. CASE j = AtRest
    BY <2>1 DEF JobOf, AtRest
  <2>2. CASE j = [at |-> "alert", row |-> work[a].row, reading |-> work[a].reading, left |-> l]
    <3>1. j.at = "alert" /\ "twin" \notin DOMAIN j
      BY <2>2
    <3>2. ReadingJob(j)
      BY <3>1 DEF ReadingJob
    <3>. QED BY <1>2, <3>1, <3>2 DEF JobOf
  <2>. QED BY <1>3, <2>1, <2>2
<1>5. Moves(a) /\ work'[a] = j
  BY <1>3, <1>4, Nexts DEF twinTables
<1>. QED BY <1>1, <1>4, <1>5, TablesStay DEF JobCalm, CheckThresholds, twinTables, sensorVars

\* An alert more or given up leaves the others, or nothing.
LEMMA AlertDone ==
  ASSUME WorkInv, NEW a \in Agent, work[a].at = "alert", NEW i
  PROVE  /\ JobOf(a, AlertsLeft(a, i), DOMAIN syncs) /\ "twin" \notin DOMAIN AlertsLeft(a, i)
         /\ AlertsLeft(a, i).at \in {"rest", "alert"}
<1>1. ReadingJob(work[a]) /\ a # SyncLoop
  BY MyJob, JobAt
<1>2. CASE work[a].left = {i}
  <2>1. AlertsLeft(a, i) = AtRest
    BY <1>2 DEF AlertsLeft
  <2>. QED BY <2>1 DEF JobOf, AtRest
<1>3. CASE work[a].left # {i}
  <2>1. AlertsLeft(a, i) = [work[a] EXCEPT !.left = @ \ {i}]
    BY <1>3 DEF AlertsLeft
  <2> DEFINE j == [work[a] EXCEPT !.left = @ \ {i}]
  <2>2. DOMAIN j = DOMAIN work[a]
    OBVIOUS
  <2>. QED BY <1>1, <2>1, <2>2 DEF JobOf, ReadingJob
<1>. QED BY <1>2, <1>3

LEMMA CreateAlertMoves ==
  ASSUME WorkInv, TablesInv, NEW a \in Agent, CreateAlert(a), UNCHANGED twinTables
  PROVE  Calm(a)
<1>1. PICK i : Next1(a, AlertsLeft(a, i))
  BY DEF CreateAlert
<1>2. work[a].at = "alert" /\ readings' = readings
  BY DEF CreateAlert
<1>3. PICK j : j = AlertsLeft(a, i)
  OBVIOUS
<1>4. JobOf(a, j, DOMAIN syncs) /\ "twin" \notin DOMAIN j /\ j.at \in {"rest", "alert"}
  BY <1>2, <1>3, AlertDone
<1>5. Moves(a) /\ work'[a] = j
  BY <1>1, <1>3, <1>4, Nexts DEF twinTables
<1>. QED BY <1>2, <1>4, <1>5, TablesStay DEF JobCalm, twinTables

LEMMA ReadingFailsMoves ==
  ASSUME WorkInv, TablesInv, NEW a \in Agent, ReadingFails(a), UNCHANGED twinTables
  PROVE  Calm(a)
<1>1. PICK j : /\ Fault(a, j) /\ work[a].at \in {"insert", "check", "alert"}
               /\ j = AtRest \/ \E i : work[a].at = "alert" /\ j = AlertsLeft(a, i)
  BY DEF ReadingFails
<1>2. JobOf(a, j, DOMAIN syncs) /\ "twin" \notin DOMAIN j /\ j.at \in {"rest", "alert"}
  BY <1>1, AlertDone DEF JobOf, AtRest
<1>3. Moves(a) /\ work'[a] = j
  BY <1>1, <1>2, FailsOn DEF twinTables
<1>4. JobCalm(a)
  BY <1>1, <1>2, <1>3 DEF JobCalm
<1>. QED BY <1>1, <1>3, <1>4, TablesStay DEF twinTables, Fault, sensorVars

LEMMA ReadingStepMoves ==
  ASSUME WorkInv, TablesInv, NEW a \in Agent, a # SyncLoop, ReadingStep(a), UNCHANGED twinTables
  PROVE  Calm(a)
  BY CreateReadingMoves, InsertReadingMoves, CheckThresholdsMoves, CreateAlertMoves, ReadingFailsMoves
     DEF ReadingStep

------------------------------------------------------------------------------
(* Requests about twins.                                                   *)

LEMMA UpdateTwinStateMoves ==
  ASSUME WorkInv, TablesInv, NEW a \in Agent, a # SyncLoop, NEW t \in TwinId, NEW state \in ClientStates,
         UpdateTwinState(a, t, state)
  PROVE  /\ Calm(a) /\ \A u \in TwinId \ {t} : twins'[u] = twins[u]
         /\ \A u \in TwinId : twins'[u].synced \subseteq twins[u].synced
<1> DEFINE j == [at |-> "record", state |-> state, source |-> "client", twin |-> t]
<1>1. JobOf(a, j, DOMAIN syncs) /\ j.twin = t /\ j.at = "record"
  BY DEF JobOf, RequestJob, OnTwin
<1>2. BeginOn(a, t, j) /\ UNCHANGED syncs /\ UNCHANGED <<metrics, readings>> /\ work[a] = AtRest
  BY DEF UpdateTwinState, BeginOn, sensorVars
<1>3. AtRest.at = "rest"
  BY DEF AtRest
<1> HIDE DEF j
<1>4. Moves(a) /\ work'[a] = j
  BY <1>1, <1>2, StartsOn
<1>5. PICK x : x = [twins[t] EXCEPT !.state = state]
  OBVIOUS
<1>6. CASE twins' = twins
  <2>1. Calm(a)
    BY <1>1, <1>2, <1>3, <1>4, <1>6, TablesStay DEF JobCalm
  <2>. QED BY <1>6, <2>1
<1>7. CASE twins' = [twins EXCEPT ![t].state = state]
  <2>5. DOMAIN twins = TwinId /\ TwinOK(twins[t])
    BY DEF TablesInv
  <2>6. TwinOK(x) /\ x.health = twins[t].health /\ x.synced = twins[t].synced
    BY <1>5, <2>5, NewState
  <2>7. twins' = [twins EXCEPT ![t] = x]
    BY <1>5, <1>7, <2>5
  <2>1. /\ DOMAIN twins' = TwinId
        /\ \A u \in TwinId : TwinOK(twins'[u]) /\ twins'[u].health = twins[u].health
        /\ twins'[t] = x /\ \A u \in TwinId \ {t} : twins'[u] = twins[u]
    BY <2>6, <2>7, StateWritten
  <2>2. TablesInv'
    BY <1>2, <2>1 DEF TablesInv
  <2>3. \A u \in TwinId : twins'[u].synced \subseteq twins[u].synced
    BY <2>1, <2>6
  <2>4. HealthCalm(a) /\ TimeCalm(a)
    BY <1>1, <1>2, <1>3, <1>4, <2>1, <2>3 DEF HealthCalm, TimeCalm, ReadingsGrow
  <2>. QED BY <1>4, <2>1, <2>2, <2>3, <2>4 DEF Calm
<1>. QED BY <1>6, <1>7 DEF UpdateTwinState

LEMMA CalculateHealthScoreMoves ==
  ASSUME WorkInv, TablesInv, NEW a \in Agent, a # SyncLoop, NEW t \in TwinId,
         NEW temp, NEW humidity, NEW hours, CalculateHealthScore(a, t, temp, humidity, hours)
  PROVE  Calm(a)
<1> DEFINE j == Computing(t, temp, humidity, hours, <<>>, {})
<1>1. JobOf(a, j, DOMAIN syncs) /\ j.twin = t /\ j.at = "health"
  BY DEF JobOf, RequestJob, OnTwin, Computing, HealthSteps, SeenIsList
<1>2. BeginOn(a, t, j) /\ UNCHANGED <<syncs, twins, metrics, readings>> /\ work[a] = AtRest
  BY DEF CalculateHealthScore, BeginOn, sensorVars, twinTables
<1>3. AtRest.at = "rest"
  BY DEF AtRest
<1> HIDE DEF j
<1>4. Moves(a) /\ work'[a] = j
  BY <1>1, <1>2, StartsOn
<1>. QED BY <1>1, <1>2, <1>3, <1>4, TablesStay DEF JobCalm

LEMMA CreateTwinMoves ==
  ASSUME WorkInv, TablesInv, NEW a \in Agent, NEW t \in TwinId, NEW state, CreateTwin(a, t, state)
  PROVE  Calm(a)
<1>1. Moves(a) /\ work'[a] = work[a]
  <2>1. DOMAIN syncs \subseteq DOMAIN syncs' /\ \A k \in DOMAIN syncs' : k[1] \in Sensor /\ k[2] \in TwinId
    BY DEF WorkInv, CreateTwin
  <2>. QED BY <2>1, Singles DEF CreateTwin
<1>2. DOMAIN twins = TwinId /\ \A u \in TwinId : TwinOK(twins[u])
  BY DEF TablesInv
<1>3. twins' = [twins EXCEPT ![t] = Created(state, ticks)]
  BY DEF CreateTwin
<1>4. twins[t] = NoTwin
  BY DEF CreateTwin
<1>5. twins'[t] = Created(state, ticks) /\ \A u \in TwinId \ {t} : twins'[u] = twins[u]
  BY <1>2, <1>3
<1>6. TwinOK(twins'[t]) /\ twins'[t].health = twins[t].health /\ twins'[t].synced = {}
  <2>1. IsList(<<>>)
    BY EmptySeq DEF IsList
  <2>2. TwinOK(twins'[t]) /\ twins'[t].health = twins[t].health
    BY <1>4, <1>5, <2>1 DEF TwinOK, NoTwin, Created
  <2>3. twins'[t].synced = {}
    BY <1>5 DEF Created
  <2>. QED BY <2>2, <2>3
<1>7. TablesInv'
  BY <1>2, <1>3, <1>5, <1>6 DEF TablesInv, CreateTwin, sensorVars
<1>8. HealthCalm(a) /\ TimeCalm(a)
  BY <1>1, <1>5, <1>6 DEF HealthCalm, TimeCalm, ReadingsGrow, CreateTwin, sensorVars
<1>. QED BY <1>1, <1>7, <1>8 DEF Calm

LEMMA ConfigureIotSyncMoves ==
  ASSUME WorkInv, TablesInv, NEW a \in Agent, NEW d \in Sensor, NEW t \in TwinId, NEW type,
         ConfigureIotSync(a, d, t, type)
  PROVE  Calm(a)
<1> DEFINE k == <<d, t, type>>
<1>1. DOMAIN syncs' = DOMAIN syncs \union {k}
  BY DEF ConfigureIotSync, Overwritten
<1>2. k[1] = d /\ k[2] = t
  OBVIOUS
<1>3. \A l \in DOMAIN syncs : l[1] \in Sensor /\ l[2] \in TwinId
  BY DEF WorkInv
<1>4. Moves(a) /\ work'[a] = work[a]
  <2> HIDE DEF k
  <2>1. DOMAIN syncs \subseteq DOMAIN syncs' /\ \A l \in DOMAIN syncs' : l[1] \in Sensor /\ l[2] \in TwinId
    BY <1>1, <1>2, <1>3
  <2>. QED BY <2>1, Singles DEF ConfigureIotSync
<1>. QED BY <1>4, TablesStay DEF JobCalm, ConfigureIotSync, sensorVars

LEMMA SyncBeginsMoves ==
  ASSUME WorkInv, TablesInv, NEW a \in Agent, NEW due, due \subseteq DOMAIN syncs, SyncBegins(a, due)
  PROVE  Calm(a)
<1> DEFINE j == [at |-> "pick", todo |-> {<<k, syncs[k]>> : k \in due}]
<1>1. JobOf(a, j, DOMAIN syncs) /\ "twin" \notin DOMAIN j /\ j.at = "pick"
  <2>1. RowsOf({<<k, syncs[k]>> : k \in due}, DOMAIN syncs)
    BY DEF RowsOf, WorkInv
  <2>. QED BY <2>1 DEF JobOf, PickJob
<1>2. BeginWork(a, j) /\ UNCHANGED <<syncs, twins, metrics, readings>> /\ work[a] = AtRest
  BY DEF SyncBegins, BeginWork, sensorVars, twinTables
<1>3. AtRest.at = "rest"
  BY DEF AtRest
<1> HIDE DEF j
<1>4. Moves(a) /\ work'[a] = j
  BY <1>1, <1>2, Begins
<1>. QED BY <1>1, <1>2, <1>3, <1>4, TablesStay DEF JobCalm

LEMMA TwinStepMoves ==
  ASSUME WorkInv, TablesInv, NEW a \in Agent, a # SyncLoop, TwinStep(a)
  PROVE  Calm(a)
<1>1. ASSUME NEW d \in Sensor, TriggerSync(a, d) PROVE Calm(a)
  BY <1>1, SyncBeginsMoves DEF TriggerSync
<1>. QED BY <1>1, UpdateTwinStateMoves, CalculateHealthScoreMoves, CreateTwinMoves, ConfigureIotSyncMoves DEF TwinStep

------------------------------------------------------------------------------
(* Work on a twin.                                                         *)

LEMMA OnwardMoves ==
  ASSUME WorkInv, NEW a \in Agent, NEW at, Onward(a, at), DOMAIN syncs' = DOMAIN syncs,
         OnTwin(work[a]), JobOf(a, [work[a] EXCEPT !.at = at], DOMAIN syncs)
  PROVE  Moves(a) /\ work'[a] = [work[a] EXCEPT !.at = at] /\ work'[a].at = at
<1> DEFINE j == [work[a] EXCEPT !.at = at]
<1>1. j.at = at /\ j.twin = work[a].twin
  BY SameJobAt DEF OnTwin
<1>2. BusyOn(a, j.twin)
  <2>1. work[a] # AtRest
    BY DEF OnTwin, AtRest
  <2>. QED BY <1>1, <2>1 DEF BusyOn, OnTwin
<1>3. Next1(a, j) /\ JobOf(a, j, DOMAIN syncs)
  BY DEF Onward
<1> HIDE DEF j
<1>4. Moves(a) /\ work'[a] = j
  BY <1>2, <1>3, Nexts
<1>. QED BY <1>1, <1>4 DEF j

LEMMA EndMoves ==
  ASSUME WorkInv, NEW a \in Agent, Next1(a, AtRest), DOMAIN syncs' = DOMAIN syncs
  PROVE  Moves(a) /\ work'[a] = AtRest /\ work'[a].at = "rest"
<1>1. JobOf(a, AtRest, DOMAIN syncs) /\ "twin" \notin DOMAIN AtRest /\ AtRest.at = "rest"
  BY DEF JobOf, AtRest
<1>. QED BY <1>1, Nexts

\* A synchronisation goes on with the row it is at.
LEMMA SyncGoesOn ==
  ASSUME NEW a, NEW j, NEW K, SyncJob(j, K), NEW at, at \in {"stamp"} \union SyncTypes
  PROVE  SyncJob([j EXCEPT !.at = at], K) /\ JobOf(a, [j EXCEPT !.at = at], K)
<1>1. OnTwin(j) /\ {"todo", "sync"} \subseteq DOMAIN j
  BY DEF SyncJob
<1>2. PICK k : k = [j EXCEPT !.at = at]
  OBVIOUS
<1>3. /\ OnTwin(k) /\ DOMAIN k = DOMAIN j /\ k.at = at /\ k.todo = j.todo /\ k.sync = j.sync /\ k.twin = j.twin
  BY <1>1, <1>2, SameJobAt DEF OnTwin
<1>4. SyncJob(k, K)
  BY <1>1, <1>3 DEF SyncJob
<1>. QED BY <1>2, <1>4 DEF JobOf

\* A computation of health goes on.
LEMMA HealthGoesOn ==
  ASSUME NEW a, NEW j, NEW K, JobOf(a, j, K), j.at \in HealthSteps,
         NEW at \in HealthSteps \ {"write"}
  PROVE  OnTwin(j) /\ JobOf(a, [j EXCEPT !.at = at], K)
<1>1. (RequestJob(j) /\ a # SyncLoop) \/ SyncJob(j, K)
  BY JobAt
<1>2. "record" \notin HealthSteps /\ HealthSteps \intersect ({"merge", "stamp"} \union SyncTypes) = {}
  BY DEF HealthSteps, SyncTypes
<1>3. PICK k : k = [j EXCEPT !.at = at]
  OBVIOUS
<1>4. CASE RequestJob(j) /\ a # SyncLoop
  <2>1. OnTwin(j) /\ {"seen", "score", "sync"} \subseteq DOMAIN j /\ j.sync = <<>>
    BY <1>2, <1>4 DEF RequestJob
  <2>2. OnTwin(k) /\ DOMAIN k = DOMAIN j /\ k.at = at /\ k.sync = j.sync
    BY <1>3, <2>1, SameJobAt
  <2>3. RequestJob(k)
    BY <2>1, <2>2 DEF RequestJob, SeenIsList
  <2>. QED BY <1>3, <1>4, <2>1, <2>3 DEF JobOf
<1>5. CASE SyncJob(j, K)
  <2>1. OnTwin(j) /\ {"todo", "sync", "seen", "score"} \subseteq DOMAIN j
    BY <1>2, <1>5 DEF SyncJob
  <2>2. OnTwin(k) /\ DOMAIN k = DOMAIN j /\ k.at = at /\ k.sync = j.sync /\ k.todo = j.todo /\ k.twin = j.twin
    BY <1>3, <2>1, SameJobAt DEF OnTwin
  <2>3. SyncJob(k, K)
    BY <1>5, <2>1, <2>2 DEF SyncJob, SeenIsList
  <2>. QED BY <1>3, <2>1, <2>3 DEF JobOf
<1>. QED BY <1>1, <1>4, <1>5

LEMMA RecordStateMoves ==
  ASSUME WorkInv, TablesInv, NEW a \in Agent, RecordState(a)
  PROVE  Calm(a)
<1>1. JobOf(a, work[a], DOMAIN syncs) /\ work[a].at = "record"
  BY MyJob DEF RecordState
<1>2. UNCHANGED <<twins, metrics, readings>> /\ DOMAIN syncs' = DOMAIN syncs
  BY DEF RecordState, End, Onward, sensorVars
<1>3. CASE work[a].source = "client"
  <2>1. Next1(a, AtRest)
    BY <1>3 DEF RecordState, End
  <2>2. Moves(a) /\ work'[a].at = "rest"
    BY <1>2, <2>1, EndMoves
  <2>. QED BY <1>1, <1>2, <2>2, TablesStay DEF JobCalm
<1>4. CASE work[a].source # "client"
  <2>1. SyncJob(work[a], DOMAIN syncs) /\ OnTwin(work[a])
    BY <1>1, <1>4, JobAt DEF RequestJob, SyncJob, HealthSteps
  <2>2. JobOf(a, [work[a] EXCEPT !.at = "stamp"], DOMAIN syncs)
    BY <2>1, SyncGoesOn
  <2>3. Onward(a, "stamp")
    BY <1>4 DEF RecordState
  <2>4. Moves(a) /\ work'[a].at = "stamp"
    BY <1>2, <2>1, <2>2, <2>3, OnwardMoves
  <2>. QED BY <1>1, <1>2, <2>4, TablesStay DEF JobCalm
<1>. QED BY <1>3, <1>4

LEMMA ProcessSyncMoves ==
  ASSUME WorkInv, TablesInv, NEW a \in Agent, ProcessSync(a)
  PROVE  Calm(a)
<1>1. JobOf(a, work[a], DOMAIN syncs) /\ work[a].at = "pick"
  BY MyJob DEF ProcessSync
<1>2. RowsOf(work[a].todo, DOMAIN syncs)
  BY <1>1, JobAt DEF PickJob
<1>3. UNCHANGED <<twins, metrics, readings, syncs>>
  BY DEF ProcessSync, twinTables, sensorVars
<1>4. ASSUME NEW s \in work[a].todo, Next1(a, AfterSync(a, s)) PROVE Calm(a)
  <2>1. PICK j : j = AfterSync(a, s)
    OBVIOUS
  <2>2. JobOf(a, j, DOMAIN syncs) /\ "twin" \notin DOMAIN j /\ j.at \in {"rest", "pick"}
    BY <1>2, <2>1, RowDone
  <2>3. Moves(a) /\ work'[a] = j
    BY <1>3, <1>4, <2>1, <2>2, Nexts
  <2>. QED BY <1>1, <1>3, <2>2, <2>3, TablesStay DEF JobCalm
<1>5. ASSUME NEW s \in work[a].todo, NEW at \in SyncTypes \union {"stamp"},
             work' = [work EXCEPT ![a] = [at |-> at, todo |-> work[a].todo, sync |-> s, twin |-> s[1][2]]],
             iotTally' = [iotTally EXCEPT !.crossed = @ \/ \E b \in Agent : BusyOn(b, s[1][2])]
      PROVE  Calm(a)
  <2> DEFINE j == [at |-> at, todo |-> work[a].todo, sync |-> s, twin |-> s[1][2]]
             c == iotTally.crossed \/ \E b \in Agent : BusyOn(b, s[1][2])
  <2>1. JobOf(a, j, DOMAIN syncs) /\ j.twin = s[1][2] /\ j.at = at
    <3>1. s[1][2] \in TwinId
      BY <1>2 DEF RowsOf
    <3>. QED BY <1>2, <3>1 DEF JobOf, SyncJob, OnTwin
  <2>2. c \in BOOLEAN /\ (iotTally.crossed => c) /\ Tally(iotTally)
    BY DEF WorkInv
  <2>3. iotTally' = [iotTally EXCEPT !.crossed = c]
    BY <1>5
  <2>4. Tally(iotTally') /\ TallyGrows /\ iotTally'.crossed = c
    <3> HIDE DEF c
    <3>. QED BY <2>2, <2>3, TallyCounts
  <2>5. iotTally'.crossed \/ \A b \in Agent : ~BusyOn(b, j.twin)
    BY <2>4
  <2>6. \A k \in DOMAIN syncs : k[1] \in Sensor /\ k[2] \in TwinId
    BY DEF WorkInv
  <2>7. work' = [work EXCEPT ![a] = j]
    BY <1>5
  <2>8. j.at \notin {"write", "overall_health", "merge"}
    BY <2>1 DEF SyncTypes
  <2> HIDE DEF c, j
  <2>9. Moves(a) /\ work'[a] = j
    BY <1>3, <2>1, <2>4, <2>5, <2>6, <2>7, GoesOn
  <2>. QED BY <1>1, <1>3, <2>8, <2>9, TablesStay DEF JobCalm
<1>6. PICK s \in work[a].todo :
        \/ Next1(a, AfterSync(a, s))
        \/ /\ work' = [work EXCEPT ![a] = [at |-> IF s[1][3] \in SyncTypes THEN s[1][3] ELSE "stamp",
                                           todo |-> work[a].todo, sync |-> s, twin |-> s[1][2]]]
           /\ iotTally' = [iotTally EXCEPT !.crossed = @ \/ \E b \in Agent : BusyOn(b, s[1][2])]
  BY DEF ProcessSync
<1>7. PICK at : at = IF s[1][3] \in SyncTypes THEN s[1][3] ELSE "stamp"
  OBVIOUS
<1>8. at \in SyncTypes \union {"stamp"}
  BY <1>7
<1>. QED BY <1>4, <1>5, <1>6, <1>7, <1>8

LEMMA SyncDecayMoves ==
  ASSUME WorkInv, TablesInv, NEW a \in Agent, SyncDecay(a)
  PROVE  Calm(a)
<1>1. JobOf(a, work[a], DOMAIN syncs) /\ work[a].at = "decay"
  BY MyJob DEF SyncDecay
<1>2. SyncJob(work[a], DOMAIN syncs)
  BY <1>1, JobAt DEF SyncTypes
<1>3. UNCHANGED <<twins, metrics, readings, syncs>>
  BY DEF SyncDecay, twinTables, sensorVars
<1>4. PICK temp, humidity, hours :
        Next1(a, Computing(work[a].twin, temp, humidity, hours, work[a].sync, work[a].todo))
  BY DEF SyncDecay
<1>5. PICK j : j = Computing(work[a].twin, temp, humidity, hours, work[a].sync, work[a].todo)
  OBVIOUS
<1>6. JobOf(a, j, DOMAIN syncs) /\ j.twin = work[a].twin /\ j.at = "health"
  <2>1. /\ OnTwin(j) /\ DOMAIN j = {"at", "twin", "temp", "humidity", "score", "sync", "todo", "seen"}
        /\ j.twin = work[a].twin /\ j.at = "health" /\ j.todo = work[a].todo /\ j.sync = work[a].sync
    BY <1>2, <1>5 DEF Computing, OnTwin, SyncJob
  <2>2. SyncJob(j, DOMAIN syncs)
    BY <1>2, <2>1 DEF SyncJob, HealthSteps, SeenIsList
  <2>. QED BY <2>1, <2>2 DEF JobOf
<1>7. BusyOn(a, j.twin)
  BY <1>1, <1>2, <1>6 DEF BusyOn, SyncJob, OnTwin, AtRest
<1>8. Moves(a) /\ work'[a] = j
  BY <1>3, <1>4, <1>5, <1>6, <1>7, Nexts
<1>. QED BY <1>1, <1>3, <1>6, <1>8, TablesStay DEF JobCalm

LEMMA StampSyncMoves ==
  ASSUME WorkInv, TablesInv, NEW a \in Agent, StampSync(a)
  PROVE  Calm(a)
<1>1. JobOf(a, work[a], DOMAIN syncs) /\ work[a].at = "stamp"
  BY MyJob DEF StampSync
<1>2. RowsOf(work[a].todo, DOMAIN syncs)
  BY <1>1, JobAt DEF SyncJob
<1>3. UNCHANGED <<twins, metrics, readings>> /\ DOMAIN syncs' = DOMAIN syncs
  BY DEF StampSync, sensorVars
<1>4. PICK j : j = AfterSync(a, work[a].sync)
  OBVIOUS
<1>5. JobOf(a, j, DOMAIN syncs) /\ "twin" \notin DOMAIN j /\ j.at \in {"rest", "pick"}
  BY <1>2, <1>4, RowDone
<1>6. Moves(a) /\ work'[a] = j
  BY <1>3, <1>4, <1>5, Nexts DEF StampSync
<1>. QED BY <1>1, <1>3, <1>5, <1>6, TablesStay DEF JobCalm

LEMMA TwinFailsMoves ==
  ASSUME WorkInv, TablesInv, NEW a \in Agent, TwinFails(a)
  PROVE  Calm(a)
<1>1. JobOf(a, work[a], DOMAIN syncs) /\ work[a] # AtRest /\ "twin" \in DOMAIN work[a]
  BY MyJob DEF TwinFails
<1>2. UNCHANGED <<twins, metrics, readings, syncs>>
  BY DEF TwinFails, twinTables, Fault, sensorVars
<1>3. PICK j : Fault(a, j) /\ j = IF a = SyncLoop THEN AfterSync(a, work[a].sync) ELSE AtRest
  BY DEF TwinFails
<1>4. JobOf(a, j, DOMAIN syncs) /\ "twin" \notin DOMAIN j /\ j.at \in {"rest", "pick"}
  <2>1. CASE a = SyncLoop
    <3>1. SyncJob(work[a], DOMAIN syncs)
      BY <1>1, <2>1, JobAt
    <3>2. RowsOf(work[a].todo, DOMAIN syncs)
      BY <3>1 DEF SyncJob
    <3>. QED BY <1>3, <2>1, <3>2, RowDone
  <2>2. CASE a # SyncLoop
    BY <1>3, <2>2 DEF JobOf, AtRest
  <2>. QED BY <2>1, <2>2
<1>5. Moves(a) /\ work'[a] = j /\ iotTally'.faults > 0
  BY <1>2, <1>3, <1>4, FailsOn
<1>. QED BY <1>2, <1>4, <1>5, TablesStay DEF JobCalm

\* A write of a state by a synchronisation, which then goes on.
LEMMA StateMerged ==
  ASSUME WorkInv, TablesInv, NEW a \in Agent, SyncJob(work[a], DOMAIN syncs),
         NEW x, TwinOK(x), x.health = twins[work[a].twin].health,
         NEW at \in {"stamp", "record"}, at = "record" => work[a].source # "client" /\ "source" \in DOMAIN work[a],
         work[a].at # "overall_health",
         twins' = [twins EXCEPT ![work[a].twin] = x], Onward(a, at), UNCHANGED <<metrics, syncs>>
  PROVE  /\ Moves(a) /\ TablesInv' /\ HealthCalm(a) /\ ReadingsGrow /\ work'[a].at = at
         /\ twins'[work[a].twin] = x
         /\ \A u \in TwinId \ {work[a].twin} : twins'[u] = twins[u]
<1>1. PICK t \in TwinId : t = work[a].twin
  BY DEF SyncJob, OnTwin
<1>2. OnTwin(work[a]) /\ JobOf(a, [work[a] EXCEPT !.at = at], DOMAIN syncs)
  <2>1. OnTwin(work[a]) /\ {"todo", "sync"} \subseteq DOMAIN work[a]
    BY DEF SyncJob
  <2>2. CASE at = "stamp"
    BY <2>1, <2>2, SyncGoesOn
  <2>3. CASE at = "record"
    <3>1. PICK j : j = [work[a] EXCEPT !.at = at]
      OBVIOUS
    <3>2. /\ OnTwin(j) /\ DOMAIN j = DOMAIN work[a] /\ j.at = "record" /\ j.source = work[a].source
          /\ j.sync = work[a].sync /\ j.todo = work[a].todo /\ j.twin = work[a].twin
      BY <2>1, <2>3, <3>1, SameJobAt DEF OnTwin
    <3>3. SyncJob(j, DOMAIN syncs)
      BY <2>1, <2>3, <3>2 DEF SyncJob
    <3>. QED BY <2>1, <3>1, <3>3 DEF JobOf
  <2>. QED BY <2>2, <2>3
<1>3. Moves(a) /\ work'[a].at = at
  BY <1>2, OnwardMoves
<1>4. twins' = [twins EXCEPT ![t] = x] /\ x.health = twins[t].health
  BY <1>1
<1>5. /\ DOMAIN twins' = TwinId
      /\ \A u \in TwinId : TwinOK(twins'[u]) /\ twins'[u].health = twins[u].health
      /\ twins'[t] = x /\ \A u \in TwinId \ {t} : twins'[u] = twins[u]
  BY <1>4, StateWritten
<1>6. readings' = readings
  BY DEF Onward, sensorVars
<1>7. TablesInv' /\ ReadingsGrow
  BY <1>5, <1>6 DEF TablesInv, ReadingsGrow
<1>8. HealthCalm(a)
  BY <1>3, <1>5 DEF HealthCalm
<1>. QED BY <1>1, <1>3, <1>5, <1>7, <1>8

LEMMA MergeDecayMoves ==
  ASSUME WorkInv, TablesInv, NEW a \in Agent, MergeDecay(a)
  PROVE  Calm(a)
<1>1. JobOf(a, work[a], DOMAIN syncs) /\ work[a].at = "decay"
  BY MyJob DEF MergeDecay
<1>2. SyncJob(work[a], DOMAIN syncs)
  BY <1>1, JobAt DEF SyncTypes
<1>3. PICK t \in TwinId : t = work[a].twin
  BY <1>2 DEF SyncJob, OnTwin
<1>4. PICK state : state = Overwritten(twins[t].state, [health_score |-> <<"number", work[a].score>>])
  OBVIOUS
<1>10. PICK x : x = [twins[t] EXCEPT !.state = state]
  OBVIOUS
<1>11. DOMAIN twins = TwinId /\ TwinOK(twins[t])
  BY DEF TablesInv
<1>12. TwinOK(x) /\ x.health = twins[t].health /\ x.synced = twins[t].synced
  BY <1>10, <1>11, NewState
<1>5. twins' = [twins EXCEPT ![work[a].twin] = x]
  <2>2. twins' = [twins EXCEPT ![work[a].twin].state = Overwritten(@, [health_score |-> <<"number", work[a].score>>])]
    BY DEF MergeDecay
  <2>. QED BY <1>3, <1>4, <1>10, <1>11, <2>2
<1>6. Onward(a, "stamp") /\ UNCHANGED <<metrics, syncs>>
  BY DEF MergeDecay
<1>7. /\ Moves(a) /\ TablesInv' /\ HealthCalm(a) /\ ReadingsGrow /\ work'[a].at = "stamp"
      /\ twins'[t] = x /\ \A u \in TwinId \ {t} : twins'[u] = twins[u]
  BY <1>1, <1>2, <1>3, <1>5, <1>6, <1>12, StateMerged
<1>9. TimeCalm(a)
  BY <1>7, <1>12 DEF TimeCalm
<1>. QED BY <1>7, <1>9 DEF Calm

LEMMA MergeIsSync ==
  ASSUME WorkInv, NEW a \in Agent, work[a].at = "merge" PROVE SyncJob(work[a], DOMAIN syncs)
<1>1. JobOf(a, work[a], DOMAIN syncs)
  BY MyJob
<1>. QED BY <1>1, JobAt

LEMMA MergeStateMoves ==
  ASSUME WorkInv, TablesInv, NEW a \in Agent, MergeState(a)
  PROVE  /\ Moves(a) /\ TablesInv' /\ HealthCalm(a) /\ ReadingsGrow /\ work'[a].at # "merge"
         /\ SyncJob(work[a], DOMAIN syncs) /\ work[a].at = "merge"
         /\ twins'[work[a].twin].synced = SyncedBy(work[a].state, twins[work[a].twin].synced)
         /\ \A u \in TwinId \ {work[a].twin} : twins'[u] = twins[u]
<1>1. work[a].at = "merge"
  BY DEF MergeState
<1>2. SyncJob(work[a], DOMAIN syncs)
  BY <1>1, MergeIsSync
<1>3. PICK t \in TwinId : t = work[a].twin
  BY <1>2 DEF SyncJob, OnTwin
<1>4. PICK state, last : state = Overwritten(twins[t].state, work[a].state) /\ last = SyncedBy(work[a].state, twins[t].synced)
  OBVIOUS
<1>10. PICK x : x = [twins[t] EXCEPT !.state = state, !.synced = last]
  OBVIOUS
<1>11. DOMAIN twins = TwinId /\ TwinOK(twins[t])
  BY DEF TablesInv
<1>12. TwinOK(x) /\ x.health = twins[t].health /\ x.synced = last
  <2>1. DOMAIN x = {"state", "health", "since", "synced"} /\ x.health = twins[t].health /\ x.synced = last
    BY <1>10, <1>11 DEF TwinOK
  <2>2. \A p, q \in last : p = q
    BY <1>4, <1>11 DEF TwinOK, SyncedBy, LastReadingAt
  <2>. QED BY <1>11, <2>1, <2>2 DEF TwinOK
<1>5. twins' = [twins EXCEPT ![work[a].twin] = x]
  <2>2. twins' = [twins EXCEPT ![work[a].twin].state = Overwritten(@, work[a].state),
                               ![work[a].twin].synced = SyncedBy(work[a].state, @)]
    BY DEF MergeState
  <2>. QED BY <1>3, <1>4, <1>10, <1>11, <2>2 DEF TwinOK
<1>6. PICK at \in {"stamp", "record"} : Onward(a, at)
  BY DEF MergeState
<1>7. UNCHANGED <<metrics, syncs>>
  BY DEF MergeState
<1>8. work[a].source # "client" /\ "source" \in DOMAIN work[a]
  BY <1>1, <1>2 DEF SyncJob, SyncTypes, HealthSteps
<1>9. /\ Moves(a) /\ TablesInv' /\ HealthCalm(a) /\ ReadingsGrow /\ work'[a].at = at
      /\ twins'[t] = x /\ \A u \in TwinId \ {t} : twins'[u] = twins[u]
  <2>1. TwinOK(x) /\ x.health = twins[work[a].twin].health
    BY <1>3, <1>12
  <2>2. at = "record" => work[a].source # "client" /\ "source" \in DOMAIN work[a]
    BY <1>8
  <2>3. work[a].at # "overall_health"
    BY <1>1
  <2>4. /\ Moves(a) /\ TablesInv' /\ HealthCalm(a) /\ ReadingsGrow /\ work'[a].at = at
        /\ twins'[work[a].twin] = x /\ \A u \in TwinId \ {work[a].twin} : twins'[u] = twins[u]
    BY <1>2, <1>5, <1>6, <1>7, <2>1, <2>2, <2>3, StateMerged
  <2>. QED BY <1>3, <2>4
<1>. QED BY <1>1, <1>2, <1>3, <1>4, <1>9, <1>12

\* A merge has the time of the reading it is of, or none.
LEMMA LastOfMerged ==
  ASSUME NEW type \in {"temperature", "humidity", "quality"}, NEW r, NEW data \in Merged(type, r)
  PROVE  LastReadingAt(data) \subseteq {r.stamp}
<1>1. CASE type = "temperature"
  <2> DEFINE columns == [temperature |-> {r.temp}, last_reading_at |-> {r.stamp},
                         humidity |-> r.humidity, quality_score |-> r.quality]
  <2>1. data = Json(columns)
    BY <1>1 DEF Merged
  <2>2. columns.last_reading_at = {r.stamp} /\ "last_reading_at" \in DOMAIN columns
    OBVIOUS
  <2> HIDE DEF columns
  <2>3. {r.stamp} # {} /\ (CHOOSE v \in {r.stamp} : TRUE) = r.stamp
    <3>1. \A x : (CHOOSE v \in {x} : TRUE) \in {x}
      OBVIOUS
    <3>. QED BY <3>1
  <2>4. data["last_reading_at"] = <<"text", r.stamp>> /\ "last_reading_at" \in DOMAIN data
    BY <2>1, <2>2, <2>3 DEF Json
  <2>. QED BY <2>4 DEF LastReadingAt
<1>2. CASE type = "humidity"
  <2>1. data = Json([last_humidity_reading_at |-> {r.stamp}, humidity |-> r.humidity])
    BY <1>2 DEF Merged
  <2>2. "last_reading_at" \notin DOMAIN data
    BY <2>1 DEF Json
  <2>. QED BY <2>2 DEF LastReadingAt
<1>3. CASE type = "quality"
  <2>1. data = Json([last_quality_reading_at |-> {r.stamp}, quality_score |-> r.quality])
    BY <1>3 DEF Merged
  <2>2. "last_reading_at" \notin DOMAIN data
    BY <2>1 DEF Json
  <2>. QED BY <2>2 DEF LastReadingAt
<1>. QED BY <1>1, <1>2, <1>3

LEMMA ReadNewestMoves ==
  ASSUME WorkInv, TablesInv, NEW a \in Agent, ReadNewest(a)
  PROVE  /\ Moves(a) /\ TablesInv' /\ HealthCalm(a) /\ UNCHANGED <<twins, readings, syncs>>
         /\ SyncJob(work[a], DOMAIN syncs)
         /\ \/ work'[a].at # "merge"
            \/ /\ work'[a].twin = work[a].twin /\ work'[a].sync = work[a].sync
               /\ \E i \in Newest(work[a].sync[1][1]) :
                    LastReadingAt(work'[a].state) \subseteq {readings[i].row.stamp}
<1>1. JobOf(a, work[a], DOMAIN syncs) /\ work[a].at \in {"temperature", "humidity", "quality"}
  BY MyJob DEF ReadNewest
<1>2. SyncJob(work[a], DOMAIN syncs)
  BY <1>1, JobAt DEF SyncTypes
<1>3. UNCHANGED <<twins, readings, syncs, metrics>>
  BY DEF ReadNewest, twinTables, sensorVars, Onward
<1>4. TablesInv'
  BY <1>3 DEF TablesInv
<1>5. BusyOn(a, work[a].twin) /\ OnTwin(work[a])
  BY <1>1, <1>2 DEF SyncJob, BusyOn, OnTwin, AtRest
<1>6. CASE Onward(a, "stamp")
  <2>1. JobOf(a, [work[a] EXCEPT !.at = "stamp"], DOMAIN syncs)
    BY <1>2, SyncGoesOn
  <2>2. Moves(a) /\ work'[a].at = "stamp"
    BY <1>3, <1>5, <1>6, <2>1, OnwardMoves
  <2>3. HealthCalm(a)
    BY <1>1, <1>3, <2>2 DEF HealthCalm
  <2>. QED BY <1>2, <1>3, <1>4, <2>2, <2>3
<1>7. ASSUME NEW i \in Newest(work[a].sync[1][1]), NEW data \in Merged(work[a].at, readings[i].row),
             Next1(a, [at |-> "merge", type |-> work[a].at, state |-> data, source |-> "sync",
                       twin |-> work[a].twin, sync |-> work[a].sync, todo |-> work[a].todo])
      PROVE  /\ Moves(a) /\ HealthCalm(a) /\ work'[a].twin = work[a].twin /\ work'[a].sync = work[a].sync
             /\ LastReadingAt(work'[a].state) \subseteq {readings[i].row.stamp}
  <2>1. PICK j : j = [at |-> "merge", type |-> work[a].at, state |-> data, source |-> "sync",
                      twin |-> work[a].twin, sync |-> work[a].sync, todo |-> work[a].todo]
    OBVIOUS
  <2>2. /\ j.at = "merge" /\ j.twin = work[a].twin /\ j.sync = work[a].sync /\ j.todo = work[a].todo
        /\ j.state = data /\ j.source = "sync"
        /\ DOMAIN j = {"at", "type", "state", "source", "twin", "sync", "todo"}
    BY <2>1
  <2>3. JobOf(a, j, DOMAIN syncs)
    BY <1>2, <2>2 DEF JobOf, SyncJob, OnTwin
  <2>4. Moves(a) /\ work'[a] = j
    BY <1>3, <1>5, <1>7, <2>1, <2>2, <2>3, Nexts
  <2>5. HealthCalm(a)
    BY <1>1, <1>3, <2>2, <2>4 DEF HealthCalm
  <2>6. LastReadingAt(data) \subseteq {readings[i].row.stamp}
    BY <1>1, <1>7, LastOfMerged
  <2>. QED BY <2>2, <2>4, <2>5, <2>6
<1>8. Onward(a, "stamp") \/
      \E i \in Newest(work[a].sync[1][1]) : \E data \in Merged(work[a].at, readings[i].row) :
        Next1(a, [at |-> "merge", type |-> work[a].at, state |-> data, source |-> "sync",
                  twin |-> work[a].twin, sync |-> work[a].sync, todo |-> work[a].todo])
  BY DEF ReadNewest
<1>. QED BY <1>2, <1>3, <1>4, <1>6, <1>7, <1>8

\* The steps of a computation of health.
LEMMA ReadHealthHistoryMoves ==
  ASSUME WorkInv, TablesInv, NEW a \in Agent, ReadHealthHistory(a)
  PROVE  /\ Moves(a) /\ TablesInv' /\ TimeCalm(a) /\ work[a].at = "health"
         /\ UNCHANGED <<twins, metrics>>
         /\ \/ work'[a] = AtRest
            \/ /\ work'[a].twin = work[a].twin /\ work'[a].at = "write"
               /\ work'[a].seen = twins[work[a].twin].health
<1>1. JobOf(a, work[a], DOMAIN syncs) /\ work[a].at = "health"
  BY MyJob DEF ReadHealthHistory
<1>2. "health" \in HealthSteps /\ "health" \notin {"record", "merge", "stamp", "write"} \union SyncTypes
  BY DEF HealthSteps, SyncTypes
<1>3. (RequestJob(work[a]) /\ a # SyncLoop) \/ SyncJob(work[a], DOMAIN syncs)
  BY <1>1, <1>2, JobAt
<1>4. OnTwin(work[a])
  BY <1>3 DEF RequestJob, SyncJob
<1>5. UNCHANGED <<twins, metrics, syncs, readings>>
  BY DEF ReadHealthHistory, twinTables, End, sensorVars
<1>6. TablesInv'
  BY <1>5 DEF TablesInv
<1>7. CASE Next1(a, AtRest)
  <2>1. Moves(a) /\ work'[a] = AtRest /\ work'[a].at = "rest"
    BY <1>5, <1>7, EndMoves
  <2>2. TimeCalm(a)
    BY <1>5, <2>1 DEF TimeCalm, ReadingsGrow
  <2>. QED BY <1>1, <1>5, <1>6, <2>1, <2>2
<1>8. CASE Next1(a, [work[a] EXCEPT !.at = "write", !.seen = twins[work[a].twin].health])
  <2>1. PICK j : j = [work[a] EXCEPT !.at = "write", !.seen = twins[work[a].twin].health]
    OBVIOUS
  <2>2. "seen" \in DOMAIN work[a] /\ "at" \in DOMAIN work[a]
    BY <1>1, <1>2, <1>3 DEF RequestJob, SyncJob, OnTwin
  <2>3. /\ DOMAIN j = DOMAIN work[a] /\ j.at = "write" /\ j.seen = twins[work[a].twin].health
        /\ j.twin = work[a].twin /\ j.sync = work[a].sync /\ j.todo = work[a].todo
    BY <2>1, <2>2
  <2>4. OnTwin(j) /\ "write" \in HealthSteps
    BY <1>4, <2>3 DEF OnTwin, HealthSteps
  <2>5. SeenIsList(j)
    BY <1>4, <2>3 DEF TablesInv, TwinOK, OnTwin, SeenIsList
  <2>6. JobOf(a, j, DOMAIN syncs)
    <3>1. CASE RequestJob(work[a]) /\ a # SyncLoop
      <4>1. {"seen", "score", "sync"} \subseteq DOMAIN work[a] /\ work[a].sync = <<>>
        BY <1>1, <1>2, <3>1 DEF RequestJob
      <4>2. RequestJob(j)
        BY <2>3, <2>4, <2>5, <4>1 DEF RequestJob
      <4>. QED BY <3>1, <4>2 DEF JobOf
    <3>2. CASE SyncJob(work[a], DOMAIN syncs)
      <4>1. {"seen", "score"} \subseteq DOMAIN work[a]
        BY <1>1, <1>2, <3>2 DEF SyncJob
      <4>2. SyncJob(j, DOMAIN syncs)
        BY <2>3, <2>4, <2>5, <3>2, <4>1 DEF SyncJob
      <4>. QED BY <4>2 DEF JobOf
    <3>. QED BY <1>3, <3>1, <3>2
  <2>7. BusyOn(a, j.twin)
    BY <1>4, <2>3 DEF BusyOn, OnTwin, AtRest
  <2>8. Moves(a) /\ work'[a] = j
    BY <1>5, <1>8, <2>1, <2>6, <2>7, Nexts
  <2>9. TimeCalm(a)
    BY <1>5, <2>3, <2>8 DEF TimeCalm, ReadingsGrow
  <2>. QED BY <1>1, <1>5, <1>6, <2>3, <2>8, <2>9
<1>. QED BY <1>7, <1>8 DEF ReadHealthHistory, End

LEMMA UpdateTwinHealthMoves ==
  ASSUME WorkInv, TablesInv, NEW a \in Agent, UpdateTwinHealth(a)
  PROVE  /\ Moves(a) /\ TablesInv' /\ TimeCalm(a) /\ work[a].at = "write" /\ OnTwin(work[a])
         /\ metrics' = metrics /\ \A u \in TwinId \ {work[a].twin} : twins'[u] = twins[u]
         /\ twins'[work[a].twin].health = KeepLast(Append(work[a].seen, work[a].score))
         /\ work'[a] = [work[a] EXCEPT !.at = "overall_health"]
<1>1. JobOf(a, work[a], DOMAIN syncs) /\ work[a].at = "write"
  BY MyJob DEF UpdateTwinHealth
<1>2. "write" \in HealthSteps /\ "overall_health" \in HealthSteps \ {"write"}
      /\ "write" \notin {"record", "merge", "stamp"} \union SyncTypes
  BY DEF HealthSteps, SyncTypes
<1>3. OnTwin(work[a]) /\ JobOf(a, [work[a] EXCEPT !.at = "overall_health"], DOMAIN syncs)
  BY <1>1, <1>2, HealthGoesOn
<1>4. IsList(work[a].seen)
  <2>1. (RequestJob(work[a]) /\ a # SyncLoop) \/ SyncJob(work[a], DOMAIN syncs)
    BY <1>1, <1>2, JobAt
  <2>2. SeenIsList(work[a])
    BY <1>1, <1>2, <2>1 DEF RequestJob, SyncJob
  <2>. QED BY <1>1, <2>2 DEF SeenIsList
<1>5. /\ UNCHANGED <<metrics, syncs, readings>> /\ Onward(a, "overall_health")
  BY DEF UpdateTwinHealth, Onward, sensorVars
<1>6. Moves(a) /\ work'[a] = [work[a] EXCEPT !.at = "overall_health"] /\ work'[a].at = "overall_health"
  BY <1>3, <1>5, OnwardMoves
<1>7. PICK t \in TwinId : t = work[a].twin
  BY <1>3 DEF OnTwin
<1>8. PICK h : h = KeepLast(Append(work[a].seen, work[a].score))
  OBVIOUS
<1>9. twins' = [twins EXCEPT ![t].health = h]
  BY <1>7, <1>8 DEF UpdateTwinHealth
<1>10. DOMAIN twins = TwinId /\ \A u \in TwinId : TwinOK(twins[u])
  BY DEF TablesInv
<1>11. twins'[t] = [twins[t] EXCEPT !.health = h] /\ \A u \in TwinId \ {t} : twins'[u] = twins[u]
  BY <1>9, <1>10
<1>12. IsList(h)
  <2>1. PICK l : l = Append(work[a].seen, work[a].score)
    OBVIOUS
  <2>2. IsList(l)
    BY <1>4, <2>1, LongerList
  <2>. QED BY <1>8, <2>1, <2>2, LastOnes, TwinAssumption
<1>13. TwinOK(twins'[t]) /\ twins'[t].health = h /\ twins'[t].synced = twins[t].synced
  BY <1>10, <1>11, <1>12 DEF TwinOK
<1>14. TablesInv'
  BY <1>5, <1>9, <1>10, <1>11, <1>13 DEF TablesInv
<1>15. TimeCalm(a)
  BY <1>5, <1>6, <1>11, <1>13 DEF TimeCalm, ReadingsGrow
<1>. QED BY <1>1, <1>3, <1>5, <1>6, <1>7, <1>8, <1>11, <1>13, <1>14, <1>15

LEMMA StoreHealthMetricsMoves ==
  ASSUME WorkInv, TablesInv, NEW a \in Agent, StoreHealthMetrics(a)
  PROVE  /\ Moves(a) /\ TablesInv' /\ TimeCalm(a) /\ OnTwin(work[a])
         /\ work[a].at \in {"overall_health", "temperature_stress", "humidity_stress"}
         /\ twins' = twins /\ \A u \in TwinId \ {work[a].twin} : metrics'[u] = metrics[u]
         /\ metrics'[work[a].twin] = Append(metrics[work[a].twin], MetricOf(work[a]))
         /\ work'[a].at \notin {"write", "overall_health", "merge"}
<1>1. JobOf(a, work[a], DOMAIN syncs) /\ work[a].at \in {"overall_health", "temperature_stress", "humidity_stress"}
  BY MyJob DEF StoreHealthMetrics
<1>2. /\ work[a].at \in HealthSteps /\ {"temperature_stress", "humidity_stress"} \subseteq HealthSteps \ {"write"}
      /\ "decay" \in SyncTypes /\ HealthSteps \intersect ({"record", "merge", "stamp"} \union SyncTypes) = {}
  BY <1>1 DEF HealthSteps, SyncTypes
<1>3. OnTwin(work[a])
  BY <1>1, <1>2, HealthGoesOn
<1>4. twins' = twins /\ UNCHANGED <<syncs, readings>>
  BY DEF StoreHealthMetrics, Onward, End, sensorVars
<1>5. Moves(a) /\ work'[a].at \notin {"write", "overall_health", "merge"}
  <2>1. CASE Onward(a, "temperature_stress")
    BY <1>1, <1>2, <1>3, <1>4, <2>1, HealthGoesOn, OnwardMoves
  <2>2. CASE Onward(a, "humidity_stress")
    BY <1>1, <1>2, <1>3, <1>4, <2>2, HealthGoesOn, OnwardMoves
  <2>3. CASE Next1(a, AtRest)
    BY <1>4, <2>3, EndMoves
  <2>4. CASE work[a].sync # <<>> /\ Onward(a, "decay")
    <3>1. (RequestJob(work[a]) /\ a # SyncLoop) \/ SyncJob(work[a], DOMAIN syncs)
      BY <1>1, <1>2, JobAt
    <3>2. SyncJob(work[a], DOMAIN syncs)
      BY <1>2, <2>4, <3>1 DEF RequestJob
    <3>3. JobOf(a, [work[a] EXCEPT !.at = "decay"], DOMAIN syncs)
      BY <1>2, <3>2, SyncGoesOn
    <3>. QED BY <1>3, <1>4, <2>4, <3>3, OnwardMoves
  <2>. QED BY <1>1, <2>1, <2>2, <2>3, <2>4 DEF StoreHealthMetrics, End
<1>6. PICK t \in TwinId : t = work[a].twin
  BY <1>3 DEF OnTwin
<1>7. DOMAIN metrics = TwinId /\ \A u \in TwinId : IsList(metrics[u])
  BY DEF TablesInv
<1>8. metrics' = [metrics EXCEPT ![t] = Append(metrics[t], MetricOf(work[a]))]
  BY <1>6, <1>7 DEF StoreHealthMetrics
<1>9. metrics'[t] = Append(metrics[t], MetricOf(work[a])) /\ \A u \in TwinId \ {t} : metrics'[u] = metrics[u]
  BY <1>7, <1>8
<1>10. IsList(metrics'[t])
  BY <1>7, <1>9, LongerList
<1>11. TablesInv'
  BY <1>4, <1>7, <1>8, <1>9, <1>10 DEF TablesInv
<1>12. TimeCalm(a)
  BY <1>4, <1>5 DEF TimeCalm, ReadingsGrow
<1>. QED BY <1>1, <1>3, <1>4, <1>5, <1>6, <1>9, <1>11, <1>12

------------------------------------------------------------------------------
(* What a twin remembers of its health.                                    *)

Scores(m) == Kept(m, {x \in Range(m) : x[1] = "overall_health"})

HoldsLast(h, s) ==
  /\ Len(h) = IF Len(s) < HistoryCap THEN Len(s) ELSE HistoryCap
  /\ \A i \in 0 .. Len(h) - 1 : h[Len(h) - i] = s[Len(s) - i][2]

Backed(h, m) == HoldsLast(h, Scores(m))

LEMMA ScoresAppended ==
  ASSUME NEW m, IsList(m), NEW x
  PROVE  /\ \E E : Scores(m) \in Seq(E) /\ x \in E
         /\ Scores(Append(m, x)) = IF x[1] = "overall_health" THEN Append(Scores(m), x) ELSE Scores(m)
<1>1. PICK E : E = Range(m) \union {x}
  OBVIOUS
<1>2. m \in Seq(E) /\ x \in E /\ Range(m) \subseteq E
  BY <1>1 DEF IsList
<1>3. PICK l : l = Append(m, x)
  OBVIOUS
<1>4. l \in Seq(E) /\ IsList(l) /\ x \in Range(l) /\ Range(m) \subseteq Range(l)
  <2>1. l \in Seq(E)
    BY <1>2, <1>3, AppendProperties
  <2>2. /\ IsList(l) /\ Len(m) \in Nat /\ l[Len(m) + 1] = x /\ DOMAIN m = 1 .. Len(m)
        /\ DOMAIN l = 1 .. Len(m) + 1 /\ \A i \in DOMAIN m : i \in DOMAIN l /\ l[i] = m[i]
    BY <1>3, LongerList
  <2>3. x \in Range(l)
    <3>1. Len(m) + 1 \in DOMAIN l
      BY <2>2
    <3>. QED BY <2>2, <3>1 DEF Range
  <2>4. Range(m) \subseteq Range(l)
    BY <2>2 DEF Range
  <2>. QED BY <2>1, <2>2, <2>3, <2>4
<1>5. PICK T : T = {e \in E : e[1] = "overall_health"}
  OBVIOUS
<1>6. Scores(m) = Kept(m, T)
  <2>1. PICK U : U = {e \in Range(m) : e[1] = "overall_health"}
    OBVIOUS
  <2>2. \A e \in Range(m) : e \in U <=> e \in T
    BY <1>2, <1>5, <2>1
  <2>3. m \in Seq(Range(m))
    BY DEF IsList
  <2>4. PICK R : R = Range(m)
    OBVIOUS
  <2>5. Kept(m, U) = Kept(m, T)
    BY <2>2, <2>3, <2>4, KeptAlike
  <2>. QED BY <2>1, <2>5 DEF Scores
<1>7. Scores(l) = Kept(l, T)
  <2>1. PICK U : U = {e \in Range(l) : e[1] = "overall_health"}
    OBVIOUS
  <2>2. PICK R : R = Range(l)
    OBVIOUS
  <2>3. l \in Seq(R)
    BY <1>4, <2>2 DEF IsList
  <2>4. R \subseteq E
    <3>1. \A i \in DOMAIN l : l[i] \in E
      BY <1>4, ElementOfSeq, LenProperties
    <3>. QED BY <2>2, <3>1 DEF Range
  <2>5. \A e \in R : e \in U <=> e \in T
    BY <1>5, <2>1, <2>2, <2>4
  <2>6. Kept(l, U) = Kept(l, T)
    BY <2>3, <2>5, KeptAlike
  <2>. QED BY <2>1, <2>6 DEF Scores
<1>8. Kept(Append(m, x), T) = IF x \in T THEN Append(Kept(m, T), x) ELSE Kept(m, T)
  BY <1>2, KeptAppended
<1>9. x \in T <=> x[1] = "overall_health"
  BY <1>2, <1>5
<1>10. Scores(m) \in Seq(E)
  BY <1>2, <1>6, KeptType
<1>. QED BY <1>2, <1>3, <1>6, <1>7, <1>8, <1>9, <1>10

\* A score more at the end of both.
LEMMA BothOneMore ==
  ASSUME NEW h, IsList(h), NEW E, NEW s \in Seq(E), HoldsLast(h, s), NEW x \in E, NEW v, x[2] = v
  PROVE  HoldsLast(KeepLast(Append(h, v)), Append(s, x))
<1>1. PICK n \in Nat, p \in Nat, c \in Nat : n = Len(h) /\ p = Len(s) /\ c = HistoryCap
  <2>1. Len(h) \in Nat /\ Len(s) \in Nat /\ HistoryCap \in Nat
    BY LongerList, LenProperties, TwinAssumption
  <2>. QED BY <2>1
<1>2. n = (IF p < c THEN p ELSE c) /\ \A i \in 0 .. n - 1 : h[n - i] = s[p - i][2]
  BY <1>1 DEF HoldsLast
<1>3. PICK l : l = Append(h, v)
  OBVIOUS
<1>4. IsList(l) /\ Len(l) = n + 1 /\ l[n + 1] = v /\ \A i \in 1 .. n : l[i] = h[i]
  BY <1>1, <1>3, LongerList
<1>5. PICK k : k = KeepLast(l)
  OBVIOUS
<1>6. /\ IsList(k) /\ Len(k) = IF Len(l) < HistoryCap THEN Len(l) ELSE HistoryCap
      /\ \A i \in 0 .. Len(k) - 1 : k[Len(k) - i] = l[Len(l) - i]
  <2>1. HistoryCap \in Nat
    BY TwinAssumption
  <2>. QED BY <1>4, <1>5, <2>1, LastOnes
<1>7. PICK q \in Nat : q = Len(k)
  BY <1>6, LongerList
<1>8. q = (IF n + 1 < c THEN n + 1 ELSE c) /\ \A i \in 0 .. q - 1 : k[q - i] = l[n + 1 - i]
  <2>1. Len(l) = n + 1 /\ Len(k) = q /\ HistoryCap = c
    BY <1>1, <1>4, <1>7
  <2>2. q = IF n + 1 < c THEN n + 1 ELSE c
    BY <1>6, <2>1
  <2>3. \A i \in 0 .. q - 1 : k[q - i] = l[n + 1 - i]
    BY <1>6, <2>1
  <2>. QED BY <2>2, <2>3
<1>9. PICK r : r = Append(s, x)
  OBVIOUS
<1>10. Len(r) = p + 1 /\ r[p + 1] = x /\ \A i \in 1 .. p : r[i] = s[i]
  BY <1>1, <1>9, AppendProperties
<1>11. q = (IF p + 1 < c THEN p + 1 ELSE c) /\ n <= p /\ q <= n + 1
  BY <1>2, <1>8
<1>12. ASSUME NEW i \in 0 .. q - 1 PROVE k[q - i] = r[p + 1 - i][2]
  <2>1. k[q - i] = l[n + 1 - i]
    BY <1>8
  <2>2. CASE i = 0
    <3>1. n + 1 - i = n + 1 /\ p + 1 - i = p + 1
      BY <2>2
    <3>. QED BY <1>4, <1>10, <2>1, <3>1
  <2>3. CASE i # 0
    <3>1. i - 1 \in 0 .. n - 1 /\ n + 1 - i = n - (i - 1) /\ p + 1 - i = p - (i - 1)
      BY <1>11, <2>3
    <3>2. n - (i - 1) \in 1 .. n /\ p - (i - 1) \in 1 .. p
      BY <1>11, <2>3
    <3>3. PICK j : j = i - 1
      OBVIOUS
    <3>4. l[n - j] = h[n - j] /\ r[p - j] = s[p - j]
      BY <1>4, <1>10, <3>2, <3>3
    <3>5. h[n - j] = s[p - j][2]
      BY <1>2, <3>1, <3>3
    <3>. QED BY <2>1, <3>1, <3>3, <3>4, <3>5
  <2>. QED BY <2>2, <2>3
<1>13. Len(k) = q /\ Len(r) = p + 1 /\ HistoryCap = c
  BY <1>1, <1>7, <1>10
<1>14. HoldsLast(k, r)
  BY <1>11, <1>12, <1>13 DEF HoldsLast
<1>. QED BY <1>3, <1>5, <1>9, <1>14

LEMMA BackedByOneMore ==
  ASSUME NEW h, IsList(h), NEW m, IsList(m), Backed(h, m), NEW x, x[1] = "overall_health", NEW v, x[2] = v
  PROVE  Backed(KeepLast(Append(h, v)), Append(m, x))
<1>1. PICK E : Scores(m) \in Seq(E) /\ x \in E
  BY ScoresAppended
<1>2. HoldsLast(KeepLast(Append(h, v)), Append(Scores(m), x))
  BY <1>1, BothOneMore DEF Backed
<1>3. Scores(Append(m, x)) = Append(Scores(m), x)
  BY ScoresAppended
<1>. QED BY <1>2, <1>3 DEF Backed

AtTwin(j, t) == j # AtRest /\ "twin" \in DOMAIN j /\ j.twin = t

BetweenWrites(j, t) == AtTwin(j, t) /\ j.at = "overall_health"

\* What a job that has read the history knows, and one that has written it owes.
HealthJob(j, t, h, m) ==
  /\ BetweenWrites(j, t) => Backed(h, Append(m, MetricOf(j)))
  /\ AtTwin(j, t) /\ j.at = "write" => j.seen = h

HealthInv ==
  ~iotTally.crossed /\ iotTally.faults = 0 =>
    \A t \in TwinId :
      /\ \A a \in Agent : HealthJob(work[a], t, twins[t].health, metrics[t])
      /\ (\A a \in Agent : ~BetweenWrites(work[a], t)) => Backed(twins[t].health, metrics[t])

\* Nothing has been noted before either.
LEMMA NothingNoted ==
  ASSUME WorkInv, NEW a, Moves(a), ~iotTally'.crossed, iotTally'.faults = 0
  PROVE  ~iotTally.crossed /\ iotTally.faults = 0
<1>1. iotTally.faults \in Nat
  BY DEF WorkInv, Tally
<1>. QED BY <1>1 DEF Moves, TallyGrows

LEMMA HealthCalmKeeps ==
  ASSUME WorkInv, HealthInv, NEW a \in Agent, Moves(a), HealthCalm(a)
  PROVE  HealthInv'
<1> SUFFICES ASSUME ~iotTally'.crossed, iotTally'.faults = 0, NEW t \in TwinId
             PROVE  /\ \A b \in Agent : HealthJob(work'[b], t, twins'[t].health, metrics'[t])
                    /\ (\A b \in Agent : ~BetweenWrites(work'[b], t)) => Backed(twins'[t].health, metrics'[t])
  BY DEF HealthInv
<1>1. ~iotTally.crossed /\ iotTally.faults = 0
  BY NothingNoted
<1>2. /\ \A b \in Agent : HealthJob(work[b], t, twins[t].health, metrics[t])
      /\ (\A b \in Agent : ~BetweenWrites(work[b], t)) => Backed(twins[t].health, metrics[t])
  BY <1>1 DEF HealthInv
<1>3. metrics' = metrics /\ twins'[t].health = twins[t].health
  BY DEF HealthCalm
<1>4. \A b \in Agent \ {a} : work'[b] = work[b]
  BY DEF Moves
<1>5. HealthJob(work'[a], t, twins'[t].health, metrics'[t])
  <2>1. CASE work'[a] = work[a]
    BY <1>2, <1>3, <2>1
  <2>2. CASE work'[a] # work[a]
    <3>1. work'[a].at \notin {"write", "overall_health"}
      BY <2>2 DEF HealthCalm
    <3>. QED BY <3>1 DEF HealthJob, BetweenWrites
  <2>. QED BY <2>1, <2>2
<1>6. \A b \in Agent : HealthJob(work'[b], t, twins'[t].health, metrics'[t])
  BY <1>2, <1>3, <1>4, <1>5
<1>7. ASSUME \A b \in Agent : ~BetweenWrites(work'[b], t) PROVE Backed(twins'[t].health, metrics'[t])
  <2>1. ~BetweenWrites(work[a], t)
    <3>1. CASE work'[a] = work[a]
      BY <1>7, <3>1
    <3>2. CASE work'[a] # work[a]
      <4>1. work[a].at # "overall_health"
        BY <3>2 DEF HealthCalm
      <4>. QED BY <4>1 DEF BetweenWrites
    <3>. QED BY <3>1, <3>2
  <2>2. \A b \in Agent : ~BetweenWrites(work[b], t)
    BY <1>4, <1>7, <2>1
  <2>. QED BY <1>2, <1>3, <2>2
<1>. QED BY <1>6, <1>7

\* An agent that is at a twin alone.
LEMMA AloneAt ==
  ASSUME WorkInv, ~iotTally.crossed, NEW a \in Agent, NEW t \in TwinId, AtTwin(work[a], t)
  PROVE  \A b \in Agent \ {a} : ~AtTwin(work[b], t)
<1>1. \A b \in Agent : BusyOn(b, t) <=> AtTwin(work[b], t)
  BY DEF BusyOn, AtTwin
<1>. QED BY <1>1 DEF WorkInv

\* A step of a computation of health, on its twin: the other twins are left alone.
LEMMA HealthStepKeeps ==
  ASSUME WorkInv, HealthInv, NEW a \in Agent, Moves(a), NEW t \in TwinId, AtTwin(work[a], t),
         work'[a] = AtRest \/ work'[a].twin = t,
         \A u \in TwinId \ {t} : twins'[u].health = twins[u].health /\ metrics'[u] = metrics[u],
         /\ ~iotTally.crossed /\ iotTally.faults = 0 /\ (\A b \in Agent \ {a} : ~AtTwin(work[b], t))
            => /\ HealthJob(work'[a], t, twins'[t].health, metrics'[t])
               /\ ~BetweenWrites(work'[a], t) => Backed(twins'[t].health, metrics'[t])
  PROVE  HealthInv'
<1> SUFFICES ASSUME ~iotTally'.crossed, iotTally'.faults = 0, NEW u \in TwinId
             PROVE  /\ \A b \in Agent : HealthJob(work'[b], u, twins'[u].health, metrics'[u])
                    /\ (\A b \in Agent : ~BetweenWrites(work'[b], u)) => Backed(twins'[u].health, metrics'[u])
  BY DEF HealthInv
<1>1. ~iotTally.crossed /\ iotTally.faults = 0
  BY NothingNoted
<1>2. /\ \A b \in Agent : HealthJob(work[b], u, twins[u].health, metrics[u])
      /\ (\A b \in Agent : ~BetweenWrites(work[b], u)) => Backed(twins[u].health, metrics[u])
  BY <1>1 DEF HealthInv
<1>3. \A b \in Agent \ {a} : work'[b] = work[b]
  BY DEF Moves
<1>4. CASE u = t
  <2>1. \A b \in Agent \ {a} : ~AtTwin(work[b], t)
    BY <1>1, AloneAt
  <2>2. /\ HealthJob(work'[a], t, twins'[t].health, metrics'[t])
        /\ ~BetweenWrites(work'[a], t) => Backed(twins'[t].health, metrics'[t])
    BY <1>1, <2>1
  <2>3. \A b \in Agent \ {a} : HealthJob(work'[b], t, twins'[t].health, metrics'[t])
    BY <1>3, <2>1 DEF HealthJob, BetweenWrites
  <2>. QED BY <1>4, <2>2, <2>3
<1>5. CASE u # t
  <2>1. ~AtTwin(work'[a], u) /\ ~AtTwin(work[a], u)
    BY <1>5 DEF AtTwin
  <2>2. HealthJob(work'[a], u, twins'[u].health, metrics'[u]) /\ ~BetweenWrites(work[a], u)
    BY <2>1 DEF HealthJob, BetweenWrites
  <2>3. twins'[u].health = twins[u].health /\ metrics'[u] = metrics[u]
    BY <1>5
  <2>. QED BY <1>2, <1>3, <2>2, <2>3
<1>. QED BY <1>4, <1>5

LEMMA ReadHealthHistoryKeeps ==
  ASSUME WorkInv, TablesInv, HealthInv, NEW a \in Agent, ReadHealthHistory(a)
  PROVE  HealthInv'
<1>1. /\ Moves(a) /\ work[a].at = "health" /\ UNCHANGED <<twins, metrics>>
      /\ \/ work'[a] = AtRest
         \/ /\ work'[a].twin = work[a].twin /\ work'[a].at = "write"
            /\ work'[a].seen = twins[work[a].twin].health
  BY ReadHealthHistoryMoves
<1>2. OnTwin(work[a]) /\ work[a] # AtRest
  <2>1. JobOf(a, work[a], DOMAIN syncs)
    BY MyJob
  <2>2. "health" \in HealthSteps
    BY DEF HealthSteps
  <2>3. OnTwin(work[a])
    BY <1>1, <2>1, <2>2, JobAt DEF RequestJob, SyncJob
  <2>. QED BY <1>1, <2>3 DEF AtRest
<1>3. PICK t \in TwinId : t = work[a].twin
  BY <1>2 DEF OnTwin
<1>4. AtTwin(work[a], t) /\ ~BetweenWrites(work[a], t)
  BY <1>1, <1>2, <1>3 DEF AtTwin, OnTwin, BetweenWrites
<1>5. ASSUME ~iotTally.crossed, iotTally.faults = 0, \A b \in Agent \ {a} : ~AtTwin(work[b], t)
      PROVE  /\ HealthJob(work'[a], t, twins'[t].health, metrics'[t])
             /\ Backed(twins'[t].health, metrics'[t])
  <2>1. \A b \in Agent : ~BetweenWrites(work[b], t)
    BY <1>4, <1>5 DEF BetweenWrites
  <2>2. Backed(twins[t].health, metrics[t])
    BY <1>5, <2>1 DEF HealthInv
  <2>3. HealthJob(work'[a], t, twins'[t].health, metrics'[t])
    <3>1. CASE work'[a] = AtRest
      BY <3>1 DEF HealthJob, BetweenWrites, AtTwin
    <3>2. CASE work'[a].at = "write" /\ work'[a].seen = twins[t].health
      BY <1>1, <3>2 DEF HealthJob, BetweenWrites
    <3>. QED BY <1>1, <1>3, <3>1, <3>2
  <2>. QED BY <1>1, <2>2, <2>3
<1>. QED BY <1>1, <1>3, <1>4, <1>5, HealthStepKeeps

LEMMA UpdateTwinHealthKeeps ==
  ASSUME WorkInv, TablesInv, HealthInv, NEW a \in Agent, UpdateTwinHealth(a)
  PROVE  HealthInv'
<1>1. /\ Moves(a) /\ work[a].at = "write" /\ OnTwin(work[a])
      /\ metrics' = metrics /\ \A u \in TwinId \ {work[a].twin} : twins'[u] = twins[u]
      /\ twins'[work[a].twin].health = KeepLast(Append(work[a].seen, work[a].score))
      /\ work'[a] = [work[a] EXCEPT !.at = "overall_health"]
  BY UpdateTwinHealthMoves
<1>2. PICK t \in TwinId : t = work[a].twin
  BY <1>1 DEF OnTwin
<1>3. AtTwin(work[a], t) /\ ~BetweenWrites(work[a], t)
  BY <1>1, <1>2 DEF AtTwin, OnTwin, BetweenWrites, AtRest
<1>4. PICK j : j = [work[a] EXCEPT !.at = "overall_health"]
  OBVIOUS
<1>5. work'[a] = j /\ OnTwin(j) /\ j.at = "overall_health" /\ j.twin = t /\ j.score = work[a].score
  BY <1>1, <1>2, <1>4 DEF OnTwin
<1>6. AtTwin(j, t) /\ BetweenWrites(j, t)
  BY <1>5 DEF AtTwin, OnTwin, BetweenWrites, AtRest
<1>7. ASSUME ~iotTally.crossed, iotTally.faults = 0, \A b \in Agent \ {a} : ~AtTwin(work[b], t)
      PROVE  HealthJob(j, t, twins'[t].health, metrics'[t])
  <2>1. \A b \in Agent : ~BetweenWrites(work[b], t)
    BY <1>3, <1>7 DEF BetweenWrites
  <2>2. Backed(twins[t].health, metrics[t]) /\ work[a].seen = twins[t].health
    BY <1>1, <1>3, <1>7, <2>1 DEF HealthInv, HealthJob
  <2>3. PICK x : x = MetricOf(j)
    OBVIOUS
  <2>4. x[1] = "overall_health" /\ x[2] = work[a].score
    BY <1>5, <2>3 DEF MetricOf
  <2>5. IsList(twins[t].health) /\ IsList(metrics[t])
    BY DEF TablesInv, TwinOK
  <2>6. Backed(KeepLast(Append(twins[t].health, work[a].score)), Append(metrics[t], x))
    BY <2>2, <2>4, <2>5, BackedByOneMore
  <2>7. twins'[t].health = KeepLast(Append(twins[t].health, work[a].score)) /\ metrics' = metrics
    BY <1>1, <1>2, <2>2
  <2>. QED BY <1>5, <2>3, <2>6, <2>7 DEF HealthJob
<1>. QED BY <1>1, <1>2, <1>3, <1>5, <1>6, <1>7, HealthStepKeeps

LEMMA StoreHealthMetricsKeeps ==
  ASSUME WorkInv, TablesInv, HealthInv, NEW a \in Agent, StoreHealthMetrics(a)
  PROVE  HealthInv'
<1>1. /\ Moves(a) /\ OnTwin(work[a])
      /\ work[a].at \in {"overall_health", "temperature_stress", "humidity_stress"}
      /\ twins' = twins /\ \A u \in TwinId \ {work[a].twin} : metrics'[u] = metrics[u]
      /\ metrics'[work[a].twin] = Append(metrics[work[a].twin], MetricOf(work[a]))
      /\ work'[a].at \notin {"write", "overall_health", "merge"}
  BY StoreHealthMetricsMoves
<1>2. PICK t \in TwinId : t = work[a].twin
  BY <1>1 DEF OnTwin
<1>3. AtTwin(work[a], t)
  BY <1>1, <1>2 DEF AtTwin, OnTwin, AtRest
<1>4. \A m : HealthJob(work'[a], t, twins'[t].health, m)
  BY <1>1 DEF HealthJob, BetweenWrites
<1>5. ASSUME ~iotTally.crossed, iotTally.faults = 0, \A b \in Agent \ {a} : ~AtTwin(work[b], t)
      PROVE  Backed(twins'[t].health, metrics'[t])
  <2>1. CASE work[a].at = "overall_health"
    <3>1. Backed(twins[t].health, Append(metrics[t], MetricOf(work[a])))
      BY <1>3, <1>5, <2>1 DEF HealthInv, HealthJob, BetweenWrites
    <3>. QED BY <1>1, <1>2, <3>1
  <2>2. CASE work[a].at # "overall_health"
    <3>1. \A b \in Agent : ~BetweenWrites(work[b], t)
      BY <1>5, <2>2 DEF BetweenWrites
    <3>2. Backed(twins[t].health, metrics[t])
      BY <1>5, <3>1 DEF HealthInv
    <3>3. PICK x : x = MetricOf(work[a])
      OBVIOUS
    <3>4. x[1] # "overall_health"
      BY <1>1, <2>2, <3>3 DEF MetricOf
    <3>5. IsList(metrics[t])
      BY DEF TablesInv
    <3>6. Scores(Append(metrics[t], x)) = Scores(metrics[t])
      BY <3>4, <3>5, ScoresAppended
    <3>7. metrics'[t] = Append(metrics[t], x)
      BY <1>1, <1>2, <3>3
    <3>. QED BY <1>1, <3>2, <3>6, <3>7 DEF Backed
  <2>. QED BY <2>1, <2>2
<1>6. work'[a] = AtRest \/ work'[a].twin = t
  <2>1. CASE work[a].at = "humidity_stress" /\ work[a].sync = <<>>
    BY <2>1 DEF StoreHealthMetrics, End, Next1, WorkInv
  <2>2. ASSUME NEW at, Onward(a, at) PROVE work'[a].twin = t
    <3>1. work'[a] = [work[a] EXCEPT !.at = at]
      BY <2>2 DEF Onward, Next1, WorkInv
    <3>. QED BY <1>1, <1>2, <3>1, SameJobAt DEF OnTwin
  <2>. QED BY <1>1, <2>1, <2>2 DEF StoreHealthMetrics
<1>. QED BY <1>1, <1>2, <1>3, <1>4, <1>5, <1>6, HealthStepKeeps

------------------------------------------------------------------------------
(* When the readings of a twin were taken.                                 *)

OneFeeds(t, K) == \A k, l \in K : k[2] = t /\ l[2] = t => k[1] = l[1]

StampIn(rs, d, v) == \E i \in DOMAIN rs : rs[i].row.device = d /\ rs[i].row.stamp = v

(***************************************************************************)
(* The time synchronisation last wrote into a twin is that of a reading of *)
(* a sensor that feeds it; what is about to be merged has that of a        *)
(* reading too, and one that is not older, where one sensor feeds the twin *)
(* and nobody crossed.  The time in the twin's state need not be one:      *)
(* clients write what they like there.                                     *)
(***************************************************************************)
TimesOfTwins ==
  \A t \in TwinId : \A v \in twins[t].synced :
    \E k \in DOMAIN syncs : k[2] = t /\ StampIn(readings, k[1], v)

TimesOfMerges ==
  \A a \in Agent : work[a].at = "merge" =>
    \A v \in LastReadingAt(work[a].state) : StampIn(readings, work[a].sync[1][1], v)

MergesMoveOn ==
  ~iotTally.crossed =>
    \A a \in Agent : work[a].at = "merge" /\ OneFeeds(work[a].twin, DOMAIN syncs) =>
      \A old \in twins[work[a].twin].synced : \A new \in LastReadingAt(work[a].state) : old <= new

TimesInv == TimesOfTwins /\ TimesOfMerges /\ MergesMoveOn

MovesOn(t) ==
  OneFeeds(t, DOMAIN syncs) =>
    \A old \in twins[t].synced : \A new \in twins'[t].synced : old <= new

LEMMA StampsStay ==
  ASSUME ReadingsGrow, NEW d, NEW v, StampIn(readings, d, v) PROVE StampIn(readings', d, v)
  BY DEF ReadingsGrow, StampIn

LEMMA TimesKept ==
  ASSUME TimesOfTwins, ReadingsGrow, NEW a, Moves(a), NEW t \in TwinId,
         NEW v, v \in twins[t].synced
  PROVE  \E k \in DOMAIN syncs' : k[2] = t /\ StampIn(readings', k[1], v)
<1>1. PICK k \in DOMAIN syncs : k[2] = t /\ StampIn(readings, k[1], v)
  BY DEF TimesOfTwins
<1>2. StampIn(readings', k[1], v)
  BY <1>1, StampsStay
<1>. QED BY <1>1, <1>2 DEF Moves

\* Of one sensor, what is there has one time.
LEMMA SameTime ==
  ASSUME TablesInv, TimesOfTwins, NEW t \in TwinId,
         twins'[t].synced \subseteq twins[t].synced
  PROVE  MovesOn(t)
<1> SUFFICES ASSUME NEW old \in twins[t].synced, NEW new \in twins'[t].synced
             PROVE  old <= new
  BY DEF MovesOn
<1>1. old = new
  BY DEF TablesInv, TwinOK
<1>2. PICK k \in DOMAIN syncs : StampIn(readings, k[1], old)
  BY DEF TimesOfTwins
<1>3. old \in Int
  BY <1>2 DEF StampIn, TablesInv, ReadingsOK
<1>. QED BY <1>1, <1>3

LEMMA TimeCalmKeeps ==
  ASSUME WorkInv, TablesInv, TimesInv, NEW a \in Agent, Moves(a), TimeCalm(a)
  PROVE  TimesInv' /\ \A t \in TwinId : MovesOn(t)
<1>1. \A t \in TwinId : twins'[t].synced \subseteq twins[t].synced
  BY DEF TimeCalm
<1>2. \A t \in TwinId : MovesOn(t)
  BY <1>1, SameTime DEF TimesInv
<1>3. TimesOfTwins'
  <2>1. ReadingsGrow /\ TimesOfTwins
    BY DEF TimeCalm, TimesInv
  <2>2. ASSUME NEW t \in TwinId, NEW v \in twins'[t].synced
        PROVE  \E k \in DOMAIN syncs' : k[2] = t /\ StampIn(readings', k[1], v)
    <3>1. v \in twins[t].synced
      BY <1>1
    <3>. QED BY <2>1, <3>1, TimesKept
  <2>. QED BY <2>2 DEF TimesOfTwins
<1>4. \A b \in Agent : work'[b].at = "merge" => work'[b] = work[b]
  BY DEF Moves, TimeCalm
<1>5. TimesOfMerges'
  <2>1. ReadingsGrow /\ TimesOfMerges
    BY DEF TimeCalm, TimesInv
  <2>2. ASSUME NEW b \in Agent, work'[b].at = "merge", NEW v \in LastReadingAt(work'[b].state)
        PROVE  StampIn(readings', work'[b].sync[1][1], v)
    <3>1. work'[b] = work[b]
      BY <1>4, <2>2
    <3>2. PICK d : d = work[b].sync[1][1]
      OBVIOUS
    <3>3. StampIn(readings, d, v)
      BY <2>1, <2>2, <3>1, <3>2 DEF TimesOfMerges
    <3>4. StampIn(readings', d, v)
      BY <2>1, <3>3, StampsStay
    <3>. QED BY <3>1, <3>2, <3>4 DEF StampIn
  <2>. QED BY <2>2 DEF TimesOfMerges
<1>6. MergesMoveOn'
  <2>1. ASSUME ~iotTally'.crossed, NEW b \in Agent, work'[b].at = "merge", OneFeeds(work'[b].twin, DOMAIN syncs'),
               NEW old \in twins'[work'[b].twin].synced, NEW new \in LastReadingAt(work'[b].state)
        PROVE  old <= new
    <3>1. work'[b] = work[b]
      BY <1>4, <2>1
    <3>2. SyncJob(work[b], DOMAIN syncs)
      BY <2>1, <3>1, MergeIsSync
    <3>3. work[b].twin \in TwinId
      BY <3>2 DEF SyncJob, OnTwin
    <3>4. old \in twins[work[b].twin].synced
      BY <1>1, <3>1, <3>3
    <3>5. OneFeeds(work[b].twin, DOMAIN syncs) /\ ~iotTally.crossed
      BY <2>1, <3>1 DEF OneFeeds, Moves, TallyGrows
    <3>. QED BY <2>1, <3>1, <3>4, <3>5 DEF TimesInv, MergesMoveOn
  <2>. QED BY <2>1 DEF MergesMoveOn
<1>. QED BY <1>2, <1>3, <1>5, <1>6 DEF TimesInv

LEMMA ReadNewestKeeps ==
  ASSUME WorkInv, TablesInv, TimesInv, NEW a \in Agent, ReadNewest(a)
  PROVE  TimesInv' /\ \A t \in TwinId : MovesOn(t)
<1>1. /\ Moves(a) /\ UNCHANGED <<twins, readings, syncs>> /\ SyncJob(work[a], DOMAIN syncs)
      /\ \/ work'[a].at # "merge"
         \/ /\ work'[a].twin = work[a].twin /\ work'[a].sync = work[a].sync
            /\ \E i \in Newest(work[a].sync[1][1]) :
                 LastReadingAt(work'[a].state) \subseteq {readings[i].row.stamp}
  BY ReadNewestMoves
<1>2. \A t \in TwinId : MovesOn(t)
  BY <1>1, SameTime DEF TimesInv
<1>3. TimesOfTwins'
  BY <1>1 DEF TimesInv, TimesOfTwins, StampIn
<1>4. CASE work'[a].at # "merge"
  <2>1. TimeCalm(a)
    BY <1>1, <1>4 DEF TimeCalm, ReadingsGrow
  <2>. QED BY <1>1, <2>1, TimeCalmKeeps
<1>5. ASSUME NEW i \in Newest(work[a].sync[1][1]), LastReadingAt(work'[a].state) \subseteq {readings[i].row.stamp},
             work'[a].twin = work[a].twin, work'[a].sync = work[a].sync
      PROVE  TimesInv'
  <2>1. \A b \in Agent \ {a} : work'[b] = work[b]
    BY <1>1 DEF Moves
  <2>2. i \in DOMAIN readings /\ readings[i].row.device = work[a].sync[1][1]
    BY DEF Newest, OfDevice
  <2>3. TimesOfMerges'
    <3>1. ASSUME NEW v \in LastReadingAt(work'[a].state) PROVE StampIn(readings', work'[a].sync[1][1], v)
      <4>1. v = readings[i].row.stamp
        BY <1>5
      <4>. QED BY <1>1, <1>5, <2>2, <4>1 DEF StampIn
    <3>2. ASSUME NEW b \in Agent \ {a}, work'[b].at = "merge", NEW v \in LastReadingAt(work'[b].state)
          PROVE  StampIn(readings', work'[b].sync[1][1], v)
      BY <1>1, <2>1, <3>2 DEF TimesInv, TimesOfMerges, StampIn
    <3>. QED BY <3>1, <3>2 DEF TimesOfMerges
  <2>4. MergesMoveOn'
    <3>1. ASSUME OneFeeds(work[a].twin, DOMAIN syncs),
                 NEW old \in twins[work[a].twin].synced, NEW new \in LastReadingAt(work'[a].state)
          PROVE  old <= new
      <4>1. work[a].twin \in TwinId /\ work[a].sync[1] \in DOMAIN syncs /\ work[a].sync[1][2] = work[a].twin
        BY <1>1 DEF SyncJob, OnTwin, RowsOf
      <4>2. PICK k \in DOMAIN syncs : k[2] = work[a].twin /\ StampIn(readings, k[1], old)
        BY <4>1 DEF TimesInv, TimesOfTwins
      <4>3. k[1] = work[a].sync[1][1]
        BY <3>1, <4>1, <4>2 DEF OneFeeds
      <4>4. PICK j \in DOMAIN readings : readings[j].row.device = k[1] /\ readings[j].row.stamp = old
        BY <4>2 DEF StampIn
      <4>5. readings[j].row.stamp <= readings[i].row.stamp
        BY <4>3, <4>4 DEF Newest, OfDevice
      <4>6. new = readings[i].row.stamp
        BY <1>5
      <4>. QED BY <4>4, <4>5, <4>6
    <3>2. ~iotTally'.crossed => ~iotTally.crossed
      BY <1>1 DEF Moves, TallyGrows
    <3>3. ASSUME ~iotTally'.crossed, NEW b \in Agent, work'[b].at = "merge", OneFeeds(work'[b].twin, DOMAIN syncs'),
                 NEW old \in twins'[work'[b].twin].synced, NEW new \in LastReadingAt(work'[b].state)
          PROVE  old <= new
      <4>1. CASE b = a
        BY <1>1, <1>5, <3>1, <3>3, <4>1
      <4>2. CASE b # a
        BY <1>1, <2>1, <3>2, <3>3, <4>2 DEF TimesInv, MergesMoveOn
      <4>. QED BY <4>1, <4>2
    <3>. QED BY <3>3 DEF MergesMoveOn
  <2>. QED BY <1>3, <2>3, <2>4 DEF TimesInv
<1>6. TimesInv'
  BY <1>1, <1>4, <1>5
<1>. QED BY <1>2, <1>6

LEMMA MergeStateKeeps ==
  ASSUME WorkInv, TablesInv, TimesInv, NEW a \in Agent, MergeState(a)
  PROVE  TimesInv' /\ (~iotTally'.crossed => \A t \in TwinId : MovesOn(t))
<1>1. /\ Moves(a) /\ ReadingsGrow /\ work'[a].at # "merge"
      /\ SyncJob(work[a], DOMAIN syncs) /\ work[a].at = "merge"
      /\ twins'[work[a].twin].synced = SyncedBy(work[a].state, twins[work[a].twin].synced)
      /\ \A u \in TwinId \ {work[a].twin} : twins'[u] = twins[u]
  BY MergeStateMoves
<1>2. PICK t \in TwinId : t = work[a].twin
  BY <1>1 DEF SyncJob, OnTwin
<1>3. twins'[t].synced = LastReadingAt(work[a].state)
        \/ twins'[t].synced = twins[t].synced
  BY <1>1, <1>2 DEF SyncedBy
<1>4. work[a].sync[1] \in DOMAIN syncs /\ work[a].sync[1][2] = t
  BY <1>1, <1>2 DEF SyncJob, RowsOf
<1>5. ~iotTally'.crossed => ~iotTally.crossed
  BY <1>1 DEF Moves, TallyGrows
<1>6. ASSUME ~iotTally'.crossed, NEW u \in TwinId PROVE MovesOn(u)
  <2>1. CASE u # t
    BY <1>1, <1>2, <2>1, SameTime DEF TimesInv
  <2>2. CASE u = t /\ twins'[t].synced = twins[t].synced
    BY <2>2, SameTime DEF TimesInv
  <2>3. CASE u = t /\ twins'[t].synced = LastReadingAt(work[a].state)
    BY <1>1, <1>2, <1>5, <1>6, <2>3 DEF TimesInv, MergesMoveOn, MovesOn
  <2>. QED BY <1>3, <2>1, <2>2, <2>3
<1>7. TimesOfTwins'
  <2>1. ASSUME NEW u \in TwinId, NEW v \in twins'[u].synced
        PROVE  \E k \in DOMAIN syncs' : k[2] = u /\ StampIn(readings', k[1], v)
    <3>1. CASE v \in twins[u].synced
      BY <1>1, <3>1, TimesKept DEF TimesInv
    <3>2. CASE u = t /\ v \in LastReadingAt(work[a].state)
      <4>1. PICK d : d = work[a].sync[1][1]
        OBVIOUS
      <4>2. StampIn(readings, d, v)
        BY <1>1, <3>2, <4>1 DEF TimesInv, TimesOfMerges
      <4>3. StampIn(readings', d, v)
        BY <1>1, <4>2, StampsStay
      <4>4. work[a].sync[1] \in DOMAIN syncs'
        BY <1>1, <1>4 DEF Moves
      <4>. QED BY <1>4, <3>2, <4>1, <4>3, <4>4
    <3>3. u # t => twins'[u] = twins[u]
      BY <1>1, <1>2
    <3>. QED BY <1>3, <3>1, <3>2, <3>3
  <2>. QED BY <2>1 DEF TimesOfTwins
<1>8. \A b \in Agent : work'[b].at = "merge" => b # a /\ work'[b] = work[b]
  BY <1>1 DEF Moves
<1>9. TimesOfMerges'
  <2>1. ASSUME NEW b \in Agent, work'[b].at = "merge", NEW v \in LastReadingAt(work'[b].state)
        PROVE  StampIn(readings', work'[b].sync[1][1], v)
    <3>1. work'[b] = work[b]
      BY <1>8, <2>1
    <3>2. PICK d : d = work[b].sync[1][1]
      OBVIOUS
    <3>3. StampIn(readings, d, v)
      BY <2>1, <3>1, <3>2 DEF TimesInv, TimesOfMerges
    <3>4. StampIn(readings', d, v)
      BY <1>1, <3>3, StampsStay
    <3>. QED BY <3>1, <3>2, <3>4 DEF StampIn
  <2>. QED BY <2>1 DEF TimesOfMerges
<1>10. MergesMoveOn'
  <2>1. ASSUME ~iotTally'.crossed, NEW b \in Agent, work'[b].at = "merge", OneFeeds(work'[b].twin, DOMAIN syncs'),
               NEW old \in twins'[work'[b].twin].synced, NEW new \in LastReadingAt(work'[b].state)
        PROVE  old <= new
    <3>1. b # a /\ work'[b] = work[b]
      BY <1>8, <2>1
    <3>2. SyncJob(work[b], DOMAIN syncs)
      BY <2>1, <3>1, MergeIsSync
    <3>3. AtTwin(work[b], work[b].twin) /\ work[b].twin \in TwinId /\ AtTwin(work[a], t)
      BY <1>1, <1>2, <2>1, <3>1, <3>2 DEF SyncJob, OnTwin, AtTwin, AtRest
    <3>4. work[b].twin # t
      BY <1>5, <2>1, <3>1, <3>3, AloneAt
    <3>5. old \in twins[work[b].twin].synced
      BY <1>1, <1>2, <3>1, <3>3, <3>4
    <3>6. OneFeeds(work[b].twin, DOMAIN syncs) /\ ~iotTally.crossed
      BY <1>1, <1>5, <2>1, <3>1 DEF OneFeeds, Moves
    <3>. QED BY <2>1, <3>1, <3>5, <3>6 DEF TimesInv, MergesMoveOn
  <2>. QED BY <2>1 DEF MergesMoveOn
<1>. QED BY <1>6, <1>7, <1>9, <1>10 DEF TimesInv

------------------------------------------------------------------------------

TwinInv == WorkInv /\ TablesInv /\ HealthInv /\ TimesInv

LEMMA TwinsBegin == TwinInit => TwinInv
<1> SUFFICES ASSUME TwinInit PROVE TwinInv
  OBVIOUS
<1>1. work = [a \in Agent |-> AtRest] /\ iotTally = [calls |-> 0, faults |-> 0, crossed |-> FALSE]
  BY DEF TwinInit, SensorInit
<1>2. \A a \in Agent : work[a] = AtRest /\ JobOf(a, work[a], DOMAIN syncs)
  BY <1>1 DEF JobOf
<1>3. \A k \in DOMAIN syncs : k[1] \in Sensor /\ k[2] \in TwinId
  BY DEF TwinInit
<1>4. WorkInv
  <2>1. Tally(iotTally) /\ DOMAIN work = Agent
    BY <1>1 DEF Tally
  <2>2. \A a \in Agent, t \in TwinId : ~BusyOn(a, t)
    BY <1>2 DEF BusyOn
  <2>. QED BY <1>2, <1>3, <2>1, <2>2 DEF WorkInv
<1>5. IsList(<<>>)
  BY EmptySeq DEF IsList
<1>6. ASSUME NEW t \in TwinId
      PROVE  TwinOK(twins[t]) /\ twins[t].health = <<>> /\ twins[t].synced = {}
  <2>1. twins[t] = NoTwin \/ \E state : twins[t] = Created(state, 0)
    BY DEF TwinInit
  <2>2. PICK state, when : twins[t] = [state |-> state, health |-> <<>>, since |-> when, synced |-> {}]
    BY <2>1 DEF NoTwin, Created
  <2>3. twins[t].health = <<>> /\ twins[t].synced = {} /\ DOMAIN twins[t] = {"state", "health", "since", "synced"}
    BY <2>2
  <2>. QED BY <1>5, <2>3 DEF TwinOK
<1>7. \A t \in TwinId : metrics[t] = <<>>
  BY DEF TwinInit
<1>8. ReadingsOK(readings)
  <2>1. CASE readings = <<>>
    BY <1>5, <2>1 DEF ReadingsOK
  <2>2. ASSUME NEW r \in ReadingRows, readings = <<[row |-> r, anomaly |-> CheckAnomaly(r), before |-> {}]>>
        PROVE  ReadingsOK(readings)
    <3>1. PICK x : readings = <<x>> /\ x.row = r
      BY <2>2
    <3>2. IsList(<<x>>)
      <4>1. <<x>> \in Seq({x}) /\ Range(<<x>>) = {x}
        BY DEF Range
      <4>. QED BY <4>1 DEF IsList
    <3>3. x.row.stamp \in Int
      BY <3>1, TwinAssumption
    <3>. QED BY <3>1, <3>2, <3>3 DEF ReadingsOK
  <2>. QED BY <2>1, <2>2 DEF TwinInit, SensorInit
<1>9. TablesInv
  <2>1. DOMAIN twins = TwinId /\ DOMAIN metrics = TwinId
    BY DEF TwinInit
  <2>. QED BY <1>5, <1>6, <1>7, <1>8, <2>1 DEF TablesInv
<1>10. HealthInv
  <2>1. Scores(<<>>) = <<>>
    BY KeptOfNone DEF Scores
  <2>2. Backed(<<>>, <<>>)
    <3>1. Len(<<>>) = 0 /\ HistoryCap \in Nat
      BY TwinAssumption
    <3>. QED BY <2>1, <3>1 DEF Backed, HoldsLast
  <2>3. \A h, m, t : HealthJob(AtRest, t, h, m)
    BY DEF HealthJob, BetweenWrites, AtTwin
  <2>. QED BY <1>2, <1>6, <1>7, <2>2, <2>3 DEF HealthInv
<1>11. TimesInv
  <2>1. \A a \in Agent : work[a].at # "merge"
    BY <1>2 DEF AtRest
  <2>. QED BY <1>6, <2>1 DEF TimesInv, TimesOfTwins, TimesOfMerges, MergesMoveOn
<1>. QED BY <1>4, <1>9, <1>10, <1>11 DEF TwinInv

LEMMA CalmKeeps ==
  ASSUME TwinInv, NEW a \in Agent, Calm(a) PROVE TwinInv' /\ \A t \in TwinId : MovesOn(t)
<1>1. WorkInv'
  BY MovesKeepWork DEF Calm, TwinInv
<1>2. HealthInv'
  BY HealthCalmKeeps DEF Calm, TwinInv
<1>3. TimesInv' /\ \A t \in TwinId : MovesOn(t)
  BY TimeCalmKeeps DEF Calm, TwinInv
<1>. QED BY <1>1, <1>2, <1>3 DEF Calm, TwinInv

LEMMA HealthKeepsTwins ==
  ASSUME TwinInv, NEW a \in Agent,
         ReadHealthHistory(a) \/ UpdateTwinHealth(a) \/ StoreHealthMetrics(a)
  PROVE  TwinInv' /\ \A t \in TwinId : MovesOn(t)
<1>0. WorkInv /\ TablesInv /\ HealthInv /\ TimesInv
  BY DEF TwinInv
<1>1. Moves(a) /\ TablesInv' /\ TimeCalm(a)
  BY <1>0, ReadHealthHistoryMoves, UpdateTwinHealthMoves, StoreHealthMetricsMoves
<1>2. HealthInv'
  BY <1>0, ReadHealthHistoryKeeps, UpdateTwinHealthKeeps, StoreHealthMetricsKeeps
<1>3. WorkInv' /\ TimesInv' /\ \A t \in TwinId : MovesOn(t)
  BY <1>0, <1>1, MovesKeepWork, TimeCalmKeeps
<1>. QED BY <1>1, <1>2, <1>3 DEF TwinInv

LEMMA SyncKeepsTwins ==
  ASSUME TwinInv, NEW a \in Agent, ReadNewest(a) \/ MergeState(a)
  PROVE  TwinInv' /\ (~iotTally'.crossed => \A t \in TwinId : MovesOn(t))
<1>0. WorkInv /\ TablesInv /\ HealthInv /\ TimesInv
  BY DEF TwinInv
<1>1. Moves(a) /\ TablesInv' /\ HealthCalm(a)
  BY <1>0, ReadNewestMoves, MergeStateMoves
<1>2. TimesInv' /\ (~iotTally'.crossed => \A t \in TwinId : MovesOn(t))
  BY <1>0, ReadNewestKeeps, MergeStateKeeps
<1>3. WorkInv' /\ HealthInv'
  BY <1>0, <1>1, MovesKeepWork, HealthCalmKeeps
<1>. QED BY <1>1, <1>2, <1>3 DEF TwinInv

LEMMA TwinsStay ==
  ASSUME TwinInv, UNCHANGED <<twins, metrics, readings, syncs, work, iotTally>>
  PROVE  TwinInv' /\ \A t \in TwinId : MovesOn(t)
<1>1. \A t \in TwinId : MovesOn(t)
  BY SameTime DEF TwinInv, TimesInv
<1>2. WorkInv'
  BY DEF TwinInv, WorkInv, BusyOn
<1>3. TablesInv'
  BY DEF TwinInv, TablesInv
<1>4. HealthInv'
  BY DEF TwinInv, HealthInv
<1>5. TimesInv'
  BY DEF TwinInv, TimesInv, TimesOfTwins, TimesOfMerges, MergesMoveOn
<1>. QED BY <1>1, <1>2, <1>3, <1>4, <1>5 DEF TwinInv

LEMMA TwinNextKeeps ==
  ASSUME TwinInv, [TwinNext]_twinVars
  PROVE  TwinInv' /\ (~iotTally'.crossed => \A t \in TwinId : MovesOn(t))
<1>0. WorkInv /\ TablesInv
  BY DEF TwinInv
<1>1. CASE UNCHANGED twinVars \/ Tick
  BY <1>1, TwinsStay DEF twinVars, Tick, sensorVars, twinTables
<1>2. CASE ProcessActiveSyncs
  <2>1. SyncLoop \in Agent
    BY TwinAssumption
  <2>. QED BY <1>0, <1>2, <2>1, SyncBeginsMoves, CalmKeeps DEF ProcessActiveSyncs
<1>3. ASSUME NEW a \in Agent \ {SyncLoop}, ReadingStep(a), UNCHANGED twinTables
      PROVE  TwinInv' /\ \A t \in TwinId : MovesOn(t)
  BY <1>0, <1>3, ReadingStepMoves, CalmKeeps
<1>4. ASSUME NEW a \in Agent \ {SyncLoop}, TwinStep(a)
      PROVE  TwinInv' /\ \A t \in TwinId : MovesOn(t)
  BY <1>0, <1>4, TwinStepMoves, CalmKeeps
<1>5. ASSUME NEW a \in Agent, TwinWork(a)
      PROVE  TwinInv' /\ (~iotTally'.crossed => \A t \in TwinId : MovesOn(t))
  <2>1. CASE RecordState(a)
    BY <1>0, <2>1, RecordStateMoves, CalmKeeps
  <2>2. CASE ProcessSync(a)
    BY <1>0, <2>2, ProcessSyncMoves, CalmKeeps
  <2>3. CASE SyncDecay(a)
    BY <1>0, <2>3, SyncDecayMoves, CalmKeeps
  <2>4. CASE MergeDecay(a)
    BY <1>0, <2>4, MergeDecayMoves, CalmKeeps
  <2>5. CASE StampSync(a)
    BY <1>0, <2>5, StampSyncMoves, CalmKeeps
  <2>6. CASE TwinFails(a)
    BY <1>0, <2>6, TwinFailsMoves, CalmKeeps
  <2>7. CASE ReadHealthHistory(a) \/ UpdateTwinHealth(a) \/ StoreHealthMetrics(a)
    BY <2>7, HealthKeepsTwins
  <2>8. CASE ReadNewest(a) \/ MergeState(a)
    BY <2>8, SyncKeepsTwins
  <2>. QED BY <1>5, <2>1, <2>2, <2>3, <2>4, <2>5, <2>6, <2>7, <2>8 DEF TwinWork
<1>. QED BY <1>1, <1>2, <1>3, <1>4, <1>5 DEF TwinNext

(***************************************************************************)
(* The twins' invariant: of what agents are at, of the tables, of the      *)
(* history of their health, and of the times of what is merged.            *)
(***************************************************************************)
THEOREM TwinsInvariant == TwinSpec => []TwinInv
<1>1. TwinInv /\ [TwinNext]_twinVars => TwinInv'
  BY TwinNextKeeps
<1>. QED BY TwinsBegin, <1>1, PTL DEF TwinSpec

(***************************************************************************)
(* Unless a statement failed or two calls crossed, health_history holds    *)
(* the last scores of twin_health_metrics, as many as are kept.            *)
(***************************************************************************)
THEOREM HistoryIsBacked == TwinSpec => []SerialHistoryBacksMetrics
<1>1. TwinInv => SerialHistoryBacksMetrics
  <2> SUFFICES ASSUME TwinInv, ~iotTally.crossed, iotTally.faults = 0, NEW t \in TwinId,
                      \A a \in Agent : ~BusyOn(a, t)
               PROVE  HoldsLast(twins[t].health, Scores(metrics[t]))
    BY DEF SerialHistoryBacksMetrics, HoldsLast, Scores
  <2>1. \A a \in Agent : ~BetweenWrites(work[a], t)
    BY DEF BetweenWrites, AtTwin, BusyOn
  <2>. QED BY <2>1 DEF TwinInv, HealthInv, Backed
<1>. QED BY TwinsInvariant, <1>1, PTL

(***************************************************************************)
(* What synchronisation writes into a twin that one sensor feeds is not    *)
(* older than what it wrote there before, in whatever order the readings   *)
(* arrive and whatever clients write in between, as long as no two calls   *)
(* on a twin have crossed.                                                 *)
(***************************************************************************)
THEOREM TwinsMoveOn == TwinSpec => SerialTwinMovesOn
<1>1. ASSUME TwinInv, NEW t \in TwinId, Cardinality({k[1] : k \in {l \in DOMAIN syncs : l[2] = t}}) = 1
      PROVE  OneFeeds(t, DOMAIN syncs)
  <2>1. PICK D : D = {k[1] : k \in {l \in DOMAIN syncs : l[2] = t}}
    OBVIOUS
  <2>2. D \subseteq Sensor
    <3>1. \A k \in DOMAIN syncs : k[1] \in Sensor
      BY <1>1 DEF TwinInv, WorkInv
    <3>. QED BY <2>1, <3>1
  <2>3. IsFiniteSet(Sensor)
    BY TwinAssumption
  <2>4. IsFiniteSet(D)
    BY <2>2, <2>3, FS_Subset
  <2>5. PICK d : D = {d}
    BY <1>1, <2>1, <2>4, FS_Singleton
  <2>. QED BY <2>1, <2>5 DEF OneFeeds
<1>2. TwinInv /\ [TwinNext]_twinVars =>
        [\A t \in TwinId :
           /\ ~iotTally'.crossed
           /\ Cardinality({k[1] : k \in {l \in DOMAIN syncs : l[2] = t}}) = 1
           => \A old \in twins[t].synced : \A new \in twins'[t].synced : old <= new]_twinVars
  BY <1>1, TwinNextKeeps DEF MovesOn
<1>. QED BY TwinsInvariant, <1>2, PTL DEF TwinSpec, SerialTwinMovesOn
================================================================================
