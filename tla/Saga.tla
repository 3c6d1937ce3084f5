--------------------------------- MODULE Saga ---------------------------------
(***************************************************************************)
(* The saga manager of the backend (services/saga_manager.rs), in several  *)
(* processes on one database.  A saga is run by a task of the process that *)
(* started it; every process that boots selects the unfinished sagas and   *)
(* compensates each in a task of its own.  A task changes its copy of the  *)
(* instance and then writes the whole copy to the saga's row.              *)
(*                                                                         *)
(* One action is one stretch under the mutex of the instance.  An action   *)
(* handler that returns an error is taken to have done nothing, as is one  *)
(* that is not registered; contexts, messages, times and the Redis copy,   *)
(* which nothing reads, are left out.                                      *)
(***************************************************************************)
EXTENDS Naturals, Sequences, FiniteSets, SequencesExt

CONSTANTS
  Process,      \* processes of the backend
  SagaId,       \* sagas that are started
  NumSteps,     \* number of steps of the definition
  Undoable,     \* steps whose compensate_action has a registered handler
  MaxAttempts,  \* retry_policy.max_attempts
  MaxCrashes,   \* bound on the number of crashes
  MaxLosses     \* bound on the number of calls to the database that fail

ASSUME SagaAssumption ==
  /\ IsFiniteSet(Process) /\ IsFiniteSet(SagaId)
  /\ NumSteps \in Nat \ {0} /\ MaxAttempts \in Nat \ {0}
  /\ Undoable \subseteq 1 .. NumSteps
  /\ MaxCrashes \in Nat /\ MaxLosses \in Nat

VARIABLES
  row,       \* saga_instances, by id
  task,      \* the tasks that run or compensate a saga
  running,   \* running_sagas of a process: whose instance it holds
  hung,      \* a status query holds the read lock of running_sagas for ever
  boot,      \* "down", "up", then "recovered" once the sagas are selected, or "failed"
  registered,  \* processes whose version of the program knows the definition
  executed,  \* steps whose action was carried out
  undone,    \* steps whose compensation was called and succeeded
  failedUndo,  \* steps whose compensation was called and returned an error
  crashes,   \* crashes so far
  losses     \* calls to the database that failed so far

effects == <<executed, undone, failedUndo>>
vars == <<row, task, running, hung, boot, registered, effects, crashes, losses>>

Step == 1 .. NumSteps
Final == {"Completed", "Failed", "Aborted"}
SagaState == {"None", "Pending", "InProgress", "Compensating"} \union Final
Tasks == Process \X SagaId \X {"run", "recover"}

NewInstance(st) == [state |-> st, current_step |-> 0, completed_steps |-> <<>>, failed_step |-> 0]
NoTask == [pc |-> "idle", inst |-> NewInstance("None"), todo |-> <<>>, tries |-> 0]

------------------------------------------------------------------------------

At(t, pc) == task[t].pc = pc

\* persist_saga: but for a new saga, nobody looks at its result.
Persist(s, inst) ==
  \/ row' = [row EXCEPT ![s] = inst] /\ UNCHANGED losses
  \/ losses < MaxLosses /\ losses' = losses + 1 /\ UNCHANGED row

\* The task's copy becomes inst, which is written, and the task goes on at pc.
Write(t, inst, pc) ==
  /\ task' = [task EXCEPT ![t].inst = inst, ![t].pc = pc]
  /\ Persist(t[2], inst)

GoTo(t, pc) == task' = [task EXCEPT ![t].pc = pc]

\* Mutant: the number of completed steps is taken for the next one.
NextStepFromZero(inst) == IF inst.completed_steps = <<>> THEN 1 ELSE Len(inst.completed_steps)

\* The step that is executed, or was just executed.
NextStep(inst) == Len(inst.completed_steps) + 1

\* Mutant: the step completed last is taken for the one that failed.
BackwardsShort(inst) ==
  IF inst.completed_steps = <<>> THEN <<>> ELSE Tail(Reverse(inst.completed_steps))

\* Compensation goes through the completed steps in reverse order.
Backwards(inst) == Reverse(inst.completed_steps)

NoAttemptsLeft(n) == n >= MaxAttempts

------------------------------------------------------------------------------

\* start_saga: the row is there before the task is; if it cannot be written,
\* nothing is started.
StartSaga(p, s) ==
  /\ boot[p] # "down" /\ p \in registered
  /\ row[s].state = "None"
  /\ row' = [row EXCEPT ![s] = NewInstance("Pending")]
  /\ task' = [task EXCEPT ![<<p, s, "run">>] =
                [NoTask EXCEPT !.pc = "insert", !.inst = NewInstance("Pending")]]
  /\ UNCHANGED <<running, hung, boot, registered, effects, crashes, losses>>

\* The task is spawned under the write lock of running_sagas.
Insert(t) ==
  /\ At(t, "insert")
  /\ ~hung[t[1]]
  /\ running' = [running EXCEPT ![t[1]][t[2]] = t[3]]
  /\ GoTo(t, IF t[3] = "run" THEN "begin" ELSE "compensate")
  /\ UNCHANGED <<row, hung, boot, registered, effects, crashes, losses>>

Begin(t) ==
  /\ At(t, "begin")
  /\ Write(t, [task[t].inst EXCEPT !.state = "InProgress"], "step")
  /\ UNCHANGED <<running, hung, boot, registered, effects, crashes>>

\* The action succeeds and the context, with its result, is written: the step
\* is not yet among the completed ones.
ExecuteStep(t) ==
  /\ At(t, "step")
  /\ executed' = [executed EXCEPT ![t[2]] = @ \union {NextStep(task[t].inst)}]
  /\ Write(t, task[t].inst, "push")
  /\ UNCHANGED <<running, hung, boot, registered, undone, failedUndo, crashes>>

FailAttempt(t) ==
  /\ At(t, "step")
  /\ task' = [task EXCEPT ![t].tries = @ + 1,
                          ![t].pc = IF NoAttemptsLeft(task[t].tries + 1) THEN "compensate" ELSE @]
  /\ UNCHANGED <<row, running, hung, boot, registered, effects, crashes, losses>>

CompleteStep(t) ==
  LET inst == task[t].inst
      k == NextStep(inst)
      pushed == [inst EXCEPT !.completed_steps = Append(@, k), !.current_step = k]
  IN  /\ At(t, "push")
      /\ task' = [task EXCEPT ![t].inst = pushed, ![t].tries = 0,
                              ![t].pc = IF k = NumSteps THEN "complete" ELSE "step"]
      /\ Persist(t[2], pushed)
      /\ UNCHANGED <<running, hung, boot, registered, effects, crashes>>

CompleteSaga(t) ==
  /\ At(t, "complete")
  /\ Write(t, [task[t].inst EXCEPT !.state = "Completed", !.current_step = 0], "remove")
  /\ UNCHANGED <<running, hung, boot, registered, effects, crashes>>

\* Whatever instance of the saga the process holds is removed.
RemoveRunning(t) ==
  /\ At(t, "remove")
  /\ ~hung[t[1]]
  /\ running' = [running EXCEPT ![t[1]][t[2]] = "none"]
  /\ GoTo(t, "over")
  /\ UNCHANGED <<row, hung, boot, registered, effects, crashes, losses>>

\* A process that does not know the definition has written the state, and
\* leaves the saga at that.
Compensate(t) ==
  LET inst == [task[t].inst EXCEPT !.state = "Compensating"]
  IN  /\ At(t, "compensate")
      /\ task' = [task EXCEPT ![t].inst = inst, ![t].todo = Backwards(inst),
                              ![t].pc = IF t[1] \in registered THEN "undo" ELSE "over"]
      /\ Persist(t[2], inst)
      /\ UNCHANGED <<running, hung, boot, registered, effects, crashes>>

CanUndo(t) == task[t].todo # <<>> /\ Head(task[t].todo) \in Undoable

\* The handler answers: an error is logged, and the compensation goes on.
CompensateStep(t) ==
  LET k == Head(task[t].todo)
  IN  /\ At(t, "undo") /\ CanUndo(t)
      /\ \/ undone' = [undone EXCEPT ![t[2]] = @ \union {k}] /\ UNCHANGED failedUndo
         \/ failedUndo' = [failedUndo EXCEPT ![t[2]] = @ \union {k}] /\ UNCHANGED undone
      /\ task' = [task EXCEPT ![t].todo = Tail(@)]
      /\ UNCHANGED <<row, running, hung, boot, registered, executed, crashes, losses>>

\* A step whose compensation has no handler is passed over without a word.
PassOver(t) ==
  /\ At(t, "undo")
  /\ task[t].todo # <<>> /\ ~CanUndo(t)
  /\ task' = [task EXCEPT ![t].todo = Tail(@)]
  /\ UNCHANGED <<row, running, hung, boot, registered, effects, crashes, losses>>

\* A recovery ends here, and its instance stays in running_sagas.
Abort(t) ==
  /\ At(t, "undo")
  /\ task[t].todo = <<>>
  /\ Write(t, [task[t].inst EXCEPT !.state = "Aborted"], IF t[3] = "run" THEN "fail" ELSE "over")
  /\ UNCHANGED <<running, hung, boot, registered, effects, crashes>>

\* The task then locks the instance again for its result, while it still
\* holds it: it never returns, and the mutex is never released.
Fail(t) ==
  LET inst == task[t].inst
  IN  /\ At(t, "fail")
      /\ Write(t, [inst EXCEPT !.state = "Failed", !.failed_step = NextStep(inst)], "stuck")
      /\ UNCHANGED <<running, hung, boot, registered, effects, crashes>>

\* get_saga_status waits for the instance holding the read lock; a query that
\* is answered changes nothing.
AskStatus(p, s) ==
  /\ ~hung[p]
  /\ running[p][s] = "run" /\ At(<<p, s, "run">>, "stuck")
  /\ hung' = [hung EXCEPT ![p] = TRUE]
  /\ UNCHANGED <<row, task, running, boot, registered, effects, crashes, losses>>

Boot(p) ==
  /\ boot[p] = "down"
  /\ boot' = [boot EXCEPT ![p] = "up"]
  /\ UNCHANGED <<row, task, running, hung, registered, effects, crashes, losses>>

\* Mutant: only what was in progress is selected.
InProgressOnly == {"InProgress"}

Recoverable == {"InProgress", "Compensating"}

\* recover_sagas, spawned on startup: whoever runs a selected saga goes on.
Recover(p) ==
  /\ boot[p] = "up"
  /\ boot' = [boot EXCEPT ![p] = "recovered"]
  /\ task' = [t \in Tasks |->
                IF t[1] = p /\ t[3] = "recover" /\ row[t[2]].state \in Recoverable
                THEN [NoTask EXCEPT !.pc = "insert", !.inst = row[t[2]]]
                ELSE task[t]]
  /\ UNCHANGED <<row, running, hung, registered, effects, crashes, losses>>

\* The sagas cannot be selected: main only logs it, and does not try again.
RecoverFails(p) ==
  /\ boot[p] = "up"
  /\ losses < MaxLosses /\ losses' = losses + 1
  /\ boot' = [boot EXCEPT ![p] = "failed"]
  /\ UNCHANGED <<row, task, running, hung, registered, effects, crashes>>

Crash(p) ==
  /\ boot[p] # "down"
  /\ crashes < MaxCrashes
  /\ crashes' = crashes + 1
  /\ boot' = [boot EXCEPT ![p] = "down"]
  /\ task' = [t \in Tasks |-> IF t[1] = p THEN NoTask ELSE task[t]]
  /\ running' = [running EXCEPT ![p] = [s \in SagaId |-> "none"]]
  /\ hung' = [hung EXCEPT ![p] = FALSE]
  /\ UNCHANGED <<row, registered, effects, losses>>

Init ==
  /\ row = [s \in SagaId |-> NewInstance("None")]
  /\ task = [t \in Tasks |-> NoTask]
  /\ running = [p \in Process |-> [s \in SagaId |-> "none"]]
  /\ hung = [p \in Process |-> FALSE]
  /\ boot = [p \in Process |-> "down"]
  /\ registered \in SUBSET Process
  /\ executed = [s \in SagaId |-> {}] /\ undone = [s \in SagaId |-> {}]
  /\ failedUndo = [s \in SagaId |-> {}]
  /\ crashes = 0 /\ losses = 0

\* What a task does by itself, and what it learns from a handler it awaits.
OwnStep(t) ==
  \/ Insert(t) \/ Begin(t) \/ CompleteStep(t) \/ CompleteSaga(t) \/ RemoveRunning(t)
  \/ Compensate(t) \/ PassOver(t) \/ Abort(t) \/ Fail(t)

Answered(t) == ExecuteStep(t) \/ FailAttempt(t) \/ CompensateStep(t)

TaskStep(t) == OwnStep(t) \/ Answered(t)

ComesUp(p) == Boot(p) \/ Recover(p) \/ RecoverFails(p)

Next ==
  \/ \E p \in Process, s \in SagaId : StartSaga(p, s) \/ AskStatus(p, s)
  \/ \E t \in Tasks : TaskStep(t)
  \/ \E p \in Process : ComesUp(p) \/ Crash(p)

(***************************************************************************)
(* The runtime polls every task that is ready; a process that is down is   *)
(* started again, as the deployment's restart policy says, and tries to    *)
(* recover.  Nothing bounds the time a handler takes: timeout_ms is never  *)
(* read, so no answer is fair.                                             *)
(***************************************************************************)
Fairness ==
  /\ \A t \in Tasks : WF_vars(OwnStep(t))
  /\ \A p \in Process : WF_vars(ComesUp(p))

Spec == Init /\ [][Next]_vars /\ Fairness

------------------------------------------------------------------------------

(***************************************************************************)
(* A row never runs ahead of the world: the steps it calls completed are   *)
(* the first of the definition, in order, and were executed; and nothing   *)
(* is compensated that was not executed -- also when several processes     *)
(* write the row, die, or lose a write.                                    *)
(***************************************************************************)
RowsBehindWorld ==
  \A s \in SagaId :
    /\ \A i \in 1 .. Len(row[s].completed_steps) : row[s].completed_steps[i] = i
    /\ ToSet(row[s].completed_steps) \union undone[s] \union failedUndo[s] \subseteq executed[s]
    /\ row[s].state = "Completed" => executed[s] = Step

(***************************************************************************)
(* A saga whose row says it was given up had the compensation called of    *)
(* every step the same row calls completed and that has a handler,         *)
(* whichever process wrote it.  The row does not say whether the call      *)
(* succeeded: an error is only logged, and the step is as good as undone.  *)
(***************************************************************************)
GivenUpMeansCompensated ==
  \A s \in SagaId :
    row[s].state \in {"Aborted", "Failed"} =>
      ToSet(row[s].completed_steps) \intersect Undoable \subseteq undone[s] \union failedUndo[s]

Unfinished == {"InProgress", "Compensating"}

AwaitsHandler(t) == At(t, "step") \/ (At(t, "undo") /\ CanUndo(t))

\* A status query keeps the task from the map of running sagas.
ShutOut(t) == At(t, "insert") /\ hung[t[1]]

\* The task went through to the end; what it wrote last was lost.
LastWriteLost(t) == task[t].inst.state \in Final /\ losses > 0

\* The process took the saga over and does not know its definition.
LeftAlone(t) == At(t, "over") /\ t[1] \notin registered

(***************************************************************************)
(* Sagas do not stay unfinished, whatever crashes: in the end a row that   *)
(* is in progress or being compensated is one that a live task holds, and  *)
(* that task waits for a handler or, behind a status query, for the map of *)
(* running sagas; or its last write failed, or it does not know the saga's *)
(* definition; or a process could not select its sagas when it came up.    *)
(***************************************************************************)
Settles ==
  <>[](\A s \in SagaId :
         row[s].state \in Unfinished =>
           \/ \E p \in Process : boot[p] = "failed"
           \/ \E t \in Tasks : t[2] = s /\ (\/ AwaitsHandler(t) \/ ShutOut(t)
                                            \/ LastWriteLost(t) \/ LeftAlone(t)))

(***************************************************************************)
(* Only a failed saga is compensated: of a saga recorded as completed no   *)
(* step was undone.                                                        *)
(***************************************************************************)
CompletedNotUndone ==
  \A s \in SagaId : row[s].state = "Completed" => undone[s] = {}
=============================================================================
