------------------------------ MODULE AfterQueue -------------------------------
(***************************************************************************)
(* The queue of post-response work of each request                         *)
(* (packages/farm/src/after.ts).  after() appends to the queue while the   *)
(* request is handled, while its response streams, and from a callback     *)
(* that is already running; the drain rereads the length of the queue      *)
(* before it closes.                                                       *)
(***************************************************************************)
EXTENDS Naturals

CONSTANTS
  Requests,
  MaxTasks      \* bound of the model: callbacks a request registers

ASSUME MaxTasksAssumption == MaxTasks \in [Requests -> Nat]

VARIABLES
  phase,   \* state.phase
  tasks,   \* state.tasks.length
  index,   \* how many tasks the drain has started, in registration order
  busy     \* a task is running

afterVars == <<phase, tasks, index, busy>>

AfterTypeOK ==
  /\ phase \in [Requests -> {"open", "running", "closed"}]
  /\ tasks \in [Requests -> Nat]
  /\ index \in [Requests -> Nat]
  /\ busy \in [Requests -> BOOLEAN]

AfterInit ==
  /\ phase = [r \in Requests |-> "open"]
  /\ tasks = [r \in Requests |-> 0]
  /\ index = [r \in Requests |-> 0]
  /\ busy = [r \in Requests |-> FALSE]

(* after() throws once the queue is closed.                                *)
After(r) ==
  /\ phase[r] # "closed" /\ tasks[r] < MaxTasks[r]
  /\ tasks' = [tasks EXCEPT ![r] = @ + 1]
  /\ UNCHANGED <<phase, index, busy>>

(* finishResponse resolves: the drain begins.                              *)
BeginTasks(r) ==
  /\ phase[r] = "open"
  /\ phase' = [phase EXCEPT ![r] = "running"]
  /\ UNCHANGED <<tasks, index, busy>>

(* One turn of the drain: the next task, or the end of the queue.          *)
NextTask(r) ==
  /\ phase[r] = "running" /\ ~busy[r]
  /\ IF index[r] < tasks[r]
       THEN /\ index' = [index EXCEPT ![r] = @ + 1]
            /\ busy' = [busy EXCEPT ![r] = TRUE]
            /\ UNCHANGED phase
       ELSE /\ phase' = [phase EXCEPT ![r] = "closed"]
            /\ UNCHANGED <<index, busy>>
  /\ UNCHANGED tasks

(* Mutant: a failure ends the drain.                                       *)
TaskFailureEndsQueue(r) ==
  /\ busy[r]
  /\ busy' = [busy EXCEPT ![r] = FALSE]
  /\ phase' = [phase EXCEPT ![r] = "closed"]
  /\ UNCHANGED <<tasks, index>>

(* A callback settles; a failure is reported and the drain goes on.        *)
TaskSettles(r) ==
  /\ busy[r]
  /\ busy' = [busy EXCEPT ![r] = FALSE]
  /\ UNCHANGED <<phase, tasks, index>>

=============================================================================
