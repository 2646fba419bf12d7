------------------------------ MODULE Executor ------------------------------
(***************************************************************************)
(* executor.rs: the cooperative executor, its futures Yield and            *)
(* TimeoutFuture, spawn_global, and the mutex (mutex.rs) around the queue. *)
(*                                                                         *)
(* There is one thread.  The executor takes a task from the front of the   *)
(* queue, polls it and puts it back at the end if it is pending; wakers do *)
(* nothing.  A task that runs may spawn others, which takes the lock the   *)
(* executor takes for pop_front and push_back: a lock() while the lock is  *)
(* taken can only spin to the end of its 10000 tries and panic, for nobody *)
(* is left to release it.                                                  *)
(*                                                                         *)
(* What a task computes is left open: it spawns, yields, sleeps or         *)
(* returns, in any order.  A sleep is kept relative to its start:          *)
(* time_out < global_timestamp() is duration < time slept.                 *)
(***************************************************************************)
EXTENDS Integers, Sequences

CONSTANTS
  Task,       \* the tasks that can be spawned
  NoTask,     \* the executor is not polling a task
  MaxSleep    \* bound on a sleep's duration, in ticks of the HPET

ASSUME NoTaskAssumption == NoTask \notin Task
ASSUME MaxSleepAssumption == MaxSleep \in Nat

Durations == 0..MaxSleep

VARIABLES
  thread,     \* where the thread is
  cur,        \* the task taken from the queue
  queue,      \* Executor.task_queue
  is_taken,   \* the mutex of GLOBAL_EXECUTOR
  waits,      \* task |-> what its future is waiting for
  duration,   \* task |-> the duration of its TimeoutFuture
  slept       \* task |-> the time since that was created (up to MaxSleep + 1)

sleeps == <<duration, slept>>
execVars == <<thread, cur, queue, is_taken, waits, sleeps>>

ExecutorInit ==
  /\ thread = "boot"
  /\ cur = NoTask
  /\ queue = <<>>
  /\ is_taken = FALSE
  /\ waits = [t \in Task |-> "unborn"]
  /\ duration = [t \in Task |-> 0]
  /\ slept = [t \in Task |-> 0]

\* Mutex::lock, for a critical section that ends with the statement: it leaves
\* the mutex as it was, or panics.
UnderLock(section) ==
  IF is_taken
  THEN thread' = "panic" /\ UNCHANGED <<cur, queue, is_taken, waits, sleeps>>
  ELSE section /\ is_taken' = FALSE

-----------------------------------------------------------------------------
(* spawn_global: from efi_main before the executor starts, or from a task. *)

Spawn(t) ==
  /\ thread \in {"boot", "run"}
  /\ waits[t] = "unborn"
  /\ UnderLock(/\ queue' = Append(queue, t)
               /\ waits' = [waits EXCEPT ![t] = "nothing"]
               /\ UNCHANGED <<thread, cur, sleeps>>)

StartGlobalExecutor ==
  /\ thread = "boot"
  /\ thread' = "pop"
  /\ UNCHANGED <<cur, queue, is_taken, waits, sleeps>>

-----------------------------------------------------------------------------
(* Executor::run                                                           *)

\* Mutant: the guard lives to the end of the poll, as it would if the lock were
\* taken in the scrutinee of the if let.
PopFrontHoldingGuard ==
  /\ thread = "pop"
  /\ queue # <<>>
  /\ thread' = "poll" /\ cur' = Head(queue) /\ queue' = Tail(queue)
  /\ is_taken' = TRUE
  /\ UNCHANGED <<waits, sleeps>>

\* The front task, if there is one.  The guard is a temporary of the let
\* statement: the lock is free again when the task is polled.
PopFront ==
  /\ thread = "pop"
  /\ UnderLock(/\ IF queue = <<>>
                  THEN UNCHANGED <<thread, cur, queue>>
                  ELSE thread' = "poll" /\ cur' = Head(queue) /\ queue' = Tail(queue)
               /\ UNCHANGED <<waits, sleeps>>)

\* Mutants: the pending task is dropped; it is put in front.
PushNowhere ==
  /\ thread = "push"
  /\ cur' = NoTask
  /\ thread' = "pop"
  /\ UNCHANGED <<queue, is_taken, waits, sleeps>>
PushFront ==
  /\ thread = "push"
  /\ queue' = <<cur>> \o queue
  /\ cur' = NoTask
  /\ thread' = "pop"
  /\ UNCHANGED <<is_taken, waits, sleeps>>

PushBack ==
  /\ thread = "push"
  /\ UnderLock(/\ queue' = Append(queue, cur)
               /\ cur' = NoTask
               /\ thread' = "pop"
               /\ UNCHANGED <<waits, sleeps>>)

\* Mutant: the comparison is the wrong way round.
ExpiredReversed(t) == slept[t] < duration[t]

\* TimeoutFuture::poll
Expired(t) == duration[t] < slept[t]

\* Task::poll resumes the future the task waits for.  Yield is pending the
\* first time and ready from then on.
Poll ==
  /\ thread = "poll"
  /\ \/ /\ \/ waits[cur] \in {"nothing", "yielded"}
           \/ waits[cur] = "sleep" /\ Expired(cur)
        /\ thread' = "run"
        /\ waits' = [waits EXCEPT ![cur] = "nothing"]
     \/ /\ waits[cur] = "sleep" /\ ~Expired(cur)
        /\ thread' = "push"
        /\ UNCHANGED waits
     \/ /\ waits[cur] = "yield"
        /\ thread' = "push"
        /\ waits' = [waits EXCEPT ![cur] = "yielded"]
  /\ UNCHANGED <<cur, queue, is_taken, sleeps>>

-----------------------------------------------------------------------------
(* The running task                                                        *)

\* yield_execution().await
YieldExecution ==
  /\ thread = "run"
  /\ waits' = [waits EXCEPT ![cur] = "yield"]
  /\ thread' = "poll"
  /\ UNCHANGED <<cur, queue, is_taken, sleeps>>

\* sleep(d).await.  The new future is polled at once and is pending,
SleepPending(d) ==
  /\ thread = "run"
  /\ waits' = [waits EXCEPT ![cur] = "sleep"]
  /\ duration' = [duration EXCEPT ![cur] = d]
  /\ slept' = [slept EXCEPT ![cur] = 0]
  /\ thread' = "push"
  /\ UNCHANGED <<cur, queue, is_taken>>

\* unless d is 0 and the counter has just moved: the task runs on.  (A tick, the
\* unit of the durations, is longer than these few instructions.)
Sleep(d) ==
  \/ SleepPending(d)
  \/ thread = "run" /\ d = 0 /\ UNCHANGED execVars

\* The future is ready: the task is dropped.
Complete ==
  /\ thread = "run"
  /\ waits' = [waits EXCEPT ![cur] = "done"]
  /\ cur' = NoTask
  /\ thread' = "pop"
  /\ UNCHANGED <<queue, is_taken, sleeps>>

\* The HPET main counter advances (external).
Tick ==
  /\ \E t \in Task : waits[t] = "sleep" /\ slept[t] <= MaxSleep
  /\ slept' = [t \in Task |-> IF waits[t] = "sleep" /\ slept[t] <= MaxSleep
                              THEN slept[t] + 1 ELSE slept[t]]
  /\ UNCHANGED <<thread, cur, queue, is_taken, waits, duration>>

Run == PopFront \/ Poll \/ PushBack

RunTask ==
  \/ YieldExecution
  \/ \E d \in Durations : Sleep(d)
  \/ Complete

ExecutorNext ==
  \/ \E t \in Task : Spawn(t)
  \/ StartGlobalExecutor
  \/ Run
  \/ RunTask
  \/ Tick

\* The thread does not stop: boot ends, the executor loops, a polled task
\* reaches its next await or its end.  The HPET counts.
ExecutorFairness ==
  /\ WF_execVars(StartGlobalExecutor)
  /\ WF_execVars(Run)
  /\ WF_execVars(RunTask)
  /\ WF_execVars(Tick)

ExecutorSpec == ExecutorInit /\ [][ExecutorNext]_execVars /\ ExecutorFairness

-----------------------------------------------------------------------------
(* Properties                                                              *)

Await == {"unborn", "nothing", "yield", "yielded", "sleep", "done"}

\* Every variable is in range.
TypeOK ==
  /\ thread \in {"boot", "pop", "poll", "run", "push", "panic"}
  /\ cur \in Task \union {NoTask}
  /\ queue \in Seq(Task)
  /\ is_taken \in BOOLEAN
  /\ waits \in [Task -> Await]
  /\ duration \in [Task -> Durations]
  /\ slept \in [Task -> 0..(MaxSleep + 1)]

\* lock() never panics: the executor does not hold its mutex while it polls a
\* task, so a task may spawn another.
NeverPanics == thread # "panic"

Queued(t) == \E i \in 1..Len(queue) : queue[i] = t
Live(t) == waits[t] \notin {"unborn", "done"}

\* No task is lost or polled twice: a task that was spawned and has not
\* returned is in the executor's hands or in the queue, never in both, and
\* once in the queue; a finished one is in neither (it must not be polled).
TasksConserved ==
  /\ \A t \in Task : Live(t) <=> (Queued(t) \/ cur = t)
  /\ \A i, j \in 1..Len(queue) : queue[i] = queue[j] => i = j
  /\ ~Queued(cur)

Ahead(t, u) == \E i, j \in 1..Len(queue) : i < j /\ queue[i] = t /\ queue[j] = u
Overtakes(u, t) ==
  \/ Ahead(t, u) /\ ~Ahead(t, u)' /\ cur' # t
  \/ Queued(t) /\ ~Queued(u) /\ Queued(u)' /\ ~Ahead(t, u)'

\* Nobody jumps the queue: a task behind another is polled after it, and one
\* that is spawned or put back goes behind everybody who is waiting.
NoOvertaking == [][\A t, u \in Task : ~Overtakes(u, t)]_execVars

\* A task that is not polled is not starved: it gets its turn again.
EveryTaskPolled == \A t \in Task : Queued(t) ~> (cur = t)

\* A sleeping task wakes up, though nothing but polling looks at its timer.
SleepersWake == \A t \in Task : (waits[t] = "sleep") ~> (waits[t] # "sleep")
=============================================================================
