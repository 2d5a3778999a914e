---------------------------- MODULE MessageQueue ----------------------------
(***************************************************************************)
(* MessageThread (msgthread.h) and its threadsafe_queue (threadsafequeue.h):*)
(* Ice threads submit tasks, one thread waits for them on a condition       *)
(* variable and runs them.  StreamManager takes this queue for a sequence   *)
(* with atomic operations; here are the mutex, the condition variable and   *)
(* its spurious wakeups.                                                    *)
(***************************************************************************)
EXTENDS Naturals, Sequences

CONSTANTS
    Producer,   \* threads that call submit
    Task,       \* tasks under way; the name of one that ran is free again
    NoTask,
    Worker,     \* thread_ of MessageThread
    NoThread

ASSUME NoneAssumption == /\ NoTask \notin Task
                         /\ Worker \notin Producer
                         /\ NoThread \notin Producer \cup {Worker}

VARIABLES
    mut,         \* who holds the mutex
    data_queue,
    new_value,   \* the task each producer is pushing
    pc,          \* where each producer is
    worker,      \* where the message thread is
    running      \* the task it runs

vars == <<mut, data_queue, new_value, pc, worker, running>>

\* "test": in the predicate of data_cond.wait; "block": it found the queue empty;
\* "asleep": blocked on data_cond, without the mutex.
MQTypeOK ==
    /\ mut \in Producer \cup {Worker, NoThread}
    /\ data_queue \in Seq(Task)
    /\ new_value \in [Producer -> Task \cup {NoTask}]
    /\ pc \in [Producer -> {"idle", "lock", "notify"}]
    /\ worker \in {"lock", "test", "block", "asleep", "run"}
    /\ running \in Task \cup {NoTask}
    /\ (worker = "run") = (running # NoTask)
    /\ \A p \in Producer : (pc[p] = "lock") => new_value[p] # NoTask

Init ==
    /\ mut = NoThread
    /\ data_queue = <<>>
    /\ new_value = [p \in Producer |-> NoTask]
    /\ pc = [p \in Producer |-> "idle"]
    /\ worker = "lock"
    /\ running = NoTask

-----------------------------------------------------------------------------
(* submit and push *)

InUse == {data_queue[i] : i \in 1..Len(data_queue)} \cup {running}
            \cup {new_value[p] : p \in Producer}

Submit(p, t) ==
    /\ pc[p] = "idle"
    /\ t \notin InUse
    /\ new_value' = [new_value EXCEPT ![p] = t]
    /\ pc' = [pc EXCEPT ![p] = "lock"]
    /\ UNCHANGED <<mut, data_queue, worker, running>>

\* Mutant: push without its lock_guard.
Push_Unlocked(p) ==
    /\ pc[p] = "lock"
    /\ mut' = p
    /\ data_queue' = Append(data_queue, new_value[p])
    /\ new_value' = [new_value EXCEPT ![p] = NoTask]
    /\ pc' = [pc EXCEPT ![p] = "notify"]
    /\ UNCHANGED <<worker, running>>

Push(p) ==
    /\ pc[p] = "lock"
    /\ mut = NoThread
    /\ mut' = p
    /\ data_queue' = Append(data_queue, new_value[p])
    /\ new_value' = [new_value EXCEPT ![p] = NoTask]
    /\ pc' = [pc EXCEPT ![p] = "notify"]
    /\ UNCHANGED <<worker, running>>

\* Mutant: only a push into an empty queue notifies, tested after the push.
Notify_IfEmpty(p) ==
    /\ pc[p] = "notify"
    /\ worker' = IF worker = "asleep" /\ data_queue = <<>> THEN "lock" ELSE worker
    /\ mut' = NoThread
    /\ pc' = [pc EXCEPT ![p] = "idle"]
    /\ UNCHANGED <<data_queue, new_value, running>>

\* notify_one, and the end of the lock_guard.
Notify(p) ==
    /\ pc[p] = "notify"
    /\ worker' = IF worker = "asleep" THEN "lock" ELSE worker
    /\ mut' = NoThread
    /\ pc' = [pc EXCEPT ![p] = "idle"]
    /\ UNCHANGED <<data_queue, new_value, running>>

-----------------------------------------------------------------------------
(* wait_and_pop and the task *)

\* The unique_lock, on entry or after a wakeup.
Lock ==
    /\ worker = "lock"
    /\ mut = NoThread
    /\ mut' = Worker
    /\ worker' = "test"
    /\ UNCHANGED <<data_queue, new_value, pc, running>>

\* Mutant: an empty queue is polled under the mutex.
FindEmpty_Polls ==
    /\ worker = "test"
    /\ data_queue = <<>>
    /\ UNCHANGED vars

FindEmpty ==
    /\ worker = "test"
    /\ data_queue = <<>>
    /\ worker' = "block"
    /\ UNCHANGED <<mut, data_queue, new_value, pc, running>>

Sleep ==
    /\ worker = "block"
    /\ mut' = NoThread
    /\ worker' = "asleep"
    /\ UNCHANGED <<data_queue, new_value, pc, running>>

SpuriousWakeup ==
    /\ worker = "asleep"
    /\ worker' = "lock"
    /\ UNCHANGED <<mut, data_queue, new_value, pc, running>>

\* Mutant: front without pop.
Pop_Peeks ==
    /\ worker = "test"
    /\ data_queue # <<>>
    /\ running' = Head(data_queue)
    /\ mut' = NoThread
    /\ worker' = "run"
    /\ UNCHANGED <<data_queue, new_value, pc>>

Pop ==
    /\ worker = "test"
    /\ data_queue # <<>>
    /\ running' = Head(data_queue)
    /\ data_queue' = Tail(data_queue)
    /\ mut' = NoThread
    /\ worker' = "run"
    /\ UNCHANGED <<new_value, pc>>

\* Mutant: the task of the last round is run again when there is none.
RunTask_KeepsTask ==
    /\ worker = "run"
    /\ worker' = "lock"
    /\ UNCHANGED <<mut, data_queue, new_value, pc, running>>

RunTask ==
    /\ worker = "run"
    /\ running' = NoTask
    /\ worker' = "lock"
    /\ UNCHANGED <<mut, data_queue, new_value, pc>>

-----------------------------------------------------------------------------

WorkerStep == Lock \/ FindEmpty \/ Sleep \/ Pop \/ RunTask

Next ==
    \/ \E p \in Producer : (\E t \in Task : Submit(p, t)) \/ Push(p) \/ Notify(p)
    \/ WorkerStep
    \/ SpuriousWakeup

Spec == Init /\ [][Next]_vars

\* The threads run on and tasks return; a thread gets a mutex that is free again
\* and again.  Nobody has to submit, and spurious wakeups need not happen.
FairSpec ==
    /\ Spec
    /\ \A p \in Producer : SF_vars(Push(p)) /\ WF_vars(Notify(p))
    /\ SF_vars(Lock) /\ WF_vars(WorkerStep)

-----------------------------------------------------------------------------

\* The message thread never sleeps on a queue that holds a task, unless the push
\* of that task is just about to notify it: no wakeup falls between the test of
\* the predicate and the sleep.
NoLostWakeup ==
    worker = "asleep" /\ data_queue # <<>> => \E p \in Producer : pc[p] = "notify"

\* Whoever submits sees tasks run in order, one at a time, each once.
TQ == INSTANCE TaskQueue WITH todo <- data_queue, current <- running

ImplementsTaskQueue == TQ!Spec

\* Every task that was pushed runs: an open that was queued gets its turn.
PushedTaskRuns ==
    \A t \in Task : (\E i \in 1..Len(data_queue) : data_queue[i] = t) ~> (running = t)

\* A submit gets through to the end although other threads take the mutex again
\* and again: addStream, which submits under locker_, is not stuck in it.
SubmitReturns == \A p \in Producer : (pc[p] # "idle") ~> (pc[p] = "idle")
=============================================================================
