------------------------ MODULE MessageQueue_proofs ------------------------
(* No wakeup of the message thread is lost, and it implements TaskQueue, for *)
(* any number of producers and tasks.                                        *)
EXTENDS MessageQueue, QueueLemmas

\* The mutex belongs to whoever is between its lock and its unlock, so the queue
\* is still empty when the message thread, having found it so, goes to sleep.
Monitor ==
    /\ \A p \in Producer : (pc[p] = "notify") => (mut = p)
    /\ (worker \in {"test", "block"}) => (mut = Worker)
    /\ (worker = "block") => (data_queue = <<>>)

MQInv == MQTypeOK /\ Monitor /\ NoLostWakeup

LEMMA InitMQ == Init => MQInv
BY NoneAssumption DEF Init, MQInv, MQTypeOK, Monitor, NoLostWakeup

\* The message thread's state changes in the steps of its own, and in Notify.
LEMMA TypeStep ==
    ASSUME MQTypeOK, [Next]_vars
    PROVE  MQTypeOK'
<1> USE NoneAssumption DEF MQTypeOK
<1>1. CASE \E p \in Producer, t \in Task : Submit(p, t)
  BY <1>1 DEF Submit
<1>2. CASE \E p \in Producer : Push(p)
  <2> PICK p \in Producer : Push(p)
    BY <1>2
  <2>1. new_value[p] \in Task
    BY DEF Push
  <2>2. data_queue' \in Seq(Task)
    BY <2>1, AppendElements DEF Push
  <2> QED
    BY <2>2 DEF Push
<1>3. CASE \E p \in Producer : Notify(p)
  <2> PICK p \in Producer : Notify(p)
    BY <1>3
  <2>1. worker' \in {"lock", "test", "block", "run"} /\ (worker' = "run") = (worker = "run")
    BY DEF Notify
  <2> QED
    BY <2>1 DEF Notify
<1>4. CASE Lock
  BY <1>4 DEF Lock
<1>5. CASE FindEmpty \/ Sleep \/ SpuriousWakeup
  BY <1>5 DEF FindEmpty, Sleep, SpuriousWakeup
<1>6. CASE Pop
  <2>1. data_queue' \in Seq(Task) /\ running' \in Task
    BY <1>6, TailElements DEF Pop
  <2> QED
    BY <1>6, <2>1 DEF Pop
<1>7. CASE RunTask
  BY <1>7 DEF RunTask
<1>8. CASE UNCHANGED vars
  BY <1>8 DEF vars
<1> QED
  BY <1>1, <1>2, <1>3, <1>4, <1>5, <1>6, <1>7, <1>8 DEF Next, WorkerStep

LEMMA MonitorStep ==
    ASSUME MQInv, [Next]_vars
    PROVE  Monitor' /\ NoLostWakeup'
<1> USE NoneAssumption DEF MQInv, MQTypeOK, Monitor, NoLostWakeup
<1>1. CASE \E p \in Producer, t \in Task : Submit(p, t)
  BY <1>1 DEF Submit
<1>2. CASE \E p \in Producer : Push(p)
  BY <1>2 DEF Push
<1>3. CASE \E p \in Producer : Notify(p)
  <2> PICK p \in Producer : Notify(p)
    BY <1>3
  \* The other producers have no mutex to notify under.
  <2>1. \A q \in Producer : pc'[q] # "notify"
    BY DEF Notify
  <2>2. worker' # "asleep" /\ worker' \notin {"test", "block"}
    BY DEF Notify
  <2> QED
    BY <2>1, <2>2
<1>4. CASE Lock
  BY <1>4 DEF Lock
<1>5. CASE FindEmpty \/ Sleep \/ SpuriousWakeup
  BY <1>5 DEF FindEmpty, Sleep, SpuriousWakeup
<1>6. CASE Pop
  BY <1>6 DEF Pop
<1>7. CASE RunTask
  BY <1>7 DEF RunTask
<1>8. CASE UNCHANGED vars
  BY <1>8 DEF vars
<1> QED
  BY <1>1, <1>2, <1>3, <1>4, <1>5, <1>6, <1>7, <1>8 DEF Next, WorkerStep

LEMMA MQInvariant == Spec => []MQInv
<1>1. MQInv /\ [Next]_vars => MQInv'
  BY TypeStep, MonitorStep DEF MQInv
<1> QED
  BY InitMQ, <1>1, PTL DEF Spec

\* The states of the queue and its threads keep their types (threadsafe_queue,
\* MessageThread).
THEOREM MQTypeCorrect == Spec => []MQTypeOK
BY MQInvariant, PTL DEF MQInv

\* The message thread never sleeps through a push: because push appends and notifies
\* under the mutex that wait_and_pop tests and sleeps under.
THEOREM NoWakeupIsLost == Spec => []NoLostWakeup
BY MQInvariant, PTL DEF MQInv

\* The queue with its mutex and condition variable does what StreamManager takes
\* for granted: an append is atomic, and tasks run one at a time in order.
THEOREM MessageThreadRunsTasks == Spec => ImplementsTaskQueue
<1>1. Init => TQ!Init
  BY DEF Init, TQ!Init
<1>2. MQTypeOK /\ [Next]_vars => [TQ!Next]_(TQ!taskVars)
  <2> SUFFICES ASSUME MQTypeOK, [Next]_vars
               PROVE  [TQ!Next]_(TQ!taskVars)
    OBVIOUS
  <2>1. CASE \E p \in Producer : Push(p)
    <3> PICK p \in Producer : Push(p)
      BY <2>1
    <3>1. new_value[p] \in Task
      BY DEF Push, MQTypeOK
    <3> QED
      BY <3>1 DEF Push, TQ!Next, TQ!Submit
  <2>2. CASE Pop
    BY <2>2 DEF Pop, MQTypeOK, TQ!Next, TQ!Begin
  <2>3. CASE RunTask
    BY <2>3 DEF RunTask, MQTypeOK, TQ!Next, TQ!End
  <2>4. CASE UNCHANGED <<data_queue, running>>
    BY <2>4 DEF TQ!taskVars
  <2> QED
    BY <2>1, <2>2, <2>3, <2>4
    DEF Next, WorkerStep, Submit, Notify, Lock, FindEmpty, Sleep, SpuriousWakeup, vars
<1> QED
  BY <1>1, <1>2, MQTypeCorrect, PTL DEF Spec, ImplementsTaskQueue, TQ!Spec
=============================================================================
