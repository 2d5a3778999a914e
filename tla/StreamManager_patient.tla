----------------------- MODULE StreamManager_patient -----------------------
(* TLAPS proofs about StreamManager when its clients are patient: they close a *)
(* call, or use its id again, only after its open was answered.  The pending   *)
(* open of a stream then keeps its substream, and with it the stream: this is  *)
(* what keeps the two threads apart.                                           *)
EXTENDS StreamManager_proofs

-----------------------------------------------------------------------------
(* The invariant *)

\* A call waits for one open at a time.
OneUnanswered ==
    \A p, q \in issued :
        reply[p] = <<>> /\ reply[q] = <<>> /\ p.cam = q.cam /\ p.callid = q.callid => p = q

\* The open of r waits for the message thread, or runs and was not taken back.
Opening(r) == Queued(r) \/ (task.req = r /\ task.pc \in {"opening", "opened", "openFailed"})

\* An open that may still succeed has its substream ...
PendingSubscribed == \A r \in Request : Opening(r) => r \in subs[r]

\* ... and a failed one loses it for good.
WithdrawnUnsubscribed ==
    /\ task.pc \in {"removeSender", "replyFailed"} => \A m \in Request : task.req \notin subs[m]
    /\ task.pc = "removeSender" => SubsOf(task.req, task.req.callid) = {}

\* The buffer a stream feeds was made for a subscriber of that stream.
BufferOwner ==
    /\ \A m \in Request : buffer[m] # NoRequest =>
         /\ buffer[m] \in issued
         /\ \A n \in Request : buffer[m] \in subs[n] => n = m
    /\ ice.pc = "joining" =>
         /\ \A c \in Camera : streams[c] # ice.req
         /\ \A m \in Request : buffer[m] = ice.req => m = streams[ice.req.cam]

\* The pool keeps a buffer under the id it was made for.
PoolIds == \A t \in Thread, c \in Camera : attached[t][c] # NoRequest => attached[t][c].cam = c

PatientInv ==
    /\ SMInv
    /\ OneUnanswered
    /\ PendingSubscribed
    /\ WithdrawnUnsubscribed
    /\ BufferOwner
    /\ PoolIds
    /\ SubscriberHasSender

LEMMA InitPatient == Init => PatientInv
<1> SUFFICES ASSUME Init PROVE PatientInv
    OBVIOUS
<1>1. SMInv
    BY InitInv
<1>2. OneUnanswered /\ PoolIds /\ BufferOwner /\ SubscriberHasSender
    BY DEF Init, OneUnanswered, PoolIds, BufferOwner, SubscriberHasSender, IceIdle
<1>3. PendingSubscribed /\ WithdrawnUnsubscribed
    BY NoneAssumption
    DEF Init, PendingSubscribed, WithdrawnUnsubscribed, Opening, Queued, NoTask
<1> QED BY <1>1, <1>2, <1>3 DEF PatientInv

-----------------------------------------------------------------------------
(* What happens to requests, answers and substreams in a step *)

\* A subscriber is a received request, and its stream is the registered one.
LEMMA SubscriberStream ==
    ASSUME SMInv, NEW m \in Request, NEW q \in subs[m]
    PROVE  /\ q \in Request /\ q \in issued /\ q.cam = m.cam
           /\ streams[m.cam] = m /\ streams[q.cam] = m
BY DEF SMInv, Substreams, DestroyedStreamsAreEmpty, TypeOK

\* Whoever still works for a request has not answered it.
LEMMA OwnedIsPending ==
    ASSUME SMInv, NEW r \in Request, Queued(r) \/ task.req = r \/ ice.req = r
    PROVE  r \in issued /\ reply[r] = <<>>
BY DEF SMInv, EachOpenHasOneOwner

\* The steps that send a response to an open.
LEMMA ReplySteps ==
    [Next]_vars =>
        \/ \E r \in Request : OpenDuplicate(r)
        \/ JoinFinish \/ TaskReplyOk \/ TaskReplyFailed
        \/ UNCHANGED reply
BY DEF Next, ClientCall, OpenNew, JoinStart, CloseUnknown, CloseKnown, IceStep, CloseFind,
       CloseMute, CloseStop, CloseErase, Unregister, TaskStep, TaskBegin, TaskConnect,
       TaskOpened, TaskOpenFails, TaskReturn, TaskUnsubscribe, TaskRemoveSender, smVars, vars

\* The steps that receive an open.
LEMMA ReceiveSteps ==
    [Next]_vars =>
        \/ \E r \in Request : OpenNew(r) \/ OpenDuplicate(r) \/ JoinStart(r)
        \/ UNCHANGED issued
BY DEF Next, ClientCall, CloseUnknown, CloseKnown, IceStep, JoinFinish, CloseFind,
       CloseMute, CloseStop, CloseErase, Unregister, TaskStep, TaskBegin, TaskConnect,
       TaskOpened, TaskOpenFails, TaskReturn, TaskReplyOk, TaskUnsubscribe,
       TaskRemoveSender, TaskReplyFailed, TaskEnd, smVars, vars

\* The steps that change the substreams of a stream.
LEMMA SubsSteps ==
    [Next]_vars =>
        \/ \E r \in Request : OpenNew(r)
        \/ JoinFinish
        \/ \E c \in Camera, k \in CallId : CloseKnown(c, k)
        \/ TaskUnsubscribe
        \/ UNCHANGED subs
BY DEF Next, ClientCall, OpenDuplicate, JoinStart, CloseUnknown, IceStep, CloseFind,
       CloseMute, CloseStop, CloseErase, Unregister, TaskStep, TaskBegin, TaskConnect,
       TaskOpened, TaskOpenFails, TaskReturn, TaskReplyOk, TaskRemoveSender,
       TaskReplyFailed, TaskEnd, smVars, vars

\* The steps that move the message thread on.
LEMMA TaskSteps ==
    [Next]_vars =>
        \/ TaskBegin \/ TaskOpened \/ TaskOpenFails \/ TaskReplyOk \/ TaskUnsubscribe
        \/ TaskRemoveSender \/ TaskReplyFailed
        \/ UNCHANGED task
BY DEF Next, ClientCall, OpenNew, OpenDuplicate, JoinStart, CloseUnknown, CloseKnown,
       IceStep, JoinFinish, CloseFind, CloseMute, CloseStop, CloseErase, Unregister,
       TaskStep, TaskConnect, smVars, vars

\* The steps that change who holds locker_, and for what.
LEMMA IceSteps ==
    [Next]_vars =>
        \/ \E r \in Request : JoinStart(r)
        \/ \E c \in Camera, k \in CallId : CloseKnown(c, k)
        \/ JoinFinish \/ CloseFind \/ CloseErase \/ Unregister
        \/ UNCHANGED ice
BY DEF Next, ClientCall, OpenNew, OpenDuplicate, CloseUnknown, IceStep, CloseMute,
       CloseStop, TaskStep, TaskBegin, TaskConnect, TaskOpened, TaskOpenFails, TaskReturn,
       TaskReplyOk, TaskUnsubscribe, TaskRemoveSender, TaskReplyFailed, TaskEnd, smVars, vars

\* An answer is the last word on its request.
LEMMA AnswerStays ==
    ASSUME SMInv, [Next]_vars, NEW m \in Request, reply[m] # <<>>
    PROVE  reply'[m] = reply[m]
<1>0. TypeOK /\ Control /\ EachOpenHasOneOwner
    BY DEF SMInv
<1>1. ASSUME NEW r \in Request, NEW a \in {"ok", "failed"}, Answer(r, a), reply[r] = <<>>
      PROVE  reply'[m] = reply[m]
    BY <1>0, <1>1, OneAnswer
<1>2. ASSUME NEW r \in Request, OpenDuplicate(r) PROVE reply'[m] = reply[m]
  <2>1. reply[r] = <<>> /\ Answer(r, "failed")
      BY <1>0, <1>2 DEF OpenDuplicate, MayOpen, EachOpenHasOneOwner
  <2> QED BY <1>1, <2>1
<1>3. CASE JoinFinish
  <2>1. ice.req \in Request /\ reply[ice.req] = <<>> /\ Answer(ice.req, "ok")
      BY <1>0, <1>3 DEF JoinFinish, Control, EachOpenHasOneOwner
  <2> QED BY <1>1, <2>1
<1>4. CASE TaskReplyOk \/ TaskReplyFailed
  <2>1. task.req \in Request /\ reply[task.req] = <<>>
      BY <1>0, <1>4 DEF TaskReplyOk, TaskReplyFailed, Control, EachOpenHasOneOwner
  <2>2. PICK a \in {"ok", "failed"} : Answer(task.req, a)
      BY <1>4 DEF TaskReplyOk, TaskReplyFailed, TaskEnd
  <2> QED BY <1>1, <2>1, <2>2
<1> QED BY <1>2, <1>3, <1>4, ReplySteps

\* A request that waits for its answer has waited before, or was received just now
\* from a client that may issue it.
LEMMA NewlyPending ==
    ASSUME SMInv, [Next]_vars, NEW q \in issued', reply'[q] = <<>>
    PROVE  \/ q \in issued /\ reply[q] = <<>>
           \/ q \notin issued /\ issued' = issued \cup {q} /\ MayIssue(q.cam, q.callid)
<1>1. q \in Request
  <2>1. TypeOK'
      BY StepInv DEF SMInv
  <2> QED BY <2>1 DEF TypeOK
<1>2. reply[q] = <<>>
    BY <1>1, AnswerStays
<1>3. ASSUME NEW r \in Request, OpenNew(r) \/ OpenDuplicate(r) \/ JoinStart(r), q \notin issued
      PROVE  issued' = issued \cup {q} /\ MayIssue(q.cam, q.callid)
    BY <1>3 DEF OpenNew, OpenDuplicate, JoinStart, MayOpen
<1> QED BY <1>2, <1>3, ReceiveSteps

-----------------------------------------------------------------------------
(* Each part survives a step *)

LEMMA StepUnanswered ==
    PatientClients /\ PatientInv /\ [Next]_vars => OneUnanswered'
<1> SUFFICES ASSUME PatientClients, PatientInv, [Next]_vars,
                    NEW p \in issued', NEW q \in issued',
                    reply'[p] = <<>>, reply'[q] = <<>>, p.cam = q.cam, p.callid = q.callid
             PROVE  p = q
    BY DEF OneUnanswered
<1>0. SMInv /\ OneUnanswered
    BY DEF PatientInv
<1>1. /\ \/ p \in issued /\ reply[p] = <<>>
         \/ p \notin issued /\ issued' = issued \cup {p} /\ MayIssue(p.cam, p.callid)
      /\ \/ q \in issued /\ reply[q] = <<>>
         \/ q \notin issued /\ issued' = issued \cup {q} /\ MayIssue(q.cam, q.callid)
    BY <1>0, NewlyPending
<1> QED BY <1>0, <1>1 DEF OneUnanswered, MayIssue, Unanswered

\* An open becomes pending when its stream is registered, and a withdrawn one is not.
LEMMA OpeningSteps ==
    ASSUME SMInv, [Next]_vars, NEW r \in Request, Opening(r)'
    PROVE  OpenNew(r) \/ (Opening(r) /\ ~(TaskUnsubscribe /\ task.req = r))
<1>0. TypeOK /\ Control /\ EachOpenHasOneOwner
    BY DEF SMInv
<1>q. DistinctQueue /\ queue \in Seq(Request)
    BY <1>0 DEF EachOpenHasOneOwner, DistinctQueue, TypeOK
<1>1. ASSUME NEW q \in Request, OpenNew(q) PROVE OpenNew(r) \/ Opening(r)
  <2>1. ~Queued(q) /\ queue' = Append(queue, q) /\ task' = task
      BY <1>0, <1>1 DEF OpenNew, MayOpen, EachOpenHasOneOwner
  <2>2. Queued(r)' <=> Queued(r) \/ r = q
      BY <1>q, <2>1, SubmitQueued
  <2> QED BY <1>1, <2>1, <2>2 DEF Opening
<1>2. CASE TaskBegin
  <2>1. queue # <<>> /\ queue' = Tail(queue) /\ task'.req = Head(queue) /\ task.pc = "idle"
      BY <1>2 DEF TaskBegin
  <2>2. Queued(Head(queue)) /\ (Queued(r)' => Queued(r))
      BY <1>q, <2>1, PopQueued
  <2> QED BY <2>1, <2>2 DEF Opening, TaskBegin, TaskUnsubscribe
<1>3. CASE TaskOpened \/ TaskOpenFails
  <2>1. task.pc = "opening" /\ task'.req = task.req /\ queue' = queue
      BY <1>0, <1>3 DEF TaskOpened, TaskOpenFails, TaskReturn, TypeOK
  <2> QED BY <2>1 DEF Opening, Queued, TaskUnsubscribe
<1>4. CASE TaskReplyOk \/ TaskReplyFailed \/ TaskRemoveSender
  <2>1. queue' = queue /\ task'.pc \in {"idle", "replyFailed"} /\ task.pc # "openFailed"
      BY <1>0, <1>4 DEF TaskReplyOk, TaskReplyFailed, TaskRemoveSender, TaskEnd, NoTask, TypeOK
  <2> QED BY <2>1 DEF Opening, Queued, TaskUnsubscribe
<1>5. CASE TaskUnsubscribe
  <2>1. queue' = queue /\ task'.pc = "removeSender" /\ task.pc = "openFailed"
      BY <1>0, <1>5 DEF TaskUnsubscribe, TypeOK
  <2>2. Queued(r)
      BY <2>1 DEF Opening, Queued
  <2> QED BY <1>0, <2>2 DEF Opening, EachOpenHasOneOwner
<1>6. CASE UNCHANGED <<queue, task>>
  <2>1. Opening(r)
      BY <1>6 DEF Opening, Queued
  <2>2. ~TaskUnsubscribe
      BY <1>0, <1>6 DEF TaskUnsubscribe, TypeOK
  <2> QED BY <2>1, <2>2
<1>7. CASE UNCHANGED task
  <2>1. (\E q \in Request : OpenNew(q)) \/ TaskBegin \/ UNCHANGED queue
      BY DEF Next, ClientCall, OpenDuplicate, JoinStart, CloseUnknown, CloseKnown, IceStep,
             JoinFinish, CloseFind, CloseMute, CloseStop, CloseErase, Unregister, TaskStep,
             TaskConnect, TaskOpened, TaskOpenFails, TaskReturn, TaskReplyOk,
             TaskUnsubscribe, TaskRemoveSender, TaskReplyFailed, TaskEnd, smVars, vars
  <2>2. ~TaskUnsubscribe
      BY <1>0, <1>7 DEF TaskUnsubscribe, TypeOK
  <2> QED BY <1>1, <1>2, <1>6, <1>7, <2>1, <2>2
<1> QED BY <1>2, <1>3, <1>4, <1>5, <1>7, TaskSteps

\* An open keeps its substream: its own close waits for the answer.
LEMMA StepPending == PatientClients /\ PatientInv /\ [Next]_vars => PendingSubscribed'
<1> SUFFICES ASSUME PatientClients, PatientInv, [Next]_vars, NEW r \in Request, Opening(r)'
             PROVE  r \in subs'[r]
    BY DEF PendingSubscribed, Opening
<1>0. SMInv /\ TypeOK /\ Control /\ Registration /\ PendingSubscribed
    BY DEF PatientInv, SMInv
<1>1. CASE OpenNew(r)
    BY <1>0, <1>1 DEF OpenNew, TypeOK
<1>2. ASSUME Opening(r), ~(TaskUnsubscribe /\ task.req = r) PROVE r \in subs'[r]
  <2>1. r \in subs[r] /\ streams[r.cam] = r /\ r \in issued /\ reply[r] = <<>>
      BY <1>0, <1>2, SubscriberStream, OwnedIsPending DEF PendingSubscribed, Opening
  <2>2. ASSUME NEW q \in Request, OpenNew(q) PROVE r \in subs'[r]
      BY <1>0, <2>1, <2>2 DEF OpenNew, MayOpen, TypeOK
  <2>3. CASE JoinFinish
      BY <1>0, <2>1, <2>3 DEF JoinFinish, TypeOK
  <2>4. ASSUME NEW c \in Camera, NEW k \in CallId, CloseKnown(c, k) PROVE r \in subs'[r]
    <3>1. MayIssue(c, k) /\ streams[c] # NoRequest /\ streams[c].cam = c
        BY <1>0, <2>4 DEF CloseKnown, Registration
    <3>2. streams[c] = r => r.callid # k
        BY <2>1, <3>1 DEF MayIssue, Unanswered
    <3> QED BY <1>0, <2>1, <2>4, <3>2 DEF CloseKnown, SubsOf, TypeOK
  <2>5. CASE TaskUnsubscribe
      BY <1>0, <1>2, <2>1, <2>5 DEF TaskUnsubscribe, TypeOK
  <2>6. CASE UNCHANGED subs
      BY <2>1, <2>6
  <2> QED BY <2>2, <2>3, <2>4, <2>5, <2>6, SubsSteps
<1> QED BY <1>0, <1>1, <1>2, OpeningSteps

\* Nobody joins under the call id of an open that is taken back.
LEMMA StepWithdrawn == PatientInv /\ [Next]_vars => WithdrawnUnsubscribed'
<1> SUFFICES ASSUME PatientInv, [Next]_vars, task'.pc \in {"removeSender", "replyFailed"}
             PROVE  /\ \A m \in Request : task'.req \notin subs'[m]
                    /\ task'.pc = "removeSender" =>
                         \A q \in subs'[task'.req] : q.callid # task'.req.callid
    BY DEF WithdrawnUnsubscribed, SubsOf
<1>0. /\ SMInv /\ TypeOK /\ Control /\ Registration /\ OneUnanswered /\ PendingSubscribed
      /\ WithdrawnUnsubscribed
    BY DEF PatientInv, SMInv
<1>1. CASE TaskUnsubscribe
  <2>1. task.req \in Request /\ task'.req = task.req /\ task.pc = "openFailed"
      BY <1>0, <1>1 DEF TaskUnsubscribe, Control, TypeOK
  <2>2. task.req \in subs[task.req] /\ \A m \in Request \ {task.req} : task.req \notin subs[m]
      BY <1>0, <2>1, SubscriberStream DEF PendingSubscribed, Opening
  <2> QED BY <1>0, <1>1, <2>1, <2>2 DEF TaskUnsubscribe, SubsOf, TypeOK
<1>2. CASE TaskRemoveSender
    BY <1>0, <1>2 DEF TaskRemoveSender, WithdrawnUnsubscribed, TypeOK
<1>3. CASE UNCHANGED task
  <2>1. /\ task.req \in Request /\ task.req \in issued /\ reply[task.req] = <<>>
        /\ \A m \in Request : task.req \notin subs[m]
        /\ task.pc = "removeSender" => \A q \in subs[task.req] : q.callid # task.req.callid
      BY <1>0, <1>3, OwnedIsPending DEF Control, WithdrawnUnsubscribed, SubsOf
  <2>2. ASSUME NEW r \in Request, OpenNew(r)
        PROVE  subs'[task.req] = subs[task.req] /\ \A m \in Request : task.req \notin subs'[m]
      BY <1>0, <2>1, <2>2 DEF OpenNew, MayOpen, TypeOK
  <2>3. CASE JoinFinish
    <3>1. /\ ice.req \in Request /\ streams[ice.req.cam] \in Request
          /\ streams[ice.req.cam].cam = ice.req.cam
        BY <1>0, <2>3, RequestFields DEF JoinFinish, Control, Registration, TypeOK
    <3>2. ice.req \in issued /\ reply[ice.req] = <<>> /\ ice.req # task.req
        BY <1>0, <2>1, <3>1, OwnedIsPending DEF SMInv, EachOpenHasOneOwner
    <3>3. streams[ice.req.cam] = task.req => ice.req.callid # task.req.callid
        BY <1>0, <2>1, <3>1, <3>2 DEF OneUnanswered
    <3> QED BY <1>0, <1>3, <2>1, <2>3, <3>1, <3>2, <3>3 DEF JoinFinish, TypeOK
  <2>4. ASSUME NEW c \in Camera, NEW k \in CallId, CloseKnown(c, k)
        PROVE  \A m \in Request : subs'[m] \subseteq subs[m]
      BY <1>0, <2>4 DEF CloseKnown, TypeOK
  <2>5. ~TaskUnsubscribe
      BY <1>0, <1>3 DEF TaskUnsubscribe, TypeOK
  <2> QED BY <1>3, <2>1, <2>2, <2>3, <2>4, <2>5, SubsSteps
<1>4. CASE TaskBegin \/ TaskOpened \/ TaskOpenFails \/ TaskReplyOk \/ TaskReplyFailed
    BY <1>0, <1>4 DEF TaskBegin, TaskOpened, TaskOpenFails, TaskReturn, TaskReplyOk,
                      TaskReplyFailed, TaskEnd, NoTask, TypeOK
<1> QED BY <1>1, <1>2, <1>3, <1>4, TaskSteps

\* addsubStream makes a buffer for its own request.
LEMMA StepBuffer == PatientInv /\ [Next]_vars => BufferOwner'
<1> SUFFICES ASSUME PatientInv, [Next]_vars PROVE BufferOwner'
    OBVIOUS
<1>0. SMInv /\ TypeOK /\ Control /\ Registration /\ BufferOwner
    BY DEF PatientInv, SMInv
<1>s. \A m \in Request : subs[m] \subseteq issued
    BY <1>0, SubscriberStream
<1> USE <1>0, NoneAssumption, RequestFields DEF TypeOK, Control, Registration, BufferOwner
<1>1. ASSUME NEW r \in Request, OpenNew(r) PROVE BufferOwner'
    BY <1>1, <1>s DEF OpenNew, MayOpen
<1>2. ASSUME NEW r \in Request, JoinStart(r) PROVE BufferOwner'
  <2> DEFINE m == streams[r.cam]
  <2>1. /\ m \in Request /\ r \notin issued /\ issued' = issued \cup {r}
        /\ buffer' = [buffer EXCEPT ![m] = r] /\ ice'.req = r
        /\ UNCHANGED <<streams, subs>>
      BY <1>2 DEF JoinStart, MayOpen
  <2>2. \A c \in Camera : streams'[c] # r
      BY <2>1
  <2>3. \A n \in Request : buffer'[n] = r <=> n = m
      BY <2>1
  <2>4. \A n \in Request : r \notin subs[n]
      BY <1>s, <2>1
  <2> QED BY <2>1, <2>2, <2>3, <2>4
<1>3. CASE JoinFinish
    BY <1>3 DEF JoinFinish, IceIdle
<1>4. ASSUME UNCHANGED <<buffer, issued>>, \A m \in Request : subs'[m] \subseteq subs[m],
             ice'.pc = "joining" => UNCHANGED <<ice, streams>>
      PROVE  BufferOwner'
    BY <1>4
<1>5. ASSUME NEW c \in Camera, NEW k \in CallId, CloseKnown(c, k) PROVE BufferOwner'
    BY <1>4, <1>5 DEF CloseKnown
<1>6. CASE CloseFind \/ CloseMute \/ CloseStop \/ CloseErase
  <2>1. UNCHANGED <<buffer, issued, subs>> /\ ice'.pc # "joining"
      BY <1>6 DEF CloseFind, CloseMute, CloseStop, CloseErase, smVars
  <2> QED BY <1>4, <2>1
<1>7. CASE Unregister
    BY <1>4, <1>7 DEF Unregister, IceIdle
<1>8. CASE TaskUnsubscribe
    BY <1>4, <1>8 DEF TaskUnsubscribe
<1>9. ASSUME NEW r \in Request, OpenDuplicate(r) PROVE BufferOwner'
    BY <1>9 DEF OpenDuplicate
<1>10. CASE UNCHANGED <<buffer, issued, subs, ice, streams>>
    BY <1>4, <1>10
<1> QED BY <1>1, <1>2, <1>3, <1>5, <1>6, <1>7, <1>8, <1>9, <1>10
    DEF Next, ClientCall, CloseUnknown, IceStep, TaskStep, TaskBegin, TaskConnect,
        TaskOpened, TaskOpenFails, TaskReturn, TaskReplyOk, TaskRemoveSender,
        TaskReplyFailed, TaskEnd, smVars, vars

\* The steps that change what the pool holds.
LEMMA PoolSteps ==
    [Next]_vars =>
        \/ \E r \in Request : OpenNew(r)
        \/ JoinFinish \/ Unregister
        \/ UNCHANGED attached
BY DEF Next, ClientCall, OpenDuplicate, JoinStart, CloseUnknown, CloseKnown, IceStep,
       CloseFind, CloseMute, CloseStop, CloseErase, TaskStep, TaskBegin, TaskConnect,
       TaskOpened, TaskOpenFails, TaskReturn, TaskReplyOk, TaskUnsubscribe,
       TaskRemoveSender, TaskReplyFailed, TaskEnd, smVars, vars

\* addBuffer adds the buffer at its id, or nothing.
LEMMA AttachSets ==
    ASSUME TypeOK, NEW r \in Request, \E t \in Thread : LeastLoaded(t) /\ AttachTo(t, r)
    PROVE  \A t \in Thread, c \in Camera :
             attached'[t][c] = attached[t][c] \/ (c = r.cam /\ attached'[t][c] = r)
BY RequestFields DEF TypeOK, AttachTo

LEMMA StepPoolIds == PatientInv /\ [Next]_vars => PoolIds'
<1> SUFFICES ASSUME PatientInv, [Next]_vars PROVE PoolIds'
    OBVIOUS
<1>0. TypeOK /\ Control /\ PoolIds
    BY DEF PatientInv, SMInv
<1>1. ASSUME NEW r \in Request, OpenNew(r) PROVE PoolIds'
    BY <1>0, <1>1, AttachSets DEF OpenNew, PoolIds
<1>2. CASE JoinFinish
    BY <1>0, <1>2, AttachSets DEF JoinFinish, PoolIds, Control
<1>3. CASE Unregister
    BY <1>0, <1>3 DEF Unregister, PoolIds, TypeOK
<1>4. CASE UNCHANGED attached
    BY <1>0, <1>4 DEF PoolIds
<1> QED BY <1>1, <1>2, <1>3, <1>4, PoolSteps

\* A sender goes with its own close, or with its buffer.
LEMMA StepSender == PatientInv /\ [Next]_vars => SubscriberHasSender'
<1> SUFFICES ASSUME PatientInv, [Next]_vars,
                    NEW m \in Request, NEW q \in subs'[m], Attached(q)' \/ buffer'[m] = q
             PROVE  q \in sending'
    BY DEF SubscriberHasSender
<1>0. /\ SMInv /\ TypeOK /\ Control /\ Registration /\ BufferOwner /\ PoolIds
      /\ WithdrawnUnsubscribed /\ SubscriberHasSender
    BY DEF PatientInv, SMInv
<1>1. ASSUME q \in subs[m], Attached(q)' => Attached(q), buffer'[m] = buffer[m],
             sending \subseteq sending'
      PROVE  q \in sending'
    BY <1>0, <1>1 DEF SubscriberHasSender
<1>2. ASSUME NEW r \in Request, OpenNew(r) PROVE q \in sending'
  <2>1. CASE q = r
      BY <1>2, <2>1 DEF OpenNew
  <2>2. CASE q # r
    <3>1. m # r /\ q \in subs[m]
        BY <1>0, <1>2, <2>2 DEF OpenNew, TypeOK
    <3>2. q \in Request /\ q.cam \in Camera
        BY <1>0, <3>1, SubscriberStream, RequestFields
    <3>3. Attached(q)' => Attached(q)
        BY <1>0, <1>2, <2>2, <3>2, AttachSets DEF OpenNew, Attached
    <3> QED BY <1>0, <1>1, <1>2, <3>1, <3>3 DEF OpenNew, TypeOK
  <2> QED BY <2>1, <2>2
<1>3. ASSUME NEW r \in Request, JoinStart(r) PROVE q \in sending'
  <2> DEFINE s == streams[r.cam]
  <2>1. /\ s \in Request /\ buffer' = [buffer EXCEPT ![s] = r] /\ r \notin issued
        /\ sending' = Release(buffer[s]) /\ UNCHANGED <<subs, attached>>
      BY <1>0, <1>3, RequestFields DEF JoinStart, MayOpen, TypeOK
  <2>2. q \in subs[m] /\ q # r
      BY <1>0, <2>1, SubscriberStream
  <2>3. Attached(q) \/ (m # s /\ buffer[m] = q)
      BY <1>0, <2>1, <2>2 DEF Attached, TypeOK
  <2>4. q \in sending
      BY <1>0, <2>2, <2>3 DEF SubscriberHasSender
  <2>5. q = buffer[s] => m = s
    <3>1. q \in Request /\ q # NoRequest
        BY <1>0, <2>2, SubscriberStream, NoneAssumption
    <3> QED BY <1>0, <2>1, <2>2, <3>1 DEF BufferOwner
  <2> QED BY <2>1, <2>3, <2>4, <2>5 DEF Release
<1>4. CASE JoinFinish
  <2>1. ice.req \in Request /\ sending' = sending \cup {ice.req} /\ UNCHANGED buffer
      BY <1>0, <1>4 DEF JoinFinish, Control
  <2>2. CASE q # ice.req
    <3>1. q \in subs[m]
        BY <1>0, <1>4, <2>2 DEF JoinFinish, TypeOK
    <3>2. q \in Request /\ q.cam \in Camera
        BY <1>0, <3>1, SubscriberStream, RequestFields
    <3>3. Attached(q)' => Attached(q)
        BY <1>0, <1>4, <2>1, <2>2, <3>2, AttachSets DEF JoinFinish, Attached
    <3> QED BY <1>1, <2>1, <3>1, <3>3
  <2> QED BY <2>1, <2>2
<1>5. ASSUME NEW c \in Camera, NEW k \in CallId, CloseKnown(c, k) PROVE q \in sending'
  <2> DEFINE s == streams[c]
  <2>1. /\ s \in Request /\ sending' = DropSender(buffer[s], k)
        /\ subs' = [subs EXCEPT ![s] = @ \ SubsOf(s, k)] /\ UNCHANGED <<buffer, attached>>
      BY <1>0, <1>5 DEF CloseKnown, TypeOK
  <2>2. q \in subs[m] /\ (m = s => q.callid # k)
      BY <1>0, <2>1 DEF SubsOf, TypeOK
  <2>3. q \in sending
      BY <1>0, <2>1, <2>2 DEF SubscriberHasSender, Attached
  <2>4. q = buffer[s] => m = s
    <3>1. q \in Request /\ q # NoRequest
        BY <1>0, <2>2, SubscriberStream, NoneAssumption
    <3> QED BY <1>0, <2>1, <2>2, <3>1 DEF BufferOwner
  <2> QED BY <2>1, <2>2, <2>3, <2>4 DEF DropSender
<1>6. CASE Unregister
  <2> DEFINE c == ice.cam
  <2>1. c \in Camera /\ streams[c] \in Request /\ subs[streams[c]] = {}
      BY <1>0, <1>6 DEF Unregister, Control, Registration, TypeOK
  <2>2. /\ sending' = sending \ ({buffer[streams[c]]} \cup {attached[t][c] : t \in Thread})
        /\ UNCHANGED <<subs, buffer>>
      BY <1>6 DEF Unregister
  <2>3. q \in subs[m] /\ q \in Request /\ q.cam \in Camera /\ q # NoRequest
      BY <1>0, <2>2, SubscriberStream, RequestFields, NoneAssumption
  <2>4. q.cam # c
      BY <1>0, <2>1, <2>3, SubscriberStream
  <2>5. Attached(q)' => Attached(q)
      BY <1>0, <1>6, <2>3, <2>4 DEF Unregister, Attached, TypeOK
  <2>6. q \in sending
      BY <1>0, <2>2, <2>3, <2>5 DEF SubscriberHasSender
  <2>7. q # buffer[streams[c]]
      BY <1>0, <2>1, <2>3 DEF BufferOwner
  <2>8. \A t \in Thread : q # attached[t][c]
      BY <1>0, <2>1, <2>3, <2>4 DEF PoolIds
  <2> QED BY <2>2, <2>6, <2>7, <2>8
<1>7. CASE TaskUnsubscribe
    BY <1>0, <1>1, <1>7 DEF TaskUnsubscribe, Attached, TypeOK
<1>8. CASE TaskRemoveSender
  <2> DEFINE s == task.req
  <2>1. s \in Request /\ sending' = DropSender(buffer[s], s.callid)
        /\ UNCHANGED <<subs, buffer, attached>>
      BY <1>0, <1>8 DEF TaskRemoveSender, Control
  <2>2. q \in subs[m] /\ q \in sending /\ q \in Request
      BY <1>0, <2>1, SubscriberStream DEF SubscriberHasSender, Attached
  <2>3. q = buffer[s] => m = s
      BY <1>0, <2>1, <2>2, NoneAssumption DEF BufferOwner
  <2>4. \A p \in subs[s] : p.callid # s.callid
      BY <1>0, <1>8 DEF TaskRemoveSender, WithdrawnUnsubscribed, SubsOf
  <2> QED BY <2>1, <2>2, <2>3, <2>4 DEF DropSender
<1>9. CASE UNCHANGED <<subs, buffer, sending, attached>>
    BY <1>1, <1>9 DEF Attached
<1> QED BY <1>2, <1>3, <1>4, <1>5, <1>6, <1>7, <1>8, <1>9
    DEF Next, ClientCall, OpenDuplicate, CloseUnknown, IceStep, CloseFind, CloseMute,
        CloseStop, CloseErase, TaskStep, TaskBegin, TaskConnect, TaskOpened,
        TaskOpenFails, TaskReturn, TaskReplyOk, TaskReplyFailed, TaskEnd, smVars, vars

-----------------------------------------------------------------------------
(* What patient clients get *)

LEMMA StepPatient == PatientClients /\ PatientInv /\ [Next]_vars => PatientInv'
BY StepInv, StepUnanswered, StepPending, StepWithdrawn, StepBuffer, StepPoolIds, StepSender
   DEF PatientInv

\* The invariant of a system with patient clients.
LEMMA PatientInvariant == ASSUME PatientClients PROVE Spec => []PatientInv
<1>1. Init => PatientInv
    BY InitPatient
<1>2. PatientInv /\ [Next]_vars => PatientInv'
    BY StepPatient
<1> QED BY <1>1, <1>2, PTL DEF Spec

\* A camera is not closed while its open has a substream.
LEMMA OpenKeepsOthersOut ==
    ASSUME PatientInv, NEW r \in Request, Opening(r)
    PROVE  /\ streams[r.cam] = r /\ subs[r] # {}
           /\ ice.pc \in {"closing", "stopping", "unregister"} => ice.cam # r.cam
BY SubscriberStream DEF PatientInv, SMInv, PendingSubscribed, Registration

\* RealSteam::closeStream never runs on the camera that openRealStream works on: the
\* play handle in a SdkUser, which has no lock, has one user at a time.
THEOREM CloseAvoidsOpen == ASSUME PatientClients PROVE Spec => []NoCloseDuringOpen
<1>1. PatientInv => NoCloseDuringOpen
  <2> SUFFICES ASSUME PatientInv, closer.pc # "idle", opener.pc # "idle"
               PROVE  opener.req.cam # closer.cam
      BY DEF NoCloseDuringOpen
  <2>1. /\ ice.pc = "stopping" /\ closer.cam = ice.cam
        /\ task.pc = "opening" /\ task.req = opener.req /\ task.req \in Request
      BY DEF PatientInv, SMInv, Control
  <2> QED BY <2>1, OpenKeepsOthersOut DEF Opening
<1> QED BY <1>1, PatientInvariant, PTL

\* removeSender, which looks for its sender outside mutex_ in whatever buffer the
\* stream has now, takes no other subscriber's.
THEOREM SubscriberKeepsSender == ASSUME PatientClients PROVE Spec => []SubscriberHasSender
<1>1. PatientInv => SubscriberHasSender
    BY DEF PatientInv
<1> QED BY <1>1, PatientInvariant, PTL

-----------------------------------------------------------------------------
(* The clients' table of subscriptions *)

\* A member is a subscriber of any stream at all: it is registered.
MembersSubscribe == Members = {q \in Request : \E m \in Request : q \in subs[m]}

LEMMA MembersAre == SMInv => MembersSubscribe
<1> SUFFICES ASSUME SMInv PROVE MembersSubscribe
    OBVIOUS
<1>1. ASSUME NEW q \in Members PROVE \E m \in Request : q \in subs[m]
    BY <1>1, RequestFields DEF Members, SMInv, TypeOK
<1>2. ASSUME NEW q \in Request, NEW m \in Request, q \in subs[m] PROVE q \in Members
    BY <1>2, SubscriberStream, NoneAssumption DEF Members
<1>3. Members \subseteq Request
    BY DEF Members
<1> QED BY <1>1, <1>2, <1>3 DEF MembersSubscribe

LEMMA MembersAreNext == SMInv' => MembersSubscribe'
BY MembersAre, PTL

\* Nobody subscribes or leaves.
LEMMA MembersKept == ASSUME SMInv, SMInv', UNCHANGED subs PROVE Members' = Members
BY MembersAre, MembersAreNext DEF MembersSubscribe

\* The subscriptions of a call are the substreams of the registered stream.
LEMMA MembersOfCall ==
    ASSUME SMInv, NEW c \in Camera, NEW k \in CallId
    PROVE  Registry!Of(c, k) = IF streams[c] = NoRequest THEN {} ELSE SubsOf(streams[c], k)
<1>1. ASSUME NEW q \in Registry!Of(c, k)
      PROVE  streams[c] # NoRequest /\ q \in SubsOf(streams[c], k)
    BY <1>1 DEF Registry!Of, Members, SubsOf
<1>2. ASSUME streams[c] # NoRequest, NEW q \in SubsOf(streams[c], k)
      PROVE  q \in Registry!Of(c, k)
  <2>1. streams[c] \in Request /\ streams[c].cam = c /\ q \in subs[streams[c]] /\ q.callid = k
      BY <1>2 DEF SMInv, TypeOK, Registration, SubsOf
  <2>2. q \in Request /\ q.cam = c
      BY <2>1, SubscriberStream
  <2> QED BY <1>2, <2>1, <2>2 DEF Registry!Of, Members
<1> QED BY <1>1, <1>2

LEMMA NoAnswerYet ==
    ASSUME TypeOK, NEW r \in Request
    PROVE  Answers[r] = "none" <=> reply[r] = <<>>
<1>1. reply[r] # <<>> => reply[r][1] \in {"ok", "failed"}
    BY TailElements DEF TypeOK
<1> QED BY <1>1 DEF Answers

LEMMA AnswersKept == ASSUME UNCHANGED reply PROVE Answers' = Answers
BY DEF Answers

LEMMA AnswerGiven ==
    ASSUME SMInv, NEW r \in Request, NEW a \in {"ok", "failed"}, reply[r] = <<>>, Answer(r, a)
    PROVE  Registry!Reply(r, a)
<1>1. reply'[r] = <<a>> /\ reply'[r] # <<>> /\ \A q \in Request : q # r => reply'[q] = reply[q]
    BY OneAnswer DEF SMInv
<1>2. <<a>>[1] = a
    OBVIOUS
<1>3. Answers' = [Answers EXCEPT ![r] = a]
    BY <1>1, <1>2 DEF Answers
<1> QED BY <1>3 DEF Registry!Reply

\* The client's close finds no open of its call still pending.
LEMMA ClosesAnswered ==
    ASSUME SMInv, NEW c \in Camera, NEW k \in CallId, PatientClients, MayIssue(c, k)
    PROVE  \A q \in Registry!Of(c, k) : ~Registry!Pending(q)
<1> SUFFICES ASSUME NEW q \in Registry!Of(c, k), Registry!Pending(q) PROVE FALSE
    OBVIOUS
<1>1. q \in Request /\ q.cam = c /\ q.callid = k /\ q \in issued /\ Answers[q] = "none"
    BY DEF Registry!Of, Registry!Pending, Members
<1>2. reply[q] = <<>>
    BY <1>1, NoAnswerYet DEF SMInv
<1> QED BY <1>1, <1>2 DEF MayIssue, Unanswered

LEMMA StepRegistry ==
    ASSUME PatientClients, PatientInv, PatientInv', [Next]_vars
    PROVE  [Registry!Next]_(Registry!regVars)
<1>0. /\ SMInv /\ SMInv' /\ TypeOK /\ Control /\ Registration /\ PendingSubscribed
      /\ WithdrawnUnsubscribed
    BY DEF PatientInv, SMInv
<1>m. /\ Members = {q \in Request : \E m \in Request : q \in subs[m]}
      /\ Members' = {q \in Request : \E m \in Request : q \in subs'[m]}
    BY <1>0, MembersAre, MembersAreNext DEF MembersSubscribe
<1> USE DEF Registry!Next, Registry!regVars
<1>1. ASSUME NEW r \in Request, OpenNew(r) PROVE Registry!Receive(r)
  <2>1. Registry!Of(r.cam, r.callid) = {}
      BY <1>0, <1>1, MembersOfCall, RequestFields DEF OpenNew
  <2>2. subs[r] = {}
      BY <1>0, <1>1, SubscriberStream, NoneAssumption DEF OpenNew
  <2>3. Members' = Members \cup {r}
      BY <1>0, <1>1, <1>m, <2>2 DEF OpenNew, TypeOK
  <2>4. r \notin issued /\ issued' = issued \cup {r} /\ Answers' = Answers
      BY <1>1, AnswersKept DEF OpenNew, MayOpen
  <2> QED BY <2>1, <2>3, <2>4 DEF Registry!Receive
<1>2. ASSUME NEW r \in Request, OpenDuplicate(r) PROVE Registry!Refuse(r)
  <2>1. r \notin issued /\ issued' = issued \cup {r} /\ UNCHANGED subs /\ Answer(r, "failed")
      BY <1>2 DEF OpenDuplicate, MayOpen
  <2>2. reply[r] = <<>>
      BY <1>0, <2>1 DEF SMInv, EachOpenHasOneOwner
  <2>3. Registry!Of(r.cam, r.callid) # {}
      BY <1>0, <1>2, MembersOfCall, RequestFields DEF OpenDuplicate
  <2>4. Registry!Reply(r, "failed") /\ Members' = Members
      BY <1>0, <2>1, <2>2, AnswerGiven, MembersKept
  <2> QED BY <2>1, <2>3, <2>4 DEF Registry!Refuse
<1>3. ASSUME NEW r \in Request, JoinStart(r) PROVE Registry!Receive(r)
  <2>1. r \notin issued /\ issued' = issued \cup {r} /\ UNCHANGED <<subs, reply>>
      BY <1>3 DEF JoinStart, MayOpen
  <2> QED BY <1>0, <2>1, MembersKept, AnswersKept DEF Registry!Receive
<1>4. CASE JoinFinish
  <2> DEFINE r == ice.req
             m == streams[r.cam]
  <2>1. r \in Request /\ m \in Request /\ m # NoRequest /\ r.cam \in Camera /\ r.callid \in CallId
      BY <1>0, <1>4, RequestFields DEF JoinFinish, Control, Registration, TypeOK
  <2>2. r \in issued /\ reply[r] = <<>>
      BY <1>0, <2>1, OwnedIsPending
  <2>3. Registry!Of(r.cam, r.callid) = {}
      BY <1>0, <1>4, <2>1, MembersOfCall DEF JoinFinish, SMInv, Substreams
  <2>4. Members' = Members \cup {r}
    <3>1. subs' = [subs EXCEPT ![m] = @ \cup {r}]
        BY <1>4 DEF JoinFinish
    <3> QED BY <1>0, <1>m, <2>1, <3>1 DEF TypeOK
  <2>5. Registry!Reply(r, "ok") /\ issued' = issued
      BY <1>0, <1>4, <2>1, <2>2, AnswerGiven DEF JoinFinish
  <2>6. Registry!Pending(r)
      BY <1>0, <2>1, <2>2, NoAnswerYet DEF Registry!Pending
  <2>7. Registry!Admit(r)
      BY <2>3, <2>4, <2>5, <2>6 DEF Registry!Admit
  <2> QED BY <2>1, <2>7
<1>5. ASSUME NEW c \in Camera, NEW k \in CallId, CloseKnown(c, k)
      PROVE  [Registry!Next]_(Registry!regVars)
  <2> DEFINE m == streams[c]
  <2>1. /\ m \in Request /\ m # NoRequest /\ MayIssue(c, k)
        /\ subs' = [subs EXCEPT ![m] = @ \ SubsOf(m, k)]
        /\ UNCHANGED <<issued, reply>>
      BY <1>0, <1>5 DEF CloseKnown, TypeOK
  <2>2. Answers' = Answers
      BY <2>1, AnswersKept
  <2>3. Registry!Of(c, k) = SubsOf(m, k)
      BY <1>0, <2>1, MembersOfCall
  <2>4. Members' = Members \ SubsOf(m, k)
    <3>1. ASSUME NEW q \in SubsOf(m, k), NEW n \in Request PROVE q \notin subs'[n]
        BY <1>0, <2>1, <3>1, SubscriberStream DEF SubsOf, TypeOK
    <3>2. ASSUME NEW q \in Request, q \notin SubsOf(m, k), NEW n \in Request
          PROVE  q \in subs'[n] <=> q \in subs[n]
        BY <1>0, <2>1, <3>2 DEF TypeOK
    <3> QED BY <1>m, <3>1, <3>2
  <2>5. CASE SubsOf(m, k) = {}
      BY <2>1, <2>2, <2>4, <2>5
  <2>6. ASSUME NEW q \in SubsOf(m, k) PROVE Registry!Close(q.cam, q.callid) /\ q \in Request
    <3>1. q \in Request /\ q.cam = c /\ q.callid = k
        BY <2>3, <2>6 DEF Registry!Of, Members
    <3>2. \A p \in Registry!Of(c, k) : ~Registry!Pending(p)
        BY <1>0, <2>1, ClosesAnswered
    <3> QED BY <2>1, <2>2, <2>3, <2>4, <3>1, <3>2 DEF Registry!Close
  <2> QED BY <2>5, <2>6
<1>6. CASE TaskUnsubscribe
  <2> DEFINE r == task.req
  <2>1. r \in Request /\ task.pc = "openFailed" /\ UNCHANGED <<issued, reply>>
        /\ subs' = [subs EXCEPT ![r] = @ \ SubsOf(r, r.callid)]
      BY <1>0, <1>6 DEF TaskUnsubscribe, Control
  <2>2. r \in issued /\ reply[r] = <<>> /\ r \in subs[r]
      BY <1>0, <2>1, OwnedIsPending DEF PendingSubscribed, Opening
  <2>3. SubsOf(r, r.callid) = {r}
      BY <1>0, <2>1, <2>2 DEF SubsOf, SMInv, Substreams, OneSubstreamPerCall
  <2>4. Members' = Members \ {r}
    <3>1. \A n \in Request : r \notin subs'[n]
        BY <1>0, <2>1, <2>2, <2>3, SubscriberStream DEF TypeOK
    <3>2. \A q \in Request \ {r}, n \in Request : q \in subs'[n] <=> q \in subs[n]
        BY <1>0, <2>1, <2>3 DEF TypeOK
    <3> QED BY <1>m, <3>1, <3>2
  <2>5. Registry!Pending(r) /\ Answers' = Answers
      BY <1>0, <2>1, <2>2, NoAnswerYet, AnswersKept DEF Registry!Pending
  <2>6. Registry!Withdraw(r)
      BY <2>1, <2>4, <2>5 DEF Registry!Withdraw
  <2> QED BY <2>1, <2>6
<1>7. CASE TaskReplyOk \/ TaskReplyFailed
  <2> DEFINE r == task.req
  <2>1. r \in Request
      BY <1>0, <1>7 DEF TaskReplyOk, TaskReplyFailed, Control
  <2>2. reply[r] = <<>> /\ r \in issued
      BY <1>0, <2>1, OwnedIsPending
  <2>3. Registry!Pending(r)
      BY <1>0, <2>1, <2>2, NoAnswerYet DEF Registry!Pending
  <2>4. UNCHANGED <<issued, subs>>
      BY <1>7 DEF TaskReplyOk, TaskReplyFailed, TaskEnd
  <2>5. Members' = Members
      BY <1>0, <2>4, MembersKept
  <2>6. CASE TaskReplyOk
    <3>1. r \in subs[r]
        BY <1>0, <2>1, <2>6 DEF TaskReplyOk, PendingSubscribed, Opening
    <3>2. Registry!Reply(r, "ok")
        BY <1>0, <2>1, <2>2, <2>6, AnswerGiven DEF TaskReplyOk, TaskEnd
    <3>3. Registry!Confirm(r)
        BY <1>m, <2>1, <2>3, <2>4, <2>5, <3>1, <3>2 DEF Registry!Confirm
    <3> QED BY <2>1, <3>3
  <2>7. CASE TaskReplyFailed
    <3>1. \A m \in Request : r \notin subs[m]
        BY <1>0, <2>7 DEF TaskReplyFailed, WithdrawnUnsubscribed
    <3>2. Registry!Reply(r, "failed")
        BY <1>0, <2>1, <2>2, <2>7, AnswerGiven DEF TaskReplyFailed, TaskEnd
    <3>3. Registry!Fail(r)
        BY <1>m, <2>1, <2>3, <2>4, <2>5, <3>1, <3>2 DEF Registry!Fail
    <3> QED BY <2>1, <3>3
  <2> QED BY <1>7, <2>6, <2>7
<1>8. CASE UNCHANGED <<issued, subs, reply>>
    BY <1>0, <1>8, MembersKept, AnswersKept
<1> QED BY <1>1, <1>2, <1>3, <1>4, <1>5, <1>6, <1>7, <1>8
    DEF Next, ClientCall, CloseUnknown, IceStep, CloseFind, CloseMute, CloseStop, CloseErase,
        Unregister, TaskStep, TaskBegin, TaskConnect, TaskOpened, TaskOpenFails, TaskReturn,
        TaskRemoveSender, smVars, vars

\* What the clients see of streams, substreams and threads is a table of
\* subscriptions: an "ok" holds until its close, a "failed" leaves nothing behind,
\* and no call has two.
THEOREM ManagerImplementsRegistry == ASSUME PatientClients PROVE Spec => ImplementsRegistry
<1>1. Init => Registry!Init
  <2> SUFFICES ASSUME Init PROVE Registry!Init
      OBVIOUS
  <2>1. Members = {} /\ Answers = [r \in Request |-> "none"]
      BY RequestFields DEF Init, Members, Answers
  <2> QED BY <2>1 DEF Init, Registry!Init
<1>2. PatientInv /\ PatientInv' /\ [Next]_vars => [Registry!Next]_(Registry!regVars)
    BY StepRegistry
<1> QED BY <1>1, <1>2, PatientInvariant, PTL DEF Spec, ImplementsRegistry, Registry!Spec
=============================================================================
