----------------------- MODULE StreamManager_proofs ------------------------
(* TLAPS proofs about HikController and StreamManager.  The invariant is split *)
(* by concern; each part is shown to survive every action, using the parts     *)
(* before it.                                                                  *)
EXTENDS StreamManager, QueueLemmas

-----------------------------------------------------------------------------
(* The controller, whoever uses it *)

\* What the two calls in progress know of the state they left behind.
CallsInProgress ==
    /\ opener.pc # "idle" => opener.req \in Request
    /\ opener.pc \in {"play", "setHandle", "register"} => sdkusers[opener.req.cam] # NoUser
    /\ opener.pc \in {"setHandle", "register"} => opener.handle \in Handle
    /\ closer.pc # "idle" => closer.cam \in Camera /\ sdkusers[closer.cam] # NoUser

HikInv ==
    /\ HikTypeOK
    /\ CallsInProgress
    /\ OneLoginPerCamera
    /\ NoDoubleFree

\* The device id of a request is a camera.
LEMMA RequestFields == \A r \in Request : r.cam \in Camera /\ r.callid \in CallId
BY RequestAssumption

LEMMA HikInitInv == HikInit => HikInv
BY NoneAssumption
   DEF HikInit, HikInv, HikTypeOK, CallsInProgress, OneLoginPerCamera, NoDoubleFree,
       PlayHandle, NotOpening, NotClosing

\* Every step of the controller keeps the invariant, whoever takes it.
LEMMA HikStepInv == HikInv /\ [HikNext]_hikVars => HikInv'
<1> SUFFICES ASSUME HikInv, [HikNext]_hikVars PROVE HikInv'
    OBVIOUS
<1> USE NoneAssumption, RequestFields
    DEF HikInv, HikTypeOK, CallsInProgress, PlayHandle, sdkVars
<1>1. ASSUME NEW r \in Request, Fresh(r), BeginOpen(r) PROVE HikInv'
    BY <1>1 DEF Fresh, BeginOpen, OneLoginPerCamera, NoDoubleFree
<1>2. CASE AlreadyLoggedIn
    BY <1>2 DEF AlreadyLoggedIn, OneLoginPerCamera, NoDoubleFree
<1>3. CASE LogIn
  <2> DEFINE c == opener.req.cam
  <2>1. opener.req \in Request /\ c \in Camera
      BY <1>3 DEF LogIn
  <2>2. HikTypeOK' /\ CallsInProgress'
      BY <1>3, <2>1 DEF LogIn
  <2>3. OneLoginPerCamera'
      BY <1>3, <2>1 DEF LogIn, OneLoginPerCamera
  <2>4. NoDoubleFree'
      BY <1>3 DEF LogIn, NoDoubleFree
  <2> QED BY <2>2, <2>3, <2>4
<1>4. CASE LogInFails
    BY <1>4 DEF LogInFails, NotOpening, OneLoginPerCamera, NoDoubleFree
<1>5. ASSUME NEW h \in Handle, Play(h) PROVE HikInv'
    BY <1>5 DEF Play, OneLoginPerCamera, NoDoubleFree
<1>6. CASE PlayFails
    BY <1>6 DEF PlayFails, NotOpening, OneLoginPerCamera, NoDoubleFree
<1>7. CASE SetPlayHandle
  <2>1. opener.req.cam \in Camera /\ opener.handle \in Handle
      BY <1>7 DEF SetPlayHandle
  <2>2. HikTypeOK' /\ CallsInProgress'
      BY <1>7, <2>1 DEF SetPlayHandle
  <2>3. OneLoginPerCamera' /\ NoDoubleFree'
      BY <1>7, <2>1 DEF SetPlayHandle, OneLoginPerCamera, NoDoubleFree
  <2> QED BY <2>2, <2>3
<1>8. CASE RegisterCallback
  <2>1. opener.req \in Request /\ opener.handle \in Handle
      BY <1>8 DEF RegisterCallback
  <2>2. HikTypeOK' /\ CallsInProgress' /\ OneLoginPerCamera'
      BY <1>8, <2>1 DEF RegisterCallback, NotOpening, OneLoginPerCamera
  <2>3. NoDoubleFree'
      BY <1>8, <2>1 DEF RegisterCallback, NotOpening, NoDoubleFree
  <2> QED BY <2>2, <2>3
<1>9. ASSUME NEW c \in Camera, BeginClose(c) PROVE HikInv'
    BY <1>9 DEF BeginClose, OneLoginPerCamera, NoDoubleFree
<1>10. CASE Mute
    BY <1>10 DEF Mute, ClosingHandle, OneLoginPerCamera, NoDoubleFree
<1>11. CASE Stop
    BY <1>11 DEF Stop, ClosingHandle, Running, OneLoginPerCamera, NoDoubleFree
<1>12. CASE EraseCallback
  <2>1. HikTypeOK' /\ CallsInProgress' /\ OneLoginPerCamera'
      BY <1>12 DEF EraseCallback, ClosingHandle, NotClosing, OneLoginPerCamera
  <2>2. NoDoubleFree'
      BY <1>12 DEF EraseCallback, ClosingHandle, NoDoubleFree
  <2> QED BY <2>1, <2>2
<1>13. CASE UNCHANGED hikVars
    BY <1>13 DEF hikVars, OneLoginPerCamera, NoDoubleFree
<1> QED
    BY <1>1, <1>2, <1>3, <1>4, <1>5, <1>6, <1>7, <1>8, <1>9, <1>10, <1>11, <1>12, <1>13
    DEF HikNext, OpenStep, CloseStep

\* The invariant holds of every behaviour of the controller.
THEOREM HikInvariant == HikSpec => []HikInv
BY HikInitInv, HikStepInv, PTL DEF HikSpec

\* Type correctness of the controller's state and of what the SDK tells it.
THEOREM HikTypeCorrect == HikSpec => []HikTypeOK
<1>1. HikInv => HikTypeOK
    BY DEF HikInv
<1> QED BY <1>1, HikInvariant, PTL

\* No camera is ever logged in twice (openRealStream finds it in sdkusers_).
THEOREM LoginOnce == HikSpec => []OneLoginPerCamera
<1>1. HikInv => OneLoginPerCamera
    BY DEF HikInv
<1> QED BY <1>1, HikInvariant, PTL

\* closeRealStream never deletes a callback twice, and openRealStream never
\* registers one that was deleted, however opens and closes interleave.
THEOREM CallbacksFreedOnce == HikSpec => []NoDoubleFree
<1>1. HikInv => NoDoubleFree
    BY DEF HikInv
<1> QED BY <1>1, HikInvariant, PTL

-----------------------------------------------------------------------------
(* The invariant of the manager *)

\* Which thread is where: the positions of the two actors and of the controller
\* calls they make agree.
Control ==
    /\ task.pc = "idle" => task.req = NoRequest
    /\ task.pc # "idle" => task.req \in Request
    /\ task.pc = "opening" => opener.pc # "idle" /\ opener.req = task.req
    /\ task.pc # "opening" => opener.pc = "idle"
    /\ ice.pc = "joining" => ice.req \in Request
    /\ ice.pc # "joining" => ice.req = NoRequest
    /\ ice.pc \in {"idle", "joining"} => ice.cam = NoCamera
    /\ ice.pc \in {"closing", "stopping", "unregister"} => ice.cam \in Camera
    /\ ice.pc = "stopping" => closer.pc # "idle" /\ closer.cam = ice.cam
    /\ ice.pc # "stopping" => closer.pc = "idle"

\* streams_ holds streams of the right camera; a join or a close in progress
\* still finds the stream it started on.
Registration ==
    /\ \A c \in Camera : streams[c] # NoRequest =>
         streams[c] \in issued /\ streams[c].cam = c
    /\ ice.pc = "joining" => streams[ice.req.cam] # NoRequest
    /\ ice.pc \in {"closing", "stopping", "unregister"} =>
         streams[ice.cam] # NoRequest /\ subs[streams[ice.cam]] = {}

\* The controller has heard of a request only after it left the queue.
KnownToController ==
    \A r \in Request : ~Fresh(r) => r \in issued /\ ~Queued(r)

\* subStreams_ is a map from call ids.
OneSubstreamPerCall ==
    \A m \in Request : \A p, q \in subs[m] : p.callid = q.callid => p = q

\* The substreams of a stream are received requests for its camera, one of each
\* call; the request that joins a stream will be the only one of its call.
Substreams ==
    /\ \A m \in Request : \A q \in subs[m] : q \in issued /\ q.cam = m.cam
    /\ ice.pc = "joining" => SubsOf(streams[ice.req.cam], ice.req.callid) = {}
    /\ OneSubstreamPerCall

SMInv ==
    /\ TypeOK
    /\ HikInv
    /\ Control
    /\ Registration
    /\ EachOpenHasOneOwner
    /\ KnownToController
    /\ DestroyedStreamsAreEmpty
    /\ PoolMatchesRegistry
    /\ EmptyOnlyAfterFailedOpen
    /\ Substreams

-----------------------------------------------------------------------------
(* Every step is a step of the controller or leaves it alone *)

\* A step of the manager is a HikController step, or leaves it unchanged.
LEMMA StepUsesController == SMInv /\ [Next]_vars => [HikNext]_hikVars
<1> SUFFICES ASSUME SMInv, [Next]_vars PROVE [HikNext]_hikVars
    OBVIOUS
<1> USE DEF SMInv, HikNext, OpenStep, CloseStep
<1>1. CASE ClientCall
    BY <1>1 DEF ClientCall, OpenNew, OpenDuplicate, JoinStart, CloseUnknown, CloseKnown
<1>2. CASE IceStep
  <2>1. CASE CloseFind
    <3>1. ice.cam \in Camera
        BY <2>1 DEF CloseFind, Control
    <3> QED BY <2>1, <3>1 DEF CloseFind
  <2> QED BY <1>2, <2>1
      DEF IceStep, JoinFinish, CloseMute, CloseStop, CloseErase, Unregister
<1>3. CASE TaskStep
  <2>1. CASE TaskBegin
    <3>1. Head(queue) \in Request /\ Queued(Head(queue))
        BY <2>1, TailElements DEF TaskBegin, TypeOK, Queued
    <3>2. Fresh(Head(queue))
        BY <3>1 DEF KnownToController
    <3> QED BY <2>1, <3>1, <3>2 DEF TaskBegin
  <2> QED BY <1>3, <2>1
      DEF TaskStep, TaskConnect, TaskOpened, TaskOpenFails, TaskReplyOk,
          TaskUnsubscribe, TaskRemoveSender, TaskReplyFailed, TaskEnd
<1>4. CASE UNCHANGED vars
    BY <1>4 DEF vars
<1> QED BY <1>1, <1>2, <1>3, <1>4 DEF Next

-----------------------------------------------------------------------------
(* Each part of the invariant survives a step *)

LEMMA InitInv == Init => SMInv
<1> SUFFICES ASSUME Init PROVE SMInv
    OBVIOUS
<1>1. HikInv
    BY HikInitInv DEF Init
<1>2. TypeOK
    BY <1>1 DEF Init, TypeOK, HikInv, NoTask, IceIdle
<1>3. Control /\ Registration
    BY NoneAssumption
    DEF Init, HikInit, Control, Registration, NoTask, IceIdle, NotOpening, NotClosing
<1>4. EachOpenHasOneOwner /\ KnownToController
    BY NoneAssumption
    DEF Init, HikInit, EachOpenHasOneOwner, KnownToController, Fresh, Queued, NoTask, IceIdle
<1>5. DestroyedStreamsAreEmpty /\ PoolMatchesRegistry /\ EmptyOnlyAfterFailedOpen
    BY RequestFields
    DEF Init, DestroyedStreamsAreEmpty, PoolMatchesRegistry, EmptyOnlyAfterFailedOpen
<1>6. Substreams
    BY DEF Init, Substreams, OneSubstreamPerCall, IceIdle
<1> QED BY <1>1, <1>2, <1>3, <1>4, <1>5, <1>6 DEF SMInv

\* What addsubStream does to the pool keeps its type.
LEMMA AttachType ==
    ASSUME TypeOK, NEW r \in Request, \E t \in Thread : LeastLoaded(t) /\ AttachTo(t, r)
    PROVE  attached' \in [Thread -> [Camera -> Request \cup {NoRequest}]]
BY RequestFields DEF TypeOK, AttachTo

\* Types survive a step; those of the controller's variables do by HikStepInv.
LEMMA StepType == SMInv /\ HikInv' /\ [Next]_vars => TypeOK'
<1> SUFFICES ASSUME SMInv, HikInv', [Next]_vars PROVE TypeOK'
    OBVIOUS
<1>0. TypeOK /\ Control /\ HikTypeOK'
    BY DEF SMInv, HikInv
<1> USE <1>0 DEF TypeOK, SubsOf, DropSender, Answer, IceIdle, NoTask
<1>1. ASSUME NEW r \in Request, OpenNew(r) PROVE TypeOK'
  <2>1. queue' \in Seq(Request)
      BY <1>1, AppendElements DEF OpenNew
  <2> QED BY <1>1, <2>1, AttachType, RequestFields DEF OpenNew
<1>2. ASSUME NEW r \in Request, OpenDuplicate(r) PROVE TypeOK'
    BY <1>2, AppendElements DEF OpenDuplicate
<1>3. ASSUME NEW r \in Request, JoinStart(r) PROVE TypeOK'
    BY <1>3, RequestFields DEF JoinStart, Release
<1>4. CASE JoinFinish
  <2>1. ice.req \in Request
      BY <1>4 DEF JoinFinish, Control
  <2>2. attached' \in [Thread -> [Camera -> Request \cup {NoRequest}]]
      BY <1>4, <2>1, AttachType DEF JoinFinish
  <2>3. reply' \in [Request -> Seq({"ok", "failed"})]
      BY <1>4, <2>1, AppendElements DEF JoinFinish
  <2> QED BY <1>4, <2>1, <2>2, <2>3 DEF JoinFinish
<1>5. ASSUME NEW c \in Camera, NEW k \in CallId, CloseUnknown(c, k) \/ CloseKnown(c, k)
      PROVE TypeOK'
  <2>1. CASE CloseUnknown(c, k)
      BY <2>1 DEF CloseUnknown
  <2>2. CASE CloseKnown(c, k)
      BY <2>2 DEF CloseKnown
  <2> QED BY <1>5, <2>1, <2>2
<1>6. CASE CloseFind \/ CloseMute \/ CloseStop \/ CloseErase
    BY <1>6 DEF CloseFind, CloseMute, CloseStop, CloseErase, smVars
<1>7. CASE Unregister
  <2>1. attached' \in [Thread -> [Camera -> Request \cup {NoRequest}]]
      BY <1>7 DEF Unregister
  <2>2. streams' \in [Camera -> Request \cup {NoRequest}]
      BY <1>7 DEF Unregister
  <2> QED BY <1>7, <2>1, <2>2 DEF Unregister
<1>8. CASE TaskBegin
    BY <1>8, TailElements DEF TaskBegin
<1>9. CASE TaskConnect \/ TaskOpened \/ TaskOpenFails
    BY <1>9 DEF TaskConnect, TaskOpened, TaskOpenFails, TaskReturn, smVars
<1>10. CASE TaskReplyOk \/ TaskReplyFailed
  <2>1. task.req \in Request
      BY <1>10 DEF TaskReplyOk, TaskReplyFailed, Control
  <2>2. PICK a \in {"ok", "failed"} : TaskEnd(a)
      BY <1>10 DEF TaskReplyOk, TaskReplyFailed
  <2>3. Append(reply[task.req], a) \in Seq({"ok", "failed"})
      BY <2>1, AppendElements
  <2>4. reply' \in [Request -> Seq({"ok", "failed"})]
      BY <2>1, <2>2, <2>3 DEF TaskEnd
  <2> QED BY <1>10, <2>4 DEF TaskReplyOk, TaskReplyFailed, TaskEnd
<1>11. CASE TaskUnsubscribe
    BY <1>11 DEF TaskUnsubscribe
<1>12. CASE TaskRemoveSender
    BY <1>12 DEF TaskRemoveSender
<1>13. CASE UNCHANGED vars
    BY <1>13 DEF vars, smVars
<1> QED BY <1>1, <1>2, <1>3, <1>4, <1>5, <1>6, <1>7, <1>8, <1>9, <1>10, <1>11, <1>12, <1>13
    DEF Next, ClientCall, IceStep, TaskStep

\* The positions of the threads keep agreeing.
LEMMA StepControl == SMInv /\ [Next]_vars => Control'
<1> SUFFICES ASSUME SMInv, [Next]_vars PROVE Control'
    OBVIOUS
<1>0. TypeOK /\ HikTypeOK /\ Control
    BY DEF SMInv, HikInv
<1> USE <1>0, NoneAssumption DEF Control, TypeOK, HikTypeOK, IceIdle, NoTask, hikVars
<1>1. CASE ClientCall
    BY <1>1 DEF ClientCall, OpenNew, OpenDuplicate, JoinStart, CloseUnknown, CloseKnown
<1>2. CASE JoinFinish \/ Unregister
    BY <1>2 DEF JoinFinish, Unregister
<1>3. CASE CloseFind
  <2>1. ice.pc = "closing" /\ ice.cam \in Camera /\ ice.req = NoRequest
      BY <1>3 DEF CloseFind
  <2>2. task' = task /\ opener' = opener /\ ice'.cam = ice.cam /\ ice'.req = ice.req
      BY <1>3 DEF CloseFind, BeginClose
  <2>3. \/ ice'.pc = "unregister" /\ closer' = closer
        \/ ice'.pc = "stopping" /\ closer'.pc = "mute" /\ closer'.cam = ice.cam
      BY <1>3 DEF CloseFind, BeginClose
  <2> QED BY <2>1, <2>2, <2>3
<1>4. CASE CloseMute \/ CloseStop \/ CloseErase
  <2>1. ice.pc = "stopping" /\ ice.cam \in Camera /\ ice.req = NoRequest
      BY <1>4 DEF CloseMute, CloseStop, CloseErase
  <2>2. task' = task /\ opener' = opener /\ ice'.cam = ice.cam /\ ice'.req = ice.req
      BY <1>4 DEF CloseMute, CloseStop, CloseErase, Mute, Stop, EraseCallback, smVars
  <2>3. \/ ice' = ice /\ closer'.pc # "idle" /\ closer'.cam = closer.cam
        \/ ice'.pc = "unregister" /\ closer'.pc = "idle"
    <3>1. CASE CloseMute
        BY <3>1 DEF CloseMute, Mute, smVars
    <3>2. CASE CloseStop
        BY <3>2 DEF CloseStop, Stop, smVars
    <3>3. CASE CloseErase
        BY <3>3 DEF CloseErase, EraseCallback, NotClosing
    <3> QED BY <1>4, <3>1, <3>2, <3>3
  <2> QED BY <2>1, <2>2, <2>3
<1>5. CASE TaskBegin
  <2>1. Head(queue) \in Request
      BY <1>5, TailElements DEF TaskBegin
  <2> QED BY <1>5, <2>1 DEF TaskBegin, BeginOpen
<1>6. CASE TaskConnect
    BY <1>6 DEF TaskConnect, AlreadyLoggedIn, LogIn, Play, SetPlayHandle, smVars, sdkVars
<1>7. CASE TaskOpened \/ TaskOpenFails
  <2>1. ice' = ice /\ closer' = closer /\ opener'.pc = "idle"
      BY <1>7 DEF TaskOpened, TaskOpenFails, TaskReturn, RegisterCallback, LogInFails,
                  PlayFails, NotOpening
  <2>2. task.pc = "opening" /\ task'.req = task.req /\ task'.pc \in {"opened", "openFailed"}
      BY <1>7 DEF TaskOpened, TaskOpenFails, TaskReturn
  <2> QED BY <2>1, <2>2
<1>8. CASE TaskReplyOk \/ TaskReplyFailed \/ TaskUnsubscribe \/ TaskRemoveSender
  <2>1. ice' = ice /\ closer' = closer /\ opener' = opener
      BY <1>8 DEF TaskReplyOk, TaskReplyFailed, TaskEnd, TaskUnsubscribe, TaskRemoveSender
  <2>2. task.pc \notin {"idle", "opening"}
      BY <1>8 DEF TaskReplyOk, TaskReplyFailed, TaskUnsubscribe, TaskRemoveSender
  <2>3. \/ task' = NoTask
        \/ task'.req = task.req /\ task'.pc \in {"removeSender", "replyFailed"}
      BY <1>8 DEF TaskReplyOk, TaskReplyFailed, TaskEnd, TaskUnsubscribe, TaskRemoveSender
  <2> QED BY <2>1, <2>2, <2>3
<1>9. CASE UNCHANGED vars
    BY <1>9 DEF vars, smVars
<1> QED BY <1>1, <1>2, <1>3, <1>4, <1>5, <1>6, <1>7, <1>8, <1>9 DEF Next, IceStep, TaskStep

\* Distinct requests wait at distinct places.
DistinctQueue == \A i, j \in 1..Len(queue) : queue[i] = queue[j] => i = j

\* A submit adds its request to the queue and nothing else.
LEMMA SubmitQueued ==
    ASSUME queue \in Seq(Request), DistinctQueue, NEW r \in Request, ~Queued(r),
           queue' = Append(queue, r)
    PROVE  DistinctQueue' /\ \A q \in Request : Queued(q)' <=> Queued(q) \/ q = r
<1>1. /\ Len(queue') = Len(queue) + 1 /\ Len(queue) \in Nat
      /\ \A i \in 1..Len(queue) : queue'[i] = queue[i]
      /\ queue'[Len(queue) + 1] = r
    BY AppendElements
<1>2. DistinctQueue'
    BY <1>1 DEF DistinctQueue, Queued
<1>3. \A q \in Request : Queued(q)' <=> Queued(q) \/ q = r
    BY <1>1 DEF Queued
<1> QED BY <1>2, <1>3

\* A pop takes the head away and nothing else.
LEMMA PopQueued ==
    ASSUME queue \in Seq(Request), DistinctQueue, queue # <<>>, queue' = Tail(queue)
    PROVE  /\ Head(queue) \in Request /\ Queued(Head(queue))
           /\ DistinctQueue'
           /\ \A q \in Request : Queued(q)' <=> Queued(q) /\ q # Head(queue)
<1>1. /\ Head(queue) = queue[1] /\ queue[1] \in Request
      /\ Len(queue) \in Nat \ {0} /\ Len(queue') = Len(queue) - 1
      /\ \A i \in 1..(Len(queue) - 1) : queue'[i] = queue[i + 1]
    BY TailElements
<1>2. Queued(Head(queue))
    BY <1>1 DEF Queued
<1>3. DistinctQueue'
    BY <1>1 DEF DistinctQueue
<1>4. ASSUME NEW q \in Request PROVE Queued(q)' <=> Queued(q) /\ q # Head(queue)
  <2>1. ASSUME NEW i \in 1..Len(queue), queue[i] = q, q # Head(queue) PROVE Queued(q)'
    <3>1. i - 1 \in 1..Len(queue') /\ queue'[i - 1] = q
        BY <1>1, <2>1
    <3> QED BY <3>1 DEF Queued
  <2>2. ASSUME NEW i \in 1..Len(queue'), queue'[i] = q PROVE Queued(q) /\ q # Head(queue)
    <3>1. i + 1 \in 1..Len(queue) /\ queue[i + 1] = q
        BY <1>1, <2>2
    <3>2. 1 \in 1..Len(queue) /\ i + 1 # 1
        BY <1>1
    <3> QED BY <1>1, <3>1, <3>2 DEF Queued, DistinctQueue
  <2> QED BY <2>1, <2>2 DEF Queued
<1> QED BY <1>1, <1>2, <1>3, <1>4

\* Answering a request that has no answer yet gives it exactly one.
LEMMA OneAnswer ==
    ASSUME TypeOK, NEW r \in Request, NEW a \in {"ok", "failed"}, reply[r] = <<>>,
           Answer(r, a)
    PROVE  /\ reply'[r] = <<a>> /\ Len(reply'[r]) = 1 /\ reply'[r] # <<>>
           /\ \A q \in Request : q # r => reply'[q] = reply[q]
<1>1. Append(reply[r], a) = <<a>>
    BY AppendElements
<1>2. /\ reply'[r] = Append(reply[r], a)
      /\ \A q \in Request : q # r => reply'[q] = reply[q]
    BY DEF Answer, TypeOK
<1> QED BY <1>1, <1>2

\* A received request keeps exactly one owner.
LEMMA StepOwner == SMInv /\ [Next]_vars => EachOpenHasOneOwner'
<1> SUFFICES ASSUME SMInv, [Next]_vars PROVE EachOpenHasOneOwner'
    OBVIOUS
<1>0. TypeOK /\ Control /\ EachOpenHasOneOwner /\ DistinctQueue
    BY DEF SMInv, EachOpenHasOneOwner, DistinctQueue
<1> DEFINE Owner(r) ==
      /\ Len(reply[r]) <= 1
      /\ reply[r] # <<>> => r \in issued
      /\ (Queued(r) \/ task.req = r \/ ice.req = r) <=> (r \in issued /\ reply[r] = <<>>)
      /\ ~(Queued(r) /\ task.req = r)
      /\ ~(ice.req = r /\ (Queued(r) \/ task.req = r))
<1>o. \A r \in Request : Owner(r)
    BY <1>0 DEF EachOpenHasOneOwner
<1>t. queue \in Seq(Request)
    BY <1>0 DEF TypeOK
<1> SUFFICES DistinctQueue' /\ \A r \in Request : Owner(r)'
    BY DEF EachOpenHasOneOwner, DistinctQueue
\* Steps that leave the owners and the answers alone.
<1>1. ASSUME UNCHANGED <<queue, issued, reply>>, task'.req = task.req, ice'.req = ice.req
      PROVE  DistinctQueue' /\ \A r \in Request : Owner(r)'
  <2>1. DistinctQueue' /\ \A r \in Request : Queued(r)' <=> Queued(r)
      BY <1>1, <1>0 DEF DistinctQueue, Queued
  <2> QED BY <1>1, <1>o, <2>1
<1>2. ASSUME NEW r \in Request, OpenNew(r)
      PROVE  DistinctQueue' /\ \A q \in Request : Owner(q)'
  <2>1. r \notin issued /\ ~Queued(r)
      BY <1>2, <1>o DEF OpenNew, MayOpen
  <2>2. DistinctQueue' /\ \A q \in Request : Queued(q)' <=> Queued(q) \/ q = r
      BY <1>2, <1>0, <1>t, <2>1, SubmitQueued DEF OpenNew
  <2>3. issued' = issued \cup {r} /\ UNCHANGED <<task, ice, reply>>
      BY <1>2 DEF OpenNew
  <2> QED BY <1>o, <2>1, <2>2, <2>3
<1>3. ASSUME NEW r \in Request, OpenDuplicate(r)
      PROVE  DistinctQueue' /\ \A q \in Request : Owner(q)'
  <2>1. Answer(r, "failed") /\ UNCHANGED <<queue, task, ice>>
      BY <1>3 DEF OpenDuplicate
  <2>2. r \notin issued /\ issued' = issued \cup {r}
      BY <1>3 DEF OpenDuplicate, MayOpen
  <2>3. reply[r] = <<>>
      BY <1>o, <2>2
  <2>4. Len(reply'[r]) = 1 /\ reply'[r] # <<>> /\ \A q \in Request \ {r} : reply'[q] = reply[q]
      BY <1>0, <2>1, <2>3, OneAnswer
  <2>5. DistinctQueue' /\ \A q \in Request : Queued(q)' <=> Queued(q)
      BY <1>0, <2>1 DEF DistinctQueue, Queued
  <2>6. \A q \in Request \ {r} : Owner(q)'
      BY <1>o, <2>1, <2>2, <2>4, <2>5
  <2>7. ~Queued(r) /\ task.req # r /\ ice.req # r
      BY <1>o, <2>2
  <2>8. Owner(r)'
      BY <2>1, <2>2, <2>4, <2>5, <2>7
  <2> QED BY <2>5, <2>6, <2>8
<1>4. ASSUME NEW r \in Request, JoinStart(r)
      PROVE  DistinctQueue' /\ \A q \in Request : Owner(q)'
  <2>1. r \notin issued /\ issued' = issued \cup {r} /\ ice.req = NoRequest
      BY <1>4, <1>0 DEF JoinStart, MayOpen, Control
  <2>2. ice'.req = r /\ UNCHANGED <<queue, task, reply>>
      BY <1>4 DEF JoinStart
  <2>3. DistinctQueue' /\ \A q \in Request : Queued(q)' <=> Queued(q)
      BY <1>0, <2>2 DEF DistinctQueue, Queued
  <2> QED BY <1>o, <2>1, <2>2, <2>3, NoneAssumption
\* The owner of r lets go of it and answers it.
<1>5. ASSUME NEW r \in Request, NEW a \in {"ok", "failed"}, Answer(r, a),
             UNCHANGED <<queue, issued>>,
             \/ task.req = r /\ task'.req = NoRequest /\ ice' = ice
             \/ ice.req = r /\ ice'.req = NoRequest /\ task' = task
      PROVE  DistinctQueue' /\ \A q \in Request : Owner(q)'
  <2>1. r \in issued /\ reply[r] = <<>> /\ ~Queued(r)
      BY <1>5, <1>o
  <2>2. Len(reply'[r]) = 1 /\ reply'[r] # <<>> /\ \A q \in Request \ {r} : reply'[q] = reply[q]
      BY <1>0, <1>5, <2>1, OneAnswer
  <2>3. DistinctQueue' /\ \A q \in Request : Queued(q)' <=> Queued(q)
      BY <1>0, <1>5 DEF DistinctQueue, Queued
  <2>4. ~(task'.req = r) /\ ~(ice'.req = r)
      BY <1>5, <1>o, NoneAssumption
  <2>5. \A q \in Request \ {r} : (task'.req = q <=> task.req = q) /\ (ice'.req = q <=> ice.req = q)
      BY <1>5, NoneAssumption
  <2>6. Owner(r)'
      BY <1>5, <2>1, <2>2, <2>3, <2>4
  <2>7. \A q \in Request \ {r} : Owner(q)'
      BY <1>5, <1>o, <2>2, <2>3, <2>5
  <2> QED BY <2>3, <2>6, <2>7
<1>6. CASE JoinFinish
  <2>1. ice.req \in Request /\ ice'.req = NoRequest
      BY <1>6, <1>0 DEF JoinFinish, Control, IceIdle
  <2>2. Answer(ice.req, "ok") /\ UNCHANGED <<queue, issued, task>>
      BY <1>6 DEF JoinFinish
  <2> QED BY <1>5, <2>1, <2>2
<1>7. CASE TaskReplyOk \/ TaskReplyFailed
  <2>1. task.req \in Request
      BY <1>7, <1>0 DEF TaskReplyOk, TaskReplyFailed, Control
  <2>2. PICK a \in {"ok", "failed"} : TaskEnd(a)
      BY <1>7 DEF TaskReplyOk, TaskReplyFailed
  <2>3. Answer(task.req, a) /\ task'.req = NoRequest /\ UNCHANGED <<queue, issued, ice>>
      BY <2>2 DEF TaskEnd, NoTask
  <2> QED BY <1>5, <2>1, <2>3
<1>8. CASE TaskBegin
  <2>1. queue # <<>> /\ queue' = Tail(queue) /\ task'.req = Head(queue)
      BY <1>8 DEF TaskBegin
  <2>2. task.req = NoRequest /\ UNCHANGED <<ice, issued, reply>>
      BY <1>8, <1>0 DEF TaskBegin, Control
  <2>3. /\ Head(queue) \in Request /\ Queued(Head(queue)) /\ DistinctQueue'
        /\ \A q \in Request : Queued(q)' <=> Queued(q) /\ q # Head(queue)
      BY <1>0, <1>t, <2>1, PopQueued
  <2> QED BY <1>o, <2>1, <2>2, <2>3, NoneAssumption
<1>9. ASSUME NEW c \in Camera, NEW k \in CallId, CloseUnknown(c, k) \/ CloseKnown(c, k)
      PROVE  DistinctQueue' /\ \A q \in Request : Owner(q)'
  <2>1. UNCHANGED <<queue, issued, reply>> /\ task'.req = task.req
      BY <1>9 DEF CloseUnknown, CloseKnown
  <2>2. ice'.req = ice.req
      BY <1>9, <1>0 DEF CloseUnknown, CloseKnown, Control
  <2> QED BY <1>1, <2>1, <2>2
<1>10. CASE CloseFind \/ CloseMute \/ CloseStop \/ CloseErase \/ Unregister
  <2>1. UNCHANGED <<queue, issued, reply>> /\ task'.req = task.req
      BY <1>10 DEF CloseFind, CloseMute, CloseStop, CloseErase, Unregister, smVars
  <2>2. ice'.req = ice.req
      BY <1>10, <1>0
      DEF TypeOK, CloseFind, CloseMute, CloseStop, CloseErase, Unregister, smVars, Control, IceIdle
  <2> QED BY <1>1, <2>1, <2>2
<1>11. CASE TaskConnect \/ TaskOpened \/ TaskOpenFails \/ TaskUnsubscribe \/ TaskRemoveSender
  <2>1. UNCHANGED <<queue, issued, reply>> /\ task'.req = task.req /\ ice'.req = ice.req
      BY <1>11, <1>0 DEF TypeOK, TaskConnect, TaskOpened, TaskOpenFails, TaskReturn, TaskUnsubscribe,
                         TaskRemoveSender, smVars
  <2> QED BY <1>1, <2>1
<1>12. CASE UNCHANGED vars
    BY <1>1, <1>12 DEF vars, smVars
<1> QED
    BY <1>2, <1>3, <1>4, <1>6, <1>7, <1>8, <1>9, <1>10, <1>11, <1>12
    DEF Next, ClientCall, IceStep, TaskStep

\* The controller meets no request before it left the queue.
LEMMA StepKnown == SMInv /\ EachOpenHasOneOwner' /\ [Next]_vars => KnownToController'
<1> SUFFICES ASSUME SMInv, EachOpenHasOneOwner', [Next]_vars, NEW r \in Request, ~Fresh(r)'
             PROVE  r \in issued' /\ ~Queued(r)'
    BY DEF KnownToController
<1>0. TypeOK /\ HikTypeOK /\ Control /\ KnownToController /\ EachOpenHasOneOwner
    BY DEF SMInv, HikInv
<1>1. issued \subseteq issued'
    BY <1>0 DEF Next, ClientCall, OpenNew, OpenDuplicate, JoinStart, CloseUnknown, CloseKnown,
        IceStep, JoinFinish, CloseFind, CloseMute, CloseStop, CloseErase, Unregister,
        TaskStep, TaskBegin, TaskConnect, TaskOpened, TaskOpenFails, TaskReturn,
        TaskReplyOk, TaskUnsubscribe, TaskRemoveSender, TaskReplyFailed, TaskEnd, smVars, vars
<1>2. Queued(r)' => Queued(r) \/ r \notin issued
  <2>1. ASSUME NEW q \in Request, OpenNew(q) PROVE Queued(r)' => Queued(r) \/ r \notin issued
    <3>1. q \notin issued /\ queue' = Append(queue, q)
        BY <2>1 DEF OpenNew, MayOpen
    <3>2. ~Queued(q) /\ DistinctQueue
        BY <1>0, <3>1 DEF EachOpenHasOneOwner, DistinctQueue
    <3>3. Queued(r)' <=> Queued(r) \/ r = q
        BY <1>0, <3>1, <3>2, SubmitQueued DEF TypeOK
    <3> QED BY <3>1, <3>3
  <2>2. CASE TaskBegin
    <3>1. DistinctQueue /\ queue \in Seq(Request) /\ queue # <<>> /\ queue' = Tail(queue)
        BY <1>0, <2>2 DEF EachOpenHasOneOwner, DistinctQueue, TypeOK, TaskBegin
    <3> QED BY <3>1, PopQueued
  <2>3. CASE queue' = queue
      BY <2>3 DEF Queued
  <2> QED BY <2>1, <2>2, <2>3
      DEF Next, ClientCall, OpenDuplicate, JoinStart, CloseUnknown, CloseKnown,
        IceStep, JoinFinish, CloseFind, CloseMute, CloseStop, CloseErase, Unregister,
        TaskStep, TaskConnect, TaskOpened, TaskOpenFails, TaskReturn,
        TaskReplyOk, TaskUnsubscribe, TaskRemoveSender, TaskReplyFailed, TaskEnd, smVars, vars
<1>3. ~Fresh(r) \/ (task.req = r /\ task.pc = "opening")
  <2>1. CASE UNCHANGED <<freed, cbMap, pUser>>
      BY <2>1 DEF Fresh
  <2>2. CASE TaskConnect
    <3>1. task.pc = "opening" /\ opener.req = task.req
        BY <2>2, <1>0 DEF TaskConnect, Control
    <3>2. UNCHANGED <<freed, cbMap>>
        BY <2>2 DEF TaskConnect, AlreadyLoggedIn, LogIn, Play, SetPlayHandle
    <3>3. \A h \in Handle : pUser'[h] \in {pUser[h], opener.req}
        BY <2>2, <1>0 DEF TaskConnect, AlreadyLoggedIn, LogIn, Play, SetPlayHandle, sdkVars,
                          HikTypeOK
    <3> QED BY <3>1, <3>2, <3>3 DEF Fresh
  <2>3. CASE TaskOpened
    <3>1. task.pc = "opening" /\ opener.req = task.req /\ UNCHANGED <<freed, pUser>>
        BY <2>3, <1>0 DEF TaskOpened, TaskReturn, RegisterCallback, Control, sdkVars
    <3>2. \A h \in Handle : cbMap'[h] \in {cbMap[h], opener.req}
        BY <2>3, <1>0 DEF TaskOpened, RegisterCallback, HikTypeOK
    <3> QED BY <3>1, <3>2 DEF Fresh
  <2>4. CASE CloseStop
    <3>1. UNCHANGED <<freed, cbMap>> /\ \A h \in Handle : pUser'[h] \in {pUser[h], NoRequest}
        BY <2>4, <1>0 DEF CloseStop, Stop, HikTypeOK
    <3> QED BY <3>1, NoneAssumption DEF Fresh
  <2>5. CASE CloseErase
    <3>1. UNCHANGED pUser /\ \A h \in Handle : cbMap'[h] \in {cbMap[h], NoRequest}
        BY <2>5, <1>0 DEF CloseErase, EraseCallback, HikTypeOK, sdkVars
    <3>2. freed' \subseteq freed \cup {cbMap[h] : h \in Handle}
        BY <2>5, <1>0 DEF CloseErase, EraseCallback
    <3> QED BY <3>1, <3>2, NoneAssumption DEF Fresh
  <2> QED BY <2>1, <2>2, <2>3, <2>4, <2>5
      DEF Next, ClientCall, OpenNew, OpenDuplicate, JoinStart, CloseUnknown, CloseKnown,
        IceStep, JoinFinish, CloseFind, BeginClose, CloseMute, Mute, Unregister,
        TaskStep, TaskBegin, BeginOpen, TaskOpenFails, LogInFails, PlayFails,
        TaskReplyOk, TaskUnsubscribe, TaskRemoveSender, TaskReplyFailed, TaskEnd,
        hikVars, sdkVars, vars
<1>4. r \in issued /\ ~Queued(r)
    BY <1>0, <1>3 DEF KnownToController, EachOpenHasOneOwner
<1> QED BY <1>1, <1>2, <1>4

\* streams_ stays consistent, and a join or close keeps its stream.
LEMMA StepRegistration == SMInv /\ [Next]_vars => Registration'
<1> SUFFICES ASSUME SMInv, [Next]_vars PROVE Registration'
    OBVIOUS
<1>0. TypeOK /\ Control /\ Registration
    BY DEF SMInv
<1> USE <1>0, NoneAssumption, RequestFields DEF Registration, TypeOK, Control, IceIdle
<1>1. ASSUME NEW r \in Request, OpenNew(r) PROVE Registration'
    BY <1>1 DEF OpenNew
<1>2. ASSUME NEW r \in Request, OpenDuplicate(r) PROVE Registration'
    BY <1>2 DEF OpenDuplicate
<1>3. ASSUME NEW r \in Request, JoinStart(r) PROVE Registration'
    BY <1>3 DEF JoinStart
<1>4. CASE JoinFinish
    BY <1>4 DEF JoinFinish
<1>5. ASSUME NEW c \in Camera, NEW k \in CallId, CloseUnknown(c, k) PROVE Registration'
    BY <1>5 DEF CloseUnknown
<1>6. ASSUME NEW c \in Camera, NEW k \in CallId, CloseKnown(c, k) PROVE Registration'
    BY <1>6 DEF CloseKnown
<1>7. CASE CloseFind \/ CloseMute \/ CloseStop \/ CloseErase
  <2>1. UNCHANGED <<streams, subs, issued>> /\ ice'.cam = ice.cam
      BY <1>7 DEF CloseFind, CloseMute, CloseStop, CloseErase, smVars
  <2>2. ice.pc \in {"closing", "stopping"} /\ ice'.pc \in {"stopping", "unregister"}
      BY <1>7 DEF CloseFind, CloseMute, CloseStop, CloseErase, smVars
  <2> QED BY <2>1, <2>2
<1>8. CASE Unregister
    BY <1>8 DEF Unregister
<1>9. CASE TaskUnsubscribe
  <2>1. \A m \in Request : subs'[m] \subseteq subs[m]
      BY <1>9 DEF TaskUnsubscribe, SubsOf
  <2> QED BY <1>9, <2>1 DEF TaskUnsubscribe
<1>10. CASE UNCHANGED <<streams, subs, ice, issued>>
    BY <1>10
<1> QED BY <1>1, <1>2, <1>3, <1>4, <1>5, <1>6, <1>7, <1>8, <1>9, <1>10
    DEF Next, ClientCall, IceStep, TaskStep, TaskBegin, TaskConnect, TaskOpened,
        TaskOpenFails, TaskReturn, TaskReplyOk, TaskRemoveSender, TaskReplyFailed,
        TaskEnd, smVars, vars

\* A stream that leaves the registry has no substream, and gets none afterwards.
LEMMA StepDestroyed == SMInv /\ [Next]_vars => DestroyedStreamsAreEmpty'
<1> SUFFICES ASSUME SMInv, [Next]_vars PROVE DestroyedStreamsAreEmpty'
    OBVIOUS
<1>0. TypeOK /\ Control /\ Registration /\ DestroyedStreamsAreEmpty
    BY DEF SMInv
<1> USE <1>0, NoneAssumption, RequestFields DEF DestroyedStreamsAreEmpty, TypeOK
<1>1. ASSUME NEW r \in Request, OpenNew(r) PROVE DestroyedStreamsAreEmpty'
    BY <1>1 DEF OpenNew
<1>2. CASE JoinFinish
    BY <1>2 DEF JoinFinish, Control, Registration
<1>3. ASSUME NEW c \in Camera, NEW k \in CallId, CloseKnown(c, k)
      PROVE  DestroyedStreamsAreEmpty'
  <2>1. UNCHANGED streams /\ \A m \in Request : subs'[m] \subseteq subs[m]
      BY <1>3 DEF CloseKnown
  <2> QED BY <2>1
<1>4. CASE Unregister
    BY <1>4 DEF Unregister, Control, Registration
<1>5. CASE TaskUnsubscribe
  <2>1. UNCHANGED streams /\ \A m \in Request : subs'[m] \subseteq subs[m]
      BY <1>5 DEF TaskUnsubscribe
  <2> QED BY <2>1
<1>6. CASE UNCHANGED <<streams, subs>>
    BY <1>6
<1> QED BY <1>1, <1>2, <1>3, <1>4, <1>5, <1>6
    DEF Next, ClientCall, OpenDuplicate, JoinStart, CloseUnknown, IceStep, CloseFind,
        CloseMute, CloseStop, CloseErase, TaskStep, TaskBegin, TaskConnect, TaskOpened,
        TaskOpenFails, TaskReturn, TaskReplyOk, TaskRemoveSender, TaskReplyFailed,
        TaskEnd, smVars, vars

\* What PoolMatchesRegistry says of one camera.
PoolMatches(c) ==
    /\ streams[c] = NoRequest => \A t \in Thread : attached[t][c] = NoRequest
    /\ streams[c] # NoRequest => \E t \in Thread : attached[t][c] = streams[c]

\* The pool follows the registry.
LEMMA StepPool == SMInv /\ [Next]_vars => PoolMatchesRegistry'
<1> SUFFICES ASSUME SMInv, [Next]_vars PROVE PoolMatchesRegistry'
    OBVIOUS
<1>0. TypeOK /\ Control /\ Registration /\ PoolMatchesRegistry
    BY DEF SMInv
<1>p. \A c \in Camera : PoolMatches(c)
    BY <1>0 DEF PoolMatchesRegistry, PoolMatches
<1> SUFFICES ASSUME NEW c \in Camera PROVE PoolMatches(c)'
    BY DEF PoolMatchesRegistry, PoolMatches
<1> USE <1>0, NoneAssumption, RequestFields DEF PoolMatches, TypeOK
<1>1. ASSUME NEW r \in Request, OpenNew(r) PROVE PoolMatches(c)'
  <2>1. streams[r.cam] = NoRequest /\ streams' = [streams EXCEPT ![r.cam] = r]
      BY <1>1 DEF OpenNew
  <2>2. PICK t \in Thread : AttachTo(t, r)
      BY <1>1 DEF OpenNew
  <2>3. attached' = [attached EXCEPT ![t][r.cam] = r]
      BY <1>p, <2>1, <2>2 DEF AttachTo
  <2>4. CASE c = r.cam
      BY <2>1, <2>3, <2>4
  <2>5. CASE c # r.cam
    <3>1. streams'[c] = streams[c] /\ \A u \in Thread : attached'[u][c] = attached[u][c]
        BY <2>1, <2>3, <2>5
    <3> QED BY <1>p, <3>1
  <2> QED BY <2>4, <2>5
<1>2. CASE JoinFinish
  <2>1. ice.req \in Request /\ streams[ice.req.cam] # NoRequest /\ UNCHANGED streams
      BY <1>2 DEF JoinFinish, Control, Registration
  <2>2. PICK t \in Thread : AttachTo(t, ice.req)
      BY <1>2 DEF JoinFinish
  <2>3. \A u \in Thread :
            (attached[u][c] # NoRequest \/ c # ice.req.cam) => attached'[u][c] = attached[u][c]
      BY <2>1, <2>2 DEF AttachTo
  <2>4. PoolMatches(c)
      BY <1>p
  <2> QED BY <2>1, <2>3, <2>4
<1>3. CASE Unregister
    BY <1>3, <1>p DEF Unregister, Control
<1>4. CASE UNCHANGED <<streams, attached>>
    BY <1>4, <1>p
<1> QED BY <1>1, <1>2, <1>3, <1>4
    DEF Next, ClientCall, OpenDuplicate, JoinStart, CloseUnknown, CloseKnown, IceStep,
        CloseFind, CloseMute, CloseStop, CloseErase, TaskStep, TaskBegin, TaskConnect,
        TaskOpened, TaskOpenFails, TaskReturn, TaskReplyOk, TaskUnsubscribe,
        TaskRemoveSender, TaskReplyFailed, TaskEnd, smVars, vars

\* A failed open stays failed: its answer is the last one.
LEMMA StillFailed ==
    ASSUME SMInv, [Next]_vars, NEW m \in Request, OpenFailed(m)
    PROVE  OpenFailed(m)'
<1>0. TypeOK /\ Control /\ EachOpenHasOneOwner
    BY DEF SMInv
<1>1. ASSUME NEW r \in Request, NEW a \in {"ok", "failed"}, Answer(r, a), reply[r] = <<>>, r # m
      PROVE  reply'[m] = reply[m]
    BY <1>0, <1>1, OneAnswer
<1>2. CASE reply[m] = <<"failed">>
  <2>1. m \in issued /\ task.req # m /\ ice.req # m
      BY <1>0, <1>2 DEF EachOpenHasOneOwner
  <2>2. reply'[m] = reply[m]
    <3>1. ASSUME NEW r \in Request, OpenDuplicate(r) PROVE reply'[m] = reply[m]
      <4>1. r # m /\ reply[r] = <<>> /\ Answer(r, "failed")
          BY <1>0, <2>1, <3>1 DEF OpenDuplicate, MayOpen, EachOpenHasOneOwner
      <4> QED BY <1>1, <4>1
    <3>2. CASE JoinFinish
      <4>1. ice.req \in Request /\ reply[ice.req] = <<>> /\ Answer(ice.req, "ok")
          BY <1>0, <3>2 DEF JoinFinish, Control, EachOpenHasOneOwner
      <4> QED BY <1>1, <2>1, <4>1
    <3>3. CASE TaskReplyOk \/ TaskReplyFailed
      <4>1. task.req \in Request /\ reply[task.req] = <<>>
          BY <1>0, <3>3 DEF TaskReplyOk, TaskReplyFailed, Control, EachOpenHasOneOwner
      <4>2. PICK a \in {"ok", "failed"} : Answer(task.req, a)
          BY <3>3 DEF TaskReplyOk, TaskReplyFailed, TaskEnd
      <4> QED BY <1>1, <2>1, <4>1, <4>2
    <3>4. CASE UNCHANGED reply
        BY <3>4
    <3> QED BY <3>1, <3>2, <3>3, <3>4
        DEF Next, ClientCall, OpenNew, JoinStart, CloseUnknown, CloseKnown, IceStep,
            CloseFind, CloseMute, CloseStop, CloseErase, Unregister, TaskStep, TaskBegin,
            TaskConnect, TaskOpened, TaskOpenFails, TaskReturn, TaskUnsubscribe,
            TaskRemoveSender, TaskEnd, smVars, vars
  <2> QED BY <1>2, <2>2 DEF OpenFailed
<1>3. CASE task.req = m /\ task.pc \in {"openFailed", "removeSender", "replyFailed"}
  <2>1. CASE TaskReplyFailed
    <3>1. reply[m] = <<>> /\ Answer(m, "failed")
        BY <1>0, <1>3, <2>1 DEF TaskReplyFailed, TaskEnd, EachOpenHasOneOwner
    <3> QED BY <1>0, <3>1, OneAnswer DEF OpenFailed
  <2>2. CASE TaskUnsubscribe \/ TaskRemoveSender
      BY <1>0, <1>3, <2>2 DEF TaskUnsubscribe, TaskRemoveSender, OpenFailed, TypeOK
  <2>3. CASE UNCHANGED task
      BY <1>3, <2>3 DEF OpenFailed
  <2> QED BY <1>3, <2>1, <2>2, <2>3
      DEF Next, ClientCall, OpenNew, OpenDuplicate, JoinStart, CloseUnknown, CloseKnown,
          IceStep, JoinFinish, CloseFind, CloseMute, CloseStop, CloseErase, Unregister,
          TaskStep, TaskBegin, TaskConnect, TaskOpened, TaskOpenFails, TaskReturn,
          TaskReplyOk, smVars, vars
<1> QED BY <1>2, <1>3 DEF OpenFailed

\* Only a failed open or a close in progress leaves a stream without substreams.
LEMMA StepEmpty == SMInv /\ [Next]_vars => EmptyOnlyAfterFailedOpen'
<1> SUFFICES ASSUME SMInv, [Next]_vars, NEW c \in Camera,
                    streams'[c] # NoRequest, subs'[streams'[c]] = {}, ice'.cam # c
             PROVE  OpenFailed(streams[c])'
    BY DEF EmptyOnlyAfterFailedOpen, OpenFailed
<1>0. TypeOK /\ Control /\ Registration /\ EmptyOnlyAfterFailedOpen
    BY DEF SMInv
<1>1. ASSUME streams'[c] = streams[c], subs[streams[c]] = {}, ice.cam # c
      PROVE  OpenFailed(streams[c])'
  <2>1. PICK m \in Request : m = streams[c] /\ OpenFailed(m)
      BY <1>0, <1>1 DEF EmptyOnlyAfterFailedOpen, TypeOK
  <2>2. OpenFailed(m)'
      BY <2>1, StillFailed
  <2> QED BY <1>1, <2>1, <2>2 DEF OpenFailed
<1> USE <1>0, NoneAssumption, RequestFields DEF TypeOK, Control, Registration, IceIdle
<1>2. ASSUME NEW r \in Request, OpenNew(r) PROVE OpenFailed(streams[c])'
  <2>1. subs'[r] = {r} /\ streams'[r.cam] = r /\ c # r.cam
      BY <1>2 DEF OpenNew
  <2>2. streams'[c] = streams[c] /\ streams[c] # r /\ ice' = ice
      BY <1>2, <2>1 DEF OpenNew
  <2>3. subs'[streams[c]] = subs[streams[c]]
      BY <1>2, <2>2 DEF OpenNew
  <2> QED BY <1>1, <2>2, <2>3
<1>3. CASE JoinFinish
  <2>1. streams' = streams /\ \A m \in Request : subs[m] \subseteq subs'[m]
      BY <1>3 DEF JoinFinish
  <2>2. ice.cam # c
      BY <1>3 DEF JoinFinish
  <2> QED BY <1>1, <2>1, <2>2
<1>4. ASSUME NEW d \in Camera, NEW k \in CallId, CloseKnown(d, k) PROVE OpenFailed(streams[c])'
  <2>1. c # d /\ streams' = streams /\ ice.cam = NoCamera
      BY <1>4 DEF CloseKnown
  <2>2. streams[c] # streams[d] /\ streams[d] \in Request
    <3>1. streams[d] # NoRequest /\ streams[c] # NoRequest
        BY <1>4, <2>1 DEF CloseKnown
    <3> QED BY <2>1, <3>1
  <2>3. subs'[streams[c]] = subs[streams[c]]
      BY <1>4, <2>1, <2>2 DEF CloseKnown
  <2> QED BY <1>1, <2>1, <2>3
<1>5. CASE Unregister
  <2>1. c # ice.cam /\ streams'[c] = streams[c] /\ subs' = subs
      BY <1>5 DEF Unregister
  <2> QED BY <1>1, <2>1
<1>6. CASE TaskUnsubscribe
  <2>1. streams' = streams /\ ice' = ice /\ task' = [task EXCEPT !.pc = "removeSender"]
      BY <1>6 DEF TaskUnsubscribe
  <2>2. CASE streams[c] = task.req
      BY <2>1, <2>2 DEF OpenFailed
  <2>3. CASE streams[c] # task.req
    <3>1. subs'[streams[c]] = subs[streams[c]]
        BY <1>6, <2>1, <2>3 DEF TaskUnsubscribe
    <3> QED BY <1>1, <2>1, <3>1
  <2> QED BY <2>2, <2>3
<1>7. CASE UNCHANGED <<streams, subs>> /\ ice'.cam = ice.cam
    BY <1>1, <1>7
<1> QED BY <1>2, <1>3, <1>4, <1>5, <1>6, <1>7
    DEF Next, ClientCall, OpenDuplicate, JoinStart, CloseUnknown, IceStep, CloseFind,
        CloseMute, CloseStop, CloseErase, TaskStep, TaskBegin, TaskConnect, TaskOpened,
        TaskOpenFails, TaskReturn, TaskReplyOk, TaskRemoveSender, TaskReplyFailed,
        TaskEnd, smVars, vars

\* A call has one substream per stream: addStream looks for it under locker_, and
\* until the join ends only removals happen.
LEMMA StepSubstreams == SMInv /\ [Next]_vars => Substreams'
<1> SUFFICES ASSUME SMInv, [Next]_vars PROVE Substreams'
    OBVIOUS
<1>0. TypeOK /\ Control /\ Registration /\ Substreams
    BY DEF SMInv
<1>i. EachOpenHasOneOwner
    BY DEF SMInv
<1> USE <1>0, NoneAssumption, RequestFields
    DEF TypeOK, Control, Registration, Substreams, OneSubstreamPerCall, SubsOf, IceIdle
\* Steps that take substreams away, or none, and start no join.
<1>1. ASSUME \A m \in Request : subs'[m] \subseteq subs[m],
             issued \subseteq issued', UNCHANGED streams,
             ice'.pc = "joining" => ice' = ice
      PROVE  Substreams'
  <2>1. ASSUME ice'.pc = "joining"
        PROVE  {q \in subs'[streams'[ice'.req.cam]] : q.callid = ice'.req.callid} = {}
    <3>1. ice' = ice /\ streams[ice.req.cam] \in Request
        BY <1>1, <2>1
    <3>2. subs'[streams[ice.req.cam]] \subseteq subs[streams[ice.req.cam]]
        BY <1>1, <3>1
    <3> QED BY <1>1, <2>1, <3>1, <3>2
  <2>2. (OneSubstreamPerCall /\ \A m \in Request : \A q \in subs[m] : q \in issued /\ q.cam = m.cam)'
      BY <1>1
  <2> QED BY <2>1, <2>2
<1>2. ASSUME NEW r \in Request, OpenNew(r) PROVE Substreams'
    BY <1>2 DEF OpenNew
<1>3. ASSUME NEW r \in Request, JoinStart(r) PROVE Substreams'
    BY <1>3 DEF JoinStart
<1>4. CASE JoinFinish
  <2>1. ice.req \in issued
      BY <1>4, <1>i DEF JoinFinish, EachOpenHasOneOwner
  <2> QED BY <1>4, <2>1 DEF JoinFinish
<1>5. ASSUME NEW c \in Camera, NEW k \in CallId, CloseKnown(c, k) PROVE Substreams'
    BY <1>1, <1>5 DEF CloseKnown
<1>6. CASE Unregister
    BY <1>6 DEF Unregister
<1>7. CASE TaskUnsubscribe
    BY <1>1, <1>7 DEF TaskUnsubscribe
<1>8. CASE CloseFind \/ CloseMute \/ CloseStop \/ CloseErase
  <2>1. UNCHANGED <<streams, subs, issued>>
      BY <1>8 DEF CloseFind, CloseMute, CloseStop, CloseErase, smVars
  <2>2. ice'.pc # "joining"
      BY <1>8 DEF CloseFind, CloseMute, CloseStop, CloseErase, smVars
  <2> QED BY <1>1, <2>1, <2>2
<1>9. CASE UNCHANGED <<streams, subs, ice>> /\ issued \subseteq issued'
    BY <1>1, <1>9
<1> QED BY <1>2, <1>3, <1>4, <1>5, <1>6, <1>7, <1>8, <1>9
    DEF Next, ClientCall, OpenDuplicate, CloseUnknown, IceStep, TaskStep, TaskBegin,
        TaskConnect, TaskOpened, TaskOpenFails, TaskReturn, TaskReplyOk, TaskRemoveSender,
        TaskReplyFailed, TaskEnd, smVars, vars

-----------------------------------------------------------------------------
(* The theorems *)

\* The invariant is inductive.
LEMMA StepInv == SMInv /\ [Next]_vars => SMInv'
<1> SUFFICES ASSUME SMInv, [Next]_vars PROVE SMInv'
    OBVIOUS
<1>1. HikInv'
    BY StepUsesController, HikStepInv DEF SMInv
<1>2. TypeOK' /\ Control' /\ Registration' /\ EachOpenHasOneOwner'
    BY <1>1, StepType, StepControl, StepRegistration, StepOwner
<1>3. KnownToController' /\ DestroyedStreamsAreEmpty' /\ PoolMatchesRegistry'
      /\ EmptyOnlyAfterFailedOpen' /\ Substreams'
    BY <1>2, StepKnown, StepDestroyed, StepPool, StepEmpty, StepSubstreams
<1> QED BY <1>1, <1>2, <1>3 DEF SMInv

\* Every reachable state satisfies the invariant.
THEOREM Invariant == Spec => []SMInv
BY InitInv, StepInv, PTL DEF Spec

\* Type correctness of the whole composition.
THEOREM TypeCorrect == Spec => []TypeOK
<1>1. SMInv => TypeOK
    BY DEF SMInv
<1> QED BY <1>1, Invariant, PTL

\* addStream and the message thread neither lose an open request, nor run it
\* twice, nor answer it twice, however many calls and threads there are.
THEOREM OpenHasOneOwner == Spec => []EachOpenHasOneOwner
<1>1. SMInv => EachOpenHasOneOwner
    BY DEF SMInv
<1> QED BY <1>1, Invariant, PTL

\* attachBuffer and removeBuffer keep the pool in step with streams_.
THEOREM PoolFollowsRegistry == Spec => []PoolMatchesRegistry
<1>1. SMInv => PoolMatchesRegistry
    BY DEF SMInv
<1> QED BY <1>1, Invariant, PTL

\* The closeStream in ~RealSteam is dead code.
THEOREM DestructorNeverCloses == Spec => []DestroyedStreamsAreEmpty
<1>1. SMInv => DestroyedStreamsAreEmpty
    BY DEF SMInv
<1> QED BY <1>1, Invariant, PTL

\* A registered stream without subscribers is the trace of a failed open.
THEOREM EmptyMeansFailed == Spec => []EmptyOnlyAfterFailedOpen
<1>1. SMInv => EmptyOnlyAfterFailedOpen
    BY DEF SMInv
<1> QED BY <1>1, Invariant, PTL

\* The manager is a user of HikController that its specification allows, so what
\* is proved of HikSpec holds in the whole system.
THEOREM ManagerUsesController == Spec => UsesController
<1>1. Init => HikInit
    BY DEF Init
<1> QED BY <1>1, StepUsesController, Invariant, PTL DEF Spec, UsesController, HikSpec

-----------------------------------------------------------------------------

\* A step of the manager is a step of TaskQueue, or leaves the queue alone.
LEMMA StepUsesQueue == SMInv /\ [Next]_vars => [TQ!Next]_(TQ!taskVars)
<1> SUFFICES ASSUME SMInv, [Next]_vars PROVE [TQ!Next]_(TQ!taskVars)
    OBVIOUS
<1> USE DEF SMInv, TQ!Next, TQ!taskVars
<1>1. CASE \E r \in Request : OpenNew(r)
    BY <1>1 DEF OpenNew, TQ!Submit
<1>2. CASE TaskBegin
    BY <1>2 DEF TaskBegin, Control, TQ!Begin
<1>3. CASE TaskReplyOk \/ TaskReplyFailed
  <2>1. task.req \in Request /\ task'.req = NoRequest /\ queue' = queue
      BY <1>3 DEF TaskReplyOk, TaskReplyFailed, TaskEnd, NoTask, Control
  <2> QED BY <2>1, NoneAssumption DEF TQ!End
<1>4. CASE TaskOpened \/ TaskOpenFails \/ TaskUnsubscribe \/ TaskRemoveSender
  <2>1. task'.req = task.req /\ queue' = queue
      BY <1>4 DEF TaskOpened, TaskOpenFails, TaskReturn, TaskUnsubscribe,
                  TaskRemoveSender, TypeOK
  <2> QED BY <2>1
<1>5. CASE UNCHANGED <<queue, task>>
    BY <1>5
<1> QED
  BY <1>1, <1>2, <1>3, <1>4, <1>5
  DEF Next, ClientCall, IceStep, TaskStep, OpenDuplicate, JoinStart, CloseUnknown,
      CloseKnown, JoinFinish, CloseFind, CloseMute, CloseStop, CloseErase, Unregister,
      TaskConnect, vars, smVars

\* The manager's queue is the one MessageQueue implements: what holds of the tasks
\* of TaskQueue (in order, one at a time) holds of the queued opens.
THEOREM ManagerUsesTaskQueue == Spec => UsesMessageThread
<1>1. Init => TQ!Init
    BY DEF Init, NoTask, TQ!Init
<1> QED BY <1>1, StepUsesQueue, Invariant, PTL DEF Spec, UsesMessageThread, TQ!Spec
=============================================================================
