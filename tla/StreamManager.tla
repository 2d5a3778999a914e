--------------------------- MODULE StreamManager ---------------------------
(***************************************************************************)
(* StreamManager, MediaStream/RealSteam, the registration side of Buffer    *)
(* and ThreadPool, and the MessageThread, over HikController.               *)
(*                                                                         *)
(* Threads.  Ice dispatch threads run addStream and closeStream, each whole *)
(* call under StreamManager::locker_, so they are one sequential actor      *)
(* (variable ice).  The message thread runs the queued opens one at a time  *)
(* (variable task).  Both touch the same MediaStream, SdkUser and cbMap_.   *)
(*                                                                         *)
(* A MediaStream is named by the request that created it, and so is a       *)
(* Buffer (addsubStream makes one per call) with its only RTP sender.       *)
(***************************************************************************)
EXTENDS HikController, Sequences

CONSTANTS
    Thread,          \* the pool's threads, by their position in threads_
    MaxRequests,     \* bound: how many opens the clients issue
    PatientClients   \* clients wait for the answer to an open before they close
                     \* that call or use its call id again

ASSUME ThreadAssumption == Thread \subseteq Nat
ASSUME ClientAssumption == MaxRequests \in Nat /\ PatientClients \in BOOLEAN

VARIABLES
    streams,      \* streams_ : camera -> MediaStream, NoRequest when absent
    subs,         \* subStreams_ of each MediaStream, as the requests that joined
    buffer,       \* buffer_ of each MediaStream: the buffer it feeds
    sending,      \* the buffers that exist and have their sender
    attached,     \* buffers_ of each pool thread: camera -> buffer
    queue,        \* the opens waiting in msgthread_
    task,         \* the open the message thread is running
    ice,          \* the call that holds locker_
    issued,       \* requests that were received
    reply,        \* responses sent to each open request
    closeReplies  \* responses sent to the current or latest close request

smVars == <<streams, subs, buffer, sending, attached, queue, task, ice, issued,
            reply, closeReplies>>
vars == <<hikVars, smVars>>

NoTask == [pc |-> "idle", req |-> NoRequest]
IceIdle == [pc |-> "idle", req |-> NoRequest, cam |-> NoCamera]

TypeOK ==
    /\ HikTypeOK
    /\ streams \in [Camera -> Request \cup {NoRequest}]
    /\ subs \in [Request -> SUBSET Request]
    /\ buffer \in [Request -> Request \cup {NoRequest}]
    /\ sending \subseteq Request
    /\ attached \in [Thread -> [Camera -> Request \cup {NoRequest}]]
    /\ queue \in Seq(Request)
    /\ task \in [pc : {"idle", "opening", "opened", "openFailed", "removeSender", "replyFailed"},
                 req : Request \cup {NoRequest}]
    /\ ice \in [pc : {"idle", "joining", "closing", "stopping", "unregister"},
                req : Request \cup {NoRequest}, cam : Camera \cup {NoCamera}]
    /\ issued \subseteq Request
    /\ reply \in [Request -> Seq({"ok", "failed"})]
    /\ closeReplies \in 0..2

Init ==
    /\ HikInit
    /\ streams = [c \in Camera |-> NoRequest]
    /\ subs = [r \in Request |-> {}]
    /\ buffer = [r \in Request |-> NoRequest]
    /\ sending = {}
    /\ attached = [t \in Thread |-> [c \in Camera |-> NoRequest]]
    /\ queue = <<>>
    /\ task = NoTask
    /\ ice = IceIdle
    /\ issued = {}
    /\ reply = [r \in Request |-> <<>>]
    /\ closeReplies = 0

-----------------------------------------------------------------------------
(* Operators shared by the actions *)

\* The callbacks of an open: (*cb)(resp).
Answer(r, a) == reply' = [reply EXCEPT ![r] = Append(@, a)]

\* The (at most one) substream of m under call id k.
SubsOf(m, k) == {q \in subs[m] : q.callid = k}

\* Mutant: the sender goes whatever its call id.
DropSender_AnyCall(b, k) == sending \ {b}

\* Buffer::removeSender(k) on buffer b, which may be no buffer at all.
DropSender(b, k) == sending \ {q \in {b} \cap Request : q.callid = k}

\* A buffer nobody holds any more goes with its sender.
Attached(b) == \E t \in Thread : attached[t][b.cam] = b
Release(b) == IF Attached(b) THEN sending ELSE sending \ {b}

\* ThreadPool::attachBuffer picks the first thread with the fewest buffers.
Load(t) == Cardinality({c \in Camera : attached[t][c] # NoRequest})
LeastLoaded(t) ==
    \A u \in Thread : Load(t) < Load(u) \/ (Load(t) = Load(u) /\ t <= u)

\* Mutant: the new buffer replaces the one the id has.
AttachTo_Replaces(t, b) == attached' = [attached EXCEPT ![t][b.cam] = b]

\* Thread_wrapper::addBuffer: emplace keeps a buffer the id already has.
AttachTo(t, b) ==
    attached' = IF attached[t][b.cam] = NoRequest
                THEN [attached EXCEPT ![t][b.cam] = b] ELSE attached

\* The open and close calls clients may issue now.
Unanswered(c, k) == \E q \in issued : q.cam = c /\ q.callid = k /\ reply[q] = <<>>
MayIssue(c, k) == PatientClients => ~Unanswered(c, k)
MayOpen(r) ==
    /\ r \notin issued
    /\ Cardinality(issued) < MaxRequests
    /\ \A q \in Request : [q EXCEPT !.seq = r.seq] = r /\ q.seq < r.seq => q \in issued
    /\ MayIssue(r.cam, r.callid)

-----------------------------------------------------------------------------
(* addStream, under locker_ *)

\* No stream of this camera: register one with its first substream, buffer and
\* sender, attach the buffer, and queue the open for the message thread.
OpenNew(r) ==
    /\ ice.pc = "idle"
    /\ MayOpen(r)
    /\ streams[r.cam] = NoRequest
    /\ buffer' = [buffer EXCEPT ![r] = r]
    /\ sending' = sending \cup {r}
    /\ \E t \in Thread : LeastLoaded(t) /\ AttachTo(t, r)
    /\ subs' = [subs EXCEPT ![r] = {r}]
    /\ streams' = [streams EXCEPT ![r.cam] = r]
    /\ queue' = Append(queue, r)
    /\ issued' = issued \cup {r}
    /\ UNCHANGED <<task, ice, reply, closeReplies, hikVars>>

\* Mutant: a duplicate is dropped without an answer.
OpenDuplicate_Silent(r) ==
    /\ ice.pc = "idle"
    /\ MayOpen(r)
    /\ streams[r.cam] # NoRequest
    /\ SubsOf(streams[r.cam], r.callid) # {}
    /\ issued' = issued \cup {r}
    /\ UNCHANGED <<streams, subs, buffer, sending, attached, queue, task, ice,
                   reply, closeReplies, hikVars>>

\* The stream has a substream of this call id: refused.
OpenDuplicate(r) ==
    /\ ice.pc = "idle"
    /\ MayOpen(r)
    /\ streams[r.cam] # NoRequest
    /\ SubsOf(streams[r.cam], r.callid) # {}
    /\ issued' = issued \cup {r}
    /\ Answer(r, "failed")
    /\ UNCHANGED <<streams, subs, buffer, sending, attached, queue, task, ice,
                   closeReplies, hikVars>>

\* Joining a stream, first half of addsubStream: the stream's mutex_ is taken
\* and buffer_ is replaced by a new, still empty buffer.  The old one lives on in
\* the pool, or not at all if addBuffer dropped it.
JoinStart(r) ==
    LET m == streams[r.cam] IN
    /\ ice.pc = "idle"
    /\ MayOpen(r)
    /\ m # NoRequest
    /\ SubsOf(m, r.callid) = {}
    /\ buffer' = [buffer EXCEPT ![m] = r]
    /\ sending' = Release(buffer[m])
    /\ issued' = issued \cup {r}
    /\ ice' = [pc |-> "joining", req |-> r, cam |-> NoCamera]
    /\ UNCHANGED <<streams, subs, attached, queue, task, reply, closeReplies, hikVars>>

\* Second half: sender, attachment, substream, and the answer "ok".
JoinFinish ==
    LET r == ice.req
        m == streams[r.cam] IN
    /\ ice.pc = "joining"
    /\ sending' = sending \cup {r}
    /\ \E t \in Thread : LeastLoaded(t) /\ AttachTo(t, r)
    /\ subs' = [subs EXCEPT ![m] = @ \cup {r}]
    /\ Answer(r, "ok")
    /\ ice' = IceIdle
    /\ UNCHANGED <<streams, buffer, queue, task, issued, closeReplies, hikVars>>

-----------------------------------------------------------------------------
(* closeStream, under locker_ *)

\* Mutant: the responses of one close are added to those of the last.
CloseUnknown_NoReset(c, k) ==
    /\ ice.pc = "idle"
    /\ MayIssue(c, k)
    /\ streams[c] = NoRequest
    /\ closeReplies' = closeReplies + 2
    /\ UNCHANGED <<streams, subs, buffer, sending, attached, queue, task, ice,
                   issued, reply, hikVars>>

\* Unknown id: the response callback is called at both ends of the if.
CloseUnknown(c, k) ==
    /\ ice.pc = "idle"
    /\ MayIssue(c, k)
    /\ streams[c] = NoRequest
    /\ closeReplies' = 2
    /\ UNCHANGED <<streams, subs, buffer, sending, attached, queue, task, ice,
                   issued, reply, hikVars>>

\* Mutants: needClose is always, or never, true.
CloseKnown_Always(c, k) ==
    LET m == streams[c] IN
    /\ ice.pc = "idle"
    /\ MayIssue(c, k)
    /\ m # NoRequest
    /\ subs' = [subs EXCEPT ![m] = @ \ SubsOf(m, k)]
    /\ sending' = DropSender(buffer[m], k)
    /\ ice' = [pc |-> "closing", req |-> NoRequest, cam |-> c]
    /\ closeReplies' = 0
    /\ UNCHANGED <<streams, buffer, attached, queue, task, issued, reply, hikVars>>

CloseKnown_Never(c, k) ==
    LET m == streams[c] IN
    /\ ice.pc = "idle"
    /\ MayIssue(c, k)
    /\ m # NoRequest
    /\ subs' = [subs EXCEPT ![m] = @ \ SubsOf(m, k)]
    /\ sending' = DropSender(buffer[m], k)
    /\ closeReplies' = 1
    /\ UNCHANGED <<streams, buffer, attached, queue, task, ice, issued, reply, hikVars>>

\* removesubStream, removeSender on the current buffer, needClose.
CloseKnown(c, k) ==
    LET m == streams[c] IN
    /\ ice.pc = "idle"
    /\ MayIssue(c, k)
    /\ m # NoRequest
    /\ subs' = [subs EXCEPT ![m] = @ \ SubsOf(m, k)]
    /\ sending' = DropSender(buffer[m], k)
    /\ IF subs'[m] = {}
       THEN ice' = [pc |-> "closing", req |-> NoRequest, cam |-> c] /\ closeReplies' = 0
       ELSE ice' = ice /\ closeReplies' = 1
    /\ UNCHANGED <<streams, buffer, attached, queue, task, issued, reply, hikVars>>

\* Mutant: the camera is not stopped.
CloseFind_NoStop ==
    /\ ice.pc = "closing"
    /\ ice' = [ice EXCEPT !.pc = "unregister"]
    /\ UNCHANGED <<streams, subs, buffer, sending, attached, queue, task, issued,
                   reply, closeReplies, hikVars>>

\* RealSteam::closeStream calls closeRealStream ...
CloseFind ==
    /\ ice.pc = "closing"
    /\ \/ /\ UnknownUser(ice.cam)
          /\ ice' = [ice EXCEPT !.pc = "unregister"]
          /\ UNCHANGED hikVars
       \/ /\ BeginClose(ice.cam)
          /\ ice' = [ice EXCEPT !.pc = "stopping"]
    /\ UNCHANGED <<streams, subs, buffer, sending, attached, queue, task, issued,
                   reply, closeReplies>>

CloseMute == ice.pc = "stopping" /\ Mute /\ UNCHANGED smVars
CloseStop == ice.pc = "stopping" /\ Stop /\ UNCHANGED smVars
CloseErase ==
    /\ ice.pc = "stopping"
    /\ EraseCallback
    /\ ice' = [ice EXCEPT !.pc = "unregister"]
    /\ UNCHANGED <<streams, subs, buffer, sending, attached, queue, task, issued,
                   reply, closeReplies>>

\* ... then the id leaves every pool thread (clearing the senders of the buffers
\* found there) and streams_, the stream goes with its buffer, and the response
\* is sent.
Unregister ==
    LET c == ice.cam IN
    /\ ice.pc = "unregister"
    /\ sending' = sending \ ({buffer[streams[c]]} \cup {attached[t][c] : t \in Thread})
    /\ attached' = [t \in Thread |-> [attached[t] EXCEPT ![c] = NoRequest]]
    /\ streams' = [streams EXCEPT ![c] = NoRequest]
    /\ ice' = IceIdle
    /\ closeReplies' = 1
    /\ UNCHANGED <<subs, buffer, queue, task, issued, reply, hikVars>>

-----------------------------------------------------------------------------
(* The message thread: wait_and_pop, then the task queued by addStream *)

\* Mutant: the task is run but not popped.
TaskBegin_Peeks ==
    /\ task.pc = "idle"
    /\ queue # <<>>
    /\ task' = [pc |-> "opening", req |-> Head(queue)]
    /\ BeginOpen(Head(queue))
    /\ UNCHANGED <<streams, subs, buffer, sending, attached, queue, ice, issued, reply,
                   closeReplies>>

TaskBegin ==
    /\ task.pc = "idle"
    /\ queue # <<>>
    /\ task' = [pc |-> "opening", req |-> Head(queue)]
    /\ queue' = Tail(queue)
    /\ BeginOpen(Head(queue))
    /\ UNCHANGED <<streams, subs, buffer, sending, attached, ice, issued, reply, closeReplies>>

TaskConnect ==
    /\ task.pc = "opening"
    /\ AlreadyLoggedIn \/ LogIn \/ (\E h \in Handle : Play(h)) \/ SetPlayHandle
    /\ UNCHANGED smVars

\* openRealStream returned: true after the registration, false otherwise.
TaskReturn(result) ==
    /\ task.pc = "opening"
    /\ task' = [task EXCEPT !.pc = result]
    /\ UNCHANGED <<streams, subs, buffer, sending, attached, queue, ice, issued,
                   reply, closeReplies>>
TaskOpened == RegisterCallback /\ TaskReturn("opened")
TaskOpenFails == (LogInFails \/ PlayFails) /\ TaskReturn("openFailed")

TaskEnd(a) ==
    /\ Answer(task.req, a)
    /\ task' = NoTask
    /\ UNCHANGED <<streams, subs, buffer, sending, attached, queue, ice, issued,
                   closeReplies, hikVars>>

TaskReplyOk == task.pc = "opened" /\ TaskEnd("ok")

\* Mutant: the substream of a failed open is kept.
TaskUnsubscribe_Forgets ==
    /\ task.pc = "openFailed"
    /\ task' = [task EXCEPT !.pc = "removeSender"]
    /\ UNCHANGED <<streams, subs, buffer, sending, attached, queue, ice, issued, reply,
                   closeReplies, hikVars>>

\* A failed open leaves its stream registered and only drops its substream,
\* under the stream's mutex_ ...
TaskUnsubscribe ==
    LET m == task.req IN
    /\ task.pc = "openFailed"
    /\ ~(ice.pc = "joining" /\ streams[ice.req.cam] = m)
    /\ subs' = [subs EXCEPT ![m] = @ \ SubsOf(m, m.callid)]
    /\ task' = [task EXCEPT !.pc = "removeSender"]
    /\ UNCHANGED <<streams, buffer, sending, attached, queue, ice, issued, reply,
                   closeReplies, hikVars>>

\* ... and outside it the sender, in whatever buffer the stream has by now.
TaskRemoveSender ==
    LET m == task.req IN
    /\ task.pc = "removeSender"
    /\ sending' = DropSender(buffer[m], m.callid)
    /\ task' = [task EXCEPT !.pc = "replyFailed"]
    /\ UNCHANGED <<streams, subs, buffer, attached, queue, ice, issued, reply,
                   closeReplies, hikVars>>

TaskReplyFailed == task.pc = "replyFailed" /\ TaskEnd("failed")

-----------------------------------------------------------------------------
ClientCall ==
    \/ \E r \in Request : OpenNew(r) \/ OpenDuplicate(r) \/ JoinStart(r)
    \/ \E c \in Camera, k \in CallId : CloseUnknown(c, k) \/ CloseKnown(c, k)

IceStep == JoinFinish \/ CloseFind \/ CloseMute \/ CloseStop \/ CloseErase \/ Unregister

TaskStep ==
    \/ TaskBegin \/ TaskConnect \/ TaskOpened \/ TaskOpenFails
    \/ TaskReplyOk \/ TaskUnsubscribe \/ TaskRemoveSender \/ TaskReplyFailed

Next == ClientCall \/ IceStep \/ TaskStep

Spec == Init /\ [][Next]_vars

\* A call that started runs on, and the message thread never stops: the vendor
\* calls it makes return, and nothing else can hold it up for ever.
FairSpec == Spec /\ WF_vars(IceStep) /\ WF_vars(TaskStep)

-----------------------------------------------------------------------------
(* Properties that hold whatever the clients do and whichever calls fail *)

Queued(r) == \E i \in 1..Len(queue) : queue[i] = r

\* No open is lost, queued twice or answered twice: a received request is in
\* exactly one of the queue, the message thread, a join, and the answered ones.
EachOpenHasOneOwner ==
    /\ \A i, j \in 1..Len(queue) : queue[i] = queue[j] => i = j
    /\ \A r \in Request :
         /\ Len(reply[r]) <= 1
         /\ reply[r] # <<>> => r \in issued
         /\ (Queued(r) \/ task.req = r \/ ice.req = r) <=> (r \in issued /\ reply[r] = <<>>)
         /\ ~(Queued(r) /\ task.req = r)
         /\ ~(ice.req = r /\ (Queued(r) \/ task.req = r))

\* The pool works only for registered cameras, and each registered camera keeps
\* the buffer it was opened with on some thread until it is unregistered, in
\* spite of joins whose buffer emplace drops and of closes by other calls.
PoolMatchesRegistry ==
    \A c \in Camera :
        IF streams[c] = NoRequest
        THEN \A t \in Thread : attached[t][c] = NoRequest
        ELSE \E t \in Thread : attached[t][c] = streams[c]

\* A stream that left streams_ has no substream, so ~RealSteam never runs its
\* closeStream (which would stop the preview of a later stream of the camera).
DestroyedStreamsAreEmpty ==
    \A m \in Request : subs[m] # {} => streams[m.cam] = m

OpenFailed(m) ==
    \/ reply[m] = <<"failed">>
    \/ task.req = m /\ task.pc \in {"openFailed", "removeSender", "replyFailed"}

\* Only a failed open leaves a registered stream without substreams.
EmptyOnlyAfterFailedOpen ==
    \A c \in Camera :
        streams[c] # NoRequest /\ subs[streams[c]] = {} /\ ice.cam # c
            => OpenFailed(streams[c])

\* The controller is used as its own specification allows: one open and one
\* close at a time, and never the same request twice.
UsesController == HikSpec

\* The manager uses its message thread as TaskQueue allows, which MessageQueue
\* implements: it queues at the end, and its tasks run whole, one after the other.
TQ == INSTANCE TaskQueue WITH
    Task <- Request, NoTask <- NoRequest, todo <- queue, current <- task.req

UsesMessageThread == TQ!Spec

\* Every open that was received is answered.
OpenIsAnswered == \A r \in Request : (r \in issued) ~> (reply[r] # <<>>)

-----------------------------------------------------------------------------
(* Properties that need patient clients: no close overtakes the open it ends *)

\* The Ice thread never closes a camera the message thread is opening, so the
\* unlocked play handle of its SdkUser has one user at a time.
NoCloseDuringOpen ==
    closer.pc # "idle" /\ opener.pc # "idle" => opener.req.cam # closer.cam

\* As long as a subscriber's buffer exists, its sender is removed by its own close
\* only, although removals look for it in whatever buffer the stream has now,
\* outside mutex_.  (The buffer itself goes at the next join if addBuffer dropped
\* it: the hazard at threadpool.h:78.)
SubscriberHasSender ==
    \A m \in Request : \A q \in subs[m] : Attached(q) \/ buffer[m] = q => q \in sending

\* What the clients know of: the substreams of registered streams, and the responses.
Members == {q \in Request : streams[q.cam] # NoRequest /\ q \in subs[streams[q.cam]]}
Answers == [r \in Request |-> IF reply[r] = <<>> THEN "none" ELSE reply[r][1]]

\* The clients see a table of subscriptions in which an "ok" lasts until its
\* close and a "failed" leaves nothing behind.
Registry == INSTANCE SubscriptionRegistry WITH
    received <- issued, members <- Members, answer <- Answers

ImplementsRegistry == Registry!Spec

-----------------------------------------------------------------------------
(* Properties that also need an SDK that does not both refuse to play and give *)
(* a stopped handle out again: a SdkUser keeps its last handle for ever.  A    *)
(* preview the SDK refused to stop outlives its close: those in refused are    *)
(* the exception each of the first three makes.                               *)

\* The data callback captures a bare "this": while its preview runs, muted or not,
\* the stream is kept alive by streams_, the queued task or the running one.
PreviewTargetAlive ==
    \A h \in Handle : Running(h) =>
        LET m == pUser[h] IN
        streams[m.cam] = m \/ Queued(m) \/ task.req = m \/ h \in refused

\* The SDK is never left with a playing preview that calls a deleted callback,
\* unless it refused both to take the callback away and to stop.  This one breaks
\* as soon as handles come back: closeRealStream deletes what cbMap_ holds for its
\* handle after it has given the handle up.
CallbackOutlivesPreview ==
    \A h \in Handle : preview[h] = "playing" /\ pUser[h] \in freed => h \in refused

\* A camera that is closed and opened again has one running preview: its earlier
\* ones were stopped, although the SdkUser remembers one handle only and closes
\* look for it there.
OnePreviewPerCamera ==
    \A g, h \in Handle :
        Running(g) /\ Running(h) /\ {g, h} \cap refused = {} /\ pUser[g].cam = pUser[h].cam
            => g = h

\* A stream whose open was answered "ok" has its preview running under the
\* handle its SdkUser remembers, until it is closed.
OpenedIsPlaying ==
    \A c \in Camera :
        LET m == streams[c]
            h == sdkusers[c] IN
        m # NoRequest /\ ice.cam # c /\ reply[m] = <<"ok">>
            => h \in Handle /\ preview[h] = "playing" /\ pUser[h] = m

\* A close never mutes or stops the preview of another camera.
CloseStopsOwnPreview ==
    [][\A h \in Handle : Running(h) /\ preview'[h] # preview[h]
            => pUser[h].cam = closer.cam]_vars

\* cbMap_ holds the callbacks of the registered streams, that of each opened one
\* under the handle its close will look for: none is left behind by a close, also
\* of a camera whose earlier plays or stops failed, and so none is leaked but that
\* of a refused play.
CallbackIsOwned ==
    /\ \A h \in Handle : cbMap[h] # NoRequest => streams[cbMap[h].cam] = cbMap[h]
    /\ \A c \in Camera :
         LET m == streams[c] IN
         m # NoRequest /\ ice.cam # c /\ reply[m] = <<"ok">>
             => cbMap[sdkusers[c]] = m

-----------------------------------------------------------------------------
(* What the source says of itself *)

\* streammanager.cpp:121, on the branch that joins a stream: "stream from id
\* camera already existed".  A join that is answered "ok" joined a stream whose own
\* open was not answered "failed" before.
JoinedStreamExists ==
    [][\A r \in Request :
          ice.pc = "joining" /\ ice.req = r /\ reply'[r] = <<"ok">>
              => reply[streams[r.cam]] # <<"failed">>]_vars

\* stream.h:1056, AMD callback class for closeStream: "Call the ice_response
\* method for a successful completion": one close, one response.
OneResponsePerClose == closeReplies <= 1
=============================================================================
