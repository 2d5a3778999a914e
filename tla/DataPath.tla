------------------------------ MODULE DataPath ------------------------------
(***************************************************************************)
(* The way of a packet: the SDK thread of a camera pushes it into the       *)
(* stream's buffer (MediaStream::processData), a thread of the pool pops it *)
(* and sends it (Thread_wrapper::run, Buffer::processData), while calls     *)
(* under locker_ and the message thread add and remove buffers and senders. *)
(* StreamManager models the same calls as steps on the whole pool; here the *)
(* locks are what matters:                                                  *)
(*    locker_  >  mutex_ (stream)  >  bufferMutex_ (thread)                 *)
(*             >  destsmutex_ (buffer)  >  packetMutex_ (buffer)            *)
(* A lock is held by whoever is between two steps that need it, which the   *)
(* ...Free operators say.  packetMutex_ guards single steps only.           *)
(*                                                                         *)
(* Clients are patient: they wait for the answer of an open before they     *)
(* close that call or use its id again.  A buffer is named by its request.  *)
(***************************************************************************)
EXTENDS Naturals, Sequences, FiniteSets

CONSTANTS
    Camera,        \* device ids
    CallId,        \* call ids chosen by the clients
    Request,       \* requests to open a live stream
    NoRequest,     \* no buffer
    NoCamera,
    NoCall,
    Thread,        \* the pool's threads, by their position in threads_
    NoThread,
    MaxRequests,   \* bound: how many opens the clients issue
    MaxPackets     \* bound: how many packets the cameras produce

ASSUME RequestAssumption == Request \subseteq [cam : Camera, callid : CallId, seq : Nat]

ASSUME NoneAssumption == /\ NoRequest \notin Request
                         /\ NoCamera \notin Camera
                         /\ NoCall \notin CallId
                         /\ NoThread \notin Thread

ASSUME ThreadAssumption == Thread \subseteq Nat
ASSUME BoundAssumption == MaxRequests \in Nat /\ MaxPackets \in Nat

VARIABLES
    buffer,     \* buffer_ of the stream of each camera, NoRequest without one
    subs,       \* subStreams_ of the registered streams
    opening,    \* the opens queued for the message thread
    withdrawing, \* the first of them failed and is being taken back
    playing,    \* SDK: the cameras whose preview runs
    sdk,        \* the buffer each camera's callback is about to push to
    senders,    \* the buffers that exist and have their sender
    attached,   \* buffers_ of each thread of the pool: camera -> buffer
    packets,    \* packetQueue_ of each buffer
    pool,       \* what each thread of the pool is doing
    call,       \* the call that holds locker_
    issued,     \* requests that were received
    made,       \* number of packets pushed so far; packets are numbered
    sent        \* packets sent through the sender of each buffer

vars == <<buffer, subs, opening, withdrawing, playing, sdk, senders, attached, packets,
          pool, call, issued, made, sent>>

Idle == [pc |-> "idle", cam |-> NoCamera, callid |-> NoCall, new |-> FALSE,
         todo |-> {}, thread |-> NoThread]
AtLock == [pc |-> "lock", todo |-> {}, buf |-> NoRequest, pkt |-> 0]

\* At or behind its lock, in a round, sending: what a thread of the pool knows.
ThreadState ==
         [pc : {"lock", "wait"}, todo : {{}}, buf : {NoRequest}, pkt : {0}]
    \cup [pc : {"loop"}, todo : SUBSET Camera, buf : {NoRequest}, pkt : {0}]
    \cup [pc : {"send"}, todo : SUBSET Camera, buf : Request, pkt : Nat]

CallState ==
    [pc : {"idle", "add", "unsubscribe", "stop", "remove", "clear"},
     cam : Camera \cup {NoCamera}, callid : CallId \cup {NoCall}, new : BOOLEAN,
     todo : SUBSET Thread, thread : Thread \cup {NoThread}]

DataTypeOK ==
    /\ buffer \in [Camera -> Request \cup {NoRequest}]
    /\ subs \subseteq Request
    /\ opening \in Seq(Request)
    /\ withdrawing \in BOOLEAN
    /\ playing \subseteq Camera
    /\ sdk \in [Camera -> Request \cup {NoRequest}]
    /\ senders \subseteq Request
    /\ attached \in [Thread -> [Camera -> Request \cup {NoRequest}]]
    /\ packets \in [Request -> Seq(Nat)]
    /\ pool \in [Thread -> ThreadState]
    /\ call \in CallState
    /\ issued \subseteq Request
    /\ made \in Nat
    /\ sent \in [Request -> Seq(Nat)]

Init ==
    /\ buffer = [c \in Camera |-> NoRequest]
    /\ subs = {}
    /\ opening = <<>>
    /\ withdrawing = FALSE
    /\ playing = {}
    /\ sdk = [c \in Camera |-> NoRequest]
    /\ senders = {}
    /\ attached = [t \in Thread |-> [c \in Camera |-> NoRequest]]
    /\ packets = [b \in Request |-> <<>>]
    /\ pool = [t \in Thread |-> AtLock]
    /\ call = Idle
    /\ issued = {}
    /\ made = 0
    /\ sent = [b \in Request |-> <<>>]

-----------------------------------------------------------------------------
(* The locks *)

\* Mutants: addBuffer and findBuffer without bufferMutex_, removeSender without
\* destsmutex_.
PoolMutexFree_IgnoresRound(t) == ~(call.pc = "clear" /\ call.thread = t)
DestsMutexFree_Always(b) == b = b

\* bufferMutex_ of t: taken by t for a whole round, by removeBuffer, and for a
\* moment by bufferSize, findBuffer and addBuffer.
PoolMutexFree(t) ==
    /\ pool[t].pc \in {"lock", "wait"}
    /\ ~(call.pc = "clear" /\ call.thread = t)

\* destsmutex_ of b: held while a packet is sent.
DestsMutexFree(b) == \A t \in Thread : ~(pool[t].pc = "send" /\ pool[t].buf = b)

\* mutex_ of c's stream: held by addsubStream.
StreamMutexFree(c) == ~(call.pc = "add" /\ call.cam = c)

Attached(b) == \E t \in Thread : attached[t][b.cam] = b
Buffers(t) == {c \in Camera : attached[t][c] # NoRequest}

-----------------------------------------------------------------------------
(* The SDK thread of a camera *)

\* processData reads buffer_, without a lock ...
ReadBuffer(c) ==
    /\ c \in playing
    /\ made < MaxPackets
    /\ sdk[c] = NoRequest
    /\ sdk' = [sdk EXCEPT ![c] = buffer[c]]
    /\ UNCHANGED <<buffer, subs, opening, withdrawing, playing, senders, attached,
                   packets, pool, call, issued, made, sent>>

\* ... and pushes the packet to the buffer it has read.
PushPacket(c) ==
    /\ sdk[c] # NoRequest
    /\ made' = made + 1
    /\ packets' = [packets EXCEPT ![sdk[c]] = Append(@, made')]
    /\ sdk' = [sdk EXCEPT ![c] = NoRequest]
    /\ UNCHANGED <<buffer, subs, opening, withdrawing, playing, senders, attached,
                   pool, call, issued, sent>>

-----------------------------------------------------------------------------
(* A thread of the pool *)

\* Takes bufferMutex_, and waits for addBuffer if it has no buffer.
StartRound(t) ==
    /\ pool[t].pc = "lock"
    /\ PoolMutexFree(t)
    /\ pool' = [pool EXCEPT ![t] =
                  IF Buffers(t) = {} THEN [@ EXCEPT !.pc = "wait"]
                  ELSE [@ EXCEPT !.pc = "loop", !.todo = Buffers(t)]]
    /\ UNCHANGED <<buffer, subs, opening, withdrawing, playing, sdk, senders, attached,
                   packets, call, issued, made, sent>>

\* Mutant: the packet stays in the queue.
PopPacket_Peeks(t, c) ==
    LET b == attached[t][c] IN
    /\ pool[t].pc = "loop" /\ c \in pool[t].todo
    /\ DestsMutexFree(b) /\ b \in senders /\ packets[b] # <<>>
    /\ pool' = [pool EXCEPT ![t] = [pc |-> "send", todo |-> @.todo \ {c}, buf |-> b,
                                    pkt |-> Head(packets[b])]]
    /\ UNCHANGED <<buffer, subs, opening, withdrawing, playing, sdk, senders, attached,
                   packets, call, issued, made, sent>>

\* Buffer::processData on the buffer of c finds a sender and a packet.
PopPacket(t, c) ==
    LET b == attached[t][c] IN
    /\ pool[t].pc = "loop"
    /\ c \in pool[t].todo
    /\ DestsMutexFree(b)
    /\ b \in senders
    /\ packets[b] # <<>>
    /\ packets' = [packets EXCEPT ![b] = Tail(@)]
    /\ pool' = [pool EXCEPT ![t] = [pc |-> "send", todo |-> @.todo \ {c}, buf |-> b,
                                    pkt |-> Head(packets[b])]]
    /\ UNCHANGED <<buffer, subs, opening, withdrawing, playing, sdk, senders, attached,
                   call, issued, made, sent>>

\* It finds no sender or no packet.
SkipBuffer(t, c) ==
    LET b == attached[t][c] IN
    /\ pool[t].pc = "loop"
    /\ c \in pool[t].todo
    /\ DestsMutexFree(b)
    /\ b \notin senders \/ packets[b] = <<>>
    /\ pool' = [pool EXCEPT ![t].todo = @ \ {c}]
    /\ UNCHANGED <<buffer, subs, opening, withdrawing, playing, sdk, senders, attached,
                   packets, call, issued, made, sent>>

\* Mutant: the packet is still there after it was sent.
SendPacket_Keeps(t) ==
    /\ pool[t].pc = "send"
    /\ sent' = [sent EXCEPT ![pool[t].buf] = Append(@, pool[t].pkt)]
    /\ pool' = [pool EXCEPT ![t].pc = "loop"]
    /\ UNCHANGED <<buffer, subs, opening, withdrawing, playing, sdk, senders, attached,
                   packets, call, issued, made>>

SendPacket(t) ==
    /\ pool[t].pc = "send"
    /\ sent' = [sent EXCEPT ![pool[t].buf] = Append(@, pool[t].pkt)]
    /\ pool' = [pool EXCEPT ![t] = [AtLock EXCEPT !.pc = "loop", !.todo = pool[t].todo]]
    /\ UNCHANGED <<buffer, subs, opening, withdrawing, playing, sdk, senders, attached,
                   packets, call, issued, made>>


\* Releases bufferMutex_ and goes round.
EndRound(t) ==
    /\ pool[t].pc = "loop"
    /\ pool[t].todo = {}
    /\ pool' = [pool EXCEPT ![t] = AtLock]
    /\ UNCHANGED <<buffer, subs, opening, withdrawing, playing, sdk, senders, attached,
                   packets, call, issued, made, sent>>

-----------------------------------------------------------------------------
(* addStream: a new stream, or another substream of one *)

Unanswered(c, k) ==
    \E i \in 1..Len(opening) : opening[i].cam = c /\ opening[i].callid = k
MayOpen(r) ==
    /\ r \notin issued
    /\ Cardinality(issued) < MaxRequests
    /\ \A q \in Request : [q EXCEPT !.seq = r.seq] = r /\ q.seq < r.seq => q \in issued
    /\ ~Unanswered(r.cam, r.callid)

\* addsubStream replaces buffer_ by a new buffer with its sender; the old one
\* lives on in the pool, or not at all if addBuffer dropped it.
AddSubstream(r) ==
    LET old == buffer[r.cam] IN
    /\ call.pc = "idle"
    /\ MayOpen(r)
    /\ \A q \in subs : ~(q.cam = r.cam /\ q.callid = r.callid)
    /\ buffer' = [buffer EXCEPT ![r.cam] = r]
    /\ senders' = (senders \ {b \in {old} \cap Request : ~Attached(b)}) \cup {r}
    /\ issued' = issued \cup {r}
    /\ call' = [Idle EXCEPT !.pc = "add", !.cam = r.cam, !.new = (old = NoRequest),
                            !.todo = Thread]
    /\ UNCHANGED <<subs, opening, withdrawing, playing, sdk, attached, packets, pool,
                   made, sent>>

\* attachBuffer asks every thread for its bufferSize ...
AskSize(t) ==
    /\ call.pc = "add"
    /\ t \in call.todo
    /\ PoolMutexFree(t)
    /\ call' = [call EXCEPT !.todo = @ \ {t}]
    /\ UNCHANGED <<buffer, subs, opening, withdrawing, playing, sdk, senders, attached,
                   packets, pool, issued, made, sent>>

LeastLoaded(t) ==
    \A u \in Thread :
        LET m == Cardinality(Buffers(t))
            n == Cardinality(Buffers(u)) IN m < n \/ (m = n /\ t <= u)

\* Mutant: the thread is not notified.
AttachBuffer_Silent(t) ==
    LET c == call.cam IN
    /\ call.pc = "add" /\ call.todo = {}
    /\ LeastLoaded(t) /\ PoolMutexFree(t)
    /\ attached' = IF attached[t][c] = NoRequest
                   THEN [attached EXCEPT ![t][c] = buffer[c]] ELSE attached
    /\ subs' = subs \cup {buffer[c]}
    /\ opening' = IF call.new THEN Append(opening, buffer[c]) ELSE opening
    /\ call' = Idle
    /\ UNCHANGED <<buffer, withdrawing, playing, sdk, senders, packets, pool, issued,
                   made, sent>>

\* ... and adds the buffer to the first one with the fewest, which keeps a buffer
\* it has for the camera, and wakes it.  A new stream is queued for opening.
AttachBuffer(t) ==
    LET c == call.cam IN
    /\ call.pc = "add"
    /\ call.todo = {}
    /\ LeastLoaded(t)
    /\ PoolMutexFree(t)
    /\ attached' = IF attached[t][c] = NoRequest
                   THEN [attached EXCEPT ![t][c] = buffer[c]] ELSE attached
    /\ pool' = [pool EXCEPT ![t].pc = "lock"]
    /\ subs' = subs \cup {buffer[c]}
    /\ opening' = IF call.new THEN Append(opening, buffer[c]) ELSE opening
    /\ call' = Idle
    /\ UNCHANGED <<buffer, withdrawing, playing, sdk, senders, packets, issued, made, sent>>

-----------------------------------------------------------------------------
(* closeStream *)

\* An id without a stream: answered, nothing changes.
CloseUnknown(c) ==
    /\ call.pc = "idle"
    /\ buffer[c] = NoRequest
    /\ UNCHANGED vars

Subscribed(c, k) == {q \in subs : q.cam = c /\ q.callid = k}

\* Otherwise removesubStream erases the substream under mutex_ ...
RemoveSubstream(c, k) ==
    /\ call.pc = "idle"
    /\ buffer[c] # NoRequest
    /\ ~Unanswered(c, k)
    /\ subs' = subs \ Subscribed(c, k)
    /\ call' = [Idle EXCEPT !.pc = "unsubscribe", !.cam = c, !.callid = k]
    /\ UNCHANGED <<buffer, opening, withdrawing, playing, sdk, senders, attached,
                   packets, pool, issued, made, sent>>

DropSender(b, k) == senders \ {q \in {b} \cap Request : q.callid = k}

\* Mutant: needClose looks at the substream that was closed only.
RemoveSender_Closes ==
    LET c == call.cam IN
    /\ call.pc = "unsubscribe" /\ DestsMutexFree(buffer[c])
    /\ senders' = DropSender(buffer[c], call.callid)
    /\ call' = IF Subscribed(c, call.callid) # {} THEN Idle ELSE [call EXCEPT !.pc = "stop"]
    /\ UNCHANGED <<buffer, subs, opening, withdrawing, playing, sdk, attached, packets,
                   pool, issued, made, sent>>

\* ... and the sender under destsmutex_, in the current buffer; then needClose.
RemoveSender ==
    LET c == call.cam IN
    /\ call.pc = "unsubscribe"
    /\ DestsMutexFree(buffer[c])
    /\ senders' = DropSender(buffer[c], call.callid)
    /\ call' = IF \E q \in subs : q.cam = c THEN Idle ELSE [call EXCEPT !.pc = "stop"]
    /\ UNCHANGED <<buffer, subs, opening, withdrawing, playing, sdk, attached, packets,
                   pool, issued, made, sent>>

\* The preview is muted and stopped, or the SDK refuses both, which is only logged.
\* A callback that has begun goes on.
StopPreview ==
    /\ call.pc = "stop"
    /\ playing' \in {playing, playing \ {call.cam}}
    /\ call' = [call EXCEPT !.pc = "remove", !.todo = Thread]
    /\ UNCHANGED <<buffer, subs, opening, withdrawing, sdk, senders, attached, packets,
                   pool, issued, made, sent>>

\* ThreadPool::removeBuffer goes to every thread and takes its bufferMutex_ ...
FindBuffer(t) ==
    /\ call.pc = "remove"
    /\ t \in call.todo
    /\ PoolMutexFree(t)
    /\ call' = IF attached[t][call.cam] = NoRequest
               THEN [call EXCEPT !.todo = @ \ {t}]
               ELSE [call EXCEPT !.pc = "clear", !.thread = t]
    /\ UNCHANGED <<buffer, subs, opening, withdrawing, playing, sdk, senders, attached,
                   packets, pool, issued, made, sent>>

\* Mutant: removeBuffer returns at the first thread that has the id.
ClearSenders_FirstOnly ==
    LET t == call.thread
        b == attached[t][call.cam] IN
    /\ call.pc = "clear" /\ DestsMutexFree(b)
    /\ senders' = senders \ {b}
    /\ attached' = [attached EXCEPT ![t][call.cam] = NoRequest]
    /\ call' = [call EXCEPT !.pc = "remove", !.thread = NoThread, !.todo = {}]
    /\ UNCHANGED <<buffer, subs, opening, withdrawing, playing, sdk, packets, pool,
                   issued, made, sent>>

\* ... then the buffer's destsmutex_, to clear its senders, and erases it.
ClearSenders ==
    LET t == call.thread
        b == attached[t][call.cam] IN
    /\ call.pc = "clear"
    /\ DestsMutexFree(b)
    /\ senders' = senders \ {b}
    /\ attached' = [attached EXCEPT ![t][call.cam] = NoRequest]
    /\ call' = [call EXCEPT !.pc = "remove", !.thread = NoThread, !.todo = @ \ {t}]
    /\ UNCHANGED <<buffer, subs, opening, withdrawing, playing, sdk, packets, pool,
                   issued, made, sent>>

\* The stream leaves streams_ and goes, with the buffer it has.  What callbacks into
\* a stream that is gone do is undefined and not followed: a preview that still plays
\* counts as ended.
Unregister ==
    LET c == call.cam IN
    /\ call.pc = "remove"
    /\ call.todo = {}
    /\ senders' = senders \ {buffer[c]}
    /\ buffer' = [buffer EXCEPT ![c] = NoRequest]
    /\ playing' = playing \ {c}
    /\ call' = Idle
    /\ UNCHANGED <<subs, opening, withdrawing, sdk, attached, packets, pool, issued, made,
                   sent>>

-----------------------------------------------------------------------------
(* The message thread: the first queued open succeeds, or fails and is withdrawn *)

OpenSucceeds ==
    /\ opening # <<>> /\ ~withdrawing
    /\ playing' = playing \cup {Head(opening).cam}
    /\ opening' = Tail(opening)
    /\ UNCHANGED <<buffer, subs, withdrawing, sdk, senders, attached, packets, pool,
                   call, issued, made, sent>>

OpenFails ==
    /\ opening # <<>> /\ ~withdrawing
    /\ StreamMutexFree(Head(opening).cam)
    /\ subs' = subs \ Subscribed(Head(opening).cam, Head(opening).callid)
    /\ withdrawing' = TRUE
    /\ UNCHANGED <<buffer, opening, playing, sdk, senders, attached, packets, pool,
                   call, issued, made, sent>>

Withdraw ==
    LET b == buffer[Head(opening).cam] IN
    /\ withdrawing
    /\ DestsMutexFree(b)
    /\ senders' = DropSender(b, Head(opening).callid)
    /\ opening' = Tail(opening)
    /\ withdrawing' = FALSE
    /\ UNCHANGED <<buffer, subs, playing, sdk, attached, packets, pool, call, issued,
                   made, sent>>

-----------------------------------------------------------------------------
SdkStep(c) == ReadBuffer(c) \/ PushPacket(c)

PoolStep(t) ==
    \/ StartRound(t) \/ SendPacket(t) \/ EndRound(t)
    \/ \E c \in Camera : PopPacket(t, c) \/ SkipBuffer(t, c)

ClientCall ==
    \/ \E r \in Request : AddSubstream(r)
    \/ \E c \in Camera : CloseUnknown(c) \/ \E k \in CallId : RemoveSubstream(c, k)

CallStep ==
    \/ \E t \in Thread : AskSize(t) \/ AttachBuffer(t) \/ FindBuffer(t)
    \/ RemoveSender \/ StopPreview \/ ClearSenders \/ Unregister

TaskStep == OpenSucceeds \/ OpenFails \/ Withdraw

Next ==
    \/ \E c \in Camera : SdkStep(c)
    \/ \E t \in Thread : PoolStep(t)
    \/ ClientCall \/ CallStep \/ TaskStep

Spec == Init /\ [][Next]_vars

\* Callbacks, the threads of the pool, a call and the message thread run on as long as
\* the lock they need is free.  That a thread gets a lock which is taken again and again
\* is not assumed: std::mutex does not promise it.
FairSpec ==
    /\ Spec
    /\ \A c \in Camera : WF_vars(PushPacket(c))
    /\ \A t \in Thread : WF_vars(PoolStep(t))
    /\ WF_vars(CallStep) /\ WF_vars(TaskStep)

-----------------------------------------------------------------------------
(* Safety *)

\* run() walks over buffers_ with an iterator: the map does not change under it.
MapStableInRound ==
    [][\A t \in Thread : pool[t].pc \in {"loop", "send"} => attached'[t] = attached[t]]_vars

\* A packet is sent only through a sender of a buffer its thread owns, to a camera
\* that is registered: the answer to the last close is the end of the sending.
SendsForRegistered ==
    \A t \in Thread : pool[t].pc = "send" =>
        LET b == pool[t].buf IN
        /\ b \in senders
        /\ attached[t][b.cam] = b
        /\ buffer[b.cam] # NoRequest

\* The message thread opens for streams that are there: an open that waits, or runs,
\* keeps its substream, and with it the registration of its stream, whatever joins and
\* closes of other calls do to that stream meanwhile.
OpensFindTheirStream ==
    \A i \in 1..Len(opening) :
        i > 1 \/ ~withdrawing => opening[i] \in subs /\ buffer[opening[i].cam] # NoRequest

\* A buffer is the current one of a stream, or attached to one thread of the pool
\* at most, and only while its camera is registered.
AttachedOnce ==
    \A t, u \in Thread, c \in Camera :
        attached[t][c] # NoRequest =>
            /\ attached[t][c].cam = c /\ buffer[c] # NoRequest
            /\ attached[u][c] = attached[t][c] => u = t

\* Destinations get their packets in order, once, and only while they have their
\* sender.
InFlight(b) ==
    IF DestsMutexFree(b) THEN <<>>
    ELSE <<pool[CHOOSE t \in Thread : pool[t].pc = "send" /\ pool[t].buf = b].pkt>>

Backlog == [b \in Request |-> InFlight(b) \o packets[b]]

Channel == INSTANCE PacketChannel WITH
    joined <- issued, listening <- senders, backlog <- Backlog

ImplementsChannel == Channel!Spec

-----------------------------------------------------------------------------
(* Liveness *)


\* A buffer in the pool is worked off, whoever else the thread serves and however
\* it went to sleep, unless its sender goes first.
Waiting(b) == Attached(b) /\ b \in senders /\ packets[b] # <<>>
BufferIsServed == \A b \in Request : Waiting(b) ~> ~Waiting(b)
=============================================================================
