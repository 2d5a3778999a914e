-------------------------- MODULE DataPath_proofs --------------------------
(* TLAPS proofs about DataPath. *)
EXTENDS DataPath, QueueLemmas

-----------------------------------------------------------------------------
(* The invariant *)

\* The call in progress works on a registered camera and knows how far it is.
CallControl ==
    /\ call.pc # "idle" => call.cam \in Camera /\ buffer[call.cam] # NoRequest
    /\ call.pc = "add" => \A t \in Thread : attached[t][call.cam] # buffer[call.cam]
    /\ call.pc = "clear" => /\ call.thread \in Thread
                            /\ attached[call.thread][call.cam] # NoRequest
    /\ call.pc \in {"remove", "clear"} =>
         \A t \in Thread : t \notin call.todo => attached[t][call.cam] = NoRequest
    /\ withdrawing => opening # <<>>

\* The current buffer of a camera was made for it.
OwnBuffer ==
    \A c \in Camera : buffer[c] # NoRequest => buffer[c].cam = c /\ buffer[c] \in issued

\* Buffers in the pool are known, and each thread works with buffers it has.
RoundControl ==
    /\ \A t \in Thread, c \in Camera : attached[t][c] # NoRequest => attached[t][c] \in issued
    /\ \A t \in Thread : pool[t].todo \subseteq Buffers(t)
    /\ \A t \in Thread : pool[t].pc \in {"loop", "send"} =>
         ~(call.pc = "clear" /\ call.thread = t)

PathInv ==
    /\ DataTypeOK
    /\ CallControl
    /\ OwnBuffer
    /\ RoundControl
    /\ AttachedOnce
    /\ SendsForRegistered

\* The fields of a request.
LEMMA RequestFields == \A r \in Request : r.cam \in Camera /\ r.callid \in CallId
BY RequestAssumption

LEMMA PathInit == Init => PathInv
<1> SUFFICES ASSUME Init PROVE PathInv
    OBVIOUS
<1>1. DataTypeOK
  <2>1. <<>> \in Seq(Request) /\ <<>> \in Seq(Nat)
      OBVIOUS
  <2>2. /\ packets \in [Request -> Seq(Nat)]
        /\ sent \in [Request -> Seq(Nat)]
        /\ opening \in Seq(Request)
      BY <2>1, Zenon DEF Init
  <2>3. AtLock \in ThreadState
      BY DEF AtLock, ThreadState
  <2>4. Idle \in CallState
      BY DEF Idle, CallState
  <2> QED BY <2>2, <2>3, <2>4 DEF Init, DataTypeOK
<1>2. CallControl /\ OwnBuffer /\ RoundControl /\ AttachedOnce /\ SendsForRegistered
    BY DEF Init, CallControl, OwnBuffer, RoundControl, AttachedOnce, SendsForRegistered,
           Idle, AtLock, Buffers
<1> QED BY <1>1, <1>2 DEF PathInv

-----------------------------------------------------------------------------
(* Types *)

\* What the program counter of a thread tells about the rest of its state.
LEMMA ThreadFields ==
    ASSUME NEW p \in ThreadState
    PROVE  /\ p.pc \in {"lock", "wait", "loop", "send"}
           /\ p.todo \subseteq Camera
           /\ p.pc \in {"lock", "wait"} => p.todo = {} /\ p.buf = NoRequest
           /\ p.pc = "send" => p.buf \in Request /\ p.pkt \in Nat
BY DEF ThreadState

\* A thread that gets its lock waits or looks at all its buffers.
LEMMA RoundStarts ==
    ASSUME DataTypeOK, NEW t \in Thread, StartRound(t)
    PROVE  /\ pool'[t].pc \in {"wait", "loop"}
           /\ pool'[t].todo = {} \/ pool'[t].todo = Buffers(t)
<1>1. pool[t] \in [pc : {"lock", "wait"}, todo : {{}}, buf : {NoRequest}, pkt : {0}]
    BY DEF StartRound, DataTypeOK, ThreadState
<1>2. CASE Buffers(t) = {}
  <2>1. pool'[t] = [pool[t] EXCEPT !.pc = "wait"]
      BY <1>2 DEF StartRound, DataTypeOK
  <2> QED BY <1>1, <2>1
<1>3. CASE Buffers(t) # {}
  <2>1. pool'[t] = [pool[t] EXCEPT !.pc = "loop", !.todo = Buffers(t)]
      BY <1>3 DEF StartRound, DataTypeOK
  <2> QED BY <1>1, <2>1
<1> QED BY <1>2, <1>3

\* It goes on with its round after it sent, and to its lock after the round.
LEMMA PacketSent ==
    ASSUME DataTypeOK, NEW t \in Thread, SendPacket(t)
    PROVE  pool'[t].pc = "loop" /\ pool'[t].todo = pool[t].todo
<1>1. pool'[t] = [AtLock EXCEPT !.pc = "loop", !.todo = pool[t].todo]
    BY DEF SendPacket, DataTypeOK
<1> QED BY <1>1 DEF AtLock

LEMMA RoundEnds ==
    ASSUME DataTypeOK, NEW t \in Thread, EndRound(t)
    PROVE  pool'[t].pc = "lock" /\ pool'[t].todo = {}
<1>1. pool'[t] = AtLock
    BY DEF EndRound, DataTypeOK
<1> QED BY <1>1 DEF AtLock

LEMMA PathType == PathInv /\ [Next]_vars => DataTypeOK'
<1> SUFFICES ASSUME PathInv, [Next]_vars PROVE DataTypeOK'
    OBVIOUS
<1>0. DataTypeOK /\ CallControl /\ RoundControl
    BY DEF PathInv
<1> USE <1>0 DEF DataTypeOK
<1>1. ASSUME NEW c \in Camera, SdkStep(c) PROVE DataTypeOK'
  <2>1. CASE ReadBuffer(c)
      BY <2>1 DEF ReadBuffer
  <2>2. CASE PushPacket(c)
    <3>1. sdk[c] \in Request /\ made' \in Nat
        BY <2>2 DEF PushPacket
    <3>2. Append(packets[sdk[c]], made') \in Seq(Nat)
        BY <3>1
    <3> QED BY <2>2, <3>1, <3>2 DEF PushPacket
  <2> QED BY <1>1, <2>1, <2>2 DEF SdkStep
<1>2. ASSUME NEW t \in Thread, PoolStep(t) PROVE DataTypeOK'
  <2>0. pool[t] \in ThreadState
      OBVIOUS
  <2>1. CASE StartRound(t)
    <3>1. pool'[t] \in ThreadState
        BY <2>0, <2>1 DEF StartRound, Buffers, ThreadState
    <3> QED BY <2>1, <3>1 DEF StartRound
  <2>2. ASSUME NEW c \in Camera, PopPacket(t, c) PROVE DataTypeOK'
    <3> DEFINE b == attached[t][c]
    <3>1. b \in Request /\ packets[b] # <<>>
        BY <2>2 DEF PopPacket, RoundControl, Buffers
    <3>2. Head(packets[b]) \in Nat /\ Tail(packets[b]) \in Seq(Nat)
        BY <3>1, TailElements
    <3>3. packets' \in [Request -> Seq(Nat)]
        BY <2>2, <3>1, <3>2 DEF PopPacket
    <3>4. pool[t].todo \subseteq Camera
        BY <2>0, ThreadFields
    <3>5. pool'[t] \in ThreadState
        BY <2>2, <3>1, <3>2, <3>4 DEF PopPacket, ThreadState
    <3> QED BY <2>2, <3>3, <3>5 DEF PopPacket
  <2>3. ASSUME NEW c \in Camera, SkipBuffer(t, c) PROVE DataTypeOK'
    <3>1. pool'[t] \in ThreadState
        BY <2>0, <2>3 DEF SkipBuffer, ThreadState
    <3> QED BY <2>3, <3>1 DEF SkipBuffer
  <2>4. CASE SendPacket(t)
    <3>1. pool[t].buf \in Request /\ pool[t].pkt \in Nat
        BY <2>0, <2>4, ThreadFields DEF SendPacket
    <3>2. Append(sent[pool[t].buf], pool[t].pkt) \in Seq(Nat)
        BY <3>1
    <3>3. pool'[t] \in ThreadState
        BY <2>0, <2>4, ThreadFields DEF SendPacket, AtLock, ThreadState
    <3> QED BY <2>4, <3>1, <3>2, <3>3 DEF SendPacket
  <2>5. CASE EndRound(t)
    <3>1. pool'[t] \in ThreadState
        BY <2>5 DEF EndRound, AtLock, ThreadState
    <3> QED BY <2>5, <3>1 DEF EndRound
  <2> QED BY <1>2, <2>1, <2>2, <2>3, <2>4, <2>5 DEF PoolStep
<1>3. CASE ClientCall
  <2>1. ASSUME NEW r \in Request, AddSubstream(r) PROVE DataTypeOK'
    <3>1. call' \in CallState
        BY <2>1, RequestFields DEF AddSubstream, Idle, CallState
    <3> QED BY <2>1, <3>1 DEF AddSubstream
  <2>2. ASSUME NEW c \in Camera, NEW k \in CallId, RemoveSubstream(c, k) PROVE DataTypeOK'
    <3>1. call' \in CallState
        BY <2>2 DEF RemoveSubstream, Idle, CallState
    <3> QED BY <2>2, <3>1 DEF RemoveSubstream
  <2>3. ASSUME NEW c \in Camera, CloseUnknown(c) PROVE DataTypeOK'
      BY <2>3 DEF CloseUnknown, vars
  <2> QED BY <1>3, <2>1, <2>2, <2>3 DEF ClientCall
<1>4. CASE CallStep
  <2>0. Idle \in CallState
      BY DEF Idle, CallState
  <2>1. ASSUME NEW t \in Thread, AskSize(t) \/ FindBuffer(t) PROVE DataTypeOK'
    <3>1. CASE AskSize(t)
      <4>1. call' \in CallState
          BY <3>1 DEF AskSize, CallState
      <4> QED BY <3>1, <4>1 DEF AskSize
    <3>2. CASE FindBuffer(t)
      <4>1. call' \in CallState
          BY <3>2 DEF FindBuffer, CallState
      <4> QED BY <3>2, <4>1 DEF FindBuffer
    <3> QED BY <2>1, <3>1, <3>2
  <2>2. ASSUME NEW t \in Thread, AttachBuffer(t) PROVE DataTypeOK'
    <3>1. buffer[call.cam] \in Request /\ call.cam \in Camera
        BY <2>2 DEF AttachBuffer, CallControl
    <3>2. opening' \in Seq(Request)
        BY <2>2, <3>1, AppendElements DEF AttachBuffer
    <3>3. attached' \in [Thread -> [Camera -> Request \cup {NoRequest}]]
        BY <2>2, <3>1 DEF AttachBuffer
    <3>4. pool'[t] \in ThreadState
        BY <2>2 DEF AttachBuffer, PoolMutexFree, ThreadState
    <3>5. pool' \in [Thread -> ThreadState] /\ call' \in CallState
        BY <2>0, <2>2, <3>4 DEF AttachBuffer
    <3>6. subs' \subseteq Request
        BY <2>2, <3>1 DEF AttachBuffer
    <3> QED BY <2>2, <3>2, <3>3, <3>5, <3>6 DEF AttachBuffer
  <2>3. CASE RemoveSender
    <3>1. call' \in CallState
        BY <2>0, <2>3 DEF RemoveSender, CallState
    <3> QED BY <2>3, <3>1 DEF RemoveSender, DropSender
  <2>4. CASE StopPreview
    <3>1. call' \in CallState
        BY <2>4 DEF StopPreview, CallState
    <3> QED BY <2>4, <3>1 DEF StopPreview
  <2>5. CASE ClearSenders
    <3>1. call' \in CallState
        BY <2>5 DEF ClearSenders, CallState
    <3> QED BY <2>5, <3>1 DEF ClearSenders, CallControl
  <2>6. CASE Unregister
      BY <2>0, <2>6 DEF Unregister, CallControl
  <2> QED BY <1>4, <2>1, <2>2, <2>3, <2>4, <2>5, <2>6 DEF CallStep
<1>5. CASE TaskStep
  <2>1. opening # <<>> => Tail(opening) \in Seq(Request) /\ Head(opening) \in Request
      BY TailElements
  <2>2. CASE OpenSucceeds
      BY <2>1, <2>2, RequestFields DEF OpenSucceeds
  <2>3. CASE OpenFails
      BY <2>3 DEF OpenFails
  <2>4. CASE Withdraw
      BY <2>4, <2>1 DEF Withdraw, DropSender, CallControl
  <2> QED BY <1>5, <2>2, <2>3, <2>4 DEF TaskStep
<1>6. CASE UNCHANGED vars
    BY <1>6 DEF vars
<1> QED BY <1>1, <1>2, <1>3, <1>4, <1>5, <1>6 DEF Next

-----------------------------------------------------------------------------
(* Each part of the invariant survives a step *)

\* Where the call stands.
LEMMA StepControl == PathInv /\ [Next]_vars => CallControl'
<1> SUFFICES ASSUME PathInv, [Next]_vars PROVE CallControl'
    OBVIOUS
<1>0. DataTypeOK /\ CallControl /\ OwnBuffer /\ RoundControl
    BY DEF PathInv
<1> USE <1>0 DEF CallControl
<1>1. ASSUME NEW c \in Camera, SdkStep(c) PROVE CallControl'
    BY <1>1 DEF SdkStep, ReadBuffer, PushPacket
<1>2. ASSUME NEW t \in Thread, PoolStep(t) PROVE CallControl'
    BY <1>2 DEF PoolStep, StartRound, SendPacket, EndRound, PopPacket, SkipBuffer
<1>3. CASE ClientCall
  <2>1. ASSUME NEW r \in Request, AddSubstream(r) PROVE CallControl'
    <3>1. r \notin issued /\ r.cam \in Camera /\ r # NoRequest
        BY <2>1, RequestFields, NoneAssumption DEF AddSubstream, MayOpen
    <3>2. buffer'[r.cam] = r
        BY <2>1, <3>1 DEF AddSubstream, DataTypeOK
    <3>3. \A t \in Thread : attached[t][r.cam] # r
        BY <3>1 DEF RoundControl
    <3> QED BY <2>1, <3>1, <3>2, <3>3 DEF AddSubstream, Idle
  <2>2. ASSUME NEW c \in Camera, NEW k \in CallId, RemoveSubstream(c, k) PROVE CallControl'
      BY <2>2 DEF RemoveSubstream, Idle
  <2>3. ASSUME NEW c \in Camera, CloseUnknown(c) PROVE CallControl'
      BY <2>3 DEF CloseUnknown, vars
  <2> QED BY <1>3, <2>1, <2>2, <2>3 DEF ClientCall
<1>4. CASE CallStep
  <2>1. ASSUME NEW t \in Thread, AskSize(t) PROVE CallControl'
      BY <2>1 DEF AskSize, DataTypeOK, CallState
  <2>2. ASSUME NEW t \in Thread, AttachBuffer(t) PROVE CallControl'
    <3>1. opening # <<>> => opening' # <<>>
      <4>1. buffer[call.cam] \in Request /\ opening \in Seq(Request)
          BY <2>2 DEF AttachBuffer, DataTypeOK
      <4>2. Append(opening, buffer[call.cam]) # <<>>
        <5>1. Len(Append(opening, buffer[call.cam])) = Len(opening) + 1
            BY <4>1, AppendElements
        <5>2. Len(opening) \in Nat /\ Len(<<>>) = 0
            BY <4>1
        <5> QED BY <5>1, <5>2
      <4> QED BY <2>2, <4>2 DEF AttachBuffer
    <3> QED BY <2>2, <3>1 DEF AttachBuffer, Idle
  <2>3. ASSUME NEW t \in Thread, FindBuffer(t) PROVE CallControl'
      BY <2>3 DEF FindBuffer, DataTypeOK, CallState
  <2>4. CASE RemoveSender
      BY <2>4 DEF RemoveSender, Idle, DataTypeOK, CallState
  <2>5. CASE StopPreview
      BY <2>5 DEF StopPreview, DataTypeOK, CallState
  <2>6. CASE ClearSenders
      BY <2>6 DEF ClearSenders, DataTypeOK, CallState
  <2>7. CASE Unregister
      BY <2>7 DEF Unregister, Idle
  <2> QED BY <1>4, <2>1, <2>2, <2>3, <2>4, <2>5, <2>6, <2>7 DEF CallStep
<1>5. CASE TaskStep
    BY <1>5 DEF TaskStep, OpenSucceeds, OpenFails, Withdraw
<1>6. CASE UNCHANGED vars
    BY <1>6 DEF vars
<1> QED BY <1>1, <1>2, <1>3, <1>4, <1>5, <1>6 DEF Next

\* buffer_ changes when a substream is added and when the stream goes.
LEMMA StepOwn == PathInv /\ [Next]_vars => OwnBuffer'
<1> SUFFICES ASSUME PathInv, [Next]_vars PROVE OwnBuffer'
    OBVIOUS
<1>0. DataTypeOK /\ OwnBuffer
    BY DEF PathInv
<1>1. ASSUME NEW r \in Request, AddSubstream(r) PROVE OwnBuffer'
    BY <1>0, <1>1 DEF AddSubstream, OwnBuffer, DataTypeOK
<1>2. CASE Unregister
    BY <1>0, <1>2 DEF Unregister, OwnBuffer, DataTypeOK
<1>3. CASE UNCHANGED <<buffer, issued>>
    BY <1>0, <1>3 DEF OwnBuffer
<1>4. \/ \E r \in Request : AddSubstream(r)
      \/ Unregister
      \/ UNCHANGED <<buffer, issued>>
    BY DEF Next, SdkStep, ReadBuffer, PushPacket, PoolStep, StartRound, SendPacket,
           EndRound, PopPacket, SkipBuffer, ClientCall, CloseUnknown, RemoveSubstream,
           CallStep, AskSize, AttachBuffer, FindBuffer, RemoveSender, StopPreview,
           ClearSenders, TaskStep, OpenSucceeds, OpenFails, Withdraw, vars
<1> QED BY <1>1, <1>2, <1>3, <1>4

\* Only attachBuffer and removeBuffer change buffers_, and only pool threads that
\* are not in a round lose a buffer.
LEMMA AttachedSteps ==
    [Next]_vars =>
        \/ \E t \in Thread : AttachBuffer(t)
        \/ ClearSenders
        \/ UNCHANGED attached
BY DEF Next, SdkStep, ReadBuffer, PushPacket, PoolStep, StartRound, SendPacket,
       EndRound, PopPacket, SkipBuffer, ClientCall, AddSubstream, CloseUnknown,
       RemoveSubstream, CallStep, AskSize, FindBuffer, RemoveSender, StopPreview,
       Unregister, TaskStep, OpenSucceeds, OpenFails, Withdraw, vars

LEMMA StepRound == PathInv /\ [Next]_vars => RoundControl'
<1> SUFFICES ASSUME PathInv, [Next]_vars PROVE RoundControl'
    OBVIOUS
<1>0. DataTypeOK /\ CallControl /\ OwnBuffer /\ RoundControl
    BY DEF PathInv
<1> USE <1>0 DEF RoundControl
<1>1. (\A t \in Thread, c \in Camera : attached[t][c] # NoRequest => attached[t][c] \in issued)'
  <2>1. issued \subseteq issued'
      BY DEF Next, SdkStep, ReadBuffer, PushPacket, PoolStep, StartRound, SendPacket,
             EndRound, PopPacket, SkipBuffer, ClientCall, AddSubstream, CloseUnknown,
             RemoveSubstream, CallStep, AskSize, AttachBuffer, FindBuffer, RemoveSender,
             StopPreview, ClearSenders, Unregister, TaskStep, OpenSucceeds, OpenFails,
             Withdraw, vars
  <2>2. ASSUME NEW t \in Thread, AttachBuffer(t) PROVE
            \A u \in Thread, c \in Camera :
                attached'[u][c] # NoRequest => attached'[u][c] \in issued
      BY <2>2 DEF AttachBuffer, OwnBuffer, CallControl, DataTypeOK
  <2>3. ClearSenders => \A u \in Thread, c \in Camera :
                attached'[u][c] # NoRequest => attached'[u][c] \in issued
      BY DEF ClearSenders, CallControl, DataTypeOK
  <2> QED BY <2>1, <2>2, <2>3, AttachedSteps
<1>2. (\A t \in Thread : pool[t].todo \subseteq Buffers(t))'
  <2> SUFFICES ASSUME NEW t \in Thread PROVE pool'[t].todo \subseteq Buffers(t)'
      OBVIOUS
  <2>0. pool[t] \in ThreadState /\ pool[t].todo \subseteq Buffers(t)
      BY DEF DataTypeOK
  <2>1. ASSUME NEW u \in Thread, PoolStep(u) PROVE pool'[t].todo \subseteq Buffers(t)'
    <3>1. Buffers(t)' = Buffers(t)
        BY <2>1 DEF PoolStep, StartRound, SendPacket, EndRound, PopPacket, SkipBuffer,
                    Buffers
    <3>2. pool'[t].todo = {} \/ pool'[t].todo \subseteq Buffers(t)
      <4>1. CASE t # u
          BY <2>0, <2>1, <4>1 DEF PoolStep, StartRound, SendPacket, EndRound, PopPacket,
                                  SkipBuffer, DataTypeOK
      <4>2. CASE t = u
        <5>1. CASE StartRound(t)
            BY <2>0, <5>1, ThreadFields DEF StartRound, DataTypeOK
        <5>2. CASE SendPacket(t) \/ EndRound(t)
            BY <2>0, <5>2, PacketSent, RoundEnds
        <5>3. ASSUME NEW c \in Camera, PopPacket(t, c) PROVE pool'[t].todo \subseteq Buffers(t)
            BY <2>0, <5>3 DEF PopPacket, DataTypeOK
        <5>4. ASSUME NEW c \in Camera, SkipBuffer(t, c) PROVE pool'[t].todo \subseteq Buffers(t)
            BY <2>0, <5>4, ThreadFields DEF SkipBuffer, DataTypeOK, ThreadState
        <5> QED BY <2>1, <4>2, <5>1, <5>2, <5>3, <5>4 DEF PoolStep
      <4> QED BY <4>1, <4>2
    <3> QED BY <3>1, <3>2
  <2>2. ASSUME NEW u \in Thread, AttachBuffer(u) PROVE pool'[t].todo \subseteq Buffers(t)'
    <3>1. pool'[t].todo = pool[t].todo
        BY <2>0, <2>2 DEF AttachBuffer, DataTypeOK, ThreadState
    <3>2. \A c \in Camera : attached[t][c] # NoRequest => attached'[t][c] = attached[t][c]
        BY <2>2 DEF AttachBuffer, DataTypeOK
    <3> QED BY <2>0, <3>1, <3>2 DEF Buffers
  <2>3. CASE ClearSenders
    <3>1. CASE t = call.thread
      <4>1. pool[t].pc \in {"lock", "wait"}
          BY <2>0, <2>3, <3>1, ThreadFields DEF ClearSenders
      <4> QED BY <2>0, <2>3, <4>1, ThreadFields DEF ClearSenders
    <3>2. CASE t # call.thread
        BY <2>0, <2>3, <3>2 DEF ClearSenders, Buffers, DataTypeOK
    <3> QED BY <3>1, <3>2
  <2>4. CASE UNCHANGED <<pool, attached>>
      BY <2>0, <2>4 DEF Buffers
  <2>5. \/ \E u \in Thread : PoolStep(u) \/ AttachBuffer(u)
        \/ ClearSenders
        \/ UNCHANGED <<pool, attached>>
      BY DEF Next, SdkStep, ReadBuffer, PushPacket, ClientCall, AddSubstream,
             CloseUnknown, RemoveSubstream, CallStep, AskSize, FindBuffer, RemoveSender,
             StopPreview, Unregister, TaskStep, OpenSucceeds, OpenFails, Withdraw, vars
  <2> QED BY <2>1, <2>2, <2>3, <2>4, <2>5
<1>3. (\A t \in Thread : pool[t].pc \in {"loop", "send"} =>
           ~(call.pc = "clear" /\ call.thread = t))'
  <2> SUFFICES ASSUME NEW t \in Thread,
                      call'.pc = "clear", call'.thread = t
               PROVE  pool'[t].pc \notin {"loop", "send"}
      OBVIOUS
  <2>1. CASE UNCHANGED call
    <3>1. pool[t].pc \notin {"loop", "send"} /\ call.pc = "clear" /\ call.thread = t
        BY <2>1
    <3>2. ~PoolMutexFree(t)
        BY <3>1 DEF PoolMutexFree
    <3>3. ASSUME NEW u \in Thread, PoolStep(u) PROVE pool'[t].pc \notin {"loop", "send"}
        BY <3>1, <3>2, <3>3 DEF PoolStep, StartRound, SendPacket, EndRound, PopPacket,
                                SkipBuffer, DataTypeOK
    <3>4. (\E u \in Thread : PoolStep(u)) \/ UNCHANGED pool
        BY <2>1, <3>1 DEF Next, SdkStep, ReadBuffer, PushPacket, ClientCall, AddSubstream,
             CloseUnknown, RemoveSubstream, CallStep, AskSize, AttachBuffer, FindBuffer,
             RemoveSender, StopPreview, ClearSenders, Unregister, TaskStep,
             OpenSucceeds, OpenFails, Withdraw, vars
    <3> QED BY <3>1, <3>3, <3>4
  <2>2. ASSUME NEW u \in Thread, FindBuffer(u) PROVE pool'[t].pc \notin {"loop", "send"}
      BY <2>2 DEF FindBuffer, PoolMutexFree, DataTypeOK, CallState
  <2>3. ASSUME ClientCall PROVE UNCHANGED call
      BY <2>3 DEF ClientCall, AddSubstream, CloseUnknown, RemoveSubstream, Idle, vars
  <2>4. ASSUME CallStep PROVE \E u \in Thread : FindBuffer(u)
    <3>1. ASSUME NEW u \in Thread, AskSize(u) PROVE FALSE
        BY <3>1 DEF AskSize, DataTypeOK, CallState
    <3>2. ASSUME NEW u \in Thread, AttachBuffer(u) PROVE FALSE
        BY <3>2 DEF AttachBuffer, Idle
    <3>3. CASE RemoveSender
        BY <3>3 DEF RemoveSender, Idle, DataTypeOK, CallState
    <3>4. CASE StopPreview \/ ClearSenders
        BY <3>4 DEF StopPreview, ClearSenders, DataTypeOK, CallState
    <3>5. CASE Unregister
        BY <3>5 DEF Unregister, Idle
    <3> QED BY <2>4, <3>1, <3>2, <3>3, <3>4, <3>5 DEF CallStep
  <2>5. ClientCall \/ CallStep \/ UNCHANGED call
      BY DEF Next, SdkStep, ReadBuffer, PushPacket, PoolStep, StartRound, SendPacket,
             EndRound, PopPacket, SkipBuffer, TaskStep, OpenSucceeds, OpenFails, Withdraw,
             vars
  <2> QED BY <2>1, <2>2, <2>3, <2>4, <2>5
<1> QED BY <1>1, <1>2, <1>3

LEMMA StepAttached == PathInv /\ [Next]_vars => AttachedOnce'
<1> SUFFICES ASSUME PathInv, [Next]_vars,
                    NEW t \in Thread, NEW u \in Thread, NEW c \in Camera,
                    attached'[t][c] # NoRequest
             PROVE  /\ attached'[t][c].cam = c /\ buffer'[c] # NoRequest
                    /\ attached'[u][c] = attached'[t][c] => u = t
    BY DEF AttachedOnce
<1>0. DataTypeOK /\ CallControl /\ OwnBuffer /\ AttachedOnce
    BY DEF PathInv
<1>1. ASSUME NEW w \in Thread, AttachBuffer(w)
      PROVE  /\ attached'[t][c].cam = c /\ buffer'[c] # NoRequest
             /\ attached'[u][c] = attached'[t][c] => u = t
  <2>1. buffer' = buffer /\ call.pc = "add" /\ call.cam \in Camera
      BY <1>0, <1>1 DEF AttachBuffer, CallControl
  <2>2. \A v \in Thread, d \in Camera :
            \/ attached'[v][d] = attached[v][d]
            \/ v = w /\ d = call.cam /\ attached'[v][d] = buffer[d]
      BY <1>0, <1>1 DEF AttachBuffer, DataTypeOK
  <2>3. \A v \in Thread : attached[v][call.cam] # buffer[call.cam]
      BY <1>0, <2>1 DEF CallControl
  <2> QED BY <1>0, <2>1, <2>2, <2>3 DEF AttachedOnce, OwnBuffer
<1>2. CASE ClearSenders
  <2>1. \A v \in Thread, d \in Camera :
            attached'[v][d] # NoRequest => attached'[v][d] = attached[v][d]
      BY <1>0, <1>2 DEF ClearSenders, CallControl, DataTypeOK
  <2>2. buffer' = buffer
      BY <1>2 DEF ClearSenders
  <2> QED BY <1>0, <2>1, <2>2 DEF AttachedOnce
<1>3. CASE UNCHANGED attached
  <2>1. attached[t][c].cam = c /\ (attached[u][c] = attached[t][c] => u = t)
        /\ buffer[c] # NoRequest
      BY <1>0, <1>3 DEF AttachedOnce
  <2>2. ASSUME NEW r \in Request, AddSubstream(r) PROVE buffer'[c] # NoRequest
      BY <1>0, <2>1, <2>2, NoneAssumption DEF AddSubstream, DataTypeOK
  <2>3. Unregister => buffer'[c] # NoRequest
      BY <1>0, <1>3, <2>1 DEF Unregister, CallControl, DataTypeOK
  <2>4. \/ \E r \in Request : AddSubstream(r)
        \/ Unregister
        \/ UNCHANGED buffer
      BY DEF Next, SdkStep, ReadBuffer, PushPacket, PoolStep, StartRound, SendPacket,
             EndRound, PopPacket, SkipBuffer, ClientCall, CloseUnknown, RemoveSubstream,
             CallStep, AskSize, AttachBuffer, FindBuffer, RemoveSender, StopPreview,
             ClearSenders, TaskStep, OpenSucceeds, OpenFails, Withdraw, vars
  <2> QED BY <1>3, <2>1, <2>2, <2>3, <2>4
<1> QED BY <1>1, <1>2, <1>3, AttachedSteps

\* A thread starts to send only in PopPacket.
LEMMA SendingSteps ==
    ASSUME DataTypeOK, [Next]_vars, NEW t \in Thread, pool'[t].pc = "send"
    PROVE  \/ \E c \in Camera : PopPacket(t, c)
           \/ /\ pool'[t] = pool[t]
              /\ ~SendPacket(t)
<1>1. pool[t] \in ThreadState
    BY DEF DataTypeOK
<1>2. ASSUME NEW u \in Thread, PoolStep(u)
      PROVE  (\E c \in Camera : PopPacket(t, c)) \/ pool'[t] = pool[t]
  <2>1. CASE u # t
      BY <1>2, <2>1 DEF PoolStep, StartRound, SendPacket, EndRound, PopPacket, SkipBuffer,
                        DataTypeOK
  <2>2. CASE u = t
    <3>1. CASE StartRound(t)
        BY <3>1, RoundStarts
    <3>2. CASE SendPacket(t) \/ EndRound(t)
        BY <3>2, PacketSent, RoundEnds
    <3>3. ASSUME NEW c \in Camera, SkipBuffer(t, c) PROVE FALSE
        BY <1>1, <3>3 DEF SkipBuffer, DataTypeOK, ThreadState
    <3> QED BY <1>2, <2>2, <3>1, <3>2, <3>3 DEF PoolStep
  <2> QED BY <2>1, <2>2
<1>3. ASSUME NEW u \in Thread, AttachBuffer(u) PROVE pool'[t] = pool[t]
    BY <1>1, <1>3 DEF AttachBuffer, DataTypeOK, ThreadState
<1>4. (\E u \in Thread : PoolStep(u) \/ AttachBuffer(u)) \/ UNCHANGED pool
    BY DEF Next, SdkStep, ReadBuffer, PushPacket, ClientCall, AddSubstream, CloseUnknown,
           RemoveSubstream, CallStep, AskSize, FindBuffer, RemoveSender, StopPreview,
           ClearSenders, Unregister, TaskStep, OpenSucceeds, OpenFails, Withdraw, vars
<1>5. ~SendPacket(t)
    BY PacketSent
<1> QED BY <1>2, <1>3, <1>4, <1>5

\* Whoever sends keeps its sender and its buffer: those who take them away wait.
LEMMA StepSends == PathInv /\ [Next]_vars => SendsForRegistered'
<1> SUFFICES ASSUME PathInv, [Next]_vars,
                    NEW t \in Thread, pool'[t].pc = "send"
             PROVE  LET b == pool'[t].buf IN
                    b \in senders' /\ attached'[t][b.cam] = b /\ buffer'[b.cam] # NoRequest
    BY DEF SendsForRegistered
<1>0. DataTypeOK /\ CallControl /\ OwnBuffer /\ RoundControl /\ AttachedOnce
      /\ SendsForRegistered
    BY DEF PathInv
<1> DEFINE b == pool'[t].buf
<1>1. ASSUME NEW c \in Camera, PopPacket(t, c)
      PROVE  b \in senders' /\ attached'[t][b.cam] = b /\ buffer'[b.cam] # NoRequest
  <2>1. attached[t][c] # NoRequest
      BY <1>0, <1>1 DEF PopPacket, RoundControl, Buffers
  <2>2. b = attached[t][c] /\ b.cam = c /\ buffer[c] # NoRequest
      BY <1>0, <1>1, <2>1 DEF PopPacket, AttachedOnce, DataTypeOK
  <2> QED BY <1>1, <2>2 DEF PopPacket
<1>2. ASSUME pool'[t] = pool[t], ~SendPacket(t)
      PROVE  b \in senders' /\ attached'[t][b.cam] = b /\ buffer'[b.cam] # NoRequest
  <2>1. /\ b = pool[t].buf /\ b \in senders /\ b \in Request /\ b.cam \in Camera
        /\ attached[t][b.cam] = b /\ buffer[b.cam] # NoRequest
        /\ ~DestsMutexFree(b)
        /\ pool[t].pc = "send"
      BY <1>0, <1>2, ThreadFields, RequestFields
      DEF SendsForRegistered, DataTypeOK, DestsMutexFree
  <2>2. b # NoRequest
      BY <2>1, NoneAssumption
  <2>3. attached'[t][b.cam] = b
    <3>1. ASSUME NEW w \in Thread, AttachBuffer(w) PROVE attached'[t][b.cam] = b
        BY <1>0, <2>1, <2>2, <3>1 DEF AttachBuffer, DataTypeOK
    <3>2. CASE ClearSenders
      <4>1. call.pc = "clear" /\ call.thread # t
          BY <1>0, <2>1, <3>2 DEF ClearSenders, RoundControl
      <4> QED BY <1>0, <2>1, <3>2, <4>1 DEF ClearSenders, DataTypeOK
    <3> QED BY <2>1, <3>1, <3>2, AttachedSteps
  <2>4. buffer'[b.cam] # NoRequest
    <3>1. AttachedOnce'
        BY StepAttached
    <3> QED BY <2>1, <2>2, <2>3, <3>1 DEF AttachedOnce
  <2>5. b \in senders'
    <3>1. ASSUME NEW r \in Request, AddSubstream(r) PROVE b \in senders'
        BY <2>1, <3>1 DEF AddSubstream, Attached
    <3>2. CASE RemoveSender
        BY <2>1, <3>2 DEF RemoveSender, DropSender
    <3>3. CASE ClearSenders
        BY <2>1, <3>3 DEF ClearSenders
    <3>4. CASE Unregister
      <4>1. call.cam \in Camera /\ attached[t][call.cam] = NoRequest
            /\ buffer[call.cam].cam = call.cam
          BY <1>0, <3>4 DEF Unregister, CallControl, OwnBuffer
      <4>2. b # buffer[call.cam]
          BY <2>1, <2>2, <4>1
      <4> QED BY <2>1, <3>4, <4>2 DEF Unregister
    <3>5. CASE Withdraw
        BY <2>1, <3>5 DEF Withdraw, DropSender
    <3>6. \/ \E r \in Request : AddSubstream(r)
          \/ RemoveSender \/ ClearSenders \/ Unregister \/ Withdraw
          \/ UNCHANGED senders
        BY DEF Next, SdkStep, ReadBuffer, PushPacket, PoolStep, StartRound, SendPacket,
               EndRound, PopPacket, SkipBuffer, ClientCall, CloseUnknown,
               RemoveSubstream, CallStep, AskSize, AttachBuffer, FindBuffer,
               StopPreview, TaskStep, OpenSucceeds, OpenFails, vars
    <3> QED BY <2>1, <3>1, <3>2, <3>3, <3>4, <3>5, <3>6
  <2> QED BY <2>3, <2>4, <2>5
<1>3. (\E c \in Camera : PopPacket(t, c)) \/ (pool'[t] = pool[t] /\ ~SendPacket(t))
    BY <1>0, SendingSteps
<1> QED BY <1>1, <1>2, <1>3

-----------------------------------------------------------------------------
(* The opens and their streams.  What is queued for the message thread still has  *)
(* its substream, which keeps the close of that camera from going on.            *)

\* An open waits with its substream until it fails, and is the only one of its call.
OpenControl ==
    /\ \A q \in subs : buffer[q.cam] # NoRequest
    /\ call.pc \in {"stop", "remove", "clear"} => \A q \in subs : q.cam # call.cam
    /\ call.pc = "add" => ~Unanswered(call.cam, buffer[call.cam].callid)
    /\ \A i \in 1..Len(opening) : i > 1 \/ ~withdrawing => opening[i] \in subs
    /\ \A i, j \in 1..Len(opening) :
         opening[i].cam = opening[j].cam /\ opening[i].callid = opening[j].callid => i = j

\* The first open leaves the queue: the others keep their places.
LEMMA OpenLeaves ==
    ASSUME DataTypeOK, opening # <<>>, opening' = Tail(opening)
    PROVE  /\ Head(opening) = opening[1] /\ 1 \in 1..Len(opening)
           /\ opening[1] \in Request
           /\ \A i \in 1..Len(opening') :
                i + 1 \in 1..Len(opening) /\ opening'[i] = opening[i + 1] /\ i + 1 > 1
<1>1. /\ Head(opening) = opening[1] /\ opening[1] \in Request
      /\ Len(opening) \in Nat \ {0} /\ Len(opening') = Len(opening) - 1
      /\ \A i \in 1..(Len(opening) - 1) : opening'[i] = opening[i + 1]
    BY TailElements DEF DataTypeOK
<1> QED BY <1>1

LEMMA StepOpen == PathInv /\ OpenControl /\ [Next]_vars => OpenControl'
<1> SUFFICES ASSUME PathInv, OpenControl, [Next]_vars PROVE OpenControl'
    OBVIOUS
<1>0. DataTypeOK /\ CallControl /\ OwnBuffer
    BY DEF PathInv
<1> USE <1>0 DEF OpenControl
<1>1. ASSUME NEW r \in Request, AddSubstream(r) PROVE OpenControl'
  <2>1. buffer' = [buffer EXCEPT ![r.cam] = r] /\ UNCHANGED <<subs, opening, withdrawing>>
      BY <1>1 DEF AddSubstream
  <2>2. \A c \in Camera : buffer[c] # NoRequest => buffer'[c] # NoRequest
      BY <2>1, NoneAssumption DEF DataTypeOK
  <2>3. \A q \in subs : q.cam \in Camera
      BY RequestFields DEF DataTypeOK
  <2>4. call'.pc = "add" /\ call'.cam = r.cam /\ buffer'[call'.cam] = r
      BY <1>1, <2>1, RequestFields DEF AddSubstream, Idle, DataTypeOK
  <2>5. ~Unanswered(r.cam, r.callid)
      BY <1>1 DEF AddSubstream, MayOpen
  <2> QED BY <2>1, <2>2, <2>3, <2>4, <2>5 DEF Unanswered
<1>2. ASSUME NEW t \in Thread, AttachBuffer(t) PROVE OpenControl'
  <2> DEFINE b == buffer[call.cam]
  <2>1. b \in Request /\ b.cam = call.cam /\ ~Unanswered(call.cam, b.callid)
        /\ b # NoRequest
      BY <1>2 DEF AttachBuffer, CallControl, OwnBuffer, DataTypeOK
  <2>2. subs' = subs \cup {b} /\ UNCHANGED <<buffer, withdrawing>> /\ call'.pc = "idle"
      BY <1>2 DEF AttachBuffer, Idle
  <2>3. CASE opening' = opening
      BY <2>1, <2>2, <2>3
  <2>4. CASE opening' = Append(opening, b)
    <3>1. /\ Len(opening') = Len(opening) + 1 /\ Len(opening) \in Nat
          /\ \A i \in 1..Len(opening) : opening'[i] = opening[i]
          /\ opening'[Len(opening) + 1] = b
        BY <2>1, <2>4, AppendElements DEF DataTypeOK
    <3>2. \A i \in 1..Len(opening) : ~(opening[i].cam = b.cam /\ opening[i].callid = b.callid)
        BY <2>1 DEF Unanswered
    <3>3. ASSUME NEW i \in 1..Len(opening'), i > 1 \/ ~withdrawing PROVE opening'[i] \in subs'
        BY <2>2, <3>1, <3>3
    <3>4. ASSUME NEW i \in 1..Len(opening'), NEW j \in 1..Len(opening'),
                 opening'[i].cam = opening'[j].cam, opening'[i].callid = opening'[j].callid
          PROVE  i = j
        BY <3>1, <3>2, <3>4
    <3> QED BY <2>1, <2>2, <3>3, <3>4
  <2> QED BY <1>2, <2>3, <2>4 DEF AttachBuffer
<1>3. ASSUME NEW c \in Camera, NEW k \in CallId, RemoveSubstream(c, k) PROVE OpenControl'
  <2>1. subs' = subs \ Subscribed(c, k) /\ UNCHANGED <<buffer, opening, withdrawing>>
        /\ call'.pc = "unsubscribe"
      BY <1>3 DEF RemoveSubstream, Idle
  <2>2. \A i \in 1..Len(opening) : opening[i] \notin Subscribed(c, k)
      BY <1>3 DEF RemoveSubstream, Unanswered, Subscribed
  <2> QED BY <2>1, <2>2
<1>4. CASE RemoveSender
  <2>1. UNCHANGED <<buffer, subs, opening, withdrawing>>
      BY <1>4 DEF RemoveSender
  <2>2. \/ call'.pc = "idle"
        \/ /\ call'.pc = "stop" /\ call'.cam = call.cam
           /\ \A q \in subs : q.cam # call.cam
      BY <1>4 DEF RemoveSender, Idle, DataTypeOK, CallState
  <2> QED BY <2>1, <2>2 DEF Unanswered
<1>5. CASE Unregister
  <2>1. UNCHANGED <<subs, opening, withdrawing>> /\ call'.pc = "idle"
      BY <1>5 DEF Unregister, Idle
  <2>2. \A q \in subs : q.cam # call.cam
      BY <1>5 DEF Unregister
  <2>3. \A q \in subs : buffer'[q.cam] = buffer[q.cam]
      BY <1>5, <2>2, RequestFields DEF Unregister, DataTypeOK
  <2> QED BY <2>1, <2>3
<1>6. CASE OpenSucceeds \/ Withdraw
  <2>1. opening # <<>> /\ opening' = Tail(opening) /\ UNCHANGED <<buffer, subs, call>>
      BY <1>6 DEF OpenSucceeds, Withdraw, CallControl
  <2>2. \A i \in 1..Len(opening') :
            i + 1 \in 1..Len(opening) /\ opening'[i] = opening[i + 1] /\ i + 1 > 1
      BY <2>1, OpenLeaves
  <2>3. Unanswered(call.cam, buffer[call.cam].callid)'
            => Unanswered(call.cam, buffer[call.cam].callid)
      BY <2>1, <2>2 DEF Unanswered
  <2>4. ASSUME NEW i \in 1..Len(opening') PROVE opening'[i] \in subs
      BY <2>2
  <2>5. ASSUME NEW i \in 1..Len(opening'), NEW j \in 1..Len(opening'),
               opening'[i].cam = opening'[j].cam, opening'[i].callid = opening'[j].callid
        PROVE  i = j
    <3>1. i + 1 = j + 1
        BY <2>2, <2>5
    <3> QED BY <3>1
  <2> QED BY <2>1, <2>3, <2>4, <2>5
<1>7. CASE OpenFails
  <2> DEFINE r == Head(opening)
  <2>1. r = opening[1] /\ 1 \in 1..Len(opening)
    <3>1. Len(opening) \in Nat \ {0} /\ r = opening[1]
        BY <1>7, TailElements DEF OpenFails, DataTypeOK
    <3> QED BY <3>1
  <2>2. subs' = subs \ Subscribed(r.cam, r.callid) /\ withdrawing'
        /\ UNCHANGED <<buffer, opening, call>>
      BY <1>7 DEF OpenFails
  <2>3. ASSUME NEW i \in 1..Len(opening), i > 1 PROVE opening[i] \in subs'
    <3>1. i # 1 /\ opening[i] \in subs
        BY <2>3
    <3>2. opening[i] \notin Subscribed(r.cam, r.callid)
        BY <2>1, <3>1 DEF Subscribed
    <3> QED BY <2>2, <3>1, <3>2
  <2> QED BY <2>2, <2>3 DEF Unanswered
<1>8. ASSUME UNCHANGED <<buffer, subs, opening, withdrawing>>,
             call'.pc = "add" => call.pc = "add" /\ call'.cam = call.cam,
             call'.pc \in {"stop", "remove", "clear"} =>
                call.pc \in {"stop", "remove", "clear"} /\ call'.cam = call.cam
      PROVE  OpenControl'
    BY <1>8 DEF Unanswered
<1>9. ASSUME NEW t \in Thread, AskSize(t) \/ FindBuffer(t) PROVE OpenControl'
    BY <1>8, <1>9 DEF AskSize, FindBuffer, DataTypeOK, CallState
<1>10. CASE StopPreview \/ ClearSenders
    BY <1>8, <1>10 DEF StopPreview, ClearSenders, DataTypeOK, CallState
<1>11. CASE UNCHANGED <<buffer, subs, opening, withdrawing, call>>
    BY <1>8, <1>11
<1> QED BY <1>1, <1>2, <1>3, <1>4, <1>5, <1>6, <1>7, <1>9, <1>10, <1>11
    DEF Next, SdkStep, ReadBuffer, PushPacket, PoolStep, StartRound, SendPacket, EndRound,
        PopPacket, SkipBuffer, ClientCall, CloseUnknown, CallStep, TaskStep, vars

-----------------------------------------------------------------------------
(* The theorems *)

LEMMA PathInductive == Spec => []PathInv
<1>1. PathInv /\ [Next]_vars => PathInv'
    BY PathType, StepControl, StepOwn, StepRound, StepAttached, StepSends DEF PathInv
<1> QED BY PathInit, <1>1, PTL DEF Spec

\* The variables keep their types, in every system of cameras, calls and threads.
THEOREM DataTypeCorrect == Spec => []DataTypeOK
<1>1. PathInv => DataTypeOK
    BY DEF PathInv
<1> QED BY <1>1, PathInductive, PTL

\* A buffer is attached to one thread of the pool at most, under the id it was made
\* for, and only while its camera is registered (ThreadPool::addBuffer,
\* ThreadPool::removeBuffer).
THEOREM BuffersAttachedOnce == Spec => []AttachedOnce
<1>1. PathInv => AttachedOnce
    BY DEF PathInv
<1> QED BY <1>1, PathInductive, PTL

\* The pool sends only through senders that are there, from buffers it owns, for
\* cameras that are registered: removeBuffer and removeSender wait for the sending.
THEOREM SendingIsRegistered == Spec => []SendsForRegistered
<1>1. PathInv => SendsForRegistered
    BY DEF PathInv
<1> QED BY <1>1, PathInductive, PTL

\* The message thread opens no stream that left meanwhile: as long as its open waits or
\* runs, the close of another call never finds the stream without substreams.
THEOREM OpenFindsStream == Spec => []OpensFindTheirStream
<1>1. Init => OpenControl
    BY DEF Init, OpenControl, Idle
<1>2. PathInv /\ OpenControl => OpensFindTheirStream
    BY DEF OpenControl, OpensFindTheirStream
<1>3. PathInv /\ OpenControl /\ [Next]_vars => OpenControl'
    BY StepOpen
<1> QED BY PathInductive, <1>1, <1>2, <1>3, PTL DEF Spec

\* The map a thread of the pool walks over does not change until the walk ends.
THEOREM MapIsStable == Spec => MapStableInRound
<1>1. PathInv /\ [Next]_vars =>
        \A t \in Thread : pool[t].pc \in {"loop", "send"} => attached'[t] = attached[t]
  <2> SUFFICES ASSUME PathInv, [Next]_vars,
                      NEW t \in Thread, pool[t].pc \in {"loop", "send"}
               PROVE  attached'[t] = attached[t]
      OBVIOUS
  <2>0. DataTypeOK /\ RoundControl
      BY DEF PathInv
  <2>1. ASSUME NEW u \in Thread, AttachBuffer(u) PROVE attached'[t] = attached[t]
    <3>1. u # t
        BY <2>1 DEF AttachBuffer, PoolMutexFree
    <3> QED BY <2>0, <2>1, <3>1 DEF AttachBuffer, DataTypeOK
  <2>2. CASE ClearSenders
    <3>1. call.thread # t
        BY <2>0, <2>2 DEF ClearSenders, RoundControl
    <3> QED BY <2>0, <2>2, <3>1 DEF ClearSenders, DataTypeOK
  <2> QED BY <2>1, <2>2, AttachedSteps
<1> QED BY <1>1, PathInductive, PTL DEF Spec, MapStableInRound

-----------------------------------------------------------------------------
(* DataPath implements PacketChannel *)

\* What is in flight for a destination: nothing, or the packet its thread holds.
InFlightIs ==
    \A b \in Request :
        /\ (\A t \in Thread : ~(pool[t].pc = "send" /\ pool[t].buf = b)) => InFlight(b) = <<>>
        /\ \A t \in Thread : pool[t].pc = "send" /\ pool[t].buf = b =>
               InFlight(b) = <<pool[t].pkt>>

\* A buffer is attached once, so one thread at most sends from it.
LEMMA OneSender == PathInv => InFlightIs
<1> SUFFICES ASSUME PathInv, NEW b \in Request PROVE
        /\ (\A t \in Thread : ~(pool[t].pc = "send" /\ pool[t].buf = b)) => InFlight(b) = <<>>
        /\ \A t \in Thread : pool[t].pc = "send" /\ pool[t].buf = b =>
               InFlight(b) = <<pool[t].pkt>>
    BY DEF InFlightIs
<1>1. (\A t \in Thread : ~(pool[t].pc = "send" /\ pool[t].buf = b)) => InFlight(b) = <<>>
    BY DEF InFlight, DestsMutexFree
<1>2. ASSUME NEW t \in Thread, pool[t].pc = "send", pool[t].buf = b
      PROVE  InFlight(b) = <<pool[t].pkt>>
  <2> DEFINE u == CHOOSE u \in Thread : pool[u].pc = "send" /\ pool[u].buf = b
  <2>1. u \in Thread /\ pool[u].pc = "send" /\ pool[u].buf = b
      BY <1>2
  <2>2. /\ attached[t][b.cam] = b /\ attached[u][b.cam] = b
        /\ b.cam \in Camera /\ b # NoRequest
      BY <1>2, <2>1, RequestFields, NoneAssumption DEF PathInv, SendsForRegistered
  <2>3. u = t
      BY <2>1, <2>2 DEF PathInv, AttachedOnce
  <2>4. InFlight(b) = <<pool[u].pkt>>
      BY <1>2 DEF InFlight, DestsMutexFree
  <2> QED BY <2>3, <2>4
<1> QED BY <1>1, <1>2

LEMMA OneSenderNext == PathInv' => InFlightIs'
BY OneSender, PTL

\* Whoever sends goes on, and nobody else starts.
SendersGoOn ==
    \A t \in Thread : /\ pool'[t].pc = "send" <=> pool[t].pc = "send"
                      /\ pool[t].pc = "send" => /\ pool'[t].buf = pool[t].buf
                                                /\ pool'[t].pkt = pool[t].pkt

LEMMA FlightKept ==
    ASSUME PathInv, PathInv', SendersGoOn, NEW b \in Request
    PROVE  InFlight(b)' = InFlight(b)
<1>1. InFlightIs /\ InFlightIs'
    BY OneSender, OneSenderNext
<1>2. CASE \A t \in Thread : ~(pool[t].pc = "send" /\ pool[t].buf = b)
    BY <1>1, <1>2 DEF InFlightIs, SendersGoOn
<1>3. ASSUME NEW t \in Thread, pool[t].pc = "send", pool[t].buf = b
      PROVE  InFlight(b)' = InFlight(b)
    BY <1>1, <1>3 DEF InFlightIs, SendersGoOn
<1> QED BY <1>2, <1>3

\* Steps that leave packetQueue_ and the sending alone do not change the backlog.
LEMMA BacklogKept ==
    ASSUME PathInv, PathInv', SendersGoOn, UNCHANGED packets
    PROVE  Backlog' = Backlog
<1>1. \A b \in Request : InFlight(b)' = InFlight(b)
    BY FlightKept
<1> QED BY <1>1 DEF Backlog

LEMMA PoolKept == ASSUME UNCHANGED pool PROVE SendersGoOn
BY DEF SendersGoOn

-----------------------------------------------------------------------------
(* The steps of the channel *)

\* A push is an accepted packet.
LEMMA PushAccepts ==
    ASSUME PathInv, PathInv', NEW c \in Camera, PushPacket(c)
    PROVE  Channel!Accept(sdk[c])
<1>0. PICK b \in Request : b = sdk[c]
    BY DEF PushPacket, PathInv, DataTypeOK
<1>1. packets \in [Request -> Seq(Nat)] /\ made' \in Nat
    BY DEF PushPacket, PathInv, DataTypeOK
<1>2. \A d \in Request : InFlight(d)' = InFlight(d) /\ InFlight(d) \in Seq(Nat)
  <2>1. SendersGoOn
      BY PoolKept DEF PushPacket
  <2>2. \A d \in Request : InFlight(d)' = InFlight(d)
      BY <2>1, FlightKept
  <2>3. ASSUME NEW d \in Request PROVE InFlight(d) \in Seq(Nat)
    <3>1. CASE \A t \in Thread : ~(pool[t].pc = "send" /\ pool[t].buf = d)
      <4>1. InFlight(d) = <<>>
          BY <3>1, OneSender DEF InFlightIs
      <4> QED BY <4>1
    <3>2. ASSUME NEW t \in Thread, pool[t].pc = "send", pool[t].buf = d
          PROVE  InFlight(d) \in Seq(Nat)
      <4>1. pool[t].pkt \in Nat
          BY <3>2, ThreadFields DEF PathInv, DataTypeOK
      <4>2. InFlight(d) = <<pool[t].pkt>>
          BY <3>2, OneSender DEF InFlightIs
      <4> QED BY <4>1, <4>2
    <3> QED BY <3>1, <3>2
  <2> QED BY <2>2, <2>3
<1>3. Backlog' = [Backlog EXCEPT ![b] = Append(@, made')]
  <2>1. Backlog'[b] = Append(Backlog[b], made')
    <3>1. packets'[b] = Append(packets[b], made')
        BY <1>0, <1>1 DEF PushPacket
    <3>2. InFlight(b) \o Append(packets[b], made') = Append(InFlight(b) \o packets[b], made')
        BY <1>1, <1>2, PushBehind
    <3> QED BY <1>1, <1>2, <3>1, <3>2 DEF Backlog
  <2>2. ASSUME NEW d \in Request, d # b PROVE Backlog'[d] = Backlog[d]
      BY <1>0, <1>1, <1>2, <2>2 DEF Backlog, PushPacket
  <2> QED BY <1>1, <2>1, <2>2 DEF Backlog
<1> QED BY <1>0, <1>3 DEF Channel!Accept, PushPacket

\* A pop takes the packet from the queue into the hands of the thread.
LEMMA PopHolds ==
    ASSUME PathInv, PathInv', NEW t \in Thread, NEW c \in Camera, PopPacket(t, c)
    PROVE  Backlog' = Backlog
<1>0. PICK b \in Request : b = attached[t][c]
    BY DEF PopPacket, PathInv, RoundControl, Buffers, DataTypeOK
<1>1. /\ packets[b] \in Seq(Nat) /\ packets[b] # <<>>
      /\ DestsMutexFree(b)
    BY <1>0 DEF PopPacket, PathInv, DataTypeOK
<1>2. /\ pool'[t].pc = "send" /\ pool'[t].buf = b /\ pool'[t].pkt = Head(packets[b])
      /\ \A u \in Thread : u # t => pool'[u] = pool[u]
    BY <1>0 DEF PopPacket, PathInv, DataTypeOK
<1>3. InFlightIs /\ InFlightIs'
    BY OneSender, OneSenderNext
<1>4. Backlog'[b] = Backlog[b]
  <2>1. InFlight(b) = <<>>
      BY <1>1, <1>3 DEF DestsMutexFree, InFlightIs
  <2>2. InFlight(b)' = <<Head(packets[b])>>
      BY <1>1, <1>2, <1>3 DEF InFlightIs
  <2>3. packets'[b] = Tail(packets[b])
      BY <1>0, <1>1 DEF PopPacket, PathInv, DataTypeOK
  <2>4. <<Head(packets[b])>> \o Tail(packets[b]) = packets[b] /\ <<>> \o packets[b] = packets[b]
      BY <1>1, PopAndHold, NothingHeld
  <2> QED BY <1>1, <2>1, <2>2, <2>3, <2>4 DEF Backlog
<1>5. ASSUME NEW d \in Request, d # b PROVE Backlog'[d] = Backlog[d]
  <2>1. packets'[d] = packets[d]
      BY <1>0, <1>5 DEF PopPacket, PathInv, DataTypeOK
  <2>2. InFlight(d)' = InFlight(d)
    <3>1. ~(pool[t].pc = "send")
        BY DEF PopPacket
    <3>2. CASE \A u \in Thread : ~(pool[u].pc = "send" /\ pool[u].buf = d)
      <4>1. \A u \in Thread : ~(pool'[u].pc = "send" /\ pool'[u].buf = d)
          BY <1>2, <1>5, <3>2
      <4> QED BY <1>3, <3>2, <4>1 DEF InFlightIs
    <3>3. ASSUME NEW u \in Thread, pool[u].pc = "send", pool[u].buf = d
          PROVE  InFlight(d)' = InFlight(d)
      <4>1. pool'[u] = pool[u]
          BY <1>2, <3>1, <3>3
      <4> QED BY <1>3, <3>3, <4>1 DEF InFlightIs
    <3> QED BY <3>2, <3>3
  <2> QED BY <2>1, <2>2 DEF Backlog
<1> QED BY <1>4, <1>5 DEF Backlog

\* The end of the sending is the delivery.
LEMMA SendDelivers ==
    ASSUME PathInv, PathInv', NEW t \in Thread, SendPacket(t)
    PROVE  Channel!Deliver(pool[t].buf)
<1>0. PICK b \in Request, e \in Nat : b = pool[t].buf /\ e = pool[t].pkt
    BY ThreadFields DEF SendPacket, PathInv, DataTypeOK
<1>1. /\ packets \in [Request -> Seq(Nat)]
      /\ pool[t].pc = "send"
    BY DEF SendPacket, PathInv, DataTypeOK
<1>2. /\ pool'[t].pc = "loop"
      /\ \A u \in Thread : u # t => pool'[u] = pool[u]
    BY PacketSent DEF SendPacket, PathInv, DataTypeOK
<1>3. InFlightIs /\ InFlightIs'
    BY OneSender, OneSenderNext
<1>4. b \in senders
    BY <1>0, <1>1 DEF PathInv, SendsForRegistered
<1>5. Backlog[b] = <<e>> \o packets[b]
    BY <1>0, <1>1, <1>3 DEF InFlightIs, Backlog
<1>6. Backlog[b] # <<>> /\ Head(Backlog[b]) = e /\ Tail(Backlog[b]) = packets[b]
    BY <1>1, <1>5, HeldInFront
<1>7. \A u \in Thread : u # t => ~(pool[u].pc = "send" /\ pool[u].buf = b)
  <2> SUFFICES ASSUME NEW u \in Thread, pool[u].pc = "send", pool[u].buf = b PROVE u = t
      OBVIOUS
  <2>1. /\ attached[t][b.cam] = b /\ attached[u][b.cam] = b
        /\ b.cam \in Camera /\ b # NoRequest
      BY <1>0, <1>1, RequestFields, NoneAssumption DEF PathInv, SendsForRegistered
  <2> QED BY <2>1 DEF PathInv, AttachedOnce
<1>8. Backlog'[b] = packets[b]
  <2>1. InFlight(b)' = <<>>
    <3>1. \A u \in Thread : ~(pool'[u].pc = "send" /\ pool'[u].buf = b)
        BY <1>2, <1>7
    <3> QED BY <1>1, <1>3, <3>1 DEF InFlightIs
  <2>2. <<>> \o packets[b] = packets[b]
      BY <1>1, NothingHeld
  <2> QED BY <1>1, <2>1, <2>2 DEF Backlog, SendPacket
<1>9. ASSUME NEW d \in Request, d # b PROVE Backlog'[d] = Backlog[d]
  <2>1. InFlight(d)' = InFlight(d)
    <3>1. CASE \A u \in Thread : ~(pool[u].pc = "send" /\ pool[u].buf = d)
      <4>1. \A u \in Thread : ~(pool'[u].pc = "send" /\ pool'[u].buf = d)
          BY <1>2, <3>1
      <4> QED BY <1>3, <3>1, <4>1 DEF InFlightIs
    <3>2. ASSUME NEW u \in Thread, pool[u].pc = "send", pool[u].buf = d
          PROVE  InFlight(d)' = InFlight(d)
      <4>1. pool'[u] = pool[u]
          BY <1>0, <1>2, <1>9, <3>2
      <4> QED BY <1>3, <3>2, <4>1 DEF InFlightIs
    <3> QED BY <3>1, <3>2
  <2> QED BY <2>1 DEF Backlog, SendPacket
<1>10. Backlog' = [Backlog EXCEPT ![b] = Tail(@)]
    BY <1>1, <1>6, <1>8, <1>9 DEF Backlog
<1>11. sent' = [sent EXCEPT ![b] = Append(@, Head(Backlog[b]))]
    BY <1>0, <1>6 DEF SendPacket
<1> QED BY <1>0, <1>4, <1>6, <1>10, <1>11 DEF Channel!Deliver, SendPacket

\* Every other step takes senders away, adds one, or is not seen.
LEMMA StepChannel == PathInv /\ PathInv' /\ [Next]_vars => [Channel!Next]_(Channel!chanVars)
<1> SUFFICES ASSUME PathInv, PathInv', [Next]_vars
             PROVE  Channel!Next \/ UNCHANGED Channel!chanVars
    OBVIOUS
<1>0. DataTypeOK
    BY DEF PathInv
<1>1. ASSUME NEW c \in Camera, SdkStep(c) PROVE Channel!Next \/ UNCHANGED Channel!chanVars
  <2>1. CASE ReadBuffer(c)
    <3>1. Backlog' = Backlog
        BY <2>1, PoolKept, BacklogKept DEF ReadBuffer
    <3> QED BY <2>1, <3>1 DEF ReadBuffer, Channel!chanVars
  <2>2. CASE PushPacket(c)
    <3>1. sdk[c] \in Request
        BY <1>0, <2>2 DEF PushPacket, DataTypeOK
    <3> QED BY <2>2, <3>1, PushAccepts DEF Channel!Next
  <2> QED BY <1>1, <2>1, <2>2 DEF SdkStep
<1>2. ASSUME NEW t \in Thread, PoolStep(t) PROVE Channel!Next \/ UNCHANGED Channel!chanVars
  <2>1. CASE StartRound(t) \/ EndRound(t) \/ \E c \in Camera : SkipBuffer(t, c)
    <3>1. pool[t].pc # "send" /\ pool'[t].pc # "send"
      <4>1. CASE StartRound(t)
          BY <1>0, <4>1, RoundStarts DEF StartRound
      <4>2. CASE EndRound(t)
          BY <1>0, <4>2, RoundEnds DEF EndRound
      <4>3. ASSUME NEW c \in Camera, SkipBuffer(t, c)
            PROVE  pool[t].pc # "send" /\ pool'[t].pc # "send"
          BY <1>0, <4>3 DEF SkipBuffer, DataTypeOK, ThreadState
      <4> QED BY <2>1, <4>1, <4>2, <4>3
    <3>2. \A u \in Thread : u # t => pool'[u] = pool[u]
        BY <1>0, <2>1 DEF StartRound, EndRound, SkipBuffer, DataTypeOK
    <3>3. SendersGoOn
        BY <3>1, <3>2 DEF SendersGoOn
    <3>4. Backlog' = Backlog
        BY <2>1, <3>3, BacklogKept DEF StartRound, EndRound, SkipBuffer
    <3> QED BY <2>1, <3>4 DEF StartRound, EndRound, SkipBuffer, Channel!chanVars
  <2>2. ASSUME NEW c \in Camera, PopPacket(t, c) PROVE UNCHANGED Channel!chanVars
    <3>1. Backlog' = Backlog
        BY <2>2, PopHolds
    <3> QED BY <2>2, <3>1 DEF PopPacket, Channel!chanVars
  <2>3. CASE SendPacket(t)
    <3>1. pool[t].buf \in Request
        BY <1>0, <2>3, ThreadFields DEF SendPacket, DataTypeOK
    <3> QED BY <2>3, <3>1, SendDelivers DEF Channel!Next
  <2> QED BY <1>2, <2>1, <2>2, <2>3 DEF PoolStep
<1>3. CASE ClientCall
  <2>1. ASSUME NEW r \in Request, AddSubstream(r) PROVE Channel!Next
    <3> DEFINE gone == {b \in {buffer[r.cam]} \cap Request : ~Attached(b)}
    <3>1. Backlog' = Backlog
        BY <2>1, PoolKept, BacklogKept DEF AddSubstream
    <3>2. Channel!Join(r, gone)
        BY <2>1, <3>1 DEF AddSubstream, MayOpen, Channel!Join
    <3>3. gone \in SUBSET Request
        OBVIOUS
    <3> QED BY <3>2, <3>3 DEF Channel!Next
  <2>2. ASSUME NEW c \in Camera, NEW k \in CallId, RemoveSubstream(c, k)
        PROVE  UNCHANGED Channel!chanVars
    <3>1. Backlog' = Backlog
        BY <2>2, PoolKept, BacklogKept DEF RemoveSubstream
    <3> QED BY <2>2, <3>1 DEF RemoveSubstream, Channel!chanVars
  <2>3. ASSUME NEW c \in Camera, CloseUnknown(c) PROVE UNCHANGED Channel!chanVars
    <3>1. UNCHANGED <<pool, packets>>
        BY <2>3 DEF CloseUnknown, vars
    <3>2. Backlog' = Backlog
        BY <3>1, PoolKept, BacklogKept
    <3> QED BY <2>3, <3>2 DEF CloseUnknown, vars, Channel!chanVars
  <2> QED BY <1>3, <2>1, <2>2, <2>3 DEF ClientCall
<1>4. CASE CallStep
  <2>1. ASSUME NEW t \in Thread, AskSize(t) \/ FindBuffer(t) PROVE UNCHANGED Channel!chanVars
    <3>1. Backlog' = Backlog
        BY <2>1, PoolKept, BacklogKept DEF AskSize, FindBuffer
    <3> QED BY <2>1, <3>1 DEF AskSize, FindBuffer, Channel!chanVars
  <2>2. ASSUME NEW t \in Thread, AttachBuffer(t) PROVE UNCHANGED Channel!chanVars
    <3>1. pool[t].pc # "send" /\ pool'[t].pc # "send"
          /\ \A u \in Thread : u # t => pool'[u] = pool[u]
        BY <1>0, <2>2 DEF AttachBuffer, PoolMutexFree, DataTypeOK, ThreadState
    <3>2. SendersGoOn
        BY <3>1 DEF SendersGoOn
    <3>3. Backlog' = Backlog
        BY <2>2, <3>2, BacklogKept DEF AttachBuffer
    <3> QED BY <2>2, <3>3 DEF AttachBuffer, Channel!chanVars
  <2>3. CASE StopPreview
    <3>1. Backlog' = Backlog
        BY <2>3, PoolKept, BacklogKept DEF StopPreview
    <3> QED BY <2>3, <3>1 DEF StopPreview, Channel!chanVars
  <2>4. CASE RemoveSender
    <3> DEFINE gone == {q \in {buffer[call.cam]} \cap Request : q.callid = call.callid}
    <3>1. Backlog' = Backlog
        BY <2>4, PoolKept, BacklogKept DEF RemoveSender
    <3>2. Channel!Leave(gone)
        BY <2>4, <3>1 DEF RemoveSender, DropSender, Channel!Leave
    <3>3. gone \in SUBSET Request
        OBVIOUS
    <3> QED BY <3>2, <3>3 DEF Channel!Next
  <2>5. CASE ClearSenders
    <3> DEFINE gone == {attached[call.thread][call.cam]}
    <3>1. Backlog' = Backlog
        BY <2>5, PoolKept, BacklogKept DEF ClearSenders
    <3>2. Channel!Leave(gone)
        BY <2>5, <3>1 DEF ClearSenders, Channel!Leave
    <3>3. gone \in SUBSET Request
        BY <1>0, <2>5 DEF ClearSenders, PathInv, CallControl, DataTypeOK
    <3> QED BY <3>2, <3>3 DEF Channel!Next
  <2>6. CASE Unregister
    <3> DEFINE gone == {buffer[call.cam]}
    <3>1. Backlog' = Backlog
        BY <2>6, PoolKept, BacklogKept DEF Unregister
    <3>2. Channel!Leave(gone)
        BY <2>6, <3>1 DEF Unregister, Channel!Leave
    <3>3. gone \in SUBSET Request
        BY <1>0, <2>6 DEF Unregister, PathInv, CallControl, DataTypeOK
    <3> QED BY <3>2, <3>3 DEF Channel!Next
  <2> QED BY <1>4, <2>1, <2>2, <2>3, <2>4, <2>5, <2>6 DEF CallStep
<1>5. CASE TaskStep
  <2>1. Backlog' = Backlog
      BY <1>5, PoolKept, BacklogKept DEF TaskStep, OpenSucceeds, OpenFails, Withdraw
  <2>2. CASE OpenSucceeds \/ OpenFails
      BY <2>1, <2>2 DEF OpenSucceeds, OpenFails, Channel!chanVars
  <2>3. CASE Withdraw
    <3> DEFINE gone == {q \in {buffer[Head(opening).cam]} \cap Request :
                           q.callid = Head(opening).callid}
    <3>1. Channel!Leave(gone)
        BY <2>1, <2>3 DEF Withdraw, DropSender, Channel!Leave
    <3>2. gone \in SUBSET Request
        OBVIOUS
    <3> QED BY <3>1, <3>2 DEF Channel!Next
  <2> QED BY <1>5, <2>2, <2>3 DEF TaskStep
<1>6. CASE UNCHANGED vars
  <2>1. Backlog' = Backlog
      BY <1>6, PoolKept, BacklogKept DEF vars
  <2> QED BY <1>6, <2>1 DEF vars, Channel!chanVars
<1> QED BY <1>1, <1>2, <1>3, <1>4, <1>5, <1>6 DEF Next

\* Nothing is in flight at the start.
LEMMA ChannelInit == Init => Channel!Init
<1> SUFFICES ASSUME Init PROVE Channel!Init
    OBVIOUS
<1>1. \A b \in Request : InFlight(b) = <<>>
  <2>1. \A t \in Thread : pool[t].pc # "send"
      BY DEF Init, AtLock
  <2> QED BY <2>1 DEF InFlight, DestsMutexFree
<1>2. \A b \in Request : Backlog[b] = <<>>
    BY <1>1 DEF Backlog, Init
<1>3. Backlog = [b \in Request |-> <<>>]
    BY <1>2 DEF Backlog
<1> QED BY <1>3 DEF Init, Channel!Init

-----------------------------------------------------------------------------
\* Whatever the number of cameras, calls and threads, a destination gets the packets
\* pushed to its buffer in order, once, and only while it has its sender.
THEOREM DataPathImplementsChannel == Spec => ImplementsChannel
BY PathInductive, ChannelInit, StepChannel, PTL DEF Spec, ImplementsChannel, Channel!Spec
=============================================================================
