----------------------- MODULE StreamManager_handles -----------------------
(* TLAPS proofs about StreamManager and the play handles: what a close may rely *)
(* on although a SdkUser never forgets its last handle.  Clients are patient.   *)
EXTENDS StreamManager_patient, FiniteSetTheorems

-----------------------------------------------------------------------------
(* The handles.  While the SDK gives no handle out again, a handle belongs to    *)
(* the open that got it for ever, and what a close finds in the SdkUser of its   *)
(* camera is the handle of its own preview or a dead one, whatever plays and     *)
(* stops failed before.                                                          *)

\* The opener has a handle that its SdkUser does not know yet.
Busy(h) == opener.pc = "setHandle" /\ opener.handle = h

\* No two cameras remember one handle.
OwnHandle(c) ==
    sdkusers[c] \in Handle =>
        /\ preview[sdkusers[c]] # "unused"
        /\ ~Busy(sdkusers[c])
        /\ \A d \in Camera : sdkusers[d] = sdkusers[c] => d = c
        /\ pUser[sdkusers[c]] # NoRequest => pUser[sdkusers[c]].cam = c

UserHandles == \A c \in Camera : OwnHandle(c)

\* A handle has a user from its play to its stop.
HandleUse ==
    \A h \in Handle :
        /\ preview[h] = "unused" => cbMap[h] = NoRequest /\ pUser[h] = NoRequest
        /\ Running(h) => pUser[h] # NoRequest

\* The open in progress plays under one handle at most, which is its alone.
OpenPlays ==
    /\ opener.pc \in {"login", "play"} => \A h \in Handle : pUser[h] # opener.req
    /\ opener.pc \in {"setHandle", "register"} =>
         /\ preview[opener.handle] = "playing"
         /\ cbMap[opener.handle] = NoRequest
         /\ \A h \in Handle : pUser[h] = opener.req <=> h = opener.handle
    /\ opener.pc = "register" => sdkusers[opener.req.cam] = opener.handle

\* A preview that runs, and that the SDK has not refused to stop.
Live(h) == Running(h) /\ h \notin refused

\* What is live plays for a registered stream, under the handle a close will find.
LivePreviews ==
    \A h \in Handle : Live(h) =>
        /\ pUser[h] \in Request \ freed
        /\ streams[pUser[h].cam] = pUser[h]
        /\ sdkusers[pUser[h].cam] = h \/ Busy(h)

\* What cbMap_ holds is the callback of a registered stream, under the handle a
\* close will find, and no other preview calls it.
RegisteredCallbacks ==
    \A h \in Handle : cbMap[h] # NoRequest =>
        /\ streams[cbMap[h].cam] = cbMap[h]
        /\ sdkusers[cbMap[h].cam] = h
        /\ \A g \in Handle : pUser[g] = cbMap[h] => g = h

\* What the close in progress has done to the previews and callbacks of its camera.
ClosingHandles ==
    /\ closer.pc = "erase" /\ ClosingHandle \in Handle => ~Live(ClosingHandle)
    /\ ice.pc = "unregister" => \A h \in Handle :
         /\ Live(h) => pUser[h].cam # ice.cam
         /\ cbMap[h] # NoRequest => cbMap[h].cam # ice.cam

\* The open of the stream of a camera has succeeded.
Opened(c) ==
    /\ streams[c] # NoRequest
    /\ reply[streams[c]] = <<"ok">> \/ (task.req = streams[c] /\ task.pc = "opened")

\* A stream that was opened plays, and its close will find its callback.
OpenedStreams ==
    \A c \in Camera : Opened(c) /\ ice.cam # c
        => /\ sdkusers[c] \in Handle /\ preview[sdkusers[c]] = "playing"
           /\ pUser[sdkusers[c]] = streams[c] /\ cbMap[sdkusers[c]] = streams[c]

HandleInv ==
    /\ UserHandles
    /\ HandleUse
    /\ OpenPlays
    /\ LivePreviews
    /\ RegisteredCallbacks
    /\ ClosingHandles
    /\ OpenedStreams

LEMMA InitHandles == Init => HandleInv
<1> SUFFICES ASSUME Init PROVE HandleInv
    OBVIOUS
<1>1. UserHandles /\ HandleUse /\ OpenPlays
    BY NoneAssumption DEF Init, HikInit, UserHandles, OwnHandle, HandleUse, Running, OpenPlays, NotOpening
<1>2. LivePreviews /\ RegisteredCallbacks /\ ClosingHandles /\ OpenedStreams
    BY DEF Init, HikInit, LivePreviews, Live, Running, RegisteredCallbacks, ClosingHandles,
           OpenedStreams, Opened, NotClosing, IceIdle
<1> QED BY <1>1, <1>2 DEF HandleInv

\* Where the open in progress comes from.
LEMMA OpenerFacts ==
    ASSUME PatientInv, opener.pc # "idle"
    PROVE  /\ opener.req \in Request /\ opener.req.cam \in Camera
           /\ task.pc = "opening" /\ task.req = opener.req
           /\ opener.req \in issued /\ reply[opener.req] = <<>>
           /\ streams[opener.req.cam] = opener.req
           /\ ice.pc \in {"closing", "stopping", "unregister"} => ice.cam # opener.req.cam
           /\ closer.pc # "idle" => closer.cam # opener.req.cam
           /\ opener.req \notin freed /\ \A h \in Handle : cbMap[h] # opener.req
           /\ opener.pc \in {"setHandle", "register"} => opener.handle \in Handle
<1>1. SMInv /\ Control /\ HikInv /\ CallsInProgress /\ NoDoubleFree
    BY DEF PatientInv, SMInv, HikInv
<1>2. task.pc = "opening" /\ task.req = opener.req /\ opener.req \in Request
    BY <1>1 DEF Control
<1>3. opener.req \in issued /\ reply[opener.req] = <<>>
    BY <1>1, <1>2, OwnedIsPending
<1>4. /\ streams[opener.req.cam] = opener.req
      /\ ice.pc \in {"closing", "stopping", "unregister"} => ice.cam # opener.req.cam
    BY <1>2, OpenKeepsOthersOut DEF Opening
<1> QED BY <1>1, <1>2, <1>3, <1>4, RequestFields DEF Control, CallsInProgress, NoDoubleFree

\* What the close in progress works on.
LEMMA CloserFacts ==
    ASSUME PatientInv, closer.pc # "idle"
    PROVE  /\ ice.pc = "stopping" /\ closer.cam = ice.cam /\ closer.cam \in Camera
           /\ ClosingHandle \in PlayHandle
BY DEF PatientInv, SMInv, HikInv, HikTypeOK, CallsInProgress, Control, ClosingHandle

\* The steps that work in the controller, which leave streams_ and the answers alone.
LEMMA ControllerSteps ==
    [Next]_vars =>
        \/ UNCHANGED hikVars
        \/ /\ \/ TaskBegin \/ TaskConnect \/ TaskOpened \/ TaskOpenFails
              \/ CloseFind \/ CloseMute \/ CloseStop \/ CloseErase
           /\ UNCHANGED <<streams, subs, reply, issued>>
BY DEF Next, ClientCall, OpenNew, OpenDuplicate, JoinStart, CloseUnknown, CloseKnown,
       IceStep, JoinFinish, CloseFind, CloseMute, CloseStop, CloseErase, Unregister,
       TaskStep, TaskBegin, TaskConnect, TaskOpened, TaskOpenFails, TaskReturn,
       TaskReplyOk, TaskUnsubscribe, TaskRemoveSender, TaskReplyFailed, TaskEnd, smVars, vars

\* The steps that change streams_, which leave the controller alone.
LEMMA StreamsSteps ==
    [Next]_vars =>
        \/ UNCHANGED streams
        \/ (\E r \in Request : OpenNew(r)) \/ Unregister
BY DEF Next, ClientCall, OpenDuplicate, JoinStart, CloseUnknown, CloseKnown,
       IceStep, JoinFinish, CloseFind, CloseMute, CloseStop, CloseErase,
       TaskStep, TaskBegin, TaskConnect, TaskOpened, TaskOpenFails, TaskReturn,
       TaskReplyOk, TaskUnsubscribe, TaskRemoveSender, TaskReplyFailed, TaskEnd, smVars, vars

\* A registered stream is replaced by none and goes only with its unregistration.
LEMMA StreamStays ==
    ASSUME SMInv, [Next]_vars, NEW m \in Request, streams[m.cam] = m,
           ~(Unregister /\ m.cam = ice.cam)
    PROVE  streams'[m.cam] = m
<1>0. TypeOK
    BY DEF SMInv
<1>1. ASSUME NEW r \in Request, OpenNew(r) PROVE streams'[m.cam] = m
    BY <1>0, <1>1, NoneAssumption, RequestFields DEF OpenNew, TypeOK
<1>2. CASE Unregister
    BY <1>0, <1>2, RequestFields DEF Unregister, TypeOK
<1> QED BY <1>1, <1>2, StreamsSteps

-----------------------------------------------------------------------------
(* Each part about the handles survives a step *)

\* What a step of the controller may assume of it.
LEMMA ControllerFacts ==
    ASSUME PatientInv, [Next]_vars
    PROVE  [HikNext]_hikVars /\ HikTypeOK /\ CallsInProgress /\ NoDoubleFree
BY StepUsesController DEF PatientInv, SMInv, HikInv

LEMMA StepUserHandles ==
    ~HandleReuse /\ PatientInv /\ HandleInv /\ [Next]_vars => UserHandles'
<1> SUFFICES ASSUME ~HandleReuse, PatientInv, HandleInv, [Next]_vars, NEW c \in Camera
             PROVE  OwnHandle(c)'
    BY DEF UserHandles
<1>0. /\ [HikNext]_hikVars /\ HikTypeOK /\ CallsInProgress /\ UserHandles /\ OpenPlays
    BY ControllerFacts DEF HandleInv
<1> USE <1>0, NoneAssumption, RequestFields
    DEF UserHandles, OwnHandle, HikTypeOK, Busy, sdkVars
<1>1. ASSUME UNCHANGED <<sdkusers, preview, pUser>>, opener'.pc # "setHandle" \/ opener' = opener
      PROVE  OwnHandle(c)'
    BY <1>1
<1>2. ASSUME NEW r \in Request, BeginOpen(r)
      PROVE  UNCHANGED <<sdkusers, preview, pUser>> /\ opener'.pc # "setHandle"
    BY <1>2 DEF BeginOpen
<1>3. AlreadyLoggedIn \/ LogInFails \/ PlayFails \/ RegisterCallback
        => UNCHANGED <<sdkusers, preview, pUser>> /\ opener'.pc # "setHandle"
    BY DEF AlreadyLoggedIn, LogInFails, PlayFails, RegisterCallback, NotOpening
<1>4. (\E d \in Camera : BeginClose(d)) \/ EraseCallback
        => UNCHANGED <<sdkusers, preview, pUser, opener>>
    BY DEF BeginClose, EraseCallback
<1>5. CASE LogIn
  <2>1. sdkusers' = [sdkusers EXCEPT ![opener.req.cam] = NoHandle] /\ opener'.pc # "setHandle"
        /\ UNCHANGED <<preview, pUser>>
      BY <1>5 DEF LogIn
  <2>2. \A d \in Camera : sdkusers'[d] \in {sdkusers[d], NoHandle}
      BY <2>1
  <2> QED BY <2>1, <2>2
<1>6. ASSUME NEW h \in Handle, Play(h)
      PROVE  OwnHandle(c)'
  <2>1. preview[h] = "unused" /\ sdkusers' = sdkusers /\ opener'.handle = h
        /\ preview' = [preview EXCEPT ![h] = "playing"]
        /\ pUser' = [pUser EXCEPT ![h] = opener.req]
      BY <1>6 DEF Play, FreeHandle
  <2>2. sdkusers[c] # h
      BY <2>1
  <2> QED BY <2>1, <2>2
<1>7. CASE SetPlayHandle
  <2> DEFINE g == opener.handle
             e == opener.req.cam
  <2>1. sdkusers' = [sdkusers EXCEPT ![e] = g] /\ e \in Camera /\ g \in Handle
        /\ Busy(g) /\ opener'.pc # "setHandle" /\ UNCHANGED <<preview, pUser>>
      BY <1>7 DEF SetPlayHandle, CallsInProgress
  <2>2. preview[g] = "playing" /\ pUser[g] = opener.req
      BY <1>7, <2>1 DEF SetPlayHandle, OpenPlays
  <2>3. \A d \in Camera : sdkusers[d] # g
      BY <2>1
  <2> QED BY <2>1, <2>2, <2>3
<1>8. CASE Mute
    BY <1>8 DEF Mute
<1>9. CASE Stop
    BY <1>9 DEF Stop
<1>10. CASE UNCHANGED hikVars
    BY <1>1, <1>10 DEF hikVars
<1> QED BY <1>1, <1>2, <1>3, <1>4, <1>5, <1>6, <1>7, <1>8, <1>9, <1>10
    DEF HikNext, OpenStep, CloseStep

LEMMA StepHandleUse ==
    ~HandleReuse /\ PatientInv /\ HandleInv /\ [Next]_vars => HandleUse'
<1> SUFFICES ASSUME ~HandleReuse, PatientInv, HandleInv, [Next]_vars PROVE HandleUse'
    OBVIOUS
<1>0. /\ [HikNext]_hikVars /\ HikTypeOK /\ CallsInProgress /\ HandleUse /\ OpenPlays
    BY ControllerFacts DEF HandleInv
<1> USE <1>0, NoneAssumption DEF HandleUse, HikTypeOK, Running
<1>1. CASE UNCHANGED <<preview, pUser, cbMap>>
    BY <1>1
<1>2. ASSUME NEW h \in Handle, Play(h) PROVE HandleUse'
    BY <1>2, OpenerFacts DEF Play
<1>3. CASE RegisterCallback
  <2>1. preview[opener.handle] = "playing"
        /\ \A h \in Handle : h # opener.handle => cbMap'[h] = cbMap[h]
      BY <1>3 DEF RegisterCallback, OpenPlays
  <2> QED BY <1>3, <2>1 DEF RegisterCallback, sdkVars
<1>4. CASE Mute
    BY <1>4 DEF Mute
<1>5. CASE Stop
    BY <1>5 DEF Stop
<1>6. CASE EraseCallback
    BY <1>6 DEF EraseCallback, sdkVars
<1> QED BY <1>1, <1>2, <1>3, <1>4, <1>5, <1>6
    DEF HikNext, OpenStep, CloseStep, BeginOpen, AlreadyLoggedIn, LogIn, LogInFails, PlayFails,
        SetPlayHandle, BeginClose, sdkVars, hikVars

LEMMA StepOpenPlays ==
    ~HandleReuse /\ PatientInv /\ HandleInv /\ [Next]_vars => OpenPlays'
<1> SUFFICES ASSUME ~HandleReuse, PatientInv, HandleInv, [Next]_vars PROVE OpenPlays'
    OBVIOUS
<1>0. /\ [HikNext]_hikVars /\ HikTypeOK /\ CallsInProgress /\ UserHandles /\ HandleUse
      /\ OpenPlays
    BY ControllerFacts DEF HandleInv
<1>c. ASSUME opener.pc \in {"setHandle", "register"}, closer.pc # "idle"
      PROVE  ClosingHandle # opener.handle
  <2>1. /\ opener.handle \in Handle /\ opener.req.cam \in Camera /\ closer.cam \in Camera
        /\ closer.cam # opener.req.cam
      BY <1>c, OpenerFacts, CloserFacts
  <2>2. CASE opener.pc = "setHandle"
      BY <1>0, <2>1, <2>2 DEF UserHandles, OwnHandle, Busy, ClosingHandle
  <2>3. CASE opener.pc = "register"
      BY <1>0, <2>1, <2>3 DEF UserHandles, OwnHandle, OpenPlays, ClosingHandle
  <2> QED BY <1>c, <2>2, <2>3
<1>f. opener.pc # "idle" => opener.req \in Request /\ opener.req.cam \in Camera
    BY OpenerFacts
<1> USE <1>0, <1>f, NoneAssumption DEF OpenPlays, HikTypeOK, CallsInProgress, sdkVars
<1>1. ASSUME NEW r \in Request, Fresh(r), BeginOpen(r) PROVE OpenPlays'
    BY <1>1 DEF BeginOpen, Fresh
<1>2. CASE AlreadyLoggedIn \/ LogIn
    BY <1>2 DEF AlreadyLoggedIn, LogIn
<1>3. CASE LogInFails \/ PlayFails \/ RegisterCallback
    BY <1>3 DEF LogInFails, PlayFails, RegisterCallback, NotOpening
<1>4. ASSUME NEW h \in Handle, Play(h) PROVE OpenPlays'
  <2>1. preview[h] = "unused" /\ cbMap[h] = NoRequest
      BY <1>4 DEF Play, FreeHandle, HandleUse
  <2> QED BY <1>4, <2>1 DEF Play
<1>5. CASE SetPlayHandle
    BY <1>5 DEF SetPlayHandle
<1>6. CASE Mute
    BY <1>6, <1>c DEF Mute
<1>7. CASE Stop
  <2>1. UNCHANGED <<opener, sdkusers, cbMap>> /\ closer.pc # "idle"
      BY <1>7 DEF Stop
  <2>2. /\ \A h \in Handle : pUser'[h] \in {pUser[h], NoRequest}
        /\ \A h \in Handle : h # ClosingHandle =>
             preview'[h] = preview[h] /\ pUser'[h] = pUser[h]
      BY <1>7 DEF Stop, Running
  <2>3. CASE opener.pc \in {"setHandle", "register"}
    <3>1. preview'[opener.handle] = preview[opener.handle]
          /\ pUser'[opener.handle] = pUser[opener.handle]
        BY <1>c, <2>1, <2>2, <2>3
    <3> QED BY <2>1, <2>2, <2>3, <3>1
  <2>4. CASE opener.pc \notin {"setHandle", "register"}
      BY <2>1, <2>2, <2>4
  <2> QED BY <2>3, <2>4
<1>8. CASE EraseCallback
    BY <1>8 DEF EraseCallback
<1>9. ASSUME NEW c \in Camera, BeginClose(c) PROVE OpenPlays'
    BY <1>9 DEF BeginClose
<1>10. CASE UNCHANGED hikVars
    BY <1>10 DEF hikVars
<1> QED BY <1>1, <1>2, <1>3, <1>4, <1>5, <1>6, <1>7, <1>8, <1>9, <1>10
    DEF HikNext, OpenStep, CloseStep

LEMMA StepLive ==
    ~HandleReuse /\ PatientInv /\ HandleInv /\ [Next]_vars => LivePreviews'
<1> SUFFICES ASSUME ~HandleReuse, PatientInv, HandleInv, [Next]_vars,
                    NEW h \in Handle, Live(h)'
             PROVE  /\ pUser'[h] \in Request \ freed'
                    /\ streams'[pUser'[h].cam] = pUser'[h]
                    /\ sdkusers'[pUser'[h].cam] = h
                       \/ (opener'.pc = "setHandle" /\ opener'.handle = h)
    BY DEF LivePreviews, Busy
<1>0. /\ HikTypeOK /\ CallsInProgress /\ UserHandles /\ HandleUse /\ OpenPlays
      /\ LivePreviews /\ RegisteredCallbacks /\ ClosingHandles /\ SMInv
    BY ControllerFacts DEF HandleInv, PatientInv
<1> USE DEF Live, Running
<1> DEFINE m == pUser[h]
\* The preview runs on as it did, for the stream it played for.
<1>1. ASSUME Live(h)
      PROVE  /\ m \in Request /\ m.cam \in Camera /\ m \notin freed
             /\ streams[m.cam] = m /\ (sdkusers[m.cam] = h \/ Busy(h))
    BY <1>0, <1>1, RequestFields DEF LivePreviews
<1>2. CASE UNCHANGED hikVars
  <2>1. Live(h) /\ UNCHANGED <<pUser, sdkusers, freed, opener>>
      BY <1>2 DEF hikVars, sdkVars
  <2>2. ~(Unregister /\ m.cam = ice.cam)
      BY <1>0, <2>1 DEF Unregister, ClosingHandles
  <2>3. streams'[m.cam] = m
      BY <1>0, <1>1, <2>1, <2>2, StreamStays
  <2> QED BY <1>1, <2>1, <2>3 DEF Busy
<1>3. ASSUME UNCHANGED streams, Live(h), pUser'[h] = pUser[h],
             UNCHANGED <<sdkusers, freed>>, opener.pc # "setHandle" \/ UNCHANGED opener
      PROVE  /\ pUser'[h] \in Request \ freed'
             /\ streams'[pUser'[h].cam] = pUser'[h]
             /\ sdkusers'[pUser'[h].cam] = h
                \/ (opener'.pc = "setHandle" /\ opener'.handle = h)
    BY <1>1, <1>3 DEF Busy
<1>4. CASE TaskBegin /\ UNCHANGED streams
    BY <1>3, <1>4 DEF TaskBegin, BeginOpen, sdkVars
<1>5. CASE TaskConnect /\ UNCHANGED streams
  <2>1. CASE AlreadyLoggedIn
      BY <1>3, <1>5, <2>1 DEF AlreadyLoggedIn, sdkVars
  <2>2. CASE LogIn
    <3>1. /\ Live(h) /\ UNCHANGED <<pUser, freed>> /\ ~Busy(h)
          /\ sdkusers[opener.req.cam] = NoUser
          /\ sdkusers' = [sdkusers EXCEPT ![opener.req.cam] = NoHandle]
        BY <2>2 DEF LogIn, Busy
    <3>2. sdkusers'[m.cam] = h
        BY <1>0, <1>1, <3>1, NoneAssumption DEF HikTypeOK
    <3> QED BY <1>1, <1>5, <3>1, <3>2
  <2>3. ASSUME NEW g \in Handle, Play(g)
        PROVE  /\ pUser'[h] \in Request \ freed'
               /\ streams'[pUser'[h].cam] = pUser'[h]
               /\ sdkusers'[pUser'[h].cam] = h
                  \/ (opener'.pc = "setHandle" /\ opener'.handle = h)
    <3>1. /\ preview' = [preview EXCEPT ![g] = "playing"]
          /\ pUser' = [pUser EXCEPT ![g] = opener.req]
          /\ opener'.pc = "setHandle" /\ opener'.handle = g
          /\ opener.pc = "play" /\ UNCHANGED <<sdkusers, refused, freed>>
        BY <1>0, <2>3 DEF Play, HikTypeOK
    <3>2. CASE h = g
      <4>1. /\ opener.req \in Request /\ opener.req \notin freed
            /\ streams[opener.req.cam] = opener.req
          BY <3>1, OpenerFacts
      <4>2. pUser'[h] = opener.req
          BY <1>0, <3>1, <3>2 DEF HikTypeOK
      <4> QED BY <1>5, <3>1, <3>2, <4>1, <4>2
    <3>3. CASE h # g
      <4>1. Live(h) /\ pUser'[h] = pUser[h] /\ opener.pc # "setHandle"
          BY <1>0, <3>1, <3>3 DEF HikTypeOK
      <4> QED BY <1>3, <1>5, <3>1, <4>1
    <3> QED BY <3>2, <3>3
  <2>4. CASE SetPlayHandle
    <3>1. /\ Live(h) /\ UNCHANGED <<pUser, freed>>
          /\ opener.pc = "setHandle"
          /\ sdkusers' = [sdkusers EXCEPT ![opener.req.cam] = opener.handle]
        BY <2>4 DEF SetPlayHandle, sdkVars
    <3>2. CASE m.cam = opener.req.cam
      <4>1. m = opener.req
          BY <1>1, <3>1, <3>2, OpenerFacts
      <4>2. h = opener.handle
          BY <1>0, <3>1, <4>1 DEF OpenPlays
      <4>3. sdkusers'[m.cam] = h
          BY <1>0, <1>1, <3>1, <3>2, <4>2 DEF HikTypeOK
      <4> QED BY <1>1, <1>5, <3>1, <4>3
    <3>3. CASE m.cam # opener.req.cam
      <4>1. ~Busy(h)
          BY <1>0, <3>1, <3>3 DEF OpenPlays, Busy
      <4>2. sdkusers'[m.cam] = h
          BY <1>0, <1>1, <3>1, <3>3, <4>1 DEF HikTypeOK
      <4> QED BY <1>1, <1>5, <3>1, <4>2
    <3> QED BY <3>2, <3>3
  <2> QED BY <1>5, <2>1, <2>2, <2>3, <2>4 DEF TaskConnect
<1>6. CASE (TaskOpened \/ TaskOpenFails) /\ UNCHANGED streams
    BY <1>3, <1>6 DEF TaskOpened, TaskOpenFails, RegisterCallback, LogInFails, PlayFails, sdkVars
<1>7. CASE CloseFind /\ UNCHANGED streams
    BY <1>3, <1>7 DEF CloseFind, BeginClose, sdkVars, hikVars
<1>8. CASE CloseMute /\ UNCHANGED streams
  <2>1. Mute /\ UNCHANGED <<pUser, sdkusers, freed, opener>>
      BY <1>8 DEF CloseMute, Mute
  <2>2. Live(h)
      BY <1>0, <2>1 DEF Mute, HikTypeOK
  <2> QED BY <1>3, <1>8, <2>1, <2>2
<1>9. CASE CloseStop /\ UNCHANGED streams
  <2>1. Stop /\ UNCHANGED <<sdkusers, freed, opener>>
      BY <1>9 DEF CloseStop, Stop
  <2>2. Live(h) /\ pUser'[h] = pUser[h]
      BY <1>0, <2>1 DEF Stop, HikTypeOK, Running
  <2> QED BY <1>3, <1>9, <2>1, <2>2
<1>10. CASE CloseErase /\ UNCHANGED streams
  <2> DEFINE g == ClosingHandle
  <2>1. /\ closer.pc = "erase" /\ Live(h)
        /\ UNCHANGED <<pUser, sdkusers, opener>>
        /\ \/ UNCHANGED freed
           \/ g \in Handle /\ cbMap[g] # NoRequest /\ freed' = freed \cup {cbMap[g]}
      BY <1>10 DEF CloseErase, EraseCallback, sdkVars
  <2>2. ASSUME g \in Handle, cbMap[g] # NoRequest, cbMap[g] = m PROVE FALSE
    <3>1. h = g
        BY <1>0, <2>2 DEF RegisteredCallbacks
    <3> QED BY <1>0, <2>1, <2>2, <3>1 DEF ClosingHandles
  <2>3. m \notin freed'
      BY <1>1, <2>1, <2>2
  <2> QED BY <1>1, <1>10, <2>1, <2>3 DEF Busy
<1> QED BY <1>2, <1>4, <1>5, <1>6, <1>7, <1>8, <1>9, <1>10, ControllerSteps

LEMMA StepRegistered ==
    ~HandleReuse /\ PatientInv /\ HandleInv /\ [Next]_vars => RegisteredCallbacks'
<1> SUFFICES ASSUME ~HandleReuse, PatientInv, HandleInv, [Next]_vars,
                    NEW h \in Handle, cbMap'[h] # NoRequest
             PROVE  /\ streams'[cbMap'[h].cam] = cbMap'[h]
                    /\ sdkusers'[cbMap'[h].cam] = h
                    /\ \A g \in Handle : pUser'[g] = cbMap'[h] => g = h
    BY DEF RegisteredCallbacks
<1>0. /\ HikTypeOK /\ CallsInProgress /\ UserHandles /\ HandleUse /\ OpenPlays
      /\ RegisteredCallbacks /\ ClosingHandles /\ SMInv
    BY ControllerFacts DEF HandleInv, PatientInv
<1> DEFINE x == cbMap[h]
\* The callback was there before.
<1>1. ASSUME x # NoRequest
      PROVE  /\ x \in Request /\ x.cam \in Camera /\ streams[x.cam] = x
             /\ sdkusers[x.cam] = h /\ \A g \in Handle : pUser[g] = x => g = h
    BY <1>0, <1>1, RequestFields DEF RegisteredCallbacks, HikTypeOK
<1>2. CASE UNCHANGED hikVars
  <2>1. x # NoRequest /\ UNCHANGED <<cbMap, pUser, sdkusers>>
      BY <1>2 DEF hikVars, sdkVars
  <2>2. ~(Unregister /\ x.cam = ice.cam)
      BY <1>0, <2>1 DEF Unregister, ClosingHandles
  <2>3. streams'[x.cam] = x
      BY <1>0, <1>1, <2>1, <2>2, StreamStays
  <2> QED BY <1>1, <2>1, <2>3
<1>3. ASSUME UNCHANGED <<streams, sdkusers>>, cbMap'[h] = cbMap[h],
             \A g \in Handle : pUser'[g] \in {pUser[g], NoRequest}
      PROVE  /\ streams'[cbMap'[h].cam] = cbMap'[h]
             /\ sdkusers'[cbMap'[h].cam] = h
             /\ \A g \in Handle : pUser'[g] = cbMap'[h] => g = h
    BY <1>1, <1>3
<1>4. CASE TaskBegin /\ UNCHANGED streams
    BY <1>3, <1>4 DEF TaskBegin, BeginOpen, sdkVars
<1>5. CASE TaskConnect /\ UNCHANGED streams
  <2>1. CASE AlreadyLoggedIn
      BY <1>3, <1>5, <2>1 DEF AlreadyLoggedIn, sdkVars
  <2>2. CASE LogIn
    <3>1. /\ x # NoRequest /\ UNCHANGED <<pUser, cbMap>>
          /\ sdkusers[opener.req.cam] = NoUser
          /\ sdkusers' = [sdkusers EXCEPT ![opener.req.cam] = NoHandle]
        BY <2>2 DEF LogIn
    <3>2. sdkusers'[x.cam] = h
        BY <1>0, <1>1, <3>1, NoneAssumption DEF HikTypeOK
    <3> QED BY <1>1, <1>5, <3>1, <3>2
  <2>3. ASSUME NEW f \in Handle, Play(f)
        PROVE  /\ streams'[cbMap'[h].cam] = cbMap'[h]
               /\ sdkusers'[cbMap'[h].cam] = h
               /\ \A g \in Handle : pUser'[g] = cbMap'[h] => g = h
    <3>1. /\ x # NoRequest /\ opener.pc # "idle" /\ UNCHANGED <<cbMap, sdkusers>>
          /\ \A g \in Handle : pUser'[g] \in {pUser[g], opener.req}
        BY <1>0, <2>3 DEF Play, HikTypeOK
    <3>2. opener.req # x
        BY <3>1, OpenerFacts
    <3> QED BY <1>1, <1>5, <3>1, <3>2
  <2>4. CASE SetPlayHandle
    <3>1. /\ x # NoRequest /\ UNCHANGED <<pUser, cbMap>> /\ opener.pc = "setHandle"
          /\ sdkusers' = [sdkusers EXCEPT ![opener.req.cam] = opener.handle]
        BY <2>4 DEF SetPlayHandle, sdkVars
    <3>2. x.cam # opener.req.cam
        BY <1>1, <3>1, OpenerFacts
    <3>3. sdkusers'[x.cam] = h
        BY <1>0, <1>1, <3>1, <3>2 DEF HikTypeOK
    <3> QED BY <1>1, <1>5, <3>1, <3>3
  <2> QED BY <1>5, <2>1, <2>2, <2>3, <2>4 DEF TaskConnect
<1>6. CASE TaskOpened /\ UNCHANGED streams
  <2>1. /\ opener.pc = "register" /\ UNCHANGED <<pUser, sdkusers>>
        /\ cbMap' = [cbMap EXCEPT ![opener.handle] = opener.req]
      BY <1>0, <1>6 DEF TaskOpened, RegisterCallback, OpenPlays, sdkVars
  <2>2. CASE h = opener.handle
    <3>1. cbMap'[h] = opener.req
        BY <1>0, <2>1, <2>2 DEF HikTypeOK
    <3>2. streams[opener.req.cam] = opener.req
        BY <2>1, OpenerFacts
    <3> QED BY <1>0, <1>6, <2>1, <2>2, <3>1, <3>2 DEF OpenPlays
  <2>3. CASE h # opener.handle
      BY <1>0, <1>3, <1>6, <2>1, <2>3 DEF HikTypeOK
  <2> QED BY <2>2, <2>3
<1>7. CASE TaskOpenFails /\ UNCHANGED streams
    BY <1>3, <1>7 DEF TaskOpenFails, LogInFails, PlayFails, sdkVars
<1>8. CASE CloseFind /\ UNCHANGED streams
    BY <1>3, <1>8 DEF CloseFind, BeginClose, sdkVars, hikVars
<1>9. CASE CloseMute /\ UNCHANGED streams
    BY <1>3, <1>9 DEF CloseMute, Mute
<1>10. CASE CloseStop /\ UNCHANGED streams
  <2>1. UNCHANGED <<sdkusers, cbMap>> /\ \A g \in Handle : pUser'[g] \in {pUser[g], NoRequest}
      BY <1>0, <1>10 DEF CloseStop, Stop, HikTypeOK
  <2> QED BY <1>3, <1>10, <2>1
<1>11. CASE CloseErase /\ UNCHANGED streams
  <2>1. UNCHANGED <<sdkusers, pUser>> /\ cbMap'[h] = cbMap[h]
      BY <1>0, <1>11 DEF CloseErase, EraseCallback, HikTypeOK, sdkVars
  <2> QED BY <1>3, <1>11, <2>1
<1> QED BY <1>2, <1>4, <1>5, <1>6, <1>7, <1>8, <1>9, <1>10, <1>11, ControllerSteps

\* What is live or registered for a camera is under the handle its SdkUser remembers,
\* unless that camera is being opened.
LEMMA HandleOfCamera ==
    ASSUME PatientInv, HandleInv, NEW c \in Camera,
           opener.pc # "idle" => opener.req.cam # c,
           NEW h \in Handle
    PROVE  /\ Live(h) /\ pUser[h].cam = c => sdkusers[c] = h
           /\ cbMap[h] # NoRequest /\ cbMap[h].cam = c => sdkusers[c] = h
BY DEF HandleInv, LivePreviews, RegisteredCallbacks, OpenPlays, Busy

\* The close has stopped what its camera plays, or was refused.
LEMMA StepStops ==
    ASSUME ~HandleReuse, PatientInv, HandleInv, [Next]_vars,
           closer'.pc = "erase", ClosingHandle' \in Handle
    PROVE  ~Live(ClosingHandle)'
<1>0. HikTypeOK /\ CallsInProgress /\ UserHandles /\ ClosingHandles /\ SMInv
    BY ControllerFacts DEF HandleInv, PatientInv
<1> DEFINE c == closer.cam
           g == ClosingHandle
\* The message thread is busy with another camera.
<1>1. ASSUME UNCHANGED <<closer, refused>>, sdkusers'[c] = sdkusers[c],
             preview' = preview
             \/ \E h \in Handle : preview[h] = "unused"
                                  /\ preview' = [preview EXCEPT ![h] = "playing"]
      PROVE  ~Live(ClosingHandle)'
  <2>1. /\ c \in Camera /\ ClosingHandle' = g /\ g \in Handle /\ ~Live(g)
        /\ g = sdkusers[c]
      BY <1>0, <1>1 DEF ClosingHandles, ClosingHandle, CallsInProgress
  <2>2. preview[g] # "unused"
      BY <1>0, <2>1 DEF UserHandles, OwnHandle
  <2> QED BY <1>0, <1>1, <2>1, <2>2 DEF HikTypeOK, Live, Running
<1>2. CASE UNCHANGED hikVars
    BY <1>1, <1>2 DEF hikVars, sdkVars
<1>3. CASE TaskBegin \/ TaskOpened \/ TaskOpenFails
    BY <1>1, <1>3 DEF TaskBegin, TaskOpened, TaskOpenFails, BeginOpen, RegisterCallback,
                      LogInFails, PlayFails, sdkVars
<1>4. CASE TaskConnect
  <2>1. UNCHANGED <<closer, refused>> /\ opener.pc # "idle" /\ closer.pc # "idle"
      BY <1>0, <1>4 DEF TaskConnect, AlreadyLoggedIn, LogIn, Play, SetPlayHandle, sdkVars
  <2>2. c # opener.req.cam /\ c \in Camera
      BY <2>1, OpenerFacts, CloserFacts
  <2>3. sdkusers'[c] = sdkusers[c]
      BY <1>0, <1>4, <2>2
      DEF TaskConnect, AlreadyLoggedIn, LogIn, Play, SetPlayHandle, HikTypeOK
  <2>4. preview' = preview
        \/ \E h \in Handle : preview[h] = "unused"
                             /\ preview' = [preview EXCEPT ![h] = "playing"]
      BY <1>4 DEF TaskConnect, AlreadyLoggedIn, LogIn, Play, FreeHandle, SetPlayHandle, sdkVars
  <2> QED BY <1>1, <2>1, <2>3, <2>4
<1>5. CASE CloseFind
    BY <1>2, <1>5 DEF CloseFind, BeginClose
<1>6. CASE CloseMute
    BY <1>6 DEF CloseMute, Mute
<1>7. CASE CloseStop
  <2>1. Stop /\ g = ClosingHandle'
      BY <1>0, <1>7 DEF CloseStop, Stop, ClosingHandle, HikTypeOK
  <2>2. Running(g)' => Running(g) /\ g \in refused'
      BY <1>0, <2>1 DEF Stop, Running, HikTypeOK
  <2> QED BY <2>1, <2>2 DEF Live
<1>8. CASE CloseErase
    BY <1>8 DEF CloseErase, EraseCallback, NotClosing
<1> QED BY <1>2, <1>3, <1>4, <1>5, <1>6, <1>7, <1>8, ControllerSteps

\* When the controller returns, it has nothing left of the camera.
LEMMA StepForgotten ==
    ASSUME ~HandleReuse, PatientInv, HandleInv, [Next]_vars, ice'.pc = "unregister",
           NEW h \in Handle
    PROVE  /\ Live(h)' => pUser'[h].cam # ice'.cam
           /\ cbMap'[h] # NoRequest => cbMap'[h].cam # ice'.cam
<1>0. HikTypeOK /\ CallsInProgress /\ ClosingHandles /\ SMInv /\ TypeOK /\ Control
    BY ControllerFacts DEF HandleInv, PatientInv, SMInv
<1> USE DEF Live, Running
<1> DEFINE c == ice.cam
<1>a. ASSUME ice.pc \in {"closing", "stopping", "unregister"}
      PROVE  c \in Camera /\ (opener.pc # "idle" => opener.req.cam # c)
    BY <1>0, <1>a, OpenerFacts DEF Control
<1>1. CASE CloseFind
  <2>1. /\ ice.pc = "closing" /\ ice'.cam = c /\ UnknownUser(c)
        /\ UNCHANGED <<preview, refused, pUser, cbMap>>
      BY <1>0, <1>1 DEF CloseFind, TypeOK, hikVars, sdkVars
  <2>2. sdkusers[c] # h
      BY <2>1, NoneAssumption DEF UnknownUser
  <2> QED BY <1>a, <2>1, <2>2, HandleOfCamera
<1>2. CASE CloseErase
  <2>1. /\ ice.pc = "stopping" /\ ice'.cam = c /\ closer.pc = "erase" /\ EraseCallback
        /\ UNCHANGED <<preview, refused, pUser>>
      BY <1>0, <1>2 DEF CloseErase, EraseCallback, TypeOK, sdkVars
  <2>2. ClosingHandle = sdkusers[c]
      BY <2>1, CloserFacts DEF ClosingHandle
  <2>3. ASSUME sdkusers[c] = h PROVE ~Live(h) /\ cbMap'[h] = NoRequest
      BY <1>0, <2>1, <2>2, <2>3 DEF ClosingHandles, EraseCallback, HikTypeOK
  <2>4. cbMap'[h] # NoRequest => cbMap[h] = cbMap'[h]
      BY <1>0, <2>1 DEF EraseCallback, HikTypeOK
  <2> QED BY <1>a, <2>1, <2>3, <2>4, HandleOfCamera
<1>3. CASE UNCHANGED ice
  <2>1. /\ ice.pc = "unregister" /\ c \in Camera /\ ice'.cam = c
        /\ Live(h) => pUser[h].cam # c
        /\ cbMap[h] # NoRequest => cbMap[h].cam # c
        /\ opener.pc # "idle" => opener.req.cam # c
      BY <1>0, <1>3, <1>a DEF ClosingHandles
  <2>2. ~CloseFind /\ ~CloseMute /\ ~CloseStop /\ ~CloseErase
      BY <2>1 DEF CloseFind, CloseMute, CloseStop, CloseErase
  <2>3. CASE UNCHANGED hikVars
      BY <2>1, <2>3 DEF hikVars, sdkVars
  <2>4. CASE TaskBegin \/ TaskOpenFails
      BY <2>1, <2>4 DEF TaskBegin, TaskOpenFails, BeginOpen, LogInFails, PlayFails, sdkVars
  <2>5. CASE TaskConnect
      BY <1>0, <2>1, <2>5
      DEF TaskConnect, AlreadyLoggedIn, LogIn, Play, SetPlayHandle, sdkVars, HikTypeOK
  <2>6. CASE TaskOpened
      BY <1>0, <2>1, <2>6 DEF TaskOpened, RegisterCallback, sdkVars, HikTypeOK
  <2> QED BY <2>2, <2>3, <2>4, <2>5, <2>6, ControllerSteps
<1>4. ASSUME NEW r \in Request, JoinStart(r) PROVE FALSE
    BY <1>4 DEF JoinStart
<1>5. ASSUME NEW d \in Camera, NEW k \in CallId, CloseKnown(d, k), ~UNCHANGED ice PROVE FALSE
    BY <1>5 DEF CloseKnown
<1>6. CASE JoinFinish \/ Unregister
    BY <1>6 DEF JoinFinish, Unregister, IceIdle
<1> QED BY <1>1, <1>2, <1>3, <1>4, <1>5, <1>6, IceSteps

LEMMA StepClosing ==
    ~HandleReuse /\ PatientInv /\ HandleInv /\ [Next]_vars => ClosingHandles'
BY StepStops, StepForgotten DEF ClosingHandles

\* A stream is opened when the controller has registered its callback.
LEMMA OpenedSteps ==
    ASSUME PatientInv, [Next]_vars, NEW c \in Camera, Opened(c)'
    PROVE  /\ streams'[c] = streams[c] /\ streams[c] \in Request \cap issued
           /\ Opened(c) \/ (TaskOpened /\ task.req = streams[c])
<1>0. /\ SMInv /\ TypeOK /\ Control /\ Registration /\ EachOpenHasOneOwner /\ BufferOwner
    BY DEF PatientInv, SMInv
<1> DEFINE m == streams[c]
<1>1. streams'[c] = m
  <2>1. ASSUME NEW r \in Request, OpenNew(r), r.cam = c PROVE FALSE
    <3>1. streams'[c] = r /\ UNCHANGED <<reply, task>> /\ r \notin issued
        BY <1>0, <2>1 DEF OpenNew, MayOpen, TypeOK
    <3>2. reply[r] = <<>> /\ task.req # r
        BY <1>0, <3>1 DEF EachOpenHasOneOwner
    <3> QED BY <3>1, <3>2 DEF Opened
  <2>2. ASSUME NEW r \in Request, OpenNew(r), r.cam # c PROVE streams'[c] = m
      BY <1>0, <2>2 DEF OpenNew, TypeOK
  <2>3. CASE Unregister
      BY <1>0, <2>3 DEF Unregister, TypeOK, Opened
  <2> QED BY <2>1, <2>2, <2>3, StreamsSteps
<1>2. m # NoRequest /\ m \in Request /\ m \in issued
    BY <1>0, <1>1 DEF Opened, TypeOK, Registration
<1>3. ASSUME reply'[m] = <<"ok">> PROVE Opened(c)
  <2>1. ASSUME NEW r \in Request, OpenDuplicate(r) PROVE reply'[m] = reply[m]
    <3>1. r # m
        BY <1>2, <2>1 DEF OpenDuplicate, MayOpen
    <3> QED BY <1>0, <1>2, <2>1, <3>1 DEF OpenDuplicate, Answer, TypeOK
  <2>2. CASE JoinFinish
    <3>1. ice.req # m
        BY <1>0, <2>2 DEF JoinFinish, BufferOwner
    <3>2. reply'[m] = reply[m]
        BY <1>0, <1>2, <2>2, <3>1 DEF JoinFinish, Answer, TypeOK
    <3> QED BY <1>2, <1>3, <3>2 DEF Opened
  <2>3. CASE TaskReplyOk
      BY <1>0, <1>2, <1>3, <2>3 DEF TaskReplyOk, TaskEnd, Answer, TypeOK, Opened
  <2>4. CASE TaskReplyFailed /\ task.req = m
    <3>1. reply[m] = <<>> /\ reply'[m] = Append(reply[m], "failed")
        BY <1>0, <1>2, <2>4 DEF TaskReplyFailed, TaskEnd, Answer, TypeOK, EachOpenHasOneOwner
    <3> QED BY <1>3, <3>1
  <2>5. CASE TaskReplyFailed /\ task.req # m
      BY <1>0, <1>2, <1>3, <2>5 DEF TaskReplyFailed, TaskEnd, Answer, TypeOK, Opened
  <2> QED BY <1>2, <1>3, <2>1, <2>2, <2>3, <2>4, <2>5, ReplySteps DEF Opened
<1>4. ASSUME task'.req = m, task'.pc = "opened"
      PROVE  Opened(c) \/ (TaskOpened /\ task.req = m)
  <2>1. CASE TaskOpened
      BY <1>0, <1>4, <2>1 DEF TaskOpened, TaskReturn, TypeOK
  <2>2. CASE UNCHANGED task
      BY <1>2, <1>4, <2>2 DEF Opened
  <2>3. ~TaskBegin /\ ~TaskOpenFails /\ ~TaskUnsubscribe /\ ~TaskRemoveSender
      BY <1>0, <1>4 DEF TaskBegin, TaskOpenFails, TaskReturn, TaskUnsubscribe,
                        TaskRemoveSender, TypeOK
  <2>4. ~TaskReplyOk /\ ~TaskReplyFailed
      BY <1>4 DEF TaskReplyOk, TaskReplyFailed, TaskEnd, NoTask
  <2> QED BY <2>1, <2>2, <2>3, <2>4, TaskSteps
<1>5. reply'[m] = <<"ok">> \/ (task'.req = m /\ task'.pc = "opened")
    BY <1>1 DEF Opened
<1> QED BY <1>1, <1>2, <1>3, <1>4, <1>5

\* A close that began ends with its unregistration.
LEMMA CloseGoesOn ==
    ASSUME PatientInv, [Next]_vars, NEW c \in Camera, ice.cam = c
    PROVE  \/ Unregister /\ streams'[c] = NoRequest
           \/ ice'.cam = c /\ (CloseFind \/ CloseErase \/ UNCHANGED ice)
<1>0. TypeOK /\ Control
    BY DEF PatientInv, SMInv
<1>1. ice.pc \notin {"idle", "joining"}
    BY <1>0, NoneAssumption DEF Control
<1>2. CASE Unregister
    BY <1>0, <1>2 DEF Unregister, TypeOK
<1>3. CASE CloseFind \/ CloseErase \/ UNCHANGED ice
    BY <1>0, <1>3 DEF CloseFind, CloseErase, TypeOK
<1> QED BY <1>1, <1>2, <1>3, IceSteps DEF JoinStart, CloseKnown, JoinFinish

LEMMA StepOpened ==
    ~HandleReuse /\ PatientInv /\ HandleInv /\ [Next]_vars => OpenedStreams'
<1> SUFFICES ASSUME ~HandleReuse, PatientInv, HandleInv, [Next]_vars,
                    NEW c \in Camera, Opened(c)', ice'.cam # c
             PROVE  /\ sdkusers'[c] \in Handle /\ preview'[sdkusers'[c]] = "playing"
                    /\ pUser'[sdkusers'[c]] = streams'[c] /\ cbMap'[sdkusers'[c]] = streams'[c]
    BY DEF OpenedStreams
<1>0. /\ HikTypeOK /\ CallsInProgress /\ UserHandles /\ OpenPlays /\ OpenedStreams
      /\ Registration
    BY ControllerFacts DEF HandleInv, PatientInv, SMInv
<1> DEFINE m == streams[c]
           h == sdkusers[c]
<1>1. streams'[c] = m /\ ice.cam # c /\ (Opened(c) \/ (TaskOpened /\ task.req = m))
    BY OpenedSteps, CloseGoesOn DEF Opened
<1>2. CASE TaskOpened /\ task.req = m
  <2>1. RegisterCallback /\ opener.pc = "register"
      BY <1>2 DEF TaskOpened, RegisterCallback
  <2>2. opener.req = m /\ m \in Request /\ m # NoRequest
      BY <1>2, <2>1, OpenerFacts, NoneAssumption
  <2>3. m.cam = c
      BY <1>0, <2>2 DEF Registration
  <2>4. /\ h = opener.handle /\ h \in Handle /\ preview[h] = "playing"
        /\ cbMap[h] = NoRequest /\ pUser[h] = m
      BY <1>0, <2>1, <2>2, <2>3 DEF OpenPlays, CallsInProgress
  <2> QED BY <1>0, <1>1, <2>1, <2>2, <2>4 DEF RegisterCallback, HikTypeOK, sdkVars
<1>3. CASE Opened(c)
  <2>1. h \in Handle /\ preview[h] = "playing" /\ pUser[h] = m /\ cbMap[h] = m /\ m # NoRequest
      BY <1>0, <1>1, <1>3 DEF Opened, OpenedStreams
  <2>2. ASSUME sdkusers'[c] = h, preview'[h] = preview[h], pUser'[h] = pUser[h],
               cbMap'[h] = cbMap[h]
        PROVE  /\ sdkusers'[c] \in Handle /\ preview'[sdkusers'[c]] = "playing"
               /\ pUser'[sdkusers'[c]] = streams'[c] /\ cbMap'[sdkusers'[c]] = streams'[c]
      BY <1>1, <2>1, <2>2
  \* The message thread opens another stream ...
  <2>3. opener.pc # "idle" => opener.req.cam # c
    <3> SUFFICES ASSUME opener.pc # "idle", opener.req.cam = c PROVE FALSE
        OBVIOUS
    <3>1. task.pc = "opening" /\ reply[m] = <<>>
        BY OpenerFacts
    <3> QED BY <1>3, <3>1 DEF Opened
  \* ... and the close works under another handle.
  <2>4. closer.pc # "idle" => ClosingHandle # h
      BY <1>0, <1>1, <2>1, CloserFacts DEF UserHandles, OwnHandle, ClosingHandle
  <2>5. CASE UNCHANGED hikVars
      BY <2>2, <2>5 DEF hikVars, sdkVars
  <2>6. CASE TaskBegin \/ TaskOpenFails \/ CloseFind
      BY <2>2, <2>6 DEF TaskBegin, BeginOpen, TaskOpenFails, LogInFails, PlayFails,
                        CloseFind, BeginClose, sdkVars, hikVars
  <2>7. CASE TaskConnect
      BY <1>0, <2>1, <2>2, <2>3, <2>7
      DEF TaskConnect, AlreadyLoggedIn, LogIn, Play, FreeHandle, SetPlayHandle, HikTypeOK, sdkVars
  <2>8. CASE TaskOpened
      BY <1>0, <2>1, <2>2, <2>8 DEF TaskOpened, RegisterCallback, HikTypeOK, sdkVars
  <2>9. CASE CloseMute \/ CloseStop
      BY <1>0, <2>1, <2>2, <2>4, <2>9 DEF CloseMute, CloseStop, Mute, Stop, HikTypeOK
  <2>10. CASE CloseErase
      BY <1>0, <2>1, <2>2, <2>4, <2>10 DEF CloseErase, EraseCallback, HikTypeOK, sdkVars
  <2> QED BY <2>5, <2>6, <2>7, <2>8, <2>9, <2>10, ControllerSteps
<1> QED BY <1>1, <1>2, <1>3

-----------------------------------------------------------------------------
(* What holds while no handle comes back *)

LEMMA StepHandles ==
    ~HandleReuse /\ PatientInv /\ HandleInv /\ [Next]_vars => HandleInv'
BY StepUserHandles, StepHandleUse, StepOpenPlays, StepLive, StepRegistered, StepClosing,
   StepOpened DEF HandleInv

\* The invariant of the handles.
LEMMA HandleInvariant ==
    ASSUME PatientClients, ~HandleReuse PROVE Spec => [](PatientInv /\ HandleInv)
<1>1. Init => PatientInv /\ HandleInv
    BY InitPatient, InitHandles
<1>2. PatientInv /\ HandleInv /\ [Next]_vars => (PatientInv /\ HandleInv)'
    BY StepPatient, StepHandles
<1> QED BY <1>1, <1>2, PTL DEF Spec

\* The SDK calls a deleted callback only for a preview it refused to mute and to stop:
\* closeRealStream deletes what cbMap_ holds for its handle, and nothing live is
\* registered there any more.
THEOREM CallbackAlive ==
    ASSUME PatientClients, ~HandleReuse PROVE Spec => []CallbackOutlivesPreview
<1>1. HandleInv => CallbackOutlivesPreview
    BY DEF HandleInv, LivePreviews, Live, Running, CallbackOutlivesPreview
<1> QED BY <1>1, HandleInvariant, PTL

\* The stream whose "this" a data callback captured is not destroyed while the
\* preview runs, muted or not, unless the SDK refused to stop it.
THEOREM TargetAlive ==
    ASSUME PatientClients, ~HandleReuse PROVE Spec => []PreviewTargetAlive
<1>1. HandleInv => PreviewTargetAlive
    BY DEF HandleInv, LivePreviews, Live, PreviewTargetAlive
<1> QED BY <1>1, HandleInvariant, PTL

\* Previews of one camera do not pile up over its closes and opens, except those the
\* SDK refused to stop.
THEOREM OnePreview ==
    ASSUME PatientClients, ~HandleReuse PROVE Spec => []OnePreviewPerCamera
<1>1. HandleInv => OnePreviewPerCamera
  <2> SUFFICES ASSUME HandleInv, NEW g \in Handle, NEW h \in Handle, Live(g), Live(h),
                      pUser[g].cam = pUser[h].cam
               PROVE  g = h
      BY DEF OnePreviewPerCamera, Live
  <2>1. LivePreviews /\ OpenPlays
      BY DEF HandleInv
  <2>2. pUser[g] = pUser[h]
      BY <2>1 DEF LivePreviews
  <2>3. ASSUME NEW f \in Handle, Busy(f), pUser[f] = pUser[g] PROVE g = f /\ h = f
      BY <2>1, <2>2, <2>3 DEF OpenPlays, Busy
  <2>4. CASE Busy(g) \/ Busy(h)
      BY <2>2, <2>3, <2>4
  <2>5. CASE ~Busy(g) /\ ~Busy(h)
      BY <2>1, <2>5 DEF LivePreviews
  <2> QED BY <2>4, <2>5
<1> QED BY <1>1, HandleInvariant, PTL

\* cbMap_ holds the callback of each opened stream under the handle its close will
\* look for, and no other camera's leftovers.
THEOREM CallbackOwned ==
    ASSUME PatientClients, ~HandleReuse PROVE Spec => []CallbackIsOwned
<1>1. HandleInv => CallbackIsOwned
    BY DEF HandleInv, RegisteredCallbacks, OpenedStreams, Opened, CallbackIsOwned
<1> QED BY <1>1, HandleInvariant, PTL

\* A stream answered "ok" plays under the handle of its SdkUser until it is closed.
THEOREM OpenedPlays ==
    ASSUME PatientClients, ~HandleReuse PROVE Spec => []OpenedIsPlaying
<1>1. HandleInv => OpenedIsPlaying
    BY DEF HandleInv, OpenedStreams, Opened, OpenedIsPlaying
<1> QED BY <1>1, HandleInvariant, PTL

\* A close mutes and stops the preview of its own camera, although it reads the handle
\* of the SdkUser again for each vendor call.
THEOREM CloseStopsOwn ==
    ASSUME PatientClients, ~HandleReuse PROVE Spec => CloseStopsOwnPreview
<1>1. PatientInv /\ HandleInv /\ [Next]_vars =>
        [\A h \in Handle : Running(h) /\ preview'[h] # preview[h]
            => pUser[h].cam = closer.cam]_vars
  <2> SUFFICES ASSUME ~HandleReuse, PatientInv, HandleInv, [Next]_vars,
                      NEW h \in Handle, Running(h), preview'[h] # preview[h]
               PROVE  pUser[h].cam = closer.cam
      OBVIOUS
  <2>0. /\ [HikNext]_hikVars /\ HikTypeOK /\ UserHandles /\ HandleUse
      BY ControllerFacts DEF HandleInv
  <2>1. Mute \/ Stop
    <3>1. ASSUME NEW g \in Handle, Play(g) PROVE FALSE
        BY <2>0, <3>1 DEF Play, FreeHandle, Running, HikTypeOK
    <3> QED BY <2>0, <3>1 DEF HikNext, OpenStep, CloseStep, BeginOpen, AlreadyLoggedIn,
            LogIn, LogInFails, PlayFails, SetPlayHandle, RegisterCallback, BeginClose,
            EraseCallback, sdkVars, hikVars
  <2>2. closer.pc # "idle" /\ h = ClosingHandle
      BY <2>0, <2>1 DEF Mute, Stop, HikTypeOK
  <2>3. closer.cam \in Camera /\ h = sdkusers[closer.cam]
      BY <2>2, CloserFacts DEF ClosingHandle
  <2>4. pUser[h] # NoRequest
      BY <2>0 DEF HandleUse
  <2> QED BY <2>0, <2>3, <2>4 DEF UserHandles, OwnHandle
<1> QED BY <1>1, HandleInvariant, PTL DEF Spec, CloseStopsOwnPreview

-----------------------------------------------------------------------------
(* When handles do come back.  A SdkUser may then remember the handle of         *)
(* another camera's preview.  It does no harm while every open that got as far   *)
(* as its play succeeds, for then a close finds the handle of its own open or no *)
(* SdkUser at all; and plays succeed while there is a handle for each camera and *)
(* no stop leaks one.                                                            *)

\* The SDK gives stopped handles out again, has one for each camera, plays whenever
\* one is free and stops whenever it is asked to.
SdkServes ==
    /\ HandleReuse /\ ~PlayMayFail /\ ~StopMayFail
    /\ IsFiniteSet(Camera) /\ IsFiniteSet(Handle)
    /\ Cardinality(Camera) <= Cardinality(Handle)

\* What runs, runs for a registered stream, under a handle of its own camera.
RunningPreviews ==
    \A h \in Handle :
        IF Running(h)
        THEN /\ pUser[h] \in Request
             /\ streams[pUser[h].cam] = pUser[h]
             /\ sdkusers[pUser[h].cam] = h \/ Busy(h)
        ELSE pUser[h] = NoRequest

\* Nothing runs for a camera that a close has stopped.
StoppedCameras ==
    ice.pc = "unregister" \/ closer.pc = "erase" =>
        \A h \in Handle : Running(h) => pUser[h].cam # ice.cam

\* The open in progress plays under one handle at most, which is its alone.
OpenRuns ==
    /\ opener.pc \in {"login", "play"} => \A h \in Handle : pUser[h] # opener.req
    /\ opener.pc \in {"setHandle", "register"} =>
         /\ preview[opener.handle] = "playing"
         /\ \A h \in Handle : pUser[h] = opener.req <=> h = opener.handle
    /\ opener.pc = "register" => sdkusers[opener.req.cam] = opener.handle

\* An open fails at the login or not at all.
FailedStreams ==
    \A c \in Camera : streams[c] # NoRequest /\ OpenFailed(streams[c]) => sdkusers[c] = NoUser

\* What plays for an opened stream, until its close has muted and stopped it.
PlaysOn(c) ==
    /\ sdkusers[c] \in Handle /\ pUser[sdkusers[c]] = streams[c]
    /\ Running(sdkusers[c])
    /\ ~(closer.pc = "stop" /\ closer.cam = c) => preview[sdkusers[c]] = "playing"

PlayingStreams ==
    \A c \in Camera :
        /\ Opened(c)
        /\ ~(ice.pc = "unregister" /\ ice.cam = c)
        /\ ~(closer.pc = "erase" /\ closer.cam = c)
        => PlaysOn(c)

ReuseInv ==
    /\ RunningPreviews
    /\ StoppedCameras
    /\ OpenRuns
    /\ FailedStreams
    /\ PlayingStreams

LEMMA InitReuse == Init => ReuseInv
<1> SUFFICES ASSUME Init PROVE ReuseInv
    OBVIOUS
<1>1. RunningPreviews /\ StoppedCameras /\ OpenRuns
    BY DEF Init, HikInit, RunningPreviews, Running, StoppedCameras, OpenRuns, NotOpening,
           NotClosing, IceIdle
<1>2. FailedStreams /\ PlayingStreams
    BY DEF Init, HikInit, FailedStreams, PlayingStreams, Opened
<1> QED BY <1>1, <1>2 DEF ReuseInv

\* Handles that all run for a camera other than c have two of them for one camera.
LEMMA HandlesShare ==
    ASSUME SdkServes, NEW c \in Camera, NEW f \in [Handle -> Camera \ {c}]
    PROVE  \E g, h \in Handle : g # h /\ f[g] = f[h]
<1>1. IsFiniteSet(Camera \ {c}) /\ Cardinality(Camera \ {c}) = Cardinality(Camera) - 1
    BY FS_RemoveElement DEF SdkServes
<1>2. Cardinality(Camera \ {c}) < Cardinality(Handle)
    BY <1>1, FS_CardinalityType DEF SdkServes
<1> QED BY <1>1, <1>2, FS_PigeonHole, Zenon DEF SdkServes

\* The handles that run are not enough to refuse a play: they run for different cameras,
\* and not for the one being opened.
LEMMA AHandleIsFree ==
    ASSUME SdkServes, PatientInv, ReuseInv, opener.pc = "play"
    PROVE  \E h \in Handle : FreeHandle(h)
<1> SUFFICES ASSUME \A h \in Handle : ~FreeHandle(h) PROVE FALSE
    OBVIOUS
<1>0. HikTypeOK /\ RunningPreviews /\ OpenRuns
    BY DEF PatientInv, SMInv, HikInv, ReuseInv
<1>1. opener.req.cam \in Camera /\ streams[opener.req.cam] = opener.req
    BY OpenerFacts
<1>2. ASSUME NEW h \in Handle
      PROVE  /\ pUser[h].cam \in Camera \ {opener.req.cam}
             /\ streams[pUser[h].cam] = pUser[h]
             /\ sdkusers[pUser[h].cam] = h
  <2>1. Running(h)
      BY <1>0 DEF SdkServes, FreeHandle, Running, HikTypeOK
  <2>2. pUser[h] \in Request /\ streams[pUser[h].cam] = pUser[h] /\ sdkusers[pUser[h].cam] = h
      BY <1>0, <2>1 DEF RunningPreviews, Busy
  <2>3. pUser[h] # opener.req
      BY <1>0 DEF OpenRuns
  <2> QED BY <1>1, <2>2, <2>3, RequestFields
<1>3. [h \in Handle |-> pUser[h].cam] \in [Handle -> Camera \ {opener.req.cam}]
    BY <1>2
<1>4. \A c \in Camera : \A f \in [Handle -> Camera \ {c}] :
          \E g, h \in Handle : g # h /\ f[g] = f[h]
    BY HandlesShare
<1>5. PICK g, h \in Handle : g # h /\ pUser[g].cam = pUser[h].cam
    BY <1>1, <1>3, <1>4
<1> QED BY <1>2, <1>5

\* A close finds an SdkUser only if the open of its stream has succeeded.
LEMMA ClosedWasOpened ==
    ASSUME PatientInv, ReuseInv, ice.pc \in {"closing", "stopping"},
           sdkusers[ice.cam] # NoUser
    PROVE  Opened(ice.cam)
<1>0. /\ TypeOK /\ Control /\ Registration /\ EachOpenHasOneOwner
      /\ PendingSubscribed /\ FailedStreams
    BY DEF PatientInv, SMInv, ReuseInv
<1> DEFINE m == streams[ice.cam]
<1>1. ice.cam \in Camera /\ m # NoRequest /\ m \in Request /\ m \in issued /\ m \notin subs[m]
    BY <1>0 DEF Control, Registration, TypeOK
<1>2. ~OpenFailed(m) /\ ~Opening(m)
    BY <1>0, <1>1 DEF FailedStreams, PendingSubscribed
<1>3. reply[m] # <<>>
  <2>1. ice.req # m
      BY <1>0, <1>1 DEF Control
  <2>2. ~Queued(m)
      BY <1>2 DEF Opening
  <2>3. task.req # m
      BY <1>0, <1>1, <1>2 DEF Control, TypeOK, Opening, OpenFailed
  <2> QED BY <1>0, <1>1, <2>1, <2>2, <2>3 DEF EachOpenHasOneOwner
<1>4. reply[m] \in Seq({"ok", "failed"}) /\ Len(reply[m]) <= 1
    BY <1>0, <1>1 DEF TypeOK, EachOpenHasOneOwner
<1>5. reply[m] = <<"ok">> \/ reply[m] = <<"failed">>
    BY <1>3, <1>4
<1> QED BY <1>1, <1>2, <1>5 DEF Opened, OpenFailed

\* So what it mutes and stops is the preview of its own stream.
LEMMA CloserPlays ==
    ASSUME PatientInv, ReuseInv, closer.pc \in {"mute", "stop"}
    PROVE  /\ ClosingHandle \in Handle /\ closer.cam \in Camera /\ ClosingHandle = sdkusers[closer.cam]
           /\ pUser[ClosingHandle] = streams[closer.cam]
           /\ pUser[ClosingHandle] # NoRequest /\ pUser[ClosingHandle].cam = closer.cam
           /\ Running(ClosingHandle)
<1>0. CallsInProgress /\ Registration /\ PlayingStreams
    BY DEF PatientInv, SMInv, HikInv, ReuseInv
<1>1. ice.pc = "stopping" /\ closer.cam = ice.cam /\ closer.cam \in Camera
    BY CloserFacts
<1>2. Opened(closer.cam)
    BY <1>0, <1>1, ClosedWasOpened DEF CallsInProgress
<1>3. PlaysOn(closer.cam)
    BY <1>0, <1>1, <1>2 DEF PlayingStreams
<1> QED BY <1>0, <1>1, <1>2, <1>3 DEF PlaysOn, Opened, Registration, ClosingHandle

LEMMA StepOpenRuns ==
    SdkServes /\ PatientInv /\ ReuseInv /\ [Next]_vars => OpenRuns'
<1> SUFFICES ASSUME SdkServes, PatientInv, ReuseInv, [Next]_vars PROVE OpenRuns'
    OBVIOUS
<1>0. [HikNext]_hikVars /\ HikTypeOK /\ CallsInProgress /\ OpenRuns /\ RunningPreviews
    BY ControllerFacts DEF ReuseInv
\* The close works under a handle that the open did not get.
<1>c. ASSUME opener.pc \in {"setHandle", "register"}, closer.pc \in {"mute", "stop"}
      PROVE  ClosingHandle # opener.handle
  <2>1. opener.handle \in Handle /\ closer.cam # opener.req.cam
      BY <1>c, OpenerFacts
  <2>2. pUser[ClosingHandle].cam = closer.cam
      BY <1>c, CloserPlays
  <2> QED BY <1>0, <1>c, <2>1, <2>2 DEF OpenRuns
<1>f. opener.pc # "idle" => opener.req \in Request /\ opener.req.cam \in Camera
    BY OpenerFacts
<1> USE <1>0, <1>f, NoneAssumption DEF OpenRuns, HikTypeOK, CallsInProgress, sdkVars
<1>1. ASSUME NEW r \in Request, Fresh(r), BeginOpen(r) PROVE OpenRuns'
    BY <1>1 DEF BeginOpen, Fresh
<1>2. CASE AlreadyLoggedIn \/ LogIn
    BY <1>2 DEF AlreadyLoggedIn, LogIn
<1>3. CASE LogInFails \/ PlayFails \/ RegisterCallback
    BY <1>3 DEF LogInFails, PlayFails, RegisterCallback, NotOpening
<1>4. ASSUME NEW h \in Handle, Play(h) PROVE OpenRuns'
    BY <1>4 DEF Play
<1>5. CASE SetPlayHandle
    BY <1>5 DEF SetPlayHandle
<1>6. CASE Mute
    BY <1>6, <1>c DEF Mute
<1>7. CASE Stop
  <2>1. UNCHANGED <<opener, sdkusers>> /\ closer.pc = "stop"
      BY <1>7 DEF Stop
  <2>2. /\ \A h \in Handle : pUser'[h] \in {pUser[h], NoRequest}
        /\ \A h \in Handle : h # ClosingHandle =>
             preview'[h] = preview[h] /\ pUser'[h] = pUser[h]
      BY <1>7 DEF Stop
  <2>3. CASE opener.pc \in {"setHandle", "register"}
    <3>1. preview'[opener.handle] = preview[opener.handle]
          /\ pUser'[opener.handle] = pUser[opener.handle]
        BY <1>c, <2>1, <2>2, <2>3
    <3> QED BY <2>1, <2>2, <2>3, <3>1
  <2>4. CASE opener.pc \notin {"setHandle", "register"}
      BY <2>1, <2>2, <2>4
  <2> QED BY <2>3, <2>4
<1>8. CASE EraseCallback
    BY <1>8 DEF EraseCallback
<1>9. ASSUME NEW c \in Camera, BeginClose(c) PROVE OpenRuns'
    BY <1>9 DEF BeginClose
<1>10. CASE UNCHANGED hikVars
    BY <1>10 DEF hikVars
<1> QED BY <1>1, <1>2, <1>3, <1>4, <1>5, <1>6, <1>7, <1>8, <1>9, <1>10
    DEF HikNext, OpenStep, CloseStep

LEMMA StepRunning ==
    SdkServes /\ PatientInv /\ ReuseInv /\ [Next]_vars => RunningPreviews'
<1> DEFINE Ran(h) == IF Running(h) THEN /\ pUser[h] \in Request
                                        /\ streams[pUser[h].cam] = pUser[h]
                                        /\ sdkusers[pUser[h].cam] = h \/ Busy(h)
                     ELSE pUser[h] = NoRequest
<1> SUFFICES ASSUME SdkServes, PatientInv, ReuseInv, [Next]_vars, NEW h \in Handle
             PROVE  Ran(h)'
    BY DEF RunningPreviews
<1>0. /\ HikTypeOK /\ CallsInProgress /\ RunningPreviews /\ StoppedCameras /\ OpenRuns /\ SMInv
    BY ControllerFacts DEF ReuseInv, PatientInv
<1> DEFINE m == pUser[h]
<1>1. Ran(h) /\ (Running(h) => m.cam \in Camera)
    BY <1>0, RequestFields DEF RunningPreviews
<1>2. ASSUME UNCHANGED <<streams, sdkusers>>, Running(h)' <=> Running(h), pUser'[h] = m,
             Busy(h) => Busy(h)'
      PROVE  Ran(h)'
    BY <1>1, <1>2
<1>3. CASE UNCHANGED hikVars
  <2>1. UNCHANGED <<preview, pUser, sdkusers, opener>>
      BY <1>3 DEF hikVars, sdkVars
  <2>2. CASE Running(h)
    <3>1. ~(Unregister /\ m.cam = ice.cam)
        BY <1>0, <2>2 DEF Unregister, StoppedCameras
    <3>2. streams'[m.cam] = m
        BY <1>0, <1>1, <2>2, <3>1, StreamStays
    <3> QED BY <1>1, <2>1, <2>2, <3>2 DEF Running, Busy
  <2>3. CASE ~Running(h)
      BY <1>1, <2>1, <2>3 DEF Running
  <2> QED BY <2>2, <2>3
<1>4. CASE (TaskBegin \/ TaskOpened \/ TaskOpenFails) /\ UNCHANGED streams
    BY <1>2, <1>4 DEF TaskBegin, TaskOpened, TaskOpenFails, BeginOpen, RegisterCallback,
                      LogInFails, PlayFails, Running, Busy, sdkVars
<1>5. CASE TaskConnect /\ UNCHANGED streams
  <2>1. CASE AlreadyLoggedIn
      BY <1>2, <1>5, <2>1 DEF AlreadyLoggedIn, Running, Busy, sdkVars
  <2>2. CASE LogIn
    <3>1. /\ UNCHANGED <<preview, pUser>> /\ ~Busy(h)
          /\ sdkusers[opener.req.cam] = NoUser
          /\ sdkusers' = [sdkusers EXCEPT ![opener.req.cam] = NoHandle]
        BY <2>2 DEF LogIn, Busy
    <3>2. Running(h) => sdkusers'[m.cam] = h
        BY <1>0, <1>1, <3>1, NoneAssumption DEF HikTypeOK
    <3> QED BY <1>1, <1>5, <3>1, <3>2 DEF Running
  <2>3. ASSUME NEW g \in Handle, Play(g) PROVE Ran(h)'
    <3>1. /\ preview' = [preview EXCEPT ![g] = "playing"]
          /\ pUser' = [pUser EXCEPT ![g] = opener.req]
          /\ opener'.pc = "setHandle" /\ opener'.handle = g
          /\ opener.pc = "play" /\ UNCHANGED sdkusers
        BY <1>0, <2>3 DEF Play, HikTypeOK
    <3>2. CASE h = g
      <4>1. opener.req \in Request /\ streams[opener.req.cam] = opener.req
          BY <3>1, OpenerFacts
      <4>2. pUser'[h] = opener.req /\ Running(h)' /\ Busy(h)'
          BY <1>0, <3>1, <3>2 DEF HikTypeOK, Running, Busy
      <4> QED BY <1>5, <4>1, <4>2
    <3>3. CASE h # g
      <4>1. preview'[h] = preview[h] /\ pUser'[h] = m /\ ~Busy(h)
          BY <1>0, <3>1, <3>3 DEF HikTypeOK, Busy
      <4> QED BY <1>2, <1>5, <3>1, <4>1 DEF Running
    <3> QED BY <3>2, <3>3
  <2>4. CASE SetPlayHandle
    <3>1. /\ UNCHANGED <<preview, pUser>> /\ opener.pc = "setHandle"
          /\ sdkusers' = [sdkusers EXCEPT ![opener.req.cam] = opener.handle]
        BY <2>4 DEF SetPlayHandle, sdkVars
    <3>2. Running(h) => sdkusers'[m.cam] = h
      <4> SUFFICES ASSUME Running(h) PROVE sdkusers'[m.cam] = h
          OBVIOUS
      <4>1. CASE m.cam = opener.req.cam
        <5>1. m = opener.req
            BY <1>1, <3>1, <4>1, OpenerFacts
        <5>2. h = opener.handle
            BY <1>0, <3>1, <5>1 DEF OpenRuns
        <5> QED BY <1>0, <1>1, <3>1, <4>1, <5>2 DEF HikTypeOK
      <4>2. CASE m.cam # opener.req.cam
        <5>1. ~Busy(h)
            BY <1>0, <3>1, <4>2 DEF OpenRuns, Busy
        <5> QED BY <1>0, <1>1, <3>1, <4>2, <5>1 DEF HikTypeOK
      <4> QED BY <4>1, <4>2
    <3> QED BY <1>1, <1>5, <3>1, <3>2 DEF Running
  <2> QED BY <1>5, <2>1, <2>2, <2>3, <2>4 DEF TaskConnect
<1>6. CASE (CloseFind \/ CloseErase) /\ UNCHANGED streams
    BY <1>2, <1>6 DEF CloseFind, BeginClose, CloseErase, EraseCallback, Running, Busy,
                      sdkVars, hikVars
<1>7. CASE CloseMute /\ UNCHANGED streams
  <2>1. Mute /\ UNCHANGED <<pUser, sdkusers, opener>>
      BY <1>7 DEF CloseMute, Mute
  <2>2. Running(h)' <=> Running(h)
      BY <1>0, <2>1 DEF Mute, HikTypeOK, Running
  <2> QED BY <1>2, <1>7, <2>1, <2>2 DEF Busy
<1>8. CASE CloseStop /\ UNCHANGED streams
  <2>1. Stop /\ UNCHANGED <<sdkusers, opener>>
      BY <1>8 DEF CloseStop, Stop
  <2>2. CASE h = ClosingHandle /\ Running(h)
    <3>1. preview'[h] = "stopped" /\ pUser'[h] = NoRequest
        BY <1>0, <2>1, <2>2 DEF Stop, SdkServes, HikTypeOK
    <3> QED BY <3>1 DEF Running
  <2>3. CASE ~(h = ClosingHandle /\ Running(h))
    <3>1. preview'[h] = preview[h] /\ pUser'[h] = m
        BY <1>0, <2>1, <2>3 DEF Stop, HikTypeOK
    <3> QED BY <1>2, <1>8, <2>1, <3>1 DEF Running, Busy
  <2> QED BY <2>2, <2>3
<1> QED BY <1>3, <1>4, <1>5, <1>6, <1>7, <1>8, ControllerSteps

\* What runs for a camera runs under the handle its SdkUser remembers, unless that
\* camera is being opened.
LEMMA RunsUnderOwn ==
    ASSUME PatientInv, ReuseInv, NEW h \in Handle, Running(h),
           opener.pc # "idle" => opener.req.cam # pUser[h].cam
    PROVE  sdkusers[pUser[h].cam] = h
BY DEF ReuseInv, RunningPreviews, OpenRuns, Busy

LEMMA StepStopped ==
    SdkServes /\ PatientInv /\ ReuseInv /\ [Next]_vars => StoppedCameras'
<1> SUFFICES ASSUME SdkServes, PatientInv, ReuseInv, [Next]_vars,
                    ice'.pc = "unregister" \/ closer'.pc = "erase",
                    NEW h \in Handle, Running(h)', pUser'[h].cam = ice'.cam
             PROVE  FALSE
    BY DEF StoppedCameras
<1>0. /\ HikTypeOK /\ CallsInProgress /\ StoppedCameras /\ RunningPreviews /\ OpenRuns
      /\ SMInv /\ TypeOK /\ Control /\ Control'
    BY ControllerFacts, StepInv DEF ReuseInv, PatientInv, SMInv
<1> DEFINE c == ice.cam
<1>a. ASSUME ice.pc \in {"closing", "stopping", "unregister"}
      PROVE  c \in Camera /\ (opener.pc # "idle" => opener.req.cam # c)
    BY <1>0, <1>a, OpenerFacts DEF Control
<1>1. CASE CloseFind
  <2>1. /\ ice.pc = "closing" /\ ice'.cam = c /\ UnknownUser(c)
        /\ UNCHANGED <<preview, pUser>>
      BY <1>0, <1>1 DEF CloseFind, BeginClose, TypeOK, hikVars, sdkVars
  <2>2. Running(h) /\ pUser[h].cam = c
      BY <2>1 DEF Running
  <2>3. sdkusers[c] = h
      BY <1>a, <2>1, <2>2, RunsUnderOwn
  <2> QED BY <2>1, <2>3, NoneAssumption DEF UnknownUser
<1>2. CASE CloseErase
  <2>1. /\ closer.pc = "erase" /\ ice'.cam = c /\ UNCHANGED <<preview, pUser>>
      BY <1>0, <1>2 DEF CloseErase, EraseCallback, TypeOK, sdkVars
  <2> QED BY <1>0, <2>1 DEF StoppedCameras, Running
<1>3. CASE CloseStop
  <2>1. /\ ice.pc = "stopping" /\ ice'.cam = c /\ Stop /\ closer.pc = "stop"
      BY <1>0, <1>3 DEF CloseStop, Stop, smVars, TypeOK
  <2>2. h # ClosingHandle /\ preview'[h] = preview[h] /\ pUser'[h] = pUser[h]
      BY <1>0, <2>1 DEF Stop, HikTypeOK, SdkServes, Running
  <2>3. Running(h) /\ pUser[h].cam = c
      BY <2>1, <2>2 DEF Running
  <2>4. sdkusers[c] = h
      BY <1>a, <2>1, <2>3, RunsUnderOwn
  <2> QED BY <2>1, <2>2, <2>4, CloserFacts DEF ClosingHandle
<1>4. CASE CloseMute
    BY <1>0, <1>4 DEF CloseMute, Mute, smVars, HikTypeOK
<1>5. CASE UNCHANGED <<ice, closer>> /\ ~CloseMute /\ ~CloseStop
  <2>1. /\ ice.pc \in {"stopping", "unregister"} /\ c \in Camera
        /\ opener.pc # "idle" => opener.req.cam # c
        /\ \A g \in Handle : Running(g) => pUser[g].cam # c
      BY <1>0, <1>5, <1>a DEF StoppedCameras, Control
  <2>2. CASE UNCHANGED <<preview, pUser>>
      BY <1>5, <2>1, <2>2 DEF Running
  <2>3. ASSUME NEW g \in Handle, Play(g) PROVE FALSE
      BY <1>0, <1>5, <2>1, <2>3 DEF Play, Running, HikTypeOK
  <2> QED BY <1>1, <1>2, <1>5, <2>2, <2>3, ControllerSteps
      DEF TaskBegin, BeginOpen, TaskConnect, AlreadyLoggedIn, LogIn, SetPlayHandle, TaskOpened,
          TaskOpenFails, RegisterCallback, LogInFails, PlayFails, sdkVars, hikVars
<1>6. CASE UNCHANGED ice /\ closer' # closer
    BY <1>0, <1>1, <1>2, <1>3, <1>4, <1>6, ControllerSteps
    DEF TaskBegin, BeginOpen, TaskConnect, AlreadyLoggedIn, LogIn, Play, SetPlayHandle, TaskOpened,
        TaskOpenFails, RegisterCallback, LogInFails, PlayFails, hikVars
<1>7. CASE (\E r \in Request : JoinStart(r)) \/ JoinFinish \/ Unregister
  <2>1. ice'.pc \in {"idle", "joining"}
      BY <1>7 DEF JoinStart, JoinFinish, Unregister, IceIdle
  <2> QED BY <1>0, <2>1 DEF Control
<1>8. ASSUME NEW d \in Camera, NEW k \in CallId, CloseKnown(d, k), ~UNCHANGED ice PROVE FALSE
  <2>1. ice'.pc = "closing"
      BY <1>8 DEF CloseKnown
  <2> QED BY <1>0, <2>1 DEF Control
<1> QED BY <1>1, <1>2, <1>3, <1>4, <1>5, <1>6, <1>7, <1>8, IceSteps

\* The stream of a camera is one whose open failed if it was before or if that open fails.
LEMMA FailedSteps ==
    ASSUME PatientInv, [Next]_vars, NEW c \in Camera, streams'[c] # NoRequest,
           OpenFailed(streams[c])'
    PROVE  /\ streams'[c] = streams[c] /\ streams[c] \in Request /\ streams[c].cam = c
           /\ OpenFailed(streams[c]) \/ (TaskOpenFails /\ task.req = streams[c])
<1>0. /\ SMInv /\ TypeOK /\ Control /\ Registration /\ EachOpenHasOneOwner /\ BufferOwner
    BY DEF PatientInv, SMInv
<1> DEFINE m == streams[c]
<1>1. streams'[c] = m
  <2>1. ASSUME NEW r \in Request, OpenNew(r), r.cam = c PROVE FALSE
    <3>1. streams'[c] = r /\ UNCHANGED <<reply, task>> /\ r \notin issued
        BY <1>0, <2>1 DEF OpenNew, MayOpen, TypeOK
    <3>2. reply[r] = <<>> /\ task.req # r
        BY <1>0, <3>1 DEF EachOpenHasOneOwner
    <3> QED BY <3>1, <3>2 DEF OpenFailed
  <2>2. ASSUME NEW r \in Request, OpenNew(r), r.cam # c PROVE streams'[c] = m
      BY <1>0, <2>2 DEF OpenNew, TypeOK
  <2>3. CASE Unregister
      BY <1>0, <2>3 DEF Unregister, TypeOK
  <2> QED BY <2>1, <2>2, <2>3, StreamsSteps
<1>2. m # NoRequest /\ m \in Request /\ m \in issued /\ m.cam = c
    BY <1>0, <1>1 DEF TypeOK, Registration
<1>3. ASSUME reply'[m] = <<"failed">> PROVE OpenFailed(m)
  <2>1. ASSUME NEW r \in Request, OpenDuplicate(r) PROVE reply'[m] = reply[m]
    <3>1. r # m
        BY <1>2, <2>1 DEF OpenDuplicate, MayOpen
    <3> QED BY <1>0, <1>2, <2>1, <3>1 DEF OpenDuplicate, Answer, TypeOK
  <2>2. CASE JoinFinish
    <3>1. ice.req # m
        BY <1>0, <2>2 DEF JoinFinish, BufferOwner
    <3> QED BY <1>0, <1>2, <1>3, <2>2, <3>1 DEF JoinFinish, Answer, TypeOK, OpenFailed
  <2>3. CASE TaskReplyOk /\ task.req = m
    <3>1. reply[m] = <<>> /\ reply'[m] = Append(reply[m], "ok")
        BY <1>0, <1>2, <2>3 DEF TaskReplyOk, TaskEnd, Answer, TypeOK, EachOpenHasOneOwner
    <3> QED BY <1>3, <3>1
  <2>4. CASE TaskReplyFailed /\ task.req = m
      BY <2>4 DEF TaskReplyFailed, OpenFailed
  <2>5. CASE (TaskReplyOk \/ TaskReplyFailed) /\ task.req # m
      BY <1>0, <1>2, <1>3, <2>5
      DEF TaskReplyOk, TaskReplyFailed, TaskEnd, Answer, TypeOK, OpenFailed
  <2> QED BY <1>3, <2>1, <2>2, <2>3, <2>4, <2>5, ReplySteps DEF OpenFailed
<1>4. ASSUME task'.req = m, task'.pc \in {"openFailed", "removeSender", "replyFailed"}
      PROVE  OpenFailed(m) \/ (TaskOpenFails /\ task.req = m)
  <2>1. CASE TaskOpenFails \/ TaskUnsubscribe \/ TaskRemoveSender
      BY <1>0, <1>4, <2>1
      DEF TaskOpenFails, TaskUnsubscribe, TaskRemoveSender, TaskReturn, TypeOK, OpenFailed
  <2>2. CASE UNCHANGED task
      BY <1>4, <2>2 DEF OpenFailed
  <2>3. ~TaskBegin /\ ~TaskOpened
      BY <1>0, <1>4 DEF TaskBegin, TaskOpened, TaskReturn, TypeOK
  <2>4. ~TaskReplyOk /\ ~TaskReplyFailed
      BY <1>4 DEF TaskReplyOk, TaskReplyFailed, TaskEnd, NoTask
  <2> QED BY <2>1, <2>2, <2>3, <2>4, TaskSteps
<1>5. reply'[m] = <<"failed">>
      \/ (task'.req = m /\ task'.pc \in {"openFailed", "removeSender", "replyFailed"})
    BY <1>1 DEF OpenFailed
<1> QED BY <1>1, <1>2, <1>3, <1>4, <1>5

LEMMA StepFailed ==
    SdkServes /\ PatientInv /\ ReuseInv /\ [Next]_vars => FailedStreams'
<1> SUFFICES ASSUME SdkServes, PatientInv, ReuseInv, [Next]_vars, NEW c \in Camera,
                    streams'[c] # NoRequest, OpenFailed(streams[c])'
             PROVE  sdkusers'[c] = NoUser
    BY DEF FailedStreams
<1>0. HikTypeOK /\ FailedStreams /\ EachOpenHasOneOwner
    BY DEF ReuseInv, PatientInv, SMInv, HikInv
<1> DEFINE m == streams[c]
<1>1. /\ streams'[c] = m /\ m \in Request /\ m.cam = c
      /\ OpenFailed(m) \/ (TaskOpenFails /\ task.req = m)
    BY FailedSteps
<1>2. CASE TaskOpenFails /\ task.req = m
  <2>1. ~PlayFails
      BY AHandleIsFree DEF PlayFails, SdkServes
  <2>2. LogInFails /\ opener.pc = "login"
      BY <1>2, <2>1 DEF TaskOpenFails, LogInFails
  <2>3. opener.req = m
      BY <1>2, <2>2, OpenerFacts
  <2> QED BY <1>1, <2>2, <2>3 DEF LogInFails
<1>3. CASE OpenFailed(m)
  <2>1. sdkusers[c] = NoUser
      BY <1>0, <1>1, <1>3, NoneAssumption DEF FailedStreams
  <2>2. opener.pc # "idle" => opener.req.cam # c
    <3> SUFFICES ASSUME opener.pc # "idle", opener.req.cam = c PROVE FALSE
        OBVIOUS
    <3>1. task.pc = "opening" /\ reply[m] = <<>>
        BY OpenerFacts
    <3> QED BY <1>3, <3>1 DEF OpenFailed
  <2>3. CASE TaskConnect
      BY <1>0, <2>1, <2>2, <2>3
      DEF TaskConnect, AlreadyLoggedIn, LogIn, Play, SetPlayHandle, HikTypeOK
  <2>4. CASE UNCHANGED sdkusers
      BY <2>1, <2>4
  <2> QED BY <2>3, <2>4, ControllerSteps
      DEF TaskBegin, BeginOpen, TaskOpened, TaskOpenFails, RegisterCallback, LogInFails,
          PlayFails, CloseFind, BeginClose, CloseMute, Mute, CloseStop, Stop, CloseErase,
          EraseCallback, hikVars
<1> QED BY <1>1, <1>2, <1>3

LEMMA StepPlayingStreams ==
    SdkServes /\ PatientInv /\ ReuseInv /\ [Next]_vars => PlayingStreams'
<1> SUFFICES ASSUME SdkServes, PatientInv, ReuseInv, [Next]_vars, NEW c \in Camera,
                    Opened(c)',
                    ~(ice'.pc = "unregister" /\ ice'.cam = c),
                    ~(closer'.pc = "erase" /\ closer'.cam = c)
             PROVE  PlaysOn(c)'
    BY DEF PlayingStreams
<1>0. /\ HikTypeOK /\ CallsInProgress /\ OpenRuns /\ PlayingStreams /\ RunningPreviews
      /\ Registration /\ Control /\ TypeOK
    BY ControllerFacts DEF ReuseInv, PatientInv, SMInv
<1> DEFINE m == streams[c]
           h == sdkusers[c]
           silent == closer.pc = "stop" /\ closer.cam = c
<1>1. /\ streams'[c] = m /\ m \in Request /\ m # NoRequest
      /\ Opened(c) \/ (TaskOpened /\ task.req = m)
    BY OpenedSteps, NoneAssumption
<1>2. m.cam = c
    BY <1>0, <1>1 DEF Registration
<1>3. CASE TaskOpened /\ task.req = m
  <2>1. RegisterCallback /\ opener.pc = "register" /\ UNCHANGED <<sdkusers, preview, pUser, closer>>
      BY <1>3 DEF TaskOpened, RegisterCallback, sdkVars
  <2>2. opener.req = m /\ ~silent
      BY <1>2, <1>3, <2>1, OpenerFacts
  <2>3. h = opener.handle /\ h \in Handle /\ preview[h] = "playing" /\ pUser[h] = m
      BY <1>0, <1>2, <2>1, <2>2 DEF OpenRuns, CallsInProgress
  <2> QED BY <1>1, <2>1, <2>2, <2>3 DEF PlaysOn, Running
<1>4. CASE Opened(c)
  <2>1. ~(ice.pc = "unregister" /\ ice.cam = c)
    <3> SUFFICES ASSUME ice.pc = "unregister", ice.cam = c PROVE FALSE
        OBVIOUS
    <3>1. ice'.cam = c /\ (CloseFind \/ CloseErase \/ UNCHANGED ice)
        BY <1>1, CloseGoesOn DEF Opened
    <3> QED BY <3>1 DEF CloseFind, CloseErase
  <2>2. ~(closer.pc = "erase" /\ closer.cam = c)
    <3> SUFFICES ASSUME closer.pc = "erase", closer.cam = c PROVE FALSE
        OBVIOUS
    <3>1. ice.pc = "stopping" /\ ice.cam = c
        BY CloserFacts
    <3>2. UNCHANGED closer \/ CloseErase
        BY <3>1, ControllerSteps
        DEF TaskBegin, BeginOpen, TaskConnect, AlreadyLoggedIn, LogIn, Play, SetPlayHandle,
            TaskOpened, TaskOpenFails, RegisterCallback, LogInFails, PlayFails, CloseFind,
            CloseMute, Mute, CloseStop, Stop, hikVars
    <3>3. CASE CloseErase
        BY <1>0, <3>1, <3>3 DEF CloseErase, TypeOK
    <3> QED BY <3>2, <3>3
  <2>3. PlaysOn(c)
      BY <1>0, <1>4, <2>1, <2>2 DEF PlayingStreams
  <2>4. h \in Handle /\ pUser[h] = m /\ Running(h)
      BY <2>3 DEF PlaysOn, Running
  <2>5. ASSUME sdkusers'[c] = h, preview'[h] = preview[h], pUser'[h] = pUser[h], silent' <=> silent
        PROVE  PlaysOn(c)'
      BY <1>1, <2>3, <2>5 DEF PlaysOn, Running
  \* The message thread opens another stream ...
  <2>6. opener.pc # "idle" => opener.req.cam # c
    <3> SUFFICES ASSUME opener.pc # "idle", opener.req.cam = c PROVE FALSE
        OBVIOUS
    <3>1. task.pc = "opening" /\ reply[m] = <<>>
        BY OpenerFacts
    <3> QED BY <1>4, <3>1 DEF Opened
  \* ... and the close of another camera works under another handle.
  <2>7. closer.pc \in {"mute", "stop"} /\ closer.cam # c => ClosingHandle # h
      BY <1>2, <2>4, CloserPlays
  <2>8. CASE UNCHANGED hikVars
      BY <2>5, <2>8 DEF hikVars, sdkVars
  <2>9. CASE TaskBegin \/ TaskOpened \/ TaskOpenFails
      BY <2>5, <2>9 DEF TaskBegin, BeginOpen, TaskOpened, TaskOpenFails, RegisterCallback,
                        LogInFails, PlayFails, sdkVars
  <2>10. CASE TaskConnect
    <3>1. ASSUME NEW g \in Handle, Play(g) PROVE g # h
        BY <2>4, <3>1 DEF Play, FreeHandle, Running
    <3> QED BY <1>0, <2>4, <2>5, <2>6, <2>10, <3>1
        DEF TaskConnect, AlreadyLoggedIn, LogIn, Play, SetPlayHandle, HikTypeOK, sdkVars
  <2>11. CASE CloseFind
    <3>1. closer.pc = "idle"
        BY <1>0, <2>11 DEF CloseFind, Control
    <3> QED BY <2>5, <2>11, <3>1 DEF CloseFind, BeginClose, sdkVars, hikVars
  <2>12. CASE CloseMute
    <3>1. Mute /\ closer.pc = "mute" /\ UNCHANGED <<sdkusers, pUser>>
          /\ closer'.pc = "stop" /\ closer'.cam = closer.cam
        BY <1>0, <2>12 DEF CloseMute, Mute, HikTypeOK
    <3>2. CASE closer.cam = c
      <4>1. preview'[h] \in {preview[h], "muted"}
          BY <1>0, <2>4, <3>1 DEF Mute, HikTypeOK
      <4> QED BY <1>1, <2>4, <3>1, <3>2, <4>1 DEF PlaysOn, Running
    <3>3. CASE closer.cam # c
      <4>1. preview'[h] = preview[h]
          BY <1>0, <2>4, <2>7, <3>1, <3>3 DEF Mute, HikTypeOK
      <4> QED BY <2>5, <3>1, <3>3, <4>1
    <3> QED BY <3>2, <3>3
  <2>13. CASE CloseStop
    <3>1. Stop /\ closer.pc = "stop" /\ UNCHANGED sdkusers
          /\ closer'.pc = "erase" /\ closer'.cam = closer.cam
        BY <1>0, <2>13 DEF CloseStop, Stop, HikTypeOK
    <3>2. closer.cam # c /\ ClosingHandle # h
        BY <2>7, <3>1
    <3>3. preview'[h] = preview[h] /\ pUser'[h] = pUser[h]
        BY <1>0, <2>4, <3>1, <3>2 DEF Stop, HikTypeOK
    <3>4. ~silent /\ ~silent' /\ sdkusers'[c] = h
        BY <3>1, <3>2
    <3> QED BY <2>5, <3>3, <3>4
  <2>14. CASE CloseErase
    <3>1. closer.pc = "erase" /\ closer' = NotClosing /\ UNCHANGED <<sdkusers, preview, pUser>>
        BY <2>14 DEF CloseErase, EraseCallback, sdkVars
    <3> QED BY <2>5, <3>1 DEF NotClosing
  <2> QED BY <2>8, <2>9, <2>10, <2>11, <2>12, <2>13, <2>14, ControllerSteps
<1> QED BY <1>1, <1>3, <1>4

\* The invariant of handles that come back.
LEMMA ReuseInvariant ==
    ASSUME PatientClients, SdkServes PROVE Spec => [](PatientInv /\ ReuseInv)
<1>1. Init => PatientInv /\ ReuseInv
    BY InitPatient, InitReuse
<1>2. PatientInv /\ ReuseInv /\ [Next]_vars => (PatientInv /\ ReuseInv)'
    BY StepPatient, StepRunning, StepStopped, StepOpenRuns, StepFailed, StepPlayingStreams
       DEF ReuseInv
<1> QED BY <1>1, <1>2, PTL DEF Spec

\* A stream answered "ok" plays until it is closed, also if its SdkUser, or that of
\* another camera, remembered the same handle from an earlier preview.
THEOREM OpenedPlaysOn == ASSUME PatientClients, SdkServes PROVE Spec => []OpenedIsPlaying
<1>1. PatientInv /\ ReuseInv => OpenedIsPlaying
  <2> SUFFICES ASSUME PatientInv, ReuseInv, NEW c \in Camera,
                      streams[c] # NoRequest, ice.cam # c, reply[streams[c]] = <<"ok">>
               PROVE  /\ sdkusers[c] \in Handle /\ preview[sdkusers[c]] = "playing"
                      /\ pUser[sdkusers[c]] = streams[c]
      BY DEF OpenedIsPlaying
  <2>1. Opened(c)
      BY DEF Opened
  <2>2. ~(closer.pc \in {"stop", "erase"} /\ closer.cam = c)
      BY CloserFacts
  <2> QED BY <2>1, <2>2 DEF ReuseInv, PlayingStreams, PlaysOn
<1> QED BY <1>1, ReuseInvariant, PTL

\* The stream a running preview calls is there, whichever handles come back.
THEOREM TargetStaysAlive == ASSUME PatientClients, SdkServes PROVE Spec => []PreviewTargetAlive
<1>1. ReuseInv => PreviewTargetAlive
    BY DEF ReuseInv, RunningPreviews, Running, PreviewTargetAlive
<1> QED BY <1>1, ReuseInvariant, PTL

\* Previews of one camera do not pile up, whichever handles come back.
THEOREM OnePreviewAgain ==
    ASSUME PatientClients, SdkServes PROVE Spec => []OnePreviewPerCamera
<1>1. ReuseInv => OnePreviewPerCamera
  <2> SUFFICES ASSUME ReuseInv, NEW g \in Handle, NEW h \in Handle, Running(g), Running(h),
                      pUser[g].cam = pUser[h].cam
               PROVE  g = h
      BY DEF OnePreviewPerCamera
  <2>1. RunningPreviews /\ OpenRuns
      BY DEF ReuseInv
  <2>2. pUser[g] = pUser[h]
      BY <2>1 DEF RunningPreviews
  <2>3. ASSUME NEW f \in Handle, Busy(f), pUser[f] = pUser[g] PROVE g = f /\ h = f
      BY <2>1, <2>2, <2>3 DEF OpenRuns, Busy
  <2>4. CASE Busy(g) \/ Busy(h)
      BY <2>2, <2>3, <2>4
  <2>5. CASE ~Busy(g) /\ ~Busy(h)
      BY <2>1, <2>5 DEF RunningPreviews
  <2> QED BY <2>4, <2>5
<1> QED BY <1>1, ReuseInvariant, PTL

\* A close mutes and stops the preview of its own camera, although handles come back and
\* a SdkUser never forgets its last one.
THEOREM CloseStopsOwnAgain ==
    ASSUME PatientClients, SdkServes PROVE Spec => CloseStopsOwnPreview
<1>1. PatientInv /\ ReuseInv /\ [Next]_vars =>
        [\A h \in Handle : Running(h) /\ preview'[h] # preview[h]
            => pUser[h].cam = closer.cam]_vars
  <2> SUFFICES ASSUME PatientInv, ReuseInv, [Next]_vars,
                      NEW h \in Handle, Running(h), preview'[h] # preview[h]
               PROVE  pUser[h].cam = closer.cam
      OBVIOUS
  <2>0. [HikNext]_hikVars /\ HikTypeOK
      BY ControllerFacts
  <2>1. Mute \/ Stop
    <3>1. ASSUME NEW g \in Handle, Play(g) PROVE FALSE
        BY <2>0, <3>1 DEF Play, FreeHandle, Running, HikTypeOK
    <3> QED BY <2>0, <3>1 DEF HikNext, OpenStep, CloseStep, BeginOpen, AlreadyLoggedIn,
            LogIn, LogInFails, PlayFails, SetPlayHandle, RegisterCallback, BeginClose,
            EraseCallback, sdkVars, hikVars
  <2>2. closer.pc \in {"mute", "stop"} /\ h = ClosingHandle
      BY <2>0, <2>1 DEF Mute, Stop, HikTypeOK
  <2> QED BY <2>2, CloserPlays
<1> QED BY <1>1, ReuseInvariant, PTL DEF Spec, CloseStopsOwnPreview
=============================================================================
