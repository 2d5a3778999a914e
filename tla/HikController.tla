--------------------------- MODULE HikController ---------------------------
(***************************************************************************)
(* HikCamaraController (src/src/hkdevice/hikcontroller.cpp): logs in to     *)
(* cameras, starts and stops their live previews, and owns the data         *)
(* callbacks it hands to the vendor SDK.                                    *)
(*                                                                         *)
(* Two threads call it at once: the message thread runs openRealStream and  *)
(* an Ice thread runs closeRealStream.  Every step below ends where the     *)
(* other thread can observe the difference: a vendor call, a change of the  *)
(* play handle a SdkUser remembers, or a section under streamMutex_.        *)
(*                                                                         *)
(* The heap object dataCallBack allocated by an open is named by the        *)
(* request that opens, so "the callback of r" is simply r.                  *)
(***************************************************************************)
EXTENDS Naturals, FiniteSets

CONSTANTS
    Camera,        \* device ids, the keys of sdkusers_
    CallId,        \* call ids chosen by the clients
    Handle,        \* the play handles the SDK can give out (>= 0 in the code)
    Request,       \* requests to open a live stream
    NoRequest,     \* "no callback" / "no request"
    NoCamera,
    NoHandle,      \* the -1 a fresh SdkUser holds instead of a play handle
    NoUser,        \* the id has no entry in sdkusers_
    LoginMayFail,  \* may NET_DVR_Login_V40 fail?
    PlayMayFail,   \* may NET_DVR_RealPlay_V40 fail although a handle is free?
    MuteMayFail,   \* may NET_DVR_SetRealDataCallBack fail on a running preview?
    StopMayFail,   \* may NET_DVR_StopRealPlay fail on a running preview?
    HandleReuse    \* may the SDK give out the handle of a stopped preview?

\* A request names a camera and a call; seq tells repetitions apart.
ASSUME RequestAssumption == Request \subseteq [cam : Camera, callid : CallId, seq : Nat]

ASSUME NoneAssumption == /\ NoRequest \notin Request
                         /\ NoCamera \notin Camera
                         /\ NoHandle \notin Handle
                         /\ NoUser \notin Handle \cup {NoHandle}

ASSUME SdkAssumption ==
    {LoginMayFail, PlayMayFail, MuteMayFail, StopMayFail, HandleReuse} \subseteq BOOLEAN

VARIABLES
    sdkusers,     \* sdkusers_ : camera -> the play handle of its SdkUser
    sessions,     \* SDK: number of login sessions of each camera
    preview,      \* SDK: state of each play handle
    pUser,        \* SDK: the user pointer (callback) of each play handle
    refused,      \* history: the running previews the SDK refused to stop
    cbMap,        \* cbMap_ : play handle -> callback, NoRequest when absent
    freed,        \* the callbacks that were deleted
    opener,       \* openRealStream in progress on the message thread
    closer        \* closeRealStream in progress on an Ice thread

sdkVars == <<sessions, preview, pUser, refused>>
hikVars == <<sdkusers, sessions, preview, pUser, refused, cbMap, freed, opener, closer>>

PlayHandle == Handle \cup {NoHandle}
NotOpening == [pc |-> "idle", req |-> NoRequest, handle |-> NoHandle]
NotClosing == [pc |-> "idle", cam |-> NoCamera]

HikTypeOK ==
    /\ sdkusers \in [Camera -> PlayHandle \cup {NoUser}]
    /\ sessions \in [Camera -> Nat]
    /\ preview \in [Handle -> {"unused", "playing", "muted", "stopped"}]
    /\ pUser \in [Handle -> Request \cup {NoRequest}]
    /\ refused \subseteq Handle
    /\ cbMap \in [Handle -> Request \cup {NoRequest}]
    /\ freed \subseteq Request
    /\ opener \in [pc : {"idle", "login", "play", "setHandle", "register"},
                   req : Request \cup {NoRequest}, handle : PlayHandle]
    /\ closer \in [pc : {"idle", "mute", "stop", "erase"}, cam : Camera \cup {NoCamera}]

HikInit ==
    /\ sdkusers = [c \in Camera |-> NoUser]
    /\ sessions = [c \in Camera |-> 0]
    /\ preview = [h \in Handle |-> "unused"]
    /\ pUser = [h \in Handle |-> NoRequest]
    /\ refused = {}
    /\ cbMap = [h \in Handle |-> NoRequest]
    /\ freed = {}
    /\ opener = NotOpening
    /\ closer = NotClosing

-----------------------------------------------------------------------------
(* openRealStream, on the message thread *)

BeginOpen(r) ==
    /\ opener.pc = "idle"
    /\ opener' = [pc |-> "login", req |-> r, handle |-> NoHandle]
    /\ UNCHANGED <<sdkusers, sdkVars, cbMap, freed, closer>>

\* The camera is found in sdkusers_.
AlreadyLoggedIn ==
    /\ opener.pc = "login"
    /\ sdkusers[opener.req.cam] # NoUser
    /\ opener' = [opener EXCEPT !.pc = "play"]
    /\ UNCHANGED <<sdkusers, sdkVars, cbMap, freed, closer>>

\* Mutant: logIn without looking in sdkusers_ first (emplace keeps the entry).
LogIn_Unchecked ==
    LET c == opener.req.cam IN
    /\ opener.pc = "login"
    /\ sessions' = [sessions EXCEPT ![c] = @ + 1]
    /\ sdkusers' = [sdkusers EXCEPT ![c] = IF @ = NoUser THEN NoHandle ELSE @]
    /\ opener' = [opener EXCEPT !.pc = "play"]
    /\ UNCHANGED <<preview, pUser, refused, cbMap, freed, closer>>

\* logIn succeeds: a new session, and an SdkUser that has no handle yet.
LogIn ==
    LET c == opener.req.cam IN
    /\ opener.pc = "login"
    /\ sdkusers[c] = NoUser
    /\ sessions' = [sessions EXCEPT ![c] = @ + 1]
    /\ sdkusers' = [sdkusers EXCEPT ![c] = NoHandle]
    /\ opener' = [opener EXCEPT !.pc = "play"]
    /\ UNCHANGED <<preview, pUser, refused, cbMap, freed, closer>>

LogInFails ==
    /\ opener.pc = "login"
    /\ LoginMayFail
    /\ sdkusers[opener.req.cam] = NoUser
    /\ opener' = NotOpening
    /\ UNCHANGED <<sdkusers, sdkVars, cbMap, freed, closer>>

FreeHandle(h) == preview[h] = "unused" \/ (HandleReuse /\ preview[h] = "stopped")

\* NET_DVR_RealPlay_V40 starts a preview that calls the new dataCallBack.
Play(h) ==
    /\ opener.pc = "play"
    /\ FreeHandle(h)
    /\ preview' = [preview EXCEPT ![h] = "playing"]
    /\ pUser' = [pUser EXCEPT ![h] = opener.req]
    /\ opener' = [opener EXCEPT !.pc = "setHandle", !.handle = h]
    /\ UNCHANGED <<sdkusers, sessions, refused, cbMap, freed, closer>>

\* The new dataCallBack is leaked here.
PlayFails ==
    /\ opener.pc = "play"
    /\ PlayMayFail \/ \A h \in Handle : ~FreeHandle(h)
    /\ opener' = NotOpening
    /\ UNCHANGED <<sdkusers, sdkVars, cbMap, freed, closer>>

\* Mutants: the handle is never stored, or stored only in a fresh SdkUser.
SetPlayHandle_Never ==
    /\ opener.pc = "setHandle"
    /\ opener' = [opener EXCEPT !.pc = "register"]
    /\ UNCHANGED <<sdkusers, sdkVars, cbMap, freed, closer>>

SetPlayHandle_Once ==
    /\ opener.pc = "setHandle"
    /\ sdkusers' = [sdkusers EXCEPT ![opener.req.cam] = IF @ = NoHandle THEN opener.handle ELSE @]
    /\ opener' = [opener EXCEPT !.pc = "register"]
    /\ UNCHANGED <<sdkVars, cbMap, freed, closer>>

SetPlayHandle ==
    /\ opener.pc = "setHandle"
    /\ sdkusers' = [sdkusers EXCEPT ![opener.req.cam] = opener.handle]
    /\ opener' = [opener EXCEPT !.pc = "register"]
    /\ UNCHANGED <<sdkVars, cbMap, freed, closer>>

\* cbMap_.emplace under streamMutex_: an entry that is there already stays.
RegisterCallback ==
    LET h == opener.handle IN
    /\ opener.pc = "register"
    /\ cbMap' = IF cbMap[h] = NoRequest THEN [cbMap EXCEPT ![h] = opener.req] ELSE cbMap
    /\ opener' = NotOpening
    /\ UNCHANGED <<sdkusers, sdkVars, freed, closer>>

-----------------------------------------------------------------------------
(* closeRealStream, on an Ice thread; it reads the play handle three times *)

\* An id that never logged in: return false, nothing changes.
UnknownUser(c) == closer.pc = "idle" /\ sdkusers[c] = NoUser

\* Mutant: the callback is deleted without muting and stopping the preview.
BeginClose_ErasesOnly(c) ==
    /\ closer.pc = "idle"
    /\ sdkusers[c] # NoUser
    /\ closer' = [pc |-> "erase", cam |-> c]
    /\ UNCHANGED <<sdkusers, sdkVars, cbMap, freed, opener>>

BeginClose(c) ==
    /\ closer.pc = "idle"
    /\ sdkusers[c] # NoUser
    /\ closer' = [pc |-> "mute", cam |-> c]
    /\ UNCHANGED <<sdkusers, sdkVars, cbMap, freed, opener>>

ClosingHandle == sdkusers[closer.cam]

Running(h) == h \in Handle /\ preview[h] \in {"playing", "muted"}

\* NET_DVR_SetRealDataCallBack(handle, NULL); a failure is only logged.
Mute ==
    LET h == ClosingHandle IN
    /\ closer.pc = "mute"
    /\ closer' = [closer EXCEPT !.pc = "stop"]
    /\ \/ /\ Running(h)
          /\ preview' = [preview EXCEPT ![h] = "muted"]
       \/ /\ MuteMayFail \/ ~Running(h)
          /\ UNCHANGED preview
    /\ UNCHANGED <<sdkusers, sessions, pUser, refused, cbMap, freed, opener>>

\* NET_DVR_StopRealPlay; a failure is only logged, and the close goes on.
Stop ==
    LET h == ClosingHandle IN
    /\ closer.pc = "stop"
    /\ closer' = [closer EXCEPT !.pc = "erase"]
    /\ \/ /\ Running(h)
          /\ preview' = [preview EXCEPT ![h] = "stopped"]
          /\ pUser' = [pUser EXCEPT ![h] = NoRequest]
          /\ refused' = refused \ {h}
       \/ /\ StopMayFail \/ ~Running(h)
          /\ refused' = IF Running(h) THEN refused \cup {h} ELSE refused
          /\ UNCHANGED <<preview, pUser>>
    /\ UNCHANGED <<sdkusers, sessions, cbMap, freed, opener>>

\* Mutant: the entry stays in cbMap_ after the delete.
EraseCallback_KeepsEntry ==
    LET h == ClosingHandle IN
    /\ closer.pc = "erase"
    /\ closer' = NotClosing
    /\ freed' = IF h \in Handle /\ cbMap[h] # NoRequest THEN freed \cup {cbMap[h]} ELSE freed
    /\ UNCHANGED <<sdkusers, sdkVars, cbMap, opener>>

\* Mutant: a failed StopRealPlay skips the rest.
EraseCallback_IfStopped ==
    LET h == ClosingHandle IN
    /\ closer.pc = "erase"
    /\ closer' = NotClosing
    /\ IF h \in Handle /\ preview[h] = "stopped"
       THEN /\ freed' = freed \cup ({cbMap[h]} \ {NoRequest})
            /\ cbMap' = [cbMap EXCEPT ![h] = NoRequest]
       ELSE UNCHANGED <<freed, cbMap>>
    /\ UNCHANGED <<sdkusers, sdkVars, opener>>

\* Under streamMutex_: delete the callback registered for the handle.
EraseCallback ==
    LET h == ClosingHandle IN
    /\ closer.pc = "erase"
    /\ closer' = NotClosing
    /\ IF h \in Handle /\ cbMap[h] # NoRequest
       THEN /\ freed' = freed \cup {cbMap[h]}
            /\ cbMap' = [cbMap EXCEPT ![h] = NoRequest]
       ELSE UNCHANGED <<freed, cbMap>>
    /\ UNCHANGED <<sdkusers, sdkVars, opener>>

-----------------------------------------------------------------------------
(* The controller alone: one thread opens and one closes, at will.  A newly    *)
(* allocated callback is none of those still known to anybody.                *)

Fresh(r) ==
    /\ r \notin freed
    /\ \A h \in Handle : cbMap[h] # r /\ pUser[h] # r

OpenStep ==
    \/ \E r \in Request : Fresh(r) /\ BeginOpen(r)
    \/ AlreadyLoggedIn \/ LogIn \/ LogInFails
    \/ \E h \in Handle : Play(h)
    \/ PlayFails \/ SetPlayHandle \/ RegisterCallback

CloseStep == (\E c \in Camera : BeginClose(c)) \/ Mute \/ Stop \/ EraseCallback

HikNext == OpenStep \/ CloseStep

HikSpec == HikInit /\ [][HikNext]_hikVars

-----------------------------------------------------------------------------
(* What the controller promises to callers that open and close at will *)

\* A camera has one login session when it has an SdkUser and none before,
\* however opens of it are repeated (the find before logIn).
OneLoginPerCamera ==
    \A c \in Camera : sessions[c] = IF sdkusers[c] = NoUser THEN 0 ELSE 1

\* No callback is deleted twice or used again for registration: what cbMap_
\* holds is alive and held once, and so is the callback about to be stored.
NoDoubleFree ==
    /\ \A h \in Handle : cbMap[h] \notin freed
    /\ \A h, g \in Handle : cbMap[h] = cbMap[g] /\ h # g => cbMap[h] = NoRequest
    /\ opener.pc # "idle" => /\ opener.req \notin freed
                             /\ \A h \in Handle : cbMap[h] # opener.req
=============================================================================
