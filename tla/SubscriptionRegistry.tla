------------------------ MODULE SubscriptionRegistry ------------------------
(***************************************************************************)
(* What StreamManager promises its clients, without streams, buffers,       *)
(* threads or the SDK: a table of subscriptions, at most one per camera and *)
(* call id.  A subscription answered "ok" lasts until its call is closed; a *)
(* request answered "failed" has none.                                      *)
(***************************************************************************)
CONSTANT Request   \* records with fields cam and callid

VARIABLES received, members, answer

regVars == <<received, members, answer>>

Pending(r) == r \in received /\ answer[r] = "none"

\* The subscriptions of the call id k on camera c.
Of(c, k) == {q \in members : q.cam = c /\ q.callid = k}

Init ==
    /\ received = {}
    /\ members = {}
    /\ answer = [r \in Request |-> "none"]

Reply(r, a) == answer' = [answer EXCEPT ![r] = a]

\* A request is received, and subscribed at once when its camera was not open.
Receive(r) ==
    /\ r \notin received
    /\ received' = received \cup {r}
    /\ \/ members' = members
       \/ Of(r.cam, r.callid) = {} /\ members' = members \cup {r}
    /\ UNCHANGED answer

\* The call is subscribed already.
Refuse(r) ==
    /\ r \notin received
    /\ Of(r.cam, r.callid) # {}
    /\ received' = received \cup {r}
    /\ Reply(r, "failed")
    /\ UNCHANGED members

\* A subscription to a camera that is open already.
Admit(r) ==
    /\ Pending(r)
    /\ Of(r.cam, r.callid) = {}
    /\ members' = members \cup {r}
    /\ Reply(r, "ok")
    /\ UNCHANGED received

\* The camera was opened for r.
Confirm(r) ==
    /\ Pending(r)
    /\ r \in members
    /\ Reply(r, "ok")
    /\ UNCHANGED <<received, members>>

\* It could not be: the subscription goes, then the answer is sent.
Withdraw(r) ==
    /\ Pending(r)
    /\ members' = members \ {r}
    /\ UNCHANGED <<received, answer>>

Fail(r) ==
    /\ Pending(r)
    /\ r \notin members
    /\ Reply(r, "failed")
    /\ UNCHANGED <<received, members>>

\* A client closes a call whose open was answered.
Close(c, k) ==
    /\ \A q \in Of(c, k) : ~Pending(q)
    /\ members' = members \ Of(c, k)
    /\ UNCHANGED <<received, answer>>

Next ==
    \E r \in Request :
        \/ Receive(r) \/ Refuse(r) \/ Admit(r) \/ Confirm(r) \/ Withdraw(r) \/ Fail(r)
        \/ Close(r.cam, r.callid)

Spec == Init /\ [][Next]_regVars
=============================================================================
