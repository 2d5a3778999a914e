---------------------------- MODULE QueueLemmas ----------------------------
(* What the operations of a FIFO queue do to its elements. *)
EXTENDS Naturals, Sequences, TLAPS

\* What the queue holds after a submit.
LEMMA AppendElements ==
    ASSUME NEW S, NEW q \in Seq(S), NEW e \in S
    PROVE  /\ Append(q, e) \in Seq(S)
           /\ Len(Append(q, e)) = Len(q) + 1
           /\ \A i \in 1..Len(q) : Append(q, e)[i] = q[i]
           /\ Append(q, e)[Len(q) + 1] = e
OBVIOUS

\* What it holds after a pop.
LEMMA TailElements ==
    ASSUME NEW S, NEW q \in Seq(S), q # <<>>
    PROVE  /\ Tail(q) \in Seq(S)
           /\ Head(q) = q[1] /\ q[1] \in S
           /\ Len(q) \in Nat \ {0}
           /\ Len(Tail(q)) = Len(q) - 1
           /\ \A i \in 1..(Len(q) - 1) : Tail(q)[i] = q[i + 1]
OBVIOUS

\* An element taken out in front and put back in front gives the queue again.
LEMMA PopAndHold ==
    ASSUME NEW S, NEW q \in Seq(S), q # <<>>
    PROVE  <<Head(q)>> \o Tail(q) = q
OBVIOUS

\* A push at the end does not see what is held in front.
LEMMA PushBehind ==
    ASSUME NEW S, NEW p \in Seq(S), NEW q \in Seq(S), NEW e \in S
    PROVE  p \o Append(q, e) = Append(p \o q, e)
OBVIOUS

\* An element held in front is the next to go.
LEMMA HeldInFront ==
    ASSUME NEW S, NEW q \in Seq(S), NEW e \in S
    PROVE  /\ <<e>> \o q # <<>>
           /\ Head(<<e>> \o q) = e
           /\ Tail(<<e>> \o q) = q
OBVIOUS

\* Nothing held, nothing in front.
LEMMA NothingHeld ==
    ASSUME NEW S, NEW q \in Seq(S)
    PROVE  <<>> \o q = q
OBVIOUS
=============================================================================
