----------------------------- MODULE TaskQueue -----------------------------
(***************************************************************************)
(* What the message thread promises whoever submits a task, and what        *)
(* StreamManager builds on: tasks run one at a time, in the order they were *)
(* submitted, and a submit waits for none of them.                          *)
(***************************************************************************)
EXTENDS Sequences

CONSTANTS
    Task,
    NoTask    \* nothing runs

VARIABLES
    todo,     \* tasks submitted and not yet begun
    current   \* the task that runs

taskVars == <<todo, current>>

Init == todo = <<>> /\ current = NoTask

Submit(t) ==
    /\ todo' = Append(todo, t)
    /\ UNCHANGED current

Begin ==
    /\ current = NoTask
    /\ todo # <<>>
    /\ current' = Head(todo)
    /\ todo' = Tail(todo)

End ==
    /\ current # NoTask
    /\ current' = NoTask
    /\ UNCHANGED todo

Next == (\E t \in Task : Submit(t)) \/ Begin \/ End

Spec == Init /\ [][Next]_taskVars
=============================================================================
