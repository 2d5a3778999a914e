\* Three producers, four tasks under way at most.
CONSTANTS
    Producer = {p1, p2, p3}
    Task = {t1, t2, t3, t4}
    NoTask = NoTask
    Worker = Worker
    NoThread = NoThread
SPECIFICATION FairSpec
INVARIANTS
    MQTypeOK
    NoLostWakeup
PROPERTIES
    ImplementsTaskQueue
    PushedTaskRuns
    SubmitReturns
