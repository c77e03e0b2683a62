SPECIFICATION Spec
CONSTANTS
    Workers = {w1, w2, w3}
    Tasks = {t1, t2, t3, t4}
    Owner = owner
    NoTask = NoTask
INVARIANTS
    Fifo
    Drained
    NoLostWakeup
PROPERTIES
    DestructorReturns
    ImplementsExecutor
