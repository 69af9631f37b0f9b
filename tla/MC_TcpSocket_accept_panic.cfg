\* Accept of a connection that the peer resets before the task runs again.
CONSTANTS
    t1 = t1
    t2 = t2
    t3 = t3
    Tasks <- MC_Tasks1
    N = 1
    MaxQ = 0
SPECIFICATION Spec
INVARIANT AcceptNeverPanics
