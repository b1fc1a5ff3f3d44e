SPECIFICATION Spec
CONSTANTS
    Nodes = {n1, n2, n3, n4}
    Null = Null
    Timeout = 3
    MaxNow = 6
    ClockSteps <- Forward
SYMMETRY Symmetry
INVARIANT WellLinked
INVARIANT Sorted
PROPERTY ImplementsTimerSet
