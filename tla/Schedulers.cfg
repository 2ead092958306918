SPECIFICATION Spec
CONSTANTS
    Delays = {0, 1, 3, 7}
    MaxUid = 5
    Widths = {1, 2}
    TopFactor = 1
    Nil = Nil
INVARIANTS CountsDistinct CancelFinds
PROPERTY ImplementsEventQueue
