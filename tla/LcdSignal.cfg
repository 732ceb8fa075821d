SPECIFICATION Spec
CONSTANTS
    Pictures = {0, 5}
    Interval = {"ti250ms"}
    LcdInterval = "ti250ms"
    Ticks <- MCTicks
    MaxCallbacks = 2
    Wrap = 3
    MaxLeaks = 1
INVARIANTS CrashesOnlyThere ResourcesKept ShownUnlessDirty
PROPERTY DrawnIsShown
CHECK_DEADLOCK FALSE
