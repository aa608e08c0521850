SPECIFICATION MCSpec
CONSTANTS
    Exceptions = {2, 14, 17}
    Irqs = {1, 7}
    MaxFaults = 2
INVARIANTS HandlersSound StopsOnlyFaulted TimerCalibrated
PROPERTIES Resumed TimerServed
