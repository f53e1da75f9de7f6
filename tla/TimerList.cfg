SPECIFICATION TimersSpec
CONSTANTS
    Timers = {t1, t2, t3, t4}
    MaxTime = 6
SYMMETRY TimerSymmetry
INVARIANT FirstNotExpired
PROPERTY ImplementsTimerSpec
