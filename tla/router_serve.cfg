SPECIFICATION Spec
CONSTANTS
    Models = {a, b}
    Threads = {t1, t2, t3}
    models_max = 1
    Environment <- AllEvents
    MaxArrivals = 3
    MaxFaults = 1
SYMMETRY Workers
INVARIANTS
    TypeOK
    WithinLimit
    WaitersCounted
    RequestsCounted
    StoppingEnds
    StopHitsItsInstance
PROPERTIES
    TickSparesBusy
CHECK_DEADLOCK FALSE
