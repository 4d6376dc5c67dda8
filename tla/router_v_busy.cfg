SPECIFICATION Spec
CONSTANTS
    Models = {a, b}
    Threads = {t1, t2, t3}
    models_max = 1
    Environment = {}
    MaxArrivals = 3
    MaxFaults = 1
SYMMETRY Workers
PROPERTIES
    BusySurvives
CHECK_DEADLOCK FALSE
