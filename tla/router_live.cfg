SPECIFICATION LiveSpec
CONSTANTS
    Models = {a, b}
    Threads = {t1, t2, t3}
    models_max = 1
    Environment <- Requests
    MaxArrivals = 3
    MaxFaults = 0
PROPERTIES
    RequestAnswered
CHECK_DEADLOCK FALSE
