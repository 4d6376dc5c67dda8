SPECIFICATION LiveSpec
CONSTANTS
    Models = {a}
    Threads = {t1, t2}
    models_max = 1
    Environment <- Requests
    MaxArrivals = 2
    MaxFaults = 1
PROPERTIES
    RequestAnswered
CHECK_DEADLOCK FALSE
