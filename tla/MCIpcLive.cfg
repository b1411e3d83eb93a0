CONSTANTS
    t1 = t1 t2 = t2 t3 = t3
    e1 = e1 e2 = e2
    m1 = m1 m2 = m2 m3 = m3
    kernel = kernel user = user
    None = None
    Threads = {t1, t2}
    Endpoints = {e1}
    Messages = {m1}
    Processes = {kernel, user}
    ProcessOf <- MCProcessOf
    Kernel = kernel
    WaitIdLimit = 2
    EndpointIdLimit = 2
    HalfRange = 3
SPECIFICATION FairSpec
PROPERTIES TimedCallsEnd DecidedCallReturns
