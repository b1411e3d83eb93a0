CONSTANTS
    t1 = t1 t2 = t2 t3 = t3
    e1 = e1 e2 = e2
    m1 = m1 m2 = m2 m3 = m3
    kernel = kernel user = user
    None = None
    Threads = {t1, t2, t3}
    Endpoints = {e1}
    Messages = {m1, m2}
    Processes = {kernel, user}
    ProcessOf <- MCProcessOf
    Kernel = kernel
    WaitIdLimit = 3
    EndpointIdLimit = 1
    HalfRange = 2
SPECIFICATION Spec
SYMMETRY MessageSymmetry
INVARIANTS NeverHalts NoLostWakeup MessagesKept TimeoutSlotAvailable
