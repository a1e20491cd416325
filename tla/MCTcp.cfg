SPECIFICATION Spec
CONSTANTS
    MOD = 32
    TCP_MSS = 2
    TCP_WND = 2
    TCP_SND_BUF = 4
    TCP_SND_QUEUELEN = 4
    TCP_MAXRTX = 2
    ISS <- MCISS
    ISS_STEP = 8
    PLANS <- MCPLANS
    NETMAX = 3
INVARIANTS StreamIntegrity QueuesComplete EndsAgree
PROPERTIES AllFreed
CHECK_DEADLOCK FALSE
