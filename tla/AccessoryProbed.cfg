SPECIFICATION Spec
CONSTANTS
    d1 = d1
    NoFd = NoFd
    Fds = {d1}
    MaxProtocolErrors = 2
    ProbeExtraReads = 1
INVARIANT FramesToProbedSession
