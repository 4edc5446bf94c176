SPECIFICATION Spec
CONSTANTS
    f1 = f1
    f2 = f2
    f3 = f3
    p1 = p1
    p2 = p2
    NoPid = NoPid
    Fds = {f1, f2, f3}
    Pids = {p1, p2}
    MaxSources = 3
    MaxPriority = 5
SYMMETRY FdSymmetry
PROPERTY StreamOpensWithKeyframe
