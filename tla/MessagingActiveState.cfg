SPECIFICATION Spec
CONSTANTS
    f1 = f1
    f2 = f2
    c1 = c1
    c2 = c2
    p1 = p1
    p2 = p2
    NoPid = NoPid
    NoSize = NoSize
    Fds = {f1, f2}
    ClientFds = {c1, c2}
    Pids = {p1, p2}
    MaxClients = 2
    Sizes = {}
SYMMETRY Symmetry
INVARIANT ActiveStateTrue
