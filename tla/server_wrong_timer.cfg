SPECIFICATION Spec
CONSTANTS
    f1 = f1 f2 = f2 f3 = f3 w1 = w1 w2 = w2
    NoFd = NoFd
    Fds <- TwoFds
    Workers <- TwoWorkers
    Conns = {1, 2, 3}
    MAX_FD = 2
    max_requests_ = 1
    actor_pattern_ = FALSE
    listenfd_trig_mode_ = FALSE
    MaxMissed = 1
    MaxFailures = 1
    SlowTasks = FALSE
PROPERTIES FireOwn
