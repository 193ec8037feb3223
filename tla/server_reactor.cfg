SPECIFICATION FairSpec
CONSTANTS
    f1 = f1 f2 = f2 f3 = f3 w1 = w1 w2 = w2
    NoFd = NoFd
    Fds <- TwoFds
    Workers <- OneWorker
    Conns = {1, 2}
    MAX_FD = 2
    max_requests_ = 1
    actor_pattern_ = TRUE
    listenfd_trig_mode_ = FALSE
    MaxMissed = 0
    MaxFailures = 1
    SlowTasks = TRUE
INVARIANTS OneTask ReactorQueue
PROPERTIES SpinEnds NoneStuck
