\* Normal batches: every probe outcome, the child dying at any moment, the
\* port counter wrapping, and no exception escaping a task.
CONSTANTS
    Tests <- MCTests
    Concurrency = 2
    BasePort = 20000
    PoolSize = 3
    StartCounters = {0, 2}
    MeasureSpeed = TRUE
    Latencies <- MCLatencies
    Speeds <- MCSpeeds
    CloseMayFail = FALSE
    CallbackMayFail = FALSE
    WriteMayFail = FALSE
    NoError = NoError
    ExitErr = ExitErr
    HttpErr = HttpErr
    TimeoutErr = TimeoutErr
    ClientErr = ClientErr
    SpawnErr = SpawnErr
SPECIFICATION Spec
INVARIANT TypeOK
INVARIANT CleanAfterReturn
PROPERTY ImplementsBatch
