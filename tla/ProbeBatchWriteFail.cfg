\* A temp-file write that raises: the batch must still return and leave no temp file.
CONSTANTS
    Tests <- MCTests
    Concurrency = 2
    BasePort = 20000
    PoolSize = 3
    StartCounters = {0, 2}
    MeasureSpeed = FALSE
    Latencies = {0}
    Speeds <- MCSpeeds
    CloseMayFail = FALSE
    CallbackMayFail = FALSE
    WriteMayFail = TRUE
    NoError = NoError
    ExitErr = ExitErr
    HttpErr = HttpErr
    TimeoutErr = TimeoutErr
    ClientErr = ClientErr
    SpawnErr = SpawnErr
SPECIFICATION Spec
PROPERTY BatchEndsClean
