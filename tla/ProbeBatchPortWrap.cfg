\* A pool smaller than the probes one slow probe outlives.
CONSTANTS
    Tests <- MCTests
    Concurrency = 2
    BasePort = 20000
    PoolSize = 2
    StartCounters = {0}
    MeasureSpeed = FALSE
    Latencies <- MCLatencies
    Speeds <- MCSpeeds
    CloseMayFail = FALSE
    CallbackMayFail = FALSE
    WriteMayFail = FALSE
    NoError = NoError
    ExitErr = ExitErr
    HttpErr = HttpErr
    TimeoutErr = TimeoutErr
    ClientErr = ClientErr
    SpawnErr = SpawnErr
SPECIFICATION Spec
INVARIANT PortsExclusive
