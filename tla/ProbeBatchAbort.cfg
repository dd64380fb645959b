\* A temp-file write that raises: gather raises and asyncio.run cancels the rest;
\* the session close and the on_result callback may raise.
CONSTANTS
    Tests <- MCTests
    Concurrency = 2
    BasePort = 20000
    PoolSize = 3
    StartCounters = {0, 2}
    MeasureSpeed = FALSE
    Latencies = {0}
    Speeds <- MCSpeeds
    CloseMayFail = TRUE
    CallbackMayFail = TRUE
    WriteMayFail = TRUE
    NoError = NoError
    ExitErr = ExitErr
    HttpErr = HttpErr
    TimeoutErr = TimeoutErr
    ClientErr = ClientErr
    SpawnErr = SpawnErr
SPECIFICATION Spec
INVARIANT PermitsAccounted
INVARIANT NoChildOutlivesTasks
