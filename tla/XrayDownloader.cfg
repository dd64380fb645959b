\* One scanner process run up to four times on each kind of machine, with
\* a failure or a kill possible at every step of the download.
CONSTANTS
    Procs = {p1}
    MaxRuns = 4
    Envs <- MCEnvs
SPECIFICATION Spec
INVARIANT LocalBinaryUsable
INVARIANT NoZipLeak
