\* scan_cloudflare over the default subnets or a subnets file, every host or a
\* sample of one per subnet; every handshake outcome, close errors after
\* success, ties in latency, and an export cut at top_n.
CONSTANTS
    Hosts <- MCHosts
    DefaultSubnets <- MCDefaultSubnets
    SubnetFiles <- MCSubnetFiles
    Blank = Blank
    Comment = Comment
    Samples = {0, 1}
    Concurrency = 2
    Latencies <- MCLatencies
    TopN = 2
    NoError = NoError
    TimeoutErr = TimeoutErr
    SslErr = SslErr
    OsErr = OsErr
    OtherErr = OtherErr
SPECIFICATION Spec
INVARIANT TypeOK
INVARIANT RankedReport
INVARIANT CleanIpsFile
PROPERTY ScanTerminates
