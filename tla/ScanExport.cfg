\* Every source and result list, CLI and wizard, top_n cut at two.
CONSTANTS
    Unquote <- MCUnquote
    Quote <- MCQuote
    PortInt <- MCPortInt
    AlpnSplit <- MCAlpnSplit
    Sources <- MCSources
    ResultSeqs <- MCResultSeqs
    TopN = 2
SPECIFICATION Spec
INVARIANT ExportKeepsFpAlpn
INVARIANT ExportIsTopWorking
INVARIANT BestViewsAgree
