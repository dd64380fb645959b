\* vless bases whose export is not the probed config: a fragment winner,
\* a base without TLS, a base with allowInsecure.
CONSTANTS
    Unquote <- MCUnquote
    Quote <- MCQuote
    PortInt <- MCPortInt
    AlpnSplit <- MCAlpnSplit
    Sources <- MCSourcesDivergent
    ResultSeqs <- MCResultSeqs
    TopN = 2
SPECIFICATION Spec
INVARIANT ExportReproducesProbe
