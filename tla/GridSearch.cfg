\* Smart search and the full grid over the same requested groups: a group
\* of two keys, and a group with more values than top_n so the cut happens.
CONSTANTS
    ParamSpace <- MCParamSpace
    ParamGroups <- MCParamGroups
    QuickGroups <- MCQuickGroups
    QuickParams <- MCQuickParams
    Invocations <- MCInvocations
    TopN = 2
    Latencies = {1, 2}
SPECIFICATION Spec
INVARIANT TypeOK
INVARIANT SweepCoversIntended
INVARIANT CombosFromTopWinners
INVARIANT FullGridIsProduct
