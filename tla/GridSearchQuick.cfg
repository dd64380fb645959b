\* Quick mode must sweep QUICK_PARAMS (fragment, fingerprint, alpn).
CONSTANTS
    ParamSpace <- MCParamSpace
    ParamGroups <- MCParamGroups
    QuickGroups <- MCQuickGroups
    QuickParams <- MCQuickParams
    Invocations <- MCQuickInvocations
    TopN = 2
    Latencies = {1, 2}
SPECIFICATION Spec
INVARIANT SweepCoversIntended
