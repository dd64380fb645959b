\* build_xray_json over every modelled BaseConfig shape and override dict.
CONSTANTS
    Bases <- MCBases
    OverrideSets <- MCOverrideSets
    AlpnSplit <- MCAlpnSplit
SPECIFICATION Spec
INVARIANT OverridePrecedence
INVARIANT SingletonTouchesOnlyItsField
