-------------------------- MODULE MCXrayDownloader --------------------------
(* Every machine the search order distinguishes: a frozen bundle, xray on *)
(* $PATH, neither (on a supported platform or not).                       *)
EXTENDS XrayDownloader

MCEnvs == [bundled : BOOLEAN, onPath : BOOLEAN, platformOk : BOOLEAN]
=============================================================================
