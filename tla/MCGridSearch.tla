---------------------------- MODULE MCGridSearch ----------------------------
(* GridSearch with PARAM_SPACE and PARAM_GROUPS cut down to a few values   *)
(* per key; group names, key names and QUICK_PARAMS are the code's.  A  *)
(* value is a token: the list ["h2"] and the bool True are strings here. *)
EXTENDS GridSearch

MCParamSpace ==
    ("fragment_length" :> <<"1-1">>) @@
    ("fingerprint" :> <<"chrome", "firefox", "safari">>) @@
    ("alpn" :> <<"h2">>) @@
    ("ech_enabled" :> <<"True">>) @@
    ("ech_dns" :> <<"True">>)

MCParamGroups ==
    ("fragment_length" :> <<"fragment_length">>) @@
    ("fingerprint" :> <<"fingerprint">>) @@
    ("alpn" :> <<"alpn">>) @@
    ("ech" :> <<"ech_enabled", "ech_dns">>)

(* --mode smart --params fingerprint,alpn and --mode full with a group of *)
(* two keys.                                                               *)
MCInvocations ==
    { [mode |-> "smart", params |-> <<"fingerprint", "alpn">>],
      [mode |-> "full", params |-> <<"fingerprint", "ech", "alpn">>] }
(* quick_search ignores the params. *)
MCQuickInvocations == { [mode |-> "quick", params |-> <<"fingerprint", "alpn">>] }
MCQuickGroups == <<"fragment", "fingerprint", "alpn">>
MCQuickParams == <<"fragment_length", "fingerprint", "alpn">>
=============================================================================
