----------------------------- MODULE ScanExport -----------------------------
(***************************************************************************)
(* The scan command around the search: cmd_scan and cmd_scan_wizard of    *)
(* src/tools/scanner/scanner.py with ask_config_input of wizard.py load   *)
(* the BaseConfig from a URI or a configs file (UriCodec), the search      *)
(* returns its results (GridSearch models how), and report.py shows the   *)
(* summary, saves every result and writes the best working configs back  *)
(* as URIs; the wizard's menu can print the best one again.                *)
(*                                                                         *)
(* The properties re-import every exported URI and build its document     *)
(* with build_xray_json (ConfigBuilder), to compare it with the document   *)
(* that was probed.                                                        *)
(***************************************************************************)
EXTENDS Integers, Sequences, FiniteSets, SequencesExt, UriCodec

CONSTANTS
    Sources,     \* what the user hands in: [kind |-> "uri", uri] or [kind |-> "file", lines]
    ResultSeqs,  \* result lists the search can return
    TopN,        \* top_n of export_best_uris
    AlpnSplit    \* str.split(",") on the alpn strings that occur

ASSUME TopN \in Nat \ {0}

CB == INSTANCE ConfigBuilder WITH base <- Empty, ov <- Empty, doc <- Empty,
                                  Bases <- {}, OverrideSets <- {}

VARIABLES
    mode,      \* "cli" (scanner.py scan) or "wizard"
    stage,     \* load, search, output, menu, done, exit
    input,     \* the URI or file the user gave
    base,      \* configs[0]
    results,   \* what the search returned
    report,    \* the summary show_final_report prints
    saved,     \* results.json
    exported,  \* the results export_best_uris wrote, in order
    lines,     \* best_configs.txt, one URI per exported result
    shown      \* the URI the wizard's "export_uri" printed

vars == <<mode, stage, input, base, results, report, saved, exported, lines, shown>>

NoShown == [scheme |-> "none"]

(* The configs a source yields: parse_uri for a URI (None gives none),    *)
(* parse_multi for a file.                                                 *)
Configs(src) ==
    IF src.kind = "uri"
    THEN IF ParseUri(src.uri) = NoConfig THEN << >> ELSE << ParseUri(src.uri) >>
    ELSE ParseMulti(src.lines)

(* Insertion step of sorted(key=latency_ms), which is stable. *)
RECURSIVE InsertStable(_, _)
InsertStable(x, s) ==
    IF s = << >> THEN << x >>
    ELSE IF Head(s).latency <= x.latency THEN << Head(s) >> \o InsertStable(x, Tail(s))
         ELSE << x >> \o s

RECURSIVE SortByLatency(_)
SortByLatency(s) ==
    IF s = << >> THEN s ELSE InsertStable(Last(s), SortByLatency(Front(s)))

(* Mutant: the working results are not sorted by latency. *)
WorkingUnsorted(rs) == SelectSeq(rs, LAMBDA r : r.success)

(* sorted([r for r in results if r.success], key=latency_ms) *)
Working(rs) == SortByLatency(SelectSeq(rs, LAMBDA r : r.success))

(* show_final_report: the counts and the best working result, if any. *)
Summary(rs) ==
    [total |-> Len(rs), ok |-> Len(Working(rs)),
     blocked |-> Len(SelectSeq(rs, LAMBDA r : ~r.success)),
     best |-> SubSeq(Working(rs), 1, Min({1, Len(Working(rs))}))]

(* ",".join(alpn) *)
Join(l) == IF l = << >> THEN "" ELSE FoldLeft(LAMBDA acc, s : acc \o "," \o s, Head(l), Tail(l))

(* Mutant: only the first ALPN of the list is written. *)
ModifiedFirstAlpn(cfg, r) ==
    LET o == r.params
    IN  (IF "fingerprint" \in DOMAIN o THEN "fingerprint" :> o["fingerprint"] ELSE Empty)
        @@ (IF "alpn" \in DOMAIN o THEN "alpn" :> Head(o["alpn"]) ELSE Empty)
        @@ cfg

(* export_best_uris: dict(base_config) with the fingerprint and alpn      *)
(* overrides of the result applied (the name aside).                       *)
Modified(cfg, r) ==
    LET o == r.params
    IN  (IF "fingerprint" \in DOMAIN o THEN "fingerprint" :> o["fingerprint"] ELSE Empty)
        @@ (IF "alpn" \in DOMAIN o THEN "alpn" :> Join(o["alpn"]) ELSE Empty)
        @@ cfg

(* Mutant: the wizard's copy forgets the alpn override. *)
WizardBestNoAlpn(cfg, r) ==
    (IF "fingerprint" \in DOMAIN r.params THEN "fingerprint" :> r.params["fingerprint"] ELSE Empty)
    @@ cfg

(* The same steps, repeated in cmd_scan_wizard's "export_uri" branch. *)
WizardBest(cfg, r) ==
    LET o == r.params
    IN  (IF "fingerprint" \in DOMAIN o THEN "fingerprint" :> o["fingerprint"] ELSE Empty)
        @@ (IF "alpn" \in DOMAIN o THEN "alpn" :> Join(o["alpn"]) ELSE Empty)
        @@ cfg

-----------------------------------------------------------------------------

Init ==
    /\ mode \in {"cli", "wizard"}
    /\ stage = "load"
    /\ input \in Sources
    /\ base = NoConfig
    /\ results = << >>
    /\ report = Summary(<< >>)
    /\ saved = << >>
    /\ exported = << >>
    /\ lines = << >>
    /\ shown = NoShown

(* cmd_scan: --uri or --file; nothing parsed is sys.exit(1); the first    *)
(* config is the base.                                                     *)
LoadCli ==
    /\ mode = "cli" /\ stage = "load"
    /\ IF Configs(input) = << >>
       THEN stage' = "exit" /\ UNCHANGED base
       ELSE stage' = "search" /\ base' = Head(Configs(input))
    /\ UNCHANGED <<mode, input, results, report, saved, exported, lines, shown>>

(* ask_config_input: a file with configs, else the answer as one URI;    *)
(* when neither parses the question is asked again.                       *)
LoadWizard ==
    /\ mode = "wizard" /\ stage = "load"
    /\ IF Configs(input) # << >>
       THEN stage' = "search" /\ base' = Head(Configs(input)) /\ UNCHANGED input
       ELSE \E src \in Sources : input' = src /\ UNCHANGED <<stage, base>>
    /\ UNCHANGED <<mode, results, report, saved, exported, lines, shown>>

(* smart_search / full_search / quick_search return their result list. *)
Search ==
    /\ stage = "search"
    /\ \E rs \in ResultSeqs : results' = rs
    /\ stage' = "output"
    /\ UNCHANGED <<mode, input, base, report, saved, exported, lines, shown>>

(* show_final_report, export_json and export_best_uris, in that order     *)
(* and with no await between them; build_uri raising is caught and an     *)
(* error line written instead.                                             *)
Output ==
    /\ stage = "output"
    /\ report' = Summary(results)
    /\ saved' = results
    /\ exported' = SubSeq(Working(results), 1, Min({TopN, Len(Working(results))}))
    /\ lines' = [i \in 1..Len(exported') |-> BuildUri(Modified(base, exported'[i]))]
    /\ stage' = IF mode = "cli" THEN "done" ELSE "menu"
    /\ UNCHANGED <<mode, input, base, results, shown>>

(* The wizard's post-scan menu: print the best config as a URI, or leave *)
(* (a rescan is a new run of the wizard).                                  *)
ExportUri ==
    /\ stage = "menu"
    /\ shown' = IF Working(results) = << >> THEN NoShown
                ELSE BuildUri(WizardBest(base, Head(Working(results))))
    /\ UNCHANGED <<mode, stage, input, base, results, report, saved, exported, lines>>

LeaveMenu ==
    /\ stage = "menu"
    /\ stage' = "done"
    /\ UNCHANGED <<mode, input, base, results, report, saved, exported, lines, shown>>

Stopped == stage \in {"done", "exit"} /\ UNCHANGED vars

Next == LoadCli \/ LoadWizard \/ Search \/ Output \/ ExportUri \/ LeaveMenu \/ Stopped

Spec == Init /\ [][Next]_vars

-----------------------------------------------------------------------------
(* Properties *)

(* The document the search probed for result r, and the one built from an *)
(* exported URI once it is imported again.                                 *)
Probed(r) == CB!BuildXrayJson(base, r.params)
Reimported(l) == CB!BuildXrayJson(ParseUri(l), Empty)

(* The fields the fingerprint and alpn overrides set. *)
FpAlpnFields == {"tls.fingerprint", "reality.fingerprint", "tls.alpn"}

(* The fingerprint and ALPN a winning result was probed with survive the   *)
(* round trip through best_configs.txt: importing the exported URI builds  *)
(* a document with the same fingerprint and alpn fields as the probed one, *)
(* for every protocol and security mode of the base (export_best_uris     *)
(* joins the alpn list, build_uri writes it, parse_uri and the builder    *)
(* read it back).                                                          *)
ExportKeepsFpAlpn ==
    \A i \in DOMAIN lines :
        LET probed == Probed(exported[i])
            again == Reimported(lines[i])
        IN  \A f \in FpAlpnFields \cap DOMAIN probed : f \in DOMAIN again /\ again[f] = probed[f]

(* best_configs.txt holds the top_n working results by latency, one URI   *)
(* each: as many as there are, up to top_n, all successful, ascending, and *)
(* every working result faster than the last one written is written.      *)
ExportIsTopWorking ==
    stage \in {"menu", "done"} =>
      LET W == SelectSeq(results, LAMBDA r : r.success)
      IN  /\ Len(exported) = Min({TopN, Len(W)}) /\ Len(lines) = Len(exported)
          /\ \A i \in DOMAIN exported : exported[i].success
          /\ IsSorted(exported, LAMBDA a, b : a.latency <= b.latency)
          /\ ToBag(exported) \sqsubseteq ToBag(W)
          /\ \A r \in Range(W) :
                (exported # << >> /\ r.latency < Last(exported).latency)
                    => CopiesIn(r, ToBag(exported)) = CopiesIn(r, ToBag(W))

(* The wizard's "export best config as URI" prints the first line of     *)
(* best_configs.txt: its own copy of the selection and of the override    *)
(* application agrees with export_best_uris.                               *)
BestViewsAgree ==
    shown # NoShown => lines # << >> /\ shown = lines[1]

(* What a user imports from best_configs.txt is the configuration that     *)
(* worked: each exported URI, parsed and built, gives the document that    *)
(* was probed for its result.                                              *)
ExportReproducesProbe ==
    \A i \in DOMAIN lines : Reimported(lines[i]) = Probed(exported[i])


=============================================================================
