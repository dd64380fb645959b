------------------------------- MODULE CliWizard -------------------------------
(***************************************************************************)
(* scanner.py's main() runs the scan, clean-ip or setup subcommand, or,   *)
(* with no subcommand, the interactive front end: main() loops            *)
(* over wizard.run_wizard() and runs cmd_scan_wizard or cmd_clean_ip_wizard *)
(* on the options it returns.  Every questionary prompt's .ask() returns    *)
(* the choice, or None when the user presses Ctrl-C.                        *)
(*                                                                         *)
(* The state is where the program is (pc), the options collected so far,   *)
(* and how the process ended.  Answers are the prompts' choices plus None; *)
(* the scans themselves are one step each (GridSearch, ProbeBatch and      *)
(* CleanIpScan model them), reduced to whether ensure_xray, load_subnets   *)
(* and the search raise and whether a working result came back.            *)
(***************************************************************************)
EXTENDS Naturals

CONSTANTS
    None,       \* what .ask() returns on Ctrl-C
    MaxRounds,  \* bound on the iterations of main()'s wizard loop
    MaxLoops    \* bound on re-asked prompts (config input, post-scan menu)

ASSUME MaxRounds \in Nat /\ MaxLoops \in Nat

VARIABLES
    pc,       \* where the program is
    opts,     \* the options dict being built
    status,   \* "running", "exited" (sys.exit(0)) or the exception that ended it
    rounds,   \* iterations of main()'s loop so far
    loops,    \* prompts asked again so far
    working   \* the last scan returned a successful result

vars == <<pc, opts, status, rounds, loops, working>>

DefaultParams == "recommended"
SearchModes == {"smart", "full", "quick"}

(* ask_concurrency: int(answer) if answer else 10. *)
ConcurrencyOf(a) == CASE a = "5" -> 5 [] a = "20" -> 20 [] OTHER -> 10

(* The answers of ask_measure_speed's confirm, returned as they are. *)
MeasureSpeedAnswers == {TRUE, FALSE, None}

(* The choices of ask_post_scan, and None. *)
PostScanChoices == {"export_uri", "rescan", "exit", None}

Init ==
    /\ pc = "start"
    /\ opts = [action |-> None, params |-> None, mode |-> None, concurrency |-> 0,
               measure |-> None, subnets |-> None, sample |-> 0]
    /\ status = "running"
    /\ rounds = 0
    /\ loops = 0
    /\ working = FALSE

Exit0 == status' = "exited" /\ pc' = "end"
Raise(e) == status' = e /\ pc' = "end"
Goto(l) == pc' = l /\ UNCHANGED status

(* main(): parse_args, then the subcommand: scan and clean-ip run their   *)
(* command, setup prints that it is not there yet and exits, and no       *)
(* subcommand starts the wizard loop.                                      *)
Main ==
    /\ pc = "start"
    /\ \E cmd \in {"scan", "clean-ip", "setup", None} :
          CASE cmd = "scan" -> Goto("cli_scan")
            [] cmd = "clean-ip" -> Goto("cli_clean_ip")
            [] cmd = "setup" -> Exit0
            [] OTHER -> Goto("main")
    /\ UNCHANGED <<opts, rounds, loops, working>>

(* cmd_scan (ScanExport models its loading and output): ensure_xray may   *)
(* raise; no parseable config is sys.exit(1); otherwise the program ends  *)
(* after the exports.                                                      *)
CmdScan ==
    /\ pc = "cli_scan"
    /\ \/ Raise("DownloadError")
       \/ Raise("exit1")
       \/ Exit0
    /\ UNCHANGED <<opts, rounds, loops, working>>

(* cmd_clean_ip: scan_cloudflare with --subnets (a missing file raises),  *)
(* the table, export_clean_ips to --output, and the program ends.          *)
CmdCleanIp ==
    /\ pc = "cli_clean_ip"
    /\ \/ Raise("FileNotFoundError") /\ UNCHANGED working
       \/ (\E w \in BOOLEAN : working' = w) /\ Exit0
    /\ UNCHANGED <<opts, rounds, loops>>

(* main(): while True: options = run_wizard(); run_wizard shows the banner *)
(* and asks ask_mode.                                                       *)
RunWizard ==
    /\ pc = "main" /\ rounds < MaxRounds
    /\ rounds' = rounds + 1
    /\ Goto("ask_mode")
    /\ UNCHANGED <<opts, loops, working>>

(* run_wizard: None or "setup" exit(0); scan and clean_ip go on. *)
AskMode ==
    /\ pc = "ask_mode"
    /\ \E a \in {"scan", "clean_ip", "setup", None} :
          CASE a = "scan" -> Goto("ask_config")
            [] a = "clean_ip" -> Goto("ask_clean_ip")
            [] OTHER -> Exit0
    /\ UNCHANGED <<opts, rounds, loops, working>>

(* ask_config_input: None exits; a blank answer, or one that is neither a *)
(* file of configs nor a parseable URI, is asked again.                    *)
AskConfigInput ==
    /\ pc = "ask_config"
    /\ \/ Exit0 /\ UNCHANGED loops
       \/ Goto("ask_params") /\ UNCHANGED loops
       \/ loops < MaxLoops /\ loops' = loops + 1 /\ Goto("ask_config")
    /\ UNCHANGED <<opts, rounds, working>>

(* run_scan_wizard: ask_params (None or nothing selected: the recommended *)
(* groups), ask_search_mode (returned as is), ask_concurrency (None: 10),  *)
(* ask_measure_speed (returned as is); no await, no check in between.      *)
RunScanWizard ==
    /\ pc = "ask_params"
    /\ \E p \in {None, "selected"}, m \in SearchModes \cup {None},
          c \in {"10", "5", "20", None}, s \in MeasureSpeedAnswers :
          opts' = [opts EXCEPT !.action = "scan",
                               !.params = IF p = None THEN DefaultParams ELSE p,
                               !.mode = m,
                               !.concurrency = ConcurrencyOf(c),
                               !.measure = s]
    /\ Goto("ensure_xray")
    /\ UNCHANGED <<rounds, loops, working>>

(* cmd_scan_wizard: ensure_xray() finds or downloads xray (a failed        *)
(* download raises), then search_fn[mode]() looks the mode up in a dict of *)
(* the three searches: a mode that is not a key raises KeyError; the       *)
(* search itself, its report and the exports follow.                        *)
CmdScanWizard ==
    /\ pc = "ensure_xray"
    /\ \/ Raise("DownloadError") /\ UNCHANGED working
       \/ /\ opts.mode \notin SearchModes
          /\ Raise("KeyError") /\ UNCHANGED working
       \/ /\ opts.mode \in SearchModes
          /\ \E w \in BOOLEAN : working' = w
          /\ Goto("post_scan")
    /\ UNCHANGED <<opts, rounds, loops>>

(* The post-scan loop: export_uri prints the best URI (or that there is   *)
(* none) and asks again; rescan returns; Exit, and None, break out of the *)
(* loop and cmd_scan_wizard returns to main()'s loop as well.             *)
AskPostScan ==
    /\ pc = "post_scan"
    /\ \E a \in PostScanChoices :
          IF a = "export_uri"
          THEN loops < MaxLoops /\ loops' = loops + 1 /\ Goto("post_scan")
          ELSE Goto("main") /\ UNCHANGED loops
    /\ UNCHANGED <<opts, rounds, working>>

(* ask_clean_ip_options: the three answers are collected, then the dict is *)
(* built with int(concurrency) and int(sample), which raise TypeError on   *)
(* None; the subnets path is kept when non-blank.                          *)
AskCleanIpOptions ==
    /\ pc = "ask_clean_ip"
    /\ \E f \in {None, "blank", "missing", "file"}, c \in {"20", "10", "50", None},
          n \in {"100", "500", "0", None} :
          IF c = None \/ n = None
          THEN Raise("TypeError") /\ UNCHANGED opts
          ELSE /\ opts' = [opts EXCEPT !.action = "clean_ip",
                                       !.subnets = IF f \in {None, "blank"} THEN None ELSE f,
                                       !.concurrency = CASE c = "10" -> 10 [] c = "50" -> 50 [] OTHER -> 20,
                                       !.sample = CASE n = "100" -> 100 [] n = "500" -> 500 [] OTHER -> 0]
               /\ Goto("clean_scan")
    /\ UNCHANGED <<rounds, loops, working>>

(* cmd_clean_ip_wizard: scan_cloudflare opens the subnets file, which     *)
(* raises when it does not exist; the table and clean_ips.txt follow, and *)
(* main()'s loop runs the wizard again.                                    *)
CmdCleanIpWizard ==
    /\ pc = "clean_scan"
    /\ IF opts.subnets = "missing"
       THEN Raise("FileNotFoundError") /\ UNCHANGED working
       ELSE (\E w \in BOOLEAN : working' = w) /\ Goto("main")
    /\ UNCHANGED <<opts, rounds, loops>>

(* Nothing runs after the process ended, or once the loop bound is hit. *)
Stopped ==
    /\ status # "running" \/ (pc = "main" /\ rounds = MaxRounds)
    /\ UNCHANGED vars

Next ==
    \/ Main \/ CmdScan \/ CmdCleanIp
    \/ RunWizard \/ AskMode \/ AskConfigInput \/ RunScanWizard \/ CmdScanWizard
    \/ AskPostScan \/ AskCleanIpOptions \/ CmdCleanIpWizard
    \/ Stopped

Spec == Init /\ [][Next]_vars

-----------------------------------------------------------------------------
(* Properties *)

(* Ctrl-C at any prompt is the user's way out: run_wizard and            *)
(* ask_config_input end the program with sys.exit(0) on None, and        *)
(* ask_params and ask_concurrency fall back to a default.  Whatever prompt *)
(* is cancelled, in whichever wizard round, the program never dies of an  *)
(* exception that only a None answer can cause; the only exceptions are   *)
(* the environment's (a failed download, a missing subnets file).          *)
CancelNeverCrashes ==
    status \in {"running", "exited", "exit1", "DownloadError", "FileNotFoundError"}

=============================================================================
