# TLA+ models of the mirage-vpn parameter scanner

These modules model `src/tools/scanner/`, the tool that searches for the
obfuscation parameters under which a proxy endpoint works (fragmentation,
TLS fingerprint, ALPN, ECH, socket options, transport). The tool generates
override sets and builds one xray JSON document per set. It runs each
document as a probe through a locally spawned xray child, and combines the
per-dimension winners in a later phase. A separate clean-IP scanner probes
Cloudflare addresses with a TLS handshake. An interactive wizard drives both
scans, and a downloader fetches the xray binary on first use.

Check everything with `tlc -workers 2 -config <cfg> <MC module>` in this
directory. The runs are listed below and in `PROJECT.json`.

## 1. Inventory

### Components and how they interact

| Part | Source | State | Operations |
|---|---|---|---|
| Override generator | `config_generator.py` `PARAM_SPACE`, `PARAM_GROUPS`, `generate_smart_grid`, `generate_combination_grid`, `generate_full_grid` | none (pure) | smart grid, combination grid (top_n per group, product, merge), full grid |
| Configuration builder | `config_generator.py` `build_xray_json` … `_apply_sockopt` | none (pure) | protocol dispatch (4 + error), transport, security (reality, tls, none), sockopt |
| Probe runner | `tester.py` `_next_port`, `test_single` | global `_port_counter`; per probe: port, temp file, child process, result | allocate port, write file, spawn, settle, latency GET, speed GET, teardown, unlink |
| Batch executor | `tester.py` `run_batch` | semaphore, lock, results list, completed counter | one asyncio task per document, append under the lock, gather |
| Search orchestrator | `grid_search.py` | phase, all_results, sweep_results, winners | baseline → sweep → winners → combine; full; quick |
| Clean-IP scanner | `clean_ip.py` `scan_ips`, `_test_ip`, `export_clean_ips` | semaphore, lock, results, file `clean_ips.txt` | handshake, close, append, final ranking, export of the top_n working |
| Report / export | `report.py` | files `results.json`, `best_configs.txt` | summary and ranking, JSON export, URI export of the top_n working results |
| CLI / wizard | `scanner.py`, `wizard.py` | the command's stage; the options dict; the post-scan menu | main's wizard loop, every prompt (each may return None on Ctrl-C), load the base config, `ensure_xray`, search dispatch, output, menu |
| URI parser | `uri_parser.py` | none (pure) | `parse_uri`, `build_uri`, `parse_multi`, one parser and builder per protocol |
| Downloader | `xray_downloader.py` `ensure_xray`, `_download` | `bin/xray` and the temp `.zip`, both outliving the process | search order, temp file, fetch, extract (`open "wb"`), write, chmod, unlink in the finally |
| SSH | `ssh_manager.py` | none | stub |

The scan command parses the user's URI or configs file into a BaseConfig
(`uri_parser.py`), runs the search on it, and hands the results to
`report.py`, which writes the best working results back as URIs by
re-encoding the BaseConfig with the winner's overrides. The orchestrator calls the generator for the override sets and the builder
for one document per set. It hands each batch of documents to `run_batch`,
which runs one `test_single` task per document. The only shared mutable
state is the module-global port counter and, per batch, the semaphore, the
lock and the results list. Tasks interleave only at `await`s, under asyncio's
cooperative scheduling. Everything between two awaits is atomic.

### Hard behaviours

- **Task interleavings.** Probes interleave at `_next_port`, spawn, the 1.5 s
  settle sleep, the GETs and `proc.wait` in the finally.
- **A child dying at any time.** xray may exit at any moment. This is the
  environment, not a task.
- **Wrap of the port counter.** The counter wraps modulo 10000 with no check
  that the port is still held.
- **A write outside the try.** The temp-file write sits outside the `try`
  (`tester.py:77`). A failure there escapes the task, `gather` raises, and
  `asyncio.run` cancels every other task at its current await. Only the
  `finally` clauses run, and a task cancelled inside `proc.wait` skips the
  unlink.
- **Phase data dependency.** Winners depend on the sweep's completion order
  through a stable sort that keeps ties. The combine phase depends on
  `top_n` and on the success filter.
- **Round trip through the URI format.** An exported URI is worth what
  `parse_uri` and `build_xray_json` make of it after import: every field the
  builder does not write, or writes differently, is lost between probe and
  export.
- **Files that outlive a process.** `bin/xray` and the temp `.zip` survive
  a killed scanner. `open(target, "wb")` truncates an existing file and keeps
  its mode, so a killed or concurrent download can leave an executable,
  truncated `bin/xray`, which `_find_local` then trusts.
- **Ctrl-C at a prompt.** questionary's `.ask()` returns None, and each
  caller treats None differently (exit, a default, or nothing at all).
- **Override precedence.** Precedence is override > base config > default,
  across 4 protocols × 3 security modes × 5 transports.

### The properties each part should have

- **Probe and batch.**
  - Permits are conserved.
  - Live probes never share a port.
  - Nothing is left behind: no child and no temp file.
  - Every document yields exactly one result that obeys
    `success ⇔ latency ≥ 0`.
  - The batch returns.
- **Orchestrator.**
  - The sweep covers every requested value.
  - The combinations are exactly the products of the top_n successful
    winners.
  - Full mode is the cartesian product.
- **Builder.**
  - Strict precedence.
  - A single override only changes its own fields.
- **Clean-IP scan.**
  - Permits are conserved.
  - The output is the stable working-then-failed ranking of every address.
  - `clean_ips.txt` lists the top_n fastest addresses whose handshake
    completed.
- **Downloader.**
  - An executable `bin/xray` is always the whole binary.
  - Temp archives are removed unless the process was killed.
- **Wizard.**
  - Cancelling a prompt ends the program cleanly or uses a default.
- **Export.**
  - `best_configs.txt` holds the top_n working results by latency.
  - Importing an exported URI gives the document that was probed.
  - The wizard's "best config" is the first exported line.

## 2. Modules

| Module | Models | Variables ↔ code |
|---|---|---|
| `BatchSpec` | what `run_batch` promises | `pending`: documents not yet returned; `results`: `(doc, outcome)` in completion order; `Outcomes` is the TestResult contract |
| `ProbeBatch` | `tester.py`: `_next_port`, `test_single`, `run_batch` | `pc[t]`: the await task *t* is suspended on; `sem`: free permits; `counter`: `_port_counter`; `port`, `proc`, `res`: the task's locals; `files`: temp files on disk; `results`: the batch's list; `returned`/`aborted`: gather returned / raised |
| `GridSearch` | `grid_search.py` with the generators | `phase`; `docs`/`pending`/`batchRes`: the running batch; `sweepResults`, `allResults` |
| `CleanIpScan` | `clean_ip.py`: `scan_cloudflare`, `load_subnets`, `expand_subnets`, `scan_ips`, `_test_ip`, `export_clean_ips` | `ips` (the expanded address list, one task per entry), `pc`, `sem`, `res`, `results`, `out` (the ranked return value), `returned`, `file` (the lines of `clean_ips.txt`), `written` |
| `XrayDownloader` | `xray_downloader.py`: `ensure_xray`, `_download` and the `_find_*` helpers | `env` (the machine), `bin` (how much of the binary `bin/xray` holds, and its exec bit), `tmps` (temp `.zip` files), `pc`/`got` per process, `runs`, `kills` |
| `CliWizard` | `scanner.py` `main` (subcommands and wizard loop), `cmd_scan`'s and `cmd_clean_ip`'s exits, `cmd_scan_wizard`, `cmd_clean_ip_wizard`; `wizard.py` prompts and `run_*_wizard` | `pc` (the prompt or command), `opts` (the options dict), `status` (running, `exit(0)`, or the exception that ended the process), `rounds`, `loops`, `working` |
| `ConfigBuilder` | `build_xray_json` and its helpers | `base`, `ov` (the inputs), `doc` (the built document, flattened to field paths) |
| `UriCodec` | `uri_parser.py` | none: operators `ParseUri`, `BuildUri`, `ParseMulti` and one parser and builder per protocol |
| `ScanExport` | `cmd_scan`, `cmd_scan_wizard`, `ask_config_input`, `show_final_report`, `export_json`, `export_best_uris`, composed with `UriCodec` and `ConfigBuilder` | `mode` (CLI or wizard), `stage`, `input`, `base` (`configs[0]`), `results`, `report`, `saved` (`results.json`), `exported` and `lines` (`best_configs.txt`), `shown` (the URI the menu printed) |

**ProbeBatch** has one action per step between two awaits:
- `Start`: acquire the permit, `_next_port` and the write. These run without
  an await while the lock is uncontended.
- `Spawn`, `Settle`, `Probe` and `Speed`.
- `Terminate`: the finally's kill and wait.
- `Finish`: the unlink, the append under the lock and the release.
- `Gathered`: gather returns.
- `Cancel` and `Unwind`: what `CancelledError` does at each await after an
  abort.
- `CloseSession`: leaving `async with ClientSession`, whose close may raise
  after success was set (only when `CloseMayFail`).
- `ProcExit`: the environment.

The `completed` counter is left out because it always equals `Len(results)`.
Error strings are model values (`ExitErr`, `HttpErr`, …). Latencies and
speeds come from small sets.

**GridSearch** keeps the generators as operators:
- `SmartGrid` and `FullGrid`.
- `CombinationGrid`, built on `RECURSIVE Product` (`itertools.product`) and
  `MergeAll` (`dict.update`, later keys win).
- The winner extraction: `GroupResults` and `SortByLatency`, a stable
  insertion sort.

Each batch completes as `BatchSpec` allows: one document at a time, in any
order, each as a success with a latency or a failure. This is sound because
`ProbeBatch` is checked to refine `BatchSpec` (run `probe_batch`). The
baseline goes through `test_base_config`, which is the same `test_single`.

**CleanIpScan** starts in `scan_cloudflare`: `Init` chooses the default
subnets or a subnets file (`LoadSubnets` drops blank and `#` lines) and a
`--sample` value, and `ExpandSubnets` lists each subnet's hosts, or any
`sample`-sized subset of them when the subnet is larger (`random.sample`
may draw any). A subnet is a model value standing for its host set
(`Hosts`). Tasks are the positions of that list, so a repeated address is
two tasks, as in the code. It then has these actions:
- `Acquire`: the permit and the start of the handshake.
- `Connect`: success, or timeout / SSL / OS / other error.
- `Close`: `wait_closed` succeeds, or raises after success was set.
- `Record`: the append under the lock and the release.
- `Gathered`: gather returns and the ranking sort runs.
- `Export`: `export_clean_ips`, the working results cut at top_n.

**XrayDownloader** runs `ensure_xray` in processes that the user starts
(`Launch`, up to `MaxRuns` runs) and that may be killed at any step (`Kill`:
no finally runs). `Find` is the search order; then `CreateTemp`, `Retrieve`,
`Extract`, `Write`, `Chmod` and `Unlink` are `_download`'s steps, each with
its failure path into the finally. `Extract` models `open(target, "wb")`:
the file is truncated and keeps its exec bit if it had one.

**CliWizard** starts with `Main`, main()'s dispatch on the subcommand:
`CmdScan` and `CmdCleanIp` end the process the ways those commands can
(a failed download, `sys.exit(1)`, a missing subnets file, or done),
`setup` exits, and no subcommand enters the wizard loop. Then it has one
action per prompt or command: `RunWizard` (main's
loop), `AskMode`, `AskConfigInput`, `RunScanWizard` (the four scan prompts,
run without a check in between), `CmdScanWizard` (`ensure_xray`, then
`search_fn[mode]`), `AskPostScan`, `AskCleanIpOptions` and
`CmdCleanIpWizard`. Each prompt's answer is any of its choices or None. The
scans are one step each: the other modules model them.

**ConfigBuilder** builds the document in one step (`Build`) from a BaseConfig
and an override dict chosen in `Init`. Python `None` and `""` are the same
value here, because every test in the code is a truthiness test. The `alpn`
string split is given as a table over the strings the MC module uses.

**UriCodec** keeps a URI as the pieces the parser splits it into: host,
port and the `<<key, value>>` items of the query for vless and trojan, the
decoded JSON object for vmess, host and port for ss. The tokens contain no
separator, so splitting the text a builder writes gives these pieces back.
`quote`, `unquote` and `int()` are tables over the tokens used (`Quote`,
`Unquote`, `PortInt`); a port `int()` rejects makes the parser return None.

**ScanExport** has one action per stage of the command:
- `LoadCli`: parse `--uri` or `--file`; nothing parsed is `sys.exit(1)`.
- `LoadWizard`: `ask_config_input`, asked again until something parses.
- `Search`: the search returns any result list (GridSearch models how).
- `Output`: `show_final_report`, `export_json` and `export_best_uris` in one
  step, as the code runs them without an await between.
- `ExportUri` and `LeaveMenu`: the wizard's post-scan menu. A rescan returns
  to `main`, which starts a new command; the model treats it as leaving.

The properties build the probed document with `ConfigBuilder!BuildXrayJson`
(through `INSTANCE`) and the re-imported one from `ParseUri` of the line.
`ConfigBuilder` now also writes the server address and port, the REALITY
server name, key and short id, and the vmess user security, so that
documents of different servers are told apart.

## 3. Runs

| Run | Cfg | Result | What it shows |
|---|---|---|---|
| `probe_batch` | `ProbeBatch.cfg` | pass (579k states) | 3 probes and 2 permits, pool of 3 ports, counter starting at 0 or 2 so the wrap happens inside the batch, speed test on. Checks `CleanAfterReturn` and `ImplementsBatch` (refinement of `BatchSpec`, with its fairness). Port exclusivity is checked in `probe_port_wrap`, where the pool is small enough for it to fail; the permit count in `probe_abort`, where every exception and cancellation path is reached |
| `probe_abort` | `ProbeBatchAbort.cfg` | pass (416k states) | The write may fail, closing the HTTP session may raise after success, and the `on_result` callback may raise under the lock (`CallbackMayFail`), which unwinds the lock and semaphore and aborts the batch. Cancellation and exception paths keep the permit count (`PermitsAccounted`), and no xray child outlives its task (`NoChildOutlivesTasks`). A close error leaves a success with an error string, against `BatchSpec`'s outcomes; this is recorded as a hazard, as no run slot is left for it |
| `probe_port_wrap` | `ProbeBatchPortWrap.cfg` | violation of `PortsExclusive` | With a pool as small as the allocations made while a probe is live, two live probes share a port and temp file |
| `probe_write_fail` | `ProbeBatchWriteFail.cfg` | violation of `BatchEndsClean` | A failed temp-file write makes `run_batch` raise instead of returning (findings 3 and 4: with the return taken for granted, a temp file survives the abort) |
| `grid_smart` | `GridSearch.cfg` | pass (141k states) | Two invocations. The first is smart search over `fingerprint` (3 values, top_n = 2 so the cut is exercised) and `alpn`, with every outcome and completion order. The second is a full grid over three groups, one of them two keys. Checks `SweepCoversIntended`, `CombosFromTopWinners` and `FullGridIsProduct` |
| `grid_quick` | `GridSearchQuick.cfg` | violation of `SweepCoversIntended` | quick mode never sweeps fragmentation |
| `clean_ip_scan` | `CleanIpScan.cfg` | pass (22k states) | The default subnets (2 and 1 hosts) or a file with a comment, a blank line and one subnet; `--sample` 0 or 1; 3 addresses at most, 2 permits, 2 latencies so that ties occur, top_n = 2. Checks `RankedReport` (the reference definition of the stable ranking) and `CleanIpsFile` (a close error after the handshake must not drop the address from the file), and the liveness property `ScanTerminates` (the scan always reaches `clean_ips.txt`) |
| `xray_downloader` | `XrayDownloader.cfg` | pass (654 states) | One process, 4 runs, every machine, every step failing or killed. Checks `LocalBinaryUsable` and `NoZipLeak` |
| `wizard_cancel` | `CliWizard.cfg` | violation of `CancelNeverCrashes` | Ctrl-C at a clean-IP option gives `int(None)`; at the search mode, `search_fn[None]` (finding 8) |
| `config_builder` | `ConfigBuilder.cfg` | pass (18k states) | 8 BaseConfig shapes × 2304 override dicts. Checks `OverridePrecedence` and `SingletonTouchesOnlyItsField` (§8 of the spec) |
| `scan_export` | `ScanExport.cfg` | pass (104k states) | CLI and wizard, 8 URIs of every protocol and security mode and 2 files, every result list of up to 3 results. Checks `ExportKeepsFpAlpn` (the probed fingerprint and ALPN survive export and import), `ExportIsTopWorking` and `BestViewsAgree` |
| `export_not_reproduced` | `ScanExportDivergence.cfg` | violation of `ExportReproducesProbe` | Three vless bases: TLS with a fragment winner, no TLS, and `allowInsecure`. For each of them, importing the exported URI builds a document other than the probed one (findings 5–7; TLC shows the first it reaches, and each base on its own as `Sources` violates the property) |

Every property of a passing run has a mutant in `PROJECT.json`: a plausible
bug in the mapped code that the property catches. The mutant operators are
the definitions commented "Mutant:" in the modules.

### Findings

1. **Quick mode never tests fragmentation** (`grid_search.py:155`).
   `quick_search` passes the group `"fragment"`, which `PARAM_GROUPS` does not
   define. It falls back to the key `"fragment"`, and that key is not in
   `PARAM_SPACE`, so it is dropped. The CLI default `--params
   fragment,fingerprint,alpn` (`scanner.py:42`) has the same effect. The
   wizard uses the right names.
2. **Port reuse** (`tester.py:49`). `_next_port` does not check whether a port
   is still held. Reuse needs 10000 allocations during one probe's life, so
   it takes a very high `--concurrency` (at least the 1.5 s settle delay per
   probe). The pool is scaled to 2 in the run.
3. **A failed write aborts the batch** (`tester.py:77`). The spec says a
   probe's failure never aborts the batch.
4. **Temp files leak after an abort** (`tester.py:149`).
5. **Exported URIs lose the winning overrides** (`report.py:173`).
   `export_best_uris` applies only the fingerprint and alpn overrides. A
   winner found by its fragment, ECH, socket options or transport is exported
   with the base config's values, so importing "the best config" builds the
   base document, although `_build_vless` can encode a fragment.
6. **Plain vless is exported as TLS** (`uri_parser.py:164`). `_build_vless`
   writes `security=tls` for every non-REALITY config.
7. **allowInsecure is dropped** (`uri_parser.py:163`). `_build_vless` never
   writes it, so a config that worked against a self-signed certificate
   fails after import.
8. **Ctrl-C can crash the wizard** (`wizard.py:205`, `scanner.py:252`).
   `.ask()` returns None on Ctrl-C. `ask_clean_ip_options` calls `int()` on
   it (TypeError). `ask_search_mode` returns it, and `cmd_scan_wizard` looks
   it up in `search_fn` (KeyError), after `ensure_xray` may already have
   downloaded xray. TLC reports the clean-IP trace first. Allowing the
   TypeError as well reaches the KeyError trace.

Two behaviours are recorded as hazards, not as runs:
- **Two concurrent first downloads.** With two processes,
  `LocalBinaryUsable` fails. The second process's `open("wb")` truncates the
  binary the first one has just made executable. The passing run checks one
  process at a time.
- **"Exit" in the post-scan menu does not exit.** It breaks out of
  `cmd_scan_wizard`, and `main()` shows the wizard again, the same as
  "Test a different server".
- **Overlapping group names** (`config_generator.py:364`). With `--params
  ech,ech_enabled`, `CombosFromTopWinners` fails: the sweep probes
  `ech_enabled=True` twice, and the combine phase probes the one-key document
  `{ech_enabled: True}` again, not the two-key merges spec.md describes.
  `grid_smart` uses disjoint groups.
- **A subnet listed twice** (`clean_ip.py:70`). `expand_subnets` keeps
  repeats, so the address is scanned twice and written to `clean_ips.txt`
  twice, and `CleanIpsFile` fails: a distinct working address is pushed out
  of the top_n. `clean_ip_scan` uses disjoint subnets.
- **`--concurrency 0`** (`scanner.py:85`). `asyncio.Semaphore(0)` never
  grants a permit, and the command hangs without a message. The models take
  a concurrency of at least 1, as every wizard answer gives.

## 4. Bounds, fairness, abstractions

- **Bounds.**
  - Three tasks and two permits are enough for a queued task, two concurrent
    holders and every pairwise order.
  - The port pool is scaled from 10000 to 3 (or 2), with the counter
    starting near the end of the pool. This makes the wrap reachable.
  - Two latencies give both ties and strict order.
  - `TopN = 2` against three fingerprint values exercises the cut (the code
    uses 3).
  - The full-grid and builder inputs cover each protocol, security mode and
    transport branch.
  - Export: `TopN = 2` (the code uses 5) with result lists of up to 3, so
    the cut, ties and fewer working results than top_n all occur. The
    results carry the overrides the export treats differently: none,
    fingerprint, an ALPN list, and a fragment.
- **Fairness.**
  - Each task is weakly fair: the event loop keeps running ready tasks,
    timers fire, and a killed child is reaped.
  - `Gathered` is weakly fair.
  - In `CleanIpScan`, a ready task (acquire, handshake, close) and the
    export are weakly fair. The handshake ends by its `wait_for` timeout.
    `wait_closed` has no timeout in the code, so fairness on `Close` stands
    for asyncio's SSL shutdown timeout; `ScanTerminates` relies on it.
  - The child exiting on its own (`ProcExit`) has no fairness.
  - `XrayDownloader` and `CliWizard` have no fairness. A user may stop at
    any prompt, and a process may be killed or never started again, so
    they state safety only.
- **Downloader and wizard bounds.**
  - `MaxRuns = 4` allows a kill at each step followed by a retry.
  - `MaxRounds = 2` wizard rounds, and `MaxLoops = 2` re-asked prompts.
- **Abstractions.**
  - `Settle` and the following `Finish` are two steps, though the code runs
    them without an await in between. This over-approximates.
  - The document's fixed inbound, the credentials and the address are left
    out.
  - URI names, credentials (uuid, password, method) and the `#name` are
    passed through unchanged and are left out; so is the config name
    `export_best_uris` writes.
  - An empty trojan `sni=` becomes the host after a round trip. xray uses
    the address when the server name is empty, so the inputs leave it out.
  - Values of `PARAM_SPACE` are tokens. `MCGridSearch` writes `["h2"]` and
    `True` as strings.

## 5. Not modelled, and the plan

- **Not modelled.**
  - `report.py`: the tables and progress lines, which are rendering only.
  - The CLI's argument parsing. The search's inputs are `GridSearch`'s
    `Invocations` (mode and group list).
  - `config_id` in `uri_parser.py`: unused by the scanner.
  - `ssh_manager.py`: a stub.
  - The `ipaddress` arithmetic behind `expand_subnets`: a subnet is a model
    value for its host set. `CliWizard` models a missing subnets file.
  - `show_banner` and the rich tables: rendering only.
- **Next steps.**
  - A property that every sweep override actually changes the document.
    Under REALITY, alpn and ech do nothing, and so does ech_dns alone.
  - A composition of `GridSearch` with `ProbeBatch` in place of `BatchSpec`
    for one small sweep.
