---------------------------- MODULE XrayDownloader ----------------------------
(***************************************************************************)
(* src/tools/scanner/xray_downloader.py: ensure_xray finds the xray binary *)
(* (PyInstaller bundle, then bin/xray if it is an executable file, then    *)
(* $PATH) or downloads it: a temporary .zip is created, the release        *)
(* archive is fetched into it, the xray member is copied to bin/xray      *)
(* (opened "wb"), the file is made executable, and the .zip is unlinked in *)
(* the finally.                                                            *)
(*                                                                         *)
(* bin/xray and the temp directory outlive a run of the scanner; each run  *)
(* of ensure_xray is one process.  A process may be killed at any step     *)
(* (SIGKILL, power loss: no finally runs) and the scanner run again, up to *)
(* MaxRuns runs.  Exceptions (network, a bad archive, a full disk) go      *)
(* through the finally.  Contents are abstracted to how much of the binary *)
(* bin/xray holds; paths and the platform string are left out.             *)
(***************************************************************************)
EXTENDS Naturals, FiniteSets

CONSTANTS
    Procs,    \* scanner processes that may run ensure_xray
    MaxRuns,  \* bound on the number of runs of the scanner
    Envs      \* machines: [bundled, onPath, platformOk] (the environment)

ASSUME MaxRuns \in Nat

VARIABLES
    env,    \* the machine: frozen bundle with xray, xray on $PATH, supported platform
    bin,    \* bin/xray: [state |-> "absent" | "partial" | "complete", exec |-> BOOLEAN]
    tmps,   \* mirage .zip files left in the temp directory
    pc,     \* where each process is in ensure_xray
    got,    \* what its run returned: a path of kind "bundled", "local", "path" or "error"
    runs,   \* runs started so far
    kills   \* processes killed so far

vars == <<env, bin, tmps, pc, got, runs, kills>>

Steps == {"find", "retrieve", "extract", "write", "chmod", "unlink"}

Init ==
    /\ env \in Envs
    /\ bin = [state |-> "absent", exec |-> FALSE]
    /\ tmps = 0
    /\ pc = [p \in Procs |-> "idle"]
    /\ got = [p \in Procs |-> "none"]
    /\ runs = 0
    /\ kills = 0

(* The user starts the scanner (again). *)
Launch(p) ==
    /\ pc[p] \in {"idle", "done", "killed"}
    /\ runs < MaxRuns
    /\ runs' = runs + 1
    /\ pc' = [pc EXCEPT ![p] = "find"]
    /\ got' = [got EXCEPT ![p] = "none"]
    /\ UNCHANGED <<env, bin, tmps, kills>>

(* ensure_xray returns a path of kind k. *)
Return(p, k) ==
    /\ got' = [got EXCEPT ![p] = k]
    /\ pc' = [pc EXCEPT ![p] = "done"]
    /\ UNCHANGED tmps

(* The probes of ensure_xray's search order.  _find_local needs is_file   *)
(* and X_OK; the others depend on the machine only.                       *)
FindBundled == env.bundled
FindLocal == bin.state # "absent" /\ bin.exec
FindInPath == env.onPath
DetectPlatform == env.platformOk

(* _download up to its try: BIN_DIR.mkdir and NamedTemporaryFile(delete=  *)
(* False), which leaves the .zip behind until the finally removes it.     *)
CreateTemp(p) ==
    /\ tmps' = tmps + 1
    /\ pc' = [pc EXCEPT ![p] = "retrieve"]
    /\ UNCHANGED got

(* ensure_xray: bundle, bin/xray, $PATH, then _detect_platform (which     *)
(* raises RuntimeError off the supported platforms) and _download.         *)
Find(p) ==
    /\ pc[p] = "find"
    /\ CASE FindBundled -> Return(p, "bundled")
         [] FindLocal -> Return(p, "local")
         [] FindInPath -> Return(p, "path")
         [] ~DetectPlatform -> Return(p, "error")
         [] OTHER -> CreateTemp(p)
    /\ UNCHANGED <<env, bin, runs, kills>>

(* Mutant: the .zip is only removed after a successful download. *)
RetrieveNoCleanup(p) ==
    /\ pc[p] = "retrieve"
    /\ \/ pc' = [pc EXCEPT ![p] = "extract"] /\ UNCHANGED got
       \/ pc' = [pc EXCEPT ![p] = "done"] /\ got' = [got EXCEPT ![p] = "error"]
    /\ UNCHANGED <<env, bin, tmps, runs, kills>>

(* urllib.request.urlretrieve into the .zip; any failure (or Ctrl-C)      *)
(* leaves through the finally.                                              *)
Retrieve(p) ==
    /\ pc[p] = "retrieve"
    /\ \/ pc' = [pc EXCEPT ![p] = "extract"] /\ UNCHANGED got
       \/ pc' = [pc EXCEPT ![p] = "unlink"] /\ got' = [got EXCEPT ![p] = "error"]
    /\ UNCHANGED <<env, bin, tmps, runs, kills>>

(* Mutant: bin/xray is created executable (mode 0o755) before the copy. *)
ExtractExec(p) ==
    /\ pc[p] = "extract"
    /\ \/ /\ bin' = [state |-> "partial", exec |-> TRUE]
          /\ pc' = [pc EXCEPT ![p] = "write"]
          /\ UNCHANGED got
       \/ /\ pc' = [pc EXCEPT ![p] = "unlink"] /\ got' = [got EXCEPT ![p] = "error"]
          /\ UNCHANGED bin
    /\ UNCHANGED <<env, tmps, runs, kills>>

(* ZipFile, the search for a member named xray, then open(target, "wb"):  *)
(* the file is created or truncated; an existing file keeps its mode.  A   *)
(* corrupt archive or one without xray raises into the finally.            *)
Extract(p) ==
    /\ pc[p] = "extract"
    /\ \/ /\ bin' = [state |-> "partial", exec |-> bin.state # "absent" /\ bin.exec]
          /\ pc' = [pc EXCEPT ![p] = "write"]
          /\ UNCHANGED got
       \/ /\ pc' = [pc EXCEPT ![p] = "unlink"] /\ got' = [got EXCEPT ![p] = "error"]
          /\ UNCHANGED bin
    /\ UNCHANGED <<env, tmps, runs, kills>>

(* dst.write(src.read()): the whole member, or an OSError (disk full)     *)
(* after part of it.                                                        *)
Write(p) ==
    /\ pc[p] = "write"
    /\ \/ bin' = [bin EXCEPT !.state = "complete"] /\ pc' = [pc EXCEPT ![p] = "chmod"]
          /\ UNCHANGED got
       \/ pc' = [pc EXCEPT ![p] = "unlink"] /\ got' = [got EXCEPT ![p] = "error"]
          /\ UNCHANGED bin
    /\ UNCHANGED <<env, tmps, runs, kills>>

(* target_path.chmod(mode | S_IEXEC | S_IXGRP | S_IXOTH); the path is the *)
(* return value, delivered after the finally.                              *)
Chmod(p) ==
    /\ pc[p] = "chmod"
    /\ bin' = [bin EXCEPT !.exec = TRUE]
    /\ got' = [got EXCEPT ![p] = "local"]
    /\ pc' = [pc EXCEPT ![p] = "unlink"]
    /\ UNCHANGED <<env, tmps, runs, kills>>

(* finally: os.unlink(tmp_path), errors ignored. *)
Unlink(p) ==
    /\ pc[p] = "unlink"
    /\ tmps' = tmps - 1
    /\ pc' = [pc EXCEPT ![p] = "done"]
    /\ UNCHANGED <<env, bin, got, runs, kills>>

(* The process is killed: nothing more of it runs, the files stay. *)
Kill(p) ==
    /\ pc[p] \in Steps
    /\ pc' = [pc EXCEPT ![p] = "killed"]
    /\ got' = [got EXCEPT ![p] = "none"]
    /\ kills' = kills + 1
    /\ UNCHANGED <<env, bin, tmps, runs>>

Stopped ==
    /\ runs = MaxRuns
    /\ \A p \in Procs : pc[p] \notin Steps
    /\ UNCHANGED vars

Next ==
    \/ \E p \in Procs : \/ Launch(p) \/ Find(p) \/ Retrieve(p) \/ Extract(p)
                        \/ Write(p) \/ Chmod(p) \/ Unlink(p) \/ Kill(p)
    \/ Stopped

Spec == Init /\ [][Next]_vars

-----------------------------------------------------------------------------
(* Properties *)

(* _find_local trusts any executable bin/xray: whatever runs of the       *)
(* scanner failed or were killed before, and at whichever step, an         *)
(* executable bin/xray holds the whole binary, so a later run never starts *)
(* a truncated xray for every probe.                                        *)
LocalBinaryUsable == bin.exec => bin.state = "complete"

(* Processes between NamedTemporaryFile and the end of the finally. *)
Downloading == {p \in Procs : pc[p] \in Steps \ {"find"}}

(* The temporary archives are cleaned up: besides the .zip of a download  *)
(* in progress, only a process killed during _download leaves one behind; *)
(* a failed download (network, archive, disk) removes it.                 *)
NoZipLeak == tmps <= kills + Cardinality(Downloading)

=============================================================================
