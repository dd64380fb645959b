------------------------------ MODULE ProbeBatch ------------------------------
(***************************************************************************)
(* src/tools/scanner/tester.py: one call of run_batch over a set of xray  *)
(* documents.  Every document is an asyncio task (_run_one) that waits on  *)
(* the batch semaphore, takes a port from the module-global rotating       *)
(* counter (_next_port), writes mirage_scan_<port>.json, spawns xray,      *)
(* sleeps, probes through the SOCKS port, optionally measures speed, tears *)
(* the process down, deletes the file and appends its TestResult under the *)
(* batch lock (test_single and _run_one).                                  *)
(*                                                                         *)
(* Tasks interleave only at the awaits of the code; each action below runs *)
(* from one await to the next.  The xray child may die at any time         *)
(* (ProcExit), which is the environment, not a task.                       *)
(***************************************************************************)
EXTENDS Integers, Sequences, FiniteSets

CONSTANTS
    Tests,          \* the documents of the batch (model values)
    Concurrency,    \* asyncio.Semaphore(concurrency) of run_batch
    BasePort,       \* _BASE_PORT
    PoolSize,       \* the modulus of _next_port (10000 in the code)
    StartCounters,  \* values _port_counter may hold when the batch starts
    MeasureSpeed,   \* the measure_speed argument
    Latencies,      \* latency_ms values int(elapsed * 1000) may take
    Speeds,         \* speed_mbps values the speed test may compute
    WriteMayFail,   \* whether writing the temp config file may raise
    CloseMayFail,   \* whether closing the aiohttp session may raise
    CallbackMayFail, \* whether the on_result display callback may raise
    NoError, ExitErr, HttpErr, TimeoutErr, ClientErr, SpawnErr

ASSUME Concurrency \in Nat \ {0}
ASSUME PoolSize \in Nat \ {0} /\ StartCounters \subseteq Nat
ASSUME Latencies \subseteq Nat /\ MeasureSpeed \in BOOLEAN
ASSUME WriteMayFail \in BOOLEAN /\ CloseMayFail \in BOOLEAN /\ CallbackMayFail \in BOOLEAN

VARIABLES
    pc,        \* where each task is suspended
    sem,       \* free permits of the semaphore
    counter,   \* _port_counter
    port,      \* the port test_single took
    files,     \* ports whose mirage_scan_<port>.json exists in the temp dir
    proc,      \* the xray child of each task: "none", "running", "exited"
    res,       \* the TestResult each task is filling in
    results,   \* run_batch's results list, in completion order
    returned,  \* asyncio.gather(tasks) has returned
    aborted    \* an exception escaped a task, so gather raised

vars == <<pc, sem, counter, port, files, proc, res, results, returned, aborted>>

Errors == {ExitErr, HttpErr, TimeoutErr, ClientErr, SpawnErr}
NoPort == -1
Ports == {BasePort + i : i \in 0..(PoolSize - 1)}

(* Mutant: a TestResult whose speed default is 0.0 instead of -1.0. *)
FreshZeroSpeed == [success |-> FALSE, latency |-> -1, speed |-> 0, error |-> NoError]

(* A fresh TestResult(params=..., description=...). *)
Fresh == [success |-> FALSE, latency |-> -1, speed |-> -1, error |-> NoError]

(* The tasks that hold a semaphore permit. *)
Holding == {t \in Tests : pc[t] \in {"spawn", "settle", "probe", "speed", "session",
                                     "cleanup", "cancelling"}}
(* A task that will take no further step. *)
Final == {"done", "raised", "cancelled"}

SetError(t, e) == res' = [res EXCEPT ![t].error = e]

-----------------------------------------------------------------------------

Init ==
    /\ pc = [t \in Tests |-> "sem"]
    /\ sem = Concurrency
    /\ counter \in StartCounters
    /\ port = [t \in Tests |-> NoPort]
    /\ files = {}
    /\ proc = [t \in Tests |-> "none"]
    /\ res = [t \in Tests |-> Fresh]
    /\ results = <<>>
    /\ returned = FALSE
    /\ aborted = FALSE

(* _next_port: the rotating port of the pool. *)
NextPort == BasePort + (counter % PoolSize)

(* async with sem, then test_single up to create_subprocess_exec: take a  *)
(* port, copy the document with that port and write the temp file.  None  *)
(* of this awaits once the permit is free.  The write is outside the try,  *)
(* so an OSError there escapes the task: the permit is released on the way *)
(* out and gather raises; open() may already have created the file.        *)
Start(t) ==
    /\ ~aborted
    /\ pc[t] = "sem"
    /\ sem > 0
    /\ counter' = counter + 1
    /\ port' = [port EXCEPT ![t] = NextPort]
    /\ \/ /\ sem' = sem - 1
          /\ files' = files \cup {NextPort}
          /\ pc' = [pc EXCEPT ![t] = "spawn"]
          /\ UNCHANGED aborted
       \/ /\ WriteMayFail
          /\ files' \in {files, files \cup {NextPort}}
          /\ pc' = [pc EXCEPT ![t] = "raised"]
          /\ aborted' = TRUE
          /\ UNCHANGED sem
    /\ UNCHANGED <<proc, res, results, returned>>

(* await create_subprocess_exec(xray_bin, "run", "-c", config_path): the  *)
(* child starts, or the exec raises (missing binary) and the generic       *)
(* handler records str(e).                                                 *)
Spawn(t) ==
    /\ ~aborted
    /\ pc[t] = "spawn"
    /\ \/ /\ proc' = [proc EXCEPT ![t] = "running"]
          /\ pc' = [pc EXCEPT ![t] = "settle"]
          /\ UNCHANGED res
       \/ /\ SetError(t, SpawnErr)
          /\ pc' = [pc EXCEPT ![t] = "cleanup"]
          /\ UNCHANGED proc
    /\ UNCHANGED <<sem, counter, port, files, results, returned, aborted>>

(* The xray child exits by itself (bad config, port already bound, crash). *)
ProcExit(t) ==
    /\ proc[t] = "running"
    /\ proc' = [proc EXCEPT ![t] = "exited"]
    /\ UNCHANGED <<pc, sem, counter, port, files, res, results, returned, aborted>>

(* After await asyncio.sleep(1.5): a child that already exited is a       *)
(* failure "xray exited with code N" and the task goes to its finally.     *)
Settle(t) ==
    /\ ~aborted
    /\ pc[t] = "settle"
    /\ \/ /\ proc[t] = "exited"
          /\ SetError(t, ExitErr)
          /\ pc' = [pc EXCEPT ![t] = "cleanup"]
       \/ /\ proc[t] = "running"
          /\ pc' = [pc EXCEPT ![t] = "probe"]
          /\ UNCHANGED res
    /\ UNCHANGED <<sem, counter, port, files, proc, results, returned, aborted>>

(* Mutant: result.success set before the status check. *)
ProbeEarlySuccess(t) ==
    /\ ~aborted
    /\ pc[t] = "probe"
    /\ \/ /\ proc[t] = "running"
          /\ \E l \in Latencies :
                res' = [res EXCEPT ![t].success = TRUE, ![t].latency = l]
          /\ pc' = [pc EXCEPT ![t] = IF MeasureSpeed THEN "speed" ELSE "session"]
       \/ /\ proc[t] = "running"
          /\ \E l \in Latencies :
                res' = [res EXCEPT ![t].success = TRUE, ![t].latency = l,
                                   ![t].error = HttpErr]
          /\ pc' = [pc EXCEPT ![t] = "session"]
       \/ /\ \E e \in {TimeoutErr, ClientErr} : SetError(t, e)
          /\ pc' = [pc EXCEPT ![t] = "session"]
    /\ UNCHANGED <<sem, counter, port, files, proc, results, returned, aborted>>

(* The latency GET through socks5://127.0.0.1:<port>.  Only a live child  *)
(* can answer; a timeout or client error can happen either way.            *)
Probe(t) ==
    /\ ~aborted
    /\ pc[t] = "probe"
    /\ \/ /\ proc[t] = "running"
          /\ \E l \in Latencies :
                res' = [res EXCEPT ![t].success = TRUE, ![t].latency = l]
          /\ pc' = [pc EXCEPT ![t] = IF MeasureSpeed THEN "speed" ELSE "session"]
       \/ /\ proc[t] = "running"
          /\ SetError(t, HttpErr)
          /\ pc' = [pc EXCEPT ![t] = "session"]
       \/ /\ \E e \in {TimeoutErr, ClientErr} : SetError(t, e)
          /\ pc' = [pc EXCEPT ![t] = "session"]
    /\ UNCHANGED <<sem, counter, port, files, proc, results, returned, aborted>>

(* The optional speed GET; every failure of it is swallowed. *)
Speed(t) ==
    /\ ~aborted
    /\ pc[t] = "speed"
    /\ \/ /\ proc[t] = "running"
          /\ \E s \in Speeds : res' = [res EXCEPT ![t].speed = s]
       \/ UNCHANGED res
    /\ pc' = [pc EXCEPT ![t] = "session"]
    /\ UNCHANGED <<sem, counter, port, files, proc, results, returned, aborted>>

(* Leaving async with aiohttp.ClientSession(...) awaits the close, on the *)
(* normal exits (after the status check, after the speed test) and on the *)
(* exceptional ones.  When the close raises, the generic handler records  *)
(* str(e), and a success set before stays a success.                     *)
CloseSession(t) ==
    /\ ~aborted
    /\ pc[t] = "session"
    /\ \/ UNCHANGED res
       \/ CloseMayFail /\ SetError(t, ClientErr)
    /\ pc' = [pc EXCEPT ![t] = "cleanup"]
    /\ UNCHANGED <<sem, counter, port, files, proc, results, returned, aborted>>

(* finally, first half: a child whose returncode is None is terminated,  *)
(* waited on for 3 s and killed if still alive; this awaits.               *)
Terminate(t) ==
    /\ pc[t] \in {"cleanup", "cancelling"}
    /\ proc[t] = "running"
    /\ proc' = [proc EXCEPT ![t] = "exited"]
    /\ UNCHANGED <<pc, sem, counter, port, files, res, results, returned, aborted>>

(* Mutant: the temp file is only deleted after a successful probe. *)
FinishNoUnlink(t) ==
    /\ pc[t] = "cleanup"
    /\ proc[t] # "running"
    /\ files' = IF res[t].success THEN files \ {port[t]} ELSE files
    /\ results' = Append(results, [test |-> t, port |-> port[t], out |-> res[t]])
    /\ sem' = sem + 1
    /\ pc' = [pc EXCEPT ![t] = "done"]
    /\ UNCHANGED <<counter, port, proc, res, returned, aborted>>

(* finally, second half, and the rest of _run_one without an await: the   *)
(* temp file is unlinked, the result appended under the lock, on_result    *)
(* called, and the permit released.  An exception from on_result leaves   *)
(* the lock and the semaphore through their async with and escapes the    *)
(* task, so gather raises.                                                 *)
Finish(t) ==
    /\ pc[t] = "cleanup"
    /\ proc[t] # "running"
    /\ files' = files \ {port[t]}
    /\ results' = Append(results, [test |-> t, port |-> port[t], out |-> res[t]])
    /\ sem' = sem + 1
    /\ \/ pc' = [pc EXCEPT ![t] = "done"] /\ UNCHANGED aborted
       \/ /\ CallbackMayFail
          /\ pc' = [pc EXCEPT ![t] = "raised"]
          /\ aborted' = TRUE
    /\ UNCHANGED <<counter, port, proc, res, returned>>

(* await asyncio.gather(tasks) returns once every task has finished. *)
Gathered ==
    /\ ~aborted
    /\ ~returned
    /\ \A t \in Tests : pc[t] = "done"
    /\ returned' = TRUE
    /\ UNCHANGED <<pc, sem, counter, port, files, proc, res, results, aborted>>

-----------------------------------------------------------------------------
(* After gather raised, the exception leaves smart_search and asyncio.run *)
(* cancels every task still pending at its current await.  CancelledError *)
(* is not an Exception, so only the finally clause runs.                   *)

Cancel(t) ==
    /\ aborted
    /\ \/ /\ pc[t] = "sem"
          /\ pc' = [pc EXCEPT ![t] = "cancelled"]
          /\ UNCHANGED <<sem, files, proc>>
       \* create_subprocess_exec kills the half-started child; proc is None
       \/ /\ pc[t] = "spawn"
          /\ files' = files \ {port[t]}
          /\ pc' = [pc EXCEPT ![t] = "cancelled"]
          /\ sem' = sem + 1
          /\ UNCHANGED proc
       \/ /\ pc[t] \in {"settle", "probe", "speed", "session"}
          /\ pc' = [pc EXCEPT ![t] = "cancelling"]
          /\ UNCHANGED <<sem, files, proc>>
       \* cancelled inside proc.wait(): the signal is sent, but the error
       \* leaves the finally before os.unlink
       \/ /\ pc[t] \in {"cleanup", "cancelling"}
          /\ proc[t] = "running"
          /\ proc' = [proc EXCEPT ![t] = "exited"]
          /\ pc' = [pc EXCEPT ![t] = "cancelled"]
          /\ sem' = sem + 1
          /\ UNCHANGED files
    /\ UNCHANGED <<counter, port, res, results, returned, aborted>>

(* Mutant: the permit is not given back on the cancellation path. *)
UnwindNoRelease(t) ==
    /\ pc[t] = "cancelling"
    /\ proc[t] # "running"
    /\ files' = files \ {port[t]}
    /\ pc' = [pc EXCEPT ![t] = "cancelled"]
    /\ UNCHANGED <<sem, counter, port, proc, res, results, returned, aborted>>

(* Mutant: the finally skips the returncode check and never kills. *)
UnwindSkipsKill(t) ==
    /\ pc[t] = "cancelling"
    /\ files' = files \ {port[t]}
    /\ pc' = [pc EXCEPT ![t] = "cancelled"]
    /\ sem' = sem + 1
    /\ UNCHANGED <<counter, port, proc, res, results, returned, aborted>>

(* The finally of a cancelled task whose child is gone: unlink, re-raise *)
(* through async with sem, which releases the permit.                     *)
Unwind(t) ==
    /\ pc[t] = "cancelling"
    /\ proc[t] # "running"
    /\ files' = files \ {port[t]}
    /\ pc' = [pc EXCEPT ![t] = "cancelled"]
    /\ sem' = sem + 1
    /\ UNCHANGED <<counter, port, proc, res, results, returned, aborted>>

(* The run is over: gather returned, or every task ended after it raised. *)
Stopped ==
    /\ returned \/ (aborted /\ \A t \in Tests : pc[t] \in Final)
    /\ UNCHANGED vars

Step(t) ==
    \/ Start(t) \/ Spawn(t) \/ Settle(t) \/ Probe(t) \/ Speed(t) \/ CloseSession(t)
    \/ Terminate(t) \/ Finish(t) \/ Cancel(t) \/ Unwind(t)

Next ==
    \/ \E t \in Tests : Step(t) \/ ProcExit(t)
    \/ Gathered
    \/ Stopped

(* The event loop keeps running every ready task, a sleeping task is woken *)
(* by its timer and a killed child is reaped, so each task is weakly fair; *)
(* a child exiting on its own is not something the loop guarantees.        *)
Fairness ==
    /\ \A t \in Tests : WF_vars(Step(t))
    /\ WF_vars(Gathered)

Spec == Init /\ [][Next]_vars /\ Fairness

-----------------------------------------------------------------------------
(* Properties *)

TypeOK ==
    /\ pc \in [Tests -> {"sem", "spawn", "settle", "probe", "speed", "session", "cleanup",
                         "cancelling", "done", "raised", "cancelled"}]
    /\ sem \in Int
    /\ counter \in Nat
    /\ port \in [Tests -> Ports \cup {NoPort}]
    /\ files \subseteq Ports
    /\ proc \in [Tests -> {"none", "running", "exited"}]
    /\ res \in [Tests -> [success : BOOLEAN, latency : Latencies \cup {-1},
                          speed : Speeds \cup {-1}, error : Errors \cup {NoError}]]
    /\ returned \in BOOLEAN /\ aborted \in BOOLEAN

(* The semaphore of run_batch bounds the probes in flight: the permits    *)
(* handed out are exactly the tasks between acquiring and releasing, and  *)
(* never more than concurrency of them, on every exit path of a task.     *)
PermitsAccounted ==
    /\ sem >= 0
    /\ sem + Cardinality(Holding) = Concurrency

(* Two probes in flight never share a SOCKS port, hence never share the   *)
(* temp file mirage_scan_<port>.json that one of them deletes in its      *)
(* finally while the other's xray is still starting from it.              *)
PortsExclusive ==
    \A t1, t2 \in Holding : t1 # t2 => port[t1] # port[t2]

(* When run_batch returns, every xray child it started has exited and     *)
(* every temp config file it wrote is gone, whichever way each probe      *)
(* ended (spawn error, early exit, bad status, timeout, success).          *)
CleanAfterReturn ==
    returned => /\ files = {}
                /\ \A t \in Tests : proc[t] # "running"

(* Even when the batch dies of an exception and its tasks are cancelled,  *)
(* no xray child is left running once every task has ended.               *)
NoChildOutlivesTasks ==
    (\A t \in Tests : pc[t] \in Final) => \A t \in Tests : proc[t] # "running"

(* One probe's failure never aborts the batch, and its cleanup still runs *)
(* (the spec's concurrency section): run_batch eventually returns, and by  *)
(* then no temp config file is left, whatever its probes ran into.        *)
BatchEndsClean == <>(returned /\ files = {})

(* The detailed batch implements BatchSpec: each document is recorded     *)
(* exactly once with a result that obeys the TestResult contract, and the *)
(* batch eventually completes.                                             *)
Batch == INSTANCE BatchSpec WITH
    Docs <- Tests,
    pending <- {t \in Tests : pc[t] # "done"},
    results <- [i \in 1..Len(results) |->
                    [doc |-> results[i].test, out |-> results[i].out]]

ImplementsBatch == Batch!Spec

=============================================================================
