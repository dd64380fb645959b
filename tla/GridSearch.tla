------------------------------ MODULE GridSearch ------------------------------
(***************************************************************************)
(* src/tools/scanner/grid_search.py (smart_search, quick_search,           *)
(* full_search) with the test-case generators of config_generator.py they  *)
(* call.  Each phase hands a list of override dicts to run_batch; the      *)
(* batch is modelled by its contract, BatchSpec, which ProbeBatch is shown *)
(* to implement: documents complete one at a time, in any order, each as a *)
(* success with a latency or a failure.                                    *)
(*                                                                         *)
(* An override dict is a TLA+ function from parameter keys to values; the  *)
(* baseline {} is the function with an empty domain.                       *)
(***************************************************************************)
EXTENDS Integers, Sequences, FiniteSets, SequencesExt, TLC

CONSTANTS
    ParamSpace,   \* PARAM_SPACE: key -> sequence of candidate values
    ParamGroups,  \* PARAM_GROUPS: group name -> sequence of keys
    QuickGroups,  \* the group list quick_search passes to smart_search
    QuickParams,  \* QUICK_PARAMS of config_generator.py
    Invocations,  \* the command lines the run explores: [mode, params]
    TopN,         \* top_n of generate_combination_grid (3 in smart_search)
    Latencies     \* latency_ms values a successful probe may report

ASSUME \A c \in Invocations : c.mode \in {"smart", "quick", "full"}
ASSUME TopN \in Nat \ {0}
ASSUME Latencies \subseteq Nat

VARIABLES
    mode,          \* the search_fn key: "smart", "quick" or "full"
    requested,     \* the param_groups argument, a sequence of group names
    phase,         \* the phase smart_search or full_search is in
    docs,          \* the override dicts of the batch now running
    pending,       \* indices of docs whose probe has not completed
    batchRes,      \* the running batch's results, in completion order
    sweepResults,  \* sweep_results, kept for winner extraction
    allResults     \* all_results

vars == <<mode, requested, phase, docs, pending, batchRes, sweepResults, allResults>>

Baseline == [k \in {} |-> k]

-----------------------------------------------------------------------------
(* The generators of config_generator.py *)

(* PARAM_GROUPS.get(group_name, [group_name]) *)
GroupKeys(g) == IF g \in DOMAIN ParamGroups THEN ParamGroups[g] ELSE <<g>>

(* Mutant: the last requested group is skipped. *)
KeysOfDropLast(groups) ==
    FlattenSeq([i \in 1..(Len(groups) - 1) |->
                    SelectSeq(GroupKeys(groups[i]), LAMBDA k : k \in DOMAIN ParamSpace)])

(* The keys a group list expands to, dropping those not in PARAM_SPACE. *)
KeysOf(groups) ==
    FlattenSeq([i \in 1..Len(groups) |->
                    SelectSeq(GroupKeys(groups[i]), LAMBDA k : k \in DOMAIN ParamSpace)])

(* One singleton override {key: value} per candidate value of key. *)
Singletons(k) == [j \in 1..Len(ParamSpace[k]) |-> (k :> ParamSpace[k][j])]

(* generate_smart_grid: the baseline, then every singleton of every key. *)
SmartGrid(groups) ==
    LET ks == KeysOf(groups)
    IN  <<Baseline>> \o FlattenSeq([i \in 1..Len(ks) |-> Singletons(ks[i])])

(* itertools.product over a sequence of sequences, first factor slowest. *)
RECURSIVE Product(_)
Product(ls) ==
    IF ls = <<>> THEN << <<>> >>
    ELSE LET rest == Product(Tail(ls))
         IN  FlattenSeq([i \in 1..Len(Head(ls)) |->
                            [j \in 1..Len(rest) |-> <<Head(ls)[i]>> \o rest[j]]])

(* merged.update(o) for each o of a tuple, in order: later keys win. *)
RECURSIVE MergeAll(_)
MergeAll(os) == IF os = <<>> THEN Baseline ELSE Last(os) @@ MergeAll(Front(os))

(* generate_combination_grid: product of each dimension's first top_n   *)
(* winners, merged.                                                      *)
CombinationGrid(tops) ==
    IF tops = <<>> THEN <<>>
    ELSE LET combos == Product(tops)
         IN  [i \in 1..Len(combos) |-> MergeAll(combos[i])]

(* generate_full_grid: product over every value of every key. *)
FullGrid(groups) ==
    LET ks == KeysOf(groups)
        combos == Product([i \in 1..Len(ks) |-> ParamSpace[ks[i]]])
    IN  IF ks = <<>> THEN <<Baseline>>
        ELSE [c \in 1..Len(combos) |->
                 MergeAll([i \in 1..Len(ks) |-> (ks[i] :> combos[c][i])])]

-----------------------------------------------------------------------------
(* Winner extraction of smart_search *)

(* list.sort(key=latency): stable, so equal latencies keep completion order. *)
RECURSIVE InsertStable(_, _)
InsertStable(x, s) ==
    IF s = <<>> THEN <<x>>
    ELSE IF Head(s).latency <= x.latency THEN <<Head(s)>> \o InsertStable(x, Tail(s))
         ELSE <<x>> \o s

RECURSIVE SortByLatency(_)
SortByLatency(s) ==
    IF s = <<>> THEN s ELSE InsertStable(Last(s), SortByLatency(Front(s)))

(* A sweep result belongs to a group when its overrides touch a key of it. *)
Touches(r, g) == \E k \in ToSet(GroupKeys(g)) : k \in DOMAIN r.params

(* Mutant: failed sweep results are not filtered out. *)
GroupResultsAnyOutcome(rs, g) ==
    SortByLatency(SelectSeq(rs, LAMBDA r : Touches(r, g)))

(* group_results: the group's successful sweep results by latency. *)
GroupResults(rs, g) ==
    SortByLatency(SelectSeq(rs, LAMBDA r : r.success /\ Touches(r, g)))

(* The keys of the winners dict, in insertion order: each group name once, *)
(* at its first occurrence, when it has a successful result.               *)
WinnerGroups(rs, groups) ==
    LET idx == SelectSeq([i \in 1..Len(groups) |-> i],
                   LAMBDA i : /\ \A j \in 1..(i - 1) : groups[j] # groups[i]
                              /\ GroupResults(rs, groups[i]) # <<>>)
    IN  [j \in 1..Len(idx) |-> groups[idx[j]]]

(* dimension_tops: the overrides of each winning group's first top_n. *)
Tops(rs, groups) ==
    LET wg == WinnerGroups(rs, groups)
        top(g) == LET gr == GroupResults(rs, g)
                  IN  [i \in 1..Min({TopN, Len(gr)}) |-> gr[i].params]
    IN  [j \in 1..Len(wg) |-> top(wg[j])]

-----------------------------------------------------------------------------

(* smart_search(param_groups=...), or quick_search's fixed list. *)
Groups == IF mode = "quick" THEN QuickGroups ELSE requested

(* The sweep cases: generate_smart_grid without the baseline (if o). *)
SweepDocs == SelectSeq(SmartGrid(Groups), LAMBDA o : o # Baseline)

StartBatch(ds) ==
    /\ docs' = ds
    /\ pending' = DOMAIN ds
    /\ batchRes' = <<>>

Init ==
    /\ sweepResults = <<>>
    /\ allResults = <<>>
    /\ batchRes = <<>>
    /\ \E c \in Invocations : mode = c.mode /\ requested = c.params
    /\ IF mode = "full"
       THEN /\ phase = "full"
            /\ docs = FullGrid(Groups)
            /\ pending = DOMAIN docs
       ELSE /\ phase = "baseline"
            /\ docs = <<Baseline>>
            /\ pending = {1}

(* Mutant: a failed probe reports latency 0 instead of the -1 sentinel. *)
ProbeDoneZeroLatency(i) ==
    /\ i \in pending
    /\ pending' = pending \ {i}
    /\ \E ok \in BOOLEAN, l \in Latencies :
          batchRes' = Append(batchRes,
                             [params |-> docs[i], success |-> ok,
                              latency |-> IF ok THEN l ELSE 0])
    /\ UNCHANGED <<mode, requested, phase, docs, sweepResults, allResults>>

(* One probe of the running batch completes (BatchSpec!Complete). *)
ProbeDone(i) ==
    /\ i \in pending
    /\ pending' = pending \ {i}
    /\ \E ok \in BOOLEAN, l \in Latencies :
          batchRes' = Append(batchRes,
                             [params |-> docs[i], success |-> ok,
                              latency |-> IF ok THEN l ELSE -1])
    /\ UNCHANGED <<mode, requested, phase, docs, sweepResults, allResults>>

(* Phase 1 returned: append the baseline result, start the sweep batch. *)
EndBaseline ==
    /\ phase = "baseline" /\ pending = {}
    /\ allResults' = allResults \o batchRes
    /\ phase' = "sweep"
    /\ StartBatch(SweepDocs)
    /\ UNCHANGED <<mode, requested, sweepResults>>

(* Phase 2 returned: extend all_results, pick the winners and, when more *)
(* than one group has any, run the combination batch.                    *)
EndSweep ==
    /\ phase = "sweep" /\ pending = {}
    /\ allResults' = allResults \o batchRes
    /\ sweepResults' = batchRes
    /\ UNCHANGED <<mode, requested>>
    /\ LET tops == Tops(batchRes, Groups)
       IN  \/ /\ Len(tops) > 1
              /\ phase' = "combine"
              /\ StartBatch(CombinationGrid(tops))
           \/ /\ Len(tops) <= 1
              /\ phase' = "done"
              /\ UNCHANGED <<docs, pending, batchRes>>

(* Phase 3, or the single full-grid batch, returned. *)
EndLast ==
    /\ phase \in {"combine", "full"} /\ pending = {}
    /\ allResults' = allResults \o batchRes
    /\ phase' = "done"
    /\ UNCHANGED <<mode, requested, docs, pending, batchRes, sweepResults>>

Finished == phase = "done" /\ UNCHANGED vars

Next ==
    \/ \E i \in pending : ProbeDone(i)
    \/ EndBaseline \/ EndSweep \/ EndLast
    \/ Finished

Spec == Init /\ [][Next]_vars /\ WF_vars(Next)

-----------------------------------------------------------------------------
(* Properties *)

Result == [params : UNION {[S -> UNION {ToSet(ParamSpace[k]) : k \in DOMAIN ParamSpace}]
                           : S \in SUBSET DOMAIN ParamSpace},
           success : BOOLEAN, latency : Latencies \cup {-1}]

TypeOK ==
    /\ [mode |-> mode, params |-> requested] \in Invocations
    /\ phase \in {"baseline", "sweep", "combine", "full", "done"}
    /\ pending \subseteq DOMAIN docs
    /\ batchRes \in Seq(Result) /\ sweepResults \in Seq(Result)
    /\ allResults \in Seq(Result)

(* The groups a mode is documented to sweep: the requested ones, or       *)
(* QUICK_PARAMS for quick mode ("only fragment + fingerprint + alpn").     *)
Intended == IF mode = "quick" THEN QuickParams ELSE requested

IntendedKeys ==
    {k \in DOMAIN ParamSpace : \E i \in 1..Len(Intended) : k \in ToSet(GroupKeys(Intended[i]))}

(* The sweep batch probes every candidate value of every key of every     *)
(* group the mode is meant to test, each on its own.                       *)
SweepCoversIntended ==
    phase = "sweep" =>
        \A k \in IntendedKeys : \A v \in ToSet(ParamSpace[k]) : (k :> v) \in ToSet(docs)

(* The successful sweep results of group g with a latency below l. *)
Better(g, l) ==
    {j \in DOMAIN sweepResults : /\ sweepResults[j].success
                                /\ Touches(sweepResults[j], g)
                                /\ sweepResults[j].latency < l}

(* Groups with at least one successful sweep result. *)
Winning == {g \in ToSet(Groups) : \E r \in ToSet(sweepResults) : r.success /\ Touches(r, g)}

(* Phase 3 probes exactly the merged products of each winning group's    *)
(* top_n successful sweep overrides: every combination sets, for every   *)
(* winning group, the overrides of a successful sweep probe of that      *)
(* group that fewer than top_n others beat, and there are                 *)
(* prod(min(top_n, successes of g)) of them.  A failed probe (latency -1) *)
(* or a slower one taken in place of a faster one breaks it.              *)
CombosFromTopWinners ==
    phase = "combine" =>
      /\ Len(docs) = MapThenFoldSet(LAMBDA x, y : x * y, 1,
                        LAMBDA g : Min({TopN, Cardinality(Better(g, 1 + Max(Latencies)))}),
                        LAMBDA S : CHOOSE x \in S : TRUE, Winning)
      /\ \A i \in DOMAIN docs : \A g \in Winning :
            \E r \in ToSet(sweepResults) :
                /\ r.success /\ Touches(r, g)
                /\ r.params = Restrict(docs[i], DOMAIN docs[i] \cap ToSet(GroupKeys(g)))
                /\ Cardinality(Better(g, r.latency)) < TopN

(* Full mode probes each assignment of a candidate value to every key of *)
(* the requested groups exactly once (the baseline when there is none).  *)
FullGridIsProduct ==
    LET ks == {k \in DOMAIN ParamSpace : \E i \in 1..Len(Groups) : k \in ToSet(GroupKeys(Groups[i]))}
        grid == {f \in [ks -> UNION {ToSet(ParamSpace[k]) : k \in ks}] :
                    \A k \in ks : f[k] \in ToSet(ParamSpace[k])}
    IN  phase = "full" => ToSet(docs) = grid /\ Len(docs) = Cardinality(grid)

=============================================================================
