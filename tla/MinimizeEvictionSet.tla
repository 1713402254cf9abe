------------------------- MODULE MinimizeEvictionSet -------------------------
(***************************************************************************)
(* minimize_eviction_set (algo/minimize_eviction_set.hpp): reduce the      *)
(* eviction set to max_size, then binary-search the smallest size m to     *)
(* which reduce_eviction_set still succeeds, each probe a new call of      *)
(* reduce_eviction_set on [first, last).  Every call runs the step model   *)
(* of ReduceEvictionSet with its max_size bound to the call's argument, on *)
(* the same vector, so whatever a call leaves in the vector is what the    *)
(* next call is handed.                                                    *)
(*                                                                         *)
(* The binary-search call at line 54 omits the oracle argument, so no      *)
(* program instantiates this function today; the model passes the oracle  *)
(* the first call uses, which is what the line evidently means.            *)
(***************************************************************************)
EXTENDS Integers, Sequences, FiniteSets

CONSTANTS N, MinN, Ways, MaxSize

ASSUME MaxSize \in Nat \ {0}

VARIABLES
    input, arr, cong, last, cs, minGroup, counters, k, maskBegin, maskEnd,
    groupSize, pc, result,       \* the running reduce_eviction_set call
    mpc,       \* "first": the reduction to max_size; "search": at the while
               \* test; "probe": in a binary-search call; "done"
    mid,       \* the max_size argument of the running call (m)
    lo, hi,    \* l and r
    it,        \* the iterator it, Uninit until a probe succeeds
    newLast,   \* last after the first reduction
    ret        \* the returned iterator, as an offset from first

reduceVars == <<input, arr, cong, last, cs, minGroup, counters, k, maskBegin,
                maskEnd, groupSize, pc, result>>
minVars == <<mpc, mid, lo, hi, it, newLast, ret>>
vars == <<reduceVars, minVars>>

Uninit == -1   \* it has not been assigned

R(m) == INSTANCE ReduceEvictionSet WITH MaxSize <- m

(* reduce_eviction_set(..., first, last, m) is entered afresh: the loop   *)
(* state starts over on [first, last) of the vector as it now is.         *)
StartReduce(to, m) ==
    /\ mid' = m
    /\ last' = to
    /\ cs' = to
    /\ minGroup' = 0 /\ counters' = <<0, 0>> /\ k' = 1
    /\ maskBegin' = 0 /\ maskEnd' = 0 /\ groupSize' = 0
    /\ pc' = "round"
    /\ result' = "none"
    /\ UNCHANGED <<input, arr, cong>>

(* The caller hands over an eviction set, and the first call reduces it   *)
(* to max_size.                                                            *)
Init ==
    /\ R(MaxSize)!Init
    /\ mpc = "first"
    /\ mid = MaxSize
    /\ lo = 0 /\ hi = 0
    /\ it = Uninit
    /\ newLast = 0
    /\ ret = 0

(* A step of the running reduce_eviction_set call. *)
ReduceStep ==
    /\ mpc \in {"first", "probe"}
    /\ \E m \in 1 .. MaxSize : m = mid /\ R(m)!Next
    /\ UNCHANGED minVars

(* The first reduction returned: give up with first, or start the search  *)
(* with l = 1, r = max_size on [first, new_last).                          *)
AfterFirst ==
    /\ mpc = "first"
    /\ pc = "done"
    /\ IF result = "fail"
       THEN mpc' = "done" /\ ret' = 0 /\ UNCHANGED <<lo, hi, newLast>>
       ELSE /\ mpc' = "search"
            /\ newLast' = last
            /\ lo' = 1 /\ hi' = MaxSize
            /\ UNCHANGED ret
    /\ UNCHANGED <<reduceVars, mid, it>>

(* while (l < r): probe m = l + (r - l) / 2. *)
Probe ==
    /\ mpc = "search"
    /\ lo < hi
    /\ StartReduce(newLast, lo + (hi - lo) \div 2)
    /\ mpc' = "probe"
    /\ UNCHANGED <<lo, hi, it, newLast, ret>>

(* Mutant: a failed probe sets l = m, losing the + 1. *)
AfterProbeNoIncrement ==
    /\ mpc = "probe"
    /\ pc = "done"
    /\ IF result = "ok"
       THEN hi' = mid /\ it' = last /\ UNCHANGED lo
       ELSE lo' = mid /\ UNCHANGED <<hi, it>>
    /\ mpc' = "search"
    /\ UNCHANGED <<reduceVars, mid, newLast, ret>>

(* The probe returned: success narrows r to m and keeps its iterator in   *)
(* it, failure raises l to m + 1.                                          *)
AfterProbe ==
    /\ mpc = "probe"
    /\ pc = "done"
    /\ IF result = "ok"
       THEN hi' = mid /\ it' = last /\ UNCHANGED lo
       ELSE lo' = mid + 1 /\ UNCHANGED <<hi, it>>
    /\ mpc' = "search"
    /\ UNCHANGED <<reduceVars, mid, newLast, ret>>

(* return it.  If no probe succeeded, it was never assigned: reading it   *)
(* is undefined, and any iterator of the vector can come back.            *)
Return ==
    /\ mpc = "search"
    /\ lo >= hi
    /\ mpc' = "done"
    /\ IF it = Uninit THEN ret' \in 0 .. newLast ELSE ret' = it
    /\ UNCHANGED <<reduceVars, mid, lo, hi, it, newLast>>

Next == ReduceStep \/ AfterFirst \/ Probe \/ AfterProbe \/ Return

Spec == Init /\ [][Next]_vars /\ WF_vars(Next)

-----------------------------------------------------------------------------
(* The vector always holds the addresses it was handed, and every call's  *)
(* variables keep their types.                                             *)
TypeOK ==
    /\ R(MaxSize)!TypeOK
    /\ mpc \in {"first", "search", "probe", "done"}
    /\ mid \in 1 .. MaxSize
    /\ it \in {Uninit} \cup 0 .. N

(* In every reduce_eviction_set call, current_size is the length of       *)
(* [first, last), through both ways out of the found label.                *)
SizeTracksRange == R(MaxSize)!SizeTracksRange

(* minimize_eviction_set implements reduce_eviction_set's promise, and    *)
(* the binary search afterwards only reorders (the function's @note): the  *)
(* first call ends with at most max_size addresses that evict the target,  *)
(* and no later call, failed ones included, changes which addresses        *)
(* [first, new_last) holds.                                                *)
Contract == INSTANCE EvictionSetReduction
    WITH Universe <- 1 .. N,
         status <- IF mpc = "first" /\ result = "none" THEN "busy"
                   ELSE IF mpc = "first" THEN result ELSE "ok",
         out <- IF mpc = "first" /\ result = "none" THEN input
                ELSE IF mpc = "first" THEN R(MaxSize)!Slice(arr, 0, last)
                ELSE R(MaxSize)!Slice(arr, 0, newLast)

MinimizeRefinesReduction == Contract!Spec

(* The binary search finds the smallest eviction set: whenever a probe  *)
(* succeeded, the iterator minimize_eviction_set returns ends an eviction *)
(* set of exactly Ways addresses, the least that can evict the target,    *)
(* although the failed probes after the last success permuted the vector  *)
(* in place.  This relies on reduce_eviction_set succeeding for every      *)
(* m >= Ways, the monotonicity a binary search over m assumes.             *)
FindsMinimalSize ==
    mpc = "done" /\ it # Uninit =>
        /\ ret = Ways
        /\ R(MaxSize)!IsEvset(R(MaxSize)!Slice(arr, 0, ret))

(* minimize_eviction_set returns: the binary search ends.                 *)
Terminates == <>(mpc = "done")

(* What minimize_eviction_set's comment promises: the iterator it returns *)
(* is first (failure) or the end of an eviction set of [first, it).        *)
ReturnsEvictionSet ==
    mpc = "done" /\ ret # 0 => R(MaxSize)!IsEvset(R(MaxSize)!Slice(arr, 0, ret))
=============================================================================
