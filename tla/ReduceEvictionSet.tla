-------------------------- MODULE ReduceEvictionSet --------------------------
(***************************************************************************)
(* The group-testing reduction reduce_eviction_set                        *)
(* (algo/impl/reduce_eviction_set.hpp) and its vector wrapper.  The vector *)
(* holds the addresses 1..N; positions are 1-based, a C++ iterator         *)
(* first + k is the offset k.  Each loop iteration that calls the oracle   *)
(* is one step.  The oracle is_eviction_set answers whether the addresses  *)
(* outside the mask hold Ways addresses congruent with the target.        *)
(***************************************************************************)
EXTENDS Naturals, Sequences, FiniteSets

CONSTANTS
    N,         \* largest vector handed to the reduction
    MinN,      \* smallest vector handed to the reduction
    Ways,      \* associativity: Ways congruent addresses evict the target
    MaxSize    \* max_size

ASSUME N \in Nat /\ MinN \in 1 .. N /\ Ways \in Nat \ {0} /\ MaxSize \in Nat

VARIABLES
    input,     \* the addresses the vector holds at the call
    arr,       \* the vector's contents (positions past its size unused)
    cong,      \* which addresses are congruent with the target
    last,      \* offset of the iterator `last`
    cs,        \* current_size
    minGroup,  \* min_group_size of this round
    counters,  \* group_counters
    k,         \* which counter the range-for is on (1 or 2)
    maskBegin, \* offset of mask_begin
    maskEnd,   \* offset of mask_end
    groupSize, \* group_size
    pc,        \* "round": at the while test; "scan": in the for loop; "done"
    result     \* what the wrapper returns: "none", "ok" or "fail"

vars == <<input, arr, cong, last, cs, minGroup, counters, k, maskBegin, maskEnd,
          groupSize, pc, result>>

Addresses == 1 .. N

(* The addresses at offsets [from, to).                                    *)
Slice(a, from, to) == {a[i] : i \in (from + 1) .. to}

IsEvset(S) == Cardinality(S \cap cong) >= Ways

(* Faulty variant for mutation analysis: std::copy of the last group over *)
(* the mask instead of std::swap_ranges.                                   *)
CopyRanges(a, i, n, j) ==
    [p \in DOMAIN a |->
        IF p - 1 \in j .. (j + n - 1) THEN a[p - j + i] ELSE a[p]]

(* std::swap_ranges(a + i, a + i + n, a + j) on non-overlapping ranges.    *)
SwapRanges(a, i, n, j) ==
    [p \in DOMAIN a |->
        IF p - 1 \in i .. (i + n - 1) THEN a[p - i + j]
        ELSE IF p - 1 \in j .. (j + n - 1) THEN a[p - j + i]
        ELSE a[p]]

TypeOK ==
    /\ arr \in [Addresses -> Addresses]
    /\ {arr[i] : i \in Addresses} = Addresses
    /\ input \subseteq Addresses
    /\ cong \subseteq input
    /\ {last, cs, minGroup, maskBegin, maskEnd, groupSize} \subseteq 0 .. N + 1
    /\ counters \in [1 .. 2 -> 0 .. N + 1]
    /\ k \in 1 .. 2
    /\ pc \in {"round", "scan", "done"}
    /\ result \in {"none", "ok", "fail"}

(* The caller hands over an eviction set (the annotation assert).         *)
Init ==
    /\ \E n \in MinN .. N :
          /\ input = 1 .. n
          /\ last = n
          /\ cs = n
    /\ arr = [i \in Addresses |-> i]
    /\ cong \in {c \in SUBSET input : Cardinality(c) >= Ways}
    /\ minGroup = 0 /\ counters = <<0, 0>> /\ k = 1
    /\ maskBegin = 0 /\ maskEnd = 0 /\ groupSize = 0
    /\ pc = "round"
    /\ result = "none"

(* Faulty variant for mutation analysis: groups = max_size, one group too *)
(* few for the pigeonhole argument of the comment above groups.            *)
StartRoundFewGroups ==
    /\ pc = "round"
    /\ cs > MaxSize
    /\ LET groups == MaxSize
           mg     == cs \div groups
           extra  == cs % mg
       IN  /\ minGroup' = mg
           /\ counters' = <<extra, groups - extra>>
           /\ maskBegin' = 0
           /\ maskEnd' = mg + 1
           /\ groupSize' = mg + 1
    /\ k' = 1
    /\ pc' = "scan"
    /\ UNCHANGED <<input, arr, cong, last, cs, result>>

(* while(current_size > max_size): split the range into max_size + 1      *)
(* groups, the first groups_with_extra_member of them one larger.          *)
StartRound ==
    /\ pc = "round"
    /\ cs > MaxSize
    /\ LET groups == MaxSize + 1
           mg     == cs \div groups
           extra  == cs % mg
       IN  /\ minGroup' = mg
           /\ counters' = <<extra, groups - extra>>
           /\ maskBegin' = 0
           /\ maskEnd' = mg + 1
           /\ groupSize' = mg + 1
    /\ k' = 1
    /\ pc' = "scan"
    /\ UNCHANGED <<input, arr, cong, last, cs, result>>

(* The loop ends: return last; the wrapper fails when last == begin and   *)
(* otherwise resizes the vector to [first, last).                          *)
Finish ==
    /\ pc = "round"
    /\ cs <= MaxSize
    /\ pc' = "done"
    /\ result' = IF last = 0 THEN "fail" ELSE "ok"
    /\ UNCHANGED <<input, arr, cong, last, cs, minGroup, counters, k, maskBegin,
                   maskEnd, groupSize>>

(* A counter is exhausted: shrink the mask for the smaller groups and go  *)
(* on with the second counter, or, after it, give up and return first.    *)
NextCounter ==
    /\ pc = "scan"
    /\ counters[k] = 0
    /\ maskEnd' = maskEnd - 1
    /\ groupSize' = groupSize - 1
    /\ IF k = 1
       THEN k' = 2 /\ UNCHANGED <<pc, result>>
       ELSE pc' = "done" /\ result' = "fail" /\ UNCHANGED k
    /\ UNCHANGED <<input, arr, cong, last, cs, minGroup, counters, maskBegin>>

(* Faulty variant for mutation analysis: the found branch subtracts the   *)
(* mask's group_size instead of min_group_size from current_size.          *)
ProbeSubtractGroup ==
    /\ pc = "scan"
    /\ counters[k] > 0
    /\ counters' = [counters EXCEPT ![k] = @ - 1]
    /\ IF IsEvset(Slice(arr, 0, maskBegin) \cup Slice(arr, maskEnd, last))
       THEN /\ IF maskEnd = last
               THEN /\ last' = maskBegin
                    /\ UNCHANGED arr
               ELSE /\ arr' = SwapRanges(arr, last - minGroup, minGroup, maskBegin)
                    /\ last' = last - minGroup
            /\ cs' = cs - groupSize
            /\ pc' = "round"
            /\ UNCHANGED <<maskBegin, maskEnd>>
       ELSE /\ maskBegin' = maskBegin + groupSize
            /\ maskEnd' = maskEnd + groupSize
            /\ UNCHANGED <<arr, last, cs, pc>>
    /\ UNCHANGED <<input, cong, minGroup, k, groupSize, result>>

(* Test the range without the mask.  An eviction set: strip the group by *)
(* cutting the range at the mask or by moving the last minGroup addresses *)
(* over it (label found).  Otherwise move the mask on by one group.       *)
Probe ==
    /\ pc = "scan"
    /\ counters[k] > 0
    /\ counters' = [counters EXCEPT ![k] = @ - 1]
    /\ IF IsEvset(Slice(arr, 0, maskBegin) \cup Slice(arr, maskEnd, last))
       THEN /\ IF maskEnd = last
               THEN /\ last' = maskBegin
                    /\ UNCHANGED arr
               ELSE /\ arr' = SwapRanges(arr, last - minGroup, minGroup, maskBegin)
                    /\ last' = last - minGroup
            /\ cs' = cs - minGroup
            /\ pc' = "round"
            /\ UNCHANGED <<maskBegin, maskEnd>>
       ELSE /\ maskBegin' = maskBegin + groupSize
            /\ maskEnd' = maskEnd + groupSize
            /\ UNCHANGED <<arr, last, cs, pc>>
    /\ UNCHANGED <<input, cong, minGroup, k, groupSize, result>>

Next == StartRound \/ Finish \/ NextCounter \/ Probe

Spec == Init /\ [][Next]_vars /\ WF_vars(Next)

-----------------------------------------------------------------------------
(* current_size is the length of [first, last): both ways out of the      *)
(* found label (cut the range at the mask, or move the last group over it) *)
(* remove exactly the min_group_size the counter subtracts, although the   *)
(* mask may be a group with an extra member.                               *)
SizeTracksRange == cs = last

(* Every round's groups partition the current range: the group sizes sum  *)
(* to current_size (spec, reduce_eviction_set: max_size+1 near-equal       *)
(* contiguous groups).                                                     *)
GroupsPartitionRange ==
    pc = "scan" /\ k = 1 /\ maskBegin = 0 =>
        counters[1] * (minGroup + 1) + counters[2] * minGroup = cs

(* reduce_eviction_set implements its promise: from an eviction set it    *)
(* ends with at most max_size addresses that still evict the target.      *)
Abstract == INSTANCE EvictionSetReduction
    WITH Universe <- Addresses,
         status <- IF result = "none" THEN "busy" ELSE result,
         out <- IF result = "ok" THEN Slice(arr, 0, last) ELSE input

ReduceRefinesAbstract == Abstract!Spec

=============================================================================
