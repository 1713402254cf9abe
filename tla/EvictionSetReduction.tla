------------------------ MODULE EvictionSetReduction ------------------------
(***************************************************************************)
(* What reduce_eviction_set promises (algo/reduce_eviction_set.hpp): given *)
(* an eviction set for the target, it ends with at most max_size of its    *)
(* addresses that are still an eviction set.  An address set evicts the   *)
(* target when it holds at least Ways addresses congruent with it.         *)
(***************************************************************************)
EXTENDS Naturals, FiniteSets

CONSTANTS
    Universe,  \* the addresses there are
    Ways,      \* associativity of the cache set the target maps to
    MaxSize    \* max_size

VARIABLES
    input,     \* the addresses handed to the reduction
    cong,      \* the addresses of input congruent with the target
    status,    \* "busy", then "ok"
    out        \* the addresses the caller's vector holds

IsEvset(S, c) == Cardinality(S \cap c) >= Ways

Init ==
    /\ input \in SUBSET Universe
    /\ cong \in {c \in SUBSET input : IsEvset(input, c)}
    /\ status = "busy"
    /\ out = input

(* The reduction returns a small subset that still evicts the target.     *)
Reduce ==
    /\ status = "busy"
    /\ status' = "ok"
    /\ out' \in {S \in SUBSET input : Cardinality(S) <= MaxSize /\ IsEvset(S, cong)}
    /\ UNCHANGED <<input, cong>>

vars == <<input, cong, status, out>>

Spec == Init /\ [][Reduce]_vars /\ WF_vars(Reduce)

=============================================================================
