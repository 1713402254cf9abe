------------------------- MODULE MCSimulatedMemory -------------------------
(***************************************************************************)
(* The hierarchy reverse_command builds for --simulate, scaled down: L1    *)
(* LRU with one set of two ways, L2 LRU with twice the sets and two ways.  *)
(* Directly driven, five addresses share L1's only set and three of them   *)
(* one L2 set, one more than that set holds, so both levels evict and      *)
(* victims cascade.  Through the bypass adapter, the regions are three:    *)
(* the first too short to complete L1's eviction set (dropped), the second *)
(* completing it and handed on from its next line, the third handed on    *)
(* whole; the target lines 2, 8 and the eviction-set line 0 contend for    *)
(* L2 set 0.                                                               *)
(***************************************************************************)
EXTENDS BypassAdapter

MCLevels == << [sets |-> 1, ways |-> 2, policy |-> "LRU"],
               [sets |-> 2, ways |-> 2, policy |-> "LRU"] >>

MCAddresses == {0, 2, 4, 1, 3}

MCRegions == << [base |-> 0, size |-> 1], [base |-> 1, size |-> 3],
                [base |-> 8, size |-> 1] >>

MCModes == {"direct", "bypass"}
=============================================================================
