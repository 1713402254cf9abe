------------------------------ MODULE Majority ------------------------------
(***************************************************************************)
(* majority_element (commands/impl/reverse_replacement_command.hpp): a     *)
(* single pass keeping a candidate and a counter.  The pass starts at the  *)
(* first element with the candidate already set to it and the counter at   *)
(* 1, so the first element is counted twice; a different element replaces *)
(* the candidate when the counter is 1, which it leaves at 1.               *)
(***************************************************************************)
EXTENDS Naturals, Sequences, FiniteSets

(* Faulty variant for mutation analysis: the replacement tested at a     *)
(* counter of 0, as in the textbook algorithm, which this counter never    *)
(* reaches.                                                                *)
MajorityStepZeroTest(acc, x) ==
    IF x = acc.maj THEN [acc EXCEPT !.count = @ + 1]
    ELSE IF acc.count = 0 THEN [acc EXCEPT !.maj = x]
    ELSE [acc EXCEPT !.count = @ - 1]

(* One iteration of the while loop on element x.                           *)
MajorityStep(acc, x) ==
    IF x = acc.maj THEN [acc EXCEPT !.count = @ + 1]
    ELSE IF acc.count = 1 THEN [acc EXCEPT !.maj = x]
    ELSE [acc EXCEPT !.count = @ - 1]

(* The first accumulator: maj = *begin, count = 1.                        *)
MajorityInit(s) == [maj |-> s[1], count |-> 1]

(* The loop from accumulator acc over the elements of s.                   *)
RECURSIVE MajorityLoop(_, _)
MajorityLoop(acc, s) ==
    IF s = <<>> THEN acc ELSE MajorityLoop(MajorityStep(acc, Head(s)), Tail(s))

MajorityElement(s) == MajorityLoop(MajorityInit(s), s).maj

(* Reference: v occupies a strict majority of the positions of s.         *)
IsStrictMajority(s, v) == 2 * Cardinality({i \in DOMAIN s : s[i] = v}) > Len(s)

=============================================================================
