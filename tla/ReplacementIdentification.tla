--------------------- MODULE ReplacementIdentification ---------------------
(***************************************************************************)
(* The elimination loop of reverse_replacement_command::main               *)
(* (commands/impl/reverse_replacement_command.hpp) against a cache set     *)
(* whose hardware runs the catalog policy HwPolicy.  Each measurement      *)
(* starts after pollution: the set holds lines foreign to the sequence and *)
(* its policy is in some state HwPolicy reaches once every way holds a     *)
(* line.  Up to Noisy of the repetitions of a round are disturbed          *)
(* (interrupts, prefetchers) and read any hit count.  Candidates are       *)
(* judged by simulate_sequence, which starts from a fresh policy.          *)
(***************************************************************************)
EXTENDS ReplacementPolicies, Majority

CONSTANTS
    Ways,         \* memory.ways(0)
    HwPolicy,     \* the catalog policy the hardware implements
    SeqLen,       \* length_
    Repetitions,  \* repetitions_
    MinRounds,    \* minimum_rounds_
    Noisy,        \* most disturbed measurements in one round
    FairSequences \* sequences whose draw the liveness check assumes fair

ASSUME /\ IsKnownPolicy(HwPolicy, Ways)
       /\ Repetitions \in Nat \ {0}
       /\ Noisy \in 0 .. Repetitions
       /\ FairSequences \subseteq [1 .. SeqLen -> 0 .. 2 * Ways - 1]

VARIABLES
    candidates,   \* the candidates vector, in its order
    rounds,       \* rounds, saturated at MinRounds (only `rounds < min` is read)
    seq,          \* this round's sequence
    measurements, \* this round's measurements vector
    disturbed,    \* how many of them were disturbed
    pc            \* "loop": at the while test; "measure"; "done"

vars == <<candidates, rounds, seq, measurements, disturbed, pc>>

(* generate_sequence draws from min(2 * ways, addresses.size()) indices;  *)
(* the address pool holds 50 addresses.                                    *)
Window == IF 2 * Ways < 50 THEN 2 * Ways ELSE 50

(* Hit counts, simulated or measured, see only which accesses repeat an    *)
(* address: the code compares address indices for equality only, and the  *)
(* set starts with no line of the sequence.  A sequence therefore behaves  *)
(* like its renaming that numbers addresses by first occurrence, and the   *)
(* draw is modelled over those canonical sequences.                         *)
IsCanonical(s) ==
    \A i \in DOMAIN s : \A a \in 0 .. s[i] - 1 : \E j \in 1 .. i - 1 : s[j] = a

Sequences == {s \in [1 .. SeqLen -> 0 .. Window - 1] : IsCanonical(s)}

AllWaysOf(n) == 0 .. n - 1

(* The states a policy object reaches by hits on filled ways and misses.  *)
RECURSIVE Reachable(_)
Reachable(S) ==
    LET T == S \cup {[p |-> Miss(s.p)[1], f |-> s.f \cup {Miss(s.p)[2]}] : s \in S}
               \cup UNION {{[p |-> Hit(s.p, w), f |-> s.f] : w \in s.f} : s \in S}
    IN  IF T = S THEN S ELSE Reachable(T)

(* The hardware policy after pollution: a reached state with all ways full.*)
PollutedStates ==
    {s.p : s \in {r \in Reachable({[p |-> MakeReplacementPolicy(HwPolicy, Ways), f |-> {}]}) :
                      r.f = AllWaysOf(Ways)}}

(* safe_measure_sequence on an undisturbed repetition from the polluted  *)
(* state p: the lines of the sequence start outside the set, so the first  *)
(* access of each misses.                                                  *)
MeasuredHits(p, s) == SimulateFrom(p, s).hits

(* filter_replacement_policies followed by the erase: the candidates whose *)
(* simulated hit count equals the measured one, in their order.           *)
FilterReplacementPolicies(c, s, measured) ==
    SelectSeq(c, LAMBDA name : SimulateSequence(s, name, Ways) = measured)

TypeOK ==
    /\ candidates \in Seq(STRING)
    /\ rounds \in 0 .. MinRounds
    /\ seq \in Sequences \cup {<<>>}
    /\ measurements \in Seq(0 .. SeqLen)
    /\ Len(measurements) <= Repetitions
    /\ disturbed \in 0 .. Noisy
    /\ pc \in {"loop", "measure", "done"}

Init ==
    /\ candidates = GetReplacementPolicies(Ways)
    /\ rounds = 0
    /\ seq = <<>>
    /\ measurements = <<>>
    /\ disturbed = 0
    /\ pc = "loop"

LoopCondition == Len(candidates) > 1 \/ rounds < MinRounds

(* The loop test holds: generate_sequence(length_, window).               *)
Generate(s) ==
    /\ pc = "loop"
    /\ LoopCondition
    /\ seq' = s
    /\ pc' = "measure"
    /\ UNCHANGED <<candidates, rounds, measurements, disturbed>>

(* Faulty variant for mutation analysis: the repetition loop tested with  *)
(* <= repetitions_.                                                         *)
MeasureOneTooMany ==
    /\ pc = "measure"
    /\ Len(measurements) <= Repetitions
    /\ \/ /\ \E p \in PollutedStates :
                measurements' = Append(measurements, MeasuredHits(p, seq))
          /\ UNCHANGED disturbed
       \/ /\ disturbed < Noisy
          /\ \E v \in 0 .. SeqLen : measurements' = Append(measurements, v)
          /\ disturbed' = disturbed + 1
    /\ UNCHANGED <<candidates, rounds, seq, pc>>

(* One repetition: reset, pollute, safe_measure_sequence, emplace_back.    *)
Measure ==
    /\ pc = "measure"
    /\ Len(measurements) < Repetitions
    /\ \/ /\ \E p \in PollutedStates :
                measurements' = Append(measurements, MeasuredHits(p, seq))
          /\ UNCHANGED disturbed
       \/ /\ disturbed < Noisy
          /\ \E v \in 0 .. SeqLen : measurements' = Append(measurements, v)
          /\ disturbed' = disturbed + 1
    /\ UNCHANGED <<candidates, rounds, seq, pc>>

(* Faulty variant for mutation analysis: rounds++ left out.                *)
FilterNoRoundCount ==
    /\ pc = "measure"
    /\ Len(measurements) = Repetitions
    /\ candidates' = FilterReplacementPolicies(candidates, seq, MajorityElement(measurements))
    /\ seq' = <<>>
    /\ measurements' = <<>>
    /\ disturbed' = 0
    /\ pc' = "loop"
    /\ UNCHANGED rounds

(* majority_element, filter_replacement_policies, erase and rounds++; the  *)
(* sequence and the measurements leave scope.                              *)
Filter ==
    /\ pc = "measure"
    /\ Len(measurements) = Repetitions
    /\ candidates' = FilterReplacementPolicies(candidates, seq, MajorityElement(measurements))
    /\ rounds' = IF rounds < MinRounds THEN rounds + 1 ELSE MinRounds
    /\ seq' = <<>>
    /\ measurements' = <<>>
    /\ disturbed' = 0
    /\ pc' = "loop"

(* The loop test fails: report the first candidate, or none.               *)
Report ==
    /\ pc = "loop"
    /\ ~LoopCondition
    /\ pc' = "done"
    /\ UNCHANGED <<candidates, rounds, seq, measurements, disturbed>>

Next == (\E s \in Sequences : Generate(s)) \/ Measure \/ Filter \/ Report

(* The loop runs on; generate_sequence draws every sequence again and     *)
(* again with probability one, so each is drawn infinitely often when the  *)
(* draw is enabled infinitely often.  The check assumes this of the        *)
(* sequences in FairSequences only, a weaker assumption than the draw      *)
(* justifies.                                                              *)
Spec == Init /\ [][Next]_vars /\ WF_vars(Next)
        /\ \A s \in FairSequences : SF_vars(Generate(s))

-----------------------------------------------------------------------------
(* The policy the hardware implements is never eliminated: every round's   *)
(* majority hit count is one a fresh simulation of that policy reproduces  *)
(* (spec 4.5: candidates whose simulated behaviour disagrees are           *)
(* eliminated, and the hardware's own policy agrees with itself).          *)
TruePolicySurvives == \E i \in DOMAIN candidates : candidates[i] = HwPolicy

(* majority_element, fed the hit counts of one round's repetitions,      *)
(* returns the count a strict majority of them measured, whatever order   *)
(* the disturbed repetition arrives in (spec 4.5: majority vote over the  *)
(* repetitions).                                                           *)
FilterUsesMajority ==
    Len(measurements) = Repetitions =>
        \A v \in 0 .. SeqLen :
            IsStrictMajority(measurements, v) => MajorityElement(measurements) = v

(* The elimination loop ends (spec 4.5, step 4: one candidate left, none  *)
(* left, or the minimum rounds done with several left).                   *)
Terminates == <>(pc = "done")

=============================================================================
