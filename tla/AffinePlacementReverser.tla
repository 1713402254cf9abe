---------------------- MODULE AffinePlacementReverser ----------------------
(***************************************************************************)
(* reverse_placement_policy (cli/commands/impl/reverse_placement_command   *)
(* .hpp) and the affine_placement_reverser it feeds (cli/placement/).      *)
(*                                                                         *)
(* The loop draws line addresses of the memory, asks locate_set for their  *)
(* set, and feeds each new mapping to the reverser, which keeps an address *)
(* only if it is affinely independent over GF(2) of those it holds, in a   *)
(* window of low line-address bits that grows with them.  reverse() then   *)
(* solves A x + t = set by Cramer's rule with determinants taken mod 2,    *)
(* pads A and t for the offset bits into an affine_placement_policy, and   *)
(* the command counts how many mappings the policy reproduces.             *)
(*                                                                         *)
(* locate_set is taken by what EvictionSetCatalog shows of it: for a line  *)
(* it maps at all, it returns a fixed label of the line's set.  Lines of   *)
(* Unlocated are those it answers nullopt for; such a draw, like a draw of *)
(* a line already mapped, changes nothing and is a stuttering step.        *)
(***************************************************************************)
EXTENDS Naturals, Sequences, FiniteSets, SequencesExt, Bitwise

CONSTANTS
    OffsetBits,  \* memory.offset_bits()
    IndexBits,   \* memory.index_bits(0)
    Memory,      \* the line-aligned addresses the uniform distribution draws
    Placements,  \* the set labels locate_set may give: Memory -> set index
    Unlocated,   \* lines locate_set answers nullopt for
    Mappings,    \* target_mappings_ (--mappings)
    FailLimit    \* feed_mapping's assertion threshold on fail (100000)

ASSUME /\ OffsetBits \in Nat /\ IndexBits \in Nat \ {0}
       /\ Memory \subseteq {a \in Nat : a % 2^OffsetBits = 0}
       /\ Placements \subseteq [Memory -> 0 .. 2^IndexBits - 1]
       /\ Unlocated \subseteq Memory
       /\ Mappings \in Nat /\ FailLimit \in Nat \ {0}

VARIABLES
    placement,      \* the labels locate_set returns on this cache
    addresses,      \* addresses_
    sets,           \* sets_
    fail,           \* fail
    addressSet,     \* address_set: the set of each mapped target, or NoSet
    pc,             \* "loop", "done", or "aborted" (the assertion at line 94)
    policy,         \* the affine_placement_policy reverse() returns
    matches,        \* the verification count
    lowConfidence   \* whether the low-confidence warning is given

vars == <<placement, addresses, sets, fail, addressSet, pc, policy, matches, lowConfidence>>

TargetReversedBits == 64   \* target_reversed_bits_ = 8 * sizeof(std::uintptr_t)
NoSet == -1

-----------------------------------------------------------------------------
(* Bit vectors, matrices and determinants over GF(2).                      *)

(* uints_to_bit_vectors on one number: bits bits of num >> offset, the     *)
(* most significant first.                                                 *)
ToBitVector(num, offset, bits) == [i \in 1 .. bits |-> (num \div 2^(offset + bits - i)) % 2]

(* The number whose binary digits, most significant first, are bits. *)
RECURSIVE BitsValue(_)
BitsValue(bits) == IF bits = << >> THEN 0 ELSE 2 * BitsValue(Front(bits)) + Last(bits)

(* bit_vector_to_uint: the bits most significant first, shifted by offset. *)
ToUint(vec, offset) == BitsValue(vec) * 2^offset

(* hstack: the vectors as the columns of an n x n matrix. *)
HStack(vecs) == [r, c \in 1 .. Len(vecs) |-> vecs[c][r]]

Minor(m, n, j) == [r, c \in 1 .. n - 1 |-> m[r + 1, IF c < j THEN c ELSE c + 1]]

(* determinant<bit>: the rational determinant of the 0/1 matrix reduced  *)
(* mod 2, which is the GF(2) determinant; here by expansion along the     *)
(* first row, whose signs vanish mod 2.  Each minor is bound as a value   *)
(* before the recursion reads it.                                         *)
RECURSIVE Det(_, _)
Det(m, n) ==
    IF n = 1 THEN m[1, 1]
    ELSE Cardinality({j \in 1 .. n : m[1, j] = 1 /\
                                     \E mm \in {Minor(m, n, j)} : Det(mm, n - 1) = 1}) % 2

LinearlyIndependent(vecs) == \E m \in {HStack(vecs)} : Det(m, Len(vecs)) # 0

(* affinely_independent: the vectors after the first, each plus the first, *)
(* are linearly independent.                                               *)
AffinelyIndependent(vecs) ==
    \E d \in {[i \in 1 .. Len(vecs) - 1 |-> [b \in DOMAIN vecs[1] |-> (vecs[i + 1][b] + vecs[1][b]) % 2]]} :
        LinearlyIndependent(d)

RECURSIVE PopCount(_)
PopCount(x) == IF x = 0 THEN 0 ELSE (x % 2) + PopCount(x \div 2)

(* affine_placement_policy::operator(): one parity bit per matrix row,     *)
(* the first row the most significant, XOR the vector, less the offset.    *)
PolicyIndex(pol, a) ==
    LET set == BitsValue([i \in DOMAIN pol.matrix |-> PopCount(pol.matrix[i] & a) % 2])
    IN  (set ^^ pol.vector) \div 2^OffsetBits

-----------------------------------------------------------------------------
(* The reverser.                                                           *)

Inputs(addrs, bits) == [i \in DOMAIN addrs |-> ToBitVector(addrs[i], OffsetBits, bits)]

(* feed_mapping's test of the grown vector: two addresses must be linearly *)
(* independent in two bits, more must be affinely independent in one bit   *)
(* fewer than there are addresses.                                         *)
Independent(addrs) ==
    IF Len(addrs) = 2 THEN \E v \in {Inputs(addrs, 2)} : LinearlyIndependent(v)
    ELSE \E v \in {Inputs(addrs, Len(addrs) - 1)} : AffinelyIndependent(v)

ReversedBits == IF Len(addresses) <= 2 THEN 0 ELSE Len(addresses) - 1

(* affine_solver::solve.  B is the inputs as columns over a row of ones. *)
SolverMatrix(ins) == [r, c \in 1 .. Len(ins) |-> IF r < Len(ins) THEN ins[c][r] ELSE 1]

(* Entry (i, j): the determinant of B with row j taken out and output row *)
(* i put on top, which mod 2 is Cramer's rule for X B = outputs.           *)
CramerEntry(B, outs, n, i, j) ==
    \E e \in {[r, c \in 1 .. n |-> IF r = 1 THEN outs[c][i]
                                   ELSE IF r <= j THEN B[r - 1, c] ELSE B[r, c]]} :
        Det(e, n) = 1

(* The entries' last column is the translation, the others the matrix. *)
Solve(ins, outs) ==
    LET n == Len(ins)
    IN  CHOOSE sol \in
          { [A |-> [i \in 1 .. IndexBits |-> SubSeq(M[i], 1, n - 1)],
             t |-> [i \in 1 .. IndexBits |-> M[i][n]]] :
            M \in { [i \in 1 .. IndexBits |-> [j \in 1 .. n |-> IF CramerEntry(B, outs, n, i, j) THEN 1 ELSE 0]] :
                    B \in {SolverMatrix(ins)} } } : TRUE

Zeros(n) == [i \in 1 .. n |-> 0]

(* Mutant: the translation is copied into the bottom rows of t_adjusted. *)
ReversePolicyPadFront ==
    LET k == ReversedBits
    IN  CHOOSE pol \in
          { [matrix |-> [i \in 1 .. IndexBits + OffsetBits |->
                            ToUint(IF i <= IndexBits THEN sol.A[i] \o Zeros(OffsetBits)
                                                    ELSE Zeros(k + OffsetBits), 0)],
             vector |-> ToUint(Zeros(OffsetBits) \o sol.t, 0)] :
            sol \in { Solve(ins, outs) :
                      ins \in {Inputs(addresses, k)},
                      outs \in {[i \in DOMAIN sets |-> ToBitVector(sets[i], 0, IndexBits)]} } } : TRUE

(* reverse(): solve in reversed_bits() bits, pad A and t with zero rows    *)
(* and columns for the offset bits, and turn the rows into masks.          *)
ReversePolicy ==
    LET k == ReversedBits
    IN  CHOOSE pol \in
          { [matrix |-> [i \in 1 .. IndexBits + OffsetBits |->
                            ToUint(IF i <= IndexBits THEN sol.A[i] \o Zeros(OffsetBits)
                                                    ELSE Zeros(k + OffsetBits), 0)],
             vector |-> ToUint(sol.t \o Zeros(OffsetBits), 0)] :
            sol \in { Solve(ins, outs) :
                      ins \in {Inputs(addresses, k)},
                      outs \in {[i \in DOMAIN sets |-> ToBitVector(sets[i], 0, IndexBits)]} } } : TRUE

-----------------------------------------------------------------------------
Mapped == {a \in Memory : addressSet[a] # NoSet}

(* The loop condition of reverse_placement_policy. *)
LoopContinues ==
    \/ ReversedBits = 0
    \/ ReversedBits < TargetReversedBits /\ Cardinality(Mapped) < Mappings

Init ==
    /\ placement \in Placements
    /\ addresses = << >> /\ sets = << >> /\ fail = 0
    /\ addressSet = [a \in Memory |-> NoSet]
    /\ pc = "loop"
    /\ policy = [matrix |-> << >>, vector |-> 0] /\ matches = 0 /\ lowConfidence = FALSE

(* Mutant: a target already in address_set is fed again. *)
NewMappingNoContainsCheck(t) ==
    /\ pc = "loop" /\ LoopContinues
    /\ t \notin Unlocated
    /\ addressSet' = [addressSet EXCEPT ![t] = placement[t]]

(* A drawn target that locate_set maps and address_set does not hold yet   *)
(* is recorded and fed to the reverser.                                    *)
NewMapping(t) ==
    /\ pc = "loop" /\ LoopContinues
    /\ t \notin Unlocated /\ addressSet[t] = NoSet
    /\ addressSet' = [addressSet EXCEPT ![t] = placement[t]]

(* Mutant: the first address is kept whatever its low bits. *)
FeedFirstKeepsAll(t) ==
    /\ NewMapping(t) /\ addresses = << >>
    /\ addresses' = << t >> /\ sets' = << placement[t] >>
    /\ UNCHANGED <<placement, fail, pc, policy, matches, lowConfidence>>

(* feed_mapping on an empty reverser keeps the address only if its two low *)
(* line-address bits are not both zero.                                    *)
FeedFirst(t) ==
    /\ NewMapping(t) /\ addresses = << >>
    /\ IF (t \div 2^OffsetBits) % 4 # 0
       THEN addresses' = << t >> /\ sets' = << placement[t] >>
       ELSE UNCHANGED <<addresses, sets>>
    /\ UNCHANGED <<placement, fail, pc, policy, matches, lowConfidence>>

FeedKept(t) ==
    /\ NewMapping(t) /\ addresses # << >>
    /\ Independent(Append(addresses, t))
    /\ addresses' = Append(addresses, t) /\ sets' = Append(sets, placement[t])
    /\ UNCHANGED <<placement, fail, pc, policy, matches, lowConfidence>>

(* The address is popped again and fail counts it; at the threshold the   *)
(* assertion aborts the program.                                           *)
FeedRejected(t) ==
    /\ NewMapping(t) /\ addresses # << >>
    /\ ~Independent(Append(addresses, t))
    /\ fail' = fail + 1
    /\ pc' = IF fail + 1 = FailLimit THEN "aborted" ELSE pc
    /\ UNCHANGED <<placement, addresses, sets, policy, matches, lowConfidence>>

(* The loop condition fails and the command moves on to reverse(). *)
LoopExit == pc = "loop" /\ ~LoopContinues /\ pc' = "done"

(* Mutant: the verification counts only the addresses fed to the reverser. *)
ReverseAndVerifyFedOnly ==
    /\ LoopExit
    /\ \E pol \in {ReversePolicy} :
          \E m \in {Cardinality({a \in Mapped : \E i \in DOMAIN addresses :
                                     addresses[i] = a /\ PolicyIndex(pol, a) = addressSet[a]})} :
             /\ policy' = pol
             /\ matches' = m
             /\ lowConfidence' = (m <= (Mappings \div 5) * 4)
    /\ UNCHANGED <<placement, addresses, sets, fail, addressSet>>

(* The loop ends: reverse(), then the check of every mapping against the   *)
(* policy.  The collection loop at line 50 is not taken: the first loop    *)
(* ends with fewer than target_mappings_ mappings only once reversed_bits  *)
(* reaches 64, which needs 65 affinely independent addresses.              *)
ReverseAndVerify ==
    /\ LoopExit
    /\ \E pol \in {ReversePolicy} :
          \E m \in {Cardinality({a \in Mapped : PolicyIndex(pol, a) = addressSet[a]})} :
             /\ policy' = pol
             /\ matches' = m
             /\ lowConfidence' = (m <= (Mappings \div 5) * 4)
    /\ UNCHANGED <<placement, addresses, sets, fail, addressSet>>

(* One pass of the loop body: a draw that locate_set maps and is new. *)
Feed == \E t \in Memory : FeedFirst(t) \/ FeedKept(t) \/ FeedRejected(t)

Next == Feed \/ ReverseAndVerify

(* The command is one thread; the uniform draw makes every line likely to *)
(* come up, and draws that change nothing are stuttering steps, so weak   *)
(* fairness of the loop body and of its exit is what progress rests on.   *)
(* Feed and ReverseAndVerify are never enabled together, so this is weak  *)
(* fairness of Next.  The exit is stated on LoopExit: ReverseAndVerify is *)
(* LoopExit with a policy and a count that always exist, so both have the *)
(* same ENABLED and, in this specification, the same steps.  LoopExit     *)
(* always changes pc and leaves the rest to ReverseAndVerify, hence WF_pc. *)
Spec == Init /\ [][Next]_vars /\ WF_vars(Feed) /\ WF_pc(LoopExit)

-----------------------------------------------------------------------------
TypeOK ==
    /\ placement \in Placements
    /\ addresses \in Seq(Memory) /\ sets \in Seq(0 .. 2^IndexBits - 1)
    /\ Len(addresses) = Len(sets)
    /\ fail \in 0 .. Cardinality(Memory)
    /\ addressSet \in [Memory -> 0 .. 2^IndexBits - 1 \cup {NoSet}]
    /\ pc \in {"loop", "done", "aborted"}
    /\ matches \in 0 .. Cardinality(Memory)

(* An affine map of the low k line-address bits to set labels: one mask  *)
(* per label bit, the most significant first, and a translation.          *)
AffineIndex(masks, t, a) ==
    BitsValue([i \in DOMAIN masks |-> PopCount(masks[i] & (a \div 2^OffsetBits)) % 2]) ^^ t

AffineIn(p, k) ==
    \E masks \in [1 .. IndexBits -> 0 .. 2^k - 1], t \in 0 .. 2^IndexBits - 1 :
        \A a \in Memory : p[a] = AffineIndex(masks, t, a)

(* The width of the memory's line addresses, which bounds the window in  *)
(* which the reverser can find independent addresses.                     *)
LineBits == Min({b \in 0 .. Cardinality(Memory) : \A a \in Memory : a < 2^(OffsetBits + b)})

(* Whether each labelling is affine in its k low line-address bits, for   *)
(* every window the reverser can reach; a constant, computed once.        *)
AffineWithin == [p \in Placements, k \in 0 .. LineBits |-> AffineIn(p, k)]

(* The policy reverse() returns reproduces every mapping the reverser was *)
(* fed: the solve, the offset padding and the bit orders of the two        *)
(* conversions agree with affine_placement_policy's evaluation.            *)
ReverseFitsFedMappings ==
    pc = "done" => \A i \in DOMAIN addresses : PolicyIndex(policy, addresses[i]) = sets[i]

(* When locate_set's labels are an affine function of the reversed_bits   *)
(* low line-address bits, reverse_placement recovers that function: the    *)
(* policy agrees with the labels on every line of the memory, mapped or    *)
(* not, every mapping counts as a match, and the confidence warning of    *)
(* line 70 is not given.                                                   *)
RoundTrip ==
    pc = "done" /\ AffineWithin[placement, ReversedBits] =>
        /\ \A a \in Memory : PolicyIndex(policy, a) = placement[a]
        /\ matches = Cardinality(Mapped)
        /\ ~lowConfidence

(* reverse_placement gets to reverse(): the loop ends once reversed_bits  *)
(* is positive and the mappings are collected, with the assertion of       *)
(* feed_mapping never hit on the way.                                      *)
Terminates == <>(pc = "done")
====
