------------------------- MODULE ReplacementPolicies -------------------------
(***************************************************************************)
(* The replacement-policy catalog of lib/policies/replacement and          *)
(* lib/util/replacement_policy.hpp, and simulate_sequence                  *)
(* (lib/algo/simulate_sequence.hpp), as pure operators.                    *)
(*                                                                         *)
(* A policy object is a record with one field per piece of C++ state; the  *)
(* fields a kind does not use hold empty values.  Ways are numbered        *)
(* 0 .. ways-1 as in the code; sequences are 1-indexed TLA+ sequences.     *)
(*   order   : std::vector order_ of FIFO/LRU and of the outer LRU of the  *)
(*             lru_wrapped policy                                          *)
(*   bits    : std::vector<bool> tree_bits_ of PLRU, as [0..ways-2 -> BOOL]*)
(*   groups  : nested_ PLRU trees of lru_wrapped, one bits function each   *)
(*   entries : entries_ (re-reference values) of srrip                     *)
(*   dirty   : dirty_idx_ of lru_wrapped                                   *)
(***************************************************************************)
EXTENDS Naturals, Sequences, SequencesExt, FiniteSets, TLC

(* The sentinel `dirty` of simulate_sequence (SIZE_MAX): no address.      *)
NoAddr == -1

Iota(n) == [i \in 1 .. n |-> i - 1]

IsPowerOfTwo(n) == n # 0 /\ \E h \in 0 .. n : 2 ^ h = n

(* std::countr_zero of a power of two.                                     *)
Log2(n) == CHOOSE h \in 0 .. n : 2 ^ h = n

(* Bit k of w.                                                             *)
Bit(w, k) == (w \div 2 ^ k) % 2 = 1

-----------------------------------------------------------------------------
(***************************************************************************)
(* FIFO and LRU: std::rotate(order_.begin(), it, it + 1) moves the element *)
(* at `it` to the front.                                                   *)
(***************************************************************************)
RotateToFront(order, i) == Cons(order[i], RemoveAt(order, i))

PositionOf(order, w) == CHOOSE i \in 1 .. Len(order) : order[i] = w

(* Faulty variant for mutation analysis: hit() rotates the way to the     *)
(* back, std::rotate(it, it + 1, end), where miss() takes its victim.      *)
LruHitToBack(order, w) ==
    LET i == PositionOf(order, w) IN Append(RemoveAt(order, i), order[i])

LruHit(order, w) == RotateToFront(order, PositionOf(order, w))

(* miss(): rotate the last element to the front and evict it.             *)
LruMiss(order) ==
    LET o == RotateToFront(order, Len(order)) IN <<o, o[1]>>

-----------------------------------------------------------------------------
(***************************************************************************)
(* Tree PLRU with height h.  The node visited at `level` on the way to     *)
(* leaf w is 2^level - 1 + w \div 2^(h-level) (tree_index = 2*i + 1 + rhs) *)
(* and the direction taken there is bit h-level-1 of w.                    *)
(***************************************************************************)
PathNode(w, h, level) == 2 ^ level - 1 + w \div 2 ^ (h - level)

(* hit(way): every node on the path to `way` is pointed towards it.       *)
PlruHit(bits, h, w) ==
    [i \in DOMAIN bits |->
        IF \E l \in 0 .. (h - 1) : PathNode(w, h, l) = i
        THEN Bit(w, h - 1 - (CHOOSE l \in 0 .. (h - 1) : PathNode(w, h, l) = i))
        ELSE bits[i]]

(* Faulty variants for mutation analysis: miss() without the store to     *)
(* tree_bits_, and miss() shifting `way` after or-ing in the direction.    *)
PlruMissNoFlip(bits, h) ==
    LET v == CHOOSE w \in 0 .. (2 ^ h - 1) :
                 \A l \in 0 .. (h - 1) : Bit(w, h - 1 - l) # bits[PathNode(w, h, l)]
    IN  <<bits, v>>

PlruMissLateShift(bits, h) ==
    LET v == CHOOSE w \in 0 .. (2 ^ h - 1) :
                 \A l \in 0 .. (h - 1) : Bit(w, h - 1 - l) # bits[PathNode(w, h, l)]
    IN  <<PlruHit(bits, h, v), 2 * v>>

(* miss(): walk from the root taking the direction opposite to each bit,  *)
(* flip the bits on the way, and return the leaf reached.  The leaf is     *)
(* the unique way whose path disagrees with every bit it visits; the       *)
(* flipped bits are then exactly the bits hit() of that leaf would set.   *)
PlruMiss(bits, h) ==
    LET v == CHOOSE w \in 0 .. (2 ^ h - 1) :
                 \A l \in 0 .. (h - 1) : Bit(w, h - 1 - l) # bits[PathNode(w, h, l)]
    IN  <<PlruHit(bits, h, v), v>>

-----------------------------------------------------------------------------
(***************************************************************************)
(* srrip_replacement_policy<Bits, HitPromotionPolicy>: distant_future is   *)
(* 2^Bits - 1, long_interval is distant_future - 1.  Every policy of the   *)
(* catalog uses hit_priority (promotion to 0).                             *)
(***************************************************************************)
SrripHit(entries, w) == [entries EXCEPT ![w] = 0]

RECURSIVE SrripMiss(_, _)
SrripMiss(entries, distant) ==
    LET found == {i \in DOMAIN entries : entries[i] = distant}
        first == CHOOSE i \in found : \A j \in found : i <= j
    IN  IF found # {}
        THEN <<[entries EXCEPT ![first] = distant - 1], first>>
        ELSE SrripMiss([i \in DOMAIN entries |-> entries[i] + 1], distant)

-----------------------------------------------------------------------------
(***************************************************************************)
(* The policy object and its construction by make_replacement_policy.     *)
(***************************************************************************)
Blank == [kind |-> "", ways |-> 0, order |-> <<>>, bits |-> <<>>,
          groups |-> <<>>, nested |-> 0, entries |-> <<>>, dirty |-> 0]

(* The number of PLRU ways encoded in a name LRU_PLRU<p> (std::stoi).      *)
PlruWaysOfName == [n \in {"LRU_PLRU4", "LRU_PLRU8", "LRU_PLRU16"} |->
                      CASE n = "LRU_PLRU4" -> 4 [] n = "LRU_PLRU8" -> 8
                        [] n = "LRU_PLRU16" -> 16]

(* Whether make_replacement_policy returns a policy for this name.        *)
IsKnownPolicy(name, n) ==
    \/ name \in {"FIFO", "LRU", "NRU", "SRRIP"}
    \/ name \in {"PLRU", "PLRUl"} /\ IsPowerOfTwo(n)
    \/ name \in DOMAIN PlruWaysOfName

MakeReplacementPolicy(name, n) ==
    CASE name \in {"FIFO", "LRU"} ->
            [Blank EXCEPT !.kind = name, !.ways = n, !.order = Iota(n)]
      [] name = "NRU" ->
            [Blank EXCEPT !.kind = "SRRIP1", !.ways = n, !.entries = [i \in 0 .. n - 1 |-> 1]]
      [] name \in {"PLRU", "PLRUl"} ->
            [Blank EXCEPT !.kind = "PLRU", !.ways = n, !.bits = [i \in 0 .. n - 2 |-> FALSE]]
      [] name \in DOMAIN PlruWaysOfName ->
            LET p == PlruWaysOfName[name] IN
            [Blank EXCEPT !.kind = "LRU_PLRU", !.ways = n, !.nested = p,
                          !.order = Iota(n \div p),
                          !.groups = [g \in 0 .. (n \div p) - 1 |-> [i \in 0 .. p - 2 |-> FALSE]]]
      [] name = "SRRIP" ->
            [Blank EXCEPT !.kind = "SRRIP2", !.ways = n, !.entries = [i \in 0 .. n - 1 |-> 3]]

(* get_replacement_policies(associativity), in the order it builds them;  *)
(* the loop over plru_associativity = 4, 8, 16 while below associativity. *)
GetReplacementPolicies(n) ==
    <<"FIFO", "LRU">>
    \o (IF IsPowerOfTwo(n) THEN <<"PLRU", "PLRUl">> ELSE <<>>)
    \o SelectSeq(<<"LRU_PLRU4", "LRU_PLRU8", "LRU_PLRU16">>,
                 LAMBDA name : PlruWaysOfName[name] < n /\ n % PlruWaysOfName[name] = 0)
    \o <<"SRRIP">>

-----------------------------------------------------------------------------
(***************************************************************************)
(* hit(way) and miss() of any_replacement_policy, dispatched on the kind.  *)
(* Miss returns <<new policy, victim way>>.                                *)
(***************************************************************************)
(* lru_wrapped_replacement_policy::hit: outer LRU on way / nested_ways,    *)
(* the nested PLRU on way % nested_ways.                                   *)
WrappedHit(p, w) ==
    LET g == w \div p.nested IN
    [p EXCEPT !.order = LruHit(@, g),
              !.groups[g] = PlruHit(@, Log2(p.nested), w % p.nested)]

(* Faulty variant for mutation analysis: dirty_idx_ read without the      *)
(* increment.                                                              *)
WrappedMissNoAdvance(p) ==
    IF p.dirty < p.ways
    THEN <<WrappedHit(p, p.dirty), p.dirty>>
    ELSE LET lm == LruMiss(p.order)
             pm == PlruMiss(p.groups[lm[2]], Log2(p.nested))
         IN  <<[p EXCEPT !.order = lm[1], !.groups[lm[2]] = pm[1]], lm[2] * p.nested + pm[2]>>

(* lru_wrapped_replacement_policy::miss: virgin ways first (dirty_idx_),   *)
(* then the LRU group's nested miss.                                       *)
WrappedMiss(p) ==
    IF p.dirty < p.ways
    THEN <<WrappedHit([p EXCEPT !.dirty = @ + 1], p.dirty), p.dirty>>
    ELSE LET lm == LruMiss(p.order)
             g  == lm[2]
             pm == PlruMiss(p.groups[g], Log2(p.nested))
         IN  <<[p EXCEPT !.order = lm[1], !.groups[g] = pm[1]], g * p.nested + pm[2]>>

Hit(p, w) ==
    CASE p.kind = "FIFO" -> p
      [] p.kind = "LRU"  -> [p EXCEPT !.order = LruHit(@, w)]
      [] p.kind = "PLRU" -> [p EXCEPT !.bits = PlruHit(@, Log2(p.ways), w)]
      [] p.kind \in {"SRRIP1", "SRRIP2"} -> [p EXCEPT !.entries = SrripHit(@, w)]
      [] p.kind = "LRU_PLRU" -> WrappedHit(p, w)

Miss(p) ==
    CASE p.kind \in {"FIFO", "LRU"} ->
            LET m == LruMiss(p.order) IN <<[p EXCEPT !.order = m[1]], m[2]>>
      [] p.kind = "PLRU" ->
            LET m == PlruMiss(p.bits, Log2(p.ways)) IN <<[p EXCEPT !.bits = m[1]], m[2]>>
      [] p.kind = "SRRIP1" ->
            LET m == SrripMiss(p.entries, 1) IN <<[p EXCEPT !.entries = m[1]], m[2]>>
      [] p.kind = "SRRIP2" ->
            LET m == SrripMiss(p.entries, 3) IN <<[p EXCEPT !.entries = m[1]], m[2]>>
      [] p.kind = "LRU_PLRU" -> WrappedMiss(p)

-----------------------------------------------------------------------------
(***************************************************************************)
(* check_cyclic_eviction: ways() misses in a row evict ways() distinct     *)
(* ways.                                                                   *)
(***************************************************************************)
RECURSIVE EvictedWays(_, _)
EvictedWays(p, k) ==
    IF k = 0 THEN {}
    ELSE LET m == Miss(p) IN {m[2]} \cup EvictedWays(m[1], k - 1)

CheckCyclicEviction(p) == Cardinality(EvictedWays(p, p.ways)) = p.ways

-----------------------------------------------------------------------------
(***************************************************************************)
(* simulate_sequence(sequence, policy): replay a sequence of address       *)
(* indices through one cache set and count the hits of every access but   *)
(* the first to each address.  addr_way is zero for an address never      *)
(* placed (vector::resize value-initialises).  SimulateFrom starts from    *)
(* any policy object; simulate_sequence always starts from a fresh one.   *)
(***************************************************************************)
SimInit(p) == [policy |-> p, seen |-> {}, addrWay |-> <<>>,
               wayAddr |-> [w \in 0 .. p.ways - 1 |-> NoAddr], hits |-> 0]

SimStep(s, addr) ==
    LET way   == IF addr \in DOMAIN s.addrWay THEN s.addrWay[addr] ELSE 0
        isHit == s.wayAddr[way] = addr
        m     == Miss(s.policy)
    IN  [policy  |-> IF isHit THEN Hit(s.policy, way) ELSE m[1],
         addrWay |-> IF isHit THEN s.addrWay ELSE (addr :> m[2]) @@ s.addrWay,
         wayAddr |-> IF isHit THEN s.wayAddr ELSE [s.wayAddr EXCEPT ![m[2]] = addr],
         seen    |-> s.seen \cup {addr},
         hits    |-> IF addr \in s.seen /\ isHit THEN s.hits + 1 ELSE s.hits]

(* The for loop over the sequence.  Each step's state is bound by a set    *)
(* comprehension, so it is computed once however often the next step       *)
(* reads it.                                                               *)
RECURSIVE SimLoop(_, _)
SimLoop(s, seq) ==
    IF seq = <<>> THEN s
    ELSE CHOOSE r \in {SimLoop(t, Tail(seq)) : t \in {SimStep(s, Head(seq))}} : TRUE

SimulateFrom(p, seq) == SimLoop(SimInit(p), seq)

SimulateSequence(seq, name, n) == SimulateFrom(MakeReplacementPolicy(name, n), seq).hits

=============================================================================
