-------------------------- MODULE SimulatedMemory --------------------------
(***************************************************************************)
(* The simulated cache hierarchy of the sim backend: set_associative_cache *)
(* (one replacement policy per set, copied from a template by             *)
(* basic_set_associative_policy) composed into simulated_memory, whose     *)
(* access looks a line up level by level, back-fills it into every inner   *)
(* level and cascades each victim outward.  One Access step is one call of *)
(* instrumented_access: the whole recursion runs inside it.                *)
(*                                                                         *)
(* Addresses are line numbers (offset bits 0): every caller passes         *)
(* addresses aligned to the line size, and the tag is the aligned address. *)
(*                                                                         *)
(* A ghost variable, shadow, runs simulate_sequence's loop body on the     *)
(* same accesses, one simulation per L1 set, to state what the candidate   *)
(* filter of reverse_replacement relies on: the simulated L1 behaves like  *)
(* the policy simulation.                                                  *)
(***************************************************************************)
EXTENDS ReplacementPolicies

CONSTANTS
    Levels,      \* sequence of [sets, ways, policy], innermost (L1) first
    Addresses    \* the line addresses the program accesses

NLevels == Len(Levels)
LevelIds == 0 .. NLevels - 1
SetsOf(l) == 0 .. Levels[l + 1].sets - 1
WaysOf(l) == 0 .. Levels[l + 1].ways - 1

ASSUME /\ NLevels >= 1
       /\ \A l \in LevelIds : IsPowerOfTwo(Levels[l + 1].sets)
                              /\ IsKnownPolicy(Levels[l + 1].policy, Levels[l + 1].ways)
       /\ Addresses \subseteq Nat

NoWay == -1

VARIABLES
    caches,      \* caches[l] = [lines |-> set -> way -> line, repl |-> set -> policy]
    level,       \* the level the last instrumented_access returned
    shadow,      \* ghost: simulate_sequence's state per L1 set
    shadowHit    \* ghost: whether the simulation counted the last access a hit

vars == <<caches, level, shadow, shadowHit>>

InvalidLine == [valid |-> FALSE, tag |-> 0]

(* get_inclusiveness: every level is non-inclusive. *)
Inclusiveness(l) == "non_inclusive"

(* modular_placement_policy with offset bits 0. *)
SetIndex(l, a) == a % Levels[l + 1].sets

(* The way of the first valid line of a's set whose tag is a, or NoWay. *)
Lookup(c, l, a) ==
    LET ws == {w \in WaysOf(l) : c[l].lines[SetIndex(l, a)][w].valid
                                 /\ c[l].lines[SetIndex(l, a)][w].tag = a}
    IN  IF ws = {} THEN NoWay ELSE Min(ws)

(* set_associative_cache::hit: the set's policy registers a hit. *)
CacheHit(c, l, a, w) ==
    [c EXCEPT ![l].repl[SetIndex(l, a)] = Hit(@, w)]

(* set_associative_cache::invalidate: the line is cleared, the policy is   *)
(* not told.                                                               *)
CacheInvalidate(c, l, a, w) ==
    [c EXCEPT ![l].lines[SetIndex(l, a)][w].valid = FALSE]

(* Mutant: fill without looking the line up first. *)
CacheFillNoLookup(c, l, a) ==
    LET s   == SetIndex(l, a)
        m   == Miss(c[l].repl[s])
        old == c[l].lines[s][m[2]]
    IN  << [c EXCEPT ![l].repl[s] = m[1],
                     ![l].lines[s][m[2]] = [valid |-> TRUE, tag |-> a]],
           IF old.valid THEN old.tag ELSE NoAddr >>

(* Mutant: fill an invalid way first, as hardware usually does, instead   *)
(* of the way the policy names.                                            *)
CacheFillInvalidFirst(c, l, a) ==
    LET s    == SetIndex(l, a)
        m    == Miss(c[l].repl[s])
        free == {w \in WaysOf(l) : ~c[l].lines[s][w].valid}
        vw   == IF free = {} THEN m[2] ELSE Min(free)
        old  == c[l].lines[s][vw]
    IN  IF Lookup(c, l, a) # NoWay THEN << c, NoAddr >>
        ELSE << [c EXCEPT ![l].repl[s] = m[1],
                          ![l].lines[s][vw] = [valid |-> TRUE, tag |-> a]],
                IF old.valid THEN old.tag ELSE NoAddr >>

(* set_associative_cache::fill: a line already present is left alone;     *)
(* otherwise the policy names the victim way, whose tag is returned if the *)
(* line was valid.  The result is << new caches, victim or NoAddr >>.      *)
CacheFill(c, l, a) ==
    LET s   == SetIndex(l, a)
        m   == Miss(c[l].repl[s])
        old == c[l].lines[s][m[2]]
    IN  IF Lookup(c, l, a) # NoWay THEN << c, NoAddr >>
        ELSE << [c EXCEPT ![l].repl[s] = m[1],
                          ![l].lines[s][m[2]] = [valid |-> TRUE, tag |-> a]],
                IF old.valid THEN old.tag ELSE NoAddr >>

(* simulated_memory::back_invalidate: clear a at level l and every inner   *)
(* level.                                                                  *)
RECURSIVE BackInvalidate(_, _, _)
BackInvalidate(c, a, l) ==
    LET w  == Lookup(c, l, a)
        c1 == IF w # NoWay THEN CacheInvalidate(c, l, a, w) ELSE c
    IN  IF l > 0 THEN BackInvalidate(c1, a, l - 1) ELSE c1

(* simulated_memory::fill: fill a at level l; a victim is back-invalidated *)
(* below an inclusive level and cascaded into the next level out.          *)
RECURSIVE Fill(_, _, _, _)

(* Mutant: cascade into the next level without checking for a victim. *)
FillIgnoresNoVictim(c, a, l, shouldBackInvalidate) ==
    LET r  == CacheFill(c, l, a)
        v  == r[2]
        c1 == IF v # NoAddr /\ shouldBackInvalidate /\ l > 0
                 /\ Inclusiveness(l) = "inclusive"
              THEN BackInvalidate(r[1], v, l - 1) ELSE r[1]
    IN  IF l + 1 < NLevels THEN Fill(c1, v, l + 1, FALSE) ELSE c1

Fill(c, a, l, shouldBackInvalidate) ==
    LET r  == CacheFill(c, l, a)
        v  == r[2]
        c1 == IF v # NoAddr /\ shouldBackInvalidate /\ l > 0
                 /\ Inclusiveness(l) = "inclusive"
              THEN BackInvalidate(r[1], v, l - 1) ELSE r[1]
    IN  IF v # NoAddr /\ l + 1 < NLevels THEN Fill(c1, v, l + 1, FALSE) ELSE c1

(* simulated_memory::back_fill: fill a at level l and every inner level,   *)
(* outermost first.                                                        *)
RECURSIVE BackFill(_, _, _)
BackFill(c, a, l) ==
    LET c1 == IF Inclusiveness(l) # "exclusive" THEN Fill(c, a, l, TRUE) ELSE c
    IN  IF l > 0 THEN BackFill(c1, a, l - 1) ELSE c1

(* simulated_memory::do_access: search outward from level l; on a hit      *)
(* register it (and drop the copy of an exclusive outer level), then       *)
(* back-fill the inner levels.  Returns << caches, level found >>, where   *)
(* NLevels is main memory.                                                 *)
RECURSIVE DoAccess(_, _, _)
DoAccess(c, a, l) ==
    IF l < NLevels /\ Lookup(c, l, a) = NoWay THEN DoAccess(c, a, l + 1)
    ELSE LET w  == IF l < NLevels THEN Lookup(c, l, a) ELSE NoWay
             c1 == IF l < NLevels THEN CacheHit(c, l, a, w) ELSE c
             c2 == IF l < NLevels /\ l > 0 /\ Inclusiveness(l) = "exclusive"
                   THEN CacheInvalidate(c1, l, a, w) ELSE c1
         IN  << IF l > 0 THEN BackFill(c2, a, l - 1) ELSE c2, l >>

(* The constructors: every line invalid, every set a fresh copy of the     *)
(* level's policy template.                                                *)
EmptyCaches ==
    [l \in LevelIds |->
        [lines |-> [s \in SetsOf(l) |-> [w \in WaysOf(l) |-> InvalidLine]],
         repl  |-> [s \in SetsOf(l) |->
                      MakeReplacementPolicy(Levels[l + 1].policy, Levels[l + 1].ways)]]]

(* simulate_sequence's per-address step without its hit counter, which    *)
(* only the property's shadowHit replaces.                                 *)
ShadowStep(s, a) == [SimStep(s, a) EXCEPT !.hits = 0]
ShadowIsHit(s, a) ==
    a \in DOMAIN s.addrWay /\ s.wayAddr[s.addrWay[a]] = a

Init ==
    /\ caches = EmptyCaches
    /\ level = NLevels
    /\ shadow = [s \in SetsOf(0) |-> SimInit(EmptyCaches[0].repl[s])]
    /\ shadowHit = FALSE

(* simulated_memory::instrumented_access (access is the same call with     *)
(* the level dropped).                                                     *)
Access(a) ==
    \E r \in {DoAccess(caches, a, 0)} :
        /\ caches' = r[1]
        /\ level' = r[2]
        /\ shadow' = [shadow EXCEPT ![SetIndex(0, a)] = ShadowStep(@, a)]
        /\ shadowHit' = ShadowIsHit(shadow[SetIndex(0, a)], a)

Next == \E a \in Addresses : Access(a)

Spec == Init /\ [][Next]_vars

-----------------------------------------------------------------------------
Line == [valid : BOOLEAN, tag : Nat]

TypeOK ==
    /\ \A l \in LevelIds :
          /\ DOMAIN caches[l].lines = SetsOf(l)
          /\ \A s \in SetsOf(l) : caches[l].lines[s] \in [WaysOf(l) -> Line]
    /\ level \in 0 .. NLevels
    /\ shadowHit \in BOOLEAN

(* No set of any level ever holds two valid lines with the same tag,      *)
(* although back_fill and the victim cascade of simulated_memory::fill    *)
(* fill lines into levels that may already hold them.                     *)
NoDuplicateLines ==
    \A l \in LevelIds : \A s \in SetsOf(l) : \A v, w \in WaysOf(l) :
            /\ caches[l].lines[s][v].valid /\ caches[l].lines[s][w].valid
            /\ caches[l].lines[s][v].tag = caches[l].lines[s][w].tag
            => v = w

(* Each L1 set of the simulated hierarchy is in the state simulate_sequence *)
(* computes for the accesses to that set (the same policy state and the    *)
(* same address in every way), and instrumented_access reports level 0     *)
(* exactly when the simulation counts a hit: the back-fills and victim     *)
(* cascades of the outer levels never disturb L1.                          *)
L1RefinesSimulation ==
    /\ \A s \in SetsOf(0) :
          /\ caches[0].repl[s] = shadow[s].policy
          /\ \A w \in WaysOf(0) :
                shadow[s].wayAddr[w] = IF caches[0].lines[s][w].valid
                                       THEN caches[0].lines[s][w].tag ELSE NoAddr
    /\ (level = 0) = shadowHit
=============================================================================
