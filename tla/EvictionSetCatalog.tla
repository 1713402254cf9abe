------------------------- MODULE EvictionSetCatalog -------------------------
(***************************************************************************)
(* The eviction-set catalog of provide_eviction_set_strategy               *)
(* (cli/commands/detail/impl/eviction_strategy_command_base.hpp) and the   *)
(* locate_set calls reverse_placement makes on the strategy built from it. *)
(*                                                                         *)
(* The driver draws targets set by set, asks locate_eviction_set (a       *)
(* group_test over the catalog) whether an eviction set already covers    *)
(* the target, and otherwise finds a new one (find_eviction_set) and       *)
(* reduces it to ways addresses.  reduce_eviction_set enters by the        *)
(* contract EvictionSetReduction, which the minimize run checks the step   *)
(* model against.  Finally the catalog is sorted by the modular set index  *)
(* of each set's first address, and locate_set group-tests set indices    *)
(* with eviction_set_strategy::maps_to.                                    *)
(*                                                                         *)
(* The oracle is is_eviction_set over safe_is_eviction_set on one LRU      *)
(* cache set that pollution has filled with foreign lines.  Its answer is  *)
(* then a function of its arguments, so a nullopt that is retried comes    *)
(* back on every retry: the call never returns.                            *)
(***************************************************************************)
EXTENDS Naturals, Sequences, FiniteSets, SequencesExt

CONSTANTS
    Sets,        \* number of L1 sets (1 << index_bits(0))
    Ways,        \* L1 associativity
    Addresses,   \* the line addresses of the memory
    Placements,  \* the placements the cache may have: Addresses -> 0 .. Sets - 1
    Probes       \* the targets reverse_placement hands to locate_set

ASSUME /\ Sets \in Nat \ {0} /\ Ways \in Nat \ {0} /\ Addresses \subseteq Nat
       /\ Placements \subseteq [Addresses -> 0 .. Sets - 1]
       /\ Probes \subseteq Addresses

VARIABLES
    placement,   \* the cache's placement, fixed by the hardware
    evsets,      \* the driver's vector of eviction sets (each ends with its target)
    seen,        \* seen_addresses
    nextSet,     \* the set-cycling distribution's next_set_
    fpc,         \* driver: "pick" (loop head), "find", "reduce", "done"
    target,      \* the loop's target
    size,        \* find_eviction_set's candidate size
    attempt,     \* find_eviction_set's attempt at this size
    cand,        \* the eviction set find_eviction_set returned
    catalog,     \* the sorted eviction sets handed to eviction_set_strategy
    probing,     \* the target of the running locate_set call, or None
    located      \* what locate_set returned for each probe, or None

driverVars == <<evsets, seen, nextSet, fpc, target, size, attempt, cand, catalog>>
probeVars == <<probing, located>>
stepVars == <<driverVars, probeVars>>     \* all but the fixed placement
vars == <<placement, stepVars>>

Attempts == 5   \* find_eviction_set's attempts per candidate size
Hang == -1      \* a call that never returns
No == 0         \* the oracle's false
Yes == 1        \* the oracle's true
None == -2      \* no locate_set call running / not yet located

(* modular_placement_policy with offset bits 0: the index the set-cycling  *)
(* distribution and the final sort use.                                    *)
ModularIndex(a) == a % Sets

(* The modular placement, one of the placements a cache may have. *)
Modular == [a \in Addresses |-> ModularIndex(a)]

Congruent(a) == {b \in Addresses : placement[b] = placement[a]}

RECURSIVE AsSeq(_)
AsSeq(S) == IF S = {} THEN << >>
            ELSE LET x == CHOOSE x \in S : TRUE IN << x >> \o AsSeq(S \ {x})

(* In the access sequence X, the access at i hits the LRU set: the line    *)
(* was accessed before with fewer than Ways other congruent lines since.   *)
HitsAt(X, i) ==
    \E j \in 1 .. i - 1 :
        /\ X[j] = X[i]
        /\ Cardinality({X[k] : k \in j + 1 .. i - 1} \cap (Congruent(X[i]) \ {X[i]})) < Ways

(* safe_is_eviction_set(target, L): the target, every address of L, the   *)
(* target again; nullopt if anything but the last access hits.  Its retry  *)
(* loop in is_eviction_set_single, and the repetitions of is_eviction_set, *)
(* turn a nullopt into Hang and keep Yes and No.                             *)
Oracle(t, L) ==
    LET X == << t >> \o L \o << t >>
    IN  IF \E i \in 2 .. Len(X) - 1 : HitsAt(X, i) THEN Hang
        ELSE IF HitsAt(X, Len(X)) THEN No ELSE Yes

(* Both group tests of the code test a range [f, l) of a sequence of      *)
(* eviction sets by the join of its members: locate_eviction_set over the  *)
(* driver's vector, maps_to over the strategy's sets indexed by set.       *)
TestGroups(t, groups, f, l) == Oracle(t, FlattenSeq(SubSeq(groups, f + 1, l)))

RECURSIVE Bisect(_, _, _, _)
(* Mutant: a range that passes the test sends the search to the other   *)
(* half.                                                                   *)
BisectSwapped(t, groups, first, last) ==
    IF last - first <= 1 THEN first
    ELSE LET mid == first + (last - first) \div 2
             r   == TestGroups(t, groups, first, mid)
         IN  IF r = Hang THEN Hang
             ELSE IF r = Yes THEN Bisect(t, groups, mid, last)
                             ELSE Bisect(t, groups, first, mid)

(* Mutant: the halving stops one step early, at two positions. *)
BisectStopsEarly(t, groups, first, last) ==
    IF last - first <= 2 THEN first
    ELSE LET mid == first + (last - first) \div 2
             r   == TestGroups(t, groups, first, mid)
         IN  IF r = Hang THEN Hang
             ELSE IF r = Yes THEN Bisect(t, groups, first, mid)
                             ELSE Bisect(t, groups, mid, last)

(* detail::group_test's halving loop over [first, last). *)
Bisect(t, groups, first, last) ==
    IF last - first <= 1 THEN first
    ELSE LET mid == first + (last - first) \div 2
             r   == TestGroups(t, groups, first, mid)
         IN  IF r = Hang THEN Hang
             ELSE IF r = Yes THEN Bisect(t, groups, first, mid)
                               ELSE Bisect(t, groups, mid, last)

(* Mutant: group_test without its first test of the whole range. *)
GroupTestNoWholeTest(t, groups) == Bisect(t, groups, 0, Len(groups))

(* detail::group_test: Len(groups) if the whole range fails the test. *)
GroupTest(t, groups) ==
    LET r == TestGroups(t, groups, 0, Len(groups))
    IN  IF r = Hang THEN Hang
        ELSE IF r = No THEN Len(groups) ELSE Bisect(t, groups, 0, Len(groups))

(* locate_eviction_set: group_test over the catalog, each group tested as  *)
(* the join of its eviction sets.                                          *)
Locate(a) == GroupTest(a, evsets)

(* locate_set: group_test over the set indices, each range tested by      *)
(* maps_to with the eviction sets of its sets; the end index is nullopt.   *)
LocateSet(t) == GroupTest(t, catalog)

Init ==
    /\ placement \in Placements
    /\ evsets = << >> /\ seen = {} /\ nextSet = 0
    /\ fpc = "pick" /\ target = None /\ size = 0 /\ attempt = 0 /\ cand = {}
    /\ catalog = << >>
    /\ probing = None /\ located = [t \in Probes |-> None]
(* Mutant: next_set_ is advanced without the wrap modulo sets_. *)
DrawNoWrap(a) ==
    /\ fpc = "pick" /\ Len(evsets) < Sets
    /\ ModularIndex(a) = nextSet
    /\ nextSet' = nextSet + 1
    /\ target' = a

(* The loop head while evsets.size() < sets: the set-cycling distribution *)
(* draws an address whose modular index is next_set_ and moves on.         *)
Draw(a) ==
    /\ fpc = "pick" /\ Len(evsets) < Sets
    /\ ModularIndex(a) = nextSet
    /\ nextSet' = (nextSet + 1) % Sets
    /\ target' = a

(* A target already seen is skipped. *)
SkipSeen(a) ==
    /\ Draw(a) /\ a \in seen
    /\ UNCHANGED <<evsets, seen, fpc, size, attempt, cand, catalog, probeVars>>

(* locate_eviction_set finds the eviction set the target belongs to: the  *)
(* target joins it and is seen.                                            *)
Located(a) ==
    /\ Draw(a) /\ a \notin seen
    /\ \E r \in {Locate(a)} :
          /\ r \in 0 .. Len(evsets) - 1
          /\ evsets' = [evsets EXCEPT ![r + 1] = Append(@, a)]
    /\ seen' = seen \cup {a}
    /\ UNCHANGED <<fpc, size, attempt, cand, catalog, probeVars>>

(* No eviction set covers the target: find_eviction_set starts with       *)
(* size = ways(0).                                                         *)
StartFind(a) ==
    /\ Draw(a) /\ a \notin seen
    /\ Locate(a) = Len(evsets)
    /\ fpc' = "find" /\ size' = Ways /\ attempt' = 0
    /\ UNCHANGED <<evsets, seen, cand, catalog, probeVars>>

(* One attempt: size distinct addresses other than the target.  Without   *)
(* that many addresses the drawing loop never ends, and no step is taken.  *)
Candidates == kSubset(size, Addresses \ {target})

FindHit ==
    /\ fpc = "find"
    /\ \E S \in Candidates :
          /\ Oracle(target, AsSeq(S)) = Yes
          /\ cand' = S
    /\ fpc' = "reduce" /\ size' = 0 /\ attempt' = 0
    /\ UNCHANGED <<evsets, seen, nextSet, target, catalog, probeVars>>

(* Mutant: failed attempts never make the size grow. *)
FindMissNoGrowth ==
    /\ fpc = "find"
    /\ \E S \in Candidates : Oracle(target, AsSeq(S)) = No
    /\ attempt' = (attempt + 1) % Attempts
    /\ UNCHANGED <<evsets, seen, nextSet, fpc, target, size, cand, catalog, probeVars>>

(* A failed attempt; after attempts of them the size grows by half. *)
FindMiss ==
    /\ fpc = "find"
    /\ \E S \in Candidates : Oracle(target, AsSeq(S)) = No
    /\ IF attempt + 1 < Attempts
       THEN attempt' = attempt + 1 /\ UNCHANGED size
       ELSE attempt' = 0 /\ size' = size + size \div 2
    /\ UNCHANGED <<evsets, seen, nextSet, fpc, target, cand, catalog, probeVars>>

(* reduce_eviction_set to ways, by its contract: at most ways addresses of *)
(* the candidate that still evict the target, in any order.  The target is *)
(* appended, every address is seen, and the set joins the vector.          *)
Reduce ==
    /\ fpc = "reduce"
    /\ \E R \in SUBSET cand :
          /\ Cardinality(R) <= Ways
          /\ Oracle(target, AsSeq(R)) = Yes
          /\ \E v \in SetToSeqs(R) : evsets' = Append(evsets, v \o << target >>)
          /\ seen' = seen \cup R \cup {target}
    /\ fpc' = "pick" /\ cand' = {}
    /\ UNCHANGED <<nextSet, target, size, attempt, catalog, probeVars>>

(* Mutant: the set index is taken one bit too high. *)
SortKeyShifted(e) == (e[1] \div 2) % Sets

(* std::sort by the modular set index of each set's front address. *)
SortKey(e) == ModularIndex(e[1])

SortCatalog ==
    /\ fpc = "pick" /\ Len(evsets) = Sets
    /\ \E p \in SetToSeqs(1 .. Sets) :
          /\ IsSorted([i \in 1 .. Sets |-> SortKey(evsets[p[i]])], LAMBDA x, y : x <= y)
          /\ catalog' = [i \in 1 .. Sets |-> evsets[p[i]]]
    /\ fpc' = "done"
    /\ UNCHANGED <<evsets, seen, nextSet, target, size, attempt, cand, probeVars>>

DriverNext ==
    \/ \E a \in Addresses : SkipSeen(a) \/ Located(a) \/ StartFind(a)
    \/ FindHit \/ FindMiss \/ Reduce \/ SortCatalog

(* reverse_placement calls locate_set on the strategy for a target. *)
ProbeStart(t) ==
    /\ fpc = "done" /\ probing = None /\ located[t] = None
    /\ probing' = t
    /\ UNCHANGED <<driverVars, located>>

(* locate_set returns; a call whose maps_to hangs never does. *)
ProbeReturn ==
    /\ probing # None
    /\ \E r \in {LocateSet(probing)} :
          /\ r # Hang
          /\ located' = [located EXCEPT ![probing] = r]
    /\ probing' = None
    /\ UNCHANGED driverVars

Next ==
    /\ DriverNext \/ (\E t \in Probes : ProbeStart(t)) \/ ProbeReturn
    /\ UNCHANGED placement

(* The driver is one thread that loops until the catalog is full, and     *)
(* locate_set runs its group test to the end: both are weakly fair.  The   *)
(* set-cycling distribution draws uniformly among the lines of the next    *)
(* modular index, so a line of an uncovered set that is not yet seen, if   *)
(* the loop head keeps offering one, is eventually drawn: StartFind is     *)
(* strongly fair.  No step changes the placement, so fairness is stated    *)
(* over the other variables.                                               *)
Spec == /\ Init /\ [][Next]_vars
        /\ WF_stepVars(DriverNext) /\ SF_stepVars(\E a \in Addresses : StartFind(a))
        /\ WF_stepVars(ProbeReturn)

-----------------------------------------------------------------------------
CatalogAddresses == UNION {Range(catalog[i]) : i \in DOMAIN catalog}

(* The catalog positions (as set indices) of the eviction sets of t's set. *)
CatalogIndex(t) == {i - 1 : i \in {i \in DOMAIN catalog : placement[catalog[i][1]] = placement[t]}}

TypeOK ==
    /\ placement \in Placements
    /\ evsets \in Seq(Seq(Addresses)) /\ seen \subseteq Addresses
    /\ nextSet \in 0 .. Sets - 1
    /\ fpc \in {"pick", "find", "reduce", "done"}
    /\ probing \in Probes \cup {None}
    /\ located \in [Probes -> 0 .. Sets \cup {None}]

(* Every eviction set the driver keeps is ways + 1 addresses of one cache *)
(* set, and no two are for the same set: locate_eviction_set catches each  *)
(* target whose set is covered, and find and reduce only build sets for    *)
(* targets of uncovered ones.                                              *)
CatalogSound ==
    \A i \in DOMAIN evsets :
        /\ Len(evsets[i]) >= Ways + 1
        /\ \A k \in DOMAIN evsets[i] : placement[evsets[i][k]] = placement[evsets[i][1]]
        /\ \A j \in DOMAIN evsets : i # j => placement[evsets[i][1]] # placement[evsets[j][1]]

(* On a cache with modular placement, after the sort position i of the   *)
(* catalog holds the eviction set of cache set i, which is what maps_to's  *)
(* callers read set indices as.  (Under any other placement the sort key,  *)
(* the modular index, is not the set, and the positions are only labels.)  *)
CatalogIndexed ==
    fpc = "done" /\ placement = Modular =>
        \A i \in DOMAIN catalog : \A k \in DOMAIN catalog[i] : placement[catalog[i][k]] = i - 1

(* locate_set, the group test over maps_to, returns the catalog position  *)
(* of the target's set (its cache set under modular placement), and        *)
(* nullopt (the end index) only for a line of the catalog, which           *)
(* reverse_placement skips.                                                *)
LocateSetCorrect ==
    \A t \in Probes :
        located[t] # None =>
            \/ located[t] \in CatalogIndex(t)
            \/ located[t] = Sets /\ t \in CatalogAddresses

(* provide_eviction_set_strategy completes the catalog: the size growth of *)
(* find_eviction_set ends every run of failed attempts.                    *)
CatalogCompletes == <>(fpc = "done")

(* Every locate_set call for a line outside the catalog returns, with   *)
(* the catalog position of the line's set: its maps_to tests access distinct lines other     *)
(* than the target, so safe_is_eviction_set never answers nullopt, and the *)
(* halving keeps the half holding the target's eviction set.               *)
ProbeLocatesSet ==
    \A t \in Probes :
        probing = t ~> (located[t] \in CatalogIndex(t) \/ t \in CatalogAddresses)

(* Every locate_set call returns, whatever target reverse_placement draws. *)
ProbesReturn == probing # None ~> probing = None
====
