-------------------------- MODULE ReplacementPolicy --------------------------
(***************************************************************************)
(* One replacement-policy object of the catalog driven through its         *)
(* interface: hit(way) on a way that holds a line and miss(), which picks  *)
(* the victim the next line is filled into.  This is how a cache set       *)
(* (sim/set_associative_cache.hpp) and simulate_sequence use a policy.     *)
(***************************************************************************)
EXTENDS ReplacementPolicies

CONSTANTS
    Configs,          \* set of <<policy name, associativity>> to start from
    CyclicConfigs,    \* the configurations promised cyclic eviction
    HitConfigs,       \* the configurations that promote the way hit last
    ColdFillConfigs   \* the configurations that fill empty ways first

ASSUME /\ \A c \in Configs : IsKnownPolicy(c[1], c[2]) /\ c[2] > 0
       /\ CyclicConfigs \cup HitConfigs \cup ColdFillConfigs \subseteq Configs

VARIABLES
    config,   \* the <<name, ways>> the policy was made from
    policy,   \* the policy object
    filled,   \* ways miss() has returned: the ways that hold a line
    last      \* the last call: [op |-> "none" | "hit" | "miss", way |-> way]

vars == <<config, policy, filled, last>>

AllWays == 0 .. policy.ways - 1

TypeOK ==
    /\ policy.kind \in {"FIFO", "LRU", "PLRU", "SRRIP1", "SRRIP2", "LRU_PLRU"}
    /\ filled \subseteq AllWays
    /\ last \in [op : {"none", "hit", "miss"}, way : AllWays]

Init ==
    /\ config \in Configs
    /\ policy = MakeReplacementPolicy(config[1], config[2])
    /\ filled = {}
    /\ last = [op |-> "none", way |-> 0]

(* hit(way): a lookup found the line in `way`.                             *)
HitWay(w) ==
    /\ w \in filled
    /\ policy' = Hit(policy, w)
    /\ last' = [op |-> "hit", way |-> w]
    /\ UNCHANGED <<config, filled>>

(* miss(): the policy names the way the new line replaces.                *)
MissWay ==
    LET m == Miss(policy) IN
    /\ policy' = m[1]
    /\ filled' = filled \cup {m[2]}
    /\ last' = [op |-> "miss", way |-> m[2]]
    /\ UNCHANGED config

Next == (\E w \in filled : HitWay(w)) \/ MissWay

Spec == Init /\ [][Next]_vars

-----------------------------------------------------------------------------
(* check_cyclic_eviction: from every state the policy can reach, ways()   *)
(* misses in a row evict every way once (spec, testable properties: FIFO,  *)
(* LRU, PLRU and SRRIP).                                                   *)
CyclicEviction == config \in CyclicConfigs => CheckCyclicEviction(policy)

(* A miss right after hit(w) never evicts w: the way just used is the     *)
(* most recently used one (PLRU "hit(w) then miss() != w", LRU recency).   *)
MissSparesJustHit ==
    [][(config \in HitConfigs /\ last.op = "hit" /\ last'.op = "miss")
         => last'.way # last.way]_vars

(* While some way holds no line, miss() fills an empty way rather than    *)
(* evicting a line (cold-start handling: dirty_idx_ walking virgin ways). *)
FillsInvalidWayFirst ==
    [][(config \in ColdFillConfigs /\ last'.op = "miss" /\ filled # AllWays)
         => last'.way \notin filled]_vars

=============================================================================
