--------------------------- MODULE BypassAdapter ---------------------------
(***************************************************************************)
(* bypass_adapter (adapters/impl/bypass_adapter.hpp) on top of the         *)
(* simulated hierarchy, as reverse_command composes them when a level is   *)
(* to be bypassed: the constructor reserves one L1 eviction set per L1 set *)
(* from the start of the memory regions and hands the rest on as its own   *)
(* regions; instrumented_access re-accesses the eviction set of the        *)
(* target's L1 set until the target misses L1.                             *)
(*                                                                         *)
(* A behaviour either drives the memory directly (mode "direct", the       *)
(* addresses of SimulatedMemory) or only through the adapter (mode         *)
(* "bypass", addresses of the adapter's regions); every memory access of   *)
(* the adapter is one Access step of SimulatedMemory.                      *)
(***************************************************************************)
EXTENDS SimulatedMemory

CONSTANTS
    Regions,     \* the memory's regions: sequence of [base, size] in lines
    Modes        \* subset of {"direct", "bypass"}

VARIABLES
    mode,        \* how this behaviour drives the memory
    bpc,         \* adapter: "idle", "evict" (in access_eviction_set), "retry"
    btarget,     \* the address of the running instrumented_access
    bidx,        \* the next eviction-set entry access_eviction_set accesses
    reported     \* the level the adapter's last instrumented_access returned

bypassVars == <<mode, bpc, btarget, bidx, reported>>
allVars == <<vars, bypassVars>>

L1Ways == Levels[1].ways

(* The constructor's scan of region r from address on, with the eviction  *)
(* sets ev, the count found of full ones, and the adapter's regions out.   *)
(* A region whose scan completes the last eviction set is handed on from   *)
(* the next address; a region scanned to its end is dropped.              *)
RECURSIVE ScanRegion(_, _, _)

(* Mutant: the region is handed on from the address that completed the   *)
(* last eviction set, not from the next one.                               *)
ScanRegionKeepsLast(st, r, address) ==
    IF address >= r.base + r.size THEN st
    ELSE LET set == SetIndex(0, address)
             ev  == IF Len(st.ev[set]) < L1Ways
                    THEN [st.ev EXCEPT ![set] = Append(@, address)] ELSE st.ev
             fnd == st.found + IF Len(st.ev[set]) < L1Ways /\ Len(ev[set]) = L1Ways
                               THEN 1 ELSE 0
         IN  IF fnd = Levels[1].sets
             THEN [ev |-> ev, found |-> fnd,
                   out |-> Append(st.out, [base |-> address,
                                           size |-> r.size - (address - r.base)])]
             ELSE ScanRegion([ev |-> ev, found |-> fnd, out |-> st.out], r, address + 1)

ScanRegion(st, r, address) ==
    IF address >= r.base + r.size THEN st
    ELSE LET set == SetIndex(0, address)
             ev  == IF Len(st.ev[set]) < L1Ways
                    THEN [st.ev EXCEPT ![set] = Append(@, address)] ELSE st.ev
             fnd == st.found + IF Len(st.ev[set]) < L1Ways /\ Len(ev[set]) = L1Ways
                               THEN 1 ELSE 0
         IN  IF fnd = Levels[1].sets
             THEN [ev |-> ev, found |-> fnd,
                   out |-> IF address + 1 < r.base + r.size
                           THEN Append(st.out, [base |-> address + 1,
                                                size |-> r.size - (address + 1 - r.base)])
                           ELSE st.out]
             ELSE ScanRegion([ev |-> ev, found |-> fnd, out |-> st.out], r, address + 1)

(* bypass_adapter's constructor over regions i .. Len(Regions). *)
RECURSIVE Construct(_, _)
Construct(st, i) ==
    IF i > Len(Regions) THEN st
    ELSE Construct(IF st.found < Levels[1].sets
                   THEN ScanRegion(st, Regions[i], Regions[i].base)
                   ELSE [st EXCEPT !.out = Append(@, Regions[i])], i + 1)

Adapter == Construct([ev |-> [s \in SetsOf(0) |-> << >>], found |-> 0, out |-> << >>], 1)
Evsets == Adapter.ev
AdapterAddresses ==
    UNION {Adapter.out[i].base .. Adapter.out[i].base + Adapter.out[i].size - 1
             : i \in DOMAIN Adapter.out}

BypassInit ==
    /\ Init
    /\ mode \in Modes
    /\ bpc = "idle" /\ btarget = 0 /\ bidx = 1 /\ reported = 0

(* The program calls the memory itself. *)
DirectAccess(a) ==
    /\ mode = "direct"
    /\ Access(a)
    /\ UNCHANGED bypassVars

(* instrumented_access(a): the memory's instrumented_access; a miss in L1  *)
(* is returned one level up, a hit starts the eviction of a from L1.       *)
BypassAccess(a) ==
    /\ mode = "bypass" /\ bpc = "idle"
    /\ Access(a)
    /\ btarget' = a
    /\ IF level' > 0
       THEN reported' = level' - 1 /\ UNCHANGED <<bpc, bidx>>
       ELSE bpc' = "evict" /\ bidx' = 1 /\ UNCHANGED reported
    /\ UNCHANGED mode

(* access_eviction_set: one access of the next address of the target's    *)
(* L1 eviction set.                                                        *)
EvictStep ==
    LET ev == Evsets[SetIndex(0, btarget)]
    IN  /\ bpc = "evict"
        /\ Access(ev[bidx])
        /\ IF bidx = Len(ev) THEN bpc' = "retry" /\ bidx' = 1
                              ELSE bidx' = bidx + 1 /\ UNCHANGED bpc
        /\ UNCHANGED <<mode, btarget, reported>>

(* retry: the target is accessed again; while it still hits L1 the        *)
(* eviction set is accessed again, otherwise 0 is returned.                *)
Retry ==
    /\ bpc = "retry"
    /\ Access(btarget)
    /\ IF level' = 0 THEN bpc' = "evict" ELSE bpc' = "idle" /\ reported' = 0
    /\ UNCHANGED <<mode, btarget, bidx>>
    /\ level' = 0 => UNCHANGED reported

BypassNext ==
    \/ \E a \in Addresses : DirectAccess(a)
    \/ \E a \in AdapterAddresses : BypassAccess(a)
    \/ EvictStep \/ Retry

BypassSpec == BypassInit /\ [][BypassNext]_allVars

-----------------------------------------------------------------------------
(* instrumented_access through the adapter never loops: the target's      *)
(* access after one pass over the eviction set the constructor reserved    *)
(* for its L1 set always misses L1, so retry returns.  This needs the      *)
(* constructor to have found a full set of L1-ways addresses and to hand   *)
(* out none of them as the adapter's own memory.                           *)
RetryReturns == [][bpc = "retry" => bpc' = "idle"]_allVars
====
