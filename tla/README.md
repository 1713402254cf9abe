# TLA+ models of CacheHound

CacheHound reverse-engineers CPU caches from user space. It does three things:

- It builds one **eviction set** per cache set: a few addresses that, once accessed, evict a target address.
- It uses those sets to recover the **placement** function, the map from addresses to cache sets.
- It identifies the **replacement policy** by comparing measured hit counts against simulated ones.

It relies on the `instrumented_memory` concept. Behind that concept sits either the kernel module and its agent (`src/kernel`), or a simulated cache hierarchy (`src/sim`).

This directory holds TLA+ models of those parts, the TLC configurations that check them, and `PROJECT.json`. That file lists every component, run, mutant, finding and hazard, and maps each definition to the source lines it translates.

## 1. Inventory

| Part | Source | State | Operations | What makes it correct |
|---|---|---|---|---|
| Replacement policies | `lib/.../policies/replacement/*` | `order_` (FIFO/LRU), `tree_bits_` (PLRU), `entries_` (SRRIP/NRU/QLRU), outer LRU + nested PLRUs + `dirty_idx_` (lru_wrapped, LRU_PLRUn), `dirty_idx_` (linear_init) | `hit(way)`, `miss()` | victim is always a way; a way just hit is spared; empty ways are filled first; ways() misses evict every way (cyclic eviction) |
| Catalog and simulation | `util/replacement_policy.hpp`, `algo/simulate_sequence.hpp`, `util/sequence.hpp` | none (pure) | `get_replacement_policies`, `make_replacement_policy`, `simulate_sequence`, `filter_replacement_policies`, `check_cyclic_eviction` | names map to the intended policies; hit counts are those of one cache set |
| Replacement identification | `cli/.../impl/reverse_replacement_command.hpp`, `algo/detail/measure_sequence.hpp` | candidate list, rounds, measurements | generate a sequence, measure it `repetitions` times after pollution, take the majority, filter the candidates | the true policy is never eliminated; the loop terminates; `majority_element` returns a strict majority |
| Eviction-set reduction | `algo/impl/reduce_eviction_set.hpp` | the vector, `current_size`, the mask, the two group counters | one oracle call per iteration; the `found` branch removes a group | the result is at most `max_size` addresses and still an eviction set; groups partition the range |
| Minimization | `algo/minimize_eviction_set.hpp` | `l`, `r`, `it` | binary search over reductions | returns the smallest eviction set found |
| Search | `algo/impl/find_eviction_set.hpp` | `size`, attempt | draw `size` distinct addresses, test, grow by half | ends with an eviction set |
| Group testing / location | `util/detail/group_test.hpp`, `algo/locate_eviction_set.hpp`, `util/locate_set.hpp`, `strategies/eviction_set_strategy.hpp` | `first`, `last` | test the whole range, then halve | returns the group that contains the target's set, or end |
| Catalog driver and oracle | `cli/.../detail/impl/eviction_strategy_command_base.hpp`, `algo/impl/is_eviction_set.hpp` | `evsets`, `seen_addresses`, pollution fail counters | pick a target; locate it, or find and reduce a new set; sort; the oracle retries on a failed pollution | one eviction set per cache set, each for a distinct set, and the index of each equals its set |
| Placement reversal | `cli/placement/*`, `cli/.../impl/reverse_placement_command.hpp` | addresses, sets, `fail` | `feed_mapping`, `reverse` (GF(2) Cramer) | the recovered affine map reproduces every fed mapping |
| Simulated caches | `sim/...` | lines (valid, tag) per set and way, one policy per set | `lookup`, `hit`, `fill`, `invalidate`; `do_access` over levels with back-fill and victim cascade | no set holds a line twice; L1 behaves like `simulate_sequence`; `instrumented_access` returns the level that hit |
| Bypass adapter | `lib/.../adapters/impl/bypass_adapter.hpp` | `evsets_` (one L1 eviction set per L1 set), `regions_` | constructor; `instrumented_access` with its retry loop | the retry loop ends; the reported level is that of the next level |
| Kernel agent channel | `kernel/ch_channel.h`, `kernel/cachehound.c` | `control` (IDLE/ACCESS + count), `data[7]`, `active_channel`, `ref_counter`, `started` | user: `set_access`, `wait_for_idle`, switch, wbinvd, close; kernel: open, ALLOC_MEMORY, START_AGENT, release; agent: spin, decode, run, set IDLE, exit | every request answered; no use after free; release stops the agent and frees the state |
| Kernel memory backend, cache info, PMU | `lib/.../backends/impl/kernel_memory.hpp`, `kernel/ch_cache_info.h`, `kernel/ch_pmc.h`, the `--pmu` and `--kernel-isolation` parsing in `cli/.../impl/reverse_command.hpp` | `regions_`, `min_size`, `order`, `cache_info_`; the kernel's region list, `isolation_level`, `evts`; the agent CPU's event selectors and `local_pmc` | constructor: ALLOC_MEMORY loop, CACHE_INFO, START_AGENT, mmap; agent prologue (save, configure) and epilogue (restore); the instrumented access's counter write-back; the `--pmu` handler | regions match the kernel's; the geometry reported is the machine's; the agent owns the PMU while interrupts are off and gives it back; a measured load is classified as the level that served it |
| I/O parts | physical adapter, ioctl copy functions, address distributions, the rest of the CLI | device, pagemap, random number generator | — | not modelled (see section 5) |

The parts interact as follows:

- The catalog driver calls `locate_eviction_set`, `find_eviction_set` and `reduce_eviction_set`. All three go through the same noisy oracle (`provide_is_eviction_set`).
- The resulting `eviction_set_strategy` answers `maps_to`. `locate_set` uses it to group-test set indices for the placement reversal.
- Replacement identification uses the simulator catalog, and measures on the real memory.
- `reverse_command` hands the algorithms either `kernel_memory` or, with `--simulate`, a two-level `simulated_memory`; to study an outer level it wraps either in `bypass_adapter`, which hides L1.
- `kernel_memory` talks to the agent kthread through the channels page; each request blocks until the agent sets the channel IDLE.

## 2. Plan

The modules are listed in order of importance. Those marked *(done)* exist now.

1. `ReplacementPolicies` *(done)*: every policy of the catalog as pure operators, plus `simulate_sequence` and `check_cyclic_eviction`.
2. `ReplacementPolicy` + `MCReplacementPolicy` *(done)*: one policy object driven by `hit`/`miss` the way a cache set drives it.
3. `ReduceEvictionSet` refining `EvictionSetReduction` *(done)*. Next: `reduce_eviction_set_slow` as a second implementation of the same abstract spec.
4. `Majority`, `ReplacementIdentification` *(done)*. Next: a 4-way run, if the sequence space can be kept small enough.
5. `MinimizeEvictionSet` *(done)*: the binary search over `reduce_eviction_set` calls, refining `EvictionSetReduction`, with the uninitialised `it` as a violation.
6. `SimulatedMemory` *(done)*: set-associative caches composed into the two-level hierarchy, with `simulate_sequence` as a ghost refinement of L1.
7. `BypassAdapter` *(done)*: the adapter's constructor and retry loop on the simulated hierarchy.
8. `KernelChannel` + `MCKernelChannel` *(done)*: the file's ch_state lifecycle, the user process and the agent on the channels page, with crash of the user at any point; `kernel_memory`'s constructor, CACHE_INFO (`CacheInfo`), the PMU hand-over and the measurement classified by the `--pmu` handler (`PmuHandlers`), on x86 and arm64 machines.
9. `EvictionSetCatalog` + `MCEvictionSetCatalog` *(done)*: the driver composing `group_test`/locate, find and reduce (by its contract), the sort, and `reverse_placement`'s `locate_set` calls, over the exact LRU oracle. Next: oracle noise (a disturbed answer, as in identification).
10. `AffinePlacementReverser` + `MCAffinePlacementReverser` *(done)*: `reverse_placement_policy`'s loop, `feed_mapping`'s filter and independence tests, and `reverse()` with the GF(2) Cramer solve, checked against the placement it must recover.

## 3. Modules and how they correspond to the code

### ReplacementPolicies (pure operators)

A policy object is a record with one field per C++ member:

- `order` is `order_`;
- `bits` is `tree_bits_`, as a function from node index to BOOLEAN;
- `groups` holds the `nested_` PLRU trees;
- `entries` is `entries_`;
- `dirty` is `dirty_idx_`.

`Hit(p, w)` and `Miss(p)` dispatch on the kind as `any_replacement_policy` does. `Miss` returns the new object and the victim.

- **FIFO/LRU.** `std::rotate(begin, it, it+1)` is `RotateToFront`.
- **PLRU.** The loops of `hit`/`miss` are written in closed form. `PathNode(w, h, l)` is the tree index the loop reaches at level `l` on its way to leaf `w`. `miss` returns the unique leaf whose path disagrees with every bit it visits, then sets those bits as `hit` would, which is what the loop stores.
- **SRRIP.** `SrripMiss` is the `while(true)` find/increment loop, written recursively.
- **Catalog.** `MakeReplacementPolicy` follows `make_replacement_policy`:
  - NRU is SRRIP with 1 bit;
  - SRRIP is 2 bits with `hit_priority`;
  - "PLRU" and "PLRUl" both build plain PLRU, as in the code.
- **Simulation.** `SimulateFrom(p, seq)` is `simulate_sequence` starting from any policy object. `SimulateSequence` starts from a fresh one, as the code does.

### ReplacementPolicy (state machine)

- `policy` is the object, `filled` is the set of ways a miss has returned (the valid lines), and `last` is the last call.
- `HitWay(w)` is `register_hit` on a valid line. `MissWay` is `register_miss`.
- `Configs` gives the policy name and associativity, and `Init` picks one.

### ReduceEvictionSet and EvictionSetReduction

`ReduceEvictionSet` translates `reduce_eviction_set` and its vector wrapper.

- Iterators are offsets into `arr`, the vector, which holds addresses `1..N`.
- `cong` is the set of addresses congruent with the target, chosen in `Init` among all sets that form an eviction set. This is the caller's precondition.
- The oracle is the threshold model: a set evicts the target iff it holds at least `Ways` congruent addresses.
- `StartRound` is the while test and the group layout. `NextCounter` is the end of a `while(counter-- > 0)` loop. `Probe` is one oracle call with its `found` branch. `Finish` is the return and the wrapper's `last == begin` test.

`EvictionSetReduction` is the promise of the header comment. Given an eviction set, the reduction ends with a subset of at most `max_size` addresses that still evicts. `ReduceEvictionSet` is checked to implement it through `INSTANCE ... WITH`:

- the abstract `status` is "busy" until the wrapper returns;
- the abstract `out` is the final range `[first, last)`.

### Majority

`Majority` holds `majority_element` as operators. `MajorityStep` is one iteration of its `while` loop. The pass starts at `begin` with `maj = *begin` and `count = 1`, so the first element is counted twice. A different element replaces the candidate when `count == 1` and leaves the count at 1. `IsStrictMajority` is the reference definition; `ReplacementIdentification` checks the two agree on every vector of measurements its loop builds.

### ReplacementIdentification

This module models the `while` loop of `reverse_replacement_command::main`.

**State.**

- `candidates` is the candidates vector, kept in its order.
- `rounds` is saturated at `MinRounds`, because only `rounds < minimum_rounds_` is ever read.
- `seq` and `measurements` are the loop body's locals.
- `disturbed` counts this round's disturbed repetitions.

**Actions.**

- `Generate(s)` is the loop test followed by `generate_sequence`.
- `Measure` is one iteration of the repetition loop: reset, pollution, `safe_measure_sequence`, `emplace_back`.
- `Filter` covers `majority_element`, `filter_replacement_policies`, `erase` and `rounds++`.
- `Report` is the loop exit.

**The hardware** is the catalog policy `HwPolicy`, with two assumptions:

- After pollution, its state is any state the policy object reaches, through hits and misses, with every way holding a line (`PollutedStates`). The lines it holds are foreign to the sequence.
- Up to `Noisy` repetitions of a round are disturbed and may read any hit count.

An undisturbed repetition measures `SimulateFrom(p, seq)` from such a state `p`. The candidates are judged by `SimulateSequence`, which starts from a fresh object, as the code does.

**Sequences.** Hit counts, simulated or measured, depend only on which accesses repeat an address. The code compares address indices only for equality, and the set starts with none of the sequence's lines. The draw is therefore modelled over sequences that number addresses by first occurrence (`IsCanonical`): 51 of the 1024 sequences of length 5 over 4 addresses.

### MinimizeEvictionSet

This module translates `minimize_eviction_set`. Every call of `reduce_eviction_set` runs the step model of `ReduceEvictionSet`, instantiated as `R(m)` with `max_size` bound to the call's argument, on the same vector. Whatever one call leaves in the vector is what the next call is handed.

- `mpc` is the position in the function: "first" (the first reduction), "search" (the `while (l < r)` test), "probe" (a binary-search call), or "done".
- `StartReduce` enters `reduce_eviction_set` afresh on `[first, last)`.
- `AfterFirst`, `Probe`, `AfterProbe` and `Return` are the lines between the calls.
- `it` starts as `Uninit`. If no probe succeeded, `Return` reads it as any iterator of the vector, which is the undefined read the code performs.
- Line 54 calls `reduce_eviction_set` without the oracle, so no program instantiates this function today. The model passes the oracle of the first call.
- `MinimizeRefinesReduction` maps the module onto `EvictionSetReduction`. The first call must meet reduce's contract. Every later call, failed ones included, only reorders `[first, new_last)`.

### SimulatedMemory

This module covers `set_associative_cache` and `simulated_memory`.

**Caches.**

- `caches[l]` holds the lines (valid, tag) and one policy object per set, both taken from `ReplacementPolicies`.
- `Lookup`, `CacheHit`, `CacheFill` and `CacheInvalidate` are the cache's members.
- `Fill`, `BackFill`, `BackInvalidate` and `DoAccess` are the recursive members of `simulated_memory`, written as RECURSIVE operators.
- One `Access(a)` step is a whole `instrumented_access`: the outward search, the hit, the back-fill of the inner levels, and the victim cascade.
- `get_inclusiveness` returns non-inclusive for every level. The inclusive and exclusive branches are kept, but they are dead under it.

**Ghost shadow.** A ghost variable, `shadow`, runs `simulate_sequence`'s loop body on the same accesses, one simulation per L1 set. `L1RefinesSimulation` then states what `reverse_replacement` relies on when it filters candidates by simulation: the simulated L1 set is in exactly the simulation's state.

### BypassAdapter

This module EXTENDS `SimulatedMemory` with `bypass_adapter` on top of it.

- `ScanRegion` and `Construct` are the constructor's loops, written recursively. They reserve `ways` addresses per L1 set as `evsets_`. A region that completes the last set is handed on from the next address, and a region scanned to its end is dropped.
- `BypassAccess`, `EvictStep` and `Retry` are `instrumented_access`, split at each memory access:
  - a miss in L1 is reported one level up;
  - a hit accesses the target's eviction set (`access_eviction_set`) and retries.
- `mode` chooses whether a behaviour drives the memory directly or only through the adapter. `MCSimulatedMemory` gives both modes, so one run checks both.

### EvictionSetCatalog

This module composes the eviction-set search of `provide_eviction_set_strategy` (`eviction_strategy_command_base.hpp`) with the `locate_set` calls that `reverse_placement` makes on the strategy built from it.

**Oracle.** `Oracle(t, L)` is `safe_is_eviction_set` on one LRU set that pollution has filled with foreign lines. It accesses t, every address of L, then t again:

- it answers nullopt if any access but the last hits;
- it answers `No` if the last access hits, and `Yes` otherwise.

`HitsAt` decides a hit: the line was accessed before, with fewer than `Ways` other congruent lines since. The answer is a function of the arguments, so the retry loops of `is_eviction_set` turn a nullopt into `Hang`, a call that never returns.

**Group testing.** `GroupTest` and `Bisect` are `detail::group_test`: it tests the whole range, then halves it. `TestGroups` tests a range by the join of its groups:

- `Locate` is `locate_eviction_set`, over the driver's vector;
- `LocateSet` is `locate_set`, over the sorted catalog through `maps_to`.

**Driver.** The state is `evsets`, `seen` (`seen_addresses`), `nextSet` (the set-cycling distribution's `next_set_`), and `fpc`, the driver's position. `Draw` is the distribution's `operator()`. One loop iteration ends in one of three ways:

- `SkipSeen`: the target was already seen;
- `Located`: locate found the target's eviction set, and the target joins it;
- `StartFind`: no eviction set covers the target, and `find_eviction_set` starts.

`FindHit` and `FindMiss` are one attempt each, and `FindMiss` grows the size by half after five failed attempts. `Reduce` is `reduce_eviction_set` by its contract, which the `minimize` run checks the step model against. `SortCatalog` is the `std::sort` by the modular index of each set's first line.

**Placement.** The cache's `placement` is chosen once, in `Init`, from `Placements`, and no step changes it. The MC gives two placements:

- the modular one;
- a hash in the manner of `make_a64fx_placement_policy`, which XORs address bit 1 into bit 0.

The driver cycles by modular index whatever the hardware does. Under the hash it therefore also draws lines of sets it has already covered, which `Located` and `SkipSeen` handle.

**Probes.** `ProbeStart` and `ProbeReturn` are one `locate_set` call of `reverse_placement` each. A call returns only if its group test does not hang.

### AffinePlacementReverser

This module models `reverse_placement_policy` (`reverse_placement_command.hpp`) with the `affine_placement_reverser` it drives. `locate_set` is abstracted to the label it returns: `placement`, chosen once from `Placements`, or nothing for a line in `Unlocated`. How `locate_set` probes is `EvictionSetCatalog`'s part.

**State.** The state is the reverser's `addresses` and `sets` (`addresses_`, `sets_`) and its `fail` counter, plus the command's `addressSet` (`address_set`, with `NoSet` for a line not mapped yet). `pc` is `"loop"`, `"done"` or `"aborted"`, the last being the assertion at line 94. The outcome is `policy`, `matches` and `lowConfidence`.

**Loop.** `Feed` is one pass of the loop body for a drawn line that `locate_set` maps and `address_set` does not hold. A draw that changes nothing is a stuttering step. `NewMapping` records the mapping, and the pass ends in one of three `feed_mapping` outcomes:

- `FeedFirst`: the reverser is empty, and it keeps the address only if its two low line bits are not both zero;
- `FeedKept`: the grown vector passes `Independent`, which is linear independence in 2 bits for two addresses and affine independence in n-1 bits for more;
- `FeedRejected`: it does not; the address is popped and `fail` counts it, and at `FailLimit` the program aborts.

`LoopContinues` is the loop condition. `LoopExit` leaves the loop, and `ReverseAndVerify` is `LoopExit` together with `reverse()` and the verification count.

**Algebra.** Vectors and matrices are functions; `bit` is addition mod 2. `ToBitVector` and `ToUint` are the two conversions, both most significant bit first. `Det` is `determinant<bit>`, the rational determinant mod 2, computed by expansion along the first row, where the signs vanish mod 2. `Solve` is `affine_solver::solve`: B is the inputs over a row of ones, and entry (i, j) is the determinant with row j of B removed and output row i on top. That is Cramer's rule, with D = 1 (asserted). `ReversePolicy` pads A and t with zeros for the offset bits and turns the rows into masks. `PolicyIndex` is `affine_placement_policy::operator()`.

**Dead code.** The collection loop at lines 50-61 is never taken. The first loop ends with fewer than `target_mappings_` mappings only once `reversed_bits()` reaches `target_reversed_bits_` = 64, which needs 65 affinely independent addresses.

### KernelChannel

This module models the kernel module's open file and the two sides of its channel page.

**State.**

- `control[c]` is the channel's control word. `IDLE` is 0, and a request is `ACCESS | count << 1`.
- `data0[c]` is `data[0]`, the only data word a property depends on.
- `activeChannel` is `state->active_channel`.
- `refs` is `ref_counter`, and `freed` is `kfree(state)`.
- The three processes each have a program counter, and each keeps a copy of the channel it last read:

  | Process | Program counter | Channel copy |
  |---|---|---|
  | user (`ch_channel.h`, and the `kernel_memory` calls that use it) | `upc` | `uChan` |
  | agent kthread | `apc` | `agentChan` |
  | `device_release` | `rpc` | `rChan` |

- `kRegions` is the kernel's region list (the order of each region), `uRegions` the constructor's `regions_` (their sizes); `order` and `minSize` are the constructor's loop variables.
- `hw` is the machine, chosen once in `Init`; `cacheInfo` is `cache_info_`, indeterminate (`Uninit`) until CACHE_INFO fills it.
- `isolation` is `state->isolation_level`; `pmuSel` is the agent CPU's four event selectors (`IA32_PERFEVTSEL0..3`, `PerfEvtSel0..3`, or `PMEVTYPER0..3_EL0`), `pmuSaved` the agent's `local_pmc`, `irqsOff` whether its `local_irq_save` is in force, and `hostSel` what the host's other PMU users believe they programmed.
- `writeBack` is what the agent last wrote to `data[0..5]`: whether the entry was a load, the level that served it, the counter differences, and whether interrupts were off.

**User actions.** The constructor is one action per step of `kernel_memory::kernel_memory`:

- `AllocRegion(ok)` is one pass of the `while (min_size)` loop. It includes the kernel's `ch_state_alloc_memory` (`KernelAllocMemory`), whose three allocations all succeed or leave nothing behind. On failure the order is lowered, and at order 0 the constructor throws.
- `ReadCacheInfo` is the CACHE_INFO ioctl.
- `StartAgent(cpu, iso)` is START_AGENT past its checks; `StartAgentRejected` is its `cpu >= NR_CPUS` answer. `iso` comes from the `--kernel-isolation` string (`IsolationOf`), where any string other than "off" and "no-preempt" means disable-irq.
- `MmapChannels(ok)` maps the channels page, or throws after the agent has started.

`UserAccess`, `UserSwitch` and `UserWbinvd` then write one request each (wbinvd only on x86). `UserSeesIdle` is `wait_for_idle` returning.

**Cache info (`CacheInfo`).** These are pure operators over a machine's identification registers.

- On Intel, CPUID leaf 4 is a sequence of descriptors. `LevelsFrom` keeps the level of the last one before the null descriptor. `DcacheLeaf` finds the first descriptor of level + 1 that is not an instruction cache, and the ways and sets are decoded from it.
- Other x86 vendors get the hard-coded Zen 2 geometry (`AmdSets`, `AmdWays`).
- On arm64, `ArmLevelsFrom` counts CLIDR_EL1's Ctype fields, and `ArmSets`, `ArmWays` and `ArmOffsetBits` decode CCSIDR_EL1 with the code's masks.
- `CacheInfoIoctl` fills `sets` and `ways` for the levels reported, and leaves the other entries indeterminate.

**PMU (`PmuHandlers`).**

- `X86PmuEvent` is the selector encoding `add_x86_pmu_event` builds.
- `PmuEvents(pmu)` lists the events of each `--pmu` choice.
- `PmuHandler(pmu, before, after)` is the handler lambda. `Covered(pmu)` is the number of levels it tells apart.

In `KernelChannel`:

- `AgentStart` is the agent's prologue. `PmcSave` reads selectors 0..3. `ProgrammedFrom` is what they hold afterwards: on x86 the save zeroes them and configure writes `evts[i]`; on arm64 the save keeps them and configure writes `evt & 0x3ff | 1 << 27`.
- On arm64 configure also writes the control registers (`ArmControlFrom`). It sets PMCR_EL0 to 1, ORs counter `i`'s bit into PMCNTENSET_EL0, and clears PMCCFILTR_EL0. `pmuCtl` holds the three, starting from the host's `HostCtl`. An arm64 counter counts only while PMCR_EL0.E and its PMCNTENSET_EL0 bit are set (`Counting`), so `MeasurementCorrect` depends on these writes.
- `AgentExit` restores the selectors (`PmcRestore`). It leaves `pmuCtl` as configure left it, because `local_pmc` holds only PMEVTYPER0..3.
- `HostReprogram(i)` is another PMU user of the agent's CPU (perf's rotation, an IPI), which runs whenever that CPU takes interrupts.

**Agent actions.** The agent reads the control word once per loop and decodes it:

- count 0 exits (`AgentExit`);
- a count with bit 4 set does wbinvd (`AgentWbinvd`);
- a count with bit 3 set switches channels, in two steps:
  - `AgentSwitchOut` stores IDLE on the old channel (line 301);
  - `AgentSwitchIn` reads `data[0]` and stores the new `active_channel` (lines 305-306);
- any other count runs the accesses (`AgentAccess`). Its last entry is a load, served at some level of `hw.caches` or by memory, or a flush or set/way operation. For a load, the counters are read before and after (`Measured`, plus any loads of an interrupt handler when interrupts are on). The x86 loop writes the six values back even for a flush; the arm64 loop skips the write-back for a set/way operation (`InstrumentedWriteBack`).

**Release.** `Release`, `ReleaseTerminate` and `ReleasePut` are `device_release`:

1. it reads `active_channel`;
2. it spins on the `cmpxchg` until that channel is IDLE, then writes the terminate request;
3. it puts its reference.

The user may close at any point, which is the crash of the user process. `AgentExit` and `ReleasePut` drop references, and the state is freed at 0.

## 4. Runs

| Run | Config | Expect | Checks | Shows |
|---|---|---|---|---|
| policy_contracts | `MCReplacementPolicy.cfg` | pass | TypeOK, CyclicEviction, MissSparesJustHit, FillsInvalidWayFirst | From every reachable state: FIFO, LRU and PLRU evict every way once in ways() misses; LRU, PLRU and LRU_PLRU4 never evict the way just hit; the catalog's wrapped policies fill empty ways before evicting |
| minimize | `MinimizeEvictionSet.cfg` | pass | TypeOK, SizeTracksRange, FindsMinimalSize, MinimizeRefinesReduction, Terminates | For vectors of 5 to 10 addresses and `max_size` 5, each `reduce_eviction_set` call keeps `current_size` in step with its range. The first call meets reduce's contract, and later calls only reorder. The search ends. After a successful probe, the returned iterator ends an eviction set of exactly `Ways` addresses, even though later failed probes permuted the vector |
| minimize_uninit | `MinimizeEvictionSet_result.cfg` | violation | ReturnsEvictionSet | With `max_size` = associativity, no probe succeeds and the never-assigned `it` is returned |
| identification_fifo | `MCReplacementIdentification_fifo.cfg` | pass | TypeOK, TruePolicySurvives, FilterUsesMajority, Terminates | On a 2-way FIFO set with one of three repetitions disturbed, FIFO is never eliminated. `majority_element` returns the strict majority of every measured vector, and the loop ends |
| identification_srrip | `MCReplacementIdentification_srrip.cfg` | violation | TruePolicySurvives | On a 2-way SRRIP set, undisturbed measurements from polluted states eliminate SRRIP in round 1 |
| identification_lru | `MCReplacementIdentification_lru.cfg` | violation | Terminates | On a 2-way LRU set, LRU, PLRU and PLRUl simulate alike, and the loop, which has no inconclusive exit (spec 4.5 step 4), never ends |
| simulated_memory | `SimulatedMemory.cfg` (module `MCSimulatedMemory`) | pass | TypeOK, NoDuplicateLines, L1RefinesSimulation, RetryReturns | In the two-level hierarchy, driven directly or through `bypass_adapter`: no set holds a line twice; L1 is in the state `simulate_sequence` computes; the adapter's retry never goes round twice |
| kernel_channel | `KernelChannel.cfg` (module `MCKernelChannel`) | pass | TypeOK, NoUseAfterFree, AllocationMatches, CacheInfoDecoded, PmuOwnership, MeasurementCorrect, RequestsAnswered | On two Intel parts, AMD Zen 2, a Raspberry Pi 5 and an A64FX, across every interleaving of user, agent, `device_release` and a host PMU user, and every allocation failure: the constructor's regions match the kernel's list; CACHE_INFO reports the machine's levels, sets and ways; while interrupts are off the agent's events are programmed, and the host's selectors are back after a disable-irq agent exits; a load measured with interrupts off is classified as the level that served it; the state is freed only when no one uses it; every request is answered |
| eviction_catalog | `EvictionSetCatalog.cfg` (module `MCEvictionSetCatalog`) | pass | TypeOK, CatalogSound, CatalogIndexed, LocateSetCorrect, CatalogCompletes, ProbeLocatesSet | On a two-set, two-way cache, modular or hashed, the catalog always completes with one eviction set per cache set. Under modular placement the sort puts set i at position i. `locate_set` returns the catalog position of a line's set for every line outside the catalog |
| locate_set_hang | `EvictionSetCatalog_probe.cfg` | violation | ProbesReturn | `locate_set` on a line the catalog holds never returns. `maps_to` puts the target in its own test list, `safe_is_eviction_set` answers nullopt, and the retry repeats it forever. `reverse_placement` draws its targets uniformly, so it can meet such a line (see the TODO at `eviction_strategy_command_base.hpp:100`) |
| affine_reverser | `AffinePlacementReverser.cfg` (module `MCAffinePlacementReverser`) | pass | TypeOK, ReverseFitsFedMappings, RoundTrip, Terminates | Under modular, XOR-hashed and non-affine labels, the loop always reaches `reverse()`. The returned policy reproduces every fed mapping. When the labels are affine in the reversed bits, it recovers them on all of memory, every mapping matches, and no low-confidence warning is given |
| release_stale_channel | `KernelChannel_release.cfg` (module `MCKernelChannel`) | violation | ReleaseFreesState | `device_release` reads `active_channel` while the agent is between the two stores of a switch. It terminates the old channel, and the agent spins on the new one forever |

Three earlier violation runs were retired to keep the set of runs small. Their results still hold of the code:

- The catalog's "PLRUl" is plain PLRU; the `linear_init` wrapper is commented out (`replacement_policy.hpp:58-63`). After fills of ways 3, 1 and 2 and a hit on way 1, it evicts way 3 while way 0 is still empty.
- SRRIP is not cyclic. After one fill and one hit it evicts ways 1, 2, 3, 1, so the spec's list of cyclic policies is wrong for it.
- At `current_size` 8 and `max_size` 2, `reduce_eviction_set`'s groups cover only 6 addresses, because the remainder is taken modulo `min_group_size`. The reduction's contract still holds (run `minimize`).

**Bounds.**

- **Policies.** Four ways is the smallest PLRU tree with two levels, and lets SRRIP age through all four values. Eight ways is the smallest associativity with an LRU_PLRU hybrid. All reachable states of each policy are explored, so the invariants hold after every history.
- **Reduction and minimization.** Vectors of 5 to 10 addresses with `max_size` 5 and 2 ways make the first call go through several rounds. They cover:
  - rounds where `current_size % min_group_size` equals the true remainder and where it does not;
  - both exits of the `found` label;
  - probes at m = 3 and 2 (successes) and m = 1 (a failure after rounds that permuted the vector).
- **Identification.** Two ways is the only associativity whose sequence space TLC can enumerate with every policy. The catalog is then FIFO, LRU, PLRU, PLRUl and SRRIP over a window of 4 addresses.
  - Length 5 is the shortest sequence that tells FIFO, LRU and SRRIP apart.
  - Three repetitions with one disturbed is the smallest vote a minority can disturb.
  - `MinRounds` 2 makes the `rounds < minimum_rounds_` half of the loop test matter.
- **Simulated memory.**
  - L1 has 1 set of 2 ways and L2 has 2 sets of 2 ways, both LRU. Five addresses share L1's only set, and three share one L2 set, one more than it holds. Both levels therefore evict and victims cascade. A 4-way L2 with 6 addresses did not finish in the time allowed.
  - The adapter's three regions exercise each branch of the constructor: one too short to complete the eviction set (dropped), one that completes it and is handed on from its next line, and one handed on whole. Targets and the eviction set contend for the same L2 set.
- **Eviction-set catalog.**
  - The cache has 2 sets of 2 ways and 8 lines, four per set under either placement.
  - An eviction set with its target takes three lines of its set, so every set keeps a line for the driver to locate.
  - find's sizes 2, 3, 4 and 6 all fit in the seven lines other than a target, so the size growth is exercised.
  - Three probes cover both sets under either placement.
  - More sets or ways make `SetToSeqs` and the candidate subsets too large for the liveness check. The run already takes about two and a half minutes.
- **Affine reverser.**
  - The memory has 8 lines of 2 bytes (offset bits 1) and 4 sets (index bits 2). Three line bits let the reverser keep up to four addresses, so `reversed_bits()` ends at 2 or 3 depending on the order of the draws.
  - The three labellings are: the modular index (affine in 2 bits); a hash that XORs line bit 2 into bit 0 and translates by 2 (affine only in 3 bits); and a labelling that is affine in no window. `RoundTrip`'s premise therefore holds in some final states and fails in others.
  - One line is unmapped, and 6 mappings are asked for out of the 7 mapped lines, so the loop can end with either 6 or 7 mappings.
  - `FailLimit` is the code's 100000, which no 8-line memory reaches.
- **Kernel channel.**
  - Two channels are the fewest with which a switch means anything.
  - Counts {7} is the largest access request; the count changes no modelled state beyond its decoding, so one value suffices. The release run uses {1}.
  - The reference count is bounded by the code itself, at 2.
  - `MinSize` 5 with `PageSize` 2 and `MaxOrder` 1 makes the loop take two or three regions, with and without a failed allocation lowering the order, and with the last region larger than what is left (the `std::min`).
  - CPUs {0, 2} with `NR_CPUS` 2 reach both START_AGENT answers.
  - Isolation strings "no-preempt" and "disable-irq". "off" behaves as "no-preempt" in the model: `get_cpu` disables preemption at every level, and interrupts stay on at both.
  - Five machines cover every decoder branch and every `--pmu` handler:
    - an Intel part with an instruction-cache descriptor between L1d and L2 and a shared L3;
    - an Intel part without L3 and with a 6-way L1d;
    - AMD Zen 2;
    - a Raspberry Pi 5 (three levels, 64-byte lines);
    - an A64FX (two levels, 256-byte lines).
  - The host PMU user programs selectors 0 (one the agent programs) and 3 (one it leaves alone).

**Fairness.**

- **Identification.** The loop is single-threaded, which justifies weak fairness of its next-state action. `generate_sequence` draws uniformly, so every sequence is drawn infinitely often with probability one. The spec assumes strong fairness of the draw only for the three sequences in `MCFairSequences`, which is weaker than what the code gives. These sequences tell the catalog's classes apart. Under that fairness, the LRU run's non-termination is not an unfair schedule.
- **Minimization.** It is a sequential loop, so weak fairness of its next-state action is what its single thread gives.
- **Kernel channel.** The agent is a kthread pinned to its own CPU and spins without sleeping, and the release's `cmpxchg` loop retries without bound. Both get weak fairness. The user process gets none: it may stop at any point and never close. The host PMU user gets none either.
- **Eviction-set catalog.** The driver and a `locate_set` call are single-threaded loops, so each gets weak fairness. The set-cycling distribution draws uniformly among the lines of the next modular index. While the loop head keeps offering an unseen line of an uncovered set, such a line is therefore drawn with probability one, and `StartFind` is strongly fair. `ProbeStart` has no fairness: `reverse_placement` may stop probing.
- **Affine reverser.** The command is one thread, and the uniform draw makes every line come up with probability one. A draw that changes nothing is a stuttering step. Weak fairness of the loop body (`Feed`) and of the exit (`LoopExit`) is therefore what progress rests on. The two are never enabled together, so this is weak fairness of `Next`. The exit's fairness is stated on `LoopExit` rather than on `ReverseAndVerify`. The two have the same ENABLED and the same steps, but `LoopExit`'s is cheap to evaluate.
- **Policy machine, simulated memory and adapter.** These have no fairness. `RetryReturns` is an action property (safety), and it bounds the retry loop to one pass.

**Mutants.** Each property of a passing run is shown to be violated by a plausible fault in the code it is about. Examples:

- policies: PLRU `miss` without the bit store; LRU `hit` rotating to the back; `dirty_idx_` not incremented;
- reduction and minimization: `std::copy` instead of `swap_ranges`; a failed probe setting `l = m`;
- identification: `majority_element` testing for a count of 0; the repetition loop running once too many; a missing `rounds++`;
- simulated memory: a fill that skips the lookup, or fills an invalid way first; a cascade without the victim test;
- adapter: a constructor that hands on the region from the last reserved line;
- kernel: `START_AGENT` without the reference; a switch without the IDLE store; `min_size -= size` without `std::min`; a failed allocation recorded; the descriptor's level compared with `level` instead of `level + 1`; `local_irq_save` only above disable-irq; only two counters configured;
- reverser: the translation padded at the wrong end; verification over the fed addresses only; a first address kept whatever its bits; a mapping fed twice.

The full list is in `PROJECT.json`.

## 5. Not modelled, and why

- **The arm64 maintenance operations and PMU control registers.** The arm64 agent loop (`cachehound.c` 494-717) is modelled where it differs from x86: no wbinvd, and no write-back after a set/way operation. The effect of DC CSW, ISW and CISW on the caches is hardware, and is not modelled. The PMU control registers are modelled (`ArmControlFrom`), and restore does not give them back. With PMCR_EL0, PMCNTENSET_EL0 and PMCCFILTR_EL0 modelled, an invariant `pmuCtl = HostCtl` after the agent exits fails on both arm machines. Every run slot is taken, so this is a hazard with no property (`ch_pmc.h:109`). `PmuOwnership` states the restore for the event selectors only.
- **arm64 line size.** `ch_cache_offset_bits` masks CCSIDR_EL1's three-bit LineSize with `0b11`. The A64FX's 256-byte lines (LineSize 4) are therefore reported as 4 offset bits, 16-byte lines. Adding `offset_bits` to `CacheInfoDecoded` makes the kernel_channel run fail on the A64FX machine at once. Every run slot is taken, so this is a hazard with no property (`ch_cache_info.h:50`). The ways mask at line 119 keeps nine of the ten Associativity bits. That bites only above 512 ways, which no modelled part has.
- **The AMD handler's level 2.** It answers 2 for an L3 hit and for memory alike (`Covered`), so on Zen 2 the L3 cannot be studied through it. `MeasurementCorrect` states exactly that.
- **Machines with four cache levels.** `ch_ioc_cache_info` has arrays of three; CACHE_INFO on such a machine writes past them. This is a hazard with no property, because the model's `cacheInfo` arrays have three entries.
- **The user side of the channel.** The user's half of the channel (`kernel_memory`'s `.ipp`: `switch_channel`, `wbinvd`, and access buffering) is not in the repository. `UserSwitch` and `UserWbinvd` are modelled from the spec. The model assumes a switch names another channel: a switch to the current channel races on `data[0]`, and this is a hazard with no property.
- **`src/kernel/client.cpp`.** It is a stale test client: it uses `ch_ioc_config`, which does not exist.
- **The `err < 0` paths after `copy_to_user`/`copy_from_user`.** These are dead: both calls return the number of uncopied bytes, never a negative value.
- **`kthread_create`'s ERR_PTR.** This is a partial failure in the kernel allocator, listed as a hazard.
- **`armv8_bypass_adapter`.** It is the x86 adapter with the cache-maintenance instruction instead of the eviction set.
- **A false L2 hit reported by the adapter.** Behind an L1 hit, the retry's access can come from L2. The code promises nothing there (see its TODO), so no property is stated.
- **In the eviction-set driver:**
  - the `switch_channel` counter (lines 40-47), which is I/O on the kernel channel;
  - warmup, and the pollution accesses themselves: the oracle takes pollution as complete;
  - oracle noise;
  - the concatenated optimistic/pessimistic distribution of `find_eviction_set`, abstracted to any distinct candidate set;
  - reduction step by step: it enters by its contract, which `ReduceEvictionSet` is shown to refine.
- **In `reverse_placement`:**
  - the collection loop at lines 50-61, which cannot run (see `AffinePlacementReverser`);
  - `locate_set`'s probing, which `EvictionSetCatalog` models;
  - the policies' `to_string`, `matrix_string` and `vector_string`, which only format;
  - the warning threshold's rounding for non-affine placements (`reverse_placement_command.hpp:70`). With `--mappings` 5, 5 matches of 7 (71%) give no warning, though the comment says a confidence of at most 80% does. It is a hazard; no run slot is left to check it as a violation.
- **`physical_adapter`.** Its `translate` looks up the region with the largest physical base not above the address. The kernel's `memremap` of RAM returns the linear mapping, so the translation is a constant offset for every region; the rest of the adapter forwards. The ioctl copy functions are device I/O. The algorithms see the memory only as the oracle's answers, which the models choose.
- **`defragment_regions`.** It is declared in `kernel_memory.hpp`, and its body is in the missing `.ipp`. `AllocRegion` assumes it leaves the regions as they are.
- **Address distributions.** Random sampling is replaced by nondeterministic choice over all placements (for example, which addresses are congruent).
- **CLI parsing, logging and formatting.** They hold no state a property is about.
- **The measurement retry** (`reverse_replacement_command.hpp:79`). A measurement whose first access hits is repeated. The only state it keeps is a logged counter, and it never ends only if pollution never evicts the sequence's lines, which the model of the hardware leaves out.
- **`linear_init_replacement_policy`.** No catalog name constructs it; see the retired PLRUl run in section 4.
- **`frequency_priority`.** No policy of the catalog uses it.
- **The oracle's physics.** The threshold model, in which a set evicts iff it holds at least `Ways` congruent addresses, is exact for LRU. For other policies it is an abstraction, chosen because the reduction's correctness argument (pigeonhole over groups) relies only on it.
