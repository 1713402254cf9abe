--------------------------- MODULE KernelChannel ---------------------------
(***************************************************************************)
(* The kernel side of the kernel_memory backend (kernel/cachehound.c and   *)
(* kernel/ch_channel.h): one open file of /dev/cachehound, its reference   *)
(* counted ch_state, the agent kthread started by ioctl START_AGENT, and   *)
(* the shared-memory channels through which the user process hands the    *)
(* agent requests.                                                         *)
(*                                                                         *)
(* A channel's control word is IDLE (0) or ACCESS (bit 0) with a request   *)
(* above it: control = 1 | count << 1.  The x86 agent loop decodes         *)
(* count = control >> 1 as: 0 exit, bit 4 and up wbinvd, bit 3 switch to   *)
(* the channel in data[0], otherwise count accesses of data[0 .. count-1]; *)
(* every request but exit ends with the agent storing IDLE.  Addresses and *)
(* counter values are left out: no property tells them apart.              *)
(*                                                                         *)
(* The user process is the kernel_memory constructor                       *)
(* (backends/impl/kernel_memory.hpp), which allocates regions of           *)
(* decreasing order until min_size bytes are covered and then starts the   *)
(* agent, followed by the channel calls of ch_channel.h the rest of        *)
(* kernel_memory makes, waiting for IDLE after every request as the       *)
(* protocol requires.  It may close the file, or die, at any point.       *)
(***************************************************************************)
EXTENDS Naturals, Sequences, SequencesExt, CacheInfo, PmuHandlers

CONSTANTS
    Channels,    \* channel indices of the channels page (0 .. k - 1)
    Counts,      \* access counts a request may carry (1 .. 7)
    MinSize,     \* the constructor's min_size, in bytes
    PageSize,    \* sysconf(_SC_PAGE_SIZE)
    MaxOrder,    \* the constructor's max_order
    Cpus,        \* cpu arguments the constructor may be given
    NrCpus,      \* NR_CPUS
    IsolationArgs, \* strings --kernel-isolation may be given
    Machines,    \* [arch: "x86" or "arm", intel, pmu: its --pmu,
                 \*  leaves: CPUID leaf 4 table, clidr, ccsidr: CLIDR_EL1 and
                 \*  CCSIDR_EL1 per level, caches: <<[sets, ways]>> of its
                 \*  data caches]
    EventCounts(_, _, _), \* does selector value s on machine m count an
                 \* access served at level l (Len(m.caches): memory)?
    HostSel,     \* the host's event selectors 0 .. 3 before the agent runs
    HostEvt,     \* an event another PMU user on the agent's CPU programs
    HostCounters, \* the selectors it programs
    HostCtl      \* arm64's PMCR_EL0, PMCNTENSET_EL0 (as the set of counters
                 \*  whose bit is set) and PMCCFILTR_EL0 before the agent runs

PmcIndex == 0 .. 3      \* the four event selectors ch_local_pmc saves

(* reverse_command::parse_arguments: "off" and "no-preempt" name their    *)
(* level (CH_ISOLATION_OFF = 0, _NO_PREEMPT = 1); any other string means  *)
(* disable_irq (2).                                                        *)
IsolationOf(str) == CASE str = "off"        -> 0
                      [] str = "no-preempt" -> 1
                      [] OTHER              -> 2

Isolations == {IsolationOf(str) : str \in IsolationArgs}

ASSUME /\ 0 \in Channels /\ Channels \subseteq Nat
       /\ Counts \subseteq 1 .. 7
       /\ MinSize \in Nat \ {0} /\ PageSize \in Nat \ {0} /\ MaxOrder \in Nat
       /\ Cpus \subseteq Nat /\ NrCpus \in Nat
       /\ HostSel \in [PmcIndex -> Nat] /\ HostCounters \subseteq PmcIndex

VARIABLES
    control,        \* control word of each channel
    data0,          \* data[0] of each channel, the target of a switch
    activeChannel,  \* state->active_channel
    agentChan,      \* the channel the agent's channel_ptr points to
    apc,            \* agent: "none", "poll" (at .retry), "switch", "exited"
    refs,           \* state->ref_counter
    started,        \* state->started
    kRegions,       \* orders of the regions on state->regions_head's list
    freed,          \* ch_state_free has run
    upc,            \* user: "alloc", "start", "thrown", "idle", "wait", "closed"
    order,          \* the constructor's order
    minSize,        \* the constructor's min_size, bytes still to allocate
    uRegions,       \* sizes of the constructor's regions_
    uChan,          \* the user's active channel
    nextChan,       \* the channel the user moves to once the request is done
    rpc,            \* device_release: "none", "term", "put", "done"
    rChan,          \* the channel device_release terminates
    isolation,      \* state->isolation_level
    hw,             \* the machine the module runs on
    cacheInfo,      \* the constructor's cache_info_
    pmuSel,         \* the agent CPU's event selectors (MSR0 + i)
    pmuSaved,       \* the agent's local_pmc
    irqsOff,        \* the agent's local_irq_save is in force
    hostSel,        \* the selectors the host's PMU users believe they set
    pmuCtl,         \* arm64's PMCR_EL0, PMCNTENSET_EL0, PMCCFILTR_EL0
    writeBack       \* the counters the agent last wrote back to data[0 .. 5]


chanVars == <<control, data0, activeChannel>>
stateVars == <<refs, started, kRegions, freed, isolation>>
agentVars == <<agentChan, apc, pmuSaved, irqsOff>>
ctorVars == <<order, minSize, uRegions, hw, cacheInfo>>
userVars == <<upc, uChan, nextChan>>
relVars == <<rpc, rChan>>
pmuVars == <<pmuSel, hostSel, pmuCtl>>
vars == <<chanVars, stateVars, agentVars, ctorVars, userVars, relVars, pmuVars,
          writeBack>>

IDLE == 0
ACCESS == 1
SwitchCount == 8     \* count bit 3
WbinvdCount == 16    \* count bit 4

(* ch_channel_set_access / _ch_channel_write_control. *)
SetAccess(c, count) == control' = [control EXCEPT ![c] = ACCESS + count * 2]

(* cache_info_ before read_cache_info fills it: a member without an       *)
(* initialiser, indeterminate.                                            *)
NoCacheInfo == [levels |-> Uninit, offset_bits |-> Uninit,
                sets |-> [l \in 0 .. 2 |-> Uninit],
                ways |-> [l \in 0 .. 2 |-> Uninit]]

(* The constructor's config.evts: std::copy of the pmu_events into a       *)
(* zero-initialised array of three; START_AGENT copies it to state->evts.  *)
EvtsOf(events) == [i \in 0 .. 2 |-> IF i < Len(events) THEN events[i + 1] ELSE 0]
Evts == EvtsOf(PmuEvents(hw.pmu))

(* Counter values are kept relative to the first read of an access. *)
Zeros == [i \in 0 .. 2 |-> 0]
NoWriteBack == [load |-> FALSE, served |-> Uninit, after |-> Zeros, irqsOff |-> FALSE]

(* The selectors while the agent runs, saved being those it found: the     *)
(* configure loop has set counter i to evts[i] for the i before the first  *)
(* zero event.  On x86 ch_local_pmc_save has zeroed all four and           *)
(* ch_local_pmc_configure writes evt to MSR0 + i; on arm64 the save only   *)
(* reads PMEVTYPER0..3 (its comment says it resets them), and configure    *)
(* writes evt & 0x3ff | 1 << 27 to PMEVTYPERi.                             *)
(* Mutant: only counters 0 and 1 are programmed. *)
ConfiguredTwo(i) == i < 2 /\ \A j \in 0 .. i : Evts[j] # 0

Configured(i) == i < 3 /\ \A j \in 0 .. i : Evts[j] # 0
ArmEvtType(evt) == (evt % 1024) + 2^27
ProgrammedFrom(saved) ==
    [i \in PmcIndex |->
        CASE Configured(i) /\ hw.arch = "x86" -> Evts[i]
          [] Configured(i)                    -> ArmEvtType(Evts[i])
          [] hw.arch = "x86"                  -> 0
          [] OTHER                            -> saved[i]]

(* The arm64 configure also sets PMCR_EL0 to 1 (the enable bit E, every   *)
(* other bit cleared), ORs 1 << reg into PMCNTENSET_EL0 and clears         *)
(* PMCCFILTR_EL0; neither save nor restore touches these three.  The x86   *)
(* configure writes the selector MSR only.                                 *)
ArmControlFrom(ctl) ==
    IF hw.arch = "arm" /\ Configured(0)
    THEN [pmcr |-> 1,
          cntenset |-> ctl.cntenset \cup {i \in 0 .. 2 : Configured(i)},
          ccfiltr |-> 0]
    ELSE ctl

(* ch_local_pmc_save reads selectors 0 .. 3 into local_pmc (see           *)
(* ProgrammedFrom for what else it does); ch_local_pmc_restore writes them *)
(* back.                                                                   *)
PmcSave == pmuSaved' = pmuSel
PmcRestore == pmuSel' = pmuSaved

(* ch_state_put: an atomic decrement; whoever reaches 0 frees the state. *)
Put == refs' = refs - 1 /\ freed' = (refs - 1 = 0)

(* device_open (alloc_ch_state): one reference, nothing started, the      *)
(* channels page zeroed.                                                   *)
Init ==
    /\ control = [c \in Channels |-> IDLE]
    /\ data0 = [c \in Channels |-> 0]
    /\ activeChannel = 0 /\ agentChan = 0
    /\ apc = "none"
    /\ refs = 1 /\ started = FALSE /\ kRegions = <<>> /\ freed = FALSE
    /\ upc = "alloc" /\ order = MaxOrder /\ minSize = MinSize
    /\ uRegions = <<>> /\ uChan = 0 /\ nextChan = 0
    /\ rpc = "none" /\ rChan = 0
    /\ isolation = 0 /\ hw \in Machines /\ cacheInfo = NoCacheInfo
    /\ pmuSel = HostSel /\ pmuSaved = [i \in PmcIndex |-> 0] /\ irqsOff = FALSE
    /\ hostSel = HostSel /\ pmuCtl = HostCtl /\ writeBack = NoWriteBack

-----------------------------------------------------------------------------
(* ioctl ALLOC_MEMORY (ch_state_alloc_memory): alloc_pages, memremap and   *)
(* kmalloc either all succeed and the region is appended to the list, or  *)
(* one fails, what was obtained is given back and nothing is appended.    *)
KernelAllocMemory(ok) ==
    kRegions' = IF ok THEN Append(kRegions, order) ELSE kRegions

(* Mutant: min_size -= size without the std::min.  In size_t the          *)
(* difference wraps; the negative value stands for the wrapped one.       *)
AllocRegionNoMin(ok) ==
    /\ upc = "alloc" /\ KernelAllocMemory(ok)
    /\ IF ok
       THEN LET size == 2^order * PageSize
                left == minSize - size
            IN  /\ uRegions' = Append(uRegions, size)
                /\ minSize' = left
                /\ upc' = IF left = 0 THEN "info" ELSE "alloc"
                /\ UNCHANGED order
       ELSE /\ upc' = IF order = 0 THEN "thrown" ELSE "alloc"
            /\ order' = IF order = 0 THEN order ELSE order - 1
            /\ UNCHANGED <<minSize, uRegions>>
    /\ UNCHANGED <<chanVars, agentVars, refs, started, freed, isolation, hw,
                   cacheInfo, uChan, nextChan, relVars, pmuVars, writeBack>>

(* Mutant: the region is recorded whatever alloc_region returned. *)
AllocRegionRecordsFailure(ok) ==
    /\ upc = "alloc" /\ KernelAllocMemory(ok)
    /\ LET size == 2^order * PageSize
           left == minSize - (IF minSize < size THEN minSize ELSE size)
       IN  /\ uRegions' = Append(uRegions, size)
           /\ minSize' = left
           /\ upc' = IF left = 0 THEN "info" ELSE "alloc"
           /\ UNCHANGED order
    /\ UNCHANGED <<chanVars, agentVars, refs, started, freed, isolation, hw,
                   cacheInfo, uChan, nextChan, relVars, pmuVars, writeBack>>

(* One pass of the constructor's while (min_size) loop: alloc_region;      *)
(* on failure the order is lowered, or at order 0 the constructor throws; *)
(* on success the region of (1 << order) * page_size bytes is recorded    *)
(* and min_size lowered by at most that.  The loop ends at min_size = 0;  *)
(* defragment_regions and the address checker change nothing modelled.    *)
AllocRegion(ok) ==
    /\ upc = "alloc" /\ KernelAllocMemory(ok)
    /\ IF ok
       THEN LET size == 2^order * PageSize
                left == minSize - (IF minSize < size THEN minSize ELSE size)
            IN  /\ uRegions' = Append(uRegions, size)
                /\ minSize' = left
                /\ upc' = IF left = 0 THEN "info" ELSE "alloc"
                /\ UNCHANGED order
       ELSE /\ upc' = IF order = 0 THEN "thrown" ELSE "alloc"
            /\ order' = IF order = 0 THEN order ELSE order - 1
            /\ UNCHANGED <<minSize, uRegions>>
    /\ UNCHANGED <<chanVars, agentVars, refs, started, freed, isolation, hw,
                   cacheInfo, uChan, nextChan, relVars, pmuVars, writeBack>>


(* read_cache_info: ioctl CACHE_INFO. *)
ReadCacheInfo ==
    /\ upc = "info"
    /\ cacheInfo' = CacheInfoIoctl(hw)
    /\ upc' = "start"
    /\ UNCHANGED <<chanVars, stateVars, agentVars, order, minSize, uRegions, hw,
                   uChan, nextChan, relVars, pmuVars, writeBack>>

(* Mutant: the agent is woken without ch_state_get. *)
StartAgentNoGet(cpu, iso) ==
    /\ upc = "start" /\ kRegions # <<>> /\ cpu < NrCpus /\ ~started
    /\ started' = TRUE /\ isolation' = iso
    /\ apc' = "woken" /\ agentChan' = activeChannel
    /\ upc' = "mmap" /\ nextChan' = activeChannel
    /\ UNCHANGED <<chanVars, refs, kRegions, freed, pmuSaved, irqsOff, ctorVars,
                   uChan, relVars, pmuVars, writeBack>>

(* ioctl START_AGENT past its checks (a region exists, cpu < NR_CPUS, the  *)
(* isolation level is valid, ch_state_try_start succeeds): isolation_level *)
(* and evts are stored, the agent is created, bound, given a reference and *)
(* woken; the constructor learns the active channel.                       *)
StartAgent(cpu, iso) ==
    /\ upc = "start" /\ kRegions # <<>> /\ cpu < NrCpus /\ ~started
    /\ started' = TRUE /\ isolation' = iso
    /\ refs' = refs + 1
    /\ apc' = "woken" /\ agentChan' = activeChannel
    /\ upc' = "mmap" /\ nextChan' = activeChannel
    /\ UNCHANGED <<chanVars, kRegions, freed, pmuSaved, irqsOff, ctorVars,
                   uChan, relVars, pmuVars, writeBack>>

(* START_AGENT answers -EINVAL for a cpu >= NR_CPUS and start_agent throws: *)
(* the constructor's catch closes the file.                                 *)
StartAgentRejected(cpu) ==
    /\ upc = "start" /\ cpu >= NrCpus
    /\ upc' = "thrown"
    /\ UNCHANGED <<chanVars, stateVars, agentVars, ctorVars, uChan, nextChan,
                   relVars, pmuVars, writeBack>>

(* mmap_channels: device_mmap maps the channels page (remap_pfn_range may  *)
(* fail with -EIO, and the constructor throws); the constructor then takes *)
(* active_channel from START_AGENT's answer.                               *)
MmapChannels(ok) ==
    /\ upc = "mmap"
    /\ upc' = IF ok THEN "idle" ELSE "thrown"
    /\ uChan' = nextChan
    /\ UNCHANGED <<chanVars, stateVars, agentVars, ctorVars, nextChan, relVars, pmuVars, writeBack>>

(* A batch of count accesses on the user's channel. *)
UserAccess(count) ==
    /\ upc = "idle"
    /\ SetAccess(uChan, count)
    /\ upc' = "wait" /\ nextChan' = uChan
    /\ UNCHANGED <<data0, activeChannel, stateVars, agentVars, ctorVars, uChan,
                   relVars, pmuVars, writeBack>>

(* switch_channel(to): data[0] names the new channel, then the switch      *)
(* request; the user moves to the new channel once the old one is IDLE.    *)
(* The target is another channel: the agent reads data[0] after it has     *)
(* stored IDLE, so a switch to the same channel would race the user's next *)
(* request for data[0].                                                     *)
UserSwitch(to) ==
    /\ upc = "idle"
    /\ to # uChan
    /\ data0' = [data0 EXCEPT ![uChan] = to]
    /\ SetAccess(uChan, SwitchCount)
    /\ upc' = "wait" /\ nextChan' = to
    /\ UNCHANGED <<activeChannel, stateVars, agentVars, ctorVars, uChan, relVars, pmuVars, writeBack>>

(* wbinvd(), a member of the x86 build only. *)
UserWbinvd ==
    /\ upc = "idle" /\ hw.arch = "x86"
    /\ SetAccess(uChan, WbinvdCount)
    /\ upc' = "wait" /\ nextChan' = uChan
    /\ UNCHANGED <<data0, activeChannel, stateVars, agentVars, ctorVars, uChan,
                   relVars, pmuVars, writeBack>>

(* ch_channel_wait_for_idle returns: _ch_channel_read_control sees bit 0   *)
(* clear.                                                                   *)
UserSeesIdle ==
    /\ upc = "wait"
    /\ control[uChan] % 2 = IDLE
    /\ upc' = "idle" /\ uChan' = nextChan
    /\ UNCHANGED <<chanVars, stateVars, agentVars, ctorVars, nextChan, relVars, pmuVars, writeBack>>

-----------------------------------------------------------------------------
(* The agent at .retry has read a nonzero control word of its channel;    *)
(* Req is count = control >> 1.                                            *)
Req == control[agentChan] \div 2
AgentReads == apc = "poll" /\ control[agentChan] # IDLE

(* Mutant: local_irq_save only above CH_ISOLATION_DISABLE_IRQ. *)
AgentStartIrqAbove ==
    /\ apc = "woken"
    /\ irqsOff' = (isolation > 2)
    /\ PmcSave /\ pmuSel' = ProgrammedFrom(pmuSel)
    /\ pmuCtl' = ArmControlFrom(pmuCtl)
    /\ apc' = "poll"
    /\ UNCHANGED <<chanVars, stateVars, agentChan, ctorVars, userVars, relVars,
                   hostSel, writeBack>>

(* The agent's prologue: get_cpu, then preempt_disable from                *)
(* CH_ISOLATION_NO_PREEMPT and local_irq_save from CH_ISOLATION_DISABLE_IRQ *)
(* on; ch_local_pmc_save keeps selectors 0 .. 3, and counters 0 .. 2 are   *)
(* programmed with evts up to the first zero.                              *)
AgentStart ==
    /\ apc = "woken"
    /\ irqsOff' = (isolation >= 2)
    /\ PmcSave /\ pmuSel' = ProgrammedFrom(pmuSel)
    /\ pmuCtl' = ArmControlFrom(pmuCtl)
    /\ apc' = "poll"
    /\ UNCHANGED <<chanVars, stateVars, agentChan, ctorVars, userVars, relVars,
                   hostSel, writeBack>>

(* count = 0: leave the loop; the epilogue writes local_pmc back, then     *)
(* local_irq_restore, preempt_enable and put_cpu, and puts the state.      *)
AgentExit ==
    /\ AgentReads /\ Req = 0
    /\ apc' = "exited"
    /\ PmcRestore /\ irqsOff' = FALSE
    /\ Put
    /\ UNCHANGED <<chanVars, started, kRegions, isolation, agentChan, pmuSaved,
                   ctorVars, userVars, relVars, hostSel, pmuCtl, writeBack>>

(* count >> 4 # 0: wbinvd, then IDLE. *)
AgentWbinvd ==
    /\ AgentReads /\ Req \div 16 # 0
    /\ control' = [control EXCEPT ![agentChan] = IDLE]
    /\ UNCHANGED <<data0, activeChannel, stateVars, agentVars, ctorVars,
                   userVars, relVars, pmuVars, writeBack>>

(* Mutant: the switched-out channel is left in ACCESS. *)
AgentSwitchOutNoIdle ==
    /\ AgentReads /\ Req \div 16 = 0 /\ Req \div 8 # 0
    /\ apc' = "switch"
    /\ UNCHANGED <<chanVars, stateVars, agentChan, pmuSaved, irqsOff, ctorVars, userVars, relVars, pmuVars, writeBack>>

(* count >> 3 # 0: the switched-out channel is put into IDLE first. *)
AgentSwitchOut ==
    /\ AgentReads /\ Req \div 16 = 0 /\ Req \div 8 # 0
    /\ control' = [control EXCEPT ![agentChan] = IDLE]
    /\ apc' = "switch"
    /\ UNCHANGED <<data0, activeChannel, stateVars, agentChan, pmuSaved, irqsOff, ctorVars,
                   userVars, relVars, pmuVars, writeBack>>

(* ... then data[0] of that channel is read, stored to active_channel and *)
(* channel_ptr recomputed.                                                 *)
AgentSwitchIn ==
    /\ apc = "switch"
    /\ activeChannel' = data0[agentChan]
    /\ agentChan' = data0[agentChan]
    /\ apc' = "poll"
    /\ UNCHANGED <<control, data0, stateVars, pmuSaved, irqsOff, ctorVars, userVars,
                   relVars, pmuVars, writeBack>>

(* count in 1 .. 7: count - 1 plain entries, then the instrumented one:   *)
(* counters 0, 1, 2 read, the entry performed, the counters read again,    *)
(* the six values written back to data[0 .. 5], then IDLE.  An entry is a *)
(* load (served at some level, Len(hw.caches) being memory) or, by its top *)
(* bits, a clflush on x86 and DC CSW, ISW or CISW on arm64; for those the  *)
(* arm64 loop skips the reads and the write-back.  With interrupts on, a   *)
(* handler's loads may fall between the reads and count too.               *)
Levels == 0 .. Len(hw.caches)
(* An arm64 event counter counts only while PMCR_EL0.E is set and its bit *)
(* of PMCNTENSET_EL0 is; an x86 selector carries its own enable bit.      *)
Counting(i) == hw.arch = "x86" \/ (pmuCtl.pmcr % 2 = 1 /\ i \in pmuCtl.cntenset)
Count(i, level) == IF Counting(i) /\ EventCounts(hw, pmuSel[i], level) THEN 1 ELSE 0
IrqLoads == IF irqsOff THEN {{}} ELSE {{}} \cup {{l} : l \in Levels}
Measured(loads, irq) == [i \in 0 .. 2 |->
    Cardinality({l \in loads : Count(i, l) = 1})
    + Cardinality({l \in irq : Count(i, l) = 1})]
InstrumentedWriteBack(load, served, irq) ==
    CASE load -> [load |-> TRUE, served |-> served, irqsOff |-> irqsOff,
                  after |-> Measured({served}, irq)]
      [] hw.arch = "x86" -> [load |-> FALSE, served |-> Uninit,
                             irqsOff |-> irqsOff, after |-> Measured({}, irq)]
      [] OTHER -> writeBack
AgentAccess ==
    /\ AgentReads /\ Req \in 1 .. 7
    /\ \E load \in BOOLEAN, served \in Levels, irq \in IrqLoads :
          writeBack' = InstrumentedWriteBack(load, served, irq)
    /\ control' = [control EXCEPT ![agentChan] = IDLE]
    /\ UNCHANGED <<data0, activeChannel, stateVars, agentVars, ctorVars,
                   userVars, relVars, pmuVars>>

(* Another PMU user on the agent's CPU (perf's event rotation from its     *)
(* timer interrupt, an IPI installing an event) writes a selector.  It     *)
(* runs whenever that CPU takes interrupts.                                *)
HostReprogram(i) ==
    /\ ~irqsOff
    /\ hostSel[i] # HostEvt
    /\ pmuSel' = [pmuSel EXCEPT ![i] = HostEvt]
    /\ hostSel' = [hostSel EXCEPT ![i] = HostEvt]
    /\ UNCHANGED <<chanVars, stateVars, agentVars, ctorVars, userVars, relVars,
                   pmuCtl, writeBack>>

-----------------------------------------------------------------------------
(* The file's last reference is dropped (close, or the process dies with  *)
(* the mapping and the descriptor): device_release reads started and, if   *)
(* set, the active channel to terminate.                                   *)
Release ==
    /\ upc # "closed"
    /\ upc' = "closed"
    /\ rpc' = IF started THEN "term" ELSE "put"
    /\ rChan' = activeChannel
    /\ UNCHANGED <<chanVars, stateVars, agentVars, ctorVars, uChan, nextChan, pmuVars, writeBack>>

(* _ch_channel_terminate: the cmpxchg IDLE -> ACCESS (count 0) succeeds;  *)
(* until then it spins.                                                    *)
ReleaseTerminate ==
    /\ rpc = "term"
    /\ control[rChan] = IDLE
    /\ control' = [control EXCEPT ![rChan] = ACCESS]
    /\ rpc' = "put"
    /\ UNCHANGED <<data0, activeChannel, stateVars, agentVars, ctorVars,
                   userVars, rChan, pmuVars, writeBack>>

(* device_release's ch_state_put. *)
ReleasePut ==
    /\ rpc = "put"
    /\ Put
    /\ rpc' = "done"
    /\ UNCHANGED <<chanVars, started, kRegions, isolation, agentVars, ctorVars, userVars,
                   rChan, pmuVars, writeBack>>

-----------------------------------------------------------------------------
UserNext ==
    \/ \E ok \in BOOLEAN : AllocRegion(ok)
    \/ ReadCacheInfo
    \/ \E cpu \in Cpus : \/ \E iso \in Isolations : StartAgent(cpu, iso)
                         \/ StartAgentRejected(cpu)
    \/ \E ok \in BOOLEAN : MmapChannels(ok)
    \/ \E n \in Counts : UserAccess(n)
    \/ \E to \in Channels : UserSwitch(to)
    \/ UserWbinvd \/ UserSeesIdle \/ Release

AgentNext ==
    AgentStart \/ AgentExit \/ AgentWbinvd \/ AgentSwitchOut \/ AgentSwitchIn \/ AgentAccess

ReleaseNext == ReleaseTerminate \/ ReleasePut

Next == UserNext \/ AgentNext \/ ReleaseNext \/ \E i \in HostCounters : HostReprogram(i)

(* The agent spins on its own CPU and device_release's cmpxchg loop        *)
(* retries without end: both are weakly fair.  The user process is not.    *)
Spec == Init /\ [][Next]_vars /\ WF_vars(AgentNext) /\ WF_vars(ReleaseNext)

-----------------------------------------------------------------------------
TypeOK ==
    /\ control \in [Channels -> Nat]
    /\ data0 \in [Channels -> Channels]
    /\ activeChannel \in Channels /\ agentChan \in Channels
    /\ apc \in {"none", "woken", "poll", "switch", "exited"}
    /\ refs \in 0 .. 2
    /\ {started, freed} \subseteq BOOLEAN
    /\ kRegions \in Seq(0 .. MaxOrder) /\ uRegions \in Seq(Nat)
    /\ order \in 0 .. MaxOrder /\ minSize \in 0 .. MinSize
    /\ upc \in {"alloc", "info", "start", "mmap", "thrown", "idle", "wait", "closed"}
    /\ uChan \in Channels /\ nextChan \in Channels
    /\ rpc \in {"none", "term", "put", "done"} /\ rChan \in Channels
    /\ isolation \in 0 .. 2 /\ hw \in Machines /\ irqsOff \in BOOLEAN
    /\ {pmuSel, pmuSaved, hostSel} \subseteq [PmcIndex -> Nat]
    /\ pmuCtl \in [pmcr : Nat, cntenset : SUBSET PmcIndex, ccfiltr : Nat]
    /\ writeBack.after \in [0 .. 2 -> 0 .. 2]

(* ch_state_free runs only when neither the agent nor device_release can  *)
(* still touch the state or the channels page: the agent has left its loop *)
(* (or never ran) and device_release has returned.                         *)
NoUseAfterFree ==
    freed => apc \in {"none", "exited"} /\ rpc = "done"

(* The constructor's regions_ and the kernel's region list stay in step   *)
(* through failed and successful allocations: the same regions in the same *)
(* order, each of (1 << order) * page_size bytes; min_size is what they    *)
(* still leave uncovered, and the loop stops at the first region that      *)
(* covers it, so the regions but the last fall short of min_size.          *)
Bytes(sizes) == FoldLeft(LAMBDA x, y : x + y, 0, sizes)
AllocationMatches ==
    /\ Len(uRegions) = Len(kRegions)
    /\ \A i \in 1 .. Len(uRegions) : uRegions[i] = 2^kRegions[i] * PageSize
    /\ minSize = IF Bytes(uRegions) >= MinSize THEN 0
                 ELSE MinSize - Bytes(uRegions)
    /\ uRegions # <<>> => Bytes(Front(uRegions)) < MinSize

(* The cache geometry the constructor reads with CACHE_INFO is the         *)
(* machine's: ch_cache_levels, ch_dcache_sets and ch_dcache_ways decode    *)
(* CPUID leaf 4 into the number of levels and, for each level, the sets   *)
(* and ways of its data or unified cache.                                  *)
CacheInfoDecoded ==
    cacheInfo # NoCacheInfo =>
        /\ cacheInfo.levels = Len(hw.caches)
        /\ \A l \in 1 .. Len(hw.caches) :
              /\ cacheInfo.sets[l - 1] = hw.caches[l].sets
              /\ cacheInfo.ways[l - 1] = hw.caches[l].ways

(* While the agent runs with interrupts off, selectors 0 .. 3 hold exactly *)
(* the events it programmed; and the host's PMU users find their own event *)
(* selectors in place before the agent starts and after an agent that ran *)
(* at CH_ISOLATION_DISABLE_IRQ has restored local_pmc.  The selectors only: *)
(* on arm64 the PMCR_EL0, PMCNTENSET_EL0 and PMCCFILTR_EL0 that configure  *)
(* wrote stay as it left them (ArmControlFrom), since local_pmc holds none *)
(* of them.                                                                *)
PmuOwnership ==
    /\ irqsOff => pmuSel = ProgrammedFrom(pmuSaved)
    /\ \/ apc \in {"none", "woken"}
       \/ apc = "exited" /\ isolation = 2
       => pmuSel = hostSel

(* An instrumented load the agent measured with interrupts off is         *)
(* classified by the --pmu handler as the level that served it, or as     *)
(* beyond the levels the handler's events tell apart.                      *)
Reported(served) ==
    IF served < Len(hw.caches) /\ served < Covered(hw.pmu) THEN served
    ELSE Covered(hw.pmu)
MeasurementCorrect ==
    writeBack.load /\ writeBack.irqsOff =>
        PmuHandler(hw.pmu, Zeros, writeBack.after) = Reported(writeBack.served)

(* Every request the user writes (a batch, a switch or a wbinvd) is       *)
(* eventually answered with IDLE on that channel, whatever the user does   *)
(* next, so ch_channel_wait_for_idle returns.                              *)
Requested(c) == control[c] % 2 = ACCESS /\ control[c] \div 2 # 0
RequestsAnswered ==
    \A c \in Channels : Requested(c) ~> control[c] = IDLE

(* Once the file is released, the agent leaves its loop and both          *)
(* references are dropped: the state and its pages are freed.             *)
ReleaseFreesState == rpc # "none" ~> freed
====
