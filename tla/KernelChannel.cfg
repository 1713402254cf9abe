\* Two channels (so a switch changes the agent's channel) and the longest
\* batch, seven accesses, whose last is the instrumented one.  The system stops once the file is released and the
\* state freed, or with the agent left spinning (see
\* KernelChannel_release.cfg): deadlock is not an error.
CONSTANTS
    Channels = {0, 1}
    Counts = {7}
    MinSize = 5
    PageSize = 2
    MaxOrder = 1
    Cpus = {0, 2}
    NrCpus = 2
    IsolationArgs = {"no-preempt", "disable-irq"}
    EventCounts <- MCEventCounts
    Machines <- MCMachines
    HostSel <- MCHostSel
    HostEvt <- MCHostEvt
    HostCtl <- MCHostCtl
    Uninit = Uninit
    HostCounters = {0, 3}
SPECIFICATION Spec
INVARIANTS TypeOK NoUseAfterFree AllocationMatches CacheInfoDecoded PmuOwnership MeasurementCorrect
PROPERTIES RequestsAnswered
CHECK_DEADLOCK FALSE
