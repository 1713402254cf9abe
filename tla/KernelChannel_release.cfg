\* device_release terminates the channel state->active_channel names,
\* which the agent updates only after it has put the old channel into IDLE.
CONSTANTS
    Channels = {0, 1}
    Counts = {1}
    MinSize = 5
    PageSize = 2
    MaxOrder = 1
    Cpus = {0, 2}
    NrCpus = 2
    IsolationArgs = {"no-preempt", "disable-irq"}
    EventCounts <- MCEventCounts
    Machines <- MCMachines
    HostSel <- MCHostSel
    HostEvt <- MCHostEvt
    HostCtl <- MCHostCtl
    Uninit = Uninit
    HostCounters = {0, 3}
SPECIFICATION Spec
PROPERTIES ReleaseFreesState
CHECK_DEADLOCK FALSE
