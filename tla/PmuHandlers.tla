---------------------------- MODULE PmuHandlers ----------------------------
(***************************************************************************)
(* The x86 PMU configurations of the reverse command                       *)
(* (cli/commands/impl/reverse_command.hpp, parse_arguments): the events    *)
(* --pmu programs, encoded as IA32_PERFEVTSELx / PerfEvtSel values, and    *)
(* the handler that turns the counters read before and after the          *)
(* instrumented access into the level that served it.  The x86 events are  *)
(* encoded as IA32_PERFEVTSELx / PerfEvtSel values; the arm64 ones (rpi5,  *)
(* a64fx) are PMU event numbers.                                           *)
(***************************************************************************)
EXTENDS Naturals, Sequences

(* add_x86_pmu_event: event select in bits 7:0, unit mask in 15:8, USR     *)
(* (16) and OS (17) set, edge detect in 18, EN (22) set, counter mask in   *)
(* 31:24.  The fields do not overlap, so the ORs are sums.                 *)
X86PmuEvent(eventSelect, unitMask, counterMask, edgeDetect) ==
    eventSelect + unitMask * 2^8 + 2^16 + 2^17
    + (IF edgeDetect THEN 2^18 ELSE 0) + 2^22 + counterMask * 2^24

(* pmu_events_ for --pmu intel (MEM_LOAD_RETIRED.L1_HIT, .L2_HIT,          *)
(* .L3_HIT), amd-zen2 (L1D misses, L2 hits), rpi5 (L1D_CACHE_REFILL_RD,    *)
(* L2D_CACHE_REFILL_RD, L3D_CACHE_REFILL) and a64fx (L1D_CACHE_REFILL,     *)
(* L2D_CACHE_REFILL).                                                      *)
PmuEvents(pmu) ==
    CASE pmu = "intel" -> << X86PmuEvent(209, 1, 0, TRUE), X86PmuEvent(209, 2, 0, TRUE),
                             X86PmuEvent(209, 4, 0, TRUE) >>
      [] pmu = "amd-zen2" -> << X86PmuEvent(96, 200, 0, FALSE),
                                X86PmuEvent(100, 64, 0, FALSE) >>
      [] pmu = "rpi5" -> << 66, 82, 42 >>
      [] OTHER -> << 3, 23 >>

(* The levels a handler tells apart: it answers this number for anything  *)
(* served from beyond them (intel, rpi5: memory; amd-zen2: the L3 or       *)
(* memory; a64fx, which has two levels: memory).                           *)
Covered(pmu) == IF pmu \in {"intel", "rpi5"} THEN 3 ELSE 2

(* pmu_handler_: the counter differences after - before decide the level *)
(* (the 48-bit counters are taken not to wrap within an access): the      *)
(* first hit counter in order for intel; for amd-zen2 no L1D miss is an   *)
(* L1 hit and an L2 hit is level 1; rpi5 and a64fx take the deepest level *)
(* that missed, and answer the level below it.                             *)
PmuHandler(pmu, before, after) ==
    LET d(i) == after[i] - before[i]
    IN  CASE pmu = "intel" ->
               CASE d(0) # 0 -> 0 [] d(1) # 0 -> 1 [] d(2) # 0 -> 2 [] OTHER -> 3
          [] pmu = "amd-zen2" ->
               CASE d(0) = 0 -> 0 [] d(1) # 0 -> 1 [] OTHER -> 2
          [] pmu = "rpi5" ->
               CASE d(2) # 0 -> 3 [] d(1) # 0 -> 2 [] d(0) # 0 -> 1 [] OTHER -> 0
          [] OTHER ->
               CASE d(1) # 0 -> 2 [] d(0) # 0 -> 1 [] OTHER -> 0
=============================================================================
