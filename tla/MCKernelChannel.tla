--------------------------- MODULE MCKernelChannel ---------------------------
(***************************************************************************)
(* The machines and PMU configuration KernelChannel is checked with.      *)
(***************************************************************************)
EXTENDS KernelChannel, TLC

(* A CPUID leaf 4 descriptor as Intel parts report it: type in EAX[4:0],   *)
(* level in EAX[7:5], the self-initialising bit 8, threads sharing the     *)
(* cache - 1 in EAX[25:14]; ways - 1 in EBX[31:22], line size - 1 (63) in   *)
(* EBX[11:0]; sets - 1 in ECX.  Type 1 is data, 2 instruction, 3 unified. *)
Leaf(type, level, sets, ways, sharing) ==
    [eax |-> type + 32 * level + 256 + 2^14 * (sharing - 1),
     ebx |-> 2^22 * (ways - 1) + 63,
     ecx |-> sets - 1]

(* CCSIDR_EL1 without FEAT_CCIDX: log2(line bytes) - 4 in [2:0], ways - 1 *)
(* in [12:3], sets - 1 in [27:13].  CLIDR_EL1 Ctype 3 is separate I and D *)
(* caches, 4 a unified one.                                                *)
Ccsidr(lineLog, sets, ways) == (lineLog - 4) + 8 * (ways - 1) + 2^13 * (sets - 1)
Clidr(ctypes) == FoldLeft(LAMBDA acc, t : acc * 8 + t, 0, Reverse(ctypes))

(* A client part with L1d, L1i, L2 and a shared L3, a part without L3     *)
(* whose 24 KiB L1d has 6 ways, and the AMD Zen 2 test system, whose      *)
(* geometry ch_cache_info.h hard-codes; a Raspberry Pi 5 (Cortex-A76: 64 *)
(* KiB 4-way L1d, 512 KiB 8-way L2, 2 MiB 16-way L3, 64-byte lines) and an *)
(* A64FX (64 KiB 4-way L1d, 8 MiB 16-way L2, 256-byte lines).              *)
X86(intel, pmu, leaves, caches) ==
    [arch |-> "x86", intel |-> intel, pmu |-> pmu, leaves |-> leaves,
     clidr |-> 0, ccsidr |-> << >>, caches |-> caches]
Arm(pmu, lineLog, caches) ==
    [arch |-> "arm", intel |-> FALSE, pmu |-> pmu, leaves |-> << >>,
     clidr |-> Clidr(<<3>> \o [l \in 1 .. Len(caches) - 1 |-> 4]),
     ccsidr |-> [l \in 1 .. Len(caches) |->
                   Ccsidr(lineLog, caches[l].sets, caches[l].ways)],
     caches |-> caches]
MCMachines ==
    { X86(TRUE, "intel",
          << Leaf(1, 1, 64, 8, 2), Leaf(2, 1, 64, 8, 2),
             Leaf(3, 2, 1024, 4, 2), Leaf(3, 3, 8192, 16, 16) >>,
          << [sets |-> 64, ways |-> 8], [sets |-> 1024, ways |-> 4],
             [sets |-> 8192, ways |-> 16] >>),
      X86(TRUE, "intel",
          << Leaf(1, 1, 64, 6, 1), Leaf(2, 1, 64, 8, 1), Leaf(3, 2, 1024, 16, 4) >>,
          << [sets |-> 64, ways |-> 6], [sets |-> 1024, ways |-> 16] >>),
      X86(FALSE, "amd-zen2", << >>,
          << [sets |-> 64, ways |-> 8], [sets |-> 1024, ways |-> 8],
             [sets |-> 16384, ways |-> 16] >>),
      Arm("rpi5", 6,
          << [sets |-> 256, ways |-> 4], [sets |-> 1024, ways |-> 8],
             [sets |-> 2048, ways |-> 16] >>),
      Arm("a64fx", 8,
          << [sets |-> 64, ways |-> 4], [sets |-> 2048, ways |-> 16] >>) }

(* What the programmed events count: an enabled selector with event 0xD1  *)
(* (MEM_LOAD_RETIRED) counts a load served by the L1, L2 or L3 for unit   *)
(* mask 1, 2, 4; on AMD, event 0x60 with mask 0xC8 counts L1D misses and  *)
(* event 0x64 with mask 0x40 L2 hits; event 0xC0 (instructions retired)   *)
(* counts every access.  On arm64 a type counts event number type[9:0]:   *)
(* the L1D refills 0x42 and 0x03 a load the L1 missed, the L2 refills     *)
(* 0x52 and 0x17 one the L2 missed, the L3 refill 0x2A one the L3 missed. *)
(* Level Len(m.caches) is memory.                                          *)
MCEventCounts(m, sel, level) ==
    LET eventSelect == sel % 256
        unitMask == (sel \div 256) % 256
        enabled == (sel \div 2^22) % 2 = 1
        armEvent == sel % 1024
    IN  IF m.arch = "arm"
        THEN \/ armEvent \in {66, 3} /\ level >= 1
             \/ armEvent \in {82, 23} /\ level >= 2
             \/ armEvent = 42 /\ level >= 3
        ELSE
        /\ enabled
        /\ \/ eventSelect = 192
           \/ m.intel /\ eventSelect = 209 /\ level < Len(m.caches)
                     /\ unitMask = 2^level
           \/ ~m.intel /\ eventSelect = 96 /\ unitMask = 200 /\ level >= 1
           \/ ~m.intel /\ eventSelect = 100 /\ unitMask = 64 /\ level = 1

(* Another PMU user counts instructions retired; the host had an event    *)
(* on selector 3, which the agent does not program.                       *)
MCHostEvt == X86PmuEvent(192, 0, 0, FALSE)
MCHostSel == (0 :> 0 @@ 1 :> 0 @@ 2 :> 0 @@ 3 :> 7)

(* On arm64 the host's perf has the PMU enabled with long cycle counting  *)
(* (PMCR_EL0.E and .LC, 0x41), only counter 3 enabled, and the cycle       *)
(* counter filtered to EL2 (PMCCFILTR_EL0.NSH, bit 27).                    *)
MCHostCtl == [pmcr |-> 65, cntenset |-> {3}, ccfiltr |-> 2^27]
=============================================================================
