----------------------------- MODULE CacheInfo -----------------------------
(***************************************************************************)
(* The x86 cache geometry the kernel module reports (kernel/ch_cache_info.h *)
(* on x86).  Other vendors get three levels of hard-coded geometry.  On    *)
(* Intel, CPUID leaf 4 is read subleaf by subleaf until a cache type   *)
(* of 0, and each descriptor gives the cache type in EAX[3:0], its level   *)
(* in EAX[7:5], ways - 1 in EBX[31:22] and sets - 1 in ECX.  A table of    *)
(* subleaves is a sequence of [eax, ebx, ecx] records; past its end CPUID  *)
(* answers zeros, the null descriptor.  On arm64 the levels come from      *)
(* CLIDR_EL1 and the geometry of the data or unified cache of level l + 1 *)
(* from CCSIDR_EL1 after CSSELR_EL1 = l << 1; a machine's ccsidr is the    *)
(* sequence of those registers, level 1 first.                              *)
(***************************************************************************)
EXTENDS Naturals, Sequences

NullLeaf == [eax |-> 0, ebx |-> 0, ecx |-> 0]

(* cpuid with EAX = 4, ECX = i. *)
Cpuid4(hw, i) == IF i < Len(hw) THEN hw[i + 1] ELSE NullLeaf

LeafType(leaf) == leaf.eax % 16                  \* eax & 0b1111
LeafLevel(leaf) == (leaf.eax \div 32) % 8        \* (eax >> 5) & 0b111
LeafWays(leaf) == ((leaf.ebx \div 2^22) % 1024) + 1 \* ((ebx >> 22) & 0x3ff) + 1
LeafSets(leaf) == leaf.ecx + 1

(* ch_cache_levels on Intel: the level of the last descriptor before the  *)
(* null one.                                                               *)
RECURSIVE LevelsFrom(_, _, _)
LevelsFrom(hw, i, levels) ==
    IF LeafType(Cpuid4(hw, i)) = 0 THEN levels
    ELSE LevelsFrom(hw, i + 1, LeafLevel(Cpuid4(hw, i)))

ChCacheLevels(intel, hw) == IF intel THEN LevelsFrom(hw, 0, 0) ELSE 3

(* ch_dcache_sets and ch_dcache_ways: the first descriptor of level + 1  *)
(* that is not an instruction cache (type 2), or 0 if there is none.     *)
RECURSIVE DcacheLeaf(_, _, _)

(* Mutant: the descriptor's level compared with level, not level + 1. *)
DcacheLeafSameLevel(hw, level, i) ==
    LET leaf == Cpuid4(hw, i)
    IN  IF LeafType(leaf) = 0 THEN NullLeaf
        ELSE IF LeafType(leaf) = 2 \/ LeafLevel(leaf) # level
             THEN DcacheLeaf(hw, level, i + 1)
             ELSE leaf

DcacheLeaf(hw, level, i) ==
    LET leaf == Cpuid4(hw, i)
    IN  IF LeafType(leaf) = 0 THEN NullLeaf
        ELSE IF LeafType(leaf) = 2 \/ LeafLevel(leaf) # level + 1
             THEN DcacheLeaf(hw, level, i + 1)
             ELSE leaf

(* Elsewhere the geometry of "the test system" (an AMD Zen 2 part). *)
AmdSets == <<64, 1024, 16384>>
AmdWays == <<8, 8, 16>>

ChDcacheSets(intel, hw, level) ==
    LET leaf == DcacheLeaf(hw, level, 0)
    IN  CASE intel /\ LeafType(leaf) # 0 -> LeafSets(leaf)
          [] ~intel /\ level < 3          -> AmdSets[level + 1]
          [] OTHER                        -> 0

ChDcacheWays(intel, hw, level) ==
    LET leaf == DcacheLeaf(hw, level, 0)
    IN  CASE intel /\ LeafType(leaf) # 0 -> LeafWays(leaf)
          [] ~intel /\ level < 3          -> AmdWays[level + 1]
          [] OTHER                        -> 0

ChCacheOffsetBits == 6

(* arm64 ch_cache_levels: count the 3-bit Ctype fields of CLIDR_EL1 up to *)
(* the first zero, at most 7.                                             *)
RECURSIVE ArmLevelsFrom(_, _)
ArmLevelsFrom(clidr, levels) ==
    IF levels < 7 /\ (clidr \div 2^(3 * levels)) % 8 # 0
    THEN ArmLevelsFrom(clidr, levels + 1)
    ELSE levels

(* arm64 ch_cache_offset_bits: (ccsidr & 0b11) + 4 for the level 1 cache.  *)
(* LineSize is CCSIDR_EL1[2:0], log2(line bytes) - 4; the mask keeps two  *)
(* of its three bits.                                                      *)
ArmOffsetBits(ccsidr) == (ccsidr[1] % 4) + 4

(* arm64 ch_dcache_sets: NumSets - 1 in CCSIDR_EL1[27:13]; ch_dcache_ways: *)
(* ((ccsidr >> 3) & ((1 << 9) - 1)) + 1, nine bits of Associativity - 1.   *)
ArmSets(ccsidr, level) == ((ccsidr[level + 1] \div 2^13) % 2^15) + 1
ArmWays(ccsidr, level) == ((ccsidr[level + 1] \div 8) % 2^9) + 1

(* ioctl CACHE_INFO fills a struct ch_ioc_cache_info on the stack: levels, *)
(* offset_bits, and sets[l], ways[l] for l < levels.  The arrays hold three *)
(* entries; entries the loop does not write keep whatever the stack held.  *)
CONSTANT Uninit   \* a value the stack held: a model value

(* m is a machine [arch, intel, leaves, clidr, ccsidr].                   *)
CacheInfoIoctl(m) ==
    LET arm == m.arch = "arm"
        levels == IF arm THEN ArmLevelsFrom(m.clidr, 0)
                  ELSE ChCacheLevels(m.intel, m.leaves)
        Fill(Decode(_)) == [l \in 0 .. 2 |-> IF l < levels THEN Decode(l) ELSE Uninit]
    IN  [levels |-> levels,
         offset_bits |-> IF arm THEN ArmOffsetBits(m.ccsidr) ELSE ChCacheOffsetBits,
         sets |-> Fill(LAMBDA l : IF arm THEN ArmSets(m.ccsidr, l)
                                  ELSE ChDcacheSets(m.intel, m.leaves, l)),
         ways |-> Fill(LAMBDA l : IF arm THEN ArmWays(m.ccsidr, l)
                                  ELSE ChDcacheWays(m.intel, m.leaves, l))]
=============================================================================
