------------------------ MODULE MCEvictionSetCatalog ------------------------
(***************************************************************************)
(* Two L1 sets of two ways, and eight lines, four per set under either     *)
(* placement: an eviction set with its target takes three lines of its    *)
(* set, so every set keeps a line the driver later locates, and find's     *)
(* sizes 2, 3, 4 and 6 all fit in the seven lines other than a target.     *)
(* reverse_placement probes three lines, of both sets under either         *)
(* placement.  The cache is either modular or hashed like                  *)
(* make_a64fx_placement_policy, whose index XORs address bits into the     *)
(* modular index: here bit 1 into bit 0, so each set holds lines of both   *)
(* modular indices, and the set-cycling draws also meet sets the catalog   *)
(* already covers.                                                         *)
(***************************************************************************)
EXTENDS EvictionSetCatalog

MCAddresses == 0 .. 7
MCPlacements == {[a \in MCAddresses |-> a % 2],
                 [a \in MCAddresses |-> (a + a \div 2) % 2]}
MCProbes == {0, 1, 2}
=============================================================================
