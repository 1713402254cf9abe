--------------------- MODULE MCAffinePlacementReverser ---------------------
(***************************************************************************)
(* Eight lines of two bytes (offset bits 1), four sets (index bits 2).     *)
(* Three bits of line address let the reverser keep up to four addresses,  *)
(* so reversed_bits ends at 2 or 3 depending on the order of the draws.    *)
(* locate_set's labels are the modular index, a hash that XORs line bit 2  *)
(* into bit 0 and translates by 2 (affine only in three bits), or a       *)
(* labelling that is not affine at all.  locate_set answers nullopt for    *)
(* one line, and six mappings are asked for out of the seven it maps.      *)
(***************************************************************************)
EXTENDS AffinePlacementReverser

MCMemory == {2 * l : l \in 0 .. 7}

MCPlacements ==
    { [a \in MCMemory |-> (a \div 2) % 4],
      [a \in MCMemory |-> (((a \div 2) % 4) ^^ (a \div 8)) ^^ 2],
      [a \in MCMemory |-> ((a \div 2) % 2) * ((a \div 4) % 2) + 2 * (a \div 8)] }

MCUnlocated == {10}
=============================================================================
