------------------------ MODULE MCReplacementPolicy ------------------------
(***************************************************************************)
(* Catalog instances for model checking.  Four ways is the smallest tree  *)
(* of height two and lets SRRIP age its entries through all four values;  *)
(* eight ways is the smallest associativity with an LRU_PLRU hybrid        *)
(* (two LRU groups of 4-way PLRU).                                         *)
(***************************************************************************)
EXTENDS ReplacementPolicy

(* The policies that rotate or walk a tree: LRU, FIFO and PLRU.           *)
MCRecencyConfigs == {<<"FIFO", 4>>, <<"LRU", 4>>, <<"PLRU", 4>>, <<"PLRU", 8>>}

(* The policies that guard the choice of an empty way.                    *)
MCColdFillConfigs == {<<"FIFO", 4>>, <<"LRU", 4>>, <<"SRRIP", 4>>, <<"NRU", 4>>,
                      <<"LRU_PLRU4", 8>>}

(* The policies that promote the way hit last.                            *)
MCHitConfigs == {<<"LRU", 4>>, <<"PLRU", 8>>, <<"LRU_PLRU4", 8>>}

(* Every configuration above, each checked against the contracts it has. *)
MCConfigs == MCRecencyConfigs \cup MCColdFillConfigs \cup MCHitConfigs

=============================================================================
