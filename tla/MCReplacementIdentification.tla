-------------------- MODULE MCReplacementIdentification --------------------
(***************************************************************************)
(* Two ways: the catalog is FIFO, LRU, PLRU, PLRUl and SRRIP and the      *)
(* window four addresses.  Length five is the shortest that tells FIFO,   *)
(* LRU and SRRIP apart (at two ways LRU, PLRU and PLRUl coincide).  Three *)
(* repetitions with one disturbed is the smallest vote a minority can     *)
(* disturb.                                                                *)
(***************************************************************************)
EXTENDS ReplacementIdentification

(* Sequences whose fresh simulations tell the catalog apart (hit counts  *)
(* of FIFO, LRU, PLRU, PLRUl, SRRIP): <<0,1,0,2,0>> gives 1,2,2,2,2;       *)
(* <<0,1,0,2,1>> gives 2,1,1,1,1; <<0,0,1,2,0>> gives 1,1,1,1,2.           *)
MCFairSequences == {<<0, 1, 0, 2, 0>>, <<0, 1, 0, 2, 1>>, <<0, 0, 1, 2, 0>>}

=============================================================================
