------------------------------- MODULE MCSlab -------------------------------
(* Small cache tables for Slab. *)
EXTENDS Slab

\* Sizes grow along the table, as in kmem_cache_init.
MCObjSize == <<1, 2>>
MCNum == <<3, 2>>
MCGfpOrder == <<1, 1>>
=============================================================================
