-------------------------------- MODULE MCVm --------------------------------
(***************************************************************************)
(* Two processes with a page of a file, a page of the stack and an address *)
(* that is not mapped each, fewer frames than pages, and a swap that can   *)
(* fill up.                                                                *)
(***************************************************************************)
EXTENDS VirtualMemory

MCPage == {0, 1, 2}
MCStack == {2}
MCLoaded == [u \in MCPage |-> IF u = 1 THEN "FILE" ELSE "INVALID"]
=============================================================================
