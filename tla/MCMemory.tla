------------------------------ MODULE MCMemory ------------------------------
(***************************************************************************)
(* Memory for TLC: memmove and memcpy, malloc, the page tables of the x86  *)
(* port and, on the same port, the stacks and contexts of a multiprocessor *)
(* under thread-os.  These modules share no state, so a behaviour steps    *)
(* one of them.                                                            *)
(***************************************************************************)
EXTENDS Memmove, Malloc, Vme, ThreadOs, TLC

VARIABLE part           \* the module that steps

allVars == <<part, vars, heapVars, pagingVars, osVars>>

(* One more than a multiple of the unit is left out: malloc rounds it down. *)
AskedSizes == {0, 2, 3, 4, 6, 7, 8, 12}

(* Two user pages in different tables, and free pages for one table of each *)
(* space or for two tables of one.                                          *)
TwoPages == {<<1, 0>>, <<2, 1>>}

(* One of the initial states of memmove when it does not step. *)
CopyIdle == bytes = [a \in Addr |-> 0] /\ call = "memmove" /\ n = 0 /\ dst = 0 /\ src = 0

MemoryInit == /\ part \in {"copy", "heap", "tables", "threads"}
              /\ (part = "copy" \/ CopyIdle) /\ Init
              /\ HeapInit /\ PagingInit /\ OsInit

CopyStep   == part = "copy" /\ Next /\ UNCHANGED <<part, heapVars, pagingVars, osVars>>
HeapStep   == part = "heap" /\ HeapNext /\ UNCHANGED <<part, vars, pagingVars, osVars>>
TableStep  == part = "tables" /\ PagingNext /\ UNCHANGED <<part, vars, heapVars, osVars>>
ThreadStep == part = "threads" /\ OsNext /\ UNCHANGED <<part, vars, heapVars, pagingVars>>

MemoryNext == CopyStep \/ HeapStep \/ TableStep \/ ThreadStep

MemorySpec == MemoryInit /\ [][MemoryNext]_allVars

Symmetry == Permutations(Spaces)
=============================================================================
