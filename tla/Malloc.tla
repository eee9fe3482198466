------------------------------- MODULE Malloc -------------------------------
(***************************************************************************)
(* malloc and free of klib (abstract-machine/klib/src/stdlib.c): a pointer *)
(* moves up from heap.start by the size rounded to Unit, and nothing is    *)
(* ever given back.  `blocks` is a history variable: what was handed out.  *)
(***************************************************************************)
EXTENDS Integers

CONSTANTS Unit,                 \* 0x100 in the code
          Start, End,           \* heap.start and heap.end
          Sizes,                \* sizes that are asked for
          MaxBlocks             \* bound on the calls

VARIABLES addr, blocks, calls

heapVars == <<addr, blocks, calls>>

NULL == 0

HeapInit == addr = NULL /\ blocks = {} /\ calls = 0

(* The size is not rounded up but down.                                    *)
Rounded_Down(size) == size - (size % Unit)

(* (size + 0xff - 1) & ~0xff                                               *)
Rounded(size) == (size + Unit - 2) - ((size + Unit - 2) % Unit)

malloc(size) ==
    LET p == IF addr = NULL THEN Start ELSE addr
    IN  /\ calls < MaxBlocks /\ calls' = calls + 1
        /\ addr' = p + Rounded(size)
        /\ blocks' = blocks \cup {[id |-> calls, p |-> p, size |-> size]}

(* free does nothing: the block may be freed but is not used again.        *)
HeapNext == \E size \in Sizes : malloc(size)
HeapSpec == HeapInit /\ [][HeapNext]_heapVars
-----------------------------------------------------------------------------
(* No byte belongs to two blocks: what one owner writes in its block,      *)
(* another never sees.                                                     *)
BlocksDisjoint ==
    \A a, b \in blocks :
        a.id < b.id /\ a.size > 0 /\ b.size > 0 => a.p + a.size <= b.p

(* A block that malloc returns lies in the heap.                           *)
BlocksInHeap == \A a \in blocks : Start <= a.p /\ a.p + a.size <= End
=============================================================================
