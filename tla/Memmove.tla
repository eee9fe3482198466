------------------------------ MODULE Memmove -------------------------------
(***************************************************************************)
(* memmove and memcpy of klib (abstract-machine/klib/src/string.c), byte   *)
(* by byte on a memory whose regions may overlap.  k counts the bytes      *)
(* copied: d and s are dst + k and src + k going up, dst + n - 1 - k and   *)
(* src + n - 1 - k going down.                                             *)
(***************************************************************************)
EXTENDS Integers

CONSTANTS Size,                 \* bytes of memory
          Byte

ASSUME MemAssumption == Size \in Nat /\ Byte # {}

VARIABLES bytes, old,             \* memory now, and when the call began
          call,                 \* "memmove" or "memcpy"
          dst, src, n, k

vars == <<bytes, old, call, dst, src, n, k>>

Addr == 0 .. Size - 1

Init == /\ bytes \in [Addr -> Byte] /\ old = bytes
        /\ call \in {"memmove", "memcpy"}
        /\ n \in 0 .. Size
        /\ dst \in 0 .. Size - n /\ src \in 0 .. Size - n
        /\ k = 0

(* The direction that overwrites bytes still to be copied.                 *)
Upwards_Swapped == call = "memcpy" \/ dst > src
Upwards == call = "memcpy" \/ dst < src

Copy == /\ k < n
        /\ LET i == IF Upwards THEN k ELSE n - 1 - k
           IN  bytes' = [bytes EXCEPT ![dst + i] = bytes[src + i]]
        /\ k' = k + 1
        /\ UNCHANGED <<old, call, dst, src, n>>

Next == Copy
Spec == Init /\ [][Next]_vars
-----------------------------------------------------------------------------
(* Nothing outside the destination is written.                             *)
OutsideKept == \A a \in Addr : a \notin dst .. dst + n - 1 => bytes[a] = old[a]

(* When memmove is done the destination holds what the source held before  *)
(* the call, however the two overlap; memcpy promises it only for regions  *)
(* that do not overlap, and keeps it when the destination is the lower one.*)
Moved == k = n /\ (call = "memmove" \/ dst <= src \/ src + n <= dst) =>
            \A i \in 0 .. n - 1 : bytes[dst + i] = old[src + i]

(* A call that copies every byte and only the destination.                 *)
CopiesRight == OutsideKept /\ Moved
=============================================================================
