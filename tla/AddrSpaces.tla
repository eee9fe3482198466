------------------------------ MODULE AddrSpaces ------------------------------
(* What the virtual memory interface of am.h promises: every live address      *)
(* space is a set of user pages, each mapped to one physical page, and no call *)
(* on one space changes another.                                               *)
CONSTANTS Spaces, Vas, Pas

VARIABLES live,   \* spaces between protect and unprotect
          maps    \* the pages a user program of each space can reach

Mapping(va, pa, w) == [va |-> va, pa |-> pa, w |-> w]

Mapped(as, va) == \E e \in maps[as] : e.va = va

Init == live = {} /\ maps = [as \in Spaces |-> {}]

Protect(as) ==
    /\ as \notin live
    /\ live' = live \cup {as}
    /\ UNCHANGED maps

Map(as, va, pa, w) ==
    /\ as \in live /\ ~ Mapped(as, va)
    /\ maps' = [maps EXCEPT ![as] = @ \cup {Mapping(va, pa, w)}]
    /\ UNCHANGED live

Unmap(as, va) ==
    /\ as \in live /\ Mapped(as, va)
    /\ maps' = [maps EXCEPT ![as] = {e \in @ : e.va # va}]
    /\ UNCHANGED live

Unprotect(as) ==
    /\ as \in live
    /\ live' = live \ {as}
    /\ maps' = [maps EXCEPT ![as] = {}]

Next == \E as \in Spaces :
    \/ Protect(as) \/ Unprotect(as)
    \/ maps' # maps /\ \E va \in Vas : Unmap(as, va) \/ \E pa \in Pas, w \in BOOLEAN : Map(as, va, pa, w)

Spec == Init /\ [][Next]_<<live, maps>>
================================================================================
