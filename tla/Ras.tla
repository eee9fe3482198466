-------------------------------- MODULE Ras --------------------------------
(***************************************************************************)
(* The return address stack, npc/vsrc/frontend/ysyx_25040131_ras.sv.  It   *)
(* watches the ID stage; the pointer sp has log2(RAS_DEPTH) bits, so a     *)
(* full stack is indistinguishable from an empty one.                      *)
(***************************************************************************)
EXTENDS Isa

CONSTANT RAS_DEPTH      \* DEPTH, 8 in the code

ASSUME RasAssumption == RAS_DEPTH \in Nat \ {0}

VARIABLES ras_stack, ras_sp

rasVars == <<ras_stack, ras_sp>>

RasSlot   == 0 .. RAS_DEPTH - 1
RasTypeOK == ras_stack \in [RasSlot -> Word] /\ ras_sp \in RasSlot

RasInit == ras_stack = [s \in RasSlot |-> 0] /\ ras_sp = 0

ras_hit(id_valid, is_ret) == id_valid /\ is_ret /\ ras_sp # 0
ras_target == ras_stack[(ras_sp + RAS_DEPTH - 1) % RAS_DEPTH]

(* One clock edge: flush empties; a call in ID pushes, a return in ID pops. *)
RasClock(flush, id_valid, is_call, is_ret, id_pc) ==
    LET push == ~flush /\ id_valid /\ is_call /\ ~is_ret
        pop  == ~flush /\ id_valid /\ is_ret /\ ~push /\ ras_sp # 0
    IN  /\ ras_stack' = IF push THEN [ras_stack EXCEPT ![ras_sp] = Plus(id_pc, 1)]
                                ELSE ras_stack
        /\ ras_sp' = CASE flush -> 0
                       [] push  -> (ras_sp + 1) % RAS_DEPTH
                       [] pop   -> ras_sp - 1
                       [] OTHER -> ras_sp
=============================================================================
