------------------------------- MODULE MCHalt -------------------------------
(***************************************************************************)
(* Instance of Halt for TLC: the programs of the devices, and programs     *)
(* that end.  x2 is a0.                                                    *)
(***************************************************************************)
EXTENDS MCNpc, Halt

MC_EBREAK == 14
HaltDecode == [DeviceDecode EXCEPT ![7] = Instr("addi", 2, 2, 0, 1),
                                   ![8] = Instr("add", 2, 1, 2, 0),
                                   ![9] = Instr("beq", 0, 1, 2, 2),
                                   ![10] = Instr("jal", 1, 0, 0, 2),
                                   ![11] = Instr("fence_i", 0, 0, 0, 0)]

(* In front of two ebreaks: every program of three or four instructions     *)
(* from 7 .. 10, and every one of three that leave a0 alone, device accesses  *)
(* among them.  No a0 behind an access: the decoder would read it too early. *)
EndImages == { Image(p \o <<MC_EBREAK, MC_EBREAK>>) :
    p \in [1 .. 3 -> 7 .. 10] \cup [1 .. 4 -> 7 .. 10] \cup [1 .. 3 -> {4, 5, 6, 9}] }

(* Programs of four instructions with fence.i among them, not as the last   *)
(* of its cache line (the run fence_i shows what comes of that), and        *)
(* without a store to memory: one that is slow and commits in front of      *)
(* fence.i uses its skip up, and fence.i itself then aborts the reference.  *)
FencePrograms == { p \in [1 .. 4 -> {1, 2, 4, 5, 6, 11}] :
                     p[4] # 11 /\ \E i \in 1 .. 3 : p[i] = 11 }

HaltImages == DeviceImages \cup EndImages \cup { Image(p) : p \in FencePrograms }
=============================================================================
