--------------------------- MODULE MCInstructions ---------------------------
(***************************************************************************)
(* Instructions for TLC: what each one does in npc and in NEMU, the bytes  *)
(* of loads and stores, and what NEMU does after each instruction it       *)
(* executes (trace_and_difftest and the traces): the ring buffer, the      *)
(* binary trace with the cache simulator, the function trace, the pool of  *)
(* watchpoints and the differential test.  These modules share no state,   *)
(* so a behaviour steps one of them.                                       *)
(***************************************************************************)
EXTENDS Cachesim, Ftrace, Watchpoint, Difftest, Lanes, TLC

VARIABLES part,         \* the module that steps
          word, src1, op2, pc

decodeVars == <<word, src1, op2, pc>>
instructionVars == <<part, allVars, callVars, decodeVars, laneVars, poolVars, testVars>>

(* Without multiplications, which the decoder takes for additions, and the *)
(* accesses to CSRs that csr.sv does not have or does not write.           *)
Decodes == INSTANCE Decoder WITH XLEN <- 4, M <- FALSE, Strays <- FALSE

(* One of the initial states of the pool when it does not step. *)
PoolIdle == /\ expression = [s \in Slot |-> CHOOSE e \in EXPRS : TRUE]
            /\ value = [s \in Slot |-> 0] /\ now = [e \in EXPRS |-> 0]

InstructionsInit == /\ part \in {"trace", "calls", "decode", "lanes", "pool", "difftest"}
                    /\ SimInit /\ CallsInit /\ Decodes!Init /\ LanesInit /\ TestInit
                    /\ PoolInit /\ (part = "pool" \/ PoolIdle)

TraceStep  == /\ part = "trace" /\ SimNext
              /\ UNCHANGED <<part, callVars, decodeVars, laneVars, poolVars, testVars>>
CallStep   == /\ part = "calls" /\ CallsNext
              /\ UNCHANGED <<part, allVars, decodeVars, laneVars, poolVars, testVars>>
DecodeStep == /\ part = "decode" /\ Decodes!Next
              /\ UNCHANGED <<part, allVars, callVars, laneVars, poolVars, testVars>>
LaneStep   == /\ part = "lanes" /\ LanesNext
              /\ UNCHANGED <<part, allVars, callVars, decodeVars, poolVars, testVars>>
PoolStep   == /\ part = "pool" /\ PoolNext
              /\ UNCHANGED <<part, allVars, callVars, decodeVars, laneVars, testVars>>
TestStep   == /\ part = "difftest" /\ TestNext
              /\ UNCHANGED <<part, allVars, callVars, decodeVars, laneVars, poolVars>>

InstructionsNext == TraceStep \/ CallStep \/ DecodeStep \/ LaneStep \/ PoolStep \/ TestStep

InstructionsSpec == InstructionsInit /\ [][InstructionsNext]_instructionVars

Symmetry == Permutations(Fns)
-----------------------------------------------------------------------------
(* Every immediate of npc is NEMU's, and for all operands every            *)
(* instruction of npc writes the register, takes the next pc, stores and   *)
(* changes the CSR as decode_exec does.                                    *)
EffectsMatch == part = "decode" => Decodes!ImmediatesMatch /\ Decodes!EffectsMatch
=============================================================================
