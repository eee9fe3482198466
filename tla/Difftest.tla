------------------------------ MODULE Difftest ------------------------------
(***************************************************************************)
(* The differential test as a protocol between the debugger, the core and  *)
(* the reference (nemu/src/cpu/difftest/dut.c, ref.c, cpu/cpu-exec.c and   *)
(* include/device/map.h).  Npc shows that the core's own requests skip the *)
(* right commit; here the core may compute anything, the debugger reads    *)
(* memory between instructions through the same paddr_read, and the        *)
(* question is whether the test notices what it is there to notice.        *)
(*                                                                         *)
(* A machine is its pc and one register.  The instruction at a pc adds one *)
(* to the register, or loads it from a device, whose values the reference  *)
(* cannot know.  difftest_skip_dut has no caller and is left out.          *)
(***************************************************************************)
EXTENDS Naturals

CONSTANT Size               \* pcs and register values are 0 .. Size - 1

VARIABLES dut, ref,         \* the machines
          is_skip_ref,
          watching,         \* a watchpoint reads a device address
          state,            \* nemu_state.state
          wrong,            \* history: a commit differed from its instruction
          looked            \* history: the user has looked at a device address

testVars == <<dut, ref, is_skip_ref, watching, state, wrong, looked>>

Value   == 0 .. Size - 1
Machine == [pc : Value, x : Value]
Kind    == {"plain", "device"}

ref_difftest_exec(s) == [pc |-> (s.pc + 1) % Size, x |-> (s.x + 1) % Size]

(* init_difftest copies the core's registers to the reference. *)
TestInit ==
        /\ dut = [pc |-> 0, x |-> 0] /\ ref = dut
        /\ is_skip_ref = FALSE /\ watching = FALSE
        /\ state = "STOP" /\ wrong = FALSE /\ looked = FALSE

(* What the core may commit: a device load gives any value, but the right   *)
(* next pc; anything else may be right or wrong.                            *)
Committed(kind, new) == kind = "plain" \/ new.pc = (dut.pc + 1) % Size
IsWrong(kind, new)   == kind = "plain" /\ new # ref_difftest_exec(dut)

(* Mutant: the request is not cleared. *)
SkipAfterStep_Kept(skip) == skip

SkipAfterStep(skip) == FALSE
ref_difftest_regcpy(new) == new

(* One instruction: npc_difftest_skip_ref from the bus if it is a device    *)
(* access, difftest_step, then wp_difftest, whose read of a device address  *)
(* is a request to skip as well and which may stop the run.  `more` says    *)
(* that the count of si is not used up.                                     *)
Commit(kind, new, fires, more) ==
    LET skip  == is_skip_ref \/ kind = "device"
        ref_r == ref_difftest_exec(ref)
        fails == ~skip /\ ref_r # new
    IN  /\ state = "RUNNING" /\ Committed(kind, new) /\ (fires => watching)
        /\ dut' = new
        /\ ref' = IF skip THEN ref_difftest_regcpy(new) ELSE ref_r
        /\ is_skip_ref' = (watching \/ SkipAfterStep(skip))
        /\ state' = CASE fires                       -> "STOP"
                      [] fails /\ ~fires             -> "ABORT"
                      [] more /\ ~fails /\ ~fires    -> "RUNNING"
                      [] OTHER                       -> "STOP"
        /\ wrong' = (wrong \/ IsWrong(kind, new))
        /\ UNCHANGED <<watching, looked>>

(* c and si; an aborted program cannot be resumed. *)
cpu_exec == /\ state = "STOP" /\ state' = "RUNNING"
            /\ UNCHANGED <<dut, ref, is_skip_ref, watching, wrong, looked>>

(* x and p: paddr_read of a device address goes through                     *)
(* find_mapid_by_addr, which calls difftest_skip_ref.  w does so when the   *)
(* watchpoint is set, and again after every instruction until d.            *)
cmd_x == /\ state = "STOP"
         /\ is_skip_ref' = TRUE /\ looked' = TRUE
         /\ UNCHANGED <<dut, ref, watching, state, wrong>>
cmd_w == /\ state = "STOP"
         /\ is_skip_ref' = TRUE /\ watching' = TRUE /\ looked' = TRUE
         /\ UNCHANGED <<dut, ref, state, wrong>>
cmd_d == /\ state = "STOP" /\ watching /\ watching' = FALSE
         /\ UNCHANGED <<dut, ref, is_skip_ref, state, wrong, looked>>

TestNext ==
        \/ \E kind \in Kind, new \in Machine, fires, more \in BOOLEAN :
               Commit(kind, new, fires, more)
        \/ cpu_exec \/ cmd_x \/ cmd_w \/ cmd_d
TestSpec == TestInit /\ [][TestNext]_testVars
-----------------------------------------------------------------------------
(* "The result of every instruction will be compared": a commit that        *)
(* differs from its instruction aborts the run at once.                     *)
ErrorsAreCaught == wrong => state = "ABORT"

(* A run is aborted only for such a commit, never for a device value that   *)
(* the reference could not know.                                            *)
NoFalseAlarm == state = "ABORT" => wrong

(* The test notices what it is there to notice, as long as the user has not *)
(* looked at a device, which takes the comparison away from the next commit.*)
AbortsExactlyOnErrors == NoFalseAlarm /\ (~looked => ErrorsAreCaught)
=============================================================================
