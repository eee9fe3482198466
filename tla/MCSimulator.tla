----------------------------- MODULE MCSimulator ----------------------------
(***************************************************************************)
(* NEMU while it runs a program, for TLC: the debugger with its execution  *)
(* loop, in the build of the repository's configurations and in the one    *)
(* with CONFIG_WATCHPOINT; the expression evaluator; the devices with the  *)
(* AbstractMachine's drivers (keyboard, screen, timer, PS/2); and the      *)
(* context switches of yield-os and thread-os (safety in MCMemory, with    *)
(* one more processor).  Watchpoints and the differential test are in      *)
(* MCInstructions.  These modules share no state, so a behaviour steps one *)
(* of them.                                                                *)
(***************************************************************************)
EXTENDS Monitor, Device, Cte, Timer, Ps2

CONSTANTS NCPU, NTASK

VARIABLES part,         \* the module that steps
          toks, typing, result, success, after, vals, ops,
          run, frame, ran, currents, context, locked, ap_ready, is_ap, cpu

exprVars   == <<toks, typing, result, success, after, vals, ops>>
threadVars == <<run, frame, ran, currents, context, locked, ap_ready, is_ap, cpu>>
allVars    == <<part, vars, exprVars, devVars, timerVars, ps2Vars, yieldVars, threadVars>>

Watching == INSTANCE Monitor WITH CONFIG_WATCHPOINT <- TRUE
(* A minus or asterisk behind a register, and two signs in a row, are left  *)
(* out: eval does not give them their value in C.                           *)
Leaves   == {[k |-> "NUM", v |-> 3], [k |-> "REG", v |-> 5]}
Typed    == INSTANCE Expr WITH MaxLen <- 7, REG_MINUS <- FALSE, NESTED_UNARY <- FALSE, phase <- typing
Threads  == INSTANCE ThreadOs

(* One of the initial states of a module that does not step. *)
LoopIdle == batch = FALSE /\ seen = [w \in Number |-> 0] /\ now = [e \in EXPRS |-> 0]
DevIdle  == screen = CHOOSE f \in Frames : TRUE

SimInit == /\ part \in {"watching", "default", "expr", "devices", "timer", "ps2", "yield", "threads"}
           /\ Init /\ (part \in {"watching", "default"} \/ LoopIdle)
           /\ DevInit /\ (part = "devices" \/ DevIdle)
           /\ Typed!Init /\ TimerInit /\ ScanInit /\ YieldInit /\ Threads!OsInit

LoopStep == /\ \/ part = "watching" /\ Watching!Next
               \/ part = "default" /\ Next
            /\ UNCHANGED <<part, exprVars, devVars, timerVars, ps2Vars, yieldVars, threadVars>>
(* The loop executes when it can; the user need not type anything. *)
Executing == /\ \/ part = "watching" /\ Watching!Execute
                \/ part = "default" /\ Execute
             /\ UNCHANGED <<part, exprVars, devVars, timerVars, ps2Vars, yieldVars, threadVars>>

Others       == <<part, vars, exprVars>>
ExprStep     == part = "expr" /\ Typed!Next
                /\ UNCHANGED <<part, vars, devVars, timerVars, ps2Vars, yieldVars, threadVars>>
Loops        == part = "devices" /\ Loop /\ UNCHANGED <<Others, timerVars, ps2Vars, yieldVars, threadVars>>
Ticks        == part = "devices" /\ Tick /\ UNCHANGED <<Others, timerVars, ps2Vars, yieldVars, threadVars>>
DeviceStep   == part = "devices" /\ DevNext /\ UNCHANGED <<Others, timerVars, ps2Vars, yieldVars, threadVars>>
TimerStep    == part = "timer" /\ TimerNext /\ UNCHANGED <<Others, devVars, ps2Vars, yieldVars, threadVars>>
Ps2Step      == part = "ps2" /\ ScanNext /\ UNCHANGED <<Others, devVars, timerVars, yieldVars, threadVars>>
YieldStep    == part = "yield" /\ YieldNext /\ UNCHANGED <<Others, devVars, timerVars, ps2Vars, threadVars>>
CpuStep(c)   == part = "threads" /\ Threads!Step(c) /\ UNCHANGED <<Others, devVars, timerVars, ps2Vars, yieldVars>>
Interrupt(c) == part = "threads" /\ Threads!Interrupt(c) /\ UNCHANGED <<Others, devVars, timerVars, ps2Vars, yieldVars>>

SimNext == \/ LoopStep \/ ExprStep \/ DeviceStep \/ TimerStep \/ Ps2Step \/ YieldStep
           \/ \E c \in Threads!Cpus : CpuStep(c) \/ Interrupt(c)

(* The host schedules NEMU and its clock runs; a processor executes; the    *)
(* local timer of each processor fires again and again.                     *)
SimSpec == /\ SimInit /\ [][SimNext]_allVars
           /\ WF_allVars(Executing)
           /\ WF_allVars(Loops) /\ WF_allVars(Ticks)
           /\ WF_allVars(YieldStep)
           /\ \A c \in 0 .. NCPU - 1 : WF_allVars(CpuStep(c)) /\ WF_allVars(Interrupt(c))
-----------------------------------------------------------------------------
(* p, x and w show the value the expression has in C: precedence,          *)
(* associativity, signs, dereferences and parentheses.                     *)
SameValueAsC == Typed!SameValueAsC

(* A frame the guest has asked to show is shown, and closing the window    *)
(* ends the simulation: the throttle of device_update only delays them.    *)
HostServed == SyncServed /\ QuitLeaves

(* The threads of yield-os take turns, and the boot thread never comes     *)
(* back; every thread of yield-os and of thread-os runs for ever, and a    *)
(* thread that is switched out inside the lock of thread-os does not stop  *)
(* the others for ever.                                                    *)
AllTakeTurns == /\ TakeTurns
                /\ part = "yield" => BothRun
                /\ part = "threads" => Threads!ThreadsTakeTurns /\ Threads!LockMovesOn
=============================================================================
