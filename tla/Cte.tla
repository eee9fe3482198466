-------------------------------- MODULE Cte ---------------------------------
(***************************************************************************)
(* Context switching on the riscv ports of the AbstractMachine             *)
(* (am/src/riscv/npc/cte.c and trap.S), under the two threads of           *)
(* am-kernels/kernels/yield-os.  Memory is words: pcb[0], pcb[1], pcb_boot *)
(* and the boot stack, each STACK_SIZE long.  A PCB is a union, so its     *)
(* first word is both cp and the far end of the thread's stack.  There are *)
(* no interrupts: a trap runs to its mret in one step.                     *)
(***************************************************************************)
EXTENDS Integers, Sequences

CONSTANTS NR_REGS,      \* slots of saved registers: x0, a0, GPR1 and others
          STACK_SIZE    \* words of a PCB, 8192 in the code

VARIABLES mem, reg, sp, pc,     \* the machine; reg without x0 and sp
          current,              \* the PCB that runs
          out,                  \* characters written by putch, newest first
          left                  \* history: what each thread's registers were when it left

yieldVars == <<mem, reg, sp, pc, current, out, left>>

(* Registers by their place in Context.gpr.                                *)
A0 == 1
r_sp == 2
GPR1 == 3
Reg == 1 .. NR_REGS - 1
CONTEXT_SIZE == NR_REGS + 3 + 1         \* of trap.S: pdir, but not np
OFFSET_EPC   == NR_REGS + 2
sizeof_Context == NR_REGS + 3 + 2       \* of struct Context: pdir and np

PCB == 0 .. 2                           \* pcb[0], pcb[1], pcb_boot
boot == 2
Base(p) == p * STACK_SIZE
Addr == 0 .. 4 * STACK_SIZE - 1

(* The code of yield-os: main's ecall and the panic behind it; f stores    *)
(* its argument on the stack, prints it and yields for ever.               *)
main_ecall == 0
main_panic == 4
f_entry == 8
f_putch == 12
f_ecall == 16
f_loop  == 20

(* Room only for the frame trap.S pops, one word short of a Context.       *)
kcontext_FrameSize(p, arg, m) ==
    LET c == Base(p + 1) - CONTEXT_SIZE
    IN  [m EXCEPT ![c + OFFSET_EPC] = f_entry, ![c + A0] = arg,
                  ![c + NR_REGS + 4] = 3, ![Base(p)] = c]

(* kcontext at the high end of the stack area; cp is set by main.          *)
kcontext(p, arg, m) ==
    LET c == Base(p + 1) - sizeof_Context
    IN  [m EXCEPT ![c + OFFSET_EPC] = f_entry, ![c + A0] = arg,
                  ![c + NR_REGS + 4] = 3, ![Base(p)] = c]

YieldInit ==
        /\ mem = kcontext(1, 2, kcontext(0, 1, [a \in Addr |-> 0]))
        /\ reg = [r \in Reg |-> 0] /\ sp = 4 * STACK_SIZE /\ pc = main_ecall
        /\ current = boot
        /\ out = <<>>
        /\ left = [p \in PCB |-> IF p = boot THEN <<>>
                                 ELSE <<f_entry, [r \in Reg \ {r_sp} |-> IF r = A0 THEN p + 1 ELSE 0]>>]

(* f's argument is kept on the stack; the registers end up with anything,  *)
(* GPR1 with the -1 of yield.                                              *)
f_Entry == /\ pc = f_entry
           /\ sp' = sp - 1 /\ mem' = [mem EXCEPT ![sp - 1] = reg[A0]]
           /\ pc' = f_putch
           /\ UNCHANGED <<reg, current, out, left>>
f_Putch == /\ pc = f_putch
           /\ out' = <<mem[sp]>>
           /\ \E v, w \in 0 .. 2 :
                 reg' = [r \in Reg |-> IF r = GPR1 THEN -1 ELSE IF r = A0 THEN v ELSE w]
           /\ pc' = f_ecall
           /\ UNCHANGED <<mem, sp, current, left>>
f_Loop == /\ pc = f_loop
          /\ pc' = f_putch
          /\ UNCHANGED <<mem, reg, sp, current, out, left>>

(* Registers and mepc pushed below sp: the Context at c.                   *)
Push(c, m) == [a \in Addr |-> IF a - c \in Reg \ {r_sp} THEN reg[a - c]
                              ELSE IF a - c = OFFSET_EPC THEN pc ELSE m[a]]

(* The handler of yield-os.                                                *)
schedule(p) == IF p = 0 THEN 1 ELSE 0

(* __am_irq_handle for an ecall: mepc past it, then the handler saves c in *)
(* the PCB that ran.                                                       *)
__am_irq_handle(c, m) == [m EXCEPT ![c + OFFSET_EPC] = @ + 4, ![Base(current)] = c]

(* ecall, __am_asm_trap, the handler, the registers popped, mret.          *)
Trap == /\ pc \in {main_ecall, f_ecall}
        /\ LET c == sp - CONTEXT_SIZE
               m == __am_irq_handle(c, Push(c, mem))
               next == schedule(current)
               n == m[Base(next)]
           IN  /\ mem' = m
               /\ current' = next
               /\ reg' = [r \in Reg |-> IF r = r_sp THEN reg[r] ELSE m[n + r]]
               /\ sp' = n + CONTEXT_SIZE
               /\ pc' = m[n + OFFSET_EPC]
        /\ left' = [left EXCEPT ![current] = <<pc + 4, [r \in Reg \ {r_sp} |-> reg[r]]>>]
        /\ UNCHANGED out

YieldNext == f_Entry \/ f_Putch \/ f_Loop \/ Trap
YieldSpec == YieldInit /\ [][YieldNext]_yieldVars
(* The processor goes on executing instructions.                           *)
FairSpec == YieldSpec /\ WF_yieldVars(YieldNext)
-----------------------------------------------------------------------------
(* The context each suspended thread will be resumed from is intact: the   *)
(* pc behind its ecall, or f for one not started, and the registers it had.*)
(* Neither the frames other traps push, nor the words a thread writes on   *)
(* its own stack, nor cp in the union, overwrite it.                       *)
ContextsSaved ==
    \A p \in PCB \ {current} :
        left[p] # <<>> =>
            LET c == mem[Base(p)]
            IN  left[p] = <<mem[c + OFFSET_EPC], [r \in Reg \ {r_sp} |-> mem[c + r]]>>

(* A thread comes back with its stack pointer where it was: traps do not   *)
(* creep down the stack, however often it yields, and stay above cp.       *)
StacksKept == pc \in {f_putch, f_ecall, f_loop} => sp = Base(current + 1) - 2

(* A suspended thread always comes back as it left. *)
ContextsIntact == ContextsSaved /\ StacksKept

(* The threads take turns: no character is printed twice in a row, and the *)
(* boot thread never comes back ("Should not reach here!").                *)
TakeTurns == /\ [][f_Putch => out' # out]_yieldVars
             /\ [](pc # main_panic)

(* Both threads keep running for ever.                                     *)
BothRun == []<>(out = <<1>>) /\ []<>(out = <<2>>)
=============================================================================
