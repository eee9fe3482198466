------------------------------- MODULE ThreadOs -------------------------------
(* The multiprocessor start and the kernel thread-os: CPU 0 starts the others  *)
(* one by one (mpe.c, trm.c), then every CPU switches between its share of the *)
(* threads on timer interrupts (cte.c, thread-os.c), and the threads print     *)
(* under one spin lock.  A CPU's instruction stream is the stack it runs on,   *)
(* its place in the code and its interrupt flag.                               *)
EXTENDS Naturals

CONSTANTS NCPU,   \* cpu_count()
          NTASK   \* LENGTH(tasks), at least NCPU: a CPU without a task would search for ever

VARIABLES run,        \* what each CPU executes: stack, pc, interrupt flag, and ...
          frame,      \* ... the context it has pushed on trap entry
          ran,        \* executed an instruction since it was resumed
          currents,   \* the task of each CPU
          context,    \* the saved context of each task
          locked,     \* the spin lock of the threads
          ap_ready,   \* handshake of mpe_init
          is_ap,      \* boot record: started by mpe_init
          cpu         \* loop variable of mpe_init

osVars == <<run, frame, ran, currents, context, locked, ap_ready, is_ap, cpu>>

Cpus  == 0 .. NCPU - 1
Tasks == 0 .. NTASK - 1
NoTask == NTASK

ThreadPcs == {"lock", "print", "unlock", "delay"}

(* A stack is that of a task or one of these: the boot stack at 0xa000, the    *)
(* kernel stack of the CPU, none.                                              *)
Boot == NTASK
Own  == NTASK + 1
None == NTASK + 2

Code(stack, pc, ief) == [stack |-> stack, pc |-> pc, ief |-> ief]

(* A CPU that is not started; as a context, NULL. *)
Off == Code(None, "off", FALSE)

OsInit ==
    /\ run = [c \in Cpus |-> IF c = 0 THEN Code(Boot, "_start_c", FALSE) ELSE Off]
    /\ frame = [c \in Cpus |-> Off]
    /\ ran = [c \in Cpus |-> FALSE]
    /\ currents = [c \in Cpus |-> NoTask]
    /\ context = [t \in Tasks |-> Off]
    /\ locked = 0 /\ ap_ready = 0 /\ is_ap = FALSE /\ cpu = 1

At(c, pc) == run[c].pc = pc

Goto(c, pc) == run' = [run EXCEPT ![c].pc = pc]

kcontext(t) == Code(t, "lock", TRUE)

------------------------------------------------------------------------------
(* Start of the CPUs *)

(* Both kinds of CPU leave the boot stack for their own. *)
_start_c(c) ==
    /\ At(c, "_start_c")
    /\ run' = [run EXCEPT ![c] = Code(Own, IF is_ap THEN "othercpu_entry" ELSE "main", FALSE)]
    /\ UNCHANGED <<frame, ran, currents, context, locked, ap_ready, is_ap, cpu>>

main(c) ==
    /\ At(c, "main")
    /\ context' = [t \in Tasks |-> kcontext(t)]
    /\ Goto(c, "mpe_init")
    /\ UNCHANGED <<frame, ran, currents, locked, ap_ready, is_ap, cpu>>

mpe_init(c) ==
    /\ At(c, "mpe_init")
    /\ IF cpu < NCPU
       THEN /\ is_ap' = TRUE
            /\ run' = [run EXCEPT ![c].pc = "wait", ![cpu] = Code(Boot, "_start_c", FALSE)]
       ELSE /\ Goto(c, "mp_entry")
            /\ UNCHANGED is_ap
    /\ UNCHANGED <<frame, ran, currents, context, locked, ap_ready, cpu>>

(* Mutant: the next CPU is started without waiting for this one. *)
mpe_wait_Not(c) ==
    /\ At(c, "wait")
    /\ cpu' = cpu + 1
    /\ Goto(c, "mpe_init")
    /\ UNCHANGED <<frame, ran, currents, context, locked, ap_ready, is_ap>>

(* while (xchg(&ap_ready, 0) != 1): a failed exchange changes nothing. *)
mpe_wait(c) ==
    /\ At(c, "wait")
    /\ ap_ready = 1
    /\ ap_ready' = 0
    /\ cpu' = cpu + 1
    /\ Goto(c, "mpe_init")
    /\ UNCHANGED <<frame, ran, currents, context, locked, is_ap>>

othercpu_entry(c) ==
    /\ At(c, "othercpu_entry")
    /\ ap_ready' = 1
    /\ Goto(c, "mp_entry")
    /\ UNCHANGED <<frame, ran, currents, context, locked, is_ap, cpu>>

(* iset(true), then yield.  The gates are trap gates: the interrupt flag stays *)
(* set until the cli at the entry of the handler.                              *)
mp_entry(c) ==
    /\ At(c, "mp_entry")
    /\ run' = [run EXCEPT ![c].pc = "yield", ![c].ief = TRUE]
    /\ UNCHANGED <<frame, ran, currents, context, locked, ap_ready, is_ap, cpu>>

------------------------------------------------------------------------------
(* Interrupts *)

(* The context goes to the stack of the interrupted code; __am_irq_handle runs *)
(* on it with interrupts off.                                                  *)
trap(c) ==
    /\ frame' = [frame EXCEPT ![c] = run[c]]
    /\ run' = [run EXCEPT ![c] = Code(run[c].stack, "on_interrupt", FALSE)]
    /\ UNCHANGED <<ran, currents, context, locked, ap_ready, is_ap, cpu>>

yield(c) == At(c, "yield") /\ trap(c)

(* Timer and devices.  Their vectors are of one priority class, held back by   *)
(* the local APIC until the end-of-interrupt after cli, so they do not nest;   *)
(* their period is longer than a switch, so a resumed thread runs a little.    *)
Interrupt(c) == run[c].ief /\ (ran[c] \/ At(c, "yield")) /\ trap(c)

on_interrupt(c) ==
    /\ At(c, "on_interrupt")
    /\ IF currents[c] = NoTask
       THEN currents' = [currents EXCEPT ![c] = 0] /\ UNCHANGED context
       ELSE context' = [context EXCEPT ![currents[c]] = frame[c]] /\ UNCHANGED currents
    /\ Goto(c, "next")
    /\ UNCHANGED <<frame, ran, locked, ap_ready, is_ap, cpu>>

(* Mutant: the next task, whatever CPU it belongs to. *)
Mine_Any(c, t) == TRUE

(* The test that ends the search for a task. *)
Mine(c, t) == t % NCPU = c

next(c) ==
    /\ At(c, "next")
    /\ currents' = [currents EXCEPT ![c] = (currents[c] + 1) % NTASK]
    /\ Goto(c, IF Mine(c, currents'[c]) THEN "__am_iret" ELSE "next")
    /\ UNCHANGED <<frame, ran, context, locked, ap_ready, is_ap, cpu>>

(* panic_on(!ret_ctx, "returning to NULL context") *)
__am_iret(c) ==
    /\ At(c, "__am_iret")
    /\ IF context[currents[c]] = Off
       THEN Goto(c, "panic")
       ELSE run' = [run EXCEPT ![c] = context[currents[c]]]
    /\ ran' = [ran EXCEPT ![c] = FALSE]
    /\ UNCHANGED <<frame, currents, context, locked, ap_ready, is_ap, cpu>>

------------------------------------------------------------------------------
(* The threads: func *)

Thread(c, from, to) ==
    /\ At(c, from)
    /\ Goto(c, to)
    /\ ran' = [ran EXCEPT ![c] = TRUE]
    /\ UNCHANGED <<frame, currents, context, ap_ready, is_ap, cpu>>

lock(c) == locked' = 1 /\ Thread(c, "lock", IF locked = 0 THEN "print" ELSE "lock")

print(c) == UNCHANGED locked /\ Thread(c, "print", "unlock")

(* Mutant: the lock is not released. *)
unlock_Not(c) == UNCHANGED locked /\ Thread(c, "unlock", "delay")

unlock(c) == locked' = 0 /\ Thread(c, "unlock", "delay")

delay(c) == UNCHANGED locked /\ Thread(c, "delay", "lock")

------------------------------------------------------------------------------
Step(c) ==
    \/ _start_c(c) \/ main(c) \/ mpe_init(c) \/ mpe_wait(c) \/ othercpu_entry(c)
    \/ mp_entry(c) \/ yield(c) \/ on_interrupt(c) \/ next(c) \/ __am_iret(c)
    \/ lock(c) \/ print(c) \/ unlock(c) \/ delay(c)

OsNext == \E c \in Cpus : Step(c) \/ Interrupt(c)

OsSpec == OsInit /\ [][OsNext]_osVars

(* Every processor executes, and its local timer fires periodically. *)
LiveSpec == OsSpec /\ \A c \in Cpus : WF_osVars(Step(c)) /\ WF_osVars(Interrupt(c))

------------------------------------------------------------------------------
Pcs   == ThreadPcs \cup {"off", "_start_c", "main", "mpe_init", "wait", "othercpu_entry",
                         "mp_entry", "yield", "on_interrupt", "next", "__am_iret", "panic"}
Codes == [stack : 0 .. None, pc : Pcs, ief : BOOLEAN]

(* Types of the variables; the loop of mpe_init stops at the last CPU. *)
TypeOK ==
    /\ run \in [Cpus -> Codes] /\ frame \in [Cpus -> Codes]
    /\ ran \in [Cpus -> BOOLEAN]
    /\ currents \in [Cpus -> Tasks \cup {NoTask}]
    /\ context \in [Tasks -> Codes]
    /\ locked \in {0, 1} /\ ap_ready \in {0, 1} /\ is_ap \in BOOLEAN /\ cpu \in 1 .. NCPU

(* No stack is in use by two CPUs: neither the boot stack, which mpe_init      *)
(* hands from CPU to CPU, nor that of a task, which on_interrupt picks.        *)
StacksNotShared ==
    \A c, d \in Cpus : c # d /\ run[c].stack = run[d].stack => run[c].stack \in {Own, None}

(* A saved context is one the task pushed itself, at a place in its own code,  *)
(* with interrupts on: it can be resumed any number of times by its CPU.       *)
ContextsOwn ==
    \A t \in Tasks : context[t] # Off =>
        context[t].stack = t /\ context[t].ief /\ context[t].pc \in ThreadPcs

(* No CPU returns from an interrupt to a context that was never made: main     *)
(* prepares all of them before it starts the others.                           *)
NoNullContext == \A c \in Cpus : ~ At(c, "panic")

(* What the stacks and the contexts need to be trusted. *)
ContextsSafe == TypeOK /\ StacksNotShared /\ ContextsOwn /\ NoNullContext

(* The code each thread is at: running, in the handler, or switched out.       *)
Holds(t) ==
    \/ \E c \in Cpus : run[c].stack = t /\ run[c].pc \in {"print", "unlock"}
    \/ \E c \in Cpus : /\ run[c].stack = t /\ run[c].pc = "on_interrupt"
                       /\ frame[c].pc \in {"print", "unlock"}
    \/ /\ \A c \in Cpus : ~ (run[c].stack = t /\ run[c].pc \in ThreadPcs \cup {"on_interrupt"})
       /\ context[t] # Off /\ context[t].pc \in {"print", "unlock"}

(* At most one thread is between lock and unlock, those included that were     *)
(* interrupted or switched out there, and the lock is taken then.              *)
OneHoldsLock ==
    /\ \A s, t \in Tasks : Holds(s) /\ Holds(t) => s = t
    /\ \A t \in Tasks : Holds(t) => locked = 1

(* Every thread gets its CPU again and again. *)
ThreadsTakeTurns ==
    \A t \in Tasks : []<>(\E c \in Cpus : run[c].stack = t /\ run[c].pc \in ThreadPcs)

(* A thread that is switched out inside the lock does not stop the others for  *)
(* ever: the lock is released and taken again and again.                       *)
LockMovesOn == []<>(locked = 0) /\ []<>(locked = 1)
================================================================================
