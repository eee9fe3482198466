# Verification of the npc workbench

The repository is a workbench around **npc**, a five-stage RV32 core written in
SystemVerilog (`npc/vsrc`), together with **NEMU** (`nemu`), an instruction-set
simulator that also drives the simulation of npc, debugs it and serves as the
reference of its differential test, and the **AbstractMachine** runtime and
programs that run on both (`abstract-machine`, `am-kernels`). This directory
models npc clock cycle by clock cycle with the NEMU reference beside it, the
debugger and devices of NEMU, and the parts of the runtime that keep state;
checks the models with TLC and proves most of its safety properties with TLAPS.

## 1. Inventory

| component | state | operations | talks to | what makes it correct | module |
|---|---|---|---|---|---|
| IFU (`frontend/..ifu.sv`) | state, pc, fetched word | start, request, receive, hand over, flush | cache, IF/ID, next-pc wires | fetches only what the decode stage can take | `Ifu` |
| instruction cache (`..icache.sv`) | state, request and miss registers, arrays, LRU | lookup, burst refill, bypass, flush, fence.i | IFU, bus | a delivered word is the memory's word | `Icache` |
| BTB, RAS (`..btb.sv`, `..ras.sv`) | table with 2-bit counters; stack and pointer | predict, train; push, pop, flush | fetch pc, ID, EX | predictions never change what commits | `Btb`, `Ras` |
| decode, ALU, CSR effects (`..id.sv`, `..controller.sv`, `utils/..imm.sv`, `..alu.sv`) | none | decode, immediates, results; ebreak (DPI) | IF/ID, ID/EX | every instruction means what it means in NEMU | `Decoder`, `Isa`, `Halt` |
| pipeline (`ysyx_25040131.sv`, `pipeline/*`) | four registers, EX operand latch | advance, stall, forward, flush, trap, mret | everything | commits the program, in order | `Npc` |
| GPR, CSR (`backend/..gpr.sv`, `..csr.sv`) | register file, machine CSRs | write in WB, read in ID / EX | pipeline | equal to the reference after each commit | `Npc` |
| LSU (`backend/..lsu.sv`) | load machine, store machine | start, address, data, response, done; lanes | EX/MEM, bus | one access per instruction, of the right bytes | `Lsu`, `Lanes` |
| bus arbiter, CLINT (`bus/*`) | read machine, write machine; mtime | arbitrate, forward, answer | cache, LSU, crossbar, difftest | every request answered once, to its owner | `Bus` |
| crossbar, SRAM, UART (`npc_soc/*`) | SRAM and UART machines, memory | route, burst read, write, print | bus, DPI memory | stores happen once | `Soc`, `Sram` |
| NEMU reference (`nemu/src/isa/riscv32`) | pc, registers, CSRs, memory | execute one instruction, raise a trap | difftest | it is the meaning of a program | `Isa`, `Decoder` |
| differential test (`cpu/difftest`, `npc/npc.c`) | skip flag | step, skip, compare | commits, bus, cache, reference, debugger | notices every wrong commit, and no right one | `Npc`, `Difftest`, `Lanes` |
| execution loop (`cpu/cpu-exec.c`, `utils/state.c`) | nemu_state | execute, trace, update devices, end, abort, quit | sdb, devices, guest | never runs on after the end; the exit status tells failure | `Monitor`, `Device` |
| sdb (`monitor/sdb`) | watchpoint pool, tokens | si, c, q, w, d, p | loop | the pool is never corrupted; values are those of C | `Watchpoint`, `WatchSet`, `Monitor`, `Expr` |
| traces (`utils/trace.c`, `utils/log.c`) | ring, open run, list of tail calls | record, finish, display | loop, cache simulator | what is shown or written is what was executed | `Itrace`, `Ftrace` |
| cache simulator (`npc/simtools/cachesim`) | lines with LRU times | access, replay | binary trace | counts the hits of an LRU cache on the program | `Cachesim` |
| devices (`nemu/src/device`) with AM drivers | key ring, sync and time registers | key, quit, read, draw, sync, update | host events, guest | keys in order and once, frames shown, time monotone | `KeyQueue`, `KeyFifo`, `Device`, `Timer` |
| PS/2 driver (`am/src/riscv/ysyxsoc/input.c`) | none (the controller's queue) | poll | controller | keys in order, prefixes told of their own key only | `Ps2` |
| context switch (`am/src/riscv/npc/{cte.c,trap.S}`, yield-os) | stacks, PCBs | kcontext, yield, trap, mret | threads | contexts survive; threads take turns | `Cte` |
| x86 multiprocessor (`am/src/x86/qemu/{mpe,cte,trm}.c`, thread-os) | boot stack, contexts, lock | start CPUs, interrupt, schedule, lock | local timers | no stack is used twice; the lock excludes and moves on | `ThreadOs` |
| x86 virtual memory (`am/src/x86/qemu/vme.c`) | page tables, cr3, translations | vme_init, protect, map, unprotect | page allocator | spaces are separate, complete and returned | `Vme`, `AddrSpaces` |
| klib memory functions | memory, heap pointer | memmove, memcpy, malloc, free | programs | copies right; blocks disjoint | `Memmove`, `Malloc` |

What is hard here. In the core, five stages, two predictors, a cache and two bus
masters advance in the same clock cycle, each from wires computed from all the
others; memory latency is arbitrary, and flushes reach some units and not others.
In NEMU, keys, the window and the clock act between any two guest
instructions, one flag tells the differential test what to skip and several
parties set it, and the pool, the rings and the run-length trace have their
errors at the wrap and at the end. In the runtime, contexts are laid out by C and
read by assembly, several processors share an array of tasks, and tables
outlive the spaces they belong to. The programs in `am-kernels` reach a few of
these alignments. `PROJECT.json` lists the hazards with their lines.

## 2. Modules

### The core

A step of `Npc` is one rising clock edge with reset low. Combinational wires are
state functions with the source's names; registers are variables; each unit has
a `...Clock` action whose parameters are its input wires, and `Npc!Next` is the
conjunction of all of them: the design is synchronous, so the units do not
interleave. The nondeterminism is in the program (`Images`), in the latency of
the memory and in the value of the timer.

| module | models | notes |
|---|---|---|
| `Isa` | `decode_exec`, `isa_raise_intr` of NEMU | words instead of bytes, so pc + 4 is `Plus(pc, 1)`, modulo `WORDS`; `Decode` maps an instruction word to one of twelve operations |
| `Ifu`, `Icache`, `Btb`, `Ras` | the front end | one action per state of the IFU; refill beat by beat |
| `Lsu` | the load/store unit's machines | one action per state of each machine |
| `Bus` | the arbiter with the CLINT bypass | one action per state of each machine |
| `Sram`, `Soc` | crossbar, SRAM, UART of the NPC build | `YSYX_SRAM_DELAY` is a choice in every cycle |
| `Npc` | the top level: pipeline, hazards, forwarding, traps, register files, difftest | composes all of the above; holds the properties |
| `Halt` | `npc_exu_ebreak` called from the decoder | `Npc` until the call, then nothing; the history `sent` holds the words of the committed stores to the UART, `fenced` says that fence.i was in IF/ID since the last commit |
| `Lanes` | strobes, alignment and extension; `npc_read`/`npc_write`; `checkmems` | an access is one step on four-byte words |
| `Decoder` | controller, immediates, ALU, EX, CSR reads and writes beside `decode_exec` | pure functions over all operands |
| `MCNpc`, `MCHalt` | programs and constants for TLC | with the properties that name addresses or programs |

Output registers that the code sets and clears together with a state register
(`ifu_arvalid`, `io_master_rready`, ...) are state functions of that register.
An instruction in a pipeline register is its decoded form where the design
carries control signals: `op = "none"` is the all-zero bundle, and `read_mem`,
`write_reg`, `is_csr`, `exc_valid`, ... are predicates of `op`. The
controller decodes the IF/ID register even when it is not valid; `id` does the
same, and the finding `fence_i` depends on it. `Npc` needs only the operations
that differ in control; that all others compute the same as NEMU is `Decoder`'s
part, and that the bytes of an access are right is `Lanes`'s.

The reference machine `ref` executes one instruction for each commit, or copies
the core's registers when the skip flag is up (`RefClock` is `difftest_step`). The
flag is raised by device accesses on the bus and by the cache while fence.i is in
IF/ID (`icache_skip_ref`).
So the differential test's comparison becomes an invariant of every state
instead of a run-time check along one execution.

`mstatus` has its fields MIE, MPIE and MPP packed into four bits; this is the
reason for the assumption that `WORDS` is a multiple of 16 (2^32 is). Registers
without a reset start at 0, which is what the build does (`--x-initial fast` in
`npc/Makefile`). The one of them that would matter, `lsu_bvalid_reg`, is a
constant of the model (`PowerUpBvalid`).

### NEMU

| module | models | correspondence |
|---|---|---|
| `WatchSet` | what watchpoints promise | a set of numbers with expressions and last values |
| `Watchpoint` | `watchpoint.c` | `next`, `head`, `free_` are the pointers; an `assert(0)` sets `failed` |
| `Monitor` | `sdb_mainloop` and its commands, `cpu_exec`, `execute`, `set_nemu_state`, `is_exit_status_bad` | `phase` is where control stands; one `Execute` step is one turn of the loop of `execute`, its checks in the code's order |
| `Expr` | `check_parentheses`, `eval`, unary marking of `expr` | tokens are records; the reference value comes from a shunting of the same tokens by C's precedence |
| `Difftest` | `difftest_step`, `difftest_skip_ref` and its callers | the core may commit anything; the debugger may read devices between steps |
| `Itrace` | ring buffer, compressed binary trace | `executed` is the history both are compared with |
| `Cachesim` | `access_cache`, the replay | EXTENDS `Itrace`: it reads what NEMU wrote |
| `Ftrace` | `trace_func_call`, `trace_func_ret`, the tail list | `frames` is the real stack; the recursion of `trace_func_ret` is the longest chain it unwinds (`Returned`) |
| `KeyFifo`, `KeyQueue` | `keyboard.c` with `input.c` of AM | the ring, and the queue it implements |
| `Device` | `device_update`, `vga_update_screen`, the SDL events, the guest's accesses | EXTENDS `KeyQueue`; `Loop` is one turn of `execute`; `sdl_clear_event_queue` is what `sdb_mainloop` does with SDL's events at each command |
| `Timer` | `rtc`/`clint` callbacks with `__am_timer_uptime` | time passes between the two reads |

### The runtime

| module | models | correspondence |
|---|---|---|
| `Cte` | `kcontext`, `__am_asm_trap`, `__am_irq_handle`, `schedule` of yield-os | memory is words, and the sizes and offsets are those of `struct Context` and of trap.S with fewer registers |
| `Ps2` | `__am_input_keybrd` of ysyxSoC (`__am_input_keybrd_ps2`) | keyboard and controller external; a byte arrives, or the program polls, at any time; the history `lost` holds the prefixes that a poll has read before their code |
| `ThreadOs` | `mpe_init`, `_start_c` of the other CPUs, `__am_irq_handle`, `on_interrupt`, `func` of thread-os | a CPU is its stack, its place in the code and its interrupt flag |
| `AddrSpaces`, `Vme` | what am.h promises of address spaces; `vme.c` | pages with entries, an allocator, cr3 and the cached translations |
| `Memmove`, `Malloc` | `string.c`, `stdlib.c` | one step per byte; one step per call |

`MCSimulator`, `MCInstructions` and `MCMemory` put several of these modules into
one run: `MCSimulator` the debugger and loop in both builds, `Expr`, `Device`,
`Timer`, `Ps2`, `Cte` and `ThreadOs` (liveness); `MCInstructions` `Itrace` with
`Cachesim`, `Ftrace`, `Decoder`, `Lanes`, `Watchpoint` and `Difftest`; `MCMemory`
`Memmove`, `Malloc`, `Vme` and `ThreadOs` (safety). Where two modules interact they are composed by EXTENDS
(`Device` on `KeyQueue`, `Cachesim` on `Itrace`, `Halt` on `Npc`) or through the
abstract specification (`Monitor` on `WatchSet`). The remaining ones of a
run share no state at all, so interleaving them would add states and no
behaviour of either: the variable `part`, chosen in the initial state, says which
of them steps. A property about one of them that is not true of
another constant setting is guarded by `part`.

### Proofs

| module | theorems about |
|---|---|
| `Npc_proofs` | `Npc`: types, handshakes, the fetch path |
| `Pipeline_proofs` | `Npc`: the stages and the data path, what commits and what is stored |
| `Nemu_proofs` | `Watchpoint` with `WatchSet`, `Difftest`, `Itrace`; `Lanes` |
| `Debugger_proofs` | `Monitor` |
| `Runtime_proofs` | `KeyQueue` with `KeyFifo`, `Device`, `Cte`, `Timer`, `Ps2` |
| `Klib_proofs` | `Memmove`, `Malloc` |
| `ThreadOs_proofs` | `ThreadOs` |
| `Vme_proofs` | `Vme` with `AddrSpaces` |

## 3. Properties

A property of a run is often the conjunction of parts that the component's module
states one by one, each with its comment; the parts are named in parentheses.

The core:

- `DifftestPasses` (`CommitsInProgramOrder`, `RegistersMatch`, `CsrsMatch`,
  `ReportedNextPcMatches`): the instruction in WB is the one the reference
  executes next, and the three parts of `isa_difftest_checkregs`.
- `MemoryMatches`: between stores, memory is the reference's memory: no store is
  lost, done twice, or done for an instruction that does not commit.
- `FetchOnlyWhenDecodeEmpty`: the fact on which the small flush of a
  misprediction rests.
- `CacheShowsMemory` (`DecodesMemoryWord`, `CachedLinesMatchMemory`): the cache
  against memory. `CacheAndBusPaired`: the cache against the bus.
- `LsuAndBusPaired`: the LSU waits exactly while the bus owes it an answer.
- `SkipsItsOwnAccess`: the differential test skips an access to a device, and
  nothing in front of it or behind it; besides only the commits that fence.i hides
  while it is in IF/ID. Without fence.i that is `SkipsDevicesOnly`.
- `UartPrintsEachStoreOnce`: between stores the UART has printed the words of the
  committed stores to it (`Sent`), each once and in program order.
- `EndsAsReference`: when the decoder ends the simulation, up to three older
  instructions are still in the pipeline. `Ahead(k)` are the machines that the
  reference may be after `k` of them (several, because a device's answer may be
  open); at one `k` every one of them is at the ebreak in decode, with the exit
  status in a0, and at no smaller `k` is any of them at an ebreak.
- `KeepsCommitting`: liveness.
- `EffectsMatch` (with `ImmediatesMatch`): what each instruction does.
  `AccessesMatch` (`StoresMatch`, `LoadsMatch`, `StoresPassCheck`): the bytes of
  loads and stores, and `checkmems`.
- `TypeOK`: all registers have their types; the BTB counters saturate.

NEMU:

- `PoolPartitioned`, `ImplementsWatchSet`: the pool of watchpoints. That its lists
  have no cycles (`NoCycles`) is part of the proof.
- `ExitStatusTellsFailure`, `NoRunAfterEnd` (with `QuitIsPrompt`), `SiReturns`:
  the execution loop.
- `SameValueAsC`: the expression evaluator.
- `AbortsExactlyOnErrors` (`ErrorsAreCaught`, `NoFalseAlarm`): the differential
  test against a core that may do anything.
- `RingShowsNewest`, `TraceReplayed` (`TraceIsExecution`, `HitsAreLruHits`):
  instruction records and what the cache simulator makes of them.
- `CallsTraced` (`IndentIsNesting`, `CallsBalance`): the function trace.
- `IsFifo`, `KeysReachGuest`: every key once and in order, from the host to the
  guest, but for those that a command at the debugger's prompt clears.
- `WindowShowsSynced`, `HostServed` (`SyncServed`, `QuitLeaves`): the screen and
  the window.
- `UptimeDuringCall`: a time that is put together from two reads lies between them.

The runtime:

- `KeysInOrder` (`InOrder`, `FlagsSeen`): the PS/2 driver reports every code once
  and in order, and a prefix that an early poll has read is missed by its own key
  and by no other.
- `ContextsIntact` (with `StacksKept`): yield-os.
- `ContextsSafe` (`StacksNotShared`, `ContextsOwn`, `NoNullContext`),
  `OneHoldsLock`: thread-os.
- `AllTakeTurns` (`TakeTurns`, `BothRun`, `ThreadsTakeTurns`, `LockMovesOn`): the
  threads of both.
- `TablesSound` (`PagesAccounted`, `KernelMapped`, `UserTlbFresh`),
  `ImplementsSpaces`: page tables.
- `CopiesRight`, `BlocksDisjoint`: klib.

Each property of a passing run has a mutant in `PROJECT.json`: a change of one
mapped definition, of the kind a slip in the code would be, with which TLC finds
the property violated. The mutated forms are the definitions with a suffix
(`hazard_stall_ExOnly`, `new_wp_LoseTail`, ...) in front of the original.

## 4. Runs that pass

The runs of the core use 16 words of memory and 4 registers. Code lies from word
0, data at word 12. Programs are enumerated: the initial states are all images of
a given form, so a run covers every program of that form with every memory latency.

| run | instance | why these bounds |
|---|---|---|
| `hazard` | 625 loops of four instructions from addi, add, lw, sw, beq and a jump back, with fairness | four instructions fill EX, MEM, WB and ID with every combination of producers, consumers and accesses; in the second round the loop hits the cache and the BTB, and instructions follow each other closely enough to stall and forward; each program is an endless loop, so the state graph is finite |
| `predict` | 3125 loops of five from call, return, branch, indirect call, addition; one-set cache, second half uncacheable | calls and returns nest and mismatch, BTB entries alias (4 entries), the RAS wraps (4 entries) and every round evicts lines. A redirection never meets a refill (lemma `FlushesAreEarly` in `Npc_proofs`); a trap can, see `trap_refill` |
| `trap` | prologue, loops of four from ecall, CSR swaps of mscratch and mstatus, addi, beq, lw, and a handler with mret | traps meet every alignment of younger instructions; left out are the sequences of the findings `trap_store` and `csr_hazard` (a load right behind an ecall; two CSR accesses in a loop with a load) |
| `device` | 1296 programs of four from addi, lw, sw, UART store, UART load, CLINT load; 320 programs of three or four additions, branches and calls that end in ebreak; 64 of three UART stores, UART loads, CLINT loads and branches that end in ebreak; 455 of four from addi, lw, UART store, UART load, CLINT load and fence.i | every order of two or more device accesses with memory accesses between them; an ebreak behind taken and untaken branches, behind writes of a0 at each distance, and behind accesses that are still on their way; fence.i behind and in front of every access but a store to memory (section 5), and not as the last of its line (`fence_i`) |
| `simulator` | `si` up to 2, 2 numbers for watchpoints with 2 values, in both builds; expressions of up to 7 tokens; key ring of 3, 3 keys, period 2, 2 frames; words of 4 for the time; 3 PS/2 keys; stacks of 14 words; 2 CPUs with 3 threads | the loop is left at each of its exits; 7 tokens hold a sign, two operators of different rank and a pair of parentheses, or a division by a difference that is 0; the ring fills, wraps and overflows; the time carries twice; one CPU has two threads and one has its own |
| `instructions` | all operands of 4-bit words and all 32-bit immediates; 8 bytes of memory; programs of 6 instructions, ring of 3, cache of 32 bytes with 2 ways; 3 functions; pool of 3 nodes, 2 expressions; difftest on pcs and registers below 8 | shifts, signs and carries all occur in 4 bits; the ring is overwritten twice; the traces have runs, jumps and a wrapped pc; lines are evicted; functions nest, recurse and tail-call; three nodes are exhausted, freed from the front, the middle and the end |
| `memory` | memmove on all memories of 6 one-bit bytes; 3 blocks of malloc; 2 address spaces, 6 pages, 2 user pages in different tables; 3 CPUs with 4 threads | overlaps in both directions by every distance; the allocator runs empty and gives pages to a second owner; each CPU uses the boot stack after another and schedules beside two others |

Deadlock is checked in the runs of the core. In the other three a part may really
stop: a program ends, a user types nothing more, a queue is never filled again.
`Fns` and `Spaces` are symmetric sets; the runs that use the symmetry check
no liveness.

Fairness, and why the code justifies it:

- `hazard`: `WF(Next)`, the clock does not stop; and weak fairness of the ends
  of the SRAM's read and write delay, which in the code are counters that reach
  `YSYX_SRAM_DELAY`. Nothing is assumed about the arbiter, the pipeline or the caches.
- `simulator`: `WF(Execute)`, the host runs the loop of `execute`; nothing is
  assumed about the user of `Monitor`. Weak fairness of a turn of NEMU's loop with its
  devices, that is, the user does not stay at the prompt for ever, and of the host's
  clock; a quit event need not be served if a command clears it (`ignored`); of the steps of the processor that runs yield-os; of each CPU's steps and of
  its timer interrupt under thread-os. The local timer is periodic
  (`am/src/x86/qemu/ioe.c` sets TICR to 10000000), and its period is longer than
  a switch, so a thread executes at least one instruction between two
  interrupts. Nothing is assumed about who gets the lock.

## 5. Runs that show a disagreement

Each checks one property that a comment, an assertion or the design's own
statement makes; the finding in `PROJECT.json` quotes it.

| run | what happens |
|---|---|
| `fence_i` | fence.i stays in IF/ID while the next line is refilled and discards the refill; the cache then delivers a word it never stored |
| `trap_refill` | sw; ecall at the end of a line: the store delays the ecall, which commits while the next line replaces the handler's in the cache; its flush stops the refill after the first word, the old tag stays valid, and the handler starts with a word of the other line |
| `trap_store` | lw; ecall; sw: the load delays the ecall, the store reaches the LSU in the cycle in which the ecall commits, and is written although flushed |
| `csr_hazard` | lw; csrrw; csrrw: stalled behind the load, the second CSR instruction reads the CSR in EX before the first writes it in WB |
| `ras_override` | x1 is changed between call and return: the RAS redirects wrongly, the BTB had the right target, and EX sees no misprediction |

Smaller disagreements met while modelling have no run of their own. The passing
runs leave their inputs out, at a constant or a set of programs whose comment says so;
with the change in the last column TLC shows them.

| where | what the code does | to see it |
|---|---|---|
| `npc/vsrc/frontend/ysyx_25040131_ras.sv:38` | a call or return that waits in ID moves the stack in every cycle (prediction quality only) | `RasMovesWithDecode` with `EpilogueImages` |
| `npc/vsrc/ysyx_25040131.sv:794` | the cause of an illegal instruction is not passed from ID/EX to EX/MEM; mcause becomes 0, where controller.sv:399 sets 2 | `TrapCauseRecorded` with `IllegalImages` |
| `npc/vsrc/frontend/ysyx_25040131_icache.sv:163` | the cache asks the test to skip a commit at every edge with fence.i in IF/ID: an older instruction that commits meanwhile, or the one behind fence.i, is not compared | `SkipsDevicesOnly` with `MCHalt.cfg` |
| the same | a store that is hidden so is missing in the reference's memory, and a later load of it differs; a slow store that commits in front of fence.i uses the skip up, and fence.i, which NEMU does not know, aborts the reference | `DifftestPasses` with 3 (the store) in `FencePrograms` |
| `npc/vsrc/npc_soc/ysyx_25040131_xbar.sv:233` | a store to an address no slave owns waits for ever; the comment above says it returns DECERR | `StoresAreAnswered` with `StoreImages` and no data SRAM |
| `npc/vsrc/frontend/ysyx_25040131_id.sv:38` | ebreak ends the simulation from IF/ID: for lw x1; addi a0, a0; ebreak halt_ret is the a0 before the addi; for lw; ecall; ebreak it ends although the trap would flush it | `EndsAsReference` with these programs in `HaltImages` |
| `npc/vsrc/backend/ysyx_25040131_lsu.sv:145`, `:203` | a half word at an odd offset is stored unshifted, and loaded at offset 3 from offset 2; NEMU accesses the bytes | `Misaligned = {"store"}` or `{"load"}` with `StoresMatch`, `LoadsMatch` |
| `npc/vsrc/frontend/ysyx_25040131_controller.sv:299` | the comment announces a test for the M extension that does not follow: mul executes as add | `M = TRUE` with `EffectsMatch` |
| `npc/vsrc/backend/ysyx_25040131_csr.sv:87`, `:107` | an unknown CSR reads as 0 and a write to it, to mvendorid or to marchid is dropped; NEMU has some thirty CSRs, writes the two, and raises an illegal instruction for an address without a CSR (`nemu/src/isa/riscv32/inst.c:64`) | `Strays <- TRUE` with `EffectsMatch` |
| `nemu/src/cpu/cpu-exec.c:55` | with `CONFIG_WATCHPOINT`, a watchpoint that fires in the last instruction overwrites END, ABORT or QUIT with STOP, and the program can be resumed | `Watching!EndsAreKept` |
| `nemu/src/monitor/sdb/expr.c:280` | a minus or an asterisk behind a register or a hex number is taken as unary | `REG_MINUS = TRUE` with `SameValueAsC` |
| `nemu/src/monitor/sdb/expr.c:203` | of two unary operators in a row only the last is applied: - -3 is -3 | `NESTED_UNARY = TRUE` with `SameValueAsC` |
| `nemu/src/monitor/sdb/expr.c:288` | `*success` is set to true again after the test that made it false | `ErrorsReported` |
| `nemu/include/device/map.h:41` | the debugger's own reads of device addresses raise the skip flag, so the next commit is not compared | `ErrorsAreCaught` with `DeviceReads = TRUE` |
| `nemu/src/device/ysyxsoc/clint.c:15` | the CLINT takes a new time for each word read, and the driver reads the high word first | `Device = "clint"` with `UptimeDuringCall` |
| `abstract-machine/am/src/riscv/ysyxsoc/input.c:29` | `keydown` is assigned only for a release; for a press it is what the caller's stack held | `PressesSeen` |
| `abstract-machine/am/src/riscv/ysyxsoc/input.c:45` | a prefix read before its code has arrived is forgotten: the release becomes a press, the extended key another key | `ReleasesSeen`, `ExtSeen` |
| `abstract-machine/klib/src/stdlib.c:44` | a size one above a multiple of the unit is rounded down | `Sizes` with 1 and 5 for `BlocksDisjoint` |
| `abstract-machine/klib/src/stdlib.c:45` | nothing compares the pointer with heap.end | `BlocksInHeap` with `End = 20` |

Seen and not modelled: a jump table leaves nodes on the list of the function
trace that no return pops, and a target outside every function indexes
`symbol_tbl[-1]`; NEMU's rem by zero and INT_MIN / -1 (`inst.c:184`) fault on
the host; `vsnprintf` does not look at n inside a conversion, and %d of INT_MIN
and %p of 0 print no digits; the native port's audio pipe is commented out and
its input queue has no overflow check.

## 6. Proofs

The theorems hold for every value of the constants that satisfies the `ASSUME`s
of the modules (a number of words that is a multiple of 16, sizes that are
positive, maps that are sets of addresses); a theorem that needs more says so in
its `ASSUME`. Every proof has the same shape: an inductive invariant, one lemma
per action (or per unit of the core) that the step keeps it, and a temporal step.

### The core (`Npc_proofs`, `Pipeline_proofs`)

- `TypeOKHolds`. One lemma per unit (`IfuTypes`, `IcacheTypes`, ...) says that a
  clock edge keeps its registers in their types when its inputs have theirs;
  `WireTypes` types the wires; `ExecType` types the reference machine.
- `FetchOnlyWhenDecodeEmptyHolds`: inductive as it stands. The only interesting
  step is IDLE -> REQ_AR: the IFU starts only if IF/ID is ready, and a ready IF/ID
  that receives nothing is empty afterwards (`IfIdDrains`).
- `CacheAndBusPairedHolds`: inductive as it stands: the cache enters MISS_R only
  in the cycle in which the bus accepts its request, and the bus leaves the burst
  only with the beat on which the cache leaves MISS_R.
- `LsuReadPairedHolds`, `LsuAndBusPairedHolds`: the store half needs the
  strengthening `StoreHandshake` (address and data always travel together, so
  `aw_done` and `w_done` of the LSU are never left set and the bus flags agree).
  It assumes `PowerUpBvalid = {FALSE}`.
- `FetchShowsMemory`: `Spec /\ []Plain /\ [][CodeKept]_vars => []CacheShowsMemory`
  for a region `Code` of SRAM that contains whole lines where it is cacheable
  (`CodeLines`). The hypotheses say that the program stays in `Code`, that no step
  stores to `Code`, and that no ecall, mret, illegal instruction or fence.i is
  decoded (a decode of one on a wrong path counts). They are what the code needs,
  not what the proof needs: `trap_refill` and `fence_i` are counterexamples
  without the last two, and a store to a cached line is not seen by the cache
  by design. The programs of `hazard` and `predict` satisfy them. The invariant
  `FetchedRight` follows a word from the SRAM to decode:
  `Redirect` (the IFU is redirected only before its request is in the cache, so a
  request that was made is waited for), `Coupled` (the IFU and the cache agree on
  the request), `BurstInv` (the burst of the SRAM is the one the bus registered,
  and its word is memory's), `Counted` (the cache stores as many words as were
  sent), `Lines` (every valid line shows memory, the one being replaced up to the
  last word stored; the two ways of a set never hold the same tag) and `Fetched`.
  The address arithmetic (tag, index and word of an address for any number of
  sets and words per line) is in `Quotient`, `Mixed` and `AddressSplit`.

- `DifftestPassesHolds`, `MemoryMatchesHolds`, `SkipsItsOwnAccessHolds`:
  `Spec /\ []Tame` implies `[]DifftestPasses` and `[]MemoryMatches`, and
  `HaltSpec /\ []Tame` implies `[]SkipsItsOwnAccess`, which is `SkipsDevicesOnly`
  then: `Tame` excludes fence.i, so `fenced` stays false. `Tame` is what is asked of the program:
  - `Plain`: as for `FetchShowsMemory`;
  - `DataApart`: loads go to SRAM, a skipped device or the CLINT, stores to SRAM
    outside `Code` or to a skipped device;
  - `CsrApart`: no csrrw leaves EX while a csrrw of the same CSR is in MEM or WB;
  - `RasHarmless`: where decode redirects the fetch by the RAS, the RAS is right, or
    the BTB is wrong too, so that EX redirects again.

  The constants are asked that `Code` is whole lines (`CodeLines`), that neither the
  CLINT nor a skipped device lies in SRAM (`DevicesApart`), and `PowerUpBvalid =
  {FALSE}`. `trap_store`, `trap_refill`, `fence_i`, `csr_hazard` and `ras_override`
  are counterexamples where a part of `Tame` fails; the programs of `hazard`,
  `predict` and `device` (but those with fence.i) keep it in every state, and TLC has checked the invariant
  on all three.

  The invariant `Sound` gives every stage the machine its instruction is executed
  on: `ref` for WB, `AtMem`, `AtEx` and `AtId` for the stages before it, each the
  machine that executing the instructions ahead leaves. What a device answers is
  on no machine: a skipped commit copies the core to the reference. `AtEx` and
  `AtId` are therefore functions of the answers still to come, and the invariant
  says its part of the machine for every answer; that a load's result is used by
  nothing before it is there (`InEx`) is what makes that possible. A clock edge shifts these
  machines with the instructions (`Shift`). `InWb`, `InMem` and `InEx` say that a
  pipeline register holds what its instruction does to its machine: what ID read
  from the registers lacks at most the results that MEM and WB forward
  (`WriteBack`, `Forwarding`, `Operands`), and the load-use stall keeps a load's
  result from being needed before it is there. `Front` says that decode holds the
  instruction of `AtId`, and that the IFU is behind it unless EX is about to find a
  wrong prediction: this is where the BTB, the RAS and the flush of IF/ID without
  ID/EX come together (`Detects`, `FrontStep`). `StorePath` says how far the bus
  and the SRAM have got with a store, `StoreRight` that it is the one in MEM and
  that memory is what the instructions ahead of it have stored (`Stored` from
  the SRAM's answer on), `LoadRight` that a load is given the word of memory.
  `SkipRight` says that the flag which the bus sets when a device access shows
  (`Shown`) is up from then until the commit of that access and at no other
  time: WB is empty while the LSU works, so no commit in front of it takes the flag.
  `CodeKept`, a hypothesis of `FetchShowsMemory`, follows here (`CodeStays`).

- `UartPrintsEachStoreOnceHolds`: `HaltSpec /\ []Tame` implies
  `[]UartPrintsEachStoreOnce`, with the constants asked the same. Every step of
  `Halt` is one of `Npc` or a stutter (`HaltRefines`), so `Sound` holds. `UartPath`
  says how far the bus and the UART have got with a store, each handshake with the
  flags it leaves; `UartDone` is the time from the cycle in which the UART prints
  to the one in which the LSU has its answer, and `UartRight` that `uart_out` is
  `Sent`, with the word of the store in MEM behind it during `UartDone`. A store leaves
  MEM for WB in the cycle in which `UartDone` ends, so the word passes from
  the one to the other (`UartMoves`, `UartStep`).
- `EndsAsReferenceHolds`: `HaltSpec /\ []Tame /\ []A0Arrives` implies
  `[]EndsAsReference`, with the constants asked the same. `A0Arrives` says that while
  an ebreak is fetched, no instruction that writes a0 waits for an access, neither
  its own nor that of an older instruction; without it the decoder reads a0 too early
  (`id.sv:38` in section 5). `Behind` says that no instruction older than the one in
  decode is an ebreak (it would have ended the simulation), so the ebreak is the
  first; `Ending` follows the writers of a0 down the pipeline while the ebreak is
  fetched, until none is left. That an ebreak in decode is the
  reference's next instruction and not one of a wrong path is `Front`. `Reaches` shows that `Step` of the reference, for
  every answer, arrives at `AtId`.
- `AccessesAlwaysMatch` (`Nemu_proofs`; `WholeWords`: the memory is whole words,
  and no access is misaligned, see section 5): an aligned access starts at its offset
  in a word and ends in it (`Aligned`), so what goes through the lanes is what goes
  past them (`StoreWrites`), for every width of a byte.

### NEMU

- `PoolStaysPartitioned` (`Nemu_proofs`): a list is the least set that
  holds its first node and is closed under `next`. That definition needs no
  induction: the lemmas say what pushing on, popping from and unlinking out of a
  list do to it. `PoolImplementsWatchSet`: the refinement of `WatchSet` with
  `watched` mapped to the nodes of the active list, from the same invariant.
- `AbortsAreRight`: the invariant `Agreed` says that the reference is where the
  core is until a commit was wrong, and that without reads of devices by the
  debugger no skip is pending between commits.
- `NothingRunsAfterTheEnd` (`Debugger_proofs`, assumes that the largest argument of
  si is a number): `Ending` says that nemu_state keeps the end until the debugger
  exits, unless a watchpoint's stop has replaced it; the second part of the
  theorem says that this never happens without `CONFIG_WATCHPOINT`, so that
  nothing at all runs then. `ExitStatusIsRight`: `BatchRun` relates
  the state and the halt value to how the program ended.
- `RingAlwaysShowsNewest` (`Nemu_proofs`): the invariant relates every slot of
  the ring to the number of the instruction it holds; the lemmas are about
  `%` at the wrap.
- `TraceIsReplayed` (`Nemu_proofs`): `BinInv` says that the nodes on disk and the
  one being counted stand for the program so far, `Reading` how much of that the
  simulator has read, and `Lru` what the lines of a set remember: each valid line
  the last use of its block, no two the same, and a block whose last use no line
  remembers has been driven out by later ones in every way (`DrivenOut`). A hit
  then means that every other block used since has a way of its own beside it
  (`HitIsLruHit`), a miss that the ways hold as many of them as there are
  (`MissIsLruMiss`).
- `CallsAreTraced` (`Nemu_proofs`): `Pending` maps each jump on the list to the
  frame it entered, in order; the jumps above the newest call are then the first of
  the list (`TopJumps`), and the chain that a ret unwinds ends exactly there
  (`UndoesTheChain`), because the functions of a plain stack are distinct. That the
  depth never falls below the boot frames needs `BootCalled`.
- `QueueIsFifo` (`Runtime_proofs`): the refinement of `KeyFifo` with `waiting`
  mapped to the ring from `key_f` to `key_r`; its length and each of its elements
  are followed through both ends. `KeysAlwaysReachGuest` composes it with SDL's
  queue and the loop: what the guest has read, the ring and SDL's queue
  together are the keys pressed (`Keyboard`). `WindowAlwaysSynced`: a set sync
  register owes the window a frame that may be shown (`Window`).

### The runtime

- `ContextsStayIntact` (`Runtime_proofs`; `StackFits`: a stack has room for a
  Context and for what `f` keeps on it): `Switching` says where each suspended
  thread's frame lies and that its words are those it left; the words of different
  threads are disjoint (`OwnWords`).
- `UptimeIsDuringCall` (`Runtime_proofs`; `Clocked`, and the device is the rtc):
  `Latched` says that between the two reads the low word belongs to the time at
  which the high one was read.
- `ScanKeysInOrder` (`Runtime_proofs`; `CodesApart`: the code of a key is neither a
  prefix nor 0): the prefixes that the driver has read and forgotten, the
  queue and the wire are together one stream (`Joins`), which spells the keys not yet
  reported (`Spells`: where the bytes of each begin). `Polled` says so, and that `lost`
  holds just the forgotten prefixes of the next key (`LostAre`). A byte that arrives
  and a poll that finds prefixes only move the borders in the stream (`PolledArrive`,
  `PolledForget`); a poll that finds a code has the first key's last byte, with those
  of its prefixes that are still in the queue (`ScanTakes`, `PolledTake`).
- `MemmoveCopiesRight` (`Klib_proofs`): k bytes are the old source, the source
  bytes still to be read are untouched (which is what the direction is chosen for),
  and so is everything outside the destination.
- `MallocBlocksDisjoint` (`Requests`: a unit of at least 2, and no request one
  above a multiple of it, which malloc rounds down, see section 5): every block
  ends, rounded, below the pointer (`Below`).
- `ContextsAlwaysSafe`, `LockExcludes` (`ThreadOs_proofs`; `Counts`: at least one
  processor and one thread): `Control` fixes, for each place in the code, the
  stack, task and interrupt flag a processor has there (`Placed`), and the order
  of the start (`BootOrder`): the processors below `cpu` have left the boot stack.
- `TablesAlwaysSound`, `TablesImplementSpaces` (`Vme_proofs`; `Layout`: the
  kernel's areas and the user's pages are in different directory entries, and
  there are pages enough for `vme_init`): `TablesInv` says that each directory has
  the kernel's entries and tables of its own, and that every page has one owner
  (`OneOwner`); the refinement follows from what one stored entry changes
  of the walks of every space.

### Only model-checked

- `DifftestPasses` of programs that are not `Tame`: with traps and mret (`trap`).
- `SameValueAsC` compares two RECURSIVE evaluators of token sequences, and a
  module that declares one cannot be proved about. The folds and chains of the
  traces are recursive functions or sets, and what looks like induction over them
  is done through a least counterexample (`LeastNatural`).
- `EffectsMatch` uses `Bitwise`; it is a finite table, checked exhaustively at a
  small width.
- Every liveness property (`KeepsCommitting`, `SiReturns`, `HostServed`,
  `AllTakeTurns`): liveness under fairness is outside what the prover does.

## 7. Composition and refinement

`Npc` is itself a composition: it EXTENDS the units and wires their parameters
together in `FrontClock`, `PipeClock` and `MemClock`. Its abstract
specification is `Isa!Exec`; the correspondence is stated through `ref`, which
takes an `Exec` step for each commit, so the core implements the sequential
machine when `CommitsInProgramOrder`, `RegistersMatch`, `CsrsMatch` and
`MemoryMatches` hold.

Three detailed specifications are shown to implement an abstract one by
INSTANCE ... WITH, each checked by TLC and proved: `Watchpoint` implements
`WatchSet`, `KeyQueue` implements `KeyFifo` (checked inside `Device`), and `Vme`
implements `AddrSpaces`. `Monitor` then uses `WatchSet` in place of the pool.

## 8. Abstractions to keep in mind

- In `Npc` ALU operations are addition, branches are beq, CSR instructions are
  csrrw, and accesses are aligned words. `Decoder` and `Lanes` say that the other
  forms compute what NEMU computes; no composed run has both.
- `Decoder` executes on words of `XLEN` bits with the shift amount scaled; the
  immediates are the real 32-bit ones.
- No compressed code; of the M extension only mul, which the core does not have.
- The rs2 field of an I-type instruction takes part in the hazard check as raw
  bits in the design; the decode tables have 0 there.
- NEMU has no pattern for fence.i. Its commit is skipped and the core copied, unless
  an older instruction has used the skip up (section 5); the reference then stops at
  it, as it does at an illegal instruction.
- `ThreadOs` assumes at least as many tasks as processors; with fewer,
  `on_interrupt` of a processor without a task searches for ever.
- `Device` measures time in steps of the host's clock; only comparisons with the
  period matter.

## 9. Not modelled

- Text: NEMU's logs and disassembly, the regular expressions of `make_token`,
  the formatting of klib's `stdio.c`, parsing of ELF files and command lines.
- NEMU: the table of address maps, the serial port (one putc), disk and audio
  (empty), the alarm (it raises a request nothing serves), the sdcard (its driver
  is not in the repository).
- Ports: the native one depends on signals and forks of the host; mips32 and
  loongarch32r repeat the RISC-V one; `vme.c` and `mpe.c` of the RISC-V ports are
  empty.
- The external ysyxSoC interconnect, which is not in the repository.
- Programs (cpu-tests, coremark, litenes, fceux-am): inputs of the system.
- Vendored and generated code: kconfig, fixdep, libgcc, the ROM images.

Of the repository's C and C++ lines most belong to the last two groups (fceux-am,
litenes, the benchmarks, two copies of kconfig and of libgcc), and the core itself
is SystemVerilog; the share of C lines that the map covers is therefore small even
though the parts written for this workbench are modelled.

## 10. Plan

Done: the core with its runs; the debugger, loop, traces and devices of NEMU;
the runtime's contexts, drivers, processors and page tables; klib's memory
functions; the theorems of section 6, with all three refinements.

Next, in this order:

1. The pipeline theorem with traps and mret: a trap flushes at a point where
   `Front` lets nothing but a misprediction flush, and the refill that it may meet
   (`trap_refill`) has to be excluded by hypothesis.
2. NEMU's address maps, and the number formatting of klib as functions.
