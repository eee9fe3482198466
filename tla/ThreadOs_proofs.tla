--------------------------- MODULE ThreadOs_proofs ---------------------------
(******************************************************************************)
(* thread-os, for every number of processors and of threads: the processors   *)
(* start one after the other on one boot stack, no stack or context is ever   *)
(* shared, and the spin lock excludes, whoever is interrupted and switched    *)
(* out while holding it.                                                      *)
(******************************************************************************)
EXTENDS ThreadOs, TLAPS

(* At least one processor and one thread; a processor without a thread keeps  *)
(* searching, which disturbs nobody.                                          *)
Counts == NCPU \in Nat \ {0} /\ NTASK \in Nat \ {0}

HandlerPcs == {"next", "__am_iret"}
BootPcs    == {"_start_c", "main", "mpe_init", "wait"}

(* Where a processor is in its code determines its stack, its task and its    *)
(* interrupt flag; a task belongs to one processor, whatever the handler has  *)
(* advanced currents to.                                                      *)
Placed(c) ==
    /\ run[c].pc = "off" => run[c] = Off /\ c # 0
    /\ run[c].pc = "_start_c" => run[c] = Code(Boot, "_start_c", FALSE)
    /\ run[c].pc \in {"main", "mpe_init", "wait"} => c = 0
    /\ run[c].pc = "othercpu_entry" => c # 0
    /\ run[c].pc \in {"main", "mpe_init", "wait", "othercpu_entry", "mp_entry", "yield"} =>
          run[c].stack = Own /\ (run[c].ief <=> run[c].pc = "yield")
    /\ run[c].pc \in {"off", "othercpu_entry", "mp_entry", "yield"} \cup BootPcs =>
          currents[c] = NoTask
    /\ run[c].pc \in ThreadPcs =>
          run[c].stack \in Tasks /\ currents[c] = run[c].stack /\ Mine(c, run[c].stack) /\ run[c].ief
    /\ run[c].pc = "on_interrupt" =>
          /\ ~ run[c].ief
          /\ frame[c].stack = run[c].stack
          /\ IF currents[c] = NoTask
             THEN run[c].stack = Own
             ELSE /\ run[c].stack = currents[c] /\ Mine(c, currents[c])
                  /\ frame[c].ief /\ frame[c].pc \in ThreadPcs
    /\ run[c].pc \in HandlerPcs =>
          /\ ~ run[c].ief
          /\ currents[c] \in Tasks
          /\ run[c].stack = Own \/ (run[c].stack \in Tasks /\ Mine(c, run[c].stack))
    /\ run[c].pc = "__am_iret" => Mine(c, currents[c])
    /\ run[c].pc # "panic"

Started(c) == run[c].pc \notin {"off", "_start_c", "othercpu_entry"}

(* The order of the start: mpe_init has started the processors below cpu and  *)
(* they have left the boot stack; it waits for processor cpu until that one   *)
(* has; the others are off.  The contexts are made before any of them starts. *)
BootOrder ==
    /\ run[0].pc \in {"_start_c", "main"} => cpu = 1 /\ ~ is_ap
    /\ run[0].pc = "wait" => is_ap /\ cpu < NCPU
    /\ run[0].pc \notin BootPcs => cpu = NCPU
    /\ ap_ready = 1 => run[0].pc = "wait"
    /\ run[0].pc = "wait" => (Started(cpu) <=> ap_ready = 1) /\ run[cpu] # Off
    /\ \A c \in Cpus \ {0} : c < cpu => Started(c)
    /\ \A c \in Cpus \ {0} : c > cpu \/ (c = cpu /\ run[0].pc # "wait") => run[c] = Off

ContextsMade ==
    run[0].pc \notin {"_start_c", "main"} => \A t \in Tasks : context[t] # Off

Control == TypeOK /\ (\A c \in Cpus : Placed(c)) /\ BootOrder /\ ContextsOwn /\ ContextsMade

------------------------------------------------------------------------------
(* Types *)

LEMMA CodeTyped ==
  ASSUME NEW s \in 0 .. None, NEW p \in Pcs, NEW i \in BOOLEAN
  PROVE  /\ Code(s, p, i) \in Codes
         /\ Code(s, p, i).stack = s /\ Code(s, p, i).pc = p /\ Code(s, p, i).ief = i
BY DEF Code, Codes

LEMMA CodeFields ==
  ASSUME NEW r \in Codes
  PROVE  r.stack \in 0 .. None /\ r.pc \in Pcs /\ r.ief \in BOOLEAN
BY DEF Codes

LEMMA StackTyped ==
  ASSUME Counts
  PROVE  /\ Boot \in 0 .. None /\ Own \in 0 .. None /\ None \in 0 .. None
         /\ \A t \in Tasks : t \in 0 .. None /\ t \notin {Boot, Own, None}
         /\ Boot # Own /\ Own # None /\ Boot # None
BY DEF Counts, Boot, Own, None, Tasks

LEMMA OffTyped ==
  ASSUME Counts
  PROVE  Off \in Codes /\ Off.stack = None /\ Off.pc = "off" /\ ~ Off.ief
BY CodeTyped, StackTyped, "off" \in Pcs, FALSE \in BOOLEAN DEF Off, Pcs

(* What a step does to the processor that takes it, and to the others.        *)
LEMMA Sets ==
  ASSUME run \in [Cpus -> Codes], NEW c \in Cpus, NEW r \in Codes, run' = [run EXCEPT ![c] = r]
  PROVE  run' \in [Cpus -> Codes] /\ run'[c] = r /\ \A d \in Cpus \ {c} : run'[d] = run[d]
OBVIOUS

LEMMA Goes ==
  ASSUME run \in [Cpus -> Codes], NEW c \in Cpus, NEW p \in Pcs, Goto(c, p)
  PROVE  /\ run' \in [Cpus -> Codes]
         /\ run'[c].stack = run[c].stack /\ run'[c].pc = p /\ run'[c].ief = run[c].ief
         /\ \A d \in Cpus \ {c} : run'[d] = run[d]
<1>1. run' = [run EXCEPT ![c] = [run[c] EXCEPT !.pc = p]]
  BY DEF Goto
<1>2. [run[c] EXCEPT !.pc = p] \in Codes
  BY DEF Codes
<1>3. run'[c] = [run[c] EXCEPT !.pc = p]
  BY <1>1
<1>4. run'[c].stack = run[c].stack /\ run'[c].pc = p /\ run'[c].ief = run[c].ief
  BY <1>3 DEF Codes
<1> QED BY <1>1, <1>2, <1>4

(* iset(true) in mp_entry. *)
LEMMA Enables ==
  ASSUME run \in [Cpus -> Codes], NEW c \in Cpus, mp_entry(c)
  PROVE  /\ run' \in [Cpus -> Codes]
         /\ run'[c].stack = run[c].stack /\ run'[c].pc = "yield" /\ run'[c].ief
         /\ \A d \in Cpus \ {c} : run'[d] = run[d]
<1> DEFINE paused == [run[c] EXCEPT !.pc = "yield"]
           r == [paused EXCEPT !.ief = TRUE]
<1>1. paused \in Codes /\ paused.stack = run[c].stack /\ paused.pc = "yield"
  BY DEF Codes, Pcs
<1>2. r \in Codes /\ r.stack = run[c].stack /\ r.pc = "yield" /\ r.ief
  <2> HIDE DEF paused
  <2> QED BY <1>1 DEF Codes
<1>3. run' = [run EXCEPT ![c] = r]
  BY DEF mp_entry
<1> HIDE DEF r
<1> QED BY <1>2, <1>3, Sets

LEMMA InitTypeOK ==
  ASSUME Counts, OsInit
  PROVE  TypeOK
<1>1. Code(Boot, "_start_c", FALSE) \in Codes /\ Off \in Codes
  BY OffTyped, CodeTyped, StackTyped DEF Pcs
<1>2. run \in [Cpus -> Codes] /\ frame \in [Cpus -> Codes] /\ context \in [Tasks -> Codes]
  BY <1>1 DEF OsInit
<1>3. currents \in [Cpus -> Tasks \cup {NoTask}] /\ cpu \in 1 .. NCPU
  BY DEF OsInit, Counts
<1> QED BY <1>2, <1>3 DEF OsInit, TypeOK

LEMMA StepTypeOK ==
  ASSUME Counts, Control, [OsNext]_osVars
  PROVE  TypeOK'
<1>0. TypeOK
  BY DEF Control
<1>1. CASE UNCHANGED osVars
  BY <1>0, <1>1 DEF osVars, TypeOK
<1>2. ASSUME NEW c \in Cpus, Step(c) \/ Interrupt(c) PROVE TypeOK'
  <2> USE <1>0 DEF TypeOK
  <2>1. CASE _start_c(c)
    <3>1. Code(Own, IF is_ap THEN "othercpu_entry" ELSE "main", FALSE) \in Codes
      BY CodeTyped, StackTyped DEF Pcs
    <3> QED BY <2>1, <3>1, Sets DEF _start_c
  <2>2. CASE main(c)
    <3>1. \A t \in Tasks : kcontext(t) \in Codes
      BY CodeTyped, StackTyped DEF kcontext, Pcs, ThreadPcs
    <3> QED BY <2>2, <3>1, Goes DEF main, Pcs
  <2>3. CASE mpe_init(c)
    <3>1. CASE cpu < NCPU
      <4>1. cpu \in Cpus
        BY <3>1 DEF Counts, Cpus
      <4>0. Code(Boot, "_start_c", FALSE) \in Codes
        BY CodeTyped, StackTyped DEF Pcs
      <4>2. [run[c] EXCEPT !.pc = "wait"] \in Codes
        BY DEF Codes, Pcs
      <4>3. run' \in [Cpus -> Codes]
        BY <2>3, <3>1, <4>0, <4>1, <4>2 DEF mpe_init
      <4> QED BY <2>3, <3>1, <4>3 DEF mpe_init
    <3>2. CASE ~ (cpu < NCPU)
      BY <2>3, <3>2, Goes DEF mpe_init, Pcs
    <3> QED BY <3>1, <3>2
  <2>4. CASE mpe_wait(c)
    <3>1. cpu < NCPU
      BY <2>4 DEF mpe_wait, At, Control, Placed, BootOrder
    <3>2. cpu + 1 \in 1 .. NCPU
      BY <3>1 DEF Counts
    <3> QED BY <2>4, <3>2, Goes DEF mpe_wait, Pcs
  <2>5. CASE othercpu_entry(c)
    BY <2>5, Goes DEF othercpu_entry, Pcs
  <2>6. CASE mp_entry(c)
    <3>1. run' \in [Cpus -> Codes]
      BY <2>6, Enables
    <3>2. UNCHANGED <<frame, ran, currents, context, locked, ap_ready, is_ap, cpu>>
      BY <2>6 DEF mp_entry
    <3> QED BY <3>1, <3>2
  <2>7. CASE yield(c) \/ Interrupt(c)
    <3>1. Code(run[c].stack, "on_interrupt", FALSE) \in Codes
      BY CodeTyped, CodeFields DEF Pcs
    <3>2. trap(c)
      BY <2>7 DEF yield, Interrupt
    <3> QED BY <3>1, <3>2, Sets DEF trap
  <2>8. CASE on_interrupt(c)
    BY <2>8, Goes DEF on_interrupt, Tasks, Pcs, Counts
  <2>9. CASE next(c)
    <3>1. (currents[c] + 1) % NTASK \in Tasks
      BY DEF Counts, Tasks, NoTask
    <3> QED BY <2>9, <3>1, Goes DEF next, Pcs
  <2>10. CASE __am_iret(c)
    <3>1. CASE context[currents[c]] = Off
      BY <2>10, <3>1, Goes DEF __am_iret, Pcs
    <3>2. CASE context[currents[c]] # Off
      <4>1. currents[c] \in Tasks
        BY <2>10 DEF __am_iret, At, Control, Placed, HandlerPcs
      <4> QED BY <2>10, <3>2, <4>1, Sets DEF __am_iret
    <3> QED BY <3>1, <3>2
  <2>11. CASE lock(c) \/ print(c) \/ unlock(c) \/ delay(c)
    BY <2>11, Goes DEF lock, print, unlock, delay, Thread, Pcs, ThreadPcs
  <2> QED BY <1>2, <2>1, <2>2, <2>3, <2>4, <2>5, <2>6, <2>7, <2>8, <2>9, <2>10, <2>11 DEF Step
<1> QED BY <1>1, <1>2 DEF OsNext

------------------------------------------------------------------------------
(* Control *)

(* main, mpe_init, _start_c of processor 0: nobody else has started; a        *)
(* processor that runs at all otherwise finds the contexts made.              *)
LEMMA OthersAfterMain ==
  ASSUME Counts, Control, NEW c \in Cpus, run[c].pc # "off", run[0].pc \in {"_start_c", "main"}
  PROVE  c = 0
<1>1. CASE c # 0
  <2>1. c > cpu \/ c = cpu
    BY <1>1 DEF Counts, Control, BootOrder, Cpus
  <2>2. run[c] = Off
    BY <1>1, <2>1 DEF Control, BootOrder
  <2> QED BY <2>2, OffTyped
<1> QED BY <1>1

LEMMA PlacedKept ==
  ASSUME NEW d \in Cpus, Placed(d),
         run'[d] = run[d], frame'[d] = frame[d], currents'[d] = currents[d]
  PROVE  Placed(d)'
BY DEF Placed, Mine

LEMMA StepPlaced ==
  ASSUME Counts, Control, NEW c \in Cpus, Step(c) \/ Interrupt(c)
  PROVE  \A d \in Cpus : Placed(d)'
<1> USE DEF At
<1>0. TypeOK /\ (\A d \in Cpus : Placed(d))
  BY DEF Control
<1>1. CASE _start_c(c)
  <2>1. Code(Own, IF is_ap THEN "othercpu_entry" ELSE "main", FALSE) \in Codes
    BY <1>0, CodeTyped, StackTyped DEF Pcs, TypeOK
  <2>2. /\ run'[c].stack = Own /\ ~ run'[c].ief
        /\ run'[c].pc = IF is_ap THEN "othercpu_entry" ELSE "main"
        /\ \A d \in Cpus \ {c} : run'[d] = run[d]
    BY <1>0, <1>1, <2>1, Sets DEF _start_c, TypeOK, Code
  <2>3. is_ap <=> c # 0
    <3>1. CASE c = 0
      BY <3>1, <1>1 DEF Control, BootOrder, _start_c
    <3>2. CASE c # 0
      <4>1. run[c].pc = "_start_c" /\ run[c] # Off
        BY <1>1, OffTyped DEF _start_c
      <4>2. c = cpu /\ run[0].pc = "wait"
        BY <3>2, <4>1, <1>0 DEF Control, BootOrder, Started, Counts, Cpus, TypeOK
      <4> QED BY <3>2, <4>2 DEF Control, BootOrder
    <3> QED BY <3>1, <3>2
  <2>4. Placed(c)'
    <3>1. run[c].pc = "_start_c" /\ currents[c] = NoTask /\ UNCHANGED currents
      BY <1>0, <1>1 DEF _start_c, Placed, BootPcs
    <3>2. CASE c = 0
      BY <2>2, <2>3, <3>1, <3>2 DEF Placed, BootPcs, ThreadPcs, HandlerPcs
    <3>3. CASE c # 0
      BY <2>2, <2>3, <3>1, <3>3 DEF Placed, BootPcs, ThreadPcs, HandlerPcs
    <3> QED BY <3>2, <3>3
  <2> QED BY <1>0, <1>1, <2>2, <2>4, PlacedKept DEF _start_c
<1>2. CASE main(c)
  <2>1. /\ run'[c].stack = run[c].stack /\ run'[c].pc = "mpe_init" /\ run'[c].ief = run[c].ief
        /\ \A d \in Cpus \ {c} : run'[d] = run[d]
    BY <1>0, <1>2, Goes DEF main, TypeOK, Pcs
  <2>2. Placed(c)'
    BY <1>0, <1>2, <2>1 DEF main, Placed, BootPcs, ThreadPcs, HandlerPcs
  <2> QED BY <1>0, <1>2, <2>1, <2>2, PlacedKept DEF main
<1>3. CASE mpe_init(c)
  <2>1. c = 0 /\ run[c].pc = "mpe_init"
    BY <1>0, <1>3 DEF mpe_init, Placed
  <2>2. CASE cpu < NCPU
    <3>0. PICK k \in Cpus : k = cpu /\ k # c
      BY <1>0, <2>1, <2>2 DEF Cpus, Counts, TypeOK
    <3>2. /\ run'[c].stack = run[c].stack /\ run'[c].pc = "wait" /\ run'[c].ief = run[c].ief
          /\ run'[k] = Code(Boot, "_start_c", FALSE)
          /\ \A d \in Cpus \ {c, k} : run'[d] = run[d]
      BY <1>0, <1>3, <2>2, <3>0 DEF mpe_init, TypeOK, Codes
    <3>3. Placed(c)'
      BY <1>0, <1>3, <2>1, <3>2 DEF mpe_init, Placed, BootPcs, ThreadPcs, HandlerPcs
    <3>4. run[k] = Off
      BY <1>3, <2>1, <3>0 DEF mpe_init, Control, BootOrder
    <3>5. currents[k] = NoTask
      BY <1>0, <3>0, <3>4, OffTyped DEF Placed
    <3>6. Placed(k)'
      BY <1>3, <3>2, <3>5, StackTyped DEF mpe_init, Code, Placed, BootPcs, ThreadPcs, HandlerPcs
    <3>7. \A d \in Cpus \ {c, k} : Placed(d)'
      BY <1>0, <1>3, <3>2, PlacedKept DEF mpe_init
    <3> QED BY <3>3, <3>6, <3>7
  <2>3. CASE ~ (cpu < NCPU)
    <3>1. /\ run'[c].stack = run[c].stack /\ run'[c].pc = "mp_entry" /\ run'[c].ief = run[c].ief
          /\ \A d \in Cpus \ {c} : run'[d] = run[d]
      BY <1>0, <1>3, <2>3, Goes DEF mpe_init, TypeOK, Pcs
    <3>2. Placed(c)'
      BY <1>0, <1>3, <3>1 DEF mpe_init, Placed, BootPcs, ThreadPcs, HandlerPcs
    <3> QED BY <1>0, <1>3, <3>1, <3>2, PlacedKept DEF mpe_init
  <2> QED BY <2>2, <2>3
<1>4. CASE mpe_wait(c)
  <2>1. /\ run'[c].stack = run[c].stack /\ run'[c].pc = "mpe_init" /\ run'[c].ief = run[c].ief
        /\ \A d \in Cpus \ {c} : run'[d] = run[d]
    BY <1>0, <1>4, Goes DEF mpe_wait, TypeOK, Pcs
  <2>2. Placed(c)'
    BY <1>0, <1>4, <2>1 DEF mpe_wait, Placed, BootPcs, ThreadPcs, HandlerPcs
  <2> QED BY <1>0, <1>4, <2>1, <2>2, PlacedKept DEF mpe_wait
<1>5. CASE othercpu_entry(c)
  <2>1. /\ run'[c].stack = run[c].stack /\ run'[c].pc = "mp_entry" /\ run'[c].ief = run[c].ief
        /\ \A d \in Cpus \ {c} : run'[d] = run[d]
    BY <1>0, <1>5, Goes DEF othercpu_entry, TypeOK, Pcs
  <2>2. Placed(c)'
    BY <1>0, <1>5, <2>1 DEF othercpu_entry, Placed, BootPcs, ThreadPcs, HandlerPcs
  <2> QED BY <1>0, <1>5, <2>1, <2>2, PlacedKept DEF othercpu_entry
<1>6. CASE mp_entry(c)
  <2>1. /\ run'[c].stack = run[c].stack /\ run'[c].pc = "yield" /\ run'[c].ief
        /\ \A d \in Cpus \ {c} : run'[d] = run[d]
    BY <1>0, <1>6, Enables DEF TypeOK
  <2>2. run[c].pc = "mp_entry" /\ UNCHANGED <<frame, currents>>
    BY <1>6 DEF mp_entry
  <2>3. Placed(c)'
    BY <1>0, <2>1, <2>2 DEF Placed, BootPcs, ThreadPcs, HandlerPcs
  <2> QED BY <1>0, <2>1, <2>2, <2>3, PlacedKept
<1>7. CASE yield(c) \/ Interrupt(c)
  <2>1. trap(c) /\ (run[c].pc = "yield" \/ run[c].ief)
    BY <1>7 DEF yield, Interrupt
  <2>2. Code(run[c].stack, "on_interrupt", FALSE) \in Codes
    BY <1>0, CodeTyped, CodeFields DEF TypeOK, Pcs
  <2>3. /\ run'[c].stack = run[c].stack /\ run'[c].pc = "on_interrupt" /\ ~ run'[c].ief
        /\ \A d \in Cpus \ {c} : run'[d] = run[d]
    BY <1>0, <2>1, <2>2, Sets DEF trap, TypeOK, Code
  <2>4. frame'[c] = run[c] /\ UNCHANGED currents /\ \A d \in Cpus \ {c} : frame'[d] = frame[d]
    BY <1>0, <2>1 DEF trap, TypeOK
  <2>5. \/ run[c].pc = "yield" /\ run[c].stack = Own /\ currents[c] = NoTask
        \/ run[c].pc \in ThreadPcs /\ run[c].ief /\ run[c].stack = currents[c]
           /\ Mine(c, currents[c]) /\ currents[c] \in Tasks
    BY <1>0, <2>1, OffTyped DEF TypeOK, Codes, Pcs, Placed, BootPcs, HandlerPcs, Code
  <2>6. Placed(c)'
    BY <2>3, <2>4, <2>5, StackTyped DEF Placed, BootPcs, ThreadPcs, HandlerPcs, NoTask, Boot, Mine
  <2> QED BY <1>0, <2>3, <2>4, <2>6, PlacedKept
<1>8. CASE on_interrupt(c)
  <2>1. /\ run'[c].stack = run[c].stack /\ run'[c].pc = "next" /\ run'[c].ief = run[c].ief
        /\ \A d \in Cpus \ {c} : run'[d] = run[d]
    BY <1>0, <1>8, Goes DEF on_interrupt, TypeOK, Pcs
  <2>2. /\ currents'[c] \in Tasks
        /\ \A d \in Cpus \ {c} : currents'[d] = currents[d]
    BY <1>0, <1>8 DEF on_interrupt, TypeOK, Tasks, Counts
  <2>3. Placed(c)'
    <3>1. run[c].pc = "on_interrupt" /\ currents[c] \in Tasks \cup {NoTask}
      BY <1>0, <1>8 DEF on_interrupt, TypeOK
    <3>2. ~ run[c].ief /\ (run[c].stack = Own \/ (run[c].stack \in Tasks /\ Mine(c, run[c].stack)))
      BY <1>0, <3>1 DEF Placed
    <3> QED BY <2>1, <2>2, <3>2 DEF Placed, BootPcs, ThreadPcs, HandlerPcs, Mine
  <2> QED BY <1>0, <1>8, <2>1, <2>2, <2>3, PlacedKept DEF on_interrupt
<1>9. CASE next(c)
  <2>1. (currents[c] + 1) % NTASK \in Tasks
    BY <1>0 DEF TypeOK, Counts, Tasks, NoTask
  <2>2. /\ currents'[c] \in Tasks
        /\ \A d \in Cpus \ {c} : currents'[d] = currents[d]
    BY <1>0, <1>9, <2>1 DEF next, TypeOK
  <2>3. /\ run'[c].stack = run[c].stack /\ run'[c].ief = run[c].ief
        /\ run'[c].pc = IF Mine(c, currents'[c]) THEN "__am_iret" ELSE "next"
        /\ \A d \in Cpus \ {c} : run'[d] = run[d]
    BY <1>0, <1>9, Goes DEF next, TypeOK, Pcs
  <2>4. Placed(c)'
    BY <1>0, <1>9, <2>2, <2>3 DEF next, Placed, BootPcs, ThreadPcs, HandlerPcs, Mine
  <2> QED BY <1>0, <1>9, <2>2, <2>3, <2>4, PlacedKept DEF next
<1>10. CASE __am_iret(c)
  <2>1. context[currents[c]] # Off /\ currents[c] \in Tasks /\ Mine(c, currents[c])
    <3>1. currents[c] \in Tasks /\ Mine(c, currents[c])
      BY <1>0, <1>10 DEF __am_iret, Placed, HandlerPcs
    <3>2. run[0].pc \notin {"_start_c", "main"}
      BY <1>10, OthersAfterMain DEF __am_iret
    <3> QED BY <3>1, <3>2 DEF Control, ContextsMade
  <2>2. /\ run'[c] = context[currents[c]]
        /\ \A d \in Cpus \ {c} : run'[d] = run[d]
    BY <1>0, <1>10, <2>1, Sets DEF __am_iret, TypeOK
  <2>3. /\ context[currents[c]].stack = currents[c] /\ context[currents[c]].ief
        /\ context[currents[c]].pc \in ThreadPcs
    BY <2>1 DEF Control, ContextsOwn
  <2>4. Placed(c)'
    BY <1>10, <2>1, <2>2, <2>3 DEF __am_iret, Placed, BootPcs, ThreadPcs, HandlerPcs, Mine
  <2> QED BY <1>0, <1>10, <2>2, <2>4, PlacedKept DEF __am_iret
<1>11. CASE lock(c) \/ print(c) \/ unlock(c) \/ delay(c)
  <2>1. PICK from \in ThreadPcs, to \in ThreadPcs : Thread(c, from, to)
    BY <1>11 DEF lock, print, unlock, delay, ThreadPcs
  <2>2. /\ run'[c].stack = run[c].stack /\ run'[c].pc = to /\ run'[c].ief = run[c].ief
        /\ \A d \in Cpus \ {c} : run'[d] = run[d]
    BY <1>0, <2>1, Goes DEF Thread, TypeOK, Pcs
  <2>3. Placed(c)'
    BY <1>0, <2>1, <2>2 DEF Thread, Placed, BootPcs, ThreadPcs, HandlerPcs, Mine
  <2> QED BY <1>0, <2>1, <2>2, <2>3, PlacedKept DEF Thread
<1> QED BY <1>1, <1>2, <1>3, <1>4, <1>5, <1>6, <1>7, <1>8, <1>9, <1>10, <1>11 DEF Step

(* A step of a processor that has left the boot code, and that does not go    *)
(* back to it, leaves the order of the start alone.                           *)
LEMMA BootKept ==
  ASSUME Counts, Control, NEW c \in Cpus,
         run[c].pc \notin BootPcs \cup {"off", "othercpu_entry"},
         run'[c].pc \notin BootPcs \cup {"off", "othercpu_entry"},
         \A d \in Cpus \ {c} : run'[d] = run[d],
         UNCHANGED <<ap_ready, is_ap, cpu>>
  PROVE  BootOrder'
<1> USE DEF BootPcs
<1>0. TypeOK /\ BootOrder /\ 0 \in Cpus
  BY DEF Control, Counts, Cpus
<1>1. run[0].pc \in BootPcs <=> run'[0].pc \in BootPcs
  BY <1>0
<1>2. run[0].pc \in BootPcs => run'[0] = run[0]
  BY <1>0
<1>3. \A d \in Cpus : Started(d) <=> Started(d)'
  BY DEF Started
<1>4. c # 0 => run[c] # Off /\ ~ (c > cpu) /\ ~ (c = cpu /\ run[0].pc # "wait")
  BY <1>0, OffTyped DEF BootOrder
<1>5. cpu < NCPU => cpu \in Cpus
  BY <1>0 DEF TypeOK, Cpus, Counts
<1>6. run'[0].pc = "wait" => (Started(cpu)' <=> ap_ready' = 1) /\ run'[cpu] # Off
  BY <1>0, <1>2, <1>3, <1>5, OffTyped DEF BootOrder
<1>7. \A d \in Cpus \ {0} : d < cpu => Started(d)'
  BY <1>0, <1>3 DEF BootOrder
<1>8. \A d \in Cpus \ {0} : d > cpu \/ (d = cpu /\ run'[0].pc # "wait") => run'[d] = Off
  BY <1>0, <1>1, <1>2, <1>4 DEF BootOrder
<1> QED BY <1>0, <1>1, <1>2, <1>6, <1>7, <1>8 DEF BootOrder, Started

LEMMA StepBoot ==
  ASSUME Counts, Control, NEW c \in Cpus, Step(c) \/ Interrupt(c)
  PROVE  BootOrder'
<1> USE DEF At
<1>0. TypeOK /\ BootOrder /\ (\A d \in Cpus : Placed(d)) /\ 0 \in Cpus
  BY DEF Control, Counts, Cpus
<1>1. CASE _start_c(c)
  <2>1. Code(Own, IF is_ap THEN "othercpu_entry" ELSE "main", FALSE) \in Codes
    BY <1>0, CodeTyped, StackTyped DEF Pcs, TypeOK
  <2>2. /\ run'[c].pc = IF is_ap THEN "othercpu_entry" ELSE "main"
        /\ run'[c] # Off
        /\ \A d \in Cpus \ {c} : run'[d] = run[d]
    BY <1>0, <1>1, <2>1, Sets, StackTyped, OffTyped DEF _start_c, TypeOK, Code
  <2>3. run[c].pc = "_start_c" /\ UNCHANGED <<ap_ready, is_ap, cpu>>
    BY <1>1 DEF _start_c
  <2>4. CASE c = 0
    BY <1>0, <2>2, <2>3, <2>4 DEF BootOrder, Started, BootPcs
  <2>5. CASE c # 0
    <3>1. c = cpu /\ run[0].pc = "wait" /\ is_ap
      BY <1>0, <2>3, <2>5, OffTyped DEF BootOrder, Started, Counts, Cpus, TypeOK
    <3> QED BY <1>0, <2>2, <2>3, <2>5, <3>1 DEF BootOrder, Started, BootPcs
  <2> QED BY <2>4, <2>5
<1>2. CASE main(c)
  <2>1. run'[c].pc = "mpe_init" /\ \A d \in Cpus \ {c} : run'[d] = run[d]
    BY <1>0, <1>2, Goes DEF main, TypeOK, Pcs
  <2>2. c = 0 /\ run[c].pc = "main" /\ UNCHANGED <<ap_ready, is_ap, cpu>>
    BY <1>0, <1>2 DEF main, Placed
  <2> QED BY <1>0, <2>1, <2>2 DEF BootOrder, Started, BootPcs
<1>3. CASE mpe_init(c)
  <2>1. c = 0 /\ run[c].pc = "mpe_init" /\ UNCHANGED <<ap_ready, cpu>>
    BY <1>0, <1>3 DEF mpe_init, Placed
  <2>2. CASE cpu < NCPU
    <3>0. PICK k \in Cpus : k = cpu /\ k # c
      BY <1>0, <2>1, <2>2 DEF Cpus, Counts, TypeOK
    <3>1. /\ run'[c].pc = "wait" /\ is_ap'
          /\ run'[k].pc = "_start_c"
          /\ \A d \in Cpus \ {c, k} : run'[d] = run[d]
      BY <1>0, <1>3, <2>2, <3>0 DEF mpe_init, TypeOK, Codes, Code
    <3>2. cpu' = k /\ run'[cpu'] # Off /\ ap_ready' # 1
      BY <1>0, <2>1, <3>0, <3>1, OffTyped DEF BootOrder
    <3>3. \A d \in Cpus \ {0} : d < k => run'[d].pc \notin {"off", "_start_c", "othercpu_entry"}
      BY <1>0, <2>1, <3>0, <3>1 DEF BootOrder, Started, Cpus, Counts
    <3>4. \A d \in Cpus \ {0} : d > k => run'[d] = Off
      BY <1>0, <2>1, <3>0, <3>1 DEF BootOrder, Cpus, Counts
    <3> QED BY <2>1, <2>2, <3>0, <3>1, <3>2, <3>3, <3>4 DEF BootOrder, Started, BootPcs
  <2>3. CASE ~ (cpu < NCPU)
    <3>1. run'[c].pc = "mp_entry" /\ UNCHANGED is_ap /\ \A d \in Cpus \ {c} : run'[d] = run[d]
      BY <1>0, <1>3, <2>3, Goes DEF mpe_init, TypeOK, Pcs
    <3>2. cpu = NCPU
      BY <1>0, <2>3 DEF TypeOK, Counts
    <3> QED BY <1>0, <2>1, <3>1, <3>2 DEF BootOrder, Started, BootPcs
  <2> QED BY <2>2, <2>3
<1>4. CASE mpe_wait(c)
  <2>1. run'[c].pc = "mpe_init" /\ \A d \in Cpus \ {c} : run'[d] = run[d]
    BY <1>0, <1>4, Goes DEF mpe_wait, TypeOK, Pcs
  <2>2. c = 0 /\ run[c].pc = "wait" /\ ap_ready = 1 /\ ap_ready' = 0 /\ cpu' = cpu + 1 /\ UNCHANGED is_ap
    BY <1>0, <1>4 DEF mpe_wait, Placed
  <2>3. Started(cpu) /\ cpu < NCPU /\ cpu \in Nat
    BY <1>0, <2>2 DEF BootOrder, TypeOK, Counts
  <2>4. \A d \in Cpus \ {0} : (d < cpu' => Started(d)') /\ (d >= cpu' => run'[d] = Off)
    BY <1>0, <2>1, <2>2, <2>3 DEF BootOrder, Started, Cpus, Counts
  <2> QED BY <1>0, <2>1, <2>2, <2>4 DEF BootOrder, Started, BootPcs
<1>5. CASE othercpu_entry(c)
  <2>1. run'[c].pc = "mp_entry" /\ \A d \in Cpus \ {c} : run'[d] = run[d]
    BY <1>0, <1>5, Goes DEF othercpu_entry, TypeOK, Pcs
  <2>2. c # 0 /\ run[c].pc = "othercpu_entry" /\ ap_ready' = 1 /\ UNCHANGED <<is_ap, cpu>>
    BY <1>0, <1>5 DEF othercpu_entry, Placed
  <2>3. c = cpu /\ run[0].pc = "wait"
    BY <1>0, <2>2, OffTyped DEF BootOrder, Started, Counts, Cpus, TypeOK
  <2> QED BY <1>0, <2>1, <2>2, <2>3, OffTyped DEF BootOrder, Started, BootPcs
<1>6. CASE mp_entry(c)
  <2>1. run'[c].pc = "yield" /\ \A d \in Cpus \ {c} : run'[d] = run[d]
    BY <1>0, <1>6, Enables DEF TypeOK
  <2>2. run[c].pc = "mp_entry" /\ UNCHANGED <<ap_ready, is_ap, cpu>>
    BY <1>6 DEF mp_entry
  <2> QED BY <2>1, <2>2, BootKept DEF BootPcs
<1>7. CASE yield(c) \/ Interrupt(c)
  <2>1. trap(c) /\ (run[c].pc = "yield" \/ run[c].ief)
    BY <1>7 DEF yield, Interrupt
  <2>2. Code(run[c].stack, "on_interrupt", FALSE) \in Codes
    BY <1>0, CodeTyped, CodeFields DEF TypeOK, Pcs
  <2>3. run'[c].pc = "on_interrupt" /\ \A d \in Cpus \ {c} : run'[d] = run[d]
    BY <1>0, <2>1, <2>2, Sets DEF trap, TypeOK, Code
  <2>4. run[c].pc \notin BootPcs \cup {"off", "othercpu_entry"}
    BY <1>0, <2>1, OffTyped DEF TypeOK, Codes, Pcs, Placed, BootPcs, HandlerPcs, Code
  <2> QED BY <2>1, <2>3, <2>4, BootKept DEF trap, BootPcs
<1>8. CASE on_interrupt(c)
  BY <1>0, <1>8, Goes, BootKept DEF on_interrupt, TypeOK, Pcs, BootPcs
<1>9. CASE next(c)
  BY <1>0, <1>9, Goes, BootKept DEF next, TypeOK, Pcs, BootPcs
<1>10. CASE __am_iret(c)
  <2>1. Placed(c)'
    BY StepPlaced
  <2>2. currents[c] \in Tasks
    BY <1>0, <1>10 DEF __am_iret, Placed, HandlerPcs
  <2>3. \A d \in Cpus \ {c} : run'[d] = run[d]
    BY <1>0, <1>10, <2>2, Sets, Goes DEF __am_iret, TypeOK, Pcs
  <2>4. run'[c] = context[currents[c]] \/ run'[c].pc = "panic"
    BY <1>0, <1>10, <2>2, Sets, Goes DEF __am_iret, TypeOK, Pcs
  <2>5. run'[c].pc \notin BootPcs \cup {"off", "othercpu_entry"}
    BY <1>0, <1>10, <2>1, <2>2, <2>4 DEF __am_iret, Placed, BootPcs, NoTask, Tasks, Counts
  <2> QED BY <1>0, <1>10, <2>3, <2>5, BootKept DEF __am_iret, BootPcs
<1>11. CASE lock(c) \/ print(c) \/ unlock(c) \/ delay(c)
  <2>1. PICK from \in ThreadPcs, to \in ThreadPcs : Thread(c, from, to)
    BY <1>11 DEF lock, print, unlock, delay, ThreadPcs
  <2> QED BY <1>0, <2>1, Goes, BootKept DEF Thread, TypeOK, Pcs, BootPcs, ThreadPcs
<1> QED BY <1>1, <1>2, <1>3, <1>4, <1>5, <1>6, <1>7, <1>8, <1>9, <1>10, <1>11 DEF Step

(* The contexts are written by main, all of them, and by on_interrupt, with    *)
(* what the task itself was executing.                                         *)
LEMMA StepContexts ==
  ASSUME Counts, Control, NEW c \in Cpus, Step(c) \/ Interrupt(c)
  PROVE  ContextsOwn' /\ ContextsMade'
<1> USE DEF At
<1>0. TypeOK /\ (\A d \in Cpus : Placed(d)) /\ 0 \in Cpus
  BY DEF Control, Counts, Cpus
<1>1. \A t \in Tasks : /\ kcontext(t).stack = t /\ kcontext(t).ief /\ kcontext(t).pc \in ThreadPcs
                       /\ kcontext(t) # Off
  BY OffTyped DEF kcontext, Code, ThreadPcs
<1>2. CASE main(c)
  <2>1. \A t \in Tasks : context'[t] = kcontext(t)
    BY <1>2 DEF main
  <2> QED BY <1>1, <2>1 DEF ContextsOwn, ContextsMade
<1>3. CASE ~ main(c)
  <2>1. \A t \in Tasks : context'[t] # context[t] =>
           /\ context'[t] # Off
           /\ context'[t].stack = t /\ context'[t].ief /\ context'[t].pc \in ThreadPcs
    <3>1. CASE on_interrupt(c) /\ currents[c] # NoTask
      <4>1. context' = [context EXCEPT ![currents[c]] = frame[c]]
        BY <3>1 DEF on_interrupt
      <4>2. frame[c].stack = currents[c] /\ frame[c].ief /\ frame[c].pc \in ThreadPcs
        BY <1>0, <3>1 DEF on_interrupt, Placed
      <4>3. frame[c] # Off
        BY <4>2, OffTyped DEF ThreadPcs
      <4> QED BY <1>0, <4>1, <4>2, <4>3 DEF TypeOK
    <3>2. CASE ~ (on_interrupt(c) /\ currents[c] # NoTask)
      <4>1. UNCHANGED context
        BY <1>3, <3>2 DEF Step, Interrupt, trap, _start_c, mpe_init, mpe_wait, othercpu_entry, mp_entry,
                          yield, on_interrupt, next, __am_iret, lock, print, unlock, delay, Thread
      <4> QED BY <4>1
    <3> QED BY <3>1, <3>2
  <2>2. ContextsOwn'
    BY <2>1 DEF Control, ContextsOwn
  <2>3. CASE run[0].pc \in {"_start_c", "main"}
    <3>1. run[c].pc # "off"
      BY <1>0, OffTyped DEF Step, Interrupt, _start_c, main, mpe_init, mpe_wait, othercpu_entry, mp_entry,
            yield, on_interrupt, next, __am_iret, lock, print, unlock, delay, Thread, Placed
    <3>2. c = 0 /\ ~ is_ap
      BY <2>3, <3>1, OthersAfterMain DEF Control, BootOrder
    <3>3. ~ run[c].ief
      BY <1>0, <2>3, <3>2, OffTyped DEF Placed, Code
    <3>4. _start_c(c)
      BY <1>3, <2>3, <3>2, <3>3
         DEF Step, Interrupt, main, mpe_init, mpe_wait, othercpu_entry, mp_entry,
            yield, on_interrupt, next, __am_iret, lock, print, unlock, delay, Thread
    <3>5. Code(Own, "main", FALSE) \in Codes /\ Code(Own, "main", FALSE).pc = "main"
      <4>1. "main" \in Pcs
        BY DEF Pcs
      <4> QED BY <4>1, CodeTyped, StackTyped
    <3>6. run'[c].pc = "main"
      BY <1>0, <3>2, <3>4, <3>5, Sets DEF _start_c, TypeOK
    <3> QED BY <2>2, <3>2, <3>6 DEF ContextsMade
  <2>4. CASE run[0].pc \notin {"_start_c", "main"}
    BY <2>1, <2>2, <2>4 DEF Control, ContextsMade
  <2> QED BY <2>3, <2>4
<1> QED BY <1>2, <1>3

LEMMA ControlStep ==
  ASSUME Counts, Control, [OsNext]_osVars
  PROVE  Control'
<1>1. TypeOK'
  BY StepTypeOK
<1>2. CASE UNCHANGED osVars
  BY <1>1, <1>2 DEF osVars, Control, Placed, BootOrder, Started, ContextsOwn, ContextsMade, Mine
<1>3. ASSUME NEW c \in Cpus, Step(c) \/ Interrupt(c) PROVE Control'
  BY <1>1, <1>3, StepPlaced, StepBoot, StepContexts DEF Control
<1> QED BY <1>2, <1>3 DEF OsNext

LEMMA ControlInit ==
  ASSUME Counts, OsInit
  PROVE  Control
<1>1. TypeOK /\ 0 \in Cpus
  BY InitTypeOK DEF Counts, Cpus
<1>2. run[0] = Code(Boot, "_start_c", FALSE) /\ run[0].pc = "_start_c"
  BY <1>1 DEF OsInit, Code
<1>3. \A c \in Cpus \ {0} : run[c] = Off
  BY DEF OsInit
<1>4. \A c \in Cpus : currents[c] = NoTask
  BY DEF OsInit
<1>5. \A c \in Cpus : Placed(c)
  <2>1. Placed(0)
    BY <1>1, <1>2, <1>4 DEF Placed, BootPcs, HandlerPcs, ThreadPcs
  <2>2. \A c \in Cpus \ {0} : Placed(c)
    BY <1>3, <1>4, OffTyped DEF Placed, BootPcs, HandlerPcs, ThreadPcs
  <2> QED BY <2>1, <2>2
<1>6. BootOrder
  <2>1. cpu = 1 /\ ap_ready # 1 /\ ~ is_ap
    BY DEF OsInit
  <2>2. \A c \in Cpus \ {0} : ~ (c < cpu)
    BY <2>1 DEF Cpus, Counts
  <2>3. run[0].pc \in BootPcs /\ run[0].pc # "wait"
    BY <1>2 DEF BootPcs
  <2> HIDE DEF BootPcs
  <2> QED BY <1>3, <2>1, <2>2, <2>3, Zenon DEF BootOrder, Started
<1>7. ContextsOwn /\ ContextsMade
  BY <1>2 DEF OsInit, ContextsOwn, ContextsMade
<1> QED BY <1>1, <1>5, <1>6, <1>7 DEF Control

(* No two processors share a stack of which there is one.                     *)
LEMMA ControlSafe ==
  ASSUME Counts, Control
  PROVE  ContextsSafe
<1>0. TypeOK /\ \A c \in Cpus : Placed(c)
  BY DEF Control
<1>1. NoNullContext
  BY <1>0 DEF NoNullContext, At, Placed
<1>2. ASSUME NEW c \in Cpus, NEW d \in Cpus, c # d, run[c].stack = run[d].stack
      PROVE  run[c].stack \in {Own, None}
  <2>1. CASE run[c].stack \in Tasks
    <3>1. Mine(c, run[c].stack) /\ Mine(d, run[d].stack)
      BY <1>0, <1>2, <2>1, StackTyped, OffTyped
         DEF TypeOK, Codes, Pcs, Placed, HandlerPcs, BootPcs, Code
    <3> QED BY <1>2, <3>1 DEF Mine
  <2>2. CASE run[c].stack = Boot
    <3>1. run[c].pc = "_start_c" /\ run[d].pc = "_start_c"
      BY <1>0, <1>2, <2>2, StackTyped, OffTyped
         DEF TypeOK, Codes, Pcs, Placed, HandlerPcs, BootPcs, Code
    <3>2. \A e \in Cpus \ {0} : run[e].pc = "_start_c" => e = cpu /\ run[0].pc = "wait"
      BY <1>0, OffTyped DEF Control, BootOrder, Started, Cpus, Counts, TypeOK
    <3> QED BY <1>2, <3>1, <3>2
  <2> QED BY <1>0, <1>2, <2>1, <2>2 DEF TypeOK, Codes, Boot, Own, None, Tasks, Counts
<1> QED BY <1>0, <1>1, <1>2 DEF ContextsSafe, StacksNotShared, Control

------------------------------------------------------------------------------
(* The lock *)

InLock   == {"print", "unlock"}
Entered  == ThreadPcs \cup {"on_interrupt"}

(* Holds, with the places named. *)
LEMMA HoldsCases ==
  ASSUME NEW t
  PROVE  Holds(t) <=>
           \/ \E d \in Cpus : run[d].stack = t /\ run[d].pc \in InLock
           \/ \E d \in Cpus : run[d].stack = t /\ run[d].pc = "on_interrupt" /\ frame[d].pc \in InLock
           \/ /\ \A d \in Cpus : ~ (run[d].stack = t /\ run[d].pc \in Entered)
              /\ context[t] # Off /\ context[t].pc \in InLock
BY DEF Holds, InLock, Entered

(* No thread gets into the lock, or out of it, while the processors stay      *)
(* where they are or move about in the code of the kernel.                    *)
LEMMA KernelKeepsLock ==
  ASSUME NEW t,
         \A d \in Cpus : \/ run'[d] = run[d] /\ frame'[d] = frame[d]
                         \/ run[d].pc \notin Entered /\ run'[d].pc \notin Entered,
         context'[t] = context[t] \/ context'[t].pc \notin InLock,
         Holds(t)'
  PROVE  Holds(t)
BY DEF Holds, Entered, InLock, ThreadPcs

(* The processor that executes a thread pushes where that one is.             *)
LEMMA TrapKeepsLock ==
  ASSUME Counts, Control, NEW c \in Cpus, yield(c) \/ Interrupt(c), NEW t \in Tasks, Holds(t)'
  PROVE  Holds(t)
<1>0. TypeOK /\ \A d \in Cpus : Placed(d)
  BY DEF Control
<1>1. trap(c) /\ (run[c].pc = "yield" \/ run[c].ief)
  BY DEF yield, Interrupt, At
<1>2. Code(run[c].stack, "on_interrupt", FALSE) \in Codes
  BY <1>0, CodeTyped, CodeFields DEF TypeOK, Pcs
<1>3. /\ run'[c].stack = run[c].stack /\ run'[c].pc = "on_interrupt"
      /\ \A d \in Cpus \ {c} : run'[d] = run[d]
  BY <1>0, <1>1, <1>2, Sets DEF trap, TypeOK, Code
<1>4. frame'[c] = run[c] /\ UNCHANGED context /\ \A d \in Cpus \ {c} : frame'[d] = frame[d]
  BY <1>0, <1>1 DEF trap, TypeOK
<1>5. run[c].pc \in Entered => run[c].pc # "on_interrupt"
  BY <1>0, <1>1 DEF Placed
<1> QED BY <1>3, <1>4, <1>5 DEF Holds, ThreadPcs

(* The handler saves what was pushed. *)
LEMMA SaveKeepsLock ==
  ASSUME Counts, Control, NEW c \in Cpus, on_interrupt(c), NEW t \in Tasks, Holds(t)'
  PROVE  Holds(t)
<1>0. TypeOK /\ \A d \in Cpus : Placed(d)
  BY DEF Control
<1>1. run'[c].pc = "next" /\ \A d \in Cpus \ {c} : run'[d] = run[d]
  BY <1>0, Goes DEF on_interrupt, TypeOK, Pcs
<1>2. run[c].pc = "on_interrupt" /\ UNCHANGED frame
  BY DEF on_interrupt, At
<1>3. CASE currents[c] = NoTask
  <2>1. run[c].stack # t /\ UNCHANGED context
    BY <1>0, <1>2, <1>3, StackTyped DEF on_interrupt, Placed
  <2> QED BY <1>1, <1>2, <2>1 DEF Holds, ThreadPcs
<1>4. CASE currents[c] # NoTask
  <2>1. context' = [context EXCEPT ![currents[c]] = frame[c]]
    BY <1>4 DEF on_interrupt
  <2>2. run[c].stack = currents[c]
    BY <1>0, <1>2, <1>4 DEF Placed
  <2>3. CASE t = currents[c]
    <3>1. context'[t] = frame[c]
      BY <1>0, <2>1, <2>3 DEF TypeOK
    <3> QED BY <1>1, <1>2, <2>2, <2>3, <3>1 DEF Holds, ThreadPcs
  <2>4. CASE t # currents[c]
    <3>1. context'[t] = context[t]
      BY <1>0, <2>1, <2>4 DEF TypeOK
    <3> QED BY <1>1, <1>2, <2>2, <2>4, <3>1 DEF Holds, ThreadPcs
  <2> QED BY <2>3, <2>4
<1> QED BY <1>3, <1>4

(* The processor whose task it is resumes it where it was saved; no other one *)
(* executes it at that time.                                                  *)
LEMMA ResumeKeepsLock ==
  ASSUME Counts, Control, NEW c \in Cpus, __am_iret(c), NEW t \in Tasks, Holds(t)'
  PROVE  Holds(t)
<1>0. TypeOK /\ \A d \in Cpus : Placed(d)
  BY DEF Control
<1>1. run[c].pc = "__am_iret" /\ UNCHANGED <<frame, context>>
  BY DEF __am_iret, At
<1>2. currents[c] \in Tasks /\ Mine(c, currents[c])
  BY <1>0, <1>1 DEF Placed, HandlerPcs
<1>3. context[currents[c]] # Off
  BY <1>1, <1>2, OthersAfterMain DEF Control, ContextsMade
<1>4. context[currents[c]].stack = currents[c] /\ context[currents[c]].pc \in ThreadPcs
  BY <1>2, <1>3 DEF Control, ContextsOwn
<1>5. run'[c] = context[currents[c]] /\ \A d \in Cpus \ {c} : run'[d] = run[d]
  BY <1>0, <1>2, <1>3, Sets DEF __am_iret, TypeOK
<1>6. \A d \in Cpus : ~ (run[d].stack = currents[c] /\ run[d].pc \in Entered)
  <2>1. SUFFICES ASSUME NEW d \in Cpus, run[d].stack = currents[c], run[d].pc \in Entered
                 PROVE  FALSE
    OBVIOUS
  <2>2. Mine(d, currents[c])
    BY <1>0, <1>2, <2>1, StackTyped DEF Placed, Entered
  <2>3. d = c
    BY <1>2, <2>2 DEF Mine
  <2> QED BY <1>1, <2>1, <2>3 DEF Entered, ThreadPcs
<1>7. CASE t = currents[c]
  <2>1. ~ (run'[c].pc = "on_interrupt") /\ run'[c].stack = t /\ run'[c].pc \in ThreadPcs
    BY <1>4, <1>5, <1>7 DEF ThreadPcs
  <2>2. \A d \in Cpus \ {c} : ~ (run'[d].stack = t /\ run'[d].pc \in Entered)
    BY <1>5, <1>6, <1>7
  <2>3. run'[c].pc \in InLock
    BY <2>1, <2>2 DEF Holds, Entered, InLock, ThreadPcs
  <2> QED BY <1>3, <1>5, <1>6, <1>7, <2>3, HoldsCases
<1>8. CASE t # currents[c]
  <2>1. run'[c].stack # t /\ run[c].pc \notin Entered
    BY <1>1, <1>4, <1>5, <1>8 DEF Entered, ThreadPcs
  <2> QED BY <1>1, <1>5, <2>1 DEF Holds, Entered, ThreadPcs
<1> QED BY <1>7, <1>8

LEMMA KernelMoves ==
  ASSUME Counts, Control, NEW c \in Cpus,
         \/ _start_c(c) \/ main(c) \/ mpe_init(c) \/ mpe_wait(c)
         \/ othercpu_entry(c) \/ mp_entry(c) \/ next(c)
  PROVE  \A d \in Cpus : \/ run'[d] = run[d] /\ frame'[d] = frame[d]
                         \/ run[d].pc \notin Entered /\ run'[d].pc \notin Entered
<1> USE DEF At, Entered, ThreadPcs
<1>0. TypeOK /\ \A d \in Cpus : Placed(d)
  BY DEF Control
<1>1. CASE _start_c(c)
  <2>1. Code(Own, IF is_ap THEN "othercpu_entry" ELSE "main", FALSE) \in Codes
    BY <1>0, CodeTyped, StackTyped DEF Pcs, TypeOK
  <2> QED BY <1>0, <1>1, <2>1, Sets DEF _start_c, TypeOK, Code
<1>2. CASE mpe_init(c)
  <2>1. CASE cpu < NCPU
    <3>1. c = 0 /\ run[c].pc = "mpe_init" /\ UNCHANGED frame
      BY <1>0, <1>2 DEF mpe_init, Placed
    <3>2. PICK k \in Cpus : k = cpu /\ k # c
      BY <1>0, <2>1, <3>1 DEF Cpus, Counts, TypeOK
    <3>3. /\ run'[c].pc = "wait" /\ run'[k].pc = "_start_c"
          /\ \A d \in Cpus \ {c, k} : run'[d] = run[d]
      BY <1>0, <1>2, <2>1, <3>2 DEF mpe_init, TypeOK, Codes, Code
    <3>4. run[k].pc = "off"
      BY <3>1, <3>2, OffTyped DEF Control, BootOrder
    <3> QED BY <3>1, <3>3, <3>4
  <2>2. CASE ~ (cpu < NCPU)
    BY <1>0, <1>2, <2>2, Goes DEF mpe_init, TypeOK, Pcs
  <2> QED BY <2>1, <2>2
<1>3. CASE mp_entry(c)
  <2>1. run[c].pc = "mp_entry" /\ UNCHANGED frame
    BY <1>3 DEF mp_entry
  <2> QED BY <1>0, <1>3, <2>1, Enables DEF TypeOK
<1>4. CASE main(c) \/ mpe_wait(c) \/ othercpu_entry(c) \/ next(c)
  <2>1. PICK p \in {"mpe_init", "mp_entry", "next", "__am_iret"} : Goto(c, p)
    BY <1>4 DEF main, mpe_wait, othercpu_entry, next
  <2>2. run'[c].pc = p /\ \A d \in Cpus \ {c} : run'[d] = run[d]
    BY <1>0, <2>1, Goes DEF TypeOK, Pcs
  <2>3. run[c].pc \notin Entered /\ UNCHANGED frame
    BY <1>4 DEF main, mpe_wait, othercpu_entry, next
  <2> QED BY <2>2, <2>3
<1> QED BY <1>1, <1>2, <1>3, <1>4

(* What a thread does to the lock concerns that thread alone. *)
LEMMA ThreadMoves ==
  ASSUME Counts, Control, NEW c \in Cpus,
         NEW from \in ThreadPcs, NEW to \in ThreadPcs, Thread(c, from, to)
  PROVE  \E s \in Tasks : /\ Holds(s) <=> from \in InLock
                          /\ Holds(s)' <=> to \in InLock
                          /\ \A t \in Tasks \ {s} : Holds(t)' <=> Holds(t)
<1>0. TypeOK /\ \A d \in Cpus : Placed(d)
  BY DEF Control
<1>1. run[c].pc = from /\ UNCHANGED <<frame, context>>
  BY DEF Thread, At
<1>2. /\ run'[c].stack = run[c].stack /\ run'[c].pc = to
      /\ \A d \in Cpus \ {c} : run'[d] = run[d]
  BY <1>0, Goes DEF Thread, TypeOK, Pcs
<1>3. run[c].stack \in Tasks /\ Mine(c, run[c].stack)
  BY <1>0, <1>1 DEF Placed
<1>4. \A d \in Cpus \ {c} : ~ (run[d].stack = run[c].stack /\ run[d].pc \in Entered)
  <2>1. SUFFICES ASSUME NEW d \in Cpus \ {c}, run[d].stack = run[c].stack, run[d].pc \in Entered
                 PROVE  FALSE
    OBVIOUS
  <2>2. Mine(d, run[c].stack)
    BY <1>0, <1>3, <2>1, StackTyped DEF Placed, Entered
  <2> QED BY <1>3, <2>1, <2>2 DEF Mine
<1>5. PICK s \in Tasks : s = run[c].stack
  BY <1>3
<1>6. Holds(s) <=> from \in InLock
  BY <1>1, <1>4, <1>5 DEF Holds, Entered, InLock, ThreadPcs
<1>7. Holds(s)' <=> to \in InLock
  BY <1>1, <1>2, <1>4, <1>5 DEF Holds, Entered, InLock, ThreadPcs
<1>8. \A t \in Tasks \ {s} : Holds(t)' <=> Holds(t)
  BY <1>1, <1>2, <1>5 DEF Holds
<1> QED BY <1>6, <1>7, <1>8

LEMMA LockStep ==
  ASSUME Counts, Control, OneHoldsLock, [OsNext]_osVars
  PROVE  OneHoldsLock'
<1>0. TypeOK /\ \A d \in Cpus : Placed(d)
  BY DEF Control
<1>1. CASE UNCHANGED osVars
  BY <1>1 DEF osVars, OneHoldsLock, Holds
<1>2. ASSUME UNCHANGED locked, \A t \in Tasks : Holds(t)' => Holds(t)
      PROVE  OneHoldsLock'
  BY <1>2 DEF OneHoldsLock
<1>3. ASSUME NEW c \in Cpus, Step(c) \/ Interrupt(c) PROVE OneHoldsLock'
  <2>1. CASE \/ _start_c(c) \/ main(c) \/ mpe_init(c) \/ mpe_wait(c)
             \/ othercpu_entry(c) \/ mp_entry(c) \/ next(c)
    <3>1. \A d \in Cpus : \/ run'[d] = run[d] /\ frame'[d] = frame[d]
                          \/ run[d].pc \notin Entered /\ run'[d].pc \notin Entered
      BY <1>3, <2>1, KernelMoves
    <3>2. \A t \in Tasks : context'[t] = context[t] \/ context'[t].pc \notin InLock
      BY <2>1 DEF _start_c, main, mpe_init, mpe_wait, othercpu_entry, mp_entry, next, kcontext, Code, InLock
    <3>3. UNCHANGED locked
      BY <2>1 DEF _start_c, main, mpe_init, mpe_wait, othercpu_entry, mp_entry, next
    <3> QED BY <1>2, <3>1, <3>2, <3>3, KernelKeepsLock
  <2>2. CASE yield(c) \/ Interrupt(c)
    BY <1>2, <2>2, TrapKeepsLock DEF yield, Interrupt, trap
  <2>3. CASE on_interrupt(c)
    BY <1>2, <2>3, SaveKeepsLock DEF on_interrupt
  <2>4. CASE __am_iret(c)
    BY <1>2, <2>4, ResumeKeepsLock DEF __am_iret
  <2>5. CASE lock(c)
    <3>1. CASE locked = 0
      <4>1. Thread(c, "lock", "print") /\ locked' = 1
        BY <2>5, <3>1 DEF lock
      <4>2. PICK s \in Tasks : \A t \in Tasks \ {s} : Holds(t)' <=> Holds(t)
        BY <4>1, ThreadMoves DEF ThreadPcs
      <4>3. \A t \in Tasks : ~ Holds(t)
        BY <3>1 DEF OneHoldsLock
      <4>4. \A t \in Tasks : Holds(t)' => t = s
        BY <4>2, <4>3
      <4> QED BY <4>1, <4>4 DEF OneHoldsLock
    <3>2. CASE locked # 0
      <4>1. Thread(c, "lock", "lock") /\ locked' = 1 /\ locked = 1
        BY <1>0, <2>5, <3>2 DEF lock, TypeOK
      <4>2. PICK s \in Tasks : ~ Holds(s)' /\ \A t \in Tasks \ {s} : Holds(t)' <=> Holds(t)
        <5>1. "lock" \in ThreadPcs /\ "lock" \notin InLock
          BY DEF ThreadPcs, InLock
        <5> QED BY <4>1, <5>1, ThreadMoves
      <4>3. \A t \in Tasks : Holds(t)' => Holds(t)
        BY <4>2
      <4> QED BY <1>2, <4>1, <4>3
    <3> QED BY <3>1, <3>2
  <2>6. CASE print(c)
    <3>1. Thread(c, "print", "unlock") /\ UNCHANGED locked
      BY <2>6 DEF print
    <3>2. PICK s \in Tasks : Holds(s) /\ \A t \in Tasks \ {s} : Holds(t)' <=> Holds(t)
      <4>1. "print" \in ThreadPcs /\ "unlock" \in ThreadPcs /\ "print" \in InLock
        BY DEF ThreadPcs, InLock
      <4> QED BY <3>1, <4>1, ThreadMoves
    <3>3. \A t \in Tasks : Holds(t)' => Holds(t)
      BY <3>2
    <3> QED BY <1>2, <3>1, <3>3
  <2>7. CASE unlock(c)
    <3>1. Thread(c, "unlock", "delay")
      BY <2>7 DEF unlock
    <3>2. PICK s \in Tasks : /\ Holds(s) /\ ~ Holds(s)'
                             /\ \A t \in Tasks \ {s} : Holds(t)' <=> Holds(t)
      <4>1. "unlock" \in ThreadPcs /\ "delay" \in ThreadPcs /\ "unlock" \in InLock /\ "delay" \notin InLock
        BY DEF ThreadPcs, InLock
      <4> QED BY <3>1, <4>1, ThreadMoves
    <3>3. \A t \in Tasks : ~ Holds(t)'
      BY <3>2 DEF OneHoldsLock
    <3> QED BY <3>3 DEF OneHoldsLock
  <2>8. CASE delay(c)
    <3>1. Thread(c, "delay", "lock") /\ UNCHANGED locked
      BY <2>8 DEF delay
    <3>2. PICK s \in Tasks : ~ Holds(s)' /\ \A t \in Tasks \ {s} : Holds(t)' <=> Holds(t)
      <4>1. "delay" \in ThreadPcs /\ "lock" \in ThreadPcs /\ "lock" \notin InLock
        BY DEF ThreadPcs, InLock
      <4> QED BY <3>1, <4>1, ThreadMoves
    <3>3. \A t \in Tasks : Holds(t)' => Holds(t)
      BY <3>2
    <3> QED BY <1>2, <3>1, <3>3
  <2> QED BY <1>3, <2>1, <2>2, <2>3, <2>4, <2>5, <2>6, <2>7, <2>8 DEF Step
<1> QED BY <1>1, <1>3 DEF OsNext

------------------------------------------------------------------------------
(* No stack is in use by two processors, every saved context is one its task   *)
(* pushed itself with interrupts on, and none is missing, for any number of    *)
(* processors and tasks: mpe_init hands the boot stack from one to the next,   *)
(* and on_interrupt gives each processor its own share of the tasks.           *)
THEOREM ContextsAlwaysSafe ==
  ASSUME Counts
  PROVE  OsSpec => []ContextsSafe
<1>1. OsInit => Control
  BY ControlInit
<1>2. Control /\ [OsNext]_osVars => Control'
  BY ControlStep
<1>3. Control => ContextsSafe
  BY ControlSafe
<1> QED BY <1>1, <1>2, <1>3, PTL DEF OsSpec

(* The spin lock of thread-os excludes for any number of processors and tasks, *)
(* whichever of them are interrupted or switched out while holding it.         *)
THEOREM LockExcludes ==
  ASSUME Counts
  PROVE  OsSpec => []OneHoldsLock
<1>1. OsInit => Control /\ OneHoldsLock
  <2>1. OsInit => \A t \in Tasks : ~ Holds(t)
    BY StackTyped, OffTyped DEF OsInit, Holds, Code
  <2> QED BY <2>1, ControlInit DEF OneHoldsLock
<1>2. Control /\ OneHoldsLock /\ [OsNext]_osVars => (Control /\ OneHoldsLock)'
  BY ControlStep, LockStep
<1> QED BY <1>1, <1>2, PTL DEF OsSpec

==============================================================================
