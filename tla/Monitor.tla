------------------------------ MODULE Monitor ------------------------------
(***************************************************************************)
(* The debugger and the execution loop of NEMU: sdb_mainloop and its       *)
(* commands (monitor/sdb/sdb.c), cpu_exec and execute (cpu/cpu-exec.c),    *)
(* the states of nemu_state (utils/state.c, engine/interpreter/hostcall.c) *)
(* and the window events of device/device.c.  Watchpoints are those of     *)
(* WatchSet, which Watchpoint implements.                                  *)
(***************************************************************************)
EXTENDS Integers

CONSTANTS CONFIG_WATCHPOINT,   \* the Kconfig option
          MaxSi,               \* largest argument of the command si
          Number, EXPRS, VALUES

VARIABLES batch,        \* is_batch_mode
          phase,        \* where the program is
          state, halt_ret,            \* nemu_state
          n,            \* instructions left in this call of execute
          watched, expr_of, seen, now, stopped,
          fate,         \* history: what first ended the guest program
          resumed,      \* history: an instruction ran after that
          late,         \* history: instructions run since the window was closed, counted up to 2
          masked        \* history: the stop of a watchpoint replaced the end or the quit

watchVars == <<watched, expr_of, seen, now, stopped>>
vars == <<batch, phase, state, halt_ret, n, watched, expr_of, seen, now, stopped, fate, resumed, late, masked>>

W == INSTANCE WatchSet

Forever == -1           \* cmd_c passes (uint64_t)-1, which no run exhausts
Outcome == {"retire", "good_trap", "bad_trap", "invalid", "mismatch"}

TypeOK == /\ batch \in BOOLEAN
          /\ phase \in {"prompt", "exec", "update", "done", "exited", "crashed"}
          /\ state \in {"RUNNING", "STOP", "END", "ABORT", "QUIT"}
          /\ halt_ret \in {-1, 0, 1}
          /\ n \in Forever .. MaxSi
          /\ watched \subseteq Number
          /\ fate \in (Outcome \ {"retire"}) \cup {"none"}
          /\ resumed \in BOOLEAN
          /\ late \in 0 .. 2
          /\ masked \in BOOLEAN

Init == /\ batch \in BOOLEAN
        /\ phase = "prompt"
        /\ state = "STOP" /\ halt_ret = 0 /\ n = 0
        /\ W!Init
        /\ fate = "none" /\ resumed = FALSE /\ late = 0 /\ masked = FALSE

(* cpu_exec, up to the loop.                                               *)
has_ended_NotAbort == state \in {"END", "QUIT"}

has_ended == state \in {"END", "ABORT", "QUIT"}

cpu_exec(k) ==
    IF has_ended
    THEN /\ phase' = IF batch THEN "exited" ELSE "prompt"
         /\ UNCHANGED <<batch, state, halt_ret, n, fate, resumed, late, masked, watchVars>>
    ELSE /\ state' = "RUNNING" /\ n' = k
         /\ phase' = IF k = 0 THEN "done" ELSE "exec"
         /\ UNCHANGED <<batch, halt_ret, fate, resumed, late, masked, watchVars>>

cmd_c     == phase = "prompt" /\ cpu_exec(Forever)
cmd_si(k) == phase = "prompt" /\ ~batch /\ cpu_exec(k)

cmd_q == /\ phase = "prompt" /\ ~batch
         /\ state' = "QUIT" /\ phase' = "exited"
         /\ UNCHANGED <<batch, halt_ret, n, fate, resumed, late, masked, watchVars>>

EndOfInput == /\ phase = "prompt" /\ ~batch
              /\ phase' = "exited"
              /\ UNCHANGED <<batch, state, halt_ret, n, fate, resumed, late, masked, watchVars>>

(* The watchpoint commands; a full pool and an unused number are fatal.    *)
cmd_w(e) == /\ phase = "prompt" /\ ~batch
            /\ IF watched = Number THEN phase' = "crashed" /\ UNCHANGED watchVars
                                   ELSE phase' = phase /\ W!Set(e)
            /\ UNCHANGED <<batch, state, halt_ret, n, fate, resumed, late, masked>>

cmd_d(w) == /\ phase = "prompt" /\ ~batch
            /\ IF w \notin watched THEN phase' = "crashed" /\ UNCHANGED watchVars
                                   ELSE phase' = phase /\ W!Remove(w)
            /\ UNCHANGED <<batch, state, halt_ret, n, fate, resumed, late, masked>>

(* What one instruction does to nemu_state before trace_and_difftest: the  *)
(* trap instruction ends the program with the return value in a0, an       *)
(* unknown one or a difference from the reference aborts it.               *)
StateAfter(o) == CASE o \in {"good_trap", "bad_trap"} -> "END"
                   [] o \in {"invalid", "mismatch"} -> "ABORT"
                   [] OTHER -> state

set_halt_ret(o) == halt_ret' = CASE o = "good_trap" -> 0
                                 [] o = "bad_trap" -> 1
                                 [] o = "invalid" -> -1
                                 [] OTHER -> halt_ret

wp_difftest(m) == IF CONFIG_WATCHPOINT THEN W!Instruction(m)
                  ELSE now' = m /\ UNCHANGED <<watched, expr_of, seen, stopped>>

trace_and_difftest(s) == state' = IF CONFIG_WATCHPOINT /\ stopped' THEN "STOP" ELSE s

loop_exit(s) == s # "RUNNING"

exec_once(o, m) ==
    /\ phase = "exec"
    /\ wp_difftest(m)
    /\ set_halt_ret(o)
    /\ trace_and_difftest(StateAfter(o))
    /\ phase' = IF loop_exit(state') THEN "done" ELSE "update"
    /\ fate' = IF fate = "none" /\ o # "retire" THEN o ELSE fate
    /\ resumed' = (resumed \/ fate # "none")
    /\ late' = IF state = "QUIT" /\ late < 2 THEN late + 1 ELSE late
    /\ masked' = (masked \/ (loop_exit(StateAfter(o)) /\ state' = "STOP"))
    /\ UNCHANGED <<batch, n>>

(* device_update: the user may have closed the window.  Then n--.          *)
countdown_Never == n

countdown == IF n = Forever THEN n ELSE n - 1

end_of_turn(closed) ==
    /\ phase = "update"
    /\ state' = IF closed THEN "QUIT" ELSE state
    /\ n' = countdown
    /\ phase' = IF n' = 0 THEN "done" ELSE "exec"
    /\ UNCHANGED <<batch, halt_ret, fate, resumed, late, masked, watchVars>>

(* The rest of cpu_exec; in batch mode sdb_mainloop then returns.          *)
cpu_exec_return ==
    /\ phase = "done"
    /\ state' = IF state = "RUNNING" THEN "STOP" ELSE state
    /\ phase' = IF batch THEN "exited" ELSE "prompt"
    /\ UNCHANGED <<batch, halt_ret, n, fate, resumed, late, masked, watchVars>>

is_exit_status_bad_AnyEnd == ~(state \in {"END", "QUIT"})

is_exit_status_bad == ~((state = "END" /\ halt_ret = 0) \/ state = "QUIT")

Execute == \/ \E o \in Outcome, m \in [EXPRS -> VALUES] : exec_once(o, m)
           \/ \E closed \in BOOLEAN : end_of_turn(closed)
           \/ cpu_exec_return
Command == \/ cmd_c \/ cmd_q \/ EndOfInput
           \/ \E k \in 0 .. MaxSi : cmd_si(k)
           \/ \E e \in EXPRS : cmd_w(e)
           \/ \E w \in Number : cmd_d(w)
Next == Execute \/ Command

Spec == Init /\ [][Next]_vars /\ WF_vars(Execute)
-----------------------------------------------------------------------------
(* A batch run (what the regression scripts use) exits with a bad status   *)
(* exactly when the guest program failed: a bad trap, an unknown           *)
(* instruction or a difference from the reference machine.  nemu_state and *)
(* the loop stay among their states.                                       *)
ExitStatusTellsFailure ==
    /\ TypeOK
    /\ batch /\ phase = "exited" => (is_exit_status_bad <=> fate \in {"bad_trap", "invalid", "mismatch"})

(* "si N" comes back to the prompt, whatever the program does.             *)
SiReturns == (phase = "exec" /\ n # Forever) ~> (phase \in {"prompt", "exited"})

(* "Program execution has ended. To restart the program, exit NEMU and run *)
(* again." (cpu-exec.c:217): no command runs another instruction after the *)
(* program has ended, and at most one runs after the window was closed,    *)
(* unless a watchpoint that changed with the same instruction has put STOP *)
(* in the place of END, ABORT or QUIT (trace_and_difftest).                *)
NoRunAfterEnd == ~masked => ~resumed /\ late <= 1

(* That never happens without CONFIG_WATCHPOINT, as the configurations in  *)
(* the repository have it.                                                 *)
EndsAreKept == ~masked
=============================================================================
