-------------------------- MODULE Debugger_proofs ---------------------------
(***************************************************************************)
(* NEMU's execution loop, for every program, every argument of si and any  *)
(* watchpoints, in both builds.                                            *)
(***************************************************************************)
EXTENDS Monitor, TLAPS

(* The argument of si is a count.                                          *)
Counts == MaxSi \in Nat

(* execute is entered with a count of at least one, and counts down to zero. *)
Counting == phase \in {"exec", "update"} => n # 0

LEMMA LoopTypesInit ==
    ASSUME Counts, Init
    PROVE  TypeOK /\ Counting
  <1>1. n \in Forever .. MaxSi
    BY DEF Counts, Init, Forever
  <1>2. watched \subseteq Number
    BY DEF Init, W!Init
  <1>3. halt_ret \in {-1, 0, 1} /\ late \in 0 .. 2
    BY DEF Init
  <1>4. batch \in BOOLEAN /\ resumed \in BOOLEAN /\ masked \in BOOLEAN
    BY Zenon DEF Init
  <1>5. phase = "prompt" /\ state = "STOP" /\ fate = "none"
    BY DEF Init
  <1> QED BY <1>1, <1>2, <1>3, <1>4, <1>5 DEF TypeOK, Counting

LEMMA LoopTypesStep ==
    ASSUME Counts, TypeOK, Counting, [Next]_vars
    PROVE  TypeOK' /\ Counting'
  <1> USE DEF TypeOK, Counting
  <1>1. CASE UNCHANGED vars
    BY <1>1 DEF vars
  <1>2. ASSUME NEW o \in Outcome, NEW m \in [EXPRS -> VALUES], exec_once(o, m)
        PROVE  TypeOK' /\ Counting'
    <2>1. watched' = watched
      BY <1>2 DEF exec_once, wp_difftest, W!Instruction
    <2>2. state' \in {"RUNNING", "STOP", "END", "ABORT", "QUIT"} /\ phase' \in {"done", "update"}
      BY <1>2 DEF exec_once, trace_and_difftest, StateAfter
    <2>3. halt_ret' \in {-1, 0, 1}
      BY <1>2 DEF exec_once, set_halt_ret
    <2> QED BY <1>2, <2>1, <2>2, <2>3 DEF exec_once, Outcome
  <1>3. ASSUME NEW closed \in BOOLEAN, end_of_turn(closed) PROVE TypeOK' /\ Counting'
    <2>1. n' \in Forever .. MaxSi
      BY <1>3 DEF end_of_turn, countdown, Forever, Counts
    <2> QED BY <1>3, <2>1 DEF end_of_turn, watchVars
  <1>4. CASE cpu_exec_return
    BY <1>4 DEF cpu_exec_return, watchVars
  <1>5. ASSUME NEW k \in {Forever} \cup 0 .. MaxSi, phase = "prompt", cpu_exec(k)
        PROVE  TypeOK' /\ Counting'
    <2>1. k \in Forever .. MaxSi
      BY DEF Forever, Counts
    <2> QED BY <1>5, <2>1 DEF cpu_exec, watchVars
  <1>6. CASE cmd_q \/ EndOfInput
    BY <1>6 DEF cmd_q, EndOfInput, watchVars
  <1>7. ASSUME NEW e \in EXPRS, cmd_w(e) PROVE TypeOK' /\ Counting'
    BY <1>7 DEF cmd_w, watchVars, W!Set
  <1>8. ASSUME NEW w \in Number, cmd_d(w) PROVE TypeOK' /\ Counting'
    BY <1>8 DEF cmd_d, watchVars, W!Remove
  <1> QED
    BY <1>1, <1>2, <1>3, <1>4, <1>5, <1>6, <1>7, <1>8 DEF Next, Execute, Command, cmd_c, cmd_si

(* As long as no watchpoint's stop has replaced it, nemu_state says until   *)
(* the debugger exits that the guest program has ended; a window closed    *)
(* before the last instruction makes it the last.                          *)
Kept ==
    /\ ~resumed
    /\ phase \in {"exec", "update"} =>
          fate = "none" /\ late = 0 /\ state \in {"RUNNING", "QUIT"}
    /\ phase = "update" => state = "RUNNING"
    /\ phase \in {"prompt", "done", "crashed"} /\ fate # "none" => state \in {"END", "ABORT"}
    /\ phase \in {"prompt", "done", "crashed"} /\ late # 0 => has_ended
    /\ late <= 1

Ending == /\ ~masked => Kept
          /\ ~CONFIG_WATCHPOINT => EndsAreKept

LEMMA EndingStep ==
    ASSUME TypeOK, Ending, [Next]_vars
    PROVE  Ending'
  <1> USE DEF TypeOK, Ending, Kept, EndsAreKept, has_ended
  <1>1. CASE UNCHANGED vars
    BY <1>1 DEF vars
  <1>2. ASSUME NEW o \in Outcome, NEW m \in [EXPRS -> VALUES], exec_once(o, m)
        PROVE  Ending'
    <2>1. masked' = (masked \/ (StateAfter(o) # "RUNNING" /\ state' = "STOP"))
      BY <1>2 DEF exec_once, loop_exit
    <2>2. state' \in {StateAfter(o), "STOP"}
      BY <1>2 DEF exec_once, trace_and_difftest
    <2>3. ~CONFIG_WATCHPOINT => state' = StateAfter(o)
      BY <1>2 DEF exec_once, trace_and_difftest
    <2>4. ~masked => phase = "exec" /\ fate = "none" /\ late = 0 /\ state \in {"RUNNING", "QUIT"}
      BY <1>2 DEF exec_once
    <2>5. ~CONFIG_WATCHPOINT => ~masked'
      <3>1. ~CONFIG_WATCHPOINT => StateAfter(o) # "STOP"
        BY <2>4 DEF StateAfter
      <3> QED BY <3>1, <2>1, <2>3
    <2>6. SUFFICES ASSUME ~masked' PROVE Kept'
      BY <2>5
    <2>7. ~masked
      BY <2>1, <2>6
    <2>8. state' = StateAfter(o) \/ (StateAfter(o) = "RUNNING" /\ state' = "STOP")
      BY <2>1, <2>2, <2>6
    <2>9. ~resumed'
      BY <1>2, <2>4, <2>7 DEF exec_once
    <2>10. late' = IF state = "QUIT" THEN 1 ELSE 0
      BY <1>2, <2>4, <2>7 DEF exec_once
    <2>11. fate' = IF o = "retire" THEN "none" ELSE o
      BY <1>2, <2>4, <2>7 DEF exec_once
    <2>12. phase' = IF state' # "RUNNING" THEN "done" ELSE "update"
      BY <1>2 DEF exec_once, loop_exit
    <2> QED BY <2>8, <2>4, <2>9, <2>10, <2>11, <2>12, <2>7 DEF StateAfter, Outcome
  <1>3. ASSUME NEW closed \in BOOLEAN, end_of_turn(closed) PROVE Ending'
    BY <1>3 DEF end_of_turn
  <1>4. CASE cpu_exec_return
    BY <1>4 DEF cpu_exec_return
  <1>5. ASSUME NEW k, phase = "prompt", cpu_exec(k) PROVE Ending'
    BY <1>5 DEF cpu_exec
  <1>6. CASE cmd_q \/ EndOfInput
    BY <1>6 DEF cmd_q, EndOfInput
  <1>7. ASSUME NEW e \in EXPRS, cmd_w(e) PROVE Ending'
    BY <1>7 DEF cmd_w
  <1>8. ASSUME NEW w \in Number, cmd_d(w) PROVE Ending'
    BY <1>8 DEF cmd_d
  <1> QED
    BY <1>1, <1>2, <1>3, <1>4, <1>5, <1>6, <1>7, <1>8 DEF Next, Execute, Command, cmd_c, cmd_si

(* No command runs another instruction after the guest program has ended,  *)
(* and at most one runs after the window was closed, whatever the user     *)
(* types and whenever the window is closed: cpu_exec refuses to start, and *)
(* execute leaves its loop.  Only a watchpoint that fires with the last    *)
(* instruction breaks this, so nothing does without CONFIG_WATCHPOINT.     *)
THEOREM NothingRunsAfterTheEnd ==
    ASSUME Counts
    PROVE  /\ Spec => []NoRunAfterEnd
           /\ ~CONFIG_WATCHPOINT => (Spec => []EndsAreKept)
  <1>1. ASSUME Init PROVE TypeOK /\ Counting /\ Ending
    <2>1. phase = "prompt" /\ fate = "none" /\ late = 0 /\ ~resumed /\ ~masked
      BY <1>1 DEF Init
    <2> QED BY <1>1, <2>1, LoopTypesInit DEF Ending, Kept, EndsAreKept
  <1>2. TypeOK /\ Counting /\ Ending /\ [Next]_vars => (TypeOK /\ Counting /\ Ending)'
    BY LoopTypesStep, EndingStep
  <1>3. Spec => []Ending
    BY <1>1, <1>2, PTL DEF Spec
  <1>4. Ending => NoRunAfterEnd
    BY DEF Ending, Kept, NoRunAfterEnd
  <1>5. Spec => []NoRunAfterEnd
    BY <1>3, <1>4, PTL
  <1>6. ASSUME ~CONFIG_WATCHPOINT PROVE Ending => EndsAreKept
    BY <1>6 DEF Ending
  <1>7. ASSUME ~CONFIG_WATCHPOINT PROVE Spec => []EndsAreKept
    <2>1. Ending => EndsAreKept
      BY <1>7, <1>6
    <2> QED BY <1>3, <2>1, PTL
  <1> QED BY <1>5, <1>7

(* A batch run is one cpu_exec without watchpoints: the state it ends in   *)
(* and the value of a0 are those of the instruction that ended the guest.  *)
BatchRun ==
    batch =>
        /\ watched = {}
        /\ phase # "crashed"
        /\ phase = "prompt" => state = "STOP" /\ fate = "none"
        /\ phase \in {"exec", "update"} => n = Forever /\ fate = "none" /\ state \in {"RUNNING", "QUIT"}
        /\ phase = "update" => state = "RUNNING"
        /\ phase \in {"done", "exited"} =>
              /\ fate = "none" => state = "QUIT"
              /\ fate = "good_trap" => state = "END" /\ halt_ret = 0
              /\ fate = "bad_trap" => state = "END" /\ halt_ret = 1
              /\ fate \in {"invalid", "mismatch"} => state = "ABORT"

LEMMA BatchRunStep ==
    ASSUME TypeOK, BatchRun, [Next]_vars
    PROVE  BatchRun'
  <1> USE DEF TypeOK, BatchRun
  <1>1. CASE UNCHANGED vars
    BY <1>1 DEF vars
  <1>2. ASSUME NEW o \in Outcome, NEW m \in [EXPRS -> VALUES], exec_once(o, m), batch
        PROVE  BatchRun'
    <2>1. watched' = {} /\ (CONFIG_WATCHPOINT => ~stopped')
      BY <1>2 DEF exec_once, wp_difftest, W!Instruction, W!Changed
    <2>2. state' = StateAfter(o)
      BY <1>2, <2>1 DEF exec_once, trace_and_difftest
    <2>3. phase = "exec" /\ n = Forever /\ fate = "none" /\ state \in {"RUNNING", "QUIT"}
      BY <1>2 DEF exec_once
    <2>4. fate' = (IF o = "retire" THEN "none" ELSE o) /\ UNCHANGED <<batch, n>>
      BY <1>2, <2>3 DEF exec_once
    <2>5. phase' = IF state' # "RUNNING" THEN "done" ELSE "update"
      BY <1>2 DEF exec_once, loop_exit
    <2>6. (o = "good_trap" => halt_ret' = 0) /\ (o = "bad_trap" => halt_ret' = 1)
      BY <1>2 DEF exec_once, set_halt_ret
    <2> QED BY <1>2, <2>1, <2>2, <2>3, <2>4, <2>5, <2>6 DEF StateAfter, Outcome
  <1>3. ASSUME NEW closed \in BOOLEAN, end_of_turn(closed) PROVE BatchRun'
    BY <1>3 DEF end_of_turn, countdown, Forever, watchVars
  <1>4. CASE cpu_exec_return
    BY <1>4 DEF cpu_exec_return, watchVars
  <1>5. CASE cmd_c
    <2>1. SUFFICES ASSUME batch PROVE BatchRun'
      BY <1>5 DEF cmd_c, cpu_exec, watchVars
    <2>2. phase = "prompt" /\ state = "STOP" /\ fate = "none" /\ watched = {} /\ ~has_ended
      BY <1>5, <2>1 DEF cmd_c, has_ended
    <2>3. /\ state' = "RUNNING" /\ n' = Forever /\ phase' = "exec"
          /\ UNCHANGED <<batch, fate, watched>>
      BY <1>5, <2>2 DEF cmd_c, cpu_exec, watchVars, Forever
    <2> QED BY <2>2, <2>3
  <1>6. CASE ~batch /\ UNCHANGED batch
    BY <1>6
  <1>7. ~batch => UNCHANGED batch
    BY DEF vars, Next, Execute, Command, exec_once, end_of_turn, cpu_exec_return, cmd_c, cmd_si,
           cpu_exec, cmd_q, EndOfInput, cmd_w, cmd_d
  <1> QED
    BY <1>1, <1>2, <1>3, <1>4, <1>5, <1>6, <1>7
       DEF Next, Execute, Command, cmd_si, cmd_q, EndOfInput, cmd_w, cmd_d

(* In batch mode, which the regression scripts use, NEMU exits with a bad  *)
(* status exactly when the guest took a bad trap, met an unknown           *)
(* instruction or differed from the reference, in both builds.             *)
THEOREM ExitStatusIsRight ==
    ASSUME Counts
    PROVE  Spec => []ExitStatusTellsFailure
  <1>1. Init => TypeOK /\ Counting /\ BatchRun
    BY LoopTypesInit DEF Init, W!Init, BatchRun
  <1>2. TypeOK /\ Counting /\ BatchRun /\ [Next]_vars => (TypeOK /\ Counting /\ BatchRun)'
    BY LoopTypesStep, BatchRunStep
  <1>3. TypeOK /\ BatchRun => ExitStatusTellsFailure
    BY DEF TypeOK, BatchRun, ExitStatusTellsFailure, is_exit_status_bad, Outcome
  <1> QED BY <1>1, <1>2, <1>3, PTL DEF Spec

=============================================================================
