------------------------------- MODULE Ftrace -------------------------------
(***************************************************************************)
(* The function trace, nemu/src/utils/trace.c, fed by the jal and jalr     *)
(* instructions (nemu/src/isa/riscv32/inst.c).  An address is a function   *)
(* with TRUE for its first instruction, FALSE for any other.  `frames` is  *)
(* the real stack: the functions entered and not yet left, each marked     *)
(* when a jump rather than a call entered it, so that its return also      *)
(* leaves the function below.  main never returns: _trm_init would halt.   *)
(***************************************************************************)
EXTENDS Naturals, Sequences, FiniteSets, SequencesExt

CONSTANTS Fns,                          \* functions main may reach
          MaxFrames, MaxJumps, MaxPending   \* bounds: nesting, computed jumps, the list

ASSUME FtraceAssumption == MaxJumps \in Nat

VARIABLES call_depth, tail_rec,         \* the list behind tail_rec_head
          frames, jumps,
          plain                         \* no computed jump, no function active twice so far

callVars == <<call_depth, tail_rec, frames, jumps, plain>>

Boot == <<"_start", "_trm_init", "main">>
Function == Fns \cup {"_start", "_trm_init", "main"}
Address == Function \X BOOLEAN
Nowhere == "???"

(* The symbol a call goes to must start there; a return is inside it.      *)
find_symbol_func(target, is_call) ==
    IF is_call /\ ~target[2] THEN Nowhere ELSE target[1]

CallsInit == /\ call_depth = 0 /\ tail_rec = <<>>
             /\ frames = <<[fn |-> Boot[1], jumped |-> FALSE]>>
             /\ jumps = 0 /\ plain = TRUE

trace_func_call(pc, target, is_tail) ==
    /\ call_depth' = call_depth + 1
    /\ tail_rec' = IF is_tail /\ call_depth' > 2
                   THEN <<[pc |-> pc, depend |-> target]>> \o tail_rec ELSE tail_rec

(* A return of the newest jump's target also returns from the jumper, and  *)
(* so on down the list: how many jumps a ret in pc undoes.                 *)
Returned(pc, depth, list) ==
    LET Undone(j) == find_symbol_func(list[j].depend, TRUE)
                       = find_symbol_func(IF j = 1 THEN pc ELSE list[j - 1].pc, FALSE)
    IN  Max({n \in 0 .. Len(list) : \A j \in 1 .. n : depth > j + 1 /\ Undone(j)})

(* The jumper is taken off the list but its own return is not traced.      *)
trace_func_ret_Single(pc) ==
    LET hit == /\ call_depth > 2 /\ tail_rec # <<>>
               /\ find_symbol_func(Head(tail_rec).depend, TRUE) = find_symbol_func(pc, FALSE)
    IN  /\ call_depth' = IF call_depth > 2 THEN call_depth - 1 ELSE call_depth
        /\ tail_rec' = IF hit THEN Tail(tail_rec) ELSE tail_rec

trace_func_ret(pc) ==
    LET n == Returned(pc, call_depth, tail_rec)
    IN  /\ call_depth' = IF call_depth - n > 2 THEN call_depth - n - 1 ELSE call_depth - n
        /\ tail_rec' = SubSeq(tail_rec, n + 1, Len(tail_rec))

here == Last(frames).fn
Entered(f) == \E k \in DOMAIN frames : frames[k].fn = f
InMain == Len(frames) >= Len(Boot)
Callable == IF InMain THEN Fns ELSE {Boot[Len(frames) + 1]}

(* jal or jalr with rd = ra.                                               *)
Call(f) == /\ Len(frames) < MaxFrames
           /\ trace_func_call(<<here, FALSE>>, <<f, TRUE>>, FALSE)
           /\ frames' = Append(frames, [fn |-> f, jumped |-> FALSE])
           /\ plain' = (plain /\ ~Entered(f))
           /\ UNCHANGED jumps

(* jr to another function, which returns to this one's caller.             *)
TailCall(f) == /\ InMain /\ Len(frames) < MaxFrames /\ Len(tail_rec) < MaxPending
               /\ trace_func_call(<<here, FALSE>>, <<f, TRUE>>, TRUE)
               /\ frames' = Append(frames, [fn |-> f, jumped |-> TRUE])
               /\ plain' = (plain /\ ~Entered(f))
               /\ UNCHANGED jumps

(* jr within the function: a jump table.                                   *)
ComputedJump == /\ InMain /\ jumps < MaxJumps /\ Len(tail_rec) < MaxPending
                /\ trace_func_call(<<here, FALSE>>, <<here, FALSE>>, TRUE)
                /\ jumps' = jumps + 1
                /\ plain' = FALSE
                /\ UNCHANGED frames

(* ret: leaves the function and those it was jumped to from.               *)
CallerAt == Max({0} \cup {k \in DOMAIN frames : ~frames[k].jumped}) - 1
Ret == /\ CallerAt >= Len(Boot)
       /\ trace_func_ret(<<here, FALSE>>)
       /\ frames' = SubSeq(frames, 1, CallerAt)
       /\ UNCHANGED <<jumps, plain>>

CallsNext == \/ \E f \in Callable : Call(f) \/ TailCall(f)
             \/ ComputedJump
             \/ Ret
CallsSpec == CallsInit /\ [][CallsNext]_callVars

-----------------------------------------------------------------------------
CallsTypeOK == /\ call_depth \in Nat
               /\ tail_rec \in Seq([pc : Address, depend : Address])
               /\ frames \in Seq([fn : Function, jumped : BOOLEAN])
               /\ jumps \in 0 .. MaxJumps /\ plain \in BOOLEAN

(* The indentation of the trace is the nesting of the program, as long as  *)
(* no function is entered again while it is active and jr is used for      *)
(* nothing but jumping to a function: through any mixture of calls, jumps  *)
(* to functions and returns, one ret undoing a whole chain of jumps.       *)
IndentIsNesting == plain => call_depth = Len(frames) - 1

(* Recursion and jump tables disturb the indentation, but not for good:    *)
(* what is still counted in call_depth is on the list, so the depth less   *)
(* the pending jumps is the number of calls that have not returned.        *)
CallsBalance ==
    call_depth - Len(tail_rec) =
        Cardinality({k \in DOMAIN frames : ~frames[k].jumped}) - 1

(* The indentation of the function trace is the nesting of the program, as *)
(* long as no function is entered again while it is active and jr is used  *)
(* for nothing but jumping to a function; recursion and jump tables        *)
(* disturb it only as long as a jump is pending.                           *)
CallsTraced == CallsTypeOK /\ IndentIsNesting /\ CallsBalance
=============================================================================
