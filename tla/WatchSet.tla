------------------------------ MODULE WatchSet ------------------------------
(***************************************************************************)
(* What the watchpoints of the debugger promise, without their storage: a  *)
(* set of numbered watchpoints, each with an expression and the value it   *)
(* had when it was last looked at.  A number is in use at most once; after *)
(* an instruction the machine stops iff a watched value has changed.       *)
(***************************************************************************)
EXTENDS Naturals

CONSTANTS Number,       \* the numbers a watchpoint can have
          EXPRS,        \* the expressions that can be watched
          VALUES        \* what an expression can evaluate to

VARIABLES watched,      \* the numbers in use
          expr_of,      \* the expression of each watchpoint
          seen,         \* the value it had when last evaluated
          now,          \* the machine: the present value of each expression
          stopped       \* the last instruction stopped the machine

vars == <<watched, expr_of, seen, now, stopped>>

Init == /\ watched = {}
        /\ expr_of \in [Number -> EXPRS]
        /\ seen \in [Number -> VALUES]
        /\ now \in [EXPRS -> VALUES]
        /\ stopped = FALSE

Changed(m) == {w \in watched : seen[w] # m[expr_of[w]]}

Set(e) == \E w \in Number \ watched :
             /\ watched' = watched \cup {w}
             /\ expr_of' = [expr_of EXCEPT ![w] = e]
             /\ seen' = [seen EXCEPT ![w] = now[e]]
             /\ UNCHANGED <<now, stopped>>

Remove(w) == /\ w \in watched
             /\ watched' = watched \ {w}
             /\ UNCHANGED <<expr_of, seen, now, stopped>>

Instruction(m) == /\ now' = m
                  /\ stopped' = (Changed(m) # {})
                  /\ seen' = [w \in Number |-> IF w \in watched THEN m[expr_of[w]] ELSE seen[w]]
                  /\ UNCHANGED <<watched, expr_of>>

Next == \/ \E e \in EXPRS : Set(e)
        \/ \E w \in Number : Remove(w)
        \/ \E m \in [EXPRS -> VALUES] : Instruction(m)

Spec == Init /\ [][Next]_vars
=============================================================================
