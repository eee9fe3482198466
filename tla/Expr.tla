-------------------------------- MODULE Expr --------------------------------
(***************************************************************************)
(* The expression evaluator of the debugger, nemu/src/monitor/sdb/expr.c,  *)
(* against the value the expression has in C.  Tokens are records of a     *)
(* kind and a value (the regular expressions of make_token are left out);  *)
(* the user types every well-formed expression of at most MaxLen tokens.   *)
(***************************************************************************)
EXTENDS Integers, Sequences, FiniteSets, SequencesExt

CONSTANTS MaxLen,
          Leaves,         \* operand tokens
          REG_MINUS,      \* may "-" and "*" follow a register or a hex number?
          NESTED_UNARY    \* may a unary operator follow another?

VARIABLES toks,           \* tokens[0 .. nr_token-1]
          phase, result, success,
          after,          \* an operand is complete: an operator may follow
          vals, ops       \* the stacks of the reference evaluation

vars == <<toks, phase, result, success, after, vals, ops>>

INT_MAX == 1000000        \* stands for 2^31-1: no value of an input is as large
BAD     == 2000000        \* the C value of a division by zero: there is none

Tok(k)    == [k |-> k, v |-> 0]
paddr_read(a) == a + 100  \* memory: a word that differs from its address
Quot(a, b) == LET q == (IF a < 0 THEN -a ELSE a) \div (IF b < 0 THEN -b ELSE b)
              IN  IF (a < 0) = (b < 0) THEN q ELSE -q
Truth(b)   == IF b THEN 1 ELSE 0

(* val1 op val2 in C.                                                      *)
Binary(op, a, b) ==
    CASE op = "==" -> Truth(a = b)
      [] op = "!=" -> Truth(a # b)
      [] op = "&&" -> Truth(a # 0 /\ b # 0)
      [] op = "||" -> Truth(a # 0 \/ b # 0)
      [] op = "+"  -> a + b
      [] op = "-"  -> a - b
      [] op = "*"  -> a * b
      [] op = "/"  -> IF b = 0 THEN INT_MAX ELSE Quot(a, b)

-----------------------------------------------------------------------------
Level(k) == CASE k = "||" -> 6 [] k = "&&" -> 5 [] k \in {"==", "!="} -> 4 [] k \in {"+", "-"} -> 3
              [] k \in {"*", "/"} -> 2 [] k \in {"NEGATIVE", "DEREF"} -> 1 [] k \in {"REG", "HEX"} -> 0
              [] OTHER -> -1

(* The reference evaluates while the user types, with a stack of values and *)
(* one of pending operators: an operator waits until one of a higher level *)
(* follows, a closing parenthesis completes what is inside.                *)
CValue(op, a, b) == IF BAD \in {a, b} \/ (op = "/" /\ b = 0) THEN BAD ELSE Binary(op, a, b)
CUnary(op, a) == IF a = BAD THEN BAD ELSE IF op = "NEGATIVE" THEN -a ELSE paddr_read(a)

RECURSIVE Reduce(_, _, _)
Reduce(vs, os, level) ==
    LET op == Last(os)  n == Len(vs)
    IN  IF os = <<>> \/ op = "(" \/ Level(op) > level THEN [vs |-> vs, os |-> os]
        ELSE IF Level(op) = 1 THEN Reduce([vs EXCEPT ![n] = CUnary(op, @)], Front(os), level)
        ELSE Reduce(Append(SubSeq(vs, 1, n - 2), CValue(op, vs[n - 1], vs[n])), Front(os), level)

Cost(k) == IF k = "(" THEN 2 ELSE 1     \* an open parenthesis also needs its partner
Room(k) == Len(toks) + Cost(k) + (IF k = ")" THEN 0 ELSE Cardinality({i \in DOMAIN ops : ops[i] = "("})) <= MaxLen
Typed(t) == phase = "typing" /\ Room(t.k) /\ toks' = Append(toks, t) /\ UNCHANGED <<phase, result, success>>

SignPending == ops # <<>> /\ Level(Last(ops)) = 1

Operand(l) == ~after /\ Typed(l) /\ after' = TRUE /\ vals' = Append(vals, l.v) /\ UNCHANGED ops
Open       == ~after /\ Typed(Tok("(")) /\ ops' = Append(ops, "(") /\ UNCHANGED <<after, vals>>
Sign(k, u) == /\ ~after /\ Typed(Tok(k)) /\ Room("-")
              /\ NESTED_UNARY \/ ~SignPending
              /\ ops' = Append(ops, u) /\ UNCHANGED <<after, vals>>
Operator(k) == /\ after /\ Typed(Tok(k))
               /\ REG_MINUS \/ k \notin {"-", "*"} \/ Last(toks).k \in {")", "NUM"}
               /\ LET r == Reduce(vals, ops, Level(k)) IN vals' = r.vs /\ ops' = Append(r.os, k)
               /\ after' = FALSE
Close      == /\ after /\ "(" \in Range(ops) /\ Typed(Tok(")"))
              /\ LET r == Reduce(vals, ops, 6) IN vals' = r.vs /\ ops' = Front(r.os)
              /\ UNCHANGED after

CResult == Reduce(vals, ops, 6).vs[1]
-----------------------------------------------------------------------------
(* The loop of expr(): which "-" and "*" are a sign or a dereference.      *)
IsUnary(ts, i) == ts[i].k \in {"-", "*"} /\ (i = 1 \/ ts[i - 1].k \notin {")", "NUM"})

MarkUnary(ts) == [i \in DOMAIN ts |-> IF ~IsUnary(ts, i) THEN ts[i]
                                      ELSE IF ts[i].k = "-" THEN Tok("NEGATIVE") ELSE Tok("DEREF")]

(* Parentheses open before token i of p..q.                                *)
Count(ts, k, p, i)  == Cardinality({j \in p .. i : ts[j].k = k})
Nesting(ts, p, i)   == Count(ts, "(", p, i) - Count(ts, ")", p, i)
Balanced(ts, p, q)  == Nesting(ts, p, q) = 0 /\ \A i \in p .. q : Nesting(ts, p, i) >= 0

(* check_parantheses(p, q) == true: the outer pair can be taken off.       *)
check_parantheses(ts, p, q) == /\ Balanced(ts, p, q)
                               /\ ts[p].k = "(" /\ ts[q].k = ")"
                               /\ Balanced(ts, p + 1, q - 1)

(* The last token of the highest level outside parentheses.                *)
find_main_op_pos_First(ts, p, q) ==
    LET outside == {i \in p .. q : Nesting(ts, p, i) = 0 /\ ts[i].k # ")"}
    IN  Min({i \in outside : \A j \in outside : Level(ts[j].k) <= Level(ts[i].k)})

find_main_op_pos(ts, p, q) ==
    LET outside == {i \in p .. q : Nesting(ts, p, i) = 0 /\ ts[i].k # ")"}
    IN  Max({i \in outside : \A j \in outside : Level(ts[j].k) <= Level(ts[i].k)})

RECURSIVE Eval(_, _, _)
Eval(ts, p, q) ==
    IF p > q THEN INT_MAX
    ELSE IF p = q THEN (IF ts[p].k \in {"NUM", "REG", "HEX"} THEN ts[p].v ELSE 0)
    ELSE IF check_parantheses(ts, p, q) THEN Eval(ts, p + 1, q - 1)
    ELSE LET op   == find_main_op_pos(ts, p, q)
             val2 == Eval(ts, op + 1, q)
         IN  CASE ts[op].k = "NEGATIVE" -> -val2
               [] ts[op].k = "DEREF"    -> paddr_read(val2)
               [] ts[op].k \in {"REG", "HEX"} -> 0
               [] OTHER -> Binary(ts[op].k, Eval(ts, p, op - 1), val2)

Reported(res) == TRUE     \* *success is set to true last, whatever the result

expr == /\ phase = "typing" /\ after /\ "(" \notin Range(ops)
        /\ result' = Eval(MarkUnary(toks), 1, Len(toks))
        /\ success' = Reported(result')
        /\ phase' = "done"
        /\ UNCHANGED <<toks, after, vals, ops>>

Init == /\ toks = <<>> /\ after = FALSE /\ vals = <<>> /\ ops = <<>>
        /\ phase = "typing" /\ result = 0 /\ success = FALSE
Next == \/ \E l \in Leaves : Operand(l)
        \/ Open \/ Close
        \/ Sign("-", "NEGATIVE") \/ Sign("*", "DEREF")
        \/ \E k \in {"||", "&&", "==", "!=", "+", "-", "*", "/"} : Operator(k)
        \/ expr
Spec == Init /\ [][Next]_vars
-----------------------------------------------------------------------------
(* p, x, w and the test command: the value shown is the value the          *)
(* expression has in C (precedence, associativity, signs, dereferences).   *)
SameValueAsC == phase = "done" /\ CResult # BAD => result = CResult /\ success

(* A division by zero is reported as an error (expr.c:287, sdb.c:196).     *)
ErrorsReported == phase = "done" /\ CResult = BAD => ~success
=============================================================================
