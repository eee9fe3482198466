----------------------------- MODULE Watchpoint -----------------------------
(***************************************************************************)
(* The watchpoint pool of the debugger, nemu/src/monitor/sdb/watchpoint.c: *)
(* NR_WP nodes in one array, threaded by their next pointers on two lists, *)
(* the active ones (head) and the free ones (free_).  A node's number is   *)
(* its index.  An assert(0) ends the debugger: `failed` holds from then on.*)
(***************************************************************************)
EXTENDS Naturals

CONSTANTS NR_WP,        \* 32 in the code
          EXPRS,        \* expressions a user may watch
          VALUES        \* what they evaluate to

ASSUME NrWpAssumption == NR_WP \in Nat \ {0}

VARIABLES next, head, free_, expression, value,
          now,          \* what expr() returns for each expression at present
          stopped,      \* the last wp_difftest reported a change
          failed        \* an assertion has ended the program

poolVars == <<next, head, free_, expression, value, now, stopped, failed>>

Slot == 0 .. NR_WP - 1
NULL == NR_WP
Link == Slot \cup {NULL}

(* What a walk along the next pointers nx from p visits: the nodes of every *)
(* set that holds p and is closed under nx.                                *)
Closed(nx, S) == \A s \in S : nx[s] # NULL => nx[s] \in S
List(nx, p) ==
    {s \in Slot : \A S \in SUBSET Slot : (p # NULL => p \in S) /\ Closed(nx, S) => s \in S}
Active == List(next, head)
Free   == List(next, free_)

init_wp_pool == /\ next = [i \in Slot |-> i + 1]
                /\ head = NULL
                /\ free_ = 0

PoolTypeOK ==
          /\ next \in [Slot -> Link]
          /\ head \in Link /\ free_ \in Link
          /\ expression \in [Slot -> EXPRS]
          /\ value \in [Slot -> VALUES]
          /\ now \in [EXPRS -> VALUES]
          /\ stopped \in BOOLEAN /\ failed \in BOOLEAN

PoolInit ==
        /\ init_wp_pool
        /\ expression \in [Slot -> EXPRS]     \* malloc'ed, not initialised
        /\ value \in [Slot -> VALUES]
        /\ now \in [EXPRS -> VALUES]
        /\ stopped = FALSE /\ failed = FALSE

Fail == failed' = TRUE /\ UNCHANGED <<next, head, free_, expression, value, now, stopped>>

new_wp_LoseTail == /\ free_' = NULL
                   /\ next' = [next EXCEPT ![free_] = head]
                   /\ head' = free_

new_wp == /\ free_' = next[free_]
          /\ next' = [next EXCEPT ![free_] = head]
          /\ head' = free_

wp_set(e) ==
    IF free_ = NULL THEN Fail
    ELSE /\ new_wp
         /\ expression' = [expression EXCEPT ![free_] = e]
         /\ value' = [value EXCEPT ![free_] = now[e]]
         /\ UNCHANGED <<now, stopped, failed>>

(* free_wp unlinks the head, or else the node the walk finds before wp.    *)
Unlink(wp) ==
    IF wp = head
    THEN /\ head' = next[wp]
         /\ next' = [next EXCEPT ![wp] = free_]
    ELSE \E pos \in Active :
             /\ next[pos] = wp
             /\ next' = [next EXCEPT ![pos] = next[wp], ![wp] = free_]
             /\ UNCHANGED head

free_wp(wp) ==
    IF wp # head /\ \A pos \in Active : next[pos] # wp THEN Fail
    ELSE /\ Unlink(wp)
         /\ free_' = wp
         /\ UNCHANGED <<expression, value, now, stopped, failed>>

(* wp_remove: a number out of range is refused and changes nothing.        *)
wp_remove(no) == no \in Slot /\ free_wp(no)

(* An instruction leaves the expressions with the values m; wp_difftest    *)
(* then walks the active list.                                             *)
Differs(m) == {w \in Active : value[w] # m[expression[w]]}

wp_difftest_KeepOld(m) == value' = value

wp_difftest(m) ==
    value' = [w \in Slot |-> IF w \in Differs(m) THEN m[expression[w]] ELSE value[w]]

Instruction(m) == /\ now' = m
                  /\ wp_difftest(m)
                  /\ stopped' = (Differs(m) # {})
                  /\ UNCHANGED <<next, head, free_, expression, failed>>

PoolNext ==
        /\ ~failed
        /\ \/ \E e \in EXPRS : wp_set(e)
           \/ \E no \in Slot : wp_remove(no)
           \/ \E m \in [EXPRS -> VALUES] : Instruction(m)

PoolSpec == PoolInit /\ [][PoolNext]_poolVars
-----------------------------------------------------------------------------
(* new_wp and free_wp never lose a node and never put one on both lists:   *)
(* the pool is split into the active and the free nodes.                   *)
PoolPartitioned == Active \cap Free = {} /\ Active \cup Free = Slot

(* The lists are lists: no two nodes share a successor and nothing points  *)
(* back at the head of a list, so every walk ends.                         *)
NoCycles == /\ \A a, b \in Slot : next[a] = next[b] => a = b \/ next[a] = NULL
            /\ \A a \in Slot : next[a] # NULL => next[a] \notin {head, free_}
            /\ head = free_ => head = NULL

(* The pool implements numbered watchpoints: the list structure, its order *)
(* and the reuse of nodes are invisible to the user.                       *)
Abstract == INSTANCE WatchSet
            WITH Number <- Slot, watched <- Active, expr_of <- expression, seen <- value
ImplementsWatchSet == Abstract!Spec
=============================================================================
