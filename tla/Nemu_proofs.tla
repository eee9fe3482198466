----------------------------- MODULE Nemu_proofs -----------------------------
(***************************************************************************)
(* Theorems about parts of NEMU that stand beside its execution loop: the  *)
(* watchpoint pool and its implementation of the numbered watchpoints of   *)
(* WatchSet, the differential test, the ring buffer of trace.c, the binary *)
(* trace and the cache simulator that reads it (Cachesim), the function    *)
(* trace, and, at the end, the loads and stores between npc and its memory *)
(* (Lanes).  Each for every size of the pool, of the buffer, of the cache  *)
(* and of memory.                                                          *)
(***************************************************************************)
EXTENDS Watchpoint, Difftest, Cachesim, Ftrace, Lanes, TLAPS, WellFoundedInduction,
        FiniteSetTheorems, FunctionTheorems, SequenceTheorems

(***************************************************************************)
(* The watchpoint pool: its two lists always partition the nodes.  The     *)
(* lemmas say what storing one next pointer does to the set of nodes a     *)
(* walk visits.                                                            *)
(***************************************************************************)

(* A walk visits its first node and goes on to every successor.            *)
LEMMA ListSteps ==
    ASSUME NEW nx \in [Slot -> Link], NEW p \in Link
    PROVE  /\ List(nx, p) \subseteq Slot
           /\ p # NULL => p \in List(nx, p)
           /\ Closed(nx, List(nx, p))
  BY DEF List, Closed, Link

(* It visits no more than any closed set that holds its first node.        *)
LEMMA ListLeast ==
    ASSUME NEW nx \in [Slot -> Link], NEW p \in Link, NEW S, S \subseteq Slot,
           p # NULL => p \in S, Closed(nx, S)
    PROVE  List(nx, p) \subseteq S
  BY DEF List

(* The empty list.                                                         *)
LEMMA ListEmpty == ASSUME NEW nx PROVE List(nx, NULL) = {}
  <1>1. {} \in SUBSET Slot /\ Closed(nx, {})
    BY DEF Closed
  <1> QED
    BY <1>1 DEF List

(* Storing a pointer in a node that the walk does not visit changes nothing. *)
LEMMA ListFrame ==
    ASSUME NEW nx \in [Slot -> Link], NEW p \in Link, NEW x \in Slot, NEW y \in Link,
           x \notin List(nx, p)
    PROVE  List([nx EXCEPT ![x] = y], p) = List(nx, p)
  <1> DEFINE nx2 == [nx EXCEPT ![x] = y]
             L   == List(nx, p)
             L2  == List(nx2, p)
  <1>0. nx2 \in [Slot -> Link] /\ \A s \in Slot : s # x => nx2[s] = nx[s]
    OBVIOUS
  <1>1. L \subseteq Slot /\ (p # NULL => p \in L) /\ Closed(nx, L)
    BY ListSteps
  <1>2. L2 \subseteq Slot /\ (p # NULL => p \in L2) /\ Closed(nx2, L2)
    BY <1>0, ListSteps
  <1> HIDE DEF nx2
  <1>3. Closed(nx2, L)
    BY <1>0, <1>1 DEF Closed
  <1>4. L2 \subseteq L
    BY <1>0, <1>1, <1>3, ListLeast
  <1>5. Closed(nx, L2)
    BY <1>0, <1>4, <1>2 DEF Closed
  <1>6. L \subseteq L2
    BY <1>2, <1>5, ListLeast
  <1> QED
    BY <1>4, <1>6 DEF nx2

(* Linking a node in front of a list that does not hold it adds the node.  *)
LEMMA ListPush ==
    ASSUME NEW nx \in [Slot -> Link], NEW q \in Link, NEW x \in Slot, x \notin List(nx, q)
    PROVE  List([nx EXCEPT ![x] = q], x) = {x} \cup List(nx, q)
  <1> DEFINE nx2 == [nx EXCEPT ![x] = q]
             L   == List(nx, q)
             L2  == List(nx2, x)
  <1>0. nx2 \in [Slot -> Link] /\ nx2[x] = q /\ (\A s \in Slot : s # x => nx2[s] = nx[s]) /\ x # NULL /\ x \in Link
    BY NrWpAssumption DEF Slot, Link, NULL
  <1> HIDE DEF nx2
  <1>1. L \subseteq Slot /\ (q # NULL => q \in L) /\ Closed(nx, L)
    BY ListSteps
  <1>2. Closed(nx2, {x} \cup L)
    BY <1>0, <1>1 DEF Closed
  <1>3. L2 \subseteq {x} \cup L
    BY <1>0, <1>1, <1>2, ListLeast
  <1>4. L2 \subseteq Slot /\ x \in L2 /\ Closed(nx2, L2)
    BY <1>0, ListSteps
  <1>5. List(nx2, q) = L
    BY ListFrame DEF nx2
  <1>6. q # NULL => q \in L2
    BY <1>0, <1>4 DEF Closed
  <1>7. L \subseteq L2
    BY <1>0, <1>4, <1>5, <1>6, ListLeast
  <1> QED
    BY <1>3, <1>4, <1>7 DEF nx2

(* A walk that starts behind a node nothing points at visits the rest.     *)
LEMMA ListPop ==
    ASSUME NEW nx \in [Slot -> Link], NEW x \in Slot, \A s \in Slot : nx[s] # x
    PROVE  List(nx, nx[x]) = List(nx, x) \ {x}
  <1> DEFINE L == List(nx, x)
             T == List(nx, nx[x])
  <1>0. x # NULL /\ x \in Link /\ nx[x] \in Link
    BY NrWpAssumption DEF Slot, Link, NULL
  <1>1. L \subseteq Slot /\ x \in L /\ Closed(nx, L)
    BY <1>0, ListSteps
  <1>2. T \subseteq Slot /\ (nx[x] # NULL => nx[x] \in T) /\ Closed(nx, T)
    BY <1>0, ListSteps
  <1>3. Closed(nx, L \ {x}) /\ (nx[x] # NULL => nx[x] \in L \ {x})
    BY <1>1 DEF Closed
  <1>4. T \subseteq L \ {x}
    BY <1>0, <1>1, <1>3, ListLeast
  <1>5. Closed(nx, {x} \cup T)
    BY <1>2 DEF Closed
  <1>6. L \subseteq {x} \cup T
    BY <1>0, <1>2, <1>5, ListLeast
  <1> QED
    BY <1>4, <1>6

OnePredecessor(nx) == \A a, b \in Slot : nx[a] = nx[b] => a = b \/ nx[a] = NULL
Bypasses(nx2, nx, pos) == /\ nx2 \in [Slot -> Link]
                          /\ nx2[pos] = nx[nx[pos]]
                          /\ \A s \in Slot : s # pos => nx2[s] = nx[s]

(* Bypassing a node in the middle of a list removes exactly that node.     *)
LEMMA ListUnlink ==
    ASSUME NEW nx \in [Slot -> Link], NEW p \in Slot, NEW pos \in List(nx, p), NEW x \in Slot,
           nx[pos] = x, p # x,
           OnePredecessor(nx), NEW nx2, Bypasses(nx2, nx, pos)
    PROVE  List(nx2, p) = List(nx, p) \ {x}
  <1> USE DEF OnePredecessor, Bypasses
  <1> DEFINE L   == List(nx, p)
             L2  == List(nx2, p)
  <1>0. x # NULL /\ p # NULL /\ p \in Link /\ pos \in Slot
    BY NrWpAssumption DEF Slot, Link, NULL, List
  <1>1. L \subseteq Slot /\ p \in L /\ x \in L /\ Closed(nx, L)
    BY <1>0, ListSteps DEF Closed
  <1>2. \A s \in Slot : nx[s] = x => s = pos
    BY <1>0
  <1>3. pos # x
    <2> SUFFICES ASSUME pos = x PROVE FALSE
      OBVIOUS
    <2>1. Closed(nx, L \ {x})
      BY <1>1, <1>2 DEF Closed
    <2> QED
      BY <1>0, <1>1, <2>1, ListLeast
  <1>4. Closed(nx2, L \ {x})
    BY <1>0, <1>1, <1>2, <1>3 DEF Closed
  <1>5. L2 \subseteq L \ {x}
    BY <1>0, <1>1, <1>4, ListLeast
  <1>6. L2 \subseteq Slot /\ p \in L2 /\ Closed(nx2, L2)
    BY <1>0, ListSteps
  <1>7. Closed(nx, {x} \cup L2)
    <2>1. CASE pos \in L2
      BY <1>0, <1>6, <2>1 DEF Closed
    <2>2. CASE pos \notin L2
      <3>1. Closed(nx, L2)
        BY <1>0, <1>6, <2>2 DEF Closed
      <3>2. L \subseteq L2
        BY <1>0, <1>6, <3>1, ListLeast
      <3> QED
        BY <2>2, <3>2
    <2> QED
      BY <2>1, <2>2
  <1>8. L \subseteq {x} \cup L2
    BY <1>0, <1>6, <1>7, ListLeast
  <1> QED
    BY <1>5, <1>8
-----------------------------------------------------------------------------
(* A nonempty set of natural numbers has a least element.                  *)
LEMMA LeastNatural ==
    ASSUME NEW T, T \subseteq Nat, T # {}
    PROVE  \E x \in T : \A y \in T : x <= y
  <1>1. PICK x \in T : \A y \in T : ~ (<<y, x>> \in OpToRel(<, Nat))
    BY NatLessThanWellFounded, WFMin, Zenon
  <1>2. ASSUME NEW y \in T, y < x PROVE FALSE
    <2>1. <<y, x>> \in Nat \X Nat /\ <<y, x>>[1] < <<y, x>>[2]
      BY <1>2
    <2> QED
      BY <1>1, <2>1, Zenon DEF OpToRel
  <1> QED
    BY <1>2

(* init_wp_pool puts every node on the free list.                          *)
LEMMA InitialLists == init_wp_pool => Active = {} /\ Free = Slot
  <1> SUFFICES ASSUME init_wp_pool PROVE Active = {} /\ Free = Slot
    OBVIOUS
  <1>1. next \in [Slot -> Link] /\ NULL \in Link /\ 0 \in Link /\ 0 # NULL /\ 0 \in Slot
    BY NrWpAssumption DEF init_wp_pool, Slot, Link, NULL
  <1>2. List(next, NULL) = {}
    BY ListEmpty
  <1>3. Free \subseteq Slot /\ 0 \in Free /\ Closed(next, Free)
    BY <1>1, ListSteps DEF Free, init_wp_pool
  <1>4. ASSUME Slot \ Free # {} PROVE FALSE
    <2> DEFINE T == Slot \ Free
    <2>0. T \subseteq Nat /\ T # {}
      BY <1>4 DEF Slot
    <2> HIDE DEF T
    <2>1a. \E x \in T : \A y \in T : x <= y
      BY <2>0, LeastNatural
    <2>1. PICK x \in Slot \ Free : \A y \in Slot \ Free : x <= y
      BY <2>1a DEF T
    <2>2. x # 0 /\ x - 1 \in Slot /\ x - 1 \in Free /\ next[x - 1] = x /\ x # NULL
      BY <1>3, <2>1, NrWpAssumption DEF Slot, init_wp_pool, NULL
    <2> QED
      BY <1>3, <2>1, <2>2 DEF Closed
  <1> QED
    BY <1>2, <1>3, <1>4 DEF Active, init_wp_pool

(* What the proofs below carry along.                                      *)
PoolInv == PoolTypeOK /\ PoolPartitioned /\ NoCycles

(* new_wp moves the first free node to the active list.                    *)
LEMMA NewMovesNode ==
    ASSUME PoolInv, free_ # NULL, new_wp
    PROVE  /\ free_ \in Free
           /\ Active' = Active \cup {free_}
           /\ Free' = Free \ {free_}
           /\ next' \in [Slot -> Link] /\ head' \in Link /\ free_' \in Link
           /\ NoCycles'
  <1>0. next \in [Slot -> Link] /\ head \in Link /\ free_ \in Slot /\ next[free_] \in Link /\ free_ \in Link
    BY DEF PoolInv, PoolTypeOK, Link
  <1>1. free_ \in Free /\ free_ \notin Active
    BY <1>0, ListSteps DEF PoolInv, PoolPartitioned, Free
  <1>2. Active' = Active \cup {free_}
    <2>1. free_ \notin List(next, head)
      BY <1>1 DEF Active
    <2>2. List([next EXCEPT ![free_] = head], free_) = {free_} \cup List(next, head)
      BY <1>0, <2>1, ListPush
    <2> QED
      BY <2>2 DEF new_wp, Active
  <1>3. List(next, next[free_]) = Free \ {free_}
    BY <1>0, ListPop DEF PoolInv, NoCycles, Free
  <1>4. Free' = Free \ {free_}
    BY <1>0, <1>3, ListFrame DEF new_wp, Free
  <1>5. NoCycles'
    BY <1>0 DEF PoolInv, NoCycles, new_wp, Slot, Link, NULL
  <1> QED
    BY <1>0, <1>1, <1>2, <1>4, <1>5 DEF new_wp

(* free_wp moves the node it is given back to the free list.               *)
LEMMA UnlinkMovesNode ==
    ASSUME PoolInv, NEW wp \in Slot, Unlink(wp), free_' = wp
    PROVE  /\ wp \in Active
           /\ Active' = Active \ {wp}
           /\ Free' = Free \cup {wp}
           /\ next' \in [Slot -> Link] /\ head' \in Link /\ free_' \in Link
           /\ NoCycles'
  <1>0. next \in [Slot -> Link] /\ head \in Link /\ free_ \in Link /\ wp \in Link /\ wp # NULL /\ next[wp] \in Link
    BY NrWpAssumption DEF PoolInv, PoolTypeOK, Link, Slot, NULL
  <1>1. CASE wp = head
    <2>1. head' = next[wp] /\ next' = [next EXCEPT ![wp] = free_]
      BY <1>1 DEF Unlink
    <2>2. wp \in Active /\ wp \notin Free
      BY <1>0, <1>1, ListSteps DEF PoolInv, PoolPartitioned, Active
    <2>3. Free' = Free \cup {wp}
      <3>1. wp \notin List(next, free_)
        BY <2>2 DEF Free
      <3>2. List([next EXCEPT ![wp] = free_], wp) = {wp} \cup List(next, free_)
        BY <1>0, <3>1, ListPush
      <3> QED
        BY <2>1, <3>2 DEF Free
    <2>4. List(next, next[wp]) = Active \ {wp}
      BY <1>0, <1>1, ListPop DEF PoolInv, NoCycles, Active
    <2>5. Active' = Active \ {wp}
      BY <1>0, <2>1, <2>4, ListFrame DEF Active
    <2>6. NoCycles'
      BY <1>0, <1>1, <2>1 DEF PoolInv, NoCycles, Slot, Link, NULL
    <2> QED
      BY <1>0, <2>1, <2>2, <2>3, <2>5, <2>6
  <1>2. CASE wp # head
    <2>1. PICK pos \in Active : /\ next[pos] = wp
                                /\ next' = [next EXCEPT ![pos] = next[wp], ![wp] = free_]
                                /\ head' = head
      BY <1>2 DEF Unlink
    <2> DEFINE nx == [next EXCEPT ![pos] = next[wp]]
    <2>2. pos \in Slot /\ pos \notin Free /\ head \in Slot
      <3>1. pos \in Slot /\ pos \notin Free
        BY <2>1 DEF PoolInv, PoolPartitioned, Active, List
      <3>2. List(next, NULL) = {}
        BY ListEmpty
      <3> QED
        BY <1>0, <2>1, <3>1, <3>2 DEF Active, Link
    <2>3. nx \in [Slot -> Link] /\ next' = [nx EXCEPT ![wp] = free_]
      BY <1>0, <2>1, <2>2
    <2>4. List(nx, head) = Active \ {wp}
      <3>0. next \in [Slot -> Link] /\ head \in Slot /\ wp \in Slot /\ next[pos] = wp /\ head # wp
        BY <1>0, <1>2, <2>1, <2>2
      <3>1. pos \in List(next, head) /\ OnePredecessor(next)
        BY DEF PoolInv, NoCycles, Active, OnePredecessor
      <3>2. Bypasses(nx, next, pos)
        BY <1>0, <2>1, <2>2, <2>3 DEF Bypasses
      <3> HIDE DEF nx
      <3> QED
        BY <3>0, <3>1, <3>2, ListUnlink DEF Active
    <2>5. List(nx, free_) = Free
      BY <1>0, <2>2, ListFrame DEF Free
    <2>6. wp \in Active
      BY <1>0, <2>1, ListSteps DEF Active, Closed
    <2>6a. wp \notin Free
      BY <2>6 DEF PoolInv, PoolPartitioned
    <2> HIDE DEF nx
    <2>7. Active' = Active \ {wp}
      <3>1. List([nx EXCEPT ![wp] = free_], head) = List(nx, head)
        BY <1>0, <2>3, <2>4, ListFrame
      <3> QED
        BY <2>1, <2>3, <2>4, <3>1 DEF Active
    <2>8. Free' = Free \cup {wp}
      <3>1. List([nx EXCEPT ![wp] = free_], wp) = {wp} \cup List(nx, free_)
        BY <1>0, <2>3, <2>5, <2>6a, ListPush
      <3> QED
        BY <2>3, <2>5, <3>1 DEF Free
    <2>9. NoCycles'
      BY <1>0, <1>2, <2>1, <2>2 DEF PoolInv, NoCycles, Slot, Link, NULL
    <2> QED
      BY <1>0, <2>1, <2>3, <2>6, <2>7, <2>8, <2>9
  <1> QED
    BY <1>1, <1>2
-----------------------------------------------------------------------------
(* One step of the specification keeps the pool in order.                  *)
LEMMA PoolStep == PoolInv /\ [PoolNext]_poolVars => PoolInv'
  <1> SUFFICES ASSUME PoolInv, [PoolNext]_poolVars PROVE PoolInv'
    OBVIOUS
  <1>1. ASSUME NEW e \in EXPRS, wp_set(e) PROVE PoolInv'
    <2>1. CASE free_ = NULL
      BY <1>1, <2>1 DEF wp_set, Fail, PoolInv, PoolTypeOK, PoolPartitioned, NoCycles, Active, Free
    <2>2. CASE free_ # NULL
      <3>1. new_wp
        BY <1>1, <2>2 DEF wp_set
      <3>2. PoolPartitioned'
        BY <2>2, <3>1, NewMovesNode DEF PoolInv, PoolPartitioned
      <3>3. PoolTypeOK'
        BY <1>1, <2>2, <3>1, NewMovesNode DEF PoolInv, PoolTypeOK, wp_set
      <3> QED
        BY <2>2, <3>1, <3>2, <3>3, NewMovesNode DEF PoolInv
    <2> QED
      BY <2>1, <2>2
  <1>2. ASSUME NEW no \in Slot, wp_remove(no) PROVE PoolInv'
    <2>1. CASE no # head /\ \A pos \in Active : next[pos] # no
      BY <1>2, <2>1 DEF wp_remove, free_wp, Fail, PoolInv, PoolTypeOK, PoolPartitioned, NoCycles, Active, Free
    <2>2. CASE ~(no # head /\ \A pos \in Active : next[pos] # no)
      <3>1. Unlink(no) /\ free_' = no /\ UNCHANGED <<expression, value, now, stopped, failed>>
        BY <1>2, <2>2 DEF wp_remove, free_wp
      <3>2. PoolPartitioned'
        BY <3>1, UnlinkMovesNode DEF PoolInv, PoolPartitioned
      <3>3. PoolTypeOK'
        BY <3>1, UnlinkMovesNode DEF PoolInv, PoolTypeOK
      <3> QED
        BY <3>1, <3>2, <3>3, UnlinkMovesNode DEF PoolInv
    <2> QED
      BY <2>1, <2>2
  <1>3. ASSUME NEW m \in [EXPRS -> VALUES], Instruction(m) PROVE PoolInv'
    <2>1. PoolTypeOK'
      BY <1>3 DEF PoolInv, PoolTypeOK, Instruction, wp_difftest, Slot
    <2> QED
      BY <1>3, <2>1 DEF Instruction, PoolInv, PoolPartitioned, NoCycles, Active, Free
  <1>4. CASE UNCHANGED poolVars
    BY <1>4 DEF poolVars, PoolInv, PoolTypeOK, PoolPartitioned, NoCycles, Active, Free
  <1> QED
    BY <1>1, <1>2, <1>3, <1>4 DEF PoolNext

LEMMA PoolStarts == PoolInit => PoolInv
  <1> SUFFICES ASSUME PoolInit PROVE PoolInv
    OBVIOUS
  <1>1. PoolTypeOK
    <2>1. next \in [Slot -> Link] /\ head \in Link /\ free_ \in Link
      BY NrWpAssumption DEF PoolInit, init_wp_pool, Slot, Link, NULL
    <2> QED
      BY <2>1 DEF PoolInit, PoolTypeOK
  <1>2. PoolPartitioned
    BY InitialLists DEF PoolInit, PoolPartitioned
  <1>3. NoCycles
    BY NrWpAssumption DEF PoolInit, init_wp_pool, NoCycles, Slot, NULL
  <1> QED
    BY <1>1, <1>2, <1>3 DEF PoolInv

(* watchpoint.c: for every NR_WP, new_wp and free_wp keep the active and   *)
(* the free list a partition of the pool and free of cycles.               *)
THEOREM PoolStaysPartitioned == PoolSpec => [](PoolTypeOK /\ PoolPartitioned /\ NoCycles)
  <1>1. PoolSpec => []PoolInv
    BY PoolStarts, PoolStep, PTL DEF PoolSpec
  <1> QED
    BY <1>1, PTL DEF PoolInv

(* watchpoint.c: whatever the order in which nodes are taken and returned, *)
(* the user sees the numbered watchpoints of WatchSet.                     *)
THEOREM PoolImplementsWatchSet == PoolSpec => ImplementsWatchSet
  <1>1. PoolInit => Abstract!Init
    <2> SUFFICES ASSUME PoolInit PROVE Abstract!Init
      OBVIOUS
    <2> QED
      BY InitialLists DEF PoolInit, Abstract!Init
  <1>2. PoolInv /\ [PoolNext]_poolVars => [Abstract!Next]_(Abstract!vars)
    <2> SUFFICES ASSUME PoolInv, [PoolNext]_poolVars PROVE [Abstract!Next]_(Abstract!vars)
      OBVIOUS
    <2>1. ASSUME NEW e \in EXPRS, wp_set(e) PROVE [Abstract!Next]_(Abstract!vars)
      <3>1. CASE free_ = NULL
        BY <2>1, <3>1 DEF wp_set, Fail, Active, Abstract!vars
      <3>2. CASE free_ # NULL
        <4>1. free_ \in Free /\ Active' = Active \cup {free_}
          BY <2>1, <3>2, NewMovesNode DEF wp_set
        <4>2. free_ \in Slot \ Active
          BY <4>1 DEF PoolInv, PoolPartitioned
        <4>3. Abstract!Set(e)
          BY <2>1, <3>2, <4>1, <4>2 DEF wp_set, Abstract!Set
        <4> QED
          BY <4>3 DEF Abstract!Next
      <3> QED
        BY <3>1, <3>2
    <2>2. ASSUME NEW no \in Slot, wp_remove(no) PROVE [Abstract!Next]_(Abstract!vars)
      <3>1. CASE no # head /\ \A pos \in Active : next[pos] # no
        BY <2>2, <3>1 DEF wp_remove, free_wp, Fail, Active, Abstract!vars
      <3>2. CASE ~(no # head /\ \A pos \in Active : next[pos] # no)
        <4>1. Unlink(no) /\ free_' = no /\ UNCHANGED <<expression, value, now, stopped, failed>>
          BY <2>2, <3>2 DEF wp_remove, free_wp
        <4>2. no \in Active /\ Active' = Active \ {no}
          BY <4>1, UnlinkMovesNode
        <4>3. Abstract!Remove(no)
          BY <4>1, <4>2 DEF Abstract!Remove
        <4> QED
          BY <4>3 DEF Abstract!Next
      <3> QED
        BY <3>1, <3>2
    <2>3. ASSUME NEW m \in [EXPRS -> VALUES], Instruction(m) PROVE [Abstract!Next]_(Abstract!vars)
      <3>1. Active' = Active /\ Active \subseteq Slot
        BY <2>3 DEF Instruction, Active, List
      <3>2. value' = [w \in Slot |-> IF w \in Active THEN m[expression[w]] ELSE value[w]]
        BY <2>3 DEF Instruction, wp_difftest, Differs
      <3>3. Abstract!Instruction(m)
        BY <2>3, <3>1, <3>2 DEF Instruction, Differs, Abstract!Instruction, Abstract!Changed
      <3> QED
        BY <3>3 DEF Abstract!Next
    <2>4. CASE UNCHANGED poolVars
      BY <2>4 DEF poolVars, Active, Abstract!vars
    <2> QED
      BY <2>1, <2>2, <2>3, <2>4 DEF PoolNext
  <1> QED
    BY <1>1, <1>2, PoolStarts, PoolStep, PTL DEF PoolSpec, ImplementsWatchSet, Abstract!Spec

-----------------------------------------------------------------------------
(* The differential test *)

(* As long as no commit was wrong the reference is where the core is; and  *)
(* while nobody reads a device, no comparison is skipped without one.      *)
Agreed ==
    /\ wrong \in BOOLEAN /\ is_skip_ref \in BOOLEAN /\ watching \in BOOLEAN /\ looked \in BOOLEAN
    /\ ~wrong => ref = dut
    /\ ~looked => ~watching /\ ~is_skip_ref
    /\ state = "ABORT" => wrong
    /\ ~looked /\ wrong => state = "ABORT"

LEMMA CommitAgreed ==
    ASSUME Agreed, NEW kind \in Kind, NEW new \in Machine,
           NEW fires \in BOOLEAN, NEW more \in BOOLEAN, Commit(kind, new, fires, more)
    PROVE  Agreed'
  <1> DEFINE skip  == is_skip_ref \/ kind = "device"
             ref_r == ref_difftest_exec(ref)
             fails == ~skip /\ ref_r # new
  <1>1. /\ state = "RUNNING" /\ (fires => watching)
        /\ dut' = new
        /\ skip => ref' = new
        /\ ~skip => ref' = ref_r
    BY DEF Commit, ref_difftest_regcpy
  <1>2. is_skip_ref' \in BOOLEAN /\ (is_skip_ref' <=> watching) /\ UNCHANGED <<watching, looked>>
    BY DEF Commit, SkipAfterStep, Agreed
  <1>3. wrong' \in BOOLEAN /\ (wrong' <=> wrong \/ IsWrong(kind, new))
    BY DEF Commit, Agreed, IsWrong
  <1>4. ~fires /\ fails => state' = "ABORT"
    BY DEF Commit
  <1>5. state' = "ABORT" => fails
    BY DEF Commit
  <1>6. ~wrong => (IsWrong(kind, new) <=> kind = "plain" /\ ref_r # new)
    BY DEF IsWrong, Agreed
  <1>7. kind = "plain" <=> kind # "device"
    BY DEF Kind
  <1>8. (~wrong => ref = dut)'
    <2>1. SUFFICES ASSUME ~wrong' PROVE ref' = dut'
      OBVIOUS
    <2>2. ~wrong /\ ~(kind = "plain" /\ ref_r # new)
      BY <1>3, <1>6, <2>1
    <2> QED BY <1>1, <1>7, <2>2
  <1>9. (~looked => ~watching /\ ~is_skip_ref)'
    BY <1>2 DEF Agreed
  <1>10. (state = "ABORT" => wrong)'
    BY <1>3, <1>5, <1>6, <1>7
  <1>11. (~looked /\ wrong => state = "ABORT")'
    <2>1. SUFFICES ASSUME ~looked', wrong' PROVE state' = "ABORT"
      OBVIOUS
    <2>2. ~watching /\ ~is_skip_ref /\ ~wrong
      BY <1>1, <1>2, <2>1 DEF Agreed
    <2>3. kind = "plain" /\ ref_r # new
      BY <1>3, <1>6, <2>1, <2>2
    <2> QED BY <1>1, <1>4, <1>7, <2>2, <2>3
  <1> QED BY <1>2, <1>3, <1>8, <1>9, <1>10, <1>11 DEF Agreed

(* "The result of every instruction will be compared": while the user      *)
(* looks at no device, a commit that differs from its instruction aborts   *)
(* the run at once; and, whatever the user looks at, a run is aborted only *)
(* for such a commit, never for a device value the reference cannot know.  *)
THEOREM AbortsAreRight == TestSpec => []AbortsExactlyOnErrors
  <1>1. TestInit => Agreed
    BY DEF TestInit, Agreed
  <1>2. Agreed /\ [TestNext]_testVars => Agreed'
    <2>1. ASSUME Agreed, cpu_exec PROVE Agreed'
      BY <2>1 DEF Agreed, cpu_exec
    <2>2. ASSUME Agreed, cmd_x \/ cmd_w PROVE Agreed'
      <3>1. is_skip_ref' = TRUE /\ UNCHANGED <<dut, ref, state, wrong>> /\ looked' = TRUE
        BY <2>2 DEF cmd_x, cmd_w
      <3>2. watching' \in BOOLEAN
        BY <2>2 DEF Agreed, cmd_x, cmd_w
      <3> QED BY <2>2, <3>1, <3>2 DEF Agreed
    <2>3. ASSUME Agreed, cmd_d PROVE Agreed'
      <3>1. watching' = FALSE /\ UNCHANGED <<dut, ref, is_skip_ref, state, wrong, looked>>
        BY <2>3 DEF cmd_d
      <3> QED BY <2>3, <3>1 DEF Agreed
    <2>4. ASSUME Agreed, UNCHANGED testVars PROVE Agreed'
      BY <2>4 DEF Agreed, testVars
    <2> QED BY <2>1, <2>2, <2>3, <2>4, CommitAgreed DEF TestNext
  <1>3. Agreed => AbortsExactlyOnErrors
    BY DEF Agreed, AbortsExactlyOnErrors, NoFalseAlarm, ErrorsAreCaught
  <1> QED BY <1>1, <1>2, <1>3, PTL DEF TestSpec

-----------------------------------------------------------------------------
(***************************************************************************)
(* The ring buffer always shows the newest instructions.  The induction    *)
(* needs what is stored at every distance behind ring_head, and that count *)
(* is the number of instructions until the buffer is full and its size     *)
(* from then on.                                                           *)
(***************************************************************************)

(* The slot k steps behind h, as itrace_display_history computes it.       *)
Behind(h, k) == (h - k + ITRACE_BUF_SIZE) % ITRACE_BUF_SIZE

Types == /\ executed \in Seq(Pc)
         /\ last_pc \in Pc
         /\ entries \in [Index -> Pc] /\ ring_head \in Index /\ count \in 0 .. ITRACE_BUF_SIZE
CountIsLength == \/ count = Len(executed)
                 \/ count = ITRACE_BUF_SIZE /\ ITRACE_BUF_SIZE <= Len(executed)
Stored == \A k \in 1 .. count : entries[Behind(ring_head, k)] = executed[Len(executed) + 1 - k]

RingInv == Types /\ CountIsLength /\ Stored

(* Advancing ring_head and stepping back are arithmetic modulo the size.        *)
LEMMA AdvanceHead ==
    ASSUME NEW h \in Index
    PROVE  (h + 1) % ITRACE_BUF_SIZE = IF h = ITRACE_BUF_SIZE - 1 THEN 0 ELSE h + 1
  BY ItraceAssumption, Z3 DEF Index

LEMMA StepBack ==
    ASSUME NEW h \in Index, NEW k \in 1 .. ITRACE_BUF_SIZE
    PROVE  Behind(h, k) = IF k <= h THEN h - k ELSE h - k + ITRACE_BUF_SIZE
<1>1. CASE k <= h
  <2>1. h - k + ITRACE_BUF_SIZE \in ITRACE_BUF_SIZE .. 2 * ITRACE_BUF_SIZE - 1
    BY <1>1, ItraceAssumption DEF Index
  <2>2. \A a \in ITRACE_BUF_SIZE .. 2 * ITRACE_BUF_SIZE - 1 :
            a % ITRACE_BUF_SIZE = a - ITRACE_BUF_SIZE
    BY ItraceAssumption, Z3
  <2> QED BY <1>1, <2>1, <2>2, ItraceAssumption DEF Behind, Index
<1>2. CASE ~(k <= h)
  <2>1. h - k + ITRACE_BUF_SIZE \in 0 .. ITRACE_BUF_SIZE - 1
    BY <1>2, ItraceAssumption DEF Index
  <2>2. \A a \in 0 .. ITRACE_BUF_SIZE - 1 : a % ITRACE_BUF_SIZE = a
    BY ItraceAssumption, Z3
  <2> QED BY <1>2, <2>1, <2>2 DEF Behind
<1> QED BY <1>1, <1>2

(* After ring_head has advanced, the newest slot is the one just written,  *)
(* and every older slot is one step further behind.                        *)
LEMMA BehindAdvanced ==
    ASSUME NEW h \in Index, NEW k \in 1 .. ITRACE_BUF_SIZE
    PROVE  LET g == (h + 1) % ITRACE_BUF_SIZE
           IN  /\ g \in Index
               /\ Behind(g, k) \in Index
               /\ k = 1 => Behind(g, k) = h
               /\ k > 1 => Behind(g, k) = Behind(h, k - 1) /\ Behind(g, k) # h
<1> DEFINE g == (h + 1) % ITRACE_BUF_SIZE
<1>1. g = IF h = ITRACE_BUF_SIZE - 1 THEN 0 ELSE h + 1
  BY AdvanceHead
<1>2. g \in Index
  BY <1>1, ItraceAssumption DEF Index
<1> HIDE DEF g
<1>3. Behind(g, k) = IF k <= g THEN g - k ELSE g - k + ITRACE_BUF_SIZE
  BY <1>2, StepBack
<1>4. k > 1 => Behind(h, k - 1) = IF k - 1 <= h THEN h - (k - 1) ELSE h - (k - 1) + ITRACE_BUF_SIZE
  <2> SUFFICES ASSUME k > 1
               PROVE  Behind(h, k - 1) = IF k - 1 <= h THEN h - (k - 1)
                                         ELSE h - (k - 1) + ITRACE_BUF_SIZE
    OBVIOUS
  <2>1. k - 1 \in 1 .. ITRACE_BUF_SIZE
    BY ItraceAssumption
  <2> QED BY <2>1, StepBack
<1>5. Behind(g, k) \in Index
  BY <1>2, <1>3, ItraceAssumption DEF Index
<1>6. k = 1 => Behind(g, k) = h
  BY <1>1, <1>3, ItraceAssumption DEF Index
<1>7. k > 1 => Behind(g, k) = Behind(h, k - 1) /\ Behind(g, k) # h
  BY <1>1, <1>3, <1>4, ItraceAssumption DEF Index
<1> QED BY <1>2, <1>5, <1>6, <1>7 DEF g

LEMMA RingInit == Init => RingInv
<1> SUFFICES ASSUME Init PROVE RingInv
  OBVIOUS
<1>1. Types
  BY ItraceAssumption DEF Init, Types, Pc, Index
<1> QED BY <1>1 DEF Init, RingInv, CountIsLength, Stored

(* One instruction: the slot at ring_head is overwritten, and only it.     *)
LEMMA RingStep == RingInv /\ [Next]_vars => RingInv'
<1> SUFFICES ASSUME RingInv, [Next]_vars PROVE RingInv'
  OBVIOUS
<1>1. CASE exec_once
  <2>1. PICK pc \in Targets \cup {(last_pc + 4) % PcSpace} :
            executed' = Append(executed, pc) /\ itrace_bin_record(pc) /\ itrace_record(pc)
    BY <1>1 DEF exec_once
  <2>2. pc \in Pc
    <3>1. last_pc \in Nat
      BY ItraceAssumption DEF RingInv, Types, Pc
    <3>2. \A a \in Nat : a % PcSpace \in 0 .. PcSpace - 1
      BY ItraceAssumption, Z3
    <3> QED BY <3>1, <3>2, ItraceAssumption DEF Pc
  <2>3. /\ Len(executed') = Len(executed) + 1
        /\ executed' \in Seq(Pc)
        /\ executed'[Len(executed) + 1] = pc
        /\ \A j \in 1 .. Len(executed) : executed'[j] = executed[j]
    BY <2>1, <2>2 DEF RingInv, Types
  <2>4. ring_head' \in Index
    BY <2>1, BehindAdvanced, ItraceAssumption DEF itrace_record, RingInv, Types
  <2>5. /\ count' = IF count < ITRACE_BUF_SIZE THEN count + 1 ELSE count
        /\ entries' = [entries EXCEPT ![ring_head] = pc]
        /\ ring_head' = (ring_head + 1) % ITRACE_BUF_SIZE
    BY <2>1 DEF itrace_record
  <2>6. Types'
    BY <2>1, <2>2, <2>3, <2>4, <2>5, ItraceAssumption
       DEF itrace_bin_record, RingInv, Types, Index
  <2>7. CountIsLength'
    BY <2>3, <2>5, ItraceAssumption DEF RingInv, Types, CountIsLength
  <2>8. Stored'
    <3> SUFFICES ASSUME NEW k \in 1 .. count'
                 PROVE  entries'[Behind(ring_head', k)] = executed'[Len(executed') + 1 - k]
      BY DEF Stored, Behind
    <3>1. k \in 1 .. ITRACE_BUF_SIZE /\ k <= Len(executed) + 1 /\ k - 1 <= count
      BY <2>5, ItraceAssumption DEF RingInv, Types, CountIsLength
    <3>2. /\ Behind(ring_head', k) \in Index
          /\ k = 1 => Behind(ring_head', k) = ring_head
          /\ k > 1 => Behind(ring_head', k) = Behind(ring_head, k - 1) /\ Behind(ring_head', k) # ring_head
      BY <2>5, <3>1, BehindAdvanced DEF RingInv, Types
    <3>3. CASE k = 1
      BY <2>3, <2>5, <3>2, <3>3 DEF RingInv, Types
    <3>4. CASE k > 1
      <4>1. k - 1 \in 1 .. count /\ Len(executed) + 1 - (k - 1) \in 1 .. Len(executed)
        BY <3>1, <3>4 DEF RingInv, Types
      <4>2. entries[Behind(ring_head, k - 1)] = executed[Len(executed) + 1 - (k - 1)]
        BY <4>1 DEF RingInv, Stored
      <4>3. Len(executed') + 1 - k = Len(executed) + 1 - (k - 1)
        BY <2>3, <3>1 DEF RingInv, Types
      <4>4. entries'[Behind(ring_head', k)] = entries[Behind(ring_head, k - 1)]
        BY <2>5, <3>2, <3>4 DEF RingInv, Types
      <4> QED BY <2>3, <4>1, <4>2, <4>3, <4>4
    <3> QED BY <3>1, <3>3, <3>4
  <2> QED BY <2>6, <2>7, <2>8 DEF RingInv
<1>2. CASE finalize_itrace_bin
  BY <1>2 DEF finalize_itrace_bin, RingInv, Types, CountIsLength, Stored, Behind, ringVars
<1>3. CASE UNCHANGED vars
  BY <1>3 DEF vars, RingInv, Types, CountIsLength, Stored, Behind, ringVars, binVars
<1> QED BY <1>1, <1>2, <1>3 DEF Next

LEMMA RingImplies == RingInv => RingShowsNewest
<1> SUFFICES ASSUME RingInv, NEW num \in 1 .. ITRACE_BUF_SIZE + 1
             PROVE  LET shown == itrace_display_history(num)
                        n == Len(executed)
                    IN  /\ \A k \in 1 .. num : k <= n /\ k <= ITRACE_BUF_SIZE => k \in DOMAIN shown
                        /\ \A k \in DOMAIN shown : k <= n /\ shown[k] = executed[n + 1 - k]
  BY DEF RingShowsNewest
<1> DEFINE top == IF num > count THEN count ELSE num
           shown == itrace_display_history(num)
<1>1. DOMAIN shown = 1 .. top
  BY DEF itrace_display_history
<1>2. \A k \in 1 .. top : shown[k] = entries[Behind(ring_head, k)]
  BY DEF itrace_display_history, Behind
<1>3. \A k \in 1 .. top : k \in 1 .. count /\ k <= Len(executed)
  BY ItraceAssumption DEF RingInv, Types, CountIsLength
<1>4. \A k \in 1 .. num : k <= Len(executed) /\ k <= ITRACE_BUF_SIZE => k \in 1 .. top
  BY ItraceAssumption DEF RingInv, Types, CountIsLength
<1> HIDE DEF shown, top
<1>5. \A k \in DOMAIN shown : k <= Len(executed) /\ shown[k] = executed[Len(executed) + 1 - k]
  BY <1>1, <1>2, <1>3 DEF RingInv, Stored
<1> QED BY <1>1, <1>4, <1>5 DEF shown

(* itrace_display_history shows the newest instructions, newest first, for *)
(* every size of the ring and every sequence of executed instructions.     *)
THEOREM RingAlwaysShowsNewest == Spec => []RingShowsNewest
<1>1. Spec => []RingInv
  BY RingInit, RingStep, PTL DEF Spec
<1> QED BY <1>1, RingImplies, PTL

-----------------------------------------------------------------------------
(***************************************************************************)
(* The binary trace and the cache simulator that reads it back, for every  *)
(* geometry, address space, size of the ring and sequence of jumps: what   *)
(* is on disk stands for the program executed, and the simulator counts on *)
(* it the hits of an LRU cache.  The invariants say how far it has read,   *)
(* and what the lines of a set remember of the accesses so far.  Induction *)
(* over numbers is done through least elements (LeastNatural).             *)
(***************************************************************************)

(* Quotients and remainders.                                               *)
LEMMA DivModEq ==
    ASSUME NEW a \in Nat, NEW n \in Nat \ {0}
    PROVE  /\ a = n * (a \div n) + (a % n)
           /\ a \div n \in Nat /\ a % n \in 0 .. n - 1
BY Z3

(* They are determined by the number they divide.                          *)
LEMMA Quotient ==
    ASSUME NEW n \in Nat \ {0}, NEW q \in Nat, NEW t \in Nat, NEW r \in 0 .. n - 1, NEW u \in 0 .. n - 1,
           n * q + r = n * t + u
    PROVE  q = t
<1>0. n * q \in Int /\ n * t \in Int
  OBVIOUS
<1>1. n * (q - t) = n * q - n * t
  OBVIOUS
<1>2. n * (q - t) = u - r
  BY <1>0, <1>1
<1>3. CASE q - t >= 1
  <2>1. n * (q - t) >= n
    BY <1>3
  <2> QED BY <1>2, <2>1
<1>4. CASE q - t <= -1
  <2>1. n * (q - t) <= -n
    BY <1>4
  <2> QED BY <1>2, <2>1
<1> QED BY <1>3, <1>4

(* Dividing by the line and then by the sets is dividing by both.          *)
LEMMA Mixed ==
    ASSUME NEW a \in Nat, NEW l \in Nat \ {0}, NEW s \in Nat \ {0}
    PROVE  a \div (l * s) = (a \div l) \div s
<1> DEFINE q == a \div l
           r == a % l
           t == q \div s
           u == q % s
           n == l * s
           v == a \div n
           w == a % n
<1>1. n \in Nat \ {0}
  OBVIOUS
<1>2. a = l * q + r /\ q \in Nat /\ r \in 0 .. l - 1
  BY DivModEq
<1>3. q = s * t + u /\ t \in Nat /\ u \in 0 .. s - 1
  BY <1>2, DivModEq
<1>4. a = n * v + w /\ v \in Nat /\ w \in 0 .. n - 1
  BY <1>1, DivModEq
<1> HIDE DEF q, r, t, u, v, w
<1>5. l * q = n * t + l * u
  <2>1. l * (s * t + u) = l * (s * t) + l * u
    BY <1>3
  <2>2. l * (s * t) = n * t
    BY <1>3
  <2> QED BY <1>3, <2>1, <2>2
<1>6. l * u + r \in 0 .. n - 1
  <2>1. l * u <= l * (s - 1)
    BY <1>3
  <2>2. l * (s - 1) = n - l
    OBVIOUS
  <2>3. l * u \in Nat
    BY <1>3
  <2> QED BY <1>1, <1>2, <2>1, <2>2, <2>3
<1>7. n * t + (l * u + r) = n * v + w
  <2>1. n * t \in Int /\ l * u \in Int
    BY <1>1, <1>3
  <2>2. n * t + l * u + r = n * v + w
    BY <1>2, <1>4, <1>5
  <2> HIDE DEF n
  <2>3. r \in Int /\ w \in Int
    BY <1>1, <1>2, <1>4
  <2> QED BY <2>1, <2>2, <2>3
<1> HIDE DEF n
<1>8. t = v
  BY <1>1, <1>3, <1>4, <1>6, <1>7, Quotient
<1> QED BY <1>8 DEF n, t, q, v

-----------------------------------------------------------------------------
(* The sets of the cache, which its geometry makes some.                   *)
Sets == 0 .. num_sets - 1

(* There is at least one set, and there are `ways` ways in it.             *)
LEMMA Geometry ==
    /\ num_sets \in Nat \ {0} /\ ways \in Nat \ {0} /\ block_size \in Nat \ {0}
    /\ IsFiniteSet(Way) /\ Cardinality(Way) = ways
<1>1. size \in Nat \ {0} /\ ways \in Nat \ {0} /\ block_size \in Nat \ {0}
  BY CacheAssumption
<1>2. PICK n \in Nat \ {0} : n = ways * block_size
  BY <1>1
<1>3. size = n * (size \div n) + (size % n) /\ size \div n \in Nat
  BY <1>1, <1>2, DivModEq
<1>4. size % n = 0
  BY <1>2, CacheAssumption
<1>5. size \div n # 0
  BY <1>1, <1>2, <1>3, <1>4
<1>6. num_sets \in Nat \ {0}
  BY <1>2, <1>3, <1>5 DEF num_sets
<1>7. IsFiniteSet(0 .. ways - 1) /\ Cardinality(0 .. ways - 1) = IF 0 > ways - 1 THEN 0 ELSE ways - 1 - 0 + 1
  BY <1>1, FS_Interval
<1>8. (IF 0 > ways - 1 THEN 0 ELSE ways - 1 - 0 + 1) = ways
  BY <1>1
<1> QED BY <1>1, <1>6, <1>7, <1>8 DEF Way

(* The set and the tag of an address are those of its block alone.         *)
LEMMA BlockSplit ==
    ASSUME NEW a \in Nat, NEW b \in Nat
    PROVE  /\ index(a) \in Sets /\ tag(a) \in Nat /\ block(a) \in Nat
           /\ block(a) = block(b) <=> index(a) = index(b) /\ tag(a) = tag(b)
<1>1. block(a) \in Nat /\ block(b) \in Nat
  BY Geometry, DivModEq DEF block
<1>2. \A x \in Nat : /\ x = num_sets * (x \div num_sets) + (x % num_sets)
                     /\ x \div num_sets \in Nat /\ x % num_sets \in 0 .. num_sets - 1
  BY Geometry, DivModEq
<1>3. \A x \in Nat : tag(x) = block(x) \div num_sets /\ index(x) = block(x) % num_sets
  <2>1. \A x \in Nat : x \div (block_size * num_sets) = (x \div block_size) \div num_sets
    BY Geometry, Mixed
  <2> QED BY <2>1 DEF tag, index, block
<1> QED BY <1>1, <1>2, <1>3 DEF Sets

-----------------------------------------------------------------------------
(* No access from the j-th up to the t-th uses the block of the j-th again. *)
LastUse(j, t) == \A k \in j + 1 .. t : block(executed[k]) # block(executed[j])

(* Every block used has a last use.                                        *)
LEMMA LastUseExists ==
    ASSUME NEW t \in Nat, NEW j \in 1 .. t
    PROVE  \E n \in j .. t : block(executed[n]) = block(executed[j]) /\ LastUse(n, t)
<1> DEFINE D == {d \in 0 .. t - j : block(executed[t - d]) = block(executed[j])}
<1>1. t - j \in D
  OBVIOUS
<1>2. PICK d \in D : \A x \in D : d <= x
  <2>1. D \subseteq Nat /\ D # {}
    <3>1. \A x \in D : x \in 0 .. t - j
      OBVIOUS
    <3>2. \A x \in 0 .. t - j : x \in Nat
      OBVIOUS
    <3> HIDE DEF D
    <3> QED BY <1>1, <3>1, <3>2
  <2> HIDE DEF D
  <2> QED BY <2>1, LeastNatural
<1>3. PICK n \in j .. t : n = t - d
  OBVIOUS
<1>4. block(executed[n]) = block(executed[j])
  BY <1>3
<1>5. ASSUME NEW k \in n + 1 .. t, block(executed[k]) = block(executed[n]) PROVE FALSE
  <2>1. PICK x \in 0 .. t - j : x = t - k /\ t - x = k /\ ~(d <= x)
    BY <1>3, <1>5
  <2>2. x \in D
    BY <1>4, <1>5, <2>1
  <2> QED BY <1>2, <2>1, <2>2
<1> QED BY <1>4, <1>5 DEF LastUse

(* The lines of the cache after total_access accesses: a valid line was    *)
(* last used by the last access so far to the block it holds, no two ways  *)
(* by the same access, and a block whose last use no line remembers has    *)
(* been driven out by later uses in every way of its set.                  *)
Line == [valid : BOOLEAN, tag : Nat, last_use_time : Nat]
Holds(s, w) == LET l == lines[s][w]
               IN  IF l.valid
                   THEN /\ l.last_use_time \in 1 .. total_access
                        /\ index(executed[l.last_use_time]) = s
                        /\ tag(executed[l.last_use_time]) = l.tag
                        /\ LastUse(l.last_use_time, total_access)
                   ELSE l.last_use_time = 0
Apart(s, w, v) == w # v /\ lines[s][w].valid /\ lines[s][v].valid =>
                      lines[s][w].last_use_time # lines[s][v].last_use_time
Remembered(s, j) == \E w \in Way : lines[s][w].valid /\ lines[s][w].last_use_time = j
DrivenOut(s, j)  == \A w \in Way : lines[s][w].valid /\ lines[s][w].last_use_time > j

LruTypes == /\ lines \in [Sets -> [Way -> Line]]
            /\ executed \in Seq(Nat) /\ total_access \in 0 .. Len(executed) /\ timer = total_access
Lru == /\ LruTypes
       /\ \A s \in Sets : \A w \in Way : Holds(s, w)
       /\ \A s \in Sets : \A w, v \in Way : Apart(s, w, v)
       /\ \A j \in 1 .. total_access : LastUse(j, total_access) =>
              Remembered(index(executed[j]), j) \/ DrivenOut(index(executed[j]), j)

(* What is known of one line, in the words that the proofs use.            *)
LEMMA LineFacts ==
    ASSUME Lru, NEW s \in Sets, NEW w \in Way
    PROVE  /\ lines[s][w] \in Line
           /\ lines[s][w].last_use_time \in Nat
           /\ lines[s][w].valid =>
                 /\ lines[s][w].last_use_time \in 1 .. total_access
                 /\ executed[lines[s][w].last_use_time] \in Nat
                 /\ index(executed[lines[s][w].last_use_time]) = s
                 /\ tag(executed[lines[s][w].last_use_time]) = lines[s][w].tag
                 /\ LastUse(lines[s][w].last_use_time, total_access)
           /\ ~lines[s][w].valid => lines[s][w].last_use_time = 0
<1>1. Holds(s, w)
  BY DEF Lru
<1>2. lines[s][w] \in Line
  BY DEF Lru, LruTypes
<1>3. \A j \in 1 .. total_access : executed[j] \in Nat
  BY DEF Lru, LruTypes
<1> QED BY <1>1, <1>2, <1>3 DEF Holds, Line

(* Two last uses of one block are the same.                                *)
LEMMA LastUseUnique ==
    ASSUME NEW t \in Nat, NEW j \in 1 .. t, NEW k \in 1 .. t, LastUse(j, t), LastUse(k, t),
           block(executed[j]) = block(executed[k])
    PROVE  j = k
<1>1. ~(j < k)
  <2> SUFFICES ASSUME j < k PROVE FALSE
    OBVIOUS
  <2>1. k \in j + 1 .. t
    OBVIOUS
  <2> QED BY <2>1 DEF LastUse
<1>2. ~(k < j)
  <2> SUFFICES ASSUME k < j PROVE FALSE
    OBVIOUS
  <2>1. j \in k + 1 .. t
    OBVIOUS
  <2> QED BY <2>1 DEF LastUse
<1> QED BY <1>1, <1>2

(* So no two ways of a set hold the same block.                            *)
LEMMA OneWay ==
    ASSUME Lru, NEW s \in Sets, NEW w \in Way, NEW v \in Way, lines[s][w].valid, lines[s][v].valid,
           \/ lines[s][w].tag = lines[s][v].tag
           \/ block(executed[lines[s][w].last_use_time]) = block(executed[lines[s][v].last_use_time])
    PROVE  w = v
<1> DEFINE j == lines[s][w].last_use_time
           k == lines[s][v].last_use_time
<1>1. /\ j \in 1 .. total_access /\ k \in 1 .. total_access
      /\ executed[j] \in Nat /\ executed[k] \in Nat
      /\ index(executed[j]) = s /\ index(executed[k]) = s
      /\ tag(executed[j]) = lines[s][w].tag /\ tag(executed[k]) = lines[s][v].tag
      /\ LastUse(j, total_access) /\ LastUse(k, total_access)
  BY LineFacts
<1>2. w # v => j # k
  BY DEF Lru, Apart
<1>0. block(executed[j]) = block(executed[k]) \/ lines[s][w].tag = lines[s][v].tag
  OBVIOUS
<1>4. total_access \in Nat
  BY DEF Lru, LruTypes
<1> HIDE DEF j, k
<1>3. block(executed[j]) = block(executed[k])
  BY <1>0, <1>1, BlockSplit
<1>5. j = k
  BY <1>1, <1>3, <1>4, LastUseUnique
<1> QED BY <1>2, <1>5

-----------------------------------------------------------------------------
(* The other blocks of its set that were used between access j and the     *)
(* next one, n.                                                            *)
Others(j, n) == {block(executed[m]) : m \in {x \in j + 1 .. n - 1 :
                    SameSet(executed[x], executed[n])}} \ {block(executed[n])}

(* There are finitely many, and they are what was used.                    *)
LEMMA OthersAre ==
    ASSUME LruTypes, NEW n \in 1 .. Len(executed), NEW t \in Nat, n = t + 1, NEW j \in 1 .. t
    PROVE  /\ IsFiniteSet(Others(j, n))
           /\ \A c : c \in Others(j, n) <=>
                        \E x \in j + 1 .. t : /\ index(executed[x]) = index(executed[n])
                                              /\ block(executed[x]) = c /\ c # block(executed[n])
<1> DEFINE S == {x \in j + 1 .. t : SameSet(executed[x], executed[n]) /\ block(executed[x]) # block(executed[n])}
           g == [x \in S |-> block(executed[x])]
<1>1. n - 1 = t
  OBVIOUS
<1>2. \A x : SameSet(executed[x], executed[n]) <=> index(executed[x]) = index(executed[n])
  BY DEF SameSet, index, block
<1>3. \A c : c \in Others(j, n) <=> \E x \in S : block(executed[x]) = c
  BY <1>1 DEF Others
<1>4. g \in Surjection(S, Others(j, n))
  BY <1>3 DEF Surjection
<1>5. IsFiniteSet(S)
  <2>1. IsFiniteSet(j + 1 .. t)
    BY FS_Interval
  <2>2. S \in SUBSET (j + 1 .. t)
    OBVIOUS
  <2> HIDE DEF S
  <2> QED BY <2>1, <2>2, FS_Subset
<1>6. IsFiniteSet(Others(j, n))
  <2> HIDE DEF S, g
  <2> QED BY <1>4, <1>5, FS_Surjection
<1>7. \A c : c \in Others(j, n) <=>
                 \E x \in j + 1 .. t : /\ index(executed[x]) = index(executed[n])
                                       /\ block(executed[x]) = c /\ c # block(executed[n])
  BY <1>2, <1>3
<1> QED BY <1>6, <1>7

(* LruHit in these words.                                                  *)
LEMMA LruHitIs ==
    ASSUME NEW n \in Nat, NEW t \in Nat, n = t + 1
    PROVE  LruHit(n) <=> \E j \in 1 .. t : /\ block(executed[j]) = block(executed[n])
                                           /\ Cardinality(Others(j, n)) < ways
<1>1. n - 1 = t
  OBVIOUS
<1> QED BY <1>1 DEF LruHit, Others

(* A line that matches is one of an access that an LRU cache remembers:    *)
(* each of the other blocks used since is in a way of its own beside it.   *)
LEMMA HitIsLruHit ==
    ASSUME Lru, NEW n \in 1 .. Len(executed), n = total_access + 1,
           NEW w \in HitWays(lines[index(executed[n])], tag(executed[n]))
    PROVE  LruHit(n)
<1> DEFINE s == index(executed[n])
           t == total_access
           j == lines[s][w].last_use_time
           O == Others(j, n)
           At(x) == lines[s][x].last_use_time
           f == [c \in O |-> CHOOSE x \in Way \ {w} : lines[s][x].valid /\ block(executed[At(x)]) = c]
<1>1. /\ n \in Nat /\ t \in Nat /\ n = t + 1 /\ executed[n] \in Nat
      /\ \A x \in 1 .. t : executed[x] \in Nat
  BY DEF Lru, LruTypes
<1>2. s \in Sets /\ w \in Way /\ lines[s][w].valid /\ lines[s][w].tag = tag(executed[n])
  BY <1>1, BlockSplit DEF HitWays
<1>3. /\ j \in 1 .. t /\ executed[j] \in Nat /\ index(executed[j]) = s
      /\ tag(executed[j]) = tag(executed[n]) /\ LastUse(j, t)
  BY <1>2, LineFacts
<1>4. block(executed[j]) = block(executed[n])
  BY <1>1, <1>3, BlockSplit
<1>5. ASSUME NEW c \in O
      PROVE  \E x \in Way \ {w} : lines[s][x].valid /\ block(executed[At(x)]) = c
  <2>0. \A d : d \in Others(j, n) <=>
                   \E x \in j + 1 .. t : /\ index(executed[x]) = index(executed[n])
                                         /\ block(executed[x]) = d /\ d # block(executed[n])
    <3>1. LruTypes /\ n \in 1 .. Len(executed)
      BY DEF Lru
    <3> HIDE DEF j, t
    <3> QED BY <1>1, <1>3, <3>1, OthersAre
  <2>1. PICK m \in j + 1 .. t : /\ index(executed[m]) = s /\ block(executed[m]) = c
                                /\ c # block(executed[n])
    BY <1>5, <2>0, Zenon
  <2>2. m \in 1 .. t
    BY <1>1, <1>3
  <2>3. PICK k \in m .. t : block(executed[k]) = block(executed[m]) /\ LastUse(k, t)
    BY <1>1, <2>2, LastUseExists
  <2>4. k \in 1 .. t /\ j < k
    BY <1>1, <1>3, <2>2
  <2>5. index(executed[k]) = s
    BY <1>1, <2>1, <2>2, <2>3, <2>4, BlockSplit
  <2>6. Remembered(s, k) \/ DrivenOut(s, k)
    BY <2>3, <2>4, <2>5 DEF Lru
  <2>7. ~DrivenOut(s, k)
    BY <1>1, <1>2, <1>3, <2>4 DEF DrivenOut
  <2>8. PICK x \in Way : lines[s][x].valid /\ lines[s][x].last_use_time = k
    BY <2>6, <2>7 DEF Remembered
  <2>9. x # w
    BY <1>1, <1>3, <2>4, <2>8
  <2> QED BY <2>1, <2>3, <2>8, <2>9
<1>6. f \in [O -> Way \ {w}] /\ \A c \in O : block(executed[At(f[c])]) = c
  <2> HIDE DEF O
  <2> QED BY <1>5
<1> HIDE DEF f, O
<1>7. f \in Injection(O, Way \ {w})
  <2>1. \A c, d \in O : f[c] = f[d] => c = d
    BY <1>6
  <2> QED BY <1>6, <2>1, Fun_IsInj
<1>8. IsFiniteSet(Way \ {w}) /\ Cardinality(Way \ {w}) = ways - 1
  BY <1>2, Geometry, FS_RemoveElement
<1>9. Cardinality(O) <= ways - 1
  BY <1>7, <1>8, FS_Injection
<1>10. IsFiniteSet(O)
  BY <1>7, <1>8, FS_Injection
<1>11. Cardinality(O) < ways
  BY <1>9, <1>10, Geometry, FS_CardinalityType
<1> QED BY <1>1, <1>3, <1>4, <1>11, LruHitIs DEF O

(* With no line that matches, a block used before has been driven out, and *)
(* the ways of its set hold as many others used since.                     *)
LEMMA MissIsLruMiss ==
    ASSUME Lru, NEW n \in 1 .. Len(executed), n = total_access + 1,
           HitWays(lines[index(executed[n])], tag(executed[n])) = {}
    PROVE  ~LruHit(n)
<1> DEFINE s == index(executed[n])
           t == total_access
           At(x) == lines[s][x].last_use_time
           f == [x \in Way |-> block(executed[At(x)])]
<1>1. /\ n \in Nat /\ t \in Nat /\ n = t + 1 /\ executed[n] \in Nat
      /\ \A x \in 1 .. t : executed[x] \in Nat
  BY DEF Lru, LruTypes
<1>2. s \in Sets /\ \A w \in Way : lines[s][w].valid => lines[s][w].tag # tag(executed[n])
  BY <1>1, BlockSplit DEF HitWays
<1> SUFFICES ASSUME NEW j \in 1 .. t, block(executed[j]) = block(executed[n])
             PROVE  ~(Cardinality(Others(j, n)) < ways)
  BY <1>1, LruHitIs
<1>3. PICK k \in j .. t : block(executed[k]) = block(executed[j]) /\ LastUse(k, t)
  BY <1>1, LastUseExists
<1>4. k \in 1 .. t /\ executed[k] \in Nat
  BY <1>1, <1>3
<1>5. index(executed[k]) = s /\ tag(executed[k]) = tag(executed[n])
  BY <1>1, <1>3, <1>4, BlockSplit
<1>6. ~Remembered(s, k)
  BY <1>2, <1>5, LineFacts DEF Remembered
<1>7. DrivenOut(s, k)
  BY <1>3, <1>4, <1>5, <1>6 DEF Lru
<1>8. ASSUME NEW x \in Way
      PROVE  /\ lines[s][x].valid /\ At(x) \in j + 1 .. t /\ index(executed[At(x)]) = s
             /\ block(executed[At(x)]) # block(executed[n])
  <2>1. lines[s][x].valid /\ At(x) > k
    BY <1>7 DEF DrivenOut
  <2>2. At(x) \in 1 .. t /\ index(executed[At(x)]) = s
    BY <1>2, <2>1, LineFacts
  <2>3. At(x) \in k + 1 .. t
    BY <1>1, <1>4, <2>1, <2>2
  <2>4. block(executed[At(x)]) # block(executed[k])
    BY <1>3, <2>3 DEF LastUse
  <2> QED BY <1>1, <1>3, <2>1, <2>2, <2>3, <2>4
<1> DEFINE O == Others(j, n)
<1>9. f \in [Way -> O]
  <2>0. LruTypes /\ n \in 1 .. Len(executed) /\ j \in 1 .. t
    BY DEF Lru
  <2>1. ASSUME NEW x \in Way PROVE block(executed[At(x)]) \in O
    <3>1. PICK m \in j + 1 .. t : m = At(x)
      BY <1>8
    <3>2. index(executed[m]) = s /\ block(executed[m]) # block(executed[n])
      BY <1>8, <3>1
    <3>3. block(executed[m]) \in Others(j, n)
      BY <1>1, <2>0, <3>2, OthersAre
    <3> QED BY <3>1, <3>3
  <2> HIDE DEF O
  <2> QED BY <2>1
<1>10. \A x, y \in Way : f[x] = f[y] => x = y
  BY <1>2, <1>8, OneWay
<1>11. IsFiniteSet(O)
  BY <1>1, OthersAre DEF Lru
<1> HIDE DEF f, O
<1>12. f \in Injection(Way, O)
  BY <1>9, <1>10, Fun_IsInj
<1>13. Cardinality(Way) <= Cardinality(O)
  BY <1>11, <1>12, FS_Injection
<1> QED BY <1>11, <1>13, Geometry, FS_CardinalityType DEF O

-----------------------------------------------------------------------------
(* The victim is a way, and every other way was used later, or, being      *)
(* never used, at 0 as well.                                               *)
LEMMA VictimIsOldest ==
    ASSUME NEW set \in [Way -> Line]
    PROVE  lru_way(set) \in Way /\ \A v \in Way : set[lru_way(set)].last_use_time <= set[v].last_use_time
<1> DEFINE U == {set[w].last_use_time : w \in Way}
<1>1. \A w \in Way : set[w].last_use_time \in Nat /\ w \in Nat
  BY DEF Line, Way
<1>2. PICK w0 \in Way : \A v \in Way : set[w0].last_use_time <= set[v].last_use_time
  <2>1. 0 \in Way
    BY Geometry DEF Way
  <2>2. U \subseteq Nat /\ U # {}
    BY <1>1, <2>1
  <2>3. \E x \in U : \A y \in U : x <= y
    <3> HIDE DEF U
    <3> QED BY <2>2, LeastNatural
  <2> QED BY <2>3
<1> DEFINE M == {w \in Way : set[w].last_use_time = set[w0].last_use_time}
<1>3. PICK w1 \in M : \A v \in M : w1 <= v
  <2>1. M \subseteq Nat /\ M # {}
    BY <1>1
  <2> HIDE DEF M
  <2> QED BY <2>1, LeastNatural
<1>4. \A v \in Way : \/ set[w1].last_use_time < set[v].last_use_time
                     \/ /\ set[w1].last_use_time = set[v].last_use_time
                        /\ w1 <= v
  BY <1>1, <1>2, <1>3
<1>5. w1 \in Way
  BY <1>3
<1>6. /\ lru_way(set) \in Way
      /\ \A v \in Way : \/ set[lru_way(set)].last_use_time < set[v].last_use_time
                        \/ /\ set[lru_way(set)].last_use_time = set[v].last_use_time
                           /\ lru_way(set) <= v
  BY <1>4, <1>5 DEF lru_way
<1> QED BY <1>1, <1>6

(* The access replaces the line that matches, or else the victim.          *)
LEMMA AccessKeepsLru ==
    ASSUME Lru, total_access + 1 \in 1 .. Len(executed),
           access_cache(executed[total_access + 1]), executed' = executed
    PROVE  /\ Lru' /\ total_access' = total_access + 1
           /\ hit_count' = IF LruHit(total_access + 1) THEN hit_count + 1 ELSE hit_count
<1> DEFINE t == total_access
           n == total_access + 1
           a == executed[n]
           s == index(a)
           h == HitWays(lines[s], tag(a))
           v == IF h # {} THEN CHOOSE w \in h : TRUE ELSE lru_way(lines[s])
           new == [valid |-> TRUE, tag |-> tag(a), last_use_time |-> n]
<1>1. /\ t \in Nat /\ n \in Nat /\ n = t + 1 /\ a \in Nat /\ n \in 1 .. Len(executed)
      /\ \A x \in 1 .. t : executed[x] \in Nat
  BY DEF Lru, LruTypes
<1>2. /\ total_access' = n /\ timer' = n
      /\ hit_count' = IF h = {} THEN hit_count ELSE hit_count + 1
      /\ lines' = [lines EXCEPT ![s][v] = new]
  BY DEF access_cache, Lru, LruTypes
<1>3. s \in Sets /\ tag(a) \in Nat /\ new \in Line
  BY <1>1, BlockSplit DEF Line
<1>4. lines \in [Sets -> [Way -> Line]] /\ lines[s] \in [Way -> Line]
  BY <1>3 DEF Lru, LruTypes
<1>5. v \in Way /\ (h # {} => v \in h)
  BY <1>4, VictimIsOldest DEF HitWays
<1>6. h = {} => \A w \in Way : lines[s][v].last_use_time <= lines[s][w].last_use_time
  BY <1>4, VictimIsOldest
<1>7. h = {} <=> ~LruHit(n)
  <2>1. h # {} => LruHit(n)
    BY <1>1, HitIsLruHit
  <2>2. h = {} => ~LruHit(n)
    BY <1>1, MissIsLruMiss
  <2> QED BY <2>1, <2>2
<1>8. \A w \in Way : w \in h <=> lines[s][w].valid /\ lines[s][w].tag = tag(a)
  BY DEF HitWays
<1>9. \A x \in Sets, w \in Way : lines'[x][w] = IF x = s /\ w = v THEN new ELSE lines[x][w]
  BY <1>2, <1>3, <1>4, <1>5
<1>10. lines' \in [Sets -> [Way -> Line]]
  BY <1>2, <1>3, <1>4, <1>5
<1>11. LruTypes'
  BY <1>1, <1>2, <1>10 DEF Lru, LruTypes
<1>12. new.valid /\ new.tag = tag(a) /\ new.last_use_time = n
  OBVIOUS
(* A line that keeps its place holds another block than the one accessed.  *)
<1>13. ASSUME NEW x \in Sets, NEW w \in Way, ~(x = s /\ w = v), lines[x][w].valid
       PROVE  block(executed[lines[x][w].last_use_time]) # block(a)
  <2> SUFFICES ASSUME block(executed[lines[x][w].last_use_time]) = block(a) PROVE FALSE
    OBVIOUS
  <2>1. /\ executed[lines[x][w].last_use_time] \in Nat /\ index(executed[lines[x][w].last_use_time]) = x
        /\ tag(executed[lines[x][w].last_use_time]) = lines[x][w].tag
    BY <1>13, LineFacts
  <2>2. x = s /\ lines[x][w].tag = tag(a)
    BY <1>1, <2>1, BlockSplit
  <2>3. w \in h /\ v \in h
    BY <1>5, <1>8, <1>13, <2>2
  <2>4. lines[s][w].valid /\ lines[s][v].valid /\ lines[s][w].tag = lines[s][v].tag
    BY <1>5, <1>8, <2>3
  <2>5. w = v
    BY <1>3, <1>5, <2>4, OneWay
  <2> QED BY <1>13, <2>2, <2>5
<1> HIDE DEF new, h, v, a, s
<1>14. ASSUME NEW x \in Sets, NEW w \in Way PROVE Holds(x, w)'
  <2>1. CASE x = s /\ w = v
    <3>1. lines'[x][w] = new
      BY <1>9, <2>1
    <3>2. LastUse(n, n)
      BY <1>1 DEF LastUse
    <3>3. n \in 1 .. n /\ index(executed[n]) = x /\ tag(executed[n]) = tag(a)
      BY <1>1, <2>1 DEF a, s
    <3> QED BY <1>2, <1>12, <3>1, <3>2, <3>3 DEF Holds, LastUse
  <2>2. CASE ~(x = s /\ w = v)
    <3>1. lines'[x][w] = lines[x][w]
      BY <1>9, <2>2
    <3>2. CASE lines[x][w].valid
      <4> DEFINE j == lines[x][w].last_use_time
      <4>1. /\ j \in 1 .. t /\ index(executed[j]) = x /\ tag(executed[j]) = lines[x][w].tag
            /\ LastUse(j, t)
        BY <3>2, LineFacts
      <4>2. block(executed[j]) # block(executed[n])
        BY <1>13, <2>2, <3>2 DEF a
      <4> HIDE DEF j
      <4>3. LastUse(j, n) /\ j \in 1 .. n
        <5>1. \A k \in j + 1 .. n : k \in j + 1 .. t \/ k = n
          BY <1>1, <4>1
        <5> QED BY <1>1, <4>1, <4>2, <5>1 DEF LastUse
      <4> QED BY <1>2, <3>1, <3>2, <4>1, <4>3 DEF Holds, LastUse, j
    <3>3. CASE ~lines[x][w].valid
      BY <3>1, <3>3, LineFacts DEF Holds
    <3> QED BY <3>2, <3>3
  <2> QED BY <2>1, <2>2
<1>15. ASSUME NEW x \in Sets, NEW w \in Way, NEW u \in Way PROVE Apart(x, w, u)'
  <2>1. \A y \in Way : ~(x = s /\ y = v) /\ lines[x][y].valid => lines'[x][y].last_use_time # n
    BY <1>1, <1>9, LineFacts
  <2>2. Apart(x, w, u)
    BY DEF Lru
  <2>3. x = s => lines'[x][v].last_use_time = n
    BY <1>3, <1>5, <1>9, <1>12
  <2>4. CASE x = s /\ (w = v \/ u = v)
    BY <1>9, <2>1, <2>3, <2>4 DEF Apart
  <2>5. CASE ~(x = s /\ (w = v \/ u = v))
    BY <1>9, <2>2, <2>5 DEF Apart
  <2> QED BY <2>4, <2>5
<1>16. ASSUME NEW j \in 1 .. n, LastUse(j, n), NEW x, x = index(executed[j])
       PROVE  Remembered(x, j)' \/ DrivenOut(x, j)'
  <2>1. CASE j = n
    <3>1. x = s /\ lines'[x][v].valid /\ lines'[x][v].last_use_time = j
      BY <1>3, <1>5, <1>9, <1>12, <1>16, <2>1 DEF a, s
    <3> QED BY <1>5, <3>1 DEF Remembered
  <2>2. CASE j # n
    <3>1. j \in 1 .. t /\ LastUse(j, t) /\ executed[j] \in Nat /\ x \in Sets
      <4>1. j \in 1 .. t /\ executed[j] \in Nat
        BY <1>1, <2>2
      <4>2. \A k \in j + 1 .. t : k \in j + 1 .. n
        BY <1>1, <4>1
      <4> QED BY <1>16, <4>1, <4>2, BlockSplit DEF LastUse
    <3>2. block(executed[j]) # block(a)
      <4>1. n \in j + 1 .. n
        BY <1>1, <3>1
      <4> QED BY <1>16, <4>1 DEF LastUse, a
    <3>3. Remembered(x, j) \/ DrivenOut(x, j)
      BY <1>16, <3>1 DEF Lru
    <3>4. \A w \in Way : lines[x][w].last_use_time \in Nat
      BY <3>1, LineFacts
    <3>5. CASE DrivenOut(x, j)
      <4>1. \A w \in Way : lines'[x][w].valid /\ lines'[x][w].last_use_time > j
        BY <1>1, <1>9, <1>12, <3>1, <3>5 DEF DrivenOut
      <4> QED BY <4>1 DEF DrivenOut
    <3>6. CASE Remembered(x, j)
      <4>1. PICK w \in Way : lines[x][w].valid /\ lines[x][w].last_use_time = j
        BY <3>6 DEF Remembered
      <4>2. CASE ~(x = s /\ w = v)
        BY <1>9, <3>1, <4>1, <4>2 DEF Remembered
      <4>3. CASE x = s /\ w = v
        <5>1. h = {}
          <6>1. v \in h => tag(executed[j]) = tag(a)
            BY <1>8, <3>1, <4>1, <4>3, LineFacts
          <6>2. index(executed[j]) = index(a)
            BY <1>16, <4>3 DEF s
          <6>3. v \notin h
            BY <1>1, <3>1, <3>2, <6>1, <6>2, BlockSplit
          <6> QED BY <1>5, <6>3
        <5>2. \A u \in Way : lines[x][u].last_use_time >= j
          BY <1>6, <3>4, <4>1, <4>3, <5>1
        <5>3. \A u \in Way : lines[x][u].valid
          BY <3>1, <5>2, LineFacts
        <5>4. \A u \in Way : u # v => lines[x][u].last_use_time > j
          <6>1. \A u \in Way : u # v => lines[x][u].last_use_time # j
            BY <3>1, <4>1, <4>3, <5>3 DEF Lru, Apart
          <6> QED BY <3>1, <3>4, <5>2, <6>1
        <5>5. \A u \in Way : lines'[x][u].valid /\ lines'[x][u].last_use_time > j
          BY <1>1, <1>5, <1>9, <1>12, <3>1, <4>3, <5>3, <5>4
        <5> QED BY <5>5 DEF DrivenOut
      <4> QED BY <4>2, <4>3
    <3> QED BY <3>3, <3>5, <3>6
  <2> QED BY <2>1, <2>2
<1>17. \A j \in 1 .. n : LastUse(j, n) =>
           Remembered(index(executed[j]), j)' \/ DrivenOut(index(executed[j]), j)'
  BY <1>16
<1>18. Lru'
  <2>1. \A x \in Sets : \A w \in Way : Holds(x, w)'
    BY <1>14
  <2>2. \A x \in Sets : \A w, u \in Way : Apart(x, w, u)'
    BY <1>15
  <2>3. (\A j \in 1 .. total_access : LastUse(j, total_access) =>
              Remembered(index(executed[j]), j) \/ DrivenOut(index(executed[j]), j))'
    BY <1>2, <1>17 DEF LastUse, Remembered, DrivenOut, index
  <2> QED BY <1>11, <2>1, <2>2, <2>3 DEF Lru, Sets, num_sets, Way
<1> QED BY <1>2, <1>7, <1>18
-----------------------------------------------------------------------------
(* The partial results of FlattenSeq(ss) up to the m-th sequence.          *)
Flattens(f, ss, m) == f = [k \in 1 .. m |-> IF k = 1 THEN ss[k] ELSE f[k - 1] \o ss[k]]

(* Its k-th equation, and that it holds.                                   *)
Row(f, ss, k) == f[k] = IF k = 1 THEN ss[k] ELSE f[k - 1] \o ss[k]

LEMMA FlatAt ==
    ASSUME NEW f, NEW ss, NEW m, NEW k \in 1 .. m, Flattens(f, ss, m)
    PROVE  Row(f, ss, k)
  BY DEF Flattens, Row

(* Two sequences begin with the same m elements.                           *)
SameUpTo(m, f, g) == \A k \in 1 .. m : f[k] = g[k]

(* They are determined by the sequences they come from.                    *)
LEMMA FlatAgree ==
    ASSUME NEW m \in Nat, NEW n \in Nat, m <= n, NEW ss, NEW tt,
           SameUpTo(m, ss, tt),
           NEW f, NEW g, Flattens(f, ss, m), Flattens(g, tt, n)
    PROVE  SameUpTo(m, f, g)
<1> DEFINE T == {k \in 1 .. m : f[k] # g[k]}
<1> SUFFICES ASSUME T # {} PROVE FALSE
  BY DEF SameUpTo
<1>1. PICK k \in T : \A j \in T : k <= j
  <2>1. T \subseteq Nat
    OBVIOUS
  <2> HIDE DEF T
  <2> QED BY <2>1, LeastNatural
<1>2. /\ f[k] = IF k = 1 THEN ss[k] ELSE f[k - 1] \o ss[k]
      /\ g[k] = IF k = 1 THEN tt[k] ELSE g[k - 1] \o tt[k]
      /\ ss[k] = tt[k]
  <2>1. k \in 1 .. m /\ k \in 1 .. n
    OBVIOUS
  <2> HIDE DEF T
  <2>2. Row(f, ss, k) /\ Row(g, tt, k)
    BY <2>1, FlatAt
  <2> QED BY <2>1, <2>2 DEF Row, SameUpTo
<1>3. k # 1 => k - 1 \in 1 .. m /\ k - 1 \notin T
  BY <1>1
<1> QED BY <1>2, <1>3

(* They exist.                                                             *)
LEMMA FlatExists ==
    ASSUME NEW X, NEW ss \in Seq(Seq(X)), NEW n \in 0 .. Len(ss)
    PROVE  \E f \in [1 .. n -> Seq(X)] : Flattens(f, ss, n)
<1> DEFINE T == {m \in 0 .. Len(ss) : ~ \E f \in [1 .. m -> Seq(X)] : Flattens(f, ss, m)}
<1> SUFFICES ASSUME T # {} PROVE FALSE
  OBVIOUS
<1>1. PICK m \in T : \A j \in T : m <= j
  <2>1. T \subseteq Nat
    OBVIOUS
  <2> HIDE DEF T
  <2> QED BY <2>1, LeastNatural
<1>2. m # 0
  <2>1. Flattens([k \in 1 .. 0 |-> <<>>], ss, 0)
    BY DEF Flattens
  <2>2. [k \in 1 .. 0 |-> <<>>] \in [1 .. 0 -> Seq(X)]
    OBVIOUS
  <2> QED BY <2>1, <2>2
<1>3. PICK f \in [1 .. m - 1 -> Seq(X)] : Flattens(f, ss, m - 1)
  <2>1. m \in 0 .. Len(ss) /\ Len(ss) \in Nat
    OBVIOUS
  <2>2. m - 1 \in 0 .. Len(ss)
    BY <1>2, <2>1
  <2>3. m - 1 \notin T
    <3> HIDE DEF T
    <3> QED BY <1>1, <2>1
  <2> QED BY <2>2, <2>3
<1>4. m \in 1 .. Len(ss) /\ ss[m] \in Seq(X) /\ \A k \in 1 .. m : ss[k] \in Seq(X)
  BY <1>2
<1> DEFINE last == IF m = 1 THEN ss[m] ELSE f[m - 1] \o ss[m]
           g == [k \in 1 .. m |-> IF k = m THEN last ELSE f[k]]
<1>5. last \in Seq(X)
  <2>1. m # 1 => f[m - 1] \in Seq(X)
    BY <1>3, <1>4
  <2> QED BY <1>4, <2>1
<1>6. g \in [1 .. m -> Seq(X)]
  BY <1>3, <1>4, <1>5
<1>7. \A k \in 1 .. m : g[k] = IF k = 1 THEN ss[k] ELSE g[k - 1] \o ss[k]
  <2> SUFFICES ASSUME NEW k \in 1 .. m PROVE g[k] = IF k = 1 THEN ss[k] ELSE g[k - 1] \o ss[k]
    OBVIOUS
  <2>1. k # 1 => k - 1 \in 1 .. m - 1
    BY <1>4
  <2>2. k # 1 => g[k - 1] = f[k - 1]
    BY <1>4, <2>1
  <2>3. CASE k = m
    BY <2>2, <2>3
  <2>4. CASE k # m
    <3>1. k \in 1 .. m - 1
      BY <1>4, <2>4
    <3>2. f[k] = IF k = 1 THEN ss[k] ELSE f[k - 1] \o ss[k]
      BY <1>3, <3>1 DEF Flattens
    <3> QED BY <2>2, <2>4, <3>2
  <2> QED BY <2>3, <2>4
<1> HIDE DEF g
<1>8. Flattens(g, ss, m)
  BY <1>6, <1>7 DEF Flattens
<1> QED BY <1>6, <1>8

(* FlattenSeq is the last of them.                                         *)
LEMMA FlatIs ==
    ASSUME NEW X, NEW ss \in Seq(Seq(X))
    PROVE  /\ ss = <<>> => FlattenSeq(ss) = <<>>
           /\ ss # <<>> => \E f \in [1 .. Len(ss) -> Seq(X)] :
                               Flattens(f, ss, Len(ss)) /\ FlattenSeq(ss) = f[Len(ss)]
<1>1. CASE ss = <<>>
  BY <1>1 DEF FlattenSeq
<1>2. CASE ss # <<>>
  <2> DEFINE n == Len(ss)
             h == CHOOSE f : Flattens(f, ss, n)
  <2>1. n \in Nat \ {0}
    BY <1>2
  <2>2. PICK f \in [1 .. n -> Seq(X)] : Flattens(f, ss, n)
    <3>1. n \in 0 .. Len(ss)
      BY <2>1
    <3> QED BY <3>1, FlatExists
  <2>3. Flattens(h, ss, n)
    BY <2>2
  <2>4. FlattenSeq(ss) = h[n]
    BY <2>1 DEF FlattenSeq, Flattens
  <2> HIDE DEF h
  <2>5. h[n] = f[n]
    <3>1. SameUpTo(n, ss, ss)
      BY DEF SameUpTo
    <3>2. SameUpTo(n, h, f)
      BY <2>1, <2>2, <2>3, <3>1, FlatAgree
    <3> QED BY <2>1, <3>2 DEF SameUpTo
  <2> QED BY <1>2, <2>2, <2>4, <2>5
<1> QED BY <1>1, <1>2

(* One more sequence appends its elements.                                 *)
Adds(ss, tt, m) == FlattenSeq(tt) = FlattenSeq(ss) \o tt[m]

(* The elements of the sequences before are as they were.                  *)
LEMMA FlatOneMore ==
    ASSUME NEW X, NEW ss \in Seq(Seq(X)), NEW tt \in Seq(Seq(X)), NEW n \in Nat, NEW m \in Nat,
           m = n + 1, Len(ss) = n, Len(tt) = m, SameUpTo(n, ss, tt)
    PROVE  FlattenSeq(ss) \in Seq(X) /\ Adds(ss, tt, m)
<1>1. tt # <<>> /\ m \in 1 .. m /\ tt[m] \in Seq(X) /\ n <= m /\ m - 1 = n
  OBVIOUS
<1>2. PICK g \in [1 .. Len(tt) -> Seq(X)] : Flattens(g, tt, Len(tt)) /\ FlattenSeq(tt) = g[Len(tt)]
  BY <1>1, FlatIs
<1>3. Flattens(g, tt, m) /\ FlattenSeq(tt) = g[m]
  BY <1>2
<1>4. Row(g, tt, m)
  BY <1>1, <1>3, FlatAt
<1>5. CASE ss = <<>>
  <2>1. n = 0 /\ FlattenSeq(ss) = <<>>
    BY <1>5, FlatIs
  <2>2. <<>> \o tt[m] = tt[m] /\ <<>> \in Seq(X)
    BY <1>1
  <2> QED BY <1>3, <1>4, <2>1, <2>2 DEF Row, Adds
<1>6. CASE ss # <<>>
  <2>1. PICK f \in [1 .. Len(ss) -> Seq(X)] : Flattens(f, ss, Len(ss)) /\ FlattenSeq(ss) = f[Len(ss)]
    BY <1>6, FlatIs
  <2>2. Flattens(f, ss, n) /\ FlattenSeq(ss) = f[n] /\ f[n] \in Seq(X) /\ n # 0
    BY <1>6, <2>1
  <2>3. SameUpTo(n, f, g)
    BY <1>1, <1>3, <2>2, FlatAgree
  <2>4. f[n] = g[n] /\ m # 1
    BY <2>2, <2>3 DEF SameUpTo
  <2> QED BY <1>1, <1>3, <1>4, <2>2, <2>4 DEF Row, Adds
<1> QED BY <1>5, <1>6

-----------------------------------------------------------------------------

(* Four more, counted before or after the wrap.                            *)
LEMMA ModPlus ==
    ASSUME NEW a \in Nat, NEW n \in Nat \ {0}
    PROVE  ((a % n) + 4) % n = (a + 4) % n
<1> DEFINE r == a % n
           q == a \div n
           b == (r + 4) \div n
           c == (a + 4) \div n
<1>0. \A x \in Nat : x = n * (x \div n) + (x % n) /\ x \div n \in Nat /\ x % n \in 0 .. n - 1
  BY DivModEq
<1>1. a = n * q + r /\ q \in Nat /\ r \in 0 .. n - 1
  BY <1>0
<1>2. r + 4 = n * b + ((r + 4) % n) /\ b \in Nat /\ (r + 4) % n \in 0 .. n - 1
  BY <1>0, <1>1
<1>3. a + 4 = n * c + ((a + 4) % n) /\ c \in Nat /\ (a + 4) % n \in 0 .. n - 1
  BY <1>0
<1> HIDE DEF r, q, b, c
<1>4. n * (q + b) = n * q + n * b /\ n * q \in Int /\ n * b \in Int /\ n * c \in Int
  BY <1>1, <1>2, <1>3
<1>5. n * (q + b) + ((r + 4) % n) = n * c + ((a + 4) % n)
  BY <1>1, <1>2, <1>3, <1>4
<1>6. q + b = c
  <2>1. q + b \in Nat
    BY <1>1, <1>2
  <2> QED BY <1>2, <1>3, <1>5, <2>1, Quotient
<1> QED BY <1>2, <1>3, <1>5, <1>6 DEF r

-----------------------------------------------------------------------------
(* The nodes of the binary trace, whatever they count.                     *)
Nodes == [start_pc : Pc, count : Nat]

(* What the nodes of a file stand for.                                     *)
Parts(f) == [k \in DOMAIN f |-> Expand(f[k])]

(* A node stands for as many addresses as it counts.                       *)
LEMMA ExpandTypes ==
    ASSUME NEW nd \in Nodes
    PROVE  /\ Expand(nd) \in Seq(Pc) /\ Len(Expand(nd)) = nd.count
           /\ \A k \in 1 .. nd.count : Expand(nd)[k] = (nd.start_pc + 4 * (k - 1)) % PcSpace
<1>1. /\ nd.count \in Nat /\ nd.start_pc \in Nat
      /\ \A k \in 1 .. nd.count : (nd.start_pc + 4 * (k - 1)) % PcSpace \in Pc
  <2>1. nd.count \in Nat /\ nd.start_pc \in Nat
    BY ItraceAssumption DEF Nodes, Pc
  <2>2. \A a \in Nat : a % PcSpace \in Pc
    BY ItraceAssumption, DivModEq DEF Pc
  <2>3. \A k \in 1 .. nd.count : nd.start_pc + 4 * (k - 1) \in Nat
    BY <2>1
  <2> QED BY <2>1, <2>2, <2>3
<1> QED BY <1>1 DEF Expand

(* A node that counts one instruction stands for that instruction.         *)
LEMMA ExpandOne ==
    ASSUME NEW pc \in Pc
    PROVE  Expand([start_pc |-> pc, count |-> 1]) = <<pc>>
<1> DEFINE nd == [start_pc |-> pc, count |-> 1]
<1>1. nd \in Nodes /\ nd.count = 1 /\ nd.start_pc = pc
  BY DEF Nodes
<1>2. pc \in Nat /\ pc % PcSpace = pc /\ pc + 4 * (1 - 1) = pc
  BY ItraceAssumption DEF Pc
<1> HIDE DEF nd
<1>3. Expand(nd) \in Seq(Pc) /\ Len(Expand(nd)) = 1 /\ Expand(nd)[1] = pc
  <2>1. 1 \in 1 .. nd.count
    BY <1>1
  <2>2. Expand(nd)[1] = (nd.start_pc + 4 * (1 - 1)) % PcSpace
    BY <1>1, <2>1, ExpandTypes
  <2> QED BY <1>1, <1>2, <2>2, ExpandTypes
<1> QED BY <1>3 DEF nd

(* The next instruction in sequence lengthens what a node stands for.      *)
LEMMA ExpandGrows ==
    ASSUME NEW nd \in Nodes, NEW more \in Nodes,
           more.start_pc = nd.start_pc, more.count = nd.count + 1
    PROVE  Expand(more) = Append(Expand(nd), (nd.start_pc + 4 * nd.count) % PcSpace)
<1> DEFINE s == Expand(more)
           t == Append(Expand(nd), (nd.start_pc + 4 * nd.count) % PcSpace)
<1>1. nd.count \in Nat /\ nd.start_pc \in Nat
  BY ItraceAssumption DEF Nodes, Pc
<1>2. (nd.start_pc + 4 * nd.count) % PcSpace \in Pc
  <2>1. nd.start_pc + 4 * nd.count \in Nat
    BY <1>1
  <2> QED BY <2>1, ItraceAssumption, DivModEq DEF Pc
<1>3. /\ t \in Seq(Pc) /\ Len(t) = nd.count + 1
      /\ t[nd.count + 1] = (nd.start_pc + 4 * nd.count) % PcSpace
      /\ \A k \in 1 .. nd.count : t[k] = (nd.start_pc + 4 * (k - 1)) % PcSpace
  BY <1>1, <1>2, ExpandTypes
<1>4. /\ s \in Seq(Pc) /\ Len(s) = nd.count + 1
      /\ \A k \in 1 .. nd.count + 1 : s[k] = (nd.start_pc + 4 * (k - 1)) % PcSpace
  BY ExpandTypes
<1> HIDE DEF s, t
<1>5. \A k \in 1 .. nd.count + 1 : s[k] = t[k]
  BY <1>1, <1>3, <1>4
<1>6. s = t
  BY <1>1, <1>3, <1>4, <1>5, SeqEqual
<1> QED BY <1>6 DEF s, t

(* The parts of a file are sequences of addresses, one for each node.      *)
LEMMA PartsTypes ==
    ASSUME NEW f \in Seq(Nodes)
    PROVE  /\ Parts(f) \in Seq(Seq(Pc)) /\ Len(Parts(f)) = Len(f)
           /\ \A k \in 1 .. Len(f) : Parts(f)[k] = Expand(f[k])
<1>1. DOMAIN f = 1 .. Len(f) /\ Len(f) \in Nat /\ \A k \in 1 .. Len(f) : f[k] \in Nodes
  OBVIOUS
<1>2. \A k \in 1 .. Len(f) : Expand(f[k]) \in Seq(Pc)
  BY <1>1, ExpandTypes
<1> QED BY <1>1, <1>2 DEF Parts

(* A node that is written adds what it stands for.                         *)
LEMMA PartsAppend ==
    ASSUME NEW f \in Seq(Nodes), NEW nd \in Nodes
    PROVE  /\ FlattenSeq(Parts(f)) \in Seq(Pc)
           /\ FlattenSeq(Parts(Append(f, nd))) = FlattenSeq(Parts(f)) \o Expand(nd)
<1> DEFINE g == Append(f, nd)
           n == Len(f)
           m == Len(g)
<1>1. g \in Seq(Nodes) /\ n \in Nat /\ m \in Nat /\ m = n + 1 /\ g[m] = nd /\ \A k \in 1 .. n : g[k] = f[k]
  OBVIOUS
<1> HIDE DEF g, n, m
<1>2. /\ Parts(f) \in Seq(Seq(Pc)) /\ Len(Parts(f)) = n
      /\ Parts(g) \in Seq(Seq(Pc)) /\ Len(Parts(g)) = m
  BY <1>1, PartsTypes DEF n, m
<1>3. Parts(g)[m] = Expand(nd) /\ SameUpTo(n, Parts(f), Parts(g))
  <2>1. /\ \A k \in 1 .. n : Parts(f)[k] = Expand(f[k])
        /\ \A k \in 1 .. m : Parts(g)[k] = Expand(g[k])
    BY <1>1, PartsTypes DEF n, m
  <2>2. m \in 1 .. m /\ \A k \in 1 .. n : k \in 1 .. m
    BY <1>1
  <2>3. \A k \in 1 .. n : Parts(f)[k] = Parts(g)[k]
    BY <1>1, <2>1, <2>2
  <2> QED BY <1>1, <2>1, <2>2, <2>3 DEF SameUpTo
<1>4. FlattenSeq(Parts(f)) \in Seq(Pc) /\ Adds(Parts(f), Parts(g), m)
  BY <1>1, <1>2, <1>3, FlatOneMore
<1> QED BY <1>3, <1>4 DEF g, Adds

-----------------------------------------------------------------------------
(* What is being counted is a run of instructions that ends with the last. *)
Counting == /\ cur_node.count <= Len(executed) /\ Len(executed) <= MaxInst
            /\ cur_node.count > 0 =>
                   last_pc = (cur_node.start_pc + 4 * (cur_node.count - 1)) % PcSpace

BinTypes == /\ executed \in Seq(Pc) /\ last_pc \in Pc
            /\ file \in Seq(Node) /\ open \in BOOLEAN /\ cur_node \in Node

(* The invariant of the binary trace.                                      *)
BinInv == BinTypes /\ Counting /\ TraceIsExecution

(* The bound on the instructions a node counts plays no part here.         *)
LEMMA NodesOfAnyCount == Node \subseteq Nodes /\ Seq(Node) \subseteq Seq(Nodes)
<1>1. Node \subseteq Nodes
  BY ItraceAssumption DEF Node, Nodes
<1>2. \A s \in Seq(Node) : s \in Seq(Nodes)
  BY <1>1, SeqMonotonic
<1> QED BY <1>1, <1>2

(* TraceIsExecution in these words.                                        *)
LEMMA TraceIs ==
    TraceIsExecution <=>
        executed = FlattenSeq(Parts(file)) \o (IF open THEN Expand(cur_node) ELSE <<>>)
  BY DEF TraceIsExecution, Parts

(* Nothing is executed and nothing written at the start.                   *)
LEMMA BinInit == Init => BinInv
<1> SUFFICES ASSUME Init PROVE BinInv
  OBVIOUS
<1>1. /\ executed = <<>> /\ file = <<>> /\ open = TRUE /\ last_pc = 0
      /\ cur_node = [start_pc |-> 0, count |-> 0]
  BY DEF Init
<1>2. BinTypes
  BY <1>1, ItraceAssumption DEF BinTypes, Pc, Node
<1>3. Counting
  BY <1>1, ItraceAssumption DEF Counting
<1>4. TraceIsExecution
  <2>1. Parts(file) = <<>>
    BY <1>1 DEF Parts
  <2>2. FlattenSeq(Parts(file)) = <<>>
    BY <2>1 DEF FlattenSeq
  <2>3. Expand(cur_node) = <<>>
    BY <1>1 DEF Expand
  <2> QED BY <1>1, <2>2, <2>3, TraceIs
<1> QED BY <1>2, <1>3, <1>4 DEF BinInv

(* An instruction in sequence lengthens the node being counted; any other, *)
(* or the end of the program, writes it out and starts another.            *)
LEMMA BinStep == BinInv /\ [Next]_vars => BinInv'
<1> SUFFICES ASSUME BinInv, [Next]_vars PROVE BinInv'
  OBVIOUS
<1> DEFINE flat == FlattenSeq(Parts(file))
           whole == Expand(cur_node)
<1>0. /\ file \in Seq(Nodes) /\ cur_node \in Nodes /\ cur_node.count \in Nat /\ cur_node.start_pc \in Pc
      /\ cur_node.count \in 0 .. MaxInst
      /\ executed \in Seq(Pc) /\ last_pc \in Pc
      /\ executed = flat \o (IF open THEN whole ELSE <<>>)
  BY NodesOfAnyCount, TraceIs DEF BinInv, BinTypes, Node, Nodes
<1>1. flat \in Seq(Pc) /\ whole \in Seq(Pc) /\ Len(whole) = cur_node.count
  BY <1>0, PartsAppend, ExpandTypes
<1>2. FlattenSeq(Parts(Append(file, cur_node))) = flat \o whole
  BY <1>0, PartsAppend
<1>3. cur_node.count = 0 => whole = <<>>
  BY <1>1, EmptySeq
<1> HIDE DEF flat, whole
<1>4. CASE exec_once
  <2>1. PICK pc \in Targets \cup {(last_pc + 4) % PcSpace} :
            executed' = Append(executed, pc) /\ itrace_bin_record(pc)
    BY <1>4 DEF exec_once
  <2>2. open /\ Len(executed) < MaxInst
    BY <1>4 DEF exec_once
  <2>3. pc \in Pc
    <3>1. last_pc + 4 \in Nat
      BY <1>0, ItraceAssumption DEF Pc
    <3>2. \A a \in Nat : a % PcSpace \in Pc
      BY ItraceAssumption, DivModEq DEF Pc
    <3> QED BY <3>1, <3>2, ItraceAssumption DEF Pc
  <2>4. executed = flat \o whole
    BY <1>0, <2>2
  <2>5. executed' \in Seq(Pc) /\ Len(executed') = Len(executed) + 1 /\ Len(executed) \in Nat
        /\ last_pc' = pc /\ open' = open
    BY <1>0, <2>1, <2>3 DEF itrace_bin_record
  <2>6. CASE cur_node.count = 0 \/ pc # (last_pc + 4) % PcSpace
    <3>1. /\ file' = IF cur_node.count > 0 THEN Append(file, cur_node) ELSE file
          /\ cur_node' = [start_pc |-> pc, count |-> 1]
      BY <2>1, <2>6 DEF itrace_bin_record
    <3>2. cur_node' \in Node /\ cur_node' \in Nodes
      BY <2>2, <2>3, <2>5, <3>1, ItraceAssumption DEF Node, Nodes
    <3>3. file' \in Seq(Node)
      BY <3>1 DEF BinInv, BinTypes
    <3>4. Expand(cur_node)' = <<pc>>
      BY <2>3, <3>1, ExpandOne DEF Expand
    <3>5. FlattenSeq(Parts(file')) = executed
      <4>1. CASE cur_node.count > 0
        BY <1>2, <2>4, <3>1, <4>1
      <4>2. CASE cur_node.count = 0
        <5>1. flat \o <<>> = flat
          BY <1>1, ConcatEmptySeq
        <5>2. executed = flat /\ file' = file
          <6>1. file' = file
            BY <3>1, <4>2
          <6>2. whole = <<>>
            BY <1>3, <4>2
          <6>3. executed = flat \o <<>>
            BY <2>4, <6>2, Zenon
          <6> QED BY <5>1, <6>1, <6>3, Zenon
        <5> QED BY <5>2 DEF flat
      <4> QED BY <1>0, <4>1, <4>2
    <3>6. executed' = FlattenSeq(Parts(file')) \o Expand(cur_node')
      <4>1. Append(executed, pc) = executed \o <<pc>>
        BY <1>0, <2>3
      <4> QED BY <2>1, <3>4, <3>5, <4>1 DEF Expand
    <3>7. TraceIsExecution'
      BY <2>2, <2>5, <3>6 DEF TraceIsExecution, Parts
    <3>8. Counting'
      <4>1. pc \in Nat /\ pc % PcSpace = pc
        BY <2>3, ItraceAssumption DEF Pc
      <4>2. cur_node'.count = 1 /\ cur_node'.start_pc = pc /\ 4 * (1 - 1) = 0 /\ pc + 0 = pc
        BY <3>1, <4>1
      <4>3. MaxInst \in Nat
        BY ItraceAssumption
      <4> QED BY <2>2, <2>5, <4>1, <4>2, <4>3 DEF Counting
    <3> QED BY <2>2, <2>3, <2>5, <3>2, <3>3, <3>7, <3>8 DEF BinInv, BinTypes
  <2>7. CASE ~(cur_node.count = 0 \/ pc # (last_pc + 4) % PcSpace)
    <3>1. file' = file /\ cur_node' = [cur_node EXCEPT !.count = @ + 1]
      BY <2>1, <2>7 DEF itrace_bin_record
    <3>2. /\ cur_node' \in Nodes /\ cur_node'.start_pc = cur_node.start_pc
          /\ cur_node'.count = cur_node.count + 1
      <4>1. cur_node = [start_pc |-> cur_node.start_pc, count |-> cur_node.count]
        BY <1>0 DEF Nodes
      <4>2. cur_node' = [start_pc |-> cur_node.start_pc, count |-> cur_node.count + 1]
        BY <3>1, <4>1
      <4> QED BY <1>0, <4>2 DEF Nodes
    <3>3. cur_node' \in Node
      <4>1. cur_node.count + 1 \in 0 .. MaxInst
        BY <1>0, <2>2, <2>5, ItraceAssumption DEF BinInv, Counting
      <4> QED BY <1>0, <3>1, <4>1 DEF Nodes, Node
    <3>4. pc = (cur_node.start_pc + 4 * cur_node.count) % PcSpace
      <4> DEFINE a == cur_node.start_pc + 4 * (cur_node.count - 1)
      <4>1. a \in Nat /\ a + 4 = cur_node.start_pc + 4 * cur_node.count
        <5>1. cur_node.start_pc \in Nat /\ cur_node.count \in Nat /\ cur_node.count # 0
          BY <1>0, <2>7, ItraceAssumption DEF Pc
        <5> QED BY <5>1
      <4>2. pc = (last_pc + 4) % PcSpace /\ last_pc = a % PcSpace
        BY <1>0, <2>7 DEF BinInv, Counting
      <4> HIDE DEF a
      <4>3. ((a % PcSpace) + 4) % PcSpace = (a + 4) % PcSpace
        BY <4>1, ItraceAssumption, ModPlus
      <4> QED BY <4>1, <4>2, <4>3
    <3>5. Expand(cur_node') = Append(whole, pc)
      BY <1>0, <3>2, <3>4, ExpandGrows DEF whole
    <3>6. executed' = flat \o Expand(cur_node')
      <4>1. Append(flat \o whole, pc) = (flat \o whole) \o <<pc>> /\ Append(whole, pc) = whole \o <<pc>>
        <5>1. flat \o whole \in Seq(Pc)
          BY <1>1, ConcatProperties
        <5> QED BY <1>1, <2>3, <5>1, AppendIsConcat
      <4>2. (flat \o whole) \o <<pc>> = flat \o (whole \o <<pc>>)
        <5>1. <<pc>> \in Seq(Pc)
          BY <2>3
        <5> QED BY <1>1, <5>1, ConcatAssociative
      <4> QED BY <2>1, <2>4, <3>5, <4>1, <4>2
    <3>7. TraceIsExecution'
      BY <2>2, <2>5, <3>1, <3>6 DEF TraceIsExecution, Parts, flat
    <3>8. Counting'
      <4>1. cur_node'.count - 1 = cur_node.count
        BY <1>0, <3>2
      <4> QED BY <1>0, <2>2, <2>5, <3>2, <3>4, <4>1, ItraceAssumption DEF Counting, BinInv
    <3> QED BY <2>3, <2>5, <3>1, <3>3, <3>7, <3>8 DEF BinInv, BinTypes
  <2> QED BY <2>6, <2>7
<1>5. CASE finalize_itrace_bin
  <2>1. /\ open /\ open' = FALSE /\ UNCHANGED <<executed, cur_node, last_pc>>
        /\ file' = IF cur_node.count > 0 THEN Append(file, cur_node) ELSE file
    BY <1>5 DEF finalize_itrace_bin
  <2>2. file' \in Seq(Node)
    BY <2>1 DEF BinInv, BinTypes
  <2>3. FlattenSeq(Parts(file')) = executed
    <3>1. CASE cur_node.count > 0
      BY <1>0, <1>2, <2>1, <3>1
    <3>2. CASE cur_node.count = 0
      <4>1. flat \o <<>> = flat
        BY <1>1, ConcatEmptySeq
      <4> QED BY <1>0, <1>3, <2>1, <3>2, <4>1 DEF flat
    <3> QED BY <1>0, <3>1, <3>2
  <2>4. executed \o <<>> = executed
    BY <1>0, ConcatEmptySeq
  <2>5. TraceIsExecution'
    BY <2>1, <2>3, <2>4 DEF TraceIsExecution, Parts
  <2> QED BY <2>1, <2>2, <2>5 DEF BinInv, BinTypes, Counting
<1>6. CASE UNCHANGED vars
  BY <1>6 DEF vars, binVars, BinInv, BinTypes, Counting, TraceIsExecution, Expand
<1> QED BY <1>4, <1>5, <1>6 DEF Next

-----------------------------------------------------------------------------
(* What the first n nodes of a file stand for.                             *)
UpTo(f, n) == FlattenSeq(SubSeq(Parts(f), 1, n))

(* One node more.                                                          *)
LEMMA UpToNext ==
    ASSUME NEW f \in Seq(Nodes), NEW q \in Nat, NEW n \in 1 .. Len(f), n = q + 1
    PROVE  /\ UpTo(f, q) \in Seq(Pc)
           /\ UpTo(f, n) = UpTo(f, q) \o Expand(f[n])
<1> DEFINE p == Parts(f)
           ss == SubSeq(p, 1, q)
           tt == SubSeq(p, 1, n)
<1>1. p \in Seq(Seq(Pc)) /\ Len(p) = Len(f) /\ p[n] = Expand(f[n])
  BY PartsTypes
<1>2. Len(f) \in Nat /\ n \in Nat /\ n \in 1 .. n /\ \A k \in 1 .. q : k \in 1 .. n
  OBVIOUS
<1> HIDE DEF p
<1>3. \A k \in 1 .. n : p[k] \in Seq(Pc)
  BY <1>1, <1>2
<1>4. ss \in Seq(Seq(Pc)) /\ Len(ss) = q /\ \A k \in 1 .. q : ss[k] = p[k]
  <2>1. \A k \in 1 .. q : p[k] \in Seq(Pc)
    BY <1>2, <1>3
  <2>2. /\ ss \in Seq(Seq(Pc))
        /\ Len(ss) = IF 1 <= q THEN q - 1 + 1 ELSE 0
        /\ \A k \in 1 .. q - 1 + 1 : ss[k] = p[1 + k - 1]
    BY <1>2, <2>1, SubSeqProperties
  <2> HIDE DEF ss
  <2>3. q - 1 + 1 = q /\ (IF 1 <= q THEN q - 1 + 1 ELSE 0) = q
        /\ \A k \in 1 .. q : 1 + k - 1 = k
    OBVIOUS
  <2> QED BY <2>2, <2>3
<1>5. tt \in Seq(Seq(Pc)) /\ Len(tt) = n /\ \A k \in 1 .. n : tt[k] = p[k]
  <2>2. /\ tt \in Seq(Seq(Pc))
        /\ Len(tt) = IF 1 <= n THEN n - 1 + 1 ELSE 0
        /\ \A k \in 1 .. n - 1 + 1 : tt[k] = p[1 + k - 1]
    BY <1>2, <1>3, SubSeqProperties
  <2> HIDE DEF tt
  <2>3. n - 1 + 1 = n /\ (IF 1 <= n THEN n - 1 + 1 ELSE 0) = n
        /\ \A k \in 1 .. n : 1 + k - 1 = k
    BY <1>2
  <2> QED BY <2>2, <2>3
<1> HIDE DEF ss, tt
<1>6. tt[n] = Expand(f[n])
  BY <1>1, <1>2, <1>5
<1>7. SameUpTo(q, ss, tt)
  BY <1>2, <1>4, <1>5, Zenon DEF SameUpTo
<1>8. FlattenSeq(ss) \in Seq(Pc) /\ Adds(ss, tt, n)
  BY <1>2, <1>4, <1>5, <1>7, FlatOneMore
<1> QED BY <1>6, <1>8 DEF Adds, UpTo, p, ss, tt

(* Nothing at first, and everything in the end.                            *)
LEMMA UpToEnds ==
    ASSUME NEW f \in Seq(Nodes)
    PROVE  /\ UpTo(f, 0) = <<>> /\ UpTo(f, Len(f)) = FlattenSeq(Parts(f))
           /\ \A n \in 0 .. Len(f) : UpTo(f, n) \in Seq(Pc)
<1>1. SubSeq(Parts(f), 1, 0) = <<>>
  BY SubSeqEmpty
<1>2. UpTo(f, 0) = <<>>
  BY <1>1 DEF UpTo, FlattenSeq
<1>3. UpTo(f, Len(f)) = FlattenSeq(Parts(f))
  BY PartsTypes, SubSeqFull DEF UpTo
<1>4. ASSUME NEW n \in 0 .. Len(f) PROVE UpTo(f, n) \in Seq(Pc)
  <2>1. CASE n = 0
    <3>1. <<>> \in Seq(Pc)
      BY EmptySeq
    <3> QED BY <1>2, <2>1, <3>1, Zenon
  <2>2. CASE n # 0
    <3>1. n \in 1 .. Len(f) /\ f[n] \in Nodes
      BY <2>2
    <3>2. PICK q \in Nat : n = q + 1
      BY <3>1
    <3>3. UpTo(f, q) \in Seq(Pc) /\ Expand(f[n]) \in Seq(Pc) /\ UpTo(f, n) = UpTo(f, q) \o Expand(f[n])
      BY <3>1, <3>2, UpToNext, ExpandTypes
    <3>4. \A s, t \in Seq(Pc) : s \o t \in Seq(Pc)
      BY ConcatProperties
    <3>5. UpTo(f, q) \o Expand(f[n]) \in Seq(Pc)
      BY <3>3, <3>4
    <3> QED BY ONLY <3>3, <3>5
  <2> QED BY <2>1, <2>2
<1> QED BY <1>2, <1>3, <1>4

(* What fewer nodes stand for is a beginning of what more stand for.       *)
Begins(s, t) == Len(s) <= Len(t) /\ SameUpTo(Len(s), s, t)

(* Each is a beginning of the next, and so of the whole.                   *)
LEMMA UpToBegins ==
    ASSUME NEW f \in Seq(Nodes), NEW m \in 0 .. Len(f)
    PROVE  Begins(UpTo(f, m), UpTo(f, Len(f)))
<1> DEFINE T == {n \in m .. Len(f) : ~Begins(UpTo(f, m), UpTo(f, n))}
<1>0. Len(f) \in Nat /\ m \in Nat /\ Len(f) \in m .. Len(f)
  OBVIOUS
<1> SUFFICES ASSUME T # {} PROVE FALSE
  BY <1>0
<1>1. PICK n \in T : \A k \in T : n <= k
  <2>1. T \subseteq Nat
    BY <1>0
  <2> HIDE DEF T
  <2> QED BY <2>1, LeastNatural
<1>2. n \in m .. Len(f) /\ ~Begins(UpTo(f, m), UpTo(f, n))
  BY <1>1
<1>3. Len(UpTo(f, m)) \in Nat
  BY <1>0, UpToEnds, LenProperties
<1>4. n # m
  BY <1>2, <1>3 DEF Begins, SameUpTo
<1>5. n \in 1 .. Len(f) /\ n - 1 \in m .. Len(f) /\ n - 1 \in 0 .. Len(f) /\ ~(n <= n - 1)
  BY <1>0, <1>2, <1>4
<1>6. PICK q \in Nat : n = q + 1 /\ q = n - 1
  BY <1>5
<1>10. Begins(UpTo(f, m), UpTo(f, q)) /\ q \in 0 .. Len(f)
  BY <1>1, <1>5, <1>6
<1>7. /\ UpTo(f, q) \in Seq(Pc) /\ Expand(f[n]) \in Seq(Pc)
      /\ UpTo(f, n) = UpTo(f, q) \o Expand(f[n])
  <2>1. f[n] \in Nodes
    BY <1>5
  <2> QED BY <1>5, <1>6, <2>1, UpToNext, ExpandTypes
<1>8. Begins(UpTo(f, q), UpTo(f, n))
  <2> DEFINE s == UpTo(f, q)
             t == Expand(f[n])
  <2> HIDE DEF s, t
  <2>1. /\ Len(s \o t) = Len(s) + Len(t) /\ Len(s) \in Nat /\ Len(t) \in Nat
        /\ \A k \in 1 .. Len(s) + Len(t) : (s \o t)[k] = IF k <= Len(s) THEN s[k] ELSE t[k - Len(s)]
    BY <1>7, ConcatProperties, LenProperties DEF s, t
  <2>2. Begins(s, s \o t)
    BY <2>1 DEF Begins, SameUpTo
  <2> QED BY <1>7, <2>2 DEF s, t
<1>9. Begins(UpTo(f, m), UpTo(f, n))
  <2>1. Len(UpTo(f, q)) \in Nat /\ Len(UpTo(f, n)) \in Nat
    BY <1>0, <1>2, <1>10, UpToEnds, LenProperties
  <2> QED BY <1>3, <1>8, <1>10, <2>1 DEF Begins, SameUpTo
<1> QED BY <1>2, <1>9

(* Where the loop of main has got to: it has read what the nodes before    *)
(* this one stand for, and i instructions of this one.                     *)
Reading == /\ node \in 1 .. Len(file) + 1 /\ i \in Nat /\ total_access \in Nat
           /\ open => node = 1 /\ i = 0 /\ total_access = 0
           /\ total_access = Len(UpTo(file, node - 1)) + i
           /\ node <= Len(file) => i <= file[node].count
           /\ node > Len(file) => i = 0

(* Its next instruction is the next one that was executed.                 *)
LEMMA ReadsNext ==
    ASSUME BinInv, Reading, ~open, node <= Len(file), i < file[node].count
    PROVE  /\ total_access + 1 \in 1 .. Len(executed)
           /\ (file[node].start_pc + i * 4) % PcSpace = executed[total_access + 1]
<1>1. /\ file \in Seq(Nodes) /\ Len(file) \in Nat /\ node \in 1 .. Len(file) /\ node - 1 \in 0 .. Len(file)
      /\ file[node] \in Nodes /\ file[node].count \in Nat /\ file[node].start_pc \in Nat
  <2>1. file \in Seq(Nodes) /\ Len(file) \in Nat /\ node \in 1 .. Len(file)
    BY NodesOfAnyCount DEF BinInv, BinTypes, Reading
  <2>2. file[node] \in Nodes
    BY <2>1
  <2> QED BY <2>1, <2>2, ItraceAssumption DEF Nodes, Pc
<1>2. executed = UpTo(file, Len(file))
  <2>1. FlattenSeq(Parts(file)) \in Seq(Pc)
    BY <1>1, UpToEnds
  <2>2. executed = FlattenSeq(Parts(file)) \o <<>>
    BY TraceIs DEF BinInv
  <2> QED BY <1>1, <2>1, <2>2, ConcatEmptySeq, UpToEnds
<1> DEFINE before == UpTo(file, node - 1)
           reached == Expand(file[node])
           upto == UpTo(file, node)
<1>a. PICK q \in Nat : node = q + 1 /\ q = node - 1
  BY <1>1
<1>3. before \in Seq(Pc) /\ reached \in Seq(Pc) /\ Len(reached) = file[node].count /\ upto = before \o reached
  BY <1>1, <1>a, UpToNext, ExpandTypes
<1>4. reached[i + 1] = (file[node].start_pc + 4 * ((i + 1) - 1)) % PcSpace /\ i + 1 \in 1 .. Len(reached)
  <2>1. i + 1 \in 1 .. file[node].count
    BY <1>1 DEF Reading
  <2> QED BY <1>1, <1>3, <2>1, ExpandTypes
<1>5. Begins(upto, executed)
  BY <1>1, <1>2, UpToBegins
<1> HIDE DEF before, reached, upto
<1>6. /\ Len(upto) = Len(before) + Len(reached) /\ Len(before) \in Nat /\ Len(reached) \in Nat
      /\ \A k \in 1 .. Len(before) + Len(reached) :
             upto[k] = IF k <= Len(before) THEN before[k] ELSE reached[k - Len(before)]
  BY <1>3, ConcatProperties, LenProperties
<1>7. total_access = Len(before) + i /\ i \in Nat
  BY DEF Reading, before
<1>8. total_access + 1 \in 1 .. Len(upto) /\ ~(total_access + 1 <= Len(before))
      /\ total_access + 1 - Len(before) = i + 1
  BY <1>4, <1>6, <1>7
<1>9. upto[total_access + 1] = reached[i + 1]
  <2>1. PICK p \in 1 .. Len(before) + Len(reached) : p = total_access + 1 /\ p - Len(before) = i + 1
    <3>1. total_access + 1 \in 1 .. Len(before) + Len(reached)
      BY <1>6, <1>8
    <3>2. \E p : p = total_access + 1
      OBVIOUS
    <3> QED BY <1>6, <1>7, <1>8, <3>1, <3>2
  <2>2. upto[p] = reached[p - Len(before)]
    BY <1>6, <1>8, <2>1
  <2> QED BY <2>1, <2>2
<1>10. upto[total_access + 1] = executed[total_access + 1] /\ Len(upto) <= Len(executed)
  BY <1>5, <1>8 DEF Begins, SameUpTo
<1>11. i * 4 = 4 * ((i + 1) - 1)
  BY <1>7
<1>12. Len(executed) \in Nat
  BY LenProperties DEF BinInv, BinTypes
<1> QED BY <1>4, <1>6, <1>8, <1>9, <1>10, <1>11, <1>12


-----------------------------------------------------------------------------
(* What hit_count is the number of.                                        *)
HitsCounted == hit_count = Cardinality({k \in 1 .. total_access : LruHit(k)})

(* The invariant of the simulator and of the trace it reads.               *)
SimInv == BinInv /\ Reading /\ Lru /\ HitsCounted

(* It holds before anything is written.                                    *)
LEMMA SimStarts == SimInit => SimInv
<1> SUFFICES ASSUME SimInit PROVE SimInv
  OBVIOUS
<1>1. BinInv
  BY BinInit DEF SimInit
<1>2. /\ executed = <<>> /\ file = <<>> /\ open = TRUE /\ node = 1 /\ i = 0
      /\ total_access = 0 /\ hit_count = 0 /\ timer = 0
      /\ lines = [s \in Sets |-> [w \in Way |-> [valid |-> FALSE, tag |-> 0, last_use_time |-> 0]]]
  BY DEF SimInit, Init, init_cache, Sets
<1>3. Reading
  <2>1. UpTo(file, node - 1) = <<>>
    <3>1. file \in Seq(Nodes) /\ node - 1 = 0
      BY <1>2
    <3> QED BY <3>1, UpToEnds
  <2>2. Len(<<>>) = 0
    OBVIOUS
  <2> QED BY <1>2, <2>1, <2>2 DEF Reading
<1>4. Lru
  <2>1. \A s \in Sets, w \in Way : ~lines[s][w].valid /\ lines[s][w].last_use_time = 0
    BY <1>2
  <2>2. LruTypes
    BY <1>2 DEF LruTypes, Line
  <2> QED BY <1>2, <2>1, <2>2 DEF Lru, Holds, Apart
<1>5. HitsCounted
  <2>1. {k \in 1 .. total_access : LruHit(k)} = {}
    BY <1>2
  <2> QED BY <1>2, <2>1, FS_EmptySet DEF HitsCounted
<1> QED BY <1>1, <1>3, <1>4, <1>5 DEF SimInv

(* A node of the file counts from zero up.                                 *)
LEMMA CountsAreNatural ==
    ASSUME NEW f \in Seq(Nodes)
    PROVE  \A k \in 1 .. Len(f) : 0 <= f[k].count
<1>1. \A k \in 1 .. Len(f) : f[k] \in Nodes
  OBVIOUS
<1>2. \A nd \in Nodes : 0 <= nd.count
  BY DEF Nodes
<1> QED BY <1>1, <1>2

(* While the trace is being written nothing has been read.                 *)
LEMMA WritingStep ==
    ASSUME SimInv, BinInv', open, UNCHANGED simVars,
           file' \in {file, Append(file, cur_node)}
    PROVE  SimInv'
<1>1. /\ node = 1 /\ i = 0 /\ total_access = 0 /\ timer = 0 /\ hit_count = 0
      /\ UNCHANGED <<lines, total_access, hit_count, timer, node, i>>
  <2>1. node = 1 /\ i = 0 /\ total_access = 0 /\ timer = 0
    BY DEF SimInv, Reading, Lru, LruTypes
  <2>2. {k \in 1 .. total_access : LruHit(k)} = {}
    BY <2>1
  <2> QED BY <2>1, <2>2, FS_EmptySet DEF SimInv, HitsCounted, simVars
<1>2. Reading'
  <2>1. file' \in Seq(Nodes) /\ Len(file') \in Nat
    BY NodesOfAnyCount DEF BinInv, BinTypes
  <2>2. UpTo(file', 0) = <<>> /\ Len(<<>>) = 0
    BY <2>1, UpToEnds
  <2>3. \A k \in 1 .. Len(file') : 0 <= file'[k].count
    BY <2>1, CountsAreNatural
  <2>4. node' = 1 /\ i' = 0 /\ total_access' = 0 /\ node' - 1 = 0
    BY <1>1
  <2>5. UpTo(file, node - 1)' = <<>>
    BY <2>2, <2>4 DEF UpTo, Parts, Expand
  <2> QED BY <2>1, <2>2, <2>3, <2>4, <2>5 DEF Reading
<1>3. Lru'
  <2>1. \A s \in Sets, w \in Way : ~lines[s][w].valid /\ lines[s][w].last_use_time = 0
    BY <1>1, LineFacts DEF SimInv
  <2>2. executed' \in Seq(Nat) /\ Len(executed') \in Nat
    <3>1. Pc \subseteq Nat
      BY ItraceAssumption DEF Pc
    <3>2. executed' \in Seq(Pc)
      BY DEF BinInv, BinTypes
    <3> QED BY <3>1, <3>2, SeqMonotonic, LenProperties
  <2>3. LruTypes'
    BY <1>1, <2>2 DEF SimInv, Lru, LruTypes
  <2> QED BY <1>1, <2>1, <2>3 DEF Lru, Holds, Apart
<1>4. HitsCounted'
  <2>1. {k \in 1 .. total_access' : LruHit(k)'} = {}
    BY <1>1
  <2> QED BY <1>1, <2>1, FS_EmptySet DEF HitsCounted
<1> QED BY <1>2, <1>3, <1>4 DEF SimInv

(* An access reads the next instruction executed.                          *)
LEMMA AccessStep ==
    ASSUME SimInv, AccessNode
    PROVE  SimInv'
<1> DEFINE n == total_access + 1
<1>1. /\ ~open /\ node <= Len(file) /\ i < file[node].count
      /\ access_cache((file[node].start_pc + i * 4) % PcSpace)
      /\ i' = i + 1 /\ UNCHANGED <<executed, file, open, cur_node, last_pc, node>>
  BY DEF AccessNode, vars, binVars
<1>2. n \in 1 .. Len(executed) /\ (file[node].start_pc + i * 4) % PcSpace = executed[n]
  BY <1>1, ReadsNext DEF SimInv
<1>3. /\ Lru' /\ total_access' = n
      /\ hit_count' = IF LruHit(n) THEN hit_count + 1 ELSE hit_count
  BY <1>1, <1>2, AccessKeepsLru DEF SimInv
<1>4. BinInv'
  BY <1>1 DEF SimInv, BinInv, BinTypes, Counting, TraceIsExecution, Expand
<1>5. Reading'
  <2>1. /\ node \in 1 .. Len(file) + 1 /\ i \in Nat /\ total_access \in Nat
        /\ total_access = Len(UpTo(file, node - 1)) + i
    BY DEF SimInv, Reading
  <2>2. UpTo(file, node - 1)' = UpTo(file, node - 1)
    BY <1>1 DEF UpTo, Parts, Expand
  <2>3. Len(file) \in Nat /\ Len(UpTo(file, node - 1)) \in Nat /\ file[node].count \in Nat
    <3>1. file \in Seq(Nodes) /\ Len(file) \in Nat
      BY NodesOfAnyCount DEF SimInv, BinInv, BinTypes
    <3>2. node - 1 \in 0 .. Len(file) /\ node \in 1 .. Len(file)
      BY <1>1, <2>1, <3>1
    <3>3. file[node] \in Nodes
      BY <3>1, <3>2
    <3>4. \A k \in 0 .. Len(file) : Len(UpTo(file, k)) \in Nat
      BY <3>1, UpToEnds, LenProperties
    <3> QED BY <3>1, <3>2, <3>3, <3>4 DEF Nodes
  <2> QED BY <1>1, <1>3, <2>1, <2>2, <2>3 DEF Reading
<1>6. HitsCounted'
  <2> DEFINE S == {k \in 1 .. total_access : LruHit(k)}
             N == {k \in 1 .. n : LruHit(k)}
  <2>1. total_access \in Nat /\ hit_count = Cardinality(S)
    BY DEF SimInv, Reading, HitsCounted
  <2>2. IsFiniteSet(S)
    <3>1. IsFiniteSet(1 .. total_access)
      BY <2>1, FS_Interval
    <3> QED BY <3>1, FS_Subset
  <2>3. N = IF LruHit(n) THEN S \cup {n} ELSE S
    <3>1. \A k : k \in 1 .. n <=> k \in 1 .. total_access \/ k = n
      BY <2>1
    <3> QED BY <3>1
  <2>4. n \notin S
    BY <2>1
  <2>5. Cardinality(N) = IF LruHit(n) THEN Cardinality(S) + 1 ELSE Cardinality(S)
    <3> HIDE DEF S, N
    <3>1. Cardinality(S \cup {n}) = Cardinality(S) + 1
      BY <2>2, <2>4, FS_AddElement
    <3> QED BY <2>3, <3>1
  <2>6. {k \in 1 .. total_access : LruHit(k)}' = N
    BY <1>1, <1>3 DEF LruHit, SameSet, block
  <2> QED BY <1>3, <2>1, <2>5, <2>6 DEF HitsCounted
<1> QED BY <1>3, <1>4, <1>5, <1>6 DEF SimInv

(* A node read to its end has added all it stands for.                     *)
LEMMA NextNodeStep ==
    ASSUME SimInv, NextNode
    PROVE  SimInv'
<1>1. /\ ~open /\ node <= Len(file) /\ i = file[node].count /\ node' = node + 1 /\ i' = 0
      /\ UNCHANGED <<executed, file, open, cur_node, last_pc, lines, total_access, hit_count, timer>>
  BY DEF NextNode, vars, binVars
<1>2. BinInv'
  BY <1>1 DEF SimInv, BinInv, BinTypes, Counting, TraceIsExecution, Expand
<1>3. Lru'
  BY <1>1 DEF SimInv, Lru, LruTypes, Holds, Apart, Remembered, DrivenOut, LastUse, block, index
<1>4. HitsCounted'
  BY <1>1 DEF SimInv, HitsCounted, LruHit, SameSet, block
<1>5. Reading'
  <2>1. /\ node \in 1 .. Len(file) /\ Len(file) \in Nat /\ total_access \in Nat /\ file \in Seq(Nodes)
        /\ total_access = Len(UpTo(file, node - 1)) + i
    <3>1. file \in Seq(Nodes) /\ Len(file) \in Nat
      BY NodesOfAnyCount DEF SimInv, BinInv, BinTypes
    <3> QED BY <1>1, <3>1 DEF SimInv, Reading
  <2>2. PICK q \in Nat : node = q + 1 /\ q = node - 1
    BY <2>1
  <2>3. file[node] \in Nodes /\ Len(Expand(file[node])) = file[node].count
    BY <2>1, ExpandTypes
  <2>4. /\ UpTo(file, q) \in Seq(Pc) /\ Expand(file[node]) \in Seq(Pc)
        /\ UpTo(file, node) = UpTo(file, q) \o Expand(file[node])
    BY <2>1, <2>2, <2>3, UpToNext, ExpandTypes
  <2>5. Len(UpTo(file, node)) = Len(UpTo(file, q)) + Len(Expand(file[node]))
    <3>1. \A s, t \in Seq(Pc) : Len(s \o t) = Len(s) + Len(t)
      BY ConcatProperties
    <3>2. Len(UpTo(file, q) \o Expand(file[node])) = Len(UpTo(file, q)) + Len(Expand(file[node]))
      BY <2>4, <3>1
    <3> QED BY <2>4, <3>2, Zenon
  <2>6. UpTo(file, node - 1)' = UpTo(file, node)
    <3>1. node' - 1 = node
      BY <1>1, <2>1
    <3> QED BY <1>1, <3>1 DEF UpTo, Parts, Expand
  <2>7. total_access' = Len(UpTo(file, node - 1)') + i'
    <3>1. total_access = Len(UpTo(file, q)) + i /\ Len(UpTo(file, q)) \in Nat
      BY <2>1, <2>2, <2>4, LenProperties
    <3> QED BY <1>1, <2>3, <2>5, <2>6, <3>1
  <2>8. \A k \in 1 .. Len(file) : 0 <= file[k].count
    BY <2>1, CountsAreNatural
  <2> QED BY <1>1, <2>1, <2>7, <2>8 DEF Reading
<1> QED BY <1>2, <1>3, <1>4, <1>5 DEF SimInv

(* From the running program to the printed miss rate: the trace is the     *)
(* program, and the simulator counts the hits of an LRU cache on it, for   *)
(* every geometry, address space, ring buffer and sequence of jumps.       *)
THEOREM TraceIsReplayed == SimSpec => []TraceReplayed
<1>1. SimInit => SimInv /\ RingInv
  BY SimStarts, RingInit DEF SimInit
<1>2. SimInv /\ RingInv /\ [SimNext]_allVars => SimInv' /\ RingInv'
  <2> SUFFICES ASSUME SimInv, RingInv, [SimNext]_allVars PROVE SimInv' /\ RingInv'
    OBVIOUS
  <2>1. [Next]_vars
    BY DEF SimNext, Next, AccessNode, NextNode, allVars
  <2>2. BinInv' /\ RingInv'
    BY <2>1, BinStep, RingStep DEF SimInv
  <2>3. CASE (exec_once \/ finalize_itrace_bin) /\ UNCHANGED simVars
    <3>1. open /\ file' \in {file, Append(file, cur_node)}
      BY <2>3 DEF exec_once, finalize_itrace_bin, itrace_bin_record
    <3> QED BY <2>2, <2>3, <3>1, WritingStep
  <2>4. CASE UNCHANGED allVars
    <3>1. UNCHANGED <<lines, total_access, hit_count, timer, node, i, executed, file, open>>
      BY <2>4 DEF allVars, simVars, vars, binVars
    <3>2. Reading'
      BY <3>1 DEF SimInv, Reading, UpTo, Parts, Expand
    <3>3. Lru'
      BY <3>1 DEF SimInv, Lru, LruTypes, Holds, Apart, Remembered, DrivenOut, LastUse, block, index
    <3>4. HitsCounted'
      BY <3>1 DEF SimInv, HitsCounted, LruHit, SameSet, block
    <3> QED BY <2>2, <3>2, <3>3, <3>4 DEF SimInv
  <2> QED BY <2>2, <2>3, <2>4, AccessStep, NextNodeStep DEF SimNext
<1>3. SimInv /\ RingInv => TraceReplayed
  <2> SUFFICES ASSUME SimInv, RingInv PROVE TraceReplayed
    OBVIOUS
  <2>1. TypeOK
    BY DEF SimInv, BinInv, BinTypes, RingInv, Types, TypeOK
  <2>2. ~open /\ node > Len(file) => total_access = Len(executed)
    <3> SUFFICES ASSUME ~open, node > Len(file) PROVE total_access = Len(executed)
      OBVIOUS
    <3>1. file \in Seq(Nodes) /\ Len(file) \in Nat
      BY NodesOfAnyCount DEF SimInv, BinInv, BinTypes
    <3>2. i = 0 /\ node - 1 = Len(file) /\ total_access = Len(UpTo(file, node - 1)) + i /\ total_access \in Nat
      BY <3>1 DEF SimInv, Reading
    <3>3. FlattenSeq(Parts(file)) \in Seq(Pc) /\ UpTo(file, Len(file)) = FlattenSeq(Parts(file))
      BY <3>1, UpToEnds
    <3>4. executed = FlattenSeq(Parts(file)) \o <<>>
      BY TraceIs DEF SimInv, BinInv
    <3>5. executed = FlattenSeq(Parts(file))
      BY <3>3, <3>4, ConcatEmptySeq
    <3>6. Len(FlattenSeq(Parts(file))) \in Nat
      BY <3>3, LenProperties
    <3> QED BY <3>2, <3>3, <3>5, <3>6
  <2> QED BY <2>1, <2>2 DEF TraceReplayed, HitsAreLruHits, HitsCounted, SimInv, BinInv
<1> QED BY <1>1, <1>2, <1>3, PTL DEF SimSpec

-----------------------------------------------------------------------------
(***************************************************************************)
(* The function trace against the real stack, for every set of functions.  *)
(* The invariant relates each jump on the list to the frame it entered; one *)
(* ret undoes exactly the jumps above the newest call, which is the longest *)
(* chain of targets and origins on the list.                               *)
(***************************************************************************)

(* A nonempty set of numbers up to n has a greatest element, its maximum.  *)
LEMMA GreatestIsMax ==
    ASSUME NEW n \in Nat, NEW T, T \subseteq 0 .. n, T # {}
    PROVE  Max(T) \in T /\ \A y \in T : y <= Max(T)
<1> DEFINE D == {d \in 0 .. n : n - d \in T}
<1>1. D \subseteq Nat /\ D # {}
  <2>1. PICK y \in T : TRUE
    OBVIOUS
  <2>2. n - y \in D
    OBVIOUS
  <2>3. D \subseteq Nat
    OBVIOUS
  <2> QED BY <2>2, <2>3
<1>2. PICK d \in D : \A x \in D : d <= x
  <2> HIDE DEF D
  <2> QED BY <1>1, LeastNatural
<1>3. n - d \in T /\ \A y \in T : n - d >= y
  <2> SUFFICES ASSUME NEW y \in T PROVE n - d >= y
    OBVIOUS
  <2>1. n - y \in D
    OBVIOUS
  <2>2. d <= n - y
    BY <1>2, <2>1
  <2> QED BY <2>2
<1>4. Max(T) \in T /\ \A y \in T : Max(T) >= y
  BY <1>3, Zenon DEF Max
<1> QED BY <1>4

-----------------------------------------------------------------------------
(* The frames entered by a call; each, and the jumps on the list.          *)
Frame == [fn : Function, jumped : BOOLEAN]
Jump == [pc : Address, depend : Address]
Called(fr) == {k \in DOMAIN fr : ~fr[k].jumped}

(* There are finitely many.                                                *)
LEMMA CalledFinite ==
    ASSUME NEW fr \in Seq(Frame)
    PROVE  IsFiniteSet(Called(fr)) /\ Cardinality(Called(fr)) \in Nat
<1>1. Called(fr) \subseteq 1 .. Len(fr) /\ IsFiniteSet(1 .. Len(fr))
  <2>1. Len(fr) \in Nat /\ DOMAIN fr = 1 .. Len(fr)
    OBVIOUS
  <2>2. IsFiniteSet(1 .. Len(fr))
    BY <2>1, FS_Interval
  <2> QED BY <2>1, <2>2 DEF Called
<1> QED BY <1>1, FS_Subset, FS_CardinalityType

(* A call adds one, a jump none.                                           *)
LEMMA CalledAppend ==
    ASSUME NEW fr \in Seq(Frame), NEW x \in Frame
    PROVE  Cardinality(Called(Append(fr, x))) =
               IF x.jumped THEN Cardinality(Called(fr)) ELSE Cardinality(Called(fr)) + 1
<1> DEFINE n == Len(fr) + 1
<1>1. n \notin Called(fr) /\ n \in Nat
  BY DEF Called
<1>2. Called(Append(fr, x)) = IF x.jumped THEN Called(fr) ELSE Called(fr) \cup {n}
  BY DEF Called
<1> HIDE DEF n
<1> QED BY <1>1, <1>2, CalledFinite, FS_AddElement

(* The first three frames were called, so at least three were.             *)
BootCalled == /\ Len(frames) >= 1
              /\ \A k \in DOMAIN frames : k <= 3 => ~frames[k].jumped

LEMMA BootCounts ==
    ASSUME NEW fr \in Seq(Frame), Len(fr) >= 3, \A k \in 1 .. 3 : ~fr[k].jumped
    PROVE  Cardinality(Called(fr)) >= 3
<1>1. PICK n \in Nat : n = 3
  OBVIOUS
<1>2. 1 .. n \subseteq Called(fr)
  BY <1>1 DEF Called
<1>3. Cardinality(1 .. n) = n
  <2>1. 1 \in Int /\ n \in Int
    BY <1>1
  <2>2. Cardinality(1 .. n) = IF 1 > n THEN 0 ELSE n - 1 + 1
    BY <2>1, FS_Interval, Zenon
  <2> QED BY <1>1, <2>2
<1>4. Cardinality(1 .. n) <= Cardinality(Called(fr))
  BY <1>2, CalledFinite, FS_Subset
<1> QED BY <1>1, <1>3, <1>4, CalledFinite

(* Frame c + 1 is the newest that was called.                              *)
NewestCall(fr, c) == c + 1 \in Called(fr) /\ \A k \in DOMAIN fr : k > c + 1 => fr[k].jumped

(* A ret leaves it and all above it.                                       *)
LEMMA CallerIs ==
    ASSUME frames \in Seq(Frame), CallerAt >= 3, NEW c, c = CallerAt
    PROVE  c \in Nat /\ NewestCall(frames, c)
<1> DEFINE T == {0} \cup Called(frames)
<1>1. Len(frames) \in Nat /\ DOMAIN frames = 1 .. Len(frames)
  OBVIOUS
<1>2. T \subseteq 0 .. Len(frames) /\ T # {}
  BY <1>1 DEF Called
<1>3. Max(T) \in T /\ \A y \in T : y <= Max(T)
  <2> HIDE DEF T
  <2> QED BY <1>1, <1>2, GreatestIsMax
<1>4. CallerAt = Max(T) - 1
  BY DEF CallerAt, Called
<1> HIDE DEF T
<1>5. PICK m \in T : m = Max(T) /\ m \in 0 .. Len(frames) /\ c = m - 1
  BY <1>2, <1>3, <1>4
<1>6. m # 0 /\ c \in Nat /\ c + 1 = m
  BY <1>5
<1>7. m \in Called(frames)
  BY <1>5, <1>6 DEF T
<1>8. \A k \in DOMAIN frames : k > m => frames[k].jumped
  <2> SUFFICES ASSUME NEW k \in DOMAIN frames, k > m, ~frames[k].jumped PROVE FALSE
    OBVIOUS
  <2>1. k \in T
    BY DEF T, Called
  <2>2. k <= m
    BY <1>3, <1>5, <2>1
  <2> QED BY <1>1, <1>5, <2>2
<1> QED BY <1>6, <1>7, <1>8 DEF NewestCall

(* Which takes one from those called.                                      *)
LEMMA CalledReturn ==
    ASSUME NEW fr \in Seq(Frame), NEW c \in Nat, NewestCall(fr, c)
    PROVE  /\ SubSeq(fr, 1, c) \in Seq(Frame) /\ Len(SubSeq(fr, 1, c)) = c /\ c < Len(fr)
           /\ \A k \in 1 .. c : SubSeq(fr, 1, c)[k] = fr[k]
           /\ Cardinality(Called(SubSeq(fr, 1, c))) = Cardinality(Called(fr)) - 1
<1> DEFINE s == SubSeq(fr, 1, c)
<1>1. Len(fr) \in Nat /\ DOMAIN fr = 1 .. Len(fr) /\ c + 1 \in 1 .. Len(fr)
  BY DEF Called, NewestCall
<1>2. s \in Seq(Frame) /\ Len(s) = c /\ \A k \in 1 .. c : s[k] = fr[k]
  <2>1. \A k \in 1 .. c : fr[k] \in Frame
    BY <1>1
  <2> QED BY <1>1, <2>1, SubSeqProperties
<1> HIDE DEF s
<1>3. Called(s) = Called(fr) \ {c + 1}
  <2>1. DOMAIN s = 1 .. c
    BY <1>2
  <2>2. \A k \in 1 .. c : k \in DOMAIN fr /\ k # c + 1
    BY <1>1
  <2>3. \A k \in DOMAIN fr : k \in 1 .. c \/ k = c + 1 \/ k > c + 1
    BY <1>1
  <2> QED BY <1>2, <2>1, <2>2, <2>3 DEF Called, NewestCall
<1>4. Cardinality(Called(fr) \ {c + 1}) = Cardinality(Called(fr)) - 1
  BY CalledFinite, FS_RemoveElement DEF NewestCall
<1>5. c < Len(fr) /\ Cardinality(Called(s)) = Cardinality(Called(fr)) - 1
  BY <1>1, <1>3, <1>4
<1> QED BY <1>2, <1>5, Zenon DEF s

-----------------------------------------------------------------------------
(* A ret undoes the j-th jump when its target is where the ret is, or      *)
(* where the jump undone before it came from.                              *)
Undone(pc, list, j) == find_symbol_func(list[j].depend, TRUE)
                           = find_symbol_func(IF j = 1 THEN pc ELSE list[j - 1].pc, FALSE)

(* It undoes the longest such chain.                                       *)
LEMMA ReturnedIs ==
    ASSUME NEW pc, NEW depth \in Nat, NEW list \in Seq(Jump), NEW n, n = Returned(pc, depth, list)
    PROVE  /\ n \in 0 .. Len(list)
           /\ \A j \in 1 .. n : depth > j + 1 /\ Undone(pc, list, j)
           /\ \A m \in 0 .. Len(list) : (\A j \in 1 .. m : depth > j + 1 /\ Undone(pc, list, j)) => m <= n
<1> DEFINE T == {m \in 0 .. Len(list) : \A j \in 1 .. m : depth > j + 1 /\ Undone(pc, list, j)}
<1>1. Len(list) \in Nat /\ T \subseteq 0 .. Len(list)
  OBVIOUS
<1>2. 0 \in T
  BY <1>1
<1>3. n = Max(T)
  BY DEF Returned, Undone
<1>4. Max(T) \in T /\ \A y \in T : y <= Max(T)
  <2> HIDE DEF T
  <2> QED BY <1>1, <1>2, GreatestIsMax
<1> QED BY <1>3, <1>4

-----------------------------------------------------------------------------
(* The inductive invariant.  While nothing disturbs the trace, the list is *)
(* the jumps of the real stack: at[e] is the frame that its e-th jump      *)
(* entered, newest first, each from the frame below it.                    *)
Pending(at, list, fr) ==
    /\ at \in [DOMAIN list -> DOMAIN fr]
    /\ \A e \in DOMAIN list : /\ fr[at[e]].jumped /\ at[e] > 1
                              /\ list[e].pc = <<fr[at[e] - 1].fn, FALSE>>
                              /\ list[e].depend = <<fr[at[e]].fn, TRUE>>
    /\ \A k \in DOMAIN fr : fr[k].jumped => \E e \in DOMAIN list : at[e] = k
    /\ \A d, e \in DOMAIN list : d < e => at[d] > at[e]
Listed(list, fr) == \E at \in [DOMAIN list -> DOMAIN fr] : Pending(at, list, fr)
Distinct(fr) == \A k, l \in DOMAIN fr : fr[k].fn = fr[l].fn => k = l

CallsInv == /\ CallsTypeOK /\ BootCalled /\ CallsBalance /\ IndentIsNesting
            /\ plain => Distinct(frames) /\ Listed(tail_rec, frames)

(* Only _start runs at first.                                              *)
LEMMA CallsStart == CallsInit => CallsInv
<1> SUFFICES ASSUME CallsInit PROVE CallsInv
  OBVIOUS
<1>1. /\ call_depth = 0 /\ tail_rec = <<>> /\ jumps = 0 /\ plain = TRUE
      /\ frames = <<[fn |-> "_start", jumped |-> FALSE]>>
  BY DEF CallsInit, Boot
<1>2. frames \in Seq(Frame) /\ Len(frames) = 1 /\ DOMAIN frames = {1} /\ ~frames[1].jumped
  BY <1>1 DEF Frame, Function
<1>3. CallsTypeOK
  BY <1>1, <1>2, FtraceAssumption DEF CallsTypeOK, Frame
<1>4. BootCalled
  BY <1>2 DEF BootCalled
<1>5. CallsBalance
  <2>1. {k \in DOMAIN frames : ~frames[k].jumped} = {1}
    BY <1>2
  <2>2. Cardinality({1}) = 1
    BY FS_Singleton
  <2>3. call_depth = 0 /\ Len(tail_rec) = 0
    BY <1>1
  <2>4. Cardinality({k \in DOMAIN frames : ~frames[k].jumped}) = 1
    BY <2>1, <2>2
  <2> QED BY <2>3, <2>4 DEF CallsBalance
<1>6. IndentIsNesting
  BY <1>1, <1>2 DEF IndentIsNesting
<1>7. Distinct(frames)
  BY <1>2 DEF Distinct
<1>8. Listed(tail_rec, frames)
  <2>1. DOMAIN tail_rec = {}
    BY <1>1
  <2> DEFINE at == [e \in {} |-> 1]
  <2>2. Pending(at, tail_rec, frames)
    BY <1>2, <2>1 DEF Pending
  <2> QED BY <2>1, <2>2 DEF Listed, Pending
<1> QED BY <1>3, <1>4, <1>5, <1>6, <1>7, <1>8 DEF CallsInv

(* What a step starts from.                                                *)
LEMMA CallFacts ==
    ASSUME CallsInv
    PROVE  /\ call_depth \in Nat /\ tail_rec \in Seq(Jump) /\ frames \in Seq(Frame)
           /\ Len(frames) \in Nat \ {0} /\ DOMAIN frames = 1 .. Len(frames)
           /\ Len(tail_rec) \in Nat /\ DOMAIN tail_rec = 1 .. Len(tail_rec)
           /\ here = frames[Len(frames)].fn /\ here \in Function
           /\ call_depth - Len(tail_rec) = Cardinality(Called(frames)) - 1
           /\ Cardinality(Called(frames)) \in Nat
           /\ InMain => call_depth >= Len(tail_rec) + 2
<1>1. call_depth \in Nat /\ tail_rec \in Seq(Jump) /\ frames \in Seq(Frame)
  BY DEF CallsInv, CallsTypeOK, Jump, Frame
<1>2. /\ Len(frames) \in Nat \ {0} /\ DOMAIN frames = 1 .. Len(frames)
      /\ Len(tail_rec) \in Nat /\ DOMAIN tail_rec = 1 .. Len(tail_rec)
  BY <1>1 DEF CallsInv, BootCalled
<1>3. here = frames[Len(frames)].fn /\ here \in Function
  <2>1. frames[Len(frames)] \in Frame
    BY <1>1, <1>2
  <2> QED BY <2>1 DEF here, Last, Frame
<1>4. call_depth - Len(tail_rec) = Cardinality(Called(frames)) - 1 /\ Cardinality(Called(frames)) \in Nat
  BY <1>1, CalledFinite DEF CallsInv, CallsBalance, Called
<1>5. ASSUME InMain PROVE call_depth >= Len(tail_rec) + 2
  <2>1. Len(frames) >= 3
    BY <1>5 DEF InMain, Boot
  <2>2. Cardinality(Called(frames)) >= 3
    BY <1>1, <1>2, <2>1, BootCounts DEF CallsInv, BootCalled
  <2> QED BY <1>1, <1>2, <1>4, <2>2
<1> QED BY <1>1, <1>2, <1>3, <1>4, <1>5

-----------------------------------------------------------------------------
(* A function that is not active is another one.                           *)
LEMMA EnteredDistinct ==
    ASSUME NEW fr \in Seq(Frame), Distinct(fr), NEW x \in Frame, \A k \in DOMAIN fr : fr[k].fn # x.fn
    PROVE  Distinct(Append(fr, x))
<1> DEFINE g == Append(fr, x)
<1>1. /\ DOMAIN g = 1 .. Len(fr) + 1 /\ Len(fr) \in Nat /\ g[Len(fr) + 1] = x
      /\ \A k \in 1 .. Len(fr) : g[k] = fr[k] /\ k \in DOMAIN fr
  OBVIOUS
<1> HIDE DEF g
<1>2. \A k \in DOMAIN g : k \in 1 .. Len(fr) \/ k = Len(fr) + 1
  BY <1>1
<1>3. Distinct(g)
  BY <1>1, <1>2 DEF Distinct
<1> QED BY <1>3 DEF g

(* A call leaves the jumps as they are.                                    *)
LEMMA ListedCall ==
    ASSUME NEW list \in Seq(Jump), NEW fr \in Seq(Frame), Listed(list, fr),
           NEW x \in Frame, ~x.jumped
    PROVE  Listed(list, Append(fr, x))
<1> DEFINE g == Append(fr, x)
<1>1. /\ DOMAIN g = 1 .. Len(fr) + 1 /\ DOMAIN fr = 1 .. Len(fr) /\ Len(fr) \in Nat /\ g[Len(fr) + 1] = x
      /\ \A k \in 1 .. Len(fr) : g[k] = fr[k]
  OBVIOUS
<1> HIDE DEF g
<1>2. PICK at \in [DOMAIN list -> DOMAIN fr] : Pending(at, list, fr)
  BY DEF Listed
<1>3. at \in [DOMAIN list -> DOMAIN g] /\ \A e \in DOMAIN list : at[e] \in 1 .. Len(fr)
  BY <1>1, <1>2
<1>4. \A e \in DOMAIN list : /\ g[at[e]].jumped /\ at[e] > 1
                             /\ list[e].pc = <<g[at[e] - 1].fn, FALSE>>
                             /\ list[e].depend = <<g[at[e]].fn, TRUE>>
  <2> TAKE e \in DOMAIN list
  <2>1. /\ fr[at[e]].jumped /\ at[e] > 1
        /\ list[e].pc = <<fr[at[e] - 1].fn, FALSE>> /\ list[e].depend = <<fr[at[e]].fn, TRUE>>
    BY <1>2 DEF Pending
  <2>2. PICK k \in 1 .. Len(fr) : k = at[e]
    BY <1>3
  <2>3. k - 1 \in 1 .. Len(fr)
    BY <1>1, <2>1, <2>2
  <2>4. g[k] = fr[k] /\ g[k - 1] = fr[k - 1]
    BY <1>1, <2>3
  <2> QED BY <2>1, <2>2, <2>4
<1>5. \A k \in DOMAIN g : g[k].jumped => \E e \in DOMAIN list : at[e] = k
  <2> TAKE k \in DOMAIN g
  <2>1. k \in DOMAIN fr \/ k = Len(fr) + 1
    BY <1>1
  <2> QED BY <1>1, <1>2, <2>1 DEF Pending
<1>6. Pending(at, list, g)
  BY <1>2, <1>3, <1>4, <1>5 DEF Pending
<1> QED BY <1>3, <1>6 DEF Listed, g

(* A jump becomes the first of the list.                                   *)
LEMMA ListedJump ==
    ASSUME NEW list \in Seq(Jump), NEW fr \in Seq(Frame), Listed(list, fr), Len(fr) >= 1,
           NEW x \in Frame, x.jumped, NEW j \in Jump,
           j.pc = <<fr[Len(fr)].fn, FALSE>>, j.depend = <<x.fn, TRUE>>
    PROVE  Listed(<<j>> \o list, Append(fr, x))
<1> DEFINE g == Append(fr, x)
           l == <<j>> \o list
<1>1. /\ DOMAIN g = 1 .. Len(fr) + 1 /\ DOMAIN fr = 1 .. Len(fr) /\ Len(fr) \in Nat /\ g[Len(fr) + 1] = x
      /\ \A k \in 1 .. Len(fr) : g[k] = fr[k]
  OBVIOUS
<1>2. /\ DOMAIN l = 1 .. Len(list) + 1 /\ DOMAIN list = 1 .. Len(list) /\ Len(list) \in Nat /\ l[1] = j
      /\ \A e \in 2 .. Len(list) + 1 : l[e] = list[e - 1]
  <2>1. <<j>> \in Seq(Jump) /\ Len(<<j>>) = 1 /\ <<j>>[1] = j
    OBVIOUS
  <2>2. l \in Seq(Jump) /\ Len(l) = 1 + Len(list) /\ Len(list) \in Nat
        /\ \A e \in 1 .. 1 + Len(list) : l[e] = IF e <= 1 THEN <<j>>[e] ELSE list[e - 1]
    BY <2>1, ConcatProperties
  <2> HIDE DEF l
  <2> QED BY <2>1, <2>2
<1> HIDE DEF g, l
<1>3. PICK at \in [DOMAIN list -> DOMAIN fr] : Pending(at, list, fr)
  BY DEF Listed
<1> DEFINE at2 == [e \in DOMAIN l |-> IF e = 1 THEN Len(fr) + 1 ELSE at[e - 1]]
<1>4. \A e \in 2 .. Len(list) + 1 : /\ e - 1 \in DOMAIN list /\ e \in DOMAIN l /\ at2[e] = at[e - 1]
                                    /\ at2[e] \in 1 .. Len(fr)
  <2> TAKE e \in 2 .. Len(list) + 1
  <2>1. e - 1 \in DOMAIN list /\ e \in DOMAIN l /\ e # 1
    BY <1>2
  <2>2. at[e - 1] \in 1 .. Len(fr)
    BY <1>1, <1>3, <2>1
  <2> QED BY <2>1, <2>2
<1>5. at2[1] = Len(fr) + 1 /\ 1 \in DOMAIN l /\ \A e \in DOMAIN l : e = 1 \/ e \in 2 .. Len(list) + 1
  BY <1>2
<1>6. at2 \in [DOMAIN l -> DOMAIN g]
  BY <1>1, <1>4, <1>5
<1> HIDE DEF at2
<1>7. ASSUME NEW e \in DOMAIN l
      PROVE  /\ g[at2[e]].jumped /\ at2[e] > 1
             /\ l[e].pc = <<g[at2[e] - 1].fn, FALSE>>
             /\ l[e].depend = <<g[at2[e]].fn, TRUE>>
  <2>1. CASE e = 1
    <3>1. PICK k \in Nat : k = Len(fr) + 1 /\ k - 1 = Len(fr) /\ k > 1
      BY <1>1
    <3>2. at2[e] = k /\ l[e] = j
      BY <1>2, <1>5, <2>1, <3>1
    <3>3. g[k] = x /\ g[k - 1] = fr[Len(fr)] /\ Len(fr) \in 1 .. Len(fr)
      BY <1>1, <3>1
    <3> QED BY <3>1, <3>2, <3>3
  <2>2. CASE e \in 2 .. Len(list) + 1
    <3>1. PICK d \in DOMAIN list : d = e - 1
      BY <1>4, <2>2
    <3>2. l[e] = list[d] /\ at2[e] = at[d] /\ at[d] \in 1 .. Len(fr)
      BY <1>2, <1>4, <2>2, <3>1
    <3>3. /\ fr[at[d]].jumped /\ at[d] > 1
          /\ list[d].pc = <<fr[at[d] - 1].fn, FALSE>> /\ list[d].depend = <<fr[at[d]].fn, TRUE>>
      BY <1>3, <3>1 DEF Pending
    <3>4. PICK k \in 1 .. Len(fr) : k = at[d]
      BY <3>2
    <3>5. k - 1 \in 1 .. Len(fr)
      BY <1>1, <3>3, <3>4
    <3>6. g[k] = fr[k] /\ g[k - 1] = fr[k - 1]
      BY <1>1, <3>5
    <3> QED BY <3>2, <3>3, <3>4, <3>6
  <2> QED BY <1>5, <2>1, <2>2
<1>8. ASSUME NEW k \in DOMAIN g, g[k].jumped PROVE \E e \in DOMAIN l : at2[e] = k
  <2>1. CASE k = Len(fr) + 1
    BY <1>5, <2>1
  <2>2. CASE k \in DOMAIN fr
    <3>1. PICK d \in DOMAIN list : at[d] = k
      BY <1>1, <1>3, <1>8, <2>2 DEF Pending
    <3>2. PICK e \in 2 .. Len(list) + 1 : e = d + 1 /\ e - 1 = d
      BY <1>2
    <3> QED BY <1>4, <3>1, <3>2
  <2> QED BY <1>1, <2>1, <2>2
<1>9. ASSUME NEW d \in DOMAIN l, NEW e \in DOMAIN l, d < e PROVE at2[d] > at2[e]
  <2>1. e \in 2 .. Len(list) + 1
    BY <1>2, <1>9
  <2>2. CASE d = 1
    BY <1>1, <1>4, <1>5, <2>1, <2>2
  <2>3. CASE d \in 2 .. Len(list) + 1
    <3>1. d - 1 \in DOMAIN list /\ e - 1 \in DOMAIN list /\ d - 1 < e - 1
      BY <1>4, <1>9, <2>1, <2>3
    <3>2. at[d - 1] > at[e - 1]
      BY <1>3, <3>1 DEF Pending
    <3> QED BY <1>4, <2>1, <2>3, <3>2
  <2> QED BY <1>5, <2>2, <2>3
<1>10. Pending(at2, l, g)
  BY <1>6, <1>7, <1>8, <1>9 DEF Pending
<1> QED BY <1>6, <1>10 DEF Listed, g, l

-----------------------------------------------------------------------------
(* The frame k that the e-th jump of the list entered, and where from.     *)
Entry(list, fr, e, k) ==
    /\ k \in 2 .. Len(fr) /\ k - 1 \in 1 .. Len(fr) /\ fr[k].jumped
    /\ list[e].pc = <<fr[k - 1].fn, FALSE>> /\ list[e].depend = <<fr[k].fn, TRUE>>

LEMMA PendingAt ==
    ASSUME NEW list \in Seq(Jump), NEW fr \in Seq(Frame), NEW at \in [DOMAIN list -> DOMAIN fr],
           Pending(at, list, fr)
    PROVE  \A e \in DOMAIN list : Entry(list, fr, e, at[e])
<1> TAKE e \in DOMAIN list
<1>1. /\ fr[at[e]].jumped /\ at[e] > 1
      /\ list[e].pc = <<fr[at[e] - 1].fn, FALSE>> /\ list[e].depend = <<fr[at[e]].fn, TRUE>>
  BY DEF Pending
<1>2. PICK k : k = at[e]
  OBVIOUS
<1>3. k \in 1 .. Len(fr) /\ Len(fr) \in Nat /\ k > 1
  BY <1>1, <1>2
<1>4. Entry(list, fr, e, k)
  BY <1>1, <1>2, <1>3 DEF Entry
<1> QED BY <1>2, <1>4

(* The jumps above the newest call are the first of the list.              *)
LEMMA TopJumps ==
    ASSUME NEW list \in Seq(Jump), NEW fr \in Seq(Frame), NEW at \in [DOMAIN list -> DOMAIN fr],
           Pending(at, list, fr), NEW c \in Nat, NewestCall(fr, c), NEW m \in Nat, Len(fr) = m + c + 1
    PROVE  m \in 0 .. Len(list) /\ \A j \in 1 .. m : at[j] = Len(fr) + 1 - j
<1> DEFINE T == {j \in 1 .. m : j \notin DOMAIN list \/ at[j] # Len(fr) + 1 - j}
<1>1. /\ Len(fr) \in Nat /\ DOMAIN fr = 1 .. Len(fr) /\ Len(list) \in Nat /\ DOMAIN list = 1 .. Len(list)
      /\ c + 1 \in 1 .. Len(fr) /\ m \in Nat
  BY DEF Called
<1>2. ASSUME T # {} PROVE FALSE
  <2>1. PICK j \in T : \A x \in T : j <= x
    <3>1. T \subseteq Nat
      BY <1>1
    <3> HIDE DEF T
    <3> QED BY <1>2, <3>1, LeastNatural
  <2>2. j \in 1 .. m /\ (j \notin DOMAIN list \/ at[j] # Len(fr) + 1 - j)
    BY <2>1
  <2>3. \A x \in 1 .. m : x < j => x \in DOMAIN list /\ at[x] = Len(fr) + 1 - x
    <3> TAKE x \in 1 .. m
    <3> HAVE x < j
    <3>1. ~(j <= x)
      BY <1>1, <2>2
    <3> QED BY <2>1, <3>1
  <2> HIDE DEF T
  <2>4. PICK k \in 1 .. Len(fr) : k = Len(fr) + 1 - j /\ k > c + 1
    BY <1>1, <2>2
  <2>5. PICK e \in DOMAIN list : at[e] = k
    BY <1>1, <2>4 DEF Pending, NewestCall
  <2>6. CASE e < j
    <3>1. e \in 1 .. m
      BY <1>1, <2>2, <2>6
    <3>2. at[e] = Len(fr) + 1 - e
      BY <2>3, <2>6, <3>1
    <3> QED BY <1>1, <2>2, <2>4, <2>5, <2>6, <3>1, <3>2
  <2>7. CASE e = j
    BY <2>2, <2>4, <2>5, <2>7
  <2>8. CASE e > j
    <3>1. j \in DOMAIN list
      BY <1>1, <2>2, <2>8
    <3>2. PICK a \in 1 .. Len(fr) : a = at[j]
      BY <1>1, <3>1
    <3>3. a > k
      BY <2>5, <2>8, <3>1, <3>2 DEF Pending
    <3>4. j # 1
      BY <1>1, <2>4, <3>2, <3>3
    <3>5. PICK b \in 1 .. m : b = j - 1 /\ b < j
      BY <1>1, <2>2, <3>4
    <3>6. b \in DOMAIN list /\ at[b] = Len(fr) + 1 - b
      BY <2>3, <3>5
    <3>7. at[b] > a
      BY <3>1, <3>2, <3>5, <3>6 DEF Pending
    <3> QED BY <1>1, <2>2, <2>4, <3>2, <3>3, <3>5, <3>6, <3>7
  <2> QED BY <1>1, <2>2, <2>6, <2>7, <2>8
<1>3. \A j \in 1 .. m : j \in DOMAIN list /\ at[j] = Len(fr) + 1 - j
  BY <1>2
<1>4. m <= Len(list)
  <2>1. CASE m = 0
    BY <1>1, <2>1
  <2>2. CASE m # 0
    <3>1. m \in 1 .. m
      BY <1>1, <2>2
    <3>2. m \in DOMAIN list
      BY <1>3, <3>1
    <3> QED BY <1>1, <3>2
  <2> QED BY <2>1, <2>2
<1> QED BY <1>1, <1>3, <1>4

(* A ret undoes exactly those: it is in the innermost frame, with m jumps  *)
(* above the newest call, and three frames below them.                     *)
RetAbove(list, fr, at, c, m, depth, pc) ==
    /\ list \in Seq(Jump) /\ fr \in Seq(Frame) /\ at \in [DOMAIN list -> DOMAIN fr]
    /\ Pending(at, list, fr) /\ Distinct(fr)
    /\ c \in Nat /\ NewestCall(fr, c) /\ m \in Nat /\ Len(fr) = m + c + 1
    /\ depth \in Nat /\ depth >= Len(list) + 3
    /\ pc = <<fr[Len(fr)].fn, FALSE>>

LEMMA UndoesTheChain ==
    ASSUME NEW list, NEW fr, NEW at, NEW c, NEW m, NEW depth, NEW pc,
           RetAbove(list, fr, at, c, m, depth, pc)
    PROVE  Returned(pc, depth, list) = m
<1> SUFFICES ASSUME list \in Seq(Jump), fr \in Seq(Frame), at \in [DOMAIN list -> DOMAIN fr],
                    Pending(at, list, fr), Distinct(fr),
                    c \in Nat, NewestCall(fr, c), m \in Nat, Len(fr) = m + c + 1,
                    depth \in Nat, depth >= Len(list) + 3, pc = <<fr[Len(fr)].fn, FALSE>>,
                    NEW n, n = Returned(pc, depth, list)
             PROVE  n = m
  BY DEF RetAbove
<1> DEFINE From(j) == IF j = 1 THEN pc ELSE list[j - 1].pc
<1>1. /\ Len(fr) \in Nat /\ DOMAIN fr = 1 .. Len(fr) /\ Len(list) \in Nat /\ DOMAIN list = 1 .. Len(list)
      /\ c + 1 \in 1 .. Len(fr) /\ ~fr[c + 1].jumped
  BY DEF Called, NewestCall
<1>2. m \in 0 .. Len(list) /\ \A j \in 1 .. m : at[j] = Len(fr) + 1 - j
  BY TopJumps
<1>3. \A j \in 1 .. m + 1 : From(j) = <<fr[Len(fr) + 1 - j].fn, FALSE>>
  <2> TAKE j \in 1 .. m + 1
  <2>1. CASE j = 1
    BY <1>1, <2>1
  <2>2. CASE j # 1
    <3>1. PICK b \in 1 .. m : b = j - 1
      BY <1>2, <2>2
    <3>2. PICK k : k = at[b]
      OBVIOUS
    <3>3. k = Len(fr) + 1 - b /\ k - 1 = Len(fr) + 1 - j
      BY <1>1, <1>2, <3>1, <3>2
    <3>4. b \in DOMAIN list
      BY <1>1, <1>2, <3>1
    <3>5. Entry(list, fr, b, k)
      BY <3>2, <3>4, PendingAt
    <3>6. list[b].pc = <<fr[k - 1].fn, FALSE>>
      BY <3>5 DEF Entry
    <3> QED BY <2>2, <3>1, <3>3, <3>6
  <2> QED BY <2>1, <2>2
<1>4. ASSUME NEW j \in 1 .. m + 1, j \in 1 .. Len(list), NEW k, k = at[j], NEW l, l = Len(fr) + 1 - j
      PROVE  Undone(pc, list, j) <=> fr[k].fn = fr[l].fn
  <2>1. list[j].depend = <<fr[k].fn, TRUE>>
    <3>1. j \in DOMAIN list
      BY <1>1, <1>4
    <3>2. Entry(list, fr, j, k)
      BY <1>4, <3>1, PendingAt
    <3> QED BY <3>2 DEF Entry
  <2>2. From(j) = <<fr[l].fn, FALSE>>
    BY <1>3, <1>4
  <2>3. Undone(pc, list, j) <=> find_symbol_func(list[j].depend, TRUE) = find_symbol_func(From(j), FALSE)
    BY DEF Undone
  <2> HIDE DEF From
  <2> QED BY <2>1, <2>2, <2>3 DEF find_symbol_func
<1> HIDE DEF From
<1>5. \A j \in 1 .. m : depth > j + 1 /\ Undone(pc, list, j)
  <2> TAKE j \in 1 .. m
  <2>1. j \in 1 .. m + 1 /\ j \in 1 .. Len(list) /\ depth > j + 1
    BY <1>1, <1>2
  <2>2. PICK l : l = Len(fr) + 1 - j /\ l = at[j]
    BY <1>2
  <2> QED BY <1>4, <2>1, <2>2
<1>6. /\ n \in 0 .. Len(list)
      /\ \A j \in 1 .. n : depth > j + 1 /\ Undone(pc, list, j)
      /\ \A b \in 0 .. Len(list) : (\A j \in 1 .. b : depth > j + 1 /\ Undone(pc, list, j)) => b <= n
  BY ReturnedIs
<1>7. m <= n
  BY <1>2, <1>5, <1>6
<1>8. ~(n > m)
  <2> SUFFICES ASSUME n > m PROVE FALSE
    OBVIOUS
  <2>1. PICK j \in Nat : j = m + 1 /\ j \in 1 .. n
    BY <1>1, <1>2, <1>6
  <2>2. j \in 1 .. m + 1 /\ j \in 1 .. Len(list) /\ j \in DOMAIN list
    BY <1>1, <1>2, <1>6, <2>1
  <2>3. PICK k \in 1 .. Len(fr) : k = at[j]
    BY <1>1, <2>2
  <2>4. PICK l \in 1 .. Len(fr) : l = Len(fr) + 1 - j /\ l = c + 1
    BY <1>1, <2>1
  <2>5. fr[k].fn = fr[l].fn
    <3>1. Undone(pc, list, j)
      BY <1>6, <2>1
    <3> QED BY <1>4, <2>2, <2>3, <2>4, <3>1
  <2>6. k = l
    BY <1>1, <2>3, <2>4, <2>5 DEF Distinct
  <2>7. fr[k].jumped
    BY <2>2, <2>3, PendingAt DEF Entry
  <2> QED BY <1>1, <2>4, <2>6, <2>7
<1> QED BY <1>2, <1>6, <1>7, <1>8

(* What is left is the jumps of the frames that are left.                  *)
LEMMA ListedReturn ==
    ASSUME NEW list \in Seq(Jump), NEW fr \in Seq(Frame), NEW at \in [DOMAIN list -> DOMAIN fr],
           Pending(at, list, fr), NEW c \in Nat, NewestCall(fr, c), NEW m \in Nat, Len(fr) = m + c + 1
    PROVE  Listed(SubSeq(list, m + 1, Len(list)), SubSeq(fr, 1, c))
<1> DEFINE l == SubSeq(list, m + 1, Len(list))
           g == SubSeq(fr, 1, c)
<1>1. /\ Len(fr) \in Nat /\ DOMAIN fr = 1 .. Len(fr) /\ Len(list) \in Nat /\ DOMAIN list = 1 .. Len(list)
      /\ c + 1 \in 1 .. Len(fr) /\ ~fr[c + 1].jumped /\ m \in Nat
  BY DEF Called, NewestCall
<1>2. m \in 0 .. Len(list) /\ \A j \in 1 .. m : at[j] = Len(fr) + 1 - j
  BY TopJumps
<1>3. DOMAIN g = 1 .. c /\ \A k \in 1 .. c : g[k] = fr[k]
  BY CalledReturn
<1>4. DOMAIN l = 1 .. Len(list) - m /\ \A e \in 1 .. Len(list) - m : l[e] = list[e + m]
  <2>1. \A e \in m + 1 .. Len(list) : list[e] \in Jump
    BY <1>1, <1>2
  <2>2. /\ l \in Seq(Jump)
        /\ Len(l) = IF m + 1 <= Len(list) THEN Len(list) - (m + 1) + 1 ELSE 0
        /\ \A e \in 1 .. Len(list) - (m + 1) + 1 : l[e] = list[(m + 1) + e - 1]
    <3>1. m + 1 \in Int /\ Len(list) \in Int
      BY <1>1
    <3> QED BY <2>1, <3>1, SubSeqProperties
  <2> HIDE DEF l
  <2>3. Len(l) = Len(list) - m /\ DOMAIN l = 1 .. Len(l)
    <3>1. PICK n : n = Len(list)
      OBVIOUS
    <3>3. n \in Nat /\ m \in Nat /\ m \in 0 .. n
      BY <1>1, <1>2, <3>1
    <3>4. (IF m + 1 <= n THEN n - (m + 1) + 1 ELSE 0) = n - m
      <4>1. m <= n
        BY <3>3
      <4>2. CASE m = n
        BY <3>3, <4>2
      <4>3. CASE m + 1 <= n
        BY <3>3, <4>3
      <4> QED BY <3>3, <4>1, <4>2, <4>3
    <3>2. DOMAIN l = 1 .. Len(l)
      BY <2>2
    <3> QED BY <2>2, <3>1, <3>2, <3>4
  <2>4. \A e \in 1 .. Len(list) - m : e \in 1 .. Len(list) - (m + 1) + 1 /\ (m + 1) + e - 1 = e + m
    BY <1>1
  <2> QED BY <2>2, <2>3, <2>4
<1> HIDE DEF l, g
<1>5. ASSUME NEW d \in 1 .. Len(list), NEW k \in 1 .. Len(fr), k = at[d]
      PROVE  (d > m => k <= c) /\ (k <= c => d > m)
  <2>1. fr[k].jumped /\ k # c + 1
    <3>1. Entry(list, fr, d, k)
      BY <1>1, <1>5, PendingAt
    <3> QED BY <1>1, <3>1 DEF Entry
  <2>2. ASSUME d > m, k > c PROVE FALSE
    <3>1. PICK j \in Int : j = Len(fr) + 1 - k
      BY <1>1
    <3>5. j \in 1 .. m
      BY <1>1, <2>1, <2>2, <3>1
    <3>2. at[j] = k
      BY <1>1, <1>2, <3>1, <3>5
    <3>3. j \in DOMAIN list /\ d \in DOMAIN list /\ j < d
      BY <1>1, <1>2, <2>2, <3>5
    <3>4. at[j] > at[d]
      BY <3>3 DEF Pending
    <3> QED BY <1>5, <3>2, <3>4
  <2>3. ASSUME ~(d > m), k <= c PROVE FALSE
    <3>1. d \in 1 .. m
      BY <1>1, <2>3
    <3>2. k = Len(fr) + 1 - d
      BY <1>2, <1>5, <3>1
    <3> QED BY <1>1, <2>3, <3>1, <3>2
  <2> QED BY <1>1, <2>2, <2>3
<1> DEFINE at2 == [e \in DOMAIN l |-> at[e + m]]
<1>6. \A e \in DOMAIN l : /\ e + m \in 1 .. Len(list) /\ e + m \in DOMAIN list /\ at2[e] = at[e + m]
                          /\ at2[e] \in 1 .. c
  <2> TAKE e \in DOMAIN l
  <2>0. e \in 1 .. Len(list) - m
    BY <1>4
  <2>1. PICK d : d = e + m
    OBVIOUS
  <2>4. d > m /\ d \in 1 .. Len(list)
    BY <1>1, <1>2, <2>0, <2>1
  <2>2. PICK k \in 1 .. Len(fr) : k = at[d]
    BY <1>1, <2>4
  <2>3. k \in 1 .. c
    BY <1>1, <1>5, <2>4, <2>2
  <2> QED BY <1>1, <2>1, <2>2, <2>3, <2>4
<1>7. at2 \in [DOMAIN l -> DOMAIN g]
  BY <1>3, <1>6
<1> HIDE DEF at2
<1>8. ASSUME NEW e \in DOMAIN l
      PROVE  /\ g[at2[e]].jumped /\ at2[e] > 1
             /\ l[e].pc = <<g[at2[e] - 1].fn, FALSE>>
             /\ l[e].depend = <<g[at2[e]].fn, TRUE>>
  <2>1. PICK d \in DOMAIN list : d = e + m
    BY <1>6
  <2>2. PICK k \in 1 .. c : k = at2[e] /\ k = at[d]
    BY <1>6, <2>1
  <2>3. /\ k \in 2 .. Len(fr) /\ fr[k].jumped
        /\ list[d].pc = <<fr[k - 1].fn, FALSE>> /\ list[d].depend = <<fr[k].fn, TRUE>>
    <3>1. Entry(list, fr, d, k)
      BY <2>2, PendingAt
    <3> QED BY <3>1 DEF Entry
  <2>4. k > 1 /\ k - 1 \in 1 .. c
    BY <2>2, <2>3
  <2>5. g[k] = fr[k] /\ g[k - 1] = fr[k - 1] /\ l[e] = list[d]
    BY <1>3, <1>4, <2>1, <2>4
  <2> QED BY <2>2, <2>3, <2>4, <2>5
<1>9. ASSUME NEW k \in DOMAIN g, g[k].jumped PROVE \E e \in DOMAIN l : at2[e] = k
  <2>1. k \in 1 .. c /\ k \in 1 .. Len(fr) /\ fr[k].jumped
    BY <1>1, <1>3, <1>9
  <2>2. PICK d \in DOMAIN list : at[d] = k
    BY <1>1, <2>1 DEF Pending
  <2>3. d > m /\ d \in 1 .. Len(list)
    BY <1>1, <1>5, <2>1, <2>2
  <2>4. PICK e : e = d - m
    OBVIOUS
  <2>5. e + m = d /\ e \in 1 .. Len(list) - m
    BY <1>1, <1>2, <2>3, <2>4
  <2> QED BY <1>4, <1>6, <2>2, <2>5
<1>10. ASSUME NEW d \in DOMAIN l, NEW e \in DOMAIN l, d < e PROVE at2[d] > at2[e]
  <2>1. PICK a \in DOMAIN list : a = d + m
    BY <1>6
  <2>2. PICK b \in DOMAIN list : b = e + m
    BY <1>6
  <2>3. a < b
    BY <1>1, <1>4, <1>10, <2>1, <2>2
  <2>4. at[a] > at[b]
    BY <2>3 DEF Pending
  <2> QED BY <1>6, <2>1, <2>2, <2>4
<1>11. Pending(at2, l, g)
  BY <1>7, <1>8, <1>9, <1>10 DEF Pending
<1> QED BY <1>7, <1>11 DEF Listed, l, g

-----------------------------------------------------------------------------
(* A function is entered.                                                  *)
LEMMA Enters ==
    ASSUME CallsInv, NEW f \in Callable
    PROVE  /\ f \in Function
           /\ InMain <=> Len(frames) >= 3
           /\ <<here, FALSE>> \in Address /\ <<f, TRUE>> \in Address
           /\ plain /\ ~Entered(f) => \A k \in DOMAIN frames : frames[k].fn # f
<1>1. f \in Function
  <2>1. Len(frames) + 1 \in {2, 3} => Boot[Len(frames) + 1] \in Function
    <3>1. Boot[2] \in Function /\ Boot[3] \in Function
      BY DEF Boot, Function
    <3> QED BY <3>1
  <2>2. Len(frames) \in Nat \ {0} /\ Len(Boot) = 3
    BY CallFacts DEF Boot
  <2>3. ~InMain => Len(frames) + 1 \in {2, 3}
    BY <2>2 DEF InMain
  <2>4. Fns \subseteq Function
    BY DEF Function
  <2> QED BY <2>1, <2>3, <2>4 DEF Callable
<1>2. InMain <=> Len(frames) >= 3
  BY DEF InMain, Boot
<1> QED BY <1>1, <1>2, CallFacts DEF Address, Entered

(* A call.                                                                 *)
LEMMA CallKeeps ==
    ASSUME CallsInv, NEW f \in Callable, Call(f)
    PROVE  CallsInv'
<1> DEFINE x == [fn |-> f, jumped |-> FALSE]
<1>1. /\ call_depth' = call_depth + 1 /\ tail_rec' = tail_rec /\ jumps' = jumps
      /\ frames' = Append(frames, x) /\ plain' = (plain /\ ~Entered(f))
  BY Zenon DEF Call, trace_func_call
<1>2. x \in Frame /\ ~x.jumped /\ x.fn = f
  BY Enters DEF Frame
<1> HIDE DEF x
<1>3. /\ frames' \in Seq(Frame) /\ Len(frames') = Len(frames) + 1 /\ DOMAIN frames' = 1 .. Len(frames) + 1
      /\ frames'[Len(frames) + 1] = x /\ \A k \in 1 .. Len(frames) : frames'[k] = frames[k]
  BY <1>1, <1>2, CallFacts
<1>4. CallsTypeOK'
  <2>1. plain' \in BOOLEAN /\ jumps' \in 0 .. MaxJumps
    BY <1>1, Zenon DEF CallsInv, CallsTypeOK
  <2> QED BY <1>1, <1>3, <2>1, CallFacts DEF CallsTypeOK, Frame, Jump
<1>5. BootCalled'
  BY <1>2, <1>3, CallFacts DEF CallsInv, BootCalled
<1>6. CallsBalance'
  <2>1. Cardinality(Called(frames')) = Cardinality(Called(frames)) + 1
    BY <1>1, <1>2, CallFacts, CalledAppend
  <2>2. call_depth' = call_depth + 1 /\ Len(tail_rec') = Len(tail_rec)
    BY <1>1
  <2>3. call_depth' - Len(tail_rec') = Cardinality(Called(frames')) - 1
    BY <2>1, <2>2, CallFacts
  <2> QED BY <2>3 DEF CallsBalance, Called
<1>7. IndentIsNesting'
  <2>1. plain' => plain
    BY <1>1, Zenon
  <2>2. call_depth' = call_depth + 1
    BY <1>1
  <2> QED BY <1>3, <2>1, <2>2, CallFacts DEF CallsInv, IndentIsNesting
<1>8. ASSUME plain' PROVE Distinct(frames') /\ Listed(tail_rec', frames')
  <2>1. plain /\ ~Entered(f) /\ Distinct(frames) /\ Listed(tail_rec, frames)
    BY <1>1, <1>8 DEF CallsInv
  <2>2. \A k \in DOMAIN frames : frames[k].fn # x.fn
    BY <1>2, <2>1, Enters
  <2>3. Distinct(Append(frames, x))
    BY <1>2, <2>1, <2>2, CallFacts, EnteredDistinct
  <2>4. Listed(tail_rec, Append(frames, x))
    BY <1>2, <2>1, CallFacts, ListedCall
  <2> QED BY <1>1, <2>3, <2>4
<1> QED BY <1>4, <1>5, <1>6, <1>7, <1>8 DEF CallsInv

(* A jump to a function.                                                   *)
LEMMA TailCallKeeps ==
    ASSUME CallsInv, NEW f \in Callable, TailCall(f)
    PROVE  CallsInv'
<1> DEFINE x == [fn |-> f, jumped |-> TRUE]
           j == [pc |-> <<here, FALSE>>, depend |-> <<f, TRUE>>]
<1>1. /\ InMain /\ call_depth' = call_depth + 1 /\ jumps' = jumps
      /\ frames' = Append(frames, x) /\ plain' = (plain /\ ~Entered(f))
      /\ tail_rec' = IF call_depth' > 2 THEN <<j>> \o tail_rec ELSE tail_rec
  BY Zenon DEF TailCall, trace_func_call
<1>2. tail_rec' = <<j>> \o tail_rec
  <2>1. call_depth' > 2
    BY <1>1, CallFacts
  <2> QED BY <1>1, <2>1
<1>3. x \in Frame /\ x.jumped /\ x.fn = f
  BY Enters DEF Frame
<1>4. j \in Jump /\ j.pc = <<frames[Len(frames)].fn, FALSE>> /\ j.depend = <<f, TRUE>>
  BY Enters, CallFacts DEF Jump
<1> HIDE DEF x, j
<1>5. /\ frames' \in Seq(Frame) /\ Len(frames') = Len(frames) + 1 /\ DOMAIN frames' = 1 .. Len(frames) + 1
      /\ frames'[Len(frames) + 1] = x /\ \A k \in 1 .. Len(frames) : frames'[k] = frames[k]
  BY <1>1, <1>3, CallFacts
<1>6. tail_rec' \in Seq(Jump) /\ Len(tail_rec') = Len(tail_rec) + 1
  BY <1>2, <1>4, CallFacts
<1>7. CallsTypeOK'
  <2>1. plain' \in BOOLEAN /\ jumps' \in 0 .. MaxJumps
    BY <1>1, Zenon DEF CallsInv, CallsTypeOK
  <2>2. call_depth' \in Nat
    BY <1>1, CallFacts
  <2> QED BY <1>5, <1>6, <2>1, <2>2 DEF CallsTypeOK, Frame, Jump
<1>8. BootCalled'
  <2>1. Len(frames) >= 3 /\ Len(frames) \in Nat /\ DOMAIN frames = 1 .. Len(frames)
    BY <1>1, Enters, CallFacts
  <2>2. \A k \in 1 .. Len(frames) : k <= 3 => ~frames'[k].jumped
    BY <1>5, <2>1 DEF CallsInv, BootCalled
  <2>3. \A k \in 1 .. Len(frames) + 1 : k <= 3 => k \in 1 .. Len(frames)
    BY <2>1
  <2>4. Len(frames') >= 1
    BY <1>5, <2>1
  <2> QED BY <1>5, <2>2, <2>3, <2>4 DEF BootCalled
<1>9. CallsBalance'
  <2>1. Cardinality(Called(frames')) = Cardinality(Called(frames))
    BY <1>1, <1>3, CallFacts, CalledAppend
  <2>2. call_depth' = call_depth + 1
    BY <1>1
  <2>3. call_depth' - Len(tail_rec') = Cardinality(Called(frames')) - 1
    BY <1>6, <2>1, <2>2, CallFacts
  <2> QED BY <2>3 DEF CallsBalance, Called
<1>10. IndentIsNesting'
  <2>1. plain' => plain
    BY <1>1, Zenon
  <2>2. call_depth' = call_depth + 1
    BY <1>1
  <2> QED BY <1>5, <2>1, <2>2, CallFacts DEF CallsInv, IndentIsNesting
<1>11. ASSUME plain' PROVE Distinct(frames') /\ Listed(tail_rec', frames')
  <2>1. plain /\ ~Entered(f) /\ Distinct(frames) /\ Listed(tail_rec, frames)
    BY <1>1, <1>11 DEF CallsInv
  <2>2. \A k \in DOMAIN frames : frames[k].fn # x.fn
    BY <1>3, <2>1, Enters
  <2>3. Distinct(Append(frames, x))
    BY <1>3, <2>1, <2>2, CallFacts, EnteredDistinct
  <2>4. Listed(<<j>> \o tail_rec, Append(frames, x))
    <3>1. Len(frames) >= 1 /\ tail_rec \in Seq(Jump) /\ frames \in Seq(Frame)
      BY CallFacts
    <3> QED BY <1>3, <1>4, <2>1, <3>1, ListedJump
  <2> QED BY <1>1, <1>2, <2>3, <2>4
<1> QED BY <1>7, <1>8, <1>9, <1>10, <1>11 DEF CallsInv

(* A jump table disturbs the list, but is counted on it.                   *)
LEMMA ComputedJumpKeeps ==
    ASSUME CallsInv, ComputedJump
    PROVE  CallsInv'
<1> DEFINE j == [pc |-> <<here, FALSE>>, depend |-> <<here, FALSE>>]
<1>1. /\ InMain /\ call_depth' = call_depth + 1 /\ jumps < MaxJumps /\ jumps' = jumps + 1
      /\ frames' = frames /\ plain' = FALSE
      /\ tail_rec' = IF call_depth' > 2 THEN <<j>> \o tail_rec ELSE tail_rec
  BY Zenon DEF ComputedJump, trace_func_call
<1>2. tail_rec' = <<j>> \o tail_rec
  <2>1. call_depth' > 2
    BY <1>1, CallFacts
  <2> QED BY <1>1, <2>1
<1>3. j \in Jump
  BY CallFacts DEF Jump, Address
<1> HIDE DEF j
<1>4. tail_rec' \in Seq(Jump) /\ Len(tail_rec') = Len(tail_rec) + 1
  BY <1>2, <1>3, CallFacts
<1>5. CallsTypeOK'
  <2>1. call_depth' \in Nat
    BY <1>1, CallFacts
  <2>2. jumps' \in 0 .. MaxJumps
    <3>1. jumps \in 0 .. MaxJumps
      BY DEF CallsInv, CallsTypeOK
    <3> QED BY <1>1, <3>1, FtraceAssumption
  <2>3. frames' \in Seq(Frame) /\ plain' \in BOOLEAN
    BY <1>1, CallFacts
  <2> QED BY <1>4, <2>1, <2>2, <2>3 DEF CallsTypeOK, Frame, Jump
<1>6. CallsBalance'
  BY <1>1, <1>4, CallFacts DEF CallsBalance, Called
<1> QED BY <1>1, <1>5, <1>6 DEF CallsInv, BootCalled, IndentIsNesting

(* A ret, which undoes the chain of jumps above its call.                  *)
LEMMA RetKeeps ==
    ASSUME CallsInv, Ret
    PROVE  CallsInv'
<1> DEFINE pc == <<here, FALSE>>
<1>1. PICK c, n : c = CallerAt /\ n = Returned(pc, call_depth, tail_rec)
  OBVIOUS
<1>2. /\ c >= 3 /\ frames' = SubSeq(frames, 1, c) /\ jumps' = jumps /\ plain' = plain
      /\ call_depth' = IF call_depth - n > 2 THEN call_depth - n - 1 ELSE call_depth - n
      /\ tail_rec' = SubSeq(tail_rec, n + 1, Len(tail_rec))
  BY <1>1 DEF Ret, trace_func_ret, Boot
<1>3. c \in Nat /\ NewestCall(frames, c)
  BY <1>1, <1>2, CallFacts, CallerIs
<1>4. /\ frames' \in Seq(Frame) /\ Len(frames') = c /\ c < Len(frames)
      /\ \A k \in 1 .. c : frames'[k] = frames[k]
      /\ Cardinality(Called(frames')) = Cardinality(Called(frames)) - 1
  BY <1>2, <1>3, CallFacts, CalledReturn
<1>5. DOMAIN frames' = 1 .. c
  BY <1>4
<1>6. BootCalled'
  <2>1. \A k \in 1 .. c : k \in DOMAIN frames /\ frames'[k] = frames[k]
    BY <1>3, <1>4, CallFacts
  <2>2. \A k \in DOMAIN frames : k <= 3 => ~frames[k].jumped
    BY DEF CallsInv, BootCalled
  <2>3. Len(frames') >= 1
    BY <1>2, <1>3, <1>4
  <2>4. \A k \in 1 .. c : k <= 3 => ~frames'[k].jumped
    BY <2>1, <2>2
  <2> QED BY <1>5, <2>3, <2>4, Zenon DEF BootCalled
<1>7. call_depth >= Len(tail_rec) + 3
  <2>1. \A k \in 1 .. 3 : ~frames'[k].jumped
    <3>1. \A k \in 1 .. 3 : k \in 1 .. c /\ k <= 3
      BY <1>2, <1>3
    <3>2. \A k \in 1 .. c : k <= 3 => ~frames'[k].jumped
      BY <1>5, <1>6 DEF BootCalled
    <3> QED BY <3>1, <3>2
  <2>2. Len(frames') >= 3
    BY <1>2, <1>4
  <2>3. Cardinality(Called(frames')) >= 3
    BY <1>4, <2>1, <2>2, BootCounts
  <2> QED BY <1>4, <2>3, CallFacts
<1>8. n \in 0 .. Len(tail_rec)
  BY <1>1, CallFacts, ReturnedIs
<1>9. call_depth' = call_depth - n - 1 /\ call_depth' \in Nat
  BY <1>2, <1>7, <1>8, CallFacts
<1>10. tail_rec' \in Seq(Jump) /\ Len(tail_rec') = Len(tail_rec) - n
  <2>1. \A e \in n + 1 .. Len(tail_rec) : tail_rec[e] \in Jump
    BY <1>8, CallFacts
  <2>2. n + 1 \in Int /\ Len(tail_rec) \in Int
    BY <1>8, CallFacts
  <2>3. /\ tail_rec' \in Seq(Jump)
        /\ Len(tail_rec') = IF n + 1 <= Len(tail_rec) THEN Len(tail_rec) - (n + 1) + 1 ELSE 0
    BY <1>2, <2>1, <2>2, SubSeqProperties
  <2>4. PICK t : t = Len(tail_rec)
    OBVIOUS
  <2>5. t \in Nat /\ n \in 0 .. t
    BY <1>8, <2>4, CallFacts
  <2>6. (IF n + 1 <= t THEN t - (n + 1) + 1 ELSE 0) = t - n
    <3>1. CASE n = t
      BY <2>5, <3>1
    <3>2. CASE n + 1 <= t
      BY <2>5, <3>2
    <3> QED BY <2>5, <3>1, <3>2
  <2> QED BY <2>3, <2>4, <2>6
<1>11. CallsTypeOK'
  BY <1>2, <1>4, <1>9, <1>10 DEF CallsInv, CallsTypeOK, Frame, Jump
<1>12. CallsBalance'
  BY <1>4, <1>8, <1>9, <1>10, CallFacts DEF CallsBalance, Called
<1>13. ASSUME plain'
       PROVE  /\ call_depth' = Len(frames') - 1
              /\ Distinct(frames') /\ Listed(tail_rec', frames')
  <2>1. plain /\ Distinct(frames) /\ Listed(tail_rec, frames) /\ call_depth = Len(frames) - 1
    BY <1>2, <1>13 DEF CallsInv, IndentIsNesting
  <2>2. PICK at \in [DOMAIN tail_rec -> DOMAIN frames] : Pending(at, tail_rec, frames)
    BY <2>1 DEF Listed
  <2>3. PICK m \in Nat : Len(frames) = m + c + 1
    <3>1. PICK m : m = Len(frames) - c - 1
      OBVIOUS
    <3>2. m \in Nat /\ Len(frames) = m + c + 1
      BY <1>3, <1>4, <3>1, CallFacts
    <3> QED BY <3>2
  <2>4. n = m
    <3>1. RetAbove(tail_rec, frames, at, c, m, call_depth, pc)
      BY <1>3, <1>7, <2>1, <2>2, <2>3, CallFacts DEF RetAbove
    <3> QED BY <1>1, <3>1, UndoesTheChain
  <2>5. Listed(SubSeq(tail_rec, m + 1, Len(tail_rec)), SubSeq(frames, 1, c))
    <3>1. tail_rec \in Seq(Jump) /\ frames \in Seq(Frame)
      BY CallFacts
    <3> QED BY <1>3, <2>2, <2>3, <3>1, ListedReturn
  <2>6. Distinct(frames')
    <3>1. \A k \in 1 .. c : k \in DOMAIN frames
      BY <1>3, <1>4, CallFacts
    <3> QED BY <1>4, <1>5, <2>1, <3>1 DEF Distinct
  <2>7. call_depth' = Len(frames') - 1
    BY <1>3, <1>4, <1>9, <2>1, <2>3, <2>4
  <2> QED BY <1>2, <2>4, <2>5, <2>6, <2>7
<1> QED BY <1>6, <1>11, <1>12, <1>13 DEF CallsInv, IndentIsNesting

(* The function trace counts the nesting of the program as long as nothing *)
(* disturbs it, and its depth less the pending jumps the open calls in any *)
(* case: for every set of functions and every bound on nesting, jumps and  *)
(* the list.                                                               *)
THEOREM CallsAreTraced == CallsSpec => []CallsTraced
<1>1. CallsInv /\ [CallsNext]_callVars => CallsInv'
  <2> SUFFICES ASSUME CallsInv, [CallsNext]_callVars PROVE CallsInv'
    OBVIOUS
  <2>1. CASE UNCHANGED callVars
    BY <2>1 DEF callVars, CallsInv, CallsTypeOK, BootCalled, CallsBalance, IndentIsNesting
  <2> QED BY <2>1, CallKeeps, TailCallKeeps, ComputedJumpKeeps, RetKeeps DEF CallsNext
<1>2. CallsInv => CallsTraced
  BY DEF CallsInv, CallsTraced
<1> QED BY CallsStart, <1>1, <1>2, PTL DEF CallsSpec

-----------------------------------------------------------------------------
(* The bytes of loads and stores, for every width of a byte and every      *)
(* memory of whole words.                                                  *)
WholeWords == BYTE_MAX \in Nat /\ BYTES \in Nat /\ BYTES % 4 = 0

SameMemory == /\ mem \in [Addr -> Byte]
          /\ StoresMatch
          /\ StoresPassCheck

(* An aligned access starts at its offset in the word and ends in it, and  *)
(* the word is in the memory.                                              *)
LEMMA Aligned ==
    ASSUME WholeWords, NEW addr \in Addr, NEW n \in {1, 2, 4},
           addr + n <= BYTES, addr % n = 0
    PROVE  /\ addr \in Nat /\ addr % 4 \in Nat /\ (addr % 4) + n <= 4
           /\ n = 4 => addr % 4 = 0
           /\ n = 2 => addr % 4 # 3
           /\ Base(n, addr) = addr % 4
           /\ \A l \in Lane : (addr - (addr % 4)) + l \in Addr
<1>1. addr \in Nat /\ addr < BYTES
  BY DEF WholeWords, Addr
<1> DEFINE o == addr % 4
           b == addr - o
<1>2. o \in 0 .. 3 /\ b \in Nat /\ b % 4 = 0
  BY <1>1, Z3
<1>3. o + n <= 4 /\ (n = 4 => o = 0) /\ (n = 2 => o # 3)
  <2>1. CASE n = 1
    BY <1>2, <2>1
  <2>2. CASE n = 2
    <3>1. o % 2 = 0
      BY <1>1, <2>2, Z3
    <3>2. o # 1 /\ o # 3
      BY <3>1, Z3
    <3> QED BY <1>2, <2>2, <3>2
  <2>3. CASE n = 4
    BY <2>3
  <2> QED BY <2>1, <2>2, <2>3
<1>4. Base(n, addr) = o
  BY <1>2 DEF Base
<1>5. b + 3 < BYTES
  BY <1>1, <1>2, Z3 DEF WholeWords
<1>6. \A l \in Lane : b + l \in Addr
  BY <1>2, <1>5 DEF Lane, Addr, WholeWords
<1> QED BY <1>1, <1>2, <1>3, <1>4, <1>6

(* What a store writes does not depend on the way through the lanes.       *)
LEMMA StoreWrites ==
    ASSUME WholeWords, NEW addr \in Addr, NEW n \in {1, 2, 4},
           addr + n <= BYTES, addr % n = 0, NEW data \in Word
    PROVE  /\ gen_wstrb(n, addr) = addr % 4 .. (addr % 4) + n - 1
           /\ \A l \in gen_wstrb(n, addr) :
                 gen_wdata_aligned(n, addr, data)[l] = data[l - (addr % 4)]
           /\ npc_write(addr, gen_wdata_aligned(n, addr, data), gen_wstrb(n, addr))
                 = host_write(mem, addr, n, data)
<1> DEFINE o == addr % 4
           strb == gen_wstrb(n, addr)
           wdata == gen_wdata_aligned(n, addr, data)
           actual == [l \in Lane |-> IF l + o < 4 THEN wdata[l + o] ELSE 0]
<1>1. /\ addr \in Nat /\ o \in Nat /\ o + n <= 4 /\ Base(n, addr) = o
  BY Aligned
<1>2. strb = o .. o + n - 1
  BY <1>1 DEF gen_wstrb
<1>3. Cardinality(strb) = n
  <2>1. Cardinality(o .. o + n - 1) = (o + n - 1) - o + 1
    BY <1>1, FS_Interval
  <2> QED BY <1>1, <1>2, <2>1
<1>4. wdata = [l \in 0 .. 3 |-> IF l \in o .. o + n - 1 THEN data[l - o] ELSE 0]
  BY <1>1, <1>2 DEF gen_wdata_aligned, Lane
<1> HIDE DEF o, strb, wdata
<1>5. \A l \in o .. o + n - 1 : wdata[l] = data[l - o]
  BY <1>1, <1>4
<1>6. \A l \in 0 .. n - 1 : actual[l] = data[l]
  <2> TAKE l \in 0 .. n - 1
  <2>1. l \in 0 .. 3 /\ l + o < 4 /\ l + o \in o .. o + n - 1 /\ (l + o) - o = l
    BY <1>1
  <2> QED BY <1>5, <2>1 DEF Lane
<1>7. npc_write(addr, wdata, strb) = host_write(mem, addr, n, actual)
  <2>1. Cardinality(strb) = Cardinality(strb)
    BY DEF Cardinality, Cardinality
  <2>2. npc_write(addr, wdata, strb) = host_write(mem, addr, Cardinality(strb), actual)
    BY Zenon DEF npc_write, o
  <2> QED BY <1>3, <2>1, <2>2
<1> HIDE DEF actual
<1>8. \A a \in addr .. addr + n - 1 : actual[a - addr] = data[a - addr]
  BY <1>1, <1>6
<1>9. host_write(mem, addr, n, actual) = host_write(mem, addr, n, data)
  BY <1>8 DEF host_write
<1> QED BY <1>2, <1>5, <1>7, <1>9 DEF o, strb, wdata

LEMMA StoreKeeps ==
    ASSUME WholeWords, SameMemory, NEW addr \in Addr, NEW n \in {1, 2, 4},
           addr + n <= BYTES, addr % n = 0, NEW data \in Word, Store(addr, n, data)
    PROVE  SameMemory' /\ LoadsMatch'
<1>1. /\ mem' = host_write(mem, addr, n, data)
      /\ ref_mem' = host_write(ref_mem, addr, n, data)
      /\ loaded' = NO_LOAD
  BY StoreWrites DEF Store
<1>2. addr \in Nat /\ addr % 4 \in Nat /\ (addr % 4) + n <= 4
  BY Aligned
<1>3. mem' \in [Addr -> Byte]
  <2>1. \A a \in addr .. addr + n - 1 : data[a - addr] \in Byte
    <3> TAKE a \in addr .. addr + n - 1
    <3>1. a - addr \in Lane
      BY <1>2 DEF Lane
    <3> QED BY <3>1 DEF Word
  <2> QED BY <1>1, <2>1 DEF host_write, SameMemory
<1>4. StoresMatch'
  BY <1>1 DEF SameMemory, StoresMatch
<1>5. StoresPassCheck'
  <2> DEFINE o == addr % 4
  <2>1. /\ st'.waddr = addr /\ st'.wstrb = o .. o + n - 1
        /\ \A l \in o .. o + n - 1 : st'.wdata[l] = data[l - o]
    <3>1. /\ st' = [waddr |-> addr, wdata |-> gen_wdata_aligned(n, addr, data),
                     wstrb |-> gen_wstrb(n, addr)]
      BY DEF Store
    <3>2. /\ gen_wstrb(n, addr) = o .. o + n - 1
          /\ \A l \in gen_wstrb(n, addr) :
                gen_wdata_aligned(n, addr, data)[l] = data[l - o]
      BY StoreWrites
    <3> HIDE DEF o
    <3> QED BY <3>1, <3>2
  <2>2. ASSUME NEW l \in o .. o + n - 1 PROVE ref_mem'[(addr - o) + l] = data[l - o]
    <3>1. /\ (addr - o) + l \in Addr
          /\ (addr - o) + l \in addr .. addr + n - 1
          /\ ((addr - o) + l) - addr = l - o
      <4>1. l \in Lane
        BY <1>2 DEF Lane
      <4>2. (addr - o) + l \in Addr
        BY <4>1, Aligned
      <4> HIDE DEF o
      <4>3. o \in Nat
        BY <1>2 DEF o
      <4> QED BY <1>2, <4>2, <4>3
    <3> QED BY <1>1, <3>1 DEF host_write
  <2> QED BY <2>1, <2>2 DEF StoresPassCheck, checkmems
<1> QED BY <1>1, <1>3, <1>4, <1>5 DEF SameMemory, LoadsMatch, NO_LOAD

LEMMA LoadKeeps ==
    ASSUME WholeWords, SameMemory, NEW addr \in Addr, NEW n \in {1, 2, 4},
           addr + n <= BYTES, addr % n = 0, NEW signed \in BOOLEAN, Load(addr, n, signed)
    PROVE  SameMemory' /\ LoadsMatch'
<1> DEFINE o == addr % 4
           w == npc_read(addr)
           v == [l \in 0 .. n - 1 |-> ref_mem[addr + l]]
<1>1. /\ addr \in Nat /\ o \in Nat /\ o + n <= 4 /\ (n = 4 => o = 0) /\ (n = 2 => o # 3)
      /\ mem = ref_mem
  BY Aligned DEF SameMemory, StoresMatch
<1>2. sign_extend(w, n, signed, addr) = Extend(w, o, n, signed)
  BY <1>1 DEF sign_extend
<1>3. \A l \in 0 .. n - 1 : w[o + l] = v[l]
  <2> TAKE l \in 0 .. n - 1
  <2>1. w[o + l] = mem[(addr - o) + (o + l)]
    BY <1>1 DEF npc_read, Lane
  <2> HIDE DEF w
  <2>2. (addr - o) + (o + l) = addr + l
    <3> HIDE DEF o
    <3> QED BY <1>1
  <2> QED BY <1>1, <2>1, <2>2
<1> HIDE DEF w, v, o
<1>4. Extend(w, o, n, signed) = Extend(v, 0, n, signed)
  <2>1. \A l \in Lane : l < n => w[o + l] = v[0 + l]
    BY <1>3 DEF Lane
  <2>2. w[o + n - 1] = v[0 + n - 1]
    <3>1. n - 1 \in 0 .. n - 1 /\ o + n - 1 = o + (n - 1) /\ 0 + n - 1 = n - 1
      BY <1>1
    <3> QED BY <1>3, <3>1
  <2> QED BY <2>1, <2>2 DEF Extend
<1>5. LoadsMatch'
  BY <1>2, <1>4 DEF Load, LoadsMatch, Mr, w, v
<1>6. mem' = mem /\ ref_mem' = ref_mem /\ st'.wstrb = {}
  BY DEF Load, NO_STORE
<1> QED BY <1>5, <1>6 DEF SameMemory, StoresMatch, StoresPassCheck, checkmems

(* Whatever is stored at whatever offset, the core's memory is the         *)
(* reference's and no byte beside the stored ones changes; a load gives    *)
(* the core the value it gives the reference, with the right sign; and     *)
(* checkmems accepts every store.  The accesses are aligned: gen_wstrb     *)
(* does not look at the low bits of the address.                           *)
THEOREM AccessesAlwaysMatch ==
    ASSUME WholeWords, Misaligned = {}
    PROVE  LanesSpec => []AccessesMatch
<1> DEFINE Inv == SameMemory /\ LoadsMatch
<1>1. LanesInit => Inv
  BY DEF LanesInit, SameMemory, StoresMatch, StoresPassCheck, checkmems,
         LoadsMatch, NO_LOAD, NO_STORE, Byte, WholeWords
<1>2. Inv /\ [LanesNext]_laneVars => Inv'
  <2> SUFFICES ASSUME Inv, [LanesNext]_laneVars PROVE Inv'
    OBVIOUS
  <2>1. \A kind \in {"store", "load"} : \A a \in Accesses(kind) :
            /\ a = <<a[1], a[2]>> /\ a[1] \in Addr /\ a[2] \in {1, 2, 4}
            /\ a[1] + a[2] <= BYTES /\ a[1] % a[2] = 0
    BY DEF Accesses
  <2>2. ASSUME NEW a \in Accesses("store"), NEW data \in Word,
               Store(a[1], a[2], data)
        PROVE  Inv'
    BY <2>1, <2>2, StoreKeeps
  <2>3. ASSUME NEW a \in Accesses("load"), NEW signed \in BOOLEAN,
               Load(a[1], a[2], signed)
        PROVE  Inv'
    BY <2>1, <2>3, LoadKeeps
  <2>4. CASE UNCHANGED laneVars
    BY <2>4 DEF laneVars, SameMemory, StoresMatch, LoadsMatch, StoresPassCheck, checkmems
  <2> QED BY <2>2, <2>3, <2>4 DEF LanesNext
<1>3. Inv => AccessesMatch
  BY DEF SameMemory, AccessesMatch
<1> QED BY <1>1, <1>2, <1>3, PTL DEF LanesSpec
=============================================================================
