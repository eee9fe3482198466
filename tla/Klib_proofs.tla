----------------------------- MODULE Klib_proofs -----------------------------
(***************************************************************************)
(* klib: memmove and memcpy copy right, for every memory, length and       *)
(* overlap, and the blocks of malloc are disjoint, for every sequence of   *)
(* calls.                                                                  *)
(***************************************************************************)
EXTENDS Memmove, Malloc, TLAPS

-----------------------------------------------------------------------------
(* memmove and memcpy.  The loop invariant: the k bytes done hold the old  *)
(* source, and every other byte is untouched.  The next byte to copy is    *)
(* untouched because the direction keeps it out of the part already        *)
(* written.                                                                *)
Types == /\ bytes \in [Addr -> Byte] /\ old \in [Addr -> Byte]
         /\ n \in 0 .. Size /\ k \in 0 .. n
         /\ dst \in 0 .. Size - n /\ src \in 0 .. Size - n

(* The offsets already copied.                                             *)
Done == IF Upwards THEN 0 .. k - 1 ELSE n - k .. n - 1

(* The calls that promise a result.                                        *)
Promised == call = "memmove" \/ dst <= src \/ src + n <= dst

Loop == /\ \A a \in Addr : a - dst \notin Done => bytes[a] = old[a]
        /\ Promised => \A i \in Done : bytes[dst + i] = old[src + i]

CopyInv == Types /\ Loop

LEMMA CopyInit == Init => CopyInv
<1> SUFFICES ASSUME Init PROVE CopyInv
  OBVIOUS
<1>1. Types
  BY MemAssumption DEF Init, Types
<1>2. Done = {}
  BY MemAssumption DEF Init, Done
<1> QED BY <1>1, <1>2 DEF Init, CopyInv, Loop

LEMMA CopyStep == CopyInv /\ [Next]_vars => CopyInv'
<1> SUFFICES ASSUME CopyInv, [Next]_vars PROVE CopyInv'
  OBVIOUS
<1>1. CASE Copy
  <2>0. PICK i : i = IF Upwards THEN k ELSE n - 1 - k
    OBVIOUS
  <2>1. /\ k < n /\ k' = k + 1
        /\ bytes' = [bytes EXCEPT ![dst + i] = bytes[src + i]]
        /\ old' = old /\ call' = call /\ dst' = dst /\ src' = src /\ n' = n
    BY <1>1, <2>0 DEF Copy
  <2>2. i \in 0 .. n - 1 /\ dst + i \in Addr /\ src + i \in Addr
    BY <2>0, <2>1, MemAssumption DEF CopyInv, Types, Addr
  <2>3. Types'
    BY <2>1, <2>2, MemAssumption DEF CopyInv, Types
  <2>4. Upwards' = Upwards /\ Promised' = Promised
    BY <2>1 DEF Upwards, Promised
  <2>5. i \notin Done
    BY <2>0, <2>1 DEF Done, CopyInv, Types
  <2>6. Done' = Done \cup {i}
    <3>1. CASE Upwards
      <4>1. Upwards'
        BY <2>4, <3>1
      <4>2. Done = 0 .. k - 1 /\ Done' = 0 .. k' - 1 /\ i = k
        BY <2>0, <3>1, <4>1 DEF Done
      <4> QED BY <2>1, <4>2 DEF CopyInv, Types
    <3>2. CASE ~Upwards
      <4>1. ~Upwards'
        BY <2>4, <3>2
      <4>2. Done = n - k .. n - 1 /\ Done' = n' - k' .. n' - 1 /\ i = n - 1 - k
        BY <2>0, <3>2, <4>1 DEF Done
      <4> QED BY <2>1, <4>2 DEF CopyInv, Types
    <3> QED BY <3>1, <3>2
  <2>7. Promised => (src + i) - dst \notin Done
    <3> SUFFICES ASSUME Promised PROVE (src + i) - dst \notin Done
      OBVIOUS
    <3>1. CASE Upwards
      BY <2>0, <2>1, <3>1 DEF Promised, Upwards, Done, CopyInv, Types
    <3>2. CASE ~Upwards
      BY <2>0, <2>1, <3>2 DEF Promised, Upwards, Done, CopyInv, Types
    <3> QED BY <3>1, <3>2
  <2>8. Done \subseteq 0 .. n - 1
    BY DEF Done, CopyInv, Types
  <2>9. ASSUME NEW a \in Addr, a - dst \notin Done'
        PROVE  bytes'[a] = old'[a]
    <3>1. a - dst \notin Done /\ a - dst # i
      BY <2>6, <2>9
    <3>2. a # dst + i
      BY <2>2, <3>1, MemAssumption DEF CopyInv, Types, Addr
    <3>3. bytes'[a] = bytes[a]
      BY <2>1, <3>2 DEF CopyInv, Types
    <3> QED BY <2>1, <3>1, <3>3 DEF CopyInv, Loop
  <2>10. ASSUME NEW j \in Done', Promised
         PROVE  bytes'[dst + j] = old[src + j]
    <3>1. CASE j = i
      <4>1. bytes'[dst + i] = bytes[src + i]
        BY <2>1, <2>2 DEF CopyInv, Types
      <4>2. bytes[src + i] = old[src + i]
        <5>1. \A a \in Addr : a - dst \notin Done => bytes[a] = old[a]
          BY DEF CopyInv, Loop
        <5>2. (src + i) - dst \notin Done
          BY <2>7, <2>10
        <5> QED BY <2>2, <5>1, <5>2, Zenon
      <4> QED BY <3>1, <4>1, <4>2
    <3>2. CASE j # i
      <4>1. j \in Done
        BY <2>6, <2>10, <3>2
      <4>2. dst + j # dst + i /\ dst + j \in Addr
        BY <2>2, <2>8, <3>2, <4>1, MemAssumption DEF CopyInv, Types, Addr
      <4>3. bytes'[dst + j] = bytes[dst + j]
        BY <2>1, <4>2 DEF CopyInv, Types
      <4> QED BY <2>10, <4>1, <4>3 DEF CopyInv, Loop
    <3> QED BY <3>1, <3>2
  <2>11. Loop'
    BY <2>1, <2>4, <2>9, <2>10 DEF Loop, Addr
  <2> QED BY <2>3, <2>11 DEF CopyInv
<1>2. CASE UNCHANGED vars
  BY <1>2 DEF vars, CopyInv, Types, Loop, Done, Promised, Upwards
<1> QED BY <1>1, <1>2 DEF Next

LEMMA CopyDone == CopyInv => CopiesRight
<1> SUFFICES ASSUME CopyInv PROVE CopiesRight
  OBVIOUS
<1>1. Done \subseteq 0 .. n - 1
  BY DEF Done, CopyInv, Types
<1>2. k = n => Done = 0 .. n - 1
  BY DEF Done, CopyInv, Types
<1>3. OutsideKept
  <2> SUFFICES ASSUME NEW a \in Addr, a \notin dst .. dst + n - 1 PROVE bytes[a] = old[a]
    BY DEF OutsideKept
  <2>1. a - dst \notin 0 .. n - 1
    BY MemAssumption DEF CopyInv, Types, Addr
  <2> QED BY <1>1, <2>1 DEF CopyInv, Loop
<1>4. Moved
  BY <1>2 DEF Moved, CopyInv, Loop, Promised
<1> QED BY <1>3, <1>4 DEF CopiesRight

(* memmove moves, and memcpy copies regions it may be given, for every     *)
(* memory size, content, length and overlap.                               *)
THEOREM MemmoveCopiesRight == Spec => []CopiesRight
<1>1. Spec => []CopyInv
  BY CopyInit, CopyStep, PTL DEF Spec
<1> QED BY <1>1, CopyDone, PTL

-----------------------------------------------------------------------------
(* malloc *)

(* Nobody asks for one byte more than a multiple of the unit: 0xff - 1 in  *)
(* place of 0xff rounds such a size down.                                  *)
Requests == /\ Unit \in Nat /\ Unit >= 2 /\ Start \in Nat \ {0}
            /\ \A size \in Sizes : size \in Nat /\ size % Unit # 1

LEMMA Division ==
    ASSUME NEW u \in Nat, u >= 2, NEW x \in Int
    PROVE  /\ x = u * (x \div u) + (x % u)
           /\ x \div u \in Int /\ x % u \in 0 .. u - 1
OBVIOUS

LEMMA Remainder ==
    ASSUME NEW u \in Nat, u >= 2, NEW q \in Int, NEW r \in 0 .. u - 1,
           NEW x, x = u * q + r
    PROVE  x % u = r
OBVIOUS

(* Every other size is rounded up.                                         *)
LEMMA RoundedUp ==
    ASSUME Requests, NEW size \in Sizes
    PROVE  Rounded(size) \in Nat /\ Rounded(size) >= size
<1>1. Unit \in Nat /\ Unit >= 2 /\ size \in Nat /\ size % Unit # 1
  BY DEF Requests
<1>2. PICK q \in Int, s \in 0 .. Unit - 1 : size = Unit * q + s /\ s # 1
  <2>1. size \in Int
    BY <1>1
  <2> QED BY <1>1, <2>1, Division
<1>3. CASE s = 0
  <2>1. size + Unit - 2 = Unit * q + (Unit - 2) /\ Unit - 2 \in 0 .. Unit - 1
    BY <1>1, <1>2, <1>3
  <2>2. (size + Unit - 2) % Unit = Unit - 2
    BY <1>1, <1>2, <2>1, Remainder
  <2> QED BY <1>1, <2>2 DEF Rounded
<1>4. CASE s >= 2
  <2>1. size + Unit - 2 = Unit * (q + 1) + (s - 2) /\ s - 2 \in 0 .. Unit - 1
    BY <1>1, <1>2, <1>4
  <2>2. (size + Unit - 2) % Unit = s - 2
    BY <1>1, <1>2, <2>1, Remainder
  <2> QED BY <1>1, <1>2, <2>2 DEF Rounded
<1> QED BY <1>2, <1>3, <1>4

(* Every block ends, with its rounding, below what malloc gives out next.  *)
Below ==
    /\ calls \in Nat /\ addr \in Nat
    /\ addr = NULL => blocks = {}
    /\ \A a \in blocks : /\ a.id \in Nat /\ a.p \in Nat /\ a.size \in Sizes
                         /\ a.id < calls
                         /\ a.p + Rounded(a.size) <= addr
    /\ BlocksDisjoint

LEMMA MallocStep ==
    ASSUME Requests, Below, NEW size \in Sizes, malloc(size)
    PROVE  Below'
<1> DEFINE p == IF addr = NULL THEN Start ELSE addr
           b == [id |-> calls, p |-> p, size |-> size]
<1>1. /\ calls' = calls + 1 /\ addr' = p + Rounded(size) /\ blocks' = blocks \cup {b}
      /\ calls \in Nat /\ addr \in Nat
  BY DEF malloc, Below
<1>2. p \in Nat /\ p > 0 /\ (blocks # {} => p = addr)
  BY DEF Below, Requests, NULL
<1>3. Rounded(size) \in Nat
  BY RoundedUp
<1>4. calls' \in Nat /\ addr' \in Nat /\ addr' > 0 /\ addr' >= p
  BY <1>1, <1>2, <1>3
<1>5. b.id = calls /\ b.p = p /\ b.size = size
  OBVIOUS
<1>6. ASSUME NEW a \in blocks
      PROVE  /\ a.id \in Nat /\ a.p \in Nat /\ a.size \in Nat /\ a.size \in Sizes
             /\ a.id < calls /\ a.p + a.size <= p
             /\ a.p + Rounded(a.size) <= p
  <2>1. /\ a.id \in Nat /\ a.p \in Nat /\ a.size \in Sizes
        /\ a.id < calls /\ a.p + Rounded(a.size) <= addr /\ p = addr
    BY <1>2 DEF Below
  <2>2. Rounded(a.size) \in Nat /\ Rounded(a.size) >= a.size /\ a.size \in Nat
    BY <2>1, RoundedUp DEF Requests
  <2> QED BY <1>1, <2>1, <2>2
<1> HIDE DEF p, b
<1>7. ASSUME NEW a \in blocks'
      PROVE  /\ a.id \in Nat /\ a.p \in Nat /\ a.size \in Sizes
             /\ a.id < calls' /\ a.p + Rounded(a.size) <= addr'
  <2>1. CASE a = b
    BY <1>1, <1>2, <1>3, <1>5, <2>1
  <2>2. CASE a \in blocks
    <3>1. Rounded(a.size) \in Nat
      BY <1>6, <2>2, RoundedUp
    <3> QED BY <1>1, <1>2, <1>4, <1>6, <2>2, <3>1
  <2> QED BY <1>1, <2>1, <2>2
<1>8. ASSUME NEW a1 \in blocks', NEW a2 \in blocks', a1.id < a2.id, a1.size > 0, a2.size > 0
      PROVE  a1.p + a1.size <= a2.p
  <2>1. a1 \in blocks
    <3>1. CASE a1 = b
      <4>1. a2.id <= calls /\ a2.id \in Nat
        BY <1>1, <1>5, <1>6
      <4> QED BY <1>1, <1>5, <1>8, <3>1, <4>1
    <3> QED BY <1>1, <3>1
  <2>2. CASE a2 = b
    BY <1>5, <1>6, <2>1, <2>2
  <2>3. CASE a2 \in blocks
    BY <1>8, <2>1, <2>3 DEF Below, BlocksDisjoint
  <2> QED BY <1>1, <2>2, <2>3
<1> QED BY <1>4, <1>7, <1>8 DEF Below, BlocksDisjoint, NULL

(* No byte belongs to two blocks, for any calls of malloc and of free,     *)
(* which gives nothing back: the pointer has passed all of a block before  *)
(* the next one is handed out.  A size one above a multiple of the unit is *)
(* excluded because malloc rounds it down, and the next block overlaps it. *)
THEOREM MallocBlocksDisjoint ==
    ASSUME Requests
    PROVE  HeapSpec => []BlocksDisjoint
<1>1. HeapInit => Below
  BY DEF HeapInit, Below, BlocksDisjoint, NULL
<1>2. Below /\ [HeapNext]_heapVars => Below'
  <2>1. ASSUME Below, UNCHANGED heapVars PROVE Below'
    BY <2>1 DEF Below, heapVars, BlocksDisjoint
  <2> QED BY <2>1, MallocStep DEF HeapNext
<1>3. Below => BlocksDisjoint
  BY DEF Below
<1> QED BY <1>1, <1>2, <1>3, PTL DEF HeapSpec
=============================================================================
