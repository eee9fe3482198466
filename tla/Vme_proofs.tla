----------------------------- MODULE Vme_proofs ------------------------------
(***************************************************************************)
(* Virtual memory of the x86 port: the tables stay sound and implement the *)
(* address spaces of am.h, for every number of spaces, pages and entries.  *)
(***************************************************************************)
EXTENDS Vme, TLAPS

(* The page tables of the x86 port.  The kernel's areas lie in directory   *)
(* entries of their own, programs are mapped outside them, and there are   *)
(* pages enough for vme_init.                                              *)
KernelPlaces(k) == /\ \A d \in KernelDirs : k.table[d] # k.dir
                   /\ \A d, e \in KernelDirs : d # e => k.table[d] # k.table[e]

Layout == /\ NI \in Nat \ {0} /\ KernelDirs \subseteq Index
          /\ Vas \subseteq UserDirs \X Index
          /\ \E k \in [dir : Pages, table : [KernelDirs -> Pages]] : KernelPlaces(k)

Entries == [to : Pages \cup Pas \cup Nat, flags : SUBSET {"P", "W", "U"}]

KernelEntry(d) == Entry(vme_init.table[d], {"P", "W"})
KernelPages == {vme_init.dir} \cup {vme_init.table[d] : d \in KernelDirs}

(* The user entries of a directory and of a table.                         *)
TableEntry(e) == e = Zero \/ (e.flags = {"P", "W", "U"} /\ e.to \in Pages)
PageEntry(e)  == e = Zero \/ e.flags = {"P", "U"} \/ e.flags = {"P", "U", "W"}

UserTables(m, dir) == {m[dir][d].to : d \in {d \in UserDirs : Present(m[dir][d])}}
Owned(m, dir) == {dir} \cup UserTables(m, dir)

(* A directory of a space: the kernel's entries, and a table of its own    *)
(* for every other entry in use.                                           *)
Directory(m, dir) ==
    /\ dir \in Pages
    /\ \A d \in KernelDirs : m[dir][d] = KernelEntry(d)
    /\ \A d \in UserDirs : TableEntry(m[dir][d]) /\ (Present(m[dir][d]) => m[dir][d].to # dir)
    /\ \A d, e \in UserDirs :
          Present(m[dir][d]) /\ Present(m[dir][e]) /\ m[dir][d].to = m[dir][e].to => d = e
    /\ \A pt \in UserTables(m, dir), t \in Index : PageEntry(m[pt][t])

(* The kernel's own directory and tables never change.                     *)
Kernel(m) == /\ \A i \in Index : m[vme_init.dir][i] = IF i \in KernelDirs THEN KernelEntry(i) ELSE Zero
             /\ \A d \in KernelDirs, t \in Index :
                    m[vme_init.table[d]][t] = Entry(Identity(d, t), {"P", "W"})

(* Every page has one owner.                                               *)
Owners == [as \in LiveSpaces |-> Owned(mem, Dir(as))]

Partition(F, L, O) ==
    /\ F \subseteq Pages
    /\ \A p \in F : p \notin KernelPages
    /\ \A a \in L : \A p \in O[a] : p \notin F /\ p \notin KernelPages
    /\ \A a, b \in L : \A p \in O[a] : p \in O[b] => a = b
    /\ \A p \in Pages : p \in F \/ p \in KernelPages \/ \E a \in L : p \in O[a]

OneOwner == Partition(free, LiveSpaces, Owners)

TablesInv ==
    /\ mem \in [Pages -> [Index -> Entries]]
    /\ kpt = vme_init.dir /\ Kernel(mem)
    /\ ptr = [as \in Spaces |-> ptr[as]]
    /\ \A as \in Spaces : ptr[as] = Zero \/ ptr[as] = Entry(Dir(as), {"P", "U"})
    /\ \A as \in LiveSpaces : Directory(mem, Dir(as))
    /\ OneOwner
    /\ cr3 = kpt \/ \E as \in LiveSpaces : cr3 = Dir(as)
    /\ UserTlbFresh

LEMMA PresentZero ==
    /\ ~Present(Zero) /\ Zero \in Entries /\ Zero.flags = {}
    /\ \A x, f : Entry(x, f).to = x /\ Entry(x, f).flags = f
    /\ \A x, f : Present(Entry(x, f)) <=> "P" \in f
  BY DEF Zero, Entry, Present, Entries

LEMMA LiveIs ==
    ASSUME TablesInv, NEW as \in Spaces
    PROVE  as \in LiveSpaces <=> ptr[as] # Zero
<1>1. ptr[as] = Zero \/ ptr[as] = Entry(Dir(as), {"P", "U"})
  BY DEF TablesInv
<1>2. Present(Entry(Dir(as), {"P", "U"})) /\ ~Present(Zero)
  BY PresentZero
<1>3. as \in LiveSpaces <=> Present(ptr[as])
  BY DEF LiveSpaces, Live
<1> HIDE DEF Present
<1> QED BY <1>1, <1>2, <1>3

LEMMA LiveSub == LiveSpaces \subseteq Spaces
  BY DEF LiveSpaces

LEMMA KernelIs ==
    ASSUME Layout
    PROVE  /\ vme_init \in [dir : Pages, table : [KernelDirs -> Pages]]
           /\ KernelPlaces(vme_init)
           /\ KernelPages \subseteq Pages
<1> DEFINE K == [dir : Pages, table : [KernelDirs -> Pages]]
<1>1. \E k \in K : KernelPlaces(k)
  BY DEF Layout
<1>2. vme_init = CHOOSE k \in K : KernelPlaces(k)
  BY DEF vme_init, KernelPlaces
<1>3. vme_init \in K /\ KernelPlaces(vme_init)
  BY <1>1, <1>2
<1> QED BY <1>3 DEF KernelPages

(* What an owner's pages hold does not depend on the other pages.          *)
LEMMA OwnedFrame ==
    ASSUME NEW m, NEW n, NEW dir, \A p \in Owned(m, dir) : n[p] = m[p]
    PROVE  /\ UserTables(n, dir) = UserTables(m, dir) /\ Owned(n, dir) = Owned(m, dir)
           /\ Directory(m, dir) => Directory(n, dir)
<1>1. n[dir] = m[dir]
  BY DEF Owned
<1>2. UserTables(n, dir) = UserTables(m, dir)
  BY <1>1 DEF UserTables
<1>3. \A pt \in UserTables(m, dir) : n[pt] = m[pt]
  BY DEF Owned
<1> QED BY <1>1, <1>2, <1>3 DEF Directory, Owned

LEMMA OwnedPages ==
    ASSUME NEW m, NEW dir, Directory(m, dir)
    PROVE  Owned(m, dir) \subseteq Pages
  BY PresentZero DEF Directory, TableEntry, Owned, UserTables

LEMMA KernelFrame ==
    ASSUME NEW m, NEW n, \A p \in KernelPages : n[p] = m[p], Kernel(m)
    PROVE  Kernel(n)
<1>1. n[vme_init.dir] = m[vme_init.dir] /\ \A d \in KernelDirs : n[vme_init.table[d]] = m[vme_init.table[d]]
  BY DEF KernelPages
<1> QED BY <1>1 DEF Kernel

(* The invariant says what the runs check.                                 *)
LEMMA InvSound ==
    ASSUME Layout, TablesInv
    PROVE  TablesSound
<1>1. KernelTables = KernelPages
  <2>1. \A d \in KernelDirs : mem[kpt][d].to = vme_init.table[d]
    BY PresentZero DEF TablesInv, Kernel, KernelEntry, Layout
  <2> QED BY <2>1 DEF TablesInv, KernelTables, KernelPages
<1>2. \A as \in LiveSpaces : {Dir(as)} \cup Tables(as) = Owned(mem, Dir(as)) /\ Tables(as) = UserTables(mem, Dir(as))
  BY DEF Tables, Owned, UserTables
<1>3. \A as \in LiveSpaces : Dir(as) \notin Tables(as)
  <2> SUFFICES ASSUME NEW as \in LiveSpaces PROVE Dir(as) \notin Tables(as)
    OBVIOUS
  <2>1. Directory(mem, Dir(as))
    BY DEF TablesInv
  <2> QED BY <2>1 DEF Directory, Tables
<1>4. PagesAccounted
  <2>1. \A as \in LiveSpaces : {Dir(as)} \cup Tables(as) = Owners[as]
    BY <1>2 DEF Owners
  <2>2. /\ free \cap KernelPages = {}
        /\ \A as \in LiveSpaces : Owners[as] \cap (free \cup KernelPages) = {}
        /\ \A as, bs \in LiveSpaces : as # bs => Owners[as] \cap Owners[bs] = {}
    BY DEF TablesInv, OneOwner, Partition
  <2>3. Pages = free \cup KernelPages \cup UNION {Owners[as] : as \in LiveSpaces}
    <3>1. \A as \in LiveSpaces : Owners[as] \subseteq Pages
      BY OwnedPages DEF TablesInv, Owners
    <3>2. \A p \in Pages : p \in free \/ p \in KernelPages \/ \E as \in LiveSpaces : p \in Owners[as]
      BY DEF TablesInv, OneOwner, Partition
    <3>3. free \subseteq Pages /\ KernelPages \subseteq Pages
      BY KernelIs DEF TablesInv, OneOwner, Partition
    <3> QED BY <3>1, <3>2, <3>3
  <2>4. UNION {Owners[as] : as \in LiveSpaces} = UNION {{Dir(as)} \cup Tables(as) : as \in LiveSpaces}
    BY <2>1
  <2> QED BY <1>1, <1>3, <2>1, <2>2, <2>3, <2>4 DEF PagesAccounted
<1>5. KernelMapped
  <2> SUFFICES ASSUME NEW dir \in {cr3} \cup {Dir(as) : as \in LiveSpaces}, NEW d \in KernelDirs, NEW t \in Index
               PROVE  Walk(dir, <<d, t>>) = Entry(Identity(d, t), {"P", "W"})
    BY DEF KernelMapped
  <2>1. dir = kpt \/ \E as \in LiveSpaces : dir = Dir(as)
    BY DEF TablesInv
  <2>2. mem[dir][d] = KernelEntry(d)
    BY <2>1 DEF TablesInv, Kernel, Directory, Layout
  <2>3. mem[vme_init.table[d]][t] = Entry(Identity(d, t), {"P", "W"})
    BY DEF TablesInv, Kernel
  <2>4. mem[dir][d].to = vme_init.table[d] /\ mem[dir][d].flags = {"P", "W"} /\ Present(mem[dir][d])
    BY <2>2, PresentZero DEF KernelEntry
  <2>5. Walk(dir, <<d, t>>) = Entry(Identity(d, t), {"P", "W"} \cap {"P", "W"})
    <3> DEFINE va == <<d, t>>
    <3>1. va[1] = d /\ va[2] = t
      OBVIOUS
    <3> HIDE DEF va
    <3>2. mem[mem[dir][va[1]].to][va[2]] = Entry(Identity(d, t), {"P", "W"})
      BY <2>3, <2>4, <3>1
    <3>3. Walk(dir, va) = Entry(Entry(Identity(d, t), {"P", "W"}).to,
                                Entry(Identity(d, t), {"P", "W"}).flags \cap mem[dir][va[1]].flags)
      BY <2>4, <3>1, <3>2 DEF Walk
    <3> QED BY <2>4, <3>3, PresentZero DEF va
  <2> QED BY <2>5
<1> QED BY <1>4, <1>5 DEF TablesInv, TablesSound

LEMMA TablesInit ==
    ASSUME Layout, PagingInit
    PROVE  TablesInv
<1>1. /\ vme_init.dir \in Pages /\ \A d \in KernelDirs : vme_init.table[d] \in Pages
      /\ KernelPlaces(vme_init) /\ KernelPages \subseteq Pages
  BY KernelIs
<1>2. LiveSpaces = {} /\ \A as \in Spaces : ptr[as] = Zero
  BY PresentZero DEF PagingInit, LiveSpaces, Live
<1>3. Kernel(mem)
  <2>1. \A i \in Index : mem[vme_init.dir][i] = IF i \in KernelDirs THEN KernelEntry(i) ELSE Zero
    BY <1>1 DEF PagingInit, KernelEntry
  <2>2. ASSUME NEW d \in KernelDirs, NEW t \in Index
        PROVE  mem[vme_init.table[d]][t] = Entry(Identity(d, t), {"P", "W"})
    <3> DEFINE p == vme_init.table[d]
               x == CHOOSE e \in KernelDirs : p = vme_init.table[e]
    <3>1. p \in Pages /\ p # kpt /\ \E e \in KernelDirs : p = vme_init.table[e]
      BY <1>1 DEF PagingInit, KernelPlaces
    <3>2. x \in KernelDirs /\ vme_init.table[x] = p
      BY <3>1
    <3>3. x = d
      BY <1>1, <3>2 DEF KernelPlaces
    <3>4. mem[p] = KernelTable(x)
      BY <3>1 DEF PagingInit
    <3> QED BY <3>3, <3>4 DEF KernelTable
  <2> QED BY <2>1, <2>2 DEF Kernel
<1>4. mem \in [Pages -> [Index -> Entries]]
  <2>1. \A d \in KernelDirs : KernelTable(d) \in [Index -> Entries]
    <3>1. \A d \in KernelDirs, t \in Index : Identity(d, t) \in Nat
      BY DEF Identity, Index, Layout
    <3> QED BY <3>1 DEF KernelTable, Entries, Entry
  <2>2. \A d \in KernelDirs : Entry(vme_init.table[d], {"P", "W"}) \in Entries
    BY <1>1 DEF Entries, Entry
  <2> DEFINE row(p) == IF p = kpt
                THEN [i \in Index |-> IF i \in KernelDirs THEN Entry(vme_init.table[i], {"P", "W"}) ELSE Zero]
                ELSE IF \E d \in KernelDirs : p = vme_init.table[d]
                THEN KernelTable(CHOOSE d \in KernelDirs : p = vme_init.table[d])
                ELSE [i \in Index |-> Zero]
  <2>3. mem = [p \in Pages |-> row(p)]
    BY DEF PagingInit
  <2>4. ASSUME NEW p \in Pages PROVE row(p) \in [Index -> Entries]
    <3>1. CASE p = kpt
      BY <2>2, <3>1, PresentZero
    <3>2. CASE p # kpt /\ \E d \in KernelDirs : p = vme_init.table[d]
      BY <2>1, <3>2
    <3>3. CASE p # kpt /\ ~ \E d \in KernelDirs : p = vme_init.table[d]
      BY <3>3, PresentZero
    <3> QED BY <3>1, <3>2, <3>3
  <2> HIDE DEF row
  <2> QED BY <2>3, <2>4
<1>5. OneOwner
  <2>1. free = Pages \ KernelPages
    BY DEF PagingInit, KernelPages
  <2> QED BY <1>1, <1>2, <2>1 DEF OneOwner, Partition
<1> QED BY <1>2, <1>3, <1>4, <1>5 DEF TablesInv, PagingInit, UserTlbFresh

(* Pages change hands: a free one founds a space, a space gives all of its *)
(* pages back, a free one goes to a space.                                 *)
LEMMA PartitionJoin ==
    ASSUME NEW F, NEW L, NEW O, NEW N, Partition(F, L, O),
           NEW a, a \notin L, NEW p \in F, p \notin KernelPages,
           N[a] = {p}, \A b \in L : N[b] = O[b]
    PROVE  Partition(F \ {p}, L \cup {a}, N)
<1> USE DEF Partition
<1>1. \A b \in L \cup {a} : \A q \in N[b] : q \notin F \ {p} /\ q \notin KernelPages
  OBVIOUS
<1>2. ASSUME NEW b \in L \cup {a}, NEW c \in L \cup {a}, NEW q \in N[b], q \in N[c]
      PROVE  b = c
  <2>1. CASE b = a
    BY <1>2, <2>1
  <2>2. CASE b # a
    <3>1. b \in L /\ N[b] = O[b]
      BY <2>2
    <3>2. c = a => q = p
      BY <1>2
    <3> QED BY <1>2, <2>2, <3>1, <3>2
  <2> QED BY <2>1, <2>2
<1>3. ASSUME NEW q \in Pages
      PROVE  q \in F \ {p} \/ q \in KernelPages \/ \E b \in L \cup {a} : q \in N[b]
  <2>1. CASE q = p
    BY <2>1
  <2>2. CASE q # p
    BY <2>2
  <2> QED BY <2>1, <2>2
<1> QED BY <1>1, <1>2, <1>3

LEMMA PartitionLeave ==
    ASSUME NEW F, NEW L, NEW O, NEW N, Partition(F, L, O),
           NEW a \in L, O[a] \subseteq Pages, \A b \in L \ {a} : N[b] = O[b]
    PROVE  Partition(F \cup O[a], L \ {a}, N)
<1> USE DEF Partition
<1>1. \A b \in L \ {a} : \A q \in N[b] : q \notin F \cup O[a] /\ q \notin KernelPages
  OBVIOUS
<1>2. \A b, c \in L \ {a} : \A q \in N[b] : q \in N[c] => b = c
  OBVIOUS
<1>3. ASSUME NEW q \in Pages
      PROVE  q \in F \cup O[a] \/ q \in KernelPages \/ \E b \in L \ {a} : q \in N[b]
  OBVIOUS
<1>4. \A q \in F \cup O[a] : q \in Pages /\ q \notin KernelPages
  OBVIOUS
<1> QED BY <1>1, <1>2, <1>3, <1>4

LEMMA PartitionGrow ==
    ASSUME NEW F, NEW L, NEW O, NEW N, Partition(F, L, O),
           NEW a \in L, NEW p \in F, N[a] = O[a] \cup {p}, \A b \in L \ {a} : N[b] = O[b]
    PROVE  Partition(F \ {p}, L, N)
<1> USE DEF Partition
<1>1. ASSUME NEW b \in L, NEW q \in N[b] PROVE q \notin F \ {p} /\ q \notin KernelPages
  <2>1. CASE b = a
    BY <2>1
  <2>2. CASE b # a
    BY <2>2
  <2> QED BY <2>1, <2>2
<1>2. ASSUME NEW b \in L, NEW c \in L, NEW q \in N[b], q \in N[c]
      PROVE  b = c
  <2>1. CASE q = p
    <3>1. \A d \in L \ {a} : p \notin N[d]
      OBVIOUS
    <3> QED BY <1>2, <2>1, <3>1
  <2>2. CASE q # p
    <3>1. \A d \in L : q \in N[d] => q \in O[d]
      BY <2>2
    <3> QED BY <1>2, <3>1
  <2> QED BY <2>1, <2>2
<1>3. ASSUME NEW q \in Pages
      PROVE  q \in F \ {p} \/ q \in KernelPages \/ \E b \in L : q \in N[b]
  <2>1. CASE q = p
    BY <2>1
  <2>2. CASE q # p
    BY <2>2
  <2> QED BY <2>1, <2>2
<1> QED BY <1>1, <1>2, <1>3

LEMMA ProtectSound ==
    ASSUME Layout, TablesInv, NEW as \in Spaces, protect(as)
    PROVE  TablesInv'
<1> DEFINE p == pgalloc(free)
<1>1. /\ ~user /\ as \notin LiveSpaces /\ p \in free /\ p \in Pages
      /\ ptr' = [ptr EXCEPT ![as] = Entry(p, {"P", "U"})]
      /\ free' = free \ {p}
      /\ UNCHANGED <<kpt, cr3, tlb, user>>
  <2>1. p \in free
    BY DEF protect, pgalloc
  <2> QED BY <2>1 DEF protect, LiveSpaces, TablesInv, OneOwner, Partition
<1>2. mem' = [Zeroed(mem, p) EXCEPT ![p] = [i \in Index |-> IF i \in KernelDirs THEN mem[kpt][i] ELSE @[i]]]
  BY DEF protect
<1> HIDE DEF p
<1>3. /\ mem' \in [Pages -> [Index -> Entries]]
      /\ \A q \in Pages \ {p} : mem'[q] = mem[q]
      /\ \A i \in Index : mem'[p][i] = IF i \in KernelDirs THEN KernelEntry(i) ELSE Zero
  <2>1. mem \in [Pages -> [Index -> Entries]] /\ kpt \in Pages
    BY KernelIs DEF TablesInv
  <2>2. \A i \in KernelDirs : mem[kpt][i] = KernelEntry(i)
    BY DEF TablesInv, Kernel, Layout
  <2>3. mem' = [mem EXCEPT ![p] = [i \in Index |-> IF i \in KernelDirs THEN mem[kpt][i] ELSE Zero]]
    BY <1>1, <1>2, <2>1 DEF Zeroed
  <2> QED BY <1>1, <2>1, <2>2, <2>3, PresentZero
<1>4. /\ LiveSpaces' = LiveSpaces \cup {as} /\ Dir(as)' = p /\ ptr'[as] = Entry(p, {"P", "U"})
      /\ \A b \in Spaces \ {as} : ptr'[b] = ptr[b] /\ Dir(b)' = Dir(b)
      /\ ptr' = [b \in Spaces |-> ptr'[b]]
  <2>1. /\ ptr'[as] = Entry(p, {"P", "U"}) /\ \A b \in Spaces \ {as} : ptr'[b] = ptr[b]
        /\ ptr' = [b \in Spaces |-> ptr'[b]]
    BY <1>1 DEF TablesInv
  <2>2. Present(ptr'[as]) /\ ptr'[as].to = p
    BY <2>1, PresentZero
  <2> QED BY <2>1, <2>2 DEF LiveSpaces, Live, Dir
<1>5. \A b \in LiveSpaces : /\ b # as /\ Owned(mem', Dir(b)) = Owned(mem, Dir(b))
                            /\ Directory(mem', Dir(b))
                            /\ p \notin Owned(mem, Dir(b))
  <2> SUFFICES ASSUME NEW b \in LiveSpaces
               PROVE  /\ b # as /\ Owned(mem', Dir(b)) = Owned(mem, Dir(b)) /\ Directory(mem', Dir(b))
                      /\ p \notin Owned(mem, Dir(b))
    OBVIOUS
  <2>1. Directory(mem, Dir(b)) /\ p \notin Owned(mem, Dir(b)) /\ Owned(mem, Dir(b)) \subseteq Pages
    BY <1>1, OwnedPages DEF TablesInv, OneOwner, Partition, Owners
  <2>2. \A q \in Owned(mem, Dir(b)) : mem'[q] = mem[q]
    BY <1>3, <2>1
  <2> QED BY <1>1, <2>1, <2>2, OwnedFrame
<1>6. UserTables(mem', p) = {}
  BY <1>3, PresentZero DEF UserTables, UserDirs
<1>7. Directory(mem', p)
  BY <1>1, <1>3, <1>6, PresentZero DEF Directory, TableEntry, UserDirs, Layout
<1>8. p \notin KernelPages
  BY <1>1 DEF TablesInv, OneOwner, Partition
<1>9. Kernel(mem')
  <2>1. \A q \in KernelPages : mem'[q] = mem[q]
    BY <1>3, <1>8, KernelIs
  <2> QED BY <2>1, KernelFrame DEF TablesInv
<1>10. OneOwner'
  <2>1. Owners'[as] = {p}
    BY <1>4, <1>6 DEF Owners, Owned
  <2>2. \A b \in LiveSpaces : Owners'[b] = Owners[b]
    BY <1>4, <1>5, LiveSub DEF Owners
  <2>3. Partition(free, LiveSpaces, Owners)
    BY DEF TablesInv, OneOwner
  <2>4. Partition(free \ {p}, LiveSpaces \cup {as}, Owners')
    BY <1>1, <1>8, <2>1, <2>2, <2>3, PartitionJoin
  <2> QED BY <1>1, <1>4, <2>4 DEF OneOwner, Partition
<1>11. cr3' = kpt' \/ \E b \in LiveSpaces' : cr3' = Dir(b)'
  BY <1>1, <1>4, <1>5, LiveSub DEF TablesInv
<1>12. \A b \in LiveSpaces' : Directory(mem', Dir(b)')
  BY <1>4, <1>5, <1>7, LiveSub
<1>13. \A b \in Spaces : ptr'[b] = Zero \/ ptr'[b] = Entry(Dir(b)', {"P", "U"})
  BY <1>4 DEF TablesInv
<1> QED BY <1>1, <1>3, <1>4, <1>9, <1>10, <1>11, <1>12, <1>13 DEF TablesInv, UserTlbFresh

LEMMA UnprotectSound ==
    ASSUME Layout, TablesInv, NEW as \in Spaces, unprotect(as)
    PROVE  TablesInv'
<1>1. /\ ~user /\ as \in LiveSpaces /\ cr3 # Dir(as)
      /\ free' = free \cup teardown(Dir(as)) /\ ptr' = [ptr EXCEPT ![as] = Zero]
      /\ UNCHANGED <<mem, kpt, cr3, tlb, user>>
  BY DEF unprotect, LiveSpaces
<1>2. /\ LiveSpaces' = LiveSpaces \ {as} /\ ptr'[as] = Zero
      /\ \A b \in Spaces \ {as} : ptr'[b] = ptr[b] /\ Dir(b)' = Dir(b)
      /\ ptr' = [b \in Spaces |-> ptr'[b]]
  <2>1. /\ ptr'[as] = Zero /\ \A b \in Spaces \ {as} : ptr'[b] = ptr[b]
        /\ ptr' = [b \in Spaces |-> ptr'[b]]
    BY <1>1 DEF TablesInv
  <2>2. ~Present(ptr'[as])
    BY <2>1, PresentZero
  <2> QED BY <2>1, <2>2 DEF LiveSpaces, Live, Dir
<1>3. teardown(Dir(as)) = Owned(mem, Dir(as))
  <2> DEFINE dir == Dir(as)
  <2>1. Directory(mem, dir)
    BY <1>1 DEF TablesInv
  <2> HIDE DEF dir
  <2>2. ASSUME NEW i \in Index
        PROVE  {"P", "U"} \subseteq mem[dir][i].flags <=> i \in UserDirs /\ Present(mem[dir][i])
    <3>1. CASE i \in KernelDirs
      <4>1. mem[dir][i].flags = {"P", "W"}
        BY <2>1, <3>1, PresentZero DEF Directory, KernelEntry
      <4> QED BY <3>1, <4>1 DEF UserDirs
    <3>2. CASE i \notin KernelDirs
      <4>1. i \in UserDirs /\ TableEntry(mem[dir][i])
        BY <2>1, <3>2 DEF Directory, UserDirs
      <4> QED BY <4>1, PresentZero DEF TableEntry, Present
    <3> QED BY <3>1, <3>2
  <2>3. {i \in Index : {"P", "U"} \subseteq mem[dir][i].flags} = {i \in UserDirs : Present(mem[dir][i])}
    BY <2>2 DEF UserDirs
  <2>4. teardown(dir) = Owned(mem, dir)
    BY <2>3 DEF teardown, Owned, UserTables
  <2> QED BY <2>4 DEF dir
<1>4. OneOwner'
  <2>1. \A b \in LiveSpaces \ {as} : Owners'[b] = Owners[b]
    BY <1>1, <1>2, LiveSub DEF Owners
  <2>2. free' = free \cup Owners[as]
    BY <1>1, <1>3 DEF Owners
  <2>3. Owners[as] \subseteq Pages
    BY <1>1, OwnedPages DEF TablesInv, Owners
  <2>4. Partition(free, LiveSpaces, Owners)
    BY DEF TablesInv, OneOwner
  <2>5. Partition(free \cup Owners[as], LiveSpaces \ {as}, Owners')
    BY <1>1, <2>1, <2>3, <2>4, PartitionLeave
  <2> QED BY <1>2, <2>2, <2>5 DEF OneOwner, Partition
<1>5. cr3' = kpt' \/ \E b \in LiveSpaces' : cr3' = Dir(b)'
  BY <1>1, <1>2, LiveSub DEF TablesInv
<1>6. \A b \in LiveSpaces' : Directory(mem', Dir(b)')
  BY <1>1, <1>2, LiveSub DEF TablesInv
<1>7. \A b \in Spaces : ptr'[b] = Zero \/ ptr'[b] = Entry(Dir(b)', {"P", "U"})
  BY <1>2 DEF TablesInv
<1> QED BY <1>1, <1>2, <1>4, <1>5, <1>6, <1>7 DEF TablesInv, UserTlbFresh

(* What map and unmap write: the entry of va in the table pt of its        *)
(* directory entry, the table there was or a free page, zeroed.            *)
Writes(as, va, e, pt) ==
    /\ pt \in Pages \ {Dir(as)}
    /\ \/ /\ Present(mem[Dir(as)][va[1]]) /\ pt = mem[Dir(as)][va[1]].to
          /\ free' = free
          /\ \A i \in Index : mem'[pt][i] = IF i = va[2] THEN e ELSE mem[pt][i]
          /\ mem'[Dir(as)] = mem[Dir(as)]
          /\ Present(e) # Present(mem[pt][va[2]])
       \/ /\ ~Present(mem[Dir(as)][va[1]]) /\ pt \in free
          /\ free' = free \ {pt}
          /\ \A i \in Index : mem'[pt][i] = IF i = va[2] THEN e ELSE Zero
          /\ \A i \in Index : mem'[Dir(as)][i] = IF i = va[1] THEN Entry(pt, {"P", "W", "U"})
                                                ELSE mem[Dir(as)][i]
          /\ Present(e)
    /\ \A p \in Pages \ {Dir(as), pt} : mem'[p] = mem[p]
    /\ mem' \in [Pages -> [Index -> Entries]]

LEMMA SetEntryWrites ==
    ASSUME Layout, TablesInv, NEW as \in LiveSpaces, NEW va \in Vas, NEW e \in Entries,
           SetEntry(as, va, e)
    PROVE  \E pt \in Pages : Writes(as, va, e, pt)
<1> DEFINE dir == Dir(as)
           d == va[1]
           t == va[2]
           w == ptwalk(mem, free, dir, d, {"W", "U"})
<1>1. d \in UserDirs /\ d \in Index /\ t \in Index
  BY DEF Layout, UserDirs
<1>2. /\ mem \in [Pages -> [Index -> Entries]] /\ Directory(mem, dir) /\ dir \in Pages
  BY DEF TablesInv, Directory
<1>3. /\ Present(mem[dir][d]) \/ free # {}
      /\ Present(e) # Present(w.mem[w.pt][t])
      /\ mem' = [w.mem EXCEPT ![w.pt][t] = e] /\ free' = w.free
  BY DEF SetEntry, Enough
<1>4. CASE Present(mem[dir][d])
  <2> DEFINE pt == mem[dir][d].to
  <2>1. w = [mem |-> mem, free |-> free, pt |-> pt]
    BY <1>4 DEF ptwalk
  <2>2. pt \in Pages \ {dir}
    BY <1>1, <1>2, <1>4, PresentZero DEF Directory, TableEntry
  <2> HIDE DEF w, pt, dir, d, t
  <2>3. /\ mem' = [mem EXCEPT ![pt][t] = e] /\ free' = free /\ Present(e) # Present(mem[pt][t])
    BY <1>3, <2>1
  <2>4. /\ mem' \in [Pages -> [Index -> Entries]]
        /\ \A p \in Pages \ {pt} : mem'[p] = mem[p]
        /\ \A i \in Index : mem'[pt][i] = IF i = t THEN e ELSE mem[pt][i]
    BY <1>1, <1>2, <2>2, <2>3
  <2>5. pt = mem[dir][d].to
    BY DEF pt
  <2> QED BY <1>2, <1>4, <2>2, <2>3, <2>4, <2>5 DEF Writes, dir, d, t
<1>5. CASE ~Present(mem[dir][d])
  <2> DEFINE pt == pgalloc(free)
             f == Entry(pt, {"P"} \cup {"W", "U"})
             n == [Zeroed(mem, pt) EXCEPT ![dir][d] = f]
  <2>1. w = [mem |-> n, free |-> free \ {pt}, pt |-> pt]
    BY <1>5 DEF ptwalk
  <2>2. pt \in free
    BY <1>3, <1>5 DEF pgalloc
  <2>3. pt \in Pages /\ pt # dir /\ f \in Entries /\ f = Entry(pt, {"P", "W", "U"})
    <3>1. dir \in Owners[as] /\ pt \in Pages
      BY <2>2 DEF Owners, Owned, TablesInv, OneOwner, Partition
    <3>2. pt # dir
      BY <2>2, <3>1 DEF TablesInv, OneOwner, Partition
    <3>3. {"P"} \cup {"W", "U"} = {"P", "W", "U"}
      OBVIOUS
    <3> QED BY <3>1, <3>2, <3>3 DEF Entry, Entries
  <2>4. n = [mem EXCEPT ![pt] = [i \in Index |-> Zero], ![dir] = [mem[dir] EXCEPT ![d] = f]]
    BY <1>1, <1>2, <2>3 DEF Zeroed
  <2> HIDE DEF w, pt, dir, d, t, f, n
  <2>5. /\ n \in [Pages -> [Index -> Entries]]
        /\ \A p \in Pages \ {pt, dir} : n[p] = mem[p]
        /\ \A i \in Index : n[pt][i] = Zero
        /\ \A i \in Index : n[dir][i] = IF i = d THEN f ELSE mem[dir][i]
    BY <1>1, <1>2, <2>3, <2>4, PresentZero
  <2>6. /\ mem' = [n EXCEPT ![pt][t] = e] /\ free' = free \ {pt} /\ Present(e) # Present(n[pt][t])
    BY <1>3, <2>1
  <2>7. Present(e)
    <3>1. n[pt][t] = Zero
      BY <1>1, <2>5 DEF t
    <3>2. ("P" \in e.flags) # ("P" \in n[pt][t].flags)
      BY <2>6 DEF Present
    <3> QED BY <3>1, <3>2, PresentZero DEF Present
  <2>8. /\ mem' \in [Pages -> [Index -> Entries]]
        /\ \A p \in Pages \ {pt} : mem'[p] = n[p]
        /\ \A i \in Index : mem'[pt][i] = IF i = t THEN e ELSE n[pt][i]
    BY <1>1, <2>3, <2>5, <2>6
  <2>9. /\ \A i \in Index : mem'[pt][i] = IF i = t THEN e ELSE Zero
        /\ \A i \in Index : mem'[dir][i] = IF i = d THEN Entry(pt, {"P", "W", "U"}) ELSE mem[dir][i]
        /\ \A p \in Pages \ {dir, pt} : mem'[p] = mem[p]
    BY <1>2, <2>3, <2>5, <2>8
  <2> QED BY <1>5, <2>2, <2>3, <2>6, <2>7, <2>8, <2>9 DEF Writes, dir, d, t
<1> QED BY <1>4, <1>5

(* The directory after it.                                                 *)
LEMMA WritesDirectory ==
    ASSUME Layout, TablesInv, NEW as \in LiveSpaces, NEW va \in Vas, NEW e \in Entries, PageEntry(e),
           NEW pt \in Pages, Writes(as, va, e, pt)
    PROVE  /\ UserTables(mem', Dir(as)) = UserTables(mem, Dir(as)) \cup {pt}
           /\ pt \in free \/ pt \in UserTables(mem, Dir(as))
           /\ Directory(mem', Dir(as))
<1> DEFINE dir == Dir(as)
           d == va[1]
           t == va[2]
<1>1. d \in UserDirs /\ d \in Index /\ t \in Index /\ UserDirs \subseteq Index /\ KernelDirs \subseteq Index
      /\ d \notin KernelDirs
  BY DEF Layout, UserDirs
<1>2. Directory(mem, dir) /\ dir \in Pages /\ pt # dir
  BY DEF TablesInv, Directory, Writes
<1>3. CASE Present(mem[dir][d])
  <2>1. /\ pt = mem[dir][d].to
        /\ \A i \in Index : mem'[pt][i] = IF i = t THEN e ELSE mem[pt][i]
        /\ mem'[dir] = mem[dir]
        /\ \A p \in Pages \ {dir, pt} : mem'[p] = mem[p]
    BY <1>3 DEF Writes
  <2> HIDE DEF dir, d, t
  <2>2. UserTables(mem', dir) = UserTables(mem, dir) /\ pt \in UserTables(mem, dir)
    BY <1>1, <1>3, <2>1 DEF UserTables
  <2>3. UserTables(mem, dir) \subseteq Pages \ {dir}
    BY <1>2, OwnedPages DEF Directory, Owned, UserTables
  <2>4. ASSUME NEW q \in UserTables(mem, dir), NEW i \in Index PROVE PageEntry(mem'[q][i])
    <3>1. PageEntry(mem[q][i])
      BY <1>2 DEF Directory
    <3>2. CASE q = pt
      BY <2>1, <3>1, <3>2
    <3>3. CASE q # pt
      BY <2>1, <2>3, <3>1, <3>3
    <3> QED BY <3>2, <3>3
  <2>5. Directory(mem', dir)
    BY <1>2, <2>1, <2>2, <2>4 DEF Directory
  <2>6. UserTables(mem, dir) \cup {pt} = UserTables(mem, dir)
    BY <2>2
  <2> QED BY <2>2, <2>5, <2>6 DEF dir
<1>4. CASE ~Present(mem[dir][d])
  <2>1. /\ pt \in free
        /\ \A i \in Index : mem'[pt][i] = IF i = t THEN e ELSE Zero
        /\ \A i \in Index : mem'[dir][i] = IF i = d THEN Entry(pt, {"P", "W", "U"}) ELSE mem[dir][i]
        /\ \A p \in Pages \ {dir, pt} : mem'[p] = mem[p]
    BY <1>4 DEF Writes
  <2>2. pt \notin Owned(mem, dir)
    BY <2>1 DEF TablesInv, OneOwner, Partition, Owners
  <2> HIDE DEF dir, d, t
  <2>3. /\ mem'[dir][d].to = pt /\ mem'[dir][d].flags = {"P", "W", "U"} /\ Present(mem'[dir][d])
        /\ \A i \in Index \ {d} : mem'[dir][i] = mem[dir][i]
    BY <1>1, <2>1, PresentZero
  <2>4. {i \in UserDirs : Present(mem'[dir][i])} = {i \in UserDirs : Present(mem[dir][i])} \cup {d}
    BY <1>1, <2>3
  <2>5. UserTables(mem', dir) = UserTables(mem, dir) \cup {pt}
    <3>1. \A i \in {j \in UserDirs : Present(mem[dir][j])} : mem'[dir][i].to = mem[dir][i].to
      BY <1>1, <1>4, <2>3
    <3> QED BY <2>3, <2>4, <3>1 DEF UserTables
  <2>6. UserTables(mem, dir) \subseteq Pages \ {dir, pt}
    BY <1>2, <2>2, OwnedPages DEF Directory, Owned, UserTables
  <2>7. ASSUME NEW q \in UserTables(mem', dir), NEW i \in Index PROVE PageEntry(mem'[q][i])
    <3>1. CASE q = pt
      BY <2>1, <3>1 DEF PageEntry
    <3>2. CASE q # pt
      <4>1. q \in UserTables(mem, dir) /\ mem'[q] = mem[q]
        BY <2>1, <2>5, <2>6, <3>2
      <4> QED BY <1>2, <4>1 DEF Directory
    <3> QED BY <3>1, <3>2
  <2>8. \A i \in KernelDirs : mem'[dir][i] = KernelEntry(i)
    BY <1>1, <1>2, <2>3 DEF Directory
  <2>9. \A i \in UserDirs : TableEntry(mem'[dir][i]) /\ (Present(mem'[dir][i]) => mem'[dir][i].to # dir)
    <3> TAKE i \in UserDirs
    <3>1. CASE i = d
      BY <1>2, <2>3, <3>1 DEF TableEntry
    <3>2. CASE i # d
      BY <1>1, <1>2, <2>3, <3>2 DEF Directory
    <3> QED BY <3>1, <3>2
  <2>10. ASSUME NEW i \in UserDirs, NEW j \in UserDirs, Present(mem'[dir][i]), Present(mem'[dir][j]),
                mem'[dir][i].to = mem'[dir][j].to
         PROVE  i = j
    <3>1. \A k \in UserDirs \ {d} : Present(mem'[dir][k]) => mem'[dir][k].to # pt /\ mem'[dir][k] = mem[dir][k]
      BY <1>1, <2>3, <2>6 DEF UserTables
    <3>2. CASE i = d \/ j = d
      BY <2>3, <2>10, <3>1, <3>2
    <3>3. CASE i # d /\ j # d
      BY <1>2, <2>10, <3>1, <3>3 DEF Directory
    <3> QED BY <3>2, <3>3
  <2>11. Directory(mem', dir)
    BY <1>2, <2>7, <2>8, <2>9, <2>10 DEF Directory
  <2> QED BY <2>1, <2>5, <2>11 DEF dir
<1> QED BY <1>3, <1>4

(* The other spaces' pages are not among those written.                    *)
LEMMA WritesOthers ==
    ASSUME Layout, TablesInv, NEW as \in LiveSpaces, NEW va \in Vas, NEW e \in Entries, PageEntry(e),
           NEW pt \in Pages, Writes(as, va, e, pt)
    PROVE  /\ \A b \in LiveSpaces \ {as} : \A p \in Owned(mem, Dir(b)) : mem'[p] = mem[p]
           /\ \A p \in KernelPages : mem'[p] = mem[p]
<1>1. Partition(free, LiveSpaces, Owners)
  BY DEF TablesInv, OneOwner
<1>2. Dir(as) \in Owners[as] /\ (pt \in free \/ pt \in Owners[as])
  BY WritesDirectory DEF Owners, Owned
<1>3. ASSUME NEW b \in LiveSpaces \ {as}, NEW p \in Owned(mem, Dir(b)) PROVE mem'[p] = mem[p]
  <2>1. p \in Pages /\ p \in Owners[b]
    BY OwnedPages DEF TablesInv, Owners
  <2>2. p # Dir(as) /\ p # pt
    BY <1>1, <1>2, <2>1 DEF Partition
  <2> QED BY <2>1, <2>2 DEF Writes
<1>4. ASSUME NEW p \in KernelPages PROVE mem'[p] = mem[p]
  <2>1. p \in Pages
    BY KernelIs
  <2>2. p # Dir(as) /\ p # pt
    BY <1>1, <1>2 DEF Partition
  <2> QED BY <2>1, <2>2 DEF Writes
<1> QED BY <1>3, <1>4

LEMMA SetEntrySound ==
    ASSUME Layout, TablesInv, NEW as \in Spaces, NEW va \in Vas, NEW e \in Entries, PageEntry(e),
           SetEntry(as, va, e)
    PROVE  TablesInv'
<1>1. /\ ~user /\ as \in LiveSpaces /\ UNCHANGED <<kpt, ptr, cr3, tlb, user>>
  BY DEF SetEntry, LiveSpaces
<1>2. PICK pt \in Pages : Writes(as, va, e, pt)
  BY <1>1, SetEntryWrites
<1>3. LiveSpaces' = LiveSpaces /\ \A b \in Spaces : Dir(b)' = Dir(b)
  BY <1>1 DEF LiveSpaces, Live, Dir
<1>4. \A b \in LiveSpaces \ {as} : \A p \in Owned(mem, Dir(b)) : mem'[p] = mem[p]
  BY <1>1, <1>2, WritesOthers
<1>5. \A b \in LiveSpaces : Directory(mem', Dir(b)')
  <2>1. \A b \in LiveSpaces : Directory(mem, Dir(b))
    BY DEF TablesInv
  <2>2. Directory(mem', Dir(as))
    BY <1>1, <1>2, WritesDirectory
  <2> QED BY <1>3, <1>4, <2>1, <2>2, OwnedFrame, LiveSub
<1>6. Kernel(mem')
  <2>1. \A p \in KernelPages : mem'[p] = mem[p]
    BY <1>1, <1>2, WritesOthers
  <2> QED BY <2>1, KernelFrame DEF TablesInv
<1>7. OneOwner'
  <2>9. \A b \in LiveSpaces : Owners'[b] = Owned(mem', Dir(b)) /\ Owners[b] = Owned(mem, Dir(b))
    BY <1>3, LiveSub DEF Owners
  <2>1. \A b \in LiveSpaces \ {as} : Owners'[b] = Owners[b]
    <3> TAKE b \in LiveSpaces \ {as}
    <3>1. Owned(mem', Dir(b)) = Owned(mem, Dir(b))
      BY <1>4, OwnedFrame
    <3> QED BY <2>9, <3>1
  <2>2. Owners'[as] = Owners[as] \cup {pt}
    <3>1. UserTables(mem', Dir(as)) = UserTables(mem, Dir(as)) \cup {pt}
      BY <1>1, <1>2, WritesDirectory
    <3>2. Owned(mem', Dir(as)) = Owned(mem, Dir(as)) \cup {pt}
      BY <3>1 DEF Owned
    <3> QED BY <1>1, <2>9, <3>2
  <2>3. Partition(free, LiveSpaces, Owners)
    BY DEF TablesInv, OneOwner
  <2>4. CASE Present(mem[Dir(as)][va[1]])
    <3>1. pt = mem[Dir(as)][va[1]].to /\ free' = free /\ va[1] \in UserDirs
      <4>1. va[1] \in UserDirs
        BY DEF Layout
      <4> QED BY <1>2, <2>4, <4>1 DEF Writes
    <3>2. Owners'[as] = Owners[as]
      <4>1. pt \in Owned(mem, Dir(as))
        BY <2>4, <3>1 DEF Owned, UserTables
      <4>2. Owners[as] \cup {pt} = Owners[as]
        BY <1>1, <4>1 DEF Owners
      <4> QED BY <2>2, <4>2
    <3>3. \A b \in LiveSpaces : Owners'[b] = Owners[b]
      BY <2>1, <3>2
    <3>4. Partition(free, LiveSpaces, Owners')
      BY <2>3, <3>3 DEF Partition
    <3> QED BY <1>3, <3>1, <3>4 DEF OneOwner, Partition
  <2>5. CASE ~Present(mem[Dir(as)][va[1]])
    <3>1. pt \in free /\ free' = free \ {pt}
      BY <1>2, <2>5 DEF Writes
    <3>2. Partition(free \ {pt}, LiveSpaces, Owners')
      BY <1>1, <2>1, <2>2, <2>3, <3>1, PartitionGrow
    <3> QED BY <1>3, <3>1, <3>2 DEF OneOwner, Partition
  <2> QED BY <2>4, <2>5
<1>8. cr3' = kpt' \/ \E b \in LiveSpaces' : cr3' = Dir(b)'
  BY <1>1, <1>3, LiveSub DEF TablesInv
<1>9. \A b \in Spaces : ptr'[b] = Zero \/ ptr'[b] = Entry(Dir(b)', {"P", "U"})
  BY <1>1, <1>3 DEF TablesInv
<1>10. mem' \in [Pages -> [Index -> Entries]]
  BY <1>2 DEF Writes
<1>11. kpt' = vme_init.dir /\ ptr' = [b \in Spaces |-> ptr'[b]]
  BY <1>1 DEF TablesInv
<1> QED BY <1>1, <1>3, <1>5, <1>6, <1>7, <1>8, <1>9, <1>10, <1>11 DEF TablesInv, UserTlbFresh

LEMMA TablesStep ==
    ASSUME Layout, TablesInv, [PagingNext]_pagingVars
    PROVE  TablesInv'
<1>1. ASSUME NEW as \in Spaces, protect(as) PROVE TablesInv'
  BY <1>1, ProtectSound
<1>2. ASSUME NEW as \in Spaces, unprotect(as) PROVE TablesInv'
  BY <1>2, UnprotectSound
<1>3. ASSUME NEW as \in Spaces, NEW va \in Vas, NEW pa \in Pas, NEW w \in BOOLEAN, map(as, va, pa, w)
      PROVE  TablesInv'
  <2> DEFINE e == Entry(pa, {"P", "U"} \cup (IF w THEN {"W"} ELSE {}))
  <2>1. e \in Entries /\ PageEntry(e)
    BY DEF Entry, Entries, PageEntry
  <2>2. SetEntry(as, va, e)
    BY <1>3 DEF map
  <2> HIDE DEF e
  <2> QED BY <2>1, <2>2, SetEntrySound
<1>4. ASSUME NEW as \in Spaces, NEW va \in Vas, unmap(as, va) PROVE TablesInv'
  <2>1. Zero \in Entries /\ PageEntry(Zero)
    BY PresentZero DEF PageEntry
  <2> QED BY <1>4, <2>1, SetEntrySound DEF unmap
<1>5. ASSUME UNCHANGED <<mem, free, kpt, ptr>>, cr3' = cr3 \/ \E as \in LiveSpaces : cr3' = Dir(as), UserTlbFresh'
      PROVE  TablesInv'
  <2>1. LiveSpaces' = LiveSpaces /\ \A b \in Spaces : Dir(b)' = Dir(b)
    BY <1>5 DEF LiveSpaces, Live, Dir
  <2>2. OneOwner'
    <3>1. Owners' = Owners
      BY <1>5, <2>1, LiveSub DEF Owners
    <3> QED BY <1>5, <2>1, <3>1 DEF TablesInv, OneOwner, Partition
  <2>3. \A b \in LiveSpaces' : Directory(mem', Dir(b)')
    BY <1>5, <2>1, LiveSub DEF TablesInv
  <2>4. cr3' = kpt' \/ \E b \in LiveSpaces' : cr3' = Dir(b)'
    BY <1>5, <2>1, LiveSub DEF TablesInv
  <2>5. \A b \in Spaces : ptr'[b] = Zero \/ ptr'[b] = Entry(Dir(b)', {"P", "U"})
    BY <1>5, <2>1 DEF TablesInv
  <2> QED BY <1>5, <2>1, <2>2, <2>3, <2>4, <2>5 DEF TablesInv
<1>6. ASSUME NEW as \in Spaces, Return(as) PROVE TablesInv'
  <2>1. UNCHANGED <<mem, free, kpt, ptr>> /\ as \in LiveSpaces /\ cr3' = Dir(as) /\ tlb' = {}
    BY <1>6 DEF Return, LiveSpaces
  <2>2. UserTlbFresh'
    BY <2>1 DEF UserTlbFresh
  <2> QED BY <1>5, <2>1, <2>2
<1>7. ASSUME NEW va \in Vas, Access(va) PROVE TablesInv'
  <2>1. UNCHANGED <<mem, free, kpt, ptr, cr3, user>> /\ tlb' = tlb \cup {[va |-> va, entry |-> Walk(cr3, va)]}
    BY <1>7 DEF Access
  <2>2. UserTlbFresh'
    <3>1. \A x : Walk(cr3, x)' = Walk(cr3, x)
      BY <2>1 DEF Walk
    <3>2. user => \A c \in tlb : c.entry = Walk(cr3, c.va)
      BY DEF TablesInv, UserTlbFresh
    <3> HIDE DEF Walk
    <3>3. user => \A c \in tlb' : c.entry = Walk(cr3, c.va)
      BY <2>1, <3>2
    <3> QED BY <2>1, <3>1, <3>3 DEF UserTlbFresh
  <2> QED BY <1>5, <2>1, <2>2
<1>8. ASSUME Trap PROVE TablesInv'
  <2>1. UserTlbFresh' /\ UNCHANGED <<mem, free, kpt, ptr, cr3>>
    BY <1>8 DEF Trap, UserTlbFresh
  <2> QED BY <1>5, <2>1
<1>9. ASSUME UNCHANGED pagingVars PROVE TablesInv'
  <2>1. UNCHANGED <<mem, free, kpt, ptr, cr3, tlb, user>>
    BY <1>9 DEF pagingVars
  <2>2. UserTlbFresh'
    BY <2>1 DEF TablesInv, UserTlbFresh, Walk
  <2> QED BY <1>5, <2>1, <2>2
<1> QED BY <1>1, <1>2, <1>3, <1>4, <1>6, <1>7, <1>8, <1>9 DEF PagingNext

(* Every page has one owner, the kernel is mapped in every space and out   *)
(* of reach of user code, and user code runs on fresh translations only,   *)
(* in whatever order protect, map, unprotect and __am_irq_handle come.     *)
THEOREM TablesAlwaysSound ==
    ASSUME Layout
    PROVE  PagingSpec => []TablesSound
<1>1. PagingInit => TablesInv
  BY TablesInit
<1>2. TablesInv /\ [PagingNext]_pagingVars => TablesInv'
  BY TablesStep
<1>3. TablesInv => TablesSound
  BY InvSound
<1> QED BY <1>1, <1>2, <1>3, PTL DEF PagingSpec

-----------------------------------------------------------------------------
(* The refinement.  What a walk gives user code is one entry of a table of *)
(* the space.                                                              *)
Slot(m, dir, va) == IF va[1] \in UserDirs /\ Present(m[dir][va[1]])
                    THEN m[m[dir][va[1]].to][va[2]]
                    ELSE Zero

PageOf(va, e) == [va |-> va, pa |-> e.to, w |-> "W" \in e.flags]

InUse(m, dir) == {va \in Index \X Index : Present(Slot(m, dir, va))}
Reach(m, dir) == {PageOf(va, Slot(m, dir, va)) : va \in InUse(m, dir)}

LEMMA WalkIs ==
    ASSUME Layout, TablesInv, NEW as \in LiveSpaces, NEW va \in Index \X Index
    PROVE  /\ {"P", "U"} \subseteq Walk(Dir(as), va).flags <=> Present(Slot(mem, Dir(as), va))
           /\ Present(Slot(mem, Dir(as), va)) =>
                 PageOf(va, Walk(Dir(as), va)) = PageOf(va, Slot(mem, Dir(as), va))
<1> DEFINE dir == Dir(as)
           pde == mem[dir][va[1]]
           pte == mem[pde.to][va[2]]
           walk == Walk(dir, va)
           slot == Slot(mem, dir, va)
<1>1. Directory(mem, dir) /\ va[1] \in Index /\ va[2] \in Index
  BY DEF TablesInv
<1>2. CASE va[1] \in KernelDirs
  <2>1. pde.flags = {"P", "W"} /\ slot = Zero
    <3>1. pde = KernelEntry(va[1])
      BY <1>1, <1>2 DEF Directory
    <3>2. va[1] \notin UserDirs
      BY <1>2 DEF UserDirs
    <3> QED BY <3>1, <3>2, PresentZero DEF KernelEntry, Slot
  <2>2. walk.flags \subseteq {"P", "W"}
    <3>1. \E x \in {pte, Zero} : walk = Entry(x.to, x.flags \cap pde.flags)
      BY DEF Walk
    <3> HIDE DEF walk, pte, pde
    <3> QED BY <2>1, <3>1, PresentZero
  <2> QED BY <2>1, <2>2, PresentZero
<1>3. CASE va[1] \in UserDirs /\ ~Present(pde)
  <2>1. slot = Zero
    BY <1>3 DEF Slot
  <2>2. walk = Entry(Zero.to, Zero.flags \cap pde.flags)
    BY <1>3 DEF Walk
  <2>3. walk.flags = {}
    BY <2>2, PresentZero
  <2> QED BY <2>1, <2>3, PresentZero
<1>4. CASE va[1] \in UserDirs /\ Present(pde)
  <2>1. slot = pte /\ walk = Entry(pte.to, pte.flags \cap pde.flags)
    BY <1>4 DEF Slot, Walk
  <2>2. pde.flags = {"P", "W", "U"}
    BY <1>1, <1>4, PresentZero DEF Directory, TableEntry
  <2>3. PageEntry(pte)
    BY <1>1, <1>4 DEF Directory, UserTables
  <2>4. pte.flags = {} \/ pte.flags = {"P", "U"} \/ pte.flags = {"P", "U", "W"}
    BY <2>3, PresentZero DEF PageEntry
  <2> HIDE DEF walk, slot, pde, pte
  <2>5. walk.to = pte.to /\ walk.flags = pte.flags
    <3>1. walk.to = pte.to /\ walk.flags = pte.flags \cap pde.flags
      BY <2>1, PresentZero
    <3>2. pte.flags \cap pde.flags = pte.flags
      BY <2>2, <2>4
    <3> QED BY <3>1, <3>2
  <2> QED BY <2>1, <2>4, <2>5 DEF PageOf, Present, walk, slot
<1> QED BY <1>1, <1>2, <1>3, <1>4 DEF UserDirs

LEMMA ReachableIs ==
    ASSUME Layout, TablesInv
    PROVE  Reachable = [as \in Spaces |-> IF as \in LiveSpaces THEN Reach(mem, Dir(as)) ELSE {}]
<1>1. ASSUME NEW as \in LiveSpaces
      PROVE  {[va |-> va, pa |-> Walk(Dir(as), va).to, w |-> "W" \in Walk(Dir(as), va).flags]
                : va \in UserPages(Dir(as))} = Reach(mem, Dir(as))
  <2>1. UserPages(Dir(as)) = InUse(mem, Dir(as))
    BY WalkIs DEF UserPages, InUse
  <2>2. \A va \in InUse(mem, Dir(as)) :
           [va |-> va, pa |-> Walk(Dir(as), va).to, w |-> "W" \in Walk(Dir(as), va).flags]
              = PageOf(va, Slot(mem, Dir(as), va))
    BY WalkIs DEF InUse, PageOf
  <2> QED BY <2>1, <2>2 DEF Reach
<1>2. \A as \in Spaces : Live(as) <=> as \in LiveSpaces
  BY DEF LiveSpaces
<1> QED BY <1>1, <1>2 DEF Reachable

LEMMA ReachableNext ==
    ASSUME Layout
    PROVE  TablesInv' => Reachable' = [as \in Spaces |-> IF as \in LiveSpaces' THEN Reach(mem', Dir(as)') ELSE {}]
<1>1. TablesInv => Reachable = [as \in Spaces |-> IF as \in LiveSpaces THEN Reach(mem, Dir(as)) ELSE {}]
  BY ReachableIs
<1>2. (TablesInv => Reachable = [as \in Spaces |-> IF as \in LiveSpaces THEN Reach(mem, Dir(as)) ELSE {}])'
  BY <1>1, PTL
<1> QED BY <1>2

LEMMA ReachFrame ==
    ASSUME NEW m, NEW n, NEW dir, \A p \in Owned(m, dir) : n[p] = m[p]
    PROVE  Reach(n, dir) = Reach(m, dir)
<1>1. n[dir] = m[dir]
  BY DEF Owned
<1>2. ASSUME NEW va \in Index \X Index PROVE Slot(n, dir, va) = Slot(m, dir, va)
  <2>1. CASE va[1] \in UserDirs /\ Present(m[dir][va[1]])
    <3>1. n[m[dir][va[1]].to] = m[m[dir][va[1]].to]
      BY <2>1 DEF Owned, UserTables
    <3> QED BY <1>1, <2>1, <3>1 DEF Slot
  <2>2. CASE ~(va[1] \in UserDirs /\ Present(m[dir][va[1]]))
    BY <1>1, <2>2 DEF Slot
  <2> QED BY <2>1, <2>2
<1> QED BY <1>2 DEF Reach, InUse

(* Only the entry written changes.                                         *)
LEMMA WritesSlot ==
    ASSUME Layout, TablesInv, NEW as \in LiveSpaces, NEW va \in Vas, NEW e \in Entries, PageEntry(e),
           NEW pt \in Pages, Writes(as, va, e, pt)
    PROVE  /\ va \in Index \X Index
           /\ \A v \in Index \X Index :
                 Slot(mem', Dir(as), v) = IF v = va THEN e ELSE Slot(mem, Dir(as), v)
           /\ Present(e) # Present(Slot(mem, Dir(as), va))
<1> DEFINE dir == Dir(as)
           d == va[1]
           t == va[2]
<1>1. /\ va \in Index \X Index /\ d \in UserDirs /\ d \in Index /\ t \in Index /\ va = <<d, t>>
  BY DEF Layout, UserDirs
<1>2. Directory(mem, dir) /\ UserTables(mem, dir) \subseteq Pages \ {dir}
  <2>1. Directory(mem, dir)
    BY DEF TablesInv
  <2>2. UserTables(mem, dir) \subseteq Pages
    BY <2>1, OwnedPages DEF Owned
  <2>3. dir \notin UserTables(mem, dir)
    BY <2>1 DEF Directory, UserTables
  <2> QED BY <2>1, <2>2, <2>3
<1>3. CASE Present(mem[dir][d])
  <2>1. /\ pt = mem[dir][d].to
        /\ \A i \in Index : mem'[pt][i] = IF i = t THEN e ELSE mem[pt][i]
        /\ mem'[dir] = mem[dir]
        /\ \A p \in Pages \ {dir, pt} : mem'[p] = mem[p]
        /\ Present(e) # Present(mem[pt][t])
    BY <1>3 DEF Writes
  <2> HIDE DEF dir, d, t
  <2>2. Slot(mem, dir, va) = mem[pt][t]
    BY <1>1, <1>3, <2>1 DEF Slot, d, t
  <2>3. ASSUME NEW v \in Index \X Index
        PROVE  Slot(mem', dir, v) = IF v = va THEN e ELSE Slot(mem, dir, v)
    <3>1. CASE v[1] \in UserDirs /\ Present(mem[dir][v[1]])
      <4> DEFINE q == mem[dir][v[1]].to
      <4>1. q \in UserTables(mem, dir) /\ Slot(mem, dir, v) = mem[q][v[2]] /\ Slot(mem', dir, v) = mem'[q][v[2]]
        BY <2>1, <3>1 DEF UserTables, Slot
      <4>2. CASE v[1] = d
        <5>1. q = pt /\ v[2] \in Index /\ (v = va <=> v[2] = t)
          BY <1>1, <2>1, <4>2
        <5> QED BY <2>1, <4>1, <5>1
      <4>3. CASE v[1] # d
        <5>1. q # pt
          BY <1>1, <1>2, <1>3, <2>1, <3>1, <4>3 DEF Directory
        <5>2. mem'[q] = mem[q] /\ v # va
          BY <1>1, <1>2, <2>1, <4>1, <4>3, <5>1
        <5> QED BY <4>1, <5>2
      <4> QED BY <4>2, <4>3
    <3>2. CASE ~(v[1] \in UserDirs /\ Present(mem[dir][v[1]]))
      <4>1. v # va
        BY <1>1, <1>3, <3>2
      <4> QED BY <2>1, <3>2, <4>1 DEF Slot
    <3> QED BY <3>1, <3>2
  <2> QED BY <1>1, <2>1, <2>2, <2>3 DEF dir
<1>4. CASE ~Present(mem[dir][d])
  <2>1. /\ pt \in free
        /\ \A i \in Index : mem'[pt][i] = IF i = t THEN e ELSE Zero
        /\ \A i \in Index : mem'[dir][i] = IF i = d THEN Entry(pt, {"P", "W", "U"}) ELSE mem[dir][i]
        /\ \A p \in Pages \ {dir, pt} : mem'[p] = mem[p]
        /\ Present(e)
    BY <1>4 DEF Writes
  <2>2. pt \notin UserTables(mem, dir)
    BY <2>1 DEF TablesInv, OneOwner, Partition, Owners, Owned
  <2> HIDE DEF dir, d, t
  <2>3. /\ mem'[dir][d].to = pt /\ Present(mem'[dir][d])
        /\ \A i \in Index \ {d} : mem'[dir][i] = mem[dir][i]
    BY <1>1, <2>1, PresentZero
  <2>4. Slot(mem, dir, va) = Zero
    BY <1>4 DEF Slot, d
  <2>5. ASSUME NEW v \in Index \X Index
        PROVE  Slot(mem', dir, v) = IF v = va THEN e ELSE Slot(mem, dir, v)
    <3>1. CASE v[1] = d
      <4>1. Slot(mem', dir, v) = mem'[pt][v[2]] /\ Slot(mem, dir, v) = Zero
        BY <1>1, <1>4, <2>3, <3>1 DEF Slot
      <4>2. v[2] \in Index /\ (v = va <=> v[2] = t)
        BY <1>1, <3>1
      <4> QED BY <2>1, <4>1, <4>2
    <3>2. CASE v[1] # d
      <4>1. v # va /\ mem'[dir][v[1]] = mem[dir][v[1]]
        BY <1>1, <2>3, <3>2
      <4>2. CASE v[1] \in UserDirs /\ Present(mem[dir][v[1]])
        <5> DEFINE q == mem[dir][v[1]].to
        <5>1. q \in UserTables(mem, dir) /\ Slot(mem, dir, v) = mem[q][v[2]] /\ Slot(mem', dir, v) = mem'[q][v[2]]
          BY <4>1, <4>2 DEF UserTables, Slot
        <5>2. mem'[q] = mem[q]
          BY <1>2, <2>1, <2>2, <5>1
        <5> QED BY <4>1, <5>1, <5>2
      <4>3. CASE ~(v[1] \in UserDirs /\ Present(mem[dir][v[1]]))
        BY <4>1, <4>3 DEF Slot
      <4> QED BY <4>2, <4>3
    <3> QED BY <3>1, <3>2
  <2>6. Present(e) # Present(Slot(mem, dir, va))
    BY <2>1, <2>4, PresentZero DEF Present
  <2> QED BY <1>1, <2>5, <2>6 DEF dir
<1> QED BY <1>3, <1>4

(* A write changes the mappings of one space.                              *)
LEMMA OthersKeep ==
    ASSUME Layout, TablesInv, TablesInv', NEW as \in Spaces, NEW va \in Vas, NEW e \in Entries, PageEntry(e),
           SetEntry(as, va, e)
    PROVE  /\ as \in LiveSpaces /\ LiveSpaces' = LiveSpaces
           /\ Reachable' = [Reachable EXCEPT ![as] = Reach(mem', Dir(as))]
           /\ Reachable[as] = Reach(mem, Dir(as))
<1>1. as \in LiveSpaces /\ LiveSpaces' = LiveSpaces /\ \A b \in Spaces : Dir(b)' = Dir(b)
  BY DEF SetEntry, LiveSpaces, Live, Dir
<1>2. PICK pt \in Pages : Writes(as, va, e, pt)
  BY <1>1, SetEntryWrites
<1>3. \A b \in LiveSpaces \ {as} : \A p \in Owned(mem, Dir(b)) : mem'[p] = mem[p]
  BY <1>1, <1>2, WritesOthers
<1>4. \A b \in LiveSpaces \ {as} : Reach(mem', Dir(b)) = Reach(mem, Dir(b))
  BY <1>3, ReachFrame
<1>5. Reachable = [b \in Spaces |-> IF b \in LiveSpaces THEN Reach(mem, Dir(b)) ELSE {}]
  BY ReachableIs
<1>6. Reachable' = [b \in Spaces |-> IF b \in LiveSpaces THEN Reach(mem', Dir(b)) ELSE {}]
  <2>1. Reachable' = [b \in Spaces |-> IF b \in LiveSpaces' THEN Reach(mem', Dir(b)') ELSE {}]
    BY ReachableNext
  <2> QED BY <1>1, <2>1
<1> QED BY <1>1, <1>4, <1>5, <1>6

LEMMA MapImplements ==
    ASSUME Layout, TablesInv, TablesInv', NEW as \in Spaces, NEW va \in Vas, NEW pa \in Pas, NEW w \in BOOLEAN,
           map(as, va, pa, w)
    PROVE  A!Map(as, va, pa, w)
<1> DEFINE e == Entry(pa, {"P", "U"} \cup (IF w THEN {"W"} ELSE {}))
<1>1. /\ e \in Entries /\ PageEntry(e) /\ Present(e) /\ e.to = pa /\ ("W" \in e.flags <=> w)
  BY DEF Entry, Entries, PageEntry, Present
<1>2. SetEntry(as, va, e)
  BY DEF map
<1> HIDE DEF e
<1>3. as \in LiveSpaces /\ LiveSpaces' = LiveSpaces /\ \A b \in Spaces : Dir(b)' = Dir(b)
  BY <1>2 DEF SetEntry, LiveSpaces, Live, Dir
<1>4. /\ va \in Index \X Index
      /\ \A v \in Index \X Index : Slot(mem', Dir(as), v) = IF v = va THEN e ELSE Slot(mem, Dir(as), v)
      /\ ~Present(Slot(mem, Dir(as), va))
  <2>1. PICK pt \in Pages : Writes(as, va, e, pt)
    BY <1>1, <1>2, <1>3, SetEntryWrites
  <2>2. /\ va \in Index \X Index
        /\ \A v \in Index \X Index : Slot(mem', Dir(as), v) = IF v = va THEN e ELSE Slot(mem, Dir(as), v)
        /\ Present(e) # Present(Slot(mem, Dir(as), va))
    BY <1>1, <1>3, <2>1, WritesSlot
  <2>3. ~Present(Slot(mem, Dir(as), va))
    BY <1>1, <2>2 DEF Present
  <2> QED BY <2>2, <2>3
<1>5. Reach(mem', Dir(as)) = Reach(mem, Dir(as)) \cup {PageOf(va, e)}
  <2>1. InUse(mem', Dir(as)) = InUse(mem, Dir(as)) \cup {va}
    BY <1>1, <1>4 DEF InUse
  <2>2. \A v \in InUse(mem, Dir(as)) : Slot(mem', Dir(as), v) = Slot(mem, Dir(as), v)
    BY <1>4 DEF InUse
  <2> QED BY <1>4, <2>1, <2>2 DEF Reach
<1>6. Reachable \in [Spaces -> SUBSET UNION {Reach(mem, Dir(b)) : b \in Spaces}]
  BY ReachableIs
<1>7. /\ Reachable[as] = Reach(mem, Dir(as))
      /\ Reachable' = [Reachable EXCEPT ![as] = @ \cup {PageOf(va, e)}]
  BY <1>1, <1>2, <1>5, <1>6, OthersKeep
<1>8. PageOf(va, e) = A!Mapping(va, pa, w)
  BY <1>1 DEF PageOf, A!Mapping
<1>9. ~A!Mapped(as, va)
  <2>1. ASSUME NEW v \in InUse(mem, Dir(as)) PROVE PageOf(v, Slot(mem, Dir(as), v)).va # va
    BY <1>4 DEF InUse, PageOf
  <2> QED BY <1>7, <2>1 DEF A!Mapped, Reach
<1> QED BY <1>3, <1>7, <1>8, <1>9 DEF A!Map

LEMMA UnmapImplements ==
    ASSUME Layout, TablesInv, TablesInv', NEW as \in Spaces, NEW va \in Vas, unmap(as, va)
    PROVE  A!Unmap(as, va)
<1>1. Zero \in Entries /\ PageEntry(Zero) /\ ~Present(Zero) /\ SetEntry(as, va, Zero)
  BY PresentZero DEF PageEntry, unmap
<1>2. as \in LiveSpaces /\ LiveSpaces' = LiveSpaces
  BY <1>1, OthersKeep
<1>3. /\ va \in Index \X Index
      /\ \A v \in Index \X Index : Slot(mem', Dir(as), v) = IF v = va THEN Zero ELSE Slot(mem, Dir(as), v)
      /\ Present(Slot(mem, Dir(as), va))
  <2>1. PICK pt \in Pages : Writes(as, va, Zero, pt)
    BY <1>1, <1>2, SetEntryWrites
  <2>2. /\ va \in Index \X Index
        /\ \A v \in Index \X Index : Slot(mem', Dir(as), v) = IF v = va THEN Zero ELSE Slot(mem, Dir(as), v)
        /\ Present(Zero) # Present(Slot(mem, Dir(as), va))
    BY <1>1, <1>2, <2>1, WritesSlot
  <2>3. Present(Slot(mem, Dir(as), va))
    <3> DEFINE none == Zero.flags
               some == Slot(mem, Dir(as), va).flags
    <3>1. "P" \notin none /\ ("P" \in none) # ("P" \in some)
      BY <2>2, PresentZero DEF Present
    <3> HIDE DEF none, some
    <3>2. "P" \in some
      BY <3>1
    <3> QED BY <3>2 DEF Present, some
  <2> QED BY <2>2, <2>3
<1>4. Reach(mem', Dir(as)) = {x \in Reach(mem, Dir(as)) : x.va # va}
  <2>1. InUse(mem', Dir(as)) = InUse(mem, Dir(as)) \ {va}
    BY <1>1, <1>3 DEF InUse
  <2>2. \A v \in InUse(mem', Dir(as)) : Slot(mem', Dir(as), v) = Slot(mem, Dir(as), v)
    BY <1>1, <1>3 DEF InUse
  <2> DEFINE page == [v \in Index \X Index |-> PageOf(v, Slot(mem, Dir(as), v))]
  <2>3. \A v \in Index \X Index : page[v].va = v
    BY DEF PageOf
  <2>4. Reach(mem, Dir(as)) = {page[v] : v \in InUse(mem, Dir(as))}
    BY DEF Reach, InUse
  <2>5. Reach(mem', Dir(as)) = {page[v] : v \in InUse(mem, Dir(as)) \ {va}}
    BY <2>1, <2>2 DEF Reach, InUse
  <2>6. InUse(mem, Dir(as)) \subseteq Index \X Index
    BY DEF InUse
  <2> HIDE DEF page
  <2>7. ASSUME NEW x PROVE x \in Reach(mem', Dir(as)) <=> x \in Reach(mem, Dir(as)) /\ x.va # va
    BY <2>3, <2>4, <2>5, <2>6
  <2> QED BY <2>7
<1>5. /\ Reachable[as] = Reach(mem, Dir(as))
      /\ Reachable' = [Reachable EXCEPT ![as] = {x \in @ : x.va # va}]
  <2>1. Reachable \in [Spaces -> SUBSET UNION {Reach(mem, Dir(b)) : b \in Spaces}]
    BY ReachableIs
  <2> QED BY <1>1, <1>4, <2>1, OthersKeep
<1>6. A!Mapped(as, va)
  <2>1. va \in InUse(mem, Dir(as))
    BY <1>3 DEF InUse
  <2>2. PageOf(va, Slot(mem, Dir(as), va)) \in Reach(mem, Dir(as)) /\ PageOf(va, Slot(mem, Dir(as), va)).va = va
    BY <2>1 DEF Reach, PageOf
  <2> QED BY <1>5, <2>2 DEF A!Mapped
<1> QED BY <1>2, <1>5, <1>6 DEF A!Unmap

LEMMA ProtectKeeps ==
    ASSUME Layout, TablesInv, TablesInv', NEW as \in Spaces, protect(as)
    PROVE  /\ as \notin LiveSpaces /\ LiveSpaces' = LiveSpaces \cup {as}
           /\ \A b \in LiveSpaces : Dir(b)' = Dir(b) /\ \A p \in Owned(mem, Dir(b)) : mem'[p] = mem[p]
           /\ \A i \in UserDirs : ~Present(mem'[Dir(as)'][i])
<1> DEFINE p == pgalloc(free)
<1>1. /\ as \notin LiveSpaces /\ p \in free /\ p \in Pages /\ ptr' = [ptr EXCEPT ![as] = Entry(p, {"P", "U"})]
  <2>1. p \in free
    BY DEF protect, pgalloc
  <2> QED BY <2>1 DEF protect, LiveSpaces, TablesInv, OneOwner, Partition
<1>2. mem' = [Zeroed(mem, p) EXCEPT ![p] = [i \in Index |-> IF i \in KernelDirs THEN mem[kpt][i] ELSE @[i]]]
  BY DEF protect
<1> HIDE DEF p
<1>3. /\ \A q \in Pages \ {p} : mem'[q] = mem[q]
      /\ \A i \in Index \ KernelDirs : mem'[p][i] = Zero
  <2>1. mem \in [Pages -> [Index -> Entries]]
    BY DEF TablesInv
  <2>2. mem' = [mem EXCEPT ![p] = [i \in Index |-> IF i \in KernelDirs THEN mem[kpt][i] ELSE Zero]]
    BY <1>1, <1>2, <2>1 DEF Zeroed
  <2> QED BY <1>1, <2>1, <2>2
<1>4. ptr'[as] = Entry(p, {"P", "U"}) /\ \A b \in Spaces \ {as} : ptr'[b] = ptr[b]
  BY <1>1 DEF TablesInv
<1>5. LiveSpaces' = LiveSpaces \cup {as} /\ Dir(as)' = p /\ \A b \in Spaces \ {as} : Dir(b)' = Dir(b)
  <2>1. Present(ptr'[as]) /\ ptr'[as].to = p
    BY <1>4, PresentZero
  <2> QED BY <1>4, <2>1 DEF LiveSpaces, Live, Dir
<1>6. ASSUME NEW b \in LiveSpaces, NEW q \in Owned(mem, Dir(b)) PROVE mem'[q] = mem[q]
  <2>1. q \in Pages /\ q \in Owners[b]
    BY OwnedPages DEF TablesInv, Owners
  <2>2. q # p
    BY <1>1, <2>1 DEF TablesInv, OneOwner, Partition
  <2> QED BY <1>3, <2>1, <2>2
<1>7. \A i \in UserDirs : ~Present(mem'[Dir(as)'][i])
  BY <1>3, <1>5, PresentZero DEF UserDirs
<1> QED BY <1>1, <1>5, <1>6, <1>7, LiveSub

LEMMA ProtectImplements ==
    ASSUME Layout, TablesInv, TablesInv', NEW as \in Spaces, protect(as)
    PROVE  A!Protect(as)
<1>1. Reachable = [b \in Spaces |-> IF b \in LiveSpaces THEN Reach(mem, Dir(b)) ELSE {}]
  BY ReachableIs
<1>2. Reachable' = [b \in Spaces |-> IF b \in LiveSpaces' THEN Reach(mem', Dir(b)') ELSE {}]
  BY ReachableNext
<1>3. /\ as \notin LiveSpaces /\ LiveSpaces' = LiveSpaces \cup {as}
      /\ \A b \in LiveSpaces : Dir(b)' = Dir(b) /\ \A p \in Owned(mem, Dir(b)) : mem'[p] = mem[p]
      /\ \A i \in UserDirs : ~Present(mem'[Dir(as)'][i])
  BY ProtectKeeps
<1>4. \A b \in LiveSpaces : Reach(mem', Dir(b)') = Reach(mem, Dir(b))
  BY <1>3, ReachFrame
<1>5. Reach(mem', Dir(as)') = {}
  BY <1>3, PresentZero DEF Reach, InUse, Slot
<1>6. \A b \in Spaces : Reachable'[b] = Reachable[b]
  <2> TAKE b \in Spaces
  <2>1. CASE b = as
    BY <1>1, <1>2, <1>3, <1>5, <2>1
  <2>2. CASE b # as
    BY <1>1, <1>2, <1>3, <1>4, <2>2
  <2> QED BY <2>1, <2>2
<1>7. Reachable' = Reachable
  BY <1>1, <1>2, <1>6
<1> QED BY <1>3, <1>7 DEF A!Protect

LEMMA UnprotectImplements ==
    ASSUME Layout, TablesInv, TablesInv', NEW as \in Spaces, unprotect(as)
    PROVE  A!Unprotect(as)
<1>1. Reachable = [b \in Spaces |-> IF b \in LiveSpaces THEN Reach(mem, Dir(b)) ELSE {}]
  BY ReachableIs
<1>2. Reachable' = [b \in Spaces |-> IF b \in LiveSpaces' THEN Reach(mem', Dir(b)') ELSE {}]
  BY ReachableNext
<1>3. /\ as \in LiveSpaces /\ LiveSpaces' = LiveSpaces \ {as} /\ mem' = mem
      /\ \A b \in Spaces \ {as} : Dir(b)' = Dir(b)
  <2>1. /\ as \in LiveSpaces /\ ptr' = [ptr EXCEPT ![as] = Zero] /\ mem' = mem
    BY DEF unprotect, LiveSpaces
  <2>2. ptr'[as] = Zero /\ \A b \in Spaces \ {as} : ptr'[b] = ptr[b]
    BY <2>1 DEF TablesInv
  <2>3. ~Present(ptr'[as])
    BY <2>2, PresentZero
  <2> QED BY <2>1, <2>2, <2>3 DEF LiveSpaces, Live, Dir
<1>4. Reachable' = [Reachable EXCEPT ![as] = {}]
  BY <1>1, <1>2, <1>3
<1> QED BY <1>3, <1>4 DEF A!Unprotect

LEMMA StepImplements ==
    ASSUME Layout, TablesInv, TablesInv', [PagingNext]_pagingVars
    PROVE  [A!Next]_<<LiveSpaces, Reachable>>
<1>1. ASSUME NEW as \in Spaces, protect(as) PROVE A!Next
  BY <1>1, ProtectImplements DEF A!Next
<1>2. ASSUME NEW as \in Spaces, unprotect(as) PROVE A!Next
  BY <1>2, UnprotectImplements DEF A!Next
<1>3. ASSUME NEW as \in Spaces, NEW va \in Vas, NEW pa \in Pas, NEW w \in BOOLEAN, map(as, va, pa, w) PROVE A!Next
  <2>1. A!Map(as, va, pa, w)
    BY <1>3, MapImplements
  <2>2. Reachable' # Reachable
    <3>1. /\ A!Mapping(va, pa, w) \in Reachable'[as]
          /\ A!Mapping(va, pa, w) \notin Reachable[as]
      BY <2>1 DEF A!Map, A!Mapped, A!Mapping, Reachable
    <3> QED BY <3>1
  <2> QED BY <2>1, <2>2 DEF A!Next
<1>4. ASSUME NEW as \in Spaces, NEW va \in Vas, unmap(as, va) PROVE A!Next
  <2>1. A!Unmap(as, va)
    BY <1>4, UnmapImplements
  <2>2. Reachable' # Reachable
    <3>1. PICK e \in Reachable[as] : e.va = va
      BY <2>1 DEF A!Unmap, A!Mapped
    <3>2. e \notin Reachable'[as]
      BY <2>1, <3>1 DEF A!Unmap, Reachable
    <3> QED BY <3>1, <3>2
  <2> QED BY <2>1, <2>2 DEF A!Next
<1>5. ASSUME UNCHANGED <<mem, ptr>> PROVE UNCHANGED <<LiveSpaces, Reachable>>
  BY <1>5 DEF LiveSpaces, Live, Reachable, UserPages, Walk, Dir
<1>6. ASSUME NEW as \in Spaces, Return(as) PROVE UNCHANGED <<LiveSpaces, Reachable>>
  BY <1>5, <1>6 DEF Return
<1>7. ASSUME NEW va \in Vas, Access(va) PROVE UNCHANGED <<LiveSpaces, Reachable>>
  BY <1>5, <1>7 DEF Access
<1>8. ASSUME Trap PROVE UNCHANGED <<LiveSpaces, Reachable>>
  BY <1>5, <1>8 DEF Trap
<1>9. ASSUME UNCHANGED pagingVars PROVE UNCHANGED <<LiveSpaces, Reachable>>
  BY <1>5, <1>9 DEF pagingVars
<1> QED BY <1>1, <1>2, <1>3, <1>4, <1>6, <1>7, <1>8, <1>9 DEF PagingNext

(* What user code of every space reaches, by walks of tables that protect, *)
(* map and unprotect build from pages the spaces hand on to each other, is *)
(* what the calls on that space alone have left.                           *)
THEOREM TablesImplementSpaces ==
    ASSUME Layout
    PROVE  PagingSpec => ImplementsSpaces
<1>1. PagingInit => TablesInv
  BY TablesInit
<1>2. TablesInv /\ [PagingNext]_pagingVars => TablesInv'
  BY TablesStep
<1>3. PagingInit => A!Init
  <2> SUFFICES ASSUME PagingInit PROVE A!Init
    OBVIOUS
  <2>1. LiveSpaces = {}
    BY PresentZero DEF PagingInit, LiveSpaces, Live
  <2> QED BY <1>1, <2>1, ReachableIs DEF A!Init
<1>4. TablesInv /\ TablesInv' /\ [PagingNext]_pagingVars => [A!Next]_<<LiveSpaces, Reachable>>
  BY StepImplements
<1> QED BY <1>1, <1>2, <1>3, <1>4, PTL DEF PagingSpec, ImplementsSpaces, A!Spec
====
