---------------------------------- MODULE Vme ----------------------------------
(* Virtual memory of the x86 port (vme.c, two levels of tables): directories   *)
(* and tables in pages of the caller's allocator, the kernel's tables shared   *)
(* by all spaces, and a processor that caches translations until cr3 is        *)
(* loaded on the way out of __am_irq_handle.                                   *)
EXTENDS Naturals, FiniteSets

CONSTANTS Spaces,      \* AddrSpace structures
          Pages,       \* pages of pgalloc
          NI,          \* entries of a table
          KernelDirs,  \* directory entries of the kernel areas
          Vas,         \* user pages the kernel maps, <<directory, table>> indices
          Pas          \* physical pages it maps them to

Index == 0 .. NI - 1

UserDirs == Index \ KernelDirs

VARIABLES mem,    \* the entries of every page
          free,   \* pages the allocator has
          kpt,    \* directory of the kernel
          ptr,    \* as->ptr: entry for the directory of each space
          cr3,    \* directory in use
          tlb,    \* translations the processor has cached
          user    \* it runs a user program

pagingVars == <<mem, free, kpt, ptr, cr3, tlb, user>>

Entry(to, flags) == [to |-> to, flags |-> flags]

Zero == Entry(0, {})

Present(e) == "P" \in e.flags

(* Mutant: a page is used as the allocator left it. *)
Zeroed_Not(m, p) == m

(* pgallocz *)
Zeroed(m, p) == [m EXCEPT ![p] = [i \in Index |-> Zero]]

pgalloc(f) == CHOOSE p \in f : TRUE

(* ptwalk from a directory to the table of an address, made if it is missing:  *)
(* the memory, the free pages and the table.                                   *)
ptwalk(m, f, dir, d, flags) ==
    IF Present(m[dir][d])
    THEN [mem |-> m, free |-> f, pt |-> m[dir][d].to]
    ELSE LET p == pgalloc(f) IN
         [mem  |-> [Zeroed(m, p) EXCEPT ![dir][d] = Entry(p, {"P"} \cup flags)],
          free |-> f \ {p},
          pt   |-> p]

Enough(m, f, dir, d) == Present(m[dir][d]) \/ f # {}

------------------------------------------------------------------------------
(* The physical page of a kernel address is the address. *)
Identity(d, t) == d * NI + t

KernelTable(d) == [t \in Index |-> Entry(Identity(d, t), {"P", "W"})]

(* vme_init: pages for the kernel's directory and tables, all different. *)
vme_init == CHOOSE k \in [dir : Pages, table : [KernelDirs -> Pages]] :
    /\ \A d \in KernelDirs : k.table[d] # k.dir
    /\ \A d, e \in KernelDirs : d # e => k.table[d] # k.table[e]

PagingInit ==
    /\ kpt = vme_init.dir /\ cr3 = kpt
    /\ free = Pages \ ({kpt} \cup {vme_init.table[d] : d \in KernelDirs})
    /\ mem = [p \in Pages |->
                IF p = kpt
                THEN [i \in Index |-> IF i \in KernelDirs THEN Entry(vme_init.table[i], {"P", "W"}) ELSE Zero]
                ELSE IF \E d \in KernelDirs : p = vme_init.table[d]
                THEN KernelTable(CHOOSE d \in KernelDirs : p = vme_init.table[d])
                ELSE [i \in Index |-> Zero]]
    /\ ptr = [as \in Spaces |-> Zero]
    /\ tlb = {} /\ user = FALSE

Live(as) == Present(ptr[as])
Dir(as)  == ptr[as].to

protect(as) ==
    /\ ~ user /\ ~ Live(as) /\ free # {}
    /\ LET upt == pgalloc(free) IN
       /\ mem' = [Zeroed(mem, upt) EXCEPT ![upt] =
                    [i \in Index |-> IF i \in KernelDirs THEN mem[kpt][i] ELSE @[i]]]
       /\ ptr' = [ptr EXCEPT ![as] = Entry(upt, {"P", "U"})]
       /\ free' = free \ {upt}
    /\ UNCHANGED <<kpt, cr3, tlb, user>>

(* Mutant: the kernel's tables are freed too. *)
teardown_Kernel(dir) ==
    {dir} \cup {mem[dir][i].to : i \in {j \in Index : Present(mem[dir][j])}}

(* The pages teardown frees: the directory and the tables with a user entry in *)
(* it; the pages the tables point to belong to the caller.                     *)
teardown(dir) ==
    {dir} \cup {mem[dir][i].to : i \in {j \in Index : {"P", "U"} \subseteq mem[dir][j].flags}}

(* The caller gives up a space it is not running in, and forgets it. *)
unprotect(as) ==
    /\ ~ user /\ Live(as) /\ cr3 # Dir(as)
    /\ free' = free \cup teardown(Dir(as))
    /\ ptr' = [ptr EXCEPT ![as] = Zero]
    /\ UNCHANGED <<mem, kpt, cr3, tlb, user>>

(* The entry map is to write, or the panic that stops the machine. *)
SetEntry(as, va, e) ==
    /\ ~ user /\ Live(as) /\ Enough(mem, free, Dir(as), va[1])
    /\ LET w == ptwalk(mem, free, Dir(as), va[1], {"W", "U"}) IN
       /\ Present(e) # Present(w.mem[w.pt][va[2]])
       /\ mem' = [w.mem EXCEPT ![w.pt][va[2]] = e]
       /\ free' = w.free
    /\ UNCHANGED <<kpt, ptr, cr3, tlb, user>>

(* map with MMAP_READ, and with MMAP_WRITE if w *)
map(as, va, pa, w) == SetEntry(as, va, Entry(pa, {"P", "U"} \cup (IF w THEN {"W"} ELSE {})))

(* map with MMAP_NONE *)
unmap(as, va) == SetEntry(as, va, Zero)

------------------------------------------------------------------------------
(* The processor.  A walk gives the entry of an address with the flags both    *)
(* levels grant.                                                               *)
Walk(dir, va) ==
    LET pde == mem[dir][va[1]]
        pte == IF Present(pde) THEN mem[pde.to][va[2]] ELSE Zero
    IN  Entry(pte.to, pte.flags \cap pde.flags)

(* The kernel and the user program use user pages of the space they run in (the *)
(* kernel's own translations never change).                                   *)
Access(va) ==
    /\ \A c \in tlb : c.va # va
    /\ {"P"} \cup (IF user THEN {"U"} ELSE {}) \subseteq Walk(cr3, va).flags
    /\ tlb' = tlb \cup {[va |-> va, entry |-> Walk(cr3, va)]}
    /\ UNCHANGED <<mem, free, kpt, ptr, cr3, user>>

Trap ==
    /\ user
    /\ user' = FALSE
    /\ UNCHANGED <<mem, free, kpt, ptr, cr3, tlb>>

(* __am_irq_handle returns to a context of a space: ucontext has put its       *)
(* directory there.  Loading cr3 drops the cached translations.                *)
Return(as) ==
    /\ ~ user /\ Live(as)
    /\ user' = TRUE
    /\ cr3' = Dir(as)
    /\ tlb' = {}
    /\ UNCHANGED <<mem, free, kpt, ptr>>

PagingNext ==
    \/ \E as \in Spaces :
        \/ protect(as) \/ unprotect(as) \/ Return(as)
        \/ \E va \in Vas : unmap(as, va) \/ \E pa \in Pas, w \in BOOLEAN : map(as, va, pa, w)
    \/ \E va \in Vas : Access(va)
    \/ Trap

PagingSpec == PagingInit /\ [][PagingNext]_pagingVars

------------------------------------------------------------------------------
(* The pages user code can reach through a directory. *)
UserPages(dir) == {va \in Index \X Index : {"P", "U"} \subseteq Walk(dir, va).flags}

LiveSpaces == {as \in Spaces : Live(as)}

(* What user code of each space can use, as the calls of am.h state it. *)
Reachable ==
    [as \in Spaces |->
        IF Live(as)
        THEN {[va |-> va, pa |-> Walk(Dir(as), va).to, w |-> "W" \in Walk(Dir(as), va).flags]
                : va \in UserPages(Dir(as))}
        ELSE {}]

A == INSTANCE AddrSpaces WITH live <- LiveSpaces, maps <- Reachable

(* The tables implement the abstract spaces: what user code reaches, by a walk *)
(* of the hardware, is what the calls of map on its own space have left.       *)
ImplementsSpaces == A!Spec

(* The tables of a space, by its user directory entries. *)
Tables(as) == {mem[Dir(as)][d].to : d \in {d \in UserDirs : Present(mem[Dir(as)][d])}}

KernelTables == {kpt} \cup {mem[kpt][d].to : d \in KernelDirs}

(* Every page the allocator gave out is a table of exactly one owner, the      *)
(* kernel or a live space: unprotect frees all of a space and nothing else.    *)
PagesAccounted ==
    /\ free \cap KernelTables = {}
    /\ \A as \in LiveSpaces : ({Dir(as)} \cup Tables(as)) \cap (free \cup KernelTables) = {}
    /\ \A as \in LiveSpaces : Dir(as) \notin Tables(as)
    /\ \A as, bs \in LiveSpaces : as # bs =>
          ({Dir(as)} \cup Tables(as)) \cap ({Dir(bs)} \cup Tables(bs)) = {}
    /\ Pages = free \cup KernelTables \cup UNION {{Dir(as)} \cup Tables(as) : as \in LiveSpaces}

(* Whatever space is loaded, the kernel is mapped where it runs, writable, and *)
(* out of reach of user code.                                                  *)
KernelMapped ==
    \A dir \in {cr3} \cup {Dir(as) : as \in LiveSpaces}, d \in KernelDirs, t \in Index :
        Walk(dir, <<d, t>>) = Entry(Identity(d, t), {"P", "W"})

(* A user program never runs on a translation that map has changed since: the  *)
(* cached ones are those of its tables.                                        *)
UserTlbFresh == user => \A c \in tlb : c.entry = Walk(cr3, c.va)

(* What the tables of the kernel and of the spaces promise together. *)
TablesSound == PagesAccounted /\ KernelMapped /\ UserTlbFresh
================================================================================
