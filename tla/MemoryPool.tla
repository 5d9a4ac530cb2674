------------------------------ MODULE MemoryPool ------------------------------
(***************************************************************************)
(* Stack/Memory: the pools from which nodes and the hardware's buffers come.   *)
(* A free node is linked through itself and holds its physical address there; *)
(* who allocates a node of an aligned pool reads the address before it is      *)
(* overwritten, and says it again when the node is freed.  A pool takes all it *)
(* does under its semaphore, so each call is one step here.                    *)
(*                                                                         *)
(* A block of the aligned pool is named by its physical address.               *)
(***************************************************************************)
EXTENDS Naturals, Sequences, FiniteSets

CONSTANTS
    Users,     \* the owners of nodes
    Careless,  \* those of them that free a node with address 0 (the xHCI driver)
    Pages,     \* the pages the system may give, by number
    PerPage,   \* nodes of the aligned pool in a page
    Free_Max,  \* 25: nodes a pool that is not aligned keeps
    MaxHeld    \* bound: nodes an owner has of each pool

MemoryPoolAssumption ==
    /\ Careless \subseteq Users /\ Pages \subseteq Nat
    /\ PerPage \in Nat \ {0} /\ Free_Max \in Nat /\ MaxHeld \in Nat

Blocks == UNION {{p * PerPage + i : i \in 0 .. PerPage - 1} : p \in Pages}
\* A page's nodes in the order in which they are put on the free list: the last comes first.
NodesOf(p) == [i \in 1 .. PerPage |-> p * PerPage + PerPage - i]

VARIABLES
    free,       \* mhn_Free_Nodes: a list of blocks
    mfn_Addr,   \* the address in a free node
    pages,      \* Align.Pages
    mpn_Free,   \* free nodes of a page
    held,       \* per owner: nodes, with the address that was read from them
    plain,      \* per owner: how many nodes of the pool that is not aligned
    list, Free_Count, Total_Count,  \* that pool's free list (its length) and counters
    forgotten,  \* history: blocks that were freed with address 0
    returned,   \* pages the cleanup gave back
    up

alignedVars == <<free, mfn_Addr, pages, mpn_Free, held, forgotten>>
plainVars   == <<plain, list, Free_Count, Total_Count>>
vars == <<alignedVars, plainVars, returned, up>>

Init ==
    /\ free = <<>> /\ mfn_Addr = [b \in Blocks |-> b] /\ pages = {} /\ mpn_Free = [p \in Pages |-> 0]
    /\ held = [u \in Users |-> {}] /\ forgotten = {}
    /\ plain = [u \in Users |-> 0] /\ list = 0 /\ Free_Count = 0 /\ Total_Count = 0
    /\ returned = {} /\ up = TRUE

-----------------------------------------------------------------------------
(* Aligned pools. *)

\* The pages whose range an address is in: none or one.
PageOf(a) == {p \in pages' : p * PerPage <= a /\ a < (p + 1) * PerPage}
CountFree(p, a) == IF p \in PageOf(a) THEN 1 ELSE 0

\* __Add_Aligned(): a new page in front of an empty list.  A node at address 0, which is the last
\* of page 0 in this order, is thrown away.
Usable(p) == [i \in 1 .. (IF p = 0 THEN PerPage - 1 ELSE PerPage) |-> NodesOf(p)[i]]

Take(u, b, rest, counts) ==
    /\ free' = rest
    /\ held' = [held EXCEPT ![u] = @ \cup {[block |-> b, addr |-> mfn_Addr[b]]}]
    /\ mpn_Free' = [p \in Pages |-> counts[p] - CountFree(p, mfn_Addr[b])]
    /\ UNCHANGED <<mfn_Addr, forgotten>>

Alloc(u) ==
    /\ up /\ Cardinality(held[u]) < MaxHeld
    /\ \/ free # <<>> /\ UNCHANGED pages /\ Take(u, Head(free), Tail(free), mpn_Free)
       \/ /\ free = <<>>
          /\ \E p \in Pages \ pages :
                /\ pages' = pages \cup {p}
                /\ LET new == [mpn_Free EXCEPT ![p] = Len(Usable(p))]
                   IN  IF Usable(p) = <<>> THEN mpn_Free' = new /\ UNCHANGED <<free, mfn_Addr, held, forgotten>>
                       ELSE Take(u, Head(Usable(p)), Tail(Usable(p)), new)
    /\ UNCHANGED <<plainVars, returned, up>>

\* Variant: the node keeps the address that is in it (the owner has overwritten it).
AddressGarbage(u, x) == 0
AddressSaid(u, x) == IF u \in Careless THEN 0 ELSE x.addr

Free(u, x) ==
    /\ up /\ x \in held[u]
    /\ held' = [held EXCEPT ![u] = @ \ {x}]
    /\ free' = <<x.block>> \o free
    /\ mfn_Addr' = [mfn_Addr EXCEPT ![x.block] = AddressSaid(u, x)]
    /\ UNCHANGED pages
    /\ mpn_Free' = [p \in Pages |-> mpn_Free[p] + CountFree(p, AddressSaid(u, x))]
    /\ forgotten' = IF u \in Careless THEN forgotten \cup {x.block} ELSE forgotten
    /\ UNCHANGED <<plainVars, returned, up>>

-----------------------------------------------------------------------------
(* Pools that are not aligned. *)

AllocPlain(u) ==
    /\ up /\ plain[u] < MaxHeld
    /\ IF list > 0 THEN list' = list - 1 /\ Free_Count' = Free_Count - 1 /\ UNCHANGED Total_Count
       ELSE Total_Count' = Total_Count + 1 /\ UNCHANGED <<list, Free_Count>>
    /\ plain' = [plain EXCEPT ![u] = @ + 1]
    /\ UNCHANGED <<alignedVars, returned, up>>

Full == Free_Count >= Free_Max
FreePlain(u) ==
    /\ up /\ plain[u] > 0
    /\ plain' = [plain EXCEPT ![u] = @ - 1]
    /\ IF Full THEN Total_Count' = Total_Count - 1 /\ UNCHANGED <<list, Free_Count>>
       ELSE list' = list + 1 /\ Free_Count' = Free_Count + 1 /\ UNCHANGED Total_Count
    /\ UNCHANGED <<alignedVars, returned, up>>

-----------------------------------------------------------------------------

\* __Memory_Cleanup(), when the device is expunged: a page goes back to the system when all
\* its nodes are free.  mpn_Total counts a node that was thrown away as well.
Cleanup ==
    /\ up /\ \A u \in Users : held[u] = {} /\ plain[u] = 0
    /\ up' = FALSE
    /\ returned' = {p \in pages : mpn_Free[p] = PerPage}
    /\ list' = 0 /\ Free_Count' = 0 /\ Total_Count' = Total_Count - list
    /\ UNCHANGED <<alignedVars, plain>>

Next ==
    \/ \E u \in Users : Alloc(u) \/ (\E x \in held[u] : Free(u, x)) \/ AllocPlain(u) \/ FreePlain(u)
    \/ Cleanup

Spec == Init /\ [][Next]_vars

-----------------------------------------------------------------------------
(* Properties. *)

HeldBy(u) == {x.block : x \in held[u]}
FreeBlocks == {free[i] : i \in DOMAIN free}

TypeOK ==
    /\ free \in Seq(Blocks) /\ mfn_Addr \in [Blocks -> Blocks \cup {0}] /\ pages \subseteq Pages
    /\ mpn_Free \in [Pages -> Nat]
    /\ held \in [Users -> SUBSET [block : Blocks, addr : Blocks \cup {0}]]
    /\ plain \in [Users -> 0 .. MaxHeld] /\ {list, Free_Count, Total_Count} \subseteq Nat
    /\ forgotten \subseteq Blocks /\ returned \subseteq pages /\ up \in BOOLEAN

\* Every node of a page is on the free list or has one owner, except the one at address 0.
OneOwner ==
    /\ Len(free) = Cardinality(FreeBlocks)
    /\ \A u \in Users : HeldBy(u) \cap FreeBlocks = {}
    /\ \A u, v \in Users : u # v => HeldBy(u) \cap HeldBy(v) = {}
    /\ FreeBlocks \cup UNION {HeldBy(u) : u \in Users}
         = (UNION {{NodesOf(p)[i] : i \in 1 .. PerPage} : p \in pages}) \ {0}
\* What an owner takes for the physical address of a node is its address, unless the node was
\* freed with address 0 before.
AddressTrue == \A u \in Users : \A x \in held[u] : x.addr = x.block \/ x.block \in forgotten
\* A pool that is not aligned never keeps more than its limit and its counters are exact.
CountersExact ==
    /\ Free_Count = list /\ list <= Free_Max
    /\ up => Total_Count >= list
\* The cleanup gives every page back, except the one with address 0 and, if nodes were freed
\* with address 0, theirs.
PagesReturned ==
    (~up /\ forgotten = {}) => \A p \in pages : p \in returned \/ \E i \in 1 .. PerPage : NodesOf(p)[i] = 0
\* What __Add_Aligned() makes sure of: no node has physical address 0.
NotPhy0 == \A u \in Users : \A x \in held[u] : x.addr # 0

\* Each node has one owner who knows its address, and the pool knows its nodes.
PoolIsSound == TypeOK /\ OneOwner /\ AddressTrue /\ CountersExact /\ PagesReturned

-----------------------------------------------------------------------------
(* Why it is so: a free node says its address or has been freed with address 0, and a page *)
(* counts the free nodes that say an address of its own.                       *)

InPage(p, a) == p * PerPage <= a /\ a < (p + 1) * PerPage
NodesOfPages == UNION {{NodesOf(p)[i] : i \in 1 .. PerPage} : p \in pages}

NoneTwice ==
    /\ \A i, j \in DOMAIN free : free[i] = free[j] => i = j
    /\ \A u \in Users : \A x, y \in held[u] : x.block = y.block => x = y
Owners ==
    /\ \A u \in Users : HeldBy(u) \cap FreeBlocks = {}
    /\ \A u, v \in Users : u # v => HeldBy(u) \cap HeldBy(v) = {}
    /\ FreeBlocks \cup UNION {HeldBy(u) : u \in Users} = NodesOfPages \ {0}
AddressesSaid ==
    /\ \A b \in Blocks : mfn_Addr[b] = b \/ b \in forgotten
    /\ forgotten \subseteq NodesOfPages

\* Nodes freed with address 0 are counted for a page that is there when they are freed, and
\* one that comes later does not count them: it may count more than are free, but never less.
Counted(p) == {b \in FreeBlocks : InPage(p, mfn_Addr[b])}
CountsRight ==
    /\ \A p \in pages : mpn_Free[p] >= Cardinality(Counted(p))
                        /\ (forgotten = {} => mpn_Free[p] = Cardinality(Counted(p)))
    /\ \A p \in Pages \ pages : mpn_Free[p] = 0

\* The nodes of the pool that is not aligned which its owners have.
PlainNodes == {n \in Users \X (1 .. MaxHeld) : n[2] <= plain[n[1]]}
PlainCounted ==
    /\ Free_Count = list /\ list <= Free_Max
    /\ up => IsFiniteSet(PlainNodes) /\ Total_Count = list + Cardinality(PlainNodes)

PoolInvariant ==
    /\ TypeOK /\ NoneTwice /\ Owners /\ AddressTrue /\ AddressesSaid /\ CountsRight
    /\ PlainCounted /\ PagesReturned

=============================================================================
