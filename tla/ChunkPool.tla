------------------------------ MODULE ChunkPool ------------------------------
(***************************************************************************)
(* The lock-free cache of chunks between the bump arenas and the kernel:   *)
(* crates/fspy_nostd_alloc/src/pool.rs over src/mmap.rs.                   *)
(*                                                                         *)
(* Every thread of the traced program allocates and returns blocks, each   *)
(* load, swap and exchange of a slot a step of its own.  A signal handler  *)
(* that runs inside an operation is one more thread here, and a fork       *)
(* leaves a child in which the other threads have died where they stood.   *)
(***************************************************************************)
EXTENDS Integers

CONSTANTS
  Threads,
  Addresses,    \* where the kernel can place a mapping
  Null,
  SlotCount,    \* SLOTS
  ChunkSize,    \* CHUNK_SIZE
  Page,         \* page_size()
  Requests      \* bound: the sizes that are asked for

Slots == 1 .. SlotCount

RoundUp(n) == ((n + Page - 1) \div Page) * Page

ASSUME PoolAssumption ==
  /\ Null \notin Addresses
  /\ SlotCount \in Nat
  /\ ChunkSize \in Nat \ {0} /\ Page \in Nat \ {0}
  /\ Requests \subseteq Nat
  /\ RoundUp(ChunkSize) = ChunkSize

VARIABLES
  slots,        \* the array of atomic pointers
  mapped,       \* the kernel: the length of the mapping at an address, or 0
  asked,        \* the size each block in use was requested with
  owned,        \* the blocks each thread's arenas have
  doing,        \* where each thread is in allocate() or deallocate()
  scan,         \* the slot it looks at
  hand,         \* the block it is giving back
  size          \* layout.size()

poolVars == <<slots, mapped, asked, owned, doing, scan, hand, size>>

PoolInit ==
  /\ slots = [i \in Slots |-> Null]
  /\ mapped = [a \in Addresses |-> 0]
  /\ asked = [a \in Addresses |-> 0]
  /\ owned = [t \in Threads |-> {}]
  /\ doing = [t \in Threads |-> "idle"]
  /\ scan = [t \in Threads |-> 1]
  /\ hand = [t \in Threads |-> Null]
  /\ size = [t \in Threads |-> 0]

Goto(t, where) == doing' = [doing EXCEPT ![t] = where]

NextSlot(t) == scan' = [scan EXCEPT ![t] = @ + 1]

(* The call is over, or its thread is; its local variables go with it.     *)
Leave(t, where) ==
  /\ Goto(t, where)
  /\ scan' = [scan EXCEPT ![t] = 1]
  /\ size' = [size EXCEPT ![t] = 0]

Receive(t, a) ==
  /\ owned' = [owned EXCEPT ![t] = @ \cup {a}]
  /\ asked' = [asked EXCEPT ![a] = size[t]]
  /\ Leave(t, "idle")

-----------------------------------------------------------------------------
(* allocate().  A request above CHUNK_SIZE goes to the kernel at once; a   *)
(* request of zero bytes is refused.                                       *)

BeginAllocate(t, n) ==
  /\ doing[t] = "idle"
  /\ n # 0
  /\ Goto(t, IF n > ChunkSize THEN "mapping" ELSE "looking")
  /\ size' = [size EXCEPT ![t] = n]
  /\ UNCHANGED <<slots, mapped, asked, owned, scan, hand>>

(* slot.load(): an empty slot is passed over.                              *)
LookForChunk(t) ==
  /\ doing[t] = "looking"
  /\ scan[t] \in Slots
  /\ IF slots[scan[t]] = Null
       THEN NextSlot(t) /\ UNCHANGED doing
       ELSE Goto(t, "swapping") /\ UNCHANGED scan
  /\ UNCHANGED <<slots, mapped, asked, owned, hand, size>>

(* Mutant: the pointer is loaded, and the slot left as it is.              *)
LoadOut(t) ==
  /\ doing[t] = "swapping"
  /\ IF slots[scan[t]] = Null
       THEN NextSlot(t) /\ Goto(t, "looking") /\ UNCHANGED <<asked, owned, size>>
       ELSE Receive(t, slots[scan[t]])
  /\ UNCHANGED <<slots, mapped, hand>>

(* slot.swap(null): whoever gets the pointer is its owner; a thread that   *)
(* came second gets null and goes on.                                      *)
SwapOut(t) ==
  /\ doing[t] = "swapping"
  /\ LET chunk == slots[scan[t]] IN
       IF chunk = Null
         THEN NextSlot(t) /\ Goto(t, "looking") /\ UNCHANGED <<asked, owned, size>>
         ELSE Receive(t, chunk)
  /\ slots' = [slots EXCEPT ![scan[t]] = Null]
  /\ UNCHANGED <<mapped, hand>>

NoChunkCached(t) ==
  /\ doing[t] = "looking"
  /\ scan[t] \notin Slots
  /\ Goto(t, "mapping")
  /\ UNCHANGED <<slots, mapped, asked, owned, scan, hand, size>>

(* MmapAllocator::allocate: whole pages, for a whole chunk or for a block  *)
(* that is bigger than one.                                                *)
Length(n) == RoundUp(IF n > ChunkSize THEN n ELSE ChunkSize)

Map(t, a) ==
  /\ doing[t] = "mapping"
  /\ mapped[a] = 0
  /\ mapped' = [mapped EXCEPT ![a] = Length(size[t])]
  /\ Receive(t, a)
  /\ UNCHANGED <<slots, hand>>

MapFails(t) ==
  /\ doing[t] = "mapping"
  /\ Leave(t, "idle")
  /\ UNCHANGED <<slots, mapped, asked, owned, hand>>

-----------------------------------------------------------------------------
(* deallocate().  The caller may pass any size from the one it asked for   *)
(* to the length of the block it was given.                                *)

Granted(a) == IF asked[a] > ChunkSize THEN mapped[a] ELSE ChunkSize

(* Mutant: every block is offered to the cache.                            *)
AlwaysOffered(n) == "offering"

Destination(n) == IF n > ChunkSize THEN "unmapping" ELSE "offering"

BeginDeallocate(t, a, n) ==
  /\ doing[t] = "idle"
  /\ a \in owned[t]
  /\ n \in asked[a] .. Granted(a)
  /\ owned' = [owned EXCEPT ![t] = @ \ {a}]
  /\ hand' = [hand EXCEPT ![t] = a]
  /\ size' = [size EXCEPT ![t] = n]
  /\ asked' = [asked EXCEPT ![a] = 0]
  /\ Goto(t, Destination(n))
  /\ UNCHANGED <<slots, mapped, scan>>

(* slot.load(): a full slot is passed over.                                *)
LookForRoom(t) ==
  /\ doing[t] = "offering"
  /\ scan[t] \in Slots
  /\ IF slots[scan[t]] # Null
       THEN NextSlot(t) /\ UNCHANGED doing
       ELSE Goto(t, "exchanging") /\ UNCHANGED scan
  /\ UNCHANGED <<slots, mapped, asked, owned, hand, size>>

(* Mutant: the pointer is stored where the load found the slot empty.      *)
StoreIn(t) ==
  /\ doing[t] = "exchanging"
  /\ slots' = [slots EXCEPT ![scan[t]] = hand[t]]
  /\ hand' = [hand EXCEPT ![t] = Null]
  /\ Leave(t, "idle")
  /\ UNCHANGED <<mapped, asked, owned>>

(* Mutant: a lost exchange begins the scan again.                          *)
ExchangeInAgain(t) ==
  /\ doing[t] = "exchanging"
  /\ IF slots[scan[t]] = Null
       THEN /\ slots' = [slots EXCEPT ![scan[t]] = hand[t]]
            /\ hand' = [hand EXCEPT ![t] = Null]
            /\ Leave(t, "idle")
       ELSE /\ scan' = [scan EXCEPT ![t] = 1]
            /\ Goto(t, "offering")
            /\ UNCHANGED <<slots, hand, size>>
  /\ UNCHANGED <<mapped, asked, owned>>

(* slot.compare_exchange(null, ptr): another thread may have filled it.    *)
ExchangeIn(t) ==
  /\ doing[t] = "exchanging"
  /\ IF slots[scan[t]] = Null
       THEN /\ slots' = [slots EXCEPT ![scan[t]] = hand[t]]
            /\ hand' = [hand EXCEPT ![t] = Null]
            /\ Leave(t, "idle")
       ELSE /\ NextSlot(t)
            /\ Goto(t, "offering")
            /\ UNCHANGED <<slots, hand, size>>
  /\ UNCHANGED <<mapped, asked, owned>>

(* The cache is full: the chunk goes back to the kernel, as a whole chunk. *)
NoRoom(t) ==
  /\ doing[t] = "offering"
  /\ scan[t] \notin Slots
  /\ Goto(t, "unmapping")
  /\ size' = [size EXCEPT ![t] = ChunkSize]
  /\ UNCHANGED <<slots, mapped, asked, owned, scan, hand>>

(* MmapAllocator::deallocate: what is left of a longer mapping stays.      *)
Unmap(t) ==
  /\ doing[t] = "unmapping"
  /\ mapped' = [mapped EXCEPT ![hand[t]] = @ - RoundUp(size[t])]
  /\ hand' = [hand EXCEPT ![t] = Null]
  /\ Leave(t, "idle")
  /\ UNCHANGED <<slots, asked, owned>>

(* The thread is gone in the middle of an operation, or between two.       *)
Vanish(t) ==
  /\ doing[t] # "gone"
  /\ Leave(t, "gone")
  /\ UNCHANGED <<slots, mapped, asked, owned, hand>>

-----------------------------------------------------------------------------
Operation(t) ==
  \/ LookForChunk(t)
  \/ SwapOut(t)
  \/ NoChunkCached(t)
  \/ \E a \in Addresses : Map(t, a)
  \/ MapFails(t)
  \/ LookForRoom(t)
  \/ ExchangeIn(t)
  \/ NoRoom(t)
  \/ Unmap(t)

PoolNext ==
  \E t \in Threads :
    \/ \E n \in Requests : BeginAllocate(t, n)
    \/ \E a \in Addresses : \E n \in 1 .. mapped[a] : BeginDeallocate(t, a, n)
    \/ Operation(t)
    \/ Vanish(t)

PoolSpec == PoolInit /\ [][PoolNext]_poolVars

(* A thread that runs keeps running.                                       *)
PoolFairness == \A t \in Threads : WF_poolVars(Operation(t))

FairPoolSpec == PoolSpec /\ PoolFairness

-----------------------------------------------------------------------------
PoolTypeOK ==
  /\ slots \in [Slots -> Addresses \cup {Null}]
  /\ mapped \in [Addresses -> Nat]
  /\ asked \in [Addresses -> Nat]
  /\ owned \in [Threads -> SUBSET Addresses]
  /\ doing \in [Threads -> {"idle", "looking", "swapping", "mapping",
                            "offering", "exchanging", "unmapping", "gone"}]
  /\ scan \in [Threads -> 1 .. SlotCount + 1]
  /\ hand \in [Threads -> Addresses \cup {Null}]
  /\ size \in [Threads -> Nat]

(* What is mapped has one owner: a block is in one slot, or one thread's   *)
(* arenas have it, or one thread is giving it back, if only a thread that  *)
(* is gone; never two of these, and never none.                            *)
OneOwner ==
  /\ \A i, j \in Slots : slots[i] # Null /\ slots[i] = slots[j] => i = j
  /\ \A t, u \in Threads : t # u => owned[t] \cap owned[u] = {}
  /\ \A t, u \in Threads : hand[t] # Null /\ hand[t] = hand[u] => t = u
  /\ \A t, u \in Threads : hand[t] \notin owned[u]
  /\ \A i \in Slots, t \in Threads :
       slots[i] # Null => slots[i] # hand[t] /\ slots[i] \notin owned[t]
  /\ \A a \in Addresses :
       mapped[a] # 0 =>
         \/ \E i \in Slots : slots[i] = a
         \/ \E t \in Threads : a \in owned[t] \/ a = hand[t]

(* Whatever the cache hands out is a mapping of exactly one chunk, and a   *)
(* block in use is as long as what was asked for: the size that is given   *)
(* back tells a chunk from a block that went past the cache.               *)
ChunksWhole ==
  /\ \A i \in Slots : slots[i] # Null => mapped[slots[i]] = ChunkSize
  /\ \A t \in Threads : \A a \in owned[t] :
       /\ mapped[a] = Length(asked[a])
       /\ asked[a] \in 1 .. mapped[a]

(* Blocks are owned once, and as long as their owners take them to be,     *)
(* whatever threads do at the same time and wherever one of them vanishes. *)
PoolSound == OneOwner /\ ChunksWhole

(* Wait-free: an operation ends whatever the other threads do, each slot   *)
(* being looked at once.                                                   *)
OperationEnds == \A t \in Threads : doing[t] # "idle" ~> doing[t] \in {"idle", "gone"}
=============================================================================
