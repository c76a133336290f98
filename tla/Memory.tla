------------------------------- MODULE Memory -------------------------------
(***************************************************************************)
(* The memory pool (kernel/memory.c): a list of blocks in the order of     *)
(* their addresses, of which the first is the head memory_pool_init makes. *)
(* What lies between two blocks is free.                                   *)
(*                                                                         *)
(* With dynamic allocation every task_create allocates, so that main() is  *)
(* the first to call memory_alloc, before any task runs.  The tasks then   *)
(* allocate and free in any order; the atomic blocks are single steps, and *)
(* the test of memory_pool_size in front of them is a step of its own.     *)
(***************************************************************************)
EXTENDS Integers, Sequences, SequencesExt, FiniteSetsExt

CONSTANTS
  Client,           \* the tasks that allocate
  MEMORYPOOL_SIZE,
  PoolAddr,         \* the address of memory_pool
  BYTE_ALIGNMENT,
  STRUCT_SIZE,      \* MEMORY_BLOCK_STRUCT_SIZE
  MainSize,         \* what main() allocates
  Sizes             \* arguments of memory_alloc; it returns NULL for 0 at once

Align(n) == n + ((-n) % BYTE_ALIGNMENT)

ASSUME MemoryAssumption ==
  /\ {MEMORYPOOL_SIZE, BYTE_ALIGNMENT, STRUCT_SIZE, MainSize} \subseteq Nat \ {0}
  /\ PoolAddr \in Nat /\ Sizes \subseteq Nat \ {0}
  /\ Align(STRUCT_SIZE) = STRUCT_SIZE
  /\ MEMORYPOOL_SIZE >= BYTE_ALIGNMENT + 3 * STRUCT_SIZE + Align(MainSize)

VARIABLES
  memory_pool_size,
  blocks,    \* the list from memory_block_head, <<>> when that is NULL
  pc,
  size,      \* size[t]: the parameter of memory_alloc
  held       \* what has been allocated and not freed: [addr, size] of the memory
             \* that was asked for

memoryVars == <<memory_pool_size, blocks, pc, size, held>>

PoolStart == Align(PoolAddr)

\* memory_pool_size once memory_pool_init has aligned the pool.
InitialSize == MEMORYPOOL_SIZE - (PoolStart - PoolAddr)

memory_pool_end ==
  LET n == PoolStart + InitialSize - STRUCT_SIZE IN n - (n % BYTE_ALIGNMENT)

Extent == [addr : PoolStart .. memory_pool_end, size : 0 .. MEMORYPOOL_SIZE]

\* The types: the size of the pool does not wrap below 0.
MemoryTypeOK ==
  /\ memory_pool_size \in 0 .. MEMORYPOOL_SIZE
  /\ blocks \in Seq(Extent)
  /\ pc \in [Client -> {"out", "test", "place"}]
  /\ size \in [Client -> Sizes \union {0}]
  /\ held \in SUBSET Extent

MemoryInit ==
  /\ memory_pool_size = MEMORYPOOL_SIZE
  /\ blocks = <<>>
  /\ pc = [t \in Client |-> "out"]
  /\ size = [t \in Client |-> 0]
  /\ held = {}

-----------------------------------------------------------------------------

End(block) == block.addr + block.size

\* Mutant of block_size: there is no room for the header.
NoHeader(n) == Align(n)

\* The size of the block that n bytes are allocated in.
block_size(n) == Align(n + STRUCT_SIZE)

\* Mutant of fits: the length of the block before it is taken for the gap.
FitsBlock(list, i, n) == list[i].size >= n

\* The gap behind the i-th block has n bytes.
fits(list, i, n) == list[i + 1].addr - End(list[i]) >= n

\* First fit: the block behind which n bytes are allocated.
place(list, n) == Min({i \in DOMAIN list : i = Len(list) \/ fits(list, i, n)})

exhausted(list, i, n) == i = Len(list) /\ End(list[i]) + n > memory_pool_end

allocated(list, n) ==
  [addr |-> End(list[place(list, n)]), size |-> n]

\* The block is linked into the list and the memory behind its header returned.
take(list, n) ==
  LET block == allocated(list, block_size(n))
  IN  /\ blocks' = InsertAt(list, place(list, block.size) + 1, block)
      /\ held' = held \union {[addr |-> block.addr + STRUCT_SIZE, size |-> n]}

\* main() allocates, and memory_alloc finds no pool and makes one.
MainAlloc ==
  /\ blocks = <<>>
  /\ take(<<[addr |-> PoolStart, size |-> STRUCT_SIZE]>>, MainSize)
  /\ memory_pool_size' = InitialSize - block_size(MainSize)
  /\ UNCHANGED <<pc, size>>

memory_alloc(t) ==
  /\ blocks # <<>> /\ pc[t] = "out"
  /\ \E n \in Sizes : size' = [size EXCEPT ![t] = n]
  /\ pc' = [pc EXCEPT ![t] = "test"]
  /\ UNCHANGED <<memory_pool_size, blocks, held>>

Return(t) ==
  /\ pc' = [pc EXCEPT ![t] = "out"]
  /\ size' = [size EXCEPT ![t] = 0]

\* memory_pool_size is read outside of the atomic block.
TestSize(t) ==
  /\ pc[t] = "test"
  /\ IF memory_pool_size < block_size(size[t])
       THEN Return(t)
       ELSE pc' = [pc EXCEPT ![t] = "place"] /\ UNCHANGED size
  /\ UNCHANGED <<memory_pool_size, blocks, held>>

Place(t) ==
  LET n == block_size(size[t])
  IN  /\ pc[t] = "place"
      /\ Return(t)
      /\ IF exhausted(blocks, place(blocks, n), n)
           THEN UNCHANGED <<memory_pool_size, blocks, held>>
           ELSE /\ take(blocks, size[t])
                /\ memory_pool_size' = memory_pool_size - n

\* The block the memory h is in.
block_of(h) ==
  CHOOSE i \in DOMAIN blocks : blocks[i].addr = h.addr - STRUCT_SIZE

\* The block is unlinked; a task may free what another has allocated.
memory_free(t) ==
  \E h \in held :
    /\ pc[t] = "out"
    /\ blocks' = RemoveAt(blocks, block_of(h))
    /\ memory_pool_size' = memory_pool_size + blocks[block_of(h)].size
    /\ held' = held \ {h}
    /\ UNCHANGED <<pc, size>>

MemoryNext ==
  \/ MainAlloc
  \/ \E t \in Client : memory_alloc(t) \/ TestSize(t) \/ Place(t) \/ memory_free(t)

MemorySpec == MemoryInit /\ [][MemoryNext]_memoryVars

-----------------------------------------------------------------------------

Bytes(e) == e.addr .. e.addr + e.size - 1

\* The memory a caller has is its own: it is aligned, inside the pool, and
\* neither another caller's nor a header of the list.
HeldDisjoint ==
  \A h \in held :
    /\ h.addr % BYTE_ALIGNMENT = 0
    /\ Bytes(h) \subseteq PoolAddr .. PoolAddr + MEMORYPOOL_SIZE - 1
    /\ \A g \in held \ {h} : Bytes(g) \intersect Bytes(h) = {}
    /\ \A i \in DOMAIN blocks :
         Bytes([addr |-> blocks[i].addr, size |-> STRUCT_SIZE]) \intersect Bytes(h) = {}

\* The sizes of the blocks of list behind the head, up to each block.
used(list) ==
  LET sum[i \in DOMAIN list] == IF i = 1 THEN 0 ELSE sum[i - 1] + list[i].size IN sum

\* What is allocated and freed again leaves nothing behind: memory_pool_size is
\* what it was, less the blocks of the memory that is in use.
NothingLeaks ==
  blocks # <<>> => memory_pool_size = InitialSize - used(blocks)[Len(blocks)]

\* The types; the memory of a caller is its own; and the size of the pool agrees
\* with the list of blocks.
MemoryInv == MemoryTypeOK /\ HeldDisjoint /\ NothingLeaks

\* An address at which n bytes are free.
FreeAt(a, n) ==
  /\ a + n <= memory_pool_end
  /\ \A i \in DOMAIN blocks : Bytes(blocks[i]) \intersect (a .. a + n - 1) = {}

\* A request fails in the atomic block only if there is no room for it anywhere.
FailsOnlyWhenFull ==
  [][\A t \in Client :
       pc[t] = "place" /\ pc'[t] = "out" /\ held' = held
         => \A a \in PoolStart .. memory_pool_end :
              a % BYTE_ALIGNMENT = 0 => ~FreeAt(a, block_size(size[t]))]_memoryVars

=============================================================================
