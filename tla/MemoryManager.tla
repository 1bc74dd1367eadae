------------------------------ MODULE MemoryManager ------------------------------
(***************************************************************************)
(* The run-time memory library (src/memory): the pools of the allocator,   *)
(* the manager with its analyzer, a region with its generations and reuse  *)
(* pools, and the handles Linear, Ref and the shared pointers of makeRef.  *)
(*                                                                         *)
(* A block of memory is a number; its header records the pool it came      *)
(* from.  malloc does not fail, and may return a block that was freed.     *)
(* The clients are sequential, and keep the discipline of C++ locals: a    *)
(* handle to an object dies before the scope of the object is left         *)
(* (CLIENTS = "raii"), or only a Linear or a shared pointer must, because  *)
(* a Ref checks the generation (CLIENTS = "refs outlive").                 *)
(***************************************************************************)
EXTENDS Integers, FiniteSets, SequencesExt

CONSTANTS Sizes,                \* sizeof(T) of the objects
          Slots,                \* the variables that hold handles
          CLIENTS,
          POOL_CHUNK_SIZE, MIN_EXPANSION, MAX_REUSE_POOL_SIZE,
          MAX_BLOCKS, MAX_GENERATION, MAX_STEPS

VARIABLES freeBlocks,           \* of each pool
          chunks,               \* the number of chunks of each pool
          header,               \* the pool index of every block ever allocated, and its size
          systemFree,           \* blocks given back to free
          analyzer,             \* totalAllocated, activeAllocations and the counts of calls
          auditMode,
          currentGeneration, objectGenerations, generationObjects, reusePool, destroyed,
          handles, refCounts,
          objects,              \* history: the objects that live, by block: size and a serial number
          steps

region == << currentGeneration, objectGenerations, generationObjects, reusePool, destroyed >>
memoryVars == << freeBlocks, chunks, header, systemFree, analyzer, auditMode, region, handles, refCounts, objects, steps >>

HEADER == 16                    \* sizeof(AllocationHeader)
SYSTEM == 255

sizeToPoolIndex(size) ==
  IF size > 256 THEN SYSTEM ELSE CHOOSE i \in 0 .. 6 : size <= 4 * 2^i /\ \A j \in 0 .. i - 1 : size > 4 * 2^j

PoolIndex(size) == sizeToPoolIndex(size + HEADER)
Pools == {PoolIndex(s) : s \in Sizes} \ {SYSTEM}

\* A memory is the record of what the allocator and its pools hold.
Memory == [free |-> freeBlocks, chunks |-> chunks, header |-> header, system |-> systemFree]
Put(m) == /\ freeBlocks' = m.free /\ chunks' = m.chunks /\ header' = m.header /\ systemFree' = m.system

Blocks(m) == DOMAIN m.header
NewBlocks(m, n, pool) ==
  [b \in 1 .. Cardinality(Blocks(m)) + n |->
     IF b \in Blocks(m) THEN m.header[b] ELSE pool]

expandPool(m, p, count) ==
  LET first == Cardinality(Blocks(m)) + 1
  IN [m EXCEPT !.free[p] = @ \o [i \in 1 .. count |-> first + i - 1],
               !.chunks[p] = @ + 1,
               !.header = NewBlocks(m, count, p)]

\* MemoryPool::allocate: the memory, and the block.
PoolAllocate(m, p) ==
  LET more == LET n == (m.chunks[p] * POOL_CHUNK_SIZE) \div 2
              IN IF m.free[p] = <<>> THEN expandPool(m, p, IF n > MIN_EXPANSION THEN n ELSE MIN_EXPANSION) ELSE m
  IN [m |-> [more EXCEPT !.free[p] = Front(@)], b |-> Last(more.free[p])]

\* DefaultAllocator::allocate: the possible outcomes.
Allocations(m, size) ==
  LET p == PoolIndex(size)
  IN IF p # SYSTEM THEN {PoolAllocate(m, p)}
     ELSE {[m |-> [m EXCEPT !.header = NewBlocks(m, 1, SYSTEM)], b |-> Cardinality(Blocks(m)) + 1]}
          \cup {[m |-> [m EXCEPT !.system = @ \ {b}], b |-> b] : b \in m.system}

\* DefaultAllocator::deallocate goes by the header of the block.
Free(m, b) ==
  IF m.header[b] # SYSTEM THEN [m EXCEPT !.free[m.header[b]] = Append(@, b)]
  ELSE [m EXCEPT !.system = @ \cup {b}]

------------------------------------------------------------------------------
recordAllocation(a, b, size) ==
  [a EXCEPT !.totalAllocated = @ + size,
            !.activeAllocations = [c \in DOMAIN @ \cup {b} |-> IF c = b THEN size ELSE @[c]],
            !.allocationCount = @ + 1]

recordDeallocation(a, b) ==
  IF b \notin DOMAIN a.activeAllocations THEN a
  ELSE [a EXCEPT !.totalAllocated = @ - a.activeAllocations[b],
                 !.activeAllocations = [c \in DOMAIN @ \ {b} |-> @[c]],
                 !.deallocationCount = @ + 1]

Recorded(a, b)        == IF auditMode THEN recordDeallocation(a, b) ELSE a
RecordedNew(a, b, s)  == IF auditMode THEN recordAllocation(a, b, s) ELSE a

\* MemoryManager::deallocate of a sequence of blocks.
DeallocateAll(bs) ==
  /\ Put(FoldLeft(Free, Memory, bs))
  /\ analyzer' = FoldLeft(Recorded, analyzer, bs)

------------------------------------------------------------------------------
Without(f, S) == [x \in DOMAIN f \ S |-> f[x]]
With(f, x, v) == [y \in DOMAIN f \cup {x} |-> IF y = x THEN v ELSE f[y]]

Step(moves) ==
  /\ steps < MAX_STEPS /\ ~destroyed /\ moves
  /\ steps' = steps + 1

getGeneration(b) == IF b \in DOMAIN objectGenerations THEN objectGenerations[b] ELSE 0

\* The memory of Region::create comes from the reuse pool of its size if that has any.
Obtain(size, Then(_)) ==
  IF reusePool[size] # <<>>
  THEN /\ reusePool' = [reusePool EXCEPT ![size] = Front(@)]
       /\ UNCHANGED << freeBlocks, chunks, header, systemFree, analyzer >>
       /\ Then(Last(reusePool[size]))
  ELSE /\ UNCHANGED reusePool
       /\ \E r \in Allocations(Memory, size) :
            /\ r.b <= MAX_BLOCKS
            /\ Put(r.m) /\ analyzer' = RecordedNew(analyzer, r.b, size)
            /\ Then(r.b)

Register(b, size) ==
  /\ objectGenerations' = With(objectGenerations, b, currentGeneration)
  /\ generationObjects' = [generationObjects EXCEPT ![currentGeneration] = Append(@, b)]
  /\ objects' = With(objects, b, [size |-> size, serial |-> steps])
  /\ UNCHANGED << currentGeneration, destroyed, auditMode >>

Empty == [kind |-> "none"]

\* Region::create with a handle for the object: a Linear of makeLinear, a shared pointer of
\* makeRef, a Ref constructed from the pointer, or none.
create(size, slot, kind) ==
  /\ Step(handles[slot] = Empty)
  /\ LET Then(b) ==
           /\ Register(b, size)
           /\ handles' = [handles EXCEPT ![slot] =
                CASE kind = "linear" -> [kind |-> kind, ptr |-> b, size |-> size, serial |-> steps]
                  [] kind = "shared" -> [kind |-> kind, ptr |-> b, size |-> size, serial |-> steps, cell |-> steps]
                  [] kind = "ref"    -> [kind |-> kind, ptr |-> b, size |-> size, serial |-> steps, cell |-> steps,
                                         expectedGeneration |-> currentGeneration]
                  [] kind = "none"   -> Empty]
           /\ refCounts' = IF kind \in {"shared", "ref"} THEN With(refCounts, steps, 1) ELSE refCounts
     IN Obtain(size, Then)

\* The constructor of the object throws: the memory goes to the reuse pool, or back to the manager.
createThrows(size) ==
  /\ Step(TRUE)
  /\ IF reusePool[size] # <<>>
     THEN UNCHANGED << reusePool, freeBlocks, chunks, header, systemFree, analyzer >>    \* taken and put back
     ELSE \E r \in Allocations(Memory, size) :
            /\ r.b <= MAX_BLOCKS
            /\ IF MAX_REUSE_POOL_SIZE > 0
               THEN /\ Put(r.m) /\ analyzer' = RecordedNew(analyzer, r.b, size)
                    /\ reusePool' = [reusePool EXCEPT ![size] = Append(@, r.b)]
               ELSE /\ Put(Free(r.m, r.b)) /\ analyzer' = Recorded(RecordedNew(analyzer, r.b, size), r.b)
                    /\ UNCHANGED reusePool
  /\ UNCHANGED << currentGeneration, objectGenerations, generationObjects, destroyed, auditMode, handles, refCounts, objects >>

\* Mutant: the object stays in the list of its generation.
regionDeallocate_listed(b, size) ==
  /\ objectGenerations' = Without(objectGenerations, {b})
  /\ objects' = Without(objects, {b})
  /\ UNCHANGED generationObjects
  /\ IF Len(reusePool[size]) < MAX_REUSE_POOL_SIZE
     THEN /\ reusePool' = [reusePool EXCEPT ![size] = Append(@, b)]
          /\ UNCHANGED << freeBlocks, chunks, header, systemFree, analyzer >>
     ELSE DeallocateAll(<< b >>) /\ UNCHANGED reusePool

\* Region::deallocate.
regionDeallocate(b, size) ==
  /\ objectGenerations' = Without(objectGenerations, {b})
  /\ generationObjects' = IF b \in DOMAIN objectGenerations
                          THEN [generationObjects EXCEPT ![objectGenerations[b]] = SelectSeq(@, LAMBDA c : c # b)]
                          ELSE generationObjects
  /\ objects' = Without(objects, {b})
  /\ IF Len(reusePool[size]) < MAX_REUSE_POOL_SIZE
     THEN /\ reusePool' = [reusePool EXCEPT ![size] = Append(@, b)]
          /\ UNCHANGED << freeBlocks, chunks, header, systemFree, analyzer >>
     ELSE DeallocateAll(<< b >>) /\ UNCHANGED reusePool

NoDeallocation ==
  UNCHANGED << objectGenerations, generationObjects, objects, reusePool, freeBlocks, chunks, header, systemFree, analyzer >>

------------------------------------------------------------------------------
isValid(h) == getGeneration(h.ptr) = h.expectedGeneration

\* A handle goes away: the destructor and release of a Linear, decrementRefCount of a Ref, or the
\* deleter of a shared pointer.  The counts are counts before.
Dispose(h, counts) ==
  CASE h.kind = "none" -> NoDeallocation /\ refCounts' = counts
    [] h.kind = "linear" -> regionDeallocate(h.ptr, h.size) /\ refCounts' = counts
    [] h.kind \in {"ref", "shared"} /\ counts[h.cell] > 1 ->
         refCounts' = [counts EXCEPT ![h.cell] = @ - 1] /\ NoDeallocation
    [] OTHER ->
         /\ refCounts' = Without(counts, {h.cell})
         /\ IF h.kind = "shared" \/ isValid(h) THEN regionDeallocate(h.ptr, h.size) ELSE NoDeallocation

destroy(slot) ==
  /\ Step(handles[slot] # Empty)
  /\ Dispose(handles[slot], refCounts)
  /\ handles' = [handles EXCEPT ![slot] = Empty]
  /\ UNCHANGED << currentGeneration, destroyed, auditMode >>

Assignable(from, to) == from # to /\ handles[from] # Empty /\ handles[to].kind \in {"none", handles[from].kind}

\* Move construction and move assignment: the target is released first.
move(from, to) ==
  /\ Step(Assignable(from, to))
  /\ Dispose(handles[to], refCounts)
  /\ handles' = [handles EXCEPT ![to] = handles[from], ![from] = Empty]
  /\ UNCHANGED << currentGeneration, destroyed, auditMode >>

\* Copy construction and copy assignment of counted handles.
copy(from, to) ==
  /\ Step(Assignable(from, to) /\ handles[from].kind # "linear")
  /\ Dispose(handles[to], [refCounts EXCEPT ![handles[from].cell] = @ + 1])
  /\ handles' = [handles EXCEPT ![to] = handles[from]]
  /\ UNCHANGED << currentGeneration, destroyed, auditMode >>

------------------------------------------------------------------------------
enterScope ==
  /\ Step(currentGeneration < MAX_GENERATION)
  /\ currentGeneration' = currentGeneration + 1
  /\ generationObjects' = With(generationObjects, currentGeneration + 1, <<>>)
  /\ UNCHANGED << freeBlocks, chunks, header, systemFree, analyzer, auditMode, objectGenerations, reusePool, destroyed,
                  handles, refCounts, objects >>

\* The discipline of the clients: the handles that may not outlive the objects of the scope.
Guarded == IF CLIENTS = "raii" THEN {"linear", "shared", "ref"} ELSE {"linear", "shared"}
Disciplined(bs) == \A s \in Slots : handles[s].kind \in Guarded => handles[s].ptr \notin bs

Scope == generationObjects[currentGeneration]

\* What exitScope and collectGarbage do with the objects of the current generation.
FreeScope ==
  /\ Disciplined(ToSet(Scope))
  /\ objectGenerations' = Without(objectGenerations, ToSet(Scope))
  /\ objects' = Without(objects, ToSet(Scope))
  /\ DeallocateAll(Scope)
  /\ UNCHANGED << auditMode, reusePool, destroyed, handles, refCounts >>

exitScope ==
  /\ Step(currentGeneration > 0)
  /\ FreeScope
  /\ generationObjects' = Without(generationObjects, {currentGeneration})
  /\ currentGeneration' = currentGeneration - 1

collectGarbage ==
  /\ Step(currentGeneration > 0 /\ Scope # <<>>)
  /\ FreeScope
  /\ generationObjects' = [generationObjects EXCEPT ![currentGeneration] = <<>>]
  /\ UNCHANGED currentGeneration

\* The destructor of the region.
destroyRegion ==
  /\ Step(TRUE)
  /\ LET live == UNION {ToSet(generationObjects[g]) : g \in DOMAIN generationObjects}
         pooled == UNION {ToSet(reusePool[s]) : s \in Sizes}
     IN /\ Disciplined(live)
        /\ DeallocateAll(SetToSeq(pooled) \o SetToSeq(live))
        /\ objects' = Without(objects, live)
  /\ destroyed' = TRUE
  /\ reusePool' = [s \in Sizes |-> <<>>] /\ generationObjects' = [g \in {} |-> <<>>]
  /\ UNCHANGED << auditMode, currentGeneration, objectGenerations, handles, refCounts >>

MemoryInit ==
  /\ LET m0 == [free |-> [p \in Pools |-> <<>>], chunks |-> [p \in Pools |-> 0], header |-> <<>>, system |-> {}]
         m == FoldSet(LAMBDA p, m : expandPool(m, p, POOL_CHUNK_SIZE), m0, Pools)
     IN freeBlocks = m.free /\ chunks = m.chunks /\ header = m.header /\ systemFree = m.system
  /\ analyzer = [totalAllocated |-> 0, activeAllocations |-> <<>>, allocationCount |-> 0, deallocationCount |-> 0]
  /\ auditMode \in BOOLEAN
  /\ currentGeneration = 0 /\ objectGenerations = <<>> /\ generationObjects = [g \in {0} |-> <<>>]
  /\ reusePool = [s \in Sizes |-> <<>>] /\ destroyed = FALSE
  /\ handles = [s \in Slots |-> Empty] /\ refCounts = <<>> /\ objects = <<>> /\ steps = 0

MemoryNext ==
  \/ \E size \in Sizes, slot \in Slots, kind \in {"linear", "shared", "ref", "none"} : create(size, slot, kind)
  \/ \E size \in Sizes : createThrows(size)
  \/ \E slot \in Slots : destroy(slot)
  \/ \E from, to \in Slots : move(from, to) \/ copy(from, to)
  \/ enterScope \/ exitScope \/ collectGarbage \/ destroyRegion

------------------------------------------------------------------------------
\* How often a block occurs in the free lists, the reuse pools, the system's free blocks and the
\* objects of the region.
Times(b, bs) == Cardinality({i \in DOMAIN bs : bs[i] = b})
Places(b) ==
  MapThenSumSet(LAMBDA p : Times(b, freeBlocks[p]), Pools) + MapThenSumSet(LAMBDA s : Times(b, reusePool[s]), Sizes)
  + Cardinality({b} \cap systemFree) + Cardinality({b} \cap DOMAIN objects)

\* Every block is in exactly one place, whatever mix of scopes, reuse, copies and moves went
\* before: none is handed out twice, freed twice or lost; and a live object lies in a block of a
\* pool that has room for it.
BlocksOnce ==
  /\ \A b \in DOMAIN header : Places(b) = 1
  /\ \A b \in DOMAIN objects : header[b] = PoolIndex(objects[b].size)

\* A Ref that says it is valid refers to the object it was made for (architecture.md, generations
\* "prevent dangling references").
ValidRefsAlive ==
  ~destroyed =>
    \A s \in Slots : handles[s].kind = "ref" /\ isValid(handles[s]) =>
      handles[s].ptr \in DOMAIN objects /\ objects[handles[s].ptr].serial = handles[s].serial
==============================================================================
