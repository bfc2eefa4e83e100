----------------------------- MODULE Allocators -----------------------------
(* Where memory comes from: storage_allocate of the traits, with huge pages   *)
(* (common/hugepage_alloc.hpp) for cpu_ifirst, and the allocators of          *)
(* sid/allocator.hpp, which keep buffers for those that come later.           *)
(*                                                                            *)
(* An allocator's state os is a record: the blocks the system has given out,  *)
(* how many it has given so far, s_offset of allocation_offset, the metadata  *)
(* in front of pointers into huge pages, and the stacks of buffers that wait  *)
(* for a request of the same kind and size.                                   *)
EXTENDS StorageBuilder, Sequences

\* The system: smaller numbers than those the library asks it for.
PageSize == 16
HugepageSize == 64
CacheLineSize == 4
CacheSets == 2

\* Blocks are far from each other.
Spacing == 1000

NoMemory == [blocks |-> {}, given |-> 0, offsets |-> 0, metadata |-> <<>>, stacks |-> <<>>]

\* new, cudaMalloc, posix_memalign and mmap: a block that nobody has, as aligned as the
\* caller relies on.
SystemBlock(os, bytes, by) ==
  [from |-> Spacing * HugepageSize * (os.given + 1) + (IF by = "new" THEN 1 ELSE 0),
   bytes |-> bytes, by |-> by]

Taken(os, block) == [os EXCEPT !.blocks = @ \cup {block}, !.given = @ + 1]

-----------------------------------------------------------------------------
(* Huge pages.                                                                *)

\* Allocations start in different sets of the cache.
AllocationOffset(n) == (n % CacheSets) * CacheLineSize + CacheLineSize

HugepageMode(env) == CASE env = "disable" -> "disabled"
                       [] env = "explicit" -> "explicit_allocation"
                       [] OTHER -> "transparent"

\* allocate: whole pages.
WholePages(bytes, mode) == RoundUp(bytes, IF mode = "disabled" THEN PageSize ELSE HugepageSize)

\* Mutant: the metadata has the size that was asked for.
HugepageAllocUnrounded(os, bytes, env) ==
  LET offset == AllocationOffset(os.offsets)
      mode   == HugepageMode(env)
      block  == SystemBlock(os, WholePages(bytes + offset, mode), mode)
      ptr    == block.from + offset
  IN  [ptr |-> ptr,
       os  |-> [Taken(os, block) EXCEPT !.offsets = @ + 1,
                  !.metadata = ptr :> [offset |-> offset, bytes |-> bytes + offset, mode |-> mode] @@ @]]

HugepageAlloc(os, bytes, env) ==
  LET offset == AllocationOffset(os.offsets)
      mode   == HugepageMode(env)
      block  == SystemBlock(os, WholePages(bytes + offset, mode), mode)
      ptr    == block.from + offset
  IN  [ptr |-> ptr,
       os  |-> [Taken(os, block) EXCEPT !.offsets = @ + 1,
                  !.metadata = ptr :> [offset |-> offset, bytes |-> block.bytes, mode |-> mode] @@ @]]

\* hugepage_free: what free or munmap is called for.  munmap takes away just the range
\* it is told, free the block that begins at the pointer.
HugepageFree(os, ptr) ==
  LET m == os.metadata[ptr]
      freed == { b \in os.blocks : /\ b.from = ptr - m.offset /\ b.by = m.mode
                                   /\ m.mode # "disabled" => b.bytes = m.bytes }
  IN  [os EXCEPT !.blocks = @ \ freed, !.metadata = [p \in DOMAIN @ \ {ptr} |-> @[p]]]

-----------------------------------------------------------------------------
(* storage_allocate and the deleters of what it returns.                      *)

StorageAllocate(os, traits, bytes, env) ==
  IF traits = "cpu_ifirst" THEN HugepageAlloc(os, bytes, env)
  ELSE LET block == SystemBlock(os, bytes, IF traits = "gpu" THEN "cudaMalloc" ELSE "new")
       IN  [ptr |-> block.from, os |-> Taken(os, block)]

Deallocate(os, traits, ptr) ==
  IF traits = "cpu_ifirst" THEN HugepageFree(os, ptr)
  ELSE [os EXCEPT !.blocks = { b \in @ : b.from # ptr }]

-----------------------------------------------------------------------------
(* sid/allocator.hpp.  An allocator has a type, by, that of the function it   *)
(* gets its memory from: by.of is the traits, by.type tells the instances of  *)
(* a template apart.  Requests share a stack if type and size are the same.   *)

StackOf(os, key) == IF key \in DOMAIN os.stacks THEN os.stacks[key] ELSE <<>>
WithStack(os, key, s) == [os EXCEPT !.stacks = key :> s @@ @]

\* cached_proxy_f: the buffer stashed last, or a new one.
Acquire(os, by, bytes, env) ==
  LET key == <<by, bytes>>
      s == StackOf(os, key)
  IN  IF s = <<>> THEN StorageAllocate(os, by.of, bytes, env)
      ELSE [ptr |-> s[Len(s)], os |-> WithStack(os, key, SubSeq(s, 1, Len(s) - 1))]

\* deleter_f: the stack of the request takes the buffer back.
StashBuffer(os, by, bytes, ptr) ==
  LET key == <<by, bytes>> IN WithStack(os, key, Append(StackOf(os, key), ptr))

\* Mutant: the buffer that is stashed on return is the one the caller gets.
CachedAllocateFirst(os, by, bytes, env) ==
  LET first  == Acquire(os, by, bytes, env)
      second == Acquire(first.os, by, bytes, env)
  IN  [ptr |-> first.ptr, os |-> StashBuffer(second.os, by, bytes, first.ptr)]

\* allocate of a cached_allocator: two buffers are acquired, the second is kept, and
\* the first is stashed on return.
CachedAllocate(os, by, bytes, env) ==
  LET first  == Acquire(os, by, bytes, env)
      second == Acquire(first.os, by, bytes, env)
  IN  [ptr |-> second.ptr, os |-> StashBuffer(second.os, by, bytes, first.ptr)]

\* The end of the thread, whose stacks give their buffers to the deleters.
RECURSIVE ReleaseStacks(_)
ReleaseStacks(os) ==
  LET full == { key \in DOMAIN os.stacks : os.stacks[key] # <<>> }
  IN  IF full = {} THEN os
      ELSE LET key == CHOOSE k \in full : TRUE
               s == os.stacks[key]
           IN  ReleaseStacks(WithStack(Deallocate(os, key[1].of, s[Len(s)]), key, SubSeq(s, 1, Len(s) - 1)))
=============================================================================
