# GridTools: models, checks and proofs

GridTools (2.x, a C++14 header library under `src/include/gridtools`) solves partial differential equations
on block-structured grids. A program stores its fields in *data stores*, writes its numerical operators as
*stencil computations* that a *backend* (naive, two OpenMP ones, two CUDA ones) turns into loops or kernels,
divides its domain among MPI processes, fills the *halos* of its fields from neighbouring processes with the
*GCL* (the communication layer), and fills those at the edge of the domain with *boundary conditions*.

This directory holds TLA+ modules for these parts, TLC configurations that check them on small instances, and
TLAPS proofs about them for all sizes. `PROJECT.json` lists the components, what each run checks, the source
lines behind every definition (`map`), the mutation that shows each property is sensitive to the code
(`mutants`), the hazards and the findings. Paths below are relative to `src/include/gridtools`.

    tlc -workers 2 -config MCHaloRing.cfg MCHaloExchange     # one run
    tlapm HaloExchangeProofs.tla                             # one module of proofs

Contents: [1 Inventory](#1-inventory) · [2 Modules](#2-modules) · [3 Runs and bounds](#3-runs-and-bounds) ·
[4 Fairness](#4-fairness) · [5 Proofs](#5-proofs) · [6 Findings](#6-findings) ·
[7 Not modelled](#7-what-is-not-modelled) · [8 Plan](#8-plan)

## 1 Inventory

### How the parts interact

    user program
      |  make_param, make_storage ........ data store <---- views ---- stencil computation
      |                                         ^                          |  (frontend, analysis, backend)
      |                                         |  update / view           |  launches, blocks, barriers
      |  exchange(jobs) ---> distributed boundaries                        v
      |                         |          |                      threads of CPU or GPU
      |                         |          +--> boundary conditions (predicate, functor, 26 regions)
      |                         v
      |                   pattern: halo_exchange_dynamic_ut / _generic
      |                         |   setup: layouts, halos, periodicity
      |                         v
      |                   handler: pack / unpack (CPU loops, GPU kernels)
      |                         v
      +------------------> Halo_Exchange_3D --- process grid ---> MPI (external)

Communication between the parts is by calls; between processes by MPI messages; between host and device by
transfers and by kernels that are launched asynchronously and run in stream order; between the threads of a
computation by memory, ordered only by barriers within a block and by kernel boundaries.

### Components

| Component | State | Operations | Hard behaviour | Correct if |
|---|---|---|---|---|
| Data store (`storage/data_store.hpp`) | flag, host and target allocation | two constructors, four pointer requests, transfers | views outlive later requests; kernels still run when a transfer is asked for | every view still valid shows the one logical array |
| Process grid (`gcl/low_level/proc_grids_3D.hpp`) | coordinates, sizes, periodicity | `proc(i,j,k)`, tags | axes one or two processes wide | the neighbour relation is symmetric; tags tell the messages of a pair apart |
| Halo exchange (`Halo_Exchange_3D.hpp`, `descriptors.hpp`) | buffers, sizes, requests, messages under way | setup, pack, post_receives, do_sends, wait, unpack | neighbours run ahead; messages of two exchanges under way; sizes change between exchanges; MPI may or may not buffer | computing processes always have the borders of the right step; no buffer is reused early; no deadlock |
| GPU packing (`descriptors_manual_gpu.hpp`, `m_*pack*.hpp`) | fields, device buffers, stream | six pack, six unpack kernels, twice | hand-written index arithmetic in 24 kernels, missing neighbours, asynchronous unpack | messages are those of the CPU; nothing outside of buffers is touched |
| Generic exchange (`descriptor_generic_manual.hpp`) | as above, halos per field | as above | parts of fields in one message found by prefix sums | as above |
| Exchange setup (`gcl/halo_exchange.hpp`) | permuted halos, periodicity | constructor, add_halo, setup | three orders of axes, permuted by different formulas | each axis of the data meets the right axis of the grid |
| Boundary conditions (`boundaries/apply*.hpp`) | the field | apply | one kernel for 26 differently shaped regions | each accepted halo element is written exactly once |
| Distributed boundaries (`boundaries/distributed_boundaries.hpp`) | pattern, maximum of stores | exchange, boundary_only | combination of both in corners, errors on one process | halos complete; read-only stores kept; errors strand nobody |
| Stencil analysis (`stencil/core`, `stencil/be_api.hpp`) | none (compile time) | extents, need_sync, fusion | barriers and fusion decided once for all levels and blocks | with the backends: what a stage reads is what the manual promises |
| Stencil backends (`stencil/naive.hpp`, `cpu_kfirst*`, `cpu_ifirst*`, `gpu/*`) | memory, temporaries of blocks | launch, apply a stage at a point | threads interleave between barriers; temporaries and caches are reused | as above; results complete; it returns |
| Vertical regions (`stencil/core/level.hpp`, `interval.hpp`, `grid.hpp`, `functor_metafunctions.hpp`) | none (compile time, sizes at run time) | split an axis, choose overloads | levels without a name share an interval, which may be empty | every level is in one interval and has the operator written for it |
| k-caches (`gpu/fill_flush.hpp`, `k_cache.hpp`) | registers of a thread | fill, flush, slide | which levels to copy, and which bound to check, decided per interval of the axis | a cached field looks like an uncached one; nothing outside of the column is touched |
| Horizontal GPU backend (`gpu_horizontal/*`) | registers of a thread | loop along a row, slide | cells ahead of each other by their extents | as the other backends |
| Storage description (`storage/builder.hpp`, `info.hpp`, `traits.hpp`) | what the builder was told | builder settings, build | alignment counts from the end of the halo; padding; masked dimensions; sizes the compiler knows or not | every index has an address of its own in the allocation, lines are aligned, and an address finds its index |
| SIDs (`sid/*.hpp`) | none; cached allocators keep stacks of buffers | origin, strides, kind, shift; blocks, renaming, composites; loops, ranges; allocate | one stride serves all SIDs of a kind; loops in five specialisations take the pointer back themselves; buffers are used again | every element is visited once, and the pointer returns; nobody uses a buffer that waits in a stack |
| Reduction (`reduction/*.hpp`) | an array with room for all steps | make, reduce | four kernels, shuffles and shared memory; a step writes behind what it reads; sizes are rounded | no race; the result is the combination of all elements |
| Layout transformation (`layout_transformation*`) | none | transform_layout | three or more dimensions, extended or looped over | every element is copied |
| Atomics (`common/atomic_*.hpp`) | a variable | add, sub, exch, min, max | compare-and-swap loops that end early, critical sections | every operation takes effect at once |
| all-to-all, stencil frontend | see `PROJECT.json` | | | planned, section 8 |

The complete list, with the reason for what is left out, is `components` in `PROJECT.json`. `hazards` there
lists 40 places in the code where a mistake would hardly be found by a test, with the properties that would
show it.

## 2 Modules

Every module is named for what it describes; actions have the name of the function they translate. Operators
marked `Mutant:` in a comment are wrong versions of the definition after them. Nothing uses them; `PROJECT.json`
says which property fails when they take its place.

    StorageViews <- LogicalArray          abstract: one array
                 <- DataStore ............ implements LogicalArray;  MemoryProofs
    ProcGrid, HaloDescriptor, LayoutMap    operators;  ProcGridProofs
    NeighbourSync                          abstract: what an exchange promises
    HaloExchange ......................... implements NeighbourSync;  HaloExchangeProofs
    GpuKernels <- GpuPacking               compared with the messages of the CPU;  GpuPackingProofs
    ExchangeSetup                          over LayoutMap;  SetupProofs
    DistributedBoundaries                  over NeighbourSync;  DistributedBoundariesProofs
    BoundaryApply <- BoundaryKernel        implements BoundaryApply;  BoundaryProofs
    StencilProgram <- DocumentedModel
      DocumentedModel, VerticalRegions <- FillFlush <- StencilBackends <- StencilExecution;  StencilProofs
    LayoutMap <- StorageBuilder <- Allocators;  MemoryProofs
                                <- Sid
      Sid, ParallelLoops <- LayoutTransformation <- Reduction <- KfirstSweep
    Atomics .............................. implements AtomicRegister;  MemoryProofs
      KfirstSweep, Allocators, Atomics <- FieldProgram ... implements ArrayProgram

An inductive invariant (`IndInv`) is at the end of the module it belongs to. `ProcGridProofs` also has the lemmas on
induction and on sequences that several proofs need. That of `StencilExecution` (`RunningInv`) is in `StencilProofs`, because it
speaks of orders that only the proof needs.

### Data store: `DataStore`, `LogicalArray`

`state` is `m_state`, `host` and `target` the two allocations. `GetTargetPtr`, `GetConstTargetPtr`, `GetHostPtr`
and `GetConstHostPtr` are the getters of `data_store.hpp`, each with the transfer it makes (`UpdateTarget`,
`UpdateHost`) and the flag it leaves. `live` holds the kinds of view the user may still use: a request for one
side ends the use of mutable or stale views of the other, as the storage manual asks of the user. `Compute`
launches a kernel through a target view: it returns at once, and `KernelThread` writes one element at a time, in
any order. The transfers wait for it (`cudaMemcpy` on the default stream). `written` are the elements that hold
what the user put there: what `make_unique` and `cudaMalloc` leave in the others is not compared.
With `Shared = TRUE` the module is the host-referenceable store.

`LogicalArray` says what the user sees: an array, written only through a live mutable view.

### Halo exchange: `HaloExchange`, `NeighbourSync`

One process is one `hndlr_dynamic_ut` with its `Halo_Exchange_3D`. `Pack`, `PostReceives`, `DoSends`,
`WaitForSends`, `WaitForReceives` and `Unpack` are the handler's calls, `wait()` in its two parts; `Compute` is
the program in between. `start_exchange` is `PostReceives; DoSends`, `exchange` adds the waits. Receives may be
posted before or after `pack`; when before, they are posted with the sizes of the exchange before, because
`pack` sets them. `pending` and `active` are the slots of `request` and `send_request`. A border is represented by
whose it is, in which direction it was packed and after how many steps; a message also has the number of
fields it carries and its tag.

MPI is the environment. `Copy` is MPI taking a message out of the sender's buffer (eager protocol), `Deliver`
matches it with a posted receive. A message that was not copied is read from the sender's buffer at the moment
of delivery, so that a buffer packed too early shows. Two messages of one source, destination and tag are
received in order, all others in any order.

`NeighbourSync` is the promise: a process publishes its border of a step and may go on once the neighbours it
receives from have published theirs of the same step. `DistributedBoundaries` is built on it.

### GPU packing: `GpuKernels`, `GpuPacking`

`GpuKernels` has the 24 kernels: which threads and blocks there are, which message a thread accesses, at what
position, and which element of the field. The twelve hand-written variants differ in which axes are extended by
edges and corners and in the strides within the message, and each is a record of these. `GpuPacking` is one
process: the host enqueues kernels, the GPU runs the blocks of the first kernel in any order (one
action per block). `Trimmed` is the set of halos with the sides without neighbour switched off, `SetupSize` the
sizes the buffers were made for from the full ones, `Place` the part of a field in a message, in the generic exchange
behind those of the fields before it (`Prefix`). `Launches` are the kernels a call of pack or unpack enqueues: the host skips
faces without neighbour and launches without blocks. Neighbours are
represented by the messages the loops of the CPU handler would pack.

### Exchange setup: `ExchangeSetup`

The constructor (`Construct`: `boollist::permute` of the periodicity), `AddHalo` in any order and repeatedly,
`Setup`. The layouts and the periodicity are chosen at the start among all there are.

### Boundary conditions: `BoundaryApply`, `BoundaryKernel`, `DistributedBoundaries`

`BoundaryApply` is the CPU: 26 loop nests in the order of `apply()`. `BoundaryKernel` is the GPU: a launch
whose threads cover the sorted extents of all regions, each region with its inverse permutation; it
implements `BoundaryApply` region by region. `DistributedBoundaries` has a process collect the stores of its
jobs (`CollectStores`), check their number (`Exchange` or `Throw`), exchange (over `NeighbourSync`), unpack and apply
the boundary conditions job by job. What a halo region holds is represented by where it comes from.

### Stencils: `StencilProgram`, `DocumentedModel`, `VerticalRegions`, `FillFlush`, `StencilBackends`, `StencilExecution`

`StencilProgram` is what the library computes at compile time from multistages of stages: extents by backward
accumulation, `need_sync`, groups of stages that share a loop body, multistages that share a kernel.
`StencilBackends` lists for each backend the items of each thread in the order of its loops: one stage at one
point, with the locations it reads and writes and the number of barriers before it; blocks, clipped last
blocks, levels, storage of temporaries (shared, per block, per thread, a single level) and IJ caches are those of
the code. `gpu_horizontal` has a loop of its own along the row (`JLoop`). Everything an instance needs is computed
once, in `Program`. `StencilExecution` interleaves the threads.

`VerticalRegions` is the vertical axis: levels named by a splitter and an offset, their indices, the intervals an axis
is split into, their place at run time, and the overload of an operator that serves each interval. The operators of
the checked computations are written as overloads for intervals and expanded by it (`Operator`).

`FillFlush` is what the GPU backend adds to a multistage for its k-caches: the levels a fill or flush copies and the
bound it checks (`SyncedOffsets`), the slide of the registers, the assertions of the code (`ValidateKBounds`,
`SyncsAllAtOneLevel`), and what a program must say for a cache to be transparent (`KCachesAreLegal`). A fill, a flush or a
slide is an item of a thread that copies between registers and memory; a register nobody has assigned to
holds a value of its own.

`DocumentedModel` is taken from the user manual's execution model and says, for each read, which stage
must have written the value: it knows no blocks, extents, barriers or fusion. The manual's access restrictions
are there too (`AccessRules`), and the computations in the runs keep them.

### Fields in memory: `FieldProgram` and what it is built from

`FieldProgram` is a program of the host that makes one call after the other: build a storage, make a reducible, assign,
transform a layout, run a computation on `cpu_kfirst`, reduce, drop, exit the thread. Each call computes
what the library computes at compile time and on the host, down to the addresses, and leaves a queue of launches. A
launch is what its threads do, statement by statement, each with the number of barriers before it
(`ParallelLoops`); threads of the first launch of the queue interleave, and the next launch begins when they are done.
On a GPU the host goes on meanwhile, unless it needs a result or copies to the device. A storage on a GPU is initialised in its
host copy, and transferred (`UpdateTarget`) when a call first asks for its target pointer (`Stale`); `DataStore` has the flag with all its values. Memory
is a function from addresses to bags of numbers, the combination of two bags is their sum: so the order in which a
reduction combines elements does not matter, as the code may assume, while every element that is lost or counted
twice shows, and what memory held before is a value like no other.

- `StorageBuilder`: numbers are `integral_constant`s or not, and the overloads of the code follow from that (`Known`,
  `TypeOf`). `Set...` are the functions of the builder, `Build` is `build`; lengths, strides, `IndexOf`,
  `RestoreIndices` are those of `info`; `TargetPtr` aligns the first element behind the halo; `StridesKind` is what
  storages must share to be moved with the strides of one of them.
- `Allocators`: `HugepageAlloc` with its modes and the offset in front of the pointer, which later tells
  `HugepageFree` what to free; `CachedAllocate` and `StashBuffer` are `cached_allocator` and the deleter of its buffers.
  A stack belongs to a type of allocator and a size: reducibles share one if all template arguments of `make_reducible` are the same.
- `Sid`: a SID is a record of the properties it provides, with the defaults of `concept.hpp` for others; `Shift`,
  `Synthetic`, `Contiguous`, `Block`, `ShiftSidOrigin`, `RenameDimensions` and others make one from another.
  In its second half: composites, with their primaries (`Primary`); loops as walks, the pointers a body sees and where
  the loop leaves the pointer (`RunLoop`); ranges, whose cursors advance several loops at once (`Advance`).
- `LayoutTransformation`, `Reduction`, `KfirstSweep`: the loops and kernels. `ReduceStep` is a launch of `reduce_step`,
  `ReduceGpu` all of them; `WarpReduce` is the exchange of registers in a warp; `StageLoop` the functor of a stage
  for a block, `SweepLaunches` the thread pool.

`ArrayProgram` is what it all means: named arrays from indices to values, calls that take effect in their order.
`ImplementsArrayProgram` says that at every moment every index of every field has, in memory, a value the array may
have, and that results of reductions are those of the arrays.

`Atomics` is the variable and the workers that operate on it: `Load`, `Swap`, `SwapFails` and so on are the steps of the
loops around `atomicCAS`, `Enter` and `Leave` those of critical sections, `Direct` an instruction. `AtomicRegister` does each operation
in one step.

## 3 Runs and bounds

| Run | Question | Bounds |
|---|---|---|
| `data_store` | do views and transfers show one array, kernels still running included? | 2 elements, 3 values, 1 kernel outstanding |
| `halo_ring` | does the exchange stay correct when neighbours run ahead and sizes change, are two messages between the same pair told apart, does it finish, does it implement `NeighbourSync`? | 2 processes in a ring, rotated layout, uneven halos, 3 steps, 2 then 1 fields |
| `gpu_packing` | do the kernels build and take apart the messages of the CPU? | 3x2x1 grid, blocks of 3x2 threads, 2 fields, 2 steps, both handlers |
| `setup_swaps` | do elements, directions and periodicity follow the same axes? | 3 dimensions, all layouts, all self-inverse grid maps |
| `boundaries` | are halos complete, boundary conditions on top, read-only stores kept, errors harmless? | 2x2x1 processes, periodic along one axis, 4 stores, 4 calls |
| `boundary_kernel` | does each halo element get its boundary value once? | 64 shapes of fields, 3 predicates, blocks of 2x3x1 threads |
| `stencil` | do all backends compute what the manual promises; does the order of their items, fixed before they run, settle it? | 10 computations and all legal chains of 3 stages of a family on 2 levels, 2 or 3 columns, 1 or 2 blocks; on the GPU, all combinations of k-caches in a family on 3 levels; vertical advection on all backends, on 5 levels with a splitter |
| `fields` | do programs on fields do in memory what their calls mean on arrays, without races, accesses outside of allocations or leaks; are the atomic functions atomic? | 23 programs of up to 12 calls: layouts of two to five dimensions, all kernels of the reduction, both CPU backends of it with every mode of huge pages, two computations on `cpu_kfirst`; 2 threads, blocks of 2 threads in a warp; 3 workers with up to 2 atomic operations each |
| `setup_rotations`, `boundaries_two_stores`, `stencil_barrier`, `stencil_launch` | the findings, section 6 | the smallest instances; two for `stencil_barrier` |

What each run shows is in its `about`; what each property means is above its definition.

Why the bounds suffice:

- `DataStore` treats all elements alike; two are needed for a kernel that has written one and not yet the other,
  three values for old, new and uninitialized contents.
- `HaloExchange` couples a process only to its neighbours. The ring has two messages of one exchange between the same pair, which
  only the tag tells apart, uneven halos, and rotated axes; a process may be an exchange ahead of the other. Three steps
  are two exchanges after the first: one reuses every buffer, one sees a change in the
  number of fields. The proofs cover all grids, those with different neighbours on both sides included, and any number of steps.
- `GpuPacking` needs a process without neighbour on each side, with both, and in corners of the grid; the third
  axis is closed in itself. Blocks of 3x2 threads divide a face unevenly. The second step unpacks into
  fields whose halos are already set.
- `BoundaryKernel`: the 64 shapes have equal, sorted and unsorted extents, empty halos, and padding.
- `StencilExecution`: with two levels, each level has one above or below. Three columns in blocks of two have a full and a
  partial block, and extents of one column reach across the seam. The family of chains has every combination
  of policy, split into multistages, cache and offset that the rules allow; on the GPU chains run on one block of
  two columns only, because the interleavings of two blocks multiply. `gpu_horizontal` runs the computations it can
  run, those of one parallel multistage.
- K caches, on one column, because registers belong to a thread: three levels with the default limit of
  offsets are a first level, a last one and one between, with windows that reach over both ends; policies,
  directions and later readers in all combinations, and vertical advection also on an axis of two parts, in which
  the levels between the splitters have no name of their own. `CopiesStayInBounds` says that no copy leaves the column.

- `FieldProgram`: constants of the code are smaller, in proportion: an address is a unit of 16 bytes, so that a field of elements of
  1, 2 or 8 units is aligned at 1 (`cpu_kfirst`), 4 (`cpu_ifirst`) or 8 (`gpu`) units; a page has 16 of them, a huge page 64, a cache
  line 4; a block of the transformation is 2 wide for 8, a warp has 2 lanes for 32, the host finishes a reduction of 2
  elements for 8, a block of `cpu_kfirst` has 2 by 1 columns. Lines of 3 elements need padding in units of 4; a halo
  of 1 moves the aligned element; 16 elements make a reduction of three steps with full blocks; 6 are rounded up, so that
  neutral elements are filled in. Three columns in blocks of two have a partial block. Programs drop a field and make another
  one, so that a buffer with the last user's contents is used again.
- `Atomics`: with three workers a swap can fail because of another one, and find then that the third
  has left nothing to do. The proof covers any number of workers and operations.

The configurations also evaluate assumptions about what has no state: `SmallAxesAreTiled` (the intervals of every axis of
up to three parts and limits up to three cover each level once), `ColumnsAreLegal` and `ExamplesAreLegal` (the
computations keep the manual's rules and the assertions of the code).

In `fields` every program has to come to its end: deadlock is checked, with a last state that stutters, so a program
that has not ended has a step; and what it launches ends (`WorkEnds`).

Deadlock is checked except where the model ends: `ExchangeSetup`, `BoundaryKernel`, `StencilExecution` (no
action follows when the call has returned) and `halo_ring`, whose liveness property shows a deadlock.

## 4 Fairness

- `HaloExchange!Fairness`: weak fairness of each process (a program that can go on does) and of deliveries to
  it (MPI's progress rule: a send and a receive that match complete). There is none for `Copy`: MPI need not
  buffer, and a program that waits for it may deadlock. `EveryProcessFinishes` therefore shows that the
  order post, send, wait needs no buffering.
- `NeighbourSync!FairSpec`, weak fairness of `Publish` and `Finish`, is implied by it; `halo_ring` checks that.
- `StencilExecution!FairSpec`: weak fairness of the next step. The driver runs kernels in order, and the threads
  of a kernel or a pool are not starved; each thread has finitely much to do. `ComputationReturns` can
  fail only at a barrier some thread never reaches.

- `FieldProgram!Fairness`: weak fairness of the threads of what is launched, all together, and of the workers on an atomic variable,
  all together: one of those that can go on does. Nothing is assumed of any single worker, so that `WorkEnds`
  shows the loops around `atomicCAS` to be lock-free: who fails has been overtaken by another one that succeeded.

The other specifications have no fairness; only safety is checked of them.

## 5 Proofs

The theorems hold for all values of the constants that satisfy the named assumptions:

- `SharedAssumption`, `ZeroAssumption` (`DataStore`): the variant is one of two; zero is a value.
- `GridAssumption`: a grid has at least one process along each axis, each axis is periodic or not.
- `ExchangeAssumption`: the layout is a permutation of the axes; each halo is one (`IsHalo`: what the
  assertions of the constructor of `halo_descriptor` accept, the halos lying within the field); an
  exchange moves at least one field and at most as many as `setup` was given.
- `ApplyAssumption`, `KernelAssumption`: fields have halos, predicates name directions, blocks have threads.

- `ThreadsAssumption`, `PackingAssumption`: blocks have threads; the layout of `GpuPacking` is a permutation, the
  halos of the example and of the fields are halos.
- `SetupAssumption`: grid maps are permutations of three axes, lengths positive.
- `InstancesAssumption` (`StencilExecution`): an instance is a computation (stages with extents that contain their point, multistages,
  temporaries), a backend and sizes that are not empty.
- `BoundariesAssumption`: calls are made of jobs as the types of the code have them: a placeholder stands for a store the
  job is associated with; there are at least as many stores as jobs to exchange.

`Atomics` has no assumption; its specification starts operations that are compatible (`MayMix`): critical sections
exclude only those of their own name, so a program must not mix them with other operations on one variable (section 6).

Some theorems have a hypothesis of their own, where the code is right only for some uses. Each is what the documentation asks of
the user, or excludes one of the findings of section 6, and a passing run satisfies it:

- `OneStorePerJob` (`Complete`, `Current`): `exchange` is handed as many stores as jobs. Without it the
  run `boundaries_two_stores` violates `HalosComplete` (finding 2).
- `OwnStoresWritten` (`Current`, `ReadOnlyStoresKept`): a boundary condition writes only stores a job of the call names to be exchanged.
- grid maps that are their own inverse (`PeriodicAxes`): finding 1. `PermuteFollows` says that this is not only sufficient for
  a map: it is equivalent to the periodicity following the axes whatever it is.
- `ExampleCovers` (`Bounds`, `Halos`, `Sent`): no field of the generic exchange has more to send or receive than the example
  given to `setup` (`gcl/halo_exchange.hpp:385`, `descriptor_generic_manual.hpp:441`). The code does not check it.
- `BordersInside` (`Sent`): no field is narrower than its halos. Nothing checks this either; a wider halo would reach across
  the neighbour, and part of a message would be what its sender has received itself.

- `RaceFree` (`OrderSuffices`, `OrderCompletes`): the order of a program's items settles what each of them finds. This is a property of
  the program before it runs, a matter of loops, barriers and fusion. `OrderSettles` checks it in `stencil` for all 969 instances, and `OrderDecides`
  has it as its hypothesis; for the programs of findings 3 to 5 it is false.
- `WholeColumns` (`WindowsStayInside`): a multistage with a cache of a field of the caller goes through all levels of an axis on which each level has one name,
  and passes the assertions of `run.hpp` and `fill_flush.hpp`. All 181 instances of `stencil` that have such a cache are of this kind. For multistages
  on a part of the column the claim is false (section 6).

| Module | Theorem | States |
|---|---|---|
| `MemoryProofs` | `Invariance`, `TypeCorrect`, `ViewsAreCurrent`, `Refinement` | `OutstandingKernelMarksHost`, `TypeOK`, `LiveViewsSeeTheArray`, `ImplementsLogicalArray` |
| `ProcGridProofs` | `NeighbourBack` | the neighbour relation is symmetric on every grid |
| `HaloExchangeProofs` | `RegionSizes` | packed and unpacked ranges have the lengths the buffers were sized with; what is unpacked lies in the field and outside of the computed part |
| | `Invariance`, `TypeCorrect` | `IndInv`, `TypeOK` |
| | `HalosAreCurrent`, `NothingTruncated`, `QuietBetween`, `InStep`, `BuffersAreKept` | `HalosCurrent`, `NoTruncation`, `QuietBetweenExchanges`, `NeighboursInStep`, `AlwaysBuffersKept` |
| | `Synchronises` | the safety part of `ImplementsNeighbourSync` |
| `GpuPackingProofs` | `TypeCorrect`, `Bounds`, `Apart` | `TypeOK`, `WithinBuffers`, `ThreadsApart` |
| | `Halos`, `Sent` | `HalosAsExpected`, `SentAsFromTheCpu` |
| `SetupProofs` | `ReverseFacts`, `TransformFacts` | `reverse_map` and `layout_transform` of layouts of any length: what they are, and that the first undoes itself |
| | `TypeCorrect`, `Addressing`, `PeriodicAxes` | `TypeOK`, `ElementsFound`, `PeriodicAxesMatch` |
| | `PermuteFollows` | for which grid maps `boollist::permute` is right |
| `DistributedBoundariesProofs` | `TypeCorrect`, `NoneWaiting`, `SidesKept` | `TypeOK`, `ThrowLeavesNoneWaiting`, `AlwaysSidesKept` |
| | `Complete`, `Current`, `ReadOnlyStoresKept` | `HalosComplete`, `ExtendsCurrent`, `AlwaysReadOnlyKept` |
| `BoundaryProofs` | `TypeCorrect`, `WrittenSoFar`, `AllWrittenOnce` | `TypeOK`, `OnceSoFar`, `EachOnce` of the loops of `BoundaryApply` |
| | `KernelAsLoops`, `KernelWritesOnce` | `ImplementsApply`, and with it `EachOnce`, of the kernel of `BoundaryKernel` |
| `StencilProofs` | `TypeCorrect`, `OrderSuffices`, `OrderCompletes` | `TypeOK`, `ReadsAsPromised`, `ResultsComplete`, the latter two of programs that are `RaceFree` |
| | `OrderDecides` | it is enough that `OrderSettles` |
| | `FusionKeeps` | `fuse_stages` keeps every stage, fill and flush once and in order, and puts barriers where they were or before |
| | `AxesAreTiled`, `WindowsStayInside` | `Tiled` of every axis; `CopiesStayInBounds` of whole columns |
| `MemoryProofs` | `AtomicInvariant`, `AtomicFunctions` | `AtomicInv`, `ImplementsRegister` |
| | `IndicesFound`, `PositionsHeld` | indices and positions of a storage are inverse to each other, for any number of dimensions and any layout |
| | `BackendLayouts`, `TargetAligned` | the layouts of the backends are layouts; the elements of a store are inside of its allocation, its lines aligned |
| | `SameKindSameStrides` | what `strides_kind` tells about strides |

**Data store.** The properties are not inductive: a request for a view relies on the flag. `IndInv` adds
`SyncedMeansEqual` (the flag says synced only when both allocations, the outstanding writes included, agree) and
`FlagMatchesViews` (a live view of a side excludes the flag that calls this side out of date). Each action
of the store then maps to a step of `LogicalArray` or to a stutter: transfers and kernel threads are stutters,
since the array already contains what an outstanding kernel has still to write (`Drained`).

**Halo exchange.** `HalosCurrent` depends on messages sent long before. The inductive invariant
(`IndInv`) says, for each process, what its buffers hold in each phase, and, for each pair of
neighbours and direction, that the messages under way are exactly those of the steps after the last one received (`Got`) up to
the last one sent (`Sent`), one of each; and that a message MPI has not copied belongs to the exchange its
sender is still in. From these: the first message of a source and tag is that of the step the receiver is in, so the
right border is delivered; the sender's buffer still holds it, since a process packs again only after its sends
are complete; no process is more than a step ahead. That a message is matched by the right receive needs that tags
determine directions (lemma on `Tag`), that the layout is injective, and `NeighbourBack`. `NothingTruncated`
needs the lemma `SizeFacts`: what one side computes as the size to send is what the other computes as the size to
receive; `RegionSizes` adds that the loops of pack and unpack visit that many elements. The invariant itself is
checked by TLC in `halo_ring`.

**Boundary conditions.** `OnceSoFar` is inductive with the type invariant. The proof rests on two facts: the
regions of two directions are disjoint, and the n-th call's direction determines n, which needs the arithmetic of
base 3 in `Nth`. A step of the kernel is a step of the loops: whatever the sort exchanges, each sorted extent stays that of one
axis (`CompareKeeps`), the permutation is the inverse of where they came from (`PermInverts`), so the threads that work map
one to one to the elements of the region (`OneThread`); there is one for each of them since the threads are as many as the
largest extent at each place of the sorted ones, rounded up to whole blocks (`ThreadsCover`). That the extents are in
descending order is not needed. Exchanged sizes that are equal do no harm, and neither do empty halos.

**Atomics.** That a swap takes effect on the value the variable has is what `atomicCAS` compares. What has to be carried from
one step to the next is that a minimum or maximum about to put its value still improves on the one it read
(`LoopsImprove`), and that a critical section is never shared, so that the value read inside is still there
(`SectionsExclude`, `SectionsHold`). Both rest on `MayMix`, which is kept when operations are done (`MixStays`).

**Storages.** A position is a number in a mixed radix (`Radix`): the digits are the indices in the order of the layout, their weights the
strides, since each stride is the next one times a padded length (`StorageWeights`). So what the inner dimensions add is less than one
step of an outer one (`TailsAreSmall`), and dividing by strides finds the digits (`DigitsFound`) or, the other way, puts
a position together (`DigitsAmount`). `SumFunction` is a choice among functions; `SumSteps` shows that there is one, after which sums over the dimensions are
treated by taking one dimension away at a time (`SubsetInduction`). All strides but the innermost are multiples of the alignment (`AlignedStrides`), so that one aligned
line aligns the others (`LinesAligned`); that the alignment in elements is one in bytes rests on Euclid's algorithm (`GcdDivides`). These are theorems
about all storages; `MemoryInOrder` and `KindsTellStrides` say the same of the storages of a run of `fields`, with their allocators.

**GPU packing.** Along one axis, the parts of a border are intervals of thread indices, and what a thread reads or writes lies in
the field (`AxisFacts`), each thread at its own place (`AxisApart`); the twelve variants of a kernel differ only in which
of three cases an axis is (below the kernel's, its own, above). Three axes make a box, whose positions are numbered without
gap or overlap (`RowFacts`, `BoxFacts`). A thread that takes part in a corner therefore has a neighbour there: its part of the
border is not empty on each axis, borders of sides without neighbour are (`TrimFacts`), and a neighbour on every side is one
in the corner (`SideFacts`). The message is long enough because trimming changes no size in a direction that has a neighbour
(`SizeFacts`), and prefix sums are sums (`PrefixFacts`, by induction). The invariant adds that no launch without
blocks is in the stream: such a kernel would never end in the model, and is an error in CUDA.

What the kernels put where needs the inverse of this: for each element of a message, or of a halo that faces a neighbour,
there is a thread that has it, in the kernel of the last axis the direction has a part in (`ThreadOf`), and that kernel
is launched (`AllLaunched`). The loops of the CPU visit the same places in the same order (`VisitedFacts`, `BorderFacts`), and
the parts of the fields follow each other as in a message that is put together from them (`FlattenAt`, `MessageAt`). While
kernels are under way, the invariant (`HalosInv`, and `SentOK` for the messages) says of each element that it has its value
already, or that a thread that has not run will write it (`Unwritten`, `Unsent`); and it says in which order the kernels of
a turn are in the stream (`InOrder`): those that unpack before the program's own, and those that pack behind it. A block
that runs writes what is expected (`UnpackedAt`, `PackedAt`), and what it leaves to be written, others have (`PendingDone`).
TLC confirms the invariant and both hypotheses on the instance of `gpu_packing`.

**Exchange setup.** The composition of layouts is a fact about permutations of intervals, by the pigeonhole principle
(`Permutations`). The invariant (`IndInv`) says of every halo added so far that it is stored for the axis its stride has.

**Distributed boundaries.** The invariant of a process (`ProcessOK`) relates where it is in a call to what its halos hold: the
borders received are those of the current exchange (`BordersOK`), sides without neighbour hold what the boundary conditions
of the calls and jobs done so far have left (`OpenSidesOK`), and the number of exchanges it has taken part in is that of the calls
(`SentOK`), so that two neighbours agree which exchange they are in. `Sync!Finish` makes the borders current.

**Stencils.** What a read finds depends on the interleaving of all threads, but what it *should* find is decided by the order of
items alone. Items are ordered if they are of one thread, if a barrier of their team lies between them, or if they
belong to different launches. The invariant (`RunningInv`) says that what has been done is closed under this order (`InOrderDone`), and
that every location holds what the last item to write it has left, among those done (`Memory`). `RaceFree` says of each read that the order
puts exactly one writer last before it; so this is the writer whose value is there. Most of the proof is about what the code generates: that the
loops of every backend, as folds and filters of sequences, make sequences of well-formed items (`GoodItem`), each of a stage of the launch, at a
level of its multistage, with barriers that no thread of a team leaves out. Fusion is followed group by group (`Grouped`).

An axis is a line of names for levels, `Place` maps them to indices and is monotonic (`Ending`, `Splitters`); intervals are
joined one by one, and the level behind an interval is the first of the next. For `WindowsStayInside`: close to an end the bound that is checked is the one of this
end, so what lies beyond is not copied; elsewhere `validate_k_bounds` has made sure that the window fits (`WindowInside`).

**Only model-checked.** Liveness (`EveryProcessFinishes`, `ComputationReturns`, `WorkEnds`, and the fairness part of
`ImplementsNeighbourSync`): the prover has no rule for fairness and `ENABLED`.
That programs are race free (`OrderSettles`) is not a theorem: it is false for some of those the library accepts (findings 3 to 5), and what
distinguishes them is what the run examines. `NeighboursInStep` is the other way round, only proved: `IndInv` implies it.
`FieldProgram` and the modules
under it are recursive, the SIDs by nature (a loop of loops, a reduction of reductions), which the prover does not accept.
Induction itself is possible where the induction hypothesis can be written as a set (`SetInduction`); in this way the
concatenation of sequences of sequences (`Flatten`), prefix sums, counts of exchanges, folds and filters are treated for every input.

## 6 Findings

Each has a run in which TLC finds the counterexample, on the smallest instance.

1. `setup_rotations`: for a `layout2proc_map_abs` that turns all three axes, the constructor permutes the periodicity with `find`
   (`gcl/halo_exchange.hpp:203`), directions are permuted with `at`; the grid is periodic along other axes than
   the data. All uses in the repository are identities, and `setup_swaps` shows that maps that are their own
   inverse are right.
2. `boundaries_two_stores`: `exchange` packs the first *n* of the stores it has collected, *n* being the number of jobs
   (`boundaries/distributed_boundaries.hpp:170`). A boundary condition bound to two stores pushes another store out.
   The same number makes the check against the maximum too weak.
3. `stencil_barrier`: a barrier belongs to a stage, and is dropped at levels at which that stage has no operator
   (`stencil/be_api.hpp:309`), although stages after it rely on it.
4. `stencil_barrier`, its second computation: a stage with a barrier may join a group of stages before it, because the predicate leaves out the wrong
   one of its arguments (`stencil/be_api.hpp:218`); its barrier then comes before the whole group, and a later stage relies on its being
   between.
5. `stencil_launch`: two parallel multistages are fused into one kernel without comparing their intervals
   (`stencil/gpu/entry_point.hpp:114`). If the second starts at a higher level, its blocks of levels are shifted against those of
   the first, which are not ordered with it.

Modelling the fields showed more places that no run of its own refutes; the programs of `fields` stay clear of them:

- `sid/loop.hpp`: the cursors of `make_range` do not agree on what `done()` says. `operator!=` of a range (line 511) takes it as *more to
  come*, as does the outermost cursor (`m_pos > 0`); the inner ones say *no steps* (82, 157, 221). An inner loop without steps
  never ends, one that is known at compile time to have one step as the outermost loop is not visited at all (455), one
  known to have none never ends (474). The parameter named `outer_most_loop` (657) is the innermost: `make_cursor` folds from the left.
  `Sid` translates all of this (`RunsOnce`, `Endless`, `InnerMore`).
- `storage/traits.hpp:51`: storages without an id share a kind if the compiler knows the same of their lengths; with different
  lengths at run time their strides differ. `sid/composite.hpp:106` asserts, in debug builds only, that they do
  not. `KindsTellStrides` holds because the programs give such storages an id or an unknown one.
- `sid/allocator.hpp:127`: a cached allocation acquires two buffers and keeps one, so that the first request for a size
  allocates twice. The deleter of a buffer keeps a reference to the stack of the thread that allocated it (86): it must run on this
  thread, and before its end.
- `sid/concept.hpp:435` tests for `-=` with `obj = -arg`.
- `common/atomic_host.hpp`: `atomic_min` and `atomic_max` are in critical sections of different names, and `atomic_add` is an atomic
  capture: none excludes the others. `common/atomic_cuda.hpp` (115, 133, 212, 234) compares numbers where `atomicCAS` compares bits, which
  differ for 0.0 and -0.0.
- `reduction/gpu.hpp:314` asserts an even number of elements, which `get_threads` does not get for small odd sizes; the first shuffle
  of a full warp names 28 of its 32 lanes (127, 136).
- `storage/traits.hpp:79`: `has_holes` looks at the last dimension by number of dimensions, not at the innermost one of the layout: with
  masked dimensions there is none. `common/hypercube_iterator.hpp:67`: a hypercube with an empty dimension has a first point that it
  does not contain.
- `stencil/gpu/fill_flush.hpp:269`: at a level that is close to both ends of a multistage, only the lower bound is checked. A forward multistage on the
  last two of five levels (limit of offsets 3) with a fill window from -2 to +1 passes all assertions and reads the level above the last one. Multistages on
  whole columns do not (`WindowsStayInside`).
- `stencil/frontend/run.hpp:217`: the bounds of arguments are checked in debug builds only, and not those of levels.

The `boundaries` run keeps to boundary conditions with one exchanged store each, and `stencil` to computations
without 3, 4 and 5, so that their properties hold there.

## 7 What is not modelled

- MPI, CUDA and OpenMP are environments: what the code relies on is modelled, their errors are not.
- Values of fields: they are represented by whose, where and of which step they are.
- Stencils have one horizontal dimension. Most loops treat i and j alike; in `cpu_ifirst` the loop over j is outside of that over k
  and over i (`loops.hpp`), so that a row is computed on all levels before the next one, which is not modelled. Extents of accessors contain the point
  itself. The horizontal GPU backend keeps the row of a thread only; data of the caller have exactly the levels of the axis. The computations keep `WritersComeFirst`:
  no stage overwrites what an earlier one reads at another point. The manual allows that; not all backends order it
  (hazards at `need_sync.hpp:24`, `cpu_kfirst.hpp:61` and `cpu_kfirst.hpp:145`).
- The generic exchange has fields of one type and one layout (hazards at `non_vect_interface.hpp:143`,
  `descriptor_generic_manual.hpp:290`); its CPU handler is the reference of `GpuPacking` only.
- On the GPU receives are posted after `pack`, as in the manual's example. On the CPU `post_receives` may come first, and then
  has the sizes of the exchange before: that these are not too small is assumed of the caller (guard of `PostReceives`), so
  `NoTruncation` says nothing of a caller who gets it wrong (hazard at `descriptors.hpp:517`).
- `T const` data stores, the two-dimensional `translate`, meters and timers.
- `FieldProgram` is one thread of the host with one device; an address is a number that is never used twice, but for
  cached buffers. Numbers do not overflow. `cpu_kfirst` is the only backend of stencils whose memory is
  modelled; stages of its computations combine what they read. The bodies of loops, user kernels and assignments are external.
  The bounds that views of storages check, names of storages, and the lanes a shuffle mask leaves out are not modelled.
- Atomics of floating point compare values, not bits.
- Metaprogramming, tuples, the Fortran and Python adapters, third-party code, build files.

## 8 Plan

Next, most important first:

1. **Proofs**: that programs without the patterns of findings 3 to 5 are `RaceFree`; for this the extents must be shown to cover what later
   stages read (`StageExtent`), and `need_sync` every read with an offset.
2. **K caches that only flush** in a multistage that starts above the lower end of the column: the code stores a
   register that nothing was assigned to (`fill_flush.hpp:263`); `FlushesWhatIsWritten` excludes it so far.
3. **Order of writes after reads**: drop `WritersComeFirst` one backend at a time, with what the manual
   promises for each (`execution_model.hrst`, rule 5 and the policies).
4. **Generic exchange on the CPU** over the communication of `HaloExchange`, fields with layouts and types of their own.
5. **All-to-all exchange**: `wait` leaves sends open; packets may be reused.
6. **Ranges** with loops of no or one step, as a finding of its own.
