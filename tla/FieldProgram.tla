---------------------------- MODULE FieldProgram ----------------------------
(***************************************************************************)
(* A program of the host that builds storages and reducibles, transforms   *)
(* layouts, runs stencils on cpu_kfirst, reduces and applies atomic        *)
(* operations, on one device.  The host makes one call after the other;    *)
(* what a call launches is carried out by threads, and on a GPU the host   *)
(* goes on meanwhile, unless the call needs a result or copies to the      *)
(* device.                                                                 *)
(*                                                                         *)
(* A program is a record: traits, the reduction backend, the number of     *)
(* OpenMP threads, GT_HUGEPAGE_MODE, the implementation of atomics, and    *)
(* the calls.                                                              *)
(***************************************************************************)
EXTENDS KfirstSweep, Allocators, Atomics

VARIABLES program,
          pc,        \* the number of the call the host makes next
          fields,    \* name -> storage or reducible
          os,        \* the allocators, see Allocators
          issued,    \* for every launch of the queue, the number of its call
          awaited,   \* the call that the host waits for to end, if any
          results    \* of the reductions
programVars == <<program, pc, fields, os, issued, awaited, results, mem, queue>>
allVars == <<programVars, atomicVars>>

Call == program.calls[pc]
OnGpu == program.traits = "gpu"
NotWaiting == [call |-> 0, stash |-> <<>>, target |-> {}]
IsWaiting == awaited.call # 0

AddressOf(f, is) == f.ptr + IndexOf(f.s.info, is) * f.s.size

\* Where the element is that the field promises: with m_state invalid_target, in the host copy.
ValidAddress(f, is) == (IF f.invalid THEN f.host ELSE f.ptr) + IndexOf(f.s.info, is) * f.s.size

\* A storage, a C array or a reducible as a SID.
SidOf(f) ==
  IF f.what = "store" THEN StorageSid(f.s, f.ptr)
  ELSE IF f.what = "array" THEN ArraySid(PtrHolder(f.ptr, f.s.size), f.s.extents)
  ELSE [origin |-> PtrHolder(f.ptr, f.s.size), strides |-> f.s.info.strides, kind |-> f.s.kind,
        lower |-> [d \in DOMAIN f.s.layout |-> Known(0)], upper |-> f.s.info.lengths]

LengthsOf(f) == [d \in DOMAIN f.s.info.lengths |-> f.s.info.lengths[d].v]
StridesOf(f) == [d \in DOMAIN f.s.info.strides |-> f.s.info.strides[d].v]

\* Mutant: kernels of a new call overtake those that are queued.
MadeAhead(launches, waits, stash) ==
  /\ queue' = IF queue = <<>> THEN Launches(launches) ELSE <<queue[1]>> \o Launches(launches) \o Tail(queue)
  /\ issued' = IF queue = <<>> THEN [l \in DOMAIN Launches(launches) |-> pc]
               ELSE <<issued[1]>> \o [l \in DOMAIN Launches(launches) |-> pc] \o Tail(issued)
  /\ awaited' = IF waits THEN [NotWaiting EXCEPT !.call = pc, !.stash = stash] ELSE NotWaiting
  /\ pc' = pc + 1

\* The call has been made: its launches, whether the host waits for them, and what it
\* stashes then.
Made(launches, waits, stash) ==
  /\ queue' = queue \o Launches(launches)
  /\ issued' = issued \o [l \in DOMAIN Launches(launches) |-> pc]
  /\ awaited' = IF waits THEN [NotWaiting EXCEPT !.call = pc, !.stash = stash] ELSE NotWaiting
  /\ pc' = pc + 1

\* Fields without a copy on the host.
NoHostCopy == [host |-> 0, invalid |-> FALSE]

\* Mutant: the target of a store that is only read is not updated.
StaleWritten ==
  { n \in CASE Call.op = "assign" -> {Call.name}
            [] Call.op = "transform" -> {Call.to}
            [] OTHER -> {} : fields[n].invalid }

\* Of the stores whose target pointer a call asks for, those whose target is invalid.
Stale ==
  { n \in CASE Call.op = "assign" -> {Call.name}
            [] Call.op = "transform" -> {Call.to, Call.from}
            [] Call.op = "sweep" -> { a.name : a \in { x \in Range(Call.args) : x.what \in {"field", "renamed"} } }
            [] OTHER -> {} : fields[n].invalid }

\* update_target, in get_target_ptr and get_const_target_ptr: the host copy is transferred
\* whole, which the host waits for, before the call goes on.
UpdateTarget ==
  /\ \E n \in Stale :
       LET f == fields[n]
       IN  /\ queue' = Append(queue, Sequential({ Copy(f.ptr + p * f.s.size, f.host + p * f.s.size) :
                                                   p \in 0..InfoLength(f.s.info)-1 }))
           /\ awaited' = [NotWaiting EXCEPT !.call = pc, !.target = {n}]
  /\ issued' = Append(issued, pc)
  /\ UNCHANGED <<pc, fields, os, mem, results>>

-----------------------------------------------------------------------------
(* Calls.                                                                     *)

\* builder.build(): a parallel loop over the positions, of the target or of a host copy,
\* which has zeros where the loop leaves out an element.
BuildStorage ==
  /\ Call.op = "build"
  /\ LET s == Build(Call.builder, program.traits)
         a == StorageAllocate(os, program.traits, BytesFor(s), program.env)
         ptr == TargetPtr(s, a.ptr)
         h == StorageAllocate(a.os, "program", InfoLength(s.info) * s.size, program.env)
         first == FirstContents(s)
         copied == ~HostReferenceable(program.traits)
         store(p) == Store((IF copied THEN h.ptr ELSE ptr) + p * s.size, <<>>, first[p])
         copy == IF copied THEN [host |-> h.ptr, invalid |-> DOMAIN first # {}] ELSE NoHostCopy
     IN  /\ fields' = (Call.name :> ([what |-> "store", s |-> s, ptr |-> ptr, raw |-> a.ptr] @@ copy)) @@ fields
         /\ os' = IF copied THEN h.os ELSE a.os
         /\ Made(<< OmpLoop(InfoLength(s.info), program.threads,
                            [p \in 0..InfoLength(s.info)-1 |->
                               IF p \in DOMAIN first THEN <<Do({store(p)}, 0)>> ELSE <<>>]) >>,
                 DOMAIN first # {}, <<>>)
  /\ UNCHANGED <<mem, results>>

\* A C array of the program with its values.
DeclareArray ==
  /\ Call.op = "array"
  /\ LET n == Len(Call.extents)
         l == [d \in 0..n-1 |-> d]
         s == [info |-> MakeInfo(l, Known(1), [d \in 0..n-1 |-> Known(Call.extents[d + 1])]),
               layout |-> l, size |-> 1, extents |-> Call.extents]
         a == StorageAllocate(os, "program", InfoLength(s.info), program.env)
     IN  /\ fields' = (Call.name :> ([what |-> "array", s |-> s, ptr |-> a.ptr, raw |-> a.ptr] @@ NoHostCopy)) @@ fields
         /\ os' = a.os
         /\ Made(<< Sequential({ Store(a.ptr + IndexOf(s.info, is), <<>>, Call.first[is]) :
                                   is \in DOMAIN Call.first }) >>, TRUE, <<>>)
  /\ UNCHANGED <<mem, results>>

\* The allocator of make_reducible, whose function is another one for other arguments.
ReducibleAllocator(builder) ==
  [of |-> program.traits,
   type |-> <<builder.type, TypeOf(builder.lengths), WithDefault(builder, "id", Nobody)>>]

\* make_reducible: an array from the cached allocator, filled where it has to be.
MakeReducible ==
  /\ Call.op = "reducible"
  /\ LET b == program.backend
         s == Build(Call.builder, program.traits)
         data == InfoLength(s.info)
         rounded == RoundSize(b, data)
         bytes == AllocationSize(b, rounded) * s.size
         by == ReducibleAllocator(Call.builder)
         a == CachedAllocate(os, by, bytes, program.env)
     IN  /\ fields' = (Call.name :> ([what |-> "reducible", s |-> s, ptr |-> a.ptr, raw |-> a.ptr,
                                      by |-> by, bytes |-> bytes, n |-> rounded] @@ NoHostCopy)) @@ fields
         /\ os' = a.os
         /\ Made(Fill(b, a.ptr, s.size, data, rounded,
                      HasHoles(program.traits, s.layout, s.size, s.info.lengths)), ~OnGpu, <<>>)
  /\ UNCHANGED <<mem, results>>

\* A user writes every element of a field: with loops or through a range on the host, with
\* a kernel of two threads on a GPU.
Assign ==
  /\ Call.op = "assign"
  /\ LET f == fields[Call.name]
         c == <<SidOf(f)>>
         lengths == LengthsOf(f)
         loops == [n \in 1..Cardinality(DOMAIN lengths) |->
                     MakeLoop(n - 1, f.s.info.lengths[n - 1], Known(1))]
         ptrs == IF Call.how = "range"
                   THEN MakeRange(loops, CompositeStrides(c), c, CompositeOrigin(c))
                 ELSE OnTheWay(Nested(SX!Reverse(loops), CompositeStrides(c), c, Using(Standing(DOMAIN c), "here")),
                               CompositeOrigin(c))
         before[d \in 0..Len(loops)] == IF d = 0 THEN 1 ELSE before[d - 1] * lengths[d - 1]
         index(n) == [d \in DOMAIN lengths |-> ((n - 1) \div before[d]) % lengths[d]]
         put(n) == Do({ Store(ptrs[n][1].at, <<>>, Call.values[index(n)]) }, 0)
     IN  IF OnGpu
           THEN Made(<< OmpLoop(before[Len(loops)], 2, [x \in 0..before[Len(loops)]-1 |-> <<put(x + 1)>>]) >>, FALSE, <<>>)
           ELSE Made(<< [t \in { <<0, 0>> } |-> [n \in DOMAIN ptrs |-> put(n)]] >>, TRUE, <<>>)
  /\ UNCHANGED <<fields, os, mem, results>>

\* transform_layout of two storages of the same lengths.
TransformStorage ==
  /\ Call.op = "transform"
  /\ LET to == fields[Call.to]
         from == fields[Call.from]
     IN  Made(TransformLayout(OnGpu, ArrayAt(SidOf(to).origin, StridesOf(to)),
                              ArrayAt(SidOf(from).origin, StridesOf(from)),
                              LengthsOf(to), program.threads),
              ~OnGpu, <<>>)
  /\ UNCHANGED <<fields, os, mem, results>>

ArgSid(arg) == CASE arg.what = "field" -> SidOf(fields[arg.name])
                 [] arg.what = "renamed" -> RenameNumberedDimensions(SidOf(fields[arg.name]), arg.names)
                 [] arg.what = "positional" -> Positional(arg.dim)
                 [] arg.what = "parameter" -> GlobalParameter(arg.value)

\* The extent of an argument in a horizontal dimension: what stages read around the points
\* they compute.
ArgExtent(sw, key, d) ==
  LET reading == { s \in DOMAIN sw.stages : key \in Range(sw.stages[s].members) }
      offsets(st) == {0} \cup { r[2][d] : r \in { x \in UNION { Range(y.from) : y \in Range(st.cells) } :
                                                st.members[x[1]] = key } }
  IN  {0} \cup UNION { { sw.stages[s].ext[d][e] + o : e \in 1..2, o \in offsets(sw.stages[s]) } : s \in reading }

\* check_bounds of run, an assertion.
CheckBounds(sw, key, sid) ==
  \A d \in {DimI, DimJ} : \A x \in ArgExtent(sw, key, d) :
    /\ sw.origin[d] + x >= GetLowerBound(GetLowerBounds(sid), d).v
    /\ sw.origin[d] + (IF d = DimI THEN sw.grid.i ELSE sw.grid.j) + x <= GetUpperBound(GetUpperBounds(sid), d).v

\* &std::make_unique<char[]>
SweepAllocator == [of |-> "make_unique", type |-> <<>>]

\* run of a computation on cpu_kfirst: temporaries are allocated one after the other, and
\* stashed when it returns.
Sweep ==
  /\ Call.op = "sweep"
  /\ LET sw == Call.sweep
         bytes(x) == TmpBytes(sw.grid, sw.tmps[x].ext, sw.tmps[x].size, program.threads)
         after[n \in 0..Len(sw.tmps)] ==
           IF n = 0 THEN [ptr |-> 0, os |-> os]
           ELSE CachedAllocate(after[n - 1].os, SweepAllocator, bytes(n), program.env)
         ptrs == [x \in DOMAIN sw.tmps |-> after[x].ptr]
         external == [k \in DOMAIN Call.args |->
                        ExternalSid(ShiftSidOrigin(ArgSid(Call.args[k]),
                                      [d \in {DimI, DimJ, DimK} |-> AtRunTime(sw.origin[d])]))]
         temporary == [k \in { sw.tmps[x].name : x \in DOMAIN sw.tmps } |->
                         LET x == CHOOSE y \in DOMAIN sw.tmps : sw.tmps[y].name = k
                         IN  TmpSid(sw.grid, sw.tmps[x].ext, sw.tmps[x].size, program.threads, ptrs[x])]
     IN  /\ \A k \in DOMAIN Call.args : CheckBounds(sw, k, ArgSid(Call.args[k]))
         /\ \A n \in DOMAIN sw.stages :
              SecondariesEqualPrimary(StageComposite(sw.stages[n], external @@ temporary))
         /\ os' = after[Len(sw.tmps)].os
         /\ Made(SweepLaunches(sw, external @@ temporary, program.threads), TRUE,
                 [x \in DOMAIN sw.tmps |-> [by |-> SweepAllocator, bytes |-> bytes(x), ptr |-> ptrs[x]]])
  /\ UNCHANGED <<fields, mem, results>>

\* reducible::reduce
Reduce ==
  /\ Call.op = "reduce"
  /\ LET f == fields[Call.name]
     IN  Made(ReduceLaunches(program.backend, f.ptr, f.s.size, f.n, program.threads), TRUE, <<>>)
  /\ UNCHANGED <<fields, os, mem, results>>

\* The last owner goes: a storage is deallocated, which on a GPU waits for the device, and
\* so is its host copy; a C array is gone with its scope, the array of a reducible is stashed.
Drop ==
  /\ Call.op = "drop"
  /\ LET f == fields[Call.name]
     IN  /\ OnGpu /\ f.what = "store" => queue = <<>>
         /\ os' = CASE f.what = "store" -> Deallocate(Deallocate(os, program.traits, f.raw), "program", f.host)
                    [] f.what = "array" -> Deallocate(os, "program", f.raw)
                    [] f.what = "reducible" -> StashBuffer(os, f.by, f.bytes, f.raw)
  /\ fields' = [n \in DOMAIN fields \ {Call.name} |-> fields[n]]
  /\ Made(<<>>, FALSE, <<>>)
  /\ UNCHANGED <<mem, results>>

\* The end of the thread: the stacks of stashed buffers are destroyed.
Exit ==
  /\ Call.op = "exit"
  /\ queue = <<>>
  /\ os' = ReleaseStacks(os)
  /\ Made(<<>>, FALSE, <<>>)
  /\ UNCHANGED <<fields, mem, results>>

\* Workers apply atomic operations to a variable.
Accumulate ==
  /\ Call.op = "accumulate"
  /\ Begin(Call.value, [w \in Workers |->
             [n \in DOMAIN Call.ops[w] |->
                Operation(program.atomics.platform, program.atomics.type,
                          Call.ops[w][n][1], Call.ops[w][n][2])]])
  /\ Made(<<>>, FALSE, <<>>)
  /\ UNCHANGED <<fields, os, mem, results>>

\* The loops, transfers or kernels that the host waits for have ended.
HostReturns ==
  /\ IsWaiting /\ queue = <<>>
  /\ os' = SX!FoldLeft(LAMBDA o, x : StashBuffer(o, x.by, x.bytes, x.ptr), os, awaited.stash)
  /\ fields' = [n \in DOMAIN fields |-> [fields[n] EXCEPT !.invalid = @ /\ n \notin awaited.target]]
  /\ results' = IF program.calls[awaited.call].op = "reduce" THEN Append(results, ReadAt(ResultCell))
                ELSE results
  /\ awaited' = NotWaiting
  /\ UNCHANGED <<program, pc, issued, mem, queue>>

-----------------------------------------------------------------------------
HostCalls ==
  /\ ~IsWaiting /\ NoneBusy /\ pc <= Len(program.calls)
  /\ \/ Stale # {} /\ UpdateTarget /\ UNCHANGED atomicVars
     \/ Accumulate
     \/ /\ Stale = {}
        /\ \/ BuildStorage \/ DeclareArray \/ MakeReducible \/ Drop \/ Exit
           \/ Assign \/ TransformStorage \/ Sweep \/ Reduce
        /\ UNCHANGED atomicVars
  /\ UNCHANGED program

ThreadSteps(t) ==
  /\ Execute(t)
  /\ issued' = SubSeq(issued, Len(issued) - Len(queue') + 1, Len(issued))
  /\ UNCHANGED <<program, pc, fields, os, awaited, results, atomicVars>>

Ended == pc > Len(program.calls) /\ queue = <<>> /\ ~IsWaiting /\ NoneBusy

Next ==
  \/ HostCalls
  \/ HostReturns /\ UNCHANGED atomicVars
  \/ \E t \in Threads : ThreadSteps(t)
  \/ \E w \in Workers : WorkerStep(w) /\ UNCHANGED programVars
  \/ Ended /\ UNCHANGED allVars

InitWith(p) ==
  /\ program = p
  /\ pc = 1 /\ fields = <<>> /\ os = NoMemory /\ issued = <<>> /\ results = <<>>
  /\ awaited = NotWaiting
  /\ mem = <<>> /\ queue = <<>>
  /\ AtomicInit

\* Of the threads that can go on, one does: blocks of a kernel and threads of a loop are run
\* to their end, whatever the host does, and so are those that use an atomic variable.
Fairness == /\ WF_allVars(\E t \in Threads : ThreadSteps(t))
            /\ WF_allVars(\E w \in Workers : WorkerStep(w) /\ UNCHANGED programVars)

-----------------------------------------------------------------------------
Stashed == UNION { Range(os.stacks[key]) : key \in DOMAIN os.stacks }
Held == { fields[n].raw : n \in DOMAIN fields } \cup { x.ptr : x \in Range(awaited.stash) }

\* The state has its types; launches are queued in the order of their calls, and the host
\* waits for none but the last.
TypeOK ==
  /\ pc \in 1..Len(program.calls) + 1
  /\ awaited.call \in {0, pc - 1} \cup { c \in {pc} : awaited.target # {} }
  /\ Len(issued) = Len(queue) /\ \A n \in DOMAIN issued : issued[n] \in 1..awaited.call \cup 1..pc - 1
  /\ \A m, n \in DOMAIN issued : m < n => issued[m] <= issued[n]
  /\ \A a \in DOMAIN mem : IsABag(mem[a])
  /\ \A w \in Workers : phase[w] \in {"before", "loop", "inside"}

\* The block an address is in.
BlocksOf(a) == { b \in os.blocks : b.from <= a /\ a < b.from + b.bytes }

\* What threads read and write is in memory that the program has, whatever the layout, the
\* padding, the steps of a reduction and the buffers that wait in stacks.
AccessesInBlocks ==
  \A t \in Threads : CanRun(t) =>
    \A a \in Written(t) \cup ReadBy(t) : a >= Temporary \/ a = ResultCell \/ BlocksOf(a) # {}

\* The elements of a storage are all in one block; every line is aligned where the halo
\* ends; no two fields share a block, and nobody has a buffer that is in a stack; at the
\* end, nothing is left.
MemoryInOrder ==
  /\ \A n \in DOMAIN fields :
       LET f == fields[n]
           end == f.ptr + InfoLength(f.s.info) * f.s.size
       IN  /\ \E b \in BlocksOf(f.ptr) : f.raw \in b.from..f.ptr /\ end <= b.from + b.bytes
           /\ f.what = "store" =>
                LET inner == Find(f.s.layout, MaxArg(f.s.layout))
                IN  \A is \in Indices(f.s.info) : is[inner] = f.s.halos[inner] =>
                      AddressOf(f, is) % StorageAlignment(f.s.traits) = 0
           /\ \A m \in DOMAIN fields \ {n} : BlocksOf(f.ptr) \cap BlocksOf(fields[m].ptr) = {}
  /\ Held \cap Stashed = {}
  /\ Ended => os.blocks = {} \/ program.calls[Len(program.calls)].op # "exit"

\* Storages of one kind are accessed with the strides of one of them.
KindsTellStrides ==
  \A m, n \in { x \in DOMAIN fields : fields[x].what = "store" } :
    GetKind(SidOf(fields[m])) = GetKind(SidOf(fields[n])) /\ GetKind(SidOf(fields[m])) # UnknownKind =>
      StridesOf(fields[m]) = StridesOf(fields[n])

\* What is launched ends, and so do the operations on an atomic variable: a worker that is
\* overtaken, again and again, swaps at last, or finds that there is nothing to do.
WorkEnds == []<>(queue = <<>> /\ NoneBusy)

(* The program does what its calls mean, in their order.  A call that waits   *)
(* for the target of a store has not been made.                               *)
Unfinished == { c \in Range(issued) \cup {awaited.call} : 0 < c /\ c < pc }

Meant == INSTANCE ArrayProgram WITH
  next <- pc,
  pending <- [n \in 1..Cardinality(Unfinished) |->
                CHOOSE x \in Unfinished : Cardinality({ y \in Unfinished : y < x }) = n - 1],
  arrays <- [n \in DOMAIN fields |-> [is \in Indices(fields[n].s.info) |-> ReadAt(ValidAddress(fields[n], is))]]

ImplementsArrayProgram == Meant!Spec
=============================================================================
