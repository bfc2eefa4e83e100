----------------------------- MODULE KfirstSweep -----------------------------
(* stencil/cpu_kfirst.hpp: the stages of a computation, block after block of  *)
(* the horizontal plane, with temporaries per thread; and the loops of a      *)
(* thread pool over the blocks.                                               *)
(*                                                                            *)
(* A sweep is a record: the size of the grid, grid.origin(), the extents of   *)
(* its temporaries and its stages.  A stage has an extent, the first level    *)
(* and the step in k, the keys of its data, and cells, one per interval, each *)
(* with its number of levels: a cell puts into one member the combination of  *)
(* others at offsets.                                                         *)
EXTENDS Reduction

IBlockSize == 2
JBlockSize == 1

\* extent::minus, extent::plus and extent::extend.
ExtMinus(ext, d) == ext[d][1]
ExtPlus(ext, d) == ext[d][2]
ExtExtend(ext, d, size) == size + ExtPlus(ext, d) - ExtMinus(ext, d)

\* A temporary: an array for every thread, whose origin is the first point computed.
TmpSizes(grid, ext, threads) ==
  << <<DimC, Known(1)>>,
     <<DimK, AtRunTime(ExtExtend(ext, DimK, grid.k))>>,
     <<DimJ, Known(ExtExtend(ext, DimJ, JBlockSize))>>,
     <<DimI, Known(ExtExtend(ext, DimI, IBlockSize))>>,
     <<DimThread, AtRunTime(threads)>> >>
TmpBytes(grid, ext, size, threads) == TotalSize(TmpSizes(grid, ext, threads)) * size

TmpSid(grid, ext, size, threads, ptr) ==
  ShiftSidOrigin(Contiguous(PtrHolder(ptr, size), TmpSizes(grid, ext, threads), <<"tmp", ext>>),
                 [d \in {DimI, DimJ, DimK} |->
                    IF d = DimK THEN AtRunTime(-grid.kstart - ExtMinus(ext, d))
                    ELSE Known(-ExtMinus(ext, d))])

\* What a caller passes, in blocks.
ExternalSid(sid) == Block(sid, [d \in {DimI, DimJ} |-> Known(IF d = DimI THEN IBlockSize ELSE JBlockSize)])

-----------------------------------------------------------------------------
(* make_stage_loop.                                                           *)

\* What a cell does at a pointer: memory is read, a position is a number.
CellAt(c, strides, cell, ptr) ==
  LET at(m, offs) == Advanced(ptr[m], MultiShifted(0, [d \in DOMAIN strides |-> strides[d][m]], offs))
      known(offs) == [d \in DOMAIN offs |-> Known(offs[d])]
      reads == [r \in DOMAIN cell.from |-> at(cell.from[r][1], known(cell.from[r][2]))]
      cells == SelectSeq(reads, LAMBDA h : h.what = "memory")
      numbers == SelectSeq(reads, LAMBDA h : h.what = "position")
  IN  Do({ Store(ptr[cell.to].at, [r \in DOMAIN cells |-> cells[r].at],
                 SX!FoldLeft(LAMBDA b, h : b (+) SetToBag({h.at}), Neutral, numbers)) }, 0)

\* Mutant: the pointer is taken back by the levels of the first cell.
KLoopFirstBack(c, strides, stage) ==
  LET stride == CompositeStride(strides, c, DimK)
      level(w, cell) == StepOnce(Using(w, cell), stride, Known(stage.kstep))
      run(w, cell) == SX!FoldLeft(LAMBDA v, k : level(v, cell), w, [k \in 1..cell.size |-> k])
  IN  StepOnce(SX!FoldLeft(run, Standing(DOMAIN c), stage.cells), stride,
               AtRunTime(-stage.cells[1].size * stage.kstep))

\* The levels of every cell, and back to the first one.
KLoop(c, strides, stage) ==
  LET stride == CompositeStride(strides, c, DimK)
      level(w, cell) == StepOnce(Using(w, cell), stride, Known(stage.kstep))
      run(w, cell) == SX!FoldLeft(LAMBDA v, k : level(v, cell), w, [k \in 1..cell.size |-> k])
      levels == SX!FoldLeft(LAMBDA n, cell : n + cell.size, 0, stage.cells)
  IN  StepOnce(SX!FoldLeft(run, Standing(DOMAIN c), stage.cells), stride, AtRunTime(-levels * stage.kstep))

\* The composite of a stage, at its first point of the first block.
StageComposite(stage, data) == [m \in DOMAIN stage.members |-> data[stage.members[m]]]
StageOrigin(c, stage) ==
  LET s == CompositeSid(c)
      stride(d) == CompositeStride(s.strides, c, d)
      off == ShiftOffset(ShiftOffset(ShiftOffset(NoOffset(c),
               stride(DimI), Known(ExtMinus(stage.ext, DimI))),
               stride(DimJ), Known(ExtMinus(stage.ext, DimJ))),
               stride(DimK), AtRunTime(stage.kstart))
  IN  PlusOffset(c, s.origin, off)

\* The functor for a block.
StageLoop(stage, data, thread, block, sizes) ==
  LET c == StageComposite(stage, data)
      strides == CompositeSid(c).strides
      stride(d) == CompositeStride(strides, c, d)
      off == ShiftOffset(ShiftOffset(ShiftOffset(NoOffset(c),
               stride(DimThread), AtRunTime(thread)),
               stride(Blocked(DimI)), AtRunTime(block.i)),
               stride(Blocked(DimJ)), AtRunTime(block.j))
      loop(d) == MakeLoop(d, AtRunTime(ExtExtend(stage.ext, d, sizes[d])), Known(1))
      walk == RunLoop(loop(DimI), stride(DimI), RunLoop(loop(DimJ), stride(DimJ), KLoop(c, strides, stage)))
      ptrs == OnTheWay(walk, PlusOffset(c, StageOrigin(c, stage), off))
  IN  [x \in DOMAIN ptrs |-> CellAt(c, strides, walk.seen[x].use, ptrs[x])]

-----------------------------------------------------------------------------
(* The thread pool: parallel_for_loop(pool, f, NBJ, NBI), the first limit the *)
(* innermost, as a loop over n = bj + NBJ * bi.                               *)

NumBlocks(total, size) == (total + size - 1) \div size

SweepLaunches(sweep, data, threads) ==
  LET grid == sweep.grid
      nbi == NumBlocks(grid.i, IBlockSize)
      nbj == NumBlocks(grid.j, JBlockSize)
      each == (nbi * nbj + threads - 1) \div threads
      rest(n, last, total, size) == IF n + 1 = last THEN total - n * size ELSE size
      block(n) == [j |-> n % nbj, i |-> n \div nbj]
      sizes(b) == [d \in {DimI, DimJ} |-> IF d = DimI THEN rest(b.i, nbi, grid.i, IBlockSize)
                                          ELSE rest(b.j, nbj, grid.j, JBlockSize)]
      iteration(n) == SX!FlattenSeq([s \in DOMAIN sweep.stages |->
                        StageLoop(sweep.stages[s], data, n \div each, block(n), sizes(block(n)))])
  IN  << OmpLoop(nbi * nbj, threads, [n \in 0..nbi * nbj - 1 |-> iteration(n)]) >>
=============================================================================
