----------------------------- MODULE GpuKernels -----------------------------
(* gcl/high_level/m_packXL.hpp, ..., m_unpackZU_generic.hpp: the kernels     *)
(* that pack the borders of a field into the messages, and unpack messages   *)
(* into its halos.  There is one for each of the six faces, and each exists  *)
(* twice: for the dynamic exchange, where all fields have the same halos and *)
(* field_index says which part of a message is a field's, and (generic) for  *)
(* fields with halos of their own, whose parts begin at given prefix sums.   *)
(*                                                                           *)
(* A kernel for a face of axis c has threads for the edges and corners of    *)
(* that face along the axes below c, and none for those along the axes       *)
(* above c: the kernels of these axes have them.                             *)
(*                                                                           *)
(* Linear positions in a field are replaced by coordinates, and the loading  *)
(* of the table of messages into shared memory is left out.                  *)
EXTENDS ProcGrid, HaloDescriptor

CONSTANTS Wide, Narrow    \* the threads of a block: 32 and 8 in the code

ASSUME ThreadsAssumption == Wide \in Nat \ {0} /\ Narrow \in Nat \ {0}

Kernel(packs, generic, axis, side, threads) ==
    [packs |-> packs, generic |-> generic, axis |-> axis, side |-> side, threads |-> threads]

m_packXL == Kernel(TRUE, FALSE, 1, -1, <<1, Wide, Narrow>>)
m_packXU == Kernel(TRUE, FALSE, 1, 1, <<1, Wide, Narrow>>)
m_packYL == Kernel(TRUE, FALSE, 2, -1, <<Wide, 1, Narrow>>)
m_packYU == Kernel(TRUE, FALSE, 2, 1, <<Wide, 1, Narrow>>)
m_packZL == Kernel(TRUE, FALSE, 3, -1, <<Wide, Narrow, 1>>)
m_packZU == Kernel(TRUE, FALSE, 3, 1, <<Wide, Narrow, 1>>)

m_unpackXL == Kernel(FALSE, FALSE, 1, -1, <<1, Wide, Narrow>>)
m_unpackXU == Kernel(FALSE, FALSE, 1, 1, <<1, Wide, Narrow>>)
m_unpackYL == Kernel(FALSE, FALSE, 2, -1, <<Wide, 1, Narrow>>)
m_unpackYU == Kernel(FALSE, FALSE, 2, 1, <<Wide, 1, Narrow>>)
m_unpackZL == Kernel(FALSE, FALSE, 3, -1, <<Wide, Narrow, 1>>)
m_unpackZU == Kernel(FALSE, FALSE, 3, 1, <<Wide, Narrow, 1>>)

m_packXL_generic == Kernel(TRUE, TRUE, 1, -1, <<1, Wide, Narrow>>)
m_packXU_generic == Kernel(TRUE, TRUE, 1, 1, <<1, Wide, Narrow>>)
m_packYL_generic == Kernel(TRUE, TRUE, 2, -1, <<Wide, 1, Narrow>>)
m_packYU_generic == Kernel(TRUE, TRUE, 2, 1, <<Wide, 1, Narrow>>)
m_packZL_generic == Kernel(TRUE, TRUE, 3, -1, <<Wide, Narrow, 1>>)
m_packZU_generic == Kernel(TRUE, TRUE, 3, 1, <<Wide, Narrow, 1>>)

m_unpackXL_generic == Kernel(FALSE, TRUE, 1, -1, <<1, Wide, Narrow>>)
m_unpackXU_generic == Kernel(FALSE, TRUE, 1, 1, <<1, Wide, Narrow>>)
m_unpackYL_generic == Kernel(FALSE, TRUE, 2, -1, <<Wide, 1, Narrow>>)
m_unpackYU_generic == Kernel(FALSE, TRUE, 2, 1, <<Wide, 1, Narrow>>)
m_unpackZL_generic == Kernel(FALSE, TRUE, 3, -1, <<Wide, Narrow, 1>>)
m_unpackZU_generic == Kernel(FALSE, TRUE, 3, 1, <<Wide, Narrow, 1>>)

-----------------------------------------------------------------------------
(* The launch.                                                               *)
LengthOn(k, h, i) == IF k.packs THEN SLength(h, i) ELSE RLength(h, i)

\* nx, ny, nz: the threads needed along axis a.
Extent(k, a, h) == IF a < k.axis THEN LengthOn(k, h, -1) + LengthOn(k, h, 0) + LengthOn(k, h, 1)
                   ELSE IF a = k.axis THEN LengthOn(k, h, k.side)
                   ELSE LengthOn(k, h, 0)

CeilDiv(n, m) == (n + m - 1) \div m

\* blockIdx; without any, nothing is launched.
Blocks(k, hs) == LET Along(a) == 0 .. (CeilDiv(Extent(k, a, hs[a]), k.threads[a]) - 1)
                 IN  Along(1) \X Along(2) \X Along(3)

\* The global indices (idx, idy, idz) of the threads of a block that take part:
\* along its own axis a kernel has as many blocks as it needs.
Threads(k, hs, block) ==
    LET Along(a) == { block[a] * k.threads[a] + t : t \in 0..(k.threads[a] - 1) }
        Taking(a) == { i \in Along(a) : a = k.axis \/ i < Extent(k, a, hs[a]) }
    IN  Taking(1) \X Taking(2) \X Taking(3)

-----------------------------------------------------------------------------
(* What one thread does, axis by axis.  A kernel finds the edges and corners *)
(* along an axis below its own by the index alone: the first `Low` threads   *)
(* are in the low part, those after the inner ones in the high part.         *)
Low(k, h)  == IF k.packs THEN h.plus ELSE h.minus
High(k, h) == IF k.packs THEN h.minus ELSE h.plus

\* Mutant: an off-by-one at the end of the inner part.
PartOfUpToEnd(k, h, i) == IF i < Low(k, h) THEN -1
                          ELSE IF i > Low(k, h) + h.end - h.begin + 1 THEN 1 ELSE 0

\* ba, bb: the part of the border that index i belongs to.
PartOf(k, h, i) == IF i < Low(k, h) THEN -1
                   ELSE IF i > Low(k, h) + h.end - h.begin THEN 1 ELSE 0

\* la, lb: the length of a part.
PartLength(k, h, part) == IF part = 0 THEN Length(h) ELSE IF part = -1 THEN Low(k, h) ELSE High(k, h)

\* ba, bb, bc: the direction of the message.
Part(k, a, h, i) == IF a < k.axis THEN PartOf(k, h, i) ELSE IF a = k.axis THEN k.side ELSE 0

\* oa, ob, oc: the position within the part.
InPart(k, a, h, i) ==
    IF a < k.axis
    THEN i - (IF PartOf(k, h, i) = -1 THEN 0 ELSE Low(k, h)) - (IF PartOf(k, h, i) = 1 THEN Length(h) ELSE 0)
    ELSE i

\* ia, ib, ic of a packing kernel: where the element is in the field.
Source(k, a, h, i) ==
    IF a < k.axis
    THEN i + h.begin - (IF PartOf(k, h, i) = -1 THEN 0 ELSE h.plus) - (IF PartOf(k, h, i) = 1 THEN h.minus ELSE 0)
    ELSE IF a = k.axis /\ k.side = 1 THEN i + h.end - h.minus + 1
    ELSE i + h.begin

\* Its counterpart for unpacking, with the axis' share of translation_const.
Target(k, a, h, i) ==
    IF a = k.axis /\ k.side = 1 THEN i + h.end + 1
    ELSE IF a <= k.axis THEN i + h.begin - h.minus
    ELSE i + h.begin

\* The element of the field, the direction of the message, and the position in
\* the field's part of that message, that belong to thread t.
Access(k, hs, t) ==
    LET d == [a \in Axes |-> Part(k, a, hs[a], t[a])]
        o == [a \in Axes |-> InPart(k, a, hs[a], t[a])]
        l == [a \in Axes |-> PartLength(k, hs[a], d[a])]
    IN  [at   |-> [a \in Axes |-> IF k.packs THEN Source(k, a, hs[a], t[a]) ELSE Target(k, a, hs[a], t[a])],
         dir  |-> d,
         slot |-> o[1] + o[2] * l[1] + o[3] * l[1] * l[2]]
=============================================================================
