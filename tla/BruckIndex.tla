------------------------------ MODULE BruckIndex ------------------------------
(***************************************************************************)
(* The index arithmetic of GPUIBContext::alltoall_brucks                   *)
(* (src/src/gpu_ib/context_ib_tmpl_device.hpp, lines 516-612) on the       *)
(* buffers of one PE of a team of P PEs each sending ne elements to every  *)
(* PE: phase 1 (rotate), the pack / send / unpack of round shift, and      *)
(* phase 3 (inverse rotation).  Bit operations are written arithmetically: *)
(* x >> s is x \div 2^s, x & (2^s - 1) is x % 2^s, for x >= 0.             *)
(***************************************************************************)
EXTENDS Integers

\* The element PE q's src holds at index k, and what a buffer holds before
\* anything was written to it.
Elem(q, k) == [from |-> q, at |-> k]
Garbage == [from |-> -1, at |-> -1]

Idx(P, ne) == 0 .. (P * ne - 1)

\* ((int64_t)1 << shift) < pe_size: the rounds run for shift = 0 .. R-1.
NRounds(P) == CHOOSE r \in 0..P : 2^r >= P /\ (r = 0 \/ 2^(r - 1) < P)

\* (pos >> shift) & 1
BitSet(pos, s) == (pos \div 2^s) % 2 = 1

\* Mutant: the high bits are shifted back by shift + 1, not by shift.
PackedPosWideShift(pos, s) == (pos \div 2^(s + 1)) * 2^(s + 1) + (pos % 2^s)

\* ((pos >> (shift + 1)) << shift) + (pos & (shift_decimal - 1))
PackedPos(pos, s) == (pos \div 2^(s + 1)) * 2^s + (pos % 2^s)

\* The slot of pAta2 (and of the receiver's dst) element i travels through.
PackIndex(i, s, ne) == PackedPos(i \div ne, s) * ne + (i % ne)

\* data_size = nelems * (pe_size / region_size * shift_decimal);
\* if (pe_size % region_size > shift_decimal)
\*   data_size += pe_size % region_size - shift_decimal;
DataSize(P, s, ne) ==
  LET sd == 2^s  region == 2 * sd IN
  ne * ((P \div region) * sd)
    + (IF P % region > sd THEN (P % region) - sd ELSE 0)

(* Phase 1: pAta1[i] = src[(i + my_pe_in_team * nelems) % (pe_size * nelems)] *)
Rotate(P, ne, me, src) ==
  [i \in Idx(P, ne) |-> src[(i + me * ne) % (P * ne)]]

(* Step 1: pAta2[index * nelems + offset] = pAta1[i] for every i whose     *)
(* block has bit shift set; the other slots of pAta2 keep what they held.  *)
Pack(P, ne, s, a1, a2) ==
  [k \in Idx(P, ne) |->
     LET from == {i \in Idx(P, ne) : BitSet(i \div ne, s) /\ PackIndex(i, s, ne) = k}
     IN IF from = {} THEN a2[k] ELSE a1[CHOOSE i \in from : TRUE]]

(* Step 2, at the target: put_wg(dst, pAta2, data_size, dest_pe).          *)
Receive(P, ne, s, a2, d) ==
  [k \in Idx(P, ne) |-> IF k < DataSize(P, s, ne) THEN a2[k] ELSE d[k]]

(* Step 3: pAta1[i] = dst[index * nelems + offset] for the same i.         *)
Unpack(P, ne, s, a1, d) ==
  [i \in Idx(P, ne) |-> IF BitSet(i \div ne, s) THEN d[PackIndex(i, s, ne)] ELSE a1[i]]

(* Phase 3: dst[((pe_size + my - i / nelems) % pe_size) * nelems + offset] *)
(*            = pAta1[i]                                                   *)
InvRotate(P, ne, me, a1, d) ==
  [k \in Idx(P, ne) |->
     LET from == {i \in Idx(P, ne) :
                    ((P + me - (i \div ne)) % P) * ne + (i % ne) = k}
     IN IF from = {} THEN d[k] ELSE a1[CHOOSE i \in from : TRUE]]

\* The team member a PE sends to in round s, and the one it receives from.
SendTo(P, me, s) == (me + 2^s) % P
RecvFrom(P, me, s) == (me + P - (2^s % P)) % P

\* src of PE q, and the dst the all-to-all must leave at PE p: block j of
\* p's dst is block p of PE j's src.
Src(ne, q, P) == [k \in Idx(P, ne) |-> Elem(q, k)]
Transposed(P, ne, p) ==
  [k \in Idx(P, ne) |-> Elem(k \div ne, p * ne + (k % ne))]

=============================================================================
