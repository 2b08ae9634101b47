------------------------------- MODULE Frame --------------------------------
(***************************************************************************)
(* The stack frame as slot_to_offset (generation/helper/helper.c) lays it  *)
(* out: the cell of slot s ends at [rbp - SlotOffset(p, s)], the summed    *)
(* sizes of the top-level statements 0 to s of the program.  Only the      *)
(* top-level statements count, whatever statement the slot belongs to.     *)
(***************************************************************************)
EXTENDS Ast, SequencesExt

(* Number of bodies open before statement i.                               *)
Depth(p, i) == Cardinality({j \in 1..(i - 1) : Opens(p[j])})
             - Cardinality({j \in 1..(i - 1) : Closes(p[j])})

(* Every END has a statement to close, and every body is closed.           *)
Balanced(p) ==
  /\ \A i \in DOMAIN p : Closes(p[i]) => Depth(p, i) > 0
  /\ Depth(p, Len(p) + 1) = 0

(* m_prog->stmt: the top-level statements, and the index in the listing of *)
(* the k-th one.                                                           *)
TopLevel(p) == {i \in DOMAIN p : Depth(p, i) = 0 /\ ~Closes(p[i])}
TopStmt(p, k) ==
  LET tops == TopLevel(p)
  IN  CHOOSE i \in tops : Cardinality({j \in tops : j <= i}) = k

(* slot_to_offset reads m_prog->stmt[0..slot], past its end for a slot     *)
(* that is not smaller than the number of top-level statements.            *)
OutOfRange(p, slot) == slot >= Cardinality(TopLevel(p))

(* What one top-level statement adds.                                      *)
StmtBytes(s) ==
  IF s.kind \in DeclKinds THEN SizeOf[TypeOfDecl[s.kind]]
  ELSE FoldLeft(LAMBDA n, q : n + SizeOf[q.type], 0, s.params)

(* The sum that slot_to_offset runs up over the first n statements.        *)
Bytes(p, n) ==
  LET sum[k \in 0..n] == IF k = 0 THEN 0 ELSE sum[k - 1] + StmtBytes(p[TopStmt(p, k)])
  IN  sum[n]

(* Mutant: the loop stops before slot_index.                               *)
SlotOffsetBefore(p, slot) == Bytes(p, slot)

(* slot_to_offset, for a slot in range.                                    *)
SlotOffset(p, slot) == Bytes(p, slot + 1)

(* The bytes below rbp that an access of w bytes at slot touches.          *)
Cell(p, slot, w) == (SlotOffset(p, slot) - w + 1)..SlotOffset(p, slot)
=============================================================================
