-------------------------- MODULE GeneratorProofs ---------------------------
(***************************************************************************)
(* Theorems about the code generator, for every set of programs: its types *)
(* and structure, what a compiled program looks up and calls; then how the *)
(* walk over the listing follows its bodies - the C stack holds the        *)
(* statements whose bodies are open, a program that compiles declares      *)
(* nothing that no pass has entered, the jumps of its text have their      *)
(* labels - and what the flat table does for the scopes of a program: the  *)
(* locals of a closed body are gone, a variable keeps its slot although    *)
(* the entries of closed bodies are shifted out, and the cells of the      *)
(* declarations in front have no byte in common.                           *)
(***************************************************************************)
EXTENDS GeneratorProps, SequenceTheorems, Recursion

-----------------------------------------------------------------------------
(* Sequences: what the helpers of the model return.                        *)

LEMMA FrontLast ==
  ASSUME NEW S, NEW s \in Seq(S), s # <<>>
  PROVE  /\ Front(s) \in Seq(S)
         /\ Len(Front(s)) = Len(s) - 1
         /\ \A i \in 1..(Len(s) - 1) : Front(s)[i] = s[i]
         /\ Last(s) \in S
<1>1. Len(s) \in Nat \ {0}
  BY EmptySeq
<1> DEFINE n == Len(s) - 1
<1>2. n \in Nat /\ \A i \in 1..n : s[i] \in S
  BY <1>1
<1> HIDE DEF n
<1>3. /\ SubSeq(s, 1, n) \in Seq(S)
      /\ Len(SubSeq(s, 1, n)) = IF 1 <= n THEN n - 1 + 1 ELSE 0
      /\ \A i \in 1..(n - 1 + 1) : SubSeq(s, 1, n)[i] = s[1 + i - 1]
  BY <1>2, SubSeqProperties
<1>4. Len(SubSeq(s, 1, n)) = n /\ \A i \in 1..n : SubSeq(s, 1, n)[i] = s[i]
  BY <1>2, <1>3
<1>5. Last(s) \in S
  BY <1>1 DEF Last
<1>6. Front(s) = SubSeq(s, 1, n)
  BY DEF Front, n
<1> QED BY <1>3, <1>4, <1>5, <1>6 DEF n

LEMMA RemoveAtProps ==
  ASSUME NEW S, NEW s \in Seq(S), NEW i \in 1..Len(s)
  PROVE  /\ RemoveAt(s, i) \in Seq(S)
         /\ Len(RemoveAt(s, i)) = Len(s) - 1
         /\ \A k \in 1..(Len(s) - 1) :
              RemoveAt(s, i)[k] = IF k < i THEN s[k] ELSE s[k + 1]
<1> DEFINE l == SubSeq(s, 1, i - 1)
           r == SubSeq(s, i + 1, Len(s))
<1>1. l \in Seq(S) /\ Len(l) = i - 1 /\ \A k \in 1..(i - 1) : l[k] = s[k]
  OBVIOUS
<1>2. r \in Seq(S) /\ Len(r) = Len(s) - i /\ \A k \in 1..(Len(s) - i) : r[k] = s[i + k]
  OBVIOUS
<1>3. RemoveAt(s, i) = l \o r
  BY DEF RemoveAt
<1> HIDE DEF l, r
<1>4. l \o r \in Seq(S) /\ Len(l \o r) = Len(s) - 1
  <2>1. Len(l \o r) = Len(l) + Len(r) /\ l \o r \in Seq(S)
    BY <1>1, <1>2, ConcatProperties
  <2> QED BY <2>1, <1>1, <1>2
<1>5. ASSUME NEW k \in 1..(Len(s) - 1)
      PROVE  (l \o r)[k] = IF k < i THEN s[k] ELSE s[k + 1]
  <2>1. CASE k < i
    BY <2>1, <1>1, <1>2
  <2>2. CASE k >= i
    <3>1. (l \o r)[k] = r[k - (i - 1)]
      BY <2>2, <1>1, <1>2
    <3>2. k - (i - 1) \in 1..(Len(s) - i) /\ i + (k - (i - 1)) = k + 1
      BY <2>2
    <3>3. r[k - (i - 1)] = s[i + (k - (i - 1))]
      BY <1>2, <3>2
    <3>4. r[k - (i - 1)] = s[k + 1]
      BY <3>2, <3>3
    <3>5. ~(k < i)
      BY <2>2
    <3>6. (l \o r)[k] = s[k + 1]
      BY <3>1, <3>4
    <3> QED BY <3>5, <3>6
  <2>3. k < i \/ k >= i
    OBVIOUS
  <2> QED BY <2>1, <2>2, <2>3
<1> QED BY <1>3, <1>4, <1>5

-----------------------------------------------------------------------------
(* The symbol table.                                                       *)

LEMMA EntryOfProps ==
  ASSUME NEW vs \in Seq(Var), Distinct(vs), NEW x \in VarNames(vs)
  PROVE  /\ EntryOf(vs, x) \in 1..Len(vs)
         /\ vs[EntryOf(vs, x)].name = x
         /\ SlotOf(vs, x) \in Nat
         /\ VarType(vs, x) \in Types
<1>1. PICK i \in DOMAIN vs : vs[i].name = x
  BY DEF VarNames
<1>2. \A j \in 1..(i - 1) : vs[j].name # x
  BY <1>1 DEF Distinct
<1>3. EntryOf(vs, x) \in DOMAIN vs /\ vs[EntryOf(vs, x)].name = x
  BY <1>1, <1>2 DEF EntryOf
<1> DEFINE e == EntryOf(vs, x)
<1> HIDE DEF e
<1>4. e \in 1..Len(vs) /\ vs[e].name = x
  BY <1>3 DEF e
<1>5. vs[e] \in Var
  BY <1>4
<1>6. vs[e].type \in Types
  BY <1>5 DEF Var
<1>7. SlotOf(vs, x) = e - 1 /\ VarType(vs, x) = vs[e].type
  BY DEF SlotOf, VarType, e
<1> QED BY <1>4, <1>6, <1>7 DEF e

LEMMA EnsureVarSlotProps ==
  ASSUME NEW vs \in Seq(Var), Distinct(vs), NEW x \in Names, NEW t \in Types
  PROVE  /\ EnsureVarSlot(vs, x, t) \in Seq(Var)
         /\ Distinct(EnsureVarSlot(vs, x, t))
         /\ x \in VarNames(EnsureVarSlot(vs, x, t))
<1>1. CASE x \in VarNames(vs)
  BY <1>1 DEF EnsureVarSlot
<1>2. CASE x \notin VarNames(vs)
  <2> DEFINE v == [name |-> x, type |-> t]
             ws == Append(vs, v)
  <2>1. v \in Var /\ v.name = x
    BY DEF Var
  <2> HIDE DEF v
  <2>2. /\ ws \in Seq(Var) /\ Len(ws) = Len(vs) + 1 /\ ws[Len(ws)] = v
        /\ \A i \in 1..Len(vs) : ws[i] = vs[i]
    BY <2>1
  <2>3. EnsureVarSlot(vs, x, t) = ws
    BY <1>2 DEF EnsureVarSlot, v
  <2>4. \A i \in 1..Len(vs) : vs[i].name # x
    BY <1>2 DEF VarNames
  <2> HIDE DEF ws
  <2>5. Distinct(ws)
    BY <2>1, <2>2, <2>4 DEF Distinct
  <2>6. x \in VarNames(ws)
    BY <2>1, <2>2 DEF VarNames
  <2> QED BY <2>2, <2>3, <2>5, <2>6
<1> QED BY <1>1, <1>2

LEMMA EnsureDeclProps ==
  ASSUME NEW vs \in Seq(Var), Distinct(vs), NEW s, s.name \in Names
  PROVE  EnsureDecl(vs, s) \in Seq(Var) /\ Distinct(EnsureDecl(vs, s))
<1>1. CASE s.kind \in DeclKinds
  <2>1. TypeOfDecl[s.kind] \in Types
    BY <1>1 DEF DeclKinds, TypeOfDecl, Types
  <2> QED BY <1>1, <2>1, EnsureVarSlotProps DEF EnsureDecl
<1>2. CASE s.kind \notin DeclKinds
  BY <1>2 DEF EnsureDecl
<1> QED BY <1>1, <1>2

LEMMA ShiftOutProps ==
  ASSUME NEW vs \in Seq(Var), Distinct(vs), NEW i \in 1..Len(vs)
  PROVE  ShiftOut(vs, i) \in Seq(Var) /\ Distinct(ShiftOut(vs, i))
<1> DEFINE ws == ShiftOut(vs, i)
<1>1. /\ ws \in Seq(Var) /\ Len(ws) = Len(vs) - 1
      /\ \A k \in 1..(Len(vs) - 1) : ws[k] = IF k < i THEN vs[k] ELSE vs[k + 1]
  BY RemoveAtProps DEF ShiftOut
<1> HIDE DEF ws
<1>2. ASSUME NEW j \in DOMAIN ws, NEW k \in DOMAIN ws, ws[j].name = ws[k].name
      PROVE  j = k
  <2> DEFINE up(n) == IF n < i THEN n ELSE n + 1
  <2>1. j \in 1..(Len(vs) - 1) /\ k \in 1..(Len(vs) - 1)
    BY <1>1
  <2>2. up(j) \in DOMAIN vs /\ up(k) \in DOMAIN vs
    BY <2>1
  <2>3. ws[j] = vs[up(j)] /\ ws[k] = vs[up(k)]
    BY <1>1, <2>1
  <2>4. up(j) = up(k)
    BY <1>2, <2>2, <2>3 DEF Distinct
  <2> QED BY <2>1, <2>4
<1> QED BY <1>1, <1>2 DEF Distinct, ws

-----------------------------------------------------------------------------
(* What is emitted is a sequence of instructions.                          *)

LEMMA InstrTypes ==
  /\ \A t \in Tags, n \in Nat : Label(t, n) \in Instr /\ Jump(t, n) \in Instr
  /\ \A x \in Names : [op |-> "func", name |-> x] \in Instr
  /\ \A n \in Nat : [op |-> "reserve", bytes |-> n] \in Instr
  BY DEF Label, Jump, Instr

LEMMA AccessType ==
  ASSUME NEW vs \in Seq(Var), Distinct(vs), NEW x \in VarNames(vs), x \in Names,
         NEW w \in {1, 2, 4, 8}, NEW op \in {"load", "store"}
  PROVE  Access(op, vs, x, w) \in Instr
<1>1. SlotOf(vs, x) \in Nat
  BY EntryOfProps
<1> QED BY <1>1 DEF Access, Instr

LEMMA SizeTypes ==
  /\ \A t \in Types : SizeOf[t] \in {1, 2, 4, 8}
  /\ \A k \in DeclKinds : TypeOfDecl[k] \in Types
  BY DEF Types, SizeOf, DeclKinds, TypeOfDecl

LEMMA CallCodeType ==
  ASSUME NEW x \in Names, NEW args \in Seq(ArgTypes)
  PROVE  CallCode(x, args) \in Seq(Instr)
<1>1. Len(args) \in Nat
  OBVIOUS
<1>2. [op |-> "call", name |-> x, argc |-> Len(args)] \in Instr
  BY <1>1 DEF Instr
<1> QED BY <1>2 DEF CallCode

LEMMA ExprCodeType ==
  ASSUME NEW vs \in Seq(Var), Distinct(vs), NEW e \in Expr, NEW k, ~ExprFails(vs, e)
  PROVE  ExprCode(vs, e, k) \in Seq(Instr)
<1>0. e.uses \in Seq(Names) /\ e.fn \in Names /\ e.args \in Seq(ArgTypes)
  BY DEF Expr
<1>1. CASE e.kind = "FUNC"
  BY <1>0, <1>1, CallCodeType DEF ExprCode
<1>2. CASE e.kind # "FUNC" /\ k \in DeclKinds
  <2> DEFINE u == e.uses
             w == SizeOf[TypeOfDecl[k]]
  <2>1. w \in {1, 2, 4, 8}
    BY <1>2, SizeTypes
  <2>2. u \in Seq(Names) /\ \A i \in 1..Len(u) : u[i] \in Names /\ u[i] \in VarNames(vs)
    BY <1>0 DEF ExprFails
  <2>3. ExprCode(vs, e, k) = [i \in 1..Len(u) |-> Access("load", vs, u[i], w)]
    BY <1>0, <1>2 DEF ExprCode
  <2> HIDE DEF u, w
  <2>4. \A i \in 1..Len(u) : Access("load", vs, u[i], w) \in Instr
    BY <2>1, <2>2, AccessType
  <2>5. Len(u) \in Nat
    BY <2>2
  <2> HIDE DEF Access
  <2>6. [i \in 1..Len(u) |-> Access("load", vs, u[i], w)] \in Seq(Instr)
    BY <2>4, <2>5
  <2> QED BY <2>3, <2>6
<1>3. CASE e.kind # "FUNC" /\ k \notin DeclKinds
  BY <1>3 DEF ExprCode
<1> QED BY <1>1, <1>2, <1>3

LEMMA LeafCodeType ==
  ASSUME NEW vs \in Seq(Var), Distinct(vs), NEW s, s.kind \in LeafKinds,
         s.name \in Names, s.expr \in Expr, ~LeafFails(vs, s)
  PROVE  LeafCode(vs, s) \in Seq(Instr)
<1>1. CASE s.kind = "FUNC_USE"
  <2>1. s.expr.args \in Seq(ArgTypes)
    BY DEF Expr
  <2> QED BY <1>1, <2>1, CallCodeType DEF LeafCode
<1>2. CASE s.kind # "FUNC_USE"
  <2>1. ExprCode(vs, s.expr, s.kind) \in Seq(Instr)
    BY <1>2, ExprCodeType DEF LeafFails
  <2>2. CASE s.kind \in DeclKinds
    <3>1. s.name \in VarNames(vs)
      BY <2>2 DEF LeafFails
    <3>2. Access("store", vs, s.name, SizeOf[TypeOfDecl[s.kind]]) \in Instr
      BY <2>2, <3>1, AccessType, SizeTypes
    <3>3. LeafCode(vs, s) = ExprCode(vs, s.expr, s.kind)
                            \o <<Access("store", vs, s.name, SizeOf[TypeOfDecl[s.kind]])>>
      BY <1>2, <2>2 DEF LeafCode, DeclKinds
    <3> QED BY <2>1, <3>2, <3>3
  <2>3. CASE s.kind = "VCHANGE"
    <3>1. s.name \in VarNames(vs)
      BY <2>3 DEF LeafFails
    <3>2. SizeOf[VarType(vs, s.name)] \in {1, 2, 4, 8}
      BY <3>1, EntryOfProps, SizeTypes
    <3>3. Access("store", vs, s.name, SizeOf[VarType(vs, s.name)]) \in Instr
      BY <3>1, <3>2, AccessType
    <3>4. LeafCode(vs, s) = ExprCode(vs, s.expr, s.kind)
                            \o <<Access("store", vs, s.name, SizeOf[VarType(vs, s.name)])>>
      BY <2>3 DEF LeafCode, DeclKinds
    <3> QED BY <2>1, <3>3, <3>4
  <2>4. CASE s.kind \notin DeclKinds \cup {"VCHANGE"}
    <3>1. LeafCode(vs, s) = ExprCode(vs, s.expr, s.kind) \o <<>>
      BY <1>2, <2>4 DEF LeafCode, DeclKinds
    <3> QED BY <2>1, <3>1
  <2> QED BY <2>2, <2>3, <2>4
<1> QED BY <1>1, <1>2

LEMMA DeclareLocalType ==
  ASSUME NEW rows \in Seq(Seq(Names)), NEW s, s.name \in Names
  PROVE  /\ DeclareLocal(rows, s) \in Seq(Seq(Names))
         /\ Len(DeclareLocal(rows, s)) = Len(rows)
<1>1. CASE s.kind \in DeclKinds /\ rows # <<>>
  <2> DEFINE n == Len(rows)
  <2>1. n \in 1..Len(rows)
    BY <1>1, EmptySeq
  <2>2. rows[n] \in Seq(Names)
    BY <2>1
  <2>3. Append(rows[n], s.name) \in Seq(Names)
    BY <2>2
  <2>4. DeclareLocal(rows, s) = [rows EXCEPT ![n] = Append(rows[n], s.name)]
    BY <1>1 DEF DeclareLocal
  <2> HIDE DEF n
  <2> QED BY <2>1, <2>3, <2>4, ExceptSeq
<1>2. CASE ~(s.kind \in DeclKinds /\ rows # <<>>)
  BY <1>2 DEF DeclareLocal
<1> QED BY <1>1, <1>2

LEMMA BindDeclType ==
  ASSUME NEW bs \in SUBSET Bound, NEW vs \in Seq(Var), Distinct(vs), NEW s,
         s.name \in Names, s.kind \in DeclKinds => s.name \in VarNames(vs), NEW d \in Nat
  PROVE  BindDecl(bs, vs, s, d) \in SUBSET Bound
<1>1. CASE s.kind \in DeclKinds
  <2>1. SlotOf(vs, s.name) \in Nat
    BY <1>1, EntryOfProps
  <2>2. [name |-> s.name, slot |-> SlotOf(vs, s.name), depth |-> d] \in Bound
    BY <2>1 DEF Bound
  <2> QED BY <1>1, <2>2 DEF BindDecl
<1>2. CASE s.kind \notin DeclKinds
  BY <1>2 DEF BindDecl
<1> QED BY <1>1, <1>2

-----------------------------------------------------------------------------
(* The inductive invariant.                                                *)

IInv == TypeOK /\ NoDupVars /\ RowsFollowBodies

LEMMA StmtFields ==
  ASSUME TypeOK, More
  PROVE  /\ Cur \in Stmt
         /\ Cur.name \in Names /\ Cur.expr \in Expr
         /\ Cur.params \in Seq(Param)
         /\ Cur.init \in Leaf /\ Cur.step \in Leaf
<1>1. prog \in Seq(Stmt)
  BY ProgramsAssumption DEF TypeOK
<1>2. pc \in 1..Len(prog)
  BY <1>1 DEF TypeOK, More
<1>3. Cur \in Stmt
  BY <1>1, <1>2 DEF Cur
<1> QED BY <1>3 DEF Stmt

LEMMA LeafFields ==
  ASSUME NEW l \in Leaf
  PROVE  l.kind \in LeafKinds /\ l.name \in Names /\ l.expr \in Expr
  BY DEF Leaf

LEMMA PcType ==
  ASSUME TypeOK, More
  PROVE  /\ Len(prog) \in Nat /\ pc \in 1..Len(prog)
         /\ pc + 1 \in 1..(Len(prog) + 1)
<1>1. prog \in Seq(Stmt)
  BY ProgramsAssumption DEF TypeOK
<1> QED BY <1>1 DEF TypeOK, More

LEMMA TopFrame ==
  ASSUME TypeOK, open # <<>>
  PROVE  /\ Len(open) \in Nat \ {0}
         /\ Front(open) \in Seq(Frm) /\ Len(Front(open)) = Len(open) - 1
         /\ Top.stmt \in Stmt /\ Top.stmt.step \in Leaf /\ Top.id \in Nat
<1>1. open \in Seq(Frm)
  BY DEF TypeOK
<1>2. Top \in Frm /\ Front(open) \in Seq(Frm) /\ Len(Front(open)) = Len(open) - 1
  BY <1>1, FrontLast DEF Top
<1>3. Len(open) \in Nat \ {0}
  BY <1>1, EmptySeq
<1>4. Top.stmt \in Stmt /\ Top.id \in Nat
  BY <1>2 DEF Frm
<1>5. Top.stmt.step \in Leaf
  BY <1>4 DEF Stmt
<1> QED BY <1>2, <1>3, <1>4, <1>5

(* A statement pushes a frame; the rest of the C stack is as before.       *)
LEMMA PushedFrame ==
  ASSUME TypeOK, More, NEW id \in Nat, PushFrame(id)
  PROVE  open' \in Seq(Frm) /\ Len(open') = Len(open) + 1 /\ open' # <<>>
<1>1. Cur \in Stmt
  BY StmtFields
<1>2. [stmt |-> Cur, id |-> id] \in Frm
  BY <1>1 DEF Frm
<1>3. open \in Seq(Frm)
  BY DEF TypeOK
<1> HIDE DEF Frm
<1>4. open' \in Seq(Frm) /\ Len(open') = Len(open) + 1
  BY <1>2, <1>3 DEF PushFrame
<1> QED BY <1>3, <1>4

(* The history variable after a statement that opens a body.               *)
LEMMA NestedAfter ==
  ASSUME TypeOK, nested' = (nested \/ open # <<>>)
  PROVE  /\ nested' \in BOOLEAN
         /\ nested \/ Len(open) > 0 => nested'
         /\ ~nested /\ Len(open) = 0 => ~nested'
<1>1. open \in Seq(Frm)
  BY DEF TypeOK
<1>2. Len(open) > 0 => open # <<>>
  OBVIOUS
<1>3. Len(open) = 0 => open = <<>>
  BY <1>1, EmptySeq
<1>4. nested' \in BOOLEAN
  OBVIOUS
<1>5. ~nested /\ Len(open) = 0 => ~nested'
  BY <1>3
<1>6. nested \/ Len(open) > 0 => nested'
  BY <1>2
<1> QED BY <1>4, <1>5, <1>6

LEMMA InitInv == Init => IInv
<1> SUFFICES ASSUME Init PROVE IInv
  OBVIOUS
<1>1. prog \in Seq(Stmt)
  BY ProgramsAssumption DEF Init
<1>2. TypeOK
  <2>1. pc \in 1..(Len(prog) + 1)
    BY <1>1 DEF Init
  <2>2. /\ open \in Seq(Frm) /\ m_vars \in Seq(Var) /\ m_block \in Seq(Seq(Names))
        /\ m_func \in Seq(Entry) /\ out \in Seq(Instr)
    BY DEF Init
  <2> QED BY <2>1, <2>2 DEF Init, TypeOK, Phases
<1>3. NoDupVars
  BY DEF Init, NoDupVars, Distinct
<1>4. RowsFollowBodies
  BY DEF Init, RowsFollowBodies
<1> QED BY <1>2, <1>3, <1>4 DEF IInv

(* The two passes: only m_vars, the position and the C stack change.       *)
LEMMA WalkInv ==
  ASSUME IInv, More, phase \in {"collect", "assign"}, Walk,
         m_vars' \in Seq(Var), Distinct(m_vars')
  PROVE  IInv'
<1> USE DEF IInv
<1>1. /\ pc' \in 1..(Len(prog) + 1)
      /\ UNCHANGED <<prog, phase, iter, m_block, m_func, label, out, nested, bound>>
  BY PcType DEF Walk
<1>2. open' \in Seq(Frm)
  <2>1. CASE Opens(Cur)
    BY <2>1, PushedFrame DEF Walk
  <2>2. CASE ~Opens(Cur) /\ Closes(Cur)
    BY <2>2, TopFrame DEF Walk, PopFrame
  <2>3. CASE ~Opens(Cur) /\ ~Closes(Cur)
    BY <2>3 DEF Walk, TypeOK
  <2> QED BY <2>1, <2>2, <2>3
<1>3. TypeOK'
  BY <1>1, <1>2 DEF TypeOK
<1>4. NoDupVars'
  BY DEF NoDupVars
<1>5. RowsFollowBodies'
  BY <1>1 DEF RowsFollowBodies
<1> QED BY <1>3, <1>4, <1>5

LEMMA PassesInv ==
  ASSUME IInv, CollectVars \/ AssignSlots \/ NextPass
  PROVE  IInv'
<1> USE DEF IInv
<1>0. m_vars \in Seq(Var) /\ Distinct(m_vars)
  BY DEF TypeOK, NoDupVars
<1>1. CASE CollectVars
  <2>1. Cur.name \in Names /\ Cur.init.name \in Names
    BY <1>1, StmtFields, LeafFields DEF CollectVars
  <2>2. m_vars' \in Seq(Var) /\ Distinct(m_vars')
    BY <1>0, <1>1, <2>1, EnsureDeclProps DEF CollectVars
  <2> QED BY <1>1, <2>2, WalkInv DEF CollectVars
<1>2. CASE AssignSlots
  <2>1. Cur.name \in Names /\ Cur.init.name \in Names /\ Cur.step.name \in Names
    BY <1>2, StmtFields, LeafFields DEF AssignSlots
  <2>2. m_vars' \in Seq(Var) /\ Distinct(m_vars')
    BY <1>0, <1>2, <2>1, EnsureDeclProps DEF AssignSlots
  <2> QED BY <1>2, <2>2, WalkInv DEF AssignSlots
<1>3. CASE NextPass
  <2>1. /\ pc' = 1 /\ open = <<>>
        /\ UNCHANGED <<prog, open, iter, m_vars, m_block, m_func, label, nested, bound>>
        /\ phase \in {"collect", "assign"} /\ phase' \in {"assign", "gen"}
    BY <1>3 DEF NextPass, tables
  <2>2. Len(prog) \in Nat
    BY ProgramsAssumption DEF TypeOK
  <2>3. out' \in Seq(Instr)
    <3>1. Label("_start", 0) \in Instr
      BY InstrTypes DEF Tags
    <3>2. ReservedBytes \in Nat
      BY DEF ReservedBytes
    <3>3. [op |-> "reserve", bytes |-> ReservedBytes] \in Instr
      BY <3>2, InstrTypes
    <3>4. <<Label("_start", 0), [op |-> "reserve", bytes |-> ReservedBytes]>> \in Seq(Instr)
      BY <3>1, <3>3
    <3>5. out \in Seq(Instr)
      BY DEF TypeOK
    <3> QED BY <1>3, <3>4, <3>5 DEF NextPass
  <2>4. TypeOK'
    BY <2>1, <2>2, <2>3 DEF TypeOK, Phases
  <2>5. NoDupVars'
    BY <2>1 DEF NoDupVars, Distinct
  <2>6. RowsFollowBodies'
    BY <2>1 DEF RowsFollowBodies, Rows
  <2> QED BY <2>4, <2>5, <2>6
<1> QED BY <1>1, <1>2, <1>3

-----------------------------------------------------------------------------
(* gen_stmt on the statements that open nothing.                           *)

LEMMA AppendCode ==
  ASSUME TypeOK, NEW code \in Seq(Instr)
  PROVE  out \o code \in Seq(Instr)
<1>1. out \in Seq(Instr)
  BY DEF TypeOK
<1> QED BY <1>1, ConcatProperties

LEMMA GenDeclInv == ASSUME IInv, GenDecl PROVE IInv'
<1> USE DEF IInv
<1>0. m_vars \in Seq(Var) /\ Distinct(m_vars) /\ m_block \in Seq(Seq(Names))
  BY DEF TypeOK, NoDupVars
<1>1. /\ More /\ phase = "gen" /\ Cur.kind \in DeclKinds /\ Cur.kind \in LeafKinds
      /\ ~LeafFails(m_vars, Cur)
  BY DEF GenDecl, At, LeafKinds
<1>2. Cur.name \in Names /\ Cur.expr \in Expr /\ pc + 1 \in 1..(Len(prog) + 1)
  BY <1>1, StmtFields, PcType
<1>3. out' \in Seq(Instr)
  BY <1>0, <1>1, <1>2, LeafCodeType, AppendCode DEF GenDecl
<1>4. m_block' \in Seq(Seq(Names)) /\ Len(m_block') = Len(m_block)
  BY <1>0, <1>2, DeclareLocalType DEF GenDecl
<1>5. bound' \in SUBSET Bound
  <2>1. Cur.name \in VarNames(m_vars)
    BY <1>1 DEF LeafFails
  <2>2. bound \in SUBSET Bound /\ Len(open) \in Nat
    BY DEF TypeOK
  <2> QED BY <1>0, <1>2, <2>1, <2>2, BindDeclType DEF GenDecl
<1>6. TypeOK'
  BY <1>1, <1>2, <1>3, <1>4, <1>5 DEF GenDecl, TypeOK
<1>7. NoDupVars' /\ RowsFollowBodies'
  BY <1>1, <1>4 DEF GenDecl, NoDupVars, Distinct, RowsFollowBodies, Rows
<1> QED BY <1>6, <1>7

LEMMA GenLeafInv == ASSUME IInv, GenLeaf PROVE IInv'
<1> USE DEF IInv
<1>0. m_vars \in Seq(Var) /\ Distinct(m_vars)
  BY DEF TypeOK, NoDupVars
<1>1. More /\ phase = "gen" /\ Cur.kind \in LeafKinds /\ ~LeafFails(m_vars, Cur)
  BY DEF GenLeaf, At
<1>2. Cur.name \in Names /\ Cur.expr \in Expr /\ pc + 1 \in 1..(Len(prog) + 1)
  BY <1>1, StmtFields, PcType
<1>3. out' \in Seq(Instr)
  BY <1>0, <1>1, <1>2, LeafCodeType, AppendCode DEF GenLeaf
<1>4. TypeOK'
  BY <1>1, <1>2, <1>3 DEF GenLeaf, TypeOK, tables
<1>5. NoDupVars' /\ RowsFollowBodies'
  BY <1>1 DEF GenLeaf, tables, NoDupVars, Distinct, RowsFollowBodies, Rows
<1> QED BY <1>4, <1>5
-----------------------------------------------------------------------------
(* The statements that open a body.                                        *)

LEMMA EnterBodyInv ==
  ASSUME IInv, More, phase = "gen", NEW rows \in Seq(Seq(Names)), Len(rows) = Len(m_block),
         EnterBody(rows), out' \in Seq(Instr), bound' \in SUBSET Bound
  PROVE  IInv'
<1> USE DEF IInv
<1>1. label \in Nat /\ open \in Seq(Frm) /\ nested \in BOOLEAN
  BY DEF TypeOK
<1>2. open' \in Seq(Frm) /\ Len(open') = Len(open) + 1
  BY <1>1, PushedFrame DEF EnterBody
<1>3. m_block' \in Seq(Seq(Names)) /\ Len(m_block') = Len(m_block) + 1
  BY DEF EnterBody
<1>4. pc' \in 1..(Len(prog) + 1) /\ label' \in Nat
  BY <1>1, PcType DEF EnterBody
<1>5. UNCHANGED <<prog, phase, iter, m_vars, m_func>>
  BY DEF EnterBody
<1>6. /\ nested' \in BOOLEAN
      /\ nested \/ Len(open) > 0 => nested'
      /\ ~nested /\ Len(open) = 0 => ~nested'
  BY NestedAfter DEF EnterBody
<1>7. TypeOK'
  BY <1>2, <1>3, <1>4, <1>5, <1>6 DEF TypeOK
<1>8. NoDupVars'
  BY <1>5 DEF NoDupVars, Distinct
<1>9. RowsFollowBodies'
  <2>1. Len(open) \in Nat /\ Len(m_block) \in Nat
    BY DEF TypeOK
  <2>2. IF nested THEN Len(m_block) < Len(open) \/ (Len(m_block) = Len(open) /\ Len(m_block) >= 2)
                  ELSE Len(m_block) = Len(open) /\ Len(m_block) <= 1
    BY <2>1 DEF RowsFollowBodies, Rows
  <2>3. Rows' = Len(m_block) + 1
    BY <1>3, <1>5, <2>1 DEF Rows
  <2>4. phase' = "gen"
    BY <1>5
  <2>5. CASE nested
    <3>1. nested'
      BY <1>6, <2>5
    <3>2. Rows' < Len(open') \/ (Rows' = Len(open') /\ Rows' >= 2)
      BY <1>2, <2>1, <2>2, <2>3, <2>5
    <3> QED BY <2>4, <3>1, <3>2 DEF RowsFollowBodies
  <2>6. CASE ~nested /\ Len(open) > 0
    <3>1. nested'
      BY <1>6, <2>6
    <3>2. Rows' = Len(open') /\ Rows' >= 2
      BY <1>2, <2>1, <2>2, <2>3, <2>6
    <3> QED BY <2>4, <3>1, <3>2 DEF RowsFollowBodies
  <2>7. CASE ~nested /\ Len(open) = 0
    <3>1. ~nested'
      BY <1>6, <2>7
    <3>2. Rows' = Len(open') /\ Rows' <= 1
      BY <1>2, <2>1, <2>2, <2>3, <2>7
    <3> QED BY <2>4, <3>1, <3>2 DEF RowsFollowBodies
  <2>8. Len(open) > 0 \/ Len(open) = 0
    BY <2>1
  <2> QED BY <2>5, <2>6, <2>7, <2>8
<1> QED BY <1>7, <1>8, <1>9

LEMMA OpenBodyInv ==
  ASSUME IInv, OpenIf \/ OpenElse \/ OpenWhile \/ OpenFor
  PROVE  IInv'
<1> USE DEF IInv
<1>0. /\ m_vars \in Seq(Var) /\ Distinct(m_vars) /\ m_block \in Seq(Seq(Names))
      /\ label \in Nat /\ bound \in SUBSET Bound /\ out \in Seq(Instr)
      /\ Len(open) \in Nat
  BY DEF TypeOK, NoDupVars
<1>1. More /\ phase = "gen"
  BY DEF OpenIf, OpenElse, OpenWhile, OpenFor, At
<1>2. Cur.expr \in Expr /\ Cur.init \in Leaf
  BY <1>1, StmtFields
<1>3. /\ <<Jump("if_end", label)>> \in Seq(Instr)
      /\ <<Label("While_start", label)>> \in Seq(Instr)
      /\ <<Jump("While_end", label)>> \in Seq(Instr)
      /\ <<Label("For_start", label)>> \in Seq(Instr)
      /\ <<Jump("For_end", label)>> \in Seq(Instr)
  BY <1>0, InstrTypes DEF Tags
<1>4. CASE OpenIf
  <2>1. ExprCode(m_vars, Cur.expr, "IF") \in Seq(Instr)
    BY <1>0, <1>2, <1>4, ExprCodeType DEF OpenIf
  <2>2. out' \in Seq(Instr)
    BY <1>0, <1>3, <1>4, <2>1, ConcatProperties DEF OpenIf
  <2> QED BY <1>0, <1>1, <1>4, <2>2, EnterBodyInv DEF OpenIf
<1>5. CASE OpenElse
  BY <1>0, <1>1, <1>5, EnterBodyInv DEF OpenElse
<1>6. CASE OpenWhile
  <2>1. ExprCode(m_vars, Cur.expr, "WHILE") \in Seq(Instr)
    BY <1>0, <1>2, <1>6, ExprCodeType DEF OpenWhile
  <2>2. out' \in Seq(Instr)
    BY <1>0, <1>3, <1>6, <2>1, ConcatProperties DEF OpenWhile
  <2> QED BY <1>0, <1>1, <1>6, <2>2, EnterBodyInv DEF OpenWhile
<1>7. CASE OpenFor
  <2>1. ExprCode(m_vars, Cur.expr, "FOR") \in Seq(Instr)
    BY <1>0, <1>2, <1>7, ExprCodeType DEF OpenFor
  <2>2. Cur.init.kind \in LeafKinds /\ Cur.init.name \in Names /\ Cur.init.expr \in Expr
    BY <1>2, LeafFields
  <2>3. LeafCode(m_vars, Cur.init) \in Seq(Instr)
    BY <1>0, <1>7, <2>2, LeafCodeType DEF OpenFor
  <2>4. out' \in Seq(Instr)
    BY <1>0, <1>3, <1>7, <2>1, <2>3, ConcatProperties DEF OpenFor
  <2>5. Cur.init.kind \in DeclKinds => Cur.init.name \in VarNames(m_vars)
    BY <1>7 DEF OpenFor, LeafFails
  <2>6. bound' \in SUBSET Bound
    BY <1>0, <1>7, <2>2, <2>5, BindDeclType DEF OpenFor
  <2>7. /\ DeclareLocal(m_block, Cur.init) \in Seq(Seq(Names))
        /\ Len(DeclareLocal(m_block, Cur.init)) = Len(m_block)
    BY <1>0, <2>2, DeclareLocalType
  <2> QED BY <1>1, <1>7, <2>4, <2>6, <2>7, EnterBodyInv DEF OpenFor
<1> QED BY <1>4, <1>5, <1>6, <1>7

(* What RowsFollowBodies says in the middle of gen_stmt, as arithmetic.    *)
LEMMA RowsFacts ==
  ASSUME IInv, phase \in {"gen", "params", "delete"}
  PROVE  /\ Len(open) \in Nat /\ Len(m_block) \in Nat /\ Rows \in Nat
         /\ nested => Rows < Len(open) \/ (Rows = Len(open) /\ Rows >= 2)
         /\ ~nested => Rows = Len(open) /\ Rows <= 1
<1>1. Len(open) \in Nat /\ Len(m_block) \in Nat
  BY DEF IInv, TypeOK
<1>2. Rows \in Nat
  BY <1>1 DEF Rows
<1> QED BY <1>1, <1>2 DEF IInv, RowsFollowBodies

(* The row of a function is pushed after its parameters: Rows counts it    *)
(* from the moment its frame is there.                                     *)
LEMMA OpenFuncInv == ASSUME IInv, OpenFunc PROVE IInv'
<1> USE DEF IInv
<1>1. /\ More /\ phase = "gen" /\ phase' = "params" /\ Cur' = Cur /\ (More' <=> More)
      /\ iter' = iter /\ label \in Nat /\ open \in Seq(Frm)
  BY DEF OpenFunc, At, TypeOK, Cur, More
<1>2. open' \in Seq(Frm) /\ Len(open') = Len(open) + 1 /\ open' # <<>>
  BY <1>1, PushedFrame DEF OpenFunc
<1>3. out' \in Seq(Instr)
  <2>1. Jump("placeholder", label) \in Instr /\ [op |-> "func", name |-> Cur.name] \in Instr
    BY <1>1, StmtFields, InstrTypes DEF Tags
  <2>2. <<Jump("placeholder", label), [op |-> "func", name |-> Cur.name]>> \in Seq(Instr)
    BY <2>1
  <2> QED BY <2>2, AppendCode DEF OpenFunc
<1>4. Len(Cur.params) \in Nat
  BY <1>1, StmtFields
<1>5. /\ nested' \in BOOLEAN
      /\ nested \/ Len(open) > 0 => nested'
      /\ ~nested /\ Len(open) = 0 => ~nested'
  BY NestedAfter DEF OpenFunc
<1>6. iter' <= Len(Cur'.params)
  BY <1>1, <1>4 DEF TypeOK
<1>7. TypeOK'
  BY <1>1, <1>2, <1>3, <1>5, <1>6 DEF OpenFunc, TypeOK, tables, Phases
<1>8. NoDupVars'
  BY DEF OpenFunc, tables, NoDupVars, Distinct
<1>9. RowsFollowBodies'
  <2>1. Len(open) \in Nat /\ Len(m_block) \in Nat /\ Rows = Len(m_block)
    BY <1>1, RowsFacts DEF Rows
  <2>2. Rows' = Len(m_block) + 1
    BY <1>1, <2>1 DEF OpenFunc, tables, Rows
  <2>3. CASE nested \/ Len(open) > 0
    <3>1. nested'
      BY <1>5, <2>3
    <3>2. CASE nested
      <4>1. Rows < Len(open) \/ (Rows = Len(open) /\ Rows >= 2)
        BY <1>1, <3>2, RowsFacts
      <4>2. Rows' < Len(open') \/ (Rows' = Len(open') /\ Rows' >= 2)
        BY <1>2, <2>1, <2>2, <4>1
      <4> QED BY <1>1, <3>1, <4>2 DEF RowsFollowBodies
    <3>3. CASE ~nested
      <4>1. Rows = Len(open) /\ Len(open) > 0
        BY <1>1, <2>3, <3>3, RowsFacts
      <4>2. Rows' = Len(open') /\ Rows' >= 2
        BY <1>2, <2>1, <2>2, <4>1
      <4> QED BY <1>1, <3>1, <4>2 DEF RowsFollowBodies
    <3> QED BY <3>2, <3>3
  <2>4. CASE ~nested /\ Len(open) = 0
    <3>1. ~nested' /\ Rows = Len(open) /\ Len(open) = 0
      BY <1>1, <1>5, <2>1, <2>4, RowsFacts
    <3>2. Rows' = Len(open') /\ Rows' <= 1
      BY <1>2, <2>1, <2>2, <3>1
    <3> QED BY <1>1, <3>1, <3>2 DEF RowsFollowBodies
  <2>5. Len(open) > 0 \/ Len(open) = 0
    BY <2>1
  <2> QED BY <2>3, <2>4, <2>5
<1> QED BY <1>7, <1>8, <1>9

LEMMA GenParamInv == ASSUME IInv, GenParam PROVE IInv'
<1> USE DEF IInv
<1> DEFINE q  == Cur.params[iter + 1]
           vs == EnsureVarSlot(m_vars, q.name, q.type)
<1>0. /\ m_vars \in Seq(Var) /\ Distinct(m_vars) /\ iter \in Nat
      /\ phase = "params" /\ More /\ open # <<>> /\ iter < Len(Cur.params)
      /\ out \in Seq(Instr) /\ bound \in SUBSET Bound /\ Len(open) \in Nat
      /\ m_func \in Seq(Entry)
  BY DEF TypeOK, NoDupVars, GenParam
<1>1. q.name \in Names /\ q.type \in Types
  <2>1. Cur.params \in Seq(Param) /\ iter + 1 \in 1..Len(Cur.params)
    BY <1>0, StmtFields
  <2>2. q \in Param
    BY <2>1
  <2> HIDE DEF q
  <2> QED BY <2>2 DEF Param
<1>2. /\ m_vars' = vs /\ iter' = iter + 1
      /\ m_func' = Append(m_func, [name |-> q.name, arg_types |-> <<q.type>>])
      /\ out' = Append(out, Access("store", vs, q.name, SizeOf[q.type]))
      /\ bound' = bound \cup {[name |-> q.name, slot |-> SlotOf(vs, q.name),
                               depth |-> Len(open)]}
      /\ UNCHANGED <<prog, phase, pc, open, m_block, label, nested>>
  BY DEF GenParam, NoteParam
<1> HIDE DEF q
<1>3. vs \in Seq(Var) /\ Distinct(vs) /\ q.name \in VarNames(vs)
  BY <1>0, <1>1, EnsureVarSlotProps
<1> HIDE DEF vs
<1>4. Access("store", vs, q.name, SizeOf[q.type]) \in Instr
  BY <1>1, <1>3, AccessType, SizeTypes
<1>5. out' \in Seq(Instr)
  BY <1>0, <1>2, <1>4
<1>6. m_func' \in Seq(Entry)
  <2>1. <<q.type>> \in Seq(Types)
    BY <1>1
  <2>2. [name |-> q.name, arg_types |-> <<q.type>>] \in Entry
    BY <1>1, <2>1 DEF Entry
  <2> QED BY <1>0, <1>2, <2>2
<1>7. bound' \in SUBSET Bound
  <2>1. SlotOf(vs, q.name) \in Nat
    BY <1>3, EntryOfProps
  <2>2. [name |-> q.name, slot |-> SlotOf(vs, q.name), depth |-> Len(open)] \in Bound
    BY <1>0, <1>1, <2>1 DEF Bound
  <2> QED BY <1>0, <1>2, <2>2
<1>8. /\ Cur' = Cur /\ (More' <=> More) /\ iter' \in Nat /\ iter' <= Len(Cur.params)
  <2>1. Len(Cur.params) \in Nat
    BY <1>0, StmtFields
  <2> QED BY <1>0, <1>2, <2>1 DEF Cur, More
<1>9. TypeOK'
  BY <1>0, <1>2, <1>3, <1>5, <1>6, <1>7, <1>8 DEF TypeOK
<1>10. NoDupVars'
  BY <1>2, <1>3 DEF NoDupVars
<1>11. RowsFollowBodies'
  BY <1>2 DEF RowsFollowBodies, Rows
<1> QED BY <1>9, <1>10, <1>11

LEMMA EnterFuncInv == ASSUME IInv, EnterFunc PROVE IInv'
<1> USE DEF IInv
<1>1. /\ phase = "params" /\ phase' = "gen" /\ iter' = 0 /\ More
      /\ m_block' = Append(m_block, <<>>) /\ m_block \in Seq(Seq(Names))
      /\ UNCHANGED <<prog, open, m_vars, m_func, label, out, nested, bound>>
  BY DEF EnterFunc, TypeOK
<1>2. m_block' \in Seq(Seq(Names)) /\ Len(m_block') = Len(m_block) + 1
  BY <1>1
<1>3. pc' \in 1..(Len(prog) + 1)
  BY <1>1, PcType DEF EnterFunc
<1>4. TypeOK'
  BY <1>1, <1>2, <1>3 DEF TypeOK, Phases
<1>5. NoDupVars'
  BY <1>1 DEF NoDupVars, Distinct
<1>6. Rows' = Rows
  BY <1>1, <1>2 DEF Rows
<1>7. RowsFollowBodies'
  BY <1>1, <1>6 DEF RowsFollowBodies
<1> QED BY <1>4, <1>5, <1>7
-----------------------------------------------------------------------------
(* The end of a body.                                                      *)

LEMMA StartDeleteInv == ASSUME IInv, StartDelete PROVE IInv'
<1> USE DEF IInv
<1>1. /\ phase = "gen" /\ phase' = "delete" /\ More /\ open # <<>> /\ m_block # <<>>
      /\ iter = 0 /\ m_block \in Seq(Seq(Names)) /\ out \in Seq(Instr)
      /\ UNCHANGED <<prog, pc, open, iter, m_vars, m_block, m_func, label, nested, bound>>
  BY DEF StartDelete, At, tables, TypeOK
<1>2. Label("placeholder", Top.id) \in Instr
  BY <1>1, TopFrame, InstrTypes DEF Tags
<1>3. out' \in Seq(Instr)
  BY <1>1, <1>2 DEF StartDelete
<1>4. Last(m_block) \in Seq(Names)
  BY <1>1, FrontLast
<1>5. (More' <=> More) /\ iter' <= Len(Last(m_block)')
  BY <1>1, <1>4 DEF More
<1>6. TypeOK'
  BY <1>1, <1>3, <1>5 DEF TypeOK, Phases
<1>7. NoDupVars'
  BY <1>1 DEF NoDupVars, Distinct
<1>8. RowsFollowBodies'
  BY <1>1 DEF RowsFollowBodies, Rows
<1> QED BY <1>6, <1>7, <1>8

LEMMA DeleteVarInv == ASSUME IInv, DeleteVar PROVE IInv'
<1> USE DEF IInv
<1> DEFINE key == Last(m_block)[iter + 1]
<1>1. /\ phase = "delete" /\ iter < Len(Last(m_block)) /\ iter \in Nat
      /\ key \in VarNames(m_vars)
      /\ m_vars' = ShiftOut(m_vars, EntryOf(m_vars, key)) /\ iter' = iter + 1
      /\ m_vars \in Seq(Var) /\ Distinct(m_vars)
      /\ m_block \in Seq(Seq(Names)) /\ m_block # <<>>
      /\ UNCHANGED <<prog, phase, pc, open, m_block, m_func, label, out, nested, bound>>
  BY DEF DeleteVar, TypeOK, NoDupVars
<1>2. m_vars' \in Seq(Var) /\ Distinct(m_vars')
  <2> HIDE DEF key
  <2>1. EntryOf(m_vars, key) \in 1..Len(m_vars)
    BY <1>1, EntryOfProps
  <2> QED BY <1>1, <2>1, ShiftOutProps
<1>3. Last(m_block)' = Last(m_block) /\ Len(Last(m_block)) \in Nat
  <2>1. Last(m_block) \in Seq(Names)
    BY <1>1, FrontLast
  <2> QED BY <1>1, <2>1
<1>4. (More' <=> More) /\ iter' \in Nat /\ iter' <= Len(Last(m_block)')
  BY <1>1, <1>3 DEF More
<1>5. TypeOK'
  BY <1>1, <1>2, <1>4 DEF TypeOK
<1>6. NoDupVars'
  BY <1>2 DEF NoDupVars
<1>7. RowsFollowBodies'
  BY <1>1 DEF RowsFollowBodies, Rows
<1> QED BY <1>5, <1>6, <1>7

(* Two rows go with one frame: the rows keep up only if there was one.     *)
LEMMA LeaveBodyInv ==
  ASSUME IInv, phase = "delete", LeaveBody, out' \in Seq(Instr), bound' \in SUBSET Bound,
         m_block' \in Seq(Seq(Names)),
         Len(m_block') = Len(RemoveLastBlock(Front(m_block)))
  PROVE  IInv'
<1> USE DEF IInv
<1>1. /\ More /\ open # <<>> /\ m_block # <<>> /\ m_block \in Seq(Seq(Names))
      /\ open' = Front(open) /\ iter' = 0 /\ phase' = "gen"
      /\ UNCHANGED <<prog, m_vars, m_func, label, nested>>
  BY DEF TypeOK, LeaveBody, PopFrame
<1>2. /\ open' \in Seq(Frm) /\ Len(open') = Len(open) - 1 /\ Len(open) \in Nat \ {0}
  BY <1>1, TopFrame
<1>3. pc' \in 1..(Len(prog) + 1)
  BY <1>1, PcType DEF LeaveBody
<1>4. TypeOK'
  BY <1>1, <1>2, <1>3 DEF TypeOK, Phases
<1>5. NoDupVars'
  BY <1>1 DEF NoDupVars, Distinct
<1>6. RowsFollowBodies'
  <2> DEFINE b == Len(m_block)
             d == Len(open)
  <2>1. /\ d \in Nat \ {0} /\ b \in Nat \ {0} /\ Rows = b
        /\ nested => b < d \/ (b = d /\ b >= 2)
        /\ ~nested => b = d /\ b <= 1
    BY <1>1, <1>2, RowsFacts, EmptySeq DEF Rows
  <2>2. Front(m_block) \in Seq(Seq(Names)) /\ Len(Front(m_block)) = b - 1
    BY <1>1, FrontLast
  <2>3. Rows' = IF b = 1 THEN 0 ELSE b - 2
    <3>1. CASE Front(m_block) = <<>>
      BY <1>1, <2>1, <2>2, <3>1 DEF Rows, RemoveLastBlock
    <3>2. CASE Front(m_block) # <<>>
      <4> DEFINE fb == Front(m_block)
      <4>1. fb \in Seq(Seq(Names)) /\ Len(fb) = b - 1 /\ fb # <<>> /\ b \in Nat \ {0}
        BY <2>1, <2>2, <3>2
      <4> HIDE DEF fb, b
      <4>2. Len(fb) \in Nat \ {0} /\ Len(Front(fb)) = Len(fb) - 1
        BY <4>1, FrontLast, EmptySeq
      <4>3. b # 1 /\ Len(Front(fb)) = b - 2
        BY <4>1, <4>2
      <4>4. Rows' = Len(Front(fb))
        BY <1>1, <3>2 DEF Rows, RemoveLastBlock, fb
      <4> QED BY <4>3, <4>4
    <3> QED BY <3>1, <3>2
  <2> HIDE DEF b, d
  <2>4. Len(open') = d - 1
    BY <1>2 DEF d
  <2>5. CASE nested
    <3>1. Rows' < Len(open')
      BY <2>1, <2>3, <2>4, <2>5
    <3> QED BY <1>1, <2>5, <3>1 DEF RowsFollowBodies
  <2>6. CASE ~nested
    <3>1. Rows' = Len(open') /\ Rows' <= 1
      BY <2>1, <2>3, <2>4, <2>6
    <3> QED BY <1>1, <2>6, <3>1 DEF RowsFollowBodies
  <2> QED BY <2>5, <2>6
<1> QED BY <1>4, <1>5, <1>6

LEMMA CloseBodyInv ==
  ASSUME IInv, CloseIfElse \/ CloseWhile \/ CloseFunc \/ CloseFor
  PROVE  IInv'
<1> USE DEF IInv
<1> DEFINE rows == RemoveLastBlock(Front(m_block))
<1>0. phase = "delete"
  BY DEF CloseIfElse, CloseWhile, CloseFunc, CloseFor, Closing
<1>1. /\ m_vars \in Seq(Var) /\ Distinct(m_vars) /\ out \in Seq(Instr)
      /\ OuterBound \in SUBSET Bound /\ open # <<>> /\ m_block # <<>>
      /\ m_block \in Seq(Seq(Names)) /\ open \in Seq(Frm)
  BY <1>0 DEF TypeOK, NoDupVars, OuterBound
<1>2. rows \in Seq(Seq(Names))
  <2>1. Front(m_block) \in Seq(Seq(Names))
    BY <1>1, FrontLast
  <2>2. CASE Front(m_block) = <<>>
    BY <2>1, <2>2 DEF RemoveLastBlock
  <2>3. CASE Front(m_block) # <<>>
    <3>1. Front(Front(m_block)) \in Seq(Seq(Names))
      BY <2>1, <2>3, FrontLast
    <3> QED BY <2>3, <3>1 DEF RemoveLastBlock
  <2> QED BY <2>2, <2>3
<1>3. \A t \in Tags : Label(t, Top.id) \in Instr /\ Jump(t, Top.id) \in Instr
  BY <1>1, TopFrame, InstrTypes
<1> HIDE DEF rows
<1>4. CASE CloseIfElse
  <2>1. out' \in Seq(Instr)
    BY <1>1, <1>3, <1>4 DEF CloseIfElse, Tags
  <2> QED BY <1>0, <1>1, <1>2, <1>4, <2>1, LeaveBodyInv DEF CloseIfElse, rows
<1>5. CASE CloseWhile
  <2>1. <<Jump("While_start", Top.id), Label("While_end", Top.id)>> \in Seq(Instr)
    BY <1>3 DEF Tags
  <2>2. out' \in Seq(Instr)
    BY <1>1, <1>5, <2>1, ConcatProperties DEF CloseWhile
  <2> QED BY <1>0, <1>1, <1>2, <1>5, <2>2, LeaveBodyInv DEF CloseWhile, rows
<1>6. CASE CloseFunc
  BY <1>0, <1>1, <1>2, <1>6, LeaveBodyInv DEF CloseFunc, rows
<1>7. CASE CloseFor
  <2> DEFINE l == Top.stmt.step
  <2>1. /\ ~LeafFails(m_vars, l) /\ LeaveBody
        /\ out' = out \o LeafCode(m_vars, l)
                      \o <<Jump("For_start", Top.id), Label("For_end", Top.id)>>
        /\ m_block' = DeclareLocal(rows, l)
        /\ bound' = BindDecl(OuterBound, m_vars, l, Len(open) - 1)
    BY <1>7 DEF CloseFor, rows
  <2>2. l.kind \in LeafKinds /\ l.name \in Names /\ l.expr \in Expr /\ Len(open) - 1 \in Nat
    BY <1>1, TopFrame, LeafFields
  <2> HIDE DEF l
  <2>3. <<Jump("For_start", Top.id), Label("For_end", Top.id)>> \in Seq(Instr)
    BY <1>3 DEF Tags
  <2>4. LeafCode(m_vars, l) \in Seq(Instr)
    BY <1>1, <2>1, <2>2, LeafCodeType
  <2>5. out' \in Seq(Instr)
    BY <1>1, <2>1, <2>3, <2>4, ConcatProperties
  <2>6. m_block' \in Seq(Seq(Names)) /\ Len(m_block') = Len(rows)
    BY <1>2, <2>1, <2>2, DeclareLocalType
  <2>7. l.kind \in DeclKinds => l.name \in VarNames(m_vars)
    BY <2>1 DEF LeafFails
  <2>8. bound' \in SUBSET Bound
    BY <1>1, <2>1, <2>2, <2>7, BindDeclType
  <2> QED BY <1>0, <2>1, <2>5, <2>6, <2>8, LeaveBodyInv DEF rows
<1> QED BY <1>4, <1>5, <1>6, <1>7
-----------------------------------------------------------------------------
(* How generation ends, and a second call.                                 *)

LEMMA HaltInv ==
  ASSUME IInv, NEW how \in {"done", "exited", "crashed"}, Halt(how),
         how = "done" => phase = "gen" /\ open = <<>>
  PROVE  IInv'
<1> USE DEF IInv
<1>1. /\ phase' = how
      /\ UNCHANGED <<prog, pc, open, iter, m_vars, m_block, m_func, label, out, nested,
                     bound>>
  BY DEF Halt, tables
<1>2. TypeOK'
  BY <1>1 DEF TypeOK, Phases
<1>3. NoDupVars'
  BY <1>1 DEF NoDupVars, Distinct
<1>4. RowsFollowBodies'
  <2>1. CASE how = "done"
    <3>1. phase = "gen"
      BY <2>1
    <3> QED BY <1>1, <2>1, <3>1 DEF RowsFollowBodies, Rows
  <2>2. CASE how # "done"
    BY <1>1, <2>2 DEF RowsFollowBodies
  <2> QED BY <2>1, <2>2
<1> QED BY <1>2, <1>3, <1>4

LEMMA StutterInv == ASSUME IInv, UNCHANGED vars PROVE IInv'
<1>1. UNCHANGED <<prog, phase, pc, open, iter, m_vars, m_block, m_func, label, out, nested,
                  nested, bound>>
  BY DEF vars, tables
<1> QED BY <1>1 DEF IInv, TypeOK, NoDupVars, Distinct, RowsFollowBodies, Rows, Cur, More
-----------------------------------------------------------------------------
(* Every reachable state satisfies the inductive invariant: the types, the *)
(* uniqueness of the names in m_vars, and the rows of m_block, whatever    *)
(* the programs.                                                           *)
THEOREM Invariance == Spec => []IInv
<1>1. Init => IInv
  BY InitInv
<1>2. IInv /\ [Next]_vars => IInv'
  <2> SUFFICES ASSUME IInv, [Next]_vars PROVE IInv'
    OBVIOUS
  <2>1. CASE CollectVars \/ AssignSlots \/ NextPass
    BY <2>1, PassesInv
  <2>2. CASE GenDecl
    BY <2>2, GenDeclInv
  <2>3. CASE GenLeaf
    BY <2>3, GenLeafInv
  <2>4. CASE OpenIf \/ OpenElse \/ OpenWhile \/ OpenFor
    BY <2>4, OpenBodyInv
  <2>5. CASE OpenFunc
    BY <2>5, OpenFuncInv
  <2>6. CASE GenParam
    BY <2>6, GenParamInv
  <2>7. CASE EnterFunc
    BY <2>7, EnterFuncInv
  <2>8. CASE StartDelete
    BY <2>8, StartDeleteInv
  <2>9. CASE DeleteVar
    BY <2>9, DeleteVarInv
  <2>10. CASE CloseIfElse \/ CloseWhile \/ CloseFunc \/ CloseFor
    BY <2>10, CloseBodyInv
  <2>11. CASE Finish
    BY <2>11, HaltInv DEF Finish
  <2>12. CASE Exit
    BY <2>12, HaltInv DEF Exit
  <2>13. CASE Crash
    BY <2>13, HaltInv DEF Crash
  <2>14. CASE UNCHANGED vars
    BY <2>14, StutterInv
  <2> QED BY <2>1, <2>2, <2>3, <2>4, <2>5, <2>6, <2>7, <2>8, <2>9, <2>10, <2>11, <2>12,
             <2>13, <2>14 DEF Next, Step, Gen, Del, Terminated
<1> QED BY <1>1, <1>2, PTL DEF Spec

(* The types and loop bounds, for every set of programs.                   *)
THEOREM TypeCorrect == Spec => []TypeOK
<1>1. IInv => TypeOK
  BY DEF IInv
<1> QED BY <1>1, Invariance, PTL

(* No name ever has two entries in m_vars.                                 *)
THEOREM TableUnique == Spec => []NoDupVars
<1>1. IInv => NoDupVars
  BY DEF IInv
<1> QED BY <1>1, Invariance, PTL

(* m_block has one row per open body until bodies have been nested, and is *)
(* behind for ever once they have.                                         *)
THEOREM RowsKept == Spec => []RowsFollowBodies
<1>1. IInv => RowsFollowBodies
  BY DEF IInv
<1> QED BY <1>1, Invariance, PTL

(* generate_gen_data returns only for programs without a nested body.      *)
THEOREM NestingRejected == Spec => []NoNestedBlockCompiles
<1>1. IInv => NoNestedBlockCompiles
  <2> SUFFICES ASSUME IInv, phase = "done" PROVE ~nested
    BY DEF NoNestedBlockCompiles
  <2>1. open = <<>> /\ Rows = Len(m_block) /\ Len(m_block) \in Nat
    BY DEF IInv, TypeOK, Rows
  <2>2. nested => Rows < Len(open) \/ (Rows = Len(open) /\ Rows >= 2)
    BY DEF IInv, RowsFollowBodies
  <2> QED BY <2>1, <2>2
<1> QED BY <1>1, Invariance, PTL
-----------------------------------------------------------------------------
(***************************************************************************)
(* What a compiled program may look up and call, for every set of          *)
(* programs: UsesDeclared and CallsTakeOne.                                *)
(*                                                                         *)
(* Both speak of the finished program only.  What every step preserves is  *)
(* that the statements the generator has passed are fine, except for the   *)
(* third part of a FOR, which waits on the C stack for its body to end.    *)
(***************************************************************************)
(* A function with parameters stands before statement k.                   *)
Before(p, k) == \E i \in 1..(k - 1) : HasParams(p[i])

(* Behind such a function, h, a call has one argument; names are declared. *)
ExprFine(p, h, e) ==
  /\ ToSet(e.uses) \subseteq DeclaredNames(p)
  /\ h /\ e.kind = "FUNC" => e.args = <<"int_lit">>

LeafFine(p, h, l) ==
  /\ LeafUses(l) \subseteq DeclaredNames(p)
  /\ h /\ l.expr.kind = "FUNC" => l.expr.args = <<"int_lit">>

(* What is generated when statement k is met, and when its body closes.    *)
HeadFine(p, k) ==
  /\ p[k].kind \in LeafKinds => LeafFine(p, Before(p, k), p[k])
  /\ p[k].kind \in {"IF", "WHILE"} => ExprFine(p, Before(p, k), p[k].expr)
  /\ p[k].kind = "FOR" => LeafFine(p, Before(p, k), p[k].init)
                          /\ ExprFine(p, Before(p, k), p[k].expr)
StepFine(p, k) == p[k].kind = "FOR" => LeafFine(p, Before(p, k), p[k].step)

OpenStmts(o) == {o[j].stmt : j \in DOMAIN o}
GenPhases    == {"gen", "params", "delete", "done"}
-----------------------------------------------------------------------------
(* The inductive invariant.  Tables: m_vars holds declared names, m_func   *)
(* entries of one type.                                                    *)
OneType(fs) == \A j \in DOMAIN fs : \E t \in Types : fs[j].arg_types = <<t>>
Tables == VarNames(m_vars) \subseteq DeclaredNames(prog) /\ OneType(m_func)

(* The statement at which the loops of gen_stmt run.                       *)
Places ==
  /\ phase = "params" => Cur.kind = "FUNC"
  /\ phase = "params" /\ iter > 0 => m_func # <<>>
  /\ phase = "delete" => Cur.kind = "END"
  /\ phase = "done" => ~More

(* The parameters met so far are in m_func.                                *)
Noted == phase \in GenPhases /\ Before(prog, pc) => m_func # <<>>

(* The statements passed so far are fine.                                  *)
Passed ==
  phase \in GenPhases =>
    \A k \in 1..(pc - 1) :
      HeadFine(prog, k) /\ (StepFine(prog, k) \/ prog[k] \in OpenStmts(open))

LInv == Tables /\ Places /\ Noted /\ Passed
-----------------------------------------------------------------------------
(* The names of a table after an insertion and after a deletion.           *)

LEMMA EnsureNames ==
  ASSUME NEW vs \in Seq(Var), NEW x, NEW t
  PROVE  VarNames(EnsureVarSlot(vs, x, t)) \subseteq VarNames(vs) \cup {x}
<1>1. CASE x \in VarNames(vs)
  BY <1>1 DEF EnsureVarSlot
<1>2. CASE x \notin VarNames(vs)
  <2> DEFINE v == [name |-> x, type |-> t]
             ws == Append(vs, v)
  <2>1. v.name = x
    OBVIOUS
  <2> HIDE DEF v
  <2>2. /\ DOMAIN ws = 1..(Len(vs) + 1) /\ ws[Len(vs) + 1] = v
        /\ \A i \in 1..Len(vs) : ws[i] = vs[i]
    OBVIOUS
  <2>3. EnsureVarSlot(vs, x, t) = ws
    BY <1>2 DEF EnsureVarSlot, v
  <2> HIDE DEF ws
  <2>4. ASSUME NEW i \in DOMAIN ws PROVE ws[i].name \in VarNames(vs) \cup {x}
    <3>1. CASE i = Len(vs) + 1
      BY <2>1, <2>2, <3>1
    <3>2. CASE i # Len(vs) + 1
      <4>1. i \in DOMAIN vs /\ ws[i] = vs[i]
        BY <2>2, <2>4, <3>2
      <4> QED BY <4>1 DEF VarNames
    <3> QED BY <3>1, <3>2
  <2> QED BY <2>3, <2>4 DEF VarNames
<1> QED BY <1>1, <1>2

LEMMA EnsureDeclNames ==
  ASSUME NEW vs \in Seq(Var), NEW s, NEW D, VarNames(vs) \subseteq D,
         s.kind \in DeclKinds => s.name \in D
  PROVE  VarNames(EnsureDecl(vs, s)) \subseteq D
<1>1. CASE s.kind \in DeclKinds
  BY <1>1, EnsureNames DEF EnsureDecl
<1>2. CASE s.kind \notin DeclKinds
  BY <1>2 DEF EnsureDecl
<1> QED BY <1>1, <1>2

LEMMA ShiftOutNames ==
  ASSUME NEW vs \in Seq(Var), NEW i \in 1..Len(vs)
  PROVE  VarNames(ShiftOut(vs, i)) \subseteq VarNames(vs)
<1> DEFINE ws == ShiftOut(vs, i)
<1>1. /\ ws \in Seq(Var) /\ Len(ws) = Len(vs) - 1
      /\ \A k \in 1..(Len(vs) - 1) : ws[k] = IF k < i THEN vs[k] ELSE vs[k + 1]
  BY RemoveAtProps DEF ShiftOut
<1> HIDE DEF ws
<1>2. ASSUME NEW k \in DOMAIN ws PROVE \E j \in DOMAIN vs : ws[k].name = vs[j].name
  <2>1. k \in 1..(Len(vs) - 1)
    BY <1>1
  <2>2. k \in DOMAIN vs /\ k + 1 \in DOMAIN vs
    BY <2>1
  <2> QED BY <1>1, <2>1, <2>2
<1> QED BY <1>2 DEF VarNames, ws

(* What a statement declares.                                              *)
LEMMA DeclaresOwn ==
  ASSUME NEW s
  PROVE  /\ s.kind \in DeclKinds => s.name \in ToSet(Declares(s))
         /\ s.kind = "FOR" =>
              /\ s.init.kind \in DeclKinds => s.init.name \in ToSet(Declares(s))
              /\ s.step.kind \in DeclKinds => s.step.name \in ToSet(Declares(s))
         /\ s.kind = "FUNC" =>
              \A i \in DOMAIN s.params : s.params[i].name \in ToSet(Declares(s))
<1>2. ASSUME NEW l, l.kind \in DeclKinds
      PROVE  DeclName(l) = <<l.name>>
  BY <1>2 DEF DeclName
<1>3. CASE s.kind \in DeclKinds
  <2>1. Declares(s) = <<s.name>>
    BY <1>2, <1>3 DEF Declares, DeclKinds
  <2>2. s.name \in ToSet(Declares(s))
    BY <2>1 DEF ToSet
  <2> QED BY <1>3, <2>2 DEF DeclKinds
<1>4. CASE s.kind = "FOR"
  <2> DEFINE a == DeclName(s.init)
             b == DeclName(s.step)
  <2>1. Declares(s) = a \o b
    BY <1>4 DEF Declares
  <2>2. a \in Seq({s.init.name}) /\ b \in Seq({s.step.name})
    <3>1. \A l : DeclName(l) = <<l.name>> \/ DeclName(l) = <<>>
      BY DEF DeclName
    <3>2. (a = <<s.init.name>> \/ a = <<>>) /\ (b = <<s.step.name>> \/ b = <<>>)
      BY <3>1
    <3>3. \A x : <<x>> \in Seq({x}) /\ <<>> \in Seq({x})
      OBVIOUS
    <3> HIDE DEF a, b
    <3> QED BY <3>2, <3>3
  <2>3. s.init.kind \in DeclKinds => Len(a) = 1 /\ a[1] = s.init.name
    BY DEF DeclName
  <2>4. s.step.kind \in DeclKinds => Len(b) = 1 /\ b[1] = s.step.name
    BY DEF DeclName
  <2> HIDE DEF a, b
  <2>5. /\ Len(a) \in Nat /\ Len(b) \in Nat /\ DOMAIN (a \o b) = 1..(Len(a) + Len(b))
        /\ \A i \in 1..Len(a) : (a \o b)[i] = a[i]
        /\ \A i \in 1..Len(b) : (a \o b)[Len(a) + i] = b[i]
    BY <2>2
  <2>6. s.init.kind \in DeclKinds => s.init.name \in ToSet(a \o b)
    <3> SUFFICES ASSUME s.init.kind \in DeclKinds PROVE s.init.name \in ToSet(a \o b)
      OBVIOUS
    <3>1. 1 \in DOMAIN (a \o b) /\ (a \o b)[1] = s.init.name
      BY <2>3, <2>5
    <3> QED BY <3>1 DEF ToSet
  <2>7. s.step.kind \in DeclKinds => s.step.name \in ToSet(a \o b)
    <3> SUFFICES ASSUME s.step.kind \in DeclKinds PROVE s.step.name \in ToSet(a \o b)
      OBVIOUS
    <3>1. 1 \in 1..Len(b) /\ Len(a) + 1 \in DOMAIN (a \o b) /\ (a \o b)[Len(a) + 1] = s.step.name
      BY <2>4, <2>5
    <3> QED BY <3>1 DEF ToSet
  <2> QED BY <1>4, <2>1, <2>6, <2>7 DEF DeclKinds
<1>5. CASE s.kind = "FUNC"
  <2>1. Declares(s) = [i \in DOMAIN s.params |-> s.params[i].name]
    BY <1>5 DEF Declares, ParamNames
  <2>2. \A i \in DOMAIN s.params : s.params[i].name \in ToSet(Declares(s))
    BY <2>1 DEF ToSet
  <2> QED BY <1>5, <2>2 DEF DeclKinds
<1> QED BY <1>3, <1>4, <1>5

(* What the program declares at a statement is among its declared names.   *)
LEMMA DeclaredHere ==
  ASSUME NEW p \in Seq(Stmt), NEW k \in 1..Len(p)
  PROVE  ToSet(Declares(p[k])) \subseteq DeclaredNames(p)
BY DEF DeclaredNames
-----------------------------------------------------------------------------
(* A check that does not fail.                                             *)

(* Where m_func has an entry, only one integer passes.                     *)
LEMMA CallChecked ==
  ASSUME OneType(m_func), m_func \in Seq(Entry), m_func # <<>>,
         NEW args \in Seq(ArgTypes), CallOK(args)
  PROVE  args = <<"int_lit">>
<1>1. 1 \in DOMAIN m_func
  BY EmptySeq
<1>2. PICK t \in Types : m_func[1].arg_types = <<t>>
  BY <1>1 DEF OneType
<1>3. Len(args) = 1 /\ CheckTypes(t, args[1])
  <2>1. /\ Len(m_func[1].arg_types) = Len(args)
        /\ \A j \in DOMAIN m_func[1].arg_types : CheckTypes(m_func[1].arg_types[j], args[j])
    BY <1>1 DEF CallOK
  <2>2. Len(<<t>>) = 1 /\ 1 \in DOMAIN <<t>> /\ <<t>>[1] = t
    OBVIOUS
  <2> QED BY <1>2, <2>1, <2>2
<1>4. args[1] \in ArgTypes
  <2>1. 1 \in 1..Len(args)
    BY <1>3
  <2> QED BY <2>1
<1>5. args[1] = "int_lit"
  BY <1>3, <1>4 DEF CheckTypes, ArgTypes, Types
<1> QED BY <1>3, <1>5

LEMMA ExprPasses ==
  ASSUME TypeOK, Tables, NEW h \in BOOLEAN, h => m_func # <<>>,
         NEW e \in Expr, ~ExprFails(m_vars, e)
  PROVE  ExprFine(prog, h, e)
<1>1. e.uses \in Seq(Names) /\ e.args \in Seq(ArgTypes)
  BY DEF Expr
<1>2. \A i \in DOMAIN e.uses : e.uses[i] \in DeclaredNames(prog)
  BY DEF ExprFails, Tables
<1>3. h /\ e.kind = "FUNC" => e.args = <<"int_lit">>
  BY <1>1, CallChecked DEF ExprFails, Tables, TypeOK
<1> QED BY <1>2, <1>3 DEF ExprFine, ToSet

LEMMA LeafPasses ==
  ASSUME TypeOK, Tables, NEW h \in BOOLEAN, h => m_func # <<>>,
         NEW l, l.expr \in Expr, ~LeafFails(m_vars, l)
  PROVE  LeafFine(prog, h, l)
<1>1. CASE l.kind = "FUNC_USE"
  <2>1. l.expr.args \in Seq(ArgTypes) /\ CallOK(l.expr.args)
    BY <1>1 DEF Expr, LeafFails
  <2>2. h => l.expr.args = <<"int_lit">>
    BY <2>1, CallChecked DEF Tables, TypeOK
  <2> QED BY <1>1, <2>2 DEF LeafFine, LeafUses
<1>2. CASE l.kind # "FUNC_USE"
  <2>1. ExprFine(prog, h, l.expr)
    BY <1>2, ExprPasses DEF LeafFails
  <2>2. l.kind = "VCHANGE" => l.name \in DeclaredNames(prog)
    BY DEF LeafFails, Tables
  <2> QED BY <1>2, <2>1, <2>2 DEF LeafFine, LeafUses, ExprFine
<1> QED BY <1>1, <1>2
-----------------------------------------------------------------------------
(* Behind one more statement.                                              *)

LEMMA BeforeNext ==
  ASSUME NEW p, NEW k \in Nat, Before(p, k + 1)
  PROVE  Before(p, k) \/ HasParams(p[k])
<1>1. PICK i \in 1..((k + 1) - 1) : HasParams(p[i])
  BY DEF Before
<1>2. i = k \/ i \in 1..(k - 1)
  OBVIOUS
<1> QED BY <1>1, <1>2 DEF Before

(* A statement has been passed: its own conditions hold, and every FOR     *)
(* before it is still open or has met its third part.                      *)
LEMMA PassOne ==
  ASSUME TypeOK, LInv, More, phase \in GenPhases, phase' = "gen",
         prog' = prog, pc' = pc + 1, m_vars' = m_vars, m_func' = m_func,
         HasParams(Cur) => m_func # <<>>,
         HeadFine(prog, pc), StepFine(prog, pc) \/ Cur \in OpenStmts(open'),
         \A k \in 1..(pc - 1) :
           prog[k] \in OpenStmts(open) => StepFine(prog, k) \/ prog[k] \in OpenStmts(open')
  PROVE  LInv'
<1>1. pc \in Nat /\ pc' - 1 = pc
  BY PcType
<1>2. Tables' /\ Places'
  BY DEF LInv, Tables, Places
<1>3. Noted'
  <2>1. Before(prog, pc + 1) => m_func # <<>>
    BY <1>1, BeforeNext DEF LInv, Noted, Cur
  <2> QED BY <2>1 DEF Noted
<1>4. Passed'
  <2> SUFFICES ASSUME NEW k \in 1..pc
               PROVE  HeadFine(prog, k) /\ (StepFine(prog, k) \/ prog[k] \in OpenStmts(open'))
    BY <1>1 DEF Passed
  <2>1. CASE k = pc
    BY <2>1 DEF Cur
  <2>2. CASE k # pc
    <3>1. k \in 1..(pc - 1)
      BY <1>1, <2>2
    <3> QED BY <3>1 DEF LInv, Passed
  <2> QED BY <2>1, <2>2
<1> QED BY <1>2, <1>3, <1>4 DEF LInv

(* A loop of gen_stmt goes on at the same statement.                       *)
LEMMA Stay ==
  ASSUME LInv, phase \in GenPhases, UNCHANGED <<prog, pc>>,
         m_func' = m_func \/ m_func' # <<>>, OpenStmts(open) \subseteq OpenStmts(open')
  PROVE  Noted' /\ Passed'
<1>1. Noted'
  BY DEF LInv, Noted
<1>2. Passed'
  BY DEF LInv, Passed
<1> QED BY <1>1, <1>2

LEMMA PushedStmt ==
  ASSUME TypeOK, NEW id, PushFrame(id)
  PROVE  OpenStmts(open) \subseteq OpenStmts(open') /\ Cur \in OpenStmts(open')
<1> DEFINE f == [stmt |-> Cur, id |-> id]
<1>1. f.stmt = Cur /\ open' = Append(open, f) /\ open \in Seq(Frm)
  BY DEF PushFrame, TypeOK
<1> HIDE DEF f
<1>2. /\ DOMAIN open' = 1..(Len(open) + 1) /\ open'[Len(open) + 1] = f
      /\ \A j \in 1..Len(open) : open'[j] = open[j]
      /\ DOMAIN open = 1..Len(open) /\ Len(open) \in Nat
  BY <1>1
<1>3. \A j \in DOMAIN open : j \in DOMAIN open' /\ open'[j] = open[j]
  BY <1>2
<1>4. Len(open) + 1 \in DOMAIN open' /\ open'[Len(open) + 1].stmt = Cur
  BY <1>1, <1>2
<1> QED BY <1>3, <1>4 DEF OpenStmts

LEMMA PoppedStmt ==
  ASSUME TypeOK, PopFrame
  PROVE  OpenStmts(open) \subseteq OpenStmts(open') \cup {Top.stmt}
<1>1. /\ open \in Seq(Frm) /\ open # <<>> /\ Len(open') = Len(open) - 1
      /\ open' \in Seq(Frm) /\ \A j \in 1..(Len(open) - 1) : open'[j] = open[j]
  BY FrontLast DEF TypeOK, PopFrame
<1>2. ASSUME NEW j \in DOMAIN open PROVE open[j].stmt \in OpenStmts(open') \cup {Top.stmt}
  <2>1. CASE j = Len(open)
    BY <2>1 DEF Top, Last
  <2>2. CASE j # Len(open)
    <3>1. j \in DOMAIN open' /\ open'[j] = open[j]
      BY <1>1, <2>2
    <3> QED BY <3>1 DEF OpenStmts
  <2> QED BY <2>1, <2>2
<1> QED BY <1>2 DEF OpenStmts
-----------------------------------------------------------------------------
(* One lemma per group of steps.                                           *)

LEMMA PassesLookup ==
  ASSUME TypeOK, NoDupVars, LInv, CollectVars \/ AssignSlots \/ NextPass
  PROVE  LInv'
<1>1. CASE CollectVars \/ AssignSlots
  <2>1. /\ More /\ phase \in {"collect", "assign"} /\ phase' = phase
        /\ prog' = prog /\ m_func' = m_func
    BY <1>1 DEF CollectVars, AssignSlots, Walk
  <2>2. prog \in Seq(Stmt) /\ pc \in 1..Len(prog)
    BY <2>1, PcType, ProgramsAssumption DEF TypeOK
  <2>3. /\ Cur.name \in Names /\ Cur.init.name \in Names /\ Cur.step.name \in Names
    BY <2>1, StmtFields, LeafFields
  <2> DEFINE D == DeclaredNames(prog)
  <2>4. /\ Cur.kind \in DeclKinds => Cur.name \in D
        /\ Cur.kind = "FOR" => /\ Cur.init.kind \in DeclKinds => Cur.init.name \in D
                               /\ Cur.step.kind \in DeclKinds => Cur.step.name \in D
    BY <2>2, DeclaredHere, DeclaresOwn DEF Cur
  <2>5. m_vars \in Seq(Var) /\ Distinct(m_vars) /\ VarNames(m_vars) \subseteq D
    BY DEF TypeOK, NoDupVars, LInv, Tables
  <2> HIDE DEF D
  <2>6. VarNames(EnsureDecl(m_vars, Cur)) \subseteq D
    BY <2>4, <2>5, EnsureDeclNames
  <2>7. Cur.kind = "FOR" =>
          /\ EnsureDecl(m_vars, Cur.init) \in Seq(Var)
          /\ VarNames(EnsureDecl(m_vars, Cur.init)) \subseteq D
    BY <2>3, <2>4, <2>5, EnsureDeclNames, EnsureDeclProps
  <2>8. Cur.kind = "FOR" =>
          VarNames(EnsureDecl(EnsureDecl(m_vars, Cur.init), Cur.step)) \subseteq D
    BY <2>4, <2>7, EnsureDeclNames
  <2>9. VarNames(m_vars') \subseteq D
    BY <1>1, <2>5, <2>6, <2>7, <2>8 DEF CollectVars, AssignSlots
  <2> QED BY <2>1, <2>9 DEF LInv, Tables, Places, Noted, Passed, GenPhases, D
<1>2. CASE NextPass
  <2>1. /\ UNCHANGED <<prog, m_vars, m_func>> /\ pc' = 1 /\ phase' \in {"assign", "gen"}
    BY <1>2 DEF NextPass, tables
  <2>2. ~Before(prog', pc')
    BY <2>1 DEF Before
  <2> QED BY <2>1, <2>2 DEF LInv, Tables, Places, Noted, Passed
<1> QED BY <1>1, <1>2

LEMMA LeafLookup ==
  ASSUME TypeOK, LInv, GenDecl \/ GenLeaf
  PROVE  LInv'
<1>1. /\ phase = "gen" /\ More /\ Cur.kind \in LeafKinds /\ ~LeafFails(m_vars, Cur)
      /\ pc' = pc + 1 /\ UNCHANGED <<prog, phase, open, m_vars, m_func>>
  BY DEF GenDecl, GenLeaf, At, tables, LeafKinds
<1>2. Cur.expr \in Expr
  BY <1>1, StmtFields
<1>3. LeafFine(prog, Before(prog, pc), Cur)
  <2>1. Before(prog, pc) \in BOOLEAN /\ (Before(prog, pc) => m_func # <<>>) /\ Tables
    BY <1>1 DEF LInv, Noted, GenPhases, Before
  <2> QED BY <1>1, <1>2, <2>1, LeafPasses
<1>4. Cur.kind \notin {"FUNC", "FOR", "IF", "WHILE"}
  BY <1>1 DEF LeafKinds, DeclKinds
<1>5. HeadFine(prog, pc) /\ StepFine(prog, pc) /\ ~HasParams(Cur)
  BY <1>3, <1>4 DEF HeadFine, StepFine, HasParams, Cur
<1> QED BY <1>1, <1>5, PassOne DEF GenPhases

LEMMA OpenLookup ==
  ASSUME TypeOK, LInv, OpenIf \/ OpenElse \/ OpenWhile \/ OpenFor
  PROVE  LInv'
<1>1. /\ phase = "gen" /\ More /\ Cur.kind \in {"IF", "ELSE", "WHILE", "FOR"}
      /\ pc' = pc + 1 /\ UNCHANGED <<prog, phase, m_vars, m_func>> /\ PushFrame(label)
  BY DEF OpenIf, OpenElse, OpenWhile, OpenFor, EnterBody, At
<1>2. /\ Cur.kind \in {"IF", "WHILE", "FOR"} => ~ExprFails(m_vars, Cur.expr)
      /\ Cur.kind = "FOR" => ~LeafFails(m_vars, Cur.init)
  BY DEF OpenIf, OpenElse, OpenWhile, OpenFor, At
<1>3. Cur.expr \in Expr /\ Cur.init.expr \in Expr
  BY <1>1, StmtFields, LeafFields
<1> DEFINE h == Before(prog, pc)
<1>4. h \in BOOLEAN /\ (h => m_func # <<>>) /\ Tables
  BY <1>1 DEF LInv, Noted, GenPhases, Before
<1> HIDE DEF h
<1>5. Cur.kind \in {"IF", "WHILE", "FOR"} => ExprFine(prog, h, Cur.expr)
  BY <1>2, <1>3, <1>4, ExprPasses
<1>6. Cur.kind = "FOR" => LeafFine(prog, h, Cur.init)
  BY <1>2, <1>3, <1>4, LeafPasses
<1>7. Cur.kind \notin LeafKinds \cup {"FUNC"}
  BY <1>1 DEF LeafKinds, DeclKinds
<1>8. HeadFine(prog, pc) /\ ~HasParams(Cur)
  BY <1>5, <1>6, <1>7 DEF HeadFine, HasParams, Cur, h
<1>9. OpenStmts(open) \subseteq OpenStmts(open') /\ Cur \in OpenStmts(open')
  BY <1>1, PushedStmt
<1> QED BY <1>1, <1>8, <1>9, PassOne DEF GenPhases

LEMMA FuncLookup ==
  ASSUME TypeOK, LInv, OpenFunc \/ GenParam \/ EnterFunc
  PROVE  LInv'
<1>1. CASE OpenFunc
  <2>1. /\ phase = "gen" /\ phase' = "params" /\ Cur.kind = "FUNC" /\ iter = 0
        /\ UNCHANGED <<prog, pc, iter, m_vars, m_func>> /\ PushFrame(label)
    BY <1>1 DEF OpenFunc, At, tables, TypeOK
  <2>2. OpenStmts(open) \subseteq OpenStmts(open')
    BY <2>1, PushedStmt
  <2>3. Noted' /\ Passed'
    BY <2>1, <2>2, Stay DEF GenPhases
  <2>4. Tables' /\ Places'
    BY <2>1 DEF LInv, Tables, Places, Cur
  <2> QED BY <2>3, <2>4 DEF LInv
<1>2. CASE GenParam
  <2> DEFINE q == Cur.params[iter + 1]
  <2>1. /\ phase = "params" /\ phase' = "params" /\ iter < Len(Cur.params) /\ iter \in Nat
        /\ m_vars' = EnsureVarSlot(m_vars, q.name, q.type)
        /\ m_func' = Append(m_func, [name |-> q.name, arg_types |-> <<q.type>>])
        /\ UNCHANGED <<prog, pc, open>>
    BY <1>2 DEF GenParam, NoteParam, TypeOK
  <2>2. /\ More /\ Cur.kind = "FUNC" /\ m_vars \in Seq(Var) /\ m_func \in Seq(Entry)
    BY <2>1 DEF LInv, Places, TypeOK
  <2>3. Cur.params \in Seq(Param) /\ iter + 1 \in DOMAIN Cur.params
    <3>1. Cur.params \in Seq(Param)
      BY <2>2, StmtFields
    <3> QED BY <2>1, <3>1
  <2>4. q \in Param
    BY <2>3
  <2>5. q.name \in DeclaredNames(prog)
    <3>1. prog \in Seq(Stmt) /\ pc \in 1..Len(prog)
      BY <2>2, PcType, ProgramsAssumption DEF TypeOK
    <3>2. \A i \in DOMAIN Cur.params : Cur.params[i].name \in DeclaredNames(prog)
      BY <2>2, <3>1, DeclaredHere, DeclaresOwn DEF Cur
    <3> QED BY <2>3, <3>2
  <2> HIDE DEF q
  <2>6. q.type \in Types
    BY <2>4 DEF Param
  <2>7. VarNames(m_vars') \subseteq DeclaredNames(prog)
    BY <2>1, <2>2, <2>5, EnsureNames DEF LInv, Tables
  <2>8. m_func' # <<>> /\ OneType(m_func')
    <3> DEFINE e == [name |-> q.name, arg_types |-> <<q.type>>]
    <3>1. e.arg_types = <<q.type>>
      OBVIOUS
    <3> HIDE DEF e
    <3>2. /\ m_func' = Append(m_func, e) /\ DOMAIN m_func' = 1..(Len(m_func) + 1)
          /\ m_func'[Len(m_func) + 1] = e /\ m_func' # <<>>
          /\ \A j \in 1..Len(m_func) : m_func'[j] = m_func[j]
      BY <2>1, <2>2 DEF e
    <3>3. OneType(m_func)
      BY DEF LInv, Tables
    <3>4. ASSUME NEW j \in DOMAIN m_func' PROVE \E t \in Types : m_func'[j].arg_types = <<t>>
      <4>1. CASE j = Len(m_func) + 1
        BY <2>6, <3>1, <3>2, <4>1
      <4>2. CASE j # Len(m_func) + 1
        <5>1. j \in DOMAIN m_func /\ m_func'[j] = m_func[j]
          BY <2>2, <3>2, <4>2
        <5> QED BY <3>3, <5>1 DEF OneType
      <4> QED BY <4>1, <4>2
    <3> QED BY <3>2, <3>4 DEF OneType
  <2>9. Noted' /\ Passed'
    BY <2>1, <2>8, Stay DEF GenPhases
  <2>10. Tables' /\ Places'
    BY <2>1, <2>2, <2>7, <2>8 DEF Tables, Places, Cur
  <2> QED BY <2>9, <2>10 DEF LInv
<1>3. CASE EnterFunc
  <2>1. /\ phase = "params" /\ phase' = "gen" /\ iter = Len(Cur.params) /\ pc' = pc + 1
        /\ UNCHANGED <<prog, open, m_vars, m_func>> /\ More /\ Cur.kind = "FUNC"
    BY <1>3 DEF EnterFunc, TypeOK, LInv, Places
  <2>2. HasParams(Cur) => m_func # <<>>
    <3>1. Cur.params \in Seq(Param)
      BY <2>1, StmtFields
    <3>2. Cur.params # <<>> => iter > 0
      BY <2>1, <3>1
    <3> QED BY <2>1, <3>2 DEF HasParams, LInv, Places
  <2>3. HeadFine(prog, pc) /\ StepFine(prog, pc)
    BY <2>1 DEF HeadFine, StepFine, Cur, LeafKinds, DeclKinds
  <2> QED BY <2>1, <2>2, <2>3, PassOne DEF GenPhases
<1> QED BY <1>1, <1>2, <1>3

LEMMA DeleteLookup ==
  ASSUME TypeOK, NoDupVars, LInv, StartDelete \/ DeleteVar
  PROVE  LInv'
<1>1. CASE StartDelete
  <2>1. /\ phase = "gen" /\ phase' = "delete" /\ Cur.kind = "END"
        /\ UNCHANGED <<prog, pc, open, m_vars, m_func>>
    BY <1>1 DEF StartDelete, At, tables
  <2>2. Noted' /\ Passed'
    BY <2>1, Stay DEF GenPhases
  <2>3. Tables' /\ Places'
    BY <2>1 DEF LInv, Tables, Places, Cur
  <2> QED BY <2>2, <2>3 DEF LInv
<1>2. CASE DeleteVar
  <2> DEFINE key == Last(m_block)[iter + 1]
  <2>1. /\ phase = "delete" /\ phase' = "delete" /\ key \in VarNames(m_vars)
        /\ m_vars' = ShiftOut(m_vars, EntryOf(m_vars, key))
        /\ UNCHANGED <<prog, pc, open, m_func>>
    BY <1>2 DEF DeleteVar
  <2> HIDE DEF key
  <2>2. EntryOf(m_vars, key) \in 1..Len(m_vars) /\ m_vars \in Seq(Var)
    BY <2>1, EntryOfProps DEF TypeOK, NoDupVars
  <2>3. VarNames(m_vars') \subseteq VarNames(m_vars)
    BY <2>1, <2>2, ShiftOutNames
  <2>4. Noted' /\ Passed'
    BY <2>1, Stay DEF GenPhases
  <2>5. Tables' /\ Places'
    BY <2>1, <2>3 DEF LInv, Tables, Places, Cur
  <2> QED BY <2>4, <2>5 DEF LInv
<1> QED BY <1>1, <1>2

(* The statement whose body closes is on top of the C stack.               *)
LEMMA CloseLookup ==
  ASSUME TypeOK, LInv, CloseIfElse \/ CloseWhile \/ CloseFunc \/ CloseFor
  PROVE  LInv'
<1>1. /\ phase = "delete" /\ phase' = "gen" /\ pc' = pc + 1 /\ PopFrame /\ More
      /\ UNCHANGED <<prog, m_vars, m_func>> /\ Cur.kind = "END" /\ open # <<>>
  BY DEF CloseIfElse, CloseWhile, CloseFunc, CloseFor, Closing, LeaveBody, TypeOK, LInv, Places
<1>2. Top.stmt.kind = "FOR" => ~LeafFails(m_vars, Top.stmt.step)
  BY DEF CloseIfElse, CloseWhile, CloseFunc, CloseFor, Closing
<1>3. Top.stmt.step.expr \in Expr
  BY <1>1, TopFrame, LeafFields
<1>4. ASSUME NEW k \in 1..(pc - 1), prog[k] = Top.stmt PROVE StepFine(prog, k)
  <2> SUFFICES ASSUME Top.stmt.kind = "FOR"
               PROVE  LeafFine(prog, Before(prog, k), Top.stmt.step)
    BY <1>4 DEF StepFine
  <2>1. Before(prog, k) => Before(prog, pc)
    <3>1. pc \in Nat
      BY <1>1, PcType
    <3> QED BY <3>1 DEF Before
  <2>2. Before(prog, k) \in BOOLEAN /\ (Before(prog, k) => m_func # <<>>) /\ Tables
    BY <1>1, <2>1 DEF LInv, Noted, GenPhases, Before
  <2> QED BY <1>2, <1>3, <2>2, LeafPasses
<1>5. \A k \in 1..(pc - 1) :
        prog[k] \in OpenStmts(open) => StepFine(prog, k) \/ prog[k] \in OpenStmts(open')
  BY <1>1, <1>4, PoppedStmt
<1>6. HeadFine(prog, pc) /\ StepFine(prog, pc) /\ ~HasParams(Cur)
  BY <1>1 DEF HeadFine, StepFine, HasParams, Cur, LeafKinds, DeclKinds
<1> QED BY <1>1, <1>5, <1>6, PassOne DEF GenPhases

LEMMA EndLookup ==
  ASSUME TypeOK, LInv, Finish \/ Exit \/ Crash \/ UNCHANGED vars
  PROVE  LInv'
<1>1. CASE Finish
  <2>1. /\ phase = "gen" /\ ~More /\ phase' = "done"
        /\ UNCHANGED <<prog, pc, open, m_vars, m_func>>
    BY <1>1 DEF Finish, Halt, tables
  <2>2. Noted' /\ Passed'
    BY <2>1, Stay DEF GenPhases
  <2>3. Tables' /\ Places'
    BY <2>1 DEF LInv, Tables, Places, More
  <2> QED BY <2>2, <2>3 DEF LInv
<1>2. CASE Exit \/ Crash
  <2>1. phase' \in {"exited", "crashed"} /\ UNCHANGED <<prog, m_vars, m_func>>
    BY <1>2 DEF Exit, Crash, Halt, tables
  <2> QED BY <2>1 DEF LInv, Tables, Places, Noted, Passed, GenPhases
<1>3. CASE UNCHANGED vars
  BY <1>3 DEF vars, tables, LInv, Tables, Places, Noted, Passed, Cur, More
<1> QED BY <1>1, <1>2, <1>3
-----------------------------------------------------------------------------
(* In every reachable state the statements passed are fine.                *)
THEOREM Lookups == Spec => []LInv
<1>1. Init => LInv
  <2> SUFFICES ASSUME Init PROVE LInv
    OBVIOUS
  <2>1. phase = "collect" /\ m_vars = <<>> /\ m_func = <<>>
    BY DEF Init
  <2>2. VarNames(m_vars) = {} /\ OneType(m_func)
    BY <2>1 DEF VarNames, OneType
  <2> QED BY <2>1, <2>2 DEF LInv, Tables, Places, Noted, Passed, GenPhases
<1>2. IInv /\ LInv /\ [Next]_vars => LInv'
  <2> SUFFICES ASSUME TypeOK, NoDupVars, LInv, [Next]_vars PROVE LInv'
    BY DEF IInv
  <2>1. CASE CollectVars \/ AssignSlots \/ NextPass
    BY <2>1, PassesLookup
  <2>2. CASE GenDecl \/ GenLeaf
    BY <2>2, LeafLookup
  <2>3. CASE OpenIf \/ OpenElse \/ OpenWhile \/ OpenFor
    BY <2>3, OpenLookup
  <2>4. CASE OpenFunc \/ GenParam \/ EnterFunc
    BY <2>4, FuncLookup
  <2>5. CASE StartDelete \/ DeleteVar
    BY <2>5, DeleteLookup
  <2>6. CASE CloseIfElse \/ CloseWhile \/ CloseFunc \/ CloseFor
    BY <2>6, CloseLookup
  <2>7. CASE Finish \/ Exit \/ Crash \/ UNCHANGED vars
    BY <2>7, EndLookup
  <2> QED BY <2>1, <2>2, <2>3, <2>4, <2>5, <2>6, <2>7 DEF Next, Step, Gen, Del, Terminated
<1> QED BY <1>1, <1>2, Invariance, PTL DEF Spec

(* When generation is over, every statement has been passed and every FOR  *)
(* has met its third part.                                                 *)
LEMMA AllFine ==
  ASSUME TypeOK, LInv, phase = "done", NEW k \in DOMAIN prog
  PROVE  HeadFine(prog, k) /\ StepFine(prog, k)
<1>1. prog \in Seq(Stmt) /\ open = <<>> /\ ~More /\ pc \in 1..(Len(prog) + 1)
  BY ProgramsAssumption DEF TypeOK, LInv, Places
<1>2. k \in 1..(pc - 1)
  BY <1>1 DEF More
<1>3. OpenStmts(open) = {}
  BY <1>1 DEF OpenStmts
<1> QED BY <1>2, <1>3 DEF LInv, Passed, GenPhases

(* A program that compiles uses only names it declares.                    *)
THEOREM NamesDeclared == Spec => []UsesDeclared
<1>1. TypeOK /\ LInv => UsesDeclared
  <2> SUFFICES ASSUME TypeOK, LInv, phase = "done", NEW k \in DOMAIN prog
               PROVE  Uses(prog[k]) \subseteq DeclaredNames(prog)
    BY DEF UsesDeclared
  <2>1. HeadFine(prog, k) /\ StepFine(prog, k)
    BY AllFine
  <2> DEFINE s == prog[k]
  <2>2. CASE s.kind \in LeafKinds
    <3>1. Uses(s) = LeafUses(s)
      BY <2>2 DEF Uses, LeafKinds, DeclKinds
    <3>2. LeafFine(prog, Before(prog, k), s)
      BY <2>1, <2>2 DEF HeadFine
    <3> QED BY <3>1, <3>2 DEF LeafFine
  <2>3. CASE s.kind \in {"IF", "WHILE"}
    <3>1. Uses(s) = ToSet(s.expr.uses)
      BY <2>3 DEF Uses, LeafKinds, DeclKinds
    <3> QED BY <2>1, <2>3, <3>1 DEF HeadFine, ExprFine
  <2>4. CASE s.kind = "FOR"
    <3>1. Uses(s) = LeafUses(s.init) \cup ToSet(s.expr.uses) \cup LeafUses(s.step)
      BY <2>4 DEF Uses, LeafKinds, DeclKinds
    <3> QED BY <2>1, <2>4, <3>1 DEF HeadFine, StepFine, ExprFine, LeafFine
  <2>5. CASE s.kind \notin LeafKinds \cup {"IF", "WHILE", "FOR"}
    <3>1. Uses(s) = {}
      BY <2>5 DEF Uses
    <3> QED BY <3>1
  <2> QED BY <2>2, <2>3, <2>4, <2>5
<1>2. Spec => []TypeOK
  BY TypeCorrect
<1> QED BY <1>1, <1>2, Lookups, PTL

(* Behind a function with parameters, a program that compiles calls with   *)
(* one integer only.                                                       *)
THEOREM CallsOfOne == Spec => []CallsTakeOne
<1>1. TypeOK /\ LInv => CallsTakeOne
  <2> SUFFICES ASSUME TypeOK, LInv, phase = "done", NEW i \in DOMAIN prog,
                      NEW k \in DOMAIN prog, i < k, HasParams(prog[i]),
                      NEW e \in Exprs(prog[k]), e.kind = "FUNC"
               PROVE  e.args = <<"int_lit">>
    BY DEF CallsTakeOne, CallArgs
  <2>1. HeadFine(prog, k) /\ StepFine(prog, k)
    BY AllFine
  <2>2. Before(prog, k)
    <3>1. prog \in Seq(Stmt)
      BY ProgramsAssumption DEF TypeOK
    <3>2. i \in 1..(k - 1)
      BY <3>1
    <3> QED BY <3>2 DEF Before
  <2> DEFINE s == prog[k]
  <2>3. CASE s.kind = "FOR"
    <3>1. e \in {s.init.expr, s.expr, s.step.expr}
      BY <2>3 DEF Exprs
    <3> QED BY <2>1, <2>2, <2>3, <3>1 DEF HeadFine, StepFine, LeafFine, ExprFine
  <2>4. CASE s.kind \in LeafKinds
    <3>1. e = s.expr
      BY <2>4 DEF Exprs, LeafKinds, DeclKinds
    <3> QED BY <2>1, <2>2, <2>4, <3>1 DEF HeadFine, LeafFine
  <2>5. CASE s.kind \in {"IF", "WHILE"}
    <3>1. e = s.expr
      BY <2>5 DEF Exprs, LeafKinds, DeclKinds
    <3> QED BY <2>1, <2>2, <2>5, <3>1 DEF HeadFine, ExprFine
  <2>6. CASE s.kind \notin LeafKinds \cup {"FOR", "IF", "WHILE"}
    BY <2>6 DEF Exprs
  <2> QED BY <2>3, <2>4, <2>5, <2>6
<1>2. Spec => []TypeOK
  BY TypeCorrect
<1> QED BY <1>1, <1>2, Lookups, PTL
-----------------------------------------------------------------------------
(* The depth of a listing.                                                 *)

Delta(s) == IF Opens(s) THEN 1 ELSE IF Closes(s) THEN -1 ELSE 0

(* An opener makes the next statement deeper, an END shallower.            *)
LEMMA DepthStep ==
  ASSUME NEW p, NEW k \in Nat \ {0}
  PROVE  /\ Depth(p, 1) = 0
         /\ Depth(p, k) \in Int
         /\ Depth(p, k + 1) = Depth(p, k) + Delta(p[k])
<1> DEFINE T == {i \in Nat : Opens(p[i])}
           U == {i \in Nat : Closes(p[i])}
<1>1. ASSUME NEW n \in Nat \ {0} PROVE Depth(p, n) = Surplus(T, U, n - 1)
  <2>1. {j \in 1..(n - 1) : Opens(p[j])} = {j \in 1..(n - 1) : j \in T}
    OBVIOUS
  <2>2. {j \in 1..(n - 1) : Closes(p[j])} = {j \in 1..(n - 1) : j \in U}
    OBVIOUS
  <2> HIDE DEF T, U
  <2> QED BY <2>1, <2>2 DEF Depth, Surplus
<1>2. ~(k \in T /\ k \in U)
  BY DEF Opens, Closes, OpenKinds
<1>3. (k \in T <=> Opens(p[k])) /\ (k \in U <=> Closes(p[k]))
  OBVIOUS
<1> HIDE DEF T, U
<1>4. Delta(p[k]) = IF k \in T THEN 1 ELSE IF k \in U THEN -1 ELSE 0
  BY <1>3 DEF Delta
<1>5. /\ 1 \in Nat \ {0} /\ k + 1 \in Nat \ {0} /\ 1 - 1 = 0 /\ (k + 1) - 1 = k
  OBVIOUS
<1>6. Depth(p, 1) = Surplus(T, U, 1 - 1) /\ Depth(p, k + 1) = Surplus(T, U, (k + 1) - 1) /\ Depth(p, k) = Surplus(T, U, k - 1)
  BY <1>1, <1>5
<1>7. /\ Surplus(T, U, 0) = 0 /\ Surplus(T, U, k - 1) \in Int
      /\ Surplus(T, U, k) = Surplus(T, U, k - 1) + Delta(p[k])
  BY <1>2, <1>4, SurplusStep
<1> QED BY <1>5, <1>6, <1>7
-----------------------------------------------------------------------------
(* The C stack.                                                            *)

Live == phase \notin {"exited", "crashed"}

(* The body of statement j is open at statement k.                         *)
Encloses(p, j, k) == \A i \in (j + 1)..k : Depth(p, i) > Depth(p, j)

(* The walk is as deep as the listing, except that a function has its      *)
(* frame while its parameters are saved, and the frames hold the           *)
(* statements whose bodies are open.                                       *)
DepthFollows ==
  /\ Len(open) = Depth(prog, pc) + (IF phase = "params" THEN 1 ELSE 0)
  /\ \A k \in 1..pc : Depth(prog, k) \in Nat
FramesFollow ==
  /\ \A j \in 1..(pc - 1) : Encloses(prog, j, pc) =>
       Depth(prog, j) < Len(open) /\ open[Depth(prog, j) + 1].stmt = prog[j]
  /\ phase = "params" => open[Len(open)].stmt = Cur

StackFollows == Live => DepthFollows /\ FramesFollow

(* What a step does to the place of the walk.                              *)
Pushes  == \E id \in Nat : PushFrame(id)
Passes  == /\ More /\ phase # "params" /\ phase' # "params" /\ prog' = prog /\ pc' = pc + 1
           /\ \/ Opens(Cur) /\ Pushes
              \/ Closes(Cur) /\ PopFrame
              \/ ~Opens(Cur) /\ ~Closes(Cur) /\ open' = open
Calls   == /\ More /\ phase = "gen" /\ phase' = "params" /\ UNCHANGED <<prog, pc>>
           /\ Opens(Cur) /\ Pushes
Enters  == /\ More /\ phase = "params" /\ phase' = "gen" /\ prog' = prog /\ pc' = pc + 1
           /\ Opens(Cur) /\ open' = open
Stays   == UNCHANGED <<prog, pc, open>> /\ (phase' = "params" <=> phase = "params")
Restart == pc' = 1 /\ open' = <<>> /\ phase' # "params"

LEMMA StepShape ==
  ASSUME TypeOK, LInv, [Next]_vars, Live'
  PROVE  Live /\ (Restart \/ Passes \/ Calls \/ Enters \/ Stays)
<1>0. label \in Nat /\ 0 \in Nat
  BY DEF TypeOK
<1>1. CASE CollectVars \/ AssignSlots
  <2>1. Live /\ More /\ phase \in {"collect", "assign"} /\ Walk
    BY <1>1 DEF CollectVars, AssignSlots, Live
  <2>2. Opens(Cur) => ~Closes(Cur)
    BY DEF Opens, Closes, OpenKinds
  <2> QED BY <1>0, <2>1, <2>2 DEF Walk, Passes, Pushes
<1>2. CASE NextPass
  BY <1>2 DEF NextPass, Restart, Live
<1>3. CASE GenDecl \/ GenLeaf
  <2>1. /\ Live /\ phase = "gen" /\ More /\ Cur.kind \in LeafKinds
        /\ pc' = pc + 1 /\ UNCHANGED <<prog, phase, open>>
    BY <1>3 DEF GenDecl, GenLeaf, At, Live, LeafKinds
  <2>2. ~Opens(Cur) /\ ~Closes(Cur)
    BY <2>1 DEF Opens, Closes, OpenKinds, LeafKinds, DeclKinds
  <2> QED BY <2>1, <2>2 DEF Passes
<1>4. CASE OpenIf \/ OpenElse \/ OpenWhile \/ OpenFor
  <2>1. /\ Live /\ phase = "gen" /\ More /\ Opens(Cur) /\ PushFrame(label)
        /\ pc' = pc + 1 /\ UNCHANGED <<prog, phase>>
    BY <1>4 DEF OpenIf, OpenElse, OpenWhile, OpenFor, EnterBody, At, Live, Opens, OpenKinds
  <2> QED BY <1>0, <2>1 DEF Passes, Pushes
<1>5. CASE OpenFunc
  <2>1. Opens(Cur)
    BY <1>5 DEF OpenFunc, At, Opens, OpenKinds
  <2> QED BY <1>0, <1>5, <2>1 DEF OpenFunc, At, Live, Calls, Pushes
<1>6. CASE EnterFunc
  <2>1. More /\ Opens(Cur)
    BY <1>6 DEF EnterFunc, TypeOK, LInv, Places, Opens, OpenKinds
  <2> QED BY <1>6, <2>1 DEF EnterFunc, Enters, Live
<1>7. CASE CloseIfElse \/ CloseWhile \/ CloseFunc \/ CloseFor
  <2>1. /\ Live /\ phase = "delete" /\ phase' = "gen" /\ PopFrame
        /\ pc' = pc + 1 /\ prog' = prog
    BY <1>7 DEF CloseIfElse, CloseWhile, CloseFunc, CloseFor, Closing, LeaveBody, Live
  <2>2. More /\ Closes(Cur)
    BY <2>1 DEF TypeOK, LInv, Places, Closes
  <2> QED BY <2>1, <2>2 DEF Passes
<1>8. CASE GenParam \/ StartDelete \/ DeleteVar \/ Finish
  BY <1>8 DEF GenParam, StartDelete, DeleteVar, Finish, Halt, At, Live, Stays
<1>9. CASE Exit \/ Crash
  BY <1>9 DEF Exit, Crash, Halt, Live
<1>10. CASE UNCHANGED vars
  BY <1>10 DEF vars, Live, Stays
<1> QED BY <1>1, <1>2, <1>3, <1>4, <1>5, <1>6, <1>7, <1>8, <1>9, <1>10
        DEF Next, Step, Gen, Del, Terminated

(* What encloses the next statement.                                       *)
LEMMA EnclosesNext ==
  ASSUME NEW p, NEW k \in Nat \ {0}, NEW j \in 1..k, Encloses(p, j, k + 1)
  PROVE  IF j = k THEN Opens(p[k]) ELSE j \in 1..(k - 1) /\ Encloses(p, j, k)
<1>1. Depth(p, k + 1) = Depth(p, k) + Delta(p[k]) /\ Depth(p, k) \in Int
  BY DepthStep
<1>2. k + 1 \in (j + 1)..(k + 1) /\ (j + 1)..k \subseteq (j + 1)..(k + 1)
  OBVIOUS
<1>3. CASE j = k
  BY <1>1, <1>2, <1>3 DEF Encloses, Delta
<1>4. CASE j # k
  BY <1>2, <1>4 DEF Encloses
<1> QED BY <1>3, <1>4

LEMMA StartFollows ==
  ASSUME NEW p, NEW k, k = 1, NEW o, o = <<>>
  PROVE  /\ Depth(p, k) = 0 /\ Len(o) = 0 /\ \A n \in 1..k : Depth(p, n) \in Nat
         /\ 1..(k - 1) = {}
<1>1. Depth(p, 1) = 0
  BY DepthStep
<1>2. 1..k = {1} /\ 1..(k - 1) = {} /\ Len(o) = 0
  OBVIOUS
<1> QED BY <1>1, <1>2

LEMMA FollowsNext ==
  ASSUME TypeOK, TypeOK', LInv, StackFollows, [Next]_vars
  PROVE  StackFollows'
<1> SUFFICES ASSUME Live' PROVE DepthFollows' /\ FramesFollow'
  BY DEF StackFollows
<1>1. Live /\ (Restart \/ Passes \/ Calls \/ Enters \/ Stays)
  BY StepShape
<1>2. DepthFollows /\ FramesFollow
  BY <1>1 DEF StackFollows
<1>3. pc \in Nat \ {0} /\ open \in Seq(Frm) /\ Len(open) \in Nat
  <2>1. prog \in Seq(Stmt)
    BY ProgramsAssumption DEF TypeOK
  <2>2. Len(prog) \in Nat /\ pc \in 1..(Len(prog) + 1) /\ open \in Seq(Frm)
    BY <2>1 DEF TypeOK
  <2> QED BY <2>2
<1>4. ASSUME NEW id \in Nat, More, PushFrame(id)
      PROVE  /\ Len(open') = Len(open) + 1 /\ open'[Len(open) + 1].stmt = Cur
             /\ \A n \in 1..Len(open) : open'[n] = open[n]
  <2>1. Len(open') = Len(open) + 1
    BY <1>4, PushedFrame
  <2> DEFINE f == [stmt |-> Cur, id |-> id]
  <2>2. f.stmt = Cur /\ open' = Append(open, f)
    BY <1>4 DEF PushFrame
  <2> HIDE DEF f
  <2> QED BY <1>3, <2>1, <2>2
<1>5. Depth(prog, pc) \in Int /\ Depth(prog, pc + 1) = Depth(prog, pc) + Delta(prog[pc])
  BY <1>3, DepthStep
<1>6. CASE Restart
  <2>1. /\ Depth(prog', pc') = 0 /\ Len(open') = 0 /\ \A n \in 1..pc' : Depth(prog', n) \in Nat
        /\ 1..(pc' - 1) = {} /\ phase' # "params"
    BY <1>6, StartFollows DEF Restart
  <2> QED BY <2>1 DEF DepthFollows, FramesFollow
<1>7. CASE Passes \/ Enters
  <2>1. /\ More /\ prog' = prog /\ pc' = pc + 1 /\ phase' # "params"
        /\ phase = "params" => Opens(Cur) /\ open' = open
        /\ phase # "params" => \/ Opens(Cur) /\ Pushes
                               \/ Closes(Cur) /\ PopFrame
                               \/ ~Opens(Cur) /\ ~Closes(Cur) /\ open' = open
    BY <1>7 DEF Passes, Enters
  <2>2. ~(Opens(Cur) /\ Closes(Cur))
    BY DEF Opens, Closes, OpenKinds
  <2>3. Pushes => /\ Len(open') = Len(open) + 1 /\ open'[Len(open) + 1].stmt = Cur
                  /\ \A n \in 1..Len(open) : open'[n] = open[n]
    BY <1>4, <2>1 DEF Pushes
  <2>4. PopFrame => /\ Len(open') = Len(open) - 1
                    /\ \A n \in 1..(Len(open) - 1) : open'[n] = open[n]
    BY <1>3, FrontLast DEF PopFrame
  <2>5. Len(open) = Depth(prog, pc) + (IF phase = "params" THEN 1 ELSE 0)
    BY <1>2 DEF DepthFollows
  <2>6. Depth(prog, pc + 1) = Depth(prog, pc) + (IF Opens(Cur) THEN 1 ELSE IF Closes(Cur) THEN -1 ELSE 0)
    BY <1>5 DEF Delta, Cur
  <2>7. Len(open') = Depth(prog, pc + 1)
    BY <1>3, <1>5, <2>1, <2>2, <2>3, <2>4, <2>5, <2>6
  <2>8. Opens(Cur) => /\ open'[Depth(prog, pc) + 1].stmt = Cur
                      /\ Depth(prog, pc) < Len(open')
    <3>1. CASE phase = "params"
      <4>1. open[Len(open)].stmt = Cur
        BY <1>2, <3>1 DEF FramesFollow
      <4> QED BY <1>3, <1>5, <2>1, <2>5, <3>1, <4>1
    <3>2. CASE phase # "params"
      BY <1>3, <1>5, <2>1, <2>2, <2>3, <2>5, <3>2
    <3> QED BY <3>1, <3>2
  <2>9. ASSUME NEW n \in 1..Len(open), n <= Len(open') PROVE open'[n] = open[n]
    BY <1>3, <2>1, <2>3, <2>4, <2>9
  <2>10. DepthFollows'
    <3>1. ASSUME NEW k \in 1..(pc + 1) PROVE Depth(prog, k) \in Nat
      <4>1. CASE k = pc + 1
        <5>1. Len(open') \in Nat
          BY DEF TypeOK
        <5> QED BY <2>7, <4>1, <5>1
      <4>2. CASE k # pc + 1
        <5>1. k \in 1..pc
          BY <1>3, <4>2
        <5> QED BY <1>2, <5>1 DEF DepthFollows
      <4> QED BY <4>1, <4>2
    <3> QED BY <1>3, <2>1, <2>7, <3>1 DEF DepthFollows
  <2>11. ASSUME NEW j \in 1..pc, Encloses(prog, j, pc + 1)
         PROVE  Depth(prog, j) < Len(open') /\ open'[Depth(prog, j) + 1].stmt = prog[j]
    <3>1. IF j = pc THEN Opens(prog[pc]) ELSE j \in 1..(pc - 1) /\ Encloses(prog, j, pc)
      BY <1>3, <2>11, EnclosesNext
    <3>2. CASE j = pc
      BY <2>8, <3>1, <3>2 DEF Cur
    <3>3. CASE j # pc
      <4>1. Depth(prog, j) < Len(open) /\ open[Depth(prog, j) + 1].stmt = prog[j]
        BY <1>2, <3>1, <3>3 DEF FramesFollow
      <4>2. Depth(prog, j) \in Nat
        BY <1>2, <1>3 DEF DepthFollows
      <4>3. Depth(prog, j) < Len(open')
        <5>1. pc + 1 \in (j + 1)..(pc + 1)
          BY <1>3
        <5> QED BY <2>7, <2>11, <5>1 DEF Encloses
      <4>4. Depth(prog, j) + 1 \in 1..Len(open) /\ Depth(prog, j) + 1 <= Len(open')
        BY <1>3, <4>1, <4>2, <4>3, <1>5, <2>7
      <4> QED BY <2>9, <4>1, <4>3, <4>4
    <3> QED BY <3>2, <3>3
  <2>12. FramesFollow'
    <3>1. (pc + 1) - 1 = pc
      BY <1>3
    <3> QED BY <2>1, <2>11, <3>1 DEF FramesFollow
  <2> QED BY <2>10, <2>12
<1>8. CASE Calls
  <2>1. /\ prog' = prog /\ pc' = pc /\ Cur' = Cur /\ phase' = "params" /\ phase # "params"
        /\ Len(open') = Len(open) + 1 /\ open'[Len(open) + 1].stmt = Cur
        /\ \A n \in 1..Len(open) : open'[n] = open[n]
    BY <1>4, <1>8 DEF Calls, Pushes, Cur
  <2>2. DepthFollows'
    BY <1>2, <1>3, <1>5, <2>1 DEF DepthFollows
  <2>3. ASSUME NEW j \in 1..(pc - 1), Encloses(prog, j, pc)
        PROVE  Depth(prog, j) < Len(open') /\ open'[Depth(prog, j) + 1].stmt = prog[j]
    <3>1. Depth(prog, j) < Len(open) /\ open[Depth(prog, j) + 1].stmt = prog[j]
      BY <1>2, <2>3 DEF FramesFollow
    <3>2. Depth(prog, j) \in Nat
      BY <1>2, <1>3 DEF DepthFollows
    <3>3. Depth(prog, j) + 1 \in 1..Len(open)
      BY <1>3, <3>1, <3>2
    <3> QED BY <1>3, <2>1, <3>1, <3>2, <3>3
  <2> QED BY <2>1, <2>2, <2>3 DEF FramesFollow
<1>9. CASE Stays
  BY <1>2, <1>9 DEF Stays, DepthFollows, FramesFollow, Cur
<1> QED BY <1>1, <1>6, <1>7, <1>8, <1>9

(* In every reachable state the C stack of the walk holds the statements   *)
(* whose bodies are open at the place it has reached.                      *)
THEOREM StackOfBodies == Spec => []StackFollows
<1>1. Init => StackFollows
  <2> SUFFICES ASSUME Init PROVE StackFollows
    OBVIOUS
  <2>1. pc = 1 /\ open = <<>> /\ phase = "collect"
    BY DEF Init
  <2>2. /\ Depth(prog, pc) = 0 /\ Len(open) = 0 /\ \A n \in 1..pc : Depth(prog, n) \in Nat
        /\ 1..(pc - 1) = {}
    BY <2>1, StartFollows
  <2> QED BY <2>1, <2>2 DEF StackFollows, DepthFollows, FramesFollow
<1>2. TypeOK /\ TypeOK' /\ LInv /\ StackFollows /\ [Next]_vars => StackFollows'
  BY FollowsNext
<1>3. Spec => []TypeOK /\ []LInv
  BY TypeCorrect, Lookups
<1> QED BY <1>1, <1>2, <1>3, PTL DEF Spec
-----------------------------------------------------------------------------
(* How the table changes.                                                  *)

(* ws is vs with entries of names of D behind it.                          *)
Grown(vs, ws, D) ==
  /\ Len(vs) <= Len(ws)
  /\ \A i \in 1..Len(vs) : ws[i] = vs[i]
  /\ \A i \in (Len(vs) + 1)..Len(ws) : ws[i].name \in D

LEMMA EnsureGrows ==
  ASSUME NEW vs \in Seq(Var), NEW x, NEW t, NEW D, x \in D
  PROVE  Grown(vs, EnsureVarSlot(vs, x, t), D)
<1>1. CASE x \in VarNames(vs)
  BY <1>1 DEF EnsureVarSlot, Grown
<1>2. CASE x \notin VarNames(vs)
  <2> DEFINE v == [name |-> x, type |-> t]
  <2>1. EnsureVarSlot(vs, x, t) = Append(vs, v) /\ v.name = x
    BY <1>2 DEF EnsureVarSlot
  <2> HIDE DEF v
  <2> QED BY <2>1 DEF Grown
<1> QED BY <1>1, <1>2

LEMMA EnsureDeclGrows ==
  ASSUME NEW vs \in Seq(Var), NEW s, NEW D, s.kind \in DeclKinds => s.name \in D
  PROVE  Grown(vs, EnsureDecl(vs, s), D)
<1>1. CASE s.kind \in DeclKinds
  BY <1>1, EnsureGrows DEF EnsureDecl
<1>2. CASE s.kind \notin DeclKinds
  BY <1>2 DEF EnsureDecl, Grown
<1> QED BY <1>1, <1>2

LEMMA GrownTwice ==
  ASSUME NEW vs \in Seq(Var), NEW ws \in Seq(Var), NEW us \in Seq(Var), NEW D,
         Grown(vs, ws, D), Grown(ws, us, D)
  PROVE  Grown(vs, us, D)
<1>1. Len(vs) \in Nat /\ Len(ws) \in Nat /\ Len(us) \in Nat
  OBVIOUS
<1>2. ASSUME NEW i \in (Len(vs) + 1)..Len(us) PROVE us[i].name \in D
  <2>1. i \in (Len(vs) + 1)..Len(ws) \/ i \in (Len(ws) + 1)..Len(us)
    BY <1>1
  <2>2. i \in (Len(vs) + 1)..Len(ws) => i \in 1..Len(ws)
    BY <1>1
  <2> QED BY <2>1, <2>2 DEF Grown
<1>3. ASSUME NEW i \in 1..Len(vs) PROVE us[i] = vs[i]
  <2>1. i \in 1..Len(ws)
    BY <1>1 DEF Grown
  <2> QED BY <2>1 DEF Grown
<1> QED BY <1>1, <1>2, <1>3 DEF Grown

(* What was in the table keeps its entry, what is new comes behind it.     *)
LEMMA GrownFacts ==
  ASSUME NEW vs \in Seq(Var), NEW ws \in Seq(Var), Distinct(vs), Distinct(ws), NEW D,
         Grown(vs, ws, D)
  PROVE  /\ VarNames(vs) \subseteq VarNames(ws) /\ VarNames(ws) \subseteq VarNames(vs) \cup D
         /\ \A x \in VarNames(vs) : EntryOf(ws, x) = EntryOf(vs, x)
         /\ \A x \in VarNames(vs), y \in VarNames(ws) \ VarNames(vs) :
              EntryOf(ws, x) < EntryOf(ws, y)
<1>1. Len(vs) \in Nat /\ Len(ws) \in Nat /\ Len(vs) <= Len(ws)
  BY DEF Grown
<1>2. ASSUME NEW x \in VarNames(vs)
      PROVE  x \in VarNames(ws) /\ EntryOf(ws, x) = EntryOf(vs, x) /\ EntryOf(vs, x) \in 1..Len(vs)
  <2>1. EntryOf(vs, x) \in 1..Len(vs) /\ vs[EntryOf(vs, x)].name = x
    BY EntryOfProps
  <2>2. EntryOf(vs, x) \in DOMAIN ws /\ ws[EntryOf(vs, x)].name = x
    BY <1>1, <2>1 DEF Grown
  <2>3. x \in VarNames(ws)
    BY <2>2 DEF VarNames
  <2>4. EntryOf(ws, x) \in DOMAIN ws /\ ws[EntryOf(ws, x)].name = x
    BY <2>3, EntryOfProps
  <2>5. EntryOf(ws, x) = EntryOf(vs, x)
    BY <2>2, <2>4 DEF Distinct
  <2> QED BY <2>1, <2>3, <2>5
<1>3. ASSUME NEW y \in VarNames(ws), y \notin VarNames(vs)
      PROVE  y \in D /\ EntryOf(ws, y) \in (Len(vs) + 1)..Len(ws)
  <2>1. EntryOf(ws, y) \in 1..Len(ws) /\ ws[EntryOf(ws, y)].name = y
    BY EntryOfProps
  <2>2. EntryOf(ws, y) \notin 1..Len(vs)
    BY <1>3, <2>1 DEF Grown, VarNames
  <2>3. EntryOf(ws, y) \in (Len(vs) + 1)..Len(ws)
    BY <1>1, <2>1, <2>2
  <2> QED BY <2>1, <2>3 DEF Grown
<1>4. ASSUME NEW x \in VarNames(vs), NEW y \in VarNames(ws) \ VarNames(vs)
      PROVE  EntryOf(ws, x) < EntryOf(ws, y)
  BY <1>1, <1>2, <1>3
<1>5. VarNames(ws) \subseteq VarNames(vs) \cup D
  BY <1>3
<1> QED BY <1>2, <1>4, <1>5

(* The steps that insert: they insert what the current statement declares. *)
Inserts == /\ More /\ phase \in {"collect", "assign", "params"} /\ UNCHANGED <<prog, phase>>
           /\ phase \in {"collect", "assign"} => Reached({"IF", "FUNC", "FOR"})
           /\ Grown(m_vars, m_vars', ToSet(Declares(Cur)))

LEMMA TableStep ==
  ASSUME TypeOK, NoDupVars, LInv, [Next]_vars
  PROVE  m_vars' = m_vars \/ Inserts \/ DeleteVar
<1> DEFINE D == ToSet(Declares(Cur))
<1>1. m_vars \in Seq(Var) /\ Distinct(m_vars)
  BY DEF TypeOK, NoDupVars
<1>2. CASE CollectVars \/ AssignSlots
  <2>1. More /\ phase \in {"collect", "assign"} /\ prog' = prog /\ phase' = phase
    BY <1>2 DEF CollectVars, AssignSlots, Walk
  <2>2. Cur.name \in Names /\ Cur.init.name \in Names /\ Cur.step.name \in Names
    BY <2>1, StmtFields, LeafFields
  <2>3. /\ Cur.kind \in DeclKinds => Cur.name \in D
        /\ Cur.kind = "FOR" => /\ Cur.init.kind \in DeclKinds => Cur.init.name \in D
                               /\ Cur.step.kind \in DeclKinds => Cur.step.name \in D
    BY DeclaresOwn
  <2> DEFINE one == EnsureDecl(m_vars, Cur.init)
             two == EnsureDecl(one, Cur.step)
  <2>4. Grown(m_vars, EnsureDecl(m_vars, Cur), D)
    BY <1>1, <2>3, EnsureDeclGrows
  <2>5. Cur.kind = "FOR" => Grown(m_vars, one, D) /\ one \in Seq(Var) /\ Distinct(one)
    BY <1>1, <2>2, <2>3, EnsureDeclGrows, EnsureDeclProps
  <2>6. Cur.kind = "FOR" => Grown(one, two, D) /\ two \in Seq(Var)
    BY <2>2, <2>3, <2>5, EnsureDeclGrows, EnsureDeclProps
  <2>7. Cur.kind = "FOR" => Grown(m_vars, two, D)
    BY <1>1, <2>5, <2>6, GrownTwice
  <2>8. \/ m_vars' = m_vars
        \/ Reached({"IF", "FUNC", "FOR"}) /\ Grown(m_vars, m_vars', D)
    <3>1. Reached({"IF"}) => Reached({"IF", "FUNC", "FOR"})
      BY DEF Reached
    <3> HIDE DEF D, one
    <3> QED BY <1>2, <2>4, <2>5, <2>7, <3>1 DEF CollectVars, AssignSlots, one
  <2> QED BY <2>1, <2>8 DEF Inserts
<1>3. CASE GenParam
  <2>1. More /\ phase = "params" /\ prog' = prog /\ phase' = phase /\ Cur.kind = "FUNC"
    BY <1>3 DEF GenParam, TypeOK, LInv, Places
  <2>2. iter + 1 \in DOMAIN Cur.params
    <3>1. Cur.params \in Seq(Param) /\ iter \in Nat /\ iter < Len(Cur.params)
      BY <1>3, <2>1, StmtFields DEF GenParam, TypeOK
    <3> QED BY <3>1
  <2>3. Cur.params[iter + 1].name \in D
    BY <2>1, <2>2, DeclaresOwn
  <2>4. m_vars' = EnsureVarSlot(m_vars, Cur.params[iter + 1].name, Cur.params[iter + 1].type)
    BY <1>3 DEF GenParam
  <2>5. Grown(m_vars, m_vars', D)
    BY <1>1, <2>3, <2>4, EnsureGrows
  <2> QED BY <2>1, <2>5 DEF Inserts
<1>4. CASE NextPass \/ GenDecl \/ GenLeaf \/ OpenIf \/ OpenElse \/ OpenWhile \/ OpenFor
  BY <1>4 DEF NextPass, tables, GenDecl, GenLeaf, OpenIf, OpenElse, OpenWhile, OpenFor, EnterBody
<1>5. CASE OpenFunc \/ EnterFunc \/ StartDelete \/ Finish \/ Exit \/ Crash \/ UNCHANGED vars
  BY <1>5 DEF OpenFunc, EnterFunc, StartDelete, Finish, Exit, Crash, Halt, vars, tables
<1>6. CASE CloseIfElse \/ CloseWhile \/ CloseFunc \/ CloseFor
  BY <1>6 DEF CloseIfElse, CloseWhile, CloseFunc, CloseFor, LeaveBody
<1> QED BY <1>2, <1>3, <1>4, <1>5, <1>6 DEF Next, Step, Gen, Del, Terminated
-----------------------------------------------------------------------------
(* What has been entered.                                                  *)

EnteredNames(p) == UNION {ToSet(Declares(p[i])) : i \in {k \in DOMAIN p : ~Unentered(p, k)}}

(* Unless bodies have been nested, none is inside another one, the table   *)
(* holds names of entered bodies, and the declarations passed were found   *)
(* in it.                                                                  *)
FlatBodies   == phase \in GenPhases /\ ~nested => \A k \in 1..pc : Depth(prog, k) <= 1
NamesEntered == Live /\ ~nested => VarNames(m_vars) \subseteq EnteredNames(prog)
DeclsEntered ==
  phase \in GenPhases /\ ~nested =>
    \A k \in 1..(pc - 1) : prog[k].kind \in DeclKinds => prog[k].name \in EnteredNames(prog)

EnteredInv == FlatBodies /\ NamesEntered /\ DeclsEntered

(* The history variable and the passes run one way only.                   *)
LEMMA StepHistory ==
  ASSUME TypeOK, [Next]_vars, Live'
  PROVE  \/ /\ Restart
            /\ phase' \in {"collect", "assign", "gen"}
            /\ UNCHANGED <<prog, m_vars, nested>> /\ Live
         \/ /\ phase' \in GenPhases => phase \in GenPhases
            /\ ~nested' => ~nested
            /\ prog' = prog /\ Live
<1> USE DEF Live, GenPhases
<1>0. nested \in BOOLEAN
  BY DEF TypeOK
<1>1. CASE CollectVars \/ AssignSlots
  BY <1>1 DEF CollectVars, AssignSlots, Walk
<1>2. CASE NextPass
  BY <1>2 DEF NextPass, Restart, tables
<1>3. CASE GenDecl \/ GenLeaf \/ OpenFunc \/ GenParam \/ EnterFunc
  BY <1>0, <1>3 DEF GenDecl, GenLeaf, At, OpenFunc, GenParam, EnterFunc
<1>4. CASE OpenIf \/ OpenElse \/ OpenWhile \/ OpenFor
  BY <1>0, <1>4 DEF OpenIf, OpenElse, OpenWhile, OpenFor, EnterBody, At
<1>5. CASE StartDelete \/ DeleteVar \/ Finish
  BY <1>5 DEF StartDelete, DeleteVar, Finish, Halt, At
<1>6. CASE CloseIfElse \/ CloseWhile \/ CloseFunc \/ CloseFor
  BY <1>6 DEF CloseIfElse, CloseWhile, CloseFunc, CloseFor, LeaveBody, Closing
<1>7. CASE Exit \/ Crash
  BY <1>7 DEF Exit, Crash, Halt
<1>8. CASE UNCHANGED vars
  BY <1>8 DEF vars, tables
<1> QED BY <1>1, <1>2, <1>3, <1>4, <1>5, <1>6, <1>7, <1>8 DEF Next, Step, Gen, Del, Terminated

LEMMA FewBodies ==
  ASSUME IInv, StackFollows, phase \in GenPhases, ~nested
  PROVE  /\ Len(open) \in {0, 1} /\ Depth(prog, pc) <= 1
         /\ phase = "params" => Depth(prog, pc) = 0
<1>1. Len(open) \in Nat /\ Len(open) <= 1
  <2>1. Rows = Len(open) /\ Rows <= 1
    BY DEF IInv, RowsFollowBodies, GenPhases
  <2> QED BY <2>1 DEF IInv, TypeOK
<1>2. pc \in 1..pc
  BY DEF IInv, TypeOK
<1>3. Len(open) = Depth(prog, pc) + (IF phase = "params" THEN 1 ELSE 0) /\ Depth(prog, pc) \in Nat
  BY <1>2 DEF StackFollows, Live, GenPhases, DepthFollows
<1> QED BY <1>1, <1>3

(* A statement whose names are inserted is entered.                        *)
LEMMA InsertsEntered ==
  ASSUME IInv, StackFollows, FlatBodies, ~nested, Inserts
  PROVE  ~Unentered(prog, pc)
<1> SUFFICES ASSUME NEW j \in 1..(pc - 1), prog[j].kind \in {"ELSE", "WHILE"}, Encloses(prog, j, pc)
             PROVE  FALSE
  BY DEF Unentered, Encloses
<1>1. pc \in Nat /\ open \in Seq(Frm)
  <2>1. pc \in 1..Len(prog)
    BY PcType DEF IInv, Inserts
  <2> QED BY <2>1 DEF IInv, TypeOK
<1>2. /\ Depth(prog, j) \in Nat /\ Depth(prog, pc) \in Nat
      /\ Depth(prog, j) < Len(open) /\ open[Depth(prog, j) + 1].stmt = prog[j]
  BY <1>1 DEF StackFollows, DepthFollows, FramesFollow, Live, Inserts
<1>3. CASE phase \in {"collect", "assign"}
  <2>1. Depth(prog, j) + 1 \in DOMAIN open
    BY <1>1, <1>2
  <2>2. prog[j].kind \in {"IF", "FUNC", "FOR"}
    BY <1>2, <1>3, <2>1 DEF Inserts, Reached
  <2> QED BY <2>2
<1>4. CASE phase = "params"
  <2>1. Depth(prog, pc) = 0
    BY <1>4, FewBodies DEF GenPhases
  <2>2. Depth(prog, pc) > Depth(prog, j)
    BY <1>1 DEF Encloses
  <2> QED BY <1>2, <2>1, <2>2
<1> QED BY <1>3, <1>4 DEF Inserts

(* A declaration is passed by handle_vars only.                            *)
LEMMA DeclPasses ==
  ASSUME TypeOK, LInv, [Next]_vars, phase \in GenPhases, pc' = pc + 1, Cur.kind \in DeclKinds
  PROVE  GenDecl
<1> USE DEF GenPhases
<1>0. pc \in Nat \ {0} /\ pc + 1 # 1 /\ pc + 1 # pc
  <2>1. prog \in Seq(Stmt)
    BY ProgramsAssumption DEF TypeOK
  <2>2. pc \in 1..(Len(prog) + 1) /\ Len(prog) \in Nat
    BY <2>1 DEF TypeOK
  <2> QED BY <2>2
<1>1. ~(CollectVars \/ AssignSlots \/ NextPass)
  BY <1>0 DEF CollectVars, AssignSlots, NextPass
<1>2. ~(GenLeaf \/ OpenIf \/ OpenElse \/ OpenWhile \/ OpenFor \/ OpenFunc)
  BY DEF GenLeaf, OpenIf, OpenElse, OpenWhile, OpenFor, OpenFunc, At, DeclKinds
<1>3. ~(EnterFunc \/ CloseIfElse \/ CloseWhile \/ CloseFunc \/ CloseFor)
  BY DEF EnterFunc, CloseIfElse, CloseWhile, CloseFunc, CloseFor, Closing, LInv, Places, DeclKinds
<1>4. ~(GenParam \/ StartDelete \/ DeleteVar \/ Finish \/ Exit \/ Crash \/ UNCHANGED vars)
  BY <1>0 DEF GenParam, StartDelete, DeleteVar, Finish, Exit, Crash, Halt, vars
<1> QED BY <1>1, <1>2, <1>3, <1>4 DEF Next, Step, Gen, Del, Terminated

LEMMA FlatNext ==
  ASSUME IInv, IInv', StackFollows', FlatBodies, LInv, [Next]_vars
  PROVE  FlatBodies'
<1> SUFFICES ASSUME phase' \in GenPhases, ~nested', NEW k \in 1..pc'
             PROVE  Depth(prog', k) <= 1
  BY DEF FlatBodies
<1>0. Live'
  BY DEF Live, GenPhases
<1>1. Depth(prog', pc') <= 1
  <2>1. Len(open') \in Nat /\ Len(open') <= 1
    <3>1. Rows' = Len(open') /\ Rows' <= 1
      BY DEF IInv, RowsFollowBodies, GenPhases
    <3> QED BY <3>1 DEF IInv, TypeOK
  <2>2. Len(open') = Depth(prog', pc') + (IF phase' = "params" THEN 1 ELSE 0)
    BY <1>0 DEF StackFollows, DepthFollows
  <2>3. Depth(prog', pc') \in Int
    <3>1. pc' \in Nat \ {0}
      BY DEF IInv, TypeOK
    <3> QED BY <3>1, DepthStep
  <2> QED BY <2>1, <2>2, <2>3
<1>2. CASE k = pc'
  BY <1>1, <1>2
<1>3. CASE k # pc'
  <2>1. ~Restart
    BY <1>3 DEF Restart
  <2>2. phase \in GenPhases /\ ~nested /\ prog' = prog
    BY <1>0, <2>1, StepHistory DEF IInv
  <2>3. pc' = pc \/ pc' = pc + 1
    BY <1>0, <2>1, StepShape DEF IInv, Passes, Calls, Enters, Stays
  <2>4. pc \in Nat
    BY DEF IInv, TypeOK
  <2>5. k \in 1..pc
    BY <1>3, <2>3, <2>4
  <2> QED BY <2>2, <2>5 DEF FlatBodies
<1> QED BY <1>2, <1>3

LEMMA EnteredNext ==
  ASSUME IInv, IInv', LInv, StackFollows, StackFollows', EnteredInv, [Next]_vars
  PROVE  EnteredInv'
<1>a. FlatBodies'
  BY FlatNext DEF EnteredInv
<1>b. m_vars \in Seq(Var) /\ Distinct(m_vars) /\ m_vars' \in Seq(Var) /\ Distinct(m_vars')
  BY DEF IInv, TypeOK, NoDupVars
<1>c. m_vars' = m_vars \/ Inserts \/ DeleteVar
  BY TableStep DEF IInv
<1>1. NamesEntered'
  <2> SUFFICES ASSUME Live', ~nested' PROVE VarNames(m_vars') \subseteq EnteredNames(prog')
    BY DEF NamesEntered
  <2>1. prog' = prog /\ ~nested /\ Live
    BY StepHistory DEF IInv
  <2>2. VarNames(m_vars) \subseteq EnteredNames(prog)
    BY <2>1 DEF EnteredInv, NamesEntered
  <2>3. CASE Inserts
    <3>1. ~Unentered(prog, pc) /\ pc \in DOMAIN prog
      BY <2>1, <2>3, InsertsEntered, PcType DEF EnteredInv, Inserts, IInv
    <3>2. ToSet(Declares(prog[pc])) \subseteq EnteredNames(prog)
      BY <3>1 DEF EnteredNames
    <3>3. VarNames(m_vars') \subseteq VarNames(m_vars) \cup ToSet(Declares(Cur))
      BY <1>b, <2>3, GrownFacts DEF Inserts
    <3> QED BY <2>1, <2>2, <3>2, <3>3 DEF Cur
  <2>4. CASE DeleteVar
    <3>1. PICK key \in VarNames(m_vars) : m_vars' = ShiftOut(m_vars, EntryOf(m_vars, key))
      BY <2>4 DEF DeleteVar
    <3>2. EntryOf(m_vars, key) \in 1..Len(m_vars)
      BY <1>b, EntryOfProps
    <3>3. VarNames(m_vars') \subseteq VarNames(m_vars)
      BY <1>b, <3>1, <3>2, ShiftOutNames
    <3> QED BY <2>1, <2>2, <3>3
  <2> QED BY <1>c, <2>1, <2>2, <2>3, <2>4
<1>2. DeclsEntered'
  <2> SUFFICES ASSUME phase' \in GenPhases, ~nested', NEW k \in 1..(pc' - 1),
                      prog'[k].kind \in DeclKinds
               PROVE  prog'[k].name \in EnteredNames(prog')
    BY DEF DeclsEntered
  <2>1. Live' /\ ~Restart
    BY DEF Live, GenPhases, Restart
  <2>2. phase \in GenPhases /\ ~nested /\ prog' = prog
    BY <2>1, StepHistory DEF IInv
  <2>3. pc' = pc \/ pc' = pc + 1
    BY <2>1, StepShape DEF IInv, Passes, Calls, Enters, Stays
  <2>4. pc \in Nat
    BY DEF IInv, TypeOK
  <2>5. CASE k \in 1..(pc - 1)
    BY <2>2, <2>5 DEF EnteredInv, DeclsEntered
  <2>6. CASE k = pc /\ pc' = pc + 1
    <3>1. Cur.kind \in DeclKinds
      BY <2>2, <2>6 DEF Cur
    <3>2. Cur.name \in VarNames(m_vars)
      <4>1. GenDecl
        BY <2>2, <2>6, <3>1, DeclPasses DEF IInv
      <4> QED BY <3>1, <4>1 DEF GenDecl, LeafFails
    <3>3. VarNames(m_vars) \subseteq EnteredNames(prog)
      BY <2>1, <2>2 DEF EnteredInv, NamesEntered, Live, GenPhases
    <3> QED BY <2>2, <2>6, <3>2, <3>3 DEF Cur
  <2> QED BY <2>3, <2>4, <2>5, <2>6
<1> QED BY <1>a, <1>1, <1>2 DEF EnteredInv

LEMMA EnteredInit == Init => EnteredInv
<1> SUFFICES ASSUME Init PROVE EnteredInv
  OBVIOUS
<1>1. phase = "collect" /\ m_vars = <<>>
  BY DEF Init
<1>2. VarNames(m_vars) = {}
  BY <1>1 DEF VarNames
<1> QED BY <1>1, <1>2 DEF EnteredInv, FlatBodies, NamesEntered, DeclsEntered, GenPhases

(* Until bodies are nested, the table holds names of entered bodies only.  *)
THEOREM Entered == Spec => []EnteredInv
<1>1. IInv /\ IInv' /\ LInv /\ StackFollows /\ StackFollows' /\ EnteredInv /\ [Next]_vars
        => EnteredInv'
  BY EnteredNext
<1> QED BY <1>1, EnteredInit, Invariance, Lookups, StackOfBodies, PTL DEF Spec

(* A compiled program declares a name in the body of an ELSE or a WHILE    *)
(* only if a statement that a pass visits declares the name as well:       *)
(* generate_gen_data otherwise finds no slot for it and ends the process.  *)
THEOREM ElseWhileRefused == Spec => []EnteredOrRefused
<1>1. IInv /\ LInv /\ EnteredInv /\ NoNestedBlockCompiles => EnteredOrRefused
  <2> SUFFICES ASSUME IInv, LInv, EnteredInv, NoNestedBlockCompiles, phase = "done",
                      NEW k \in DOMAIN prog, prog[k].kind \in DeclKinds
               PROVE  \E i \in DOMAIN prog :
                        ~Unentered(prog, i) /\ prog[k].name \in ToSet(Declares(prog[i]))
    BY DEF EnteredOrRefused
  <2>1. prog \in Seq(Stmt) /\ pc \in 1..(Len(prog) + 1) /\ ~(pc <= Len(prog)) /\ ~nested
    BY ProgramsAssumption DEF IInv, TypeOK, LInv, Places, More, NoNestedBlockCompiles
  <2>2. k \in 1..(pc - 1)
    BY <2>1
  <2>3. prog[k].name \in EnteredNames(prog)
    BY <2>1, <2>2 DEF EnteredInv, DeclsEntered, GenPhases
  <2> QED BY <2>3 DEF EnteredNames
<1> QED BY <1>1, Invariance, Lookups, Entered, NestingRejected, PTL
-----------------------------------------------------------------------------
(* Labels and jumps.                                                       *)

(* Targets of a tag and a number, and scopes, in an assembly text o.       *)
LabelsAt(o, t)  == {j \in DOMAIN o : o[j].op = "label" /\ <<o[j].tag, o[j].id>> = t}
NonLocalIn(o, j) == \/ o[j].op = "func"
                    \/ o[j].op = "label" /\ o[j].tag \in {"_start", "placeholder"}
Uncut(o, a)     == \A j \in (a + 1)..Len(o) : ~NonLocalIn(o, j)
OneScope(o, i, j) == \A k \in 1..Len(o) : NonLocalIn(o, k) => (k <= i <=> k <= j)

(* A text in which the labels of `ends` are still to come and those of     *)
(* `starts` may still be jumped to; the numbers from n on are free.        *)
Numbered(o, n) ==
  \A j \in DOMAIN o : o[j].op \in {"label", "jump"} =>
    o[j].id \in Nat /\ (o[j].id < n \/ (o[j].op = "label" /\ o[j].tag = "_start"))
Awaited(o, n, ends) ==
  \A e \in ends : LabelsAt(o, e) = {} /\ e[2] \in Nat /\ e[2] < n /\ e[1] # "_start"
Reachable(o, starts) ==
  \A s \in starts : s[1] # "placeholder" /\ \E a \in DOMAIN o : LabelsAt(o, s) = {a} /\ Uncut(o, a)
Met(o, i) == \E j \in DOMAIN o : /\ LabelsAt(o, <<o[i].tag, o[i].id>>) = {j}
                                 /\ o[i].tag # "placeholder" => OneScope(o, i, j)
Jumps(o, ends) ==
  \A i \in DOMAIN o : o[i].op = "jump" =>
    IF <<o[i].tag, o[i].id>> \in ends THEN o[i].tag # "placeholder" => Uncut(o, i)
    ELSE Met(o, i)

Text(o, n, ends, starts) ==
  Numbered(o, n) /\ Awaited(o, n, ends) /\ Reachable(o, starts) /\ Jumps(o, ends)

Plain(c) == \A j \in DOMAIN c : c[j].op \notin {"label", "jump", "func"}

LEMMA LongerText ==
  ASSUME NEW S, NEW o \in Seq(S), NEW c \in Seq(S)
  PROVE  /\ Len(o \o c) = Len(o) + Len(c) /\ Len(o) \in Nat /\ Len(c) \in Nat
         /\ DOMAIN o = 1..Len(o) /\ DOMAIN (o \o c) = 1..(Len(o) + Len(c))
         /\ \A j \in 1..Len(o) : (o \o c)[j] = o[j]
         /\ \A j \in (Len(o) + 1)..(Len(o) + Len(c)) : (o \o c)[j] = c[j - Len(o)] /\ j - Len(o) \in DOMAIN c
OBVIOUS

(* Code without labels and jumps changes nothing.                          *)
LEMMA PlainText ==
  ASSUME NEW S, NEW o \in Seq(S), NEW c \in Seq(S), Plain(c),
         NEW n, NEW ends, NEW starts, Text(o, n, ends, starts)
  PROVE  Text(o \o c, n, ends, starts)
<1> DEFINE u == o \o c
<1>1. /\ Len(u) = Len(o) + Len(c) /\ Len(o) \in Nat /\ Len(c) \in Nat
      /\ DOMAIN o = 1..Len(o) /\ DOMAIN u = 1..Len(u)
      /\ \A j \in 1..Len(o) : u[j] = o[j]
      /\ \A j \in (Len(o) + 1)..Len(u) : u[j].op \notin {"label", "jump", "func"}
  BY LongerText DEF Plain
<1> HIDE DEF u
<1>2. \A j \in DOMAIN u : u[j].op \in {"label", "jump", "func"} => j \in DOMAIN o /\ u[j] = o[j]
  BY <1>1
<1>3. \A j \in DOMAIN o : j \in DOMAIN u /\ u[j] = o[j]
  BY <1>1
<1>4. \A t : LabelsAt(u, t) = LabelsAt(o, t)
  BY <1>2, <1>3 DEF LabelsAt
<1>5. \A a \in DOMAIN o : Uncut(o, a) => Uncut(u, a)
  BY <1>1 DEF Uncut, NonLocalIn
<1>6. \A i, j \in DOMAIN o : OneScope(o, i, j) => OneScope(u, i, j)
  BY <1>1 DEF OneScope, NonLocalIn
<1>7. Numbered(u, n)
  BY <1>2 DEF Text, Numbered
<1>8. Awaited(u, n, ends)
  BY <1>4 DEF Text, Awaited
<1>9. Reachable(u, starts)
  BY <1>3, <1>4, <1>5 DEF Text, Reachable
<1>10. \A i \in DOMAIN o : Met(o, i) => Met(u, i)
  BY <1>3, <1>4, <1>6 DEF Met
<1>11. Jumps(u, ends)
  BY <1>2, <1>5, <1>10 DEF Text, Jumps
<1> QED BY <1>7, <1>8, <1>9, <1>11 DEF Text, u

(* A local label that was awaited may be jumped to from then on.  One that *)
(* is not local ends a scope, and no jump of that scope may be waiting.    *)
LEMMA AwaitedLabel ==
  ASSUME NEW S, NEW o \in Seq(S), NEW t, NEW k, Label(t, k) \in S,
         NEW n, NEW ends, NEW starts, Text(o, n, ends, starts), <<t, k>> \in ends,
         t = "placeholder" => ends = {<<t, k>>} /\ starts = {}
  PROVE  Text(o \o <<Label(t, k)>>, n, ends \ {<<t, k>>},
              IF t = "placeholder" THEN {} ELSE starts \cup {<<t, k>>})
<1> DEFINE x == Label(t, k)
           u == o \o <<x>>
           m == Len(o) + 1
<1>1. x.op = "label" /\ x.tag = t /\ x.id = k
  BY DEF Label
<1>2. /\ Len(u) = m /\ Len(o) \in Nat /\ DOMAIN o = 1..Len(o) /\ DOMAIN u = 1..m
      /\ u[m] = x /\ \A j \in 1..Len(o) : u[j] = o[j]
  BY DEF x
<1> HIDE DEF u, x
<1>3. LabelsAt(o, <<t, k>>) = {} /\ k \in Nat /\ k < n /\ t # "_start"
  BY DEF Text, Awaited
<1>4. \A j \in DOMAIN u : j = m \/ (j \in DOMAIN o /\ u[j] = o[j])
  BY <1>2
<1>5. \A j \in DOMAIN o : j \in DOMAIN u /\ u[j] = o[j] /\ j # m
  BY <1>2
<1>6. LabelsAt(u, <<t, k>>) = {m} /\ m \in DOMAIN u
  BY <1>1, <1>2, <1>3, <1>4 DEF LabelsAt
<1>7. \A e : e # <<t, k>> => LabelsAt(u, e) = LabelsAt(o, e)
  BY <1>1, <1>2, <1>4, <1>5 DEF LabelsAt
<1>8. t # "placeholder" => ~NonLocalIn(u, m)
  BY <1>1, <1>2, <1>3 DEF NonLocalIn
<1>9. \A j \in DOMAIN o : NonLocalIn(u, j) <=> NonLocalIn(o, j)
  BY <1>5 DEF NonLocalIn
<1>10. \A i, j \in DOMAIN o : OneScope(o, i, j) => OneScope(u, i, j)
  BY <1>2, <1>9 DEF OneScope
<1>11. \A i \in DOMAIN o : Uncut(o, i) /\ t # "placeholder" => Uncut(u, i) /\ OneScope(u, i, m)
  <2> SUFFICES ASSUME NEW i \in DOMAIN o, Uncut(o, i), t # "placeholder"
               PROVE  Uncut(u, i) /\ OneScope(u, i, m)
    OBVIOUS
  <2>1. \A j \in (i + 1)..m : ~NonLocalIn(u, j)
    BY <1>2, <1>8, <1>9 DEF Uncut
  <2> QED BY <1>2, <2>1 DEF Uncut, OneScope
<1>12. Numbered(u, n)
  BY <1>1, <1>2, <1>3, <1>4 DEF Text, Numbered
<1>13. Awaited(u, n, ends \ {<<t, k>>})
  BY <1>7 DEF Text, Awaited
<1>14. Reachable(u, IF t = "placeholder" THEN {} ELSE starts \cup {<<t, k>>})
  <2> SUFFICES ASSUME t # "placeholder", NEW s \in starts \cup {<<t, k>>}
               PROVE  s[1] # "placeholder" /\ \E a \in DOMAIN u : LabelsAt(u, s) = {a} /\ Uncut(u, a)
    BY DEF Reachable
  <2>1. CASE s = <<t, k>>
    <3>1. s[1] = t /\ Uncut(u, m)
      BY <1>2, <2>1 DEF Uncut
    <3> QED BY <1>6, <2>1, <3>1
  <2>2. CASE s # <<t, k>>
    <3>1. s[1] # "placeholder" /\ \E a \in DOMAIN o : LabelsAt(o, s) = {a} /\ Uncut(o, a)
      BY <2>2 DEF Text, Reachable
    <3> QED BY <1>5, <1>7, <1>11, <2>2, <3>1
  <2> QED BY <2>1, <2>2
<1>15. Jumps(u, ends \ {<<t, k>>})
  <2> SUFFICES ASSUME NEW i \in DOMAIN u, u[i].op = "jump"
               PROVE  IF <<u[i].tag, u[i].id>> \in ends \ {<<t, k>>}
                      THEN u[i].tag # "placeholder" => Uncut(u, i) ELSE Met(u, i)
    BY DEF Jumps
  <2>1. i \in DOMAIN o /\ u[i] = o[i]
    BY <1>1, <1>2, <1>4
  <2>2. CASE <<o[i].tag, o[i].id>> = <<t, k>>
    <3>1. o[i].tag = t /\ (t # "placeholder" => Uncut(o, i))
      BY <2>1, <2>2 DEF Text, Jumps
    <3> QED BY <1>6, <1>11, <2>1, <2>2, <3>1 DEF Met
  <2>3. CASE <<o[i].tag, o[i].id>> # <<t, k>> /\ <<o[i].tag, o[i].id>> \in ends
    <3>1. t # "placeholder" /\ (o[i].tag # "placeholder" => Uncut(o, i))
      BY <2>1, <2>3 DEF Text, Jumps
    <3> QED BY <1>11, <2>1, <2>3, <3>1
  <2>4. CASE <<o[i].tag, o[i].id>> \notin ends
    <3>1. Met(o, i)
      BY <2>1, <2>4 DEF Text, Jumps
    <3>2. Met(u, i)
      BY <1>5, <1>7, <1>10, <2>1, <2>4, <3>1 DEF Met
    <3> QED BY <2>1, <2>4, <3>2
  <2> QED BY <2>2, <2>3, <2>4
<1> QED BY <1>12, <1>13, <1>14, <1>15 DEF Text, u, x

(* A jump, back to a label that may be jumped to or ahead to one awaited.  *)
LEMMA OneJump ==
  ASSUME NEW S, NEW o \in Seq(S), NEW t, NEW k, Jump(t, k) \in S, k \in Nat,
         NEW n, k < n, NEW ends, NEW starts, Text(o, n, ends, starts), <<t, k>> \in ends \cup starts
  PROVE  Text(o \o <<Jump(t, k)>>, n, ends, starts)
<1> DEFINE x == Jump(t, k)
           u == o \o <<x>>
           m == Len(o) + 1
<1>1. x.op = "jump" /\ x.tag = t /\ x.id = k
  BY DEF Jump
<1>2. /\ Len(u) = m /\ Len(o) \in Nat /\ DOMAIN o = 1..Len(o) /\ DOMAIN u = 1..m
      /\ u[m] = x /\ \A j \in 1..Len(o) : u[j] = o[j]
  BY DEF x
<1> HIDE DEF u, x
<1>3. \A j \in DOMAIN u : j = m \/ (j \in DOMAIN o /\ u[j] = o[j])
  BY <1>2
<1>4. \A j \in DOMAIN o : j \in DOMAIN u /\ u[j] = o[j] /\ j # m
  BY <1>2
<1>5. \A e : LabelsAt(u, e) = LabelsAt(o, e)
  BY <1>1, <1>2, <1>3, <1>4 DEF LabelsAt
<1>6. ~NonLocalIn(u, m) /\ \A j \in DOMAIN o : NonLocalIn(u, j) <=> NonLocalIn(o, j)
  BY <1>1, <1>2, <1>4 DEF NonLocalIn
<1>7. \A i, j \in DOMAIN o : OneScope(o, i, j) => OneScope(u, i, j)
  BY <1>2, <1>6 DEF OneScope
<1>8. \A i \in DOMAIN o : Uncut(o, i) => Uncut(u, i) /\ OneScope(u, m, i)
  <2> SUFFICES ASSUME NEW i \in DOMAIN o, Uncut(o, i) PROVE Uncut(u, i) /\ OneScope(u, m, i)
    OBVIOUS
  <2>1. \A j \in (i + 1)..m : ~NonLocalIn(u, j)
    BY <1>2, <1>6 DEF Uncut
  <2> QED BY <1>2, <2>1 DEF Uncut, OneScope
<1>9. Numbered(u, n)
  BY <1>1, <1>2, <1>3 DEF Text, Numbered
<1>10. Awaited(u, n, ends) /\ Reachable(u, starts)
  BY <1>4, <1>5, <1>8 DEF Text, Awaited, Reachable
<1>11. Jumps(u, ends)
  <2> SUFFICES ASSUME NEW i \in DOMAIN u, u[i].op = "jump"
               PROVE  IF <<u[i].tag, u[i].id>> \in ends
                      THEN u[i].tag # "placeholder" => Uncut(u, i) ELSE Met(u, i)
    BY DEF Jumps
  <2>1. CASE i = m /\ <<t, k>> \in ends
    <3>1. Uncut(u, m)
      BY <1>2 DEF Uncut
    <3> QED BY <1>1, <1>2, <2>1, <3>1
  <2>2. CASE i = m /\ <<t, k>> \notin ends
    <3>1. PICK a \in DOMAIN o : LabelsAt(o, <<t, k>>) = {a} /\ Uncut(o, a)
      BY <2>2 DEF Text, Reachable
    <3>2. Met(u, i)
      BY <1>1, <1>2, <1>4, <1>5, <1>8, <2>2, <3>1 DEF Met
    <3> QED BY <1>1, <1>2, <2>2, <3>2
  <2>3. CASE i # m
    <3>1. i \in DOMAIN o /\ u[i] = o[i]
      BY <1>3, <2>3
    <3>2. Met(o, i) => Met(u, i)
      BY <1>4, <1>5, <1>7, <3>1 DEF Met
    <3> QED BY <1>8, <3>1, <3>2 DEF Text, Jumps
  <2> QED BY <2>1, <2>2, <2>3
<1> QED BY <1>9, <1>10, <1>11 DEF Text, u, x

(* The label of a function starts a scope.                                 *)
LEMMA FuncLabel ==
  ASSUME NEW S, NEW o \in Seq(S), NEW f, [op |-> "func", name |-> f] \in S,
         NEW n, NEW ends, \A e \in ends : e[1] = "placeholder", Text(o, n, ends, {})
  PROVE  Text(o \o <<[op |-> "func", name |-> f]>>, n, ends, {})
<1> DEFINE x == [op |-> "func", name |-> f]
           u == o \o <<x>>
           m == Len(o) + 1
<1>1. x.op = "func"
  OBVIOUS
<1>2. /\ Len(u) = m /\ Len(o) \in Nat /\ DOMAIN o = 1..Len(o) /\ DOMAIN u = 1..m
      /\ u[m] = x /\ \A j \in 1..Len(o) : u[j] = o[j]
  BY DEF x
<1> HIDE DEF u, x
<1>3. \A j \in DOMAIN u : j = m \/ (j \in DOMAIN o /\ u[j] = o[j])
  BY <1>2
<1>4. \A j \in DOMAIN o : j \in DOMAIN u /\ u[j] = o[j] /\ j # m
  BY <1>2
<1>5. \A e : LabelsAt(u, e) = LabelsAt(o, e)
  BY <1>1, <1>2, <1>3, <1>4 DEF LabelsAt
<1>6. \A j \in DOMAIN o : NonLocalIn(u, j) <=> NonLocalIn(o, j)
  BY <1>4 DEF NonLocalIn
<1>7. \A i, j \in DOMAIN o : OneScope(o, i, j) => OneScope(u, i, j)
  BY <1>2, <1>6 DEF OneScope
<1>8. Numbered(u, n)
  BY <1>1, <1>2, <1>3 DEF Text, Numbered
<1>9. Awaited(u, n, ends) /\ Reachable(u, {})
  BY <1>5 DEF Text, Awaited, Reachable
<1>10. Jumps(u, ends)
  <2> SUFFICES ASSUME NEW i \in DOMAIN u, u[i].op = "jump"
               PROVE  IF <<u[i].tag, u[i].id>> \in ends
                      THEN u[i].tag # "placeholder" => Uncut(u, i) ELSE Met(u, i)
    BY DEF Jumps
  <2>1. i \in DOMAIN o /\ u[i] = o[i]
    BY <1>1, <1>2, <1>3
  <2>2. CASE <<u[i].tag, u[i].id>> \in ends
    BY <2>2
  <2>3. CASE <<u[i].tag, u[i].id>> \notin ends
    <3>1. Met(o, i)
      BY <2>1, <2>3 DEF Text, Jumps
    <3> QED BY <1>4, <1>5, <1>7, <2>1, <2>3, <3>1 DEF Met
  <2> QED BY <2>2, <2>3
<1> QED BY <1>8, <1>9, <1>10 DEF Text, u, x

(* A fresh number: nothing has a label or a jump with it.                  *)
LEMMA FreshNumber ==
  ASSUME NEW o, NEW n \in Nat, Text(o, n, {}, {}),
         NEW ends, \A e \in ends : e[1] # "_start" /\ e[2] = n
  PROVE  Text(o, n + 1, ends, {})
<1>1. Numbered(o, n + 1)
  BY DEF Text, Numbered
<1>2. Awaited(o, n + 1, ends)
  <2> SUFFICES ASSUME NEW e \in ends PROVE LabelsAt(o, e) = {}
    BY DEF Awaited
  <2>1. ASSUME NEW j \in DOMAIN o, o[j].op = "label", <<o[j].tag, o[j].id>> = e PROVE FALSE
    <3>1. e[1] = o[j].tag /\ e[2] = o[j].id
      BY <2>1
    <3> QED BY <2>1, <3>1 DEF Text, Numbered
  <2> QED BY <2>1 DEF LabelsAt
<1>3. Jumps(o, ends)
  <2> SUFFICES ASSUME NEW i \in DOMAIN o, o[i].op = "jump"
               PROVE  <<o[i].tag, o[i].id>> \notin ends /\ Met(o, i)
    BY DEF Jumps
  <2>1. o[i].id < n /\ o[i].id \in Nat
    BY DEF Text, Numbered
  <2>2. <<o[i].tag, o[i].id>> \in ends => o[i].id = n
    OBVIOUS
  <2> QED BY <2>1, <2>2 DEF Text, Jumps
<1> QED BY <1>1, <1>2, <1>3 DEF Text, Reachable

LEMMA ForgetStarts ==
  ASSUME NEW o, NEW n, NEW ends, NEW starts, Text(o, n, ends, starts)
  PROVE  Text(o, n, ends, {})
BY DEF Text, Reachable
-----------------------------------------------------------------------------
(* The text while it is generated.                                         *)

EndTag(kind) ==
  IF kind = "IF" THEN "if_end" ELSE IF kind = "ELSE" THEN "else_end"
  ELSE IF kind = "WHILE" THEN "While_end" ELSE IF kind = "FOR" THEN "For_end" ELSE "placeholder"
StartTag == [WHILE |-> "While_start", FOR |-> "For_start"]

(* The labels that the open body still has to get, and those it jumps      *)
(* back to.                                                                *)
FrameEnds   == IF open = <<>> \/ (phase = "delete" /\ Top.stmt.kind = "FUNC") THEN {}
               ELSE {<<EndTag(Top.stmt.kind), Top.id>>}
FrameStarts == IF open # <<>> /\ Top.stmt.kind \in {"WHILE", "FOR"}
               THEN {<<StartTag[Top.stmt.kind], Top.id>>} ELSE {}
LabelsFollow ==
  phase \in GenPhases /\ ~nested => /\ Text(out, label, FrameEnds, FrameStarts)
                                    /\ open # <<>> => Opens(Top.stmt)

LEMMA LocalLabel ==
  ASSUME NEW o \in Seq(Instr), NEW t \in Tags \ {"placeholder", "_start"}, NEW k \in Nat,
         NEW n, NEW ends, NEW starts, Text(o, n, ends, starts), <<t, k>> \in ends,
         NEW more, more = ends \ {<<t, k>>}
  PROVE  /\ o \o <<Label(t, k)>> \in Seq(Instr)
         /\ Text(o \o <<Label(t, k)>>, n, more, starts \cup {<<t, k>>})
<1>1. Label(t, k) \in Instr
  BY InstrTypes
<1>2. Text(o \o <<Label(t, k)>>, n, more,
           IF t = "placeholder" THEN {} ELSE starts \cup {<<t, k>>})
  BY <1>1, AwaitedLabel
<1>3. t # "placeholder"
  OBVIOUS
<1>4. o \o <<Label(t, k)>> \in Seq(Instr)
  <2> DEFINE x == Label(t, k)
  <2> HIDE DEF x
  <2>1. x \in Instr
    BY <1>1 DEF x
  <2>2. o \o <<x>> \in Seq(Instr)
    BY <2>1
  <2> QED BY <2>2 DEF x
<1> QED BY <1>2, <1>3, <1>4

LEMMA LocalJump ==
  ASSUME NEW o \in Seq(Instr), NEW t \in Tags, NEW k \in Nat, NEW n, k < n,
         NEW ends, NEW starts, Text(o, n, ends, starts), <<t, k>> \in ends \cup starts
  PROVE  /\ o \o <<Jump(t, k)>> \in Seq(Instr)
         /\ Text(o \o <<Jump(t, k)>>, n, ends, starts)
<1>1. Jump(t, k) \in Instr
  BY InstrTypes
<1>2. Text(o \o <<Jump(t, k)>>, n, ends, starts)
  BY <1>1, OneJump
<1>3. o \o <<Jump(t, k)>> \in Seq(Instr)
  <2> DEFINE x == Jump(t, k)
  <2> HIDE DEF x
  <2>1. x \in Instr
    BY <1>1 DEF x
  <2>2. o \o <<x>> \in Seq(Instr)
    BY <2>1
  <2> QED BY <2>2 DEF x
<1> QED BY <1>2, <1>3

LEMMA JoinTwo ==
  ASSUME NEW S, NEW o \in Seq(S), NEW x \in S, NEW y \in S
  PROVE  /\ o \o <<x, y>> = (o \o <<x>>) \o <<y>>
         /\ o \o <<x>> \in Seq(S)
<1>1. /\ o \o <<x>> \in Seq(S) /\ Len(o \o <<x>>) = Len(o) + 1 /\ Len(o) \in Nat
      /\ \A i \in 1..Len(o) : (o \o <<x>>)[i] = o[i]
      /\ (o \o <<x>>)[Len(o) + 1] = x
  OBVIOUS
<1> DEFINE u == o \o <<x, y>>
           v == (o \o <<x>>) \o <<y>>
<1>2. /\ u \in Seq(S) /\ Len(u) = Len(o) + 2 /\ u[Len(o) + 1] = x /\ u[Len(o) + 2] = y
      /\ \A i \in 1..Len(o) : u[i] = o[i]
  BY <1>1
<1>3. /\ v \in Seq(S) /\ Len(v) = Len(o) + 2 /\ v[Len(o) + 1] = x /\ v[Len(o) + 2] = y
      /\ \A i \in 1..Len(o) : v[i] = o[i]
  BY <1>1
<1> HIDE DEF u, v
<1>4. \A i \in 1..Len(u) : u[i] = v[i]
  BY <1>1, <1>2, <1>3
<1>5. u = v
  BY <1>1, <1>2, <1>3, <1>4
<1> QED BY <1>1, <1>5 DEF u, v

LEMMA PlainConcat ==
  ASSUME NEW S, NEW a \in Seq(S), NEW b \in Seq(S), Plain(a), Plain(b)
  PROVE  Plain(a \o b)
BY LongerText DEF Plain

LEMMA PlainExpr ==
  ASSUME NEW vs, NEW e, e.uses \in Seq(Names), NEW k
  PROVE  Plain(ExprCode(vs, e, k)) /\ Plain(CallCode(e.fn, e.args))
<1>1. \A f, as : Plain(CallCode(f, as))
  <2> SUFFICES ASSUME NEW f, NEW as PROVE Plain(CallCode(f, as))
    OBVIOUS
  <2> DEFINE x == [op |-> "call", name |-> f, argc |-> Len(as)]
  <2>1. x.op = "call" /\ CallCode(f, as) = <<x>>
    BY DEF CallCode
  <2> HIDE DEF x
  <2> QED BY <2>1 DEF Plain
<1>2. CASE e.kind = "FUNC"
  BY <1>1, <1>2 DEF ExprCode
<1>3. CASE e.kind # "FUNC" /\ k \in DeclKinds
  <2>1. ExprCode(vs, e, k) = [i \in DOMAIN e.uses |->
                                Access("load", vs, e.uses[i], SizeOf[TypeOfDecl[k]])]
    BY <1>3 DEF ExprCode
  <2>2. \A i \in DOMAIN e.uses : ExprCode(vs, e, k)[i].op = "load"
    BY <2>1 DEF Access
  <2> QED BY <1>1, <2>1, <2>2 DEF Plain
<1>4. CASE e.kind # "FUNC" /\ k \notin DeclKinds
  <2>1. ExprCode(vs, e, k) = <<>>
    BY <1>4 DEF ExprCode
  <2> QED BY <1>1, <2>1 DEF Plain
<1> QED BY <1>1, <1>2, <1>3, <1>4

LEMMA PlainLeaf ==
  ASSUME NEW vs \in Seq(Var), Distinct(vs), NEW s, s.kind \in LeafKinds,
         s.name \in Names, s.expr \in Expr, ~LeafFails(vs, s)
  PROVE  Plain(LeafCode(vs, s)) /\ LeafCode(vs, s) \in Seq(Instr)
<1>1. s.expr.uses \in Seq(Names) /\ LeafCode(vs, s) \in Seq(Instr)
  BY LeafCodeType DEF Expr
<1>2. CASE s.kind = "FUNC_USE"
  <2> DEFINE x == [op |-> "call", name |-> s.name, argc |-> Len(s.expr.args)]
  <2>1. x.op = "call" /\ LeafCode(vs, s) = <<x>>
    BY <1>2 DEF LeafCode, CallCode
  <2> HIDE DEF x
  <2> QED BY <1>1, <2>1 DEF Plain
<1>3. CASE s.kind # "FUNC_USE"
  <2> DEFINE a == ExprCode(vs, s.expr, s.kind)
  <2>1. a \in Seq(Instr) /\ Plain(a)
    BY <1>1, <1>3, ExprCodeType, PlainExpr DEF LeafFails
  <2>2. CASE s.kind \in DeclKinds \cup {"VCHANGE"}
    <3>1. PICK w \in {1, 2, 4, 8} : LeafCode(vs, s) = a \o <<Access("store", vs, s.name, w)>>
      <4>1. s.name \in VarNames(vs)
        BY <2>2 DEF LeafFails
      <4>2. SizeOf[VarType(vs, s.name)] \in {1, 2, 4, 8}
        BY <4>1, EntryOfProps, SizeTypes
      <4>3. s.kind \in DeclKinds => SizeOf[TypeOfDecl[s.kind]] \in {1, 2, 4, 8}
        BY SizeTypes
      <4> QED BY <2>2, <4>2, <4>3 DEF LeafCode, DeclKinds
    <3> DEFINE x == Access("store", vs, s.name, w)
    <3>2. x.op = "store"
      BY DEF Access
    <3>3. s.name \in VarNames(vs)
      BY <2>2 DEF LeafFails
    <3>4. x \in Instr
      BY <3>3, AccessType
    <3> HIDE DEF x, a
    <3>5. <<x>> \in Seq(Instr) /\ Plain(<<x>>)
      BY <3>2, <3>4 DEF Plain
    <3>6. Plain(a \o <<x>>)
      BY <2>1, <3>5, PlainConcat
    <3> QED BY <1>1, <3>1, <3>6 DEF x
  <2>3. CASE s.kind \notin DeclKinds \cup {"VCHANGE"}
    <3>1. LeafCode(vs, s) = a \o <<>>
      BY <1>3, <2>3 DEF LeafCode, DeclKinds
    <3> HIDE DEF a
    <3>2. a \o <<>> = a
      BY <2>1
    <3> QED BY <1>1, <2>1, <3>1, <3>2
  <2> QED BY <2>2, <2>3
<1> QED BY <1>2, <1>3

LEMMA PushedTop ==
  ASSUME TypeOK, NEW id, PushFrame(id)
  PROVE  open' # <<>> /\ Top.stmt' = Cur /\ Top.id' = id
<1> DEFINE f == [stmt |-> Cur, id |-> id]
<1>1. f.stmt = Cur /\ f.id = id /\ open' = Append(open, f) /\ open \in Seq(Frm)
  BY DEF PushFrame, TypeOK
<1> HIDE DEF f
<1>2. open' # <<>> /\ open'[Len(open')] = f
  BY <1>1
<1> QED BY <1>1, <1>2 DEF Top, Last

(* Before a body is opened none is open; what IF, ELSE, WHILE and FOR emit.*)
LEMMA OpenText ==
  ASSUME IInv, LInv, StackFollows, LabelsFollow, ~nested',
         OpenIf \/ OpenElse \/ OpenWhile \/ OpenFor \/ OpenFunc
  PROVE  LabelsFollow'
<1>1. /\ phase = "gen" /\ More /\ nested' = (nested \/ open # <<>>) /\ PushFrame(label)
      /\ label' = label + 1 /\ Opens(Cur) /\ phase' \in {"gen", "params"}
  BY DEF OpenIf, OpenElse, OpenWhile, OpenFor, EnterBody, OpenFunc, At, Opens, OpenKinds
<1>2. /\ TypeOK /\ m_vars \in Seq(Var) /\ Distinct(m_vars) /\ label \in Nat /\ out \in Seq(Instr)
      /\ label < label + 1 /\ label + 1 \in Nat
  BY DEF IInv, NoDupVars, TypeOK
<1>3. ~nested /\ open = <<>>
  BY <1>1, <1>2 DEF TypeOK
<1>4. Text(out, label, {}, {})
  BY <1>1, <1>3 DEF LabelsFollow, GenPhases, FrameEnds, FrameStarts
<1>5. open' # <<>> /\ Top.stmt' = Cur /\ Top.id' = label
  BY <1>1, <1>2, PushedTop
<1>6. \A t \in Tags : Label(t, label) \in Instr /\ Jump(t, label) \in Instr
  BY <1>2, InstrTypes
<1>7. Cur.expr \in Expr /\ Cur.expr.uses \in Seq(Names) /\ Cur.init \in Leaf /\ Cur.name \in Names
  BY <1>1, <1>2, StmtFields DEF Expr
<1>8. /\ Cur.init.kind \in LeafKinds /\ Cur.init.name \in Names /\ Cur.init.expr \in Expr
  BY <1>7, LeafFields
<1>9. CASE OpenIf
  <2> DEFINE a == ExprCode(m_vars, Cur.expr, "IF")
             e == <<"if_end", label>>
  <2>1. out' = (out \o a) \o <<Jump("if_end", label)>> /\ Cur.kind = "IF"
    BY <1>9 DEF OpenIf, At
  <2>2. a \in Seq(Instr) /\ Plain(a)
    BY <1>2, <1>7, <1>9, ExprCodeType, PlainExpr DEF OpenIf
  <2>3. Text(out, label + 1, {e}, {})
    BY <1>2, <1>4, FreshNumber
  <2> HIDE DEF a
  <2>4. out \o a \in Seq(Instr) /\ Text(out \o a, label + 1, {e}, {})
    BY <1>2, <2>2, <2>3, PlainText
  <2>5. Text(out', label + 1, {e}, {})
    <3>1. "if_end" \in Tags /\ e \in {e} \cup {}
      BY DEF Tags
    <3> QED BY <1>2, <2>1, <2>4, <3>1, LocalJump
  <2>6. FrameEnds' = {e} /\ FrameStarts' = {}
    BY <1>1, <1>5, <2>1 DEF FrameEnds, FrameStarts, EndTag
  <2> QED BY <1>1, <1>5, <2>5, <2>6 DEF LabelsFollow
<1>10. CASE OpenElse
  <2> DEFINE e == <<"else_end", label>>
  <2>1. out' = out /\ Cur.kind = "ELSE"
    BY <1>10 DEF OpenElse, At
  <2>2. Text(out, label + 1, {e}, {})
    BY <1>2, <1>4, FreshNumber
  <2>3. FrameEnds' = {e} /\ FrameStarts' = {}
    BY <1>1, <1>5, <2>1 DEF FrameEnds, FrameStarts, EndTag
  <2> QED BY <1>1, <1>5, <2>1, <2>2, <2>3 DEF LabelsFollow
<1>11. CASE OpenWhile
  <2> DEFINE a == ExprCode(m_vars, Cur.expr, "WHILE")
             b == out \o <<Label("While_start", label)>>
             e == <<"While_end", label>>
             s == <<"While_start", label>>
  <2>1. out' = (b \o a) \o <<Jump("While_end", label)>> /\ Cur.kind = "WHILE"
    BY <1>11 DEF OpenWhile, At
  <2>2. a \in Seq(Instr) /\ Plain(a)
    BY <1>2, <1>7, <1>11, ExprCodeType, PlainExpr DEF OpenWhile
  <2>3. Text(out, label + 1, {s, e}, {})
    BY <1>2, <1>4, FreshNumber
  <2>4. b \in Seq(Instr) /\ Text(b, label + 1, {e}, {s})
    <3>1. "While_start" \in Tags \ {"placeholder", "_start"} /\ s \in {s, e} /\ {e} = {s, e} \ {s}
      BY DEF Tags
    <3>2. {} \cup {s} = {s}
      OBVIOUS
    <3>3. label \in Nat /\ Text(out, label + 1, {s, e}, {})
      BY <1>2, <2>3
    <3>4. b \in Seq(Instr) /\ Text(b, label + 1, {e}, {} \cup {s})
      BY <1>2, <2>3, <3>1, <3>3, LocalLabel
    <3> QED BY <3>2, <3>4
  <2> HIDE DEF a, b
  <2>5. b \o a \in Seq(Instr) /\ Text(b \o a, label + 1, {e}, {s})
    BY <2>2, <2>4, PlainText
  <2>6. Text(out', label + 1, {e}, {s})
    <3>1. "While_end" \in Tags /\ e \in {e} \cup {s}
      BY DEF Tags
    <3> QED BY <1>2, <2>1, <2>5, <3>1, LocalJump
  <2>7. FrameEnds' = {e} /\ FrameStarts' = {s}
    BY <1>1, <1>5, <2>1 DEF FrameEnds, FrameStarts, EndTag, StartTag
  <2> QED BY <1>1, <1>5, <2>6, <2>7 DEF LabelsFollow
<1>12. CASE OpenFor
  <2> DEFINE a == ExprCode(m_vars, Cur.expr, "FOR")
             l == LeafCode(m_vars, Cur.init)
             b == (out \o l) \o <<Label("For_start", label)>>
             e == <<"For_end", label>>
             s == <<"For_start", label>>
  <2>1. out' = (b \o a) \o <<Jump("For_end", label)>> /\ Cur.kind = "FOR"
    BY <1>12 DEF OpenFor, At
  <2>2. a \in Seq(Instr) /\ Plain(a)
    BY <1>2, <1>7, <1>12, ExprCodeType, PlainExpr DEF OpenFor
  <2>3. l \in Seq(Instr) /\ Plain(l)
    BY <1>2, <1>8, <1>12, PlainLeaf DEF OpenFor
  <2>4. Text(out, label + 1, {s, e}, {})
    BY <1>2, <1>4, FreshNumber
  <2> HIDE DEF a, l
  <2>5. out \o l \in Seq(Instr) /\ Text(out \o l, label + 1, {s, e}, {})
    BY <1>2, <2>3, <2>4, PlainText
  <2>6. b \in Seq(Instr) /\ Text(b, label + 1, {e}, {s})
    <3>1. "For_start" \in Tags \ {"placeholder", "_start"} /\ s \in {s, e} /\ {e} = {s, e} \ {s}
      BY DEF Tags
    <3>2. {} \cup {s} = {s}
      OBVIOUS
    <3>3. label \in Nat /\ Text(out \o l, label + 1, {s, e}, {})
      BY <1>2, <2>5
    <3>4. b \in Seq(Instr) /\ Text(b, label + 1, {e}, {} \cup {s})
      BY <1>2, <2>5, <3>1, <3>3, LocalLabel
    <3> QED BY <3>2, <3>4
  <2> HIDE DEF b
  <2>7. b \o a \in Seq(Instr) /\ Text(b \o a, label + 1, {e}, {s})
    BY <2>2, <2>6, PlainText
  <2>8. Text(out', label + 1, {e}, {s})
    <3>1. "For_end" \in Tags /\ e \in {e} \cup {s}
      BY DEF Tags
    <3> QED BY <1>2, <2>1, <2>7, <3>1, LocalJump
  <2>9. FrameEnds' = {e} /\ FrameStarts' = {s}
    BY <1>1, <1>5, <2>1 DEF FrameEnds, FrameStarts, EndTag, StartTag
  <2> QED BY <1>1, <1>5, <2>8, <2>9 DEF LabelsFollow
<1>13. CASE OpenFunc
  <2> DEFINE j == Jump("placeholder", label)
             f == [op |-> "func", name |-> Cur.name]
             e == <<"placeholder", label>>
  <2>1. out' = out \o <<j, f>> /\ Cur.kind = "FUNC" /\ phase' = "params"
    BY <1>13 DEF OpenFunc, At
  <2>2. j \in Instr /\ f \in Instr
    BY <1>6, <1>7, InstrTypes DEF Tags
  <2>3. out' = (out \o <<j>>) \o <<f>>
    <3> HIDE DEF j, f
    <3>1. out \o <<j, f>> = (out \o <<j>>) \o <<f>>
      BY <1>2, <2>2, JoinTwo
    <3> QED BY <2>1, <3>1
  <2>4. Text(out, label + 1, {e}, {})
    BY <1>2, <1>4, FreshNumber
  <2>5. out \o <<j>> \in Seq(Instr) /\ Text(out \o <<j>>, label + 1, {e}, {})
    <3>1. "placeholder" \in Tags /\ e \in {e} \cup {}
      BY DEF Tags
    <3> QED BY <1>2, <2>4, <3>1, LocalJump
  <2>6. Text((out \o <<j>>) \o <<f>>, label + 1, {e}, {})
    <3>1. \A d \in {e} : d[1] = "placeholder"
      OBVIOUS
    <3> HIDE DEF e, j
    <3> QED BY <2>2, <2>5, <3>1, FuncLabel
  <2>7. FrameEnds' = {e} /\ FrameStarts' = {}
    BY <1>1, <1>5, <2>1 DEF FrameEnds, FrameStarts, EndTag
  <2> QED BY <1>1, <1>5, <2>3, <2>6, <2>7 DEF LabelsFollow
<1> QED BY <1>9, <1>10, <1>11, <1>12, <1>13

(* The frame is the same before and after a step that leaves the C stack.  *)
LEMMA SameFrame ==
  ASSUME open' = open, phase' = phase \/ ("delete" \notin {phase, phase'})
  PROVE  FrameEnds' = FrameEnds /\ FrameStarts' = FrameStarts
BY DEF FrameEnds, FrameStarts, Top

(* What a leaf statement or a parameter appends.                           *)
LEMMA LeafAppends ==
  ASSUME IInv, GenDecl \/ GenLeaf \/ GenParam
  PROVE  \E c \in Seq(Instr) : out' = out \o c /\ Plain(c)
<1>1. More
  BY DEF GenDecl, GenLeaf, GenParam, At, IInv, TypeOK
<1>2. /\ TypeOK /\ m_vars \in Seq(Var) /\ Distinct(m_vars) /\ out \in Seq(Instr)
  BY DEF IInv, NoDupVars, TypeOK
<1>3. \E c \in Seq(Instr) : out' = out \o c /\ Plain(c)
  <2>1. CASE GenDecl \/ GenLeaf
    <3>1. /\ out' = out \o LeafCode(m_vars, Cur) /\ Cur.kind \in LeafKinds
          /\ ~LeafFails(m_vars, Cur)
      BY <2>1 DEF GenDecl, GenLeaf, At, LeafKinds
    <3>2. Cur.name \in Names /\ Cur.expr \in Expr
      BY <1>1, <1>2, StmtFields
    <3>3. Plain(LeafCode(m_vars, Cur)) /\ LeafCode(m_vars, Cur) \in Seq(Instr)
      BY <1>2, <3>1, <3>2, PlainLeaf
    <3> QED BY <3>1, <3>3
  <2>2. CASE GenParam
    <3> DEFINE p  == Cur.params[iter + 1]
               vs == EnsureVarSlot(m_vars, p.name, p.type)
               x  == Access("store", vs, p.name, SizeOf[p.type])
    <3>1. out' = Append(out, x) /\ iter + 1 \in 1..Len(Cur.params)
      BY <1>2, <2>2 DEF GenParam, TypeOK
    <3>2. p.name \in Names /\ p.type \in Types
      <4>1. Cur.params \in Seq(Param)
        BY <1>1, <1>2, StmtFields
      <4>2. p \in Param
        BY <3>1, <4>1
      <4> QED BY <4>2 DEF Param
    <3>3. vs \in Seq(Var) /\ Distinct(vs) /\ p.name \in VarNames(vs)
      <4> HIDE DEF p
      <4> QED BY <1>2, <3>2, EnsureVarSlotProps
    <3>4. x \in Instr /\ x.op = "store"
      <4> HIDE DEF vs, p
      <4>1. SizeOf[p.type] \in {1, 2, 4, 8}
        BY <3>2, SizeTypes
      <4>2. x \in Instr
        BY <3>2, <3>3, <4>1, AccessType
      <4> QED BY <4>2 DEF Access
    <3> HIDE DEF x
    <3>5. out' = out \o <<x>> /\ <<x>> \in Seq(Instr) /\ Plain(<<x>>)
      BY <1>2, <3>1, <3>4 DEF Plain
    <3> QED BY <3>5
  <2> QED BY <2>1, <2>2
<1> QED BY <1>3

LEMMA LeafText ==
  ASSUME IInv, LabelsFollow, ~nested', GenDecl \/ GenLeaf \/ GenParam
  PROVE  LabelsFollow'
<1>1. /\ phase \in {"gen", "params"} /\ phase' = phase /\ open' = open /\ nested' = nested
      /\ label' = label /\ More
  BY DEF GenDecl, GenLeaf, GenParam, At, tables, IInv, TypeOK
<1>2. /\ TypeOK /\ m_vars \in Seq(Var) /\ Distinct(m_vars) /\ out \in Seq(Instr)
  BY DEF IInv, NoDupVars, TypeOK
<1>3. Text(out, label, FrameEnds, FrameStarts) /\ (open # <<>> => Opens(Top.stmt))
  BY <1>1 DEF LabelsFollow, GenPhases
<1>4. PICK c \in Seq(Instr) : out' = out \o c /\ Plain(c)
  BY LeafAppends
<1>5. Text(out', label, FrameEnds, FrameStarts)
  BY <1>2, <1>3, <1>4, PlainText
<1>6. FrameEnds' = FrameEnds /\ FrameStarts' = FrameStarts
  BY <1>1, SameFrame
<1> QED BY <1>1, <1>3, <1>5, <1>6 DEF LabelsFollow, Top

(* A function ends its scope by the label its first jump goes to.          *)
LEMMA DeleteText ==
  ASSUME IInv, LabelsFollow, ~nested', StartDelete \/ DeleteVar \/ EnterFunc
  PROVE  LabelsFollow'
<1>1. /\ phase \in {"gen", "params", "delete"} /\ open' = open /\ nested' = nested /\ label' = label
  BY DEF StartDelete, DeleteVar, EnterFunc, At, tables
<1>2. TypeOK /\ out \in Seq(Instr) /\ label \in Nat
  BY DEF IInv, TypeOK
<1>3. Text(out, label, FrameEnds, FrameStarts) /\ (open # <<>> => Opens(Top.stmt))
  BY <1>1 DEF LabelsFollow, GenPhases
<1>4. CASE DeleteVar \/ EnterFunc
  <2>1. out' = out /\ (phase' = phase \/ ("delete" \notin {phase, phase'}))
    BY <1>4 DEF DeleteVar, EnterFunc
  <2>2. FrameEnds' = FrameEnds /\ FrameStarts' = FrameStarts
    BY <1>1, <2>1, SameFrame
  <2> QED BY <1>1, <1>3, <2>1, <2>2 DEF LabelsFollow, Top
<1>5. CASE StartDelete
  <2>1. phase = "gen" /\ phase' = "delete" /\ open # <<>> /\ Top' = Top
    BY <1>1, <1>5 DEF StartDelete, At, Top
  <2>2. CASE Top.stmt.kind = "FUNC"
    <3> DEFINE e == <<"placeholder", Top.id>>
               x == Label("placeholder", Top.id)
    <3>1. out' = Append(out, x) /\ FrameEnds = {e} /\ FrameStarts = {}
      BY <1>5, <2>1, <2>2 DEF StartDelete, FrameEnds, FrameStarts, EndTag
    <3>2. x \in Instr
      BY <1>2, <2>1, TopFrame, InstrTypes DEF Tags
    <3>3. out' = out \o <<x>>
      <4> HIDE DEF x
      <4> QED BY <1>2, <3>1, <3>2
    <3>4. Text(out, label, {e}, {})
      BY <1>3, <3>1
    <3>5. Text(out \o <<x>>, label, {e} \ {e}, {})
      <4>1. Text(out \o <<x>>, label, {e} \ {e},
                 IF "placeholder" = "placeholder" THEN {} ELSE {} \cup {e})
        BY <1>2, <3>2, <3>4, AwaitedLabel
      <4> QED BY <4>1
    <3>6. FrameEnds' = {e} \ {e} /\ FrameStarts' = {}
      BY <1>1, <2>1, <2>2 DEF FrameEnds, FrameStarts
    <3> QED BY <1>1, <1>3, <2>1, <3>3, <3>5, <3>6 DEF LabelsFollow
  <2>3. CASE Top.stmt.kind # "FUNC"
    <3>1. out' = out
      BY <1>5, <2>3 DEF StartDelete
    <3>2. FrameEnds' = FrameEnds /\ FrameStarts' = FrameStarts
      BY <1>1, <2>1, <2>3 DEF FrameEnds, FrameStarts
    <3> QED BY <1>1, <1>3, <2>1, <3>1, <3>2 DEF LabelsFollow
  <2> QED BY <2>2, <2>3
<1> QED BY <1>4, <1>5

(* The end of a body gets the label that its condition jumps to; WHILE and *)
(* FOR jump back to their start before.                                    *)
LEMMA CloseText ==
  ASSUME IInv, StackFollows, LabelsFollow, ~nested',
         CloseIfElse \/ CloseWhile \/ CloseFunc \/ CloseFor
  PROVE  LabelsFollow'
<1>1. /\ phase = "delete" /\ phase' = "gen" /\ open # <<>> /\ open' = Front(open)
      /\ nested' = nested /\ label' = label
  BY DEF CloseIfElse, CloseWhile, CloseFunc, CloseFor, Closing, LeaveBody, PopFrame
<1>2. /\ TypeOK /\ m_vars \in Seq(Var) /\ Distinct(m_vars) /\ out \in Seq(Instr) /\ label \in Nat
      /\ open \in Seq(Frm)
  BY DEF IInv, NoDupVars, TypeOK
<1>3. Text(out, label, FrameEnds, FrameStarts)
  BY <1>1 DEF LabelsFollow, GenPhases
<1>4. /\ Len(Front(open)) = Len(open) - 1 /\ Front(open) \in Seq(Frm) /\ Top.id \in Nat
      /\ Top.stmt.step \in Leaf
  BY <1>1, <1>2, TopFrame
<1>5. open' = <<>>
  <2>1. Len(open) \in {0, 1}
    BY <1>1, FewBodies DEF GenPhases
  <2>2. Len(Front(open)) = 0
    BY <1>2, <1>4, <2>1
  <2> QED BY <1>1, <1>4, <2>2, EmptySeq
<1>6. FrameEnds' = {} /\ FrameStarts' = {}
  BY <1>5 DEF FrameEnds, FrameStarts
<1> SUFFICES Text(out', label, {}, {})
  BY <1>1, <1>5, <1>6 DEF LabelsFollow
<1> DEFINE k == Top.id
<1>a. ASSUME Top.stmt.kind # "FUNC", NEW e \in FrameEnds PROVE e[2] < label
  BY <1>3, <1>a DEF Text, Awaited
<1>7. CASE CloseIfElse
  <2> DEFINE t == IF Top.stmt.kind = "IF" THEN "if_end" ELSE "else_end"
  <2>1. out' = Append(out, Label(t, k)) /\ Top.stmt.kind \in {"IF", "ELSE"}
    BY <1>7 DEF CloseIfElse, Closing
  <2>2. FrameEnds = {<<t, k>>} /\ t \in Tags \ {"placeholder", "_start"}
    BY <1>1, <2>1 DEF FrameEnds, EndTag, Tags
  <2> HIDE DEF t
  <2>3. {} = FrameEnds \ {<<t, k>>} /\ <<t, k>> \in FrameEnds
    BY <2>2
  <2>4. Text(out \o <<Label(t, k)>>, label, {}, FrameStarts \cup {<<t, k>>})
    BY <1>2, <1>3, <1>4, <2>2, <2>3, LocalLabel
  <2>5. out' = out \o <<Label(t, k)>>
    <3> DEFINE x == Label(t, k)
    <3>1. x \in Instr
      BY <1>4, <2>2, InstrTypes
    <3> HIDE DEF x
    <3>2. Append(out, x) = out \o <<x>>
      BY <1>2, <3>1
    <3> QED BY <2>1, <3>2 DEF x
  <2> QED BY <2>4, <2>5, ForgetStarts
<1>8. ASSUME NEW b \in Seq(Instr), NEW t \in Tags \ {"placeholder", "_start"},
             NEW s \in Tags, Text(b, label, {<<t, k>>}, {<<s, k>>}),
             out' = b \o <<Jump(s, k), Label(t, k)>>
      PROVE  Text(out', label, {}, {})
  <2> DEFINE x == Jump(s, k)
             y == Label(t, k)
  <2>1. x \in Instr /\ y \in Instr
    BY <1>4, InstrTypes
  <2>2. <<s, k>> \in {<<t, k>>} \cup {<<s, k>>} /\ k < label
    BY <1>8 DEF Text, Awaited
  <2>3. b \o <<x>> \in Seq(Instr) /\ Text(b \o <<x>>, label, {<<t, k>>}, {<<s, k>>})
    BY <1>4, <1>8, <2>2, LocalJump
  <2>4. <<t, k>> \in {<<t, k>>} /\ {} = {<<t, k>>} \ {<<t, k>>}
    OBVIOUS
  <2>5. Text((b \o <<x>>) \o <<y>>, label, {}, {<<s, k>>} \cup {<<t, k>>})
    <3> HIDE DEF x
    <3> QED BY <1>4, <2>3, <2>4, LocalLabel
  <2> HIDE DEF x, y
  <2>6. b \o <<x, y>> = (b \o <<x>>) \o <<y>>
    BY <2>1, JoinTwo, SMTT(30)
  <2> QED BY <1>8, <2>5, <2>6, ForgetStarts DEF x, y
<1>9. CASE CloseWhile
  <2>1. out' = out \o <<Jump("While_start", k), Label("While_end", k)>> /\ Top.stmt.kind = "WHILE"
    BY <1>9 DEF CloseWhile, Closing
  <2>2. FrameEnds = {<<"While_end", k>>} /\ FrameStarts = {<<"While_start", k>>}
    BY <1>1, <2>1 DEF FrameEnds, FrameStarts, EndTag, StartTag
  <2>3. "While_end" \in Tags \ {"placeholder", "_start"} /\ "While_start" \in Tags
    BY DEF Tags
  <2> QED BY <1>2, <1>3, <1>8, <2>1, <2>2, <2>3
<1>10. CASE CloseFor
  <2> DEFINE l == LeafCode(m_vars, Top.stmt.step)
  <2>1. /\ out' = out \o l \o <<Jump("For_start", k), Label("For_end", k)>>
        /\ Top.stmt.kind = "FOR" /\ ~LeafFails(m_vars, Top.stmt.step)
    BY <1>10 DEF CloseFor, Closing
  <2>2. FrameEnds = {<<"For_end", k>>} /\ FrameStarts = {<<"For_start", k>>}
    BY <1>1, <2>1 DEF FrameEnds, FrameStarts, EndTag, StartTag
  <2>3. "For_end" \in Tags \ {"placeholder", "_start"} /\ "For_start" \in Tags
    BY DEF Tags
  <2>4. l \in Seq(Instr) /\ Plain(l)
    BY <1>2, <1>4, <2>1, LeafFields, PlainLeaf
  <2> HIDE DEF l
  <2>5. out \o l \in Seq(Instr) /\ Text(out \o l, label, FrameEnds, FrameStarts)
    BY <1>2, <1>3, <2>4, PlainText
  <2> QED BY <1>8, <2>1, <2>2, <2>3, <2>5
<1>11. CASE CloseFunc
  <2>1. out' = out /\ Top.stmt.kind = "FUNC"
    BY <1>11 DEF CloseFunc, Closing
  <2>2. FrameEnds = {}
    BY <1>1, <2>1 DEF FrameEnds
  <2> QED BY <1>3, <2>1, <2>2, ForgetStarts
<1> QED BY <1>7, <1>9, <1>10, <1>11

LEMMA LabelsNext ==
  ASSUME IInv, LInv, StackFollows, LabelsFollow, [Next]_vars
  PROVE  LabelsFollow'
<1> SUFFICES ASSUME phase' \in GenPhases, ~nested' PROVE LabelsFollow'
  BY DEF LabelsFollow
<1> USE DEF GenPhases
<1>1. CASE OpenIf \/ OpenElse \/ OpenWhile \/ OpenFor \/ OpenFunc
  BY <1>1, OpenText
<1>2. CASE GenDecl \/ GenLeaf \/ GenParam
  BY <1>2, LeafText
<1>3. CASE StartDelete \/ DeleteVar \/ EnterFunc
  BY <1>3, DeleteText
<1>4. CASE CloseIfElse \/ CloseWhile \/ CloseFunc \/ CloseFor
  BY <1>4, CloseText
<1>5. CASE CollectVars \/ AssignSlots \/ Exit \/ Crash
  BY <1>5 DEF CollectVars, AssignSlots, Walk, Exit, Crash, Halt
<1>6. CASE NextPass
  <2> DEFINE x == Label("_start", 0)
             y == [op |-> "reserve", bytes |-> ReservedBytes]
  <2>1. open' = <<>> /\ out' = <<x, y>>
    BY <1>6 DEF NextPass
  <2>2. x.op = "label" /\ x.tag = "_start" /\ x.id = 0 /\ y.op = "reserve"
    BY DEF Label
  <2> HIDE DEF x, y
  <2>3. \A i \in DOMAIN out' : out'[i] = x \/ out'[i] = y
    BY <2>1
  <2>4. Text(out', label', {}, {})
    <3>1. Numbered(out', label')
      BY <2>2, <2>3 DEF Numbered
    <3>2. Awaited(out', label', {}) /\ Reachable(out', {})
      BY DEF Awaited, Reachable
    <3>3. Jumps(out', {})
      BY <2>2, <2>3 DEF Jumps
    <3> QED BY <3>1, <3>2, <3>3 DEF Text
  <2>5. FrameEnds' = {} /\ FrameStarts' = {}
    BY <2>1 DEF FrameEnds, FrameStarts
  <2> QED BY <2>1, <2>4, <2>5 DEF LabelsFollow
<1>7. CASE Finish \/ UNCHANGED vars
  <2>1. /\ open' = open /\ out' = out /\ label' = label /\ nested' = nested
        /\ phase \in GenPhases /\ (phase' = phase \/ "delete" \notin {phase, phase'})
    BY <1>7 DEF Finish, Halt, vars, tables
  <2>2. FrameEnds' = FrameEnds /\ FrameStarts' = FrameStarts
    BY <2>1, SameFrame
  <2> QED BY <2>1, <2>2 DEF LabelsFollow, Top
<1> QED BY <1>1, <1>2, <1>3, <1>4, <1>5, <1>6, <1>7 DEF Next, Step, Gen, Del, Terminated

(* At every moment of a compilation that nests no bodies, the jumps of the *)
(* text have their targets, but for those to the end of the open body.     *)
THEOREM LabelsAwaited == Spec => []LabelsFollow
<1>1. Init => LabelsFollow
  BY DEF Init, LabelsFollow, GenPhases
<1>2. IInv /\ LInv /\ StackFollows /\ LabelsFollow /\ [Next]_vars => LabelsFollow'
  BY LabelsNext
<1> QED BY <1>1, <1>2, Invariance, Lookups, StackOfBodies, PTL DEF Spec

(* Every function that starts in a text is one of the program.             *)
Named(p, o) == \A j \in DOMAIN o : o[j].op = "func" =>
                 \E k \in DOMAIN p : p[k].kind = "FUNC" /\ p[k].name = o[j].name
FuncsNamed  == Named(prog, out)

NoFunc(c) == \A j \in DOMAIN c : c[j].op # "func"

LEMMA NamedMore ==
  ASSUME NEW p, NEW o \in Seq(Instr), NEW c \in Seq(Instr), Named(p, o), NoFunc(c)
  PROVE  o \o c \in Seq(Instr) /\ Named(p, o \o c)
<1> DEFINE u == o \o c
<1>1. /\ DOMAIN u = 1..(Len(o) + Len(c)) /\ DOMAIN o = 1..Len(o) /\ Len(o) \in Nat
      /\ \A j \in 1..Len(o) : u[j] = o[j]
      /\ \A j \in (Len(o) + 1)..(Len(o) + Len(c)) : u[j] = c[j - Len(o)] /\ j - Len(o) \in DOMAIN c
      /\ Len(c) \in Nat
  BY LongerText
<1>2. u \in Seq(Instr)
  OBVIOUS
<1> HIDE DEF u
<1>3. \A j \in DOMAIN u : u[j].op = "func" => j \in DOMAIN o /\ u[j] = o[j]
  BY <1>1 DEF NoFunc
<1> QED BY <1>2, <1>3 DEF Named, u

(* One instruction, or two, that start no function.                        *)
LEMMA NamedTwo ==
  ASSUME NEW p, NEW o \in Seq(Instr), Named(p, o),
         NEW x \in Instr, NEW y \in Instr, x.op # "func", y.op # "func"
  PROVE  /\ o \o <<x>> \in Seq(Instr) /\ Named(p, o \o <<x>>)
         /\ Named(p, Append(o, x)) /\ Named(p, o \o <<x, y>>)
<1>1. /\ <<x>> \in Seq(Instr) /\ NoFunc(<<x>>) /\ <<x, y>> \in Seq(Instr) /\ NoFunc(<<x, y>>)
  BY DEF NoFunc
<1>2. Append(o, x) = o \o <<x>>
  BY AppendIsConcat
<1>3. \A c \in Seq(Instr) : NoFunc(c) => o \o c \in Seq(Instr) /\ Named(p, o \o c)
  BY NamedMore
<1> DEFINE s == <<x>>
           d == <<x, y>>
<1> HIDE DEF s, d
<1>4. o \o s \in Seq(Instr) /\ Named(p, o \o s) /\ Named(p, o \o d)
  BY <1>1, <1>3 DEF s, d
<1> QED BY <1>2, <1>4 DEF s, d

LEMMA FuncsNext ==
  ASSUME IInv, FuncsNamed, [Next]_vars
  PROVE  FuncsNamed'
<1>1. /\ TypeOK /\ m_vars \in Seq(Var) /\ Distinct(m_vars) /\ out \in Seq(Instr) /\ label \in Nat
      /\ Named(prog, out)
  BY DEF IInv, NoDupVars, TypeOK, FuncsNamed
<1>2. \A t \in Tags, n \in Nat : /\ Label(t, n) \in Instr /\ Label(t, n).op # "func"
                               /\ Jump(t, n) \in Instr /\ Jump(t, n).op # "func"
  BY InstrTypes DEF Label, Jump
<1>3. {"placeholder", "if_end", "else_end", "While_start", "While_end", "For_start", "For_end"}
        \subseteq Tags
  BY DEF Tags
<1>4. \A c : Plain(c) => NoFunc(c)
  BY DEF Plain, NoFunc
<1> DEFINE Good(o) == o \in Seq(Instr) /\ Named(prog, o)
<1>5. \A o, x : Good(o) /\ x \in Instr /\ x.op # "func"
                 => Good(o \o <<x>>) /\ Named(prog, Append(o, x))
  BY NamedTwo
<1>6. \A o, x, y : Good(o) /\ x \in Instr /\ x.op # "func" /\ y \in Instr /\ y.op # "func"
                    => Named(prog, o \o <<x, y>>)
  BY NamedTwo
<1>7. \A o, c : Good(o) /\ c \in Seq(Instr) /\ Plain(c) => Good(o \o c)
  BY <1>4, NamedMore
<1>8. Good(out)
  BY <1>1
<1> HIDE DEF Good
<1>9. ASSUME prog' = prog, Good(out') PROVE FuncsNamed'
  BY <1>9 DEF FuncsNamed, Good
<1>10. CASE OpenIf \/ OpenWhile \/ OpenFor
  <2> DEFINE a == ExprCode(m_vars, Cur.expr, Cur.kind)
             l == LeafCode(m_vars, Cur.init)
  <2>1. /\ phase = "gen" /\ More /\ prog' = prog /\ ~ExprFails(m_vars, Cur.expr)
        /\ Cur.kind \in {"IF", "WHILE", "FOR"}
    BY <1>10 DEF OpenIf, OpenWhile, OpenFor, At, EnterBody
  <2>2. Cur.expr \in Expr /\ Cur.expr.uses \in Seq(Names) /\ Cur.init \in Leaf
    BY <1>1, <2>1, StmtFields DEF Expr
  <2>3. a \in Seq(Instr) /\ Plain(a)
    BY <1>1, <2>1, <2>2, ExprCodeType, PlainExpr
  <2> HIDE DEF a
  <2>4. CASE OpenIf
    <3>1. out' = out \o a \o <<Jump("if_end", label)>>
      BY <2>4 DEF OpenIf, At, a
    <3> QED BY <1>1, <1>2, <1>3, <1>5, <1>7, <1>8, <1>9, <2>1, <2>3, <3>1
  <2>5. CASE OpenWhile
    <3>1. out' = out \o <<Label("While_start", label)>> \o a \o <<Jump("While_end", label)>>
      BY <2>5 DEF OpenWhile, At, a
    <3>2. Good(out \o <<Label("While_start", label)>> \o a)
      BY <1>1, <1>2, <1>3, <1>5, <1>7, <1>8, <2>3
    <3> QED BY <1>1, <1>2, <1>3, <1>5, <1>9, <2>1, <3>1, <3>2
  <2>6. CASE OpenFor
    <3>1. out' = out \o l \o <<Label("For_start", label)>> \o a \o <<Jump("For_end", label)>>
      BY <2>6 DEF OpenFor, At, a
    <3>2. l \in Seq(Instr) /\ Plain(l)
      <4>1. Cur.init.kind \in LeafKinds /\ Cur.init.name \in Names /\ Cur.init.expr \in Expr
        BY <2>2, LeafFields
      <4> QED BY <1>1, <2>6, <4>1, PlainLeaf DEF OpenFor
    <3> HIDE DEF l
    <3>3. Good(out \o l \o <<Label("For_start", label)>> \o a)
      BY <1>1, <1>2, <1>3, <1>5, <1>7, <1>8, <2>3, <3>2
    <3> QED BY <1>1, <1>2, <1>3, <1>5, <1>9, <2>1, <3>1, <3>3
  <2> QED BY <1>10, <2>4, <2>5, <2>6
<1>11. CASE OpenFunc
  <2> DEFINE j == Jump("placeholder", label)
             f == [op |-> "func", name |-> Cur.name]
             o == out \o <<j>>
             u == o \o <<f>>
  <2>1. out' = out \o <<j, f>> /\ prog' = prog /\ More /\ Cur.kind = "FUNC"
    BY <1>11 DEF OpenFunc, At, tables
  <2>2. Cur.name \in Names /\ pc \in DOMAIN prog
    BY <1>1, <2>1, StmtFields, PcType
  <2>3. j \in Instr /\ f \in Instr
    BY <1>1, <1>2, <1>3, <2>2, InstrTypes
  <2>4. Good(o)
    BY <1>1, <1>2, <1>3, <1>5, <1>8
  <2>5. out' = u
    <3> HIDE DEF j, f
    <3>1. out \o <<j, f>> = (out \o <<j>>) \o <<f>>
      BY <1>1, <2>3, JoinTwo
    <3> QED BY <2>1, <3>1
  <2>6. f.op = "func" /\ f.name = prog[pc].name /\ prog[pc].kind = "FUNC"
    BY <2>1 DEF Cur
  <2> HIDE DEF j, f, o
  <2>7. /\ DOMAIN u = DOMAIN o \cup {Len(o) + 1} /\ u[Len(o) + 1] = f
        /\ \A i \in DOMAIN o : u[i] = o[i]
    <3>1. o \in Seq(Instr)
      BY <2>4 DEF Good
    <3> QED BY <2>3, <3>1
  <2> HIDE DEF u
  <2>8. Named(prog, u)
    BY <2>2, <2>4, <2>6, <2>7 DEF Named, Good
  <2> QED BY <2>1, <2>5, <2>8 DEF FuncsNamed
<1>12. CASE GenDecl \/ GenLeaf \/ GenParam
  <2>1. PICK c \in Seq(Instr) : out' = out \o c /\ Plain(c)
    BY <1>12, LeafAppends
  <2>2. prog' = prog
    BY <1>12 DEF GenDecl, GenLeaf, GenParam
  <2> QED BY <1>7, <1>8, <1>9, <2>1, <2>2
<1>13. ASSUME prog' = prog, Named(prog, out') PROVE FuncsNamed'
  BY <1>13 DEF FuncsNamed
<1>14. CASE StartDelete \/ CloseIfElse \/ CloseWhile \/ CloseFor
  <2>1. open # <<>> /\ prog' = prog
    BY <1>14 DEF StartDelete, CloseIfElse, CloseWhile, CloseFor, LeaveBody, PopFrame
  <2>2. Top.id \in Nat /\ Top.stmt.step \in Leaf
    BY <1>1, <2>1, TopFrame
  <2>3. CASE StartDelete
    <3>1. out' = out \/ out' = Append(out, Label("placeholder", Top.id))
      BY <2>3 DEF StartDelete
    <3> QED BY <1>1, <1>2, <1>3, <1>5, <1>8, <1>13, <2>1, <2>2, <3>1
  <2>4. CASE CloseIfElse
    <3>1. PICK t \in {"if_end", "else_end"} : out' = Append(out, Label(t, Top.id))
      BY <2>4 DEF CloseIfElse
    <3>2. Label(t, Top.id) \in Instr /\ Label(t, Top.id).op # "func"
      BY <1>2, <1>3, <2>2
    <3> QED BY <1>5, <1>8, <1>13, <2>1, <3>1, <3>2
  <2>5. CASE CloseWhile
    <3>1. out' = out \o <<Jump("While_start", Top.id), Label("While_end", Top.id)>>
      BY <2>5 DEF CloseWhile
    <3> QED BY <1>2, <1>3, <1>6, <1>8, <1>13, <2>1, <2>2, <3>1
  <2>6. CASE CloseFor
    <3> DEFINE l == LeafCode(m_vars, Top.stmt.step)
    <3>1. /\ out' = out \o l \o <<Jump("For_start", Top.id), Label("For_end", Top.id)>>
          /\ ~LeafFails(m_vars, Top.stmt.step)
      BY <2>6 DEF CloseFor
    <3>2. l \in Seq(Instr) /\ Plain(l)
      BY <1>1, <2>2, <3>1, LeafFields, PlainLeaf
    <3> HIDE DEF l
    <3>3. Good(out \o l)
      BY <1>7, <1>8, <3>2
    <3> QED BY <1>2, <1>3, <1>6, <1>13, <2>1, <2>2, <3>1, <3>3
  <2> QED BY <1>14, <2>3, <2>4, <2>5, <2>6
<1>15. CASE NextPass
  <2> DEFINE x == Label("_start", 0)
             y == [op |-> "reserve", bytes |-> ReservedBytes]
  <2>1. prog' = prog /\ (out' = out \/ out' = <<x, y>>)
    BY <1>15 DEF NextPass
  <2>2. x.op # "func" /\ y.op # "func"
    BY DEF Label
  <2> HIDE DEF x, y
  <2>3. Named(prog, <<x, y>>)
    BY <2>2 DEF Named
  <2> QED BY <1>1, <1>13, <2>1, <2>3
<1>16. CASE \/ OpenElse \/ EnterFunc \/ DeleteVar \/ CloseFunc \/ CollectVars \/ AssignSlots
            \/ Exit \/ Crash \/ Finish \/ UNCHANGED vars
  <2>1. prog' = prog /\ out' = out
    BY <1>16 DEF OpenElse, EnterBody, EnterFunc, DeleteVar, CloseFunc, LeaveBody, CollectVars,
                 AssignSlots, Walk, Exit, Crash, Finish, Halt, vars
  <2> QED BY <1>1, <1>13, <2>1
<1> QED BY <1>10, <1>11, <1>12, <1>14, <1>15, <1>16 DEF Next, Step, Gen, Del, Terminated

(* A function starts in the text only where the program has it.            *)
THEOREM FuncsFollow == Spec => []FuncsNamed
<1>1. Init => FuncsNamed
  BY DEF Init, FuncsNamed, Named
<1>2. IInv /\ FuncsNamed /\ [Next]_vars => FuncsNamed'
  BY FuncsNext
<1> QED BY <1>1, <1>2, Invariance, PTL DEF Spec

(* Every jump of a finished assembly text has exactly one target, which is *)
(* in the NASM scope of the jump unless it is the placeholder behind a     *)
(* function.  A function of the program that is spelled like a placeholder *)
(* would be a second target of the jumps there, and of no other jump.      *)
THEOREM JumpsResolved == Spec => []JumpsResolve
<1>1. IInv /\ LabelsFollow /\ FuncsNamed /\ NoNestedBlockCompiles => JumpsResolve
  <2> SUFFICES ASSUME IInv, LabelsFollow, FuncsNamed, NoNestedBlockCompiles, phase = "done",
                      NEW i \in DOMAIN out, out[i].op = "jump",
                      out[i].tag = "placeholder" => ~Taken(out[i].id)
               PROVE  /\ Cardinality(Targets(i)) = 1
                      /\ out[i].tag # "placeholder" =>
                           \A j \in Targets(i) : ScopeOf(j) = ScopeOf(i)
    BY DEF JumpsResolve
  <2>1. open = <<>> /\ ~nested /\ out \in Seq(Instr)
    BY DEF IInv, TypeOK, NoNestedBlockCompiles
  <2>2. Text(out, label, {}, {})
    BY <2>1 DEF LabelsFollow, GenPhases, FrameEnds, FrameStarts
  <2>3. Met(out, i)
    BY <2>2 DEF Text, Jumps
  <2>4. Targets(i) = LabelsAt(out, <<out[i].tag, out[i].id>>)
    <3>1. ASSUME NEW j \in DOMAIN out, out[j].op = "func", out[i].tag = "placeholder"
          PROVE  <<out[j].name, out[i].id>> \notin Spelling
      BY <3>1 DEF FuncsNamed, Named, Taken
    <3> QED BY <3>1 DEF Targets, LabelsAt
  <2>5. PICK a \in DOMAIN out :
          Targets(i) = {a} /\ (out[i].tag # "placeholder" => OneScope(out, i, a))
    BY <2>3, <2>4 DEF Met
  <2>6. Cardinality(Targets(i)) = 1
    BY <2>5, FS_Singleton
  <2>7. ASSUME OneScope(out, i, a) PROVE ScopeOf(a) = ScopeOf(i)
    <3>1. DOMAIN out = 1..Len(out) /\ Len(out) \in Nat
      BY <2>1
    <3>2. \A k \in 1..Len(out) : NonLocal(k) <=> NonLocalIn(out, k)
      BY DEF NonLocal, NonLocalIn
    <3>3. \A k \in 1..Len(out) : NonLocal(k) => (k <= i <=> k <= a)
      BY <2>7, <3>2 DEF OneScope
    <3> QED BY <3>1, <3>3 DEF ScopeOf
  <2> QED BY <2>5, <2>6, <2>7
<1> QED BY <1>1, Invariance, NestingRejected, LabelsAwaited, FuncsFollow, PTL
-----------------------------------------------------------------------------
(* What the earlier modules prove of every reachable state.                *)
Base == IInv /\ LInv /\ StackFollows /\ EnteredInv

LEMMA BaseHolds == Spec => []Base
BY Invariance, Lookups, StackOfBodies, Entered, PTL DEF Base

LEMMA BaseTypes ==
  ASSUME Base
  PROVE  /\ prog \in Seq(Stmt) /\ Len(prog) \in Nat /\ pc \in 1..(Len(prog) + 1) /\ pc \in Nat \ {0}
         /\ m_vars \in Seq(Var) /\ Distinct(m_vars) /\ m_block \in Seq(Seq(Names))
         /\ open \in Seq(Frm) /\ iter \in Nat /\ nested \in BOOLEAN /\ bound \in SUBSET Bound
         /\ TypeOK /\ NoDupVars
<1>1. prog \in Seq(Stmt)
  BY ProgramsAssumption DEF Base, IInv, TypeOK
<1>2. Len(prog) \in Nat /\ pc \in 1..(Len(prog) + 1)
  BY <1>1 DEF Base, IInv, TypeOK
<1> QED BY <1>1, <1>2 DEF Base, IInv, TypeOK, NoDupVars

(* While no body is nested there is at most one, with its row.             *)
LEMMA OneBody ==
  ASSUME Base, phase \in GenPhases, ~nested
  PROVE  /\ Len(open) \in {0, 1} /\ (open = <<>> <=> Len(open) = 0)
         /\ Len(m_block) = IF phase = "params" THEN 0 ELSE Len(open)
         /\ Depth(prog, pc) = IF phase = "params" THEN 0 ELSE Len(open)
         /\ \A k \in 1..pc : Depth(prog, k) \in {0, 1}
<1>1. Len(open) \in {0, 1} /\ (phase = "params" => Depth(prog, pc) = 0)
  BY FewBodies DEF Base
<1>2. Rows = Len(open) /\ Len(m_block) \in Nat /\ Len(open) \in Nat
  BY BaseTypes DEF Base, IInv, RowsFollowBodies, GenPhases
<1>3. /\ Len(open) = Depth(prog, pc) + (IF phase = "params" THEN 1 ELSE 0)
      /\ \A k \in 1..pc : Depth(prog, k) \in Nat
  BY DEF Base, StackFollows, Live, GenPhases, DepthFollows
<1>4. pc \in 1..pc
  BY BaseTypes
<1>5. Len(m_block) = IF phase = "params" THEN 0 ELSE Len(open)
  <2>1. phase = "params" => Len(open) = 1
    BY <1>1, <1>3, <1>4
  <2>2. CASE phase = "params"
    <3>1. Len(m_block) + 1 = 1
      BY <1>2, <2>1, <2>2 DEF Rows
    <3> QED BY <1>2, <2>2, <3>1
  <2>3. CASE phase # "params"
    BY <1>2, <2>3 DEF Rows
  <2> QED BY <2>2, <2>3
<1>6. Depth(prog, pc) = IF phase = "params" THEN 0 ELSE Len(open)
  BY <1>1, <1>3, <1>4
<1>7. \A k \in 1..pc : Depth(prog, k) <= 1
  BY DEF Base, EnteredInv, FlatBodies
<1>8. \A k \in 1..pc : Depth(prog, k) \in {0, 1}
  BY <1>3, <1>7
<1>9. open = <<>> <=> Len(open) = 0
  BY BaseTypes, EmptySeq
<1> QED BY <1>1, <1>5, <1>6, <1>8, <1>9
-----------------------------------------------------------------------------
(* Scopes in the listing.                                                  *)

(* The body that holds statement i has been closed before statement k.     *)
ClosedAt(p, i, k) == \E j \in (i + 1)..k : Depth(p, j) < Depth(p, i)
IsLocal(p, i)     == p[i].kind \in DeclKinds /\ Depth(p, i) = 1

LEMMA ClosedNext ==
  ASSUME NEW p, NEW k \in Nat, NEW i \in 1..k
  PROVE  ClosedAt(p, i, k + 1) <=> ClosedAt(p, i, k) \/ Depth(p, k + 1) < Depth(p, i)
<1>1. (i + 1)..(k + 1) = ((i + 1)..k) \cup {k + 1}
  OBVIOUS
<1> QED BY <1>1 DEF ClosedAt

LEMMA ClosedLater ==
  ASSUME NEW p, NEW k \in Nat, NEW m \in Nat, k <= m, NEW i \in Nat, ClosedAt(p, i, k)
  PROVE  ClosedAt(p, i, m)
<1>1. (i + 1)..k \subseteq (i + 1)..m
  OBVIOUS
<1> QED BY <1>1 DEF ClosedAt
-----------------------------------------------------------------------------
(* The table without an entry.                                             *)

LEMMA ShiftOutExact ==
  ASSUME NEW vs \in Seq(Var), Distinct(vs), NEW key \in VarNames(vs)
  PROVE  LET ws == ShiftOut(vs, EntryOf(vs, key))
         IN  /\ VarNames(ws) = VarNames(vs) \ {key}
             /\ \A u \in VarNames(vs) \ {key} :
                  EntryOf(ws, u) = IF EntryOf(vs, u) < EntryOf(vs, key) THEN EntryOf(vs, u)
                                   ELSE EntryOf(vs, u) - 1
<1> DEFINE e  == EntryOf(vs, key)
           ws == ShiftOut(vs, e)
           n  == Len(vs)
<1>1. e \in 1..n /\ vs[e].name = key /\ n \in Nat
  BY EntryOfProps
<1>2. /\ ws \in Seq(Var) /\ Len(ws) = n - 1
      /\ \A k \in 1..(n - 1) : ws[k] = IF k < e THEN vs[k] ELSE vs[k + 1]
  BY <1>1, RemoveAtProps DEF ShiftOut
<1>3. Distinct(ws)
  BY <1>1, ShiftOutProps
<1> HIDE DEF e, ws, n
<1>4. ASSUME NEW u \in VarNames(vs), u # key
      PROVE  /\ u \in VarNames(ws)
             /\ EntryOf(ws, u) = IF EntryOf(vs, u) < e THEN EntryOf(vs, u) ELSE EntryOf(vs, u) - 1
  <2> DEFINE k == EntryOf(vs, u)
             m == IF k < e THEN k ELSE k - 1
  <2>1. k \in 1..n /\ vs[k].name = u
    BY EntryOfProps DEF n
  <2>2. k # e
    BY <1>1, <1>4, <2>1
  <2> HIDE DEF k
  <2>3. m \in 1..(n - 1) /\ ws[m] = vs[k]
    BY <1>1, <1>2, <2>1, <2>2
  <2>4. m \in DOMAIN ws /\ ws[m].name = u
    BY <1>1, <1>2, <2>1, <2>3
  <2> HIDE DEF m
  <2>5. u \in VarNames(ws)
    BY <2>4 DEF VarNames
  <2>6. EntryOf(ws, u) \in DOMAIN ws /\ ws[EntryOf(ws, u)].name = u
    BY <1>2, <1>3, <2>5, EntryOfProps
  <2>7. EntryOf(ws, u) = m
    BY <1>3, <2>4, <2>6 DEF Distinct
  <2> QED BY <2>5, <2>7 DEF m, k
<1>5. ASSUME NEW i \in DOMAIN ws PROVE ws[i].name \in VarNames(vs) \ {key}
  <2>1. i \in 1..(n - 1)
    BY <1>1, <1>2
  <2> DEFINE k == IF i < e THEN i ELSE i + 1
  <2>2. k \in 1..n /\ k # e /\ ws[i] = vs[k]
    BY <1>1, <1>2, <2>1
  <2>3. DOMAIN vs = 1..n
    BY DEF n
  <2> HIDE DEF k
  <2>4. vs[k].name # key
    BY <1>1, <2>2, <2>3 DEF Distinct
  <2> QED BY <2>2, <2>3, <2>4 DEF VarNames
<1>6. VarNames(ws) = VarNames(vs) \ {key}
  BY <1>4, <1>5 DEF VarNames
<1> QED BY <1>4, <1>6 DEF ws, e
-----------------------------------------------------------------------------
(* The row of the open body.                                               *)

(* The locals declared so far in the body that is open at pc.              *)
OpenLocals == {i \in 1..(pc - 1) : IsLocal(prog, i) /\ ~ClosedAt(prog, i, pc)}

RowFollows ==
  phase \in {"gen", "delete"} /\ ~nested /\ open # <<>> =>
    ToSet(Last(m_block)) = {prog[i].name : i \in OpenLocals}

LEMMA LeafLocals ==
  ASSUME Base, phase = "gen", ~nested, open # <<>>, ~Opens(Cur), ~Closes(Cur),
         prog' = prog, pc' = pc + 1
  PROVE  OpenLocals' = OpenLocals \cup (IF Cur.kind \in DeclKinds THEN {pc} ELSE {})
<1>1. /\ Depth(prog, pc) = 1 /\ Depth(prog, pc + 1) = 1 /\ pc \in Nat \ {0}
      /\ \A k \in 1..pc : Depth(prog, k) \in {0, 1}
  <2>1. pc \in Nat \ {0}
    BY BaseTypes
  <2>2. phase \in GenPhases /\ phase # "params"
    BY DEF GenPhases
  <2>3. Depth(prog, pc) = 1 /\ \A k \in 1..pc : Depth(prog, k) \in {0, 1}
    BY <2>2, OneBody
  <2>4. Depth(prog, pc + 1) = Depth(prog, pc) + 0
    BY <2>1, DepthStep DEF Delta, Cur
  <2> QED BY <2>1, <2>3, <2>4
<1>2. ASSUME NEW i \in 1..pc, IsLocal(prog, i) PROVE ClosedAt(prog, i, pc + 1) <=> ClosedAt(prog, i, pc)
  BY <1>1, <1>2, ClosedNext DEF IsLocal
<1>3. ~ClosedAt(prog, pc, pc)
  <2>1. (pc + 1)..pc = {}
    BY <1>1
  <2> QED BY <2>1 DEF ClosedAt
<1>4. IsLocal(prog, pc) <=> Cur.kind \in DeclKinds
  BY <1>1 DEF IsLocal, Cur
<1>5. OpenLocals' = {i \in 1..pc : IsLocal(prog, i) /\ ~ClosedAt(prog, i, pc)}
  <2>1. pc' - 1 = pc
    BY <1>1
  <2>2. OpenLocals' = {i \in 1..pc : IsLocal(prog, i) /\ ~ClosedAt(prog, i, pc + 1)}
    BY <2>1 DEF OpenLocals
  <2> QED BY <1>2, <2>2
<1>6. 1..pc = 1..(pc - 1) \cup {pc}
  BY <1>1
<1> QED BY <1>3, <1>4, <1>5, <1>6 DEF OpenLocals

(* A body starts without locals.                                           *)
LEMMA BodyLocals ==
  ASSUME Base, Depth(prog, pc) = 0, Cur.kind \notin DeclKinds, prog' = prog, pc' = pc + 1
  PROVE  OpenLocals' = {}
<1>1. pc \in Nat \ {0} /\ pc' - 1 = pc
  BY BaseTypes
<1>2. ASSUME NEW i \in 1..pc, IsLocal(prog, i) PROVE ClosedAt(prog, i, pc + 1)
  <2>1. i # pc
    BY <1>2 DEF IsLocal, Cur
  <2>2. pc \in (i + 1)..(pc + 1) /\ Depth(prog, pc) < Depth(prog, i)
    BY <1>1, <1>2, <2>1 DEF IsLocal
  <2> QED BY <2>2 DEF ClosedAt
<1> QED BY <1>1, <1>2 DEF OpenLocals

LEMMA RowAppend ==
  ASSUME NEW rows \in Seq(Seq(Names)), NEW s, s.name \in Names
  PROVE  /\ Last(Append(rows, <<>>)) = <<>> /\ ToSet(Last(Append(rows, <<>>))) = {}
         /\ s.kind \in DeclKinds /\ rows # <<>> =>
              ToSet(Last(DeclareLocal(rows, s))) = ToSet(Last(rows)) \cup {s.name}
<1>1. Last(Append(rows, <<>>)) = <<>>
  BY DEF Last
<1>2. ToSet(<<>>) = {}
  BY DEF ToSet
<1>3. ASSUME s.kind \in DeclKinds, rows # <<>>
      PROVE  ToSet(Last(DeclareLocal(rows, s))) = ToSet(Last(rows)) \cup {s.name}
  <2> DEFINE n == Len(rows)
             r == rows[n]
  <2>1. n \in 1..Len(rows) /\ Len(rows) \in Nat
    BY <1>3, EmptySeq
  <2>2. r \in Seq(Names)
    BY <2>1
  <2>3. DeclareLocal(rows, s) = [rows EXCEPT ![n] = Append(r, s.name)]
    BY <1>3 DEF DeclareLocal
  <2>4. Len(DeclareLocal(rows, s)) = n
    BY DeclareLocalType
  <2>5. Last(DeclareLocal(rows, s)) = Append(r, s.name) /\ Last(rows) = r
    BY <2>1, <2>3, <2>4 DEF Last
  <2> HIDE DEF r
  <2>6. /\ DOMAIN Append(r, s.name) = DOMAIN r \cup {Len(r) + 1}
        /\ Append(r, s.name)[Len(r) + 1] = s.name
        /\ \A j \in DOMAIN r : Append(r, s.name)[j] = r[j]
    BY <2>2
  <2>7. ToSet(Append(r, s.name)) = ToSet(r) \cup {s.name}
    BY <2>6 DEF ToSet
  <2> QED BY <2>5, <2>7
<1> QED BY <1>1, <1>2, <1>3

LEMMA RowNext ==
  ASSUME Base, Base', RowFollows, [Next]_vars
  PROVE  RowFollows'
<1> SUFFICES ASSUME phase' \in {"gen", "delete"}, ~nested', open' # <<>>
             PROVE  ToSet(Last(m_block')) = {prog'[i].name : i \in OpenLocals'}
  BY DEF RowFollows
<1>0. Live' /\ ~Restart
  BY DEF Live, Restart
<1>1. phase \in GenPhases /\ ~nested /\ prog' = prog
  BY <1>0, BaseTypes, StepHistory DEF GenPhases
<1>2. /\ Len(open) \in {0, 1} /\ (open = <<>> <=> Len(open) = 0)
      /\ Len(m_block) = IF phase = "params" THEN 0 ELSE Len(open)
      /\ Depth(prog, pc) = IF phase = "params" THEN 0 ELSE Len(open)
  BY <1>1, OneBody
<1>3. /\ m_block \in Seq(Seq(Names)) /\ open \in Seq(Frm)
      /\ phase \in {"gen", "delete"} /\ open # <<>> =>
           m_block # <<>> /\ ToSet(Last(m_block)) = {prog[i].name : i \in OpenLocals}
  BY <1>1, <1>2, BaseTypes, EmptySeq DEF RowFollows
<1>4. CASE GenDecl
  <2>1. /\ phase = "gen" /\ More /\ Cur.kind \in DeclKinds /\ open' = open /\ pc' = pc + 1
        /\ m_block' = DeclareLocal(m_block, Cur)
    BY <1>4 DEF GenDecl, At
  <2>2. ~Opens(Cur) /\ ~Closes(Cur)
    BY <2>1 DEF Opens, Closes, OpenKinds, DeclKinds
  <2>3. OpenLocals' = OpenLocals \cup {pc}
    BY <1>1, <2>1, <2>2, LeafLocals
  <2>4. Cur.name \in Names
    BY <2>1, BaseTypes, StmtFields
  <2>5. ToSet(Last(m_block')) = ToSet(Last(m_block)) \cup {Cur.name}
    BY <1>3, <2>1, <2>4, RowAppend
  <2> QED BY <1>1, <1>3, <2>1, <2>3, <2>5 DEF Cur
<1>5. CASE GenLeaf
  <2>1. /\ phase = "gen" /\ Cur.kind \in LeafKinds \ DeclKinds /\ open' = open /\ pc' = pc + 1
        /\ m_block' = m_block
    BY <1>5 DEF GenLeaf, At, tables
  <2>2. ~Opens(Cur) /\ ~Closes(Cur)
    BY <2>1 DEF Opens, Closes, OpenKinds, LeafKinds, DeclKinds
  <2>3. OpenLocals' = OpenLocals
    BY <1>1, <2>1, <2>2, LeafLocals
  <2> QED BY <1>1, <1>3, <2>1, <2>3
<1>6. CASE OpenIf \/ OpenElse \/ OpenWhile \/ OpenFor
  <2>1. PICK rows : EnterBody(rows) /\ rows \in {m_block, DeclareLocal(m_block, Cur.init)}
    BY <1>6 DEF OpenIf, OpenElse, OpenWhile, OpenFor
  <2>2. phase = "gen" /\ More /\ Cur.kind \notin DeclKinds
    BY <1>6 DEF OpenIf, OpenElse, OpenWhile, OpenFor, At, DeclKinds
  <2>3. /\ open = <<>> /\ pc' = pc + 1 /\ m_block' = Append(rows, <<>>)
    BY <2>1 DEF EnterBody
  <2>4. rows \in Seq(Seq(Names))
    BY <1>3, <2>1, <2>2, StmtFields, LeafFields, DeclareLocalType, BaseTypes
  <2>5. ToSet(Last(m_block')) = {}
    BY <2>2, <2>3, <2>4, StmtFields, BaseTypes, RowAppend
  <2>6. OpenLocals' = {}
    BY <1>1, <1>2, <2>2, <2>3, BodyLocals
  <2> QED BY <2>5, <2>6
<1>7. CASE EnterFunc
  <2>1. /\ phase = "params" /\ pc' = pc + 1 /\ m_block' = Append(m_block, <<>>)
        /\ Cur.kind = "FUNC" /\ More
    BY <1>7, BaseTypes DEF EnterFunc, Base, LInv, Places, TypeOK
  <2>2. ToSet(Last(m_block')) = {}
    BY <1>3, <2>1, StmtFields, BaseTypes, RowAppend
  <2>3. OpenLocals' = {}
    BY <1>1, <1>2, <2>1, BodyLocals DEF DeclKinds
  <2> QED BY <2>2, <2>3
<1>8. CASE StartDelete \/ DeleteVar \/ UNCHANGED vars
  <2>1. phase \in {"gen", "delete"} /\ UNCHANGED <<pc, open, m_block>>
    BY <1>8 DEF StartDelete, DeleteVar, vars, tables, At
  <2>2. OpenLocals' = OpenLocals
    BY <1>1, <2>1 DEF OpenLocals
  <2> QED BY <1>1, <1>3, <2>1, <2>2
<1>9. CASE CloseIfElse \/ CloseWhile \/ CloseFunc \/ CloseFor
  <2>1. open # <<>> /\ open' = Front(open)
    BY <1>9 DEF CloseIfElse, CloseWhile, CloseFunc, CloseFor, LeaveBody, PopFrame
  <2>2. Len(open') = Len(open) - 1 /\ open' \in Seq(Frm)
    BY <1>3, <2>1, FrontLast
  <2> QED BY <1>2, <2>1, <2>2, EmptySeq
<1>10. ~(CollectVars \/ AssignSlots \/ NextPass)
  BY <1>0, <1>1 DEF CollectVars, AssignSlots, NextPass, Restart, GenPhases
<1>11. ~(OpenFunc \/ GenParam \/ Finish \/ Exit \/ Crash)
  BY DEF OpenFunc, GenParam, Finish, Exit, Crash, Halt
<1> QED BY <1>4, <1>5, <1>6, <1>7, <1>8, <1>9, <1>10, <1>11 DEF Next, Step, Gen, Del, Terminated
-----------------------------------------------------------------------------
(* Locals after their body.                                                *)

(* The names of the locals whose body has been closed before statement k.  *)
GoneAt(p, k) == {p[i].name : i \in {m \in 1..(k - 1) : IsLocal(p, m) /\ ClosedAt(p, m, k)}}

(* What is looked up when a statement is met, and what when it closes.     *)
HeadUses(s) == CASE s.kind \in LeafKinds        -> LeafUses(s)
                 [] s.kind \in {"IF", "WHILE"} -> ToSet(s.expr.uses)
                 [] s.kind = "FOR"              -> LeafUses(s.init) \cup ToSet(s.expr.uses)
                 [] OTHER                       -> {}
StepUses(s) == IF s.kind = "FOR" THEN LeafUses(s.step) ELSE {}

(* The part of the closing row that has been walked is out of the table,   *)
(* and so are the locals of closed bodies, which no statement passed since *)
(* has looked up.                                                          *)
DeletedGone == phase = "delete" => \A n \in 1..iter : Last(m_block)[n] \notin VarNames(m_vars)
Flat        == phase \in GenPhases /\ ~nested /\ DistinctNames(prog)
ClosedGone  == Flat => GoneAt(prog, pc) \cap VarNames(m_vars) = {}
UsesClear   ==
  Flat => \A k \in 1..(pc - 1) :
            /\ GoneAt(prog, k) \cap HeadUses(prog[k]) = {}
            /\ GoneAt(prog, k) \cap StepUses(prog[k]) = {} \/ prog[k] \in OpenStmts(open)

LocalsInv == RowFollows /\ DeletedGone /\ ClosedGone /\ UsesClear

LEMMA GoneLater ==
  ASSUME NEW p, NEW k \in Nat, NEW m \in Nat, k <= m
  PROVE  GoneAt(p, k) \subseteq GoneAt(p, m)
<1>1. ASSUME NEW i \in 1..(k - 1), IsLocal(p, i), ClosedAt(p, i, k)
      PROVE  i \in 1..(m - 1) /\ ClosedAt(p, i, m)
  <2>1. i \in Nat /\ i \in 1..(m - 1)
    OBVIOUS
  <2> QED BY <1>1, <2>1, ClosedLater
<1> QED BY <1>1 DEF GoneAt

(* Only an END puts names beyond their scope: those of the open body.      *)
LEMMA GoneNext ==
  ASSUME Base, More
  PROVE  /\ ~Closes(Cur) => GoneAt(prog, pc + 1) \subseteq GoneAt(prog, pc)
         /\ Closes(Cur) =>
              GoneAt(prog, pc + 1) \subseteq GoneAt(prog, pc) \cup {prog[i].name : i \in OpenLocals}
<1>1. /\ pc \in Nat \ {0} /\ Depth(prog, pc) \in Int
      /\ Depth(prog, pc + 1) = Depth(prog, pc) + Delta(Cur) /\ (pc + 1) - 1 = pc
      /\ Depth(prog, pc + 1) \in Int
  <2>1. pc \in Nat \ {0} /\ pc + 1 \in Nat \ {0} /\ (pc + 1) - 1 = pc
    BY BaseTypes
  <2>2. Depth(prog, pc + 1) = Depth(prog, pc) + Delta(prog[pc])
    BY <2>1, DepthStep
  <2> QED BY <2>1, <2>2, DepthStep DEF Cur
<1>2. ASSUME NEW i \in 1..pc, IsLocal(prog, i), ClosedAt(prog, i, pc + 1), ~Closes(Cur)
      PROVE  i \in 1..(pc - 1) /\ ClosedAt(prog, i, pc)
  <2>1. Depth(prog, pc) <= Depth(prog, pc + 1)
    BY <1>1, <1>2 DEF Delta
  <2>2. ClosedAt(prog, i, pc) \/ Depth(prog, pc + 1) < Depth(prog, i)
    BY <1>1, <1>2, ClosedNext
  <2>3. CASE i = pc
    <3>1. (i + 1)..pc = {}
      BY <1>1, <2>3
    <3>2. ~ClosedAt(prog, i, pc)
      BY <3>1 DEF ClosedAt
    <3>3. Depth(prog, pc + 1) < Depth(prog, pc)
      BY <2>2, <2>3, <3>2
    <3> QED BY <1>1, <2>1, <3>3
  <2>4. CASE i # pc
    <3>1. i \in 1..(pc - 1) /\ pc \in (i + 1)..pc
      BY <1>1, <2>4
    <3>2. Depth(prog, pc + 1) < Depth(prog, i) => Depth(prog, pc) < Depth(prog, i)
      <4>1. Depth(prog, i) = 1
        BY <1>2 DEF IsLocal
      <4> QED BY <1>1, <2>1, <4>1
    <3> QED BY <2>2, <3>1, <3>2 DEF ClosedAt
  <2> QED BY <2>3, <2>4
<1>3. ASSUME NEW i \in 1..pc, IsLocal(prog, i), Closes(Cur)
      PROVE  i \in 1..(pc - 1) /\ (ClosedAt(prog, i, pc) \/ i \in OpenLocals)
  <2>1. i # pc
    BY <1>3 DEF IsLocal, Closes, Cur, DeclKinds
  <2>2. i \in 1..(pc - 1)
    BY <1>1, <2>1
  <2> QED BY <1>3, <2>2 DEF OpenLocals
<1>4. ASSUME ~Closes(Cur) PROVE GoneAt(prog, pc + 1) \subseteq GoneAt(prog, pc)
  BY <1>1, <1>2, <1>4 DEF GoneAt
<1>5. ASSUME Closes(Cur), NEW x \in GoneAt(prog, pc + 1)
      PROVE  x \in GoneAt(prog, pc) \cup {prog[i].name : i \in OpenLocals}
  <2>1. PICK i \in 1..pc : IsLocal(prog, i) /\ x = prog[i].name
    BY <1>1, <1>5 DEF GoneAt
  <2>2. i \in 1..(pc - 1) /\ (ClosedAt(prog, i, pc) \/ i \in OpenLocals)
    BY <1>3, <1>5, <2>1
  <2> QED BY <2>1, <2>2 DEF GoneAt
<1> QED BY <1>4, <1>5

(* A check that does not fail has found every name.                        *)
LEMMA Found ==
  ASSUME NEW vs
  PROVE  /\ \A e : ~ExprFails(vs, e) => ToSet(e.uses) \subseteq VarNames(vs)
         /\ \A l : ~LeafFails(vs, l) => LeafUses(l) \subseteq VarNames(vs)
<1>1. ASSUME NEW e, ~ExprFails(vs, e) PROVE ToSet(e.uses) \subseteq VarNames(vs)
  BY <1>1 DEF ExprFails, ToSet
<1>2. ASSUME NEW l, ~LeafFails(vs, l) PROVE LeafUses(l) \subseteq VarNames(vs)
  BY <1>1, <1>2 DEF LeafFails, LeafUses
<1> QED BY <1>1, <1>2

(* So a statement that is passed uses only what is in the table.           *)
LEMMA HeadFound ==
  ASSUME Base, [Next]_vars, phase \in GenPhases, pc' = pc + 1
  PROVE  HeadUses(Cur) \subseteq VarNames(m_vars)
<1> USE DEF GenPhases
<1>0. pc \in Nat \ {0} /\ pc + 1 # 1 /\ pc + 1 # pc
  BY BaseTypes
<1>1. CASE GenDecl \/ GenLeaf
  <2>1. Cur.kind \in LeafKinds /\ ~LeafFails(m_vars, Cur)
    BY <1>1 DEF GenDecl, GenLeaf, At, LeafKinds
  <2>2. HeadUses(Cur) = LeafUses(Cur)
    BY <2>1 DEF HeadUses, LeafKinds, DeclKinds
  <2> QED BY <2>1, <2>2, Found
<1>2. CASE OpenIf \/ OpenWhile
  <2>1. Cur.kind \in {"IF", "WHILE"} /\ ~ExprFails(m_vars, Cur.expr)
    BY <1>2 DEF OpenIf, OpenWhile, At
  <2>2. HeadUses(Cur) = ToSet(Cur.expr.uses)
    BY <2>1 DEF HeadUses, LeafKinds, DeclKinds
  <2> QED BY <2>1, <2>2, Found
<1>3. CASE OpenFor
  <2>1. Cur.kind = "FOR" /\ ~LeafFails(m_vars, Cur.init) /\ ~ExprFails(m_vars, Cur.expr)
    BY <1>3 DEF OpenFor, At
  <2>2. HeadUses(Cur) = LeafUses(Cur.init) \cup ToSet(Cur.expr.uses)
    BY <2>1 DEF HeadUses, LeafKinds, DeclKinds
  <2> QED BY <2>1, <2>2, Found
<1>4. CASE OpenElse \/ EnterFunc \/ CloseIfElse \/ CloseWhile \/ CloseFunc \/ CloseFor
  <2>1. Cur.kind \in {"ELSE", "FUNC", "END"}
    BY <1>4 DEF OpenElse, At, EnterFunc, CloseIfElse, CloseWhile, CloseFunc, CloseFor, Closing,
                Base, LInv, Places
  <2>2. HeadUses(Cur) = {}
    BY <2>1 DEF HeadUses, LeafKinds, DeclKinds
  <2> QED BY <2>2
<1>5. ~(CollectVars \/ AssignSlots \/ NextPass)
  BY <1>0 DEF CollectVars, AssignSlots, NextPass
<1>6. ~(OpenFunc \/ GenParam \/ StartDelete \/ DeleteVar \/ Finish \/ Exit \/ Crash \/ UNCHANGED vars)
  BY <1>0 DEF OpenFunc, GenParam, StartDelete, DeleteVar, Finish, Exit, Crash, Halt, vars
<1> QED BY <1>1, <1>2, <1>3, <1>4, <1>5, <1>6 DEF Next, Step, Gen, Del, Terminated

(* A frame leaves the C stack at the end of its body; the third part of a  *)
(* FOR is looked up then.                                                  *)
LEMMA FramesLeave ==
  ASSUME Base, [Next]_vars, phase \in GenPhases, Live', ~Restart
  PROVE  \A s \in OpenStmts(open) :
           s \in OpenStmts(open') \/ StepUses(s) \subseteq VarNames(m_vars)
<1>1. Passes \/ Calls \/ Enters \/ Stays
  BY BaseTypes, StepShape DEF Base
<1>2. TypeOK
  BY BaseTypes
<1>3. Pushes => OpenStmts(open) \subseteq OpenStmts(open')
  BY <1>2, PushedStmt DEF Pushes
<1>4. CASE PopFrame /\ Closes(Cur) /\ pc' = pc + 1 /\ More
  <2>1. OpenStmts(open) \subseteq OpenStmts(open') \cup {Top.stmt}
    BY <1>2, <1>4, PoppedStmt
  <2>2. StepUses(Top.stmt) \subseteq VarNames(m_vars) \/ open' = open
    <3>1. CASE CloseFor
      <4>1. Top.stmt.kind = "FOR" /\ ~LeafFails(m_vars, Top.stmt.step)
        BY <3>1 DEF CloseFor, Closing
      <4> QED BY <4>1, Found DEF StepUses
    <3>2. CASE CloseIfElse \/ CloseWhile \/ CloseFunc
      BY <3>2 DEF CloseIfElse, CloseWhile, CloseFunc, Closing, StepUses
    <3>3. CASE GenDecl \/ GenLeaf \/ GenParam \/ EnterFunc \/ StartDelete \/ DeleteVar
               \/ Finish \/ Exit \/ Crash \/ UNCHANGED vars
      BY <3>3 DEF GenDecl, GenLeaf, GenParam, EnterFunc, StartDelete, DeleteVar,
                  Finish, Exit, Crash, Halt, vars
    <3>4. ~(OpenIf \/ OpenElse \/ OpenWhile \/ OpenFor \/ OpenFunc)
      BY <1>4 DEF OpenIf, OpenElse, OpenWhile, OpenFor, OpenFunc, At, Closes
    <3>5. ~(CollectVars \/ AssignSlots \/ NextPass)
      BY DEF CollectVars, AssignSlots, NextPass, GenPhases
    <3> QED BY <3>1, <3>2, <3>3, <3>4, <3>5 DEF Next, Step, Gen, Del, Terminated
  <2> QED BY <2>1, <2>2
<1>5. CASE open' = open
  BY <1>5
<1> QED BY <1>1, <1>3, <1>4, <1>5 DEF Passes, Calls, Enters, Stays

LEMMA DeletedNext ==
  ASSUME Base, Base', DeletedGone, [Next]_vars
  PROVE  DeletedGone'
<1> SUFFICES ASSUME phase' = "delete"
             PROVE  \A n \in 1..iter' : Last(m_block')[n] \notin VarNames(m_vars')
  BY DEF DeletedGone
<1>1. CASE StartDelete
  <2>1. iter' = 0
    BY <1>1 DEF StartDelete, At, Base, IInv, TypeOK
  <2>2. 1..iter' = {}
    BY <2>1
  <2> QED BY <2>2
<1>2. CASE DeleteVar
  <2> DEFINE key == Last(m_block)[iter + 1]
  <2>1. /\ key \in VarNames(m_vars) /\ m_vars' = ShiftOut(m_vars, EntryOf(m_vars, key))
        /\ iter' = iter + 1 /\ m_block' = m_block /\ phase = "delete"
    BY <1>2 DEF DeleteVar
  <2>2. \A n \in 1..(iter + 1) : n = iter + 1 \/ n \in 1..iter
    BY BaseTypes
  <2>3. \A n \in 1..iter : Last(m_block)[n] \notin VarNames(m_vars)
    BY <2>1 DEF DeletedGone
  <2>4. ASSUME NEW n \in 1..(iter + 1) PROVE Last(m_block)[n] \notin VarNames(m_vars) \ {key}
    BY <2>2, <2>3, <2>4
  <2> HIDE DEF key
  <2>5. VarNames(m_vars') = VarNames(m_vars) \ {key}
    BY <2>1, BaseTypes, ShiftOutExact
  <2> QED BY <2>1, <2>4, <2>5
<1>3. CASE UNCHANGED vars
  BY <1>3 DEF vars, tables, DeletedGone
<1>4. ~(CollectVars \/ AssignSlots \/ NextPass \/ Finish \/ Exit \/ Crash)
  BY DEF CollectVars, AssignSlots, Walk, NextPass, Finish, Exit, Crash, Halt
<1>5. ~(OpenIf \/ OpenElse \/ OpenWhile \/ OpenFor \/ OpenFunc \/ GenDecl \/ GenLeaf)
  BY DEF OpenIf, OpenElse, OpenWhile, OpenFor, OpenFunc, GenDecl, GenLeaf, EnterBody, At
<1>6. ~(GenParam \/ EnterFunc \/ CloseIfElse \/ CloseWhile \/ CloseFunc \/ CloseFor)
  BY DEF GenParam, EnterFunc, CloseIfElse, CloseWhile, CloseFunc, CloseFor, LeaveBody
<1> QED BY <1>1, <1>2, <1>3, <1>4, <1>5, <1>6 DEF Next, Step, Gen, Del, Terminated

(* When the last frame of a body leaves, its locals are out of the table.  *)
LEMMA RowGone ==
  ASSUME Base, RowFollows, DeletedGone, [Next]_vars, phase \in GenPhases, ~nested,
         pc' = pc + 1, Closes(Cur)
  PROVE  {prog[i].name : i \in OpenLocals} \cap VarNames(m_vars) = {}
<1> USE DEF GenPhases
<1>0. pc \in Nat \ {0} /\ pc + 1 # 1 /\ pc + 1 # pc
  BY BaseTypes
<1>1. ~(CollectVars \/ AssignSlots \/ NextPass)
  BY <1>0 DEF CollectVars, AssignSlots, NextPass
<1>2. ~(OpenIf \/ OpenElse \/ OpenWhile \/ OpenFor \/ OpenFunc \/ GenDecl \/ GenLeaf)
  BY DEF OpenIf, OpenElse, OpenWhile, OpenFor, OpenFunc, GenDecl, GenLeaf, At, Closes,
         LeafKinds, DeclKinds
<1>3. ~(GenParam \/ StartDelete \/ DeleteVar \/ Finish \/ Exit \/ Crash \/ UNCHANGED vars)
  BY <1>0 DEF GenParam, StartDelete, DeleteVar, Finish, Exit, Crash, Halt, vars
<1>4. ~EnterFunc
  BY DEF EnterFunc, Base, LInv, Places, Closes
<1>5. CASE CloseIfElse \/ CloseWhile \/ CloseFunc \/ CloseFor
  <2>1. phase = "delete" /\ iter = Len(Last(m_block))
    BY <1>5 DEF CloseIfElse, CloseWhile, CloseFunc, CloseFor, Closing
  <2>2. open # <<>> /\ m_block # <<>> /\ m_block \in Seq(Seq(Names))
    BY <2>1, BaseTypes DEF TypeOK
  <2>3. Last(m_block) \in Seq(Names)
    BY <2>2, EmptySeq DEF Last
  <2>4. ToSet(Last(m_block)) \cap VarNames(m_vars) = {}
    BY <2>1, <2>3 DEF DeletedGone, ToSet
  <2> QED BY <2>1, <2>2, <2>4 DEF RowFollows
<1> QED BY <1>1, <1>2, <1>3, <1>4, <1>5 DEF Next, Step, Gen, Del, Terminated

(* What the current statement declares has not gone before.                *)
LEMMA FreshNames ==
  ASSUME Base, DistinctNames(prog), More
  PROVE  GoneAt(prog, pc) \cap ToSet(Declares(Cur)) = {}
<1>1. pc \in DOMAIN prog /\ pc \in Nat
  BY PcType DEF Base, IInv
<1>2. ASSUME NEW i \in 1..(pc - 1), IsLocal(prog, i)
      PROVE  prog[i].name \notin ToSet(Declares(prog[pc]))
  <2>1. i \in DOMAIN prog /\ i # pc
    <3>1. pc \in 1..Len(prog) /\ Len(prog) \in Nat /\ DOMAIN prog = 1..Len(prog)
      BY <1>1, BaseTypes
    <3> QED BY <3>1
  <2>2. prog[i].name \in ToSet(Declares(prog[i]))
    BY <1>2, DeclaresOwn DEF IsLocal
  <2> QED BY <1>1, <2>1, <2>2 DEF DistinctNames
<1> QED BY <1>2 DEF GoneAt, Cur

LEMMA GoneStep ==
  ASSUME Base, Base', LocalsInv, [Next]_vars
  PROVE  ClosedGone' /\ UsesClear'
<1> SUFFICES ASSUME Flat' PROVE ClosedGone' /\ UsesClear'
  BY DEF ClosedGone, UsesClear
<1>0. Live'
  BY DEF Flat, Live, GenPhases
<1>1. CASE Restart
  <2>1. pc' = 1 /\ 1..(pc' - 1) = {}
    BY <1>1 DEF Restart
  <2>2. GoneAt(prog', pc') = {}
    BY <2>1 DEF GoneAt
  <2> QED BY <2>1, <2>2 DEF ClosedGone, UsesClear
<1>2. CASE ~Restart
  <2>1. phase \in GenPhases /\ ~nested /\ prog' = prog /\ Live /\ Flat
    BY <1>0, <1>2, BaseTypes, StepHistory DEF Flat
  <2>2. Passes \/ Calls \/ Enters \/ Stays
    BY <1>0, <1>2, BaseTypes, StepShape DEF Base
  <2>3. pc' = pc \/ (pc' = pc + 1 /\ More)
    BY <2>2 DEF Passes, Calls, Enters, Stays
  <2>4. GoneAt(prog, pc) \cap VarNames(m_vars) = {}
    BY <2>1 DEF LocalsInv, ClosedGone
  <2>5. GoneAt(prog, pc) \cap VarNames(m_vars') = {}
    <3>1. m_vars' = m_vars \/ Inserts \/ DeleteVar
      BY BaseTypes, TableStep DEF Base
    <3>2. CASE Inserts
      <4>1. VarNames(m_vars') \subseteq VarNames(m_vars) \cup ToSet(Declares(Cur))
        <5>1. m_vars' \in Seq(Var) /\ Distinct(m_vars')
          BY DEF Base, IInv, TypeOK, NoDupVars
        <5> QED BY <3>2, <5>1, BaseTypes, GrownFacts DEF Inserts
      <4>2. GoneAt(prog, pc) \cap ToSet(Declares(Cur)) = {}
        BY <2>1, <3>2, FreshNames DEF Inserts, Flat
      <4> QED BY <2>4, <4>1, <4>2
    <3>3. CASE DeleteVar
      <4>1. PICK key \in VarNames(m_vars) : m_vars' = ShiftOut(m_vars, EntryOf(m_vars, key))
        BY <3>3 DEF DeleteVar
      <4>2. VarNames(m_vars') = VarNames(m_vars) \ {key}
        BY <4>1, BaseTypes, ShiftOutExact
      <4> QED BY <2>4, <4>2
    <3> QED BY <2>4, <3>1, <3>2, <3>3
  <2>6. ASSUME pc' = pc + 1, More, Closes(Cur), NEW x \in VarNames(m_vars')
        PROVE  x \notin {prog[i].name : i \in OpenLocals}
    <3>1. {prog[i].name : i \in OpenLocals} \cap VarNames(m_vars) = {}
      BY <2>1, <2>6, RowGone DEF LocalsInv
    <3>2. phase \notin {"collect", "assign"} /\ phase # "params"
      BY <2>1, <2>6 DEF GenPhases, Base, LInv, Places, Closes
    <3>3. ~DeleteVar
      <4>1. pc' # pc /\ pc' # 1
        BY <2>6, BaseTypes
      <4> QED BY <4>1 DEF DeleteVar
    <3>4. m_vars' = m_vars
      BY <3>2, <3>3, BaseTypes, TableStep DEF Base, Inserts
    <3> QED BY <2>6, <3>1, <3>4
  <2>7. ClosedGone'
    <3>1. CASE pc' = pc
      BY <2>1, <2>5, <3>1 DEF ClosedGone
    <3>2. CASE pc' = pc + 1 /\ More
      <4>1. GoneAt(prog, pc + 1) \cap VarNames(m_vars') = {}
        BY <2>5, <2>6, <3>2, GoneNext
      <4> QED BY <2>1, <3>2, <4>1 DEF ClosedGone
    <3> QED BY <2>3, <3>1, <3>2
  <2>8. ASSUME NEW k \in 1..(pc' - 1)
        PROVE  /\ GoneAt(prog, k) \cap HeadUses(prog[k]) = {}
               /\ GoneAt(prog, k) \cap StepUses(prog[k]) = {} \/ prog[k] \in OpenStmts(open')
    <3>1. k \in 1..(pc - 1) \/ (k = pc /\ pc' = pc + 1 /\ More)
      BY <2>3, <2>8, BaseTypes
    <3>2. GoneAt(prog, k) \subseteq GoneAt(prog, pc)
      BY <2>8, <3>1, BaseTypes, GoneLater
    <3>3. CASE k \in 1..(pc - 1)
      <4>1. prog[k] \in OpenStmts(open) =>
              prog[k] \in OpenStmts(open') \/ StepUses(prog[k]) \subseteq VarNames(m_vars)
        BY <1>0, <1>2, <2>1, FramesLeave
      <4>2. /\ GoneAt(prog, k) \cap HeadUses(prog[k]) = {}
            /\ GoneAt(prog, k) \cap StepUses(prog[k]) = {} \/ prog[k] \in OpenStmts(open)
        BY <2>1, <3>3 DEF LocalsInv, UsesClear
      <4> QED BY <2>4, <3>2, <4>1, <4>2
    <3>4. CASE k = pc /\ pc' = pc + 1 /\ More
      <4>1. HeadUses(Cur) \subseteq VarNames(m_vars)
        BY <2>1, <3>4, HeadFound
      <4>2. StepUses(Cur) = {} \/ Cur \in OpenStmts(open')
        <5>1. CASE Cur.kind = "FOR"
          <6>1. Opens(Cur) /\ ~Closes(Cur) /\ phase # "params"
            BY <2>1, <5>1 DEF Opens, Closes, OpenKinds, Base, LInv, Places
          <6>2. Pushes
            <7>1. pc' # pc
              BY <3>4, BaseTypes
            <7> QED BY <2>2, <6>1, <7>1 DEF Passes, Calls, Enters, Stays
          <6> QED BY <6>2, BaseTypes, PushedStmt DEF Pushes
        <5>2. CASE Cur.kind # "FOR"
          BY <5>2 DEF StepUses
        <5> QED BY <5>1, <5>2
      <4> QED BY <2>4, <3>2, <3>4, <4>1, <4>2 DEF Cur
    <3> QED BY <3>1, <3>3, <3>4
  <2> QED BY <2>1, <2>7, <2>8 DEF UsesClear
<1> QED BY <1>1, <1>2

(* The row of a body holds its locals, and they leave the table with it.   *)
THEOREM LocalsFollow == Spec => []LocalsInv
<1>1. Init => LocalsInv
  BY DEF Init, LocalsInv, RowFollows, DeletedGone, ClosedGone, UsesClear, Flat, GenPhases
<1>2. Base /\ Base' /\ LocalsInv /\ [Next]_vars => LocalsInv'
  BY RowNext, DeletedNext, GoneStep DEF LocalsInv
<1> QED BY <1>1, <1>2, BaseHolds, PTL DEF Spec

(* A program that is compiled uses no local of a body behind the end of    *)
(* that body, delete_local_var having removed the name from the table.     *)
THEOREM LocalsGone == Spec => []LocalsGoneAfterBody
<1>1. Base /\ LocalsInv /\ NoNestedBlockCompiles => LocalsGoneAfterBody
  <2> SUFFICES ASSUME Base, LocalsInv, NoNestedBlockCompiles, phase = "done", DistinctNames(prog),
                      NEW i \in DOMAIN prog, NEW k \in DOMAIN prog, i < k,
                      prog[i].kind \in DeclKinds, ~VisibleAt(prog, i, prog[i].name, k)
               PROVE  prog[i].name \notin Uses(prog[k])
    BY DEF LocalsGoneAfterBody
  <2>1. /\ prog \in Seq(Stmt) /\ pc = Len(prog) + 1 /\ Len(prog) \in Nat /\ ~nested
        /\ DOMAIN prog = 1..Len(prog) /\ open = <<>>
    BY BaseTypes DEF Base, IInv, TypeOK, LInv, Places, More, NoNestedBlockCompiles
  <2>2. Flat
    BY <2>1 DEF Flat, GenPhases
  <2>3. PICK j \in (i + 1)..k : Depth(prog, j) < Depth(prog, i)
    <3>1. ScopeDepth(prog, i, prog[i].name) = Depth(prog, i)
      BY DEF ScopeDepth, DeclKinds
    <3>2. PICK j \in (i + 1)..k : ~(Depth(prog, j) >= Depth(prog, i))
      BY <3>1 DEF VisibleAt
    <3>3. Depth(prog, j) \in Int /\ Depth(prog, i) \in Int
      <4>1. j \in Nat \ {0} /\ i \in Nat \ {0}
        BY <2>1
      <4> QED BY <4>1, DepthStep
    <3> QED BY <3>2, <3>3
  <2>4. IsLocal(prog, i) /\ ClosedAt(prog, i, k)
    <3>1. \A n \in 1..pc : Depth(prog, n) \in {0, 1}
      BY <2>2, OneBody DEF Flat
    <3>2. i \in 1..pc /\ j \in 1..pc
      BY <2>1
    <3>3. Depth(prog, i) = 1
      BY <2>3, <3>1, <3>2
    <3> QED BY <2>3, <3>3 DEF IsLocal, ClosedAt
  <2>5. prog[i].name \in GoneAt(prog, k)
    <3>1. i \in 1..(k - 1)
      BY <2>1
    <3> QED BY <2>4, <3>1 DEF GoneAt
  <2>6. prog[i].name \notin HeadUses(prog[k]) \cup StepUses(prog[k])
    <3>1. OpenStmts(open) = {}
      BY <2>1 DEF OpenStmts
    <3>2. k \in 1..(pc - 1)
      BY <2>1
    <3> QED BY <2>2, <2>5, <3>1, <3>2 DEF LocalsInv, UsesClear
  <2>7. Uses(prog[k]) \subseteq HeadUses(prog[k]) \cup StepUses(prog[k])
    BY DEF Uses, HeadUses, StepUses, LeafKinds, DeclKinds
  <2> QED BY <2>6, <2>7
<1> QED BY <1>1, BaseHolds, LocalsFollow, NestingRejected, PTL
-----------------------------------------------------------------------------
(* The order of the table.                                                 *)

(* What a statement at top level declares before a body of it is entered.  *)
HeadDecl(s)    == IF s.kind = "FOR" THEN s.init ELSE s
TopNames(p, i) == IF Depth(p, i) = 0 /\ HeadDecl(p[i]).kind \in DeclKinds
                  THEN {HeadDecl(p[i]).name} ELSE {}

(* The first pass inserts the names of the top level in the order of their *)
(* declarations, and only once it is over are those of the other bodies    *)
(* behind them: shifting a local out never moves a top-level variable that *)
(* has been initialised.                                                   *)
Dist        == Live /\ DistinctNames(prog) /\ ~nested
TopsPresent == Dist => \A i \in DOMAIN prog :
                 (phase = "collect" => i < pc) => TopNames(prog, i) \subseteq VarNames(m_vars)
CollectedSoFar ==
  Dist /\ phase = "collect" =>
    \A x \in VarNames(m_vars) : \E k \in 1..(pc - 1) : x \in ToSet(Declares(prog[k]))
TopsFirst ==
  Dist => \A i, k \in DOMAIN prog : i < k =>
            \A u \in TopNames(prog, i) \cap VarNames(m_vars),
               v \in ToSet(Declares(prog[k])) \cap VarNames(m_vars) :
              EntryOf(m_vars, u) < EntryOf(m_vars, v)
FramesListed == Live => \A s \in OpenStmts(open) : \E j \in DOMAIN prog : s = prog[j]

(* Where the variables in scope are.  Between the start of a deletion and  *)
(* the end of the body, those of the body are on their way out.            *)
InPlace(vs, v) == v.name \in VarNames(vs) /\ SlotOf(vs, v.name) = v.slot
BoundInPlace   ==
  /\ phase \in {"collect", "assign"} => bound = {}
  /\ Dist => \A v \in bound :
       /\ v.depth = 0 => InPlace(m_vars, v) /\ \E i \in 1..(pc - 1) : v.name \in TopNames(prog, i)
       /\ phase # "delete" => InPlace(m_vars, v)

OrderInv == TopsPresent /\ CollectedSoFar /\ TopsFirst /\ FramesListed /\ BoundInPlace

LEMMA OneDeclares ==
  ASSUME NEW p, DistinctNames(p), NEW i \in DOMAIN p, NEW k \in DOMAIN p,
         NEW x \in ToSet(Declares(p[i])), x \in ToSet(Declares(p[k]))
  PROVE  i = k
BY DEF DistinctNames

LEMMA TopDeclares ==
  ASSUME NEW p, NEW i
  PROVE  TopNames(p, i) \subseteq ToSet(Declares(p[i]))
BY DeclaresOwn DEF TopNames, HeadDecl

LEMMA DistBefore ==
  ASSUME Base, [Next]_vars, Dist'
  PROVE  Dist /\ prog' = prog
BY BaseTypes, StepHistory DEF Dist

(* Outside the loops, the walk is at top level when no frame is open.      *)
LEMMA AtTop ==
  ASSUME Base, Live, phase # "params"
  PROVE  Depth(prog, pc) = 0 <=> open = <<>>
<1>1. Len(open) = Depth(prog, pc)
  <2>1. Len(open) = Depth(prog, pc) + 0
    BY DEF Base, StackFollows, DepthFollows
  <2>2. pc \in Nat \ {0}
    BY BaseTypes
  <2>3. Depth(prog, pc) \in Int
    BY <2>2, DepthStep
  <2> QED BY <2>1, <2>3
<1> QED BY <1>1, BaseTypes, EmptySeq

LEMMA InDomain ==
  ASSUME Base
  PROVE  /\ DOMAIN prog = 1..Len(prog) /\ 1..(pc - 1) \subseteq DOMAIN prog
         /\ More <=> pc \in DOMAIN prog
         /\ \A i \in DOMAIN prog : i \in Nat \ {0}
BY BaseTypes DEF More

(* What delete_local_var takes out is a local of the body that closes, and *)
(* every top-level statement passed stands before that local.              *)
LEMMA DeletedLocal ==
  ASSUME Base, RowFollows, Dist, DeleteVar
  PROVE  \E j \in DOMAIN prog :
           /\ prog[j].name \in VarNames(m_vars) /\ Depth(prog, j) = 1
           /\ prog[j].name \in ToSet(Declares(prog[j]))
           /\ m_vars' = ShiftOut(m_vars, EntryOf(m_vars, prog[j].name))
           /\ \A i \in 1..(pc - 1) : Depth(prog, i) = 0 => i < j
<1> DEFINE key == Last(m_block)[iter + 1]
<1>1. /\ phase = "delete" /\ iter < Len(Last(m_block)) /\ key \in VarNames(m_vars)
      /\ m_vars' = ShiftOut(m_vars, EntryOf(m_vars, key))
  BY DEF DeleteVar
<1>2. open # <<>> /\ m_block # <<>> /\ m_block \in Seq(Seq(Names)) /\ iter \in Nat
  BY <1>1, BaseTypes DEF TypeOK
<1>3. Last(m_block) \in Seq(Names)
  BY <1>2, EmptySeq DEF Last
<1>4. key \in ToSet(Last(m_block))
  BY <1>1, <1>2, <1>3 DEF ToSet
<1>5. PICK j \in OpenLocals : key = prog[j].name
  BY <1>1, <1>2, <1>4 DEF RowFollows, Dist
<1>6. j \in 1..(pc - 1) /\ prog[j].kind \in DeclKinds /\ Depth(prog, j) = 1 /\ ~ClosedAt(prog, j, pc)
  BY <1>5 DEF OpenLocals, IsLocal
<1>7. ASSUME NEW i \in 1..(pc - 1), Depth(prog, i) = 0 PROVE i < j
  <2>1. i # j
    BY <1>6, <1>7
  <2>2. CASE j < i
    <3>1. i \in (j + 1)..pc /\ Depth(prog, i) < Depth(prog, j)
      BY <1>6, <1>7, <2>2, BaseTypes
    <3> QED BY <1>6, <3>1 DEF ClosedAt
  <2> QED BY <1>6, <2>1, <2>2, BaseTypes
<1>8. j \in DOMAIN prog
  BY <1>6, InDomain
<1> QED BY <1>1, <1>5, <1>6, <1>7, <1>8, DeclaresOwn

LEMMA CollectedNext ==
  ASSUME Base, Base', CollectedSoFar, [Next]_vars
  PROVE  CollectedSoFar'
<1> SUFFICES ASSUME Dist', phase' = "collect", NEW x \in VarNames(m_vars')
             PROVE  \E k \in 1..(pc' - 1) : x \in ToSet(Declares(prog'[k]))
  BY DEF CollectedSoFar
<1>1. CASE CollectVars
  <2>1. pc' = pc + 1 /\ prog' = prog /\ phase = "collect"
    BY <1>1 DEF CollectVars, Walk
  <2>2. Dist
    BY <1>1, DistBefore DEF CollectVars
  <2>3. x \in VarNames(m_vars) \/ x \in ToSet(Declares(Cur))
    <3>1. CASE m_vars' = m_vars
      BY <3>1
    <3>2. CASE Inserts
      <4>1. m_vars' \in Seq(Var) /\ Distinct(m_vars')
        BY DEF Base, IInv, TypeOK, NoDupVars
      <4> QED BY <3>2, <4>1, BaseTypes, GrownFacts DEF Inserts
    <3>3. ~DeleteVar
      BY <2>1 DEF DeleteVar
    <3> QED BY <3>1, <3>2, <3>3, BaseTypes, TableStep DEF Base
  <2>4. 1..(pc' - 1) = 1..(pc - 1) \cup {pc}
    BY <2>1, BaseTypes
  <2> QED BY <2>1, <2>2, <2>3, <2>4 DEF CollectedSoFar, Cur
<1>2. CASE UNCHANGED vars
  BY <1>2 DEF vars, tables, CollectedSoFar, Dist, Live
<1>3. ~(AssignSlots \/ NextPass \/ Finish \/ Exit \/ Crash)
  BY DEF AssignSlots, Walk, NextPass, Finish, Exit, Crash, Halt
<1>4. ~(OpenIf \/ OpenElse \/ OpenWhile \/ OpenFor \/ OpenFunc \/ GenDecl \/ GenLeaf)
  BY DEF OpenIf, OpenElse, OpenWhile, OpenFor, OpenFunc, GenDecl, GenLeaf, EnterBody, At
<1>5. ~(GenParam \/ EnterFunc \/ StartDelete \/ DeleteVar)
  BY DEF GenParam, EnterFunc, StartDelete, DeleteVar
<1>6. ~(CloseIfElse \/ CloseWhile \/ CloseFunc \/ CloseFor)
  BY DEF CloseIfElse, CloseWhile, CloseFunc, CloseFor, LeaveBody
<1> QED BY <1>1, <1>2, <1>3, <1>4, <1>5, <1>6 DEF Next, Step, Gen, Del, Terminated

(* The first pass leaves nothing of the top level out.                     *)
LEMMA TopCollected ==
  ASSUME Base, CollectVars
  PROVE  TopNames(prog, pc) \subseteq VarNames(m_vars')
<1> SUFFICES ASSUME Depth(prog, pc) = 0, HeadDecl(Cur).kind \in DeclKinds
             PROVE  HeadDecl(Cur).name \in VarNames(m_vars')
  BY DEF TopNames, Cur
<1>1. More /\ phase = "collect" /\ Live
  BY DEF CollectVars, Live
<1>2. open = <<>>
  BY <1>1, AtTop
<1>3. m_vars' = EnsureDecl(m_vars, HeadDecl(Cur))
  BY <1>2 DEF CollectVars, Reached, HeadDecl
<1>4. HeadDecl(Cur).name \in Names
  BY <1>1, BaseTypes, StmtFields, LeafFields DEF HeadDecl
<1> QED BY <1>3, <1>4, BaseTypes, SizeTypes, EnsureVarSlotProps DEF EnsureDecl

LEMMA TopsNext ==
  ASSUME Base, Base', RowFollows, TopsPresent, [Next]_vars
  PROVE  TopsPresent'
<1> SUFFICES ASSUME Dist', NEW i \in DOMAIN prog', phase' = "collect" => i < pc'
             PROVE  TopNames(prog', i) \subseteq VarNames(m_vars')
  BY DEF TopsPresent
<1>1. Dist /\ prog' = prog
  BY DistBefore
<1>2. CASE phase = "collect" => i < pc
  <2>1. TopNames(prog, i) \subseteq VarNames(m_vars)
    BY <1>1, <1>2 DEF TopsPresent
  <2>2. CASE DeleteVar
    <3>1. PICK j \in DOMAIN prog :
            /\ prog[j].name \in VarNames(m_vars) /\ Depth(prog, j) = 1
            /\ prog[j].name \in ToSet(Declares(prog[j]))
            /\ m_vars' = ShiftOut(m_vars, EntryOf(m_vars, prog[j].name))
      BY <1>1, <2>2, DeletedLocal
    <3>2. VarNames(m_vars') = VarNames(m_vars) \ {prog[j].name}
      BY <3>1, BaseTypes, ShiftOutExact
    <3>3. prog[j].name \notin TopNames(prog, i)
      <4>1. i = j => TopNames(prog, i) = {}
        BY <3>1 DEF TopNames
      <4> QED BY <1>1, <3>1, <4>1, OneDeclares, TopDeclares DEF Dist
    <3> QED BY <1>1, <2>1, <3>2, <3>3
  <2>3. CASE Inserts
    <3>1. m_vars' \in Seq(Var) /\ Distinct(m_vars')
      BY DEF Base, IInv, TypeOK, NoDupVars
    <3>2. VarNames(m_vars) \subseteq VarNames(m_vars')
      BY <2>3, <3>1, BaseTypes, GrownFacts DEF Inserts
    <3> QED BY <1>1, <2>1, <3>2
  <2>4. CASE m_vars' = m_vars
    BY <1>1, <2>1, <2>4
  <2> QED BY <2>2, <2>3, <2>4, BaseTypes, TableStep DEF Base
<1>3. CASE phase = "collect" /\ ~(i < pc)
  <2>1. i \in Nat /\ i >= pc /\ pc \in Nat /\ ~More => pc = Len(prog) + 1
    BY <1>1, <1>3, InDomain, BaseTypes DEF More
  <2>2. More
    BY <1>1, <1>3, <2>1, InDomain, BaseTypes DEF More
  <2>3. ~NextPass
    BY <2>2 DEF NextPass
  <2>4. CASE CollectVars
    <3>1. pc' = pc + 1 /\ phase' = "collect"
      BY <2>4 DEF CollectVars, Walk
    <3>2. i = pc
      BY <1>1, <1>3, <3>1, InDomain, BaseTypes
    <3> QED BY <1>1, <2>4, <3>2, TopCollected
  <2>5. CASE UNCHANGED vars
    BY <1>3, <2>5 DEF vars
  <2>6. ~(AssignSlots \/ Finish \/ Exit \/ Crash)
    BY <1>3 DEF AssignSlots, Finish, Exit, Crash, Halt, Dist, Live
  <2>7. ~(OpenIf \/ OpenElse \/ OpenWhile \/ OpenFor \/ OpenFunc \/ GenDecl \/ GenLeaf)
    BY <1>3 DEF OpenIf, OpenElse, OpenWhile, OpenFor, OpenFunc, GenDecl, GenLeaf, At
  <2>8. ~(GenParam \/ EnterFunc \/ StartDelete \/ DeleteVar)
    BY <1>3 DEF GenParam, EnterFunc, StartDelete, DeleteVar, At
  <2>9. ~(CloseIfElse \/ CloseWhile \/ CloseFunc \/ CloseFor)
    BY <1>3 DEF CloseIfElse, CloseWhile, CloseFunc, CloseFor, Closing
  <2> QED BY <2>3, <2>4, <2>5, <2>6, <2>7, <2>8, <2>9 DEF Next, Step, Gen, Del, Terminated
<1> QED BY <1>2, <1>3

LEMMA OrderNext ==
  ASSUME Base, Base', RowFollows, TopsPresent, CollectedSoFar, TopsFirst, [Next]_vars
  PROVE  TopsFirst'
<1> SUFFICES ASSUME Dist', NEW i \in DOMAIN prog', NEW k \in DOMAIN prog', i < k,
                    NEW u \in TopNames(prog', i) \cap VarNames(m_vars'),
                    NEW v \in ToSet(Declares(prog'[k])) \cap VarNames(m_vars')
             PROVE  EntryOf(m_vars', u) < EntryOf(m_vars', v)
  BY DEF TopsFirst
<1>0. m_vars' \in Seq(Var) /\ Distinct(m_vars')
  BY DEF Base, IInv, TypeOK, NoDupVars
<1>1. /\ Dist /\ DistinctNames(prog) /\ prog' = prog /\ i \in DOMAIN prog /\ k \in DOMAIN prog
      /\ u \in TopNames(prog, i) /\ u \in ToSet(Declares(prog[i])) /\ v \in ToSet(Declares(prog[k]))
  BY DistBefore, TopDeclares DEF Dist
<1>2. u \in VarNames(m_vars) /\ v \in VarNames(m_vars) => EntryOf(m_vars, u) < EntryOf(m_vars, v)
  BY <1>1 DEF TopsFirst
<1>3. CASE m_vars' = m_vars
  BY <1>2, <1>3
<1>4. CASE Inserts
  <2>1. /\ VarNames(m_vars') \subseteq VarNames(m_vars) \cup ToSet(Declares(Cur))
        /\ \A x \in VarNames(m_vars) : EntryOf(m_vars', x) = EntryOf(m_vars, x)
        /\ \A x \in VarNames(m_vars), y \in VarNames(m_vars') \ VarNames(m_vars) :
             EntryOf(m_vars', x) < EntryOf(m_vars', y)
    BY <1>0, <1>4, BaseTypes, GrownFacts DEF Inserts
  <2>2. u \in VarNames(m_vars)
    <3> SUFFICES ASSUME u \notin VarNames(m_vars) PROVE FALSE
      OBVIOUS
    <3>1. pc \in DOMAIN prog /\ u \in ToSet(Declares(prog[pc]))
      BY <1>4, <2>1, InDomain DEF Inserts, Cur
    <3>2. i = pc
      BY <1>1, <3>1, OneDeclares
    <3>3. phase = "collect"
      BY <1>1 DEF TopsPresent
    <3>4. v \notin ToSet(Declares(prog[pc]))
      BY <1>1, <3>1, <3>2, OneDeclares, InDomain
    <3>5. v \in VarNames(m_vars)
      BY <2>1, <3>4 DEF Cur
    <3>6. PICK n \in 1..(pc - 1) : v \in ToSet(Declares(prog[n]))
      BY <1>1, <3>3, <3>5 DEF CollectedSoFar
    <3>7. n \in DOMAIN prog /\ n < i
      BY <3>2, <3>6, InDomain, BaseTypes
    <3>8. n = k
      BY <1>1, <3>6, <3>7, OneDeclares
    <3> QED BY <1>1, <3>7, <3>8, InDomain
  <2> QED BY <1>2, <2>1, <2>2
<1>5. CASE DeleteVar
  <2>1. PICK j \in DOMAIN prog :
          /\ prog[j].name \in VarNames(m_vars)
          /\ m_vars' = ShiftOut(m_vars, EntryOf(m_vars, prog[j].name))
    BY <1>1, <1>5, DeletedLocal
  <2> DEFINE key == prog[j].name
             a == EntryOf(m_vars, u)
             b == EntryOf(m_vars, v)
             e == EntryOf(m_vars, key)
  <2>2. /\ VarNames(m_vars') = VarNames(m_vars) \ {key}
        /\ \A x \in VarNames(m_vars) \ {key} :
             EntryOf(m_vars', x) = IF EntryOf(m_vars, x) < e THEN EntryOf(m_vars, x)
                                   ELSE EntryOf(m_vars, x) - 1
    BY <2>1, BaseTypes, ShiftOutExact
  <2>3. u \in VarNames(m_vars) \ {key} /\ v \in VarNames(m_vars) \ {key}
    BY <2>2
  <2>4. /\ a \in Nat /\ b \in Nat /\ e \in Nat
        /\ m_vars[a].name = u /\ m_vars[b].name = v /\ m_vars[e].name = key
    <3>1. m_vars \in Seq(Var) /\ Distinct(m_vars) /\ Len(m_vars) \in Nat
      BY BaseTypes
    <3>2. \A x \in VarNames(m_vars) :
            EntryOf(m_vars, x) \in 1..Len(m_vars) /\ m_vars[EntryOf(m_vars, x)].name = x
      BY <3>1, EntryOfProps
    <3> QED BY <2>1, <2>3, <3>1, <3>2
  <2>5. a < b /\ a # e /\ b # e
    BY <1>2, <2>3, <2>4
  <2> HIDE DEF a, b, e
  <2>6. /\ EntryOf(m_vars', u) = IF a < e THEN a ELSE a - 1
        /\ EntryOf(m_vars', v) = IF b < e THEN b ELSE b - 1
    BY <2>2, <2>3 DEF a, b
  <2> QED BY <2>4, <2>5, <2>6
<1> QED BY <1>3, <1>4, <1>5, BaseTypes, TableStep DEF Base

LEMMA ListedNext ==
  ASSUME Base, Base', FramesListed, [Next]_vars
  PROVE  FramesListed'
<1> SUFFICES ASSUME Live' PROVE FramesListed'
  BY DEF FramesListed
<1>1. Live /\ (Restart \/ Passes \/ Calls \/ Enters \/ Stays)
  BY BaseTypes, StepShape DEF Base
<1>2. CASE Restart
  <2>1. OpenStmts(open') = {}
    BY <1>2 DEF Restart, OpenStmts
  <2> QED BY <2>1 DEF FramesListed
<1>3. CASE Passes \/ Calls \/ Enters \/ Stays
  <2>1. prog' = prog
    BY <1>3 DEF Passes, Calls, Enters, Stays
  <2>2. CASE open' = open
    BY <1>1, <2>1, <2>2 DEF FramesListed
  <2>3. CASE Pushes /\ More
    <3>1. PICK id \in Nat : open' = Append(open, [stmt |-> Cur, id |-> id])
      BY <2>3 DEF Pushes, PushFrame
    <3> DEFINE f == [stmt |-> Cur, id |-> id]
    <3>2. f.stmt = Cur
      OBVIOUS
    <3> HIDE DEF f
    <3>3. /\ DOMAIN Append(open, f) = DOMAIN open \cup {Len(open) + 1}
          /\ Append(open, f)[Len(open) + 1] = f
          /\ \A j \in DOMAIN open : Append(open, f)[j] = open[j]
      BY BaseTypes
    <3>4. OpenStmts(open') \subseteq OpenStmts(open) \cup {Cur}
      BY <3>1, <3>2, <3>3 DEF OpenStmts, f
    <3>5. Cur = prog[pc] /\ pc \in DOMAIN prog
      BY <2>3, InDomain DEF Cur
    <3> QED BY <1>1, <2>1, <3>4, <3>5 DEF FramesListed
  <2>4. CASE PopFrame
    <3>1. /\ open' \in Seq(Frm) /\ Len(open') = Len(open) - 1
          /\ \A j \in 1..(Len(open) - 1) : open'[j] = open[j]
      BY <2>4, BaseTypes, FrontLast DEF PopFrame
    <3>2. \A j \in DOMAIN open' : j \in DOMAIN open /\ open'[j] = open[j]
      <4>1. open \in Seq(Frm) /\ Len(open) \in Nat /\ DOMAIN open = 1..Len(open)
        BY BaseTypes
      <4>2. DOMAIN open' = 1..(Len(open) - 1)
        BY <3>1
      <4> QED BY <3>1, <4>1, <4>2
    <3>3. OpenStmts(open') \subseteq OpenStmts(open)
      BY <3>2 DEF OpenStmts
    <3> QED BY <1>1, <2>1, <3>3 DEF FramesListed
  <2> QED BY <1>3, <2>2, <2>3, <2>4 DEF Passes, Calls, Enters, Stays
<1> QED BY <1>1, <1>2, <1>3

(* Where the table is left alone, a variable stays in place.               *)
LEMMA PlaceKept ==
  ASSUME Base, Dist, BoundInPlace, prog' = prog, m_vars' = m_vars, pc' \in {pc, pc + 1},
         bound' \subseteq bound, phase' \notin {"collect", "assign"},
         phase # "delete" \/ phase' = "delete" \/ \A v \in bound' : v.depth = 0
  PROVE  BoundInPlace'
<1>1. 1..(pc - 1) \subseteq 1..(pc' - 1)
  BY BaseTypes
<1>2. ASSUME NEW v \in bound'
      PROVE  /\ v.depth = 0 =>
                  InPlace(m_vars', v) /\ \E i \in 1..(pc' - 1) : v.name \in TopNames(prog, i)
             /\ phase' # "delete" => InPlace(m_vars', v)
  <2>1. InPlace(m_vars, v) => InPlace(m_vars', v)
    BY DEF InPlace
  <2>2. /\ v.depth = 0 => InPlace(m_vars, v) /\ \E i \in 1..(pc - 1) : v.name \in TopNames(prog, i)
        /\ phase # "delete" => InPlace(m_vars, v)
    BY DEF BoundInPlace
  <2> QED BY <1>1, <2>1, <2>2
<1> QED BY <1>2 DEF BoundInPlace

(* A declaration binds its name where the table has it.                    *)
LEMMA PlaceBound ==
  ASSUME Base, Dist, BoundInPlace, phase = "gen", phase' = "gen", More,
         prog' = prog, m_vars' = m_vars, pc' = pc + 1, ~LeafFails(m_vars, HeadDecl(Cur)),
         bound' = BindDecl(bound, m_vars, HeadDecl(Cur), Len(open))
  PROVE  BoundInPlace'
<1> DEFINE s == HeadDecl(Cur)
           b == [name |-> s.name, slot |-> SlotOf(m_vars, s.name), depth |-> Len(open)]
<1>1. CASE s.kind \notin DeclKinds
  <2>1. bound' = bound
    BY <1>1 DEF BindDecl
  <2> QED BY <2>1, PlaceKept
<1>2. CASE s.kind \in DeclKinds
  <2>1. bound' = bound \cup {b}
    BY <1>2 DEF BindDecl
  <2>2. b.name = s.name /\ b.slot = SlotOf(m_vars, s.name) /\ b.depth = Len(open)
    OBVIOUS
  <2>3. s.name \in VarNames(m_vars)
    BY <1>2 DEF LeafFails
  <2> HIDE DEF b
  <2>4. InPlace(m_vars', b)
    BY <2>2, <2>3 DEF InPlace
  <2>5. ASSUME b.depth = 0 PROVE b.name \in TopNames(prog, pc)
    <3>1. Depth(prog, pc) = 0
      BY <2>2, <2>5, BaseTypes, EmptySeq, AtTop DEF Dist
    <3> QED BY <1>2, <2>2, <3>1 DEF TopNames, Cur
  <2>6. pc \in 1..(pc' - 1) /\ 1..(pc - 1) \subseteq 1..(pc' - 1)
    BY BaseTypes
  <2>7. ASSUME NEW v \in bound
        PROVE  /\ InPlace(m_vars', v)
               /\ v.depth = 0 => \E i \in 1..(pc' - 1) : v.name \in TopNames(prog, i)
    <3>1. InPlace(m_vars, v) /\ (v.depth = 0 => \E i \in 1..(pc - 1) : v.name \in TopNames(prog, i))
      BY DEF BoundInPlace
    <3>2. InPlace(m_vars', v)
      BY <3>1 DEF InPlace
    <3> QED BY <2>6, <3>1, <3>2
  <2> QED BY <2>1, <2>4, <2>5, <2>6, <2>7 DEF BoundInPlace
<1> QED BY <1>1, <1>2

(* Saving a parameter adds an entry and moves none.                        *)
LEMMA ParamPlace ==
  ASSUME Base, Base', Dist, BoundInPlace, GenParam
  PROVE  BoundInPlace'
<1> DEFINE q == Cur.params[iter + 1]
           b == [name |-> q.name, slot |-> SlotOf(m_vars', q.name), depth |-> Len(open)]
<1>1. /\ phase = "params" /\ phase' = "params" /\ UNCHANGED <<prog, pc>>
      /\ m_vars' = EnsureVarSlot(m_vars, q.name, q.type) /\ bound' = bound \cup {b}
  BY DEF GenParam
<1>2. Inserts
  <2>1. phase # "delete" /\ phase' # "collect" /\ iter < Len(Cur.params) /\ iter' = iter + 1
    BY DEF GenParam
  <2>2. More /\ Cur.kind = "FUNC" /\ iter \in Nat /\ m_vars \in Seq(Var)
    BY <1>1, BaseTypes DEF Base, LInv, Places, TypeOK
  <2>3. Cur.params \in Seq(Param)
    BY <2>2, BaseTypes, StmtFields
  <2>4. iter + 1 \in DOMAIN Cur.params
    BY <2>1, <2>2, <2>3
  <2>5. q.name \in ToSet(Declares(Cur))
    BY <2>2, <2>4, DeclaresOwn
  <2> HIDE DEF q
  <2>6. Grown(m_vars, m_vars', ToSet(Declares(Cur)))
    BY <1>1, <2>2, <2>5, EnsureGrows
  <2> QED BY <1>1, <2>2, <2>6 DEF Inserts
<1>3. m_vars' \in Seq(Var) /\ Distinct(m_vars')
  BY DEF Base, IInv, TypeOK, NoDupVars
<1>4. /\ VarNames(m_vars) \subseteq VarNames(m_vars')
      /\ \A x \in VarNames(m_vars) : EntryOf(m_vars', x) = EntryOf(m_vars, x)
  BY <1>2, <1>3, BaseTypes, GrownFacts DEF Inserts
<1>5. ASSUME NEW v, InPlace(m_vars, v) PROVE InPlace(m_vars', v)
  BY <1>4, <1>5 DEF InPlace, SlotOf
<1>6. b.name = q.name /\ b.slot = SlotOf(m_vars', q.name) /\ b.depth = Len(open)
  OBVIOUS
<1>7. q.name \in VarNames(m_vars')
  <2>1. q.name \in VarNames(EnsureVarSlot(m_vars, q.name, q.type))
    <3>1. CASE q.name \in VarNames(m_vars)
      BY <3>1 DEF EnsureVarSlot
    <3>2. CASE q.name \notin VarNames(m_vars)
      <4> DEFINE v == [name |-> q.name, type |-> q.type]
      <4>1. v.name = q.name
        OBVIOUS
      <4> HIDE DEF v
      <4>2. Append(m_vars, v)[Len(m_vars) + 1] = v /\ Len(m_vars) + 1 \in DOMAIN Append(m_vars, v)
        BY BaseTypes
      <4> QED BY <3>2, <4>1, <4>2 DEF EnsureVarSlot, VarNames, v
    <3> QED BY <3>1, <3>2
  <2> QED BY <1>1, <2>1
<1> HIDE DEF b
<1>8. InPlace(m_vars', b) /\ b.depth # 0
  <2>1. open # <<>>
    BY <1>1, BaseTypes DEF TypeOK
  <2>2. Len(open) # 0
    BY <2>1, BaseTypes, EmptySeq
  <2> QED BY <1>6, <1>7, <2>2 DEF InPlace
<1>9. ASSUME NEW v \in bound
      PROVE  InPlace(m_vars, v) /\ (v.depth = 0 => \E i \in 1..(pc - 1) : v.name \in TopNames(prog, i))
  BY <1>1 DEF BoundInPlace
<1> QED BY <1>1, <1>5, <1>8, <1>9 DEF BoundInPlace

(* Shifting a local out moves nothing of the top level that is in scope.   *)
LEMMA DeletePlace ==
  ASSUME Base, Base', RowFollows, Dist, TopsFirst, BoundInPlace, DeleteVar
  PROVE  BoundInPlace'
<1>1. phase = "delete" /\ phase' = "delete" /\ UNCHANGED <<prog, pc, bound>>
  BY DEF DeleteVar
<1>2. PICK j \in DOMAIN prog :
        /\ prog[j].name \in VarNames(m_vars) /\ Depth(prog, j) = 1
        /\ prog[j].name \in ToSet(Declares(prog[j]))
        /\ m_vars' = ShiftOut(m_vars, EntryOf(m_vars, prog[j].name))
        /\ \A i \in 1..(pc - 1) : Depth(prog, i) = 0 => i < j
  BY DeletedLocal
<1> DEFINE key == prog[j].name
<1>3. /\ VarNames(m_vars') = VarNames(m_vars) \ {key}
      /\ \A x \in VarNames(m_vars) \ {key} :
           EntryOf(m_vars', x) = IF EntryOf(m_vars, x) < EntryOf(m_vars, key)
                                 THEN EntryOf(m_vars, x) ELSE EntryOf(m_vars, x) - 1
  BY <1>2, BaseTypes, ShiftOutExact
<1>4. ASSUME NEW v \in bound, v.depth = 0
      PROVE  InPlace(m_vars', v) /\ \E i \in 1..(pc - 1) : v.name \in TopNames(prog, i)
  <2>1. InPlace(m_vars, v) /\ \E i \in 1..(pc - 1) : v.name \in TopNames(prog, i)
    BY <1>4 DEF BoundInPlace
  <2>2. PICK i \in 1..(pc - 1) : v.name \in TopNames(prog, i)
    BY <2>1
  <2>3. i < j /\ i \in DOMAIN prog
    BY <1>2, <2>2, InDomain DEF TopNames
  <2>4. EntryOf(m_vars, v.name) < EntryOf(m_vars, key)
    BY <1>2, <2>1, <2>2, <2>3 DEF TopsFirst, InPlace
  <2>5. v.name # key
    <3>1. v.name \in ToSet(Declares(prog[i]))
      BY <2>2, TopDeclares
    <3>2. i # j
      BY <2>3, InDomain
    <3> QED BY <1>2, <2>3, <3>1, <3>2, OneDeclares DEF Dist
  <2> QED BY <1>3, <2>1, <2>4, <2>5 DEF InPlace, SlotOf
<1> QED BY <1>1, <1>4 DEF BoundInPlace

(* Only the variables of the top level stay in scope when a body closes.   *)
LEMMA ClosePlace ==
  ASSUME Base, Dist, FramesListed, BoundInPlace,
         CloseIfElse \/ CloseWhile \/ CloseFunc \/ CloseFor
  PROVE  BoundInPlace'
<1>1. phase = "delete" /\ phase' = "gen" /\ UNCHANGED <<prog, m_vars>> /\ pc' = pc + 1
  BY DEF CloseIfElse, CloseWhile, CloseFunc, CloseFor, Closing, LeaveBody
<1>2. open # <<>> /\ Len(open) = 1
  <2>1. open # <<>>
    BY <1>1, BaseTypes DEF TypeOK
  <2>2. Len(open) \in {0, 1} /\ (open = <<>> <=> Len(open) = 0)
    <3>1. phase \in GenPhases /\ ~nested
      BY <1>1 DEF GenPhases, Dist
    <3> QED BY <3>1, OneBody
  <2> QED BY <2>1, <2>2
<1>3. bound' = OuterBound
  <2>1. CASE CloseFor
    <3>1. Top.stmt \in OpenStmts(open) /\ Top.stmt.kind = "FOR"
      <4>1. Len(open) \in DOMAIN open
        BY <1>2, BaseTypes
      <4> QED BY <2>1, <4>1 DEF CloseFor, Closing, Top, Last, OpenStmts
    <3>2. Top.stmt.step.kind \notin DeclKinds
      BY <3>1 DEF FramesListed, Dist, DistinctNames
    <3> QED BY <2>1, <3>2 DEF CloseFor, BindDecl
  <2> QED BY <2>1 DEF CloseIfElse, CloseWhile, CloseFunc
<1>4. \A v \in bound' : v \in bound /\ v.depth = 0
  <2>1. \A v \in bound : v.depth \in Nat
    BY BaseTypes DEF Bound
  <2> QED BY <1>2, <1>3, <2>1 DEF OuterBound
<1> QED BY <1>1, <1>4, PlaceKept

LEMMA BoundNext ==
  ASSUME Base, Base', RowFollows, TopsFirst, FramesListed, BoundInPlace, [Next]_vars
  PROVE  BoundInPlace'
<1>1. CASE CollectVars \/ AssignSlots \/ NextPass
  <2>1. bound' = {}
    BY <1>1 DEF CollectVars, AssignSlots, Walk, NextPass, BoundInPlace
  <2> QED BY <2>1 DEF BoundInPlace
<1>2. CASE Exit \/ Crash
  BY <1>2 DEF Exit, Crash, Halt, BoundInPlace, Dist, Live
<1>3. CASE UNCHANGED vars
  <2>1. UNCHANGED <<prog, phase, pc, m_vars, bound, nested>>
    BY <1>3 DEF vars, tables
  <2> QED BY <2>1 DEF BoundInPlace, InPlace, Dist, Live
<1>4. CASE Gen \/ Del \/ Finish
  <2>0. phase' \notin {"collect", "assign"} /\ phase \in GenPhases
    BY <1>4 DEF Gen, GenDecl, GenLeaf, OpenIf, OpenElse, OpenWhile, OpenFor, OpenFunc, At, EnterBody,
                GenParam, EnterFunc, Del, StartDelete, DeleteVar, CloseIfElse, CloseWhile, CloseFunc,
                CloseFor, Closing, LeaveBody, Finish, Halt, GenPhases
  <2> SUFFICES ASSUME Dist' PROVE BoundInPlace'
    BY <2>0 DEF BoundInPlace
  <2>1. Dist /\ prog' = prog
    BY <2>0, DistBefore
  <2>2. CASE GenDecl
    <3>1. HeadDecl(Cur) = Cur
      BY <2>2 DEF GenDecl, At, HeadDecl, DeclKinds
    <3> QED BY <2>1, <2>2, <3>1, PlaceBound DEF GenDecl, At
  <2>3. CASE OpenFor
    <3>1. HeadDecl(Cur) = Cur.init
      BY <2>3 DEF OpenFor, At, HeadDecl
    <3> QED BY <2>1, <2>3, <3>1, PlaceBound DEF OpenFor, At, EnterBody
  <2>4. CASE GenLeaf \/ OpenIf \/ OpenElse \/ OpenWhile \/ OpenFunc \/ EnterFunc \/ StartDelete \/ Finish
    <3>1. /\ m_vars' = m_vars /\ bound' = bound /\ pc' \in {pc, pc + 1} /\ phase # "delete"
      BY <2>4 DEF GenLeaf, OpenIf, OpenElse, OpenWhile, EnterBody, OpenFunc, EnterFunc, StartDelete,
                  At, Finish, Halt, tables
    <3> QED BY <2>0, <2>1, <3>1, PlaceKept
  <2>5. CASE GenParam
    BY <2>1, <2>5, ParamPlace
  <2>6. CASE DeleteVar
    BY <2>1, <2>6, DeletePlace
  <2>7. CASE CloseIfElse \/ CloseWhile \/ CloseFunc \/ CloseFor
    BY <2>1, <2>7, ClosePlace
  <2> QED BY <1>4, <2>2, <2>3, <2>4, <2>5, <2>6, <2>7 DEF Gen, Del
<1> QED BY <1>1, <1>2, <1>3, <1>4 DEF Next, Step, Terminated

(* The entries of the top level stand in the order of their declarations,  *)
(* before those of the bodies behind them.                                 *)
THEOREM OrderKept == Spec => []OrderInv
<1>1. Init => OrderInv
  <2> SUFFICES ASSUME Init PROVE OrderInv
    OBVIOUS
  <2>1. phase = "collect" /\ pc = 1 /\ m_vars = <<>> /\ open = <<>> /\ bound = {} /\ prog \in Seq(Stmt)
    BY ProgramsAssumption DEF Init
  <2>2. VarNames(m_vars) = {} /\ OpenStmts(open) = {} /\ \A i \in DOMAIN prog : ~(i < pc)
    BY <2>1 DEF VarNames, OpenStmts
  <2> QED BY <2>1, <2>2 DEF OrderInv, TopsPresent, CollectedSoFar, TopsFirst, FramesListed, BoundInPlace
<1>2. Base /\ Base' /\ LocalsInv /\ OrderInv /\ [Next]_vars => OrderInv'
  BY TopsNext, CollectedNext, OrderNext, ListedNext, BoundNext DEF OrderInv, LocalsInv
<1> QED BY <1>1, <1>2, BaseHolds, LocalsFollow, PTL DEF Spec

(* While its scope lasts, a variable keeps the slot of its initialising    *)
(* store, although delete_local_var shifts the entries of m_vars.          *)
THEOREM SlotsStable == Spec => []SlotStable
<1>1. OrderInv => SlotStable
  BY DEF OrderInv, BoundInPlace, SlotStable, Dist, Live, InPlace
<1> QED BY <1>1, OrderKept, PTL
-----------------------------------------------------------------------------
(* The frame: the leading declarations have the first cells.               *)

TopDecl(p, j) == j \in DOMAIN p /\ p[j].kind \in DeclKinds /\ Depth(p, j) = 0

(* In front of a declaration at top level there are only others.           *)
LEMMA Leading ==
  ASSUME NEW p \in Seq(Stmt), DeclsFirst(p), NEW j, TopDecl(p, j)
  PROVE  /\ j \in 1..Len(p) /\ DOMAIN p = 1..Len(p) /\ Len(p) \in Nat
         /\ \A i \in 1..j : TopDecl(p, i)
<1>1. j \in 1..Len(p) /\ DOMAIN p = 1..Len(p) /\ Len(p) \in Nat
  BY DEF TopDecl
<1>2. \A i \in 1..j : i \in DOMAIN p /\ p[i].kind \in DeclKinds
  <2> SUFFICES ASSUME NEW i \in 1..j PROVE i \in DOMAIN p /\ p[i].kind \in DeclKinds
    OBVIOUS
  <2>1. i \in DOMAIN p /\ j \in DOMAIN p /\ (i < j \/ i = j)
    BY <1>1
  <2> QED BY <2>1 DEF DeclsFirst, TopDecl
<1>3. ASSUME NEW i \in 1..j PROVE Depth(p, i) = 0
  <2>1. \A k \in 1..(i - 1) : ~Opens(p[k]) /\ ~Closes(p[k])
    <3> SUFFICES ASSUME NEW k \in 1..(i - 1) PROVE ~Opens(p[k]) /\ ~Closes(p[k])
      OBVIOUS
    <3>1. k \in 1..j
      BY <1>1
    <3> QED BY <1>2, <3>1 DEF Opens, Closes, OpenKinds, DeclKinds
  <2>2. {k \in 1..(i - 1) : Opens(p[k])} = {} /\ {k \in 1..(i - 1) : Closes(p[k])} = {}
    BY <2>1
  <2>3. Depth(p, i) = Cardinality({}) - Cardinality({})
    BY <2>2, Zenon DEF Depth
  <2> QED BY <2>3, FS_EmptySet
<1> QED BY <1>1, <1>2, <1>3 DEF TopDecl

(* They are the first entries of m_prog->stmt.                             *)
LEMMA TopStmts ==
  ASSUME NEW p \in Seq(Stmt), DeclsFirst(p), NEW j, TopDecl(p, j)
  PROVE  TopStmt(p, j) = j /\ ~OutOfRange(p, j - 1)
<1> DEFINE U(i) == {k \in TopLevel(p) : k <= i}
<1>1. /\ j \in 1..Len(p) /\ DOMAIN p = 1..Len(p) /\ Len(p) \in Nat
      /\ \A i \in 1..j : TopDecl(p, i)
  BY Leading
<1>2. 1..j \subseteq TopLevel(p) /\ TopLevel(p) \subseteq 1..Len(p)
  <2>1. \A i \in 1..j : i \in DOMAIN p /\ Depth(p, i) = 0 /\ ~Closes(p[i])
    BY <1>1 DEF TopDecl, Closes, DeclKinds
  <2> QED BY <1>1, <2>1 DEF TopLevel
<1>3. IsFiniteSet(TopLevel(p)) /\ IsFiniteSet(1..Len(p)) /\ IsFiniteSet(1..j) /\ Cardinality(1..j) = j
  <2>1. IsFiniteSet(1..Len(p)) /\ IsFiniteSet(1..j) /\ Cardinality(1..j) = j
    <3>1. 1 \in Int /\ Len(p) \in Int /\ j \in Int /\ j >= 1 /\ j - 1 + 1 = j
      BY <1>1
    <3> QED BY <3>1, FS_Interval
  <2> QED BY <1>2, <2>1, FS_Subset
<1>4. ASSUME NEW i \in TopLevel(p), i <= j PROVE Cardinality(U(i)) = i
  <2>1. i \in Nat /\ U(i) = 1..i
    BY <1>1, <1>2, <1>4
  <2>2. Cardinality(1..i) = i
    BY <2>1, <1>1, <1>2, FS_Interval
  <2> QED BY <2>1, <2>2
<1>5. ASSUME NEW i \in TopLevel(p), j < i PROVE Cardinality(U(i)) # j
  <2>1. IsFiniteSet(U(i)) /\ i \in U(i) /\ 1..j \subseteq U(i) /\ i \notin 1..j
    <3>1. i \in Nat /\ U(i) \subseteq TopLevel(p)
      BY <1>2
    <3>2. IsFiniteSet(U(i))
      BY <1>3, <3>1, FS_Subset
    <3> QED BY <1>1, <1>2, <1>5, <3>1, <3>2
  <2> HIDE DEF U
  <2>2. Cardinality(1..j) <= Cardinality(U(i)) /\ (Cardinality(1..j) = Cardinality(U(i)) => 1..j = U(i))
    BY <2>1, FS_Subset
  <2> QED BY <1>3, <2>1, <2>2
<1>6. j \in TopLevel(p) /\ \A i \in TopLevel(p) : Cardinality(U(i)) = j <=> i = j
  <2>1. j \in TopLevel(p) /\ \A i \in TopLevel(p) : i \in Nat /\ j \in Nat
    BY <1>1, <1>2
  <2> HIDE DEF U
  <2> QED BY <1>4, <1>5, <2>1
<1>7. TopStmt(p, j) = j
  <2>1. TopStmt(p, j) = CHOOSE i \in TopLevel(p) : Cardinality(U(i)) = j
    BY DEF TopStmt
  <2> HIDE DEF U
  <2> QED BY <1>6, <2>1
<1>8. ~OutOfRange(p, j - 1)
  <2>1. Cardinality(1..j) <= Cardinality(TopLevel(p)) /\ Cardinality(TopLevel(p)) \in Nat
    BY <1>2, <1>3, FS_Subset, FS_CardinalityType
  <2> QED BY <1>1, <1>3, <2>1 DEF OutOfRange
<1> QED BY <1>7, <1>8

(* The table has them in their order, each at its own index.               *)
InOrder(vs, p) == \A j \in DOMAIN p : TopDecl(p, j) => EntryOf(vs, p[j].name) = j

LEMMA EntryIs ==
  ASSUME NEW vs \in Seq(Var), Distinct(vs), NEW i \in 1..Len(vs)
  PROVE  vs[i].name \in VarNames(vs) /\ EntryOf(vs, vs[i].name) = i
<1>1. vs[i].name \in VarNames(vs) /\ i \in DOMAIN vs
  BY DEF VarNames
<1>2. EntryOf(vs, vs[i].name) \in 1..Len(vs) /\ vs[EntryOf(vs, vs[i].name)].name = vs[i].name
  BY <1>1, EntryOfProps
<1> QED BY <1>1, <1>2 DEF Distinct

LEMMA DeclaresItself ==
  ASSUME NEW p, NEW i, TopDecl(p, i)
  PROVE  TopNames(p, i) = {p[i].name} /\ ToSet(Declares(p[i])) = {p[i].name}
<1>1. p[i].kind \in DeclKinds /\ p[i].kind # "FOR" /\ p[i].kind # "FUNC" /\ Depth(p, i) = 0
  BY DEF TopDecl, DeclKinds
<1>2. Declares(p[i]) = <<p[i].name>>
  BY <1>1 DEF Declares, DeclName
<1>3. ToSet(<<p[i].name>>) = {p[i].name}
  BY DEF ToSet
<1> QED BY <1>1, <1>2, <1>3 DEF TopNames, HeadDecl

(* From the second pass on the table starts with the leading declarations. *)
TopsInOrder == Dist /\ DeclsFirst(prog) /\ phase # "collect" => InOrder(m_vars, prog)

LEMMA TableInOrder ==
  ASSUME Base, TopsPresent, TopsFirst
  PROVE  TopsInOrder
<1> SUFFICES ASSUME Dist, DeclsFirst(prog), phase # "collect",
                    NEW j \in DOMAIN prog, TopDecl(prog, j)
             PROVE  EntryOf(m_vars, prog[j].name) = j
  BY DEF InOrder, TopsInOrder
<1>1. /\ prog \in Seq(Stmt) /\ m_vars \in Seq(Var) /\ Distinct(m_vars) /\ Len(m_vars) \in Nat
      /\ VarNames(m_vars) \subseteq DeclaredNames(prog)
  BY BaseTypes DEF Base, LInv, Tables
<1>2. /\ j \in 1..Len(prog) /\ DOMAIN prog = 1..Len(prog) /\ Len(prog) \in Nat
      /\ \A i \in 1..j : TopDecl(prog, i)
  BY <1>1, Leading DEF Dist
<1> DEFINE e(i) == EntryOf(m_vars, prog[i].name)
           T == {i \in 0..j : i = 0 \/ e(i) = i}
<1>3. ASSUME NEW i \in 1..j
      PROVE  /\ prog[i].name \in VarNames(m_vars) /\ e(i) \in 1..Len(m_vars)
             /\ TopNames(prog, i) = {prog[i].name} /\ ToSet(Declares(prog[i])) = {prog[i].name}
  <2>1. TopNames(prog, i) = {prog[i].name} /\ ToSet(Declares(prog[i])) = {prog[i].name}
    BY <1>2, DeclaresItself
  <2>2. prog[i].name \in VarNames(m_vars)
    BY <1>2, <2>1 DEF TopsPresent
  <2> QED BY <1>1, <2>1, <2>2, EntryOfProps
<1>4. ASSUME NEW i \in 1..j, NEW k \in DOMAIN prog, i < k,
             NEW v \in ToSet(Declares(prog[k])) \cap VarNames(m_vars)
      PROVE  e(i) < EntryOf(m_vars, v)
  BY <1>2, <1>3, <1>4 DEF TopsFirst
<1>5. 0 \in T
  BY <1>2
<1>6. ASSUME NEW k \in 0..(j - 1), k \in T PROVE k + 1 \in T
  <2>1. k + 1 \in 1..j /\ k \in Nat
    BY <1>2
  <2> DEFINE n == k + 1
  <2>2. n \in 1..j /\ n \in Nat /\ e(n) \in 1..Len(m_vars)
    BY <1>3, <2>1
  <2>3. k < e(n)
    <3>1. CASE k = 0
      BY <2>2, <3>1
    <3>2. CASE k # 0
      <4>1. k \in 1..j /\ e(k) = k /\ k < n /\ n \in DOMAIN prog
        BY <1>2, <1>6, <2>1, <3>2
      <4>2. prog[n].name \in ToSet(Declares(prog[n])) \cap VarNames(m_vars)
        BY <1>3, <2>1
      <4> HIDE DEF n
      <4>3. e(k) < EntryOf(m_vars, prog[n].name)
        BY <1>4, <4>1, <4>2
      <4> QED BY <4>1, <4>3
    <3> QED BY <3>1, <3>2
  <2>4. n \in 1..Len(m_vars)
    BY <1>1, <2>2, <2>3
  <2> DEFINE x == m_vars[n].name
  <2>5. x \in VarNames(m_vars) /\ EntryOf(m_vars, x) = n
    <3> HIDE DEF n
    <3> QED BY <1>1, <2>4, EntryIs
  <2>6. PICK l \in DOMAIN prog : x \in ToSet(Declares(prog[l]))
    <3> HIDE DEF x
    <3> QED BY <1>1, <2>5 DEF DeclaredNames
  <2>7. ~(n < l)
    <3> SUFFICES ASSUME n < l PROVE FALSE
      OBVIOUS
    <3> HIDE DEF n, x
    <3>1. e(n) < n
      BY <1>4, <2>2, <2>5, <2>6
    <3> QED BY <2>1, <2>2, <2>3, <3>1 DEF n
  <2>8. ~(l < n)
    <3> SUFFICES ASSUME l < n PROVE FALSE
      OBVIOUS
    <3>1. l \in 1..j /\ l <= k /\ k \in 1..j /\ e(k) = k
      BY <1>2, <1>6, <2>1, <2>6
    <3> HIDE DEF n
    <3>2. x = prog[l].name /\ e(l) = n
      <4> HIDE DEF x
      <4> QED BY <1>3, <2>5, <2>6, <3>1
    <3>3. l # k
      BY <2>2, <3>1, <3>2 DEF n
    <3>4. l < k /\ k \in DOMAIN prog
      BY <1>2, <3>1, <3>3
    <3>5. prog[k].name \in ToSet(Declares(prog[k])) \cap VarNames(m_vars)
      BY <1>3, <3>1
    <3>6. e(l) < EntryOf(m_vars, prog[k].name)
      BY <1>4, <3>1, <3>4, <3>5
    <3> QED BY <2>1, <3>1, <3>2, <3>6 DEF n
  <2>9. l = n
    BY <1>2, <2>2, <2>6, <2>7, <2>8
  <2>10. x = prog[n].name
    <3> HIDE DEF x, n
    <3> QED BY <1>3, <2>2, <2>6, <2>9
  <2> QED BY <2>2, <2>5, <2>10
<1>7. 0..j \subseteq T
  <2>1. j \in Nat /\ 0 \in Nat
    BY <1>2
  <2> HIDE DEF T
  <2> QED BY <1>5, <1>6, <2>1, UpTo
<1>8. j \in 0..j /\ j # 0
  BY <1>2
<1> QED BY <1>7, <1>8

(* The sum that slot_to_offset runs up: the recursion.                     *)
Added(p, k)      == StmtBytes(p[TopStmt(p, k)])
Sized(p, n)      == \A k \in 1..n : Added(p, k) \in Nat
SumFrom(p, n, f) == f = [k \in 0..n |-> IF k = 0 THEN 0 ELSE f[k - 1] + Added(p, k)]

LEMMA SumSteps ==
  ASSUME NEW p, NEW n \in Nat, NEW f, SumFrom(p, n, f)
  PROVE  /\ f[0] = 0
         /\ \A k \in 1..n : f[k] = f[k - 1] + Added(p, k)
<1>1. 0 \in 0..n /\ \A k \in 1..n : k \in 0..n /\ k # 0
  OBVIOUS
<1>2. \A k \in 0..n : f[k] = IF k = 0 THEN 0 ELSE f[k - 1] + Added(p, k)
  BY Zenon DEF SumFrom
<1> QED BY <1>1, <1>2, Zenon

LEMMA SumOnce ==
  ASSUME NEW p, NEW m \in Nat, NEW n \in Nat, m <= n, NEW f, NEW g, SumFrom(p, m, f), SumFrom(p, n, g)
  PROVE  \A k \in 0..m : f[k] = g[k]
<1>1. f[0] = g[0]
  <2>1. f[0] = 0
    BY SumSteps, Zenon
  <2>2. g[0] = 0
    BY SumSteps, Zenon
  <2> QED BY <2>1, <2>2
<1>2. \A k \in 1..m : f[k - 1] = g[k - 1] => f[k] = g[k]
  <2>1. \A k \in 1..m : k \in 1..n
    OBVIOUS
  <2>2. \A k \in 1..m : f[k] = f[k - 1] + Added(p, k)
    BY SumSteps, Zenon
  <2>3. \A k \in 1..n : g[k] = g[k - 1] + Added(p, k)
    BY SumSteps, Zenon
  <2> QED BY <2>1, <2>2, <2>3
<1> QED BY <1>1, <1>2, SameSoFar

LEMMA SumExists ==
  ASSUME NEW p, NEW n \in Nat, Sized(p, n)
  PROVE  LET f == CHOOSE f : SumFrom(p, n, f)
         IN  SumFrom(p, n, f) /\ Bytes(p, n) = f[n] /\ \A k \in 0..n : f[k] \in Nat
<1> DEFINE step == [k \in 1..n |-> [d \in Nat |-> d + Added(p, k)]]
           F == CHOOSE f : SumFrom(p, n, f)
<1>1. \A k \in 1..n : Added(p, k) \in Nat
  BY DEF Sized
<1>2. \A k \in 1..n : \A d \in Nat : step[k][d] = d + Added(p, k) /\ step[k][d] \in Nat
  BY <1>1
<1>3. PICK f \in [0..n -> Nat] : f[0] = 0 /\ \A k \in 1..n : f[k] = step[k][f[k - 1]]
  <2>1. 0 \in Nat /\ Keeps(step, Nat, n)
    BY <1>2 DEF Keeps
  <2>2. \E f \in [0..n -> Nat] : Runs(f, step, 0, n)
    <3> HIDE DEF step
    <3> QED BY <2>1, Recursive
  <2> HIDE DEF step
  <2> QED BY <2>2 DEF Runs
<1> HIDE DEF step
<1>4. SumFrom(p, n, f)
  <2> DEFINE h == [k \in 0..n |-> IF k = 0 THEN 0 ELSE f[k - 1] + Added(p, k)]
  <2>1. \A k \in 0..n : h[k] = f[k]
    <3> SUFFICES ASSUME NEW k \in 0..n PROVE h[k] = f[k]
      OBVIOUS
    <3>1. CASE k = 0
      BY <1>3, <3>1
    <3>2. CASE k # 0
      <4>1. k \in 1..n /\ k - 1 \in 0..n
        BY <3>2
      <4>2. f[k - 1] \in Nat /\ f[k] = step[k][f[k - 1]]
        BY <1>3, <4>1
      <4>3. f[k] = f[k - 1] + Added(p, k)
        BY <1>2, <4>1, <4>2
      <4>4. h[k] = f[k - 1] + Added(p, k)
        BY <3>2
      <4> QED BY <4>3, <4>4, Zenon
    <3> QED BY <3>1, <3>2
  <2>2. f = [k \in 0..n |-> f[k]] /\ h = [k \in 0..n |-> h[k]]
    BY <1>3
  <2>3. h = f
    <3> HIDE DEF h
    <3> QED BY <2>1, <2>2
  <2> QED BY <2>3 DEF SumFrom
<1>5. SumFrom(p, n, F)
  BY <1>4
<1>6. Bytes(p, n) = F[n]
  BY DEF Bytes, SumFrom, Added
<1> HIDE DEF F
<1>7. \A k \in 0..n : F[k] = f[k]
  <2>1. n <= n
    OBVIOUS
  <2> QED BY <2>1, <1>4, <1>5, SumOnce
<1>8. \A k \in 0..n : F[k] \in Nat
  BY <1>3, <1>7
<1> QED BY <1>5, <1>6, <1>8 DEF F

(* What one more statement adds.                                           *)
LEMMA SumGoes ==
  ASSUME NEW p, NEW n \in Nat \ {0}, Sized(p, n)
  PROVE  /\ Bytes(p, n) \in Nat /\ Bytes(p, n - 1) \in Nat
         /\ Bytes(p, n) = Bytes(p, n - 1) + Added(p, n)
<1> DEFINE f == CHOOSE f : SumFrom(p, n, f)
           g == CHOOSE g : SumFrom(p, n - 1, g)
           m == n - 1
<1>1. n \in Nat /\ n \in 1..n /\ n \in 0..n /\ m \in Nat /\ m <= n /\ m \in 0..m /\ m = n - 1
  OBVIOUS
<1>2. SumFrom(p, n, f) /\ Bytes(p, n) = f[n] /\ f[n] \in Nat
  BY <1>1, SumExists
<1>3. SumFrom(p, m, g) /\ Bytes(p, m) = g[m] /\ g[m] \in Nat
  <2>1. Sized(p, m)
    BY DEF Sized
  <2> HIDE DEF m
  <2> QED BY <1>1, <2>1, SumExists
<1> HIDE DEF f, g, m
<1>4. g[m] = f[m]
  <2>1. n \in Nat /\ m \in Nat /\ m <= n /\ SumFrom(p, m, g) /\ SumFrom(p, n, f)
    BY <1>1, <1>2, <1>3
  <2>2. \A k \in 0..m : g[k] = f[k]
    BY <2>1, SumOnce
  <2> QED BY <1>1, <2>2
<1>5. f[n] = f[n - 1] + Added(p, n)
  BY <1>1, <1>2, SumSteps
<1> QED BY <1>1, <1>2, <1>3, <1>4, <1>5

(* The cells of two declarations that lead have no byte in common.         *)
LEMMA TopBytes ==
  ASSUME NEW p \in Seq(Stmt), DeclsFirst(p), NEW j, TopDecl(p, j)
  PROVE  /\ j \in Nat \ {0} /\ Sized(p, j)
         /\ Added(p, j) = SizeOf[TypeOfDecl[p[j].kind]] /\ Added(p, j) \in Nat
<1>1. j \in 1..Len(p) /\ Len(p) \in Nat /\ \A i \in 1..j : TopDecl(p, i)
  BY Leading
<1>2. ASSUME NEW i \in 1..j
      PROVE  Added(p, i) = SizeOf[TypeOfDecl[p[i].kind]] /\ Added(p, i) \in Nat
  <2>1. TopDecl(p, i) /\ p[i].kind \in DeclKinds
    BY <1>1 DEF TopDecl
  <2>2. TopStmt(p, i) = i
    BY <2>1, TopStmts
  <2>3. Added(p, i) = SizeOf[TypeOfDecl[p[i].kind]]
    BY <2>1, <2>2 DEF Added, StmtBytes
  <2>4. SizeOf[TypeOfDecl[p[i].kind]] \in Nat
    BY <2>1, SizeTypes
  <2> QED BY <2>3, <2>4
<1>3. j \in 1..j /\ j \in Nat \ {0}
  BY <1>1
<1> QED BY <1>2, <1>3 DEF Sized

LEMMA SumGrows ==
  ASSUME NEW p, NEW i \in Nat \ {0}, NEW j \in Nat, i <= j, Sized(p, j)
  PROVE  Bytes(p, i) <= Bytes(p, j) /\ Bytes(p, j) \in Nat
<1> DEFINE T == {k \in i..j : Bytes(p, i) <= Bytes(p, k) /\ Bytes(p, k) \in Nat}
<1>1. ASSUME NEW k \in i..j
      PROVE  /\ Bytes(p, k) \in Nat /\ Bytes(p, k - 1) \in Nat
             /\ Bytes(p, k - 1) <= Bytes(p, k)
  <2>1. k \in Nat \ {0} /\ Sized(p, k) /\ Added(p, k) \in Nat
    BY DEF Sized
  <2>2. /\ Bytes(p, k) \in Nat /\ Bytes(p, k - 1) \in Nat
        /\ Bytes(p, k) = Bytes(p, k - 1) + Added(p, k)
    BY <2>1, SumGoes
  <2> QED BY <2>1, <2>2
<1>2. i \in T
  BY <1>1
<1>3. ASSUME NEW k \in i..(j - 1), k \in T PROVE k + 1 \in T
  <2> DEFINE n == k + 1
  <2>1. n \in i..j /\ n - 1 = k
    OBVIOUS
  <2> HIDE DEF n
  <2>2. Bytes(p, n) \in Nat /\ Bytes(p, k) <= Bytes(p, n)
    BY <1>1, <2>1
  <2>3. Bytes(p, i) \in Nat /\ Bytes(p, i) <= Bytes(p, k) /\ Bytes(p, k) \in Nat
    BY <1>2, <1>3
  <2>4. n \in T
    BY <2>1, <2>2, <2>3
  <2> QED BY <2>4 DEF n
<1>4. i..j \subseteq T
  <2> HIDE DEF T
  <2> QED BY <1>2, <1>3, UpTo
<1>5. j \in i..j
  OBVIOUS
<1> QED BY <1>4, <1>5

LEMMA CellsApart ==
  ASSUME NEW p \in Seq(Stmt), DeclsFirst(p), NEW i, NEW j, TopDecl(p, i), TopDecl(p, j), i < j,
         NEW v \in Nat, v <= SizeOf[TypeOfDecl[p[i].kind]],
         NEW w \in Nat, w <= SizeOf[TypeOfDecl[p[j].kind]]
  PROVE  Cell(p, i - 1, v) \cap Cell(p, j - 1, w) = {}
<1>1. /\ i \in Nat \ {0} /\ j \in Nat \ {0} /\ Sized(p, j)
      /\ Added(p, j) = SizeOf[TypeOfDecl[p[j].kind]] /\ Added(p, j) \in Nat
  BY TopBytes
<1>2. SlotOffset(p, i - 1) = Bytes(p, i) /\ SlotOffset(p, j - 1) = Bytes(p, j)
  <2>1. i - 1 + 1 = i /\ j - 1 + 1 = j
    BY <1>1
  <2> QED BY <2>1, Zenon DEF SlotOffset
<1>3. /\ Bytes(p, j) \in Nat /\ Bytes(p, j - 1) \in Nat
      /\ Bytes(p, j) = Bytes(p, j - 1) + Added(p, j)
  BY <1>1, SumGoes
<1>4. Bytes(p, i) <= Bytes(p, j - 1)
  <2> DEFINE m == j - 1
  <2>1. m \in Nat /\ i <= m /\ Sized(p, m)
    BY <1>1 DEF Sized
  <2> HIDE DEF m
  <2>2. Bytes(p, i) <= Bytes(p, m)
    BY <1>1, <2>1, SumGrows
  <2> QED BY <2>2 DEF m
<1>5. Bytes(p, i) \in Nat
  <2>1. i <= i /\ Sized(p, i)
    BY <1>1 DEF Sized
  <2> QED BY <1>1, <2>1, SumGrows
<1>6. /\ Cell(p, i - 1, v) = (Bytes(p, i) - v + 1)..Bytes(p, i)
      /\ Cell(p, j - 1, w) = (Bytes(p, j) - w + 1)..Bytes(p, j)
  BY <1>2, Zenon DEF Cell
<1> DEFINE a == Bytes(p, i)
           b == Bytes(p, j)
           c == Bytes(p, j - 1)
           d == Added(p, j)
<1>7. /\ a \in Nat /\ b \in Nat /\ c \in Nat /\ d \in Nat /\ a <= c /\ b = c + d /\ w <= d
  BY <1>1, <1>3, <1>4, <1>5
<1> HIDE DEF a, b, c, d
<1>8. ((a - v + 1)..a) \cap ((b - w + 1)..b) = {}
  BY <1>7
<1> QED BY <1>6, <1>8 DEF a, b
-----------------------------------------------------------------------------
(* The accesses of the text: to a leading declaration they have its slot.  *)
Slotted(c, p) ==
  \A a \in DOMAIN c, j \in DOMAIN p :
    TopDecl(p, j) /\ c[a].op \in {"load", "store"} /\ c[a].name = p[j].name => c[a].slot = j - 1
SlottedText(o, p) == o \in Seq(Instr) /\ Slotted(o, p)
TopSlots          == Dist /\ DeclsFirst(prog) => Slotted(out, prog)

LEMMA LongerSlots ==
  ASSUME NEW p, NEW o, SlottedText(o, p), NEW c, SlottedText(c, p)
  PROVE  SlottedText(o \o c, p)
<1>1. o \in Seq(Instr) /\ c \in Seq(Instr)
  BY DEF SlottedText
<1>2. /\ DOMAIN o = 1..Len(o) /\ DOMAIN (o \o c) = 1..(Len(o) + Len(c)) /\ Len(o) \in Nat /\ Len(c) \in Nat
      /\ \A j \in 1..Len(o) : (o \o c)[j] = o[j]
      /\ \A j \in (Len(o) + 1)..(Len(o) + Len(c)) : (o \o c)[j] = c[j - Len(o)] /\ j - Len(o) \in DOMAIN c
  BY <1>1, LongerText
<1>3. \A a \in DOMAIN (o \o c) :
        (\E i \in DOMAIN o : (o \o c)[a] = o[i]) \/ (\E i \in DOMAIN c : (o \o c)[a] = c[i])
  <2> SUFFICES ASSUME NEW a \in DOMAIN (o \o c)
               PROVE (\E i \in DOMAIN o : (o \o c)[a] = o[i]) \/ (\E i \in DOMAIN c : (o \o c)[a] = c[i])
    OBVIOUS
  <2>1. a \in 1..Len(o) \/ a \in (Len(o) + 1)..(Len(o) + Len(c))
    BY <1>2
  <2> QED BY <1>2, <2>1
<1> DEFINE u == o \o c
<1>4. u \in Seq(Instr)
  BY <1>1
<1>5. Slotted(u, p)
  <2> HIDE DEF u
  <2>1. \A a \in DOMAIN u :
          (\E i \in DOMAIN o : u[a] = o[i]) \/ (\E i \in DOMAIN c : u[a] = c[i])
    BY <1>3 DEF u
  <2> QED BY <2>1 DEF Slotted, SlottedText
<1> QED BY <1>4, <1>5 DEF SlottedText

LEMMA OneMore ==
  ASSUME NEW p, NEW o, SlottedText(o, p), NEW x \in Instr,
         \A j \in DOMAIN p : TopDecl(p, j) /\ x.op \in {"load", "store"} /\ x.name = p[j].name
                               => x.slot = j - 1
  PROVE  SlottedText(o \o <<x>>, p) /\ SlottedText(Append(o, x), p)
<1>1. SlottedText(<<x>>, p)
  BY DEF SlottedText, Slotted
<1>2. o \o <<x>> = Append(o, x)
  BY DEF SlottedText
<1> QED BY <1>1, <1>2, LongerSlots

LEMMA PlainMore ==
  ASSUME NEW p, NEW o, SlottedText(o, p), NEW t \in Tags, NEW n \in Nat
  PROVE  /\ SlottedText(o \o <<Label(t, n)>>, p) /\ SlottedText(Append(o, Label(t, n)), p)
         /\ SlottedText(o \o <<Jump(t, n)>>, p)
<1>1. Label(t, n) \in Instr /\ Jump(t, n) \in Instr
  BY InstrTypes
<1>2. Label(t, n).op = "label" /\ Jump(t, n).op = "jump"
  BY DEF Label, Jump
<1> QED BY <1>1, <1>2, OneMore

LEMMA SlotAccess ==
  ASSUME NEW p, NEW vs, InOrder(vs, p), NEW op, NEW x, NEW w, NEW j \in DOMAIN p, TopDecl(p, j),
         Access(op, vs, x, w).name = p[j].name
  PROVE  Access(op, vs, x, w).slot = j - 1
<1>1. Access(op, vs, x, w).name = x /\ Access(op, vs, x, w).slot = EntryOf(vs, x) - 1
  BY DEF Access, SlotOf
<1> QED BY <1>1 DEF InOrder

LEMMA CallSlots ==
  ASSUME NEW p, NEW f \in Names, NEW as \in Seq(ArgTypes)
  PROVE  SlottedText(CallCode(f, as), p)
<1> DEFINE x == [op |-> "call", name |-> f, argc |-> Len(as)]
<1>1. x.op = "call" /\ CallCode(f, as) = <<x>>
  BY DEF CallCode
<1>2. CallCode(f, as) \in Seq(Instr)
  BY CallCodeType
<1> HIDE DEF x
<1> QED BY <1>1, <1>2 DEF SlottedText, Slotted

LEMMA ExprSlots ==
  ASSUME NEW p, NEW vs \in Seq(Var), Distinct(vs), InOrder(vs, p),
         NEW e \in Expr, NEW k, ~ExprFails(vs, e)
  PROVE  SlottedText(ExprCode(vs, e, k), p)
<1>0. ExprCode(vs, e, k) \in Seq(Instr)
  BY ExprCodeType
<1>1. CASE e.kind = "FUNC"
  BY <1>1, CallSlots DEF ExprCode, Expr
<1>2. CASE e.kind # "FUNC" /\ k \in DeclKinds
  <2> DEFINE w == SizeOf[TypeOfDecl[k]]
             c == ExprCode(vs, e, k)
  <2>1. c = [i \in DOMAIN e.uses |-> Access("load", vs, e.uses[i], w)]
    BY <1>2 DEF ExprCode
  <2> HIDE DEF w, c
  <2>2. DOMAIN c = DOMAIN e.uses /\ \A i \in DOMAIN c : c[i] = Access("load", vs, e.uses[i], w)
    BY <2>1
  <2>3. Slotted(c, p)
    BY <2>2, SlotAccess DEF Slotted
  <2> QED BY <1>0, <2>3 DEF SlottedText, c
<1>3. CASE e.kind # "FUNC" /\ k \notin DeclKinds
  <2>1. ExprCode(vs, e, k) = <<>>
    BY <1>3 DEF ExprCode
  <2> QED BY <1>0, <2>1 DEF SlottedText, Slotted
<1> QED BY <1>1, <1>2, <1>3

LEMMA LeafSlots ==
  ASSUME NEW p, NEW vs \in Seq(Var), Distinct(vs), InOrder(vs, p),
         NEW s, s.kind \in LeafKinds, s.name \in Names, s.expr \in Expr, ~LeafFails(vs, s)
  PROVE  SlottedText(LeafCode(vs, s), p)
<1>1. CASE s.kind = "FUNC_USE"
  BY <1>1, CallSlots DEF LeafCode, Expr
<1>2. CASE s.kind # "FUNC_USE"
  <2> DEFINE a == ExprCode(vs, s.expr, s.kind)
  <2>1. SlottedText(a, p)
    BY <1>2, ExprSlots DEF LeafFails
  <2>2. CASE s.kind \in DeclKinds \cup {"VCHANGE"}
    <3>1. PICK w \in {1, 2, 4, 8} : LeafCode(vs, s) = a \o <<Access("store", vs, s.name, w)>>
      <4>1. s.name \in VarNames(vs)
        BY <2>2 DEF LeafFails
      <4>2. SizeOf[VarType(vs, s.name)] \in {1, 2, 4, 8}
        BY <4>1, EntryOfProps, SizeTypes
      <4>3. s.kind \in DeclKinds => SizeOf[TypeOfDecl[s.kind]] \in {1, 2, 4, 8}
        BY SizeTypes
      <4> QED BY <2>2, <4>2, <4>3 DEF LeafCode, DeclKinds
    <3> DEFINE x == Access("store", vs, s.name, w)
    <3>2. x \in Instr
      BY <2>2, AccessType DEF LeafFails
    <3>3. \A j \in DOMAIN p : TopDecl(p, j) /\ x.name = p[j].name => x.slot = j - 1
      BY SlotAccess
    <3> HIDE DEF x, a
    <3>4. SlottedText(a \o <<x>>, p)
      BY <2>1, <3>2, <3>3, OneMore
    <3> QED BY <3>1, <3>4 DEF x
  <2>3. CASE s.kind \notin DeclKinds \cup {"VCHANGE"}
    <3>1. LeafCode(vs, s) = a \o <<>>
      BY <1>2, <2>3 DEF LeafCode, DeclKinds
    <3> HIDE DEF a
    <3>2. a \o <<>> = a
      BY <2>1 DEF SlottedText
    <3> QED BY <2>1, <3>1, <3>2
  <2> QED BY <2>2, <2>3
<1> QED BY <1>1, <1>2

(* One step of the third pass, in a program whose declarations lead.       *)
SlotsReady ==
  /\ Base /\ InOrder(m_vars, prog) /\ InOrder(m_vars', prog) /\ SlottedText(out, prog)
  /\ phase \notin {"collect", "assign"}

LEMMA OpenSlots ==
  ASSUME SlotsReady, OpenIf \/ OpenElse \/ OpenWhile \/ OpenFor \/ OpenFunc
  PROVE  SlottedText(out', prog)
<1>1. TypeOK /\ More /\ m_vars \in Seq(Var) /\ Distinct(m_vars) /\ label \in Nat
  BY BaseTypes DEF SlotsReady, TypeOK, OpenIf, OpenElse, OpenWhile, OpenFor, OpenFunc, At
<1>2. /\ Cur.expr \in Expr /\ Cur.name \in Names
      /\ Cur.init.kind \in LeafKinds /\ Cur.init.name \in Names /\ Cur.init.expr \in Expr
  BY <1>1, StmtFields, LeafFields
<1>3. SlottedText(out, prog) /\ InOrder(m_vars, prog)
  BY DEF SlotsReady
<1>4. {"if_end", "While_start", "While_end", "For_start", "For_end", "placeholder"} \subseteq Tags
  BY DEF Tags
<1> HIDE DEF Cur, Tags
<1>5. ASSUME NEW k, NEW o, SlottedText(o, prog), ~ExprFails(m_vars, Cur.expr)
      PROVE  SlottedText(o \o ExprCode(m_vars, Cur.expr, k), prog)
  BY <1>1, <1>2, <1>3, <1>5, ExprSlots, LongerSlots
<1>6. CASE OpenIf
  <2> DEFINE a == out \o ExprCode(m_vars, Cur.expr, "IF")
  <2>1. out' = a \o <<Jump("if_end", label)>> /\ ~ExprFails(m_vars, Cur.expr)
    BY <1>6 DEF OpenIf
  <2>2. SlottedText(a, prog)
    BY <1>3, <1>5, <2>1
  <2> HIDE DEF a
  <2> QED BY <1>1, <1>4, <2>1, <2>2, PlainMore
<1>7. CASE OpenElse
  BY <1>3, <1>7 DEF OpenElse
<1>8. CASE OpenWhile
  <2> DEFINE a == out \o <<Label("While_start", label)>>
             b == a \o ExprCode(m_vars, Cur.expr, "WHILE")
  <2>1. out' = b \o <<Jump("While_end", label)>> /\ ~ExprFails(m_vars, Cur.expr)
    BY <1>8 DEF OpenWhile
  <2>2. SlottedText(a, prog)
    BY <1>1, <1>3, <1>4, PlainMore
  <2> HIDE DEF a
  <2>3. SlottedText(b, prog)
    BY <1>5, <2>1, <2>2
  <2> HIDE DEF b
  <2> QED BY <1>1, <1>4, <2>1, <2>3, PlainMore
<1>9. CASE OpenFor
  <2> DEFINE l == out \o LeafCode(m_vars, Cur.init)
             a == l \o <<Label("For_start", label)>>
             b == a \o ExprCode(m_vars, Cur.expr, "FOR")
  <2>1. /\ out' = b \o <<Jump("For_end", label)>> /\ ~ExprFails(m_vars, Cur.expr)
        /\ ~LeafFails(m_vars, Cur.init)
    BY <1>9 DEF OpenFor
  <2>2. SlottedText(l, prog)
    BY <1>1, <1>2, <1>3, <2>1, LeafSlots, LongerSlots
  <2> HIDE DEF l
  <2>3. SlottedText(a, prog)
    BY <1>1, <1>4, <2>2, PlainMore
  <2> HIDE DEF a
  <2>4. SlottedText(b, prog)
    BY <1>5, <2>1, <2>3
  <2> HIDE DEF b
  <2> QED BY <1>1, <1>4, <2>1, <2>4, PlainMore
<1>10. CASE OpenFunc
  <2> DEFINE x == Jump("placeholder", label)
             y == [op |-> "func", name |-> Cur.name]
  <2>1. out' = out \o <<x, y>>
    BY <1>10 DEF OpenFunc
  <2>2. x \in Instr /\ y \in Instr
    BY <1>1, <1>2, <1>4, InstrTypes
  <2>3. y.op = "func"
    OBVIOUS
  <2>4. SlottedText(out \o <<x>>, prog)
    BY <1>1, <1>3, <1>4, PlainMore
  <2> HIDE DEF x, y
  <2>5. out' = (out \o <<x>>) \o <<y>>
    BY <1>3, <2>1, <2>2, JoinTwo DEF SlottedText
  <2> QED BY <2>2, <2>3, <2>4, <2>5, OneMore
<1> QED BY <1>6, <1>7, <1>8, <1>9, <1>10

LEMMA PlainSlots ==
  ASSUME SlotsReady, GenDecl \/ GenLeaf \/ GenParam
  PROVE  SlottedText(out', prog)
<1>1. TypeOK /\ More /\ m_vars \in Seq(Var) /\ Distinct(m_vars)
  BY BaseTypes DEF SlotsReady, TypeOK, GenDecl, GenLeaf, GenParam, At
<1>2. SlottedText(out, prog) /\ InOrder(m_vars, prog) /\ InOrder(m_vars', prog)
  BY DEF SlotsReady
<1>3. CASE GenDecl \/ GenLeaf
  <2>1. /\ out' = out \o LeafCode(m_vars, Cur) /\ Cur.kind \in LeafKinds
        /\ ~LeafFails(m_vars, Cur)
    BY <1>3 DEF GenDecl, GenLeaf, At, LeafKinds
  <2>2. Cur.name \in Names /\ Cur.expr \in Expr
    BY <1>1, StmtFields
  <2> QED BY <1>1, <1>2, <2>1, <2>2, LeafSlots, LongerSlots
<1>4. CASE GenParam
  <2> DEFINE p  == Cur.params[iter + 1]
             vs == EnsureVarSlot(m_vars, p.name, p.type)
             x  == Access("store", vs, p.name, SizeOf[p.type])
  <2>1. out' = Append(out, x) /\ m_vars' = vs /\ iter + 1 \in 1..Len(Cur.params)
    BY <1>1, <1>4 DEF GenParam, TypeOK
  <2>2. p.name \in Names /\ p.type \in Types
    <3>1. Cur.params \in Seq(Param)
      BY <1>1, StmtFields
    <3>2. p \in Param
      BY <2>1, <3>1
    <3> QED BY <3>2 DEF Param
  <2>3. vs \in Seq(Var) /\ Distinct(vs) /\ p.name \in VarNames(vs)
    <3> HIDE DEF p
    <3> QED BY <1>1, <2>2, EnsureVarSlotProps
  <2>4. x \in Instr
    <3> HIDE DEF vs, p
    <3>1. SizeOf[p.type] \in {1, 2, 4, 8}
      BY <2>2, SizeTypes
    <3> QED BY <2>2, <2>3, <3>1, AccessType
  <2>5. \A j \in DOMAIN prog : TopDecl(prog, j) /\ x.name = prog[j].name => x.slot = j - 1
    <3>1. InOrder(vs, prog)
      BY <1>2, <2>1
    <3> HIDE DEF vs, p
    <3> QED BY <3>1, SlotAccess
  <2> HIDE DEF x
  <2> QED BY <1>2, <2>1, <2>4, <2>5, OneMore
<1> QED BY <1>3, <1>4

LEMMA CloseSlots ==
  ASSUME SlotsReady, StartDelete \/ CloseIfElse \/ CloseWhile \/ CloseFunc \/ CloseFor
  PROVE  SlottedText(out', prog)
<1>1. TypeOK /\ open # <<>> /\ m_vars \in Seq(Var) /\ Distinct(m_vars)
  BY BaseTypes DEF SlotsReady, TypeOK, StartDelete, CloseIfElse, CloseWhile, CloseFunc, CloseFor, Closing
<1>2. SlottedText(out, prog) /\ InOrder(m_vars, prog)
  BY DEF SlotsReady
<1>3. Top.stmt.step \in Leaf /\ Top.id \in Nat
  BY <1>1, TopFrame
<1>4. {"if_end", "else_end", "While_start", "While_end", "For_start", "For_end", "placeholder"} \subseteq Tags
  BY DEF Tags
<1> HIDE DEF Top, Tags
<1>5. CASE StartDelete
  BY <1>2, <1>3, <1>4, <1>5, PlainMore DEF StartDelete
<1>6. CASE CloseIfElse
  BY <1>2, <1>3, <1>4, <1>6, PlainMore DEF CloseIfElse
<1>7. ASSUME NEW o, SlottedText(o, prog), NEW s \in Tags, NEW t \in Tags
      PROVE  SlottedText(o \o <<Jump(s, Top.id), Label(t, Top.id)>>, prog)
  <2> DEFINE x == Jump(s, Top.id)
             y == Label(t, Top.id)
  <2>1. x \in Instr /\ y \in Instr
    BY <1>3, InstrTypes
  <2>2. SlottedText((o \o <<x>>) \o <<y>>, prog)
    BY <1>3, <1>7, PlainMore
  <2> HIDE DEF x, y
  <2>3. o \o <<x, y>> = (o \o <<x>>) \o <<y>>
    BY <1>7, <2>1, JoinTwo DEF SlottedText
  <2> QED BY <2>2, <2>3 DEF x, y
<1>8. CASE CloseWhile
  BY <1>2, <1>4, <1>7, <1>8 DEF CloseWhile
<1>9. CASE CloseFunc
  BY <1>2, <1>9 DEF CloseFunc
<1>10. CASE CloseFor
  <2> DEFINE l == out \o LeafCode(m_vars, Top.stmt.step)
  <2>1. /\ out' = l \o <<Jump("For_start", Top.id), Label("For_end", Top.id)>>
        /\ ~LeafFails(m_vars, Top.stmt.step)
    BY <1>10 DEF CloseFor
  <2>2. SlottedText(l, prog)
    BY <1>1, <1>2, <1>3, <2>1, LeafFields, LeafSlots, LongerSlots
  <2> HIDE DEF l
  <2> QED BY <1>4, <1>7, <2>1, <2>2
<1> QED BY <1>5, <1>6, <1>8, <1>9, <1>10

LEMMA SlotsNext ==
  ASSUME Base, TopsInOrder, TopsInOrder', TopSlots, [Next]_vars
  PROVE  TopSlots'
<1> SUFFICES ASSUME Dist', DeclsFirst(prog') PROVE Slotted(out', prog')
  BY DEF TopSlots
<1>1. Dist /\ prog' = prog /\ DeclsFirst(prog)
  BY DistBefore
<1>2. SlottedText(out, prog)
  BY <1>1, BaseTypes DEF TopSlots, SlottedText, TypeOK
<1>3. CASE UNCHANGED out
  BY <1>1, <1>2, <1>3 DEF SlottedText
<1>4. CASE phase = "assign" /\ NextPass
  <2> DEFINE x == Label("_start", 0)
             y == [op |-> "reserve", bytes |-> ReservedBytes]
  <2>1. out' = <<x, y>>
    BY <1>4 DEF NextPass
  <2>2. x.op = "label" /\ y.op = "reserve"
    BY DEF Label
  <2> HIDE DEF x, y
  <2> QED BY <2>1, <2>2 DEF Slotted
<1>5. ASSUME phase \notin {"collect", "assign"}, phase' \notin {"collect", "assign"} PROVE SlotsReady
  <2>1. InOrder(m_vars, prog)
    BY <1>1, <1>5 DEF TopsInOrder
  <2>2. InOrder(m_vars', prog')
    BY <1>5 DEF TopsInOrder
  <2> QED BY <1>1, <1>2, <1>5, <2>1, <2>2 DEF SlotsReady
<1>6. CASE OpenIf \/ OpenElse \/ OpenWhile \/ OpenFor \/ OpenFunc
  <2>1. phase \notin {"collect", "assign"} /\ phase' \notin {"collect", "assign"}
    BY <1>6 DEF OpenIf, OpenElse, OpenWhile, OpenFor, OpenFunc, EnterBody, At
  <2> QED BY <1>1, <1>5, <1>6, <2>1, OpenSlots DEF SlottedText
<1>7. CASE GenDecl \/ GenLeaf \/ GenParam
  <2>1. phase \notin {"collect", "assign"} /\ phase' \notin {"collect", "assign"}
    BY <1>7 DEF GenDecl, GenLeaf, GenParam, At
  <2> QED BY <1>1, <1>5, <1>7, <2>1, PlainSlots DEF SlottedText
<1>8. CASE StartDelete \/ CloseIfElse \/ CloseWhile \/ CloseFunc \/ CloseFor
  <2>1. phase \notin {"collect", "assign"} /\ phase' \notin {"collect", "assign"}
    BY <1>8 DEF StartDelete, CloseIfElse, CloseWhile, CloseFunc, CloseFor, Closing, LeaveBody, At
  <2> QED BY <1>1, <1>5, <1>8, <2>1, CloseSlots DEF SlottedText
<1>9. CollectVars \/ AssignSlots \/ DeleteVar \/ EnterFunc \/ Finish \/ Exit \/ Crash \/ UNCHANGED vars
        => UNCHANGED out
  BY DEF CollectVars, AssignSlots, Walk, DeleteVar, EnterFunc, Finish, Exit, Crash, Halt, vars
<1>10. NextPass => UNCHANGED out \/ phase = "assign"
  BY DEF NextPass
<1> QED BY <1>3, <1>4, <1>6, <1>7, <1>8, <1>9, <1>10 DEF Next, Step, Gen, Del, Terminated

(* In the text of such a program every access to a declaration that leads  *)
(* has the slot of its place among the declarations, at every moment.      *)
THEOREM SlotsOfTop == Spec => []TopSlots
<1>1. Init => TopSlots
  BY DEF Init, TopSlots, Slotted
<1>2. Base /\ TopsInOrder /\ TopsInOrder' /\ TopSlots /\ [Next]_vars => TopSlots'
  BY SlotsNext
<1>3. Base /\ OrderInv => TopsInOrder
  BY TableInOrder DEF OrderInv
<1> QED BY <1>1, <1>2, <1>3, BaseHolds, OrderKept, PTL DEF Spec

(* When the declarations of a program stand before its first body, the     *)
(* accesses to two different top-level variables never touch a common byte *)
(* of the frame, whatever bodies follow and delete from the table.         *)
THEOREM CellsDisjoint == Spec => []LayoutDisjoint
<1>1. Base /\ TopSlots /\ NoNestedBlockCompiles => LayoutDisjoint
  <2> SUFFICES ASSUME Base, TopSlots, NoNestedBlockCompiles,
                      phase = "done", DeclsFirst(prog), DistinctNames(prog),
                      NEW i \in {k \in DOMAIN out : OwnAccess(k)},
                      NEW j \in {k \in DOMAIN out : OwnAccess(k)},
                      out[i].name # out[j].name
               PROVE  /\ ~OutOfRange(prog, out[i].slot)
                      /\ Cell(prog, out[i].slot, out[i].width)
                           \cap Cell(prog, out[j].slot, out[j].width) = {}
    BY DEF LayoutDisjoint
  <2>1. prog \in Seq(Stmt) /\ Dist /\ out \in Seq(Instr)
    BY BaseTypes DEF Dist, Live, NoNestedBlockCompiles, TypeOK
  <2>2. ASSUME NEW k \in DOMAIN out, OwnAccess(k)
        PROVE  \E s \in DOMAIN prog : /\ TopDecl(prog, s) /\ out[k].name = prog[s].name
                                      /\ out[k].slot = s - 1 /\ out[k].width \in Nat
                                      /\ out[k].width <= SizeOf[TypeOfDecl[prog[s].kind]]
    <3>1. PICK d \in TopDecls(prog) : out[k].name = d.name /\ out[k].width <= SizeOf[TypeOfDecl[d.kind]]
      BY <2>2 DEF OwnAccess
    <3>2. PICK s \in DOMAIN prog : prog[s].kind \in DeclKinds /\ Depth(prog, s) = 0 /\ d = prog[s]
      BY <3>1 DEF TopDecls
    <3>3. TopDecl(prog, s) /\ out[k].op \in {"load", "store"}
      BY <2>2, <3>2 DEF TopDecl, OwnAccess
    <3>4. out[k].slot = s - 1
      BY <2>1, <3>1, <3>2, <3>3 DEF TopSlots, Slotted
    <3>5. out[k].width \in Nat
      <4>1. out[k] \in Instr
        BY <2>1
      <4>2. \A x \in Instr : x.op \in {"load", "store"} => x.width \in Nat
        BY DEF Instr
      <4> QED BY <3>3, <4>1, <4>2
    <3> QED BY <3>1, <3>2, <3>3, <3>4, <3>5
  <2>3. PICK s \in DOMAIN prog : /\ TopDecl(prog, s) /\ out[i].name = prog[s].name
                                 /\ out[i].slot = s - 1 /\ out[i].width \in Nat
                                 /\ out[i].width <= SizeOf[TypeOfDecl[prog[s].kind]]
    BY <2>2
  <2>4. PICK t \in DOMAIN prog : /\ TopDecl(prog, t) /\ out[j].name = prog[t].name
                                 /\ out[j].slot = t - 1 /\ out[j].width \in Nat
                                 /\ out[j].width <= SizeOf[TypeOfDecl[prog[t].kind]]
    BY <2>2
  <2>5. ~OutOfRange(prog, out[i].slot)
    BY <2>1, <2>3, TopStmts
  <2>6. s < t \/ t < s
    <3>1. s \in Nat /\ t \in Nat /\ s # t
      BY <2>1, <2>3, <2>4
    <3> QED BY <3>1
  <2>7. Cell(prog, s - 1, out[i].width) \cap Cell(prog, t - 1, out[j].width) = {}
    <3>1. CASE s < t
      BY <2>1, <2>3, <2>4, <3>1, CellsApart
    <3>2. CASE t < s
      <4>1. Cell(prog, t - 1, out[j].width) \cap Cell(prog, s - 1, out[i].width) = {}
        BY <2>1, <2>3, <2>4, <3>2, CellsApart
      <4> QED BY <4>1
    <3> QED BY <2>6, <3>1, <3>2
  <2> QED BY <2>3, <2>4, <2>5, <2>7
<1> QED BY <1>1, BaseHolds, SlotsOfTop, NestingRejected, PTL
=============================================================================
