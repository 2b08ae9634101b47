------------------------------ MODULE Emission ------------------------------
(***************************************************************************)
(* The instructions that generation.c and helper.c emit for a program of   *)
(* Trees.  Every instruction has a line it belongs to; the line is         *)
(* history, it moves nothing.                                              *)
(***************************************************************************)
EXTENDS Trees

-----------------------------------------------------------------------------
(* Instructions.  An operand of w bytes in memory is [rbp - off].  What is *)
(* known of the arguments of a call is history.                            *)
Imm(r, w, n)    == [op |-> "imm", reg |-> r, width |-> w, value |-> n]
Copy(r, w, q)   == [op |-> "copy", reg |-> r, width |-> w, from |-> q]
Load(r, w, off) == [op |-> "load", reg |-> r, width |-> w, off |-> off]
Store(off, w, r) == [op |-> "store", reg |-> r, width |-> w, off |-> off]
Push(r)         == [op |-> "push", reg |-> r]
Pop(r)          == [op |-> "pop", reg |-> r]
Alu(o)          == [op |-> "alu", fn |-> o]      \* rax := rax o rbx
Test            == [op |-> "test"]               \* rax := rax # 0
AddSp(n)        == [op |-> "addsp", value |-> n]
Mark(tag, id)   == [op |-> "label", tag |-> tag, id |-> id]
Go(tag, id)     == [op |-> "jump", tag |-> tag, id |-> id]
GoIfZero(r, tag, id) == [op |-> "jz", reg |-> r, tag |-> tag, id |-> id]
Skip(when, n)   == [op |-> "skip", on |-> when, value |-> n]  \* labels inside an expression
Call(f, args)   == [op |-> "call", tag |-> "func", id |-> f, args |-> args]
Leave           == [op |-> "leave"]
Ret             == [op |-> "ret"]
Syscall         == [op |-> "syscall"]

(* A text with the line of each instruction.                               *)
On(line, instrs) == [code |-> instrs, lines |-> [k \in DOMAIN instrs |-> line]]
Then(s, t)       == [code |-> s.code \o t.code, lines |-> s.lines \o t.lines]
Together(ts)     == [code  |-> FlattenSeq([i \in DOMAIN ts |-> ts[i].code]),
                     lines |-> FlattenSeq([i \in DOMAIN ts |-> ts[i].lines])]
-----------------------------------------------------------------------------
(* gen_expr_to_rax for an expression of statement s of program p.          *)

(* slot_to_offset of lookup_var_slot.                                      *)
OffsetOf(p, vs, x) == SlotOffset(p, SlotOf(vs, x))

(* emit_move_to_ident, emit_move_to_int_lit: the width is that of the      *)
(* statement; only a declaration has one.                                  *)
LoadCode(p, vs, x, s) ==
  IF s.kind \in DeclKinds
  THEN <<Load("rax", SizeOf[TypeOfDecl[s.kind]], OffsetOf(p, vs, x))>> ELSE <<>>
LitCode(n, s) ==
  IF s.kind \in DeclKinds THEN <<Imm("rax", SizeOf[TypeOfDecl[s.kind]], n)>> ELSE <<>>

(* get_regpair_for_stmt: the part of rbx that receives the right operand.  *)
RightWidth(vs, s, op) ==
  IF s.kind = "VCHANGE" /\ op \in Arithmetic THEN SizeOf[VarType(vs, s.name)] ELSE 8

(* Mutant: the operands come back in the wrong order.                      *)
CombineSwapped(l, r, w, op) ==
  r \o <<Push("rax")>> \o l \o <<Copy("rbx", w, "rax"), Pop("rax"), Alu(op)>>

(* Mutant: the left operand stays on the stack.                            *)
CombineKept(l, r, w, op) ==
  l \o <<Push("rax")>> \o r \o <<Copy("rbx", w, "rax"), Alu(op)>>

(* gen_binexpr_to_rax: the left operand waits on the stack.                *)
Combine(l, r, w, op) ==
  l \o <<Push("rax")>> \o r \o <<Copy("rbx", w, "rax"), Pop("rax"), Alu(op)>>

(* The right operand of && and || runs only when the left one leaves the   *)
(* answer open.                                                            *)
ShortCircuit(l, r, op) ==
  LET rest == r \o <<Test, Skip("always", 1)>>
  IN  l \o <<Skip(IF op = "and" THEN "zero" ELSE "nonzero", Len(rest))>> \o rest
        \o <<Imm("rax", 8, IF op = "and" THEN 0 ELSE 1)>>

(* gen_bindexpr_to_rax                                                     *)
OperandCode(p, vs, e, s) ==
  LET Of(n)          == IF n.kind = "INT_LIT" THEN <<Imm("rax", 4, n.value)>>
                        ELSE LoadCode(p, vs, n.name, s)
      Join(l, r, op) == IF op \in Logical THEN ShortCircuit(l, r, op)
                        ELSE Combine(l, r, RightWidth(vs, s, op), op)
  IN  Evaluate(e.nodes, Of, Join)

(* The argument registers, by position, and the part that is written.      *)
ArgReg == <<"rdi", "rsi", "rdx", "rcx", "r8", "r9">>

(* Mutant: an integer is passed in the part a character has.               *)
ArgWidthByte(type) == CASE type \in {"char_v", "int_lit"} -> 1 [] type = "short" -> 2 [] OTHER -> 8

ArgWidth(type) == CASE type = "char_v" -> 1 [] type = "short" -> 2 [] type = "int_lit" -> 4 [] OTHER -> 8

(* Mutant: the stack pointer is not put back behind the call.              *)
CallCodeLeak(f, args) ==
  [i \in DOMAIN args |-> Imm(ArgReg[i], ArgWidth(args[i].type), args[i].value)]
    \o <<AddSp(-8), Call(f, args)>>

CallCode(f, args) ==
  [i \in DOMAIN args |-> Imm(ArgReg[i], ArgWidth(args[i].type), args[i].value)]
    \o <<AddSp(-8), Call(f, args), AddSp(8)>>

ExprCode(p, vs, e, s) ==
  CASE e.kind = "FUNC"    -> CallCode(e.fn, e.args)
    [] e.kind = "INT_LIT" -> LitCode(e.value, s)
    [] e.kind = "IDENT"   -> LoadCode(p, vs, e.name, s)
    [] e.kind = "BIN"     -> OperandCode(p, vs, e, s)
    [] e.kind = "CHAR"    -> <<Imm("rax", 1, e.value)>>

LeafCode(p, vs, s) ==
  IF s.kind = "FUNC_USE" THEN CallCode(s.name, s.expr.args)
  ELSE ExprCode(p, vs, s.expr, s) \o
       CASE s.kind \in DeclKinds -> <<Store(OffsetOf(p, vs, s.name), SizeOf[TypeOfDecl[s.kind]], "rax")>>
         [] s.kind = "VCHANGE"   -> <<Store(OffsetOf(p, vs, s.name), SizeOf[VarType(vs, s.name)], "rax")>>
         [] s.kind = "EXIT"      -> <<Copy("rdi", 8, "rax"), Imm("rax", 8, 60), Syscall>>
         [] OTHER                -> <<>>
-----------------------------------------------------------------------------
(* The walk of generate_gen_data: m_vars as each statement finds it, and   *)
(* what the statement emits.                                               *)

(* m_vars behind a pass over statements that enters bodies of the given    *)
(* kinds, and of a FOR looks at cond1 or at cond3 too.                     *)
Enter(p, vs, kinds, parts) ==
  FoldLeft(LAMBDA ws, i :
             IF Depth(p, i) > 0 /\ p[Opener(p, i)].kind \notin kinds THEN ws
             ELSE IF p[i].kind = "FOR" THEN FoldLeft(EnsureDecl, ws, [k \in DOMAIN parts |-> p[i][parts[k]]])
             ELSE EnsureDecl(ws, p[i]),
           vs, [i \in DOMAIN p |-> i])

Table(p) ==
  Enter(p, Enter(p, <<>>, {"IF"}, <<"init">>), {"IF", "FUNC", "FOR"}, <<"init", "step">>)

(* The first k parameters enter their names.                               *)
EnterParams(vs, params, k) ==
  FoldLeft(LAMBDA ws, q : EnsureVarSlot(ws, q.name, q.type), vs, SubSeq(params, 1, k))

(* delete_local_var: what the body declared leaves.                        *)
DeleteRow(vs, body) ==
  FoldLeft(LAMBDA ws, s : IF s.kind \in DeclKinds THEN ShiftOut(ws, EntryOf(ws, s.name)) ELSE ws, vs, body)

VarsBehind(p, vs, i) ==
  CASE p[i].kind = "FUNC" -> EnterParams(vs, p[i].params, Len(p[i].params))
    [] p[i].kind = "END"  -> DeleteRow(vs, SubSeq(p, Opener(p, i) + 1, i - 1))
    [] OTHER              -> vs

(* __label_counter when statement i opens its body.                        *)
LabelOf(p, i) == Cardinality({j \in 1..(i - 1) : Opens(p[j])})

(* One parameter: its slot, the copy of its register, 16 bytes of stack    *)
(* and the store.                                                          *)
ParamCode(p, vs, q, k) ==
  LET w == SizeOf[q.type]
  IN  <<Copy("rax", w, ArgReg[k]), AddSp(-16), Store(OffsetOf(p, vs, q.name), w, ArgReg[k])>>

FuncCode(p, vs, s) ==
  <<Mark("func", s.name), Push("rbp"), Copy("rbp", 8, "rsp")>>
    \o FlattenSeq([k \in DOMAIN s.params |-> ParamCode(p, EnterParams(vs, s.params, k), s.params[k], k)])

OpenText(p, vs, i) ==
  LET s    == p[i]
      n    == LabelOf(p, i)
      cond == ExprCode(p, vs, s.expr, s)
  IN  CASE s.kind = "IF"    -> On(<<i, 1>>, cond \o <<GoIfZero("rax", "if_end", n)>>)
        [] s.kind = "ELSE"  -> On(<<i, 1>>, <<>>)
        [] s.kind = "WHILE" -> On(<<i, 1>>, <<Mark("While_start", n)>> \o cond
                                   \o <<Copy("r10", 8, "rax"), GoIfZero("r10", "While_end", n)>>)
        [] s.kind = "FOR"   -> Then(On(<<i, 1>>, LeafCode(p, vs, s.init)),
                                    On(<<i, 2>>, <<Mark("For_start", n)>> \o cond
                                                 \o <<GoIfZero("rax", "For_end", n)>>))
        [] s.kind = "FUNC"  -> Then(On(<<i, 1>>, <<Go("placeholder", n)>>), On(<<i, 2>>, FuncCode(p, vs, s)))

StepCode(p, vs, o) == LeafCode(p, vs, o.step)

(* Mutant: the frame is not given back.                                    *)
EpilogueRetOnly == <<Ret>>

Epilogue == <<Leave, Ret>>

(* The END of the body of statement o; m_vars has lost its locals.         *)
CloseText(p, vs, i) ==
  LET o == Opener(p, i)
      n == LabelOf(p, o)
      Behind(t, tag) == Then(t, On(Following(p, i + 1), <<Mark(tag, n)>>))
  IN  CASE p[o].kind = "IF"    -> Behind(On(<<i, 1>>, <<>>), "if_end")
        [] p[o].kind = "ELSE"  -> Behind(On(<<i, 1>>, <<>>), "else_end")
        [] p[o].kind = "WHILE" -> Behind(On(<<o, 1>>, <<Go("While_start", n)>>), "While_end")
        [] p[o].kind = "FUNC"  -> Behind(On(<<i, 1>>, Epilogue), "placeholder")
        [] p[o].kind = "FOR"   -> Behind(Then(On(<<i, 1>>, StepCode(p, vs, p[o])),
                                              On(<<o, 2>>, <<Go("For_start", n)>>)), "For_end")

StmtText(p, before, behind, i) ==
  IF Opens(p[i]) THEN OpenText(p, before, i)
  ELSE IF Closes(p[i]) THEN CloseText(p, behind, i)
  ELSE On(<<i, 1>>, LeafCode(p, before, p[i]))

(* Mutant: nothing stands behind the last statement.                       *)
ExitCodeNone == <<>>

ExitCode == <<Imm("rax", 8, 60), Imm("rdi", 8, 0), Syscall>>

(* The whole text: prologue, with nothing reserved, statements, exit(0).   *)
Emit(p) ==
  LET first == Table(p)
      vars[i \in 0..Len(p)] == IF i = 0 THEN first ELSE VarsBehind(p, vars[i - 1], i)
  IN  Together(<<On(<<1, 1>>, <<Push("rbp"), Copy("rbp", 8, "rsp")>>)>>
               \o [i \in 1..Len(p) |-> StmtText(p, vars[i - 1], vars[i], i)]
               \o <<On(<<Len(p) + 1, 1>>, ExitCode)>>)
=============================================================================
