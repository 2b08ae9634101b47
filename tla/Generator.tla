----------------------------- MODULE Generator ------------------------------
(***************************************************************************)
(* The code generator (generation/generation.c, generation/helper/helper.c)*)
(* from generate_gen_data to the finished m_output.                        *)
(*                                                                         *)
(* The generator walks the program three times.  collect_vars and          *)
(* assign_slots_in_stmt fill m_vars, the flat table whose index is a       *)
(* variable's slot; gen_stmt emits code, keeping in m_block one row of     *)
(* local names per open body, deleting from m_vars the locals of a body    *)
(* that closes, and collecting in m_func the parameters seen so far.       *)
(*                                                                         *)
(* `pc` is the statement the walk has reached and `open` the C call stack  *)
(* of that walk: one frame per gen_stmt call whose body is being visited,  *)
(* with the label number it holds in its local `id`.  The loops over the   *)
(* parameters of a function and over the names of a closing row take one   *)
(* step per iteration, counted by `iter`.  exit(1) ends the behaviour in   *)
(* phase "exited", a fault in phase "crashed".                             *)
(***************************************************************************)
EXTENDS Symbols

CONSTANTS Programs      \* the programs the parser may hand over

ASSUME ProgramsAssumption == Programs \subseteq {p \in Seq(Stmt) : Balanced(p)}

VARIABLES
  prog,     \* m_prog
  phase,    \* which pass is running, or how the process ended
  pc,       \* index in prog of the statement being visited
  open,     \* C stack of the walk: frames [stmt, id]
  iter,     \* iterations done of the loop that phase names
  m_vars,   \* StackVec: [name, type], the index is the slot
  m_block,  \* Str2DVec: one row of names per open body
  m_func,   \* func_args: one [name, arg_types] per parameter ever seen
  label,    \* the file-scope __label_counter
  out,      \* m_output, as abstract instructions
  nested,   \* history: a body was opened inside another one
  bound     \* history: variables initialised and still in scope

tables == <<m_vars, m_block, m_func>>
vars   == <<prog, phase, pc, open, iter, tables, label, out, nested, bound>>

Phases == {"collect", "assign", "gen", "params", "delete", "done", "exited", "crashed"}
Cur    == prog[pc]
More   == pc <= Len(prog)
-----------------------------------------------------------------------------
(* Calls.                                                                  *)

(* The loop of NODE_STMT_FUNC_USE over m_func: every entry, whichever      *)
(* function it came from, is compared with the arguments of this call.     *)
CallOK(args) ==
  \A i \in DOMAIN m_func :
    /\ Len(m_func[i].arg_types) = Len(args)
    /\ \A j \in DOMAIN m_func[i].arg_types : CheckTypes(m_func[i].arg_types[j], args[j])

CallCode(f, args) == <<[op |-> "call", name |-> f, argc |-> Len(args)]>>
-----------------------------------------------------------------------------
(* Instructions.  A memory access names the slot whose slot_to_offset is   *)
(* its operand (module Frame).                                             *)

Access(op, vs, x, w) == [op |-> op, name |-> x, slot |-> SlotOf(vs, x), width |-> w]

Label(tag, id) == [op |-> "label", tag |-> tag, id |-> id]
Jump(tag, id)  == [op |-> "jump", tag |-> tag, id |-> id]

(* bytes: next_slot is set to 0 and never advanced before it is used.      *)
ReservedBytes == LET next_slot == 0 IN ((next_slot * 8 + 15) \div 16) * 16
-----------------------------------------------------------------------------
(* gen_expr_to_rax: when it exits, and what it emits for statement kind k. *)

ExprFails(vs, e) ==
  \/ \E i \in DOMAIN e.uses : e.uses[i] \notin VarNames(vs)
  \/ e.kind = "FUNC" /\ ~CallOK(e.args)

(* An identifier is loaded by emit_move_to_ident, which knows only the     *)
(* declaration kinds: elsewhere the lookup is made and nothing is emitted. *)
ExprCode(vs, e, k) ==
  IF e.kind = "FUNC" THEN CallCode(e.fn, e.args)
  ELSE IF k \in DeclKinds
       THEN [i \in DOMAIN e.uses |->
               Access("load", vs, e.uses[i], SizeOf[TypeOfDecl[k]])]
       ELSE <<>>

(* handle_vars refuses a character for an integer.                         *)
CharToInt(s) == s.kind \in {"INT", "SHORT", "LONG"} /\ s.expr.kind = "CHAR"

(* Leaf statements: when gen_stmt exits on one.                            *)
LeafFails(vs, s) ==
  \/ CharToInt(s)
  \/ s.kind # "FUNC_USE" /\ ExprFails(vs, s.expr)
  \/ s.kind \in DeclKinds \cup {"VCHANGE"} /\ s.name \notin VarNames(vs)
  \/ s.kind = "FUNC_USE" /\ ~CallOK(s.expr.args)

(* What gen_stmt emits for one that it accepts.                            *)
LeafCode(vs, s) ==
  IF s.kind = "FUNC_USE" THEN CallCode(s.name, s.expr.args)
  ELSE ExprCode(vs, s.expr, s.kind) \o
       CASE s.kind \in DeclKinds ->
              <<Access("store", vs, s.name, SizeOf[TypeOfDecl[s.kind]])>>
         [] s.kind = "VCHANGE" ->
              <<Access("store", vs, s.name, SizeOf[VarType(vs, s.name)])>>
         [] OTHER -> <<>>

(* Mutant: the push onto the last row is lost.                             *)
DeclareLocalNowhere(rows, s) == rows

(* handle_vars records a declaration in the last row, if there is one.     *)
DeclareLocal(rows, s) ==
  IF s.kind \in DeclKinds /\ rows # <<>>
  THEN [rows EXCEPT ![Len(rows)] = Append(@, s.name)]
  ELSE rows

(* History: s, if a declaration, binds its name with d bodies open.        *)
BindDecl(bs, vs, s, d) ==
  IF s.kind \in DeclKinds
  THEN bs \cup {[name |-> s.name, slot |-> SlotOf(vs, s.name), depth |-> d]}
  ELSE bs
-----------------------------------------------------------------------------
(* generate_gen_data allocates its data afresh.                            *)
Init ==
  /\ prog \in Programs
  /\ phase = "collect" /\ pc = 1 /\ open = <<>> /\ iter = 0
  /\ m_vars = <<>> /\ m_block = <<>> /\ m_func = <<>>
  /\ label = 0
  /\ out = <<>>
  /\ nested = FALSE /\ bound = {}
-----------------------------------------------------------------------------
(* The two table-filling passes.  A body is entered only by the statement  *)
(* kinds the pass recurses into.                                           *)

PushFrame(id) == open' = Append(open, [stmt |-> Cur, id |-> id])
PopFrame      == open # <<>> /\ open' = Front(open)

Reached(kinds) == \A i \in DOMAIN open : open[i].stmt.kind \in kinds

Walk ==
  /\ IF Opens(Cur) THEN PushFrame(0) ELSE IF Closes(Cur) THEN PopFrame
                                         ELSE UNCHANGED open
  /\ pc' = pc + 1
  /\ UNCHANGED <<prog, phase, iter, m_block, m_func, label, out, nested, bound>>

(* collect_vars_in_stmt recurses into IF; of a FOR it takes only cond1.    *)
CollectVars ==
  /\ phase = "collect" /\ More
  /\ m_vars' = IF ~Reached({"IF"}) THEN m_vars
               ELSE IF Cur.kind = "FOR" THEN EnsureDecl(m_vars, Cur.init)
               ELSE EnsureDecl(m_vars, Cur)
  /\ Walk

(* assign_slots_in_stmt recurses into IF, FUNC and FOR.                    *)
AssignSlots ==
  /\ phase = "assign" /\ More
  /\ m_vars' = IF ~Reached({"IF", "FUNC", "FOR"}) THEN m_vars
               ELSE IF Cur.kind = "FOR"
                    THEN EnsureDecl(EnsureDecl(m_vars, Cur.init), Cur.step)
               ELSE EnsureDecl(m_vars, Cur)
  /\ Walk

(* Mutant: the second pass is followed by the first one again.             *)
NextPassLoop ==
  /\ ~More /\ open = <<>>
  /\ phase \in {"collect", "assign"}
  /\ phase' = IF phase = "collect" THEN "assign" ELSE "collect"
  /\ pc' = 1
  /\ UNCHANGED <<prog, open, iter, tables, label, out, nested, bound>>

(* The end of a pass; the third one starts with the prologue.              *)
NextPass ==
  /\ ~More /\ open = <<>>
  /\ \/ phase = "collect" /\ phase' = "assign" /\ UNCHANGED out
     \/ phase = "assign" /\ phase' = "gen"
        /\ out' = <<Label("_start", 0), [op |-> "reserve", bytes |-> ReservedBytes]>>
  /\ pc' = 1
  /\ UNCHANGED <<prog, open, iter, tables, label, nested, bound>>
-----------------------------------------------------------------------------
(* gen_stmt, one action per branch.                                        *)

At(kinds) == phase = "gen" /\ More /\ Cur.kind \in kinds

(* NODE_STMT_INT, SHORT, LONG and CHAR: handle_vars.                       *)
GenDecl ==
  /\ At(DeclKinds)
  /\ ~LeafFails(m_vars, Cur)
  /\ m_block' = DeclareLocal(m_block, Cur)
  /\ out' = out \o LeafCode(m_vars, Cur)
  /\ bound' = BindDecl(bound, m_vars, Cur, Len(open))
  /\ pc' = pc + 1
  /\ UNCHANGED <<prog, phase, open, iter, m_vars, m_func, label, nested>>

(* VCHANGE, RETURN, EXIT and FUNC_USE touch no table.                      *)
GenLeaf ==
  /\ At(LeafKinds \ DeclKinds)
  /\ ~LeafFails(m_vars, Cur)
  /\ out' = out \o LeafCode(m_vars, Cur)
  /\ pc' = pc + 1
  /\ UNCHANGED <<prog, phase, open, iter, tables, label, nested, bound>>

(* Mutant: next_label returns the counter without advancing it.            *)
EnterBodySameLabel(rows) ==
  /\ m_block' = Append(rows, <<>>)
  /\ nested' = (nested \/ open # <<>>)
  /\ PushFrame(label)
  /\ label' = label
  /\ pc' = pc + 1
  /\ UNCHANGED <<prog, phase, iter, m_vars, m_func>>

(* IF, ELSE, WHILE and FOR take a label number, emit what precedes the     *)
(* body and push an empty row for it.                                      *)
EnterBody(rows) ==
  /\ m_block' = Append(rows, <<>>)
  /\ nested' = (nested \/ open # <<>>)
  /\ PushFrame(label)
  /\ label' = label + 1
  /\ pc' = pc + 1
  /\ UNCHANGED <<prog, phase, iter, m_vars, m_func>>

OpenIf ==
  /\ At({"IF"})
  /\ ~ExprFails(m_vars, Cur.expr)
  /\ out' = out \o ExprCode(m_vars, Cur.expr, "IF") \o <<Jump("if_end", label)>>
  /\ EnterBody(m_block)
  /\ UNCHANGED bound

OpenElse ==
  /\ At({"ELSE"})
  /\ EnterBody(m_block)
  /\ UNCHANGED <<out, bound>>

OpenWhile ==
  /\ At({"WHILE"})
  /\ ~ExprFails(m_vars, Cur.expr)
  /\ out' = out \o <<Label("While_start", label)>>
                \o ExprCode(m_vars, Cur.expr, "WHILE") \o <<Jump("While_end", label)>>
  /\ EnterBody(m_block)
  /\ UNCHANGED bound

(* cond1 runs before the row of the body is pushed: what it declares       *)
(* belongs to the enclosing body.                                          *)
OpenFor ==
  /\ At({"FOR"})
  /\ ~LeafFails(m_vars, Cur.init) /\ ~ExprFails(m_vars, Cur.expr)
  /\ out' = out \o LeafCode(m_vars, Cur.init) \o <<Label("For_start", label)>>
                \o ExprCode(m_vars, Cur.expr, "FOR") \o <<Jump("For_end", label)>>
  /\ EnterBody(DeclareLocal(m_block, Cur.init))
  /\ bound' = BindDecl(bound, m_vars, Cur.init, Len(open))

(* FUNC: jump over the function, its label, then the parameter loop.       *)
OpenFunc ==
  /\ At({"FUNC"})
  /\ out' = out \o <<Jump("placeholder", label), [op |-> "func", name |-> Cur.name]>>
  /\ nested' = (nested \/ open # <<>>)
  /\ PushFrame(label)
  /\ label' = label + 1
  /\ phase' = "params"
  /\ UNCHANGED <<prog, pc, iter, tables, bound>>

(* Every parameter is an entry of its own, with one type.                  *)
NoteParam(fs, p) == Append(fs, [name |-> p.name, arg_types |-> <<p.type>>])

(* One parameter: a slot, an m_func entry of its own, the store that saves *)
(* the argument register.  No row of m_block records it.                   *)
GenParam ==
  /\ phase = "params" /\ iter < Len(Cur.params)
  /\ LET p  == Cur.params[iter + 1]
         vs == EnsureVarSlot(m_vars, p.name, p.type)
     IN  /\ m_vars' = vs
         /\ m_func' = NoteParam(m_func, p)
         /\ out' = Append(out, Access("store", vs, p.name, SizeOf[p.type]))
         /\ bound' = bound \cup {[name |-> p.name, slot |-> SlotOf(vs, p.name),
                                  depth |-> Len(open)]}
  /\ iter' = iter + 1
  /\ UNCHANGED <<prog, phase, pc, open, m_block, label, nested>>

(* Mutant: the loop counter is not the body's own.                         *)
EnterFuncKeepIter ==
  /\ phase = "params" /\ iter = Len(Cur.params)
  /\ m_block' = Append(m_block, <<>>)
  /\ pc' = pc + 1
  /\ phase' = "gen"
  /\ UNCHANGED <<prog, open, iter, m_vars, m_func, label, out, nested, bound>>

(* The parameters are saved: the row of the body is pushed.                *)
EnterFunc ==
  /\ phase = "params" /\ iter = Len(Cur.params)
  /\ m_block' = Append(m_block, <<>>)
  /\ iter' = 0
  /\ pc' = pc + 1
  /\ phase' = "gen"
  /\ UNCHANGED <<prog, open, m_vars, m_func, label, out, nested, bound>>
-----------------------------------------------------------------------------
(* The end of a body.                                                      *)

Top == Last(open)

(* delete_local_var starts; a function has emitted leave, ret and its      *)
(* placeholder label by then.                                              *)
StartDelete ==
  /\ At({"END"}) /\ open # <<>>
  /\ m_block # <<>>
  /\ out' = IF Top.stmt.kind = "FUNC" THEN Append(out, Label("placeholder", Top.id)) ELSE out
  /\ phase' = "delete"
  /\ UNCHANGED <<prog, pc, open, iter, tables, label, nested, bound>>

(* One name of the last row: its first entry in m_vars is shifted out.     *)
DeleteVar ==
  /\ phase = "delete" /\ iter < Len(Last(m_block))
  /\ LET key == Last(m_block)[iter + 1]
     IN  /\ key \in VarNames(m_vars)
         /\ m_vars' = ShiftOut(m_vars, EntryOf(m_vars, key))
  /\ iter' = iter + 1
  /\ UNCHANGED <<prog, phase, pc, open, m_block, m_func, label, out, nested, bound>>

(* Mutant: only delete_local_var pops.                                     *)
RemoveLastBlockOnce(rows) == rows

(* remove_last_block: nothing to do on an empty stack of rows.             *)
RemoveLastBlock(rows) == IF rows = <<>> THEN rows ELSE Front(rows)

(* The frame returns to the loop over the enclosing body.                  *)
Closing(kinds) ==
  phase = "delete" /\ iter = Len(Last(m_block)) /\ Top.stmt.kind \in kinds

LeaveBody ==
  /\ PopFrame
  /\ iter' = 0
  /\ pc' = pc + 1
  /\ phase' = "gen"
  /\ UNCHANGED <<prog, m_vars, m_func, label, nested>>

OuterBound == {b \in bound : b.depth < Len(open)}

(* delete_local_var has popped the row of this body; remove_last_block     *)
(* then pops the row below it.                                             *)
CloseIfElse ==
  /\ Closing({"IF", "ELSE"})
  /\ out' = Append(out, Label(IF Top.stmt.kind = "IF" THEN "if_end" ELSE "else_end", Top.id))
  /\ m_block' = RemoveLastBlock(Front(m_block))
  /\ bound' = OuterBound
  /\ LeaveBody

CloseWhile ==
  /\ Closing({"WHILE"})
  /\ out' = out \o <<Jump("While_start", Top.id), Label("While_end", Top.id)>>
  /\ m_block' = RemoveLastBlock(Front(m_block))
  /\ bound' = OuterBound
  /\ LeaveBody

CloseFunc ==
  /\ Closing({"FUNC"})
  /\ m_block' = RemoveLastBlock(Front(m_block))
  /\ bound' = OuterBound
  /\ UNCHANGED out
  /\ LeaveBody

(* cond3 runs once the locals of the body are gone.                        *)
CloseFor ==
  /\ Closing({"FOR"})
  /\ LET step == Top.stmt.step
     IN  /\ ~LeafFails(m_vars, step)
         /\ out' = out \o LeafCode(m_vars, step)
                       \o <<Jump("For_start", Top.id), Label("For_end", Top.id)>>
         /\ m_block' = DeclareLocal(RemoveLastBlock(Front(m_block)), step)
         /\ bound' = BindDecl(OuterBound, m_vars, step, Len(open) - 1)
  /\ LeaveBody
-----------------------------------------------------------------------------
(* How generation ends.                                                    *)

Halt(how) ==
  /\ phase' = how
  /\ UNCHANGED <<prog, pc, open, iter, tables, label, out, nested, bound>>

Finish == phase = "gen" /\ ~More /\ open = <<>> /\ Halt("done")

(* The statements on which gen_stmt calls exit(1).  What becomes of an     *)
(* uninitialised expression depends on the garbage its kind field holds.   *)
Rejected ==
  \/ At(LeafKinds) /\ (LeafFails(m_vars, Cur) \/ Cur.expr.kind = "UNINIT")
  \/ At({"IF", "WHILE"}) /\ ExprFails(m_vars, Cur.expr)
  \/ At({"FOR"}) /\ (LeafFails(m_vars, Cur.init) \/ ExprFails(m_vars, Cur.expr))
  \/ At({"END"}) /\ m_block = <<>>
  \/ /\ phase = "delete" /\ iter < Len(Last(m_block))
     /\ Last(m_block)[iter + 1] \notin VarNames(m_vars)
  \/ Closing({"FOR"}) /\ LeafFails(m_vars, Top.stmt.step)

Exit == Rejected /\ Halt("exited")

(* slot_to_offset is called for every name that is looked up, also where   *)
(* no load is emitted.  A read past the end of m_prog->stmt may fault or   *)
(* return a size that means nothing (Frame).                               *)
Overruns(names) ==
  \E k \in DOMAIN names :
    /\ \A j \in 1..k : names[j] \in VarNames(m_vars)
    /\ OutOfRange(prog, SlotOf(m_vars, names[k]))

(* The names a leaf looks up, in order, up to the exit of a check.         *)
LeafLookups(s) ==
  IF CharToInt(s) \/ (s.expr.kind = "FUNC" /\ ~CallOK(s.expr.args)) THEN <<>>
  ELSE IF s.kind \in DeclKinds \cup {"VCHANGE"} THEN Append(s.expr.uses, s.name)
  ELSE s.expr.uses

Unsafe ==
  \/ At(LeafKinds) /\ (Overruns(LeafLookups(Cur)) \/ Cur.expr.kind = "UNINIT")
  \/ At({"IF", "WHILE"}) /\ Overruns(Cur.expr.uses)
  \/ At({"FOR"}) /\ \/ Overruns(LeafLookups(Cur.init))
                    \/ ~LeafFails(m_vars, Cur.init) /\ Overruns(Cur.expr.uses)
  \/ Closing({"FOR"}) /\ Overruns(LeafLookups(Top.stmt.step))
  \/ /\ phase = "params" /\ iter < Len(Cur.params)
     /\ LET p  == Cur.params[iter + 1]
        IN  OutOfRange(prog, SlotOf(EnsureVarSlot(m_vars, p.name, p.type), p.name))

Crash == Unsafe /\ Halt("crashed")

Ended == phase \in {"done", "exited", "crashed"}

(* Generation is over: main goes on, or the process has ended.             *)
Terminated == Ended /\ UNCHANGED vars

Gen  == GenDecl \/ GenLeaf \/ OpenIf \/ OpenElse \/ OpenWhile \/ OpenFor \/ OpenFunc
        \/ GenParam \/ EnterFunc
Del  == StartDelete \/ DeleteVar \/ CloseIfElse \/ CloseWhile \/ CloseFunc \/ CloseFor
Step == CollectVars \/ AssignSlots \/ NextPass \/ Gen \/ Del \/ Finish \/ Exit \/ Crash
Next == Step \/ Terminated

(* One thread runs the passes and never waits between two steps.           *)
Spec == Init /\ [][Next]_vars /\ WF_vars(Step)
=============================================================================
