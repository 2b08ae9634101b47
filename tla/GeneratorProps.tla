--------------------------- MODULE GeneratorProps ---------------------------
(***************************************************************************)
(* What the code generator promises: types, safety, termination, and what  *)
(* the comments of the source say of it.                                   *)
(***************************************************************************)
EXTENDS Generator

CONSTANT Spelling   \* pairs <<name, n>>: the names that are spelled "placeholder" and n

-----------------------------------------------------------------------------
(* Vocabulary: what a program declares and uses.                           *)

DeclName(l)   == IF l.kind \in DeclKinds THEN <<l.name>> ELSE <<>>
ParamNames(s) == [i \in DOMAIN s.params |-> s.params[i].name]
Declares(s)   == CASE s.kind = "FOR"  -> DeclName(s.init) \o DeclName(s.step)
                   [] s.kind = "FUNC" -> ParamNames(s)
                   [] OTHER           -> DeclName(s)

(* All names the program declares.                                         *)
DeclaredNames(p) == UNION {ToSet(Declares(p[i])) : i \in DOMAIN p}

(* No name is declared twice, and no cond3 is a declaration.               *)
DistinctNames(p) ==
  /\ \A i \in DOMAIN p : IsInjective(Declares(p[i]))
  /\ \A i, k \in DOMAIN p : i # k => ToSet(Declares(p[i])) \cap ToSet(Declares(p[k])) = {}
  /\ \A i \in DOMAIN p : p[i].kind = "FOR" => p[i].step.kind \notin DeclKinds

(* The names that gen_stmt looks up for a statement, the arguments of a    *)
(* call not being among them, and the calls it generates.                  *)
LeafUses(l) == IF l.kind = "FUNC_USE" THEN {}
               ELSE ToSet(l.expr.uses) \cup (IF l.kind = "VCHANGE" THEN {l.name} ELSE {})
Uses(s)     == CASE s.kind \in LeafKinds        -> LeafUses(s)
                 [] s.kind \in {"IF", "WHILE"} -> ToSet(s.expr.uses)
                 [] s.kind = "FOR" -> LeafUses(s.init) \cup ToSet(s.expr.uses) \cup LeafUses(s.step)
                 [] OTHER          -> {}

Exprs(s)    == CASE s.kind = "FOR" -> {s.init.expr, s.expr, s.step.expr}
                 [] s.kind \in LeafKinds \cup {"IF", "WHILE"} -> {s.expr}
                 [] OTHER -> {}
CallArgs(s) == {e.args : e \in {d \in Exprs(s) : d.kind = "FUNC"}}

(* A parameter is visible in the body of its function, what another        *)
(* statement declares is visible in the body that holds the statement.     *)
ScopeDepth(p, i, x) ==
  IF p[i].kind = "FUNC" /\ x \in ToSet(ParamNames(p[i])) THEN Depth(p, i) + 1 ELSE Depth(p, i)

(* The scope of what statement i declares is still open at statement k.    *)
VisibleAt(p, i, x, k) ==
  i < k /\ \A j \in (i + 1)..k : Depth(p, j) >= ScopeDepth(p, i, x)
-----------------------------------------------------------------------------
(* Types.                                                                  *)

Tags == {"_start", "placeholder", "if_end", "else_end",
         "While_start", "While_end", "For_start", "For_end"}

Instr ==
  [op : {"load", "store"}, name : Names, slot : Nat, width : {1, 2, 4, 8}]
  \cup [op : {"label", "jump"}, tag : Tags, id : Nat]
  \cup [op : {"func"}, name : Names]
  \cup [op : {"call"}, name : Names, argc : Nat]
  \cup [op : {"reserve"}, bytes : Nat]

Var   == [name : Names, type : Types]
Entry == [name : Names, arg_types : Seq(Types)]
Frm   == [stmt : Stmt, id : Nat]
Bound == [name : Names, slot : Nat, depth : Nat]

(* The type invariant, with the control facts that keep every loop index   *)
(* of gen_stmt and delete_local_var inside the vector it walks.            *)
TypeOK ==
  /\ prog \in Programs
  /\ phase \in Phases
  /\ pc \in 1..(Len(prog) + 1)
  /\ open \in Seq(Frm)
  /\ iter \in Nat
  /\ m_vars \in Seq(Var)
  /\ m_block \in Seq(Seq(Names))
  /\ m_func \in Seq(Entry)
  /\ label \in Nat
  /\ out \in Seq(Instr)
  /\ nested \in BOOLEAN
  /\ bound \in SUBSET Bound
  /\ phase \in {"collect", "assign", "gen", "done"} => iter = 0
  /\ phase = "done" => open = <<>>
  /\ phase = "params" => More /\ open # <<>> /\ iter <= Len(Cur.params)
  /\ phase = "delete" => /\ More /\ open # <<>> /\ m_block # <<>>
                        /\ iter <= Len(Last(m_block))
-----------------------------------------------------------------------------
(* Safety.                                                                 *)

(* A name has at most one entry in m_vars, although the two passes and the *)
(* parameter loop of gen_stmt all insert names: lookup_var_slot,           *)
(* get_type_by_name and delete_local_var find the same entry.              *)
Distinct(vs) == \A i, j \in DOMAIN vs : vs[i].name = vs[j].name => i = j
NoDupVars    == Distinct(m_vars)

(* While the bodies are not nested, m_block has one row per open body      *)
(* (that of a function comes after its parameters).  Once they have been,  *)
(* the rows never catch up: only the body just opened may have its row.    *)
Rows == Len(m_block) + (IF phase = "params" THEN 1 ELSE 0)

RowsFollowBodies ==
  /\ phase \in {"collect", "assign"} => m_block = <<>> /\ ~nested
  /\ phase \in {"gen", "params", "delete", "done"} =>
       IF nested THEN Rows < Len(open) \/ (Rows = Len(open) /\ Rows >= 2)
                 ELSE Rows = Len(open) /\ Rows <= 1

(* A program that opens a body inside another one is never compiled:       *)
(* closing the inner body pops two rows of m_block (delete_local_var, then *)
(* remove_last_block), so the outer body finds none and exits.             *)
NoNestedBlockCompiles == phase = "done" => ~nested

(* NASM scope of instruction i: its local labels hang on the last          *)
(* non-local label before it.                                              *)
NonLocal(j) == \/ out[j].op = "func"
               \/ out[j].op = "label" /\ out[j].tag \in {"_start", "placeholder"}
ScopeOf(i)  == {j \in 1..i : NonLocal(j)}

(* What jump i goes to: the labels of its tag and number and, as gen_stmt  *)
(* prints a function's name and a placeholder alike behind a `_`, the      *)
(* functions that are spelled like the placeholder.                        *)
Targets(i) ==
  {j \in DOMAIN out :
     \/ out[j].op = "label" /\ out[j].tag = out[i].tag /\ out[j].id = out[i].id
     \/ /\ out[j].op = "func" /\ out[i].tag = "placeholder"
        /\ <<out[j].name, out[i].id>> \in Spelling}

(* The program has a function that is spelled like placeholder n.          *)
Taken(n) == \E k \in DOMAIN prog : prog[k].kind = "FUNC" /\ <<prog[k].name, n>> \in Spelling

(* Every jump of a finished assembly text has exactly one target, unless   *)
(* it goes to a placeholder whose name the program gives to a function of  *)
(* its own: that function makes it two.  A jump that goes to another label *)
(* has its target in its own NASM scope, where it is a local label.        *)
JumpsResolve ==
  phase = "done" =>
    \A i \in DOMAIN out : out[i].op = "jump" =>
      IF out[i].tag = "placeholder"
      THEN ~Taken(out[i].id) => Cardinality(Targets(i)) = 1
      ELSE /\ Cardinality(Targets(i)) = 1
           /\ \A j \in Targets(i) : ScopeOf(j) = ScopeOf(i)

(* While its scope lasts, a variable keeps the slot its initialising store *)
(* used, although every body that closes shifts the entries of m_vars: in  *)
(* a program with distinct names and no nested body.                       *)
SlotStable ==
  phase \in {"gen", "params", "done"} /\ DistinctNames(prog) /\ ~nested =>
    \A v \in bound : /\ v.name \in VarNames(m_vars)
                     /\ SlotOf(m_vars, v.name) = v.slot

(* A program that is compiled uses no local of a body behind the end of    *)
(* that body: delete_local_var has removed the name from the flat table.   *)
LocalsGoneAfterBody ==
  phase = "done" /\ DistinctNames(prog) =>
    \A i, k \in DOMAIN prog :
      i < k /\ prog[i].kind \in DeclKinds /\ ~VisibleAt(prog, i, prog[i].name, k)
        => prog[i].name \notin Uses(prog[k])

(* A compiled program uses only names it declares: only a declaration, in  *)
(* the passes or as a parameter, makes an entry, and each use looks one up.*)
UsesDeclared ==
  phase = "done" =>
    \A k \in DOMAIN prog : Uses(prog[k]) \subseteq DeclaredNames(prog)

(* When the declarations of a program stand before its first body, the     *)
(* accesses to two different top-level variables, each no wider than the   *)
(* variable, never touch a common byte of the frame, whatever bodies       *)
(* follow and delete from the table.                                       *)
DeclsFirst(p) ==
  \A i, j \in DOMAIN p :
    i < j /\ p[j].kind \in DeclKinds /\ Depth(p, j) = 0 => p[i].kind \in DeclKinds

TopDecls(p) == {p[s] : s \in {t \in DOMAIN p : p[t].kind \in DeclKinds /\ Depth(p, t) = 0}}

OwnAccess(i) ==
  /\ out[i].op \in {"load", "store"}
  /\ \E d \in TopDecls(prog) : out[i].name = d.name /\ out[i].width <= SizeOf[TypeOfDecl[d.kind]]

LayoutDisjoint ==
  phase = "done" /\ DeclsFirst(prog) /\ DistinctNames(prog) =>
    \A i, j \in {k \in DOMAIN out : OwnAccess(k)} :
      out[i].name # out[j].name
        => /\ ~OutOfRange(prog, out[i].slot)
           /\ Cell(prog, out[i].slot, out[i].width)
                \cap Cell(prog, out[j].slot, out[j].width) = {}
-----------------------------------------------------------------------------
(* Every call of the generator returns or ends the process.                *)
Termination == <>(phase \in {"done", "exited", "crashed"})
-----------------------------------------------------------------------------
(* What comments and messages of the source say, which the code does not   *)
(* do, and what holds in their place.                                      *)

(* helper.c:284, "Undefined variable at codegen": an assignment is refused *)
(* for its target only where no declaration of the target is visible.      *)
UndefinedIsInvisible ==
  phase = "exited" /\ More /\ Cur.kind = "VCHANGE" /\ Cur.name \notin VarNames(m_vars)
    => ~\E i \in DOMAIN prog : Cur.name \in ToSet(Declares(prog[i]))
                              /\ VisibleAt(prog, i, Cur.name, pc)

(* generation.c:244, "function '%s' called with wrong number of            *)
(* arguments": a call that the first comparison refuses for its number has *)
(* a number of arguments that no function of its name has of parameters.   *)
Miscounted(args) == m_func # <<>> /\ Len(Head(m_func).arg_types) # Len(args)

MiscountIsWrong ==
  phase = "exited" /\ More /\ Cur.kind = "FUNC_USE" /\ Miscounted(Cur.expr.args)
    => ~\E i \in DOMAIN prog : /\ prog[i].kind = "FUNC" /\ prog[i].name = Cur.name
                              /\ Len(prog[i].params) = Len(Cur.expr.args)

(* What holds instead: behind a function with parameters every call of a   *)
(* compiled program, of whichever function, has one argument, an integer,  *)
(* because it is compared with every parameter seen so far.                *)
HasParams(s) == s.kind = "FUNC" /\ s.params # <<>>

CallsTakeOne ==
  phase = "done" =>
    \A i, k \in DOMAIN prog :
      i < k /\ HasParams(prog[i]) => CallArgs(prog[k]) \subseteq {<<"int_lit">>}

(* helper.c:56, "create hash entries for every let identifier", "including *)
(* nested lets": no pass enters the body of an ELSE or of a WHILE.  What   *)
(* holds instead: a compiled program declares a name in one only if it     *)
(* declares the name somewhere else too.                                   *)
Unentered(p, k) ==
  \E j \in 1..(k - 1) : /\ p[j].kind \in {"ELSE", "WHILE"}
                        /\ \A i \in (j + 1)..k : Depth(p, i) > Depth(p, j)

EnteredOrRefused ==
  phase = "done" =>
    \A k \in DOMAIN prog : prog[k].kind \in DeclKinds /\ Unentered(prog, k) =>
      \E i \in DOMAIN prog : ~Unentered(prog, i) /\ prog[k].name \in ToSet(Declares(prog[i]))
=============================================================================
