------------------------------ MODULE Symbols -------------------------------
(***************************************************************************)
(* The symbol table m_vars of the code generator: a sequence of entries    *)
(* [name, type] whose index is the slot (generation/helper/helper.c).      *)
(***************************************************************************)
EXTENDS Frame

VarNames(vs) == {vs[i].name : i \in DOMAIN vs}

(* Mutant: insertion without the search.                                   *)
EnsureVarSlotTwice(vs, x, t) == Append(vs, [name |-> x, type |-> t])

(* ensure_var_slot: a name already present keeps its slot and its type.    *)
EnsureVarSlot(vs, x, t) ==
  IF x \in VarNames(vs) THEN vs ELSE Append(vs, [name |-> x, type |-> t])

(* Mutant: an assignment makes an entry as well.                           *)
EnsureDeclOrSet(vs, s) ==
  IF s.kind \in DeclKinds THEN EnsureVarSlot(vs, s.name, TypeOfDecl[s.kind])
  ELSE IF s.kind = "VCHANGE" THEN EnsureVarSlot(vs, s.name, "int") ELSE vs

(* The ensure_var_slot call the passes make for a declaration.             *)
EnsureDecl(vs, s) ==
  IF s.kind \in DeclKinds THEN EnsureVarSlot(vs, s.name, TypeOfDecl[s.kind]) ELSE vs

(* The first entry called x, as the linear searches find it (1-based).     *)
EntryOf(vs, x) ==
  CHOOSE i \in DOMAIN vs : vs[i].name = x /\ \A j \in 1..(i - 1) : vs[j].name # x

(* lookup_var_slot and get_type_by_name, for a name that is present.       *)
SlotOf(vs, x)  == EntryOf(vs, x) - 1
VarType(vs, x) == vs[EntryOf(vs, x)].type

(* Mutant: the shift starts one entry too early.                           *)
ShiftOutEarly(vs, j) == RemoveAt(vs, j - 1)

(* The loop over k and the kv_pop: entry j leaves, those behind it move up.*)
ShiftOut(vs, j) == RemoveAt(vs, j)

(* check_types: the type of a parameter against that of an argument token. *)
CheckTypes(expected, actual) ==
  \/ expected = actual
  \/ actual = "int_lit" /\ expected \in {"int", "short", "long", "char"}
  \/ expected = "int" /\ actual \in {"short", "char"}
  \/ expected = "long" /\ actual = "int"
=============================================================================
