------------------------------- MODULE Source -------------------------------
(***************************************************************************)
(* What the statements of a program mean, for the programs whose meaning   *)
(* the generated code keeps (Promised): variables of four widths, the      *)
(* arithmetic of signed numbers, branches, loops and the exit status.      *)
(*                                                                         *)
(* No document of the repository defines the language; the meaning is the  *)
(* one of C, where the code does not trap.                                 *)
(***************************************************************************)
EXTENDS Trees

VARIABLES
  prog,     \* the program
  line,     \* the line that runs next
  env,      \* values of the variables looked at, as bytes: 0..Values(w) - 1
  promised, \* whether the program is one the promise is about
  outcome   \* <<"running">>, <<"trap">> or <<"exit", status>>

vars == <<prog, line, env, promised, outcome>>

(* The value of e in w bytes, and whether computing it traps; then its     *)
(* value says nothing.  Of && and || the right operand counts only if the  *)
(* left leaves it open.                                                    *)
LeafResult(v, n, w) ==
  [value |-> Signed(w, IF n.kind = "IDENT" THEN v[n.name] ELSE n.value), traps |-> FALSE]

JoinResult(l, r, op, w) ==
  LET skipped == (op = "and" /\ l.value = 0) \/ (op = "or" /\ l.value # 0)
      traps   == \/ l.traps
                 \/ ~skipped /\ r.traps
                 \/ op = "divide" /\ (r.value = 0 \/ (r.value = -1 /\ 2 * l.value = -Values(w)))
  IN  [value |-> IF traps THEN 0 ELSE Signed(w, Meaning(op, l.value, r.value)), traps |-> traps]

Result(v, e, w) ==
  Evaluate(NodesOf(e), LAMBDA n : LeafResult(v, n, w), LAMBDA l, r, op : JoinResult(l, r, op, w))
Value(v, e, w) == Result(v, e, w).value
Traps(v, e, w) == Result(v, e, w).traps
-----------------------------------------------------------------------------
Init ==
  /\ line = <<1, 1>>
  /\ env = [x \in DOMAIN env |-> 0]
  /\ promised = Promised(prog, DOMAIN env)
  /\ outcome = <<"running">>

(* The leaf that a line stands for.                                        *)
HasLeaf(ln) == ln[1] <= Len(prog) /\ prog[ln[1]].kind \in LeafKinds \cup {"FOR", "END"} /\ ln[2] = 1
LeafAt(ln) ==
  LET s == prog[ln[1]]
  IN  CASE s.kind = "FOR" -> s.init [] s.kind = "END" -> prog[Opener(prog, ln[1])].step [] OTHER -> s
Behind(ln) ==
  LET s == prog[ln[1]]
  IN  CASE s.kind = "FOR" -> <<ln[1], 2>>
        [] s.kind = "END" -> <<Opener(prog, ln[1]), 2>>
        [] OTHER          -> Following(prog, ln[1] + 1)

Set(s, next) ==
  LET w == WidthOf(prog, s.name)
  IN  IF Traps(env, s.expr, w) THEN outcome' = <<"trap">> /\ UNCHANGED <<line, env>>
      ELSE /\ env' = [x \in DOMAIN env |-> IF x = s.name THEN Wrap(w, Value(env, s.expr, w)) ELSE env[x]]
           /\ line' = next
           /\ UNCHANGED outcome

Assign ==
  /\ HasLeaf(line) /\ LeafAt(line).kind \in DeclKinds \cup {"VCHANGE"}
  /\ Set(LeafAt(line), Behind(line))

(* The status is one byte.                                                 *)
Quit ==
  /\ HasLeaf(line) /\ LeafAt(line).kind = "EXIT"
  /\ outcome' = IF Traps(env, LeafAt(line).expr, 8) THEN <<"trap">>
                ELSE <<"exit", Wrap(1, Value(env, LeafAt(line).expr, 8))>>
  /\ UNCHANGED <<line, env>>

(* Outside of a function a RETURN computes its value and goes on.          *)
Return ==
  /\ HasLeaf(line) /\ LeafAt(line).kind = "RETURN"
  /\ IF Traps(env, LeafAt(line).expr, 8) THEN outcome' = <<"trap">> /\ UNCHANGED line
     ELSE line' = Behind(line) /\ UNCHANGED outcome
  /\ UNCHANGED env

Branch ==
  /\ line[1] <= Len(prog)
  /\ LET s == prog[line[1]]
     IN  /\ s.kind \in {"IF", "WHILE"} \/ (s.kind = "FOR" /\ line[2] = 2)
         /\ IF Traps(env, s.expr, 8) THEN outcome' = <<"trap">> /\ UNCHANGED line
            ELSE /\ line' = IF Value(env, s.expr, 8) # 0 THEN Following(prog, line[1] + 1)
                            ELSE <<EndOf(prog, line[1]) + 1, 1>>
                 /\ UNCHANGED outcome
  /\ UNCHANGED env

End ==
  /\ line[1] = Len(prog) + 1
  /\ outcome' = <<"exit", 0>>
  /\ UNCHANGED <<line, env>>

(* Nothing is promised of another program, and a program never changes.    *)
Next ==
  /\ prog' = prog /\ promised' = promised
  /\ promised => outcome = <<"running">> /\ (Assign \/ Quit \/ Return \/ Branch \/ End)

Spec == Init /\ [][Next]_vars
=============================================================================
