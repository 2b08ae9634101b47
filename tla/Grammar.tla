------------------------------ MODULE Grammar -------------------------------
(***************************************************************************)
(* The programs that parse_prog is meant to accept, as a grammar over the  *)
(* positions of the tokens: there is no stack in it and no order of        *)
(* choices, only "the tokens from i to e are a statement".                 *)
(***************************************************************************)
EXTENDS Syntax

(* <<"stmt", i, e>>: the tokens [i, e) are a statement; <<"body", i, e>>:  *)
(* they are a list of statements.                                          *)
Places(ts)  == 1..(Len(ts) + 1)
Phrases(ts) == {p \in {"stmt", "body"} \X Places(ts) \X Places(ts) : p[2] <= p[3]}

(* The rules, d being what the shorter phrases are.                        *)
Clause(d, ts, i, e) == d[<<"stmt", i, e>>] \/ (i = e /\ KindAt(ts, i) = "NONE")

(* The head of a FOR with its `{`; cond1 and cond3 may be missing.         *)
ForHead(d, ts, i, h) ==
  /\ KindAt(ts, i) = "FOR" /\ At(ts, i + 1) = "open_paren"
  /\ \E a \in (i + 2)..h : \E b \in a..(h - 2) :
       /\ Clause(d, ts, i + 2, a)
       /\ OptionalValue(ts, a, b) /\ At(ts, b) = "semi"
       /\ Clause(d, ts, b + 1, h - 1) /\ At(ts, h - 1) = "open_braces"

StmtRule(d, ts, i, e) ==
  \/ \E kind \in LeafKinds : LeafStmt(ts, kind, i, e)
  \/ /\ e > i /\ At(ts, e - 1) = "close_braces"
     /\ \E h \in (i + 1)..(e - 1) :
          /\ ForHead(d, ts, i, h) \/ \E kind \in BodyKinds : BodyHead(ts, kind, i, h)
          /\ d[<<"body", h, e - 1>>]

BodyRule(d, ts, i, e) ==
  i = e \/ \E k \in (i + 1)..e : d[<<"stmt", i, k>>] /\ d[<<"body", k, e>>]

Rule(d, ts, p) ==
  IF p[1] = "stmt" THEN StmtRule(d, ts, p[2], p[3]) ELSE BodyRule(d, ts, p[2], p[3])

Derives(ts) ==
  LET derives[p \in Phrases(ts)] == Rule(derives, ts, p)
  IN  derives

Stmt(ts, i, e) == Derives(ts)[<<"stmt", i, e>>]
Body(ts, i, e) == Derives(ts)[<<"body", i, e>>]
=============================================================================
