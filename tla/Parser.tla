------------------------------- MODULE Parser -------------------------------
(***************************************************************************)
(* parse_prog and parse_stmt (parser/parser.c).  The recursion of          *)
(* parse_stmt is the stack `open` of the statements whose bodies, or, for  *)
(* a FOR, whose cond1 or cond3, are being parsed.                          *)
(***************************************************************************)
EXTENDS Syntax, FiniteSets

CONSTANT Inputs         \* the token sequences to parse

ASSUME InputsAssumption == \A ts \in Inputs : ts \in Seq(TokenTypes)

VARIABLES
  m_tokens,   \* the tokens
  m_index,    \* the next one, counted from 1
  open,       \* running calls of parse_stmt that have called it, innermost last
  nodes,      \* statements parsed: kind and the tokens [from, to) they took
  status      \* what runs next, or how parse_prog ended

vars == <<m_tokens, m_index, open, nodes, status>>

(* "stmt": parse_stmt is called; "back": its caller goes on.               *)
Final    == {"done", "exited", "overrun"}
Statuses == {"stmt", "back"} \cup Final

(* What the caller of the running parse_stmt parses with it.               *)
Parts  == {"init", "step", "body"}
Caller == open[Len(open)]
Part   == IF open = <<>> THEN "body" ELSE Caller.part
Now    == At(m_tokens, m_index)

Node(kind, from, to) == [kind |-> kind, from |-> from, to |-> to]

Init ==
  /\ m_tokens \in Inputs
  /\ m_index = 1 /\ open = <<>> /\ nodes = {} /\ status = "back"
-----------------------------------------------------------------------------
(* The loops of parse_prog and of the bodies.                              *)
Again ==
  /\ status = "back" /\ Part = "body"
  /\ Now # "token_empty" /\ (open # <<>> => Now # "close_braces")
  /\ status' = "stmt"
  /\ UNCHANGED <<m_tokens, m_index, open, nodes>>

ParseLeaf ==
  /\ status = "stmt"
  /\ \E kind \in LeafKinds, e \in (m_index + 1)..(Len(m_tokens) + 1) :
       /\ LeafStmt(m_tokens, kind, m_index, e)
       /\ nodes' = nodes \cup {Node(kind, m_index, e)}
       /\ m_index' = e
  /\ status' = "back"
  /\ UNCHANGED <<m_tokens, open>>

(* A head is consumed, the body's loop begins.                             *)
OpenBody ==
  /\ status = "stmt"
  /\ \E kind \in BodyKinds, e \in (m_index + 1)..(Len(m_tokens) + 1) :
       /\ BodyHead(m_tokens, kind, m_index, e)
       /\ open' = Append(open, [kind |-> kind, from |-> m_index, part |-> "body"])
       /\ m_index' = e
  /\ status' = "back"
  /\ UNCHANGED <<m_tokens, nodes>>

(* for (: cond1 is a statement.                                            *)
OpenFor ==
  /\ status = "stmt"
  /\ KindAt(m_tokens, m_index) = "FOR" /\ At(m_tokens, m_index + 1) = "open_paren"
  /\ open' = Append(open, [kind |-> "FOR", from |-> m_index, part |-> "init"])
  /\ m_index' = m_index + 2
  /\ UNCHANGED <<m_tokens, nodes, status>>

GoOn(part) == open' = [open EXCEPT ![Len(open)].part = part]

(* cond2 with its `;`, whether there is one or not; then cond3.            *)
AfterInit ==
  /\ status = "back" /\ Part = "init"
  /\ \E e \in m_index..Len(m_tokens) :
       /\ OptionalValue(m_tokens, m_index, e) /\ m_tokens[e] = "semi"
       /\ m_index' = e + 1
  /\ GoOn("step")
  /\ status' = "stmt"
  /\ UNCHANGED <<m_tokens, nodes>>

(* Mutant: the token in front of the body is consumed whatever it is.      *)
AfterStepBlind ==
  /\ status = "back" /\ Part = "step"
  /\ m_index' = m_index + 1
  /\ GoOn("body")
  /\ UNCHANGED <<m_tokens, nodes, status>>

AfterStep ==
  /\ status = "back" /\ Part = "step"
  /\ Now = "open_braces"
  /\ m_index' = m_index + 1
  /\ GoOn("body")
  /\ UNCHANGED <<m_tokens, nodes, status>>

(* Mutant: the brace is left to the enclosing body.                        *)
CloseBodyKeep ==
  /\ status = "back" /\ open # <<>> /\ Part = "body" /\ Now = "close_braces"
  /\ nodes' = nodes \cup {Node(Caller.kind, Caller.from, m_index)}
  /\ open' = SubSeq(open, 1, Len(open) - 1)
  /\ UNCHANGED <<m_tokens, m_index, status>>

CloseBody ==
  /\ status = "back" /\ open # <<>> /\ Part = "body" /\ Now = "close_braces"
  /\ m_index' = m_index + 1
  /\ nodes' = nodes \cup {Node(Caller.kind, Caller.from, m_index + 1)}
  /\ open' = SubSeq(open, 1, Len(open) - 1)
  /\ UNCHANGED <<m_tokens, status>>

(* Mutants: a token that starts no statement is skipped; or is left to the *)
(* next turn of the loop.                                                  *)
NoStatementSkip ==
  /\ status = "stmt" /\ KindAt(m_tokens, m_index) = "NONE" /\ Now # "token_empty"
  /\ m_index' = m_index + 1
  /\ status' = "back"
  /\ UNCHANGED <<m_tokens, open, nodes>>

NoStatementRetry ==
  /\ status = "stmt" /\ KindAt(m_tokens, m_index) = "NONE"
  /\ nodes' = nodes \cup {Node("ZERO", m_index, m_index)}
  /\ status' = "back"
  /\ UNCHANGED <<m_tokens, m_index, open>>

(* parse_stmt returns no value: a FOR takes the zeroed statement.          *)
NoStatement ==
  /\ status = "stmt" /\ KindAt(m_tokens, m_index) = "NONE" /\ Part # "body"
  /\ nodes' = nodes \cup {Node("ZERO", m_index, m_index)}
  /\ status' = "back"
  /\ UNCHANGED <<m_tokens, m_index, open>>

Return ==
  /\ status = "back" /\ open = <<>> /\ Now = "token_empty"
  /\ status' = "done"
  /\ UNCHANGED <<m_tokens, m_index, open, nodes>>
-----------------------------------------------------------------------------
(* Tokens are read behind the last one: the behaviour is undefined.        *)
Overruns ==
  \/ status = "stmt" /\ HeadOverrun(m_tokens, m_index)
  \/ status = "back" /\ Part = "init" /\ ValueOverrun(m_tokens, m_index)

Overrun ==
  /\ Overruns
  /\ status' = "overrun"
  /\ UNCHANGED <<m_tokens, m_index, open, nodes>>

(* exit(1): the statement is not completed, or a body has another token.   *)
Parses ==
  \/ \E kind \in StmtKinds, e \in (m_index + 1)..(Len(m_tokens) + 1) :
       LeafStmt(m_tokens, kind, m_index, e) \/ BodyHead(m_tokens, kind, m_index, e)
  \/ KindAt(m_tokens, m_index) = "FOR" /\ At(m_tokens, m_index + 1) = "open_paren"
  \/ KindAt(m_tokens, m_index) = "NONE" /\ Part # "body"

GoesOn ==
  CASE Part = "init" -> \E e \in m_index..Len(m_tokens) :
                          OptionalValue(m_tokens, m_index, e) /\ m_tokens[e] = "semi"
    [] Part = "step" -> Now = "open_braces"
    [] OTHER         -> open = <<>> \/ Now # "token_empty"

Exit ==
  /\ \/ status = "stmt" /\ ~Parses
     \/ status = "back" /\ ~GoesOn
  /\ ~Overruns
  /\ status' = "exited"
  /\ UNCHANGED <<m_tokens, m_index, open, nodes>>

Ended == status \in Final /\ UNCHANGED vars

Step == \/ Again \/ ParseLeaf \/ OpenBody \/ OpenFor \/ AfterInit \/ AfterStep
        \/ CloseBody \/ NoStatement \/ Return \/ Overrun \/ Exit
Next == Step \/ Ended

(* One thread; nothing it does can wait.                                   *)
Spec == Init /\ [][Next]_vars /\ WF_vars(Step)
=============================================================================
