---------------------------- MODULE ParserProps -----------------------------
(***************************************************************************)
(* What parse_prog promises: the programs of the grammar, and the          *)
(* statements' places.                                                     *)
(***************************************************************************)
EXTENDS Parser, Grammar

Frm == [kind : BodyKinds \cup {"FOR"}, from : Nat, part : Parts]
Nd  == [kind : StmtKinds \cup {"ZERO"}, from : Nat, to : Nat]

(* The type invariant: m_index stays in the tokens, and every running call *)
(* started in front of the call it makes.                                  *)
TypeOK ==
  /\ m_tokens \in Seq(TokenTypes)
  /\ m_index \in 1..(Len(m_tokens) + 1)
  /\ open \in Seq(Frm)
  /\ nodes \subseteq Nd
  /\ status \in Statuses
  /\ \A k \in DOMAIN open : open[k].from < IF k < Len(open) THEN open[k + 1].from ELSE m_index

(* parse_prog returns a program exactly for the token sequences of the     *)
(* grammar: its one-pass choice of a handler, by three tokens and without  *)
(* going back, misses none.                                                *)
AcceptsGrammar ==
  status \in Final => (status = "done" <=> Body(m_tokens, 1, Len(m_tokens) + 1))

(* Every node is a statement of the grammar where it stands, also in a     *)
(* program that is refused in the end.                                     *)
NodesDerive ==
  status \in Final =>
    \A n \in nodes : n.kind # "ZERO" =>
      n.kind = KindAt(m_tokens, n.from) /\ Stmt(m_tokens, n.from, n.to)

(* The statements nest, and together they own every token of a program     *)
(* that is accepted.                                                       *)
SpansNest ==
  /\ \A m, n \in nodes : \/ m.to <= n.from \/ n.to <= m.from
                         \/ m.from <= n.from /\ n.to <= m.to
                         \/ n.from <= m.from /\ m.to <= n.to
  /\ status = "done" =>
       \A k \in DOMAIN m_tokens : \E n \in nodes : n.from <= k /\ k < n.to

(* parse_prog returns, exits or has read behind the tokens.                *)
Termination == <>(status \in Final)
-----------------------------------------------------------------------------
(* parser.c:681, "Expected ')'": a list that is not closed is diagnosed,   *)
(* before anything behind the last token is read.                          *)
MissingParenDiagnosed == status # "overrun"
=============================================================================
