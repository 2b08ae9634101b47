---------------------------- MODULE MCExprParser ----------------------------
(***************************************************************************)
(* Instances of ExprParser for TLC: every short token sequence, and long   *)
(* chains of operands and operators of every level of precedence.          *)
(***************************************************************************)
EXTENDS ExprParser

CONSTANTS MaxTokens,    \* bound: tokens of an arbitrary input
          MaxOperators  \* bound: operators of a chain

Any == {"int_lit", "multi", "plus", "less", "open_paren", "close_paren", "semi", "eq_kw"}

Arbitrary == UNION {[1..n -> Any] : n \in 0..MaxTokens}

(* int_lit (op int_lit)^n ;, alone and behind an open parenthesis.         *)
Levels == {"divide", "minus", "plus", "more_eq", "not_eq", "and", "or"}
ChainOf(ops) ==
  [i \in 1..(2 * Len(ops) + 2) |->
     IF i = 2 * Len(ops) + 2 THEN "semi"
     ELSE IF i % 2 = 1 THEN "int_lit" ELSE ops[i \div 2]]

Chains == {ChainOf(ops) : ops \in UNION {[1..n -> Levels] : n \in 0..MaxOperators}}

MCInputs == Arbitrary \cup Chains \cup {<<"open_paren">> \o c : c \in Chains}
=============================================================================
