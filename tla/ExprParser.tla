----------------------------- MODULE ExprParser -----------------------------
(***************************************************************************)
(* parse_expr_to_terminator (parser/binstmt/binstmt.c): the tokens up to   *)
(* the first `)` or `;` are copied into a slice and parsed by precedence   *)
(* climbing.  The two mutually recursive functions are a machine with an   *)
(* explicit call stack.                                                    *)
(*                                                                         *)
(* A token is its type.  A tree is its span in the slice and the set of    *)
(* its operator nodes, each with the span it covers: [lo, at, hi].         *)
(***************************************************************************)
EXTENDS Syntax, FiniteSets

CONSTANT Inputs         \* the tokens from the parent's m_index on

ASSUME InputsAssumption == \A ts \in Inputs : ts \in Seq(TokenTypes)

VARIABLES
  m_tokens,   \* the parent's tokens
  slice,      \* subp.m_tokens
  m_index,    \* subp.m_index, counted from 1
  calls,      \* running calls of parse_expr_prec_on_slice, innermost last
  left,       \* the tree the innermost call has, or has just returned
  phase       \* what runs next, or how the call ended

vars == <<m_tokens, slice, m_index, calls, left, phase>>

Phases == {"scan", "primary", "loop", "parsed", "failed", "exited"}

(* A call waits for its first operand (at = 0), for the right operand of   *)
(* the operator at `at`, or, at = -1, for the inside of a parenthesis.     *)
None     == [lo |-> 0, hi |-> 0, nodes |-> {}]
Call(m)  == [min |-> m, lhs |-> None, at |-> 0]
Running  == calls[Len(calls)]
Callers  == SubSeq(calls, 1, Len(calls) - 1)
Caller   == calls[Len(calls) - 1]

More == m_index <= Len(slice)

Operand(i) == [lo |-> i, hi |-> i, nodes |-> {}]

(* make_bin_from_nodes.                                                    *)
MakeBin(l, at, r) ==
  [lo |-> l.lo, hi |-> r.hi,
   nodes |-> l.nodes \cup r.nodes \cup {[lo |-> l.lo, at |-> at, hi |-> r.hi]}]

Init ==
  /\ m_tokens \in Inputs
  /\ slice = <<>> /\ m_index = 1 /\ calls = <<>> /\ left = None
  /\ phase = "scan"
-----------------------------------------------------------------------------
(* A terminator, and something in front of it.                             *)
Cuttable == Terminators(m_tokens, 1) # {} /\ Terminator(m_tokens, 1) > 1

(* The slice is cut before the first terminator, and the outer call made.  *)
Cut ==
  /\ phase = "scan" /\ Cuttable
  /\ slice' = SubSeq(m_tokens, 1, Terminator(m_tokens, 1) - 1)
  /\ calls' = <<Call(0)>>
  /\ phase' = "primary"
  /\ UNCHANGED <<m_tokens, m_index, left>>

(* No value.                                                               *)
Fail ==
  /\ phase = "scan" /\ ~Cuttable
  /\ phase' = "failed"
  /\ UNCHANGED <<m_tokens, slice, m_index, calls, left>>
-----------------------------------------------------------------------------
(* parse_primary_on_slice.                                                 *)
Leaf ==
  /\ phase = "primary" /\ More /\ slice[m_index] \in {"int_lit", "ident"}
  /\ left' = Operand(m_index)
  /\ m_index' = m_index + 1
  /\ phase' = "loop"
  /\ UNCHANGED <<m_tokens, slice, calls>>

(* Mutant: the parenthesis is not consumed before the inside is parsed.    *)
OpenParenKeep ==
  /\ phase = "primary" /\ More /\ slice[m_index] = "open_paren"
  /\ calls' = Append([calls EXCEPT ![Len(calls)].at = -1], Call(0))
  /\ UNCHANGED <<m_tokens, slice, m_index, left, phase>>

OpenParen ==
  /\ phase = "primary" /\ More /\ slice[m_index] = "open_paren"
  /\ calls' = Append([calls EXCEPT ![Len(calls)].at = -1], Call(0))
  /\ m_index' = m_index + 1
  /\ UNCHANGED <<m_tokens, slice, left, phase>>

(* Mutant: a binary operator is right associative.                         *)
NextMinRight(p) == p

(* op_assoc knows only left associativity.                                 *)
NextMin(p) == p + 1

(* The loop of parse_expr_prec_on_slice: an operator that binds at least   *)
(* as tightly as asked takes a right operand.                              *)
Climbs == More /\ Prec(slice[m_index]) >= Running.min

Climb ==
  /\ phase = "loop" /\ Climbs
  /\ calls' = Append(
       [calls EXCEPT ![Len(calls)] = [min |-> Running.min, lhs |-> left, at |-> m_index]],
       Call(NextMin(Prec(slice[m_index]))))
  /\ m_index' = m_index + 1
  /\ phase' = "primary"
  /\ UNCHANGED <<m_tokens, slice, left>>

CloseAhead == More /\ slice[m_index] = "close_paren"

(* Mutant: a closing token is consumed whatever it is.                     *)
ReturnInnerBlind ==
  /\ phase = "loop" /\ ~Climbs /\ Len(calls) > 1
  /\ left' = IF Caller.at > 0 THEN MakeBin(Caller.lhs, Caller.at, left) ELSE left
  /\ m_index' = IF Caller.at > 0 THEN m_index ELSE m_index + 1
  /\ calls' = Callers
  /\ UNCHANGED <<m_tokens, slice, phase>>

(* It returns to its caller: the operator that waits for its right operand *)
(* gets a node, the parenthesis its closing token.                         *)
ReturnInner ==
  /\ phase = "loop" /\ ~Climbs /\ Len(calls) > 1
  /\ Caller.at = -1 => CloseAhead
  /\ left' = IF Caller.at > 0 THEN MakeBin(Caller.lhs, Caller.at, left) ELSE left
  /\ m_index' = IF Caller.at > 0 THEN m_index ELSE m_index + 1
  /\ calls' = Callers
  /\ UNCHANGED <<m_tokens, slice, phase>>

(* Mutant: `continue` for `break` at a token that is no operator.          *)
ReturnSpin ==
  /\ phase = "loop" /\ ~Climbs /\ Len(calls) = 1
  /\ IF More THEN UNCHANGED <<calls, phase>> ELSE calls' = <<>> /\ phase' = "parsed"
  /\ UNCHANGED <<m_tokens, slice, m_index, left>>

(* It returns to parse_expr_to_terminator, which looks at no token behind. *)
Return ==
  /\ phase = "loop" /\ ~Climbs /\ Len(calls) = 1
  /\ calls' = <<>>
  /\ phase' = "parsed"
  /\ UNCHANGED <<m_tokens, slice, m_index, left>>

(* exit(1): no operand, or no closing parenthesis.                         *)
Exit ==
  /\ \/ phase = "primary"
        /\ ~(More /\ slice[m_index] \in {"int_lit", "ident", "open_paren"})
     \/ phase = "loop" /\ ~Climbs /\ Len(calls) > 1 /\ Caller.at = -1 /\ ~CloseAhead
  /\ phase' = "exited"
  /\ UNCHANGED <<m_tokens, slice, m_index, calls, left>>

Ended == phase \in {"parsed", "failed", "exited"} /\ UNCHANGED vars

Step == Cut \/ Fail \/ Leaf \/ OpenParen \/ Climb \/ ReturnInner
        \/ Return \/ Exit
Next == Step \/ Ended

Spec == Init /\ [][Next]_vars /\ WF_vars(Step)
-----------------------------------------------------------------------------
Node == [lo : Nat, at : Nat, hi : Nat]
Tree == [lo : Nat, hi : Nat, nodes : SUBSET Node]
Frm  == [min : 0..81, lhs : Tree, at : Nat \cup {-1}]

(* The type invariant: an innermost call exists whenever one is to run.    *)
TypeOK ==
  /\ m_tokens \in Seq(TokenTypes)
  /\ slice \in Seq(TokenTypes)
  /\ m_index \in 1..(Len(slice) + 1)
  /\ calls \in Seq(Frm)
  /\ left \in Tree
  /\ phase \in Phases
  /\ phase \in {"primary", "loop"} => calls # <<>>

(* The recursion of binary operators is as deep as there are levels of     *)
(* precedence, not as the expression is long: above a caller that waits    *)
(* for a right operand, every minimum is larger than the caller's.         *)
MinsClimb ==
  \A k \in 1..(Len(calls) - 1) :
    calls[k].at > 0 => calls[k + 1].min > calls[k].min

(* The recursion ends with the tokens: every call that runs inside another *)
(* one has consumed a token of its own, an operator or a parenthesis.      *)
DepthPaid == Len(calls) <= m_index

(* The span of the node that operator k must have: to the left as far as   *)
(* no operator binds more loosely, to the right as far as every operator   *)
(* binds more tightly.                                                     *)
SpanOf(k, lo, hi) ==
  [lo |-> CHOOSE l \in lo..k :
            /\ \A j \in l..(k - 1) : slice[j] \in Operators => Prec(slice[j]) >= Prec(slice[k])
            /\ l > lo => Prec(slice[l - 1]) \in 0..(Prec(slice[k]) - 1),
   at |-> k,
   hi |-> CHOOSE h \in k..hi :
            /\ \A j \in (k + 1)..h : slice[j] \in Operators => Prec(slice[j]) > Prec(slice[k])
            /\ h < hi => Prec(slice[h + 1]) \in 0..Prec(slice[k])]

(* What is returned is the tree of the precedences and of left             *)
(* associativity over all the tokens consumed.                             *)
PrecedenceTree ==
  phase = "parsed" =>
    /\ left.lo = 1 /\ left.hi = m_index - 1
    /\ left.nodes = {SpanOf(k, 1, left.hi) :
                       k \in {j \in 1..left.hi : slice[j] \in Operators}}

(* No expression with a parenthesis is ever returned: the slice ends       *)
(* before the first `)`, which the parenthesis then misses.                *)
NoParenthesis ==
  phase = "parsed" => \A k \in 1..(m_index - 1) : slice[k] # "open_paren"

(* What its callers know of it without running it: a tree is returned      *)
(* exactly for operands with operators between them in front of the        *)
(* terminator, or in front of a token that is no operator.                 *)
OutcomeByTokens ==
  phase \in {"parsed", "exited"} =>
    (phase = "parsed") = \E h \in 2..(Len(slice) + 1) : Chain(m_tokens, 1, h, Len(slice) + 1)

(* parse_expr_to_terminator returns or exits.                              *)
Termination == <>(phase \in {"parsed", "failed", "exited"})

(* binstmt.c:219, "parse a contiguous expression starting at p->m_index    *)
(* until the first ')' or ';'": the tree covers the whole slice.           *)
UntilTerminator == phase = "parsed" => left.hi = Len(slice)
=============================================================================
