------------------------------- MODULE Syntax -------------------------------
(***************************************************************************)
(* What the parser accepts in one go: expressions, lists and the heads of  *)
(* statements (parser/parser.c, parser/binstmt/binstmt.c), each as the     *)
(* positions between which it lies.  A token is its type; `i` is the place *)
(* of its first token in ts and `e` the place behind its last one.         *)
(***************************************************************************)
EXTENDS Integers, Sequences

Precedence == [multi |-> 80, divide |-> 80, plus |-> 70, minus |-> 70,
               less |-> 50, less_eq |-> 50, more |-> 50, more_eq |-> 50,
               cmp |-> 45, not_eq |-> 45, and |-> 25, or |-> 20]

Operators  == DOMAIN Precedence
Arithmetic == {"plus", "minus", "multi", "divide"}
Comparison == Operators \ Arithmetic
Prec(t)    == IF t \in Operators THEN Precedence[t] ELSE -1

Operands   == {"int_lit", "ident"}
Values     == Operands \cup {"char_v"}
DeclTypes  == {"char_t", "int", "short", "long", "void"}

TokenTypes == Operators \cup Values \cup DeclTypes \cup
  {"exit_kw", "return", "if", "else", "while", "for", "eq_kw", "comma", "semi",
   "open_paren", "close_paren", "open_braces", "close_braces"}

(* parser_peek: token_empty behind the end.                                *)
At(ts, i) == IF i \in DOMAIN ts THEN ts[i] ELSE "token_empty"
-----------------------------------------------------------------------------
(* parse_expr_to_terminator, to the first `)` or `;`.                      *)
TerminatorsSemi(ts, i) == {t \in i..Len(ts) : ts[t] = "semi"}     \* mutant: only `;`

Terminators(ts, i) == {t \in i..Len(ts) : ts[t] \in {"close_paren", "semi"}}
Terminator(ts, i)  == CHOOSE t \in Terminators(ts, i) : \A u \in Terminators(ts, i) : t <= u

(* Operand, operator, ..., operand, and then no operator before t.         *)
Chain(ts, i, e, t) ==
  /\ (e - i) % 2 = 1 /\ e <= t
  /\ \A k \in i..(e - 1) : ts[k] \in IF (k - i) % 2 = 0 THEN Operands ELSE Operators
  /\ e < t => ts[e] \notin Operators

(* A tree is found; it may leave tokens between itself and the terminator. *)
BinExpr(ts, i, e) ==
  /\ Terminators(ts, i) # {} /\ e = Terminator(ts, i) /\ i < e
  /\ \E h \in (i + 1)..e : Chain(ts, i, h, e)
-----------------------------------------------------------------------------
(* A list of arguments, any token but `)` with a comma behind each but     *)
(* perhaps the last, that the `)` at c closes.                             *)
Separated(ts, i, c) ==
  \A k \in i..(c - 1) :
    IF (k - i) % 2 = 0 THEN ts[k] # "close_paren" ELSE ts[k] = "comma"
Arguments(ts, i, c) == At(ts, c) = "close_paren" /\ c >= i /\ Separated(ts, i, c)

(* Pairs of any two tokens, the first of none being the `)` at c.          *)
Params(ts, i, c) ==
  /\ At(ts, c) = "close_paren" /\ c >= i /\ (c - i) % 2 = 0
  /\ \A k \in i..(c - 1) : (k - i) % 2 = 0 => ts[k] # "close_paren"

(* The loops consume without asking whether a token is left.               *)
ArgumentsOverrun(ts, i) ==
  (Len(ts) + 1 - i) % 2 = 0 /\ i <= Len(ts) + 1 /\ Separated(ts, i, Len(ts) + 1)
ParamsOverrun(ts, i) == \A c \in i..Len(ts) : ~Params(ts, i, c)
-----------------------------------------------------------------------------
(* parse_expr at i: a call, a binary expression or one token.              *)
IsCall(ts, i) == At(ts, i) \in Values /\ At(ts, i + 1) = "open_paren"
IsBin(ts, i) ==
  /\ At(ts, i) \in Values
  /\ \/ At(ts, i + 1) \in Arithmetic /\ At(ts, i + 2) \in Operands
     \/ At(ts, i + 1) \in Comparison
IsSingle(ts, i) == At(ts, i) \in Values /\ ~IsCall(ts, i) /\ ~IsBin(ts, i)

Value(ts, i, e) ==
  \/ IsCall(ts, i) /\ Arguments(ts, i + 2, e - 1)
  \/ IsBin(ts, i) /\ BinExpr(ts, i, e)
  \/ IsSingle(ts, i) /\ e = i + 1

(* It returns no value, and leaves m_index where it was.                   *)
NoValue(ts, i) ==
  \/ At(ts, i) \notin Values
  \/ IsBin(ts, i) /\ Terminators(ts, i) = {}

ValueOverrun(ts, i) == IsCall(ts, i) /\ ArgumentsOverrun(ts, i + 2)

(* With or without a value, where no one asks.                             *)
OptionalValue(ts, i, e) == Value(ts, i, e) \/ (NoValue(ts, i) /\ e = i)
-----------------------------------------------------------------------------
(* The statement that starts at i, by its first three tokens.              *)
KindAt(ts, i) ==
  LET t0 == At(ts, i)  t1 == At(ts, i + 1)  t2 == At(ts, i + 2)
  IN  CASE t0 = "return"  -> "RETURN"
        [] t0 = "exit_kw" -> "EXIT"
        [] t0 = "ident" /\ t1 = "open_paren" -> "FUNC_USE"
        [] t0 = "ident" /\ t1 = "eq_kw"      -> "VCHANGE"
        [] t0 \in DeclTypes /\ t1 = "ident" /\ t2 = "open_paren" -> "FUNC"
        [] t0 \in DeclTypes /\ t1 = "ident" /\ t2 = "eq_kw"      -> "DECL"
        [] t0 = "if"    -> "IF"
        [] t0 = "else"  -> "ELSE"
        [] t0 = "while" -> "WHILE"
        [] t0 = "for"   -> "FOR"
        [] OTHER        -> "NONE"

LeafKinds == {"RETURN", "EXIT", "FUNC_USE", "VCHANGE", "DECL"}
BodyKinds == {"FUNC", "IF", "ELSE", "WHILE"}
StmtKinds == LeafKinds \cup BodyKinds \cup {"FOR"}

(* A whole statement without a body.                                       *)
LeafStmt(ts, kind, i, e) ==
  /\ kind = KindAt(ts, i)
  /\ CASE kind = "RETURN"  -> OptionalValue(ts, i + 1, e - 1) /\ At(ts, e - 1) = "semi"
       [] kind = "EXIT"    -> /\ At(ts, i + 1) = "open_paren" /\ Value(ts, i + 2, e - 2)
                              /\ At(ts, e - 2) = "close_paren" /\ At(ts, e - 1) = "semi"
       [] kind = "VCHANGE" -> Value(ts, i + 2, e - 1) /\ At(ts, e - 1) \in {"semi", "close_paren"}
       [] kind = "DECL"    -> Value(ts, i + 3, e - 1) /\ At(ts, e - 1) = "semi"
       [] kind = "FUNC_USE" ->
            \/ Arguments(ts, i + 2, e - 1) /\ At(ts, e) \in {"close_paren", "token_empty"}
            \/ Arguments(ts, i + 2, e - 2) /\ At(ts, e - 1) = "semi"
       [] OTHER -> FALSE

(* The head of a statement with a body, up to and with its `{`.            *)
BodyHead(ts, kind, i, e) ==
  /\ kind = KindAt(ts, i) /\ At(ts, e - 1) = "open_braces"
  /\ CASE kind = "FUNC" -> Params(ts, i + 3, e - 2)
       [] kind = "ELSE" -> e = i + 2
       [] kind \in {"IF", "WHILE"} -> /\ At(ts, i + 1) = "open_paren"
                                      /\ Value(ts, i + 2, e - 2) /\ At(ts, e - 2) = "close_paren"
       [] OTHER -> FALSE

(* Tokens are read behind the last one.                                    *)
HeadOverrun(ts, i) ==
  LET kind == KindAt(ts, i)
  IN  \/ kind = "FUNC_USE" /\ ArgumentsOverrun(ts, i + 2)
      \/ kind = "FUNC"     /\ ParamsOverrun(ts, i + 3)
      \/ kind = "RETURN"   /\ ValueOverrun(ts, i + 1)
      \/ kind = "VCHANGE"  /\ ValueOverrun(ts, i + 2)
      \/ kind = "DECL"     /\ ValueOverrun(ts, i + 3)
      \/ kind \in {"EXIT", "IF", "WHILE"} /\ At(ts, i + 1) = "open_paren"
           /\ ValueOverrun(ts, i + 2)
=============================================================================
