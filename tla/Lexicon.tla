------------------------------ MODULE Lexicon -------------------------------
(***************************************************************************)
(* Characters, tokens and the fixed spellings of tokenizer.h/tokenizer.c.  *)
(* A character is a one-letter string, a spelling a sequence of them.      *)
(***************************************************************************)
EXTENDS Integers, Sequences, TLC

CONSTANTS Letters,      \* isalpha
          Digits,       \* isdigit
          Others,       \* blanks and every character without a meaning
          Invalid,      \* INVALID_CHAR, 0xFF: also what peek returns at the end
          Keyword,      \* spelling -> token type, for the reserved words
          BufSize       \* BUF_SIZE, the size of m_buf

Alnum == Letters \cup Digits

SymbolChars == {"(", ")", ";", ",", "+", "*", "/", "-", "{", "}", "=", "<", ">", "!"}

(* The spellings of the switch over the remaining characters: `!` is none  *)
(* of its own, and four of them take a `=` behind them.                    *)
Spellings == {<<c>> : c \in SymbolChars \ {"!"}} \cup {<<c, "=">> : c \in {"=", "<", ">", "!"}}
Symbol ==
  [s \in Spellings |->
     CASE s = <<"(">> -> "open_paren"  [] s = <<")">> -> "close_paren"  [] s = <<";">> -> "semi"
       [] s = <<",">> -> "comma"       [] s = <<"+">> -> "plus"         [] s = <<"*">> -> "multi"
       [] s = <<"/">> -> "divide"      [] s = <<"-">> -> "minus"
       [] s = <<"{">> -> "open_braces" [] s = <<"}">> -> "close_braces"
       [] s = <<"=">> -> "eq_kw"       [] s = <<"=", "=">> -> "cmp"
       [] s = <<"<">> -> "less"        [] s = <<"<", "=">> -> "less_eq"
       [] s = <<">">> -> "more"        [] s = <<">", "=">> -> "more_eq"
       [] s = <<"!", "=">> -> "not_eq"]

Quote == "'"
Char  == Letters \cup Digits \cup Others \cup SymbolChars \cup {Quote, Invalid}

ASSUME ClassesAssumption ==
  /\ Letters \cap Digits = {}
  /\ (Letters \cup Digits) \cap (Others \cup SymbolChars \cup {Quote, Invalid}) = {}
  /\ Others \cap (SymbolChars \cup {Quote, Invalid}) = {}
  /\ Invalid \notin SymbolChars \cup {Quote}

ASSUME BufSizeAssumption == BufSize \in Nat \ {0, 1}

(* A reserved word is a word that fits in the buffer, and has a token type *)
(* of its own.                                                             *)
ASSUME KeywordAssumption ==
  \A w \in DOMAIN Keyword :
    /\ w \in Seq(Alnum) /\ Len(w) < BufSize
    /\ \A v \in DOMAIN Keyword : Keyword[v] = Keyword[w] => v = w
    /\ \A s \in DOMAIN Symbol : Symbol[s] # Keyword[w]

(* value is <<>> where the code stores NULL.                               *)
TokenTypes == {Symbol[s] : s \in DOMAIN Symbol} \cup {Keyword[w] : w \in DOMAIN Keyword}
              \cup {"ident", "int_lit", "char_v"}
Token == [type : TokenTypes, value : Seq(Char)]

Tok(type)          == [type |-> type, value |-> <<>>]
ValueTok(type, v)  == [type |-> type, value |-> v]

(* The token of a word: strcmp against every reserved word, else ident.    *)
WordTok(w) == IF w \in DOMAIN Keyword THEN Tok(Keyword[w]) ELSE ValueTok("ident", w)
=============================================================================
