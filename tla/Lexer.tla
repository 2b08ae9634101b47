------------------------------- MODULE Lexer --------------------------------
(***************************************************************************)
(* What the tokenizer promises, one lexeme per step: the longest word,     *)
(* number or symbol at the current position becomes a token.  Characters   *)
(* without a meaning are skipped; a `!` that starts no symbol is rejected. *)
(***************************************************************************)
EXTENDS Lexicon

CONSTANT Sources        \* the texts to tokenize

VARIABLES text,         \* the source
          pos,          \* characters taken so far
          toks,         \* tokens found so far
          status        \* "lexing", "done" or "rejected"

lvars == <<text, pos, toks, status>>

(* The characters i to j of the text are the longest run over S at i.      *)
MaximalRun(S, i, j) ==
  /\ i <= j /\ j <= Len(text)
  /\ \A k \in i..j : text[k] \in S
  /\ j < Len(text) => text[j + 1] \notin S

Here(n) == SubSeq(text, pos + 1, pos + n)

(* The symbol of n characters at pos + 1, if no longer one starts there.   *)
LongestSymbol(n) ==
  /\ pos + n <= Len(text) /\ Here(n) \in DOMAIN Symbol
  /\ \A k \in {1, 2} : k > n /\ pos + k <= Len(text) => Here(k) \notin DOMAIN Symbol

AtEnd == pos = Len(text) \/ text[pos + 1] = Invalid

(* A lexeme longer than the buffer is cut to what the buffer holds.        *)
Kept(j) == SubSeq(text, pos + 1, IF j - pos < BufSize THEN j ELSE pos + BufSize - 1)

LInit == text \in Sources /\ pos = 0 /\ toks = <<>> /\ status = "lexing"

Take(token, j) == toks' = Append(toks, token) /\ pos' = j /\ UNCHANGED <<text, status>>

TakeWord ==
  /\ ~AtEnd /\ text[pos + 1] \in Letters
  /\ \E j \in (pos + 1)..Len(text) :
       MaximalRun(Alnum, pos + 1, j) /\ Take(WordTok(Kept(j)), j)

TakeNumber ==
  /\ ~AtEnd /\ text[pos + 1] \in Digits
  /\ \E j \in (pos + 1)..Len(text) :
       MaximalRun(Digits, pos + 1, j) /\ Take(ValueTok("int_lit", Kept(j)), j)

TakeSymbol ==
  /\ ~AtEnd
  /\ \E n \in {1, 2} : LongestSymbol(n) /\ Take(Tok(Symbol[Here(n)]), pos + n)

(* The character behind the quote, and one more for the closing quote.     *)
TakeCharacter ==
  /\ ~AtEnd /\ text[pos + 1] = Quote
  /\ LET c == IF pos + 2 <= Len(text) THEN text[pos + 2] ELSE Invalid
         j == IF pos + 3 <= Len(text) THEN pos + 3 ELSE Len(text)
     IN  Take(ValueTok("char_v", <<c>>), j)

Skip ==
  /\ ~AtEnd /\ text[pos + 1] \in Others
  /\ pos' = pos + 1
  /\ UNCHANGED <<text, toks, status>>

Reject ==
  /\ ~AtEnd /\ text[pos + 1] = "!" /\ ~LongestSymbol(2)
  /\ status' = "rejected"
  /\ UNCHANGED <<text, pos, toks>>

Complete == AtEnd /\ status' = "done" /\ UNCHANGED <<text, pos, toks>>

LNext ==
  /\ status = "lexing"
  /\ TakeWord \/ TakeNumber \/ TakeSymbol \/ TakeCharacter \/ Skip \/ Reject \/ Complete

LSpec == LInit /\ [][LNext]_lvars
=============================================================================
