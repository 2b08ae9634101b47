---------------------------- MODULE MCTokenizer -----------------------------
(***************************************************************************)
(* An instance of Tokenizer for TLC: two letters that spell the reserved   *)
(* word "if", a digit, a symbol that pairs with "=", one that never does   *)
(* and one that must, the quote, a blank and the end mark, in every order. *)
(***************************************************************************)
EXTENDS Tokenizer

CONSTANTS MaxText,      \* bound: length of the texts over all characters
          MaxWord       \* bound: length of the texts of letters and digits

MCKeyword == <<"i", "f">> :> "if"
MCChars   == {"i", "f", "1", "<", "=", "!", ";", Quote, " ", Invalid}

Texts(S, n) == UNION {[1..k -> S] : k \in 0..n}
MCSources   == Texts(MCChars, MaxText) \cup Texts({"i", "f", "1"}, MaxWord)
=============================================================================
