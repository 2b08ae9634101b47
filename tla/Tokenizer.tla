----------------------------- MODULE Tokenizer ------------------------------
(***************************************************************************)
(* tokenize (tokenizer/tokenizer.c), one step per turn of its loops: the   *)
(* outer one over lexemes and the inner ones that fill m_buf.              *)
(***************************************************************************)
EXTENDS Lexicon, SequencesExt

CONSTANT Sources

ASSUME SourcesAssumption == Sources \subseteq Seq(Char)

VARIABLES m_src,        \* the text, up to its NUL
          m_index,      \* characters consumed
          m_buf,        \* the characters of the current lexeme
          tokens,       \* what tokenize returns
          loop,         \* which loop runs, or how the call ended
          from          \* history: m_index where the current lexeme starts

vars == <<m_src, m_index, m_buf, tokens, loop, from>>

Loops == {"outer", "word", "number", "done", "exited"}

Init ==
  /\ m_src \in Sources
  /\ m_index = 0 /\ m_buf = <<>> /\ tokens = <<>>
  /\ loop = "outer" /\ from = 0

(* peek: the character at an offset, INVALID_CHAR behind the end.          *)
Peek(offset) ==
  IF m_index + offset < Len(m_src) THEN m_src[m_index + offset + 1] ELSE Invalid

(* m_index after n calls of consume, which stops at the end.               *)
Consumed(n) == IF m_index + n <= Len(m_src) THEN m_index + n ELSE Len(m_src)

(* Mutant: the last place of the buffer, for the NUL, is used as well.     *)
PushBackFull(c) == IF Len(m_buf) < BufSize THEN Append(m_buf, c) ELSE m_buf

(* push_back: a full buffer drops the character.                           *)
PushBack(c) == IF Len(m_buf) < BufSize - 1 THEN Append(m_buf, c) ELSE m_buf

(* push_token, push_token_value: append and clear the buffer.              *)
Push(token) == tokens' = Append(tokens, token) /\ m_buf' = <<>>

-----------------------------------------------------------------------------
(* The branch isalpha.                                                     *)
StartWord ==
  /\ loop = "outer" /\ Peek(0) \in Letters
  /\ m_buf' = PushBack(Peek(0))
  /\ m_index' = m_index + 1
  /\ loop' = "word" /\ from' = m_index
  /\ UNCHANGED <<m_src, tokens>>

MoreWord ==
  /\ loop = "word" /\ Peek(0) \in Alnum
  /\ m_buf' = PushBack(Peek(0))
  /\ m_index' = m_index + 1
  /\ UNCHANGED <<m_src, tokens, loop, from>>

(* Mutant: the word stops at a digit.                                      *)
EndWordAtDigit ==
  /\ loop = "word" /\ Peek(0) \notin Letters
  /\ Push(WordTok(m_buf))
  /\ loop' = "outer" /\ from' = m_index
  /\ UNCHANGED <<m_src, m_index>>

EndWord ==
  /\ loop = "word" /\ Peek(0) \notin Alnum
  /\ Push(WordTok(m_buf))
  /\ loop' = "outer" /\ from' = m_index
  /\ UNCHANGED <<m_src, m_index>>

(* The branch isdigit.                                                     *)
StartNumber ==
  /\ loop = "outer" /\ Peek(0) \in Digits
  /\ m_buf' = PushBack(Peek(0))
  /\ m_index' = m_index + 1
  /\ loop' = "number" /\ from' = m_index
  /\ UNCHANGED <<m_src, tokens>>

MoreNumber ==
  /\ loop = "number" /\ Peek(0) \in Digits
  /\ m_buf' = PushBack(Peek(0))
  /\ m_index' = m_index + 1
  /\ UNCHANGED <<m_src, tokens, loop, from>>

EndNumber ==
  /\ loop = "number" /\ Peek(0) \notin Digits
  /\ Push(ValueTok("int_lit", m_buf))
  /\ loop' = "outer" /\ from' = m_index
  /\ UNCHANGED <<m_src, m_index>>
-----------------------------------------------------------------------------
(* The switch: n characters are consumed in this turn of the outer loop.   *)
Turn(n) ==
  /\ loop = "outer"
  /\ m_index' = Consumed(n) /\ from' = Consumed(n)
  /\ UNCHANGED <<m_src, loop>>

(* A comparison takes the `=` behind it.                                   *)
PairAhead == <<Peek(0), Peek(1)>> \in DOMAIN Symbol

(* Mutant: the second character of a pair stays in the input.              *)
GenPairKeep == PairAhead /\ Push(Tok(Symbol[<<Peek(0), Peek(1)>>])) /\ Turn(1)

GenPair   == PairAhead /\ Push(Tok(Symbol[<<Peek(0), Peek(1)>>])) /\ Turn(2)
GenSingle ==
  /\ ~PairAhead /\ <<Peek(0)>> \in DOMAIN Symbol
  /\ Push(Tok(Symbol[<<Peek(0)>>])) /\ Turn(1)

(* The quote, the character and whatever stands in the closing place.      *)
GenCharacter ==
  /\ Peek(0) = Quote
  /\ Push(ValueTok("char_v", Append(m_buf, Peek(1)))) /\ Turn(3)

(* Mutant: an unknown character is looked at again and again.              *)
IgnoreNothing == Peek(0) \in Others /\ UNCHANGED <<tokens, m_buf>> /\ Turn(0)

Ignore == Peek(0) \in Others /\ UNCHANGED <<tokens, m_buf>> /\ Turn(1)

(* `!` alone: exit(1).                                                     *)
Exit ==
  /\ loop = "outer" /\ Peek(0) = "!" /\ ~PairAhead
  /\ loop' = "exited" /\ m_index' = m_index + 1
  /\ UNCHANGED <<m_src, m_buf, tokens, from>>

Return ==
  /\ loop = "outer" /\ Peek(0) = Invalid
  /\ loop' = "done"
  /\ UNCHANGED <<m_src, m_index, m_buf, tokens, from>>

Ended == loop \in {"done", "exited"} /\ UNCHANGED vars

Step == \/ StartWord \/ MoreWord \/ EndWord \/ StartNumber \/ MoreNumber \/ EndNumber
        \/ GenPair \/ GenSingle \/ GenCharacter \/ Ignore \/ Exit \/ Return
Next == Step \/ Ended

(* One thread; nothing it does can wait.                                   *)
Spec == Init /\ [][Next]_vars /\ WF_vars(Step)
-----------------------------------------------------------------------------
(* The type invariant: m_buf never overflows, and is empty whenever a new  *)
(* lexeme starts, so that no token gets characters of another one.         *)
TypeOK ==
  /\ m_src \in Seq(Char)
  /\ m_index \in 0..Len(m_src) /\ from \in 0..m_index
  /\ m_buf \in Seq(Char) /\ Len(m_buf) < BufSize
  /\ tokens \in Seq(Token)
  /\ loop \in Loops
  /\ loop \notin {"word", "number"} => m_buf = <<>>

(* The character loop implements the longest-match lexer, the lexeme being *)
(* taken at once when its token is pushed.                                 *)
Status ==
  IF loop = "done" THEN "done" ELSE IF loop = "exited" THEN "rejected" ELSE "lexing"

Promise == INSTANCE Lexer WITH text <- m_src, pos <- from, toks <- tokens, status <- Status

ImplementsLexer == Promise!LSpec

(* Nothing of the text is lost or doubled: the spellings of the tokens are *)
(* the text without its ignored characters, when no lexeme overflows the   *)
(* buffer and no character literal swallows a third character.             *)
SpellingOf(tok) ==
  IF tok.value # <<>> THEN tok.value
  ELSE CHOOSE s \in DOMAIN Symbol \cup DOMAIN Keyword :
         IF s \in DOMAIN Symbol THEN Symbol[s] = tok.type ELSE Keyword[s] = tok.type

Plain(s) == \A i \in DOMAIN s : s[i] \notin {Quote, Invalid}
Short(s) == \A i \in DOMAIN s : i >= BufSize => \E k \in (i - BufSize + 1)..i : s[k] \notin Alnum

(* The spellings of the first n tokens, one behind the other.              *)
Spelled(ts, n) ==
  LET upTo[k \in 0..n] == IF k = 0 THEN <<>> ELSE upTo[k - 1] \o SpellingOf(ts[k])
  IN  upTo[n]

(* What the first n characters say: all of them but the ignored ones.      *)
Said(s, n) ==
  LET upTo[k \in 0..n] == IF k = 0 THEN <<>>
                          ELSE IF s[k] \in Others THEN upTo[k - 1] ELSE Append(upTo[k - 1], s[k])
  IN  upTo[n]

NothingLost ==
  loop = "done" /\ Plain(m_src) /\ Short(m_src) =>
    Spelled(tokens, Len(tokens)) = Said(m_src, Len(m_src))

(* tokenize returns or exits, whatever the text.                           *)
Termination == <>(loop \in {"done", "exited"})
=============================================================================
