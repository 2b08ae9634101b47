-------------------------- MODULE TokenizerProofs ---------------------------
(***************************************************************************)
(* Theorems about the tokenizer, for every text, every buffer size and     *)
(* every list of reserved words: type correctness, that the character loop *)
(* with its bounded buffer implements the longest-match lexer, and that    *)
(* nothing of the text is lost.                                            *)
(***************************************************************************)
EXTENDS Tokenizer, SequenceTheorems, Recursion

-----------------------------------------------------------------------------
(* The characters and the spellings.                                       *)

LEMMA SymbolSpellings ==
  /\ \A c : <<c>> \in DOMAIN Symbol => c \in SymbolChars \ {"!"}
  /\ \A c, d : <<c, d>> \in DOMAIN Symbol => c \in SymbolChars /\ d = "="
<1>1. DOMAIN Symbol = Spellings
  BY DEF Symbol
<1>2. ASSUME NEW s \in Spellings
      PROVE  \/ \E c \in SymbolChars \ {"!"} : s = <<c>>
             \/ \E c \in {"=", "<", ">", "!"} : s = <<c, "=">>
  BY DEF Spellings
<1>3. {"=", "<", ">", "!"} \subseteq SymbolChars
  BY DEF SymbolChars
<1> QED BY <1>1, <1>2, <1>3

(* The classes of characters that the branches of tokenize tell apart.     *)
LEMMA Classes ==
  /\ Invalid \notin Alnum /\ Invalid \notin Others /\ Invalid \notin SymbolChars
  /\ Invalid # Quote /\ Quote \notin SymbolChars /\ Quote \notin Others
  /\ \A c \in Others : c \notin SymbolChars
  /\ "!" \in SymbolChars /\ "=" \in SymbolChars
  /\ Letters \subseteq Alnum /\ Digits \subseteq Alnum /\ Alnum \subseteq Char
  /\ SymbolChars \subseteq Char /\ Others \subseteq Char /\ Quote \in Char /\ Invalid \in Char
<1>1. "!" \in SymbolChars /\ "=" \in SymbolChars /\ Quote \notin SymbolChars
  BY DEF SymbolChars, Quote
<1> HIDE DEF SymbolChars
<1> QED BY <1>1, ClassesAssumption DEF Alnum, Char

(* The tokens.                                                             *)
LEMMA TokenForms ==
  /\ \A s \in DOMAIN Symbol : Tok(Symbol[s]) \in Token
  /\ \A v \in Seq(Char) : WordTok(v) \in Token
  /\ \A v \in Seq(Char) : ValueTok("int_lit", v) \in Token /\ ValueTok("char_v", v) \in Token
<1>1. <<>> \in Seq(Char)
  OBVIOUS
<1>2. ASSUME NEW s \in DOMAIN Symbol PROVE Tok(Symbol[s]) \in Token
  BY <1>1 DEF Tok, Token, TokenTypes
<1>3. ASSUME NEW v \in Seq(Char) PROVE WordTok(v) \in Token
  BY <1>1 DEF WordTok, Tok, ValueTok, Token, TokenTypes
<1>4. ASSUME NEW v \in Seq(Char)
      PROVE  ValueTok("int_lit", v) \in Token /\ ValueTok("char_v", v) \in Token
  BY DEF ValueTok, Token, TokenTypes
<1> QED BY <1>2, <1>3, <1>4
-----------------------------------------------------------------------------
(* The buffer.                                                             *)

(* What push_back keeps of the characters a + 1 to b.                      *)
Cut(s, a, b) == SubSeq(s, a + 1, IF b - a < BufSize THEN b ELSE a + BufSize - 1)

LEMMA CutGrows ==
  ASSUME NEW s \in Seq(Char), NEW a \in Nat, NEW b \in Nat, a <= b, b < Len(s)
  PROVE  /\ Cut(s, a, b) \in Seq(Char) /\ Len(Cut(s, a, b)) < BufSize
         /\ (IF Len(Cut(s, a, b)) < BufSize - 1 THEN Append(Cut(s, a, b), s[b + 1])
             ELSE Cut(s, a, b)) = Cut(s, a, b + 1)
<1>1. Len(s) \in Nat /\ BufSize \in Nat /\ BufSize > 1
  BY BufSizeAssumption
<1>2. CASE b - a < BufSize - 1
  <2>1. Cut(s, a, b) = SubSeq(s, a + 1, b)
    BY <1>1, <1>2 DEF Cut
  <2>2. SubSeq(s, a + 1, b) \in Seq(Char) /\ Len(SubSeq(s, a + 1, b)) = b - a
    BY <1>1
  <2>3. Cut(s, a, b + 1) = SubSeq(s, a + 1, b + 1)
    BY <1>1, <1>2 DEF Cut
  <2>4. Append(SubSeq(s, a + 1, b), s[b + 1]) = SubSeq(s, a + 1, b + 1)
    BY <1>1
  <2>5. Len(Cut(s, a, b)) < BufSize - 1
    BY <1>1, <1>2, <2>1, <2>2
  <2>6. Len(Cut(s, a, b)) < BufSize
    BY <1>1, <1>2, <2>1, <2>2
  <2>7. Append(Cut(s, a, b), s[b + 1]) = Cut(s, a, b + 1)
    BY <2>1, <2>3, <2>4, Zenon
  <2>8. Cut(s, a, b) \in Seq(Char)
    BY <2>1, <2>2, Zenon
  <2> QED BY <2>5, <2>6, <2>7, <2>8, Zenon
<1>3. CASE b - a >= BufSize - 1
  <2> DEFINE e == a + BufSize - 1
  <2>1. e \in Nat /\ e <= b /\ e >= a /\ e - a = BufSize - 1
    BY <1>1, <1>3
  <2>2. Cut(s, a, b) = SubSeq(s, a + 1, e)
    BY <1>1, <1>3 DEF Cut
  <2>3. Cut(s, a, b + 1) = SubSeq(s, a + 1, e)
    BY <1>1, <1>3 DEF Cut
  <2>4. Len(SubSeq(s, a + 1, e)) = e - a /\ SubSeq(s, a + 1, e) \in Seq(Char)
    <3> HIDE DEF e
    <3> QED BY <1>1, <2>1
  <2> HIDE DEF e
  <2>5. Len(Cut(s, a, b)) = BufSize - 1
    BY <2>1, <2>2, <2>4, Zenon
  <2>6. ~(Len(Cut(s, a, b)) < BufSize - 1) /\ Len(Cut(s, a, b)) < BufSize
    BY <1>1, <2>5
  <2>7. Cut(s, a, b) \in Seq(Char) /\ Cut(s, a, b) = Cut(s, a, b + 1)
    BY <2>2, <2>3, <2>4, Zenon
  <2> QED BY <2>6, <2>7, Zenon
<1> QED BY <1>1, <1>2, <1>3

(* Nothing is kept yet where a lexeme starts.                              *)
LEMMA CutStarts ==
  ASSUME NEW s \in Seq(Char), NEW a \in Nat, a <= Len(s)
  PROVE  Cut(s, a, a) = <<>>
<1>1. Len(s) \in Nat /\ BufSize \in Nat /\ BufSize > 0
  BY BufSizeAssumption
<1>2. Cut(s, a, a) = SubSeq(s, a + 1, a)
  BY <1>1 DEF Cut
<1> QED BY <1>1, <1>2
-----------------------------------------------------------------------------
(* The state of a lexeme that is being collected: the buffer holds what of *)
(* it fits, and every character taken is of the run's class.               *)
Collecting(S, First) ==
  /\ from < m_index
  /\ m_buf = Cut(m_src, from, m_index)
  /\ m_src[from + 1] \in First
  /\ \A k \in (from + 1)..m_index : m_src[k] \in S

LexemeInv ==
  /\ loop \in {"outer", "done"} => from = m_index
  /\ loop = "word"   => Collecting(Alnum, Letters)
  /\ loop = "number" => Collecting(Digits, Digits)

TokenizerInv == TypeOK /\ LexemeInv

(* What the first character decides in every state of the loops.           *)
LEMMA PeekForms ==
  ASSUME TypeOK
  PROVE  /\ Peek(0) \in Char /\ Peek(1) \in Char
         /\ Peek(0) # Invalid => m_index < Len(m_src) /\ Peek(0) = m_src[m_index + 1]
         /\ Peek(1) # Invalid => m_index + 1 < Len(m_src) /\ Peek(1) = m_src[m_index + 2]
         /\ m_index < Len(m_src) => Peek(0) = m_src[m_index + 1]
         /\ m_index + 1 < Len(m_src) => Peek(1) = m_src[m_index + 2]
         /\ Len(m_src) \in Nat /\ m_index \in Nat /\ from \in Nat
<1>1. Len(m_src) \in Nat /\ m_index \in Nat /\ from \in Nat /\ m_src \in Seq(Char)
  BY DEF TypeOK
<1>2. m_index + 0 = m_index /\ m_index + 0 + 1 = m_index + 1 /\ m_index + 1 + 1 = m_index + 2
  BY <1>1
<1>3. Invalid \in Char
  BY Classes
<1> QED BY <1>1, <1>2, <1>3 DEF Peek

(* The buffer holds what belongs to the lexeme that starts behind a, if    *)
(* anything of it has been read, and the next character belongs to it.     *)
Continues(S, First, a) ==
  /\ a \in Nat /\ a <= m_index /\ m_buf = Cut(m_src, a, m_index)
  /\ IF a = m_index THEN Peek(0) \in First ELSE m_src[a + 1] \in First
  /\ \A k \in (a + 1)..m_index : m_src[k] \in S
  /\ Peek(0) \in S /\ S \subseteq Char /\ Invalid \notin S

(* One turn of a collecting loop, the first one included: the character    *)
(* taken belongs to the run.                                               *)
LEMMA Collects ==
  ASSUME TypeOK, NEW S, NEW First, NEW a, Continues(S, First, a),
         m_buf' = PushBack(Peek(0)), m_index' = m_index + 1, m_src' = m_src, from' = a
  PROVE  /\ Collecting(S, First)'
         /\ m_index' \in 0..Len(m_src') /\ from' \in 0..m_index'
         /\ m_buf' \in Seq(Char) /\ Len(m_buf') < BufSize
<1> USE DEF Continues
<1>1. /\ m_index < Len(m_src) /\ Peek(0) = m_src[m_index + 1]
      /\ Len(m_src) \in Nat /\ m_index \in Nat /\ m_src \in Seq(Char)
  BY PeekForms DEF TypeOK
<1>2. m_buf' = Cut(m_src, a, m_index + 1)
  BY <1>1, CutGrows DEF PushBack
<1>3. m_buf' \in Seq(Char) /\ Len(m_buf') < BufSize
  <2>1. m_buf \in Seq(Char) /\ Len(m_buf) < BufSize /\ Peek(0) \in Char /\ BufSize \in Nat
    BY PeekForms, BufSizeAssumption DEF TypeOK
  <2> QED BY <2>1 DEF PushBack
<1>4. m_src[a + 1] \in First
  BY <1>1
<1>5. ASSUME NEW k \in (a + 1)..(m_index + 1) PROVE m_src[k] \in S
  <2>1. k \in (a + 1)..m_index \/ k = m_index + 1
    BY <1>1
  <2> QED BY <2>1, <1>1
<1>6. Collecting(S, First)'
  BY <1>1, <1>2, <1>4, <1>5 DEF Collecting
<1> QED BY <1>1, <1>3, <1>6
-----------------------------------------------------------------------------
(* One step.                                                               *)

LEMMA InitInv == Init => TokenizerInv
<1> SUFFICES ASSUME Init PROVE TokenizerInv
  OBVIOUS
<1>1. m_src \in Seq(Char) /\ Len(m_src) \in Nat
  BY SourcesAssumption DEF Init
<1>2. BufSize \in Nat /\ BufSize > 0
  BY BufSizeAssumption
<1> QED BY <1>1, <1>2 DEF Init, TokenizerInv, TypeOK, LexemeInv, Loops

(* A turn that ends at n characters behind a lexeme of the outer loop.     *)
LEMMA OuterTurn ==
  ASSUME TokenizerInv, NEW n \in Nat, Turn(n), m_buf' = <<>>, tokens' \in Seq(Token)
  PROVE  TokenizerInv'
<1>1. Consumed(n) \in 0..Len(m_src)
  BY DEF Consumed, TokenizerInv, TypeOK
<1>2. BufSize \in Nat /\ BufSize > 0 /\ Len(<<>>) = 0 /\ <<>> \in Seq(Char)
  BY BufSizeAssumption
<1> QED BY <1>1, <1>2 DEF Turn, TokenizerInv, TypeOK, LexemeInv, Loops

LEMMA NextInv == TokenizerInv /\ [Next]_vars => TokenizerInv'
<1> SUFFICES ASSUME TokenizerInv, [Next]_vars PROVE TokenizerInv'
  OBVIOUS
<1> USE DEF TokenizerInv
<1>a. /\ m_src \in Seq(Char) /\ Len(m_src) \in Nat /\ m_index \in Nat /\ from \in Nat
      /\ m_index <= Len(m_src) /\ BufSize \in Nat /\ BufSize > 0 /\ tokens \in Seq(Token)
  BY BufSizeAssumption DEF TypeOK
<1>b. Len(<<>>) = 0 /\ <<>> \in Seq(Char)
  OBVIOUS
<1>1. ASSUME NEW S, NEW First, NEW l \in {"word", "number"}, loop = "outer", Peek(0) \in First,
             S \subseteq Char, Invalid \notin S, First \subseteq S,
             l = "word" => (S = Alnum /\ First = Letters),
             l = "number" => (S = Digits /\ First = Digits),
             m_buf' = PushBack(Peek(0)), m_index' = m_index + 1, loop' = l, from' = m_index,
             UNCHANGED <<m_src, tokens>>
      PROVE  TokenizerInv'
  <2>1. m_buf = Cut(m_src, m_index, m_index)
    BY <1>1, <1>a, CutStarts DEF TypeOK
  <2>2. Continues(S, First, m_index)
    BY <1>1, <1>a, <2>1 DEF Continues
  <2>3. /\ Collecting(S, First)'
        /\ m_index' \in 0..Len(m_src') /\ from' \in 0..m_index'
        /\ m_buf' \in Seq(Char) /\ Len(m_buf') < BufSize
    BY <1>1, <2>2, Collects
  <2>4. TypeOK'
    BY <1>1, <1>a, <2>3 DEF TypeOK, Loops
  <2>5. LexemeInv'
    BY <1>1, <2>3 DEF LexemeInv, Collecting
  <2> QED BY <2>4, <2>5
<1>2. ASSUME NEW S, NEW First, loop \in {"word", "number"}, Peek(0) \in S,
             S \subseteq Char, Invalid \notin S, First \subseteq S,
             loop = "word" => (S = Alnum /\ First = Letters),
             loop = "number" => (S = Digits /\ First = Digits),
             Collecting(S, First),
             m_buf' = PushBack(Peek(0)), m_index' = m_index + 1,
             UNCHANGED <<m_src, tokens, loop, from>>
      PROVE  TokenizerInv'
  <2>1. /\ from < m_index /\ m_buf = Cut(m_src, from, m_index) /\ m_src[from + 1] \in First
        /\ \A k \in (from + 1)..m_index : m_src[k] \in S
    BY <1>2 DEF Collecting
  <2>2. Continues(S, First, from)
    BY <1>2, <1>a, <2>1 DEF Continues
  <2>3. /\ Collecting(S, First)'
        /\ m_index' \in 0..Len(m_src') /\ from' \in 0..m_index'
        /\ m_buf' \in Seq(Char) /\ Len(m_buf') < BufSize
    BY <1>2, <2>2, Collects
  <2>4. TypeOK'
    BY <1>2, <1>a, <2>3 DEF TypeOK, Loops
  <2>5. LexemeInv'
    BY <1>2, <2>3 DEF LexemeInv, Collecting
  <2> QED BY <2>4, <2>5
<1>3. ASSUME NEW token \in Token, Push(token), loop' = "outer", from' = m_index,
             UNCHANGED <<m_src, m_index>>
      PROVE  TokenizerInv'
  <2>1. tokens' \in Seq(Token) /\ m_buf' = <<>>
    BY <1>3, <1>a DEF Push
  <2> QED BY <1>3, <1>a, <1>b, <2>1 DEF TypeOK, LexemeInv, Loops
<1>4. CASE StartWord
  BY <1>1, <1>4, Classes DEF StartWord
<1>5. CASE MoreWord
  BY <1>2, <1>5, Classes DEF MoreWord, LexemeInv
<1>6. CASE EndWord
  BY <1>3, <1>6, TokenForms DEF EndWord, TypeOK
<1>7. CASE StartNumber
  BY <1>1, <1>7, Classes DEF StartNumber
<1>8. CASE MoreNumber
  BY <1>2, <1>8, Classes DEF MoreNumber, LexemeInv
<1>9. CASE EndNumber
  BY <1>3, <1>9, TokenForms DEF EndNumber, TypeOK
<1>10. ASSUME NEW token \in Token, Push(token), NEW n \in Nat, Turn(n)
       PROVE  TokenizerInv'
  <2>1. tokens' \in Seq(Token) /\ m_buf' = <<>>
    BY <1>10, <1>a DEF Push
  <2> QED BY <1>10, <2>1, OuterTurn
<1>11. CASE GenPair
  BY <1>10, <1>11, TokenForms DEF GenPair, PairAhead
<1>12. CASE GenSingle
  BY <1>10, <1>12, TokenForms DEF GenSingle
<1>13. CASE GenCharacter
  <2>1. Append(m_buf, Peek(1)) \in Seq(Char)
    BY PeekForms DEF TypeOK
  <2>2. ValueTok("char_v", Append(m_buf, Peek(1))) \in Token
    BY <2>1, TokenForms
  <2> QED BY <1>10, <1>13, <2>2 DEF GenCharacter
<1>14. CASE Ignore
  <2>1. m_buf' = <<>> /\ tokens' \in Seq(Token)
    BY <1>14, <1>a DEF Ignore, Turn, TypeOK
  <2> QED BY <1>14, <2>1, OuterTurn DEF Ignore
<1>15. CASE Exit
  <2>1. Peek(0) # Invalid
    BY <1>15, Classes DEF Exit
  <2>2. m_index + 1 \in 0..Len(m_src)
    BY <1>a, <2>1, PeekForms
  <2> QED BY <1>15, <1>a, <2>2 DEF Exit, TypeOK, LexemeInv, Loops
<1>16. CASE Return
  BY <1>16, <1>a DEF Return, TypeOK, LexemeInv, Loops
<1>17. CASE UNCHANGED vars
  BY <1>17 DEF vars, TypeOK, LexemeInv, Collecting
<1> QED
  BY <1>4, <1>5, <1>6, <1>7, <1>8, <1>9, <1>11, <1>12, <1>13, <1>14, <1>15, <1>16, <1>17
  DEF Next, Step, Ended

(* In every reachable state the buffer has room for its NUL and is empty   *)
(* between two lexemes, so that no token gets characters of another one,   *)
(* and m_index never passes the end of the text.                           *)
THEOREM TypeCorrect == Spec => []TypeOK
<1>1. TokenizerInv => TypeOK
  BY DEF TokenizerInv
<1> QED BY InitInv, NextInv, <1>1, PTL DEF Spec
-----------------------------------------------------------------------------
(* The lexer's view of the state.                                          *)

(* The instance has the same characters, spellings and tokens.             *)
LEMMA SameLexicon ==
  /\ Promise!Alnum = Alnum /\ Promise!Quote = Quote /\ Promise!Symbol = Symbol
  /\ \A w : Promise!WordTok(w) = WordTok(w)
  /\ \A type, v : Promise!ValueTok(type, v) = ValueTok(type, v)
  /\ \A type : Promise!Tok(type) = Tok(type)
<1>1. Promise!SymbolChars = SymbolChars
  BY DEF SymbolChars, Promise!SymbolChars
<1>2. Promise!Spellings = Spellings
  BY <1>1, Zenon DEF Spellings, Promise!Spellings
<1>3. Promise!Symbol = Symbol
  BY <1>2, Zenon DEF Symbol, Promise!Symbol
<1>4. Promise!Alnum = Alnum /\ Promise!Quote = Quote
  BY Zenon DEF Alnum, Promise!Alnum, Quote, Promise!Quote
<1>5. ASSUME NEW type PROVE Promise!Tok(type) = Tok(type)
  BY Zenon DEF Tok, Promise!Tok
<1>6. ASSUME NEW type, NEW v PROVE Promise!ValueTok(type, v) = ValueTok(type, v)
  BY Zenon DEF ValueTok, Promise!ValueTok
<1>7. ASSUME NEW w PROVE Promise!WordTok(w) = WordTok(w)
  BY <1>5, <1>6, Zenon DEF WordTok, Promise!WordTok
<1> QED BY <1>3, <1>4, <1>5, <1>6, <1>7, Zenon

LEMMA LexerView ==
  ASSUME TokenizerInv, from = m_index
  PROVE  /\ Promise!AtEnd <=> Peek(0) = Invalid
         /\ m_index < Len(m_src) => Promise!Here(1) = <<Peek(0)>>
         /\ m_index + 1 < Len(m_src) => Promise!Here(2) = <<Peek(0), Peek(1)>>
<1> USE DEF TokenizerInv
<1>1. /\ m_src \in Seq(Char) /\ Len(m_src) \in Nat /\ m_index \in Nat /\ m_index <= Len(m_src)
  BY DEF TypeOK
<1>2. Promise!AtEnd <=> Peek(0) = Invalid
  BY <1>1 DEF Promise!AtEnd, Peek
<1>3. ASSUME m_index < Len(m_src) PROVE Promise!Here(1) = <<Peek(0)>>
  <2>1. Promise!Here(1) = SubSeq(m_src, m_index + 1, m_index + 1)
    BY DEF Promise!Here
  <2>2. Peek(0) = m_src[m_index + 1]
    BY <1>3, PeekForms
  <2> QED BY <1>1, <1>3, <2>1, <2>2
<1>4. ASSUME m_index + 1 < Len(m_src) PROVE Promise!Here(2) = <<Peek(0), Peek(1)>>
  <2>1. Promise!Here(2) = SubSeq(m_src, m_index + 1, m_index + 2)
    BY DEF Promise!Here
  <2>2. Peek(0) = m_src[m_index + 1] /\ Peek(1) = m_src[m_index + 2]
    BY <1>1, <1>4, PeekForms
  <2>3. SubSeq(m_src, m_index + 1, m_index + 2) = <<m_src[m_index + 1], m_src[m_index + 2]>>
    <3> DEFINE u == SubSeq(m_src, m_index + 1, m_index + 2)
    <3>1. u \in Seq(Char) /\ Len(u) = 2
      BY <1>1, <1>4
    <3>2. u[1] = m_src[m_index + 1] /\ u[2] = m_src[m_index + 2]
      BY <1>1, <1>4
    <3> HIDE DEF u
    <3>3. u = <<u[1], u[2]>>
      BY <3>1
    <3> QED BY <3>2, <3>3 DEF u
  <2> QED BY <2>1, <2>2, <2>3
<1> QED BY <1>2, <1>3, <1>4

(* The end of a run is the end of the longest run at the lexeme's start.   *)
LEMMA RunEnds ==
  ASSUME TokenizerInv, NEW S, NEW First, Collecting(S, First), Peek(0) \notin S, Invalid \notin S,
         First \subseteq S
  PROVE  /\ m_index \in (from + 1)..Len(m_src)
         /\ Promise!MaximalRun(S, from + 1, m_index)
         /\ Promise!Kept(m_index) = m_buf
         /\ ~Promise!AtEnd /\ m_src[from + 1] \in First
<1> USE DEF TokenizerInv
<1>1. /\ m_src \in Seq(Char) /\ Len(m_src) \in Nat /\ m_index \in Nat /\ m_index <= Len(m_src)
      /\ from \in Nat /\ from < m_index
  BY DEF TypeOK, Collecting
<1>2. Promise!Kept(m_index) = m_buf
  BY DEF Promise!Kept, Collecting, Cut
<1>3. m_index < Len(m_src) => m_src[m_index + 1] \notin S
  BY PeekForms
<1>4. Promise!MaximalRun(S, from + 1, m_index)
  BY <1>1, <1>3 DEF Promise!MaximalRun, Collecting
<1>5. ~Promise!AtEnd /\ m_src[from + 1] \in First
  BY <1>1 DEF Promise!AtEnd, Collecting
<1> QED BY <1>1, <1>2, <1>4, <1>5
-----------------------------------------------------------------------------
(* Every step of the character loop is a step of the lexer or leaves its   *)
(* state alone.                                                            *)

LEMMA StepRefines == TokenizerInv /\ [Next]_vars => [Promise!LNext]_(Promise!lvars)
<1> SUFFICES ASSUME TokenizerInv, [Next]_vars PROVE [Promise!LNext]_(Promise!lvars)
  OBVIOUS
<1> USE DEF TokenizerInv
<1>a. /\ m_src \in Seq(Char) /\ Len(m_src) \in Nat /\ m_index \in Nat /\ from \in Nat
      /\ m_index <= Len(m_src)
  BY DEF TypeOK
<1>b. loop = "outer" => from = m_index
  BY DEF LexemeInv
<1>1. ASSUME UNCHANGED <<m_src, from, tokens>>, loop \notin {"done", "exited"},
             loop' \notin {"done", "exited"}
      PROVE  UNCHANGED Promise!lvars
  BY <1>1 DEF Promise!lvars, Status
<1>2. CASE StartWord
  <2>1. from' = from
    BY <1>2, <1>b DEF StartWord
  <2> QED BY <1>1, <1>2, <2>1 DEF StartWord
<1>3. CASE StartNumber
  <2>1. from' = from
    BY <1>3, <1>b DEF StartNumber
  <2> QED BY <1>1, <1>3, <2>1 DEF StartNumber
<1>4. CASE MoreWord
  BY <1>1, <1>4 DEF MoreWord
<1>5. CASE MoreNumber
  BY <1>1, <1>5 DEF MoreNumber
<1>6. CASE EndWord
  <2>1. Collecting(Alnum, Letters)
    BY <1>6 DEF EndWord, LexemeInv
  <2>2. /\ m_index \in (from + 1)..Len(m_src)
        /\ Promise!MaximalRun(Alnum, from + 1, m_index)
        /\ Promise!Kept(m_index) = m_buf
        /\ ~Promise!AtEnd /\ m_src[from + 1] \in Letters
    BY <1>6, <2>1, RunEnds, Classes DEF EndWord
  <2>3. Promise!Take(WordTok(Promise!Kept(m_index)), m_index)
    BY <1>6, <2>2 DEF EndWord, Push, Promise!Take, Status
  <2>4. Promise!TakeWord
    BY <2>2, <2>3, SameLexicon DEF Promise!TakeWord
  <2> QED BY <1>6, <2>4 DEF EndWord, Promise!LNext, Status
<1>7. CASE EndNumber
  <2>1. Collecting(Digits, Digits)
    BY <1>7 DEF EndNumber, LexemeInv
  <2>2. /\ m_index \in (from + 1)..Len(m_src)
        /\ Promise!MaximalRun(Digits, from + 1, m_index)
        /\ Promise!Kept(m_index) = m_buf
        /\ ~Promise!AtEnd /\ m_src[from + 1] \in Digits
    BY <1>7, <2>1, RunEnds, Classes DEF EndNumber
  <2>3. Promise!Take(ValueTok("int_lit", Promise!Kept(m_index)), m_index)
    BY <1>7, <2>2 DEF EndNumber, Push, Promise!Take, Status
  <2>4. Promise!TakeNumber
    BY <2>2, <2>3, SameLexicon DEF Promise!TakeNumber
  <2> QED BY <1>7, <2>4 DEF EndNumber, Promise!LNext, Status
<1>8. CASE GenPair
  <2>1. loop = "outer" /\ loop' = loop /\ m_src' = m_src /\ from' = Consumed(2)
    BY <1>8 DEF GenPair, Turn
  <2>2. Peek(0) \in SymbolChars /\ Peek(1) = "="
    BY <1>8, SymbolSpellings DEF GenPair, PairAhead
  <2>3. Peek(0) # Invalid /\ Peek(1) # Invalid
    BY <2>2, Classes
  <2>4. m_index + 1 < Len(m_src) /\ Consumed(2) = m_index + 2
    BY <1>a, <2>3, PeekForms DEF Consumed
  <2>5. ~Promise!AtEnd /\ Promise!Here(2) = <<Peek(0), Peek(1)>>
    BY <1>b, <2>1, <2>3, <2>4, LexerView
  <2>6. Promise!LongestSymbol(2)
    <3>1. Promise!Here(2) \in DOMAIN Promise!Symbol
      BY <1>8, <2>5, SameLexicon DEF GenPair, PairAhead
    <3>2. from + 2 <= Len(m_src)
      BY <1>a, <1>b, <2>1, <2>4
    <3> QED BY <3>1, <3>2 DEF Promise!LongestSymbol
  <2>7. Promise!Take(Tok(Symbol[Promise!Here(2)]), from + 2)
    BY <1>b, <1>8, <2>1, <2>4, <2>5 DEF GenPair, Push, Promise!Take, Status
  <2>8. Promise!TakeSymbol
    BY <2>5, <2>6, <2>7, SameLexicon DEF Promise!TakeSymbol
  <2> QED BY <2>1, <2>8 DEF Promise!LNext, Status
<1>9. CASE GenSingle
  <2>1. loop = "outer" /\ loop' = loop /\ m_src' = m_src /\ from' = Consumed(1)
    BY <1>9 DEF GenSingle, Turn
  <2>2. Peek(0) # Invalid
    BY <1>9, SymbolSpellings, Classes DEF GenSingle
  <2>4. m_index < Len(m_src) /\ Consumed(1) = m_index + 1
    BY <1>a, <2>2, PeekForms DEF Consumed
  <2>5. /\ ~Promise!AtEnd /\ Promise!Here(1) = <<Peek(0)>>
        /\ m_index + 1 < Len(m_src) => Promise!Here(2) = <<Peek(0), Peek(1)>>
    BY <1>b, <2>1, <2>2, <2>4, LexerView
  <2>6. Promise!LongestSymbol(1)
    <3>1. from + 1 <= Len(m_src) /\ Promise!Here(1) \in DOMAIN Symbol
      BY <1>a, <1>b, <1>9, <2>1, <2>4, <2>5 DEF GenSingle
    <3>2. from + 2 <= Len(m_src) => Promise!Here(2) \notin DOMAIN Symbol
      BY <1>a, <1>b, <1>9, <2>1, <2>5 DEF GenSingle, PairAhead
    <3> QED BY <3>1, <3>2, SameLexicon DEF Promise!LongestSymbol
  <2>7. Promise!Take(Tok(Symbol[Promise!Here(1)]), from + 1)
    BY <1>b, <1>9, <2>1, <2>4, <2>5 DEF GenSingle, Push, Promise!Take, Status
  <2>8. Promise!TakeSymbol
    BY <2>5, <2>6, <2>7, SameLexicon DEF Promise!TakeSymbol
  <2> QED BY <2>1, <2>8 DEF Promise!LNext, Status
<1>10. CASE GenCharacter
  <2>1. loop = "outer" /\ loop' = loop /\ m_src' = m_src /\ from' = Consumed(3) /\ m_buf = <<>>
    BY <1>10 DEF GenCharacter, Turn, TypeOK
  <2>2. Peek(0) # Invalid
    BY <1>10, Classes DEF GenCharacter
  <2>3. m_index < Len(m_src) /\ Peek(0) = m_src[m_index + 1] /\ ~Promise!AtEnd
    BY <1>b, <2>1, <2>2, PeekForms, LexerView
  <2>4. Peek(1) = IF from + 2 <= Len(m_src) THEN m_src[from + 2] ELSE Invalid
    BY <1>a, <1>b, <2>1 DEF Peek
  <2>5. Consumed(3) = IF from + 3 <= Len(m_src) THEN from + 3 ELSE Len(m_src)
    BY <1>b, <2>1 DEF Consumed
  <2>6. Append(m_buf, Peek(1)) = <<Peek(1)>>
    BY <2>1
  <2>7. Promise!Take(ValueTok("char_v", <<Peek(1)>>), Consumed(3))
    BY <1>10, <2>1, <2>6 DEF GenCharacter, Push, Promise!Take, Status
  <2>8. Promise!TakeCharacter
    BY <1>b, <1>10, <2>1, <2>3, <2>4, <2>5, <2>7, SameLexicon, Zenon DEF GenCharacter, Promise!TakeCharacter
  <2> QED BY <2>1, <2>8 DEF Promise!LNext, Status
<1>11. CASE Ignore
  <2>1. /\ loop = "outer" /\ loop' = loop /\ m_src' = m_src /\ from' = Consumed(1)
        /\ tokens' = tokens /\ Peek(0) \in Others
    BY <1>11 DEF Ignore, Turn
  <2>2. Peek(0) # Invalid
    BY <2>1, Classes
  <2>3. /\ m_index < Len(m_src) /\ Peek(0) = m_src[m_index + 1] /\ ~Promise!AtEnd
        /\ Consumed(1) = m_index + 1
    BY <1>a, <1>b, <2>1, <2>2, PeekForms, LexerView DEF Consumed
  <2>4. Promise!Skip
    BY <1>b, <2>1, <2>3 DEF Promise!Skip, Status
  <2> QED BY <2>1, <2>4 DEF Promise!LNext, Status
<1>12. CASE Exit
  <2>1. /\ loop = "outer" /\ loop' = "exited" /\ m_src' = m_src /\ from' = from
        /\ tokens' = tokens /\ Peek(0) = "!" /\ ~PairAhead
    BY <1>12 DEF Exit
  <2>2. Peek(0) # Invalid
    BY <2>1, Classes
  <2>3. m_index < Len(m_src) /\ Peek(0) = m_src[m_index + 1] /\ ~Promise!AtEnd
    BY <1>b, <2>1, <2>2, PeekForms, LexerView
  <2>4. ~Promise!LongestSymbol(2)
    <3>1. from + 2 <= Len(m_src) => Promise!Here(2) = <<Peek(0), Peek(1)>>
      BY <1>a, <1>b, <2>1, LexerView
    <3> QED BY <2>1, <3>1, SameLexicon DEF Promise!LongestSymbol, PairAhead
  <2>5. Promise!Reject
    BY <1>b, <2>1, <2>3, <2>4 DEF Promise!Reject, Status
  <2> QED BY <2>1, <2>5 DEF Promise!LNext, Status
<1>13. CASE Return
  <2>1. /\ loop = "outer" /\ loop' = "done" /\ m_src' = m_src /\ from' = from
        /\ tokens' = tokens /\ Peek(0) = Invalid
    BY <1>13 DEF Return
  <2>2. Promise!AtEnd
    BY <1>b, <2>1, LexerView
  <2> QED BY <2>1, <2>2 DEF Promise!Complete,  Promise!LNext, Status
<1>14. CASE UNCHANGED vars
  BY <1>14 DEF vars, Promise!lvars, Status
<1> QED
  BY <1>2, <1>3, <1>4, <1>5, <1>6, <1>7, <1>8, <1>9, <1>10, <1>11, <1>12, <1>13, <1>14
  DEF Next, Step, Ended

LEMMA InitRefines == Init => Promise!LInit
BY DEF Init, Promise!LInit, Status

(* The character loop with its bounded buffer implements the longest-match *)
(* lexer: words, numbers and symbols are never split, joined or shortened  *)
(* beyond what the buffer drops, whatever stands behind them.              *)
THEOREM Refinement == Spec => ImplementsLexer
<1>1. Spec => []TokenizerInv
  BY InitInv, NextInv, PTL DEF Spec
<1> QED BY <1>1, InitRefines, StepRefines, PTL DEF Spec, ImplementsLexer, Promise!LSpec
-----------------------------------------------------------------------------
(* Nothing lost: the two recursions over the text and over the tokens.     *)

SaidFrom(s, m, f) ==
  f = [k \in 0..m |-> IF k = 0 THEN <<>>
                      ELSE IF s[k] \in Others THEN f[k - 1] ELSE Append(f[k - 1], s[k])]

LEMMA SaidSteps ==
  ASSUME NEW s, NEW m \in Nat, NEW f, SaidFrom(s, m, f)
  PROVE  /\ f[0] = <<>>
         /\ \A k \in 1..m : f[k] = IF s[k] \in Others THEN f[k - 1] ELSE Append(f[k - 1], s[k])
<1>1. 0 \in 0..m /\ \A k \in 1..m : k \in 0..m /\ k # 0
  OBVIOUS
<1>2. \A k \in 0..m : f[k] = IF k = 0 THEN <<>>
                              ELSE IF s[k] \in Others THEN f[k - 1] ELSE Append(f[k - 1], s[k])
  BY Zenon DEF SaidFrom
<1> QED BY <1>1, <1>2, Zenon

LEMMA SaidOnce ==
  ASSUME NEW s, NEW m \in Nat, NEW n \in Nat, m <= n, NEW f, NEW g, SaidFrom(s, m, f), SaidFrom(s, n, g)
  PROVE  \A k \in 0..m : f[k] = g[k]
<1>1. f[0] = g[0]
  BY SaidSteps
<1>2. \A k \in 1..m : f[k - 1] = g[k - 1] => f[k] = g[k]
  <2>1. \A k \in 1..m : k \in 1..n
    OBVIOUS
  <2>2. \A k \in 1..m : f[k] = IF s[k] \in Others THEN f[k - 1] ELSE Append(f[k - 1], s[k])
    BY SaidSteps
  <2>3. \A k \in 1..n : g[k] = IF s[k] \in Others THEN g[k - 1] ELSE Append(g[k - 1], s[k])
    BY SaidSteps
  <2> QED BY <2>1, <2>2, <2>3
<1> QED BY <1>1, <1>2, SameSoFar

LEMMA SaidExists ==
  ASSUME NEW s \in Seq(Char), NEW m \in 0..Len(s)
  PROVE  LET f == CHOOSE f : SaidFrom(s, m, f)
         IN  SaidFrom(s, m, f) /\ Said(s, m) = f[m] /\ \A k \in 0..m : f[k] \in Seq(Char)
<1> DEFINE step == [k \in 1..m |-> [d \in Seq(Char) |-> IF s[k] \in Others THEN d ELSE Append(d, s[k])]]
           F == CHOOSE f : SaidFrom(s, m, f)
<1>1. \A k \in 1..m : s[k] \in Char
  OBVIOUS
<1>0. m \in Nat /\ <<>> \in Seq(Char)
  OBVIOUS
<1>2. \A k \in 1..m : \A d \in Seq(Char) : step[k][d] \in Seq(Char)
  BY <1>1
<1>3. PICK f : /\ f \in [0..m -> Seq(Char)] /\ f[0] = <<>>
               /\ \A k \in 1..m : f[k] = step[k][f[k - 1]]
  <2> DEFINE D == Seq(Char)
  <2>1. m \in Nat /\ <<>> \in D /\ Keeps(step, D, m)
    BY <1>0, <1>2 DEF Keeps
  <2>2. \E f \in [0..m -> D] : Runs(f, step, <<>>, m)
    <3> HIDE DEF D, step
    <3> QED BY <2>1, Recursive
  <2> HIDE DEF step
  <2> QED BY <2>2 DEF Runs
<1>4. SaidFrom(s, m, f)
  <2> DEFINE h == [k \in 0..m |-> IF k = 0 THEN <<>>
                      ELSE IF s[k] \in Others THEN f[k - 1] ELSE Append(f[k - 1], s[k])]
  <2>1. \A k \in 1..m : f[k - 1] \in Seq(Char)
    BY <1>3
  <2>2. \A k \in 0..m : h[k] = f[k]
    <3> SUFFICES ASSUME NEW k \in 0..m PROVE h[k] = f[k]
      OBVIOUS
    <3>1. CASE k = 0
      BY <1>3, <3>1
    <3>2. CASE k # 0
      <4>1. k \in 1..m /\ f[k - 1] \in Seq(Char) /\ f[k] = step[k][f[k - 1]]
        <5>1. k \in 1..m
          BY <3>2
        <5> HIDE DEF step
        <5> QED BY <1>3, <2>1, <5>1
      <4>2. step[k][f[k - 1]] = IF s[k] \in Others THEN f[k - 1] ELSE Append(f[k - 1], s[k])
        BY <4>1
      <4>3. h[k] = IF s[k] \in Others THEN f[k - 1] ELSE Append(f[k - 1], s[k])
        BY <3>2
      <4> QED BY <4>1, <4>2, <4>3, Zenon
    <3> QED BY <3>1, <3>2
  <2>3. f = [k \in 0..m |-> f[k]] /\ h = [k \in 0..m |-> h[k]]
    BY <1>3
  <2>4. h = f
    <3> HIDE DEF h
    <3> QED BY <2>2, <2>3
  <2> QED BY <2>4 DEF SaidFrom
<1>5. SaidFrom(s, m, F)
  BY <1>4
<1>6. Said(s, m) = F[m]
  BY DEF Said, SaidFrom
<1> HIDE DEF F, step
<1>7. \A k \in 0..m : F[k] = f[k]
  BY <1>0, <1>4, <1>5, SaidOnce
<1>8. \A k \in 0..m : F[k] \in Seq(Char)
  BY <1>3, <1>7
<1> QED BY <1>5, <1>6, <1>8 DEF F

(* What one more character adds.                                           *)
LEMMA SaidGoes ==
  ASSUME NEW s \in Seq(Char), NEW n \in 1..Len(s)
  PROVE  /\ Said(s, n - 1) \in Seq(Char)
         /\ Said(s, n) = IF s[n] \in Others THEN Said(s, n - 1) ELSE Append(Said(s, n - 1), s[n])
<1> DEFINE f == CHOOSE f : SaidFrom(s, n, f)
           g == CHOOSE g : SaidFrom(s, n - 1, g)
<1>1. n \in 0..Len(s) /\ n - 1 \in 0..Len(s) /\ n - 1 \in 0..(n - 1) /\ n - 1 \in Nat
  OBVIOUS
<1>2. SaidFrom(s, n, f) /\ Said(s, n) = f[n]
  BY <1>1, SaidExists
<1>3. SaidFrom(s, n - 1, g) /\ Said(s, n - 1) = g[n - 1] /\ g[n - 1] \in Seq(Char)
  BY <1>1, SaidExists
<1> HIDE DEF f, g
<1>4. f[n - 1] = g[n - 1]
  <2>1. n \in Nat /\ n - 1 \in Nat /\ n - 1 <= n
    OBVIOUS
  <2>2. \A k \in 0..(n - 1) : g[k] = f[k]
    BY <1>2, <1>3, <2>1, SaidOnce
  <2> QED BY <1>1, <2>2, Zenon
<1>5. f[n] = IF s[n] \in Others THEN f[n - 1] ELSE Append(f[n - 1], s[n])
  BY <1>1, <1>2, SaidSteps
<1> QED BY <1>2, <1>3, <1>4, <1>5

LEMMA SaidNothing == ASSUME NEW s \in Seq(Char) PROVE Said(s, 0) = <<>>
<1> DEFINE f == CHOOSE f : SaidFrom(s, 0, f)
<1>1. SaidFrom(s, 0, f) /\ Said(s, 0) = f[0]
  BY SaidExists
<1> HIDE DEF f
<1> QED BY <1>1 DEF SaidFrom

(* Characters none of which is ignored are said as they stand.             *)
LEMMA SaidRun ==
  ASSUME NEW s \in Seq(Char), NEW a \in Nat, NEW b \in Nat, a <= b, b <= Len(s),
         \A k \in (a + 1)..b : s[k] \notin Others
  PROVE  Said(s, b) = Said(s, a) \o SubSeq(s, a + 1, b)
<1> DEFINE T == {c \in a..b : Said(s, c) = Said(s, a) \o SubSeq(s, a + 1, c)}
<1>0. Said(s, a) \in Seq(Char) /\ Len(s) \in Nat
  <2>1. CASE a = 0
    <3>1. Said(s, 0) = <<>>
      BY SaidNothing
    <3>2. Said(s, a) = <<>>
      BY <2>1, <3>1, Zenon
    <3>3. <<>> \in Seq(Char) /\ Len(s) \in Nat
      OBVIOUS
    <3> QED BY <3>2, <3>3, Zenon
  <2>2. CASE a # 0
    <3> DEFINE f == CHOOSE f : SaidFrom(s, a, f)
    <3>1. a \in 0..Len(s) /\ a \in 0..a
      OBVIOUS
    <3>2. Said(s, a) = f[a] /\ f[a] \in Seq(Char)
      BY <3>1, SaidExists
    <3> HIDE DEF f
    <3> QED BY <3>2
  <2> QED BY <2>1, <2>2
<1>1. a \in T
  <2>1. SubSeq(s, a + 1, a) = <<>>
    BY <1>0
  <2>2. Said(s, a) \o <<>> = Said(s, a)
    BY <1>0, ConcatEmptySeq
  <2>3. Said(s, a) = Said(s, a) \o SubSeq(s, a + 1, a)
    BY <2>1, <2>2, Zenon
  <2>4. a \in a..b
    OBVIOUS
  <2> QED BY <2>3, <2>4, Zenon
<1>2. ASSUME NEW c \in a..(b - 1), c \in T PROVE c + 1 \in T
  <2>1. c \in Nat /\ c + 1 \in 1..Len(s) /\ c + 1 \in (a + 1)..b /\ c + 1 - 1 = c /\ c + 1 \in a..b
    BY <1>0
  <2>2. Said(s, c + 1) = Append(Said(s, c), s[c + 1])
    BY <2>1, SaidGoes
  <2>3. SubSeq(s, a + 1, c + 1) = Append(SubSeq(s, a + 1, c), s[c + 1])
    BY <2>1
  <2>4. Said(s, c) = Said(s, a) \o SubSeq(s, a + 1, c)
    BY <1>2
  <2>5. Said(s, a) \in Seq(Char) /\ SubSeq(s, a + 1, c) \in Seq(Char) /\ s[c + 1] \in Char
    BY <1>0, <2>1
  <2>6. Append(Said(s, a) \o SubSeq(s, a + 1, c), s[c + 1])
          = Said(s, a) \o Append(SubSeq(s, a + 1, c), s[c + 1])
    <3> DEFINE A == Said(s, a)
               B == SubSeq(s, a + 1, c)
               x == s[c + 1]
    <3>1. A \in Seq(Char) /\ B \in Seq(Char) /\ x \in Char
      BY <2>5
    <3>2. Append(A \o B, x) = A \o Append(B, x)
      <4> HIDE DEF A, B, x
      <4>1. <<x>> \in Seq(Char) /\ A \o B \in Seq(Char)
        BY <3>1, ConcatProperties
      <4>2. Append(A \o B, x) = (A \o B) \o <<x>> /\ Append(B, x) = B \o <<x>>
        BY <3>1, <4>1, AppendIsConcat
      <4>3. (A \o B) \o <<x>> = A \o (B \o <<x>>)
        BY <3>1, <4>1, ConcatAssociative
      <4> QED BY <4>2, <4>3, Zenon
    <3> QED BY <3>2
  <2>7. Said(s, c + 1) = Said(s, a) \o SubSeq(s, a + 1, c + 1)
    BY <2>2, <2>3, <2>4, <2>6, Zenon
  <2> QED BY <2>1, <2>7
<1> HIDE DEF T
<1>3. a..b \subseteq T
  BY <1>1, <1>2, UpTo
<1>4. b \in T
  BY <1>3
<1> QED BY <1>4 DEF T

SpelledFrom(ts, m, f) ==
  f = [k \in 0..m |-> IF k = 0 THEN <<>> ELSE f[k - 1] \o SpellingOf(ts[k])]

WellSpelled(ts) == \A k \in DOMAIN ts : SpellingOf(ts[k]) \in Seq(Char)

LEMMA SpelledSteps ==
  ASSUME NEW ts, NEW m \in Nat, NEW f, SpelledFrom(ts, m, f)
  PROVE  f[0] = <<>> /\ \A k \in 1..m : f[k] = f[k - 1] \o SpellingOf(ts[k])
<1>1. 0 \in 0..m /\ \A k \in 1..m : k \in 0..m /\ k # 0
  OBVIOUS
<1>2. \A k \in 0..m : f[k] = IF k = 0 THEN <<>> ELSE f[k - 1] \o SpellingOf(ts[k])
  BY Zenon DEF SpelledFrom
<1> QED BY <1>1, <1>2, Zenon

Alike(ts, us, m) == \A k \in 1..m : ts[k] = us[k]

LEMMA SpelledOnce ==
  ASSUME NEW ts, NEW us, NEW m \in Nat, NEW n \in Nat, m <= n, Alike(ts, us, m),
         NEW f, NEW g, SpelledFrom(ts, m, f), SpelledFrom(us, n, g)
  PROVE  \A k \in 0..m : f[k] = g[k]
<1>1. f[0] = g[0]
  <2>1. f[0] = <<>>
    BY SpelledSteps
  <2>2. g[0] = <<>>
    BY SpelledSteps
  <2> QED BY <2>1, <2>2
<1>2. \A k \in 1..m : f[k - 1] = g[k - 1] => f[k] = g[k]
  <2>1. \A k \in 1..m : k \in 1..n
    OBVIOUS
  <2>2. \A k \in 1..m : f[k] = f[k - 1] \o SpellingOf(ts[k])
    BY SpelledSteps
  <2>3. \A k \in 1..n : g[k] = g[k - 1] \o SpellingOf(us[k])
    BY SpelledSteps
  <2> QED BY <2>1, <2>2, <2>3 DEF Alike
<1> QED BY <1>1, <1>2, SameSoFar

LEMMA SpelledExists ==
  ASSUME NEW ts, Len(ts) \in Nat, DOMAIN ts = 1..Len(ts), WellSpelled(ts)
  PROVE  LET f == CHOOSE f : SpelledFrom(ts, Len(ts), f)
         IN  /\ SpelledFrom(ts, Len(ts), f) /\ Spelled(ts, Len(ts)) = f[Len(ts)]
             /\ Spelled(ts, Len(ts)) \in Seq(Char)
<1> DEFINE m == Len(ts)
           step == [k \in 1..m |-> [d \in Seq(Char) |-> d \o SpellingOf(ts[k])]]
           F == CHOOSE f : SpelledFrom(ts, m, f)
<1>1. m \in Nat /\ <<>> \in Seq(Char) /\ \A k \in 1..m : SpellingOf(ts[k]) \in Seq(Char)
  BY DEF WellSpelled
<1> HIDE DEF m
<1>2. \A k \in 1..m : \A d \in Seq(Char) : step[k][d] \in Seq(Char)
  BY <1>1, ConcatProperties
<1>3. PICK f : /\ f \in [0..m -> Seq(Char)] /\ f[0] = <<>>
               /\ \A k \in 1..m : f[k] = step[k][f[k - 1]]
  <2> DEFINE D == Seq(Char)
  <2>1. m \in Nat /\ <<>> \in D /\ Keeps(step, D, m)
    BY <1>1, <1>2 DEF Keeps
  <2>2. \E f \in [0..m -> D] : Runs(f, step, <<>>, m)
    <3> HIDE DEF D, step
    <3> QED BY <2>1, Recursive
  <2> HIDE DEF step
  <2> QED BY <2>2 DEF Runs
<1>4. SpelledFrom(ts, m, f)
  <2> DEFINE h == [k \in 0..m |-> IF k = 0 THEN <<>> ELSE f[k - 1] \o SpellingOf(ts[k])]
  <2>1. \A k \in 1..m : f[k - 1] \in Seq(Char)
    BY <1>1, <1>3
  <2>2. \A k \in 0..m : h[k] = f[k]
    <3> SUFFICES ASSUME NEW k \in 0..m PROVE h[k] = f[k]
      OBVIOUS
    <3>1. CASE k = 0
      BY <1>3, <3>1
    <3>2. CASE k # 0
      <4>1. k \in 1..m /\ f[k - 1] \in Seq(Char) /\ f[k] = step[k][f[k - 1]]
        <5>1. k \in 1..m
          BY <1>1, <3>2
        <5> HIDE DEF step
        <5> QED BY <1>3, <2>1, <5>1
      <4>2. step[k][f[k - 1]] = f[k - 1] \o SpellingOf(ts[k])
        BY <4>1
      <4>3. h[k] = f[k - 1] \o SpellingOf(ts[k])
        BY <3>2
      <4> QED BY <4>1, <4>2, <4>3, Zenon
    <3> QED BY <3>1, <3>2
  <2>3. f = [k \in 0..m |-> f[k]] /\ h = [k \in 0..m |-> h[k]]
    BY <1>3
  <2>4. h = f
    <3> HIDE DEF h
    <3> QED BY <2>2, <2>3
  <2> QED BY <2>4 DEF SpelledFrom
<1>5. SpelledFrom(ts, m, F)
  BY <1>4
<1>6. Spelled(ts, m) = F[m]
  BY DEF Spelled, SpelledFrom
<1> HIDE DEF F, step
<1>7. \A k \in 0..m : F[k] = f[k]
  <2>1. Alike(ts, ts, m)
    BY DEF Alike
  <2> QED BY <1>1, <1>4, <1>5, <2>1, SpelledOnce
<1>8. F[m] \in Seq(Char)
  BY <1>1, <1>3, <1>7
<1> QED BY <1>5, <1>6, <1>8 DEF F, m

(* What one more token adds.                                               *)
LEMMA SpelledGoes ==
  ASSUME NEW ts \in Seq(Token), NEW t \in Token, WellSpelled(ts), SpellingOf(t) \in Seq(Char)
  PROVE  /\ WellSpelled(Append(ts, t))
         /\ Spelled(Append(ts, t), Len(Append(ts, t))) = Spelled(ts, Len(ts)) \o SpellingOf(t)
         /\ Spelled(ts, Len(ts)) \in Seq(Char)
<1> DEFINE us == Append(ts, t)
           n == Len(ts)
           p == Len(us)
           f == CHOOSE f : SpelledFrom(ts, n, f)
           g == CHOOSE g : SpelledFrom(us, p, g)
<1>1. /\ n \in Nat /\ p \in Nat /\ n <= p /\ p - 1 = n /\ p \in 1..p /\ n \in 0..n
      /\ us[p] = t /\ \A k \in 1..n : ts[k] = us[k]
      /\ DOMAIN ts = 1..n /\ DOMAIN us = 1..p /\ \A k \in 1..p : k = p \/ k \in 1..n
  OBVIOUS
<1> HIDE DEF us, n, p
<1>2. WellSpelled(us)
  BY <1>1 DEF WellSpelled
<1>3. SpelledFrom(ts, n, f) /\ Spelled(ts, n) = f[n] /\ Spelled(ts, n) \in Seq(Char)
  BY <1>1, SpelledExists DEF n
<1>4. SpelledFrom(us, p, g) /\ Spelled(us, p) = g[p]
  BY <1>1, <1>2, SpelledExists DEF p
<1> HIDE DEF f, g
<1>5. f[n] = g[n]
  <2>1. Alike(ts, us, n)
    BY <1>1 DEF Alike
  <2>2. \A k \in 0..n : f[k] = g[k]
    BY <1>1, <1>3, <1>4, <2>1, SpelledOnce
  <2> QED BY <1>1, <2>2
<1>6. g[p] = g[n] \o SpellingOf(t)
  <2>1. \A k \in 1..p : g[k] = g[k - 1] \o SpellingOf(us[k])
    BY <1>1, <1>4, SpelledSteps
  <2>2. g[p] = g[p - 1] \o SpellingOf(us[p])
    BY <1>1, <2>1
  <2> QED BY <1>1, <2>2, Zenon
<1>7. Spelled(us, p) = Spelled(ts, n) \o SpellingOf(t)
  BY <1>3, <1>4, <1>5, <1>6, Zenon
<1> QED BY <1>2, <1>3, <1>7 DEF us, n, p

LEMMA SpelledNothing == Spelled(<<>>, 0) = <<>>
<1> DEFINE f == CHOOSE f : SpelledFrom(<<>>, 0, f)
<1>1. SpelledFrom(<<>>, 0, f) /\ Spelled(<<>>, 0) = f[0]
  <2>1. Len(<<>>) = 0 /\ DOMAIN <<>> = 1..0
    OBVIOUS
  <2>2. WellSpelled(<<>>)
    BY <2>1 DEF WellSpelled
  <2>3. \A ts : ts = <<>> => Len(ts) \in Nat /\ DOMAIN ts = 1..Len(ts) /\ Len(ts) = 0
    OBVIOUS
  <2> QED BY <2>1, <2>2, <2>3, SpelledExists
<1> HIDE DEF f
<1> QED BY <1>1, SpelledSteps
-----------------------------------------------------------------------------
(* The spelling of a token gives back what the token was made from.        *)

(* No two symbols are of one type.                                         *)
LEMMA SymbolsDiffer == \A s, t \in DOMAIN Symbol : Symbol[s] = Symbol[t] => s = t
<1>1. DOMAIN Symbol = Spellings
  BY DEF Symbol
<1>2. ASSUME NEW s \in Spellings
      PROVE  \/ s = <<"(">>
             \/ s = <<")">>
             \/ s = <<";">>
             \/ s = <<",">>
             \/ s = <<"+">>
             \/ s = <<"*">>
             \/ s = <<"/">>
             \/ s = <<"-">>
             \/ s = <<"{">>
             \/ s = <<"}">>
             \/ s = <<"=">>
             \/ s = <<"=", "=">>
             \/ s = <<"<">>
             \/ s = <<"<", "=">>
             \/ s = <<">">>
             \/ s = <<">", "=">>
             \/ s = <<"!", "=">>
  BY DEF Spellings, SymbolChars
<1>3. /\ Symbol[<<"(">>] = "open_paren"
      /\ Symbol[<<")">>] = "close_paren"
      /\ Symbol[<<";">>] = "semi"
      /\ Symbol[<<",">>] = "comma"
      /\ Symbol[<<"+">>] = "plus"
      /\ Symbol[<<"*">>] = "multi"
      /\ Symbol[<<"/">>] = "divide"
      /\ Symbol[<<"-">>] = "minus"
      /\ Symbol[<<"{">>] = "open_braces"
      /\ Symbol[<<"}">>] = "close_braces"
      /\ Symbol[<<"=">>] = "eq_kw"
      /\ Symbol[<<"=", "=">>] = "cmp"
      /\ Symbol[<<"<">>] = "less"
      /\ Symbol[<<"<", "=">>] = "less_eq"
      /\ Symbol[<<">">>] = "more"
      /\ Symbol[<<">", "=">>] = "more_eq"
      /\ Symbol[<<"!", "=">>] = "not_eq"
  BY <1>1 DEF Symbol, Spellings, SymbolChars
<1>4. ASSUME NEW s \in Spellings, NEW t \in Spellings, Symbol[s] = Symbol[t] PROVE s = t
  <2>1. CASE s = <<"(">>
    BY <1>2, <1>3, <1>4, <2>1, Zenon
  <2>2. CASE s = <<")">>
    BY <1>2, <1>3, <1>4, <2>2, Zenon
  <2>3. CASE s = <<";">>
    BY <1>2, <1>3, <1>4, <2>3, Zenon
  <2>4. CASE s = <<",">>
    BY <1>2, <1>3, <1>4, <2>4, Zenon
  <2>5. CASE s = <<"+">>
    BY <1>2, <1>3, <1>4, <2>5, Zenon
  <2>6. CASE s = <<"*">>
    BY <1>2, <1>3, <1>4, <2>6, Zenon
  <2>7. CASE s = <<"/">>
    BY <1>2, <1>3, <1>4, <2>7, Zenon
  <2>8. CASE s = <<"-">>
    BY <1>2, <1>3, <1>4, <2>8, Zenon
  <2>9. CASE s = <<"{">>
    BY <1>2, <1>3, <1>4, <2>9, Zenon
  <2>10. CASE s = <<"}">>
    BY <1>2, <1>3, <1>4, <2>10, Zenon
  <2>11. CASE s = <<"=">>
    BY <1>2, <1>3, <1>4, <2>11, Zenon
  <2>12. CASE s = <<"=", "=">>
    BY <1>2, <1>3, <1>4, <2>12, Zenon
  <2>13. CASE s = <<"<">>
    BY <1>2, <1>3, <1>4, <2>13, Zenon
  <2>14. CASE s = <<"<", "=">>
    BY <1>2, <1>3, <1>4, <2>14, Zenon
  <2>15. CASE s = <<">">>
    BY <1>2, <1>3, <1>4, <2>15, Zenon
  <2>16. CASE s = <<">", "=">>
    BY <1>2, <1>3, <1>4, <2>16, Zenon
  <2>17. CASE s = <<"!", "=">>
    BY <1>2, <1>3, <1>4, <2>17, Zenon
  <2> QED BY <1>2, <2>1, <2>2, <2>3, <2>4, <2>5, <2>6, <2>7, <2>8, <2>9, <2>10, <2>11, <2>12, <2>13, <2>14, <2>15, <2>16, <2>17
<1> QED BY <1>1, <1>4

LEMMA SymbolNoWord == \A w \in DOMAIN Keyword : w \notin DOMAIN Symbol
<1>1. DOMAIN Symbol = Spellings
  BY DEF Symbol
<1>2. ASSUME NEW s \in Spellings PROVE \E c \in SymbolChars : s = <<c>> \/ s = <<c, "=">>
  <2>1. {"=", "<", ">", "!"} \subseteq SymbolChars
    BY DEF SymbolChars
  <2> HIDE DEF SymbolChars
  <2> QED BY <2>1 DEF Spellings
<1>3. ASSUME NEW w \in Seq(Alnum), NEW c \in SymbolChars, w = <<c>> \/ w = <<c, "=">> PROVE FALSE
  <2>1. w[1] = c /\ 1 \in 1..Len(w)
    BY <1>3
  <2>2. c \in Alnum
    BY <2>1
  <2>3. c \notin Alnum
    <3> HIDE DEF SymbolChars
    <3> QED BY ClassesAssumption DEF Alnum
  <2> QED BY <2>2, <2>3
<1> QED BY <1>1, <1>2, <1>3, KeywordAssumption

LEMMA SpellingOfFixed ==
  ASSUME NEW s \in DOMAIN Symbol \cup DOMAIN Keyword, NEW type,
         IF s \in DOMAIN Symbol THEN Symbol[s] = type ELSE Keyword[s] = type
  PROVE  SpellingOf(Tok(type)) = s
<1> DEFINE P(x) == IF x \in DOMAIN Symbol THEN Symbol[x] = type ELSE Keyword[x] = type
           C    == DOMAIN Symbol \cup DOMAIN Keyword
<1>1. ASSUME NEW x \in C, P(x) PROVE x = s
  <2>1. CASE x \in DOMAIN Symbol /\ s \in DOMAIN Symbol
    BY <1>1, <2>1, SymbolsDiffer
  <2>2. CASE x \notin DOMAIN Symbol /\ s \notin DOMAIN Symbol
    BY <1>1, <2>2, KeywordAssumption
  <2>3. CASE x \in DOMAIN Symbol /\ s \notin DOMAIN Symbol
    BY <1>1, <2>3, KeywordAssumption
  <2>4. CASE x \notin DOMAIN Symbol /\ s \in DOMAIN Symbol
    BY <1>1, <2>4, KeywordAssumption
  <2> QED BY <2>1, <2>2, <2>3, <2>4
<1>2. SpellingOf(Tok(type)) = CHOOSE x \in C : P(x)
  BY DEF SpellingOf, Tok
<1>3. s \in C /\ P(s)
  OBVIOUS
<1> HIDE DEF P, C
<1> QED BY <1>1, <1>2, <1>3

LEMMA SpellingOfValue ==
  ASSUME NEW type, NEW v, v # <<>>
  PROVE  SpellingOf(ValueTok(type, v)) = v
BY DEF SpellingOf, ValueTok

LEMMA SpellingOfWord ==
  ASSUME NEW w, w # <<>>
  PROVE  SpellingOf(WordTok(w)) = w
<1>1. CASE w \in DOMAIN Keyword
  <2>1. w \notin DOMAIN Symbol /\ WordTok(w) = Tok(Keyword[w])
    BY <1>1, SymbolNoWord DEF WordTok
  <2> QED BY <1>1, <2>1, SpellingOfFixed
<1>2. CASE w \notin DOMAIN Keyword
  BY <1>2, SpellingOfValue DEF WordTok
<1> QED BY <1>1, <1>2
-----------------------------------------------------------------------------
(* The tokens so far say what the text says up to the current lexeme.      *)
Faithful  == WellSpelled(tokens) /\ Spelled(tokens, Len(tokens)) = Said(m_src, from)
Innocent  == Plain(m_src) /\ Short(m_src)
TextInv   == (loop = "done" => Peek(0) = Invalid) /\ (Innocent => Faithful)

(* No lexeme of such a text is longer than the buffer.                     *)
LEMMA LexemeFits ==
  ASSUME TokenizerInv, Short(m_src), NEW S, NEW First, Collecting(S, First), S \subseteq Alnum
  PROVE  m_buf = SubSeq(m_src, from + 1, m_index) /\ m_buf # <<>> /\ from < m_index
<1>1. /\ from \in Nat /\ m_index \in Nat /\ from < m_index /\ m_index <= Len(m_src)
      /\ m_src \in Seq(Char) /\ Len(m_src) \in Nat /\ BufSize \in Nat
      /\ m_buf = Cut(m_src, from, m_index) /\ \A k \in (from + 1)..m_index : m_src[k] \in S
  BY BufSizeAssumption DEF TokenizerInv, TypeOK, Collecting
<1>2. m_index - from < BufSize
  <2> SUFFICES ASSUME m_index - from >= BufSize PROVE FALSE
    BY <1>1
  <2> DEFINE i == from + BufSize
  <2>1. i \in DOMAIN m_src /\ i >= BufSize /\ i - BufSize + 1 = from + 1 /\ i <= m_index
    BY <1>1, BufSizeAssumption
  <2> HIDE DEF i
  <2>2. PICK k \in (from + 1)..i : m_src[k] \notin Alnum
    BY <2>1 DEF Short
  <2>3. k \in (from + 1)..m_index
    BY <1>1, <2>1
  <2> QED BY <1>1, <2>2, <2>3
<1>3. m_buf = SubSeq(m_src, from + 1, m_index)
  BY <1>1, <1>2 DEF Cut
<1>4. Len(SubSeq(m_src, from + 1, m_index)) = m_index - from
  BY <1>1
<1>5. m_buf # <<>>
  <2>1. Len(m_buf) > 0
    BY <1>1, <1>3, <1>4
  <2> QED BY <2>1
<1> QED BY <1>1, <1>3, <1>5

(* A token is pushed that spells the lexeme from from to from'.            *)
LEMMA PushFaithful ==
  ASSUME TokenizerInv, Faithful, NEW t \in Token, tokens' = Append(tokens, t), m_src' = m_src,
         NEW e \in Nat, from' = e, from <= e, e <= Len(m_src),
         SpellingOf(t) = SubSeq(m_src, from + 1, e),
         \A k \in (from + 1)..e : m_src[k] \notin Others
  PROVE  Faithful'
<1>1. m_src \in Seq(Char) /\ tokens \in Seq(Token) /\ from \in Nat /\ Len(m_src) \in Nat
  BY DEF TokenizerInv, TypeOK
<1>2. SpellingOf(t) \in Seq(Char)
  <2>1. SubSeq(m_src, from + 1, e) \in Seq(Char)
    BY <1>1
  <2> QED BY <2>1
<1>3. WellSpelled(tokens') /\ Spelled(tokens', Len(tokens')) = Spelled(tokens, Len(tokens)) \o SpellingOf(t)
  BY <1>1, <1>2, SpelledGoes DEF Faithful
<1>4. Said(m_src, e) = Said(m_src, from) \o SubSeq(m_src, from + 1, e)
  BY <1>1, SaidRun
<1>5. Spelled(tokens', Len(tokens')) = Said(m_src', from')
  BY <1>3, <1>4, Zenon DEF Faithful
<1> QED BY <1>3, <1>5 DEF Faithful

LEMMA TextStep == TokenizerInv /\ TextInv /\ [Next]_vars => TextInv'
<1> SUFFICES ASSUME TokenizerInv, TextInv, [Next]_vars PROVE TextInv'
  OBVIOUS
<1>a. /\ m_src \in Seq(Char) /\ Len(m_src) \in Nat /\ from \in Nat /\ m_index \in Nat
      /\ from <= m_index /\ m_index <= Len(m_src) /\ m_src' = m_src
  BY DEF TokenizerInv, TypeOK, Next, Step, Ended, vars, StartWord, MoreWord, EndWord, StartNumber,
     MoreNumber, EndNumber, GenPair, GenSingle, GenCharacter, Ignore, Turn, Exit, Return
<1>b. Innocent' = Innocent
  BY <1>a DEF Innocent, Plain, Short
<1>1. ASSUME tokens' = tokens, from' = from, loop' # "done" PROVE TextInv'
  BY <1>1, <1>a, <1>b DEF TextInv, Faithful
<1>2. ASSUME NEW S, NEW First, Collecting(S, First), S \subseteq Alnum, Innocent,
             NEW t \in Token, \A w : w # <<>> /\ w = m_buf => SpellingOf(t) = w,
             tokens' = Append(tokens, t), from' = m_index
      PROVE  Faithful'
  <2>1. m_buf = SubSeq(m_src, from + 1, m_index) /\ m_buf # <<>> /\ from < m_index
    BY <1>2, LexemeFits DEF Innocent
  <2>2. SpellingOf(t) = SubSeq(m_src, from + 1, m_index)
    BY <1>2, <2>1, Zenon
  <2>3. \A k \in (from + 1)..m_index : m_src[k] \notin Others
    BY <1>2, ClassesAssumption DEF Collecting, Alnum
  <2> QED BY <1>2, <1>a, <2>2, <2>3, PushFaithful DEF TextInv
<1>3. ASSUME NEW s \in DOMAIN Symbol, NEW n \in {1, 2}, loop = "outer", Innocent,
             m_index + n <= Len(m_src), s = SubSeq(m_src, m_index + 1, m_index + n),
             \A k \in (m_index + 1)..(m_index + n) : m_src[k] \in SymbolChars,
             tokens' = Append(tokens, Tok(Symbol[s])), from' = m_index + n
      PROVE  Faithful'
  <2>1. from = m_index
    BY <1>3 DEF TokenizerInv, LexemeInv
  <2>2. SpellingOf(Tok(Symbol[s])) = SubSeq(m_src, from + 1, m_index + n)
    BY <1>3, <2>1, SpellingOfFixed
  <2>3. \A k \in (from + 1)..(m_index + n) : m_src[k] \notin Others
    BY <1>3, <2>1, Classes
  <2>4. Tok(Symbol[s]) \in Token /\ m_index + n \in Nat /\ from <= m_index + n
    BY <1>a, <2>1, TokenForms
  <2> QED BY <1>3, <1>a, <2>2, <2>3, <2>4, PushFaithful DEF TextInv
<1>4. CASE StartWord \/ StartNumber
  <2>1. loop = "outer" /\ tokens' = tokens /\ from' = m_index /\ loop' # "done"
    BY <1>4 DEF StartWord, StartNumber
  <2>2. from' = from
    BY <2>1 DEF TokenizerInv, LexemeInv
  <2> QED BY <2>1, <2>2, <1>1
<1>5. CASE MoreWord \/ MoreNumber \/ Exit
  BY <1>5, <1>1 DEF MoreWord, MoreNumber, Exit
<1>6. CASE EndWord
  <2>1. Collecting(Alnum, Letters) /\ WordTok(m_buf) \in Token
    BY <1>6, TokenForms DEF EndWord, TokenizerInv, LexemeInv, TypeOK
  <2>2. tokens' = Append(tokens, WordTok(m_buf)) /\ from' = m_index /\ loop' # "done"
    BY <1>6 DEF EndWord, Push
  <2>3. Innocent => Faithful'
    BY <1>2, <2>1, <2>2, SpellingOfWord
  <2> QED BY <1>b, <2>2, <2>3 DEF TextInv
<1>7. CASE EndNumber
  <2>1. Collecting(Digits, Digits) /\ ValueTok("int_lit", m_buf) \in Token /\ Digits \subseteq Alnum
    BY <1>7, TokenForms, Classes DEF EndNumber, TokenizerInv, LexemeInv, TypeOK
  <2>2. tokens' = Append(tokens, ValueTok("int_lit", m_buf)) /\ from' = m_index /\ loop' # "done"
    BY <1>7 DEF EndNumber, Push
  <2>3. Innocent => Faithful'
    BY <1>2, <2>1, <2>2, SpellingOfValue
  <2> QED BY <1>b, <2>2, <2>3 DEF TextInv
<1>8. CASE GenPair
  <2>1. loop = "outer" /\ loop' = loop /\ from' = Consumed(2)
    BY <1>8 DEF GenPair, Turn
  <2>2. Peek(0) \in SymbolChars /\ Peek(1) = "=" /\ "=" \in SymbolChars
    BY <1>8, SymbolSpellings, Classes DEF GenPair, PairAhead
  <2>3. Peek(0) # Invalid /\ Peek(1) # Invalid
    BY <2>2, Classes
  <2>4. /\ m_index + 2 <= Len(m_src) /\ from' = m_index + 2
        /\ Peek(0) = m_src[m_index + 1] /\ Peek(1) = m_src[m_index + 2]
    BY <1>a, <2>1, <2>3, PeekForms DEF TokenizerInv, Consumed
  <2>5. SubSeq(m_src, m_index + 1, m_index + 2) = <<Peek(0), Peek(1)>>
    <3>1. from = m_index /\ m_index + 1 < Len(m_src)
      BY <1>a, <2>1, <2>4 DEF TokenizerInv, LexemeInv
    <3> QED BY <3>1, LexerView, Zenon DEF Promise!Here
  <2>6. \A k \in (m_index + 1)..(m_index + 2) : m_src[k] \in SymbolChars
    <3>1. \A k \in (m_index + 1)..(m_index + 2) : k = m_index + 1 \/ k = m_index + 2
      BY <1>a
    <3> QED BY <2>2, <2>4, <3>1
  <2>7. Innocent => Faithful'
    BY <1>3, <1>8, <2>1, <2>4, <2>5, <2>6 DEF GenPair, PairAhead, Push
  <2> QED BY <1>b, <2>1, <2>7 DEF TextInv
<1>9. CASE GenSingle
  <2>1. loop = "outer" /\ loop' = loop /\ from' = Consumed(1)
    BY <1>9 DEF GenSingle, Turn
  <2>2. Peek(0) \in SymbolChars
    BY <1>9, SymbolSpellings DEF GenSingle
  <2>3. Peek(0) # Invalid
    BY <2>2, Classes
  <2>4. m_index + 1 <= Len(m_src) /\ from' = m_index + 1 /\ Peek(0) = m_src[m_index + 1]
    BY <1>a, <2>1, <2>3, PeekForms DEF TokenizerInv, Consumed
  <2>5. SubSeq(m_src, m_index + 1, m_index + 1) = <<Peek(0)>>
    <3>1. from = m_index /\ m_index < Len(m_src)
      BY <1>a, <2>1, <2>4 DEF TokenizerInv, LexemeInv
    <3> QED BY <3>1, LexerView, Zenon DEF Promise!Here
  <2>6. \A k \in (m_index + 1)..(m_index + 1) : m_src[k] \in SymbolChars
    BY <1>a, <2>2, <2>4
  <2>7. Innocent => Faithful'
    BY <1>3, <1>9, <2>1, <2>4, <2>5, <2>6 DEF GenSingle, Push
  <2> QED BY <1>b, <2>1, <2>7 DEF TextInv
<1>10. CASE GenCharacter
  <2>1. loop = "outer" /\ loop' = loop /\ Peek(0) = Quote
    BY <1>10 DEF GenCharacter, Turn
  <2>2. m_index + 1 \in DOMAIN m_src /\ m_src[m_index + 1] = Quote
    BY <1>a, <2>1, PeekForms, Classes DEF TokenizerInv
  <2>3. ~Innocent
    BY <2>2 DEF Innocent, Plain
  <2> QED BY <1>b, <2>1, <2>3 DEF TextInv
<1>11. CASE Ignore
  <2>1. /\ loop = "outer" /\ loop' = loop /\ from' = Consumed(1) /\ tokens' = tokens
        /\ Peek(0) \in Others /\ Peek(0) # Invalid
    BY <1>11, Classes DEF Ignore, Turn
  <2>2. /\ from = m_index /\ m_index + 1 \in 1..Len(m_src) /\ from' = m_index + 1
        /\ m_src[m_index + 1] \in Others /\ m_index + 1 - 1 = m_index
    BY <1>a, <2>1, PeekForms DEF TokenizerInv, LexemeInv, Consumed
  <2>3. Said(m_src, m_index + 1) = Said(m_src, m_index)
    BY <1>a, <2>2, SaidGoes
  <2>4. Faithful => Faithful'
    BY <1>a, <2>1, <2>2, <2>3 DEF Faithful
  <2> QED BY <1>b, <2>1, <2>4 DEF TextInv
<1>12. CASE Return
  BY <1>12, <1>b DEF Return, TextInv, Faithful, Peek
<1>13. CASE UNCHANGED vars
  BY <1>13, <1>b DEF vars, TextInv, Faithful, Peek
<1> QED
  BY <1>4, <1>5, <1>6, <1>7, <1>8, <1>9, <1>10, <1>11, <1>12, <1>13 DEF Next, Step, Ended

LEMMA TextStart == Init => TextInv
<1> SUFFICES ASSUME Init PROVE TextInv
  OBVIOUS
<1>1. m_src \in Seq(Char) /\ from = 0 /\ tokens = <<>> /\ loop = "outer"
  BY SourcesAssumption DEF Init
<1>2. Said(m_src, from) = <<>> /\ Len(tokens) = 0
  BY <1>1, SaidNothing
<1>3. Spelled(tokens, Len(tokens)) = <<>>
  BY <1>1, <1>2, SpelledNothing
<1>4. WellSpelled(tokens)
  BY <1>1 DEF WellSpelled
<1> QED BY <1>1, <1>2, <1>3, <1>4 DEF TextInv, Faithful

(* Nothing of a text is lost, doubled or moved on its way into tokens: the *)
(* spellings of what tokenize returns are the text without the characters  *)
(* it ignores.  The buffer limits this to texts whose words and numbers    *)
(* fit in it, and the three characters taken behind a quote to texts       *)
(* without character literals.                                             *)
THEOREM TextKept == Spec => []NothingLost
<1>1. ASSUME TokenizerInv, TextInv PROVE NothingLost
  <2> SUFFICES ASSUME loop = "done", Innocent
               PROVE  Spelled(tokens, Len(tokens)) = Said(m_src, Len(m_src))
    BY DEF NothingLost, Innocent
  <2>1. Peek(0) = Invalid /\ from = m_index /\ Faithful
    BY <1>1 DEF TextInv, TokenizerInv, LexemeInv
  <2>2. m_index \in Nat /\ Len(m_src) \in Nat /\ m_index <= Len(m_src) /\ m_src \in Seq(Char)
    BY <1>1 DEF TokenizerInv, TypeOK
  <2>3. m_index = Len(m_src)
    <3> SUFFICES ASSUME m_index < Len(m_src) PROVE FALSE
      BY <2>2
    <3>1. m_src[m_index + 1] = Invalid /\ m_index + 1 \in DOMAIN m_src
      BY <1>1, <2>1, <2>2, PeekForms DEF TokenizerInv
    <3> QED BY <3>1 DEF Innocent, Plain
  <2> QED BY <2>1, <2>3 DEF Faithful
<1> QED BY InitInv, NextInv, TextStart, TextStep, <1>1, PTL DEF Spec
=============================================================================
