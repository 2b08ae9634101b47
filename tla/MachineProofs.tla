---------------------------- MODULE MachineProofs ----------------------------
(***************************************************************************)
(* Theorems about the texts that are emitted, for every program that       *)
(* compiles: they are levelled, so that every compiled program keeps its   *)
(* stack.                                                                  *)
(***************************************************************************)
EXTENDS Machine, ProcessorProofs, SequenceTheorems

-----------------------------------------------------------------------------
(* Sequences of whatever.                                                  *)
Listing(s) == s \in Seq({s[i] : i \in 1..Len(s)})

LEMMA ListingFacts ==
  ASSUME NEW s, Listing(s)
  PROVE  Len(s) \in Nat /\ DOMAIN s = 1..Len(s)
<1> QED BY DEF Listing

LEMMA ListingOf ==
  ASSUME NEW S, NEW s \in Seq(S)
  PROVE  Listing(s)
<1>1. Len(s) \in Nat /\ s \in [1..Len(s) -> S]
  BY LenProperties
<1>2. s \in [1..Len(s) -> {s[i] : i \in 1..Len(s)}]
  BY <1>1
<1> QED BY <1>1, <1>2, SeqDef DEF Listing

(* One behind the other.                                                   *)
LEMMA Behind ==
  ASSUME NEW s, NEW t, Listing(s), Listing(t)
  PROVE  /\ Listing(s \o t) /\ Len(s \o t) = Len(s) + Len(t)
         /\ \A i \in 1..Len(s) : (s \o t)[i] = s[i]
         /\ \A i \in 1..Len(t) : (s \o t)[Len(s) + i] = t[i]
<1> DEFINE S == {s[i] : i \in 1..Len(s)} \cup {t[i] : i \in 1..Len(t)}
<1>1. s \in Seq(S) /\ t \in Seq(S)
  BY SeqMonotonic DEF Listing
<1>2. Len(s) \in Nat /\ Len(t) \in Nat
  BY ListingFacts
<1> HIDE DEF S
<1>3. /\ s \o t \in Seq(S) /\ Len(s \o t) = Len(s) + Len(t)
      /\ \A i \in 1..(Len(s) + Len(t)) : (s \o t)[i] = IF i <= Len(s) THEN s[i] ELSE t[i - Len(s)]
  BY <1>1, ConcatProperties
<1>4. \A i \in 1..Len(s) : i \in 1..(Len(s) + Len(t)) /\ i <= Len(s)
  BY <1>2
<1>5. \A i \in 1..Len(t) : Len(s) + i \in 1..(Len(s) + Len(t)) /\ ~(Len(s) + i <= Len(s)) /\ Len(s) + i - Len(s) = i
  BY <1>2
<1>6. Listing(s \o t)
  BY <1>3, ListingOf
<1>7. \A i \in 1..Len(s) : (s \o t)[i] = s[i]
  BY <1>3, <1>4, Zenon
<1>8. \A i \in 1..Len(t) : (s \o t)[Len(s) + i] = t[i]
  BY <1>3, <1>5
<1> QED BY <1>3, <1>6, <1>7, <1>8

LEMMA Tuples ==
  ASSUME NEW a, NEW b, NEW c, NEW d
  PROVE  Listing(<<>>) /\ Listing(<<a>>) /\ Listing(<<a, b>>) /\ Listing(<<a, b, c>>) /\ Listing(<<a, b, c, d>>)
<1> DEFINE S == {a, b, c, d}
<1>1. <<>> \in Seq(S) /\ <<a>> \in Seq(S) /\ <<a, b>> \in Seq(S) /\ <<a, b, c>> \in Seq(S) /\ <<a, b, c, d>> \in Seq(S)
  OBVIOUS
<1> HIDE DEF S
<1> QED BY <1>1, ListingOf
-----------------------------------------------------------------------------
(* How the levels of a text are read off it.                               *)
MainBody == Level(TRUE, "body", 0, Unknown)
IsFunc(c) == c.op = "label" /\ c.tag = "func"

(* The level behind an instruction, and at the one that follows.           *)
Leads(c, v) == IF c.op = "ret" THEN MainBody ELSE After(c, v)
Meets(d, u) ==
  IF d.op # "label" THEN u ELSE IF d.tag = "func" THEN Callee ELSE [u EXCEPT !.rdi = Unknown]

(* Proper, but for what m_vars has to give.                                *)
Shaped(c) ==
  /\ c.op \in {"imm", "copy", "load", "store", "push", "pop", "jz"} => c.reg \in Registers
  /\ c.op = "imm" => c.width \in Widths
  /\ c.op = "copy" => c.from \in Registers
  /\ c.op \in {"imm", "addsp", "skip"} => c.value \in Int
  /\ c.op = "pop" => c.reg # "rsp"
  /\ c.op = "skip" => c.on \in {"always", "zero", "nonzero"}
  /\ c.op = "alu" => c.fn \in Operations

(* What is right about one instruction, at its level.                      *)
Right(c, v) ==
  /\ Allowed(c, v) /\ Shaped(c)
  /\ c.op = "label" /\ c.tag # "func" => v = MainBody
  /\ c.op \in {"jump", "jz"} => v.main /\ c.tag # "func"
  /\ v.main /\ c.op \in {"store", "label", "jump", "jz", "syscall"} => v.part = "body" /\ v.high = 0
  /\ c.op = "store" /\ c.reg = "rdi" => ~v.main /\ v.rdi = Argument
  /\ c.op = "call" => /\ c.tag = "func"
                      /\ 1 \in DOMAIN c.args /\ c.args[1].type = "int_lit" =>
                           c.args[1].value \in Int /\ v.rdi = Number(c.args[1].value)

(* And about its place: only a jump stands in front of a function, and a   *)
(* skip stays in the text and finds its own level there.                   *)
Placed(f, us, i) ==
  /\ IsFunc(f[i]) => i > 1 /\ f[i - 1].op = "jump"
  /\ f[i].op = "skip" =>
       /\ f[i].value \in Nat /\ i + f[i].value <= Len(f)
       /\ f[i + f[i].value].op \notin {"jump", "store", "syscall"}
       /\ Covers(us[i + f[i].value], After(f[i], Meets(f[i], us[i - 1])))

(* us has the level that is left by each instruction.                      *)
WalksAt(f, us, i) ==
  /\ us[i] = Leads(f[i], Meets(f[i], us[i - 1]))
  /\ us[i].high <= us[i - 1].high + 16
  /\ Right(f[i], Meets(f[i], us[i - 1]))
  /\ Placed(f, us, i)

Walks(f, us) ==
  /\ Listing(f) /\ us \in [0..Len(f) -> LevelType]
  /\ \A i \in 1..Len(f) : WalksAt(f, us, i)

(* A text that leads from one level to another.                            *)
Piece(f, v, w) == \E us : Walks(f, us) /\ us[0] = v /\ us[Len(f)] = w

LEMMA PieceType ==
  ASSUME NEW f, NEW v, NEW w, Piece(f, v, w)
  PROVE  Listing(f) /\ v \in LevelType /\ w \in LevelType /\ Len(f) \in Nat
<1>1. PICK us : Walks(f, us) /\ us[0] = v /\ us[Len(f)] = w
  BY DEF Piece
<1>2. Listing(f) /\ us \in [0..Len(f) -> LevelType]
  BY <1>1 DEF Walks
<1>3. Len(f) \in Nat
  BY <1>2, ListingFacts
<1>4. 0 \in 0..Len(f) /\ Len(f) \in 0..Len(f)
  BY <1>3
<1> QED BY <1>1, <1>2, <1>3, <1>4

(* An instruction is as right in one text as in another that is the same   *)
(* around it.                                                              *)
SameAround(f, us, i, h, ws, j) ==
  /\ h[j] = f[i] /\ ws[j - 1] = us[i - 1] /\ ws[j] = us[i]
  /\ i > 1 => j > 1 /\ h[j - 1] = f[i - 1]
  /\ \A d \in Nat : i + d <= Len(f) =>
       j + d <= Len(h) /\ h[j + d] = f[i + d] /\ ws[j + d] = us[i + d]

LEMMA WalksSame ==
  ASSUME NEW f, NEW us, NEW i, NEW h, NEW ws, NEW j, SameAround(f, us, i, h, ws, j), WalksAt(f, us, i)
  PROVE  WalksAt(h, ws, j)
<1> USE DEF SameAround
<1>1. Placed(f, us, i)
  BY DEF WalksAt
<1>2. Placed(h, ws, j)
  <2>1. IsFunc(h[j]) => j > 1 /\ h[j - 1].op = "jump"
    BY <1>1 DEF Placed
  <2>2. ASSUME h[j].op = "skip"
        PROVE  /\ h[j].value \in Nat /\ j + h[j].value <= Len(h)
               /\ h[j + h[j].value].op \notin {"jump", "store", "syscall"}
               /\ Covers(ws[j + h[j].value], After(h[j], Meets(h[j], ws[j - 1])))
    <3>1. /\ f[i].value \in Nat /\ i + f[i].value <= Len(f)
          /\ f[i + f[i].value].op \notin {"jump", "store", "syscall"}
          /\ Covers(us[i + f[i].value], After(f[i], Meets(f[i], us[i - 1])))
      BY <1>1, <2>2 DEF Placed
    <3>2. /\ j + f[i].value <= Len(h) /\ h[j + f[i].value] = f[i + f[i].value]
          /\ ws[j + f[i].value] = us[i + f[i].value]
      BY <3>1
    <3> QED BY <3>1, <3>2
  <2> QED BY <2>1, <2>2 DEF Placed
<1> QED BY <1>2 DEF WalksAt

LEMMA PieceBehind ==
  ASSUME NEW f, NEW g, NEW v, NEW u, NEW w, Piece(f, v, u), Piece(g, u, w)
  PROVE  Piece(f \o g, v, w)
<1>1. PICK us : Walks(f, us) /\ us[0] = v /\ us[Len(f)] = u
  BY DEF Piece
<1>2. PICK ms : Walks(g, ms) /\ ms[0] = u /\ ms[Len(g)] = w
  BY DEF Piece
<1> DEFINE h  == f \o g
           n  == Len(f)
           m  == Len(g)
           ws == [k \in 0..(n + m) |-> IF k <= n THEN us[k] ELSE ms[k - n]]
<1>3. /\ Listing(f) /\ Listing(g) /\ us \in [0..n -> LevelType] /\ ms \in [0..m -> LevelType]
      /\ \A i \in 1..n : WalksAt(f, us, i)
      /\ \A i \in 1..m : WalksAt(g, ms, i)
  BY <1>1, <1>2 DEF Walks
<1>4. n \in Nat /\ m \in Nat
  BY <1>3, ListingFacts
<1>5. /\ Listing(h) /\ Len(h) = n + m
      /\ \A i \in 1..n : h[i] = f[i]
      /\ \A i \in 1..m : h[n + i] = g[i]
  BY <1>3, Behind
<1> HIDE DEF n, m, h
<1>6. \A k \in 0..n : ws[k] = us[k]
  BY <1>4
<1>7. us[n] = ms[0]
  BY <1>1, <1>2 DEF n
<1>8. \A k \in 0..m : ws[n + k] = ms[k]
  <2> SUFFICES ASSUME NEW k \in 0..m PROVE ws[n + k] = ms[k]
    OBVIOUS
  <2>1. CASE k = 0
    BY <1>4, <1>7, <2>1
  <2>2. CASE k # 0
    <3>1. n + k \in 0..(n + m) /\ ~(n + k <= n) /\ n + k - n = k
      BY <1>4, <2>2
    <3>2. ws[n + k] = ms[n + k - n]
      BY <1>4, <3>1
    <3> QED BY <3>1, <3>2
  <2> QED BY <2>1, <2>2
<1>9. ws \in [0..(n + m) -> LevelType]
  <2>1. \A k \in 0..(n + m) : (IF k <= n THEN us[k] ELSE ms[k - n]) \in LevelType
    BY <1>3, <1>4
  <2> QED BY <2>1
<1> HIDE DEF ws
<1>10. ASSUME NEW i \in 1..n PROVE WalksAt(h, ws, i)
  <2>1. i \in Nat /\ i \in 0..n /\ i - 1 \in 0..n /\ (i > 1 => i - 1 \in 1..n)
    BY <1>4
  <2>2. h[i] = f[i] /\ ws[i - 1] = us[i - 1] /\ ws[i] = us[i] /\ (i > 1 => h[i - 1] = f[i - 1])
    BY <1>5, <1>6, <2>1
  <2>3. \A k \in Nat : i + k <= Len(f) =>
          i + k <= Len(h) /\ h[i + k] = f[i + k] /\ ws[i + k] = us[i + k]
    <3> SUFFICES ASSUME NEW k \in Nat, i + k <= Len(f)
                 PROVE  i + k <= Len(h) /\ h[i + k] = f[i + k] /\ ws[i + k] = us[i + k]
      OBVIOUS
    <3>1. i + k \in 1..n /\ i + k \in 0..n /\ i + k <= n + m
      BY <1>4, <2>1 DEF n
    <3> QED BY <1>5, <1>6, <3>1
  <2>4. WalksAt(f, us, i)
    BY <1>3
  <2>5. SameAround(f, us, i, h, ws, i)
    BY <2>2, <2>3, <2>1 DEF SameAround
  <2> QED BY <2>4, <2>5, WalksSame
<1>11. ASSUME NEW i \in 1..m PROVE WalksAt(h, ws, n + i)
  <2>1. /\ i \in Nat /\ n + i \in Nat /\ i \in 0..m /\ i - 1 \in 0..m /\ n + i - 1 = n + (i - 1)
        /\ i > 1 => i - 1 \in 1..m /\ n + i > 1
    BY <1>4
  <2>2. /\ h[n + i] = g[i] /\ ws[n + i - 1] = ms[i - 1] /\ ws[n + i] = ms[i]
        /\ i > 1 => n + i > 1 /\ h[n + i - 1] = g[i - 1]
    BY <1>5, <1>8, <2>1
  <2>3. \A k \in Nat : i + k <= Len(g) =>
          n + i + k <= Len(h) /\ h[n + i + k] = g[i + k] /\ ws[n + i + k] = ms[i + k]
    <3> SUFFICES ASSUME NEW k \in Nat, i + k <= Len(g)
                 PROVE  n + i + k <= Len(h) /\ h[n + i + k] = g[i + k] /\ ws[n + i + k] = ms[i + k]
      OBVIOUS
    <3>1. i + k \in 1..m /\ i + k \in 0..m /\ n + i + k <= n + m /\ n + i + k = n + (i + k)
      BY <1>4, <2>1 DEF m
    <3> QED BY <1>5, <1>8, <3>1
  <2>4. WalksAt(g, ms, i)
    BY <1>3
  <2> DEFINE j == n + i
  <2> HIDE DEF j
  <2>5. SameAround(g, ms, i, h, ws, j)
    <3>1. h[j] = g[i] /\ ws[j - 1] = ms[i - 1] /\ ws[j] = ms[i]
      BY <1>4, <2>1, <2>2 DEF j
    <3>2. i > 1 => j > 1 /\ h[j - 1] = g[i - 1]
      BY <1>4, <2>1, <2>2 DEF j
    <3>3. \A d \in Nat : i + d <= Len(g) => j + d <= Len(h) /\ h[j + d] = g[i + d] /\ ws[j + d] = ms[i + d]
      BY <2>3 DEF j
    <3> QED BY <3>1, <3>2, <3>3 DEF SameAround
  <2> QED BY <2>4, <2>5, WalksSame DEF j
<1>12. \A i \in 1..(n + m) : WalksAt(h, ws, i)
  <2> SUFFICES ASSUME NEW i \in 1..(n + m) PROVE WalksAt(h, ws, i)
    OBVIOUS
  <2>1. CASE i \in 1..n
    BY <1>10, <2>1
  <2>2. CASE i \notin 1..n
    <3>1. i - n \in 1..m /\ n + (i - n) = i
      BY <1>4, <2>2
    <3>2. WalksAt(h, ws, n + (i - n))
      BY <1>11, <3>1
    <3> QED BY <3>1, <3>2
  <2> QED BY <2>1, <2>2
<1>13. ws[0] = v /\ ws[Len(h)] = w
  <2>1. 0 \in 0..n /\ m \in 0..m
    BY <1>4
  <2>2. ws[0] = us[0] /\ ws[n + m] = ms[m]
    BY <1>6, <1>8, <2>1
  <2> QED BY <1>1, <1>2, <1>5, <2>2 DEF m
<1>14. Walks(h, ws)
  BY <1>5, <1>9, <1>12 DEF Walks
<1> QED BY <1>13, <1>14 DEF Piece, h
-----------------------------------------------------------------------------
(* The level behind one instruction.                                       *)
RdiType == [as : {"any", "number", "argument"}, value : Int]
Parts   == {"entry", "saved", "body", "exit"}

LEMMA LevelIs ==
  ASSUME NEW a, NEW b, NEW c, NEW d
  PROVE  /\ Level(a, b, c, d).main = a /\ Level(a, b, c, d).part = b
         /\ Level(a, b, c, d).high = c /\ Level(a, b, c, d).rdi = d
         /\ a \in BOOLEAN /\ b \in Parts /\ c \in Nat /\ d \in RdiType => Level(a, b, c, d) \in LevelType
<1> QED BY DEF Level, LevelType, RdiType, Parts

LEMMA LevelOf ==
  ASSUME NEW v \in LevelType
  PROVE  /\ v = Level(v.main, v.part, v.high, v.rdi)
         /\ v.main \in BOOLEAN /\ v.part \in Parts /\ v.high \in Nat /\ v.rdi \in RdiType
<1> QED BY DEF Level, LevelType, RdiType, Parts

LEMMA Known ==
  /\ Unknown \in RdiType /\ Argument \in RdiType /\ \A n \in Int : Number(n) \in RdiType
  /\ Start \in LevelType /\ Callee \in LevelType /\ MainBody \in LevelType
  /\ Start.part = "entry" /\ Callee.part = "entry" /\ MainBody.part = "body" /\ MainBody.high = 0
  /\ Start.main /\ ~Callee.main /\ MainBody.main /\ Callee.rdi = Argument /\ Callee.high = 0
  /\ Start.high = 0 /\ Start.rdi = Unknown /\ MainBody.rdi = Unknown
<1> QED BY DEF Unknown, Argument, Number, RdiType, Start, Callee, MainBody, Level, LevelType

LEMMA MeetsIs ==
  ASSUME NEW u \in LevelType, NEW d
  PROVE  /\ Meets(d, u) \in LevelType
         /\ d.op # "label" => Meets(d, u) = u
         /\ IsFunc(d) => Meets(d, u) = Callee
         /\ ~IsFunc(d) => /\ Meets(d, u).main = u.main /\ Meets(d, u).part = u.part
                          /\ Meets(d, u).high = u.high /\ Meets(d, u).rdi \in {Unknown, u.rdi}
         /\ d.op = "label" /\ ~IsFunc(d) => Meets(d, u) = Level(u.main, u.part, u.high, Unknown)
<1>1. Unknown \in RdiType /\ Callee \in LevelType
  BY Known
<1>2. u = Level(u.main, u.part, u.high, u.rdi)
      /\ u.main \in BOOLEAN /\ u.part \in Parts /\ u.high \in Nat /\ u.rdi \in RdiType
  BY LevelOf
<1>3. [u EXCEPT !.rdi = Unknown] = Level(u.main, u.part, u.high, Unknown)
  BY DEF Level, LevelType
<1> DEFINE w == Level(u.main, u.part, u.high, Unknown)
<1>4. w \in LevelType /\ w.main = u.main /\ w.part = u.part /\ w.high = u.high /\ w.rdi = Unknown
  BY <1>1, <1>2, LevelIs
<1> HIDE DEF w
<1>5. CASE d.op # "label"
  BY <1>5 DEF Meets, IsFunc
<1>6. CASE IsFunc(d)
  BY <1>1, <1>6 DEF Meets, IsFunc
<1>7. CASE d.op = "label" /\ ~IsFunc(d)
  <2>1. Meets(d, u) = w
    BY <1>3, <1>7 DEF Meets, IsFunc, w
  <2> QED BY <1>4, <1>7, <2>1 DEF w
<1> QED BY <1>5, <1>6, <1>7

LEMMA RdiIs ==
  ASSUME NEW c, NEW v \in LevelType
  PROVE  /\ Shaped(c) => RdiAfter(c, v) \in RdiType
         /\ ~Sets(c, "rdi") /\ c.op # "call" => RdiAfter(c, v) = v.rdi
         /\ c.op = "call" => RdiAfter(c, v) = Unknown
<1>1. v.rdi \in RdiType /\ Unknown \in RdiType /\ \A n \in Int : Number(n) \in RdiType
  BY LevelOf, Known
<1>2. ASSUME Shaped(c) PROVE RdiAfter(c, v) \in RdiType
  <2>1. CASE c.op = "imm" /\ c.reg = "rdi" /\ c.width >= 4
    <3>1. c.width \in Nat /\ c.value \in Int
      BY <1>2, <2>1 DEF Shaped, Widths
    <3>2. Wrap(c.width, c.value) \in Int
      <4>1. Wrap(c.width, c.value) \in 0..(Values(c.width) - 1)
        BY <3>1, WrapType
      <4> QED BY <4>1
    <3>3. RdiAfter(c, v) = Number(Wrap(c.width, c.value))
      BY <2>1 DEF RdiAfter
    <3> QED BY <1>1, <3>2, <3>3
  <2>2. CASE ~(c.op = "imm" /\ c.reg = "rdi" /\ c.width >= 4)
    BY <1>1, <2>2 DEF RdiAfter
  <2> QED BY <2>1, <2>2
<1>3. ~Sets(c, "rdi") /\ c.op # "call" => RdiAfter(c, v) = v.rdi
  BY DEF RdiAfter, Sets
<1>4. c.op = "call" => RdiAfter(c, v) = Unknown
  BY DEF RdiAfter
<1> QED BY <1>2, <1>3, <1>4

(* In a body.                                                              *)
LEMMA InBody ==
  ASSUME NEW c, NEW v \in LevelType, v.part = "body", c.op # "call", ~Sets(c, "rdi")
  PROVE  /\ c.op = "push" => After(c, v) = Level(v.main, "body", v.high + 8, v.rdi)
         /\ c.op = "pop" => After(c, v) = Level(v.main, "body", v.high - 8, v.rdi)
         /\ c.op = "addsp" => After(c, v) = Level(v.main, "body", v.high - c.value, v.rdi)
         /\ c.op = "leave" => After(c, v) = Level(v.main, "exit", 0, v.rdi)
         /\ c.op \notin {"push", "pop", "addsp", "leave"} => After(c, v) = v
<1>1. RdiAfter(c, v) = v.rdi
  BY RdiIs
<1>2. v = Level(v.main, "body", v.high, v.rdi)
  BY LevelOf
<1> QED BY <1>1, <1>2, AfterIs
-----------------------------------------------------------------------------
(* Texts of no and of one instruction.                                     *)
LEMMA Nothing ==
  ASSUME NEW v \in LevelType
  PROVE  Piece(<<>>, v, v)
<1> DEFINE us == [k \in 0..0 |-> v]
<1>1. Listing(<<>>) /\ Len(<<>>) = 0
  BY Tuples
<1>2. us \in [0..0 -> LevelType] /\ us[0] = v /\ 1..0 = {}
  OBVIOUS
<1> HIDE DEF us
<1>3. Walks(<<>>, us)
  BY <1>1, <1>2 DEF Walks
<1> QED BY <1>1, <1>2, <1>3 DEF Piece

LEMMA Alone ==
  ASSUME NEW c, NEW v \in LevelType, NEW w \in LevelType, w = Leads(c, Meets(c, v)),
         w.high <= v.high + 16, Right(c, Meets(c, v)), ~IsFunc(c), c.op # "skip"
  PROVE  Piece(<<c>>, v, w)
<1> DEFINE us == [k \in 0..1 |-> IF k = 0 THEN v ELSE w]
           f  == <<c>>
<1>1. Listing(f) /\ Len(f) = 1 /\ f[1] = c
  BY Tuples
<1>2. us \in [0..1 -> LevelType] /\ us[0] = v /\ us[1] = w /\ us[1 - 1] = v /\ 1..1 = {1}
  OBVIOUS
<1> HIDE DEF us, f
<1>3. WalksAt(f, us, 1)
  BY <1>1, <1>2 DEF WalksAt, Placed
<1>4. Walks(f, us)
  BY <1>1, <1>2, <1>3 DEF Walks
<1> QED BY <1>1, <1>2, <1>4 DEF Piece, f

LEMMA Splits ==
  ASSUME NEW a, NEW b, NEW c
  PROVE  <<a, b>> = <<a>> \o <<b>> /\ <<a, b, c>> = <<a, b>> \o <<c>> /\ \A s : Listing(s) => <<>> \o s = s /\ s \o <<>> = s
<1> DEFINE S == {a, b, c}
<1>1. /\ <<a>> \in Seq(S) /\ <<b>> \in Seq(S) /\ <<c>> \in Seq(S)
      /\ <<a, b>> \in Seq(S) /\ <<a, b, c>> \in Seq(S)
  OBVIOUS
<1>2. <<a>> \o <<b>> \in Seq(S) /\ <<a, b>> \o <<c>> \in Seq(S)
  <2> HIDE DEF S
  <2> QED BY <1>1, ConcatProperties
<1>3. /\ Len(<<a>> \o <<b>>) = 2 /\ (<<a>> \o <<b>>)[1] = a /\ (<<a>> \o <<b>>)[2] = b
      /\ Len(<<a, b>> \o <<c>>) = 3 /\ (<<a, b>> \o <<c>>)[1] = a /\ (<<a, b>> \o <<c>>)[2] = b
      /\ (<<a, b>> \o <<c>>)[3] = c
  OBVIOUS
<1>4. <<a, b>> = <<a>> \o <<b>>
  <2>1. Len(<<a, b>>) = 2 /\ \A i \in 1..2 : <<a, b>>[i] = (<<a>> \o <<b>>)[i]
    BY <1>3
  <2> HIDE DEF S
  <2> QED BY <1>1, <1>2, <1>3, <2>1, SeqEqual
<1>5. <<a, b, c>> = <<a, b>> \o <<c>>
  <2>1. Len(<<a, b, c>>) = 3 /\ \A i \in 1..3 : <<a, b, c>>[i] = (<<a, b>> \o <<c>>)[i]
    BY <1>3
  <2> HIDE DEF S
  <2> QED BY <1>1, <1>2, <1>3, <2>1, SeqEqual
<1>6. \A s : Listing(s) => <<>> \o s = s /\ s \o <<>> = s
  BY ConcatEmptySeq DEF Listing
<1> QED BY <1>4, <1>5, <1>6
-----------------------------------------------------------------------------
(* The text of an expression without a call: it works in rax and rbx and   *)
(* on the stack, and hs has the words that wait there.                     *)
QuietInstr(c) ==
  /\ c.op \in {"imm", "copy", "load", "push", "pop", "alu", "test", "skip"}
  /\ Shaped(c)
  /\ c.op \in {"imm", "copy", "load", "pop"} => c.reg \in {"rax", "rbx"}

QuietAt(f, hs, i) ==
  /\ QuietInstr(f[i])
  /\ hs[i] = CASE f[i].op = "push" -> hs[i - 1] + 1
               [] f[i].op = "pop"  -> hs[i - 1] - 1
               [] OTHER            -> hs[i - 1]
  /\ f[i].op = "skip" =>
       f[i].value \in Nat /\ i + f[i].value <= Len(f) /\ hs[i + f[i].value] = hs[i - 1]

Waits(f, hs) ==
  /\ Listing(f) /\ hs \in [0..Len(f) -> Nat] /\ hs[0] = 0 /\ hs[Len(f)] = 0
  /\ \A i \in 1..Len(f) : QuietAt(f, hs, i)
Quietly(f) == \E hs : Waits(f, hs)

(* In a text, from place n on, the instructions of f are found, with as    *)
(* many words waiting as there and d more.                                 *)
Within(f, hs, h, ws, n, d) ==
  /\ n + Len(f) <= Len(h)
  /\ \A i \in 1..Len(f) : h[n + i] = f[i]
  /\ \A k \in 0..Len(f) : ws[n + k] = hs[k] + d

LEMMA QuietWithin ==
  ASSUME NEW f, NEW hs, NEW h, NEW ws, NEW n \in Nat, NEW d \in Nat, Waits(f, hs),
         Listing(h), Within(f, hs, h, ws, n, d)
  PROVE  \A i \in 1..Len(f) : QuietAt(h, ws, n + i)
<1> SUFFICES ASSUME NEW i \in 1..Len(f) PROVE QuietAt(h, ws, n + i)
  OBVIOUS
<1>1. Len(f) \in Nat /\ Len(h) \in Nat /\ QuietAt(f, hs, i) /\ hs \in [0..Len(f) -> Nat]
  BY ListingFacts DEF Waits
<1>2. i \in 0..Len(f) /\ i - 1 \in 0..Len(f) /\ (n + i) - 1 = n + (i - 1) /\ hs[i] \in Nat /\ hs[i - 1] \in Nat
  BY <1>1
<1>3. h[n + i] = f[i] /\ ws[n + i] = hs[i] + d /\ ws[(n + i) - 1] = hs[i - 1] + d
  BY <1>2 DEF Within
<1>4. QuietInstr(h[n + i])
  BY <1>1, <1>3 DEF QuietAt
<1>5. ws[n + i] = CASE h[n + i].op = "push" -> ws[(n + i) - 1] + 1
                    [] h[n + i].op = "pop"  -> ws[(n + i) - 1] - 1
                    [] OTHER                -> ws[(n + i) - 1]
  <2>1. CASE f[i].op = "push"
    <3>1. hs[i] = hs[i - 1] + 1
      BY <1>1, <2>1 DEF QuietAt
    <3>2. hs[i] + d = hs[i - 1] + d + 1
      BY <1>2, <3>1
    <3> QED BY <1>3, <2>1, <3>2
  <2>2. CASE f[i].op = "pop"
    <3>1. hs[i] = hs[i - 1] - 1
      BY <1>1, <2>2 DEF QuietAt
    <3>2. hs[i] + d = (hs[i - 1] + d) - 1
      BY <1>2, <3>1
    <3> QED BY <1>3, <2>2, <3>2
  <2>3. CASE f[i].op \notin {"push", "pop"}
    <3>1. hs[i] = hs[i - 1]
      BY <1>1, <2>3 DEF QuietAt
    <3> QED BY <1>3, <2>3, <3>1
  <2> QED BY <2>1, <2>2, <2>3
<1>6. ASSUME h[n + i].op = "skip"
      PROVE  /\ h[n + i].value \in Nat /\ n + i + h[n + i].value <= Len(h)
             /\ ws[n + i + h[n + i].value] = ws[(n + i) - 1]
  <2>1. f[i].value \in Nat /\ i + f[i].value <= Len(f) /\ hs[i + f[i].value] = hs[i - 1]
    BY <1>1, <1>3, <1>6 DEF QuietAt
  <2>2. i + f[i].value \in 0..Len(f) /\ n + i + f[i].value = n + (i + f[i].value)
    <3>1. ASSUME NEW q \in Nat, i + q <= Len(f) PROVE i + q \in 0..Len(f) /\ n + i + q = n + (i + q)
      BY <1>1, <1>2, <3>1
    <3> QED BY <2>1, <3>1
  <2>3. ws[n + (i + f[i].value)] = hs[i + f[i].value] + d
    BY <2>2 DEF Within
  <2>4. n + Len(f) <= Len(h)
    BY DEF Within
  <2>5. n + i + f[i].value <= Len(h)
    <3>1. ASSUME NEW q \in Nat, NEW a \in Nat, NEW b \in Nat, i + q <= a, n + a <= b
          PROVE  n + i + q <= b
      BY <1>2, <3>1
    <3> QED BY <1>1, <2>1, <2>4, <3>1
  <2> QED BY <1>3, <2>1, <2>2, <2>3, <2>5
<1> QED BY <1>4, <1>5, <1>6 DEF QuietAt

LEMMA QuietNone == Quietly(<<>>)
<1> DEFINE hs == [k \in 0..0 |-> 0]
<1>1. Listing(<<>>) /\ Len(<<>>) = 0
  BY Tuples
<1>2. hs \in [0..0 -> Nat] /\ hs[0] = 0 /\ 1..0 = {}
  OBVIOUS
<1> HIDE DEF hs
<1> QED BY <1>1, <1>2 DEF Quietly, Waits

LEMMA QuietOne ==
  ASSUME NEW c, QuietInstr(c), c.op \notin {"push", "pop", "skip"}
  PROVE  Quietly(<<c>>)
<1> DEFINE hs == [k \in 0..1 |-> 0]
           f  == <<c>>
<1>1. Listing(f) /\ Len(f) = 1 /\ f[1] = c
  BY Tuples
<1>2. hs \in [0..1 -> Nat] /\ hs[0] = 0 /\ hs[1] = 0 /\ hs[1 - 1] = 0 /\ 1..1 = {1}
  OBVIOUS
<1> HIDE DEF hs, f
<1>3. QuietAt(f, hs, 1)
  BY <1>1, <1>2 DEF QuietAt
<1>4. Waits(f, hs)
  BY <1>1, <1>2, <1>3 DEF Waits
<1> QED BY <1>4 DEF Quietly, f

(* What an operator puts around its operands.                              *)
LEMMA Around ==
  ASSUME NEW l, NEW c, NEW r, NEW t, Listing(l), Listing(r), Listing(t)
  PROVE  LET h == l \o <<c>> \o r \o t
             a == Len(l)
             b == Len(r)
         IN  /\ Listing(h) /\ Len(h) = a + 1 + b + Len(t)
             /\ \A i \in 1..a : h[i] = l[i]
             /\ h[a + 1] = c
             /\ \A i \in 1..b : h[a + 1 + i] = r[i]
             /\ \A i \in 1..Len(t) : h[a + 1 + b + i] = t[i]
<1> DEFINE a == Len(l)
           b == Len(r)
           f == l \o <<c>>
           g == f \o r
           h == g \o t
<1>1. a \in Nat /\ b \in Nat /\ Len(t) \in Nat
  BY ListingFacts
<1>2. Listing(<<c>>) /\ Len(<<c>>) = 1 /\ <<c>>[1] = c /\ 1 \in 1..1
  <2>1. Listing(<<c>>)
    BY Tuples
  <2>2. Len(<<c>>) = 1 /\ <<c>>[1] = c /\ 1 \in 1..1
    OBVIOUS
  <2> QED BY <2>1, <2>2
<1>3. Listing(f) /\ Len(f) = a + 1 /\ (\A i \in 1..a : f[i] = l[i]) /\ f[a + 1] = c
  <2>1. /\ Listing(l \o <<c>>) /\ Len(l \o <<c>>) = Len(l) + Len(<<c>>)
        /\ \A i \in 1..Len(l) : (l \o <<c>>)[i] = l[i]
        /\ \A i \in 1..Len(<<c>>) : (l \o <<c>>)[Len(l) + i] = <<c>>[i]
    BY <1>2, Behind
  <2> QED BY <1>2, <2>1
<1> HIDE DEF f
<1>4. /\ Listing(g) /\ Len(g) = a + 1 + b
      /\ \A i \in 1..(a + 1) : g[i] = f[i]
      /\ \A i \in 1..b : g[a + 1 + i] = r[i]
  BY <1>3, Behind
<1> HIDE DEF g
<1>5. /\ Listing(h) /\ Len(h) = a + 1 + b + Len(t)
      /\ \A i \in 1..(a + 1 + b) : h[i] = g[i]
      /\ \A i \in 1..Len(t) : h[a + 1 + b + i] = t[i]
  BY <1>4, Behind
<1> HIDE DEF h
<1>6. \A i \in 1..a : h[i] = l[i]
  <2>1. \A i \in 1..a : i \in 1..(a + 1) /\ i \in 1..(a + 1 + b)
    BY <1>1
  <2> HIDE DEF a, b
  <2> QED BY <1>3, <1>4, <1>5, <2>1
<1>7. h[a + 1] = c
  <2>1. a + 1 \in 1..(a + 1) /\ a + 1 \in 1..(a + 1 + b)
    BY <1>1
  <2> HIDE DEF a, b
  <2> QED BY <1>3, <1>4, <1>5, <2>1
<1>8. \A i \in 1..b : h[a + 1 + i] = r[i]
  <2>1. \A i \in 1..b : a + 1 + i \in 1..(a + 1 + b)
    BY <1>1
  <2> HIDE DEF a, b
  <2> QED BY <1>4, <1>5, <2>1
<1> QED BY <1>5, <1>6, <1>7, <1>8 DEF h, g, f

LEMMA QuietBehind ==
  ASSUME NEW f, NEW g, Quietly(f), Quietly(g)
  PROVE  Quietly(f \o g)
<1>1. PICK hs : Waits(f, hs)
  BY DEF Quietly
<1>2. PICK ms : Waits(g, ms)
  BY DEF Quietly
<1> DEFINE a  == Len(f)
           b  == Len(g)
           h  == f \o g
           ws == [k \in 0..(a + b) |-> IF k <= a THEN hs[k] ELSE ms[k - a]]
<1>3. /\ Listing(f) /\ Listing(g) /\ hs \in [0..a -> Nat] /\ ms \in [0..b -> Nat]
      /\ hs[0] = 0 /\ hs[a] = 0 /\ ms[0] = 0 /\ ms[b] = 0
  BY <1>1, <1>2 DEF Waits
<1>4. a \in Nat /\ b \in Nat
  BY <1>3, ListingFacts
<1>5. /\ Listing(h) /\ Len(h) = a + b
      /\ \A i \in 1..a : h[i] = f[i]
      /\ \A i \in 1..b : h[a + i] = g[i]
  BY <1>3, Behind
<1> HIDE DEF h
<1>6. ws \in [0..(a + b) -> Nat]
  <2>1. \A k \in 0..(a + b) : (IF k <= a THEN hs[k] ELSE ms[k - a]) \in Nat
    BY <1>3, <1>4
  <2> QED BY <2>1
<1>7. \A k \in 0..a : ws[0 + k] = hs[k] + 0
  BY <1>3, <1>4
<1>8. \A k \in 0..b : ws[a + k] = ms[k] + 0
  <2> SUFFICES ASSUME NEW k \in 0..b PROVE ws[a + k] = ms[k] + 0
    OBVIOUS
  <2>1. CASE k = 0
    BY <1>3, <1>4, <2>1
  <2>2. CASE k # 0
    <3>1. a + k \in 0..(a + b) /\ ~(a + k <= a) /\ a + k - a = k
      BY <1>4, <2>2
    <3>2. ws[a + k] = ms[a + k - a] /\ ms[k] \in Nat
      BY <1>3, <1>4, <3>1
    <3> QED BY <3>1, <3>2
  <2> QED BY <2>1, <2>2
<1> HIDE DEF ws
<1>9. Within(f, hs, h, ws, 0, 0)
  <2>1. 0 + a <= a + b /\ \A i \in 1..a : 0 + i = i
    BY <1>4
  <2> QED BY <1>5, <1>7, <2>1 DEF Within
<1>10. Within(g, ms, h, ws, a, 0)
  <2>1. a + b <= a + b
    BY <1>4
  <2> QED BY <1>5, <1>8, <2>1 DEF Within
<1>11. \A i \in 1..a : QuietAt(h, ws, 0 + i)
  BY <1>1, <1>5, <1>9, QuietWithin
<1>12. \A i \in 1..b : QuietAt(h, ws, a + i)
  BY <1>2, <1>4, <1>5, <1>10, QuietWithin
<1> HIDE DEF a, b
<1>13. \A i \in 1..(a + b) : QuietAt(h, ws, i)
  <2> SUFFICES ASSUME NEW i \in 1..(a + b) PROVE QuietAt(h, ws, i)
    OBVIOUS
  <2>1. CASE i <= a
    <3>1. i \in 1..a /\ 0 + i = i
      BY <1>4, <2>1
    <3> QED BY <1>11, <3>1
  <2>2. CASE ~(i <= a)
    <3>1. i - a \in 1..b /\ a + (i - a) = i
      BY <1>4, <2>2
    <3>2. QuietAt(h, ws, a + (i - a))
      BY <1>12, <3>1
    <3> QED BY <3>1, <3>2
  <2> QED BY <2>1, <2>2
<1>14. ws[0] = 0 /\ ws[a + b] = 0
  <2>1. ws[0 + 0] = hs[0] + 0 /\ ws[a + b] = ms[b] + 0
    BY <1>4, <1>7, <1>8
  <2> QED BY <1>3, <2>1
<1>15. Waits(h, ws)
  BY <1>5, <1>6, <1>13, <1>14 DEF Waits
<1> QED BY <1>15 DEF Quietly, h

LEMMA Associates ==
  ASSUME NEW f, NEW g, NEW h, Listing(f), Listing(g), Listing(h)
  PROVE  (f \o g) \o h = f \o (g \o h)
<1> DEFINE S == {f[i] : i \in 1..Len(f)} \cup {g[i] : i \in 1..Len(g)} \cup {h[i] : i \in 1..Len(h)}
<1>1. f \in Seq(S) /\ g \in Seq(S) /\ h \in Seq(S)
  BY SeqMonotonic DEF Listing
<1> HIDE DEF S
<1> QED BY <1>1, ConcatAssociative

(* Two quiet texts, l and r, with the instruction c between them and t     *)
(* behind; d and xs are the words that wait behind c and in t.             *)
IsAround(l, hs, c, r, ms, d, t, xs) ==
  Waits(l, hs) /\ Waits(r, ms) /\ Listing(t) /\ d \in Nat /\ xs \in [1..Len(t) -> Nat]

(* What such a text h consists of, l and r being a and b long.             *)
Parted(h, a, c, b, d, t, xs) ==
  /\ Listing(h) /\ Len(h) = a + 1 + b + Len(t) /\ a \in Nat /\ b \in Nat
  /\ h[a + 1] = c /\ \A i \in 1..Len(t) : h[a + 1 + b + i] = t[i]
  /\ \E ws : /\ ws \in [0..(a + 1 + b + Len(t)) -> Nat]
             /\ ws[0] = 0 /\ ws[a] = 0 /\ ws[a + 1] = d /\ ws[a + 1 + b] = d
             /\ \A i \in 1..Len(t) : ws[a + 1 + b + i] = xs[i]
             /\ \A i \in 1..a : QuietAt(h, ws, i)
             /\ \A i \in 1..b : QuietAt(h, ws, a + 1 + i)

LEMMA QuietAround ==
  ASSUME NEW l, NEW hs, NEW c, NEW r, NEW ms, NEW d, NEW t, NEW xs, IsAround(l, hs, c, r, ms, d, t, xs)
  PROVE  Parted(l \o <<c>> \o r \o t, Len(l), c, Len(r), d, t, xs)
<1> DEFINE h == l \o <<c>> \o r \o t
           a == Len(l)
           b == Len(r)
           e == Len(t)
           W(k) == IF k <= a THEN hs[k] ELSE IF k <= a + 1 + b THEN ms[k - (a + 1)] + d
                   ELSE xs[k - (a + 1 + b)]
           ws == [k \in 0..(a + 1 + b + e) |-> W(k)]
<1>0. Waits(l, hs) /\ Waits(r, ms) /\ Listing(t) /\ d \in Nat /\ xs \in [1..e -> Nat]
  BY DEF IsAround
<1> USE <1>0
<1>1. /\ Listing(l) /\ Listing(r) /\ hs \in [0..a -> Nat] /\ ms \in [0..b -> Nat]
      /\ hs[0] = 0 /\ hs[a] = 0 /\ ms[0] = 0 /\ ms[b] = 0
  BY DEF Waits
<1>2. a \in Nat /\ b \in Nat /\ e \in Nat
  BY <1>1, ListingFacts
<1>3. /\ Listing(h) /\ Len(h) = a + 1 + b + e
      /\ \A i \in 1..a : h[i] = l[i]
      /\ h[a + 1] = c
      /\ \A i \in 1..b : h[a + 1 + i] = r[i]
      /\ \A i \in 1..e : h[a + 1 + b + i] = t[i]
  BY <1>1, Around
<1>4. xs \in [1..e -> Nat]
  OBVIOUS
<1> HIDE DEF h, a, b, e
<1>5. \A k \in 0..a : ws[k] = hs[k] /\ hs[k] \in Nat
  BY <1>1, <1>2
<1>6. \A k \in 0..b : ws[a + 1 + k] = ms[k] + d /\ ms[k] \in Nat
  <2> SUFFICES ASSUME NEW k \in 0..b PROVE ws[a + 1 + k] = ms[k] + d /\ ms[k] \in Nat
    OBVIOUS
  <2>1. /\ a + 1 + k \in 0..(a + 1 + b + e) /\ ~(a + 1 + k <= a) /\ a + 1 + k <= a + 1 + b
        /\ (a + 1 + k) - (a + 1) = k
    BY <1>2
  <2>2. ws[a + 1 + k] = ms[(a + 1 + k) - (a + 1)] + d
    BY <2>1
  <2> QED BY <1>1, <2>1, <2>2
<1>7. \A k \in 1..e : ws[a + 1 + b + k] = xs[k] /\ xs[k] \in Nat
  <2> SUFFICES ASSUME NEW k \in 1..e PROVE ws[a + 1 + b + k] = xs[k] /\ xs[k] \in Nat
    OBVIOUS
  <2>1. /\ a + 1 + b + k \in 0..(a + 1 + b + e) /\ ~(a + 1 + b + k <= a) /\ ~(a + 1 + b + k <= a + 1 + b)
        /\ (a + 1 + b + k) - (a + 1 + b) = k
    BY <1>2
  <2>2. ws[a + 1 + b + k] = xs[(a + 1 + b + k) - (a + 1 + b)]
    BY <2>1
  <2> QED BY <1>4, <2>1, <2>2
<1>8. ws \in [0..(a + 1 + b + e) -> Nat]
  <2> SUFFICES ASSUME NEW k \in 0..(a + 1 + b + e) PROVE ws[k] \in Nat
    OBVIOUS
  <2>1. CASE k <= a
    <3>1. k \in 0..a
      BY <1>2, <2>1
    <3> HIDE DEF ws
    <3> QED BY <1>5, <3>1
  <2>2. CASE ~(k <= a) /\ k <= a + 1 + b
    <3>1. k - (a + 1) \in 0..b /\ a + 1 + (k - (a + 1)) = k
      BY <1>2, <2>2
    <3> HIDE DEF ws
    <3>2. ws[k] = ms[k - (a + 1)] + d /\ ms[k - (a + 1)] \in Nat
      BY <1>6, <3>1
    <3> QED BY <3>2
  <2>3. CASE ~(k <= a) /\ ~(k <= a + 1 + b)
    <3>1. k - (a + 1 + b) \in 1..e /\ a + 1 + b + (k - (a + 1 + b)) = k
      BY <1>2, <2>3
    <3> HIDE DEF ws
    <3>2. ws[k] = xs[k - (a + 1 + b)] /\ xs[k - (a + 1 + b)] \in Nat
      BY <1>7, <3>1
    <3> QED BY <3>2
  <2> QED BY <2>1, <2>2, <2>3
<1> HIDE DEF ws
<1>9. \A i \in 1..a : QuietAt(h, ws, i)
  <2>1. 0 + a <= a + 1 + b + e /\ (\A i \in 1..a : 0 + i = i) /\ \A k \in 0..a : 0 + k = k /\ ws[0 + k] = hs[k] + 0
    BY <1>2, <1>5
  <2>2. Within(l, hs, h, ws, 0, 0)
    BY <1>3, <2>1 DEF Within, a
  <2>3. \A i \in 1..Len(l) : QuietAt(h, ws, 0 + i)
    BY <1>3, <2>2, QuietWithin
  <2> QED BY <2>1, <2>3 DEF a
<1>10. \A i \in 1..b : QuietAt(h, ws, a + 1 + i)
  <2>1. a + 1 + b <= a + 1 + b + e /\ a + 1 \in Nat
    BY <1>2
  <2>2. Within(r, ms, h, ws, a + 1, d)
    BY <1>3, <1>6, <2>1 DEF Within, b
  <2> QED BY <1>3, <2>1, <2>2, QuietWithin DEF b
<1>11. ws[0] = 0 /\ ws[a] = 0 /\ ws[a + 1] = d /\ ws[a + 1 + b] = d
  <2>1. 0 \in 0..a /\ a \in 0..a /\ 0 \in 0..b /\ b \in 0..b /\ a + 1 + 0 = a + 1
    BY <1>2
  <2>2. ws[a + 1 + 0] = ms[0] + d /\ ws[a + 1 + b] = ms[b] + d
    BY <1>6, <2>1
  <2> QED BY <1>1, <1>5, <2>1, <2>2
<1>12. \A i \in 1..e : ws[a + 1 + b + i] = xs[i]
  BY <1>7
<1>13. Parted(h, a, c, b, d, t, xs)
  BY <1>2, <1>3, <1>8, <1>9, <1>10, <1>11, <1>12 DEF Parted, e
<1> QED BY <1>13 DEF h, a, b

LEMMA QuietCombine ==
  ASSUME NEW l, NEW r, NEW w, NEW op \in Operations, Quietly(l), Quietly(r)
  PROVE  Quietly(Combine(l, r, w, op))
<1>1. PICK hs : Waits(l, hs)
  BY DEF Quietly
<1>2. PICK ms : Waits(r, ms)
  BY DEF Quietly
<1> DEFINE c  == Push("rax")
           t  == <<Copy("rbx", w, "rax"), Pop("rax"), Alu(op)>>
           xs == [k \in 1..3 |-> IF k = 1 THEN 1 ELSE 0]
           h  == l \o <<c>> \o r \o t
           a  == Len(l)
           b  == Len(r)
<1>3. Listing(t)
  BY Tuples
<1>4. /\ Len(t) = 3 /\ t[1] = Copy("rbx", w, "rax") /\ t[2] = Pop("rax") /\ t[3] = Alu(op)
      /\ xs \in [1..3 -> Nat] /\ xs[1] = 1 /\ xs[2] = 0 /\ xs[3] = 0
  OBVIOUS
<1>5. /\ QuietInstr(c) /\ c.op = "push"
      /\ QuietInstr(Copy("rbx", w, "rax")) /\ Copy("rbx", w, "rax").op = "copy"
      /\ QuietInstr(Pop("rax")) /\ Pop("rax").op = "pop"
      /\ QuietInstr(Alu(op)) /\ Alu(op).op = "alu"
  BY DEF QuietInstr, Shaped, Registers, Push, Pop, Copy, Alu
<1> HIDE DEF c, t, xs
<1>6. /\ Listing(h) /\ Len(h) = a + 1 + b + 3 /\ a \in Nat /\ b \in Nat
      /\ h[a + 1] = c /\ \A i \in 1..3 : h[a + 1 + b + i] = t[i]
      /\ \E ws : /\ ws \in [0..(a + 1 + b + 3) -> Nat]
                 /\ ws[0] = 0 /\ ws[a] = 0 /\ ws[a + 1] = 1 /\ ws[a + 1 + b] = 1
                 /\ \A i \in 1..3 : ws[a + 1 + b + i] = xs[i]
                 /\ \A i \in 1..a : QuietAt(h, ws, i)
                 /\ \A i \in 1..b : QuietAt(h, ws, a + 1 + i)
  <2>1. IsAround(l, hs, c, r, ms, 1, t, xs)
    BY <1>1, <1>2, <1>3, <1>4 DEF IsAround
  <2>2. Parted(h, a, c, b, 1, t, xs)
    BY <2>1, QuietAround
  <2> HIDE DEF h, a, b
  <2> QED BY <1>4, <2>2 DEF Parted
<1> HIDE DEF h, a, b
<1>7. PICK ws : /\ ws \in [0..(a + 1 + b + 3) -> Nat]
                /\ ws[0] = 0 /\ ws[a] = 0 /\ ws[a + 1] = 1 /\ ws[a + 1 + b] = 1
                /\ \A i \in 1..3 : ws[a + 1 + b + i] = xs[i]
                /\ \A i \in 1..a : QuietAt(h, ws, i)
                /\ \A i \in 1..b : QuietAt(h, ws, a + 1 + i)
  BY <1>6, Zenon
<1>8. /\ 1 \in 1..3 /\ 2 \in 1..3 /\ 3 \in 1..3
      /\ (a + 1) - 1 = a /\ (a + 1 + b + 1) - 1 = a + 1 + b /\ (a + 1 + b + 2) - 1 = a + 1 + b + 1
      /\ (a + 1 + b + 3) - 1 = a + 1 + b + 2
  <2>1. a \in Nat /\ b \in Nat
    BY <1>6
  <2> QED BY <2>1
<1>9. /\ h[a + 1 + b + 1] = Copy("rbx", w, "rax") /\ h[a + 1 + b + 2] = Pop("rax") /\ h[a + 1 + b + 3] = Alu(op)
      /\ ws[a + 1 + b + 1] = 1 /\ ws[a + 1 + b + 2] = 0 /\ ws[a + 1 + b + 3] = 0
  BY <1>4, <1>6, <1>7, <1>8
<1>10. QuietAt(h, ws, a + 1)
  <2>1. h[a + 1] = c /\ ws[(a + 1) - 1] = 0 /\ ws[a + 1] = 1
    BY <1>6, <1>7, <1>8
  <2> QED BY <1>5, <2>1 DEF QuietAt
<1>11. QuietAt(h, ws, a + 1 + b + 1)
  BY <1>5, <1>7, <1>8, <1>9 DEF QuietAt
<1>12. QuietAt(h, ws, a + 1 + b + 2)
  BY <1>5, <1>7, <1>8, <1>9 DEF QuietAt
<1>13. QuietAt(h, ws, a + 1 + b + 3)
  BY <1>5, <1>7, <1>8, <1>9 DEF QuietAt
<1>14. \A i \in 1..(a + 1 + b + 3) : QuietAt(h, ws, i)
  <2> SUFFICES ASSUME NEW i \in 1..(a + 1 + b + 3) PROVE QuietAt(h, ws, i)
    OBVIOUS
  <2>1. CASE i <= a
    BY <1>6, <1>7, <2>1
  <2>2. CASE ~(i <= a + 1) /\ i <= a + 1 + b
    <3>1. i - (a + 1) \in 1..b /\ a + 1 + (i - (a + 1)) = i
      BY <1>6, <2>2
    <3>2. QuietAt(h, ws, a + 1 + (i - (a + 1)))
      BY <1>7, <3>1
    <3> QED BY <3>1, <3>2
  <2>3. i <= a \/ i = a + 1 \/ (~(i <= a + 1) /\ i <= a + 1 + b) \/ i = a + 1 + b + 1 \/ i = a + 1 + b + 2
        \/ i = a + 1 + b + 3
    BY <1>6
  <2> QED BY <1>10, <1>11, <1>12, <1>13, <2>1, <2>2, <2>3
<1>15. Waits(h, ws)
  BY <1>6, <1>7, <1>9, <1>14 DEF Waits
<1>16. Combine(l, r, w, op) = h
  BY DEF Combine, h, c, t
<1> QED BY <1>15, <1>16 DEF Quietly

LEMMA QuietShort ==
  ASSUME NEW l, NEW r, NEW op, Quietly(l), Quietly(r)
  PROVE  Quietly(ShortCircuit(l, r, op))
<1>1. PICK hs : Waits(l, hs)
  BY DEF Quietly
<1>2. PICK ms : Waits(r, ms)
  BY DEF Quietly
<1> DEFINE rest == r \o <<Test, Skip("always", 1)>>
           a  == Len(l)
           b  == Len(r)
           c  == Skip(IF op = "and" THEN "zero" ELSE "nonzero", Len(rest))
           n  == IF op = "and" THEN 0 ELSE 1
           t  == <<Test, Skip("always", 1), Imm("rax", 8, n)>>
           xs == [k \in 1..3 |-> 0]
           h  == l \o <<c>> \o r \o t
<1>3. Listing(t)
  BY Tuples
<1>4. /\ Len(t) = 3 /\ t[1] = Test /\ t[2] = Skip("always", 1) /\ t[3] = Imm("rax", 8, n)
      /\ xs \in [1..3 -> Nat] /\ xs[1] = 0 /\ xs[2] = 0 /\ xs[3] = 0
  OBVIOUS
<1>5. Listing(l) /\ Listing(r) /\ Listing(<<c>>) /\ Listing(<<Test, Skip("always", 1)>>) /\ Listing(<<Imm("rax", 8, n)>>)
  BY <1>1, <1>2, Tuples DEF Waits
<1>6. Len(rest) = b + 2 /\ b \in Nat
  <2>1. Len(<<Test, Skip("always", 1)>>) = 2
    OBVIOUS
  <2>2. Len(rest) = Len(r) + Len(<<Test, Skip("always", 1)>>)
    BY <1>5, Behind
  <2> QED BY <1>5, <2>1, <2>2, ListingFacts
<1>7. ShortCircuit(l, r, op) = h
  <2> DEFINE f == l \o <<c>>
             s == <<Test, Skip("always", 1)>>
             u == <<Imm("rax", 8, n)>>
  <2>1. ShortCircuit(l, r, op) = f \o (r \o s) \o u
    BY DEF ShortCircuit
  <2>2. Listing(f) /\ Listing(s) /\ Listing(u) /\ Listing(r)
    BY <1>5, Behind
  <2>3. t = s \o u
    BY Splits
  <2>4. h = f \o r \o t
    OBVIOUS
  <2> HIDE DEF f, s, u, t, h
  <2>5. f \o (r \o s) = (f \o r) \o s
    BY <2>2, Associates
  <2>6. Listing(f \o r)
    BY <2>2, Behind
  <2>7. ((f \o r) \o s) \o u = (f \o r) \o (s \o u)
    BY <2>2, <2>6, Associates
  <2> QED BY <2>1, <2>3, <2>4, <2>5, <2>7
<1>8. /\ QuietInstr(c) /\ c.op = "skip" /\ c.value = b + 2
      /\ QuietInstr(Test) /\ Test.op = "test"
      /\ QuietInstr(Skip("always", 1)) /\ Skip("always", 1).op = "skip" /\ Skip("always", 1).value = 1
      /\ QuietInstr(Imm("rax", 8, n)) /\ Imm("rax", 8, n).op = "imm"
  BY <1>6 DEF QuietInstr, Shaped, Registers, Widths, Skip, Test, Imm
<1> HIDE DEF rest, c, n, t, xs
<1>9. /\ Listing(h) /\ Len(h) = a + 1 + b + 3 /\ a \in Nat /\ b \in Nat
      /\ h[a + 1] = c /\ \A i \in 1..3 : h[a + 1 + b + i] = t[i]
      /\ \E ws : /\ ws \in [0..(a + 1 + b + 3) -> Nat]
                 /\ ws[0] = 0 /\ ws[a] = 0 /\ ws[a + 1] = 0 /\ ws[a + 1 + b] = 0
                 /\ \A i \in 1..3 : ws[a + 1 + b + i] = xs[i]
                 /\ \A i \in 1..a : QuietAt(h, ws, i)
                 /\ \A i \in 1..b : QuietAt(h, ws, a + 1 + i)
  <2>1. IsAround(l, hs, c, r, ms, 0, t, xs)
    BY <1>1, <1>2, <1>3, <1>4 DEF IsAround
  <2>2. Parted(h, a, c, b, 0, t, xs)
    BY <2>1, QuietAround
  <2> HIDE DEF h, a, b
  <2> QED BY <1>4, <2>2 DEF Parted
<1> HIDE DEF h, a, b
<1>10. PICK ws : /\ ws \in [0..(a + 1 + b + 3) -> Nat]
                 /\ ws[0] = 0 /\ ws[a] = 0 /\ ws[a + 1] = 0 /\ ws[a + 1 + b] = 0
                 /\ \A i \in 1..3 : ws[a + 1 + b + i] = xs[i]
                 /\ \A i \in 1..a : QuietAt(h, ws, i)
                 /\ \A i \in 1..b : QuietAt(h, ws, a + 1 + i)
  BY <1>9
<1>11. /\ 1 \in 1..3 /\ 2 \in 1..3 /\ 3 \in 1..3
       /\ (a + 1) - 1 = a /\ (a + 1 + b + 1) - 1 = a + 1 + b /\ (a + 1 + b + 2) - 1 = a + 1 + b + 1
       /\ (a + 1 + b + 3) - 1 = a + 1 + b + 2
       /\ a + 1 + (b + 2) = a + 1 + b + 2 /\ a + 1 + b + 2 + 1 = a + 1 + b + 3
       /\ a + 1 + (b + 2) <= a + 1 + b + 3 /\ a + 1 + b + 2 + 1 <= a + 1 + b + 3
       /\ b + 2 \in Nat /\ 1 \in Nat
  BY <1>9
<1>12. /\ h[a + 1 + b + 1] = Test /\ h[a + 1 + b + 2] = Skip("always", 1)
       /\ h[a + 1 + b + 3] = Imm("rax", 8, n)
       /\ ws[a + 1 + b + 1] = 0 /\ ws[a + 1 + b + 2] = 0 /\ ws[a + 1 + b + 3] = 0
  BY <1>4, <1>9, <1>10, <1>11
<1>13. QuietAt(h, ws, a + 1)
  <2>1. h[a + 1] = c /\ Len(h) = a + 1 + b + 3 /\ ws[a + 1 + (b + 2)] = 0 /\ ws[a] = 0 /\ ws[a + 1] = 0
    BY <1>9, <1>10, <1>11, <1>12
  <2> QED BY <1>8, <1>11, <2>1 DEF QuietAt
<1>14. QuietAt(h, ws, a + 1 + b + 1)
  BY <1>8, <1>10, <1>11, <1>12 DEF QuietAt
<1>15. QuietAt(h, ws, a + 1 + b + 2)
  <2>1. /\ h[a + 1 + b + 2] = Skip("always", 1) /\ ws[(a + 1 + b + 2) - 1] = 0 /\ ws[a + 1 + b + 2] = 0
        /\ ws[a + 1 + b + 2 + 1] = 0 /\ a + 1 + b + 2 + 1 <= Len(h)
    BY <1>9, <1>11, <1>12
  <2> QED BY <1>8, <2>1 DEF QuietAt
<1>16. QuietAt(h, ws, a + 1 + b + 3)
  BY <1>8, <1>10, <1>11, <1>12 DEF QuietAt
<1>17. \A i \in 1..(a + 1 + b + 3) : QuietAt(h, ws, i)
  <2> SUFFICES ASSUME NEW i \in 1..(a + 1 + b + 3) PROVE QuietAt(h, ws, i)
    OBVIOUS
  <2>1. CASE i <= a
    BY <1>9, <1>10, <2>1
  <2>2. CASE ~(i <= a + 1) /\ i <= a + 1 + b
    <3>1. i - (a + 1) \in 1..b /\ a + 1 + (i - (a + 1)) = i
      BY <1>9, <2>2
    <3>2. QuietAt(h, ws, a + 1 + (i - (a + 1)))
      BY <1>10, <3>1
    <3> QED BY <3>1, <3>2
  <2>3. i <= a \/ i = a + 1 \/ (~(i <= a + 1) /\ i <= a + 1 + b) \/ i = a + 1 + b + 1 \/ i = a + 1 + b + 2
        \/ i = a + 1 + b + 3
    BY <1>9
  <2> QED BY <1>13, <1>14, <1>15, <1>16, <2>1, <2>2, <2>3
<1>18. Waits(h, ws)
  BY <1>9, <1>10, <1>12, <1>17 DEF Waits
<1> QED BY <1>7, <1>18 DEF Quietly
-----------------------------------------------------------------------------
(* The text of a tree: the texts of the operands lie on a stack.           *)
NodeText(p, vs, s, n) ==
  IF n.kind = "INT_LIT" THEN <<Imm("rax", 4, n.value)>> ELSE LoadCode(p, vs, n.name, s)
JoinText(vs, s, l, r, op) ==
  IF op \in Logical THEN ShortCircuit(l, r, op) ELSE Combine(l, r, RightWidth(vs, s, op), op)
NextTexts(p, vs, s, texts, n) ==
  IF n.kind = "BIN"
  THEN SubSeq(texts, 1, Len(texts) - 2)
         \o <<JoinText(vs, s, texts[Len(texts) - 1], texts[Len(texts)], n.op)>>
  ELSE texts \o <<NodeText(p, vs, s, n)>>
TextsFrom(p, vs, s, nodes, n, f) ==
  f = [k \in 0..n |-> IF k = 0 THEN <<>> ELSE NextTexts(p, vs, s, f[k - 1], nodes[k])]

LEMMA TextsExist ==
  ASSUME NEW p, NEW vs, NEW s, NEW nodes, NEW n \in Nat
  PROVE  \E f : TextsFrom(p, vs, s, nodes, n, f)
<1> DEFINE T == {m \in 0..n : \E f : TextsFrom(p, vs, s, nodes, m, f)}
<1>1. 0 \in T
  <2> DEFINE f == [k \in 0..0 |-> <<>>]
  <2>1. f = [k \in 0..0 |-> IF k = 0 THEN <<>> ELSE NextTexts(p, vs, s, f[k - 1], nodes[k])]
    OBVIOUS
  <2> HIDE DEF f
  <2>2. TextsFrom(p, vs, s, nodes, 0, f)
    BY <2>1 DEF TextsFrom
  <2> QED BY <2>2
<1>2. ASSUME NEW m \in 0..(n - 1), m \in T PROVE m + 1 \in T
  <2>1. PICK f : TextsFrom(p, vs, s, nodes, m, f)
    BY <1>2
  <2> DEFINE g == [k \in 0..(m + 1) |-> IF k = m + 1 THEN NextTexts(p, vs, s, f[m], nodes[m + 1]) ELSE f[k]]
             h == [k \in 0..(m + 1) |-> IF k = 0 THEN <<>> ELSE NextTexts(p, vs, s, g[k - 1], nodes[k])]
  <2>2. m \in Nat /\ m + 1 \in 0..n /\ m + 1 \in 0..(m + 1) /\ m + 1 # 0 /\ (m + 1) - 1 = m /\ m \in 0..m
    OBVIOUS
  <2>3. \A k \in 0..m : g[k] = f[k]
    BY <2>2
  <2>4. \A k \in 0..m : f[k] = IF k = 0 THEN <<>> ELSE NextTexts(p, vs, s, f[k - 1], nodes[k])
    BY <2>1, Zenon DEF TextsFrom
  <2>5. \A k \in 0..(m + 1) : g[k] = h[k]
    <3> SUFFICES ASSUME NEW k \in 0..(m + 1) PROVE g[k] = h[k]
      OBVIOUS
    <3>1. CASE k = m + 1
      <4>1. g[k] = NextTexts(p, vs, s, f[m], nodes[m + 1]) /\ g[m] = f[m]
        BY <2>2, <2>3, <3>1
      <4>2. h[k] = NextTexts(p, vs, s, g[k - 1], nodes[k])
        BY <2>2, <3>1
      <4> HIDE DEF g, h
      <4> QED BY <2>2, <3>1, <4>1, <4>2
    <3>2. CASE k # m + 1
      <4>1. k \in 0..m /\ (k # 0 => k - 1 \in 0..m)
        BY <2>2, <3>2
      <4>2. h[k] = IF k = 0 THEN <<>> ELSE NextTexts(p, vs, s, g[k - 1], nodes[k])
        OBVIOUS
      <4> HIDE DEF g, h
      <4> QED BY <2>3, <2>4, <4>1, <4>2
    <3> QED BY <3>1, <3>2
  <2>6. g = h
    <3>1. g = [k \in 0..(m + 1) |-> g[k]] /\ h = [k \in 0..(m + 1) |-> h[k]]
      OBVIOUS
    <3> HIDE DEF g, h
    <3> QED BY <2>5, <3>1
  <2>7. TextsFrom(p, vs, s, nodes, m + 1, g)
    <3>1. g = [k \in 0..(m + 1) |-> IF k = 0 THEN <<>> ELSE NextTexts(p, vs, s, g[k - 1], nodes[k])]
      BY <2>6, Zenon
    <3> HIDE DEF g, h
    <3> QED BY <3>1 DEF TextsFrom
  <2> HIDE DEF g, h
  <2> QED BY <2>2, <2>7
<1>3. 0..n \subseteq T
  <2> HIDE DEF T
  <2> QED BY <1>1, <1>2, UpTo
<1>4. n \in T
  <2> HIDE DEF T
  <2> QED BY <1>3
<1> QED BY <1>4

LEMMA OperandIs ==
  ASSUME NEW p, NEW vs, NEW e, NEW s, Len(e.nodes) \in Nat
  PROVE  \E f : /\ TextsFrom(p, vs, s, e.nodes, Len(e.nodes), f)
                /\ OperandCode(p, vs, e, s) = f[Len(e.nodes)][1]
<1> DEFINE n == Len(e.nodes)
           f == CHOOSE f : TextsFrom(p, vs, s, e.nodes, n, f)
<1>1. TextsFrom(p, vs, s, e.nodes, n, f)
  <2> HIDE DEF n
  <2> QED BY TextsExist DEF n
<1>2. OperandCode(p, vs, e, s) = f[n][1]
  BY DEF OperandCode, Evaluate, TextsFrom, NextTexts, NodeText, JoinText
<1> QED BY <1>1, <1>2

(* How many operands wait behind each node.                                *)
Puts(n) == IF n.kind = "BIN" THEN -1 ELSE 1
WaitingFrom(nodes, n, f) == f = [k \in 0..n |-> IF k = 0 THEN 0 ELSE f[k - 1] + Puts(nodes[k])]

LEMMA WaitingExists ==
  ASSUME NEW nodes, NEW n \in Nat
  PROVE  \E f : WaitingFrom(nodes, n, f)
<1> DEFINE step == [k \in 1..n |-> [d \in Int |-> d + Puts(nodes[k])]]
<1>1. \A k \in 1..n : \A d \in Int : step[k][d] = d + Puts(nodes[k]) /\ step[k][d] \in Int
  BY DEF Puts
<1>2. PICK f \in [0..n -> Int] : f[0] = 0 /\ \A k \in 1..n : f[k] = step[k][f[k - 1]]
  <2>1. 0 \in Int /\ Keeps(step, Int, n)
    BY <1>1 DEF Keeps
  <2>2. \E f \in [0..n -> Int] : Runs(f, step, 0, n)
    <3> HIDE DEF step
    <3> QED BY <2>1, Recursive
  <2> HIDE DEF step
  <2> QED BY <2>2 DEF Runs
<1> HIDE DEF step
<1> DEFINE h == [k \in 0..n |-> IF k = 0 THEN 0 ELSE f[k - 1] + Puts(nodes[k])]
<1>3. \A k \in 0..n : h[k] = f[k]
  <2> SUFFICES ASSUME NEW k \in 0..n PROVE h[k] = f[k]
    OBVIOUS
  <2>1. CASE k = 0
    BY <1>2, <2>1
  <2>2. CASE k # 0
    <3>1. k \in 1..n /\ k - 1 \in 0..n
      BY <2>2
    <3>2. f[k] = f[k - 1] + Puts(nodes[k])
      BY <1>1, <1>2, <3>1
    <3>3. h[k] = f[k - 1] + Puts(nodes[k])
      BY <2>2
    <3> QED BY <3>2, <3>3
  <2> QED BY <2>1, <2>2
<1>4. h = f
  <2>1. h = [k \in 0..n |-> h[k]] /\ f = [k \in 0..n |-> f[k]]
    BY <1>2
  <2> HIDE DEF h
  <2> QED BY <1>3, <2>1
<1>5. f = [k \in 0..n |-> IF k = 0 THEN 0 ELSE f[k - 1] + Puts(nodes[k])]
  BY <1>4, Zenon
<1> HIDE DEF h
<1> QED BY <1>5 DEF WaitingFrom

IsNode(n, waiting) ==
  \/ n.kind = "BIN" /\ n.op \in Operations /\ waiting >= 2
  \/ n.kind = "INT_LIT" /\ n.value \in Int
  \/ n.kind = "IDENT"

LEMMA TreeIs ==
  ASSUME NEW nodes, IsTree(nodes)
  PROVE  /\ Len(nodes) \in Nat
         /\ \E w \in [0..Len(nodes) -> Int] :
              /\ w[0] = 0 /\ w[Len(nodes)] = 1
              /\ \A k \in 1..Len(nodes) : w[k] = w[k - 1] + Puts(nodes[k]) /\ IsNode(nodes[k], w[k - 1])
<1> DEFINE n == Len(nodes)
           f == CHOOSE f : WaitingFrom(nodes, n, f)
<1>1. n \in Nat
  BY DEF IsTree
<1>2. WaitingFrom(nodes, n, f)
  <2> HIDE DEF n
  <2> QED BY <1>1, WaitingExists
<1>3. f[n] = 1 /\ \A k \in 1..n : IsNode(nodes[k], f[k - 1])
  BY DEF IsTree, WaitingFrom, Puts, IsNode
<1> HIDE DEF n, f
<1>4. f = [k \in 0..n |-> IF k = 0 THEN 0 ELSE f[k - 1] + Puts(nodes[k])]
  BY <1>2 DEF WaitingFrom
<1>5. f[0] = 0 /\ \A k \in 1..n : f[k] = f[k - 1] + Puts(nodes[k])
  <2>1. 0 \in 0..n /\ \A k \in 1..n : k \in 0..n /\ k # 0
    BY <1>1
  <2> QED BY <1>4, <2>1
<1>6. \A k \in 0..n : f[k] \in Int
  <2> DEFINE T == {k \in 0..n : f[k] \in Int}
  <2>1. 0 \in T
    BY <1>1, <1>5
  <2>2. ASSUME NEW k \in 0..(n - 1), k \in T PROVE k + 1 \in T
    <3>1. k + 1 \in 1..n /\ (k + 1) - 1 = k /\ k + 1 \in 0..n
      BY <1>1
    <3>2. f[k + 1] = f[k] + Puts(nodes[k + 1])
      BY <1>5, <3>1
    <3> QED BY <2>2, <3>1, <3>2 DEF Puts
  <2>3. 0..n \subseteq T
    <3> HIDE DEF T
    <3> QED BY <1>1, <2>1, <2>2, UpTo
  <2> QED BY <2>3
<1>7. f \in [0..n -> Int]
  <2>1. f = [k \in 0..n |-> f[k]]
    BY <1>4
  <2> QED BY <1>6, <2>1
<1> QED BY <1>1, <1>3, <1>5, <1>7 DEF n

(* A text of an expression without a call is quiet.                        *)
LEMMA QuietNode ==
  ASSUME NEW p, NEW vs, NEW s, NEW n, n.kind = "INT_LIT" => n.value \in Int
  PROVE  Quietly(NodeText(p, vs, s, n))
<1>1. CASE n.kind = "INT_LIT"
  <2>1. QuietInstr(Imm("rax", 4, n.value)) /\ Imm("rax", 4, n.value).op = "imm"
    BY <1>1 DEF QuietInstr, Shaped, Imm, Registers, Widths
  <2>2. Quietly(<<Imm("rax", 4, n.value)>>)
    BY <2>1, QuietOne
  <2> QED BY <1>1, <2>2 DEF NodeText
<1>2. CASE n.kind # "INT_LIT" /\ s.kind \in DeclKinds
  <2> DEFINE c == Load("rax", SizeOf[TypeOfDecl[s.kind]], OffsetOf(p, vs, n.name))
  <2>1. QuietInstr(c) /\ c.op = "load"
    BY DEF QuietInstr, Shaped, Load, Registers
  <2> HIDE DEF c
  <2>2. Quietly(<<c>>)
    BY <2>1, QuietOne
  <2> QED BY <1>2, <2>2 DEF NodeText, LoadCode, c
<1>3. CASE n.kind # "INT_LIT" /\ s.kind \notin DeclKinds
  BY <1>3, QuietNone DEF NodeText, LoadCode
<1> QED BY <1>1, <1>2, <1>3

QuietTexts(texts, n) ==
  Listing(texts) /\ Len(texts) = n /\ \A i \in 1..n : Quietly(texts[i])

LEMMA QuietNext ==
  ASSUME NEW p, NEW vs, NEW s, NEW texts, NEW w \in Int, NEW n, QuietTexts(texts, w), IsNode(n, w)
  PROVE  QuietTexts(NextTexts(p, vs, s, texts, n), w + Puts(n))
<1> DEFINE x == IF n.kind = "BIN" THEN JoinText(vs, s, texts[w - 1], texts[w], n.op) ELSE NodeText(p, vs, s, n)
           m == IF n.kind = "BIN" THEN w - 2 ELSE w
           t == IF n.kind = "BIN" THEN SubSeq(texts, 1, w - 2) ELSE texts
<1>1. Listing(texts) /\ Len(texts) = w /\ (\A i \in 1..w : Quietly(texts[i])) /\ w \in Nat
  BY ListingFacts DEF QuietTexts
<1>2. NextTexts(p, vs, s, texts, n) = t \o <<x>>
  BY <1>1 DEF NextTexts
<1>3. Listing(t) /\ Len(t) = m /\ m \in Nat /\ (\A i \in 1..m : t[i] = texts[i] /\ i \in 1..w) /\ m + 1 = w + Puts(n)
  <2>1. CASE n.kind = "BIN"
    <3> DEFINE S == {texts[i] : i \in 1..w}
    <3>1. w >= 2
      BY <2>1 DEF IsNode
    <3>2. w - 2 \in Int /\ 1 \in Int /\ \A i \in 1..(w - 2) : texts[i] \in S
      BY <1>1
    <3> HIDE DEF S
    <3>3. /\ SubSeq(texts, 1, w - 2) \in Seq(S)
          /\ Len(SubSeq(texts, 1, w - 2)) = IF 1 <= w - 2 THEN ((w - 2) - 1) + 1 ELSE 0
          /\ \A i \in 1..(((w - 2) - 1) + 1) : SubSeq(texts, 1, w - 2)[i] = texts[(1 + i) - 1]
      BY <3>2, SubSeqProperties
    <3>4. Listing(SubSeq(texts, 1, w - 2))
      BY <3>3, ListingOf
    <3>5. /\ ((w - 2) - 1) + 1 = w - 2 /\ (IF 1 <= w - 2 THEN ((w - 2) - 1) + 1 ELSE 0) = w - 2
          /\ \A i \in 1..(w - 2) : (1 + i) - 1 = i /\ i \in 1..w
          /\ w - 2 \in Nat /\ (w - 2) + 1 = w + (-1)
      BY <1>1, <3>1
    <3>6. t = SubSeq(texts, 1, w - 2) /\ m = w - 2 /\ Puts(n) = -1
      BY <2>1 DEF Puts
    <3> HIDE DEF t, m
    <3> QED BY <3>3, <3>4, <3>5, <3>6
  <2>2. CASE n.kind # "BIN"
    BY <1>1, <2>2 DEF Puts
  <2> QED BY <2>1, <2>2
<1>4. Quietly(x)
  <2>1. CASE n.kind = "BIN"
    <3>1. w \in 1..w /\ w - 1 \in 1..w /\ n.op \in Operations
      BY <1>1, <2>1 DEF IsNode
    <3>2. Quietly(texts[w]) /\ Quietly(texts[w - 1])
      BY <1>1, <3>1
    <3>3. Quietly(JoinText(vs, s, texts[w - 1], texts[w], n.op))
      BY <3>1, <3>2, QuietCombine, QuietShort DEF JoinText
    <3> QED BY <2>1, <3>3
  <2>2. CASE n.kind # "BIN"
    <3>1. n.kind = "INT_LIT" => n.value \in Int
      BY DEF IsNode
    <3> QED BY <2>2, <3>1, QuietNode
  <2> QED BY <2>1, <2>2
<1> HIDE DEF x, m, t
<1>5. Listing(<<x>>) /\ Len(<<x>>) = 1 /\ <<x>>[1] = x
  <2>1. Len(<<x>>) = 1 /\ <<x>>[1] = x
    OBVIOUS
  <2> QED BY <2>1, Tuples
<1>6. /\ Listing(t \o <<x>>) /\ Len(t \o <<x>>) = m + 1
      /\ \A i \in 1..m : (t \o <<x>>)[i] = t[i]
      /\ (t \o <<x>>)[m + 1] = x
  <2>1. /\ Listing(t \o <<x>>) /\ Len(t \o <<x>>) = Len(t) + Len(<<x>>)
        /\ \A i \in 1..Len(t) : (t \o <<x>>)[i] = t[i]
        /\ \A i \in 1..Len(<<x>>) : (t \o <<x>>)[Len(t) + i] = <<x>>[i]
    BY <1>3, <1>5, Behind
  <2>2. 1 \in 1..1
    OBVIOUS
  <2> QED BY <1>3, <1>5, <2>1, <2>2
<1>7. \A i \in 1..(m + 1) : Quietly((t \o <<x>>)[i])
  <2> SUFFICES ASSUME NEW i \in 1..(m + 1) PROVE Quietly((t \o <<x>>)[i])
    OBVIOUS
  <2>1. i = m + 1 \/ i \in 1..m
    BY <1>3
  <2> QED BY <1>1, <1>3, <1>4, <1>6, <2>1
<1> QED BY <1>2, <1>3, <1>6, <1>7 DEF QuietTexts

LEMMA QuietOperands ==
  ASSUME NEW p, NEW vs, NEW e, NEW s, IsTree(e.nodes)
  PROVE  Quietly(OperandCode(p, vs, e, s))
<1> DEFINE nodes == e.nodes
           n == Len(nodes)
<1>1. n \in Nat
  BY TreeIs
<1>2. PICK w \in [0..n -> Int] :
        /\ w[0] = 0 /\ w[n] = 1
        /\ \A k \in 1..n : w[k] = w[k - 1] + Puts(nodes[k]) /\ IsNode(nodes[k], w[k - 1])
  BY TreeIs
<1>3. PICK f : TextsFrom(p, vs, s, nodes, n, f) /\ OperandCode(p, vs, e, s) = f[n][1]
  BY <1>1, OperandIs
<1> HIDE DEF nodes, n
<1>4. f[0] = <<>> /\ \A k \in 1..n : f[k] = NextTexts(p, vs, s, f[k - 1], nodes[k])
  <2>1. f = [k \in 0..n |-> IF k = 0 THEN <<>> ELSE NextTexts(p, vs, s, f[k - 1], nodes[k])]
    BY <1>3 DEF TextsFrom
  <2>2. 0 \in 0..n /\ \A k \in 1..n : k \in 0..n /\ k # 0
    BY <1>1
  <2> QED BY <2>1, <2>2
<1> DEFINE T == {k \in 0..n : QuietTexts(f[k], w[k])}
<1>5. 0 \in T
  <2>1. QuietTexts(<<>>, 0)
    <3>1. Listing(<<>>)
      BY Tuples
    <3>2. Len(<<>>) = 0 /\ 1..0 = {}
      OBVIOUS
    <3> QED BY <3>1, <3>2 DEF QuietTexts
  <2> QED BY <1>1, <1>2, <1>4, <2>1
<1>6. ASSUME NEW k \in 0..(n - 1), k \in T PROVE k + 1 \in T
  <2>1. k + 1 \in 1..n /\ k + 1 \in 0..n /\ (k + 1) - 1 = k /\ k \in 0..n
    BY <1>1
  <2>2. /\ f[k + 1] = NextTexts(p, vs, s, f[k], nodes[k + 1])
        /\ w[k + 1] = w[k] + Puts(nodes[k + 1]) /\ IsNode(nodes[k + 1], w[k]) /\ w[k] \in Int
    BY <1>2, <1>4, <2>1
  <2>3. QuietTexts(f[k + 1], w[k + 1])
    BY <1>6, <2>2, QuietNext
  <2> QED BY <2>1, <2>3
<1>7. n \in T
  <2>1. 0..n \subseteq T
    <3> HIDE DEF T
    <3> QED BY <1>1, <1>5, <1>6, UpTo
  <2> QED BY <1>1, <2>1
<1>8. Quietly(f[n][1])
  <2>1. QuietTexts(f[n], 1)
    BY <1>2, <1>7
  <2> QED BY <2>1 DEF QuietTexts
<1> QED BY <1>3, <1>8

(* In a body such a text leads back to the level it began at.              *)
InPart(v, h) == Level(v.main, "body", v.high + h, v.rdi)

LEMMA QuietStep ==
  ASSUME NEW c, NEW v \in LevelType, v.part = "body", QuietInstr(c), NEW h \in Nat, NEW g \in Nat,
         g = CASE c.op = "push" -> h + 1 [] c.op = "pop" -> h - 1 [] OTHER -> h
  PROVE  LET u == InPart(v, 8 * h)
             w == InPart(v, 8 * g)
         IN  /\ u \in LevelType /\ w \in LevelType
             /\ Meets(c, u) = u /\ Leads(c, u) = w /\ w.high <= u.high + 16 /\ Right(c, u)
             /\ c.op = "skip" => After(c, u) = u
<1> DEFINE u == InPart(v, 8 * h)
           w == InPart(v, 8 * g)
<1>1. v.main \in BOOLEAN /\ v.high \in Nat /\ v.rdi \in RdiType /\ "body" \in Parts /\ v.high + 8 * h \in Nat
      /\ v.high + 8 * g \in Nat
  BY LevelOf DEF Parts
<1>2. u \in LevelType /\ u.main = v.main /\ u.part = "body" /\ u.high = v.high + 8 * h /\ u.rdi = v.rdi
  BY <1>1, LevelIs DEF InPart
<1>3. w \in LevelType /\ w.high = v.high + 8 * g
  BY <1>1, LevelIs DEF InPart
<1>4. /\ c.op \in {"imm", "copy", "load", "push", "pop", "alu", "test", "skip"} /\ Shaped(c)
      /\ c.op \in {"imm", "copy", "load", "pop"} => c.reg \in {"rax", "rbx"}
  BY DEF QuietInstr
<1>5. ~Sets(c, "rdi") /\ ~Sets(c, "rsp") /\ ~Sets(c, "rbp") /\ c.op # "call"
  BY <1>4 DEF Sets
<1>6. c.op # "label" /\ c.op # "ret" /\ c.op # "leave" /\ c.op # "addsp" /\ c.op # "store" /\ c.op # "jump"
      /\ c.op # "jz" /\ c.op # "syscall"
  BY <1>4
<1> HIDE DEF u, w
<1>7. Meets(c, u) = u
  BY <1>2, <1>6, MeetsIs
<1>8. /\ c.op = "push" => After(c, u) = Level(u.main, "body", u.high + 8, u.rdi)
      /\ c.op = "pop" => After(c, u) = Level(u.main, "body", u.high - 8, u.rdi)
      /\ c.op \notin {"push", "pop", "addsp", "leave"} => After(c, u) = u
  BY <1>2, <1>5, InBody
<1>9. After(c, u) = w
  <2>1. CASE c.op = "push"
    <3>1. u.high + 8 = v.high + 8 * g
      BY <1>1, <1>2, <2>1
    <3> QED BY <1>2, <1>8, <2>1, <3>1 DEF w, InPart
  <2>2. CASE c.op = "pop"
    <3>1. u.high - 8 = v.high + 8 * g
      BY <1>1, <1>2, <2>2
    <3> QED BY <1>2, <1>8, <2>2, <3>1 DEF w, InPart
  <2>3. CASE c.op \notin {"push", "pop"}
    <3>1. g = h
      BY <2>3
    <3> QED BY <1>6, <1>8, <2>3, <3>1 DEF w, u
  <2> QED BY <2>1, <2>2, <2>3
<1>10. Leads(c, u) = w
  BY <1>6, <1>9 DEF Leads
<1>11. w.high <= u.high + 16
  BY <1>1, <1>2, <1>3
<1>12. c.op = "pop" => u.high >= 8
  <2>1. ASSUME c.op = "pop" PROVE u.high >= 8
    <3>1. g = h - 1
      BY <2>1
    <3> QED BY <1>1, <1>2, <3>1
  <2> QED BY <2>1
<1>13. Allowed(c, u)
  BY <1>2, <1>5, <1>6, <1>12 DEF Allowed
<1>14. Right(c, u)
  BY <1>4, <1>6, <1>5, <1>13 DEF Right
<1>15. c.op = "skip" => After(c, u) = u
  BY <1>8
<1> QED BY <1>2, <1>3, <1>7, <1>10, <1>11, <1>14, <1>15 DEF u, w

LEMMA CoversSelf ==
  ASSUME NEW u
  PROVE  Covers(u, u)
<1> QED BY DEF Covers

LEMMA QuietWalks ==
  ASSUME NEW f, NEW v \in LevelType, v.part = "body", Quietly(f)
  PROVE  Piece(f, v, v)
<1>1. PICK hs : Waits(f, hs)
  BY DEF Quietly
<1> DEFINE n  == Len(f)
           us == [k \in 0..n |-> InPart(v, 8 * hs[k])]
<1>2. /\ Listing(f) /\ hs \in [0..n -> Nat] /\ hs[0] = 0 /\ hs[n] = 0 /\ n \in Nat
      /\ \A i \in 1..n : QuietAt(f, hs, i)
  BY <1>1, ListingFacts DEF Waits
<1>3. v = InPart(v, 8 * 0)
  <2>1. v.high + 8 * 0 = v.high
    BY LevelOf
  <2> QED BY <2>1, LevelOf DEF InPart
<1> HIDE DEF n
<1>4. \A k \in 0..n : us[k] = InPart(v, 8 * hs[k])
  OBVIOUS
<1>5. us \in [0..n -> LevelType]
  <2> SUFFICES ASSUME NEW k \in 0..n PROVE InPart(v, 8 * hs[k]) \in LevelType
    OBVIOUS
  <2>1. v.main \in BOOLEAN /\ v.high \in Nat /\ v.rdi \in RdiType /\ "body" \in Parts /\ hs[k] \in Nat
    BY <1>2, LevelOf DEF Parts
  <2>2. v.high + 8 * hs[k] \in Nat
    BY <2>1
  <2> QED BY <2>1, <2>2, LevelIs DEF InPart
<1> HIDE DEF us
<1>6. ASSUME NEW i \in 1..n PROVE WalksAt(f, us, i)
  <2> DEFINE c == f[i]
             h == hs[i - 1]
             g == hs[i]
             u == InPart(v, 8 * h)
             w == InPart(v, 8 * g)
  <2>1. i \in 0..n /\ i - 1 \in 0..n /\ i \in Nat
    BY <1>2
  <2>2. us[i - 1] = u /\ us[i] = w /\ h \in Nat /\ g \in Nat
    BY <1>2, <1>4, <2>1
  <2>3. /\ QuietInstr(c)
        /\ g = CASE c.op = "push" -> h + 1 [] c.op = "pop" -> h - 1 [] OTHER -> h
        /\ c.op = "skip" => c.value \in Nat /\ i + c.value <= n /\ hs[i + c.value] = h
    BY <1>2 DEF QuietAt, n
  <2> HIDE DEF c, h, g
  <2>4. /\ u \in LevelType /\ w \in LevelType
        /\ Meets(c, u) = u /\ Leads(c, u) = w /\ w.high <= u.high + 16 /\ Right(c, u)
        /\ c.op = "skip" => After(c, u) = u
    BY <2>2, <2>3, QuietStep
  <2> HIDE DEF u, w
  <2>5. ASSUME c.op = "skip"
        PROVE  /\ i + c.value <= n /\ f[i + c.value].op \notin {"jump", "store", "syscall"}
               /\ Covers(us[i + c.value], After(c, Meets(c, u)))
    <3>1. c.value \in Nat /\ i + c.value <= n /\ hs[i + c.value] = h
      BY <2>3, <2>5
    <3>2. i + c.value \in 1..n /\ i + c.value \in 0..n
      BY <1>2, <2>1, <3>1
    <3>3. us[i + c.value] = u
      BY <1>4, <3>1, <3>2 DEF u
    <3>4. f[i + c.value].op \notin {"jump", "store", "syscall"}
      <4>1. QuietInstr(f[i + c.value])
        BY <1>2, <3>2 DEF QuietAt
      <4> QED BY <4>1 DEF QuietInstr
    <3> QED BY <2>4, <2>5, <3>1, <3>3, <3>4, CoversSelf
  <2>6. c.op # "label"
    BY <2>3 DEF QuietInstr
  <2>7. Placed(f, us, i)
    BY <2>2, <2>3, <2>5, <2>6 DEF Placed, IsFunc, c, n
  <2> QED BY <2>2, <2>4, <2>7 DEF WalksAt, c
<1>7. Walks(f, us)
  BY <1>2, <1>5, <1>6 DEF Walks, n
<1>8. us[0] = v /\ us[n] = v
  <2>1. 0 \in 0..n /\ n \in 0..n
    BY <1>2
  <2> QED BY <1>2, <1>3, <1>4, <2>1
<1> QED BY <1>7, <1>8 DEF Piece, n
-----------------------------------------------------------------------------
(* The levels between the instructions of a body.  Between two statements  *)
(* of the main frame nothing is in use.                                    *)
AtBody(v)   == v \in LevelType /\ v.part = "body" /\ (v.main => v.high = 0)
Still(v, w) == AtBody(w) /\ w.main = v.main /\ w.high = v.high

LEMMA BodyIs ==
  ASSUME NEW v, AtBody(v), NEW r \in RdiType
  PROVE  /\ v = Level(v.main, "body", v.high, v.rdi) /\ v.main \in BOOLEAN /\ v.high \in Nat /\ v.rdi \in RdiType
         /\ LET w == Level(v.main, "body", v.high, r)
            IN  Still(v, w) /\ w.rdi = r /\ w \in LevelType
<1>1. v = Level(v.main, "body", v.high, v.rdi) /\ v.main \in BOOLEAN /\ v.high \in Nat /\ v.rdi \in RdiType
  BY LevelOf DEF AtBody
<1> DEFINE w == Level(v.main, "body", v.high, r)
<1>2. w \in LevelType /\ w.main = v.main /\ w.part = "body" /\ w.high = v.high /\ w.rdi = r
  BY <1>1, LevelIs DEF Parts
<1> HIDE DEF w
<1>3. Still(v, w)
  BY <1>2 DEF Still, AtBody
<1> QED BY <1>1, <1>2, <1>3 DEF w

LEMMA StillOne ==
  ASSUME NEW c, NEW v, AtBody(v), Shaped(c),
         c.op \in {"imm", "copy", "load", "store", "alu", "test", "syscall"},
         ~Sets(c, "rsp"), ~Sets(c, "rbp"), c.op = "store" => c.reg # "rdi"
  PROVE  LET w == Level(v.main, "body", v.high, RdiAfter(c, v))
         IN  Still(v, w) /\ Piece(<<c>>, v, w)
<1> DEFINE w == Level(v.main, "body", v.high, RdiAfter(c, v))
<1>1. v \in LevelType /\ v.part = "body" /\ (v.main => v.high = 0) /\ v.high \in Nat
  BY LevelOf DEF AtBody
<1>2. RdiAfter(c, v) \in RdiType
  BY <1>1, RdiIs
<1>3. Still(v, w) /\ w \in LevelType
  BY <1>2, BodyIs
<1>4. Meets(c, v) = v
  BY <1>1, MeetsIs
<1>5. Leads(c, v) = w
  <2>1. LET u == After(c, v) IN u = Level(v.main, u.part, u.high, RdiAfter(c, v)) /\ u.part = "body" /\ u.high = v.high
    BY <1>1, AfterIs
  <2> QED BY <2>1 DEF Leads
<1>6. Allowed(c, v)
  BY <1>1 DEF Allowed
<1>7. Right(c, v)
  BY <1>1, <1>6 DEF Right
<1> HIDE DEF w
<1>8. w.high <= v.high + 16
  BY <1>1, <1>3 DEF Still
<1>9. Piece(<<c>>, v, w)
  BY <1>1, <1>3, <1>4, <1>5, <1>7, <1>8, Alone DEF IsFunc
<1> QED BY <1>3, <1>9 DEF w

(* The labels of a text, and the labels it wants.                          *)
Labels(f) == {<<f[i].tag, f[i].id>> : i \in {k \in 1..Len(f) : f[k].op = "label"}}
Wanted(f) == {<<f[i].tag, f[i].id>> : i \in {k \in 1..Len(f) : f[k].op \in {"jump", "jz", "call"}}}
Funcs(fs) == {<<"func", x>> : x \in fs}

LEMMA LinksBehind ==
  ASSUME NEW f, NEW g, Listing(f), Listing(g)
  PROVE  /\ Labels(f) \subseteq Labels(f \o g) /\ Labels(g) \subseteq Labels(f \o g)
         /\ Wanted(f \o g) \subseteq Wanted(f) \cup Wanted(g)
<1> DEFINE h == f \o g
           a == Len(f)
           b == Len(g)
<1>1. /\ Len(h) = a + b /\ (\A i \in 1..a : h[i] = f[i]) /\ (\A i \in 1..b : h[a + i] = g[i])
      /\ a \in Nat /\ b \in Nat
  BY Behind, ListingFacts
<1> HIDE DEF h
<1>2. Labels(f) \subseteq Labels(h)
  <2> SUFFICES ASSUME NEW i \in 1..a, f[i].op = "label" PROVE <<f[i].tag, f[i].id>> \in Labels(h)
    BY DEF Labels
  <2>1. i \in 1..Len(h) /\ h[i] = f[i]
    BY <1>1
  <2> HIDE DEF a, b
  <2> QED BY <2>1 DEF Labels
<1>3. Labels(g) \subseteq Labels(h)
  <2> SUFFICES ASSUME NEW i \in 1..b, g[i].op = "label" PROVE <<g[i].tag, g[i].id>> \in Labels(h)
    BY DEF Labels
  <2>1. a + i \in 1..Len(h) /\ h[a + i] = g[i]
    BY <1>1
  <2> HIDE DEF a, b
  <2> QED BY <2>1 DEF Labels
<1>4. Wanted(h) \subseteq Wanted(f) \cup Wanted(g)
  <2> SUFFICES ASSUME NEW i \in 1..Len(h), h[i].op \in {"jump", "jz", "call"}
               PROVE  <<h[i].tag, h[i].id>> \in Wanted(f) \cup Wanted(g)
    BY DEF Wanted
  <2>1. CASE i <= a
    <3>1. i \in 1..a /\ h[i] = f[i]
      BY <1>1, <2>1
    <3> QED BY <3>1 DEF Wanted
  <2>2. CASE ~(i <= a)
    <3>1. i - a \in 1..b /\ a + (i - a) = i
      BY <1>1, <2>2
    <3>2. h[i] = g[i - a]
      BY <1>1, <3>1
    <3> QED BY <3>1, <3>2 DEF Wanted
  <2> QED BY <2>1, <2>2
<1> QED BY <1>2, <1>3, <1>4 DEF h

(* A text that may stand in every body: it leaves the stack as it was and  *)
(* calls only functions of the program.                                    *)
Steady(f, fs) ==
  /\ Listing(f) /\ Wanted(f) \subseteq Funcs(fs)
  /\ \A v : AtBody(v) => \E w : Still(v, w) /\ Piece(f, v, w)

LEMMA SteadyBehind ==
  ASSUME NEW f, NEW g, NEW fs, Steady(f, fs), Steady(g, fs)
  PROVE  Steady(f \o g, fs)
<1>1. Listing(f) /\ Listing(g) /\ Wanted(f) \subseteq Funcs(fs) /\ Wanted(g) \subseteq Funcs(fs)
  BY DEF Steady
<1>2. Listing(f \o g) /\ Wanted(f \o g) \subseteq Funcs(fs)
  BY <1>1, Behind, LinksBehind
<1>3. ASSUME NEW v, AtBody(v) PROVE \E w : Still(v, w) /\ Piece(f \o g, v, w)
  <2>1. PICK u : Still(v, u) /\ Piece(f, v, u)
    BY <1>3 DEF Steady
  <2>2. PICK w : Still(u, w) /\ Piece(g, u, w)
    BY <2>1 DEF Steady, Still
  <2>3. Piece(f \o g, v, w)
    BY <2>1, <2>2, PieceBehind
  <2>4. Still(v, w)
    BY <2>1, <2>2 DEF Still
  <2> QED BY <2>3, <2>4
<1> QED BY <1>2, <1>3 DEF Steady

LEMMA SteadyOne ==
  ASSUME NEW c, NEW fs, Shaped(c),
         c.op \in {"imm", "copy", "load", "store", "alu", "test", "syscall"},
         ~Sets(c, "rsp"), ~Sets(c, "rbp"), c.op = "store" => c.reg # "rdi"
  PROVE  Steady(<<c>>, fs)
<1>1. Listing(<<c>>)
  BY Tuples
<1>2. Wanted(<<c>>) = {}
  <2>1. Len(<<c>>) = 1 /\ <<c>>[1] = c /\ \A i \in 1..1 : i = 1
    OBVIOUS
  <2> QED BY <2>1 DEF Wanted
<1>3. ASSUME NEW v, AtBody(v) PROVE \E w : Still(v, w) /\ Piece(<<c>>, v, w)
  BY <1>3, StillOne
<1> QED BY <1>1, <1>2, <1>3 DEF Steady

LEMMA SteadyNone ==
  ASSUME NEW fs
  PROVE  Steady(<<>>, fs)
<1>1. Listing(<<>>)
  BY Tuples
<1>2. Wanted(<<>>) = {}
  <2>1. Len(<<>>) = 0 /\ 1..0 = {}
    OBVIOUS
  <2> QED BY <2>1 DEF Wanted
<1>3. ASSUME NEW v, AtBody(v) PROVE \E w : Still(v, w) /\ Piece(<<>>, v, w)
  <2>1. Piece(<<>>, v, v) /\ Still(v, v)
    BY <1>3, Nothing DEF AtBody, Still
  <2> QED BY <2>1
<1> QED BY <1>1, <1>2, <1>3 DEF Steady

LEMMA SteadyQuiet ==
  ASSUME NEW f, NEW fs, Quietly(f)
  PROVE  Steady(f, fs)
<1>1. PICK hs : Waits(f, hs)
  BY DEF Quietly
<1>2. Listing(f) /\ \A i \in 1..Len(f) : QuietInstr(f[i])
  BY <1>1 DEF Waits, QuietAt
<1>3. Wanted(f) = {}
  BY <1>2 DEF Wanted, QuietInstr
<1>4. ASSUME NEW v, AtBody(v) PROVE \E w : Still(v, w) /\ Piece(f, v, w)
  <2>1. Piece(f, v, v) /\ Still(v, v)
    BY <1>4, QuietWalks DEF AtBody, Still
  <2> QED BY <2>1
<1> QED BY <1>2, <1>3, <1>4 DEF Steady
-----------------------------------------------------------------------------
(* The text of a call.                                                     *)
LEMMA ListingFun ==
  ASSUME NEW n \in Nat, NEW g, g = [i \in 1..n |-> g[i]]
  PROVE  Listing(g) /\ Len(g) = n
<1>1. g \in [1..n -> {g[i] : i \in 1..n}]
  OBVIOUS
<1>2. g \in Seq({g[i] : i \in 1..n})
  BY <1>1, SeqDef
<1>3. DOMAIN g = 1..n /\ DOMAIN g = 1..Len(g) /\ Len(g) \in Nat
  BY <1>1, <1>2, LenProperties
<1> QED BY <1>2, <1>3, ListingOf

LEMMA ArgRegIs ==
  ASSUME NEW k \in 1..6
  PROVE  /\ ArgReg[k] \in Registers /\ ArgReg[k] \notin {"rsp", "rbp", "rax"}
         /\ ArgReg[k] = "rdi" <=> k = 1
<1>1. k = 1 \/ k = 2 \/ k = 3 \/ k = 4 \/ k = 5 \/ k = 6
  OBVIOUS
<1>2. ArgReg[1] = "rdi" /\ ArgReg[2] = "rsi" /\ ArgReg[3] = "rdx" /\ ArgReg[4] = "rcx" /\ ArgReg[5] = "r8" /\ ArgReg[6] = "r9"
  BY DEF ArgReg
<1> QED BY <1>1, <1>2 DEF Registers

(* What rdi holds behind the arguments.                                    *)
Passing(args) == [i \in DOMAIN args |-> Imm(ArgReg[i], ArgWidth(args[i].type), args[i].value)]

LEMMA PassingWalks ==
  ASSUME NEW args, AreArgs(args), NEW v, AtBody(v)
  PROVE  \E r \in RdiType :
           /\ Piece(Passing(args), v, Level(v.main, "body", v.high, r))
           /\ 1 \in DOMAIN args /\ args[1].type = "int_lit" => args[1].value \in Int /\ r = Number(args[1].value)
<1> DEFINE n == Len(args)
           g == Passing(args)
           q == RdiAfter(g[1], v)
           r == IF n = 0 THEN v.rdi ELSE q
           us == [k \in 0..n |-> Level(v.main, "body", v.high, IF k = 0 THEN v.rdi ELSE q)]
<1>1. n \in 0..6 /\ DOMAIN args = 1..n /\ n \in Nat
  BY DEF AreArgs
<1>2. \A i \in 1..n : g[i] = Imm(ArgReg[i], ArgWidth(args[i].type), args[i].value)
  BY <1>1 DEF Passing
<1>3. Listing(g) /\ Len(g) = n
  <2>1. g = [i \in 1..n |-> g[i]]
    BY <1>1 DEF Passing
  <2> HIDE DEF g, n
  <2> QED BY <1>1, <2>1, ListingFun
<1>4. ASSUME NEW i \in 1..n
      PROVE  /\ g[i].op = "imm" /\ g[i].reg \in Registers /\ g[i].reg \notin {"rsp", "rbp"}
             /\ g[i].reg = "rdi" <=> i = 1
             /\ g[i].width = ArgWidth(args[i].type) /\ g[i].width \in Widths
             /\ g[i].value = args[i].value /\ g[i].value \in Int
             /\ Shaped(g[i])
  <2>1. i \in 1..6
    BY <1>1
  <2>2. ArgReg[i] \in Registers /\ ArgReg[i] \notin {"rsp", "rbp", "rax"} /\ (ArgReg[i] = "rdi" <=> i = 1)
    BY <2>1, ArgRegIs
  <2>3. ArgWidth(args[i].type) \in Widths
    BY DEF ArgWidth, Widths
  <2>4. args[i].value \in Int
    BY <1>1 DEF AreArgs
  <2>5. /\ g[i].op = "imm" /\ g[i].reg = ArgReg[i] /\ g[i].width = ArgWidth(args[i].type)
        /\ g[i].value = args[i].value
    <3>1. g[i] = Imm(ArgReg[i], ArgWidth(args[i].type), args[i].value)
      BY <1>2
    <3> HIDE DEF g
    <3> QED BY <3>1 DEF Imm
  <2> HIDE DEF g
  <2>6. Shaped(g[i])
    BY <2>2, <2>3, <2>4, <2>5 DEF Shaped
  <2> QED BY <2>2, <2>3, <2>4, <2>5, <2>6
<1> HIDE DEF g, n
<1>5. v \in LevelType /\ v.main \in BOOLEAN /\ v.high \in Nat /\ v.rdi \in RdiType
      /\ v = Level(v.main, "body", v.high, v.rdi)
  BY LevelOf DEF AtBody
<1>6. n # 0 => 1 \in 1..n /\ q \in RdiType
  <2>1. n # 0 => 1 \in 1..n
    BY <1>1
  <2>2. 1 \in 1..n => q \in RdiType
    BY <1>4, <1>5, RdiIs
  <2> QED BY <2>1, <2>2
<1>7. us \in [0..n -> LevelType] /\ us[0] = v /\ us[n] = Level(v.main, "body", v.high, r) /\ r \in RdiType
  <2>1. \A k \in 0..n : Level(v.main, "body", v.high, IF k = 0 THEN v.rdi ELSE q) \in LevelType
    <3> SUFFICES ASSUME NEW k \in 0..n
                 PROVE  Level(v.main, "body", v.high, IF k = 0 THEN v.rdi ELSE q) \in LevelType
      OBVIOUS
    <3>1. (IF k = 0 THEN v.rdi ELSE q) \in RdiType
      BY <1>1, <1>5, <1>6
    <3> HIDE DEF q
    <3> QED BY <1>5, <3>1, LevelIs DEF Parts
  <2>2. 0 \in 0..n /\ n \in 0..n
    BY <1>1
  <2>3. us \in [0..n -> LevelType]
    BY <2>1
  <2>4. us[0] = Level(v.main, "body", v.high, v.rdi)
    BY <2>2
  <2>5. us[n] = Level(v.main, "body", v.high, r)
    BY <2>2
  <2>6. r \in RdiType
    BY <1>5, <1>6
  <2> QED BY <1>5, <2>3, <2>4, <2>5, <2>6
<1>8. ASSUME NEW i \in 1..n PROVE WalksAt(g, us, i)
  <2> DEFINE c == g[i]
             a == IF i - 1 = 0 THEN v.rdi ELSE q
             u == Level(v.main, "body", v.high, a)
  <2>1. /\ i \in 0..n /\ i - 1 \in 0..n /\ i # 0 /\ (i = 1 <=> i - 1 = 0) /\ n # 0
    BY <1>1
  <2>2. us[i - 1] = u /\ us[i] = Level(v.main, "body", v.high, q)
    BY <2>1
  <2>3. a \in RdiType
    BY <1>5, <1>6, <2>1
  <2>4. /\ c.op = "imm" /\ c.reg \notin {"rsp", "rbp"} /\ (c.reg = "rdi" <=> i = 1) /\ Shaped(c)
    BY <1>4
  <2>5. u \in LevelType /\ u.part = "body" /\ u.main = v.main /\ u.high = v.high /\ u.rdi = a
    BY <1>5, <2>3, LevelIs DEF Parts
  <2>6. RdiAfter(c, u) = q
    <3>1. CASE i = 1
      <4>1. a = v.rdi
        BY <3>1
      <4>2. u = v
        BY <1>5, <4>1
      <4> QED BY <3>1, <4>2
    <3>2. CASE i # 1
      <4>1. ~Sets(c, "rdi") /\ c.op # "call"
        BY <2>4, <3>2 DEF Sets
      <4>2. RdiAfter(c, u) = u.rdi
        <5> HIDE DEF u, c
        <5> QED BY <2>5, <4>1, RdiIs
      <4> QED BY <2>1, <2>5, <3>2, <4>2
    <3> QED BY <3>1, <3>2
  <2> HIDE DEF c, u, q, us
  <2>7. Meets(c, u) = u
    BY <2>4, <2>5, MeetsIs
  <2>8. Leads(c, u) = Level(v.main, "body", v.high, q)
    <3>1. LET w == After(c, u) IN w = Level(u.main, w.part, w.high, RdiAfter(c, u)) /\ w.part = "body" /\ w.high = u.high
      BY <2>4, <2>5, AfterIs
    <3> QED BY <2>4, <2>5, <2>6, <3>1 DEF Leads
  <2>9. Right(c, u)
    <3>1. Allowed(c, u)
      BY <2>4, <2>5 DEF Allowed, Sets
    <3> QED BY <2>4, <3>1 DEF Right
  <2>10. Level(v.main, "body", v.high, q).high <= u.high + 16
    <3>1. Level(v.main, "body", v.high, q).high = v.high
      BY LevelIs
    <3> QED BY <1>5, <2>5, <3>1
  <2>11. Placed(g, us, i)
    BY <2>4 DEF Placed, IsFunc, c
  <2> QED BY <2>2, <2>7, <2>8, <2>9, <2>10, <2>11 DEF WalksAt, c
<1> HIDE DEF us
<1>9. Piece(g, v, Level(v.main, "body", v.high, r))
  <2>1. Walks(g, us)
    BY <1>3, <1>7, <1>8 DEF Walks
  <2> HIDE DEF r
  <2> QED BY <1>3, <1>7, <2>1 DEF Piece
<1>10. ASSUME 1 \in DOMAIN args, args[1].type = "int_lit" PROVE args[1].value \in Int /\ r = Number(args[1].value)
  <2>1. 1 \in 1..n /\ n # 0 /\ args[1].value \in 0..(Values(4) - 1) /\ Values(4) \in Nat \ {0}
    <3>1. 1 \in 1..n /\ n # 0
      BY <1>1, <1>10
    <3>2. args[1].value \in 0..(Values(4) - 1)
      BY <1>10 DEF AreArgs
    <3>3. 4 \in Nat
      OBVIOUS
    <3> QED BY <3>1, <3>2, <3>3, ValuesType
  <2>2. g[1].op = "imm" /\ g[1].reg = "rdi" /\ g[1].width = 4 /\ g[1].value = args[1].value
    BY <1>4, <1>10, <2>1 DEF ArgWidth
  <2>3. Wrap(4, args[1].value) = args[1].value /\ args[1].value \in Int
    BY <2>1 DEF Wrap
  <2>4. q = Number(Wrap(4, args[1].value))
    BY <2>2 DEF RdiAfter
  <2> QED BY <2>1, <2>3, <2>4
<1> QED BY <1>7, <1>9, <1>10 DEF g

LEMMA CallWalks ==
  ASSUME NEW f, NEW args, NEW v, AtBody(v),
         1 \in DOMAIN args /\ args[1].type = "int_lit" => args[1].value \in Int /\ v.rdi = Number(args[1].value)
  PROVE  \E w : Still(v, w) /\ Piece(<<AddSp(-8), Call(f, args), AddSp(8)>>, v, w)
<1> DEFINE u1 == Level(v.main, "body", v.high + 8, v.rdi)
           u2 == Level(v.main, "body", v.high + 8, Unknown)
           w  == Level(v.main, "body", v.high, Unknown)
           c1 == AddSp(-8)
           c2 == Call(f, args)
           c3 == AddSp(8)
<1>1. /\ v.main \in BOOLEAN /\ v.high \in Nat /\ v.high + 8 \in Nat /\ v.rdi \in RdiType /\ v \in LevelType
      /\ Unknown \in RdiType /\ v.part = "body"
  BY LevelOf, Known DEF AtBody
<1>2. Still(v, w) /\ w \in LevelType
  BY <1>1, BodyIs
<1>3. /\ u1 \in LevelType /\ u1.main = v.main /\ u1.part = "body" /\ u1.high = v.high + 8 /\ u1.rdi = v.rdi
      /\ u2 \in LevelType /\ u2.main = v.main /\ u2.part = "body" /\ u2.high = v.high + 8 /\ u2.rdi = Unknown
  BY <1>1, LevelIs DEF Parts
<1>4. /\ c1.op = "addsp" /\ c1.value = -8 /\ c2.op = "call" /\ c2.tag = "func" /\ c2.args = args
      /\ c3.op = "addsp" /\ c3.value = 8 /\ Shaped(c1) /\ Shaped(c2) /\ Shaped(c3)
  BY DEF AddSp, Call, Shaped
<1> HIDE DEF u1, u2, w, c1, c2, c3
<1>5. Piece(<<c1>>, v, u1)
  <2>1. After(c1, v) = u1
    <3>1. After(c1, v) = Level(v.main, "body", v.high - c1.value, v.rdi)
      BY <1>1, <1>4, InBody DEF Sets
    <3>2. v.high - c1.value = v.high + 8
      BY <1>1, <1>4
    <3> QED BY <3>1, <3>2 DEF u1
  <2>2. Meets(c1, v) = v
    BY <1>1, <1>4, MeetsIs
  <2>3. Right(c1, v)
    <3>1. v.high >= c1.value
      BY <1>1, <1>4
    <3> QED BY <1>1, <1>4, <3>1 DEF Right, Allowed, Sets
  <2>4. u1 = Leads(c1, v) /\ u1.high <= v.high + 16
    BY <1>1, <1>3, <1>4, <2>1 DEF Leads
  <2> QED BY <1>1, <1>3, <1>4, <2>2, <2>3, <2>4, Alone DEF IsFunc
<1>6. Piece(<<c2>>, u1, u2)
  <2>1. After(c2, u1) = u2
    <3>1. LET x == After(c2, u1) IN x = Level(u1.main, x.part, x.high, RdiAfter(c2, u1)) /\ x.part = "body" /\ x.high = u1.high
      BY <1>3, <1>4, AfterIs
    <3>2. RdiAfter(c2, u1) = Unknown
      BY <1>3, <1>4, RdiIs
    <3> QED BY <1>3, <3>1, <3>2 DEF u2
  <2>2. Meets(c2, u1) = u1
    BY <1>3, <1>4, MeetsIs
  <2>3. Right(c2, u1)
    BY <1>3, <1>4 DEF Right, Allowed, Sets
  <2>4. u2 = Leads(c2, u1) /\ u2.high <= u1.high + 16
    BY <1>1, <1>3, <1>4, <2>1 DEF Leads
  <2> QED BY <1>3, <1>4, <2>2, <2>3, <2>4, Alone DEF IsFunc
<1>7. Piece(<<c3>>, u2, w)
  <2>1. After(c3, u2) = w
    <3>1. After(c3, u2) = Level(u2.main, "body", u2.high - c3.value, u2.rdi)
      BY <1>3, <1>4, InBody DEF Sets
    <3>2. u2.high - c3.value = v.high
      BY <1>1, <1>3, <1>4
    <3> QED BY <1>3, <3>1, <3>2 DEF w
  <2>2. Meets(c3, u2) = u2
    BY <1>3, <1>4, MeetsIs
  <2>3. Right(c3, u2)
    <3>1. u2.high >= c3.value
      BY <1>1, <1>3, <1>4
    <3> QED BY <1>3, <1>4, <3>1 DEF Right, Allowed, Sets
  <2>4. w = Leads(c3, u2) /\ w.high <= u2.high + 16
    BY <1>1, <1>2, <1>3, <1>4, <2>1 DEF Leads, Still
  <2> QED BY <1>2, <1>3, <1>4, <2>2, <2>3, <2>4, Alone DEF IsFunc
<1>8. Piece(<<c1, c2>>, v, u2)
  <2>1. <<c1, c2>> = <<c1>> \o <<c2>>
    BY Splits
  <2> QED BY <1>5, <1>6, <2>1, PieceBehind
<1>9. Piece(<<c1, c2, c3>>, v, w)
  <2>1. <<c1, c2, c3>> = <<c1, c2>> \o <<c3>>
    BY Splits
  <2> QED BY <1>7, <1>8, <2>1, PieceBehind
<1> QED BY <1>2, <1>9 DEF c1, c2, c3

LEMMA SteadyCall ==
  ASSUME NEW f, NEW fs, f \in fs, NEW args, AreArgs(args)
  PROVE  Steady(CallCode(f, args), fs)
<1> DEFINE g == Passing(args)
           t == <<AddSp(-8), Call(f, args), AddSp(8)>>
           n == Len(args)
<1>1. CallCode(f, args) = g \o t
  BY DEF CallCode, Passing
<1>2. Listing(g) /\ Len(g) = n /\ \A i \in 1..n : g[i].op = "imm"
  <2>1. n \in Nat /\ DOMAIN args = 1..n
    BY DEF AreArgs
  <2>2. g = [i \in 1..n |-> g[i]] /\ \A i \in 1..n : g[i] = Imm(ArgReg[i], ArgWidth(args[i].type), args[i].value)
    BY <2>1 DEF Passing
  <2> HIDE DEF g, n
  <2>3. Listing(g) /\ Len(g) = n
    BY <2>1, <2>2, ListingFun
  <2>4. \A i \in 1..n : g[i].op = "imm"
    BY <2>2 DEF Imm
  <2> QED BY <2>3, <2>4
<1>3. Listing(t) /\ Wanted(t) \subseteq Funcs(fs)
  <2>1. Listing(t)
    BY Tuples
  <2>2. Len(t) = 3 /\ t[1] = AddSp(-8) /\ t[2] = Call(f, args) /\ t[3] = AddSp(8)
    OBVIOUS
  <2> HIDE DEF t
  <2>3. ASSUME NEW i \in 1..Len(t), t[i].op \in {"jump", "jz", "call"}
        PROVE  <<t[i].tag, t[i].id>> \in Funcs(fs)
    <3>1. i = 1 \/ i = 2 \/ i = 3
      BY <2>2
    <3>2. AddSp(-8).op = "addsp" /\ AddSp(8).op = "addsp" /\ Call(f, args).tag = "func" /\ Call(f, args).id = f
      BY DEF AddSp, Call
    <3> QED BY <2>2, <2>3, <3>1, <3>2 DEF Funcs
  <2> QED BY <2>1, <2>3 DEF Wanted
<1> HIDE DEF g, t, n
<1>4. Wanted(g) = {}
  BY <1>2 DEF Wanted
<1>5. Listing(g \o t) /\ Wanted(g \o t) \subseteq Funcs(fs)
  BY <1>2, <1>3, <1>4, Behind, LinksBehind
<1>6. ASSUME NEW v, AtBody(v) PROVE \E w : Still(v, w) /\ Piece(g \o t, v, w)
  <2>1. PICK r \in RdiType :
           /\ Piece(g, v, Level(v.main, "body", v.high, r))
           /\ 1 \in DOMAIN args /\ args[1].type = "int_lit" => args[1].value \in Int /\ r = Number(args[1].value)
    BY <1>6, PassingWalks DEF g
  <2> DEFINE u == Level(v.main, "body", v.high, r)
  <2>2. Still(v, u) /\ u.rdi = r
    BY <1>6, BodyIs
  <2> HIDE DEF u
  <2>3. PICK w : Still(u, w) /\ Piece(t, u, w)
    BY <2>1, <2>2, CallWalks DEF t, Still
  <2>4. Piece(g \o t, v, w)
    BY <2>1, <2>3, PieceBehind DEF u
  <2> QED BY <2>2, <2>3, <2>4 DEF Still
<1> QED BY <1>1, <1>5, <1>6 DEF Steady
-----------------------------------------------------------------------------
(* The texts of expressions and of statements without a body.              *)
LEMMA DeclWidth ==
  ASSUME NEW k \in DeclKinds
  PROVE  SizeOf[TypeOfDecl[k]] \in Widths
<1>1. k = "CHAR" \/ k = "SHORT" \/ k = "INT" \/ k = "LONG"
  BY DEF DeclKinds
<1> QED BY <1>1 DEF SizeOf, TypeOfDecl, Widths

LEMMA SteadyLoad ==
  ASSUME NEW p, NEW vs, NEW x, NEW s, NEW fs
  PROVE  Steady(LoadCode(p, vs, x, s), fs)
<1>1. CASE s.kind \in DeclKinds
  <2> DEFINE c == Load("rax", SizeOf[TypeOfDecl[s.kind]], OffsetOf(p, vs, x))
  <2>1. Shaped(c) /\ c.op = "load" /\ ~Sets(c, "rsp") /\ ~Sets(c, "rbp")
    BY DEF Load, Shaped, Sets, Registers
  <2> HIDE DEF c
  <2>2. Steady(<<c>>, fs)
    BY <2>1, SteadyOne
  <2> QED BY <1>1, <2>2 DEF LoadCode, c
<1>2. CASE s.kind \notin DeclKinds
  BY <1>2, SteadyNone DEF LoadCode
<1> QED BY <1>1, <1>2

LEMMA SteadyImm ==
  ASSUME NEW r \in {"rax", "rdi"}, NEW w \in Widths, NEW n \in Int, NEW fs
  PROVE  Steady(<<Imm(r, w, n)>>, fs)
<1> DEFINE c == Imm(r, w, n)
<1>1. Shaped(c) /\ c.op = "imm" /\ ~Sets(c, "rsp") /\ ~Sets(c, "rbp")
  BY DEF Imm, Shaped, Sets, Registers
<1> HIDE DEF c
<1>2. Steady(<<c>>, fs)
  BY <1>1, SteadyOne
<1> QED BY <1>2 DEF c

LEMMA SteadyExpr ==
  ASSUME NEW p, NEW vs, NEW e, NEW s, NEW fs, IsExpr(e, fs)
  PROVE  Steady(ExprCode(p, vs, e, s), fs)
<1>1. CASE e.kind = "BIN" /\ IsTree(e.nodes)
  <2>1. ExprCode(p, vs, e, s) = OperandCode(p, vs, e, s)
    BY <1>1 DEF ExprCode
  <2> QED BY <1>1, <2>1, QuietOperands, SteadyQuiet
<1>2. CASE e.kind = "INT_LIT" /\ e.value \in Int
  <2>1. ExprCode(p, vs, e, s) = LitCode(e.value, s)
    BY <1>2 DEF ExprCode
  <2>2. CASE s.kind \in DeclKinds
    <3>1. Steady(<<Imm("rax", SizeOf[TypeOfDecl[s.kind]], e.value)>>, fs)
      BY <1>2, <2>2, DeclWidth, SteadyImm
    <3> QED BY <2>1, <2>2, <3>1 DEF LitCode
  <2>3. CASE s.kind \notin DeclKinds
    BY <2>1, <2>3, SteadyNone DEF LitCode
  <2> QED BY <2>2, <2>3
<1>3. CASE e.kind = "CHAR" /\ e.value \in Int
  <2>1. ExprCode(p, vs, e, s) = <<Imm("rax", 1, e.value)>>
    BY <1>3 DEF ExprCode
  <2>2. 1 \in Widths
    BY DEF Widths
  <2> QED BY <1>3, <2>1, <2>2, SteadyImm
<1>4. CASE e.kind = "IDENT"
  <2>1. ExprCode(p, vs, e, s) = LoadCode(p, vs, e.name, s)
    BY <1>4 DEF ExprCode
  <2> QED BY <2>1, SteadyLoad
<1>5. CASE e.kind = "FUNC" /\ e.fn \in fs /\ AreArgs(e.args)
  <2>1. ExprCode(p, vs, e, s) = CallCode(e.fn, e.args)
    BY <1>5 DEF ExprCode
  <2> QED BY <1>5, <2>1, SteadyCall
<1> QED BY <1>1, <1>2, <1>3, <1>4, <1>5 DEF IsExpr

LEMMA SteadyStore ==
  ASSUME NEW off, NEW w, NEW fs
  PROVE  Steady(<<Store(off, w, "rax")>>, fs)
<1> DEFINE c == Store(off, w, "rax")
<1>1. Shaped(c) /\ c.op = "store" /\ c.reg = "rax" /\ ~Sets(c, "rsp") /\ ~Sets(c, "rbp")
  BY DEF Store, Shaped, Sets, Registers
<1> HIDE DEF c
<1>2. Steady(<<c>>, fs)
  BY <1>1, SteadyOne
<1> QED BY <1>2 DEF c

LEMMA SteadyExit ==
  ASSUME NEW fs
  PROVE  /\ Steady(<<Copy("rdi", 8, "rax"), Imm("rax", 8, 60), Syscall>>, fs)
         /\ Steady(<<Imm("rax", 8, 60), Imm("rdi", 8, 0), Syscall>>, fs)
<1>1. Steady(<<Imm("rax", 8, 60)>>, fs) /\ Steady(<<Imm("rdi", 8, 0)>>, fs)
  <2>1. 8 \in Widths /\ 60 \in Int /\ 0 \in Int
    BY DEF Widths
  <2> QED BY <2>1, SteadyImm
<1>2. Steady(<<Syscall>>, fs)
  <2> DEFINE c == Syscall
  <2>1. Shaped(c) /\ c.op = "syscall" /\ ~Sets(c, "rsp") /\ ~Sets(c, "rbp")
    BY DEF Syscall, Shaped, Sets
  <2> HIDE DEF c
  <2>2. Steady(<<c>>, fs)
    BY <2>1, SteadyOne
  <2> QED BY <2>2 DEF c
<1>3. Steady(<<Copy("rdi", 8, "rax")>>, fs)
  <2> DEFINE c == Copy("rdi", 8, "rax")
  <2>1. Shaped(c) /\ c.op = "copy" /\ ~Sets(c, "rsp") /\ ~Sets(c, "rbp")
    BY DEF Copy, Shaped, Sets, Registers
  <2> HIDE DEF c
  <2>2. Steady(<<c>>, fs)
    BY <2>1, SteadyOne
  <2> QED BY <2>2 DEF c
<1>4. \A a, b, c : Steady(<<a>>, fs) /\ Steady(<<b>>, fs) /\ Steady(<<c>>, fs) => Steady(<<a, b, c>>, fs)
  <2> SUFFICES ASSUME NEW a, NEW b, NEW c, Steady(<<a>>, fs), Steady(<<b>>, fs), Steady(<<c>>, fs)
               PROVE  Steady(<<a, b, c>>, fs)
    OBVIOUS
  <2>1. <<a, b>> = <<a>> \o <<b>>
    BY Splits
  <2>2. <<a, b, c>> = <<a, b>> \o <<c>>
    BY Splits
  <2>3. Steady(<<a, b>>, fs)
    BY <2>1, SteadyBehind
  <2> QED BY <2>2, <2>3, SteadyBehind
<1> QED BY <1>1, <1>2, <1>3, <1>4, Zenon

LEMMA SteadyLeaf ==
  ASSUME NEW p, NEW vs, NEW s, NEW fs, IsLeaf(s, fs)
  PROVE  Steady(LeafCode(p, vs, s), fs)
<1>1. CASE s.kind = "FUNC_USE" /\ s.name \in fs /\ AreArgs(s.expr.args)
  <2>1. LeafCode(p, vs, s) = CallCode(s.name, s.expr.args)
    BY <1>1 DEF LeafCode
  <2> QED BY <1>1, <2>1, SteadyCall
<1>2. CASE s.kind \in LeafKinds \ {"FUNC_USE"} /\ IsExpr(s.expr, fs)
  <2> DEFINE e == ExprCode(p, vs, s.expr, s)
             t == CASE s.kind \in DeclKinds -> <<Store(OffsetOf(p, vs, s.name), SizeOf[TypeOfDecl[s.kind]], "rax")>>
                    [] s.kind = "VCHANGE"   -> <<Store(OffsetOf(p, vs, s.name), SizeOf[VarType(vs, s.name)], "rax")>>
                    [] s.kind = "EXIT"      -> <<Copy("rdi", 8, "rax"), Imm("rax", 8, 60), Syscall>>
                    [] OTHER                -> <<>>
  <2>1. LeafCode(p, vs, s) = e \o t
    BY <1>2 DEF LeafCode
  <2>2. Steady(e, fs)
    BY <1>2, SteadyExpr
  <2>3. Steady(t, fs)
    <3>1. CASE s.kind \in DeclKinds
      <4>1. t = <<Store(OffsetOf(p, vs, s.name), SizeOf[TypeOfDecl[s.kind]], "rax")>>
        BY <3>1 DEF DeclKinds
      <4> QED BY <4>1, SteadyStore
    <3>2. CASE s.kind = "VCHANGE"
      <4>1. t = <<Store(OffsetOf(p, vs, s.name), SizeOf[VarType(vs, s.name)], "rax")>>
        BY <3>2 DEF DeclKinds
      <4> QED BY <4>1, SteadyStore
    <3>3. CASE s.kind = "EXIT"
      <4>1. t = <<Copy("rdi", 8, "rax"), Imm("rax", 8, 60), Syscall>>
        BY <3>3 DEF DeclKinds
      <4> QED BY <4>1, SteadyExit
    <3>4. CASE s.kind \notin DeclKinds /\ s.kind # "VCHANGE" /\ s.kind # "EXIT"
      <4>1. t = <<>>
        BY <3>4
      <4> QED BY <4>1, SteadyNone
    <3> QED BY <3>1, <3>2, <3>3, <3>4
  <2> HIDE DEF e, t
  <2> QED BY <2>1, <2>2, <2>3, SteadyBehind
<1> QED BY <1>1, <1>2 DEF IsLeaf
-----------------------------------------------------------------------------
(* Texts one behind the other.                                             *)
FlatFrom(seqs, n, f) == f = [i \in 1..n |-> IF i = 1 THEN seqs[i] ELSE f[i - 1] \o seqs[i]]

LEMMA FlatExists ==
  ASSUME NEW seqs, NEW n \in Nat \ {0}
  PROVE  \E f : FlatFrom(seqs, n, f)
<1> DEFINE T == {m \in 1..n : \E f : FlatFrom(seqs, m, f)}
<1>1. 1 \in T
  <2> DEFINE f == [i \in 1..1 |-> seqs[i]]
  <2>1. f = [i \in 1..1 |-> IF i = 1 THEN seqs[i] ELSE f[i - 1] \o seqs[i]]
    OBVIOUS
  <2> HIDE DEF f
  <2>2. FlatFrom(seqs, 1, f)
    BY <2>1 DEF FlatFrom
  <2> QED BY <2>2
<1>2. ASSUME NEW m \in 1..(n - 1), m \in T PROVE m + 1 \in T
  <2>1. PICK f : FlatFrom(seqs, m, f)
    BY <1>2
  <2> DEFINE g == [i \in 1..(m + 1) |-> IF i = m + 1 THEN f[m] \o seqs[m + 1] ELSE f[i]]
             h == [i \in 1..(m + 1) |-> IF i = 1 THEN seqs[i] ELSE g[i - 1] \o seqs[i]]
  <2>2. m \in Nat /\ m + 1 \in 1..n /\ m + 1 \in 1..(m + 1) /\ m + 1 # 1 /\ (m + 1) - 1 = m /\ m \in 1..m
    OBVIOUS
  <2>3. \A i \in 1..m : g[i] = f[i]
    BY <2>2
  <2>4. \A i \in 1..m : f[i] = IF i = 1 THEN seqs[i] ELSE f[i - 1] \o seqs[i]
    BY <2>1, Zenon DEF FlatFrom
  <2>5. \A i \in 1..(m + 1) : g[i] = h[i]
    <3> SUFFICES ASSUME NEW i \in 1..(m + 1) PROVE g[i] = h[i]
      OBVIOUS
    <3>1. CASE i = m + 1
      <4>1. g[i] = f[m] \o seqs[m + 1] /\ g[m] = f[m]
        BY <2>2, <2>3, <3>1
      <4>2. h[i] = g[i - 1] \o seqs[i]
        BY <2>2, <3>1
      <4> HIDE DEF g, h
      <4> QED BY <2>2, <3>1, <4>1, <4>2
    <3>2. CASE i # m + 1
      <4>1. i \in 1..m /\ (i # 1 => i - 1 \in 1..m)
        BY <2>2, <3>2
      <4>2. h[i] = IF i = 1 THEN seqs[i] ELSE g[i - 1] \o seqs[i]
        OBVIOUS
      <4> HIDE DEF g, h
      <4> QED BY <2>3, <2>4, <4>1, <4>2
    <3> QED BY <3>1, <3>2
  <2>6. g = h
    <3>1. g = [i \in 1..(m + 1) |-> g[i]] /\ h = [i \in 1..(m + 1) |-> h[i]]
      OBVIOUS
    <3> HIDE DEF g, h
    <3> QED BY <2>5, <3>1
  <2>7. FlatFrom(seqs, m + 1, g)
    <3>1. g = [i \in 1..(m + 1) |-> IF i = 1 THEN seqs[i] ELSE g[i - 1] \o seqs[i]]
      BY <2>6, Zenon
    <3> HIDE DEF g, h
    <3> QED BY <3>1 DEF FlatFrom
  <2> HIDE DEF g, h
  <2> QED BY <2>2, <2>7
<1>3. 1..n \subseteq T
  <2>1. 1 \in Nat /\ n \in Nat
    OBVIOUS
  <2> HIDE DEF T
  <2> QED BY <1>1, <1>2, <2>1, UpTo
<1>4. n \in T
  <2>1. n \in 1..n
    OBVIOUS
  <2> HIDE DEF T
  <2> QED BY <1>3, <2>1
<1> QED BY <1>4

LEMMA FlattenIs ==
  ASSUME NEW seqs, Len(seqs) \in Nat \ {0}
  PROVE  \E f : /\ f[1] = seqs[1] /\ \A i \in 2..Len(seqs) : f[i] = f[i - 1] \o seqs[i]
                /\ FlattenSeq(seqs) = f[Len(seqs)]
<1> DEFINE n == Len(seqs)
           f == CHOOSE f : FlatFrom(seqs, n, f)
<1>1. FlatFrom(seqs, n, f)
  <2> HIDE DEF n
  <2> QED BY FlatExists DEF n
<1>2. FlattenSeq(seqs) = f[n]
  BY DEF FlattenSeq, FlatFrom
<1> HIDE DEF n, f
<1>3. f[1] = seqs[1] /\ \A i \in 2..n : f[i] = f[i - 1] \o seqs[i]
  <2>1. f = [i \in 1..n |-> IF i = 1 THEN seqs[i] ELSE f[i - 1] \o seqs[i]]
    BY <1>1 DEF FlatFrom
  <2>2. 1 \in 1..n /\ \A i \in 2..n : i \in 1..n /\ i # 1
    BY DEF n
  <2> QED BY <2>1, <2>2
<1> QED BY <1>2, <1>3 DEF n
-----------------------------------------------------------------------------
(* The head of a function.                                                 *)
LinkLess(f) == Listing(f) /\ Wanted(f) = {}
Saving(h) == Level(FALSE, "body", h, Argument)

LEMMA SavingIs ==
  ASSUME NEW h \in Nat
  PROVE  /\ Saving(h) \in LevelType /\ ~Saving(h).main /\ Saving(h).part = "body"
         /\ Saving(h).high = h /\ Saving(h).rdi = Argument /\ AtBody(Saving(h))
<1>1. Argument \in RdiType /\ FALSE \in BOOLEAN /\ "body" \in Parts
  BY Known DEF Parts
<1>2. /\ Saving(h) \in LevelType /\ Saving(h).main = FALSE /\ Saving(h).part = "body"
      /\ Saving(h).high = h /\ Saving(h).rdi = Argument
  <2>1. /\ Saving(h).main = FALSE /\ Saving(h).part = "body" /\ Saving(h).high = h
        /\ Saving(h).rdi = Argument
    BY DEF Saving, Level
  <2>2. Saving(h) \in LevelType
    BY <1>1 DEF Saving, Level, LevelType, RdiType
  <2> QED BY <2>1, <2>2
<1> QED BY <1>2 DEF AtBody

LEMMA ParamWalks ==
  ASSUME NEW p, NEW vs, NEW q, NEW k \in 1..6, NEW h \in Nat
  PROVE  Piece(ParamCode(p, vs, q, k), Saving(h), Saving(h + 16)) /\ LinkLess(ParamCode(p, vs, q, k))
<1> DEFINE w  == SizeOf[q.type]
           off == OffsetOf(p, vs, q.name)
           c1 == Copy("rax", w, ArgReg[k])
           c2 == AddSp(-16)
           c3 == Store(off, w, ArgReg[k])
           v == Saving(h)
           u == Saving(h + 16)
<1>1. ParamCode(p, vs, q, k) = <<c1, c2, c3>>
  BY DEF ParamCode
<1>2. h + 16 \in Nat
  OBVIOUS
<1>3. /\ v \in LevelType /\ ~v.main /\ v.part = "body" /\ v.high = h /\ v.rdi = Argument
      /\ u \in LevelType /\ ~u.main /\ u.part = "body" /\ u.high = h + 16 /\ u.rdi = Argument
  BY <1>2, SavingIs
<1>4. ArgReg[k] \in Registers
  BY ArgRegIs
<1>5. /\ c1.op = "copy" /\ c1.reg = "rax" /\ Shaped(c1)
      /\ c2.op = "addsp" /\ c2.value = -16 /\ Shaped(c2)
      /\ c3.op = "store" /\ Shaped(c3)
  BY <1>4 DEF Copy, AddSp, Store, Shaped, Registers
<1>6. ~v.main /\ v.main = u.main
  BY DEF Saving, Level
<1> HIDE DEF v, u, c1, c2, c3
<1>7. /\ After(c1, v) = v /\ After(c3, u) = u
  BY <1>3, <1>5, InBody DEF Sets
<1>8. After(c2, v) = u
  <2>1. After(c2, v) = Level(v.main, "body", v.high - c2.value, v.rdi)
    BY <1>3, <1>5, InBody DEF Sets
  <2>2. v.high - c2.value = h + 16
    BY <1>3, <1>5
  <2>3. u = Level(u.main, u.part, u.high, u.rdi)
    BY <1>3, LevelOf
  <2> QED BY <1>3, <1>6, <2>1, <2>2, <2>3
<1>9. Meets(c1, v) = v /\ Meets(c2, v) = v /\ Meets(c3, u) = u
  BY <1>3, <1>5, MeetsIs
<1>10. Right(c1, v) /\ Right(c3, u)
  BY <1>3, <1>5 DEF Right, Allowed, Sets
<1>11. Right(c2, v)
  <2>1. v.high >= c2.value
    BY <1>3, <1>5
  <2> QED BY <1>3, <1>5, <2>1 DEF Right, Allowed, Sets
<1>12. Piece(<<c1>>, v, v)
  <2>1. v = Leads(c1, v) /\ v.high <= v.high + 16
    BY <1>3, <1>5, <1>7 DEF Leads
  <2> QED BY <1>3, <1>5, <1>9, <1>10, <2>1, Alone DEF IsFunc
<1>13. Piece(<<c2>>, v, u)
  <2>1. u = Leads(c2, v) /\ u.high <= v.high + 16
    BY <1>3, <1>5, <1>8 DEF Leads
  <2> QED BY <1>3, <1>5, <1>9, <1>11, <2>1, Alone DEF IsFunc
<1>14. Piece(<<c3>>, u, u)
  <2>1. u = Leads(c3, u) /\ u.high <= u.high + 16
    BY <1>3, <1>5, <1>7 DEF Leads
  <2> QED BY <1>3, <1>5, <1>9, <1>10, <2>1, Alone DEF IsFunc
<1>15. <<c1, c2>> = <<c1>> \o <<c2>>
  BY Splits
<1>16. <<c1, c2, c3>> = <<c1, c2>> \o <<c3>>
  BY Splits
<1>17. Piece(<<c1, c2>>, v, u)
  BY <1>12, <1>13, <1>15, PieceBehind
<1>18. Piece(<<c1, c2, c3>>, v, u)
  BY <1>14, <1>16, <1>17, PieceBehind
<1>19. LinkLess(<<c1, c2, c3>>)
  <2>1. Listing(<<c1, c2, c3>>)
    BY Tuples
  <2>2. Len(<<c1, c2, c3>>) = 3 /\ <<c1, c2, c3>>[1] = c1 /\ <<c1, c2, c3>>[2] = c2 /\ <<c1, c2, c3>>[3] = c3
        /\ \A i \in 1..3 : i = 1 \/ i = 2 \/ i = 3
    OBVIOUS
  <2>3. Wanted(<<c1, c2, c3>>) = {}
    <3> DEFINE f == <<c1, c2, c3>>
    <3>1. \A i \in 1..Len(f) : f[i].op \notin {"jump", "jz", "call"}
      BY <1>5, <2>2
    <3> HIDE DEF f
    <3>2. Wanted(f) = {}
      BY <3>1 DEF Wanted
    <3> QED BY <3>2 DEF f
  <2> QED BY <2>1, <2>3 DEF LinkLess
<1> QED BY <1>1, <1>18, <1>19 DEF v, u

(* All the parameters.                                                     *)
LEMMA ParamsWalk ==
  ASSUME NEW seqs, NEW n \in Nat, Listing(seqs), Len(seqs) = n,
         \A k \in 1..n : LinkLess(seqs[k]) /\ \A h \in Nat : Piece(seqs[k], Saving(h), Saving(h + 16))
  PROVE  Piece(FlattenSeq(seqs), Saving(0), Saving(16 * n)) /\ LinkLess(FlattenSeq(seqs))
<1>1. CASE n = 0
  <2>1. FlattenSeq(seqs) = seqs
    BY <1>1 DEF FlattenSeq
  <2>2. seqs = <<>>
    <3>1. seqs \in Seq({seqs[i] : i \in 1..Len(seqs)})
      BY DEF Listing
    <3> QED BY <1>1, <3>1, EmptySeq
  <2>3. Piece(<<>>, Saving(0), Saving(0))
    <3>1. Saving(0) \in LevelType
      BY SavingIs
    <3> QED BY <3>1, Nothing
  <2>4. LinkLess(<<>>)
    <3>1. Len(<<>>) = 0 /\ 1..0 = {}
      OBVIOUS
    <3>2. Wanted(<<>>) = {}
      BY <3>1 DEF Wanted
    <3> QED BY <3>2, Tuples DEF LinkLess
  <2>5. 16 * n = 0
    BY <1>1
  <2> QED BY <2>1, <2>2, <2>3, <2>4, <2>5
<1>2. CASE n # 0
  <2>1. PICK f : /\ f[1] = seqs[1] /\ \A i \in 2..n : f[i] = f[i - 1] \o seqs[i]
                 /\ FlattenSeq(seqs) = f[n]
    BY <1>2, FlattenIs
  <2> DEFINE T == {k \in 1..n : Piece(f[k], Saving(0), Saving(16 * k)) /\ LinkLess(f[k])}
  <2>2. 1 \in T
    <3>1. 1 \in 1..n /\ 0 + 16 = 16 * 1 /\ 0 \in Nat
      BY <1>2
    <3>2. Piece(seqs[1], Saving(0), Saving(0 + 16)) /\ LinkLess(seqs[1])
      BY <3>1
    <3> QED BY <2>1, <3>1, <3>2
  <2>3. ASSUME NEW k \in 1..(n - 1), k \in T PROVE k + 1 \in T
    <3>1. k + 1 \in 2..n /\ k + 1 \in 1..n /\ (k + 1) - 1 = k /\ 16 * k \in Nat /\ 16 * k + 16 = 16 * (k + 1)
      OBVIOUS
    <3>2. f[k + 1] = f[k] \o seqs[k + 1]
      BY <2>1, <3>1
    <3>3. Piece(seqs[k + 1], Saving(16 * k), Saving(16 * k + 16)) /\ LinkLess(seqs[k + 1])
      BY <3>1
    <3>4. Piece(f[k] \o seqs[k + 1], Saving(0), Saving(16 * (k + 1)))
      BY <2>3, <3>1, <3>3, PieceBehind
    <3>5. LinkLess(f[k] \o seqs[k + 1])
      BY <2>3, <3>3, Behind, LinksBehind DEF LinkLess
    <3> QED BY <3>1, <3>2, <3>4, <3>5
  <2>4. n \in T
    <3>1. 1 \in Nat /\ n \in 1..n
      BY <1>2
    <3> HIDE DEF T
    <3>2. 1..n \subseteq T
      BY <2>2, <2>3, <3>1, UpTo
    <3> QED BY <3>1, <3>2
  <2> QED BY <2>1, <2>4
<1> QED BY <1>1, <1>2

LEMMA FourIs ==
  ASSUME NEW a, NEW b, NEW c, NEW d
  PROVE  /\ <<a, b, c, d>> = <<a>> \o <<b, c, d>>
         /\ Len(<<a, b, c, d>>) = 4 /\ <<a, b, c, d>>[1] = a /\ <<a, b, c, d>>[2] = b
         /\ <<a, b, c, d>>[3] = c /\ <<a, b, c, d>>[4] = d
<1> DEFINE S == {a, b, c, d}
<1>1. /\ Len(<<a, b, c, d>>) = 4 /\ <<a, b, c, d>>[1] = a /\ <<a, b, c, d>>[2] = b
      /\ <<a, b, c, d>>[3] = c /\ <<a, b, c, d>>[4] = d
  OBVIOUS
<1>2. /\ Len(<<a>> \o <<b, c, d>>) = 4 /\ (<<a>> \o <<b, c, d>>)[1] = a /\ (<<a>> \o <<b, c, d>>)[2] = b
      /\ (<<a>> \o <<b, c, d>>)[3] = c /\ (<<a>> \o <<b, c, d>>)[4] = d
  OBVIOUS
<1>3. <<a>> \in Seq(S) /\ <<b, c, d>> \in Seq(S) /\ <<a, b, c, d>> \in Seq(S)
  OBVIOUS
<1> HIDE DEF S
<1>4. <<a>> \o <<b, c, d>> \in Seq(S)
  BY <1>3, ConcatProperties
<1> DEFINE f == <<a, b, c, d>>
           g == <<a>> \o <<b, c, d>>
<1>5. Len(f) = 4 /\ Len(g) = 4 /\ f \in Seq(S) /\ g \in Seq(S)
  BY <1>1, <1>2, <1>3, <1>4
<1>6. \A i \in 1..4 : f[i] = g[i]
  <2>1. f[1] = g[1] /\ f[2] = g[2] /\ f[3] = g[3] /\ f[4] = g[4]
    BY <1>1, <1>2
  <2>2. \A i \in 1..4 : i = 1 \/ i = 2 \/ i = 3 \/ i = 4
    OBVIOUS
  <2> HIDE DEF f, g
  <2> QED BY <2>1, <2>2
<1>7. f = g
  <2> HIDE DEF f, g
  <2> QED BY <1>5, <1>6, SeqEqual
<1> QED BY <1>1, <1>7

LEMMA HeadWalks ==
  ASSUME NEW n, NEW x, NEW v, AtBody(v), v.main
  PROVE  Piece(<<Go("placeholder", n), Mark("func", x), Push("rbp"), Copy("rbp", 8, "rsp")>>, v, Saving(0))
<1> DEFINE c1 == Go("placeholder", n)
           c2 == Mark("func", x)
           c3 == Push("rbp")
           c4 == Copy("rbp", 8, "rsp")
           f  == <<c1, c2, c3, c4>>
           s  == Level(FALSE, "saved", 0, Argument)
           z  == Saving(0)
           us == [k \in 0..4 |-> IF k <= 1 THEN v ELSE IF k = 2 THEN Callee ELSE IF k = 3 THEN s ELSE z]
<1>1. Listing(f)
  BY Tuples
<1>2. Len(f) = 4 /\ f[1] = c1 /\ f[2] = c2 /\ f[3] = c3 /\ f[4] = c4
  BY FourIs
<1>3. /\ v \in LevelType /\ v.part = "body" /\ v.high = 0
      /\ Callee \in LevelType /\ Callee.part = "entry" /\ Callee.high = 0 /\ Callee.rdi = Argument
  BY Known DEF AtBody
<1>4. Argument \in RdiType /\ 0 \in Nat
  BY Known
<1>5. /\ s.main = FALSE /\ s.part = "saved" /\ s.high = 0 /\ s.rdi = Argument /\ s \in LevelType
  <2>1. s.main = FALSE /\ s.part = "saved" /\ s.high = 0 /\ s.rdi = Argument
    BY DEF Level
  <2>2. s \in LevelType
    BY <1>4 DEF Level, LevelType, RdiType
  <2> QED BY <2>1, <2>2
<1>6. z \in LevelType /\ z.high = 0 /\ z = Level(FALSE, "body", 0, Argument)
  BY <1>4, SavingIs DEF Saving
<1>7. Callee = Level(FALSE, "entry", 0, Argument) /\ Callee.main = FALSE
  BY DEF Callee, Level
<1>8. /\ c1.op = "jump" /\ c1.tag = "placeholder" /\ Shaped(c1)
      /\ c2.op = "label" /\ c2.tag = "func" /\ Shaped(c2)
      /\ c3.op = "push" /\ c3.reg = "rbp" /\ Shaped(c3)
      /\ c4.op = "copy" /\ c4.reg = "rbp" /\ c4.from = "rsp" /\ c4.width = 8 /\ Shaped(c4)
  BY DEF Go, Mark, Push, Copy, Shaped, Registers
<1> HIDE DEF c1, c2, c3, c4, f, s, z
<1>9. /\ us \in [0..4 -> LevelType] /\ us[0] = v /\ us[1] = v /\ us[2] = Callee /\ us[3] = s /\ us[4] = z
      /\ us[1 - 1] = v /\ us[2 - 1] = v /\ us[3 - 1] = Callee /\ us[4 - 1] = s
  <2>1. \A k \in 0..4 : (IF k <= 1 THEN v ELSE IF k = 2 THEN Callee ELSE IF k = 3 THEN s ELSE z) \in LevelType
    BY <1>3, <1>5, <1>6
  <2>2. us \in [0..4 -> LevelType]
    BY <2>1
  <2>3. us[0] = v /\ us[1] = v /\ us[2] = Callee /\ us[3] = s /\ us[4] = z
    OBVIOUS
  <2>4. 1 - 1 = 0 /\ 2 - 1 = 1 /\ 3 - 1 = 2 /\ 4 - 1 = 3
    OBVIOUS
  <2> HIDE DEF us
  <2> QED BY <2>2, <2>3, <2>4
<1> HIDE DEF us
<1>10. Meets(c1, v) = v /\ Meets(c2, v) = Callee /\ Meets(c3, Callee) = Callee /\ Meets(c4, s) = s
  BY <1>3, <1>5, <1>8, MeetsIs DEF IsFunc
<1>11. Leads(c1, v) = v
  <2>1. After(c1, v) = v
    BY <1>3, <1>8, InBody DEF Sets
  <2> QED BY <1>8, <2>1 DEF Leads
<1>12. Leads(c2, Callee) = Callee
  <2>1. LET u == After(c2, Callee)
        IN u = Level(Callee.main, u.part, u.high, RdiAfter(c2, Callee)) /\ u.part = "entry" /\ u.high = Callee.high
    BY <1>3, <1>8, AfterIs
  <2>2. RdiAfter(c2, Callee) = Argument
    BY <1>3, <1>8, RdiIs DEF Sets
  <2>3. After(c2, Callee) = Callee
    BY <1>3, <1>7, <2>1, <2>2
  <2> QED BY <1>8, <2>3 DEF Leads
<1>13. Leads(c3, Callee) = s
  <2>1. LET u == After(c3, Callee)
        IN u = Level(Callee.main, u.part, u.high, RdiAfter(c3, Callee)) /\ u.part = "saved" /\ u.high = Callee.high
    BY <1>3, <1>8, AfterIs
  <2>2. RdiAfter(c3, Callee) = Argument
    BY <1>3, <1>8, RdiIs DEF Sets
  <2>3. After(c3, Callee) = s
    BY <1>3, <1>7, <2>1, <2>2 DEF s
  <2> QED BY <1>8, <2>3 DEF Leads
<1>14. Leads(c4, s) = z
  <2>1. LET u == After(c4, s)
        IN u = Level(s.main, u.part, u.high, RdiAfter(c4, s)) /\ u.part = "body" /\ u.high = s.high
    BY <1>5, <1>8, AfterIs
  <2>2. RdiAfter(c4, s) = Argument
    BY <1>5, <1>8, RdiIs DEF Sets
  <2>3. After(c4, s) = z
    BY <1>5, <1>6, <2>1, <2>2
  <2> QED BY <1>8, <2>3 DEF Leads
<1>15. Right(c1, v) /\ Right(c2, Callee) /\ Right(c3, Callee) /\ Right(c4, s)
  <2>1. Right(c1, v)
    BY <1>3, <1>8 DEF Right, Allowed, Sets
  <2>2. Right(c2, Callee)
    BY <1>3, <1>7, <1>8 DEF Right, Allowed, Sets
  <2>3. Right(c3, Callee)
    BY <1>3, <1>7, <1>8 DEF Right, Allowed, Sets
  <2>4. Right(c4, s)
    BY <1>5, <1>8 DEF Right, Allowed, Sets
  <2> QED BY <2>1, <2>2, <2>3, <2>4
<1>16. WalksAt(f, us, 1)
  BY <1>2, <1>3, <1>8, <1>9, <1>10, <1>11, <1>15 DEF WalksAt, Placed, IsFunc
<1>17. WalksAt(f, us, 2)
  <2>1. 2 > 1 /\ 2 - 1 = 1
    OBVIOUS
  <2>2. Placed(f, us, 2)
    BY <1>2, <1>8, <2>1 DEF Placed, IsFunc
  <2> QED BY <1>2, <1>3, <1>9, <1>10, <1>12, <1>15, <2>2 DEF WalksAt
<1>18. WalksAt(f, us, 3)
  BY <1>2, <1>3, <1>5, <1>8, <1>9, <1>10, <1>13, <1>15 DEF WalksAt, Placed, IsFunc
<1>19. WalksAt(f, us, 4)
  <2>1. Placed(f, us, 4)
    BY <1>2, <1>8 DEF Placed, IsFunc
  <2>2. us[4].high <= us[4 - 1].high + 16
    <3>1. us[4].high = 0 /\ us[4 - 1].high = 0
      BY <1>5, <1>6, <1>9, Zenon
    <3> QED BY <3>1
  <2> QED BY <1>2, <1>9, <1>10, <1>14, <1>15, <2>1, <2>2 DEF WalksAt
<1>20. \A i \in 1..4 : WalksAt(f, us, i)
  <2>1. \A i \in 1..4 : i = 1 \/ i = 2 \/ i = 3 \/ i = 4
    OBVIOUS
  <2> QED BY <1>16, <1>17, <1>18, <1>19, <2>1
<1>21. Walks(f, us)
  BY <1>1, <1>2, <1>9, <1>20 DEF Walks
<1>22. Piece(f, v, z)
  BY <1>2, <1>9, <1>21 DEF Piece
<1> QED BY <1>22 DEF f, c1, c2, c3, c4, z

(* A statement that opens a function.                                      *)
FuncHeadText(p, vs, s, n) == <<Go("placeholder", n)>> \o FuncCode(p, vs, s)

LEMMA FuncOpens ==
  ASSUME NEW p, NEW vs, NEW s, NEW n, Len(s.params) \in 0..6, DOMAIN s.params = 1..Len(s.params)
  PROVE  LET f == FuncHeadText(p, vs, s, n)
         IN  /\ Listing(f) /\ <<"func", s.name>> \in Labels(f) /\ Wanted(f) \subseteq {<<"placeholder", n>>}
             /\ \A v : AtBody(v) /\ v.main => \E w : AtBody(w) /\ ~w.main /\ Piece(f, v, w)
<1> DEFINE c1 == Go("placeholder", n)
           c2 == Mark("func", s.name)
           c3 == Push("rbp")
           c4 == Copy("rbp", 8, "rsp")
           m == Len(s.params)
           seqs == [k \in DOMAIN s.params |-> ParamCode(p, EnterParams(vs, s.params, k), s.params[k], k)]
           g == FlattenSeq(seqs)
           h == <<c1, c2, c3, c4>>
<1>1. Piece(g, Saving(0), Saving(16 * m)) /\ LinkLess(g) /\ 16 * m \in Nat
  <2>1. m \in Nat /\ DOMAIN s.params = 1..m /\ \A k \in 1..m : k \in 1..6
    <3>1. m \in 0..6 /\ DOMAIN s.params = 1..m
      OBVIOUS
    <3> HIDE DEF m
    <3>2. m \in Nat /\ \A k \in 1..m : k \in 1..6
      BY <3>1
    <3> QED BY <3>1, <3>2
  <2>2. \A k \in 1..m : seqs[k] = ParamCode(p, EnterParams(vs, s.params, k), s.params[k], k)
    BY <2>1
  <2>3. seqs = [k \in 1..m |-> seqs[k]]
    <3> HIDE DEF m
    <3> QED BY <2>1
  <2> HIDE DEF seqs, m
  <2>4. \A k \in 1..m : LinkLess(seqs[k]) /\ \A q \in Nat : Piece(seqs[k], Saving(q), Saving(q + 16))
    BY <2>1, <2>2, ParamWalks
  <2>5. Listing(seqs) /\ Len(seqs) = m
    BY <2>1, <2>3, ListingFun
  <2>6. Piece(g, Saving(0), Saving(16 * m)) /\ LinkLess(g)
    BY <2>1, <2>4, <2>5, ParamsWalk
  <2> QED BY <2>1, <2>6
<1>2. FuncHeadText(p, vs, s, n) = h \o g
  <2>1. FuncHeadText(p, vs, s, n) = <<c1>> \o (<<c2, c3, c4>> \o g)
    BY DEF FuncHeadText, FuncCode
  <2>2. h = <<c1>> \o <<c2, c3, c4>>
    BY FourIs
  <2>3. Listing(<<c1>>) /\ Listing(<<c2, c3, c4>>)
    BY Tuples
  <2>4. Listing(g)
    BY <1>1 DEF LinkLess
  <2> HIDE DEF c1, c2, c3, c4, g, h
  <2> QED BY <2>1, <2>2, <2>3, <2>4, Associates
<1>3. Listing(h)
  BY Tuples
<1>4. Len(h) = 4 /\ h[1] = c1 /\ h[2] = c2 /\ h[3] = c3 /\ h[4] = c4
  BY FourIs
<1>5. /\ c1.op = "jump" /\ c1.tag = "placeholder" /\ c1.id = n
      /\ c2.op = "label" /\ c2.tag = "func" /\ c2.id = s.name
      /\ c3.op = "push" /\ c4.op = "copy"
  BY DEF Go, Mark, Push, Copy
<1> HIDE DEF c1, c2, c3, c4, g, m, seqs
<1>6. <<"func", s.name>> \in Labels(h)
  <2> HIDE DEF h
  <2>1. 2 \in 1..Len(h) /\ h[2].op = "label"
    BY <1>4, <1>5
  <2> QED BY <1>4, <1>5, <2>1 DEF Labels
<1>7. Wanted(h) \subseteq {<<"placeholder", n>>}
  <2> HIDE DEF h
  <2>1. \A i \in 1..Len(h) : h[i].op \in {"jump", "jz", "call"} => i = 1
    <3>1. \A i \in 1..Len(h) : i = 1 \/ i = 2 \/ i = 3 \/ i = 4
      BY <1>4
    <3> QED BY <1>4, <1>5, <3>1
  <2> QED BY <1>4, <1>5, <2>1 DEF Wanted
<1> HIDE DEF h
<1>8. /\ Listing(h \o g) /\ <<"func", s.name>> \in Labels(h \o g)
      /\ Wanted(h \o g) \subseteq {<<"placeholder", n>>}
  BY <1>1, <1>3, <1>6, <1>7, Behind, LinksBehind DEF LinkLess
<1>9. ASSUME NEW v, AtBody(v), v.main PROVE \E w : AtBody(w) /\ ~w.main /\ Piece(h \o g, v, w)
  <2>1. Piece(h, v, Saving(0))
    BY <1>9, HeadWalks DEF h, c1, c2, c3, c4
  <2>2. Piece(h \o g, v, Saving(16 * m))
    BY <1>1, <2>1, PieceBehind
  <2>3. AtBody(Saving(16 * m)) /\ ~Saving(16 * m).main
    BY <1>1, SavingIs
  <2> QED BY <2>2, <2>3
<1> QED BY <1>2, <1>8, <1>9
-----------------------------------------------------------------------------
(* A text between two bodies, of the main frame or of a function: it leads *)
(* from the one to the other, has the labels gives and wants those of      *)
(* takes at most.                                                          *)
Carries(f, a, b, gives, takes) ==
  /\ Listing(f) /\ gives \subseteq Labels(f) /\ Wanted(f) \subseteq takes
  /\ \A v : AtBody(v) /\ v.main = a => \E w : AtBody(w) /\ w.main = b /\ Piece(f, v, w)

LEMMA CarriesBehind ==
  ASSUME NEW f, NEW g, NEW a, NEW b, NEW c, NEW gf, NEW gg, NEW tf, NEW tg,
         Carries(f, a, b, gf, tf), Carries(g, b, c, gg, tg)
  PROVE  Carries(f \o g, a, c, gf \cup gg, tf \cup tg)
<1>1. /\ Listing(f) /\ gf \subseteq Labels(f) /\ Wanted(f) \subseteq tf
      /\ Listing(g) /\ gg \subseteq Labels(g) /\ Wanted(g) \subseteq tg
  BY DEF Carries
<1>2. Listing(f \o g)
  BY <1>1, Behind
<1>3. gf \cup gg \subseteq Labels(f \o g) /\ Wanted(f \o g) \subseteq tf \cup tg
  <2>1. /\ Labels(f) \subseteq Labels(f \o g) /\ Labels(g) \subseteq Labels(f \o g)
        /\ Wanted(f \o g) \subseteq Wanted(f) \cup Wanted(g)
    BY <1>1, LinksBehind
  <2> QED BY <1>1, <2>1
<1>4. ASSUME NEW v, AtBody(v), v.main = a
      PROVE  \E w : AtBody(w) /\ w.main = c /\ Piece(f \o g, v, w)
  <2>1. PICK u : AtBody(u) /\ u.main = b /\ Piece(f, v, u)
    BY <1>4 DEF Carries
  <2>2. PICK w : AtBody(w) /\ w.main = c /\ Piece(g, u, w)
    BY <2>1 DEF Carries
  <2>3. Piece(f \o g, v, w)
    BY <2>1, <2>2, PieceBehind
  <2> QED BY <2>2, <2>3
<1> QED BY <1>2, <1>3, <1>4 DEF Carries

(* It may be said to give less and to take more.                           *)
LEMMA CarriesLess ==
  ASSUME NEW f, NEW a, NEW b, NEW g, NEW t, NEW h, NEW u, Carries(f, a, b, g, t), h \subseteq g, t \subseteq u
  PROVE  Carries(f, a, b, h, u)
<1> QED BY DEF Carries

LEMMA CarriesSteady ==
  ASSUME NEW f, NEW fs, NEW a, Steady(f, fs)
  PROVE  Carries(f, a, a, {}, Funcs(fs))
<1>1. ASSUME NEW v, AtBody(v), v.main = a
      PROVE  \E w : AtBody(w) /\ w.main = a /\ Piece(f, v, w)
  <2>1. PICK w : Still(v, w) /\ Piece(f, v, w)
    BY <1>1 DEF Steady
  <2>2. AtBody(w) /\ w.main = a
    BY <1>1, <2>1 DEF Still
  <2> QED BY <2>1, <2>2
<1>2. Listing(f) /\ Wanted(f) \subseteq Funcs(fs)
  BY DEF Steady
<1> QED BY <1>1, <1>2 DEF Carries

(* The links of one instruction.                                           *)
LEMMA LinksOne ==
  ASSUME NEW c
  PROVE  /\ Listing(<<c>>)
         /\ c.op = "label" => {<<c.tag, c.id>>} \subseteq Labels(<<c>>)
         /\ Wanted(<<c>>) \subseteq IF c.op \in {"jump", "jz", "call"} THEN {<<c.tag, c.id>>} ELSE {}
<1> DEFINE f == <<c>>
<1>1. Listing(f)
  BY Tuples
<1>2. Len(f) = 1 /\ f[1] = c
  OBVIOUS
<1> HIDE DEF f
<1>3. 1..Len(f) = {1}
  BY <1>2
<1>4. c.op = "label" => {<<c.tag, c.id>>} \subseteq Labels(f)
  BY <1>2, <1>3 DEF Labels
<1>5. Wanted(f) \subseteq IF c.op \in {"jump", "jz", "call"} THEN {<<c.tag, c.id>>} ELSE {}
  BY <1>2, <1>3 DEF Wanted
<1> QED BY <1>1, <1>4, <1>5 DEF f

(* A level of the body of the main frame.                                  *)
LEMMA MainIs ==
  ASSUME NEW v, AtBody(v), v.main = TRUE
  PROVE  v \in LevelType /\ v.part = "body" /\ v.high = 0 /\ v.main /\ v = Level(TRUE, "body", 0, v.rdi)
<1>1. v \in LevelType /\ v.part = "body" /\ v.high = 0 /\ v.main
  BY DEF AtBody
<1>2. v = Level(v.main, v.part, v.high, v.rdi)
  BY <1>1, LevelOf
<1> QED BY <1>1, <1>2

LEMMA CarriesMark ==
  ASSUME NEW tag, NEW n, tag # "func"
  PROVE  Carries(<<Mark(tag, n)>>, TRUE, TRUE, {<<tag, n>>}, {})
<1> DEFINE c == Mark(tag, n)
<1>1. c.op = "label" /\ c.tag = tag /\ c.id = n /\ Shaped(c) /\ ~Sets(c, "rdi") /\ ~Sets(c, "rsp") /\ ~Sets(c, "rbp")
  BY DEF Mark, Shaped, Sets
<1> HIDE DEF c
<1>2. ~IsFunc(c)
  BY <1>1 DEF IsFunc
<1>3. MainBody \in LevelType /\ MainBody.part = "body" /\ MainBody.high = 0 /\ MainBody.main
  BY Known
<1>4. AtBody(MainBody) /\ MainBody.main = TRUE
  <2>1. MainBody.main = TRUE
    BY DEF MainBody, Level
  <2> QED BY <1>3, <2>1 DEF AtBody
<1>5. Right(c, MainBody)
  BY <1>1, <1>3 DEF Right, Allowed
<1>6. Leads(c, MainBody) = MainBody
  <2>1. After(c, MainBody) = MainBody
    BY <1>1, <1>3, InBody
  <2> QED BY <1>1, <2>1 DEF Leads
<1>7. ASSUME NEW v, AtBody(v), v.main = TRUE
      PROVE  \E w : AtBody(w) /\ w.main = TRUE /\ Piece(<<c>>, v, w)
  <2>1. v \in LevelType /\ v.part = "body" /\ v.high = 0 /\ v.main = TRUE
    BY <1>7, MainIs
  <2>2. Meets(c, v) = MainBody
    <3>1. Meets(c, v) = Level(v.main, v.part, v.high, Unknown)
      BY <1>1, <1>2, <2>1, MeetsIs
    <3> QED BY <2>1, <3>1 DEF MainBody
  <2>3. MainBody.high <= v.high + 16
    BY <1>3, <2>1
  <2>4. Piece(<<c>>, v, MainBody)
    BY <1>1, <1>2, <1>3, <1>5, <1>6, <2>1, <2>2, <2>3, Alone
  <2> QED BY <1>4, <2>4
<1>8. {<<tag, n>>} \subseteq Labels(<<c>>) /\ Wanted(<<c>>) \subseteq {} /\ Listing(<<c>>)
  BY <1>1, LinksOne
<1>9. Carries(<<c>>, TRUE, TRUE, {<<tag, n>>}, {})
  BY <1>7, <1>8 DEF Carries
<1> QED BY <1>9 DEF c

LEMMA CarriesJump ==
  ASSUME NEW c, NEW tag, NEW n, c.op = "jump" \/ c.op = "jz", c.tag = tag, c.id = n, tag # "func", Shaped(c)
  PROVE  Carries(<<c>>, TRUE, TRUE, {}, {<<tag, n>>})
<1>1. ~IsFunc(c) /\ ~Sets(c, "rdi") /\ ~Sets(c, "rsp") /\ ~Sets(c, "rbp")
  BY DEF IsFunc, Sets
<1>2. ASSUME NEW v, AtBody(v), v.main = TRUE
      PROVE  \E w : AtBody(w) /\ w.main = TRUE /\ Piece(<<c>>, v, w)
  <2>1. v \in LevelType /\ v.part = "body" /\ v.high = 0 /\ v.main
    BY <1>2, MainIs
  <2>2. Meets(c, v) = v
    BY <2>1, MeetsIs
  <2>3. After(c, v) = v
    BY <1>1, <2>1, InBody
  <2>4. Leads(c, v) = v
    BY <2>3 DEF Leads
  <2>5. Right(c, v)
    BY <1>1, <2>1 DEF Right, Allowed
  <2>6. v.high <= v.high + 16
    BY <2>1
  <2>7. Piece(<<c>>, v, v)
    BY <1>1, <2>1, <2>2, <2>4, <2>5, <2>6, Alone
  <2> QED BY <1>2, <2>7
<1>3. Listing(<<c>>) /\ Wanted(<<c>>) \subseteq {<<tag, n>>}
  BY LinksOne
<1> QED BY <1>2, <1>3 DEF Carries

LEMMA CarriesGo ==
  ASSUME NEW tag, NEW n, NEW r \in Registers, tag # "func"
  PROVE  /\ Carries(<<Go(tag, n)>>, TRUE, TRUE, {}, {<<tag, n>>})
         /\ Carries(<<GoIfZero(r, tag, n)>>, TRUE, TRUE, {}, {<<tag, n>>})
<1> DEFINE c == Go(tag, n)
           d == GoIfZero(r, tag, n)
<1>1. c.op = "jump" /\ c.tag = tag /\ c.id = n /\ Shaped(c)
  BY DEF Go, Shaped
<1>2. d.op = "jz" /\ d.tag = tag /\ d.id = n /\ Shaped(d)
  BY DEF GoIfZero, Shaped
<1> HIDE DEF c, d
<1>3. Carries(<<c>>, TRUE, TRUE, {}, {<<tag, n>>})
  BY <1>1, CarriesJump
<1>4. Carries(<<d>>, TRUE, TRUE, {}, {<<tag, n>>})
  BY <1>2, CarriesJump
<1> QED BY <1>3, <1>4 DEF c, d

(* The end of a function.                                                  *)
LEMMA CarriesEpilogue == Carries(Epilogue, FALSE, TRUE, {}, {})
<1> DEFINE c == Leave
           d == Ret
<1>1. c.op = "leave" /\ Shaped(c) /\ ~Sets(c, "rdi") /\ ~Sets(c, "rsp") /\ ~Sets(c, "rbp")
  BY DEF Leave, Shaped, Sets
<1>2. d.op = "ret" /\ Shaped(d)
  BY DEF Ret, Shaped
<1>3. Epilogue = <<c>> \o <<d>>
  BY Splits DEF Epilogue
<1> HIDE DEF c, d
<1>4. ~IsFunc(c) /\ ~IsFunc(d)
  BY <1>1, <1>2 DEF IsFunc
<1>5. ASSUME NEW v, AtBody(v), v.main = FALSE
      PROVE  \E w : AtBody(w) /\ w.main = TRUE /\ Piece(<<c>> \o <<d>>, v, w)
  <2> DEFINE u == Level(FALSE, "exit", 0, v.rdi)
  <2>1. v \in LevelType /\ v.part = "body"
    BY <1>5 DEF AtBody
  <2>2. v.high \in Nat /\ v.rdi \in RdiType
    BY <2>1, LevelOf
  <2>3. u \in LevelType /\ u.main = FALSE /\ u.part = "exit" /\ u.high = 0
    <3>1. u.main = FALSE /\ u.part = "exit" /\ u.high = 0
      BY DEF Level
    <3>2. u \in LevelType
      BY <2>2 DEF Level, LevelType, RdiType
    <3> QED BY <3>1, <3>2
  <2>4. Leads(c, v) = u
    <3>1. After(c, v) = Level(v.main, "exit", 0, v.rdi)
      BY <1>1, <2>1, InBody
    <3> QED BY <1>1, <1>5, <3>1 DEF Leads
  <2> HIDE DEF u
  <2>5. Meets(c, v) = v /\ Meets(d, u) = u
    BY <1>1, <1>2, <2>1, <2>3, MeetsIs
  <2>6. Right(c, v)
    BY <1>1, <1>5, <2>1 DEF Right, Allowed
  <2>7. Right(d, u)
    BY <1>2, <2>3 DEF Right, Allowed
  <2>8. Leads(d, u) = MainBody
    BY <1>2 DEF Leads
  <2>9. MainBody \in LevelType /\ MainBody.part = "body" /\ MainBody.high = 0
    BY Known
  <2>10. u.high <= v.high + 16
    BY <2>2, <2>3
  <2>11. Piece(<<c>>, v, u)
    BY <1>1, <1>4, <2>1, <2>3, <2>4, <2>5, <2>6, <2>10, Alone
  <2>12. MainBody.high <= u.high + 16
    BY <2>3, <2>9
  <2>13. Piece(<<d>>, u, MainBody)
    BY <1>2, <1>4, <2>3, <2>5, <2>7, <2>8, <2>9, <2>12, Alone
  <2>14. Piece(<<c>> \o <<d>>, v, MainBody)
    BY <2>11, <2>13, PieceBehind
  <2>15. MainBody.main = TRUE /\ AtBody(MainBody)
    BY <2>9 DEF MainBody, Level, AtBody
  <2> QED BY <2>14, <2>15
<1>6. Listing(<<c>>) /\ Listing(<<d>>) /\ Wanted(<<c>>) \subseteq {} /\ Wanted(<<d>>) \subseteq {}
  BY <1>1, <1>2, LinksOne
<1>7. Listing(<<c>> \o <<d>>) /\ Wanted(<<c>> \o <<d>>) \subseteq {}
  BY <1>6, Behind, LinksBehind
<1>8. Carries(<<c>> \o <<d>>, FALSE, TRUE, {}, {})
  BY <1>5, <1>7 DEF Carries
<1> QED BY <1>3, <1>8
-----------------------------------------------------------------------------
(* The text of a statement.                                                *)
Starts(p, i) ==
  LET n == LabelOf(p, i)
  IN  CASE p[i].kind = "WHILE" -> {<<"While_start", n>>}
        [] p[i].kind = "FOR"   -> {<<"For_start", n>>}
        [] p[i].kind = "FUNC"  -> {<<"func", p[i].name>>}
        [] OTHER               -> {}

Ends(p, i) ==
  LET n == LabelOf(p, i)
  IN  CASE p[i].kind = "IF"    -> {<<"if_end", n>>}
        [] p[i].kind = "ELSE"  -> {<<"else_end", n>>}
        [] p[i].kind = "WHILE" -> {<<"While_end", n>>}
        [] p[i].kind = "FOR"   -> {<<"For_end", n>>}
        [] p[i].kind = "FUNC"  -> {<<"placeholder", n>>}

(* The body of a statement that opens one is of the main frame.            *)
MainOf(s) == s.kind # "FUNC"

LEMMA TextsOf ==
  ASSUME NEW s, NEW t, NEW line, NEW f
  PROVE  On(line, f).code = f /\ Then(s, t).code = s.code \o t.code
<1> QED BY DEF On, Then

LEMMA OpenKindsAre ==
  ASSUME NEW s, Opens(s)
  PROVE  s.kind \in {"IF", "ELSE", "WHILE", "FOR", "FUNC"}
<1> QED BY DEF Opens, OpenKinds

(* One that opens a body.                                                  *)
LEMMA OpenCarries ==
  ASSUME NEW p, NEW vs, NEW i, NEW fs, Opens(p[i]), IsStmt(p[i], fs)
  PROVE  Carries(OpenText(p, vs, i).code, TRUE, MainOf(p[i]), Starts(p, i), Ends(p, i) \cup Funcs(fs))
<1> DEFINE s    == p[i]
           n    == LabelOf(p, i)
           cond == ExprCode(p, vs, s.expr, s)
           f    == OpenText(p, vs, i).code
<1>1. s.kind \in {"IF", "ELSE", "WHILE", "FOR", "FUNC"}
  BY OpenKindsAre
<1>2. ASSUME s.kind \in {"IF", "WHILE", "FOR"} PROVE Carries(cond, TRUE, TRUE, {}, Funcs(fs))
  <2>1. IsExpr(s.expr, fs)
    BY <1>2 DEF IsStmt, IsLeaf, LeafKinds
  <2>2. Steady(cond, fs)
    BY <2>1, SteadyExpr
  <2> QED BY <2>2, CarriesSteady
<1>3. "rax" \in Registers /\ "r10" \in Registers
  BY DEF Registers
<1>4. CASE s.kind = "IF"
  <2>1. f = cond \o <<GoIfZero("rax", "if_end", n)>>
    BY <1>4, TextsOf DEF OpenText
  <2>2. Carries(<<GoIfZero("rax", "if_end", n)>>, TRUE, TRUE, {}, {<<"if_end", n>>})
    BY <1>3, CarriesGo
  <2>3. Carries(cond, TRUE, TRUE, {}, Funcs(fs))
    BY <1>2, <1>4
  <2>4. MainOf(s) = TRUE /\ Starts(p, i) = {} /\ Ends(p, i) = {<<"if_end", n>>}
    BY <1>4 DEF MainOf, Starts, Ends
  <2> HIDE DEF f, cond, n, s
  <2>5. Carries(f, TRUE, TRUE, {} \cup {}, Funcs(fs) \cup {<<"if_end", n>>})
    BY <2>1, <2>2, <2>3, CarriesBehind
  <2>6. Carries(f, TRUE, TRUE, {}, {<<"if_end", n>>} \cup Funcs(fs))
    BY <2>5, CarriesLess
  <2> QED BY <2>4, <2>6 DEF f, s
<1>5. CASE s.kind = "ELSE"
  <2>1. f = <<>>
    BY <1>5, TextsOf DEF OpenText
  <2>2. Carries(<<>>, TRUE, TRUE, {}, Funcs(fs))
    BY SteadyNone, CarriesSteady
  <2>3. MainOf(s) = TRUE /\ Starts(p, i) = {}
    BY <1>5 DEF MainOf, Starts
  <2> HIDE DEF f, cond, n, s
  <2>4. Carries(f, TRUE, TRUE, {}, Ends(p, i) \cup Funcs(fs))
    BY <2>1, <2>2, CarriesLess
  <2> QED BY <2>3, <2>4 DEF f, s
<1>6. CASE s.kind = "WHILE"
  <2> DEFINE a == <<Mark("While_start", n)>>
             b == <<Copy("r10", 8, "rax")>>
             d == <<GoIfZero("r10", "While_end", n)>>
  <2>1. f = (a \o cond) \o (b \o d)
    <3>1. f = (a \o cond) \o <<Copy("r10", 8, "rax"), GoIfZero("r10", "While_end", n)>>
      BY <1>6, TextsOf DEF OpenText
    <3>2. <<Copy("r10", 8, "rax"), GoIfZero("r10", "While_end", n)>> = b \o d
      BY Splits
    <3> HIDE DEF f, cond, a, b, d
    <3> QED BY <3>1, <3>2
  <2>2. Carries(a, TRUE, TRUE, {<<"While_start", n>>}, {})
    BY CarriesMark
  <2>3. Carries(d, TRUE, TRUE, {}, {<<"While_end", n>>})
    BY <1>3, CarriesGo
  <2>4. Carries(b, TRUE, TRUE, {}, Funcs(fs))
    <3> DEFINE c == Copy("r10", 8, "rax")
    <3>1. Shaped(c) /\ c.op = "copy" /\ ~Sets(c, "rsp") /\ ~Sets(c, "rbp")
      BY DEF Copy, Shaped, Sets, Registers
    <3> HIDE DEF c
    <3>2. Steady(<<c>>, fs)
      BY <3>1, SteadyOne
    <3>3. Carries(<<c>>, TRUE, TRUE, {}, Funcs(fs))
      BY <3>2, CarriesSteady
    <3> QED BY <3>3 DEF c
  <2>5. Carries(cond, TRUE, TRUE, {}, Funcs(fs))
    BY <1>2, <1>6
  <2>6. MainOf(s) = TRUE /\ Starts(p, i) = {<<"While_start", n>>} /\ Ends(p, i) = {<<"While_end", n>>}
    BY <1>6 DEF MainOf, Starts, Ends
  <2> HIDE DEF f, cond, n, s, a, b, d
  <2>7. Carries(a \o cond, TRUE, TRUE, {<<"While_start", n>>} \cup {}, {} \cup Funcs(fs))
    BY <2>2, <2>5, CarriesBehind
  <2>8. Carries(b \o d, TRUE, TRUE, {} \cup {}, Funcs(fs) \cup {<<"While_end", n>>})
    BY <2>3, <2>4, CarriesBehind
  <2>9. Carries(f, TRUE, TRUE, ({<<"While_start", n>>} \cup {}) \cup ({} \cup {}),
                ({} \cup Funcs(fs)) \cup (Funcs(fs) \cup {<<"While_end", n>>}))
    BY <2>1, <2>7, <2>8, CarriesBehind
  <2>10. Carries(f, TRUE, TRUE, {<<"While_start", n>>}, {<<"While_end", n>>} \cup Funcs(fs))
    BY <2>9, CarriesLess
  <2> QED BY <2>6, <2>10 DEF f, s
<1>7. CASE s.kind = "FOR"
  <2> DEFINE a == LeafCode(p, vs, s.init)
             b == <<Mark("For_start", n)>>
             d == <<GoIfZero("rax", "For_end", n)>>
  <2>1. f = a \o ((b \o cond) \o d)
    BY <1>7 DEF OpenText, On, Then
  <2>2. Carries(b, TRUE, TRUE, {<<"For_start", n>>}, {})
    BY CarriesMark
  <2>3. Carries(d, TRUE, TRUE, {}, {<<"For_end", n>>})
    BY <1>3, CarriesGo
  <2>4. Carries(a, TRUE, TRUE, {}, Funcs(fs))
    <3>1. IsLeaf(s.init, fs)
      BY <1>7 DEF IsStmt, IsLeaf, LeafKinds, DeclKinds
    <3> QED BY <3>1, SteadyLeaf, CarriesSteady
  <2>5. Carries(cond, TRUE, TRUE, {}, Funcs(fs))
    BY <1>2, <1>7
  <2>6. MainOf(s) = TRUE /\ Starts(p, i) = {<<"For_start", n>>} /\ Ends(p, i) = {<<"For_end", n>>}
    BY <1>7 DEF MainOf, Starts, Ends
  <2> HIDE DEF f, cond, n, s, a, b, d
  <2>7. Carries(b \o cond, TRUE, TRUE, {<<"For_start", n>>} \cup {}, {} \cup Funcs(fs))
    BY <2>2, <2>5, CarriesBehind
  <2>8. Carries((b \o cond) \o d, TRUE, TRUE, ({<<"For_start", n>>} \cup {}) \cup {},
                ({} \cup Funcs(fs)) \cup {<<"For_end", n>>})
    BY <2>3, <2>7, CarriesBehind
  <2>9. Carries(f, TRUE, TRUE, {} \cup (({<<"For_start", n>>} \cup {}) \cup {}),
                Funcs(fs) \cup (({} \cup Funcs(fs)) \cup {<<"For_end", n>>}))
    BY <2>1, <2>4, <2>8, CarriesBehind
  <2>10. Carries(f, TRUE, TRUE, {<<"For_start", n>>}, {<<"For_end", n>>} \cup Funcs(fs))
    BY <2>9, CarriesLess
  <2> QED BY <2>6, <2>10 DEF f, s
<1>8. CASE s.kind = "FUNC"
  <2> DEFINE h == FuncHeadText(p, vs, s, n)
  <2>1. f = h
    BY <1>8 DEF OpenText, On, Then, FuncHeadText
  <2>2. Len(s.params) \in 0..6 /\ DOMAIN s.params = 1..Len(s.params)
    BY <1>8 DEF IsStmt, IsLeaf, LeafKinds, DeclKinds
  <2>3. MainOf(s) = FALSE /\ Starts(p, i) = {<<"func", s.name>>} /\ Ends(p, i) = {<<"placeholder", n>>}
    BY <1>8 DEF MainOf, Starts, Ends
  <2> HIDE DEF f, cond, n, s
  <2>4. /\ Listing(h) /\ <<"func", s.name>> \in Labels(h) /\ Wanted(h) \subseteq {<<"placeholder", n>>}
        /\ \A v : AtBody(v) /\ v.main => \E w : AtBody(w) /\ ~w.main /\ Piece(h, v, w)
    BY <2>2, FuncOpens
  <2> HIDE DEF h
  <2>5. ASSUME NEW v, AtBody(v), v.main = TRUE
        PROVE  \E w : AtBody(w) /\ w.main = FALSE /\ Piece(h, v, w)
    <3>1. PICK w : AtBody(w) /\ ~w.main /\ Piece(h, v, w)
      BY <2>4, <2>5
    <3>2. w.main = FALSE
      <4>1. w.main \in BOOLEAN
        BY <3>1, LevelOf DEF AtBody
      <4> QED BY <3>1, <4>1
    <3> QED BY <3>1, <3>2
  <2>6. Carries(h, TRUE, FALSE, {<<"func", s.name>>}, {<<"placeholder", n>>} \cup Funcs(fs))
    BY <2>4, <2>5 DEF Carries
  <2> QED BY <2>1, <2>3, <2>6 DEF f, s
<1> QED BY <1>1, <1>4, <1>5, <1>6, <1>7, <1>8

(* The END of a body.                                                      *)
LEMMA CloseCarries ==
  ASSUME NEW p, NEW vs, NEW i, NEW o, NEW fs, o = Opener(p, i), Opens(p[o]), IsStmt(p[o], fs)
  PROVE  Carries(CloseText(p, vs, i).code, MainOf(p[o]), TRUE, Ends(p, o), Starts(p, o) \cup Funcs(fs))
<1> DEFINE s == p[o]
           n == LabelOf(p, o)
           f == CloseText(p, vs, i).code
<1>1. s.kind \in {"IF", "ELSE", "WHILE", "FOR", "FUNC"}
  BY OpenKindsAre
<1>2. "rax" \in Registers
  BY DEF Registers
<1>3. Carries(<<>>, TRUE, TRUE, {}, Funcs(fs))
  BY SteadyNone, CarriesSteady
<1>4. CASE s.kind = "IF"
  <2>1. f = <<>> \o <<Mark("if_end", n)>>
    BY <1>4 DEF CloseText, On, Then
  <2>2. Carries(<<Mark("if_end", n)>>, TRUE, TRUE, {<<"if_end", n>>}, {})
    BY CarriesMark
  <2>3. MainOf(s) = TRUE /\ Ends(p, o) = {<<"if_end", n>>}
    BY <1>4 DEF MainOf, Ends
  <2> HIDE DEF f, n, s
  <2>4. Carries(f, TRUE, TRUE, {} \cup {<<"if_end", n>>}, Funcs(fs) \cup {})
    BY <1>3, <2>1, <2>2, CarriesBehind
  <2>5. {<<"if_end", n>>} \subseteq {} \cup {<<"if_end", n>>} /\ Funcs(fs) \cup {} \subseteq Starts(p, o) \cup Funcs(fs)
    OBVIOUS
  <2>6. Carries(f, TRUE, TRUE, {<<"if_end", n>>}, Starts(p, o) \cup Funcs(fs))
    BY <2>4, <2>5, CarriesLess
  <2> QED BY <2>3, <2>6 DEF f, s
<1>5. CASE s.kind = "ELSE"
  <2>1. f = <<>> \o <<Mark("else_end", n)>>
    BY <1>5 DEF CloseText, On, Then
  <2>2. Carries(<<Mark("else_end", n)>>, TRUE, TRUE, {<<"else_end", n>>}, {})
    BY CarriesMark
  <2>3. MainOf(s) = TRUE /\ Ends(p, o) = {<<"else_end", n>>}
    BY <1>5 DEF MainOf, Ends
  <2> HIDE DEF f, n, s
  <2>4. Carries(f, TRUE, TRUE, {} \cup {<<"else_end", n>>}, Funcs(fs) \cup {})
    BY <1>3, <2>1, <2>2, CarriesBehind
  <2>5. {<<"else_end", n>>} \subseteq {} \cup {<<"else_end", n>>} /\ Funcs(fs) \cup {} \subseteq Starts(p, o) \cup Funcs(fs)
    OBVIOUS
  <2>6. Carries(f, TRUE, TRUE, {<<"else_end", n>>}, Starts(p, o) \cup Funcs(fs))
    BY <2>4, <2>5, CarriesLess
  <2> QED BY <2>3, <2>6 DEF f, s
<1>6. CASE s.kind = "WHILE"
  <2>1. f = <<Go("While_start", n)>> \o <<Mark("While_end", n)>>
    BY <1>6 DEF CloseText, On, Then
  <2>2. Carries(<<Mark("While_end", n)>>, TRUE, TRUE, {<<"While_end", n>>}, {})
    BY CarriesMark
  <2>3. Carries(<<Go("While_start", n)>>, TRUE, TRUE, {}, {<<"While_start", n>>})
    BY <1>2, CarriesGo
  <2>4. MainOf(s) = TRUE /\ Ends(p, o) = {<<"While_end", n>>} /\ Starts(p, o) = {<<"While_start", n>>}
    BY <1>6 DEF MainOf, Ends, Starts
  <2> HIDE DEF f, n, s
  <2>5. Carries(f, TRUE, TRUE, {} \cup {<<"While_end", n>>}, {<<"While_start", n>>} \cup {})
    BY <2>1, <2>2, <2>3, CarriesBehind
  <2>6. Carries(f, TRUE, TRUE, {<<"While_end", n>>}, {<<"While_start", n>>} \cup Funcs(fs))
    <3> DEFINE A == {<<"While_end", n>>}
               B == {<<"While_start", n>>}
    <3>1. A \subseteq {} \cup A /\ B \cup {} \subseteq B \cup Funcs(fs)
      OBVIOUS
    <3>2. Carries(f, TRUE, TRUE, {} \cup A, B \cup {})
      BY <2>5
    <3> HIDE DEF A, B
    <3>3. Carries(f, TRUE, TRUE, A, B \cup Funcs(fs))
      BY <3>1, <3>2, CarriesLess
    <3> QED BY <3>3 DEF A, B
  <2> QED BY <2>4, <2>6 DEF f, s
<1>7. CASE s.kind = "FUNC"
  <2>1. f = Epilogue \o <<Mark("placeholder", n)>>
    BY <1>7 DEF CloseText, On, Then
  <2>2. Carries(<<Mark("placeholder", n)>>, TRUE, TRUE, {<<"placeholder", n>>}, {})
    BY CarriesMark
  <2>3. MainOf(s) = FALSE /\ Ends(p, o) = {<<"placeholder", n>>}
    BY <1>7 DEF MainOf, Ends
  <2> HIDE DEF f, n, s
  <2>4. Carries(f, FALSE, TRUE, {} \cup {<<"placeholder", n>>}, {} \cup {})
    BY <2>1, <2>2, CarriesEpilogue, CarriesBehind
  <2>5. Carries(f, FALSE, TRUE, {<<"placeholder", n>>}, Starts(p, o) \cup Funcs(fs))
    BY <2>4, CarriesLess
  <2> QED BY <2>3, <2>5 DEF f, s
<1>8. CASE s.kind = "FOR"
  <2> DEFINE a == LeafCode(p, vs, s.step)
             b == <<Go("For_start", n)>>
             d == <<Mark("For_end", n)>>
  <2>1. f = (a \o b) \o d
    BY <1>8 DEF CloseText, StepCode, On, Then
  <2>2. Carries(d, TRUE, TRUE, {<<"For_end", n>>}, {})
    BY CarriesMark
  <2>3. Carries(b, TRUE, TRUE, {}, {<<"For_start", n>>})
    BY <1>2, CarriesGo
  <2>4. Carries(a, TRUE, TRUE, {}, Funcs(fs))
    <3>1. IsLeaf(s.step, fs)
      BY <1>8 DEF IsStmt, IsLeaf, LeafKinds, DeclKinds
    <3> QED BY <3>1, SteadyLeaf, CarriesSteady
  <2>5. MainOf(s) = TRUE /\ Ends(p, o) = {<<"For_end", n>>} /\ Starts(p, o) = {<<"For_start", n>>}
    BY <1>8 DEF MainOf, Ends, Starts
  <2> HIDE DEF f, n, s, a, b, d
  <2>6. Carries(a \o b, TRUE, TRUE, {} \cup {}, Funcs(fs) \cup {<<"For_start", n>>})
    BY <2>3, <2>4, CarriesBehind
  <2>7. Carries(f, TRUE, TRUE, ({} \cup {}) \cup {<<"For_end", n>>}, (Funcs(fs) \cup {<<"For_start", n>>}) \cup {})
    BY <2>1, <2>2, <2>6, CarriesBehind
  <2>8. Carries(f, TRUE, TRUE, {<<"For_end", n>>}, {<<"For_start", n>>} \cup Funcs(fs))
    BY <2>7, CarriesLess
  <2> QED BY <2>5, <2>8 DEF f, s
<1> QED BY <1>1, <1>4, <1>5, <1>6, <1>7, <1>8
-----------------------------------------------------------------------------
(* The bodies of a listing.                                                *)
Delta(s) == IF Opens(s) THEN 1 ELSE IF Closes(s) THEN -1 ELSE 0

(* An opener makes the next statement deeper, an END shallower.            *)
LEMMA DepthStep ==
  ASSUME NEW p, NEW k \in Nat \ {0}
  PROVE  /\ Depth(p, 1) = 0
         /\ Depth(p, k) \in Int
         /\ Depth(p, k + 1) = Depth(p, k) + Delta(p[k])
<1> DEFINE T == {i \in Nat : Opens(p[i])}
           U == {i \in Nat : Closes(p[i])}
<1>1. ASSUME NEW n \in Nat \ {0} PROVE Depth(p, n) = Surplus(T, U, n - 1)
  <2>1. {j \in 1..(n - 1) : Opens(p[j])} = {j \in 1..(n - 1) : j \in T}
    OBVIOUS
  <2>2. {j \in 1..(n - 1) : Closes(p[j])} = {j \in 1..(n - 1) : j \in U}
    OBVIOUS
  <2> HIDE DEF T, U
  <2> QED BY <2>1, <2>2 DEF Depth, Surplus
<1>2. ~(k \in T /\ k \in U)
  BY DEF Opens, Closes, OpenKinds
<1>3. (k \in T <=> Opens(p[k])) /\ (k \in U <=> Closes(p[k]))
  OBVIOUS
<1> HIDE DEF T, U
<1>4. Delta(p[k]) = IF k \in T THEN 1 ELSE IF k \in U THEN -1 ELSE 0
  BY <1>3 DEF Delta
<1>5. /\ 1 \in Nat \ {0} /\ k + 1 \in Nat \ {0} /\ 1 - 1 = 0 /\ (k + 1) - 1 = k
  OBVIOUS
<1>6. Depth(p, 1) = Surplus(T, U, 1 - 1) /\ Depth(p, k + 1) = Surplus(T, U, (k + 1) - 1) /\ Depth(p, k) = Surplus(T, U, k - 1)
  BY <1>1, <1>5
<1>7. /\ Surplus(T, U, 0) = 0 /\ Surplus(T, U, k - 1) \in Int
      /\ Surplus(T, U, k) = Surplus(T, U, k - 1) + Delta(p[k])
  BY <1>2, <1>4, SurplusStep
<1> QED BY <1>5, <1>6, <1>7

(* The body of statement j, which opens one, holds statement k.            *)
BodyOf(p, j, k) == j \in 1..(k - 1) /\ Opens(p[j]) /\ \A m \in (j + 1)..k : Depth(p, m) = 1

Plain(p) == Len(p) \in Nat /\ DOMAIN p = 1..Len(p) /\ OneDeep(p)

LEMMA PlainFacts ==
  ASSUME NEW p, Plain(p), NEW k \in 1..Len(p)
  PROVE  /\ Opens(p[k]) => Depth(p, k) = 0
         /\ Closes(p[k]) => Depth(p, k) = 1
         /\ Depth(p, k) \in Int /\ Depth(p, k + 1) = Depth(p, k) + Delta(p[k])
         /\ Depth(p, 1) = 0 /\ Depth(p, Len(p) + 1) = 0
<1>1. k \in Nat \ {0} /\ k \in DOMAIN p
  BY DEF Plain
<1>2. Depth(p, 1) = 0 /\ Depth(p, k) \in Int /\ Depth(p, k + 1) = Depth(p, k) + Delta(p[k])
  BY <1>1, DepthStep
<1> QED BY <1>1, <1>2 DEF Plain, OneDeep

LEMMA Bodies ==
  ASSUME NEW p, Plain(p)
  PROVE  \A k \in 1..(Len(p) + 1) : Depth(p, k) \in {0, 1} /\ (Depth(p, k) = 1 => \E j : BodyOf(p, j, k))
<1> DEFINE n == Len(p)
           T == {k \in 1..(n + 1) : Depth(p, k) \in {0, 1} /\ (Depth(p, k) = 1 => \E j : BodyOf(p, j, k))}
<1>1. n \in Nat
  BY DEF Plain
<1>2. 1 \in T
  <2>1. Depth(p, 1) = 0
    BY DepthStep, 1 \in Nat \ {0}
  <2> HIDE DEF n
  <2> QED BY <1>1, <2>1
<1>3. ASSUME NEW k \in 1..n, k \in T PROVE k + 1 \in T
  <2>1. /\ Opens(p[k]) => Depth(p, k) = 0
        /\ Closes(p[k]) => Depth(p, k) = 1
        /\ Depth(p, k) \in Int /\ Depth(p, k + 1) = Depth(p, k) + Delta(p[k])
    BY PlainFacts
  <2>2. k + 1 \in 1..(n + 1) /\ k \in Nat /\ (k + 1) - 1 = k
    <3> HIDE DEF n
    <3> QED BY <1>1
  <2> HIDE DEF n
  <2>3. CASE Opens(p[k])
    <3>1. Depth(p, k + 1) = 1
      BY <2>1, <2>3 DEF Delta
    <3>2. (k + 1)..(k + 1) = {k + 1} /\ k \in 1..((k + 1) - 1)
      BY <2>2
    <3>3. BodyOf(p, k, k + 1)
      BY <2>3, <3>1, <3>2 DEF BodyOf
    <3> QED BY <2>2, <3>1, <3>3
  <2>4. CASE Closes(p[k])
    <3>1. ~Opens(p[k])
      BY <2>4 DEF Opens, Closes, OpenKinds
    <3>2. Depth(p, k + 1) = 0
      BY <2>1, <2>4, <3>1 DEF Delta
    <3> QED BY <2>2, <3>2
  <2>5. CASE ~Opens(p[k]) /\ ~Closes(p[k])
    <3>1. Depth(p, k + 1) = Depth(p, k)
      BY <2>1, <2>5 DEF Delta
    <3>2. ASSUME Depth(p, k) = 1 PROVE \E j : BodyOf(p, j, k + 1)
      <4>1. PICK j : BodyOf(p, j, k)
        BY <1>3, <3>2
      <4>2. j \in 1..(k - 1) /\ Opens(p[j]) /\ \A m \in (j + 1)..k : Depth(p, m) = 1
        BY <4>1 DEF BodyOf
      <4>3. j \in 1..((k + 1) - 1) /\ \A m \in (j + 1)..(k + 1) : m = k + 1 \/ m \in (j + 1)..k
        BY <2>2, <4>2
      <4>4. BodyOf(p, j, k + 1)
        BY <3>1, <3>2, <4>2, <4>3 DEF BodyOf
      <4> QED BY <4>4
    <3> QED BY <1>3, <2>2, <3>1, <3>2
  <2> QED BY <2>3, <2>4, <2>5
<1> HIDE DEF n, T
<1>4. 1..(n + 1) \subseteq T
  <2>1. n + 1 \in Nat /\ 1 \in Nat /\ (n + 1) - 1 = n
    BY <1>1
  <2>2. \A k \in 1..((n + 1) - 1) : k \in T => k + 1 \in T
    BY <1>3, <2>1
  <2> QED BY <1>2, <2>1, <2>2, UpTo
<1> QED BY <1>4 DEF T, n

LEMMA OpenerIs ==
  ASSUME NEW p, Plain(p), NEW k \in 1..Len(p), NEW j, BodyOf(p, j, k)
  PROVE  Opener(p, k) = j
<1>1. j \in 1..(k - 1) /\ Opens(p[j]) /\ \A m \in (j + 1)..k : Depth(p, m) = 1
  BY DEF BodyOf
<1>2. Len(p) \in Nat /\ k \in Nat
  BY DEF Plain
<1>3. j \in 1..k /\ \A m \in (j + 1)..k : Depth(p, m) > 0
  BY <1>1, <1>2
<1>4. Depth(p, j) = 0
  <2>1. j \in 1..Len(p)
    BY <1>1, <1>2
  <2> QED BY <1>1, <2>1, PlainFacts
<1>5. ASSUME NEW i \in 1..k, Opens(p[i]), \A m \in (i + 1)..k : Depth(p, m) > 0 PROVE i = j
  <2>1. i \in 1..Len(p)
    BY <1>2
  <2>2. Depth(p, i) = 0
    BY <1>5, <2>1, PlainFacts
  <2>3. CASE i > j
    <3>1. i \in (j + 1)..k
      BY <1>2, <1>3, <2>3
    <3>2. Depth(p, i) = 1
      BY <1>1, <3>1
    <3> QED BY <2>2, <3>2
  <2>4. CASE i < j
    <3>1. j \in (i + 1)..k
      BY <1>2, <1>3, <2>4
    <3>2. Depth(p, j) > 0
      BY <1>5, <3>1
    <3> QED BY <1>4, <3>2
  <2>5. i \in Nat /\ j \in Nat
    BY <1>2, <1>3
  <2> QED BY <2>3, <2>4, <2>5
<1> QED BY <1>1, <1>3, <1>5 DEF Opener

(* Every body has its END.                                                 *)
LEMMA HasEnd ==
  ASSUME NEW p, Plain(p), NEW j \in 1..Len(p), Opens(p[j])
  PROVE  \E m \in 1..Len(p) : Closes(p[m]) /\ Opener(p, m) = j
<1> DEFINE n == Len(p)
           T == {k \in (j + 1)..(n + 1) : Depth(p, k) = 0}
<1>1. n \in Nat /\ j \in 1..n
  BY DEF Plain
<1>2. Depth(p, j) = 0 /\ Depth(p, j + 1) = Depth(p, j) + Delta(p[j]) /\ Depth(p, n + 1) = 0
  BY PlainFacts
<1>3. Depth(p, j + 1) = 1
  BY <1>2 DEF Delta
<1> HIDE DEF n
<1>4. T \subseteq Nat /\ n + 1 \in T
  BY <1>1, <1>2
<1>5. PICK u \in T : \A v \in T : u <= v
  <2> HIDE DEF T
  <2> QED BY <1>4, LeastNat
<1> DEFINE m == u - 1
<1>6. u \in (j + 1)..(n + 1) /\ Depth(p, u) = 0 /\ u # j + 1
  BY <1>3
<1>7. m \in (j + 1)..n /\ m + 1 = u /\ m \in 1..n /\ j \in 1..(m - 1) /\ m \in Nat
  BY <1>1, <1>6
<1>8. \A q \in (j + 1)..m : Depth(p, q) = 1
  <2> SUFFICES ASSUME NEW q \in (j + 1)..m PROVE Depth(p, q) = 1
    OBVIOUS
  <2>1. q \in (j + 1)..(n + 1) /\ ~(u <= q) /\ q \in 1..(n + 1)
    BY <1>1, <1>6, <1>7
  <2>2. q \notin T
    <3> HIDE DEF T, m
    <3> QED BY <1>5, <2>1
  <2>3. Depth(p, q) # 0
    BY <2>1, <2>2
  <2>4. Depth(p, q) \in {0, 1}
    BY <2>1, Bodies DEF n
  <2> QED BY <2>3, <2>4
<1> HIDE DEF m, T
<1>9. BodyOf(p, j, m)
  BY <1>7, <1>8 DEF BodyOf
<1>10. Opener(p, m) = j
  BY <1>7, <1>9, OpenerIs DEF n
<1>11. Depth(p, m + 1) = Depth(p, m) + Delta(p[m])
  BY <1>7, PlainFacts DEF n
<1>12. Closes(p[m])
  <2>1. Depth(p, m) = 1
    BY <1>7, <1>8
  <2>2. Delta(p[m]) = -1
    <3>1. Delta(p[m]) \in {1, -1, 0}
      BY DEF Delta
    <3> QED BY <1>6, <1>7, <1>11, <2>1, <3>1
  <2> QED BY <2>2 DEF Delta
<1> QED BY <1>7, <1>10, <1>12 DEF n

(* Whether statement k is in the main frame.                               *)
MainAt(p, k) == Depth(p, k) = 0 \/ MainOf(p[Opener(p, k)])

LEMMA MainStep ==
  ASSUME NEW p, Plain(p), NEW i \in 1..Len(p)
  PROVE  /\ Opens(p[i]) => MainAt(p, i) = TRUE /\ MainAt(p, i + 1) = MainOf(p[i])
         /\ Closes(p[i]) => /\ Opener(p, i) \in 1..Len(p) /\ Opens(p[Opener(p, i)])
                            /\ MainAt(p, i) = MainOf(p[Opener(p, i)]) /\ MainAt(p, i + 1) = TRUE
         /\ ~Opens(p[i]) /\ ~Closes(p[i]) => MainAt(p, i + 1) = MainAt(p, i)
<1>1. Len(p) \in Nat /\ i \in Nat /\ i \in 1..(Len(p) + 1) /\ i + 1 \in 1..(Len(p) + 1)
      /\ (i + 1 # Len(p) + 1 => i + 1 \in 1..Len(p))
  BY DEF Plain
<1>2. /\ Opens(p[i]) => Depth(p, i) = 0
      /\ Closes(p[i]) => Depth(p, i) = 1
      /\ Depth(p, i) \in Int /\ Depth(p, i + 1) = Depth(p, i) + Delta(p[i])
      /\ Depth(p, Len(p) + 1) = 0
  BY PlainFacts
<1>3. /\ Depth(p, i) \in {0, 1} /\ (Depth(p, i) = 1 => \E j : BodyOf(p, j, i))
      /\ Depth(p, i + 1) \in {0, 1} /\ (Depth(p, i + 1) = 1 => \E j : BodyOf(p, j, i + 1))
  BY <1>1, Bodies
<1>4. ASSUME Opens(p[i]) PROVE MainAt(p, i) = TRUE /\ MainAt(p, i + 1) = MainOf(p[i])
  <2>1. Depth(p, i + 1) = 1
    BY <1>2, <1>4 DEF Delta
  <2>2. i + 1 \in 1..Len(p)
    BY <1>1, <1>2, <2>1
  <2>3. BodyOf(p, i, i + 1)
    <3>1. i \in 1..((i + 1) - 1) /\ (i + 1)..(i + 1) = {i + 1}
      BY <1>1
    <3> QED BY <1>4, <2>1, <3>1 DEF BodyOf
  <2>4. Opener(p, i + 1) = i
    BY <2>2, <2>3, OpenerIs
  <2> QED BY <1>2, <1>4, <2>1, <2>4 DEF MainAt, MainOf
<1>5. ASSUME Closes(p[i])
      PROVE  /\ Opener(p, i) \in 1..Len(p) /\ Opens(p[Opener(p, i)])
             /\ MainAt(p, i) = MainOf(p[Opener(p, i)]) /\ MainAt(p, i + 1) = TRUE
  <2>1. PICK j : BodyOf(p, j, i)
    BY <1>2, <1>3, <1>5
  <2>2. Opener(p, i) = j
    BY <2>1, OpenerIs
  <2>3. j \in 1..Len(p) /\ Opens(p[j])
    <3>1. j \in 1..(i - 1) /\ Opens(p[j])
      BY <2>1 DEF BodyOf
    <3> QED BY <1>1, <3>1
  <2>4. ~Opens(p[i])
    BY <1>5 DEF Opens, Closes, OpenKinds
  <2>5. Depth(p, i) = 1 /\ Depth(p, i + 1) = 0
    BY <1>2, <1>5, <2>4 DEF Delta
  <2> QED BY <2>2, <2>3, <2>5 DEF MainAt, MainOf
<1>6. ASSUME ~Opens(p[i]), ~Closes(p[i]) PROVE MainAt(p, i + 1) = MainAt(p, i)
  <2>1. Depth(p, i + 1) = Depth(p, i)
    BY <1>2, <1>6 DEF Delta
  <2>2. CASE Depth(p, i) = 0
    BY <2>1, <2>2 DEF MainAt
  <2>3. CASE Depth(p, i) = 1
    <3>1. PICK j : BodyOf(p, j, i)
      BY <1>3, <2>3
    <3>2. j \in 1..(i - 1) /\ Opens(p[j]) /\ \A m \in (j + 1)..i : Depth(p, m) = 1
      BY <3>1 DEF BodyOf
    <3>3. j \in 1..((i + 1) - 1) /\ \A m \in (j + 1)..(i + 1) : m = i + 1 \/ m \in (j + 1)..i
      BY <1>1, <3>2
    <3>4. BodyOf(p, j, i + 1)
      BY <2>1, <2>3, <3>2, <3>3 DEF BodyOf
    <3>5. i + 1 \in 1..Len(p)
      BY <1>1, <1>2, <2>1, <2>3
    <3>6. Opener(p, i) = j /\ Opener(p, i + 1) = j
      BY <3>1, <3>4, <3>5, OpenerIs
    <3> QED BY <2>1, <3>6 DEF MainAt
  <2> QED BY <1>3, <2>2, <2>3
<1> QED BY <1>4, <1>5, <1>6
-----------------------------------------------------------------------------
(* The text of a program, one statement behind the other.                  *)
Prologue == <<Push("rbp"), Copy("rbp", 8, "rsp")>>

LEMMA EmitIs ==
  ASSUME NEW p, Len(p) \in Nat
  PROVE  \E f, vs : /\ f[0] = Prologue
                    /\ \A i \in 1..Len(p) : f[i] = f[i - 1] \o StmtText(p, vs[i - 1], vs[i], i).code
                    /\ Emit(p).code = f[Len(p)] \o ExitCode
<1> DEFINE n  == Len(p)
           vs == CHOOSE ws : ws = [i \in 0..n |-> IF i = 0 THEN Table(p) ELSE VarsBehind(p, ws[i - 1], i)]
           a  == <<On(<<1, 1>>, Prologue)>>
           b  == [i \in 1..n |-> StmtText(p, vs[i - 1], vs[i], i)]
           c  == <<On(<<n + 1, 1>>, ExitCode)>>
           ts == (a \o b) \o c
           seqs == [i \in DOMAIN ts |-> ts[i].code]
<1>1. Emit(p).code = FlattenSeq(seqs)
  <2>1. Emit(p) = Together(ts)
    BY DEF Emit, Prologue
  <2>2. Together(ts).code = FlattenSeq(seqs)
    BY DEF Together
  <2> HIDE DEF ts, seqs
  <2> QED BY <2>1, <2>2
<1>2. Listing(a) /\ Len(a) = 1 /\ a[1] = On(<<1, 1>>, Prologue)
  BY Tuples
<1>3. Listing(c) /\ Len(c) = 1 /\ c[1] = On(<<n + 1, 1>>, ExitCode)
  BY Tuples
<1>4. n \in Nat
  OBVIOUS
<1>5. Listing(b) /\ Len(b) = n /\ \A i \in 1..n : b[i] = StmtText(p, vs[i - 1], vs[i], i)
  <2>1. \A i \in 1..n : b[i] = StmtText(p, vs[i - 1], vs[i], i)
    <3> HIDE DEF vs, n
    <3> QED OBVIOUS
  <2>2. b = [i \in 1..n |-> b[i]]
    <3> HIDE DEF vs, n
    <3> QED OBVIOUS
  <2> HIDE DEF b, vs, n
  <2>3. Listing(b) /\ Len(b) = n
    BY <1>4, <2>2, ListingFun
  <2> QED BY <2>1, <2>3
<1> HIDE DEF n, vs, a, b, c
<1>6. /\ Listing(a \o b) /\ Len(a \o b) = 1 + n /\ (a \o b)[1] = a[1]
      /\ \A i \in 1..n : (a \o b)[1 + i] = b[i]
  <2>1. 1 \in 1..1
    OBVIOUS
  <2>2. /\ Listing(a \o b) /\ Len(a \o b) = Len(a) + Len(b)
        /\ \A i \in 1..Len(a) : (a \o b)[i] = a[i]
        /\ \A i \in 1..Len(b) : (a \o b)[Len(a) + i] = b[i]
    <3>1. Listing(a) /\ Listing(b)
      BY <1>2, <1>5
    <3> QED BY <3>1, Behind
  <2> QED BY <1>2, <1>5, <2>1, <2>2
<1>7. /\ Listing(ts) /\ Len(ts) = n + 2 /\ ts[1] = a[1] /\ ts[n + 2] = c[1]
      /\ \A i \in 1..n : ts[1 + i] = b[i]
  <2>1. /\ 1 \in 1..(1 + n) /\ 1 \in 1..1 /\ (1 + n) + 1 = n + 2
        /\ \A i \in 1..n : 1 + i \in 1..(1 + n)
    BY <1>4
  <2>2. /\ Listing(ts) /\ Len(ts) = Len(a \o b) + Len(c)
        /\ \A i \in 1..Len(a \o b) : ts[i] = (a \o b)[i]
        /\ \A i \in 1..Len(c) : ts[Len(a \o b) + i] = c[i]
    <3>1. Listing(a \o b) /\ Listing(c)
      BY <1>3, <1>6
    <3> QED BY <3>1, Behind
  <2> HIDE DEF ts
  <2>3. Len(ts) = n + 2 /\ ts[n + 2] = c[1]
    BY <1>3, <1>6, <2>1, <2>2
  <2>4. ts[1] = a[1] /\ \A i \in 1..n : ts[1 + i] = b[i]
    BY <1>6, <2>1, <2>2
  <2> QED BY <2>2, <2>3, <2>4
<1> HIDE DEF ts
<1>8. DOMAIN ts = 1..(n + 2)
  BY <1>7, ListingFacts
<1>9. \A i \in 1..(n + 2) : seqs[i] = ts[i].code
  BY <1>8
<1>10. Len(seqs) = n + 2
  <2>1. n + 2 \in Nat
    BY <1>4
  <2>2. seqs = [i \in 1..(n + 2) |-> seqs[i]]
    BY <1>8
  <2> HIDE DEF seqs
  <2> QED BY <2>1, <2>2, ListingFun
<1> HIDE DEF seqs
<1>11. PICK g : /\ g[1] = seqs[1] /\ \A i \in 2..Len(seqs) : g[i] = g[i - 1] \o seqs[i]
                /\ FlattenSeq(seqs) = g[Len(seqs)]
  <2>1. Len(seqs) \in Nat \ {0}
    BY <1>4, <1>10
  <2> QED BY <2>1, FlattenIs
<1> DEFINE f == [i \in 0..n |-> g[i + 1]]
<1>12. f[0] = Prologue
  <2>1. f[0] = g[1] /\ 1 \in 1..(n + 2)
    BY <1>4
  <2> HIDE DEF f
  <2>2. On(<<1, 1>>, Prologue).code = Prologue
    BY DEF On
  <2> QED BY <1>2, <1>7, <1>9, <1>11, <2>1, <2>2
<1>13. ASSUME NEW i \in 1..n PROVE f[i] = f[i - 1] \o StmtText(p, vs[i - 1], vs[i], i).code
  <2>1. /\ i + 1 \in 2..(n + 2) /\ i + 1 \in 1..(n + 2) /\ i - 1 \in 0..n /\ i \in 0..n
        /\ (i - 1) + 1 = i /\ (i + 1) - 1 = i /\ 1 + i = i + 1
    BY <1>4
  <2>2. f[i] = g[i + 1] /\ f[i - 1] = g[i]
    BY <2>1
  <2> HIDE DEF f
  <2>3. g[i + 1] = g[i] \o seqs[i + 1]
    BY <1>10, <1>11, <2>1
  <2>4. seqs[i + 1] = StmtText(p, vs[i - 1], vs[i], i).code
    BY <1>5, <1>7, <1>9, <2>1
  <2> QED BY <2>2, <2>3, <2>4
<1>14. Emit(p).code = f[n] \o ExitCode
  <2>1. n + 2 \in 2..(n + 2) /\ n + 2 \in 1..(n + 2) /\ (n + 2) - 1 = n + 1 /\ n \in 0..n
    BY <1>4
  <2>2. f[n] = g[n + 1]
    BY <2>1
  <2> HIDE DEF f
  <2>3. g[n + 2] = g[n + 1] \o seqs[n + 2]
    BY <1>10, <1>11, <2>1
  <2>4. seqs[n + 2] = ExitCode
    <3>1. On(<<n + 1, 1>>, ExitCode).code = ExitCode
      BY DEF On
    <3> QED BY <1>3, <1>7, <1>9, <2>1, <3>1
  <2> QED BY <1>1, <1>10, <1>11, <2>2, <2>3, <2>4
<1> HIDE DEF f
<1> QED BY <1>12, <1>13, <1>14 DEF n

(* What a statement gives and takes.                                       *)
Gives(p, i) ==
  IF Opens(p[i]) THEN Starts(p, i) ELSE IF Closes(p[i]) THEN Ends(p, Opener(p, i)) ELSE {}
Takes(p, i, fs) ==
  (IF Opens(p[i]) THEN Ends(p, i) ELSE IF Closes(p[i]) THEN Starts(p, Opener(p, i)) ELSE {}) \cup Funcs(fs)

LEMMA StmtCarries ==
  ASSUME NEW p, NEW before, NEW behind, NEW fs, Plain(p), NEW i \in 1..Len(p),
         \A k \in 1..Len(p) : IsStmt(p[k], fs)
  PROVE  Carries(StmtText(p, before, behind, i).code, MainAt(p, i), MainAt(p, i + 1), Gives(p, i), Takes(p, i, fs))
<1>1. CASE Opens(p[i])
  <2>1. StmtText(p, before, behind, i) = OpenText(p, before, i)
    BY <1>1 DEF StmtText
  <2>2. MainAt(p, i) = TRUE /\ MainAt(p, i + 1) = MainOf(p[i])
    BY <1>1, MainStep
  <2>3. Gives(p, i) = Starts(p, i) /\ Takes(p, i, fs) = Ends(p, i) \cup Funcs(fs)
    BY <1>1 DEF Gives, Takes
  <2>4. Carries(OpenText(p, before, i).code, TRUE, MainOf(p[i]), Starts(p, i), Ends(p, i) \cup Funcs(fs))
    BY <1>1, OpenCarries
  <2> QED BY <2>1, <2>2, <2>3, <2>4
<1>2. CASE Closes(p[i])
  <2> DEFINE o == Opener(p, i)
  <2>1. ~Opens(p[i])
    BY <1>2 DEF Opens, Closes, OpenKinds
  <2>2. StmtText(p, before, behind, i) = CloseText(p, behind, i)
    BY <1>2, <2>1 DEF StmtText
  <2>3. o \in 1..Len(p) /\ Opens(p[o]) /\ MainAt(p, i) = MainOf(p[o]) /\ MainAt(p, i + 1) = TRUE
    BY <1>2, MainStep
  <2>4. Gives(p, i) = Ends(p, o) /\ Takes(p, i, fs) = Starts(p, o) \cup Funcs(fs)
    BY <1>2, <2>1 DEF Gives, Takes
  <2>5. o = Opener(p, i)
    OBVIOUS
  <2> HIDE DEF o
  <2>6. Carries(CloseText(p, behind, i).code, MainOf(p[o]), TRUE, Ends(p, o), Starts(p, o) \cup Funcs(fs))
    BY <2>3, <2>5, CloseCarries
  <2> QED BY <2>2, <2>3, <2>4, <2>6
<1>3. CASE ~Opens(p[i]) /\ ~Closes(p[i])
  <2>1. StmtText(p, before, behind, i).code = LeafCode(p, before, p[i])
    BY <1>3 DEF StmtText, On
  <2>2. IsLeaf(p[i], fs)
    BY <1>3 DEF IsStmt, Opens, Closes, OpenKinds
  <2>3. MainAt(p, i + 1) = MainAt(p, i)
    BY <1>3, MainStep
  <2>4. Gives(p, i) = {} /\ Takes(p, i, fs) = Funcs(fs)
    BY <1>3 DEF Gives, Takes
  <2>5. Carries(LeafCode(p, before, p[i]), MainAt(p, i), MainAt(p, i), {}, Funcs(fs))
    BY <2>2, SteadyLeaf, CarriesSteady
  <2> QED BY <2>1, <2>3, <2>4, <2>5
<1> QED BY <1>1, <1>2, <1>3

(* A text that begins as a program does.                                   *)
Begins(f, b, gives, takes) ==
  /\ Listing(f) /\ gives \subseteq Labels(f) /\ Wanted(f) \subseteq takes
  /\ \E w : AtBody(w) /\ w.main = b /\ Piece(f, Start, w)

LEMMA PrologueBegins == Begins(Prologue, TRUE, {}, {})
<1> DEFINE c == Push("rbp")
           d == Copy("rbp", 8, "rsp")
           s == Level(TRUE, "saved", 0, Unknown)
<1>1. Prologue = <<c>> \o <<d>>
  BY Splits DEF Prologue
<1>2. Start \in LevelType /\ Start.main /\ Start.part = "entry" /\ Start.high = 0 /\ Start.rdi = Unknown
      /\ Start.main = TRUE
  BY Known DEF Start, Level
<1>3. s \in LevelType /\ s.main = TRUE /\ s.part = "saved" /\ s.high = 0 /\ s.rdi = Unknown
  <2>1. s.main = TRUE /\ s.part = "saved" /\ s.high = 0 /\ s.rdi = Unknown
    BY DEF Level
  <2>2. Unknown \in RdiType /\ 0 \in Nat
    BY Known
  <2>3. s \in LevelType
    BY <2>2 DEF Level, LevelType, RdiType
  <2> QED BY <2>1, <2>3
<1>4. /\ c.op = "push" /\ c.reg = "rbp" /\ Shaped(c)
      /\ d.op = "copy" /\ d.reg = "rbp" /\ d.from = "rsp" /\ d.width = 8 /\ Shaped(d)
  BY DEF Push, Copy, Shaped, Registers
<1>5. ~IsFunc(c) /\ ~IsFunc(d) /\ ~Sets(c, "rdi") /\ ~Sets(d, "rdi")
  BY <1>4 DEF IsFunc, Sets
<1> HIDE DEF c, d
<1>6. Meets(c, Start) = Start /\ Meets(d, s) = s
  BY <1>4 DEF Meets
<1>7. Leads(c, Start) = s
  <2>1. LET u == After(c, Start)
        IN u = Level(Start.main, u.part, u.high, RdiAfter(c, Start)) /\ u.part = "saved" /\ u.high = Start.high
    <3>1. Start \in LevelType /\ Start.part = "entry" /\ c.op = "push"
      BY <1>2, <1>4
    <3> QED BY <3>1, AfterIs
  <2>2. RdiAfter(c, Start) = Unknown
    BY <1>2, <1>4, <1>5, RdiIs
  <2>3. After(c, Start) = s
    BY <1>2, <2>1, <2>2
  <2> QED BY <1>4, <2>3 DEF Leads
<1> HIDE DEF s
<1>8. Leads(d, s) = MainBody
  <2>1. LET u == After(d, s)
        IN u = Level(s.main, u.part, u.high, RdiAfter(d, s)) /\ u.part = "body" /\ u.high = s.high
    BY <1>3, <1>4, AfterIs
  <2>2. RdiAfter(d, s) = Unknown
    BY <1>3, <1>4, <1>5, RdiIs
  <2>3. After(d, s) = MainBody
    BY <1>3, <2>1, <2>2 DEF MainBody
  <2> QED BY <1>4, <2>3 DEF Leads
<1>9. Right(c, Start)
  BY <1>2, <1>4 DEF Right, Allowed
<1>10. Right(d, s)
  BY <1>3, <1>4 DEF Right, Allowed
<1>11. MainBody \in LevelType /\ MainBody.high = 0 /\ AtBody(MainBody) /\ MainBody.main = TRUE
  BY Known DEF MainBody, AtBody, Level
<1>12. s.high <= Start.high + 16 /\ MainBody.high <= s.high + 16
  BY <1>2, <1>3, <1>11
<1>13. Piece(<<c>>, Start, s)
  BY <1>2, <1>3, <1>4, <1>5, <1>6, <1>7, <1>9, <1>12, Alone
<1>14. Piece(<<d>>, s, MainBody)
  BY <1>3, <1>4, <1>5, <1>6, <1>8, <1>10, <1>11, <1>12, Alone
<1>15. Piece(Prologue, Start, MainBody)
  BY <1>1, <1>13, <1>14, PieceBehind
<1>16. Listing(<<c>>) /\ Listing(<<d>>) /\ Wanted(<<c>>) \subseteq {} /\ Wanted(<<d>>) \subseteq {}
  BY <1>4, LinksOne
<1>17. Listing(Prologue) /\ Wanted(Prologue) \subseteq {}
  BY <1>1, <1>16, Behind, LinksBehind
<1> QED BY <1>11, <1>15, <1>17 DEF Begins

LEMMA BeginsBehind ==
  ASSUME NEW f, NEW g, NEW a, NEW b, NEW gf, NEW gg, NEW tf, NEW tg,
         Begins(f, a, gf, tf), Carries(g, a, b, gg, tg)
  PROVE  Begins(f \o g, b, gf \cup gg, tf \cup tg)
<1>1. /\ Listing(f) /\ gf \subseteq Labels(f) /\ Wanted(f) \subseteq tf
      /\ Listing(g) /\ gg \subseteq Labels(g) /\ Wanted(g) \subseteq tg
  BY DEF Carries, Begins
<1>2. Listing(f \o g)
  BY <1>1, Behind
<1>3. gf \cup gg \subseteq Labels(f \o g) /\ Wanted(f \o g) \subseteq tf \cup tg
  <2>1. /\ Labels(f) \subseteq Labels(f \o g) /\ Labels(g) \subseteq Labels(f \o g)
        /\ Wanted(f \o g) \subseteq Wanted(f) \cup Wanted(g)
    BY <1>1, LinksBehind
  <2> QED BY <1>1, <2>1
<1>4. PICK u : AtBody(u) /\ u.main = a /\ Piece(f, Start, u)
  BY DEF Begins
<1>5. PICK w : AtBody(w) /\ w.main = b /\ Piece(g, u, w)
  BY <1>4 DEF Carries
<1>6. Piece(f \o g, Start, w)
  BY <1>4, <1>5, PieceBehind
<1> QED BY <1>2, <1>3, <1>5, <1>6 DEF Begins

GivesTo(p, k)     == UNION {Gives(p, i) : i \in 1..k}
TakesTo(p, k, fs) == UNION {Takes(p, i, fs) : i \in 1..k}

LEMMA EmitBegins ==
  ASSUME NEW p, NEW fs, Plain(p), \A k \in 1..Len(p) : IsStmt(p[k], fs)
  PROVE  \E g : /\ Emit(p).code = g \o ExitCode
                /\ Begins(g, TRUE, GivesTo(p, Len(p)), TakesTo(p, Len(p), fs))
<1> DEFINE n == Len(p)
<1>1. n \in Nat
  BY DEF Plain
<1>2. PICK f, vs : /\ f[0] = Prologue
                   /\ \A i \in 1..n : f[i] = f[i - 1] \o StmtText(p, vs[i - 1], vs[i], i).code
                   /\ Emit(p).code = f[n] \o ExitCode
  BY <1>1, EmitIs
<1> DEFINE T == {k \in 0..n : Begins(f[k], MainAt(p, k + 1), GivesTo(p, k), TakesTo(p, k, fs))}
<1>3. 0 \in T
  <2>1. Depth(p, 1) = 0
    BY DepthStep, 1 \in Nat \ {0}
  <2>2. MainAt(p, 0 + 1) = TRUE
    BY <2>1 DEF MainAt
  <2>3. GivesTo(p, 0) = {} /\ TakesTo(p, 0, fs) = {}
    <3>1. 1..0 = {}
      OBVIOUS
    <3> QED BY <3>1 DEF GivesTo, TakesTo
  <2>4. 0 \in 0..n
    BY <1>1
  <2> HIDE DEF n
  <2> QED BY <1>2, <2>2, <2>3, <2>4, PrologueBegins
<1>4. ASSUME NEW k \in 0..(n - 1), k \in T PROVE k + 1 \in T
  <2> DEFINE i == k + 1
  <2>1. i \in 1..n /\ i \in 0..n /\ i - 1 = k /\ 1..i = 1..k \cup {i}
    BY <1>1
  <2>2. f[i] = f[k] \o StmtText(p, vs[k], vs[i], i).code
    <3> HIDE DEF i
    <3> QED BY <1>2, <2>1
  <2>3. Begins(f[k], MainAt(p, i), GivesTo(p, k), TakesTo(p, k, fs))
    BY <1>4
  <2> HIDE DEF i, T, n
  <2>4. Carries(StmtText(p, vs[k], vs[i], i).code, MainAt(p, i), MainAt(p, i + 1), Gives(p, i), Takes(p, i, fs))
    BY <2>1, StmtCarries DEF n
  <2>5. Begins(f[i], MainAt(p, i + 1), GivesTo(p, k) \cup Gives(p, i), TakesTo(p, k, fs) \cup Takes(p, i, fs))
    BY <2>2, <2>3, <2>4, BeginsBehind
  <2>6. GivesTo(p, i) = GivesTo(p, k) \cup Gives(p, i)
    BY <2>1 DEF GivesTo
  <2>7. TakesTo(p, i, fs) = TakesTo(p, k, fs) \cup Takes(p, i, fs)
    BY <2>1 DEF TakesTo
  <2>8. i \in T
    BY <2>1, <2>5, <2>6, <2>7 DEF T
  <2> QED BY <2>8 DEF i
<1>5. n \in T
  <2> HIDE DEF T, n
  <2>1. 0..n \subseteq T
    BY <1>1, <1>3, <1>4, UpTo
  <2> QED BY <1>1, <2>1
<1>6. MainAt(p, n + 1) = TRUE
  <2>1. Depth(p, n + 1) = 0
    BY DEF Plain, OneDeep
  <2> QED BY <2>1 DEF MainAt
<1>7. Begins(f[n], MainAt(p, n + 1), GivesTo(p, n), TakesTo(p, n, fs))
  BY <1>5
<1> HIDE DEF n, T
<1>8. Begins(f[n], TRUE, GivesTo(p, n), TakesTo(p, n, fs))
  BY <1>6, <1>7
<1> QED BY <1>2, <1>8 DEF n

(* Whatever is taken is given.                                             *)
LEMMA AllGiven ==
  ASSUME NEW p, Plain(p), \A k \in 1..Len(p) : IsStmt(p[k], Functions(p))
  PROVE  TakesTo(p, Len(p), Functions(p)) \cup Funcs(Functions(p)) \subseteq GivesTo(p, Len(p))
<1> DEFINE n  == Len(p)
           fs == Functions(p)
<1>1. DOMAIN p = 1..n
  BY DEF Plain
<1>2. ASSUME NEW i \in 1..n PROVE Gives(p, i) \subseteq GivesTo(p, n)
  <2> HIDE DEF n
  <2> QED BY DEF GivesTo
<1>3. Funcs(fs) \subseteq GivesTo(p, n)
  <2> SUFFICES ASSUME NEW x \in fs PROVE <<"func", x>> \in GivesTo(p, n)
    BY DEF Funcs
  <2>1. PICK i \in 1..n : p[i].kind = "FUNC" /\ p[i].name = x
    BY <1>1 DEF Functions
  <2>2. Opens(p[i])
    BY <2>1 DEF Opens, OpenKinds
  <2>3. Gives(p, i) = {<<"func", x>>}
    BY <2>1, <2>2 DEF Gives, Starts
  <2> HIDE DEF n
  <2> QED BY <1>2, <2>3
<1>4. ASSUME NEW i \in 1..n PROVE Takes(p, i, fs) \subseteq GivesTo(p, n)
  <2>1. CASE Opens(p[i])
    <3>1. PICK m \in 1..n : Closes(p[m]) /\ Opener(p, m) = i
      BY <2>1, HasEnd
    <3>2. ~Opens(p[m])
      BY <3>1 DEF Opens, Closes, OpenKinds
    <3>3. Gives(p, m) = Ends(p, i)
      BY <3>1, <3>2 DEF Gives
    <3>4. Takes(p, i, fs) = Ends(p, i) \cup Funcs(fs)
      BY <2>1 DEF Takes
    <3> HIDE DEF n, fs
    <3> QED BY <1>2, <1>3, <3>3, <3>4
  <2>2. CASE Closes(p[i])
    <3> DEFINE o == Opener(p, i)
    <3>1. ~Opens(p[i])
      BY <2>2 DEF Opens, Closes, OpenKinds
    <3>2. o \in 1..n /\ Opens(p[o])
      BY <2>2, MainStep
    <3>3. Takes(p, i, fs) = Starts(p, o) \cup Funcs(fs)
      BY <2>2, <3>1 DEF Takes
    <3>4. Gives(p, o) = Starts(p, o)
      BY <3>2 DEF Gives
    <3> HIDE DEF n, fs, o
    <3> QED BY <1>2, <1>3, <3>2, <3>3, <3>4
  <2>3. CASE ~Opens(p[i]) /\ ~Closes(p[i])
    <3>1. Takes(p, i, fs) = Funcs(fs)
      BY <2>3 DEF Takes
    <3> HIDE DEF n, fs
    <3> QED BY <1>3, <3>1
  <2> QED BY <2>1, <2>2, <2>3
<1> HIDE DEF n, fs
<1>5. TakesTo(p, n, fs) \subseteq GivesTo(p, n)
  BY <1>4 DEF TakesTo
<1> QED BY <1>3, <1>5 DEF n, fs

LEMMA ExitIs == Listing(ExitCode) /\ Len(ExitCode) = 3 /\ ExitCode[3].op = "syscall"
<1>1. Listing(ExitCode)
  BY Tuples DEF ExitCode
<1> QED BY <1>1 DEF ExitCode, Syscall

(* The text of a program that compiles is a walk from the start to a       *)
(* system call, and has the labels that it wants.                          *)
LEMMA TextWalks ==
  ASSUME NEW p, Compiles(p)
  PROVE  LET f == Emit(p).code
         IN  /\ \E us : Walks(f, us) /\ us[0] = Start
             /\ Listing(f) /\ Len(f) \in Nat \ {0} /\ f[Len(f)].op = "syscall" /\ Wanted(f) \subseteq Labels(f)
<1> DEFINE f  == Emit(p).code
           fs == Functions(p)
<1>1. Plain(p) /\ \A k \in 1..Len(p) : IsStmt(p[k], fs)
  BY DEF Compiles, Plain
<1> HIDE DEF fs
<1>2. PICK g : f = g \o ExitCode /\ Begins(g, TRUE, GivesTo(p, Len(p)), TakesTo(p, Len(p), fs))
  BY <1>1, EmitBegins
<1>3. Carries(ExitCode, TRUE, TRUE, {}, Funcs(fs))
  BY SteadyExit, CarriesSteady DEF ExitCode
<1> HIDE DEF f
<1>4. Begins(f, TRUE, GivesTo(p, Len(p)) \cup {}, TakesTo(p, Len(p), fs) \cup Funcs(fs))
  BY <1>2, <1>3, BeginsBehind
<1>5. TakesTo(p, Len(p), fs) \cup Funcs(fs) \subseteq GivesTo(p, Len(p))
  BY <1>1, AllGiven DEF fs
<1>6. Listing(f) /\ Wanted(f) \subseteq Labels(f)
  BY <1>4, <1>5 DEF Begins
<1>7. PICK w : Piece(f, Start, w)
  BY <1>4 DEF Begins
<1>8. \E us : Walks(f, us) /\ us[0] = Start
  BY <1>7 DEF Piece
<1>9. Len(f) \in Nat \ {0} /\ f[Len(f)].op = "syscall"
  <2>1. Listing(g) /\ Len(g) \in Nat
    BY <1>2, ListingFacts DEF Begins
  <2>2. Len(f) = Len(g) + Len(ExitCode) /\ \A i \in 1..Len(ExitCode) : f[Len(g) + i] = ExitCode[i]
    <3>1. Listing(ExitCode)
      BY ExitIs
    <3> QED BY <1>2, <2>1, <3>1, Behind
  <2>3. Len(f) = Len(g) + 3 /\ f[Len(g) + 3] = ExitCode[3]
    <3>1. 3 \in 1..3
      OBVIOUS
    <3> QED BY <2>2, <3>1, ExitIs
  <2> QED BY <2>1, <2>3, ExitIs
<1> QED BY <1>6, <1>8, <1>9 DEF f
-----------------------------------------------------------------------------
(* The levels of a text that is walked.                                    *)
LevelAt(f, us, i) == Meets(f[i], us[i - 1])

Walked(f, us) ==
  /\ Walks(f, us) /\ us[0] = Start
  /\ Len(f) \in Nat \ {0} /\ f[Len(f)].op = "syscall" /\ Wanted(f) \subseteq Labels(f)

LEMMA WalkedFacts ==
  ASSUME NEW f, NEW us, Walked(f, us), NEW i \in 1..Len(f)
  PROVE  /\ Len(f) \in Nat /\ DOMAIN f = 1..Len(f) /\ i \in Nat /\ i - 1 \in 0..Len(f)
         /\ us[i - 1] \in LevelType /\ us[i] \in LevelType
         /\ us[i] = Leads(f[i], LevelAt(f, us, i)) /\ us[i].high <= us[i - 1].high + 16
         /\ Right(f[i], LevelAt(f, us, i)) /\ Placed(f, us, i) /\ LevelAt(f, us, i) \in LevelType
<1>1. /\ Listing(f) /\ us \in [0..Len(f) -> LevelType] /\ WalksAt(f, us, i)
      /\ Len(f) \in Nat
  BY DEF Walked, Walks
<1>2. DOMAIN f = 1..Len(f)
  BY <1>1, ListingFacts
<1>3. i \in Nat /\ i - 1 \in 0..Len(f) /\ i \in 0..Len(f)
  BY <1>1
<1>4. us[i - 1] \in LevelType /\ us[i] \in LevelType
  BY <1>1, <1>3
<1>5. LevelAt(f, us, i) \in LevelType
  BY <1>4, MeetsIs DEF LevelAt
<1> QED BY <1>1, <1>2, <1>3, <1>4, <1>5 DEF WalksAt, LevelAt

(* They are the ones that the image has.                                   *)
LEMMA LevelsAre ==
  ASSUME NEW f, NEW us, Walked(f, us)
  PROVE  LevelsOf(f) = [i \in 1..Len(f) |-> LevelAt(f, us, i)] /\ LevelAt(f, us, 1) = Start
<1> DEFINE n  == Len(f)
           g  == [i \in 1..n |-> LevelAt(f, us, i)]
           Fits(l) == l = [i \in 1..n |-> IF i = 1 THEN Start ELSE LevelBehind(f[i - 1], l[i - 1], f[i])]
           h  == CHOOSE l : Fits(l)
<1>1. n \in Nat \ {0} /\ DOMAIN f = 1..n
  <2>1. n \in Nat \ {0}
    BY DEF Walked
  <2>2. 1 \in 1..n
    BY <2>1
  <2> QED BY <2>1, <2>2, WalkedFacts
<1>2. ASSUME NEW i \in 1..n PROVE g[i] = LevelAt(f, us, i)
  <2> HIDE DEF n
  <2> QED OBVIOUS
<1>3. g[1] = Start
  <2>1. 1 \in 1..n
    BY <1>1
  <2>2. ~IsFunc(f[1])
    <3>1. Placed(f, us, 1)
      BY <2>1, WalkedFacts
    <3> QED BY <3>1 DEF Placed
  <2>3. us[0] = Start /\ 1 - 1 = 0 /\ Start \in LevelType
    BY Known DEF Walked
  <2>4. Meets(f[1], Start) = Start
    <3>1. CASE f[1].op # "label"
      BY <2>3, <3>1, MeetsIs
    <3>2. CASE f[1].op = "label"
      <4>1. Meets(f[1], Start) = Level(Start.main, Start.part, Start.high, Unknown)
        BY <2>2, <2>3, <3>2, MeetsIs
      <4>2. Start = Level(Start.main, Start.part, Start.high, Start.rdi) /\ Start.rdi = Unknown
        BY <2>3, LevelOf, Known
      <4> QED BY <4>1, <4>2
    <3> QED BY <3>1, <3>2
  <2>5. LevelAt(f, us, 1) = Start
    BY <2>3, <2>4 DEF LevelAt
  <2> QED BY <1>2, <2>1, <2>5
<1>4. ASSUME NEW i \in 1..n, i # 1 PROVE i - 1 \in 1..n /\ g[i] = LevelBehind(f[i - 1], g[i - 1], f[i])
  <2>1. i - 1 \in 1..n
    BY <1>1, <1>4
  <2>2. us[i - 1] = Leads(f[i - 1], LevelAt(f, us, i - 1))
    BY <2>1, WalkedFacts
  <2>3. g[i] = LevelAt(f, us, i) /\ g[i - 1] = LevelAt(f, us, i - 1)
    BY <1>2, <2>1
  <2> HIDE DEF g
  <2>4. LevelBehind(f[i - 1], g[i - 1], f[i]) = Meets(f[i], Leads(f[i - 1], g[i - 1]))
    BY DEF LevelBehind, Meets, Leads, MainBody
  <2> QED BY <2>1, <2>2, <2>3, <2>4 DEF LevelAt
<1>5. g = [i \in 1..n |-> g[i]]
  <2> HIDE DEF n
  <2> QED OBVIOUS
<1>6. LevelAt(f, us, 1) = Start
  <2>1. 1 \in 1..n
    BY <1>1
  <2> HIDE DEF g, n
  <2> QED BY <1>2, <1>3, <2>1
<1> HIDE DEF g, n
<1>7. Fits(g)
  <2>1. \A i \in 1..n : g[i] = IF i = 1 THEN Start ELSE LevelBehind(f[i - 1], g[i - 1], f[i])
    BY <1>3, <1>4
  <2> QED BY <1>5, <2>1
<1>8. LevelsOf(f) = h
  BY <1>1 DEF LevelsOf
<1>9. Fits(h)
  <2> HIDE DEF Fits
  <2> QED BY <1>7
<1> HIDE DEF h
<1>10. h = [i \in 1..n |-> h[i]] /\ \A i \in 1..n : h[i] = IF i = 1 THEN Start ELSE LevelBehind(f[i - 1], h[i - 1], f[i])
  BY <1>9
<1>11. \A i \in 1..n : h[i] = g[i]
  <2> DEFINE T == {i \in 1..n : h[i] = g[i]}
  <2>1. 1 \in T
    <3>1. 1 \in 1..n
      BY <1>1
    <3>2. h[1] = Start
      BY <1>10, <3>1
    <3> QED BY <1>3, <3>1, <3>2
  <2>2. ASSUME NEW i \in 1..(n - 1), i \in T PROVE i + 1 \in T
    <3>1. i + 1 \in 1..n /\ i + 1 # 1 /\ (i + 1) - 1 = i
      BY <1>1
    <3>2. h[i + 1] = LevelBehind(f[i], h[i], f[i + 1])
      BY <1>10, <3>1
    <3>3. g[i + 1] = LevelBehind(f[i], g[i], f[i + 1])
      BY <1>4, <3>1
    <3> QED BY <2>2, <3>1, <3>2, <3>3
  <2> HIDE DEF T
  <2>3. 1 \in Nat /\ n \in Nat
    BY <1>1
  <2>4. 1..n \subseteq T
    BY <2>1, <2>2, <2>3, UpTo
  <2> QED BY <2>4 DEF T
<1>12. h = g
  BY <1>5, <1>10, <1>11
<1> QED BY <1>8, <1>12, <1>6 DEF g, n

(* An instruction adds 16 bytes at most.                                   *)
LEMMA HighIs ==
  ASSUME NEW f, NEW us, Walked(f, us), NEW i \in 1..Len(f)
  PROVE  LevelAt(f, us, i).high <= 16 * (i - 1)
<1> DEFINE n == Len(f)
           T == {k \in 0..n : us[k].high <= 16 * k}
<1>1. n \in Nat
  BY WalkedFacts
<1>2. 0 \in T
  <2>1. us[0].high = 0
    BY Known DEF Walked
  <2> HIDE DEF n
  <2> QED BY <1>1, <2>1
<1>3. ASSUME NEW k \in 0..(n - 1), k \in T PROVE k + 1 \in T
  <2>1. k + 1 \in 1..n /\ (k + 1) - 1 = k /\ k + 1 \in 0..n
    BY <1>1
  <2>2. us[k + 1].high <= us[(k + 1) - 1].high + 16 /\ us[k + 1] \in LevelType /\ us[(k + 1) - 1] \in LevelType
    BY <2>1, WalkedFacts
  <2>3. us[k + 1].high \in Nat /\ us[k].high \in Nat /\ us[k + 1].high <= us[k].high + 16
    BY <2>1, <2>2, LevelOf
  <2>4. us[k].high <= 16 * k
    BY <1>3
  <2>5. us[k + 1].high <= 16 * (k + 1)
    BY <2>3, <2>4
  <2> QED BY <2>1, <2>5
<1> HIDE DEF n, T
<1>4. 0..n \subseteq T
  BY <1>1, <1>2, <1>3, UpTo
<1>5. i - 1 \in 0..n /\ us[i - 1] \in LevelType /\ i - 1 \in Nat
  BY WalkedFacts DEF n
<1>6. us[i - 1].high <= 16 * (i - 1) /\ us[i - 1].high \in Nat
  BY <1>4, <1>5, LevelOf DEF T
<1>7. LevelAt(f, us, i).high \in {0, us[i - 1].high}
  <2>1. CASE IsFunc(f[i])
    BY <1>5, <2>1, MeetsIs, Known DEF LevelAt
  <2>2. CASE ~IsFunc(f[i])
    BY <1>5, <2>2, MeetsIs DEF LevelAt
  <2> QED BY <2>1, <2>2
<1> QED BY <1>5, <1>6, <1>7

(* What a jump, or a call, goes to.                                        *)
LEMMA FoundIs ==
  ASSUME NEW f, NEW us, Walked(f, us), NEW i \in 1..Len(f), f[i].op \in {"jump", "jz", "call"}
  PROVE  LET t == Target(f, i)
         IN  /\ t \in 1..Len(f) /\ f[t].op = "label" /\ f[t].tag = f[i].tag
             /\ f[i].tag = "func" => LevelAt(f, us, t) = Callee
             /\ f[i].tag # "func" => LevelAt(f, us, t) = MainBody
<1> DEFINE t == Target(f, i)
<1>1. Wanted(f) \subseteq Labels(f) /\ DOMAIN f = 1..Len(f)
  BY WalkedFacts DEF Walked
<1>2. <<f[i].tag, f[i].id>> \in Wanted(f)
  BY DEF Wanted
<1>3. PICK j \in 1..Len(f) : f[j].op = "label" /\ <<f[i].tag, f[i].id>> = <<f[j].tag, f[j].id>>
  BY <1>1, <1>2 DEF Labels
<1>4. f[j].tag = f[i].tag /\ f[j].id = f[i].id
  BY <1>3
<1>5. t \in 1..Len(f) /\ f[t].op = "label" /\ f[t].tag = f[i].tag
  BY <1>1, <1>3, <1>4 DEF Target
<1> HIDE DEF t
<1>6. us[t - 1] \in LevelType /\ Right(f[t], LevelAt(f, us, t))
  BY <1>5, WalkedFacts
<1>7. ASSUME f[i].tag = "func" PROVE LevelAt(f, us, t) = Callee
  BY <1>5, <1>6, <1>7, MeetsIs DEF LevelAt, IsFunc
<1>8. ASSUME f[i].tag # "func" PROVE LevelAt(f, us, t) = MainBody
  BY <1>5, <1>6, <1>8 DEF Right
<1> QED BY <1>5, <1>7, <1>8 DEF t

LEMMA CoversMeets ==
  ASSUME NEW u \in LevelType, NEW d, NEW v, ~IsFunc(d), Covers(u, v)
  PROVE  Covers(Meets(d, u), v)
<1>1. /\ Meets(d, u).main = u.main /\ Meets(d, u).part = u.part
      /\ Meets(d, u).high = u.high /\ Meets(d, u).rdi \in {Unknown, u.rdi}
  BY MeetsIs
<1> QED BY <1>1 DEF Covers

(* The levels agree wherever control goes.                                 *)
LEMMA SuccessorsAre ==
  ASSUME NEW f, NEW us, Walked(f, us), NEW i \in 1..Len(f), NEW j \in Successors(f, i)
  PROVE  j \in 1..Len(f) /\ Covers(LevelAt(f, us, j), After(f[i], LevelAt(f, us, i)))
<1> DEFINE v == LevelAt(f, us, i)
<1>1. /\ Len(f) \in Nat /\ i \in Nat /\ v \in LevelType /\ Right(f[i], v) /\ Placed(f, us, i)
      /\ us[i] = Leads(f[i], v) /\ us[i] \in LevelType
  BY WalkedFacts
<1>2. f[Len(f)].op = "syscall"
  BY DEF Walked
<1> HIDE DEF v
<1>3. CASE f[i].op \notin {"ret", "syscall", "jump"} /\ j = i + 1
  <2>1. j \in 1..Len(f) /\ j - 1 = i
    <3>1. i # Len(f)
      BY <1>2, <1>3
    <3> QED BY <1>1, <1>3, <3>1
  <2>2. ~IsFunc(f[j])
    <3>1. Placed(f, us, j)
      BY <2>1, WalkedFacts
    <3> QED BY <1>3, <2>1, <3>1 DEF Placed
  <2>3. us[i] = After(f[i], v)
    BY <1>1, <1>3 DEF Leads
  <2>4. Covers(us[i], After(f[i], v))
    BY <2>3, CoversSelf
  <2>5. LevelAt(f, us, j) = Meets(f[j], us[i])
    BY <2>1 DEF LevelAt
  <2> QED BY <1>1, <2>1, <2>2, <2>4, <2>5, CoversMeets DEF v
<1>4. CASE f[i].op \in {"jump", "jz"} /\ j = Target(f, i)
  <2>1. v.main /\ f[i].tag # "func" /\ v.part = "body" /\ v.high = 0
    BY <1>1, <1>4 DEF Right
  <2>2. j \in 1..Len(f) /\ LevelAt(f, us, j) = MainBody
    BY <1>4, <2>1, FoundIs
  <2>3. After(f[i], v) = v
    <3>1. ~Sets(f[i], "rdi")
      BY <1>4 DEF Sets
    <3> QED BY <1>1, <1>4, <2>1, <3>1, InBody
  <2>4. v.main = TRUE
    BY <1>1, <2>1, LevelOf
  <2>5. MainBody.main = TRUE /\ MainBody.part = "body" /\ MainBody.high = 0 /\ MainBody.rdi = Unknown
    BY DEF MainBody, Level
  <2>6. Covers(MainBody, v)
    BY <2>1, <2>4, <2>5 DEF Covers
  <2> QED BY <2>2, <2>3, <2>6 DEF v
<1>5. CASE f[i].op = "skip" /\ j = i + 1 + f[i].value
  <2> DEFINE k == i + f[i].value
  <2>1. f[i].value \in Nat /\ k <= Len(f) /\ f[k].op \notin {"jump", "store", "syscall"} /\ Covers(us[k], After(f[i], v))
    BY <1>1, <1>5 DEF Placed, LevelAt, v
  <2>2. k \in Nat /\ k # Len(f) /\ j = k + 1
    <3>1. k # Len(f)
      BY <1>2, <2>1
    <3> QED BY <1>1, <1>5, <2>1, <3>1
  <2>3. k \in 1..Len(f)
    BY <1>1, <2>1
  <2> HIDE DEF k
  <2>4. j \in 1..Len(f) /\ j - 1 = k
    BY <1>1, <2>1, <2>2, <2>3
  <2>5. ~IsFunc(f[j])
    <3>1. Placed(f, us, j)
      BY <2>4, WalkedFacts
    <3> QED BY <2>1, <2>4, <3>1 DEF Placed
  <2>6. us[k] \in LevelType
    BY <2>3, WalkedFacts
  <2>7. LevelAt(f, us, j) = Meets(f[j], us[k])
    BY <2>4 DEF LevelAt
  <2> QED BY <2>1, <2>4, <2>5, <2>6, <2>7, CoversMeets DEF v
<1>6. \/ f[i].op \notin {"ret", "syscall", "jump"} /\ j = i + 1
      \/ f[i].op \in {"jump", "jz"} /\ j = Target(f, i)
      \/ f[i].op = "skip" /\ j = i + 1 + f[i].value
  BY DEF Successors
<1> QED BY <1>3, <1>4, <1>5, <1>6

(* Control comes behind the store of an argument from it alone.            *)
LEMMA StoreAlone ==
  ASSUME NEW f, NEW us, Walked(f, us), NEW i \in 1..Len(f), f[i].op = "store", f[i].reg = "rdi",
         NEW j \in 1..Len(f), i + 1 \in Successors(f, j)
  PROVE  j = i
<1>1. i \in Nat /\ j \in Nat
  BY WalkedFacts
<1>2. CASE i + 1 = j + 1
  BY <1>1, <1>2
<1>3. CASE f[j].op \in {"jump", "jz"} /\ i + 1 = Target(f, j)
  <2>1. Right(f[j], LevelAt(f, us, j))
    BY WalkedFacts
  <2>2. f[j].tag # "func"
    BY <1>3, <2>1 DEF Right
  <2>3. i + 1 \in 1..Len(f) /\ f[i + 1].op = "label" /\ f[i + 1].tag # "func" /\ LevelAt(f, us, i + 1) = MainBody
    BY <1>3, <2>2, FoundIs
  <2>4. us[i] = Leads(f[i], LevelAt(f, us, i)) /\ us[i] \in LevelType /\ LevelAt(f, us, i) \in LevelType
        /\ Right(f[i], LevelAt(f, us, i))
    BY WalkedFacts
  <2>5. ~LevelAt(f, us, i).main
    BY <2>4 DEF Right
  <2>6. us[i].main = LevelAt(f, us, i).main
    <3>1. us[i] = After(f[i], LevelAt(f, us, i))
      BY <2>4 DEF Leads
    <3> QED BY <2>4, <3>1, AfterIs
  <2>7. LevelAt(f, us, i + 1).main = us[i].main
    <3>1. (i + 1) - 1 = i /\ ~IsFunc(f[i + 1])
      BY <1>1, <2>3 DEF IsFunc
    <3>2. LevelAt(f, us, i + 1) = Meets(f[i + 1], us[i])
      BY <3>1 DEF LevelAt
    <3>3. Meets(f[i + 1], us[i]).main = us[i].main
      BY <2>4, <3>1, MeetsIs
    <3> QED BY <3>2, <3>3
  <2> QED BY <2>3, <2>5, <2>6, <2>7, Known
<1>4. CASE f[j].op = "skip" /\ i + 1 = j + 1 + f[j].value
  <2>1. Placed(f, us, j)
    BY WalkedFacts
  <2>2. f[j].value \in Nat /\ f[j + f[j].value].op # "store"
    BY <1>4, <2>1 DEF Placed
  <2>3. j + f[j].value = i
    BY <1>1, <1>4, <2>2
  <2> QED BY <2>2, <2>3
<1>5. \/ i + 1 = j + 1
      \/ f[j].op \in {"jump", "jz"} /\ i + 1 = Target(f, j)
      \/ f[j].op = "skip" /\ i + 1 = j + 1 + f[j].value
  BY DEF Successors
<1> QED BY <1>2, <1>3, <1>4, <1>5

(* What the image says of the text is right.                               *)
LEMMA TextProper ==
  ASSUME NEW f, NEW us, Walked(f, us), Located(f), StackTop + 16 * (Len(f) + 1) < Values(8)
  PROVE  WellFormed(f)
<1>1. Len(f) \in Nat \ {0}
  BY DEF Walked
<1>2. DOMAIN f = 1..Len(f)
  <2>1. 1 \in 1..Len(f)
    BY <1>1
  <2> QED BY <2>1, WalkedFacts
<1>3. Len(f) + 1 < Values(8)
  <2>1. Values(8) \in Nat /\ StackTop \in Nat
    BY ValuesType, StackAssumption
  <2> QED BY <1>1, <2>1
<1>4. ASSUME NEW i \in 1..Len(f)
      PROVE  /\ Proper(f[i])
             /\ Successors(f, i) \subseteq 1..Len(f)
             /\ f[i].op = "call" => Target(f, i) \in 1..Len(f)
  <2>1. Shaped(f[i])
    BY WalkedFacts DEF Right
  <2>2. /\ f[i].op \in {"load", "store", "copy"} => f[i].width \in Widths
        /\ f[i].op \in {"load", "store"} => f[i].off \in Int
    BY <1>2 DEF Located
  <2>3. Proper(f[i])
    BY <2>1, <2>2 DEF Proper, Shaped
  <2>4. Successors(f, i) \subseteq 1..Len(f)
    BY SuccessorsAre
  <2>5. f[i].op = "call" => Target(f, i) \in 1..Len(f)
    BY FoundIs
  <2> QED BY <2>3, <2>4, <2>5
<1> QED BY <1>1, <1>2, <1>3, <1>4 DEF WellFormed

LEMMA TextStack ==
  ASSUME NEW f, NEW us, Walked(f, us)
  PROVE  StackLevelled(f, LevelsOf(f))
<1> DEFINE ls == LevelsOf(f)
<1>1. /\ Len(f) \in Nat \ {0} /\ DOMAIN f = 1..Len(f)
      /\ LevelAt(f, us, 1) = Start /\ \A i \in 1..Len(f) : ls[i] = LevelAt(f, us, i)
  <2>1. Len(f) \in Nat \ {0}
    BY DEF Walked
  <2>2. 1 \in 1..Len(f)
    BY <2>1
  <2>3. ls = [i \in 1..Len(f) |-> LevelAt(f, us, i)] /\ LevelAt(f, us, 1) = Start
    BY LevelsAre
  <2> HIDE DEF ls
  <2> QED BY <2>1, <2>2, <2>3, WalkedFacts
<1> HIDE DEF ls
<1>2. ls[1] = Start
  <2>1. 1 \in 1..Len(f)
    BY <1>1
  <2> QED BY <1>1, <2>1
<1>3. ASSUME NEW i \in 1..Len(f)
      PROVE  /\ Allowed(f[i], ls[i])
             /\ \A j \in Successors(f, i) : Covers(ls[j], After(f[i], ls[i]))
             /\ f[i].op = "call" => ls[Target(f, i)] = Callee
             /\ ls[i].main /\ Between(f, i) => ls[i].part = "body" /\ ls[i].high = 0
  <2> DEFINE v == LevelAt(f, us, i)
  <2>1. ls[i] = v
    BY <1>1
  <2>2. Right(f[i], v)
    BY WalkedFacts
  <2> HIDE DEF v
  <2>3. Allowed(f[i], v)
    BY <2>2 DEF Right
  <2>4. v.main /\ Between(f, i) => v.part = "body" /\ v.high = 0
    BY <2>2 DEF Right, Between
  <2>5. ASSUME NEW j \in Successors(f, i) PROVE Covers(ls[j], After(f[i], v))
    <3>1. j \in 1..Len(f) /\ Covers(LevelAt(f, us, j), After(f[i], v))
      BY SuccessorsAre DEF v
    <3> QED BY <1>1, <3>1
  <2>6. ASSUME f[i].op = "call" PROVE ls[Target(f, i)] = Callee
    <3>1. f[i].tag = "func"
      BY <2>2, <2>6 DEF Right
    <3>2. Target(f, i) \in 1..Len(f) /\ LevelAt(f, us, Target(f, i)) = Callee
      BY <2>6, <3>1, FoundIs
    <3> QED BY <1>1, <3>2
  <2> QED BY <2>1, <2>3, <2>4, <2>5, <2>6
<1>4. StackLevelled(f, ls)
  BY <1>1, <1>2, <1>3 DEF StackLevelled
<1> QED BY <1>4 DEF ls

LEMMA TextArguments ==
  ASSUME NEW f, NEW us, Walked(f, us)
  PROVE  ArgumentsLevelled(f, LevelsOf(f), ArgumentsIn(f))
<1> DEFINE ls == LevelsOf(f)
           as == ArgumentsIn(f)
<1>1. DOMAIN f = 1..Len(f) /\ \A i \in 1..Len(f) : ls[i] = LevelAt(f, us, i)
  <2>1. Len(f) \in Nat \ {0}
    BY DEF Walked
  <2>2. 1 \in 1..Len(f)
    BY <2>1
  <2>3. ls = [i \in 1..Len(f) |-> LevelAt(f, us, i)]
    BY LevelsAre
  <2> HIDE DEF ls
  <2> QED BY <2>2, <2>3, WalkedFacts
<1> HIDE DEF ls
<1>2. ASSUME NEW i \in DOMAIN as
      PROVE  /\ i \in 1..Len(f) /\ f[i].op = "call" /\ 1 \in DOMAIN f[i].args
             /\ f[i].args[1].type = "int_lit" /\ as[i] = f[i].args[1].value
  BY <1>1, <1>2 DEF ArgumentsIn
<1> HIDE DEF as
<1>3. ASSUME NEW i \in 1..Len(f)
      PROVE  /\ i \in DOMAIN as => ls[i].rdi = Number(as[i])
             /\ f[i].op = "store" /\ f[i].reg = "rdi" =>
                  /\ ~ls[i].main /\ ls[i].rdi = Argument
                  /\ \A j \in 1..Len(f) : i + 1 \in Successors(f, j) => j = i
  <2>1. Right(f[i], ls[i])
    BY <1>1, WalkedFacts
  <2>2. ASSUME i \in DOMAIN as PROVE ls[i].rdi = Number(as[i])
    BY <1>2, <2>1, <2>2 DEF Right
  <2>3. f[i].op = "store" /\ f[i].reg = "rdi" => ~ls[i].main /\ ls[i].rdi = Argument
    BY <2>1 DEF Right
  <2>4. ASSUME f[i].op = "store", f[i].reg = "rdi", NEW j \in 1..Len(f), i + 1 \in Successors(f, j) PROVE j = i
    BY <2>4, StoreAlone
  <2> QED BY <2>2, <2>3, <2>4
<1>4. ArgumentsLevelled(f, ls, as)
  BY <1>1, <1>3 DEF ArgumentsLevelled
<1> QED BY <1>4 DEF ls, as

LEMMA TextIsLevelled ==
  ASSUME NEW p, Compiles(p)
  PROVE  Levelled(ImageOf(p))
<1> DEFINE f  == Emit(p).code
           im == ImageOf(p)
<1>1. im.code = f /\ im.levels = LevelsOf(f) /\ im.args = ArgumentsIn(f)
  BY DEF ImageOf
<1>2. Located(f) /\ StackTop + 16 * (Len(f) + 1) < Values(8)
  BY DEF Compiles
<1>3. PICK us : Walked(f, us)
  BY TextWalks DEF Walked
<1> HIDE DEF f, im
<1>4. /\ Len(f) \in Nat /\ DOMAIN f = 1..Len(f)
      /\ LevelsOf(f) = [i \in 1..Len(f) |-> LevelAt(f, us, i)]
  <2>1. Len(f) \in Nat \ {0}
    BY <1>3 DEF Walked
  <2>2. 1 \in 1..Len(f)
    BY <2>1
  <2> QED BY <1>3, <2>2, WalkedFacts, LevelsAre
<1>5. \A i \in 1..Len(f) : LevelAt(f, us, i) \in LevelType
  BY <1>3, WalkedFacts
<1>6. LevelsOf(f) \in [1..Len(f) -> LevelType]
  BY <1>4, <1>5
<1>7. ASSUME NEW i \in 1..Len(f) PROVE StackTop + LevelsOf(f)[i].high + 16 < Values(8)
  <2>1. LevelsOf(f)[i] = LevelAt(f, us, i)
    BY <1>4
  <2>2. LevelAt(f, us, i).high <= 16 * (i - 1)
    BY <1>3, HighIs
  <2>3. LevelAt(f, us, i).high \in Nat
    BY <1>5, LevelOf
  <2>4. Values(8) \in Nat /\ StackTop \in Nat
    BY ValuesType, StackAssumption
  <2> QED BY <1>2, <1>4, <2>1, <2>2, <2>3, <2>4
<1>8. WellFormed(f) /\ StackLevelled(f, LevelsOf(f)) /\ ArgumentsLevelled(f, LevelsOf(f), ArgumentsIn(f))
  BY <1>2, <1>3, TextProper, TextStack, TextArguments
<1>9. Levelled(im)
  BY <1>1, <1>4, <1>6, <1>7, <1>8 DEF Levelled
<1> QED BY <1>9 DEF im
-----------------------------------------------------------------------------
(* The theorems.                                                           *)
LEMMA ProgramsLevelled == AllLevelled
<1> QED BY TextIsLevelled, ProgramsAssumption DEF AllLevelled

(* The text of every program that compiles is levelled: whatever its       *)
(* statements, bodies, expressions, functions and calls are, the emitted   *)
(* pushes, pops, labels and jumps agree about the stack.                   *)
THEOREM EveryTextLevelled == Spec => []TextLevelled
<1>1. Init => TypeInv
  BY ProgramsLevelled, TypeInit
<1>2. TypeInv /\ [Next]_vars => TypeInv'
  BY TypeStep
<1>3. TypeInv => TextLevelled
  BY DEF TypeInv, TextLevelled
<1> QED BY <1>1, <1>2, <1>3, PTL DEF Spec

(* Every program that compiles keeps control in its text and its numbers   *)
(* in their registers and bytes.                                           *)
THEOREM EveryProgramTyped == Spec => []TypeOK
BY ProgramsLevelled, TypeCorrect

(* Every program that compiles has the stack where it was between two      *)
(* statements of its main frame.                                           *)
THEOREM EveryProgramLevel == Spec => []StackLevel
BY ProgramsLevelled, StackIsLevel

(* Every function of a program that compiles returns behind its call, with *)
(* the registers of its caller.                                            *)
THEOREM EveryFunctionReturns == Spec => []CallsReturn
BY ProgramsLevelled, EveryCallReturns

(* Every integer that a program that compiles writes in a call arrives.    *)
THEOREM EveryIntegerArrives == Spec => []ArgumentArrives
BY ProgramsLevelled, EveryArgumentArrives
=============================================================================
