-------------------------- MODULE ExprParserProofs --------------------------
(***************************************************************************)
(* Theorems about the expression parser, for every set of inputs.          *)
(***************************************************************************)
EXTENDS ExprParser, SequenceTheorems, Recursion

(* An open parenthesis that is consumed has a call waiting for its `)`.    *)
ParenPending ==
  \A k \in 1..(m_index - 1) :
    slice[k] = "open_paren" => \E j \in 1..(Len(calls) - 1) : calls[j].at = -1

(* The slice ends before the first `)`.                                    *)
NoClose == \A k \in 1..Len(slice) : slice[k] # "close_paren"

Started == phase = "scan" => m_index = 1 /\ calls = <<>>
Idle    == phase = "parsed" => calls = <<>>

(* Every call but the innermost waits for what it called.                  *)
Waiting == \A k \in 1..(Len(calls) - 1) : calls[k].at # 0

IInv ==
  /\ TypeOK /\ MinsClimb /\ DepthPaid
  /\ ParenPending /\ NoClose /\ Waiting /\ Started /\ Idle
-----------------------------------------------------------------------------
(* Sequences of calls.                                                     *)

LEMMA PushedCall ==
  ASSUME NEW S, NEW cs \in Seq(S), cs # <<>>, NEW f \in S, NEW g \in S,
         NEW new, new = Append([cs EXCEPT ![Len(cs)] = f], g)
  PROVE  /\ new \in Seq(S) /\ Len(new) = Len(cs) + 1 /\ Len(cs) \in Nat \ {0}
         /\ new[Len(cs) + 1] = g /\ new[Len(cs)] = f
         /\ \A k \in 1..(Len(cs) - 1) : new[k] = cs[k]
<1> DEFINE up == [cs EXCEPT ![Len(cs)] = f]
<1>1. Len(cs) \in Nat \ {0}
  OBVIOUS
<1>2. up \in Seq(S) /\ Len(up) = Len(cs)
  BY <1>1
<1>3. up[Len(cs)] = f /\ \A k \in 1..(Len(cs) - 1) : up[k] = cs[k]
  BY <1>1
<1>4. new = Append(up, g)
  OBVIOUS
<1> HIDE DEF up
<1>5. /\ new \in Seq(S) /\ Len(new) = Len(up) + 1
      /\ new[Len(up) + 1] = g /\ \A k \in 1..Len(up) : new[k] = up[k]
  <2>1. /\ Append(up, g) \in Seq(S) /\ Len(Append(up, g)) = Len(up) + 1
        /\ \A k \in 1..Len(up) : Append(up, g)[k] = up[k]
        /\ Append(up, g)[Len(up) + 1] = g
    BY <1>2, AppendProperties
  <2> QED BY <1>4, <2>1
<1>6. new[Len(cs)] = f
  BY <1>1, <1>2, <1>3, <1>5
<1>7. \A k \in 1..(Len(cs) - 1) : new[k] = cs[k]
  BY <1>1, <1>2, <1>3, <1>5
<1> QED BY <1>1, <1>2, <1>5, <1>6, <1>7

LEMMA PoppedCall ==
  ASSUME NEW S, NEW cs \in Seq(S), Len(cs) > 1,
         NEW new, new = SubSeq(cs, 1, Len(cs) - 1)
  PROVE  /\ new \in Seq(S) /\ Len(new) = Len(cs) - 1 /\ Len(cs) \in Nat
         /\ new # <<>>
         /\ \A k \in 1..(Len(cs) - 1) : new[k] = cs[k]
<1>1. Len(cs) \in Nat
  OBVIOUS
<1>2. new \in Seq(S) /\ Len(new) = Len(cs) - 1 /\ \A k \in 1..(Len(cs) - 1) : new[k] = cs[k]
  BY <1>1, SubSeqProperties
<1>3. Len(new) > 0
  BY <1>1, <1>2
<1>4. new = <<>> => Len(new) = 0
  OBVIOUS
<1> QED BY <1>1, <1>2, <1>3, <1>4

LEMMA PrecRange ==
  ASSUME NEW t \in TokenTypes, Prec(t) >= 0
  PROVE  Prec(t) \in 0..80 /\ t # "open_paren" /\ t # "close_paren"
  BY DEF Prec, Operators, Precedence

LEMMA CallTypes ==
  /\ None \in Tree
  /\ \A m \in 0..81 : Call(m) \in Frm
  BY DEF None, Tree, Call, Frm

(* What is cut in front of the first terminator.                           *)
LEMMA SliceProps ==
  ASSUME NEW ts \in Seq(TokenTypes), Terminators(ts, 1) # {},
         NEW t, t = Terminator(ts, 1), NEW sl, sl = SubSeq(ts, 1, t - 1)
  PROVE  /\ t \in 1..Len(ts) /\ Len(ts) \in Nat
         /\ sl \in Seq(TokenTypes) /\ Len(sl) = t - 1
         /\ \A k \in 1..(t - 1) : sl[k] # "close_paren"
<1> DEFINE T == Terminators(ts, 1)
<1>1. Len(ts) \in Nat /\ T \subseteq 1..Len(ts)
  BY DEF Terminators
<1>2. \E u \in T : \A v \in T : u <= v
  <2>1. T \subseteq Nat /\ T # {}
    BY <1>1
  <2> HIDE DEF T
  <2> QED BY <2>1, LeastNat
<1>3. t \in T /\ \A v \in T : t <= v
  BY <1>2 DEF Terminator
<1>4. t \in 1..Len(ts)
  BY <1>1, <1>3
<1>5. sl \in Seq(TokenTypes) /\ Len(sl) = t - 1 /\ \A k \in 1..(t - 1) : sl[k] = ts[k]
  BY <1>1, <1>4, SubSeqProperties
<1>6. ASSUME NEW k \in 1..(t - 1) PROVE sl[k] # "close_paren"
  <2>1. sl[k] = ts[k] /\ k \in 1..Len(ts) /\ k < t
    BY <1>1, <1>4, <1>5
  <2>2. k \notin T
    BY <2>1, <1>1, <1>3, <1>4
  <2> QED BY <2>1, <2>2 DEF Terminators
<1> QED BY <1>1, <1>4, <1>5, <1>6
-----------------------------------------------------------------------------
(* The invariant, action by action.                                        *)

LEMMA InitInv == Init => IInv
<1> SUFFICES ASSUME Init PROVE IInv
  OBVIOUS
<1>1. m_tokens \in Seq(TokenTypes)
  BY InputsAssumption DEF Init
<1>2. TypeOK
  BY <1>1, CallTypes DEF Init, TypeOK, Phases
<1> QED BY <1>2 DEF Init, IInv, TypeOK, MinsClimb, DepthPaid, ParenPending, NoClose,
                     Waiting, Started, Idle

LEMMA CutInv == ASSUME IInv, Cut PROVE IInv'
<1> DEFINE t == Terminator(m_tokens, 1)
<1>1. /\ t \in 1..Len(m_tokens) /\ Len(m_tokens) \in Nat
      /\ slice' \in Seq(TokenTypes) /\ Len(slice') = t - 1
      /\ \A k \in 1..(t - 1) : slice'[k] # "close_paren"
  BY SliceProps DEF IInv, TypeOK, Cut, Cuttable
<1> HIDE DEF t
<1>2. m_index = 1 /\ m_index' = 1 /\ calls' = <<Call(0)>> /\ phase' = "primary"
  BY DEF IInv, Started, Cut
<1>3. Call(0) \in Frm
  BY CallTypes
<1>4. calls' \in Seq(Frm) /\ Len(calls') = 1
  BY <1>2, <1>3
<1>5. TypeOK'
  BY <1>1, <1>2, <1>4 DEF IInv, TypeOK, Cut, Phases
<1>6. MinsClimb' /\ DepthPaid' /\ ParenPending' /\ Waiting' /\ Started' /\ Idle'
  BY <1>2, <1>4 DEF MinsClimb, DepthPaid, ParenPending, Waiting, Started, Idle
<1>7. NoClose'
  BY <1>1 DEF NoClose
<1> QED BY <1>5, <1>6, <1>7 DEF IInv

(* The steps that leave the slice and the calls alone.                     *)
LEMMA StayInv ==
  ASSUME IInv, UNCHANGED <<m_tokens, slice, m_index, calls>>,
         left' \in Tree, phase' \in {"failed", "exited"}
  PROVE  IInv'
<1>1. TypeOK'
  BY DEF IInv, TypeOK, Phases
<1>2. MinsClimb' /\ DepthPaid' /\ ParenPending' /\ NoClose' /\ Waiting' /\ Started' /\ Idle'
  BY DEF IInv, MinsClimb, DepthPaid, ParenPending, NoClose, Waiting, Started, Idle
<1> QED BY <1>1, <1>2 DEF IInv

LEMMA LeafInv == ASSUME IInv, Leaf PROVE IInv'
<1>1. /\ m_index \in 1..Len(slice) /\ Len(slice) \in Nat
      /\ slice[m_index] \in {"int_lit", "ident"}
  BY DEF IInv, TypeOK, Leaf, More
<1>2. Operand(m_index) \in Tree
  BY <1>1 DEF Operand, Tree
<1>3. TypeOK'
  BY <1>1, <1>2 DEF IInv, TypeOK, Leaf, Phases
<1>4. MinsClimb' /\ DepthPaid' /\ NoClose' /\ Waiting' /\ Started' /\ Idle'
  BY <1>1 DEF IInv, TypeOK, Leaf, MinsClimb, DepthPaid, NoClose, Waiting, Started, Idle
<1>5. ParenPending'
  BY <1>1 DEF IInv, Leaf, ParenPending
<1> QED BY <1>3, <1>4, <1>5 DEF IInv

(* Another call is made, behind the token at m_index.                      *)
LEMMA PushInv ==
  ASSUME IInv, More, phase \in {"primary", "loop"}, NEW f \in Frm, NEW m \in 0..81,
         calls' = Append([calls EXCEPT ![Len(calls)] = f], Call(m)),
         m_index' = m_index + 1, UNCHANGED <<m_tokens, slice, left>>, phase' = "primary",
         f.min = Running.min, f.at > 0 => m > f.min,
         f.at # 0, slice[m_index] = "open_paren" => f.at = -1
  PROVE  IInv'
<1>1. m_index \in 1..Len(slice) /\ Len(slice) \in Nat
  BY DEF IInv, TypeOK, More
<1>2. Call(m) \in Frm /\ Call(m).min = m
  BY CallTypes DEF Call
<1>3. /\ calls' \in Seq(Frm) /\ Len(calls') = Len(calls) + 1 /\ Len(calls) \in Nat \ {0}
      /\ calls'[Len(calls) + 1] = Call(m) /\ calls'[Len(calls)] = f
      /\ \A k \in 1..(Len(calls) - 1) : calls'[k] = calls[k]
  BY <1>2, PushedCall DEF IInv, TypeOK
<1>4. TypeOK'
  <2>1. TypeOK /\ m_index' \in 1..(Len(slice) + 1)
    BY <1>1 DEF IInv
  <2>2. calls' # <<>>
    BY <1>3
  <2> QED BY <2>1, <2>2, <1>3 DEF TypeOK, Phases
<1>5. MinsClimb'
  <2> SUFFICES ASSUME NEW k \in 1..Len(calls), calls'[k].at > 0
               PROVE  calls'[k + 1].min > calls'[k].min
    BY <1>3 DEF MinsClimb
  <2>1. CASE k = Len(calls)
    BY <2>1, <1>2, <1>3
  <2>2. CASE k = Len(calls) - 1
    <3>1. calls[k].at > 0 /\ calls[k + 1].min > calls[k].min
      BY <2>2, <1>3 DEF IInv, MinsClimb
    <3> QED BY <3>1, <2>2, <1>3 DEF Running
  <2>3. CASE k < Len(calls) - 1
    <3>1. k \in 1..(Len(calls) - 1) /\ k + 1 \in 1..(Len(calls) - 1)
      BY <2>3, <1>3
    <3> QED BY <3>1, <1>3 DEF IInv, MinsClimb
  <2> QED BY <1>3, <2>1, <2>2, <2>3
<1>6. ParenPending'
  <2> SUFFICES ASSUME NEW k \in 1..m_index, slice[k] = "open_paren"
               PROVE  \E j \in 1..Len(calls) : calls'[j].at = -1
    BY <1>1, <1>3 DEF ParenPending
  <2>1. CASE k = m_index
    BY <2>1, <1>3
  <2>2. CASE k # m_index
    <3>1. PICK j \in 1..(Len(calls) - 1) : calls[j].at = -1
      BY <2>2, <1>1 DEF IInv, ParenPending
    <3> QED BY <3>1, <1>3
  <2> QED BY <2>1, <2>2
<1>7. Waiting'
  BY <1>3 DEF IInv, Waiting
<1>8. DepthPaid' /\ NoClose' /\ Started' /\ Idle'
  BY <1>1, <1>3 DEF IInv, DepthPaid, NoClose, Started, Idle
<1> QED BY <1>4, <1>5, <1>6, <1>7, <1>8 DEF IInv

(* The type of the innermost call.                                         *)
LEMMA RunningType ==
  ASSUME IInv, calls # <<>>
  PROVE  Running \in Frm /\ Running.min \in 0..81 /\ Running.at \in Nat \cup {-1}
<1>1. Len(calls) \in 1..Len(calls)
  BY DEF IInv, TypeOK
<1>2. Running \in Frm
  BY <1>1 DEF IInv, TypeOK, Running
<1> QED BY <1>2 DEF Frm

LEMMA OpenParenInv == ASSUME IInv, OpenParen PROVE IInv'
<1> DEFINE f == [Running EXCEPT !.at = -1]
<1>1. calls # <<>> /\ Len(calls) \in 1..Len(calls)
  BY DEF IInv, TypeOK, OpenParen
<1>2. f \in Frm /\ f.min = Running.min /\ f.at = -1
  BY <1>1, RunningType DEF Frm
<1>3. [calls EXCEPT ![Len(calls)].at = -1] = [calls EXCEPT ![Len(calls)] = f]
  BY <1>1 DEF Running
<1>4. calls' = Append([calls EXCEPT ![Len(calls)] = f], Call(0))
  BY <1>3 DEF OpenParen
<1>5. /\ More /\ phase = "primary" /\ m_index' = m_index + 1 /\ phase' = "primary"
      /\ UNCHANGED <<m_tokens, slice, left>>
  BY DEF OpenParen
<1> HIDE DEF f
<1> QED BY <1>2, <1>4, <1>5, PushInv

LEMMA ClimbInv == ASSUME IInv, Climb PROVE IInv'
<1> DEFINE f == [min |-> Running.min, lhs |-> left, at |-> m_index]
           m == NextMin(Prec(slice[m_index]))
<1>1. calls # <<>> /\ Len(calls) \in 1..Len(calls)
  BY DEF IInv, TypeOK, Climb
<1>2. m_index \in 1..Len(slice) /\ m_index > 0 /\ left \in Tree
  BY DEF IInv, TypeOK, Climb, Climbs, More
<1>3. f \in Frm /\ f.min = Running.min /\ f.at = m_index
  BY <1>1, <1>2, RunningType DEF Frm
<1>4. Running.min \in 0..81 /\ Prec(slice[m_index]) >= Running.min
  BY <1>1, RunningType DEF Climb, Climbs
<1>5. slice[m_index] \in TokenTypes
  BY <1>2 DEF IInv, TypeOK
<1>6. Prec(slice[m_index]) \in Int
  BY DEF Prec, Operators, Precedence
<1>7. Prec(slice[m_index]) >= 0
  BY <1>4, <1>6
<1>8. /\ Prec(slice[m_index]) \in 0..80 /\ slice[m_index] # "open_paren"
      /\ m \in 0..81 /\ m > f.min
  BY <1>3, <1>4, <1>5, <1>7, PrecRange DEF NextMin
<1>9. calls' = Append([calls EXCEPT ![Len(calls)] = f], Call(m))
  BY <1>1 DEF Climb, Running
<1>10. /\ More /\ phase = "loop" /\ m_index' = m_index + 1 /\ phase' = "primary"
       /\ UNCHANGED <<m_tokens, slice, left>>
  BY DEF Climb, Climbs
<1> HIDE DEF f, m
<1>11. f.at # 0 /\ (f.at > 0 => m > f.min) /\ (slice[m_index] = "open_paren" => f.at = -1)
  BY <1>2, <1>3, <1>8
<1> QED BY <1>3, <1>8, <1>9, <1>10, <1>11, PushInv

LEMMA ReturnInnerInv == ASSUME IInv, ReturnInner PROVE IInv'
<1>1. Len(calls) \in Nat /\ Len(calls) > 1 /\ Len(calls) - 1 \in 1..(Len(calls) - 1)
  BY DEF IInv, TypeOK, ReturnInner
<1>2. /\ calls' \in Seq(Frm) /\ Len(calls') = Len(calls) - 1 /\ calls' # <<>>
      /\ \A k \in 1..(Len(calls) - 1) : calls'[k] = calls[k]
  <2>1. calls \in Seq(Frm)
    BY DEF IInv, TypeOK
  <2>2. calls' = SubSeq(calls, 1, Len(calls) - 1)
    BY DEF ReturnInner, Callers
  <2> QED BY <1>1, <2>1, <2>2, PoppedCall
<1>3. Caller \in Frm /\ Caller.at # 0
  BY <1>1 DEF IInv, TypeOK, Waiting, Caller
<1>4. Caller.at # -1
  <2>1. ~CloseAhead
    BY DEF CloseAhead, More, IInv, TypeOK, NoClose
  <2> QED BY <2>1 DEF ReturnInner
<1>5. Caller.at > 0 /\ Caller.at \in Nat /\ Caller.lhs \in Tree
  BY <1>3, <1>4 DEF Frm
<1>6. m_index' = m_index /\ left' = MakeBin(Caller.lhs, Caller.at, left)
  BY <1>5 DEF ReturnInner
<1>7. left' \in Tree
  BY <1>5, <1>6 DEF IInv, TypeOK, MakeBin, Tree, Node
<1>8. /\ UNCHANGED <<m_tokens, slice, m_index, phase>> /\ phase = "loop"
  BY <1>6 DEF ReturnInner
<1>9. TypeOK'
  BY <1>2, <1>7, <1>8 DEF IInv, TypeOK
<1>10. MinsClimb'
  BY <1>1, <1>2 DEF IInv, MinsClimb
<1>11. ParenPending'
  <2> SUFFICES ASSUME NEW k \in 1..(m_index - 1), slice[k] = "open_paren"
               PROVE  \E j \in 1..(Len(calls) - 2) : calls'[j].at = -1
    BY <1>1, <1>2, <1>8 DEF ParenPending
  <2>1. PICK j \in 1..(Len(calls) - 1) : calls[j].at = -1
    BY DEF IInv, ParenPending
  <2>2. j # Len(calls) - 1
    BY <2>1, <1>4 DEF Caller
  <2>3. j \in 1..(Len(calls) - 2)
    BY <2>1, <2>2, <1>1
  <2> QED BY <2>1, <2>3, <1>2
<1>12. Waiting' /\ DepthPaid'
  BY <1>1, <1>2, <1>8 DEF IInv, TypeOK, Waiting, DepthPaid
<1>13. NoClose' /\ Started' /\ Idle'
  BY <1>8 DEF IInv, NoClose, Started, Idle
<1> QED BY <1>9, <1>10, <1>11, <1>12, <1>13 DEF IInv

LEMMA ReturnInv == ASSUME IInv, Return PROVE IInv'
<1>1. /\ calls' = <<>> /\ phase' = "parsed" /\ Len(calls) = 1
      /\ UNCHANGED <<m_tokens, slice, m_index, left>>
  BY DEF Return
<1>2. calls' \in Seq(Frm) /\ Len(calls') = 0
  BY <1>1
<1>3. TypeOK'
  BY <1>1, <1>2 DEF IInv, TypeOK, Phases
<1>4. ParenPending'
  BY <1>1, <1>2 DEF IInv, ParenPending
<1>5. MinsClimb' /\ DepthPaid' /\ NoClose' /\ Waiting' /\ Started' /\ Idle'
  BY <1>1, <1>2 DEF IInv, TypeOK, MinsClimb, DepthPaid, NoClose, Waiting, Started, Idle
<1> QED BY <1>3, <1>4, <1>5 DEF IInv

LEMMA NextInv == IInv /\ [Next]_vars => IInv'
<1> SUFFICES ASSUME IInv, [Next]_vars PROVE IInv'
  OBVIOUS
<1>1. CASE Cut
  BY <1>1, CutInv
<1>2. CASE Fail
  BY <1>2, StayInv DEF Fail, IInv, TypeOK
<1>3. CASE Leaf
  BY <1>3, LeafInv
<1>4. CASE OpenParen
  BY <1>4, OpenParenInv
<1>5. CASE Climb
  BY <1>5, ClimbInv
<1>6. CASE ReturnInner
  BY <1>6, ReturnInnerInv
<1>7. CASE Return
  BY <1>7, ReturnInv
<1>8. CASE Exit
  BY <1>8, StayInv DEF Exit, IInv, TypeOK
<1>9. CASE UNCHANGED vars
  BY <1>9 DEF vars, IInv, TypeOK, MinsClimb, DepthPaid, ParenPending, NoClose, Waiting,
              Started, Idle, Phases
<1> QED BY <1>1, <1>2, <1>3, <1>4, <1>5, <1>6, <1>7, <1>8, <1>9 DEF Next, Step, Ended
-----------------------------------------------------------------------------
(* The inductive invariant holds in every reachable state.                 *)
THEOREM Invariance == Spec => []IInv
  BY InitInv, NextInv, PTL DEF Spec

(* Type correctness, with the bounds of m_index in the slice.              *)
THEOREM TypeCorrect == Spec => []TypeOK
<1>1. IInv => TypeOK
  BY DEF IInv
<1> QED BY Invariance, <1>1, PTL

(* The minimum precedence climbs along the callers of binary operators:    *)
(* parse_expr_prec_on_slice calls itself at most once per level in a row.  *)
THEOREM RecursionClimbs == Spec => []MinsClimb
<1>1. IInv => MinsClimb
  BY DEF IInv
<1> QED BY Invariance, <1>1, PTL

(* The call stack of the expression parser never outgrows the tokens       *)
(* consumed, whatever the tokens are.                                      *)
THEOREM RecursionPaid == Spec => []DepthPaid
<1>1. IInv => DepthPaid
  BY DEF IInv
<1> QED BY Invariance, <1>1, PTL

(* The slice is cut at the first `)`, so the branch of                     *)
(* parse_primary_on_slice that parses a parenthesis never succeeds.        *)
THEOREM ParenthesesFail == Spec => []NoParenthesis
<1>1. IInv => NoParenthesis
  <2> SUFFICES ASSUME IInv, phase = "parsed", NEW k \in 1..(m_index - 1),
                      slice[k] = "open_paren"
               PROVE  FALSE
    BY DEF NoParenthesis
  <2>1. calls = <<>> /\ Len(calls) = 0
    BY DEF IInv, Idle
  <2> QED BY <2>1 DEF IInv, ParenPending
<1> QED BY Invariance, <1>1, PTL
-----------------------------------------------------------------------------
(* Trees and precedences, in a slice sl.                                   *)

Op(sl, k) == sl[k] \in Operators
AtLeast(sl, m, lo, hi) == \A k \in lo..hi : Op(sl, k) => Prec(sl[k]) >= m

(* Node n has the span that the precedences give it within lo..hi.         *)
IsSpan(sl, n, lo, hi) ==
  /\ lo <= n.lo /\ n.lo <= n.at /\ n.at <= n.hi /\ n.hi <= hi
  /\ AtLeast(sl, Prec(sl[n.at]), n.lo, n.at - 1)
  /\ n.lo > lo => Prec(sl[n.lo - 1]) \in 0..(Prec(sl[n.at]) - 1)
  /\ AtLeast(sl, Prec(sl[n.at]) + 1, n.at + 1, n.hi)
  /\ n.hi < hi => Prec(sl[n.hi + 1]) \in 0..Prec(sl[n.at])
IsTree(sl, t, lo, hi) ==
  /\ t.lo = lo /\ t.hi = hi
  /\ \A n \in t.nodes : Op(sl, n.at) /\ IsSpan(sl, n, lo, hi)
  /\ \A k \in lo..hi : Op(sl, k) => \E n \in t.nodes : n.at = k

(* Call k of cs starts behind the operator its caller waits at; while it   *)
(* waits itself, its left tree reaches up to its own operator.             *)
Paren        == \E k \in 1..(Len(calls) - 1) : calls[k].at = -1
From(cs, k)  == IF k = 1 THEN 1 ELSE cs[k - 1].at + 1
Waits(cs, sl, k) ==
  /\ From(cs, k) < cs[k].at /\ cs[k].at <= Len(sl) /\ Op(sl, cs[k].at)
  /\ IsTree(sl, cs[k].lhs, From(cs, k), cs[k].at - 1)
  /\ AtLeast(sl, cs[k].min, From(cs, k), cs[k].at)
  /\ AtLeast(sl, Prec(sl[cs[k].at]), From(cs, k), cs[k].at - 1)
  /\ cs[k + 1].min = Prec(sl[cs[k].at]) + 1

(* What the innermost call has when i is the next token.                   *)
Has(sl, t, m, lo, i) ==
  /\ lo < i /\ IsTree(sl, t, lo, i - 1) /\ AtLeast(sl, m, lo, i - 1)
  /\ i <= Len(sl) /\ Op(sl, i) => AtLeast(sl, Prec(sl[i]), lo, i - 1)

TreesFollow ==
  ~Paren =>
    /\ phase \in {"primary", "loop"} => \A k \in 1..(Len(calls) - 1) : Waits(calls, slice, k)
    /\ phase = "primary" => From(calls, Len(calls)) = m_index
    /\ phase = "loop" => Has(slice, left, Running.min, From(calls, Len(calls)), m_index)
    /\ phase = "parsed" => left.lo = 1 /\ IsTree(slice, left, 1, m_index - 1)

LEMMA PrecFacts ==
  \A t : Prec(t) \in Int /\ (t \in Operators <=> Prec(t) >= 0) /\ Prec(t) <= 80
BY DEF Prec, Operators, Precedence

(* An operand is a tree of its own.                                        *)
LEMMA OperandTree ==
  ASSUME NEW sl, NEW i \in Nat, ~Op(sl, i)
  PROVE  IsTree(sl, Operand(i), i, i)
<1>1. Operand(i).lo = i /\ Operand(i).hi = i /\ Operand(i).nodes = {}
  BY DEF Operand
<1>2. \A k \in i..i : k = i
  OBVIOUS
<1> QED BY <1>1, <1>2 DEF IsTree

(* Two trees and the operator between them, which binds no tighter than    *)
(* those on its left and less tightly than those on its right.             *)
LEMMA MakeTree ==
  ASSUME NEW sl, NEW lo \in Nat, NEW at \in Nat, NEW hi \in Nat, lo < at, at < hi,
         NEW l \in Tree, NEW r \in Tree, IsTree(sl, l, lo, at - 1), IsTree(sl, r, at + 1, hi),
         Op(sl, at), AtLeast(sl, Prec(sl[at]), lo, at - 1),
         AtLeast(sl, Prec(sl[at]) + 1, at + 1, hi)
  PROVE  IsTree(sl, MakeBin(l, at, r), lo, hi)
<1> DEFINE x == [lo |-> lo, at |-> at, hi |-> hi]
           t == MakeBin(l, at, r)
<1>1. /\ t.lo = lo /\ t.hi = hi /\ t.nodes = l.nodes \cup r.nodes \cup {x}
      /\ x.lo = lo /\ x.at = at /\ x.hi = hi
  BY DEF MakeBin, IsTree
<1>2. /\ \A n \in l.nodes : n \in Node /\ Op(sl, n.at) /\ IsSpan(sl, n, lo, at - 1)
      /\ \A n \in r.nodes : n \in Node /\ Op(sl, n.at) /\ IsSpan(sl, n, at + 1, hi)
  BY DEF Tree, IsTree
<1> HIDE DEF x, t
<1>3. IsSpan(sl, x, lo, hi)
  BY <1>1 DEF IsSpan
<1>4. Prec(sl[at]) \in Int /\ Prec(sl[at]) >= 0
  BY PrecFacts DEF Op
<1>5. ASSUME NEW n \in l.nodes PROVE Op(sl, n.at) /\ IsSpan(sl, n, lo, hi)
  <2> DEFINE p == Prec(sl[n.at])
  <2>1. /\ n.lo \in Nat /\ n.at \in Nat /\ n.hi \in Nat
        /\ Op(sl, n.at) /\ IsSpan(sl, n, lo, at - 1)
    BY <1>2 DEF Node
  <2>2. n.at \in lo..(at - 1) /\ p \in Int
    BY <2>1, PrecFacts DEF IsSpan
  <2>3. Prec(sl[at]) <= p
    BY <1>4, <2>1, <2>2 DEF AtLeast
  <2>4. n.hi < hi => Prec(sl[n.hi + 1]) \in 0..p
    <3>1. n.hi < at - 1 => Prec(sl[n.hi + 1]) \in 0..p
      BY <2>1 DEF IsSpan
    <3>2. ~(n.hi < at - 1) => n.hi + 1 = at
      BY <2>1 DEF IsSpan
    <3> QED BY <1>4, <2>2, <2>3, <3>1, <3>2
  <2> QED BY <2>1, <2>4 DEF IsSpan
<1>6. ASSUME NEW n \in r.nodes PROVE Op(sl, n.at) /\ IsSpan(sl, n, lo, hi)
  <2> DEFINE p == Prec(sl[n.at])
  <2>1. /\ n.lo \in Nat /\ n.at \in Nat /\ n.hi \in Nat
        /\ Op(sl, n.at) /\ IsSpan(sl, n, at + 1, hi)
    BY <1>2 DEF Node
  <2>2. n.at \in (at + 1)..hi /\ p \in Int
    BY <2>1, PrecFacts DEF IsSpan
  <2>3. Prec(sl[at]) + 1 <= p
    BY <1>4, <2>1, <2>2 DEF AtLeast
  <2>4. n.lo > lo => Prec(sl[n.lo - 1]) \in 0..(p - 1)
    <3>1. n.lo > at + 1 => Prec(sl[n.lo - 1]) \in 0..(p - 1)
      BY <2>1 DEF IsSpan
    <3>2. ~(n.lo > at + 1) => n.lo - 1 = at
      BY <2>1 DEF IsSpan
    <3> QED BY <1>4, <2>2, <2>3, <3>1, <3>2
  <2> QED BY <2>1, <2>4 DEF IsSpan
<1>7. ASSUME NEW k \in lo..hi, Op(sl, k) PROVE \E n \in t.nodes : n.at = k
  <2>1. k \in lo..(at - 1) \/ k = at \/ k \in (at + 1)..hi
    OBVIOUS
  <2> QED BY <1>1, <1>7, <2>1 DEF IsTree
<1> QED BY <1>1, <1>3, <1>5, <1>6, <1>7 DEF IsTree, t
-----------------------------------------------------------------------------
(* Every step keeps the trees.                                             *)

LEMMA FromType ==
  ASSUME IInv, ~Paren, NEW k \in 1..Len(calls)
  PROVE  From(calls, k) \in Nat
<1>1. calls \in Seq(Frm) /\ Len(calls) \in Nat
  BY DEF IInv, TypeOK
<1>2. CASE k = 1
  BY <1>2 DEF From
<1>3. CASE k # 1
  <2>1. k - 1 \in 1..(Len(calls) - 1) /\ k - 1 \in 1..Len(calls)
    BY <1>1, <1>3
  <2>2. calls[k - 1] \in Frm
    BY <1>1, <2>1
  <2>3. calls[k - 1].at \in Nat
    BY <2>1, <2>2 DEF Frm, Paren
  <2> QED BY <1>3, <2>3 DEF From
<1> QED BY <1>2, <1>3

LEMMA CutTrees == ASSUME IInv, Cut PROVE TreesFollow'
<1>1. Len(calls') = 1 /\ m_index' = 1 /\ phase' = "primary"
  BY DEF IInv, Started, Cut
<1> QED BY <1>1 DEF TreesFollow, From

LEMMA LeafTrees == ASSUME IInv, TreesFollow, Leaf PROVE TreesFollow'
<1> SUFFICES ASSUME ~Paren PROVE TreesFollow'
  BY DEF TreesFollow, Paren, Leaf
<1>1. /\ m_index \in 1..Len(slice) /\ Len(slice) \in Nat
      /\ slice[m_index] \in {"int_lit", "ident"} /\ phase' = "loop" /\ phase = "primary"
      /\ left' = Operand(m_index) /\ m_index' = m_index + 1 /\ UNCHANGED <<slice, calls>>
      /\ calls # <<>>
  BY DEF IInv, TypeOK, Leaf, More
<1>2. ~Op(slice, m_index)
  BY <1>1 DEF Op, Operators, Precedence
<1>3. IsTree(slice, left', m_index, m_index)
  BY <1>1, <1>2, OperandTree
<1>4. \A p : AtLeast(slice, p, m_index, m_index)
  BY <1>1, <1>2 DEF AtLeast
<1>5. From(calls, Len(calls)) = m_index /\ \A k \in 1..(Len(calls) - 1) : Waits(calls, slice, k)
  BY <1>1 DEF TreesFollow
<1>6. Has(slice, left', Running.min, m_index, m_index + 1)
  BY <1>1, <1>3, <1>4 DEF Has
<1> QED BY <1>1, <1>5, <1>6 DEF TreesFollow, Running

LEMMA OpenParenTrees == ASSUME IInv, OpenParen PROVE TreesFollow'
<1> DEFINE f == [Running EXCEPT !.at = -1]
<1>1. calls # <<>> /\ Len(calls) \in 1..Len(calls) /\ calls \in Seq(Frm)
  BY DEF IInv, TypeOK, OpenParen
<1>2. f \in Frm /\ f.at = -1
  BY <1>1, RunningType DEF Frm
<1>3. calls' = Append([calls EXCEPT ![Len(calls)] = f], Call(0))
  BY <1>1 DEF OpenParen, Running
<1> HIDE DEF f
<1>4. Call(0) \in Frm
  BY CallTypes
<1>5. Len(calls') = Len(calls) + 1 /\ calls'[Len(calls)] = f
  BY <1>1, <1>2, <1>3, <1>4, PushedCall
<1>6. Paren'
  BY <1>1, <1>2, <1>5 DEF Paren
<1> QED BY <1>6 DEF TreesFollow

LEMMA ClimbTrees == ASSUME IInv, TreesFollow, Climb PROVE TreesFollow'
<1> DEFINE f == [min |-> Running.min, lhs |-> left, at |-> m_index]
           m == NextMin(Prec(slice[m_index]))
           n == Len(calls)
<1>1. /\ calls # <<>> /\ n \in Nat \ {0} /\ calls \in Seq(Frm)
      /\ m_index \in 1..Len(slice) /\ Len(slice) \in Nat /\ left \in Tree
  BY DEF IInv, TypeOK, Climb, Climbs, More
<1>2. f \in Frm /\ f.min = Running.min /\ f.lhs = left /\ f.at = m_index
  BY <1>1, RunningType DEF Frm
<1>3. /\ Running.min \in 0..81 /\ Prec(slice[m_index]) \in 0..80 /\ Op(slice, m_index)
      /\ Prec(slice[m_index]) >= Running.min /\ m = Prec(slice[m_index]) + 1
  <2>1. Running.min \in 0..81 /\ Prec(slice[m_index]) >= Running.min
    BY <1>1, RunningType DEF Climb, Climbs
  <2> QED BY <2>1, PrecFacts DEF Op, NextMin
<1>4. calls' = Append([calls EXCEPT ![n] = f], Call(m))
  BY <1>1 DEF Climb, Running
<1>5. phase = "loop" /\ phase' = "primary" /\ m_index' = m_index + 1 /\ slice' = slice
  BY DEF Climb
<1> HIDE DEF f, m
<1>6. Call(m) \in Frm /\ Call(m).min = m
  <2>1. m \in 0..81
    BY <1>3
  <2> QED BY <2>1, CallTypes DEF Call
<1>7. /\ Len(calls') = n + 1 /\ calls'[n + 1] = Call(m) /\ calls'[n] = f
      /\ \A k \in 1..(n - 1) : calls'[k] = calls[k]
  BY <1>1, <1>2, <1>4, <1>6, PushedCall
<1> HIDE DEF n
<1>8. Running = calls[n]
  BY DEF Running, n
<1> SUFFICES ASSUME ~Paren' PROVE TreesFollow'
  BY DEF TreesFollow
<1>9. ~Paren
  BY <1>1, <1>7 DEF Paren, n
<1>10. /\ \A k \in 1..(n - 1) : Waits(calls, slice, k)
       /\ Has(slice, left, Running.min, From(calls, n), m_index)
  BY <1>5, <1>9 DEF TreesFollow, n
<1>11. \A k \in 1..n : From(calls', k) = From(calls, k)
  BY <1>1, <1>7 DEF From
<1>12. From(calls', n + 1) = m_index + 1
  BY <1>1, <1>2, <1>7 DEF From
<1>13. ASSUME NEW k \in 1..n PROVE Waits(calls', slice, k)
  <2>1. CASE k = n
    <3> DEFINE lo == From(calls, n)
    <3>1. /\ calls'[k].min = Running.min /\ calls'[k].lhs = left /\ calls'[k].at = m_index
          /\ From(calls', k) = lo /\ calls'[k + 1].min = m
      BY <1>1, <1>2, <1>6, <1>7, <1>11, <2>1
    <3>2. lo \in Nat
      BY <1>1, <1>9, FromType DEF n
    <3> HIDE DEF lo
    <3>3. /\ lo < m_index /\ IsTree(slice, left, lo, m_index - 1)
          /\ AtLeast(slice, Running.min, lo, m_index - 1)
          /\ AtLeast(slice, Prec(slice[m_index]), lo, m_index - 1)
      BY <1>1, <1>3, <1>10 DEF Has, lo
    <3>4. AtLeast(slice, Running.min, lo, m_index)
      <4> SUFFICES ASSUME NEW j \in lo..m_index, Op(slice, j) PROVE Prec(slice[j]) >= Running.min
        BY DEF AtLeast
      <4>1. j = m_index \/ j \in lo..(m_index - 1)
        BY <1>1, <3>2
      <4> QED BY <1>3, <3>3, <4>1 DEF AtLeast
    <3> QED BY <1>1, <1>3, <3>1, <3>3, <3>4 DEF Waits
  <2>2. CASE k # n
    <3>1. k \in 1..(n - 1) /\ k + 1 \in 1..n
      BY <1>1, <2>2
    <3>2. calls'[k] = calls[k] /\ calls'[k + 1].min = calls[k + 1].min
      <4>1. k + 1 = n \/ k + 1 \in 1..(n - 1)
        BY <1>1, <3>1
      <4> QED BY <1>2, <1>7, <1>8, <3>1, <4>1
    <3> QED BY <1>10, <1>11, <3>1, <3>2 DEF Waits
  <2> QED BY <2>1, <2>2
<1> QED BY <1>1, <1>5, <1>7, <1>12, <1>13 DEF TreesFollow

LEMMA ReturnTrees == ASSUME IInv, TreesFollow, ReturnInner PROVE TreesFollow'
<1> DEFINE n == Len(calls) - 1
           at == Caller.at
<1>1. n \in Nat \ {0} /\ Len(calls) = n + 1 /\ calls \in Seq(Frm) /\ m_index \in Nat
      /\ left \in Tree /\ slice \in Seq(TokenTypes)
  <2>1. /\ calls \in Seq(Frm) /\ Len(calls) > 1 /\ left \in Tree /\ slice \in Seq(TokenTypes)
        /\ m_index \in 1..(Len(slice) + 1) /\ Len(calls) \in Nat
    BY DEF IInv, TypeOK, ReturnInner
  <2>2. n \in Nat \ {0} /\ Len(calls) = n + 1
    <3>1. \A i \in Nat : i > 1 => i - 1 \in Nat \ {0} /\ i = (i - 1) + 1
      OBVIOUS
    <3> QED BY <2>1, <3>1
  <2>3. Len(slice) \in Nat
    BY <2>1
  <2>4. m_index \in Nat
    BY <2>1, <2>3
  <2> QED BY <2>1, <2>2, <2>4
<1>2. Len(calls') = n /\ \A k \in 1..n : calls'[k] = calls[k]
  <2>1. calls' = SubSeq(calls, 1, Len(calls) - 1) /\ Len(calls) > 1
    BY DEF ReturnInner, Callers
  <2> QED BY <1>1, <2>1, PoppedCall
<1>3. Caller = calls[n] /\ Caller \in Frm
  BY <1>1 DEF Caller
<1>4. at # -1
  <2>1. ~CloseAhead
    BY DEF CloseAhead, More, IInv, TypeOK, NoClose
  <2> QED BY <2>1 DEF ReturnInner
<1>5. at \in Nat /\ at > 0
  <2>1. at # 0
    BY <1>1, <1>3 DEF IInv, Waiting
  <2> QED BY <1>3, <1>4, <2>1 DEF Frm
<1>6. /\ m_index' = m_index /\ left' = MakeBin(Caller.lhs, at, left) /\ ~Climbs
      /\ UNCHANGED <<slice, phase>> /\ phase = "loop"
  BY <1>5 DEF ReturnInner
<1> SUFFICES ASSUME ~Paren' PROVE TreesFollow'
  BY DEF TreesFollow
<1>7. ~Paren
  <2> SUFFICES ASSUME NEW k \in 1..n PROVE calls[k].at # -1
    BY <1>1 DEF Paren
  <2>1. CASE k = n
    BY <1>3, <1>4, <2>1
  <2>2. CASE k # n
    <3>1. k \in 1..(n - 1) /\ calls'[k] = calls[k]
      <4>1. k \in 1..n /\ n \in Nat /\ k # n
        BY <1>1, <2>2
      <4> HIDE DEF n
      <4> QED BY <1>2, <4>1
    <3> QED BY <1>2, <3>1 DEF Paren
  <2> QED BY <2>1, <2>2
<1>8. /\ \A k \in 1..n : Waits(calls, slice, k)
      /\ Has(slice, left, Running.min, From(calls, n + 1), m_index)
  BY <1>1, <1>6, <1>7 DEF TreesFollow
<1>9. From(calls, n + 1) = at + 1
  BY <1>1, <1>3 DEF From
<1> DEFINE lo == From(calls, n)
           p == Prec(slice[at])
<1>10. lo \in Nat
  BY <1>1, <1>7, FromType
<1> HIDE DEF lo
<1>11. /\ lo < at /\ at <= Len(slice) /\ Op(slice, at) /\ IsTree(slice, Caller.lhs, lo, at - 1)
       /\ AtLeast(slice, Caller.min, lo, at) /\ AtLeast(slice, p, lo, at - 1)
       /\ calls[n + 1].min = p + 1
  BY <1>1, <1>3, <1>8 DEF Waits, lo
<1>12. Running.min = p + 1 /\ p \in Int /\ p >= 0
  BY <1>1, <1>11, PrecFacts DEF Running, Op
<1>13. /\ at + 1 < m_index /\ IsTree(slice, left, at + 1, m_index - 1)
       /\ AtLeast(slice, p + 1, at + 1, m_index - 1)
       /\ (m_index <= Len(slice) /\ Op(slice, m_index)
             => AtLeast(slice, Prec(slice[m_index]), at + 1, m_index - 1))
  BY <1>8, <1>9, <1>12 DEF Has
<1>14. IsTree(slice, left', lo, m_index - 1)
  <2>1. Caller.lhs \in Tree
    BY <1>3 DEF Frm
  <2>2. m_index - 1 \in Nat /\ at < m_index - 1
    <3>1. m_index \in Nat /\ at + 1 < m_index
      BY <1>1, <1>13
    <3> HIDE DEF at
    <3> QED BY <3>1, <1>5
  <2> QED BY <1>1, <1>5, <1>6, <1>10, <1>11, <1>13, <2>1, <2>2, MakeTree
<1>15. Caller.min \in 0..81 /\ Caller.min <= p
  <2>1. Caller.min \in 0..81
    BY <1>3 DEF Frm
  <2>2. at \in lo..at
    BY <1>5, <1>10, <1>11
  <2> QED BY <1>11, <2>1, <2>2 DEF AtLeast
<1>16. ASSUME NEW q \in Int, q <= p PROVE AtLeast(slice, q, lo, m_index - 1)
  <2> SUFFICES ASSUME NEW k \in lo..(m_index - 1), Op(slice, k) PROVE Prec(slice[k]) >= q
    BY DEF AtLeast
  <2>1. k \in lo..(at - 1) \/ k = at \/ k \in (at + 1)..(m_index - 1)
    BY <1>5
  <2>2. Prec(slice[k]) \in Int
    BY PrecFacts
  <2>3. Prec(slice[k]) >= p
    <3>1. CASE k \in lo..(at - 1)
      BY <1>11, <3>1 DEF AtLeast
    <3>2. CASE k = at
      BY <1>12, <3>2
    <3>3. CASE k \in (at + 1)..(m_index - 1)
      <4>1. Prec(slice[k]) >= p + 1
        BY <1>13, <3>3 DEF AtLeast
      <4> HIDE DEF p
      <4> QED BY <1>12, <2>2, <4>1
    <3> QED BY <2>1, <3>1, <3>2, <3>3
  <2> HIDE DEF p
  <2> QED BY <1>12, <1>16, <2>2, <2>3
<1>17. ASSUME m_index <= Len(slice), Op(slice, m_index)
       PROVE  AtLeast(slice, Prec(slice[m_index]), lo, m_index - 1)
  <2>1. Prec(slice[m_index]) \in Int
    BY PrecFacts
  <2>2. Prec(slice[m_index]) <= p
    BY <1>1, <1>6, <1>12, <1>17, <2>1 DEF Climbs, More
  <2> QED BY <1>16, <2>1, <2>2
<1>18. Has(slice, left', Caller.min, lo, m_index)
  <2>1. lo < m_index
    BY <1>1, <1>5, <1>10, <1>11, <1>13
  <2>2. AtLeast(slice, Caller.min, lo, m_index - 1)
    BY <1>15, <1>16
  <2> QED BY <1>14, <1>17, <2>1, <2>2 DEF Has
<1>19. \A k \in 1..n : From(calls', k) = From(calls, k)
  BY <1>1, <1>2 DEF From
<1>20. \A k \in 1..(n - 1) : Waits(calls', slice, k)
  <2> SUFFICES ASSUME NEW k \in 1..(n - 1) PROVE Waits(calls', slice, k)
    OBVIOUS
  <2>1. k \in 1..n /\ k + 1 \in 1..n
    BY <1>1
  <2> QED BY <1>2, <1>8, <1>19, <2>1 DEF Waits
<1>21. Running' = Caller
  BY <1>1, <1>2, <1>3 DEF Running
<1>22. From(calls', n) = lo
  BY <1>1, <1>19 DEF lo
<1> QED BY <1>1, <1>2, <1>6, <1>18, <1>20, <1>21, <1>22 DEF TreesFollow

LEMMA TreesNext == IInv /\ TreesFollow /\ [Next]_vars => TreesFollow'
<1> SUFFICES ASSUME IInv, TreesFollow, [Next]_vars PROVE TreesFollow'
  OBVIOUS
<1>1. CASE Cut
  BY <1>1, CutTrees
<1>2. CASE Leaf
  BY <1>2, LeafTrees
<1>3. CASE OpenParen
  BY <1>3, OpenParenTrees
<1>4. CASE Climb
  BY <1>4, ClimbTrees
<1>5. CASE ReturnInner
  BY <1>5, ReturnTrees
<1>6. CASE Return
  <2>1. /\ phase = "loop" /\ Len(calls) = 1 /\ phase' = "parsed"
        /\ UNCHANGED <<slice, m_index, left>>
    BY <1>6 DEF Return
  <2>2. ~Paren /\ From(calls, Len(calls)) = 1
    BY <2>1 DEF Paren, From
  <2>3. IsTree(slice, left, 1, m_index - 1)
    BY <2>1, <2>2 DEF TreesFollow, Has
  <2> QED BY <2>1, <2>3 DEF TreesFollow, IsTree
<1>7. CASE Fail \/ Exit
  BY <1>7 DEF Fail, Exit, TreesFollow
<1>8. CASE UNCHANGED vars
  BY <1>8 DEF vars, TreesFollow, Paren, Running
<1> QED BY <1>1, <1>2, <1>3, <1>4, <1>5, <1>6, <1>7, <1>8 DEF Next, Step, Ended

(* What a call of parse_expr_prec_on_slice has parsed is the tree of the   *)
(* tokens behind the operator its caller waits at.                         *)
THEOREM TreesKept == Spec => []TreesFollow
<1>1. Init => TreesFollow
  BY DEF Init, TreesFollow
<1> QED BY <1>1, TreesNext, Invariance, PTL DEF Spec

(* A node of a tree has the ends that SpanOf picks: there are no others.   *)
LEMMA SpanUnique ==
  ASSUME NEW lo \in Nat, NEW hi \in Nat, NEW n \in Node, IsSpan(slice, n, lo, hi), Op(slice, n.at)
  PROVE  SpanOf(n.at, lo, hi) = n
<1> DEFINE k == n.at
           p == Prec(slice[k])
           L(l) == /\ \A j \in l..(k - 1) : slice[j] \in Operators => Prec(slice[j]) >= Prec(slice[k])
                   /\ l > lo => Prec(slice[l - 1]) \in 0..(Prec(slice[k]) - 1)
           H(h) == /\ \A j \in (k + 1)..h : slice[j] \in Operators => Prec(slice[j]) > Prec(slice[k])
                   /\ h < hi => Prec(slice[h + 1]) \in 0..Prec(slice[k])
<1>1. /\ n.lo \in Nat /\ k \in Nat /\ n.hi \in Nat /\ p \in Int
      /\ lo <= n.lo /\ n.lo <= k /\ k <= n.hi /\ n.hi <= hi
  BY PrecFacts DEF Node, IsSpan
<1>2. n.lo \in lo..k /\ L(n.lo)
  BY <1>1 DEF IsSpan, AtLeast, Op
<1>3. n.hi \in k..hi /\ H(n.hi)
  <2>1. ASSUME NEW j \in (k + 1)..n.hi, slice[j] \in Operators PROVE Prec(slice[j]) > p
    <3>1. Prec(slice[j]) >= p + 1 /\ Prec(slice[j]) \in Int
      BY <2>1, PrecFacts DEF IsSpan, AtLeast, Op
    <3> QED BY <1>1, <3>1
  <2> QED BY <1>1, <2>1 DEF IsSpan
<1>4. ASSUME NEW l \in lo..k, L(l) PROVE l = n.lo
  <2>1. CASE l < n.lo
    <3>1. n.lo - 1 \in l..(k - 1) /\ n.lo > lo
      BY <1>1, <2>1
    <3>2. Prec(slice[n.lo - 1]) \in 0..(p - 1)
      BY <1>2, <3>1
    <3>3. slice[n.lo - 1] \in Operators
      BY <3>2, PrecFacts
    <3> QED BY <1>1, <1>4, <3>1, <3>2, <3>3
  <2>2. CASE n.lo < l
    <3>1. l - 1 \in n.lo..(k - 1) /\ l > lo
      BY <1>1, <2>2
    <3>2. Prec(slice[l - 1]) \in 0..(p - 1)
      BY <1>4, <3>1
    <3>3. slice[l - 1] \in Operators
      BY <3>2, PrecFacts
    <3> QED BY <1>1, <1>2, <3>1, <3>2, <3>3
  <2> QED BY <1>1, <2>1, <2>2
<1>5. ASSUME NEW h \in k..hi, H(h) PROVE h = n.hi
  <2>1. CASE h < n.hi
    <3>1. h + 1 \in (k + 1)..n.hi /\ h < hi
      BY <1>1, <2>1
    <3>2. Prec(slice[h + 1]) \in 0..p
      BY <1>5, <3>1
    <3>3. slice[h + 1] \in Operators
      BY <3>2, PrecFacts
    <3> QED BY <1>1, <1>3, <3>1, <3>2, <3>3
  <2>2. CASE n.hi < h
    <3>1. n.hi + 1 \in (k + 1)..h /\ n.hi < hi
      BY <1>1, <2>2
    <3>2. Prec(slice[n.hi + 1]) \in 0..p
      BY <1>3, <3>1
    <3>3. slice[n.hi + 1] \in Operators
      BY <3>2, PrecFacts
    <3> QED BY <1>1, <1>5, <3>1, <3>2, <3>3
  <2> QED BY <1>1, <2>1, <2>2
<1> DEFINE cl == CHOOSE l \in lo..k : L(l)
           ch == CHOOSE h \in k..hi : H(h)
<1>6. cl = n.lo
  <2> HIDE DEF L
  <2> QED BY <1>2, <1>4
<1>7. ch = n.hi
  <2> HIDE DEF H
  <2> QED BY <1>3, <1>5
<1>8. SpanOf(k, lo, hi) = [lo |-> cl, at |-> k, hi |-> ch]
  BY DEF SpanOf
<1> HIDE DEF cl, ch
<1> QED BY <1>6, <1>7, <1>8 DEF Node

(* The tree that parse_expr_to_terminator returns is the one of the        *)
(* precedences and of left associativity, for every expression.            *)
THEOREM Climbing == Spec => []PrecedenceTree
<1>1. IInv /\ TreesFollow => PrecedenceTree
  <2> SUFFICES ASSUME IInv, TreesFollow, phase = "parsed"
               PROVE  /\ left.lo = 1 /\ left.hi = m_index - 1
                      /\ left.nodes = {SpanOf(k, 1, left.hi) :
                            k \in {j \in 1..left.hi : slice[j] \in Operators}}
    BY DEF PrecedenceTree
  <2>1. ~Paren
    BY DEF IInv, Idle, Paren
  <2>2. IsTree(slice, left, 1, m_index - 1) /\ left.lo = 1 /\ left.hi = m_index - 1
    BY <2>1 DEF TreesFollow, IsTree
  <2>3. left \in Tree /\ left.hi \in Nat
    BY DEF IInv, TypeOK, Tree
  <2> DEFINE hi == left.hi
             K == {j \in 1..hi : slice[j] \in Operators}
  <2>4. /\ \A n \in left.nodes : n \in Node /\ Op(slice, n.at) /\ IsSpan(slice, n, 1, hi)
        /\ \A k \in 1..hi : Op(slice, k) => \E n \in left.nodes : n.at = k
    BY <2>2, <2>3 DEF IsTree, Tree
  <2>5. \A n \in left.nodes : n.at \in K /\ SpanOf(n.at, 1, hi) = n
    <3> SUFFICES ASSUME NEW n \in left.nodes PROVE n.at \in K /\ SpanOf(n.at, 1, hi) = n
      OBVIOUS
    <3>1. n.at \in Nat /\ n.lo \in Nat /\ n.hi \in Nat
      BY <2>4 DEF Node
    <3>2. n.at \in 1..hi
      BY <2>3, <2>4, <3>1 DEF IsSpan
    <3> QED BY <2>3, <2>4, <3>2, SpanUnique DEF Op
  <2>6. \A k \in K : \E n \in left.nodes : n.at = k
    BY <2>4 DEF Op
  <2>7. left.nodes = {SpanOf(k, 1, hi) : k \in K}
    BY <2>5, <2>6
  <2> QED BY <2>2, <2>7
<1> QED BY <1>1, TreesKept, Invariance, PTL
-----------------------------------------------------------------------------
(* What is parsed depends on the tokens alone.                             *)

Alternating(sl, n) == \A k \in 1..n : sl[k] \in IF (k - 1) % 2 = 0 THEN Operands ELSE Operators
Cutout == /\ Len(slice) <= Len(m_tokens)
          /\ \A k \in 1..Len(slice) : slice[k] = m_tokens[k]
(* The tokens stop to alternate at i, which is no operand.                 *)
Blocked(sl, i) == (i - 1) % 2 = 0 /\ Alternating(sl, i - 1) /\ (i <= Len(sl) => sl[i] \notin Operands)
ChainFollows ==
  /\ Cutout
  /\ phase \in {"primary", "loop"} =>
       /\ calls[1].min = 0
       /\ IF Paren THEN \E i \in 1..(m_index - 1) : Blocked(slice, i)
          ELSE Alternating(slice, m_index - 1) /\ (m_index - 1) % 2 = IF phase = "loop" THEN 1 ELSE 0
  /\ phase = "parsed" => /\ Alternating(slice, m_index - 1) /\ (m_index - 1) % 2 = 1
                         /\ m_index <= Len(slice) => ~Op(slice, m_index)
  /\ phase = "exited" => \E i \in 1..(Len(slice) + 1) : Blocked(slice, i)

LEMMA PushedParen ==
  ASSUME IInv, OpenParen \/ Climb
  PROVE  /\ Paren' <=> Paren \/ OpenParen
         /\ calls'[1].min = calls[1].min /\ m_index' = m_index + 1
<1>1. /\ calls # <<>> /\ Len(calls) \in Nat \ {0} /\ calls \in Seq(Frm) /\ m_index \in Nat
  <2>1. calls \in Seq(Frm) /\ calls # <<>> /\ slice \in Seq(TokenTypes) /\ m_index \in 1..(Len(slice) + 1)
    BY DEF IInv, TypeOK, OpenParen, Climb
  <2>2. Len(slice) \in Nat
    BY <2>1
  <2> QED BY <2>1, <2>2
<1>2. Running = calls[Len(calls)] /\ Running \in Frm
  BY <1>1, RunningType DEF Running
<1>3. PICK f \in Frm, g \in Frm :
        /\ calls' = Append([calls EXCEPT ![Len(calls)] = f], g)
        /\ f.min = Running.min /\ (f.at = -1 <=> OpenParen)
  <2>1. CASE OpenParen
    <3> DEFINE f == [Running EXCEPT !.at = -1]
    <3>1. f \in Frm /\ f.min = Running.min /\ f.at = -1
      BY <1>2 DEF Frm
    <3>2. calls' = Append([calls EXCEPT ![Len(calls)] = f], Call(0))
      BY <1>1, <2>1 DEF OpenParen, Running
    <3> HIDE DEF f
    <3>3. Call(0) \in Frm
      BY CallTypes
    <3> QED BY <2>1, <3>1, <3>2, <3>3
  <2>2. CASE Climb
    <3> DEFINE f == [min |-> Running.min, lhs |-> left, at |-> m_index]
               m == NextMin(Prec(slice[m_index]))
    <3>1. f \in Frm /\ f.min = Running.min /\ f.at # -1
      BY <1>1, <1>2 DEF Frm, IInv, TypeOK
    <3>2. calls' = Append([calls EXCEPT ![Len(calls)] = f], Call(m))
      BY <1>1, <2>2 DEF Climb, Running
    <3>3. Call(m) \in Frm
      <4>1. Prec(slice[m_index]) \in 0..80
        <5>1. Running.min \in 0..81
          BY <1>2 DEF Frm
        <5>2. Prec(slice[m_index]) >= Running.min
          BY <2>2 DEF Climb, Climbs
        <5>3. Prec(slice[m_index]) \in Int /\ Prec(slice[m_index]) <= 80
          BY PrecFacts
        <5> QED BY <5>1, <5>2, <5>3
      <4>2. m \in 0..81
        BY <4>1 DEF NextMin
      <4> HIDE DEF m
      <4> QED BY <4>2, CallTypes
    <3>4. ~OpenParen
      BY <2>2 DEF Climb, OpenParen
    <3> HIDE DEF f, m
    <3> QED BY <3>1, <3>2, <3>3, <3>4
  <2> QED BY <2>1, <2>2
<1>4. /\ Len(calls') = Len(calls) + 1 /\ calls'[Len(calls)] = f
      /\ \A k \in 1..(Len(calls) - 1) : calls'[k] = calls[k]
  BY <1>1, <1>3, PushedCall
<1>5. calls'[1].min = calls[1].min
  <2>1. CASE Len(calls) = 1
    BY <1>2, <1>3, <1>4, <2>1
  <2>2. CASE Len(calls) # 1
    <3>1. \A i \in Nat \ {0} : i # 1 => 1 \in 1..(i - 1)
      OBVIOUS
    <3>2. 1 \in 1..(Len(calls) - 1)
      BY <1>1, <2>2, <3>1
    <3> QED BY <1>4, <3>2
  <2> QED BY <2>1, <2>2
<1>6. Paren' <=> \E k \in 1..Len(calls) : calls'[k].at = -1
  BY <1>1, <1>4 DEF Paren
<1>7. Paren => Paren'
  BY <1>1, <1>4, <1>6 DEF Paren
<1>8. OpenParen => Paren'
  BY <1>1, <1>3, <1>4, <1>6
<1>9. ASSUME Paren', ~OpenParen PROVE Paren
  <2>1. PICK k \in 1..Len(calls) : calls'[k].at = -1
    BY <1>6, <1>9
  <2>2. k # Len(calls)
    BY <1>3, <1>4, <1>9, <2>1
  <2>3. k \in 1..(Len(calls) - 1)
    BY <1>1, <2>1, <2>2
  <2> QED BY <1>4, <2>1, <2>3 DEF Paren
<1>10. m_index' = m_index + 1
  BY DEF OpenParen, Climb
<1> QED BY <1>5, <1>7, <1>8, <1>9, <1>10

LEMMA PoppedParen ==
  ASSUME IInv, ReturnInner
  PROVE  (Paren' <=> Paren) /\ calls'[1] = calls[1] /\ m_index' = m_index
<1>1. Len(calls) \in Nat /\ Len(calls) > 1 /\ calls \in Seq(Frm)
  BY DEF IInv, TypeOK, ReturnInner
<1>2. Len(calls') = Len(calls) - 1 /\ \A k \in 1..(Len(calls) - 1) : calls'[k] = calls[k]
  <2>1. calls' = SubSeq(calls, 1, Len(calls) - 1)
    BY DEF ReturnInner, Callers
  <2> QED BY <1>1, <2>1, PoppedCall
<1>3. Caller.at # -1
  <2>1. ~CloseAhead
    BY DEF CloseAhead, More, IInv, TypeOK, NoClose
  <2> QED BY <2>1 DEF ReturnInner
<1>4. Caller.at > 0 /\ m_index' = m_index
  <2>1. Caller \in Frm /\ Caller.at # 0
    BY <1>1 DEF IInv, Waiting, Caller
  <2>2. Caller.at > 0
    BY <1>3, <2>1 DEF Frm
  <2> QED BY <2>2 DEF ReturnInner
<1>5. Paren => Paren'
  <2> SUFFICES ASSUME NEW k \in 1..(Len(calls) - 1), calls[k].at = -1 PROVE Paren'
    BY DEF Paren
  <2>1. k # Len(calls) - 1
    BY <1>3 DEF Caller
  <2>2. k \in 1..(Len(calls') - 1)
    BY <1>1, <1>2, <2>1
  <2> QED BY <1>2, <2>2 DEF Paren
<1>6. Paren' => Paren
  <2> SUFFICES ASSUME NEW k \in 1..(Len(calls') - 1), calls'[k].at = -1 PROVE Paren
    BY DEF Paren
  <2>1. k \in 1..(Len(calls) - 1)
    BY <1>1, <1>2
  <2> QED BY <1>2, <2>1 DEF Paren
<1> QED BY <1>1, <1>2, <1>4, <1>5, <1>6

LEMMA ChainNext == IInv /\ ChainFollows /\ [Next]_vars => ChainFollows'
<1> SUFFICES ASSUME IInv, ChainFollows, [Next]_vars PROVE ChainFollows'
  OBVIOUS
<1>0. /\ m_index \in Nat \ {0} /\ m_index <= Len(slice) + 1 /\ Len(slice) \in Nat
      /\ slice \in Seq(TokenTypes) /\ m_tokens \in Seq(TokenTypes)
  <2>1. slice \in Seq(TokenTypes) /\ m_index \in 1..(Len(slice) + 1) /\ m_tokens \in Seq(TokenTypes)
    BY DEF IInv, TypeOK
  <2>2. Len(slice) \in Nat
    BY <2>1
  <2> QED BY <2>1, <2>2
<1>1. CASE Cut
  <2> DEFINE t == Terminator(m_tokens, 1)
  <2>1. /\ m_index' = 1 /\ calls' = <<Call(0)>> /\ phase' = "primary" /\ m_tokens' = m_tokens
        /\ slice' = SubSeq(m_tokens, 1, t - 1) /\ Terminators(m_tokens, 1) # {}
    BY <1>1 DEF IInv, Started, Cut, Cuttable
  <2>2. t \in 1..Len(m_tokens) /\ Len(m_tokens) \in Nat /\ Len(slice') = t - 1
    BY <1>0, <2>1, SliceProps
  <2> HIDE DEF t
  <2>3. Cutout'
    BY <1>0, <2>1, <2>2 DEF Cutout
  <2>4. calls'[1].min = 0 /\ ~Paren'
    BY <2>1 DEF Call, Paren
  <2>5. Alternating(slice', 0) /\ (1 - 1) % 2 = 0
    BY DEF Alternating
  <2> QED BY <2>1, <2>3, <2>4, <2>5 DEF ChainFollows
<1>2. CASE Leaf
  <2>1. /\ phase = "primary" /\ phase' = "loop" /\ m_index <= Len(slice) /\ m_index' = m_index + 1
        /\ slice[m_index] \in Operands /\ UNCHANGED <<m_tokens, slice, calls>>
    BY <1>2 DEF Leaf, More, Operands
  <2>2. (Paren' <=> Paren) /\ Cutout' /\ calls'[1].min = 0
    BY <2>1 DEF Paren, ChainFollows, Cutout
  <2>3. Paren => \E i \in 1..m_index : Blocked(slice, i)
    BY <1>0, <2>1 DEF ChainFollows
  <2>4. ~Paren => Alternating(slice, m_index) /\ m_index % 2 = 1
    <3> SUFFICES ASSUME ~Paren PROVE Alternating(slice, m_index) /\ m_index % 2 = 1
      OBVIOUS
    <3>1. Alternating(slice, m_index - 1) /\ (m_index - 1) % 2 = 0
      BY <2>1 DEF ChainFollows
    <3>2. m_index % 2 = 1
      BY <1>0, <3>1
    <3> QED BY <1>0, <2>1, <3>1, <3>2 DEF Alternating
  <2>5. m_index' - 1 = m_index
    BY <1>0, <2>1
  <2> QED BY <2>1, <2>2, <2>3, <2>4, <2>5 DEF ChainFollows
<1>3. CASE OpenParen
  <2>1. /\ phase = "primary" /\ phase' = "primary" /\ slice[m_index] = "open_paren"
        /\ UNCHANGED <<m_tokens, slice>>
    BY <1>3 DEF OpenParen
  <2>2. Paren' /\ Cutout' /\ calls'[1].min = 0 /\ m_index' - 1 = m_index
    <3>1. Paren' /\ calls'[1].min = calls[1].min /\ m_index' = m_index + 1
      BY <1>3, PushedParen
    <3>2. calls[1].min = 0 /\ Cutout
      BY <2>1 DEF ChainFollows
    <3>3. Cutout'
      BY <2>1, <3>2 DEF Cutout
    <3> QED BY <1>0, <3>1, <3>2, <3>3
  <2>3. Paren => \E i \in 1..m_index : Blocked(slice, i)
    BY <1>0, <2>1 DEF ChainFollows
  <2>4. ~Paren => Blocked(slice, m_index)
    BY <2>1 DEF ChainFollows, Blocked, Operands
  <2>5. \E i \in 1..m_index : Blocked(slice, i)
    BY <1>0, <2>3, <2>4
  <2> QED BY <2>1, <2>2, <2>5 DEF ChainFollows
<1>4. CASE Climb
  <2>1. /\ phase = "loop" /\ phase' = "primary" /\ m_index <= Len(slice)
        /\ UNCHANGED <<m_tokens, slice>>
    BY <1>4 DEF Climb, Climbs, More
  <2>2. slice[m_index] \in Operators
    <3>1. calls # <<>>
      BY <2>1 DEF IInv, TypeOK
    <3>2. Running.min \in 0..81
      BY <3>1, RunningType
    <3>3. Prec(slice[m_index]) >= Running.min /\ Prec(slice[m_index]) \in Int
      BY <1>4, PrecFacts DEF Climb, Climbs
    <3>4. Prec(slice[m_index]) >= 0
      BY <3>2, <3>3
    <3> QED BY <3>4, PrecFacts
  <2>3. (Paren' <=> Paren) /\ Cutout' /\ calls'[1].min = 0 /\ m_index' - 1 = m_index
    <3>1. ~OpenParen
      BY <2>1 DEF OpenParen
    <3>2. (Paren' <=> Paren) /\ calls'[1].min = calls[1].min /\ m_index' = m_index + 1
      BY <1>4, <3>1, PushedParen
    <3>3. calls[1].min = 0 /\ Cutout
      BY <2>1 DEF ChainFollows
    <3>4. Cutout'
      BY <2>1, <3>3 DEF Cutout
    <3> QED BY <1>0, <3>2, <3>3, <3>4
  <2>4. Paren => \E i \in 1..m_index : Blocked(slice, i)
    BY <1>0, <2>1 DEF ChainFollows
  <2>5. ~Paren => Alternating(slice, m_index) /\ m_index % 2 = 0
    <3> SUFFICES ASSUME ~Paren PROVE Alternating(slice, m_index) /\ m_index % 2 = 0
      OBVIOUS
    <3>1. Alternating(slice, m_index - 1) /\ (m_index - 1) % 2 = 1
      BY <2>1 DEF ChainFollows
    <3>2. m_index % 2 = 0
      BY <1>0, <3>1
    <3> QED BY <1>0, <2>2, <3>1, <3>2 DEF Alternating
  <2> QED BY <2>1, <2>3, <2>4, <2>5 DEF ChainFollows
<1>5. CASE ReturnInner
  <2>1. phase = "loop" /\ UNCHANGED <<m_tokens, slice, phase>>
    BY <1>5 DEF ReturnInner
  <2>2. (Paren' <=> Paren) /\ calls'[1] = calls[1] /\ m_index' = m_index
    BY <1>5, PoppedParen
  <2> QED BY <2>1, <2>2 DEF ChainFollows, Cutout
<1>6. CASE Return
  <2>1. /\ phase = "loop" /\ phase' = "parsed" /\ Len(calls) = 1 /\ ~Climbs
        /\ UNCHANGED <<m_tokens, slice, m_index>>
    BY <1>6 DEF Return
  <2>2. ~Paren /\ Running = calls[1]
    BY <2>1 DEF Paren, Running
  <2>3. m_index <= Len(slice) => ~Op(slice, m_index)
    <3>1. Running.min = 0
      BY <2>1, <2>2 DEF ChainFollows
    <3> QED BY <2>1, <3>1, PrecFacts DEF Climbs, More, Op
  <2> QED BY <2>1, <2>2, <2>3 DEF ChainFollows, Cutout
<1>7. CASE Exit
  <2>1. phase' = "exited" /\ UNCHANGED <<m_tokens, slice, m_index, calls>> /\ phase \in {"primary", "loop"}
    BY <1>7 DEF Exit
  <2>2. CASE Paren
    <3>1. \E i \in 1..(Len(slice) + 1) : Blocked(slice, i)
      BY <1>0, <2>1, <2>2 DEF ChainFollows
    <3> QED BY <2>1, <3>1 DEF ChainFollows, Cutout
  <2>3. CASE ~Paren
    <3>1. phase = "primary" /\ (m_index <= Len(slice) => slice[m_index] \notin Operands)
      <4>1. ASSUME Len(calls) > 1, Caller.at = -1 PROVE FALSE
        <5>1. Len(calls) \in Nat
          BY DEF IInv, TypeOK
        <5>2. Len(calls) - 1 \in 1..(Len(calls) - 1)
          BY <4>1, <5>1
        <5> QED BY <2>3, <4>1, <5>2 DEF Paren, Caller
      <4> QED BY <1>7, <4>1 DEF Exit, More, Operands
    <3>2. Blocked(slice, m_index)
      BY <2>3, <3>1 DEF ChainFollows, Blocked
    <3>3. m_index \in 1..(Len(slice) + 1)
      BY <1>0
    <3> QED BY <2>1, <3>2, <3>3 DEF ChainFollows, Cutout
  <2> QED BY <2>2, <2>3
<1>8. CASE Fail
  BY <1>8 DEF Fail, ChainFollows, Cutout
<1>9. CASE UNCHANGED vars
  BY <1>9 DEF vars, ChainFollows, Cutout, Paren
<1> QED BY <1>1, <1>2, <1>3, <1>4, <1>5, <1>6, <1>7, <1>8, <1>9 DEF Next, Step, Ended

(* Operands and operators alternate in what is parsed, and an expression   *)
(* is refused at a token that stands where an operand should.              *)
THEOREM ChainsKept == Spec => []ChainFollows
<1>1. Init => ChainFollows
  <2> SUFFICES ASSUME Init PROVE ChainFollows
    OBVIOUS
  <2>1. m_tokens \in Seq(TokenTypes) /\ slice = <<>> /\ phase = "scan"
    BY InputsAssumption DEF Init
  <2> QED BY <2>1 DEF ChainFollows, Cutout
<1> QED BY <1>1, ChainNext, Invariance, PTL DEF Spec

(* parse_expr_to_terminator returns a tree exactly when the tokens are     *)
(* operands with operators between them, up to the terminator or to a      *)
(* token that is no operator; otherwise it ends the process.               *)
THEOREM OutcomeKnown == Spec => []OutcomeByTokens
<1>1. IInv /\ ChainFollows => OutcomeByTokens
  <2> SUFFICES ASSUME IInv, ChainFollows, phase \in {"parsed", "exited"}
               PROVE  (phase = "parsed")
                        = \E h \in 2..(Len(slice) + 1) : Chain(m_tokens, 1, h, Len(slice) + 1)
    BY DEF OutcomeByTokens
  <2>0. /\ m_index \in Nat \ {0} /\ m_index <= Len(slice) + 1 /\ Len(slice) \in Nat
    <3>1. slice \in Seq(TokenTypes) /\ m_index \in 1..(Len(slice) + 1)
      BY DEF IInv, TypeOK
    <3>2. Len(slice) \in Nat
      BY <3>1
    <3> QED BY <3>1, <3>2
  <2>1. \A k \in 1..Len(slice) : slice[k] = m_tokens[k]
    BY DEF ChainFollows, Cutout
  <2>2. CASE phase = "parsed"
    <3>1. /\ Alternating(slice, m_index - 1) /\ (m_index - 1) % 2 = 1
          /\ (m_index <= Len(slice) => slice[m_index] \notin Operators)
      BY <2>2 DEF ChainFollows, Op
    <3>2. m_index \in 2..(Len(slice) + 1)
      BY <2>0, <3>1
    <3>3. \A k \in 1..(m_index - 1) :
            m_tokens[k] \in IF (k - 1) % 2 = 0 THEN Operands ELSE Operators
      <4> SUFFICES ASSUME NEW k \in 1..(m_index - 1)
                   PROVE  m_tokens[k] \in IF (k - 1) % 2 = 0 THEN Operands ELSE Operators
        OBVIOUS
      <4>1. k \in 1..Len(slice)
        BY <2>0
      <4>2. slice[k] \in IF (k - 1) % 2 = 0 THEN Operands ELSE Operators
        BY <3>1 DEF Alternating
      <4> QED BY <2>1, <4>1, <4>2
    <3>4. m_index < Len(slice) + 1 => m_tokens[m_index] \notin Operators
      <4>1. m_index < Len(slice) + 1 => m_index \in 1..Len(slice)
        BY <2>0
      <4> QED BY <2>0, <2>1, <3>1, <4>1
    <3>5. Chain(m_tokens, 1, m_index, Len(slice) + 1)
      BY <2>0, <3>1, <3>3, <3>4 DEF Chain
    <3> QED BY <2>2, <3>2, <3>5
  <2>3. CASE phase = "exited"
    <3>1. PICK i \in 1..(Len(slice) + 1) : Blocked(slice, i)
      BY <2>3 DEF ChainFollows
    <3>2. ASSUME NEW h \in 2..(Len(slice) + 1), Chain(m_tokens, 1, h, Len(slice) + 1) PROVE FALSE
      <4>1. /\ (h - 1) % 2 = 1 /\ (h < Len(slice) + 1 => m_tokens[h] \notin Operators)
            /\ \A k \in 1..(h - 1) :
                 m_tokens[k] \in IF (k - 1) % 2 = 0 THEN Operands ELSE Operators
        BY <3>2 DEF Chain
      <4>2. CASE i < h
        <5>1. i \in 1..(h - 1) /\ i \in 1..Len(slice) /\ (i - 1) % 2 = 0
          BY <2>0, <3>1, <4>2 DEF Blocked
        <5>2. m_tokens[i] \in Operands /\ slice[i] \notin Operands
          BY <3>1, <4>1, <5>1 DEF Blocked
        <5> QED BY <2>1, <5>1, <5>2
      <4>3. CASE h < i
        <5>1. h \in 1..(i - 1) /\ h \in 1..Len(slice) /\ (h - 1) % 2 = 1
          BY <2>0, <4>1, <4>3
        <5>2. slice[h] \in Operators
          BY <3>1, <5>1 DEF Blocked, Alternating
        <5> QED BY <2>0, <2>1, <4>1, <5>1, <5>2
      <4>4. i # h
        BY <3>1, <4>1 DEF Blocked
      <4> QED BY <4>2, <4>3, <4>4
    <3> QED BY <2>3, <3>2
  <2> QED BY <2>2, <2>3
<1> QED BY <1>1, ChainsKept, Invariance, PTL
=============================================================================
