---------------------------- MODULE ParserProofs ----------------------------
(***************************************************************************)
(* Theorems about the statement parser, for every set of inputs: it stays  *)
(* in the tokens, its statements nest, and it accepts the programs of the  *)
(* grammar and no others.                                                  *)
(***************************************************************************)
EXTENDS ParserProps, SequenceTheorems, Recursion

(* The running calls started one behind the other.                         *)
Chained ==
  \A k \in 1..Len(open) : /\ open[k].from < m_index
                          /\ \A j \in 1..(k - 1) : open[j].from < open[k].from

(* No node reaches behind the next token, and a statement that is still    *)
(* being parsed has a node inside it or in front of it.                    *)
NodesBehind ==
  \A n \in nodes : /\ n.from <= n.to /\ n.to <= m_index
                   /\ \A k \in 1..Len(open) : n.to <= open[k].from \/ open[k].from <= n.from
Apart(m, n) == \/ m.to <= n.from \/ n.to <= m.from
               \/ m.from <= n.from /\ n.to <= m.to
               \/ n.from <= m.from /\ m.to <= n.to
NodesNest == \A m, n \in nodes : Apart(m, n)

(* The statements of the program so far own their tokens.                  *)
Complete == IF open = <<>> THEN m_index ELSE open[1].from
Owned    == \A k \in 1..(Complete - 1) : \E n \in nodes : n.from <= k /\ k < n.to
AllRead  == status = "done" => open = <<>> /\ m_index = Len(m_tokens) + 1

IInv == TypeOK /\ Chained /\ NodesBehind /\ NodesNest /\ Owned /\ AllRead
-----------------------------------------------------------------------------
(* Types.                                                                  *)

LEMMA IndexType ==
  ASSUME TypeOK
  PROVE  /\ m_index \in Nat \ {0} /\ m_index <= Len(m_tokens) + 1 /\ Len(m_tokens) \in Nat
         /\ Len(open) \in Nat /\ DOMAIN open = 1..Len(open)
         /\ \A k \in 1..Len(open) : open[k] \in Frm /\ open[k].from \in Nat
         /\ \A n \in nodes : n.from \in Nat /\ n.to \in Nat
<1>1. /\ m_tokens \in Seq(TokenTypes) /\ m_index \in 1..(Len(m_tokens) + 1) /\ open \in Seq(Frm)
      /\ nodes \subseteq Nd
  BY DEF TypeOK
<1>2. Len(m_tokens) \in Nat /\ Len(open) \in Nat /\ DOMAIN open = 1..Len(open)
  BY <1>1
<1>3. m_index \in Nat \ {0} /\ m_index <= Len(m_tokens) + 1
  BY <1>1, <1>2
<1>4. \A k \in 1..Len(open) : open[k] \in Frm
  BY <1>1
<1> QED BY <1>1, <1>2, <1>3, <1>4 DEF Frm, Nd

LEMMA TypeFrom ==
  ASSUME m_tokens \in Seq(TokenTypes), m_index \in 1..(Len(m_tokens) + 1), open \in Seq(Frm),
         nodes \subseteq Nd, status \in Statuses, Chained
  PROVE  TypeOK
<1>1. Len(open) \in Nat /\ DOMAIN open = 1..Len(open)
  OBVIOUS
<1>2. ASSUME NEW k \in 1..Len(open)
      PROVE  open[k].from < IF k < Len(open) THEN open[k + 1].from ELSE m_index
  <2>1. k < Len(open) => k + 1 \in 1..Len(open) /\ k \in 1..((k + 1) - 1)
    BY <1>1
  <2> QED BY <2>1 DEF Chained
<1> QED BY <1>1, <1>2 DEF TypeOK

LEMMA NowRead ==
  ASSUME TypeOK, NEW i \in Nat, At(m_tokens, i) # "token_empty"
  PROVE  i \in 1..Len(m_tokens)
BY DEF TypeOK, At

(* What is left of a stack when its innermost entry returns.               *)
LEMMA FrontIs ==
  ASSUME NEW S, NEW op \in Seq(S), op # <<>>, NEW d, d = Len(op)
  PROVE  /\ d \in Nat \ {0} /\ SubSeq(op, 1, d - 1) \in Seq(S)
         /\ Len(SubSeq(op, 1, d - 1)) = d - 1
         /\ \A k \in 1..(d - 1) : SubSeq(op, 1, d - 1)[k] = op[k]
<1>1. d \in Nat \ {0} /\ \A k \in 1..(d - 1) : op[k] \in S
  OBVIOUS
<1>2. d - 1 \in Int /\ 1 \in Int /\ (1 <= d - 1 => (d - 1) - 1 + 1 = d - 1)
  BY <1>1
<1>3. ~(1 <= d - 1) => d - 1 = 0
  BY <1>1
<1>4. \A k \in 1..(d - 1) : k \in 1..((d - 1) - 1 + 1) /\ 1 + k - 1 = k
  BY <1>1
<1>5. /\ SubSeq(op, 1, d - 1) \in Seq(S)
      /\ Len(SubSeq(op, 1, d - 1)) = IF 1 <= d - 1 THEN (d - 1) - 1 + 1 ELSE 0
      /\ \A k \in 1..((d - 1) - 1 + 1) : SubSeq(op, 1, d - 1)[k] = op[1 + k - 1]
  BY <1>1, <1>2, SubSeqProperties
<1>6. \A k \in 1..(d - 1) : SubSeq(op, 1, d - 1)[k] = op[k]
  BY <1>4, <1>5
<1> QED BY <1>1, <1>2, <1>3, <1>5, <1>6

LEMMA NodeType ==
  ASSUME NEW k \in StmtKinds \cup {"ZERO"}, NEW f \in Nat, NEW t \in Nat
  PROVE  Node(k, f, t) \in Nd /\ Node(k, f, t).from = f /\ Node(k, f, t).to = t
BY DEF Node, Nd
-----------------------------------------------------------------------------
(* Every step keeps the invariant.                                         *)

LEMMA InitInv == Init => IInv
<1> SUFFICES ASSUME Init PROVE IInv
  OBVIOUS
<1>1. m_tokens \in Seq(TokenTypes) /\ m_index = 1 /\ open = <<>> /\ nodes = {} /\ status = "back"
  BY InputsAssumption DEF Init
<1>2. m_index \in 1..(Len(m_tokens) + 1) /\ open \in Seq(Frm) /\ Len(open) = 0
  BY <1>1
<1>3. Chained
  BY <1>2 DEF Chained
<1>4. TypeOK
  BY <1>1, <1>2, <1>3, TypeFrom DEF Statuses
<1> QED BY <1>1, <1>3, <1>4 DEF IInv, NodesBehind, NodesNest, Owned, Complete, AllRead

LEMMA StayInv ==
  ASSUME IInv, UNCHANGED <<m_tokens, m_index, open, nodes>>, status' \in Statuses,
         status' = "done" => open = <<>> /\ Now = "token_empty"
  PROVE  IInv'
<1>1. Chained' /\ NodesBehind' /\ NodesNest' /\ Owned'
  BY DEF IInv, Chained, NodesBehind, NodesNest, Owned, Complete
<1>2. TypeOK'
  BY DEF IInv, TypeOK
<1>3. AllRead'
  <2> SUFFICES ASSUME status' = "done" PROVE open' = <<>> /\ m_index' = Len(m_tokens') + 1
    BY DEF AllRead
  <2>1. m_tokens \in Seq(TokenTypes) /\ "token_empty" \notin TokenTypes
    BY DEF IInv, TypeOK, TokenTypes, Operators, Precedence, Values, Operands, DeclTypes
  <2>2. m_index \notin 1..Len(m_tokens)
    BY <2>1 DEF Now, At
  <2>3. m_index = Len(m_tokens) + 1
    BY <2>2, IndexType DEF IInv
  <2> QED BY <2>3
<1> QED BY <1>1, <1>2, <1>3 DEF IInv

(* A statement without a body, or none at all, from the next token on.     *)
LEMMA LeafInv ==
  ASSUME IInv, NEW kind \in StmtKinds \cup {"ZERO"}, m_index' \in m_index..(Len(m_tokens) + 1),
         nodes' = nodes \cup {Node(kind, m_index, m_index')}, UNCHANGED <<m_tokens, open>>,
         status' = "back"
  PROVE  IInv'
<1>1. /\ m_index \in Nat \ {0} /\ Len(m_tokens) \in Nat /\ Len(open) \in Nat
      /\ \A k \in 1..Len(open) : open[k].from \in Nat
      /\ \A n \in nodes : n.from \in Nat /\ n.to \in Nat
  BY IndexType DEF IInv
<1> DEFINE x == Node(kind, m_index, m_index')
<1>2. x \in Nd /\ x.from = m_index /\ x.to = m_index' /\ m_index' \in Nat /\ m_index <= m_index'
  <2>1. m_index' \in Nat /\ m_index <= m_index'
    BY <1>1
  <2> QED BY <1>1, <2>1, NodeType
<1> HIDE DEF x
<1>3. nodes' = nodes \cup {x}
  BY DEF x
<1>4. Chained'
  BY <1>1, <1>2 DEF IInv, Chained
<1>5. TypeOK'
  <2>1. m_index' \in 1..(Len(m_tokens') + 1) /\ status' \in Statuses
    BY <1>1, <1>2 DEF Statuses
  <2> QED BY <1>2, <1>3, <1>4, <2>1 DEF IInv, TypeOK, Chained
<1>6. NodesBehind'
  <2> SUFFICES ASSUME NEW n \in nodes'
               PROVE  /\ n.from <= n.to /\ n.to <= m_index'
                      /\ \A k \in 1..Len(open) : n.to <= open[k].from \/ open[k].from <= n.from
    BY DEF NodesBehind
  <2>1. CASE n \in nodes
    BY <1>1, <1>2, <2>1 DEF IInv, NodesBehind
  <2>2. CASE n = x
    BY <1>1, <1>2, <2>2 DEF IInv, Chained
  <2> QED BY <1>3, <2>1, <2>2
<1>7. NodesNest'
  <2>1. \A n \in nodes : Apart(n, x) /\ Apart(x, n)
    BY <1>2 DEF IInv, NodesBehind, Apart
  <2>2. Apart(x, x)
    BY <1>1, <1>2 DEF Apart
  <2> QED BY <1>3, <2>1, <2>2 DEF IInv, NodesNest
<1>8. Owned'
  <2> SUFFICES ASSUME NEW k \in 1..(Complete' - 1)
               PROVE  \E n \in nodes' : n.from <= k /\ k < n.to
    BY DEF Owned
  <2>1. CASE k \in 1..(Complete - 1)
    BY <1>3, <2>1 DEF IInv, Owned
  <2>2. CASE k \notin 1..(Complete - 1)
    <3>1. Complete = m_index /\ Complete' = m_index'
      BY <2>2 DEF Complete
    <3>2. k \in 1..(m_index' - 1) /\ k \notin 1..(m_index - 1)
      BY <2>2, <3>1
    <3>3. \A a, b \in Nat : \A j \in 1..(b - 1) : j \notin 1..(a - 1) => a <= j /\ j < b
      OBVIOUS
    <3>4. m_index <= k /\ k < m_index'
      BY <1>1, <1>2, <3>2, <3>3
    <3> QED BY <1>2, <1>3, <3>4
  <2> QED BY <2>1, <2>2
<1> QED BY <1>4, <1>5, <1>6, <1>7, <1>8 DEF IInv, AllRead

(* A call of parse_stmt calls itself.                                      *)
LEMMA PushInv ==
  ASSUME IInv, NEW f \in Frm, f.from = m_index, open' = Append(open, f),
         m_index' \in (m_index + 1)..(Len(m_tokens) + 1), UNCHANGED <<m_tokens, nodes>>,
         status' \in {"stmt", "back"}
  PROVE  IInv'
<1>1. /\ m_index \in Nat \ {0} /\ Len(m_tokens) \in Nat /\ Len(open) \in Nat
      /\ \A k \in 1..Len(open) : open[k].from \in Nat
      /\ \A n \in nodes : n.from \in Nat /\ n.to \in Nat
  BY IndexType DEF IInv
<1>2. m_index' \in Nat /\ m_index < m_index'
  BY <1>1
<1>3. /\ open' \in Seq(Frm) /\ Len(open') = Len(open) + 1 /\ open'[Len(open) + 1] = f
      /\ \A k \in 1..Len(open) : open'[k] = open[k]
  BY AppendProperties DEF IInv, TypeOK
<1>4. Chained'
  <2> SUFFICES ASSUME NEW k \in 1..Len(open')
               PROVE  /\ open'[k].from < m_index'
                      /\ \A j \in 1..(k - 1) : open'[j].from < open'[k].from
    BY DEF Chained
  <2>1. CASE k = Len(open) + 1
    BY <1>1, <1>2, <1>3, <2>1 DEF IInv, Chained
  <2>2. CASE k # Len(open) + 1
    <3>1. k \in 1..Len(open) /\ \A j \in 1..(k - 1) : j \in 1..Len(open)
      BY <1>1, <1>3, <2>2
    <3> QED BY <1>1, <1>2, <1>3, <3>1 DEF IInv, Chained
  <2> QED BY <2>1, <2>2
<1>5. TypeOK'
  <2>1. m_index' \in 1..(Len(m_tokens') + 1) /\ status' \in Statuses
    BY <1>1, <1>2 DEF Statuses
  <2> QED BY <1>3, <1>4, <2>1 DEF IInv, TypeOK, Chained
<1>6. NodesBehind'
  <2> SUFFICES ASSUME NEW n \in nodes
               PROVE  /\ n.from <= n.to /\ n.to <= m_index'
                      /\ \A k \in 1..Len(open') : n.to <= open'[k].from \/ open'[k].from <= n.from
    BY DEF NodesBehind
  <2>1. n.from <= n.to /\ n.to <= m_index
    BY DEF IInv, NodesBehind
  <2>2. \A k \in 1..Len(open') : k = Len(open) + 1 \/ k \in 1..Len(open)
    BY <1>1, <1>3
  <2>3. n.to <= m_index'
    BY <1>1, <1>2, <2>1
  <2>4. ASSUME NEW k \in 1..Len(open)
        PROVE  n.to <= open'[k].from \/ open'[k].from <= n.from
    <3>1. n.to <= open[k].from \/ open[k].from <= n.from
      BY DEF IInv, NodesBehind
    <3> QED BY <1>3, <3>1
  <2>5. n.to <= open'[Len(open) + 1].from
    BY <1>1, <1>2, <1>3, <2>1
  <2> QED BY <2>1, <2>2, <2>3, <2>4, <2>5
<1>7. Complete' = Complete
  <2>1. open' # <<>>
    BY <1>1, <1>3
  <2>2. CASE open = <<>>
    BY <1>3, <2>1, <2>2 DEF Complete
  <2>3. CASE open # <<>>
    <3>1. 1 \in 1..Len(open)
      BY <2>3 DEF IInv, TypeOK
    <3> QED BY <1>3, <2>1, <2>3, <3>1 DEF Complete
  <2> QED BY <2>2, <2>3
<1>8. NodesNest' /\ Owned' /\ AllRead'
  BY <1>7 DEF IInv, NodesNest, Owned, AllRead
<1> QED BY <1>4, <1>5, <1>6, <1>8 DEF IInv

(* The parts of a FOR.                                                     *)
LEMMA GoOnInv ==
  ASSUME IInv, open # <<>>, NEW part \in Parts, GoOn(part),
         m_index' \in m_index..(Len(m_tokens) + 1), UNCHANGED <<m_tokens, nodes>>,
         status' \in {"stmt", "back"}
  PROVE  IInv'
<1>1. /\ m_index \in Nat \ {0} /\ Len(m_tokens) \in Nat /\ Len(open) \in Nat /\ open \in Seq(Frm)
      /\ \A k \in 1..Len(open) : open[k] \in Frm /\ open[k].from \in Nat
      /\ \A n \in nodes : n.from \in Nat /\ n.to \in Nat
  BY IndexType DEF IInv, TypeOK
<1>2. m_index' \in Nat /\ m_index <= m_index'
  BY <1>1
<1>3. /\ open' \in Seq(Frm) /\ Len(open') = Len(open)
      /\ \A k \in 1..Len(open) : open'[k].from = open[k].from
  <2> DEFINE g == [open[Len(open)] EXCEPT !.part = part]
  <2>1. Len(open) \in 1..Len(open)
    BY <1>1
  <2>2. g \in Frm /\ g.from = open[Len(open)].from
    BY <1>1, <2>1 DEF Frm
  <2>3. open' = [open EXCEPT ![Len(open)] = g]
    BY DEF GoOn
  <2> HIDE DEF g
  <2> QED BY <1>1, <2>1, <2>2, <2>3
<1>4. Chained'
  <2> SUFFICES ASSUME NEW k \in 1..Len(open')
               PROVE  /\ open'[k].from < m_index'
                      /\ \A j \in 1..(k - 1) : open'[j].from < open'[k].from
    BY DEF Chained
  <2>1. k \in 1..Len(open) /\ \A j \in 1..(k - 1) : j \in 1..Len(open)
    BY <1>1, <1>3
  <2> QED BY <1>1, <1>2, <1>3, <2>1 DEF IInv, Chained
<1>5. TypeOK'
  <2>1. m_index' \in 1..(Len(m_tokens') + 1) /\ status' \in Statuses
    BY <1>1, <1>2 DEF Statuses
  <2> QED BY <1>3, <1>4, <2>1 DEF IInv, TypeOK, Chained
<1>6. NodesBehind'
  BY <1>1, <1>2, <1>3 DEF IInv, NodesBehind
<1>7. Complete' = Complete
  <2>1. 1 \in 1..Len(open) /\ open' # <<>>
    BY <1>1, <1>3
  <2> QED BY <1>3, <2>1 DEF Complete
<1>8. NodesNest' /\ Owned' /\ AllRead'
  BY <1>7 DEF IInv, NodesNest, Owned, AllRead
<1> QED BY <1>4, <1>5, <1>6, <1>8 DEF IInv

(* The end of a body: everything parsed since it began lies inside it.     *)
LEMMA CloseInv == ASSUME IInv, CloseBody PROVE IInv'
<1>1. /\ m_index \in Nat \ {0} /\ Len(m_tokens) \in Nat /\ Len(open) \in Nat \ {0}
      /\ open \in Seq(Frm)
      /\ \A k \in 1..Len(open) : open[k] \in Frm /\ open[k].from \in Nat
      /\ \A n \in nodes : n.from \in Nat /\ n.to \in Nat
  <2>1. open \in Seq(Frm) /\ open # <<>>
    BY DEF IInv, TypeOK, CloseBody
  <2>2. Len(open) \in Nat \ {0}
    BY <2>1
  <2> QED BY <2>1, <2>2, IndexType DEF IInv
<1> DEFINE x == Node(Caller.kind, Caller.from, m_index + 1)
           d == Len(open)
<1>2. m_index \in 1..Len(m_tokens)
  BY <1>1, NowRead DEF IInv, CloseBody, Now
<1>3. d \in 1..Len(open) /\ Caller = open[d]
  BY <1>1 DEF Caller
<1>4. x \in Nd /\ x.from = Caller.from /\ x.to = m_index + 1 /\ Caller.from < m_index
  <2>1. Caller.kind \in StmtKinds /\ Caller.from \in Nat
    BY <1>1, <1>3 DEF Frm, StmtKinds
  <2>2. Caller.from < m_index
    BY <1>3 DEF IInv, Chained
  <2> QED BY <1>1, <2>1, <2>2, NodeType
<1>5. /\ m_index' = m_index + 1 /\ open' = SubSeq(open, 1, d - 1) /\ UNCHANGED <<m_tokens, status>>
      /\ nodes' = nodes \cup {x} /\ status = "back"
  BY DEF CloseBody
<1>6. /\ open' \in Seq(Frm) /\ Len(open') = d - 1 /\ \A k \in 1..(d - 1) : open'[k] = open[k]
  <2>1. open \in Seq(Frm) /\ open # <<>> /\ d = Len(open)
    BY <1>1 DEF IInv, TypeOK
  <2> HIDE DEF d
  <2> QED BY <1>5, <2>1, FrontIs
<1> HIDE DEF x, d
<1>7. d \in Nat \ {0} /\ \A k \in 1..(d - 1) : k \in 1..Len(open) /\ k < d
  BY <1>1 DEF d
<1>8. Chained'
  <2> SUFFICES ASSUME NEW k \in 1..(d - 1)
               PROVE  /\ open'[k].from < m_index'
                      /\ \A j \in 1..(k - 1) : open'[j].from < open'[k].from
    BY <1>6 DEF Chained
  <2>1. \A j \in 1..(k - 1) : j \in 1..(d - 1)
    BY <1>7
  <2>2. open[k].from < m_index /\ open[k].from \in Nat
    BY <1>1, <1>7 DEF IInv, Chained
  <2>3. \A j \in 1..(k - 1) : open[j].from < open[k].from
    BY <1>7 DEF IInv, Chained
  <2>4. open'[k].from < m_index'
    BY <1>1, <1>5, <1>6, <2>2
  <2> QED BY <1>6, <2>1, <2>3, <2>4
<1>9. TypeOK'
  <2>1. m_index' \in 1..(Len(m_tokens') + 1) /\ nodes' \subseteq Nd
    BY <1>1, <1>2, <1>4, <1>5 DEF IInv, TypeOK
  <2>2. Len(open') \in Nat /\ DOMAIN open' = 1..Len(open')
    BY <1>6
  <2>3. ASSUME NEW k \in 1..Len(open')
        PROVE  open'[k].from < IF k < Len(open') THEN open'[k + 1].from ELSE m_index'
    <3>1. k < Len(open') => k + 1 \in 1..Len(open') /\ k \in 1..((k + 1) - 1)
      BY <2>2
    <3> QED BY <1>8, <3>1 DEF Chained
  <2>4. m_tokens' \in Seq(TokenTypes) /\ status' \in Statuses
    BY <1>5 DEF IInv, TypeOK
  <2> QED BY <1>6, <2>1, <2>2, <2>3, <2>4 DEF TypeOK
<1>10. NodesBehind'
  <2> SUFFICES ASSUME NEW n \in nodes'
               PROVE  /\ n.from <= n.to /\ n.to <= m_index + 1
                      /\ \A k \in 1..(d - 1) : n.to <= open[k].from \/ open[k].from <= n.from
    BY <1>5, <1>6 DEF NodesBehind
  <2>1. CASE n \in nodes
    BY <1>1, <1>7, <2>1 DEF IInv, NodesBehind
  <2>2. CASE n = x
    <3>1. \A k \in 1..(d - 1) : k \in 1..(d - 1) /\ open[k].from < Caller.from
      BY <1>3, <1>7 DEF IInv, Chained
    <3>2. Caller.from \in Nat /\ \A k \in 1..(d - 1) : open[k].from \in Nat
      BY <1>1, <1>3, <1>7
    <3> QED BY <1>1, <1>4, <2>2, <3>1, <3>2
  <2> QED BY <1>5, <2>1, <2>2
<1>11. NodesNest'
  <2>1. \A n \in nodes : Apart(n, x) /\ Apart(x, n)
    <3> SUFFICES ASSUME NEW n \in nodes PROVE Apart(n, x) /\ Apart(x, n)
      OBVIOUS
    <3>1. n.to <= Caller.from \/ Caller.from <= n.from
      BY <1>3 DEF IInv, NodesBehind
    <3>2. n.to <= m_index
      BY DEF IInv, NodesBehind
    <3> QED BY <1>1, <1>4, <3>1, <3>2 DEF Apart
  <2>2. Apart(x, x)
    BY <1>1, <1>3, <1>4 DEF Apart
  <2> QED BY <1>5, <2>1, <2>2 DEF IInv, NodesNest
<1>12. Owned'
  <2> SUFFICES ASSUME NEW k \in 1..(Complete' - 1)
               PROVE  \E n \in nodes' : n.from <= k /\ k < n.to
    BY DEF Owned
  <2>1. CASE k \in 1..(Complete - 1)
    BY <1>5, <2>1 DEF IInv, Owned
  <2>2. CASE k \notin 1..(Complete - 1)
    <3>1. d = 1
      <4> SUFFICES ASSUME d # 1 PROVE FALSE
        OBVIOUS
      <4>1. 1 \in 1..(d - 1) /\ open # <<>> /\ open' # <<>>
        BY <1>1, <1>6, <1>7
      <4>2. Complete' = Complete
        BY <1>6, <4>1 DEF Complete
      <4> QED BY <2>2, <4>2
    <3>2. open # <<>> /\ open' = <<>>
      BY <1>1, <1>6, <3>1
    <3>3. Complete = x.from /\ Complete' = x.to
      BY <1>3, <1>4, <1>5, <3>1, <3>2 DEF Complete
    <3>4. x.from <= k /\ k < x.to
      BY <1>1, <1>3, <1>4, <2>2, <3>3
    <3> QED BY <1>5, <3>4
  <2> QED BY <2>1, <2>2
<1> QED BY <1>5, <1>8, <1>9, <1>10, <1>11, <1>12 DEF IInv, AllRead

LEMMA NextInv == ASSUME IInv, [Next]_vars PROVE IInv'
<1>1. /\ m_index \in Nat \ {0} /\ m_index <= Len(m_tokens) + 1 /\ Len(m_tokens) \in Nat
      /\ open # <<>> => Len(open) \in 1..Len(open)
  <2>1. open \in Seq(Frm)
    BY DEF IInv, TypeOK
  <2>2. open # <<>> => Len(open) \in Nat \ {0}
    BY <2>1
  <2> QED BY <2>2, IndexType DEF IInv
<1>2. status \in Statuses
  BY DEF IInv, TypeOK
<1>3. CASE Again
  <2>1. UNCHANGED <<m_tokens, m_index, open, nodes>> /\ status' \in Statuses /\ status' # "done"
    BY <1>3 DEF Again, Statuses
  <2> QED BY <2>1, StayInv
<1>4. CASE ParseLeaf
  <2>1. PICK kind \in LeafKinds, e \in (m_index + 1)..(Len(m_tokens) + 1) :
          nodes' = nodes \cup {Node(kind, m_index, e)} /\ m_index' = e
    BY <1>4 DEF ParseLeaf
  <2>2. /\ kind \in StmtKinds \cup {"ZERO"} /\ m_index' \in m_index..(Len(m_tokens) + 1)
        /\ nodes' = nodes \cup {Node(kind, m_index, m_index')}
    BY <1>1, <2>1 DEF StmtKinds
  <2>3. UNCHANGED <<m_tokens, open>> /\ status' = "back"
    BY <1>4 DEF ParseLeaf
  <2> QED BY <2>2, <2>3, LeafInv
<1>5. CASE OpenBody
  <2>1. PICK kind \in BodyKinds, e \in (m_index + 1)..(Len(m_tokens) + 1) :
          /\ open' = Append(open, [kind |-> kind, from |-> m_index, part |-> "body"])
          /\ m_index' = e
    BY <1>5 DEF OpenBody
  <2>2. UNCHANGED <<m_tokens, nodes>> /\ status' = "back"
    BY <1>5 DEF OpenBody
  <2> DEFINE f == [kind |-> kind, from |-> m_index, part |-> "body"]
  <2>3. f \in Frm /\ f.from = m_index /\ open' = Append(open, f)
    BY <1>1, <2>1 DEF Frm, Parts
  <2> HIDE DEF f
  <2> QED BY <2>1, <2>2, <2>3, PushInv
<1>6. CASE OpenFor
  <2>1. m_index + 1 \in 1..Len(m_tokens)
    BY <1>1, <1>6, NowRead DEF OpenFor, IInv
  <2>2. m_index' \in (m_index + 1)..(Len(m_tokens) + 1)
    BY <1>1, <1>6, <2>1 DEF OpenFor
  <2>3. UNCHANGED <<m_tokens, nodes>> /\ status' = "stmt"
    BY <1>6 DEF OpenFor
  <2> DEFINE f == [kind |-> "FOR", from |-> m_index, part |-> "init"]
  <2>4. f \in Frm /\ f.from = m_index /\ open' = Append(open, f)
    BY <1>1, <1>6 DEF OpenFor, Frm, Parts
  <2> HIDE DEF f
  <2> QED BY <2>2, <2>3, <2>4, PushInv
<1>7. CASE AfterInit
  <2>1. m_index' \in m_index..(Len(m_tokens) + 1)
    BY <1>1, <1>7 DEF AfterInit
  <2>2. open # <<>> /\ "step" \in Parts /\ GoOn("step")
    BY <1>7 DEF AfterInit, Part, Parts
  <2>3. UNCHANGED <<m_tokens, nodes>> /\ status' = "stmt"
    BY <1>7 DEF AfterInit
  <2> QED BY <2>1, <2>2, <2>3, GoOnInv
<1>8. CASE AfterStep
  <2>1. m_index \in 1..Len(m_tokens)
    BY <1>1, <1>8, NowRead DEF AfterStep, Now, IInv
  <2>2. m_index' \in m_index..(Len(m_tokens) + 1)
    BY <1>1, <1>8, <2>1 DEF AfterStep
  <2>3. open # <<>> /\ "body" \in Parts /\ GoOn("body")
    BY <1>8 DEF AfterStep, Part, Parts
  <2>4. UNCHANGED <<m_tokens, nodes>> /\ status' = "back"
    BY <1>8 DEF AfterStep
  <2> QED BY <2>2, <2>3, <2>4, GoOnInv
<1>9. CASE CloseBody
  BY <1>9, CloseInv
<1>10. CASE NoStatement
  <2>1. /\ nodes' = nodes \cup {Node("ZERO", m_index, m_index')}
        /\ m_index' \in m_index..(Len(m_tokens) + 1) /\ "ZERO" \in StmtKinds \cup {"ZERO"}
        /\ UNCHANGED <<m_tokens, open>> /\ status' = "back"
    BY <1>1, <1>10 DEF NoStatement
  <2> QED BY <2>1, LeafInv
<1>11. CASE Return
  <2>1. /\ UNCHANGED <<m_tokens, m_index, open, nodes>> /\ status' \in Statuses
        /\ status' = "done" => open = <<>> /\ Now = "token_empty"
    BY <1>11 DEF Return, Statuses, Final
  <2> QED BY <2>1, StayInv
<1>12. CASE Overrun \/ Exit
  <2>1. UNCHANGED <<m_tokens, m_index, open, nodes>> /\ status' \in Statuses /\ status' # "done"
    BY <1>12 DEF Overrun, Exit, Statuses, Final
  <2> QED BY <2>1, StayInv
<1>13. CASE UNCHANGED vars
  BY <1>13 DEF vars, IInv, TypeOK, Chained, NodesBehind, NodesNest, Owned, Complete, AllRead
<1> QED BY <1>3, <1>4, <1>5, <1>6, <1>7, <1>8, <1>9, <1>10, <1>11, <1>12, <1>13
        DEF Next, Step, Ended
-----------------------------------------------------------------------------
(* The invariant of the statement parser holds in every behaviour.         *)
THEOREM Invariance == Spec => []IInv
<1>1. IInv /\ [Next]_vars => IInv'
  BY NextInv
<1> QED BY InitInv, <1>1, PTL DEF Spec

(* parse_prog never leaves the tokens, and each of its running calls       *)
(* started in front of the one it made.                                    *)
THEOREM TypeCorrect == Spec => []TypeOK
<1>1. IInv => TypeOK
  BY DEF IInv
<1> QED BY Invariance, <1>1, PTL

(* The statements nest, and own every token of a program that is accepted. *)
THEOREM SpansNested == Spec => []SpansNest
<1>1. IInv => SpansNest
  <2> SUFFICES ASSUME IInv PROVE SpansNest
    OBVIOUS
  <2>1. \A m, n \in nodes : Apart(m, n)
    BY DEF IInv, NodesNest
  <2>2. ASSUME status = "done", NEW k \in DOMAIN m_tokens
        PROVE  \E n \in nodes : n.from <= k /\ k < n.to
    <3>1. Complete = Len(m_tokens) + 1 /\ k \in 1..((Len(m_tokens) + 1) - 1)
      BY <2>2, IndexType DEF IInv, AllRead, Complete, TypeOK
    <3> QED BY <3>1 DEF IInv, Owned
  <2> QED BY <2>1, <2>2 DEF SpansNest, Apart
<1> QED BY Invariance, <1>1, PTL
-----------------------------------------------------------------------------
(***************************************************************************)
(* The grammar is well defined: what a phrase is depends on shorter        *)
(* phrases, and, a body, on statements of its length.                      *)
(***************************************************************************)
Rank(p) == IF p[1] = "stmt" THEN 2 * (p[3] - p[2]) ELSE 2 * (p[3] - p[2]) + 1

LEMMA PhraseType ==
  ASSUME NEW ts, Len(ts) \in Nat, NEW p \in Phrases(ts)
  PROVE  /\ p[1] \in {"stmt", "body"} /\ p[2] \in Nat \ {0} /\ p[3] \in Nat /\ p[2] <= p[3]
         /\ p[3] <= Len(ts) + 1 /\ Rank(p) \in Nat
<1>1. p[1] \in {"stmt", "body"} /\ p[2] \in Places(ts) /\ p[3] \in Places(ts) /\ p[2] <= p[3]
  BY DEF Phrases
<1>2. p[2] \in Nat \ {0} /\ p[3] \in Nat /\ p[3] <= Len(ts) + 1
  BY <1>1 DEF Places
<1>3. p[3] - p[2] \in Nat
  BY <1>1, <1>2
<1>4. Rank(p) \in Nat
  BY <1>3 DEF Rank
<1> QED BY <1>1, <1>2, <1>4

LEMMA PhraseIs ==
  ASSUME NEW ts, Len(ts) \in Nat, NEW w \in {"stmt", "body"}, NEW i \in Nat \ {0}, NEW e \in Nat,
         i <= e, e <= Len(ts) + 1
  PROVE  /\ <<w, i, e>> \in Phrases(ts)
         /\ Rank(<<w, i, e>>) = IF w = "stmt" THEN 2 * (e - i) ELSE 2 * (e - i) + 1
<1>1. i \in Places(ts) /\ e \in Places(ts)
  BY DEF Places
<1>2. <<w, i, e>> \in Phrases(ts)
  BY <1>1 DEF Phrases
<1> QED BY <1>2 DEF Rank

(* A rule looks only at phrases of a lower rank.                           *)
Alike(d, f, ts, n) == \A q \in Phrases(ts) : Rank(q) < n => d[q] = f[q]

LEMMA ClauseLocal ==
  ASSUME NEW ts, Len(ts) \in Nat, NEW n \in Nat, NEW d, NEW f, Alike(d, f, ts, n),
         NEW i \in Nat \ {0}, NEW e \in Nat, i <= e, e <= Len(ts) + 1, 2 * (e - i) < n,
         Clause(d, ts, i, e)
  PROVE  Clause(f, ts, i, e)
<1>1. d[<<"stmt", i, e>>] = f[<<"stmt", i, e>>]
  BY PhraseIs DEF Alike
<1> QED BY <1>1 DEF Clause

LEMMA ForHeadLocal ==
  ASSUME NEW ts, Len(ts) \in Nat, NEW n \in Nat, NEW d, NEW f, Alike(d, f, ts, n),
         NEW i \in Nat \ {0}, NEW h \in Nat, h <= Len(ts) + 1, 2 * (h - i) <= n,
         ForHead(d, ts, i, h)
  PROVE  ForHead(f, ts, i, h)
<1> DEFINE Split(a, b) == /\ Clause(d, ts, i + 2, a)
                          /\ OptionalValue(ts, a, b) /\ At(ts, b) = "semi"
                          /\ Clause(d, ts, b + 1, h - 1) /\ At(ts, h - 1) = "open_braces"
<1>0. PICK a \in (i + 2)..h : \E b \in a..(h - 2) : Split(a, b)
  BY DEF ForHead
<1>1. PICK b \in a..(h - 2) : Split(a, b)
  BY <1>0
<1>2. /\ a \in Nat \ {0} /\ b \in Nat /\ i + 2 <= a /\ a <= b /\ b + 1 <= h - 1
      /\ i + 2 \in Nat \ {0} /\ b + 1 \in Nat \ {0} /\ h - 1 \in Nat
      /\ a <= Len(ts) + 1 /\ h - 1 <= Len(ts) + 1
  OBVIOUS
<1>3. 2 * (a - (i + 2)) < n /\ 2 * ((h - 1) - (b + 1)) < n
  BY <1>2
<1>4. Clause(f, ts, i + 2, a) /\ Clause(f, ts, b + 1, h - 1)
  BY <1>1, <1>2, <1>3, ClauseLocal
<1> QED BY <1>1, <1>4 DEF ForHead

LEMMA RuleGoes ==
  ASSUME NEW ts, Len(ts) \in Nat, NEW d, NEW f, NEW p \in Phrases(ts), Alike(d, f, ts, Rank(p)),
         Rule(d, ts, p)
  PROVE  Rule(f, ts, p)
<1> DEFINE i == p[2]
           e == p[3]
<1>1. /\ p[1] \in {"stmt", "body"} /\ i \in Nat \ {0} /\ e \in Nat /\ i <= e
      /\ e <= Len(ts) + 1 /\ Rank(p) \in Nat
  BY PhraseType
<1>2. CASE p[1] = "stmt"
  <2>1. Rank(p) = 2 * (e - i) /\ StmtRule(d, ts, i, e)
    BY <1>2 DEF Rank, Rule
  <2> HIDE DEF i, e
  <2>2. CASE \E kind \in LeafKinds : LeafStmt(ts, kind, i, e)
    BY <1>2, <2>2 DEF Rule, StmtRule, i, e
  <2>3. CASE /\ e > i /\ At(ts, e - 1) = "close_braces"
             /\ \E h \in (i + 1)..(e - 1) :
                  /\ ForHead(d, ts, i, h) \/ \E kind \in BodyKinds : BodyHead(ts, kind, i, h)
                  /\ d[<<"body", h, e - 1>>]
    <3>1. PICK h \in (i + 1)..(e - 1) :
            /\ ForHead(d, ts, i, h) \/ \E kind \in BodyKinds : BodyHead(ts, kind, i, h)
            /\ d[<<"body", h, e - 1>>]
      BY <2>3
    <3>2. /\ h \in Nat \ {0} /\ e - 1 \in Nat /\ h <= e - 1 /\ e - 1 <= Len(ts) + 1
          /\ 2 * ((e - 1) - h) + 1 < 2 * (e - i) /\ 2 * (h - i) <= 2 * (e - i)
          /\ h <= Len(ts) + 1
      BY <1>1
    <3>3. f[<<"body", h, e - 1>>]
      BY <1>1, <2>1, <3>1, <3>2, PhraseIs DEF Alike
    <3>4. ForHead(d, ts, i, h) => ForHead(f, ts, i, h)
      BY <1>1, <2>1, <3>2, ForHeadLocal
    <3>5. StmtRule(f, ts, i, e)
      BY <2>3, <3>1, <3>3, <3>4 DEF StmtRule
    <3> QED BY <1>2, <3>5 DEF Rule, i, e
  <2> QED BY <2>1, <2>2, <2>3 DEF StmtRule
<1>3. CASE p[1] = "body"
  <2>1. Rank(p) = 2 * (e - i) + 1 /\ BodyRule(d, ts, i, e)
    BY <1>3 DEF Rank, Rule
  <2> HIDE DEF i, e
  <2>2. CASE i = e
    BY <1>3, <2>2 DEF Rule, BodyRule, i, e
  <2>3. CASE i # e
    <3>1. PICK k \in (i + 1)..e : d[<<"stmt", i, k>>] /\ d[<<"body", k, e>>]
      BY <2>1, <2>3 DEF BodyRule
    <3>2. /\ k \in Nat \ {0} /\ i <= k /\ k <= e /\ k <= Len(ts) + 1
          /\ 2 * (k - i) < 2 * (e - i) + 1 /\ 2 * (e - k) + 1 < 2 * (e - i) + 1
      BY <1>1
    <3>3. f[<<"stmt", i, k>>]
      BY <1>1, <2>1, <3>1, <3>2, PhraseIs DEF Alike
    <3>5. f[<<"body", k, e>>]
      BY <1>1, <2>1, <3>1, <3>2, PhraseIs DEF Alike
    <3>4. BodyRule(f, ts, i, e)
      BY <3>3, <3>5 DEF BodyRule
    <3> QED BY <1>3, <3>4 DEF Rule, i, e
  <2> QED BY <2>2, <2>3
<1> QED BY <1>1, <1>2, <1>3

LEMMA RuleLocal ==
  ASSUME NEW ts, Len(ts) \in Nat, NEW d, NEW f, NEW p \in Phrases(ts), Alike(d, f, ts, Rank(p))
  PROVE  Rule(d, ts, p) = Rule(f, ts, p)
<1>1. \A g : Rule(g, ts, p) \in BOOLEAN
  BY DEF Rule, StmtRule, BodyRule
<1>2. Rank(p) \in Nat /\ Alike(f, d, ts, Rank(p))
  BY PhraseType DEF Alike
<1>3. Rule(d, ts, p) <=> Rule(f, ts, p)
  BY <1>2, RuleGoes
<1> QED BY <1>1, <1>3

(* A function that obeys the rules for the phrases of a rank below n.      *)
Partial(g, ts, n) == \A q \in Phrases(ts) : Rank(q) < n => g[q] = Rule(g, ts, q)

LEMMA PartialUnique ==
  ASSUME NEW ts, Len(ts) \in Nat, NEW m \in Nat, NEW n \in Nat, NEW g, NEW h,
         Partial(g, ts, m), Partial(h, ts, n), NEW p \in Phrases(ts), Rank(p) < m, Rank(p) < n
  PROVE  g[p] = h[p]
<1> DEFINE Bad == {q \in Phrases(ts) : Rank(q) < m /\ Rank(q) < n /\ g[q] # h[q]}
           T   == {Rank(q) : q \in Bad}
<1> SUFFICES ASSUME p \in Bad PROVE FALSE
  OBVIOUS
<1>1. T \subseteq Nat /\ T # {}
  BY PhraseType
<1>2. PICK u \in T : \A v \in T : u <= v
  BY <1>1, LeastNat
<1>3. PICK q \in Bad : Rank(q) = u
  OBVIOUS
<1>4. Alike(g, h, ts, Rank(q))
  <2> SUFFICES ASSUME NEW r \in Phrases(ts), Rank(r) < Rank(q), g[r] # h[r] PROVE FALSE
    BY DEF Alike
  <2>1. Rank(r) \in Nat /\ Rank(q) \in Nat
    BY PhraseType
  <2>2. Rank(r) \in T
    BY <2>1, <1>3
  <2>3. Rank(q) <= Rank(r)
    <3> HIDE DEF T
    <3> QED BY <1>2, <1>3, <2>2
  <2> QED BY <2>1, <2>3
<1>5. Rule(g, ts, q) = Rule(h, ts, q)
  BY <1>4, RuleLocal
<1> QED BY <1>5 DEF Partial

LEMMA PartialExists ==
  ASSUME NEW ts, Len(ts) \in Nat, NEW n \in Nat
  PROVE  \E g : Partial(g, ts, n)
<1> DEFINE T == {m \in Nat : ~\E g : Partial(g, ts, m)}
<1> SUFFICES ASSUME T # {} PROVE FALSE
  OBVIOUS
<1>1. PICK m \in T : \A v \in T : m <= v
  BY LeastNat
<1>2. m # 0
  <2>1. \A g : Partial(g, ts, 0)
    BY PhraseType DEF Partial
  <2> QED BY <2>1
<1>3. m - 1 \in Nat /\ m - 1 \notin T
  BY <1>1, <1>2
<1>4. PICK g : Partial(g, ts, m - 1)
  BY <1>3
<1> DEFINE h == [q \in Phrases(ts) |-> Rule(g, ts, q)]
<1>5. \A q \in Phrases(ts) : h[q] = Rule(g, ts, q)
  OBVIOUS
<1> HIDE DEF h
<1>6. ASSUME NEW q \in Phrases(ts), Rank(q) < m
      PROVE  h[q] = Rule(h, ts, q)
  <2>1. Alike(g, h, ts, Rank(q))
    <3> SUFFICES ASSUME NEW r \in Phrases(ts), Rank(r) < Rank(q) PROVE g[r] = h[r]
      BY DEF Alike
    <3>1. Rank(r) \in Nat /\ Rank(q) \in Nat
      BY PhraseType
    <3>2. Rank(r) < m - 1
      BY <1>6, <3>1
    <3> QED BY <1>4, <1>5, <3>2 DEF Partial
  <2> QED BY <1>5, <2>1, RuleLocal
<1>7. Partial(h, ts, m)
  BY <1>6 DEF Partial
<1> QED BY <1>7

LEMMA DerivesByRule ==
  ASSUME NEW ts, Len(ts) \in Nat
  PROVE  \A p \in Phrases(ts) : Derives(ts)[p] = Rule(Derives(ts), ts, p)
<1> DEFINE G(p) == CHOOSE g : Partial(g, ts, Rank(p) + 1)
           F    == [p \in Phrases(ts) |-> G(p)[p]]
<1>1. \A p \in Phrases(ts) : Rank(p) \in Nat /\ Partial(G(p), ts, Rank(p) + 1)
  <2> SUFFICES ASSUME NEW p \in Phrases(ts)
               PROVE  Rank(p) \in Nat /\ Partial(G(p), ts, Rank(p) + 1)
    OBVIOUS
  <2>1. Rank(p) \in Nat /\ Rank(p) + 1 \in Nat
    BY PhraseType
  <2>2. \E g : Partial(g, ts, Rank(p) + 1)
    BY <2>1, PartialExists
  <2> QED BY <2>1, <2>2
<1>2. \A p \in Phrases(ts) : F[p] = G(p)[p]
  OBVIOUS
<1> HIDE DEF G
<1>3. \A p \in Phrases(ts) : F[p] = Rule(F, ts, p)
  <2> SUFFICES ASSUME NEW p \in Phrases(ts) PROVE F[p] = Rule(F, ts, p)
    OBVIOUS
  <2> HIDE DEF F
  <2>1. Rank(p) \in Nat /\ Rank(p) < Rank(p) + 1
    BY <1>1
  <2>2. F[p] = Rule(G(p), ts, p)
    BY <1>1, <1>2, <2>1 DEF Partial
  <2>3. Alike(G(p), F, ts, Rank(p))
    <3> SUFFICES ASSUME NEW r \in Phrases(ts), Rank(r) < Rank(p) PROVE G(p)[r] = F[r]
      BY DEF Alike
    <3>1. Rank(r) \in Nat /\ Rank(r) < Rank(p) + 1 /\ Rank(r) < Rank(r) + 1
          /\ Rank(p) + 1 \in Nat /\ Rank(r) + 1 \in Nat
      BY <1>1, <2>1
    <3>2. G(p)[r] = G(r)[r]
      BY <1>1, <3>1, PartialUnique
    <3> QED BY <1>2, <3>2
  <2> QED BY <2>2, <2>3, RuleLocal
<1>4. F = [p \in Phrases(ts) |-> Rule(F, ts, p)]
  <2>1. F = [p \in Phrases(ts) |-> F[p]]
    OBVIOUS
  <2> HIDE DEF F
  <2> QED BY <1>3, <2>1
<1> HIDE DEF F
<1>5. Derives(ts) = [p \in Phrases(ts) |-> Rule(Derives(ts), ts, p)]
  BY <1>4 DEF Derives
<1> QED BY <1>5

(* The rules, as the rest uses them.                                       *)
LEMMA StmtIs ==
  ASSUME NEW ts, Len(ts) \in Nat, NEW i \in Nat \ {0}, NEW e \in Nat, i <= e, e <= Len(ts) + 1
  PROVE  Stmt(ts, i, e) <=> StmtRule(Derives(ts), ts, i, e)
<1> DEFINE p == <<"stmt", i, e>>
<1>1. p \in Phrases(ts) /\ p[1] = "stmt" /\ p[2] = i /\ p[3] = e
  BY PhraseIs
<1> HIDE DEF p
<1>2. Derives(ts)[p] = Rule(Derives(ts), ts, p)
  BY <1>1, DerivesByRule
<1>3. Rule(Derives(ts), ts, p) = StmtRule(Derives(ts), ts, i, e)
  BY <1>1 DEF Rule
<1> QED BY <1>2, <1>3 DEF Stmt, p

LEMMA BodyIs ==
  ASSUME NEW ts, Len(ts) \in Nat, NEW i \in Nat \ {0}, NEW e \in Nat, i <= e, e <= Len(ts) + 1
  PROVE  Body(ts, i, e) <=> i = e \/ \E k \in (i + 1)..e : Stmt(ts, i, k) /\ Body(ts, k, e)
<1> DEFINE p == <<"body", i, e>>
<1>1. p \in Phrases(ts) /\ p[1] = "body" /\ p[2] = i /\ p[3] = e
  BY PhraseIs
<1> HIDE DEF p
<1>2. Derives(ts)[p] = Rule(Derives(ts), ts, p)
  BY <1>1, DerivesByRule
<1>3. Rule(Derives(ts), ts, p) = BodyRule(Derives(ts), ts, i, e)
  BY <1>1 DEF Rule
<1> QED BY <1>2, <1>3 DEF Stmt, Body, BodyRule, p
-----------------------------------------------------------------------------
(* Where an expression, a list or a statement ends is determined by where  *)
(* it begins.                                                              *)

LEMMA AtType ==
  ASSUME NEW ts \in Seq(TokenTypes), NEW c \in Int, At(ts, c) # "token_empty"
  PROVE  c \in 1..Len(ts) /\ At(ts, c) = ts[c] /\ Len(ts) \in Nat
BY DEF At

LEMMA ArgumentsEnd ==
  ASSUME NEW ts \in Seq(TokenTypes), NEW i \in Int, NEW c \in Int, NEW k \in Int,
         Arguments(ts, i, c), Arguments(ts, i, k)
  PROVE  c = k
<1>1. \A a, b \in Int : Arguments(ts, i, a) /\ Arguments(ts, i, b) => ~(a < b)
  <2> SUFFICES ASSUME NEW a \in Int, NEW b \in Int,
                      Arguments(ts, i, a), Arguments(ts, i, b), a < b
               PROVE  FALSE
    OBVIOUS
  <2>1. At(ts, a) = "close_paren" /\ a \in i..(b - 1) /\ Separated(ts, i, b)
    BY DEF Arguments
  <2>2. ts[a] = "close_paren"
    BY <2>1, AtType
  <2> QED BY <2>1, <2>2 DEF Separated
<1> QED BY <1>1

LEMMA ArgumentsStop ==
  ASSUME NEW ts \in Seq(TokenTypes), NEW i \in Int, ArgumentsOverrun(ts, i), NEW c \in Int
  PROVE  ~Arguments(ts, i, c)
<1> SUFFICES ASSUME Arguments(ts, i, c) PROVE FALSE
  OBVIOUS
<1>1. At(ts, c) = "close_paren" /\ i <= c
  BY DEF Arguments
<1>2. c \in i..((Len(ts) + 1) - 1) /\ ts[c] = "close_paren"
  BY <1>1, AtType
<1>3. Separated(ts, i, Len(ts) + 1)
  BY DEF ArgumentsOverrun
<1> QED BY <1>2, <1>3 DEF Separated

LEMMA ParamsEnd ==
  ASSUME NEW ts \in Seq(TokenTypes), NEW i \in Int, NEW c \in Int, NEW k \in Int,
         Params(ts, i, c), Params(ts, i, k)
  PROVE  c = k
<1>1. \A a, b \in Int : Params(ts, i, a) /\ Params(ts, i, b) => ~(a < b)
  <2> SUFFICES ASSUME NEW a \in Int, NEW b \in Int, Params(ts, i, a), Params(ts, i, b), a < b
               PROVE  FALSE
    OBVIOUS
  <2>1. At(ts, a) = "close_paren" /\ a \in i..(b - 1) /\ (a - i) % 2 = 0
    BY DEF Params
  <2>2. ts[a] = "close_paren"
    BY <2>1, AtType
  <2> QED BY <2>1, <2>2 DEF Params
<1> QED BY <1>1

LEMMA ParamsStop ==
  ASSUME NEW ts \in Seq(TokenTypes), NEW i \in Int, ParamsOverrun(ts, i), NEW c \in Int
  PROVE  ~Params(ts, i, c)
<1> SUFFICES ASSUME Params(ts, i, c) PROVE FALSE
  OBVIOUS
<1>1. At(ts, c) = "close_paren" /\ i <= c
  BY DEF Params
<1>2. c \in i..Len(ts)
  BY <1>1, AtType
<1> QED BY <1>2 DEF ParamsOverrun

LEMMA CallOrBin == ASSUME NEW ts, NEW i PROVE ~(IsCall(ts, i) /\ IsBin(ts, i))
BY DEF IsCall, IsBin, Arithmetic, Comparison, Operators, Precedence

LEMMA ValueEnd ==
  ASSUME NEW ts \in Seq(TokenTypes), NEW i \in Int, NEW e \in Int, NEW k \in Int,
         Value(ts, i, e), Value(ts, i, k)
  PROVE  e = k
<1>1. CASE IsCall(ts, i)
  <2>1. Arguments(ts, i + 2, e - 1) /\ Arguments(ts, i + 2, k - 1)
    BY <1>1, CallOrBin DEF Value, IsSingle
  <2>2. i + 2 \in Int /\ e - 1 \in Int /\ k - 1 \in Int
    OBVIOUS
  <2>3. e - 1 = k - 1
    BY <2>1, <2>2, ArgumentsEnd
  <2> QED BY <2>3
<1>2. CASE IsBin(ts, i)
  <2>1. BinExpr(ts, i, e) /\ BinExpr(ts, i, k)
    BY <1>2, CallOrBin DEF Value, IsSingle
  <2> QED BY <2>1 DEF BinExpr
<1>3. CASE ~IsCall(ts, i) /\ ~IsBin(ts, i)
  BY <1>3 DEF Value
<1> QED BY <1>1, <1>2, <1>3

LEMMA ValueNoValue ==
  ASSUME NEW ts, NEW i, NEW e, Value(ts, i, e)
  PROVE  ~NoValue(ts, i)
BY CallOrBin DEF Value, NoValue, IsCall, IsBin, IsSingle, BinExpr

LEMMA ValueStop ==
  ASSUME NEW ts \in Seq(TokenTypes), NEW i \in Int, ValueOverrun(ts, i), NEW e \in Int
  PROVE  ~OptionalValue(ts, i, e)
<1>1. IsCall(ts, i) /\ ArgumentsOverrun(ts, i + 2) /\ i + 2 \in Int /\ e - 1 \in Int
  BY DEF ValueOverrun
<1>2. ~Arguments(ts, i + 2, e - 1)
  BY <1>1, ArgumentsStop
<1>3. ~Value(ts, i, e)
  BY <1>1, <1>2, CallOrBin DEF Value, IsSingle
<1>4. ~NoValue(ts, i)
  BY <1>1, CallOrBin DEF NoValue, IsCall
<1> QED BY <1>3, <1>4 DEF OptionalValue

LEMMA OptionalEnd ==
  ASSUME NEW ts \in Seq(TokenTypes), NEW i \in Int, NEW e \in Int, NEW k \in Int,
         OptionalValue(ts, i, e), OptionalValue(ts, i, k)
  PROVE  e = k
BY ValueEnd, ValueNoValue DEF OptionalValue

LEMMA ValueLong ==
  ASSUME NEW ts, NEW i \in Int, NEW e \in Int, Value(ts, i, e)
  PROVE  i < e
BY DEF Value, Arguments, BinExpr

LEMMA OptionalLong ==
  ASSUME NEW ts, NEW i \in Int, NEW e \in Int, OptionalValue(ts, i, e)
  PROVE  i <= e
BY ValueLong DEF OptionalValue
-----------------------------------------------------------------------------
(* Statements.                                                             *)

LEMMA LeafShape ==
  ASSUME NEW ts, NEW kind, NEW i, NEW e, LeafStmt(ts, kind, i, e)
  PROVE  /\ kind = KindAt(ts, i) /\ kind \in LeafKinds
         /\ \/ kind = "RETURN"   /\ OptionalValue(ts, i + 1, e - 1)
            \/ kind = "EXIT"     /\ Value(ts, i + 2, e - 2) /\ At(ts, i + 1) = "open_paren"
            \/ kind = "VCHANGE"  /\ Value(ts, i + 2, e - 1)
            \/ kind = "DECL"     /\ Value(ts, i + 3, e - 1)
            \/ kind = "FUNC_USE" /\ Arguments(ts, i + 2, e - 1)
                                 /\ At(ts, e) \in {"close_paren", "token_empty"}
            \/ kind = "FUNC_USE" /\ Arguments(ts, i + 2, e - 2) /\ At(ts, e - 1) = "semi"
BY Zenon DEF LeafStmt, LeafKinds

LEMMA HeadShape ==
  ASSUME NEW ts, NEW kind, NEW i, NEW e, BodyHead(ts, kind, i, e)
  PROVE  /\ kind = KindAt(ts, i) /\ kind \in BodyKinds /\ At(ts, e - 1) = "open_braces"
         /\ \/ kind = "FUNC" /\ Params(ts, i + 3, e - 2)
            \/ kind = "ELSE" /\ e = i + 2
            \/ kind \in {"IF", "WHILE"} /\ Value(ts, i + 2, e - 2)
BY Zenon DEF BodyHead, BodyKinds

LEMMA NoKind ==
  ASSUME NEW ts, NEW i, At(ts, i) \in {"close_braces", "token_empty"}
  PROVE  KindAt(ts, i) = "NONE"
BY Zenon DEF KindAt, DeclTypes

LEMMA LeafEnd ==
  ASSUME NEW ts \in Seq(TokenTypes), NEW i \in Int, NEW e \in Int, NEW f \in Int, NEW kind, NEW what,
         LeafStmt(ts, kind, i, e), LeafStmt(ts, what, i, f)
  PROVE  e = f /\ kind = what
<1>1. kind = KindAt(ts, i) /\ what = kind
  BY LeafShape
<1>2. /\ i + 1 \in Int /\ i + 2 \in Int /\ i + 3 \in Int
      /\ e - 1 \in Int /\ e - 2 \in Int /\ f - 1 \in Int /\ f - 2 \in Int
  OBVIOUS
<1>3. CASE kind = "RETURN"
  <2>1. OptionalValue(ts, i + 1, e - 1) /\ OptionalValue(ts, i + 1, f - 1)
    BY <1>1, <1>3, LeafShape
  <2>2. e - 1 = f - 1
    BY <1>2, <2>1, OptionalEnd
  <2> QED BY <1>1, <2>2
<1>4. CASE kind = "EXIT"
  <2>1. Value(ts, i + 2, e - 2) /\ Value(ts, i + 2, f - 2)
    BY <1>1, <1>4, LeafShape
  <2>2. e - 2 = f - 2
    BY <1>2, <2>1, ValueEnd
  <2> QED BY <1>1, <2>2
<1>5. CASE kind = "VCHANGE"
  <2>1. Value(ts, i + 2, e - 1) /\ Value(ts, i + 2, f - 1)
    BY <1>1, <1>5, LeafShape
  <2>2. e - 1 = f - 1
    BY <1>2, <2>1, ValueEnd
  <2> QED BY <1>1, <2>2
<1>6. CASE kind = "DECL"
  <2>1. Value(ts, i + 3, e - 1) /\ Value(ts, i + 3, f - 1)
    BY <1>1, <1>6, LeafShape
  <2>2. e - 1 = f - 1
    BY <1>2, <2>1, ValueEnd
  <2> QED BY <1>1, <2>2
<1>7. CASE kind = "FUNC_USE"
  <2> DEFINE Short(g) == Arguments(ts, i + 2, g - 1) /\ At(ts, g) \in {"close_paren", "token_empty"}
             Long(g)  == Arguments(ts, i + 2, g - 2) /\ At(ts, g - 1) = "semi"
  <2>1. (Short(e) \/ Long(e)) /\ (Short(f) \/ Long(f))
    BY <1>1, <1>7, LeafShape
  <2>2. \A g, h \in Int : Short(g) /\ Long(h) => FALSE
    <3> SUFFICES ASSUME NEW g \in Int, NEW h \in Int, Short(g), Long(h) PROVE FALSE
      OBVIOUS
    <3>1. g - 1 \in Int /\ h - 2 \in Int
      OBVIOUS
    <3>2. g - 1 = h - 2
      BY <1>2, <3>1, ArgumentsEnd
    <3>3. g = h - 1
      BY <3>2
    <3> QED BY <3>3
  <2>3. CASE Short(e) /\ Short(f)
    <3>1. e - 1 = f - 1
      BY <1>2, <2>3, ArgumentsEnd
    <3> QED BY <1>1, <3>1
  <2>4. CASE Long(e) /\ Long(f)
    <3>1. e - 2 = f - 2
      BY <1>2, <2>4, ArgumentsEnd
    <3> QED BY <1>1, <3>1
  <2> QED BY <2>1, <2>2, <2>3, <2>4
<1> QED BY <1>3, <1>4, <1>5, <1>6, <1>7, LeafShape

LEMMA HeadEnd ==
  ASSUME NEW ts \in Seq(TokenTypes), NEW i \in Int, NEW e \in Int, NEW f \in Int, NEW kind, NEW what,
         BodyHead(ts, kind, i, e), BodyHead(ts, what, i, f)
  PROVE  e = f /\ kind = what
<1>1. kind = KindAt(ts, i) /\ what = kind
  BY HeadShape
<1>2. i + 2 \in Int /\ i + 3 \in Int /\ e - 2 \in Int /\ f - 2 \in Int
  OBVIOUS
<1>3. CASE kind = "FUNC"
  <2>1. Params(ts, i + 3, e - 2) /\ Params(ts, i + 3, f - 2)
    BY <1>1, <1>3, HeadShape
  <2>2. e - 2 = f - 2
    BY <1>2, <2>1, ParamsEnd
  <2> QED BY <1>1, <2>2
<1>4. CASE kind = "ELSE"
  BY <1>1, <1>4, HeadShape
<1>5. CASE kind \in {"IF", "WHILE"}
  <2>1. Value(ts, i + 2, e - 2) /\ Value(ts, i + 2, f - 2)
    BY <1>1, <1>5, HeadShape
  <2>2. e - 2 = f - 2
    BY <1>2, <2>1, ValueEnd
  <2> QED BY <1>1, <2>2
<1> QED BY <1>3, <1>4, <1>5, HeadShape

LEMMA LeafLong ==
  ASSUME NEW ts, NEW kind, NEW i \in Int, NEW e \in Int, LeafStmt(ts, kind, i, e)
  PROVE  i < e
<1>1. /\ i + 1 \in Int /\ i + 2 \in Int /\ i + 3 \in Int /\ e - 1 \in Int /\ e - 2 \in Int
  OBVIOUS
<1>2. \/ OptionalValue(ts, i + 1, e - 1) \/ Value(ts, i + 2, e - 2) \/ Value(ts, i + 2, e - 1)
      \/ Value(ts, i + 3, e - 1) \/ Arguments(ts, i + 2, e - 1) \/ Arguments(ts, i + 2, e - 2)
  BY LeafShape
<1>3. \/ i + 1 <= e - 1 \/ i + 2 < e - 2 \/ i + 2 < e - 1 \/ i + 3 < e - 1
      \/ e - 1 >= i + 2 \/ e - 2 >= i + 2
  BY <1>1, <1>2, OptionalLong, ValueLong DEF Arguments
<1> QED BY <1>3

(* What reads behind the tokens is no statement and has no head.           *)
LEMMA HeadStop ==
  ASSUME NEW ts \in Seq(TokenTypes), NEW i \in Int, HeadOverrun(ts, i), NEW kind, NEW e \in Int
  PROVE  ~LeafStmt(ts, kind, i, e) /\ ~BodyHead(ts, kind, i, e)
<1>1. /\ i + 1 \in Int /\ i + 2 \in Int /\ i + 3 \in Int /\ e - 1 \in Int /\ e - 2 \in Int
  OBVIOUS
<1>2. \A j \in Int, g \in Int : Value(ts, j, g) => OptionalValue(ts, j, g)
  BY DEF OptionalValue
<1> DEFINE k == KindAt(ts, i)
<1>3. CASE k = "FUNC_USE" /\ ArgumentsOverrun(ts, i + 2)
  BY <1>1, <1>3, ArgumentsStop, LeafShape, HeadShape DEF BodyKinds
<1>4. CASE k = "FUNC" /\ ParamsOverrun(ts, i + 3)
  BY <1>1, <1>4, ParamsStop, LeafShape, HeadShape DEF LeafKinds
<1>5. CASE k = "RETURN" /\ ValueOverrun(ts, i + 1)
  BY <1>1, <1>5, ValueStop, LeafShape, HeadShape DEF BodyKinds
<1>6. CASE k = "VCHANGE" /\ ValueOverrun(ts, i + 2)
  BY <1>1, <1>2, <1>6, ValueStop, LeafShape, HeadShape DEF BodyKinds
<1>7. CASE k = "DECL" /\ ValueOverrun(ts, i + 3)
  BY <1>1, <1>2, <1>7, ValueStop, LeafShape, HeadShape DEF BodyKinds
<1>8. CASE k \in {"EXIT", "IF", "WHILE"} /\ ValueOverrun(ts, i + 2)
  BY <1>1, <1>2, <1>8, ValueStop, LeafShape, HeadShape DEF BodyKinds, LeafKinds
<1> QED BY <1>3, <1>4, <1>5, <1>6, <1>7, <1>8 DEF HeadOverrun
-----------------------------------------------------------------------------
(* Statements and lists of statements, one behind the other.               *)
ClauseOf(ts, i, e) == Clause(Derives(ts), ts, i, e)
HeadTo(ts, i, h)   == \/ ForHead(Derives(ts), ts, i, h)
                      \/ \E kind \in BodyKinds : BodyHead(ts, kind, i, h)

LEMMA PlaceType ==
  ASSUME NEW ts \in Seq(TokenTypes)
  PROVE  /\ Len(ts) \in Nat
         /\ \A i \in Places(ts) : i \in Nat \ {0} /\ i <= Len(ts) + 1
         /\ \A i \in Nat \ {0} : i <= Len(ts) + 1 => i \in Places(ts)
BY DEF Places

LEMMA KindFor ==
  ASSUME NEW ts, NEW i, NEW h, HeadTo(ts, i, h)
  PROVE  KindAt(ts, i) \in BodyKinds \cup {"FOR"} /\ At(ts, h - 1) = "open_braces"
BY HeadShape DEF HeadTo, ForHead

LEMMA StmtShape ==
  ASSUME NEW ts \in Seq(TokenTypes), NEW i \in Places(ts), NEW e \in Places(ts), i <= e,
         Stmt(ts, i, e)
  PROVE  /\ i < e /\ KindAt(ts, i) \in StmtKinds
         /\ \/ \E kind \in LeafKinds : LeafStmt(ts, kind, i, e)
            \/ /\ At(ts, e - 1) = "close_braces"
               /\ \E h \in (i + 1)..(e - 1) : HeadTo(ts, i, h) /\ Body(ts, h, e - 1)
<1>1. /\ Len(ts) \in Nat /\ i \in Nat \ {0} /\ e \in Nat /\ e <= Len(ts) + 1 /\ i \in Int /\ e \in Int
  BY PlaceType
<1>2. StmtRule(Derives(ts), ts, i, e)
  BY <1>1, StmtIs
<1>3. CASE \E kind \in LeafKinds : LeafStmt(ts, kind, i, e)
  BY <1>1, <1>3, LeafLong, LeafShape DEF StmtKinds
<1>4. CASE /\ e > i /\ At(ts, e - 1) = "close_braces"
           /\ \E h \in (i + 1)..(e - 1) : HeadTo(ts, i, h) /\ Body(ts, h, e - 1)
  BY <1>1, <1>4, KindFor DEF StmtKinds
<1> QED BY <1>2, <1>3, <1>4 DEF StmtRule, HeadTo, Body

LEMMA LeafMade ==
  ASSUME NEW ts \in Seq(TokenTypes), NEW i \in Places(ts), NEW e \in Places(ts), i <= e,
         NEW kind \in LeafKinds, LeafStmt(ts, kind, i, e)
  PROVE  Stmt(ts, i, e)
BY PlaceType, StmtIs DEF StmtRule

LEMMA BodyMade ==
  ASSUME NEW ts \in Seq(TokenTypes), NEW i \in Places(ts), NEW e \in Places(ts),
         At(ts, e - 1) = "close_braces", NEW h \in (i + 1)..(e - 1), HeadTo(ts, i, h),
         Body(ts, h, e - 1)
  PROVE  Stmt(ts, i, e)
<1>1. Len(ts) \in Nat /\ i \in Nat \ {0} /\ e \in Nat \ {0} /\ e <= Len(ts) + 1 /\ i <= e /\ e > i
  BY PlaceType
<1>2. StmtRule(Derives(ts), ts, i, e)
  BY <1>1 DEF StmtRule, HeadTo, Body
<1> QED BY <1>1, <1>2, StmtIs

LEMMA BodyEmpty ==
  ASSUME NEW ts \in Seq(TokenTypes), NEW i \in Places(ts)
  PROVE  Body(ts, i, i)
BY PlaceType, BodyIs

LEMMA BodyStart ==
  ASSUME NEW ts \in Seq(TokenTypes), NEW i \in Places(ts), NEW e \in Places(ts), i <= e,
         Body(ts, i, e), i # e
  PROVE  \E k \in Places(ts) : i < k /\ k <= e /\ Stmt(ts, i, k) /\ Body(ts, k, e)
<1>1. Len(ts) \in Nat /\ i \in Nat \ {0} /\ e \in Nat /\ e <= Len(ts) + 1
  BY PlaceType
<1>2. PICK k \in (i + 1)..e : Stmt(ts, i, k) /\ Body(ts, k, e)
  BY <1>1, BodyIs
<1>3. k \in Places(ts) /\ i < k /\ k <= e
  BY <1>1, PlaceType
<1> QED BY <1>2, <1>3

(* A list with a statement behind it is a list.                            *)
LEMMA BodyAppend ==
  ASSUME NEW ts \in Seq(TokenTypes), NEW i \in Places(ts), NEW x \in Places(ts), NEW e \in Places(ts),
         i <= x, x < e, Body(ts, i, x), Stmt(ts, x, e)
  PROVE  Body(ts, i, e)
<1>1. /\ Len(ts) \in Nat /\ x \in Nat \ {0} /\ e \in Nat \ {0} /\ e <= Len(ts) + 1
      /\ \A j \in Places(ts) : j \in Nat \ {0}
  BY PlaceType
<1> DEFINE Bad == {j \in Places(ts) : j <= x /\ Body(ts, j, x) /\ ~Body(ts, j, e)}
           T   == {x - j : j \in Bad}
<1> SUFFICES ASSUME i \in Bad PROVE FALSE
  OBVIOUS
<1>2. T \subseteq Nat /\ T # {}
  <2>1. \A j \in Bad : j \in Nat /\ j <= x
    BY <1>1
  <2>2. \A j \in Nat : j <= x => x - j \in Nat
    BY <1>1
  <2> QED BY <2>1, <2>2
<1>3. PICK u \in T : \A v \in T : u <= v
  BY <1>2, LeastNat
<1>4. PICK j \in Bad : x - j = u
  OBVIOUS
<1>5. j \in Nat \ {0} /\ j <= x /\ j <= e
  BY <1>1
<1>6. CASE j = x
  <2>1. Body(ts, e, e) /\ e \in (x + 1)..e
    BY <1>1, BodyEmpty
  <2>2. Body(ts, x, e)
    BY <1>1, <2>1, BodyIs
  <2> QED BY <1>6, <2>2
<1>7. CASE j # x
  <2>1. PICK k \in Places(ts) : j < k /\ k <= x /\ Stmt(ts, j, k) /\ Body(ts, k, x)
    BY <1>7, BodyStart
  <2>2. k \in Nat /\ x - k < x - j /\ k \in (j + 1)..e
    BY <1>1, <1>5, <2>1
  <2>3. k \notin Bad
    <3>1. k \in Bad => x - k \in T
      OBVIOUS
    <3>2. k \in Bad => x - j <= x - k
      <4> HIDE DEF T
      <4> QED BY <1>3, <1>4, <3>1
    <3> QED BY <1>1, <1>5, <2>2, <3>2
  <2>4. Body(ts, k, e)
    BY <2>1, <2>3
  <2>5. Body(ts, j, e)
    BY <1>1, <1>5, <2>1, <2>2, <2>4, BodyIs
  <2> QED BY <2>5
<1> QED BY <1>6, <1>7
-----------------------------------------------------------------------------
(***************************************************************************)
(* A running call of parse_stmt, f, and the grammar.  Behind: what it has  *)
(* parsed up to x, where its callee began (`back` is FALSE) or ended.      *)
(***************************************************************************)
Behind(ts, f, x, back) ==
  /\ f.from # 0 /\ f.kind = KindAt(ts, f.from)
  /\ f.part \in {"init", "step"} => f.kind = "FOR" /\ At(ts, f.from + 1) = "open_paren"
  /\ f.part = "init" =>
       IF back THEN f.from + 2 <= x /\ ClauseOf(ts, f.from + 2, x) ELSE x = f.from + 2
  /\ f.part = "step" =>
       \E a \in (f.from + 2)..Len(ts) : \E b \in a..Len(ts) :
         /\ ClauseOf(ts, f.from + 2, a)
         /\ OptionalValue(ts, a, b) /\ At(ts, b) = "semi"
         /\ IF back THEN b + 1 <= x /\ ClauseOf(ts, b + 1, x) ELSE x = b + 1
  /\ f.part = "body" =>
       \E h \in (f.from + 1)..x : HeadTo(ts, f.from, h) /\ Body(ts, h, x)

LEMMA FrmType ==
  ASSUME NEW f \in Frm
  PROVE  f.from \in Nat /\ f.kind \in BodyKinds \cup {"FOR"} /\ f.part \in {"init", "step", "body"}
BY DEF Frm, Parts

LEMMA FrmMade ==
  ASSUME NEW kind \in BodyKinds \cup {"FOR"}, NEW i \in Nat, NEW part \in Parts,
         NEW f, f = [kind |-> kind, from |-> i, part |-> part]
  PROVE  f \in Frm /\ f.kind = kind /\ f.from = i /\ f.part = part
BY DEF Frm

LEMMA FrmGoesOn ==
  ASSUME NEW f \in Frm, NEW part \in Parts, NEW g, g = [f EXCEPT !.part = part]
  PROVE  g \in Frm /\ g.kind = f.kind /\ g.from = f.from /\ g.part = part
BY DEF Frm

LEMMA ClauseIs ==
  ASSUME NEW ts, NEW i, NEW e
  PROVE  ClauseOf(ts, i, e) <=> Stmt(ts, i, e) \/ (i = e /\ KindAt(ts, i) = "NONE")
BY DEF ClauseOf, Clause, Stmt

(* The callee ends at e.                                                   *)
LEMMA BehindBack ==
  ASSUME NEW ts \in Seq(TokenTypes), NEW f \in Frm, NEW x \in Places(ts), NEW e \in Places(ts),
         x <= e, Behind(ts, f, x, FALSE),
         \/ Stmt(ts, x, e)
         \/ f.part # "body" /\ x = e /\ KindAt(ts, x) = "NONE"
  PROVE  Behind(ts, f, e, TRUE)
<1>1. /\ Len(ts) \in Nat /\ f.from \in Nat /\ x \in Nat \ {0} /\ e \in Nat \ {0} /\ e <= Len(ts) + 1
      /\ ClauseOf(ts, x, e) \/ f.part = "body"
  BY PlaceType, FrmType, ClauseIs
<1>2. CASE f.part = "init"
  BY <1>1, <1>2 DEF Behind
<1>3. CASE f.part = "step"
  <2>1. PICK a \in (f.from + 2)..Len(ts) : \E b \in a..Len(ts) :
          /\ ClauseOf(ts, f.from + 2, a)
          /\ OptionalValue(ts, a, b) /\ At(ts, b) = "semi" /\ x = b + 1
    BY <1>3 DEF Behind
  <2>2. PICK b \in a..Len(ts) : /\ ClauseOf(ts, f.from + 2, a)
                                /\ OptionalValue(ts, a, b) /\ At(ts, b) = "semi" /\ x = b + 1
    BY <2>1
  <2>3. b + 1 <= e /\ ClauseOf(ts, b + 1, e)
    BY <1>1, <1>3, <2>2
  <2> QED BY <1>3, <2>2, <2>3 DEF Behind
<1>4. CASE f.part = "body"
  <2>1. PICK h \in (f.from + 1)..x : HeadTo(ts, f.from, h) /\ Body(ts, h, x)
    BY <1>4 DEF Behind
  <2>2. x < e
    BY <1>4, StmtShape
  <2>3. h \in Places(ts) /\ h <= x /\ h \in (f.from + 1)..e
    BY <1>1, <2>2, PlaceType
  <2>4. Body(ts, h, e)
    BY <1>4, <2>1, <2>2, <2>3, BodyAppend
  <2> QED BY <1>4, <2>1, <2>3, <2>4 DEF Behind
<1> QED BY <1>2, <1>3, <1>4, FrmType

(* A call that has parsed its head, and one that has parsed a `for (`.     *)
LEMMA BehindHead ==
  ASSUME NEW ts \in Seq(TokenTypes), NEW f \in Frm, f.part = "body", f.kind = KindAt(ts, f.from),
         f.from # 0, NEW h \in Places(ts), f.from < h, HeadTo(ts, f.from, h), NEW back
  PROVE  Behind(ts, f, h, back)
<1>1. h \in (f.from + 1)..h /\ Body(ts, h, h)
  BY PlaceType, FrmType, BodyEmpty
<1> QED BY <1>1 DEF Behind

LEMMA BehindFor ==
  ASSUME NEW ts, NEW f \in Frm, f.part = "init", f.kind = "FOR", f.kind = KindAt(ts, f.from),
         f.from # 0, At(ts, f.from + 1) = "open_paren"
  PROVE  Behind(ts, f, f.from + 2, FALSE)
BY DEF Behind

(* cond1 is parsed, and then cond2.                                        *)
LEMMA BehindStep ==
  ASSUME NEW ts \in Seq(TokenTypes), NEW f \in Frm, NEW x \in Places(ts), f.part = "init",
         Behind(ts, f, x, TRUE), NEW b \in x..Len(ts), OptionalValue(ts, x, b), ts[b] = "semi",
         NEW g \in Frm, g.kind = f.kind, g.from = f.from, g.part = "step"
  PROVE  Behind(ts, g, b + 1, FALSE)
<1>1. /\ Len(ts) \in Nat /\ f.from \in Nat /\ x \in Nat \ {0} /\ f.from + 2 <= x
      /\ ClauseOf(ts, f.from + 2, x)
  BY PlaceType, FrmType DEF Behind
<1>2. x \in (f.from + 2)..Len(ts) /\ At(ts, b) = "semi"
  BY <1>1 DEF At
<1> QED BY <1>1, <1>2 DEF Behind

(* cond3 is parsed, and the `{` behind it.                                 *)
LEMMA BehindBody ==
  ASSUME NEW ts \in Seq(TokenTypes), NEW f \in Frm, NEW x \in Places(ts), f.part = "step",
         Behind(ts, f, x, TRUE), At(ts, x) = "open_braces",
         NEW g \in Frm, g.kind = f.kind, g.from = f.from, g.part = "body", NEW back
  PROVE  Behind(ts, g, x + 1, back)
<1>1. /\ Len(ts) \in Nat /\ f.from \in Nat /\ x \in Nat \ {0} /\ x <= Len(ts)
  BY PlaceType, FrmType, AtType
<1>2. PICK a \in (f.from + 2)..Len(ts) : \E b \in a..Len(ts) :
        /\ ClauseOf(ts, f.from + 2, a)
        /\ OptionalValue(ts, a, b) /\ At(ts, b) = "semi"
        /\ b + 1 <= x /\ ClauseOf(ts, b + 1, x)
  BY DEF Behind
<1>3. PICK b \in a..Len(ts) : /\ ClauseOf(ts, f.from + 2, a)
                              /\ OptionalValue(ts, a, b) /\ At(ts, b) = "semi"
                              /\ b + 1 <= x /\ ClauseOf(ts, b + 1, x)
  BY <1>2
<1>4. a \in (f.from + 2)..(x + 1) /\ b \in a..((x + 1) - 2) /\ (x + 1) - 1 = x
  BY <1>1, <1>3
<1>5. KindAt(ts, f.from) = "FOR" /\ At(ts, f.from + 1) = "open_paren"
  BY DEF Behind
<1>6. ForHead(Derives(ts), ts, f.from, x + 1)
  BY <1>3, <1>4, <1>5 DEF ForHead, ClauseOf
<1>7. x + 1 \in Places(ts) /\ f.from < x + 1
  BY <1>1, <1>4, PlaceType
<1>8. HeadTo(ts, g.from, x + 1) /\ g.kind = KindAt(ts, g.from) /\ g.from # 0
  BY <1>6 DEF HeadTo, Behind
<1> QED BY <1>7, <1>8, BehindHead

(* The body ends: the call has parsed a statement.                         *)
LEMMA BehindEnd ==
  ASSUME NEW ts \in Seq(TokenTypes), NEW f \in Frm, NEW x \in Places(ts), f.part = "body",
         NEW back, Behind(ts, f, x, back), At(ts, x) = "close_braces"
  PROVE  /\ x + 1 \in Places(ts) /\ f.from \in Places(ts) /\ f.from < x + 1
         /\ f.kind = KindAt(ts, f.from) /\ Stmt(ts, f.from, x + 1)
<1>1. /\ Len(ts) \in Nat /\ f.from \in Nat \ {0} /\ x \in Nat \ {0} /\ x <= Len(ts)
      /\ f.kind = KindAt(ts, f.from)
  BY PlaceType, FrmType, AtType DEF Behind
<1>2. PICK h \in (f.from + 1)..x : HeadTo(ts, f.from, h) /\ Body(ts, h, x)
  BY DEF Behind
<1>3. x + 1 \in Places(ts) /\ f.from \in Places(ts) /\ f.from < x + 1 /\ (x + 1) - 1 = x
  BY <1>1, <1>2, PlaceType
<1> QED BY <1>1, <1>2, <1>3, BodyMade
-----------------------------------------------------------------------------
(* Ahead: what must follow from y on for the statement of f to end at z.   *)
Ahead(ts, f, y, z) ==
  /\ y <= z - 1 /\ At(ts, z - 1) = "close_braces"
  /\ f.part = "init" =>
       \E b \in y..Len(ts) : \E c \in (b + 1)..(z - 2) :
         /\ OptionalValue(ts, y, b) /\ At(ts, b) = "semi" /\ ClauseOf(ts, b + 1, c)
         /\ At(ts, c) = "open_braces" /\ Body(ts, c + 1, z - 1)
  /\ f.part = "step" =>
       y <= z - 2 /\ At(ts, y) = "open_braces" /\ Body(ts, y + 1, z - 1)
  /\ f.part = "body" => Body(ts, y, z - 1)

(* Where the next parse_stmt of a caller in a part ends.                   *)
Ends(ts, part, i, y) ==
  \/ i < y /\ Stmt(ts, i, y)
  \/ part # "body" /\ i = y /\ KindAt(ts, i) = "NONE"

(* A statement is a leaf, and where it ends is known; or it has a head.    *)
LEMMA AheadLeaf ==
  ASSUME NEW ts \in Seq(TokenTypes), NEW i \in Places(ts), NEW y \in Places(ts), NEW part,
         Ends(ts, part, i, y), NEW kind, NEW e \in Int, LeafStmt(ts, kind, i, e)
  PROVE  y = e
<1>1. i \in Int /\ y \in Int /\ kind = KindAt(ts, i) /\ kind \in LeafKinds
  BY PlaceType, LeafShape
<1>2. i < y /\ Stmt(ts, i, y)
  BY <1>1 DEF Ends, LeafKinds
<1>3. CASE \E what \in LeafKinds : LeafStmt(ts, what, i, y)
  BY <1>1, <1>3, LeafEnd
<1>4. CASE \E h \in (i + 1)..(y - 1) : HeadTo(ts, i, h)
  BY <1>1, <1>4, KindFor DEF LeafKinds, BodyKinds
<1> QED BY <1>1, <1>2, <1>3, <1>4, StmtShape

LEMMA AheadHead ==
  ASSUME NEW ts \in Seq(TokenTypes), NEW i \in Places(ts), NEW y \in Places(ts), NEW part,
         Ends(ts, part, i, y), NEW kind, NEW e \in Int, BodyHead(ts, kind, i, e),
         NEW f \in Frm, f.part = "body"
  PROVE  Ahead(ts, f, e, y)
<1>1. i \in Int /\ y \in Int /\ kind = KindAt(ts, i) /\ kind \in BodyKinds
  BY PlaceType, HeadShape
<1>2. i < y /\ Stmt(ts, i, y)
  BY <1>1 DEF Ends, BodyKinds
<1>3. CASE \E what \in LeafKinds : LeafStmt(ts, what, i, y)
  BY <1>1, <1>3, LeafShape DEF LeafKinds, BodyKinds
<1>4. CASE /\ At(ts, y - 1) = "close_braces"
           /\ \E h \in (i + 1)..(y - 1) : HeadTo(ts, i, h) /\ Body(ts, h, y - 1)
  <2>1. PICK h \in (i + 1)..(y - 1) : HeadTo(ts, i, h) /\ Body(ts, h, y - 1)
    BY <1>4
  <2>2. PICK what \in BodyKinds : BodyHead(ts, what, i, h)
    BY <1>1, <2>1 DEF HeadTo, ForHead, BodyKinds
  <2>3. h = e /\ h <= y - 1
    BY <1>1, <2>2, HeadEnd
  <2> QED BY <1>4, <2>1, <2>3 DEF Ahead
<1> QED BY <1>1, <1>2, <1>3, <1>4, StmtShape

LEMMA AheadFor ==
  ASSUME NEW ts \in Seq(TokenTypes), NEW i \in Places(ts), NEW y \in Places(ts), NEW part,
         Ends(ts, part, i, y), KindAt(ts, i) = "FOR", NEW f \in Frm, f.part = "init"
  PROVE  \E a \in Places(ts) : Ends(ts, "init", i + 2, a) /\ Ahead(ts, f, a, y)
<1>1. /\ i \in Nat \ {0} /\ y \in Nat \ {0} /\ y <= Len(ts) + 1 /\ Len(ts) \in Nat
  BY PlaceType
<1>2. i < y /\ Stmt(ts, i, y)
  BY DEF Ends
<1>3. CASE \E what \in LeafKinds : LeafStmt(ts, what, i, y)
  BY <1>3, LeafShape DEF LeafKinds
<1>4. CASE /\ At(ts, y - 1) = "close_braces"
           /\ \E h \in (i + 1)..(y - 1) : HeadTo(ts, i, h) /\ Body(ts, h, y - 1)
  <2>1. PICK h \in (i + 1)..(y - 1) : HeadTo(ts, i, h) /\ Body(ts, h, y - 1)
    BY <1>4
  <2>2. ForHead(Derives(ts), ts, i, h)
    BY <2>1, HeadShape DEF HeadTo, BodyKinds
  <2> DEFINE Split(a, b) == /\ ClauseOf(ts, i + 2, a)
                            /\ OptionalValue(ts, a, b) /\ At(ts, b) = "semi"
                            /\ ClauseOf(ts, b + 1, h - 1) /\ At(ts, h - 1) = "open_braces"
  <2>3. PICK a \in (i + 2)..h : \E b \in a..(h - 2) : Split(a, b)
    BY <2>2 DEF ForHead, ClauseOf
  <2>4. PICK b \in a..(h - 2) : Split(a, b)
    BY <2>3
  <2>5. /\ a \in Places(ts) /\ b \in a..Len(ts) /\ h - 1 \in (b + 1)..(y - 2) /\ (h - 1) + 1 = h
        /\ a <= y - 1 /\ i + 2 <= a /\ i + 2 \in Places(ts) /\ a \in Nat
    BY <1>1, <2>1, <2>4, PlaceType
  <2>6. Ahead(ts, f, a, y)
    BY <1>4, <2>1, <2>4, <2>5 DEF Ahead
  <2>7. Stmt(ts, i + 2, a) => i + 2 < a
    BY <2>5, StmtShape
  <2>8. Ends(ts, "init", i + 2, a)
    BY <2>4, <2>7, ClauseIs DEF Ends
  <2> QED BY <2>5, <2>6, <2>8
<1> QED BY <1>1, <1>2, <1>3, <1>4, StmtShape

(* cond2 is parsed.                                                        *)
LEMMA AheadStep ==
  ASSUME NEW ts \in Seq(TokenTypes), NEW f \in Frm, f.part = "init",
         NEW y \in Places(ts), NEW z \in Places(ts), Ahead(ts, f, y, z),
         NEW e \in Int, OptionalValue(ts, y, e), NEW g \in Frm, g.part = "step"
  PROVE  /\ e + 1 \in Places(ts)
         /\ \E c \in Places(ts) : Ends(ts, "step", e + 1, c) /\ Ahead(ts, g, c, z)
<1>1. /\ y \in Nat \ {0} /\ z \in Nat \ {0} /\ z <= Len(ts) + 1 /\ Len(ts) \in Nat
  BY PlaceType
<1> DEFINE Split(b, c) ==
      /\ OptionalValue(ts, y, b) /\ At(ts, b) = "semi" /\ ClauseOf(ts, b + 1, c)
      /\ At(ts, c) = "open_braces" /\ Body(ts, c + 1, z - 1)
<1>2. PICK b \in y..Len(ts) : \E c \in (b + 1)..(z - 2) : Split(b, c)
  BY DEF Ahead
<1>3. PICK c \in (b + 1)..(z - 2) : Split(b, c)
  BY <1>2
<1>4. e = b
  BY <1>1, <1>2, <1>3, OptionalEnd
<1>5. /\ c \in Places(ts) /\ e + 1 \in Places(ts) /\ e + 1 <= c /\ c <= z - 2 /\ c <= z - 1
      /\ ClauseOf(ts, e + 1, c)
  BY <1>1, <1>3, <1>4, PlaceType
<1>6. Stmt(ts, e + 1, c) => e + 1 < c
  BY <1>5, StmtShape
<1>7. Ends(ts, "step", e + 1, c)
  BY <1>5, <1>6, ClauseIs DEF Ends
<1>8. Ahead(ts, g, c, z)
  BY <1>3, <1>5 DEF Ahead
<1> QED BY <1>5, <1>7, <1>8

LEMMA AheadBody ==
  ASSUME NEW ts \in Seq(TokenTypes), NEW f \in Frm, f.part = "step",
         NEW y \in Places(ts), NEW z \in Places(ts), Ahead(ts, f, y, z),
         NEW g \in Frm, g.part = "body"
  PROVE  y + 1 \in Places(ts) /\ Ahead(ts, g, y + 1, z)
<1>1. /\ y \in Nat \ {0} /\ z \in Nat \ {0} /\ z <= Len(ts) + 1 /\ Len(ts) \in Nat
  BY PlaceType
<1>2. y <= z - 2 /\ y + 1 <= z - 1 /\ y + 1 <= Len(ts) + 1
  BY <1>1 DEF Ahead
<1> QED BY <1>1, <1>2, PlaceType DEF Ahead

(* No statement begins with a brace: a list ends where the brace is.       *)
LEMMA NoStmt ==
  ASSUME NEW ts \in Seq(TokenTypes), NEW i \in Places(ts), NEW e \in Places(ts), i <= e,
         Body(ts, i, e), KindAt(ts, i) = "NONE"
  PROVE  i = e
<1> SUFFICES ASSUME i # e PROVE FALSE
  OBVIOUS
<1>1. PICK k \in Places(ts) : i < k /\ Stmt(ts, i, k)
  BY BodyStart
<1>2. i <= k
  BY <1>1, PlaceType
<1> QED BY <1>1, <1>2, StmtShape DEF StmtKinds, LeafKinds, BodyKinds

LEMMA AheadEnd ==
  ASSUME NEW ts \in Seq(TokenTypes), NEW f \in Frm, f.part = "body",
         NEW y \in Places(ts), NEW z \in Places(ts), Ahead(ts, f, y, z),
         At(ts, y) = "close_braces"
  PROVE  z = y + 1
<1>1. /\ y \in Nat \ {0} /\ z \in Nat \ {0} /\ z <= Len(ts) + 1 /\ Len(ts) \in Nat
  BY PlaceType
<1>2. y <= z - 1 /\ Body(ts, y, z - 1) /\ z - 1 \in Places(ts)
  BY <1>1, PlaceType DEF Ahead
<1>3. y = z - 1
  BY <1>2, NoKind, NoStmt
<1> QED BY <1>1, <1>3

(* A loop that goes on, goes on with a statement.                          *)
LEMMA AheadMore ==
  ASSUME NEW ts \in Seq(TokenTypes), NEW f \in Frm, f.part = "body",
         NEW y \in Places(ts), NEW z \in Places(ts), Ahead(ts, f, y, z),
         At(ts, y) # "close_braces"
  PROVE  \E k \in Places(ts) : Ends(ts, "body", y, k) /\ Ahead(ts, f, k, z)
<1>1. /\ y \in Nat \ {0} /\ z \in Nat \ {0} /\ z <= Len(ts) + 1 /\ Len(ts) \in Nat
  BY PlaceType
<1>2. /\ y <= z - 1 /\ Body(ts, y, z - 1) /\ z - 1 \in Places(ts) /\ At(ts, z - 1) = "close_braces"
      /\ y # z - 1
  BY <1>1, PlaceType DEF Ahead
<1>3. PICK k \in Places(ts) : y < k /\ k <= z - 1 /\ Stmt(ts, y, k) /\ Body(ts, k, z - 1)
  BY <1>2, BodyStart
<1> QED BY <1>2, <1>3 DEF Ends, Ahead
-----------------------------------------------------------------------------
(* All running calls: what they have parsed up to x, where the innermost   *)
(* one calls (`back` is FALSE) or is returned to; what they wait for from  *)
(* y on, where its callee ends.                                            *)
Behinds(ts, op, x, back) ==
  /\ Body(ts, 1, IF op = <<>> THEN x ELSE op[1].from)
  /\ \A k \in 1..Len(op) : Behind(ts, op[k], IF k = Len(op) THEN x ELSE op[k + 1].from,
                                  back /\ k = Len(op))

Aheads(ts, op, y) ==
  \E ends \in [1..(Len(op) + 1) -> Places(ts)] :
    /\ ends[Len(op) + 1] = y /\ Body(ts, ends[1], Len(ts) + 1)
    /\ \A k \in 1..Len(op) : Ahead(ts, op[k], ends[k + 1], ends[k])

LEMMA Innermost ==
  ASSUME NEW op \in Seq(Frm), op # <<>>
  PROVE  \E r \in Seq(Frm), f \in Frm :
           /\ op = Append(r, f) /\ Len(op) = Len(r) + 1 /\ op[Len(op)] = f
           /\ r = SubSeq(op, 1, Len(op) - 1)
           /\ \A g \in Frm : [op EXCEPT ![Len(op)] = g] = Append(r, g)
<1> DEFINE d == Len(op)
           r == SubSeq(op, 1, d - 1)
           f == op[d]
<1>1. d \in Nat \ {0} /\ f \in Frm
  OBVIOUS
<1>2. d = Len(op)
  OBVIOUS
<1> HIDE DEF d
<1>3. r \in Seq(Frm)
  BY <1>2, FrontIs
<1>4. Len(r) = d - 1 /\ \A k \in 1..(d - 1) : r[k] = op[k]
  BY <1>2, FrontIs
<1> USE DEF d
<1>5. ASSUME NEW g \in Frm PROVE [op EXCEPT ![d] = g] = Append(r, g)
  <2> DEFINE a == [op EXCEPT ![d] = g]
             b == Append(r, g)
  <2>1. a \in Seq(Frm) /\ Len(a) = d /\ a[d] = g /\ \A k \in 1..(d - 1) : a[k] = op[k]
    <3>1. d \in 1..d /\ op \in [1..d -> Frm] /\ \A k \in 1..(d - 1) : k # d /\ k \in 1..d
      BY <1>1
    <3> HIDE DEF d
    <3>2. a \in [1..d -> Frm] /\ a[d] = g /\ \A k \in 1..(d - 1) : a[k] = op[k]
      BY <3>1
    <3> HIDE DEF a
    <3> QED BY <1>1, <3>2
  <2>2. b \in Seq(Frm) /\ Len(b) = d /\ b[d] = g /\ \A k \in 1..(d - 1) : b[k] = r[k]
    <3> HIDE DEF r, d
    <3>1. b \in Seq(Frm) /\ Len(b) = Len(r) + 1 /\ b[Len(r) + 1] = g
          /\ \A k \in 1..Len(r) : b[k] = r[k]
      BY <1>3, AppendProperties
    <3> QED BY <1>1, <1>4, <3>1
  <2> HIDE DEF a, b
  <2>3. \A k \in 1..d : k = d \/ k \in 1..(d - 1)
    BY <1>1
  <2>4. \A k \in 1..Len(a) : a[k] = b[k]
    BY <1>4, <2>1, <2>2, <2>3
  <2>5. a = b
    BY <2>1, <2>2, <2>4, SeqEqual
  <2> QED BY <2>5 DEF a, b
<1>6. op = Append(r, f)
  <2>1. op = [op EXCEPT ![d] = f]
    BY <1>1
  <2> QED BY <1>1, <1>5, <2>1
<1>7. d = Len(r) + 1
  BY <1>1, <1>4
<1> QED BY <1>1, <1>3, <1>5, <1>6, <1>7

LEMMA BehindsNone ==
  ASSUME NEW ts, NEW x, NEW back
  PROVE  Behinds(ts, <<>>, x, back) <=> Body(ts, 1, x)
BY DEF Behinds

LEMMA BehindsMore ==
  ASSUME NEW ts, NEW r \in Seq(Frm), NEW f \in Frm, NEW x, NEW back \in BOOLEAN
  PROVE  Behinds(ts, Append(r, f), x, back)
           <=> Behinds(ts, r, f.from, FALSE) /\ Behind(ts, f, x, back)
<1> DEFINE op == Append(r, f)
           d  == Len(r)
<1>1. /\ op \in Seq(Frm) /\ Len(op) = d + 1 /\ op[d + 1] = f /\ \A k \in 1..d : op[k] = r[k]
      /\ d \in Nat
  BY AppendProperties
<1>2. /\ op # <<>> /\ (r = <<>> <=> d = 0) /\ (d # 0 => 1 \in 1..d /\ op[1] = r[1])
  BY <1>1
<1> HIDE DEF op
<1>3. (IF op = <<>> THEN x ELSE op[1].from) = IF r = <<>> THEN f.from ELSE r[1].from
  BY <1>1, <1>2
<1>4. ASSUME NEW k \in 1..d
      PROVE  /\ k # d + 1 /\ op[k] = r[k]
             /\ op[k + 1].from = IF k = d THEN f.from ELSE r[k + 1].from
  <2>1. k # d => k + 1 \in 1..d
    BY <1>1
  <2> QED BY <1>1, <2>1
<1>5. \A k \in 1..(d + 1) : k = d + 1 \/ k \in 1..d
  BY <1>1
<1>6. d + 1 \in 1..(d + 1) /\ \A k \in 1..d : k \in 1..(d + 1)
  BY <1>1
<1>7. (back /\ d + 1 = d + 1) = back /\ (back /\ FALSE) = FALSE /\ \A k \in 1..d : (FALSE /\ k = d) = FALSE
  OBVIOUS
<1> DEFINE Inner == Behind(ts, op[d + 1], x, back)
           Outer == \A k \in 1..d : Behind(ts, r[k], IF k = d THEN f.from ELSE r[k + 1].from, FALSE)
<1>8. Behinds(ts, r, f.from, FALSE) <=> Body(ts, 1, IF r = <<>> THEN f.from ELSE r[1].from) /\ Outer
  BY <1>7 DEF Behinds
<1>9. (\A k \in 1..(d + 1) : Behind(ts, op[k], IF k = d + 1 THEN x ELSE op[k + 1].from,
                                    back /\ k = d + 1))
        <=> Inner /\ Outer
  <2> DEFINE P(k) == Behind(ts, op[k], IF k = d + 1 THEN x ELSE op[k + 1].from, back /\ k = d + 1)
             R(k) == Behind(ts, r[k], IF k = d THEN f.from ELSE r[k + 1].from, FALSE)
  <2>1. P(d + 1) <=> Inner
    BY <1>7
  <2>2. ASSUME NEW k \in 1..d PROVE P(k) <=> R(k)
    <3>1. (back /\ k = d + 1) = FALSE
      BY <1>4
    <3> QED BY <1>4, <3>1
  <2> HIDE DEF P, Inner
  <2>3. (\A k \in 1..(d + 1) : P(k)) <=> Inner /\ \A k \in 1..d : R(k)
    <3> HIDE DEF R
    <3> QED BY <1>5, <1>6, <2>1, <2>2
  <2> QED BY <2>3 DEF P
<1>10. Behinds(ts, op, x, back)
         <=> Body(ts, 1, IF op = <<>> THEN x ELSE op[1].from) /\ Inner /\ Outer
  <2> HIDE DEF Inner, Outer
  <2> QED BY <1>1, <1>9 DEF Behinds
<1> QED BY <1>1, <1>3, <1>8, <1>10 DEF op

LEMMA AheadsNone ==
  ASSUME NEW ts, NEW y
  PROVE  Aheads(ts, <<>>, y) <=> y \in Places(ts) /\ Body(ts, y, Len(ts) + 1)
<1>1. ASSUME Aheads(ts, <<>>, y) PROVE y \in Places(ts) /\ Body(ts, y, Len(ts) + 1)
  BY <1>1 DEF Aheads
<1>2. ASSUME y \in Places(ts), Body(ts, y, Len(ts) + 1) PROVE Aheads(ts, <<>>, y)
  <2> DEFINE ends == [k \in 1..1 |-> y]
  <2>1. ends \in [1..(Len(<<>>) + 1) -> Places(ts)] /\ ends[1] = y
    BY <1>2
  <2> HIDE DEF ends
  <2> QED BY <1>2, <2>1 DEF Aheads
<1> QED BY <1>1, <1>2

LEMMA AheadsMore ==
  ASSUME NEW ts, NEW r \in Seq(Frm), NEW f \in Frm, NEW y
  PROVE  Aheads(ts, Append(r, f), y)
           <=> y \in Places(ts) /\ \E z \in Places(ts) : Ahead(ts, f, y, z) /\ Aheads(ts, r, z)
<1> DEFINE op == Append(r, f)
           d  == Len(r)
<1>1. /\ op \in Seq(Frm) /\ Len(op) = d + 1 /\ op[d + 1] = f /\ \A k \in 1..d : op[k] = r[k]
      /\ d \in Nat
  BY AppendProperties
<1> HIDE DEF op
<1>2. /\ d + 1 + 1 = d + 2 /\ d + 2 \in 1..(d + 2) /\ d + 1 \in 1..(d + 1) /\ 1 \in 1..(d + 1)
      /\ d + 2 \notin 1..(d + 1) /\ \A k \in 1..(d + 1) : k \in 1..(d + 2)
      /\ \A k \in 1..d : k \in 1..(d + 1) /\ k + 1 \in 1..(d + 1)
  BY <1>1
<1>3. \A k \in 1..(d + 1) : k = d + 1 \/ k \in 1..d
  BY <1>1
<1> HIDE DEF d
<1>4. ASSUME Aheads(ts, op, y)
      PROVE  y \in Places(ts) /\ \E z \in Places(ts) : Ahead(ts, f, y, z) /\ Aheads(ts, r, z)
  <2>1. PICK ends \in [1..(d + 2) -> Places(ts)] :
          /\ ends[d + 2] = y /\ Body(ts, ends[1], Len(ts) + 1)
          /\ \A k \in 1..(d + 1) : Ahead(ts, op[k], ends[k + 1], ends[k])
    BY <1>1, <1>2, <1>4 DEF Aheads
  <2> DEFINE less == [k \in 1..(d + 1) |-> ends[k]]
  <2>2. less \in [1..(d + 1) -> Places(ts)] /\ \A k \in 1..(d + 1) : less[k] = ends[k]
    BY <1>2
  <2> HIDE DEF less
  <2>3. \A k \in 1..d : Ahead(ts, r[k], less[k + 1], less[k])
    BY <1>1, <1>2, <2>1, <2>2
  <2>4. Aheads(ts, r, less[d + 1])
    BY <1>2, <2>1, <2>2, <2>3 DEF Aheads, d
  <2>5. Ahead(ts, f, y, less[d + 1]) /\ less[d + 1] \in Places(ts) /\ y \in Places(ts)
    BY <1>1, <1>2, <2>1, <2>2
  <2> QED BY <2>4, <2>5
<1>5. ASSUME y \in Places(ts), NEW z \in Places(ts), Ahead(ts, f, y, z), Aheads(ts, r, z)
      PROVE  Aheads(ts, op, y)
  <2>1. PICK ends \in [1..(d + 1) -> Places(ts)] :
          /\ ends[d + 1] = z /\ Body(ts, ends[1], Len(ts) + 1)
          /\ \A k \in 1..d : Ahead(ts, r[k], ends[k + 1], ends[k])
    BY <1>5 DEF Aheads, d
  <2> DEFINE more == [k \in 1..(d + 2) |-> IF k = d + 2 THEN y ELSE ends[k]]
  <2>2. /\ more[d + 2] = y /\ \A k \in 1..(d + 1) : more[k] = ends[k]
    BY <1>2
  <2>3. more \in [1..(d + 2) -> Places(ts)]
    <3>1. \A k \in 1..(d + 2) : k = d + 2 \/ k \in 1..(d + 1)
      BY <1>1
    <3> QED BY <1>5, <2>1, <3>1
  <2> HIDE DEF more
  <2>4. \A k \in 1..(d + 1) : Ahead(ts, op[k], more[k + 1], more[k])
    <3>1. Ahead(ts, op[d + 1], more[d + 1 + 1], more[d + 1])
      BY <1>1, <1>2, <1>5, <2>1, <2>2
    <3>2. \A k \in 1..d : Ahead(ts, op[k], more[k + 1], more[k])
      BY <1>1, <1>2, <2>1, <2>2
    <3> QED BY <1>3, <3>1, <3>2
  <2> QED BY <1>1, <1>2, <2>1, <2>2, <2>3, <2>4 DEF Aheads
<1> QED BY <1>4, <1>5 DEF op
-----------------------------------------------------------------------------
(***************************************************************************)
(* The grammar and a state of parse_prog.  Sounds: what is parsed so far is*)
(* of the grammar.  Completes: if the program is, so is what remains, with *)
(* the running calls to return to.                                         *)
(***************************************************************************)
PartOf(op) == IF op = <<>> THEN "body" ELSE op[Len(op)].part

Sounds(ts, i, op, st) ==
  /\ st \in {"stmt", "back"} => Behinds(ts, op, i, st = "back")
  /\ st = "done" => Body(ts, 1, Len(ts) + 1)

Completes(ts, i, op, st) ==
  Body(ts, 1, Len(ts) + 1) =>
    /\ st \notin {"exited", "overrun"}
    /\ st = "back" => Aheads(ts, op, i)
    /\ st = "stmt" => \E y \in Places(ts) : Ends(ts, PartOf(op), i, y) /\ Aheads(ts, op, y)

Fits(ts, i, op, st) == Sounds(ts, i, op, st) /\ Completes(ts, i, op, st)

LEMMA PartMore == ASSUME NEW r \in Seq(Frm), NEW f \in Frm PROVE PartOf(Append(r, f)) = f.part
BY AppendProperties DEF PartOf

(* The innermost call parses with part, its callee ends.                   *)
LEMMA BehindsBack ==
  ASSUME NEW ts \in Seq(TokenTypes), NEW op \in Seq(Frm), NEW x \in Places(ts), NEW e \in Places(ts),
         Behinds(ts, op, x, FALSE), Ends(ts, PartOf(op), x, e)
  PROVE  Behinds(ts, op, e, TRUE)
<1>1. x \in Nat \ {0} /\ e \in Nat \ {0} /\ x <= e /\ 1 \in Places(ts)
  BY PlaceType DEF Ends
<1>2. CASE op = <<>>
  <2>1. Body(ts, 1, x) /\ Stmt(ts, x, e) /\ x < e
    BY <1>2, BehindsNone DEF PartOf, Ends
  <2>2. Body(ts, 1, e)
    BY <1>1, <2>1, BodyAppend
  <2> QED BY <1>2, <2>2, BehindsNone
<1>3. CASE op # <<>>
  <2>1. PICK r \in Seq(Frm), f \in Frm : op = Append(r, f)
    BY <1>3, Innermost
  <2>2. Behinds(ts, r, f.from, FALSE) /\ Behind(ts, f, x, FALSE)
    BY <2>1, BehindsMore
  <2>3. Stmt(ts, x, e) \/ (f.part # "body" /\ x = e /\ KindAt(ts, x) = "NONE")
    BY <2>1, PartMore DEF Ends
  <2>4. Behind(ts, f, e, TRUE)
    BY <1>1, <2>2, <2>3, BehindBack
  <2> QED BY <2>1, <2>2, <2>4, BehindsMore
<1> QED BY <1>2, <1>3

(* The callee ends where what is ahead has it end.                         *)
LEMMA FitsBack ==
  ASSUME NEW ts \in Seq(TokenTypes), NEW op \in Seq(Frm), NEW i \in Places(ts), NEW e \in Places(ts),
         Fits(ts, i, op, "stmt"), Ends(ts, PartOf(op), i, e),
         \A y \in Places(ts) : Ends(ts, PartOf(op), i, y) => y = e
  PROVE  Fits(ts, e, op, "back")
<1>1. Sounds(ts, e, op, "back")
  BY BehindsBack DEF Fits, Sounds
<1>2. Completes(ts, e, op, "back")
  BY DEF Fits, Completes
<1> QED BY <1>1, <1>2 DEF Fits
-----------------------------------------------------------------------------
LEMMA FitsInit ==
  ASSUME NEW ts \in Seq(TokenTypes)
  PROVE  Fits(ts, 1, <<>>, "back")
<1>1. 1 \in Places(ts)
  BY PlaceType
<1>2. Sounds(ts, 1, <<>>, "back")
  BY <1>1, BodyEmpty, BehindsNone DEF Sounds
<1>3. Completes(ts, 1, <<>>, "back")
  BY <1>1, AheadsNone DEF Completes
<1> QED BY <1>2, <1>3 DEF Fits

LEMMA FitsAgain ==
  ASSUME NEW ts \in Seq(TokenTypes), NEW op \in Seq(Frm), NEW i \in Places(ts),
         Fits(ts, i, op, "back"), PartOf(op) = "body", At(ts, i) # "token_empty",
         op # <<>> => At(ts, i) # "close_braces"
  PROVE  Fits(ts, i, op, "stmt")
<1>1. i \in Nat \ {0} /\ i <= Len(ts) /\ Len(ts) \in Nat /\ Len(ts) + 1 \in Places(ts)
  BY PlaceType, AtType
<1>2. CASE op = <<>>
  <2>1. Sounds(ts, i, op, "stmt")
    BY <1>2, BehindsNone DEF Fits, Sounds
  <2>2. ASSUME Body(ts, 1, Len(ts) + 1)
        PROVE  \E y \in Places(ts) : Ends(ts, PartOf(op), i, y) /\ Aheads(ts, op, y)
    <3>1. Body(ts, i, Len(ts) + 1)
      BY <1>2, <2>2, AheadsNone DEF Fits, Completes
    <3>2. PICK k \in Places(ts) : i < k /\ Stmt(ts, i, k) /\ Body(ts, k, Len(ts) + 1)
      BY <1>1, <3>1, BodyStart
    <3> QED BY <1>2, <3>2, AheadsNone DEF Ends
  <2> QED BY <2>1, <2>2 DEF Fits, Completes
<1>3. CASE op # <<>>
  <2>1. PICK r \in Seq(Frm), f \in Frm : op = Append(r, f)
    BY <1>3, Innermost
  <2>2. f.part = "body"
    BY <2>1, PartMore
  <2>3. Sounds(ts, i, op, "stmt")
    <3>1. Behinds(ts, r, f.from, FALSE) /\ Behind(ts, f, i, TRUE)
      BY <2>1, BehindsMore DEF Fits, Sounds
    <3>2. Behind(ts, f, i, FALSE)
      BY <2>2, <3>1 DEF Behind
    <3> QED BY <2>1, <3>1, <3>2, BehindsMore DEF Sounds
  <2>4. ASSUME Body(ts, 1, Len(ts) + 1)
        PROVE  \E y \in Places(ts) : Ends(ts, PartOf(op), i, y) /\ Aheads(ts, op, y)
    <3>1. PICK z \in Places(ts) : Ahead(ts, f, i, z) /\ Aheads(ts, r, z)
      BY <2>1, <2>4, AheadsMore DEF Fits, Completes
    <3>2. PICK k \in Places(ts) : Ends(ts, "body", i, k) /\ Ahead(ts, f, k, z)
      BY <1>3, <2>2, <3>1, AheadMore
    <3> QED BY <2>1, <3>1, <3>2, AheadsMore
  <2> QED BY <2>3, <2>4 DEF Fits, Completes
<1> QED BY <1>2, <1>3

LEMMA FitsLeaf ==
  ASSUME NEW ts \in Seq(TokenTypes), NEW op \in Seq(Frm), NEW i \in Places(ts), NEW e \in Places(ts),
         Fits(ts, i, op, "stmt"), NEW kind \in LeafKinds, LeafStmt(ts, kind, i, e)
  PROVE  Fits(ts, e, op, "back") /\ kind = KindAt(ts, i) /\ Stmt(ts, i, e)
<1>1. i \in Int /\ e \in Int /\ i < e /\ kind = KindAt(ts, i)
  BY PlaceType, LeafLong, LeafShape
<1>2. Stmt(ts, i, e)
  BY <1>1, LeafMade
<1>3. Ends(ts, PartOf(op), i, e)
  BY <1>1, <1>2 DEF Ends
<1>4. \A y \in Places(ts) : Ends(ts, PartOf(op), i, y) => y = e
  BY <1>1, AheadLeaf
<1> QED BY <1>1, <1>2, <1>3, <1>4, FitsBack

LEMMA FitsNone ==
  ASSUME NEW ts \in Seq(TokenTypes), NEW op \in Seq(Frm), NEW i \in Places(ts),
         Fits(ts, i, op, "stmt"), KindAt(ts, i) = "NONE", PartOf(op) # "body"
  PROVE  Fits(ts, i, op, "back")
<1>1. Ends(ts, PartOf(op), i, i)
  BY DEF Ends
<1>2. ASSUME NEW y \in Places(ts), Ends(ts, PartOf(op), i, y), i < y, Stmt(ts, i, y) PROVE FALSE
  BY <1>2, PlaceType, StmtShape DEF StmtKinds, LeafKinds, BodyKinds
<1>3. \A y \in Places(ts) : Ends(ts, PartOf(op), i, y) => y = i
  BY <1>2 DEF Ends
<1> QED BY <1>1, <1>3, FitsBack

LEMMA FitsHead ==
  ASSUME NEW ts \in Seq(TokenTypes), NEW op \in Seq(Frm), NEW i \in Places(ts), NEW e \in Places(ts),
         Fits(ts, i, op, "stmt"), NEW kind \in BodyKinds, BodyHead(ts, kind, i, e), i < e,
         NEW f \in Frm, f.kind = kind, f.from = i, f.part = "body"
  PROVE  Fits(ts, e, Append(op, f), "back")
<1>1. i \in Nat \ {0} /\ e \in Int /\ kind = KindAt(ts, i)
  BY PlaceType, HeadShape
<1>2. Behind(ts, f, e, TRUE)
  BY <1>1, BehindHead DEF HeadTo
<1>3. Behinds(ts, Append(op, f), e, TRUE)
  BY <1>2, BehindsMore DEF Fits, Sounds
<1>4. Sounds(ts, e, Append(op, f), "back")
  BY <1>3 DEF Sounds
<1>5. ASSUME Body(ts, 1, Len(ts) + 1) PROVE Aheads(ts, Append(op, f), e)
  <2>1. PICK y \in Places(ts) : Ends(ts, PartOf(op), i, y) /\ Aheads(ts, op, y)
    BY <1>5 DEF Fits, Completes
  <2>2. Ahead(ts, f, e, y)
    BY <1>1, <2>1, AheadHead
  <2> QED BY <2>1, <2>2, AheadsMore
<1> QED BY <1>4, <1>5 DEF Fits, Completes

LEMMA FitsFor ==
  ASSUME NEW ts \in Seq(TokenTypes), NEW op \in Seq(Frm), NEW i \in Places(ts),
         Fits(ts, i, op, "stmt"), KindAt(ts, i) = "FOR", At(ts, i + 1) = "open_paren",
         NEW f \in Frm, f.kind = "FOR", f.from = i, f.part = "init"
  PROVE  Fits(ts, i + 2, Append(op, f), "stmt")
<1>1. i \in Nat \ {0}
  BY PlaceType
<1>2. Behind(ts, f, i + 2, FALSE)
  BY <1>1, BehindFor
<1>3. Behinds(ts, Append(op, f), i + 2, FALSE)
  BY <1>2, BehindsMore DEF Fits, Sounds
<1>4. Sounds(ts, i + 2, Append(op, f), "stmt")
  BY <1>3 DEF Sounds
<1>5. ASSUME Body(ts, 1, Len(ts) + 1)
      PROVE  \E a \in Places(ts) : /\ Ends(ts, PartOf(Append(op, f)), i + 2, a)
                                   /\ Aheads(ts, Append(op, f), a)
  <2>1. PICK y \in Places(ts) : Ends(ts, PartOf(op), i, y) /\ Aheads(ts, op, y)
    BY <1>5 DEF Fits, Completes
  <2>2. PICK a \in Places(ts) : Ends(ts, "init", i + 2, a) /\ Ahead(ts, f, a, y)
    BY <2>1, AheadFor
  <2> QED BY <2>1, <2>2, AheadsMore, PartMore
<1> QED BY <1>4, <1>5 DEF Fits, Completes

LEMMA FitsStep ==
  ASSUME NEW ts \in Seq(TokenTypes), NEW r \in Seq(Frm), NEW f \in Frm, NEW i \in Places(ts),
         Fits(ts, i, Append(r, f), "back"), f.part = "init",
         NEW e \in i..Len(ts), OptionalValue(ts, i, e), ts[e] = "semi",
         NEW g \in Frm, g.kind = f.kind, g.from = f.from, g.part = "step"
  PROVE  Fits(ts, e + 1, Append(r, g), "stmt")
<1>1. i \in Nat \ {0} /\ e \in Int
  BY PlaceType
<1>2. Behinds(ts, r, f.from, FALSE) /\ Behind(ts, f, i, TRUE)
  BY BehindsMore DEF Fits, Sounds
<1>3. Behinds(ts, Append(r, g), e + 1, FALSE)
  <2>1. Behind(ts, g, e + 1, FALSE)
    BY <1>2, BehindStep
  <2> QED BY <1>2, <2>1, BehindsMore
<1>4. Sounds(ts, e + 1, Append(r, g), "stmt")
  BY <1>3 DEF Sounds
<1>5. ASSUME Body(ts, 1, Len(ts) + 1)
      PROVE  \E c \in Places(ts) : /\ Ends(ts, PartOf(Append(r, g)), e + 1, c)
                                   /\ Aheads(ts, Append(r, g), c)
  <2>1. PICK z \in Places(ts) : Ahead(ts, f, i, z) /\ Aheads(ts, r, z)
    BY <1>5, AheadsMore DEF Fits, Completes
  <2>2. PICK c \in Places(ts) : Ends(ts, "step", e + 1, c) /\ Ahead(ts, g, c, z)
    BY <1>1, <2>1, AheadStep
  <2> QED BY <2>1, <2>2, AheadsMore, PartMore
<1> QED BY <1>4, <1>5 DEF Fits, Completes

LEMMA FitsBody ==
  ASSUME NEW ts \in Seq(TokenTypes), NEW r \in Seq(Frm), NEW f \in Frm, NEW i \in Places(ts),
         Fits(ts, i, Append(r, f), "back"), f.part = "step", At(ts, i) = "open_braces",
         NEW g \in Frm, g.kind = f.kind, g.from = f.from, g.part = "body"
  PROVE  Fits(ts, i + 1, Append(r, g), "back")
<1>1. Behinds(ts, r, f.from, FALSE) /\ Behind(ts, f, i, TRUE)
  BY BehindsMore DEF Fits, Sounds
<1>2. Behinds(ts, Append(r, g), i + 1, TRUE)
  <2>1. Behind(ts, g, i + 1, TRUE)
    BY <1>1, BehindBody
  <2> QED BY <1>1, <2>1, BehindsMore
<1>3. Sounds(ts, i + 1, Append(r, g), "back")
  BY <1>2 DEF Sounds
<1>4. ASSUME Body(ts, 1, Len(ts) + 1) PROVE Aheads(ts, Append(r, g), i + 1)
  <2>1. PICK z \in Places(ts) : Ahead(ts, f, i, z) /\ Aheads(ts, r, z)
    BY <1>4, AheadsMore DEF Fits, Completes
  <2>2. i + 1 \in Places(ts) /\ Ahead(ts, g, i + 1, z)
    BY <2>1, AheadBody
  <2> QED BY <2>1, <2>2, AheadsMore
<1> QED BY <1>3, <1>4 DEF Fits, Completes

LEMMA FitsClose ==
  ASSUME NEW ts \in Seq(TokenTypes), NEW r \in Seq(Frm), NEW f \in Frm, NEW i \in Places(ts),
         Fits(ts, i, Append(r, f), "back"), f.part = "body", At(ts, i) = "close_braces"
  PROVE  Fits(ts, i + 1, r, "back") /\ f.kind = KindAt(ts, f.from) /\ Stmt(ts, f.from, i + 1)
<1>1. Behinds(ts, r, f.from, FALSE) /\ Behind(ts, f, i, TRUE)
  BY BehindsMore DEF Fits, Sounds
<1>2. /\ i + 1 \in Places(ts) /\ f.from \in Places(ts) /\ f.from < i + 1
      /\ f.kind = KindAt(ts, f.from) /\ Stmt(ts, f.from, i + 1)
  BY <1>1, BehindEnd
<1>3. Ends(ts, PartOf(r), f.from, i + 1)
  BY <1>2 DEF Ends
<1>4. Sounds(ts, i + 1, r, "back")
  BY <1>1, <1>2, <1>3, BehindsBack DEF Sounds
<1>5. ASSUME Body(ts, 1, Len(ts) + 1) PROVE Aheads(ts, r, i + 1)
  <2>1. PICK z \in Places(ts) : Ahead(ts, f, i, z) /\ Aheads(ts, r, z)
    BY <1>5, AheadsMore DEF Fits, Completes
  <2>2. z = i + 1
    BY <2>1, AheadEnd
  <2> QED BY <2>1, <2>2
<1> QED BY <1>2, <1>4, <1>5 DEF Fits, Completes
-----------------------------------------------------------------------------
(* The invariant, and its steps.                                           *)
NodesFit ==
  \A n \in nodes : n.kind # "ZERO" =>
    n.kind = KindAt(m_tokens, n.from) /\ Stmt(m_tokens, n.from, n.to)

GInv == Fits(m_tokens, m_index, open, status) /\ NodesFit

LEMMA Typed ==
  ASSUME IInv
  PROVE  /\ m_tokens \in Seq(TokenTypes) /\ m_index \in Places(m_tokens) /\ open \in Seq(Frm)
         /\ Part = PartOf(open) /\ status \in Statuses
BY DEF IInv, TypeOK, Places, Part, PartOf, Caller

LEMMA Exits ==
  ASSUME NEW ts \in Seq(TokenTypes), NEW i \in Places(ts), NEW op \in Seq(Frm), NEW st, NEW end,
         end \in {"exited", "overrun"}, Fits(ts, i, op, st), ~Body(ts, 1, Len(ts) + 1)
  PROVE  Fits(ts, i, op, end)
BY DEF Fits, Sounds, Completes

(* A program of the grammar is never left.                                 *)
LEMMA StmtGoes ==
  ASSUME IInv, status = "stmt", NEW y \in Places(m_tokens), Ends(m_tokens, Part, m_index, y)
  PROVE  Parses /\ ~HeadOverrun(m_tokens, m_index)
<1> DEFINE ts == m_tokens
           i  == m_index
<1>1. /\ ts \in Seq(TokenTypes) /\ i \in Places(ts) /\ i \in Int /\ y \in Int
      /\ i \in Nat \ {0} /\ y \in Nat \ {0} /\ Len(ts) \in Nat /\ y <= Len(ts) + 1
  BY Typed, PlaceType
<1>2. CASE i = y /\ Part # "body" /\ KindAt(ts, i) = "NONE"
  BY <1>2 DEF Parses, HeadOverrun
<1>3. CASE i < y /\ Stmt(ts, i, y)
  <2>1. y \in (i + 1)..(Len(ts) + 1)
    BY <1>1, <1>3
  <2>2. CASE \E kind \in LeafKinds : LeafStmt(ts, kind, i, y)
    <3>1. PICK kind \in LeafKinds : LeafStmt(ts, kind, i, y)
      BY <2>2
    <3>2. Parses
      BY <2>1, <3>1 DEF Parses, StmtKinds
    <3> QED BY <1>1, <3>1, <3>2, HeadStop
  <2>3. CASE \E h \in (i + 1)..(y - 1) : HeadTo(ts, i, h)
    <3>1. PICK h \in (i + 1)..(y - 1) : HeadTo(ts, i, h)
      BY <2>3
    <3>2. h \in (i + 1)..(Len(ts) + 1) /\ h \in Int
      BY <1>1
    <3>3. CASE ForHead(Derives(ts), ts, i, h)
      BY <3>3 DEF ForHead, Parses, HeadOverrun
    <3>4. CASE \E kind \in BodyKinds : BodyHead(ts, kind, i, h)
      <4>1. PICK kind \in BodyKinds : BodyHead(ts, kind, i, h)
        BY <3>4
      <4>2. Parses
        BY <3>2, <4>1 DEF Parses, StmtKinds
      <4> QED BY <1>1, <3>2, <4>1, <4>2, HeadStop
    <3> QED BY <3>1, <3>3, <3>4 DEF HeadTo
  <2>4. i <= y
    BY <1>1, <1>3
  <2> QED BY <1>1, <1>3, <2>2, <2>3, <2>4, StmtShape
<1> QED BY <1>2, <1>3 DEF Ends

LEMMA BackGoes ==
  ASSUME IInv, status = "back", Aheads(m_tokens, open, m_index)
  PROVE  GoesOn /\ ~(Part = "init" /\ ValueOverrun(m_tokens, m_index))
<1> DEFINE ts == m_tokens
           i  == m_index
<1>1. /\ ts \in Seq(TokenTypes) /\ i \in Places(ts) /\ i \in Int /\ Part = PartOf(open)
      /\ i \in Nat \ {0} /\ Len(ts) \in Nat /\ open \in Seq(Frm)
  BY Typed, PlaceType
<1>2. CASE open = <<>>
  <2>1. Part = "body"
    BY <1>2 DEF Part
  <2> QED BY <1>2, <2>1, Zenon DEF GoesOn
<1>3. CASE open # <<>>
  <2>1. PICK r \in Seq(Frm), f \in Frm : open = Append(r, f)
    BY <1>1, <1>3, Innermost
  <2>2. Part = f.part
    BY <1>1, <2>1, PartMore
  <2>3. PICK z \in Places(ts) : Ahead(ts, f, i, z)
    BY <2>1, AheadsMore
  <2>4. z \in Nat \ {0} /\ z <= Len(ts) + 1
    BY <1>1, PlaceType
  <2>5. CASE f.part = "init"
    <3>1. PICK b \in i..Len(ts) : OptionalValue(ts, i, b) /\ At(ts, b) = "semi"
      BY <2>3, <2>5 DEF Ahead
    <3>2. b \in Int /\ ts[b] = "semi"
      BY <1>1, <3>1, AtType
    <3>3. ~ValueOverrun(ts, i)
      BY <1>1, <3>1, <3>2, ValueStop
    <3>4. \E e \in i..Len(ts) : OptionalValue(ts, i, e) /\ ts[e] = "semi"
      BY <3>1, <3>2
    <3>5. GoesOn
      BY <2>2, <2>5, <3>4, Zenon DEF GoesOn
    <3> QED BY <3>3, <3>5
  <2>6. CASE f.part = "step"
    <3>1. Now = "open_braces"
      BY <2>3, <2>6 DEF Ahead, Now
    <3>2. GoesOn
      BY <2>2, <2>6, <3>1, Zenon DEF GoesOn
    <3> QED BY <2>2, <2>6, <3>2
  <2>7. CASE f.part = "body"
    <3>1. i <= z - 1 /\ At(ts, z - 1) = "close_braces"
      BY <2>3 DEF Ahead
    <3>2. i \in 1..Len(ts)
      BY <1>1, <2>4, <3>1
    <3>3. Now # "token_empty"
      <4>1. Now = ts[i] /\ ts[i] \in TokenTypes
        BY <1>1, <3>2 DEF Now, At
      <4> QED BY <4>1 DEF TokenTypes, Operators, Precedence, Values, Operands, DeclTypes
    <3>4. GoesOn
      BY <2>2, <2>7, <3>3, Zenon DEF GoesOn
    <3> QED BY <2>2, <2>7, <3>4
  <2> QED BY <2>5, <2>6, <2>7, FrmType
<1> QED BY <1>2, <1>3

LEMMA GInit == Init => GInv
<1> SUFFICES ASSUME Init PROVE GInv
  OBVIOUS
<1>1. m_tokens \in Seq(TokenTypes) /\ m_index = 1 /\ open = <<>> /\ nodes = {} /\ status = "back"
  BY InputsAssumption DEF Init
<1> QED BY <1>1, FitsInit DEF GInv, NodesFit

LEMMA GNext == ASSUME IInv, GInv, IInv', [Next]_vars PROVE GInv'
<1>1. /\ m_tokens \in Seq(TokenTypes) /\ m_index \in Places(m_tokens) /\ open \in Seq(Frm)
      /\ Part = PartOf(open) /\ status \in Statuses
      /\ Fits(m_tokens, m_index, open, status) /\ NodesFit
  BY Typed DEF GInv
<1>2. m_index' \in Places(m_tokens') /\ open' \in Seq(Frm)
  BY DEF IInv, TypeOK, Places
<1>3. /\ m_index \in Nat \ {0} /\ Len(m_tokens) \in Nat
  BY <1>1, PlaceType
<1> DEFINE ts == m_tokens
           i  == m_index
<1>4. CASE Again
  <2>1. Fits(ts, i, open, "stmt")
    BY <1>1, <1>4, FitsAgain DEF Again, Now
  <2> QED BY <1>1, <1>4, <2>1 DEF Again, GInv, NodesFit
<1>5. CASE ParseLeaf
  <2>1. PICK kind \in LeafKinds, e \in (i + 1)..(Len(ts) + 1) :
          LeafStmt(ts, kind, i, e) /\ nodes' = nodes \cup {Node(kind, i, e)} /\ i' = e
    BY <1>5 DEF ParseLeaf
  <2>2. UNCHANGED <<m_tokens, open>> /\ status = "stmt" /\ status' = "back"
    BY <1>5 DEF ParseLeaf
  <2>3. e \in Places(ts)
    BY <1>2, <2>1, <2>2
  <2>4. Fits(ts, e, open, "back") /\ kind = KindAt(ts, i) /\ Stmt(ts, i, e)
    BY <1>1, <2>1, <2>2, <2>3, FitsLeaf
  <2>5. NodesFit'
    BY <1>1, <2>1, <2>2, <2>4 DEF NodesFit, Node
  <2> QED BY <2>1, <2>2, <2>4, <2>5 DEF GInv
<1>6. CASE OpenBody
  <2>1. PICK kind \in BodyKinds, e \in (i + 1)..(Len(ts) + 1) :
          /\ BodyHead(ts, kind, i, e)
          /\ open' = Append(open, [kind |-> kind, from |-> i, part |-> "body"]) /\ i' = e
    BY <1>6 DEF OpenBody
  <2>2. UNCHANGED <<m_tokens, nodes>> /\ status = "stmt" /\ status' = "back"
    BY <1>6 DEF OpenBody
  <2> DEFINE f == [kind |-> kind, from |-> i, part |-> "body"]
  <2>3. f \in Frm /\ f.kind = kind /\ f.from = i /\ f.part = "body" /\ open' = Append(open, f)
    BY <1>3, <2>1 DEF Frm, Parts
  <2> HIDE DEF f
  <2>4. e \in Places(ts) /\ i < e
    BY <1>2, <1>3, <2>1, <2>2
  <2>5. Fits(ts, e, Append(open, f), "back")
    BY <1>1, <2>1, <2>2, <2>3, <2>4, FitsHead
  <2> QED BY <1>1, <2>1, <2>2, <2>3, <2>5 DEF GInv, NodesFit
<1>7. CASE OpenFor
  <2> DEFINE f == [kind |-> "FOR", from |-> i, part |-> "init"]
  <2>1. f \in Frm /\ f.kind = "FOR" /\ f.from = i /\ f.part = "init" /\ open' = Append(open, f)
    BY <1>3, <1>7 DEF OpenFor, Frm, Parts
  <2> HIDE DEF f
  <2>2. /\ UNCHANGED <<m_tokens, nodes, status>> /\ status = "stmt" /\ i' = i + 2
        /\ KindAt(ts, i) = "FOR" /\ At(ts, i + 1) = "open_paren"
    BY <1>7 DEF OpenFor
  <2>3. Fits(ts, i + 2, Append(open, f), "stmt")
    BY <1>1, <2>1, <2>2, FitsFor
  <2> QED BY <1>1, <2>1, <2>2, <2>3 DEF GInv, NodesFit
<1>8. CASE AfterInit
  <2>1. PICK e \in i..Len(ts) : OptionalValue(ts, i, e) /\ ts[e] = "semi" /\ i' = e + 1
    BY <1>8 DEF AfterInit
  <2>2. /\ UNCHANGED <<m_tokens, nodes>> /\ status = "back" /\ status' = "stmt"
        /\ Part = "init" /\ open # <<>> /\ GoOn("step")
    BY <1>8 DEF AfterInit, Part
  <2>3. PICK r \in Seq(Frm), f \in Frm :
          /\ open = Append(r, f) /\ Len(open) = Len(r) + 1 /\ open[Len(open)] = f
          /\ r = SubSeq(open, 1, Len(open) - 1)
          /\ \A q \in Frm : [open EXCEPT ![Len(open)] = q] = Append(r, q)
    <3>1. open \in Seq(Frm) /\ open # <<>>
      BY <1>1, <2>2
    <3> QED BY <3>1, Innermost
  <2> DEFINE g == [f EXCEPT !.part = "step"]
  <2>6. f.part = "init"
    BY <1>1, <2>2, <2>3, PartMore
  <2>7. g \in Frm /\ g.kind = f.kind /\ g.from = f.from /\ g.part = "step"
    BY FrmGoesOn DEF Parts
  <2>8. open' = [open EXCEPT ![Len(open)] = g]
    BY <2>2, <2>3 DEF GoOn
  <2>4. /\ g \in Frm /\ g.kind = f.kind /\ g.from = f.from /\ g.part = "step" /\ f.part = "init"
        /\ open' = [open EXCEPT ![Len(open)] = g]
    BY <2>6, <2>7, <2>8
  <2> HIDE DEF g
  <2>5. Fits(ts, e + 1, Append(r, g), "stmt")
    BY <1>1, <2>1, <2>2, <2>3, <2>4, FitsStep
  <2> QED BY <1>1, <2>1, <2>2, <2>3, <2>4, <2>5 DEF GInv, NodesFit
<1>9. CASE AfterStep
  <2>2. /\ UNCHANGED <<m_tokens, nodes, status>> /\ status = "back" /\ i' = i + 1
        /\ At(ts, i) = "open_braces" /\ Part = "step" /\ open # <<>> /\ GoOn("body")
    BY <1>9 DEF AfterStep, Part, Now
  <2>3. PICK r \in Seq(Frm), f \in Frm :
          /\ open = Append(r, f) /\ Len(open) = Len(r) + 1 /\ open[Len(open)] = f
          /\ r = SubSeq(open, 1, Len(open) - 1)
          /\ \A q \in Frm : [open EXCEPT ![Len(open)] = q] = Append(r, q)
    <3>1. open \in Seq(Frm) /\ open # <<>>
      BY <1>1, <2>2
    <3> QED BY <3>1, Innermost
  <2> DEFINE g == [f EXCEPT !.part = "body"]
  <2>6. f.part = "step"
    BY <1>1, <2>2, <2>3, PartMore
  <2>7. g \in Frm /\ g.kind = f.kind /\ g.from = f.from /\ g.part = "body"
    BY FrmGoesOn DEF Parts
  <2>8. open' = [open EXCEPT ![Len(open)] = g]
    BY <2>2, <2>3 DEF GoOn
  <2>4. /\ g \in Frm /\ g.kind = f.kind /\ g.from = f.from /\ g.part = "body" /\ f.part = "step"
        /\ open' = [open EXCEPT ![Len(open)] = g]
    BY <2>6, <2>7, <2>8
  <2> HIDE DEF g
  <2>5. Fits(ts, i + 1, Append(r, g), "back")
    BY <1>1, <2>2, <2>3, <2>4, FitsBody
  <2> QED BY <1>1, <2>2, <2>3, <2>4, <2>5 DEF GInv, NodesFit
<1>10. CASE CloseBody
  <2>1. /\ UNCHANGED <<m_tokens, status>> /\ status = "back" /\ i' = i + 1
        /\ At(ts, i) = "close_braces" /\ Part = "body" /\ open # <<>>
        /\ nodes' = nodes \cup {Node(Caller.kind, Caller.from, i + 1)}
        /\ open' = SubSeq(open, 1, Len(open) - 1)
    BY <1>10 DEF CloseBody, Now
  <2>2. PICK r \in Seq(Frm), f \in Frm :
          open = Append(r, f) /\ open[Len(open)] = f /\ r = SubSeq(open, 1, Len(open) - 1)
    BY <1>1, <2>1, Innermost
  <2>3. f.part = "body" /\ Caller = f /\ open' = r
    BY <1>1, <2>1, <2>2, PartMore DEF Caller
  <2>4. Fits(ts, i + 1, r, "back") /\ f.kind = KindAt(ts, f.from) /\ Stmt(ts, f.from, i + 1)
    BY <1>1, <2>1, <2>2, <2>3, FitsClose
  <2>5. NodesFit'
    BY <1>1, <2>1, <2>3, <2>4 DEF NodesFit, Node
  <2> QED BY <2>1, <2>3, <2>4, <2>5 DEF GInv
<1>11. CASE NoStatement
  <2>1. /\ UNCHANGED <<m_tokens, m_index, open>> /\ status = "stmt" /\ status' = "back"
        /\ KindAt(ts, i) = "NONE" /\ Part # "body" /\ nodes' = nodes \cup {Node("ZERO", i, i)}
    BY <1>11 DEF NoStatement
  <2>2. Fits(ts, i, open, "back")
    BY <1>1, <2>1, FitsNone
  <2>3. NodesFit'
    BY <1>1, <2>1 DEF NodesFit, Node
  <2> QED BY <2>1, <2>2, <2>3 DEF GInv
<1>12. CASE Return
  <2>1. /\ UNCHANGED <<m_tokens, m_index, open, nodes>> /\ status = "back" /\ status' = "done"
        /\ open = <<>>
    BY <1>12 DEF Return
  <2>2. i = Len(ts) + 1
    BY <2>1 DEF IInv, AllRead
  <2>3. Body(ts, 1, Len(ts) + 1)
    BY <1>1, <2>1, <2>2, BehindsNone DEF Fits, Sounds
  <2>4. Fits(ts, i, open, "done")
    BY <2>3 DEF Fits, Sounds, Completes
  <2> QED BY <1>1, <2>1, <2>4 DEF GInv, NodesFit
<1>13. CASE Overrun \/ Exit
  <2>1. /\ UNCHANGED <<m_tokens, m_index, open, nodes>> /\ status' \in {"exited", "overrun"}
        /\ status \in {"stmt", "back"}
        /\ status = "stmt" => ~Parses \/ HeadOverrun(ts, i)
        /\ status = "back" => ~GoesOn \/ (Part = "init" /\ ValueOverrun(ts, i))
    BY <1>13 DEF Overrun, Exit, Overruns
  <2>2. ~Body(ts, 1, Len(ts) + 1)
    <3> SUFFICES ASSUME Body(ts, 1, Len(ts) + 1) PROVE FALSE
      OBVIOUS
    <3>1. CASE status = "stmt"
      <4>1. PICK y \in Places(ts) : Ends(ts, Part, i, y)
        BY <1>1, <3>1 DEF Fits, Completes
      <4> QED BY <2>1, <3>1, <4>1, StmtGoes
    <3>2. CASE status = "back"
      <4>1. Aheads(ts, open, i)
        BY <1>1, <3>2 DEF Fits, Completes
      <4> QED BY <2>1, <3>2, <4>1, BackGoes
    <3> QED BY <2>1, <3>1, <3>2
  <2>3. Fits(ts, i, open, status')
    BY <1>1, <2>1, <2>2, Exits
  <2> QED BY <1>1, <2>1, <2>3 DEF GInv, NodesFit
<1>14. CASE UNCHANGED vars
  BY <1>14 DEF vars, GInv, NodesFit
<1> QED BY <1>4, <1>5, <1>6, <1>7, <1>8, <1>9, <1>10, <1>11, <1>12, <1>13, <1>14
        DEF Next, Step, Ended
-----------------------------------------------------------------------------
LEMMA Grammatical == Spec => []GInv
<1>1. IInv /\ IInv' /\ GInv /\ [Next]_vars => GInv'
  BY GNext
<1> QED BY GInit, Invariance, <1>1, PTL DEF Spec

(* Every node is a statement of the grammar where it stands.               *)
THEOREM NodesDerived == Spec => []NodesDerive
<1>1. GInv => NodesDerive
  BY DEF GInv, NodesFit, NodesDerive
<1> QED BY Grammatical, <1>1, PTL

(* parse_prog accepts the programs of the grammar, and no other.           *)
THEOREM GrammarAccepted == Spec => []AcceptsGrammar
<1>1. GInv => AcceptsGrammar
  <2>1. GInv /\ status = "done" => Body(m_tokens, 1, Len(m_tokens) + 1)
    BY DEF GInv, Fits, Sounds
  <2>2. GInv /\ status \in Final /\ Body(m_tokens, 1, Len(m_tokens) + 1) => status = "done"
    BY DEF GInv, Fits, Completes, Final
  <2> QED BY <2>1, <2>2 DEF AcceptsGrammar
<1> QED BY Grammatical, <1>1, PTL
=============================================================================
