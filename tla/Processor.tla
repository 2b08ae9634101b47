----------------------------- MODULE Processor ------------------------------
(***************************************************************************)
(* The processor that runs an assembled text: byte-addressed memory, one   *)
(* instruction per step.  A register is a number of eight bytes; a write   *)
(* of four bytes clears the upper four, a write of one or two keeps the    *)
(* rest.  Words are little-endian, the stack grows down, and a word        *)
(* outside the mapped stack faults.                                        *)
(***************************************************************************)
EXTENDS Words, Sequences

CONSTANTS Programs,     \* the programs to run
          Compile(_),   \* the image of a program: its text `code`, and what is known of it
          StackTop,     \* rsp when the process starts
          StackSize     \* bound: mapped bytes below StackTop

ASSUME StackAssumption ==
  /\ StackTop \in Nat /\ StackSize \in Nat
  /\ StackSize <= StackTop /\ StackTop + 16 < Values(8)

VARIABLES
  image,    \* the program that runs
  ip,       \* index of the instruction that runs next
  regs,     \* registers
  mem,      \* bytes that were written; a fresh stack is zero
  calls,    \* history: running calls, with what they owe to their callers
  outcome   \* <<"running">>, <<"trap">>, <<"fault">> or <<"exit", status>>

vars == <<image, ip, regs, mem, calls, outcome>>

Registers == {"rax", "rbx", "rcx", "rdx", "rdi", "rsi", "r8", "r9", "r10", "rsp", "rbp"}
Widths    == {1, 2, 4, 8}
Byte      == 0..(ByteValues - 1)
FrameTop  == StackTop - 8       \* rbp of the main frame

Init ==
  /\ \E p \in Programs : image = Compile(p)
  /\ ip = 1
  /\ regs = [r \in Registers |-> IF r = "rsp" THEN StackTop ELSE 0]
  /\ mem = <<>> /\ calls = <<>>
  /\ outcome = <<"running">>
-----------------------------------------------------------------------------
Cur == image.code[ip]
Is(ops) == outcome = <<"running">> /\ Cur.op \in ops

Mapped(a, w) == a >= StackTop - StackSize /\ a + w <= StackTop + 8
ByteAt(m, a) == IF a \in DOMAIN m THEN m[a] ELSE 0

(* The word of w bytes at a.                                               *)
WordAt(m, a, w) ==
  LET upper[k \in 0..w] ==
        IF k = 0 THEN 0 ELSE ByteAt(m, a + w - k) + ByteValues * upper[k - 1]
  IN  upper[w]
Word(a, w) == WordAt(mem, a, w)

(* Memory with n written into the w bytes at a.                            *)
Written(m, a, w, n) ==
  [b \in DOMAIN m \cup a..(a + w - 1) |->
     IF b \in a..(a + w - 1) THEN (n \div Values(b - a)) % ByteValues ELSE m[b]]

SetReg(r, w, n) ==
  [regs EXCEPT ![r] = IF w >= 4 THEN Wrap(w, n) ELSE @ - Wrap(w, @) + Wrap(w, n)]

Goes(r) == regs' = r /\ ip' = ip + 1 /\ UNCHANGED <<image, mem, calls, outcome>>

(* The place of a label.                                                   *)
Target(code, i) ==
  CHOOSE j \in DOMAIN code :
    code[j].op = "label" /\ code[j].tag = code[i].tag /\ code[j].id = code[i].id
Here == Target(image.code, ip)
-----------------------------------------------------------------------------
Move ==
  /\ Is({"imm", "copy"})
  /\ Goes(SetReg(Cur.reg, Cur.width, IF Cur.op = "imm" THEN Cur.value ELSE regs[Cur.from]))

LoadCell ==
  /\ Is({"load"}) /\ Mapped(regs["rbp"] - Cur.off, Cur.width)
  /\ Goes(SetReg(Cur.reg, Cur.width, Word(regs["rbp"] - Cur.off, Cur.width)))

StoreCell ==
  /\ Is({"store"}) /\ Mapped(regs["rbp"] - Cur.off, Cur.width)
  /\ mem' = Written(mem, regs["rbp"] - Cur.off, Cur.width, regs[Cur.reg])
  /\ ip' = ip + 1
  /\ UNCHANGED <<image, regs, calls, outcome>>

PushWord ==
  /\ Is({"push"}) /\ Mapped(regs["rsp"] - 8, 8)
  /\ mem' = Written(mem, regs["rsp"] - 8, 8, regs[Cur.reg])
  /\ regs' = [regs EXCEPT !["rsp"] = @ - 8]
  /\ ip' = ip + 1
  /\ UNCHANGED <<image, calls, outcome>>

PopWord ==
  /\ Is({"pop"}) /\ Mapped(regs["rsp"], 8)
  /\ Goes([regs EXCEPT ![Cur.reg] = Word(regs["rsp"], 8), !["rsp"] = @ + 8])

MoveStack ==
  /\ Is({"addsp"})
  /\ Goes([regs EXCEPT !["rsp"] = Wrap(8, @ + Cur.value)])

(* rax and rbx as signed numbers.  cmp, setcc and movzx are one            *)
(* instruction here, and so are cqo and idiv, which leave the remainder in *)
(* rdx and trap where no quotient fits a register.                         *)
Lhs == Signed(8, regs["rax"])
Rhs == Signed(8, regs["rbx"])
DivideTraps == Cur.fn = "divide" /\ (Rhs = 0 \/ (Rhs = -1 /\ 2 * Lhs = -Values(8)))

Compute ==
  /\ Is({"alu", "test"}) /\ (Cur.op = "alu" => Cur.fn # "divide")
  /\ Goes(SetReg("rax", 8, IF Cur.op = "test" THEN Truth(regs["rax"] # 0)
                           ELSE Meaning(Cur.fn, Lhs, Rhs)))

Divide ==
  /\ Is({"alu"}) /\ Cur.fn = "divide" /\ ~DivideTraps
  /\ LET quotient == Meaning(Cur.fn, Lhs, Rhs)
     IN  Goes([SetReg("rax", 8, quotient) EXCEPT !["rdx"] = Wrap(8, Lhs - Rhs * quotient)])

Trap ==
  /\ Is({"alu"}) /\ DivideTraps
  /\ outcome' = <<"trap">>
  /\ UNCHANGED <<image, ip, regs, mem, calls>>

SkipsOn(when) == CASE when = "always"  -> TRUE
                   [] when = "zero"    -> regs["rax"] = 0
                   [] when = "nonzero" -> regs["rax"] # 0

Jump ==
  /\ Is({"label", "jump", "jz", "skip"})
  /\ ip' = CASE Cur.op = "label" -> ip + 1
             [] Cur.op = "jump"  -> Here
             [] Cur.op = "jz"    -> IF regs[Cur.reg] = 0 THEN Here ELSE ip + 1
             [] Cur.op = "skip"  -> IF SkipsOn(Cur.on) THEN ip + 1 + Cur.value ELSE ip + 1
  /\ UNCHANGED <<image, regs, mem, calls, outcome>>

(* The call leaves its return address on the stack; what the callee has to *)
(* put back, and its first argument, go into the history.                  *)
CallIn ==
  /\ Is({"call"}) /\ Mapped(regs["rsp"] - 8, 8)
  /\ mem' = Written(mem, regs["rsp"] - 8, 8, ip + 1)
  /\ regs' = [regs EXCEPT !["rsp"] = @ - 8]
  /\ ip' = Here
  /\ calls' = Append(calls, [back |-> ip + 1, rbp |-> regs["rbp"], rsp |-> regs["rsp"],
                             arg |-> regs["rdi"]])
  /\ UNCHANGED <<image, outcome>>

LeaveFrame ==
  /\ Is({"leave"}) /\ Mapped(regs["rbp"], 8)
  /\ Goes([regs EXCEPT !["rbp"] = Word(regs["rbp"], 8), !["rsp"] = regs["rbp"] + 8])

ReturnAddress == Word(regs["rsp"], 8)

Back ==
  /\ Is({"ret"}) /\ Mapped(regs["rsp"], 8) /\ ReturnAddress \in DOMAIN image.code
  /\ ip' = ReturnAddress
  /\ regs' = [regs EXCEPT !["rsp"] = @ + 8]
  /\ calls' = SubSeq(calls, 1, Len(calls) - 1)
  /\ UNCHANGED <<image, mem, outcome>>

(* syscall: every one that is emitted is exit, whose status is one byte.   *)
Quit ==
  /\ Is({"syscall"})
  /\ outcome' = <<"exit", Wrap(1, regs["rdi"])>>
  /\ UNCHANGED <<image, ip, regs, mem, calls>>

Fault ==
  /\ \/ Is({"load", "store"}) /\ ~Mapped(regs["rbp"] - Cur.off, Cur.width)
     \/ Is({"push", "call"}) /\ ~Mapped(regs["rsp"] - 8, 8)
     \/ Is({"pop", "ret"}) /\ ~Mapped(regs["rsp"], 8)
     \/ Is({"leave"}) /\ ~Mapped(regs["rbp"], 8)
     \/ Is({"ret"}) /\ ReturnAddress \notin DOMAIN image.code
  /\ outcome' = <<"fault">>
  /\ UNCHANGED <<image, ip, regs, mem, calls>>

Ended == outcome # <<"running">> /\ UNCHANGED vars

Next == \/ Move \/ LoadCell \/ StoreCell \/ PushWord \/ PopWord \/ MoveStack \/ Compute \/ Divide \/ Trap
        \/ Jump \/ CallIn \/ LeaveFrame \/ Back \/ Quit \/ Fault \/ Ended

Spec == Init /\ [][Next]_vars
=============================================================================
