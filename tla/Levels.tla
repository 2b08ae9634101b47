------------------------------- MODULE Levels -------------------------------
(***************************************************************************)
(* What a text must be for the processor to keep its stack: at each        *)
(* instruction it is known how far the frame is built and how many bytes   *)
(* of it are in use, whichever way control came there, and what rdi holds. *)
(***************************************************************************)
EXTENDS Processor

(* part: "entry", rbp of the caller is to be pushed; "saved", it is and    *)
(* rsp is to be copied to rbp; "body"; "exit", the frame is given back.    *)
(* high: the bytes of the body between rbp and rsp.  rdi: nothing is known *)
(* of it, it is a number, or it is what it was at the call.                *)
Level(main, part, high, rdi) == [main |-> main, part |-> part, high |-> high, rdi |-> rdi]

Unknown   == [as |-> "any", value |-> 0]
Number(n) == [as |-> "number", value |-> n]
Argument  == [as |-> "argument", value |-> 0]

Start  == Level(TRUE, "entry", 0, Unknown)
Callee == Level(FALSE, "entry", 0, Argument)

LevelType ==
  [main : BOOLEAN, part : {"entry", "saved", "body", "exit"}, high : Nat,
   rdi : [as : {"any", "number", "argument"}, value : Int]]

(* Where control may go from instruction i, a call being one step.         *)
Successors(code, i) ==
  CASE code[i].op \in {"ret", "syscall"} -> {}
    [] code[i].op = "jump" -> {Target(code, i)}
    [] code[i].op = "jz"   -> {i + 1, Target(code, i)}
    [] code[i].op = "skip" -> {i + 1, i + 1 + code[i].value}
    [] OTHER               -> {i + 1}

Sets(c, r) == c.op \in {"imm", "copy", "load", "pop"} /\ c.reg = r

RdiAfter(c, v) ==
  IF c.op = "imm" /\ c.reg = "rdi" /\ c.width >= 4 THEN Number(Wrap(c.width, c.value))
  ELSE IF Sets(c, "rdi") \/ c.op = "call" THEN Unknown ELSE v.rdi

(* The level behind an instruction.                                        *)
After(c, v) ==
  LET w == [v EXCEPT !.rdi = RdiAfter(c, v)]
  IN  CASE v.part = "entry" /\ c.op = "push" -> [w EXCEPT !.part = "saved"]
        [] v.part = "saved"                  -> [w EXCEPT !.part = "body"]
        [] v.part = "body" /\ c.op = "push"  -> [w EXCEPT !.high = @ + 8]
        [] v.part = "body" /\ c.op = "pop"   -> [w EXCEPT !.high = @ - 8]
        [] v.part = "body" /\ c.op = "addsp" -> [w EXCEPT !.high = @ - c.value]
        [] v.part = "body" /\ c.op = "leave" -> [w EXCEPT !.part = "exit", !.high = 0]
        [] OTHER -> w

(* What an instruction may do at a level.                                  *)
Allowed(c, v) ==
  CASE v.part = "entry" -> c.op = "label" \/ (c.op = "push" /\ c.reg = "rbp")
    [] v.part = "saved" -> c.op = "copy" /\ c.reg = "rbp" /\ c.from = "rsp" /\ c.width = 8
    [] v.part = "exit"  -> c.op = "ret" /\ ~v.main
    [] v.part = "body"  -> /\ c.op # "ret" /\ ~Sets(c, "rsp") /\ ~Sets(c, "rbp")
                           /\ c.op = "pop" => v.high >= 8
                           /\ c.op = "addsp" => v.high >= c.value
                           /\ c.op = "leave" => ~v.main

(* Between the statements of the main frame nothing of it is in use.       *)
Between(code, i) == i > 2 /\ code[i].op \in {"store", "label", "jump", "jz", "syscall"}

(* u says no more than v does.                                             *)
Covers(u, v) ==
  u.main = v.main /\ u.part = v.part /\ u.high = v.high /\ u.rdi \in {Unknown, v.rdi}

(* The levels agree along every way that control may take.                 *)
StackLevelled(code, levels) ==
  /\ levels[1] = Start
  /\ \A i \in DOMAIN code :
       /\ Allowed(code[i], levels[i])
       /\ \A j \in Successors(code, i) : Covers(levels[j], After(code[i], levels[i]))
       /\ code[i].op = "call" => levels[Target(code, i)] = Callee
       /\ levels[i].main /\ Between(code, i) => levels[i].part = "body" /\ levels[i].high = 0

(* A call has its argument in rdi, and what a function stores of rdi is    *)
(* the argument; control comes behind that store only from it.             *)
ArgumentsLevelled(code, levels, args) ==
  \A i \in DOMAIN code :
    /\ i \in DOMAIN args => levels[i].rdi = Number(args[i])
    /\ code[i].op = "store" /\ code[i].reg = "rdi" =>
         /\ ~levels[i].main /\ levels[i].rdi = Argument
         /\ \A j \in DOMAIN code : i + 1 \in Successors(code, j) => j = i

(* Control stays in the text, and its numbers fit a register.              *)
Proper(c) ==
  /\ c.op \in {"imm", "copy", "load", "store", "push", "pop", "jz"} => c.reg \in Registers
  /\ c.op \in {"imm", "copy", "load", "store"} => c.width \in Widths
  /\ c.op = "copy" => c.from \in Registers
  /\ c.op \in {"imm", "addsp", "skip"} => c.value \in Int
  /\ c.op \in {"load", "store"} => c.off \in Int
  /\ c.op = "pop" => c.reg # "rsp"
  /\ c.op = "skip" => c.on \in {"always", "zero", "nonzero"}
  /\ c.op = "alu" => c.fn \in Operations

WellFormed(code) ==
  /\ DOMAIN code = 1..Len(code) /\ Len(code) \in Nat \ {0}
  /\ Len(code) + 1 < Values(8)
  /\ \A i \in DOMAIN code :
       /\ Proper(code[i])
       /\ Successors(code, i) \subseteq DOMAIN code
       /\ code[i].op = "call" => Target(code, i) \in DOMAIN code

Levelled(im) ==
  /\ WellFormed(im.code)
  /\ im.levels \in [DOMAIN im.code -> LevelType]
  /\ \A i \in DOMAIN im.code : StackTop + im.levels[i].high + 16 < Values(8)
  /\ StackLevelled(im.code, im.levels)
  /\ ArgumentsLevelled(im.code, im.levels, im.args)
=============================================================================
