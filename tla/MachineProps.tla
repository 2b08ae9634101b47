---------------------------- MODULE MachineProps ----------------------------
(***************************************************************************)
(* What a compiled program keeps of its source, and what comments of the   *)
(* source say of the code that is emitted.                                 *)
(***************************************************************************)
EXTENDS Machine, ProcessorProps

CellValue(x) == Word(FrameTop - image.cells[x].off, image.cells[x].width)

Meant == INSTANCE Source WITH
  prog <- image.prog,
  line <- image.lines[ip],
  env  <- [x \in image.kept |-> CellValue(x)],
  promised <- image.promised

(* The emitted code does what the statements mean, instruction by          *)
(* instruction: partial registers, operands that wait on the stack, labels *)
(* and jumps between them change no variable, take no branch and end with  *)
(* no status that the source would not, traps included.  It holds for the  *)
(* programs and the variables that Source promises it of.                  *)
MeansItsSource == Meant!Spec
-----------------------------------------------------------------------------
(* generation.c:467, "Compute bytes to reserve on stack: slots * 8": what  *)
(* is pushed in the main frame lies below the cells of its variables.      *)
PushesBelowSlots ==
  Is({"push", "call"}) /\ calls = <<>> /\ ip > 2 =>
    \A x \in DOMAIN image.cells :
      BytesOf(image.cells[x]) \cap (FrameTop - regs["rsp"] + 1)..(FrameTop - regs["rsp"] + 8) = {}

(* generation.c:342, "evaluate condition -> rax ; test ; je skip": when an *)
(* IF tests rax, rax is the value of its condition.                        *)
ConditionInRax ==
  Is({"jz"}) /\ image.prog[image.lines[ip][1]].kind = "IF" /\ image.prog[image.lines[ip][1]].expr.kind = "INT_LIT" =>
    regs["rax"] = image.prog[image.lines[ip][1]].expr.value
=============================================================================
