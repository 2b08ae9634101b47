--------------------------- MODULE ProcessorProps ---------------------------
(***************************************************************************)
(* What a compiled program keeps while it runs, of its stack, its calls    *)
(* and their arguments.                                                    *)
(***************************************************************************)
EXTENDS Levels

Running == outcome = <<"running">>

(* The type invariant: whatever the program does to its stack, control     *)
(* stays in the text and registers and bytes keep their widths.            *)
TypeOK ==
  /\ ip \in DOMAIN image.code
  /\ regs \in [Registers -> 0..(Values(8) - 1)]
  /\ DOMAIN mem \subseteq (StackTop - StackSize)..(StackTop + 7)
  /\ \A a \in DOMAIN mem : mem[a] \in Byte
  /\ outcome \in {<<"running">>, <<"trap">>, <<"fault">>} \cup {<<"exit", n>> : n \in Byte}
-----------------------------------------------------------------------------
(* The emitted text builds every frame and gives it back, and the          *)
(* operands of every expression, whichever branches are taken: the stack   *)
(* is equally high wherever control meets, and rdi holds the argument.     *)
TextLevelled == Levelled(image)

(* Between two statements of the main frame the stack is where it was,     *)
(* also behind calls in loops: what is pushed is popped, and the room made *)
(* for a call is given back.  It holds while every access stays below its  *)
(* rbp.                                                                    *)
BelowFrame ==
  \A i \in DOMAIN image.code :
    image.code[i].op \in {"load", "store"} => image.code[i].off >= image.code[i].width

StackLevel ==
  Running /\ BelowFrame /\ calls = <<>> /\ Between(image.code, ip)
    => regs["rsp"] = FrameTop /\ regs["rbp"] = FrameTop

(* Under the same condition a function returns behind the call that        *)
(* started it, with rsp and rbp of its caller: no parameter, local,        *)
(* operand or inner call reaches the saved words.                          *)
CallsReturn ==
  BelowFrame /\ Is({"ret"}) =>
    /\ calls # <<>>
    /\ LET call == calls[Len(calls)]
       IN  /\ ReturnAddress = call.back
           /\ regs["rbp"] = call.rbp /\ regs["rsp"] + 8 = call.rsp

(* Under the same condition the integer that is written in a call is the   *)
(* one that the first parameter holds once the function has saved it: the  *)
(* widths of the argument's register, of the parameter and of its cell     *)
(* agree.                                                                  *)
ArgumentArrives ==
  Running /\ BelowFrame /\ ip > 1 /\ calls # <<>> =>
    LET saved == image.code[ip - 1]
        call  == calls[Len(calls)].back - 1
    IN  call \in DOMAIN image.args /\ saved.op = "store" /\ saved.reg = "rdi" =>
          Word(regs["rbp"] - saved.off, saved.width) = Wrap(saved.width, image.args[call])
=============================================================================
