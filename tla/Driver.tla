------------------------------- MODULE Driver -------------------------------
(***************************************************************************)
(* main (main.c): one invocation of the compiler, from the mapped file to  *)
(* the executable.  It composes the machines of Parser and Generator: the  *)
(* tree that parse_prog returns is printed and then generated.             *)
(*                                                                         *)
(* The output files have fixed names in the working directory: main.asm,   *)
(* main.o and v are there from earlier invocations, and another invocation *)
(* may run at the same time (`other`).  A file is whose text it holds or   *)
(* was made from.                                                          *)
(***************************************************************************)
EXTENDS Nodes

CONSTANTS Sources,      \* the files: their tokens, and how they end
          Tails         \* the tokens that may be found behind a full page

VARIABLES
  source, stage,                                    \* the file; what main does next
  m_tokens, values, m_index, calls, nodes, parsing, \* parse_prog, with the tokens' values
  prog, phase, pc, open, iter, m_vars, m_block, m_func, label, out, nested, bound,
  asm, obj, exe,                                    \* main.asm, main.o, v
  other,                                            \* steps of the other invocation
  spoiled     \* history: main.asm was cut short, or the other one used the files too

Par == INSTANCE Parser WITH Inputs <- {<<>>}, open <- calls, status <- parsing
Gen == INSTANCE GeneratorProps WITH Programs <- {<<>>}, Spelling <- {}

text      == <<source, values>>
files     == <<asm, obj, exe, other, spoiled>>
parser    == <<m_tokens, m_index, calls, nodes, parsing>>
generator == <<prog, phase, pc, open, iter, m_vars, m_block, m_func, label, out, nested, bound>>
vars      == <<text, stage, parser, generator, files>>

Final == {"ok", "failed", "fault"}      \* EXIT_SUCCESS, another status, a signal

(* Nothing is parsed or generated yet; the files are from earlier.         *)
Init ==
  /\ source \in Sources
  /\ stage = "load"
  /\ values = <<>>
  /\ Par!Init /\ Gen!Init
  /\ asm = "old" /\ obj = "old" /\ exe = "old"
  /\ other = 0 /\ spoiled = FALSE

Goto(s) == stage' = s /\ UNCHANGED <<text, parser, generator>>
-----------------------------------------------------------------------------
(* load_file: an empty file is refused, as is one that cannot be mapped.   *)
LoadFile ==
  /\ stage = "load" /\ source.tokens # <<>>
  /\ Goto("tokenize")
  /\ UNCHANGED files

LoadFails ==
  /\ stage = "load"
  /\ Goto("failed")
  /\ UNCHANGED files

(* tokenize ends at a NUL.  The page behind a file gives one unless the    *)
(* file fills it: then what is mapped behind it is read as well.           *)
Tokenize ==
  /\ stage = "tokenize" /\ ~source.bang
  /\ \E tail \in IF source.full THEN Tails ELSE {<<>>} :
       LET ts == source.tokens \o tail
       IN  /\ m_tokens' = [k \in DOMAIN ts |-> ts[k].type]
           /\ values'   = [k \in DOMAIN ts |-> ts[k].value]
  /\ stage' = "parse"
  /\ UNCHANGED <<source, m_index, calls, nodes, parsing, generator, files>>

TokenizeExits ==
  /\ stage = "tokenize" /\ source.bang
  /\ Goto("failed")
  /\ UNCHANGED files

TokenizeFaults ==
  /\ stage = "tokenize" /\ source.full
  /\ Goto("fault")
  /\ UNCHANGED files

(* parse_prog runs; its tree becomes m_prog.                               *)
Parse ==
  /\ stage = "parse" /\ Par!Step
  /\ UNCHANGED <<text, stage, generator, files>>

Parsed ==
  /\ stage = "parse" /\ parsing = "done"
  /\ prog' = TreeOf(m_tokens, values, nodes)
  /\ stage' = "print"
  /\ UNCHANGED <<text, parser, phase, pc, open, iter, m_vars, m_block, m_func, label, out,
                 nested, bound, files>>

ParseEnds ==
  /\ stage = "parse" /\ parsing \in {"exited", "overrun"}
  /\ Goto(IF parsing = "exited" THEN "failed" ELSE "fault")
  /\ UNCHANGED files
-----------------------------------------------------------------------------
(* Mutant: the case of WHILE ends with a break.                            *)
MisreadFor(s) == s.kind = "FOR" /\ s.expr.kind # "INT_LIT"

(* print_optional_prog: the case of WHILE goes on into that of FOR, which  *)
(* reads cond3 where a WHILE has the length of its body, and that of FOR   *)
(* into that of FUNC, which prints the kind of cond2 as a string: only the *)
(* kind 0, an integer literal, is a pointer that printf survives.          *)
Misread(s) == s.kind = "WHILE" \/ (s.kind = "FOR" /\ s.expr.kind # "INT_LIT")

Faulty == \E k \in TopLevel(prog) : Misread(prog[k])

(* Mutant: the program is printed again and again.                         *)
PrintProgAgain ==
  /\ stage = "print"
  /\ Goto(IF Faulty THEN "fault" ELSE "print")
  /\ UNCHANGED files

PrintProg ==
  /\ stage = "print"
  /\ Goto(IF Faulty THEN "fault" ELSE "generate")
  /\ UNCHANGED files

Generate ==
  /\ stage = "generate" /\ Gen!Step
  /\ UNCHANGED <<text, stage, parser, files>>

GenerateEnds ==
  /\ stage = "generate" /\ phase \in {"done", "exited", "crashed"}
  /\ Goto(CASE phase = "done" -> "open" [] phase = "exited" -> "failed" [] OTHER -> "fault")
  /\ UNCHANGED files
-----------------------------------------------------------------------------
(* fopen, "w".                                                             *)
OpenAsm ==
  /\ stage = "open"
  /\ \/ asm' = "blank" /\ Goto("write")
     \/ asm' = asm /\ Goto("failed")
  /\ UNCHANGED <<obj, exe, other, spoiled>>

(* What main.asm holds when the text of w is written over content c, from  *)
(* the start: it may be the shorter one.                                   *)
Over(w, c) == IF c = "blank" THEN {w} ELSE {w, "mixed"}

(* fprintf and fclose; nobody asks whether all was written.                *)
WriteAsm ==
  /\ stage = "write"
  /\ \/ asm' \in Over("mine", asm) /\ UNCHANGED spoiled
     \/ asm' = asm /\ spoiled' = TRUE
  /\ Goto("assemble")
  /\ UNCHANGED <<obj, exe, other>>

(* nasm: a text that names a function twice or calls one that is not there *)
(* is refused, and it may fail on any other one.                           *)
Functions  == {k \in DOMAIN out : out[k].op = "func"}
Assembles  ==
  /\ \A i, j \in Functions : out[i].name = out[j].name => i = j
  /\ \A k \in DOMAIN out : out[k].op = "call" => \E i \in Functions : out[i].name = out[k].name

(* Mutant: the status of nasm is not looked at.                            *)
AssembleBlind ==
  /\ stage = "assemble"
  /\ \/ obj' = asm /\ (asm = "mine" => Assembles)
     \/ obj' \in {obj, "gone"}
  /\ Goto("link")
  /\ UNCHANGED <<asm, exe, other, spoiled>>

Assemble ==
  /\ stage = "assemble"
  /\ \/ obj' = asm /\ (asm = "mine" => Assembles) /\ Goto("link")
     \/ obj' \in {obj, "gone"} /\ Goto("failed")
  /\ UNCHANGED <<asm, exe, other, spoiled>>

Link ==
  /\ stage = "link"
  /\ \/ obj # "gone" /\ exe' = obj /\ Goto("ok")
     \/ exe' \in {exe, "gone"} /\ Goto("failed")
  /\ UNCHANGED <<asm, obj, other, spoiled>>
-----------------------------------------------------------------------------
(* The other invocation, in the same directory.  Until main opens main.asm *)
(* it touches none of the files: what the other one does in that time is   *)
(* the same as if done just then.                                          *)
Meets ==
  /\ stage \in {"open", "write", "assemble", "link", "ok"}
  /\ spoiled' = (spoiled \/ stage # "open")

OtherWrites ==
  /\ \/ other = 0 /\ asm' = "blank" /\ other' = 1
     \/ other = 1 /\ asm' \in Over("other", asm) /\ other' = 2
  /\ UNCHANGED <<obj, exe>>

OtherBuilds ==
  /\ \/ other = 2 /\ obj' = asm /\ UNCHANGED exe /\ other' = 3
     \/ other = 2 /\ obj' \in {obj, "gone"} /\ UNCHANGED exe /\ other' = 4
     \/ other = 3 /\ obj # "gone" /\ exe' = obj /\ UNCHANGED obj /\ other' = 4
     \/ other = 3 /\ exe' \in {exe, "gone"} /\ UNCHANGED obj /\ other' = 4
  /\ UNCHANGED asm

Other ==
  /\ OtherWrites \/ OtherBuilds
  /\ Meets
  /\ UNCHANGED <<text, stage, parser, generator>>

Ended == stage \in Final /\ UNCHANGED vars

Build == OpenAsm \/ WriteAsm \/ Assemble \/ Link
Main  == LoadFile \/ LoadFails \/ Tokenize \/ TokenizeExits \/ TokenizeFaults \/ Parse \/ Parsed
         \/ ParseEnds \/ PrintProg \/ Generate \/ GenerateEnds \/ Build
Next  == Main \/ Other \/ Ended

(* main waits for nothing but nasm and ld, which end; the other invocation *)
(* need not be there.                                                      *)
Spec == Init /\ [][Next]_vars /\ WF_vars(Main)
-----------------------------------------------------------------------------
(* What parse_prog hands over is a balanced listing of statements, which   *)
(* the generator relies on, with a body for every pair of braces.          *)
HandedOver ==
  stage \in {"print", "generate", "open"} =>
    /\ prog \in Seq(Stmt) /\ Balanced(prog)
    /\ Cardinality({k \in DOMAIN prog : Opens(prog[k])})
         = Cardinality({k \in DOMAIN m_tokens : m_tokens[k] = "close_braces"})

(* No loop that tests anything is ever compiled: a WHILE or a FOR with a   *)
(* condition ends the printer on the top level, and below it no body       *)
(* compiles at all.                                                        *)
NoLoopTests ==
  phase = "done" =>
    /\ \A k \in DOMAIN m_tokens : m_tokens[k] # "while"
    /\ \A k \in DOMAIN prog : prog[k].kind = "FOR" => prog[k].expr = Lit

(* Status 0 means that v was linked from the text of this source, and that *)
(* it is never one from before: unless the other invocation has used the   *)
(* files meanwhile, or main.asm was cut short and nobody noticed.          *)
BuiltFromThis == stage = "ok" => exe # "old" /\ (spoiled \/ exe = "mine")

(* main ends.                                                              *)
Termination == <>(stage \in Final)
=============================================================================
