---------------------------- MODULE DriverProofs ----------------------------
(***************************************************************************)
(* A theorem about main and its output files, whatever the file it         *)
(* compiles and whatever is found behind it.                               *)
(***************************************************************************)
EXTENDS Driver, TLAPS

(* Once main has opened main.asm no file that it goes on with is from      *)
(* earlier; and as long as it has the files for itself and its text was    *)
(* written whole, each holds this text or was made from it.                *)
NotOld ==
  /\ stage \in {"write", "assemble", "link", "ok"} => asm # "old"
  /\ stage \in {"link", "ok"} => obj # "old"
  /\ stage = "ok" => exe # "old"

Mine ==
  ~spoiled =>
    /\ stage = "write" => asm = "blank"
    /\ stage \in {"assemble", "link"} => asm = "mine"
    /\ stage = "link" => obj = "mine"
    /\ stage = "ok" => exe = "mine"

FilesInv == NotOld /\ Mine
-----------------------------------------------------------------------------
LEMMA FilesInit == Init => FilesInv
BY DEF Init, FilesInv, NotOld, Mine

(* Before main opens main.asm, and when it only goes to another stage.     *)
LEMMA ReadInv ==
  ASSUME UNCHANGED files, stage' \notin {"write", "assemble", "link", "ok"}
  PROVE  FilesInv'
BY DEF files, FilesInv, NotOld, Mine

LEMMA ReadStep ==
  ASSUME FilesInv,
         \/ LoadFile \/ LoadFails \/ Tokenize \/ TokenizeExits \/ TokenizeFaults
         \/ Parse \/ Parsed \/ ParseEnds \/ PrintProg \/ Generate \/ GenerateEnds
  PROVE  FilesInv'
<1>1. UNCHANGED files
  BY DEF LoadFile, LoadFails, Tokenize, TokenizeExits, TokenizeFaults, Parse, Parsed, ParseEnds,
         PrintProg, Generate, GenerateEnds
<1>2. stage' \notin {"write", "assemble", "link", "ok"}
  BY DEF LoadFile, LoadFails, Tokenize, TokenizeExits, TokenizeFaults, Parse, Parsed, ParseEnds,
         PrintProg, Generate, GenerateEnds, Goto
<1> QED BY <1>1, <1>2, ReadInv

(* Each step of the build looks only at the file the one before it made.   *)
LEMMA BuildStep == ASSUME FilesInv, Build PROVE FilesInv'
<1>1. CASE OpenAsm
  BY <1>1 DEF OpenAsm, Goto, FilesInv, NotOld, Mine
<1>2. CASE WriteAsm
  <2>1. stage = "write" /\ stage' = "assemble"
    BY <1>2 DEF WriteAsm, Goto
  <2>2. asm' # "old" /\ (~spoiled' => asm' = "mine")
    BY <1>2 DEF WriteAsm, Over, FilesInv, NotOld, Mine
  <2> QED BY <2>1, <2>2 DEF FilesInv, NotOld, Mine
<1>3. CASE Assemble
  BY <1>3 DEF Assemble, Goto, FilesInv, NotOld, Mine
<1>4. CASE Link
  BY <1>4 DEF Link, Goto, FilesInv, NotOld, Mine
<1> QED BY <1>1, <1>2, <1>3, <1>4 DEF Build

(* The other invocation spoils the files, but makes none of them old.      *)
LEMMA OtherStep == ASSUME FilesInv, Other PROVE FilesInv'
<1>1. stage' = stage /\ (stage \in {"write", "assemble", "link", "ok"} => spoiled')
  BY DEF Other, Meets
<1>2. CASE OtherWrites
  BY <1>1, <1>2 DEF OtherWrites, Over, FilesInv, NotOld, Mine
<1>3. CASE OtherBuilds
  BY <1>1, <1>3 DEF OtherBuilds, FilesInv, NotOld, Mine
<1> QED BY <1>2, <1>3 DEF Other

LEMMA FilesNext == FilesInv /\ [Next]_vars => FilesInv'
<1> SUFFICES ASSUME FilesInv, [Next]_vars PROVE FilesInv'
  OBVIOUS
<1>1. CASE Main
  BY <1>1, ReadStep, BuildStep DEF Main
<1>2. CASE Other
  BY <1>2, OtherStep
<1>3. CASE UNCHANGED vars
  BY <1>3 DEF vars, files, FilesInv, NotOld, Mine
<1> QED BY <1>1, <1>2, <1>3 DEF Next, Ended
-----------------------------------------------------------------------------
(* Exit status 0 means that v was linked from the text of this source,     *)
(* unless the other invocation used the files or the text was cut short;   *)
(* and it never stands for an executable that was there before.            *)
THEOREM BuiltFromSource == Spec => []BuiltFromThis
<1>1. FilesInv => BuiltFromThis
  BY DEF FilesInv, NotOld, Mine, BuiltFromThis
<1> QED BY FilesInit, FilesNext, <1>1, PTL DEF Spec
=============================================================================
