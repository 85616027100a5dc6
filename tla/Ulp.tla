--------------------------------- MODULE Ulp ---------------------------------
(***************************************************************************)
(* ESP32 ULP images: the loader (esp/chips/ulp/loader) maps text, data and *)
(* bss, the assembler (esp/chips/ulp/assembler) tells the host where each  *)
(* instruction of the text goes and lists it.                              *)
(*                                                                         *)
(* An image has the header's four numbers and, in words, the instructions  *)
(* of the text.  An instruction is a record of the fields the flow depends *)
(* on; addr is in words, step has a sign and a magnitude in words.  What   *)
(* lies at an address that is no multiple of four is any instruction.      *)
(***************************************************************************)
EXTENDS Integers, Sequences, FiniteSets

CONSTANTS
  Images,
  Instructions

ASSUME InstructionAssumption ==
  \A insn \in Instructions : insn.addr \in Nat /\ insn.step \in Nat /\ insn.sign \in {-1, 1} /\ insn.sel \in {0, 1}

ASSUME ImageAssumption ==
  \A i \in Images :
    /\ i.textoffset \in Nat /\ i.textsize \in Nat /\ i.datasize \in Nat /\ i.bsssize \in Nat
    /\ i.text \in [1 .. i.textsize \div 4 -> Instructions]

VARIABLES
  image,
  stage,    \* "load", "explore"
  segments, \* of the document
  todo,     \* addresses the host still has to emulate
  decoded   \* address -> instruction, of the addresses emulated

ulpVars == <<image, stage, segments, todo, decoded>>

WordSize == 4

-----------------------------------------------------------------------------
(* Loader.                                                                 *)

Segment(name, offset, address, size) ==
  [name |-> name, offset |-> offset, address |-> address, size |-> size]

DataOffset == image.textoffset + image.textsize

\* Mutant: bss starts where the data starts.
BssOffsetOfData == DataOffset

BssOffset == DataOffset + image.datasize

\* ULPLoader::load; parts of no size get no segment.
Segments ==
  { s \in { Segment("DATA", DataOffset, DataOffset, image.datasize),
            Segment("BSS", 0, BssOffset, image.bsssize),
            Segment("TEXT", image.textoffset, 0, image.textsize) } : s.size # 0 }

LoadParts ==
  /\ stage = "load"
  /\ segments' = Segments
  /\ todo' = IF image.textsize # 0 THEN {0} ELSE {}
  /\ stage' = "explore"
  /\ UNCHANGED <<image, decoded>>

-----------------------------------------------------------------------------
(* Assembler.                                                              *)

Address(words) == words * WordSize

\* Mutant: the step is not scaled.
RelativeUnscaled(a, insn) == a + insn.sign * insn.step

Relative(a, insn) == a + insn.sign * Address(insn.step)

\* Mutant: steps only go forward.
FlowForward(a, insn) ==
  CASE insn.op = "halt" -> [targets |-> {}, falls |-> FALSE]
    [] insn.op = "jump" /\ insn.choice = 0 ->
         [targets |-> IF insn.sel = 1 THEN {} ELSE {IF insn.type = 0 THEN Address(insn.addr) ELSE insn.addr},
          falls   |-> insn.type # 0]
    [] insn.op = "jump" /\ insn.choice \in {1, 2} ->
         [targets |-> {a + Address(insn.step)}, falls |-> TRUE]
    [] OTHER -> [targets |-> {}, falls |-> TRUE]

\* emulate, emulateJmp: branch targets, and whether the flow goes on with the
\* next word.  The target of a conditional jump is not scaled.
Flow(a, insn) ==
  CASE insn.op = "halt" -> [targets |-> {}, falls |-> FALSE]
    [] insn.op = "jump" /\ insn.choice = 0 ->
         [targets |-> IF insn.sel = 1 THEN {} ELSE {IF insn.type = 0 THEN Address(insn.addr) ELSE insn.addr},
          falls   |-> insn.type # 0]
    [] insn.op = "jump" /\ insn.choice \in {1, 2} ->
         [targets |-> {Relative(a, insn)}, falls |-> TRUE]
    [] OTHER -> [targets |-> {}, falls |-> TRUE]

\* renderJmp: the addresses the listing shows.
Shown(a, insn) ==
  CASE insn.op = "jump" /\ insn.choice = 0 /\ insn.sel = 0 -> {Address(insn.addr)}
    [] insn.op = "jump" /\ insn.choice \in {1, 2} -> {Relative(a, insn)}
    [] OTHER -> {}

InText(a) == \E s \in segments : s.name = "TEXT" /\ s.address <= a /\ a < s.address + s.size

\* decode wants a whole word in the view.
Whole(a) == InText(a + WordSize - 1)

InsnsAt(a) ==
  IF a % WordSize = 0 THEN {image.text[(a \div WordSize) + 1]} ELSE Instructions

Successors(a, insn) ==
  Flow(a, insn).targets \cup (IF Flow(a, insn).falls THEN {a + WordSize} ELSE {})

\* The host emulates each address of the text it is led to once.
Emulate(a) ==
  /\ stage = "explore"
  /\ a \in todo
  /\ IF Whole(a)
     THEN \E insn \in InsnsAt(a) :
            LET emulated == [ x \in DOMAIN decoded \cup {a} |-> IF x = a THEN insn ELSE decoded[x] ]
            IN  /\ decoded' = emulated
                /\ todo' = (todo \cup { x \in Successors(a, insn) : InText(x) }) \ DOMAIN emulated
     ELSE /\ todo' = todo \ {a}
          /\ UNCHANGED decoded
  /\ UNCHANGED <<image, stage, segments>>

UlpInit ==
  /\ image \in Images
  /\ stage = "load"
  /\ segments = {}
  /\ todo = {}
  /\ decoded = << >>

UlpNext == LoadParts \/ \E a \in todo : Emulate(a)

UlpSpec == UlpInit /\ [][UlpNext]_ulpVars

-----------------------------------------------------------------------------
(* Properties.                                                             *)

\* Text, data and bss share no address, although text is mapped from 0 and the
\* others at their place in the file.
SegmentsDisjoint ==
  \A s, t \in segments :
    s # t => s.address + s.size <= t.address \/ t.address + t.size <= s.address

\* Addresses the listing leads to from the addresses listed.
Conditional(insn) == insn.op = "jump" /\ insn.choice = 0 /\ insn.sel = 0 /\ insn.type # 0

Ends(insn) ==
  insn.op = "halt" \/ (insn.op = "jump" /\ insn.choice = 0 /\ insn.type = 0)

Led(a, insn) == Shown(a, insn) \cup (IF Ends(insn) THEN {} ELSE {a + WordSize})

\* A reader who follows the listing stays in what was disassembled, and
\* everything disassembled is led to: by the listing from another instruction,
\* or as the entry.  Only the target of a conditional absolute jump, taken in
\* words as an address, escapes both; programs that reach one are left out.
FlowIsListed ==
  (stage = "explore" /\ todo = {} /\ \A a \in DOMAIN decoded : ~Conditional(decoded[a])) =>
    LET led == UNION { Led(a, decoded[a]) : a \in DOMAIN decoded }
    IN  /\ { a \in led : Whole(a) } \subseteq DOMAIN decoded
        /\ DOMAIN decoded \subseteq led \cup {0}

\* Without such a jump no instruction is decoded across two words.
WordsDecodedWhole ==
  (\A a \in DOMAIN decoded : ~Conditional(decoded[a])) =>
    \A a \in todo \cup DOMAIN decoded : a % WordSize = 0
=============================================================================
