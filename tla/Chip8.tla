-------------------------------- MODULE Chip8 --------------------------------
(***************************************************************************)
(* The CHIP-8 assembler plugin (chip8/assembler): the host has an opcode   *)
(* emulated, to follow the program's flow, and rendered, to list it.  The  *)
(* decoder finds out what an opcode is from a table; emulate finds out     *)
(* where it goes from a mask of its own.                                   *)
(*                                                                         *)
(* An instruction is its operation, whether the decoder gave it a          *)
(* mnemonic, and its operands, each <<type, value>>.                       *)
(***************************************************************************)
EXTENDS Integers, Sequences

CONSTANTS
  Opcodes,  \* 16-bit words the host hands over
  Address   \* where the word lies

ASSUME OpcodesAssumption == \A o \in Opcodes : o \in Nat /\ o < 65536

VARIABLES
  opcode, \* the word
  pc,     \* what the host asks for next
  flow,   \* what emulate told the host
  text    \* the operands renderInstruction wrote; "???" for none known

vars == <<opcode, pc, flow, text>>

-----------------------------------------------------------------------------
(* Decoder.                                                                *)

B0(o)  == o % 16
B1(o)  == (o \div 16) % 16
B2(o)  == (o \div 256) % 16
B3(o)  == o \div 4096
KK(o)  == o % 256
MMM(o) == o % 4096

Reg(x)     == <<"Register", x>>
Const(k)   == <<"Constant", k>>
Addr(a)    == <<"Address", a>>
Special(t) == <<t, 0>>
Registers(x)   == <<"Register_Range", x>>
Null       == <<"Null", 0>>

Named(op, operands)   == [op |-> op, named |-> TRUE, operands |-> operands]
Unnamed(op, operands) == [op |-> op, named |-> FALSE, operands |-> operands]

\* decode returned false.
Undecoded == Named("Unknown", <<>>)

Decode0(o) ==
  CASE o = 0   -> Named("Nop", <<>>)
    [] o = 224 -> Named("Erase", <<>>)
    [] o = 238 -> Named("Return", <<>>)
    [] OTHER   -> Undecoded

\* Two registers, or a register and a byte.
RegReg(o)  == << Reg(B2(o)), Reg(B1(o)) >>
RegByte(o) == << Reg(B2(o)), Const(KK(o)) >>

Operations8 == <<"Copy", "Or", "And", "Xor", "Add", "Sub">>

Decode8(o) ==
  IF B0(o) < Len(Operations8) THEN Unnamed(Operations8[B0(o) + 1], RegReg(o)) ELSE Undecoded

\* Mutant: height and registers are taken in the opcode's order.
DecodeDInOrder(o) == Named("Show", << Reg(B2(o)), Reg(B1(o)), Const(B0(o)) >>)

DecodeD(o) == Named("Show", << Const(B0(o)), Reg(B2(o)), Reg(B1(o)) >>)

DecodeE(o) ==
  CASE KK(o) = 158 -> Named("Ske_Key", << Reg(B2(o)), Special("Register_KEY") >>)
    [] KK(o) = 161 -> Named("Skne_Key", << Reg(B2(o)), Special("Register_KEY") >>)
    [] OTHER -> Undecoded

\* decodeFxxx, by the low byte.  It tests the whole opcode for zero before it
\* looks for "stop", which no opcode of this group passes.  0x70 sets the number
\* of its first operand and not the type, 0x71 numbers its second one.
DecodeF(o) ==
  LET x == B2(o)
  IN CASE KK(o) = 7   -> Unnamed("GetTime", << Reg(x), Special("Register_TIME") >>)
       [] KK(o) = 10  -> Unnamed("GetKey", << Reg(x), Special("Register_KEY") >>)
       [] KK(o) = 21  -> Unnamed("SetTime", << Special("Register_TIME"), Reg(x) >>)
       [] KK(o) = 23  -> Unnamed("SetPitch", << Special("Register_PITCH"), Reg(x) >>)
       [] KK(o) = 24  -> Unnamed("SetTone", << Special("Register_TONE"), Reg(x) >>)
       [] KK(o) = 30  -> Unnamed("Add", << Special("Register_I"), Reg(x) >>)
       [] KK(o) = 41  -> Unnamed("Copy2", << Special("Register_MI"), Special("Register_DEQ"), Reg(x) >>)
       [] KK(o) = 51  -> Unnamed("Copy2", << Special("Register_MI"), Special("Register_DSP"), Reg(x) >>)
       [] KK(o) = 85  -> Unnamed("Copy", << Special("Register_MI"), Registers(x) >>)
       [] KK(o) = 101 -> Unnamed("Copy", << Registers(x), Special("Register_MI") >>)
       [] KK(o) = 112 -> Unnamed("Copy", << Null, Reg(x) >>)
       [] KK(o) = 113 -> Unnamed("Copy", << Reg(0), Special("Register_RS485") >>)
       [] KK(o) = 114 -> Unnamed("Copy", << Special("Register_BAUD"), Reg(x) >>)
       [] OTHER -> Undecoded

Decode(o) ==
  CASE B3(o) = 0  -> Decode0(o)
    [] B3(o) = 1  -> Named("Goto", << Addr(MMM(o)) >>)
    [] B3(o) = 2  -> Named("Do", << Addr(MMM(o)) >>)
    [] B3(o) = 3  -> Named("Ske", RegByte(o))
    [] B3(o) = 4  -> Named("Skne", RegReg(o))
    [] B3(o) = 5  -> Named("Ske", RegReg(o))
    [] B3(o) = 6  -> Unnamed("Copy", RegByte(o))
    [] B3(o) = 7  -> Unnamed("Add", RegByte(o))
    [] B3(o) = 8  -> Decode8(o)
    [] B3(o) = 9  -> Named("Skne", RegReg(o))
    [] B3(o) = 10 -> Unnamed("SetI", << Special("Register_I"), Const(MMM(o)) >>)
    [] B3(o) = 11 -> Named("GotoRel", << Const(MMM(o)), Reg(0) >>)
    [] B3(o) = 12 -> Named("Rand", RegByte(o))
    [] B3(o) = 13 -> DecodeD(o)
    [] B3(o) = 14 -> DecodeE(o)
    [] B3(o) = 15 -> DecodeF(o)

-----------------------------------------------------------------------------
(* Flow and listing.                                                       *)

NoFlow == [size |-> 0, returns |-> FALSE, branches |-> {}, calls |-> {}, next |-> {}]

Flow(returns, branches, calls, next) ==
  [size |-> 2, returns |-> returns, branches |-> branches, calls |-> calls, next |-> next]

\* The opcodes emulate ends the flow at.
Returning == {238, 61440}

\* Mutant: a skip jumps over the operand bytes only.
EmulatedShort(o) ==
  IF Decode(o) = Undecoded THEN NoFlow
  ELSE CASE o \in Returning            -> Flow(TRUE, {}, {}, {})
         [] B3(o) = 1                  -> Flow(FALSE, {MMM(o)}, {}, {})
         [] B3(o) = 2                  -> Flow(FALSE, {}, {MMM(o)}, {})
         [] B3(o) \in {3, 4, 5, 9, 14} -> Flow(FALSE, {Address + 2}, {}, {Address + 2})
         [] OTHER                      -> Flow(FALSE, {}, {}, {})

\* CHIP8::emulate: targets of branches and calls, and where a branch not taken
\* goes on.
Emulated(o) ==
  IF Decode(o) = Undecoded THEN NoFlow
  ELSE CASE o \in Returning            -> Flow(TRUE, {}, {}, {})
         [] B3(o) = 1                  -> Flow(FALSE, {MMM(o)}, {}, {})
         [] B3(o) = 2                  -> Flow(FALSE, {}, {MMM(o)}, {})
         [] B3(o) \in {3, 4, 5, 9, 14} -> Flow(FALSE, {Address + 4}, {}, {Address + 2})
         [] OTHER                      -> Flow(FALSE, {}, {}, {})

Shown(operand) == IF operand = Null THEN <<"???", 0>> ELSE operand

AllShown(operands) == [ i \in DOMAIN operands |-> Shown(operands[i]) ]

Transfers == {"Copy", "SetI", "SetTime", "SetTone", "SetPitch", "GetTime", "GetKey"}
Math == {"Add", "Sub", "And", "Xor", "Or"}

\* CHIP8::renderInstruction: the operands written.  Operations without a
\* mnemonic have a layout of their own, math repeats its first operand.
Rendered(insn) ==
  LET shown == AllShown(insn.operands)
  IN IF insn = Undecoded THEN <<>>
     ELSE IF insn.named THEN shown
     ELSE CASE insn.op \in Transfers -> SubSeq(shown, 1, 2)
            [] insn.op = "Copy2" -> SubSeq(shown, 1, 3)
            [] insn.op \in Math -> << shown[1], shown[1], shown[2] >>
            [] OTHER -> << <<"???", 0>> >>

Emulate ==
  /\ pc = "emulate"
  /\ flow' = Emulated(opcode)
  /\ pc' = "render"
  /\ UNCHANGED <<opcode, text>>

RenderInstruction ==
  /\ pc = "render"
  /\ text' = Rendered(Decode(opcode))
  /\ pc' = "done"
  /\ UNCHANGED <<opcode, flow>>

Init ==
  /\ opcode \in Opcodes
  /\ pc = "emulate"
  /\ flow = NoFlow
  /\ text = <<>>

Next == Emulate \/ RenderInstruction

Spec == Init /\ [][Next]_vars

-----------------------------------------------------------------------------
(* Properties.                                                             *)

Skips == {"Ske", "Skne", "Ske_Key", "Skne_Key"}

\* Decoder and emulate agree on what an opcode is: only an instruction listed
\* as a goto branches, and to the address listed, only a call calls, every
\* skip has the next instruction and the one after it, and only a return ends
\* the flow.  (B000, the indexed goto, is followed as if it did nothing.)
FlowMatchesDecode ==
  pc # "emulate" =>
    LET insn == Decode(opcode)
    IN  /\ (flow = NoFlow) <=> (insn = Undecoded)
        /\ flow.returns <=> insn.op = "Return"
        /\ flow.calls = IF insn.op = "Do" THEN {insn.operands[1][2]} ELSE {}
        /\ flow.branches = CASE insn.op = "Goto" -> {insn.operands[1][2]}
                             [] insn.op \in Skips -> {Address + 4}
                             [] OTHER -> {}
        /\ flow.next = IF insn.op \in Skips THEN {Address + 2} ELSE {}

\* Whatever decodes is listed with every operand it has; only FX70 is not, as
\* its first operand has no type.
RendersFully ==
  pc = "done" =>
    /\ Decode(opcode) # Undecoded => Len(text) >= Len(Decode(opcode).operands)
    /\ (\E i \in DOMAIN text : text[i][1] = "???") => (B3(opcode) = 15 /\ KK(opcode) = 112)

\* What the listing of an instruction says, put back into an opcode: the
\* operand that holds a register, a byte or an address goes where the CHIP-8
\* instruction set has it.
Numbered(t) == { i \in DOMAIN t : t[i][1] \in {"Register", "Constant", "Address", "Register_Range"} }

Encoded(o, t) ==
  LET n(i) == IF i \in Numbered(t) THEN t[i][2] ELSE 0
      only == t[CHOOSE i \in Numbered(t) : TRUE][2]
  IN CASE B3(o) \in {1, 2}      -> B3(o) * 4096 + n(1)
       [] B3(o) \in {3, 6, 12}  -> B3(o) * 4096 + n(1) * 256 + n(2)
       [] B3(o) = 7             -> 7 * 4096 + n(1) * 256 + n(3)
       [] B3(o) \in {5, 9}      -> B3(o) * 4096 + n(1) * 256 + n(2) * 16
       [] B3(o) = 8             -> 8 * 4096 + n(1) * 256 + n(Len(t)) * 16 + B0(o)
       [] B3(o) = 10            -> 10 * 4096 + n(2)
       [] B3(o) = 11            -> 11 * 4096 + n(1)
       [] B3(o) = 13            -> 13 * 4096 + n(2) * 256 + n(3) * 16 + n(1)
       [] B3(o) \in {14, 15}    -> B3(o) * 4096 + only * 256 + KK(o)
       [] OTHER -> o

\* The listing loses no operand and swaps none.  Excepted are the opcodes whose
\* low digit the decoder does not read, 4XKK, which it reads as two registers,
\* and FX71, which is listed with register 0.
OperandsReadBack ==
  (/\ pc = "done"
   /\ Decode(opcode) # Undecoded
   /\ B3(opcode) # 4
   /\ B3(opcode) \in {5, 9} => B0(opcode) = 0
   /\ B3(opcode) = 15 => KK(opcode) # 113) =>
     Encoded(opcode, text) = opcode

\* The listing has every operand of the instruction and is the opcode's own.
ListingKeepsOperands == RendersFully /\ OperandsReadBack
=============================================================================
