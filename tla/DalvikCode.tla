------------------------------ MODULE DalvikCode ------------------------------
(***************************************************************************)
(* The Dalvik assembler (dex/assembler/dalvik.cpp) over libdex's decoder   *)
(* (InstrUtils): the host has the code of a method emulated, from its      *)
(* first instruction wherever emulate leads, and each instruction listed.  *)
(*                                                                         *)
(* What an instruction is comes from four tables over the 256 opcodes and  *)
(* a decoder by format; where it goes, from a switch in emulate over some  *)
(* opcodes.  Addresses are counted in code units of 16 bits.  A value of   *)
(* 32 bits is its two units, the low one first: no file here is as long as *)
(* 2^16 units, so an offset with another high unit leads out of it.        *)
(***************************************************************************)
EXTENDS Integers, Sequences

CONSTANTS
  Methods,     \* [code, behind, starts]: a method's units, the units behind them,
               \* and where its compiler put instructions and payloads, if known
  StringCount  \* stringIdsSize

VARIABLES
  method,
  todo,    \* addresses the host still has to emulate
  flow     \* address -> what emulate told the host of it

codeVars == <<method, todo, flow>>

Unit == 0 .. 65535

-----------------------------------------------------------------------------
(* The tables: the opcodes of each entry.                                  *)

WidthOf(op) ==
  CASE op \in {115, 121, 122, 236} \cup (62 .. 67) \cup (243 .. 249) -> 0
    [] op \in {0, 1, 4, 7, 29, 30, 33, 39, 40, 241} \cup (10 .. 18) \cup (123 .. 143) \cup (176 .. 207) -> 1
    [] op \in {2, 5, 8, 19, 21, 22, 25, 26, 28, 31, 32, 34, 35, 41, 237, 242, 254, 255}
               \cup (45 .. 61) \cup (68 .. 109) \cup (144 .. 175) \cup (208 .. 235) -> 2
    [] op \in {3, 6, 9, 20, 23, 27, 252, 253} \cup (36 .. 38) \cup (42 .. 44)
               \cup (110 .. 114) \cup (116 .. 120) \cup (238 .. 240) -> 3
    [] op \in {250, 251} -> 4
    [] op = 24 -> 5

Format(op) ==
  CASE op \in {115, 121, 122, 236} \cup (62 .. 67) \cup (243 .. 249) -> "00x"
    [] op = 40 -> "10t"
    [] op \in {0, 14, 241} -> "10x"
    [] op = 18 -> "11n"
    [] op \in {29, 30, 39} \cup (10 .. 13) \cup (15 .. 17) -> "11x"
    [] op \in {1, 4, 7, 33} \cup (123 .. 143) \cup (176 .. 207) -> "12x"
    [] op = 237 -> "20bc"
    [] op = 41 -> "20t"
    [] op \in {26, 28, 31, 34, 229, 230, 234, 235, 254, 255} \cup (96 .. 109) -> "21c"
    [] op \in {21, 25} -> "21h"
    [] op \in {19, 22} -> "21s"
    [] op \in 56 .. 61 -> "21t"
    [] op \in 216 .. 226 -> "22b"
    [] op \in {32, 35, 227, 228} \cup (82 .. 95) \cup (231 .. 233) -> "22c"
    [] op = 242 -> "22cs"
    [] op \in 208 .. 215 -> "22s"
    [] op \in 50 .. 55 -> "22t"
    [] op \in {2, 5, 8} -> "22x"
    [] op \in (45 .. 49) \cup (68 .. 81) \cup (144 .. 175) -> "23x"
    [] op = 42 -> "30t"
    [] op = 27 -> "31c"
    [] op \in {20, 23} -> "31i"
    [] op \in {38, 43, 44} -> "31t"
    [] op \in {3, 6, 9} -> "32x"
    [] op \in {36, 240, 252} \cup (110 .. 114) -> "35c"
    [] op = 238 -> "35mi"
    [] op \in {37, 253} \cup (116 .. 120) -> "3rc"
    [] op = 239 -> "3rmi"
    [] op = 250 -> "45cc"
    [] op = 251 -> "4rcc"
    [] op = 24 -> "51l"

Continue       == {"continue"}
Return         == {"return"}
Throw          == {"throw"}
Branch         == {"branch"}
ContinueThrow  == {"continue", "throw"}
ContinueBranch == {"continue", "branch"}
ContinueSwitch == {"continue", "switch"}
Invoke         == {"continue", "throw", "invoke"}
NoFlags        == {}

FlagsBelow128(op) ==
  CASE op \in (0 .. 13) \cup (18 .. 25) \cup {38} \cup (45 .. 49) \cup (123 .. 127) -> Continue
    [] op \in 14 .. 17 -> Return
    [] op \in (26 .. 37) \cup (68 .. 109) -> ContinueThrow
    [] op = 39 -> Throw
    [] op \in 40 .. 42 -> Branch
    [] op \in {43, 44} -> ContinueSwitch
    [] op \in 50 .. 61 -> ContinueBranch
    [] op \in (110 .. 114) \cup (116 .. 120) -> Invoke
    [] op \in {115, 121, 122} \cup (62 .. 67) -> NoFlags

FlagsAbove127(op) ==
  CASE op \in (128 .. 146) \cup (149 .. 157) \cup (160 .. 178) \cup (181 .. 189) \cup (192 .. 210)
               \cup (213 .. 218) \cup (221 .. 226) -> Continue
    [] op \in {147, 148, 158, 159, 179, 180, 190, 191, 211, 212, 219, 220} -> ContinueThrow
    [] op \in (227 .. 235) \cup {238, 239, 242, 254, 255} -> ContinueThrow
    [] op = 237 -> Throw
    [] op = 241 -> Return
    [] op \in {240} \cup (250 .. 253) -> Invoke
    [] op \in {236} \cup (243 .. 249) -> NoFlags

Flags(op) == IF op < 128 THEN FlagsBelow128(op) ELSE FlagsAbove127(op)

IndexTypeOf(op) ==
  CASE op \in {115, 121, 122, 236} \cup (62 .. 67) \cup (243 .. 249) -> "Unknown"
    [] op \in {29, 30, 33, 241} \cup (0 .. 25) \cup (38 .. 61) \cup (68 .. 81) \cup (123 .. 226) -> "None"
    [] op \in {26, 27} -> "StringRef"
    [] op \in {28, 31, 32} \cup (34 .. 37) -> "TypeRef"
    [] op \in (82 .. 109) \cup (227 .. 235) -> "FieldRef"
    [] op \in {240} \cup (110 .. 114) \cup (116 .. 120) -> "MethodRef"
    [] op = 237 -> "Varies"
    [] op \in {238, 239} -> "InlineMethod"
    [] op = 242 -> "FieldOffset"
    [] op \in {250, 251} -> "MethodAndProtoRef"
    [] op \in {252, 253} -> "CallSiteRef"
    [] op = 254 -> "MethodHandleRef"
    [] op = 255 -> "ProtoRef"

-----------------------------------------------------------------------------
(* The decoder.                                                            *)

UnitAt(m, a) == (m.code \o m.behind)[a + 1]

Fetch(a) == UnitAt(method, a)

\* dexOpcodeFromCodeUnit.
OpcodeAt(a) == Fetch(a) % 256

Signed4(x)  == IF x < 8 THEN x ELSE x - 16
Signed8(x)  == IF x < 128 THEN x ELSE x - 256
Signed16(x) == IF x < 32768 THEN x ELSE x - 65536

\* dexGetWidthFromInstruction: the payloads of switches and arrays look like
\* a nop with a signature in its high byte.
PackedSwitchSignature == 256
SparseSwitchSignature == 512
ArrayDataSignature    == 768

\* Mutant: a target of a packed switch is taken for one unit.
PackedWidthHalf(entries) == 4 + entries

PackedWidth(entries) == 4 + entries * 2

Width(a) ==
  CASE Fetch(a) = PackedSwitchSignature -> PackedWidth(Fetch(a + 1))
    [] Fetch(a) = SparseSwitchSignature -> 2 + Fetch(a + 1) * 4
    [] Fetch(a) = ArrayDataSignature    -> 4 + ((Fetch(a + 1) * Fetch(a + 2) + 1) \div 2)
    [] OTHER -> WidthOf(OpcodeAt(a))

\* Mutant: the registers of an invoke are read from the high end.
ArgsReversed(count, list, fifth) ==
  [ i \in 1 .. count |-> <<list \div 4096, (list \div 256) % 16, (list \div 16) % 16, list % 16, fifth>>[i] ]

\* The registers of an invoke: four from the list, the fifth from the opcode's
\* unit.
Args(count, list, fifth) ==
  [ i \in 1 .. count |-> <<list % 16, (list \div 16) % 16, (list \div 256) % 16, list \div 4096, fifth>>[i] ]

NoArgs == << >>

Insn(op, vA, vB, vC, arg) == [op |-> op, vA |-> vA, vB |-> vB, vC |-> vC, arg |-> arg]

\* dexDecodeInstruction: the instruction, none if it cannot be decoded.
Decoded(a) ==
  LET op == OpcodeAt(a)
      format == Format(op)
      vA == (Fetch(a) \div 256) % 16
      vB == Fetch(a) \div 4096
      vAA == Fetch(a) \div 256
      next == Fetch(a + 1)
      wide == <<Fetch(a + 1), Fetch(a + 2)>>
  IN CASE format \in {"10x", "11x"} -> {Insn(op, vAA, 0, 0, NoArgs)}
       [] format = "12x" -> {Insn(op, vA, vB, 0, NoArgs)}
       [] format = "11n" -> {Insn(op, vA, Signed4(vB), 0, NoArgs)}
       [] format = "10t" -> {Insn(op, Signed8(vAA), 0, 0, NoArgs)}
       [] format = "20t" -> {Insn(op, Signed16(next), 0, 0, NoArgs)}
       [] format \in {"20bc", "21c", "22x", "21h"} -> {Insn(op, vAA, next, 0, NoArgs)}
       [] format \in {"21s", "21t"} -> {Insn(op, vAA, Signed16(next), 0, NoArgs)}
       [] format = "23x" -> {Insn(op, vAA, next % 256, next \div 256, NoArgs)}
       [] format = "22b" -> {Insn(op, vAA, next % 256, Signed8(next \div 256), NoArgs)}
       [] format \in {"22s", "22t"} -> {Insn(op, vA, vB, Signed16(next), NoArgs)}
       [] format \in {"22c", "22cs"} -> {Insn(op, vA, vB, next, NoArgs)}
       [] format = "30t" -> {Insn(op, wide, 0, 0, NoArgs)}
       [] format \in {"31t", "31c", "31i"} -> {Insn(op, vAA, wide, 0, NoArgs)}
       [] format = "32x" -> {Insn(op, wide[1], wide[2], 0, NoArgs)}
       [] format \in {"35c", "35mi"} ->
            IF vB <= (IF format = "35mi" THEN 4 ELSE 5)
            THEN {Insn(op, vB, next, 0, Args(vB, Fetch(a + 2), vA))} ELSE {}
       [] format \in {"3rc", "3rmi"} -> {Insn(op, vAA, next, Fetch(a + 2), NoArgs)}
       [] format = "51l" -> {Insn(op, vAA, wide \o <<Fetch(a + 3), Fetch(a + 4)>>, 0, NoArgs)}
       [] format = "45cc" ->
            {Insn(op, vB, next, Fetch(a + 2) % 16, SubSeq(Args(5, Fetch(a + 2), vA), 2, 5) \o <<Fetch(a + 3)>>)}
       [] format = "4rcc" -> {Insn(op, vAA, next, Fetch(a + 2), <<Fetch(a + 3)>>)}
       [] OTHER -> {}

\* A file is at most 2^16 units long, and code is not at the end of it, where
\* an instruction or the count of a switch would be cut.
ASSUME MethodAssumption ==
  /\ StringCount \in Unit
  /\ \A m \in Methods :
       /\ m.code \in Seq(Unit) /\ m.code # << >>
       /\ m.behind \in Seq(Unit) /\ Len(m.behind) >= 4
       /\ m.behind[Len(m.behind)] # PackedSwitchSignature

-----------------------------------------------------------------------------
(* Emulation.                                                              *)

OpReturns       == {14, 15, 16, 17}
OpConstHigh16   == 21
OpFillArrayData == 38
OpThrow         == 39
OpGoto          == 40
OpGoto16        == 41
OpGoto32        == 42
OpPackedSwitch  == 43
OpSparseSwitch  == 44
OpIfLt          == 52
OpIfLe          == 55
OpIfEqz         == 56
OpIfLez         == 61

\* Where a 32-bit value leads from an address: vB is not sign-extended.
Payload(a, value, signature) ==
  { p \in {a + value[1]} :
      value[2] = 0 /\ p < Len(method.code) + Len(method.behind) /\ Fetch(p) = signature }

\* An entry of a packed switch's table: a signed word.
TableEntry(p, i) ==
  LET lo == Fetch(p + 4 + 2 * i)
      hi == Fetch(p + 5 + 2 * i)
  IN  CASE hi = 0 -> {lo} [] hi = 65535 -> {lo - 65536} [] OTHER -> {}

\* The loop advances the pointer into the table and indexes it as well.
EntryRead(i) == 2 * i

PackedTargets(a, value) ==
  UNION { UNION { { a + t : t \in TableEntry(p, EntryRead(i)) } : i \in 0 .. Fetch(p + 1) - 1 } :
            p \in Payload(a, value, PackedSwitchSignature) }

\* Mutant: the offset of a test of two registers is taken for that of one.
OffsetOfOne(insn) == IF insn.op = OpGoto THEN insn.vA ELSE insn.vB

\* The operand emulate adds to the address.
Offset(insn) ==
  CASE insn.op = OpGoto -> insn.vA
    [] insn.op \in {OpIfEqz, OpIfLez} -> insn.vB
    [] insn.op \in {OpIfLe, OpIfLt} -> insn.vC

\* getIndex, for the references the listing shows.
IndexOf(insn) ==
  CASE Format(insn.op) \in {"22c", "22cs"} -> insn.vC
    [] Format(insn.op) \in {"20bc", "21c", "35c", "3rc", "35mi", "3rmi", "45cc", "4rcc"} -> insn.vB
    [] Format(insn.op) = "31c" -> IF insn.vB[2] = 0 THEN insn.vB[1] ELSE 65536
    [] OTHER -> 0

IndexType(insn) == IndexTypeOf(insn.op)

\* The strings emulate adds: the index is not checked, and what lies behind
\* the table of strings may or may not lead into the file.
StringsAdded(insn) ==
  CASE IndexType(insn) # "StringRef" -> { {} }
    [] IndexType(insn) = "StringRef" /\ IndexOf(insn) < StringCount -> { {IndexOf(insn)} }
    [] OTHER -> { {}, {IndexOf(insn)} }

Branches == {OpGoto, OpIfEqz, OpIfLez, OpIfLe, OpIfLt}

\* DalvikAssembler::emulate: where the flow goes, whether also to what follows,
\* and what lies elsewhere for the instruction.
Emulated(a, insn, strings) ==
  [ size     |-> Width(a),
    to       |-> CASE insn.op = OpPackedSwitch -> PackedTargets(a, insn.vB)
                   [] insn.op \in Branches -> {a + Offset(insn)}
                   [] OTHER -> {},
    falls    |-> insn.op \notin OpReturns \cup {OpGoto},
    returns  |-> insn.op \in OpReturns,
    payloads |-> CASE insn.op = OpPackedSwitch  -> Payload(a, insn.vB, PackedSwitchSignature)
                   [] insn.op = OpFillArrayData -> Payload(a, insn.vB, ArrayDataSignature)
                   [] OTHER -> {},
    strings  |-> strings ]

NotDecoded == [size |-> 0, to |-> {}, falls |-> FALSE, returns |-> FALSE, payloads |-> {}, strings |-> {}]

FlowsAt(a) ==
  IF Decoded(a) = {} THEN {NotDecoded}
  ELSE UNION { { Emulated(a, insn, s) : s \in StringsAdded(insn) } : insn \in Decoded(a) }

Successors(a, f) == f.to \cup (IF f.falls THEN {a + f.size} ELSE {})

\* The host emulates each address of the method it is led to once.
EmulateAt(a) ==
  /\ a \in todo
  /\ \E f \in FlowsAt(a) :
       /\ flow' = [ x \in DOMAIN flow \cup {a} |-> IF x = a THEN f ELSE flow[x] ]
       /\ todo' = (todo \cup (Successors(a, f) \cap 0 .. Len(method.code) - 1)) \ (DOMAIN flow \cup {a})
  /\ UNCHANGED method

CodeStart(m) == method = m /\ todo = {0} /\ flow = << >>

CodeInit == \E m \in Methods : CodeStart(m)

CodeNext == \E a \in todo : EmulateAt(a)

CodeSpec == CodeInit /\ [][CodeNext]_codeVars

-----------------------------------------------------------------------------
(* The listing: the operands written, <<kind, value>>.                     *)

Register(x)  == <<"register", x>>
Constant(x)  == <<"constant", x>>
Reference(x) == <<"reference", x>>
Unknown      == <<"unknown", 0>>

\* renderIndex: names of methods, fields and types, or a string's place.
RenderedIndex(insn) ==
  CASE IndexType(insn) \in {"MethodRef", "FieldRef", "TypeRef"} -> <<"name", IndexOf(insn)>>
    [] IndexType(insn) = "StringRef" /\ IndexOf(insn) < StringCount -> <<"string", IndexOf(insn)>>
    [] OTHER -> Unknown

\* DalvikAssembler::renderInstruction.  11n lists its constant as its register,
\* too, and formats the switch leaves out are listed as unknown.
Rendered(a, insn) ==
  LET format == Format(insn.op)
      A == Register(insn.vA)
      B == Register(insn.vB)
  IN CASE format \in {"10t", "20t"} -> << Reference(a + insn.vA) >>
       [] format \in {"12x", "32x"} -> << A, B >>
       [] format = "11n" -> << B, Constant(insn.vB % 256) >>
       [] format = "11x" -> << A >>
       [] format \in {"21c", "31c"} -> << A, RenderedIndex(insn) >>
       [] format = "21h" -> << A, Constant(IF insn.op = OpConstHigh16 THEN <<0, insn.vB>> ELSE <<0, 0, 0, insn.vB>>) >>
       [] format \in {"21s", "31i"} -> << A, Constant(insn.vB) >>
       [] format = "21t" -> << A, Reference(a + insn.vB) >>
       [] format = "22b" -> << A, B, Constant(insn.vC % 256) >>
       [] format \in {"22c", "22cs"} -> << A, B, RenderedIndex(insn) >>
       [] format = "22t" -> << A, B, Reference(a + insn.vC) >>
       [] format = "23x" -> << A, B, Register(insn.vC) >>
       [] format = "31t" -> << A, IF insn.vB[2] = 0 THEN Reference(a + insn.vB[1]) ELSE Unknown >>
       [] format \in {"35c", "35mi"} ->
            [ i \in 1 .. insn.vA |-> Register(insn.arg[i]) ] \o << RenderedIndex(insn) >>
       [] format = "10x" -> << >>
       [] OTHER -> << Unknown >>

-----------------------------------------------------------------------------
(* Properties.                                                             *)

OneUnit    == {"10x", "12x", "11n", "11x", "10t"}
TwoUnits   == {"20bc", "20t", "22x", "21t", "21s", "21h", "21c", "23x", "22b", "22t", "22s", "22c", "22cs"}
ThreeUnits == {"30t", "32x", "31i", "31t", "31c", "35c", "35mi", "3rc", "3rmi"}

UnitsOf(format) ==
  CASE format = "00x" -> 0
    [] format \in OneUnit -> 1
    [] format \in TwoUnits -> 2
    [] format \in ThreeUnits -> 3
    [] format \in {"45cc", "4rcc"} -> 4
    [] format = "51l" -> 5

WithTarget == {"10t", "20t", "30t", "21t", "22t"}
WithIndex  == {"20bc", "21c", "22c", "22cs", "31c", "35c", "35mi", "3rc", "3rmi", "45cc", "4rcc"}

\* The four tables, generated apart and kept in the order of the opcodes, say
\* the same of every opcode met: its width is its format's, it has an index
\* exactly if its format has a place for one, it branches exactly if its
\* format has a target, and an opcode without a format has no flags.
TablesAgree ==
  \A a \in DOMAIN flow :
    LET op == OpcodeAt(a)
    IN  /\ WidthOf(op) = UnitsOf(Format(op))
        /\ IndexTypeOf(op) \notin {"None", "Unknown"} <=> Format(op) \in WithIndex
        /\ "branch" \in Flags(op) <=> Format(op) \in WithTarget
        /\ Flags(op) = {} <=> Format(op) = "00x"

\* Opcodes emulate knows nothing of, although the table of flags does: most
\* tests, the long gotos, the sparse switch, what throws, and two of dexopt.
NotFollowed ==
  {OpGoto16, OpGoto32, OpSparseSwitch, OpThrow, 237, 241} \cup (50 .. 61 \ {OpIfLt, OpIfLe, OpIfEqz, OpIfLez})

\* The displacement in the units of a branch.
Displacement(a) ==
  IF Format(OpcodeAt(a)) = "10t" THEN Signed8(Fetch(a) \div 256) ELSE Signed16(Fetch(a + 1))

\* What emulate reports of an instruction is what the table of flags and the
\* units of the instruction say: it branches, goes on or returns exactly when
\* the flags say so, and to where the displacement says, backward as well.
\* Excepted are switches and the opcodes emulate does not follow, which are
\* reported to go on with what lies behind them.
FlowOfTheFlags ==
  \A a \in DOMAIN flow :
    LET op == OpcodeAt(a)
        flags == Flags(op)
    IN  IF op \in NotFollowed THEN flow[a].to = {} /\ flow[a].falls
        ELSE op # OpPackedSwitch /\ Decoded(a) # {} =>
               /\ flow[a].to = IF "branch" \in flags THEN {a + Displacement(a)} ELSE {}
               /\ flow[a].falls <=> "continue" \in flags
               /\ flow[a].returns <=> "return" \in flags

\* The targets of a packed switch: with one entry or none, exactly those of its
\* table.  A longer table is not read whole: its even entries are reported,
\* and in place of the odd ones as many words of what follows.
SwitchTargets ==
  \A a \in DOMAIN flow : OpcodeAt(a) = OpPackedSwitch =>
    \A p \in flow[a].payloads :
      LET count == Fetch(p + 1)
          target(i) == { a + t : t \in TableEntry(p, i) }
      IN  /\ \A i \in 0 .. count - 1 : i % 2 = 0 => target(i) \subseteq flow[a].to
          /\ count <= 1 => flow[a].to = UNION { target(i) : i \in 0 .. count - 1 }

\* The host is told the flow of each instruction, the tables of the opcodes
\* being of one mind about it.
FlowIsTheInstructions == TablesAgree /\ FlowOfTheFlags /\ SwitchTargets

\* The units of what begins at an address, as the Dalvik format counts them.
Extent(a) ==
  CASE Fetch(a) = PackedSwitchSignature -> 4 + 2 * Fetch(a + 1)
    [] Fetch(a) = SparseSwitchSignature -> 2 + 4 * Fetch(a + 1)
    [] Fetch(a) = ArrayDataSignature    -> 4 + ((Fetch(a + 1) * Fetch(a + 2) + 1) \div 2)
    [] OTHER -> UnitsOf(Format(OpcodeAt(a)))

\* Where its units say that an instruction leads, a goto of 32 bits left out.
LeadsTo(a) ==
  CASE Format(OpcodeAt(a)) \in WithTarget \ {"30t"} -> {a + Displacement(a)}
    [] OpcodeAt(a) = OpPackedSwitch ->
         UNION { UNION { { a + t : t \in TableEntry(p, i) } : i \in 0 .. Fetch(p + 1) - 1 } :
                   p \in Payload(a, <<Fetch(a + 1), Fetch(a + 2)>>, PackedSwitchSignature) }
    [] OTHER -> {}

\* What the compiler laid out in the method begins with an instruction, and
\* what follows and where it leads begins with an instruction or a payload.
CodeLaidOut ==
  LET inside == 0 .. Len(method.code) - 1
  IN  /\ 0 \in method.starts
      /\ \A a \in method.starts \cap inside : (LeadsTo(a) \cup {a + Extent(a)}) \cap inside \subseteq method.starts

\* In a method whose branches lead to instructions, the host is never led into
\* the middle of an instruction or of a payload, even where it runs on behind
\* a throw or a long goto into the payload of a switch.  Excepted are methods
\* with a packed switch of two entries or more.
DecodesWhole ==
  (/\ CodeLaidOut
   /\ \A a \in DOMAIN flow : \A p \in flow[a].payloads :
        Fetch(p) = PackedSwitchSignature => Fetch(p + 1) <= 1) =>
     DOMAIN flow \cup todo \subseteq method.starts

Unsigned(x, n) == IF x < 0 THEN x + n ELSE x

KindsIn(t) == { t[i][1] : i \in DOMAIN t }

\* The units of an instruction, put together from what its listing shows.
Encoded(a, op, t) ==
  LET format == Format(op)
      v(i) == t[i][2]
      high == op + 256 * v(1)
  IN CASE format = "12x" -> << high + 4096 * v(2) >>
       [] format = "11x" -> << high >>
       [] format = "10t" -> << op + 256 * Unsigned(v(1) - a, 256) >>
       [] format = "20t" -> << op, Unsigned(v(1) - a, 65536) >>
       [] format = "21c" -> << high, v(2) >>
       [] format = "31c" -> << high, v(2), 0 >>
       [] format = "31i" -> << high, v(2)[1], v(2)[2] >>
       [] format = "31t" -> << high, v(2) - a, 0 >>
       [] format = "21h" -> << high, v(2)[Len(v(2))] >>
       [] format = "21s" -> << high, Unsigned(v(2), 65536) >>
       [] format = "21t" -> << high, Unsigned(v(2) - a, 65536) >>
       [] format \in {"22b", "23x"} -> << high, v(2) + 256 * v(3) >>
       [] format = "22c" -> << high + 4096 * v(2), v(3) >>
       [] format = "22t" -> << high + 4096 * v(2), Unsigned(v(3) - a, 65536) >>
       [] format = "32x" -> << op, v(1), v(2) >>

\* The instruction's units: a long goto and a long move do not use the high
\* byte of their first one.
Written(a, format) ==
  LET units == [ i \in 1 .. UnitsOf(format) |-> Fetch(a + i - 1) ]
  IN  IF format \in {"20t", "32x"} THEN [units EXCEPT ![1] = OpcodeAt(a)] ELSE units

Reversible == {"12x", "11x", "10t", "20t", "21c", "31c", "31i", "31t", "21h", "21s", "21t",
               "22b", "23x", "22c", "22t", "32x"}

\* The listing of an instruction says what its units say, every register,
\* constant, index and target of it, and an invoke lists its registers in the
\* order of the call.  Excepted are the formats the listing does not know, 11n,
\* which lists the constant for the register, and references out of the file.
ListingIsTheInstruction ==
  \A a \in DOMAIN flow : \A insn \in Decoded(a) :
    LET format == Format(insn.op)
        t == Rendered(a, insn)
    IN  /\ (format \in Reversible /\ "unknown" \notin KindsIn(t)) => Encoded(a, insn.op, t) = Written(a, format)
        /\ format = "35c" =>
             \A i \in 1 .. Len(t) - 1 :
               t[i][2] = IF i = 5 THEN (Fetch(a) \div 256) % 16 ELSE (Fetch(a + 2) \div <<1, 16, 256, 4096>>[i]) % 16
        /\ \A s \in flow[a].strings : s < StringCount => <<"string", s>> = t[Len(t)]
=============================================================================
