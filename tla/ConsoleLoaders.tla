--------------------------- MODULE ConsoleLoaders ---------------------------
(***************************************************************************)
(* The loaders of the consoles whose images have no sections: PS-X         *)
(* executables and the Playstation's BIOS (psx), Nintendo 64 (n64), Game   *)
(* Boy Advance with the analyzer of its start-up code (gba) and CHIP-8     *)
(* (chip8/chip8.cpp).  Each lays the file over a memory map of its own and *)
(* finds the entry in a header.                                            *)
(*                                                                         *)
(* A file is a record of what the loader of its system reads.  Addresses   *)
(* and sizes of PS-X executables are scaled by the constants; addresses of *)
(* the BIOS count from its base.                                           *)
(***************************************************************************)
EXTENDS Integers, Sequences, FiniteSets

CONSTANTS
  Roms,
  RamStart,  \* PSX_USER_RAM_START
  RamEnd,    \* PSX_USER_RAM_END
  WordRange, \* 2^32
  BiosBase   \* PSX_BIOS_KERNEL1

KernelMaker == 264
GuiVersion == 524082
RamSize == 2097152

\* Runs of characters are records [first, length].
BiosText(runs) ==
  /\ \A r \in runs : r.first \in Nat /\ r.length \in Nat \ {0}
  /\ \A r, t \in runs : r = t \/ r.first + r.length < t.first \/ t.first + t.length < r.first
  /\ \A place \in {KernelMaker, GuiVersion} :
       /\ \E t \in runs : t.first <= place /\ place < t.first + t.length
       /\ \E t \in runs : t.first > place
  /\ \E t \in runs : KernelMaker < t.first /\ t.first < GuiVersion

BootCodeSkip(cic) == CASE cic = 6103 -> 1048576 [] cic = 6106 -> 2097152 [] OTHER -> 0

\* Fields are unsigned.  Runs of characters are apart, and a BIOS has two of
\* them where its loader looks for two strings, those of the first place in
\* front of the second place.  What an N64 cartridge's boot code adds to the
\* program counter is that of its CIC.
ASSUME ConsoleAssumption ==
  /\ RamStart \in Nat /\ RamEnd \in Nat /\ WordRange \in Nat
  /\ RamStart < RamEnd /\ RamEnd < WordRange
  /\ BiosBase \in Nat /\ BiosBase > RamSize
  /\ \A r \in Roms : r.system \in {"psxexe", "psxbios", "n64", "gba", "chip8"}
  /\ \A r \in Roms :
       CASE r.system = "psxexe" -> r.taddr \in Nat /\ r.tsize \in Nat
         [] r.system = "psxbios" -> BiosText(r.runs)
         [] r.system = "n64" -> r.pc \in Nat /\ r.skip = BootCodeSkip(r.cic)
         [] r.system = "gba" ->
              /\ r.sum \in Nat /\ r.checksum \in 0 .. 255 /\ r.branch \in Nat
              /\ r.texts \in Seq(Seq({"upper", "lower", "zero"}))
              /\ r.main \subseteq Nat
         [] r.system = "chip8" -> TRUE

VARIABLES
  rom,
  stage,     \* "test", "load", "analyze", "done"
  areas,     \* segments of the document
  start,     \* its entry
  strings,   \* [first, length] of the strings of the BIOS
  functions, \* address -> [assembler, name], given by the start-up analyzer
  queue      \* addresses handed to the host for decoding

consoleVars == <<rom, stage, areas, start, strings, functions, queue>>

NoEntry == -1

\* RDDocument_SetSegment, ...Range and ...Size: bytes of the file, if any, and
\* memory.
Area(name, offset, address, bytes, size, type) ==
  [name |-> name, offset |-> offset, address |-> address, bytes |-> bytes, size |-> size, type |-> type]

Bss(name, address, size) == Area(name, 0, address, 0, size, "bss")

-----------------------------------------------------------------------------
(* PS-X executables.                                                       *)

TextOffset == 2048

\* The text between what is free below it and above it; the end of the text is
\* a 32-bit sum.
TextEnd == (rom.taddr + rom.tsize) % WordRange

\* Mutant: the memory above starts where the text does.
ExeAreasFromText ==
  (IF rom.taddr > RamStart THEN {Bss("RAM0", RamStart, rom.taddr - RamStart)} ELSE {})
  \cup {Area("TEXT", TextOffset, rom.taddr, rom.tsize, rom.tsize, "codedata")}
  \cup (IF TextEnd < RamEnd THEN {Bss("RAM1", rom.taddr, RamEnd - TextEnd)} ELSE {})

ExeAreas ==
  (IF rom.taddr > RamStart THEN {Bss("RAM0", RamStart, rom.taddr - RamStart)} ELSE {})
  \cup {Area("TEXT", TextOffset, rom.taddr, rom.tsize, rom.tsize, "codedata")}
  \cup (IF TextEnd < RamEnd THEN {Bss("RAM1", TextEnd, RamEnd - TextEnd)} ELSE {})

LoadExe ==
  /\ rom.system = "psxexe"
  /\ areas' = ExeAreas
  /\ start' = rom.pc
  /\ UNCHANGED <<strings, functions, queue>>

-----------------------------------------------------------------------------
(* The Playstation's BIOS.  Its text is a sequence of runs of characters,  *)
(* [first, length], as they lie in the ROM behind the two places where     *)
(* parseROM looks.                                                         *)

Kernel2 == 65536
BootMenu == 98304
Characters == 409600

BiosAreas ==
  { Bss("RAM", -BiosBase, RamSize),
    Area("KERNEL1", 0, 0, Kernel2, Kernel2, "codedata"),
    Area("KERNEL2", Kernel2, Kernel2, BootMenu - Kernel2, BootMenu - Kernel2, "codedata"),
    Area("BOOTMENU", BootMenu, BootMenu, Characters - BootMenu, Characters - BootMenu, "codedata"),
    Area("CHARACTERS", Characters, Characters, rom.size, rom.size, "data") }

\* Where the run that covers a place ends, or the place itself between runs.
RunEnd(a) ==
  LET covering == { r \in rom.runs : r.first <= a /\ a < r.first + r.length }
  IN  IF covering = {} THEN a ELSE (CHOOSE r \in covering : TRUE).first + (CHOOSE r \in covering : TRUE).length

\* The first character at or behind a place: the loop over the zeros.
NextRun(a) == CHOOSE b \in { r.first : r \in rom.runs } :
                b >= a /\ \A r \in rom.runs : r.first >= a => b <= r.first

\* parseStrings, for the two strings at a place.
StringsAt(a) ==
  LET second == NextRun(RunEnd(a))
  IN  { [first |-> a, length |-> RunEnd(a) - a], [first |-> second, length |-> RunEnd(second) - second] }

LoadBios ==
  /\ rom.system = "psxbios"
  /\ areas' = BiosAreas
  /\ strings' = StringsAt(KernelMaker) \cup StringsAt(GuiVersion)
  /\ start' = 0
  /\ UNCHANGED <<functions, queue>>

-----------------------------------------------------------------------------
(* Nintendo 64.                                                            *)

HeaderSize == 4096
Cic6103Skip == 1048576
Cic6106Skip == 2097152

\* getEP: the program counter as a big-endian word, whatever order the file
\* is in, less what the boot code of two cartridges adds.
ProgramCounter == IF rom.order = "big" THEN rom.pc ELSE rom.swapped

N64Entry ==
  CASE rom.cic = 6103 -> ProgramCounter - Cic6103Skip
    [] rom.cic = 6106 -> ProgramCounter - Cic6106Skip
    [] OTHER -> ProgramCounter

LoadN64 ==
  /\ rom.system = "n64"
  /\ areas' = {Area("KSEG0", HeaderSize, N64Entry, rom.size - HeaderSize, rom.size - HeaderSize, "codedata")}
  /\ start' = N64Entry
  /\ UNCHANGED <<strings, functions, queue>>

-----------------------------------------------------------------------------
(* Game Boy Advance.                                                       *)

RomStart == 134217728

GbaAreas ==
  { Bss("EWRAM", 33554432, 196608),
    Bss("IWRAM", 50331648, 32767),
    Bss("IOREG", 67108864, 1023),
    Bss("PALETTE", 83886080, 1023),
    Bss("VRAM", 100663296, 98303),
    Bss("OAM", 117440512, 1023),
    Area("ROM", 0, RomStart, rom.size, rom.size, "codedata") }

\* calculateChecksum, over the sum of the header's bytes.
GbaChecksum == (-rom.sum - 25) % 256

\* isUppercaseAscii: up to a zero.
Uppercase(text) ==
  \A i \in DOMAIN text : text[i] = "lower" => \E j \in 1 .. i : text[j] = "zero"

\* Mutant: the pipeline's two instructions are forgotten.
ParseAddressAtBranch(opcode) == RomStart + (opcode % 16777216) * 4

\* parseAddress: the low 24 bits, unsigned, in instructions, from where the
\* processor's counter stands.
ParseAddress(opcode) == RomStart + ((opcode % 16777216) * 4 + 8)

LoadGba ==
  /\ rom.system = "gba"
  /\ areas' = GbaAreas
  /\ start' = ParseAddress(rom.branch)
  /\ UNCHANGED <<strings, functions, queue>>

MainOf(pointer) == pointer - (pointer % 2)

\* Crt0Analyzer::execute, when the start-up code has the form it knows: the
\* interrupt handler is a constant of it, the main function lies behind a
\* pointer the document may not have.
Crt0 ==
  LET main == { MainOf(p) : p \in rom.main }
  IN  /\ functions' = [ a \in {rom.handler} \cup main |->
                          IF a \in main THEN [assembler |-> "thumble", name |-> "AgbMain"]
                          ELSE [assembler |-> "arm32le", name |-> "intr_main"] ]
      /\ queue' = queue \o <<rom.handler>> \o (IF main = {} THEN << >> ELSE << CHOOSE a \in main : TRUE >>)

AnalyzeCrt0 ==
  /\ stage = "analyze"
  /\ IF rom.crt0 THEN Crt0 ELSE UNCHANGED <<functions, queue>>
  /\ stage' = "done"
  /\ UNCHANGED <<rom, areas, start, strings>>

-----------------------------------------------------------------------------
(* CHIP-8.                                                                 *)

Program == 512

LoadChip8 ==
  /\ rom.system = "chip8"
  /\ areas' = { Bss("STACK", 0, 64), Bss("SCRATCHPAD", 64, 13), Bss("DISPLAY", 256, 256),
                Area("PROGRAM", 0, Program, rom.size, 4096 - Program, "codedata") }
  /\ start' = Program
  /\ UNCHANGED <<strings, functions, queue>>

-----------------------------------------------------------------------------

\* Each loader's test.  N64's accepts all three byte orders.
Accepted ==
  CASE rom.system = "gba"     -> /\ rom.fixed /\ rom.checksum = GbaChecksum
                             /\ \A t \in DOMAIN rom.texts : Uppercase(rom.texts[t])
    [] rom.system = "chip8"   -> rom.extension \in {".chip8", ".ch8", ".rom"} /\ rom.size % 2 = 0
    [] rom.system = "psxbios" -> rom.size >= 16 /\ rom.signature
    [] rom.system = "psxexe"  -> rom.signature
    [] rom.system = "n64"     -> rom.order \in {"big", "little", "swapped"}

TestRom ==
  /\ stage = "test"
  /\ stage' = IF Accepted THEN "load" ELSE "done"
  /\ UNCHANGED <<rom, areas, start, strings, functions, queue>>

LoadRom ==
  /\ stage = "load"
  /\ LoadExe \/ LoadBios \/ LoadN64 \/ LoadGba \/ LoadChip8
  /\ stage' = IF rom.system = "gba" THEN "analyze" ELSE "done"
  /\ UNCHANGED rom

ConsoleStart(file) ==
  /\ rom = file
  /\ stage = "test"
  /\ areas = {}
  /\ start = NoEntry
  /\ strings = {}
  /\ functions = << >>
  /\ queue = << >>

ConsoleInit == \E r \in Roms : ConsoleStart(r)

ConsoleNext == TestRom \/ LoadRom \/ AnalyzeCrt0

ConsoleSpec == ConsoleInit /\ [][ConsoleNext]_consoleVars

-----------------------------------------------------------------------------

Loaded == areas # {}

In(a, address) == a.address <= address /\ address < a.address + a.size

\* The user's RAM is laid out whole and no address of it twice: what lies
\* below the text, the text and what lies above it.  Excepted are texts that
\* do not lie in the user's RAM, which the console would not load.
UserRamTiled ==
  (/\ Loaded /\ rom.system = "psxexe"
   /\ RamStart <= rom.taddr /\ rom.taddr + rom.tsize <= RamEnd) =>
     \A x \in RamStart .. RamEnd - 1 : Cardinality({ a \in areas : In(a, x) }) = 1

\* The strings of the BIOS are the two runs of characters behind each of the
\* two places, whole, and no string covers another's.
BiosStringsAreRuns ==
  (Loaded /\ rom.system = "psxbios") =>
    /\ Cardinality(strings) = 4
    /\ \A s \in strings : \E r \in rom.runs :
         /\ r.first + r.length = s.first + s.length
         /\ s.first \in {r.first, KernelMaker, GuiVersion}

\* Where the branch of the ARM processor at the start of the ROM goes: the
\* offset is signed, and counts from two instructions ahead.
BranchTarget(opcode) ==
  LET offset == opcode % 16777216
  IN  RomStart + 8 + 4 * (IF offset < 8388608 THEN offset ELSE offset - 16777216)

\* A ROM is entered where its first instruction goes: N64's where its header
\* and its boot code say, GBA's where the branch does.  Excepted are branches
\* backward, whose offset is not sign-extended, and N64 images in another byte
\* order, which the test accepts and nothing swaps.
StartAsOnTheConsole ==
  (Loaded /\ start # NoEntry) =>
    /\ rom.system = "gba" /\ (rom.branch % 16777216) < 8388608 => start = BranchTarget(rom.branch)
    /\ rom.system = "n64" /\ rom.order = "big" => start = rom.pc - rom.skip

\* A header that passes the test sums up to zero with its checksum and the
\* constant of the console, and its title, its game's code and its maker's code,
\* each up to its own end, have no lowercase letter.
AcceptedHeadersAreSound ==
  (Loaded /\ rom.system = "gba") =>
    /\ (rom.sum + rom.checksum + 25) % 256 = 0
    /\ \A t \in DOMAIN rom.texts : \A i \in DOMAIN rom.texts[t] :
         (\A j \in 1 .. i : rom.texts[t][j] # "zero") => rom.texts[t][i] = "upper"

\* What the analyzer of the start-up code hands to the host for decoding has
\* an assembler and a name first, and the main function, whose pointer says
\* Thumb in its lowest bit, is decoded at the even address as Thumb code.
StartUpCodeDecodable ==
  \A i \in DOMAIN queue :
    /\ queue[i] \in DOMAIN functions
    /\ functions[queue[i]].assembler = "thumble" => queue[i] % 2 = 0

\* PS-X executables and their BIOS lie in memory as on the console.
MemoryAsOnTheConsole == UserRamTiled /\ BiosStringsAreRuns

\* Decoding begins where the console begins, in an image whose header stands
\* the console's test, and goes on in the state the processor has there.
EntryAsOnTheConsole == AcceptedHeadersAreSound /\ StartAsOnTheConsole /\ StartUpCodeDecodable
=============================================================================
