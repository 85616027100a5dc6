------------------------------ MODULE MCConsoles ------------------------------
(* The plugins for consoles, one of them at work: every 16-bit opcode of    *)
(* CHIP-8, and images of each loader that take each of its ways.            *)
EXTENDS Chip8, ConsoleLoaders, XbeLoader, Bitwise

AllOpcodes == 0 .. 65535

-----------------------------------------------------------------------------

PsxExes ==
  [ system : {"psxexe"}, signature : BOOLEAN, taddr : 0 .. 20, tsize : 0 .. 31, pc : {9} ]

Run(first, length) == [first |-> first, length |-> length]

\* The copyright follows the version at once, after one zero or after several;
\* the second place lies within its run.
Bioses ==
  { [system |-> "psxbios", signature |-> known, size |-> size,
     runs |-> {Run(264, 5), Run(270 + pad, 4), Run(524082 - back, back + 3), Run(524086 + pad, 6)}] :
      known \in BOOLEAN, size \in {8, 524288}, pad \in {0, 3}, back \in {0, 2} }

N64Roms ==
  { [system |-> "n64", order |-> order, pc |-> 4194304, swapped |-> 67108864, size |-> 8192,
     cic |-> c[1], skip |-> c[2]] :
      order \in {"big", "little", "swapped", "other"},
      c \in { <<0, 0>>, <<6101, 0>>, <<6102, 0>>, <<6103, 1048576>>, <<6105, 0>>, <<6106, 2097152>>, <<7102, 0>> } }

Titles == UNION { [1 .. n -> {"upper", "lower", "zero"}] : n \in 0 .. 3 }

\* A header's title, game code and maker code, of which one varies.
HeaderTexts == UNION { { <<t, <<"upper">>, << >> >>, << << >>, t, <<"upper">> >>, << <<"upper", "zero">>, << >>, t>> } : t \in Titles }

\* Branches forward, to the pipeline's end, with a condition, and backward.
Branches == {46, 0, 8388607, 33554432 + 46, 16777215, 8388608}

GbaRoms ==
  { [system |-> "gba", fixed |-> TRUE, texts |-> texts, sum |-> s[1], checksum |-> s[2], branch |-> 46,
     size |-> 4096, crt0 |-> FALSE, handler |-> 0, main |-> {}] :
      texts \in HeaderTexts, s \in { <<231, 0>>, <<100, 131>>, <<100, 130>>, <<1300, 211>> } }
  \cup
  [ system : {"gba"}, fixed : BOOLEAN, texts : { << << >>, << >>, << >> >> }, sum : {231}, checksum : {0}, branch : Branches,
    size : {4096}, crt0 : BOOLEAN, handler : {50331700}, main : { {}, {134218001}, {134218004} } ]

Chip8Roms == [ system : {"chip8"}, extension : {".ch8", ".rom", ".bin"}, size : {6, 7} ]

SomeRoms == PsxExes \cup Bioses \cup N64Roms \cup GbaRoms \cup Chip8Roms

-----------------------------------------------------------------------------

SmallWords == 0 .. 31

Keyed(key) == [ w \in SmallWords |-> w ^^ key ]

SmallEpKey == [ k \in Kinds |-> IF k = "retail" THEN Keyed(1) ELSE Keyed(11) ]
SmallThunkKey == [ k \in Kinds |-> IF k = "retail" THEN Keyed(3) ELSE Keyed(22) ]

Section(executable, data, address, raw, size) ==
  [executable |-> executable, data |-> data, address |-> address, raw |-> raw, size |-> size]

Text == Section(TRUE, FALSE, 4, 2, 4)
Data == Section(TRUE, TRUE, 10, 7, 3)
Rest == Section(FALSE, FALSE, 20, 0, 0)

\* The word between the two sections' bytes belongs to none.  Tables that end
\* before it, run over it and have none of their words mapped.
Files ==
  { <<9, 9, 1, 0, 1, 2, 9, 3, 4, 0, 0>>,
    <<9, 9, 1, 2, 3, 4, 9, 3, 4, 5, 0>>,
    <<9, 9, 1, 2, 3, 4, 0, 1, 0, 2, 0>>,
    <<0, 0, 0, 0, 0, 0, 0, 0, 0, 0, 0>> }

SomeXbes ==
  { [kind |-> kind, entrypoint |-> e, thunk |-> t, sections |-> s, file |-> f, database |-> d] :
      kind \in Kinds, e \in {4, 7, 10, 12, 30}, t \in {4, 6, 10, 12, 25, 31},
      s \in { <<>>, <<Text, Data, Rest>>, <<Rest, Data>> },
      f \in Files, d \in BOOLEAN }

-----------------------------------------------------------------------------

VARIABLE plugin

allVars == <<vars, consoleVars, xbeVars, plugin>>

IdleChip8 == Init /\ opcode = 0
IdleConsole == ConsoleStart([system |-> "chip8", extension |-> ".ch8", size |-> 6])
IdleXbe == XbeStart([kind |-> "debug", entrypoint |-> 4, thunk |-> 10, sections |-> << >>,
                     file |-> <<0>>, database |-> FALSE])

MCInit ==
  \/ plugin = "chip8" /\ Init /\ IdleConsole /\ IdleXbe
  \/ plugin = "console" /\ IdleChip8 /\ ConsoleInit /\ IdleXbe
  \/ plugin = "xbe" /\ IdleChip8 /\ IdleConsole /\ XbeInit

StepXbe == plugin = "xbe" /\ XbeNext /\ UNCHANGED <<vars, consoleVars, plugin>>

MCNext ==
  \/ plugin = "chip8" /\ Next /\ UNCHANGED <<consoleVars, xbeVars, plugin>>
  \/ plugin = "console" /\ ConsoleNext /\ UNCHANGED <<vars, xbeVars, plugin>>
  \/ StepXbe

MCSpec == MCInit /\ [][MCNext]_allVars /\ WF_allVars(StepXbe)
=============================================================================
