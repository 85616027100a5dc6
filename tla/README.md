# A TLA+ model of the REDasm loaders

REDasm-Loaders is a set of C++ plugins for the REDasm disassembler. A plugin
recognises an executable format (`test`), reads an image into the host's
document (`load`), offers analyzers that run on the loaded document
(`isenabled`, `execute`), and for some formats brings an assembler (`emulate`,
`renderInstruction`). This directory holds TLA+ modules that model those
plugins, TLC configurations that check them on small images, and TLAPS proofs
of what holds for every image.

A loader reads untrusted data in one long pass and leaves the result in shared,
mutable state: the document, the user data of the context, a classification, a
few caches. Nothing in the repository tests it. What is checked here is
whether that state says of the image what the image says of itself.

## Inventory

| part | state it keeps | operations | what is hard, what makes it correct |
| --- | --- | --- | --- |
| host (rdapi, not in this repository) | document (segments, symbols, entry point, data), context (user data, ABI), references | calls `test`, `load`, the analyzers, `rdplugin_free`; explores and renders code | modelled only as what the plugins' calls need |
| PE loader `pe/pe.cpp` | optional header, section table, classifier, .NET reader | `parse`: sections, COR header, then either the managed or the native load | two address maps (rva to offset, document segments) must agree; imports keep their slot; the two loads exclude each other |
| PE classifier `pe/classifier.cpp` | `m_classification`, `m_borlandsignature`, `m_signatures` | `classifyImport`, `classifyVisualStudio`, `classifyDotNet`, `classifyDelphi`, `classify`, `display` | one field written by everybody: the order of the calls decides which evidence wins |
| .NET reader `pe/dotnet` | table rows, heaps | `getTables`, `iterateTypes` | widths of indexes depend on row counts; methods per type by unsigned difference |
| PE analyzers `pe/analyzers`, `pe/vb` | argument index, VB structures | window procedures from pushes before a call; VB event trampolines | the right push; the right event of the right control; repeated runs |
| ELF loader `elf/elf.cpp`, `elf_abi.cpp` | segments, dynamic tags, versions, PLT map | sections, program headers, dynamic tags, relocations, entry point | tags visited in the order of an unordered map; thumb bits in addresses; byte order |
| ELF analyzers `elf/analyzer` | PLT map | `findMain`, `walkPlt` | use what the load left: constants, imports, PLT slots |
| DEX loader `dex/loader` | parsed file, method maps; process-wide name caches | `load`, `loadClass`, `loadMethod` | static caches shared by all contexts; a dialog whose positions skip classes |
| Dalvik assembler `dex/assembler`, demangler | - | decoder (four generated tables), `emulate`, `renderInstruction`; names of classes and signatures | the tables are kept apart; payloads among the code; what is followed must be what is listed |
| libdex `dex/android/libdex` | parsed file, class lookup table, string cache, iterators | `dexFileParse`, `dexFindClass`, `dexFindCatchHandler`, `dexDecodeDebugInfo`, `dexReadAndVerifyClassData`, prototypes and their descriptors | binary search and ring probing, sizes that wrap, one buffer owned by cache or caller, signed characters |
| ESP8266 loader `esp/plugin.cpp`, `esp/chips` | list of images, current segment | `test`, `load`, the user's choice, the chain of segments | the answer is an index into a list with holes; a chain whose heads follow from sizes; loads that fail after the ROM is mapped |
| ULP coprocessor `esp/chips/ulp` | segments | `load`, `emulate`, `renderInstruction` | emulation and rendering must name the same address |
| XBE loader `xbe` | header | sections, keyed entry point, kernel thunks | which of two keys an address was stored with is guessed, twice |
| PSX executables and BIOS `psx` | header | memory laid around the text; strings of the BIOS | 32-bit sums of addresses; strings separated by any number of zeros |
| N64 `n64`, GBA `gba` loaders | header | test, entry point; checksum, start-up analyzer | byte order, boot code that moves the entry, a branch that gives the entry, ARM and Thumb |
| CHIP-8 `chip8` | - | loader, decoder, `emulate`, rendering | two tables of what an opcode is, kept in step by hand |

Components talk through the host: a loader fills the document and leaves itself
in the context's user data, the analyzers read both, the assembler is asked
about single instructions and finds the loader through the user data. All
plugin code runs on the host's thread and nothing blocks, except for the dialogs of
the DEX and ESP loads. Nothing in the plugins says what the host does while one is open:
the model lets it go on with other contexts, which is the wider assumption. The hard behaviours are those of a long sequence of calls over shared
state, of iteration in an order the code does not fix, of loads that fail
half-way, and of arithmetic at the edges of 8-, 16- and 32-bit fields.

## Modules

| module | models | checked by | proofs |
| --- | --- | --- | --- |
| `PEClassifier` | the classifier's member functions, as operators | `pe_load` | in `PELoader_proofs` |
| `PELoader` | `PELoaderT::parse` and all it calls | `pe_load`, `pe_entry`, `pe_package` | `PELoader_proofs` |
| `WndProcAnalyzer`, `VBAnalyzer` | the two analyzers of the PE plugin | `pe_analyzers` | in `PEAnalyzers_proofs` |
| `PEAnalyzers` | which of them the host runs after a load | `pe_analyzers` | `PEAnalyzers_proofs` |
| `DotNetReader` | metadata tables and the walk over the types | `dotnet_reader`, `dotnet_last_index` | in `PELoader_proofs` |
| `ElfLoader` | `doLoad`, the relocations, both analyzers | `elf_load`, `elf_big_endian` | `ElfLoader_proofs` |
| `DexLoader` | loads and listings in several contexts of one process | `dex_listing` | `DexLoader_proofs` |
| `DalvikNames` | what a listing without caches shows (abstract) | `dex_listing` | in `DexLoader_proofs` |
| `DalvikCode` | decoder, emulation and listing of Dalvik instructions | `dex_code` | in `DexLoader_proofs` |
| `ClassLookup` | the table of classes of a file | `dex_code` | `DexCode_proofs` |
| `ClassDirectory` | what a lookup of classes promises (abstract) | `dex_code` | in `DexCode_proofs` |
| `DexCatch` | search for a handler, iteration over a list of handlers | `dex_code` | `DexCode_proofs` |
| `DexDebugInfo` | the decoder of a method's debug program | `dex_code` | `TellsOfLocals` |
| `DexProtos` | descriptors, their cache and comparison, the demangler | `dex_code` | `ReadsBack`, `BlocksOwned` |
| `DexClassData` | LEB128 numbers and the lists of a class's members | `dex_code` | in `DexCode_proofs` |
| `DexFileParse` | plain and optimized files, the chunks behind them | `dex_code` | in `DexCode_proofs` |
| `ConsoleLoaders` | the loaders of PSX, N64, GBA and CHIP-8 | `consoles` | `Consoles_proofs` |
| `XbeLoader` | the loader of XBox executables | `consoles` | `Consoles_proofs` |
| `Chip8` | decoder, emulation and rendering of one opcode | `consoles` | `Consoles_proofs` |
| `Ulp` | ULP loader and assembler, with the host's exploration | `esp_plugin` | `EspPlugin_proofs` |
| `EspLoader` | test, choice and load of ESP8266 images | `esp_plugin` | `EspPlugin_proofs` |

`OrderLemmas` has the lemmas several of the proof modules cite.

Each `MC...` module defines the constants of a run: small sets of images.
Three of them compose modules that do not interact into one run, one of the
modules at work and the others at rest: `MCDexCode` (variable `part`),
`MCConsoles` (`plugin`) and `MCEspPlugin` (`loader`, which of the ESP plugin's two
loaders took the file). `CHECK_DEADLOCK FALSE` is said everywhere because a load
ends.

Fairness. What the host and the user do next is theirs: no step of theirs is
fair. A call into libdex and the load of an XBE image run to their ends on the
thread that called them and wait for nobody, so each has weak fairness on its own
steps, and the two liveness properties say that it ends: `XbeLoadEnds` (the walk
over the thunks passes a thunk without an address) and `CallsReturn` (a probe of
the class table, the search for a handler and the walk over its list, the
decoders, the walk over the chunks of a file). The probe ends because the table
has twice as many slots as classes: with as many slots as classes it would not.
The walk over chunks does not always end: a chunk whose size wraps around
when it is rounded to nothing leads to itself. `CallsReturn` says that the walk ends
or has come to such a chunk (`AtItsOwnNext`), and to no other cycle.

Several properties are conjunctions of named parts, given in brackets below;
each part says something of its own, and a counterexample to one of them is one to
the whole.

Common conventions. An image is a constant record of the fields the code reads;
`pc` is the next step of the load; the document is kept as what was requested
of it. A field that a property cannot tell apart is left out. Functions of rdapi
are mapped as external.

### PELoader, PEClassifier

One action per member function `parse` calls, in its order: `LoadSections`,
`CheckDotNet`, then `LoadDotNet` (the managed load, which ends there) or
`LoadExports`, `ReadDescriptor` for each import descriptor and `EndImports`,
`LoadTLS`, `LoadConfig`, `LoadExceptions`, `LoadSymbolTable`, `CheckDebugInfo`,
`CheckResources`, `SetEntry`, `Display`. `classification` is `m_classification`,
`borland` is `m_borlandsignature`, `segments`, `symbols`, `entry` and `abi` are
the document and the context.

Run `pe_load` loads some three thousand images: every list of up to two import
descriptors out of fifteen (three kinds of name table, five library families),
with and without CodeView data, for three linker versions; COR headers that are
readable or not, valid or not, of either major version; resources; and layouts
of one or two sections whose raw and virtual sizes differ both ways, with
exports, aliases, holes and ordinals. Two descriptors are enough for an order to
matter, and every branch of the classifier is a case of one or two of them.

 * `VerdictIsNative`: the verdict accumulated call by call is the one of the import
   table as a whole (last marker library, else first Microsoft runtime;
   `ImportsDecide`), then the linker version's (`LinkerConcludes`); and when
   the VB analyzer is enabled there is an entry point for it to begin at, and a VB
   runtime was imported (`VBAnalyzerHasInput`).
 * `VBSticks` (action property): only another marker library replaces Visual Basic.
 * `ManagedIsNotNative`: an image is never half of each.
 * `LayoutAgrees`: the section lookup and the document's segments map an rva to the
   same byte (`OffsetsAgree`), and a segment the entry point lies in has code
   (`EntrySegmentIsCode`).
 * `SlotsNameTheirThunk`: an imported slot has the name its thunk gives it.

`pe_entry` and `pe_package` are disagreements, see below.

### WndProcAnalyzer, VBAnalyzer, PEAnalyzers

`WndProcAnalyzer`: a program is a few procedures of pushes, calls and other
instructions. `Analyze` collects the references to the dialog functions of what is
disassembled so far, `FindWndProc` handles one, `Explore` is the host
disassembling a procedure the analyzer created; as the analyzer is not marked
run-once, `Analyze` may come again at any time. What the processor would do with
the stack (`StackBefore`) is the reference: `WindowProcedures` says that a
function is made only of a real fourth argument, and that none is missed when
everything is disassembled. Excepted, and named in the property:
calls that take arguments and stand among the pushes (their pushes are counted),
calls through the import of a function that also has a thunk, and code without
IL.

`VBAnalyzer` walks objects, controls and event tables of an image given as a
graph, one action per turn of a loop. `HandlersNamed`: a method named after
object, control and event is what that slot leads to, and an
unknown component or a malformed trampoline costs only its own events. The
analyzer reads as many slots as the component has events, whatever the table
holds; slots behind a table are any word of the image, and `HandlersNamed`
says nothing of them.

`PEAnalyzers` composes the two: the classification a load left enables one of
them, or none.

### DotNetReader

`ReadTable` reads one table with the sizes computed from the row counts,
`WalkType` hands a type's methods to the loader, `WalkAstray` is the same with rows
that are not there. Where a table lies is the
format's business (`FormatStart`, ECMA-335, external). `RowsInPlace` compares the
reader's cursor with it, for every table at every row count where an index
changes its width (2047/2048 up to 65535/65536) and four combinations of wide
heaps. `Misjudged` names the tables whose width the reader does take differently:
indexes into absent tables, the flags of AssemblyRef, tags of MemberRef,
CustomAttribute, TypeRef, GenericParam. `MethodsReported`: each method but the
last two is reported once, under its owner (`MethodsOfTheirTypes`), and the walk
leaves the method table only if the types were misread before
(`AstrayOnlyIfMisread`). Types and methods are at
most three and four; `lists` is nondecreasing from 1, as the format demands.
`U32Range` stands for 2^32 and wraps the unsigned difference; `Strays` are the
values a misplaced read may give.

### ElfLoader

An action is one turn of a loop: a section (`ReadSection`), a program header
(`ReadProgramHeader`), a dynamic tag (`VisitTag`), a relocation table
(`ReadRelocations`), then `SetEntry` and the analyzers, `AnalyzeEntry` (findMain)
and `WalkPlt`. Tags are
taken from an `unordered_map`, so `VisitTag` takes any. Images: four machines, six
lists of program headers (two dynamic tables, an empty first one, arrays with
their size tag missing, PLT tags with version tags), a symbol table with `main`,
data, unnamed and thumb symbols, entry points inside and outside the segments.

 * `CodeAddressesSound`: in any order of the tags, code on ARM is requested at even
   addresses and thumb exactly where the image says so (`ThumbAgrees`), and the
   entry point of an image that has one is mapped (`EntryMapped`).
 * `ArraysComplete`: an initialiser array is read whole, whichever of its two tags
   comes first.
 * `StubsNamed`: on x86 a PLT stub has the name of the import of its slot, although
   loader and analyzer find the slot by different distances.

The images are well-formed in that their thumb bits are consistent and PLT slots lie
in the section DT_PLTGOT names; where the candidates for `main` lie outside the
segments, the property says nothing of the entry; `elf_big_endian`
has images without relocations.

### DexLoader, DalvikNames

Two contexts of one process load one of two files each (or the same), the user
ticks classes and confirms or leaves the dialog, the host renders instructions
and functions, contexts are freed; the caches are static and outlive them.
`SelectionRespected`: every method becomes a function or an import as its own
class was ticked, although the dialog does not list classes without a descriptor
(`LoadedAsAnswered`), and the document and the loader's map agree
(`RecordedAsRequested`).
`NamesOfOpenedFiles`: a text shown is the name of that entry in some file opened
by the process. `ShowsOwnNames`: as long as one file has been opened, the listing
with its caches implements `DalvikNames`, the listing without them (the
abstract module is instantiated over `file` and `shown`). With two files it does
not: the caches are never emptied. The number of keys is 4 instead of 2^16;
file tables have two or three entries, and one index beyond them is rendered.
The run declares the contexts symmetric; they are treated alike by every
definition and the properties quantify over both.

### DalvikCode

The four tables libdex generates (widths, formats, flags, index types) are written as
the opcodes that have each entry. `Emulate` is one call of the host for one address it was told to
explore: decode, report branches, the targets of a packed switch, strings and the
fall-through; `Rendered` is what the listing of an instruction shows. A method is
its units, what lies behind them, and, if a small assembler made it, the starts of
its instructions and payloads.

The run has every opcode, valid or not, with four high bytes and four lists of
operands, and programs of three instructions in which a branch leads to any of
them and switches and arrays have payloads at the end.

 * `FlowIsTheInstructions`: the tables agree with each other (`TablesAgree`),
   `emulate` reports what the flags and the displacement say (`FlowOfTheFlags`), and
   the targets of a switch (`SwitchTargets`). The loop over a packed switch advances
   its pointer and indexes it as well (dalvik.cpp:69), so that from two entries on it
   reads every other target and then what follows the table; the property says
   exactly that. Excepted are the opcodes `emulate` does not follow (`NotFollowed`: most
   tests, the long gotos, the sparse switch, throws).
 * `DecodesWhole`: in a method that is laid out (`CodeLaidOut`: behind each instruction
   and payload, and where its displacement leads, begins another), the host is never
   led into the middle of one, except by such a switch.
 * `ListingIsTheInstruction`: the listing, assembled again, gives the units back. Not
   so for 11n, which lists its constant for its register, for formats the listing
   does not know, and for references out of the file.

`MethodAssumption` says what a method is: units of 16 bits, at least four more of them in
the file behind its code, the last of which does not look like the first unit of a
packed switch, and a table of at most 65535 strings, which 16-bit indexes reach.

### ClassLookup, ClassDirectory

`Add` and `Find` are one probe each; `Ask` is a caller's question. `ClassDirectory`
answers with the first class defined under a descriptor, and `ClassLookup` is shown
to implement it (`ImplementsDirectory`), the table's content mapped to what was
defined, a probe that goes on to a stutter. Files of up to four classes with five
names, duplicates included; two names have one hash, one has a byte of 128 or more,
which is negative in the hash. `HashRange` is 2^16 instead of 2^32: tables have at most
eight slots, and the mask takes the low bits of either.

### DexCatch, DexDebugInfo

`FindHandler` looks at short tables of tries in order and searches long ones, a
`Guess` at a time; `NextHandler` is one turn of the iterator. `HandlerFound`: the search
ends at the list of the try that covers the address, and without one exactly if none
does. `HandlersListed`: the iterator returns the whole list, the handler for all types
last, and iterating over all lists ends where the data does, which is how libdex
computes a method's size. Tables of none, one, two and four tries, with and without
gaps; addresses up to behind the last.

`DexDebugInfo` decodes the header (`Parameter`), then one instruction of a debug program
per step. `LocalsAsDescribed`: the ranges reported say of each register and address
what the program says (`RangesAsDescribed`, against a definition that looks at the
program as a whole), in the order promised to the callbacks (`Ascending`). Excepted
are methods whose names are more than the parameters or whose parameters do not lie in
the registers (`Fits`), and programs that go on to address 2^16, where the start
of a range is cut. A register one past the frame is not refused: the model ends
in `"undefined"` there. Methods of five units with programs of up to five
instructions, with wide parameters, unnamed ones, and names too many.

### DexProtos, DexClassData, DexFileParse

`DexProtos` is the string cache with a heap of two blocks and a buffer of eight bytes,
a caller that takes a descriptor away and frees it, comparison of descriptors, and
the demangler's reading of one. `CacheOwnership`: every block has one owner.
`DescriptorsReadBack`: a descriptor fits where it is held, compares as the prototype it
was made of does, and its signature names the classes in it. A type is the sequence of
its bytes. Compared are signed characters, so names with bytes from 128 on are excepted; `getSignature` goes on behind
the parenthesis and names the class a method returns as well.

`DexClassData` reads the four counts and the lists. `ClassReadBack`: the class read is the
one written, each list numbered from its own beginning, and nothing is returned of
bytes that are cut by the limit or of numbers that are too long. Numbers of one, two and
five bytes, lists of up to two members; an index is taken modulo `IndexRange`, 512 instead
of 2^32, so that the second of two members wraps. An item says which numbers its bytes encode, at
which places, and which lists these are (`EncodingAssumption`); for class data that is
none there are the numbers up to one that is too long.

`DexFileParse` walks the chunks behind an optimized file and checks the file.
`TablesAsWritten`: tables are found where they were written, the last of a kind, and in
any file a table kept lies inside the buffer unless this table's own size wraps when it
is rounded: such a table is kept though it reaches out (DexOptData.cpp:93; the area
of the run whose table is 60 bytes long). Chunk sizes are bytes modulo
`SizeRange`, 64 instead of 2^32, so that sizes wrap to nothing, past it, and out of
the area.

The plugin itself calls neither the search for handlers nor the lookup by
descriptor: these modules model libdex as it stands in the repository.

### ConsoleLoaders, XbeLoader

`ConsoleLoaders`: `TestRom`, `LoadRom`, and for GBA `AnalyzeCrt0`, over a record of
what the loader of its system reads.

 * `MemoryAsOnTheConsole`: the segments of a PS-X executable cover the user's RAM, each
   address once (`UserRamTiled`, RAM of eight words, address arithmetic modulo
   32, every text address and size); the strings of the BIOS are whole runs of
   characters (`BiosStringsAreRuns`). Texts outside the RAM are excepted.
 * `EntryAsOnTheConsole`: headers accepted sum up and have no lowercase letter in any of
   their three texts
   (`AcceptedHeadersAreSound`), decoding starts where the console does
   (`StartAsOnTheConsole`), and what the GBA's start-up analyzer queues has an
   assembler and a name, Thumb code at an even address (`StartUpCodeDecodable`).
   Excepted are GBA branches backward, whose offset is not sign-extended
   (gba.cpp:109), and N64 images in other byte orders, which the test accepts and
   nothing swaps.

`XbeLoader`: `LoadSection`, `MapKernel`, `DecodeEntry`, `DecodeKernel`, `ImportThunk` and the
rest of `load`. An image carries what its linker meant, and stores it xored with the
key of its kind; the keys are exclusive ors on words 0..31. Sections with a gap between
them, tables that end in the gap, run over it or lie in it, files with and without
the database of ordinals.

 * `LoadedAsLinked`: entry point and imports are those the linker stored. Excepted are
   debug images in which the retail key happens to yield a mapped address, which is
   tried first (xbe.cpp:73), and for the imports sections that lie over each other;
   the two parts (`EntryIsTheLinkers`, `ImportsAreTheImages`) name these conditions.
 * `XbeLoadEnds`: see fairness.

### Chip8

`Decode` is the decoder's table, `Emulated` the masks of `emulate`, and the run goes
through all 65,536 opcodes. `FlowMatchesDecode`: what is listed as a goto, call,
skip or return flows as one, and nothing else does. `ListingKeepsOperands`: the listing
shows every operand (`RendersFully`), and assembled again it gives the opcode back
(`OperandsReadBack`), except for FX71, 4XKK and opcodes with an ignored digit.

### Ulp

`Load` maps the segments, `Emulate` handles one address the host has been told to
explore, the listing's targets are in `Shown`. `FlowIsListed`: following the
listing and following the emulation lead to the same addresses;
`WordsDecodedWhole`: nothing is decoded across words; `SegmentsDisjoint`. The target
of a conditional absolute jump is taken in words by one and in bytes by the
other: programs that reach one are excepted in both. Texts have up to three
words, every jump distance within and around them, and sizes that are no
multiple of four.

### EspLoader

`Test`, `InitImports`, `Select` or `Cancel`, `Load`, `MapSegment`,
`EndSegments`, over files of 8, 40 and 96 bytes with image slots at 0, 32 and 64
(`Image0Offset` and `Image1Offset` are constants), up to three segments of 0, 8 and
40 bytes, so that chains end by their count, by the end of the file, or run into
the next image. `ChainOfTheImagePicked`: what is mapped is
the chain of the image the user picked, though the menu leaves out missing
images. `CompleteOrNothing`: a load that reports success mapped all its segments or was
cut by the end of the file (`CompleteOrCut`), one that fails leaves no segment of an
image (`FailureLeavesNoImage`), and what is mapped as code lies in instruction memory
(`CodeInInstructionMemory`).

## Disagreements between code and documentation

Four runs end in a counterexample, each for one property the repository states:

 * `pe_entry`: "Entry point always points to code segment" (pe.cpp:233); the entry
   is set without looking for a segment.
 * `pe_package`: "'PACKAGEINFO' resource not found" (classifier.cpp:101) is reported of
   images that have it, because names of named resources are lost.
 * `elf_big_endian`: big-endian images are accepted, and none of their sections mapped,
   because the section flags are read without conversion.
 * `dotnet_last_index`: the comment of `getListCount` takes methodList for the last
   index of its type; it is the first.

Other things met while modelling, which nothing in the repository contradicts and
which are therefore in the models, in the exceptions of properties or in the list of
hazards: ELF versions are stored by version index and looked up by symbol index
(elf.cpp:161); three constants in other registers end `findMain` with an exception
(elf_analyzer_x86.cpp:91); array bounds of big-endian images are converted twice
(elf.cpp:363); CHIP-8 F000 never decodes as the stop it is meant to be, BMMM does
not end the flow; the ESP size code is compared with a constant instead of
shifted by it (esp_common.cpp:39), and the payload of a second-version image
is skipped (line 104); `renderJmp` of the ULP shows a threshold through another
instruction's field (ulp_assembler.cpp:163).

## Proofs

All for every value of the constants the `ASSUME`s of the modules admit, that is for
images of any size and number. The assumptions say what the code's types say (fields
of a file are unsigned, sequences are sequences) and what is noted below; TLC
evaluates each of them in the run of its module.

`OrderLemmas` has what the others share: least and greatest elements, for the `Min`
and `Max` of the models; `SetInduction`, induction over a set of numbers, which
needs no theorem with an operator parameter; and `LoopExists`, that the function a
loop computes exists, so that a `LET` function of a model can be unfolded.

 * `PELoader_proofs`. `TypeCorrect`: `TypeOK` with `image \in Images`, which is
   needed because the Borland signature comes from the image. `Separation`:
   `ManagedIsNotNative`, from `SplitInv`, which relates the stage of the load to the
   readability of the COR header (stages of the native load are reached only
   without one) and says that no operator of the native load yields a .NET
   verdict. `VBStands`: `VBSticks`, from one lemma per classifier operator.
   `LayoutFollowsFile`: `LayoutAgrees`; the segments are one for each section read, and
   the arithmetic of rounding a virtual size up relates the two maps.
   `VerdictOfTheImports`: `VerdictIsNative`; one descriptor more changes the last marker
   and the first runtime, over which `ImportVerdict` takes `Max` and `Min`.
   `SlotsOfTheLoader`: `SlotsNameTheirThunk`, which needs of `FieldsAssumption` that a thunk
   is at least a byte wide.
   `ReportsTheMethods`, of the .NET reader: `MethodsReported`. `TypeReports` is the
   arithmetic: `getListCount` wraps at most once, and what `iterateMethods` takes of it
   stops at the table's end, so that among all methods but the last two exactly a type's
   own are reported under it. `ReaderInv` then says that of the methods of the types
   walked each is reported once (`ReportedOnce`), and one type more keeps it
   (`OneMoreType`). `ListsAssumption` is the format's: the first type's list begins with
   method 1, later ones do not begin earlier, none exceeds the table by more than one.
   `ReadsInPlace`: `RowsInPlace`. Every column of the 37 tables is of one of four kinds
   (`KnownRows`), of each kind the code takes as many bytes as the format says (`SameWidth`,
   `WidthOfTag`), and where the two list other columns a row that is not `Misjudged` is as
   long (`SameRow`). `TablesInv` says that the tables before some place in the order have
   been read and the cursor is where that place begins; tables that are not there take no
   room (`StartStays`, by induction), so that it is where the next one begins.
 * `PEAnalyzers_proofs`. `FindsTheProcedures`: `WindowProcedures`. `RunInv` says what was found
   at the references a run has looked at. `StackIsPushed` relates the analyzer's
   walk to the processor: by induction over the instructions before a call,
   position d of the stack holds the value of the d-th push from the end. The names of
   dialog functions are names (`"none"` is not among them).
   `NamesTheHandlers`: `HandlersNamed`. `PassedInv` says that whatever event the cursor
   is behind has its methods, in the order of objects, controls and events, and
   `NamedInv` which slot a method was found in; that names of a component's events differ
   is part of `VBAssumption`.
 * `ElfLoader_proofs`. `CodeIsSound`: `CodeAddressesSound`; every place that creates code
   takes its address from what the image states and clears the bit it takes the assembler
   from; `ImagesAssumption` says that the sections of an ARM image begin at even addresses. `ArraysAreComplete`:
   `ArraysComplete`: the two tags of an array are both in the map before the first is visited, and what
   has been visited has its requests.
   `StubsHaveTheirNames`: `StubsNamed`. Document and `m_plt` are shown to hold the same slots
   (`ImportsInMap`, `MapInImports`), and distances from the section and from the GOT are
   one (`OffsetsOfSlots`) because `PltAssumption` says, as the linker does it, that the slots
   lie in the section DT_PLTGOT names, one function to a slot.
 * `DexLoader_proofs`. `TypeCorrect`, and `CachedNames`: `NamesOfOpenedFiles` for any
   number of contexts and files. The invariant `Honest` says that every cached
   text is a name of its key in some opened file, and every recorded method a
   method of its file with code at its address. It needs that no two indexes of
   a file share a key (`KeyIsIndex`, from the assumption that indexes fit the keys).
   `SelectionIsRespected`: `SelectionRespected`; the dialog's list, built by a loop,
   numbers a class by those before it that have a descriptor, which is proved by
   induction over the classes. `ImplementsNames`: `ShowsOwnNames`, a step
   simulation of `DalvikNames`: with one opened file, `Honest` says that every cached
   text is the context's own file's, so `RenderIndex` and `RenderFunction` map to
   `Answer`, `Load` to `Open`, and the user's other steps to stutters.
   Of `DalvikCode`: `FollowsInstructions`: `FlowIsTheInstructions`, `LeadsToInstructions`: `DecodesWhole`, and
   `ListsTheInstruction`: `ListingIsTheInstruction`, for any methods. `FlowInv` says that
   what the host was told at an address is an answer of `emulate` there, and that no
   address is both emulated and still to do. The tables are then compared
   opcode by opcode, the flow branch by branch. `DecodesWhole` needs that
   libdex's width of what begins at an address is the format's (`Extent`), and that a
   branch leads where its displacement says (`LeadsTo`). For the listing there is one
   lemma for each format, by the arithmetic of putting its digits together again.
 * `DexCode_proofs`, for libdex. `SearchFinds`: `HandlerFound` for every ordered table of tries.
   The invariant says of a search under way that every try before `min` ends at or
   before the address and every try behind `max` starts behind it (`RuledOut`); the
   guess lies between the two by the arithmetic of halving. `IteratesTheList`:
   `HandlersListed`; the iterator has returned a prefix of the list (`WalkInv`), and the
   end of the data is reached list by list (`EndIsTheDatas`, by induction).
   `CatchAssumption` says that the lists of the handler data follow one another and
   that there is no data without tries.
   `TellsOfLocals`: `LocalsAsDescribed`, for any method and any debug program. The
   definition a register's ranges are compared with looks at the whole program; the
   invariant (`AsTold`) says that what has been told of it, with the range that is still
   open, is at every address what the instructions read so far describe. An instruction
   about the register changes the description from the address reached on only, where
   no range that has been told of reaches (`DescribedAnew`, `NothingBeyond`); before the
   program, each parameter is in the register its predecessors' widths lead to
   (`EntryInv`). `DebugAssumption` says what a method is: registers in 16 bits,
   operands of their kinds, and an `end_sequence`.
   `BlocksOwned`: `CacheOwnership` for any prototypes and any
   heap. `OwnerInv` adds to it that the allocated size is a number.
   `ReadsBack`: `DescriptorsReadBack` for prototypes of any types. `ReadInv` says that a
   cache that holds a prototype's descriptor holds what `dexProtoGetMethodDescriptor`
   writes, in a block that is long enough, and that what was read was read in it. The
   rest is about one descriptor. Each type lies in it where the lengths of those before
   it lead to (`DescriptorIs`); `methodDescriptorNextType`, applied again and again,
   stops at just these places (`PlacesAre`), so that the arguments compared are the
   prototype's own and the first that differs decides as it does for two prototypes
   (`DescriptorCompares`); and the search for `L` ... `;` comes to the next class, whatever
   letters and array marks lie between (`ClassesRead`). All three are inductions over the
   types. `ProtoAssumption` says what a type is: array marks, then a letter, or a name
   without `)` and `;` between `L` and `;`, of bytes from 1 on; no parameter is void. For
   anything else `methodDescriptorNextType` has no answer, and its caller asserts that
   there is one.
   `AnswersAsDirectory`: `ImplementsDirectory`, the refinement of
   `ClassDirectory` for any classes, any hash and any size of the table. The
   invariant is about the ring of slots: a class lies in a slot its probe came to
   over slots of earlier classes (`TableInv`), and a probe under way has passed only
   full slots, a search only those of other classes (`ProbeInv`). From them, an
   empty slot means that no class has the descriptor, and a match is the first class
   that has it. The hash enters through the slot it leads to, and
   `HashAssumption` states only that it is a number.
   `WalksTheChunks`: `TablesAsWritten`. In any area the walk accepts a next chunk only if it
   is inside, so that a table kept is inside too if its own size does not wrap
   (`NextIsValid`); in an area the optimizer wrote the walk is always at the end of some
   number of chunks and holds the last tables among them (`WrittenWalk`).
   `WrittenAssumption` says what such an area is: chunks one behind the other, padded to
   8 bytes, of sizes that do not wrap, then the end chunk.
   `ReadsTheClass`: `ClassReadBack`. `SumOfSeptets` is the arithmetic of LEB128, and
   `ReadsTheNumber` says that the code's reader, at the place of a number, finds it and
   the place of the next; by induction the n-th number behind the reader is the n-th
   of the item (`BehindNumbers`). The invariant then counts numbers instead of bytes: the
   reader stands before number `Stands`, which the lists read so far determine, and
   what they hold is a beginning of the class (`AsWritten`). `EncodingAssumption` says
   what it is for bytes to encode a class, as the format has it, and of bytes that
   encode none that a number too long follows before the lists are complete.
 * `Consoles_proofs`. `LoadsAsLinked`: `LoadedAsLinked` for any keys that are their own
   inverse and any XBox image whose sections lie in the file. `Walk` says that
   the loop over the thunks has imported what it passed, and nothing else, and met no
   zero; that no later thunk overwrites an earlier one needs that sections with bytes
   lie apart, which the property therefore names. `LiesAsOnTheConsole`:
   `MemoryAsOnTheConsole`, by the modular arithmetic of a text in the RAM and, for
   the BIOS, by the least run behind a place; `ConsoleAssumption` says of the BIOS that it has
   two runs of characters where its loader looks for two. `EntersAsTheConsole`:
   `EntryAsOnTheConsole`.
   `FlowIsAsDecoded`: `FlowMatchesDecode`, and `ListsAsDecoded`: `ListingKeepsOperands`, of
   CHIP-8, for every 16-bit word (`OpcodesAssumption`) at every address. `Digits` splits an
   opcode into the four digits that both tables go by; `FlowFacts` and `EmulatedFacts` say
   by the first one what an instruction does and what emulate reports. For the
   listing there is one lemma for each layout of operands (`KeptSum`, `KeptShow`,
   `KeptMove`, ...), by the arithmetic of putting the digits together again, and for each
   handler of the decoder which layouts its instructions have.
 * `EspPlugin_proofs`, for both loaders. `Disjoint`, and `DecodesWords`: without conditional absolute
   jumps every address decoded or queued is aligned, by the arithmetic of each kind
   of jump. `ListsTheFlow`: `FlowIsListed`, with `Traced` (what the listing leads to is
   decoded or queued, and nothing else but the entry is) on top of that alignment,
   since `LedIsFlow` (listing and emulation agree on every jump that is not a
   conditional absolute one) needs the word decoded to be an instruction of the text.
   `MapsTheImagePicked`: `ChainOfTheImagePicked`, with the invariant
   that the picked label stands for an offset the file holds (`PickedHeader`), that
   the cursor is behind the last segment mapped (`Cursor`), and that nothing is
   mapped before (`Empty`). `LoadsWholeOrNothing`: `CompleteOrNothing`, from `Outcome`,
   which adds that what was picked is an image of either version (`PickedImage`),
   that no more is mapped than the header counts and a lost cursor means the end of
   the file (`Chained`), and that nothing precedes the choice (`Untouched`).

What is only model-checked:

 * both liveness properties (`CallsReturn`, `XbeLoadEnds`), which are out of the prover's
   reach. Every other property of the passing runs has a theorem.

## Not modelled

Logging, wording and layout; formatted names; the ordinal database; media, country and
checksum fields of N64 images and the titles of XBE images, which are only logged;
the host. Of libdex: `DexSwapVerify.cpp`, of which all but the check of the magic
is commented out; SHA-1, the data map and the text conversions, which nothing that is
compiled in calls for a decision; the names of opcodes.

## Plan

Done: PE load and classifier, PE analyzers, .NET reader, ELF, DEX listing, Dalvik
code, libdex, the consoles, ULP, ESP8266.

Next, the most important first:

1. The life cycle: several contexts, `test`, `load`, user data, analyzers and
   `rdplugin_free` in the host's order, composed with `PEAnalyzers`.
2. Abstract specifications: a classifier that sees the import table at once,
   implemented by `PELoader`; a reader of a metadata stream that knows the format's
   widths, implemented by `DotNetReader` where `Misjudged` is empty.
3. Proofs: the termination arguments as decreasing measures.
