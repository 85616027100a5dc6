------------------------------ MODULE ElfLoader ------------------------------
(***************************************************************************)
(* ElfLoaderT<bits>::doLoad (elf/elf.cpp), the relocations it has ElfABI   *)
(* read (elf/elf_abi.cpp), and the two analyzers the host runs afterwards  *)
(* (elf/analyzer).                                                         *)
(*                                                                         *)
(* An action is one turn of a loop of the code: a section, a program       *)
(* header, a dynamic tag, a relocation table.  The dynamic tags are held   *)
(* in an unordered_map, so VisitTag takes them in any order.               *)
(*                                                                         *)
(* Numbers are 16 bits wide, words are WordSize units, and of an image     *)
(* only the fields the loader reads are kept.                              *)
(***************************************************************************)
EXTENDS Integers, Sequences, FiniteSetsExt

CONSTANTS
  Images,    \* the images a run loads
  WordSize   \* size of an address in the image

\* Fields are unsigned, tables are read from their first entry on, and the
\* sections of an ARM image begin at even addresses.
ASSUME ImagesAssumption ==
  /\ WordSize \in {4, 8}
  /\ \A im \in Images :
       /\ im.entry \in Nat
       /\ Len(im.sections) \in Nat /\ DOMAIN im.sections = 1 .. Len(im.sections)
       /\ \A i \in DOMAIN im.sections :
            /\ im.sections[i].addr \in Nat /\ im.sections[i].size \in Nat
            /\ im.machine \in {"arm32", "arm64"} => im.sections[i].addr % 2 = 0
            /\ Len(im.sections[i].symbols) \in Nat
            /\ DOMAIN im.sections[i].symbols = 1 .. Len(im.sections[i].symbols)
            /\ \A k \in DOMAIN im.sections[i].symbols : im.sections[i].symbols[k].value \in Nat
       /\ Len(im.headers) \in Nat /\ DOMAIN im.headers = 1 .. Len(im.headers)
       /\ \A h \in DOMAIN im.headers :
            /\ Len(im.headers[h].table) \in Nat
            /\ DOMAIN im.headers[h].table = 1 .. Len(im.headers[h].table)
            /\ \A i \in DOMAIN im.headers[h].table : im.headers[h].table[i][2] \in Nat
       /\ \A a \in DOMAIN im.words : a \in Nat /\ im.words[a] \in Nat

\* What the linker does for lazy binding on x86: the slots of the functions
\* lie in the section DT_PLTGOT names, one function to a slot, and "@plt" is
\* not the whole name of a symbol.
ASSUME PltAssumption ==
  \A im \in Images : im.machine = "x86_32" =>
    /\ \A a \in DOMAIN im.stubs : im.stubs[a] \in Int
    /\ \A i \in DOMAIN im.sections : \A k \in DOMAIN im.sections[i].symbols :
         im.sections[i].symbols[k].name # "@plt"
    /\ \A n \in {"JMPREL", "RELA", "REL"} :
         LET rels == im.relocations[n]
         IN  /\ Len(rels) \in Nat /\ DOMAIN rels = 1 .. Len(rels)
             /\ \A k \in DOMAIN rels :
                  /\ rels[k].offset \in Nat
                  /\ rels[k].type = "JUMP_SLOT" =>
                       /\ \A i \in DOMAIN im.sections :
                            LET s == im.sections[i]
                            IN  (s.addr <= rels[k].offset /\ rels[k].offset < s.addr + s.size) =>
                                  \A h \in DOMAIN im.headers : \A t \in DOMAIN im.headers[h].table :
                                    im.headers[h].table[t][1] = "PLTGOT" => im.headers[h].table[t][2] = s.addr
                       /\ \A m \in {"JMPREL", "RELA", "REL"} : \A j \in DOMAIN im.relocations[m] :
                            LET r == im.relocations[m][j]
                            IN  (r.type = "JUMP_SLOT" /\ r.offset = rels[k].offset) => r.symbol = rels[k].symbol

VARIABLES
  image,     \* the file, never written
  pc,        \* the loop or the analyzer about to run
  index,     \* next section, program header or relocation table
  dynamic,   \* m_dynamic: tag -> value
  pending,   \* tags the loop over m_dynamic has not visited
  versions,  \* m_versions: version index -> name
  plt,       \* ElfABI::m_plt: offset in its section -> name
  mapped,    \* RDDocument: indexes of the sections made segments
  symbols,   \* RDDocument: the symbol requests received
  assembler, \* RDContext: address -> assembler set for it
  entry      \* RDDocument: the entry point

loadVars     == <<dynamic, pending, versions, plt>>
documentVars == <<mapped, symbols, assembler, entry>>
vars == <<image, pc, index, loadVars, documentVars>>

None == -1
EmptyMap == [x \in {} |-> None]

-----------------------------------------------------------------------------
(* Byte order.  e_valT converts a field of a big-endian image; a field     *)
(* read without it keeps its bytes swapped.                                *)

Swap(v) == (v % 256) * 256 + (v \div 256)
Raw(v)  == IF image.msb THEN Swap(v) ELSE v

\* A raw flag word has SHF_ALLOC, bit 1, where a big-endian image keeps bit 9,
\* which no flag uses.
RawHasAlloc(s) == "ALLOC" \in s.flags /\ ~image.msb

-----------------------------------------------------------------------------
(* Addresses. *)

Covers(s, a) == s.addr <= a /\ a < s.addr + s.size

\* findSegment(address): the first section that contains it, None otherwise.
FindSection(a) ==
  LET hit == { i \in DOMAIN image.sections : Covers(image.sections[i], a) }
  IN  IF hit = {} THEN None ELSE Min(hit)

\* RDDocument_AddressToSegment.
InSegment(a) == \E i \in mapped : Covers(image.sections[i], a)

IsARM == image.machine \in {"arm32", "arm64"}

IsThumb(a) == IsARM /\ a % 2 = 1

\* Mutant: the thumb bit is left in the address.
CodeAddressKept(a) == a

\* The address checkArchitecture leaves in its argument.
CodeAddress(a) == IF IsThumb(a) THEN a - 1 ELSE a

\* SetAddressAssembler for references in the order of their indexes, the last
\* one winning.
Assembled(asm, refs) ==
  LET at(a) == { i \in DOMAIN refs : CodeAddress(refs[i]) = a }
  IN  [ a \in DOMAIN asm \cup { CodeAddress(refs[i]) : i \in DOMAIN refs } |->
          IF at(a) = {} THEN asm[a]
          ELSE IF IsThumb(refs[Max(at(a))]) THEN "thumb" ELSE image.machine ]

Request(call, a, name) == [call |-> call, address |-> a, name |-> name]

-----------------------------------------------------------------------------
(* Symbol tables. *)

\* The symbols readSymbols goes through, by their place in the section: none
\* without an entry size, and only what the entry size leaves room for.
SymbolsOf(s, first, entsize) ==
  IF entsize = 0 \/ s.link >= Len(image.sections) THEN <<>>
  ELSE [ i \in { j \in DOMAIN s.symbols : first \div entsize < j /\ j <= s.size \div entsize } |->
           s.symbols[i] ]

Kept(sym) == sym.name # "" /\ sym.value # 0

IsFunction(sym) ==
  \/ sym.type = "FUNC"
  \/ sym.type = "TFUNC" /\ image.machine = "arm32"

\* A TFUNC symbol is a thumb function whatever its low bit.
Reference(sym) ==
  IF sym.type = "TFUNC" /\ sym.value % 2 = 0 THEN sym.value + 1 ELSE sym.value

SymbolRequest(sym) ==
  IF IsFunction(sym)
  THEN Request(IF sym.global THEN "ExportedFunction" ELSE "Function",
               CodeAddress(Reference(sym)), <<sym.name>>)
  ELSE Request(IF sym.global THEN "Exported" ELSE "Data", sym.value, <<sym.name>>)

SymbolRequests(syms) ==
  { SymbolRequest(syms[i]) :
      i \in { j \in DOMAIN syms :
               Kept(syms[j]) /\ (IsFunction(syms[j]) \/ syms[j].type = "OBJECT") } }

SymbolReferences(syms) ==
  [ i \in { j \in DOMAIN syms : Kept(syms[j]) /\ IsFunction(syms[j]) } |-> Reference(syms[i]) ]

-----------------------------------------------------------------------------
(* Sections and program headers. *)

SegmentFlags(s) ==
  CASE s.type = "PROGBITS" -> IF "EXEC" \in s.flags THEN "Code" ELSE "Data"
    [] s.type \in {"INIT_ARRAY", "FINI_ARRAY"} -> "Data"
    [] s.type = "NOBITS" -> "Bss"
    [] OTHER -> "None"

MapsSection(s) ==
  s.addr # 0 /\ s.size # 0 /\ RawHasAlloc(s) /\ SegmentFlags(s) # "None"

ReadSection ==
  /\ pc = "sections"
  /\ index <= Len(image.sections)
  /\ LET s == image.sections[index]
         syms == IF s.type = "SYMTAB" THEN SymbolsOf(s, 0, Raw(s.entsize)) ELSE <<>>
     IN  /\ mapped' = IF MapsSection(s) THEN mapped \cup {index} ELSE mapped
         /\ symbols' = symbols \cup SymbolRequests(syms)
         /\ assembler' = Assembled(assembler, SymbolReferences(syms))
  /\ index' = index + 1
  /\ UNCHANGED <<image, pc, loadVars, entry>>

EndSections ==
  /\ pc = "sections"
  /\ index > Len(image.sections)
  /\ pc' = "headers"
  /\ index' = 1
  /\ UNCHANGED <<image, loadVars, documentVars>>

\* The tags in front of DT_NULL; a later tag replaces an earlier equal one.
TagsOf(table) ==
  [ t \in { table[i][1] : i \in DOMAIN table } |->
      table[Max({ i \in DOMAIN table : table[i][1] = t })][2] ]

\* readDynamic leaves an image's second dynamic table alone, unless the first
\* one was empty.
ReadProgramHeader ==
  /\ pc = "headers"
  /\ index <= Len(image.headers)
  /\ LET h == image.headers[index]
     IN  IF h.memsz # 0 /\ h.type = "DYNAMIC" /\ h.offset # 0 /\ dynamic = EmptyMap
         THEN /\ dynamic' = TagsOf(h.table)
              /\ pending' = DOMAIN TagsOf(h.table)
              /\ pc' = "dynamic"
         ELSE UNCHANGED <<pc, dynamic, pending>>
  /\ index' = index + 1
  /\ UNCHANGED <<image, versions, plt, documentVars>>

EndHeaders ==
  /\ pc = "headers"
  /\ index > Len(image.headers)
  /\ pc' = "relocations"
  /\ index' = 1
  /\ UNCHANGED <<image, loadVars, documentVars>>

-----------------------------------------------------------------------------
(* Dynamic tags. *)

SizeTag == [ PREINIT_ARRAY |-> "PREINIT_ARRAYSZ",
             INIT_ARRAY |-> "INIT_ARRAYSZ",
             FINI_ARRAY |-> "FINI_ARRAYSZ" ]

IsArrayTag(t) == t \in DOMAIN SizeTag

\* The slots of an array.  Both arguments were converted when m_dynamic was
\* filled and are converted a second time here.
ArraySlots(t) ==
  LET base == Raw(dynamic[t])
      size == Raw(dynamic[SizeTag[t]])
  IN  IF ~InSegment(base) THEN {}
      ELSE { base + n * WordSize : n \in 0 .. (size + WordSize - 1) \div WordSize - 1 }

\* 0 and -1 mark the ends of an array in old images.
FilledSlots(t) ==
  { a \in ArraySlots(t) \cap DOMAIN image.words : image.words[a] \notin {0, 65535} }

ReadsArray(t) == IsArrayTag(t) /\ SizeTag[t] \in DOMAIN dynamic

\* The code addresses a tag makes the loader look at, in order: those of an
\* array by its slots.
TagReferences(t) ==
  IF dynamic[t] = 0 THEN <<>>
  ELSE CASE ReadsArray(t) -> [ a \in FilledSlots(t) |-> image.words[a] ]
         [] t \in {"INIT", "FINI"} -> << dynamic[t] >>
         [] OTHER -> <<>>

\* The dynamic symbol table; the entry size is the tag's, the start what is
\* left of the section from the tag's value.
DynamicSymbols ==
  IF "SYMENT" \in DOMAIN dynamic /\ FindSection(dynamic["SYMTAB"]) # None
  THEN LET s == image.sections[FindSection(dynamic["SYMTAB"])]
       IN  SymbolsOf(s, dynamic["SYMTAB"] - s.addr, dynamic["SYMENT"])
  ELSE <<>>

TagRequests(t) ==
  IF dynamic[t] = 0 THEN {}
  ELSE CASE ReadsArray(t) ->
              { Request("Pointer", a, <<"ptr", t>>) : a \in FilledSlots(t) }
                \cup { Request("Function", CodeAddress(image.words[a]), <<"sub", t>>) : a \in FilledSlots(t) }
         [] t \in {"INIT", "FINI"} -> { Request("Function", CodeAddress(dynamic[t]), <<"sub", t>>) }
         [] t = "SYMTAB" -> SymbolRequests(DynamicSymbols)
         [] t = "PLTGOT" -> { Request("Data", dynamic[t], <<"_GLOBAL_OFFSET_TABLE_">>) }
         [] OTHER -> {}

\* readVersions: the version names of the needed libraries, by version index;
\* hidden versions are left out.
VersionsOf(t) ==
  IF t = "VERNEED" /\ dynamic[t] # 0 /\ "VERNEEDNUM" \in DOMAIN dynamic
     /\ FindSection(dynamic[t]) # None
  THEN { image.verneed[i] : i \in { j \in DOMAIN image.verneed :
           j <= dynamic["VERNEEDNUM"] /\ ~image.verneed[j].hidden } }
  ELSE {}

WithVersions(old, new) ==
  [ k \in DOMAIN old \cup { v.other : v \in new } |->
      IF \E v \in new : v.other = k THEN (CHOOSE v \in new : v.other = k).name ELSE old[k] ]

\* Mutant: the size of an array is used only if its tag was visited before.
VisitTagSized(t) ==
  /\ pc = "dynamic"
  /\ t \in pending
  /\ IF IsArrayTag(t) /\ SizeTag[t] \in pending
     THEN UNCHANGED <<symbols, assembler>>
     ELSE /\ symbols' = symbols \cup TagRequests(t)
          /\ assembler' = Assembled(assembler, TagReferences(t))
  /\ versions' = WithVersions(versions, VersionsOf(t))
  /\ pending' = pending \ {t}
  /\ UNCHANGED <<image, pc, index, dynamic, plt, mapped, entry>>

VisitTag(t) ==
  /\ pc = "dynamic"
  /\ t \in pending
  /\ symbols' = symbols \cup TagRequests(t)
  /\ assembler' = Assembled(assembler,
                    IF t = "SYMTAB" /\ dynamic[t] # 0 THEN SymbolReferences(DynamicSymbols)
                    ELSE TagReferences(t))
  /\ versions' = WithVersions(versions, VersionsOf(t))
  /\ pending' = pending \ {t}
  /\ UNCHANGED <<image, pc, index, dynamic, plt, mapped, entry>>

EndDynamic ==
  /\ pc = "dynamic"
  /\ pending = {}
  /\ pc' = "headers"
  /\ UNCHANGED <<image, index, loadVars, documentVars>>

-----------------------------------------------------------------------------
(* Relocations (elf/elf_abi.cpp). *)

\* The tables in the order of ElfABIT::parse: the PLT's, then RELA, then REL.
RelocationTables == << <<"JMPREL", "PLTRELSZ">>, <<"RELA", "RELASZ">>, <<"REL", "RELSZ">> >>

\* elfdynptr: the relocations behind a pair of tags, none unless both are
\* there and the address lies in a section with contents.
RelocationsOf(pair) ==
  IF /\ pair[1] = "JMPREL" => "PLTREL" \in DOMAIN dynamic
     /\ pair[1] \in DOMAIN dynamic
     /\ pair[2] \in DOMAIN dynamic
     /\ FindSection(dynamic[pair[1]]) # None
     /\ image.sections[FindSection(dynamic[pair[1]])].type # "NOBITS"
     /\ image.machine \in {"x86_32", "x86_64", "arm32"}
  THEN image.relocations[pair[1]] ELSE <<>>

\* symbolName: the symbol's name, with the version found under the symbol's
\* own index.
SymbolName(i) ==
  LET name == image.imports[i]
  IN  IF i \in DOMAIN versions THEN <<name, versions[i]>> ELSE <<name>>

Usable(r) == r.symbol \in DOMAIN image.imports

\* Mutant: the slot is not related to its section.
SlotOffsetAbsolute(r) == r.offset

SlotOffset(r) == r.offset - image.sections[FindSection(r.offset)].addr

IsSlot(r) == r.type = "JUMP_SLOT" /\ Usable(r) /\ FindSection(r.offset) # None

ReadRelocations ==
  /\ pc = "relocations"
  /\ index <= Len(RelocationTables)
  /\ LET rels  == RelocationsOf(RelocationTables[index])
         slots == { i \in DOMAIN rels : IsSlot(rels[i]) }
         data  == { i \in DOMAIN rels : rels[i].type = "GLOB_DAT" /\ Usable(rels[i]) }
         at(o) == { i \in slots : SlotOffset(rels[i]) = o }
     IN  /\ symbols' = symbols
              \cup { Request("Imported", rels[i].offset, SymbolName(rels[i].symbol)) : i \in slots }
              \cup { Request("Data", rels[i].offset, SymbolName(rels[i].symbol)) : i \in data }
         /\ plt' = [ o \in DOMAIN plt \cup { SlotOffset(rels[i]) : i \in slots } |->
                       IF at(o) = {} THEN plt[o] ELSE SymbolName(rels[Max(at(o))].symbol) ]
  /\ index' = index + 1
  /\ UNCHANGED <<image, pc, dynamic, pending, versions, mapped, assembler, entry>>

EndRelocations ==
  /\ pc = "relocations"
  /\ index > Len(RelocationTables)
  /\ pc' = "entry"
  /\ UNCHANGED <<image, index, loadVars, documentVars>>

\* The end of doLoad.  The x86 analyzer looks for main before it walks the
\* PLT, the ARM one after.
SetEntry ==
  /\ pc = "entry"
  /\ IF InSegment(image.entry)
     THEN /\ entry' = CodeAddress(image.entry)
          /\ assembler' = Assembled(assembler, <<image.entry>>)
     ELSE UNCHANGED <<entry, assembler>>
  /\ pc' = IF image.machine \in {"x86_32", "x86_64"} THEN "main"
           ELSE IF IsARM THEN "plt" ELSE "done"
  /\ UNCHANGED <<image, index, loadVars, mapped, symbols>>

-----------------------------------------------------------------------------
(* Analyzers (elf/analyzer).  image.startup is what the code at the entry  *)
(* point passes on: the constants it pushes (x86_32), or those it assigns  *)
(* to registers (x86_64), in order.                                        *)

ArgumentNames == <<"fini", "init", "main">>
RegisterNames == [rdi |-> "main", rcx |-> "init", r8 |-> "fini"]

\* The last constant each register is given.
Assigned == TagsOf(image.startup)

\* RDDocument_CreateFunction makes no function outside the segments.
Created(a, name) == IF InSegment(a) THEN {Request("Function", a, <<name>>)} ELSE {}

FindMain32 ==
  IF Len(image.startup) = Len(ArgumentNames)
  THEN UNION { Created(image.startup[i][2], ArgumentNames[i]) : i \in DOMAIN ArgumentNames }
  ELSE {}

\* Three registers other than the expected ones make EP_NAMES.at throw.
FindMain64Throws ==
  Cardinality(DOMAIN Assigned) = 3 /\ DOMAIN Assigned # DOMAIN RegisterNames

FindMain64 ==
  IF DOMAIN Assigned = DOMAIN RegisterNames
  THEN UNION { Created(Assigned[r], RegisterNames[r]) : r \in DOMAIN Assigned }
  ELSE {}

MainCandidates(requests) == { r.address : r \in { q \in requests : q.name = <<"main">> } }

\* ElfAnalyzer::analyze: nothing without an entry point; afterwards main, if
\* anything is called so, is the entry point.
AnalyzeEntry ==
  /\ pc = "main"
  /\ LET found == IF entry = None THEN {}
                  ELSE CASE image.machine = "x86_32" -> FindMain32
                         [] image.machine = "x86_64" /\ ~FindMain64Throws -> FindMain64
                         [] OTHER -> {}
         main == MainCandidates(symbols \cup found)
     IN  /\ symbols' = symbols \cup found
         /\ IF entry = None \/ main = {} THEN entry' = entry ELSE entry' \in main
  /\ pc' = IF image.machine = "x86_64" /\ entry # None /\ FindMain64Throws THEN "threw"
           ELSE IF IsARM THEN "done" ELSE "plt"
  /\ UNCHANGED <<image, index, loadVars, mapped, assembler>>

Functions ==
  { r.address : r \in { q \in symbols : q.call \in {"Function", "ExportedFunction"} } }

\* The functions of .plt; image.stubs gives the constant each one's jump adds
\* to ebx, or the slot an ARM stub loads pc from.
PltFunctions ==
  { a \in Functions \cap DOMAIN image.stubs :
      \E i \in mapped : image.sections[i].name = ".plt" /\ Covers(image.sections[i], a) }

ImportedAt(a) == { r \in symbols : r.call = "Imported" /\ r.address = a }

\* checkPLT32 on x86 names the stub after the map the relocations left, on
\* ARM after the label of the slot.
X86StubName(a) ==
  IF image.stubs[a] \in DOMAIN plt
  THEN { Request("Function", a, plt[image.stubs[a]] \o <<"@plt">>) } ELSE {}

ARMStubLabel(a) ==
  { Request("Label", a, <<"plt_">> \o r.name) : r \in ImportedAt(image.stubs[a]) }

PltRequests(a) ==
  CASE image.machine = "x86_32" -> X86StubName(a)
    [] image.machine = "arm32" -> ARMStubLabel(a)
    [] OTHER -> {}

WalkPlt ==
  /\ pc = "plt"
  /\ symbols' = IF "JMPREL" \in DOMAIN dynamic
                THEN symbols \cup UNION { PltRequests(a) : a \in PltFunctions }
                ELSE symbols
  /\ pc' = IF IsARM THEN "main" ELSE "done"
  /\ UNCHANGED <<image, index, loadVars, mapped, assembler, entry>>

-----------------------------------------------------------------------------

Init ==
  /\ image \in Images
  /\ pc = "sections"
  /\ index = 1
  /\ dynamic = EmptyMap
  /\ pending = {}
  /\ versions = EmptyMap
  /\ plt = EmptyMap
  /\ mapped = {}
  /\ symbols = {}
  /\ assembler = EmptyMap
  /\ entry = None

Next ==
  \/ ReadSection
  \/ EndSections
  \/ ReadProgramHeader
  \/ EndHeaders
  \/ \E t \in pending : VisitTag(t)
  \/ EndDynamic
  \/ ReadRelocations
  \/ EndRelocations
  \/ SetEntry
  \/ AnalyzeEntry
  \/ WalkPlt

Spec == Init /\ [][Next]_vars

-----------------------------------------------------------------------------
(* Properties.                                                             *)

Finished == pc \in {"done", "threw"}

\* The code addresses the image states, with the thumb bit they carry.
StatedCode ==
  { image.entry }
    \cup { image.words[a] : a \in DOMAIN image.words }
    \cup { dynamic[t] : t \in DOMAIN dynamic \cap {"INIT", "FINI"} }
    \cup UNION { { Reference(s.symbols[k]) : k \in { j \in DOMAIN s.symbols : IsFunction(s.symbols[j]) } } :
                 s \in { image.sections[i] : i \in DOMAIN image.sections } }

\* Whatever the order of the dynamic tags and of the sections, code on ARM is
\* requested at even addresses only, and is thumb code where the image states
\* the address with its low bit set, ARM code where it states it without
\* (checkArchitecture, elf.cpp:464).
ThumbAgrees ==
  IsARM =>
    /\ \A r \in symbols :
         r.call \in {"Function", "ExportedFunction"} => r.address \in DOMAIN assembler
    /\ \A a \in DOMAIN assembler :
         /\ a % 2 = 0
         /\ IF assembler[a] = "thumb" THEN a + 1 \in StatedCode ELSE a \in StatedCode

\* The array a tag describes is read whole although the tag and the one that
\* holds its size are visited in any order: each slot with a function in it is
\* a pointer, and its function is one (readArray, elf.cpp:351).
ArraysComplete ==
  (pc = "relocations" /\ ~image.msb) =>
    \A t \in DOMAIN dynamic \cap DOMAIN SizeTag :
      (SizeTag[t] \in DOMAIN dynamic /\ InSegment(dynamic[t])) =>
        \A a \in DOMAIN image.words :
          (/\ dynamic[t] # 0
           /\ dynamic[t] <= a /\ a < dynamic[t] + dynamic[SizeTag[t]]
           /\ (a - dynamic[t]) % WordSize = 0
           /\ image.words[a] \notin {0, 65535}) =>
             \E p, f \in symbols :
               /\ p.call = "Pointer" /\ p.address = a
               /\ f.call = "Function" /\ f.address = CodeAddress(image.words[a])

\* On x86 a PLT stub is named after the function its slot imports.  The stub
\* gives the slot by its distance from the GOT (DT_PLTGOT), the loader keeps it
\* by its distance from the section (elf_abi.cpp:54).
StubsNamed ==
  (pc = "done" /\ image.machine = "x86_32" /\ {"PLTGOT", "JMPREL"} \subseteq DOMAIN dynamic) =>
    \A a \in PltFunctions :
      { r.name : r \in { q \in symbols : q.address = a /\ q.call = "Function"
                                          /\ q.name[Len(q.name)] = "@plt" } } =
      { r.name \o <<"@plt">> : r \in ImportedAt(dynamic["PLTGOT"] + image.stubs[a]) }

\* An entry point, the one of the header or the main that replaces it, is in a
\* segment (elf.cpp:178, elf_analyzer.cpp:19).  Excepted are images that call
\* something main outside their segments, which nothing checks.
EntryMapped ==
  (entry # None /\ \A a \in MainCandidates(symbols) : InSegment(a)) => InSegment(entry)

\* parse lets a big-endian image pass (elf.cpp:21, "MSB -> BigEndian"): its
\* allocated sections are mapped like those of a little-endian one.
BigEndianMapped ==
  Finished =>
    \A i \in DOMAIN image.sections :
      LET s == image.sections[i]
      IN  (s.addr # 0 /\ s.size # 0 /\ "ALLOC" \in s.flags /\ s.type = "PROGBITS") => i \in mapped

\* The addresses that become code, functions and entry points, are such that
\* the host can decode there what the image means.
CodeAddressesSound == ThumbAgrees /\ EntryMapped
=============================================================================
