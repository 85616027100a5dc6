----------------------------- MODULE MCElfLoader -----------------------------
(* Small ELF images for TLC. *)
EXTENDS ElfLoader

Section(name, addr, size, flags, type) ==
  [name |-> name, addr |-> addr, size |-> size, flags |-> flags, type |-> type,
   entsize |-> 0, link |-> 0, symbols |-> <<>>]

SymbolTable(name, addr, type, syms) ==
  [name |-> name, addr |-> addr, size |-> 16 * Len(syms), flags |-> {"ALLOC"}, type |-> type,
   entsize |-> 16, link |-> 0, symbols |-> syms]

Sym(name, value, type, global) ==
  [name |-> name, value |-> value, type |-> type, global |-> global]

Text      == Section(".text", 64, 32, {"ALLOC", "EXEC"}, "PROGBITS")
Plt       == Section(".plt", 96, 16, {"ALLOC", "EXEC"}, "PROGBITS")
InitArray == Section(".init_array", 128, 12, {"ALLOC"}, "INIT_ARRAY")
Got       == Section(".got.plt", 144, 16, {"ALLOC"}, "PROGBITS")
Rel       == Section(".rel.plt", 240, 16, {"ALLOC"}, "REL")

Startup32 == << <<"push", 76>>, <<"push", 80>>, <<"push", 84>> >>
Startup64 == << <<"rdi", 84>>, <<"rcx", 80>>, <<"r8", 76>> >>

Startup64Other == << <<"rdi", 84>>, <<"rdx", 80>>, <<"r8", 76>> >>

\* A symbol table that holds the stubs' symbols, and one symbol more.
Symbols(arm, extra) ==
  << Sym("stub", 96, "FUNC", FALSE), Sym("stub2", 104, "FUNC", TRUE), extra >>

Dynamic(tags) == [memsz |-> 16, type |-> "DYNAMIC", offset |-> 16, table |-> tags]
LoadHeader    == [memsz |-> 16, type |-> "LOAD", offset |-> 16, table |-> <<>>]

ArrayTags  == << <<"INIT_ARRAY", 128>>, <<"INIT_ARRAYSZ", 12>> >>
PltTags    == << <<"PLTGOT", 144>>, <<"JMPREL", 240>>, <<"PLTRELSZ", 16>>, <<"PLTREL", 17>> >>
SymbolTags == << <<"SYMTAB", 176>>, <<"SYMENT", 16>> >>

VersionTags == << <<"VERNEED", 240>>, <<"VERNEEDNUM", 2>> >>

HeaderLists(code) ==
  { << Dynamic(ArrayTags \o PltTags) >>,
    << LoadHeader, Dynamic(ArrayTags \o SymbolTags \o << <<"INIT", code>> >>) >>,
    << Dynamic(<<>>), Dynamic(PltTags \o VersionTags) >>,
    << Dynamic(<< <<"INIT_ARRAY", 128>> >>), Dynamic(ArrayTags) >>,
    << Dynamic(PltTags \o << <<"FINI", 72>> >>), Dynamic(<< <<"INIT", code>>, <<"FINI", 0>> >>) >>,
    << LoadHeader >> }

Relocations ==
  [ JMPREL |-> << [type |-> "JUMP_SLOT", symbol |-> 1, offset |-> 152],
                  [type |-> "JUMP_SLOT", symbol |-> 2, offset |-> 156] >>,
    RELA   |-> <<>>,
    REL    |-> << [type |-> "GLOB_DAT", symbol |-> 2, offset |-> 148] >> ]

\* Where code is stated: even, or odd on ARM.
Bit(m) == IF m \in {"arm32", "arm64"} THEN 1 ELSE 0

Extras(m) ==
  { Sym("main", 84 + Bit(m), "FUNC", TRUE), Sym("table", 148, "OBJECT", TRUE),
    Sym("", 84, "FUNC", TRUE), Sym("thumb", 80, "TFUNC", FALSE), Sym("main", 6, "FUNC", TRUE) }

Image(m, msb, extra, headers, start, e, stubs) ==
  [ msb |-> msb, machine |-> m,
    sections |-> << Text, Plt, InitArray, Got,
                    SymbolTable(".dynsym", 176, "DYNSYM",
                                << Sym("", 0, "NOTYPE", FALSE), Sym("puts", 0, "FUNC", TRUE),
                                   Sym("run", 68 + Bit(m), "FUNC", TRUE) >>),
                    Rel, SymbolTable(".symtab", 0, "SYMTAB", Symbols(Bit(m), extra)) >>,
    headers |-> headers,
    words |-> [ a \in {128, 132, 136} |->
                  CASE a = 128 -> 72 [] a = 132 -> 65535 [] OTHER -> 76 + Bit(m) ],
    verneed |-> << [other |-> 1, name |-> "GLIBC", hidden |-> FALSE],
                   [other |-> 2, name |-> "LIBM", hidden |-> TRUE] >>,
    relocations |-> Relocations,
    imports |-> <<"puts", "run">>,
    entry |-> e, startup |-> start, stubs |-> stubs ]

StubsX86 == [ a \in {96, 104} |-> IF a = 96 THEN 8 ELSE 12 ]
StubsARM == [ a \in {96, 104} |-> IF a = 96 THEN 156 ELSE 152 ]

ImagesX86 ==
  UNION { { Image("x86_32", FALSE, x, h, Startup32, e, StubsX86) :
              x \in Extras("x86_32"), h \in HeaderLists(68), e \in {64, 4} },
          { Image("x86_64", FALSE, x, h, s, 64, StubsX86) :
              x \in Extras("x86_64"), h \in HeaderLists(68), s \in {Startup64, Tail(Startup64), Startup64Other} } }

ImagesARM ==
  { Image(m, FALSE, x, h, <<>>, e, StubsARM) :
      m \in {"arm32", "arm64"}, x \in Extras("arm32"), h \in HeaderLists(69), e \in {64, 89, 4} }

LittleEndianImages == ImagesX86 \cup ImagesARM

\* Big-endian images without relocations.
BigEndianImages ==
  { Image("arm32", TRUE, x, << Dynamic(ArrayTags) >>, <<>>, 64, StubsARM) : x \in Extras("arm32") }
=============================================================================
