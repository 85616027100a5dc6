--------------------------- MODULE ElfLoader_proofs ---------------------------
(* The code addresses an ELF load leaves, and the arrays of functions it     *)
(* reads, for every image and every order of its dynamic tags; and the names *)
(* the stubs of its PLT get.                                                 *)
EXTENDS ElfLoader, SequenceTheorems, OrderLemmas, TLAPS

-----------------------------------------------------------------------------
(* The state keeps its shape.                                              *)

Loading == {"sections", "headers", "dynamic", "relocations", "entry"}

Typed ==
  /\ image \in Images
  /\ index \in Nat \ {0}
  /\ pc \in Loading \cup {"main", "plt", "done", "threw"}
  /\ mapped \subseteq DOMAIN image.sections
  /\ \A t \in DOMAIN dynamic : dynamic[t] \in Nat
  /\ pending \subseteq DOMAIN dynamic
  /\ pc \in Loading => entry = None

\* Of equal tags the last is kept, with its value.
LEMMA TagsType ==
  ASSUME NEW table, Len(table) \in Nat, DOMAIN table = 1 .. Len(table),
         \A i \in DOMAIN table : table[i][2] \in Nat
  PROVE  \A t \in DOMAIN TagsOf(table) : TagsOf(table)[t] \in Nat
<1>. SUFFICES ASSUME NEW t \in DOMAIN TagsOf(table) PROVE TagsOf(table)[t] \in Nat
  OBVIOUS
<1>. DEFINE I == { i \in DOMAIN table : table[i][1] = t }
<1>1. I # {} /\ I \in SUBSET Int /\ Len(table) \in Int /\ \A i \in I : i <= Len(table)
  BY DEF TagsOf
<1>2. TagsOf(table)[t] = table[Max(I)][2]
  BY DEF TagsOf
<1>. HIDE DEF I
<1>3. Max(I) \in I
  BY <1>1, MaxIsGreatest
<1>. QED
  BY <1>2, <1>3 DEF I

LEMMA TypedInit == Init => Typed
BY DEF Init, Typed, EmptyMap, Loading

LEMMA TypedStep == Typed /\ [Next]_vars => Typed'
<1>. SUFFICES ASSUME Typed, [Next]_vars PROVE Typed'
  OBVIOUS
<1>. USE DEF Typed, Loading, loadVars, documentVars
<1>1. CASE ReadSection
  <2>1. index \in DOMAIN image.sections
    BY <1>1, ImagesAssumption DEF ReadSection
  <2>. QED
    BY <1>1, <2>1 DEF ReadSection
<1>2. CASE EndSections
  BY <1>2 DEF EndSections
<1>3. CASE ReadProgramHeader
  <2>1. CASE /\ dynamic' = TagsOf(image.headers[index].table)
             /\ pending' = DOMAIN TagsOf(image.headers[index].table)
             /\ pc' = "dynamic"
    <3>1. index \in DOMAIN image.headers => \A t \in DOMAIN dynamic' : dynamic'[t] \in Nat
      BY <2>1, ImagesAssumption, TagsType
    <3>2. index \in DOMAIN image.headers
      BY <1>3, ImagesAssumption DEF ReadProgramHeader
    <3>. QED
      BY <1>3, <2>1, <3>1, <3>2 DEF ReadProgramHeader
  <2>. QED
    BY <1>3, <2>1 DEF ReadProgramHeader
<1>4. CASE EndHeaders
  BY <1>4 DEF EndHeaders
<1>5. ASSUME NEW t \in pending, VisitTag(t) PROVE Typed'
  BY <1>5 DEF VisitTag
<1>6. CASE EndDynamic
  BY <1>6 DEF EndDynamic
<1>7. CASE ReadRelocations
  BY <1>7 DEF ReadRelocations
<1>8. CASE EndRelocations
  BY <1>8 DEF EndRelocations
<1>9. CASE SetEntry
  BY <1>9 DEF SetEntry
<1>10. CASE AnalyzeEntry
  BY <1>10 DEF AnalyzeEntry
<1>11. CASE WalkPlt
  BY <1>11 DEF WalkPlt
<1>12. CASE UNCHANGED vars
  BY <1>12 DEF vars
<1>. QED
  BY <1>1, <1>2, <1>3, <1>4, <1>5, <1>6, <1>7, <1>8, <1>9, <1>10, <1>11, <1>12 DEF Next

-----------------------------------------------------------------------------
(* Code addresses.                                                         *)

\* What ThumbAgrees says of the assemblers and of the requests.
AssemblersSound ==
  \A a \in DOMAIN assembler :
    /\ a % 2 = 0
    /\ IF assembler[a] = "thumb" THEN a + 1 \in StatedCode ELSE a \in StatedCode

FunctionsAssembled ==
  \A r \in symbols : r.call \in {"Function", "ExportedFunction"} => r.address \in DOMAIN assembler

\* A section found is one of the image, and covers the address.
LEMMA SectionFound ==
  ASSUME Typed, NEW a, FindSection(a) # None
  PROVE  FindSection(a) \in DOMAIN image.sections /\ Covers(image.sections[FindSection(a)], a)
<1>. DEFINE hit == { i \in DOMAIN image.sections : Covers(image.sections[i], a) }
<1>1. hit # {} /\ FindSection(a) = Min(hit)
  BY DEF FindSection
<1>2. hit \in SUBSET Int /\ \A i \in hit : 1 <= i
  BY ImagesAssumption DEF Typed
<1>3. Min(hit) \in hit
  <2>. HIDE DEF hit
  <2>. QED
    BY <1>1, <1>2, MinIsLeast
<1>. QED
  BY <1>1, <1>3

\* References are numbered, up to a last one.
Numbered(refs) ==
  DOMAIN refs \in SUBSET Int /\ \E m \in Int : \A i \in DOMAIN refs : i <= m

\* The assembler of an address is its old one, or that of a reference to it.
LEMMA AssembledSources ==
  ASSUME NEW refs, Numbered(refs)
  PROVE  /\ DOMAIN Assembled(assembler, refs) = DOMAIN assembler \cup { CodeAddress(refs[i]) : i \in DOMAIN refs }
         /\ \A a \in DOMAIN Assembled(assembler, refs) :
              \/ a \in DOMAIN assembler /\ Assembled(assembler, refs)[a] = assembler[a]
              \/ \E i \in DOMAIN refs :
                   /\ CodeAddress(refs[i]) = a
                   /\ Assembled(assembler, refs)[a] = IF IsThumb(refs[i]) THEN "thumb" ELSE image.machine
<1>1. DOMAIN Assembled(assembler, refs) = DOMAIN assembler \cup { CodeAddress(refs[i]) : i \in DOMAIN refs }
  BY DEF Assembled
<1>2. ASSUME NEW a \in DOMAIN Assembled(assembler, refs)
      PROVE  \/ a \in DOMAIN assembler /\ Assembled(assembler, refs)[a] = assembler[a]
             \/ \E i \in DOMAIN refs :
                  /\ CodeAddress(refs[i]) = a
                  /\ Assembled(assembler, refs)[a] = IF IsThumb(refs[i]) THEN "thumb" ELSE image.machine
  <2>. DEFINE at == { i \in DOMAIN refs : CodeAddress(refs[i]) = a }
  <2>1. Assembled(assembler, refs)[a] = IF at = {} THEN assembler[a]
                                  ELSE IF IsThumb(refs[Max(at)]) THEN "thumb" ELSE image.machine
    BY <1>1, <1>2 DEF Assembled
  <2>2. CASE at = {}
    BY <1>1, <1>2, <2>1, <2>2
  <2>3. CASE at # {}
    <3>1. PICK m \in Int : at \in SUBSET Int /\ \A i \in at : i <= m
      BY DEF Numbered
    <3>2. Max(at) \in at
      <4>. HIDE DEF at
      <4>. QED
        BY <2>3, <3>1, MaxIsGreatest
    <3>. QED
      BY <2>1, <2>3, <3>2
  <2>. QED
    BY <2>2, <2>3
<1>. QED
  BY <1>1, <1>2

\* A reference the image states gives its code address the right assembler.
LEMMA ReferenceSound ==
  ASSUME Typed, IsARM, NEW x \in StatedCode, x \in Nat
  PROVE  LET a == CodeAddress(x)
         IN  /\ a % 2 = 0
             /\ IsThumb(x) => a + 1 \in StatedCode
             /\ ~IsThumb(x) => a \in StatedCode
<1>1. CASE x % 2 = 1
  <2>1. (x - 1) % 2 = 0 /\ (x - 1) + 1 = x
    BY <1>1
  <2>. QED
    BY <1>1, <2>1 DEF CodeAddress, IsThumb
<1>2. CASE x % 2 # 1
  <2>1. x % 2 = 0
    BY <1>2
  <2>. QED
    BY <1>2, <2>1 DEF CodeAddress, IsThumb
<1>. QED
  BY <1>1, <1>2

LEMMA AssemblersStep ==
  ASSUME Typed, IsARM, AssemblersSound, FunctionsAssembled,
         UNCHANGED <<image, dynamic>>,
         NEW refs, Numbered(refs),
         \A i \in DOMAIN refs : refs[i] \in StatedCode /\ refs[i] \in Nat,
         assembler' = Assembled(assembler, refs),
         \A r \in symbols' \ symbols : r.call \in {"Function", "ExportedFunction"} =>
           \E i \in DOMAIN refs : r.address = CodeAddress(refs[i])
  PROVE  AssemblersSound' /\ FunctionsAssembled'
<1>1. StatedCode' = StatedCode
  BY DEF StatedCode, Reference, IsFunction
<1>2. image.machine # "thumb"
  BY DEF IsARM
<1>5. /\ DOMAIN assembler' = DOMAIN assembler \cup { CodeAddress(refs[i]) : i \in DOMAIN refs }
      /\ \A a \in DOMAIN assembler' :
           \/ a \in DOMAIN assembler /\ assembler'[a] = assembler[a]
           \/ \E i \in DOMAIN refs :
                /\ CodeAddress(refs[i]) = a
                /\ assembler'[a] = IF IsThumb(refs[i]) THEN "thumb" ELSE image.machine
  BY AssembledSources
<1>3. ASSUME NEW a \in DOMAIN assembler'
      PROVE  /\ a % 2 = 0
             /\ IF assembler'[a] = "thumb" THEN a + 1 \in StatedCode' ELSE a \in StatedCode'
  <2>1. CASE a \in DOMAIN assembler /\ assembler'[a] = assembler[a]
    BY <1>1, <2>1 DEF AssemblersSound
  <2>2. CASE \E i \in DOMAIN refs :
               /\ CodeAddress(refs[i]) = a
               /\ assembler'[a] = IF IsThumb(refs[i]) THEN "thumb" ELSE image.machine
    BY <1>1, <1>2, <2>2, ReferenceSound
  <2>. QED
    BY <1>5, <1>3, <2>1, <2>2
<1>4. \A r \in symbols' : r.call \in {"Function", "ExportedFunction"} => r.address \in DOMAIN assembler'
  BY <1>5 DEF FunctionsAssembled
<1>. QED
  BY <1>3, <1>4 DEF AssemblersSound, FunctionsAssembled

\* Requests without references, and without functions.
LEMMA AssemblersKept ==
  ASSUME AssemblersSound, FunctionsAssembled, UNCHANGED <<image, assembler>>, StatedCode \subseteq StatedCode',
         \A r \in symbols' \ symbols : r.call \notin {"Function", "ExportedFunction"}
  PROVE  AssemblersSound' /\ FunctionsAssembled'
BY DEF AssemblersSound, FunctionsAssembled

\* The functions of a symbol table are stated, each by its own reference.
LEMMA SymbolsSound ==
  ASSUME Typed, NEW syms,
         \E k \in DOMAIN image.sections : \E first, entsize :
           syms = SymbolsOf(image.sections[k], first, entsize)
  PROVE  LET refs == SymbolReferences(syms)
         IN  /\ Numbered(refs)
             /\ \A i \in DOMAIN refs : refs[i] \in StatedCode /\ refs[i] \in Nat
             /\ \A r \in SymbolRequests(syms) : r.call \in {"Function", "ExportedFunction"} =>
                  \E i \in DOMAIN refs : r.address = CodeAddress(refs[i])
<1>. PICK k \in DOMAIN image.sections : \E first, entsize :
           syms = SymbolsOf(image.sections[k], first, entsize)
  OBVIOUS
<1>. DEFINE s == image.sections[k]
            refs == SymbolReferences(syms)
<1>1. /\ DOMAIN s.symbols = 1 .. Len(s.symbols) /\ Len(s.symbols) \in Nat
      /\ \A j \in DOMAIN s.symbols : s.symbols[j].value \in Nat
  BY ImagesAssumption DEF Typed
<1>2. /\ DOMAIN syms \subseteq DOMAIN s.symbols
      /\ \A i \in DOMAIN syms : syms[i] = s.symbols[i]
  BY DEF SymbolsOf
<1>3. DOMAIN refs = { j \in DOMAIN syms : Kept(syms[j]) /\ IsFunction(syms[j]) }
  BY DEF SymbolReferences
<1>4. \A i \in DOMAIN refs : refs[i] = Reference(s.symbols[i]) /\ IsFunction(s.symbols[i])
  BY <1>2, <1>3 DEF SymbolReferences
<1>5. ASSUME NEW i \in DOMAIN refs PROVE refs[i] \in StatedCode /\ refs[i] \in Nat
  <2>1. i \in { j \in DOMAIN s.symbols : IsFunction(s.symbols[j]) }
    BY <1>2, <1>3, <1>4
  <2>2. refs[i] \in { Reference(s.symbols[j]) : j \in { j \in DOMAIN s.symbols : IsFunction(s.symbols[j]) } }
    BY <1>4, <2>1
  <2>3. refs[i] \in StatedCode
    BY <2>2 DEF StatedCode
  <2>4. s.symbols[i].value \in Nat
    BY <1>1, <2>1
  <2>. QED
    BY <1>4, <2>3, <2>4 DEF Reference
<1>6. ASSUME NEW r \in SymbolRequests(syms), r.call \in {"Function", "ExportedFunction"}
      PROVE  \E i \in DOMAIN refs : r.address = CodeAddress(refs[i])
  <2>1. PICK i \in DOMAIN syms : Kept(syms[i]) /\ r = SymbolRequest(syms[i])
    BY DEF SymbolRequests
  <2>2. IsFunction(syms[i]) /\ r.address = CodeAddress(Reference(syms[i]))
    BY <1>6, <2>1 DEF SymbolRequest, Request
  <2>. QED
    BY <1>2, <1>3, <1>4, <2>1, <2>2
<1>7. Numbered(refs)
  <2>1. Len(s.symbols) \in Int /\ \A i \in DOMAIN refs : i \in Int /\ i <= Len(s.symbols)
    BY <1>1, <1>2, <1>3
  <2>. QED
    BY <2>1 DEF Numbered
<1>. QED
  BY <1>5, <1>6, <1>7

LEMMA NoSymbols ==
  ASSUME NEW syms, syms = << >>
  PROVE  /\ Numbered(SymbolReferences(syms)) /\ DOMAIN SymbolReferences(syms) = {}
         /\ SymbolRequests(syms) = {}
BY DEF Numbered, SymbolReferences, SymbolRequests

LEMMA DynamicSound ==
  ASSUME Typed
  PROVE  LET refs == SymbolReferences(DynamicSymbols)
         IN  /\ Numbered(refs)
             /\ \A i \in DOMAIN refs : refs[i] \in StatedCode /\ refs[i] \in Nat
             /\ \A r \in SymbolRequests(DynamicSymbols) : r.call \in {"Function", "ExportedFunction"} =>
                  \E i \in DOMAIN refs : r.address = CodeAddress(refs[i])
<1>1. PICK syms : syms = DynamicSymbols
  OBVIOUS
<1>2. CASE "SYMENT" \in DOMAIN dynamic /\ FindSection(dynamic["SYMTAB"]) # None
  <2>. DEFINE k == FindSection(dynamic["SYMTAB"])
  <2>1. k \in DOMAIN image.sections
    BY <1>2, SectionFound
  <2>2. \E first, entsize : syms = SymbolsOf(image.sections[k], first, entsize)
    BY <1>1, <1>2 DEF DynamicSymbols
  <2>. QED
    BY <1>1, <2>1, <2>2, SymbolsSound
<1>3. CASE ~("SYMENT" \in DOMAIN dynamic /\ FindSection(dynamic["SYMTAB"]) # None)
  BY <1>1, <1>3, NoSymbols DEF DynamicSymbols
<1>. QED
  BY <1>2, <1>3

\* The slots of an array lie in front of its end.
LEMMA SlotsNumbered ==
  ASSUME Typed, NEW t \in DOMAIN SizeTag, t \in DOMAIN dynamic, SizeTag[t] \in DOMAIN dynamic
  PROVE  ArraySlots(t) \in SUBSET Int /\ \E m \in Int : \A a \in ArraySlots(t) : a <= m
<1>. DEFINE base == Raw(dynamic[t])
            size == Raw(dynamic[SizeTag[t]])
            last == (size + WordSize - 1) \div WordSize - 1
<1>1. base \in Nat /\ size \in Nat
  BY DEF Typed, Raw, Swap
<1>2. ArraySlots(t) \subseteq { base + n * WordSize : n \in 0 .. last }
  BY DEF ArraySlots
<1>. HIDE DEF base, size
<1>3. last \in Int
  BY <1>1, ImagesAssumption
<1>. HIDE DEF last
<1>4. \A n \in 0 .. last : base + n * WordSize \in Int /\ base + n * WordSize <= base + last * WordSize
  BY <1>1, <1>3, ImagesAssumption
<1>5. base + last * WordSize \in Int
  BY <1>1, <1>3, ImagesAssumption
<1>. QED
  BY <1>2, <1>4, <1>5

\* What a dynamic tag leads to is stated.
LEMMA TagSound ==
  ASSUME Typed, NEW t \in DOMAIN dynamic
  PROVE  /\ Numbered(TagReferences(t))
         /\ \A i \in DOMAIN TagReferences(t) : TagReferences(t)[i] \in StatedCode /\ TagReferences(t)[i] \in Nat
         /\ t = "SYMTAB" \/ \A r \in TagRequests(t) : r.call \in {"Function", "ExportedFunction"} =>
              \E i \in DOMAIN TagReferences(t) : r.address = CodeAddress(TagReferences(t)[i])
<1>1. CASE dynamic[t] # 0 /\ ReadsArray(t)
  <2>1. /\ t \in DOMAIN SizeTag /\ SizeTag[t] \in DOMAIN dynamic
        /\ t \notin {"INIT", "FINI"} /\ t # "SYMTAB" /\ t # "PLTGOT"
    BY <1>1 DEF ReadsArray, IsArrayTag, SizeTag
  <2>2. TagReferences(t) = [ a \in FilledSlots(t) |-> image.words[a] ]
    BY <1>1, <2>1 DEF TagReferences
  <2>3. \A a \in FilledSlots(t) : a \in DOMAIN image.words /\ a \in ArraySlots(t)
    BY DEF FilledSlots
  <2>4. Numbered(TagReferences(t))
    <3>1. DOMAIN TagReferences(t) = FilledSlots(t)
      BY <2>2
    <3>2. ArraySlots(t) \in SUBSET Int /\ \E m \in Int : \A a \in ArraySlots(t) : a <= m
      BY <2>1, SlotsNumbered
    <3>. QED
      BY <2>3, <3>1, <3>2 DEF Numbered
  <2>5. \A a \in DOMAIN image.words : image.words[a] \in StatedCode /\ image.words[a] \in Nat
    BY ImagesAssumption DEF Typed, StatedCode
  <2>6. TagRequests(t) = { Request("Pointer", a, <<"ptr", t>>) : a \in FilledSlots(t) }
          \cup { Request("Function", CodeAddress(image.words[a]), <<"sub", t>>) : a \in FilledSlots(t) }
    BY <1>1, <2>1 DEF TagRequests
  <2>7. \A r \in TagRequests(t) : r.call = "Function" \/ r.call = "ExportedFunction" =>
          \E a \in FilledSlots(t) : r.address = CodeAddress(image.words[a])
    BY <2>6 DEF Request
  <2>. QED
    BY <2>2, <2>3, <2>4, <2>5, <2>7
<1>2. CASE dynamic[t] # 0 /\ t \in {"INIT", "FINI"}
  <2>1. ~ReadsArray(t) /\ t # "SYMTAB"
    BY <1>2 DEF ReadsArray, IsArrayTag, SizeTag
  <2>2. TagReferences(t) = << dynamic[t] >>
    BY <1>2, <2>1 DEF TagReferences
  <2>3. TagRequests(t) = { Request("Function", CodeAddress(dynamic[t]), <<"sub", t>>) }
    BY <1>2, <2>1 DEF TagRequests
  <2>4. DOMAIN TagReferences(t) = {1} /\ TagReferences(t)[1] = dynamic[t]
    BY <2>2
  <2>5. dynamic[t] \in StatedCode /\ dynamic[t] \in Nat
    BY <1>2 DEF StatedCode, Typed
  <2>. QED
    BY <2>3, <2>4, <2>5 DEF Numbered, Request
<1>3. CASE dynamic[t] = 0 \/ ~(ReadsArray(t) \/ t \in {"INIT", "FINI"})
  <2>1. TagReferences(t) = << >>
    BY <1>3 DEF TagReferences
  <2>2. t # "SYMTAB" => \A r \in TagRequests(t) : r.call = "Data"
    <3>1. CASE dynamic[t] = 0
      BY <3>1 DEF TagRequests
    <3>2. CASE dynamic[t] # 0 /\ t = "PLTGOT"
      BY <1>3, <3>2 DEF TagRequests, Request
    <3>3. CASE dynamic[t] # 0 /\ t # "PLTGOT" /\ t # "SYMTAB"
      BY <1>3, <3>3 DEF TagRequests
    <3>. QED
      BY <3>1, <3>2, <3>3
  <2>. QED
    BY <2>1, <2>2 DEF Numbered
<1>. QED
  BY <1>1, <1>2, <1>3

CodeInv == IsARM => AssemblersSound /\ FunctionsAssembled

LEMMA CodeInit == Init => CodeInv
BY DEF Init, CodeInv, AssemblersSound, FunctionsAssembled, EmptyMap

\* The requests of the x86 analyzer are of an x86 image only.
LEMMA CodeStep == Typed /\ CodeInv /\ [Next]_vars => CodeInv'
<1>. SUFFICES ASSUME Typed, CodeInv, [Next]_vars, IsARM'
              PROVE  AssemblersSound' /\ FunctionsAssembled'
  BY DEF CodeInv
<1>1. image' = image
  BY DEF Next, vars, ReadSection, EndSections, ReadProgramHeader, EndHeaders, VisitTag, EndDynamic,
         ReadRelocations, EndRelocations, SetEntry, AnalyzeEntry, WalkPlt
<1>2. IsARM /\ AssemblersSound /\ FunctionsAssembled
  BY <1>1 DEF IsARM, CodeInv
<1>3. ASSUME UNCHANGED dynamic PROVE StatedCode' = StatedCode
  BY <1>1, <1>3 DEF StatedCode, Reference, IsFunction
<1>4. ASSUME UNCHANGED dynamic, UNCHANGED assembler, UNCHANGED symbols
      PROVE  AssemblersSound' /\ FunctionsAssembled'
  BY <1>1, <1>2, <1>3, <1>4, AssemblersKept
<1>5. CASE ReadSection
  <2>1. index \in DOMAIN image.sections
    BY <1>5, ImagesAssumption DEF ReadSection, Typed
  <2>2. PICK syms :
          /\ syms = IF image.sections[index].type = "SYMTAB"
                    THEN SymbolsOf(image.sections[index], 0, Raw(image.sections[index].entsize)) ELSE <<>>
          /\ symbols' = symbols \cup SymbolRequests(syms)
          /\ assembler' = Assembled(assembler, SymbolReferences(syms))
    BY <1>5 DEF ReadSection
  <2>3. UNCHANGED dynamic
    BY <1>5 DEF ReadSection, loadVars
  <2>4. PICK refs : refs = SymbolReferences(syms)
    OBVIOUS
  <2>5. /\ Numbered(refs)
        /\ \A i \in DOMAIN refs : refs[i] \in StatedCode /\ refs[i] \in Nat
        /\ \A r \in SymbolRequests(syms) : r.call \in {"Function", "ExportedFunction"} =>
             \E i \in DOMAIN refs : r.address = CodeAddress(refs[i])
    <3>1. CASE image.sections[index].type = "SYMTAB"
      <4>1. \E k \in DOMAIN image.sections : \E first, entsize :
              syms = SymbolsOf(image.sections[k], first, entsize)
        BY <2>1, <2>2, <3>1
      <4>. QED
        BY <2>4, <4>1, SymbolsSound
    <3>2. CASE image.sections[index].type # "SYMTAB"
      BY <2>2, <2>4, <3>2, NoSymbols
    <3>. QED
      BY <3>1, <3>2
  <2>. QED
    BY <1>1, <1>2, <2>2, <2>3, <2>4, <2>5, AssemblersStep
<1>6. CASE ReadProgramHeader
  <2>1. StatedCode \subseteq StatedCode'
    <3>1. CASE UNCHANGED dynamic
      BY <1>3, <3>1
    <3>2. CASE dynamic = EmptyMap
      <4>1. DOMAIN dynamic = {}
        BY <3>2 DEF EmptyMap
      <4>. QED
        BY <1>1, <4>1 DEF StatedCode, Reference, IsFunction
    <3>. QED
      BY <1>6, <3>1, <3>2 DEF ReadProgramHeader
  <2>2. UNCHANGED assembler /\ UNCHANGED symbols
    BY <1>6 DEF ReadProgramHeader, documentVars
  <2>. QED
    BY <1>1, <1>2, <2>1, <2>2, AssemblersKept
<1>7. ASSUME NEW t \in pending, VisitTag(t) PROVE AssemblersSound' /\ FunctionsAssembled'
  <2>1. t \in DOMAIN dynamic /\ UNCHANGED dynamic
    BY <1>7 DEF VisitTag, Typed
  <2>2. PICK refs : refs = IF t = "SYMTAB" /\ dynamic[t] # 0 THEN SymbolReferences(DynamicSymbols)
                           ELSE TagReferences(t)
    OBVIOUS
  <2>3. assembler' = Assembled(assembler, refs) /\ symbols' = symbols \cup TagRequests(t)
    BY <1>7, <2>2 DEF VisitTag
  <2>4. /\ Numbered(refs)
        /\ \A i \in DOMAIN refs : refs[i] \in StatedCode /\ refs[i] \in Nat
        /\ \A r \in TagRequests(t) : r.call \in {"Function", "ExportedFunction"} =>
             \E i \in DOMAIN refs : r.address = CodeAddress(refs[i])
    <3>1. CASE t = "SYMTAB" /\ dynamic[t] # 0
      <4>1. TagRequests(t) = SymbolRequests(DynamicSymbols)
        BY <3>1 DEF TagRequests, ReadsArray, IsArrayTag, SizeTag
      <4>. QED
        BY <2>2, <3>1, <4>1, DynamicSound
    <3>2. CASE t = "SYMTAB" /\ dynamic[t] = 0
      <4>1. TagRequests(t) = {}
        BY <3>2 DEF TagRequests
      <4>. QED
        BY <2>1, <2>2, <3>2, <4>1, TagSound
    <3>3. CASE t # "SYMTAB"
      BY <2>1, <2>2, <3>3, TagSound
    <3>. QED
      BY <3>1, <3>2, <3>3
  <2>. QED
    BY <1>1, <1>2, <2>1, <2>3, <2>4, AssemblersStep
<1>8. CASE ReadRelocations
  <2>1. \A r \in symbols' \ symbols : r.call \in {"Imported", "Data"}
    BY <1>8 DEF ReadRelocations, Request
  <2>2. UNCHANGED <<dynamic, assembler>>
    BY <1>8 DEF ReadRelocations
  <2>. QED
    BY <1>1, <1>2, <1>3, <2>1, <2>2, AssemblersKept
<1>9. CASE SetEntry
  <2>1. UNCHANGED <<dynamic, symbols>>
    BY <1>9 DEF SetEntry, loadVars
  <2>2. CASE assembler' = Assembled(assembler, <<image.entry>>)
    <3>1. PICK refs : refs = <<image.entry>>
      OBVIOUS
    <3>2. Numbered(refs)
      BY <3>1 DEF Numbered
    <3>3. \A i \in DOMAIN refs : refs[i] \in StatedCode /\ refs[i] \in Nat
      BY <3>1, ImagesAssumption DEF StatedCode, Typed
    <3>. QED
      BY <1>1, <1>2, <2>1, <2>2, <3>1, <3>2, <3>3, AssemblersStep
  <2>. QED
    BY <1>4, <1>9, <2>1, <2>2 DEF SetEntry
<1>10. CASE AnalyzeEntry
  <2>1. image.machine # "x86_32" /\ image.machine # "x86_64"
    BY <1>2 DEF IsARM
  <2>2. symbols' = symbols /\ UNCHANGED <<dynamic, assembler>>
    BY <1>10, <2>1 DEF AnalyzeEntry, loadVars
  <2>. QED
    BY <1>4, <2>2
<1>11. CASE WalkPlt
  <2>1. \A a : \A r \in PltRequests(a) : r.call = "Label"
    <3>1. image.machine # "x86_32"
      BY <1>2 DEF IsARM
    <3>2. \A a : \A r \in ARMStubLabel(a) : r.call = "Label"
      BY DEF ARMStubLabel, Request
    <3>. QED
      BY <3>1, <3>2 DEF PltRequests
  <2>2. \A r \in symbols' \ symbols : r.call = "Label"
    BY <1>11, <2>1 DEF WalkPlt
  <2>3. UNCHANGED <<dynamic, assembler>>
    BY <1>11 DEF WalkPlt, loadVars
  <2>. QED
    BY <1>1, <1>2, <1>3, <2>2, <2>3, AssemblersKept
<1>12. CASE EndSections \/ EndHeaders \/ EndDynamic \/ EndRelocations \/ UNCHANGED vars
  BY <1>4, <1>12 DEF EndSections, EndHeaders, EndDynamic, EndRelocations, vars, loadVars, documentVars
<1>. QED
  BY <1>5, <1>6, <1>7, <1>8, <1>9, <1>10, <1>11, <1>12 DEF Next

-----------------------------------------------------------------------------
(* The entry point.                                                        *)

\* Taking the thumb bit out of an address does not leave the segment.
LEMMA CodeInSegment ==
  ASSUME Typed, NEW x \in Nat, InSegment(x)
  PROVE  InSegment(CodeAddress(x))
<1>1. CASE IsThumb(x)
  <2>1. PICK i \in mapped : Covers(image.sections[i], x)
    BY DEF InSegment
  <2>. DEFINE first == image.sections[i].addr
              size == image.sections[i].size
  <2>2. first \in Nat /\ size \in Nat /\ first % 2 = 0
    BY <1>1, ImagesAssumption DEF Typed, IsThumb, IsARM
  <2>3. first <= x /\ x < first + size /\ x % 2 = 1
    BY <1>1, <2>1 DEF Covers, IsThumb
  <2>4. first <= x - 1 /\ x - 1 < first + size
    <3>. HIDE DEF first, size
    <3>. QED
      BY <2>2, <2>3
  <2>. QED
    BY <1>1, <2>4 DEF InSegment, Covers, CodeAddress
<1>2. CASE ~IsThumb(x)
  BY <1>2 DEF CodeAddress
<1>. QED
  BY <1>1, <1>2

LEMMA EntryStep == Typed /\ Typed' /\ EntryMapped /\ [Next]_vars => EntryMapped'
<1>. SUFFICES ASSUME Typed, Typed', EntryMapped, [Next]_vars PROVE EntryMapped'
  OBVIOUS
<1>1. ASSUME UNCHANGED <<image, mapped>> PROVE \A a : InSegment(a)' <=> InSegment(a)
  BY <1>1 DEF InSegment
<1>2. ASSUME UNCHANGED <<image, mapped, entry>>, symbols \subseteq symbols' PROVE EntryMapped'
  BY <1>1, <1>2 DEF EntryMapped, MainCandidates
<1>3. CASE pc' \in Loading
  BY <1>3 DEF Typed, EntryMapped
<1>4. CASE SetEntry
  <2>1. UNCHANGED <<image, mapped, symbols>>
    BY <1>4 DEF SetEntry
  <2>2. CASE InSegment(image.entry) /\ entry' = CodeAddress(image.entry)
    <3>1. InSegment(entry')
      BY <2>2, CodeInSegment, ImagesAssumption DEF Typed
    <3>. QED
      BY <1>1, <2>1, <3>1 DEF EntryMapped
  <2>. QED
    BY <1>2, <1>4, <2>1, <2>2 DEF SetEntry
<1>5. CASE AnalyzeEntry
  <2>1. UNCHANGED <<image, mapped>> /\ symbols \subseteq symbols'
    BY <1>5 DEF AnalyzeEntry
  <2>2. entry' = entry \/ entry' \in MainCandidates(symbols')
    BY <1>5 DEF AnalyzeEntry
  <2>3. CASE entry' \in MainCandidates(symbols')
    BY <2>3 DEF EntryMapped
  <2>. QED
    BY <1>2, <2>1, <2>2, <2>3
<1>6. CASE WalkPlt
  BY <1>2, <1>6 DEF WalkPlt
<1>7. CASE UNCHANGED vars
  BY <1>2, <1>7 DEF vars, documentVars
<1>8. \/ pc' \in Loading \/ SetEntry \/ AnalyzeEntry \/ WalkPlt \/ UNCHANGED vars
  BY DEF Next, ReadSection, EndSections, ReadProgramHeader, EndHeaders, VisitTag, EndDynamic,
         ReadRelocations, EndRelocations, Loading
<1>. QED
  BY <1>3, <1>4, <1>5, <1>6, <1>7, <1>8

\* Whatever the order of sections, symbols and dynamic tags, and whatever main
\* is called: every function on ARM gets an assembler, the one its address
\* states, and the entry point lies in a segment.
THEOREM CodeIsSound == Spec => []CodeAddressesSound
<1>1. Typed /\ CodeInv /\ EntryMapped => CodeAddressesSound
  BY DEF CodeInv, AssemblersSound, FunctionsAssembled, ThumbAgrees, CodeAddressesSound
<1>2. Init => EntryMapped
  BY DEF Init, EntryMapped
<1>. QED
  BY <1>1, <1>2, TypedInit, TypedStep, CodeInit, CodeStep, EntryStep, PTL DEF Spec

-----------------------------------------------------------------------------
(* The arrays of functions.                                                *)

\* What a visited tag asks for has been requested, and stays what it asks for.
TagsRead ==
  /\ pc = "sections" => DOMAIN dynamic = {}
  /\ pc \in {"headers", "relocations"} => pending = {}
  /\ \A t \in DOMAIN dynamic \ pending : TagRequests(t) \subseteq symbols

LEMMA RequestsStay ==
  ASSUME UNCHANGED <<image, dynamic, mapped>>, NEW t
  PROVE  TagRequests(t)' = TagRequests(t)
<1>1. DynamicSymbols' = DynamicSymbols
  BY DEF DynamicSymbols, SymbolsOf, FindSection
<1>2. FilledSlots(t)' = FilledSlots(t)
  BY DEF FilledSlots, ArraySlots, InSegment, Raw
<1>3. SymbolRequests(DynamicSymbols)' = SymbolRequests(DynamicSymbols)
  <2>1. PICK syms : syms = DynamicSymbols
    OBVIOUS
  <2>2. SymbolRequests(syms)' = SymbolRequests(syms)
    BY DEF SymbolRequests, SymbolRequest, IsFunction, CodeAddress, IsThumb, IsARM
  <2>. QED
    BY <1>1, <2>1, <2>2 DEF SymbolRequests, SymbolRequest, IsFunction, CodeAddress, IsThumb, IsARM
<1>4. \A a : CodeAddress(a)' = CodeAddress(a)
  BY DEF CodeAddress, IsThumb, IsARM
<1>5. ReadsArray(t)' <=> ReadsArray(t)
  BY DEF ReadsArray
<1>6. ReadsArray(t) => t \notin {"INIT", "FINI", "SYMTAB", "PLTGOT"}
  BY DEF ReadsArray, IsArrayTag, SizeTag
<1>. HIDE DEF FilledSlots, SymbolRequests, DynamicSymbols, CodeAddress, ReadsArray
<1>7. CASE dynamic[t] = 0
  BY <1>7 DEF TagRequests
<1>8. CASE dynamic[t] # 0 /\ ReadsArray(t)
  BY <1>2, <1>4, <1>5, <1>6, <1>8 DEF TagRequests
<1>9. CASE dynamic[t] # 0 /\ ~ReadsArray(t)
  BY <1>3, <1>4, <1>5, <1>9 DEF TagRequests
<1>. QED
  BY <1>7, <1>8, <1>9

LEMMA TagsStep == Typed /\ TagsRead /\ [Next]_vars => TagsRead'
<1>. SUFFICES ASSUME Typed, TagsRead, [Next]_vars PROVE TagsRead'
  OBVIOUS
<1>1. ASSUME UNCHANGED <<image, dynamic, mapped, pending>>, symbols \subseteq symbols',
             pc' \in {"headers", "relocations"} => pending = {}, pc' # "sections"
      PROVE  TagsRead'
  BY <1>1, RequestsStay DEF TagsRead
<1>2. CASE ReadSection
  BY <1>2 DEF ReadSection, TagsRead, loadVars
<1>3. CASE EndSections
  <2>1. pending = {}
    BY <1>3 DEF EndSections, TagsRead, Typed
  <2>. QED
    BY <1>1, <1>3, <2>1 DEF EndSections, loadVars, documentVars
<1>4. CASE ReadProgramHeader
  <2>1. CASE UNCHANGED <<pc, dynamic, pending>>
    BY <1>1, <1>4, <2>1 DEF ReadProgramHeader, documentVars, TagsRead
  <2>2. CASE pending' = DOMAIN dynamic' /\ pc' = "dynamic"
    BY <2>2 DEF TagsRead
  <2>. QED
    BY <1>4, <2>1, <2>2 DEF ReadProgramHeader
<1>5. CASE EndHeaders
  BY <1>1, <1>5 DEF EndHeaders, loadVars, documentVars, TagsRead
<1>6. ASSUME NEW t \in pending, VisitTag(t) PROVE TagsRead'
  <2>1. /\ UNCHANGED <<image, dynamic, mapped, pc>> /\ pc = "dynamic"
        /\ pending' = pending \ {t} /\ symbols' = symbols \cup TagRequests(t)
    BY <1>6 DEF VisitTag
  <2>. QED
    BY <2>1, RequestsStay DEF TagsRead
<1>7. CASE EndDynamic
  BY <1>1, <1>7 DEF EndDynamic, loadVars, documentVars
<1>8. CASE ReadRelocations
  BY <1>1, <1>8 DEF ReadRelocations, TagsRead
<1>9. CASE EndRelocations
  BY <1>1, <1>9 DEF EndRelocations, loadVars, documentVars
<1>10. CASE SetEntry
  BY <1>1, <1>10 DEF SetEntry, loadVars, IsARM
<1>11. CASE AnalyzeEntry
  BY <1>1, <1>11 DEF AnalyzeEntry, loadVars, IsARM
<1>12. CASE WalkPlt
  BY <1>1, <1>12 DEF WalkPlt, loadVars, IsARM
<1>13. CASE UNCHANGED vars
  <2>1. UNCHANGED <<image, pc, dynamic, pending, mapped, symbols>>
    BY <1>13 DEF vars, loadVars, documentVars
  <2>. QED
    BY <2>1, RequestsStay DEF TagsRead
<1>. QED
  BY <1>2, <1>3, <1>4, <1>5, <1>6, <1>7, <1>8, <1>9, <1>10, <1>11, <1>12, <1>13 DEF Next

\* A word of the array, counted from its start, is a slot.
LEMMA SlotOfArray ==
  ASSUME Typed, ~image.msb, NEW t \in DOMAIN SizeTag, t \in DOMAIN dynamic, SizeTag[t] \in DOMAIN dynamic,
         InSegment(dynamic[t]), NEW a \in Int,
         dynamic[t] <= a, a < dynamic[t] + dynamic[SizeTag[t]], (a - dynamic[t]) % WordSize = 0
  PROVE  a \in ArraySlots(t)
<1>. DEFINE base == dynamic[t]
            size == dynamic[SizeTag[t]]
            n == (a - base) \div WordSize
<1>1. base \in Nat /\ size \in Nat
  BY DEF Typed
<1>2. ArraySlots(t) = { base + k * WordSize : k \in 0 .. (size + WordSize - 1) \div WordSize - 1 }
  BY DEF ArraySlots, Raw
<1>3. base <= a /\ a < base + size /\ (a - base) % WordSize = 0
  OBVIOUS
<1>. HIDE DEF base, size, n
<1>4. CASE WordSize = 4
  <2>1. n = (a - base) \div 4
    BY <1>4 DEF n
  <2>2. n \in 0 .. (size + 3) \div 4 - 1 /\ a = base + n * 4
    BY <1>1, <1>3, <1>4, <2>1
  <2>. QED
    BY <1>2, <1>4, <2>2
<1>5. CASE WordSize = 8
  <2>1. n = (a - base) \div 8
    BY <1>5 DEF n
  <2>2. n \in 0 .. (size + 7) \div 8 - 1 /\ a = base + n * 8
    BY <1>1, <1>3, <1>5, <2>1
  <2>. QED
    BY <1>2, <1>5, <2>2
<1>. QED
  BY <1>4, <1>5, ImagesAssumption

\* For arrays of any length, of an image of either width: whichever of an
\* array's two tags is visited first, each of its slots becomes a pointer and
\* what it holds a function.
THEOREM ArraysAreComplete == Spec => []ArraysComplete
<1>1. Typed /\ TagsRead => ArraysComplete
  <2>. SUFFICES ASSUME Typed, TagsRead, pc = "relocations", ~image.msb,
                       NEW t \in DOMAIN dynamic \cap DOMAIN SizeTag,
                       SizeTag[t] \in DOMAIN dynamic, InSegment(dynamic[t]),
                       NEW a \in DOMAIN image.words,
                       dynamic[t] # 0, dynamic[t] <= a, a < dynamic[t] + dynamic[SizeTag[t]],
                       (a - dynamic[t]) % WordSize = 0, image.words[a] \notin {0, 65535}
                PROVE  \E p, f \in symbols :
                         /\ p.call = "Pointer" /\ p.address = a
                         /\ f.call = "Function" /\ f.address = CodeAddress(image.words[a])
    BY DEF ArraysComplete
  <2>1. a \in FilledSlots(t)
    BY SlotOfArray, ImagesAssumption DEF FilledSlots, Typed
  <2>2. ReadsArray(t) /\ t \notin {"INIT", "FINI"} /\ t # "SYMTAB" /\ t # "PLTGOT"
    BY DEF ReadsArray, IsArrayTag, SizeTag
  <2>3. TagRequests(t) = { Request("Pointer", x, <<"ptr", t>>) : x \in FilledSlots(t) }
          \cup { Request("Function", CodeAddress(image.words[x]), <<"sub", t>>) : x \in FilledSlots(t) }
    BY <2>2 DEF TagRequests
  <2>4. TagRequests(t) \subseteq symbols
    BY DEF TagsRead
  <2>5. /\ Request("Pointer", a, <<"ptr", t>>) \in symbols
        /\ Request("Function", CodeAddress(image.words[a]), <<"sub", t>>) \in symbols
    BY <2>1, <2>3, <2>4
  <2>. QED
    BY <2>5 DEF Request
<1>2. Init => TagsRead
  BY DEF Init, TagsRead, EmptyMap
<1>. QED
  BY <1>1, <1>2, TypedInit, TypedStep, TagsStep, PTL DEF Spec

-----------------------------------------------------------------------------
(* The stubs of the PLT.                                                   *)

IsX86 == image.machine = "x86_32"

Tables == {"JMPREL", "RELA", "REL"}

IsStubName(name) == name[Len(name)] = "@plt"

\* The relocations of the image that fill a slot.
SlotRelocations ==
  { r \in UNION { { image.relocations[n][k] : k \in DOMAIN image.relocations[n] } : n \in Tables } : IsSlot(r) }

NoStubYet == \A q \in symbols : q.call = "Function" => ~IsStubName(q.name)

NoImportYet == plt = EmptyMap /\ \A q \in symbols : q.call # "Imported"

\* The document's imports and the loader's map are of the same slots.
ImportsInMap ==
  \A q \in symbols : q.call = "Imported" =>
    \E r \in SlotRelocations :
      q.address = r.offset /\ q.name = SymbolName(r.symbol) /\ SlotOffset(r) \in DOMAIN plt

MapInImports ==
  \A o \in DOMAIN plt :
    \E r \in SlotRelocations :
      /\ SlotOffset(r) = o /\ plt[o] = SymbolName(r.symbol)
      /\ Request("Imported", r.offset, SymbolName(r.symbol)) \in symbols

TagsOfImage ==
  dynamic = EmptyMap \/ \E h \in DOMAIN image.headers : dynamic = TagsOf(image.headers[h].table)

Early == {"sections", "headers", "dynamic"}

PltInv ==
  IsX86 => /\ pc # "done" => NoStubYet
           /\ pc \in Early => NoImportYet
           /\ ImportsInMap /\ MapInImports
           /\ TagsOfImage
           /\ StubsNamed

LEMMA PltInit == Init => PltInv
BY DEF Init, PltInv, NoStubYet, NoImportYet, ImportsInMap, MapInImports, TagsOfImage, StubsNamed, Early, EmptyMap

LEMMA SlotsStay ==
  ASSUME UNCHANGED <<image, versions>>
  PROVE  /\ SlotRelocations' = SlotRelocations
         /\ \A r : SlotOffset(r)' = SlotOffset(r)
         /\ \A i : SymbolName(i)' = SymbolName(i)
<1>1. \A a : FindSection(a)' = FindSection(a)
  BY DEF FindSection
<1>2. \A r : (IsSlot(r)' <=> IsSlot(r)) /\ SlotOffset(r)' = SlotOffset(r)
  BY <1>1 DEF IsSlot, Usable, SlotOffset
<1>3. \A i : SymbolName(i)' = SymbolName(i)
  BY DEF SymbolName
<1>. QED
  BY <1>2, <1>3 DEF SlotRelocations

\* A step that asks for no import and for no stub.
LEMMA PltKept ==
  ASSUME PltInv, UNCHANGED <<image, dynamic, versions, plt>>, symbols \subseteq symbols',
         IsX86 => pc # "done" /\ pc' # "done", pc' \in Early => pc \in Early,
         IsX86 => \A q \in symbols' \ symbols : q.call # "Imported" /\ (q.call = "Function" => ~IsStubName(q.name))
  PROVE  PltInv'
<1>. SUFFICES ASSUME IsX86
              PROVE  NoStubYet' /\ (pc' \in Early => NoImportYet') /\ ImportsInMap' /\ MapInImports' /\ TagsOfImage'
  BY DEF PltInv, IsX86, StubsNamed, Early
<1>1. /\ SlotRelocations' = SlotRelocations
      /\ \A r : SlotOffset(r)' = SlotOffset(r)
      /\ \A i : SymbolName(i)' = SymbolName(i)
  BY SlotsStay
<1>2. NoStubYet'
  BY DEF PltInv, NoStubYet, IsStubName
<1>3. pc' \in Early => NoImportYet'
  BY DEF PltInv, NoImportYet, EmptyMap
<1>4. ImportsInMap'
  BY <1>1 DEF PltInv, ImportsInMap
<1>5. MapInImports'
  BY <1>1 DEF PltInv, MapInImports, Request
<1>6. TagsOfImage'
  <2>1. TagsOfImage
    BY DEF PltInv
  <2>. QED
    BY <2>1, Zenon DEF TagsOfImage
<1>. QED
  BY <1>2, <1>3, <1>4, <1>5, <1>6

LEMMA ShortNames ==
  /\ \A x : <<x>>[Len(<<x>>)] = x
  /\ \A x, y : <<x, y>>[Len(<<x, y>>)] = y
OBVIOUS

LEMMA LastAppended ==
  ASSUME NEW S, NEW s \in Seq(S), NEW x \in S
  PROVE  (s \o <<x>>)[Len(s \o <<x>>)] = x
OBVIOUS

LEMMA StubNamed ==
  ASSUME NEW x, NEW y, NEW s, s = <<x>> \/ s = <<x, y>>
  PROVE  IsStubName(s \o <<"@plt">>)
<1>1. s \in Seq({x, y, "@plt"}) /\ "@plt" \in {x, y, "@plt"}
  <2>1. <<x>> \in Seq({x, y, "@plt"}) /\ <<x, y>> \in Seq({x, y, "@plt"})
    OBVIOUS
  <2>. QED
    BY <2>1, Zenon
<1>. QED
  BY <1>1, LastAppended, Zenon DEF IsStubName

\* What a symbol table asks for.
LEMMA SymbolsNotStubs ==
  ASSUME Typed, IsX86, NEW syms,
         \/ syms = <<>>
         \/ \E k \in DOMAIN image.sections : \E first, entsize :
              syms = SymbolsOf(image.sections[k], first, entsize)
  PROVE  \A q \in SymbolRequests(syms) : q.call # "Imported" /\ (q.call = "Function" => ~IsStubName(q.name))
<1>. SUFFICES ASSUME NEW q \in SymbolRequests(syms)
              PROVE  q.call # "Imported" /\ (q.call = "Function" => ~IsStubName(q.name))
  OBVIOUS
<1>1. PICK i \in DOMAIN syms : q = SymbolRequest(syms[i])
  BY DEF SymbolRequests
<1>2. syms[i].name # "@plt"
  <2>1. PICK k \in DOMAIN image.sections : \E first, entsize : syms = SymbolsOf(image.sections[k], first, entsize)
    BY <1>1
  <2>2. i \in DOMAIN image.sections[k].symbols /\ syms[i] = image.sections[k].symbols[i]
    <3>. DEFINE all == image.sections[k].symbols
    <3>1. PICK first, entsize : syms = SymbolsOf(image.sections[k], first, entsize)
      BY <2>1
    <3>2. PICK T \in SUBSET DOMAIN all : syms = <<>> \/ syms = [ j \in T |-> all[j] ]
      BY <3>1 DEF SymbolsOf
    <3>. QED
      BY <1>1, <3>2
  <2>3. image \in Images /\ image.machine = "x86_32"
    BY DEF Typed, IsX86
  <2>. QED
    BY <2>2, <2>3, PltAssumption, Zenon
<1>3. q.call # "Imported" /\ q.name = <<syms[i].name>>
  BY <1>1 DEF SymbolRequest, Request
<1>. QED
  BY <1>2, <1>3, ShortNames DEF IsStubName

LEMMA TagsNotStubs ==
  ASSUME Typed, IsX86, NEW t \in DOMAIN dynamic
  PROVE  \A q \in TagRequests(t) : q.call # "Imported" /\ (q.call = "Function" => ~IsStubName(q.name))
<1>. SUFFICES ASSUME NEW q \in TagRequests(t)
              PROVE  q.call # "Imported" /\ (q.call = "Function" => ~IsStubName(q.name))
  OBVIOUS
<1>1. CASE t = "SYMTAB"
  <2>1. q \in SymbolRequests(DynamicSymbols)
    BY <1>1 DEF TagRequests, ReadsArray, IsArrayTag, SizeTag
  <2>2. \/ DynamicSymbols = <<>>
        \/ \E k \in DOMAIN image.sections : \E first, entsize :
             DynamicSymbols = SymbolsOf(image.sections[k], first, entsize)
    BY SectionFound DEF DynamicSymbols
  <2>. QED
    BY <2>1, <2>2, SymbolsNotStubs
<1>2. CASE ReadsArray(t)
  <2>1. t # "@plt" /\ t \notin {"INIT", "FINI", "SYMTAB", "PLTGOT"}
    BY <1>2 DEF ReadsArray, IsArrayTag, SizeTag
  <2>2. TagRequests(t) \subseteq
          { Request("Pointer", x, <<"ptr", t>>) : x \in FilledSlots(t) }
            \cup { Request("Function", CodeAddress(image.words[x]), <<"sub", t>>) : x \in FilledSlots(t) }
    BY <1>2, <2>1 DEF TagRequests
  <2>3. q.call = "Pointer" \/ (q.call = "Function" /\ q.name = <<"sub", t>>)
    BY <2>2 DEF Request
  <2>. QED
    BY <2>1, <2>3, ShortNames DEF IsStubName
<1>3. CASE t \in {"INIT", "FINI"}
  <2>1. q.call = "Function" /\ q.name = <<"sub", t>>
    BY <1>3 DEF TagRequests, Request, ReadsArray, IsArrayTag, SizeTag
  <2>. QED
    BY <1>3, <2>1, ShortNames DEF IsStubName
<1>4. CASE t \notin {"SYMTAB", "INIT", "FINI"} /\ ~ReadsArray(t)
  <2>1. q.call = "Data"
    BY <1>4 DEF TagRequests, Request
  <2>. QED
    BY <2>1
<1>. QED
  BY <1>1, <1>2, <1>3, <1>4

\* What the analyzer asks for.
LEMMA ArgumentsNotStubs ==
  \A q \in FindMain32 : q.call = "Function" /\ ~IsStubName(q.name)
<1>. SUFFICES ASSUME NEW i \in DOMAIN ArgumentNames,
                     NEW q \in Created(image.startup[i][2], ArgumentNames[i])
              PROVE  q.call = "Function" /\ ~IsStubName(q.name)
  BY DEF FindMain32
<1>1. ArgumentNames[i] # "@plt"
  BY DEF ArgumentNames
<1>2. q.call = "Function" /\ q.name = <<ArgumentNames[i]>>
  BY DEF Created, Request
<1>. QED
  BY <1>1, <1>2, ShortNames DEF IsStubName

LEMMA NumberedTable ==
  ASSUME IsX86, Typed, NEW n \in Tables
  PROVE  LET rels == image.relocations[n]
         IN  Len(rels) \in Nat /\ DOMAIN rels = 1 .. Len(rels)
             /\ \A k \in DOMAIN rels : rels[k].offset \in Nat
<1>1. image \in Images /\ image.machine = "x86_32" /\ n \in {"JMPREL", "RELA", "REL"}
  BY DEF Typed, IsX86, Tables
<1>. QED
  BY <1>1, PltAssumption, Zenon

\* One relocation table more.
LEMMA PltRead ==
  ASSUME Typed, PltInv, ReadRelocations
  PROVE  PltInv'
<1>. DEFINE rels == RelocationsOf(RelocationTables[index])
            slots == { i \in DOMAIN rels : IsSlot(rels[i]) }
            data == { i \in DOMAIN rels : rels[i].type = "GLOB_DAT" /\ Usable(rels[i]) }
            at(o) == { i \in slots : SlotOffset(rels[i]) = o }
            imported == { Request("Imported", rels[i].offset, SymbolName(rels[i].symbol)) : i \in slots }
            others == { Request("Data", rels[i].offset, SymbolName(rels[i].symbol)) : i \in data }
<1>. SUFFICES ASSUME IsX86
              PROVE  NoStubYet' /\ ImportsInMap' /\ MapInImports' /\ TagsOfImage'
  BY DEF PltInv, IsX86, StubsNamed, Early, ReadRelocations
<1>1. /\ UNCHANGED <<image, versions, dynamic, pc>> /\ pc = "relocations"
      /\ index \in DOMAIN RelocationTables
      /\ symbols' = symbols \cup imported \cup others
      /\ plt' = [ o \in DOMAIN plt \cup { SlotOffset(rels[i]) : i \in slots } |->
                    IF at(o) = {} THEN plt[o] ELSE SymbolName(rels[Max(at(o))].symbol) ]
  BY DEF ReadRelocations, Typed, RelocationTables
<1>2. /\ SlotRelocations' = SlotRelocations
      /\ \A r : SlotOffset(r)' = SlotOffset(r)
      /\ \A i : SymbolName(i)' = SymbolName(i)
  BY <1>1, SlotsStay
<1>3. /\ Len(rels) \in Nat /\ DOMAIN rels = 1 .. Len(rels)
      /\ \A i \in slots : rels[i] \in SlotRelocations
  <2>1. CASE rels = <<>>
    BY <2>1
  <2>2. CASE rels # <<>>
    <3>1. RelocationTables[index][1] \in Tables
      BY <1>1 DEF RelocationTables, Tables
    <3>2. rels = image.relocations[RelocationTables[index][1]]
      BY <2>2 DEF RelocationsOf
    <3>. QED
      BY <3>1, <3>2, NumberedTable DEF SlotRelocations
  <2>. QED
    BY <2>1, <2>2
<1>. HIDE DEF rels
<1>4. \A o : at(o) # {} => Max(at(o)) \in at(o)
  <2>. SUFFICES ASSUME NEW o, at(o) # {} PROVE Max(at(o)) \in at(o)
    OBVIOUS
  <2>1. at(o) \in SUBSET Int /\ Len(rels) \in Int /\ \A i \in at(o) : i <= Len(rels)
    BY <1>3
  <2>. HIDE DEF at
  <2>. QED
    BY <2>1, MaxIsGreatest, Zenon
<1>5. NoStubYet'
  <2>1. \A q \in imported \cup others : q.call # "Function"
    BY DEF Request
  <2>. QED
    BY <1>1, <2>1 DEF PltInv, NoStubYet, IsStubName
<1>6. ImportsInMap'
  <2>. SUFFICES ASSUME NEW q \in symbols', q.call = "Imported"
                PROVE  \E r \in SlotRelocations :
                         q.address = r.offset /\ q.name = SymbolName(r.symbol) /\ SlotOffset(r) \in DOMAIN plt'
    BY <1>2, Zenon DEF ImportsInMap
  <2>1. CASE q \in symbols
    BY <1>1, <2>1 DEF PltInv, ImportsInMap
  <2>2. CASE q \in imported
    <3>1. PICK i \in slots : q = Request("Imported", rels[i].offset, SymbolName(rels[i].symbol))
      BY <2>2
    <3>2. q.address = rels[i].offset /\ q.name = SymbolName(rels[i].symbol)
      BY <3>1 DEF Request
    <3>3. SlotOffset(rels[i]) \in DOMAIN plt'
      BY <1>1
    <3>. QED
      BY <1>3, <3>2, <3>3
  <2>3. CASE q \in others
    BY <2>3 DEF Request
  <2>. QED
    BY <1>1, <2>1, <2>2, <2>3
<1>7. MapInImports'
  <2>. SUFFICES ASSUME NEW o \in DOMAIN plt'
                PROVE  \E r \in SlotRelocations :
                         /\ SlotOffset(r) = o /\ plt'[o] = SymbolName(r.symbol)
                         /\ Request("Imported", r.offset, SymbolName(r.symbol)) \in symbols'
    BY <1>2, Zenon DEF MapInImports, Request
  <2>1. CASE at(o) = {}
    <3>1. o \in DOMAIN plt /\ plt'[o] = plt[o]
      BY <1>1, <2>1
    <3>. QED
      BY <1>1, <3>1 DEF PltInv, MapInImports
  <2>2. CASE at(o) # {}
    <3>1. PICK i \in at(o) : i = Max(at(o))
      BY <1>4, <2>2
    <3>2. plt'[o] = SymbolName(rels[i].symbol)
      BY <1>1, <2>2, <3>1
    <3>3. SlotOffset(rels[i]) = o /\ i \in slots
      BY <3>1
    <3>4. Request("Imported", rels[i].offset, SymbolName(rels[i].symbol)) \in symbols'
      BY <1>1, <3>3
    <3>. QED
      BY <1>3, <3>2, <3>3, <3>4
  <2>. QED
    BY <2>1, <2>2
<1>8. TagsOfImage'
  <2>1. TagsOfImage
    BY DEF PltInv
  <2>. QED
    BY <1>1, <2>1, Zenon DEF TagsOfImage
<1>. QED
  BY <1>5, <1>6, <1>7, <1>8

\* A slot lies as far from the section as from the table DT_PLTGOT names.
LEMMA OffsetsOfSlots ==
  ASSUME Typed, IsX86, TagsOfImage, "PLTGOT" \in DOMAIN dynamic, NEW r \in SlotRelocations
  PROVE  /\ r.offset \in Nat /\ dynamic["PLTGOT"] \in Nat
         /\ SlotOffset(r) = r.offset - dynamic["PLTGOT"]
<1>1. PICK n \in Tables : \E k \in DOMAIN image.relocations[n] : r = image.relocations[n][k]
  BY DEF SlotRelocations
<1>2. PICK k \in DOMAIN image.relocations[n] : r = image.relocations[n][k]
  BY <1>1
<1>3. r.type = "JUMP_SLOT" /\ FindSection(r.offset) # None
  BY DEF SlotRelocations, IsSlot
<1>. DEFINE i == FindSection(r.offset)
<1>4. i \in DOMAIN image.sections /\ Covers(image.sections[i], r.offset)
  BY <1>3, SectionFound
<1>. HIDE DEF i
<1>5. PICK h \in DOMAIN image.headers : dynamic = TagsOf(image.headers[h].table)
  BY DEF TagsOfImage, EmptyMap
<1>6. PICK t \in DOMAIN image.headers[h].table :
        image.headers[h].table[t][1] = "PLTGOT" /\ image.headers[h].table[t][2] = dynamic["PLTGOT"]
  <2>. DEFINE table == image.headers[h].table
              T == { t \in DOMAIN table : table[t][1] = "PLTGOT" }
  <2>1. T # {} /\ dynamic["PLTGOT"] = table[Max(T)][2]
    BY <1>5 DEF TagsOf
  <2>2. Len(table) \in Int /\ T \in SUBSET Int /\ \A t \in T : t <= Len(table)
    BY ImagesAssumption DEF Typed
  <2>. HIDE DEF T
  <2>3. Max(T) \in T
    BY <2>1, <2>2, MaxIsGreatest, Zenon
  <2>. QED
    BY <2>1, <2>3 DEF T
<1>7. image \in Images /\ image.machine = "x86_32" /\ n \in {"JMPREL", "RELA", "REL"}
  BY DEF Typed, IsX86, Tables
<1>8. r.offset \in Nat /\ image.headers[h].table[t][2] = image.sections[i].addr
  BY <1>2, <1>3, <1>4, <1>5, <1>6, <1>7, PltAssumption, Zenon DEF Covers
<1>9. SlotOffset(r) = r.offset - image.sections[i].addr /\ dynamic["PLTGOT"] \in Nat
  BY DEF SlotOffset, i, Typed
<1>. QED
  BY <1>6, <1>8, <1>9

LEMMA OneFunctionPerSlot ==
  ASSUME Typed, IsX86, NEW r \in SlotRelocations, NEW s \in SlotRelocations, r.offset = s.offset
  PROVE  r.symbol = s.symbol
<1>1. PICK n \in Tables : \E k \in DOMAIN image.relocations[n] : r = image.relocations[n][k]
  BY DEF SlotRelocations
<1>2. PICK m \in Tables : \E k \in DOMAIN image.relocations[m] : s = image.relocations[m][k]
  BY DEF SlotRelocations
<1>3. r.type = "JUMP_SLOT" /\ s.type = "JUMP_SLOT"
  BY DEF SlotRelocations, IsSlot
<1>4. image \in Images /\ image.machine = "x86_32" /\ {n, m} \subseteq {"JMPREL", "RELA", "REL"}
  BY DEF Typed, IsX86, Tables
<1>. QED
  <2>1. PICK k \in DOMAIN image.relocations[n] : r = image.relocations[n][k]
    BY <1>1
  <2>2. PICK j \in DOMAIN image.relocations[m] : s = image.relocations[m][j]
    BY <1>2
  <2>3. n \in {"JMPREL", "RELA", "REL"} /\ m \in {"JMPREL", "RELA", "REL"}
    BY <1>4
  <2>4. \A q \in {"JMPREL", "RELA", "REL"} : \A i \in DOMAIN image.relocations[q] :
          (image.relocations[q][i].type = "JUMP_SLOT" /\ image.relocations[q][i].offset = r.offset) =>
            image.relocations[q][i].symbol = r.symbol
    BY <1>3, <1>4, <2>1, <2>3, PltAssumption, Zenon
  <2>. QED
    BY <1>3, <2>2, <2>3, <2>4, Zenon

LEMMA StubNames ==
  ASSUME MapInImports, NEW o \in DOMAIN plt
  PROVE  IsStubName(plt[o] \o <<"@plt">>)
<1>1. PICK r \in SlotRelocations : plt[o] = SymbolName(r.symbol)
  BY DEF MapInImports
<1>2. \/ plt[o] = <<image.imports[r.symbol]>>
      \/ plt[o] = <<image.imports[r.symbol], versions[r.symbol]>>
  BY <1>1 DEF SymbolName
<1>. QED
  BY <1>2, StubNamed, Zenon

\* The names of the stubs.
LEMMA PltWalked ==
  ASSUME Typed, PltInv, WalkPlt
  PROVE  PltInv'
<1>. SUFFICES ASSUME IsX86
              PROVE  ImportsInMap' /\ MapInImports' /\ TagsOfImage' /\ StubsNamed'
  BY DEF PltInv, IsX86, Early, WalkPlt, IsARM
<1>1. /\ UNCHANGED <<image, versions, dynamic, plt, mapped>> /\ pc = "plt" /\ pc' = "done"
      /\ symbols' = IF "JMPREL" \in DOMAIN dynamic
                    THEN symbols \cup UNION { X86StubName(a) : a \in PltFunctions } ELSE symbols
  BY DEF WalkPlt, IsARM, IsX86, loadVars, PltRequests
<1>. DEFINE new == IF "JMPREL" \in DOMAIN dynamic THEN UNION { X86StubName(a) : a \in PltFunctions } ELSE {}
<1>2. /\ SlotRelocations' = SlotRelocations
      /\ \A r : SlotOffset(r)' = SlotOffset(r)
      /\ \A i : SymbolName(i)' = SymbolName(i)
  BY <1>1, SlotsStay
<1>3. symbols' = symbols \cup new
  BY <1>1
<1>4. \A q \in new : /\ q.call = "Function" /\ q.address \in PltFunctions
                     /\ image.stubs[q.address] \in DOMAIN plt
                     /\ q.name = plt[image.stubs[q.address]] \o <<"@plt">>
  BY DEF X86StubName, Request
<1>5. \A a \in PltFunctions : image.stubs[a] \in DOMAIN plt /\ "JMPREL" \in DOMAIN dynamic =>
        Request("Function", a, plt[image.stubs[a]] \o <<"@plt">>) \in new
  BY DEF X86StubName
<1>. HIDE DEF new
<1>6. ImportsInMap'
  BY <1>1, <1>2, <1>3, <1>4 DEF PltInv, ImportsInMap
<1>7. MapInImports'
  BY <1>1, <1>2, <1>3 DEF PltInv, MapInImports, Request
<1>8. TagsOfImage'
  <2>1. TagsOfImage
    BY DEF PltInv
  <2>. QED
    BY <1>1, <2>1, Zenon DEF TagsOfImage
<1>9. PltFunctions' = PltFunctions
  <2>1. Functions' = Functions
    <3>1. Functions \subseteq Functions'
      BY <1>3 DEF Functions
    <3>2. \A q \in new : q.address \in Functions
      BY <1>4 DEF PltFunctions
    <3>. QED
      BY <1>3, <3>1, <3>2 DEF Functions
  <2>. QED
    BY <1>1, <2>1 DEF PltFunctions
<1>10. ASSUME {"PLTGOT", "JMPREL"} \subseteq DOMAIN dynamic, NEW a \in PltFunctions
       PROVE  { r.name : r \in { q \in symbols' : q.address = a /\ q.call = "Function" /\ IsStubName(q.name) } }
                = { r.name \o <<"@plt">> : r \in { q \in symbols' : q.call = "Imported"
                                                     /\ q.address = dynamic["PLTGOT"] + image.stubs[a] } }
  <2>. DEFINE o == image.stubs[a]
              slot == dynamic["PLTGOT"] + o
              theirs == { r.name : r \in { q \in symbols' : q.address = a /\ q.call = "Function" /\ IsStubName(q.name) } }
              ours == { r.name \o <<"@plt">> : r \in { q \in symbols' : q.call = "Imported" /\ q.address = slot } }
  <2>1. \A r \in SlotRelocations : SlotOffset(r) = o <=> r.offset = slot
    <3>. TAKE r \in SlotRelocations
    <3>1. TagsOfImage /\ "PLTGOT" \in DOMAIN dynamic
      BY <1>10 DEF PltInv
    <3>2. /\ r.offset \in Nat /\ dynamic["PLTGOT"] \in Nat
          /\ SlotOffset(r) = r.offset - dynamic["PLTGOT"]
      BY <3>1, OffsetsOfSlots, Zenon
    <3>3. o \in Int
      BY PltAssumption DEF Typed, IsX86, PltFunctions
    <3>. HIDE DEF o
    <3>. QED
      BY <3>2, <3>3
  <2>2. \A r, s \in SlotRelocations : r.offset = slot /\ s.offset = slot => r.symbol = s.symbol
    BY OneFunctionPerSlot
  <2>3. theirs = IF o \in DOMAIN plt THEN { plt[o] \o <<"@plt">> } ELSE {}
    <3>1. \A q \in symbols : q.call = "Function" => ~IsStubName(q.name)
      BY <1>1 DEF PltInv, NoStubYet
    <3>2. \A q \in symbols' : q.call = "Function" /\ IsStubName(q.name) => q \in new
      BY <1>3, <3>1
    <3>3. ASSUME o \in DOMAIN plt PROVE plt[o] \o <<"@plt">> \in theirs
      <4>. DEFINE q == Request("Function", a, plt[o] \o <<"@plt">>)
      <4>1. q \in symbols' /\ q.address = a /\ q.call = "Function" /\ q.name = plt[o] \o <<"@plt">>
        BY <1>3, <1>5, <1>10, <3>3 DEF Request
      <4>2. IsStubName(plt[o] \o <<"@plt">>)
        BY <3>3, StubNames DEF PltInv
      <4>. QED
        BY <4>1, <4>2
    <3>4. ASSUME NEW q \in symbols', q.address = a, q.call = "Function", IsStubName(q.name)
          PROVE  o \in DOMAIN plt /\ q.name = plt[o] \o <<"@plt">>
      BY <1>4, <3>2, <3>4, Zenon
    <3>5. \A x \in theirs : o \in DOMAIN plt /\ x = plt[o] \o <<"@plt">>
      BY <3>4
    <3>. HIDE DEF theirs
    <3>. QED
      BY <3>3, <3>5
  <2>4. ours = IF o \in DOMAIN plt THEN { plt[o] \o <<"@plt">> } ELSE {}
    <3>1. ASSUME NEW q \in symbols', q.call = "Imported", q.address = slot
          PROVE  o \in DOMAIN plt /\ q.name = plt[o]
      <4>1. q \in symbols
        BY <1>3, <1>4, <3>1
      <4>2. PICK r \in SlotRelocations :
              q.address = r.offset /\ q.name = SymbolName(r.symbol) /\ SlotOffset(r) \in DOMAIN plt
        BY <3>1, <4>1 DEF PltInv, ImportsInMap
      <4>3. o \in DOMAIN plt
        BY <2>1, <3>1, <4>2
      <4>4. PICK s \in SlotRelocations : SlotOffset(s) = o /\ plt[o] = SymbolName(s.symbol)
        BY <4>3 DEF PltInv, MapInImports
      <4>5. r.symbol = s.symbol
        BY <2>1, <2>2, <3>1, <4>2, <4>4
      <4>. QED
        BY <4>2, <4>3, <4>4, <4>5
    <3>2. ASSUME o \in DOMAIN plt
          PROVE  \E q \in symbols' : q.call = "Imported" /\ q.address = slot /\ q.name = plt[o]
      <4>1. PICK s \in SlotRelocations :
              /\ SlotOffset(s) = o /\ plt[o] = SymbolName(s.symbol)
              /\ Request("Imported", s.offset, SymbolName(s.symbol)) \in symbols
        BY <3>2 DEF PltInv, MapInImports
      <4>2. s.offset = slot
        BY <2>1, <4>1
      <4>. QED
        BY <1>3, <4>1, <4>2 DEF Request
    <3>. QED
      BY <3>1, <3>2
  <2>. QED
    BY <2>3, <2>4
<1>11. StubsNamed'
  <2>1. \A x : ImportedAt(x)' = { q \in symbols' : q.call = "Imported" /\ q.address = x }
    BY DEF ImportedAt
  <2>2. image' = image /\ dynamic' = dynamic
    BY <1>1
  <2>. QED
    BY <1>9, <1>10, <2>1, <2>2, Zenon DEF StubsNamed, IsStubName
<1>. QED
  BY <1>6, <1>7, <1>8, <1>11

LEMMA PltAnalyzed ==
  ASSUME PltInv, AnalyzeEntry
  PROVE  PltInv'
<1>1. UNCHANGED <<image, dynamic, versions, plt>> /\ pc = "main" /\ pc' \notin Early
  BY DEF AnalyzeEntry, loadVars, Early
<1>2. IsX86 => pc' = "plt"
  BY DEF AnalyzeEntry, IsX86, IsARM
<1>3. symbols \subseteq symbols' /\ (IsX86 => symbols' \ symbols \subseteq FindMain32)
  BY DEF AnalyzeEntry, IsX86
<1>4. IsX86 => \A q \in symbols' \ symbols : q.call # "Imported" /\ (q.call = "Function" => ~IsStubName(q.name))
  BY <1>3, ArgumentsNotStubs
<1>. QED
  BY <1>1, <1>2, <1>3, <1>4, PltKept

LEMMA PltUnchanged ==
  ASSUME PltInv, UNCHANGED vars
  PROVE  PltInv'
<1>1. UNCHANGED <<image, pc, dynamic, versions, plt, mapped, symbols>>
  BY DEF vars, loadVars, documentVars
<1>2. CASE pc # "done"
  BY <1>1, <1>2, PltKept
<1>3. CASE pc = "done"
  <2>. SUFFICES ASSUME IsX86
                PROVE  ImportsInMap' /\ MapInImports' /\ TagsOfImage' /\ StubsNamed'
    BY <1>1, <1>3 DEF PltInv, IsX86, Early
  <2>1. /\ SlotRelocations' = SlotRelocations
        /\ \A r : SlotOffset(r)' = SlotOffset(r)
        /\ \A i : SymbolName(i)' = SymbolName(i)
    BY <1>1, SlotsStay
  <2>2. ImportsInMap'
    BY <1>1, <2>1 DEF PltInv, ImportsInMap
  <2>3. MapInImports'
    BY <1>1, <2>1 DEF PltInv, MapInImports, Request
  <2>4. TagsOfImage'
    <3>1. TagsOfImage
      BY DEF PltInv
    <3>. QED
      BY <1>1, <3>1, Zenon DEF TagsOfImage
  <2>5. StubsNamed'
    <3>1. StubsNamed /\ PltFunctions' = PltFunctions
      BY <1>1 DEF PltInv, PltFunctions, Functions
    <3>. QED
      BY <1>1, <3>1 DEF StubsNamed, ImportedAt
  <2>. QED
    BY <2>2, <2>3, <2>4, <2>5
<1>. QED
  BY <1>2, <1>3

LEMMA PltStep == Typed /\ PltInv /\ [Next]_vars => PltInv'
<1>. SUFFICES ASSUME Typed, PltInv, [Next]_vars PROVE PltInv'
  OBVIOUS
<1>1. CASE ReadSection
  <2>1. index \in DOMAIN image.sections
    BY <1>1, ImagesAssumption DEF ReadSection, Typed
  <2>. DEFINE s == image.sections[index]
              syms == IF s.type = "SYMTAB" THEN SymbolsOf(s, 0, Raw(s.entsize)) ELSE <<>>
  <2>2. symbols' = symbols \cup SymbolRequests(syms) /\ pc = "sections" /\ pc' = pc
        /\ UNCHANGED <<image, dynamic, versions, plt>>
    BY <1>1 DEF ReadSection, loadVars
  <2>3. IsX86 => \A q \in SymbolRequests(syms) : q.call # "Imported" /\ (q.call = "Function" => ~IsStubName(q.name))
    BY <2>1, SymbolsNotStubs
  <2>. QED
    BY <2>2, <2>3, PltKept
<1>2. CASE EndSections
  BY <1>2, PltKept DEF EndSections, loadVars, documentVars, Early
<1>3. CASE ReadProgramHeader
  <2>1. CASE UNCHANGED <<pc, dynamic, pending>>
    BY <1>3, <2>1, PltKept DEF ReadProgramHeader, documentVars, Early
  <2>2. CASE dynamic' = TagsOf(image.headers[index].table) /\ pc' = "dynamic"
    <3>1. index \in DOMAIN image.headers
      BY <1>3, ImagesAssumption DEF ReadProgramHeader, Typed
    <3>2. UNCHANGED <<image, versions, plt, symbols>> /\ pc = "headers"
      BY <1>3 DEF ReadProgramHeader, documentVars
    <3>3. TagsOfImage'
      BY <2>2, <3>1, <3>2 DEF TagsOfImage
    <3>. QED
      BY <2>2, <3>2, <3>3
         DEF PltInv, IsX86, NoStubYet, NoImportYet, ImportsInMap, MapInImports, StubsNamed, Early, IsStubName, EmptyMap
  <2>. QED
    BY <1>3, <2>1, <2>2 DEF ReadProgramHeader
<1>4. CASE EndHeaders
  BY <1>4, PltKept DEF EndHeaders, loadVars, documentVars, Early
<1>5. ASSUME NEW t \in pending, VisitTag(t) PROVE PltInv'
  <2>1. /\ UNCHANGED <<image, dynamic, plt, pc>> /\ pc = "dynamic"
        /\ symbols' = symbols \cup TagRequests(t)
    BY <1>5 DEF VisitTag
  <2>2. IsX86 => \A q \in TagRequests(t) : q.call # "Imported" /\ (q.call = "Function" => ~IsStubName(q.name))
    BY TagsNotStubs DEF Typed
  <2>3. IsX86 => NoStubYet' /\ NoImportYet'
    BY <2>1, <2>2 DEF PltInv, NoStubYet, NoImportYet, Early, IsStubName, EmptyMap
  <2>4. IsX86 => TagsOfImage'
    <3>1. IsX86 => TagsOfImage
      BY DEF PltInv
    <3>. QED
      BY <2>1, <3>1, Zenon DEF TagsOfImage
  <2>5. IsX86 => ImportsInMap' /\ MapInImports'
    BY <2>3 DEF NoImportYet, ImportsInMap, MapInImports, EmptyMap
  <2>. QED
    BY <2>1, <2>3, <2>4, <2>5 DEF PltInv, IsX86, StubsNamed
<1>6. CASE EndDynamic
  BY <1>6, PltKept DEF EndDynamic, loadVars, documentVars, Early
<1>7. CASE ReadRelocations
  BY <1>7, PltRead
<1>8. CASE EndRelocations
  BY <1>8, PltKept DEF EndRelocations, loadVars, documentVars, Early
<1>9. CASE SetEntry
  BY <1>9, PltKept DEF SetEntry, loadVars, Early, IsARM, PltInv, IsX86
<1>10. CASE AnalyzeEntry
  BY <1>10, PltAnalyzed
<1>11. CASE WalkPlt
  BY <1>11, PltWalked
<1>12. CASE UNCHANGED vars
  BY <1>12, PltUnchanged
<1>. QED
  BY <1>1, <1>2, <1>3, <1>4, <1>5, <1>6, <1>7, <1>8, <1>9, <1>10, <1>11, <1>12 DEF Next

\* ElfABI and the x86 analyzer agree on the slots: a stub of the PLT has the
\* name of the function its slot imports, in images of any size.
THEOREM StubsHaveTheirNames == Spec => []StubsNamed
<1>1. PltInv => StubsNamed
  BY DEF PltInv, StubsNamed, IsX86
<1>. QED
  BY <1>1, TypedInit, TypedStep, PltInit, PltStep, PTL DEF Spec
=============================================================================
