------------------------------ MODULE PELoader ------------------------------
(***************************************************************************)
(* PELoaderT<b>::parse (pe/pe.cpp): the load of one PE image into the      *)
(* host's document, one action per member function it calls, in the order  *)
(* in which it calls them.                                                 *)
(*                                                                         *)
(* An image is a record of what the functions read; rva 0 marks an absent  *)
(* directory, as in the file.  The document is external: what is kept of   *)
(* it is the segments, the entry point, the ABI, and the set of symbol     *)
(* requests the loader sent.                                               *)
(***************************************************************************)
EXTENDS Integers, Sequences, FiniteSetsExt, PEClassifier

CONSTANTS
  Images,         \* the images a run loads
  ImageBase,      \* where they ask to be mapped
  KnownOrdinals   \* the pairs <<library, ordinal>> the ordinal database knows

\* resourceid() names an id after one of the known resource types or "#<id>",
\* and a PACKAGEINFO header holds at most one of the searched units first.
ASSUME ImagesAssumption ==
  \A img \in Images :
    /\ img.resources.misread.unit \in Units
    /\ \A i \in DOMAIN img.resources.entries :
         ~img.resources.entries[i].named =>
            img.resources.entries[i].label # "PACKAGEINFO"

\* The fields of a file are unsigned.  An image whose alignment is 0 is left
\* out: loadSections divides by it (pe.cpp:223).  A thunk is as wide as an
\* address.
ASSUME FieldsAssumption ==
  /\ ImageBase \in Nat
  /\ \A img \in Images :
       /\ img.ep \in Nat /\ img.align \in Nat \ {0} /\ img.thunk \in Nat \ {0}
       /\ DOMAIN img.sections \subseteq Nat
       /\ \A i \in DOMAIN img.sections :
            /\ img.sections[i].va \in Nat /\ img.sections[i].vsize \in Nat
            /\ img.sections[i].ptr \in Nat /\ img.sections[i].raw \in Nat
       /\ Len(img.imports.descriptors) \in Nat
       /\ DOMAIN img.imports.descriptors = 1 .. Len(img.imports.descriptors)
       /\ \A i \in DOMAIN img.imports.descriptors :
            LET d == img.imports.descriptors[i]
            IN  d.ft \in Nat /\ Len(d.thunks) \in Nat /\ DOMAIN d.thunks = 1 .. Len(d.thunks)

VARIABLES
  image,          \* the file, never written
  pc,             \* the member function about to run
  next,           \* index of the next import descriptor
  classification, \* PEClassifier::m_classification
  borland,        \* PEClassifier::m_borlandsignature
  signatures,     \* PEClassifier::m_signatures
  segments,       \* RDDocument: the segments, in the order of creation
  symbols,        \* RDDocument: the symbol requests received
  entry,          \* RDDocument: the entry point, NoEntry until it is set
  abi,            \* RDContext: the ABI
  problems        \* the warnings and problems reported

classifierVars == <<classification, borland, signatures>>
documentVars   == <<segments, symbols, entry, abi>>
vars == <<image, pc, next, problems, classifierVars, documentVars>>

NoEntry == -1
Null    == -1

-----------------------------------------------------------------------------
(* Addresses. *)

Covers(first, size, a) == first <= a /\ a < first + size

\* PEUtils::rvaToOffset: the first section whose virtual range holds rva
\* decides, and a result past its raw data is not valid.
RvaToOffset(img, rva) ==
  LET sec == img.sections
      hit == { i \in DOMAIN sec : Covers(sec[i].va, sec[i].vsize, rva) }
  IN  IF hit = {} THEN Null
      ELSE LET s == sec[Min(hit)]
               offset == s.ptr + (rva - s.va)
           IN  IF s.raw # 0 /\ offset < s.ptr + s.raw THEN offset ELSE Null

\* rvaPointer(rva) is not null.
Resolves(img, rva) == RvaToOffset(img, rva) # Null

\* A data directory that is present and readable.
Readable(img, dir) == dir.rva # 0 /\ Resolves(img, dir.rva)

SegmentsAt(a) ==
  { i \in DOMAIN segments : Covers(segments[i].va, segments[i].size, a) }

Mapped(a) == SegmentsAt(a) # {}
IsCode(a) == \E i \in SegmentsAt(a) : "Code" \in segments[i].flags

Request(call, address, name) == [call |-> call, address |-> address, name |-> name]

-----------------------------------------------------------------------------
(* Sections. *)

EntryPoint == ImageBase + image.ep

\* Mutant: rounded down.
SectionSizeDown(s, align) ==
  LET vsize == IF s.raw # 0 /\ s.vsize = 0 THEN s.raw ELSE s.vsize
  IN  vsize - (vsize % align)

\* An empty virtual size stands for the raw one; sizes are rounded up to
\* the section alignment.
SectionSize(s, align) ==
  LET vsize == IF s.raw # 0 /\ s.vsize = 0 THEN s.raw ELSE s.vsize
      diff  == vsize % align
  IN  IF diff = 0 THEN vsize ELSE vsize + align - diff

SectionFlags(s, size) ==
  s.flags
    \cup (IF s.raw = 0 THEN {"Bss"} ELSE {})
    \cup (IF Covers(ImageBase + s.va, size, EntryPoint) THEN {"Code"} ELSE {})

SegmentOf(s) ==
  LET size == SectionSize(s, image.align)
  IN  [ name |-> s.name, ptr |-> s.ptr, raw |-> s.raw,
        va |-> ImageBase + s.va, size |-> size, flags |-> SectionFlags(s, size) ]

LoadSections ==
  /\ pc = "sections"
  /\ segments' = [ i \in DOMAIN image.sections |-> SegmentOf(image.sections[i]) ]
  /\ pc' = "dotnet-check"
  /\ UNCHANGED <<image, next, problems, classifierVars, symbols, entry, abi>>

-----------------------------------------------------------------------------
(* Managed images. *)

\* Mutant: the verdict, not the header, selects the managed load.
CheckDotNetByVerdict ==
  /\ pc = "dotnet-check"
  /\ LET c == IF Readable(image, image.dotnet)
              THEN ClassifyDotNet(classification, image.dotnet) ELSE classification
     IN  /\ classification' = c
         /\ pc' = IF c = "DotNet_1" THEN "display"
                  ELSE IF IsDotNet(c) THEN "dotnet" ELSE "exports"
  /\ UNCHANGED <<image, next, problems, borland, signatures, documentVars>>

\* The COR header decides which of the two loads runs: a 1.x image is not
\* loaded at all, and the pointer alone, whatever its cb, selects the other.
CheckDotNet ==
  /\ pc = "dotnet-check"
  /\ LET found == Readable(image, image.dotnet)
         c == IF found THEN ClassifyDotNet(classification, image.dotnet)
              ELSE classification
     IN  /\ classification' = c
         /\ pc' = IF c = "DotNet_1" THEN "display"
                  ELSE IF found THEN "dotnet" ELSE "exports"
  /\ UNCHANGED <<image, next, problems, borland, signatures, documentVars>>

LoadDotNet ==
  /\ pc = "dotnet"
  /\ symbols' =
       IF image.dotnet.meta # 0 /\ Resolves(image, image.dotnet.meta) /\ image.dotnet.valid
       THEN symbols \cup { Request("Function", ImageBase + m.rva, m.name) :
                             m \in image.dotnet.methods }
       ELSE symbols
  /\ pc' = "display"
  /\ UNCHANGED <<image, next, problems, classifierVars, segments, entry, abi>>

-----------------------------------------------------------------------------
(* Exports. *)

\* Index i of the function table (from 0) takes the first name whose ordinal
\* is i, or is named after the ordinal.
ExportName(table, i) ==
  LET named == { j \in DOMAIN table.names : table.names[j].ordinal = i }
  IN  IF named # {} THEN table.names[Min(named)].name
      ELSE <<"Ordinal__", table.base + i>>

ExportRequest(table, i) ==
  LET a == ImageBase + table.functions[i + 1]
  IN  Request(IF IsCode(a) THEN "ExportedFunction" ELSE "Exported",
              a, ExportName(table, i))

LoadExports ==
  /\ pc = "exports"
  /\ LET table == image.exports
         usable == /\ Readable(image, table)
                   /\ \A t \in table.tables : Resolves(image, t)
         kept == { i \in 0 .. Len(table.functions) - 1 :
                     /\ table.functions[i + 1] # 0
                     /\ Mapped(ImageBase + table.functions[i + 1]) }
     IN  symbols' = IF usable
                    THEN symbols \cup { ExportRequest(table, i) : i \in kept }
                    ELSE symbols
  /\ pc' = "imports"
  /\ UNCHANGED <<image, next, problems, classifierVars, segments, entry, abi>>

-----------------------------------------------------------------------------
(* Imports. *)

ValidImportSections == {".text", ".idata", ".rdata"}

\* The descriptor loop runs while its index is below the descriptor's own
\* FirstThunk; the terminating descriptor has none.
MoreDescriptors ==
  /\ Readable(image, image.imports)
  /\ next <= Len(image.imports.descriptors)
  /\ next - 1 < image.imports.descriptors[next].ft

ThunkName(lib, t) ==
  IF ~t.ordinal THEN <<lib, t.name>>
  ELSE IF <<lib, t.value>> \in KnownOrdinals THEN <<lib, "known", t.value>>
  ELSE <<lib, "Ordinal__", t.value>>

\* Mutant: slots counted from the table the names were read from.
ImportRequestsByName(d) ==
  { Request("Imported", ImageBase + (IF d.oft # 0 THEN d.oft ELSE d.ft) + (i - 1) * image.thunk,
            ThunkName(d.lib, d.thunks[i])) :
      i \in { j \in DOMAIN d.thunks :
                d.thunks[j].ordinal \/ Resolves(image, d.thunks[j].value) } }

\* A by-name thunk whose name cannot be read is skipped; the slot of every
\* other one is counted from FirstThunk, even if the names were read from
\* OriginalFirstThunk.
ImportRequests(d) ==
  { Request("Imported", ImageBase + d.ft + (i - 1) * image.thunk, ThunkName(d.lib, d.thunks[i])) :
      i \in { j \in DOMAIN d.thunks :
                d.thunks[j].ordinal \/ Resolves(image, d.thunks[j].value) } }

ReadDescriptor ==
  /\ pc = "imports"
  /\ MoreDescriptors
  /\ LET d == image.imports.descriptors[next]
     IN  IF Resolves(image, IF d.oft # 0 THEN d.oft ELSE d.ft)
         THEN /\ classification' = ClassifyImport(classification, d.lib)
              /\ symbols' = symbols \cup ImportRequests(d)
         ELSE UNCHANGED <<classification, symbols>>
  /\ next' = next + 1
  /\ UNCHANGED <<image, pc, problems, borland, signatures, segments, entry, abi>>

\* What loadImports returns, and the warning of loadDefault.
EndImports ==
  /\ pc = "imports"
  /\ ~MoreDescriptors
  /\ LET normal == /\ Readable(image, image.imports)
                   /\ \E i \in SegmentsAt(ImageBase + image.imports.rva) :
                        segments[i].name \in ValidImportSections
     IN  problems' = IF normal THEN problems ELSE problems \cup {"packed"}
  /\ pc' = "tls"
  /\ UNCHANGED <<image, next, classifierVars, documentVars>>

-----------------------------------------------------------------------------
(* The other directories. *)

LoadTLS ==
  /\ pc = "tls"
  /\ symbols' =
       IF Readable(image, image.tls)
       THEN symbols \cup { Request("Function", image.tls.callbacks[i], <<"TlsCallback_", i - 1>>) :
                             i \in DOMAIN image.tls.callbacks }
       ELSE symbols
  /\ pc' = "config"
  /\ UNCHANGED <<image, next, problems, classifierVars, segments, entry, abi>>

LoadConfig ==
  /\ pc = "config"
  /\ symbols' =
       IF Readable(image, image.config) /\ image.config.cookie # 0
       THEN symbols \cup {Request("Data", image.config.cookie, <<"SecurityCookie">>)}
       ELSE symbols
  /\ pc' = "exceptions"
  /\ UNCHANGED <<image, next, problems, classifierVars, segments, entry, abi>>

\* An entry with the low bit set, or with chained unwind data, is part of a
\* function another entry begins.
LoadExceptions ==
  /\ pc = "exceptions"
  /\ LET dir == image.exceptions
         begins == { i \in DOMAIN dir.entries :
                       /\ Mapped(ImageBase + dir.entries[i].begin)
                       /\ ~dir.entries[i].odd
                       /\ Resolves(image, dir.entries[i].unwind)
                       /\ ~dir.entries[i].chained }
     IN  symbols' =
           IF Readable(image, dir)
           THEN symbols \cup { Request("Function", ImageBase + dir.entries[i].begin, <<>>) :
                                 i \in begins }
           ELSE symbols
  /\ pc' = "coff"
  /\ UNCHANGED <<image, next, problems, classifierVars, segments, entry, abi>>

\* The symbol table is parsed by a command of another plugin.
LoadSymbolTable ==
  /\ pc = "coff"
  /\ symbols' = IF image.coff THEN symbols \cup {Request("parsecoff", ImageBase, <<>>)}
                ELSE symbols
  /\ pc' = "debug"
  /\ UNCHANGED <<image, next, problems, classifierVars, segments, entry, abi>>

CheckDebugInfo ==
  /\ pc = "debug"
  /\ classification' = IF Readable(image, image.debug) /\ image.debug.codeview
                       THEN ClassifyVisualStudio(classification)
                       ELSE classification
  /\ pc' = "resources"
  /\ UNCHANGED <<image, next, problems, borland, signatures, documentVars>>

-----------------------------------------------------------------------------
(* Resources (pe/pe_resources.cpp). *)

\* The conversion of a string name is commented out, so that every named
\* entry has the empty name; an id has a symbolic name or "#<id>".
EntryName(e) == IF e.named THEN "" ELSE e.label

FindEntry(name, entries) == { i \in DOMAIN entries : EntryName(entries[i]) = name }

\* PEResources::data adds offset.valid to the image instead of the offset,
\* so the header read is the one the file's second byte begins.
CheckResources ==
  /\ pc = "resources"
  /\ LET dir == image.resources
         searched == Readable(image, dir) /\ dir.rcdata
         found == searched /\ FindEntry("PACKAGEINFO", dir.entries) # {}
     IN  /\ classification' = IF found THEN ClassifyDelphi(classification, dir.misread)
                              ELSE classification
         /\ borland' = IF found /\ IsPascal(dir.misread) THEN GetSignature(dir.misread)
                       ELSE borland
         /\ problems' = IF searched /\ ~found THEN problems \cup {"PACKAGEINFO not found"}
                        ELSE problems
  /\ pc' = "entry"
  /\ UNCHANGED <<image, next, signatures, documentVars>>

-----------------------------------------------------------------------------
(* The end of the load. *)

\* Mutant: the rva, without the image base.
SetEntryRva ==
  /\ pc = "entry"
  /\ entry' = image.ep
  /\ LET c == Classify(classification, image.linker.major, image.linker.minor)
     IN  /\ classification' = c
         /\ signatures' = signatures \cup SignaturesFor(c, borland)
  /\ pc' = "display"
  /\ UNCHANGED <<image, next, problems, borland, segments, symbols, abi>>

SetEntry ==
  /\ pc = "entry"
  /\ entry' = EntryPoint
  /\ LET c == Classify(classification, image.linker.major, image.linker.minor)
     IN  /\ classification' = c
         /\ signatures' = signatures \cup SignaturesFor(c, borland)
  /\ pc' = "display"
  /\ UNCHANGED <<image, next, problems, borland, segments, symbols, abi>>

Display ==
  /\ pc = "display"
  /\ abi' = IF ABI(classification) = "none" THEN abi ELSE ABI(classification)
  /\ pc' = "done"
  /\ UNCHANGED <<image, next, problems, classifierVars, segments, symbols, entry>>

Init ==
  /\ image \in Images
  /\ pc = "sections"
  /\ next = 1
  /\ classification = "Unclassified"
  /\ borland = ""
  /\ signatures = {}
  /\ segments = <<>>
  /\ symbols = {}
  /\ entry = NoEntry
  /\ abi = "none"
  /\ problems = {}

Next ==
  \/ LoadSections
  \/ CheckDotNet
  \/ LoadDotNet
  \/ LoadExports
  \/ ReadDescriptor
  \/ EndImports
  \/ LoadTLS
  \/ LoadConfig
  \/ LoadExceptions
  \/ LoadSymbolTable
  \/ CheckDebugInfo
  \/ CheckResources
  \/ SetEntry
  \/ Display

Spec == Init /\ [][Next]_vars

-----------------------------------------------------------------------------
(* Properties. *)

Stages ==
  { "sections", "dotnet-check", "dotnet", "exports", "imports", "tls", "config",
    "exceptions", "coff", "debug", "resources", "entry", "display", "done" }

TypeOK ==
  /\ pc \in Stages
  /\ next \in Nat \ {0}
  /\ classification \in Classifications
  /\ borland \in BorlandSignatures
  /\ entry \in {NoEntry, EntryPoint}
  /\ abi \in {"none", "MSVC", "DotNET", "Borland", "GNU"}
  /\ problems \subseteq {"packed", "PACKAGEINFO not found"}

\* The descriptors before n whose thunks readDescriptor could reach.
ReadBefore(n) ==
  { i \in DOMAIN image.imports.descriptors :
      /\ i < n
      /\ LET d == image.imports.descriptors[i]
         IN  Resolves(image, IF d.oft # 0 THEN d.oft ELSE d.ft) }

LibraryOf(i) == image.imports.descriptors[i].lib

\* What the import table says of the compiler, without the order of the calls:
\* the last marker library, or else the first Microsoft runtime.
ImportVerdict(n) ==
  LET markers  == { i \in ReadBefore(n) : LibraryOf(i) \in DOMAIN Marker }
      runtimes == { i \in ReadBefore(n) : LibraryOf(i) \in DOMAIN Runtime }
  IN  IF markers # {} THEN Marker[LibraryOf(Max(markers))]
      ELSE IF runtimes # {} THEN Runtime[LibraryOf(Min(runtimes))]
      ELSE "Unclassified"

\* Through the whole import loop and until the debug directory is looked at,
\* the classification readDescriptor accumulates call by call is the verdict
\* of the descriptors read: nothing read earlier is lost or read twice.
ImportsDecide ==
  pc \in {"imports", "tls", "config", "exceptions", "coff", "debug"} =>
    classification = ImportVerdict(next)

\* The verdict a native image ends with, whatever the order of the steps:
\* a Visual Basic runtime stands, otherwise the linker version when it is
\* a known one, otherwise the imports, otherwise CodeView data.
NativeVerdict ==
  LET v == ImportVerdict(next)
      w == IF v = "Unclassified" /\ Readable(image, image.debug) /\ image.debug.codeview
           THEN "VisualStudio" ELSE v
  IN  IF v \in VisualBasic THEN v
      ELSE CheckLinkerVersion(w, image.linker.major, image.linker.minor)

\* classify() runs last and must agree with that verdict: MinGW and the
\* Microsoft runtimes give way to the linker version, Visual Basic does not.
LinkerConcludes ==
  pc = "done" /\ entry # NoEntry => classification = NativeVerdict

\* Once an image is a Visual Basic one (pevbdecompile is enabled by that),
\* only another marker library read later changes it: neither a Microsoft
\* runtime nor CodeView data nor the linker version does.
VBSticks ==
  [][IsVisualBasic(classification) =>
       \/ classification' = classification
       \/ pc = "imports" /\ LibraryOf(next) \in DOMAIN Marker]_vars

\* The managed and the native load never mix: an image whose COR header was
\* accepted has no entry point and no import or export, so that neither
\* native analyzer finds input in it; and an image that gets an entry point
\* was never a .NET one.
ManagedIsNotNative ==
  /\ classification \in DotNet =>
       entry = NoEntry /\ \A r \in symbols : r.call = "Function"
  /\ entry # NoEntry => ~Readable(image, image.dotnet)

\* VBAnalyzer::analyze begins at the document's entry point and follows its
\* push to the VB header: whenever pevbdecompile is enabled after a load, the
\* entry point is set and a VB runtime really was imported.
VBAnalyzerHasInput ==
  pc = "done" /\ VBEnabled(classification) =>
    /\ entry = EntryPoint
    /\ \E i \in ReadBefore(next) :
         LibraryOf(i) \in DOMAIN Marker /\ Marker[LibraryOf(i)] = classification
    /\ ~WndProcEnabled(classification)

\* The two address maps agree: an rva rvaToOffset resolves lies in a segment
\* of the document that maps it to the same byte of the file, although the
\* one reads the virtual size as it is and the other rounds it up.
OffsetsAgree ==
  pc # "sections" =>
    \A s \in DOMAIN image.sections :
      \A rva \in image.sections[s].va .. image.sections[s].va + image.sections[s].vsize :
        Resolves(image, rva) =>
          \E i \in SegmentsAt(ImageBase + rva) :
            segments[i].ptr + (ImageBase + rva - segments[i].va) = RvaToOffset(image, rva)

\* Read from the slot's side: an import set at an address names the thunk the
\* system loader binds there, the one at the same index of the descriptor's
\* name table, whichever table the names came from and whatever was skipped.
SlotsNameTheirThunk ==
  \A r \in symbols : r.call = "Imported" =>
    \E i \in DOMAIN image.imports.descriptors :
      LET d == image.imports.descriptors[i]
          k == (r.address - ImageBase - d.ft) \div image.thunk
      IN  /\ Covers(ImageBase + d.ft, Len(d.thunks) * image.thunk, r.address)
          /\ r.name = ThunkName(d.lib, d.thunks[k + 1])

\* pe.cpp:233, "Entry point always points to code segment".
EntryPointsToCode == entry # NoEntry => IsCode(entry)

\* What does hold of it: a segment that contains the entry point is code.
EntrySegmentIsCode ==
  pc # "sections" => \A i \in SegmentsAt(EntryPoint) : "Code" \in segments[i].flags

\* classifier.cpp:101 reports "'PACKAGEINFO' resource not found": the image
\* it says so of has no such resource.
ReportedMissingIsMissing ==
  "PACKAGEINFO not found" \in problems =>
    \A i \in DOMAIN image.resources.entries :
      image.resources.entries[i].label # "PACKAGEINFO"

\* What an image is classified as, and what follows from it for its analyzer,
\* is one verdict from its first import to its end.
VerdictIsNative == ImportsDecide /\ LinkerConcludes /\ VBAnalyzerHasInput

\* The segments of the document are the file's sections as rvaToOffset reads
\* them, and the one with the entry point is code.
LayoutAgrees == OffsetsAgree /\ EntrySegmentIsCode
=============================================================================
