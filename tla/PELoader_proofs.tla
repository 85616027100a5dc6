--------------------------- MODULE PELoader_proofs ---------------------------
(***************************************************************************)
(* Proofs about PELoader and DotNetReader: what holds of every image, not  *)
(* only of the small ones TLC loads.                                       *)
(***************************************************************************)
EXTENDS PELoader, DotNetReader, SequenceTheorems, FiniteSetTheorems, OrderLemmas, TLAPS

-----------------------------------------------------------------------------
(* The classifier's operators.  DOMAIN Marker and DOMAIN Runtime have a    *)
(* dozen members; the lemmas keep them out of the proofs below.            *)

LEMMA MarkerType == \A lib \in DOMAIN Marker : Marker[lib] \in VisualBasic \cup {"MinGW"}
  BY DEF Marker, VisualBasic

LEMMA RuntimeType == \A lib \in DOMAIN Runtime : Runtime[lib] \in VisualStudio
  BY DEF Runtime, VisualStudio

\* No operator of the native load yields a .NET classification, and each
\* yields a classification.
LEMMA ImportType ==
  ASSUME NEW c \in Classifications, NEW lib
  PROVE  /\ ClassifyImport(c, lib) \in Classifications
         /\ ClassifyImport(c, lib) \in DotNet => c \in DotNet
  BY MarkerType, RuntimeType
     DEF ClassifyImport, Classifications, VisualBasic, VisualStudio, DotNet

LEMMA LinkerType ==
  ASSUME NEW c \in Classifications, NEW major, NEW minor
  PROVE  /\ CheckLinkerVersion(c, major, minor) \in Classifications
         /\ CheckLinkerVersion(c, major, minor) \in DotNet => c \in DotNet
  BY DEF CheckLinkerVersion, Classifications, VisualStudio, DotNet

LEMMA ClassifyType ==
  ASSUME NEW c \in Classifications, NEW major, NEW minor
  PROVE  /\ Classify(c, major, minor) \in Classifications
         /\ Classify(c, major, minor) \in DotNet => c \in DotNet
         /\ c \in VisualBasic => Classify(c, major, minor) = c
  BY LinkerType DEF Classify, IsVisualBasic, IsClassified, VisualBasic

LEMMA CodeViewType ==
  ASSUME NEW c \in Classifications
  PROVE  /\ ClassifyVisualStudio(c) \in Classifications
         /\ ClassifyVisualStudio(c) \in DotNet => c \in DotNet
         /\ c \in VisualBasic => ClassifyVisualStudio(c) = c
  BY DEF ClassifyVisualStudio, IsClassified, Classifications, VisualStudio,
         VisualBasic, DotNet

LEMMA CorType ==
  ASSUME NEW c \in Classifications, NEW cor
  PROVE  ClassifyDotNet(c, cor) \in Classifications
  BY DEF ClassifyDotNet, Classifications, DotNet

LEMMA SignatureType ==
  ASSUME NEW info, info.unit \in Units
  PROVE  GetSignature(info) \in BorlandSignatures
  BY DEF GetSignature, Units, BorlandSignatures

LEMMA ABIType ==
  ASSUME NEW c
  PROVE  ABI(c) \in {"none", "MSVC", "DotNET", "Borland", "GNU"}
  BY DEF ABI

-----------------------------------------------------------------------------
(* No resource is ever named PACKAGEINFO, so the Delphi branch of          *)
(* CheckResources is never taken: string names are lost by EntryName.      *)

LEMMA NeverFound ==
  ASSUME NEW img \in Images
  PROVE  FindEntry("PACKAGEINFO", img.resources.entries) = {}
  BY ImagesAssumption DEF FindEntry, EntryName

-----------------------------------------------------------------------------
(* Type correctness.                                                       *)

LEMMA Successor == \A n \in Nat \ {0} : n + 1 \in Nat \ {0}
  OBVIOUS

\* TypeOK alone is not inductive: the signature CheckResources stores is
\* typed because the image is one of Images.
TypeInv == TypeOK /\ image \in Images

LEMMA TypeInit == Init => TypeInv
<1>1. 1 \in Nat \ {0} /\ "Unclassified" \in Classifications /\ "" \in BorlandSignatures
  BY DEF Classifications, BorlandSignatures
<1>. QED
  BY <1>1 DEF Init, TypeInv, TypeOK, Stages

LEMMA TypeStep == TypeInv /\ [Next]_vars => TypeInv'
<1> SUFFICES ASSUME TypeInv, [Next]_vars PROVE TypeInv'
  OBVIOUS
<1> USE DEF TypeInv, TypeOK, Stages, EntryPoint, documentVars, classifierVars
<1>1. CASE LoadSections
  BY <1>1 DEF LoadSections
<1>2. CASE CheckDotNet
  <2>1. classification' \in Classifications
    BY <1>2, CorType DEF CheckDotNet
  <2>. QED
    BY <1>2, <2>1 DEF CheckDotNet
<1>3. CASE LoadDotNet
  BY <1>3 DEF LoadDotNet
<1>4. CASE LoadExports
  BY <1>4 DEF LoadExports
<1>5. CASE ReadDescriptor
  <2>1. classification' \in Classifications
    BY <1>5, ImportType DEF ReadDescriptor
  <2>2. next' \in Nat \ {0}
    <3>1. next' = next + 1
      BY <1>5 DEF ReadDescriptor
    <3>. QED
      BY <3>1, Successor
  <2>3. /\ image' = image /\ pc' = pc /\ problems' = problems
        /\ borland' = borland /\ entry' = entry /\ abi' = abi
    BY <1>5 DEF ReadDescriptor
  <2>. QED
    BY <2>1, <2>2, <2>3
<1>6. CASE EndImports
  BY <1>6 DEF EndImports
<1>7. CASE LoadTLS
  BY <1>7 DEF LoadTLS
<1>8. CASE LoadConfig
  BY <1>8 DEF LoadConfig
<1>9. CASE LoadExceptions
  BY <1>9 DEF LoadExceptions
<1>10. CASE LoadSymbolTable
  BY <1>10 DEF LoadSymbolTable
<1>11. CASE CheckDebugInfo
  <2>1. classification' \in Classifications
    BY <1>11, CodeViewType DEF CheckDebugInfo
  <2>. QED
    BY <1>11, <2>1 DEF CheckDebugInfo
<1>12. CASE CheckResources
  <2>1. UNCHANGED <<classification, borland>>
    BY <1>12, NeverFound DEF CheckResources
  <2>. QED
    BY <1>12, <2>1 DEF CheckResources
<1>13. CASE SetEntry
  <2>1. classification' \in Classifications
    BY <1>13, ClassifyType DEF SetEntry
  <2>. QED
    BY <1>13, <2>1 DEF SetEntry
<1>14. CASE Display
  <2>1. abi' \in {"none", "MSVC", "DotNET", "Borland", "GNU"}
    BY <1>14, ABIType DEF Display
  <2>. QED
    BY <1>14, <2>1 DEF Display
<1>15. CASE UNCHANGED vars
  BY <1>15 DEF vars
<1>. QED
  BY <1>1, <1>2, <1>3, <1>4, <1>5, <1>6, <1>7, <1>8, <1>9, <1>10, <1>11, <1>12,
     <1>13, <1>14, <1>15 DEF Next

\* Every load, of any image, keeps the loader's state in its types.
THEOREM TypeCorrect == Spec => []TypeOK
<1>1. Spec => []TypeInv
  BY TypeInit, TypeStep, PTL DEF Spec
<1>2. TypeInv => TypeOK
  BY DEF TypeInv
<1>. QED
  BY <1>1, <1>2, PTL

-----------------------------------------------------------------------------
(* The two loads do not mix.                                               *)

NativeStages == Stages \ {"sections", "dotnet-check", "dotnet", "display", "done"}

\* ManagedIsNotNative is not inductive: it says nothing of a .NET image before
\* its entry point would be set.  What is: a readable COR header keeps the
\* load out of every native stage, and a .NET verdict comes from one.
SplitInv ==
  /\ pc \in {"sections", "dotnet-check"} => classification = "Unclassified"
  /\ pc \in NativeStages => ~Readable(image, image.dotnet)
  /\ classification \in DotNet => Readable(image, image.dotnet)
  /\ Readable(image, image.dotnet) =>
       entry = NoEntry /\ \A r \in symbols : r.call = "Function"

LEMMA SplitInit == Init => SplitInv
  BY DEF Init, SplitInv, NativeStages, DotNet

LEMMA SplitStep == TypeInv /\ SplitInv /\ [Next]_vars => SplitInv'
<1> SUFFICES ASSUME TypeInv, SplitInv, [Next]_vars PROVE SplitInv'
  OBVIOUS
<1> USE DEF SplitInv, NativeStages, Stages, documentVars, classifierVars
<1>0. classification \in Classifications /\ image \in Images
  BY DEF TypeInv, TypeOK
<1>1. CASE LoadSections
  BY <1>1 DEF LoadSections
<1>2. CASE CheckDotNet
  <2>. DEFINE found == Readable(image, image.dotnet)
  <2>1. classification' \in DotNet => found
    BY <1>2 DEF CheckDotNet, DotNet
  <2>2. pc' \in NativeStages => ~found
    BY <1>2 DEF CheckDotNet
  <2>3. pc' \notin {"sections", "dotnet-check"}
    BY <1>2 DEF CheckDotNet
  <2>. QED
    BY <1>2, <2>1, <2>2, <2>3 DEF CheckDotNet
<1>3. CASE LoadDotNet
  <2>1. (\A r \in symbols : r.call = "Function") => (\A r \in symbols' : r.call = "Function")
    BY <1>3 DEF LoadDotNet, Request
  <2>. QED
    BY <1>3, <2>1 DEF LoadDotNet
<1>4. CASE LoadExports
  BY <1>4 DEF LoadExports
<1>5. CASE ReadDescriptor
  <2>1. classification' \in DotNet => classification \in DotNet
    BY <1>0, <1>5, ImportType DEF ReadDescriptor
  <2>. QED
    BY <1>5, <2>1 DEF ReadDescriptor
<1>6. CASE EndImports
  BY <1>6 DEF EndImports
<1>7. CASE LoadTLS
  BY <1>7 DEF LoadTLS
<1>8. CASE LoadConfig
  BY <1>8 DEF LoadConfig
<1>9. CASE LoadExceptions
  BY <1>9 DEF LoadExceptions
<1>10. CASE LoadSymbolTable
  BY <1>10 DEF LoadSymbolTable
<1>11. CASE CheckDebugInfo
  <2>1. classification' \in DotNet => classification \in DotNet
    BY <1>0, <1>11, CodeViewType DEF CheckDebugInfo
  <2>. QED
    BY <1>11, <2>1 DEF CheckDebugInfo
<1>12. CASE CheckResources
  <2>1. classification' = classification
    BY <1>0, <1>12, NeverFound DEF CheckResources
  <2>. QED
    BY <1>12, <2>1 DEF CheckResources
<1>13. CASE SetEntry
  <2>1. classification' \in DotNet => classification \in DotNet
    BY <1>0, <1>13, ClassifyType DEF SetEntry
  <2>. QED
    BY <1>13, <2>1 DEF SetEntry
<1>14. CASE Display
  BY <1>14 DEF Display
<1>15. CASE UNCHANGED vars
  BY <1>15 DEF vars
<1>. QED
  BY <1>1, <1>2, <1>3, <1>4, <1>5, <1>6, <1>7, <1>8, <1>9, <1>10, <1>11, <1>12,
     <1>13, <1>14, <1>15 DEF Next

LEMMA Invariants == Spec => [](TypeInv /\ SplitInv)
<1>1. Init => TypeInv /\ SplitInv
  BY TypeInit, SplitInit
<1>2. TypeInv /\ SplitInv /\ [Next]_vars => (TypeInv /\ SplitInv)'
  BY TypeStep, SplitStep
<1>. QED
  BY <1>1, <1>2, PTL DEF Spec

\* No image, however its directories combine, is loaded partly as a .NET one
\* and partly as a native one.
THEOREM Separation == Spec => []ManagedIsNotNative
<1>1. SplitInv => ManagedIsNotNative
  BY DEF SplitInv, ManagedIsNotNative
<1>. QED
  BY <1>1, Invariants, PTL

-----------------------------------------------------------------------------
(* A Visual Basic verdict stands.                                          *)

LEMMA ImportKeepsVB ==
  ASSUME NEW c \in VisualBasic, NEW lib, lib \notin DOMAIN Marker
  PROVE  ClassifyImport(c, lib) = c
  BY DEF ClassifyImport, VisualBasic

\* In any image, for any number and order of imported libraries, nothing but
\* another marker library replaces a Visual Basic verdict.
THEOREM VBStands == Spec => VBSticks
<1> DEFINE Sticks == IsVisualBasic(classification) =>
                       \/ classification' = classification
                       \/ pc = "imports" /\ LibraryOf(next) \in DOMAIN Marker
<1>1. TypeInv /\ SplitInv /\ [Next]_vars => [Sticks]_vars
  <2> SUFFICES ASSUME TypeInv, SplitInv, Next, classification \in VisualBasic,
                      ~(pc = "imports" /\ LibraryOf(next) \in DOMAIN Marker)
               PROVE  classification' = classification
    BY DEF IsVisualBasic
  <2>0. classification \in Classifications /\ image \in Images
    BY DEF TypeInv, TypeOK
  <2> USE DEF classifierVars
  <2>1. CASE CheckDotNet
    BY <2>1 DEF CheckDotNet, SplitInv, VisualBasic
  <2>2. CASE ReadDescriptor
    BY <2>2, ImportKeepsVB DEF ReadDescriptor, LibraryOf
  <2>3. CASE CheckDebugInfo
    BY <2>0, <2>3, CodeViewType DEF CheckDebugInfo
  <2>4. CASE CheckResources
    BY <2>0, <2>4, NeverFound DEF CheckResources
  <2>5. CASE SetEntry
    BY <2>0, <2>5, ClassifyType DEF SetEntry
  <2>. QED
    BY <2>1, <2>2, <2>3, <2>4, <2>5
       DEF Next, LoadSections, LoadDotNet, LoadExports, EndImports, LoadTLS,
           LoadConfig, LoadExceptions, LoadSymbolTable, Display
<1>. QED
  BY <1>1, Invariants, PTL DEF Spec, VBSticks
-----------------------------------------------------------------------------
(* Where the document has the sections.                                    *)

\* What LoadSections maps stays mapped.
LaidOut ==
  pc # "sections" => segments = [ i \in DOMAIN image.sections |-> SegmentOf(image.sections[i]) ]

LEMMA LaidOutInit == Init => LaidOut
  BY DEF Init, LaidOut

LEMMA LaidOutStep == LaidOut /\ [Next]_vars => LaidOut'
<1>. SUFFICES ASSUME LaidOut, [Next]_vars PROVE LaidOut'
  OBVIOUS
<1>1. CASE LoadSections
  <2>1. image' = image /\ segments' = [ i \in DOMAIN image.sections |-> SegmentOf(image.sections[i]) ]
    BY <1>1 DEF LoadSections
  <2>. QED
    BY <2>1 DEF LaidOut, SegmentOf, SectionFlags, EntryPoint
<1>2. CASE ~LoadSections
  <2>1. image' = image /\ segments' = segments /\ (pc' # "sections" => pc # "sections")
    BY <1>2 DEF Next, CheckDotNet, LoadDotNet, LoadExports, ReadDescriptor, EndImports, LoadTLS,
           LoadConfig, LoadExceptions, LoadSymbolTable, CheckDebugInfo, CheckResources, SetEntry,
           Display, vars, documentVars
  <2>. QED
    BY <2>1 DEF LaidOut, SegmentOf, SectionFlags, EntryPoint
<1>. QED
  BY <1>1, <1>2

\* Rounding to the alignment never makes a section smaller.
LEMMA RoundedUp ==
  ASSUME NEW s, s.vsize \in Nat, s.raw \in Nat, NEW align \in Nat \ {0}
  PROVE  SectionSize(s, align) \in Nat /\ s.vsize <= SectionSize(s, align)
<1>. DEFINE vsize == IF s.raw # 0 /\ s.vsize = 0 THEN s.raw ELSE s.vsize
            size  == IF vsize % align = 0 THEN vsize ELSE vsize + align - (vsize % align)
<1>1. vsize \in Nat /\ s.vsize <= vsize
  OBVIOUS
<1>2. SectionSize(s, align) = size
  BY DEF SectionSize
<1>. HIDE DEF vsize
<1>3. vsize % align \in 0 .. align - 1
  BY <1>1
<1>. QED
  BY <1>1, <1>2, <1>3

\* What rvaToOffset resolves is the byte its first section has there.
LEMMA ResolvedSection ==
  ASSUME NEW img \in Images, NEW rva, Resolves(img, rva)
  PROVE  \E i \in DOMAIN img.sections :
           /\ Covers(img.sections[i].va, img.sections[i].vsize, rva)
           /\ RvaToOffset(img, rva) = img.sections[i].ptr + (rva - img.sections[i].va)
<1>. DEFINE hit == { i \in DOMAIN img.sections : Covers(img.sections[i].va, img.sections[i].vsize, rva) }
            s == img.sections[Min(hit)]
            offset == s.ptr + (rva - s.va)
<1>1. RvaToOffset(img, rva) = IF hit = {} THEN Null
                              ELSE IF s.raw # 0 /\ offset < s.ptr + s.raw THEN offset ELSE Null
  BY DEF RvaToOffset
<1>2. hit # {} /\ RvaToOffset(img, rva) = offset
  BY <1>1, Zenon DEF Resolves
<1>3. hit \subseteq Nat
  BY FieldsAssumption
<1>. HIDE DEF hit
<1>4. Min(hit) \in hit
  <2>1. hit \in SUBSET Int /\ 0 \in Int /\ \A y \in hit : 0 <= y
    BY <1>3
  <2>. QED
    BY <1>2, <2>1, MinIsLeast
<1>. QED
  BY <1>2, <1>4, ZenonT(40) DEF hit

\* In every image, however its sections overlap and whatever their alignment,
\* what the loader reads through an rva is where the document maps it, and the
\* entry point is code.
THEOREM LayoutFollowsFile == Spec => []LayoutAgrees
<1>1. TypeInv /\ LaidOut => LayoutAgrees
  <2>. SUFFICES ASSUME image \in Images, pc # "sections",
                       segments = [ i \in DOMAIN image.sections |-> SegmentOf(image.sections[i]) ]
                PROVE  LayoutAgrees
    BY DEF TypeInv, LaidOut, LayoutAgrees, OffsetsAgree, EntrySegmentIsCode
  <2>1. ASSUME NEW i \in DOMAIN image.sections
        PROVE  /\ i \in DOMAIN segments
               /\ segments[i].ptr = image.sections[i].ptr
               /\ segments[i].va = ImageBase + image.sections[i].va
               /\ segments[i].size = SectionSize(image.sections[i], image.align)
               /\ segments[i].flags = SectionFlags(image.sections[i], segments[i].size)
    BY <2>1 DEF SegmentOf
  <2>2. OffsetsAgree
    <3>. SUFFICES ASSUME NEW s \in DOMAIN image.sections,
                         NEW rva \in image.sections[s].va .. image.sections[s].va + image.sections[s].vsize,
                         Resolves(image, rva)
                  PROVE  \E i \in SegmentsAt(ImageBase + rva) :
                           segments[i].ptr + (ImageBase + rva - segments[i].va) = RvaToOffset(image, rva)
      BY DEF OffsetsAgree
    <3>1. PICK i \in DOMAIN image.sections :
            /\ Covers(image.sections[i].va, image.sections[i].vsize, rva)
            /\ RvaToOffset(image, rva) = image.sections[i].ptr + (rva - image.sections[i].va)
      BY ResolvedSection
    <3>2. /\ ImageBase \in Nat /\ image.align \in Nat \ {0}
          /\ image.sections[i].va \in Nat /\ image.sections[i].vsize \in Nat
          /\ image.sections[i].ptr \in Nat /\ image.sections[i].raw \in Nat
          /\ image.sections[s].va \in Nat /\ image.sections[s].vsize \in Nat
      BY FieldsAssumption
    <3>3. rva \in Int
      BY <3>2
    <3>4. /\ SectionSize(image.sections[i], image.align) \in Nat
          /\ image.sections[i].vsize <= SectionSize(image.sections[i], image.align)
      BY <3>2, RoundedUp
    <3>. DEFINE va   == image.sections[i].va
               size == SectionSize(image.sections[i], image.align)
    <3>5. /\ va <= rva /\ rva < va + size
          /\ va \in Nat /\ size \in Nat
          /\ segments[i].va = ImageBase + va /\ segments[i].size = size
      <4>1. va <= rva /\ rva < va + image.sections[i].vsize
        BY <3>1 DEF Covers
      <4>2. /\ va \in Nat /\ size \in Nat
            /\ image.sections[i].vsize \in Nat /\ image.sections[i].vsize <= size
        BY <3>2, <3>4
      <4>3. segments[i].va = ImageBase + va /\ segments[i].size = size
        BY <2>1
      <4>. HIDE DEF va, size
      <4>. QED
        BY <3>3, <4>1, <4>2, <4>3
    <3>. HIDE DEF va, size
    <3>6. ImageBase + va <= ImageBase + rva /\ ImageBase + rva < (ImageBase + va) + size
      BY <3>2, <3>3, <3>5
    <3>7. i \in SegmentsAt(ImageBase + rva)
      BY <2>1, <3>5, <3>6 DEF SegmentsAt, Covers
    <3>8. ImageBase + rva - (ImageBase + va) = rva - va
      BY <3>2, <3>3, <3>5
    <3>9. segments[i].ptr + (ImageBase + rva - segments[i].va) = RvaToOffset(image, rva)
      BY <2>1, <3>1, <3>5, <3>8 DEF va
    <3>. QED
      BY <3>7, <3>9
  <2>3. EntrySegmentIsCode
    BY <2>1 DEF EntrySegmentIsCode, SegmentsAt, SectionFlags
  <2>. QED
    BY <2>2, <2>3 DEF LayoutAgrees
<1>2. Init => TypeInv /\ LaidOut
  BY TypeInit, LaidOutInit
<1>3. TypeInv /\ LaidOut /\ [Next]_vars => (TypeInv /\ LaidOut)'
  BY TypeStep, LaidOutStep
<1>. QED
  BY <1>1, <1>2, <1>3, PTL DEF Spec

-----------------------------------------------------------------------------
(* The verdict on the compiler.                                            *)

Markers(n)  == { i \in ReadBefore(n) : LibraryOf(i) \in DOMAIN Marker }
Runtimes(n) == { i \in ReadBefore(n) : LibraryOf(i) \in DOMAIN Runtime }

LEMMA VerdictOf ==
  ImportVerdict(next) = IF Markers(next) # {} THEN Marker[LibraryOf(Max(Markers(next)))]
                        ELSE IF Runtimes(next) # {} THEN Runtime[LibraryOf(Min(Runtimes(next)))]
                        ELSE "Unclassified"
  BY DEF ImportVerdict, Markers, Runtimes

\* No library stands for an unclassified image, or for a Microsoft compiler
\* of unknown version.
LEMMA RuntimePrecise ==
  \A lib \in DOMAIN Runtime : Runtime[lib] \in VisualStudio \ {"VisualStudio"}
  BY DEF Runtime, VisualStudio

LEMMA MarkerPrecise ==
  \A lib \in DOMAIN Marker : Marker[lib] \in VisualBasic \cup {"MinGW"}
  BY MarkerType

LEMMA MarkerOrRuntime == DOMAIN Marker \cap DOMAIN Runtime = {}
  BY DEF Marker, Runtime

LEMMA ReadNumbers ==
  ASSUME image \in Images, next \in Nat \ {0}
  PROVE  ReadBefore(next) \subseteq Nat /\ \A i \in ReadBefore(next) : 0 <= i /\ i < next
<1>1. /\ DOMAIN image.imports.descriptors = 1 .. Len(image.imports.descriptors)
      /\ Len(image.imports.descriptors) \in Nat
  BY FieldsAssumption
<1>. QED
  BY <1>1 DEF ReadBefore

\* The last marker and the first runtime are among those read.
LEMMA Extremes ==
  ASSUME image \in Images, next \in Nat \ {0}
  PROVE  /\ Markers(next) # {} => Max(Markers(next)) \in Markers(next)
         /\ Runtimes(next) # {} =>
              Min(Runtimes(next)) \in Runtimes(next) /\ \A i \in Runtimes(next) : Min(Runtimes(next)) <= i
<1>1. Markers(next) \in SUBSET Int /\ \A i \in Markers(next) : i <= next
  BY ReadNumbers DEF Markers
<1>2. Runtimes(next) \in SUBSET Int /\ 0 \in Int /\ \A i \in Runtimes(next) : 0 <= i
  BY ReadNumbers DEF Runtimes
<1>3. next \in Int
  OBVIOUS
<1>4. Markers(next) # {} => Max(Markers(next)) \in Markers(next)
  BY <1>1, <1>3, MaxIsGreatest
<1>5. Runtimes(next) # {} =>
        Min(Runtimes(next)) \in Runtimes(next) /\ \A i \in Runtimes(next) : Min(Runtimes(next)) <= i
  BY <1>2, MinIsLeast
<1>. QED
  BY <1>4, <1>5

\* Which verdicts there are, and that a Visual Basic one has its library.
LEMMA VerdictKinds ==
  ASSUME image \in Images, next \in Nat \ {0}
  PROVE  /\ ImportVerdict(next) \in {"Unclassified", "MinGW"} \cup VisualBasic
                                      \cup (VisualStudio \ {"VisualStudio"})
         /\ ImportVerdict(next) \in VisualBasic =>
              \E i \in ReadBefore(next) :
                LibraryOf(i) \in DOMAIN Marker /\ Marker[LibraryOf(i)] = ImportVerdict(next)
<1>1. CASE Markers(next) # {}
  <2>1. PICK i \in Markers(next) : ImportVerdict(next) = Marker[LibraryOf(i)]
    BY <1>1, VerdictOf, Extremes
  <2>2. i \in ReadBefore(next) /\ LibraryOf(i) \in DOMAIN Marker
    BY DEF Markers
  <2>. QED
    BY <2>1, <2>2, MarkerPrecise
<1>2. CASE Markers(next) = {} /\ Runtimes(next) # {}
  <2>1. PICK i \in Runtimes(next) : ImportVerdict(next) = Runtime[LibraryOf(i)]
    BY <1>2, VerdictOf, Extremes
  <2>2. LibraryOf(i) \in DOMAIN Runtime
    BY DEF Runtimes
  <2>3. ImportVerdict(next) \in VisualStudio \ {"VisualStudio"}
    BY <2>1, <2>2, RuntimePrecise
  <2>. QED
    BY <2>3 DEF VisualStudio, VisualBasic
<1>3. CASE Markers(next) = {} /\ Runtimes(next) = {}
  BY <1>3, VerdictOf DEF VisualBasic
<1>. QED
  BY <1>1, <1>2, <1>3

\* One more descriptor: the verdict of the longer list is what readDescriptor
\* makes of the verdict of the shorter one.
LEMMA VerdictGrows ==
  ASSUME image \in Images, next \in Nat \ {0}, ReadDescriptor, classification = ImportVerdict(next)
  PROVE  classification' = ImportVerdict(next)'
<1>. DEFINE d == image.imports.descriptors[next]
            isRead == Resolves(image, IF d.oft # 0 THEN d.oft ELSE d.ft)
<1>1. image' = image /\ next' = next + 1
  BY DEF ReadDescriptor
<1>2. next \in DOMAIN image.imports.descriptors
  <2>1. next <= Len(image.imports.descriptors)
    BY DEF ReadDescriptor, MoreDescriptors
  <2>2. /\ DOMAIN image.imports.descriptors = 1 .. Len(image.imports.descriptors)
        /\ Len(image.imports.descriptors) \in Nat
    BY FieldsAssumption
  <2>. QED
    BY <2>1, <2>2
<1>3. classification' = IF isRead THEN ClassifyImport(classification, LibraryOf(next)) ELSE classification
  BY DEF ReadDescriptor, LibraryOf
<1>4. ReadBefore(next)' = IF isRead THEN ReadBefore(next) \cup {next} ELSE ReadBefore(next)
  <2>1. /\ DOMAIN image.imports.descriptors = 1 .. Len(image.imports.descriptors)
        /\ Len(image.imports.descriptors) \in Nat
    BY FieldsAssumption
  <2>2. \A i \in DOMAIN image.imports.descriptors : i < next' <=> (i < next \/ i = next)
    BY <1>1, <2>1
  <2>. DEFINE Reached(i) == LET e == image.imports.descriptors[i]
                            IN  Resolves(image, IF e.oft # 0 THEN e.oft ELSE e.ft)
  <2>3. ReadBefore(next)' = { i \in DOMAIN image.imports.descriptors : i < next' /\ Reached(i) }
    BY <1>1 DEF ReadBefore
  <2>4. ReadBefore(next) = { i \in DOMAIN image.imports.descriptors : i < next /\ Reached(i) }
    BY DEF ReadBefore
  <2>5. isRead <=> Reached(next)
    OBVIOUS
  <2>. HIDE DEF Reached, isRead
  <2>. QED
    BY <1>2, <2>2, <2>3, <2>4, <2>5
<1>5. \A i : LibraryOf(i)' = LibraryOf(i)
  BY <1>1 DEF LibraryOf
<1>6. ImportVerdict(next)' = IF Markers(next)' # {} THEN Marker[LibraryOf(Max(Markers(next)'))]
                             ELSE IF Runtimes(next)' # {} THEN Runtime[LibraryOf(Min(Runtimes(next)'))]
                             ELSE "Unclassified"
  BY <1>1, Zenon DEF ImportVerdict, Markers, Runtimes, ReadBefore, LibraryOf
<1>7. /\ Markers(next)' = { i \in ReadBefore(next)' : LibraryOf(i) \in DOMAIN Marker }
      /\ Runtimes(next)' = { i \in ReadBefore(next)' : LibraryOf(i) \in DOMAIN Runtime }
  BY <1>5 DEF Markers, Runtimes
<1>. HIDE DEF isRead
<1>8. CASE ~isRead
  <2>1. Markers(next)' = Markers(next) /\ Runtimes(next)' = Runtimes(next)
    BY <1>4, <1>7, <1>8 DEF Markers, Runtimes
  <2>. QED
    BY <1>3, <1>6, <1>8, <2>1, VerdictOf
<1>9. CASE isRead /\ LibraryOf(next) \in DOMAIN Marker
  <2>1. Markers(next)' = Markers(next) \cup {next}
    BY <1>4, <1>7, <1>9 DEF Markers
  <2>2. \A i \in Markers(next)' : i \in Nat /\ i <= next
    BY <2>1, ReadNumbers DEF Markers
  <2>3. Max(Markers(next)') = next
    <3>1. Max(Markers(next)') \in Markers(next)' /\ \A i \in Markers(next)' : i <= Max(Markers(next)')
      <4>1. Markers(next)' \in SUBSET Int /\ Markers(next)' # {} /\ next \in Int
        BY <2>1, <2>2
      <4>. QED
        BY <2>2, <4>1, MaxIsGreatest
    <3>. DEFINE last == Max(Markers(next)')
    <3>2. last \in Nat /\ last <= next /\ next <= last /\ next \in Nat
      BY <2>1, <2>2, <3>1
    <3>. HIDE DEF last
    <3>3. last = next
      BY <3>2
    <3>. QED
      BY <3>3 DEF last
  <2>4. classification' = Marker[LibraryOf(next)]
    <3>1. LibraryOf(next) \notin DOMAIN Runtime
      BY <1>9, MarkerOrRuntime
    <3>. QED
      BY <1>3, <1>9, <3>1, Zenon DEF ClassifyImport
  <2>5. Markers(next)' # {}
    BY <2>1
  <2>. QED
    BY <1>6, <2>3, <2>4, <2>5, Zenon
<1>10. CASE isRead /\ LibraryOf(next) \notin DOMAIN Marker /\ LibraryOf(next) \notin DOMAIN Runtime
  <2>1. Markers(next)' = Markers(next) /\ Runtimes(next)' = Runtimes(next)
    BY <1>4, <1>7, <1>10 DEF Markers, Runtimes
  <2>2. classification' = classification
    BY <1>3, <1>10 DEF ClassifyImport
  <2>. QED
    BY <1>6, <2>1, <2>2, VerdictOf
<1>11. CASE isRead /\ LibraryOf(next) \notin DOMAIN Marker /\ LibraryOf(next) \in DOMAIN Runtime
  <2>1. Markers(next)' = Markers(next) /\ Runtimes(next)' = Runtimes(next) \cup {next}
    BY <1>4, <1>7, <1>11 DEF Markers, Runtimes
  <2>2. classification' = IF classification \in {"Unclassified", "VisualStudio"}
                          THEN Runtime[LibraryOf(next)] ELSE classification
    BY <1>3, <1>11, Zenon DEF ClassifyImport
  <2>3. CASE Markers(next) # {}
    <3>1. classification = Marker[LibraryOf(Max(Markers(next)))] /\ Max(Markers(next)) \in Markers(next)
      BY <2>3, VerdictOf, Extremes
    <3>2. classification \in VisualBasic \cup {"MinGW"}
      BY <3>1, MarkerPrecise DEF Markers
    <3>3. classification' = classification
      BY <2>2, <3>2 DEF VisualBasic
    <3>. QED
      BY <1>6, <2>1, <2>3, <3>1, <3>3
  <2>4. CASE Markers(next) = {} /\ Runtimes(next) # {}
    <3>1. classification = Runtime[LibraryOf(Min(Runtimes(next)))]
      BY <2>4, VerdictOf
    <3>2. Min(Runtimes(next)) \in Runtimes(next) /\ \A i \in Runtimes(next) : Min(Runtimes(next)) <= i
      BY <2>4, Extremes
    <3>3. classification \in VisualStudio \ {"VisualStudio"}
      BY <3>1, <3>2, RuntimePrecise DEF Runtimes
    <3>4. classification' = classification
      BY <2>2, <3>3 DEF VisualStudio
    <3>5. \A i \in Runtimes(next) : i \in Nat /\ i < next
      BY ReadNumbers DEF Runtimes
    <3>6. Min(Runtimes(next)') = Min(Runtimes(next))
      <4>1. Runtimes(next)' \in SUBSET Int /\ Runtimes(next)' # {} /\ \A i \in Runtimes(next)' : 0 <= i
        BY <2>1, <3>5
      <4>2. Min(Runtimes(next)') \in Runtimes(next)' /\ \A i \in Runtimes(next)' : Min(Runtimes(next)') <= i
        BY <4>1, MinIsLeast
      <4>. QED
        BY <2>1, <3>2, <3>5, <4>2
    <3>. QED
      BY <1>6, <2>1, <2>4, <3>1, <3>4, <3>6
  <2>5. CASE Markers(next) = {} /\ Runtimes(next) = {}
    <3>1. classification = "Unclassified"
      BY <2>5, VerdictOf
    <3>2. classification' = Runtime[LibraryOf(next)]
      BY <2>2, <3>1
    <3>3. Runtimes(next)' = {next}
      BY <2>1, <2>5
    <3>4. Min(Runtimes(next)') = next
      <4>1. {next} \in SUBSET Int /\ {next} # {} /\ \A i \in {next} : 0 <= i
        OBVIOUS
      <4>2. Min({next}) \in {next}
        BY <4>1, MinIsLeast
      <4>. QED
        BY <3>3, <4>2
    <3>. QED
      BY <1>6, <2>1, <2>5, <3>2, <3>3, <3>4
  <2>. QED
    BY <2>3, <2>4, <2>5
<1>. QED
  BY <1>8, <1>9, <1>10, <1>11

\* What the steps after the import table leave of its verdict.
WithCodeView ==
  IF ImportVerdict(next) = "Unclassified" /\ Readable(image, image.debug) /\ image.debug.codeview
  THEN "VisualStudio" ELSE ImportVerdict(next)

\* VerdictIsNative speaks of the import stages and of the end.  In between
\* the verdict gains the CodeView data, and no entry point is set.
VerdictInv ==
  /\ pc \in {"sections", "dotnet-check", "exports"} =>
       classification = "Unclassified" /\ next = 1
  /\ pc \in {"imports", "tls", "config", "exceptions", "coff", "debug"} =>
       classification = ImportVerdict(next)
  /\ pc \in {"resources", "entry"} => classification = WithCodeView
  /\ pc \notin {"display", "done"} => entry = NoEntry
  /\ entry # NoEntry => classification = NativeVerdict /\ entry = EntryPoint
  /\ pc \in {"dotnet", "display", "done"} /\ entry = NoEntry =>
       classification \in {"Unclassified"} \cup DotNet

LEMMA VerdictInit == Init => VerdictInv
  BY DEF Init, VerdictInv

\* Nothing is imported when the import table is about to be read.
LEMMA NoVerdictYet ==
  ASSUME image \in Images, next = 1
  PROVE  ImportVerdict(next) = "Unclassified"
<1>1. ReadBefore(next) = {}
  <2>1. /\ DOMAIN image.imports.descriptors = 1 .. Len(image.imports.descriptors)
        /\ Len(image.imports.descriptors) \in Nat
    BY FieldsAssumption
  <2>. QED
    BY <2>1 DEF ReadBefore
<1>2. Markers(next) = {} /\ Runtimes(next) = {}
  BY <1>1 DEF Markers, Runtimes
<1>. QED
  BY <1>2, VerdictOf

LEMMA VerdictStays ==
  ASSUME image' = image, next' = next
  PROVE  /\ ImportVerdict(next)' = ImportVerdict(next)
         /\ WithCodeView' = WithCodeView
         /\ NativeVerdict' = NativeVerdict
         /\ EntryPoint' = EntryPoint
<1>1. ReadBefore(next)' = ReadBefore(next) /\ \A i : LibraryOf(i)' = LibraryOf(i)
  BY DEF ReadBefore, LibraryOf
<1>2. ImportVerdict(next)' = ImportVerdict(next)
  <2>1. Markers(next)' = Markers(next) /\ Runtimes(next)' = Runtimes(next)
    BY <1>1 DEF Markers, Runtimes
  <2>2. ImportVerdict(next)' = IF Markers(next)' # {} THEN Marker[LibraryOf(Max(Markers(next)'))]
                               ELSE IF Runtimes(next)' # {} THEN Runtime[LibraryOf(Min(Runtimes(next)'))]
                               ELSE "Unclassified"
    BY DEF ImportVerdict, Markers, Runtimes, ReadBefore, LibraryOf
  <2>. QED
    BY <2>1, <2>2, VerdictOf
<1>. QED
  BY <1>2 DEF WithCodeView, NativeVerdict, EntryPoint

LEMMA VerdictStep == TypeInv /\ VerdictInv /\ [Next]_vars => VerdictInv'
<1>. SUFFICES ASSUME TypeInv, VerdictInv, [Next]_vars PROVE VerdictInv'
  OBVIOUS
<1>0. image \in Images /\ next \in Nat \ {0} /\ classification \in Classifications /\ pc \in Stages
  BY DEF TypeInv, TypeOK
<1>. USE DEF VerdictInv, documentVars, classifierVars
<1>1. CASE LoadSections
  BY <1>1 DEF LoadSections
<1>2. CASE CheckDotNet
  <2>1. classification = "Unclassified" /\ next = 1 /\ entry = NoEntry
    BY <1>2 DEF CheckDotNet
  <2>2. /\ next' = 1 /\ entry' = NoEntry
        /\ classification' \in {"Unclassified"} \cup DotNet
        /\ pc' \in {"display", "dotnet", "exports"}
        /\ pc' = "exports" => classification' = "Unclassified"
    BY <1>2, <2>1 DEF CheckDotNet, ClassifyDotNet, DotNet
  <2>. QED
    BY <2>2
<1>3. CASE LoadDotNet
  BY <1>3 DEF LoadDotNet
<1>4. CASE LoadExports
  <2>1. /\ classification' = "Unclassified" /\ next' = 1 /\ next = 1 /\ image' = image
        /\ entry' = NoEntry /\ pc' = "imports"
    BY <1>4 DEF LoadExports
  <2>2. ImportVerdict(next)' = "Unclassified"
    BY <1>0, <2>1, NoVerdictYet, VerdictStays
  <2>. QED
    BY <2>1, <2>2
<1>5. CASE ReadDescriptor
  <2>1. pc = "imports" /\ pc' = "imports" /\ entry' = NoEntry
    BY <1>5 DEF ReadDescriptor
  <2>2. classification' = ImportVerdict(next)'
    BY <1>0, <1>5, <2>1, VerdictGrows
  <2>. QED
    BY <2>1, <2>2
<1>6. CASE EndImports \/ LoadTLS \/ LoadConfig \/ LoadExceptions \/ LoadSymbolTable
  <2>1. /\ image' = image /\ next' = next /\ classification' = classification /\ entry' = entry
        /\ pc \in {"imports", "tls", "config", "exceptions", "coff"}
        /\ pc' \in {"tls", "config", "exceptions", "coff", "debug"}
    BY <1>6 DEF EndImports, LoadTLS, LoadConfig, LoadExceptions, LoadSymbolTable
  <2>. QED
    BY <2>1, VerdictStays
<1>7. CASE CheckDebugInfo
  <2>1. /\ image' = image /\ next' = next /\ entry' = NoEntry /\ pc' = "resources"
        /\ classification = ImportVerdict(next)
    BY <1>7 DEF CheckDebugInfo
  <2>2. classification' = WithCodeView
    BY <1>7, <2>1 DEF CheckDebugInfo, WithCodeView, ClassifyVisualStudio, IsClassified
  <2>. QED
    BY <2>1, <2>2, VerdictStays
<1>8. CASE CheckResources
  <2>1. /\ image' = image /\ next' = next /\ entry' = NoEntry /\ pc' = "entry"
        /\ classification' = WithCodeView
    BY <1>0, <1>8, NeverFound DEF CheckResources
  <2>. QED
    BY <2>1, VerdictStays
<1>9. CASE SetEntry
  <2>1. /\ image' = image /\ next' = next /\ entry' = EntryPoint /\ pc' = "display"
        /\ classification = WithCodeView
        /\ classification' = Classify(classification, image.linker.major, image.linker.minor)
    BY <1>9 DEF SetEntry
  <2>2. WithCodeView \in VisualBasic <=> ImportVerdict(next) \in VisualBasic
    BY DEF WithCodeView, VisualBasic
  <2>3. classification' = NativeVerdict
    <3>. DEFINE linked == CheckLinkerVersion(WithCodeView, image.linker.major, image.linker.minor)
    <3>1. NativeVerdict = IF ImportVerdict(next) \in VisualBasic THEN ImportVerdict(next) ELSE linked
      BY DEF NativeVerdict, WithCodeView
    <3>2. Classify(WithCodeView, image.linker.major, image.linker.minor)
            = IF WithCodeView \in VisualBasic THEN WithCodeView ELSE linked
      BY DEF Classify, IsVisualBasic, IsClassified, VisualBasic
    <3>3. ImportVerdict(next) \in VisualBasic => WithCodeView = ImportVerdict(next)
      BY DEF WithCodeView, VisualBasic
    <3>. HIDE DEF linked
    <3>. QED
      BY <2>1, <2>2, <3>1, <3>2, <3>3
  <2>4. EntryPoint # NoEntry
    BY <1>0, FieldsAssumption DEF EntryPoint, NoEntry
  <2>. QED
    BY <2>1, <2>3, <2>4, VerdictStays
<1>10. CASE Display
  <2>1. /\ image' = image /\ next' = next /\ entry' = entry /\ classification' = classification
        /\ pc = "display" /\ pc' = "done"
    BY <1>10 DEF Display
  <2>. QED
    BY <2>1, VerdictStays
<1>11. CASE UNCHANGED vars
  BY <1>11, VerdictStays DEF vars
<1>. QED
  BY <1>1, <1>2, <1>3, <1>4, <1>5, <1>6, <1>7, <1>8, <1>9, <1>10, <1>11 DEF Next

\* A linker version never says Visual Basic.
LEMMA NativeKinds ==
  ASSUME image \in Images, next \in Nat \ {0}, NativeVerdict \in VisualBasic
  PROVE  NativeVerdict = ImportVerdict(next)
<1>. DEFINE linked == CheckLinkerVersion(WithCodeView, image.linker.major, image.linker.minor)
<1>1. NativeVerdict = IF ImportVerdict(next) \in VisualBasic THEN ImportVerdict(next) ELSE linked
  BY DEF NativeVerdict, WithCodeView
<1>2. linked = WithCodeView \/ linked \in VisualStudio
  BY DEF CheckLinkerVersion, VisualStudio
<1>3. WithCodeView \in {"VisualStudio", ImportVerdict(next)}
  BY DEF WithCodeView
<1>4. VisualStudio \cap VisualBasic = {} /\ "VisualStudio" \in VisualStudio
  BY DEF VisualStudio, VisualBasic
<1>. HIDE DEF linked
<1>. QED
  BY <1>1, <1>2, <1>3, <1>4

\* For every import table, of any length and order, the classification kept
\* call by call is the verdict of the table; a native image ends with that of
\* its linker version, its imports and its debug data; and the Visual Basic
\* analyzer is offered only for images that imported its runtime and have an
\* entry point to begin at.
THEOREM VerdictOfTheImports == Spec => []VerdictIsNative
<1>1. TypeInv /\ VerdictInv => VerdictIsNative
  <2>. SUFFICES ASSUME TypeInv, VerdictInv PROVE VerdictIsNative
    OBVIOUS
  <2>0. image \in Images /\ next \in Nat \ {0}
    BY DEF TypeInv, TypeOK
  <2>1. ImportsDecide /\ LinkerConcludes
    BY DEF VerdictInv, ImportsDecide, LinkerConcludes
  <2>2. ASSUME pc = "done", classification \in VisualBasic
        PROVE  /\ entry = EntryPoint
               /\ \E i \in ReadBefore(next) :
                    LibraryOf(i) \in DOMAIN Marker /\ Marker[LibraryOf(i)] = classification
               /\ ~WndProcEnabled(classification)
    <3>1. entry # NoEntry
      BY <2>2 DEF VerdictInv, VisualBasic, DotNet
    <3>2. entry = EntryPoint /\ classification = NativeVerdict
      BY <3>1 DEF VerdictInv
    <3>3. classification = ImportVerdict(next)
      BY <2>0, <2>2, <3>2, NativeKinds
    <3>4. ~WndProcEnabled(classification)
      BY <2>2 DEF WndProcEnabled, IsVisualBasic
    <3>. QED
      BY <2>0, <2>2, <3>2, <3>3, <3>4, VerdictKinds
  <2>3. VBAnalyzerHasInput
    BY <2>2 DEF VBAnalyzerHasInput, VBEnabled, IsVisualBasic
  <2>. QED
    BY <2>1, <2>3 DEF VerdictIsNative
<1>2. Init => TypeInv /\ VerdictInv
  BY TypeInit, VerdictInit
<1>3. TypeInv /\ VerdictInv /\ [Next]_vars => (TypeInv /\ VerdictInv)'
  BY TypeStep, VerdictStep
<1>. QED
  BY <1>1, <1>2, <1>3, PTL DEF Spec

-----------------------------------------------------------------------------
(* Where imports are bound.                                                *)

\* The slots of a table are told apart by division.
LEMMA SlotOfThunk ==
  ASSUME NEW n \in Nat, NEW i \in 1 .. n, NEW width \in Nat \ {0}
  PROVE  /\ (i - 1) * width \in Nat
         /\ (i - 1) * width < n * width
         /\ ((i - 1) * width) \div width = i - 1
<1>. DEFINE k == i - 1
<1>1. k \in Nat /\ k + 1 <= n
  OBVIOUS
<1>. HIDE DEF k
<1>2. k * width \in Nat
  BY <1>1
<1>3. k * width + width <= n * width
  <2>1. n - (k + 1) \in Nat
    BY <1>1
  <2>2. (n - (k + 1)) * width \in Nat
    BY <2>1
  <2>3. n * width = (n - (k + 1)) * width + (k * width + width)
    BY <1>1
  <2>. QED
    BY <1>2, <2>2, <2>3
<1>4. k * width < n * width
  <2>1. n * width \in Nat
    OBVIOUS
  <2>. QED
    BY <1>2, <1>3, <2>1
<1>5. (k * width) \div width = k
  BY <1>1
<1>. QED
  BY <1>2, <1>4, <1>5 DEF k

LEMMA SlotsStep == TypeInv /\ SlotsNameTheirThunk /\ [Next]_vars => SlotsNameTheirThunk'
<1>. SUFFICES ASSUME TypeInv, SlotsNameTheirThunk, [Next]_vars PROVE SlotsNameTheirThunk'
  OBVIOUS
<1>0. image' = image
  BY DEF Next, LoadSections, CheckDotNet, LoadDotNet, LoadExports, ReadDescriptor, EndImports, LoadTLS,
         LoadConfig, LoadExceptions, LoadSymbolTable, CheckDebugInfo, CheckResources, SetEntry,
         Display, vars
<1>1. ASSUME \A r \in symbols' : r \in symbols \/ r.call # "Imported"
      PROVE  SlotsNameTheirThunk'
  BY <1>0, <1>1 DEF SlotsNameTheirThunk
<1>2. CASE ReadDescriptor
  <2>. DEFINE d == image.imports.descriptors[next]
              Bound(r, e) == LET k == (r.address - ImageBase - e.ft) \div image.thunk
                             IN  /\ Covers(ImageBase + e.ft, Len(e.thunks) * image.thunk, r.address)
                                 /\ r.name = ThunkName(e.lib, e.thunks[k + 1])
  <2>1. next \in DOMAIN image.imports.descriptors /\ image \in Images
    <3>1. next <= Len(image.imports.descriptors) /\ image \in Images /\ next \in Nat \ {0}
      BY <1>2 DEF ReadDescriptor, MoreDescriptors, TypeInv, TypeOK
    <3>2. /\ DOMAIN image.imports.descriptors = 1 .. Len(image.imports.descriptors)
          /\ Len(image.imports.descriptors) \in Nat
      BY <3>1, FieldsAssumption
    <3>. QED
      BY <3>1, <3>2
  <2>2. ASSUME NEW r \in ImportRequests(d) PROVE Bound(r, d)
    <3>1. PICK i \in DOMAIN d.thunks :
            r = Request("Imported", ImageBase + d.ft + (i - 1) * image.thunk, ThunkName(d.lib, d.thunks[i]))
      BY DEF ImportRequests
    <3>2. /\ d.ft \in Nat /\ Len(d.thunks) \in Nat /\ i \in 1 .. Len(d.thunks)
          /\ ImageBase \in Nat /\ image.thunk \in Nat \ {0}
      BY <2>1, FieldsAssumption
    <3>. DEFINE slot == (i - 1) * image.thunk
                end  == Len(d.thunks) * image.thunk
    <3>3. slot \in Nat /\ slot < end /\ slot \div image.thunk = i - 1
      BY <3>2, SlotOfThunk
    <3>4. end \in Int
      <4>1. Len(d.thunks) \in Int /\ image.thunk \in Int
        BY <3>2
      <4>. HIDE DEF d
      <4>. QED
        BY <4>1
    <3>5. r.address = ImageBase + d.ft + slot /\ r.name = ThunkName(d.lib, d.thunks[i])
      BY <3>1 DEF Request
    <3>. HIDE DEF slot, d
    <3>6. r.address - ImageBase - d.ft = slot
      BY <3>2, <3>3, <3>5
    <3>. HIDE DEF end
    <3>7. Covers(ImageBase + d.ft, end, r.address)
      <4>1. ImageBase + d.ft <= ImageBase + d.ft + slot /\ ImageBase + d.ft + slot < ImageBase + d.ft + end
        BY <3>2, <3>3, <3>4
      <4>. QED
        BY <3>5, <4>1, Zenon DEF Covers
    <3>8. (i - 1) + 1 = i
      BY <3>2
    <3>. QED
      BY <3>3, <3>5, <3>6, <3>7, <3>8 DEF end
  <2>3. ASSUME NEW r \in symbols', r.call = "Imported"
        PROVE  \E i \in DOMAIN image.imports.descriptors : Bound(r, image.imports.descriptors[i])
    <3>1. r \in symbols \/ r \in ImportRequests(d)
      BY <1>2 DEF ReadDescriptor
    <3>2. CASE r \in symbols
      BY <2>3, <3>2 DEF SlotsNameTheirThunk
    <3>3. CASE r \in ImportRequests(d)
      BY <2>1, <2>2, <3>3
    <3>. QED
      BY <3>1, <3>2, <3>3
  <2>. QED
    BY <1>0, <2>3 DEF SlotsNameTheirThunk
<1>3. CASE LoadDotNet
  BY <1>1, <1>3 DEF LoadDotNet, Request
<1>4. CASE LoadExports
  BY <1>1, <1>4 DEF LoadExports, ExportRequest, Request
<1>5. CASE LoadTLS
  BY <1>1, <1>5 DEF LoadTLS, Request
<1>6. CASE LoadConfig
  BY <1>1, <1>6 DEF LoadConfig, Request
<1>7. CASE LoadExceptions
  BY <1>1, <1>7 DEF LoadExceptions, Request
<1>8. CASE LoadSymbolTable
  BY <1>1, <1>8 DEF LoadSymbolTable, Request
<1>9. CASE symbols' = symbols
  BY <1>1, <1>9
<1>. QED
  BY <1>2, <1>3, <1>4, <1>5, <1>6, <1>7, <1>8, <1>9
     DEF Next, LoadSections, CheckDotNet, EndImports, CheckDebugInfo, CheckResources, SetEntry,
         Display, vars, documentVars

\* Every import, of any table and any width of its thunks, is set at the slot
\* the system loader fills with the function it is named after.
THEOREM SlotsOfTheLoader == Spec => []SlotsNameTheirThunk
<1>1. Init => SlotsNameTheirThunk
  BY DEF Init, SlotsNameTheirThunk
<1>. QED
  BY <1>1, TypeInit, TypeStep, SlotsStep, PTL DEF Spec

-----------------------------------------------------------------------------
(***************************************************************************)
(* The .NET reader: the walk over the types reports the methods of every   *)
(* table of types.  What is left of the unsigned arithmetic of             *)
(* getListCount is in ListInWidth.                                         *)
(***************************************************************************)

\* A remainder that is none, and one that wraps once.
LEMMA Remainders ==
  ASSUME NEW r \in Nat \ {0}
  PROVE  /\ \A x \in 0 .. r - 1 : x % r = x
         /\ \A x \in -r .. -1 : x % r = x + r
<1>1. \A x \in 0 .. r - 1 : x % r = x
  OBVIOUS
<1>2. ASSUME NEW x \in -r .. -1 PROVE x % r = x + r
  <2>1. x + r \in 0 .. r - 1
    OBVIOUS
  <2>2. x % r \in 0 .. r - 1 /\ x = r * (x \div r) + (x % r) /\ x \div r \in Int
    OBVIOUS
  <2>3. r * (x \div r) = x - (x % r)
    BY <2>2
  <2>. QED
    BY <2>1, <2>2, <2>3
<1>. QED
  BY <1>1, <1>2

LEMMA LeastOfTwo ==
  ASSUME NEW a \in Nat, NEW b \in Nat
  PROVE  Min({a, b}) = IF a <= b THEN a ELSE b
<1>1. Min({a, b}) \in {a, b} /\ \A y \in {a, b} : Min({a, b}) <= y
  BY MinIsLeast, {a, b} \in SUBSET Int, 0 \in Int, \A y \in {a, b} : 0 <= y
<1>. QED
  BY <1>1

\* The methods getListCount and iterateMethods take for a type whose methods
\* begin with first and whose successor's begin with after: those in between,
\* but for the last two of the table.
LEMMA ListInWidth ==
  ASSUME NEW total \in Nat, NEW width \in Nat, total + 2 < width,
         NEW first \in 1 .. total + 1, NEW after \in first .. total + 1, NEW whole \in BOOLEAN,
         NEW last \in Nat, last = IF whole \/ total <= after + 1 THEN total ELSE after + 1,
         NEW count \in Nat, count = IF last >= first + 1 THEN last - (first + 1) ELSE last - (first + 1) + width,
         NEW taken \in Nat, taken = IF count <= total - (first - 1) THEN count ELSE total - (first - 1),
         NEW m \in 1 .. total - 2
  PROVE  m <= first - 1 + taken /\ first <= m <=> first <= m /\ (whole \/ m < after)
<1>1. CASE last >= first + 1
  <2>1. count = last - (first + 1)
    BY <1>1
  <2>2. count <= total - (first - 1)
    BY <2>1
  <2>3. taken = last - (first + 1)
    BY <2>1, <2>2
  <2>4. CASE whole \/ total <= after + 1
    BY <2>3, <2>4
  <2>5. CASE ~(whole \/ total <= after + 1)
    BY <2>3, <2>5
  <2>. QED
    BY <2>4, <2>5
<1>2. CASE last < first + 1
  <2>1. total < first + 1
    BY <1>2
  <2>. QED
    BY <2>1
<1>. QED
  BY <1>1, <1>2

-----------------------------------------------------------------------------
(* Types and their methods.                                                *)

\* The types were read where they are, and there are methods.
WellRead ==
  /\ metadata \in ManagedImages /\ lists = metadata.lists /\ "MethodDef" \in read
  /\ Walkable /\ Present("TypeDef") /\ Present("MethodDef")

LEMMA ListsOfTypes ==
  ASSUME WellRead
  PROVE  /\ Methods \in Nat /\ U32Range \in Nat \ {0} /\ Methods + 2 < U32Range
         /\ Len(lists) \in Nat \ {0} /\ DOMAIN lists = 1 .. Len(lists)
         /\ \A i \in DOMAIN lists : lists[i] \in 1 .. Methods + 1
         /\ lists[1] = 1
         /\ \A i, k \in DOMAIN lists : i <= k => lists[i] <= lists[k]
<1>1. Methods = metadata.rows["MethodDef"]
  BY DEF WellRead, Methods, Rows
<1>2. /\ {"TypeDef", "MethodDef"} \subseteq DOMAIN metadata.rows
      /\ metadata.rows["TypeDef"] <= MaxRows /\ metadata.rows["MethodDef"] <= MaxRows
  BY DEF WellRead, Walkable, Rows, Present
<1>3. Methods \in Nat /\ U32Range \in Nat \ {0} /\ Methods + 2 < U32Range
  BY <1>1, <1>2, U32RangeAssumption DEF WellRead
<1>4. /\ lists \in Seq(1 .. Methods + 1)
      /\ lists # <<>> /\ lists[1] = 1
      /\ \A k, n \in DOMAIN lists : k <= n => lists[k] <= lists[n]
  BY <1>1, <1>2, ListsAssumption, Zenon DEF WellRead
<1>5. Len(lists) \in Nat \ {0} /\ DOMAIN lists = 1 .. Len(lists)
  BY <1>4, LenProperties, EmptySeq
<1>6. \A i \in DOMAIN lists : lists[i] \in 1 .. Methods + 1
  BY <1>4, <1>5, ElementOfSeq
<1>. QED
  BY <1>3, <1>4, <1>5, <1>6

LEMMA FunctionIsSeq ==
  ASSUME NEW S, NEW n \in Nat, NEW f \in [1 .. n -> S]
  PROVE  f \in Seq(S)
  OBVIOUS

\* Between which lists a method is.
Begins(i, m) == lists[i] <= m /\ (i = Len(lists) \/ m < lists[i + 1])

LEMMA OneOwner ==
  ASSUME WellRead, NEW m \in 1 .. Methods
  PROVE  /\ Owner(m) \in DOMAIN lists
         /\ \A i \in DOMAIN lists : Begins(i, m) <=> Owner(m) = i
<1>. DEFINE T == { i \in DOMAIN lists : lists[i] <= m }
            L == Len(lists)
<1>1. /\ L \in Nat \ {0} /\ DOMAIN lists = 1 .. L /\ lists[1] = 1
      /\ Methods \in Nat /\ \A i \in 1 .. L : lists[i] \in Nat
      /\ \A i, k \in 1 .. L : i <= k => lists[i] <= lists[k]
  <2>1. /\ L \in Nat \ {0} /\ DOMAIN lists = 1 .. L /\ lists[1] = 1 /\ Methods \in Nat
        /\ \A i \in DOMAIN lists : lists[i] \in 1 .. Methods + 1
        /\ \A i, k \in DOMAIN lists : i <= k => lists[i] <= lists[k]
    BY ListsOfTypes, Zenon
  <2>. HIDE DEF L
  <2>. QED
    BY <2>1
<1>. HIDE DEF L
<1>2. T \in SUBSET Int /\ 1 \in T /\ \A i \in T : i <= L
  BY <1>1
<1>3. Max(T) \in T /\ \A i \in T : i <= Max(T)
  <2>. HIDE DEF T
  <2>1. T # {} /\ L \in Int /\ T \in SUBSET Int /\ \A i \in T : i <= L
    BY <1>1, <1>2
  <2>. QED
    BY <2>1, MaxIsGreatest, Zenon
<1>4. Max(T) \in 1 .. L
  BY <1>1, <1>3
<1>5. Begins(Max(T), m)
  <2>1. CASE Max(T) = L
    BY <1>3, <2>1 DEF Begins, L
  <2>2. CASE Max(T) # L
    <3>1. Max(T) + 1 \in 1 .. L /\ ~(Max(T) + 1 <= Max(T))
      BY <1>1, <1>4, <2>2
    <3>2. Max(T) + 1 \notin T
      BY <1>3, <3>1, Zenon
    <3>3. ~(lists[Max(T) + 1] <= m)
      BY <1>1, <3>1, <3>2
    <3>4. m < lists[Max(T) + 1]
      BY <1>1, <3>1, <3>3
    <3>. QED
      BY <1>3, <3>4 DEF Begins
  <2>. QED
    BY <2>1, <2>2
<1>6. ASSUME NEW i \in 1 .. L, NEW k \in 1 .. L, Begins(i, m), Begins(k, m), i < k
      PROVE  FALSE
  <2>1. i # L /\ i + 1 \in 1 .. L /\ i + 1 <= k
    BY <1>1, <1>6
  <2>2. m < lists[i + 1] /\ lists[k] <= m
    BY <1>6, <2>1 DEF Begins, L
  <2>3. lists[i + 1] <= lists[k]
    BY <1>1, <2>1
  <2>. QED
    BY <1>1, <2>1, <2>2, <2>3
<1>7. \A i, k \in 1 .. L : Begins(i, m) /\ Begins(k, m) => i = k
  <2>. SUFFICES ASSUME NEW i \in 1 .. L, NEW k \in 1 .. L, Begins(i, m), Begins(k, m), i # k
                PROVE  FALSE
    OBVIOUS
  <2>1. i < k \/ k < i
    OBVIOUS
  <2>. QED
    BY <1>6, <2>1
<1>8. Owner(m) = CHOOSE i \in DOMAIN lists : Begins(i, m)
  <2>1. \A i \in DOMAIN lists :
          (lists[i] <= m /\ (i < Len(lists) => m < lists[i + 1])) <=> Begins(i, m)
    <3>. TAKE i \in DOMAIN lists
    <3>1. i < Len(lists) <=> i # Len(lists)
      BY <1>1 DEF L
    <3>. QED
      BY <3>1, Zenon DEF Begins
  <2>. QED
    BY <2>1, Zenon DEF Owner, WellRead
<1>9. Owner(m) \in DOMAIN lists /\ Begins(Owner(m), m)
  BY <1>1, <1>4, <1>5, <1>8, Zenon
<1>. QED
  BY <1>1, <1>7, <1>9, Zenon

LEMMA DifferenceStays ==
  ASSUME NEW a \in Nat, NEW b \in Nat, NEW m \in Nat, NEW r \in Nat, a <= m, m < r, a >= b
  PROVE  a - b \in 0 .. r - 1
OBVIOUS

LEMMA DifferenceWraps ==
  ASSUME NEW a \in Nat, NEW b \in Nat, NEW r \in Nat, b <= r, ~(a >= b)
  PROVE  a - b \in -r .. -1
OBVIOUS

LEMMA TypeReports ==
  ASSUME WellRead, NEW i \in DOMAIN lists
  PROVE  /\ First(i) \in Nat /\ First(i) <= Methods
         /\ MethodsOf(i) \in Seq(Nat \X Nat)
         /\ \A k \in DOMAIN MethodsOf(i) : MethodsOf(i)[k] = <<i, First(i) + k>>
         /\ \A m \in 1 .. Methods - 2 :
              (\E k \in DOMAIN MethodsOf(i) : First(i) + k = m) <=> Owner(m) = i
<1>. DEFINE L == Len(lists)
            first == lists[i]
            after == IF i = L THEN Methods + 1 ELSE lists[i + 1]
            whole == i = L
            last == IF i < L THEN Min({Methods, (lists[i + 1] + 1) % U32Range}) ELSE Methods
            taken == Min({ListCount(i), Methods - First(i)})
<1>1. /\ L \in Nat \ {0} /\ DOMAIN lists = 1 .. L
      /\ Methods \in Nat /\ U32Range \in Nat \ {0} /\ Methods + 2 < U32Range
      /\ \A k \in 1 .. L : lists[k] \in 1 .. Methods + 1
      /\ \A j, k \in 1 .. L : j <= k => lists[j] <= lists[k]
  BY ListsOfTypes
<1>2. \A x \in 0 .. U32Range - 1 : x % U32Range = x
  BY <1>1, Remainders
<1>3. \A x \in -U32Range .. -1 : x % U32Range = x + U32Range
  BY <1>1, Remainders
<1>4. i \in 1 .. L /\ first \in 1 .. Methods + 1 /\ whole \in BOOLEAN
      /\ (i < L => i + 1 \in 1 .. L /\ lists[i + 1] \in first .. Methods + 1)
      /\ (i < L <=> ~whole)
  BY <1>1
<1>5. after \in first .. Methods + 1
  BY <1>1, <1>4
<1>. HIDE DEF L
<1>6. First(i) = first - 1
  <2>1. first - 1 \in 0 .. U32Range - 1
    BY <1>1, <1>4
  <2>. QED
    BY <1>2, <2>1, Zenon DEF First
<1>7. last \in Nat /\ last = IF whole \/ Methods <= after + 1 THEN Methods ELSE after + 1
  <2>1. CASE i < L
    <3>1. lists[i + 1] + 1 \in 0 .. U32Range - 1 /\ lists[i + 1] + 1 \in Nat
      BY <1>1, <1>4, <2>1
    <3>2. (lists[i + 1] + 1) % U32Range = lists[i + 1] + 1
      BY <1>2, <3>1, Zenon
    <3>3. last = IF Methods <= lists[i + 1] + 1 THEN Methods ELSE lists[i + 1] + 1
      <4>. DEFINE behind == lists[i + 1] + 1
      <4>1. last = Min({Methods, behind})
        BY <2>1, <3>2, Zenon
      <4>. HIDE DEF behind
      <4>2. Min({Methods, behind}) = IF Methods <= behind THEN Methods ELSE behind
        BY <1>1, <3>1, LeastOfTwo DEF behind
      <4>. QED
        BY <4>1, <4>2, Zenon DEF behind
    <3>. QED
      BY <1>1, <1>4, <2>1, <3>1, <3>3
  <2>2. CASE ~(i < L)
    BY <1>1, <1>4, <2>2
  <2>. QED
    BY <2>1, <2>2
<1>8. ListCount(i) = (last - (first + 1)) % U32Range
  <2>1. first + 1 \in 0 .. U32Range - 1
    BY <1>1, <1>4
  <2>2. (first + 1) % U32Range = first + 1
    BY <1>2, <2>1, Zenon
  <2>. QED
    BY <2>2, Zenon DEF ListCount, L
<1>. HIDE DEF last, after, whole, first
<1>9. ListCount(i) \in Nat
      /\ ListCount(i) = IF last >= first + 1 THEN last - (first + 1) ELSE last - (first + 1) + U32Range
  <2>1. last <= Methods
    BY <1>1, <1>5, <1>7
  <2>2. /\ last \in Nat /\ first + 1 \in Nat /\ Methods \in Nat /\ U32Range \in Nat
        /\ Methods < U32Range /\ first + 1 <= U32Range
    <3>1. last \in Nat
      BY <1>7, Zenon
    <3>2. Methods \in Nat /\ U32Range \in Nat /\ Methods + 2 < U32Range
      BY <1>1, Zenon
    <3>3. first \in 1 .. Methods + 1
      BY <1>4, Zenon
    <3>. QED
      BY <3>1, <3>2, <3>3
  <2>3. CASE last >= first + 1
    <3>1. last - (first + 1) \in 0 .. U32Range - 1
      BY <2>1, <2>2, <2>3, DifferenceStays, Zenon
    <3>2. ListCount(i) = last - (first + 1)
      BY <1>2, <1>8, <3>1, Zenon
    <3>. QED
      BY <2>2, <2>3, <3>1, <3>2
  <2>4. CASE ~(last >= first + 1)
    <3>1. last - (first + 1) \in -U32Range .. -1
      BY <2>2, <2>4, DifferenceWraps, Zenon
    <3>2. ListCount(i) = last - (first + 1) + U32Range
      BY <1>3, <1>8, <3>1, Zenon
    <3>3. ListCount(i) \in Nat
      BY <2>2, <3>1, <3>2
    <3>. QED
      BY <2>4, <3>2, <3>3, Zenon
  <2>. QED
    BY <2>3, <2>4
<1>10. Methods - First(i) \in Nat /\ Methods - First(i) = Methods - (first - 1)
  BY <1>1, <1>4, <1>6
<1>11. /\ taken \in Nat
       /\ taken = IF ListCount(i) <= Methods - (first - 1) THEN ListCount(i) ELSE Methods - (first - 1)
  <2>1. taken = IF ListCount(i) <= Methods - First(i) THEN ListCount(i) ELSE Methods - First(i)
    BY <1>9, <1>10, LeastOfTwo, Zenon
  <2>. QED
    BY <1>9, <1>10, <2>1
<1>. DEFINE count == ListCount(i)
<1>12. MethodsOf(i) = [ k \in 1 .. taken |-> <<i, First(i) + k>> ]
  BY DEF MethodsOf
<1>. HIDE DEF taken, count
<1>13. First(i) \in Nat /\ First(i) <= Methods
  BY <1>1, <1>4, <1>6
<1>14. MethodsOf(i) \in Seq(Nat \X Nat) /\ DOMAIN MethodsOf(i) = 1 .. taken
  <2>1. \A k \in 1 .. taken : <<i, First(i) + k>> \in Nat \X Nat
    BY <1>4, <1>11, <1>13
  <2>2. MethodsOf(i) \in [1 .. taken -> Nat \X Nat]
    BY <1>12, <2>1
  <2>. QED
    BY <1>11, <1>12, <2>2, FunctionIsSeq, Zenon
<1>15. ASSUME NEW m \in 1 .. Methods - 2
       PROVE  (\E k \in DOMAIN MethodsOf(i) : First(i) + k = m) <=> Owner(m) = i
  <2>1. (m <= first - 1 + taken /\ first <= m) <=> (first <= m /\ (whole \/ m < after))
    BY <1>1, <1>4, <1>5, <1>7, <1>9, <1>11, ListInWidth
  <2>2. m \in 1 .. Methods
    BY <1>1
  <2>3. (first <= m /\ (whole \/ m < after)) <=> Owner(m) = i
    <3>1. (first <= m /\ (whole \/ m < after)) <=> Begins(i, m)
      BY DEF Begins, first, after, whole, L
    <3>. QED
      BY <2>2, <3>1, OneOwner
  <2>4. (\E k \in 1 .. taken : First(i) + k = m) <=> (m <= first - 1 + taken /\ first <= m)
    <3>1. (m <= first - 1 + taken /\ first <= m) => m - First(i) \in 1 .. taken /\ First(i) + (m - First(i)) = m
      BY <1>1, <1>4, <1>6, <1>11
    <3>2. \A k \in 1 .. taken : First(i) + k = m => m <= first - 1 + taken /\ first <= m
      BY <1>1, <1>4, <1>6, <1>11
    <3>. QED
      BY <3>1, <3>2
  <2>. QED
    BY <1>14, <2>1, <2>3, <2>4
<1>. QED
  BY <1>12, <1>13, <1>14, <1>15

-----------------------------------------------------------------------------
(* The walk.                                                               *)

\* Of the methods of the types walked by now each is reported once, under its
\* type, and none of another type.
ReportedOnce(rep, n) ==
  /\ rep \in Seq(Nat \X Nat)
  /\ \A m \in 1 .. Methods - 2 :
       /\ \A j \in DOMAIN rep : rep[j][2] = m => rep[j] = <<Owner(m), m>> /\ Owner(m) < n
       /\ \A j, k \in DOMAIN rep : rep[j][2] = m /\ rep[k][2] = m => j = k
       /\ Owner(m) < n => \E j \in DOMAIN rep : rep[j][2] = m

ReaderInv ==
  /\ metadata \in ManagedImages
  /\ stage = "tables" => type = 1 /\ reported = <<>>
  /\ type \in Nat \ {0}
  /\ (stage # "tables" /\ WellRead) => ReportedOnce(reported, type)
  /\ stage = "done" =>
       Walkable /\ Present("TypeDef") /\ Present("MethodDef") /\ type > Len(lists)
  /\ stage = "undefined" =>
       /\ Walkable /\ Present("MethodDef")
       /\ type <= Len(lists) /\ (First(type) > Methods \/ ~metadata.strings)

LEMMA NothingReported ==
  ASSUME WellRead PROVE ReportedOnce(<<>>, 1)
<1>1. \A m \in 1 .. Methods - 2 : Owner(m) \in Nat \ {0}
  <2>1. Methods \in Nat /\ \A m \in 1 .. Methods - 2 : m \in 1 .. Methods
    BY ListsOfTypes
  <2>. QED
    BY <2>1, ListsOfTypes, OneOwner
<1>2. <<>> \in Seq(Nat \X Nat) /\ DOMAIN <<>> = {}
  OBVIOUS
<1>. QED
  BY <1>1, <1>2 DEF ReportedOnce

\* One more type.
LEMMA OneMoreType ==
  ASSUME WellRead, NEW i \in DOMAIN lists, NEW rep, ReportedOnce(rep, i)
  PROVE  ReportedOnce(rep \o MethodsOf(i), i + 1)
<1>. DEFINE more == MethodsOf(i)
            all == rep \o more
            a == Len(rep)
            b == Len(more)
<1>1. /\ First(i) \in Nat
      /\ more \in Seq(Nat \X Nat)
      /\ \A k \in DOMAIN more : more[k] = <<i, First(i) + k>>
      /\ \A m \in 1 .. Methods - 2 : (\E k \in DOMAIN more : First(i) + k = m) <=> Owner(m) = i
  BY TypeReports, Zenon
<1>2. i \in Nat \ {0} /\ Methods \in Nat /\ \A m \in 1 .. Methods - 2 : Owner(m) \in Nat
  <2>1. Methods \in Nat /\ \A m \in 1 .. Methods - 2 : m \in 1 .. Methods
    BY ListsOfTypes
  <2>2. Len(lists) \in Nat /\ DOMAIN lists = 1 .. Len(lists)
    BY ListsOfTypes
  <2>3. \A m \in 1 .. Methods - 2 : Owner(m) \in DOMAIN lists
    BY <2>1, OneOwner
  <2>. QED
    BY <2>1, <2>2, <2>3
<1>3. rep \in Seq(Nat \X Nat)
  BY DEF ReportedOnce
<1>. HIDE DEF more
<1>4. /\ a \in Nat /\ b \in Nat /\ DOMAIN rep = 1 .. a /\ DOMAIN more = 1 .. b
  BY <1>1, <1>3, LenProperties
<1>5. /\ all \in Seq(Nat \X Nat) /\ Len(all) = a + b
      /\ \A j \in 1 .. a + b : all[j] = IF j <= a THEN rep[j] ELSE more[j - a]
  BY <1>1, <1>3, ConcatProperties
<1>6. DOMAIN all = 1 .. a + b
  BY <1>5, LenProperties
<1>. HIDE DEF all, a, b
<1>7. \A j \in 1 .. a + b : j <= a => j \in 1 .. a /\ all[j] = rep[j]
  BY <1>4, <1>5
<1>8. \A j \in 1 .. a + b : ~(j <= a) => j - a \in 1 .. b /\ all[j] = <<i, First(i) + (j - a)>>
  <2>. SUFFICES ASSUME NEW j \in 1 .. a + b, ~(j <= a)
                PROVE  j - a \in 1 .. b /\ all[j] = <<i, First(i) + (j - a)>>
    OBVIOUS
  <2>1. j - a \in 1 .. b
    BY <1>4
  <2>2. all[j] = more[j - a]
    BY <1>5
  <2>. QED
    BY <1>1, <1>4, <2>1, <2>2, Zenon
<1>9. ASSUME NEW m \in 1 .. Methods - 2
      PROVE  /\ \A j \in 1 .. a + b : all[j][2] = m => all[j] = <<Owner(m), m>> /\ Owner(m) < i + 1
             /\ \A j, k \in 1 .. a + b : all[j][2] = m /\ all[k][2] = m => j = k
             /\ Owner(m) < i + 1 => \E j \in 1 .. a + b : all[j][2] = m
  <2>1. /\ \A j \in 1 .. a : rep[j][2] = m => rep[j] = <<Owner(m), m>> /\ Owner(m) < i
        /\ \A j, k \in 1 .. a : rep[j][2] = m /\ rep[k][2] = m => j = k
        /\ Owner(m) < i => \E j \in 1 .. a : rep[j][2] = m
    BY <1>4 DEF ReportedOnce
  <2>2. (\E k \in 1 .. b : First(i) + k = m) <=> Owner(m) = i
    BY <1>1, <1>4
  <2>3. Owner(m) \in Nat /\ i \in Nat
    BY <1>2
  <2>4. ASSUME NEW j \in 1 .. a + b, all[j][2] = m
        PROVE  all[j] = <<Owner(m), m>> /\ (IF j <= a THEN Owner(m) < i ELSE Owner(m) = i)
    <3>1. CASE j <= a
      BY <1>7, <2>1, <2>4, <3>1
    <3>2. CASE ~(j <= a)
      <4>1. j - a \in 1 .. b /\ all[j] = <<i, First(i) + (j - a)>>
        BY <1>8, <3>2
      <4>2. First(i) + (j - a) = m
        BY <2>4, <4>1
      <4>3. Owner(m) = i
        BY <2>2, <4>1, <4>2
      <4>. QED
        BY <3>2, <4>1, <4>2, <4>3
    <3>. QED
      BY <3>1, <3>2
  <2>5. ASSUME NEW j \in 1 .. a + b, NEW k \in 1 .. a + b, all[j][2] = m, all[k][2] = m
        PROVE  j = k
    <3>1. CASE j <= a /\ k <= a
      BY <1>7, <2>1, <2>5, <3>1
    <3>2. CASE ~(j <= a) /\ ~(k <= a)
      <4>1. First(i) + (j - a) = m /\ First(i) + (k - a) = m
        BY <1>8, <2>5, <3>2
      <4>. QED
        BY <1>1, <1>4, <4>1
    <3>3. CASE (j <= a) # (k <= a)
      <4>1. Owner(m) < i /\ Owner(m) = i
        BY <2>4, <2>5, <3>3
      <4>. QED
        BY <2>3, <4>1
    <3>. QED
      BY <3>1, <3>2, <3>3
  <2>6. ASSUME Owner(m) < i + 1
        PROVE  \E j \in 1 .. a + b : all[j][2] = m
    <3>1. CASE Owner(m) < i
      <4>1. PICK j \in 1 .. a : rep[j][2] = m
        BY <2>1, <3>1
      <4>2. j \in 1 .. a + b /\ all[j] = rep[j]
        BY <1>4, <1>7
      <4>. QED
        BY <4>1, <4>2
    <3>2. CASE Owner(m) = i
      <4>1. PICK k \in 1 .. b : First(i) + k = m
        BY <2>2, <3>2
      <4>2. a + k \in 1 .. a + b /\ ~(a + k <= a) /\ (a + k) - a = k
        BY <1>4
      <4>3. all[a + k] = <<i, First(i) + k>>
        BY <1>8, <4>2, Zenon
      <4>. QED
        BY <4>1, <4>2, <4>3
    <3>. QED
      BY <2>3, <2>6, <3>1, <3>2
  <2>7. \A j \in 1 .. a + b : all[j][2] = m => all[j] = <<Owner(m), m>> /\ Owner(m) < i + 1
    BY <2>3, <2>4
  <2>. QED
    BY <2>5, <2>6, <2>7
<1>. QED
  BY <1>5, <1>6, <1>9 DEF ReportedOnce, all, more

LEMMA ReaderInvInit == ReaderInit => ReaderInv
  BY DEF ReaderInit, ReaderInv

\* What is kept as long as nothing more is read.
LEMMA ReadStays ==
  ASSUME UNCHANGED <<metadata, read, lists>>
  PROVE  /\ WellRead' <=> WellRead
         /\ \A rep, n : ReportedOnce(rep, n)' <=> ReportedOnce(rep, n)
         /\ Walkable' <=> Walkable
         /\ \A t : Present(t)' <=> Present(t)
         /\ Methods' = Methods
         /\ \A i : First(i)' = First(i)
<1>1. Methods' = Methods /\ \A m : Owner(m)' = Owner(m)
  BY DEF Methods, Rows, Present, Owner
<1>2. (Walkable' <=> Walkable) /\ \A t : Present(t)' <=> Present(t)
  BY DEF Walkable, Rows, Present
<1>3. WellRead' <=> WellRead
  BY <1>2 DEF WellRead
<1>4. \A i : First(i)' = First(i)
  BY DEF First
<1>5. \A rep, n : ReportedOnce(rep, n)' <=> ReportedOnce(rep, n)
  <2>1. TAKE rep, n
  <2>2. 1 .. Methods' - 2 = 1 .. Methods - 2
    BY <1>1, Zenon
  <2>. QED
    BY <1>1, <2>2, Zenon DEF ReportedOnce
<1>. QED
  BY <1>1, <1>2, <1>3, <1>4, <1>5, Zenon

LEMMA ReaderStep == ReaderInv /\ [ReaderNext]_readerVars => ReaderInv'
<1>. SUFFICES ASSUME ReaderInv, [ReaderNext]_readerVars PROVE ReaderInv'
  OBVIOUS
<1>1. CASE ReadTable
  BY <1>1 DEF ReaderInv, ReadTable
<1>. DEFINE Kept == UNCHANGED <<metadata, read, lists>>
<1>2. CASE EndTables
  <2>1. Kept /\ stage = "tables" /\ stage' = "types" /\ reported' = <<>> /\ type' = 1
    BY <1>2 DEF EndTables, ReaderInv
  <2>2. WellRead => ReportedOnce(reported', type')
    BY <2>1, NothingReported
  <2>. QED
    BY <2>1, <2>2, ReadStays DEF ReaderInv
<1>3. CASE TablesMissing
  <2>1. Kept /\ stage' = "threw" /\ stage = "types" /\ UNCHANGED <<reported, type>>
    BY <1>3 DEF TablesMissing
  <2>. QED
    BY <2>1, ReadStays DEF ReaderInv
<1>4. CASE WalkType
  <2>1. /\ Kept /\ stage = "types" /\ stage' = stage
        /\ type <= Len(lists) /\ reported' = reported \o MethodsOf(type) /\ type' = type + 1
    BY <1>4 DEF WalkType
  <2>2. type' \in Nat \ {0}
    BY <2>1 DEF ReaderInv
  <2>3. ASSUME WellRead PROVE ReportedOnce(reported', type')
    <3>1. type \in DOMAIN lists
      BY <2>1, <2>3, ListsOfTypes DEF ReaderInv
    <3>2. ReportedOnce(reported, type)
      BY <2>1, <2>3 DEF ReaderInv
    <3>3. ReportedOnce(reported \o MethodsOf(type), type + 1)
      BY <2>3, <3>1, <3>2, OneMoreType, Zenon
    <3>. QED
      BY <2>1, <3>3
  <2>. QED
    BY <2>1, <2>2, <2>3, ReadStays DEF ReaderInv
<1>5. CASE WalkAstray
  <2>1. /\ Kept /\ stage = "types" /\ stage' = "undefined" /\ UNCHANGED <<reported, type>>
        /\ Walkable /\ Present("MethodDef") /\ type <= Len(lists)
        /\ First(type) > Methods \/ ~metadata.strings
    BY <1>5 DEF WalkAstray
  <2>. QED
    BY <2>1, ReadStays DEF ReaderInv
<1>6. CASE EndTypes
  <2>1. /\ Kept /\ stage = "types" /\ stage' = "done" /\ UNCHANGED <<reported, type>>
        /\ Walkable /\ Present("TypeDef") /\ Present("MethodDef") /\ type > Len(lists)
    BY <1>6 DEF EndTypes
  <2>. QED
    BY <2>1, ReadStays DEF ReaderInv
<1>7. CASE UNCHANGED readerVars
  <2>1. Kept /\ UNCHANGED <<stage, reported, type>>
    BY <1>7 DEF readerVars
  <2>. QED
    BY <2>1, ReadStays DEF ReaderInv
<1>. QED
  BY <1>1, <1>2, <1>3, <1>4, <1>5, <1>6, <1>7 DEF ReaderNext

\* What the walk has reported when it has come to its end.
LEMMA InvReported == ReaderInv => MethodsReported
<1>. SUFFICES ASSUME ReaderInv PROVE MethodsReported
  OBVIOUS
<1>1. ASSUME stage = "done", lists = metadata.lists, "MethodDef" \in read,
             NEW m \in 1 .. Methods - 2
      PROVE  /\ { reported[k] : k \in { j \in DOMAIN reported : reported[j][2] = m } } = { <<Owner(m), m>> }
             /\ Cardinality({ j \in DOMAIN reported : reported[j][2] = m }) = 1
  <2>1. WellRead /\ ReportedOnce(reported, type) /\ type > Len(lists) /\ type \in Nat
    BY <1>1 DEF ReaderInv, WellRead
  <2>2. Owner(m) < type
    <3>1. Methods \in Nat /\ Len(lists) \in Nat /\ DOMAIN lists = 1 .. Len(lists)
      BY <2>1, ListsOfTypes
    <3>2. Owner(m) \in 1 .. Len(lists)
      <4>1. m \in 1 .. Methods
        BY <3>1
      <4>. QED
        BY <2>1, <3>1, <4>1, OneOwner
    <3>. QED
      BY <2>1, <3>1, <3>2
  <2>3. PICK j \in DOMAIN reported : reported[j][2] = m
    BY <1>1, <2>1, <2>2 DEF ReportedOnce
  <2>4. { k \in DOMAIN reported : reported[k][2] = m } = {j}
    BY <1>1, <2>1, <2>3 DEF ReportedOnce
  <2>5. reported[j] = <<Owner(m), m>>
    BY <1>1, <2>1, <2>3 DEF ReportedOnce
  <2>6. Cardinality({j}) = 1
    BY FS_Singleton
  <2>. QED
    BY <2>4, <2>5, <2>6, Zenon
<1>2. ASSUME stage = "undefined", lists = metadata.lists, "MethodDef" \in read
      PROVE  ~metadata.strings
  <2>1. /\ Walkable /\ Present("MethodDef") /\ type <= Len(lists)
        /\ type \in Nat \ {0} /\ metadata \in ManagedImages
        /\ First(type) > Methods \/ ~metadata.strings
    BY <1>2 DEF ReaderInv
  <2>2. Present("TypeDef")
    <3>1. Len(<<>>) = 0 /\ ~(type <= 0)
      BY <2>1
    <3>2. lists # <<>>
      BY <2>1, <3>1
    <3>. QED
      BY <1>2, <2>1, <3>2, ListsAssumption DEF Present
  <2>3. WellRead
    BY <1>2, <2>1, <2>2 DEF WellRead
  <2>4. type \in DOMAIN lists /\ Methods \in Nat
    BY <2>1, <2>3, ListsOfTypes
  <2>5. First(type) \in Nat /\ First(type) <= Methods
    BY <2>3, <2>4, TypeReports, Zenon
  <2>. QED
    BY <2>1, <2>4, <2>5
<1>. QED
  BY <1>1, <1>2, Zenon DEF MethodsReported, MethodsOfTheirTypes, AstrayOnlyIfMisread

\* DotNetReader::iterateTypes: a type table that was read in place has each
\* method, but the last two of the method table, reported once and under its
\* own type, and the walk stays within the methods.
THEOREM ReportsTheMethods == ReaderSpec => []MethodsReported
<1>1. ReaderInit => ReaderInv
  BY ReaderInvInit
<1>2. ReaderInv /\ [ReaderNext]_readerVars => ReaderInv'
  BY ReaderStep
<1>3. ReaderInv => MethodsReported
  BY InvReported
<1>. QED
  BY <1>1, <1>2, <1>3, PTL DEF ReaderSpec

-----------------------------------------------------------------------------
(***************************************************************************)
(* The .NET tables: every row that is not misjudged is as long as the      *)
(* format says, column by column, so that the cursor is where the next     *)
(* table begins.                                                           *)
(***************************************************************************)

\* What a column may be.
IsColumn(c) ==
  \/ c.kind = "fixed" /\ c.size \in Nat
  \/ c.kind = "heap"
  \/ c.kind = "index"
  \/ c.kind = "tagged" /\ c.values \in {2, 4, 8, 32}

\* The columns of a row.
IsRow(row) ==
  Len(row) \in Nat /\ DOMAIN row = 1 .. Len(row) /\ \A k \in DOMAIN row : IsColumn(row[k])

\* What the columns of all tables are made of.
LEMMA ColumnKinds ==
  /\ IsColumn(U16) /\ IsColumn(U32) /\ IsColumn(StringIdx) /\ IsColumn(GuidIdx) /\ IsColumn(BlobIdx)
  /\ IsColumn(TypeDefOrRef) /\ IsColumn(Implementation) /\ IsColumn(MethodOrRef)
  /\ \A t : IsColumn(Index(t))
  /\ \A s : IsColumn(Tagged(1, s)) /\ IsColumn(Tagged(2, s)) /\ IsColumn(Tagged(3, s)) /\ IsColumn(Tagged(5, s))
BY SMT DEF IsColumn, U16, U32, StringIdx, GuidIdx, BlobIdx, TypeDefOrRef, Implementation, MethodOrRef,
           Index, Tagged, Fixed, Heap

\* The rows of the dispatcher's tables, as initTables lists them.
LEMMA TypeRows == \A t \in DOMAIN TypeColumns : IsRow(TypeColumns[t])
<1>1. DOMAIN TypeColumns = {"Module", "TypeRef", "TypeDef", "FieldDef", "MethodDef", "ParamDef",
      "InterfaceImpl", "MemberRef", "Constant", "CustomAttribute"}
  BY SMT DEF TypeColumns
<1>2. /\ IsRow(TypeColumns["Module"])
      /\ IsRow(TypeColumns["TypeRef"])
      /\ IsRow(TypeColumns["TypeDef"])
      /\ IsRow(TypeColumns["FieldDef"])
      /\ IsRow(TypeColumns["MethodDef"])
  BY ColumnKinds, SMT DEF IsRow, TypeColumns
<1>3. /\ IsRow(TypeColumns["ParamDef"])
      /\ IsRow(TypeColumns["InterfaceImpl"])
      /\ IsRow(TypeColumns["MemberRef"])
      /\ IsRow(TypeColumns["Constant"])
      /\ IsRow(TypeColumns["CustomAttribute"])
  BY ColumnKinds, SMT DEF IsRow, TypeColumns
<1>. QED
  BY <1>1, <1>2, <1>3, Zenon

LEMMA MemberRows == \A t \in DOMAIN MemberColumns : IsRow(MemberColumns[t])
<1>1. DOMAIN MemberColumns = {"FieldMarshal", "DeclSecurity", "ClassLayout", "FieldLayout", "StandaloneSig",
      "EventMap", "Event", "PropertyMap", "Property", "MethodSemantics",
      "MethodImpl", "ModuleRef", "TypeSpec", "ImplMap", "FieldRVA"}
  BY SMT DEF MemberColumns
<1>2. /\ IsRow(MemberColumns["FieldMarshal"])
      /\ IsRow(MemberColumns["DeclSecurity"])
      /\ IsRow(MemberColumns["ClassLayout"])
      /\ IsRow(MemberColumns["FieldLayout"])
      /\ IsRow(MemberColumns["StandaloneSig"])
  BY ColumnKinds, SMT DEF IsRow, MemberColumns
<1>3. /\ IsRow(MemberColumns["EventMap"])
      /\ IsRow(MemberColumns["Event"])
      /\ IsRow(MemberColumns["PropertyMap"])
      /\ IsRow(MemberColumns["Property"])
      /\ IsRow(MemberColumns["MethodSemantics"])
  BY ColumnKinds, SMT DEF IsRow, MemberColumns
<1>4. /\ IsRow(MemberColumns["MethodImpl"])
      /\ IsRow(MemberColumns["ModuleRef"])
      /\ IsRow(MemberColumns["TypeSpec"])
      /\ IsRow(MemberColumns["ImplMap"])
      /\ IsRow(MemberColumns["FieldRVA"])
  BY ColumnKinds, SMT DEF IsRow, MemberColumns
<1>. QED
  BY <1>1, <1>2, <1>3, <1>4, Zenon

LEMMA AssemblyRows == \A t \in DOMAIN AssemblyColumns : IsRow(AssemblyColumns[t])
<1>1. DOMAIN AssemblyColumns = {"Assembly", "AssemblyProcessor", "AssemblyOS", "AssemblyRef",
      "AssemblyRefProcessor", "AssemblyRefOS", "File", "ExportedType",
      "ManifestResource", "NestedClass", "GenericParam", "GenericParamConstraint"}
  BY SMT DEF AssemblyColumns
<1>2. /\ IsRow(AssemblyColumns["Assembly"])
      /\ IsRow(AssemblyColumns["AssemblyProcessor"])
      /\ IsRow(AssemblyColumns["AssemblyOS"])
      /\ IsRow(AssemblyColumns["AssemblyRef"])
      /\ IsRow(AssemblyColumns["AssemblyRefProcessor"])
  BY ColumnKinds, SMT DEF IsRow, AssemblyColumns
<1>3. /\ IsRow(AssemblyColumns["AssemblyRefOS"])
      /\ IsRow(AssemblyColumns["File"])
      /\ IsRow(AssemblyColumns["ExportedType"])
      /\ IsRow(AssemblyColumns["ManifestResource"])
      /\ IsRow(AssemblyColumns["NestedClass"])
  BY ColumnKinds, SMT DEF IsRow, AssemblyColumns
<1>4. /\ IsRow(AssemblyColumns["GenericParam"])
      /\ IsRow(AssemblyColumns["GenericParamConstraint"])
  BY ColumnKinds, SMT DEF IsRow, AssemblyColumns
<1>. QED
  BY <1>1, <1>2, <1>3, <1>4, Zenon


LEMMA CorrectedRows == \A t \in DOMAIN Corrected : IsRow(Corrected[t])
BY ColumnKinds, SMT DEF IsRow, Corrected

\* No table is in the order twice.
LEMMA OrderDistinct ==
  /\ Len(Order) = 39 /\ DOMAIN Order = 1 .. 39
  /\ \A m, n \in 1 .. 39 : Order[m] = Order[n] => m = n
BY SMT DEF Order

LEMMA KnownRows == \A t \in Known : IsRow(Columns[t])
<1>1. \A t \in Known :
        Columns[t] = IF t \in DOMAIN TypeColumns THEN TypeColumns[t]
                     ELSE IF t \in DOMAIN MemberColumns THEN MemberColumns[t] ELSE AssemblyColumns[t]
  BY Zenon DEF Columns
<1>. QED
  BY <1>1, TypeRows, MemberRows, AssemblyRows, Zenon DEF Known

\* Two tables are in the order that the reader does not know.
LEMMA FormatRows == \A t \in ToSet(Order) : IsRow(Format[t])
<1>1. \A t \in ToSet(Order) : Format[t] = IF t \in DOMAIN Corrected THEN Corrected[t] ELSE Columns[t]
  BY Zenon DEF Format
<1>2. ToSet(Order) \subseteq Known \cup {"MethodPtr", "MethodSpec"}
  <2>. DEFINE S == Known \cup {"MethodPtr", "MethodSpec"}
  <2>1. /\ {"Module", "TypeRef", "TypeDef", "FieldDef", "MethodDef", "ParamDef", "InterfaceImpl",
            "MemberRef", "Constant", "CustomAttribute"} \subseteq Known
    BY SMT DEF Known, TypeColumns
  <2>2. {"FieldMarshal", "DeclSecurity", "ClassLayout", "FieldLayout", "StandaloneSig", "EventMap", "Event",
         "PropertyMap", "Property", "MethodSemantics", "MethodImpl", "ModuleRef", "TypeSpec", "ImplMap",
         "FieldRVA"} \subseteq Known
    BY SMT DEF Known, MemberColumns
  <2>3. {"Assembly", "AssemblyProcessor", "AssemblyOS", "AssemblyRef", "AssemblyRefProcessor", "AssemblyRefOS",
         "File", "ExportedType", "ManifestResource", "NestedClass", "GenericParam",
         "GenericParamConstraint"} \subseteq Known
    BY SMT DEF Known, AssemblyColumns
  <2>. HIDE DEF S
  <2>4. \A k \in DOMAIN Order : Order[k] \in S
    BY <2>1, <2>2, <2>3, SMT DEF Order, S
  <2>. QED
    BY <2>4, Zenon DEF ToSet, S
<1>3. "MethodPtr" \in DOMAIN Corrected /\ "MethodSpec" \in DOMAIN Corrected
  BY SMT DEF Corrected
<1>. QED
  BY <1>1, <1>2, <1>3, KnownRows, CorrectedRows, Zenon

-----------------------------------------------------------------------------
(* Sums.                                                                   *)

\* A sum grows by the next size.
LEMMA SumByOne ==
  ASSUME NEW s \in Seq(Nat)
  PROVE  /\ UpTo(0, s) = 0
         /\ \A k \in 0 .. Len(s) : UpTo(k, s) \in Nat
         /\ \A k \in 1 .. Len(s) : UpTo(k, s) = UpTo(k - 1, s) + s[k]
<1>. DEFINE m == Len(s)
            Made(f) == f = [ k \in 0 .. m |-> IF k = 0 THEN 0 ELSE f[k - 1] + s[k] ]
            sum == CHOOSE f : Made(f)
            step == [ p \in Nat \X (1 .. m) |-> p[1] + s[p[2]] ]
<1>1. m \in Nat /\ DOMAIN s = 1 .. m /\ \A k \in 1 .. m : s[k] \in Nat
  BY LenProperties, ElementOfSeq
<1>. HIDE DEF m
<1>2. step \in [Nat \X (1 .. m) -> Nat] /\ \A x \in Nat, k \in 1 .. m : step[<<x, k>>] = x + s[k]
  BY <1>1
<1>. HIDE DEF step
<1>3. PICK f \in [0 .. m -> Nat] : Loop(f, m, 0, step)
  BY <1>1, <1>2, LoopExists
<1>4. Made(f)
  <2>1. \A k \in 1 .. m : f[k - 1] \in Nat /\ step[<<f[k - 1], k>>] = f[k - 1] + s[k]
    <3>1. \A k \in 1 .. m : k - 1 \in 0 .. m
      BY <1>1
    <3>. QED
      BY <1>2, <3>1
  <2>2. f = [ k \in 0 .. m |-> IF k = 0 THEN 0 ELSE step[<<f[k - 1], k>>] ]
    BY <1>3 DEF Loop
  <2>3. \A k \in 0 .. m : k # 0 => k \in 1 .. m
    BY <1>1
  <2>. QED
    BY <2>1, <2>2, <2>3
<1>5. Made(sum)
  <2>. HIDE DEF Made
  <2>. QED
    BY <1>4
<1>6. \A k : UpTo(k, s) = sum[k]
  BY Zenon DEF UpTo, m
<1>. HIDE DEF sum
<1>7. \A k \in 0 .. m : sum[k] = IF k = 0 THEN 0 ELSE sum[k - 1] + s[k]
  BY <1>5
<1>8. sum[0] = 0 /\ \A k \in 1 .. m : sum[k] = sum[k - 1] + s[k]
  <2>1. 0 \in 0 .. m /\ \A k \in 1 .. m : k \in 0 .. m /\ k # 0
    BY <1>1
  <2>. QED
    BY <1>7, <2>1
<1>9. \A k \in 0 .. m : sum[k] \in Nat
  <2>. DEFINE S == { k \in Nat : k \in 0 .. m => sum[k] \in Nat }
  <2>1. 0 \in S
    BY <1>8
  <2>2. \A k \in Nat : k \in S => k + 1 \in S
    <3>1. ASSUME NEW k \in Nat, k \in S, k + 1 \in 0 .. m PROVE sum[k + 1] \in Nat
      <4>1. k \in 0 .. m /\ k + 1 \in 1 .. m /\ (k + 1) - 1 = k
        BY <1>1, <3>1
      <4>2. sum[k] \in Nat /\ sum[k + 1] = sum[k] + s[k + 1]
        BY <1>8, <3>1, <4>1
      <4>. QED
        BY <1>1, <4>1, <4>2
    <3>. QED
      BY <3>1
  <2>. HIDE DEF S
  <2>3. Nat \subseteq S
    BY <2>1, <2>2, SetInduction
  <2>. QED
    BY <1>1, <2>3 DEF S
<1>. QED
  BY <1>6, <1>8, <1>9, Zenon DEF m

-----------------------------------------------------------------------------
(* The widths.                                                             *)

\* Row counts are numbers.
LEMMA RowsAreNumbers ==
  ASSUME metadata \in ManagedImages
  PROVE  \A t : Rows(t) \in Nat
BY U32RangeAssumption, SMT DEF Rows, Present

\* A column is as wide as the format says, unless it is skipped.
LEMMA SameWidth ==
  ASSUME metadata \in ManagedImages, NEW c, IsColumn(c), c.kind = "index" => Present(c.table)
  PROVE  ColumnSize(c) = FormatColumnSize(c)
<1>1. CASE c.kind = "fixed" \/ c.kind = "heap"
  BY <1>1, SMT DEF ColumnSize, FormatColumnSize
<1>2. CASE c.kind = "index"
  BY <1>2, RowsAreNumbers, SMT DEF ColumnSize, FormatColumnSize, IndexSize, Width, Rows
<1>3. CASE c.kind = "tagged"
  <2>1. ColumnSize(c) = TaggedSize(c)
    BY <1>3, SMT DEF ColumnSize
  <2>2. FormatColumnSize(c) = IF \A t \in c.tables : Rows(t) < 65536 \div c.values THEN 2 ELSE 4
    BY <1>3, SMT DEF FormatColumnSize
  <2>3. c.values \in {2, 4, 8, 32}
    BY <1>3, SMT DEF IsColumn
  <2>4. ASSUME NEW t
        PROVE  (Present(t) /\ metadata.rows[t] > 65536 \div c.values - 1) <=> ~(Rows(t) < 65536 \div c.values)
    <3>1. Rows(t) \in Nat
      BY RowsAreNumbers
    <3>. QED
      BY <2>3, <3>1, SMT DEF Rows
  <2>. QED
    BY <2>1, <2>2, <2>4, SMT DEF TaggedSize, Width
<1>. QED
  BY <1>1, <1>2, <1>3, SMT DEF IsColumn

LEMMA FormatWidths ==
  ASSUME NEW c, IsColumn(c) PROVE FormatColumnSize(c) \in Nat
BY SMT DEF FormatColumnSize, IsColumn

\* Sizes of columns that are the same one by one add up to the same.
LEMMA SameSum ==
  ASSUME NEW a, NEW b, IsRow(a), IsRow(b), Len(a) = Len(b),
         \A k \in DOMAIN a : ColumnSize(a[k]) = FormatColumnSize(b[k])
  PROVE  SizeOf(a) = UpTo(Len(b), [ k \in DOMAIN b |-> FormatColumnSize(b[k]) ])
<1>1. DOMAIN a = DOMAIN b
  BY Zenon DEF IsRow
<1>2. [ k \in DOMAIN a |-> ColumnSize(a[k]) ] = [ k \in DOMAIN b |-> FormatColumnSize(b[k]) ]
  BY <1>1, Zenon
<1>. QED
  BY <1>2, Zenon DEF SizeOf

\* A tag's width, when each of the values its bits tell apart is a table.
TagWidth(n, s) == IF \A t \in s : Rows(t) < 65536 \div n THEN 2 ELSE 4

\* getTaggedField takes as much as the format says.
LEMMA WidthOfTag ==
  ASSUME metadata \in ManagedImages, NEW s
  PROVE  /\ ColumnSize(Tagged(1, s)) = TagWidth(2, s) /\ FormatColumnSize(Tagged(1, s)) = TagWidth(2, s)
         /\ ColumnSize(Tagged(2, s)) = TagWidth(4, s) /\ FormatColumnSize(Tagged(2, s)) = TagWidth(4, s)
         /\ ColumnSize(Tagged(3, s)) = TagWidth(8, s) /\ FormatColumnSize(Tagged(3, s)) = TagWidth(8, s)
         /\ ColumnSize(Tagged(5, s)) = TagWidth(32, s) /\ FormatColumnSize(Tagged(5, s)) = TagWidth(32, s)
<1>1. ASSUME NEW c, c.kind = "tagged" PROVE FormatColumnSize(c) = TagWidth(c.values, c.tables)
  BY <1>1, SMT DEF FormatColumnSize, TagWidth
<1>2. ASSUME NEW c, IsColumn(c), c.kind = "tagged" PROVE ColumnSize(c) = FormatColumnSize(c)
  BY <1>2, SameWidth, SMT
<1>3. ASSUME NEW bits \in {1, 2, 3, 5}
      PROVE IsColumn(Tagged(bits, s)) /\ Tagged(bits, s).kind = "tagged" /\ Tagged(bits, s).tables = s
  <2>1. IsColumn(Tagged(bits, s))
    BY ColumnKinds, SMT
  <2>2. Tagged(bits, s).kind = "tagged" /\ Tagged(bits, s).tables = s
    BY Zenon DEF Tagged
  <2>. QED
    BY <2>1, <2>2
<1>4. /\ Tagged(1, s).values = 2 /\ Tagged(2, s).values = 4
      /\ Tagged(3, s).values = 8 /\ Tagged(5, s).values = 32
  BY SMT DEF Tagged
<1>5. ASSUME NEW bits \in {1, 2, 3, 5}
      PROVE  /\ ColumnSize(Tagged(bits, s)) = TagWidth(Tagged(bits, s).values, s)
             /\ FormatColumnSize(Tagged(bits, s)) = TagWidth(Tagged(bits, s).values, s)
  BY <1>1, <1>2, <1>3, Zenon
<1>. QED
  BY <1>4, <1>5, SMT

\* The widths that the reader and the format agree on whatever the rows.
LEMMA OtherWidths ==
  ASSUME metadata \in ManagedImages
  PROVE  \A c \in {U16, U32, StringIdx, GuidIdx, BlobIdx} : ColumnSize(c) = FormatColumnSize(c)
<1>1. \A c \in {U16, U32, StringIdx, GuidIdx, BlobIdx} : IsColumn(c) /\ c.kind # "index"
  <2>1. \A c \in {U16, U32, StringIdx, GuidIdx, BlobIdx} : c.kind # "index"
    BY SMT DEF U16, U32, StringIdx, GuidIdx, BlobIdx, Fixed, Heap
  <2>. QED
    BY <2>1, ColumnKinds, Zenon
<1>. QED
  BY <1>1, SameWidth, Zenon

\* A row of a table that is not misjudged is as long as the format says.
LEMMA SameRow ==
  ASSUME metadata \in ManagedImages, NEW t \in Known, t \in ToSet(Order), ~Misjudged(t)
  PROVE  RowSize(t) = FormatRowSize(t)
<1>1. IsRow(Columns[t]) /\ IsRow(Format[t])
  BY KnownRows, FormatRows, Zenon
<1>2. Format[t] = IF t \in DOMAIN Corrected THEN Corrected[t] ELSE Columns[t]
  BY Zenon DEF Format
<1>3. ASSUME NEW row, row = Format[t], Len(Columns[t]) = Len(row),
             \A k \in DOMAIN Columns[t] : ColumnSize(Columns[t][k]) = FormatColumnSize(row[k])
      PROVE  RowSize(t) = FormatRowSize(t)
  BY <1>1, <1>3, SameSum, Zenon DEF RowSize, FormatRowSize
<1>4. CASE t \notin DOMAIN Corrected
  <2>1. \A k \in DOMAIN Columns[t] : Columns[t][k].kind = "index" => Present(Columns[t][k].table)
    <3>1. ~ \E c \in ToSet(Columns[t]) : c.kind = "index" /\ ~Present(c.table)
      BY SMT DEF Misjudged
    <3>. QED
      BY <3>1, Zenon DEF ToSet
  <2>2. \A k \in DOMAIN Columns[t] : ColumnSize(Columns[t][k]) = FormatColumnSize(Columns[t][k])
    BY <1>1, <2>1, SameWidth, Zenon DEF IsRow
  <2>. QED
    BY <1>2, <1>3, <1>4, <2>2, Zenon
<1>5. \A u \in DOMAIN TypeColumns : Columns[u] = TypeColumns[u]
  BY Zenon DEF Columns, Known
<1>6. CASE t = "TypeRef"
  <2>. DEFINE s == {"Module", "ModuleRef", "Assembly", "AssemblyRef"}
              f == {"Module", "ModuleRef", "AssemblyRef", "TypeRef"}
  <2>1. Columns[t] = << Tagged(2, s), StringIdx, StringIdx >>
    BY <1>5, <1>6, SMT DEF TypeColumns
  <2>2. Format[t] = << Tagged(2, f), StringIdx, StringIdx >>
    BY <1>2, <1>6, SMT DEF Corrected
  <2>3. TagWidth(4, s) = TagWidth(4, f)
    <3>1. ~(Rows("TypeRef") > 16383) /\ ~(Rows("Assembly") > 16383)
      BY <1>6, SMT DEF Misjudged
    <3>. QED
      BY <3>1, RowsAreNumbers, SMT DEF TagWidth
  <2>. HIDE DEF s, f
  <2>4. /\ ColumnSize(Tagged(2, s)) = FormatColumnSize(Tagged(2, f))
        /\ ColumnSize(StringIdx) = FormatColumnSize(StringIdx)
    BY <2>3, WidthOfTag, OtherWidths, Zenon
  <2>. QED
    BY <1>3, <2>1, <2>2, <2>4, SMT
<1>7. CASE t = "MemberRef"
  <2>. DEFINE s == {"TypeDef", "TypeRef", "ModuleRef", "MethodDef", "TypeSpec"}
  <2>1. Columns[t] = << Tagged(2, s), StringIdx, StringIdx >>
    BY <1>5, <1>7, SMT DEF TypeColumns
  <2>2. Format[t] = << Tagged(3, s), StringIdx, BlobIdx >>
    BY <1>2, <1>7, SMT DEF Corrected
  <2>3. \A u \in s : ~(Rows(u) > 8191)
    <3>1. Columns[t][1].tables = s
      BY <2>1, SMT DEF Tagged
    <3>. QED
      BY <1>7, <3>1, SMT DEF Misjudged
  <2>. HIDE DEF s
  <2>4. TagWidth(4, s) = TagWidth(8, s)
    BY <2>3, RowsAreNumbers, SMT DEF TagWidth
  <2>5. ColumnSize(StringIdx) = FormatColumnSize(BlobIdx)
    <3>1. ~(("Strings" \in metadata.wide) # ("Blob" \in metadata.wide))
      BY <1>7, SMT DEF Misjudged
    <3>. QED
      BY <3>1, SMT DEF ColumnSize, FormatColumnSize, StringIdx, BlobIdx, Heap
  <2>6. /\ ColumnSize(Tagged(2, s)) = FormatColumnSize(Tagged(3, s))
        /\ ColumnSize(StringIdx) = FormatColumnSize(StringIdx)
    BY <2>4, WidthOfTag, OtherWidths, Zenon
  <2>7. /\ Columns[t][1] = Tagged(2, s) /\ Columns[t][2] = StringIdx /\ Columns[t][3] = StringIdx
        /\ DOMAIN Columns[t] = {1, 2, 3} /\ Len(Columns[t]) = 3
    BY <2>1, SMT
  <2>8. /\ Format[t][1] = Tagged(3, s) /\ Format[t][2] = StringIdx /\ Format[t][3] = BlobIdx
        /\ Len(Format[t]) = 3
    BY <2>2, SMT
  <2>. QED
    BY <1>3, <2>5, <2>6, <2>7, <2>8, Zenon
<1>8. CASE t = "CustomAttribute"
  <2>. DEFINE p == CustomAttributeParents
              f == CustomAttributeParents \cup {"GenericParam", "GenericParamConstraint", "MethodSpec"}
              m == {"MethodDef", "MemberRef"}
  <2>1. Columns[t] = << Tagged(5, p), Tagged(3, m), BlobIdx >>
    BY <1>5, <1>8, SMT DEF TypeColumns
  <2>2. Format[t] = << Tagged(5, f), Tagged(3, m), BlobIdx >>
    BY <1>2, <1>8, SMT DEF Corrected
  <2>3. TagWidth(32, p) = TagWidth(32, f)
    <3>1. \A u \in {"GenericParam", "GenericParamConstraint", "MethodSpec"} : ~(Rows(u) > 2047)
      BY <1>8, SMT DEF Misjudged
    <3>. QED
      BY <3>1, RowsAreNumbers, SMT DEF TagWidth
  <2>. HIDE DEF p, f, m
  <2>4. /\ ColumnSize(Tagged(5, p)) = FormatColumnSize(Tagged(5, f))
        /\ ColumnSize(Tagged(3, m)) = FormatColumnSize(Tagged(3, m))
        /\ ColumnSize(BlobIdx) = FormatColumnSize(BlobIdx)
    BY <2>3, WidthOfTag, OtherWidths, Zenon
  <2>. QED
    BY <1>3, <2>1, <2>2, <2>4, SMT
<1>9. CASE t = "GenericParam"
  <2>. DEFINE f == {"TypeDef", "MethodDef"}
  <2>1. Columns[t] = << U16, U16, TypeDefOrRef, StringIdx >>
    <3>1. t \notin DOMAIN TypeColumns /\ t \notin DOMAIN MemberColumns
      BY <1>9, SMT DEF TypeColumns, MemberColumns
    <3>2. AssemblyColumns[t] = << U16, U16, TypeDefOrRef, StringIdx >>
      BY <1>9, SMT DEF AssemblyColumns
    <3>. QED
      BY <3>1, <3>2, Zenon DEF Columns
  <2>2. Format[t] = << U16, U16, Tagged(1, f), StringIdx >>
    BY <1>2, <1>9, SMT DEF Corrected
  <2>3. ColumnSize(TypeDefOrRef) = FormatColumnSize(Tagged(1, f))
    <3>. DEFINE s == {"TypeDef", "TypeRef", "TypeSpec"}
    <3>1. TypeDefOrRef = Tagged(2, s) /\ TypeDefOrRef.tables = s
      BY SMT DEF TypeDefOrRef, Tagged
    <3>2. (\A u \in s : ~(Rows(u) > 16383)) /\ ~(Rows("MethodDef") > 32767)
      BY <1>9, <3>1, SMT DEF Misjudged
    <3>3. TagWidth(4, s) = TagWidth(2, f)
      BY <3>2, RowsAreNumbers, SMT DEF TagWidth
    <3>. HIDE DEF s, f
    <3>. QED
      BY <3>1, <3>3, WidthOfTag, Zenon
  <2>. HIDE DEF f
  <2>4. ColumnSize(U16) = FormatColumnSize(U16) /\ ColumnSize(StringIdx) = FormatColumnSize(StringIdx)
    BY OtherWidths, Zenon
  <2>. QED
    BY <1>3, <2>1, <2>2, <2>3, <2>4, SMT
<1>10. t # "AssemblyRef"
  BY SMT DEF Misjudged
<1>11. DOMAIN Corrected = {"TypeRef", "MemberRef", "CustomAttribute", "AssemblyRef",
                           "GenericParam", "MethodPtr", "MethodSpec"}
  BY SMT DEF Corrected
<1>12. "MethodPtr" \notin Known /\ "MethodSpec" \notin Known
  BY SMT DEF Known, TypeColumns, MemberColumns, AssemblyColumns
<1>. QED
  BY <1>4, <1>6, <1>7, <1>8, <1>9, <1>10, <1>11, <1>12, Zenon

-----------------------------------------------------------------------------
(* Where the tables begin.                                                 *)

LEMMA TablesAreNumbers ==
  ASSUME metadata \in ManagedImages
  PROVE  \A k \in DOMAIN Order : FormatRowSize(Order[k]) \in Nat /\ FormatTableSize(Order[k]) \in Nat
<1>1. TAKE k \in DOMAIN Order
<1>. DEFINE row == Format[Order[k]]
            widths == [ n \in DOMAIN row |-> FormatColumnSize(row[n]) ]
<1>2. IsRow(row)
  BY FormatRows, Zenon DEF ToSet
<1>3. \A n \in DOMAIN row : FormatColumnSize(row[n]) \in Nat
  BY <1>2, FormatWidths, Zenon DEF IsRow
<1>4. widths \in Seq(Nat) /\ Len(row) \in Nat /\ Len(widths) = Len(row)
  <2>1. Len(row) \in Nat /\ DOMAIN row = 1 .. Len(row)
    BY <1>2, Zenon DEF IsRow
  <2>. HIDE DEF row
  <2>2. widths \in [1 .. Len(row) -> Nat]
    BY <1>3, <2>1
  <2>. HIDE DEF widths
  <2>. QED
    BY <2>1, <2>2
<1>5. FormatRowSize(Order[k]) = UpTo(Len(row), widths)
  BY Zenon DEF FormatRowSize
<1>. HIDE DEF row, widths
<1>6. FormatRowSize(Order[k]) \in Nat
  <2>1. \A n \in 0 .. Len(widths) : UpTo(n, widths) \in Nat
    BY <1>4, SumByOne, Zenon
  <2>. QED
    BY <1>4, <1>5, <2>1, SMT
<1>. QED
  BY <1>6, RowsAreNumbers, SMT DEF FormatTableSize

\* A table begins where the one before it ends.
LEMMA StartByOne ==
  ASSUME metadata \in ManagedImages
  PROVE  /\ FormatStart(1) = 0
         /\ \A k \in 1 .. 40 : FormatStart(k) \in Nat
         /\ \A k \in 1 .. 39 : FormatStart(k + 1) = FormatStart(k) + FormatTableSize(Order[k])
<1>. DEFINE sizes == [ n \in DOMAIN Order |-> FormatTableSize(Order[n]) ]
<1>1. \A k \in DOMAIN Order : FormatTableSize(Order[k]) \in Nat
  BY TablesAreNumbers, Zenon
<1>2. sizes \in Seq(Nat) /\ Len(sizes) = 39 /\ \A k \in 1 .. 39 : sizes[k] = FormatTableSize(Order[k])
  BY <1>1, OrderDistinct
<1>3. \A k : FormatStart(k) = UpTo(k - 1, sizes)
  BY Zenon DEF FormatStart
<1>. HIDE DEF sizes
<1>4. /\ UpTo(0, sizes) = 0
      /\ \A k \in 0 .. 39 : UpTo(k, sizes) \in Nat
      /\ \A k \in 1 .. 39 : UpTo(k, sizes) = UpTo(k - 1, sizes) + FormatTableSize(Order[k])
  <2>1. /\ UpTo(0, sizes) = 0
        /\ \A k \in 0 .. Len(sizes) : UpTo(k, sizes) \in Nat
        /\ \A k \in 1 .. Len(sizes) : UpTo(k, sizes) = UpTo(k - 1, sizes) + sizes[k]
    BY <1>2, SumByOne, Zenon
  <2>. QED
    BY <1>2, <2>1, SMT
<1>5. FormatStart(1) = 0
  <2>1. 1 - 1 = 0
    OBVIOUS
  <2>. QED
    BY <1>3, <1>4, <2>1, Zenon
<1>6. ASSUME NEW k \in 1 .. 40 PROVE FormatStart(k) \in Nat
  <2>1. k - 1 \in 0 .. 39
    OBVIOUS
  <2>. QED
    BY <1>3, <1>4, <2>1, Zenon
<1>7. ASSUME NEW k \in 1 .. 39 PROVE FormatStart(k + 1) = FormatStart(k) + FormatTableSize(Order[k])
  <2>1. (k + 1) - 1 = k
    OBVIOUS
  <2>2. FormatStart(k + 1) = UpTo((k + 1) - 1, sizes)
    BY <1>3, Zenon
  <2>. QED
    BY <1>3, <1>4, <2>1, <2>2, Zenon
<1>. QED
  BY <1>5, <1>6, <1>7, Zenon

\* Tables that are not there take no room.
LEMMA StartStays ==
  ASSUME metadata \in ManagedImages, NEW k \in 1 .. 40, NEW p \in 1 .. 40, k <= p,
         \A n \in k .. p - 1 : ~Present(Order[n])
  PROVE  FormatStart(p) = FormatStart(k)
<1>. DEFINE S == { d \in Nat : k + d <= p => FormatStart(k + d) = FormatStart(k) }
<1>1. 0 \in S
  <2>1. k + 0 = k
    OBVIOUS
  <2>. QED
    BY <2>1
<1>2. \A d \in Nat : d \in S => d + 1 \in S
  <2>1. ASSUME NEW d \in Nat, d \in S, k + (d + 1) <= p PROVE FormatStart(k + (d + 1)) = FormatStart(k)
    <3>. DEFINE n == k + d
    <3>1. n \in 1 .. 39 /\ n \in 1 .. 40 /\ n \in k .. p - 1 /\ n <= p /\ k + (d + 1) = n + 1
      BY <2>1
    <3>2. FormatStart(n) = FormatStart(k)
      BY <2>1, <3>1
    <3>. HIDE DEF n
    <3>3. FormatStart(n + 1) = FormatStart(n) + FormatTableSize(Order[n]) /\ FormatStart(n) \in Nat
      BY <3>1, StartByOne, Zenon
    <3>4. FormatTableSize(Order[n]) = 0
      <4>1. Rows(Order[n]) = 0
        BY <3>1, Zenon DEF Rows
      <4>2. FormatRowSize(Order[n]) \in Nat
        BY <3>1, OrderDistinct, TablesAreNumbers, Zenon
      <4>. QED
        BY <4>1, <4>2 DEF FormatTableSize
    <3>. QED
      BY <3>1, <3>2, <3>3, <3>4
  <2>. QED
    BY <2>1
<1>. HIDE DEF S
<1>3. Nat \subseteq S
  BY <1>1, <1>2, SetInduction
<1>. QED
  <2>1. p - k \in S /\ k + (p - k) = p
    BY <1>3
  <2>. QED
    BY <2>1 DEF S

-----------------------------------------------------------------------------
(* The cursor.                                                             *)

\* The tables before the k-th that are there have been read, and no others.
Passed(k) ==
  /\ \A n \in 1 .. k - 1 : Present(Order[n]) => Order[n] \in read
  /\ \A n \in k .. 39 : Order[n] \notin read

\* The cursor is where the next table begins, as long as none was misjudged.
TablesInv ==
  /\ metadata \in ManagedImages
  /\ stage = "tables" =>
       \E k \in 1 .. 40 : Passed(k) /\ ((\A t \in read : ~Misjudged(t)) => cursor = FormatStart(k))

LEMMA TablesStart == ReaderInit => TablesInv
<1>. SUFFICES ASSUME ReaderInit PROVE TablesInv
  OBVIOUS
<1>1. metadata \in ManagedImages /\ read = {} /\ cursor = 0
  BY DEF ReaderInit
<1>2. Passed(1)
  <2>1. \A n \in 1 .. 1 - 1 : FALSE
    OBVIOUS
  <2>. QED
    BY <1>1, <2>1, Zenon DEF Passed
<1>3. FormatStart(1) = 0 /\ 1 \in 1 .. 40
  BY <1>1, StartByOne
<1>. QED
  BY <1>1, <1>2, <1>3, Zenon DEF TablesInv

\* The next table to read is the first one behind those that were read.
LEMMA NextTable ==
  ASSUME metadata \in ManagedImages, NEW k \in 1 .. 40, Passed(k), Unread # {}
  PROVE  /\ Min(Unread) \in 1 .. 39 /\ k <= Min(Unread)
         /\ Present(Order[Min(Unread)])
         /\ FormatStart(Min(Unread)) = FormatStart(k)
         /\ \A n \in 1 .. Min(Unread) - 1 : Present(Order[n]) => Order[n] \in read
<1>1. Unread \subseteq 1 .. 39 /\ \A n \in 1 .. 39 : n \in Unread <=> Present(Order[n]) /\ Order[n] \notin read
  BY OrderDistinct, Zenon DEF Unread
<1>. PICK p : p = Min(Unread)
  BY Zenon
<1>2. p \in Unread /\ \A n \in Unread : p <= n
  <2>1. Unread \in SUBSET Int /\ \A n \in Unread : 1 <= n
    BY <1>1
  <2>. QED
    BY <2>1, MinIsLeast
<1>3. p \in 1 .. 39 /\ Present(Order[p]) /\ Order[p] \notin read
  BY <1>1, <1>2
<1>4. k <= p
  <2>1. ~(p \in 1 .. k - 1)
    BY <1>3, Zenon DEF Passed
  <2>. QED
    BY <1>3, <2>1
<1>5. \A n \in k .. p - 1 : ~Present(Order[n])
  <2>1. ASSUME NEW n \in k .. p - 1, Present(Order[n]) PROVE FALSE
    <3>1. n \in 1 .. 39 /\ n \in k .. 39 /\ ~(p <= n)
      BY <1>3, <2>1
    <3>2. n \in Unread
      BY <1>1, <2>1, <3>1, Zenon DEF Passed
    <3>. QED
      BY <1>2, <3>1, <3>2
  <2>. QED
    BY <2>1
<1>6. FormatStart(p) = FormatStart(k)
  <2>1. p \in 1 .. 40
    BY <1>3
  <2>. QED
    BY <1>4, <1>5, <2>1, StartStays
<1>7. ASSUME NEW n \in 1 .. p - 1, Present(Order[n]) PROVE Order[n] \in read
  <2>1. n \in 1 .. k - 1 \/ n \in k .. p - 1
    BY <1>3, <1>7
  <2>. QED
    BY <1>5, <1>7, <2>1, Zenon DEF Passed
<1>. QED
  BY <1>3, <1>4, <1>6, <1>7

\* What is said of the format does not change while the image is read.
LEMMA FormatStays ==
  ASSUME metadata' = metadata
  PROVE  /\ \A t : Present(t)' <=> Present(t)
         /\ \A t : Misjudged(t)' <=> Misjudged(t)
         /\ \A k : FormatStart(k)' = FormatStart(k)
<1>1. (\A t : Present(t)' <=> Present(t)) /\ (\A t : Rows(t)' = Rows(t))
  BY Zenon DEF Present, Rows
<1>2. \A t : Misjudged(t)' <=> Misjudged(t)
  BY <1>1, SMT DEF Misjudged
<1>3. \A c : FormatColumnSize(c)' = FormatColumnSize(c)
  BY <1>1, SMT DEF FormatColumnSize
<1>4. \A t : FormatRowSize(t)' = FormatRowSize(t)
  BY <1>3, Zenon DEF FormatRowSize
<1>5. \A t : FormatTableSize(t)' = FormatTableSize(t)
  BY <1>1, <1>4, Zenon DEF FormatTableSize
<1>6. \A k : FormatStart(k)' = FormatStart(k)
  BY <1>5, Zenon DEF FormatStart
<1>. QED
  BY <1>1, <1>2, <1>6, Zenon

\* What one table moves the cursor by.
LEMMA TableRead == TablesInv /\ ReadTable => TablesInv'
<1>. SUFFICES ASSUME TablesInv, ReadTable PROVE TablesInv'
  OBVIOUS
<1>. PICK p, t : p = Min(Unread) /\ t = Order[p]
  BY Zenon
<1>1. /\ stage = "tables" /\ Unread # {} /\ t \in Known
      /\ read' = read \cup {t} /\ cursor' = cursor + metadata.rows[t] * RowSize(t)
      /\ metadata' = metadata /\ metadata \in ManagedImages
  BY Zenon DEF ReadTable, TablesInv
<1>2. PICK k \in 1 .. 40 : Passed(k) /\ ((\A u \in read : ~Misjudged(u)) => cursor = FormatStart(k))
  BY <1>1, Zenon DEF TablesInv
<1>3. /\ p \in 1 .. 39 /\ k <= p /\ Present(t) /\ FormatStart(p) = FormatStart(k)
      /\ \A n \in 1 .. p - 1 : Present(Order[n]) => Order[n] \in read
  BY <1>1, <1>2, NextTable, Zenon
<1>4. Passed(p + 1)'
  <2>1. \A u : Present(u)' <=> Present(u)
    BY <1>1, Zenon DEF Present
  <2>2. ASSUME NEW n \in 1 .. (p + 1) - 1, Present(Order[n]) PROVE Order[n] \in read'
    <3>1. n \in 1 .. p - 1 \/ n = p
      BY <1>3
    <3>. QED
      BY <1>1, <1>3, <2>2, <3>1, Zenon
  <2>3. ASSUME NEW n \in p + 1 .. 39 PROVE Order[n] \notin read'
    <3>1. n \in k .. 39 /\ n \in 1 .. 39 /\ n # p
      BY <1>3
    <3>2. Order[n] # t
      BY <1>3, <3>1, OrderDistinct, Zenon
    <3>. QED
      BY <1>1, <1>2, <3>1, <3>2, Zenon DEF Passed
  <2>. QED
    BY <2>1, <2>2, <2>3, Zenon DEF Passed
<1>5. ASSUME \A u \in read' : ~Misjudged(u)' PROVE cursor' = FormatStart(p + 1)'
  <2>1. \A u : Misjudged(u)' <=> Misjudged(u)
    BY <1>1, FormatStays, Zenon
  <2>2. (\A u \in read : ~Misjudged(u)) /\ ~Misjudged(t)
    BY <1>1, <1>5, <2>1, Zenon
  <2>3. cursor = FormatStart(p)
    BY <1>2, <1>3, <2>2, Zenon
  <2>4. FormatStart(p + 1) = FormatStart(p) + FormatTableSize(t)
    BY <1>1, <1>3, StartByOne, Zenon
  <2>5. FormatTableSize(t) = metadata.rows[t] * RowSize(t)
    <3>1. t \in ToSet(Order)
      BY <1>3, OrderDistinct, Zenon DEF ToSet
    <3>2. RowSize(t) = FormatRowSize(t)
      BY <1>1, <2>2, <3>1, SameRow, Zenon
    <3>. QED
      BY <1>3, <3>2, Zenon DEF FormatTableSize, Rows
  <2>6. FormatStart(p + 1)' = FormatStart(p + 1)
    BY <1>1, FormatStays, Zenon
  <2>. QED
    BY <1>1, <2>3, <2>4, <2>5, <2>6, Zenon
<1>6. p + 1 \in 1 .. 40
  BY <1>3
<1>. QED
  BY <1>1, <1>4, <1>5, <1>6, Zenon DEF TablesInv

LEMMA TablesStep == TablesInv /\ [ReaderNext]_readerVars => TablesInv'
<1>. SUFFICES ASSUME TablesInv, [ReaderNext]_readerVars PROVE TablesInv'
  OBVIOUS
<1>1. CASE ReadTable
  BY <1>1, TableRead
<1>2. CASE EndTables \/ TablesMissing \/ WalkType \/ WalkAstray \/ EndTypes
  <2>1. metadata' = metadata /\ stage' # "tables"
    BY <1>2 DEF EndTables, TablesMissing, WalkType, WalkAstray, EndTypes
  <2>. QED
    BY <2>1, Zenon DEF TablesInv
<1>3. CASE UNCHANGED readerVars
  <2>1. metadata' = metadata /\ stage' = stage /\ read' = read /\ cursor' = cursor
    BY <1>3 DEF readerVars
  <2>2. CASE stage = "tables"
    <3>1. PICK k \in 1 .. 40 : Passed(k) /\ ((\A u \in read : ~Misjudged(u)) => cursor = FormatStart(k))
      BY <2>2, Zenon DEF TablesInv
    <3>2. Passed(k)' <=> Passed(k)
      BY <2>1, Zenon DEF Passed, Present
    <3>3. \A u : Misjudged(u)' <=> Misjudged(u)
      BY <2>1, FormatStays, Zenon
    <3>4. FormatStart(k)' = FormatStart(k)
      BY <2>1, FormatStays, Zenon
    <3>. QED
      BY <2>1, <3>1, <3>2, <3>3, <3>4, Zenon DEF TablesInv
  <2>. QED
    BY <2>1, <2>2, Zenon DEF TablesInv
<1>. QED
  BY <1>1, <1>2, <1>3, Zenon DEF ReaderNext

\* PeDotNet::getTables: whatever the row counts and the heaps, every table
\* before which none is misjudged is read where the format has it.
THEOREM ReadsInPlace == ReaderSpec => []RowsInPlace
<1>1. TablesInv => RowsInPlace
  <2>. SUFFICES ASSUME TablesInv, stage = "tables", Unread # {}, \A t \in read : ~Misjudged(t)
                PROVE  cursor = FormatStart(Min(Unread))
    BY Zenon DEF RowsInPlace
  <2>1. PICK k \in 1 .. 40 : Passed(k) /\ cursor = FormatStart(k)
    BY Zenon DEF TablesInv
  <2>2. metadata \in ManagedImages
    BY Zenon DEF TablesInv
  <2>. QED
    BY <2>1, <2>2, NextTable, Zenon
<1>. QED
  BY <1>1, TablesStart, TablesStep, PTL DEF ReaderSpec
=============================================================================
