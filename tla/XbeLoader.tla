------------------------------ MODULE XbeLoader ------------------------------
(***************************************************************************)
(* The loader of XBox executables (xbe/xbe.cpp).  The header's entry point *)
(* and the address of the kernel's thunks are stored xored with a key, one *)
(* for retail and one for debug images, and nothing in the header says     *)
(* which: the loader takes the first key that yields a mapped address,     *)
(* for each of the two values on its own.                                  *)
(*                                                                         *)
(* Offsets and addresses are counted in words.  An image carries, beside   *)
(* the file, what its linker meant: its kind, its entry point and the      *)
(* address of its thunks, before either was xored.                         *)
(***************************************************************************)
EXTENDS Integers, Sequences

CONSTANTS
  XbeImages,
  Words,      \* addresses and stored values
  EpKey,      \* kind -> XBE_ENTRYPOINT_XOR_RETAIL, XBE_ENTRYPOINT_XOR_DEBUG
  ThunkKey,   \* kind -> XBE_KERNEL_XOR_RETAIL, XBE_KERNEL_XOR_DEBUG
  KernelBase, \* XBE_XBOXKRNL_BASEADDRESS
  KernelSize

Kinds == {"retail", "debug"}

\* A key applied twice gives the word back.
ASSUME KeyAssumption ==
  /\ Words \subseteq Nat
  /\ EpKey \in [Kinds -> [Words -> Words]] /\ ThunkKey \in [Kinds -> [Words -> Words]]
  /\ \A k \in Kinds, w \in Words : EpKey[k][EpKey[k][w]] = w /\ ThunkKey[k][ThunkKey[k][w]] = w
  /\ KernelBase \in Words /\ KernelSize \in Nat

\* A file holds its sections and ends in a word that is zero: no thunk table
\* runs off its end.
ASSUME XbeImageAssumption ==
  \A i \in XbeImages :
    /\ i.kind \in Kinds
    /\ i.entrypoint \in Words /\ i.thunk \in Words
    /\ i.sections \in Seq([executable : BOOLEAN, data : BOOLEAN, address : Words, raw : Nat, size : Nat])
    /\ i.file \in Seq(Nat) /\ i.file # << >> /\ i.file[Len(i.file)] = 0
    /\ \A k \in DOMAIN i.sections : i.sections[k].raw + i.sections[k].size <= Len(i.file)
    /\ i.database \in BOOLEAN

VARIABLES
  xbe,      \* the image
  xpc,      \* "test", "sections", "entry", "kernel", "thunks", "finish", "done"
  section,  \* section mapped next
  segments,
  entry,
  thunk,    \* offset of the thunk read next
  imports,  \* address -> ordinal
  result

xbeVars == <<xbe, xpc, section, segments, entry, thunk, imports, result>>

None == -1

-----------------------------------------------------------------------------
(* What the linker stored, and the document's view of the file.            *)

StoredEntry == EpKey[xbe.kind][xbe.entrypoint]
StoredThunk == ThunkKey[xbe.kind][xbe.thunk]

Segment(type, offset, address, size) ==
  [type |-> type, offset |-> offset, address |-> address, size |-> size]

Covers(s, a) == s.address <= a /\ a < s.address + s.size

\* RDDocument_AddressToSegment.
Mapped(a) == \E s \in segments : Covers(s, a)

\* RD_Offset: the offsets of an address, none outside the file's segments.
OffsetsOf(a) == { s.offset + (a - s.address) : s \in { t \in segments : Covers(t, a) /\ t.type # "bss" } }

\* RD_AddressOf: the addresses of an offset.
AddressesOf(o) ==
  { s.address + (o - s.offset) :
      s \in { t \in segments : t.type # "bss" /\ t.offset <= o /\ o < t.offset + t.size } }

Word(o) == xbe.file[o + 1]

-----------------------------------------------------------------------------

TestXbe ==
  /\ xpc = "test"
  /\ IF xbe.sections = << >>
     THEN xpc' = "done" /\ result' = "refused"
     ELSE xpc' = "sections" /\ UNCHANGED result
  /\ UNCHANGED <<xbe, section, segments, entry, thunk, imports>>

\* loadSections: the raw size is the size mapped.
Type(s) ==
  CASE s.size = 0 -> "bss"
    [] s.size # 0 /\ s.executable /\ ~s.data -> "code"
    [] OTHER -> "data"

LoadSection ==
  /\ xpc = "sections"
  /\ section <= Len(xbe.sections)
  /\ LET s == xbe.sections[section]
     IN  segments' = segments \cup {Segment(Type(s), s.raw, s.address, s.size)}
  /\ section' = section + 1
  /\ UNCHANGED <<xbe, xpc, entry, thunk, imports, result>>

MapKernel ==
  /\ xpc = "sections"
  /\ section > Len(xbe.sections)
  /\ segments' = segments \cup {Segment("bss", 0, KernelBase, KernelSize)}
  /\ xpc' = "entry"
  /\ UNCHANGED <<xbe, section, entry, thunk, imports, result>>

\* decodeEP, decodeKernel: the address, if a key yields a mapped one.
DecodeAddress(key, stored) ==
  LET retail == key["retail"][stored]
      debug == key["debug"][stored]
  IN  IF Mapped(retail) THEN {retail} ELSE { a \in {debug} : Mapped(a) }

DecodeEntry ==
  /\ xpc = "entry"
  /\ LET decoded == DecodeAddress(EpKey, StoredEntry)
     IN  IF decoded = {}
         THEN xpc' = "done" /\ result' = "failed" /\ UNCHANGED entry
         ELSE \E a \in decoded : entry' = a /\ xpc' = "kernel" /\ UNCHANGED result
  /\ UNCHANGED <<xbe, section, segments, thunk, imports>>

\* loadXBoxKrnl up to its loop.  Without the database of ordinals or an offset
\* of the thunks there are no imports, and the load goes on.
DecodeKernel ==
  /\ xpc = "kernel"
  /\ LET offsets == UNION { OffsetsOf(a) : a \in DecodeAddress(ThunkKey, StoredThunk) }
     IN  IF ~xbe.database \/ offsets = {}
         THEN xpc' = "finish" /\ UNCHANGED thunk
         ELSE \E o \in offsets : thunk' = o /\ xpc' = "thunks"
  /\ UNCHANGED <<xbe, section, segments, entry, imports, result>>

\* Mutant: a thunk without an address is looked at again.
RetrySame(o) == IF AddressesOf(o) = {} THEN o ELSE o + 1

\* The loop's step: a continue advances as well.
Following(o) == o + 1

\* Mutant: the table ends at the first thunk without an address.
AtGap(o) == Word(o) = 0 \/ AddressesOf(o) = {}

Ends(o) == Word(o) = 0

\* One turn of the loop: it walks the file, not the memory.
ImportThunk ==
  /\ xpc = "thunks"
  /\ ~Ends(thunk)
  /\ imports' = [ a \in DOMAIN imports \cup AddressesOf(thunk) |->
                    IF a \in AddressesOf(thunk) THEN Word(thunk) ELSE imports[a] ]
  /\ thunk' = Following(thunk)
  /\ UNCHANGED <<xbe, xpc, section, segments, entry, result>>

EndThunks ==
  /\ xpc = "thunks"
  /\ Ends(thunk)
  /\ xpc' = "finish"
  /\ UNCHANGED <<xbe, section, segments, entry, thunk, imports, result>>

Finish ==
  /\ xpc = "finish"
  /\ result' = "loaded"
  /\ xpc' = "done"
  /\ UNCHANGED <<xbe, section, segments, entry, thunk, imports>>

-----------------------------------------------------------------------------

XbeStart(image) ==
  /\ xbe = image
  /\ xpc = "test"
  /\ section = 1
  /\ segments = {}
  /\ entry = None
  /\ thunk = None
  /\ imports = << >>
  /\ result = "none"

XbeInit == \E i \in XbeImages : XbeStart(i)

XbeNext ==
  \/ TestXbe \/ LoadSection \/ MapKernel \/ DecodeEntry \/ DecodeKernel
  \/ ImportThunk \/ EndThunks \/ Finish

\* The loader runs to its end on the thread that called it.
XbeSpec == XbeInit /\ [][XbeNext]_xbeVars /\ WF_xbeVars(XbeNext)

-----------------------------------------------------------------------------

\* The entry point set is the one the linker stored, when that lies in the
\* image.  Excepted are debug images in which the retail key yields a mapped
\* address by accident: the loader cannot tell.
EntryIsTheLinkers ==
  entry # None /\ Mapped(xbe.entrypoint) =>
    \/ entry = xbe.entrypoint
    \/ xbe.kind = "debug" /\ Mapped(EpKey["retail"][StoredEntry])

\* Words of a thunk table from its offset up to a zero.
TableRun(o) == { p \in 0 .. Len(xbe.file) - 1 : o <= p /\ \A q \in o .. p : Word(q) # 0 }

\* The thunks of the table at an offset are imported, and nothing else.
TableImported(o) ==
  /\ DOMAIN imports = UNION { AddressesOf(p) : p \in TableRun(o) }
  /\ \A p \in TableRun(o) : \A a \in AddressesOf(p) : imports[a] = Word(p)

\* Sections with bytes share no address.
Apart ==
  \A s, t \in { u \in segments : u.type # "bss" } :
    s # t => s.address + s.size <= t.address \/ t.address + t.size <= s.address

\* The retail key yields a mapped address for a debug image by accident.
ThunkAccident == xbe.kind = "debug" /\ Mapped(ThunkKey["retail"][StoredThunk])

\* A loaded image has every thunk of its kernel table imported, each under its
\* own ordinal and at its own address, the entry point having been decoded
\* with whatever key; bytes of the table that no section maps are passed over
\* and do not end it.  Excepted are images without the database, those whose
\* table lies in no section that has bytes, those with sections over each
\* other, and the same accident.
ImportsAreTheImages ==
  (xpc = "done" /\ result = "loaded" /\ xbe.database /\ Apart /\ ~ThunkAccident) =>
    \A o \in OffsetsOf(xbe.thunk) : TableImported(o)

\* Entry point and imports are those the linker stored: neither key tried for
\* the one leaves a trace in the other.
LoadedAsLinked == EntryIsTheLinkers /\ ImportsAreTheImages

\* The load of an image the test accepted comes to an end, the walk over the
\* thunks included: a thunk without an address is passed, not read again.
XbeLoadEnds == (xpc = "sections") ~> (xpc = "done")
=============================================================================
