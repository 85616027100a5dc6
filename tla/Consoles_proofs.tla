--------------------------- MODULE Consoles_proofs ----------------------------
(* What the loaders of the consoles leave in a document is what the console  *)
(* would find in its memory, for every image; and what the CHIP-8 assembler  *)
(* tells of an opcode is what its decoder made of it, for every opcode.      *)
EXTENDS Chip8, XbeLoader, ConsoleLoaders, SequenceTheorems, FiniteSetTheorems, OrderLemmas, TLAPS

(***************************************************************************)
(* XBE: what is loaded is what the linker stored, for every image, any     *)
(* keys and any sections.                                                  *)
(***************************************************************************)
Segments == [type : {"code", "data", "bss"}, offset : Nat, address : Nat, size : Nat]

TypeInv ==
  /\ xbe \in XbeImages
  /\ section \in Nat \ {0}
  /\ segments \subseteq { s \in Segments : s.type # "bss" => s.offset + s.size <= Len(xbe.file) }
  /\ entry \in Words \cup {None}
  /\ thunk \in Int

\* The entry point and the imports are made when all segments are there.
Untouched ==
  xpc \in {"test", "sections", "entry"} => entry = None

\* The imports of the thunks from one offset up to another.
Right(o, n) ==
  /\ DOMAIN imports = UNION { AddressesOf(p) : p \in o .. n - 1 }
  /\ \A p \in o .. n - 1 : \A a \in AddressesOf(p) : imports[a] = Word(p)

\* The walk has imported the thunks it passed, none of them zero.
Walk ==
  xpc = "thunks" =>
    /\ thunk \in 0 .. Len(xbe.file) - 1
    /\ (Apart /\ ~ThunkAccident) =>
         \A o \in OffsetsOf(xbe.thunk) :
           /\ o \in 0 .. thunk
           /\ \A q \in o .. thunk - 1 : Word(q) # 0
           /\ Right(o, thunk)

\* Behind the walk, and with nothing to walk over, the table is imported.
Whole ==
  (/\ xpc = "finish" \/ (xpc = "done" /\ result = "loaded")
   /\ xbe.database /\ Apart /\ ~ThunkAccident) =>
     \A o \in OffsetsOf(xbe.thunk) : TableImported(o)

\* Before the table is walked over nothing is imported.
Empty ==
  /\ xpc # "done" => result = "none"
  /\ xpc \in {"test", "sections", "entry", "kernel"} => imports = << >>

XbeInv == TypeInv /\ Untouched /\ Empty /\ EntryIsTheLinkers /\ Walk /\ Whole

-----------------------------------------------------------------------------
(* Keys and addresses.                                                      *)

\* A key of the image's kind gives back what was stored with it.
LEMMA KeysReturn ==
  ASSUME xbe \in XbeImages
  PROVE  /\ xbe.kind \in Kinds /\ xbe.entrypoint \in Words /\ xbe.thunk \in Words
         /\ EpKey[xbe.kind][StoredEntry] = xbe.entrypoint
         /\ ThunkKey[xbe.kind][StoredThunk] = xbe.thunk
         /\ \A k \in Kinds : EpKey[k][StoredEntry] \in Words
  <1>1. xbe.kind \in Kinds /\ xbe.entrypoint \in Words /\ xbe.thunk \in Words
    BY XbeImageAssumption
  <1>2. EpKey[xbe.kind][StoredEntry] = xbe.entrypoint /\ ThunkKey[xbe.kind][StoredThunk] = xbe.thunk
    BY <1>1, KeyAssumption DEF StoredEntry, StoredThunk
  <1>3. StoredEntry \in Words
    BY <1>1, KeyAssumption DEF StoredEntry
  <1> QED
    BY <1>1, <1>2, <1>3, KeyAssumption

\* The address decoded is the linker's if that is mapped, but for the accident.
LEMMA Decoded ==
  ASSUME NEW key, NEW stored, NEW a, xbe.kind \in Kinds, key[xbe.kind][stored] = a, Mapped(a)
  PROVE  \/ DecodeAddress(key, stored) = {a}
         \/ xbe.kind = "debug" /\ Mapped(key["retail"][stored])
  <1>1. CASE xbe.kind = "retail"
    BY <1>1 DEF DecodeAddress
  <1>2. CASE xbe.kind = "debug" /\ ~Mapped(key["retail"][stored])
    BY <1>2 DEF DecodeAddress
  <1> QED
    BY <1>1, <1>2 DEF Kinds

\* An address has an offset only where it is mapped.
LEMMA OffsetsMapped ==
  ASSUME NEW a, OffsetsOf(a) # {} PROVE Mapped(a)
  BY DEF OffsetsOf, Mapped

LEMMA FileFacts ==
  ASSUME TypeInv
  PROVE  /\ Len(xbe.file) \in Nat \ {0}
         /\ Word(Len(xbe.file) - 1) = 0
         /\ xbe.thunk \in Nat
  <1>1. xbe.file \in Seq(Nat) /\ xbe.file # << >> /\ xbe.file[Len(xbe.file)] = 0 /\ xbe.thunk \in Words
    BY XbeImageAssumption DEF TypeInv
  <1>2. Len(xbe.file) \in Nat \ {0}
    BY <1>1
  <1>3. Word(Len(xbe.file) - 1) = xbe.file[Len(xbe.file)]
    <2>1. (Len(xbe.file) - 1) + 1 = Len(xbe.file)
      BY <1>2
    <2> QED
      BY <2>1 DEF Word
  <1> QED
    BY <1>1, <1>2, <1>3, KeyAssumption

\* Offsets of addresses lie in the file.
LEMMA OffsetsInFile ==
  ASSUME TypeInv, NEW a \in Nat, NEW o \in OffsetsOf(a)
  PROVE  o \in 0 .. Len(xbe.file) - 1
  <1>1. PICK s \in segments : Covers(s, a) /\ s.type # "bss" /\ o = s.offset + (a - s.address)
    BY DEF OffsetsOf
  <1>2. s \in Segments /\ s.offset + s.size <= Len(xbe.file)
    BY <1>1 DEF TypeInv
  <1>3. s.offset \in Nat /\ s.address \in Nat /\ s.size \in Nat
    BY <1>2 DEF Segments
  <1>4. Len(xbe.file) \in Nat
    BY FileFacts
  <1> QED
    BY <1>1, <1>2, <1>3, <1>4 DEF Covers

\* An address that two sections do not share has one offset.
LEMMA OneOffset ==
  ASSUME TypeInv, Apart, NEW a \in Nat, NEW o \in OffsetsOf(a), NEW p \in OffsetsOf(a)
  PROVE  o = p
  <1>1. PICK s \in segments : Covers(s, a) /\ s.type # "bss" /\ o = s.offset + (a - s.address)
    BY DEF OffsetsOf
  <1>2. PICK t \in segments : Covers(t, a) /\ t.type # "bss" /\ p = t.offset + (a - t.address)
    BY DEF OffsetsOf
  <1>3. s \in Segments /\ t \in Segments
    BY DEF TypeInv
  <1>4. s = t
    <2> SUFFICES ASSUME s # t PROVE FALSE
      OBVIOUS
    <2>1. s.address + s.size <= t.address \/ t.address + t.size <= s.address
      BY <1>1, <1>2 DEF Apart
    <2> QED
      BY <1>1, <1>2, <1>3, <2>1 DEF Covers, Segments
  <1> QED
    BY <1>1, <1>2, <1>4

\* Two offsets do not share an address either.
LEMMA OneAddress ==
  ASSUME TypeInv, Apart, NEW p \in Int, NEW q \in Int, NEW a, a \in AddressesOf(p), a \in AddressesOf(q)
  PROVE  p = q
  <1>1. PICK s \in segments :
          s.type # "bss" /\ s.offset <= p /\ p < s.offset + s.size /\ a = s.address + (p - s.offset)
    BY DEF AddressesOf
  <1>2. PICK t \in segments :
          t.type # "bss" /\ t.offset <= q /\ q < t.offset + t.size /\ a = t.address + (q - t.offset)
    BY DEF AddressesOf
  <1>3. s \in Segments /\ t \in Segments
    BY DEF TypeInv
  <1>4. s = t
    <2> SUFFICES ASSUME s # t PROVE FALSE
      OBVIOUS
    <2>1. s.address + s.size <= t.address \/ t.address + t.size <= s.address
      BY <1>1, <1>2 DEF Apart
    <2> QED
      BY <1>1, <1>2, <1>3, <2>1 DEF Segments
  <1> QED
    BY <1>1, <1>2, <1>3, <1>4 DEF Segments

-----------------------------------------------------------------------------
(* The steps.                                                              *)

LEMMA XbeStarts == XbeInit => XbeInv
  BY DEF XbeInit, XbeStart, XbeInv, TypeInv, Untouched, Empty, EntryIsTheLinkers, Walk, Whole, None

\* Segments are added while nothing refers to them.
LEMMA AddSegment ==
  ASSUME XbeInv, NEW s \in Segments, s.type # "bss" => s.offset + s.size <= Len(xbe.file),
         xpc = "sections", xpc' \in {"sections", "entry"}, segments' = segments \cup {s},
         section' \in Nat \ {0}, UNCHANGED <<xbe, entry, thunk, imports, result>>
  PROVE  XbeInv'
  BY DEF XbeInv, TypeInv, Untouched, Empty, EntryIsTheLinkers, Walk, Whole

LEMMA LoadSectionInv ==
  ASSUME XbeInv, LoadSection PROVE XbeInv'
  <1> DEFINE r == xbe.sections[section]
             s == Segment(Type(r), r.raw, r.address, r.size)
  <1>1. /\ xbe.sections \in Seq([executable : BOOLEAN, data : BOOLEAN, address : Words, raw : Nat, size : Nat])
        /\ section \in DOMAIN xbe.sections /\ section \in Nat \ {0}
    <2>1. xbe \in XbeImages /\ section \in Nat \ {0} /\ section <= Len(xbe.sections)
      BY DEF XbeInv, TypeInv, LoadSection
    <2>2. xbe.sections \in Seq([executable : BOOLEAN, data : BOOLEAN, address : Words, raw : Nat, size : Nat])
      BY <2>1, XbeImageAssumption
    <2>3. Len(xbe.sections) \in Nat /\ DOMAIN xbe.sections = 1 .. Len(xbe.sections)
      BY <2>2, LenProperties
    <2> QED
      BY <2>1, <2>2, <2>3
  <1>2. r \in [executable : BOOLEAN, data : BOOLEAN, address : Words, raw : Nat, size : Nat]
    BY <1>1, ElementOfSeq, LenProperties
  <1>3. r.raw + r.size <= Len(xbe.file) /\ Words \subseteq Nat
    BY <1>1, XbeImageAssumption, KeyAssumption DEF XbeInv, TypeInv
  <1>4. Type(r) \in {"code", "data", "bss"}
    <2> HIDE DEF r
    <2> QED
      BY Zenon DEF Type
  <1>5. s \in Segments /\ s.offset + s.size <= Len(xbe.file)
    BY <1>2, <1>3, <1>4 DEF Segments, Segment
  <1>6. /\ segments' = segments \cup {s} /\ xpc = "sections" /\ xpc' = "sections"
        /\ section' = section + 1 /\ UNCHANGED <<xbe, entry, thunk, imports, result>>
    BY DEF LoadSection
  <1>7. section' \in Nat \ {0}
    BY <1>1, <1>6
  <1> HIDE DEF s, r
  <1> QED
    BY <1>5, <1>6, <1>7, AddSegment

LEMMA MapKernelInv ==
  ASSUME XbeInv, MapKernel PROVE XbeInv'
  <1> DEFINE s == Segment("bss", 0, KernelBase, KernelSize)
  <1>1. s \in Segments /\ s.type = "bss"
    BY KeyAssumption DEF Segments, Segment
  <1>2. /\ segments' = segments \cup {s} /\ xpc = "sections" /\ xpc' = "entry"
        /\ section' \in Nat \ {0} /\ UNCHANGED <<xbe, entry, thunk, imports, result>>
    BY DEF MapKernel, XbeInv, TypeInv
  <1> HIDE DEF s
  <1> QED
    BY <1>1, <1>2, AddSegment

\* Whatever else a step changes, addresses and table are as they were.
LEMMA Frame ==
  ASSUME UNCHANGED <<xbe, segments>>
  PROVE  /\ \A a : Mapped(a)' <=> Mapped(a)
         /\ \A a : OffsetsOf(a)' = OffsetsOf(a) /\ AddressesOf(a)' = AddressesOf(a)
         /\ \A o : Word(o)' = Word(o) /\ TableRun(o)' = TableRun(o)
         /\ Apart' <=> Apart
         /\ ThunkAccident' <=> ThunkAccident
         /\ StoredEntry' = StoredEntry
         /\ xbe'.thunk = xbe.thunk /\ xbe'.database = xbe.database
         /\ UNCHANGED imports => \A o : TableImported(o)' <=> TableImported(o)
  <1>1. /\ \A a : Mapped(a)' <=> Mapped(a)
        /\ \A a : OffsetsOf(a)' = OffsetsOf(a) /\ AddressesOf(a)' = AddressesOf(a)
        /\ \A o : Word(o)' = Word(o) /\ TableRun(o)' = TableRun(o)
    BY DEF Mapped, OffsetsOf, AddressesOf, Word, TableRun
  <1>2. UNCHANGED imports => \A o : TableImported(o)' <=> TableImported(o)
    BY <1>1 DEF TableImported
  <1> QED
    BY <1>1, <1>2 DEF Mapped, Apart, ThunkAccident, StoredThunk, StoredEntry

LEMMA EntryFrame ==
  ASSUME EntryIsTheLinkers, UNCHANGED <<xbe, segments, entry>> PROVE EntryIsTheLinkers'
  BY Frame DEF EntryIsTheLinkers

LEMMA DecodeEntryInv ==
  ASSUME XbeInv, DecodeEntry PROVE XbeInv'
  <1> DEFINE decoded == DecodeAddress(EpKey, StoredEntry)
  <1>1. /\ xpc = "entry" /\ UNCHANGED <<xbe, section, segments, thunk, imports>>
        /\ result = "none" /\ imports = << >> /\ entry = None
    BY DEF XbeInv, DecodeEntry, Empty, Untouched
  <1>2. xbe \in XbeImages
    BY DEF XbeInv, TypeInv
  <1>3. CASE xpc' = "done" /\ result' = "failed" /\ UNCHANGED entry
    BY <1>1, <1>3, EntryFrame DEF XbeInv, TypeInv, Untouched, Empty, Walk, Whole
  <1>4. ASSUME NEW a \in decoded, entry' = a, xpc' = "kernel", UNCHANGED result
        PROVE  XbeInv'
    <2>1. a \in Words
      BY <1>2, <1>4, KeysReturn DEF DecodeAddress, Kinds
    <2>2. Mapped(xbe.entrypoint) =>
            a = xbe.entrypoint \/ (xbe.kind = "debug" /\ Mapped(EpKey["retail"][StoredEntry]))
      BY <1>2, <1>4, KeysReturn, Decoded
    <2>3. EntryIsTheLinkers'
      BY <1>1, <1>4, <2>2, Frame DEF EntryIsTheLinkers
    <2> QED
      BY <1>1, <1>4, <2>1, <2>3 DEF XbeInv, TypeInv, Untouched, Empty, Walk, Whole
  <1> QED
    BY <1>3, <1>4 DEF DecodeEntry

\* The walk begins at the only offset the table has.
LEMMA DecodeKernelInv ==
  ASSUME XbeInv, DecodeKernel PROVE XbeInv'
  <1> DEFINE offsets == UNION { OffsetsOf(a) : a \in DecodeAddress(ThunkKey, StoredThunk) }
  <1>1. /\ xpc = "kernel" /\ UNCHANGED <<xbe, section, segments, entry, imports, result>>
        /\ result = "none" /\ imports = << >>
    BY DEF XbeInv, DecodeKernel, Empty
  <1>2. /\ xbe \in XbeImages /\ TypeInv /\ xbe.thunk \in Nat /\ xbe.kind \in Kinds
        /\ ThunkKey[xbe.kind][StoredThunk] = xbe.thunk
    BY FileFacts, KeysReturn DEF XbeInv, TypeInv
  <1>3. ASSUME ~ThunkAccident, OffsetsOf(xbe.thunk) # {} PROVE offsets = OffsetsOf(xbe.thunk)
    <2>1. Mapped(xbe.thunk)
      BY <1>3, OffsetsMapped
    <2>2. DecodeAddress(ThunkKey, StoredThunk) = {xbe.thunk}
      BY <1>2, <1>3, <2>1, Decoded DEF ThunkAccident
    <2> QED
      BY <2>2
  <1>4. EntryIsTheLinkers'
    BY <1>1, EntryFrame DEF XbeInv
  <1>5. CASE (~xbe.database \/ offsets = {}) /\ xpc' = "finish" /\ UNCHANGED thunk
    <2>1. (xbe.database /\ ~ThunkAccident) => OffsetsOf(xbe.thunk) = {}
      BY <1>3, <1>5
    <2>2. Whole'
      BY <1>1, <2>1, Frame DEF Whole
    <2> QED
      BY <1>1, <1>2, <1>4, <1>5, <2>2 DEF XbeInv, TypeInv, Untouched, Empty, Walk
  <1>6. ASSUME NEW o \in offsets, thunk' = o, xpc' = "thunks" PROVE XbeInv'
    <2>1. o \in 0 .. Len(xbe.file) - 1
      <3>1. PICK a \in DecodeAddress(ThunkKey, StoredThunk) : o \in OffsetsOf(a)
        BY <1>6
      <3>2. a \in Nat
        <4>1. StoredThunk \in Words
          BY <1>2, KeysReturn, KeyAssumption DEF StoredThunk
        <4> QED
          BY <3>1, <4>1, KeyAssumption DEF DecodeAddress, Kinds
      <3> QED
        BY <1>2, <3>1, <3>2, OffsetsInFile
    <2>2. ASSUME Apart, ~ThunkAccident, NEW p \in OffsetsOf(xbe.thunk) PROVE p = o
      BY <1>2, <1>3, <1>6, <2>2, OneOffset
    <2>3. ASSUME (Apart /\ ~ThunkAccident)', NEW p \in OffsetsOf(xbe.thunk)'
          PROVE  p \in 0 .. thunk' /\ (\A q \in p .. thunk' - 1 : Word(q)' # 0) /\ Right(p, thunk)'
      <3>1. p = thunk'
        BY <1>1, <1>6, <2>2, <2>3, Frame
      <3>2. p .. thunk' - 1 = {}
        BY <1>6, <2>1, <3>1
      <3>3. DOMAIN imports' = {}
        BY <1>1
      <3> QED
        BY <1>6, <2>1, <3>1, <3>2, <3>3 DEF Right
    <2>4. Walk'
      BY <1>1, <1>6, <2>1, <2>3 DEF Walk
    <2> QED
      BY <1>1, <1>2, <1>4, <1>6, <2>1, <2>4 DEF XbeInv, TypeInv, Untouched, Empty, Whole
  <1> QED
    BY <1>5, <1>6 DEF DecodeKernel

LEMMA ImportThunkInv ==
  ASSUME XbeInv, ImportThunk PROVE XbeInv'
  <1>1. /\ xpc = "thunks" /\ xpc' = "thunks" /\ Word(thunk) # 0 /\ thunk' = thunk + 1
        /\ UNCHANGED <<xbe, section, segments, entry, result>>
        /\ imports' = [ a \in DOMAIN imports \cup AddressesOf(thunk) |->
                          IF a \in AddressesOf(thunk) THEN Word(thunk) ELSE imports[a] ]
    BY DEF ImportThunk, Ends, Following
  <1>2. TypeInv /\ thunk \in 0 .. Len(xbe.file) - 1 /\ result = "none"
    BY <1>1 DEF XbeInv, Walk, Empty
  <1>3. thunk' \in 0 .. Len(xbe.file) - 1
    BY <1>1, <1>2, FileFacts
  <1>4. EntryIsTheLinkers'
    BY <1>1, EntryFrame DEF XbeInv
  <1>5. ASSUME Apart, ~ThunkAccident, NEW o \in OffsetsOf(xbe.thunk)
        PROVE  o \in 0 .. thunk' /\ (\A q \in o .. thunk' - 1 : Word(q) # 0) /\ Right(o, thunk)'
    <2>1. o \in 0 .. thunk /\ (\A q \in o .. thunk - 1 : Word(q) # 0) /\ Right(o, thunk)
      BY <1>1, <1>5 DEF XbeInv, Walk
    <2>2. o .. thunk' - 1 = (o .. thunk - 1) \cup {thunk}
      BY <1>1, <1>2, <2>1
    <2>3. o \in 0 .. thunk' /\ \A q \in o .. thunk' - 1 : Word(q) # 0
      <3>1. o \in 0 .. thunk'
        BY <1>1, <1>2, <2>1
      <3>2. \A q \in (o .. thunk - 1) \cup {thunk} : Word(q) # 0
        BY <1>1, <2>1
      <3> QED
        BY <2>2, <3>1, <3>2
    <2>4. DOMAIN imports' = UNION { AddressesOf(p) : p \in o .. thunk' - 1 }
      BY <1>1, <2>1, <2>2 DEF Right
    <2>5. ASSUME NEW p \in o .. thunk' - 1, NEW a \in AddressesOf(p) PROVE imports'[a] = Word(p)
      <3>1. a \in DOMAIN imports'
        BY <2>4, <2>5
      <3>2. CASE a \in AddressesOf(thunk)
        <4>1. p = thunk
          BY <1>2, <1>5, <2>1, <2>5, <3>2, OneAddress
        <4> QED
          BY <1>1, <3>1, <3>2, <4>1
      <3>3. CASE a \notin AddressesOf(thunk)
        <4>1. p \in o .. thunk - 1
          BY <2>2, <2>5, <3>3
        <4>2. imports[a] = Word(p)
          BY <2>1, <2>5, <4>1 DEF Right
        <4> QED
          BY <1>1, <3>1, <3>3, <4>2
      <3> QED
        BY <3>2, <3>3
    <2> QED
      BY <1>1, <2>3, <2>4, <2>5, Frame DEF Right
  <1>6. Walk'
    BY <1>1, <1>3, <1>5, Frame DEF Walk
  <1> QED
    BY <1>1, <1>2, <1>3, <1>4, <1>6 DEF XbeInv, TypeInv, Untouched, Empty, Whole

\* What the walk has passed when it meets a zero is the table.
LEMMA EndThunksInv ==
  ASSUME XbeInv, EndThunks PROVE XbeInv'
  <1>1. /\ xpc = "thunks" /\ xpc' = "finish" /\ Word(thunk) = 0
        /\ UNCHANGED <<xbe, section, segments, entry, thunk, imports, result>>
    BY DEF EndThunks, Ends
  <1>2. TypeInv /\ thunk \in 0 .. Len(xbe.file) - 1 /\ result = "none"
    BY <1>1 DEF XbeInv, Walk, Empty
  <1>3. EntryIsTheLinkers'
    BY <1>1, EntryFrame DEF XbeInv
  <1>4. ASSUME Apart, ~ThunkAccident, NEW o \in OffsetsOf(xbe.thunk)
        PROVE  TableImported(o)
    <2>1. o \in 0 .. thunk /\ (\A q \in o .. thunk - 1 : Word(q) # 0) /\ Right(o, thunk)
      BY <1>1, <1>4 DEF XbeInv, Walk
    <2>2. Len(xbe.file) \in Nat
      BY <1>2, FileFacts
    <2>3. ASSUME NEW p \in TableRun(o) PROVE p \in o .. thunk - 1
      <3>1. p \in 0 .. Len(xbe.file) - 1 /\ o <= p /\ \A q \in o .. p : Word(q) # 0
        BY DEF TableRun
      <3>2. ~(thunk <= p)
        BY <1>1, <1>2, <2>1, <2>2, <3>1
      <3> QED
        BY <1>2, <2>1, <2>2, <3>1, <3>2
    <2>4. ASSUME NEW p \in o .. thunk - 1 PROVE p \in TableRun(o)
      <3>1. p \in 0 .. Len(xbe.file) - 1 /\ o <= p
        BY <1>2, <2>1, <2>2
      <3>2. \A q \in o .. p : q \in o .. thunk - 1
        BY <1>2, <2>1
      <3> QED
        BY <2>1, <3>1, <3>2 DEF TableRun
    <2>5. TableRun(o) = o .. thunk - 1
      BY <2>3, <2>4
    <2> QED
      BY <2>1, <2>5 DEF Right, TableImported
  <1>5. Whole'
    BY <1>1, <1>4, Frame DEF Whole
  <1> QED
    BY <1>1, <1>2, <1>3, <1>5 DEF XbeInv, TypeInv, Untouched, Empty, Walk

LEMMA FinishInv ==
  ASSUME XbeInv, Finish PROVE XbeInv'
  <1>1. /\ xpc = "finish" /\ xpc' = "done" /\ result' = "loaded"
        /\ UNCHANGED <<xbe, section, segments, entry, thunk, imports>>
    BY DEF Finish
  <1>2. EntryIsTheLinkers'
    BY <1>1, EntryFrame DEF XbeInv
  <1>3. Whole'
    BY <1>1, Frame DEF XbeInv, Whole
  <1> QED
    BY <1>1, <1>2, <1>3 DEF XbeInv, TypeInv, Untouched, Empty, Walk

LEMMA TestXbeInv ==
  ASSUME XbeInv, TestXbe PROVE XbeInv'
  <1>1. /\ xpc = "test" /\ UNCHANGED <<xbe, section, segments, entry, thunk, imports>>
        /\ \/ xpc' = "sections" /\ UNCHANGED result
           \/ xpc' = "done" /\ result' = "refused"
    BY DEF TestXbe
  <1>2. EntryIsTheLinkers'
    BY <1>1, EntryFrame DEF XbeInv
  <1> QED
    BY <1>1, <1>2 DEF XbeInv, TypeInv, Untouched, Empty, Walk, Whole

LEMMA IdleInv ==
  ASSUME XbeInv, UNCHANGED xbeVars PROVE XbeInv'
  <1>1. UNCHANGED <<xbe, xpc, section, segments, entry, thunk, imports, result>>
    BY DEF xbeVars
  <1>2. EntryIsTheLinkers'
    BY <1>1, EntryFrame DEF XbeInv
  <1>3. Walk /\ Whole
    BY DEF XbeInv
  <1>4. \A o, n : Right(o, n)' <=> Right(o, n)
    BY <1>1, Frame DEF Right
  <1>5. Walk'
    BY <1>1, <1>3, <1>4, Frame DEF Walk
  <1>6. Whole'
    BY <1>1, <1>3, Frame DEF Whole
  <1> QED
    BY <1>1, <1>2, <1>5, <1>6 DEF XbeInv, TypeInv, Untouched, Empty

\* The entry point and the kernel imports of a loaded image are those its
\* linker stored under the keys, whatever the keys are (XbeLoader::load).
THEOREM LoadsAsLinked == XbeSpec => []LoadedAsLinked
  <1>1. ASSUME XbeInv, [XbeNext]_xbeVars PROVE XbeInv'
    BY <1>1, TestXbeInv, LoadSectionInv, MapKernelInv, DecodeEntryInv, DecodeKernelInv, ImportThunkInv,
       EndThunksInv, FinishInv, IdleInv DEF XbeNext
  <1>2. XbeInv => LoadedAsLinked
    BY DEF XbeInv, Whole, LoadedAsLinked, ImportsAreTheImages
  <1> QED
    BY XbeStarts, <1>1, <1>2, PTL DEF XbeSpec

-----------------------------------------------------------------------------
(***************************************************************************)
(* The consoles without sections.                                          *)
(***************************************************************************)

\* What each loader has left in a document that has segments.
LoadedBySystem ==
  /\ rom.system = "psxexe" => areas = ExeAreas
  /\ rom.system = "psxbios" => strings = StringsAt(KernelMaker) \cup StringsAt(GuiVersion)
  /\ rom.system = "n64" => start = N64Entry
  /\ rom.system = "gba" => start = ParseAddress(rom.branch)

ConsoleInv ==
  /\ rom \in Roms
  /\ rom.system \in {"psxexe", "psxbios", "n64", "gba", "chip8"}
  /\ stage \in {"test", "load", "analyze", "done"}
  /\ stage \in {"test", "load"} => ~Loaded
  /\ stage = "load" \/ Loaded => Accepted
  /\ Loaded => LoadedBySystem
  /\ stage # "done" => queue = << >>
  /\ stage = "analyze" => rom.system = "gba"
  /\ StartUpCodeDecodable

LEMMA RomFacts ==
  ASSUME rom \in Roms
  PROVE  /\ rom.system = "psxexe" => rom.taddr \in Nat /\ rom.tsize \in Nat
         /\ rom.system = "psxbios" => BiosText(rom.runs)
         /\ rom.system = "n64" => rom.pc \in Nat /\ rom.skip = BootCodeSkip(rom.cic)
         /\ rom.system = "gba" =>
              /\ rom.sum \in Nat /\ rom.checksum \in 0 .. 255 /\ rom.branch \in Nat
              /\ rom.texts \in Seq(Seq({"upper", "lower", "zero"}))
              /\ rom.main \subseteq Nat
<1>. DEFINE r == rom
<1>1. r \in Roms
  OBVIOUS
<1>. HIDE DEF r
<1>2. CASE r.system = "psxexe"
  BY <1>1, <1>2, ConsoleAssumption DEF r
<1>3. CASE r.system = "psxbios"
  BY <1>1, <1>3, ConsoleAssumption DEF r
<1>4. CASE r.system = "n64"
  BY <1>1, <1>4, ConsoleAssumption DEF r
<1>5. CASE r.system = "gba"
  BY <1>1, <1>5, ConsoleAssumption DEF r
<1>. QED
  BY <1>2, <1>3, <1>4, <1>5 DEF r

-----------------------------------------------------------------------------
(* The steps.                                                              *)

LEMMA Crt0Step ==
  ASSUME ConsoleInv, stage = "analyze", Crt0
  PROVE  StartUpCodeDecodable'
<1>. DEFINE main == { MainOf(p) : p \in rom.main }
            m == CHOOSE a \in main : TRUE
<1>1. \A a \in main : a \in Int /\ a % 2 = 0
  <2>1. \A p \in Nat : MainOf(p) \in Int /\ MainOf(p) % 2 = 0
    BY DEF MainOf
  <2>. QED
    BY <2>1, RomFacts DEF ConsoleInv
<1>2. queue = << >>
  BY DEF ConsoleInv
<1>3. functions' = [ a \in {rom.handler} \cup main |->
                       IF a \in main THEN [assembler |-> "thumble", name |-> "AgbMain"]
                       ELSE [assembler |-> "arm32le", name |-> "intr_main"] ]
  BY DEF Crt0
<1>4. queue' = queue \o <<rom.handler>> \o (IF main = {} THEN << >> ELSE << m >>)
  BY DEF Crt0
<1>5. main # {} => m \in main
  OBVIOUS
<1>. HIDE DEF main, m
<1>6. \A i \in DOMAIN queue' : queue'[i] \in {rom.handler} \cup main
  <2>. DEFINE S == {rom.handler} \cup main
              tail == IF main = {} THEN << >> ELSE << m >>
              q == << >> \o <<rom.handler>> \o tail
  <2>1. PICK h \in S : h = rom.handler
    OBVIOUS
  <2>2. tail \in Seq(S)
    <3>1. CASE main = {}
      BY <3>1
    <3>2. CASE main # {}
      <4>1. m \in S
        BY <1>5, <3>2
      <4>2. tail = << m >>
        BY <3>2
      <4>. HIDE DEF S, tail
      <4>. QED
        BY <4>1, <4>2
    <3>. QED
      BY <3>1, <3>2
  <2>3. << >> \in Seq(S) /\ <<h>> \in Seq(S)
    OBVIOUS
  <2>4. << >> \o <<h>> \in Seq(S)
    BY <2>3, ConcatProperties
  <2>. HIDE DEF S, tail
  <2>5. q \in Seq(S)
    BY <2>1, <2>2, <2>4, ConcatProperties
  <2>6. queue' = q
    BY <1>2, <1>4 DEF tail
  <2>. HIDE DEF q
  <2>7. \A i \in DOMAIN q : q[i] \in S
    BY <2>5
  <2>. QED
    BY <2>6, <2>7 DEF S
<1>7. \A a \in {rom.handler} \cup main :
        a \in DOMAIN functions' /\ (functions'[a].assembler = "thumble" => a % 2 = 0)
  BY <1>1, <1>3
<1>. QED
  BY <1>6, <1>7 DEF StartUpCodeDecodable

LEMMA ConsoleStarts == ConsoleInit => ConsoleInv
BY ConsoleAssumption DEF ConsoleInit, ConsoleStart, ConsoleInv, Loaded, StartUpCodeDecodable

\* Verdict and entry are the file's.
LEMMA FileStays ==
  ASSUME rom' = rom
  PROVE  /\ Accepted' <=> Accepted
         /\ ExeAreas' = ExeAreas
         /\ N64Entry' = N64Entry
         /\ \A a : StringsAt(a)' = StringsAt(a)
<1>1. Accepted' <=> Accepted
  BY SMT DEF Accepted, Uppercase, GbaChecksum
<1>2. ExeAreas' = ExeAreas
  BY SMT DEF ExeAreas, TextEnd
<1>3. N64Entry' = N64Entry
  BY SMT DEF N64Entry, ProgramCounter
<1>4. \A a : StringsAt(a)' = StringsAt(a)
  BY SMT DEF StringsAt, NextRun, RunEnd
<1>. QED
  BY <1>1, <1>2, <1>3, <1>4

LEMMA ConsoleSteps == ConsoleInv /\ [ConsoleNext]_consoleVars => ConsoleInv'
<1>. SUFFICES ASSUME ConsoleInv, [ConsoleNext]_consoleVars PROVE ConsoleInv'
  OBVIOUS
<1>1. rom' = rom
  BY DEF ConsoleNext, TestRom, LoadRom, AnalyzeCrt0, consoleVars
<1>2. (Accepted' <=> Accepted) /\ (UNCHANGED <<areas, start, strings>> => (LoadedBySystem' <=> LoadedBySystem))
  BY <1>1, FileStays DEF LoadedBySystem
<1>3. CASE TestRom
  BY <1>1, <1>2, <1>3 DEF TestRom, ConsoleInv, Loaded, StartUpCodeDecodable
<1>4. CASE LoadRom
  <2>1. /\ stage = "load" /\ Accepted' /\ UNCHANGED <<queue, functions>>
        /\ stage' = IF rom.system = "gba" THEN "analyze" ELSE "done"
    BY <1>2, <1>4 DEF LoadRom, LoadExe, LoadBios, LoadN64, LoadGba, LoadChip8, ConsoleInv
  <2>2. LoadedBySystem'
    BY <1>1, <1>4, FileStays DEF LoadRom, LoadExe, LoadBios, LoadN64, LoadGba, LoadChip8, LoadedBySystem
  <2>. QED
    BY <1>1, <2>1, <2>2 DEF ConsoleInv, StartUpCodeDecodable
<1>5. CASE AnalyzeCrt0
  <2>1. stage = "analyze" /\ stage' = "done" /\ UNCHANGED <<areas, start, strings>>
    BY <1>5 DEF AnalyzeCrt0
  <2>2. StartUpCodeDecodable'
    <3>1. CASE Crt0
      BY <2>1, <3>1, Crt0Step
    <3>2. CASE UNCHANGED <<functions, queue>>
      BY <3>2 DEF StartUpCodeDecodable, ConsoleInv
    <3>. QED
      BY <1>5, <3>1, <3>2 DEF AnalyzeCrt0
  <2>. QED
    BY <1>1, <1>2, <2>1, <2>2 DEF ConsoleInv, Loaded
<1>6. CASE UNCHANGED consoleVars
  BY <1>2, <1>6 DEF consoleVars, ConsoleInv, Loaded, StartUpCodeDecodable
<1>. QED
  BY <1>3, <1>4, <1>5, <1>6 DEF ConsoleNext

-----------------------------------------------------------------------------
(* What follows from it.                                                   *)

LEMMA HeadersSound == ConsoleInv => AcceptedHeadersAreSound
<1>. SUFFICES ASSUME ConsoleInv, Loaded, rom.system = "gba"
              PROVE  /\ (rom.sum + rom.checksum + 25) % 256 = 0
                     /\ \A t \in DOMAIN rom.texts : \A i \in DOMAIN rom.texts[t] :
                          (\A j \in 1 .. i : rom.texts[t][j] # "zero") => rom.texts[t][i] = "upper"
  BY DEF AcceptedHeadersAreSound
<1>1. /\ rom.sum \in Nat /\ rom.checksum \in 0 .. 255
      /\ \A t \in DOMAIN rom.texts : rom.texts[t] \in Seq({"upper", "lower", "zero"})
  <2>. DEFINE texts == rom.texts
  <2>1. texts \in Seq(Seq({"upper", "lower", "zero"}))
    BY RomFacts DEF ConsoleInv
  <2>. HIDE DEF texts
  <2>2. \A t \in DOMAIN texts : texts[t] \in Seq({"upper", "lower", "zero"})
    BY <2>1
  <2>. QED
    BY <2>2, RomFacts DEF ConsoleInv, texts
<1>2. (\A t \in DOMAIN rom.texts : Uppercase(rom.texts[t])) /\ rom.checksum = GbaChecksum
  BY DEF ConsoleInv, Accepted
<1>3. (rom.sum + rom.checksum + 25) % 256 = 0
  <2>. DEFINE s == rom.sum
  <2>1. s \in Nat /\ rom.checksum = (-s - 25) % 256
    BY <1>1, <1>2 DEF GbaChecksum
  <2>. HIDE DEF s
  <2>2. (s + ((-s - 25) % 256) + 25) % 256 = 0
    BY <2>1
  <2>. QED
    BY <2>1, <2>2 DEF s
<1>4. ASSUME NEW t \in DOMAIN rom.texts, NEW i \in DOMAIN rom.texts[t],
             \A j \in 1 .. i : rom.texts[t][j] # "zero"
      PROVE  rom.texts[t][i] = "upper"
  <2>. DEFINE field == rom.texts[t]
  <2>1. field \in Seq({"upper", "lower", "zero"}) /\ Uppercase(field) /\ i \in DOMAIN field
        /\ \A j \in 1 .. i : field[j] # "zero"
    BY <1>1, <1>2, <1>4
  <2>. HIDE DEF field
  <2>2. i \in 1 .. i /\ field[i] \in {"upper", "lower", "zero"}
    BY <2>1
  <2>3. field[i] # "lower"
    BY <2>1, Zenon DEF Uppercase
  <2>4. field[i] = "upper"
    BY <2>1, <2>2, <2>3, Zenon
  <2>. QED
    BY <2>4 DEF field
<1>. QED
  BY <1>3, <1>4

LEMMA StartSound == ConsoleInv => StartAsOnTheConsole
<1>. SUFFICES ASSUME ConsoleInv, Loaded PROVE StartAsOnTheConsole
  BY DEF StartAsOnTheConsole
<1>1. ASSUME rom.system = "gba", (rom.branch % 16777216) < 8388608
      PROVE  start = BranchTarget(rom.branch)
  <2>. DEFINE offset == rom.branch % 16777216
  <2>1. offset \in Int /\ offset < 8388608
    BY <1>1, RomFacts DEF ConsoleInv
  <2>2. start = RomStart + (offset * 4 + 8)
    BY <1>1, SMT DEF ConsoleInv, LoadedBySystem, ParseAddress
  <2>3. BranchTarget(rom.branch) = RomStart + 8 + 4 * offset
    BY <2>1, SMT DEF BranchTarget
  <2>4. RomStart \in Int
    BY SMT DEF RomStart
  <2>. HIDE DEF offset
  <2>. QED
    BY <2>1, <2>2, <2>3, <2>4
<1>2. ASSUME rom.system = "n64", rom.order = "big"
      PROVE  start = rom.pc - rom.skip
  <2>1. start = N64Entry /\ rom.pc \in Nat /\ rom.skip = BootCodeSkip(rom.cic)
    BY <1>2, RomFacts DEF ConsoleInv, LoadedBySystem
  <2>2. CASE rom.cic = 6103
    BY <1>2, <2>1, <2>2, SMT DEF N64Entry, ProgramCounter, BootCodeSkip, Cic6103Skip
  <2>3. CASE rom.cic = 6106
    BY <1>2, <2>1, <2>3, SMT DEF N64Entry, ProgramCounter, BootCodeSkip, Cic6106Skip
  <2>4. CASE rom.cic \notin {6103, 6106}
    BY <1>2, <2>1, <2>4, SMT DEF N64Entry, ProgramCounter, BootCodeSkip
  <2>. QED
    BY <2>2, <2>3, <2>4
<1>. QED
  BY <1>1, <1>2 DEF StartAsOnTheConsole

\* For every image: decoding begins where the console does, in an image whose
\* header stands the console's test, and in the state the processor has there.
THEOREM EntersAsTheConsole == ConsoleSpec => []EntryAsOnTheConsole
<1>1. ConsoleInv => EntryAsOnTheConsole
  BY HeadersSound, StartSound DEF EntryAsOnTheConsole, ConsoleInv
<1>. QED
  BY <1>1, ConsoleStarts, ConsoleSteps, PTL DEF ConsoleSpec

-----------------------------------------------------------------------------
(* The memory of PS-X.                                                     *)

\* Areas that meet: what is below one's end is not above it.
LEMMA TilesOnce == ConsoleInv => UserRamTiled
<1>. SUFFICES ASSUME ConsoleInv, Loaded, rom.system = "psxexe",
                     RamStart <= rom.taddr, rom.taddr + rom.tsize <= RamEnd,
                     NEW x \in RamStart .. RamEnd - 1
              PROVE  Cardinality({ a \in areas : In(a, x) }) = 1
  BY DEF UserRamTiled
<1>. DEFINE low  == Bss("RAM0", RamStart, rom.taddr - RamStart)
            exe == Area("TEXT", TextOffset, rom.taddr, rom.tsize, rom.tsize, "codedata")
            high == Bss("RAM1", TextEnd, RamEnd - TextEnd)
            t == rom.taddr
            n == rom.tsize
<1>1. t \in Nat /\ n \in Nat
  BY RomFacts DEF ConsoleInv
<1>2. RamStart \in Nat /\ RamEnd \in Nat /\ WordRange \in Nat /\ RamStart < RamEnd /\ RamEnd < WordRange
  BY ConsoleAssumption
<1>3. TextEnd = t + n
  <2>1. PICK e \in Nat : e = t + n
    BY <1>1
  <2>2. \A w \in Nat : e < w => e % w = e
    BY SMT
  <2>3. e < WordRange
    BY <1>1, <1>2, <2>1
  <2>. QED
    BY <1>2, <2>1, <2>2, <2>3 DEF TextEnd
<1>4. areas = (IF t > RamStart THEN {low} ELSE {}) \cup {exe} \cup (IF t + n < RamEnd THEN {high} ELSE {})
  BY <1>3 DEF ConsoleInv, LoadedBySystem, ExeAreas
<1>5. /\ In(low, x) <=> (RamStart <= x /\ x < RamStart + (t - RamStart))
      /\ In(exe, x) <=> (t <= x /\ x < t + n)
      /\ In(high, x) <=> (t + n <= x /\ x < t + n + (RamEnd - (t + n)))
  BY <1>3 DEF In, Bss, Area
<1>. HIDE DEF low, exe, high, t, n
<1>6. RamStart <= t /\ t + n <= RamEnd
  BY DEF t, n
<1>7. \E b : { a \in areas : In(a, x) } = {b}
  <2>1. CASE x < t
    <3>1. In(low, x) /\ ~In(exe, x) /\ (t + n < RamEnd => ~In(high, x)) /\ t > RamStart
      BY <1>1, <1>2, <1>5, <1>6, <2>1
    <3>2. { a \in areas : In(a, x) } = {low}
      BY <1>4, <3>1, Zenon
    <3>. QED
      BY <3>2
  <2>2. CASE t <= x /\ x < t + n
    <3>1. ~In(low, x) /\ In(exe, x) /\ ~In(high, x)
      BY <1>1, <1>2, <1>5, <1>6, <2>2
    <3>2. { a \in areas : In(a, x) } = {exe}
      BY <1>4, <3>1, Zenon
    <3>. QED
      BY <3>2
  <2>3. CASE t + n <= x
    <3>1. ~In(low, x) /\ ~In(exe, x) /\ In(high, x) /\ t + n < RamEnd
      BY <1>1, <1>2, <1>5, <1>6, <2>3
    <3>2. { a \in areas : In(a, x) } = {high}
      BY <1>4, <3>1, Zenon
    <3>. QED
      BY <3>2
  <2>4. x < t \/ (t <= x /\ x < t + n) \/ t + n <= x
    BY <1>1, <1>2
  <2>. QED
    BY <2>1, <2>2, <2>3, <2>4
<1>. QED
  BY <1>7, FS_Singleton

-----------------------------------------------------------------------------
(* The strings of the BIOS.                                                *)

\* A place within a run leads to the end of that run.
LEMMA RunEnds ==
  ASSUME BiosText(rom.runs), NEW a \in Nat,
         \E r \in rom.runs : r.first <= a /\ a < r.first + r.length
  PROVE  \E r \in rom.runs : /\ RunEnd(a) = r.first + r.length
                             /\ r.first <= a /\ a < r.first + r.length
<1>. DEFINE covering == { r \in rom.runs : r.first <= a /\ a < r.first + r.length }
            c == CHOOSE r \in covering : TRUE
<1>1. c \in covering
  OBVIOUS
<1>2. RunEnd(a) = c.first + c.length
  BY <1>1 DEF RunEnd
<1>. QED
  BY <1>1, <1>2

\* The next run begins at or behind the place, no other between.
LEMMA NextRuns ==
  ASSUME BiosText(rom.runs), NEW a \in Nat, \E r \in rom.runs : r.first >= a
  PROVE  /\ \E r \in rom.runs : NextRun(a) = r.first
         /\ NextRun(a) >= a
         /\ \A r \in rom.runs : r.first >= a => NextRun(a) <= r.first
<1>. DEFINE behind == { f \in { r.first : r \in rom.runs } : f >= a }
            Nearest(b) == b >= a /\ \A r \in rom.runs : r.first >= a => b <= r.first
<1>1. behind \in SUBSET Nat /\ behind # {}
  BY DEF BiosText
<1>2. PICK b \in behind : \A y \in behind : b <= y
  <2>. HIDE DEF behind
  <2>. QED
    BY <1>1, LeastNatural
<1>3. b \in { r.first : r \in rom.runs } /\ Nearest(b)
  BY <1>2
<1>4. NextRun(a) = CHOOSE f \in { r.first : r \in rom.runs } : Nearest(f)
  BY DEF NextRun
<1>5. NextRun(a) \in { r.first : r \in rom.runs } /\ Nearest(NextRun(a))
  <2>. HIDE DEF Nearest
  <2>. QED
    BY <1>3, <1>4
<1>. QED
  BY <1>5

\* The two strings at a place: the rest of its run, and the next run.
LEMMA StringsOfPlace ==
  ASSUME BiosText(rom.runs), NEW a \in Nat,
         \E r \in rom.runs : r.first <= a /\ a < r.first + r.length,
         \E r \in rom.runs : r.first > a
  PROVE  \E r, t \in rom.runs :
           /\ r.first <= a /\ a < r.first + r.length /\ a < t.first
           /\ \A u \in rom.runs : a < u.first => t.first <= u.first
           /\ StringsAt(a) = { [first |-> a, length |-> (r.first + r.length) - a],
                               [first |-> t.first, length |-> (t.first + t.length) - t.first] }
<1>1. /\ \A r \in rom.runs : r.first \in Nat /\ r.length \in Nat \ {0}
      /\ \A r, t \in rom.runs : r = t \/ r.first + r.length < t.first \/ t.first + t.length < r.first
  BY DEF BiosText
<1>2. PICK r \in rom.runs : RunEnd(a) = r.first + r.length /\ r.first <= a /\ a < r.first + r.length
  BY RunEnds
<1>3. \A u \in rom.runs : a < u.first => u.first > RunEnd(a)
  BY <1>1, <1>2
<1>4. PICK e \in Nat : e = RunEnd(a)
  BY <1>1, <1>2
<1>5. \E u \in rom.runs : u.first >= e
  BY <1>1, <1>3, <1>4
<1>6. PICK t \in rom.runs : NextRun(e) = t.first
  BY <1>4, <1>5, NextRuns
<1>7. t.first >= e /\ \A u \in rom.runs : u.first >= e => t.first <= u.first
  BY <1>4, <1>5, <1>6, NextRuns
<1>8. a < t.first /\ \A u \in rom.runs : a < u.first => t.first <= u.first
  BY <1>1, <1>2, <1>3, <1>4, <1>7
<1>9. PICK f \in Nat : f = t.first
  BY <1>1
<1>10. f <= f /\ t.first <= f /\ f < t.first + t.length
  BY <1>1, <1>9
<1>11. PICK c \in rom.runs : RunEnd(f) = c.first + c.length /\ c.first <= f /\ f < c.first + c.length
  BY <1>10, RunEnds
<1>12. c = t
  BY <1>1, <1>9, <1>10, <1>11
<1>13. StringsAt(a) = { [first |-> a, length |-> e - a], [first |-> f, length |-> RunEnd(f) - f] }
  BY <1>4, <1>6, <1>9 DEF StringsAt
<1>14. StringsAt(a) = { [first |-> a, length |-> (r.first + r.length) - a],
                        [first |-> t.first, length |-> (t.first + t.length) - t.first] }
  <2>. DEFINE Two(i, n, j, m) == { [first |-> i, length |-> n], [first |-> j, length |-> m] }
  <2>1. e - a = (r.first + r.length) - a /\ f = t.first /\ RunEnd(f) - f = (t.first + t.length) - t.first
    <3>1. e = r.first + r.length
      BY <1>2, <1>4
    <3>2. RunEnd(f) = t.first + t.length
      BY <1>11, <1>12
    <3>. QED
      BY <1>9, <3>1, <3>2, Zenon
  <2>2. StringsAt(a) = Two(a, e - a, f, RunEnd(f) - f)
    BY <1>13
  <2>. HIDE DEF Two
  <2>3. StringsAt(a) = Two(a, (r.first + r.length) - a, t.first, (t.first + t.length) - t.first)
    BY <2>1, <2>2
  <2>. QED
    BY <2>3 DEF Two
<1>. QED
  BY <1>2, <1>8, <1>14

LEMMA FourDistinct ==
  ASSUME NEW a, NEW b, NEW c, NEW d, a # b, a # c, a # d, b # c, b # d, c # d
  PROVE  Cardinality({a, b, c, d}) = 4
<1>1. IsFiniteSet({a}) /\ Cardinality({a}) = 1
  BY FS_Singleton
<1>2. IsFiniteSet({a} \cup {b}) /\ Cardinality({a} \cup {b}) = 2
  BY <1>1, FS_AddElement
<1>3. IsFiniteSet(({a} \cup {b}) \cup {c}) /\ Cardinality(({a} \cup {b}) \cup {c}) = 3
  BY <1>2, FS_AddElement
<1>4. Cardinality((({a} \cup {b}) \cup {c}) \cup {d}) = 4
  BY <1>3, FS_AddElement
<1>5. (({a} \cup {b}) \cup {c}) \cup {d} = {a, b, c, d}
  OBVIOUS
<1>. QED
  BY <1>4, <1>5

LEMMA StringsWhole == ConsoleInv => BiosStringsAreRuns
<1>. SUFFICES ASSUME ConsoleInv, Loaded, rom.system = "psxbios"
              PROVE  /\ Cardinality(strings) = 4
                     /\ \A s \in strings : \E r \in rom.runs :
                          /\ r.first + r.length = s.first + s.length
                          /\ s.first \in {r.first, KernelMaker, GuiVersion}
  BY DEF BiosStringsAreRuns
<1>1. BiosText(rom.runs) /\ strings = StringsAt(KernelMaker) \cup StringsAt(GuiVersion)
  BY RomFacts DEF ConsoleInv, LoadedBySystem
<1>2. PICK k, g \in Nat : k = KernelMaker /\ g = GuiVersion /\ k < g
  BY SMT DEF KernelMaker, GuiVersion
<1>3. /\ \A r \in rom.runs : r.first \in Nat /\ r.length \in Nat
      /\ \A place \in {k, g} : /\ \E t \in rom.runs : t.first <= place /\ place < t.first + t.length
                               /\ \E t \in rom.runs : t.first > place
      /\ \E t \in rom.runs : k < t.first /\ t.first < g
  BY <1>1, <1>2 DEF BiosText
<1>4. PICK r1, t1 \in rom.runs :
        /\ k < t1.first /\ \A u \in rom.runs : k < u.first => t1.first <= u.first
        /\ StringsAt(k) = { [first |-> k, length |-> (r1.first + r1.length) - k],
                            [first |-> t1.first, length |-> (t1.first + t1.length) - t1.first] }
  BY <1>1, <1>3, StringsOfPlace
<1>5. PICK r2, t2 \in rom.runs :
        /\ g < t2.first
        /\ StringsAt(g) = { [first |-> g, length |-> (r2.first + r2.length) - g],
                            [first |-> t2.first, length |-> (t2.first + t2.length) - t2.first] }
  BY <1>1, <1>3, StringsOfPlace
<1>6. t1.first < g
  BY <1>3, <1>4
<1>. DEFINE s1 == [first |-> k, length |-> (r1.first + r1.length) - k]
            s2 == [first |-> t1.first, length |-> (t1.first + t1.length) - t1.first]
            s3 == [first |-> g, length |-> (r2.first + r2.length) - g]
            s4 == [first |-> t2.first, length |-> (t2.first + t2.length) - t2.first]
<1>7. s1.first = k /\ s2.first = t1.first /\ s3.first = g /\ s4.first = t2.first
  OBVIOUS
<1>8. /\ r1.first + r1.length = s1.first + s1.length /\ t1.first + t1.length = s2.first + s2.length
      /\ r2.first + r2.length = s3.first + s3.length /\ t2.first + t2.length = s4.first + s4.length
  BY <1>2, <1>3
<1>9. strings = {s1, s2, s3, s4}
  BY <1>1, <1>2, <1>4, <1>5
<1>. HIDE DEF s1, s2, s3, s4
<1>10. k < t1.first /\ t1.first < g /\ g < t2.first /\ t1.first \in Nat /\ t2.first \in Nat
  BY <1>3, <1>4, <1>5, <1>6
<1>11. s1 # s2 /\ s1 # s3 /\ s1 # s4 /\ s2 # s3 /\ s2 # s4 /\ s3 # s4
  BY <1>2, <1>7, <1>10
<1>12. Cardinality(strings) = 4
  <2>1. Cardinality({s1, s2, s3, s4}) = 4
    BY <1>11, FourDistinct, Zenon
  <2>. QED
    BY <1>9, <2>1, Zenon
<1>13. ASSUME NEW s \in strings
       PROVE  \E r \in rom.runs : /\ r.first + r.length = s.first + s.length
                                  /\ s.first \in {r.first, KernelMaker, GuiVersion}
  BY <1>2, <1>7, <1>8, <1>9, <1>13
<1>. QED
  BY <1>12, <1>13

\* For every executable and every BIOS: the user's RAM is laid out whole and
\* once, and the BIOS's four strings are runs of its text.
THEOREM LiesAsOnTheConsole == ConsoleSpec => []MemoryAsOnTheConsole
<1>1. ConsoleInv => MemoryAsOnTheConsole
  BY TilesOnce, StringsWhole DEF MemoryAsOnTheConsole
<1>. QED
  BY <1>1, ConsoleStarts, ConsoleSteps, PTL DEF ConsoleSpec

(***************************************************************************)
(* CHIP-8: what emulate and the listing make of an opcode is what the      *)
(* decoder made of it, for every opcode at every address.                  *)
(***************************************************************************)

\* What the host reads an opcode from.
Word16(o) == o \in Nat /\ o < 65536

\* What was told of the opcode is what emulate and the listing made of it.
Chip8Inv ==
  /\ Word16(opcode)
  /\ pc \in {"emulate", "render", "done"}
  /\ pc # "emulate" => flow = Emulated(opcode)
  /\ pc = "done" => text = Rendered(Decode(opcode))

LEMMA Chip8Starts == Init => Chip8Inv
BY OpcodesAssumption DEF Init, Chip8Inv, Word16

LEMMA Chip8Steps == Chip8Inv /\ [Next]_vars => Chip8Inv'
<1>. SUFFICES ASSUME Chip8Inv, [Next]_vars PROVE Chip8Inv'
  OBVIOUS
<1>. USE DEF Chip8Inv
<1>1. CASE Emulate
  BY <1>1 DEF Emulate
<1>2. CASE RenderInstruction
  BY <1>2 DEF RenderInstruction
<1>3. CASE UNCHANGED vars
  BY <1>3 DEF vars
<1>. QED
  BY <1>1, <1>2, <1>3 DEF Next

\* The digits of an opcode.
LEMMA Digits ==
  ASSUME NEW o, Word16(o)
  PROVE  /\ B3(o) \in 0 .. 15 /\ B2(o) \in 0 .. 15 /\ B1(o) \in 0 .. 15 /\ B0(o) \in 0 .. 15
         /\ KK(o) \in 0 .. 255 /\ MMM(o) \in 0 .. 4095
         /\ KK(o) = B1(o) * 16 + B0(o)
         /\ MMM(o) = B2(o) * 256 + KK(o)
         /\ o = B3(o) * 4096 + MMM(o)
<1>1. B3(o) \in 0 .. 15
  BY SMT DEF Word16, B3
<1>2. B2(o) \in 0 .. 15 /\ B1(o) \in 0 .. 15 /\ B0(o) \in 0 .. 15
  BY SMT DEF Word16, B0, B1, B2
<1>3. KK(o) \in 0 .. 255 /\ MMM(o) \in 0 .. 4095
  BY SMT DEF Word16, KK, MMM
<1>4. KK(o) = B1(o) * 16 + B0(o)
  BY SMT DEF Word16, KK, B1, B0
<1>5. MMM(o) = B2(o) * 256 + KK(o)
  BY SMT DEF Word16, MMM, B2, KK
<1>6. o = B3(o) * 4096 + MMM(o)
  BY SMT DEF Word16, B3, MMM
<1>. QED
  BY <1>1, <1>2, <1>3, <1>4, <1>5, <1>6, SMT

\* Two opcodes are looked for as a whole, return and stop.
LEMMA WholeOpcodes ==
  ASSUME NEW o, Word16(o)
  PROVE  o \in Returning => (o = 238 /\ B3(o) = 0) \/ (B3(o) = 15 /\ KK(o) = 0)
BY SMT DEF Word16, B3, KK, Returning

\* What the two handlers with a byte of their own make of an opcode.
LEMMA HandlersOfMany ==
  ASSUME NEW o
  PROVE  /\ Decode0(o) # Undecoded => Decode0(o).op \in {"Nop", "Erase", "Return"}
         /\ Decode0(o) = Undecoded \/ Decode0(o).named
         /\ Decode0(o).op = "Return" <=> o = 238
         /\ Decode0(238) # Undecoded
         /\ DecodeE(o) # Undecoded => DecodeE(o).op \in {"Ske_Key", "Skne_Key"}
         /\ DecodeF(o) # Undecoded =>
              DecodeF(o).op \in {"GetTime", "GetKey", "SetTime", "SetPitch", "SetTone",
                                 "Add", "Copy2", "Copy"}
         /\ KK(o) = 0 => DecodeF(o) = Undecoded
<1>1. Decode0(o) # Undecoded => Decode0(o).op \in {"Nop", "Erase", "Return"}
  BY SMT DEF Decode0, Named, Undecoded
<1>2. Decode0(o) = Undecoded \/ Decode0(o).named
  BY SMT DEF Decode0, Named, Undecoded
<1>3. (Decode0(o).op = "Return" <=> o = 238) /\ Decode0(238) # Undecoded
  BY SMT DEF Decode0, Named, Undecoded
<1>4. DecodeE(o) # Undecoded => DecodeE(o).op \in {"Ske_Key", "Skne_Key"}
  BY SMT DEF DecodeE, Named
<1>5. DecodeF(o) # Undecoded =>
        DecodeF(o).op \in {"GetTime", "GetKey", "SetTime", "SetPitch", "SetTone", "Add", "Copy2", "Copy"}
  BY SMT DEF DecodeF, Unnamed
<1>6. KK(o) = 0 => DecodeF(o) = Undecoded
  BY SMT DEF DecodeF
<1>. QED
  BY <1>1, <1>2, <1>3, <1>4, <1>5, <1>6, Zenon

LEMMA Handler8 ==
  ASSUME NEW o, Word16(o)
  PROVE  /\ Decode8(o) = Undecoded \/ Decode8(o) = Unnamed("Copy", RegReg(o))
            \/ \E op \in {"Or", "And", "Xor", "Add", "Sub"} : Decode8(o) = Unnamed(op, RegReg(o))
<1>1. /\ Len(Operations8) = 6 /\ Operations8[1] = "Copy"
      /\ \A i \in 1 .. 5 : Operations8[i + 1] \in {"Or", "And", "Xor", "Add", "Sub"}
  BY SMT DEF Operations8
<1>2. B0(o) \in 0 .. 15
  BY SMT DEF Word16, B0
<1>. QED
  BY <1>1, <1>2, SMT DEF Decode8

\* What a decoded opcode is, as the flow of the program sees it.
LEMMA FlowFacts ==
  ASSUME NEW o, Word16(o), Decode(o) # Undecoded
  PROVE  /\ Decode(o).op = "Return" <=> o \in Returning
         /\ Decode(o).op = "Goto" <=> B3(o) = 1
         /\ Decode(o).op = "Do" <=> B3(o) = 2
         /\ Decode(o).op \in Skips <=> B3(o) \in {3, 4, 5, 9, 14}
         /\ B3(o) \in {1, 2} => Decode(o).operands[1][2] = MMM(o)
         /\ o \in Returning => B3(o) = 0
<1>. DEFINE other == {"Copy", "Add", "SetI", "GotoRel", "Rand", "Show", "Nop", "Erase", "Return",
                       "GetTime", "GetKey", "SetTime", "SetPitch", "SetTone", "Copy2",
                       "Or", "And", "Xor", "Sub"}
<1>1. B3(o) \in 0 .. 15
  BY SMT DEF Word16, B3
<1>2. o \in Returning => o = 238 /\ B3(o) = 0
  <2>1. o \in Returning => (o = 238 /\ B3(o) = 0) \/ (B3(o) = 15 /\ KK(o) = 0)
    BY WholeOpcodes, Zenon
  <2>2. B3(o) = 15 => Decode(o) = DecodeF(o)
    BY SMT DEF Decode
  <2>3. KK(o) = 0 => DecodeF(o) = Undecoded
    BY SMT DEF DecodeF
  <2>. QED
    BY <2>1, <2>2, <2>3, SMT
<1>3. B3(o) = 1 => Decode(o).op = "Goto" /\ Decode(o).operands[1][2] = MMM(o)
  <2>1. B3(o) = 1 => Decode(o) = Named("Goto", << Addr(MMM(o)) >>)
    BY SMT DEF Decode
  <2>. QED
    BY <2>1, SMT DEF Named, Addr
<1>4. B3(o) = 2 => Decode(o).op = "Do" /\ Decode(o).operands[1][2] = MMM(o)
  <2>1. B3(o) = 2 => Decode(o) = Named("Do", << Addr(MMM(o)) >>)
    BY SMT DEF Decode
  <2>. QED
    BY <2>1, SMT DEF Named, Addr
<1>5. B3(o) \in {3, 4, 5, 9} => Decode(o).op \in Skips
  <2>1. B3(o) \in {3, 4, 5, 9} =>
          \E op \in {"Ske", "Skne"} : \E operands : Decode(o) = Named(op, operands)
    BY SMT DEF Decode
  <2>. QED
    BY <2>1, SMT DEF Named, Skips
<1>6. B3(o) = 14 => Decode(o).op \in Skips
  <2>1. B3(o) = 14 => Decode(o) = DecodeE(o)
    BY SMT DEF Decode
  <2>2. DecodeE(o) # Undecoded => DecodeE(o).op \in {"Ske_Key", "Skne_Key"}
    BY HandlersOfMany, SMT
  <2>. QED
    BY <2>1, <2>2, SMT DEF Skips
<1>7. B3(o) \in {6, 7, 10, 11, 12, 13} => Decode(o).op \in other \ {"Return"}
  <2>1. B3(o) \in {6, 7, 10} =>
          \E op \in {"Copy", "Add", "SetI"} : \E operands : Decode(o) = Unnamed(op, operands)
    BY SMT DEF Decode
  <2>2. B3(o) \in {11, 12, 13} =>
          \E op \in {"GotoRel", "Rand", "Show"} : \E operands : Decode(o) = Named(op, operands)
    BY SMT DEF Decode, DecodeD
  <2>. QED
    BY <2>1, <2>2, SMT DEF Named, Unnamed
<1>8. B3(o) = 8 => Decode(o).op \in other \ {"Return"}
  <2>1. B3(o) = 8 => Decode(o) = Decode8(o)
    BY SMT DEF Decode
  <2>2. Decode8(o) = Undecoded \/
          \E op \in {"Copy", "Or", "And", "Xor", "Add", "Sub"} : Decode8(o) = Unnamed(op, RegReg(o))
    BY Handler8, SMT
  <2>. QED
    BY <2>1, <2>2, SMT DEF Unnamed
<1>9. B3(o) = 15 => Decode(o).op \in other \ {"Return"}
  <2>1. B3(o) = 15 => Decode(o) = DecodeF(o)
    BY SMT DEF Decode
  <2>2. DecodeF(o) # Undecoded =>
          DecodeF(o).op \in {"GetTime", "GetKey", "SetTime", "SetPitch", "SetTone", "Add", "Copy2", "Copy"}
    BY HandlersOfMany, SMT
  <2>. QED
    BY <2>1, <2>2, SMT
<1>10. B3(o) = 0 => Decode(o).op \in other /\ (Decode(o).op = "Return" <=> o = 238)
  <2>1. B3(o) = 0 => Decode(o) = Decode0(o)
    BY SMT DEF Decode
  <2>2. /\ Decode0(o) # Undecoded => Decode0(o).op \in {"Nop", "Erase", "Return"}
        /\ Decode0(o).op = "Return" <=> o = 238
    BY HandlersOfMany, SMT
  <2>. QED
    BY <2>1, <2>2, SMT
<1>11. other \cap (Skips \cup {"Goto", "Do"}) = {} /\ Skips \cap {"Goto", "Do", "Return"} = {}
  BY SMT DEF Skips
<1>. HIDE DEF other
<1>. QED
  <2>1. o = 238 => o \in Returning
    BY SMT DEF Returning
  <2>. QED
    BY <1>1, <1>2, <1>3, <1>4, <1>5, <1>6, <1>7, <1>8, <1>9, <1>10, <1>11, <2>1, SMT

\* What emulate makes of an opcode, by its first digit.
LEMMA EmulatedFacts ==
  ASSUME NEW o, Word16(o)
  PROVE  /\ Decode(o) = Undecoded => Emulated(o) = NoFlow
         /\ Decode(o) # Undecoded =>
              LET e == Emulated(o)
              IN  /\ e.size = 2
                  /\ e.returns <=> o \in Returning
                  /\ e.branches = IF o \in Returning THEN {}
                                  ELSE IF B3(o) = 1 THEN {MMM(o)}
                                  ELSE IF B3(o) \in {3, 4, 5, 9, 14} THEN {Address + 4} ELSE {}
                  /\ e.calls = IF o \notin Returning /\ B3(o) = 2 THEN {MMM(o)} ELSE {}
                  /\ e.next = IF o \notin Returning /\ B3(o) \in {3, 4, 5, 9, 14} THEN {Address + 2} ELSE {}
<1>1. Decode(o) = Undecoded => Emulated(o) = NoFlow
  BY SMT DEF Emulated
<1>. SUFFICES ASSUME Decode(o) # Undecoded, NEW e, e = Emulated(o)
              PROVE  /\ e.size = 2
                     /\ e.returns <=> o \in Returning
                     /\ e.branches = IF o \in Returning THEN {}
                                     ELSE IF B3(o) = 1 THEN {MMM(o)}
                                     ELSE IF B3(o) \in {3, 4, 5, 9, 14} THEN {Address + 4} ELSE {}
                     /\ e.calls = IF o \notin Returning /\ B3(o) = 2 THEN {MMM(o)} ELSE {}
                     /\ e.next = IF o \notin Returning /\ B3(o) \in {3, 4, 5, 9, 14}
                                 THEN {Address + 2} ELSE {}
  BY <1>1, SMT
<1>2. o \in Returning => e = Flow(TRUE, {}, {}, {})
  <2>1. o \in Returning => ~(B3(o) = 1) /\ ~(B3(o) = 2) /\ ~(B3(o) \in {3, 4, 5, 9, 14})
    BY WholeOpcodes, SMT
  <2>. QED
    BY <2>1, Zenon DEF Emulated
<1>3. o \notin Returning /\ B3(o) = 1 => e = Flow(FALSE, {MMM(o)}, {}, {})
  BY SMT DEF Emulated
<1>4. o \notin Returning /\ B3(o) = 2 => e = Flow(FALSE, {}, {MMM(o)}, {})
  BY SMT DEF Emulated
<1>5. o \notin Returning /\ B3(o) \in {3, 4, 5, 9, 14} =>
        e = Flow(FALSE, {Address + 4}, {}, {Address + 2})
  BY SMT DEF Emulated
<1>6. o \notin Returning /\ ~(B3(o) = 1) /\ ~(B3(o) = 2) /\ ~(B3(o) \in {3, 4, 5, 9, 14}) =>
        e = Flow(FALSE, {}, {}, {})
  BY Zenon DEF Emulated
<1>. QED
  BY <1>2, <1>3, <1>4, <1>5, <1>6, SMT DEF Flow

\* For every opcode at every address: what emulate tells the host of the flow
\* is what the instruction the decoder listed does.
THEOREM FlowIsAsDecoded == Spec => []FlowMatchesDecode
<1>1. Chip8Inv => FlowMatchesDecode
  <2>. SUFFICES ASSUME Chip8Inv, pc # "emulate", NEW insn, insn = Decode(opcode)
                PROVE  /\ (flow = NoFlow) <=> (insn = Undecoded)
                       /\ flow.returns <=> insn.op = "Return"
                       /\ flow.calls = IF insn.op = "Do" THEN {insn.operands[1][2]} ELSE {}
                       /\ flow.branches = CASE insn.op = "Goto" -> {insn.operands[1][2]}
                                            [] insn.op \in Skips -> {Address + 4}
                                            [] OTHER -> {}
                       /\ flow.next = IF insn.op \in Skips THEN {Address + 2} ELSE {}
    BY Zenon DEF FlowMatchesDecode
  <2>1. Word16(opcode) /\ flow = Emulated(opcode)
    BY DEF Chip8Inv
  <2>2. CASE insn = Undecoded
    <3>1. flow = NoFlow
      BY <2>1, <2>2, Zenon DEF Emulated
    <3>2. insn.op = "Unknown"
      BY <2>2 DEF Undecoded, Named
    <3>. QED
      BY <3>1, <3>2, <2>2, SMT DEF NoFlow, Skips
  <2>3. CASE insn # Undecoded
    <3>1. /\ insn.op = "Return" <=> opcode \in Returning
          /\ insn.op = "Goto" <=> B3(opcode) = 1
          /\ insn.op = "Do" <=> B3(opcode) = 2
          /\ insn.op \in Skips <=> B3(opcode) \in {3, 4, 5, 9, 14}
          /\ B3(opcode) \in {1, 2} => insn.operands[1][2] = MMM(opcode)
          /\ opcode \in Returning => B3(opcode) = 0
      BY <2>1, <2>3, FlowFacts, SMT
    <3>3. /\ flow.size = 2
          /\ flow.returns <=> opcode \in Returning
          /\ flow.branches = IF opcode \in Returning THEN {}
                             ELSE IF B3(opcode) = 1 THEN {MMM(opcode)}
                             ELSE IF B3(opcode) \in {3, 4, 5, 9, 14} THEN {Address + 4} ELSE {}
          /\ flow.calls = IF opcode \notin Returning /\ B3(opcode) = 2 THEN {MMM(opcode)} ELSE {}
          /\ flow.next = IF opcode \notin Returning /\ B3(opcode) \in {3, 4, 5, 9, 14}
                         THEN {Address + 2} ELSE {}
      BY <2>1, <2>3, EmulatedFacts, SMT
    <3>4. flow # NoFlow
      BY <3>3, SMT DEF NoFlow
    <3>5. insn.op \in Skips => insn.op # "Goto"
      BY SMT DEF Skips
    <3>. QED
      BY <2>3, <3>1, <3>3, <3>4, <3>5, SMT
  <2>. QED
    BY <2>2, <2>3
<1>. QED
  BY <1>1, Chip8Starts, Chip8Steps, PTL DEF Spec

-----------------------------------------------------------------------------
(* The listing of an opcode.                                                *)

NumberTypes == {"Register", "Constant", "Address", "Register_Range"}

\* The registers an opcode names as a whole, which are written as they are.
MarkerTypes == {"Register_KEY", "Register_TIME", "Register_PITCH", "Register_TONE", "Register_I",
                "Register_MI", "Register_DEQ", "Register_DSP", "Register_RS485", "Register_BAUD"}

\* An operand that is written as it is.
Written(a) == a # Null /\ a[1] # "???"

LEMMA OperandsWritten ==
  ASSUME NEW x
  PROVE  /\ Written(Reg(x)) /\ Written(Const(x)) /\ Written(Addr(x)) /\ Written(Registers(x))
         /\ \A t \in MarkerTypes : Written(Special(t)) /\ Special(t)[1] \notin NumberTypes
         /\ Reg(x)[1] \in NumberTypes /\ Reg(x)[2] = x
         /\ Const(x)[1] \in NumberTypes /\ Const(x)[2] = x
         /\ Addr(x)[1] \in NumberTypes /\ Addr(x)[2] = x
         /\ Registers(x)[1] \in NumberTypes /\ Registers(x)[2] = x
BY SMT DEF Written, Reg, Const, Addr, Registers, Special, Null, NumberTypes, MarkerTypes

LEMMA ShownWritten == ASSUME NEW a, Written(a) PROVE Shown(a) = a
BY Zenon DEF Shown, Written

LEMMA AllWritten ==
  ASSUME NEW a, NEW b, Written(b)
  PROVE  AllShown(<< a >>) = << Shown(a) >> /\ AllShown(<< a, b >>) = << Shown(a), b >>
<1>1. Shown(b) = b
  BY ShownWritten, Zenon
<1>2. [ i \in DOMAIN << a >> |-> Shown(<< a >>[i]) ] = << Shown(a) >>
  BY SMT
<1>3. [ i \in DOMAIN << a, b >> |-> Shown(<< a, b >>[i]) ] = << Shown(a), b >>
  BY <1>1, SMT
<1>. QED
  BY <1>2, <1>3, Zenon DEF AllShown

LEMMA AllWrittenThree ==
  ASSUME NEW a, NEW b, NEW c, Written(b), Written(c)
  PROVE  AllShown(<< a, b, c >>) = << Shown(a), b, c >>
<1>1. Shown(b) = b /\ Shown(c) = c
  BY ShownWritten, Zenon
<1>2. [ i \in DOMAIN << a, b, c >> |-> Shown(<< a, b, c >>[i]) ] = << Shown(a), b, c >>
  BY <1>1, SMT
<1>. QED
  BY <1>2, Zenon DEF AllShown

\* Two elements of a sequence of two, three of one of three.
LEMMA WholeOf ==
  ASSUME NEW a, NEW b, NEW c
  PROVE  SubSeq(<< a, b >>, 1, 2) = << a, b >> /\ SubSeq(<< a, b, c >>, 1, 3) = << a, b, c >>
<1>1. SubSeq(<< a, b >>, 1, 2) = << a, b >>
  <2>1. << a, b >> \in Seq({a, b}) /\ Len(<< a, b >>) = 2
    BY SMT
  <2>. QED
    <3>1. SubSeq(<< a, b >>, 1, Len(<< a, b >>)) = << a, b >>
      BY <2>1, SubSeqFull, Zenon
    <3>. QED
      BY <2>1, <3>1, Zenon
<1>2. SubSeq(<< a, b, c >>, 1, 3) = << a, b, c >>
  <2>1. << a, b, c >> \in Seq({a, b, c}) /\ Len(<< a, b, c >>) = 3
    BY SMT
  <2>. QED
    <3>1. SubSeq(<< a, b, c >>, 1, Len(<< a, b, c >>)) = << a, b, c >>
      BY <2>1, SubSeqFull, Zenon
    <3>. QED
      BY <2>1, <3>1, Zenon
<1>. QED
  BY <1>1, <1>2

\* The numbered operands of a listing of one, two and three operands.
LEMMA NumberedOf ==
  ASSUME NEW a, NEW b, NEW c
  PROVE  /\ 1 \in Numbered(<< a >>) <=> a[1] \in NumberTypes
         /\ \A i \in {1, 2} : i \in Numbered(<< a, b >>) <=> << a, b >>[i][1] \in NumberTypes
         /\ \A i \in {1, 2, 3} : i \in Numbered(<< a, b, c >>) <=> << a, b, c >>[i][1] \in NumberTypes
         /\ Numbered(<< a, b >>) \subseteq {1, 2} /\ Numbered(<< a, b, c >>) \subseteq {1, 2, 3}
<1>1. ASSUME NEW t PROVE Numbered(t) = { i \in DOMAIN t : t[i][1] \in NumberTypes }
  BY Zenon DEF Numbered, NumberTypes
<1>2. /\ DOMAIN << a >> = {1} /\ DOMAIN << a, b >> = {1, 2} /\ DOMAIN << a, b, c >> = {1, 2, 3}
      /\ << a >>[1] = a
  BY SMT
<1>. QED
  BY <1>1, <1>2, Zenon

\* The number an operand of a listing stands for.
Num(t, i) == IF i \in Numbered(t) THEN t[i][2] ELSE 0

Number(a, x) == Written(a) /\ a[1] \in NumberTypes /\ a[2] = x
Marker(a) == Written(a) /\ a[1] \notin NumberTypes

LEMMA OperandKinds ==
  /\ \A x : Number(Reg(x), x) /\ Number(Const(x), x) /\ Number(Addr(x), x) /\ Number(Registers(x), x)
  /\ \A t \in MarkerTypes : Marker(Special(t))
BY OperandsWritten, Zenon DEF Number, Marker

LEMMA FirstNumber ==
  ASSUME NEW a, NEW b, NEW c, NEW x, Number(a, x)
  PROVE  Num(<< a >>, 1) = x /\ Num(<< a, b >>, 1) = x /\ Num(<< a, b, c >>, 1) = x
<1>1. << a >>[1] = a /\ << a, b >>[1] = a /\ << a, b, c >>[1] = a
  BY SMT
<1>. QED
  BY <1>1, NumberedOf, Zenon DEF Num, Number

LEMMA SecondNumber ==
  ASSUME NEW a, NEW b, NEW c, NEW x, Number(b, x)
  PROVE  Num(<< a, b >>, 2) = x /\ Num(<< a, b, c >>, 2) = x
<1>1. << a, b >>[2] = b /\ << a, b, c >>[2] = b
  BY SMT
<1>. QED
  BY <1>1, NumberedOf, Zenon DEF Num, Number

LEMMA ThirdNumber ==
  ASSUME NEW a, NEW b, NEW c, NEW x, Number(c, x) PROVE Num(<< a, b, c >>, 3) = x
<1>1. << a, b, c >>[3] = c
  BY SMT
<1>. QED
  BY <1>1, NumberedOf, Zenon DEF Num, Number

\* What an opcode is put together from, by its first digit.
LEMMA EncodedBy ==
  ASSUME NEW o, NEW t
  PROVE  /\ B3(o) \in {1, 2} => Encoded(o, t) = B3(o) * 4096 + Num(t, 1)
         /\ B3(o) \in {3, 6, 12} => Encoded(o, t) = B3(o) * 4096 + Num(t, 1) * 256 + Num(t, 2)
         /\ B3(o) = 7 => Encoded(o, t) = 7 * 4096 + Num(t, 1) * 256 + Num(t, 3)
         /\ B3(o) \in {5, 9} => Encoded(o, t) = B3(o) * 4096 + Num(t, 1) * 256 + Num(t, 2) * 16
         /\ B3(o) = 8 => Encoded(o, t) = 8 * 4096 + Num(t, 1) * 256 + Num(t, Len(t)) * 16 + B0(o)
         /\ B3(o) = 10 => Encoded(o, t) = 10 * 4096 + Num(t, 2)
         /\ B3(o) = 11 => Encoded(o, t) = 11 * 4096 + Num(t, 1)
         /\ B3(o) = 13 => Encoded(o, t) = 13 * 4096 + Num(t, 2) * 256 + Num(t, 3) * 16 + Num(t, 1)
         /\ B3(o) = 0 => Encoded(o, t) = o
<1>1. B3(o) \in {1, 2} => Encoded(o, t) = B3(o) * 4096 + Num(t, 1)
  BY SMT DEF Encoded, Num
<1>2. B3(o) \in {3, 6, 12} => Encoded(o, t) = B3(o) * 4096 + Num(t, 1) * 256 + Num(t, 2)
  BY SMT DEF Encoded, Num
<1>3. B3(o) = 7 => Encoded(o, t) = 7 * 4096 + Num(t, 1) * 256 + Num(t, 3)
  BY SMT DEF Encoded, Num
<1>4. B3(o) \in {5, 9} => Encoded(o, t) = B3(o) * 4096 + Num(t, 1) * 256 + Num(t, 2) * 16
  BY SMT DEF Encoded, Num
<1>5. B3(o) = 8 => Encoded(o, t) = 8 * 4096 + Num(t, 1) * 256 + Num(t, Len(t)) * 16 + B0(o)
  BY SMT DEF Encoded, Num
<1>6. B3(o) = 10 => Encoded(o, t) = 10 * 4096 + Num(t, 2)
  BY SMT DEF Encoded, Num
<1>7. B3(o) = 11 => Encoded(o, t) = 11 * 4096 + Num(t, 1)
  BY SMT DEF Encoded, Num
<1>8. B3(o) = 13 => Encoded(o, t) = 13 * 4096 + Num(t, 2) * 256 + Num(t, 3) * 16 + Num(t, 1)
  BY SMT DEF Encoded, Num
<1>9. B3(o) = 0 => Encoded(o, t) = o
  BY SMT DEF Encoded, Num
<1>. QED
  BY <1>1, <1>2, <1>3, <1>4, <1>5, <1>6, <1>7, <1>8, <1>9, SMT

\* Of several operands the only one with a number is looked for.
LEMMA EncodedByOnly ==
  ASSUME NEW o, NEW t, NEW k, Numbered(t) = {k}, B3(o) \in {14, 15}
  PROVE  Encoded(o, t) = B3(o) * 4096 + t[k][2] * 256 + KK(o)
<1>. DEFINE place == CHOOSE i \in Numbered(t) : TRUE
<1>1. place = k
  BY Zenon
<1>2. Encoded(o, t) = B3(o) * 4096 + t[place][2] * 256 + KK(o)
  BY SMT DEF Encoded
<1>. HIDE DEF place
<1>. QED
  BY <1>1, <1>2, SMT

\* A listing that has every operand of its instruction, none of them unknown.
Plain(operands, t) == Len(t) >= Len(operands) /\ \A i \in DOMAIN t : t[i][1] # "???"

LEMMA PlainListings ==
  ASSUME NEW p, NEW q, NEW r, NEW a, NEW b, NEW c, Written(a), Written(b), Written(c)
  PROVE  /\ Plain(<< >>, << >>) /\ Plain(<< p >>, << a >>) /\ Plain(<< p, q >>, << a, b >>)
         /\ Plain(<< p, q >>, << a, b, c >>) /\ Plain(<< p, q, r >>, << a, b, c >>)
<1>1. a[1] # "???" /\ b[1] # "???" /\ c[1] # "???"
  BY Zenon DEF Written
<1>. QED
  BY <1>1, SMT DEF Plain

\* What ListingKeepsOperands asks of the listing of an opcode that decodes.
Kept(o, operands, t) ==
  /\ Len(t) >= Len(operands)
  /\ (\E i \in DOMAIN t : t[i][1] = "???") => (B3(o) = 15 /\ KK(o) = 112)
  /\ (B3(o) # 4 /\ (B3(o) \in {5, 9} => B0(o) = 0) /\ (B3(o) = 15 => KK(o) # 113)) => Encoded(o, t) = o

LEMMA KeptBy ==
  ASSUME NEW o, NEW operands, NEW t, Plain(operands, t), Encoded(o, t) = o
  PROVE  Kept(o, operands, t)
BY Zenon DEF Kept, Plain

\* One operand, an address.
LEMMA KeptOne ==
  ASSUME NEW o, Word16(o), NEW p, NEW a, Number(a, MMM(o))
  PROVE  B3(o) \in {1, 2} => Kept(o, << p >>, << a >>)
<1>. SUFFICES ASSUME B3(o) \in {1, 2} PROVE Kept(o, << p >>, << a >>)
  BY Zenon
<1>. DEFINE t == << a >>
<1>1. Plain(<< p >>, t)
  BY PlainListings DEF Number, Marker
<1>2. Num(t, 1) = MMM(o)
  BY FirstNumber, Zenon
<1>. HIDE DEF t
<1>3. Encoded(o, t) = B3(o) * 4096 + MMM(o)
  BY <1>2, EncodedBy, SMT
<1>4. Encoded(o, t) = o
  BY <1>3, Digits, SMT
<1>5. Kept(o, << p >>, t)
  BY <1>1, <1>4, KeptBy, Zenon
<1>. QED
  BY <1>5 DEF t

\* A register and a byte.
LEMMA KeptRegisterByte ==
  ASSUME NEW o, Word16(o), NEW p, NEW q, NEW a, NEW b, Number(a, B2(o)), Number(b, KK(o))
  PROVE  B3(o) \in {3, 6, 12} => Kept(o, << p, q >>, << a, b >>)
<1>. SUFFICES ASSUME B3(o) \in {3, 6, 12} PROVE Kept(o, << p, q >>, << a, b >>)
  BY Zenon
<1>. DEFINE t == << a, b >>
<1>1. Plain(<< p, q >>, t)
  BY PlainListings DEF Number, Marker
<1>2. Num(t, 1) = B2(o) /\ Num(t, 2) = KK(o)
  <2>1. Num(t, 1) = B2(o)
    BY FirstNumber, Zenon
  <2>2. Num(t, 2) = KK(o)
    BY SecondNumber, Zenon
  <2>. QED
    BY <2>1, <2>2, Zenon
<1>. HIDE DEF t
<1>3. Encoded(o, t) = B3(o) * 4096 + B2(o) * 256 + KK(o)
  BY <1>2, EncodedBy, SMT
<1>4. Encoded(o, t) = o
  BY <1>3, Digits, SMT
<1>5. Kept(o, << p, q >>, t)
  BY <1>1, <1>4, KeptBy, Zenon
<1>. QED
  BY <1>5 DEF t

\* A sum repeats its first operand.
LEMMA KeptSum ==
  ASSUME NEW o, Word16(o), NEW p, NEW q, NEW a, NEW b, Number(a, B2(o)), Number(b, KK(o))
  PROVE  B3(o) = 7 => Kept(o, << p, q >>, << a, a, b >>)
<1>. SUFFICES ASSUME B3(o) = 7 PROVE Kept(o, << p, q >>, << a, a, b >>)
  BY Zenon
<1>. DEFINE t == << a, a, b >>
<1>1. Plain(<< p, q >>, t)
  BY PlainListings DEF Number, Marker
<1>2. Num(t, 1) = B2(o) /\ Num(t, 3) = KK(o)
  <2>1. Num(t, 1) = B2(o)
    BY FirstNumber, Zenon
  <2>2. Num(t, 3) = KK(o)
    BY ThirdNumber, Zenon
  <2>. QED
    BY <2>1, <2>2, Zenon
<1>. HIDE DEF t
<1>3. Encoded(o, t) = 7 * 4096 + B2(o) * 256 + KK(o)
  BY <1>2, EncodedBy, SMT
<1>4. Encoded(o, t) = o
  BY <1>3, Digits, SMT
<1>5. Kept(o, << p, q >>, t)
  BY <1>1, <1>4, KeptBy, Zenon
<1>. QED
  BY <1>5 DEF t

\* Two registers, of an opcode whose low digit is zero.
LEMMA KeptRegisters ==
  ASSUME NEW o, Word16(o), NEW p, NEW q, NEW a, NEW b, Number(a, B2(o)), Number(b, B1(o))
  PROVE  (B3(o) \in {5, 9} /\ B0(o) = 0) => Kept(o, << p, q >>, << a, b >>)
<1>. SUFFICES ASSUME (B3(o) \in {5, 9} /\ B0(o) = 0) PROVE Kept(o, << p, q >>, << a, b >>)
  BY Zenon
<1>. DEFINE t == << a, b >>
<1>1. Plain(<< p, q >>, t)
  BY PlainListings DEF Number, Marker
<1>2. Num(t, 1) = B2(o) /\ Num(t, 2) = B1(o)
  <2>1. Num(t, 1) = B2(o)
    BY FirstNumber, Zenon
  <2>2. Num(t, 2) = B1(o)
    BY SecondNumber, Zenon
  <2>. QED
    BY <2>1, <2>2, Zenon
<1>. HIDE DEF t
<1>3. Encoded(o, t) = B3(o) * 4096 + B2(o) * 256 + B1(o) * 16
  BY <1>2, EncodedBy, SMT
<1>4. Encoded(o, t) = o
  BY <1>3, Digits, SMT
<1>5. Kept(o, << p, q >>, t)
  BY <1>1, <1>4, KeptBy, Zenon
<1>. QED
  BY <1>5 DEF t

\* The index register and an address.
LEMMA KeptImmediate ==
  ASSUME NEW o, Word16(o), NEW p, NEW q, NEW a, NEW b, Marker(a), Number(b, MMM(o))
  PROVE  B3(o) = 10 => Kept(o, << p, q >>, << a, b >>)
<1>. SUFFICES ASSUME B3(o) = 10 PROVE Kept(o, << p, q >>, << a, b >>)
  BY Zenon
<1>. DEFINE t == << a, b >>
<1>1. Plain(<< p, q >>, t)
  BY PlainListings DEF Number, Marker
<1>2. Num(t, 2) = MMM(o)
  BY SecondNumber, Zenon
<1>. HIDE DEF t
<1>3. Encoded(o, t) = 10 * 4096 + MMM(o)
  BY <1>2, EncodedBy, SMT
<1>4. Encoded(o, t) = o
  BY <1>3, Digits, SMT
<1>5. Kept(o, << p, q >>, t)
  BY <1>1, <1>4, KeptBy, Zenon
<1>. QED
  BY <1>5 DEF t

\* An address and the register added to it.
LEMMA KeptIndexed ==
  ASSUME NEW o, Word16(o), NEW p, NEW q, NEW a, NEW b, Number(a, MMM(o)), Number(b, 0)
  PROVE  B3(o) = 11 => Kept(o, << p, q >>, << a, b >>)
<1>. SUFFICES ASSUME B3(o) = 11 PROVE Kept(o, << p, q >>, << a, b >>)
  BY Zenon
<1>. DEFINE t == << a, b >>
<1>1. Plain(<< p, q >>, t)
  BY PlainListings DEF Number, Marker
<1>2. Num(t, 1) = MMM(o)
  BY FirstNumber, Zenon
<1>. HIDE DEF t
<1>3. Encoded(o, t) = 11 * 4096 + MMM(o)
  BY <1>2, EncodedBy, SMT
<1>4. Encoded(o, t) = o
  BY <1>3, Digits, SMT
<1>5. Kept(o, << p, q >>, t)
  BY <1>1, <1>4, KeptBy, Zenon
<1>. QED
  BY <1>5 DEF t

\* A height and two registers.
LEMMA KeptShow ==
  ASSUME NEW o, Word16(o), NEW p, NEW q, NEW r, NEW a, NEW b, NEW c,
         Number(a, B0(o)), Number(b, B2(o)), Number(c, B1(o))
  PROVE  B3(o) = 13 => Kept(o, << p, q, r >>, << a, b, c >>)
<1>. SUFFICES ASSUME B3(o) = 13 PROVE Kept(o, << p, q, r >>, << a, b, c >>)
  BY Zenon
<1>. DEFINE t == << a, b, c >>
<1>1. Plain(<< p, q, r >>, t)
  BY PlainListings DEF Number, Marker
<1>2. Num(t, 1) = B0(o) /\ Num(t, 2) = B2(o) /\ Num(t, 3) = B1(o)
  <2>1. Num(t, 1) = B0(o)
    BY FirstNumber, Zenon
  <2>2. Num(t, 2) = B2(o)
    BY SecondNumber, Zenon
  <2>3. Num(t, 3) = B1(o)
    BY ThirdNumber, Zenon
  <2>. QED
    BY <2>1, <2>2, <2>3, Zenon
<1>. HIDE DEF t
<1>3. Encoded(o, t) = 13 * 4096 + B2(o) * 256 + B1(o) * 16 + B0(o)
  BY <1>2, EncodedBy, SMT
<1>4. Encoded(o, t) = o
  BY <1>3, Digits, SMT
<1>5. Kept(o, << p, q, r >>, t)
  BY <1>1, <1>4, KeptBy, Zenon
<1>. QED
  BY <1>5 DEF t

\* An operation of the eighth group that is listed with its operands.
LEMMA KeptMove ==
  ASSUME NEW o, Word16(o), NEW p, NEW q, NEW a, NEW b, Number(a, B2(o)), Number(b, B1(o))
  PROVE  B3(o) = 8 => Kept(o, << p, q >>, << a, b >>)
<1>. SUFFICES ASSUME B3(o) = 8 PROVE Kept(o, << p, q >>, << a, b >>)
  BY Zenon
<1>. DEFINE t == << a, b >>
<1>1. Plain(<< p, q >>, t)
  BY PlainListings DEF Number, Marker
<1>2. Num(t, 1) = B2(o) /\ Num(t, 2) = B1(o) /\ Len(t) = 2
  <2>1. Num(t, 1) = B2(o)
    BY FirstNumber, Zenon
  <2>2. Num(t, 2) = B1(o)
    BY SecondNumber, Zenon
  <2>3. Len(t) = 2
    BY SMT
  <2>. QED
    BY <2>1, <2>2, <2>3, Zenon
<1>. HIDE DEF t
<1>3. Encoded(o, t) = 8 * 4096 + B2(o) * 256 + B1(o) * 16 + B0(o)
  <2>1. Encoded(o, t) = 8 * 4096 + Num(t, 1) * 256 + Num(t, Len(t)) * 16 + B0(o)
    BY EncodedBy, SMT
  <2>. QED
    BY <1>2, <2>1, SMT
<1>4. Encoded(o, t) = o
  BY <1>3, Digits, SMT
<1>5. Kept(o, << p, q >>, t)
  BY <1>1, <1>4, KeptBy, Zenon
<1>. QED
  BY <1>5 DEF t

\* One that repeats its first operand.
LEMMA KeptMath ==
  ASSUME NEW o, Word16(o), NEW p, NEW q, NEW a, NEW b, Number(a, B2(o)), Number(b, B1(o))
  PROVE  B3(o) = 8 => Kept(o, << p, q >>, << a, a, b >>)
<1>. SUFFICES ASSUME B3(o) = 8 PROVE Kept(o, << p, q >>, << a, a, b >>)
  BY Zenon
<1>. DEFINE t == << a, a, b >>
<1>1. Plain(<< p, q >>, t)
  BY PlainListings DEF Number, Marker
<1>2. Num(t, 1) = B2(o) /\ Num(t, 3) = B1(o) /\ Len(t) = 3
  <2>1. Num(t, 1) = B2(o)
    BY FirstNumber, Zenon
  <2>2. Num(t, 3) = B1(o)
    BY ThirdNumber, Zenon
  <2>3. Len(t) = 3
    BY SMT
  <2>. QED
    BY <2>1, <2>2, <2>3, Zenon
<1>. HIDE DEF t
<1>3. Encoded(o, t) = 8 * 4096 + B2(o) * 256 + B1(o) * 16 + B0(o)
  <2>1. Encoded(o, t) = 8 * 4096 + Num(t, 1) * 256 + Num(t, Len(t)) * 16 + B0(o)
    BY EncodedBy, SMT
  <2>. QED
    BY <1>2, <2>1, SMT
<1>4. Encoded(o, t) = o
  BY <1>3, Digits, SMT
<1>5. Kept(o, << p, q >>, t)
  BY <1>1, <1>4, KeptBy, Zenon
<1>. QED
  BY <1>5 DEF t

\* The opcodes of the last two groups have one register each, and markers.
LEMMA EncodedByLast ==
  ASSUME NEW o, Word16(o), B3(o) \in {14, 15}, NEW t, NEW k, Numbered(t) = {k}, t[k][2] = B2(o)
  PROVE  Encoded(o, t) = o
<1>1. Encoded(o, t) = B3(o) * 4096 + t[k][2] * 256 + KK(o)
  BY EncodedByOnly
<1>. QED
  BY <1>1, Digits, SMT

LEMMA KeptRegisterFirst ==
  ASSUME NEW o, Word16(o), B3(o) \in {14, 15}, NEW p, NEW q, NEW a, NEW b,
         Number(a, B2(o)), Marker(b)
  PROVE  Kept(o, << p, q >>, << a, b >>)
<1>. DEFINE t == << a, b >>
<1>1. Plain(<< p, q >>, t)
  BY PlainListings DEF Number, Marker
<1>2. t[1] = a /\ t[2] = b
  BY SMT
<1>3. Numbered(t) \subseteq {1, 2} /\ 1 \in Numbered(t) /\ 2 \notin Numbered(t)
  BY <1>2, NumberedOf, Zenon DEF Number, Marker
<1>. HIDE DEF t
<1>4. Numbered(t) = {1} /\ t[1][2] = B2(o)
  BY <1>2, <1>3, Zenon DEF Number
<1>5. Kept(o, << p, q >>, t)
  BY <1>1, <1>4, EncodedByLast, KeptBy, Zenon
<1>. QED
  BY <1>5 DEF t

LEMMA KeptRegisterLast ==
  ASSUME NEW o, Word16(o), B3(o) \in {14, 15}, NEW p, NEW q, NEW a, NEW b,
         Marker(a), Number(b, B2(o))
  PROVE  Kept(o, << p, q >>, << a, b >>)
<1>. DEFINE t == << a, b >>
<1>1. Plain(<< p, q >>, t)
  BY PlainListings DEF Number, Marker
<1>2. t[1] = a /\ t[2] = b
  BY SMT
<1>3. Numbered(t) \subseteq {1, 2} /\ 2 \in Numbered(t) /\ 1 \notin Numbered(t)
  BY <1>2, NumberedOf, Zenon DEF Number, Marker
<1>. HIDE DEF t
<1>4. Numbered(t) = {2} /\ t[2][2] = B2(o)
  BY <1>2, <1>3, Zenon DEF Number
<1>5. Kept(o, << p, q >>, t)
  BY <1>1, <1>4, EncodedByLast, KeptBy, Zenon
<1>. QED
  BY <1>5 DEF t

LEMMA KeptRegisterTwice ==
  ASSUME NEW o, Word16(o), B3(o) \in {14, 15}, NEW p, NEW q, NEW a, NEW b, NEW c,
         Marker(a), Marker(b), Number(c, B2(o))
  PROVE  Kept(o, << p, q >>, << a, b, c >>)
<1>. DEFINE t == << a, b, c >>
<1>1. Plain(<< p, q >>, t)
  BY PlainListings DEF Number, Marker
<1>2. t[1] = a /\ t[2] = b /\ t[3] = c
  BY SMT
<1>3. Numbered(t) \subseteq {1, 2, 3} /\ 3 \in Numbered(t) /\ 1 \notin Numbered(t) /\ 2 \notin Numbered(t)
  BY <1>2, NumberedOf, Zenon DEF Number, Marker
<1>. HIDE DEF t
<1>4. Numbered(t) = {3} /\ t[3][2] = B2(o)
  BY <1>2, <1>3, Zenon DEF Number
<1>5. Kept(o, << p, q >>, t)
  BY <1>1, <1>4, EncodedByLast, KeptBy, Zenon
<1>. QED
  BY <1>5 DEF t

LEMMA KeptRegisterThird ==
  ASSUME NEW o, Word16(o), B3(o) \in {14, 15}, NEW p, NEW q, NEW r, NEW a, NEW b, NEW c,
         Marker(a), Marker(b), Number(c, B2(o))
  PROVE  Kept(o, << p, q, r >>, << a, b, c >>)
<1>. DEFINE t == << a, b, c >>
<1>1. Plain(<< p, q, r >>, t)
  BY PlainListings DEF Number, Marker
<1>2. t[1] = a /\ t[2] = b /\ t[3] = c
  BY SMT
<1>3. Numbered(t) \subseteq {1, 2, 3} /\ 3 \in Numbered(t) /\ 1 \notin Numbered(t) /\ 2 \notin Numbered(t)
  BY <1>2, NumberedOf, Zenon DEF Number, Marker
<1>. HIDE DEF t
<1>4. Numbered(t) = {3} /\ t[3][2] = B2(o)
  BY <1>2, <1>3, Zenon DEF Number
<1>5. Kept(o, << p, q, r >>, t)
  BY <1>1, <1>4, EncodedByLast, KeptBy, Zenon
<1>. QED
  BY <1>5 DEF t

\* What an instruction is listed as.
Listed(o, operands, t) == Decode(o).operands = operands /\ Rendered(Decode(o)) = t

\* Instructions with a mnemonic are listed with their operands.
LEMMA NamedListing ==
  ASSUME NEW o, NEW op, op # "Unknown", NEW operands, Decode(o) = Named(op, operands)
  PROVE  Listed(o, operands, AllShown(operands))
<1>1. Decode(o) # Undecoded /\ Decode(o).named /\ Decode(o).operands = operands
  BY SMT DEF Named, Undecoded
<1>. QED
  BY <1>1, Zenon DEF Rendered, Listed

LEMMA ListedOne ==
  ASSUME NEW o, NEW op, op # "Unknown", NEW a, Written(a), Decode(o) = Named(op, << a >>)
  PROVE  Listed(o, << a >>, << a >>)
<1>1. AllShown(<< a >>) = << a >>
  BY AllWritten, ShownWritten
<1>. QED
  BY <1>1, NamedListing, Zenon

LEMMA ListedTwo ==
  ASSUME NEW o, NEW op, op # "Unknown", NEW a, NEW b, Written(a), Written(b),
         Decode(o) = Named(op, << a, b >>)
  PROVE  Listed(o, << a, b >>, << a, b >>)
<1>1. AllShown(<< a, b >>) = << a, b >>
  BY AllWritten, ShownWritten
<1>. QED
  BY <1>1, NamedListing, Zenon

LEMMA ListedThree ==
  ASSUME NEW o, NEW op, op # "Unknown", NEW a, NEW b, NEW c, Written(a), Written(b), Written(c),
         Decode(o) = Named(op, << a, b, c >>)
  PROVE  Listed(o, << a, b, c >>, << a, b, c >>)
<1>1. AllShown(<< a, b, c >>) = << a, b, c >>
  BY AllWrittenThree, ShownWritten
<1>. QED
  BY <1>1, NamedListing, Zenon

\* Those without one have a layout of their own.
LEMMA UnnamedListing ==
  ASSUME NEW o, NEW op, NEW operands, Decode(o) = Unnamed(op, operands), NEW shown, shown = AllShown(operands)
  PROVE  /\ op \in Transfers => Listed(o, operands, SubSeq(shown, 1, 2))
         /\ op = "Copy2" => Listed(o, operands, SubSeq(shown, 1, 3))
         /\ op \in Math => Listed(o, operands, << shown[1], shown[1], shown[2] >>)
<1>. PICK insn : insn = Decode(o)
  BY Zenon
<1>1. insn # Undecoded /\ ~insn.named /\ insn.operands = operands /\ insn.op = op
  BY SMT DEF Unnamed, Named, Undecoded
<1>2. CASE op \in Transfers
  <2>1. op \notin Math /\ op # "Copy2"
    BY <1>2, SMT DEF Math, Transfers
  <2>2. Rendered(insn) = SubSeq(shown, 1, 2)
    BY <1>1, <1>2, <2>1, SMT DEF Rendered
  <2>. QED
    BY <1>1, <2>1, <2>2, Zenon DEF Listed
<1>3. CASE op = "Copy2"
  <2>1. op \notin Math /\ op \notin Transfers
    BY <1>3, SMT DEF Math, Transfers
  <2>2. Rendered(insn) = SubSeq(shown, 1, 3)
    BY <1>1, <1>3, <2>1, SMT DEF Rendered
  <2>. QED
    BY <1>1, <2>1, <2>2, Zenon DEF Listed
<1>4. CASE op \in Math
  <2>1. op \notin Transfers /\ op # "Copy2"
    BY <1>4, SMT DEF Math, Transfers
  <2>2. Rendered(insn) = << shown[1], shown[1], shown[2] >>
    BY <1>1, <1>4, <2>1, SMT DEF Rendered
  <2>. QED
    BY <1>1, <2>1, <2>2, Zenon DEF Listed
<1>. QED
  BY <1>2, <1>3, <1>4, Zenon

LEMMA ListedTransfer ==
  ASSUME NEW o, NEW op \in Transfers, NEW a, NEW b, Written(b), Decode(o) = Unnamed(op, << a, b >>)
  PROVE  Listed(o, << a, b >>, << Shown(a), b >>)
<1>1. AllShown(<< a, b >>) = << Shown(a), b >>
  BY AllWritten
<1>2. SubSeq(<< Shown(a), b >>, 1, 2) = << Shown(a), b >>
  BY WholeOf
<1>3. Listed(o, << a, b >>, SubSeq(AllShown(<< a, b >>), 1, 2))
  BY UnnamedListing, Zenon
<1>. QED
  BY <1>1, <1>2, <1>3, Zenon

LEMMA ListedCopy2 ==
  ASSUME NEW o, NEW a, NEW b, NEW c, Written(a), Written(b), Written(c),
         Decode(o) = Unnamed("Copy2", << a, b, c >>)
  PROVE  Listed(o, << a, b, c >>, << a, b, c >>)
<1>1. AllShown(<< a, b, c >>) = << a, b, c >>
  BY AllWrittenThree, ShownWritten
<1>2. SubSeq(<< a, b, c >>, 1, 3) = << a, b, c >>
  BY WholeOf
<1>3. Listed(o, << a, b, c >>, SubSeq(AllShown(<< a, b, c >>), 1, 3))
  BY UnnamedListing, Zenon
<1>. QED
  BY <1>1, <1>2, <1>3, Zenon

LEMMA ListedMath ==
  ASSUME NEW o, NEW op \in Math, NEW a, NEW b, Written(a), Written(b), Decode(o) = Unnamed(op, << a, b >>)
  PROVE  Listed(o, << a, b >>, << a, a, b >>)
<1>. PICK shown : shown = AllShown(<< a, b >>)
  BY Zenon
<1>1. shown = << a, b >>
  BY AllWritten, ShownWritten
<1>2. shown[1] = a /\ shown[2] = b
  BY <1>1, SMT
<1>3. Listed(o, << a, b >>, << shown[1], shown[1], shown[2] >>)
  BY UnnamedListing, Zenon
<1>. QED
  BY <1>2, <1>3, Zenon

LEMMA KeptListed ==
  ASSUME NEW o, NEW operands, NEW t, Listed(o, operands, t), Kept(o, operands, t)
  PROVE  Kept(o, Decode(o).operands, Rendered(Decode(o)))
BY Zenon DEF Listed

\* The groups with a mnemonic, but for the first and the last two.
LEMMA KeptMnemonic ==
  ASSUME NEW o, Word16(o), B3(o) \in {1, 2, 3, 4, 5, 9, 11, 12, 13}
  PROVE  Kept(o, Decode(o).operands, Rendered(Decode(o)))
<1>. PICK x, y, k, m, z, h : /\ x = Reg(B2(o)) /\ y = Reg(B1(o)) /\ k = Const(KK(o)) /\ h = Const(B0(o))
                            /\ z = Reg(0) /\ m \in {Addr(MMM(o)), Const(MMM(o))}
                            /\ m = IF B3(o) = 11 THEN Const(MMM(o)) ELSE Addr(MMM(o))
  BY Zenon
<1>1. /\ Number(x, B2(o)) /\ Number(y, B1(o)) /\ Number(k, KK(o)) /\ Number(h, B0(o))
      /\ Number(z, 0) /\ Number(m, MMM(o))
  BY OperandKinds, Zenon
<1>2. Written(x) /\ Written(y) /\ Written(k) /\ Written(h) /\ Written(z) /\ Written(m)
  BY <1>1, Zenon DEF Number
<1>3. CASE B3(o) = 1
  <2>1. Decode(o) = Named("Goto", << m >>)
    BY <1>3, SMT DEF Decode
  <2>2. Listed(o, << m >>, << m >>)
    BY <1>2, <2>1, ListedOne, SMT
  <2>3. Kept(o, << m >>, << m >>)
    BY <1>1, <1>3, KeptOne, SMT
  <2>. QED
    BY <2>2, <2>3, KeptListed, Zenon
<1>4. CASE B3(o) = 2
  <2>1. Decode(o) = Named("Do", << m >>)
    BY <1>4, SMT DEF Decode
  <2>2. Listed(o, << m >>, << m >>)
    BY <1>2, <2>1, ListedOne, SMT
  <2>3. Kept(o, << m >>, << m >>)
    BY <1>1, <1>4, KeptOne, SMT
  <2>. QED
    BY <2>2, <2>3, KeptListed, Zenon
<1>5. CASE B3(o) = 3
  <2>1. Decode(o) = Named("Ske", << x, k >>)
    BY <1>5, SMT DEF Decode, RegByte
  <2>2. Listed(o, << x, k >>, << x, k >>)
    BY <1>2, <2>1, ListedTwo, SMT
  <2>3. Kept(o, << x, k >>, << x, k >>)
    BY <1>1, <1>5, KeptRegisterByte, SMT
  <2>. QED
    BY <2>2, <2>3, KeptListed, Zenon
<1>6. CASE B3(o) = 12
  <2>1. Decode(o) = Named("Rand", << x, k >>)
    BY <1>6, SMT DEF Decode, RegByte
  <2>2. Listed(o, << x, k >>, << x, k >>)
    BY <1>2, <2>1, ListedTwo, SMT
  <2>3. Kept(o, << x, k >>, << x, k >>)
    BY <1>1, <1>6, KeptRegisterByte, SMT
  <2>. QED
    BY <2>2, <2>3, KeptListed, Zenon
<1>7. CASE B3(o) = 11
  <2>1. Decode(o) = Named("GotoRel", << m, z >>)
    BY <1>7, SMT DEF Decode
  <2>2. Listed(o, << m, z >>, << m, z >>)
    BY <1>2, <2>1, ListedTwo, SMT
  <2>3. Kept(o, << m, z >>, << m, z >>)
    BY <1>1, <1>7, KeptIndexed, SMT
  <2>. QED
    BY <2>2, <2>3, KeptListed, Zenon
<1>8. CASE B3(o) = 13
  <2>1. Decode(o) = Named("Show", << h, x, y >>)
    BY <1>8, SMT DEF Decode, DecodeD
  <2>2. Listed(o, << h, x, y >>, << h, x, y >>)
    BY <1>2, <2>1, ListedThree, SMT
  <2>3. Kept(o, << h, x, y >>, << h, x, y >>)
    BY <1>1, <1>8, KeptShow, SMT
  <2>. QED
    BY <2>2, <2>3, KeptListed, Zenon
<1>9. CASE B3(o) \in {4, 5, 9}
  <2>1. PICK op \in {"Ske", "Skne"} : Decode(o) = Named(op, << x, y >>)
    <3>1. RegReg(o) = << x, y >>
      BY Zenon DEF RegReg
    <3>2. B3(o) = 4 => Decode(o) = Named("Skne", RegReg(o))
      BY SMT DEF Decode
    <3>3. B3(o) = 5 => Decode(o) = Named("Ske", RegReg(o))
      BY SMT DEF Decode
    <3>4. B3(o) = 9 => Decode(o) = Named("Skne", RegReg(o))
      BY SMT DEF Decode
    <3>. QED
      BY <1>9, <3>1, <3>2, <3>3, <3>4, SMT
  <2>2. Listed(o, << x, y >>, << x, y >>)
    BY <1>2, <2>1, ListedTwo, SMT
  <2>3. Plain(<< x, y >>, << x, y >>)
    BY <1>2, PlainListings
  <2>4. B3(o) \in {5, 9} /\ B0(o) = 0 => Kept(o, << x, y >>, << x, y >>)
    BY <1>1, KeptRegisters, SMT
  <2>5. B3(o) = 4 \/ (B3(o) \in {5, 9} /\ B0(o) # 0) => Kept(o, << x, y >>, << x, y >>)
    BY <2>3, SMT DEF Kept, Plain
  <2>6. Kept(o, << x, y >>, << x, y >>)
    BY <1>9, <2>4, <2>5, SMT
  <2>. QED
    BY <2>2, <2>6, KeptListed, Zenon
<1>. QED
  BY <1>3, <1>4, <1>5, <1>6, <1>7, <1>8, <1>9, SMT

\* The groups that are transfers and sums as a whole.
LEMMA KeptTransfers ==
  ASSUME NEW o, Word16(o), B3(o) \in {6, 7, 10}
  PROVE  Kept(o, Decode(o).operands, Rendered(Decode(o)))
<1>. PICK x, k, i, m : x = Reg(B2(o)) /\ k = Const(KK(o)) /\ i = Special("Register_I") /\ m = Const(MMM(o))
  BY Zenon
<1>1. Number(x, B2(o)) /\ Number(k, KK(o)) /\ Marker(i) /\ Number(m, MMM(o))
  BY OperandKinds, SMT DEF MarkerTypes
<1>2. Written(x) /\ Written(k) /\ Written(i) /\ Written(m)
  BY <1>1, Zenon DEF Number, Marker
<1>3. Shown(x) = x /\ Shown(i) = i
  BY <1>2, ShownWritten, Zenon
<1>4. "Copy" \in Transfers /\ "SetI" \in Transfers /\ "Add" \in Math
  BY SMT DEF Transfers, Math
<1>5. CASE B3(o) = 6
  <2>1. Decode(o) = Unnamed("Copy", << x, k >>)
    BY <1>5, SMT DEF Decode, RegByte
  <2>2. Listed(o, << x, k >>, << x, k >>)
    BY <1>2, <1>3, <1>4, <2>1, ListedTransfer, SMT
  <2>3. Kept(o, << x, k >>, << x, k >>)
    BY <1>1, <1>5, KeptRegisterByte, SMT
  <2>. QED
    BY <2>2, <2>3, KeptListed, Zenon
<1>6. CASE B3(o) = 7
  <2>1. Decode(o) = Unnamed("Add", << x, k >>)
    BY <1>6, SMT DEF Decode, RegByte
  <2>2. Listed(o, << x, k >>, << x, x, k >>)
    BY <1>2, <1>4, <2>1, ListedMath, SMT
  <2>3. Kept(o, << x, k >>, << x, x, k >>)
    BY <1>1, <1>6, KeptSum, SMT
  <2>. QED
    BY <2>2, <2>3, KeptListed, Zenon
<1>7. CASE B3(o) = 10
  <2>1. Decode(o) = Unnamed("SetI", << i, m >>)
    BY <1>7, SMT DEF Decode
  <2>2. Listed(o, << i, m >>, << i, m >>)
    BY <1>2, <1>3, <1>4, <2>1, ListedTransfer, SMT
  <2>3. Kept(o, << i, m >>, << i, m >>)
    BY <1>1, <1>7, KeptImmediate, SMT
  <2>. QED
    BY <2>2, <2>3, KeptListed, Zenon
<1>. QED
  BY <1>5, <1>6, <1>7, SMT

\* The eighth group moves and calculates.
LEMMA KeptEighth ==
  ASSUME NEW o, Word16(o), B3(o) = 8, Decode(o) # Undecoded
  PROVE  Kept(o, Decode(o).operands, Rendered(Decode(o)))
<1>. PICK x, y : x = Reg(B2(o)) /\ y = Reg(B1(o))
  BY Zenon
<1>1. Number(x, B2(o)) /\ Number(y, B1(o))
  BY OperandKinds, Zenon
<1>2. Written(x) /\ Written(y)
  BY <1>1, Zenon DEF Number
<1>3. Decode(o) = Decode8(o) /\ RegReg(o) = << x, y >>
  BY SMT DEF Decode, RegReg
<1>4. \/ Decode(o) = Unnamed("Copy", << x, y >>)
      \/ \E op \in {"Or", "And", "Xor", "Add", "Sub"} : Decode(o) = Unnamed(op, << x, y >>)
  BY <1>3, Handler8, SMT
<1>5. CASE Decode(o) = Unnamed("Copy", << x, y >>)
  <2>1. "Copy" \in Transfers /\ Shown(x) = x
    BY <1>2, ShownWritten, SMT DEF Transfers
  <2>2. Listed(o, << x, y >>, << x, y >>)
    BY <1>2, <1>5, <2>1, ListedTransfer, SMT
  <2>3. Kept(o, << x, y >>, << x, y >>)
    BY <1>1, KeptMove, SMT
  <2>. QED
    BY <2>2, <2>3, KeptListed, Zenon
<1>6. CASE \E op \in {"Or", "And", "Xor", "Add", "Sub"} : Decode(o) = Unnamed(op, << x, y >>)
  <2>1. PICK op \in Math : Decode(o) = Unnamed(op, << x, y >>)
    BY <1>6, SMT DEF Math
  <2>2. Listed(o, << x, y >>, << x, x, y >>)
    BY <1>2, <2>1, ListedMath, SMT
  <2>3. Kept(o, << x, y >>, << x, x, y >>)
    BY <1>1, KeptMath, SMT
  <2>. QED
    BY <2>2, <2>3, KeptListed, Zenon
<1>. QED
  BY <1>4, <1>5, <1>6, Zenon

\* The first group has no operands.
LEMMA KeptBare ==
  ASSUME NEW o, Word16(o), B3(o) = 0, Decode(o) # Undecoded
  PROVE  Kept(o, Decode(o).operands, Rendered(Decode(o)))
<1>1. Decode(o) = Decode0(o)
  BY SMT DEF Decode
<1>2. PICK op \in {"Nop", "Erase", "Return"} : Decode(o) = Named(op, << >>)
  BY <1>1, SMT DEF Decode0
<1>3. AllShown(<< >>) = << >>
  <2>1. [ i \in DOMAIN << >> |-> Shown(<< >>[i]) ] = << >>
    BY SMT
  <2>. QED
    BY <2>1, Zenon DEF AllShown
<1>4. Listed(o, << >>, << >>)
  BY <1>2, <1>3, NamedListing, SMT
<1>5. Plain(<< >>, << >>)
  BY SMT DEF Plain
<1>6. Encoded(o, << >>) = o
  BY EncodedBy, SMT
<1>. QED
  BY <1>4, <1>5, <1>6, KeptBy, KeptListed, Zenon

\* The skips on a key.
LEMMA KeptKeys ==
  ASSUME NEW o, Word16(o), B3(o) = 14, Decode(o) # Undecoded
  PROVE  Kept(o, Decode(o).operands, Rendered(Decode(o)))
<1>. PICK x, k : x = Reg(B2(o)) /\ k = Special("Register_KEY")
  BY Zenon
<1>1. Number(x, B2(o)) /\ Marker(k)
  BY OperandKinds, SMT DEF MarkerTypes
<1>2. Written(x) /\ Written(k)
  BY <1>1, Zenon DEF Number, Marker
<1>3. Decode(o) = DecodeE(o)
  BY SMT DEF Decode
<1>4. PICK op \in {"Ske_Key", "Skne_Key"} : Decode(o) = Named(op, << x, k >>)
  BY <1>3, SMT DEF DecodeE
<1>5. Listed(o, << x, k >>, << x, k >>)
  BY <1>2, <1>4, ListedTwo, SMT
<1>6. Kept(o, << x, k >>, << x, k >>)
  BY <1>1, KeptRegisterFirst, SMT
<1>. QED
  BY <1>5, <1>6, KeptListed, Zenon

\* The last group: timers, keys and memory.
Markers == { Special(t) : t \in MarkerTypes }

\* The layouts of the last group's instructions.
LaidOut(o, insn, x, xs) ==
  \/ \E op \in Transfers, m \in Markers : insn = Unnamed(op, << x, m >>)
  \/ \E op \in Transfers, m \in Markers : insn = Unnamed(op, << m, x >>)
  \/ insn = Unnamed("Add", << Special("Register_I"), x >>)
  \/ \E m \in Markers : insn = Unnamed("Copy2", << Special("Register_MI"), m, x >>)
  \/ insn = Unnamed("Copy", << Special("Register_MI"), xs >>)
  \/ insn = Unnamed("Copy", << xs, Special("Register_MI") >>)
  \/ insn = Unnamed("Copy", << Null, x >>) /\ KK(o) = 112
  \/ insn = Unnamed("Copy", << Reg(0), Special("Register_RS485") >>) /\ KK(o) = 113

LEMMA HandlerF ==
  ASSUME NEW o, DecodeF(o) # Undecoded, NEW x, x = Reg(B2(o)), NEW xs, xs = Registers(B2(o))
  PROVE  LaidOut(o, DecodeF(o), x, xs)
<1>1. \A op \in {"GetTime", "GetKey", "SetTime", "SetPitch", "SetTone", "Copy"} : op \in Transfers
  BY SMT DEF Transfers
<1>2. \A t \in MarkerTypes : Special(t) \in Markers
  BY Zenon DEF Markers
<1>3. CASE KK(o) = 7
  <2>1. DecodeF(o) = Unnamed("GetTime", << x, Special("Register_TIME") >>)
    BY <1>3, SMT DEF DecodeF
  <2>2. "GetTime" \in Transfers /\ Special("Register_TIME") \in Markers
    BY <1>1, <1>2, SMT DEF MarkerTypes
  <2>. QED
    BY <2>1, <2>2, Zenon DEF LaidOut
<1>4. CASE KK(o) = 10
  <2>1. DecodeF(o) = Unnamed("GetKey", << x, Special("Register_KEY") >>)
    BY <1>4, SMT DEF DecodeF
  <2>2. "GetKey" \in Transfers /\ Special("Register_KEY") \in Markers
    BY <1>1, <1>2, SMT DEF MarkerTypes
  <2>. QED
    BY <2>1, <2>2, Zenon DEF LaidOut
<1>5. CASE KK(o) = 21
  <2>1. DecodeF(o) = Unnamed("SetTime", << Special("Register_TIME"), x >>)
    BY <1>5, SMT DEF DecodeF
  <2>2. "SetTime" \in Transfers /\ Special("Register_TIME") \in Markers
    BY <1>1, <1>2, SMT DEF MarkerTypes
  <2>. QED
    BY <2>1, <2>2, Zenon DEF LaidOut
<1>6. CASE KK(o) = 23
  <2>1. DecodeF(o) = Unnamed("SetPitch", << Special("Register_PITCH"), x >>)
    BY <1>6, SMT DEF DecodeF
  <2>2. "SetPitch" \in Transfers /\ Special("Register_PITCH") \in Markers
    BY <1>1, <1>2, SMT DEF MarkerTypes
  <2>. QED
    BY <2>1, <2>2, Zenon DEF LaidOut
<1>7. CASE KK(o) = 24
  <2>1. DecodeF(o) = Unnamed("SetTone", << Special("Register_TONE"), x >>)
    BY <1>7, SMT DEF DecodeF
  <2>2. "SetTone" \in Transfers /\ Special("Register_TONE") \in Markers
    BY <1>1, <1>2, SMT DEF MarkerTypes
  <2>. QED
    BY <2>1, <2>2, Zenon DEF LaidOut
<1>8. CASE KK(o) = 30
  <2>1. DecodeF(o) = Unnamed("Add", << Special("Register_I"), x >>)
    BY <1>8, SMT DEF DecodeF
  <2>. QED
    BY <1>1, <1>2, <1>8, <2>1, SMT DEF LaidOut
<1>9. CASE KK(o) = 41
  <2>1. DecodeF(o) = Unnamed("Copy2", << Special("Register_MI"), Special("Register_DEQ"), x >>)
    BY <1>9, SMT DEF DecodeF
  <2>2. Special("Register_DEQ") \in Markers
    BY <1>1, <1>2, SMT DEF MarkerTypes
  <2>. QED
    BY <2>1, <2>2, Zenon DEF LaidOut
<1>10. CASE KK(o) = 51
  <2>1. DecodeF(o) = Unnamed("Copy2", << Special("Register_MI"), Special("Register_DSP"), x >>)
    BY <1>10, SMT DEF DecodeF
  <2>2. Special("Register_DSP") \in Markers
    BY <1>1, <1>2, SMT DEF MarkerTypes
  <2>. QED
    BY <2>1, <2>2, Zenon DEF LaidOut
<1>11. CASE KK(o) = 85
  <2>1. DecodeF(o) = Unnamed("Copy", << Special("Register_MI"), xs >>)
    BY <1>11, SMT DEF DecodeF
  <2>. QED
    BY <1>1, <1>2, <1>11, <2>1, SMT DEF LaidOut
<1>12. CASE KK(o) = 101
  <2>1. DecodeF(o) = Unnamed("Copy", << xs, Special("Register_MI") >>)
    BY <1>12, SMT DEF DecodeF
  <2>. QED
    BY <1>1, <1>2, <1>12, <2>1, SMT DEF LaidOut
<1>13. CASE KK(o) = 112
  <2>1. DecodeF(o) = Unnamed("Copy", << Null, x >>)
    BY <1>13, SMT DEF DecodeF
  <2>. QED
    BY <1>1, <1>2, <1>13, <2>1, SMT DEF LaidOut
<1>14. CASE KK(o) = 113
  <2>1. DecodeF(o) = Unnamed("Copy", << Reg(0), Special("Register_RS485") >>)
    BY <1>14, SMT DEF DecodeF
  <2>. QED
    BY <1>1, <1>2, <1>14, <2>1, SMT DEF LaidOut
<1>15. CASE KK(o) = 114
  <2>1. DecodeF(o) = Unnamed("Copy", << Special("Register_BAUD"), x >>)
    BY <1>15, SMT DEF DecodeF
  <2>2. "Copy" \in Transfers /\ Special("Register_BAUD") \in Markers
    BY <1>1, <1>2, SMT DEF MarkerTypes
  <2>. QED
    BY <2>1, <2>2, Zenon DEF LaidOut
<1>16. CASE KK(o) \notin {7, 10, 21, 23, 24, 30, 41, 51, 85, 101, 112, 113, 114}
  BY <1>16, SMT DEF DecodeF
<1>. QED
  BY <1>3, <1>4, <1>5, <1>6, <1>7, <1>8, <1>9, <1>10,
     <1>11, <1>12, <1>13, <1>14, <1>15, <1>16, SMT

LEMMA KeptTimers ==
  ASSUME NEW o, Word16(o), B3(o) = 15, Decode(o) # Undecoded
  PROVE  Kept(o, Decode(o).operands, Rendered(Decode(o)))
<1>. PICK x, xs, i, mi, z : /\ x = Reg(B2(o)) /\ xs = Registers(B2(o)) /\ z = Reg(0)
                           /\ i = Special("Register_I") /\ mi = Special("Register_MI")
  BY Zenon
<1>1. Number(x, B2(o)) /\ Number(xs, B2(o)) /\ Number(z, 0) /\ \A m \in Markers : Marker(m)
  BY OperandKinds, Zenon DEF Markers
<1>2. Written(x) /\ Written(xs) /\ Written(z) /\ \A m \in Markers : Written(m)
  BY <1>1, Zenon DEF Number, Marker
<1>3. /\ Shown(x) = x /\ Shown(xs) = xs /\ Shown(z) = z /\ \A m \in Markers : Shown(m) = m
      /\ i \in Markers /\ mi \in Markers /\ Special("Register_RS485") \in Markers
  <2>1. Shown(x) = x /\ Shown(xs) = xs /\ Shown(z) = z /\ \A m \in Markers : Shown(m) = m
    BY <1>2, ShownWritten, Zenon
  <2>. QED
    BY <2>1, Zenon DEF Markers, MarkerTypes
<1>4. "Copy" \in Transfers
  BY SMT DEF Transfers
<1>5. Decode(o) = DecodeF(o)
  BY SMT DEF Decode
<1>6. \/ \E op \in Transfers, m \in Markers : Decode(o) = Unnamed(op, << x, m >>)
      \/ \E op \in Transfers, m \in Markers : Decode(o) = Unnamed(op, << m, x >>)
      \/ Decode(o) = Unnamed("Add", << i, x >>)
      \/ \E m \in Markers : Decode(o) = Unnamed("Copy2", << mi, m, x >>)
      \/ Decode(o) = Unnamed("Copy", << mi, xs >>)
      \/ Decode(o) = Unnamed("Copy", << xs, mi >>)
      \/ Decode(o) = Unnamed("Copy", << Null, x >>) /\ KK(o) = 112
      \/ Decode(o) = Unnamed("Copy", << z, Special("Register_RS485") >>) /\ KK(o) = 113
  <2>1. LaidOut(o, Decode(o), x, xs)
    BY <1>5, HandlerF, Zenon
  <2>. QED
    BY <2>1, Zenon DEF LaidOut
<1>7. CASE \E op \in Transfers, m \in Markers : Decode(o) = Unnamed(op, << x, m >>)
  <2>1. PICK op \in Transfers, m \in Markers : Decode(o) = Unnamed(op, << x, m >>)
    BY <1>7
  <2>2. Listed(o, << x, m >>, << x, m >>)
    BY <1>2, <1>3, <2>1, ListedTransfer, SMT
  <2>3. Kept(o, << x, m >>, << x, m >>)
    BY <1>1, KeptRegisterFirst, SMT
  <2>. QED
    BY <2>2, <2>3, KeptListed, Zenon
<1>8. CASE \E op \in Transfers, m \in Markers : Decode(o) = Unnamed(op, << m, x >>)
  <2>1. PICK op \in Transfers, m \in Markers : Decode(o) = Unnamed(op, << m, x >>)
    BY <1>8
  <2>2. Listed(o, << m, x >>, << m, x >>)
    BY <1>2, <1>3, <2>1, ListedTransfer, SMT
  <2>3. Kept(o, << m, x >>, << m, x >>)
    BY <1>1, KeptRegisterLast, SMT
  <2>. QED
    BY <2>2, <2>3, KeptListed, Zenon
<1>9. CASE Decode(o) = Unnamed("Add", << i, x >>)
  <2>1. Listed(o, << i, x >>, << i, i, x >>)
    <3>1. "Add" \in Math /\ Written(i)
      BY <1>2, <1>3, SMT DEF Math
    <3>. QED
      BY <1>2, <1>9, <3>1, ListedMath, SMT
  <2>2. Kept(o, << i, x >>, << i, i, x >>)
    BY <1>1, <1>3, KeptRegisterTwice, SMT
  <2>. QED
    BY <2>1, <2>2, KeptListed, Zenon
<1>10. CASE \E m \in Markers : Decode(o) = Unnamed("Copy2", << mi, m, x >>)
  <2>1. PICK m \in Markers : Decode(o) = Unnamed("Copy2", << mi, m, x >>)
    BY <1>10
  <2>2. Listed(o, << mi, m, x >>, << mi, m, x >>)
    BY <1>2, <1>3, <2>1, ListedCopy2, SMT
  <2>3. Kept(o, << mi, m, x >>, << mi, m, x >>)
    BY <1>1, <1>3, KeptRegisterThird, SMT
  <2>. QED
    BY <2>2, <2>3, KeptListed, Zenon
<1>11. CASE Decode(o) = Unnamed("Copy", << mi, xs >>)
  <2>1. Listed(o, << mi, xs >>, << mi, xs >>)
    BY <1>2, <1>3, <1>4, <1>11, ListedTransfer, SMT
  <2>2. Kept(o, << mi, xs >>, << mi, xs >>)
    BY <1>1, <1>3, KeptRegisterLast, SMT
  <2>. QED
    BY <2>1, <2>2, KeptListed, Zenon
<1>12. CASE Decode(o) = Unnamed("Copy", << xs, mi >>)
  <2>1. Listed(o, << xs, mi >>, << xs, mi >>)
    BY <1>2, <1>3, <1>4, <1>12, ListedTransfer, SMT
  <2>2. Kept(o, << xs, mi >>, << xs, mi >>)
    BY <1>1, <1>3, KeptRegisterFirst, SMT
  <2>. QED
    BY <2>1, <2>2, KeptListed, Zenon
<1>13. CASE Decode(o) = Unnamed("Copy", << Null, x >>) /\ KK(o) = 112
  <2>. PICK u : u = << "???", 0 >>
    BY Zenon
  <2>. DEFINE t == << u, x >>
  <2>1. Shown(Null) = u
    BY Zenon DEF Shown
  <2>2. Listed(o, << Null, x >>, t)
    BY <1>2, <1>4, <1>13, <2>1, ListedTransfer, SMT
  <2>3. t[1] = u /\ t[2] = x /\ u[1] \notin NumberTypes /\ Len(t) >= Len(<< Null, x >>)
    BY SMT DEF NumberTypes
  <2>4. Numbered(t) \subseteq {1, 2} /\ 2 \in Numbered(t) /\ 1 \notin Numbered(t)
    BY <1>1, <2>3, NumberedOf, Zenon DEF Number
  <2>. HIDE DEF t
  <2>5. Numbered(t) = {2} /\ t[2][2] = B2(o)
    BY <1>1, <2>3, <2>4, Zenon DEF Number
  <2>6. Encoded(o, t) = o
    BY <2>5, EncodedByLast, SMT
  <2>7. Kept(o, << Null, x >>, t)
    BY <1>13, <2>3, <2>6, SMT DEF Kept
  <2>. QED
    BY <2>2, <2>7, KeptListed, Zenon
<1>14. CASE Decode(o) = Unnamed("Copy", << z, Special("Register_RS485") >>) /\ KK(o) = 113
  <2>. PICK m \in Markers : m = Special("Register_RS485")
    BY <1>3
  <2>1. Listed(o, << z, m >>, << z, m >>)
    BY <1>2, <1>3, <1>4, <1>14, ListedTransfer, SMT
  <2>2. Plain(<< z, m >>, << z, m >>)
    BY <1>2, PlainListings
  <2>3. Kept(o, << z, m >>, << z, m >>)
    BY <1>14, <2>2, SMT DEF Kept, Plain
  <2>. QED
    BY <2>1, <2>3, KeptListed, Zenon
<1>. QED
  BY <1>6, <1>7, <1>8, <1>9, <1>10, <1>11, <1>12, <1>13, <1>14, Zenon

\* For every opcode: its listing has every operand of the instruction, and read
\* back it is the opcode.
THEOREM ListsAsDecoded == Spec => []ListingKeepsOperands
<1>1. Chip8Inv => ListingKeepsOperands
  <2>. SUFFICES ASSUME Chip8Inv PROVE ListingKeepsOperands
    BY Zenon
  <2>1. CASE pc = "done" /\ Decode(opcode) # Undecoded
    <3>1. Word16(opcode) /\ text = Rendered(Decode(opcode)) /\ B3(opcode) \in 0 .. 15
      BY <2>1, Digits DEF Chip8Inv
    <3>2. Kept(opcode, Decode(opcode).operands, text)
      BY <2>1, <3>1, KeptMnemonic, KeptTransfers, KeptEighth, KeptBare, KeptKeys, KeptTimers, SMT
    <3>. QED
      BY <3>2, SMT DEF Kept, ListingKeepsOperands, RendersFully, OperandsReadBack
  <2>2. CASE pc = "done" /\ Decode(opcode) = Undecoded
    <3>1. text = << >>
      BY <2>2, Zenon DEF Chip8Inv, Rendered
    <3>. QED
      BY <2>2, <3>1, SMT DEF ListingKeepsOperands, RendersFully, OperandsReadBack
  <2>3. CASE pc # "done"
    BY <2>3, Zenon DEF ListingKeepsOperands, RendersFully, OperandsReadBack
  <2>. QED
    BY <2>1, <2>2, <2>3, Zenon
<1>. QED
  BY <1>1, Chip8Starts, Chip8Steps, PTL DEF Spec
==============================================================================
