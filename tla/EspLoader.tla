------------------------------ MODULE EspLoader ------------------------------
(***************************************************************************)
(* ESP8266 images (esp/plugin.cpp, esp/chips): the test, the user's choice *)
(* among the images found in the file, and the load of the one chosen,     *)
(* with its chain of segments: a head with address and size, the payload,  *)
(* the next head right after it.                                           *)
(*                                                                         *)
(* A file has a size and says, for every position, what a header and what  *)
(* a segment's head read there hold.                                       *)
(***************************************************************************)
EXTENDS Integers, Sequences, FiniteSets

CONSTANTS
  Files,
  Image0Offset, \* ESP_IMAGE0_OFFSET
  Image1Offset, \* ESP_IMAGE1_OFFSET
  Imports       \* addresses of the functions of the ROM

ASSUME OffsetAssumption ==
  Image0Offset \in Nat /\ Image1Offset \in Nat /\ 0 < Image0Offset /\ Image0Offset < Image1Offset

Magics == {"image1", "image2", "other"}

ASSUME FileAssumption ==
  \A f \in Files :
    /\ f.size \in Nat \ {0}
    /\ f.header \in [0 .. f.size - 1 ->
                       [magic : Magics, segments : Nat, freq : Nat, entrypoint : Nat, size : Nat]]
    /\ f.head \in [0 .. f.size - 1 -> [address : Nat, size : Nat]]

VARIABLES
  file,
  pc,       \* "init", "test", "select", "load", "segments", "done"
  images,   \* the items offered, in order
  label,    \* the item the user picked
  header,   \* position of the header whose segments are read
  segment,  \* position of the next head, or Null
  document, \* segments mapped, in order
  m_imports, \* static: the functions of the ROM
  imported,
  entry,
  result    \* of the load: "none", "loaded", "failed"

vars == <<file, pc, images, label, header, segment, document, m_imports, imported, entry, result>>

Null == -1

Header1Size == 8
Header2Size == 16
HeadSize == 8

Iram == 1074790400       \* 0x40100000
RomData == 1073643520    \* 0x3FFE8000
Rom == 1073741824        \* 0x40000000, ESP8266_BROM_ADDRESS
RomSize == 65535

\* RD_FilePointer, RD_RelPointer: null outside the file.
Pointer(p) == IF p < file.size THEN p ELSE Null

-----------------------------------------------------------------------------
(* The file is offered to the loader and the user picks an image.          *)

\* rdplugin_init: the table is filled once in the life of the process.
InitImports ==
  /\ pc = "init"
  /\ m_imports' = IF m_imports = {} THEN Imports ELSE m_imports
  /\ pc' = "test"
  /\ UNCHANGED <<file, images, label, header, segment, document, imported, entry, result>>

Frequencies == {0, 1, 2, 15}

\* ESPCommon::test.  The size code is compared, not shifted: none is refused.
Accepted ==
  LET h == file.header[0]
  IN  h.magic = "image1" /\ h.segments <= 16 /\ h.freq \in Frequencies

Test ==
  /\ pc = "test"
  /\ pc' = IF Accepted THEN "select" ELSE "done"
  /\ UNCHANGED <<file, images, label, header, segment, document, m_imports, imported, entry, result>>

Item(offset, name) == [offset |-> offset, name |-> name]

IsImage(offset) == Pointer(offset) # Null /\ file.header[offset].magic \in {"image1", "image2"}

\* The first part of load<ESPModel>: the images found, in a fixed order.
Found ==
  (IF IsImage(0) THEN <<Item(0, "BootLoader")>> ELSE << >>)
    \o (IF IsImage(Image0Offset) THEN <<Item(Image0Offset, "Image 0")>> ELSE << >>)
    \o (IF IsImage(Image1Offset) THEN <<Item(Image1Offset, "Image 1")>> ELSE << >>)

Picked(found, idx) == found[idx].offset

Brom == [name |-> ".brom", offset |-> 0, address |-> Rom, size |-> RomSize, flags |-> "bss"]

\* The choice, and ESP8266::load up to the base class: the ROM is mapped and
\* its functions imported whatever becomes of the image.
Select(idx) ==
  /\ pc = "select"
  /\ images' = Found
  /\ idx \in 1 .. Len(Found)
  /\ label' = Found[idx].name
  /\ header' = Picked(Found, idx)
  /\ document' = <<Brom>>
  /\ imported' = m_imports
  /\ pc' = "load"
  /\ UNCHANGED <<file, segment, m_imports, entry, result>>

Cancel ==
  /\ pc = "select"
  /\ images' = Found
  /\ result' = "failed"
  /\ pc' = "done"
  /\ UNCHANGED <<file, label, header, segment, document, m_imports, imported, entry>>

-----------------------------------------------------------------------------
(* ESPCommon::load.                                                        *)

\* Where a second-version image keeps its first-version header.
InnerHeader(h) == Pointer(h + Header2Size + file.header[h].size)

Fail ==
  /\ result' = "failed"
  /\ pc' = "done"
  /\ UNCHANGED <<header, segment>>

ReadChain(h) ==
  /\ header' = h
  /\ segment' = Pointer(h + Header1Size)
  /\ pc' = "segments"
  /\ UNCHANGED result

\* The dispatch on the magic of the image chosen.
Load ==
  /\ pc = "load"
  /\ LET magic == file.header[header].magic
         inner == InnerHeader(header)
         good == inner # Null /\ file.header[inner].magic = "image1"
     IN  \/ magic = "image1" /\ ReadChain(header)
         \/ magic = "image2" /\ good /\ ReadChain(inner)
         \/ magic # "image1" /\ ~(magic = "image2" /\ good) /\ Fail
  /\ UNCHANGED <<file, images, label, document, m_imports, imported, entry>>

Kind(address) ==
  CASE address = Iram -> [name |-> ".user_rom", flags |-> "code"]
    [] address = RomData -> [name |-> ".user_rom_data", flags |-> "data"]
    [] address < Rom /\ address # RomData -> [name |-> ".data_seg", flags |-> "data"]
    [] address > Iram -> [name |-> ".code_seg", flags |-> "code"]
    [] OTHER -> [name |-> ".unknown_seg", flags |-> "data"]

\* Mutant: the head's own size is forgotten.
NextHeadShort(p, size) == Pointer(p + size)

NextHead(p, size) == Pointer(p + HeadSize + size)

\* Number of segments of the image mapped so far; the first entry is the ROM.
Mapped == Len(document) - 1

\* Mutant: one segment too few.
MoreButLast == segment # Null /\ Mapped + 1 < file.header[header].segments

More == segment # Null /\ Mapped < file.header[header].segments

MapSegment ==
  /\ pc = "segments"
  /\ More
  /\ LET head == file.head[segment]
         kind == Kind(head.address)
     IN  /\ document' = Append(document, [name |-> kind.name, offset |-> segment + HeadSize,
                                          address |-> head.address, size |-> head.size, flags |-> kind.flags])
         /\ segment' = NextHead(segment, head.size)
  /\ UNCHANGED <<file, pc, images, label, header, m_imports, imported, entry, result>>

\* The chain ends with the count, or silently with the file.
EndSegments ==
  /\ pc = "segments"
  /\ ~More
  /\ entry' = file.header[header].entrypoint
  /\ result' = "loaded"
  /\ pc' = "done"
  /\ UNCHANGED <<file, images, label, header, segment, document, m_imports, imported>>

Init ==
  /\ file \in Files
  /\ pc = "init"
  /\ images = << >>
  /\ label = "none"
  /\ header = Null
  /\ segment = Null
  /\ document = << >>
  /\ m_imports \in {{}, Imports}
  /\ imported = {}
  /\ entry = Null
  /\ result = "none"

Next ==
  \/ InitImports \/ Test \/ Cancel \/ Load \/ MapSegment \/ EndSegments
  \/ \E idx \in 1 .. 3 : Select(idx)

Spec == Init /\ [][Next]_vars

-----------------------------------------------------------------------------
(* Properties.                                                             *)

ItemOffset(name) ==
  IF name = "BootLoader" THEN 0 ELSE IF name = "Image 0" THEN Image0Offset ELSE Image1Offset

\* Where the header of the image of that name is.
HeaderOf(offset) ==
  IF file.header[offset].magic = "image1" THEN offset
  ELSE offset + Header2Size + file.header[offset].size

\* What is mapped is the image of the name the user picked, also when an image
\* before it is missing: the header read is that image's, the first payload
\* follows it, each other one the payload before, and every head lies in the
\* file.
ChainOfTheImagePicked ==
  pc \in {"segments", "done"} /\ Len(document) > 1 =>
    LET first == HeaderOf(ItemOffset(label))
    IN  /\ header = first
        /\ document[2].offset = first + Header1Size + HeadSize
        /\ \A k \in 3 .. Len(document) :
             document[k].offset = document[k - 1].offset + document[k - 1].size + HeadSize
        /\ \A k \in 2 .. Len(document) : document[k].offset - HeadSize < file.size

\* A load that succeeds mapped every segment the header counts, or all those
\* before the end of the file: a chain cut short by the file is no failure.
CompleteOrCut ==
  result = "loaded" =>
    \/ Mapped = file.header[header].segments
    \/ /\ Mapped < file.header[header].segments
       /\ IF Mapped = 0 THEN header + Header1Size >= file.size
          ELSE document[Len(document)].offset + document[Len(document)].size >= file.size

\* A load that fails leaves no entry and no segment of an image: a document
\* untouched if the user gave up, the ROM alone if the image was bad.
FailureLeavesNoImage ==
  result = "failed" =>
    /\ entry = Null
    /\ label = "none" => document = << >> /\ imported = {}
    /\ label # "none" => Len(document) = 1 /\ imported = Imports
    /\ label # "none" =>
         LET h == ItemOffset(label)
         IN  /\ file.header[h].magic = "image2"
             /\ HeaderOf(h) < file.size => file.header[HeaderOf(h)].magic # "image1"

\* A segment is disassembled exactly if it lies in instruction memory.
CodeInInstructionMemory ==
  \A k \in 2 .. Len(document) : document[k].flags = "code" <=> document[k].address >= Iram

\* A document holds the image picked as far as the file does, marked as code
\* where it is, or nothing of it.
CompleteOrNothing == CompleteOrCut /\ FailureLeavesNoImage /\ CodeInInstructionMemory
=============================================================================
