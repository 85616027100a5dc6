----------------------------- MODULE DexFileParse -----------------------------
(***************************************************************************)
(* How libdex takes a buffer for a DEX file (dexFileParse): an optimized   *)
(* file's header is peeled off, the chunks behind its DEX part are walked  *)
(* (DexOptData.cpp), and the DEX part is checked.                          *)
(*                                                                         *)
(* A buffer is a record: what its headers say, and the area of the chunks  *)
(* as the sequence of its words.  contents has, for an area the optimizer  *)
(* wrote, its chunks in their order: the kind of each and the word its     *)
(* content begins at.                                                      *)
(***************************************************************************)
EXTENDS Integers, Sequences, FiniteSetsExt

CONSTANTS
  Buffers,
  HeaderSize,  \* sizeof(DexHeader), which an optimized header does not exceed
  SizeRange,   \* 2^32, the values of a chunk's size
  LookupChunk, MapsChunk, EndChunk

VARIABLES
  buffer,
  parser,         \* "open", "chunks", "check" or the result, "parsed" or "refused"
  chunk,          \* pOpt, counted in words of the area
  classLookup,    \* where the lookup table's chunk has its content
  registerMaps,
  dex             \* [first, length]: data and length

parseVars == <<buffer, parser, chunk, classLookup, registerMaps, dex>>

Nowhere == -1

ASSUME ParseAssumption ==
  /\ SizeRange \in Nat \ {0} /\ SizeRange % 8 = 0
  /\ \A b \in Buffers : /\ b.size \in Nat /\ b.optOffset \in Nat /\ b.dexOffset \in Nat
                        /\ b.dexLength \in Nat
                        /\ b.area \in Seq(0 .. SizeRange - 1)
                        /\ b.optOffset <= b.size => Len(b.area) = (b.size - b.optOffset) \div 4

-----------------------------------------------------------------------------

Refuse == parser' = "refused" /\ UNCHANGED <<chunk, dex>>

WordAt(w) == buffer.area[w + 1]

\* isValidPointer, to a word of the area; the buffer itself is aligned.
IsValid(w) ==
  /\ w >= 0 /\ w * 4 < buffer.size - buffer.optOffset
  /\ (buffer.optOffset + w * 4) % 8 = 0

\* The area is long enough and ends with a whole word.
AreaIsSound ==
  /\ IsValid(0)
  /\ (buffer.size - buffer.optOffset) % 4 = 0
  /\ buffer.size - buffer.optOffset >= 8

\* The length checks and the two magics of dexFileParse, and dexParseOptData
\* up to its loop.
Open ==
  /\ parser = "open"
  /\ \/ /\ buffer.size < HeaderSize \/ (buffer.magic = "dey" /\ (~buffer.optVersion \/ ~AreaIsSound))
        /\ Refuse
     \/ /\ buffer.size >= HeaderSize /\ buffer.magic = "dey" /\ buffer.optVersion /\ AreaIsSound
        /\ parser' = "chunks" /\ chunk' = 0
        /\ UNCHANGED dex
     \/ /\ buffer.size >= HeaderSize /\ buffer.magic # "dey"
        /\ parser' = "check"
        /\ dex' = [first |-> 0, length |-> buffer.size]
        /\ UNCHANGED chunk
  /\ UNCHANGED <<buffer, classLookup, registerMaps>>

\* Mutant: the size in a chunk's header is taken to count the header.
RoundedToItsSize(size) == (((size + 7) % SizeRange) \div 8) * 8

\* The size of a chunk with its header, in 32 bits.
RoundedSize(size) == (((size + 8 + 7) % SizeRange) \div 8) * 8

NextChunk == chunk + (RoundedSize(WordAt(chunk + 1)) \div 4)

\* Where the chunk behind the first n ones of a written area begins: contents
\* are padded to 8 bytes.
ChunksEnd(b, n) ==
  IF n = 0 THEN 0
  ELSE LET first == b.contents[n].first IN first + 2 * ((b.area[first] + 7) \div 8)

\* What the optimizer writes: chunks one behind the other, each with its kind
\* and a size that does not wrap in front, then the end chunk.
ASSUME WrittenAssumption ==
  \A b \in Buffers :
    /\ Len(b.contents) \in Nat
    /\ b.contents # <<>> =>
         \A n \in 0 .. Len(b.contents) :
           /\ ChunksEnd(b, n) \in Nat /\ ChunksEnd(b, n) * 4 < b.size - b.optOffset
           /\ IF n = Len(b.contents) THEN b.area[ChunksEnd(b, n) + 1] = EndChunk
              ELSE LET c == b.contents[n + 1]
                   IN  /\ c.first = ChunksEnd(b, n) + 2
                       /\ b.area[c.first - 1] = c.kind /\ c.kind # EndChunk
                       /\ c.first \in DOMAIN b.area /\ b.area[c.first] + 8 + 7 < SizeRange

\* One turn of dexParseOptData's loop.
WalkChunk ==
  /\ parser = "chunks" /\ WordAt(chunk) # EndChunk
  /\ IF IsValid(chunk + 2) /\ IsValid(NextChunk)
     THEN /\ classLookup' = IF WordAt(chunk) = LookupChunk THEN chunk + 2 ELSE classLookup
          /\ registerMaps' = IF WordAt(chunk) = MapsChunk THEN chunk + 2 ELSE registerMaps
          /\ chunk' = NextChunk
          /\ UNCHANGED <<parser, dex>>
     ELSE Refuse /\ UNCHANGED <<classLookup, registerMaps>>
  /\ UNCHANGED buffer

\* The DEX part is taken, unless it ends behind the buffer.  What remains is a
\* size_t: for a part that begins behind the buffer it is longer than any part.
TakeDex ==
  /\ parser = "chunks" /\ WordAt(chunk) = EndChunk
  /\ IF buffer.dexOffset <= buffer.size /\ buffer.dexLength > buffer.size - buffer.dexOffset
     THEN Refuse
     ELSE /\ dex' = [first |-> buffer.dexOffset, length |-> buffer.dexLength]
          /\ parser' = "check"
          /\ UNCHANGED chunk
  /\ UNCHANGED <<buffer, classLookup, registerMaps>>

\* dexHasValidMagic, the checksums if they are asked for, the size and the
\* number of classes.  The flag to go on covers the sums and the size.
IsAccepted ==
  /\ buffer.dexMagic
  /\ "verify" \in buffer.flags => buffer.sums \/ "continue" \in buffer.flags
  /\ buffer.fileSize = dex.length \/ "continue" \in buffer.flags
  /\ buffer.classDefs # 0

CheckDex ==
  /\ parser = "check"
  /\ parser' = IF IsAccepted THEN "parsed" ELSE "refused"
  /\ UNCHANGED <<buffer, chunk, classLookup, registerMaps, dex>>

ParseStart(b) ==
  /\ buffer = b /\ parser = "open" /\ chunk = Nowhere
  /\ classLookup = Nowhere /\ registerMaps = Nowhere
  /\ dex = [first |-> 0, length |-> 0]

ParseInit == \E b \in Buffers : ParseStart(b)

ParseNext == Open \/ WalkChunk \/ TakeDex \/ CheckDex

ParseSpec == ParseInit /\ [][ParseNext]_parseVars /\ WF_parseVars(ParseNext)

-----------------------------------------------------------------------------

\* Where the last of the first n chunks that is of the kind has its content.
LastAmong(kind, n) ==
  LET these == { i \in 1 .. n : buffer.contents[i].kind = kind }
  IN  IF these = {} THEN Nowhere ELSE buffer.contents[Max(these)].first

LastOf(kind) == LastAmong(kind, Len(buffer.contents))

\* A size that is so near the width that rounding it wraps around: the chunk
\* behind lies 8 bytes on, or is the same one.
Wraps(size) == size + 8 + 7 >= SizeRange

\* The walk goes through an area as it was written and has the tables where
\* they are in it.  In any area a table it keeps lies inside, unless this
\* table's own size wraps: then the table is kept though it reaches out.
TablesAsWritten ==
  /\ (buffer.contents # <<>> /\ parser \in {"check", "parsed"} /\ buffer.magic = "dey") =>
        classLookup = LastOf(LookupChunk) /\ registerMaps = LastOf(MapsChunk)
  /\ (buffer.contents # <<>> /\ parser = "refused") =>
        chunk = Nowhere \/ WordAt(chunk) = EndChunk
  /\ \A table \in {classLookup, registerMaps} \ {Nowhere} :
       \/ table * 4 + WordAt(table - 1) <= buffer.size - buffer.optOffset
       \/ Wraps(WordAt(table - 1))

\* The walk is at a chunk whose size is rounded to nothing: it stays there.
AtItsOwnNext ==
  /\ parser = "chunks" /\ WordAt(chunk) # EndChunk
  /\ IsValid(chunk + 2) /\ NextChunk = chunk
=============================================================================
