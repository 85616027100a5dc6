----------------------------- MODULE DexClassData -----------------------------
(***************************************************************************)
(* A class's fields and methods as DexClass.cpp reads them: four counts,   *)
(* then the static and the instance fields, the direct and the virtual     *)
(* methods, all in unsigned LEB128 (Leb128.h, Leb128.cpp).  A field or a   *)
(* method is numbered relative to the one before it in its list.           *)
(*                                                                         *)
(* An item is [bytes, limit, class]: the bytes from the item on, the place *)
(* reading must stop at (NoLimit for none) and what was written there,     *)
(* [lists, size, numbers, places]: four lists in the file's order in so    *)
(* many bytes, as the numbers of which each lies between two places.  The  *)
(* size is 0 if the bytes are no class data: there are none, or behind the *)
(* numbers follows one that is too long.                                   *)
(***************************************************************************)
EXTENDS Integers, Sequences

CONSTANTS
  ClassItems, NoLimit,
  IndexRange  \* 2^32, the values of an index

VARIABLES
  encoded,    \* the item
  reader,     \* "header", "list" or how the call ended, "read" or "failed"
  at,         \* *pData
  sizes,      \* the header
  lists,      \* what was read of the lists
  lastIndex

classVars == <<encoded, reader, at, sizes, lists, lastIndex>>

ASSUME ClassAssumption ==
  /\ IndexRange \in Nat \ {0}
  /\ \A c \in ClassItems : c.bytes \in Seq(0 .. 255) /\ (c.limit = NoLimit \/ c.limit \in Nat)

\* Seven bits of a number, from the lowest on.
Weights == <<1, 128, 16384, 2097152, 268435456>>

Septet(v, j) == (v \div Weights[j]) % 128

\* The k-th number lies from its place to the next, in five bytes at most:
\* its low bits first, and a high bit in each byte but the last.
IsWritten(c, k) ==
  LET n == c.class.places[k]
      width == c.class.places[k + 1] - n
      v == c.class.numbers[k]
  IN  /\ v \in Nat /\ v \div Weights[5] <= 15 /\ width \in 1 .. 5
      /\ \A j \in 1 .. 5 :
           IF j > width THEN Septet(v, j) = 0
           ELSE c.bytes[n + j] = Septet(v, j) + (IF j = width THEN 0 ELSE 128)

\* Fields are two numbers, methods three; the lists follow the four counts.
EntryLength(l) == IF l <= 2 THEN 2 ELSE 3

ListsBegin(v) ==
  << 4, 4 + 2 * v[1], 4 + 2 * (v[1] + v[2]), 4 + 2 * (v[1] + v[2]) + 3 * v[3],
     4 + 2 * (v[1] + v[2]) + 3 * (v[3] + v[4]) >>

\* The first number of an entry is its distance from the one before it.
EntryWritten(c, l, i) ==
  LET v == c.class.numbers
      entry == c.class.lists[l][i]
      q == ListsBegin(v)[l] + EntryLength(l) * (i - 1)
  IN  /\ Len(entry) = EntryLength(l)
      /\ entry[1] = (v[q + 1] + (IF i = 1 THEN 0 ELSE c.class.lists[l][i - 1][1])) % IndexRange
      /\ \A j \in 2 .. EntryLength(l) : entry[j] = v[q + j]

\* What a file has of a class.
ASSUME EncodingAssumption ==
  \A c \in ClassItems :
    LET v == c.class.numbers
        places == c.class.places
        end == places[Len(v) + 1]
    IN  /\ v \in Seq(Nat) /\ places \in Seq(Nat) /\ Len(places) = Len(v) + 1 /\ places[1] = 0
        /\ \A k \in DOMAIN v : IsWritten(c, k)
        /\ \A k \in DOMAIN places : places[k] <= end
        /\ c.class.size # 0 =>
             /\ c.bytes # << >> /\ end = c.class.size
             /\ Len(v) >= 4 /\ Len(v) = ListsBegin(v)[5]
             /\ c.class.lists \in Seq(Seq(Seq(Nat))) /\ Len(c.class.lists) = 4
             /\ \A l \in 1 .. 4 : /\ Len(c.class.lists[l]) = v[l]
                                 /\ \A i \in 1 .. v[l] : EntryWritten(c, l, i)
        /\ (c.class.size = 0 /\ c.bytes = << >>) => c.class.lists = << << >>, << >>, << >>, << >> >>
        /\ (c.class.size = 0 /\ c.bytes # << >>) =>
             /\ Len(v) < 4 \/ Len(v) < ListsBegin(v)[5]
             /\ end + 5 <= Len(c.bytes)
             /\ \A j \in 1 .. 4 : c.bytes[end + j] >= 128
             /\ c.bytes[end + 5] > 15

-----------------------------------------------------------------------------

Byte(place) == encoded.bytes[place + 1]

\* readUnsignedLeb128: no number has more than five bytes.
UlebEnd(place) ==
  place + CHOOSE k \in 1 .. 5 :
            /\ \A j \in 1 .. k - 1 : Byte(place + j - 1) >= 128
            /\ k = 5 \/ Byte(place + k - 1) < 128

\* The bits that the fifth byte has too many are shifted out of 32.
UlebValue(place) ==
  LET n == UlebEnd(place) - place
      bits(k) == IF k > n THEN 0 ELSE IF k = 5 THEN Byte(place + 4) % 16 ELSE Byte(place + k - 1) % 128
  IN  bits(1) + bits(2) * Weights[2] + bits(3) * Weights[3] + bits(4) * Weights[4] + bits(5) * Weights[5]

\* readAndVerifyUnsignedLeb128.
UlebOkay(place) ==
  /\ encoded.limit = NoLimit \/ UlebEnd(place) <= encoded.limit
  /\ UlebEnd(place) - place = 5 => Byte(place + 4) <= 15

\* Where the number behind n others begins.
Behind(n) == LET place[k \in 0 .. n] == IF k = 0 THEN at ELSE UlebEnd(place[k - 1]) IN place[n]

\* verifyUlebs, from where the item is read.
VerifyUlebs(n) == \A k \in 1 .. n : UlebOkay(Behind(k - 1))

Value(n) == UlebValue(Behind(n - 1))

\* dexReadAndVerifyClassData of a class without data.
ReadNothing ==
  /\ reader = "header" /\ encoded.bytes = << >>
  /\ lists' = [ k \in 1 .. 4 |-> << >> ]
  /\ reader' = "read"
  /\ UNCHANGED <<encoded, at, sizes, lastIndex>>

\* dexReadAndVerifyClassDataHeader.
ReadHeader ==
  /\ reader = "header" /\ encoded.bytes # << >>
  /\ IF VerifyUlebs(4)
     THEN /\ sizes' = [ k \in 1 .. 4 |-> Value(k) ]
          /\ at' = Behind(4)
          /\ lists' = << << >> >>
          /\ reader' = "list"
     ELSE reader' = "failed" /\ UNCHANGED <<at, sizes, lists>>
  /\ UNCHANGED <<encoded, lastIndex>>

\* dexReadAndVerifyClassDataField and dexReadAndVerifyClassDataMethod.
ReadEntry ==
  LET list == Len(lists)
      numbers == IF list <= 2 THEN 2 ELSE 3
      index == (lastIndex + Value(1)) % IndexRange
  IN  /\ reader = "list" /\ Len(lists[list]) < sizes[list]
      /\ IF VerifyUlebs(numbers)
         THEN /\ lists' = [lists EXCEPT ![list] = Append(@, <<index>> \o [ k \in 1 .. numbers - 1 |-> Value(k + 1) ])]
              /\ at' = Behind(numbers)
              /\ lastIndex' = index
              /\ UNCHANGED reader
         ELSE /\ reader' = "failed" /\ lists' = << >>
              /\ UNCHANGED <<at, lastIndex>>
      /\ UNCHANGED <<encoded, sizes>>

\* Mutant: the next list goes on counting.
ResumedIndex == lastIndex

\* lastIndex = 0.
InitialIndex == 0

\* A list is complete: the next one, or the call returns.
NextList ==
  /\ reader = "list" /\ Len(lists[Len(lists)]) = sizes[Len(lists)]
  /\ IF Len(lists) < 4
     THEN lists' = Append(lists, << >>) /\ lastIndex' = InitialIndex /\ UNCHANGED reader
     ELSE reader' = "read" /\ UNCHANGED <<lists, lastIndex>>
  /\ UNCHANGED <<encoded, at, sizes>>

ClassStart(c) ==
  /\ encoded = c /\ reader = "header" /\ at = 0
  /\ sizes = << >> /\ lists = << >> /\ lastIndex = 0

ClassInit == \E c \in ClassItems : ClassStart(c)

ClassNext == ReadNothing \/ ReadHeader \/ ReadEntry \/ NextList

ClassSpec == ClassInit /\ [][ClassNext]_classVars /\ WF_classVars(ClassNext)

-----------------------------------------------------------------------------

\* The class read is the one the bytes describe, every list numbered from its
\* own beginning, and the reader stands behind it; of bytes that are no class
\* data, and of a class that goes on behind the limit, nothing is returned.
ClassReadBack ==
  /\ reader = "read" => lists = encoded.class.lists /\ at = encoded.class.size
  /\ reader = "failed" =>
       /\ lists = << >>
       /\ encoded.class.size = 0 \/ (encoded.limit # NoLimit /\ encoded.limit < encoded.class.size)
=============================================================================
