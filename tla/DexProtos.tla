------------------------------ MODULE DexProtos ------------------------------
(***************************************************************************)
(* The prototypes of methods (DexProto.cpp): their descriptors, the string *)
(* cache that holds the descriptor asked for last, the comparison of a     *)
(* prototype with a descriptor, and what the demangler reads in one.       *)
(*                                                                         *)
(* A prototype is [params, returns] of types; a type, like a descriptor,   *)
(* is the sequence of its bytes.                                           *)
(***************************************************************************)
EXTENDS Integers, Sequences, FiniteSetsExt

CONSTANTS
  Protos,
  Blocks,      \* the blocks of the heap
  BufferSize,  \* sizeof(DexStringCache::buffer)
  NoBlock      \* the buffer in the cache itself

VARIABLES
  cache,    \* [block, allocated, string]: value, allocatedSize, what value holds
  heap,     \* the allocated blocks
  handed,   \* blocks that callers have to free
  proto,    \* the prototype whose descriptor the cache holds, if any
  reading   \* what was read in the descriptor last, if anything

protoVars == <<cache, heap, handed, proto, reading>>

-----------------------------------------------------------------------------
(* Descriptors.                                                            *)

LParen == 40
RParen == 41
Slash == 47
Semicolon == 59
ClassMark == 76
ArrayMark == 91

Void == 86
Primitives == {66, 67, 68, 70, 73, 74, 83, 90}  \* B C D F I J S Z

\* A type: array marks, then a letter, or a class's name between L and a
\* semicolon.
IsName(name) == name # << >> /\ \A i \in DOMAIN name : name[i] \notin {RParen, Semicolon}

IsElement(type) ==
  \/ Len(type) = 1 /\ type[1] \in Primitives \cup {Void}
  \/ /\ Len(type) >= 3 /\ type[1] = ClassMark /\ type[Len(type)] = Semicolon
     /\ IsName(SubSeq(type, 2, Len(type) - 1))

IsType(type) ==
  /\ type \in Seq(1 .. 255)
  /\ \E n \in 0 .. Len(type) - 1 :
       (\A i \in 1 .. n : type[i] = ArrayMark) /\ IsElement(SubSeq(type, n + 1, Len(type)))

ASSUME ProtoAssumption ==
  /\ NoBlock \notin Blocks
  /\ BufferSize \in Nat \ {0}
  /\ \A p \in Protos :
       /\ p.params \in Seq(Seq(1 .. 255))
       /\ \A k \in DOMAIN p.params : LET type == p.params[k] IN IsType(type) /\ type[Len(type)] # Void
       /\ IsType(p.returns)

\* The lengths of the first k types are summed up before anything is written.
LengthsTo(types) ==
  LET sum[k \in 0 .. Len(types)] == IF k = 0 THEN 0 ELSE sum[k - 1] + Len(types[k]) IN sum

SumOfLengths(types) == LengthsTo(types)[Len(types)]

\* Each type is written where the one before it ends.
JoinedTo(types) ==
  LET text[k \in 0 .. Len(types)] == IF k = 0 THEN << >> ELSE text[k - 1] \o types[k] IN text

Joined(types) == JoinedTo(types)[Len(types)]

DescriptorLength(p) == 3 + SumOfLengths(p.params) + Len(p.returns)

\* dexProtoGetMethodDescriptor: what is written.
MethodDescriptor(p) == <<LParen>> \o Joined(p.params) \o <<RParen>> \o p.returns

\* dexProtoGetParameterDescriptors: what is written.
ParameterDescriptors(p) == Joined(p.params)

-----------------------------------------------------------------------------
(* The string cache.                                                       *)

\* The block the cache holds.
Held == IF cache.allocated # 0 THEN {cache.block} ELSE {}

\* Mutant: what was allocated before is not freed.
AllocLeaking(length, string) ==
  IF cache.allocated >= length
  THEN cache' = [cache EXCEPT !.string = string] /\ UNCHANGED heap
  ELSE IF length <= BufferSize
       THEN cache' = [block |-> NoBlock, allocated |-> 0, string |-> string] /\ UNCHANGED heap
       ELSE \E b \in Blocks \ heap :
              /\ heap' = heap \cup {b}
              /\ cache' = [block |-> b, allocated |-> length, string |-> string]

\* dexStringCacheAlloc, and the string its caller writes; length counts the
\* zero behind the string.
Alloc(length, string) ==
  \/ /\ cache.allocated # 0 /\ cache.allocated >= length
     /\ cache' = [cache EXCEPT !.string = string]
     /\ UNCHANGED heap
  \/ /\ cache.allocated < length /\ length <= BufferSize
     /\ heap' = heap \ Held
     /\ cache' = [block |-> NoBlock, allocated |-> 0, string |-> string]
  \/ /\ cache.allocated < length /\ length > BufferSize
     /\ \E b \in Blocks \ (heap \ Held) :
          /\ heap' = (heap \ Held) \cup {b}
          /\ cache' = [block |-> b, allocated |-> length, string |-> string]

GetMethodDescriptor(p) ==
  /\ Alloc(DescriptorLength(p), MethodDescriptor(p))
  /\ proto' = {p} /\ reading' = {}
  /\ UNCHANGED handed

GetParameterDescriptors(p) ==
  /\ Alloc(1 + SumOfLengths(p.params), ParameterDescriptors(p))
  /\ proto' = {} /\ reading' = {}
  /\ UNCHANGED handed

\* dexStringCacheEnsureCopy of a string of the file.
EnsureCopy(string) ==
  /\ Alloc(Len(string) + 1, string)
  /\ proto' = {} /\ reading' = {}
  /\ UNCHANGED handed

\* dexStringCacheAbandon of the cache's own string: the block goes to the
\* caller, a string in the buffer is copied for him.
Abandon ==
  /\ IF cache.allocated # 0
     THEN /\ handed' = handed \cup {cache.block}
          /\ cache' = [block |-> NoBlock, allocated |-> 0, string |-> << >>]
          /\ proto' = {}
          /\ UNCHANGED heap
     ELSE \E b \in Blocks \ heap :
            /\ heap' = heap \cup {b}
            /\ handed' = handed \cup {b}
            /\ UNCHANGED <<cache, proto>>
  /\ reading' = {}

\* A caller frees what it was handed.
FreeHanded ==
  \E b \in handed : /\ handed' = handed \ {b}
                    /\ heap' = heap \ {b}
                    /\ UNCHANGED <<cache, proto, reading>>

\* dexStringCacheRelease; the buffer is not cleared.
Release ==
  /\ cache.allocated # 0
  /\ heap' = heap \ Held
  /\ cache' = [block |-> NoBlock, allocated |-> 0, string |-> << >>]
  /\ proto' = {} /\ reading' = {}
  /\ UNCHANGED handed

-----------------------------------------------------------------------------
(* Comparing.                                                              *)

AsSigned == [ c \in 0 .. 255 |-> IF c < 128 THEN c ELSE c - 256 ]
AsUnsigned == [ c \in 0 .. 255 |-> c ]

\* The sign of the comparison of two strings, each with its zero, by the values
\* of their bytes.
Order(s, t, value) ==
  LET x == Append(s, 0)
      y == Append(t, 0)
      n == IF Len(x) < Len(y) THEN Len(x) ELSE Len(y)
      different == { i \in 1 .. n : x[i] # y[i] }
  IN  IF different = {} THEN 0
      ELSE IF value[x[Min(different)]] < value[y[Min(different)]] THEN -1 ELSE 1

StrCmp(s, t) == Order(s, t, AsUnsigned)

\* protoCompare, the loop over the parameters of both.
CompareTypes(s, t) ==
  LET n == IF Len(s) < Len(t) THEN Len(s) ELSE Len(t)
      different == { i \in 1 .. n : StrCmp(s[i], t[i]) # 0 }
  IN  IF different # {} THEN StrCmp(s[Min(different)], t[Min(different)])
      ELSE IF Len(s) < Len(t) THEN -1 ELSE IF Len(s) > Len(t) THEN 1 ELSE 0

\* dexProtoCompare.
CompareProtos(p, q) ==
  LET result == StrCmp(p.returns, q.returns)
  IN  IF result # 0 THEN result ELSE CompareTypes(p.params, q.params)

PlacesOf(c, d, from) == { i \in from .. Len(d) : d[i] = c }

\* methodDescriptorNextType: where the type at a place of a descriptor ends.
NextType(d, from) ==
  LET mark == Min({ i \in from .. Len(d) : d[i] # ArrayMark })
  IN  IF d[mark] = ClassMark THEN Min(PlacesOf(Semicolon, d, mark + 1)) + 1 ELSE mark + 1

\* Where a descriptor stands after each of n types, or at its ")".
PlacesAfter(d, n) ==
  LET place[k \in 0 .. n] ==
        IF k = 0 THEN 2 ELSE IF d[place[k - 1]] = RParen THEN place[k - 1] ELSE NextType(d, place[k - 1])
  IN  place

\* The comparison of the k-th argument with what is between two places.
\* char is signed.
CompareArgument(p, d, place, k) == Order(p.params[k], SubSeq(d, place[k - 1], place[k] - 1), AsSigned)

\* The number of arguments that match before the comparison is decided.
Matching(p, d, place) ==
  Min({ k \in 0 .. Len(p.params) :
          d[place[k]] = RParen \/ k = Len(p.params) \/ CompareArgument(p, d, place, k + 1) # 0 })

\* Mutant: the arguments have all matched when the descriptor has no more.
CompareToArgumentsShort(p, d) ==
  LET place == PlacesAfter(d, Len(p.params))
      k == Matching(p, d, place)
  IN  IF d[place[k]] = RParen THEN 0
      ELSE IF k = Len(p.params) THEN -1 ELSE CompareArgument(p, d, place, k + 1)

\* protoCompareToParameterDescriptors.
CompareToArguments(p, d) ==
  LET place == PlacesAfter(d, Len(p.params))
      k == Matching(p, d, place)
  IN  IF d[place[k]] = RParen THEN IF k = Len(p.params) THEN 0 ELSE 1
      ELSE IF k = Len(p.params) THEN -1 ELSE CompareArgument(p, d, place, k + 1)

\* methodDescriptorReturnType.
ReturnTypeIn(d) == SubSeq(d, Min(PlacesOf(RParen, d, 1)) + 1, Len(d))

\* dexProtoCompareToDescriptor.
CompareToDescriptor(p, d) ==
  LET result == StrCmp(p.returns, ReturnTypeIn(d))
  IN  IF result # 0 THEN result ELSE CompareToArguments(p, d)

\* A caller compares a prototype with the descriptor in the cache.
Compare(p) ==
  /\ proto # {}
  /\ reading' = { [of |-> p, order |-> CompareToDescriptor(p, cache.string)] }
  /\ UNCHANGED <<cache, heap, handed, proto>>

-----------------------------------------------------------------------------
(* The demangler, for a descriptor in a listing.                           *)

\* getObjectName: behind the last slash that something precedes and follows.
ObjectName(type) ==
  LET slashes == { i \in 3 .. Len(type) - 2 : type[i] = Slash }
  IN  IF type[1] = ClassMark /\ type[Len(type)] = Semicolon /\ slashes # {}
      THEN SubSeq(type, Max(slashes) + 1, Len(type) - 1) ELSE type

\* The classes named behind a place, from their L on; the next one's semicolon.
MarksAfter(d, at) == PlacesOf(ClassMark, d, at + 1)

NameEnd(d, at) == Min(PlacesOf(Semicolon, d, Min(MarksAfter(d, at)) + 2))

\* Where the search for classes has come after each of them.
NamesEnd(d) ==
  LET end[k \in 0 .. Len(d)] ==
        IF k = 0 THEN 0 ELSE IF MarksAfter(d, end[k - 1]) = {} THEN end[k - 1] ELSE NameEnd(d, end[k - 1])
  IN  end

\* getSignature: the classes named from left to right, each up to the next
\* semicolon.
Signature(d) ==
  LET end == NamesEnd(d)
      count == Min({ k \in 0 .. Len(d) : MarksAfter(d, end[k]) = {} })
  IN  [ k \in 1 .. count |-> ObjectName(SubSeq(d, Min(MarksAfter(d, end[k - 1])), end[k])) ]

\* dexCopyDescriptorFromMethodId, and the signature made of the copy.
ShowSignature ==
  /\ proto # {}
  /\ reading' = { [names |-> Signature(cache.string)] }
  /\ UNCHANGED <<cache, heap, handed, proto>>

-----------------------------------------------------------------------------

ProtoStart ==
  /\ cache = [block |-> NoBlock, allocated |-> 0, string |-> << >>]
  /\ heap = {} /\ handed = {} /\ proto = {} /\ reading = {}

ProtoNext ==
  \/ \E p \in Protos : GetMethodDescriptor(p) \/ GetParameterDescriptors(p) \/ EnsureCopy(p.returns) \/ Compare(p)
  \/ Abandon \/ FreeHanded \/ Release \/ ShowSignature

ProtoSpec == ProtoStart /\ [][ProtoNext]_protoVars

-----------------------------------------------------------------------------

\* Every allocated block has one owner, the cache or a caller, so that each is
\* freed, and once.
CacheOwnership ==
  /\ (cache.allocated = 0) <=> (cache.block = NoBlock)
  /\ cache.block \notin handed
  /\ heap = handed \cup Held

\* The string, with its zero, fits where the cache holds it.
StringFits == Len(cache.string) + 1 <= IF cache.allocated = 0 THEN BufferSize ELSE cache.allocated

\* DexProto.h: the comparison with a descriptor is done as if it were
\* converted to a prototype.  It is not where a byte from 128 on decides.
Ascii(p) == \A k \in DOMAIN p.params : \A i \in DOMAIN p.params[k] : p.params[k][i] < 128

ComparedAsPrototypes ==
  \A r \in reading : \A q \in proto :
    ("of" \in DOMAIN r /\ Ascii(r.of) /\ Ascii(q)) => r.order = CompareProtos(r.of, q)

ElementType(type) == SubSeq(type, Min({ i \in DOMAIN type : type[i] # ArrayMark }), Len(type))

\* The names of the classes among the first k types, in their order.
ClassesTo(types) ==
  LET names[k \in 0 .. Len(types)] ==
        IF k = 0 THEN << >>
        ELSE IF ElementType(types[k])[1] # ClassMark THEN names[k - 1]
        ELSE Append(names[k - 1], ObjectName(ElementType(types[k])))
  IN  names

\* The signature in a listing names the classes of the method's parameters, in
\* their order, and behind them that of what it returns.
SignatureNamesClasses ==
  \A r \in reading : \A q \in proto :
    "names" \in DOMAIN r =>
      LET types == Append(q.params, q.returns) IN r.names = ClassesTo(types)[Len(types)]

\* What is read back from a descriptor is what it was made of.
DescriptorsReadBack == StringFits /\ ComparedAsPrototypes /\ SignatureNamesClasses
=============================================================================
