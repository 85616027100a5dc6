--------------------------- MODULE DexCode_proofs ----------------------------
(* What is proved of libdex: its class table, its search for the handlers of *)
(* an address and its walk over them, its string caches and the descriptors  *)
(* in them, the walk over the chunks of an optimized file, its reader of     *)
(* class data, and its decoder of debug information.                         *)
EXTENDS ClassLookup, DexCatch, DexDebugInfo, DexProtos, DexClassData, DexFileParse, SequenceTheorems, OrderLemmas, TLAPS

-----------------------------------------------------------------------------
(***************************************************************************)
(* The open-addressed table answers as a directory of the classes does, for *)
(* any classes, any hash function and any size of the table.  The hash is   *)
(* used through the slot it leads to only.                                  *)
(***************************************************************************)

Slots == 0 .. TableSize(Len(classes)) - 1

\* The slots a probe that starts at h has passed when it comes to s; none when
\* it is back at h.
Path(h, s) == { x \in Slots : IF h <= s THEN h <= x /\ x < s ELSE h <= x \/ x < s }

\* A class is in a slot that its probe came to over slots of earlier classes.
Placed(i) ==
  \E s \in Slots :
    /\ table[s] = Entry(i)
    /\ \A x \in Path(FirstSlot(classes[i]), s) : \E j \in 1 .. i - 1 : table[x] = Entry(j)

TypeInv ==
  /\ classes \in ClassLists
  /\ added \in Nat /\ added <= Len(classes)
  /\ slot \in Slots
  /\ step \in {"add", "ready", "find"}
  /\ DOMAIN table = Slots
  /\ step = "add" => added < Len(classes) /\ wanted = NoClass
  /\ step = "ready" => wanted = NoClass
  /\ step = "find" => wanted \in Descriptors /\ found = NoClass
  /\ step # "add" => added = Len(classes)

TableInv ==
  /\ \A x \in Slots : table[x] = Empty \/ \E j \in 1 .. added : table[x] = Entry(j)
  /\ \A i \in 1 .. added : Placed(i)

ProbeInv ==
  /\ step = "add" => \A x \in Path(FirstSlot(classes[added + 1]), slot) : table[x] # Empty
  /\ step = "find" =>
       \A x \in Path(FirstSlot(wanted), slot) :
         \E j \in 1 .. added : table[x] = Entry(j) /\ classes[j] # wanted

LookupInv == TypeInv /\ TableInv /\ ProbeInv

-----------------------------------------------------------------------------
(* The ring of slots.                                                       *)

\* The first slot and the next one are slots.
LEMMA InRing ==
  ASSUME classes \in ClassLists
  PROVE  /\ TableSize(Len(classes)) \in Nat \ {0}
         /\ 0 \in Slots
         /\ \A d \in Descriptors : FirstSlot(d) \in Slots
         /\ slot \in Slots => NextSlot = IF slot + 1 = TableSize(Len(classes)) THEN 0 ELSE slot + 1
         /\ slot \in Slots => NextSlot \in Slots
<1>. DEFINE N == TableSize(Len(classes))
<1>1. N \in Nat \ {0}
  BY HashAssumption
<1>2. ASSUME NEW d \in Descriptors PROVE FirstSlot(d) \in Slots
  <2>1. Hash(d) \in Nat
    BY HashAssumption
  <2>. QED  BY <1>1, <2>1 DEF FirstSlot, Slots
<1>3. ASSUME slot \in Slots PROVE NextSlot = IF slot + 1 = N THEN 0 ELSE slot + 1
  <2>1. slot \in Nat /\ slot < N
    BY <1>1, <1>3 DEF Slots
  <2>. HIDE DEF N
  <2>2. (slot + 1) % N = IF slot + 1 = N THEN 0 ELSE slot + 1
    BY <1>1, <2>1
  <2>. QED  BY <2>2 DEF NextSlot, N
<1>. QED  BY <1>1, <1>2, <1>3 DEF Slots

\* A probe that goes on has passed one slot more, or is back where it started.
LEMMA PathGrows ==
  ASSUME classes \in ClassLists, slot \in Slots, NEW h \in Slots
  PROVE  \A x \in Path(h, NextSlot) : x \in Path(h, slot) \/ x = slot
BY InRing DEF Path, Slots

\* Of two slots one is on the way to the other.
LEMMA OneBefore ==
  ASSUME classes \in ClassLists, NEW h \in Slots, NEW s \in Slots, NEW t \in Slots, s # t
  PROVE  s \in Path(h, t) \/ t \in Path(h, s)
BY InRing DEF Path, Slots

LEMMA PathEmpty == ASSUME NEW h \in Slots PROVE Path(h, h) = {}
BY DEF Path, Slots

-----------------------------------------------------------------------------
(* The entries.                                                             *)

LEMMA EntryFacts ==
  /\ \A i : Entry(i) # Empty
  /\ \A i, j : Entry(i) = Entry(j) => i = j
  /\ \A i : \A e \in Entry(i) : e.def = i /\ (Matches(e) => classes[i] = wanted)
  /\ \A i : classes[i] = wanted => \A e \in Entry(i) : Matches(e)
<1>1. ASSUME NEW i PROVE \A e \in Entry(i) : e.def = i /\ e.hash = Hash(classes[i]) /\ e.descriptor = classes[i]
  BY DEF Entry
<1>2. ASSUME NEW i PROVE Entry(i) # {}
  BY DEF Entry
<1>3. ASSUME NEW i, NEW j, Entry(i) = Entry(j) PROVE i = j
  BY <1>1, <1>2, <1>3
<1>. QED  BY <1>1, <1>2, <1>3 DEF Matches, Empty

LEMMA ListFacts ==
  ASSUME classes \in ClassLists
  PROVE  /\ classes \in Seq(Descriptors)
         /\ Len(classes) \in Nat \ {0}
         /\ \A i \in 1 .. Len(classes) : classes[i] \in Descriptors
<1>1. classes \in Seq(Descriptors) /\ classes # << >>
  BY LookupAssumption
<1>2. Len(classes) \in Nat \ {0}
  BY <1>1, EmptySeq
<1>3. ASSUME NEW i \in 1 .. Len(classes) PROVE classes[i] \in Descriptors
  BY <1>1, ElementOfSeq
<1>. QED  BY <1>1, <1>2, <1>3

\* What the directory has been told of.
LEMMA DefinedFacts ==
  ASSUME TypeInv
  PROVE  /\ \A d : Directory!Defining(d) = { i \in 1 .. added : classes[i] = d }
         /\ added < Len(classes) =>
              SubSeq(classes, 1, added + 1) = Append(SubSeq(classes, 1, added), classes[added + 1])
<1>1. classes \in Seq(Descriptors) /\ Len(classes) \in Nat /\ \A i \in 1 .. Len(classes) : classes[i] \in Descriptors
  BY ListFacts DEF TypeInv
<1>2. added \in Nat /\ added <= Len(classes)
  BY DEF TypeInv
<1>3. ASSUME NEW n \in 0 .. Len(classes)
      PROVE  /\ SubSeq(classes, 1, n) \in Seq(Descriptors)
             /\ Len(SubSeq(classes, 1, n)) = n
             /\ \A i \in 1 .. n : SubSeq(classes, 1, n)[i] = classes[i]
  <2>1. n \in Int /\ \A i \in 1 .. n : classes[i] \in Descriptors
    BY <1>1, <1>3
  <2>. QED  BY <1>1, <2>1, SubSeqProperties
<1>4. DOMAIN SubSeq(classes, 1, added) = 1 .. added
  BY <1>1, <1>2, <1>3, LenProperties
<1>5. ASSUME NEW d PROVE Directory!Defining(d) = { i \in 1 .. added : classes[i] = d }
  BY <1>2, <1>3, <1>4, <1>1 DEF Directory!Defining
<1>6. ASSUME added < Len(classes)
      PROVE  SubSeq(classes, 1, added + 1) = Append(SubSeq(classes, 1, added), classes[added + 1])
  <2>. DEFINE s == SubSeq(classes, 1, added)
              t == SubSeq(classes, 1, added + 1)
              c == classes[added + 1]
  <2>1. s \in Seq(Descriptors) /\ Len(s) = added /\ \A i \in 1 .. added : s[i] = classes[i]
    BY <1>1, <1>2, <1>3
  <2>2. added + 1 \in 0 .. Len(classes)
    BY <1>1, <1>2, <1>6
  <2>3. t \in Seq(Descriptors) /\ Len(t) = added + 1 /\ \A i \in 1 .. added + 1 : t[i] = classes[i]
    BY <1>3, <2>2
  <2>4. c \in Descriptors
    BY <1>1, <1>2, <1>6
  <2>5. Append(s, c) \in Seq(Descriptors) /\ Len(Append(s, c)) = added + 1
        /\ \A i \in 1 .. added + 1 : Append(s, c)[i] = IF i = added + 1 THEN c ELSE s[i]
    <3>. HIDE DEF s, c
    <3>. QED  BY <1>2, <2>1, <2>4, AppendProperties
  <2>6. \A i \in 1 .. added + 1 : t[i] = Append(s, c)[i]
    <3>. SUFFICES ASSUME NEW i \in 1 .. added + 1 PROVE t[i] = Append(s, c)[i]
      OBVIOUS
    <3>1. CASE i = added + 1
      BY <2>3, <2>5, <3>1
    <3>2. CASE i \in 1 .. added
      BY <1>2, <2>1, <2>3, <2>5, <3>2
    <3>. QED  BY <1>2, <3>1, <3>2
  <2>. HIDE DEF s, t, c
  <2>7. t = Append(s, c)
    BY <2>3, <2>5, <2>6, SeqEqual
  <2>. QED  BY <2>7 DEF s, t, c
<1>. QED  BY <1>5, <1>6

-----------------------------------------------------------------------------
(* The steps.                                                               *)

LEMMA LookupInitial == LookupInit => LookupInv /\ Directory!Init
<1>. SUFFICES ASSUME NEW c \in ClassLists, LookupStart(c) PROVE LookupInv /\ Directory!Init
  BY DEF LookupInit
<1>1. /\ classes = c /\ classes \in ClassLists
      /\ table = [ s \in 0 .. TableSize(Len(c)) - 1 |-> Empty ]
      /\ step = "add" /\ added = 0 /\ wanted = NoClass /\ found = NoClass
      /\ slot = Hash(c[1]) % TableSize(Len(c))
  BY DEF LookupStart
<1>2. Len(classes) \in Nat \ {0} /\ classes[1] \in Descriptors
  BY <1>1, ListFacts
<1>3. slot = FirstSlot(classes[1]) /\ slot \in Slots
  BY <1>1, <1>2, InRing DEF FirstSlot
<1>4. TypeInv
  BY <1>1, <1>2, <1>3 DEF TypeInv, Slots
<1>5. TableInv
  BY <1>1 DEF TableInv, Slots
<1>6. ProbeInv
  BY <1>1, <1>3, PathEmpty DEF ProbeInv
<1>7. SubSeq(classes, 1, 0) = << >>
  BY SubSeqEmpty
<1>. QED  BY <1>1, <1>4, <1>5, <1>6, <1>7 DEF LookupInv, Directory!Init

\* A step that leaves the table alone leaves what is in it in its place.
LEMMA TableStays ==
  ASSUME TableInv, UNCHANGED <<classes, table, added>>
  PROVE  TableInv'
<1>1. classes' = classes /\ table' = table /\ added' = added
  OBVIOUS
<1>. QED  BY <1>1 DEF TableInv, Slots, Placed, Path, FirstSlot, Entry

\* The probe for a free slot goes on.
LEMMA AddProbes ==
  ASSUME LookupInv, Add, table[slot] # Empty
  PROVE  LookupInv' /\ UNCHANGED Directory!directoryVars
<1>1. /\ UNCHANGED <<classes, table, step, added, wanted, found>>
      /\ step = "add" /\ slot' = NextSlot
  BY DEF Add
<1>2. TypeInv'
  BY <1>1, InRing DEF LookupInv, TypeInv, Slots
<1>3. TableInv'
  BY <1>1, TableStays DEF LookupInv
<1>4. ASSUME NEW x \in Path(FirstSlot(classes[added + 1]), slot') PROVE table[x] # Empty
  <2>1. classes[added + 1] \in Descriptors
    BY <1>1, ListFacts DEF LookupInv, TypeInv
  <2>2. x \in Path(FirstSlot(classes[added + 1]), slot) \/ x = slot
    BY <1>1, <1>4, <2>1, InRing, PathGrows DEF LookupInv, TypeInv
  <2>. QED  BY <1>1, <2>2 DEF LookupInv, ProbeInv
<1>5. ProbeInv'
  BY <1>1, <1>4 DEF ProbeInv, Path, Slots, FirstSlot
<1>. QED  BY <1>1, <1>2, <1>3, <1>5 DEF LookupInv, Directory!directoryVars

\* The next class gets the free slot its probe came to.
LEMMA AddPlaces ==
  ASSUME LookupInv, Add, table[slot] = Empty
  PROVE  LookupInv' /\ Directory!Define
<1>0. PICK n : n = added + 1
  OBVIOUS
<1>1. /\ UNCHANGED <<classes, wanted, found>> /\ step = "add"
      /\ table' = [table EXCEPT ![slot] = Entry(n)]
      /\ added' = n
      /\ IF n < Len(classes) THEN step' = "add" /\ slot' = FirstSlot(classes[n + 1])
         ELSE step' = "ready" /\ slot' = 0
  BY <1>0 DEF Add, Proceed
<1>2. /\ classes \in ClassLists /\ added \in Nat /\ added < Len(classes) /\ wanted = NoClass
      /\ slot \in Slots /\ DOMAIN table = Slots
      /\ Len(classes) \in Nat /\ n \in 1 .. Len(classes)
  BY <1>0, <1>1, ListFacts DEF LookupInv, TypeInv
<1>3. /\ table'[slot] = Entry(n)
      /\ \A x \in Slots : x # slot => table'[x] = table[x]
      /\ DOMAIN table' = Slots
  BY <1>1, <1>2
<1>4. slot' \in Slots /\ (step' = "add" => n < Len(classes) /\ slot' = FirstSlot(classes[n + 1]))
  <2>1. CASE n < Len(classes)
    <3>1. classes[n + 1] \in Descriptors
      BY <1>2, <2>1, ListFacts
    <3>. QED  BY <1>1, <1>2, <2>1, <3>1, InRing
  <2>2. CASE ~(n < Len(classes))
    BY <1>1, <1>2, <2>2, InRing
  <2>. QED  BY <2>1, <2>2
<1>5. TypeInv'
  <2>1. step' \in {"add", "ready"}
    BY <1>1
  <2>2. step' # "add" => n = Len(classes)
    BY <1>0, <1>1, <1>2
  <2>. QED  BY <1>0, <1>1, <1>2, <1>3, <1>4, <2>1, <2>2 DEF TypeInv, Slots
<1>6. ASSUME NEW x \in Slots, table[x] # Empty
      PROVE  x # slot /\ \E j \in 1 .. added : table[x] = Entry(j) /\ table'[x] = Entry(j)
  BY <1>3, <1>6 DEF LookupInv, TableInv
<1>7. ASSUME NEW i \in 1 .. added PROVE Placed(i)'
  <2>1. PICK s \in Slots :
          /\ table[s] = Entry(i)
          /\ \A x \in Path(FirstSlot(classes[i]), s) : \E j \in 1 .. i - 1 : table[x] = Entry(j)
    BY <1>7 DEF LookupInv, TableInv, Placed
  <2>2. table'[s] = Entry(i)
    BY <1>3, <2>1, EntryFacts
  <2>3. ASSUME NEW x \in Path(FirstSlot(classes[i]), s)
        PROVE  \E j \in 1 .. i - 1 : table'[x] = Entry(j)
    <3>1. PICK j \in 1 .. i - 1 : table[x] = Entry(j)
      BY <2>1, <2>3
    <3>2. x \in Slots /\ x # slot
      BY <2>3, <3>1, EntryFacts DEF Path
    <3>. QED  BY <1>3, <3>1, <3>2
  <2>. QED  BY <1>1, <2>2, <2>3 DEF Placed, Path, Slots, FirstSlot, Entry
<1>8. Placed(n)'
  <2>1. ASSUME NEW x \in Path(FirstSlot(classes[n]), slot)
        PROVE  \E j \in 1 .. n - 1 : table'[x] = Entry(j)
    <3>1. x \in Slots /\ table[x] # Empty
      BY <1>0, <1>1, <2>1 DEF LookupInv, ProbeInv, Path
    <3>. QED  BY <1>0, <1>2, <1>6, <3>1
  <2>. QED  BY <1>1, <1>2, <1>3, <2>1 DEF Placed, Path, Slots, FirstSlot, Entry
<1>9. TableInv'
  <2>1. \A x \in Slots : table'[x] = Empty \/ \E j \in 1 .. n : table'[x] = Entry(j)
    <3>. SUFFICES ASSUME NEW x \in Slots PROVE table'[x] = Empty \/ \E j \in 1 .. n : table'[x] = Entry(j)
      OBVIOUS
    <3>1. CASE x = slot
      BY <1>0, <1>2, <1>3, <3>1
    <3>2. CASE x # slot
      <4>1. table[x] = Empty \/ \E j \in 1 .. added : table[x] = Entry(j)
        BY DEF LookupInv, TableInv
      <4>. QED  BY <1>0, <1>2, <1>3, <3>2, <4>1
    <3>. QED  BY <3>1, <3>2
  <2>2. \A i \in 1 .. n : Placed(i)'
    BY <1>0, <1>2, <1>7, <1>8
  <2>. QED  BY <1>1, <2>1, <2>2 DEF TableInv, Slots, Entry, Empty
<1>10. ProbeInv'
  <2>1. ASSUME step' = "add" PROVE Path(FirstSlot(classes[n + 1]), slot') = {}
    BY <1>4, <2>1, PathEmpty
  <2>. QED  BY <1>1, <2>1 DEF ProbeInv, Path, Slots, FirstSlot
<1>11. Directory!Define
  <2>1. classes[n] \in Descriptors
    BY <1>2, ListFacts
  <2>2. SubSeq(classes, 1, added)' = Append(SubSeq(classes, 1, added), classes[n])
    BY <1>0, <1>1, <1>2, DefinedFacts DEF LookupInv
  <2>. QED  BY <1>1, <2>1, <2>2 DEF Directory!Define
<1>. QED  BY <1>5, <1>9, <1>10, <1>11 DEF LookupInv

LEMMA AskStep ==
  ASSUME LookupInv, Ask
  PROVE  LookupInv' /\ Directory!Ask
<1>1. PICK d \in Descriptors : wanted' = d /\ slot' = FirstSlot(d)
  BY DEF Ask
<1>2. UNCHANGED <<classes, table, added>> /\ step = "ready" /\ step' = "find" /\ found' = NoClass
  BY DEF Ask
<1>3. TypeInv'
  <2>1. FirstSlot(d) \in Slots
    BY <1>1, InRing DEF LookupInv, TypeInv
  <2>. QED  BY <1>1, <1>2, <2>1 DEF LookupInv, TypeInv, Slots
<1>4. TableInv'
  BY <1>2, TableStays DEF LookupInv
<1>5. Path(FirstSlot(wanted), slot)' = {}
  <2>1. FirstSlot(d) \in Slots /\ Path(FirstSlot(d), FirstSlot(d)) = {}
    BY <1>1, InRing, PathEmpty DEF LookupInv, TypeInv
  <2>. QED  BY <1>1, <1>2, <2>1 DEF Path, Slots, FirstSlot
<1>6. ProbeInv'
  BY <1>2, <1>5 DEF ProbeInv
<1>7. Directory!Ask
  BY <1>1, <1>2 DEF LookupInv, TypeInv, Directory!Ask
<1>. QED  BY <1>3, <1>4, <1>6, <1>7 DEF LookupInv

\* The place of a class a search is for, seen from a slot of that search: it is
\* not passed, so it is that slot, or the slot was taken before it.
LEMMA PlaceAhead ==
  ASSUME LookupInv, step = "find", NEW i \in 1 .. added, classes[i] = wanted
  PROVE  table[slot] = Entry(i) \/ \E j \in 1 .. i - 1 : table[slot] = Entry(j)
<1>1. PICK s \in Slots :
        /\ table[s] = Entry(i)
        /\ \A x \in Path(FirstSlot(wanted), s) : \E j \in 1 .. i - 1 : table[x] = Entry(j)
  BY DEF LookupInv, TableInv, Placed
<1>2. classes \in ClassLists /\ slot \in Slots /\ FirstSlot(wanted) \in Slots
  BY InRing DEF LookupInv, TypeInv
<1>3. s \notin Path(FirstSlot(wanted), slot)
  <2>. SUFFICES ASSUME s \in Path(FirstSlot(wanted), slot) PROVE FALSE
    OBVIOUS
  <2>1. PICK j \in 1 .. added : table[s] = Entry(j) /\ classes[j] # wanted
    BY DEF LookupInv, ProbeInv
  <2>. QED  BY <1>1, <2>1, EntryFacts
<1>4. s = slot \/ slot \in Path(FirstSlot(wanted), s)
  BY <1>2, <1>3, OneBefore
<1>. QED  BY <1>1, <1>4

\* A search that ends without a class leaves none out.
LEMMA FindNothing ==
  ASSUME LookupInv, step = "find", table[slot] = Empty
  PROVE  Directory!Defining(wanted) = {}
<1>1. Directory!Defining(wanted) = { i \in 1 .. added : classes[i] = wanted }
  BY DefinedFacts DEF LookupInv
<1>2. ASSUME NEW i \in 1 .. added, classes[i] = wanted PROVE FALSE
  BY <1>2, PlaceAhead, EntryFacts
<1>. QED  BY <1>1, <1>2

\* A search that ends at a class ends at the first one of that descriptor.
LEMMA FindFirst ==
  ASSUME LookupInv, step = "find", NEW e \in table[slot], Matches(e)
  PROVE  /\ Directory!Defining(wanted) # {}
         /\ Directory!FirstDefining(wanted) = e.def
<1>. DEFINE Same == { i \in 1 .. added : classes[i] = wanted }
<1>1. \A d : Directory!Defining(d) = { i \in 1 .. added : classes[i] = d }
  BY DefinedFacts DEF LookupInv
<1>2. slot \in Slots /\ added \in Nat
  BY DEF LookupInv, TypeInv
<1>3. PICK k \in 1 .. added : table[slot] = Entry(k)
  BY <1>2 DEF LookupInv, TableInv, Empty
<1>4. e.def = k /\ classes[k] = wanted
  BY <1>3, EntryFacts
<1>5. ASSUME NEW i \in Same PROVE k <= i
  <2>1. table[slot] = Entry(i) \/ \E j \in 1 .. i - 1 : table[slot] = Entry(j)
    BY <1>5, PlaceAhead
  <2>2. k = i \/ k \in 1 .. i - 1
    BY <1>3, <2>1, EntryFacts
  <2>. QED  BY <1>2, <1>5, <2>2
<1>6. k \in Same
  BY <1>4
<1>7. \A m \in Same : (\A j \in Same : m <= j) => m = k
  BY <1>2, <1>5, <1>6
<1>8. Directory!FirstDefining(wanted) = CHOOSE i \in Same : \A j \in Same : i <= j
  BY <1>1 DEF Directory!FirstDefining
<1>9. (CHOOSE i \in Same : \A j \in Same : i <= j) = k
  <2>. HIDE DEF Same
  <2>. QED  BY <1>5, <1>6, <1>7
<1>. QED  BY <1>1, <1>4, <1>6, <1>8, <1>9

LEMMA FindStep ==
  ASSUME LookupInv, Find
  PROVE  LookupInv' /\ (Directory!Reply \/ UNCHANGED Directory!directoryVars)
<1>1. step = "find" /\ UNCHANGED <<classes, table, added>>
  BY DEF Find
<1>2. /\ classes \in ClassLists /\ slot \in Slots /\ wanted \in Descriptors
      /\ found = NoClass /\ added = Len(classes) /\ wanted # NoClass
  BY <1>1, LookupAssumption DEF LookupInv, TypeInv
<1>3. TableInv'
  BY <1>1, TableStays DEF LookupInv
<1>4. ASSUME NEW def, ReturnClass(def),
             def = IF Directory!Defining(wanted) = {} THEN NoClass ELSE Directory!FirstDefining(wanted)
      PROVE  LookupInv' /\ Directory!Reply
  <2>1. found' = def /\ wanted' = NoClass /\ step' = "ready" /\ slot' = 0
    BY <1>4 DEF ReturnClass
  <2>2. TypeInv'
    BY <1>1, <1>2, <2>1, InRing DEF LookupInv, TypeInv, Slots
  <2>3. ProbeInv'
    BY <2>1 DEF ProbeInv
  <2>4. Directory!Reply
    BY <1>1, <1>2, <1>4, <2>1 DEF Directory!Reply
  <2>. QED  BY <1>3, <2>2, <2>3, <2>4 DEF LookupInv
<1>5. CASE table[slot] = Empty /\ ReturnClass(NoClass)
  BY <1>1, <1>4, <1>5, FindNothing
<1>6. ASSUME NEW e \in table[slot], Matches(e), ReturnClass(e.def)
      PROVE  LookupInv' /\ Directory!Reply
  BY <1>1, <1>4, <1>6, FindFirst
<1>7. ASSUME NEW e \in table[slot], ~Matches(e), slot' = NextSlot, UNCHANGED <<step, wanted, found>>
      PROVE  LookupInv' /\ UNCHANGED Directory!directoryVars
  <2>1. slot' \in Slots
    BY <1>2, <1>7, InRing
  <2>2. TypeInv'
    BY <1>1, <1>2, <1>7, <2>1 DEF LookupInv, TypeInv, Slots
  <2>3. PICK k \in 1 .. added : table[slot] = Entry(k)
    BY <1>2, <1>7 DEF LookupInv, TableInv, Empty
  <2>4. classes[k] # wanted
    BY <1>7, <2>3, EntryFacts
  <2>5. ASSUME NEW x \in Path(FirstSlot(wanted), slot')
        PROVE  \E j \in 1 .. added : table[x] = Entry(j) /\ classes[j] # wanted
    <3>1. FirstSlot(wanted) \in Slots
      BY <1>2, InRing
    <3>2. x \in Path(FirstSlot(wanted), slot) \/ x = slot
      BY <1>2, <1>7, <2>5, <3>1, PathGrows
    <3>. QED  BY <1>1, <2>3, <2>4, <3>2 DEF LookupInv, ProbeInv
  <2>6. ProbeInv'
    <3>1. step' = "find" /\ wanted' = wanted /\ classes' = classes /\ table' = table /\ added' = added
      BY <1>1, <1>7
    <3>. QED  BY <2>5, <3>1 DEF ProbeInv, Path, Slots, FirstSlot, Entry
  <2>. QED  BY <1>1, <1>3, <1>7, <2>2, <2>6 DEF LookupInv, Directory!directoryVars
<1>. QED  BY <1>5, <1>6, <1>7 DEF Find

LEMMA LookupStep ==
  ASSUME LookupInv, [LookupNext]_lookupVars
  PROVE  LookupInv' /\ [Directory!Define \/ Directory!Ask \/ Directory!Reply]_Directory!directoryVars
<1>1. CASE Add
  BY <1>1, AddProbes, AddPlaces
<1>2. CASE Ask
  BY <1>2, AskStep
<1>3. CASE Find
  BY <1>3, FindStep
<1>4. CASE UNCHANGED lookupVars
  <2>1. /\ classes' = classes /\ table' = table /\ step' = step /\ added' = added
        /\ slot' = slot /\ wanted' = wanted /\ found' = found
    BY <1>4 DEF lookupVars
  <2>2. TypeInv' /\ ProbeInv'
    BY <2>1 DEF LookupInv, TypeInv, ProbeInv, Slots, Path, FirstSlot, Entry
  <2>3. TableInv'
    BY <2>1, TableStays DEF LookupInv
  <2>. QED  BY <2>1, <2>2, <2>3 DEF LookupInv, Directory!directoryVars
<1>. QED  BY <1>1, <1>2, <1>3, <1>4 DEF LookupNext

\* For any classes, any hash function, however descriptors collide and wherever
\* the probing wraps around, the lookup implements the directory of the
\* classes, probe by probe: each answer is the first class of the descriptor,
\* or none if there is none (DexFile.cpp, dexFindClass).
THEOREM AnswersAsDirectory == LookupSpec => ImplementsDirectory
<1>1. LookupInv /\ [LookupNext]_lookupVars
        => LookupInv' /\ [Directory!Define \/ Directory!Ask \/ Directory!Reply]_Directory!directoryVars
  BY LookupStep
<1>. QED  BY LookupInitial, <1>1, PTL DEF LookupSpec, ImplementsDirectory, Directory!Spec

-----------------------------------------------------------------------------
(***************************************************************************)
(* The binary search over the tries of a method finds the one that covers  *)
(* the address, in a table of any length.                                  *)
(***************************************************************************)

TryPlaces == 1 .. Len(item.tries)

\* What the search has ruled out: the tries in front of its lower bound end at
\* or before the address, those behind its upper bound start after it.
RuledOut ==
  /\ min \in Nat
  /\ max \in Int /\ max < Len(item.tries)
  /\ \A i \in TryPlaces : i <= min => item.tries[i].start + item.tries[i].count <= address
  /\ \A i \in TryPlaces : max + 1 < i => address < item.tries[i].start

SearchInv ==
  /\ item \in CodeItems
  /\ address \in Int
  /\ Ordered(item.tries) => IF call = "search" THEN RuledOut ELSE HandlerFound

\* A table is a finite sequence of tries with natural bounds.
LEMMA TriesType ==
  ASSUME item \in CodeItems
  PROVE  /\ Len(item.tries) \in Nat
         /\ DOMAIN item.tries = TryPlaces
         /\ \A i \in TryPlaces : /\ item.tries[i].start \in Nat
                             /\ item.tries[i].count \in Nat
                             /\ item.tries[i].handler \in Nat
<1>1. item.tries \in Seq([start : Nat, count : Nat, handler : Nat])
  BY CatchAssumption
<1>. DEFINE t == item.tries
<1>2. t \in Seq([start : Nat, count : Nat, handler : Nat])
  BY <1>1
<1>. HIDE DEF t
<1>3. Len(t) \in Nat /\ DOMAIN t = 1 .. Len(t)
  BY <1>2
<1>4. ASSUME NEW i \in 1 .. Len(t)
      PROVE  t[i].start \in Nat /\ t[i].count \in Nat /\ t[i].handler \in Nat
  <2>1. t[i] \in [start : Nat, count : Nat, handler : Nat]
    BY <1>2, <1>4, ElementOfSeq
  <2>. QED  BY <2>1
<1>. QED  BY <1>3, <1>4 DEF t, TryPlaces

\* In an ordered table a try ends before each later one starts.
LEMMA LaterStarts ==
  ASSUME item \in CodeItems, Ordered(item.tries), NEW i \in TryPlaces, NEW j \in TryPlaces, i < j
  PROVE  item.tries[i].start + item.tries[i].count <= item.tries[j].start
BY TriesType DEF Ordered

LEMMA SearchInit == CatchInit => SearchInv
<1>. SUFFICES ASSUME CatchInit PROVE SearchInv
  OBVIOUS
<1>1. item \in CodeItems /\ call = "ready" /\ address = -1 /\ offset = NoOffset
  BY DEF CatchInit, CatchStart, NoAddress
<1>2. Covering(address) = {}
  BY <1>1, TriesType DEF Covering
<1>. QED  BY <1>1, <1>2 DEF SearchInv, HandlerFound

\* Without a try that covers the address, nothing found is right.
LEMMA NoneCovers ==
  ASSUME item \in CodeItems, address \in Int,
         \A i \in TryPlaces : address < item.tries[i].start \/ item.tries[i].start + item.tries[i].count <= address
  PROVE  Covering(address) = {}
BY TriesType DEF Covering

LEMMA FindTryStep ==
  ASSUME SearchInv, NEW a \in Addresses, FindHandler(a)
  PROVE  SearchInv'
<1>. DEFINE n == Len(item.tries)
<1>1. item' = item /\ item \in CodeItems /\ address' = a /\ a \in Nat
  BY CatchAssumption DEF FindHandler, SearchInv
<1>2. CASE n > 1
  <2>1. call' = "search" /\ min' = 0 /\ max' = n - 1
    BY <1>2 DEF FindHandler
  <2>2. RuledOut'
    BY <1>1, <2>1, TriesType DEF RuledOut, TryPlaces
  <2>. QED  BY <1>1, <2>1, <2>2 DEF SearchInv
<1>3. CASE n = 1 /\ item.tries[1].start <= a /\ a < End(item.tries[1])
  <2>1. offset' = item.tries[1].handler /\ call' # "search"
    BY <1>3 DEF FindHandler, Conclude, Iterate
  <2>2. 1 \in Covering(address)'
    BY <1>1, <1>3, TriesType DEF Covering, End, TryPlaces
  <2>. QED  BY <1>1, <2>1, <2>2 DEF SearchInv, HandlerFound
<1>4. CASE ~(n > 1) /\ ~(n = 1 /\ item.tries[1].start <= a /\ a < End(item.tries[1]))
  <2>1. offset' = NoOffset /\ call' # "search"
    BY <1>4 DEF FindHandler, Conclude, Iterate
  <2>2. Covering(address)' = {}
    <3>1. CASE n = 0
      BY <1>1, <3>1, TriesType DEF Covering, TryPlaces
    <3>2. CASE n = 1
      BY <1>1, <1>4, <3>2, TriesType DEF Covering, End, TryPlaces
    <3>3. n \in Nat
      BY <1>1, TriesType
    <3>4. n = 0 \/ n = 1
      <4>. HIDE DEF n
      <4>1. ~(n > 1)
        BY <1>4
      <4>. QED  BY <3>3, <4>1
    <3>. QED  BY <3>1, <3>2, <3>4
  <2>. QED  BY <1>1, <2>1, <2>2 DEF SearchInv, HandlerFound
<1>. QED  BY <1>2, <1>3, <1>4

LEMMA GuessStep ==
  ASSUME SearchInv, Guess
  PROVE  SearchInv'
<1>. DEFINE g == (min + max) \div 2
            t == item.tries[g + 1]
<1>1. item' = item /\ item \in CodeItems /\ address' = address /\ address \in Int /\ call = "search"
  BY DEF Guess, SearchInv
<1>. SUFFICES ASSUME Ordered(item.tries)
              PROVE  IF call' = "search" THEN RuledOut' ELSE HandlerFound'
  BY <1>1 DEF SearchInv
<1>2. RuledOut
  BY <1>1 DEF SearchInv
<1>5. \/ max < min /\ Conclude(NoOffset)
      \/ max >= min /\ address < t.start /\ max' = g - 1 /\ min' = min /\ call' = call
      \/ max >= min /\ t.start <= address /\ End(t) <= address /\ min' = g + 1 /\ max' = max /\ call' = call
      \/ max >= min /\ t.start <= address /\ address < End(t) /\ Conclude(t.handler)
  BY Zenon DEF Guess
<1>6. min \in Int /\ max \in Int /\ NoOffset \notin Nat
  BY <1>2 DEF RuledOut, NoOffset
<1>7. ASSUME NEW o, Conclude(o) PROVE offset' = o /\ call' # "search"
  BY <1>7 DEF Conclude, Iterate
<1>3. CASE max < min
  <2>1. offset' = NoOffset /\ call' # "search"
    <3>. HIDE DEF g, t
    <3>. QED  BY <1>3, <1>5, <1>6, <1>7
  <2>2. Covering(address) = {}
    BY <1>1, <1>2, <1>3, TriesType, NoneCovers DEF RuledOut, TryPlaces
  <2>3. Covering(address)' = {}
    BY <1>1, <2>2 DEF Covering
  <2>. QED  BY <2>1, <2>3 DEF HandlerFound
<1>4. CASE max >= min
  <2>1. g \in Int /\ min <= g /\ g <= max /\ g + 1 \in TryPlaces
    BY <1>1, <1>2, <1>4, TriesType DEF RuledOut, TryPlaces
  <2>2. t.start \in Nat /\ t.count \in Nat /\ t.handler \in Nat
    BY <1>1, <2>1, TriesType
  <2>3. CASE address < t.start
    <3>1. max' = g - 1 /\ min' = min /\ call' = "search"
      <4>. HIDE DEF g, t
      <4>1. ~(t.start <= address) /\ ~(max < min)
        BY <1>1, <1>4, <1>6, <2>2, <2>3
      <4>. QED  BY <1>1, <1>5, <4>1
    <3>2. ASSUME NEW i \in TryPlaces, g < i PROVE address < item.tries[i].start
      <4>1. CASE i = g + 1
        BY <2>3, <4>1
      <4>2. CASE g + 1 < i
        <5>1. t.start + t.count <= item.tries[i].start
          BY <1>1, <2>1, <4>2, LaterStarts
        <5>2. item.tries[i].start \in Nat
          BY <1>1, TriesType
        <5>. HIDE DEF t, g
        <5>. QED  BY <1>1, <2>2, <2>3, <5>1, <5>2
      <4>. QED  BY <2>1, <3>2, <4>1, <4>2 DEF TryPlaces
    <3>. QED  BY <1>1, <1>2, <2>1, <3>1, <3>2 DEF RuledOut, TryPlaces
  <2>4. CASE t.start <= address /\ End(t) <= address
    <3>1. min' = g + 1 /\ max' = max /\ call' = "search"
      <4>. HIDE DEF g, t
      <4>1. End(t) \in Nat
        BY <2>2 DEF End
      <4>2. ~(address < t.start) /\ ~(address < End(t)) /\ ~(max < min)
        BY <1>1, <1>4, <1>6, <2>2, <2>4, <4>1
      <4>. QED  BY <1>1, <1>5, <4>2
    <3>2. ASSUME NEW i \in TryPlaces, i <= g + 1
          PROVE  item.tries[i].start + item.tries[i].count <= address
      <4>1. CASE i = g + 1
        BY <2>4, <4>1 DEF End
      <4>2. CASE i < g + 1
        <5>1. item.tries[i].start + item.tries[i].count <= t.start
          BY <1>1, <2>1, <4>2, LaterStarts
        <5>2. item.tries[i].start \in Nat /\ item.tries[i].count \in Nat
          BY <1>1, TriesType
        <5>. HIDE DEF t, g
        <5>. QED  BY <1>1, <2>2, <2>4, <5>1, <5>2
      <4>. QED  BY <2>1, <3>2, <4>1, <4>2 DEF TryPlaces
    <3>3. min' \in Nat /\ max' \in Int /\ max' < Len(item'.tries)
      <4>1. g + 1 \in Nat
        BY <1>1, <1>2, <2>1, TriesType DEF RuledOut, TryPlaces
      <4>. HIDE DEF g
      <4>. QED  BY <1>1, <1>2, <3>1, <4>1 DEF RuledOut
    <3>4. \A i \in TryPlaces' : i <= min' => item'.tries[i].start + item'.tries[i].count <= address'
      BY <1>1, <3>1, <3>2 DEF TryPlaces
    <3>5. \A i \in TryPlaces' : max' + 1 < i => address' < item'.tries[i].start
      BY <1>1, <1>2, <3>1 DEF RuledOut, TryPlaces
    <3>6. RuledOut'
      BY <3>3, <3>4, <3>5 DEF RuledOut
    <3>. QED  BY <3>1, <3>6
  <2>5. CASE t.start <= address /\ address < End(t)
    <3>1. offset' = t.handler /\ call' # "search"
      <4>. HIDE DEF g, t
      <4>1. End(t) \in Nat
        BY <2>2 DEF End
      <4>2. ~(address < t.start) /\ ~(End(t) <= address) /\ ~(max < min)
        BY <1>1, <1>4, <1>6, <2>2, <2>5, <4>1
      <4>3. Conclude(t.handler)
        BY <1>5, <4>2
      <4>. QED  BY <1>7, <4>3
    <3>2. g + 1 \in Covering(address)'
      BY <1>1, <2>1, <2>2, <2>5, TriesType DEF Covering, End
    <3>. QED  BY <1>1, <3>1, <3>2 DEF HandlerFound
  <2>. QED  BY <1>1, <2>2, <2>3, <2>4, <2>5 DEF End
<1>. QED  BY <1>2, <1>3, <1>4 DEF RuledOut

LEMMA SearchStep == SearchInv /\ [CatchNext]_catchVars => SearchInv'
<1>. SUFFICES ASSUME SearchInv, [CatchNext]_catchVars PROVE SearchInv'
  OBVIOUS
<1>1. ASSUME NEW a \in Addresses, FindHandler(a) PROVE SearchInv'
  BY <1>1, FindTryStep
<1>2. CASE Guess
  BY <1>2, GuessStep
<1>3. CASE NextHandler
  <2>1. /\ UNCHANGED <<item, address, offset>>
        /\ call # "search" /\ call' # "search"
    BY <1>3 DEF NextHandler, iterator
  <2>. QED  BY <2>1 DEF SearchInv, HandlerFound, Covering
<1>4. CASE UNCHANGED catchVars
  BY <1>4 DEF catchVars, SearchInv, RuledOut, TryPlaces, HandlerFound, Covering
<1>. QED  BY <1>1, <1>2, <1>3, <1>4 DEF CatchNext

\* In an ordered table of any length, the search for an address ends at the
\* list of the try that covers it, or without one if none does: no guess rules
\* that try out (DexCatch.cpp, dexFindCatchHandlerOffset0).
THEOREM SearchFinds == CatchSpec => []HandlerFound
<1>1. SearchInv => HandlerFound
  BY DEF SearchInv, HandlerFound
<1>. QED  BY SearchInit, SearchStep, <1>1, PTL DEF CatchSpec

-----------------------------------------------------------------------------
(* The walk over the handler list found.                                   *)

Size(o) == Count(Number(o))

CatchesAny(o) == Number(o) <= 0

\* The handlers of a list by their places, the one for all types the last.
HandlerAt(o, i) ==
  IF i <= Size(o) THEN [type |-> Number(o + 2 * i - 1), address |-> Number(o + 2 * i)]
  ELSE [type |-> AnyType, address |-> Number(o + 1 + 2 * Size(o))]

Taken(o, k) == [ i \in 1 .. k |-> HandlerAt(o, i) ]

WholeList(o) == Taken(o, IF CatchesAny(o) THEN Size(o) + 1 ELSE Size(o))

\* Either the iterator is on its way through the typed handlers and has
\* returned those it passed, or it has returned the last one, too.
Walking ==
  /\ remaining \in 0 .. Size(offset)
  /\ catchesAll <=> CatchesAny(offset)
  /\ cursor = offset + 1 + 2 * (Size(offset) - remaining)
  /\ caught = Taken(offset, Size(offset) - remaining)

Walked == remaining = 0 /\ ~catchesAll /\ caught = WholeList(offset)

WalkInv ==
  /\ item \in CodeItems
  /\ offset = NoOffset \/ \E i \in DOMAIN item.tries : offset = item.tries[i].handler
  /\ call = "iterate" => offset # NoOffset /\ (Walking \/ Walked)
  /\ (call = "ready" /\ offset # NoOffset) => caught = WholeList(offset)
  /\ call = "search" => offset = NoOffset /\ 0 <= min /\ min \in Int /\ max \in Int /\ max < Len(item.tries)

\* A list found is in the handler data, and begins with a number.
LEMMA ListInData ==
  ASSUME item \in CodeItems, NEW i \in DOMAIN item.tries, NEW o, o = item.tries[i].handler
  PROVE  o \in Nat /\ Number(o) \in Int /\ Size(o) \in Nat
<1>1. PICK t : t = item.tries
  OBVIOUS
<1>2. PICK d : d = item.data
  OBVIOUS
<1>3. t \in Seq([start : Nat, count : Nat, handler : Nat]) /\ d \in Seq(Int) /\ t[i].handler < Len(d)
  BY <1>1, <1>2, CatchAssumption
<1>4. t[i] \in [start : Nat, count : Nat, handler : Nat]
  <2>1. i \in 1 .. Len(t)
    BY <1>1, <1>3, LenProperties
  <2>. QED
    BY <1>3, <2>1, ElementOfSeq
<1>5. o \in Nat /\ o + 1 \in 1 .. Len(d)
  <2>1. o \in Nat /\ o < Len(d)
    BY <1>1, <1>3, <1>4
  <2>2. Len(d) \in Nat
    BY <1>3, LenProperties
  <2>. QED
    BY <2>1, <2>2
<1>6. d[o + 1] \in Int
  <2>1. PICK n \in 1 .. Len(d) : n = o + 1
    BY <1>5
  <2>2. d[n] \in Int
    BY <1>3, <2>1, ElementOfSeq
  <2>. QED
    BY <2>1, <2>2
<1>. QED
  BY <1>2, <1>5, <1>6 DEF Number, Size, Count

\* One handler more.
LEMMA OneMore ==
  ASSUME NEW k \in Nat, NEW o
  PROVE  Append(Taken(o, k), HandlerAt(o, k + 1)) = Taken(o, k + 1)
<1>. DEFINE S == { HandlerAt(o, i) : i \in 1 .. k + 1 }
            long == Taken(o, k + 1)
            app == Append(Taken(o, k), HandlerAt(o, k + 1))
<1>1. Taken(o, k) \in Seq(S) /\ Len(Taken(o, k)) = k /\ \A i \in 1 .. k : Taken(o, k)[i] = HandlerAt(o, i)
  <2>1. Taken(o, k) \in [1 .. k -> S]
    BY DEF Taken
  <2>2. Taken(o, k) \in Seq(S)
    BY <2>1
  <2>3. DOMAIN Taken(o, k) = 1 .. k
    BY DEF Taken
  <2>4. Len(Taken(o, k)) = k
    BY <2>2, <2>3, LenProperties
  <2>. QED
    BY <2>2, <2>4 DEF Taken
<1>2. HandlerAt(o, k + 1) \in S
  OBVIOUS
<1>3. long \in Seq(S) /\ DOMAIN long = 1 .. k + 1 /\ \A i \in 1 .. k + 1 : long[i] = HandlerAt(o, i)
  <2>1. long \in [1 .. k + 1 -> S]
    BY DEF Taken
  <2>. QED
    BY <2>1 DEF Taken
<1>. HIDE DEF S
<1>4. /\ app \in Seq(S) /\ Len(app) = k + 1 /\ app[k + 1] = HandlerAt(o, k + 1)
      /\ \A i \in 1 .. k : app[i] = Taken(o, k)[i]
  <2>1. PICK q \in Seq(S) : q = Taken(o, k)
    BY <1>1
  <2>2. PICK e \in S : e = HandlerAt(o, k + 1)
    BY <1>2
  <2>3. /\ Append(q, e) \in Seq(S) /\ Len(Append(q, e)) = k + 1
        /\ Append(q, e)[k + 1] = e /\ \A i \in 1 .. k : Append(q, e)[i] = q[i]
    BY <1>1, <2>1, <2>2, AppendProperties
  <2>. QED
    BY <2>1, <2>2, <2>3
<1>5. DOMAIN app = 1 .. k + 1
  BY <1>4, LenProperties
<1>. HIDE DEF app, long
<1>6. \A i \in 1 .. k + 1 : app[i] = long[i]
  BY <1>1, <1>3, <1>4
<1>7. app = long
  <2>1. app = [ i \in DOMAIN app |-> app[i] ] /\ long = [ i \in DOMAIN long |-> long[i] ]
    BY <1>3, <1>4
  <2>. QED
    BY <1>3, <1>5, <1>6, <2>1
<1>. QED
  BY <1>7 DEF app, long

\* The whole list is the one of the format.
LEMMA WholeIsListed ==
  ASSUME NEW o \in Nat, Number(o) \in Int
  PROVE  WholeList(o) = Listed(o)
<1>. DEFINE n == Number(o)
            typed == [ k \in 1 .. (IF n < 0 THEN -n ELSE n) |->
                         [type |-> Number(o + 2 * k - 1), address |-> Number(o + 2 * k)] ]
<1>1. Size(o) = IF n < 0 THEN -n ELSE n
  BY DEF Size, Count
<1>2. typed = Taken(o, Size(o))
  BY <1>1 DEF Taken, HandlerAt
<1>3. CASE n > 0
  BY <1>2, <1>3 DEF WholeList, CatchesAny, Listed
<1>4. CASE n <= 0
  <2>1. Size(o) \in Nat /\ o + 1 - 2 * n = o + 1 + 2 * Size(o) /\ ~(Size(o) + 1 <= Size(o))
    BY <1>1, <1>4
  <2>2. HandlerAt(o, Size(o) + 1) = [type |-> AnyType, address |-> Number(o + 1 - 2 * n)]
    BY <2>1 DEF HandlerAt
  <2>3. Listed(o) = Append(typed, [type |-> AnyType, address |-> Number(o + 1 - 2 * n)])
    BY <1>4 DEF Listed
  <2>. QED
    BY <1>2, <1>4, <2>1, <2>2, <2>3, OneMore DEF WholeList, CatchesAny
<1>. QED
  BY <1>3, <1>4

\* Starting over a list that a try names, or not at all.
LEMMA ConcludeWalk ==
  ASSUME WalkInv, item' = item, NEW o, Conclude(o),
         o = NoOffset \/ \E i \in DOMAIN item.tries : o = item.tries[i].handler
  PROVE  WalkInv'
<1>1. CASE o = NoOffset
  BY <1>1 DEF Conclude, WalkInv
<1>2. CASE o # NoOffset
  <2>1. Iterate(o) /\ offset' = o
    BY <1>2 DEF Conclude
  <2>2. o \in Nat /\ Size(o) \in Nat
    BY <1>2, ListInData DEF WalkInv
  <2>3. /\ call' = "iterate" /\ cursor' = o + 1 /\ remaining' = Size(o)
        /\ catchesAll' = CatchesAny(o) /\ caught' = << >>
    BY <2>1 DEF Iterate, Size, CatchesAny
  <2>4. Size(o)' = Size(o) /\ (CatchesAny(o)' <=> CatchesAny(o))
    BY DEF Size, CatchesAny, Count, Number
  <2>5. Size(offset)' = Size(o) /\ (CatchesAny(offset)' <=> CatchesAny(o))
    BY <2>1, <2>4 DEF Size, CatchesAny, Count, Number
  <2>6. Taken(offset, Size(offset) - remaining)' = << >>
    <3>1. Size(offset)' - remaining' = 0
      BY <2>2, <2>3, <2>5
    <3>2. Taken(offset, Size(offset) - remaining)' = [ i \in 1 .. Size(offset)' - remaining' |-> HandlerAt(offset, i)' ]
      BY DEF Taken, HandlerAt, Number
    <3>. QED
      BY <3>1, <3>2
  <2>7. Walking'
    BY <2>1, <2>2, <2>3, <2>5, <2>6 DEF Walking
  <2>. QED
    BY <1>2, <2>1, <2>3, <2>7 DEF WalkInv
<1>. QED
  BY <1>1, <1>2

\* The list under the iterator stays as it is.
LEMMA ListStays ==
  ASSUME UNCHANGED <<item, offset>>
  PROVE  /\ Size(offset)' = Size(offset)
         /\ CatchesAny(offset)' <=> CatchesAny(offset)
         /\ WholeList(offset)' = WholeList(offset)
         /\ \A k : Taken(offset, k)' = Taken(offset, k)
BY DEF Size, CatchesAny, Count, Number, WholeList, Taken, HandlerAt

LEMMA NextWalk == WalkInv /\ NextHandler => WalkInv'
<1>. SUFFICES ASSUME WalkInv, NextHandler PROVE WalkInv'
  OBVIOUS
<1>1. call = "iterate" /\ UNCHANGED <<item, address, min, max, offset>>
  BY DEF NextHandler
<1>2. offset # NoOffset /\ (Walking \/ Walked)
  BY <1>1 DEF WalkInv
<1>3. PICK o : o = offset
  OBVIOUS
<1>4. o \in Nat /\ Number(o) \in Int /\ Size(o) \in Nat
  BY <1>2, <1>3, ListInData DEF WalkInv
<1>5. CASE remaining = 0 /\ ~catchesAll /\ call' = "ready" /\ UNCHANGED iterator
  <2>1. caught = WholeList(offset)
    <3>1. CASE Walking
      <4>1. ~CatchesAny(o) /\ Size(o) - remaining = Size(o)
        BY <1>3, <1>4, <1>5, <3>1 DEF Walking
      <4>. QED
        BY <1>3, <3>1, <4>1 DEF Walking, WholeList
    <3>. QED
      BY <1>2, <3>1 DEF Walked
  <2>2. caught' = WholeList(offset)'
    BY <1>1, <1>5, <2>1, ListStays DEF iterator
  <2>. QED
    BY <1>1, <1>5, <2>2 DEF WalkInv
<1>6. CASE /\ remaining = 0 /\ catchesAll /\ catchesAll' = FALSE
           /\ caught' = Append(caught, [type |-> AnyType, address |-> Number(cursor)])
           /\ UNCHANGED <<call, remaining>>
  <2>1. CatchesAny(o) /\ cursor = o + 1 + 2 * Size(o) /\ caught = Taken(o, Size(o))
    <3>1. Walking
      BY <1>2, <1>6 DEF Walked
    <3>2. Size(o) - remaining = Size(o)
      BY <1>4, <1>6
    <3>. QED
      BY <1>3, <1>6, <3>1, <3>2 DEF Walking
  <2>2. HandlerAt(o, Size(o) + 1) = [type |-> AnyType, address |-> Number(cursor)]
    BY <1>4, <2>1 DEF HandlerAt
  <2>3. caught' = Taken(o, Size(o) + 1)
    BY <1>4, <1>6, <2>1, <2>2, OneMore
  <2>4. caught' = WholeList(offset)'
    BY <1>1, <1>3, <2>1, <2>3, ListStays DEF WholeList
  <2>5. Walked'
    BY <1>6, <2>4 DEF Walked
  <2>. QED
    BY <1>1, <1>2, <1>6, <2>5 DEF WalkInv
<1>7. CASE /\ remaining # 0 /\ remaining' = remaining - 1
           /\ caught' = Append(caught, [type |-> Number(cursor), address |-> Number(cursor + 1)])
           /\ cursor' = cursor + 2
           /\ UNCHANGED <<call, catchesAll>>
  <2>. DEFINE k == Size(o) - remaining
  <2>1. Walking
    BY <1>2, <1>7 DEF Walked
  <2>2. /\ remaining \in 0 .. Size(o) /\ (catchesAll <=> CatchesAny(o))
        /\ cursor = o + 1 + 2 * k /\ caught = Taken(o, k)
    BY <1>3, <2>1 DEF Walking
  <2>3. /\ k \in Nat /\ k + 1 <= Size(o) /\ Size(o) - remaining' = k + 1 /\ remaining' \in 0 .. Size(o)
        /\ cursor = o + 2 * (k + 1) - 1 /\ cursor + 1 = o + 2 * (k + 1) /\ cursor' = o + 1 + 2 * (k + 1)
    <3>1. k \in Nat /\ k + 1 <= Size(o) /\ Size(o) - remaining' = k + 1 /\ remaining' \in 0 .. Size(o)
      <4>. DEFINE r == remaining
                  z == Size(o)
      <4>1. r \in Int /\ 0 <= r /\ r <= z /\ z \in Nat /\ r # 0 /\ remaining' = r - 1
        BY <1>4, <1>7, <2>2
      <4>. HIDE DEF r, z
      <4>2. z - r \in Nat /\ z - r + 1 <= z /\ z - (r - 1) = (z - r) + 1 /\ r - 1 \in 0 .. z
        BY <4>1
      <4>. QED
        BY <4>1, <4>2 DEF r, z
    <3>. HIDE DEF k
    <3>. QED
      BY <1>4, <1>7, <2>2, <3>1
  <2>. HIDE DEF k
  <2>4. HandlerAt(o, k + 1) = [type |-> Number(cursor), address |-> Number(cursor + 1)]
    BY <2>3 DEF HandlerAt
  <2>5. caught' = Taken(o, k + 1)
    BY <1>7, <2>2, <2>3, <2>4, OneMore
  <2>6. Taken(offset, Size(offset) - remaining)' = Taken(o, k + 1)
    <3>1. Taken(offset, Size(offset) - remaining)' = [ i \in 1 .. Size(offset)' - remaining' |-> HandlerAt(offset, i)' ]
      BY DEF Taken, HandlerAt, Number
    <3>2. \A i : HandlerAt(offset, i)' = HandlerAt(o, i)
      BY <1>1, <1>3 DEF HandlerAt, Number, Size, Count
    <3>3. Size(offset)' - remaining' = k + 1
      BY <1>1, <1>3, <2>3, ListStays
    <3>. QED
      BY <3>1, <3>2, <3>3 DEF Taken
  <2>7. Walking'
    <3>1. Size(offset)' = Size(o) /\ (CatchesAny(offset)' <=> CatchesAny(o)) /\ offset' = o
      BY <1>1, <1>3, ListStays
    <3>2. remaining' \in 0 .. Size(offset)' /\ cursor' = offset' + 1 + 2 * (Size(offset)' - remaining')
      BY <2>3, <3>1
    <3>. QED
      BY <1>7, <2>2, <2>5, <2>6, <3>1, <3>2 DEF Walking
  <2>. QED
    BY <1>1, <1>2, <1>7, <2>7 DEF WalkInv
<1>. QED
  BY <1>5, <1>6, <1>7 DEF NextHandler

LEMMA GuessWalk == WalkInv /\ Guess => WalkInv'
<1>. SUFFICES ASSUME WalkInv, Guess PROVE WalkInv'
  OBVIOUS
<1>. DEFINE g == (min + max) \div 2
            t == item.tries[g + 1]
<1>1. call = "search" /\ UNCHANGED <<item, address>>
  BY DEF Guess
<1>2. offset = NoOffset /\ 0 <= min /\ min \in Int /\ max \in Int /\ max < Len(item.tries) /\ item \in CodeItems
  BY <1>1 DEF WalkInv
<1>3. Len(item.tries) \in Nat /\ DOMAIN item.tries = 1 .. Len(item.tries)
  BY <1>2, TriesType DEF TryPlaces
<1>4. \/ max < min /\ Conclude(NoOffset)
      \/ max >= min /\ max' = g - 1 /\ UNCHANGED <<call, offset, min>>
      \/ max >= min /\ min' = g + 1 /\ UNCHANGED <<call, offset, max>>
      \/ max >= min /\ Conclude(t.handler)
  BY Zenon DEF Guess
<1>5. max >= min => g \in Int /\ min <= g /\ g <= max
  BY <1>2
<1>. HIDE DEF g
<1>6. CASE max >= min /\ max' = g - 1 /\ UNCHANGED <<call, offset, min>>
  BY <1>1, <1>2, <1>3, <1>5, <1>6 DEF WalkInv
<1>7. CASE max >= min /\ min' = g + 1 /\ UNCHANGED <<call, offset, max>>
  BY <1>1, <1>2, <1>3, <1>5, <1>7 DEF WalkInv
<1>8. CASE max >= min /\ Conclude(t.handler)
  <2>1. g + 1 \in DOMAIN item.tries
    BY <1>2, <1>3, <1>5, <1>8
  <2>2. \E i \in DOMAIN item.tries : t.handler = item.tries[i].handler
    BY <2>1
  <2>3. PICK o : o = t.handler
    OBVIOUS
  <2>. QED
    BY <1>1, <1>8, <2>2, <2>3, ConcludeWalk
<1>. QED
  BY <1>1, <1>4, <1>6, <1>7, <1>8, ConcludeWalk

LEMMA FindWalk ==
  ASSUME WalkInv, NEW a, FindHandler(a)
  PROVE  WalkInv'
<1>1. UNCHANGED item /\ item \in CodeItems
  BY DEF FindHandler, WalkInv
<1>2. Len(item.tries) \in Nat /\ DOMAIN item.tries = 1 .. Len(item.tries)
  BY <1>1, TriesType DEF TryPlaces
<1>3. CASE Len(item.tries) > 1
  BY <1>1, <1>2, <1>3 DEF FindHandler, WalkInv
<1>4. CASE Len(item.tries) = 1 /\ Conclude(item.tries[1].handler)
  <2>1. \E i \in DOMAIN item.tries : item.tries[1].handler = item.tries[i].handler
    BY <1>2, <1>4
  <2>2. PICK o : o = item.tries[1].handler
    OBVIOUS
  <2>. QED
    BY <1>1, <1>4, <2>1, <2>2, ConcludeWalk
<1>5. CASE Conclude(NoOffset)
  BY <1>1, <1>5, ConcludeWalk
<1>. QED
  BY <1>3, <1>4, <1>5 DEF FindHandler

LEMMA WalkStep == WalkInv /\ [CatchNext]_catchVars => WalkInv'
<1>. SUFFICES ASSUME WalkInv, [CatchNext]_catchVars PROVE WalkInv'
  OBVIOUS
<1>1. CASE UNCHANGED catchVars
  BY <1>1, ListStays DEF catchVars, WalkInv, Walking, Walked, Taken, HandlerAt, Size, CatchesAny, Count, Number
<1>. QED
  BY <1>1, FindWalk, GuessWalk, NextWalk DEF CatchNext

-----------------------------------------------------------------------------
(* Where the handler data ends.                                            *)

\* Counting through the lists leads from place to place.
LEMMA EndIsTheDatas == item \in CodeItems => HandlersEnd = Len(item.data)
<1>. SUFFICES ASSUME item \in CodeItems PROVE HandlersEnd = Len(item.data)
  OBVIOUS
<1>1. CASE item.tries = << >>
  BY <1>1, CatchAssumption DEF HandlersEnd
<1>2. CASE item.tries # << >>
  <2>. DEFINE m == Number(0)
              Made(f) == f = [ n \in 0 .. m |-> IF n = 0 THEN 1 ELSE EndOffset(f[n - 1]) ]
              end == CHOOSE f : Made(f)
  <2>1. PICK d : d = item.data
    OBVIOUS
  <2>2. d \in Seq(Int) /\ d[1] \in Nat /\ LaidOut(d)
    BY <1>2, <2>1, CatchAssumption
  <2>3. m = d[1] /\ \A o : Number(o) = d[o + 1]
    BY <2>1 DEF Number
  <2>4. PICK places \in [0 .. d[1] -> 1 .. Len(d)] :
          /\ places[0] = 1 /\ places[d[1]] = Len(d)
          /\ \A k \in 1 .. d[1] :
               /\ places[k - 1] < places[k]
               /\ places[k] = places[k - 1] + (IF d[places[k - 1] + 1] > 0 THEN 1 + 2 * d[places[k - 1] + 1]
                                               ELSE 2 - 2 * d[places[k - 1] + 1])
    BY <2>2 DEF LaidOut
  <2>. HIDE DEF m
  <2>5. m \in Nat
    BY <2>2, <2>3
  <2>6. ASSUME NEW k \in 1 .. m PROVE EndOffset(places[k - 1]) = places[k]
    <3>1. k - 1 \in 0 .. m /\ k \in 0 .. m
      BY <2>5, <2>6
    <3>2. places[k - 1] \in 1 .. Len(d) /\ places[k] \in 1 .. Len(d) /\ places[k - 1] < places[k] /\ Len(d) \in Nat
      <4>1. k - 1 \in 0 .. d[1] /\ k \in 0 .. d[1] /\ k \in 1 .. d[1]
        BY <2>3, <2>6, <3>1
      <4>2. Len(d) \in Nat
        BY <2>2, LenProperties
      <4>3. places[k - 1] \in 1 .. Len(d) /\ places[k] \in 1 .. Len(d)
        BY <2>4, <4>1
      <4>. QED
        BY <2>4, <4>1, <4>2, <4>3
    <3>. DEFINE x == d[places[k - 1] + 1]
    <3>3. x \in Int
      BY <2>2, <3>2
    <3>4. places[k] = places[k - 1] + (IF x > 0 THEN 1 + 2 * x ELSE 2 - 2 * x)
      BY <2>3, <2>4
    <3>5. EndOffset(places[k - 1]) = places[k - 1] + 1 + 2 * (IF x < 0 THEN -x ELSE x) + (IF x <= 0 THEN 1 ELSE 0)
      BY <2>3 DEF EndOffset, Count
    <3>. HIDE DEF x
    <3>. QED
      BY <3>2, <3>3, <3>4, <3>5
  <2>7. Made(places)
    <3>1. DOMAIN places = 0 .. m
      BY <2>3, <2>4
    <3>2. \A n \in 0 .. m : places[n] = IF n = 0 THEN 1 ELSE EndOffset(places[n - 1])
      BY <2>4, <2>5, <2>6
    <3>. QED
      BY <3>1, <3>2, <2>4
  <2>8. Made(end)
    <3>. HIDE DEF Made
    <3>. QED
      BY <2>7
  <2>9. HandlersEnd = end[m]
    BY <1>2 DEF HandlersEnd, m
  <2>. HIDE DEF end
  <2>10. \A n \in Nat : n <= m => end[n] = places[n]
    <3>. DEFINE S == { n \in Nat : n <= m => end[n] = places[n] }
    <3>1. 0 \in S
      BY <2>4, <2>5, <2>8
    <3>2. ASSUME NEW n \in Nat, n \in S PROVE n + 1 \in S
      <4>1. CASE n + 1 <= m
        <5>1. n + 1 \in 0 .. m /\ n + 1 # 0 /\ n + 1 \in 1 .. m /\ (n + 1) - 1 = n /\ n <= m
          BY <2>5, <4>1
        <5>2. end[n + 1] = EndOffset(end[n])
          BY <2>8, <5>1
        <5>3. end[n] = places[n] /\ EndOffset(places[n]) = places[n + 1]
          BY <2>6, <3>2, <5>1
        <5>. QED
          BY <5>2, <5>3
      <4>. QED
        BY <4>1
    <3>. HIDE DEF S
    <3>3. Nat \subseteq S
      BY <3>1, <3>2, SetInduction
    <3>. QED
      BY <3>3 DEF S
  <2>. QED
    BY <2>1, <2>3, <2>4, <2>5, <2>9, <2>10
<1>. QED
  BY <1>1, <1>2

\* For tables and lists of any length: the iterator returns each handler of
\* the list found, the one for all types last, and iterating over all the
\* lists ends where the data does (DexCatch.cpp, dexCatchIteratorNext).
THEOREM IteratesTheList == CatchSpec => []HandlersListed
<1>1. CatchInit => WalkInv
  BY DEF CatchInit, CatchStart, WalkInv
<1>2. WalkInv => HandlersListed
  <2>. SUFFICES ASSUME WalkInv PROVE HandlersListed
    OBVIOUS
  <2>1. ASSUME call = "ready", offset # NoOffset PROVE caught = Listed(offset)
    <3>1. caught = WholeList(offset)
      BY <2>1 DEF WalkInv
    <3>2. PICK o : o = offset
      OBVIOUS
    <3>3. o \in Nat /\ Number(o) \in Int
      BY <2>1, <3>2, ListInData DEF WalkInv
    <3>. QED
      BY <3>1, <3>2, <3>3, WholeIsListed
  <2>. QED
    BY <2>1, EndIsTheDatas DEF HandlersListed, WalkInv
<1>. QED
  BY <1>1, <1>2, WalkStep, PTL DEF CatchSpec

-----------------------------------------------------------------------------
(***************************************************************************)
(* Descriptors: what the types of a prototype are written to is read back  *)
(* type by type, by the comparison and by the demangler, for any types.    *)
(***************************************************************************)

Chars == 1 .. 255

\* A set that holds 0, and of the numbers below m with each the next one, holds
\* every number up to m.
LEMMA RangeInduction ==
  ASSUME NEW m \in Nat, NEW S, 0 \in S, \A k \in 0 .. m - 1 : k \in S => k + 1 \in S
  PROVE  \A k \in 0 .. m : k \in S
<1>. DEFINE T == { k \in Nat : k <= m => k \in S }
<1>1. 0 \in T
  OBVIOUS
<1>2. \A k \in Nat : k \in T => k + 1 \in T
  <2>1. ASSUME NEW k \in Nat, k \in T, k + 1 <= m PROVE k + 1 \in S
    <3>1. k \in 0 .. m - 1 /\ k <= m
      BY <2>1
    <3>2. k \in S
      BY <2>1, <3>1
    <3>. QED
      BY <3>1, <3>2
  <2>. QED
    BY <2>1
<1>3. Nat \subseteq T
  <2>. HIDE DEF T
  <2>. QED
    BY <1>1, <1>2, SetInduction
<1>. QED
  BY <1>3

\* A member of a set of numbers that none is below is its least.
LEMMA LeastIs ==
  ASSUME NEW T \in SUBSET Int, NEW x \in T, \A y \in T : x <= y
  PROVE  Min(T) = x
<1>1. Min(T) \in T /\ \A y \in T : Min(T) <= y
  <2>1. x \in Int /\ T # {}
    OBVIOUS
  <2>. QED
    BY <2>1, MinIsLeast
<1>2. Min(T) \in Int /\ x \in Int /\ Min(T) <= x /\ x <= Min(T)
  BY <1>1
<1>. QED
  BY <1>2

\* LengthsTo adds one length after the other.
LEMMA LengthsAdd ==
  ASSUME NEW types \in Seq(Seq(Chars))
  PROVE  /\ LengthsTo(types)[0] = 0
         /\ \A k \in 0 .. Len(types) : LengthsTo(types)[k] \in Nat
         /\ \A k \in 1 .. Len(types) : LengthsTo(types)[k] = LengthsTo(types)[k - 1] + Len(types[k])
<1>. DEFINE m == Len(types)
            Made(f) == f = [ k \in 0 .. m |-> IF k = 0 THEN 0 ELSE f[k - 1] + Len(types[k]) ]
            sum == CHOOSE f : Made(f)
            turn == [ p \in Nat \X (1 .. m) |-> p[1] + Len(types[p[2]]) ]
<1>1. m \in Nat /\ \A k \in 1 .. m : Len(types[k]) \in Nat
  <2>1. \A k \in 1 .. m : types[k] \in Seq(Chars)
    BY ElementOfSeq
  <2>. QED
    BY <2>1, LenProperties
<1>2. sum = LengthsTo(types)
  BY DEF LengthsTo
<1>. HIDE DEF m
<1>3. turn \in [Nat \X (1 .. m) -> Nat] /\ \A x \in Nat, k \in 1 .. m : turn[<<x, k>>] = x + Len(types[k])
  BY <1>1
<1>. HIDE DEF turn
<1>4. PICK f \in [0 .. m -> Nat] : Loop(f, m, 0, turn)
  BY <1>1, <1>3, LoopExists
<1>5. Made(f)
  <2>1. f = [ k \in 0 .. m |-> IF k = 0 THEN 0 ELSE turn[<<f[k - 1], k>>] ]
    BY <1>4 DEF Loop
  <2>2. \A k \in 0 .. m : k # 0 => k \in 1 .. m /\ k - 1 \in 0 .. m
    BY <1>1
  <2>3. \A k \in 0 .. m : k # 0 => turn[<<f[k - 1], k>>] = f[k - 1] + Len(types[k])
    BY <1>3, <2>2
  <2>. QED
    BY <2>1, <2>3
<1>6. Made(sum)
  <2>. HIDE DEF Made
  <2>. QED
    BY <1>5
<1>7. \A k \in 0 .. m : sum[k] = IF k = 0 THEN 0 ELSE sum[k - 1] + Len(types[k])
  <2>. HIDE DEF sum
  <2>. QED
    BY <1>6
<1>. HIDE DEF sum, Made
<1>8. 0 \in 0 .. m /\ \A k \in 0 .. m - 1 : k + 1 \in 1 .. m /\ k \in 0 .. m /\ k + 1 \in 0 .. m /\ k + 1 # 0 /\ (k + 1) - 1 = k
  BY <1>1
<1>9. \A k \in 0 .. m : k \in { x \in 0 .. m : sum[x] \in Nat }
  <2>1. 0 \in { x \in 0 .. m : sum[x] \in Nat }
    BY <1>7, <1>8
  <2>2. ASSUME NEW k \in 0 .. m - 1, sum[k] \in Nat PROVE sum[k + 1] \in Nat
    <3>1. sum[k + 1] = sum[k] + Len(types[k + 1]) /\ Len(types[k + 1]) \in Nat
      BY <1>1, <1>7, <1>8
    <3>. QED
      BY <2>2, <3>1
  <2>. QED
    BY <1>1, <1>8, <2>1, <2>2, RangeInduction
<1>10. \A k \in 1 .. m : k \in 0 .. m /\ k # 0
  BY <1>1
<1>. QED
  BY <1>2, <1>7, <1>8, <1>9, <1>10 DEF m

\* JoinedTo writes one type after the other.
LEMMA JoinedAdds ==
  ASSUME NEW types \in Seq(Seq(Chars))
  PROVE  /\ JoinedTo(types)[0] = << >>
         /\ \A k \in 0 .. Len(types) : JoinedTo(types)[k] \in Seq(Chars)
         /\ \A k \in 1 .. Len(types) : JoinedTo(types)[k] = JoinedTo(types)[k - 1] \o types[k]
<1>. DEFINE m == Len(types)
            Made(f) == f = [ k \in 0 .. m |-> IF k = 0 THEN << >> ELSE f[k - 1] \o types[k] ]
            text == CHOOSE f : Made(f)
            turn == [ p \in Seq(Chars) \X (1 .. m) |-> p[1] \o types[p[2]] ]
<1>1. m \in Nat /\ (\A k \in 1 .. m : types[k] \in Seq(Chars)) /\ << >> \in Seq(Chars)
  BY ElementOfSeq, LenProperties, EmptySeq
<1>2. text = JoinedTo(types)
  BY DEF JoinedTo
<1>. HIDE DEF m
<1>3. /\ turn \in [Seq(Chars) \X (1 .. m) -> Seq(Chars)]
      /\ \A x \in Seq(Chars), k \in 1 .. m : turn[<<x, k>>] = x \o types[k]
  <2>1. \A x \in Seq(Chars), k \in 1 .. m : x \o types[k] \in Seq(Chars)
    BY <1>1, ConcatProperties
  <2>. QED
    BY <2>1
<1>. HIDE DEF turn
<1>4. PICK f \in [0 .. m -> Seq(Chars)] : Loop(f, m, << >>, turn)
  BY <1>1, <1>3, LoopExists
<1>5. Made(f)
  <2>1. f = [ k \in 0 .. m |-> IF k = 0 THEN << >> ELSE turn[<<f[k - 1], k>>] ]
    BY <1>4 DEF Loop
  <2>2. \A k \in 0 .. m : k # 0 => k \in 1 .. m /\ k - 1 \in 0 .. m
    BY <1>1
  <2>3. \A k \in 0 .. m : k # 0 => turn[<<f[k - 1], k>>] = f[k - 1] \o types[k]
    BY <1>3, <2>2
  <2>. QED
    BY <2>1, <2>3
<1>6. Made(text)
  <2>. HIDE DEF Made
  <2>. QED
    BY <1>5
<1>7. \A k \in 0 .. m : text[k] = IF k = 0 THEN << >> ELSE text[k - 1] \o types[k]
  <2>. HIDE DEF text
  <2>. QED
    BY <1>6
<1>. HIDE DEF text, Made
<1>8. 0 \in 0 .. m /\ \A k \in 0 .. m - 1 : k + 1 \in 1 .. m /\ k \in 0 .. m /\ k + 1 \in 0 .. m /\ k + 1 # 0 /\ (k + 1) - 1 = k
  BY <1>1
<1>9. \A k \in 0 .. m : k \in { x \in 0 .. m : text[x] \in Seq(Chars) }
  <2>1. 0 \in { x \in 0 .. m : text[x] \in Seq(Chars) }
    BY <1>1, <1>7, <1>8
  <2>2. ASSUME NEW k \in 0 .. m - 1, text[k] \in Seq(Chars) PROVE text[k + 1] \in Seq(Chars)
    <3>1. text[k + 1] = text[k] \o types[k + 1] /\ types[k + 1] \in Seq(Chars)
      BY <1>1, <1>7, <1>8
    <3>. QED
      BY <2>2, <3>1, ConcatProperties
  <2>. QED
    BY <1>1, <1>8, <2>1, <2>2, RangeInduction
<1>10. \A k \in 1 .. m : k \in 0 .. m /\ k # 0
  BY <1>1
<1>. QED
  BY <1>2, <1>7, <1>8, <1>9, <1>10 DEF m

\* What is written of k types: as many bytes as their lengths add up to, each
\* type where the one before it ends, and no other byte.
LEMMA JoinedIs ==
  ASSUME NEW types \in Seq(Seq(Chars)), NEW k \in 0 .. Len(types)
  PROVE  /\ Len(JoinedTo(types)[k]) = LengthsTo(types)[k]
         /\ \A j \in 1 .. k : LengthsTo(types)[j] <= LengthsTo(types)[k]
         /\ \A j \in 1 .. k : \A i \in 1 .. Len(types[j]) :
              JoinedTo(types)[k][LengthsTo(types)[j - 1] + i] = types[j][i]
         /\ \A x \in 1 .. LengthsTo(types)[k] : \E j \in 1 .. k : \E i \in 1 .. Len(types[j]) :
              x = LengthsTo(types)[j - 1] + i
<1>. DEFINE m == Len(types)
            sum == LengthsTo(types)
            text == JoinedTo(types)
            Laid(n) == /\ Len(text[n]) = sum[n]
                       /\ \A j \in 1 .. n : sum[j] <= sum[n]
                       /\ \A j \in 1 .. n : \A i \in 1 .. Len(types[j]) : text[n][sum[j - 1] + i] = types[j][i]
                       /\ \A x \in 1 .. sum[n] : \E j \in 1 .. n : \E i \in 1 .. Len(types[j]) : x = sum[j - 1] + i
<1>1. m \in Nat /\ \A j \in 1 .. m : types[j] \in Seq(Chars) /\ Len(types[j]) \in Nat
  <2>1. \A j \in 1 .. m : types[j] \in Seq(Chars)
    BY ElementOfSeq
  <2>. QED
    BY <2>1, LenProperties
<1>2. sum[0] = 0 /\ (\A j \in 0 .. m : sum[j] \in Nat) /\ \A j \in 1 .. m : sum[j] = sum[j - 1] + Len(types[j])
  BY LengthsAdd
<1>3. text[0] = << >> /\ (\A j \in 0 .. m : text[j] \in Seq(Chars)) /\ \A j \in 1 .. m : text[j] = text[j - 1] \o types[j]
  BY JoinedAdds
<1>. HIDE DEF m, sum, text
<1>4. Laid(0)
  BY <1>2, <1>3
<1>5. ASSUME NEW n \in 0 .. m - 1, Laid(n) PROVE Laid(n + 1)
  <2>a. Len(text[n]) = sum[n]
    BY <1>5
  <2>b. \A j \in 1 .. n : sum[j] <= sum[n]
    BY <1>5
  <2>c. \A j \in 1 .. n : \A i \in 1 .. Len(types[j]) : text[n][sum[j - 1] + i] = types[j][i]
    BY <1>5
  <2>d. \A x \in 1 .. sum[n] : \E j \in 1 .. n : \E i \in 1 .. Len(types[j]) : x = sum[j - 1] + i
    BY <1>5
  <2>. HIDE DEF Laid
  <2>1. n + 1 \in 1 .. m /\ (n + 1) - 1 = n /\ n \in 0 .. m /\ n \in Nat /\ n + 1 \in 0 .. m /\ m \in Nat /\ n + 1 <= m
    BY <1>1
  <2>2. text[n + 1] = text[n] \o types[n + 1] /\ sum[n + 1] = sum[n] + Len(types[n + 1])
    BY <1>2, <1>3, <2>1
  <2>3. text[n] \in Seq(Chars) /\ types[n + 1] \in Seq(Chars) /\ sum[n] \in Nat /\ Len(types[n + 1]) \in Nat
    BY <1>1, <1>2, <1>3, <2>1
  <2>4. /\ Len(text[n + 1]) = Len(text[n]) + Len(types[n + 1])
        /\ \A i \in 1 .. Len(text[n]) + Len(types[n + 1]) :
             text[n + 1][i] = IF i <= Len(text[n]) THEN text[n][i] ELSE types[n + 1][i - Len(text[n])]
    <3>1. /\ Len(text[n] \o types[n + 1]) = Len(text[n]) + Len(types[n + 1])
          /\ \A i \in 1 .. Len(text[n]) + Len(types[n + 1]) :
               (text[n] \o types[n + 1])[i] = IF i <= Len(text[n]) THEN text[n][i] ELSE types[n + 1][i - Len(text[n])]
      BY <2>3, ConcatProperties
    <3>. QED
      BY <2>2, <3>1
  <2>5. Len(text[n]) = sum[n]
    BY <2>a
  <2>6. Len(text[n + 1]) = sum[n + 1]
    BY <2>2, <2>4, <2>5
  <2>7. \A j \in 1 .. n + 1 : j \in 1 .. n \/ j = n + 1
    BY <2>1
  <2>8. \A j \in 1 .. n + 1 : sum[j] <= sum[n + 1]
    <3>1. \A j \in 1 .. n : sum[j] <= sum[n] /\ sum[j] \in Nat
      <4>1. \A j \in 1 .. n : j \in 0 .. m
        BY <2>1
      <4>. QED
        BY <1>2, <2>b, <4>1
    <3>2. sum[n] <= sum[n + 1] /\ sum[n + 1] \in Nat
      BY <2>2, <2>3
    <3>3. \A j \in 1 .. n : sum[j] <= sum[n + 1]
      BY <2>3, <3>1, <3>2
    <3>. QED
      BY <2>7, <3>2, <3>3
  <2>9. ASSUME NEW j \in 1 .. n + 1, NEW i \in 1 .. Len(types[j])
        PROVE  text[n + 1][sum[j - 1] + i] = types[j][i]
    <3>1. CASE j \in 1 .. n
      <4>1. j \in 1 .. m /\ j - 1 \in 0 .. m
        BY <2>1, <3>1
      <4>2. sum[j] = sum[j - 1] + Len(types[j]) /\ sum[j] <= sum[n] /\ sum[j - 1] \in Nat /\ Len(types[j]) \in Nat
        BY <1>1, <1>2, <2>b, <3>1, <4>1
      <4>3. sum[j - 1] + i \in 1 .. sum[n] /\ i \in Nat
        <5>1. i \in Nat /\ 1 <= i /\ i <= Len(types[j])
          BY <2>9, <4>2
        <5>2. sum[j - 1] + i <= sum[j] /\ sum[j - 1] + i \in Nat /\ 1 <= sum[j - 1] + i /\ sum[j] \in Nat
          BY <4>2, <5>1
        <5>3. sum[j - 1] + i <= sum[n]
          <6>1. sum[j] <= sum[n] /\ sum[n] \in Nat
            BY <2>3, <4>2
          <6>. QED
            BY <5>2, <6>1
        <5>. QED
          BY <2>3, <5>1, <5>2, <5>3
      <4>4. sum[j - 1] + i \in 1 .. Len(text[n]) + Len(types[n + 1]) /\ sum[j - 1] + i <= Len(text[n])
        BY <2>3, <2>5, <4>3
      <4>5. text[n + 1][sum[j - 1] + i] = text[n][sum[j - 1] + i]
        BY <2>4, <4>4
      <4>. QED
        BY <2>c, <2>9, <3>1, <4>5
    <3>2. CASE j = n + 1
      <4>1. sum[j - 1] = sum[n] /\ i \in 1 .. Len(types[n + 1])
        BY <2>1, <2>9, <3>2
      <4>2. sum[n] + i \in 1 .. Len(text[n]) + Len(types[n + 1]) /\ ~(sum[n] + i <= Len(text[n]))
        <5>1. i \in Nat /\ 1 <= i /\ i <= Len(types[n + 1])
          BY <2>3, <4>1
        <5>2. \A a \in Nat, b \in Nat, c \in Nat : 1 <= b /\ b <= c => a + b \in 1 .. a + c /\ ~(a + b <= a)
          OBVIOUS
        <5>3. sum[n] \in Nat /\ Len(types[n + 1]) \in Nat
          BY <2>3
        <5>4. sum[n] + i \in 1 .. sum[n] + Len(types[n + 1]) /\ ~(sum[n] + i <= sum[n])
          BY <5>1, <5>2, <5>3, Zenon
        <5>. QED
          BY <2>5, <5>4
      <4>3. (sum[n] + i) - Len(text[n]) = i
        BY <2>3, <2>5, <4>1
      <4>4. text[n + 1][sum[n] + i] = types[n + 1][(sum[n] + i) - Len(text[n])]
        BY <2>4, <4>2
      <4>. QED
        BY <3>2, <4>1, <4>3, <4>4
    <3>. QED
      BY <2>7, <3>1, <3>2
  <2>10. ASSUME NEW x \in 1 .. sum[n + 1]
         PROVE  \E j \in 1 .. n + 1 : \E i \in 1 .. Len(types[j]) : x = sum[j - 1] + i
    <3>1. CASE x \in 1 .. sum[n]
      <4>1. PICK j \in 1 .. n : \E i \in 1 .. Len(types[j]) : x = sum[j - 1] + i
        BY <2>d, <3>1
      <4>2. j \in 1 .. n + 1
        BY <2>1
      <4>. QED
        BY <4>1, <4>2
    <3>2. CASE x \notin 1 .. sum[n]
      <4>1. x - sum[n] \in 1 .. Len(types[n + 1]) /\ x = sum[n] + (x - sum[n]) /\ n + 1 \in 1 .. n + 1
        BY <2>1, <2>2, <2>3, <2>10, <3>2
      <4>. QED
        BY <2>1, <4>1
    <3>. QED
      BY <3>1, <3>2
  <2>. QED
    BY <2>6, <2>8, <2>9, <2>10 DEF Laid
<1>6. Laid(k)
  <2>1. 0 \in { n \in 0 .. m : Laid(n) }
    BY <1>1, <1>4
  <2>2. \A n \in 0 .. m - 1 : n \in { x \in 0 .. m : Laid(x) } => n + 1 \in { x \in 0 .. m : Laid(x) }
    <3>1. \A n \in 0 .. m - 1 : n + 1 \in 0 .. m
      BY <1>1
    <3>. HIDE DEF Laid
    <3>. QED
      BY <1>5, <3>1
  <2>. HIDE DEF Laid
  <2>3. \A n \in 0 .. m : n \in { x \in 0 .. m : Laid(x) }
    BY <1>1, <2>1, <2>2, RangeInduction
  <2>4. k \in 0 .. m
    BY DEF m
  <2>. QED
    BY <2>3, <2>4
<1>. QED
  BY <1>6 DEF sum, text

\* A type as n array marks and what they are of.
Shape(t, n) ==
  /\ t \in Seq(Chars) /\ n \in Nat /\ n + 1 <= Len(t)
  /\ \A i \in 1 .. n : t[i] = ArrayMark
  /\ t[n + 1] \notin {RParen, ArrayMark}
  /\ \/ n + 1 = Len(t) /\ t[n + 1] # ClassMark
     \/ /\ n + 3 <= Len(t) /\ t[n + 1] = ClassMark /\ t[Len(t)] = Semicolon
        /\ \A i \in n + 2 .. Len(t) - 1 : t[i] \notin {RParen, Semicolon}

LEMMA TypeShape ==
  ASSUME NEW t, IsType(t)
  PROVE  t \in Seq(Chars) /\ Len(t) \in Nat \ {0} /\ \E n \in Nat : Shape(t, n)
<1>1. t \in Seq(Chars)
  BY DEF IsType, Chars
<1>2. Len(t) \in Nat /\ \A i \in 1 .. Len(t) : t[i] \in Chars
  BY <1>1, LenProperties, ElementOfSeq
<1>3. PICK n \in 0 .. Len(t) - 1 : (\A i \in 1 .. n : t[i] = ArrayMark) /\ IsElement(SubSeq(t, n + 1, Len(t)))
  BY DEF IsType
<1>. DEFINE e == SubSeq(t, n + 1, Len(t))
            name == SubSeq(e, 2, Len(e) - 1)
<1>4. n \in Nat /\ n + 1 <= Len(t) /\ n + 1 \in Int /\ Len(t) \in Int
  BY <1>2, <1>3
<1>5. e \in Seq(Chars) /\ Len(e) = Len(t) - n /\ \A i \in 1 .. Len(t) - n : e[i] = t[n + i]
  <2>1. \A i \in n + 1 .. Len(t) : t[i] \in Chars
    BY <1>2, <1>4
  <2>2. /\ e \in Seq(Chars)
        /\ Len(e) = IF n + 1 <= Len(t) THEN Len(t) - (n + 1) + 1 ELSE 0
        /\ \A i \in 1 .. Len(t) - (n + 1) + 1 : e[i] = t[(n + 1) + i - 1]
    BY <1>4, <2>1, SubSeqProperties
  <2>3. Len(t) - (n + 1) + 1 = Len(t) - n /\ \A i \in 1 .. Len(t) - n : (n + 1) + i - 1 = n + i
    BY <1>4
  <2>. QED
    BY <1>4, <2>2, <2>3
<1>6. IsElement(e)
  BY <1>3
<1>9. \A i \in 1 .. n : t[i] = ArrayMark
  BY <1>3
<1>. HIDE DEF e
<1>7. CASE Len(e) = 1 /\ e[1] \in Primitives \cup {Void}
  <2>1. n + 1 = Len(t)
    <3>1. Len(t) - n = 1
      BY <1>5, <1>7
    <3>. QED
      BY <1>4, <3>1
  <2>2. 1 \in 1 .. Len(t) - n
    BY <1>4, <2>1
  <2>3. e[1] = t[n + 1]
    BY <1>5, <2>2
  <2>4. e[1] \notin {RParen, ClassMark, ArrayMark}
    <3>1. \A x \in Primitives \cup {Void} : x \notin {RParen, ClassMark, ArrayMark}
      BY DEF Primitives, Void, RParen, ClassMark, ArrayMark
    <3>. QED
      BY <1>7, <3>1
  <2>5. t[n + 1] \notin {RParen, ArrayMark} /\ t[n + 1] # ClassMark
    BY <2>3, <2>4
  <2>6. n \in Nat /\ n + 1 <= Len(t)
    BY <1>4
  <2>7. Shape(t, n)
    BY <1>1, <1>9, <2>1, <2>5, <2>6 DEF Shape
  <2>. QED
    BY <1>1, <1>2, <1>4, <2>7
<1>8. CASE /\ Len(e) >= 3 /\ e[1] = ClassMark /\ e[Len(e)] = Semicolon
           /\ IsName(name)
  <2>1. n + 3 <= Len(t) /\ e[1] = t[n + 1] /\ e[Len(e)] = t[Len(t)]
    <3>1. n + 3 <= Len(t)
      BY <1>4, <1>5, <1>8
    <3>2. 1 \in 1 .. Len(t) - n /\ Len(e) \in 1 .. Len(t) - n /\ n + Len(e) = Len(t)
      BY <1>4, <1>5, <3>1
    <3>. QED
      BY <1>5, <3>1, <3>2
  <2>2. /\ Len(name) = Len(e) - 2 /\ DOMAIN name = 1 .. Len(e) - 2
        /\ \A i \in 1 .. Len(e) - 2 : name[i] = e[i + 1]
    <3>1. Len(e) \in Nat /\ Len(e) >= 3 /\ Len(e) - 1 \in Int /\ 2 \in Int /\ 2 <= Len(e) - 1
      BY <1>4, <1>5, <1>8
    <3>2. \A i \in 2 .. Len(e) - 1 : e[i] \in Chars
      <4>1. \A i \in 1 .. Len(e) : e[i] \in Chars
        BY <1>5, ElementOfSeq
      <4>. QED
        BY <3>1, <4>1
    <3>3. /\ name \in Seq(Chars)
          /\ Len(name) = IF 2 <= Len(e) - 1 THEN (Len(e) - 1) - 2 + 1 ELSE 0
          /\ \A i \in 1 .. (Len(e) - 1) - 2 + 1 : name[i] = e[2 + i - 1]
      BY <3>1, <3>2, SubSeqProperties
    <3>4. (Len(e) - 1) - 2 + 1 = Len(e) - 2 /\ \A i \in 1 .. Len(e) - 2 : 2 + i - 1 = i + 1
      BY <3>1
    <3>5. Len(name) = Len(e) - 2 /\ \A i \in 1 .. Len(e) - 2 : name[i] = e[i + 1]
      BY <3>1, <3>3, <3>4
    <3>6. DOMAIN name = 1 .. Len(name)
      BY <3>3, LenProperties
    <3>. QED
      BY <3>5, <3>6
  <2>3. \A i \in 1 .. Len(e) - 2 : e[i + 1] \notin {RParen, Semicolon}
    BY <1>8, <2>2 DEF IsName
  <2>4. ASSUME NEW i \in n + 2 .. Len(t) - 1 PROVE t[i] \notin {RParen, Semicolon}
    <3>1. (i - n) - 1 \in 1 .. Len(e) - 2 /\ ((i - n) - 1) + 1 = i - n /\ i - n \in 1 .. Len(t) - n /\ n + (i - n) = i
      BY <1>4, <1>5, <2>4
    <3>2. e[i - n] \notin {RParen, Semicolon}
      BY <2>3, <3>1
    <3>3. e[i - n] = t[i]
      BY <1>5, <3>1
    <3>. QED
      BY <3>2, <3>3
  <2>5. t[n + 1] = ClassMark /\ t[Len(t)] = Semicolon
    BY <1>8, <2>1
  <2>6. t[n + 1] \notin {RParen, ArrayMark}
    BY <2>5 DEF ClassMark, RParen, ArrayMark
  <2>. QED
    BY <1>1, <1>4, <1>9, <2>1, <2>4, <2>5, <2>6 DEF Shape
<1>10. Len(t) \in Nat \ {0}
  BY <1>2, <1>4
<1>. QED
  BY <1>1, <1>4, <1>6, <1>7, <1>8, <1>10 DEF IsElement

\* No parenthesis is in a type.
LEMMA TypeHasNoParen ==
  ASSUME NEW t, NEW n, Shape(t, n), NEW i \in 1 .. Len(t)
  PROVE  t[i] # RParen
<1>1. n \in Nat /\ n + 1 <= Len(t) /\ Len(t) \in Nat
  BY LenProperties DEF Shape
<1>2. CASE i <= n
  <2>1. i \in 1 .. n
    BY <1>1, <1>2
  <2>2. t[i] = ArrayMark
    BY <2>1 DEF Shape
  <2>. QED
    BY <2>2 DEF ArrayMark, RParen
<1>3. CASE i = n + 1
  BY <1>3 DEF Shape
<1>4. CASE i > n + 1 /\ i < Len(t)
  <2>1. i \in n + 2 .. Len(t) - 1 /\ n + 1 # Len(t)
    BY <1>1, <1>4
  <2>. QED
    BY <2>1 DEF Shape
<1>5. CASE i > n + 1 /\ i = Len(t)
  <2>1. n + 1 # Len(t)
    BY <1>1, <1>5
  <2>2. t[i] = Semicolon
    BY <1>5, <2>1 DEF Shape
  <2>. QED
    BY <2>2 DEF Semicolon, RParen
<1>. QED
  BY <1>1, <1>2, <1>3, <1>4, <1>5

\* What an array is of begins behind its marks.
LEMMA ElementIs ==
  ASSUME NEW t, NEW n, Shape(t, n)
  PROVE  ElementType(t) = SubSeq(t, n + 1, Len(t)) /\ ElementType(t)[1] = t[n + 1]
<1>1. /\ t \in Seq(Chars) /\ n \in Nat /\ n + 1 <= Len(t) /\ t[n + 1] # ArrayMark
      /\ \A i \in 1 .. n : t[i] = ArrayMark
  BY DEF Shape
<1>2. Len(t) \in Nat /\ DOMAIN t = 1 .. Len(t)
  BY <1>1, LenProperties
<1>. DEFINE M == { i \in DOMAIN t : t[i] # ArrayMark }
<1>3. n + 1 \in M /\ \A y \in M : n + 1 <= y
  <2>1. n + 1 \in 1 .. Len(t)
    BY <1>1, <1>2
  <2>2. ASSUME NEW y \in M PROVE n + 1 <= y
    <3>1. y \in 1 .. Len(t) /\ y \notin 1 .. n
      BY <1>1, <1>2, <2>2
    <3>. QED
      BY <1>1, <1>2, <3>1
  <2>. QED
    BY <1>1, <1>2, <2>1, <2>2
<1>4. M \in SUBSET Int
  BY <1>2
<1>. HIDE DEF M
<1>5. Min(M) = n + 1
  BY <1>3, <1>4, LeastIs
<1>6. ElementType(t) = SubSeq(t, n + 1, Len(t))
  BY <1>5 DEF ElementType, M
<1>7. SubSeq(t, n + 1, Len(t))[1] = t[n + 1]
  <2>1. \A i \in n + 1 .. Len(t) : t[i] \in Chars
    <3>1. \A i \in 1 .. Len(t) : t[i] \in Chars
      BY <1>1, ElementOfSeq
    <3>. QED
      BY <1>1, <1>2, <3>1
  <2>2. n + 1 \in Int /\ Len(t) \in Int
    BY <1>1, <1>2
  <2>3. \A i \in 1 .. Len(t) - (n + 1) + 1 : SubSeq(t, n + 1, Len(t))[i] = t[(n + 1) + i - 1]
    BY <2>1, <2>2, SubSeqProperties
  <2>4. 1 \in 1 .. Len(t) - (n + 1) + 1 /\ (n + 1) + 1 - 1 = n + 1
    BY <1>1, <1>2
  <2>. QED
    BY <2>3, <2>4
<1>. QED
  BY <1>6, <1>7

\* methodDescriptorNextType passes a type, wherever it is.
LEMMA NextTypeIs ==
  ASSUME NEW d \in Seq(Chars), NEW pos \in Nat, pos > 0, NEW t, NEW n, Shape(t, n),
         (pos - 1) + Len(t) <= Len(d), \A i \in 1 .. Len(t) : d[(pos - 1) + i] = t[i]
  PROVE  NextType(d, pos) = pos + Len(t)
<1>1. /\ t \in Seq(Chars) /\ n \in Nat /\ n + 1 <= Len(t) /\ t[n + 1] # ArrayMark
      /\ \A i \in 1 .. n : t[i] = ArrayMark
  BY DEF Shape
<1>2. Len(t) \in Nat /\ Len(d) \in Nat
  BY <1>1, LenProperties
<1>3. ASSUME NEW x \in pos .. (pos - 1) + Len(t)
      PROVE  (x - pos) + 1 \in 1 .. Len(t) /\ d[x] = t[(x - pos) + 1] /\ x \in Int
  <2>1. (x - pos) + 1 \in 1 .. Len(t) /\ (pos - 1) + ((x - pos) + 1) = x
    BY <1>2, <1>3
  <2>. QED
    BY <2>1
<1>. DEFINE M == { i \in pos .. Len(d) : d[i] # ArrayMark }
            mark == Min(M)
<1>4. mark = pos + n
  <2>1. pos + n \in pos .. (pos - 1) + Len(t) /\ pos + n \in pos .. Len(d) /\ ((pos + n) - pos) + 1 = n + 1
    BY <1>1, <1>2
  <2>2. pos + n \in M
    BY <1>1, <1>3, <2>1
  <2>3. ASSUME NEW y \in M PROVE pos + n <= y
    <3>1. SUFFICES ASSUME y < pos + n PROVE FALSE
      BY <1>1, <1>2, <2>3
    <3>2. y \in pos .. (pos - 1) + Len(t) /\ (y - pos) + 1 \in 1 .. n
      BY <1>1, <1>2, <2>3, <3>1
    <3>3. d[y] = t[(y - pos) + 1]
      BY <1>3, <3>2
    <3>. QED
      BY <1>1, <2>3, <3>2, <3>3
  <2>4. M \in SUBSET Int
    BY <1>2
  <2>. HIDE DEF M
  <2>. QED
    BY <2>2, <2>3, <2>4, LeastIs
<1>5. d[mark] = t[n + 1]
  <2>1. pos + n \in pos .. (pos - 1) + Len(t) /\ ((pos + n) - pos) + 1 = n + 1
    BY <1>1, <1>2
  <2>. QED
    BY <1>3, <1>4, <2>1
<1>6. NextType(d, pos) = IF d[mark] = ClassMark THEN Min(PlacesOf(Semicolon, d, mark + 1)) + 1 ELSE mark + 1
  BY DEF NextType
<1>. HIDE DEF mark
<1>7. CASE n + 1 = Len(t) /\ t[n + 1] # ClassMark
  <2>1. NextType(d, pos) = mark + 1
    BY <1>5, <1>6, <1>7
  <2>2. mark + 1 = pos + Len(t)
    <3>1. mark = pos + n /\ n \in Nat /\ Len(t) = n + 1
      BY <1>1, <1>4, <1>7
    <3>2. (pos + n) + 1 = pos + (n + 1)
      BY <1>1
    <3>. QED
      BY <3>1, <3>2
  <2>. QED
    BY <2>1, <2>2
<1>8. CASE /\ n + 3 <= Len(t) /\ t[n + 1] = ClassMark /\ t[Len(t)] = Semicolon
           /\ \A i \in n + 2 .. Len(t) - 1 : t[i] \notin {RParen, Semicolon}
  <2>. DEFINE S == { i \in mark + 1 .. Len(d) : d[i] = Semicolon }
              last == (pos - 1) + Len(t)
  <2>1. last \in S
    <3>1. last \in pos .. (pos - 1) + Len(t) /\ last \in mark + 1 .. Len(d) /\ (last - pos) + 1 = Len(t)
      <4>1. n + 3 <= Len(t) /\ n \in Nat
        BY <1>1, <1>8
      <4>2. (pos - 1) + Len(t) >= (pos + n) + 1 /\ (pos - 1) + Len(t) >= pos
        BY <1>2, <4>1
      <4>. QED
        BY <1>2, <1>4, <4>1, <4>2
    <3>. QED
      BY <1>3, <1>8, <3>1
  <2>2. ASSUME NEW y \in S PROVE last <= y
    <3>1. y \in Int /\ pos + n + 1 <= y /\ d[y] = Semicolon
      BY <1>1, <1>2, <1>4, <2>2
    <3>2. SUFFICES ASSUME y < last PROVE FALSE
      BY <1>2, <3>1
    <3>3. y \in pos .. (pos - 1) + Len(t) /\ (y - pos) + 1 \in n + 2 .. Len(t) - 1
      BY <1>1, <1>2, <3>1, <3>2
    <3>4. d[y] = t[(y - pos) + 1]
      BY <1>3, <3>3
    <3>. QED
      BY <1>8, <3>1, <3>3, <3>4
  <2>3. S \in SUBSET Int /\ S = PlacesOf(Semicolon, d, mark + 1)
    BY <1>1, <1>2, <1>4 DEF PlacesOf
  <2>4. last \in Int /\ last + 1 = pos + Len(t)
    BY <1>2
  <2>. HIDE DEF S, last
  <2>5. Min(S) = last
    BY <2>1, <2>2, <2>3, LeastIs
  <2>. QED
    BY <1>5, <1>6, <1>8, <2>3, <2>4, <2>5
<1>. QED
  BY <1>7, <1>8 DEF Shape

-----------------------------------------------------------------------------
(* The descriptor of a prototype, byte by byte.                            *)

LEMMA ProtoTypes ==
  ASSUME NEW p \in Protos
  PROVE  /\ p.params \in Seq(Seq(Chars)) /\ Len(p.params) \in Nat
         /\ \A k \in 1 .. Len(p.params) : IsType(p.params[k]) /\ p.params[k] \in Seq(Chars) /\ Len(p.params[k]) \in Nat \ {0}
         /\ IsType(p.returns) /\ p.returns \in Seq(Chars) /\ Len(p.returns) \in Nat \ {0}
<1>1. p.params \in Seq(Seq(Chars)) /\ IsType(p.returns) /\ \A k \in DOMAIN p.params : IsType(p.params[k])
  BY ProtoAssumption, Zenon DEF Chars
<1>2. Len(p.params) \in Nat /\ DOMAIN p.params = 1 .. Len(p.params)
  BY <1>1, LenProperties
<1>. QED
  BY <1>1, <1>2, TypeShape

\* The number of bytes before a place between the parameters of a descriptor.
Before(p, k) == 1 + LengthsTo(p.params)[k]

LEMMA BeforeGrows ==
  ASSUME NEW p \in Protos
  PROVE  /\ Before(p, 0) = 1
         /\ \A k \in 0 .. Len(p.params) : Before(p, k) \in Nat /\ Before(p, k) <= Before(p, Len(p.params))
         /\ \A k \in 1 .. Len(p.params) : Before(p, k) = Before(p, k - 1) + Len(p.params[k])
<1>. DEFINE m == Len(p.params)
            sum == LengthsTo(p.params)
<1>1. p.params \in Seq(Seq(Chars)) /\ m \in Nat /\ \A k \in 1 .. m : Len(p.params[k]) \in Nat
  BY ProtoTypes
<1>2. sum[0] = 0 /\ (\A k \in 0 .. m : sum[k] \in Nat) /\ \A k \in 1 .. m : sum[k] = sum[k - 1] + Len(p.params[k])
  BY <1>1, LengthsAdd
<1>3. \A k \in 1 .. m : sum[k] <= sum[m]
  <2>1. m \in 0 .. m
    BY <1>1
  <2>. QED
    BY <1>1, <2>1, JoinedIs
<1>4. \A k \in 0 .. m : Before(p, k) = 1 + sum[k]
  BY DEF Before
<1>. HIDE DEF m, sum
<1>5. 0 \in 0 .. m /\ m \in 0 .. m /\ \A k \in 1 .. m : k - 1 \in 0 .. m /\ k \in 0 .. m
  BY <1>1
<1>6. \A k \in 0 .. m : sum[k] <= sum[m]
  <2>1. \A k \in 0 .. m : k = 0 \/ k \in 1 .. m
    BY <1>1
  <2>. QED
    BY <1>2, <1>3, <1>5, <2>1
<1>7. Before(p, 0) = 1
  BY <1>2, <1>4, <1>5
<1>8. \A k \in 0 .. m : Before(p, k) \in Nat /\ Before(p, k) <= Before(p, m)
  BY <1>2, <1>4, <1>5, <1>6
<1>9. ASSUME NEW k \in 1 .. m PROVE Before(p, k) = Before(p, k - 1) + Len(p.params[k])
  <2>1. sum[k] = sum[k - 1] + Len(p.params[k]) /\ sum[k - 1] \in Nat /\ Len(p.params[k]) \in Nat
    BY <1>1, <1>2, <1>5
  <2>2. Before(p, k) = 1 + sum[k] /\ Before(p, k - 1) = 1 + sum[k - 1]
    BY <1>4, <1>5
  <2>. QED
    BY <2>1, <2>2
<1>. QED
  BY <1>7, <1>8, <1>9 DEF m

LEMMA DescriptorIs ==
  ASSUME NEW p \in Protos
  PROVE  LET d == MethodDescriptor(p)
             n == Before(p, Len(p.params))
         IN  /\ d \in Seq(Chars) /\ Len(d) = n + 1 + Len(p.returns)
             /\ d[1] = LParen /\ d[n + 1] = RParen
             /\ \A j \in 1 .. Len(p.params) : \A i \in 1 .. Len(p.params[j]) : d[Before(p, j - 1) + i] = p.params[j][i]
             /\ \A i \in 1 .. Len(p.returns) : d[(n + 1) + i] = p.returns[i]
             /\ \A x \in 2 .. n : d[x] # RParen
<1>. DEFINE m == Len(p.params)
            sum == LengthsTo(p.params)
            J == Joined(p.params)
            R == p.returns
            n == 1 + sum[m]
            a == <<LParen>>
            b == a \o J
            c == b \o <<RParen>>
            d == c \o R
<1>1. p.params \in Seq(Seq(Chars)) /\ m \in Nat /\ m \in 0 .. m
  BY ProtoTypes
<1>2. R \in Seq(Chars) /\ Len(R) \in Nat
  BY ProtoTypes
<1>3. J \in Seq(Chars) /\ Len(J) = sum[m] /\ sum[m] \in Nat
  <2>1. J = JoinedTo(p.params)[m]
    BY DEF Joined
  <2>. QED
    BY <1>1, <2>1, JoinedAdds, JoinedIs, LengthsAdd
<1>4. \A j \in 1 .. m : \A i \in 1 .. Len(p.params[j]) : J[sum[j - 1] + i] = p.params[j][i]
  BY <1>1, JoinedIs DEF Joined
<1>5. \A x \in 1 .. sum[m] : \E j \in 1 .. m : \E i \in 1 .. Len(p.params[j]) : x = sum[j - 1] + i
  BY <1>1, JoinedIs
<1>6. MethodDescriptor(p) = d
  BY DEF MethodDescriptor
<1>7. a \in Seq(Chars) /\ Len(a) = 1 /\ a[1] = LParen
  <2>1. LParen \in Chars
    BY DEF LParen, Chars
  <2>. QED
    BY <2>1
<1>8. <<RParen>> \in Seq(Chars) /\ Len(<<RParen>>) = 1 /\ <<RParen>>[1] = RParen
  <2>1. RParen \in Chars
    BY DEF RParen, Chars
  <2>. QED
    BY <2>1
<1>. HIDE DEF m, sum, J, a, R
<1>9. b \in Seq(Chars) /\ Len(b) = n /\ b[1] = LParen /\ \A i \in 1 .. sum[m] : b[1 + i] = J[i]
  <2>1. /\ b \in Seq(Chars) /\ Len(b) = 1 + Len(J)
        /\ \A i \in 1 .. 1 + Len(J) : b[i] = IF i <= 1 THEN a[i] ELSE J[i - 1]
    <3>1. a \in Seq(Chars) /\ J \in Seq(Chars)
      BY <1>3, <1>7
    <3>2. /\ b \in Seq(Chars) /\ Len(b) = Len(a) + Len(J)
          /\ \A i \in 1 .. Len(a) + Len(J) : b[i] = IF i <= Len(a) THEN a[i] ELSE J[i - Len(a)]
      BY <3>1, ConcatProperties
    <3>3. Len(a) = 1
      BY <1>7
    <3>. HIDE DEF b
    <3>. QED
      BY <3>2, <3>3
  <2>2. 1 \in 1 .. 1 + Len(J) /\ 1 <= 1
    BY <1>3
  <2>3. \A i \in 1 .. sum[m] : 1 + i \in 1 .. 1 + Len(J) /\ ~(1 + i <= 1) /\ (1 + i) - 1 = i
    BY <1>3
  <2>4. b[1] = LParen
    BY <1>7, <2>1, <2>2
  <2>. QED
    BY <1>3, <2>1, <2>3, <2>4
<1>10. n \in Nat /\ 1 <= n
  BY <1>3
<1>. HIDE DEF b, n
<1>11. c \in Seq(Chars) /\ Len(c) = n + 1 /\ c[n + 1] = RParen /\ \A i \in 1 .. n : c[i] = b[i]
  <2>1. /\ c \in Seq(Chars) /\ Len(c) = n + 1
        /\ \A i \in 1 .. n + 1 : c[i] = IF i <= n THEN b[i] ELSE <<RParen>>[i - n]
    BY <1>8, <1>9, ConcatProperties
  <2>2. n + 1 \in 1 .. n + 1 /\ ~(n + 1 <= n) /\ (n + 1) - n = 1 /\ \A i \in 1 .. n : i \in 1 .. n + 1 /\ i <= n
    BY <1>10
  <2>3. c[n + 1] = RParen
    BY <1>8, <2>1, <2>2
  <2>. QED
    BY <2>1, <2>2, <2>3
<1>. HIDE DEF c
<1>12. /\ d \in Seq(Chars) /\ Len(d) = n + 1 + Len(R)
       /\ (\A i \in 1 .. n + 1 : d[i] = c[i]) /\ \A i \in 1 .. Len(R) : d[(n + 1) + i] = R[i]
  <2>1. /\ d \in Seq(Chars) /\ Len(d) = (n + 1) + Len(R)
        /\ \A i \in 1 .. (n + 1) + Len(R) : d[i] = IF i <= n + 1 THEN c[i] ELSE R[i - (n + 1)]
    <3>1. c \in Seq(Chars) /\ R \in Seq(Chars)
      BY <1>2, <1>11
    <3>2. /\ d \in Seq(Chars) /\ Len(d) = Len(c) + Len(R)
          /\ \A i \in 1 .. Len(c) + Len(R) : d[i] = IF i <= Len(c) THEN c[i] ELSE R[i - Len(c)]
      BY <3>1, ConcatProperties
    <3>3. Len(c) = n + 1
      BY <1>11
    <3>. HIDE DEF d
    <3>. QED
      BY <3>2, <3>3
  <2>2. \A i \in 1 .. n + 1 : i \in 1 .. (n + 1) + Len(R) /\ i <= n + 1
    BY <1>2, <1>10
  <2>3. \A i \in 1 .. Len(R) : (n + 1) + i \in 1 .. (n + 1) + Len(R) /\ ~((n + 1) + i <= n + 1) /\ ((n + 1) + i) - (n + 1) = i
    BY <1>2, <1>10
  <2>4. (\A i \in 1 .. n + 1 : d[i] = c[i]) /\ \A i \in 1 .. Len(R) : d[(n + 1) + i] = R[i]
    BY <2>1, <2>2, <2>3
  <2>. QED
    BY <2>1, <2>4
<1>. HIDE DEF d
<1>13. \A i \in 1 .. n : d[i] = b[i]
  <2>1. \A i \in 1 .. n : i \in 1 .. n + 1
    BY <1>10
  <2>. QED
    BY <1>11, <1>12, <2>1
<1>14. d[1] = LParen /\ d[n + 1] = RParen
  <2>1. 1 \in 1 .. n /\ n + 1 \in 1 .. n + 1
    BY <1>10
  <2>. QED
    BY <1>9, <1>11, <1>12, <1>13, <2>1
<1>15. n = 1 + sum[m]
  BY DEF n
<1>16. \A i \in 1 .. sum[m] : d[1 + i] = J[i]
  <2>1. \A i \in 1 .. sum[m] : 1 + i \in 1 .. n
    BY <1>3, <1>15
  <2>. QED
    BY <1>9, <1>13, <2>1
<1>17. \A j \in 1 .. m : IsType(p.params[j]) /\ Len(p.params[j]) \in Nat
  BY ProtoTypes DEF m
<1>18. ASSUME NEW j \in 1 .. m, NEW i \in 1 .. Len(p.params[j])
       PROVE  d[Before(p, j - 1) + i] = p.params[j][i] /\ Before(p, j - 1) + i = 1 + (sum[j - 1] + i)
  <2>1. j \in 0 .. m /\ j - 1 \in 0 .. m
    BY <1>1
  <2>2. sum[j - 1] \in Nat /\ sum[j] \in Nat /\ sum[j] = sum[j - 1] + Len(p.params[j]) /\ sum[j] <= sum[m]
    BY <1>1, <2>1, LengthsAdd, JoinedIs DEF m, sum
  <2>3. i \in Nat /\ 1 <= i /\ i <= Len(p.params[j])
    BY <1>17
  <2>4. sum[j - 1] + i \in 1 .. sum[m]
    <3>1. sum[j - 1] + i <= sum[j]
      BY <1>17, <2>2, <2>3
    <3>2. sum[j] <= sum[m]
      BY <2>2
    <3>. QED
      BY <1>3, <2>2, <2>3, <3>1, <3>2
  <2>5. Before(p, j - 1) + i = 1 + (sum[j - 1] + i)
    <3>1. Before(p, j - 1) = 1 + sum[j - 1]
      BY DEF Before, sum
    <3>. QED
      BY <2>2, <2>3, <3>1
  <2>6. d[1 + (sum[j - 1] + i)] = J[sum[j - 1] + i]
    BY <1>16, <2>4
  <2>. QED
    BY <1>4, <2>5, <2>6
<1>19. ASSUME NEW x \in 2 .. n PROVE d[x] # RParen
  <2>1. x - 1 \in 1 .. sum[m] /\ 1 + (x - 1) = x
    BY <1>3, <1>15
  <2>2. PICK j \in 1 .. m : \E i \in 1 .. Len(p.params[j]) : x - 1 = sum[j - 1] + i
    BY <1>5, <2>1
  <2>3. PICK i \in 1 .. Len(p.params[j]) : x - 1 = sum[j - 1] + i
    BY <2>2
  <2>4. d[x] = p.params[j][i]
    <3>1. Before(p, j - 1) + i = x
      BY <1>18, <2>1, <2>3
    <3>. QED
      BY <1>18, <3>1
  <2>5. PICK k \in Nat : Shape(p.params[j], k)
    BY <1>17, TypeShape
  <2>. QED
    BY <2>4, <2>5, TypeHasNoParen
<1>20. Before(p, m) = n
  BY <1>15 DEF Before, sum
<1>21. \A j \in 1 .. m : \A i \in 1 .. Len(p.params[j]) : d[Before(p, j - 1) + i] = p.params[j][i]
  BY <1>18
<1>22. MethodDescriptor(p) = d /\ m = Len(p.params) /\ R = p.returns
  BY <1>6 DEF d, c, b, a, J, R, m
<1>. HIDE DEF n
<1>. QED
  BY <1>12, <1>14, <1>19, <1>20, <1>21, <1>22

\* methodDescriptorReturnType finds what was written behind the parameters.
LEMMA ReturnTypeRead ==
  ASSUME NEW p \in Protos
  PROVE  ReturnTypeIn(MethodDescriptor(p)) = p.returns
<1>. DEFINE d == MethodDescriptor(p)
            n == Before(p, Len(p.params))
            S == PlacesOf(RParen, d, 1)
<1>1. /\ d \in Seq(Chars) /\ Len(d) = n + 1 + Len(p.returns)
      /\ d[1] = LParen /\ d[n + 1] = RParen /\ \A x \in 2 .. n : d[x] # RParen
  BY DescriptorIs
<1>2. \A i \in 1 .. Len(p.returns) : d[(n + 1) + i] = p.returns[i]
  BY DescriptorIs
<1>3. n \in Nat
  <2>1. Len(p.params) \in 0 .. Len(p.params)
    BY ProtoTypes
  <2>. QED
    BY <2>1, BeforeGrows
<1>4. p.returns \in Seq(Chars) /\ Len(p.returns) \in Nat
  BY ProtoTypes
<1>. HIDE DEF d, n
<1>5. S = { i \in 1 .. Len(d) : d[i] = RParen }
  BY DEF PlacesOf
<1>a. Len(d) \in Nat /\ n + 1 <= Len(d) /\ Len(d) - (n + 1) = Len(p.returns)
  <2>1. Len(d) = n + 1 + Len(p.returns)
    BY <1>1
  <2>2. \A x \in Nat, y \in Nat : LET z == x + 1 + y IN z \in Nat /\ x + 1 <= z /\ z - (x + 1) = y
    OBVIOUS
  <2>3. Len(p.returns) \in Nat
    BY <1>4
  <2>. QED
    BY <1>3, <2>1, <2>2, <2>3, Zenon
<1>6. n + 1 \in S
  <2>1. n + 1 \in 1 .. Len(d)
    BY <1>3, <1>a
  <2>. QED
    BY <1>1, <1>5, <2>1
<1>7. ASSUME NEW y \in S PROVE n + 1 <= y
  <2>1. y \in Int /\ 1 <= y /\ d[y] = RParen
    BY <1>5, <1>7
  <2>2. y # 1
    BY <1>1, <2>1 DEF LParen, RParen
  <2>3. y \notin 2 .. n
    BY <1>1, <2>1
  <2>. QED
    BY <1>3, <2>1, <2>2, <2>3
<1>8. S \in SUBSET Int
  BY <1>5
<1>. HIDE DEF S
<1>9. Min(S) = n + 1
  BY <1>6, <1>7, <1>8, LeastIs
<1>10. ReturnTypeIn(d) = SubSeq(d, (n + 1) + 1, Len(d))
  BY <1>9 DEF ReturnTypeIn, S
<1>. DEFINE r == SubSeq(d, (n + 1) + 1, Len(d))
<1>11. /\ r \in Seq(Chars) /\ Len(r) = Len(p.returns)
       /\ \A i \in 1 .. Len(p.returns) : r[i] = p.returns[i]
  <2>1. \A i \in (n + 1) + 1 .. Len(d) : d[i] \in Chars
    <3>1. \A i \in 1 .. Len(d) : d[i] \in Chars
      BY <1>1, ElementOfSeq
    <3>2. \A i \in (n + 1) + 1 .. Len(d) : i \in 1 .. Len(d)
      BY <1>3, <1>a
    <3>. QED
      BY <3>1, <3>2
  <2>2. (n + 1) + 1 \in Int /\ Len(d) \in Int
    BY <1>3, <1>a
  <2>3. /\ r \in Seq(Chars)
        /\ Len(r) = IF (n + 1) + 1 <= Len(d) THEN Len(d) - ((n + 1) + 1) + 1 ELSE 0
        /\ \A i \in 1 .. Len(d) - ((n + 1) + 1) + 1 : r[i] = d[((n + 1) + 1) + i - 1]
    BY <2>1, <2>2, SubSeqProperties
  <2>4. Len(d) - ((n + 1) + 1) + 1 = Len(p.returns) /\ Len(r) = Len(p.returns)
    <3>1. Len(d) - ((n + 1) + 1) + 1 = Len(p.returns)
      BY <1>3, <1>4, <1>a
    <3>2. Len(r) = IF (n + 1) + 1 <= Len(d) THEN Len(d) - ((n + 1) + 1) + 1 ELSE 0
      BY <2>3
    <3>3. ~((n + 1) + 1 <= Len(d)) => Len(p.returns) = 0
      BY <1>3, <1>4, <1>a
    <3>. HIDE DEF r
    <3>. QED
      BY <3>1, <3>2, <3>3
  <2>5. \A i \in 1 .. Len(p.returns) : ((n + 1) + 1) + i - 1 = (n + 1) + i
    BY <1>3
  <2>. QED
    BY <1>2, <2>3, <2>4, <2>5
<1>. HIDE DEF r
<1>12. r = p.returns
  BY <1>4, <1>11, SeqEqual
<1>. QED
  BY <1>10, <1>12 DEF d, r

-----------------------------------------------------------------------------
(* The comparison with a descriptor.                                       *)

\* The parameters begin and end where they were written.
LEMMA ParameterIsRead ==
  ASSUME NEW q \in Protos, NEW k \in 0 .. Len(q.params) - 1
  PROVE  LET d == MethodDescriptor(q)
         IN  /\ d[Before(q, k) + 1] # RParen
             /\ NextType(d, Before(q, k) + 1) = Before(q, k + 1) + 1
             /\ SubSeq(d, Before(q, k) + 1, Before(q, k + 1)) = q.params[k + 1]
<1>. DEFINE d == MethodDescriptor(q)
            m == Len(q.params)
            t == q.params[k + 1]
            pos == Before(q, k) + 1
<1>1. /\ d \in Seq(Chars) /\ Len(d) = Before(q, m) + 1 + Len(q.returns)
      /\ \A j \in 1 .. m : \A i \in 1 .. Len(q.params[j]) : d[Before(q, j - 1) + i] = q.params[j][i]
  BY DescriptorIs
<1>2. m \in Nat /\ Len(q.returns) \in Nat
  BY ProtoTypes
<1>3. k + 1 \in 1 .. m /\ (k + 1) - 1 = k /\ k \in 0 .. m /\ k + 1 \in 0 .. m
  BY <1>2
<1>4. IsType(t) /\ t \in Seq(Chars) /\ Len(t) \in Nat \ {0}
  BY <1>3, ProtoTypes
<1>5. \A i \in 1 .. Len(t) : d[Before(q, k) + i] = t[i]
  BY <1>1, <1>3
<1>6. /\ Before(q, k) \in Nat /\ Before(q, k + 1) \in Nat
      /\ Before(q, k + 1) = Before(q, k) + Len(t) /\ Before(q, k + 1) <= Before(q, m) /\ Before(q, m) \in Nat
  <2>1. Before(q, k + 1) = Before(q, (k + 1) - 1) + Len(q.params[k + 1])
    BY <1>3, BeforeGrows
  <2>2. m \in 0 .. m
    BY <1>2
  <2>. QED
    BY <1>3, <2>1, <2>2, BeforeGrows
<1>7. Len(d) \in Nat /\ Before(q, k) + Len(t) <= Len(d)
  <2>1. \A x \in Nat, y \in Nat : x + 1 + y \in Nat /\ x <= x + 1 + y
    OBVIOUS
  <2>2. Len(d) \in Nat /\ Before(q, m) <= Len(d)
    BY <1>1, <1>2, <1>6, <2>1, Zenon
  <2>3. Before(q, k) + Len(t) <= Before(q, m)
    BY <1>6
  <2>. QED
    BY <1>4, <1>6, <2>2, <2>3
<1>. HIDE DEF d, m, t
<1>8. pos \in Nat /\ pos > 0 /\ pos - 1 = Before(q, k)
  BY <1>6
<1>9. PICK n \in Nat : Shape(t, n)
  BY <1>4, TypeShape
<1>. HIDE DEF pos
<1>10. NextType(d, pos) = pos + Len(t)
  <2>1. (pos - 1) + Len(t) <= Len(d) /\ \A i \in 1 .. Len(t) : d[(pos - 1) + i] = t[i]
    BY <1>5, <1>7, <1>8
  <2>. QED
    BY <1>1, <1>8, <1>9, <2>1, NextTypeIs
<1>11. pos + Len(t) = Before(q, k + 1) + 1
  BY <1>4, <1>6 DEF pos
<1>12. d[pos] # RParen
  <2>1. 1 \in 1 .. Len(t)
    BY <1>4
  <2>2. d[pos] = t[1]
    BY <1>5, <2>1 DEF pos
  <2>. QED
    BY <1>9, <2>1, <2>2, TypeHasNoParen
<1>. DEFINE r == SubSeq(d, pos, Before(q, k + 1))
<1>13. r = t
  <2>1. \A i \in pos .. Before(q, k + 1) : d[i] \in Chars
    <3>1. \A i \in 1 .. Len(d) : d[i] \in Chars
      BY <1>1, ElementOfSeq
    <3>2. \A i \in pos .. Before(q, k + 1) : i \in 1 .. Len(d)
      BY <1>6, <1>7, <1>8
    <3>. QED
      BY <3>1, <3>2
  <2>2. pos \in Int /\ Before(q, k + 1) \in Int
    BY <1>6, <1>8
  <2>3. /\ r \in Seq(Chars)
        /\ Len(r) = IF pos <= Before(q, k + 1) THEN Before(q, k + 1) - pos + 1 ELSE 0
        /\ \A i \in 1 .. Before(q, k + 1) - pos + 1 : r[i] = d[pos + i - 1]
    BY <2>1, <2>2, SubSeqProperties
  <2>4. pos <= Before(q, k + 1) /\ Before(q, k + 1) - pos + 1 = Len(t)
    <3>1. pos = Before(q, k) + 1
      BY DEF pos
    <3>2. Before(q, k) \in Nat /\ Len(t) \in Nat /\ Len(t) > 0 /\ Before(q, k + 1) = Before(q, k) + Len(t)
      BY <1>4, <1>6
    <3>. QED
      BY <3>1, <3>2
  <2>5. \A i \in 1 .. Len(t) : pos + i - 1 = Before(q, k) + i
    BY <1>6, <1>8
  <2>. HIDE DEF r
  <2>6. Len(r) = Len(t) /\ \A i \in 1 .. Len(r) : r[i] = t[i]
    BY <1>5, <2>3, <2>4, <2>5
  <2>. QED
    BY <1>4, <2>3, <2>6, SeqEqual
<1>. QED
  BY <1>10, <1>11, <1>12, <1>13 DEF d, t, pos, r

\* Type by type, the comparison stands where the next one was written.
LEMMA PlacesAre ==
  ASSUME NEW q \in Protos, NEW n \in Nat
  PROVE  LET d == MethodDescriptor(q)
             place == PlacesAfter(d, n)
         IN  \A k \in 0 .. n : k <= Len(q.params) =>
               place[k] = Before(q, k) + 1 /\ (d[place[k]] = RParen <=> k = Len(q.params))
<1>. DEFINE d == MethodDescriptor(q)
            m == Len(q.params)
            Made(f) == f = [ k \in 0 .. n |-> IF k = 0 THEN 2
                                              ELSE IF d[f[k - 1]] = RParen THEN f[k - 1] ELSE NextType(d, f[k - 1]) ]
            place == CHOOSE f : Made(f)
            known == [ k \in 0 .. n |-> Before(q, IF k <= m THEN k ELSE m) + 1 ]
<1>1. place = PlacesAfter(d, n)
  BY DEF PlacesAfter
<1>2. m \in Nat /\ 0 \in 0 .. m /\ m \in 0 .. m
  BY ProtoTypes
<1>3. /\ Before(q, 0) = 1 /\ Before(q, m) \in Nat
      /\ \A k \in 0 .. m - 1 : /\ d[Before(q, k) + 1] # RParen
                               /\ NextType(d, Before(q, k) + 1) = Before(q, k + 1) + 1
      /\ d[Before(q, m) + 1] = RParen
  BY <1>2, BeforeGrows, ParameterIsRead, DescriptorIs
<1>. HIDE DEF d, m
<1>4. ASSUME NEW k \in 0 .. n, k # 0
      PROVE  known[k] = IF d[known[k - 1]] = RParen THEN known[k - 1] ELSE NextType(d, known[k - 1])
  <2>1. k - 1 \in 0 .. n /\ k \in Nat /\ k > 0
    BY <1>4
  <2>2. CASE k <= m
    <3>1. known[k - 1] = Before(q, k - 1) + 1 /\ known[k] = Before(q, k) + 1
      BY <1>2, <2>1, <2>2
    <3>2. k - 1 \in 0 .. m - 1 /\ (k - 1) + 1 = k
      BY <1>2, <2>1, <2>2
    <3>3. d[Before(q, k - 1) + 1] # RParen /\ NextType(d, Before(q, k - 1) + 1) = Before(q, (k - 1) + 1) + 1
      BY <1>3, <3>2
    <3>. HIDE DEF known
    <3>. QED
      BY <3>1, <3>2, <3>3
  <2>3. CASE ~(k <= m)
    <3>1. known[k - 1] = Before(q, m) + 1 /\ known[k] = Before(q, m) + 1
      <4>1. CASE k - 1 <= m
        <5>1. k - 1 = m
          BY <1>2, <2>1, <2>3, <4>1
        <5>. QED
          BY <2>1, <2>3, <5>1
      <4>2. CASE ~(k - 1 <= m)
        BY <2>1, <2>3, <4>2
      <4>. QED
        BY <4>1, <4>2
    <3>. HIDE DEF known
    <3>. QED
      BY <1>3, <3>1
  <2>. QED
    BY <2>2, <2>3
<1>5. 0 \in 0 .. n /\ known[0] = 2
  BY <1>2, <1>3
<1>6. known = [ k \in 0 .. n |-> known[k] ]
  OBVIOUS
<1>7. Made(known)
  <2>. HIDE DEF known
  <2>. QED
    BY <1>4, <1>5, <1>6
<1>8. Made(place)
  <2>. HIDE DEF Made
  <2>. QED
    BY <1>7
<1>9. place[0] = 2 /\ \A k \in 1 .. n : place[k] = IF d[place[k - 1]] = RParen THEN place[k - 1] ELSE NextType(d, place[k - 1])
  <2>. HIDE DEF place
  <2>1. \A k \in 0 .. n : place[k] = IF k = 0 THEN 2
                                     ELSE IF d[place[k - 1]] = RParen THEN place[k - 1] ELSE NextType(d, place[k - 1])
    BY <1>8
  <2>2. \A k \in 1 .. n : k \in 0 .. n /\ k # 0
    OBVIOUS
  <2>. HIDE DEF Made
  <2>. QED
    BY <1>5, <2>1, <2>2
<1>. HIDE DEF place, known, Made
<1>10. \A k \in 0 .. n : k \in { x \in 0 .. n : x <= m => place[x] = Before(q, x) + 1 }
  <2>1. 0 \in { x \in 0 .. n : x <= m => place[x] = Before(q, x) + 1 }
    BY <1>3, <1>5, <1>9
  <2>2. ASSUME NEW k \in 0 .. n - 1, k <= m => place[k] = Before(q, k) + 1
        PROVE  k + 1 \in 0 .. n /\ (k + 1 <= m => place[k + 1] = Before(q, k + 1) + 1)
    <3>1. k + 1 \in 1 .. n /\ k + 1 \in 0 .. n /\ (k + 1) - 1 = k
      OBVIOUS
    <3>2. SUFFICES ASSUME k + 1 <= m PROVE place[k + 1] = Before(q, k + 1) + 1
      BY <3>1
    <3>3. k \in 0 .. m - 1 /\ k <= m
      BY <1>2, <3>2
    <3>4. place[k] = Before(q, k) + 1
      BY <2>2, <3>3
    <3>5. place[k + 1] = IF d[place[k]] = RParen THEN place[k] ELSE NextType(d, place[k])
      BY <1>9, <3>1
    <3>6. d[Before(q, k) + 1] # RParen /\ NextType(d, Before(q, k) + 1) = Before(q, k + 1) + 1
      BY <1>3, <3>3
    <3>. QED
      BY <3>4, <3>5, <3>6
  <2>. QED
    BY <2>1, <2>2, RangeInduction
<1>11. ASSUME NEW k \in 0 .. n, k <= m
       PROVE  place[k] = Before(q, k) + 1 /\ (d[place[k]] = RParen <=> k = m)
  <2>1. place[k] = Before(q, k) + 1
    BY <1>10, <1>11
  <2>2. k = m \/ k \in 0 .. m - 1
    BY <1>2, <1>11
  <2>3. k \in 0 .. m - 1 => k # m
    BY <1>2
  <2>. QED
    BY <1>3, <2>1, <2>2, <2>3
<1>. QED
  BY <1>1, <1>11 DEF d, m

\* Below 128 a byte is the same number, signed or not.
LEMMA OrderOfAscii ==
  ASSUME NEW s \in Seq(Chars), NEW t \in Seq(Chars),
         \A i \in 1 .. Len(s) : s[i] < 128, \A i \in 1 .. Len(t) : t[i] < 128
  PROVE  Order(s, t, AsSigned) = StrCmp(s, t)
<1>. DEFINE x == Append(s, 0)
            y == Append(t, 0)
            n == IF Len(x) < Len(y) THEN Len(x) ELSE Len(y)
            different == { i \in 1 .. n : x[i] # y[i] }
<1>1. ASSUME NEW u \in Seq(Chars), \A i \in 1 .. Len(u) : u[i] < 128
      PROVE  /\ Len(Append(u, 0)) \in Nat
             /\ \A i \in 1 .. Len(Append(u, 0)) : Append(u, 0)[i] \in 0 .. 127
  <2>1. u \in Seq(0 .. 127) /\ Len(u) \in Nat
    <3>1. Len(u) \in Nat /\ u \in [1 .. Len(u) -> Chars] /\ \A i \in 1 .. Len(u) : u[i] \in Chars
      BY LenProperties, ElementOfSeq
    <3>2. \A i \in 1 .. Len(u) : u[i] \in 0 .. 127
      <4>1. \A c \in Chars : c < 128 => c \in 0 .. 127
        BY DEF Chars
      <4>. QED
        BY <1>1, <3>1, <4>1
    <3>3. u \in [1 .. Len(u) -> 0 .. 127]
      BY <3>1, <3>2
    <3>4. u \in UNION { [1 .. k -> 0 .. 127] : k \in Nat }
      BY <3>1, <3>3
    <3>5. u \in Seq(0 .. 127)
      BY <3>4, SeqDef, Zenon
    <3>. QED
      BY <3>1, <3>5
  <2>2. 0 \in 0 .. 127
    OBVIOUS
  <2>3. Append(u, 0) \in Seq(0 .. 127)
    BY <2>1, <2>2
  <2>. QED
    BY <2>3, LenProperties, ElementOfSeq
<1>2. Len(x) \in Nat /\ (\A i \in 1 .. Len(x) : x[i] \in 0 .. 127) /\ Len(y) \in Nat /\ (\A i \in 1 .. Len(y) : y[i] \in 0 .. 127)
  BY <1>1
<1>. HIDE DEF x, y
<1>3. \A i \in different : x[i] \in 0 .. 127 /\ y[i] \in 0 .. 127
  <2>1. \A i \in 1 .. n : i \in 1 .. Len(x) /\ i \in 1 .. Len(y)
    BY <1>2
  <2>. QED
    BY <1>2, <2>1
<1>4. ASSUME NEW c \in 0 .. 127 PROVE AsSigned[c] = c /\ AsUnsigned[c] = c
  <2>1. c \in 0 .. 255 /\ c < 128
    OBVIOUS
  <2>2. AsSigned[c] = c
    BY <2>1 DEF AsSigned
  <2>3. AsUnsigned[c] = c
    BY <2>1 DEF AsUnsigned
  <2>. QED
    BY <2>2, <2>3
<1>5. different # {} => Min(different) \in different
  <2>1. different \in SUBSET Int /\ \A i \in different : 1 <= i
    BY <1>2
  <2>. HIDE DEF different
  <2>. QED
    BY <2>1, MinIsLeast
<1>6. \A value : Order(s, t, value) =
        IF different = {} THEN 0
        ELSE IF value[x[Min(different)]] < value[y[Min(different)]] THEN -1 ELSE 1
  BY DEF Order, x, y
<1>7. StrCmp(s, t) = Order(s, t, AsUnsigned)
  BY DEF StrCmp
<1>. HIDE DEF different, n
<1>8. CASE different = {}
  BY <1>6, <1>7, <1>8
<1>9. CASE different # {}
  <2>1. /\ AsSigned[x[Min(different)]] = AsUnsigned[x[Min(different)]]
        /\ AsSigned[y[Min(different)]] = AsUnsigned[y[Min(different)]]
    BY <1>3, <1>4, <1>5, <1>9
  <2>. QED
    BY <1>6, <1>7, <2>1
<1>. QED
  BY <1>8, <1>9

\* The arguments compare as the parameters the descriptor was written from.
LEMMA ArgumentsCompare ==
  ASSUME NEW p \in Protos, NEW q \in Protos, Ascii(p), Ascii(q)
  PROVE  CompareToArguments(p, MethodDescriptor(q)) = CompareTypes(p.params, q.params)
<1>. DEFINE d == MethodDescriptor(q)
            n == Len(p.params)
            m == Len(q.params)
            place == PlacesAfter(d, n)
            l == IF n < m THEN n ELSE m
            cmp(i) == StrCmp(p.params[i], q.params[i])
            argument(i) == CompareArgument(p, d, place, i)
            K == { k \in 0 .. n : d[place[k]] = RParen \/ k = n \/ argument(k + 1) # 0 }
            different == { i \in 1 .. l : cmp(i) # 0 }
<1>1. n \in Nat /\ m \in Nat /\ l \in Nat /\ l <= n /\ l <= m /\ (l = n \/ l = m)
  BY ProtoTypes
<1>2. \A k \in 0 .. n : k <= m => place[k] = Before(q, k) + 1 /\ (d[place[k]] = RParen <=> k = m)
  BY <1>1, PlacesAre
<1>3. \A k \in 0 .. m : Before(q, k) \in Nat
  BY BeforeGrows
<1>4. CompareToArguments(p, d) = IF d[place[Min(K)]] = RParen THEN IF Min(K) = n THEN 0 ELSE 1
                                 ELSE IF Min(K) = n THEN -1 ELSE argument(Min(K) + 1)
  BY DEF CompareToArguments, Matching
<1>5. CompareTypes(p.params, q.params) = IF different # {} THEN cmp(Min(different))
                                         ELSE IF n < m THEN -1 ELSE IF n > m THEN 1 ELSE 0
  BY DEF CompareTypes
<1>6. ASSUME NEW i \in 1 .. l PROVE argument(i) = cmp(i)
  <2>1. i \in 1 .. n /\ i \in 1 .. m /\ i - 1 \in 0 .. n /\ i \in 0 .. n /\ i <= m /\ i - 1 <= m
        /\ i - 1 \in 0 .. m - 1 /\ (i - 1) + 1 = i /\ i \in 0 .. m
    BY <1>1
  <2>2. place[i - 1] = Before(q, i - 1) + 1 /\ place[i] = Before(q, i) + 1
    BY <1>2, <2>1
  <2>3. SubSeq(d, Before(q, i - 1) + 1, Before(q, i)) = q.params[i]
    <3>1. \A k \in 0 .. m - 1 : SubSeq(d, Before(q, k) + 1, Before(q, k + 1)) = q.params[k + 1]
      BY ParameterIsRead
    <3>2. SubSeq(d, Before(q, i - 1) + 1, Before(q, (i - 1) + 1)) = q.params[(i - 1) + 1]
      BY <2>1, <3>1
    <3>. QED
      BY <2>1, <3>2
  <2>4. place[i] - 1 = Before(q, i)
    BY <1>3, <2>1, <2>2
  <2>5. argument(i) = Order(p.params[i], q.params[i], AsSigned)
    BY <2>2, <2>3, <2>4 DEF CompareArgument
  <2>6. p.params[i] \in Seq(Chars) /\ q.params[i] \in Seq(Chars)
    BY <2>1, ProtoTypes
  <2>7. /\ \A j \in 1 .. Len(p.params[i]) : p.params[i][j] < 128
        /\ \A j \in 1 .. Len(q.params[i]) : q.params[i][j] < 128
    <3>1. i \in DOMAIN p.params /\ i \in DOMAIN q.params
      BY <2>1, ProtoTypes, LenProperties
    <3>2. DOMAIN p.params[i] = 1 .. Len(p.params[i]) /\ DOMAIN q.params[i] = 1 .. Len(q.params[i])
      BY <2>6, LenProperties
    <3>. QED
      BY <3>1, <3>2 DEF Ascii
  <2>. HIDE DEF argument
  <2>8. Order(p.params[i], q.params[i], AsSigned) = StrCmp(p.params[i], q.params[i])
    BY <2>6, <2>7, OrderOfAscii
  <2>. QED
    BY <2>5, <2>8
<1>. HIDE DEF argument, cmp, place, d, n, m
<1>7. K \in SUBSET Int /\ different \in SUBSET Int
  BY <1>1
<1>8. ASSUME NEW k \in K, k < l
      PROVE  k + 1 \in different
  <2>1. k \in 0 .. n /\ k <= m /\ k # n /\ k # m /\ k + 1 \in 1 .. l
    BY <1>1, <1>8
  <2>2. d[place[k]] # RParen
    BY <1>2, <2>1
  <2>3. argument(k + 1) # 0
    BY <1>8, <2>1, <2>2
  <2>. QED
    BY <1>6, <2>1, <2>3
<1>9. CASE different = {}
  <2>1. l \in K
    <3>1. l \in 0 .. n
      BY <1>1
    <3>2. l # n => d[place[l]] = RParen
      BY <1>1, <1>2, <3>1
    <3>. QED
      BY <3>1, <3>2
  <2>2. \A k \in K : l <= k
    <3>1. \A k \in K : ~(k < l)
      BY <1>8, <1>9
    <3>2. \A k \in K : k \in Int
      BY <1>7
    <3>. HIDE DEF K
    <3>. QED
      BY <1>1, <3>1, <3>2
  <2>3. Min(K) = l
    <3>. HIDE DEF K
    <3>. QED
      BY <1>7, <2>1, <2>2, LeastIs
  <2>4. d[place[l]] = RParen <=> l = m
    <3>1. l \in 0 .. n /\ l <= m
      BY <1>1
    <3>. QED
      BY <1>2, <3>1
  <2>5. CompareToArguments(p, d) = IF l = m THEN IF l = n THEN 0 ELSE 1 ELSE IF l = n THEN -1 ELSE argument(l + 1)
    <3>. HIDE DEF K, l
    <3>. QED
      BY <1>4, <2>3, <2>4
  <2>6. CompareTypes(p.params, q.params) = IF n < m THEN -1 ELSE IF n > m THEN 1 ELSE 0
    BY <1>5, <1>9
  <2>. QED
    BY <1>1, <2>5, <2>6 DEF d
<1>10. CASE different # {}
  <2>. DEFINE f == Min(different)
  <2>1. f \in different /\ \A i \in different : f <= i
    <3>1. \A i \in different : 1 <= i
      BY <1>1
    <3>. HIDE DEF different
    <3>. QED
      BY <1>7, <1>10, <3>1, MinIsLeast
  <2>2. f \in 1 .. l /\ cmp(f) # 0
    BY <2>1
  <2>3. \A i \in different : i \in Int
    BY <1>7
  <2>. HIDE DEF f
  <2>4. f - 1 \in 0 .. n /\ (f - 1) + 1 = f /\ f - 1 <= m /\ f - 1 # m /\ f - 1 # n /\ f - 1 < l /\ f \in Int
    BY <1>1, <2>2
  <2>5. argument(f) = cmp(f)
    BY <1>6, <2>2
  <2>6. f - 1 \in K
    BY <2>2, <2>4, <2>5
  <2>7. ASSUME NEW k \in K PROVE f - 1 <= k
    <3>1. k \in Int
      BY <1>7
    <3>2. CASE k < l
      <4>1. f <= k + 1
        BY <1>8, <2>1, <3>2
      <4>. QED
        BY <2>4, <3>1, <4>1
    <3>3. CASE ~(k < l)
      BY <1>1, <2>4, <3>1, <3>3
    <3>. QED
      BY <3>2, <3>3
  <2>8. Min(K) = f - 1
    <3>. HIDE DEF K
    <3>. QED
      BY <1>7, <2>6, <2>7, LeastIs
  <2>9. d[place[f - 1]] # RParen
    BY <1>2, <2>4
  <2>10. CompareToArguments(p, d) = cmp(f)
    <3>. HIDE DEF K
    <3>. QED
      BY <1>4, <2>4, <2>5, <2>8, <2>9
  <2>11. CompareTypes(p.params, q.params) = cmp(f)
    BY <1>5, <1>10 DEF f
  <2>. QED
    BY <2>10, <2>11 DEF d
<1>. QED
  BY <1>9, <1>10

\* A prototype and a descriptor compare as the prototypes do.
LEMMA DescriptorCompares ==
  ASSUME NEW p \in Protos, NEW q \in Protos, Ascii(p), Ascii(q)
  PROVE  CompareToDescriptor(p, MethodDescriptor(q)) = CompareProtos(p, q)
BY ReturnTypeRead, ArgumentsCompare DEF CompareToDescriptor, CompareProtos

-----------------------------------------------------------------------------
(* The classes a descriptor names.                                         *)

TypesOf(p) == Append(p.params, p.returns)

Last(p) == Len(p.params) + 1

\* The bytes before the k-th type and up to its end; what is returned comes
\* behind a parenthesis.
Begin(p, k) == IF k = Last(p) THEN Before(p, Len(p.params)) + 1 ELSE Before(p, k - 1)

Upto(p, k) == IF k = Last(p) THEN Len(MethodDescriptor(p)) ELSE Before(p, k)

IsClass(p, k) == ElementType(TypesOf(p)[k])[1] = ClassMark

LEMMA TypesLaid ==
  ASSUME NEW p \in Protos
  PROVE  LET d == MethodDescriptor(p)
             types == TypesOf(p)
         IN  /\ types \in Seq(Seq(Chars)) /\ Len(types) = Last(p) /\ Last(p) \in Nat \ {0}
             /\ d \in Seq(Chars) /\ Len(d) \in Nat
             /\ Upto(p, 0) = 1 /\ Upto(p, Last(p)) = Len(d)
             /\ d[1] = LParen
             /\ \A k \in 0 .. Last(p) : Upto(p, k) \in Nat
             /\ \A k \in 1 .. Last(p) :
                  /\ IsType(types[k]) /\ types[k] \in Seq(Chars) /\ Len(types[k]) \in Nat \ {0}
                  /\ Begin(p, k) \in Nat /\ Upto(p, k - 1) <= Begin(p, k) /\ 1 <= Begin(p, k)
                  /\ Upto(p, k) = Begin(p, k) + Len(types[k]) /\ Upto(p, k) <= Len(d)
                  /\ \A i \in 1 .. Len(types[k]) : d[Begin(p, k) + i] = types[k][i]
                  /\ \A x \in Upto(p, k - 1) + 1 .. Begin(p, k) : d[x] = RParen
<1>. DEFINE d == MethodDescriptor(p)
            m == Len(p.params)
            types == TypesOf(p)
<1>1. p.params \in Seq(Seq(Chars)) /\ m \in Nat /\ p.returns \in Seq(Chars) /\ IsType(p.returns) /\ Len(p.returns) \in Nat \ {0}
  BY ProtoTypes
<1>2. \A k \in 1 .. m : IsType(p.params[k]) /\ p.params[k] \in Seq(Chars) /\ Len(p.params[k]) \in Nat \ {0}
  BY ProtoTypes
<1>3. /\ types \in Seq(Seq(Chars)) /\ Len(types) = m + 1
      /\ (\A k \in 1 .. m : types[k] = p.params[k]) /\ types[m + 1] = p.returns
  BY <1>1, AppendProperties DEF TypesOf
<1>4. /\ d \in Seq(Chars) /\ Len(d) = Before(p, m) + 1 + Len(p.returns)
      /\ d[1] = LParen /\ d[Before(p, m) + 1] = RParen
  BY DescriptorIs
<1>5. /\ \A j \in 1 .. m : \A i \in 1 .. Len(p.params[j]) : d[Before(p, j - 1) + i] = p.params[j][i]
      /\ \A i \in 1 .. Len(p.returns) : d[(Before(p, m) + 1) + i] = p.returns[i]
  BY DescriptorIs
<1>6. /\ Before(p, 0) = 1
      /\ \A k \in 0 .. m : Before(p, k) \in Nat /\ Before(p, k) <= Before(p, m) /\ 1 <= Before(p, k)
      /\ \A k \in 1 .. m : Before(p, k) = Before(p, k - 1) + Len(p.params[k])
  <2>1. \A k \in 0 .. m : Before(p, k) \in Nat
    BY BeforeGrows
  <2>2. \A k \in 0 .. m : LengthsTo(p.params)[k] \in Nat
    BY <1>1, LengthsAdd
  <2>3. \A k \in 0 .. m : 1 <= Before(p, k)
    BY <2>2 DEF Before
  <2>. QED
    BY <2>3, BeforeGrows
<1>7. Len(d) \in Nat /\ Before(p, m) + 1 <= Len(d) /\ Before(p, m) \in Nat
  <2>1. \A x \in Nat, y \in Nat : x + 1 + y \in Nat /\ x + 1 <= x + 1 + y
    OBVIOUS
  <2>2. Before(p, m) \in Nat
    BY <1>1, <1>6
  <2>. QED
    BY <1>1, <1>4, <2>1, <2>2, Zenon
<1>8. Last(p) = m + 1
  BY DEF Last
<1>9. /\ \A k \in 0 .. m : Upto(p, k) = Before(p, k)
      /\ Upto(p, m + 1) = Len(d)
      /\ \A k \in 1 .. m : Begin(p, k) = Before(p, k - 1)
      /\ Begin(p, m + 1) = Before(p, m) + 1
  <2>1. \A k \in 0 .. m : k # m + 1
    BY <1>1
  <2>2. \A k \in 1 .. m : k # m + 1
    BY <1>1
  <2>. QED
    BY <1>8, <2>1, <2>2 DEF Upto, Begin
<1>. HIDE DEF d, m, types
<1>10. Upto(p, 0) = 1 /\ \A k \in 0 .. m + 1 : Upto(p, k) \in Nat
  <2>1. 0 \in 0 .. m /\ \A k \in 0 .. m + 1 : k \in 0 .. m \/ k = m + 1
    BY <1>1
  <2>. QED
    BY <1>6, <1>7, <1>9, <2>1
<1>11. ASSUME NEW k \in 1 .. m
       PROVE  /\ IsType(types[k]) /\ types[k] \in Seq(Chars) /\ Len(types[k]) \in Nat \ {0}
              /\ Begin(p, k) \in Nat /\ Upto(p, k - 1) <= Begin(p, k) /\ 1 <= Begin(p, k)
              /\ Upto(p, k) = Begin(p, k) + Len(types[k]) /\ Upto(p, k) <= Len(d)
              /\ \A i \in 1 .. Len(types[k]) : d[Begin(p, k) + i] = types[k][i]
              /\ \A x \in Upto(p, k - 1) + 1 .. Begin(p, k) : d[x] = RParen
  <2>1. k - 1 \in 0 .. m /\ k \in 0 .. m
    BY <1>1
  <2>2. types[k] = p.params[k] /\ Begin(p, k) = Before(p, k - 1) /\ Upto(p, k - 1) = Before(p, k - 1) /\ Upto(p, k) = Before(p, k)
    BY <1>3, <1>9, <2>1
  <2>3. Before(p, k) = Before(p, k - 1) + Len(p.params[k])
    BY <1>6
  <2>4. Before(p, k) <= Len(d)
    <3>1. Before(p, k) <= Before(p, m) /\ Before(p, k) \in Nat
      BY <1>6, <2>1
    <3>. QED
      BY <1>7, <3>1
  <2>5. Before(p, k - 1) \in Nat /\ 1 <= Before(p, k - 1)
    BY <1>6, <2>1
  <2>6. \A i \in 1 .. Len(p.params[k]) : d[Before(p, k - 1) + i] = p.params[k][i]
    BY <1>5
  <2>7. \A x \in Before(p, k - 1) + 1 .. Before(p, k - 1) : FALSE
    BY <2>5
  <2>. QED
    BY <1>2, <2>2, <2>3, <2>4, <2>5, <2>6, <2>7
<1>12. /\ IsType(types[m + 1]) /\ types[m + 1] \in Seq(Chars) /\ Len(types[m + 1]) \in Nat \ {0}
       /\ Begin(p, m + 1) \in Nat /\ Upto(p, (m + 1) - 1) <= Begin(p, m + 1) /\ 1 <= Begin(p, m + 1)
       /\ Upto(p, m + 1) = Begin(p, m + 1) + Len(types[m + 1]) /\ Upto(p, m + 1) <= Len(d)
       /\ \A i \in 1 .. Len(types[m + 1]) : d[Begin(p, m + 1) + i] = types[m + 1][i]
       /\ \A x \in Upto(p, (m + 1) - 1) + 1 .. Begin(p, m + 1) : d[x] = RParen
  <2>1. (m + 1) - 1 = m /\ m \in 0 .. m
    BY <1>1
  <2>2. Upto(p, m) = Before(p, m) /\ Upto(p, m + 1) = Len(d) /\ Begin(p, m + 1) = Before(p, m) + 1
    BY <1>9, <2>1
  <2>3. Before(p, m) \in Nat /\ Before(p, m) <= Before(p, m) + 1 /\ 1 <= Before(p, m) + 1
    BY <1>7
  <2>4. \A x \in Before(p, m) + 1 .. Before(p, m) + 1 : x = Before(p, m) + 1
    BY <2>3
  <2>5. \A x \in Before(p, m) + 1 .. Before(p, m) + 1 : d[x] = RParen
    BY <1>4, <2>4
  <2>6. Len(d) <= Len(d)
    BY <1>7
  <2>. QED
    BY <1>1, <1>3, <1>4, <1>5, <2>1, <2>2, <2>3, <2>5, <2>6
<1>13. \A k \in 1 .. m + 1 : k \in 1 .. m \/ k = m + 1
  BY <1>1
<1>14. m + 1 \in Nat \ {0}
  BY <1>1
<1>15. \A k \in 1 .. m + 1 :
         /\ IsType(types[k]) /\ types[k] \in Seq(Chars) /\ Len(types[k]) \in Nat \ {0}
         /\ Begin(p, k) \in Nat /\ Upto(p, k - 1) <= Begin(p, k) /\ 1 <= Begin(p, k)
         /\ Upto(p, k) = Begin(p, k) + Len(types[k]) /\ Upto(p, k) <= Len(d)
         /\ \A i \in 1 .. Len(types[k]) : d[Begin(p, k) + i] = types[k][i]
         /\ \A x \in Upto(p, k - 1) + 1 .. Begin(p, k) : d[x] = RParen
  BY <1>11, <1>12, <1>13
<1>. QED
  BY <1>3, <1>4, <1>7, <1>8, <1>9, <1>10, <1>14, <1>15 DEF d, types

\* From one type to the next there is no other L than that of a class.
LEMMA MarkOfType ==
  ASSUME NEW p \in Protos, NEW k \in 1 .. Last(p), NEW n, Shape(TypesOf(p)[k], n)
  PROVE  LET d == MethodDescriptor(p)
         IN  /\ IsClass(p, k) <=> TypesOf(p)[k][n + 1] = ClassMark
             /\ ~IsClass(p, k) => \A x \in Upto(p, k - 1) + 1 .. Upto(p, k) : d[x] # ClassMark
             /\ IsClass(p, k) => /\ d[Begin(p, k) + n + 1] = ClassMark
                                 /\ \A x \in Upto(p, k - 1) + 1 .. Begin(p, k) + n : d[x] # ClassMark
<1>. DEFINE d == MethodDescriptor(p)
            t == TypesOf(p)[k]
            low == Upto(p, k - 1)
            pos == Begin(p, k)
<1>1. /\ Len(t) \in Nat \ {0} /\ pos \in Nat /\ low <= pos /\ Upto(p, k) = pos + Len(t)
      /\ \A i \in 1 .. Len(t) : d[pos + i] = t[i]
      /\ \A x \in low + 1 .. pos : d[x] = RParen
  BY TypesLaid
<1>2. low \in Nat /\ k \in Nat
  <2>1. k - 1 \in 0 .. Last(p) /\ k \in Nat
    <3>1. Last(p) \in Nat
      BY TypesLaid
    <3>. QED
      BY <3>1
  <2>. QED
    BY <2>1, TypesLaid
<1>3. /\ n \in Nat /\ n + 1 <= Len(t) /\ (\A i \in 1 .. n : t[i] = ArrayMark)
      /\ ((n + 1 = Len(t) /\ t[n + 1] # ClassMark) \/ t[n + 1] = ClassMark)
  BY DEF Shape
<1>4. IsClass(p, k) <=> t[n + 1] = ClassMark
  BY ElementIs DEF IsClass
<1>5. RParen # ClassMark /\ ArrayMark # ClassMark
  BY DEF RParen, ClassMark, ArrayMark
<1>. HIDE DEF d, t, low, pos
<1>6. ASSUME NEW x \in low + 1 .. pos + n PROVE d[x] # ClassMark
  <2>1. x \in Int /\ low + 1 <= x /\ x <= pos + n
    BY <1>1, <1>2, <1>3
  <2>2. CASE x <= pos
    <3>1. x \in low + 1 .. pos
      BY <1>1, <1>2, <2>1, <2>2
    <3>. QED
      BY <1>1, <1>5, <3>1
  <2>3. CASE ~(x <= pos)
    <3>1. x - pos \in 1 .. n /\ pos + (x - pos) = x /\ x - pos \in 1 .. Len(t)
      BY <1>1, <1>3, <2>1, <2>3
    <3>2. d[x] = t[x - pos]
      BY <1>1, <3>1
    <3>. QED
      BY <1>3, <1>5, <3>1, <3>2
  <2>. QED
    BY <2>2, <2>3
<1>7. d[pos + n + 1] = t[n + 1]
  <2>1. n + 1 \in 1 .. Len(t) /\ pos + (n + 1) = pos + n + 1
    BY <1>1, <1>3
  <2>. QED
    BY <1>1, <2>1
<1>8. CASE t[n + 1] # ClassMark
  <2>1. n + 1 = Len(t)
    BY <1>3, <1>8
  <2>2. \A x \in low + 1 .. Upto(p, k) : x \in low + 1 .. pos + n \/ x = pos + n + 1
    BY <1>1, <1>2, <1>3, <2>1
  <2>3. \A x \in low + 1 .. Upto(p, k) : d[x] # ClassMark
    BY <1>6, <1>7, <1>8, <2>2
  <2>. QED
    BY <1>4, <1>8, <2>3 DEF d, t, low
<1>9. CASE t[n + 1] = ClassMark
  BY <1>4, <1>6, <1>7, <1>9 DEF d, t, low, pos
<1>. QED
  BY <1>8, <1>9

\* Where no class is, no L is.
LEMMA NoMarkBetween ==
  ASSUME NEW p \in Protos, NEW j \in 0 .. Last(p), NEW k \in 0 .. Last(p), j <= k,
         \A i \in j + 1 .. k : ~IsClass(p, i)
  PROVE  Upto(p, j) <= Upto(p, k) /\ \A x \in Upto(p, j) + 1 .. Upto(p, k) : MethodDescriptor(p)[x] # ClassMark
<1>. DEFINE d == MethodDescriptor(p)
            Free(n) == n <= k - j => /\ Upto(p, j) <= Upto(p, j + n)
                                     /\ \A x \in Upto(p, j) + 1 .. Upto(p, j + n) : d[x] # ClassMark
<1>1. Last(p) \in Nat /\ \A i \in 0 .. Last(p) : Upto(p, i) \in Nat
  BY TypesLaid
<1>2. j \in Nat /\ k \in Nat /\ k - j \in Nat /\ j + 0 = j /\ j + (k - j) = k
  BY <1>1
<1>3. Free(0)
  <2>1. Upto(p, j) \in Nat
    BY <1>1
  <2>2. \A x \in Upto(p, j) + 1 .. Upto(p, j) : FALSE
    BY <2>1
  <2>. QED
    BY <1>2, <2>1, <2>2
<1>4. ASSUME NEW n \in 0 .. (k - j) - 1, Free(n) PROVE Free(n + 1)
  <2>. DEFINE i == (j + n) + 1
  <2>1. i \in 1 .. Last(p) /\ i \in j + 1 .. k /\ i - 1 = j + n /\ j + n \in 0 .. Last(p) /\ i \in 0 .. Last(p) /\ j + (n + 1) = i
        /\ n <= k - j
    BY <1>1, <1>2
  <2>. HIDE DEF i
  <2>2. ~IsClass(p, i)
    BY <2>1
  <2>3. IsType(TypesOf(p)[i]) /\ Upto(p, i - 1) <= Begin(p, i) /\ Begin(p, i) \in Nat
        /\ Upto(p, i) = Begin(p, i) + Len(TypesOf(p)[i]) /\ Len(TypesOf(p)[i]) \in Nat
    BY <2>1, TypesLaid
  <2>4. PICK s \in Nat : Shape(TypesOf(p)[i], s)
    BY <2>3, TypeShape
  <2>5. \A x \in Upto(p, i - 1) + 1 .. Upto(p, i) : d[x] # ClassMark
    BY <2>1, <2>2, <2>4, MarkOfType
  <2>6. Upto(p, j) <= Upto(p, j + n) /\ \A x \in Upto(p, j) + 1 .. Upto(p, j + n) : d[x] # ClassMark
    BY <1>4, <2>1
  <2>7. Upto(p, j) \in Nat /\ Upto(p, j + n) \in Nat /\ Upto(p, i) \in Nat
    BY <1>1, <2>1
  <2>8. Upto(p, j + n) <= Upto(p, i)
    <3>1. Upto(p, j + n) <= Begin(p, i)
      BY <2>1, <2>3
    <3>2. Begin(p, i) <= Upto(p, i)
      BY <2>3
    <3>. QED
      BY <2>3, <2>7, <3>1, <3>2
  <2>9. \A x \in Upto(p, j) + 1 .. Upto(p, i) : x \in Upto(p, j) + 1 .. Upto(p, j + n) \/ x \in Upto(p, j + n) + 1 .. Upto(p, i)
    BY <2>7
  <2>10. \A x \in Upto(p, j) + 1 .. Upto(p, i) : d[x] # ClassMark
    BY <2>1, <2>5, <2>6, <2>9
  <2>11. Upto(p, j) <= Upto(p, i)
    BY <2>6, <2>7, <2>8
  <2>. QED
    BY <2>1, <2>10, <2>11
<1>5. Free(k - j)
  <2>1. 0 \in { n \in Nat : Free(n) } /\ \A n \in 0 .. (k - j) - 1 : n \in { x \in Nat : Free(x) } => n + 1 \in { x \in Nat : Free(x) }
    <3>1. \A n \in 0 .. (k - j) - 1 : n + 1 \in Nat
      OBVIOUS
    <3>. HIDE DEF Free
    <3>. QED
      BY <1>3, <1>4, <3>1
  <2>2. k - j \in 0 .. k - j
    BY <1>2
  <2>. HIDE DEF Free
  <2>3. k - j \in { n \in Nat : Free(n) }
    BY <1>2, <2>1, <2>2, RangeInduction
  <2>. QED
    BY <2>3
<1>6. k - j <= k - j
  BY <1>2
<1>. QED
  BY <1>2, <1>5, <1>6

\* The end of a type is the same slice of the type and of what it stands in.
LEMMA SameSlice ==
  ASSUME NEW d \in Seq(Chars), NEW t \in Seq(Chars), NEW b \in Nat, NEW x \in Nat, 1 <= x, x <= Len(t),
         b + Len(t) <= Len(d), \A i \in 1 .. Len(t) : d[b + i] = t[i]
  PROVE  SubSeq(d, b + x, b + Len(t)) = SubSeq(t, x, Len(t))
<1>. DEFINE l == Len(t)
            r == SubSeq(d, b + x, b + l)
            u == SubSeq(t, x, l)
<1>1. l \in Nat /\ Len(d) \in Nat /\ x <= l /\ b + l <= Len(d) /\ \A i \in 1 .. l : t[i] \in Chars /\ d[b + i] = t[i]
  BY LenProperties, ElementOfSeq
<1>2. \A i \in 1 .. Len(d) : d[i] \in Chars
  BY ElementOfSeq
<1>. HIDE DEF l
<1>3. b + x \in Int /\ b + l \in Int /\ x \in Int /\ l \in Int
  BY <1>1
<1>4. \A i \in b + x .. b + l : d[i] \in Chars
  <2>1. \A i \in b + x .. b + l : i \in 1 .. Len(d)
    BY <1>1
  <2>. QED
    BY <1>2, <2>1
<1>5. \A i \in x .. l : t[i] \in Chars
  <2>1. \A i \in x .. l : i \in 1 .. l
    BY <1>1
  <2>. QED
    BY <1>1, <2>1
<1>6. /\ r \in Seq(Chars)
      /\ Len(r) = IF b + x <= b + l THEN (b + l) - (b + x) + 1 ELSE 0
      /\ \A i \in 1 .. (b + l) - (b + x) + 1 : r[i] = d[(b + x) + i - 1]
  BY <1>3, <1>4, SubSeqProperties
<1>7. /\ u \in Seq(Chars)
      /\ Len(u) = IF x <= l THEN l - x + 1 ELSE 0
      /\ \A i \in 1 .. l - x + 1 : u[i] = t[x + i - 1]
  <2>1. x \in Int /\ l \in Int
    BY <1>3
  <2>2. /\ SubSeq(t, x, l) \in Seq(Chars)
        /\ Len(SubSeq(t, x, l)) = IF x <= l THEN l - x + 1 ELSE 0
        /\ \A i \in 1 .. l - x + 1 : SubSeq(t, x, l)[i] = t[x + i - 1]
    <3>. HIDE DEF u, r
    <3>. QED
      BY <1>5, <2>1, SubSeqProperties
  <2>. QED
    BY <2>2
<1>8. /\ b + x <= b + l /\ (b + l) - (b + x) + 1 = l - x + 1
      /\ \A i \in 1 .. l - x + 1 : (b + x) + i - 1 = b + (x + i - 1) /\ x + i - 1 \in 1 .. l
  BY <1>1
<1>9. \A i \in 1 .. l - x + 1 : r[i] = u[i]
  <2>. HIDE DEF r, u
  <2>. QED
    BY <1>1, <1>6, <1>7, <1>8
<1>10. Len(r) = Len(u) /\ Len(u) = l - x + 1
  BY <1>1, <1>6, <1>7, <1>8
<1>11. r = u
  <2>. HIDE DEF r, u
  <2>. QED
    BY <1>6, <1>7, <1>9, <1>10, SeqEqual
<1>. QED
  BY <1>11 DEF l, r, u

\* The first L and the first semicolon behind the types before a class are its
\* own.
LEMMA ClassFound ==
  ASSUME NEW p \in Protos, NEW i \in 1 .. Last(p), IsClass(p, i), NEW pos \in Nat, pos <= Upto(p, i - 1),
         \A x \in pos + 1 .. Upto(p, i - 1) : MethodDescriptor(p)[x] # ClassMark
  PROVE  LET d == MethodDescriptor(p)
         IN  /\ MarksAfter(d, pos) # {}
             /\ NameEnd(d, pos) = Upto(p, i)
             /\ SubSeq(d, Min(MarksAfter(d, pos)), NameEnd(d, pos)) = ElementType(TypesOf(p)[i])
<1>. DEFINE d == MethodDescriptor(p)
            t == TypesOf(p)[i]
            b == Begin(p, i)
            low == Upto(p, i - 1)
            e == Upto(p, i)
<1>1. /\ d \in Seq(Chars) /\ Len(d) \in Nat
      /\ IsType(t) /\ t \in Seq(Chars) /\ Len(t) \in Nat \ {0}
      /\ b \in Nat /\ low <= b /\ e = b + Len(t) /\ e <= Len(d)
      /\ \A x \in 1 .. Len(t) : d[b + x] = t[x]
  BY TypesLaid
<1>2. low \in Nat
  <2>1. i - 1 \in 0 .. Last(p)
    <3>1. Last(p) \in Nat
      BY TypesLaid
    <3>. QED
      BY <3>1
  <2>. QED
    BY <2>1, TypesLaid
<1>3. PICK n \in Nat : Shape(t, n)
  BY <1>1, TypeShape
<1>4. /\ t[n + 1] = ClassMark /\ d[b + n + 1] = ClassMark
      /\ \A x \in low + 1 .. b + n : d[x] # ClassMark
      /\ ElementType(t) = SubSeq(t, n + 1, Len(t))
  <2>1. ElementType(t) = SubSeq(t, n + 1, Len(t))
    BY <1>3, ElementIs
  <2>2. IsClass(p, i)
    OBVIOUS
  <2>. QED
    BY <1>3, <2>1, <2>2, MarkOfType
<1>5. pos <= low /\ \A x \in pos + 1 .. low : d[x] # ClassMark
  OBVIOUS
<1>6. /\ n + 1 <= Len(t) /\ n + 3 <= Len(t) /\ t[Len(t)] = Semicolon
      /\ \A x \in n + 2 .. Len(t) - 1 : t[x] # Semicolon
  BY <1>3, <1>4 DEF Shape
<1>. HIDE DEF d, t, b, low, e
<1>. DEFINE m == b + n + 1
            S == PlacesOf(Semicolon, d, m + 2)
<1>7. m \in Nat /\ m \in pos + 1 .. Len(d) /\ m = b + (n + 1)
  <2>1. Len(t) \in Nat /\ Len(d) \in Nat /\ b \in Nat /\ low <= b /\ b + Len(t) <= Len(d)
    BY <1>1
  <2>2. pos <= b /\ n + 1 <= Len(t)
    BY <1>2, <1>5, <1>6, <2>1
  <2>3. \A v \in Nat, w \in Nat, x \in Nat, y \in Nat, z \in Nat :
          (v <= x /\ w + 1 <= y /\ x + y <= z) =>
            /\ x + w + 1 \in Nat /\ x + w + 1 = x + (w + 1)
            /\ x + w + 1 \in v + 1 .. z
    OBVIOUS
  <2>. QED
    BY <2>1, <2>2, <2>3, Zenon
<1>8. m \in MarksAfter(d, pos)
  BY <1>4, <1>7 DEF MarksAfter, PlacesOf
<1>9. ASSUME NEW y \in MarksAfter(d, pos) PROVE m <= y
  <2>1. y \in pos + 1 .. Len(d) /\ d[y] = ClassMark
    BY DEF MarksAfter, PlacesOf
  <2>2. ~(y \in pos + 1 .. low) /\ ~(y \in low + 1 .. b + n)
    BY <1>4, <1>5, <2>1
  <2>. QED
    BY <1>1, <1>2, <2>1, <2>2
<1>10. Min(MarksAfter(d, pos)) = m
  <2>1. MarksAfter(d, pos) \in SUBSET Int
    BY <1>1 DEF MarksAfter, PlacesOf
  <2>. HIDE DEF m
  <2>. QED
    BY <1>8, <1>9, <2>1, LeastIs
<1>11. e \in Nat /\ e \in m + 2 .. Len(d) /\ d[e] = Semicolon
  <2>1. Len(t) \in 1 .. Len(t)
    BY <1>1
  <2>2. d[e] = t[Len(t)]
    BY <1>1, <2>1
  <2>. QED
    BY <1>1, <1>6, <2>2
<1>12. e \in S
  BY <1>11 DEF PlacesOf
<1>13. ASSUME NEW y \in S PROVE e <= y
  <2>1. y \in m + 2 .. Len(d) /\ d[y] = Semicolon
    BY DEF PlacesOf
  <2>2. SUFFICES ASSUME y < e PROVE FALSE
    BY <1>1, <1>11, <2>1
  <2>3. y - b \in n + 2 .. Len(t) - 1 /\ y - b \in 1 .. Len(t) /\ b + (y - b) = y
    BY <1>1, <1>7, <2>1, <2>2
  <2>4. d[y] = t[y - b]
    BY <1>1, <2>3
  <2>. QED
    BY <1>6, <2>1, <2>3, <2>4
<1>14. Min(S) = e
  <2>1. S \in SUBSET Int
    BY <1>1, <1>7 DEF PlacesOf
  <2>. HIDE DEF S
  <2>. QED
    BY <1>12, <1>13, <2>1, LeastIs
<1>15. NameEnd(d, pos) = e
  BY <1>10, <1>14 DEF NameEnd
<1>16. SubSeq(d, b + (n + 1), b + Len(t)) = SubSeq(t, n + 1, Len(t))
  <2>1. n + 1 \in Nat /\ 1 <= n + 1 /\ n + 1 <= Len(t) /\ b + Len(t) <= Len(d)
    BY <1>1, <1>6
  <2>. QED
    BY <1>1, <2>1, SameSlice
<1>17. MarksAfter(d, pos) # {}
  BY <1>8
<1>18. SubSeq(d, Min(MarksAfter(d, pos)), NameEnd(d, pos)) = ElementType(t)
  <2>. HIDE DEF m
  <2>1. Min(MarksAfter(d, pos)) = b + (n + 1) /\ NameEnd(d, pos) = b + Len(t)
    BY <1>1, <1>7, <1>10, <1>15
  <2>. QED
    BY <1>4, <1>16, <2>1
<1>. QED
  BY <1>15, <1>17, <1>18 DEF d, t, e

\* The search stands behind the j-th type, or before all of them.
StandsAt(p, pos, j) == pos = Upto(p, j) \/ (j = 0 /\ pos = 0)

\* From there it finds the next class, if there is one.
LEMMA NextClass ==
  ASSUME NEW p \in Protos, NEW j \in 0 .. Last(p), NEW pos, StandsAt(p, pos, j)
  PROVE  LET d == MethodDescriptor(p)
         IN  /\ pos \in Nat
             /\ (\A k \in j + 1 .. Last(p) : ~IsClass(p, k)) => MarksAfter(d, pos) = {}
             /\ \A i \in j + 1 .. Last(p) :
                  (IsClass(p, i) /\ \A k \in j + 1 .. i - 1 : ~IsClass(p, k)) =>
                    /\ MarksAfter(d, pos) # {}
                    /\ NameEnd(d, pos) = Upto(p, i)
                    /\ SubSeq(d, Min(MarksAfter(d, pos)), NameEnd(d, pos)) = ElementType(TypesOf(p)[i])
<1>. DEFINE d == MethodDescriptor(p)
            low == Upto(p, j)
            L == Last(p)
<1>1. /\ d \in Seq(Chars) /\ Len(d) \in Nat /\ d[1] = LParen
      /\ L \in Nat /\ Upto(p, 0) = 1 /\ Upto(p, L) = Len(d)
      /\ \A k \in 0 .. L : Upto(p, k) \in Nat
  BY TypesLaid
<1>2. j \in Nat /\ low \in Nat /\ L \in 0 .. L /\ j <= L
  BY <1>1
<1>3. pos \in Nat /\ pos <= low /\ \A x \in pos + 1 .. low : d[x] # ClassMark
  <2>1. CASE pos = low
    <3>1. \A x \in low + 1 .. low : FALSE
      BY <1>2
    <3>. HIDE DEF low, d
    <3>. QED
      BY <1>2, <2>1, <3>1
  <2>2. CASE j = 0 /\ pos = 0
    <3>1. low = 1
      BY <1>1, <2>2
    <3>2. \A x \in 0 + 1 .. 1 : x = 1
      OBVIOUS
    <3>3. LParen # ClassMark
      BY DEF LParen, ClassMark
    <3>. HIDE DEF low, d
    <3>. QED
      BY <1>1, <2>2, <3>1, <3>2, <3>3
  <2>. QED
    BY <2>1, <2>2 DEF StandsAt
<1>4. ASSUME NEW k \in 0 .. L, j <= k, \A x \in j + 1 .. k : ~IsClass(p, x)
      PROVE  pos <= Upto(p, k) /\ \A x \in pos + 1 .. Upto(p, k) : d[x] # ClassMark
  <2>1. low <= Upto(p, k) /\ \A x \in low + 1 .. Upto(p, k) : d[x] # ClassMark
    BY <1>4, NoMarkBetween
  <2>2. Upto(p, k) \in Nat
    BY <1>1
  <2>. HIDE DEF low, d
  <2>3. \A x \in pos + 1 .. Upto(p, k) : x \in pos + 1 .. low \/ x \in low + 1 .. Upto(p, k)
    BY <1>2, <1>3, <2>1, <2>2
  <2>4. pos <= Upto(p, k)
    BY <1>2, <1>3, <2>1, <2>2
  <2>. QED
    BY <1>3, <2>1, <2>3, <2>4
<1>5. ASSUME \A k \in j + 1 .. L : ~IsClass(p, k) PROVE MarksAfter(d, pos) = {}
  <2>1. \A x \in pos + 1 .. Len(d) : d[x] # ClassMark
    BY <1>1, <1>2, <1>4, <1>5
  <2>. HIDE DEF d
  <2>. QED
    BY <2>1 DEF MarksAfter, PlacesOf
<1>6. ASSUME NEW i \in j + 1 .. L, IsClass(p, i), \A k \in j + 1 .. i - 1 : ~IsClass(p, k)
      PROVE  /\ MarksAfter(d, pos) # {}
             /\ NameEnd(d, pos) = Upto(p, i)
             /\ SubSeq(d, Min(MarksAfter(d, pos)), NameEnd(d, pos)) = ElementType(TypesOf(p)[i])
  <2>1. i - 1 \in 0 .. L /\ j <= i - 1 /\ i \in 1 .. L
    BY <1>1, <1>2
  <2>2. pos <= Upto(p, i - 1) /\ \A x \in pos + 1 .. Upto(p, i - 1) : d[x] # ClassMark
    BY <1>4, <1>6, <2>1
  <2>. QED
    BY <1>3, <1>6, <2>1, <2>2, ClassFound
<1>. QED
  BY <1>3, <1>5, <1>6 DEF d, L

\* The next class behind the j-th type, if there is one.
LEMMA LeastClass ==
  ASSUME NEW p \in Protos, NEW j \in 0 .. Last(p), ~ \A k \in j + 1 .. Last(p) : ~IsClass(p, k)
  PROVE  \E i \in j + 1 .. Last(p) : IsClass(p, i) /\ \A k \in j + 1 .. i - 1 : ~IsClass(p, k)
<1>. DEFINE C == { k \in j + 1 .. Last(p) : IsClass(p, k) }
            i == Min(C)
<1>1. Last(p) \in Nat /\ j \in Nat
  <2>1. Last(p) \in Nat
    BY TypesLaid
  <2>. QED
    BY <2>1
<1>2. C # {} /\ C \in SUBSET Int /\ j \in Int /\ \A y \in C : j <= y
  BY <1>1
<1>3. i \in C /\ \A y \in C : i <= y
  <2>. HIDE DEF C
  <2>. QED
    BY <1>2, MinIsLeast
<1>. HIDE DEF i
<1>4. ASSUME NEW k \in j + 1 .. i - 1 PROVE ~IsClass(p, k)
  <2>1. i \in j + 1 .. Last(p) /\ k < i /\ k \in j + 1 .. Last(p)
    BY <1>1, <1>3
  <2>2. ~(i <= k)
    BY <1>1, <2>1
  <2>. QED
    BY <1>3, <2>1, <2>2
<1>. QED
  BY <1>3, <1>4

\* NamesEnd goes from each class to the next.
LEMMA EndsFollow ==
  ASSUME NEW p \in Protos
  PROVE  LET d == MethodDescriptor(p)
             end == NamesEnd(d)
         IN  /\ end[0] = 0
             /\ \A k \in 1 .. Len(d) :
                  end[k] = IF MarksAfter(d, end[k - 1]) = {} THEN end[k - 1] ELSE NameEnd(d, end[k - 1])
<1>. DEFINE d == MethodDescriptor(p)
            m == Len(d)
            Next(pos) == IF MarksAfter(d, pos) = {} THEN pos ELSE NameEnd(d, pos)
            Made(f) == f = [ k \in 0 .. m |-> IF k = 0 THEN 0
                                              ELSE IF MarksAfter(d, f[k - 1]) = {} THEN f[k - 1] ELSE NameEnd(d, f[k - 1]) ]
            end == CHOOSE f : Made(f)
            V == { pos \in Nat : \E j \in 0 .. Last(p) : StandsAt(p, pos, j) }
            turn == [ x \in V \X (1 .. m) |-> Next(x[1]) ]
<1>1. m \in Nat /\ Last(p) \in Nat
  BY TypesLaid
<1>2. end = NamesEnd(d)
  BY DEF NamesEnd
<1>3. ASSUME NEW pos \in V PROVE Next(pos) \in V
  <2>1. PICK j \in 0 .. Last(p) : StandsAt(p, pos, j)
    OBVIOUS
  <2>2. CASE \A k \in j + 1 .. Last(p) : ~IsClass(p, k)
    <3>1. MarksAfter(d, pos) = {}
      BY <2>1, <2>2, NextClass
    <3>. HIDE DEF d
    <3>. QED
      BY <3>1
  <2>3. CASE ~ \A k \in j + 1 .. Last(p) : ~IsClass(p, k)
    <3>1. PICK i \in j + 1 .. Last(p) : IsClass(p, i) /\ \A k \in j + 1 .. i - 1 : ~IsClass(p, k)
      BY <2>3, LeastClass
    <3>2. MarksAfter(d, pos) # {} /\ NameEnd(d, pos) = Upto(p, i)
      BY <2>1, <3>1, NextClass
    <3>3. i \in 0 .. Last(p)
      BY <1>1
    <3>4. Upto(p, i) \in Nat /\ StandsAt(p, Upto(p, i), i)
      BY <3>3, TypesLaid DEF StandsAt
    <3>. HIDE DEF d
    <3>. QED
      BY <3>2, <3>3, <3>4
  <2>. QED
    BY <2>2, <2>3
<1>4. 0 \in V
  <2>1. 0 \in 0 .. Last(p) /\ StandsAt(p, 0, 0) /\ 0 \in Nat
    BY <1>1 DEF StandsAt
  <2>. QED
    BY <2>1
<1>. HIDE DEF d, m, V, Next
<1>5. turn \in [V \X (1 .. m) -> V] /\ \A x \in V, k \in 1 .. m : turn[<<x, k>>] = Next(x)
  BY <1>3
<1>. HIDE DEF turn
<1>6. PICK f \in [0 .. m -> V] : Loop(f, m, 0, turn)
  BY <1>1, <1>4, <1>5, LoopExists
<1>7. Made(f)
  <2>1. f = [ k \in 0 .. m |-> IF k = 0 THEN 0 ELSE turn[<<f[k - 1], k>>] ]
    BY <1>6 DEF Loop
  <2>2. \A k \in 0 .. m : k # 0 => k \in 1 .. m /\ k - 1 \in 0 .. m
    BY <1>1
  <2>3. \A k \in 0 .. m : k # 0 => turn[<<f[k - 1], k>>] = Next(f[k - 1])
    BY <1>5, <2>2
  <2>4. f = [ k \in 0 .. m |-> IF k = 0 THEN 0 ELSE Next(f[k - 1]) ]
    BY <2>1, <2>3
  <2>. QED
    BY <2>4 DEF Next
<1>8. Made(end)
  <2>. HIDE DEF Made
  <2>. QED
    BY <1>7
<1>9. \A k \in 0 .. m : end[k] = IF k = 0 THEN 0
                                 ELSE IF MarksAfter(d, end[k - 1]) = {} THEN end[k - 1] ELSE NameEnd(d, end[k - 1])
  <2>. HIDE DEF end
  <2>. QED
    BY <1>8
<1>. HIDE DEF end, Made
<1>10. 0 \in 0 .. m /\ \A k \in 1 .. m : k \in 0 .. m /\ k # 0
  BY <1>1
<1>11. end[0] = 0
  BY <1>9, <1>10
<1>12. \A k \in 1 .. m : end[k] = IF MarksAfter(d, end[k - 1]) = {} THEN end[k - 1] ELSE NameEnd(d, end[k - 1])
  BY <1>9, <1>10
<1>. QED
  BY <1>2, <1>11, <1>12 DEF d, m

ClassName(type) == ObjectName(ElementType(type))

\* ClassesTo appends the names of classes, and no other.
LEMMA ClassesAdd ==
  ASSUME NEW types \in Seq(Seq(Chars))
  PROVE  LET names == ClassesTo(types)
             V == { ClassName(types[k]) : k \in 1 .. Len(types) }
         IN  /\ names[0] = << >>
             /\ \A k \in 0 .. Len(types) : names[k] \in Seq(V)
             /\ \A k \in 1 .. Len(types) :
                  names[k] = IF ElementType(types[k])[1] # ClassMark THEN names[k - 1]
                             ELSE Append(names[k - 1], ClassName(types[k]))
<1>. DEFINE m == Len(types)
            V == { ClassName(types[k]) : k \in 1 .. m }
            Other(k) == ElementType(types[k])[1] # ClassMark
            Made(f) == f = [ k \in 0 .. m |-> IF k = 0 THEN << >>
                                              ELSE IF ElementType(types[k])[1] # ClassMark THEN f[k - 1]
                                              ELSE Append(f[k - 1], ObjectName(ElementType(types[k]))) ]
            names == CHOOSE f : Made(f)
            Added(x, k) == IF Other(k) THEN x ELSE Append(x, ClassName(types[k]))
            turn == [ x \in Seq(V) \X (1 .. m) |-> Added(x[1], x[2]) ]
<1>1. m \in Nat /\ << >> \in Seq(V)
  BY LenProperties, EmptySeq
<1>2. names = ClassesTo(types)
  BY DEF ClassesTo
<1>3. \A x \in Seq(V), k \in 1 .. m : Added(x, k) \in Seq(V)
  <2>1. \A k \in 1 .. m : ClassName(types[k]) \in V
    OBVIOUS
  <2>. HIDE DEF V
  <2>. QED
    BY <2>1, AppendProperties
<1>. HIDE DEF m, V, Added
<1>4. turn \in [Seq(V) \X (1 .. m) -> Seq(V)] /\ \A x \in Seq(V), k \in 1 .. m : turn[<<x, k>>] = Added(x, k)
  BY <1>3
<1>. HIDE DEF turn
<1>5. PICK f \in [0 .. m -> Seq(V)] : Loop(f, m, << >>, turn)
  BY <1>1, <1>4, LoopExists
<1>6. Made(f)
  <2>1. f = [ k \in 0 .. m |-> IF k = 0 THEN << >> ELSE turn[<<f[k - 1], k>>] ]
    BY <1>5 DEF Loop
  <2>2. \A k \in 0 .. m : k # 0 => k \in 1 .. m /\ k - 1 \in 0 .. m
    BY <1>1
  <2>3. \A k \in 0 .. m : k # 0 => turn[<<f[k - 1], k>>] = Added(f[k - 1], k)
    BY <1>4, <2>2
  <2>4. f = [ k \in 0 .. m |-> IF k = 0 THEN << >> ELSE Added(f[k - 1], k) ]
    BY <2>1, <2>3
  <2>. QED
    BY <2>4 DEF Added, ClassName
<1>7. Made(names)
  <2>. HIDE DEF Made
  <2>. QED
    BY <1>6
<1>8. \A k \in 0 .. m : names[k] = IF k = 0 THEN << >> ELSE Added(names[k - 1], k)
  <2>. HIDE DEF names
  <2>. QED
    BY <1>7 DEF Added, ClassName
<1>. HIDE DEF names, Made
<1>9. 0 \in 0 .. m /\ \A k \in 0 .. m - 1 : k + 1 \in 1 .. m /\ k \in 0 .. m /\ k + 1 \in 0 .. m /\ k + 1 # 0 /\ (k + 1) - 1 = k
  BY <1>1
<1>10. \A k \in 0 .. m : k \in { x \in 0 .. m : names[x] \in Seq(V) }
  <2>1. 0 \in { x \in 0 .. m : names[x] \in Seq(V) }
    BY <1>1, <1>8, <1>9
  <2>2. ASSUME NEW k \in 0 .. m - 1, names[k] \in Seq(V) PROVE names[k + 1] \in Seq(V)
    <3>1. names[k + 1] = Added(names[k], k + 1)
      BY <1>8, <1>9
    <3>. QED
      BY <1>3, <1>9, <2>2, <3>1
  <2>. QED
    BY <1>1, <1>9, <2>1, <2>2, RangeInduction
<1>11. \A k \in 1 .. m : k \in 0 .. m /\ k # 0
  BY <1>1
<1>12. names[0] = << >>
  BY <1>8, <1>9
<1>13. \A k \in 1 .. m : names[k] = IF ElementType(types[k])[1] # ClassMark THEN names[k - 1]
                                   ELSE Append(names[k - 1], ClassName(types[k]))
  BY <1>8, <1>11 DEF Added
<1>. QED
  BY <1>2, <1>10, <1>12, <1>13 DEF m, V

\* No type is empty.
LEMMA TypesTakeRoom ==
  ASSUME NEW p \in Protos
  PROVE  Last(p) < Len(MethodDescriptor(p))
<1>. DEFINE L == Last(p)
<1>1. L \in Nat /\ Upto(p, 0) = 1 /\ Upto(p, L) = Len(MethodDescriptor(p)) /\ \A k \in 0 .. L : Upto(p, k) \in Nat
  BY TypesLaid
<1>2. \A k \in 0 .. L : k \in { x \in 0 .. L : x < Upto(p, x) }
  <2>1. 0 \in { x \in 0 .. L : x < Upto(p, x) }
    BY <1>1
  <2>2. ASSUME NEW k \in 0 .. L - 1, k < Upto(p, k) PROVE k + 1 \in 0 .. L /\ k + 1 < Upto(p, k + 1)
    <3>1. k + 1 \in 1 .. L /\ k + 1 \in 0 .. L /\ (k + 1) - 1 = k /\ k \in 0 .. L
      BY <1>1
    <3>2. /\ Upto(p, (k + 1) - 1) <= Begin(p, k + 1) /\ Begin(p, k + 1) \in Nat
          /\ Upto(p, k + 1) = Begin(p, k + 1) + Len(TypesOf(p)[k + 1]) /\ Len(TypesOf(p)[k + 1]) \in Nat \ {0}
      BY <3>1, TypesLaid
    <3>3. Upto(p, k) \in Nat /\ Upto(p, k) <= Begin(p, k + 1)
      BY <1>1, <3>1, <3>2
    <3>4. \A x \in Nat, y \in Nat, b \in Nat, n \in Nat \ {0} : x < y /\ y <= b => x + 1 < b + n
      OBVIOUS
    <3>. QED
      BY <2>2, <3>1, <3>2, <3>3, <3>4
  <2>. QED
    BY <1>1, <2>1, <2>2, RangeInduction
<1>3. L \in 0 .. L
  BY <1>1
<1>. QED
  BY <1>1, <1>2, <1>3

\* The signature made of a descriptor names the classes that the descriptor was
\* made of.
LEMMA ClassesRead ==
  ASSUME NEW p \in Protos
  PROVE  Signature(MethodDescriptor(p)) = ClassesTo(TypesOf(p))[Last(p)]
<1>. DEFINE d == MethodDescriptor(p)
            L == Last(p)
            types == TypesOf(p)
            end == NamesEnd(d)
            names == ClassesTo(types)
            V == { ClassName(types[k]) : k \in 1 .. Len(types) }
            c(j) == Len(names[j])
            Found(k) == ObjectName(SubSeq(d, Min(MarksAfter(d, end[k - 1])), end[k]))
            Passed(i, j) == StandsAt(p, end[c(j)], i) /\ \A k \in i + 1 .. j : ~IsClass(p, k)
            Read(j) == /\ c(j) <= j
                       /\ \E i \in 0 .. j : Passed(i, j)
                       /\ \A k \in 0 .. c(j) - 1 : MarksAfter(d, end[k]) # {}
                       /\ \A k \in 1 .. c(j) : names[j][k] = Found(k)
<1>1. L \in Nat /\ Len(d) \in Nat /\ L < Len(d) /\ types \in Seq(Seq(Chars)) /\ Len(types) = L
  BY TypesLaid, TypesTakeRoom
<1>2. /\ end[0] = 0
      /\ \A k \in 1 .. Len(d) :
           end[k] = IF MarksAfter(d, end[k - 1]) = {} THEN end[k - 1] ELSE NameEnd(d, end[k - 1])
  BY EndsFollow
<1>3. /\ names[0] = << >>
      /\ \A k \in 0 .. L : names[k] \in Seq(V)
      /\ \A k \in 1 .. L : names[k] = IF ElementType(types[k])[1] # ClassMark THEN names[k - 1]
                                      ELSE Append(names[k - 1], ClassName(types[k]))
  BY <1>1, ClassesAdd
<1>4. \A k \in 1 .. L : IsClass(p, k) <=> ElementType(types[k])[1] = ClassMark
  BY DEF IsClass
<1>. HIDE DEF d, L, types, end, names, V
<1>5. \A k \in 0 .. L : c(k) \in Nat
  BY <1>3, LenProperties
<1>6. Read(0)
  <2>1. c(0) = 0
    BY <1>3, EmptySeq
  <2>2. Passed(0, 0)
    <3>1. \A k \in 0 + 1 .. 0 : FALSE
      OBVIOUS
    <3>. QED
      BY <1>2, <2>1, <3>1 DEF StandsAt
  <2>. HIDE DEF Found, Passed, c
  <2>. QED
    BY <2>1, <2>2
<1>7. ASSUME NEW j \in 0 .. L - 1, Read(j) PROVE Read(j + 1)
  <2>1. j + 1 \in 1 .. L /\ (j + 1) - 1 = j /\ j \in 0 .. L /\ j \in Nat /\ j + 1 \in 0 .. L /\ 0 .. j \subseteq 0 .. L
    BY <1>1
  <2>2. c(j) <= j
    BY <1>7
  <2>3. PICK i \in 0 .. j : Passed(i, j)
    BY <1>7
  <2>4. \A k \in 0 .. c(j) - 1 : MarksAfter(d, end[k]) # {}
    BY <1>7
  <2>5. \A k \in 1 .. c(j) : names[j][k] = Found(k)
    BY <1>7
  <2>6. c(j) \in Nat /\ names[j] \in Seq(V)
    BY <1>3, <1>5, <2>1
  <2>7. StandsAt(p, end[c(j)], i) /\ \A k \in i + 1 .. j : ~IsClass(p, k)
    BY <2>3
  <2>8. CASE ~IsClass(p, j + 1)
    <3>1. names[j + 1] = names[j]
      BY <1>3, <1>4, <2>1, <2>8
    <3>2. c(j + 1) = c(j)
      BY <3>1
    <3>3. \A k \in i + 1 .. j + 1 : k \in i + 1 .. j \/ k = j + 1
      BY <2>1
    <3>4. \A k \in i + 1 .. j + 1 : ~IsClass(p, k)
      BY <2>7, <2>8, <3>3
    <3>. HIDE DEF c
    <3>5. Passed(i, j + 1)
      BY <2>7, <3>2, <3>4
    <3>6. i \in 0 .. j + 1 /\ c(j) <= j + 1
      BY <2>1, <2>2, <2>6
    <3>. HIDE DEF Passed, Found
    <3>. QED
      BY <2>4, <2>5, <3>1, <3>2, <3>5, <3>6
  <2>9. CASE IsClass(p, j + 1)
    <3>1. names[j + 1] = Append(names[j], ClassName(types[j + 1])) /\ ClassName(types[j + 1]) \in V
      <4>1. ElementType(types[j + 1])[1] = ClassMark
        BY <1>4, <2>1, <2>9
      <4>. QED
        BY <1>1, <1>3, <2>1, <4>1 DEF V
    <3>2. /\ c(j + 1) = c(j) + 1
          /\ \A k \in 1 .. c(j) : names[j + 1][k] = names[j][k]
          /\ names[j + 1][c(j) + 1] = ClassName(types[j + 1])
      BY <2>6, <3>1, AppendProperties
    <3>. HIDE DEF c
    <3>3. i \in 0 .. L /\ j + 1 \in i + 1 .. L /\ (j + 1) - 1 = j
      BY <1>1, <2>1
    <3>4. /\ MarksAfter(d, end[c(j)]) # {}
          /\ NameEnd(d, end[c(j)]) = Upto(p, j + 1)
          /\ SubSeq(d, Min(MarksAfter(d, end[c(j)])), NameEnd(d, end[c(j)])) = ElementType(types[j + 1])
      <4>1. \A k \in i + 1 .. (j + 1) - 1 : ~IsClass(p, k)
        BY <2>7, <3>3
      <4>. QED
        BY <2>7, <2>9, <3>3, <4>1, NextClass DEF d, L, types
    <3>5. c(j) + 1 \in 1 .. Len(d) /\ (c(j) + 1) - 1 = c(j)
      BY <1>1, <2>1, <2>2, <2>6
    <3>6. end[c(j) + 1] = NameEnd(d, end[c(j)])
      BY <1>2, <3>4, <3>5
    <3>7. Passed(j + 1, j + 1)
      <4>1. \A k \in (j + 1) + 1 .. j + 1 : FALSE
        BY <2>1
      <4>2. StandsAt(p, end[c(j) + 1], j + 1)
        BY <3>4, <3>6 DEF StandsAt
      <4>. QED
        BY <3>2, <4>1, <4>2
    <3>8. names[j + 1][c(j) + 1] = Found(c(j) + 1)
      BY <3>2, <3>4, <3>5, <3>6 DEF ClassName
    <3>9. \A k \in 0 .. c(j + 1) - 1 : MarksAfter(d, end[k]) # {}
      <4>1. \A k \in 0 .. (c(j) + 1) - 1 : k \in 0 .. c(j) - 1 \/ k = c(j)
        BY <2>6
      <4>. QED
        BY <2>4, <3>2, <3>4, <4>1
    <3>10. \A k \in 1 .. c(j + 1) : names[j + 1][k] = Found(k)
      <4>1. \A k \in 1 .. c(j) + 1 : k \in 1 .. c(j) \/ k = c(j) + 1
        BY <2>6
      <4>. HIDE DEF Found
      <4>. QED
        BY <2>5, <3>2, <3>8, <4>1
    <3>11. j + 1 \in 0 .. j + 1 /\ c(j + 1) <= j + 1
      BY <2>1, <2>2, <2>6, <3>2
    <3>. HIDE DEF Passed, Found
    <3>. QED
      BY <3>7, <3>9, <3>10, <3>11
  <2>. QED
    BY <2>8, <2>9
<1>. HIDE DEF Read
<1>8. Read(L)
  <2>1. \A k \in 0 .. L : k \in { x \in 0 .. L : Read(x) }
    <3>1. 0 \in { x \in 0 .. L : Read(x) }
      BY <1>1, <1>6
    <3>2. \A k \in 0 .. L - 1 : k + 1 \in 0 .. L
      BY <1>1
    <3>. QED
      BY <1>1, <1>7, <3>1, <3>2, RangeInduction
  <2>2. L \in 0 .. L
    BY <1>1
  <2>. QED
    BY <2>1, <2>2
<1>. DEFINE n == c(L)
            T == { k \in 0 .. Len(d) : MarksAfter(d, end[k]) = {} }
<1>9. n \in Nat /\ n <= L /\ names[L] \in Seq(V)
  <2>1. L \in 0 .. L
    BY <1>1
  <2>. QED
    BY <1>3, <1>5, <1>8, <2>1 DEF Read
<1>10. MarksAfter(d, end[n]) = {}
  <2>1. PICK i \in 0 .. L : Passed(i, L)
    BY <1>8 DEF Read
  <2>2. StandsAt(p, end[n], i) /\ \A k \in i + 1 .. L : ~IsClass(p, k)
    BY <2>1
  <2>. HIDE DEF n
  <2>. QED
    BY <2>2, NextClass DEF d, L
<1>11. \A k \in 0 .. n - 1 : MarksAfter(d, end[k]) # {}
  BY <1>8 DEF Read
<1>12. \A k \in 1 .. n : names[L][k] = Found(k)
  BY <1>8 DEF Read
<1>13. names[L] = [ k \in 1 .. n |-> names[L][k] ]
  <2>1. \A s \in Seq(V) : s = [ k \in 1 .. Len(s) |-> s[k] ]
    OBVIOUS
  <2>. QED
    BY <1>9, <2>1
<1>. HIDE DEF n, Found
<1>14. Min(T) = n
  <2>1. n \in T
    BY <1>1, <1>9, <1>10
  <2>2. \A y \in T : n <= y
    <3>1. ASSUME NEW y \in T, ~(n <= y) PROVE FALSE
      <4>1. y \in 0 .. n - 1
        BY <1>1, <1>9, <3>1
      <4>. QED
        BY <1>11, <4>1
    <3>. QED
      BY <3>1
  <2>3. T \in SUBSET Int
    BY <1>1
  <2>. HIDE DEF T
  <2>. QED
    BY <2>1, <2>2, <2>3, LeastIs
<1>15. Signature(d) = [ k \in 1 .. n |-> Found(k) ]
  BY <1>14 DEF Signature, end, Found
<1>16. Signature(d) = names[L]
  BY <1>12, <1>13, <1>15
<1>. QED
  BY <1>16 DEF d, names, types, L

-----------------------------------------------------------------------------
(***************************************************************************)
(* Whatever the callers of a string cache do, each of its blocks has one   *)
(* owner.                                                                  *)
(***************************************************************************)

OwnerInv ==
  /\ cache.allocated \in Nat
  /\ cache.block \in Blocks \cup {NoBlock}
  /\ handed \subseteq Blocks
  /\ CacheOwnership

LEMMA OwnerInit == ProtoStart => OwnerInv
BY ProtoAssumption DEF ProtoStart, OwnerInv, CacheOwnership, Held

\* The lengths asked for are numbers greater than 0.
LEMMA Lengths ==
  ASSUME NEW p \in Protos
  PROVE  /\ DescriptorLength(p) \in Nat \ {0}
         /\ 1 + SumOfLengths(p.params) \in Nat \ {0}
         /\ Len(p.returns) + 1 \in Nat \ {0}
<1>1. p.params \in Seq(Seq(Chars)) /\ Len(p.params) \in 0 .. Len(p.params) /\ Len(p.returns) \in Nat
  BY ProtoTypes
<1>2. SumOfLengths(p.params) \in Nat
  BY <1>1, LengthsAdd DEF SumOfLengths
<1>. QED
  BY <1>1, <1>2 DEF DescriptorLength

\* Allocating frees the block the cache held before it takes another.
LEMMA AllocKeeps ==
  ASSUME OwnerInv, NEW length \in Nat \ {0}, NEW string, Alloc(length, string), handed' = handed
  PROVE  OwnerInv'
<1>1. CASE cache' = [cache EXCEPT !.string = string] /\ heap' = heap
  <2>1. cache'.allocated = cache.allocated /\ cache'.block = cache.block
    BY <1>1
  <2>. QED  BY <1>1, <2>1 DEF OwnerInv, CacheOwnership, Held
<1>2. CASE /\ heap' = heap \ Held
           /\ cache' = [block |-> NoBlock, allocated |-> 0, string |-> string]
  <2>1. cache'.allocated = 0 /\ cache'.block = NoBlock
    BY <1>2
  <2>. QED  BY <1>2, <2>1, ProtoAssumption DEF OwnerInv, CacheOwnership, Held
<1>3. ASSUME NEW b \in Blocks \ (heap \ Held),
             heap' = (heap \ Held) \cup {b},
             cache' = [block |-> b, allocated |-> length, string |-> string]
      PROVE  OwnerInv'
  <2>1. cache'.allocated = length /\ cache'.block = b
    BY <1>3
  <2>2. heap \ Held = handed
    BY DEF OwnerInv, CacheOwnership, Held
  <2>. QED  BY <1>3, <2>1, <2>2, ProtoAssumption DEF OwnerInv, CacheOwnership, Held
<1>. QED  BY <1>1, <1>2, <1>3 DEF Alloc

LEMMA OwnerStep == OwnerInv /\ [ProtoNext]_protoVars => OwnerInv'
<1>. SUFFICES ASSUME OwnerInv, [ProtoNext]_protoVars PROVE OwnerInv'
  OBVIOUS
<1>1. ASSUME NEW p \in Protos, GetMethodDescriptor(p) PROVE OwnerInv'
  BY <1>1, Lengths, AllocKeeps DEF GetMethodDescriptor
<1>2. ASSUME NEW p \in Protos, GetParameterDescriptors(p) PROVE OwnerInv'
  BY <1>2, Lengths, AllocKeeps DEF GetParameterDescriptors
<1>3. ASSUME NEW p \in Protos, EnsureCopy(p.returns) PROVE OwnerInv'
  BY <1>3, Lengths, AllocKeeps DEF EnsureCopy
<1>4. ASSUME NEW p \in Protos, Compare(p) PROVE OwnerInv'
  BY <1>4 DEF Compare, OwnerInv, CacheOwnership, Held
<1>5. CASE Abandon
  <2>1. CASE cache.allocated # 0
    BY <1>5, <2>1, ProtoAssumption DEF Abandon, OwnerInv, CacheOwnership, Held
  <2>2. CASE cache.allocated = 0
    BY <1>5, <2>2, ProtoAssumption DEF Abandon, OwnerInv, CacheOwnership, Held
  <2>. QED  BY <2>1, <2>2
<1>6. CASE FreeHanded
  BY <1>6 DEF FreeHanded, OwnerInv, CacheOwnership, Held
<1>7. CASE Release
  BY <1>7, ProtoAssumption DEF Release, OwnerInv, CacheOwnership, Held
<1>8. CASE ShowSignature
  BY <1>8 DEF ShowSignature, OwnerInv, CacheOwnership, Held
<1>9. CASE UNCHANGED protoVars
  BY <1>9 DEF protoVars, OwnerInv, CacheOwnership, Held
<1>. QED  BY <1>1, <1>2, <1>3, <1>4, <1>5, <1>6, <1>7, <1>8, <1>9 DEF ProtoNext

\* With any number of blocks, prototypes and callers, each allocated block
\* belongs to the cache or to the one caller it was handed to: none is lost,
\* none freed twice (DexProto.cpp, dexStringCacheAbandon).
THEOREM BlocksOwned == ProtoSpec => []CacheOwnership
<1>1. OwnerInv => CacheOwnership
  BY DEF OwnerInv
<1>. QED  BY OwnerInit, OwnerStep, <1>1, PTL DEF ProtoSpec

\* What the cache is asked to hold, with its zero, has the length asked for.
LEMMA LengthsOfStrings ==
  ASSUME NEW p \in Protos
  PROVE  /\ Len(MethodDescriptor(p)) + 1 <= DescriptorLength(p)
         /\ Len(ParameterDescriptors(p)) + 1 <= 1 + SumOfLengths(p.params)
         /\ Len(p.returns) + 1 <= Len(p.returns) + 1
<1>. DEFINE m == Len(p.params)
            sum == SumOfLengths(p.params)
            l == Len(p.returns)
<1>1. p.params \in Seq(Seq(Chars)) /\ m \in Nat /\ l \in Nat
  BY ProtoTypes
<1>2. m \in 0 .. m
  BY <1>1
<1>3. sum = LengthsTo(p.params)[m] /\ sum \in Nat
  BY <1>1, <1>2, LengthsAdd DEF SumOfLengths
<1>4. Len(MethodDescriptor(p)) = Before(p, m) + 1 + l
  BY DescriptorIs
<1>5. Before(p, m) = 1 + sum
  BY <1>3 DEF Before
<1>6. Len(ParameterDescriptors(p)) = sum
  BY <1>1, <1>2, <1>3, JoinedIs DEF ParameterDescriptors, Joined
<1>7. DescriptorLength(p) = 3 + sum + l
  BY DEF DescriptorLength
<1>. HIDE DEF m, sum, l
<1>8. Len(MethodDescriptor(p)) + 1 <= DescriptorLength(p)
  BY <1>1, <1>3, <1>4, <1>5, <1>7
<1>9. Len(ParameterDescriptors(p)) + 1 <= 1 + sum
  BY <1>3, <1>6
<1>10. l + 1 <= l + 1
  BY <1>1
<1>. QED
  BY <1>8, <1>9, <1>10 DEF sum, l

\* The cache holds the descriptor of the prototype, and what was read last was
\* read in that.
ReadInv ==
  /\ DOMAIN cache = {"block", "allocated", "string"}
  /\ StringFits
  /\ proto \subseteq Protos
  /\ \A q \in proto : cache.string = MethodDescriptor(q)
  /\ \A r \in reading : \A q \in proto :
       /\ "of" \in DOMAIN r =>
            r.of \in Protos /\ r.order = CompareToDescriptor(r.of, MethodDescriptor(q))
       /\ "names" \in DOMAIN r => r.names = Signature(MethodDescriptor(q))

LEMMA ReadInit == ProtoStart => ReadInv
<1>. SUFFICES ASSUME ProtoStart PROVE ReadInv
  OBVIOUS
<1>1. cache = [block |-> NoBlock, allocated |-> 0, string |-> << >>] /\ proto = {} /\ reading = {}
  BY DEF ProtoStart
<1>2. cache.allocated = 0 /\ cache.string = << >> /\ DOMAIN cache = {"block", "allocated", "string"}
  BY <1>1
<1>3. StringFits
  BY <1>2, EmptySeq, ProtoAssumption DEF StringFits
<1>. QED
  BY <1>1, <1>2, <1>3 DEF ReadInv

\* What is written fits where it is written.
LEMMA AllocFits ==
  ASSUME OwnerInv, ReadInv, NEW length \in Nat \ {0}, NEW string, Len(string) \in Nat, Len(string) + 1 <= length,
         Alloc(length, string)
  PROVE  DOMAIN cache' = {"block", "allocated", "string"} /\ StringFits' /\ cache'.string = string
<1>1. cache.allocated \in Nat /\ DOMAIN cache = {"block", "allocated", "string"} /\ BufferSize \in Nat
  BY ProtoAssumption DEF OwnerInv, ReadInv
<1>2. CASE cache.allocated # 0 /\ cache.allocated >= length /\ cache' = [cache EXCEPT !.string = string]
  <2>1. /\ cache'.allocated = cache.allocated /\ cache'.string = string
        /\ DOMAIN cache' = {"block", "allocated", "string"}
    BY <1>1, <1>2
  <2>2. Len(string) + 1 <= cache.allocated
    BY <1>1, <1>2
  <2>. QED
    BY <1>2, <2>1, <2>2 DEF StringFits
<1>3. CASE length <= BufferSize /\ cache' = [block |-> NoBlock, allocated |-> 0, string |-> string]
  <2>1. /\ cache'.allocated = 0 /\ cache'.string = string
        /\ DOMAIN cache' = {"block", "allocated", "string"}
    BY <1>3
  <2>2. Len(string) + 1 <= BufferSize
    BY <1>1, <1>3
  <2>. QED
    BY <2>1, <2>2 DEF StringFits
<1>4. ASSUME NEW b \in Blocks, cache' = [block |-> b, allocated |-> length, string |-> string]
      PROVE  DOMAIN cache' = {"block", "allocated", "string"} /\ StringFits' /\ cache'.string = string
  <2>1. /\ cache'.allocated = length /\ cache'.string = string
        /\ DOMAIN cache' = {"block", "allocated", "string"}
    BY <1>4
  <2>. QED
    BY <2>1 DEF StringFits
<1>. QED
  BY <1>2, <1>3, <1>4 DEF Alloc

LEMMA ReadStep == OwnerInv /\ ReadInv /\ [ProtoNext]_protoVars => ReadInv'
<1>. SUFFICES ASSUME OwnerInv, ReadInv, [ProtoNext]_protoVars PROVE ReadInv'
  OBVIOUS
<1>1. ASSUME NEW p \in Protos PROVE /\ Len(MethodDescriptor(p)) \in Nat
                                    /\ Len(ParameterDescriptors(p)) \in Nat
                                    /\ Len(p.returns) \in Nat
  <2>1. p.params \in Seq(Seq(Chars)) /\ Len(p.params) \in 0 .. Len(p.params) /\ p.returns \in Seq(Chars)
    BY ProtoTypes
  <2>2. MethodDescriptor(p) \in Seq(Chars) /\ ParameterDescriptors(p) \in Seq(Chars)
    BY <2>1, DescriptorIs, JoinedAdds DEF ParameterDescriptors, Joined
  <2>. QED
    BY <2>1, <2>2, LenProperties
<1>2. ASSUME NEW p \in Protos, GetMethodDescriptor(p) PROVE ReadInv'
  <2>1. Alloc(DescriptorLength(p), MethodDescriptor(p)) /\ proto' = {p} /\ reading' = {}
    BY <1>2 DEF GetMethodDescriptor
  <2>2. DOMAIN cache' = {"block", "allocated", "string"} /\ StringFits' /\ cache'.string = MethodDescriptor(p)
    BY <1>1, <2>1, Lengths, LengthsOfStrings, AllocFits
  <2>. QED
    BY <2>1, <2>2 DEF ReadInv
<1>3. ASSUME NEW p \in Protos, GetParameterDescriptors(p) PROVE ReadInv'
  <2>1. Alloc(1 + SumOfLengths(p.params), ParameterDescriptors(p)) /\ proto' = {} /\ reading' = {}
    BY <1>3 DEF GetParameterDescriptors
  <2>2. DOMAIN cache' = {"block", "allocated", "string"} /\ StringFits'
    BY <1>1, <2>1, Lengths, LengthsOfStrings, AllocFits
  <2>. QED
    BY <2>1, <2>2 DEF ReadInv
<1>4. ASSUME NEW p \in Protos, EnsureCopy(p.returns) PROVE ReadInv'
  <2>1. Alloc(Len(p.returns) + 1, p.returns) /\ proto' = {} /\ reading' = {}
    BY <1>4 DEF EnsureCopy
  <2>2. DOMAIN cache' = {"block", "allocated", "string"} /\ StringFits'
    BY <1>1, <2>1, Lengths, LengthsOfStrings, AllocFits
  <2>. QED
    BY <2>1, <2>2 DEF ReadInv
<1>5. ASSUME NEW p \in Protos, Compare(p) PROVE ReadInv'
  <2>1. reading' = { [of |-> p, order |-> CompareToDescriptor(p, cache.string)] } /\ cache' = cache /\ proto' = proto
    BY <1>5 DEF Compare
  <2>2. \A q \in proto : cache.string = MethodDescriptor(q)
    BY DEF ReadInv
  <2>3. ASSUME NEW r \in reading', NEW q \in proto
        PROVE  /\ "of" \in DOMAIN r => r.of \in Protos /\ r.order = CompareToDescriptor(r.of, MethodDescriptor(q))
               /\ "names" \in DOMAIN r => r.names = Signature(MethodDescriptor(q))
    <3>1. r = [of |-> p, order |-> CompareToDescriptor(p, MethodDescriptor(q))]
      BY <2>1, <2>2
    <3>2. "names" \notin DOMAIN r
      BY <3>1
    <3>. QED
      BY <3>1, <3>2
  <2>4. StringFits'
    BY <2>1 DEF ReadInv, StringFits
  <2>. QED
    BY <2>1, <2>3, <2>4 DEF ReadInv
<1>6. CASE ShowSignature
  <2>1. reading' = { [names |-> Signature(cache.string)] } /\ cache' = cache /\ proto' = proto
    BY <1>6 DEF ShowSignature
  <2>2. \A q \in proto : cache.string = MethodDescriptor(q)
    BY DEF ReadInv
  <2>3. ASSUME NEW r \in reading', NEW q \in proto
        PROVE  /\ "of" \in DOMAIN r => r.of \in Protos /\ r.order = CompareToDescriptor(r.of, MethodDescriptor(q))
               /\ "names" \in DOMAIN r => r.names = Signature(MethodDescriptor(q))
    <3>1. r = [names |-> Signature(MethodDescriptor(q))]
      BY <2>1, <2>2
    <3>2. "of" \notin DOMAIN r
      BY <3>1
    <3>. QED
      BY <3>1, <3>2
  <2>4. StringFits'
    BY <2>1 DEF ReadInv, StringFits
  <2>. QED
    BY <2>1, <2>3, <2>4 DEF ReadInv
<1>7. ASSUME cache' = [block |-> NoBlock, allocated |-> 0, string |-> << >>], proto' = {} PROVE ReadInv'
  <2>1. cache'.allocated = 0 /\ cache'.string = << >> /\ DOMAIN cache' = {"block", "allocated", "string"}
    BY <1>7
  <2>2. StringFits'
    BY <2>1, EmptySeq, ProtoAssumption DEF StringFits
  <2>. QED
    BY <1>7, <2>1, <2>2 DEF ReadInv
<1>8. ASSUME cache' = cache, proto' = proto, reading' = {} \/ reading' = reading PROVE ReadInv'
  <2>1. StringFits'
    BY <1>8 DEF ReadInv, StringFits
  <2>. QED
    BY <1>8, <2>1 DEF ReadInv
<1>9. CASE Abandon
  <2>1. CASE cache.allocated # 0
    BY <1>7, <1>9, <2>1 DEF Abandon
  <2>2. CASE cache.allocated = 0
    BY <1>8, <1>9, <2>2 DEF Abandon
  <2>. QED
    BY <2>1, <2>2
<1>10. CASE FreeHanded
  BY <1>8, <1>10 DEF FreeHanded
<1>11. CASE Release
  BY <1>7, <1>11 DEF Release
<1>12. CASE UNCHANGED protoVars
  BY <1>8, <1>12 DEF protoVars
<1>. QED
  BY <1>2, <1>3, <1>4, <1>5, <1>6, <1>9, <1>10, <1>11, <1>12 DEF ProtoNext

\* For prototypes of any types and any number of them: a descriptor and its zero
\* fit the block allocated for them; a prototype compared with a descriptor comes
\* out as compared with the prototype of the descriptor, where no byte is 128 or
\* more; and the signature made of a descriptor names the classes of its types,
\* in their order (DexProto.cpp, dexProtoGetMethodDescriptor and
\* dexProtoCompareToDescriptor; demangler.cpp, getSignature).
THEOREM ReadsBack == ProtoSpec => []DescriptorsReadBack
<1>1. ReadInv => DescriptorsReadBack
  <2>. SUFFICES ASSUME ReadInv PROVE DescriptorsReadBack
    OBVIOUS
  <2>1. StringFits
    BY DEF ReadInv
  <2>2. ComparedAsPrototypes
    <3>. SUFFICES ASSUME NEW r \in reading, NEW q \in proto, "of" \in DOMAIN r, Ascii(r.of), Ascii(q)
                  PROVE  r.order = CompareProtos(r.of, q)
      BY DEF ComparedAsPrototypes
    <3>1. q \in Protos /\ r.of \in Protos /\ r.order = CompareToDescriptor(r.of, MethodDescriptor(q))
      BY DEF ReadInv
    <3>. QED
      BY <3>1, DescriptorCompares
  <2>3. SignatureNamesClasses
    <3>. SUFFICES ASSUME NEW r \in reading, NEW q \in proto, "names" \in DOMAIN r
                  PROVE  r.names = ClassesTo(TypesOf(q))[Len(TypesOf(q))]
      BY DEF SignatureNamesClasses, TypesOf
    <3>1. q \in Protos /\ r.names = Signature(MethodDescriptor(q))
      BY DEF ReadInv
    <3>2. Len(TypesOf(q)) = Last(q)
      BY <3>1, TypesLaid
    <3>. QED
      BY <3>1, <3>2, ClassesRead
  <2>. QED
    BY <2>1, <2>2, <2>3 DEF DescriptorsReadBack
<1>. QED
  BY OwnerInit, OwnerStep, ReadInit, ReadStep, <1>1, PTL DEF ProtoSpec

-----------------------------------------------------------------------------
(***************************************************************************)
(* dexParseOptData walks an area of any chunks as it was written.  The walk *)
(* stands behind the first n chunks, for some n, with the tables among them *)
(* (WrittenWalk).                                                           *)
(***************************************************************************)

Room == buffer.size - buffer.optOffset

WalkType ==
  /\ buffer \in Buffers
  /\ parser \in {"open", "chunks", "check", "parsed", "refused"}
  /\ parser = "open" => chunk = Nowhere /\ classLookup = Nowhere /\ registerMaps = Nowhere
  /\ parser = "chunks" => chunk \in Nat /\ IsValid(chunk) /\ AreaIsSound

WrittenWalk ==
  buffer.contents # <<>> =>
    /\ parser = "chunks" =>
         \E n \in 0 .. Len(buffer.contents) :
           /\ chunk = ChunksEnd(buffer, n)
           /\ classLookup = LastAmong(LookupChunk, n)
           /\ registerMaps = LastAmong(MapsChunk, n)
    /\ (parser \in {"check", "parsed"} /\ buffer.magic = "dey") =>
         classLookup = LastOf(LookupChunk) /\ registerMaps = LastOf(MapsChunk)
    /\ parser \in {"check", "refused"} => chunk = Nowhere \/ WordAt(chunk) = EndChunk

TablesInside ==
  \A t \in {classLookup, registerMaps} \ {Nowhere} :
    t * 4 + WordAt(t - 1) <= Room \/ Wraps(WordAt(t - 1))

ParseInv == WalkType /\ WrittenWalk /\ TablesInside

-----------------------------------------------------------------------------
(* Sizes and chunks.                                                        *)

\* The size with its header, in words, of a chunk that does not wrap.
LEMMA RoundedUp ==
  ASSUME NEW s \in Nat, s + 8 + 7 < SizeRange
  PROVE  /\ RoundedSize(s) \div 4 = 2 + 2 * ((s + 7) \div 8)
         /\ s + 8 <= (RoundedSize(s) \div 4) * 4
<1>1. SizeRange \in Nat \ {0}
  BY ParseAssumption
<1>2. (s + 8 + 7) % SizeRange = s + 8 + 7
  BY <1>1
<1>3. RoundedSize(s) = ((s + 15) \div 8) * 8
  BY <1>2 DEF RoundedSize
<1>. QED
  BY <1>3

\* The wrapped size of a chunk is still a number of 8 bytes.
LEMMA RoundedTo8 ==
  ASSUME NEW s \in Nat
  PROVE  \E k \in Nat : RoundedSize(s) \div 4 = 2 * k
<1>1. SizeRange \in Nat \ {0}
  BY ParseAssumption
<1>. DEFINE r == (s + 8 + 7) % SizeRange
<1>2. r \in Nat
  BY <1>1
<1>. HIDE DEF r
<1>3. r \div 8 \in Nat /\ ((r \div 8) * 8) \div 4 = 2 * (r \div 8)
  BY <1>2
<1>. QED
  BY <1>3 DEF RoundedSize, r

\* The table after one more chunk.
LEMMA LastOfMore ==
  ASSUME NEW kind, NEW n \in Nat
  PROVE  /\ LastAmong(kind, 0) = Nowhere
         /\ LastAmong(kind, n + 1) =
              IF buffer.contents[n + 1].kind = kind THEN buffer.contents[n + 1].first
              ELSE LastAmong(kind, n)
<1>. DEFINE Of(m) == { i \in 1 .. m : buffer.contents[i].kind = kind }
<1>1. Of(0) = {}
  OBVIOUS
<1>2. CASE buffer.contents[n + 1].kind = kind
  <2>1. Of(n + 1) \in SUBSET Int /\ n + 1 \in Of(n + 1) /\ \A i \in Of(n + 1) : i <= n + 1
    BY <1>2
  <2>2. Max(Of(n + 1)) \in Of(n + 1) /\ n + 1 <= Max(Of(n + 1))
    BY <2>1, MaxIsGreatest
  <2>3. Max(Of(n + 1)) = n + 1
    BY <2>1, <2>2
  <2>. QED
    BY <1>1, <1>2, <2>1, <2>3 DEF LastAmong
<1>3. CASE buffer.contents[n + 1].kind # kind
  <2>1. Of(n + 1) = Of(n)
    BY <1>3
  <2>. QED
    BY <1>1, <1>3, <2>1 DEF LastAmong
<1>. QED
  BY <1>2, <1>3

-----------------------------------------------------------------------------
(* The steps of the walk.                                                   *)

LEMMA ParseInvInit == ParseInit => ParseInv
<1>. SUFFICES ASSUME ParseInit PROVE ParseInv
  OBVIOUS
<1>1. buffer \in Buffers /\ parser = "open" /\ chunk = Nowhere
      /\ classLookup = Nowhere /\ registerMaps = Nowhere
  BY DEF ParseInit, ParseStart
<1>. QED
  BY <1>1 DEF ParseInv, WalkType, WrittenWalk, TablesInside

\* A chunk of an area walked by now begins and ends in it, aligned.
LEMMA NextIsValid ==
  ASSUME buffer \in Buffers, AreaIsSound, chunk \in Nat, IsValid(chunk),
         IsValid(chunk + 2), IsValid(NextChunk)
  PROVE  /\ chunk + 2 \in DOMAIN buffer.area /\ WordAt(chunk + 1) \in Nat
         /\ NextChunk \in Nat
         /\ WordAt(chunk + 1) + 8 + 7 < SizeRange =>
              (chunk + 2) * 4 + WordAt(chunk + 1) <= Room
<1>1. Room \in Int /\ buffer.area \in Seq(0 .. SizeRange - 1) /\ SizeRange \in Nat
      /\ (buffer.optOffset <= buffer.size => Len(buffer.area) = Room \div 4)
  BY ParseAssumption DEF Room
<1>2. (chunk + 2) * 4 < Room /\ Room % 4 = 0
  BY DEF IsValid, AreaIsSound, Room
<1>3. chunk + 2 \in 1 .. Room \div 4 /\ 0 < Room
  BY <1>1, <1>2
<1>4. buffer.optOffset <= buffer.size
  BY <1>3, ParseAssumption DEF Room
<1>5. chunk + 2 \in DOMAIN buffer.area /\ WordAt(chunk + 1) \in Nat
  <2>1. chunk + 2 \in 1 .. Len(buffer.area)
    BY <1>1, <1>3, <1>4
  <2>2. DOMAIN buffer.area = 1 .. Len(buffer.area)
    BY <1>1, LenProperties
  <2>3. buffer.area[chunk + 2] \in 0 .. SizeRange - 1
    BY <1>1, <2>1, ElementOfSeq
  <2>4. chunk + 1 + 1 = chunk + 2
    OBVIOUS
  <2>. QED
    BY <1>1, <2>1, <2>2, <2>3, <2>4 DEF WordAt
<1>. DEFINE s == WordAt(chunk + 1)
            r == RoundedSize(s) \div 4
<1>6. r \in Nat
  BY <1>5, RoundedTo8
<1>7. NextChunk = chunk + r
  BY DEF NextChunk
<1>8. NextChunk * 4 < Room
  BY DEF IsValid, Room
<1>9. ASSUME s + 8 + 7 < SizeRange PROVE s + 8 <= r * 4
  BY <1>5, <1>9, RoundedUp
<1>10. s \in Nat
  BY <1>5
<1>. HIDE DEF s, r
<1>11. NextChunk \in Nat
  BY <1>6, <1>7
<1>12. ASSUME s + 8 + 7 < SizeRange PROVE (chunk + 2) * 4 + s <= Room
  <2>1. s + 8 <= r * 4
    BY <1>9, <1>12
  <2>2. (chunk + r) * 4 < Room
    BY <1>7, <1>8
  <2>. QED
    BY <1>1, <1>6, <1>10, <2>1, <2>2
<1>. QED
  BY <1>5, <1>11, <1>12 DEF s

\* A word of an area is a number.
LEMMA WordOfArea ==
  ASSUME NEW b \in Buffers, NEW w \in DOMAIN b.area
  PROVE  b.area[w] \in Nat
<1>1. b.area \in Seq(0 .. SizeRange - 1) /\ SizeRange \in Nat
  BY ParseAssumption
<1>2. b.area[w] \in 0 .. SizeRange - 1
  BY <1>1, LenProperties, ElementOfSeq
<1>. QED
  BY <1>1, <1>2

\* The places of a chunk of e double words that ends in front of the room.
LEMMA ChunkInRoom ==
  ASSUME NEW offset_ \in Nat, NEW head \in Nat, NEW e \in Nat, NEW room \in Int,
         (offset_ + head * 4) % 8 = 0, (head + 2 + 2 * e) * 4 < room
  PROVE  /\ head + 2 >= 0 /\ (head + 2) * 4 < room
         /\ (offset_ + (head + 2) * 4) % 8 = 0
         /\ head + 2 + 2 * e >= 0
         /\ (offset_ + (head + 2 + 2 * e) * 4) % 8 = 0
<1>1. PICK k \in Int : offset_ + head * 4 = 8 * k
  <2>1. offset_ + head * 4 = 8 * ((offset_ + head * 4) \div 8)
    OBVIOUS
  <2>2. (offset_ + head * 4) \div 8 \in Int
    OBVIOUS
  <2>. QED
    BY <2>1, <2>2
<1>2. offset_ + (head + 2) * 4 = 8 * (k + 1)
  BY <1>1
<1>3. offset_ + (head + 2 + 2 * e) * 4 = 8 * (k + 1 + e)
  BY <1>1
<1>4. \A x \in Int : (8 * x) % 8 = 0
  OBVIOUS
<1>. QED
  BY <1>2, <1>3, <1>4

\* In a written area the walk comes from one chunk to the next.
LEMMA WrittenNext ==
  ASSUME buffer \in Buffers, buffer.contents # <<>>, AreaIsSound, NEW n \in 0 .. Len(buffer.contents),
         chunk = ChunksEnd(buffer, n), IsValid(chunk), WordAt(chunk) # EndChunk
  PROVE  /\ n + 1 \in 0 .. Len(buffer.contents)
         /\ IsValid(chunk + 2) /\ IsValid(NextChunk)
         /\ NextChunk = ChunksEnd(buffer, n + 1)
         /\ WordAt(chunk) = buffer.contents[n + 1].kind
         /\ chunk + 2 = buffer.contents[n + 1].first
<1>1. Len(buffer.contents) \in Nat /\ n \in Nat
  BY WrittenAssumption
<1>2. chunk \in Nat /\ Room \in Int /\ buffer.optOffset \in Nat
  <2>1. chunk \in Nat
    BY WrittenAssumption
  <2>2. Room \in Int /\ buffer.optOffset \in Nat
    BY ParseAssumption DEF Room
  <2>. QED
    BY <2>1, <2>2
<1>3. n # Len(buffer.contents)
  <2>1. n = Len(buffer.contents) => buffer.area[chunk + 1] = EndChunk
    BY WrittenAssumption
  <2>. QED
    BY <2>1 DEF WordAt
<1>4. n + 1 \in 0 .. Len(buffer.contents) /\ n + 1 # 0
  BY <1>1, <1>3
<1>. DEFINE c == buffer.contents[n + 1]
            s == buffer.area[c.first]
<1>5. /\ c.first = chunk + 2
      /\ buffer.area[c.first - 1] = c.kind
      /\ c.first \in DOMAIN buffer.area /\ s + 8 + 7 < SizeRange
  BY <1>3, WrittenAssumption
<1>6. s \in Nat
  BY <1>5, WordOfArea
<1>7. ChunksEnd(buffer, n + 1) = c.first + 2 * ((s + 7) \div 8)
  BY <1>4 DEF ChunksEnd
<1>8. WordAt(chunk) = c.kind /\ WordAt(chunk + 1) = s
  <2>1. c.first - 1 = chunk + 1 /\ c.first = chunk + 1 + 1
    BY <1>2, <1>5
  <2>. QED
    BY <1>5, <2>1, Zenon DEF WordAt
<1>9. ChunksEnd(buffer, n + 1) * 4 < Room
  BY <1>4, WrittenAssumption DEF Room
<1>. DEFINE e == (s + 7) \div 8
<1>10. e \in Nat
  <2>. HIDE DEF s
  <2>. QED
    BY <1>6
<1>11. NextChunk = chunk + (2 + 2 * e)
  BY <1>5, <1>6, <1>8, RoundedUp DEF NextChunk
<1>12. ChunksEnd(buffer, n + 1) = chunk + 2 + 2 * e
  BY <1>5, <1>7
<1>13. (buffer.optOffset + chunk * 4) % 8 = 0
  BY DEF IsValid
<1>. HIDE DEF e, s, c
<1>14. (chunk + 2 + 2 * e) * 4 < Room
  BY <1>9, <1>12, Zenon
<1>15. /\ chunk + 2 >= 0 /\ (chunk + 2) * 4 < Room
       /\ (buffer.optOffset + (chunk + 2) * 4) % 8 = 0
       /\ chunk + 2 + 2 * e >= 0
       /\ (buffer.optOffset + (chunk + 2 + 2 * e) * 4) % 8 = 0
  BY <1>2, <1>10, <1>13, <1>14, ChunkInRoom, Zenon
<1>16. NextChunk = chunk + 2 + 2 * e
  BY <1>2, <1>10, <1>11
<1>17. IsValid(chunk + 2)
  BY <1>15, Zenon DEF IsValid, Room
<1>18. IsValid(NextChunk)
  BY <1>14, <1>15, <1>16, Zenon DEF IsValid, Room
<1>. QED
  BY <1>4, <1>5, <1>8, <1>12, <1>16, <1>17, <1>18, Zenon DEF c

\* A step that leaves the chunk and the tables alone.
LEMMA TablesStay ==
  ASSUME UNCHANGED <<buffer, classLookup, registerMaps>>
  PROVE  TablesInside => TablesInside'
  BY DEF TablesInside, Wraps, WordAt, Room

LEMMA OpenStep == ParseInv /\ Open => ParseInv'
<1>. SUFFICES ASSUME ParseInv, Open PROVE ParseInv'
  OBVIOUS
<1>1. /\ buffer \in Buffers /\ chunk = Nowhere
      /\ classLookup = Nowhere /\ registerMaps = Nowhere
  BY DEF ParseInv, WalkType, Open
<1>2. UNCHANGED <<buffer, classLookup, registerMaps>>
  BY DEF Open
<1>3. TablesInside'
  BY <1>2, TablesStay DEF ParseInv
<1>4. CASE parser' = "refused" /\ chunk' = chunk
  BY <1>1, <1>2, <1>3, <1>4 DEF ParseInv, WalkType, WrittenWalk
<1>5. CASE parser' = "chunks" /\ chunk' = 0 /\ AreaIsSound
  <2>1. WalkType'
    BY <1>1, <1>2, <1>5 DEF WalkType, AreaIsSound, IsValid
  <2>2. ASSUME buffer.contents # <<>>
        PROVE  /\ 0 \in 0 .. Len(buffer.contents) /\ chunk' = ChunksEnd(buffer', 0)
               /\ classLookup' = LastAmong(LookupChunk, 0)'
               /\ registerMaps' = LastAmong(MapsChunk, 0)'
    <3>1. Len(buffer.contents) \in Nat
      BY <1>1, WrittenAssumption
    <3>2. \A kind : LastAmong(kind, 0)' = LastAmong(kind, 0)
      BY <1>2 DEF LastAmong
    <3>3. \A kind : LastAmong(kind, 0) = Nowhere
      BY LastOfMore
    <3>. QED
      BY <1>1, <1>2, <1>5, <3>1, <3>2, <3>3 DEF ChunksEnd, Nowhere
  <2>3. WrittenWalk'
    BY <1>2, <1>5, <2>2 DEF WrittenWalk
  <2>. QED
    BY <1>3, <2>1, <2>3 DEF ParseInv
<1>6. CASE parser' = "check" /\ chunk' = chunk /\ buffer.magic # "dey"
  BY <1>1, <1>2, <1>3, <1>6 DEF ParseInv, WalkType, WrittenWalk
<1>. QED
  BY <1>4, <1>5, <1>6 DEF Open, Refuse

LEMMA ChunkStep == ParseInv /\ WalkChunk => ParseInv'
<1>. SUFFICES ASSUME ParseInv, WalkChunk PROVE ParseInv'
  OBVIOUS
<1>1. /\ buffer \in Buffers /\ parser = "chunks" /\ chunk \in Nat /\ IsValid(chunk) /\ AreaIsSound
      /\ WordAt(chunk) # EndChunk /\ buffer' = buffer
  BY DEF ParseInv, WalkType, WalkChunk
<1>2. CASE IsValid(chunk + 2) /\ IsValid(NextChunk)
  <2>1. /\ classLookup' = IF WordAt(chunk) = LookupChunk THEN chunk + 2 ELSE classLookup
        /\ registerMaps' = IF WordAt(chunk) = MapsChunk THEN chunk + 2 ELSE registerMaps
        /\ chunk' = NextChunk /\ parser' = parser
    BY <1>2 DEF WalkChunk
  <2>2. NextChunk \in Nat
    BY <1>1, <1>2, NextIsValid
  <2>3. WalkType'
    <3>1. IsValid(chunk)'
      BY <1>1, <1>2, <2>1 DEF IsValid
    <3>2. AreaIsSound'
      BY <1>1 DEF AreaIsSound, IsValid
    <3>. QED
      BY <1>1, <2>1, <2>2, <3>1, <3>2 DEF WalkType
  <2>4. TablesInside'
    <3>. SUFFICES ASSUME NEW t \in {classLookup', registerMaps'} \ {Nowhere}
                  PROVE  t * 4 + WordAt(t - 1) <= Room \/ Wraps(WordAt(t - 1))
      BY <1>1, Zenon DEF TablesInside, Wraps, WordAt, Room
    <3>1. CASE t \in {classLookup, registerMaps}
      BY <3>1 DEF ParseInv, TablesInside
    <3>2. CASE t = chunk + 2
      <4>1. WordAt(chunk + 1) + 8 + 7 < SizeRange \/ Wraps(WordAt(chunk + 1))
        <5>1. WordAt(chunk + 1) \in Nat /\ SizeRange \in Nat
          BY <1>1, <1>2, NextIsValid, ParseAssumption
        <5>. QED
          BY <5>1 DEF Wraps
      <4>2. (chunk + 2) * 4 + WordAt(chunk + 1) <= Room \/ Wraps(WordAt(chunk + 1))
        BY <1>1, <1>2, <4>1, NextIsValid, Zenon
      <4>3. t - 1 = chunk + 1
        BY <1>1, <3>2
      <4>. QED
        BY <3>2, <4>2, <4>3, Zenon
    <3>. QED
      BY <2>1, <3>1, <3>2, Zenon
  <2>5. WrittenWalk'
    <3>. SUFFICES ASSUME buffer.contents # <<>>
                  PROVE  \E n \in 0 .. Len(buffer.contents) :
                           /\ chunk' = ChunksEnd(buffer, n)
                           /\ classLookup' = LastAmong(LookupChunk, n)'
                           /\ registerMaps' = LastAmong(MapsChunk, n)'
      BY <1>1, <2>1, Zenon DEF WrittenWalk
    <3>1. PICK n \in 0 .. Len(buffer.contents) :
            /\ chunk = ChunksEnd(buffer, n)
            /\ classLookup = LastAmong(LookupChunk, n)
            /\ registerMaps = LastAmong(MapsChunk, n)
      BY <1>1 DEF ParseInv, WrittenWalk
    <3>2. /\ n + 1 \in 0 .. Len(buffer.contents)
          /\ NextChunk = ChunksEnd(buffer, n + 1)
          /\ WordAt(chunk) = buffer.contents[n + 1].kind
          /\ chunk + 2 = buffer.contents[n + 1].first
      BY <1>1, <3>1, WrittenNext, Zenon
    <3>3. n \in Nat
      BY <1>1, WrittenAssumption
    <3>4. \A kind : LastAmong(kind, n + 1)' = LastAmong(kind, n + 1)
      BY <1>1 DEF LastAmong
    <3>5. \A kind : LastAmong(kind, n + 1) =
                      IF WordAt(chunk) = kind THEN chunk + 2 ELSE LastAmong(kind, n)
      BY <3>2, <3>3, LastOfMore, Zenon
    <3>6. classLookup' = LastAmong(LookupChunk, n + 1)' /\ registerMaps' = LastAmong(MapsChunk, n + 1)'
      BY <2>1, <3>1, <3>4, <3>5, Zenon
    <3>. QED
      BY <2>1, <3>2, <3>6, Zenon
  <2>. QED
    BY <2>3, <2>4, <2>5 DEF ParseInv
<1>3. CASE ~(IsValid(chunk + 2) /\ IsValid(NextChunk))
  <2>1. parser' = "refused" /\ UNCHANGED <<chunk, classLookup, registerMaps>>
    BY <1>3 DEF WalkChunk, Refuse
  <2>2. buffer.contents = <<>>
    <3>. SUFFICES ASSUME buffer.contents # <<>> PROVE FALSE
      OBVIOUS
    <3>1. PICK n \in 0 .. Len(buffer.contents) : chunk = ChunksEnd(buffer, n)
      BY <1>1 DEF ParseInv, WrittenWalk
    <3>. QED
      BY <1>1, <1>3, <3>1, WrittenNext, Zenon
  <2>3. TablesInside'
    BY <1>1, <2>1, TablesStay DEF ParseInv
  <2>. QED
    BY <1>1, <2>1, <2>2, <2>3 DEF ParseInv, WalkType, WrittenWalk
<1>. QED
  BY <1>2, <1>3

LEMMA TakeStep == ParseInv /\ TakeDex => ParseInv'
<1>. SUFFICES ASSUME ParseInv, TakeDex PROVE ParseInv'
  OBVIOUS
<1>1. /\ buffer \in Buffers /\ parser = "chunks" /\ WordAt(chunk) = EndChunk
      /\ UNCHANGED <<buffer, chunk, classLookup, registerMaps>>
      /\ parser' \in {"refused", "check"}
  BY DEF ParseInv, WalkType, TakeDex, Refuse
<1>2. TablesInside' /\ WalkType'
  BY <1>1, TablesStay DEF ParseInv, WalkType
<1>3. ASSUME buffer.contents # <<>>
      PROVE  classLookup = LastOf(LookupChunk) /\ registerMaps = LastOf(MapsChunk)
  <2>1. PICK n \in 0 .. Len(buffer.contents) :
          /\ chunk = ChunksEnd(buffer, n)
          /\ classLookup = LastAmong(LookupChunk, n)
          /\ registerMaps = LastAmong(MapsChunk, n)
    BY <1>1, <1>3 DEF ParseInv, WrittenWalk
  <2>2. CASE n = Len(buffer.contents)
    BY <2>1, <2>2 DEF LastOf
  <2>3. CASE n # Len(buffer.contents)
    <3>. DEFINE c == buffer.contents[n + 1]
    <3>1. c.first = chunk + 2 /\ buffer.area[c.first - 1] = c.kind /\ c.kind # EndChunk /\ chunk \in Nat
      BY <1>1, <1>3, <2>1, <2>3, WrittenAssumption
    <3>2. c.first - 1 = chunk + 1
      BY <3>1
    <3>. QED
      BY <1>1, <3>1, <3>2, Zenon DEF WordAt
  <2>. QED
    BY <2>2, <2>3
<1>4. WrittenWalk'
  <2>1. \A kind : LastOf(kind)' = LastOf(kind)
    BY <1>1 DEF LastOf, LastAmong
  <2>2. WordAt(chunk)' = WordAt(chunk)
    BY <1>1 DEF WordAt
  <2>. QED
    BY <1>1, <1>3, <2>1, <2>2 DEF WrittenWalk
<1>. QED
  BY <1>2, <1>4 DEF ParseInv

LEMMA CheckStep == ParseInv /\ (CheckDex \/ UNCHANGED parseVars) => ParseInv'
<1>. SUFFICES ASSUME ParseInv, CheckDex \/ UNCHANGED parseVars PROVE ParseInv'
  OBVIOUS
<1>1. /\ UNCHANGED <<buffer, chunk, classLookup, registerMaps>>
      /\ parser' = parser \/ (parser = "check" /\ parser' \in {"parsed", "refused"})
  BY DEF CheckDex, parseVars
<1>2. TablesInside'
  BY <1>1, TablesStay DEF ParseInv
<1>3. WalkType'
  BY <1>1 DEF ParseInv, WalkType, IsValid, AreaIsSound
<1>4. WrittenWalk'
  <2>1. \A kind, n : LastAmong(kind, n)' = LastAmong(kind, n)
    BY <1>1 DEF LastAmong
  <2>2. \A kind : LastOf(kind)' = LastOf(kind)
    BY <1>1 DEF LastOf, LastAmong
  <2>3. WordAt(chunk)' = WordAt(chunk)
    BY <1>1 DEF WordAt
  <2>. QED
    BY <1>1, <2>1, <2>2, <2>3 DEF ParseInv, WrittenWalk
<1>. QED
  BY <1>2, <1>3, <1>4 DEF ParseInv

\* dexParseOptData (DexOptData.cpp:44) finds the tables of every area that was
\* written as the optimizer does and refuses none for its chunks.  Of any area,
\* whatever its words are, it keeps a table that reaches out of the buffer only
\* if the size of this table wraps when it is rounded (line 93).
THEOREM WalksTheChunks == ParseSpec => []TablesAsWritten
<1>1. ParseInv /\ [ParseNext]_parseVars => ParseInv'
  BY OpenStep, ChunkStep, TakeStep, CheckStep DEF ParseNext
<1>2. ParseInv => TablesAsWritten
  BY DEF ParseInv, WrittenWalk, TablesInside, TablesAsWritten, Room
<1>. QED
  BY ParseInvInit, <1>1, <1>2, PTL DEF ParseSpec
-----------------------------------------------------------------------------
(***************************************************************************)
(* Reading the numbers that were written, with readUnsignedLeb128, gives   *)
(* these numbers, up to the limit; a number that is too long is refused.   *)
(***************************************************************************)

Numbers == encoded.class.numbers
Places == encoded.class.places
LastPlace == Places[Len(Numbers) + 1]

\* A number of 32 bits is its five groups of seven.
LEMMA SumOfSeptets ==
  ASSUME NEW v \in Nat, v \div Weights[5] <= 15
  PROVE  /\ \A j \in 1 .. 5 : Septet(v, j) \in 0 .. 127
         /\ Septet(v, 5) <= 15
         /\ Septet(v, 1) + Septet(v, 2) * Weights[2] + Septet(v, 3) * Weights[3]
              + Septet(v, 4) * Weights[4] + Septet(v, 5) * Weights[5] = v
<1>. DEFINE a == v \div 128
            b == v \div 16384
            c == v \div 2097152
            d == v \div 268435456
<1>1. /\ Weights[1] = 1 /\ Weights[2] = 128 /\ Weights[3] = 16384
      /\ Weights[4] = 2097152 /\ Weights[5] = 268435456
  BY SMT DEF Weights
<1>2. /\ Septet(v, 1) = v % 128 /\ Septet(v, 2) = a % 128 /\ Septet(v, 3) = b % 128
      /\ Septet(v, 4) = c % 128 /\ Septet(v, 5) = d % 128
  BY <1>1, SMT DEF Septet
<1>3. a \in Nat /\ v = 128 * a + (v % 128)
  BY SMT
<1>4. b \in Nat /\ a = 128 * b + (a % 128)
  BY SMT
<1>5. c \in Nat /\ b = 128 * c + (b % 128)
  BY SMT
<1>6. d \in Nat /\ c = 128 * d + (c % 128) /\ d <= 15
  BY <1>1, SMT
<1>. HIDE DEF a, b, c, d
<1>7. v % 128 \in 0 .. 127 /\ a % 128 \in 0 .. 127 /\ b % 128 \in 0 .. 127 /\ c % 128 \in 0 .. 127
  BY <1>3, <1>4, <1>5, <1>6, SMT
<1>8. d % 128 = d
  BY <1>6, SMT
<1>9. \A j \in 1 .. 5 : Septet(v, j) \in 0 .. 127
  <2>1. \A j \in 1 .. 5 : j = 1 \/ j = 2 \/ j = 3 \/ j = 4 \/ j = 5
    BY SMT
  <2>. QED
    BY <1>2, <1>6, <1>7, <1>8, <2>1, SMT
<1>10. Septet(v, 1) + Septet(v, 2) * 128 + Septet(v, 3) * 16384
         + Septet(v, 4) * 2097152 + Septet(v, 5) * 268435456 = v
  BY <1>2, <1>3, <1>4, <1>5, <1>6, <1>7, <1>8, SMT
<1>. QED
  BY <1>1, <1>2, <1>6, <1>8, <1>9, <1>10, SMT

\* What EncodingAssumption says of the item.
LEMMA NumbersAsWritten ==
  ASSUME encoded \in ClassItems
  PROVE  /\ Numbers \in Seq(Nat) /\ Len(Numbers) \in Nat /\ DOMAIN Numbers = 1 .. Len(Numbers)
         /\ Places[1] = 0
         /\ \A k \in 1 .. Len(Numbers) + 1 : Places[k] \in Nat /\ Places[k] <= LastPlace
         /\ \A k \in 1 .. Len(Numbers) : Numbers[k] \in Nat /\ IsWritten(encoded, k)
         /\ encoded.limit = NoLimit \/ encoded.limit \in Nat
         /\ encoded.bytes \in Seq(0 .. 255)
<1>1. /\ Numbers \in Seq(Nat) /\ Places \in Seq(Nat) /\ Len(Places) = Len(Numbers) + 1 /\ Places[1] = 0
      /\ \A k \in DOMAIN Numbers : IsWritten(encoded, k)
      /\ \A k \in DOMAIN Places : Places[k] <= LastPlace
  BY EncodingAssumption, Zenon DEF Numbers, Places, LastPlace
<1>2. /\ encoded.limit = NoLimit \/ encoded.limit \in Nat
      /\ encoded.bytes \in Seq(0 .. 255)
  BY ClassAssumption
<1>. QED
  BY <1>1, <1>2

\* The j-th byte of the number at a place.
NthByte(place, j) == Byte(place + j - 1)

GoesOn(b) == b >= 128 /\ ~ (b < 128)
Ends(b) == b < 128 /\ ~ (b >= 128)

\* The end of a number of so many bytes.
LEMMA EndOfNumber ==
  ASSUME NEW place \in Nat, NEW width \in 1 .. 5,
         \A j \in 1 .. 5 : j < width => GoesOn(NthByte(place, j)),
         width = 5 \/ Ends(NthByte(place, width))
  PROVE  UlebEnd(place) = place + width
<1>. DEFINE P(k) == /\ \A j \in 1 .. k - 1 : NthByte(place, j) >= 128
                    /\ k = 5 \/ NthByte(place, k) < 128
<1>1. ASSUME NEW k \in 1 .. 5, P(k) PROVE k = width
  <2>1. ~ (k < width)
    <3>1. k < width => k # 5
      OBVIOUS
    <3>. QED
      BY <1>1, <3>1 DEF GoesOn
  <2>2. ~ (width < k)
    <3>1. width < k => width \in 1 .. k - 1 /\ width # 5
      BY <1>1
    <3>. QED
      BY <1>1, <3>1 DEF Ends
  <2>. QED
    BY <1>1, <2>1, <2>2
<1>2. P(width)
  <2>1. \A j \in 1 .. width - 1 : j \in 1 .. 5 /\ j < width
    OBVIOUS
  <2>. QED
    BY <2>1 DEF GoesOn, Ends
<1>3. (CHOOSE k \in 1 .. 5 : P(k)) = width
  <2>. HIDE DEF P
  <2>. QED
    BY <1>1, <1>2
<1>. QED
  BY <1>3, Zenon DEF UlebEnd, NthByte

\* Seven bits, with the high bit or without it.
LEMMA SevenBits ==
  ASSUME NEW s \in 0 .. 127, NEW b, NEW high \in BOOLEAN, b = s + (IF high THEN 128 ELSE 0)
  PROVE  /\ b % 128 = s
         /\ high => GoesOn(b)
         /\ ~ high => Ends(b)
         /\ ~ high /\ s <= 15 => b % 16 = s /\ b <= 15
BY DEF GoesOn, Ends

\* The bytes of a number that was written.
LEMMA BytesOfNumber ==
  ASSUME encoded \in ClassItems, NEW k \in 1 .. Len(Numbers)
  PROVE  LET width == Places[k + 1] - Places[k]
             place == Places[k]
             v == Numbers[k]
         IN  /\ place \in Nat /\ Places[k + 1] \in Nat /\ width \in 1 .. 5
             /\ v \in Nat /\ v \div Weights[5] <= 15
             /\ \A j \in 1 .. 5 : /\ j > width => Septet(v, j) = 0
                                  /\ j <= width => NthByte(place, j) % 128 = Septet(v, j)
                                  /\ j < width => GoesOn(NthByte(place, j))
             /\ Ends(NthByte(place, width))
             /\ width = 5 => NthByte(place, 5) % 16 = Septet(v, 5) /\ NthByte(place, 5) <= 15
<1>. DEFINE width == Places[k + 1] - Places[k]
            place == Places[k]
            v == Numbers[k]
<1>1. place \in Nat /\ Places[k + 1] \in Nat /\ v \in Nat /\ IsWritten(encoded, k)
  BY NumbersAsWritten
<1>2. /\ v \div Weights[5] <= 15 /\ width \in 1 .. 5
      /\ \A j \in 1 .. 5 :
           IF j > width THEN Septet(v, j) = 0
           ELSE encoded.bytes[place + j] = Septet(v, j) + (IF j = width THEN 0 ELSE 128)
  BY <1>1, Zenon DEF IsWritten, Numbers, Places
<1>3. /\ \A j \in 1 .. 5 : Septet(v, j) \in 0 .. 127
      /\ Septet(v, 5) <= 15
  BY <1>1, <1>2, SumOfSeptets, Zenon
<1>4. width \in 1 .. 5 /\ width \in Int
  BY <1>2
<1>. HIDE DEF width, place, v
<1>5. ASSUME NEW j \in 1 .. 5
      PROVE  /\ j > width => Septet(v, j) = 0
             /\ j <= width =>
                  /\ NthByte(place, j) % 128 = Septet(v, j)
                  /\ j # width => GoesOn(NthByte(place, j))
                  /\ j = width => Ends(NthByte(place, j))
                  /\ j = width /\ Septet(v, j) <= 15 => NthByte(place, j) % 16 = Septet(v, j) /\ NthByte(place, j) <= 15
  <2>1. (place + j - 1) + 1 = place + j
    BY <1>1
  <2>2. NthByte(place, j) = encoded.bytes[place + j]
    BY <2>1, Zenon DEF NthByte, Byte
  <2>3. j > width => Septet(v, j) = 0
    BY <1>2, Zenon
  <2>4. j <= width => ~ (j > width)
    BY <1>4
  <2>5. j <= width => NthByte(place, j) = Septet(v, j) + (IF j # width THEN 128 ELSE 0)
    BY <1>2, <2>2, <2>4, Zenon
  <2>6. Septet(v, j) \in 0 .. 127 /\ (j # width) \in BOOLEAN
    BY <1>3, Zenon
  <2>7. ASSUME j <= width
        PROVE  /\ NthByte(place, j) % 128 = Septet(v, j)
               /\ (j # width) => GoesOn(NthByte(place, j))
               /\ ~ (j # width) => Ends(NthByte(place, j))
               /\ ~ (j # width) /\ Septet(v, j) <= 15 => NthByte(place, j) % 16 = Septet(v, j) /\ NthByte(place, j) <= 15
    <3>1. NthByte(place, j) = Septet(v, j) + (IF j # width THEN 128 ELSE 0)
      BY <2>5, <2>7, Zenon
    <3>. QED
      BY <2>6, <3>1, SevenBits, Zenon
  <2>. QED
    BY <2>3, <2>7, Zenon
<1>6. \A j \in 1 .. 5 : j < width => j <= width /\ j # width
  BY <1>4
<1>7. width <= width /\ 5 \in 1 .. 5 /\ (width = 5 => 5 <= width)
  BY <1>4
<1>8. \A j \in 1 .. 5 : /\ j > width => Septet(v, j) = 0
                        /\ j <= width => NthByte(place, j) % 128 = Septet(v, j)
                        /\ j < width => GoesOn(NthByte(place, j))
  BY <1>5, <1>6, Zenon
<1>9. Ends(NthByte(place, width))
  BY <1>4, <1>5, <1>7, Zenon
<1>10. width = 5 => NthByte(place, 5) % 16 = Septet(v, 5) /\ NthByte(place, 5) <= 15
  BY <1>3, <1>5, <1>7, Zenon
<1>. QED
  BY <1>1, <1>2, <1>8, <1>9, <1>10, Zenon DEF width, place, v

\* readUnsignedLeb128 at the place of a number that was written.
LEMMA ReadsTheNumber ==
  ASSUME encoded \in ClassItems, NEW k \in 1 .. Len(Numbers)
  PROVE  /\ UlebEnd(Places[k]) = Places[k + 1]
         /\ UlebValue(Places[k]) = Numbers[k]
         /\ UlebOkay(Places[k]) <=> (encoded.limit = NoLimit \/ Places[k + 1] <= encoded.limit)
<1>. DEFINE width == Places[k + 1] - Places[k]
            place == Places[k]
            v == Numbers[k]
<1>1. /\ place \in Nat /\ Places[k + 1] \in Nat /\ width \in 1 .. 5
      /\ \A j \in 1 .. 5 : /\ j > width => Septet(v, j) = 0
                           /\ j <= width => NthByte(place, j) % 128 = Septet(v, j)
                           /\ j < width => GoesOn(NthByte(place, j))
      /\ Ends(NthByte(place, width))
      /\ width = 5 => NthByte(place, 5) % 16 = Septet(v, 5) /\ NthByte(place, 5) <= 15
  BY BytesOfNumber, Zenon
<1>2. Septet(v, 1) + Septet(v, 2) * Weights[2] + Septet(v, 3) * Weights[3]
        + Septet(v, 4) * Weights[4] + Septet(v, 5) * Weights[5] = v
  BY BytesOfNumber, SumOfSeptets, Zenon
<1>3. Places[k + 1] = place + width
  BY <1>1
<1>. HIDE DEF width, place, v
<1>4. UlebEnd(place) = place + width
  BY <1>1, EndOfNumber, Zenon
<1>5. UlebEnd(place) - place = width
  BY <1>1, <1>4
<1>6. width = 5 => Byte(place + 4) % 16 = Septet(v, 5) /\ Byte(place + 4) <= 15
  <2>1. place + 5 - 1 = place + 4
    BY <1>1
  <2>2. NthByte(place, 5) = Byte(place + 4)
    BY <2>1 DEF NthByte
  <2>. QED
    BY <1>1, <2>2, Zenon
<1>. DEFINE n == UlebEnd(place) - place
            bits(j) == IF j > n THEN 0
                       ELSE IF j = 5 THEN Byte(place + 4) % 16 ELSE Byte(place + j - 1) % 128
<1>7. ASSUME NEW j \in 1 .. 5 PROVE bits(j) = Septet(v, j)
  <2>1. (~ (j > width) => j <= width) /\ ((~ (j > width) /\ j = 5) => width = 5)
    BY <1>1
  <2>2. ~ (j > width) => Byte(place + j - 1) % 128 = Septet(v, j)
    BY <1>1, <2>1, Zenon DEF NthByte
  <2>. QED
    BY <1>1, <1>5, <1>6, <2>1, <2>2, Zenon
<1>8. UlebValue(place) = v
  <2>1. UlebValue(place) = bits(1) + bits(2) * Weights[2] + bits(3) * Weights[3] + bits(4) * Weights[4] + bits(5) * Weights[5]
    BY Zenon DEF UlebValue
  <2>2. 1 \in 1 .. 5 /\ 2 \in 1 .. 5 /\ 3 \in 1 .. 5 /\ 4 \in 1 .. 5 /\ 5 \in 1 .. 5
    OBVIOUS
  <2>. HIDE DEF bits, n
  <2>3. bits(1) = Septet(v, 1) /\ bits(2) = Septet(v, 2) /\ bits(3) = Septet(v, 3) /\ bits(4) = Septet(v, 4) /\ bits(5) = Septet(v, 5)
    BY <1>7, <2>2, Zenon
  <2>. QED
    BY <1>2, <2>1, <2>3
<1>9. UlebOkay(place) <=> (encoded.limit = NoLimit \/ place + width <= encoded.limit)
  BY <1>4, <1>5, <1>6, Zenon DEF UlebOkay
<1>. QED
  BY <1>3, <1>4, <1>8, <1>9 DEF place, v

\* A byte is not below what it reaches.
LEMMA ByteReaches == ASSUME NEW b \in 0 .. 255 PROVE (b >= 128 => GoesOn(b)) /\ (b > 15 => ~ (b <= 15))
BY DEF GoesOn

\* What follows the numbers of an item that is no class data.
LEMMA RefusesTheTooLong ==
  ASSUME encoded \in ClassItems, encoded.class.size = 0, encoded.bytes # << >>
  PROVE  ~ UlebOkay(LastPlace)
<1>. DEFINE place == LastPlace
            data == encoded.bytes
<1>1. /\ place + 5 <= Len(data)
      /\ \A j \in 1 .. 4 : data[place + j] >= 128
      /\ data[place + 5] > 15
  BY EncodingAssumption, Zenon DEF Numbers, Places, LastPlace
<1>2. place \in Nat /\ data \in Seq(0 .. 255)
  BY NumbersAsWritten DEF LastPlace
<1>. HIDE DEF place, data
<1>3. ASSUME NEW j \in 1 .. 5
      PROVE  /\ data[place + j] >= 128 => GoesOn(NthByte(place, j))
             /\ data[place + j] > 15 => ~ (NthByte(place, j) <= 15)
  <2>1. (place + j - 1) + 1 = place + j /\ place + j \in 1 .. Len(data)
    BY <1>1, <1>2
  <2>2. NthByte(place, j) = data[place + j]
    BY <2>1, Zenon DEF NthByte, Byte, data
  <2>3. data[place + j] \in 0 .. 255
    <3>. DEFINE Bytes == 0 .. 255
    <3>1. data \in Seq(Bytes)
      BY <1>2
    <3>. HIDE DEF Bytes
    <3>2. data[place + j] \in Bytes
      BY <2>1, <3>1, ElementOfSeq, Zenon
    <3>. QED
      BY <3>2 DEF Bytes
  <2>. QED
    BY <2>2, <2>3, ByteReaches, Zenon
<1>4. \A j \in 1 .. 5 : j < 5 => GoesOn(NthByte(place, j))
  <2>1. \A j \in 1 .. 5 : j < 5 => j \in 1 .. 4
    OBVIOUS
  <2>. QED
    BY <1>1, <1>3, <2>1, Zenon
<1>5. UlebEnd(place) = place + 5
  <2>1. 5 \in 1 .. 5
    OBVIOUS
  <2>. QED
    BY <1>2, <1>4, <2>1, EndOfNumber, Zenon
<1>6. UlebEnd(place) - place = 5
  BY <1>2, <1>5
<1>7. ~ (Byte(place + 4) <= 15)
  <2>1. place + 5 - 1 = place + 4 /\ 5 \in 1 .. 5
    BY <1>2
  <2>2. ~ (NthByte(place, 5) <= 15)
    BY <1>1, <1>3, <2>1, Zenon
  <2>. QED
    BY <2>1, <2>2, Zenon DEF NthByte
<1>. QED
  BY <1>6, <1>7, Zenon DEF UlebOkay, place

-----------------------------------------------------------------------------
(* Several numbers in a row, from the one behind pos others on.             *)

LEMMA BehindNumbers ==
  ASSUME encoded \in ClassItems, NEW pos \in Nat, at = Places[pos + 1],
         NEW n \in Nat, pos + n <= Len(Numbers)
  PROVE  Behind(n) = Places[pos + 1 + n]
<1>. DEFINE g == [ k \in 0 .. n |-> Places[pos + 1 + k] ]
            Is(f) == f = [ k \in 0 .. n |-> IF k = 0 THEN at ELSE UlebEnd(f[k - 1]) ]
            h == CHOOSE f : Is(f)
<1>1. Len(Numbers) \in Nat
  BY NumbersAsWritten
<1>2. Is(g)
  <2>1. ASSUME NEW k \in 0 .. n PROVE g[k] = IF k = 0 THEN at ELSE UlebEnd(g[k - 1])
    <3>1. CASE k = 0
      <4>1. pos + 1 + k = pos + 1
        BY <3>1
      <4>. QED
        BY <3>1, <4>1
    <3>2. CASE k # 0
      <4>1. /\ pos + k \in 1 .. Len(Numbers) /\ k - 1 \in 0 .. n
            /\ pos + 1 + (k - 1) = pos + k /\ pos + 1 + k = (pos + k) + 1
        BY <1>1, <3>2
      <4>2. UlebEnd(Places[pos + k]) = Places[(pos + k) + 1]
        BY <4>1, ReadsTheNumber, Zenon
      <4>3. g[k - 1] = Places[pos + k] /\ g[k] = Places[(pos + k) + 1]
        BY <4>1
      <4>. QED
        BY <3>2, <4>2, <4>3, Zenon
    <3>. QED
      BY <3>1, <3>2
  <2>2. g = [ k \in 0 .. n |-> g[k] ]
    OBVIOUS
  <2>. HIDE DEF g
  <2>. QED
    BY <2>1, <2>2
<1>3. Is(h)
  BY <1>2, Zenon
<1>4. Behind(n) = h[n]
  BY Zenon DEF Behind
<1>. DEFINE S == { k \in Nat : k <= n => h[k] = g[k] }
<1>5. ASSUME NEW k \in 0 .. n PROVE h[k] = IF k = 0 THEN at ELSE UlebEnd(h[k - 1])
  <2>. HIDE DEF h
  <2>. QED
    BY <1>3
<1>6. ASSUME NEW k \in 0 .. n PROVE g[k] = IF k = 0 THEN at ELSE UlebEnd(g[k - 1])
  <2>. HIDE DEF g
  <2>. QED
    BY <1>2
<1>7. n \in S /\ g[n] = Places[pos + 1 + n]
  <2>1. g[n] = Places[pos + 1 + n]
    OBVIOUS
  <2>. HIDE DEF g, h
  <2>2. 0 \in S
    BY <1>5, <1>6
  <2>3. \A k \in Nat : k \in S => k + 1 \in S
    <3>1. ASSUME NEW k \in Nat, k \in S, k + 1 <= n PROVE h[k + 1] = g[k + 1]
      <4>1. k + 1 \in 0 .. n /\ k + 1 # 0 /\ (k + 1) - 1 = k /\ h[k] = g[k]
        BY <3>1
      <4>. QED
        BY <1>5, <1>6, <4>1, Zenon
    <3>. QED
      BY <3>1
  <2>. HIDE DEF S
  <2>. QED
    BY <2>1, <2>2, <2>3, SetInduction
<1>. QED
  BY <1>4, <1>7

\* What is verified of the next n numbers, and which they are.
LEMMA NextNumbers ==
  ASSUME encoded \in ClassItems, NEW pos \in Nat, pos <= Len(Numbers), at = Places[pos + 1], NEW n \in Nat
  PROVE  /\ pos + n <= Len(Numbers) =>
              /\ Behind(n) = Places[pos + n + 1]
              /\ \A k \in 1 .. n : Value(k) = Numbers[pos + k] /\ Value(k) \in Nat
              /\ ~ VerifyUlebs(n) => encoded.limit # NoLimit /\ encoded.limit < LastPlace
         /\ encoded.class.size = 0 /\ encoded.bytes # << >> /\ VerifyUlebs(n) => pos + n <= Len(Numbers)
<1>1. /\ Len(Numbers) \in Nat
      /\ \A k \in 1 .. Len(Numbers) + 1 : Places[k] \in Nat /\ Places[k] <= LastPlace
      /\ \A k \in 1 .. Len(Numbers) : Numbers[k] \in Nat
      /\ encoded.limit = NoLimit \/ encoded.limit \in Nat
  BY NumbersAsWritten
<1>2. ASSUME NEW k \in Nat, pos + k <= Len(Numbers) PROVE Behind(k) = Places[pos + k + 1]
  <2>1. pos + 1 + k = pos + k + 1
    OBVIOUS
  <2>. QED
    BY <1>2, <2>1, BehindNumbers, Zenon
<1>3. ASSUME pos + n <= Len(Numbers), NEW k \in 1 .. n
      PROVE  /\ Behind(k - 1) = Places[pos + k] /\ pos + k \in 1 .. Len(Numbers)
             /\ Value(k) = Numbers[pos + k] /\ Value(k) \in Nat
  <2>1. k - 1 \in Nat /\ pos + (k - 1) <= Len(Numbers) /\ pos + (k - 1) + 1 = pos + k /\ pos + k \in 1 .. Len(Numbers)
    BY <1>1, <1>3
  <2>2. Behind(k - 1) = Places[pos + k]
    BY <1>2, <2>1, Zenon
  <2>3. Value(k) = Numbers[pos + k]
    BY <2>1, <2>2, ReadsTheNumber, Zenon DEF Value
  <2>. QED
    BY <1>1, <2>1, <2>2, <2>3
<1>4. ASSUME pos + n <= Len(Numbers), ~ VerifyUlebs(n)
      PROVE  encoded.limit # NoLimit /\ encoded.limit < LastPlace
  <2>1. PICK k \in 1 .. n : ~ UlebOkay(Behind(k - 1))
    BY <1>4, Zenon DEF VerifyUlebs
  <2>2. ~ (encoded.limit = NoLimit \/ Places[pos + k + 1] <= encoded.limit)
    BY <1>3, <1>4, <2>1, ReadsTheNumber, Zenon
  <2>3. Places[pos + k + 1] \in Nat /\ Places[pos + k + 1] <= LastPlace
    <3>1. pos + k + 1 \in 1 .. Len(Numbers) + 1
      BY <1>1, <1>4
    <3>. QED
      BY <1>1, <3>1, Zenon
  <2>4. LastPlace \in Nat
    BY <1>1 DEF LastPlace
  <2>. QED
    BY <1>1, <2>2, <2>3, <2>4
<1>5. ASSUME encoded.class.size = 0, encoded.bytes # << >>, VerifyUlebs(n), ~ (pos + n <= Len(Numbers))
      PROVE  FALSE
  <2>. DEFINE k == Len(Numbers) - pos
  <2>1. k \in Nat /\ pos + k <= Len(Numbers) /\ pos + k + 1 = Len(Numbers) + 1 /\ k + 1 \in 1 .. n /\ (k + 1) - 1 = k
    BY <1>1, <1>5
  <2>. HIDE DEF k
  <2>2. Behind(k) = LastPlace
    BY <1>2, <2>1 DEF LastPlace
  <2>3. UlebOkay(Behind((k + 1) - 1))
    BY <1>5, <2>1, Zenon DEF VerifyUlebs
  <2>. QED
    BY <1>5, <2>1, <2>2, <2>3, RefusesTheTooLong
<1>. QED
  BY <1>2, <1>3, <1>4, <1>5

-----------------------------------------------------------------------------
(***************************************************************************)
(* The lists: what was read is a beginning of the class written, and the   *)
(* reader stands before the number that follows it.                        *)
(***************************************************************************)

List == Len(lists)
Read == Len(lists[List])

\* The numbers that were read.
Stands == ListsBegin(Numbers)[List] + EntryLength(List) * Read

\* There are four counts, and the reader is in one of the lists.
InLists ==
  /\ encoded.bytes # << >>
  /\ Len(Numbers) >= 4 /\ \A l \in 1 .. 4 : sizes[l] = Numbers[l]
  /\ lists \in Seq(Seq(Seq(Nat))) /\ List \in 1 .. 4 /\ Read <= sizes[List]
  /\ Stands <= Len(Numbers) /\ at = Places[Stands + 1]
  /\ lastIndex \in Nat

AsWritten ==
  LET class == encoded.class
  IN  class.size # 0 =>
        /\ \A l \in 1 .. List - 1 : lists[l] = class.lists[l]
        /\ \A i \in 1 .. Read : lists[List][i] = class.lists[List][i]
        /\ lastIndex = IF Read = 0 THEN 0 ELSE class.lists[List][Read][1]

ClassInv ==
  /\ encoded \in ClassItems
  /\ reader \in {"header", "list", "read", "failed"}
  /\ reader = "header" => at = 0 /\ lastIndex = 0 /\ lists = << >>
  /\ reader = "list" => InLists /\ AsWritten
  /\ reader = "read" =>
       IF encoded.bytes = << >> THEN at = 0 /\ lists = [ k \in 1 .. 4 |-> << >> ]
       ELSE InLists /\ AsWritten /\ List = 4 /\ Read = sizes[4]
  /\ reader = "failed" =>
       /\ lists = << >>
       /\ encoded.class.size = 0 \/ (encoded.limit # NoLimit /\ encoded.limit < encoded.class.size)

\* Where the lists begin, and that the entries lie before the next list.
LEMMA ListsFollow ==
  ASSUME NEW v, v[1] \in Nat, v[2] \in Nat, v[3] \in Nat, v[4] \in Nat
  PROVE  /\ ListsBegin(v)[1] = 4
         /\ ListsBegin(v)[5] \in Nat
         /\ \A l \in 1 .. 4 : /\ EntryLength(l) \in {2, 3} /\ ListsBegin(v)[l] \in Nat
                              /\ ListsBegin(v)[l + 1] = ListsBegin(v)[l] + EntryLength(l) * v[l]
                              /\ ListsBegin(v)[l + 1] <= ListsBegin(v)[5]
<1>1. /\ ListsBegin(v)[1] = 4 /\ ListsBegin(v)[2] = 4 + 2 * v[1] /\ ListsBegin(v)[3] = 4 + 2 * (v[1] + v[2])
      /\ ListsBegin(v)[4] = 4 + 2 * (v[1] + v[2]) + 3 * v[3]
      /\ ListsBegin(v)[5] = 4 + 2 * (v[1] + v[2]) + 3 * (v[3] + v[4])
  BY DEF ListsBegin
<1>2. EntryLength(1) = 2 /\ EntryLength(2) = 2 /\ EntryLength(3) = 3 /\ EntryLength(4) = 3
  BY DEF EntryLength
<1>3. ASSUME NEW l \in 1 .. 4 PROVE l = 1 \/ l = 2 \/ l = 3 \/ l = 4
  OBVIOUS
<1>4. ASSUME NEW l \in 1 .. 4
      PROVE  /\ EntryLength(l) \in {2, 3} /\ ListsBegin(v)[l] \in Nat
             /\ ListsBegin(v)[l + 1] = ListsBegin(v)[l] + EntryLength(l) * v[l]
             /\ ListsBegin(v)[l + 1] <= ListsBegin(v)[5]
  <2>1. CASE l = 1
    BY <1>1, <1>2, <2>1
  <2>2. CASE l = 2
    BY <1>1, <1>2, <2>2
  <2>3. CASE l = 3
    BY <1>1, <1>2, <2>3
  <2>4. CASE l = 4
    BY <1>1, <1>2, <2>4
  <2>. QED
    BY <1>3, <2>1, <2>2, <2>3, <2>4
<1>5. ListsBegin(v)[5] \in Nat
  BY <1>1
<1>. QED
  BY <1>1, <1>4, <1>5

\* One entry more.
LEMMA EntryAfter ==
  ASSUME NEW b \in Nat, NEW e \in {2, 3}, NEW r \in Nat, NEW n \in Nat, r < n
  PROVE  /\ b + e * r \in Nat /\ b + e * (r + 1) = b + e * r + e
         /\ b + e * (r + 1) <= b + e * n
         /\ b + e * ((r + 1) - 1) = b + e * r
<1>1. CASE e = 2
  BY <1>1
<1>2. CASE e = 3
  BY <1>2
<1>. QED
  BY <1>1, <1>2

\* What was written behind the counts.
LEMMA ClassAsWritten ==
  ASSUME encoded \in ClassItems, encoded.class.size # 0
  PROVE  /\ encoded.bytes # << >> /\ LastPlace = encoded.class.size
         /\ Len(Numbers) >= 4 /\ Len(Numbers) = ListsBegin(Numbers)[5]
         /\ encoded.class.lists \in Seq(Seq(Seq(Nat))) /\ Len(encoded.class.lists) = 4
         /\ \A l \in 1 .. 4 : /\ Len(encoded.class.lists[l]) = Numbers[l]
                             /\ \A i \in 1 .. Numbers[l] : EntryWritten(encoded, l, i)
BY EncodingAssumption, Zenon DEF Numbers, Places, LastPlace

LEMMA NoClassAsWritten ==
  ASSUME encoded \in ClassItems, encoded.class.size = 0
  PROVE  /\ encoded.bytes = << >> => encoded.class.lists = << << >>, << >>, << >>, << >> >>
         /\ encoded.bytes # << >> => Len(Numbers) < 4 \/ Len(Numbers) < ListsBegin(Numbers)[5]
BY EncodingAssumption, Zenon DEF Numbers, Places, LastPlace

LEMMA ClassInvInit == ClassInit => ClassInv
<1>. SUFFICES ASSUME NEW c \in ClassItems, ClassStart(c) PROVE ClassInv
  BY DEF ClassInit
<1>. QED
  BY DEF ClassStart, ClassInv

\* A class that was read is the one that was written.
LEMMA ReadIsWritten == ClassInv => ClassReadBack
<1>. SUFFICES ASSUME ClassInv PROVE reader = "read" => lists = encoded.class.lists /\ at = encoded.class.size
  BY DEF ClassInv, ClassReadBack
<1>. SUFFICES ASSUME reader = "read" PROVE lists = encoded.class.lists /\ at = encoded.class.size
  OBVIOUS
<1>. DEFINE class == encoded.class
<1>1. encoded \in ClassItems
  BY DEF ClassInv
<1>2. CASE encoded.bytes = << >>
  <2>1. at = 0 /\ lists = [ k \in 1 .. 4 |-> << >> ]
    BY <1>2 DEF ClassInv
  <2>2. class.size = 0
    BY <1>1, <1>2, ClassAsWritten
  <2>3. class.lists = << << >>, << >>, << >>, << >> >>
    BY <1>1, <1>2, <2>2, NoClassAsWritten
  <2>4. [ k \in 1 .. 4 |-> << >> ] = << << >>, << >>, << >>, << >> >>
    OBVIOUS
  <2>. QED
    BY <2>1, <2>2, <2>3, <2>4
<1>3. CASE encoded.bytes # << >>
  <2>1. InLists /\ AsWritten /\ List = 4 /\ Read = sizes[4]
    BY <1>3 DEF ClassInv
  <2>2. /\ Len(Numbers) \in Nat /\ Len(Numbers) >= 4 /\ sizes[4] = Numbers[4]
        /\ Stands <= Len(Numbers) /\ at = Places[Stands + 1] /\ lists \in Seq(Seq(Seq(Nat)))
    BY <1>1, <2>1, NumbersAsWritten DEF InLists
  <2>3. Numbers[1] \in Nat /\ Numbers[2] \in Nat /\ Numbers[3] \in Nat /\ Numbers[4] \in Nat
    BY <1>1, <2>2, NumbersAsWritten
  <2>4. Stands = ListsBegin(Numbers)[5] /\ ListsBegin(Numbers)[5] \in Nat
    <3>1. Stands = ListsBegin(Numbers)[4] + EntryLength(4) * Numbers[4]
      BY <2>1, <2>2, Zenon DEF Stands
    <3>2. 4 \in 1 .. 4 /\ 4 + 1 = 5
      OBVIOUS
    <3>. QED
      BY <2>3, <3>1, <3>2, ListsFollow, Zenon
  <2>5. class.size # 0
    BY <1>1, <1>3, <2>2, <2>4, NoClassAsWritten
  <2>6. /\ LastPlace = class.size /\ Len(Numbers) = ListsBegin(Numbers)[5]
        /\ class.lists \in Seq(Seq(Seq(Nat))) /\ Len(class.lists) = 4
        /\ Len(class.lists[4]) = Numbers[4]
    BY <1>1, <2>5, ClassAsWritten
  <2>7. at = class.size
    BY <2>2, <2>4, <2>6 DEF LastPlace
  <2>8. lists[4] = class.lists[4]
    <3>1. lists[4] \in Seq(Seq(Nat)) /\ class.lists[4] \in Seq(Seq(Nat)) /\ Len(lists[4]) = Len(class.lists[4])
      BY <2>1, <2>2, <2>6, ElementOfSeq DEF List, Read
    <3>2. \A i \in 1 .. Len(lists[4]) : lists[4][i] = class.lists[4][i]
      BY <2>1, <2>5, Zenon DEF AsWritten, List, Read
    <3>. QED
      BY <3>1, <3>2, SeqEqual
  <2>9. lists = class.lists
    <3>1. Len(lists) = 4 /\ \A l \in 1 .. List - 1 : lists[l] = class.lists[l]
      BY <2>1, <2>5, Zenon DEF AsWritten, List
    <3>2. \A l \in 1 .. 4 : l = 4 \/ l \in 1 .. List - 1
      BY <2>1
    <3>3. \A l \in 1 .. Len(lists) : lists[l] = class.lists[l]
      BY <2>8, <3>1, <3>2, Zenon
    <3>4. Len(lists) = Len(class.lists)
      BY <2>6, <3>1
    <3>. QED
      BY <2>2, <2>6, <3>3, <3>4, SeqEqual, Zenon
  <2>. QED
    BY <2>7, <2>9
<1>. QED
  BY <1>2, <1>3

\* What the action leaves of the lists behind the last one.
LEMMA ListIsList ==
  ASSUME InLists
  PROVE  /\ List \in 1 .. 4 /\ Read \in Nat /\ lists[List] \in Seq(Seq(Nat)) /\ DOMAIN lists = 1 .. List
         /\ sizes[List] = Numbers[List]
<1>1. lists \in Seq(Seq(Seq(Nat))) /\ List \in 1 .. 4 /\ \A l \in 1 .. 4 : sizes[l] = Numbers[l]
  BY DEF InLists
<1>2. List \in 1 .. Len(lists)
  <2>1. List \in 1 .. List
    BY <1>1
  <2>. QED
    BY <2>1 DEF List
<1>3. lists[List] \in Seq(Seq(Nat))
  BY <1>1, <1>2, ElementOfSeq
<1>4. Read \in Nat
  BY <1>3, LenProperties DEF Read
<1>. QED
  BY <1>1, <1>3, <1>4, LenProperties DEF List

\* Where the reader stands, and what is left of its list.
LEMMA StandsInNumbers ==
  ASSUME encoded \in ClassItems, InLists
  PROVE  /\ Stands \in Nat /\ Stands <= Len(Numbers) /\ at = Places[Stands + 1] /\ Len(Numbers) \in Nat
         /\ EntryLength(List) \in {2, 3} /\ ListsBegin(Numbers)[List] \in Nat /\ Numbers[List] \in Nat
         /\ ListsBegin(Numbers)[List + 1] = ListsBegin(Numbers)[List] + EntryLength(List) * Numbers[List]
         /\ ListsBegin(Numbers)[List + 1] <= ListsBegin(Numbers)[5] /\ ListsBegin(Numbers)[5] \in Nat
<1>1. /\ Len(Numbers) \in Nat /\ Len(Numbers) >= 4 /\ List \in 1 .. 4 /\ Read \in Nat
      /\ Stands <= Len(Numbers) /\ at = Places[Stands + 1]
      /\ \A k \in 1 .. Len(Numbers) : Numbers[k] \in Nat
  BY NumbersAsWritten, ListIsList DEF InLists
<1>2. Numbers[1] \in Nat /\ Numbers[2] \in Nat /\ Numbers[3] \in Nat /\ Numbers[4] \in Nat /\ Numbers[List] \in Nat
  BY <1>1
<1>3. /\ EntryLength(List) \in {2, 3} /\ ListsBegin(Numbers)[List] \in Nat
      /\ ListsBegin(Numbers)[List + 1] = ListsBegin(Numbers)[List] + EntryLength(List) * Numbers[List]
      /\ ListsBegin(Numbers)[List + 1] <= ListsBegin(Numbers)[5] /\ ListsBegin(Numbers)[5] \in Nat
  BY <1>1, <1>2, ListsFollow, Zenon
<1>4. Stands \in Nat
  <2>1. EntryLength(List) * Read \in Nat
    <3>1. CASE EntryLength(List) = 2
      BY <1>1, <3>1
    <3>2. CASE EntryLength(List) = 3
      BY <1>1, <3>2
    <3>. QED
      BY <1>3, <3>1, <3>2
  <2>. QED
    BY <1>3, <2>1 DEF Stands
<1>. QED
  BY <1>1, <1>2, <1>3, <1>4

\* The header is the four counts.
LEMMA HeaderStep == ClassInv /\ ReadHeader => ClassInv'
<1>. SUFFICES ASSUME ClassInv, ReadHeader PROVE ClassInv'
  OBVIOUS
<1>1. /\ encoded \in ClassItems /\ at = 0 /\ lastIndex = 0 /\ lists = << >> /\ encoded.bytes # << >>
      /\ encoded' = encoded /\ lastIndex' = lastIndex
  BY DEF ClassInv, ReadHeader
<1>2. Numbers' = Numbers /\ Places' = Places
  BY <1>1 DEF Numbers, Places
<1>3. at = Places[0 + 1] /\ 0 <= Len(Numbers) /\ Len(Numbers) \in Nat
  BY <1>1, NumbersAsWritten
<1>4. /\ 4 <= Len(Numbers) =>
           /\ Behind(4) = Places[4 + 1]
           /\ \A k \in 1 .. 4 : Value(k) = Numbers[k] /\ Value(k) \in Nat
           /\ ~ VerifyUlebs(4) => encoded.limit # NoLimit /\ encoded.limit < LastPlace
      /\ encoded.class.size = 0 /\ VerifyUlebs(4) => 4 <= Len(Numbers)
  <2>1. 0 + 4 = 4 /\ 0 \in Nat /\ 4 \in Nat /\ \A k \in 1 .. 4 : 0 + k = k
    OBVIOUS
  <2>2. /\ 0 + 4 <= Len(Numbers) =>
             /\ Behind(4) = Places[0 + 4 + 1]
             /\ \A k \in 1 .. 4 : Value(k) = Numbers[0 + k] /\ Value(k) \in Nat
             /\ ~ VerifyUlebs(4) => encoded.limit # NoLimit /\ encoded.limit < LastPlace
        /\ encoded.class.size = 0 /\ VerifyUlebs(4) => 0 + 4 <= Len(Numbers)
    BY <1>1, <1>3, <2>1, NextNumbers, Zenon
  <2>. QED
    BY <2>1, <2>2, Zenon
<1>5. encoded.class.size # 0 => Len(Numbers) >= 4 /\ LastPlace = encoded.class.size
  BY <1>1, ClassAsWritten
<1>6. CASE VerifyUlebs(4)
  <2>1. /\ sizes' = [ k \in 1 .. 4 |-> Value(k) ] /\ at' = Behind(4) /\ lists' = << << >> >>
        /\ reader' = "list"
    BY <1>6 DEF ReadHeader
  <2>2. 4 <= Len(Numbers) /\ Len(Numbers) >= 4
    BY <1>3, <1>4, <1>5, <1>6
  <2>3. \A l \in 1 .. 4 : sizes'[l] = Numbers[l] /\ Numbers[l] \in Nat
    BY <1>4, <2>1, <2>2
  <2>4. List' = 1 /\ Read' = 0 /\ lists' \in Seq(Seq(Seq(Nat)))
    BY <2>1 DEF List, Read
  <2>5. Stands' = 4
    <3>1. ListsBegin(Numbers)[1] = 4
      BY <2>3, ListsFollow
    <3>2. EntryLength(1) * 0 = 0
      BY DEF EntryLength
    <3>3. Stands' = ListsBegin(Numbers)[1] + EntryLength(1) * 0
      BY <1>2, <2>4, Zenon DEF Stands
    <3>. QED
      BY <3>1, <3>2, <3>3
  <2>6. at' = Places[Stands' + 1]
    BY <1>4, <2>1, <2>2, <2>5, Zenon
  <2>7. InLists'
    <3>1. Read' <= sizes'[List'] /\ lastIndex' \in Nat
      BY <1>1, <2>3, <2>4
    <3>. QED
      BY <1>1, <1>2, <2>2, <2>3, <2>4, <2>5, <2>6, <3>1 DEF InLists
  <2>8. AsWritten'
    BY <1>1, <2>4 DEF AsWritten
  <2>. QED
    BY <1>1, <2>1, <2>7, <2>8 DEF ClassInv
<1>7. CASE ~ VerifyUlebs(4)
  <2>1. reader' = "failed" /\ lists' = lists
    BY <1>7 DEF ReadHeader
  <2>2. encoded.class.size = 0 \/ (encoded.limit # NoLimit /\ encoded.limit < encoded.class.size)
    <3>1. encoded.class.size # 0 => 4 <= Len(Numbers)
      BY <1>3, <1>5
    <3>. QED
      BY <1>4, <1>5, <1>7, <3>1, Zenon
  <2>. QED
    BY <1>1, <2>1, <2>2 DEF ClassInv
<1>. QED
  BY <1>6, <1>7

\* A list is complete.
LEMMA NextListStep == ClassInv /\ NextList => ClassInv'
<1>. SUFFICES ASSUME ClassInv, NextList PROVE ClassInv'
  OBVIOUS
<1>. DEFINE class == encoded.class
<1>1. /\ encoded \in ClassItems /\ InLists /\ AsWritten /\ Read = sizes[List]
      /\ encoded' = encoded /\ at' = at /\ sizes' = sizes
  BY Zenon DEF ClassInv, NextList, Read, List
<1>2. /\ List \in 1 .. 4 /\ Read \in Nat /\ lists[List] \in Seq(Seq(Nat)) /\ DOMAIN lists = 1 .. List
      /\ sizes[List] = Numbers[List]
  BY <1>1, ListIsList
<1>3. Numbers' = Numbers /\ Places' = Places
  BY <1>1 DEF Numbers, Places
<1>4. /\ Stands \in Nat /\ Stands <= Len(Numbers) /\ at = Places[Stands + 1] /\ Len(Numbers) \in Nat
      /\ EntryLength(List) \in {2, 3} /\ ListsBegin(Numbers)[List] \in Nat /\ Numbers[List] \in Nat
      /\ ListsBegin(Numbers)[List + 1] = ListsBegin(Numbers)[List] + EntryLength(List) * Numbers[List]
  BY <1>1, StandsInNumbers
<1>5. Stands = ListsBegin(Numbers)[List + 1]
  BY <1>1, <1>2, <1>4, Zenon DEF Stands
<1>6. CASE List < 4
  <2>1. lists' = Append(lists, << >>) /\ lastIndex' = 0 /\ reader' = "list"
    BY <1>6, Zenon DEF NextList, InitialIndex, List
  <2>2. /\ lists' \in Seq(Seq(Seq(Nat))) /\ List' = List + 1 /\ lists'[List'] = << >>
        /\ \A l \in 1 .. List : lists'[l] = lists[l]
    <3>1. lists \in Seq(Seq(Seq(Nat))) /\ << >> \in Seq(Seq(Nat))
      BY <1>1 DEF InLists
    <3>. QED
      BY <2>1, <3>1, AppendProperties DEF List
  <2>3. Read' = 0 /\ List' \in 1 .. 4 /\ List' - 1 = List
    BY <1>2, <1>6, <2>2 DEF Read
  <2>4. Stands' = Stands
    <3>1. Stands' = ListsBegin(Numbers)[List + 1] + EntryLength(List + 1) * 0
      BY <1>3, <2>2, <2>3, Zenon DEF Stands
    <3>2. EntryLength(List + 1) * 0 = 0
      BY <1>2 DEF EntryLength
    <3>. QED
      BY <1>4, <1>5, <3>1, <3>2
  <2>5. InLists'
    <3>1. encoded.bytes # << >> /\ Len(Numbers) >= 4 /\ \A l \in 1 .. 4 : sizes[l] = Numbers[l]
      BY <1>1 DEF InLists
    <3>2. \A l \in 1 .. 4 : Numbers[l] \in Nat
      BY <1>1, <3>1, NumbersAsWritten
    <3>3. Read' <= sizes'[List'] /\ lastIndex' \in Nat
      BY <1>1, <2>1, <2>3, <3>1, <3>2
    <3>. QED
      BY <1>1, <1>3, <1>4, <2>2, <2>3, <2>4, <3>1, <3>3, Zenon DEF InLists
  <2>6. AsWritten'
    <3>. SUFFICES ASSUME class.size # 0
                  PROVE  /\ \A l \in 1 .. List : lists'[l] = class.lists[l]
                         /\ \A i \in 1 .. 0 : lists'[List'][i] = class.lists[List'][i]
      BY <1>1, <2>1, <2>3, Zenon DEF AsWritten
    <3>1. lists[List] = class.lists[List]
      <4>1. /\ class.lists \in Seq(Seq(Seq(Nat))) /\ Len(class.lists) = 4
            /\ \A l \in 1 .. 4 : Len(class.lists[l]) = Numbers[l]
        BY <1>1, ClassAsWritten
      <4>2. class.lists[List] \in Seq(Seq(Nat)) /\ Len(lists[List]) = Len(class.lists[List])
        BY <1>1, <1>2, <4>1, ElementOfSeq DEF Read
      <4>3. \A i \in 1 .. Len(lists[List]) : lists[List][i] = class.lists[List][i]
        BY <1>1, Zenon DEF AsWritten, Read
      <4>. QED
        BY <1>2, <4>2, <4>3, SeqEqual
    <3>2. \A l \in 1 .. List - 1 : lists[l] = class.lists[l]
      BY <1>1, Zenon DEF AsWritten
    <3>3. \A l \in 1 .. List : l = List \/ l \in 1 .. List - 1
      BY <1>2
    <3>4. \A l \in 1 .. List : lists'[l] = class.lists[l]
      BY <2>2, <3>1, <3>2, <3>3, Zenon
    <3>5. \A i \in 1 .. 0 : FALSE
      OBVIOUS
    <3>. QED
      BY <3>4, <3>5
  <2>. QED
    BY <1>1, <2>1, <2>5, <2>6 DEF ClassInv
<1>7. CASE ~ (List < 4)
  <2>1. reader' = "read" /\ lists' = lists /\ lastIndex' = lastIndex
    BY <1>7, Zenon DEF NextList, List
  <2>2. List = 4
    BY <1>2, <1>7
  <2>3. List' = List /\ Read' = Read
    BY <2>1 DEF List, Read
  <2>4. Stands' = Stands
    BY <1>3, <2>3 DEF Stands
  <2>5. InLists'
    BY <1>1, <1>3, <2>1, <2>3, <2>4 DEF InLists
  <2>6. AsWritten'
    BY <1>1, <2>1, <2>3 DEF AsWritten
  <2>7. encoded'.bytes # << >>
    BY <1>1 DEF InLists
  <2>. QED
    BY <1>1, <2>1, <2>2, <2>3, <2>5, <2>6, <2>7 DEF ClassInv
<1>. QED
  BY <1>6, <1>7

\* The numbers of an entry, the first of them an index.
LEMMA EntryOf ==
  ASSUME NEW n \in {2, 3}, NEW index \in Nat, \A k \in 1 .. n : Value(k) \in Nat
  PROVE  LET entry == <<index>> \o [ k \in 1 .. n - 1 |-> Value(k + 1) ]
         IN  /\ entry \in Seq(Nat) /\ Len(entry) = n /\ entry[1] = index
             /\ \A j \in 2 .. n : entry[j] = Value(j)
<1>. DEFINE rest == [ k \in 1 .. n - 1 |-> Value(k + 1) ]
            entry == <<index>> \o rest
<1>1. n - 1 \in Nat /\ \A k \in 1 .. n - 1 : k + 1 \in 1 .. n
  OBVIOUS
<1>2. rest \in Seq(Nat) /\ Len(rest) = n - 1 /\ \A k \in 1 .. n - 1 : rest[k] = Value(k + 1)
  <2>1. rest \in [1 .. n - 1 -> Nat]
    BY <1>1
  <2>. QED
    BY <1>1, <2>1
<1>3. <<index>> \in Seq(Nat) /\ Len(<<index>>) = 1 /\ <<index>>[1] = index
  OBVIOUS
<1>. HIDE DEF rest
<1>4. /\ entry \in Seq(Nat) /\ Len(entry) = 1 + (n - 1)
      /\ \A i \in 1 .. 1 + (n - 1) : entry[i] = IF i <= 1 THEN <<index>>[i] ELSE rest[i - 1]
  BY <1>2, <1>3, ConcatProperties
<1>. HIDE DEF entry
<1>5. Len(entry) = n /\ entry[1] = index
  BY <1>3, <1>4
<1>6. ASSUME NEW j \in 2 .. n PROVE entry[j] = Value(j)
  <2>1. j \in 1 .. 1 + (n - 1) /\ ~ (j <= 1) /\ j - 1 \in 1 .. n - 1 /\ (j - 1) + 1 = j
    OBVIOUS
  <2>. QED
    BY <1>2, <1>4, <2>1, Zenon
<1>. QED
  BY <1>4, <1>5, <1>6, Zenon DEF entry, rest

\* The next field or method of a list.
LEMMA EntryStep == ClassInv /\ ReadEntry => ClassInv'
<1>. SUFFICES ASSUME ClassInv, ReadEntry PROVE ClassInv'
  OBVIOUS
<1>. DEFINE class == encoded.class
            n == EntryLength(List)
            index == (lastIndex + Value(1)) % IndexRange
            entry == <<index>> \o [ k \in 1 .. n - 1 |-> Value(k + 1) ]
<1>1. /\ encoded \in ClassItems /\ InLists /\ AsWritten /\ Read < sizes[List]
      /\ encoded' = encoded /\ sizes' = sizes
  BY Zenon DEF ClassInv, ReadEntry, Read, List
<1>2. /\ List \in 1 .. 4 /\ Read \in Nat /\ lists[List] \in Seq(Seq(Nat)) /\ DOMAIN lists = 1 .. List
      /\ sizes[List] = Numbers[List]
  BY <1>1, ListIsList
<1>3. Numbers' = Numbers /\ Places' = Places
  BY <1>1 DEF Numbers, Places
<1>4. /\ Stands \in Nat /\ Stands <= Len(Numbers) /\ at = Places[Stands + 1] /\ Len(Numbers) \in Nat
      /\ n \in {2, 3} /\ ListsBegin(Numbers)[List] \in Nat /\ Numbers[List] \in Nat
      /\ ListsBegin(Numbers)[List + 1] = ListsBegin(Numbers)[List] + n * Numbers[List]
      /\ ListsBegin(Numbers)[List + 1] <= ListsBegin(Numbers)[5] /\ ListsBegin(Numbers)[5] \in Nat
  BY <1>1, StandsInNumbers, Zenon
<1>5. /\ ListsBegin(Numbers)[List] + n * (Read + 1) = Stands + n
      /\ Stands + n <= ListsBegin(Numbers)[5]
      /\ ListsBegin(Numbers)[List] + n * ((Read + 1) - 1) = Stands
  <2>. DEFINE b == ListsBegin(Numbers)[List]
  <2>1. /\ b + n * Read = Stands /\ Read < Numbers[List]
    BY <1>1, <1>2, Zenon DEF Stands
  <2>2. b \in Nat /\ n \in {2, 3} /\ Numbers[List] \in Nat
    BY <1>4, Zenon
  <2>. HIDE DEF n, b
  <2>3. /\ b + n * (Read + 1) = b + n * Read + n /\ b + n * (Read + 1) <= b + n * Numbers[List]
        /\ b + n * ((Read + 1) - 1) = b + n * Read
    BY <1>2, <2>2, <2>1, EntryAfter
  <2>4. Stands + n <= b + n * Numbers[List]
    BY <2>1, <2>3, Zenon
  <2>5. b + n * Numbers[List] = ListsBegin(Numbers)[List + 1]
    BY <1>4 DEF b
  <2>. DEFINE last == ListsBegin(Numbers)[List + 1]
              all == ListsBegin(Numbers)[5]
  <2>6. Stands + n <= last /\ last <= all /\ all \in Nat /\ last \in Int /\ Stands + n \in Nat
    <3>1. last \in Int
      <4>1. n * Numbers[List] \in Int /\ b \in Int
        BY <1>4 DEF b
      <4>. QED
        BY <2>5, <4>1
    <3>. QED
      BY <1>4, <2>4, <2>5, <3>1
  <2>7. Stands + n <= all
    <3>. HIDE DEF last, all
    <3>. QED
      BY <2>6
  <2>. QED
    BY <2>1, <2>3, <2>7, Zenon DEF b
<1>6. /\ Stands + n <= Len(Numbers) =>
           /\ Behind(n) = Places[Stands + n + 1]
           /\ \A k \in 1 .. n : Value(k) = Numbers[Stands + k] /\ Value(k) \in Nat
           /\ ~ VerifyUlebs(n) => encoded.limit # NoLimit /\ encoded.limit < LastPlace
      /\ class.size = 0 /\ VerifyUlebs(n) => Stands + n <= Len(Numbers)
  <2>1. n \in Nat /\ encoded.bytes # << >>
    <3>1. n \in {2, 3} /\ encoded.bytes # << >>
      BY <1>1, <1>4, Zenon DEF InLists
    <3>. HIDE DEF n
    <3>. QED
      BY <3>1
  <2>. QED
    BY <1>1, <1>4, <2>1, NextNumbers, Zenon
<1>7. class.size # 0 => LastPlace = class.size /\ Stands + n <= Len(Numbers)
  BY <1>1, <1>5, ClassAsWritten, Zenon
<1>8. CASE VerifyUlebs(n)
  <2>1. /\ lists' = [lists EXCEPT ![List] = Append(@, entry)]
        /\ at' = Behind(n) /\ lastIndex' = index /\ reader' = "list"
    BY <1>1, <1>8 DEF ReadEntry, ClassInv, List, EntryLength
  <2>2. /\ Stands + n <= Len(Numbers) /\ Behind(n) = Places[Stands + n + 1]
        /\ \A k \in 1 .. n : Value(k) = Numbers[Stands + k] /\ Value(k) \in Nat
    BY <1>6, <1>7, <1>8, Zenon
  <2>3. index \in Nat
    <3>1. lastIndex \in Nat /\ 1 \in 1 .. n /\ IndexRange \in Nat \ {0}
      BY <1>1, <1>4, ClassAssumption DEF InLists
    <3>2. \A x, y \in Nat, r \in Nat \ {0} : (x + y) % r \in Nat
      OBVIOUS
    <3>. QED
      BY <2>2, <3>1, <3>2, Zenon
  <2>4. /\ entry \in Seq(Nat) /\ Len(entry) = n /\ entry[1] = index
        /\ \A j \in 2 .. n : entry[j] = Value(j)
    <3>. HIDE DEF index, n
    <3>. QED
      BY <1>4, <2>2, <2>3, EntryOf, Zenon
  <2>. HIDE DEF entry
  <2>5. /\ Append(lists[List], entry) \in Seq(Seq(Nat))
        /\ Len(Append(lists[List], entry)) = Read + 1
        /\ Append(lists[List], entry)[Read + 1] = entry
        /\ \A i \in 1 .. Read : Append(lists[List], entry)[i] = lists[List][i]
    BY <1>2, <2>4, AppendProperties DEF Read
  <2>6. /\ lists' \in Seq(Seq(Seq(Nat))) /\ Len(lists') = Len(lists)
        /\ lists'[List] = Append(lists[List], entry)
        /\ \A l \in 1 .. List : l # List => lists'[l] = lists[l]
    <3>1. lists \in Seq(Seq(Seq(Nat))) /\ List \in 1 .. Len(lists) /\ List \in DOMAIN lists
      <4>1. List \in 1 .. List
        BY <1>2
      <4>. QED
        BY <1>1, <1>2, <4>1 DEF InLists, List
    <3>2. lists' \in Seq(Seq(Seq(Nat))) /\ Len(lists') = Len(lists)
      BY <2>1, <2>5, <3>1, ExceptSeq
    <3>. QED
      BY <1>2, <2>1, <3>1, <3>2
  <2>7. List' = List /\ Read' = Read + 1
    BY <2>5, <2>6 DEF List, Read
  <2>8. Stands' = Stands + n
    BY <1>3, <1>5, <2>7, Zenon DEF Stands
  <2>9. InLists'
    <3>1. encoded.bytes # << >> /\ Len(Numbers) >= 4 /\ \A l \in 1 .. 4 : sizes[l] = Numbers[l]
      BY <1>1 DEF InLists
    <3>2. Read' <= sizes'[List']
      BY <1>1, <1>2, <1>4, <2>7
    <3>. QED
      BY <1>1, <1>2, <1>3, <2>1, <2>2, <2>3, <2>6, <2>7, <2>8, <3>1, <3>2, Zenon DEF InLists
  <2>10. AsWritten'
    <3>. SUFFICES ASSUME class.size # 0 PROVE AsWritten'
      BY <1>1 DEF AsWritten
    <3>1. /\ \A l \in 1 .. List - 1 : lists[l] = class.lists[l]
          /\ \A i \in 1 .. Read : lists[List][i] = class.lists[List][i]
          /\ lastIndex = IF Read = 0 THEN 0 ELSE class.lists[List][Read][1]
      BY <1>1, Zenon DEF AsWritten
    <3>2. \A l \in 1 .. List - 1 : lists'[l] = class.lists[l]
      <4>1. \A l \in 1 .. List - 1 : l \in 1 .. List /\ l # List
        BY <1>2
      <4>. QED
        BY <2>6, <3>1, <4>1, Zenon
    <3>3. entry = class.lists[List][Read + 1] /\ index = class.lists[List][Read + 1][1]
      <4>. DEFINE written == class.lists[List][Read + 1]
      <4>1. /\ class.lists \in Seq(Seq(Seq(Nat))) /\ Len(class.lists) = 4
            /\ Len(class.lists[List]) = Numbers[List]
            /\ \A i \in 1 .. Numbers[List] : EntryWritten(encoded, List, i)
        BY <1>1, <1>2, ClassAsWritten
      <4>2. Read + 1 \in 1 .. Numbers[List]
        BY <1>1, <1>2, <1>4
      <4>3. written \in Seq(Nat)
        <5>1. class.lists[List] \in Seq(Seq(Nat))
          BY <1>2, <4>1, ElementOfSeq
        <5>. QED
          BY <4>1, <4>2, <5>1, ElementOfSeq
      <4>4. /\ Len(written) = n
            /\ written[1] = (Numbers[Stands + 1]
                              + (IF Read + 1 = 1 THEN 0 ELSE class.lists[List][(Read + 1) - 1][1])) % IndexRange
            /\ \A j \in 2 .. n : written[j] = Numbers[Stands + j]
        <5>1. EntryWritten(encoded, List, Read + 1)
          BY <4>1, <4>2, Zenon
        <5>. QED
          BY <1>5, <5>1, Zenon DEF EntryWritten, Numbers
      <4>5. index = written[1]
        <5>1. (Read + 1) - 1 = Read /\ (Read + 1 = 1 <=> Read = 0)
          BY <1>2
        <5>2. written[1] = (Numbers[Stands + 1] + lastIndex) % IndexRange
          BY <3>1, <4>4, <5>1, Zenon
        <5>3. Value(1) = Numbers[Stands + 1] /\ Value(1) \in Nat /\ lastIndex \in Nat
          <6>1. 1 \in 1 .. n
            BY <1>4
          <6>. QED
            BY <1>1, <2>2, <6>1 DEF InLists
        <5>4. lastIndex + Value(1) = Numbers[Stands + 1] + lastIndex
          BY <5>3
        <5>. QED
          BY <5>2, <5>4, Zenon
      <4>. HIDE DEF written, index, n
      <4>6. \A j \in 1 .. n : entry[j] = written[j]
        <5>1. \A j \in 1 .. n : j = 1 \/ j \in 2 .. n
          BY <1>4
        <5>. QED
          BY <2>2, <2>4, <4>4, <4>5, <5>1, Zenon
      <4>7. entry = written
        BY <2>4, <4>3, <4>4, <4>6, SeqEqual
      <4>. QED
        BY <4>5, <4>7 DEF written
    <3>4. \A i \in 1 .. Read + 1 : lists'[List][i] = class.lists[List][i]
      <4>1. \A i \in 1 .. Read + 1 : i = Read + 1 \/ i \in 1 .. Read
        BY <1>2
      <4>2. lists'[List][Read + 1] = entry /\ \A i \in 1 .. Read : lists'[List][i] = lists[List][i]
        BY <2>5, <2>6, Zenon
      <4>. QED
        BY <3>1, <3>3, <4>1, <4>2, Zenon
    <3>5. lastIndex' = IF Read + 1 = 0 THEN 0 ELSE class.lists[List][Read + 1][1]
      <4>1. Read + 1 # 0
        BY <1>2
      <4>. QED
        BY <2>1, <3>3, <4>1, Zenon
    <3>6. /\ \A l \in 1 .. List' - 1 : lists'[l] = class.lists[l]
          /\ \A i \in 1 .. Read' : lists'[List'][i] = class.lists[List'][i]
          /\ lastIndex' = IF Read' = 0 THEN 0 ELSE class.lists[List'][Read'][1]
      BY <2>7, <3>2, <3>4, <3>5, Zenon
    <3>. QED
      BY <1>1, <3>6, Zenon DEF AsWritten
  <2>. QED
    BY <1>1, <2>1, <2>9, <2>10, Zenon DEF ClassInv
<1>9. CASE ~ VerifyUlebs(n)
  <2>1. reader' = "failed" /\ lists' = << >>
    BY <1>9 DEF ReadEntry, List, EntryLength
  <2>2. class.size = 0 \/ (encoded.limit # NoLimit /\ encoded.limit < class.size)
    BY <1>6, <1>7, <1>9, Zenon
  <2>. QED
    BY <1>1, <2>1, <2>2 DEF ClassInv
<1>. QED
  BY <1>8, <1>9

\* dexReadAndVerifyClassData (DexClass.cpp:103) reads any class data as it was
\* written: four lists, each numbered from its beginning, and the place behind
\* them; it fails only for a limit that lies before their end, and for bytes that
\* are no class data, of which it returns nothing.
THEOREM ReadsTheClass == ClassSpec => []ClassReadBack
<1>1. ClassInv /\ ReadNothing => ClassInv'
  BY DEF ClassInv, ReadNothing
<1>2. ClassInv /\ UNCHANGED classVars => ClassInv'
  <2>. SUFFICES ASSUME ClassInv, UNCHANGED classVars PROVE ClassInv'
    OBVIOUS
  <2>1. UNCHANGED <<encoded, reader, at, sizes, lists, lastIndex>>
    BY DEF classVars
  <2>2. Numbers' = Numbers /\ Places' = Places /\ List' = List /\ Read' = Read /\ Stands' = Stands
    BY <2>1 DEF Numbers, Places, List, Read, Stands
  <2>3. InLists' = InLists /\ AsWritten' = AsWritten
    BY <2>1, <2>2 DEF InLists, AsWritten
  <2>. QED
    BY <2>1, <2>2, <2>3 DEF ClassInv
<1>3. ClassInv /\ [ClassNext]_classVars => ClassInv'
  BY <1>1, <1>2, HeaderStep, EntryStep, NextListStep DEF ClassNext
<1>. QED
  BY <1>3, ClassInvInit, ReadIsWritten, PTL DEF ClassSpec

-----------------------------------------------------------------------------
(***************************************************************************)
(* Debug information: whatever the program of a method, the callback is    *)
(* told of the locals the program describes.  Of each register it is known *)
(* that the ranges told of, with the one that is open, are what the        *)
(* instructions read so far describe, at every address: those before the   *)
(* address reached are settled, those from it on all alike.                *)
(***************************************************************************)

\* SumTo adds one number after the other.
LEMMA SumsGrow ==
  ASSUME NEW s \in Seq(Nat)
  PROVE  /\ SumTo(0, s) = 0
         /\ \A k \in 0 .. Len(s) : SumTo(k, s) \in Nat
         /\ \A k \in 1 .. Len(s) : SumTo(k, s) = SumTo(k - 1, s) + s[k]
<1>. DEFINE m == Len(s)
            Made(f) == f = [ k \in 0 .. m |-> IF k = 0 THEN 0 ELSE f[k - 1] + s[k] ]
            sum == CHOOSE f : Made(f)
            turn == [ p \in Nat \X (1 .. m) |-> p[1] + s[p[2]] ]
<1>1. m \in Nat /\ DOMAIN s = 1 .. m /\ \A k \in 1 .. m : s[k] \in Nat
  BY LenProperties, ElementOfSeq
<1>. HIDE DEF m
<1>2. turn \in [Nat \X (1 .. m) -> Nat] /\ \A x \in Nat, k \in 1 .. m : turn[<<x, k>>] = x + s[k]
  BY <1>1
<1>. HIDE DEF turn
<1>3. PICK f \in [0 .. m -> Nat] : Loop(f, m, 0, turn)
  BY <1>1, <1>2, LoopExists
<1>4. Made(f)
  <2>1. \A k \in 1 .. m : f[k - 1] \in Nat /\ turn[<<f[k - 1], k>>] = f[k - 1] + s[k]
    <3>1. \A k \in 1 .. m : k - 1 \in 0 .. m
      BY <1>1
    <3>. QED
      BY <1>2, <3>1
  <2>2. f = [ k \in 0 .. m |-> IF k = 0 THEN 0 ELSE turn[<<f[k - 1], k>>] ]
    BY <1>3 DEF Loop
  <2>3. \A k \in 0 .. m : k # 0 => k \in 1 .. m
    BY <1>1
  <2>. QED
    BY <2>1, <2>2, <2>3
<1>5. Made(sum)
  <2>. HIDE DEF Made
  <2>. QED
    BY <1>4
<1>6. \A k \in 0 .. m : sum[k] = IF k = 0 THEN 0 ELSE sum[k - 1] + s[k]
  <2>. HIDE DEF sum
  <2>. QED
    BY <1>5
<1>7. \A k \in 0 .. m : SumTo(k, s) = sum[k]
  BY DEF SumTo, m
<1>8. \A k \in 0 .. m : sum[k] \in Nat
  <2>. HIDE DEF sum
  <2>. DEFINE S == { k \in Nat : k <= m => sum[k] \in Nat }
  <2>1. 0 \in S
    BY <1>1, <1>6
  <2>2. ASSUME NEW k \in Nat, k \in S PROVE k + 1 \in S
    <3>1. CASE k + 1 <= m
      <4>1. k + 1 \in 0 .. m /\ k + 1 \in 1 .. m /\ (k + 1) - 1 = k /\ k + 1 # 0 /\ k <= m
        BY <1>1, <3>1
      <4>2. sum[k] \in Nat
        BY <2>2, <4>1
      <4>3. sum[k + 1] = sum[k] + s[k + 1]
        BY <1>6, <4>1
      <4>4. s[k + 1] \in Nat
        BY <1>1, <4>1
      <4>. QED
        BY <4>2, <4>3, <4>4
    <3>. QED
      BY <3>1
  <2>. HIDE DEF S
  <2>3. Nat \subseteq S
    BY <2>1, <2>2, SetInduction
  <2>. QED
    BY <1>1, <2>3 DEF S
<1>. HIDE DEF sum
<1>9. \A k \in 1 .. m : k \in 0 .. m /\ k - 1 \in 0 .. m /\ k # 0
  BY <1>1
<1>10. 0 \in 0 .. m
  BY <1>1
<1>. QED
  BY <1>6, <1>7, <1>8, <1>9, <1>10 DEF m

\* The names of locals.
Texts ==
  {This, NoName} \cup
    UNION { { m.names[k] : k \in DOMAIN m.names } \cup { m.program[i].name : i \in DOMAIN m.program } : m \in DebugMethods }

Records == [reg : Nat, start : Nat, end : Nat, name : Texts]

DebugType ==
  /\ debug \in DebugMethods
  /\ phase \in {"parameters", "program", "finish", "decoded", "undefined"}
  /\ read \in Nat /\ arg \in Nat /\ pc \in Nat /\ line \in Int
  /\ locals \in [Registers -> [name : Texts, start : Nat, live : BOOLEAN]]
  /\ emitted \in Seq(Records) /\ positions \in Seq(Nat \X Int)
  /\ phase = "program" => read < Len(debug.program)
  /\ phase = "parameters" => read <= Len(debug.names) /\ pc = 0 /\ emitted = << >>

\* What the locals told of say is in a register at an address; what the range
\* that is still open says.
Names(told, r, a) ==
  { told[i].name : i \in { j \in DOMAIN told : told[j].reg = r /\ told[j].start <= a /\ a < told[j].end } }

Pending(r, a) == IF locals[r].live /\ locals[r].start <= a THEN {locals[r].name} ELSE {}

ByEnd(told) == \A i \in 2 .. Len(told) : told[i - 1].end <= told[i].end

\* The callbacks are called by ascending addresses, none beyond the one reached.
OrderInv ==
  /\ \A i \in 1 .. Len(positions) : positions[i][1] <= pc
  /\ \A i \in 2 .. Len(positions) : positions[i - 1][1] <= positions[i][1]
  /\ phase # "decoded" => ByEnd(emitted) /\ \A i \in 1 .. Len(emitted) : emitted[i].end <= pc
  /\ pc <= debug.code => ByEnd(emitted)

\* What is in a register at the entry, as far as n parameters say.
EntryTo(r, n) ==
  (IF debug.instance /\ r = debug.registers - debug.ins THEN {This} ELSE {})
  \cup { debug.names[k] : k \in { j \in 1 .. n : debug.names[j] # NoName /\ ParameterAt(j) = r } }

EntryInv ==
  (phase = "parameters" /\ Fits) =>
    /\ read < Len(debug.names) => arg = ParameterAt(read + 1)
    /\ \A r \in Registers :
         /\ read < Len(debug.names) /\ r >= arg => ~ locals[r].live
         /\ locals[r].start = 0
         /\ ~ locals[r].live => locals[r].name = NoName
         /\ EntryTo(r, read) = IF locals[r].live THEN {locals[r].name} ELSE {}

\* The description of a register, as far as n instructions say.
AboutTo(r, n) ==
  { i \in 1 .. n : debug.program[i].op \in {"start_local", "end_local", "restart_local"}
                     /\ debug.program[i].reg % U2Range = r }

Starts(r, i, n) == { j \in AboutTo(r, n) : j <= i /\ debug.program[j].op = "start_local" }

NamedBy(r, starts) ==
  IF starts = {} THEN AtEntry(r)
  ELSE { debug.program[j].name : j \in { k \in starts : \A l \in starts : l <= k } }

NamedTo(r, i, n) == NamedBy(r, Starts(r, i, n))

Until(r, a, n) == { i \in AboutTo(r, n) : AddressOf(i) <= a }

Latest(T) == CHOOSE i \in T : \A j \in T : j <= i

DescribedTo(r, a, n) ==
  IF Until(r, a, n) = {} THEN AtEntry(r)
  ELSE IF debug.program[Latest(Until(r, a, n))].op = "end_local" THEN {}
  ELSE NamedTo(r, Latest(Until(r, a, n)), n)

\* The address reached is that of the next instruction.
AddressInv ==
  phase = "program" => AddressOf(read + 1) = pc /\ \A i \in 1 .. read : AddressOf(i) <= pc

\* What is known of a register is what the instructions that were read say.
AsTold(r) ==
  /\ locals[r].start <= pc
  /\ \/ NamedTo(r, read, read) = {locals[r].name}
     \/ NamedTo(r, read, read) = {} /\ locals[r].name = NoName /\ ~ locals[r].live
  /\ \A a \in Nat : Names(emitted, r, a) \cup Pending(r, a) = DescribedTo(r, a, read)

ToldInv == (phase \in {"program", "finish"} /\ Fits /\ pc < U2Range) => \A r \in Registers : AsTold(r)

DebugInv == DebugType /\ OrderInv /\ EntryInv /\ AddressInv /\ ToldInv /\ RangesAsDescribed

\* What is assumed of the method.
LEMMA MethodFacts ==
  ASSUME debug \in DebugMethods
  PROVE  /\ U2Range \in Nat /\ U2Range > 0
         /\ debug.registers \in Nat /\ debug.registers < U2Range
         /\ debug.ins \in Nat /\ debug.ins <= debug.registers
         /\ debug.instance \in BOOLEAN /\ (debug.instance => debug.ins > 0)
         /\ debug.code \in Nat
         /\ debug.params \in Seq({"wide", "single"})
         /\ Len(debug.names) \in Nat /\ DOMAIN debug.names = 1 .. Len(debug.names)
         /\ Len(debug.program) \in Nat /\ Len(debug.program) > 0 /\ DOMAIN debug.program = 1 .. Len(debug.program)
         /\ debug.program[Len(debug.program)].op = "end_sequence"
         /\ This \in Texts /\ NoName \in Texts
         /\ \A k \in DOMAIN debug.names : debug.names[k] \in Texts
         /\ \A i \in DOMAIN debug.program : debug.program[i].name \in Texts
<1>1. This \in Texts /\ NoName \in Texts
  BY DEF Texts
<1>2. \A k \in DOMAIN debug.names : debug.names[k] \in Texts
  BY DEF Texts
<1>3. \A i \in DOMAIN debug.program : debug.program[i].name \in Texts
  BY DEF Texts
<1>4. U2Range \in Nat /\ U2Range > 0
  BY DebugAssumption
<1>5. /\ debug.registers \in Nat /\ debug.registers < U2Range
      /\ debug.ins \in Nat /\ debug.ins <= debug.registers
  BY <1>4, DebugAssumption
<1>6. /\ debug.instance \in BOOLEAN /\ (debug.instance => debug.ins > 0)
      /\ debug.code \in Nat
      /\ debug.params \in Seq({"wide", "single"})
  BY DebugAssumption
<1>7. /\ Len(debug.names) \in Nat /\ DOMAIN debug.names = 1 .. Len(debug.names)
      /\ Len(debug.program) \in Nat /\ Len(debug.program) > 0 /\ DOMAIN debug.program = 1 .. Len(debug.program)
      /\ debug.program[Len(debug.program)].op = "end_sequence"
  BY DebugAssumption
<1>. QED
  BY <1>1, <1>2, <1>3, <1>4, <1>5, <1>6, <1>7

LEMMA InsnFacts ==
  ASSUME debug \in DebugMethods, NEW i \in 1 .. Len(debug.program)
  PROVE  /\ debug.program[i].op \in {"start_local", "end_local", "restart_local"} => debug.program[i].reg \in Nat
         /\ debug.program[i].op = "advance_pc" => debug.program[i].by \in Nat
         /\ debug.program[i].op = "advance_line" => debug.program[i].by \in Int
         /\ debug.program[i].op = "special" => debug.program[i].by \in 10 .. 255
  BY DebugAssumption

\* An instruction advances the address by a natural number.
LEMMA AdvanceFacts ==
  ASSUME debug \in DebugMethods, NEW i \in 1 .. Len(debug.program)
  PROVE  Advance(i) \in Nat
<1>1. \A b \in 10 .. 255 : (b - 10) \div 15 \in Nat
  OBVIOUS
<1>. QED
  BY <1>1, InsnFacts DEF Advance, FirstSpecial, LineRange

\* The address of an instruction is that of the one before it, advanced.
LEMMA AddressByOne ==
  ASSUME debug \in DebugMethods
  PROVE  /\ AddressOf(1) = 0
         /\ \A i \in 1 .. Len(debug.program) : AddressOf(i) \in Nat
         /\ \A i \in 1 .. Len(debug.program) - 1 : AddressOf(i + 1) = AddressOf(i) + Advance(i)
<1>. DEFINE s == [ j \in DOMAIN debug.program |-> Advance(j) ]
            n == Len(debug.program)
<1>1. n \in Nat /\ n > 0 /\ DOMAIN debug.program = 1 .. n
  BY MethodFacts
<1>2. s \in Seq(Nat) /\ Len(s) = n /\ \A j \in 1 .. n : s[j] = Advance(j)
  BY <1>1, AdvanceFacts
<1>3. \A i : AddressOf(i) = SumTo(i - 1, s)
  BY DEF AddressOf
<1>. HIDE DEF s, n
<1>4. /\ SumTo(0, s) = 0
      /\ \A k \in 0 .. n : SumTo(k, s) \in Nat
      /\ \A k \in 1 .. n : SumTo(k, s) = SumTo(k - 1, s) + s[k]
  BY <1>2, SumsGrow
<1>5. AddressOf(1) = 0
  <2>1. 1 - 1 = 0
    OBVIOUS
  <2>. QED
    BY <1>3, <1>4, <2>1
<1>6. ASSUME NEW i \in 1 .. n PROVE AddressOf(i) \in Nat
  BY <1>1, <1>3, <1>4
<1>7. ASSUME NEW i \in 1 .. n - 1 PROVE AddressOf(i + 1) = AddressOf(i) + Advance(i)
  <2>1. i \in 1 .. n /\ (i + 1) - 1 = i
    BY <1>1
  <2>. QED
    BY <1>2, <1>3, <1>4, <2>1
<1>. QED
  BY <1>5, <1>6, <1>7 DEF n

\* The register of a parameter is that behind the one before it.
LEMMA ParameterByOne ==
  ASSUME debug \in DebugMethods
  PROVE  /\ ParameterAt(1) = debug.registers - debug.ins + (IF debug.instance THEN 1 ELSE 0)
         /\ \A k \in 1 .. Len(debug.params) :
              /\ ParameterAt(k) \in Nat
              /\ ParameterAt(k + 1) = ParameterAt(k) + ParameterWidth(debug.params[k])
<1>. DEFINE s == [ j \in DOMAIN debug.params |-> IF debug.params[j] = "wide" THEN 2 ELSE 1 ]
            n == Len(debug.params)
            base == debug.registers - debug.ins + (IF debug.instance THEN 1 ELSE 0)
<1>1. n \in Nat /\ DOMAIN debug.params = 1 .. n
  BY MethodFacts
<1>2. s \in Seq(Nat) /\ Len(s) = n /\ \A j \in 1 .. n : s[j] = ParameterWidth(debug.params[j])
  BY <1>1 DEF ParameterWidth
<1>3. \A k : ParameterAt(k) = base + SumTo(k - 1, s)
  BY DEF ParameterAt
<1>4. base \in Nat
  BY MethodFacts
<1>. HIDE DEF s, n, base
<1>5. /\ SumTo(0, s) = 0
      /\ \A k \in 0 .. n : SumTo(k, s) \in Nat
      /\ \A k \in 1 .. n : SumTo(k, s) = SumTo(k - 1, s) + s[k]
  BY <1>2, SumsGrow
<1>6. ParameterAt(1) = base
  <2>1. 1 - 1 = 0
    OBVIOUS
  <2>. QED
    BY <1>3, <1>4, <1>5, <2>1
<1>7. ASSUME NEW k \in 1 .. n
      PROVE  ParameterAt(k) \in Nat /\ ParameterAt(k + 1) = ParameterAt(k) + ParameterWidth(debug.params[k])
  <2>1. k - 1 \in 0 .. n /\ k \in 0 .. n /\ (k + 1) - 1 = k
    BY <1>1
  <2>2. SumTo(k - 1, s) \in Nat /\ SumTo(k, s) \in Nat /\ s[k] = ParameterWidth(debug.params[k])
        /\ SumTo(k, s) = SumTo(k - 1, s) + s[k]
    BY <1>2, <1>5, <2>1
  <2>3. s[k] \in Nat
    BY <1>1, <1>2, ElementOfSeq
  <2>4. ParameterAt(k) = base + SumTo(k - 1, s) /\ ParameterAt(k + 1) = base + SumTo(k, s)
    BY <1>3, <2>1
  <2>. QED
    BY <1>4, <2>2, <2>3, <2>4
<1>. QED
  BY <1>6, <1>7 DEF n, base

\* What a sequence of locals names, with one more local.
LEMMA NamesWithOne ==
  ASSUME NEW told \in Seq(Records), NEW e \in Records, NEW r, NEW a
  PROVE  /\ Append(told, e) \in Seq(Records)
         /\ Names(Append(told, e), r, a)
              = Names(told, r, a) \cup (IF e.reg = r /\ e.start <= a /\ a < e.end THEN {e.name} ELSE {})
<1>. DEFINE more == Append(told, e)
            m == Len(told)
            In(x) == x.reg = r /\ x.start <= a /\ a < x.end
<1>1. m \in Nat /\ DOMAIN told = 1 .. m
  BY LenProperties
<1>2. more \in Seq(Records) /\ DOMAIN more = 1 .. m + 1 /\ more[m + 1] = e /\ \A i \in 1 .. m : more[i] = told[i]
  BY AppendProperties, LenProperties
<1>. HIDE DEF more, m
<1>3. \A i \in 1 .. m + 1 : i \in 1 .. m \/ i = m + 1
  BY <1>1
<1>4. m + 1 \in 1 .. m + 1 /\ \A i \in 1 .. m : i \in 1 .. m + 1
  BY <1>1
<1>5. \A s, n : n \in Names(s, r, a) <=> \E i \in DOMAIN s : In(s[i]) /\ s[i].name = n
  BY DEF Names
<1>. HIDE DEF In
<1>6. \A n : n \in Names(more, r, a) <=> n \in Names(told, r, a) \/ (In(e) /\ n = e.name)
  <2>. TAKE n
  <2>1. ASSUME n \in Names(more, r, a) PROVE n \in Names(told, r, a) \/ (In(e) /\ n = e.name)
    <3>1. PICK i \in 1 .. m + 1 : In(more[i]) /\ more[i].name = n
      <4>1. \E i \in DOMAIN more : In(more[i]) /\ more[i].name = n
        BY <1>5, <2>1, Zenon
      <4>. QED
        BY <1>2, <4>1, Zenon
    <3>2. CASE i = m + 1
      BY <1>2, <3>1, <3>2
    <3>3. CASE i \in 1 .. m
      <4>1. more[i] = told[i] /\ i \in DOMAIN told
        BY <1>1, <1>2, <3>3
      <4>2. In(told[i]) /\ told[i].name = n
        BY <3>1, <4>1
      <4>. QED
        BY <1>5, <4>1, <4>2
    <3>. QED
      BY <1>3, <3>1, <3>2, <3>3
  <2>2. ASSUME n \in Names(told, r, a) PROVE n \in Names(more, r, a)
    <3>1. PICK i \in 1 .. m : In(told[i]) /\ told[i].name = n
      BY <1>1, <1>5, <2>2
    <3>2. more[i] = told[i] /\ i \in DOMAIN more
      BY <1>2, <1>4
    <3>3. In(more[i]) /\ more[i].name = n
      BY <3>1, <3>2
    <3>. QED
      BY <1>5, <3>2, <3>3
  <2>3. ASSUME In(e), n = e.name PROVE n \in Names(more, r, a)
    BY <1>2, <1>4, <1>5, <2>3, Zenon
  <2>. QED
    BY <2>1, <2>2, <2>3
<1>7. Names(more, r, a) = Names(told, r, a) \cup (IF In(e) THEN {e.name} ELSE {})
  BY <1>6
<1>. QED
  BY <1>2, <1>7 DEF more, In

LEMMA RegisterFacts ==
  ASSUME DebugType, NEW r \in Registers
  PROVE  /\ r \in Nat
         /\ locals[r].name \in Texts /\ locals[r].start \in Nat /\ locals[r].live \in BOOLEAN
<1>1. r \in Nat
  BY MethodFacts DEF DebugType, Registers
<1>2. locals[r] \in [name : Texts, start : Nat, live : BOOLEAN]
  BY DEF DebugType
<1>. QED
  BY <1>1, <1>2

\* What a local that is told of adds to the names.
LEMMA NamesWithLocal ==
  ASSUME DebugType, NEW told \in Seq(Records), NEW x \in Registers, NEW end \in Nat
  PROVE  /\ Emit(told, x, end) \in Seq(Records)
         /\ \A r, a : Names(Emit(told, x, end), r, a)
              = Names(told, r, a)
                  \cup (IF x = r /\ locals[x].live /\ locals[x].start <= a /\ a < end THEN {locals[x].name} ELSE {})
<1>. DEFINE e == [reg |-> x, start |-> locals[x].start, end |-> end, name |-> locals[x].name]
<1>1. e \in Records /\ e.reg = x /\ e.start = locals[x].start /\ e.end = end /\ e.name = locals[x].name
  BY RegisterFacts DEF Records
<1>2. Emit(told, x, end) = IF locals[x].live THEN Append(told, e) ELSE told
  BY DEF Emit
<1>. HIDE DEF e
<1>3. CASE locals[x].live
  <2>1. Append(told, e) \in Seq(Records)
        /\ \A r, a : Names(Append(told, e), r, a)
              = Names(told, r, a) \cup (IF e.reg = r /\ e.start <= a /\ a < e.end THEN {e.name} ELSE {})
    BY <1>1, NamesWithOne
  <2>. QED
    BY <1>1, <1>2, <1>3, <2>1
<1>4. CASE ~ locals[x].live
  BY <1>2, <1>4
<1>. QED
  BY <1>3, <1>4

\* The ends stay in order with one that is no smaller than the others.
LEMMA EndsWithLocal ==
  ASSUME DebugType, NEW told \in Seq(Records), NEW x \in Registers, NEW end \in Nat,
         ByEnd(told), \A i \in 1 .. Len(told) : told[i].end <= end
  PROVE  /\ ByEnd(Emit(told, x, end))
         /\ \A i \in 1 .. Len(Emit(told, x, end)) : Emit(told, x, end)[i].end <= end
<1>. DEFINE e == [reg |-> x, start |-> locals[x].start, end |-> end, name |-> locals[x].name]
            m == Len(told)
            more == Append(told, e)
<1>1. e \in Records /\ e.end = end
  BY RegisterFacts DEF Records
<1>2. Emit(told, x, end) = IF locals[x].live THEN more ELSE told
  BY DEF Emit
<1>. HIDE DEF e
<1>3. m \in Nat /\ Len(more) = m + 1 /\ more[m + 1] = e /\ \A i \in 1 .. m : more[i] = told[i]
  BY <1>1, AppendProperties, LenProperties
<1>. HIDE DEF m, more
<1>4. \A i \in 1 .. m + 1 : more[i].end <= end
  <2>1. \A i \in 1 .. m + 1 : i \in 1 .. m \/ i = m + 1
    BY <1>3
  <2>. QED
    BY <1>1, <1>3, <2>1 DEF m
<1>5. ASSUME NEW i \in 2 .. m + 1 PROVE more[i - 1].end <= more[i].end
  <2>1. CASE i = m + 1
    <3>1. i - 1 \in 1 .. m + 1
      BY <1>3
    <3>2. more[i - 1].end <= end
      BY <1>4, <3>1
    <3>. QED
      BY <1>1, <1>3, <2>1, <3>2
  <2>2. CASE i # m + 1
    <3>1. i \in 2 .. m /\ i \in 1 .. m /\ i - 1 \in 1 .. m
      BY <1>3, <2>2
    <3>. QED
      BY <1>3, <3>1 DEF ByEnd, m
  <2>. QED
    BY <2>1, <2>2
<1>. QED
  BY <1>2, <1>3, <1>4, <1>5 DEF ByEnd, m

LEMMA LastIsLast ==
  ASSUME NEW n \in Nat, NEW T \in SUBSET (1 .. n), T # {}
  PROVE  Latest(T) \in T /\ Latest(T) \in 1 .. n
<1>1. T \in SUBSET Int /\ n \in Int /\ (\A y \in T : y <= n) /\ \A y \in T : y \in 1 .. n
  OBVIOUS
<1>2. Max(T) \in T /\ \A y \in T : y <= Max(T)
  BY <1>1, MaxIsGreatest, Zenon
<1>. QED
  BY <1>1, <1>2 DEF Latest

LEMMA LastIs ==
  ASSUME NEW n \in Nat, NEW T \in SUBSET (1 .. n), NEW x \in T, \A y \in T : y <= x
  PROVE  Latest(T) = x
<1>1. \A y \in T : (\A j \in T : j <= y) => y = x
  <2>1. \A y \in T : y \in Int
    OBVIOUS
  <2>. QED
    BY <2>1
<1>. QED
  BY <1>1 DEF Latest

\* The instructions about a register, with one more of the program.
LEMMA AboutOne ==
  ASSUME NEW n \in Nat, NEW r
  PROVE  /\ AboutTo(r, n) \in SUBSET (1 .. n)
         /\ AboutTo(r, n + 1)
              = AboutTo(r, n) \cup
                  (IF /\ debug.program[n + 1].op \in {"start_local", "end_local", "restart_local"}
                      /\ debug.program[n + 1].reg % U2Range = r THEN {n + 1} ELSE {})
<1>1. \A i : i \in 1 .. n + 1 <=> i \in 1 .. n \/ i = n + 1
  OBVIOUS
<1>. QED
  BY <1>1 DEF AboutTo

\* One that is not about the register leaves its description as it is.
LEMMA DescribedAsBefore ==
  ASSUME NEW n \in Nat, NEW r, AboutTo(r, n + 1) = AboutTo(r, n)
  PROVE  /\ NamedTo(r, n + 1, n + 1) = NamedTo(r, n, n)
         /\ \A a : DescribedTo(r, a, n + 1) = DescribedTo(r, a, n)
<1>1. \A i : Starts(r, i, n + 1) = Starts(r, i, n)
  BY DEF Starts
<1>2. Starts(r, n + 1, n) = Starts(r, n, n)
  <2>1. \A j \in AboutTo(r, n) : j <= n + 1 <=> j <= n
    BY AboutOne
  <2>. QED
    BY <2>1 DEF Starts
<1>3. \A a : Until(r, a, n + 1) = Until(r, a, n)
  BY DEF Until
<1>4. \A i : NamedTo(r, i, n + 1) = NamedTo(r, i, n)
  BY <1>1 DEF NamedTo
<1>5. NamedTo(r, n + 1, n) = NamedTo(r, n, n)
  BY <1>2 DEF NamedTo
<1>. QED
  BY <1>3, <1>4, <1>5 DEF DescribedTo

\* One about the register is what describes it from its address on, and
\* changes nothing before it.
LEMMA DescribedAnew ==
  ASSUME NEW n \in Nat, NEW r, NEW here \in Nat, AddressOf(n + 1) = here, \A i \in 1 .. n : AddressOf(i) \in Nat /\ AddressOf(i) <= here,
         AboutTo(r, n + 1) = AboutTo(r, n) \cup {n + 1}
  PROVE  /\ NamedTo(r, n + 1, n + 1) = IF debug.program[n + 1].op = "start_local" THEN {debug.program[n + 1].name}
                                       ELSE NamedTo(r, n, n)
         /\ \A a \in Nat : a < here => DescribedTo(r, a, n + 1) = DescribedTo(r, a, n)
         /\ \A a \in Nat : here <= a => DescribedTo(r, a, n + 1) = IF debug.program[n + 1].op = "end_local" THEN {}
                                                                ELSE NamedTo(r, n + 1, n + 1)
<1>1. AboutTo(r, n) \in SUBSET (1 .. n) /\ n + 1 \notin AboutTo(r, n) /\ AboutTo(r, n + 1) \in SUBSET (1 .. n + 1)
  <2>1. n + 1 \in Nat /\ n + 1 \notin 1 .. n
    OBVIOUS
  <2>. QED
    BY <2>1, AboutOne
<1>2. \A i \in 1 .. n : Starts(r, i, n + 1) = Starts(r, i, n)
  <2>1. \A i \in 1 .. n : ~ (n + 1 <= i)
    OBVIOUS
  <2>. QED
    BY <2>1 DEF Starts
<1>3. Starts(r, n + 1, n + 1)
        = Starts(r, n, n) \cup (IF debug.program[n + 1].op = "start_local" THEN {n + 1} ELSE {})
  <2>1. \A j \in AboutTo(r, n) : j <= n + 1 /\ j <= n
    BY <1>1
  <2>2. n + 1 <= n + 1
    OBVIOUS
  <2>. QED
    BY <2>1, <2>2 DEF Starts
<1>4. NamedTo(r, n + 1, n + 1) = IF debug.program[n + 1].op = "start_local" THEN {debug.program[n + 1].name}
                                 ELSE NamedTo(r, n, n)
  <2>1. CASE debug.program[n + 1].op = "start_local"
    <3>. DEFINE S == Starts(r, n + 1, n + 1)
    <3>1. n + 1 \in S /\ \A l \in S : l \in 1 .. n + 1
      BY <1>1, <1>3, <2>1 DEF Starts
    <3>. HIDE DEF S
    <3>2. \A l \in S : l <= n + 1 /\ (n + 1 <= l => l = n + 1)
      BY <3>1
    <3>3. { k \in S : \A l \in S : l <= k } = {n + 1}
      BY <3>1, <3>2
    <3>. QED
      BY <2>1, <3>1, <3>3 DEF NamedTo, NamedBy, S
  <2>2. CASE debug.program[n + 1].op # "start_local"
    <3>1. Starts(r, n + 1, n + 1) = Starts(r, n, n)
      BY <1>3, <2>2
    <3>. QED
      BY <2>2, <3>1 DEF NamedTo
  <2>. QED
    BY <2>1, <2>2
<1>5. ASSUME NEW a \in Nat, a < here PROVE DescribedTo(r, a, n + 1) = DescribedTo(r, a, n)
  <2>1. Until(r, a, n + 1) = Until(r, a, n)
    <3>1. ~ (AddressOf(n + 1) <= a)
      BY <1>5
    <3>. QED
      BY <3>1 DEF Until
  <2>2. CASE Until(r, a, n) = {}
    BY <2>1, <2>2 DEF DescribedTo
  <2>3. CASE Until(r, a, n) # {}
    <3>1. Until(r, a, n) \in SUBSET (1 .. n)
      BY <1>1 DEF Until
    <3>2. Latest(Until(r, a, n)) \in 1 .. n
      BY <2>3, <3>1, LastIsLast
    <3>3. NamedTo(r, Latest(Until(r, a, n)), n + 1) = NamedTo(r, Latest(Until(r, a, n)), n)
      BY <1>2, <3>2 DEF NamedTo
    <3>. QED
      BY <2>1, <2>3, <3>3 DEF DescribedTo
  <2>. QED
    BY <2>2, <2>3
<1>6. ASSUME NEW a \in Nat, here <= a
      PROVE  DescribedTo(r, a, n + 1) = IF debug.program[n + 1].op = "end_local" THEN {} ELSE NamedTo(r, n + 1, n + 1)
  <2>1. n + 1 \in Until(r, a, n + 1) /\ Until(r, a, n + 1) \in SUBSET (1 .. n + 1)
    BY <1>1, <1>6 DEF Until
  <2>2. \A y \in Until(r, a, n + 1) : y <= n + 1
    BY <2>1
  <2>3. n + 1 \in Nat
    OBVIOUS
  <2>4. Latest(Until(r, a, n + 1)) = n + 1
    BY <2>1, <2>2, <2>3, LastIs
  <2>. QED
    BY <2>1, <2>4 DEF DescribedTo
<1>. QED
  BY <1>4, <1>5, <1>6

\* What is said of the method alone stays as it is while the method does.
LEMMA MethodStays ==
  ASSUME debug' = debug
  PROVE  /\ Registers' = Registers
         /\ \A i : AddressOf(i)' = AddressOf(i)
         /\ Fits' = Fits
         /\ \A k : ParameterAt(k)' = ParameterAt(k)
         /\ \A r, n : EntryTo(r, n)' = EntryTo(r, n)
         /\ \A r, n : AboutTo(r, n)' = AboutTo(r, n)
         /\ \A r, i, n : NamedTo(r, i, n)' = NamedTo(r, i, n)
         /\ \A r, a, n : DescribedTo(r, a, n)' = DescribedTo(r, a, n)
<1>1. Registers' = Registers
  BY DEF Registers
<1>2. \A j : Advance(j)' = Advance(j)
  BY DEF Advance
<1>3. \A i : AddressOf(i)' = AddressOf(i)
  BY <1>2 DEF AddressOf
<1>4. \A k : ParameterAt(k)' = ParameterAt(k)
  BY DEF ParameterAt
<1>5. Fits' = Fits
  BY <1>4 DEF Fits
<1>6. \A r, n : EntryTo(r, n)' = EntryTo(r, n)
  BY <1>4 DEF EntryTo
<1>7. \A r, n : AboutTo(r, n)' = AboutTo(r, n)
  BY DEF AboutTo
<1>8. \A r : AtEntry(r)' = AtEntry(r)
  BY <1>4 DEF AtEntry
<1>9. \A r, i, n : Starts(r, i, n)' = Starts(r, i, n)
  BY <1>7 DEF Starts
<1>10. \A r, i, n : NamedTo(r, i, n)' = NamedTo(r, i, n)
  BY <1>8, <1>9 DEF NamedTo, NamedBy
<1>11. \A r, a, n : Until(r, a, n)' = Until(r, a, n)
  BY <1>3, <1>7 DEF Until
<1>12. \A r, a, n : DescribedTo(r, a, n)' = DescribedTo(r, a, n)
  BY <1>8, <1>10, <1>11 DEF DescribedTo
<1>. QED
  BY <1>1, <1>3, <1>4, <1>5, <1>6, <1>7, <1>10, <1>12

\* What Described says is DescribedTo, of what was read.
LEMMA DescribedIs == \A r, a : Described(r, a) = DescribedTo(r, a, read)
<1>1. \A r : About(r) = AboutTo(r, read)
  BY DEF About, AboutTo
<1>2. \A r, i : Named(r, i) = NamedTo(r, i, read)
  BY <1>1 DEF Named, NamedTo, NamedBy, Starts
<1>. TAKE r, a
<1>. DEFINE until == { i \in About(r) : AddressOf(i) <= a }
<1>3. until = Until(r, a, read)
  BY <1>1 DEF Until
<1>4. Described(r, a) = IF until = {} THEN AtEntry(r)
                        ELSE IF debug.program[Latest(until)].op = "end_local" THEN {} ELSE Named(r, Latest(until))
  BY DEF Described, Latest
<1>. HIDE DEF until
<1>. QED
  BY <1>2, <1>3, <1>4 DEF DescribedTo

\* Nothing is told before the program is read.
LEMMA NoNames == \A r, a : Names(<< >>, r, a) = {}
  BY DEF Names

LEMMA DebugInitial == DebugInit => DebugInv
<1>. SUFFICES ASSUME NEW m \in DebugMethods, DebugStart(m) PROVE DebugInv
  BY DEF DebugInit
<1>1. debug \in DebugMethods /\ phase = "parameters" /\ read = 0 /\ pc = 0 /\ line = 1 /\ emitted = << >> /\ positions = << >>
  BY DEF DebugStart
<1>2. arg = debug.registers - debug.ins + (IF debug.instance THEN 1 ELSE 0)
  BY DEF DebugStart
<1>3. arg \in Nat
  BY <1>1, <1>2, MethodFacts
<1>. DEFINE first(r) == debug.instance /\ r = debug.registers - debug.ins
<1>4. DOMAIN locals = Registers /\ \A r \in Registers : locals[r] = IF first(r) THEN Local(This, 0, TRUE) ELSE Unused
  BY DEF DebugStart, Registers
<1>5. \A r \in Registers : locals[r] \in [name : Texts, start : Nat, live : BOOLEAN]
  <2>1. This \in Texts /\ NoName \in Texts
    BY <1>1, MethodFacts
  <2>2. Local(This, 0, TRUE) \in [name : Texts, start : Nat, live : BOOLEAN]
        /\ Unused \in [name : Texts, start : Nat, live : BOOLEAN]
    BY <2>1 DEF Local, Unused
  <2>3. \A r \in Registers : locals[r] = Local(This, 0, TRUE) \/ locals[r] = Unused
    <3>. HIDE DEF first
    <3>. QED
      BY <1>4
  <2>. QED
    BY <2>2, <2>3
<1>6. locals \in [Registers -> [name : Texts, start : Nat, live : BOOLEAN]]
  <2>1. locals = [ r \in Registers |-> locals[r] ]
    BY DEF DebugStart, Registers
  <2>. QED
    BY <1>5, <2>1
<1>7. DebugType
  <2>1. Len(debug.names) \in Nat
    BY <1>1, MethodFacts
  <2>. QED
    BY <1>1, <1>3, <1>6, <2>1 DEF DebugType
<1>8. OrderInv
  BY <1>1 DEF OrderInv, ByEnd
<1>9. EntryInv
  <2>1. 0 + 1 = 1
    OBVIOUS
  <2>2. arg = ParameterAt(read + 1)
    BY <1>1, <1>2, <2>1, ParameterByOne
  <2>3. ASSUME NEW r \in Registers, r >= arg PROVE ~ locals[r].live
    <3>1. ~ first(r)
      BY <1>1, <1>2, <2>3, MethodFacts DEF Registers
    <3>. QED
      BY <1>4, <3>1 DEF Unused, Local
  <2>4. ASSUME NEW r \in Registers
        PROVE  /\ locals[r].start = 0
               /\ ~ locals[r].live => locals[r].name = NoName
               /\ EntryTo(r, read) = IF locals[r].live THEN {locals[r].name} ELSE {}
    <3>1. EntryTo(r, read) = IF first(r) THEN {This} ELSE {}
      BY <1>1 DEF EntryTo
    <3>2. CASE first(r)
      BY <1>4, <3>1, <3>2 DEF Local
    <3>3. CASE ~ first(r)
      BY <1>4, <3>1, <3>3 DEF Local, Unused
    <3>. QED
      BY <3>2, <3>3
  <2>. QED
    BY <2>2, <2>3, <2>4 DEF EntryInv
<1>10. AddressInv /\ ToldInv /\ RangesAsDescribed
  BY <1>1 DEF AddressInv, ToldInv, RangesAsDescribed
<1>. QED
  BY <1>7, <1>8, <1>9, <1>10 DEF DebugInv

\* Who is told of nothing is told in order.
LEMMA OrderStays ==
  ASSUME DebugType, OrderInv, phase # "decoded", debug' = debug, emitted' = emitted, positions' = positions,
         pc' \in Nat, pc <= pc'
  PROVE  OrderInv'
<1>1. \A i \in 1 .. Len(positions) : positions[i][1] <= pc'
  <2>. TAKE i \in 1 .. Len(positions)
  <2>1. positions[i] \in Nat \X Int
    BY ElementOfSeq DEF DebugType
  <2>2. positions[i][1] \in Nat /\ positions[i][1] <= pc
    BY <2>1 DEF OrderInv
  <2>3. pc \in Nat
    BY DEF DebugType
  <2>. QED
    BY <2>2, <2>3
<1>2. \A i \in 1 .. Len(emitted) : emitted[i].end <= pc'
  <2>1. \A i \in 1 .. Len(emitted) : emitted[i].end \in Nat /\ emitted[i].end <= pc
    <3>. TAKE i \in 1 .. Len(emitted)
    <3>1. emitted[i] \in Records
      BY ElementOfSeq DEF DebugType
    <3>. QED
      BY <3>1 DEF OrderInv, Records
  <2>. QED
    BY <2>1 DEF DebugType
<1>3. ByEnd(emitted) /\ ByEnd(emitted')
  BY DEF OrderInv
<1>4. (ByEnd(emitted))'
  BY <1>3 DEF ByEnd
<1>. QED
  BY <1>1, <1>2, <1>4 DEF OrderInv

\* The parameters that are read, with one more.
LEMMA EntryByOne ==
  ASSUME NEW r, NEW n \in Nat
  PROVE  EntryTo(r, n + 1)
           = EntryTo(r, n) \cup
               (IF debug.names[n + 1] # NoName /\ ParameterAt(n + 1) = r THEN {debug.names[n + 1]} ELSE {})
<1>1. \A j : j \in 1 .. n + 1 <=> j \in 1 .. n \/ j = n + 1
  OBVIOUS
<1>. QED
  BY <1>1 DEF EntryTo

\* Before the program is read, each register holds what it holds at the entry.
LEMMA DescribedAtEntry ==
  \A r : NamedTo(r, 0, 0) = AtEntry(r) /\ \A a : DescribedTo(r, a, 0) = AtEntry(r)
<1>1. \A r : AboutTo(r, 0) = {}
  BY DEF AboutTo
<1>. QED
  BY <1>1 DEF NamedTo, NamedBy, Starts, DescribedTo, Until

LEMMA ParametersEnd ==
  ASSUME DebugInv, phase = "parameters", read = Len(debug.names), phase' = "program", read' = 0,
         UNCHANGED <<debug, arg, pc, line, locals, emitted, positions>>
  PROVE  DebugInv'
<1>1. DebugType'
  <2>1. Len(debug.program) \in Nat /\ Len(debug.program) > 0
    BY MethodFacts DEF DebugInv, DebugType
  <2>2. Registers' = Registers
    BY MethodStays
  <2>. QED
    BY <2>1, <2>2 DEF DebugInv, DebugType
<1>2. OrderInv'
  <2>1. pc' \in Nat /\ pc <= pc'
    BY DEF DebugInv, DebugType
  <2>. QED
    BY <2>1, OrderStays DEF DebugInv
<1>3. EntryInv' /\ RangesAsDescribed'
  BY DEF EntryInv, RangesAsDescribed
<1>4. AddressInv'
  <2>1. AddressOf(1) = 0 /\ AddressOf(1)' = AddressOf(1)
    BY AddressByOne, MethodStays DEF DebugInv, DebugType
  <2>2. 0 + 1 = 1
    OBVIOUS
  <2>3. AddressOf(read + 1)' = AddressOf(1)
    BY <2>2, MethodStays
  <2>. QED
    BY <2>1, <2>3, MethodStays DEF AddressInv, DebugInv, DebugType
<1>5. ASSUME Fits, NEW r \in Registers
      PROVE  /\ locals[r].start = 0
             /\ ~ locals[r].live => locals[r].name = NoName
             /\ AtEntry(r) = IF locals[r].live THEN {locals[r].name} ELSE {}
  <2>1. AtEntry(r) = EntryTo(r, Len(debug.names))
    BY DEF AtEntry, EntryTo
  <2>. QED
    BY <1>5, <2>1 DEF DebugInv, EntryInv
<1>6. ASSUME Fits, NEW r \in Registers
      PROVE  /\ locals[r].start <= pc
             /\ \/ NamedTo(r, 0, 0) = {locals[r].name}
                \/ NamedTo(r, 0, 0) = {} /\ locals[r].name = NoName /\ ~ locals[r].live
  BY <1>5, <1>6, DescribedAtEntry DEF DebugInv, DebugType
<1>7. ASSUME Fits, NEW r \in Registers, NEW a \in Nat
      PROVE  Names(emitted, r, a) \cup Pending(r, a) = DescribedTo(r, a, 0)
  <2>1. Names(emitted, r, a) = {}
    BY NoNames DEF DebugInv, DebugType
  <2>2. Pending(r, a) = IF locals[r].live THEN {locals[r].name} ELSE {}
    BY <1>5, <1>7 DEF Pending
  <2>. QED
    BY <1>5, <1>7, <2>1, <2>2, DescribedAtEntry
<1>8. ToldInv'
  <2>1. \A r, a : Pending(r, a)' = Pending(r, a)
    BY DEF Pending
  <2>2. \A r, a : Names(emitted, r, a)' = Names(emitted, r, a)
    BY DEF Names
  <2>3. ASSUME Fits, NEW r \in Registers PROVE AsTold(r)'
    BY <1>6, <1>7, <2>1, <2>2, <2>3, MethodStays DEF AsTold
  <2>. QED
    BY <2>3, MethodStays DEF ToldInv
<1>. QED
  BY <1>1, <1>2, <1>3, <1>4, <1>8 DEF DebugInv

LEMMA ParametersFail ==
  ASSUME DebugInv, phase = "parameters", read < Len(debug.names), arg >= debug.registers \/ read >= Len(debug.params),
         Finish, debug' = debug
  PROVE  DebugInv'
<1>1. ~ Fits
  <2>. SUFFICES ASSUME Fits PROVE FALSE
    OBVIOUS
  <2>1. read \in Nat /\ Len(debug.names) \in Nat /\ DOMAIN debug.names = 1 .. Len(debug.names)
        /\ debug.registers \in Nat /\ arg \in Nat
    BY MethodFacts DEF DebugInv, DebugType
  <2>2. read + 1 \in DOMAIN debug.names
    BY <2>1
  <2>3. read + 1 \in DOMAIN debug.params /\ ParameterAt(read + 1) < debug.registers
    BY <2>2 DEF Fits
  <2>4. arg = ParameterAt(read + 1)
    BY DEF DebugInv, EntryInv
  <2>5. debug.params \in Seq({"wide", "single"})
    BY MethodFacts DEF DebugInv, DebugType
  <2>6. Len(debug.params) \in Nat /\ read + 1 <= Len(debug.params)
    BY <2>3, <2>5, LenProperties
  <2>. QED
    BY <2>1, <2>3, <2>4, <2>6
<1>2. ~ Fits'
  BY <1>1, MethodStays
<1>3. DebugType'
  <2>1. Registers' = Registers
    BY MethodStays
  <2>. QED
    BY <2>1 DEF DebugInv, DebugType, Finish
<1>4. OrderInv'
  <2>1. pc' \in Nat /\ pc <= pc'
    BY DEF DebugInv, DebugType, Finish
  <2>. QED
    BY <2>1, OrderStays DEF DebugInv, Finish
<1>. QED
  BY <1>2, <1>3, <1>4 DEF DebugInv, Finish, EntryInv, AddressInv, ToldInv, RangesAsDescribed

LEMMA CutFacts == ASSUME NEW x \in Nat, NEW u \in Nat, u > 0 PROVE x % u \in Nat /\ (x < u => x % u = x)
  OBVIOUS

LEMMA ParameterRead ==
  ASSUME DebugInv, phase = "parameters", read < Len(debug.names), arg < debug.registers, read < Len(debug.params),
         read' = read + 1,
         arg' = (arg + ParameterWidth(debug.params[read + 1])) % U2Range,
         locals' = IF debug.names[read + 1] = NoName THEN locals
                   ELSE [locals EXCEPT ![arg] = Local(debug.names[read + 1], pc % U2Range, TRUE)],
         UNCHANGED <<debug, phase, pc, line, emitted, positions>>
  PROVE  DebugInv'
<1>. DEFINE n == read + 1
            width == ParameterWidth(debug.params[n])
<1>1. /\ read \in Nat /\ Len(debug.names) \in Nat /\ DOMAIN debug.names = 1 .. Len(debug.names)
      /\ debug.registers \in Nat /\ arg \in Nat /\ pc = 0 /\ U2Range \in Nat /\ U2Range > 0
      /\ debug.registers < U2Range
  BY MethodFacts DEF DebugInv, DebugType
<1>2. width \in 1 .. 2
  BY DEF ParameterWidth
<1>12. arg' = (arg + width) % U2Range
  OBVIOUS
<1>. HIDE DEF width
<1>13. arg + width \in Nat
  BY <1>1, <1>2
<1>14. arg' \in Nat /\ (arg + width < U2Range => arg' = arg + width)
  <2>. DEFINE next == arg + width
  <2>1. next \in Nat /\ arg' = next % U2Range
    BY <1>12, <1>13
  <2>. HIDE DEF next
  <2>2. next % U2Range \in Nat /\ (next < U2Range => next % U2Range = next)
    BY <1>1, <2>1, CutFacts
  <2>. QED
    BY <2>1, <2>2 DEF next
<1>3. n \in 1 .. Len(debug.names) /\ arg \in Registers
  BY <1>1 DEF Registers
<1>4. debug.names[n] \in Texts
  BY <1>1, <1>3, MethodFacts DEF DebugInv, DebugType
<1>5. pc % U2Range = 0
  BY <1>1
<1>6. \A r \in Registers : locals'[r] = IF debug.names[n] # NoName /\ r = arg THEN Local(debug.names[n], 0, TRUE) ELSE locals[r]
  BY <1>3, <1>5 DEF DebugInv, DebugType
<1>7. DebugType'
  <2>1. Local(debug.names[n], 0, TRUE) \in [name : Texts, start : Nat, live : BOOLEAN]
    BY <1>4 DEF Local
  <2>2. locals' \in [Registers -> [name : Texts, start : Nat, live : BOOLEAN]]
    BY <1>3, <1>5, <2>1 DEF DebugInv, DebugType
  <2>3. arg' \in Nat
    BY <1>14
  <2>4. Registers' = Registers
    BY MethodStays
  <2>5. read' \in Nat /\ read' <= Len(debug.names)
    BY <1>1
  <2>. QED
    BY <2>2, <2>3, <2>4, <2>5 DEF DebugInv, DebugType
<1>8. OrderInv'
  <2>1. pc' \in Nat /\ pc <= pc'
    BY DEF DebugInv, DebugType
  <2>. QED
    BY <2>1, OrderStays DEF DebugInv
<1>9. ASSUME Fits
      PROVE  /\ n < Len(debug.names) => arg' = ParameterAt(n + 1)
             /\ \A r \in Registers :
                  /\ n < Len(debug.names) /\ r >= arg' => ~ locals'[r].live
                  /\ locals'[r].start = 0
                  /\ ~ locals'[r].live => locals'[r].name = NoName
                  /\ EntryTo(r, n) = IF locals'[r].live THEN {locals'[r].name} ELSE {}
  <2>1. arg = ParameterAt(n)
    BY <1>9 DEF DebugInv, EntryInv
  <2>2. n \in 1 .. Len(debug.params)
    BY <1>1, MethodFacts, LenProperties DEF DebugInv, DebugType
  <2>3. ParameterAt(n + 1) = arg + width
    BY <2>1, <2>2, ParameterByOne DEF DebugInv, DebugType, width
  <2>4. n < Len(debug.names) => arg' = arg + width
    <3>. SUFFICES ASSUME n < Len(debug.names) PROVE arg' = arg + width
      OBVIOUS
    <3>1. n + 1 \in DOMAIN debug.names
      BY <1>1
    <3>2. arg + width < U2Range
      BY <1>1, <1>2, <1>9, <2>3, <3>1 DEF Fits
    <3>. QED
      BY <1>14, <3>2
  <2>5. ASSUME NEW r \in Registers
        PROVE  /\ r >= arg => ~ locals[r].live
               /\ locals[r].start = 0
               /\ ~ locals[r].live => locals[r].name = NoName
               /\ EntryTo(r, read) = IF locals[r].live THEN {locals[r].name} ELSE {}
    BY <1>9 DEF DebugInv, EntryInv
  <2>6. ASSUME NEW r \in Registers, n < Len(debug.names), r >= arg' PROVE ~ locals'[r].live
    <3>1. r # arg /\ r >= arg
      BY <1>1, <1>2, <2>4, <2>6 DEF Registers
    <3>. QED
      BY <1>6, <2>5, <3>1
  <2>7. ASSUME NEW r \in Registers
        PROVE  /\ locals'[r].start = 0
               /\ ~ locals'[r].live => locals'[r].name = NoName
               /\ EntryTo(r, n) = IF locals'[r].live THEN {locals'[r].name} ELSE {}
    <3>1. EntryTo(r, n)
            = EntryTo(r, read) \cup (IF debug.names[n] # NoName /\ arg = r THEN {debug.names[n]} ELSE {})
      BY <1>1, <2>1, EntryByOne
    <3>2. CASE debug.names[n] # NoName /\ arg = r
      <4>1. ~ locals[r].live
        BY <1>1, <2>5, <3>2
      <4>2. EntryTo(r, n) = {debug.names[n]}
        BY <2>5, <3>1, <3>2, <4>1
      <4>3. locals'[r] = Local(debug.names[n], 0, TRUE)
        BY <1>6, <3>2
      <4>4. locals'[r].live /\ locals'[r].start = 0 /\ locals'[r].name = debug.names[n]
        BY <4>3 DEF Local
      <4>. QED
        BY <4>2, <4>4, Zenon
    <3>3. CASE ~ (debug.names[n] # NoName /\ arg = r)
      <4>1. locals'[r] = locals[r]
        BY <1>6, <3>3
      <4>2. EntryTo(r, n) = EntryTo(r, read)
        BY <3>1, <3>3
      <4>. QED
        BY <2>5, <4>1, <4>2
    <3>. QED
      BY <3>2, <3>3
  <2>. QED
    BY <2>3, <2>4, <2>6, <2>7
<1>10. EntryInv'
  BY <1>9, MethodStays DEF EntryInv
<1>11. (AddressInv /\ ToldInv /\ RangesAsDescribed)'
  BY DEF AddressInv, ToldInv, RangesAsDescribed
<1>. QED
  BY <1>7, <1>8, <1>10, <1>11 DEF DebugInv

LEMMA ParameterStep == DebugInv /\ Parameter => DebugInv'
  BY ParametersEnd, ParametersFail, ParameterRead DEF Parameter

\* The instruction that is read is one of the program, at the address reached.
LEMMA AtInsn ==
  ASSUME DebugInv, phase = "program"
  PROVE  /\ read \in Nat /\ read + 1 \in 1 .. Len(debug.program) /\ insn = debug.program[read + 1]
         /\ pc \in Nat /\ AddressOf(read + 1) = pc
         /\ \A i \in 1 .. read : AddressOf(i) \in Nat /\ AddressOf(i) <= pc
         /\ insn.op # "end_sequence" => read + 1 < Len(debug.program)
         /\ insn.op \in {"start_local", "end_local", "restart_local"} => insn.reg \in Nat /\ Reg = insn.reg % U2Range
<1>1. read \in Nat /\ Len(debug.program) \in Nat /\ read < Len(debug.program) /\ pc \in Nat
  BY MethodFacts DEF DebugInv, DebugType
<1>2. read + 1 \in 1 .. Len(debug.program) /\ insn = debug.program[read + 1]
  BY <1>1 DEF insn
<1>3. \A i \in 1 .. read : AddressOf(i) \in Nat /\ AddressOf(i) <= pc
  <2>1. \A i \in 1 .. read : i \in 1 .. Len(debug.program)
    BY <1>1
  <2>. QED
    BY <2>1, AddressByOne DEF DebugInv, DebugType, AddressInv
<1>4. insn.op # "end_sequence" => read + 1 < Len(debug.program)
  <2>1. debug.program[Len(debug.program)].op = "end_sequence"
    BY MethodFacts DEF DebugInv, DebugType
  <2>2. CASE read + 1 = Len(debug.program)
    BY <1>2, <2>1, <2>2
  <2>3. CASE read + 1 # Len(debug.program)
    BY <1>1, <2>3
  <2>. QED
    BY <2>2, <2>3
<1>5. insn.op \in {"start_local", "end_local", "restart_local"} => insn.reg \in Nat /\ Reg = insn.reg % U2Range
  BY <1>2, InsnFacts DEF DebugInv, DebugType, Reg
<1>. QED
  BY <1>1, <1>2, <1>3, <1>4, <1>5 DEF DebugInv, AddressInv

\* The address goes along with the instructions read.
LEMMA AddressOn ==
  ASSUME DebugInv, phase = "program", insn.op # "end_sequence", debug' = debug, read' = read + 1, pc' = pc + Advance(read + 1)
  PROVE  /\ AddressInv' /\ pc' \in Nat /\ pc <= pc'
         /\ read' \in Nat /\ read' < Len(debug.program)
<1>1. /\ read \in Nat /\ read + 1 \in 1 .. Len(debug.program) /\ pc \in Nat /\ AddressOf(read + 1) = pc
      /\ \A i \in 1 .. read : AddressOf(i) \in Nat /\ AddressOf(i) <= pc
      /\ read + 1 < Len(debug.program)
  BY AtInsn
<1>2. Advance(read + 1) \in Nat
  BY <1>1, AdvanceFacts DEF DebugInv, DebugType
<1>3. pc' \in Nat /\ pc <= pc'
  BY <1>1, <1>2
<1>4. AddressOf(read' + 1) = pc'
  <2>1. Len(debug.program) \in Nat
    BY MethodFacts DEF DebugInv, DebugType
  <2>2. read + 1 \in 1 .. Len(debug.program) - 1
    BY <1>1, <2>1
  <2>3. AddressOf((read + 1) + 1) = AddressOf(read + 1) + Advance(read + 1)
    BY <2>2, AddressByOne DEF DebugInv, DebugType
  <2>. QED
    BY <1>1, <2>3
<1>5. \A i \in 1 .. read' : AddressOf(i) <= pc'
  <2>1. \A i \in 1 .. read + 1 : i \in 1 .. read \/ i = read + 1
    BY <1>1
  <2>. QED
    BY <1>1, <1>3, <2>1
<1>. QED
  BY <1>1, <1>3, <1>4, <1>5, MethodStays DEF AddressInv

\* A register the step is not about.
LEMMA RegisterAsBefore ==
  ASSUME DebugType, NEW r \in Registers, AsTold(r), debug' = debug, pc' \in Nat, pc <= pc', locals'[r] = locals[r],
         \A a : Names(emitted', r, a) = Names(emitted, r, a),
         read' = read \/ (read' = read + 1 /\ AboutTo(r, read + 1) = AboutTo(r, read))
  PROVE  AsTold(r)'
<1>1. locals'[r].start <= pc'
  <2>1. locals[r].start \in Nat /\ pc \in Nat
    BY RegisterFacts DEF DebugType
  <2>. QED
    BY <2>1 DEF AsTold
<1>2. NamedTo(r, read', read') = NamedTo(r, read, read) /\ \A a : DescribedTo(r, a, read') = DescribedTo(r, a, read)
  <2>1. read \in Nat
    BY DEF DebugType
  <2>. QED
    BY <2>1, DescribedAsBefore
<1>3. \A a : Pending(r, a)' = Pending(r, a)
  BY DEF Pending
<1>4. \A a : Names(emitted, r, a)' = Names(emitted, r, a)
  BY DEF Names
<1>5. \A a : DescribedTo(r, a, read)' = DescribedTo(r, a, read') /\ NamedTo(r, read, read)' = NamedTo(r, read', read')
  BY MethodStays
<1>6. \A a \in Nat : (Names(emitted, r, a) \cup Pending(r, a) = DescribedTo(r, a, read))'
  BY <1>2, <1>3, <1>4, <1>5 DEF AsTold
<1>7. \/ NamedTo(r, read', read') = {locals'[r].name}
      \/ NamedTo(r, read', read') = {} /\ locals'[r].name = NoName /\ ~ locals'[r].live
  BY <1>2 DEF AsTold
<1>. QED
  BY <1>1, <1>5, <1>6, <1>7 DEF AsTold

LocalOps == {"start_local", "end_local", "restart_local"}

LEMMA NotAbout ==
  ASSUME DebugInv, phase = "program", insn.op \notin LocalOps, NEW r
  PROVE  AboutTo(r, read + 1) = AboutTo(r, read)
  BY AtInsn, AboutOne DEF LocalOps

\* An instruction that is about no register.
LEMMA PassOver ==
  ASSUME DebugInv, phase = "program", insn.op \notin LocalOps, insn.op # "end_sequence", ReadOn,
         pc' = pc + Advance(read + 1), line' \in Int, positions' \in Seq(Nat \X Int), OrderInv',
         locals' = locals, emitted' = emitted
  PROVE  DebugInv'
<1>1. /\ AddressInv' /\ pc' \in Nat /\ pc <= pc'
      /\ read' \in Nat /\ read' < Len(debug.program) /\ debug' = debug /\ phase' = phase /\ arg' = arg /\ read' = read + 1
  BY AddressOn DEF ReadOn
<1>2. DebugType'
  <2>1. Registers' = Registers
    BY <1>1, MethodStays
  <2>. QED
    BY <1>1, <2>1 DEF DebugInv, DebugType
<1>3. ToldInv'
  <2>. SUFFICES ASSUME Fits', pc' < U2Range, NEW r \in Registers' PROVE AsTold(r)'
    BY <1>1 DEF ToldInv
  <2>1. Fits /\ r \in Registers /\ debug' = debug
    BY <1>1, MethodStays
  <2>2. pc < U2Range
    BY <1>1, MethodFacts DEF DebugInv, DebugType
  <2>3. AsTold(r)
    BY <2>1, <2>2 DEF DebugInv, ToldInv
  <2>4. AboutTo(r, read + 1) = AboutTo(r, read)
    BY NotAbout
  <2>. QED
    BY <1>1, <2>1, <2>3, <2>4, RegisterAsBefore DEF DebugInv
<1>. QED
  BY <1>1, <1>2, <1>3 DEF DebugInv, EntryInv, RangesAsDescribed

\* The program ends, at its end or before.
LEMMA ProgramEnds ==
  ASSUME DebugInv, phase = "program", phase' \in {"finish", "undefined"}, debug' = debug, read' = read, arg' = arg,
         pc' \in Nat, pc <= pc', line' \in Int, positions' \in Seq(Nat \X Int), OrderInv',
         locals' = locals, emitted' = emitted
  PROVE  DebugInv'
<1>1. DebugType'
  <2>1. Registers' = Registers
    BY MethodStays
  <2>. QED
    BY <2>1 DEF DebugInv, DebugType
<1>2. ToldInv'
  <2>. SUFFICES ASSUME Fits', pc' < U2Range, NEW r \in Registers' PROVE AsTold(r)'
    BY DEF ToldInv
  <2>1. Fits /\ r \in Registers
    BY MethodStays
  <2>2. pc < U2Range
    BY MethodFacts DEF DebugInv, DebugType
  <2>3. AsTold(r)
    BY <2>1, <2>2 DEF DebugInv, ToldInv
  <2>. QED
    BY <2>1, <2>3, RegisterAsBefore DEF DebugInv
<1>. QED
  BY <1>1, <1>2 DEF DebugInv, EntryInv, RangesAsDescribed, AddressInv

LEMMA FinishStep ==
  ASSUME DebugInv, phase = "program", debug' = debug, phase' \in {"finish", "undefined"},
         UNCHANGED <<read, arg, pc, line, locals, emitted, positions>>
  PROVE  DebugInv'
<1>1. /\ pc' \in Nat /\ pc <= pc' /\ line' \in Int /\ positions' \in Seq(Nat \X Int)
  BY DEF DebugInv, DebugType
<1>2. OrderInv'
  BY <1>1, OrderStays DEF DebugInv
<1>. QED
  BY <1>1, <1>2, ProgramEnds

LEMMA AdvanceStep == DebugInv /\ (AdvancePc \/ AdvanceLine \/ Skip) => DebugInv'
<1>. SUFFICES ASSUME DebugInv, AdvancePc \/ AdvanceLine \/ Skip PROVE DebugInv'
  OBVIOUS
<1>1. phase = "program" /\ insn.op \notin LocalOps /\ insn.op # "end_sequence"
  BY DEF AdvancePc, AdvanceLine, Skip, Executes, LocalOps
<1>2. read + 1 \in 1 .. Len(debug.program) /\ insn = debug.program[read + 1] /\ pc \in Nat
  BY <1>1, AtInsn
<1>3. pc' = pc + Advance(read + 1)
  BY <1>2 DEF AdvancePc, AdvanceLine, Skip, Executes, Advance
<1>4. pc' \in Nat /\ pc <= pc'
  BY <1>1, <1>3, AddressOn DEF AdvancePc, AdvanceLine, Skip, ReadOn
<1>5. ReadOn /\ locals' = locals /\ emitted' = emitted /\ positions' = positions
  BY DEF AdvancePc, AdvanceLine, Skip
<1>6. line' \in Int
  BY <1>2, InsnFacts DEF AdvancePc, AdvanceLine, Skip, Executes, DebugInv, DebugType
<1>7. OrderInv'
  BY <1>1, <1>4, <1>5, OrderStays DEF DebugInv, ReadOn
<1>8. positions' \in Seq(Nat \X Int)
  BY <1>5 DEF DebugInv, DebugType
<1>. QED
  BY <1>1, <1>3, <1>5, <1>6, <1>7, <1>8, PassOver

LEMMA SpecialStep == DebugInv /\ Special => DebugInv'
<1>. SUFFICES ASSUME DebugInv, Special PROVE DebugInv'
  OBVIOUS
<1>1. phase = "program" /\ insn.op = "special" /\ insn.op \notin LocalOps /\ insn.op # "end_sequence"
  BY DEF Special, Executes, LocalOps
<1>2. read + 1 \in 1 .. Len(debug.program) /\ insn = debug.program[read + 1] /\ pc \in Nat
  BY <1>1, AtInsn
<1>3. insn.by \in 10 .. 255
  BY <1>1, <1>2, InsnFacts DEF DebugInv, DebugType
<1>4. pc' = pc + Advance(read + 1) /\ line' \in Int
  <2>1. pc' = pc + (insn.by - FirstSpecial) \div LineRange /\ line' = line + LineBase + ((insn.by - FirstSpecial) % LineRange)
    BY DEF Special
  <2>2. Advance(read + 1) = (insn.by - FirstSpecial) \div LineRange
    BY <1>1, <1>2 DEF Advance
  <2>3. (insn.by - FirstSpecial) % LineRange \in Int /\ LineBase \in Int
    BY <1>3 DEF FirstSpecial, LineRange, LineBase
  <2>4. line \in Int
    BY DEF DebugInv, DebugType
  <2>. QED
    BY <2>1, <2>2, <2>3, <2>4
<1>5. pc' \in Nat /\ pc <= pc'
  <2>1. Advance(read + 1) \in Nat
    BY <1>2, AdvanceFacts DEF DebugInv, DebugType
  <2>. QED
    BY <1>2, <1>4, <2>1
<1>. DEFINE p == <<pc', line'>>
            m == Len(positions)
<1>6. p \in Nat \X Int /\ p[1] = pc'
  BY <1>4, <1>5
<1>7. positions' = Append(positions, p) /\ locals' = locals /\ emitted' = emitted /\ debug' = debug
  BY DEF Special, ReadOn
<1>. HIDE DEF p
<1>8. positions \in Seq(Nat \X Int) /\ m \in Nat
  BY LenProperties DEF DebugInv, DebugType
<1>9. positions' \in Seq(Nat \X Int) /\ Len(positions') = m + 1 /\ positions'[m + 1] = p
      /\ \A i \in 1 .. m : positions'[i] = positions[i]
  BY <1>6, <1>7, <1>8, AppendProperties
<1>10. OrderInv'
  <2>. HIDE DEF m
  <2>1. \A i \in 1 .. m : positions[i] \in Nat \X Int /\ positions[i][1] <= pc
    BY <1>8, ElementOfSeq DEF DebugInv, OrderInv, m
  <2>2. ASSUME NEW i \in 1 .. m + 1 PROVE positions'[i][1] <= pc'
    <3>1. CASE i \in 1 .. m
      <4>1. positions'[i] = positions[i] /\ positions[i][1] \in Nat /\ positions[i][1] <= pc
        BY <1>9, <2>1, <3>1
      <4>. QED
        BY <1>2, <1>5, <4>1
    <3>2. CASE i = m + 1
      BY <1>5, <1>6, <1>9, <3>2
    <3>. QED
      BY <1>8, <3>1, <3>2
  <2>3. ASSUME NEW i \in 2 .. m + 1 PROVE positions'[i - 1][1] <= positions'[i][1]
    <3>1. CASE i \in 2 .. m
      <4>1. i - 1 \in 1 .. m /\ i \in 1 .. m
        BY <1>8, <3>1
      <4>2. positions[i - 1][1] <= positions[i][1]
        BY <3>1 DEF DebugInv, OrderInv, m
      <4>. QED
        BY <1>9, <4>1, <4>2
    <3>2. CASE i = m + 1
      <4>1. i - 1 = m /\ i - 1 \in 1 .. m + 1
        BY <1>8, <3>2
      <4>2. positions'[i - 1][1] <= pc'
        BY <2>2, <4>1
      <4>. QED
        BY <1>6, <1>9, <3>2, <4>2
    <3>. QED
      BY <1>8, <3>1, <3>2
  <2>4. ASSUME NEW i \in 1 .. Len(emitted) PROVE emitted[i].end <= pc'
    <3>1. emitted[i] \in Records /\ emitted[i].end <= pc
      BY <1>1, ElementOfSeq DEF DebugInv, DebugType, OrderInv
    <3>. QED
      BY <1>2, <1>5, <3>1 DEF Records
  <2>5. ByEnd(emitted) /\ (ByEnd(emitted))'
    BY <1>1, <1>7 DEF DebugInv, OrderInv, ByEnd
  <2>. QED
    BY <1>7, <1>9, <2>2, <2>3, <2>4, <2>5 DEF OrderInv
<1>11. CASE ReadOn
  BY <1>1, <1>4, <1>7, <1>9, <1>10, <1>11, PassOver
<1>12. CASE phase' = "finish" /\ UNCHANGED <<debug, read, arg>>
  BY <1>1, <1>4, <1>5, <1>7, <1>9, <1>10, <1>12, ProgramEnds
<1>. QED
  BY <1>11, <1>12 DEF Special

\* What was told ends where the program is.
LEMMA NothingBeyond ==
  ASSUME DebugInv, phase = "program", NEW a \in Nat, pc <= a, NEW r
  PROVE  Names(emitted, r, a) = {}
<1>1. ASSUME NEW j \in DOMAIN emitted PROVE ~ (a < emitted[j].end)
  <2>1. j \in 1 .. Len(emitted)
    BY LenProperties DEF DebugInv, DebugType
  <2>2. emitted[j] \in Records /\ emitted[j].end <= pc
    BY <2>1, ElementOfSeq DEF DebugInv, DebugType, OrderInv
  <2>3. emitted[j].end \in Nat /\ pc \in Nat
    BY <2>2 DEF Records, DebugInv, DebugType
  <2>. QED
    BY <2>2, <2>3
<1>. QED
  BY <1>1 DEF Names

\* An instruction that is about one register.
LEMMA OnLocal ==
  ASSUME DebugInv, phase = "program", insn.op \in LocalOps, NEW x \in Registers, x = Reg, ReadOn,
         pc' = pc, line' = line, positions' = positions, emitted' \in Seq(Records),
         locals' \in [Registers -> [name : Texts, start : Nat, live : BOOLEAN]], OrderInv',
         \A r \in Registers \ {x} : locals'[r] = locals[r] /\ \A a : Names(emitted', r, a) = Names(emitted, r, a),
         Fits /\ pc < U2Range => AsTold(x)'
  PROVE  DebugInv'
<1>1. debug' = debug /\ phase' = phase /\ arg' = arg /\ read' = read + 1
  BY DEF ReadOn
<1>2. read + 1 \in 1 .. Len(debug.program) /\ insn = debug.program[read + 1] /\ pc \in Nat /\ Reg = insn.reg % U2Range
      /\ read \in Nat
  BY AtInsn DEF LocalOps
<1>3. /\ AddressInv' /\ read' \in Nat /\ read' < Len(debug.program)
  <2>1. Advance(read + 1) = 0
    BY <1>2 DEF Advance, LocalOps
  <2>2. pc' = pc + Advance(read + 1)
    BY <1>2, <2>1
  <2>3. insn.op # "end_sequence"
    BY DEF LocalOps
  <2>. QED
    BY <1>1, <2>2, <2>3, AddressOn
<1>4. DebugType'
  <2>1. Registers' = Registers
    BY <1>1, MethodStays
  <2>. QED
    BY <1>1, <1>3, <2>1 DEF DebugInv, DebugType
<1>5. ToldInv'
  <2>. SUFFICES ASSUME Fits', pc' < U2Range, NEW r \in Registers' PROVE AsTold(r)'
    BY <1>1 DEF ToldInv
  <2>1. Fits /\ r \in Registers /\ pc < U2Range
    BY <1>1, MethodStays
  <2>2. CASE r = x
    BY <2>1, <2>2
  <2>3. CASE r # x
    <3>1. AboutTo(r, read + 1) = AboutTo(r, read)
      BY <1>2, <2>3, AboutOne
    <3>2. AsTold(r)
      BY <2>1 DEF DebugInv, ToldInv
    <3>. QED
      BY <1>1, <1>2, <2>1, <2>3, <3>1, <3>2, RegisterAsBefore DEF DebugInv
  <2>. QED
    BY <2>2, <2>3
<1>. QED
  BY <1>1, <1>3, <1>4, <1>5 DEF DebugInv, EntryInv, RangesAsDescribed

\* What is known of the register an instruction is about, after it.
LEMMA RegisterAnew ==
  ASSUME DebugInv, phase = "program", insn.op \in LocalOps, NEW x \in Registers, x = Reg, AsTold(x), ReadOn, pc' = pc,
         locals'[x].start \in Nat, locals'[x].start <= pc,
         \A a \in Nat : a < pc => Names(emitted', x, a) \cup Pending(x, a)' = Names(emitted, x, a) \cup Pending(x, a),
         \A a \in Nat : pc <= a => Names(emitted', x, a) = {},
         CASE insn.op = "start_local" -> locals'[x].live /\ locals'[x].name = insn.name
           [] insn.op = "end_local" -> ~ locals'[x].live /\ locals'[x].name = locals[x].name
           [] insn.op = "restart_local" -> locals'[x].live /\ locals'[x].name = locals[x].name /\ locals[x].name # NoName
  PROVE  AsTold(x)'
<1>. DEFINE n == read
<1>1. debug' = debug /\ read' = n + 1
  BY DEF ReadOn
<1>2. /\ n \in Nat /\ insn = debug.program[n + 1] /\ pc \in Nat /\ x = insn.reg % U2Range
      /\ AddressOf(n + 1) = pc
      /\ \A i \in 1 .. n : AddressOf(i) \in Nat /\ AddressOf(i) <= pc
  BY AtInsn DEF LocalOps
<1>3. AboutTo(x, n + 1) = AboutTo(x, n) \cup {n + 1}
  BY <1>2, AboutOne DEF LocalOps
<1>4. /\ NamedTo(x, n + 1, n + 1) = IF insn.op = "start_local" THEN {insn.name} ELSE NamedTo(x, n, n)
      /\ \A a \in Nat : a < pc => DescribedTo(x, a, n + 1) = DescribedTo(x, a, n)
      /\ \A a \in Nat : pc <= a => DescribedTo(x, a, n + 1) = IF insn.op = "end_local" THEN {}
                                                              ELSE NamedTo(x, n + 1, n + 1)
  BY <1>2, <1>3, DescribedAnew
<1>5. NamedTo(x, read, read)' = NamedTo(x, n + 1, n + 1) /\ \A a : DescribedTo(x, a, read)' = DescribedTo(x, a, n + 1)
  BY <1>1, MethodStays
<1>6. \A a : Names(emitted, x, a)' = Names(emitted', x, a)
  BY DEF Names
<1>7. \A a : Pending(x, a)' = IF locals'[x].live /\ locals'[x].start <= a THEN {locals'[x].name} ELSE {}
  BY DEF Pending
<1>8. \/ NamedTo(x, n, n) = {locals[x].name}
      \/ NamedTo(x, n, n) = {} /\ locals[x].name = NoName /\ ~ locals[x].live
  BY DEF AsTold
<1>9. locals'[x].start \in Int
  OBVIOUS
<1>10. pc \in Nat /\ \A a \in Nat : a < pc \/ pc <= a
  <2>1. pc \in Nat
    BY <1>2
  <2>. QED
    BY ONLY <2>1
<1>11. \A a \in Nat : pc <= a => locals'[x].start <= a
  <2>1. \A s \in Int, a \in Nat : s <= pc /\ pc <= a => s <= a
    BY ONLY <1>10
  <2>2. locals'[x].start <= pc
    OBVIOUS
  <2>. QED
    BY <1>9, <2>1, <2>2, Zenon
<1>12. ASSUME NEW a \in Nat PROVE Names(emitted', x, a) \cup Pending(x, a)' = DescribedTo(x, a, n + 1)
  <2>1. CASE a < pc
    BY <1>4, <2>1 DEF AsTold
  <2>2. CASE pc <= a
    <3>1. Names(emitted', x, a) = {} /\ locals'[x].start <= a
      BY <1>11, <2>2
    <3>2. Pending(x, a)' = IF locals'[x].live THEN {locals'[x].name} ELSE {}
      BY <1>7, <3>1
    <3>3. DescribedTo(x, a, n + 1) = IF insn.op = "end_local" THEN {} ELSE NamedTo(x, n + 1, n + 1)
      BY <1>4, <2>2
    <3>4. CASE insn.op = "start_local"
      BY <1>4, <3>1, <3>2, <3>3, <3>4
    <3>5. CASE insn.op = "end_local"
      BY <3>1, <3>2, <3>3, <3>5
    <3>6. CASE insn.op = "restart_local"
      BY <1>4, <1>8, <3>1, <3>2, <3>3, <3>6
    <3>. QED
      BY <3>4, <3>5, <3>6 DEF LocalOps
  <2>. QED
    BY <1>10, <2>1, <2>2
<1>13. \/ NamedTo(x, n + 1, n + 1) = {locals'[x].name}
       \/ NamedTo(x, n + 1, n + 1) = {} /\ locals'[x].name = NoName /\ ~ locals'[x].live
  <2>1. CASE insn.op = "start_local"
    BY <1>4, <2>1
  <2>2. CASE insn.op = "end_local"
    BY <1>4, <1>8, <2>2
  <2>3. CASE insn.op = "restart_local"
    BY <1>4, <1>8, <2>3
  <2>. QED
    BY <2>1, <2>2, <2>3 DEF LocalOps
<1>. QED
  BY <1>5, <1>6, <1>12, <1>13 DEF AsTold

\* What is told of where a local ends.
LEMMA EmittedHere ==
  ASSUME DebugInv, phase = "program", NEW x \in Registers, emitted' = Emit(emitted, x, pc),
         pc' = pc, debug' = debug, positions' = positions
  PROVE  /\ emitted' \in Seq(Records) /\ OrderInv'
         /\ \A r, a : Names(emitted', r, a)
              = Names(emitted, r, a)
                  \cup (IF x = r /\ locals[x].live /\ locals[x].start <= a /\ a < pc THEN {locals[x].name} ELSE {})
<1>1. DebugType /\ emitted \in Seq(Records) /\ pc \in Nat
  BY DEF DebugInv, DebugType
<1>2. emitted' \in Seq(Records)
      /\ \A r, a : Names(emitted', r, a)
              = Names(emitted, r, a)
                  \cup (IF x = r /\ locals[x].live /\ locals[x].start <= a /\ a < pc THEN {locals[x].name} ELSE {})
  <2>. DEFINE more == Emit(emitted, x, pc)
  <2>1. more \in Seq(Records)
        /\ \A r, a : Names(more, r, a)
              = Names(emitted, r, a)
                  \cup (IF x = r /\ locals[x].live /\ locals[x].start <= a /\ a < pc THEN {locals[x].name} ELSE {})
    BY <1>1, NamesWithLocal
  <2>2. emitted' = more
    OBVIOUS
  <2>. HIDE DEF more
  <2>. QED
    BY <2>1, <2>2
<1>3. ByEnd(emitted) /\ \A i \in 1 .. Len(emitted) : emitted[i].end <= pc
  BY DEF DebugInv, OrderInv
<1>4. ByEnd(emitted') /\ \A i \in 1 .. Len(emitted') : emitted'[i].end <= pc
  BY <1>1, <1>3, EndsWithLocal
<1>5. (ByEnd(emitted))'
  BY <1>4 DEF ByEnd
<1>6. OrderInv'
  BY <1>4, <1>5 DEF DebugInv, OrderInv
<1>. QED
  BY <1>2, <1>6

\* The range that is told of is the one that was open.
LEMMA NamesBefore ==
  ASSUME DebugInv, phase = "program", NEW x \in Registers,
         \A r, a : Names(emitted', r, a)
              = Names(emitted, r, a)
                  \cup (IF x = r /\ locals[x].live /\ locals[x].start <= a /\ a < pc THEN {locals[x].name} ELSE {}),
         \A a \in Nat : a < pc => Pending(x, a)' = {}
  PROVE  /\ \A a \in Nat : a < pc => Names(emitted', x, a) \cup Pending(x, a)' = Names(emitted, x, a) \cup Pending(x, a)
         /\ \A a \in Nat : pc <= a => Names(emitted', x, a) = {}
         /\ \A r \in Registers \ {x} : \A a : Names(emitted', r, a) = Names(emitted, r, a)
<1>1. ASSUME NEW a \in Nat, a < pc
      PROVE  Names(emitted', x, a) \cup Pending(x, a)' = Names(emitted, x, a) \cup Pending(x, a)
  BY <1>1 DEF Pending
<1>2. ASSUME NEW a \in Nat, pc <= a PROVE Names(emitted', x, a) = {}
  <2>1. Names(emitted, x, a) = {}
    BY <1>2, NothingBeyond
  <2>2. ~ (a < pc)
    BY <1>2 DEF DebugInv, DebugType
  <2>. QED
    BY <2>1, <2>2
<1>3. ASSUME NEW r \in Registers \ {x}, NEW a PROVE Names(emitted', r, a) = Names(emitted, r, a)
  BY <1>3
<1>. QED
  BY <1>1, <1>2, <1>3

LEMMA StartStep == DebugInv /\ StartLocal => DebugInv'
<1>. SUFFICES ASSUME DebugInv, StartLocal, NEW x \in Registers, x = Reg PROVE DebugInv'
  BY DEF StartLocal
<1>1. /\ phase = "program" /\ insn.op = "start_local" /\ insn.op \in LocalOps /\ ReadOn
      /\ emitted' = Emit(emitted, x, pc)
      /\ locals' = [locals EXCEPT ![x] = Local(insn.name, pc % U2Range, TRUE)]
      /\ pc' = pc /\ line' = line /\ positions' = positions /\ debug' = debug
  BY DEF StartLocal, Executes, LocalOps, ReadOn
<1>2. read + 1 \in 1 .. Len(debug.program) /\ insn = debug.program[read + 1] /\ pc \in Nat
  BY <1>1, AtInsn
<1>3. insn.name \in Texts /\ U2Range \in Nat /\ U2Range > 0
  BY <1>2, MethodFacts DEF DebugInv, DebugType
<1>4. pc % U2Range \in Nat /\ (pc < U2Range => pc % U2Range = pc)
  BY <1>2, <1>3, CutFacts
<1>5. /\ locals' \in [Registers -> [name : Texts, start : Nat, live : BOOLEAN]]
      /\ locals'[x].name = insn.name /\ locals'[x].start = pc % U2Range /\ locals'[x].live
      /\ \A r \in Registers \ {x} : locals'[r] = locals[r]
  <2>. DEFINE y == Local(insn.name, pc % U2Range, TRUE)
  <2>1. y \in [name : Texts, start : Nat, live : BOOLEAN] /\ y.name = insn.name /\ y.start = pc % U2Range /\ y.live
    BY <1>3, <1>4 DEF Local
  <2>. HIDE DEF y
  <2>2. locals \in [Registers -> [name : Texts, start : Nat, live : BOOLEAN]] /\ locals' = [locals EXCEPT ![x] = y]
    BY <1>1 DEF DebugInv, DebugType, y
  <2>. QED
    BY <2>1, <2>2
<1>6. /\ emitted' \in Seq(Records) /\ OrderInv'
      /\ \A r, a : Names(emitted', r, a)
           = Names(emitted, r, a)
               \cup (IF x = r /\ locals[x].live /\ locals[x].start <= a /\ a < pc THEN {locals[x].name} ELSE {})
  BY <1>1, EmittedHere
<1>7. \A r \in Registers \ {x} : \A a : Names(emitted', r, a) = Names(emitted, r, a)
  <2>. TAKE r \in Registers \ {x}
  <2>. TAKE a
  <2>. QED
    BY <1>6
<1>8. ASSUME Fits, pc < U2Range PROVE AsTold(x)'
  <2>1. locals'[x].start = pc /\ locals'[x].start \in Nat /\ locals'[x].start <= pc
    BY <1>2, <1>4, <1>5, <1>8
  <2>2. \A a \in Nat : a < pc => Pending(x, a)' = {}
    BY <1>2, <2>1 DEF Pending
  <2>3. /\ \A a \in Nat : a < pc => Names(emitted', x, a) \cup Pending(x, a)' = Names(emitted, x, a) \cup Pending(x, a)
        /\ \A a \in Nat : pc <= a => Names(emitted', x, a) = {}
    BY <1>1, <1>6, <2>2, NamesBefore
  <2>4. AsTold(x)
    BY <1>1, <1>8 DEF DebugInv, ToldInv
  <2>. QED
    BY <1>1, <1>5, <2>1, <2>3, <2>4, RegisterAnew
<1>. QED
  BY <1>1, <1>5, <1>6, <1>7, <1>8, OnLocal

LEMMA EndStep == DebugInv /\ EndLocal => DebugInv'
<1>. SUFFICES ASSUME DebugInv, EndLocal, NEW x \in Registers, x = Reg PROVE DebugInv'
  BY DEF EndLocal
<1>1. /\ phase = "program" /\ insn.op = "end_local" /\ insn.op \in LocalOps /\ ReadOn
      /\ emitted' = Emit(emitted, x, pc)
      /\ locals' = [locals EXCEPT ![x].live = FALSE]
      /\ pc' = pc /\ line' = line /\ positions' = positions /\ debug' = debug
  BY DEF EndLocal, Executes, LocalOps, ReadOn
<1>2. pc \in Nat
  BY DEF DebugInv, DebugType
<1>3. /\ locals' \in [Registers -> [name : Texts, start : Nat, live : BOOLEAN]]
      /\ locals'[x].name = locals[x].name /\ locals'[x].start = locals[x].start /\ ~ locals'[x].live
      /\ \A r \in Registers \ {x} : locals'[r] = locals[r]
  BY <1>1 DEF DebugInv, DebugType
<1>4. /\ emitted' \in Seq(Records) /\ OrderInv'
      /\ \A r, a : Names(emitted', r, a)
           = Names(emitted, r, a)
               \cup (IF x = r /\ locals[x].live /\ locals[x].start <= a /\ a < pc THEN {locals[x].name} ELSE {})
  BY <1>1, EmittedHere
<1>5. \A r \in Registers \ {x} : \A a : Names(emitted', r, a) = Names(emitted, r, a)
  <2>. TAKE r \in Registers \ {x}
  <2>. TAKE a
  <2>. QED
    BY <1>4
<1>6. ASSUME Fits, pc < U2Range PROVE AsTold(x)'
  <2>1. AsTold(x)
    BY <1>1, <1>6 DEF DebugInv, ToldInv
  <2>2. locals'[x].start \in Nat /\ locals'[x].start <= pc
    BY <1>3, <2>1, RegisterFacts DEF AsTold, DebugInv
  <2>3. \A a \in Nat : a < pc => Pending(x, a)' = {}
    BY <1>3 DEF Pending
  <2>4. /\ \A a \in Nat : a < pc => Names(emitted', x, a) \cup Pending(x, a)' = Names(emitted, x, a) \cup Pending(x, a)
        /\ \A a \in Nat : pc <= a => Names(emitted', x, a) = {}
    BY <1>1, <1>4, <2>3, NamesBefore
  <2>. QED
    BY <1>1, <1>3, <2>1, <2>2, <2>4, RegisterAnew
<1>. QED
  BY <1>1, <1>3, <1>4, <1>5, <1>6, OnLocal

LEMMA RestartStep == DebugInv /\ RestartLocal => DebugInv'
<1>. SUFFICES ASSUME DebugInv, RestartLocal, NEW x \in Registers, x = Reg PROVE DebugInv'
  BY DEF RestartLocal
<1>1. CASE Finish
  <2>1. phase = "program" /\ phase' \in {"finish", "undefined"} /\ debug' = debug
        /\ UNCHANGED <<read, arg, pc, line, locals, emitted, positions>>
    BY <1>1 DEF RestartLocal, Executes, Finish, ReadOn
  <2>. QED
    BY <2>1, FinishStep
<1>2. CASE ~ Finish
  <2>1. /\ phase = "program" /\ insn.op = "restart_local" /\ insn.op \in LocalOps /\ ReadOn
        /\ locals[x].name # NoName
        /\ locals' = [locals EXCEPT ![x] = Restarted(locals[x])]
        /\ emitted' = emitted
        /\ pc' = pc /\ line' = line /\ positions' = positions /\ debug' = debug
    BY <1>2 DEF RestartLocal, Executes, LocalOps, ReadOn
  <2>2. pc \in Nat /\ U2Range \in Nat /\ U2Range > 0
    BY MethodFacts DEF DebugInv, DebugType
  <2>3. pc % U2Range \in Nat /\ (pc < U2Range => pc % U2Range = pc)
    BY <2>2, CutFacts
  <2>4. locals \in [Registers -> [name : Texts, start : Nat, live : BOOLEAN]]
        /\ locals[x] \in [name : Texts, start : Nat, live : BOOLEAN]
    BY DEF DebugInv, DebugType
  <2>. DEFINE y == Restarted(locals[x])
  <2>5. /\ y \in [name : Texts, start : Nat, live : BOOLEAN]
        /\ y.name = locals[x].name /\ y.live
        /\ y.start = IF locals[x].live THEN locals[x].start ELSE pc % U2Range
    BY <2>3, <2>4 DEF Restarted, Local
  <2>6. /\ locals' \in [Registers -> [name : Texts, start : Nat, live : BOOLEAN]] /\ locals'[x] = y
        /\ \A r \in Registers \ {x} : locals'[r] = locals[r]
    <3>. HIDE DEF y
    <3>1. locals' = [locals EXCEPT ![x] = y]
      BY <2>1 DEF y
    <3>. QED
      BY <2>4, <2>5, <3>1
  <2>. HIDE DEF y
  <2>7. OrderInv' /\ emitted' \in Seq(Records) /\ \A r \in Registers \ {x} : \A a : Names(emitted', r, a) = Names(emitted, r, a)
    <3>1. pc' \in Nat /\ pc <= pc'
      BY <2>1, <2>2
    <3>. QED
      BY <2>1, <3>1, OrderStays DEF DebugInv, DebugType
  <2>8. ASSUME Fits, pc < U2Range PROVE AsTold(x)'
    <3>1. AsTold(x)
      BY <2>1, <2>8 DEF DebugInv, ToldInv
    <3>2. locals'[x].start \in Nat /\ locals'[x].start <= pc
      BY <2>2, <2>3, <2>4, <2>5, <2>6, <2>8, <3>1 DEF AsTold
    <3>3. ASSUME NEW a \in Nat, a < pc PROVE Pending(x, a)' = Pending(x, a)
      <4>1. CASE locals[x].live
        BY <2>5, <2>6, <4>1 DEF Pending
      <4>2. CASE ~ locals[x].live
        <5>1. ~ (locals'[x].start <= a)
          BY <2>2, <2>3, <2>5, <2>6, <2>8, <3>3, <4>2
        <5>. QED
          BY <4>2, <5>1 DEF Pending
      <4>. QED
        BY <4>1, <4>2
    <3>4. \A a \in Nat : a < pc => Names(emitted', x, a) \cup Pending(x, a)' = Names(emitted, x, a) \cup Pending(x, a)
      BY <2>1, <3>3
    <3>5. \A a \in Nat : pc <= a => Names(emitted', x, a) = {}
      BY <2>1, NothingBeyond
    <3>. QED
      BY <2>1, <2>5, <2>6, <3>1, <3>2, <3>4, <3>5, RegisterAnew
  <2>. QED
    BY <2>1, <2>6, <2>7, <2>8, OnLocal
<1>. QED
  BY <1>1, <1>2

\* The loop over the registers, turn by turn.
LEMMA RestLoop ==
  ASSUME DebugInv, EmitRest
  PROVE  \E told \in [0 .. debug.registers -> Seq(Records)] :
           /\ told[0] = emitted
           /\ \A n \in 1 .. debug.registers : told[n] = Emit(told[n - 1], n - 1, debug.code)
           /\ emitted' = told[debug.registers]
<1>. DEFINE m == debug.registers
            Made(f) == f = [ n \in 0 .. m |-> IF n = 0 THEN emitted ELSE Emit(f[n - 1], n - 1, debug.code) ]
            told == CHOOSE f : Made(f)
            turn == [ p \in Seq(Records) \X (1 .. m) |-> Emit(p[1], p[2] - 1, debug.code) ]
<1>1. m \in Nat /\ emitted \in Seq(Records) /\ DebugType /\ debug.code \in Nat
  BY MethodFacts DEF DebugInv, DebugType
<1>2. emitted' = told[m]
  BY DEF EmitRest
<1>. HIDE DEF m
<1>3. \A s \in Seq(Records), n \in 1 .. m : Emit(s, n - 1, debug.code) \in Seq(Records)
  <2>. TAKE s \in Seq(Records), n \in 1 .. m
  <2>1. n - 1 \in Registers
    BY <1>1 DEF Registers, m
  <2>. QED
    BY <1>1, <2>1, NamesWithLocal
<1>4. /\ turn \in [Seq(Records) \X (1 .. m) -> Seq(Records)]
      /\ \A s \in Seq(Records), n \in 1 .. m : turn[<<s, n>>] = Emit(s, n - 1, debug.code)
  BY <1>3
<1>. HIDE DEF turn
<1>5. PICK f \in [0 .. m -> Seq(Records)] : Loop(f, m, emitted, turn)
  BY <1>1, <1>4, LoopExists
<1>6. \A n \in 0 .. m : n # 0 => n \in 1 .. m /\ n - 1 \in 0 .. m
  BY <1>1
<1>7. Made(f)
  <2>1. f = [ n \in 0 .. m |-> IF n = 0 THEN emitted ELSE turn[<<f[n - 1], n>>] ]
    BY <1>5 DEF Loop
  <2>2. \A n \in 0 .. m : n # 0 => turn[<<f[n - 1], n>>] = Emit(f[n - 1], n - 1, debug.code)
    BY <1>4, <1>5, <1>6
  <2>. QED
    BY <2>1, <2>2
<1>8. Made(told)
  <2>. HIDE DEF Made
  <2>. QED
    BY <1>7
<1>9. DOMAIN told = 0 .. m /\ \A n \in 0 .. m : told[n] = IF n = 0 THEN emitted ELSE Emit(told[n - 1], n - 1, debug.code)
  <2>. HIDE DEF told
  <2>. QED
    BY <1>8
<1>. HIDE DEF told
<1>10. told[0] = emitted /\ \A n \in 1 .. m : told[n] = Emit(told[n - 1], n - 1, debug.code)
  <2>1. 0 \in 0 .. m /\ \A n \in 1 .. m : n \in 0 .. m /\ n # 0
    BY <1>1
  <2>. QED
    BY <1>9, <2>1
<1>11. \A n \in 0 .. m : told[n] \in Seq(Records)
  <2>. DEFINE S == { n \in Nat : n <= m => told[n] \in Seq(Records) }
  <2>1. 0 \in S
    BY <1>1, <1>10
  <2>2. ASSUME NEW n \in Nat, n \in S PROVE n + 1 \in S
    <3>1. CASE n + 1 <= m
      <4>1. n + 1 \in 1 .. m /\ (n + 1) - 1 = n /\ n <= m
        BY <1>1, <3>1
      <4>2. told[n + 1] = Emit(told[n], (n + 1) - 1, debug.code) /\ told[n] \in Seq(Records)
        BY <1>10, <2>2, <4>1
      <4>3. told[n + 1] \in Seq(Records)
        BY <1>3, <4>1, <4>2
      <4>. QED
        BY <2>2, <4>3
    <3>2. CASE ~ (n + 1 <= m)
      BY <3>2
    <3>. QED
      BY <3>1, <3>2
  <2>. HIDE DEF S
  <2>3. Nat \subseteq S
    BY <2>1, <2>2, SetInduction
  <2>. QED
    BY <1>1, <2>3 DEF S
<1>12. told = [ n \in 0 .. m |-> told[n] ]
  <2>1. told = [ n \in 0 .. m |-> IF n = 0 THEN emitted ELSE Emit(told[n - 1], n - 1, debug.code) ]
    BY <1>8
  <2>. QED
    BY <1>9, <2>1
<1>13. told \in [0 .. m -> Seq(Records)]
  BY <1>11, <1>12
<1>. QED
  BY <1>2, <1>10, <1>13 DEF m

\* What is live at the end lives up to the end of the method.
LEMMA RestIsTold ==
  ASSUME DebugInv, EmitRest
  PROVE  /\ emitted' \in Seq(Records)
         /\ \A r \in Registers : \A a : Names(emitted', r, a)
              = Names(emitted, r, a)
                  \cup (IF locals[r].live /\ locals[r].start <= a /\ a < debug.code THEN {locals[r].name} ELSE {})
         /\ pc <= debug.code => ByEnd(emitted')
<1>. DEFINE m == debug.registers
            code == debug.code
<1>1. m \in Nat /\ code \in Nat /\ DebugType /\ Registers = 0 .. m - 1 /\ pc \in Nat
  BY MethodFacts DEF DebugInv, DebugType, Registers
<1>2. PICK told \in [0 .. m -> Seq(Records)] :
        /\ told[0] = emitted
        /\ \A n \in 1 .. m : told[n] = Emit(told[n - 1], n - 1, code)
        /\ emitted' = told[m]
  BY RestLoop
<1>. HIDE DEF m, code
<1>. DEFINE Rest(r, a) == IF locals[r].live /\ locals[r].start <= a /\ a < code THEN {locals[r].name} ELSE {}
            Says(n) == \A r \in Registers : \A a :
                         Names(told[n], r, a) = Names(emitted, r, a) \cup (IF r < n THEN Rest(r, a) ELSE {})
            Rises(n) == pc <= code => ByEnd(told[n]) /\ \A i \in 1 .. Len(told[n]) : told[n][i].end <= code
            S == { n \in Nat : n <= m => Says(n) /\ Rises(n) }
<1>3. Says(0) /\ Rises(0)
  <2>1. \A r \in Registers : ~ (r < 0)
    BY <1>1
  <2>2. Says(0)
    BY <1>2, <2>1
  <2>3. ByEnd(emitted) /\ \A i \in 1 .. Len(emitted) : emitted[i].end <= pc
    BY DEF DebugInv, OrderInv, EmitRest
  <2>4. \A i \in 1 .. Len(emitted) : emitted[i].end \in Nat
    <3>. TAKE i \in 1 .. Len(emitted)
    <3>1. emitted[i] \in Records
      BY <1>1, ElementOfSeq DEF DebugType
    <3>. QED
      BY <3>1 DEF Records
  <2>5. Rises(0)
    BY <1>1, <1>2, <2>3, <2>4
  <2>. QED
    BY <2>2, <2>5
<1>4. ASSUME NEW n \in Nat, n \in S, n + 1 <= m PROVE Says(n + 1) /\ Rises(n + 1)
  <2>1. n + 1 \in 1 .. m /\ (n + 1) - 1 = n /\ n \in 0 .. m /\ n \in Registers
    BY <1>1, <1>4
  <2>2. told[n + 1] = Emit(told[n], n, code) /\ told[n] \in Seq(Records)
    BY <1>2, <2>1
  <2>3. Says(n) /\ Rises(n)
    BY <1>1, <1>4
  <2>4. Says(n + 1)
    <3>. SUFFICES ASSUME NEW r \in Registers, NEW a
                  PROVE  Names(told[n + 1], r, a) = Names(emitted, r, a) \cup (IF r < n + 1 THEN Rest(r, a) ELSE {})
      OBVIOUS
    <3>1. Names(told[n + 1], r, a) = Names(told[n], r, a) \cup (IF n = r THEN Rest(r, a) ELSE {})
      <4>1. Names(Emit(told[n], n, code), r, a)
              = Names(told[n], r, a)
                  \cup (IF n = r /\ locals[n].live /\ locals[n].start <= a /\ a < code THEN {locals[n].name} ELSE {})
        <5>. DEFINE t == told[n]
        <5>1. DebugType /\ t \in Seq(Records) /\ n \in Registers /\ code \in Nat
          BY <1>1, <2>1, <2>2
        <5>. HIDE DEF t
        <5>2. \A r_, a_ : Names(Emit(t, n, code), r_, a_)
              = Names(t, r_, a_)
                  \cup (IF n = r_ /\ locals[n].live /\ locals[n].start <= a_ /\ a_ < code THEN {locals[n].name} ELSE {})
          BY <5>1, NamesWithLocal
        <5>. QED
          BY <5>2 DEF t
      <4>. QED
        BY <2>2, <4>1
    <3>2. Names(told[n], r, a) = Names(emitted, r, a) \cup (IF r < n THEN Rest(r, a) ELSE {})
      BY <2>3
    <3>3. r < n + 1 <=> r < n \/ n = r
      BY <1>1
    <3>. HIDE DEF Rest
    <3>. QED
      BY <3>1, <3>2, <3>3
  <2>5. Rises(n + 1)
    <3>. SUFFICES ASSUME pc <= code
                  PROVE  ByEnd(told[n + 1]) /\ \A i \in 1 .. Len(told[n + 1]) : told[n + 1][i].end <= code
      OBVIOUS
    <3>1. ByEnd(told[n]) /\ \A i \in 1 .. Len(told[n]) : told[n][i].end <= code
      BY <2>3
    <3>2. ByEnd(Emit(told[n], n, code))
          /\ \A i \in 1 .. Len(Emit(told[n], n, code)) : Emit(told[n], n, code)[i].end <= code
      BY <1>1, <2>1, <2>2, <3>1, EndsWithLocal
    <3>. QED
      BY <2>2, <3>2
  <2>. QED
    BY <2>4, <2>5
<1>5. Says(m) /\ Rises(m)
  <2>. HIDE DEF Says, Rises
  <2>1. 0 \in S
    BY <1>3
  <2>2. ASSUME NEW n \in Nat, n \in S PROVE n + 1 \in S
    BY <1>4, <2>2
  <2>3. Nat \subseteq S
    <3>. HIDE DEF S
    <3>. QED
      BY <2>1, <2>2, SetInduction
  <2>. QED
    BY <1>1, <2>3
<1>6. ASSUME NEW r \in Registers, NEW a PROVE Names(emitted', r, a) = Names(emitted, r, a) \cup Rest(r, a)
  <2>1. r < m
    BY <1>1
  <2>2. Names(told[m], r, a) = Names(emitted, r, a) \cup (IF r < m THEN Rest(r, a) ELSE {})
    BY <1>5
  <2>. QED
    BY <1>2, <2>1, <2>2
<1>7. emitted' \in Seq(Records)
  BY <1>1, <1>2
<1>8. pc <= code => ByEnd(emitted')
  BY <1>2, <1>5
<1>. QED
  BY <1>6, <1>7, <1>8 DEF code

LEMMA DescribedThen == \A r, a : Described(r, a)' = DescribedTo(r, a, read)'
<1>1. (\A r, a : Described(r, a) = DescribedTo(r, a, read))'
  BY DescribedIs, PTL
<1>. QED
  BY <1>1

LEMMA EmitStep == DebugInv /\ EmitRest => DebugInv'
<1>. SUFFICES ASSUME DebugInv, EmitRest PROVE DebugInv'
  OBVIOUS
<1>1. /\ phase = "finish" /\ phase' = "decoded"
      /\ UNCHANGED <<debug, read, arg, pc, line, locals, positions>>
  BY DEF EmitRest
<1>2. DebugType'
  <2>1. Registers' = Registers
    BY <1>1, MethodStays
  <2>. QED
    BY <1>1, <2>1, RestIsTold DEF DebugInv, DebugType
<1>3. OrderInv'
  <2>1. pc <= debug.code => (ByEnd(emitted))'
    BY RestIsTold DEF ByEnd
  <2>. QED
    BY <1>1, <2>1 DEF DebugInv, OrderInv
<1>4. RangesAsDescribed'
  <2>1. ASSUME Fits, pc < U2Range, NEW r \in Registers, NEW a \in 0 .. debug.code - 1
        PROVE  Names(emitted', r, a) = DescribedTo(r, a, read)
    <3>1. a \in Nat /\ a < debug.code
      BY MethodFacts DEF DebugInv, DebugType
    <3>2. Names(emitted, r, a) \cup Pending(r, a) = DescribedTo(r, a, read)
      BY <1>1, <2>1, <3>1 DEF DebugInv, ToldInv, AsTold
    <3>3. Names(emitted', r, a) = Names(emitted, r, a) \cup Pending(r, a)
      BY <3>1, RestIsTold DEF Pending
    <3>. QED
      BY <3>2, <3>3
  <2>2. ASSUME NEW r, NEW a PROVE Described(r, a)' = DescribedTo(r, a, read)
    <3>1. Described(r, a)' = DescribedTo(r, a, read)'
      BY DescribedThen
    <3>. QED
      BY <1>1, <3>1, MethodStays
  <2>3. ASSUME Fits', pc' < U2Range, NEW r \in Registers', NEW a \in 0 .. debug'.code - 1
        PROVE  { emitted'[i].name : i \in { j \in DOMAIN emitted' :
                   emitted'[j].reg = r /\ emitted'[j].start <= a /\ a < emitted'[j].end } } = Described(r, a)'
    <3>1. Fits /\ pc < U2Range /\ r \in Registers /\ a \in 0 .. debug.code - 1
      BY <1>1, <2>3, MethodStays
    <3>2. Names(emitted', r, a) = Described(r, a)'
      BY <2>1, <2>2, <3>1
    <3>. QED
      BY <3>2 DEF Names
  <2>. QED
    BY <2>3 DEF RangesAsDescribed
<1>. QED
  BY <1>1, <1>2, <1>3, <1>4 DEF DebugInv, EntryInv, AddressInv, ToldInv

LEMMA RefusedStep == DebugInv /\ (EndSequence \/ RegisterRefused) => DebugInv'
<1>. SUFFICES ASSUME DebugInv, EndSequence \/ RegisterRefused PROVE DebugInv'
  OBVIOUS
<1>1. /\ phase = "program" /\ phase' \in {"finish", "undefined"} /\ debug' = debug
      /\ UNCHANGED <<read, arg, pc, line, locals, emitted, positions>>
  BY DEF EndSequence, RegisterRefused, Executes, Finish
<1>. QED
  BY <1>1, FinishStep

\* What stays the same keeps what is known of it.
LEMMA DebugStutter == DebugInv /\ UNCHANGED debugVars => DebugInv'
<1>. SUFFICES ASSUME DebugInv, UNCHANGED debugVars PROVE DebugInv'
  OBVIOUS
<1>1. UNCHANGED <<debug, phase, read, arg, pc, line, locals, emitted, positions>>
  BY DEF debugVars
<1>2. Registers' = Registers
  BY <1>1, MethodStays
<1>3. DebugType'
  BY <1>1, <1>2 DEF DebugInv, DebugType
<1>4. (ByEnd(emitted))' <=> ByEnd(emitted)
  BY <1>1 DEF ByEnd
<1>5. OrderInv'
  BY <1>1, <1>4 DEF DebugInv, OrderInv
<1>6. EntryInv' /\ AddressInv'
  <2>1. /\ Fits' = Fits /\ Registers' = Registers
        /\ ParameterAt(read + 1)' = ParameterAt(read + 1)
        /\ \A r : EntryTo(r, read)' = EntryTo(r, read)
    BY <1>1, MethodStays
  <2>2. AddressOf(read + 1)' = AddressOf(read + 1) /\ \A i : AddressOf(i)' = AddressOf(i)
    BY <1>1, MethodStays
  <2>3. EntryInv'
    BY <1>1, <2>1 DEF DebugInv, EntryInv
  <2>4. AddressInv'
    BY <1>1, <2>2 DEF DebugInv, AddressInv
  <2>. QED
    BY <2>3, <2>4
<1>7. ToldInv'
  <2>. SUFFICES ASSUME phase \in {"program", "finish"}, Fits', pc' < U2Range, NEW r \in Registers' PROVE AsTold(r)'
    BY <1>1 DEF ToldInv
  <2>1. Fits /\ pc < U2Range /\ r \in Registers
    BY <1>1, <1>2, MethodStays
  <2>2. AsTold(r)
    BY <2>1 DEF DebugInv, ToldInv
  <2>3. pc' \in Nat /\ pc <= pc'
    BY <1>1 DEF DebugInv, DebugType
  <2>. QED
    BY <1>1, <2>1, <2>2, <2>3, RegisterAsBefore DEF DebugInv
<1>8. RangesAsDescribed'
  <2>1. \A r, a : Described(r, a)' = Described(r, a)
    <3>. TAKE r, a
    <3>1. Described(r, a)' = DescribedTo(r, a, read)'
      BY DescribedThen
    <3>2. Described(r, a) = DescribedTo(r, a, read)
      BY DescribedIs
    <3>. QED
      BY <1>1, <3>1, <3>2, MethodStays
  <2>2. Fits' = Fits
    BY <1>1, MethodStays
  <2>. QED
    BY <1>1, <1>2, <2>1, <2>2 DEF DebugInv, RangesAsDescribed
<1>. QED
  BY <1>3, <1>5, <1>6, <1>7, <1>8 DEF DebugInv

LEMMA DebugStep == DebugInv /\ [DebugNext]_debugVars => DebugInv'
  BY ParameterStep, AdvanceStep, SpecialStep, StartStep, EndStep, RestartStep, EmitStep, RefusedStep, DebugStutter
     DEF DebugNext

LEMMA DebugInvShows == DebugInv => LocalsAsDescribed
  BY DEF DebugInv, OrderInv, ByEnd, LocalsAsDescribed, Ascending

-----------------------------------------------------------------------------

\* For any method and any program: the ranges dexDecodeDebugInfo tells its
\* caller of are those the program describes, and positions and locals come by
\* ascending address.
THEOREM TellsOfLocals == DebugSpec => []LocalsAsDescribed
<1>1. DebugInit => DebugInv
  BY DebugInitial
<1>2. DebugInv /\ [DebugNext]_debugVars => DebugInv'
  BY DebugStep
<1>3. DebugInv => LocalsAsDescribed
  BY DebugInvShows
<1>. QED
  BY <1>1, <1>2, <1>3, PTL DEF DebugSpec
=============================================================================
