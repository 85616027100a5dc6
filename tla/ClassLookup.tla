----------------------------- MODULE ClassLookup -----------------------------
(***************************************************************************)
(* libdex's lookup of classes by descriptor (DexFile.cpp): an open-        *)
(* addressed table filled in the order of the class definitions and        *)
(* searched from the slot of a descriptor's hash.  One step is one probe.  *)
(*                                                                         *)
(* A descriptor is the sequence of its bytes, a class definition its place *)
(* among the file's.                                                       *)
(***************************************************************************)
EXTENDS Integers, Sequences, FiniteSets
LOCAL INSTANCE SequencesExt

CONSTANTS
  ClassLists,   \* the descriptors of a file's class definitions, in order
  Descriptors,  \* the descriptors a caller may look for
  HashRange,    \* 2^32, the values of a hash
  NoClass

VARIABLES
  classes,
  table,     \* slot -> what was stored, none in an empty one
  step,      \* "add" the next class, "ready" for a caller, "find"
  added,     \* classes in the table
  slot,      \* the slot to look at next
  wanted,    \* the descriptor looked for
  found      \* the class definition returned

lookupVars == <<classes, table, step, added, slot, wanted, found>>

ASSUME LookupAssumption ==
  /\ \A c \in ClassLists : c \in Seq(Descriptors) /\ c # << >> /\ Len(c) * 2 <= HashRange
  /\ NoClass \notin Descriptors

-----------------------------------------------------------------------------

Signed(c) == IF c < 128 THEN c ELSE c - 256

\* classDescriptorHash; char is signed.
Hash(d) == FoldLeft(LAMBDA h, c : (h * 31 + Signed(c)) % HashRange, 1, d)

RoundUpPower2(n) == CHOOSE p \in { 2 ^ k : k \in 0 .. n } : p >= n /\ \A k \in 0 .. n : 2 ^ k >= n => p <= 2 ^ k

\* Mutant: as many slots as classes.
FullTable(n) == RoundUpPower2(n)

\* dexCreateClassLookup: numEntries.
TableSize(n) == RoundUpPower2(n * 2)

\* A hash is a number, a table has slots.
ASSUME HashAssumption ==
  /\ \A d \in Descriptors : Hash(d) \in Nat
  /\ \A c \in ClassLists : TableSize(Len(c)) \in Nat \ {0}

\* idx = hash & mask.
FirstSlot(d) == Hash(d) % TableSize(Len(classes))

NextSlot == (slot + 1) % TableSize(Len(classes))

Empty == {}

Entry(i) == { [hash |-> Hash(classes[i]), descriptor |-> classes[i], def |-> i] }

\* The next class is hashed, or the table is complete.
Proceed(n) ==
  /\ added' = n
  /\ IF n < Len(classes) THEN step' = "add" /\ slot' = FirstSlot(classes[n + 1])
     ELSE step' = "ready" /\ slot' = 0

\* classLookupAdd, one slot.
Add ==
  /\ step = "add"
  /\ IF table[slot] # Empty
     THEN slot' = NextSlot /\ UNCHANGED <<table, step, added>>
     ELSE table' = [table EXCEPT ![slot] = Entry(added + 1)] /\ Proceed(added + 1)
  /\ UNCHANGED <<classes, wanted, found>>

\* A caller asks dexFindClass for a descriptor.
Ask ==
  /\ step = "ready"
  /\ \E d \in Descriptors : wanted' = d /\ slot' = FirstSlot(d)
  /\ step' = "find"
  /\ found' = NoClass
  /\ UNCHANGED <<classes, table, added>>

\* Mutant: equal hashes are taken for equal descriptors.
MatchesHash(e) == e.hash = Hash(wanted)

Matches(e) == e.hash = Hash(wanted) /\ e.descriptor = wanted

ReturnClass(def) == found' = def /\ wanted' = NoClass /\ step' = "ready" /\ slot' = 0

\* dexFindClass, one slot.
Find ==
  /\ step = "find"
  /\ \/ table[slot] = Empty /\ ReturnClass(NoClass)
     \/ \E e \in table[slot] : Matches(e) /\ ReturnClass(e.def)
     \/ /\ \E e \in table[slot] : ~Matches(e)
        /\ slot' = NextSlot
        /\ UNCHANGED <<step, wanted, found>>
  /\ UNCHANGED <<classes, table, added>>

LookupStart(c) ==
  /\ classes = c
  /\ table = [ s \in 0 .. TableSize(Len(c)) - 1 |-> Empty ]
  /\ step = "add" /\ added = 0
  /\ slot = Hash(c[1]) % TableSize(Len(c))
  /\ wanted = NoClass /\ found = NoClass

LookupInit == \E c \in ClassLists : LookupStart(c)

LookupNext == Add \/ Ask \/ Find

\* A search runs to its end on its caller's thread.
LookupSpec == LookupInit /\ [][LookupNext]_lookupVars /\ WF_lookupVars(Add \/ Find)

-----------------------------------------------------------------------------

Directory == INSTANCE ClassDirectory WITH
  Asked <- Descriptors, None <- NoClass,
  defined <- SubSeq(classes, 1, added), question <- wanted, answer <- found

\* The table answers as a directory of the classes does, the first of those
\* with one descriptor for it, whatever collides with what and wherever the
\* probing wraps around.
ImplementsDirectory == Directory!Spec
=============================================================================
