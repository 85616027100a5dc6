------------------------- MODULE PEAnalyzers_proofs --------------------------
(* The analyzers of the PE plugin, for every program and every image.        *)
EXTENDS PEAnalyzers, Integers, Sequences, FiniteSets, OrderLemmas, SequenceTheorems, FiniteSetTheorems, TLAPS

-----------------------------------------------------------------------------
(***************************************************************************)
(* Visual Basic: the methods named are those that handle the events.       *)
(***************************************************************************)

Reached(i) == i.entry = "push call" /\ i.header = "VB5!"

ImageType ==
  /\ image \in Images
  /\ pc \in {"entry", "objects", "done"}

\* Where the analyzer is: at a control of the object if it has any to look at,
\* behind the objects in the end.
CursorInv ==
  /\ at \in (Nat \ {0}) \X (Nat \ {0}) \X (Nat \ {0})
  /\ at[1] <= Len(image.objects) /\ VB!Decompiled(VB!Object) => at[2] <= Len(VB!Object.controls)
  /\ pc = "done" /\ Reached(image) => at[1] > Len(image.objects)

\* VB!LeadsTo, in an image.
Leads(i, va, m) ==
  va \in i.segments /\ m \in i.segments /\ i.code[va].first = "copy" /\ i.code[va].goto = m

\* A method's event, and the slot it was found in.
NamedIn(i, f) ==
  \E o \in DOMAIN i.objects : \E c \in DOMAIN i.objects[o].controls :
    LET control == i.objects[o].controls[c]
    IN  /\ i.objects[o].constants # "behind info"
        /\ VB!Known(control)
        /\ \E k \in DOMAIN Components[control.guid] :
             /\ f.name = <<o, c, Components[control.guid][k]>>
             /\ k \in DOMAIN control.table => Leads(i, control.table[k], f.address)

NamedInv == \A f \in created : ~f.thunk => NamedIn(image, f)

\* The cursor a is behind event j of control c of object o.
Passed(a, o, c, j) ==
  \/ o < a[1]
  \/ o = a[1] /\ c < a[2]
  \/ o = a[1] /\ c = a[2] /\ j < a[3]

\* Method m handles event j of control c of object o.
Handles(i, o, c, j, m) ==
  /\ o \in DOMAIN i.objects /\ i.objects[o].info /\ i.objects[o].constants # "behind info"
  /\ c \in DOMAIN i.objects[o].controls
  /\ VB!Known(i.objects[o].controls[c])
  /\ j \in DOMAIN i.objects[o].controls[c].table
  /\ j \in DOMAIN Components[i.objects[o].controls[c].guid]
  /\ m \in i.segments /\ Leads(i, i.objects[o].controls[c].table[j], m)

Method(i, o, c, j, m) ==
  [address |-> m, name |-> <<o, c, Components[i.objects[o].controls[c].guid][j]>>, thunk |-> FALSE]

PassedIn(i, a, s) ==
  \A o, c, j, m : Handles(i, o, c, j, m) /\ Passed(a, o, c, j) => Method(i, o, c, j, m) \in s

\* Whatever the cursor passed has its methods.
PassedInv == PassedIn(image, at, created)

VBInv == ImageType /\ CursorInv /\ NamedInv /\ PassedInv

\* The images are made as VBAssumption says.
LEMMA ImageFacts ==
  ASSUME image \in Images
  PROVE  /\ Len(image.objects) \in Nat
         /\ DOMAIN image.objects = 1 .. Len(image.objects)
         /\ \A o \in DOMAIN image.objects :
              /\ Len(image.objects[o].controls) \in Nat
              /\ DOMAIN image.objects[o].controls = 1 .. Len(image.objects[o].controls)
              /\ image.objects[o].controls = << >> <=> Len(image.objects[o].controls) = 0
              /\ \A c \in DOMAIN image.objects[o].controls :
                   LET table == image.objects[o].controls[c].table
                   IN  Len(table) \in Nat /\ DOMAIN table = 1 .. Len(table)
  <1> DEFINE ControlSet == [guid : STRING, table : Seq(Addresses \cup {0})]
             ObjectSet == [info : BOOLEAN, constants : {"behind info", "elsewhere"}, controls : Seq(ControlSet)]
  <1>1. image.objects \in Seq(ObjectSet)
    BY VBAssumption DEF VB!ImagesWellFormed, VB!Nowhere
  <1>2. /\ Len(image.objects) \in Nat
        /\ DOMAIN image.objects = 1 .. Len(image.objects)
        /\ \A o \in DOMAIN image.objects : image.objects[o] \in ObjectSet
    <2> HIDE DEF ObjectSet
    <2> QED
      BY <1>1, LenProperties, ElementOfSeq
  <1>3. ASSUME NEW o \in DOMAIN image.objects
        PROVE  /\ Len(image.objects[o].controls) \in Nat
               /\ DOMAIN image.objects[o].controls = 1 .. Len(image.objects[o].controls)
               /\ image.objects[o].controls = << >> <=> Len(image.objects[o].controls) = 0
               /\ \A c \in DOMAIN image.objects[o].controls :
                    LET table == image.objects[o].controls[c].table
                    IN  Len(table) \in Nat /\ DOMAIN table = 1 .. Len(table)
    <2>1. image.objects[o].controls \in Seq(ControlSet)
      BY <1>2
    <2>2. PICK s \in Seq(ControlSet) : s = image.objects[o].controls
      BY <2>1
    <2>3. Len(s) \in Nat /\ DOMAIN s = 1 .. Len(s) /\ \A c \in DOMAIN s : s[c] \in ControlSet
      <3> HIDE DEF ControlSet
      <3> QED
        BY LenProperties, ElementOfSeq
    <2>4. s = << >> <=> Len(s) = 0
      <3> HIDE DEF ControlSet
      <3> QED
        BY EmptySeq
    <2>5. ASSUME NEW c \in DOMAIN s
          PROVE  Len(s[c].table) \in Nat /\ DOMAIN s[c].table = 1 .. Len(s[c].table)
      <3>1. s[c].table \in Seq(Addresses \cup {0})
        BY <2>3
      <3> QED
        BY <3>1, LenProperties
    <2> QED
      BY <2>2, <2>3, <2>4, <2>5
  <1> QED
    BY <1>2, <1>3

LEMMA ComponentFacts ==
  ASSUME NEW g \in DOMAIN Components
  PROVE  /\ Len(Components[g]) \in Nat
         /\ DOMAIN Components[g] = 1 .. Len(Components[g])
         /\ \A i, j \in DOMAIN Components[g] : Components[g][i] = Components[g][j] => i = j
  <1>1. /\ Components[g] \in Seq(STRING)
        /\ \A i, j \in DOMAIN Components[g] : Components[g][i] = Components[g][j] => i = j
    BY VBAssumption DEF VB!ComponentsWellFormed
  <1> QED
    BY <1>1, LenProperties

\* The cursor behind the object it is at.
LEMMA PastTheObject ==
  ASSUME VBInv, at[1] <= Len(image.objects), pc = "objects", at' = VB!NextObject,
         UNCHANGED <<image, pc>>
  PROVE  CursorInv'
  <1>1. at \in (Nat \ {0}) \X (Nat \ {0}) \X (Nat \ {0}) /\ image \in Images
    BY DEF VBInv, CursorInv, ImageType
  <1>2. at'[1] = at[1] + 1 /\ at'[2] = 1 /\ at'[3] = 1 /\ at' \in (Nat \ {0}) \X (Nat \ {0}) \X (Nat \ {0})
    BY <1>1 DEF VB!NextObject
  <1>3. ASSUME at'[1] <= Len(image.objects), image.objects[at'[1]].controls # << >>
        PROVE  at'[2] <= Len(image.objects[at'[1]].controls)
    <2>1. at'[1] \in DOMAIN image.objects
      BY <1>1, <1>2, <1>3, ImageFacts
    <2>2. Len(image.objects[at'[1]].controls) \in Nat /\ Len(image.objects[at'[1]].controls) # 0
      BY <1>1, <1>3, <2>1, ImageFacts
    <2> QED
      BY <1>2, <2>2
  <1> QED
    BY <1>2, <1>3 DEF CursorInv, VB!Decompiled, VB!Object

\* The cursor behind the control it is at.
LEMMA PastTheControl ==
  ASSUME VBInv, VB!InObject, at' = VB!NextControl, UNCHANGED <<image, pc>>
  PROVE  CursorInv'
  <1>1. /\ at \in (Nat \ {0}) \X (Nat \ {0}) \X (Nat \ {0}) /\ image \in Images
        /\ pc = "objects" /\ at[1] <= Len(image.objects)
    BY DEF VBInv, CursorInv, ImageType, VB!InObject
  <1>2. CASE at[2] < Len(VB!Object.controls)
    <2>1. at' = <<at[1], at[2] + 1, 1>>
      BY <1>2 DEF VB!NextControl
    <2>2. at'[1] = at[1] /\ at'[2] = at[2] + 1 /\ at' \in (Nat \ {0}) \X (Nat \ {0}) \X (Nat \ {0})
      BY <1>1, <2>1
    <2>3. at[1] \in DOMAIN image.objects
      BY <1>1, ImageFacts
    <2>4. Len(image.objects[at[1]].controls) \in Nat
      BY <1>1, <2>3, ImageFacts
    <2>5. at'[2] <= Len(image.objects[at'[1]].controls)
      BY <1>1, <1>2, <2>2, <2>4 DEF VB!Object
    <2> QED
      BY <1>1, <2>2, <2>5 DEF CursorInv, VB!Object
  <1>3. CASE ~(at[2] < Len(VB!Object.controls))
    BY <1>1, <1>3, PastTheObject DEF VB!NextControl
  <1> QED
    BY <1>2, <1>3

\* Nothing to find between a cursor and the next: what is passed then and was not
\* passed before has no method.
LEMMA NothingPassed ==
  ASSUME VBInv, UNCHANGED <<image, created>>,
         \A o, c, j, m : Handles(image, o, c, j, m) /\ Passed(at', o, c, j) => Passed(at, o, c, j)
  PROVE  PassedInv'
  BY DEF VBInv, PassedInv, PassedIn

\* What handles an event lies in an object with controls, at a control, at an event.
LEMMA HandlesFacts ==
  ASSUME image \in Images, NEW o, NEW c, NEW j, NEW m, Handles(image, o, c, j, m)
  PROVE  /\ o \in 1 .. Len(image.objects)
         /\ VB!Decompiled(image.objects[o])
         /\ Len(image.objects[o].controls) \in Nat /\ c \in 1 .. Len(image.objects[o].controls)
         /\ j \in 1 .. Len(image.objects[o].controls[c].table)
         /\ Len(Components[image.objects[o].controls[c].guid]) \in Nat
         /\ j \in 1 .. Len(Components[image.objects[o].controls[c].guid])
  <1>1. /\ o \in 1 .. Len(image.objects)
        /\ Len(image.objects[o].controls) \in Nat /\ c \in 1 .. Len(image.objects[o].controls)
        /\ j \in 1 .. Len(image.objects[o].controls[c].table)
        /\ image.objects[o].controls = << >> <=> Len(image.objects[o].controls) = 0
    BY ImageFacts DEF Handles
  <1>2. image.objects[o].controls # << >>
    BY <1>1
  <1>3. VB!Decompiled(image.objects[o])
    BY <1>2 DEF Handles, VB!Decompiled, VB!HasOptionalInfo
  <1>4. image.objects[o].controls[c].guid \in DOMAIN Components
    BY DEF Handles, VB!Known
  <1>5. /\ Len(Components[image.objects[o].controls[c].guid]) \in Nat
        /\ j \in 1 .. Len(Components[image.objects[o].controls[c].guid])
    BY <1>4, ComponentFacts DEF Handles
  <1> QED
    BY <1>1, <1>3, <1>5

\* The methods an event adds are named after it.
LEMMA EventNames ==
  ASSUME VBInv, VB!Event
  PROVE  NamedInv'
  <1>1. /\ image \in Images /\ NamedInv /\ image' = image
        /\ at \in (Nat \ {0}) \X (Nat \ {0}) \X (Nat \ {0})
        /\ VB!InObject /\ VB!Known(VB!Control)
    BY DEF VBInv, ImageType, CursorInv, VB!Event
  <1>2. /\ at[1] \in DOMAIN image.objects /\ at[2] \in DOMAIN image.objects[at[1]].controls
        /\ image.objects[at[1]].constants # "behind info"
    <2>1. at[1] <= Len(image.objects) /\ at[2] <= Len(VB!Object.controls) /\ VB!Decompiled(VB!Object)
      BY <1>1 DEF VB!InObject, VBInv, CursorInv
    <2>2. at[1] \in DOMAIN image.objects
      BY <1>1, <2>1, ImageFacts
    <2>3. at[2] \in DOMAIN image.objects[at[1]].controls
      BY <1>1, <2>1, <2>2, ImageFacts DEF VB!Object
    <2> QED
      BY <2>1, <2>2, <2>3 DEF VB!Decompiled, VB!HasOptionalInfo, VB!Object
  <1>3. ASSUME NEW f \in created, ~f.thunk
        PROVE  NamedIn(image, f)
    BY <1>1, <1>3 DEF NamedInv
  <1>4. ASSUME at[3] <= Len(Components[VB!Control.guid]),
               NEW va \in VB!Slot(VB!Control, at[3]), NEW f \in VB!Trampoline(va, VB!Name(at[3])), ~f.thunk
        PROVE  NamedIn(image, f)
    <2> DEFINE control == image.objects[at[1]].controls[at[2]]
    <2>1. control = VB!Control
      BY DEF VB!Control, VB!Object
    <2>2. at[3] \in DOMAIN Components[control.guid]
      <3>1. control.guid \in DOMAIN Components
        BY <1>1, <2>1 DEF VB!Known
      <3> QED
        BY <1>1, <1>4, <2>1, <3>1, ComponentFacts
    <2>3. f.name = <<at[1], at[2], Components[control.guid][at[3]]>>
      BY <1>4, <2>1 DEF VB!Trampoline, VB!Name
    <2>4. Leads(image, va, f.address)
      BY <1>4 DEF VB!Trampoline, Leads
    <2>5. at[3] \in DOMAIN control.table => va = control.table[at[3]]
      <3>1. DOMAIN control.table = 1 .. Len(control.table)
        BY <1>1, <1>2, ImageFacts
      <3> QED
        BY <1>4, <2>1, <3>1 DEF VB!Slot
    <2> QED
      BY <1>1, <1>2, <2>1, <2>2, <2>3, <2>4, <2>5 DEF NamedIn
  <1>5. ASSUME NEW f \in created', ~f.thunk
        PROVE  NamedIn(image, f)
    <2>1. CASE f \in created
      BY <1>3, <1>5, <2>1
    <2>2. CASE f \notin created
      <3>1. /\ at[3] <= Len(Components[VB!Control.guid])
            /\ \E va \in VB!Slot(VB!Control, at[3]) : created' = created \cup VB!Trampoline(va, VB!Name(at[3]))
        BY <1>5, <2>2 DEF VB!Event
      <3> QED
        BY <1>4, <1>5, <2>2, <3>1
    <2> QED
      BY <2>1, <2>2
  <1> QED
    BY <1>1, <1>5 DEF NamedInv

\* The event passed has its method.
LEMMA EventPasses ==
  ASSUME VBInv, VB!Event
  PROVE  PassedInv'
  <1>1. /\ image \in Images /\ PassedInv /\ image' = image
        /\ at \in (Nat \ {0}) \X (Nat \ {0}) \X (Nat \ {0})
        /\ VB!InObject /\ VB!Known(VB!Control)
    BY DEF VBInv, ImageType, CursorInv, VB!Event
  <1>2. /\ at[1] <= Len(image.objects) /\ at[2] <= Len(VB!Object.controls)
    BY <1>1 DEF VB!InObject, VBInv, CursorInv
  <1>3. CASE at[3] <= Len(Components[VB!Control.guid])
    <2>1. PICK va \in VB!Slot(VB!Control, at[3]) : created' = created \cup VB!Trampoline(va, VB!Name(at[3]))
      BY <1>3 DEF VB!Event
    <2>2. at' = [at EXCEPT ![3] = at[3] + 1]
      BY <1>3 DEF VB!Event
    <2>3. at'[1] = at[1] /\ at'[2] = at[2] /\ at'[3] = at[3] + 1
      BY <1>1, <2>2
    <2> SUFFICES ASSUME NEW o, NEW c, NEW j, NEW m, Handles(image, o, c, j, m), Passed(at', o, c, j)
                 PROVE  Method(image, o, c, j, m) \in created'
      BY <1>1 DEF PassedInv, PassedIn
    <2>4. CASE Passed(at, o, c, j)
      BY <1>1, <2>1, <2>4 DEF PassedInv, PassedIn
    <2>5. CASE ~Passed(at, o, c, j)
      <3>1. /\ o \in 1 .. Len(image.objects) /\ c \in 1 .. Len(image.objects[o].controls)
            /\ j \in 1 .. Len(image.objects[o].controls[c].table)
        BY <1>1, HandlesFacts
      <3>2. o = at[1] /\ c = at[2] /\ j = at[3]
        <4>1. o \in Int /\ c \in Int /\ j \in Int
          BY <3>1
        <4> QED
          BY <1>1, <2>3, <2>5, <4>1 DEF Passed
      <3>3. image.objects[o].controls[c] = VB!Control
        BY <3>2 DEF VB!Control, VB!Object
      <3>4. at[3] \in 1 .. Len(VB!Control.table)
        BY <3>1, <3>2, <3>3
      <3>5. va = VB!Control.table[at[3]]
        BY <3>4 DEF VB!Slot
      <3>6. Leads(image, va, m)
        BY <3>2, <3>3, <3>5 DEF Handles
      <3>7. Method(image, o, c, j, m) \in VB!Trampoline(va, VB!Name(at[3]))
        BY <3>2, <3>3, <3>6 DEF VB!Trampoline, Leads, VB!Name, Method
      <3> QED
        BY <2>1, <3>7
    <2> QED
      BY <2>4, <2>5
  <1>4. CASE ~(at[3] <= Len(Components[VB!Control.guid]))
    <2>1. created' = created /\ at' = VB!NextControl
      BY <1>4 DEF VB!Event
    <2>2. ASSUME NEW o, NEW c, NEW j, NEW m, Handles(image, o, c, j, m), Passed(at', o, c, j)
          PROVE  Passed(at, o, c, j)
      <3>1. /\ o \in 1 .. Len(image.objects)
            /\ Len(image.objects[o].controls) \in Nat /\ c \in 1 .. Len(image.objects[o].controls)
            /\ Len(Components[image.objects[o].controls[c].guid]) \in Nat
            /\ j \in 1 .. Len(Components[image.objects[o].controls[c].guid])
        BY <1>1, <2>2, HandlesFacts
      <3>2. o \in Int /\ c \in Int /\ j \in Int
        BY <3>1
      <3>5. o = at[1] /\ c = at[2] => j < at[3]
        <4>1. SUFFICES ASSUME o = at[1], c = at[2] PROVE j < at[3]
          OBVIOUS
        <4>2. image.objects[o].controls[c] = VB!Control
          BY <4>1, Zenon DEF VB!Control, VB!Object
        <4>3. Len(Components[VB!Control.guid]) \in Nat /\ j \in 1 .. Len(Components[VB!Control.guid])
          BY <3>1, <4>2, Zenon
        <4>4. at[3] \in Nat
          BY <1>1
        <4> QED
          BY <1>4, <4>3, <4>4
      <3>6. \/ at'[1] = at[1] /\ at'[2] = at[2] + 1 /\ at'[3] = 1
            \/ at'[1] = at[1] + 1 /\ at'[2] = 1 /\ at'[3] = 1 /\ at[2] >= Len(image.objects[at[1]].controls)
        <4>1. CASE at[2] < Len(VB!Object.controls)
          BY <4>1, <2>1 DEF VB!NextControl
        <4>2. CASE ~(at[2] < Len(VB!Object.controls))
          <5>1. at' = <<at[1] + 1, 1, 1>>
            BY <4>2, <2>1 DEF VB!NextControl, VB!NextObject
          <5>2. Len(VB!Object.controls) \in Nat
            <6>1. at[1] \in DOMAIN image.objects
              BY <1>1, <1>2, ImageFacts
            <6> QED
              BY <6>1, <1>1, ImageFacts DEF VB!Object
          <5>3. at[2] >= Len(VB!Object.controls)
            BY <4>2, <5>2, <1>1
          <5> QED
            BY <5>1, <5>3 DEF VB!Object
        <4> QED
          BY <4>1, <4>2
      <3> QED
        BY <1>1, <2>2, <3>1, <3>2, <3>5, <3>6 DEF Passed
    <2>3. UNCHANGED <<image, created>>
      BY <1>1, <2>1
    <2> QED
      BY <2>2, <2>3, NothingPassed
  <1> QED
    BY <1>3, <1>4

\* A step of the analyzer keeps the invariant.
LEMMA VBStep ==
  ASSUME VBInv, VB!Next
  PROVE  VBInv'
  <1>1. /\ image \in Images /\ pc \in {"entry", "objects", "done"} /\ CursorInv /\ NamedInv
        /\ at \in (Nat \ {0}) \X (Nat \ {0}) \X (Nat \ {0})
    BY DEF VBInv, ImageType, CursorInv
  <1>2. CASE VB!Analyze
    <2>1. UNCHANGED <<image, at, created>> /\ pc' \in {"objects", "done"} /\ (Reached(image) => pc' = "objects")
      BY <1>2 DEF VB!Analyze, Reached
    <2>2. ImageType' /\ CursorInv'
      BY <1>1, <2>1 DEF ImageType, CursorInv, VB!Decompiled, VB!Object
    <2>3. NamedInv' /\ PassedInv'
      BY <2>1 DEF VBInv, NamedInv, PassedInv
    <2> QED
      BY <2>2, <2>3 DEF VBInv
  <1>3. CASE VB!SkipObject
    <2>1. UNCHANGED <<image, pc, created>> /\ at' = VB!NextObject /\ at[1] <= Len(image.objects) /\ pc = "objects"
      BY <1>3 DEF VB!SkipObject
    <2>2. CursorInv'
      BY <2>1, PastTheObject
    <2>3. ASSUME NEW o, NEW c, NEW j, NEW m, Handles(image, o, c, j, m), Passed(at', o, c, j)
          PROVE  Passed(at, o, c, j)
      <3>1. /\ o \in 1 .. Len(image.objects) /\ c \in 1 .. Len(image.objects[o].controls)
            /\ j \in 1 .. Len(image.objects[o].controls[c].table)
            /\ VB!Decompiled(image.objects[o])
        BY <1>1, <2>3, HandlesFacts
      <3>2. o # at[1]
        BY <1>3, <3>1 DEF VB!SkipObject, VB!Object
      <3>3. at'[1] = at[1] + 1 /\ at'[2] = 1 /\ at'[3] = 1
        BY <2>1 DEF VB!NextObject
      <3>4. o \in Int /\ c >= 1 /\ c \in Int /\ j >= 1 /\ j \in Int
        BY <3>1
      <3> QED
        BY <1>1, <2>3, <3>2, <3>3, <3>4 DEF Passed
    <2>4. PassedInv'
      BY <2>1, <2>3, NothingPassed
    <2> QED
      BY <1>1, <2>1, <2>2, <2>4 DEF VBInv, ImageType, NamedInv
  <1>4. CASE VB!UnknownControl
    <2>1. UNCHANGED <<image, pc, created>> /\ at' = VB!NextControl /\ VB!InObject /\ ~VB!Known(VB!Control)
      BY <1>4 DEF VB!UnknownControl, VB!AfterUnfamiliar
    <2>2. CursorInv'
      BY <2>1, PastTheControl
    <2>3. ASSUME NEW o, NEW c, NEW j, NEW m, Handles(image, o, c, j, m), Passed(at', o, c, j)
          PROVE  Passed(at, o, c, j)
      <3>1. /\ o \in 1 .. Len(image.objects)
            /\ Len(image.objects[o].controls) \in Nat /\ c \in 1 .. Len(image.objects[o].controls)
            /\ j \in 1 .. Len(image.objects[o].controls[c].table)
        BY <1>1, <2>3, HandlesFacts
      <3>2. ~(o = at[1] /\ c = at[2])
        BY <2>1, <2>3 DEF Handles, VB!Control, VB!Object
      <3>3. \/ at'[1] = at[1] /\ at'[2] = at[2] + 1 /\ at'[3] = 1
            \/ at'[1] = at[1] + 1 /\ at'[2] = 1 /\ at'[3] = 1 /\ ~(at[2] < Len(image.objects[at[1]].controls))
        BY <2>1 DEF VB!NextControl, VB!NextObject, VB!Object
      <3>4. o \in Int /\ c \in Int /\ c >= 1 /\ j \in Int /\ j >= 1
        BY <3>1
      <3>5. CASE at'[1] = at[1] /\ at'[2] = at[2] + 1 /\ at'[3] = 1
        BY <1>1, <2>3, <3>2, <3>4, <3>5 DEF Passed
      <3>6. CASE at'[1] = at[1] + 1 /\ at'[2] = 1 /\ at'[3] = 1 /\ ~(at[2] < Len(image.objects[at[1]].controls))
        <4>1. CASE o = at[1]
          BY <1>1, <3>1, <3>2, <3>4, <3>6, <4>1 DEF Passed
        <4>2. CASE o # at[1]
          BY <1>1, <2>3, <3>4, <3>6, <4>2 DEF Passed
        <4> QED
          BY <4>1, <4>2
      <3> QED
        BY <3>3, <3>5, <3>6
    <2>4. PassedInv'
      BY <2>1, <2>3, NothingPassed
    <2> QED
      BY <1>1, <2>1, <2>2, <2>4 DEF VBInv, ImageType, NamedInv
  <1>5. CASE VB!Event
    <2>1. UNCHANGED <<image, pc>> /\ VB!InObject
      BY <1>5 DEF VB!Event
    <2>2. CursorInv'
      <3>1. CASE at' = VB!NextControl
        BY <2>1, <3>1, PastTheControl
      <3>2. CASE at' = [at EXCEPT ![3] = at[3] + 1]
        <4>1. at'[1] = at[1] /\ at'[2] = at[2] /\ at' \in (Nat \ {0}) \X (Nat \ {0}) \X (Nat \ {0})
          BY <1>1, <3>2
        <4> QED
          BY <1>1, <2>1, <4>1 DEF CursorInv, VB!Decompiled, VB!HasOptionalInfo, VB!Object
      <3> QED
        BY <1>5, <3>1, <3>2 DEF VB!Event
    <2>3. NamedInv' /\ PassedInv'
      BY <1>5, EventNames, EventPasses
    <2> QED
      BY <1>1, <2>1, <2>2, <2>3 DEF VBInv, ImageType
  <1>6. CASE VB!End
    <2>1. UNCHANGED <<image, at, created>> /\ pc' = "done" /\ at[1] > Len(image.objects)
      BY <1>6 DEF VB!End
    <2>2. ImageType' /\ CursorInv'
      BY <1>1, <2>1 DEF ImageType, CursorInv, VB!Decompiled, VB!HasOptionalInfo, VB!Object
    <2>3. NamedInv' /\ PassedInv'
      BY <2>1 DEF VBInv, NamedInv, PassedInv
    <2> QED
      BY <2>2, <2>3 DEF VBInv
  <1> QED
    BY <1>2, <1>3, <1>4, <1>5, <1>6 DEF VB!Next

LEMMA Behind == \A n, a \in Nat : \A b \in 1 .. n : a > n => b < a
  OBVIOUS

\* The invariant gives the property.
LEMMA NamedAndPassed ==
  ASSUME VBInv
  PROVE  HandlersNamed
  <1>1. image \in Images /\ NamedInv /\ PassedInv
    BY DEF VBInv, ImageType
  <1>2. VB!NamedAfterItsEvent
    <2> SUFFICES ASSUME NEW f \in created, ~f.thunk
                 PROVE  LET object == image.objects[f.name[1]]
                            control == object.controls[f.name[2]]
                        IN  /\ object.constants # "behind info"
                            /\ \A j \in DOMAIN control.table \cap DOMAIN Components[control.guid] :
                                 Components[control.guid][j] = f.name[3] => Leads(image, control.table[j], f.address)
      BY Zenon DEF VB!NamedAfterItsEvent, VB!LeadsTo, Leads
    <2>0. PICK o \in DOMAIN image.objects : \E c \in DOMAIN image.objects[o].controls :
            LET control == image.objects[o].controls[c]
            IN  /\ image.objects[o].constants # "behind info"
                /\ VB!Known(control)
                /\ \E k \in DOMAIN Components[control.guid] :
                     /\ f.name = <<o, c, Components[control.guid][k]>>
                     /\ k \in DOMAIN control.table => Leads(image, control.table[k], f.address)
      BY <1>1 DEF NamedInv, NamedIn
    <2>1. PICK c \in DOMAIN image.objects[o].controls :
            LET control == image.objects[o].controls[c]
            IN  /\ image.objects[o].constants # "behind info"
                /\ VB!Known(control)
                /\ \E k \in DOMAIN Components[control.guid] :
                     /\ f.name = <<o, c, Components[control.guid][k]>>
                     /\ k \in DOMAIN control.table => Leads(image, control.table[k], f.address)
      BY <2>0, Zenon
    <2> DEFINE control == image.objects[o].controls[c]
    <2>2. PICK k \in DOMAIN Components[control.guid] :
            /\ f.name = <<o, c, Components[control.guid][k]>>
            /\ k \in DOMAIN control.table => Leads(image, control.table[k], f.address)
      BY <2>1, Zenon
    <2>3. f.name[1] = o /\ f.name[2] = c /\ f.name[3] = Components[control.guid][k]
      BY <2>2
    <2>4. ASSUME NEW j \in DOMAIN control.table \cap DOMAIN Components[control.guid],
                 Components[control.guid][j] = f.name[3]
          PROVE  Leads(image, control.table[j], f.address)
      <3>1. control.guid \in DOMAIN Components
        BY <2>1 DEF VB!Known
      <3>2. j = k
        BY <2>3, <2>4, <3>1, ComponentFacts
      <3> QED
        BY <2>2, <2>4, <3>2
    <2> QED
      BY <2>1, <2>3, <2>4, Zenon
  <1>3. VB!AllHandlersNamed
    <2> SUFFICES ASSUME pc = "done", Reached(image),
                        NEW o \in DOMAIN image.objects,
                        image.objects[o].info, image.objects[o].constants # "behind info",
                        NEW c \in DOMAIN image.objects[o].controls,
                        VB!Known(image.objects[o].controls[c]),
                        NEW j \in DOMAIN image.objects[o].controls[c].table
                                   \cap DOMAIN Components[image.objects[o].controls[c].guid],
                        NEW m \in image.segments,
                        Leads(image, image.objects[o].controls[c].table[j], m)
                 PROVE  Method(image, o, c, j, m) \in created
      BY Zenon DEF VB!AllHandlersNamed, VB!LeadsTo, Leads, Reached, Method
    <2>1. Handles(image, o, c, j, m)
      BY DEF Handles
    <2>2. o \in 1 .. Len(image.objects) /\ Len(image.objects) \in Nat
      BY <1>1, ImageFacts, Zenon
    <2>3. at[1] > Len(image.objects) /\ at[1] \in Nat
      BY DEF VBInv, CursorInv
    <2>4. o < at[1]
      BY <2>2, <2>3, Behind, Zenon
    <2>5. Passed(at, o, c, j)
      BY <2>4 DEF Passed
    <2> QED
      BY <1>1, <2>1, <2>5 DEF PassedInv, PassedIn
  <1> QED
    BY <1>2, <1>3 DEF HandlersNamed

\* Methods get the name of the event they handle, and all that handle one get a name:
\* HandlersNamed for every image and every table of components.
THEOREM NamesTheHandlers == Spec => []HandlersNamed
  <1>1. Init => VBInv
    <2> SUFFICES ASSUME Init PROVE VBInv
      OBVIOUS
    <2>1. image \in Images /\ pc = "entry" /\ at = <<1, 1, 1>> /\ created = {}
      BY DEF Init, VB!Init
    <2>2. at[1] = 1 /\ at[2] = 1 /\ at[3] = 1 /\ at \in (Nat \ {0}) \X (Nat \ {0}) \X (Nat \ {0})
      BY <2>1
    <2>3. CursorInv
      <3>1. ASSUME 1 <= Len(image.objects), image.objects[1].controls # << >>
            PROVE  1 <= Len(image.objects[1].controls)
        <4>1. 1 \in DOMAIN image.objects
          BY <2>1, <3>1, ImageFacts
        <4>2. Len(image.objects[1].controls) \in Nat /\ Len(image.objects[1].controls) # 0
          BY <2>1, <3>1, <4>1, ImageFacts
        <4> QED
          BY <4>2
      <3> QED
        BY <2>1, <2>2, <3>1 DEF CursorInv, VB!Decompiled, VB!Object
    <2>4. PassedInv
      <3> SUFFICES ASSUME NEW o, NEW c, NEW j, NEW m, Handles(image, o, c, j, m), Passed(at, o, c, j)
                   PROVE  FALSE
        BY DEF PassedInv, PassedIn
      <3>1. o >= 1 /\ c >= 1 /\ j >= 1 /\ o \in Int /\ c \in Int /\ j \in Int
        <4>1. o \in 1 .. Len(image.objects) /\ c \in 1 .. Len(image.objects[o].controls)
              /\ j \in 1 .. Len(image.objects[o].controls[c].table)
          BY <2>1, HandlesFacts
        <4> QED
          BY <4>1
      <3> QED
        BY <2>2, <3>1 DEF Passed
    <2> QED
      BY <2>1, <2>3, <2>4 DEF VBInv, ImageType, NamedInv
  <1>2. VBInv /\ [Next]_vars => VBInv'
    <2> SUFFICES ASSUME VBInv, [Next]_vars PROVE VBInv'
      OBVIOUS
    <2>1. CASE RunVB
      BY <2>1, VBStep DEF RunVB
    <2>2. CASE UNCHANGED vbVars
      <3>1. UNCHANGED <<image, pc, at, created>>
        BY <2>2 DEF vbVars
      <3> QED
        BY <3>1 DEF VBInv, ImageType, CursorInv, NamedInv, PassedInv, VB!Decompiled, VB!HasOptionalInfo, VB!Object
    <2> QED
      BY <2>1, <2>2 DEF Next, RunWndProc, vars
  <1> QED
    BY <1>1, <1>2, NamedAndPassed, PTL DEF Spec

-----------------------------------------------------------------------------
(***************************************************************************)
(* Window procedures: the fourth push before a call is what the processor  *)
(* has as fourth argument on the stack, unless calls take arguments        *)
(* from among the pushes.                                                  *)
(***************************************************************************)

InsnSet(V) == [op : {"push", "call", "other", "opaque"}, value : V, api : Apis \cup {"none"},
               via : {"thunk", "import"}, pops : Nat]

\* The pushes among the first n instructions, and their number from k on.
Pushes(code, n) == { m \in 1 .. n : code[m].op = "push" }

From(code, k, n) == Cardinality({ m \in Pushes(code, n) : m >= k })

\* The stack holds the values pushed, the last one first.
IsPushed(stack, code, n) ==
  /\ \A k \in Pushes(code, n) : From(code, k, n) \in 1 .. Len(stack) /\ stack[From(code, k, n)] = code[k].value
  /\ \A d \in 1 .. Len(stack) : \E k \in Pushes(code, n) : From(code, k, n) = d

\* One instruction more that pushes.
LEMMA FromStep ==
  ASSUME NEW code, NEW n \in Nat, NEW k \in Pushes(code, n), code[n + 1].op = "push"
  PROVE  From(code, k, n + 1) = From(code, k, n) + 1 /\ From(code, k, n) \in Nat
  <1> DEFINE S == { m \in Pushes(code, n) : m >= k }
  <1>1. k \in 1 .. n
    BY DEF Pushes
  <1>2. { m \in Pushes(code, n + 1) : m >= k } = S \cup {n + 1} /\ n + 1 \notin S
    BY <1>1 DEF Pushes
  <1>3. IsFiniteSet(S)
    <2>1. S \in SUBSET (1 .. n)
      BY DEF Pushes
    <2>2. IsFiniteSet(1 .. n)
      BY FS_Interval
    <2> HIDE DEF S
    <2> QED
      BY <2>1, <2>2, FS_Subset
  <1> HIDE DEF S
  <1>4. Cardinality(S \cup {n + 1}) = Cardinality(S) + 1 /\ Cardinality(S) \in Nat
    BY <1>2, <1>3, FS_AddElement, FS_CardinalityType
  <1> QED
    BY <1>2, <1>4 DEF From, S

LEMMA FromLast ==
  ASSUME NEW code, NEW n \in Nat, code[n + 1].op = "push"
  PROVE  From(code, n + 1, n + 1) = 1
  <1>1. { m \in Pushes(code, n + 1) : m >= n + 1 } = {n + 1}
    BY DEF Pushes
  <1> QED
    BY <1>1, FS_Singleton DEF From

\* One instruction on a stack that holds the values pushed.
LEMMA ExecutePushes ==
  ASSUME NEW V, NEW code, NEW n \in Nat, code[n + 1] \in InsnSet(V),
         code[n + 1].op = "call" => code[n + 1].pops = 0,
         NEW stack \in Seq(V), IsPushed(stack, code, n)
  PROVE  IsPushed(WndProc!Execute(stack, code[n + 1]), code, n + 1)
  <1>1. CASE code[n + 1].op = "push"
    <2> DEFINE v == code[n + 1].value
               next == <<v>> \o stack
    <2>1. /\ next \in Seq(V) /\ Len(next) = Len(stack) + 1 /\ Len(stack) \in Nat
          /\ next[1] = v /\ \A d \in 1 .. Len(stack) : next[d + 1] = stack[d]
      <3>1. v \in V
        BY DEF InsnSet
      <3> HIDE DEF v
      <3>2. <<v>> \in Seq(V) /\ Len(<<v>>) = 1 /\ <<v>>[1] = v
        BY <3>1
      <3>3. Len(stack) \in Nat
        BY LenProperties
      <3> QED
        BY <3>2, <3>3, ConcatProperties
    <2>2. WndProc!Execute(stack, code[n + 1]) = next
      BY <1>1 DEF WndProc!Execute
    <2>3. Pushes(code, n + 1) = Pushes(code, n) \cup {n + 1}
      BY <1>1 DEF Pushes
    <2>4. \A k \in Pushes(code, n) : From(code, k, n + 1) = From(code, k, n) + 1
      BY <1>1, FromStep
    <2>5. From(code, n + 1, n + 1) = 1
      BY <1>1, FromLast
    <2> HIDE DEF next
    <2>6. ASSUME NEW k \in Pushes(code, n + 1)
          PROVE  From(code, k, n + 1) \in 1 .. Len(next) /\ next[From(code, k, n + 1)] = code[k].value
      <3>1. CASE k = n + 1
        BY <2>1, <2>5, <3>1
      <3>2. CASE k \in Pushes(code, n)
        <4> DEFINE d == From(code, k, n)
        <4>1. d \in 1 .. Len(stack) /\ stack[d] = code[k].value
          BY <3>2 DEF IsPushed
        <4>2. From(code, k, n + 1) = d + 1
          BY <2>4, <3>2
        <4> HIDE DEF d
        <4> QED
          BY <2>1, <4>1, <4>2
      <3> QED
        BY <2>3, <3>1, <3>2
    <2>7. ASSUME NEW d \in 1 .. Len(next)
          PROVE  \E k \in Pushes(code, n + 1) : From(code, k, n + 1) = d
      <3>1. CASE d = 1
        BY <2>3, <2>5, <3>1
      <3>2. CASE d # 1
        <4>1. d - 1 \in 1 .. Len(stack) /\ (d - 1) + 1 = d
          BY <2>1, <3>2
        <4>2. PICK k \in Pushes(code, n) : From(code, k, n) = d - 1
          BY <4>1 DEF IsPushed
        <4>3. From(code, k, n + 1) = d
          BY <2>4, <4>1, <4>2
        <4> QED
          BY <2>3, <4>3
      <3> QED
        BY <3>1, <3>2
    <2> QED
      BY <2>2, <2>6, <2>7 DEF IsPushed
  <1>2. CASE code[n + 1].op # "push"
    <2>1. WndProc!Execute(stack, code[n + 1]) = stack
      <3>1. CASE code[n + 1].op = "call"
        <4>1. WndProc!Execute(stack, code[n + 1]) = SubSeq(stack, 1, Len(stack))
          BY <3>1 DEF WndProc!Execute
        <4>2. SubSeq(stack, 1, Len(stack)) = stack
          BY SubSeqFull
        <4> QED
          BY <4>1, <4>2
      <3>2. CASE code[n + 1].op # "call"
        BY <1>2, <3>2 DEF WndProc!Execute
      <3> QED
        BY <3>1, <3>2
    <2>2. Pushes(code, n + 1) = Pushes(code, n)
      BY <1>2 DEF Pushes
    <2> QED
      BY <2>1, <2>2 DEF IsPushed, From
  <1> QED
    BY <1>1, <1>2

\* The stack before an instruction no nested call precedes.
LEMMA StackIsPushed ==
  ASSUME NEW V, NEW code \in Seq(InsnSet(V)), NEW i \in 1 .. Len(code), ~WndProc!Nested(code, i)
  PROVE  WndProc!StackBefore(code, i) \in Seq(V) /\ IsPushed(WndProc!StackBefore(code, i), code, i - 1)
  <1> DEFINE m == Len(code)
             Made(f) == f = [ n \in 0 .. m |-> IF n = 0 THEN << >> ELSE WndProc!Execute(f[n - 1], code[n]) ]
             stack == CHOOSE f : Made(f)
             step == [ x \in Seq(V) \X (1 .. m) |-> WndProc!Execute(x[1], code[x[2]]) ]
  <1>1. m \in Nat /\ \A n \in 1 .. m : code[n] \in InsnSet(V)
    <2> DEFINE W == InsnSet(V)
    <2> HIDE DEF W
    <2>1. m \in Nat /\ \A n \in 1 .. m : code[n] \in W
      BY LenProperties, ElementOfSeq DEF W
    <2> QED
      BY <2>1 DEF W
  <1> HIDE DEF m
  <1>2. ASSUME NEW x \in Seq(V), NEW n \in 1 .. m
        PROVE  WndProc!Execute(x, code[n]) \in Seq(V)
    <2>1. code[n].op \in {"push", "call", "other", "opaque"} /\ code[n].value \in V /\ code[n].pops \in Nat
      BY <1>1 DEF InsnSet
    <2>2. CASE code[n].op = "push"
      <3>1. <<code[n].value>> \in Seq(V)
        BY <2>1
      <3>2. WndProc!Execute(x, code[n]) = <<code[n].value>> \o x
        BY <2>2 DEF WndProc!Execute
      <3> QED
        BY <3>1, <3>2, ConcatProperties
    <2>3. CASE code[n].op = "call"
      <3>1. WndProc!Execute(x, code[n]) = SubSeq(x, code[n].pops + 1, Len(x))
        BY <2>3 DEF WndProc!Execute
      <3>2. Len(x) \in Nat /\ \A k \in code[n].pops + 1 .. Len(x) : x[k] \in V
        BY <2>1, LenProperties, ElementOfSeq
      <3>3. code[n].pops + 1 \in Int
        BY <2>1
      <3> QED
        BY <3>1, <3>2, <3>3, SubSeqProperties
    <2>4. CASE code[n].op \notin {"push", "call"}
      BY <2>4 DEF WndProc!Execute
    <2> QED
      BY <2>2, <2>3, <2>4
  <1>3. step \in [Seq(V) \X (1 .. m) -> Seq(V)]
    BY <1>2
  <1>4. \A x \in Seq(V), n \in 1 .. m : step[<<x, n>>] = WndProc!Execute(x, code[n])
    OBVIOUS
  <1> HIDE DEF step
  <1>5. << >> \in Seq(V)
    OBVIOUS
  <1>6. PICK f \in [0 .. m -> Seq(V)] : Loop(f, m, << >>, step)
    BY <1>1, <1>3, <1>5, LoopExists
  <1>7. Made(f)
    <2>1. \A n \in 1 .. m : f[n - 1] \in Seq(V) /\ step[<<f[n - 1], n>>] = WndProc!Execute(f[n - 1], code[n])
      <3>1. \A n \in 1 .. m : n - 1 \in 0 .. m
        BY <1>1
      <3> QED
        BY <1>4, <3>1
    <2>2. f = [ n \in 0 .. m |-> IF n = 0 THEN << >> ELSE step[<<f[n - 1], n>>] ]
      BY <1>6 DEF Loop
    <2>3. \A n \in 0 .. m : n # 0 => n \in 1 .. m
      BY <1>1
    <2> QED
      BY <2>1, <2>2, <2>3
  <1>8. Made(stack)
    <2> HIDE DEF Made
    <2> QED
      BY <1>7
  <1>9. WndProc!StackBefore(code, i) = stack[i - 1]
    BY DEF WndProc!StackBefore, m
  <1>10. /\ stack[0] = << >>
         /\ \A n \in Nat : n + 1 \in 1 .. m => stack[n + 1] = WndProc!Execute(stack[n], code[n + 1])
    <2> HIDE DEF stack
    <2>1. \A n \in 0 .. m : stack[n] = IF n = 0 THEN << >> ELSE WndProc!Execute(stack[n - 1], code[n])
      BY <1>8
    <2>2. 0 \in 0 .. m
      BY <1>1
    <2>3. ASSUME NEW n \in Nat, n + 1 \in 1 .. m PROVE stack[n + 1] = WndProc!Execute(stack[n], code[n + 1])
      <3>1. n + 1 \in 0 .. m /\ n + 1 # 0 /\ (n + 1) - 1 = n
        BY <2>3
      <3> QED
        BY <2>1, <3>1
    <2> QED
      BY <2>1, <2>2, <2>3
  <1> HIDE DEF stack
  <1> DEFINE S == { n \in Nat : n < i => stack[n] \in Seq(V) /\ IsPushed(stack[n], code, n) }
  <1>11. 0 \in S
    <2>1. Pushes(code, 0) = {}
      BY DEF Pushes
    <2>2. IsPushed(<< >>, code, 0)
      BY <2>1 DEF IsPushed
    <2> QED
      BY <1>5, <1>10, <2>2
  <1>12. ASSUME NEW n \in Nat, n \in S PROVE n + 1 \in S
    <2> SUFFICES ASSUME n + 1 < i
                 PROVE  stack[n + 1] \in Seq(V) /\ IsPushed(stack[n + 1], code, n + 1)
      OBVIOUS
    <2>1. i \in 1 .. m
      BY DEF m
    <2>2. n < i /\ n + 1 \in 1 .. m /\ n + 1 \in 1 .. i - 1
      BY <1>1, <2>1
    <2>3. stack[n] \in Seq(V) /\ IsPushed(stack[n], code, n)
      BY <1>12, <2>2
    <2>4. code[n + 1] \in InsnSet(V)
      BY <1>1, <2>2
    <2>5. code[n + 1].op = "call" => code[n + 1].pops = 0
      <3>1. code[n + 1].pops \in Nat
        BY <2>4 DEF InsnSet
      <3>2. ~(code[n + 1].op = "call" /\ code[n + 1].pops > 0)
        BY <2>2 DEF WndProc!Nested
      <3> QED
        BY <3>1, <3>2
    <2>6. PICK x : x = stack[n]
      OBVIOUS
    <2>7. x \in Seq(V) /\ IsPushed(x, code, n) /\ stack[n + 1] = WndProc!Execute(x, code[n + 1])
      BY <1>10, <2>2, <2>3, <2>6
    <2> QED
      BY <1>2, <2>2, <2>4, <2>5, <2>7, ExecutePushes
  <1>13. i - 1 \in S
    <2>1. i - 1 \in Nat
      BY DEF m
    <2> HIDE DEF S
    <2> QED
      BY <1>11, <1>12, <2>1, SetInduction
  <1>14. i - 1 < i
    OBVIOUS
  <1> QED
    BY <1>9, <1>13, <1>14

\* Cardinality, as WndProcAnalyzer has it and as the theorems have it.
LEMMA SameCardinality == \A T : WndProc!Cardinality(T) = Cardinality(T)
  BY DEF WndProc!Cardinality, Cardinality

\* What the walk takes for the argument.
LEMMA ArgumentIs ==
  ASSUME NEW code, NEW i, NEW k
  PROVE  k \in WndProc!Argument(code, i) <=>
           /\ k \in WndProc!PushesBefore(code, i)
           /\ Cardinality({ m \in WndProc!PushesBefore(code, i) : m >= k }) = 4
  <1> DEFINE P == WndProc!PushesBefore(code, i)
             T(n) == Cardinality({ m \in P : m >= n })
  <1>1. WndProc!Argument(code, i) = { n \in P : T(n) = WndProc!ArgIdx + 1 }
    BY SameCardinality DEF WndProc!Argument
  <1>2. WndProc!ArgIdx + 1 = 4
    BY DEF WndProc!ArgIdx
  <1> HIDE DEF P, T
  <1>3. k \in WndProc!Argument(code, i) <=> k \in P /\ T(k) = 4
    BY <1>1, <1>2
  <1> QED
    BY <1>3 DEF P, T

\* The push the walk stops at is the fourth argument on the stack.
LEMMA ArgumentOnStack ==
  ASSUME NEW V, NEW code \in Seq(InsnSet(V)), NEW i \in 1 .. Len(code), ~WndProc!Nested(code, i),
         NEW k \in WndProc!Argument(code, i)
  PROVE  Len(WndProc!StackBefore(code, i)) > 3 /\ WndProc!StackBefore(code, i)[4] = code[k].value
  <1>1. PICK stack : stack = WndProc!StackBefore(code, i)
    OBVIOUS
  <1>2. stack \in Seq(V) /\ IsPushed(stack, code, i - 1)
    BY <1>1, StackIsPushed
  <1>a. k \in WndProc!PushesBefore(code, i) /\ Cardinality({ m \in WndProc!PushesBefore(code, i) : m >= k }) = 4
    BY ArgumentIs
  <1>3. k \in 1 .. i - 1 /\ code[k].op = "push" /\ \A m \in k .. i - 1 : code[m].op # "opaque"
    BY <1>a DEF WndProc!PushesBefore
  <1>4. { m \in WndProc!PushesBefore(code, i) : m >= k } = { m \in Pushes(code, i - 1) : m >= k }
    <2>1. \A m \in 1 .. i - 1 : m >= k => \A n \in m .. i - 1 : n \in k .. i - 1
      BY <1>3
    <2> QED
      BY <1>3, <2>1 DEF WndProc!PushesBefore, Pushes
  <1>5. k \in Pushes(code, i - 1) /\ From(code, k, i - 1) = 4
    <2>1. From(code, k, i - 1) = 4
      BY <1>a, <1>4 DEF From
    <2> QED
      BY <1>3, <2>1 DEF Pushes
  <1>6. 4 \in 1 .. Len(stack) /\ stack[4] = code[k].value
    BY <1>2, <1>5 DEF IsPushed
  <1>7. Len(stack) \in Nat
    BY <1>2, LenProperties
  <1> QED
    BY <1>1, <1>6, <1>7

\* In code with IL throughout, the walk sees the fourth argument.
LEMMA ArgumentSeen ==
  ASSUME NEW V, NEW code \in Seq(InsnSet(V)), NEW i \in 1 .. Len(code), ~WndProc!Nested(code, i),
         ~WndProc!Opaque(code), Len(WndProc!StackBefore(code, i)) > 3
  PROVE  \E k \in WndProc!Argument(code, i) : code[k].value = WndProc!StackBefore(code, i)[4]
  <1>1. PICK stack : stack = WndProc!StackBefore(code, i)
    OBVIOUS
  <1>2. stack \in Seq(V) /\ IsPushed(stack, code, i - 1)
    BY <1>1, StackIsPushed
  <1>3. 4 \in 1 .. Len(stack)
    <2>1. Len(stack) \in Nat
      BY <1>2, LenProperties
    <2> QED
      BY <1>1, <2>1
  <1>4. PICK k \in Pushes(code, i - 1) : From(code, k, i - 1) = 4
    BY <1>2, <1>3 DEF IsPushed
  <1>5. WndProc!PushesBefore(code, i) = Pushes(code, i - 1)
    <2>1. ASSUME NEW n \in 1 .. i - 1 PROVE \A m \in n .. i - 1 : m \in DOMAIN code
      BY LenProperties
    <2>2. \A n \in 1 .. i - 1 : \A m \in n .. i - 1 : code[m].op # "opaque"
      BY <2>1 DEF WndProc!Opaque
    <2> QED
      BY <2>2 DEF WndProc!PushesBefore, Pushes
  <1>6. k \in WndProc!Argument(code, i)
    <2>1. Cardinality({ m \in Pushes(code, i - 1) : m >= k }) = 4
      BY <1>4 DEF From
    <2> QED
      BY <1>4, <1>5, <2>1, ArgumentIs
  <1>7. stack[4] = code[k].value
    BY <1>2, <1>4 DEF IsPushed
  <1> QED
    BY <1>1, <1>6, <1>7

\* What the walk finds, and what the call is given.
LEMMA FoundIsGiven ==
  ASSUME program \in Programs, NEW proc \in DOMAIN program.code, NEW i \in DOMAIN program.code[proc],
         ~WndProc!Nested(WndProc!Code(proc), i)
  PROVE  /\ WndProc!Procs(proc, i) \subseteq WndProc!Given(proc, i)
         /\ ~WndProc!Opaque(WndProc!Code(proc)) => WndProc!Given(proc, i) \subseteq WndProc!Procs(proc, i)
  <1> DEFINE V == DOMAIN program.code \cup {"data"}
  <1>1. program.code[proc] \in Seq(InsnSet(V))
    BY WndProcAssumption DEF WndProc!ProgramsWellFormed, InsnSet
  <1>a. PICK W : W = V
    OBVIOUS
  <1>2. PICK code \in Seq(InsnSet(W)) : code = program.code[proc]
    BY <1>1, <1>a
  <1>3. WndProc!Code(proc) = code /\ i \in 1 .. Len(code)
    BY <1>2, LenProperties DEF WndProc!Code
  <1>4. ASSUME NEW v \in WndProc!Procs(proc, i) PROVE v \in WndProc!Given(proc, i)
    <2>1. PICK k \in WndProc!Argument(code, i) : v = code[k].value /\ WndProc!InCode(v)
      BY <1>3, <1>4 DEF WndProc!Procs
    <2>2. Len(WndProc!StackBefore(code, i)) > 3 /\ WndProc!StackBefore(code, i)[4] = v
      BY <1>3, <2>1, ArgumentOnStack
    <2> QED
      BY <1>3, <2>1, <2>2 DEF WndProc!Given, WndProc!ArgIdx
  <1>5. ASSUME NEW v \in WndProc!Given(proc, i), ~WndProc!Opaque(code) PROVE v \in WndProc!Procs(proc, i)
    <2>1. Len(WndProc!StackBefore(code, i)) > 3 /\ WndProc!StackBefore(code, i)[4] = v /\ WndProc!InCode(v)
      BY <1>3, <1>5 DEF WndProc!Given, WndProc!ArgIdx
    <2>2. PICK k \in WndProc!Argument(code, i) : code[k].value = v
      BY <1>3, <1>5, <2>1, ArgumentSeen
    <2> QED
      BY <1>3, <2>1, <2>2 DEF WndProc!Procs
  <1> QED
    BY <1>3, <1>4, <1>5

\* The references of a program, and what the walk finds at one.
ReferencesIn(p, procs) ==
  { ref \in UNION { {proc} \X DOMAIN p.code[proc] : proc \in procs } :
      LET insn == p.code[ref[1]][ref[2]]
      IN  /\ insn.op = "call" /\ insn.api \in Apis
          /\ insn.via = IF insn.api \in p.thunks THEN "thunk" ELSE "import" }

FoundAt(p, ref) ==
  { v \in { p.code[ref[1]][k].value : k \in WndProc!Argument(p.code[ref[1]], ref[2]) } : v \in DOMAIN p.code }

LEMMA ProgramOperators ==
  /\ \A S : WndProc!References(S) = ReferencesIn(program, S)
  /\ \A ref : WndProc!Procs(ref[1], ref[2]) = FoundAt(program, ref)
  BY DEF WndProc!References, WndProc!DialogCalls, WndProc!Symbol, WndProc!Insn, WndProc!Code, ReferencesIn,
         WndProc!Procs, WndProc!InCode, FoundAt

LEMMA ReferencesGrow ==
  ASSUME NEW p, NEW S, NEW T, S \subseteq T
  PROVE  ReferencesIn(p, S) \subseteq ReferencesIn(p, T)
  BY DEF ReferencesIn

LEMMA FoundInCode == \A p, ref : FoundAt(p, ref) \subseteq DOMAIN p.code
  BY DEF FoundAt

\* What was found at the references a run has looked at.
RunInv ==
  /\ program \in Programs
  /\ explored \subseteq DOMAIN program.code
  /\ functions \subseteq DOMAIN program.code
  /\ analyzed \subseteq explored
  /\ pending \subseteq ReferencesIn(program, analyzed)
  /\ ~running => pending = {}
  /\ functions \subseteq UNION { FoundAt(program, ref) : ref \in ReferencesIn(program, explored) }
  /\ \A ref \in ReferencesIn(program, analyzed) \ pending : FoundAt(program, ref) \subseteq functions

LEMMA RunStep ==
  ASSUME RunInv, WndProc!Next
  PROVE  RunInv'
  <1>1. /\ program \in Programs /\ explored \subseteq DOMAIN program.code
        /\ functions \subseteq DOMAIN program.code /\ analyzed \subseteq explored
        /\ pending \subseteq ReferencesIn(program, analyzed) /\ (~running => pending = {})
        /\ functions \subseteq UNION { FoundAt(program, ref) : ref \in ReferencesIn(program, explored) }
        /\ \A ref \in ReferencesIn(program, analyzed) \ pending : FoundAt(program, ref) \subseteq functions
    BY DEF RunInv
  <1>2. CASE WndProc!Analyze
    <2>1. /\ running' = TRUE /\ pending' = ReferencesIn(program, explored) /\ analyzed' = explored
          /\ UNCHANGED <<program, explored, functions>>
      BY <1>2, ProgramOperators DEF WndProc!Analyze
    <2> QED
      BY <1>1, <2>1 DEF RunInv
  <1>3. CASE WndProc!EndAnalyze
    BY <1>1, <1>3 DEF RunInv, WndProc!EndAnalyze
  <1>4. ASSUME NEW ref \in pending, WndProc!FindWndProc(ref)
        PROVE  RunInv'
    <2>1. /\ pending' = pending \ {ref} /\ functions' = functions \cup FoundAt(program, ref)
          /\ running /\ UNCHANGED <<program, explored, analyzed, running>>
      BY <1>4, ProgramOperators DEF WndProc!FindWndProc
    <2>2. ref \in ReferencesIn(program, explored)
      BY <1>1, <1>4, ReferencesGrow
    <2>3. functions' \subseteq DOMAIN program.code
      BY <1>1, <2>1, FoundInCode
    <2>4. functions' \subseteq UNION { FoundAt(program, r) : r \in ReferencesIn(program, explored) }
      BY <1>1, <2>1, <2>2
    <2>5. \A r \in ReferencesIn(program, analyzed) \ pending' : FoundAt(program, r) \subseteq functions'
      BY <1>1, <2>1
    <2> QED
      BY <1>1, <2>1, <2>3, <2>4, <2>5 DEF RunInv
  <1>5. ASSUME NEW proc \in functions, WndProc!Explore(proc)
        PROVE  RunInv'
    <2>1. /\ explored' = explored \cup {proc} /\ UNCHANGED <<program, functions, pending, analyzed, running>>
      BY <1>5 DEF WndProc!Explore
    <2>2. ReferencesIn(program, explored) \subseteq ReferencesIn(program, explored')
      BY <2>1, ReferencesGrow
    <2> QED
      BY <1>1, <1>5, <2>1, <2>2 DEF RunInv
  <1> QED
    BY <1>2, <1>3, <1>4, <1>5 DEF WndProc!Next

\* The invariant gives the property.
LEMMA FoundProcedures ==
  ASSUME RunInv
  PROVE  WindowProcedures
  <1>1. /\ program \in Programs /\ explored \subseteq DOMAIN program.code
        /\ analyzed \subseteq explored /\ (~running => pending = {})
        /\ functions \subseteq UNION { FoundAt(program, ref) : ref \in ReferencesIn(program, explored) }
        /\ \A ref \in ReferencesIn(program, analyzed) \ pending : FoundAt(program, ref) \subseteq functions
    BY DEF RunInv
  <1>2. ASSUME NEW ref \in WndProc!DialogCalls(explored), ~WndProc!Nested(WndProc!Code(ref[1]), ref[2])
        PROVE  /\ FoundAt(program, ref) \subseteq WndProc!Given(ref[1], ref[2])
               /\ ~WndProc!Opaque(WndProc!Code(ref[1])) =>
                    WndProc!Given(ref[1], ref[2]) \subseteq FoundAt(program, ref)
    <2>1. ref[1] \in DOMAIN program.code /\ ref[2] \in DOMAIN program.code[ref[1]]
      BY <1>1 DEF WndProc!DialogCalls, WndProc!Code
    <2> QED
      BY <1>1, <1>2, <2>1, FoundIsGiven, ProgramOperators
  <1>3. WndProc!OnlyWindowProcedures
    <2> SUFFICES ASSUME \A ref \in WndProc!References(explored) : ~WndProc!Nested(WndProc!Code(ref[1]), ref[2])
                 PROVE  functions \subseteq UNION { WndProc!Given(ref[1], ref[2]) : ref \in WndProc!References(explored) }
      BY DEF WndProc!OnlyWindowProcedures
    <2>1. ASSUME NEW ref \in WndProc!References(explored)
          PROVE  FoundAt(program, ref) \subseteq WndProc!Given(ref[1], ref[2])
      BY <1>2, <2>1 DEF WndProc!References
    <2> QED
      BY <1>1, <2>1, ProgramOperators
  <1>4. WndProc!ProceduresFound
    <2> SUFFICES ASSUME ~running, analyzed = explored,
                        NEW ref \in WndProc!DialogCalls(explored),
                        ~(WndProc!Insn(ref).via = "import" /\ WndProc!Insn(ref).api \in program.thunks),
                        ~WndProc!Nested(WndProc!Code(ref[1]), ref[2]),
                        ~WndProc!Opaque(WndProc!Code(ref[1]))
                 PROVE  WndProc!Given(ref[1], ref[2]) \subseteq functions
      BY DEF WndProc!ProceduresFound
    <2> DEFINE insn == program.code[ref[1]][ref[2]]
    <2>1. /\ ref[1] \in DOMAIN program.code /\ ref[2] \in DOMAIN program.code[ref[1]]
          /\ insn = WndProc!Insn(ref) /\ insn.api \in Apis
      BY <1>1 DEF WndProc!DialogCalls, WndProc!Code, WndProc!Insn
    <2>2. insn.via = "thunk" => insn.api \in program.thunks
      BY <1>1, <2>1, WndProcAssumption DEF WndProc!ProgramsWellFormed
    <2>3. insn.via \in {"thunk", "import"}
      <3>1. PICK V : V = DOMAIN program.code \cup {"data"}
        OBVIOUS
      <3>2. program.code[ref[1]] \in Seq(InsnSet(V))
        BY <1>1, <2>1, <3>1, WndProcAssumption DEF WndProc!ProgramsWellFormed, InsnSet
      <3>3. insn \in InsnSet(V)
        <4>1. PICK W : W = InsnSet(V)
          OBVIOUS
        <4> QED
          BY <2>1, <3>2, <4>1, ElementOfSeq, LenProperties
      <3> QED
        BY <3>3 DEF InsnSet
    <2>4. ref \in WndProc!References(explored)
      BY <2>1, <2>2, <2>3 DEF WndProc!References, WndProc!Symbol
    <2>5. FoundAt(program, ref) \subseteq functions
      BY <1>1, <2>4, ProgramOperators
    <2> QED
      BY <1>2, <2>5
  <1> QED
    BY <1>3, <1>4 DEF WindowProcedures

\* Functions are made of window procedures, and none is lost: WindowProcedures for
\* every program and in every order of runs and disassembly.
THEOREM FindsTheProcedures == Spec => []WindowProcedures
  <1>1. Init => RunInv
    <2> SUFFICES ASSUME Init PROVE RunInv
      OBVIOUS
    <2>1. /\ program \in Programs /\ explored = {program.main} /\ functions = {} /\ pending = {} /\ analyzed = {}
      BY DEF Init, WndProc!Init
    <2>2. program.main \in DOMAIN program.code
      BY <2>1, WndProcAssumption DEF WndProc!ProgramsWellFormed
    <2>3. ReferencesIn(program, analyzed) = {}
      BY <2>1 DEF ReferencesIn
    <2> QED
      BY <2>1, <2>2, <2>3 DEF RunInv
  <1>2. RunInv /\ [Next]_vars => RunInv'
    <2> SUFFICES ASSUME RunInv, [Next]_vars PROVE RunInv'
      OBVIOUS
    <2>1. CASE RunWndProc
      BY <2>1, RunStep DEF RunWndProc
    <2>2. CASE UNCHANGED wndProcVars
      BY <2>2 DEF wndProcVars, RunInv
    <2> QED
      BY <2>1, <2>2 DEF Next, RunVB, vars
  <1> QED
    BY <1>1, <1>2, FoundProcedures, PTL DEF Spec
=============================================================================
