------------------------------ MODULE VBAnalyzer ------------------------------
(***************************************************************************)
(* The Visual Basic analyzer (pe/analyzers/vb_analyzer.cpp): from the push *)
(* at the entry point to the VB header, the objects, their controls and    *)
(* the table of event handlers of each; every handler is a trampoline to   *)
(* a method, which gets the name of object, control and event.             *)
(*                                                                         *)
(* An image is the graph of these structures.  The table of handlers has   *)
(* an end in the image; the analyzer reads as many words as the component  *)
(* has events, the words after the table included.                         *)
(***************************************************************************)
EXTENDS Integers, Sequences, FiniteSets

CONSTANTS
  Images,
  Components, \* GUID -> events of the component, in order: VBComponents::m_components
  Addresses

Nowhere == 0

\* What PEAnalyzers assumes of the table of components and of the images.
ComponentsWellFormed ==
  \A g \in DOMAIN Components :
    /\ Components[g] \in Seq(STRING)
    /\ \A i, j \in DOMAIN Components[g] : Components[g][i] = Components[g][j] => i = j

ImagesWellFormed ==
  /\ Nowhere \notin Addresses
  /\ \A i \in Images :
       /\ i.entry \in {"none", "other", "push call"}
       /\ i.header \in {"unmapped", "other", "VB5!"}
       /\ i.segments \subseteq Addresses
       /\ i.code \in [i.segments -> [first : {"copy", "other"}, goto : Addresses \cup {Nowhere}]]
       /\ i.words \subseteq Addresses \cup {Nowhere}
       /\ i.objects \in Seq([info : BOOLEAN, constants : {"behind info", "elsewhere"},
                             controls : Seq([guid : STRING, table : Seq(Addresses \cup {Nowhere})])])

VARIABLES
  image,
  pc,       \* "entry", "objects", "done"
  at,       \* <<object, control, event>> looked at next
  created,  \* functions: address and name, the thunk's or the method's
  problems  \* components not found

vars == <<image, pc, at, created, problems>>

-----------------------------------------------------------------------------

\* The entry is a push of the address of the header and a call.
Analyze ==
  /\ pc = "entry"
  /\ pc' = IF image.entry = "push call" /\ image.header = "VB5!" THEN "objects" ELSE "done"
  /\ UNCHANGED <<image, at, created, problems>>

\* Mutant: the objects without optional information are taken for those with.
HasOptionalInfoInverted(object) == object.constants = "behind info"

\* The constants of an object that has no more than the basic information come
\* right behind it.
HasOptionalInfo(object) == object.constants # "behind info"

Decompiled(object) == object.info /\ HasOptionalInfo(object) /\ object.controls # << >>

\* VBComponents::get: the table of components, found by GUID.
Known(control) == control.guid \in DOMAIN Components

Object == image.objects[at[1]]
Control == Object.controls[at[2]]

NextObject == <<at[1] + 1, 1, 1>>

NextControl == IF at[2] < Len(Object.controls) THEN <<at[1], at[2] + 1, 1>> ELSE NextObject

\* decompileObject: the early return.
SkipObject ==
  /\ pc = "objects"
  /\ at[1] <= Len(image.objects)
  /\ ~Decompiled(Object)
  /\ at' = NextObject
  /\ UNCHANGED <<image, pc, created, problems>>

InObject ==
  /\ pc = "objects"
  /\ at[1] <= Len(image.objects)
  /\ Decompiled(Object)

AfterUnfamiliar == NextControl

UnknownControl ==
  /\ InObject
  /\ ~Known(Control)
  /\ problems' = problems \cup {Control.guid}
  /\ at' = AfterUnfamiliar
  /\ UNCHANGED <<image, pc, created>>

\* The words at a slot of the table of handlers.
Slot(control, j) == IF j <= Len(control.table) THEN {control.table[j]} ELSE image.words

Name(j) == <<at[1], at[2], Components[Control.guid][j]>>

\* disassembleTrampoline: the functions it creates.
Trampoline(va, name) ==
  IF va \notin image.segments THEN {}
  ELSE { [address |-> va, name |-> name, thunk |-> TRUE] } \cup
       { [address |-> m, name |-> name, thunk |-> FALSE] :
           m \in { image.code[va].goto } \cap (IF image.code[va].first = "copy" THEN image.segments ELSE {}) }

Event ==
  /\ InObject
  /\ Known(Control)
  /\ LET events == Components[Control.guid]
         j == at[3]
     IN  IF j <= Len(events)
         THEN /\ \E va \in Slot(Control, j) : created' = created \cup Trampoline(va, Name(j))
              /\ at' = [at EXCEPT ![3] = j + 1]
         ELSE /\ at' = NextControl
              /\ UNCHANGED created
  /\ UNCHANGED <<image, pc, problems>>

End ==
  /\ pc = "objects"
  /\ at[1] > Len(image.objects)
  /\ pc' = "done"
  /\ UNCHANGED <<image, at, created, problems>>

Init ==
  /\ image \in Images
  /\ pc = "entry"
  /\ at = <<1, 1, 1>>
  /\ created = {}
  /\ problems = {}

Next == Analyze \/ SkipObject \/ UnknownControl \/ Event \/ End

Spec == Init /\ [][Next]_vars

-----------------------------------------------------------------------------
(* Properties.                                                             *)

\* Handler j of a control leads to method m.
LeadsTo(va, m) ==
  va \in image.segments /\ m \in image.segments /\ image.code[va].first = "copy" /\ image.code[va].goto = m

\* A method named after an object, a control and an event is what that event's
\* slot of that control's table leads to, and the object has controls at all.
\* Slots behind the end of a table shorter than the component's list of events
\* escape: what is read there is named as an event.
NamedAfterItsEvent ==
  \A f \in created :
    ~f.thunk =>
      LET object == image.objects[f.name[1]]
          control == object.controls[f.name[2]]
      IN  /\ object.constants # "behind info"
          /\ \A j \in DOMAIN control.table \cap DOMAIN Components[control.guid] :
               Components[control.guid][j] = f.name[3] => LeadsTo(control.table[j], f.address)

\* In the end every method that handles an event of a known component has its
\* name, whatever is unknown or malformed before it.
AllHandlersNamed ==
  pc = "done" /\ image.entry = "push call" /\ image.header = "VB5!" =>
    \A o \in DOMAIN image.objects :
      image.objects[o].info /\ image.objects[o].constants # "behind info" =>
        \A c \in DOMAIN image.objects[o].controls :
          LET control == image.objects[o].controls[c]
          IN  Known(control) =>
                \A j \in DOMAIN control.table \cap DOMAIN Components[control.guid], m \in image.segments :
                  LeadsTo(control.table[j], m) =>
                    [address |-> m, name |-> <<o, c, Components[control.guid][j]>>, thunk |-> FALSE] \in created
=============================================================================
