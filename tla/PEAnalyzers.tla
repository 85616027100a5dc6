----------------------------- MODULE PEAnalyzers -----------------------------
(***************************************************************************)
(* The analyzers of the PE plugin after a load (pe/pe.cpp, rdplugin_init): *)
(* the host runs an analyzer only where its isenabled says so, which asks  *)
(* the classifier of the loader left in the user data.  What each analyzer *)
(* does is in WndProcAnalyzer and VBAnalyzer; PELoader says which          *)
(* classification a load leaves.                                           *)
(***************************************************************************)
EXTENDS PEClassifier

CONSTANTS
  Loads,      \* classification, program and VB structures of loaded images
  Apis,
  Components,
  Addresses

Programs == { l.program : l \in Loads }
Images   == { l.image : l \in Loads }

VARIABLES
  classification,
  program, explored, functions, pending, analyzed, running,  \* WndProcAnalyzer
  image, pc, at, created, problems                            \* VBAnalyzer

WndProc == INSTANCE WndProcAnalyzer
VB      == INSTANCE VBAnalyzer

ASSUME WndProcAssumption == WndProc!ProgramsWellFormed

ASSUME VBAssumption == VB!ComponentsWellFormed /\ VB!ImagesWellFormed

ASSUME LoadAssumption == \A l \in Loads : l.classification \in Classifications

wndProcVars == <<program, explored, functions, pending, analyzed, running>>
vbVars      == <<image, pc, at, created, problems>>
vars == <<classification, wndProcVars, vbVars>>

-----------------------------------------------------------------------------

RunWndProc == WndProcEnabled(classification) /\ WndProc!Next /\ UNCHANGED <<classification, vbVars>>

\* The analyzer is marked as run once; VBAnalyzer has one run.
RunVB == VBEnabled(classification) /\ VB!Next /\ UNCHANGED <<classification, wndProcVars>>

Init ==
  /\ \E l \in Loads :
       classification = l.classification /\ program = l.program /\ image = l.image
  /\ WndProc!Init
  /\ VB!Init

Next == RunWndProc \/ RunVB

Spec == Init /\ [][Next]_vars

-----------------------------------------------------------------------------
(* Properties.                                                             *)

\* Functions are made of window procedures only, and a run that leaves nothing
\* to disassemble has found every one of them (WndProcAnalyzer).
WindowProcedures ==
  WndProc!OnlyWindowProcedures /\ (WndProcEnabled(classification) => WndProc!ProceduresFound)

\* Methods get the name of the event they handle, and all that handle one get
\* a name (VBAnalyzer).
HandlersNamed == VB!NamedAfterItsEvent /\ VB!AllHandlersNamed
=============================================================================
