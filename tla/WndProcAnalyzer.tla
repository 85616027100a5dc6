--------------------------- MODULE WndProcAnalyzer ---------------------------
(***************************************************************************)
(* The analyzer of window procedures (pe/analyzers/wndproc_analyzer.cpp).  *)
(* For every reference to a dialog API it walks back over the instructions *)
(* before the call, counts pushes, and makes a function of the fourth.     *)
(* The host disassembles that function and, as the analyzer is not marked  *)
(* as run once, may run the analyzer again on the longer listing.          *)
(*                                                                         *)
(* A program is a set of procedures, each a sequence of instructions; what *)
(* an instruction is to the analyzer and to the stack is all that is kept: *)
(* a push and its value, a call with the symbol it goes through and the    *)
(* number of arguments the callee takes, an instruction without IL, others.*)
(***************************************************************************)
EXTENDS Integers, Sequences, FiniteSets

CONSTANTS
  Programs,
  Apis        \* names of the dialog functions, m_wndprocapi

\* What PEAnalyzers assumes of the programs.
ProgramsWellFormed ==
  "none" \notin Apis /\ \A p \in Programs :
    /\ p.main \in DOMAIN p.code
    /\ p.code \in [DOMAIN p.code -> Seq([op : {"push", "call", "other", "opaque"},
                                         value : DOMAIN p.code \cup {"data"},
                                         api : Apis \cup {"none"},
                                         via : {"thunk", "import"},
                                         pops : Nat])]
    /\ p.thunks \subseteq Apis
    /\ \A proc \in DOMAIN p.code : \A i \in DOMAIN p.code[proc] :
         LET insn == p.code[proc][i]
         IN  insn.api # "none" /\ insn.via = "thunk" => insn.api \in p.thunks

VARIABLES
  program,
  explored,  \* procedures the host has disassembled
  functions, \* procedures made functions by the analyzer
  pending,   \* references still to look at in this run
  analyzed,  \* explored, when the last run started
  running

vars == <<program, explored, functions, pending, analyzed, running>>

ArgIdx == 3

-----------------------------------------------------------------------------
(* References.                                                             *)

Code(proc) == program.code[proc]

Insn(ref) == Code(ref[1])[ref[2]]

DialogCalls(procs) ==
  { ref \in UNION { {proc} \X DOMAIN Code(proc) : proc \in procs } :
      Insn(ref).op = "call" /\ Insn(ref).api \in Apis }

\* getImport: the thunk's symbol if there is one, else the import's.
Symbol(api) == IF api \in program.thunks THEN "thunk" ELSE "import"

\* analyze, getAPIReferences: the calls through that symbol.
References(procs) ==
  { ref \in DialogCalls(procs) : Insn(ref).via = Symbol(Insn(ref).api) }

-----------------------------------------------------------------------------
(* findWndProc.                                                            *)

\* The pushes before instruction i, the last one first, up to an instruction
\* without IL.
PushesBefore(code, i) ==
  { k \in 1 .. i - 1 : code[k].op = "push" /\ \A m \in k .. i - 1 : code[m].op # "opaque" }

\* Mutant: one push too few.
ArgumentEarly(code, i) ==
  { k \in PushesBefore(code, i) :
      Cardinality({ m \in PushesBefore(code, i) : m >= k }) = ArgIdx }

\* The push of the fourth argument: no element or one.
Argument(code, i) ==
  { k \in PushesBefore(code, i) :
      Cardinality({ m \in PushesBefore(code, i) : m >= k }) = ArgIdx + 1 }

InCode(value) == value \in DOMAIN program.code

Procs(proc, i) == { v \in { Code(proc)[k].value : k \in Argument(Code(proc), i) } : InCode(v) }

FindWndProc(ref) ==
  /\ running
  /\ ref \in pending
  /\ pending' = pending \ {ref}
  /\ functions' = functions \cup Procs(ref[1], ref[2])
  /\ UNCHANGED <<program, explored, analyzed, running>>

\* The run, over the references there are when it starts.
Analyze ==
  /\ ~running
  /\ running' = TRUE
  /\ pending' = References(explored)
  /\ analyzed' = explored
  /\ UNCHANGED <<program, explored, functions>>

EndAnalyze ==
  /\ running
  /\ pending = {}
  /\ running' = FALSE
  /\ UNCHANGED <<program, explored, functions, pending, analyzed>>

\* The host disassembles the functions it was given.
Explore(proc) ==
  /\ ~running
  /\ proc \in functions \ explored
  /\ explored' = explored \cup {proc}
  /\ UNCHANGED <<program, functions, pending, analyzed, running>>

Init ==
  /\ program \in Programs
  /\ explored = {program.main}
  /\ functions = {}
  /\ pending = {}
  /\ analyzed = {}
  /\ running = FALSE

Next ==
  \/ Analyze \/ EndAnalyze
  \/ \E ref \in pending : FindWndProc(ref)
  \/ \E proc \in functions : Explore(proc)

Spec == Init /\ [][Next]_vars

-----------------------------------------------------------------------------
(* What the processor does: the stack before instruction i.                *)

Execute(stack, insn) ==
  CASE insn.op = "push" -> <<insn.value>> \o stack
    [] insn.op = "call" -> SubSeq(stack, insn.pops + 1, Len(stack))
    [] OTHER -> stack

StackBefore(code, i) ==
  LET stack[n \in 0 .. Len(code)] == IF n = 0 THEN << >> ELSE Execute(stack[n - 1], code[n])
  IN  stack[i - 1]

\* Calls that take arguments and are set among the pushes: the walk counts the
\* arguments of those calls too.
Nested(code, i) ==
  \E k \in 1 .. i - 1 : code[k].op = "call" /\ code[k].pops > 0

\* The window procedure a call is given, if the walk can see it.
Given(proc, i) ==
  LET stack == StackBefore(Code(proc), i)
  IN  IF Len(stack) > ArgIdx /\ InCode(stack[ArgIdx + 1]) THEN {stack[ArgIdx + 1]} ELSE {}

Opaque(code) == \E k \in DOMAIN code : code[k].op = "opaque"

-----------------------------------------------------------------------------
(* Properties.                                                             *)

\* A function is made only of what some dialog function really gets as its
\* fourth argument, however often the analyzer runs.  Programs in which other
\* calls take their arguments from among the pushes escape: their pushes are
\* counted as the dialog function's own.
OnlyWindowProcedures ==
  (\A ref \in References(explored) : ~Nested(Code(ref[1]), ref[2])) =>
    functions \subseteq UNION { Given(ref[1], ref[2]) : ref \in References(explored) }

\* When a run ends without anything left to disassemble, every window procedure
\* given to a dialog call of the listing has been found: none is lost to the
\* order of runs and disassembly.  Calls through the import of a function that
\* also has a thunk, nested calls and code without IL escape.
ProceduresFound ==
  (~running /\ analyzed = explored /\ functions \subseteq explored) =>
    \A ref \in DialogCalls(explored) :
      \/ Insn(ref).via = "import" /\ Insn(ref).api \in program.thunks
      \/ Nested(Code(ref[1]), ref[2])
      \/ Opaque(Code(ref[1]))
      \/ Given(ref[1], ref[2]) \subseteq functions
=============================================================================
