---------------------------- MODULE MCPEAnalyzers ----------------------------
(* Loads for both analyzers.                                                 *)
EXTENDS PEAnalyzers, Sequences

(* Three procedures; main calls a dialog function after four or five pushes  *)
(* with something else among them, the others may call one in turn.          *)

MCApis == {"DialogBoxParamA", "CreateDialogParamA"}

I(op, value, api, via, pops) == [op |-> op, value |-> value, api |-> api, via |-> via, pops |-> pops]

Push(v) == I("push", v, "none", "import", 0)
Call(n) == I("call", "data", "none", "import", n)
Dialog(api, via) == I("call", "data", api, via, 5)

Values == {"main", "p1", "p2", "data"}
Between == {<< >>, <<I("other", "data", "none", "import", 0)>>, <<I("opaque", "data", "none", "import", 0)>>,
            <<Call(0)>>, <<Push("data"), Call(1)>>}

\* The fifth push, the fourth argument, the others.
Body(e, a, x, y, call) == e \o <<Push(a)>> \o x \o <<Push("p2"), Push("data"), Push("data")>> \o y \o <<call>>

Mains == { Body(e, a, x, y, Dialog("DialogBoxParamA", via)) :
             e \in {<< >>, <<Push("p2")>>}, a \in {"p1", "p2", "data"}, x \in Between, y \in Between, via \in {"thunk", "import"} }

FirstProc == { << >> } \cup
  { Body(<< >>, a, << >>, y, Dialog(api, "import")) :
      a \in {"main", "p2"}, y \in {<< >>, <<Call(0)>>}, api \in MCApis }

SecondProc == { << >>, Body(<<Push("data")>>, "p1", << >>, << >>, Dialog("CreateDialogParamA", "import")) }

MCPrograms ==
  { p \in { [main |-> "main", code |-> [main |-> m, p1 |-> f, p2 |-> g], thunks |-> t] :
              m \in Mains, f \in FirstProc, g \in SecondProc, t \in {{}, {"DialogBoxParamA"}} } :
      \A i \in DOMAIN p.code["main"] :
        p.code["main"][i].via = "thunk" => "DialogBoxParamA" \in p.thunks }

-----------------------------------------------------------------------------
(* Two objects with up to two controls of two components or an unknown one.  *)

MCComponents == [Timer |-> <<"Timer">>, Scroll |-> <<"Change", "Scroll", "Validate">>]

MCAddresses == 1 .. 5

\* Handlers 1 and 2 lead to methods 3 and 4, the method 3 to nothing; 5 lies
\* outside the segments.
Codes == { [a \in 1 .. 4 |-> [first |-> IF a = 3 THEN "other" ELSE "copy", goto |-> g[a]]] :
             g \in { <<3, 4, 0, 0>>, <<4, 4, 0, 5>>, <<3, 5, 2, 0>> } }

C(guid, table) == [guid |-> guid, table |-> table]

Controls == { C("Timer", <<1>>), C("Unknown", <<2>>), C("Scroll", <<0, 1, 2>>), C("Scroll", <<2, 3>>), C("Scroll", <<5, 2, 1>>) }

Lists == { << >> } \cup { <<c>> : c \in Controls } \cup { <<c, d>> : c \in Controls, d \in Controls }

Objects == { [info |-> i, constants |-> k, controls |-> l] :
               i \in BOOLEAN, k \in {"behind info", "elsewhere"}, l \in Lists }

Simple == { [info |-> TRUE, constants |-> "elsewhere", controls |-> <<C("Scroll", <<1, 0, 2>>)>>],
            [info |-> TRUE, constants |-> "behind info", controls |-> <<C("Timer", <<2>>)>>] }

MCImages ==
  { [entry |-> e, header |-> h, segments |-> 1 .. 4, code |-> k, words |-> {0, 1, 5}, objects |-> <<o, p>>] :
      e \in {"push call"}, h \in {"VB5!"}, k \in Codes, o \in Objects, p \in Simple }
  \cup
  { [entry |-> e, header |-> h, segments |-> 1 .. 4, code |-> [a \in 1 .. 4 |-> [first |-> "copy", goto |-> 4]],
     words |-> {0}, objects |-> <<o>>] :
      e \in {"none", "other", "push call"}, h \in {"unmapped", "other", "VB5!"}, o \in Simple }

-----------------------------------------------------------------------------
(* The load decides which analyzer has something to look at.                 *)

NoProgram == [main |-> "main", code |-> [main |-> << >>], thunks |-> {}]

NoVB == [entry |-> "other", header |-> "unmapped", segments |-> {}, code |-> << >>, words |-> {0}, objects |-> << >>]

MCLoads ==
  { [classification |-> "VisualStudio_6", program |-> p, image |-> NoVB] : p \in MCPrograms }
  \cup { [classification |-> "VisualBasic_6", program |-> NoProgram, image |-> i] : i \in MCImages }
=============================================================================
