--------------------------- MODULE MCDotNetReader ---------------------------
(* Metadata for TLC. *)
EXTENDS DotNetReader

Wides == { {}, {"Strings"}, {"Blob", "GUID"}, {"Strings", "Blob", "GUID"} }

\* Row counts at which some index or tag changes its width.
Limits == UNION { {2 ^ n - 1, 2 ^ n} : n \in {11, 13, 14, 15, 16} }

Metadata(rows, wide, indexes, strings) ==
  [rows |-> rows, wide |-> wide, lists |-> indexes, strings |-> strings]

\* All tables, or all but one, with a row each but for one table.
Tall ==
  { Metadata([ u \in Known \ {gone} |-> IF u = t THEN n ELSE 1 ], w, IF t = "TypeDef" THEN <<>> ELSE <<1>>, TRUE) :
      t \in Known, n \in Limits, w \in Wides, gone \in {"AssemblyRef", "Module"} }

\* methodLists of n types over m methods.
ListsOf(n, m) ==
  { l \in [1 .. n -> 1 .. m + 1] : l[1] = 1 /\ \A i \in 1 .. n - 1 : l[i] <= l[i + 1] }

\* Few tables: types and methods, with or without fields and the tables the
\* reader does not know.
Small ==
  UNION { UNION { { Metadata([ u \in some \cup {"Module", "TypeDef", "MethodDef"} |->
                        CASE u = "TypeDef" -> n [] u = "MethodDef" -> m [] OTHER -> 1 ], {}, l, s) :
                      l \in ListsOf(n, m), some \in SUBSET {"FieldDef", "MethodPtr", "MethodSpec"}, s \in BOOLEAN } :
                  m \in 1 .. 4 } : n \in 1 .. 3 }
  \cup { Metadata([ u \in some |-> 1 ], {}, IF "TypeDef" \in some THEN <<1>> ELSE <<>>, TRUE) :
           some \in SUBSET {"Module", "TypeDef", "FieldDef"} }

AllImages == Tall \cup Small
=============================================================================
