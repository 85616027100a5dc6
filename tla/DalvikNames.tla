----------------------------- MODULE DalvikNames -----------------------------
(***************************************************************************)
(* What the listing owes its reader: a name shown in a context is a name   *)
(* of the file opened there.  No cache, no process-wide state.             *)
(***************************************************************************)
CONSTANTS Contexts, Files, NoFile, NoName

VARIABLES
  file,  \* file[c]: the file opened in context c
  shown  \* the answer given last

vars == <<file, shown>>

\* The texts that may stand for entry i of a kind, in file f.
Texts(f, kind, i) ==
  IF kind = "function"
  THEN { f.signature[m.idx] : m \in { n \in UNION { { k.methods[j] : j \in DOMAIN k.methods } :
                                          k \in { f.classes[x] : x \in DOMAIN f.classes } } :
                                      n.code = i } }
  ELSE { IF i \in DOMAIN f.names[kind] THEN f.names[kind][i] ELSE NoName }

Nothing == [context |-> NoFile, kind |-> "method", index |-> 0, text |-> NoName]

Init == file = [c \in Contexts |-> NoFile] /\ shown = Nothing

Open(c, f) ==
  /\ file[c] = NoFile
  /\ file' = [file EXCEPT ![c] = f]
  /\ UNCHANGED shown

Answer(c, kind, i) ==
  /\ file[c] # NoFile
  /\ \E t \in Texts(file[c], kind, i) :
       shown' = [context |-> c, kind |-> kind, index |-> i, text |-> t]
  /\ UNCHANGED file

Next ==
  \E c \in Contexts :
    \/ \E f \in Files : Open(c, f)
    \/ shown'.context = c /\ Answer(c, shown'.kind, shown'.index)

Spec == Init /\ [][Next]_vars
=============================================================================
