---------------------------- MODULE ClassDirectory ----------------------------
(***************************************************************************)
(* What a lookup table of classes promises, without a table: it answers    *)
(* for each descriptor asked with the first class defined under it, or     *)
(* with none.                                                              *)
(***************************************************************************)
EXTENDS Naturals, Sequences

CONSTANTS Asked, None

VARIABLES defined, question, answer

directoryVars == <<defined, question, answer>>

Defining(d) == { i \in DOMAIN defined : defined[i] = d }

FirstDefining(d) == CHOOSE i \in Defining(d) : \A j \in Defining(d) : i <= j

Init == defined = << >> /\ question = None /\ answer = None

Define == /\ \E d \in Asked : defined' = Append(defined, d)
          /\ UNCHANGED <<question, answer>>

Ask == /\ question = None
       /\ \E d \in Asked : question' = d
       /\ answer' = None
       /\ UNCHANGED defined

Reply == /\ question # None
         /\ answer' = IF Defining(question) = {} THEN None ELSE FirstDefining(question)
         /\ question' = None
         /\ UNCHANGED defined

Spec == Init /\ [][Define \/ Ask \/ Reply]_directoryVars
=============================================================================
