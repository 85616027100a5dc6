----------------------------- MODULE MCDexLoader -----------------------------
(* Two small DEX files for TLC. *)
EXTENDS DexLoader, TLC

CONSTANTS c1, c2

Symmetry == Permutations(Contexts)

Method(idx, code) == [idx |-> idx, code |-> code]

Class(descriptor, platform, verified, methods) ==
  [descriptor |-> descriptor, platform |-> platform, verified |-> verified, methods |-> methods]

\* A class without a descriptor in front of the others, an abstract method, a
\* class whose data does not verify, and two methods that share their code.
First ==
  [ classes |-> << Class(FALSE, FALSE, TRUE, << Method(0, 12) >>),
                   Class(TRUE, FALSE, TRUE, << Method(1, 10), Method(2, 0) >>),
                   Class(TRUE, TRUE, TRUE, << Method(2, 12), Method(0, 12) >>) >>,
    data |-> 10 .. 13,
    names |-> [ method |-> [ i \in 0 .. 2 |-> <<"A.m", i>> ], field |-> [ i \in 0 .. 1 |-> <<"A.f", i>> ] ],
    signature |-> [ i \in 0 .. 2 |-> <<"void A.m", i>> ] ]

Second ==
  [ classes |-> << Class(TRUE, FALSE, FALSE, << Method(0, 12) >>),
                   Class(TRUE, FALSE, TRUE, << Method(1, 10), Method(0, 20) >>) >>,
    data |-> 10 .. 13,
    names |-> [ method |-> [ i \in 0 .. 1 |-> <<"B.m", i>> ],
                field |-> [ i \in 0 .. 1 |-> IF i = 0 THEN NoName ELSE <<"B.f", i>> ] ],
    signature |-> [ i \in 0 .. 1 |-> <<"void B.m", i>> ] ]

BothFiles == {First, Second}
=============================================================================
