----------------------------- MODULE MCEspPlugin -----------------------------
(* The ESP plugin, at work on an ESP8266 file or on the image of a ULP.      *)
(* Files of up to 96 bytes with images at 0, 32 and 64; segments of 0, 8 and *)
(* 40 bytes, so that chains end by count, by the file, or run into the next  *)
(* image.  ULP texts of up to three words.                                   *)
EXTENDS EspLoader, Ulp

H(magic, n, freq, size) ==
  [magic |-> magic, segments |-> n, freq |-> freq, entrypoint |-> Iram, size |-> size]

Blank == H("other", 0, 0, 0)

First == { H("image1", n, 0, 0) : n \in 0 .. 3 } \cup { H("image1", 1, 3, 0), H("image1", 17, 0, 0), H("image2", 1, 0, 0) }
Others == { Blank, H("image1", 1, 0, 0), H("image1", 3, 0, 0), H("image2", 1, 0, 0), H("image2", 1, 0, 8), H("image2", 1, 0, 80) }
Inner == { Blank, H("image1", 2, 0, 0) }

Addresses == {RomData, RomData + 16, Rom + 256, Iram, Iram + 32}
Size(a) == IF a \in {Iram, RomData} THEN 8 ELSE IF a = Iram + 32 THEN 40 ELSE 0

\* Heads along the file repeat two addresses.
HeadAt(a, b, p) ==
  IF p % 16 = 0 THEN [address |-> a, size |-> Size(a)] ELSE [address |-> b, size |-> Size(b)]

HeaderAt(size, h0, h1, h2, inner, p) ==
  CASE p = 0 -> h0
    [] p = 32 -> h1
    [] p = 64 -> h2
    [] p \in {48, 56, 80, 88} -> inner
    [] OTHER -> Blank

IdleFile ==
  [size |-> 1, header |-> [ p \in {0} |-> Blank ], head |-> [ p \in {0} |-> [address |-> Rom, size |-> 0] ]]

MCFiles ==
  { [size |-> size,
     header |-> [ p \in 0 .. size - 1 |-> HeaderAt(size, h0, h1, h2, inner, p) ],
     head |-> [ p \in 0 .. size - 1 |-> HeadAt(a, b, p) ]] :
    size \in {8, 40, 96}, h0 \in First, h1 \in Others, h2 \in Others, inner \in Inner, a \in Addresses, b \in {Rom + 256, Iram + 32} }
  \cup {IdleFile}

MCImports == {Rom + 1220, RomData + 32}

-----------------------------------------------------------------------------

Insn(op, choice, sel, type, addr, sign, step) ==
  [op |-> op, choice |-> choice, sel |-> sel, type |-> type, addr |-> addr, sign |-> sign, step |-> step]

Insns ==
  { Insn("alu", 0, 0, 0, 0, 1, 0), Insn("halt", 0, 0, 0, 0, 1, 0), Insn("jump", 3, 0, 0, 0, 1, 0),
    Insn("jump", 0, 1, 0, 0, 1, 0), Insn("jump", 0, 1, 1, 0, 1, 0), Insn("jump", 0, 0, 2, 2, 1, 0) }
  \cup { Insn("jump", 0, 0, 0, w, 1, 0) : w \in {0, 2, 3} }
  \cup { Insn("jump", c, 0, 0, 0, s, m) : c \in {1, 2}, s \in {-1, 1}, m \in {1, 2} }

Header == 12

\* Text sizes need not be whole words.
MCImages ==
  UNION { { [textoffset |-> Header, textsize |-> n, datasize |-> d, bsssize |-> b, text |-> t] :
              t \in [1 .. n \div 4 -> Insns], d \in IF n < 9 THEN {0, 4} ELSE {4}, b \in IF n < 9 THEN {0, 4} ELSE {4} } :
          n \in {0, 4, 9, 12} }

-----------------------------------------------------------------------------

VARIABLE loader

IdleImage == [textoffset |-> Header, textsize |-> 0, datasize |-> 0, bsssize |-> 0, text |-> << >>]

IdleUlp == image = IdleImage /\ stage = "load" /\ segments = {} /\ todo = {} /\ decoded = << >>

IdleEsp ==
  /\ file = IdleFile /\ pc = "init" /\ images = << >> /\ label = "none" /\ header = Null /\ segment = Null
  /\ document = << >> /\ m_imports = {} /\ imported = {} /\ entry = Null /\ result = "none"

MCInit ==
  \/ loader = "esp" /\ Init /\ IdleUlp
  \/ loader = "ulp" /\ IdleEsp /\ UlpInit

MCNext ==
  \/ loader = "esp" /\ Next /\ UNCHANGED <<ulpVars, loader>>
  \/ loader = "ulp" /\ UlpNext /\ UNCHANGED <<vars, loader>>

MCSpec == MCInit /\ [][MCNext]_<<vars, ulpVars, loader>>
=============================================================================
