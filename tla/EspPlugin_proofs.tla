-------------------------- MODULE EspPlugin_proofs ---------------------------
(* The two loaders of the ESP plugin, for every file and every image.        *)
EXTENDS EspLoader, Ulp, SequenceTheorems, TLAPS

-----------------------------------------------------------------------------
(***************************************************************************)
(* ULP: segments never overlap and, without conditional absolute jumps,    *)
(* decoding stays on word boundaries, for every image.                     *)
(***************************************************************************)

ImageType == image \in Images

LEMMA ImageFacts ==
  ASSUME ImageType
  PROVE  /\ image.textoffset \in Nat /\ image.textsize \in Nat
         /\ image.datasize \in Nat /\ image.bsssize \in Nat
         /\ image.text \in [1 .. image.textsize \div 4 -> Instructions]
  BY ImageAssumption DEF ImageType

\* What LoadParts maps.
LEMMA LoadedDisjoint ==
  ASSUME ImageType
  PROVE  \A s, t \in Segments :
           s # t => s.address + s.size <= t.address \/ t.address + t.size <= s.address
  <1>1. /\ image.textoffset \in Nat /\ image.textsize \in Nat
        /\ image.datasize \in Nat /\ image.bsssize \in Nat
    BY ImageFacts
  <1> DEFINE Data == Segment("DATA", DataOffset, DataOffset, image.datasize)
             Bss  == Segment("BSS", 0, BssOffset, image.bsssize)
             Text == Segment("TEXT", image.textoffset, 0, image.textsize)
  <1>2. /\ Data.address = image.textoffset + image.textsize /\ Data.size = image.datasize
        /\ Bss.address = image.textoffset + image.textsize + image.datasize /\ Bss.size = image.bsssize
        /\ Text.address = 0 /\ Text.size = image.textsize
    BY DEF Segment, DataOffset, BssOffset
  <1>3. Segments \subseteq {Data, Bss, Text}
    BY Zenon DEF Segments
  <1> HIDE DEF Data, Bss, Text
  <1>4. ASSUME NEW s \in {Data, Bss, Text}, NEW t \in {Data, Bss, Text}, s # t
        PROVE  s.address + s.size <= t.address \/ t.address + t.size <= s.address
    <2>1. CASE s = Data
      BY <2>1, <1>1, <1>2, <1>4
    <2>2. CASE s = Bss
      BY <2>2, <1>1, <1>2, <1>4
    <2>3. CASE s = Text
      BY <2>3, <1>1, <1>2, <1>4
    <2> QED
      BY <2>1, <2>2, <2>3
  <1> QED
    BY <1>3, <1>4

Loaded == segments \in {{}, Segments}

\* The segments are those of the image, and disjoint.
THEOREM Disjoint == UlpSpec => []SegmentsDisjoint
  <1> DEFINE Inv == ImageType /\ Loaded
  <1>1. UlpInit => Inv
    BY DEF UlpInit, ImageType, Loaded
  <1>2. Inv /\ [UlpNext]_ulpVars => Inv'
    <2> SUFFICES ASSUME Inv, [UlpNext]_ulpVars PROVE Inv'
      OBVIOUS
    <2>1. image' = image /\ segments' \in {segments, Segments}
      BY DEF UlpNext, LoadParts, Emulate, ulpVars
    <2>2. Segments' = Segments
      BY <2>1 DEF Segments, Segment, DataOffset, BssOffset
    <2> QED
      BY <2>1, <2>2 DEF ImageType, Loaded
  <1>3. Inv => SegmentsDisjoint
    BY LoadedDisjoint DEF Loaded, SegmentsDisjoint
  <1> QED
    BY <1>1, <1>2, <1>3, PTL DEF UlpSpec

-----------------------------------------------------------------------------

Aligned(a) == a \in Int /\ a % WordSize = 0

LEMMA AlignedSum ==
  ASSUME NEW a, NEW k \in Int, Aligned(a)
  PROVE  Aligned(a + 4 * k) /\ Aligned(a - 4 * k)
  BY DEF Aligned, WordSize

LEMMA AlignedMultiple ==
  ASSUME NEW k \in Int
  PROVE  Aligned(4 * k)
  BY DEF Aligned, WordSize

\* Where an instruction of the text leads, unless it is a conditional jump.
LEMMA AlignedSuccessors ==
  ASSUME NEW a, NEW insn \in Instructions, Aligned(a), ~Conditional(insn), NEW x \in Successors(a, insn)
  PROVE  Aligned(x)
  <1>1. insn.addr \in Nat /\ insn.step \in Nat /\ insn.sign \in {-1, 1} /\ insn.sel \in {0, 1}
    BY InstructionAssumption
  <1>2. a \in Int
    BY DEF Aligned
  <1>3. Aligned(a + WordSize)
    BY AlignedSum, <1>2 DEF Aligned, WordSize
  <1>4. Aligned(Address(insn.addr))
    <2>1. Address(insn.addr) = 4 * insn.addr
      BY <1>1 DEF Address, WordSize
    <2>2. Aligned(4 * insn.addr)
      BY <1>1, AlignedMultiple
    <2> QED
      BY <2>1, <2>2, Zenon
  <1>5. Aligned(Relative(a, insn))
    <2>1. CASE insn.sign = 1
      <3>1. Relative(a, insn) = a + 4 * insn.step
        BY <2>1, <1>1, <1>2 DEF Relative, Address, WordSize
      <3> QED
        BY <3>1, <1>1, AlignedSum
    <2>2. CASE insn.sign = -1
      <3>1. Relative(a, insn) = a - 4 * insn.step
        BY <2>2, <1>1, <1>2 DEF Relative, Address, WordSize
      <3> QED
        BY <3>1, <1>1, AlignedSum
    <2> QED
      BY <2>1, <2>2, <1>1
  <1>6. CASE x \in Flow(a, insn).targets
    <2>1. CASE insn.op = "halt"
      <3>1. Flow(a, insn).targets = {}
        BY <2>1, Zenon DEF Flow
      <3> QED
        BY <3>1, <1>6
    <2>2. CASE insn.op # "halt" /\ insn.op = "jump" /\ insn.choice = 0
      <3> DEFINE to == IF insn.sel = 1 THEN {} ELSE {IF insn.type = 0 THEN Address(insn.addr) ELSE insn.addr}
      <3>0. insn.choice \notin {1, 2}
        BY <2>2
      <3>1. Flow(a, insn) = [targets |-> to, falls |-> insn.type # 0]
        BY <2>2, <3>0, Zenon DEF Flow
      <3> HIDE DEF to
      <3>2. x \in to
        BY <3>1, <1>6
      <3>3. insn.sel # 1 /\ x = IF insn.type = 0 THEN Address(insn.addr) ELSE insn.addr
        BY <3>2 DEF to
      <3>4. CASE insn.type = 0
        BY <3>3, <3>4, <1>4
      <3>5. CASE insn.type # 0 /\ insn.sel = 0
        BY <3>5, <2>2 DEF Conditional
      <3> QED
        BY <3>3, <3>4, <3>5, <1>1
    <2>3. CASE insn.op # "halt" /\ insn.op = "jump" /\ insn.choice \in {1, 2}
      <3>0. insn.choice # 0
        BY <2>3
      <3>1. Flow(a, insn).targets = {Relative(a, insn)}
        BY <2>3, <3>0, Zenon DEF Flow
      <3> QED
        BY <3>1, <1>5, <1>6
    <2>4. CASE insn.op # "jump" \/ insn.choice \notin {0, 1, 2}
      <3>0. /\ ~(insn.op = "jump" /\ insn.choice = 0)
            /\ ~(insn.op = "jump" /\ insn.choice \in {1, 2})
        BY <2>4
      <3>1. CASE insn.op = "halt"
        <4>1. Flow(a, insn).targets = {}
          BY <3>1, Zenon DEF Flow
        <4> QED
          BY <4>1, <1>6
      <3>2. CASE insn.op # "halt"
        <4>1. Flow(a, insn).targets = {}
          BY <3>0, <3>2, Zenon DEF Flow
        <4> QED
          BY <4>1, <1>6
      <3> QED
        BY <3>1, <3>2
    <2> QED
      BY <2>1, <2>2, <2>3, <2>4
  <1>7. CASE x = a + WordSize
    BY <1>7, <1>3
  <1> QED
    BY <1>6, <1>7 DEF Successors

\* What decoding keeps: nothing is emulated twice, and as long as nothing led
\* across a word boundary, addresses are aligned and lie in the text, whose
\* words are instructions.
Orderly ==
  /\ todo \cap DOMAIN decoded = {}
  /\ (\A a \in DOMAIN decoded : ~Conditional(decoded[a])) =>
       \A a \in todo \cup DOMAIN decoded : Aligned(a)

\* An aligned word of the text is one of the image's instructions.
LEMMA TextWords ==
  ASSUME ImageType, Loaded, NEW a, Aligned(a), Whole(a), NEW insn \in InsnsAt(a)
  PROVE  insn \in Instructions
  <1>1. image.textsize \in Nat /\ image.text \in [1 .. image.textsize \div 4 -> Instructions]
    BY ImageFacts
  <1>2. PICK s \in segments : s.name = "TEXT" /\ a + WordSize - 1 < s.address + s.size /\ s.address <= a + WordSize - 1
    BY DEF Whole, InText
  <1>3. s \in Segments
    BY <1>2 DEF Loaded
  <1>4. s = Segment("TEXT", image.textoffset, 0, image.textsize)
    BY <1>2, <1>3 DEF Segments, Segment
  <1>5. s.address = 0 /\ s.size = image.textsize
    BY <1>4 DEF Segment
  <1>6. a \in Int /\ a % 4 = 0
    BY DEF Aligned, WordSize
  <1>7. a + 3 < image.textsize /\ 0 <= a + 3
    BY <1>1, <1>2, <1>5, <1>6 DEF WordSize
  <1>8. (a \div 4) + 1 \in 1 .. image.textsize \div 4
    BY <1>1, <1>6, <1>7
  <1>9. InsnsAt(a) = {image.text[(a \div 4) + 1]}
    BY <1>6 DEF InsnsAt, WordSize
  <1> QED
    BY <1>1, <1>8, <1>9

LEMMA EmulateOrderly ==
  ASSUME ImageType, Loaded, Orderly, NEW a \in todo, Emulate(a)
  PROVE  Orderly'
  <1>1. CASE ~Whole(a)
    <2>1. todo' = todo \ {a} /\ decoded' = decoded
      BY <1>1 DEF Emulate
    <2> QED
      BY <2>1 DEF Orderly
  <1>2. CASE Whole(a)
    <2>1. PICK insn \in InsnsAt(a) :
            /\ decoded' = [ x \in DOMAIN decoded \cup {a} |-> IF x = a THEN insn ELSE decoded[x] ]
            /\ todo' = (todo \cup { x \in Successors(a, insn) : InText(x) })
                        \ DOMAIN [ x \in DOMAIN decoded \cup {a} |-> IF x = a THEN insn ELSE decoded[x] ]
      BY <1>2, Zenon DEF Emulate
    <2>2. DOMAIN decoded' = DOMAIN decoded \cup {a}
      BY <2>1
    <2>3. todo' = (todo \cup { x \in Successors(a, insn) : InText(x) }) \ (DOMAIN decoded \cup {a})
      BY <2>1
    <2>4. decoded'[a] = insn
      BY <2>1
    <2>5. \A x \in DOMAIN decoded : decoded'[x] = decoded[x]
      <3>1. a \notin DOMAIN decoded
        BY DEF Orderly
      <3> QED
        BY <2>1, <3>1
    <2>6. ASSUME \A x \in DOMAIN decoded' : ~Conditional(decoded'[x])
          PROVE  \A x \in todo' \cup DOMAIN decoded' : Aligned(x)
      <3>1. \A x \in DOMAIN decoded : ~Conditional(decoded[x])
        BY <2>2, <2>5, <2>6
      <3>2. \A x \in todo \cup DOMAIN decoded : Aligned(x)
        BY <3>1 DEF Orderly
      <3>3. ~Conditional(insn)
        BY <2>2, <2>4, <2>6
      <3>4. insn \in Instructions
        BY <1>2, <3>2, TextWords
      <3>5. \A x \in Successors(a, insn) : Aligned(x)
        BY <3>2, <3>3, <3>4, AlignedSuccessors
      <3> QED
        BY <2>2, <2>3, <3>2, <3>5
    <2>7. todo' \cap DOMAIN decoded' = {}
      BY <2>2, <2>3
    <2> QED
      BY <2>3, <2>6, <2>7 DEF Orderly
  <1> QED
    BY <1>1, <1>2

Decoding ==
  /\ ImageType /\ Loaded /\ Orderly
  /\ stage = "load" => decoded = << >>

LEMMA DecodingInit == UlpInit => Decoding
  BY DEF UlpInit, Decoding, ImageType, Loaded, Orderly, Aligned

LEMMA DecodingStep == Decoding /\ [UlpNext]_ulpVars => Decoding'
  <1> SUFFICES ASSUME Decoding, [UlpNext]_ulpVars PROVE Decoding'
    OBVIOUS
  <1> USE DEF Decoding
  <1>1. image' = image /\ segments' \in {segments, Segments}
    BY DEF UlpNext, LoadParts, Emulate, ulpVars
  <1>2. Segments' = Segments
    BY <1>1 DEF Segments, Segment, DataOffset, BssOffset
  <1>3. ImageType' /\ Loaded'
    BY <1>1, <1>2 DEF ImageType, Loaded
  <1>4. CASE LoadParts
    <2>1. decoded = << >> /\ decoded' = << >> /\ todo' \subseteq {0} /\ stage' # "load"
      BY <1>4 DEF LoadParts
    <2>2. Aligned(0)
      BY DEF Aligned, WordSize
    <2>3. Orderly'
      BY <2>1, <2>2 DEF Orderly
    <2> QED
      BY <1>3, <2>1, <2>3
  <1>5. ASSUME NEW a \in todo, Emulate(a) PROVE Decoding'
    <2>1. Orderly'
      BY <1>5, EmulateOrderly
    <2>2. stage' # "load"
      BY <1>5 DEF Emulate
    <2> QED
      BY <1>3, <2>1, <2>2
  <1>6. CASE UNCHANGED ulpVars
    BY <1>3, <1>6 DEF ulpVars, Orderly
  <1> QED
    BY <1>4, <1>5, <1>6 DEF UlpNext

\* Decoding never leaves the word boundaries.
THEOREM DecodesWords == UlpSpec => []WordsDecodedWhole
  <1>1. Decoding => WordsDecodedWhole
    BY DEF Decoding, Orderly, WordsDecodedWhole, Aligned
  <1> QED
    BY <1>1, DecodingInit, DecodingStep, PTL DEF UlpSpec

-----------------------------------------------------------------------------

\* The listing shows where the emulation goes, but for conditional jumps.
LEMMA LedIsFlow ==
  ASSUME NEW a, NEW insn \in Instructions, ~Conditional(insn)
  PROVE  Led(a, insn) = Successors(a, insn)
  <1>1. insn.sel \in {0, 1}
    BY InstructionAssumption
  <1>2. CASE insn.op = "halt"
    <2>1. Flow(a, insn).targets = {} /\ Flow(a, insn).falls = FALSE
      BY <1>2, Zenon DEF Flow
    <2>2. ~(insn.op = "jump" /\ insn.choice = 0 /\ insn.sel = 0)
          /\ ~(insn.op = "jump" /\ insn.choice \in {1, 2})
      BY <1>2
    <2>3. Shown(a, insn) = {}
      BY <2>2, Zenon DEF Shown
    <2> QED
      BY <1>2, <2>1, <2>3 DEF Led, Successors, Ends
  <1>3. CASE insn.op = "jump" /\ insn.choice = 0
    <2>1. insn.op # "halt" /\ ~(insn.op = "jump" /\ insn.choice \in {1, 2})
      BY <1>3
    <2> DEFINE to == IF insn.sel = 1 THEN {} ELSE {IF insn.type = 0 THEN Address(insn.addr) ELSE insn.addr}
    <2>2. Flow(a, insn) = [targets |-> to, falls |-> insn.type # 0]
      BY <1>3, <2>1, Zenon DEF Flow
    <2> HIDE DEF to
    <2>3. Flow(a, insn).targets = to /\ Flow(a, insn).falls = (insn.type # 0)
      BY <2>2
    <2>4. CASE insn.sel = 0
      <3>1. insn.type = 0
        BY <1>3, <2>4 DEF Conditional
      <3>2. Shown(a, insn) = {Address(insn.addr)}
        BY <1>3, <2>1, <2>4, Zenon DEF Shown
      <3>3. to = {Address(insn.addr)}
        BY <2>4, <3>1 DEF to
      <3> QED
        BY <1>3, <2>3, <3>1, <3>2, <3>3 DEF Led, Successors, Ends
    <2>5. CASE insn.sel = 1
      <3>1. ~(insn.op = "jump" /\ insn.choice = 0 /\ insn.sel = 0)
        BY <2>5
      <3>2. Shown(a, insn) = {}
        BY <2>1, <3>1, Zenon DEF Shown
      <3>3. to = {}
        BY <2>5 DEF to
      <3> QED
        BY <1>3, <2>1, <2>3, <3>2, <3>3 DEF Led, Successors, Ends
    <2> QED
      BY <1>1, <2>4, <2>5
  <1>4. CASE insn.op = "jump" /\ insn.choice \in {1, 2}
    <2>1. insn.op # "halt" /\ ~(insn.op = "jump" /\ insn.choice = 0)
      BY <1>4
    <2>2. Flow(a, insn).targets = {Relative(a, insn)} /\ Flow(a, insn).falls = TRUE
      BY <1>4, <2>1, Zenon DEF Flow
    <2>3. ~(insn.op = "jump" /\ insn.choice = 0 /\ insn.sel = 0)
      BY <2>1
    <2>4. Shown(a, insn) = {Relative(a, insn)}
      BY <1>4, <2>3, Zenon DEF Shown
    <2> QED
      BY <2>1, <2>2, <2>4 DEF Led, Successors, Ends
  <1>5. CASE insn.op # "halt" /\ (insn.op # "jump" \/ insn.choice \notin {0, 1, 2})
    <2>1. /\ insn.op # "halt"
          /\ ~(insn.op = "jump" /\ insn.choice = 0)
          /\ ~(insn.op = "jump" /\ insn.choice \in {1, 2})
          /\ ~(insn.op = "jump" /\ insn.choice = 0 /\ insn.sel = 0)
      BY <1>5
    <2>2. Flow(a, insn).targets = {} /\ Flow(a, insn).falls = TRUE
      BY <2>1, Zenon DEF Flow
    <2>3. Shown(a, insn) = {}
      BY <2>1, Zenon DEF Shown
    <2> QED
      BY <2>1, <2>2, <2>3 DEF Led, Successors, Ends
  <1> QED
    BY <1>2, <1>3, <1>4, <1>5

\* An aligned address with a whole word of text has its first byte there too.
LEMMA WholeInText ==
  ASSUME ImageType, Loaded, NEW a, Aligned(a), Whole(a)
  PROVE  InText(a)
  <1>1. image.textsize \in Nat
    BY ImageFacts
  <1>2. PICK s \in segments : s.name = "TEXT" /\ a + WordSize - 1 < s.address + s.size /\ s.address <= a + WordSize - 1
    BY DEF Whole, InText
  <1>3. s = Segment("TEXT", image.textoffset, 0, image.textsize)
    BY <1>2 DEF Loaded, Segments, Segment
  <1>4. s.address = 0 /\ s.size = image.textsize
    BY <1>3 DEF Segment
  <1>5. a \in Int /\ a % 4 = 0 /\ a + 3 < image.textsize /\ 0 <= a + 3
    BY <1>1, <1>2, <1>4 DEF Aligned, WordSize
  <1>6. 0 <= a /\ a < 0 + image.textsize
    BY <1>1, <1>5
  <1> QED
    BY <1>2, <1>4, <1>6 DEF InText

Unconditional == \A a \in DOMAIN decoded : ~Conditional(decoded[a])

Leads(x) == \E a \in DOMAIN decoded : x \in Led(a, decoded[a])

\* While no conditional jump is met, the addresses decoded or to decode are
\* the entry and those the listing leads to from an address decoded.
Traced ==
  Unconditional =>
    /\ \A x : Leads(x) /\ Whole(x) => x \in DOMAIN decoded \cup todo
    /\ \A x \in DOMAIN decoded \cup todo : x = 0 \/ Leads(x)

LEMMA EmulateTraced ==
  ASSUME Decoding, Traced, NEW a \in todo, Emulate(a)
  PROVE  Traced'
  <1>0. \A x : Whole(x)' <=> Whole(x)
    BY DEF Emulate, Whole, InText
  <1>1. CASE ~Whole(a)
    <2>1. todo' = todo \ {a} /\ decoded' = decoded
      BY <1>1 DEF Emulate
    <2>2. (Unconditional' <=> Unconditional) /\ \A x : Leads(x)' <=> Leads(x)
      BY <2>1 DEF Unconditional, Leads
    <2> QED
      BY <1>0, <1>1, <2>1, <2>2 DEF Traced
  <1>2. CASE Whole(a)
    <2>1. PICK insn \in InsnsAt(a) :
            /\ decoded' = [ x \in DOMAIN decoded \cup {a} |-> IF x = a THEN insn ELSE decoded[x] ]
            /\ todo' = (todo \cup { x \in Successors(a, insn) : InText(x) })
                        \ DOMAIN [ x \in DOMAIN decoded \cup {a} |-> IF x = a THEN insn ELSE decoded[x] ]
      BY <1>2, Zenon DEF Emulate
    <2>2. DOMAIN decoded' = DOMAIN decoded \cup {a} /\ decoded'[a] = insn
      BY <2>1
    <2>3. DOMAIN decoded' \cup todo' = DOMAIN decoded \cup todo \cup { x \in Successors(a, insn) : InText(x) }
      BY <2>1
    <2>4. \A x \in DOMAIN decoded : decoded'[x] = decoded[x]
      <3>1. a \notin DOMAIN decoded
        BY DEF Decoding, Orderly
      <3> QED
        BY <2>1, <3>1
    <2>5. \A x : Leads(x)' <=> Leads(x) \/ x \in Led(a, insn)
      BY <2>2, <2>4 DEF Leads
    <2>6. SUFFICES ASSUME Unconditional'
                   PROVE  /\ \A x : Leads(x)' /\ Whole(x) => x \in DOMAIN decoded' \cup todo'
                          /\ \A x \in DOMAIN decoded' \cup todo' : x = 0 \/ Leads(x)'
      BY <1>0 DEF Traced
    <2>7. Unconditional /\ ~Conditional(insn)
      BY <2>2, <2>4, <2>6 DEF Unconditional
    <2>8. Aligned(a)
      BY <2>7 DEF Decoding, Orderly, Unconditional
    <2>9. insn \in Instructions
      BY <1>2, <2>8, TextWords DEF Decoding
    <2>10. Led(a, insn) = Successors(a, insn)
      BY <2>7, <2>9, LedIsFlow
    <2>11. ASSUME NEW x, x \in Led(a, insn), Whole(x)
           PROVE  x \in DOMAIN decoded' \cup todo'
      <3>1. Aligned(x)
        BY <2>7, <2>8, <2>9, <2>10, <2>11, AlignedSuccessors
      <3>2. InText(x)
        BY <2>11, <3>1, WholeInText DEF Decoding
      <3> QED
        BY <2>3, <2>10, <2>11, <3>2
    <2> QED
      BY <2>3, <2>5, <2>7, <2>10, <2>11 DEF Traced
  <1> QED
    BY <1>1, <1>2

\* Following the listing and exploring reach the same addresses.
THEOREM ListsTheFlow == UlpSpec => []FlowIsListed
  <1> DEFINE Inv == Decoding /\ Traced /\ (stage = "load" => todo = {})
  <1>1. UlpInit => Inv
    <2>1. UlpInit => Traced /\ todo = {}
      BY DEF UlpInit, Traced, Leads
    <2> QED
      BY <2>1, DecodingInit
  <1>2. Inv /\ [UlpNext]_ulpVars => Inv'
    <2> SUFFICES ASSUME Inv, [UlpNext]_ulpVars PROVE Inv'
      OBVIOUS
    <2>1. Decoding'
      BY DecodingStep
    <2>2. CASE LoadParts
      <3>1. decoded' = << >> /\ todo' \subseteq {0} /\ stage' # "load"
        BY <2>2 DEF LoadParts, Decoding
      <3>2. DOMAIN decoded' = {}
        BY <3>1
      <3>3. \A x : ~Leads(x)'
        BY <3>2 DEF Leads
      <3>4. Traced'
        BY <3>1, <3>2, <3>3 DEF Traced
      <3> QED
        BY <2>1, <3>1, <3>4
    <2>3. ASSUME NEW a \in todo, Emulate(a) PROVE Inv'
      <3>1. Traced' /\ stage' # "load"
        BY <2>3, EmulateTraced DEF Emulate
      <3> QED
        BY <2>1, <3>1
    <2>4. CASE UNCHANGED ulpVars
      <3>1. Traced'
        BY <2>4 DEF ulpVars, Traced, Unconditional, Leads, Whole, InText
      <3> QED
        BY <2>1, <2>4, <3>1 DEF ulpVars
    <2> QED
      BY <2>2, <2>3, <2>4 DEF UlpNext
  <1>3. Inv => FlowIsListed
    <2> SUFFICES ASSUME Traced, todo = {}, Unconditional
                 PROVE  LET led == UNION { Led(a, decoded[a]) : a \in DOMAIN decoded }
                        IN  /\ { a \in led : Whole(a) } \subseteq DOMAIN decoded
                            /\ DOMAIN decoded \subseteq led \cup {0}
      BY DEF FlowIsListed, Unconditional
    <2>1. \A x : x \in UNION { Led(a, decoded[a]) : a \in DOMAIN decoded } <=> Leads(x)
      BY DEF Leads
    <2> QED
      BY <2>1 DEF Traced
  <1> QED
    BY <1>1, <1>2, <1>3, PTL DEF UlpSpec

-----------------------------------------------------------------------------
(***************************************************************************)
(* ESP8266: what the loader takes is the image picked, whole or not at     *)
(* all.                                                                    *)
(***************************************************************************)

Items == {Item(0, "BootLoader"), Item(Image0Offset, "Image 0"), Item(Image1Offset, "Image 1")}

Names == {".brom", ".user_rom", ".user_rom_data", ".data_seg", ".code_seg", ".unknown_seg"}

SegmentRecords == [name : Names, offset : Nat, address : Nat, size : Nat, flags : {"bss", "data", "code"}]

TypeOK ==
  /\ file \in Files
  /\ pc \in {"init", "test", "select", "load", "segments", "done"}
  /\ header \in Nat \cup {Null}
  /\ segment \in Nat \cup {Null}
  /\ document \in Seq(SegmentRecords)

\* Between the choice and the dispatch the header is that of the item picked.
PickedHeader ==
  pc = "load" => Len(document) = 1 /\ header = ItemOffset(label) /\ header < file.size

\* In the segment loop the cursor follows the last payload, or the header.
Cursor ==
  pc = "segments" =>
    /\ Len(document) >= 1
    /\ header = HeaderOf(ItemOffset(label))
    /\ segment # Null =>
         /\ segment < file.size
         /\ IF Len(document) = 1 THEN segment = header + Header1Size
            ELSE segment = document[Len(document)].offset + document[Len(document)].size

\* Before the choice nothing is mapped.
Empty == pc \in {"init", "test", "select"} => document = << >>

Inv == TypeOK /\ PickedHeader /\ Cursor /\ Empty /\ ChainOfTheImagePicked

LEMMA PointerFacts ==
  ASSUME TypeOK, NEW p \in Nat
  PROVE  /\ Pointer(p) \in {p, Null}
         /\ Pointer(p) # Null => Pointer(p) < file.size
  BY FileAssumption DEF Pointer, TypeOK, Null

\* Every item offered lies in the file.
LEMMA FoundItems ==
  ASSUME TypeOK PROVE Found \in Seq({ item \in Items : item.offset < file.size })
  <1> DEFINE Here == { item \in Items : item.offset < file.size }
  <1>1. ASSUME NEW offset \in Nat, IsImage(offset) PROVE offset < file.size
    BY <1>1, PointerFacts DEF IsImage, Null, Pointer
  <1> DEFINE A == IF IsImage(0) THEN <<Item(0, "BootLoader")>> ELSE << >>
             B == IF IsImage(Image0Offset) THEN <<Item(Image0Offset, "Image 0")>> ELSE << >>
             C == IF IsImage(Image1Offset) THEN <<Item(Image1Offset, "Image 1")>> ELSE << >>
  <1>2. /\ IsImage(0) => Item(0, "BootLoader") \in Here
        /\ IsImage(Image0Offset) => Item(Image0Offset, "Image 0") \in Here
        /\ IsImage(Image1Offset) => Item(Image1Offset, "Image 1") \in Here
    BY <1>1, OffsetAssumption DEF Items, Item
  <1> HIDE DEF Here
  <1>3. A \in Seq(Here) /\ B \in Seq(Here) /\ C \in Seq(Here)
    <2>1. << >> \in Seq(Here) /\ \A x \in Here : <<x>> \in Seq(Here)
      OBVIOUS
    <2> QED
      BY <1>2, <2>1, Zenon
  <1>4. Found = A \o B \o C
    BY DEF Found
  <1> HIDE DEF A, B, C
  <1>5. Found \in Seq(Here)
    BY <1>3, <1>4, ConcatProperties
  <1> QED
    BY <1>5 DEF Here

LEMMA ItemNamed ==
  ASSUME NEW item \in Items
  PROVE  item.offset = ItemOffset(item.name) /\ item.offset \in Nat
  <1>1. /\ ItemOffset("BootLoader") = 0
        /\ ItemOffset("Image 0") = Image0Offset
        /\ ItemOffset("Image 1") = Image1Offset
    BY Zenon DEF ItemOffset
  <1>2. CASE item = Item(0, "BootLoader")
    BY <1>1, <1>2 DEF Item
  <1>3. CASE item = Item(Image0Offset, "Image 0")
    BY <1>1, <1>3, OffsetAssumption DEF Item
  <1>4. CASE item = Item(Image1Offset, "Image 1")
    BY <1>1, <1>4, OffsetAssumption DEF Item
  <1> QED
    BY <1>2, <1>3, <1>4 DEF Items

LEMMA PickedItem ==
  ASSUME TypeOK, NEW idx \in 1 .. Len(Found)
  PROVE  /\ Picked(Found, idx) = ItemOffset(Found[idx].name)
         /\ Picked(Found, idx) \in Nat
         /\ Picked(Found, idx) < file.size
  <1>1. Found[idx] \in Items /\ Found[idx].offset < file.size
    BY FoundItems, ElementOfSeq
  <1> QED
    BY <1>1, ItemNamed DEF Picked

LEMMA KindType ==
  ASSUME NEW address PROVE Kind(address).name \in Names /\ Kind(address).flags \in {"bss", "data", "code"}
  <1>1. Kind(address) \in { [name |-> ".user_rom", flags |-> "code"], [name |-> ".user_rom_data", flags |-> "data"],
                            [name |-> ".data_seg", flags |-> "data"], [name |-> ".code_seg", flags |-> "code"],
                            [name |-> ".unknown_seg", flags |-> "data"] }
    BY Zenon DEF Kind
  <1> HIDE DEF Kind
  <1> QED
    BY <1>1 DEF Names

LEMMA InitInv == Init => Inv
  BY DEF Init, Inv, TypeOK, PickedHeader, Cursor, Empty, ChainOfTheImagePicked, Null

LEMMA TestInv ==
  ASSUME Inv, Test PROVE Inv'
  BY DEF Inv, Test, TypeOK, PickedHeader, Cursor, Empty, ChainOfTheImagePicked

LEMMA InitImportsInv ==
  ASSUME Inv, InitImports PROVE Inv'
  BY DEF Inv, InitImports, TypeOK, PickedHeader, Cursor, Empty, ChainOfTheImagePicked

LEMMA SelectInv ==
  ASSUME Inv, NEW idx \in 1 .. 3, Select(idx) PROVE Inv'
  <1>1. header' = ItemOffset(label') /\ header' \in Nat /\ header' < file.size
    BY PickedItem DEF Select, Inv
  <1>2. Brom \in SegmentRecords
    <2>1. Rom \in Nat /\ RomSize \in Nat /\ 0 \in Nat
      BY SMT DEF Rom, RomSize
    <2> QED
      BY <2>1 DEF Brom, SegmentRecords, Names
  <1>3. document' \in Seq(SegmentRecords) /\ Len(document') = 1
    BY <1>2 DEF Select
  <1>4. pc' = "load" /\ file' = file /\ segment' = segment
    BY DEF Select
  <1>5. TypeOK'
    BY <1>1, <1>3, <1>4 DEF Inv, TypeOK
  <1> QED
    BY <1>1, <1>3, <1>4, <1>5 DEF PickedHeader, Cursor, Empty, ChainOfTheImagePicked, Inv, ItemOffset

\* A step to the end leaves the segments and the image as they are.
LEMMA StopInv ==
  ASSUME Inv, pc' = "done", UNCHANGED <<file, label, header, segment, document>>,
         pc = "segments" \/ Len(document) <= 1
  PROVE  Inv'
  <1>1. TypeOK'
    BY DEF Inv, TypeOK
  <1>2. ItemOffset(label)' = ItemOffset(label)
    BY DEF ItemOffset
  <1>3. \A x : HeaderOf(x)' = HeaderOf(x)
    BY DEF HeaderOf
  <1>4. ChainOfTheImagePicked'
    BY <1>2, <1>3 DEF Inv, ChainOfTheImagePicked
  <1> QED
    BY <1>1, <1>4 DEF Inv, PickedHeader, Cursor, Empty

LEMMA CancelInv ==
  ASSUME Inv, Cancel PROVE Inv'
  BY StopInv DEF Inv, Empty, Cancel

LEMMA EndInv ==
  ASSUME Inv, EndSegments PROVE Inv'
  BY StopInv DEF EndSegments

\* The header handed to the segment loop is that of the image.
LEMMA ReadChainInv ==
  ASSUME Inv, NEW h \in Nat, h = HeaderOf(ItemOffset(label)), ReadChain(h), pc = "load",
         UNCHANGED <<file, label, document>>
  PROVE  Inv'
  <1>1. Header1Size \in Nat /\ h + Header1Size \in Nat
    BY DEF Header1Size
  <1>2. /\ segment' \in {h + Header1Size, Null}
        /\ segment' # Null => segment' < file.size
    BY <1>1, PointerFacts DEF Inv, ReadChain
  <1>3. /\ header' = h /\ pc' = "segments" /\ Len(document) = 1
        /\ file' = file /\ label' = label /\ document' = document
    BY DEF ReadChain, Inv, PickedHeader
  <1>4. TypeOK'
    BY <1>1, <1>2, <1>3 DEF Inv, TypeOK
  <1>5. HeaderOf(ItemOffset(label))' = HeaderOf(ItemOffset(label))
    BY DEF HeaderOf, ItemOffset
  <1> QED
    BY <1>2, <1>3, <1>4, <1>5 DEF Inv, PickedHeader, Cursor, Empty, ChainOfTheImagePicked

LEMMA LoadInv ==
  ASSUME Inv, Load PROVE Inv'
  <1> DEFINE inner == InnerHeader(header)
  <1>1. /\ pc = "load" /\ Len(document) = 1 /\ header = ItemOffset(label) /\ header < file.size
        /\ UNCHANGED <<file, label, document>>
    BY Zenon DEF Inv, Load, PickedHeader
  <1>2. header \in Nat
    BY <1>1, OffsetAssumption DEF ItemOffset
  <1>3. CASE file.header[header].magic = "image1" /\ ReadChain(header)
    <2>1. header = HeaderOf(ItemOffset(label))
      BY <1>1, <1>3 DEF HeaderOf
    <2> QED
      BY <1>1, <1>2, <1>3, <2>1, ReadChainInv, Zenon
  <1>4. CASE file.header[header].magic = "image2" /\ inner # Null /\ ReadChain(inner)
    <2>1. inner = HeaderOf(ItemOffset(label))
      BY <1>1, <1>4 DEF HeaderOf, InnerHeader, Pointer
    <2>2. file.header[header].size \in Nat
      BY <1>1, <1>2, FileAssumption DEF Inv, TypeOK
    <2>3. inner \in Nat
      BY <1>2, <1>4, <2>2 DEF InnerHeader, Pointer, Header2Size
    <2> QED
      BY <1>1, <1>4, <2>1, <2>3, ReadChainInv
  <1>5. CASE Fail
    BY <1>1, <1>5, StopInv DEF Fail
  <1> QED
    BY <1>3, <1>4, <1>5 DEF Load

LEMMA MapSegmentInv ==
  ASSUME Inv, MapSegment PROVE Inv'
  <1> DEFINE head == file.head[segment]
             kind == Kind(head.address)
             mapped == [name |-> kind.name, offset |-> segment + HeadSize,
                        address |-> head.address, size |-> head.size, flags |-> kind.flags]
             n == Len(document)
  <1>1. /\ pc = "segments" /\ segment \in Nat /\ segment < file.size /\ n \in Nat /\ n >= 1
        /\ header = HeaderOf(ItemOffset(label))
        /\ IF n = 1 THEN segment = header + Header1Size
           ELSE segment = document[n].offset + document[n].size
        /\ document \in Seq(SegmentRecords) /\ header \in Nat \cup {Null}
    BY DEF Inv, TypeOK, Cursor, MapSegment, More
  <1>2. head.address \in Nat /\ head.size \in Nat
    <2>1. file \in Files
      BY DEF Inv, TypeOK
    <2>2. file.size \in Nat /\ file.head \in [0 .. file.size - 1 -> [address : Nat, size : Nat]]
      BY <2>1, FileAssumption
    <2>3. segment \in 0 .. file.size - 1
      BY <1>1, <2>2
    <2> QED
      BY <2>2, <2>3
  <1>3. kind.name \in Names /\ kind.flags \in {"bss", "data", "code"}
    BY KindType
  <1>4. mapped \in SegmentRecords /\ mapped.offset = segment + HeadSize /\ mapped.size = head.size
    BY <1>1, <1>2, <1>3 DEF SegmentRecords, HeadSize
  <1>5. /\ document' = Append(document, mapped)
        /\ segment' = Pointer(segment + HeadSize + head.size)
        /\ UNCHANGED <<file, pc, label, header>>
    BY DEF MapSegment, NextHead
  <1> HIDE DEF mapped, kind, head
  <1>6. /\ document' \in Seq(SegmentRecords) /\ Len(document') = n + 1
        /\ \A i \in 1 .. n : document'[i] = document[i]
        /\ document'[n + 1] = mapped
    BY <1>1, <1>4, <1>5, AppendProperties
  <1>7. segment + HeadSize + head.size \in Nat
    BY <1>1, <1>2 DEF HeadSize
  <1>8. /\ segment' \in {segment + HeadSize + head.size, Null}
        /\ segment' # Null => segment' < file.size
    BY <1>5, <1>7, PointerFacts DEF Inv
  <1>9. HeaderOf(ItemOffset(label))' = HeaderOf(ItemOffset(label))
    BY <1>5 DEF HeaderOf, ItemOffset
  <1>10. TypeOK'
    BY <1>5, <1>6, <1>7, <1>8 DEF Inv, TypeOK
  <1>11. Cursor'
    BY <1>1, <1>4, <1>5, <1>6, <1>8, <1>9 DEF Cursor
  <1>12. ChainOfTheImagePicked'
    <2>1. n = 1 => document'[2].offset = header + Header1Size + HeadSize
      BY <1>1, <1>4, <1>6 DEF HeadSize, Header1Size
    <2>2. n > 1 => /\ document'[n + 1].offset = document[n].offset + document[n].size + HeadSize
                   /\ document'[2].offset = header + Header1Size + HeadSize
      BY <1>1, <1>4, <1>6 DEF Inv, ChainOfTheImagePicked
    <2>3. \A k \in 3 .. n : document'[k].offset = document'[k - 1].offset + document'[k - 1].size + HeadSize
      <3> SUFFICES ASSUME NEW k \in 3 .. n
                   PROVE  document'[k].offset = document'[k - 1].offset + document'[k - 1].size + HeadSize
        OBVIOUS
      <3>1. document'[k] = document[k] /\ document'[k - 1] = document[k - 1]
        BY <1>1, <1>6
      <3> QED
        BY <1>1, <3>1 DEF Inv, ChainOfTheImagePicked
    <2>4. \A k \in 2 .. n : document'[k].offset - HeadSize < file.size
      <3> SUFFICES ASSUME NEW k \in 2 .. n PROVE document'[k].offset - HeadSize < file.size
        OBVIOUS
      <3>1. document'[k] = document[k]
        BY <1>1, <1>6
      <3> QED
        BY <1>1, <3>1 DEF Inv, ChainOfTheImagePicked
    <2>5. document'[n + 1].offset - HeadSize < file.size
      BY <1>1, <1>4, <1>6 DEF HeadSize
    <2>6. n > 1 => document'[n] = document[n]
      BY <1>1, <1>6
    <2> QED
      <3>1. header' = HeaderOf(ItemOffset(label))'
        BY <1>1, <1>5, <1>9
      <3>2. document'[2].offset = header' + Header1Size + HeadSize
        <4>1. header' = header
          BY <1>5
        <4>2. n \in Nat /\ n >= 1
          BY <1>1
        <4> HIDE DEF n
        <4>3. n = 1 \/ n > 1
          BY <4>2
        <4> QED
          BY <2>1, <2>2, <4>1, <4>3, Zenon
      <3>3. \A k \in 3 .. n + 1 : document'[k].offset = document'[k - 1].offset + document'[k - 1].size + HeadSize
        BY <1>1, <2>2, <2>3, <2>6
      <3>4. \A k \in 2 .. n + 1 : document'[k].offset - HeadSize < file'.size
        BY <1>1, <1>5, <2>4, <2>5
      <3> QED
        BY <1>6, <3>1, <3>2, <3>3, <3>4, Zenon DEF ChainOfTheImagePicked
  <1> QED
    BY <1>5, <1>10, <1>11, <1>12, <1>1 DEF Inv, PickedHeader, Empty

LEMMA StepInv ==
  ASSUME Inv, [Next]_vars PROVE Inv'
  <1>1. CASE Next
    BY <1>1, InitImportsInv, TestInv, SelectInv, CancelInv, LoadInv, MapSegmentInv, EndInv DEF Next
  <1>2. CASE UNCHANGED vars
    <2>1. UNCHANGED <<file, pc, label, header, segment, document>>
      BY <1>2 DEF vars
    <2>2. HeaderOf(ItemOffset(label))' = HeaderOf(ItemOffset(label)) /\ ItemOffset(label)' = ItemOffset(label)
      BY <2>1 DEF HeaderOf, ItemOffset
    <2>3. TypeOK' /\ PickedHeader' /\ Empty'
      BY <2>1, <2>2 DEF Inv, TypeOK, PickedHeader, Empty
    <2>4. Cursor' /\ ChainOfTheImagePicked'
      BY <2>1, <2>2 DEF Inv, Cursor, ChainOfTheImagePicked
    <2> QED
      BY <2>3, <2>4 DEF Inv
  <1> QED
    BY <1>1, <1>2

\* Whatever the file holds and whichever items it offers, the segments mapped
\* are the chain of the image the user picked.
THEOREM MapsTheImagePicked == Spec => []ChainOfTheImagePicked
  <1>1. Inv /\ [Next]_vars => Inv'
    BY StepInv
  <1>2. Inv => ChainOfTheImagePicked
    BY DEF Inv
  <1> QED
    BY InitInv, <1>1, <1>2, PTL DEF Spec

-----------------------------------------------------------------------------
(* What a load leaves.                                                     *)

\* Nothing of an image is there before the choice.
Untouched ==
  pc \in {"init", "test", "select"} =>
    label = "none" /\ imported = {} /\ entry = Null /\ result = "none"

\* The table of the ROM's functions is filled before the first test.
Filled == m_imports \in {{}, Imports} /\ (pc # "init" => m_imports = Imports)

\* What was picked is an image, of either version.
PickedImage ==
  pc = "load" =>
    /\ label # "none" /\ imported = Imports /\ entry = Null /\ result = "none"
    /\ file.header[header].magic \in {"image1", "image2"}

\* In the segment loop no more is mapped than the header counts, and a lost
\* cursor means that the file is over.
Chained ==
  pc = "segments" =>
    /\ result = "none"
    /\ header \in 0 .. file.size - 1
    /\ Mapped <= file.header[header].segments
    /\ segment = Null =>
         IF Mapped = 0 THEN header + Header1Size >= file.size
         ELSE document[Len(document)].offset + document[Len(document)].size >= file.size

Outcome == Inv /\ Untouched /\ Filled /\ PickedImage /\ Chained /\ CompleteOrNothing

\* Every item offered is the head of an image in the file.
LEMMA FoundImages ==
  ASSUME TypeOK, NEW idx \in 1 .. Len(Found)
  PROVE  /\ Found[idx].name # "none"
         /\ file.header[Picked(Found, idx)].magic \in {"image1", "image2"}
  <1> DEFINE Here == { item \in Items : IsImage(item.offset) }
             A == IF IsImage(0) THEN <<Item(0, "BootLoader")>> ELSE << >>
             B == IF IsImage(Image0Offset) THEN <<Item(Image0Offset, "Image 0")>> ELSE << >>
             C == IF IsImage(Image1Offset) THEN <<Item(Image1Offset, "Image 1")>> ELSE << >>
  <1>1. /\ IsImage(0) => Item(0, "BootLoader") \in Here
        /\ IsImage(Image0Offset) => Item(Image0Offset, "Image 0") \in Here
        /\ IsImage(Image1Offset) => Item(Image1Offset, "Image 1") \in Here
    BY DEF Items, Item
  <1>2. \A item \in Here : item.name # "none" /\ IsImage(item.offset)
    <2>1. ASSUME NEW item \in Items PROVE item.name # "none"
      <3>1. \A offset, name : Item(offset, name).name = name
        BY DEF Item
      <3>2. item.name \in {"BootLoader", "Image 0", "Image 1"}
        BY <3>1, Zenon DEF Items
      <3> QED
        BY <3>2
    <2>2. \A item \in Here : item \in Items /\ IsImage(item.offset)
      BY Zenon
    <2> QED
      BY <2>1, <2>2
  <1> HIDE DEF Here
  <1>3. A \in Seq(Here) /\ B \in Seq(Here) /\ C \in Seq(Here)
    <2>1. << >> \in Seq(Here) /\ \A x \in Here : <<x>> \in Seq(Here)
      OBVIOUS
    <2> QED
      BY <1>1, <2>1, Zenon
  <1>4. Found = A \o B \o C
    BY DEF Found
  <1> HIDE DEF A, B, C
  <1>5. Found \in Seq(Here)
    BY <1>3, <1>4, ConcatProperties
  <1>6. Found[idx] \in Here
    BY <1>5, ElementOfSeq
  <1> QED
    BY <1>2, <1>6 DEF Picked, IsImage

LEMMA KindFlags ==
  ASSUME NEW address \in Nat
  PROVE  Kind(address).flags = "code" <=> address >= Iram
  <1>1. Iram \in Nat /\ RomData < Rom /\ Rom < Iram /\ RomData \in Nat /\ Rom \in Nat
    BY DEF Iram, RomData, Rom
  <1>2. CASE address = Iram
    <2>1. Kind(address) = [name |-> ".user_rom", flags |-> "code"]
      <3>1. address # RomData /\ ~(address < Rom) /\ ~(address > Iram)
        BY <1>1, <1>2
      <3> QED
        BY <1>2, <3>1, Zenon DEF Kind
    <2> QED
      BY <1>1, <1>2, <2>1
  <1>3. CASE address = RomData
    <2>1. Kind(address) = [name |-> ".user_rom_data", flags |-> "data"]
      <3>1. address # Iram /\ ~(address > Iram)
        BY <1>1, <1>3
      <3> QED
        BY <1>3, <3>1, Zenon DEF Kind
    <2> QED
      BY <1>1, <1>3, <2>1
  <1>4. CASE address < Rom /\ address # RomData
    <2>1. Kind(address) = [name |-> ".data_seg", flags |-> "data"]
      <3>1. address # Iram /\ ~(address > Iram)
        BY <1>1, <1>4
      <3> QED
        BY <1>4, <3>1, Zenon DEF Kind
    <2> QED
      BY <1>1, <1>4, <2>1
  <1>5. CASE address > Iram
    <2>1. Kind(address) = [name |-> ".code_seg", flags |-> "code"]
      <3>1. address # Iram /\ address # RomData /\ ~(address < Rom)
        BY <1>1, <1>5
      <3> QED
        BY <1>5, <3>1, Zenon DEF Kind
    <2> QED
      BY <1>1, <1>5, <2>1
  <1>6. CASE address >= Rom /\ address < Iram
    <2>1. Kind(address) = [name |-> ".unknown_seg", flags |-> "data"]
      <3>1. address # Iram /\ address # RomData /\ ~(address < Rom) /\ ~(address > Iram)
        BY <1>1, <1>6
      <3> QED
        BY <3>1, Zenon DEF Kind
    <2> QED
      BY <1>1, <1>6, <2>1
  <1> QED
    BY <1>1, <1>2, <1>3, <1>4, <1>5, <1>6

LEMMA OutcomeInit == Init => Outcome
  BY InitInv DEF Init, Outcome, Untouched, Filled, PickedImage, Chained, CompleteOrNothing, CompleteOrCut,
     FailureLeavesNoImage, CodeInInstructionMemory

LEMMA SelectOutcome ==
  ASSUME Outcome, NEW idx \in 1 .. 3, Select(idx) PROVE Outcome'
  <1>1. Inv'
    BY SelectInv DEF Outcome
  <1>2. /\ label' = Found[idx].name /\ header' = Picked(Found, idx) /\ idx \in 1 .. Len(Found)
        /\ pc' = "load" /\ file' = file /\ imported' = Imports /\ entry' = Null /\ result' = "none"
        /\ m_imports' = m_imports /\ m_imports = Imports /\ Len(document') = 1
    BY DEF Select, Outcome, Untouched, Filled
  <1>3. label' # "none" /\ file.header[header'].magic \in {"image1", "image2"}
    BY <1>2, FoundImages DEF Outcome, Inv
  <1>4. CompleteOrNothing'
    BY <1>2 DEF CompleteOrNothing, CompleteOrCut, FailureLeavesNoImage, CodeInInstructionMemory
  <1> QED
    BY <1>1, <1>2, <1>3, <1>4 DEF Outcome, Untouched, Filled, PickedImage, Chained

\* The loop is entered at the image's header, with nothing mapped.
LEMMA ReadChainOutcome ==
  ASSUME Outcome, pc = "load", NEW h \in 0 .. file.size - 1, ReadChain(h), Inv',
         UNCHANGED <<file, label, document, m_imports, imported, entry>>
  PROVE  Outcome'
  <1>1. /\ Len(document) = 1 /\ result = "none" /\ entry = Null
        /\ header' = h /\ segment' = Pointer(h + Header1Size) /\ pc' = "segments" /\ result' = "none"
    BY DEF Outcome, Inv, PickedHeader, PickedImage, ReadChain
  <1>2. file.size \in Nat /\ file.header[h].segments \in Nat
    BY FileAssumption DEF Outcome, Inv, TypeOK
  <1>3. segment' = Null => h + Header1Size >= file.size
    BY <1>1, <1>2 DEF Pointer, Null, Header1Size
  <1>4. Mapped' = 0
    BY <1>1 DEF Mapped
  <1>5. Chained'
    BY <1>1, <1>2, <1>3, <1>4 DEF Chained
  <1>6. CompleteOrNothing'
    BY <1>1 DEF CompleteOrNothing, CompleteOrCut, FailureLeavesNoImage, CodeInInstructionMemory
  <1> QED
    BY <1>1, <1>5, <1>6 DEF Outcome, Untouched, Filled, PickedImage

LEMMA LoadOutcome ==
  ASSUME Outcome, Load PROVE Outcome'
  <1> DEFINE inner == InnerHeader(header)
             magic == file.header[header].magic
             good == inner # Null /\ file.header[inner].magic = "image1"
  <1>1. Inv' /\ pc = "load" /\ UNCHANGED <<file, label, document, m_imports, imported, entry>>
    BY LoadInv DEF Outcome, Load
  <1>2. /\ Len(document) = 1 /\ header = ItemOffset(label) /\ header < file.size
        /\ label # "none" /\ imported = Imports /\ entry = Null /\ magic \in {"image1", "image2"}
    BY <1>1 DEF Outcome, Inv, PickedHeader, PickedImage
  <1>3. file.size \in Nat /\ header \in 0 .. file.size - 1
    <2>1. file.size \in Nat
      BY FileAssumption DEF Outcome, Inv, TypeOK
    <2>2. ItemOffset(label) \in {0, Image0Offset, Image1Offset}
      BY Zenon DEF ItemOffset
    <2>3. header \in Nat
      BY <1>2, <2>2, OffsetAssumption
    <2> QED
      BY <1>2, <2>1, <2>3
  <1>4. file.header[header].size \in Nat
    BY <1>3, FileAssumption DEF Outcome, Inv, TypeOK
  <1>5. inner # Null => inner \in 0 .. file.size - 1 /\ inner = header + Header2Size + file.header[header].size
    BY <1>3, <1>4 DEF InnerHeader, Pointer, Header2Size
  <1>6. CASE magic = "image1" /\ ReadChain(header)
    BY <1>1, <1>3, <1>6, ReadChainOutcome
  <1>7. CASE magic = "image2" /\ good /\ ReadChain(inner)
    BY <1>1, <1>5, <1>7, ReadChainOutcome
  <1>8. CASE magic # "image1" /\ ~(magic = "image2" /\ good) /\ Fail
    <2>1. result' = "failed" /\ pc' = "done" /\ magic = "image2" /\ ~good
      BY <1>2, <1>8 DEF Fail
    <2>2. HeaderOf(header) = header + Header2Size + file.header[header].size
      BY <2>1 DEF HeaderOf
    <2>3. HeaderOf(header) < file.size => file.header[HeaderOf(header)].magic # "image1"
      <3> SUFFICES ASSUME HeaderOf(header) < file.size PROVE inner = HeaderOf(header) /\ inner # Null
        BY <2>1
      <3> QED
        BY <1>3, <1>4, <2>2 DEF InnerHeader, Pointer, Null, Header2Size
    <2>4. ItemOffset(label') = header /\ HeaderOf(header)' = HeaderOf(header)
      <3>1. ItemOffset(label') = ItemOffset(label)
        BY <1>1, Zenon
      <3>2. HeaderOf(header)' = HeaderOf(header)
        BY <1>1, <1>8 DEF HeaderOf, Fail
      <3> QED
        BY <1>2, <3>1, <3>2
    <2>5. FailureLeavesNoImage'
      <3>1. /\ entry' = Null /\ label' # "none" /\ Len(document') = 1 /\ imported' = Imports /\ file' = file
        BY <1>1, <1>2
      <3>2. file'.header[ItemOffset(label')].magic = "image2"
        BY <2>1, <2>4, <3>1
      <3>3. HeaderOf(ItemOffset(label))' = HeaderOf(header)
        BY <2>4, <3>1, <1>2 DEF HeaderOf
      <3>4. HeaderOf(ItemOffset(label))' < file'.size => file'.header[HeaderOf(ItemOffset(label))'].magic # "image1"
        BY <2>3, <3>1, <3>3
      <3> QED
        BY <3>1, <3>2, <3>4 DEF FailureLeavesNoImage
    <2>6. CompleteOrCut' /\ CodeInInstructionMemory'
      BY <1>1, <1>2, <2>1 DEF CompleteOrCut, CodeInInstructionMemory
    <2> QED
      BY <1>1, <2>1, <2>5, <2>6 DEF Outcome, Untouched, Filled, PickedImage, Chained, CompleteOrNothing
  <1> QED
    BY <1>6, <1>7, <1>8 DEF Load

LEMMA MapSegmentOutcome ==
  ASSUME Outcome, MapSegment PROVE Outcome'
  <1> DEFINE head == file.head[segment]
             mapped == [name |-> Kind(head.address).name, offset |-> segment + HeadSize,
                        address |-> head.address, size |-> head.size, flags |-> Kind(head.address).flags]
             n == Len(document)
  <1>1. /\ Inv' /\ pc = "segments" /\ segment \in Nat /\ segment < file.size /\ n \in Nat /\ n >= 1
        /\ document \in Seq(SegmentRecords)
        /\ result = "none" /\ header \in 0 .. file.size - 1 /\ Mapped < file.header[header].segments
    BY MapSegmentInv DEF Outcome, Inv, TypeOK, Cursor, Chained, MapSegment, More
  <1>2. file.size \in Nat /\ head.address \in Nat /\ head.size \in Nat /\ file.header[header].segments \in Nat
    <2>1. /\ file.size \in Nat /\ file.head \in [0 .. file.size - 1 -> [address : Nat, size : Nat]]
          /\ file.header[header].segments \in Nat
      BY <1>1, FileAssumption DEF Outcome, Inv, TypeOK
    <2>2. segment \in 0 .. file.size - 1
      BY <1>1, <2>1
    <2> QED
      BY <2>1, <2>2
  <1>3. mapped.flags = "code" <=> mapped.address >= Iram
    BY <1>2, KindFlags
  <1>4. mapped \in SegmentRecords
    BY <1>1, <1>2, KindType DEF SegmentRecords, HeadSize
  <1>5. mapped.offset = segment + HeadSize /\ mapped.size = head.size
    OBVIOUS
  <1>6. /\ document' = Append(document, mapped)
        /\ segment' = Pointer(segment + HeadSize + head.size)
        /\ UNCHANGED <<file, pc, label, header, m_imports, imported, entry, result>>
    BY DEF MapSegment, NextHead
  <1> HIDE DEF mapped, head
  <1>7. /\ Len(document') = n + 1 /\ document'[n + 1] = mapped
        /\ \A i \in 1 .. n : document'[i] = document[i]
    BY <1>1, <1>4, <1>6, AppendProperties
  <1>8. segment' = Null => segment + HeadSize + head.size >= file.size
    BY <1>1, <1>2, <1>6 DEF Pointer, Null, HeadSize
  <1>9. Chained'
    <2>1. Mapped' = n /\ Mapped = n - 1 /\ Mapped' # 0
      BY <1>1, <1>7 DEF Mapped
    <2>2. Mapped' <= file'.header[header'].segments
      BY <1>1, <1>2, <1>6, <2>1
    <2>3. segment' = Null => document'[Len(document')].offset + document'[Len(document')].size >= file'.size
      BY <1>5, <1>6, <1>7, <1>8
    <2> QED
      BY <1>1, <1>6, <2>1, <2>2, <2>3 DEF Chained
  <1>10. CodeInInstructionMemory'
    <2> SUFFICES ASSUME NEW k \in 2 .. n + 1
                 PROVE  document'[k].flags = "code" <=> document'[k].address >= Iram
      BY <1>7 DEF CodeInInstructionMemory
    <2>1. CASE k = n + 1
      BY <1>3, <1>7, <2>1
    <2>2. CASE k \in 2 .. n
      BY <1>7, <2>2 DEF Outcome, CompleteOrNothing, CodeInInstructionMemory
    <2> QED
      BY <1>1, <2>1, <2>2
  <1>11. CompleteOrNothing'
    BY <1>1, <1>6, <1>10 DEF CompleteOrNothing, CompleteOrCut, FailureLeavesNoImage
  <1> QED
    BY <1>1, <1>6, <1>9, <1>11 DEF Outcome, Untouched, Filled, PickedImage

LEMMA EndOutcome ==
  ASSUME Outcome, EndSegments PROVE Outcome'
  <1>1. /\ Inv' /\ pc = "segments" /\ pc' = "done" /\ result' = "loaded" /\ ~More
        /\ UNCHANGED <<file, label, header, segment, document, m_imports, imported>>
    BY EndInv DEF Outcome, EndSegments
  <1>2. file.header[header].segments \in Nat /\ Mapped \in Int
    BY <1>1, FileAssumption DEF Outcome, Inv, TypeOK, Chained, Mapped
  <1>3. \/ Mapped = file.header[header].segments
        \/ segment = Null /\ Mapped < file.header[header].segments
    BY <1>1, <1>2 DEF More, Outcome, Chained
  <1>4. CompleteOrCut'
    BY <1>1, <1>3 DEF CompleteOrCut, Outcome, Chained, Mapped
  <1>5. FailureLeavesNoImage' /\ CodeInInstructionMemory'
    BY <1>1 DEF Outcome, CompleteOrNothing, FailureLeavesNoImage, CodeInInstructionMemory
  <1> QED
    BY <1>1, <1>4, <1>5 DEF Outcome, Untouched, Filled, PickedImage, Chained, CompleteOrNothing

\* Steps before the load, and none at all, leave what there is.
LEMMA IdleOutcome ==
  ASSUME Outcome, Inv', \/ InitImports \/ Test \/ Cancel \/ UNCHANGED vars PROVE Outcome'
  <1>1. CASE InitImports
    BY <1>1 DEF InitImports, Outcome, Untouched, Filled, PickedImage, Chained, CompleteOrNothing, CompleteOrCut,
       FailureLeavesNoImage, CodeInInstructionMemory
  <1>2. CASE Test
    BY <1>2 DEF Test, Outcome, Untouched, Filled, PickedImage, Chained, CompleteOrNothing, CompleteOrCut,
       FailureLeavesNoImage, CodeInInstructionMemory
  <1>3. CASE Cancel
    <2>1. document = << >>
      BY <1>3 DEF Cancel, Outcome, Inv, Empty
    <2> QED
      BY <1>3, <2>1 DEF Cancel, Outcome, Untouched, Filled, PickedImage, Chained, CompleteOrNothing, CompleteOrCut,
         FailureLeavesNoImage, CodeInInstructionMemory
  <1>4. CASE UNCHANGED vars
    BY <1>4 DEF vars, Outcome, Untouched, Filled, PickedImage, Chained, CompleteOrNothing, CompleteOrCut,
       FailureLeavesNoImage, CodeInInstructionMemory, Mapped, HeaderOf, ItemOffset
  <1> QED
    BY <1>1, <1>2, <1>3, <1>4

\* A load of any file ends with the image picked, complete or up to the end of
\* the file and marked as code where it is, or with nothing of an image
\* (ESPCommon::load, ESP8266::load).
THEOREM LoadsWholeOrNothing == Spec => []CompleteOrNothing
  <1>1. ASSUME Outcome, [Next]_vars PROVE Outcome'
    <2>1. Inv'
      BY <1>1, StepInv DEF Outcome
    <2> QED
      BY <1>1, <2>1, SelectOutcome, LoadOutcome, MapSegmentOutcome, EndOutcome, IdleOutcome DEF Next
  <1>2. Outcome => CompleteOrNothing
    BY DEF Outcome
  <1> QED
    BY OutcomeInit, <1>1, <1>2, PTL DEF Spec
==============================================================================
