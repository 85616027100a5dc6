-------------------------- MODULE DexLoader_proofs --------------------------
(***************************************************************************)
(* Proofs about DexLoader: what the shared caches hold, for any number of  *)
(* contexts and any files; and about DalvikCode: what the assembler tells  *)
(* the host of any method, and lists of it.                                *)
(***************************************************************************)
EXTENDS DexLoader, DalvikCode, FiniteSetTheorems, SequenceTheorems, OrderLemmas, TLAPS

-----------------------------------------------------------------------------
(* Keys.  No two indexes of a file share one.                              *)

LEMMA KeyIsIndex == \A i \in 0 .. KeyRange - 1 : Key(i) = i
<1>. TAKE i \in 0 .. KeyRange - 1
<1>1. KeyRange \in Nat /\ KeyRange > 0
  BY NoFileAssumption
<1>. QED
  BY <1>1 DEF Key

\* An index of a file's table is its own key.
LEMMA IndexKey ==
  ASSUME NEW f \in Files, NEW kind \in Kinds, NEW i \in DOMAIN f.names[kind]
  PROVE  Key(i) = i /\ i \in 0 .. KeyRange - 1
<1>1. i \in 0 .. KeyRange - 1
  BY IndexAssumption DEF Kinds
<1>. QED
  BY <1>1, KeyIsIndex

-----------------------------------------------------------------------------
(* The dialog's list.                                                      *)

Described(f, n) == { q \in 1 .. n : f.classes[q].descriptor }

Place(f, p) == Cardinality(Described(f, p))

Push(f, list, n) ==
  IF f.classes[n].descriptor THEN Append(list, f.classes[n]) ELSE list

LEMMA DescribedFinite ==
  ASSUME NEW f, NEW n \in Nat
  PROVE  IsFiniteSet(Described(f, n)) /\ Place(f, n) \in Nat
<1>1. IsFiniteSet(1 .. n)
  BY FS_Interval
<1>2. Described(f, n) \subseteq 1 .. n
  BY DEF Described
<1>. QED
  BY <1>1, <1>2, FS_Subset, FS_CardinalityType DEF Place

LEMMA PlaceNext ==
  ASSUME NEW f, NEW n \in Nat
  PROVE  Place(f, n + 1) = IF f.classes[n + 1].descriptor THEN Place(f, n) + 1 ELSE Place(f, n)
<1>1. CASE f.classes[n + 1].descriptor
  <2>1. Described(f, n + 1) = Described(f, n) \cup {n + 1} /\ n + 1 \notin Described(f, n)
    BY <1>1 DEF Described
  <2>. QED
    BY <1>1, <2>1, DescribedFinite, FS_AddElement DEF Place
<1>2. CASE ~f.classes[n + 1].descriptor
  <2>1. Described(f, n + 1) = Described(f, n)
    BY <1>2 DEF Described
  <2>. QED
    BY <1>2, <2>1 DEF Place
<1>. QED
  BY <1>1, <1>2

\* The loop that pushes the classes back, turn by turn.
LEMMA ListedLoop ==
  ASSUME NEW f \in Files
  PROVE  \E g \in [0 .. Len(f.classes) -> Seq({ f.classes[p] : p \in DOMAIN f.classes })] :
           /\ g[0] = << >>
           /\ \A n \in 1 .. Len(f.classes) : g[n] = Push(f, g[n - 1], n)
           /\ Listed(f) = g[Len(f.classes)]
<1>. DEFINE m == Len(f.classes)
            C == { f.classes[p] : p \in DOMAIN f.classes }
            V == Seq(C)
            step == [ x \in V \X (1 .. m) |-> Push(f, x[1], x[2]) ]
            Made(g) == g = [ n \in 0 .. m |-> IF n = 0 THEN << >>
                               ELSE IF f.classes[n].descriptor THEN Append(g[n - 1], f.classes[n])
                               ELSE g[n - 1] ]
<1>1. m \in Nat /\ DOMAIN f.classes = 1 .. m
  BY ClassesAssumption
<1>a. \A n \in 1 .. m : f.classes[n] \in C
  BY <1>1
<1>b. \A x \in V, n \in 1 .. m : Push(f, x, n) \in V
  <2>1. ASSUME NEW x \in V, NEW n \in 1 .. m PROVE Push(f, x, n) \in V
    <3>. HIDE DEF C, m
    <3>1. Append(x, f.classes[n]) \in V
      BY <1>a
    <3>. QED
      BY <3>1 DEF Push
  <2>. QED
    BY <2>1
<1>3. << >> \in V
  OBVIOUS
<1>. HIDE DEF C, V, m
<1>2. step \in [V \X (1 .. m) -> V]
  BY <1>b
<1>c. ASSUME NEW x \in V, NEW n \in 1 .. m
      PROVE  step[<<x, n>>] = IF f.classes[n].descriptor THEN Append(x, f.classes[n]) ELSE x
  <2>1. <<x, n>> \in V \X (1 .. m) /\ <<x, n>>[1] = x /\ <<x, n>>[2] = n
    OBVIOUS
  <2>. QED
    BY <2>1 DEF Push
<1>. HIDE DEF step
<1>4. \A g \in [0 .. m -> V] : Loop(g, m, << >>, step) <=> Made(g)
  <2>1. ASSUME NEW g \in [0 .. m -> V], NEW n \in 0 .. m, n # 0
        PROVE  step[<<g[n - 1], n>>] = IF f.classes[n].descriptor THEN Append(g[n - 1], f.classes[n])
                                       ELSE g[n - 1]
    <3>1. n - 1 \in 0 .. m /\ n \in 1 .. m
      BY <1>1, <2>1
    <3>2. g[n - 1] \in V
      BY <3>1
    <3>. QED
      BY <1>c, <3>1, <3>2
  <2>2. ASSUME NEW g \in [0 .. m -> V]
        PROVE  [ n \in 0 .. m |-> IF n = 0 THEN << >> ELSE step[<<g[n - 1], n>>] ]
             = [ n \in 0 .. m |-> IF n = 0 THEN << >>
                               ELSE IF f.classes[n].descriptor THEN Append(g[n - 1], f.classes[n])
                               ELSE g[n - 1] ]
    BY <2>1
  <2>. QED
    BY <2>2 DEF Loop
<1>6. PICK h \in [0 .. m -> V] : Loop(h, m, << >>, step)
  BY <1>1, <1>2, <1>3, LoopExists
<1>5. Made(h)
  BY <1>4, <1>6
<1>. DEFINE g == CHOOSE x : Made(x)
<1>7. Made(g) /\ Listed(f) = g[m]
  BY <1>5, Zenon DEF Listed, m
<1>8. \A n \in 0 .. m : g[n] = IF n = 0 THEN << >> ELSE Push(f, g[n - 1], n)
  <2>. HIDE DEF g
  <2>. QED
    BY <1>7 DEF Push
<1>9. g \in [0 .. m -> V]
  <2>. DEFINE S == { n \in Nat : n <= m => g[n] \in V }
  <2>1. 0 \in S
    <3>. HIDE DEF g
    <3>1. 0 \in 0 .. m
      BY <1>1
    <3>2. g[0] = << >>
      BY <1>8, <3>1
    <3>. QED
      BY <1>3, <3>2
  <2>2. \A n \in Nat : n \in S => n + 1 \in S
    <3>1. ASSUME NEW n \in Nat, n \in S, n + 1 <= m PROVE g[n + 1] \in V
      <4>1. n + 1 \in 1 .. m /\ n + 1 \in 0 .. m /\ n + 1 # 0 /\ (n + 1) - 1 = n /\ g[n] \in V
        BY <1>1, <3>1
      <4>2. g[n + 1] = Push(f, g[n], n + 1)
        <5>. HIDE DEF g
        <5>. QED
          BY <1>8, <4>1
      <4>. HIDE DEF g
      <4>. QED
        BY <1>b, <4>1, <4>2
    <3>. HIDE DEF g, V, m
    <3>. QED
      BY <3>1
  <2>3. Nat \subseteq S
    <3>. HIDE DEF S
    <3>. QED
      BY <2>1, <2>2, SetInduction
  <2>4. \A n \in 0 .. m : g[n] \in V
    BY <1>1, <2>3
  <2>5. g = [ n \in 0 .. m |-> g[n] ]
    <3>. HIDE DEF g
    <3>. QED
      BY <1>7
  <2>. HIDE DEF g
  <2>. QED
    BY <2>4, <2>5
<1>. HIDE DEF g
<1>. QED
  <2>1. g[0] = << >>
    BY <1>1, <1>8
  <2>2. \A n \in 1 .. m : g[n] = Push(f, g[n - 1], n)
    BY <1>1, <1>8
  <2>3. Listed(f) = g[m]
    BY <1>7
  <2>. QED
    BY <1>9, <2>1, <2>2, <2>3 DEF m, V, C

\* A class with a descriptor stands in the list where the count of such
\* classes up to it says, and nothing else stands in the list.
LEMMA ListedPlaces ==
  ASSUME NEW f \in Files
  PROVE  /\ \A p \in DOMAIN f.classes : f.classes[p].descriptor =>
              Place(f, p) \in DOMAIN Listed(f) /\ Listed(f)[Place(f, p)] = f.classes[p]
         /\ \A i \in DOMAIN Listed(f) : \E p \in DOMAIN f.classes : Listed(f)[i] = f.classes[p]
<1>. DEFINE m == Len(f.classes)
            C == { f.classes[p] : p \in DOMAIN f.classes }
<1>1. m \in Nat /\ DOMAIN f.classes = 1 .. m
  BY ClassesAssumption
<1>2. PICK g \in [0 .. m -> Seq(C)] :
        /\ g[0] = << >>
        /\ \A n \in 1 .. m : g[n] = Push(f, g[n - 1], n)
        /\ Listed(f) = g[m]
  BY ListedLoop
<1>. HIDE DEF C, m
<1>. DEFINE Right(n) ==
       /\ Len(g[n]) = Place(f, n)
       /\ \A p \in 1 .. n : f.classes[p].descriptor =>
            Place(f, p) \in 1 .. Len(g[n]) /\ g[n][Place(f, p)] = f.classes[p]
     S == { n \in Nat : n <= m => Right(n) }
<1>3. 0 \in S
  <2>1. Described(f, 0) = {}
    BY DEF Described
  <2>2. Place(f, 0) = 0
    BY <2>1, FS_EmptySet DEF Place
  <2>. QED
    BY <1>2, <2>2
<1>4. ASSUME NEW n \in Nat, Right(n), n + 1 <= m PROVE Right(n + 1)
  <2>1. n \in 0 .. m /\ n + 1 \in 1 .. m /\ n + 1 \in 0 .. m /\ (n + 1) - 1 = n
    BY <1>1, <1>4
  <2>2. g[n + 1] = Push(f, g[n], n + 1) /\ g[n] \in Seq(C)
    BY <1>2, <2>1
  <2>3. f.classes[n + 1] \in C
    BY <1>1, <2>1 DEF C
  <2>4. CASE f.classes[n + 1].descriptor
    <3>1. g[n + 1] = Append(g[n], f.classes[n + 1])
      BY <2>2, <2>4 DEF Push
    <3>2. /\ Len(g[n + 1]) = Len(g[n]) + 1 /\ Len(g[n]) \in Nat
          /\ g[n + 1][Len(g[n]) + 1] = f.classes[n + 1]
          /\ \A i \in 1 .. Len(g[n]) : g[n + 1][i] = g[n][i]
      BY <2>2, <2>3, <3>1
    <3>3. Place(f, n + 1) = Len(g[n]) + 1
      BY <1>4, <2>4, PlaceNext
    <3>4. ASSUME NEW p \in 1 .. n + 1, f.classes[p].descriptor
          PROVE  Place(f, p) \in 1 .. Len(g[n + 1]) /\ g[n + 1][Place(f, p)] = f.classes[p]
      <4>1. CASE p = n + 1
        BY <3>2, <3>3, <4>1
      <4>2. CASE p # n + 1
        <5>1. Place(f, p) \in 1 .. Len(g[n]) /\ g[n][Place(f, p)] = f.classes[p]
          BY <1>4, <3>4, <4>2
        <5>. QED
          BY <3>2, <5>1
      <4>. QED
        BY <4>1, <4>2
    <3>. QED
      BY <3>2, <3>3, <3>4
  <2>5. CASE ~f.classes[n + 1].descriptor
    <3>1. g[n + 1] = g[n]
      BY <2>2, <2>5 DEF Push
    <3>2. Place(f, n + 1) = Place(f, n)
      BY <2>5, PlaceNext
    <3>3. \A p \in 1 .. n + 1 : f.classes[p].descriptor => p \in 1 .. n
      BY <2>5
    <3>. QED
      BY <1>4, <3>1, <3>2, <3>3
  <2>. QED
    BY <2>4, <2>5
<1>5. Nat \subseteq S
  <2>1. \A n \in Nat : n \in S => n + 1 \in S
    <3>. HIDE DEF Right
    <3>1. ASSUME NEW n \in Nat, n \in S, n + 1 <= m PROVE Right(n + 1)
      <4>1. n <= m
        BY <1>1, <3>1
      <4>. QED
        BY <1>4, <3>1, <4>1
    <3>. QED
      BY <3>1
  <2>. HIDE DEF S
  <2>. QED
    BY <1>3, <2>1, SetInduction
<1>6. Right(m)
  BY <1>1, <1>5
<1>7. Listed(f) \in Seq(C) /\ DOMAIN Listed(f) = 1 .. Len(Listed(f))
  BY <1>1, <1>2
<1>8. \A i \in DOMAIN Listed(f) : \E p \in DOMAIN f.classes : Listed(f)[i] = f.classes[p]
  BY <1>7 DEF C
<1>. QED
  BY <1>1, <1>2, <1>6, <1>7, <1>8

-----------------------------------------------------------------------------
(* Type correctness.                                                       *)

LEMMA TypeInit == Init => TypeOK
<1>. SUFFICES ASSUME Init PROVE TypeOK
  OBVIOUS
<1>1. opened = { file[c] : c \in Contexts } \ {NoFile}
  BY DEF Init
<1>2. \A k \in Kinds : DOMAIN cache[k] = {}
  BY DEF Init, EmptyMap
<1>. QED
  BY <1>1, <1>2 DEF Init, TypeOK

LEMMA TypeStep == TypeOK /\ [Next]_vars => TypeOK'
<1>. SUFFICES ASSUME TypeOK, [Next]_vars PROVE TypeOK'
  OBVIOUS
<1>. USE DEF TypeOK, cacheVars
<1>1. ASSUME NEW c \in Contexts, NEW f \in Files, Load(c, f) PROVE TypeOK'
  <2>1. file' = [file EXCEPT ![c] = f] /\ file[c] = NoFile /\ f # NoFile
    BY <1>1, NoFileAssumption DEF Load
  <2>2. opened' = { file'[d] : d \in Contexts } \ {NoFile}
    <3>1. opened' = opened \cup {f} /\ opened = { file[d] : d \in Contexts } \ {NoFile}
      BY <1>1 DEF Load
    <3>2. \A d \in Contexts : file'[d] = IF d = c THEN f ELSE file[d]
      BY <2>1
    <3>3. ASSUME NEW g, g \in opened' PROVE g \in { file'[d] : d \in Contexts } \ {NoFile}
      <4>1. CASE g = f
        BY <2>1, <3>2, <4>1
      <4>2. CASE g # f
        <5>1. PICK d \in Contexts : g = file[d] /\ g # NoFile
          BY <3>1, <3>3, <4>2
        <5>2. d # c
          BY <2>1, <5>1
        <5>. QED
          BY <3>2, <5>1, <5>2
      <4>. QED
        BY <4>1, <4>2
    <3>4. ASSUME NEW g, g \in { file'[d] : d \in Contexts } \ {NoFile} PROVE g \in opened'
      BY <3>1, <3>2, <3>4
    <3>. QED
      BY <3>3, <3>4
  <2>3. \A d \in Contexts : file'[d] # NoFile => checked'[d] \subseteq DOMAIN Listed(file'[d])
    <3>1. Prechecked(f) \subseteq DOMAIN Listed(f)
      BY DEF Prechecked
    <3>2. /\ \A d \in Contexts : file'[d] = IF d = c THEN f ELSE file[d]
          /\ \A d \in Contexts : d # c => checked'[d] = checked[d]
      BY <1>1, <2>1 DEF Load
    <3>3. file'[c] = f /\ (c \in DOMAIN checked => checked'[c] = Prechecked(f))
      BY <1>1, <2>1 DEF Load
    <3>. QED
      BY <3>1, <3>2, <3>3
  <2>. QED
    BY <1>1, <2>1, <2>2, <2>3 DEF Load
<1>2. ASSUME NEW c \in Contexts, file[c] # NoFile, NEW i \in DOMAIN Listed(file[c]), Toggle(c, i)
      PROVE  TypeOK'
  <2>1. \A d \in Contexts : file[d] # NoFile => checked'[d] \subseteq DOMAIN Listed(file[d])
    BY <1>2 DEF Toggle, SymDiff
  <2>. QED
    BY <1>2, <2>1 DEF Toggle
<1>3. ASSUME NEW c \in Contexts, Cancel(c) PROVE TypeOK'
  BY <1>3 DEF Cancel
<1>4. ASSUME NEW c \in Contexts, Confirm(c) PROVE TypeOK'
  BY <1>4 DEF Confirm
<1>5. ASSUME NEW c \in Contexts, Free(c) PROVE TypeOK'
  BY <1>5 DEF Free
<1>6. ASSUME NEW c \in Contexts, NEW kind \in Kinds, NEW i, RenderIndex(c, kind, i) PROVE TypeOK'
  <2>1. DOMAIN cache' = Kinds /\ \A k \in Kinds : DOMAIN cache'[k] \subseteq 0 .. KeyRange - 1
    <3>1. CASE cache' = cache
      BY <3>1
    <3>2. CASE cache' # cache
      <4>1. /\ i \in DOMAIN file[c].names[kind]
            /\ cache' = [cache EXCEPT ![kind] =
                           [ k \in DOMAIN @ \cup {Key(i)} |->
                               IF k = Key(i) THEN file[c].names[kind][i] ELSE @[k] ]]
        BY <1>6, <3>2 DEF RenderIndex
      <4>2. file[c] \in Files
        BY <1>6 DEF RenderIndex
      <4>3. Key(i) \in 0 .. KeyRange - 1
        BY <4>1, <4>2, IndexKey
      <4>. QED
        BY <4>1, <4>3
    <3>. QED
      BY <3>1, <3>2
  <2>. QED
    BY <1>6, <2>1 DEF RenderIndex, contextVars
<1>7. ASSUME NEW c \in Contexts, NEW a, RenderFunction(c, a) PROVE TypeOK'
  BY <1>7 DEF RenderFunction, contextVars
<1>8. CASE UNCHANGED vars
  BY <1>8 DEF vars, contextVars
<1>. QED
  BY <1>1, <1>2, <1>3, <1>4, <1>5, <1>6, <1>7, <1>8 DEF Next, User, Listing

\* The loader's state, the caches' keys among it, keeps its types.
THEOREM TypeCorrect == Spec => []TypeOK
  BY TypeInit, TypeStep, PTL DEF Spec

-----------------------------------------------------------------------------
(* What the caches hold.  NamesOfOpenedFiles speaks of the last answer     *)
(* only; the answer after a hit is as good as what the cache kept.         *)

\* An entry of an index cache is an opened file's entry at that index.
CachesHonest ==
  \A k \in Kinds : \A i \in DOMAIN cache[k] :
    \E f \in opened : i \in DOMAIN f.names[k] /\ cache[k][i] = f.names[k][i]

FunctionsHonest ==
  \A a \in DOMAIN functionCache :
    \E f \in opened : functionCache[a] \in Names!Texts(f, "function", a)

\* An address leads to a method that has its code there.
MethodsHonest ==
  \A c \in Contexts : \A a \in DOMAIN methodAt[c] :
    file[c] # NoFile /\ file[c].signature[methodAt[c][a]] \in Names!Texts(file[c], "function", a)

Honest == CachesHonest /\ FunctionsHonest /\ MethodsHonest /\ NamesOfOpenedFiles

LEMMA IndexText ==
  ASSUME NEW f, NEW k \in Kinds, NEW i \in DOMAIN f.names[k]
  PROVE  f.names[k][i] \in Names!Texts(f, k, i)
  BY DEF Names!Texts, Kinds

LEMMA MissingText ==
  ASSUME NEW f, NEW k \in Kinds, NEW i, i \notin DOMAIN f.names[k]
  PROVE  NoName \in Names!Texts(f, k, i)
  BY DEF Names!Texts, Kinds

\* The text a method is recorded under is the signature of a method of the
\* file with its code at that address.
LEMMA RecordedText ==
  ASSUME NEW f \in Files, NEW map, Records(f, map), NEW a \in DOMAIN map
  PROVE  f.signature[map[a]] \in Names!Texts(f, "function", a)
<1>1. PICK e \in Entries(f) : MethodOf(f, e).code = a /\ MethodOf(f, e).idx = map[a]
  BY DEF Records
<1>2a. PICK i \in DOMAIN Listed(f) : \E j \in DOMAIN Listed(f)[i].methods : e = <<i, j>>
  BY DEF Entries
<1>2. PICK j \in DOMAIN Listed(f)[i].methods : e = <<i, j>>
  BY <1>2a
<1>3. PICK p \in DOMAIN f.classes : Listed(f)[i] = f.classes[p]
  BY ListedPlaces
<1>4. MethodOf(f, e) = f.classes[p].methods[j] /\ j \in DOMAIN f.classes[p].methods
  BY <1>2, <1>3 DEF MethodOf
<1>. QED
  BY <1>1, <1>4 DEF Names!Texts

LEMMA HonestInit == Init => Honest
<1>. SUFFICES ASSUME Init PROVE Honest
  OBVIOUS
<1>1. CachesHonest
  BY DEF Init, CachesHonest, EmptyMap
<1>2. FunctionsHonest
  BY DEF Init, FunctionsHonest, EmptyMap
<1>3. MethodsHonest
  BY DEF Init, MethodsHonest, EmptyMap
<1>4. NamesOfOpenedFiles
  BY DEF Init, NamesOfOpenedFiles
<1>. QED
  BY <1>1, <1>2, <1>3, <1>4 DEF Honest

LEMMA HonestStep == TypeOK /\ Honest /\ [Next]_vars => Honest'
<1>. SUFFICES ASSUME TypeOK, Honest, [Next]_vars PROVE Honest'
  OBVIOUS
<1>. USE DEF Honest, cacheVars
<1>1. ASSUME opened \subseteq opened', UNCHANGED cacheVars, UNCHANGED shown, MethodsHonest'
      PROVE  Honest'
  <2>1. CachesHonest'
    BY <1>1 DEF CachesHonest
  <2>2. FunctionsHonest'
    BY <1>1 DEF FunctionsHonest
  <2>3. NamesOfOpenedFiles'
    BY <1>1 DEF NamesOfOpenedFiles
  <2>. QED
    BY <1>1, <2>1, <2>2, <2>3
<1>2. ASSUME NEW c \in Contexts, NEW f \in Files, Load(c, f) PROVE Honest'
  <2>1. DOMAIN methodAt[c] = {}
    <3>1. file[c] = NoFile
      BY <1>2 DEF Load, TypeOK
    <3>. QED
      BY <3>1 DEF MethodsHonest
  <2>2. MethodsHonest'
    BY <1>2, <2>1 DEF Load, MethodsHonest, TypeOK
  <2>. QED
    BY <1>1, <1>2, <2>2 DEF Load
<1>3. ASSUME NEW c \in Contexts, NEW i, Toggle(c, i) PROVE Honest'
  BY <1>1, <1>3 DEF Toggle, MethodsHonest
<1>4. ASSUME NEW c \in Contexts, Cancel(c) PROVE Honest'
  BY <1>1, <1>4 DEF Cancel, MethodsHonest
<1>5. ASSUME NEW c \in Contexts, Confirm(c) PROVE Honest'
  <2>1. file[c] \in Files /\ file[c] # NoFile
    BY <1>5 DEF Confirm, TypeOK
  <2>2. PICK map \in MethodMaps(file[c]) :
          Records(file[c], map) /\ methodAt' = [methodAt EXCEPT ![c] = map]
    BY <1>5 DEF Confirm
  <2>3. \A a \in DOMAIN map : file[c].signature[map[a]] \in Names!Texts(file[c], "function", a)
    BY <2>1, <2>2, RecordedText
  <2>4. MethodsHonest'
    BY <1>5, <2>1, <2>2, <2>3 DEF Confirm, MethodsHonest
  <2>. QED
    BY <1>1, <1>5, <2>4 DEF Confirm
<1>6. ASSUME NEW c \in Contexts, Free(c) PROVE Honest'
  <2>1. MethodsHonest'
    BY <1>6 DEF Free, MethodsHonest, EmptyMap
  <2>. QED
    BY <1>1, <1>6, <2>1 DEF Free
<1>7. ASSUME NEW c \in Contexts, NEW kind \in Kinds, NEW i, RenderIndex(c, kind, i) PROVE Honest'
  <2>. DEFINE names == file[c].names[kind]
  <2>1. file[c] \in Files /\ file[c] \in opened
    BY <1>7 DEF RenderIndex, TypeOK
  <2>2. UNCHANGED <<opened, methodAt, file, functionCache>>
    BY <1>7 DEF RenderIndex, contextVars
  <2>3. i \in DOMAIN names => Key(i) = i
    BY <2>1, IndexKey
  <2>4. CachesHonest'
    <3>1. CASE cache' = cache
      BY <2>2, <3>1 DEF CachesHonest
    <3>2. CASE cache' # cache
      <4>1. /\ i \in DOMAIN names
            /\ cache' = [cache EXCEPT ![kind] =
                           [ k \in DOMAIN @ \cup {Key(i)} |->
                               IF k = Key(i) THEN names[i] ELSE @[k] ]]
        BY <1>7, <3>2 DEF RenderIndex
      <4>2. ASSUME NEW k \in Kinds, NEW j \in DOMAIN cache'[k]
            PROVE  \E f \in opened : j \in DOMAIN f.names[k] /\ cache'[k][j] = f.names[k][j]
        <5>1. CASE k = kind /\ j = i
          <6>1. cache'[kind] = [ n \in DOMAIN cache[kind] \cup {i} |->
                                   IF n = i THEN names[i] ELSE cache[kind][n] ]
            BY <2>3, <4>1 DEF TypeOK
          <6>2. cache'[k][j] = names[i]
            BY <5>1, <6>1
          <6>. QED
            BY <2>1, <4>1, <5>1, <6>2
        <5>2. CASE k = kind /\ j # i
          <6>1. cache'[kind] = [ n \in DOMAIN cache[kind] \cup {i} |->
                                   IF n = i THEN names[i] ELSE cache[kind][n] ]
            BY <2>3, <4>1 DEF TypeOK
          <6>2. j \in DOMAIN cache[k] /\ cache'[k][j] = cache[k][j]
            BY <4>2, <5>2, <6>1
          <6>. QED
            BY <6>2 DEF CachesHonest
        <5>3. CASE k # kind
          <6>1. cache'[k] = cache[k]
            BY <4>1, <5>3 DEF TypeOK
          <6>. QED
            BY <4>2, <6>1 DEF CachesHonest
        <5>. QED
          BY <5>1, <5>2, <5>3
      <4>. QED
        BY <2>2, <4>2 DEF CachesHonest
    <3>. QED
      BY <3>1, <3>2
  <2>5. NamesOfOpenedFiles'
    <3>1. PICK t : shown' = Answer(c, kind, i, t) /\ \E f \in opened : t \in Names!Texts(f, kind, i)
      <4>1. CASE i \notin DOMAIN names /\ shown' = Answer(c, kind, i, NoName)
        BY <2>1, <4>1, MissingText
      <4>2. CASE i \in DOMAIN names /\ i \in DOMAIN cache[kind]
                 /\ shown' = Answer(c, kind, i, cache[kind][i])
        BY <4>2, IndexText DEF CachesHonest
      <4>3. CASE i \in DOMAIN names /\ shown' = Answer(c, kind, i, names[i])
        BY <2>1, <4>3, IndexText
      <4>. QED
        BY <1>7, <2>3, <4>1, <4>2, <4>3 DEF RenderIndex
    <3>2. shown'.text = t /\ shown'.kind = kind /\ shown'.index = i
      BY <3>1 DEF Answer
    <3>. QED
      BY <2>2, <3>1, <3>2 DEF NamesOfOpenedFiles
  <2>6. FunctionsHonest' /\ MethodsHonest'
    BY <2>2 DEF FunctionsHonest, MethodsHonest
  <2>. QED
    BY <2>4, <2>5, <2>6
<1>8. ASSUME NEW c \in Contexts, NEW a, RenderFunction(c, a) PROVE Honest'
  <2>1. file[c] \in opened
    BY <1>8 DEF RenderFunction, TypeOK
  <2>2. UNCHANGED <<opened, methodAt, file, cache>>
    BY <1>8 DEF RenderFunction, contextVars
  <2>3. CachesHonest' /\ MethodsHonest'
    BY <2>2 DEF CachesHonest, MethodsHonest
  <2>4. PICK t : /\ shown' = Answer(c, "function", a, t)
                 /\ \E f \in opened : t \in Names!Texts(f, "function", a)
                 /\ \/ functionCache' = functionCache
                    \/ functionCache' = [ b \in DOMAIN functionCache \cup {a} |->
                                            IF b = a THEN t ELSE functionCache[b] ]
    <3>1. CASE a \in DOMAIN functionCache /\ shown' = Answer(c, "function", a, functionCache[a])
               /\ functionCache' = functionCache
      BY <3>1 DEF FunctionsHonest
    <3>2. CASE a \notin DOMAIN functionCache
      BY <1>8, <2>1, <3>2 DEF RenderFunction, MethodsHonest
    <3>. QED
      BY <1>8, <3>1, <3>2 DEF RenderFunction
  <2>5. FunctionsHonest'
    BY <2>2, <2>4 DEF FunctionsHonest
  <2>6. shown'.text = t /\ shown'.kind = "function" /\ shown'.index = a
    BY <2>4 DEF Answer
  <2>7. NamesOfOpenedFiles'
    BY <2>2, <2>4, <2>6 DEF NamesOfOpenedFiles
  <2>. QED
    BY <2>3, <2>5, <2>7
<1>9. CASE UNCHANGED vars
  BY <1>1, <1>9 DEF vars, contextVars, MethodsHonest
<1>. QED
  BY <1>2, <1>3, <1>4, <1>5, <1>6, <1>7, <1>8, <1>9 DEF Next, User, Listing

\* However many files a process has opened, and in whatever order its contexts
\* load, render and are freed, the listing shows names of files it has opened.
THEOREM CachedNames == Spec => []NamesOfOpenedFiles
<1>1. Spec => [](TypeOK /\ Honest)
  BY TypeInit, TypeStep, HonestInit, HonestStep, PTL DEF Spec
<1>. QED
  BY <1>1, PTL DEF Honest

-----------------------------------------------------------------------------
(* With one file opened the caches cannot be told from the files.          *)

LEMMA OpenedFinite == Spec => []IsFiniteSet(opened)
<1>1. Init => IsFiniteSet(opened)
  BY FS_EmptySet DEF Init
<1>2. IsFiniteSet(opened) /\ [Next]_vars => IsFiniteSet(opened)'
  <2>1. ASSUME [Next]_vars PROVE \/ opened' = opened
                                 \/ \E f \in Files : opened' = opened \cup {f}
    BY <2>1, Zenon DEF Next, User, Listing, Load, Toggle, Cancel, Confirm, Free, RenderIndex,
                RenderFunction, contextVars, vars
  <2>. QED
    BY <2>1, FS_AddElement
<1>. QED
  BY <1>1, <1>2, PTL DEF Spec

LEMMA OnlyMember ==
  ASSUME NEW S, IsFiniteSet(S), Cardinality(S) <= 1, NEW x \in S, NEW y \in S
  PROVE  x = y
<1>1. Cardinality(S) \in Nat
  BY FS_CardinalityType
<1>2. Cardinality(S) # 0
  BY FS_EmptySet
<1>3. Cardinality(S) = 1
  BY <1>1, <1>2
<1>4. PICK z : S = {z}
  BY <1>3, FS_Singleton
<1>. QED
  BY <1>4

\* A text that is an entry of some opened file is an answer of the listing
\* without caches, if there is one file only.
LEMMA AnswerIsNamed ==
  ASSUME NEW c \in Contexts, file[c] # NoFile, file[c] \in opened, IsFiniteSet(opened),
         Cardinality(opened) <= 1, UNCHANGED file, NEW kind, NEW i, NEW t,
         shown' = Answer(c, kind, i, t), \E f \in opened : t \in Names!Texts(f, kind, i)
  PROVE  Names!Next
<1>1. t \in Names!Texts(file[c], kind, i)
  BY OnlyMember
<1>2. shown'.context = c /\ shown'.kind = kind /\ shown'.index = i
  BY DEF Answer
<1>3. Names!Answer(c, shown'.kind, shown'.index)
  BY <1>1, <1>2 DEF Names!Answer, Answer
<1>. QED
  BY <1>2, <1>3 DEF Names!Next

LEMMA NamesStep ==
  ASSUME TypeOK, Honest, IsFiniteSet(opened), [Next]_vars, Cardinality(opened') <= 1
  PROVE  [Names!Next]_(Names!vars)
<1>1. ASSUME NEW c \in Contexts, NEW f \in Files, Load(c, f) PROVE Names!Next
  <2>1. file[c] = NoFile
    BY <1>1 DEF Load, TypeOK
  <2>. QED
    BY <1>1, <2>1 DEF Load, Names!Next, Names!Open
<1>2. ASSUME NEW c \in Contexts, \/ \E i : Toggle(c, i)
                                \/ Cancel(c) \/ Confirm(c) \/ Free(c)
      PROVE  UNCHANGED Names!vars
  BY <1>2 DEF Toggle, Cancel, Confirm, Free, Names!vars
<1>3. ASSUME NEW c \in Contexts, NEW kind \in Kinds, NEW i, RenderIndex(c, kind, i)
      PROVE  Names!Next
  <2>1. file[c] \in Files /\ file[c] \in opened /\ file[c] # NoFile
    BY <1>3, NoFileAssumption DEF RenderIndex, TypeOK
  <2>2. UNCHANGED <<opened, file>>
    BY <1>3 DEF RenderIndex, contextVars
  <2>3. i \in DOMAIN file[c].names[kind] => Key(i) = i
    BY <2>1, IndexKey
  <2>4. PICK t : shown' = Answer(c, kind, i, t) /\ \E f \in opened : t \in Names!Texts(f, kind, i)
    <3>1. CASE i \notin DOMAIN file[c].names[kind] /\ shown' = Answer(c, kind, i, NoName)
      BY <2>1, <3>1, MissingText
    <3>2. CASE i \in DOMAIN cache[kind] /\ shown' = Answer(c, kind, i, cache[kind][i])
      BY <3>2, IndexText DEF Honest, CachesHonest
    <3>3. CASE i \in DOMAIN file[c].names[kind] /\ shown' = Answer(c, kind, i, file[c].names[kind][i])
      BY <2>1, <3>3, IndexText
    <3>. QED
      BY <1>3, <2>3, <3>1, <3>2, <3>3 DEF RenderIndex
  <2>. QED
    BY <2>1, <2>2, <2>4, AnswerIsNamed
<1>4. ASSUME NEW c \in Contexts, NEW a, RenderFunction(c, a) PROVE Names!Next
  <2>1. file[c] \in opened /\ file[c] # NoFile
    BY <1>4 DEF RenderFunction, TypeOK
  <2>2. UNCHANGED <<opened, file>>
    BY <1>4 DEF RenderFunction, contextVars
  <2>3. PICK t : shown' = Answer(c, "function", a, t) /\ \E f \in opened : t \in Names!Texts(f, "function", a)
    <3>1. CASE a \in DOMAIN functionCache /\ shown' = Answer(c, "function", a, functionCache[a])
      BY <3>1 DEF Honest, FunctionsHonest
    <3>2. CASE a \notin DOMAIN functionCache
      BY <1>4, <2>1, <3>2 DEF RenderFunction, Honest, MethodsHonest
    <3>. QED
      BY <1>4, <3>1, <3>2 DEF RenderFunction
  <2>. QED
    BY <2>1, <2>2, <2>3, AnswerIsNamed
<1>5. CASE UNCHANGED vars
  BY <1>5 DEF vars, contextVars, Names!vars
<1>. QED
  BY <1>1, <1>2, <1>3, <1>4, <1>5 DEF Next, User, Listing

\* For any number of contexts and whatever is rendered and freed in between:
\* while the process has opened one file at most, each step of the cached
\* listing is a step of the listing without caches, or leaves it alone.
THEOREM ImplementsNames == Spec => ShowsOwnNames
<1>1. Spec => [](TypeOK /\ Honest /\ IsFiniteSet(opened))
  BY TypeInit, TypeStep, HonestInit, HonestStep, OpenedFinite, PTL DEF Spec
<1>2. Init => Names!Init
  BY DEF Init, Names!Init, Nothing, Names!Nothing, Answer
<1>3. TypeOK /\ Honest /\ IsFiniteSet(opened) /\ [Next]_vars
        => [Cardinality(opened') <= 1 => [Names!Next]_(Names!vars)]_vars
  BY NamesStep
<1>. QED
  BY <1>1, <1>2, <1>3, PTL DEF Spec, ShowsOwnNames

-----------------------------------------------------------------------------
(* What the user asked for.                                                *)

\* A load asks and records what its ticks say, and nothing touches that until
\* the loader is freed.
Answered ==
  /\ DOMAIN requests = Contexts /\ DOMAIN methodAt = Contexts
  /\ \A c \in Contexts : status[c] = "loaded" =>
       requests[c] = Requests(file[c], checked[c]) /\ Records(file[c], methodAt[c])

LEMMA AnsweredStep == TypeOK /\ Answered /\ [Next]_vars => Answered'
<1>. SUFFICES ASSUME TypeOK, Answered, [Next]_vars PROVE Answered'
  OBVIOUS
<1>. USE DEF Answered
<1>1. ASSUME NEW c \in Contexts,
             \A d \in Contexts \ {c} :
               /\ status'[d] = status[d] /\ requests'[d] = requests[d] /\ file'[d] = file[d]
               /\ checked'[d] = checked[d] /\ methodAt'[d] = methodAt[d],
             DOMAIN requests' = Contexts, DOMAIN methodAt' = Contexts, status'[c] # "loaded"
      PROVE  Answered'
  BY <1>1
<1>2. ASSUME NEW c \in Contexts, NEW f \in Files, Load(c, f) PROVE Answered'
  BY <1>1, <1>2 DEF Load, TypeOK
<1>3. ASSUME NEW c \in Contexts, NEW i, Toggle(c, i) PROVE Answered'
  BY <1>1, <1>3 DEF Toggle, TypeOK
<1>4. ASSUME NEW c \in Contexts, Cancel(c) PROVE Answered'
  BY <1>1, <1>4 DEF Cancel, TypeOK
<1>5. ASSUME NEW c \in Contexts, Confirm(c) PROVE Answered'
  <2>1. PICK map \in MethodMaps(file[c]) :
          Records(file[c], map) /\ methodAt' = [methodAt EXCEPT ![c] = map]
    BY <1>5 DEF Confirm
  <2>2. requests'[c] = Requests(file[c], checked[c]) /\ methodAt'[c] = map
    BY <1>5, <2>1 DEF Confirm
  <2>3. \A d \in Contexts \ {c} :
          status'[d] = status[d] /\ requests'[d] = requests[d] /\ methodAt'[d] = methodAt[d]
    BY <1>5, <2>1 DEF Confirm, TypeOK
  <2>4. DOMAIN requests' = Contexts /\ DOMAIN methodAt' = Contexts
    BY <1>5, <2>1 DEF Confirm
  <2>5. UNCHANGED <<file, checked>>
    BY <1>5 DEF Confirm
  <2>. QED
    BY <2>1, <2>2, <2>3, <2>4, <2>5
<1>6. ASSUME NEW c \in Contexts, Free(c) PROVE Answered'
  BY <1>1, <1>6 DEF Free, TypeOK
<1>7. ASSUME UNCHANGED contextVars PROVE Answered'
  BY <1>7 DEF contextVars
<1>8. ASSUME NEW c \in Contexts, NEW kind \in Kinds, NEW i, RenderIndex(c, kind, i) PROVE Answered'
  BY <1>7, <1>8 DEF RenderIndex
<1>9. ASSUME NEW c \in Contexts, NEW a, RenderFunction(c, a) PROVE Answered'
  BY <1>7, <1>9 DEF RenderFunction
<1>. QED
  BY <1>2, <1>3, <1>4, <1>5, <1>6, <1>7, <1>8, <1>9 DEF Next, User, Listing, vars

\* An entry pairs a listed class with a method of its own.
LEMMA EntryParts ==
  ASSUME NEW f, NEW e
  PROVE  e \in Entries(f) <=>
           \E i \in DOMAIN Listed(f) : \E j \in DOMAIN Listed(f)[i].methods :
             /\ Listed(f)[i].verified /\ Loadable(f, Listed(f)[i].methods[j])
             /\ e = <<i, j>>
  BY DEF Entries

\* A request is where its entry says.
LEMMA RequestParts ==
  ASSUME NEW f, NEW e, NEW chosen
  PROVE  /\ Request(f, e, chosen).address = MethodOf(f, e).code
         /\ Request(f, e, chosen).idx = MethodOf(f, e).idx
  BY DEF Request

LEMMA AskedAsTicked ==
  ASSUME TypeOK, Answered, NEW c \in Contexts, status[c] = "loaded",
         NEW p \in DOMAIN file[c].classes,
         file[c].classes[p].descriptor, file[c].classes[p].verified,
         NEW j \in DOMAIN file[c].classes[p].methods,
         Loadable(file[c], file[c].classes[p].methods[j])
  PROVE  [ call |-> IF Place(file[c], p) \in checked[c] THEN "ExportedFunction" ELSE "Imported",
           address |-> file[c].classes[p].methods[j].code,
           idx |-> file[c].classes[p].methods[j].idx ] \in requests[c]
<1>. DEFINE f == file[c]
            i == Place(f, p)
            e == <<i, j>>
<1>1. f \in Files
  BY DEF TypeOK
<1>2. i \in DOMAIN Listed(f) /\ Listed(f)[i] = f.classes[p]
  BY <1>1, ListedPlaces
<1>3. e \in Entries(f)
  BY <1>2, EntryParts
<1>4. MethodOf(f, e) = f.classes[p].methods[j]
  BY <1>2 DEF MethodOf
<1>5. Request(f, e, e[1] \in checked[c]) \in requests[c]
  BY <1>3 DEF Answered, Requests
<1>. QED
  BY <1>4, <1>5 DEF Request

LEMMA RecordedAsAsked ==
  ASSUME Answered, NEW c \in Contexts, status[c] = "loaded"
  PROVE  /\ DOMAIN methodAt[c] = { r.address : r \in requests[c] }
         /\ \A a \in DOMAIN methodAt[c] :
              \E r \in requests[c] : r.address = a /\ r.idx = methodAt[c][a]
<1>. DEFINE f == file[c]
<1>1. /\ requests[c] = { Request(f, e, e[1] \in checked[c]) : e \in Entries(f) }
      /\ Records(f, methodAt[c])
  BY DEF Answered, Requests
<1>2. \A e \in Entries(f) : \E r \in requests[c] :
        r.address = MethodOf(f, e).code /\ r.idx = MethodOf(f, e).idx
  BY <1>1, RequestParts
<1>3. \A r \in requests[c] : \E e \in Entries(f) : r.address = MethodOf(f, e).code
  BY <1>1, RequestParts
<1>4. { r.address : r \in requests[c] } = Codes(f)
  BY <1>2, <1>3 DEF Codes
<1>5. \A a \in DOMAIN methodAt[c] :
        \E e \in Entries(f) : MethodOf(f, e).code = a /\ MethodOf(f, e).idx = methodAt[c][a]
  BY <1>1 DEF Records
<1>6. DOMAIN methodAt[c] = Codes(f)
  BY <1>1 DEF Records
<1>. QED
  BY <1>2, <1>4, <1>5, <1>6

\* For every file and every sequence of ticks: each method with code is asked
\* for as its own class was left in the dialog, and the loader remembers the
\* methods the document was told of.
THEOREM SelectionIsRespected == Spec => []SelectionRespected
<1>1. TypeOK /\ Answered => SelectionRespected
  <2>. SUFFICES ASSUME TypeOK, Answered PROVE SelectionRespected
    OBVIOUS
  <2>1. LoadedAsAnswered
    BY AskedAsTicked, ZenonT(40) DEF LoadedAsAnswered, Place, Described
  <2>2. RecordedAsRequested
    BY RecordedAsAsked DEF RecordedAsRequested
  <2>. QED
    BY <2>1, <2>2 DEF SelectionRespected
<1>2. Init => Answered
  BY DEF Init, Answered
<1>. QED
  BY <1>1, <1>2, TypeInit, TypeStep, AnsweredStep, PTL DEF Spec

-----------------------------------------------------------------------------
(***************************************************************************)
(* The Dalvik assembler tells the host what the instructions say, for any  *)
(* code: the tables of the opcodes agree for every opcode, and a decoded   *)
(* instruction is taken through emulate by its opcode and through the      *)
(* listing by its format.                                                  *)
(***************************************************************************)

Opcodes == 0 .. 255

OpcodesOfNone   == {115, 121, 122, 236} \cup (62 .. 67) \cup (243 .. 249)
OpcodesOfOne    == {0, 1, 4, 7, 29, 30, 33, 39, 40, 241} \cup (10 .. 18) \cup (123 .. 143) \cup (176 .. 207)
OpcodesOfTwo    == {2, 5, 8, 19, 21, 22, 25, 26, 28, 31, 32, 34, 35, 41, 237, 242, 254, 255}
                   \cup (45 .. 61) \cup (68 .. 109) \cup (144 .. 175) \cup (208 .. 235)
OpcodesOfThree  == {3, 6, 9, 20, 23, 27, 252, 253} \cup (36 .. 38) \cup (42 .. 44)
                   \cup (110 .. 114) \cup (116 .. 120) \cup (238 .. 240)
OpcodesOfTarget == (40 .. 42) \cup (50 .. 61)
OpcodesNoIndex  == {115, 121, 122, 236, 29, 30, 33, 241} \cup (0 .. 25) \cup (38 .. 81)
                   \cup (123 .. 226) \cup (243 .. 249)

LEMMA FormatsAre ==
  ASSUME NEW op \in Opcodes
  PROVE  /\ Format(op) = "00x" <=> op \in OpcodesOfNone
         /\ Format(op) \in OneUnit <=> op \in OpcodesOfOne
         /\ Format(op) \in TwoUnits <=> op \in OpcodesOfTwo
         /\ Format(op) \in ThreeUnits <=> op \in OpcodesOfThree
         /\ Format(op) \in {"45cc", "4rcc"} <=> op \in {250, 251}
         /\ Format(op) = "51l" <=> op = 24
         /\ Format(op) \in WithTarget <=> op \in OpcodesOfTarget
         /\ Format(op) \in WithIndex <=> op \notin OpcodesNoIndex
<1>1. Format(op) = "00x" <=> op \in OpcodesOfNone
  BY SMTT(60) DEF Format, OpcodesOfNone, Opcodes
<1>2. Format(op) \in OneUnit <=> op \in OpcodesOfOne
  BY SMTT(60) DEF Format, OneUnit, OpcodesOfOne, Opcodes
<1>3. Format(op) \in TwoUnits <=> op \in OpcodesOfTwo
  BY SMTT(60) DEF Format, TwoUnits, OpcodesOfTwo, Opcodes
<1>4. Format(op) \in ThreeUnits <=> op \in OpcodesOfThree
  BY SMTT(60) DEF Format, ThreeUnits, OpcodesOfThree, Opcodes
<1>5. Format(op) \in {"45cc", "4rcc"} <=> op \in {250, 251}
  BY SMTT(60) DEF Format, Opcodes
<1>6. Format(op) = "51l" <=> op = 24
  BY SMTT(60) DEF Format, Opcodes
<1>7. Format(op) \in WithTarget <=> op \in OpcodesOfTarget
  BY SMTT(60) DEF Format, WithTarget, OpcodesOfTarget, Opcodes
<1>8. Format(op) \in WithIndex <=> op \notin OpcodesNoIndex
  BY SMTT(60) DEF Format, WithIndex, OpcodesNoIndex, Opcodes
<1>. QED
  BY <1>1, <1>2, <1>3, <1>4, <1>5, <1>6, <1>7, <1>8

LEMMA WidthsAre ==
  ASSUME NEW op \in Opcodes
  PROVE  /\ op \in OpcodesOfNone => WidthOf(op) = 0
         /\ op \in OpcodesOfOne => WidthOf(op) = 1
         /\ op \in OpcodesOfTwo => WidthOf(op) = 2
         /\ op \in OpcodesOfThree => WidthOf(op) = 3
         /\ op \in {250, 251} => WidthOf(op) = 4
         /\ op = 24 => WidthOf(op) = 5
<1>1. op \in OpcodesOfNone => WidthOf(op) = 0
  BY SMTT(60) DEF WidthOf, OpcodesOfNone
<1>2. op \in OpcodesOfOne => WidthOf(op) = 1
  BY SMTT(60) DEF WidthOf, OpcodesOfOne
<1>3. op \in OpcodesOfTwo => WidthOf(op) = 2
  BY SMTT(60) DEF WidthOf, OpcodesOfTwo
<1>4. op \in OpcodesOfThree => WidthOf(op) = 3
  BY SMTT(60) DEF WidthOf, OpcodesOfThree
<1>5. op \in {250, 251} => WidthOf(op) = 4
  BY SMTT(60) DEF WidthOf
<1>6. op = 24 => WidthOf(op) = 5
  BY SMTT(60) DEF WidthOf
<1>. QED
  BY <1>1, <1>2, <1>3, <1>4, <1>5, <1>6

\* The flags, as emulate would ask for them.
LEMMA FlagsAre ==
  ASSUME NEW op \in Opcodes
  PROVE  /\ Flags(op) = {} <=> op \in OpcodesOfNone
         /\ "branch" \in Flags(op) <=> op \in OpcodesOfTarget
         /\ "continue" \in Flags(op) <=> op \notin OpcodesOfNone \cup (14 .. 17) \cup (39 .. 42) \cup {237, 241}
         /\ "return" \in Flags(op) <=> op \in (14 .. 17) \cup {241}
<1>. USE DEF Flags, Continue, Return, Throw, Branch, ContinueThrow, ContinueBranch, ContinueSwitch, Invoke, NoFlags, OpcodesOfNone, OpcodesOfTarget, Opcodes
<1>1. CASE op < 128
  <2>1. /\ op \in (0 .. 13) \cup (18 .. 25) \cup {38} \cup (45 .. 49) \cup (123 .. 127) => Flags(op) = Continue
        /\ op \in 14 .. 17 => Flags(op) = Return
        /\ op \in (26 .. 37) \cup (68 .. 109) => Flags(op) = ContinueThrow
        /\ op = 39 => Flags(op) = Throw
    BY <1>1, SMTT(60) DEF FlagsBelow128
  <2>2. /\ op \in 40 .. 42 => Flags(op) = Branch
        /\ op \in {43, 44} => Flags(op) = ContinueSwitch
        /\ op \in 50 .. 61 => Flags(op) = ContinueBranch
        /\ op \in (110 .. 114) \cup (116 .. 120) => Flags(op) = Invoke
        /\ op \in OpcodesOfNone => Flags(op) = NoFlags
    BY <1>1, SMTT(60) DEF FlagsBelow128
  <2>. HIDE DEF Flags
  <2>. QED
    BY <1>1, <2>1, <2>2, SMTT(60)
<1>2. CASE ~(op < 128)
  <2>1. /\ op \in (128 .. 146) \cup (149 .. 157) \cup (160 .. 178) \cup (181 .. 189) \cup (192 .. 210)
               \cup (213 .. 218) \cup (221 .. 226) => Flags(op) = Continue
        /\ op \in {147, 148, 158, 159, 179, 180, 190, 191, 211, 212, 219, 220} => Flags(op) = ContinueThrow
        /\ op \in (227 .. 235) \cup {238, 239, 242, 254, 255} => Flags(op) = ContinueThrow
    BY <1>2, SMTT(60) DEF FlagsAbove127
  <2>2. /\ op = 237 => Flags(op) = Throw
        /\ op = 241 => Flags(op) = Return
        /\ op \in {240} \cup (250 .. 253) => Flags(op) = Invoke
        /\ op \in OpcodesOfNone => Flags(op) = NoFlags
    BY <1>2, SMTT(60) DEF FlagsAbove127
  <2>. HIDE DEF Flags
  <2>. QED
    BY <1>2, <2>1, <2>2, SMTT(60)
<1>. QED
  BY <1>1, <1>2

LEMMA TablesAgreeOn ==
  ASSUME NEW op \in Opcodes
  PROVE  /\ WidthOf(op) = UnitsOf(Format(op))
         /\ IndexTypeOf(op) \notin {"None", "Unknown"} <=> Format(op) \in WithIndex
         /\ "branch" \in Flags(op) <=> Format(op) \in WithTarget
         /\ Flags(op) = {} <=> Format(op) = "00x"
<1>1. op \in OpcodesOfNone \cup OpcodesOfOne \cup OpcodesOfTwo \cup OpcodesOfThree \cup {250, 251, 24}
  BY DEF Opcodes, OpcodesOfNone, OpcodesOfOne, OpcodesOfTwo, OpcodesOfThree
<1>2. \A f : /\ f = "00x" => UnitsOf(f) = 0
             /\ f \in OneUnit => UnitsOf(f) = 1
             /\ f \in TwoUnits => UnitsOf(f) = 2
             /\ f \in ThreeUnits => UnitsOf(f) = 3
             /\ f \in {"45cc", "4rcc"} => UnitsOf(f) = 4
             /\ f = "51l" => UnitsOf(f) = 5
  BY DEF UnitsOf, OneUnit, TwoUnits, ThreeUnits
<1>3. WidthOf(op) = UnitsOf(Format(op))
  BY <1>1, <1>2, FormatsAre, WidthsAre
<1>4. IndexTypeOf(op) \notin {"None", "Unknown"} <=> op \notin OpcodesNoIndex
  BY SMTT(60) DEF IndexTypeOf, OpcodesNoIndex, Opcodes
<1>. QED
  BY <1>3, <1>4, FormatsAre, FlagsAre

-----------------------------------------------------------------------------
(* The flow of the instructions.                                           *)

CodeInside == 0 .. Len(method.code) - 1

FileEnd == Len(method.code) + Len(method.behind)

LEMMA UnitRead ==
  ASSUME method \in Methods, NEW a \in Nat, a < FileEnd
  PROVE  Fetch(a) \in Unit
<1>. DEFINE c == method.code
            b == method.behind
<1>1. c \in Seq(Unit) /\ b \in Seq(Unit)
  BY MethodAssumption
<1>. HIDE DEF c, b
<1>2. c \o b \in Seq(Unit) /\ Len(c \o b) = Len(c) + Len(b)
  BY <1>1
<1>3. Len(c) + Len(b) = FileEnd /\ Len(c) \in Nat /\ Len(b) \in Nat
  BY <1>1 DEF FileEnd, c, b
<1>4. a + 1 \in 1 .. Len(c \o b)
  BY <1>2, <1>3
<1>5. (c \o b)[a + 1] \in Unit
  BY <1>2, <1>4
<1>. QED
  BY <1>5 DEF Fetch, UnitAt, c, b

\* An instruction in the method is read whole.
LEMMA InstructionRead ==
  ASSUME method \in Methods, NEW a \in CodeInside
  PROVE  /\ a \in Nat
         /\ Fetch(a) \in Unit /\ Fetch(a + 1) \in Unit /\ Fetch(a + 2) \in Unit
         /\ OpcodeAt(a) \in Opcodes
<1>. DEFINE n == Len(method.code)
            k == Len(method.behind)
<1>1. n \in Nat /\ k \in Nat /\ k >= 4
  BY MethodAssumption
<1>0. FileEnd = n + k /\ a \in 0 .. n - 1
  BY DEF FileEnd, CodeInside
<1>. HIDE DEF n, k
<1>2. a \in Nat /\ a + 1 \in Nat /\ a + 2 \in Nat /\ a + 2 < FileEnd /\ a + 1 < FileEnd /\ a < FileEnd
  BY <1>1, <1>0
<1>3. Fetch(a) \in Unit /\ Fetch(a + 1) \in Unit /\ Fetch(a + 2) \in Unit
  BY <1>2, UnitRead
<1>4. OpcodeAt(a) \in Opcodes
  <2>1. \A x \in Unit : x % 256 \in 0 .. 255
    BY DEF Unit
  <2>. QED
    BY <1>3, <2>1 DEF OpcodeAt, Opcodes
<1>. QED
  BY <1>2, <1>3, <1>4

LEMMA DecodedOpcode ==
  ASSUME NEW a, NEW instr \in Decoded(a)
  PROVE  instr.op = OpcodeAt(a) /\ Format(OpcodeAt(a)) # "00x"
<1>. DEFINE op == OpcodeAt(a)
<1>1. instr.op = op
  BY SMTT(60) DEF Decoded, Insn
<1>2. Format(op) # "00x"
  BY SMTT(60) DEF Decoded
<1>. QED
  BY <1>1, <1>2

\* What emulate says of an instruction that is decoded.
LEMMA EmulatedIs ==
  ASSUME NEW a, NEW f \in FlowsAt(a), Decoded(a) # {}
  PROVE  \E instr \in Decoded(a) : \E s \in StringsAdded(instr) : f = Emulated(a, instr, s)
  BY DEF FlowsAt

LEMMA OpcodesFollowed ==
  ASSUME NEW op \in Opcodes
  PROVE  /\ op \in NotFollowed <=> op \in {39, 41, 42, 44, 50, 51, 53, 54, 57, 58, 59, 60, 237, 241}
         /\ op \in Branches <=> op \in {40, 52, 55, 56, 61}
         /\ op \in OpReturns <=> op \in 14 .. 17
  BY DEF Opcodes, NotFollowed, Branches, OpReturns, OpGoto, OpGoto16, OpGoto32, OpSparseSwitch, OpThrow,
         OpIfLt, OpIfLe, OpIfEqz, OpIfLez

\* The formats of what emulate looks at.
LEMMA FormatsFollowed ==
  ASSUME NEW op \in Opcodes
  PROVE  /\ op = 39 => Format(op) = "11x"
         /\ op = 40 => Format(op) = "10t"
         /\ op = 41 => Format(op) = "20t"
         /\ op = 42 => Format(op) = "30t"
         /\ op \in {38, 43, 44} => Format(op) = "31t"
         /\ op \in 50 .. 55 => Format(op) = "22t"
         /\ op \in 56 .. 61 => Format(op) = "21t"
         /\ op = 237 => Format(op) = "20bc"
         /\ op = 241 => Format(op) = "10x"
<1>1. op = 39 => Format(op) = "11x"
  BY SMTT(60) DEF Format, Opcodes
<1>2. op = 40 => Format(op) = "10t"
  BY SMTT(60) DEF Format, Opcodes
<1>3. op = 41 => Format(op) = "20t"
  BY SMTT(60) DEF Format, Opcodes
<1>4. op = 42 => Format(op) = "30t"
  BY SMTT(60) DEF Format, Opcodes
<1>5. op \in {38, 43, 44} => Format(op) = "31t"
  BY SMTT(60) DEF Format, Opcodes
<1>6. op \in 50 .. 55 => Format(op) = "22t"
  BY SMTT(60) DEF Format, Opcodes
<1>7. op \in 56 .. 61 => Format(op) = "21t"
  BY SMTT(60) DEF Format, Opcodes
<1>8. op = 237 => Format(op) = "20bc"
  BY SMTT(60) DEF Format, Opcodes
<1>9. op = 241 => Format(op) = "10x"
  BY SMTT(60) DEF Format, Opcodes
<1>. QED
  BY <1>1, <1>2, <1>3, <1>4, <1>5, <1>6, <1>7, <1>8, <1>9

LEMMA UnitNat == \A x \in Unit : x \in Nat
  BY DEF Unit

(* What is decoded, by format.                                             *)

LEMMA Decoded10x ==
  \A a : Format(OpcodeAt(a)) = "10x" =>
    Decoded(a) = {Insn(OpcodeAt(a), Fetch(a) \div 256, 0, 0, NoArgs)}
  BY SMTT(60) DEF Decoded

LEMMA Decoded11x ==
  \A a : Format(OpcodeAt(a)) = "11x" =>
    Decoded(a) = {Insn(OpcodeAt(a), Fetch(a) \div 256, 0, 0, NoArgs)}
  BY SMTT(60) DEF Decoded

LEMMA Decoded12x ==
  \A a : Format(OpcodeAt(a)) = "12x" =>
    Decoded(a) = {Insn(OpcodeAt(a), (Fetch(a) \div 256) % 16, Fetch(a) \div 4096, 0, NoArgs)}
  BY SMTT(60) DEF Decoded

LEMMA Decoded10t ==
  \A a : Format(OpcodeAt(a)) = "10t" =>
    Decoded(a) = {Insn(OpcodeAt(a), Signed8(Fetch(a) \div 256), 0, 0, NoArgs)}
  BY SMTT(60) DEF Decoded

LEMMA Decoded20t ==
  \A a : Format(OpcodeAt(a)) = "20t" =>
    Decoded(a) = {Insn(OpcodeAt(a), Signed16(Fetch(a + 1)), 0, 0, NoArgs)}
  BY SMTT(60) DEF Decoded

LEMMA Decoded20bc ==
  \A a : Format(OpcodeAt(a)) = "20bc" =>
    Decoded(a) = {Insn(OpcodeAt(a), Fetch(a) \div 256, Fetch(a + 1), 0, NoArgs)}
  BY SMTT(60) DEF Decoded

LEMMA Decoded21c ==
  \A a : Format(OpcodeAt(a)) = "21c" =>
    Decoded(a) = {Insn(OpcodeAt(a), Fetch(a) \div 256, Fetch(a + 1), 0, NoArgs)}
  BY SMTT(60) DEF Decoded

LEMMA Decoded21h ==
  \A a : Format(OpcodeAt(a)) = "21h" =>
    Decoded(a) = {Insn(OpcodeAt(a), Fetch(a) \div 256, Fetch(a + 1), 0, NoArgs)}
  BY SMTT(60) DEF Decoded

LEMMA Decoded21s ==
  \A a : Format(OpcodeAt(a)) = "21s" =>
    Decoded(a) = {Insn(OpcodeAt(a), Fetch(a) \div 256, Signed16(Fetch(a + 1)), 0, NoArgs)}
  BY SMTT(60) DEF Decoded

LEMMA Decoded21t ==
  \A a : Format(OpcodeAt(a)) = "21t" =>
    Decoded(a) = {Insn(OpcodeAt(a), Fetch(a) \div 256, Signed16(Fetch(a + 1)), 0, NoArgs)}
  BY SMTT(60) DEF Decoded

LEMMA Decoded23x ==
  \A a : Format(OpcodeAt(a)) = "23x" =>
    Decoded(a) = {Insn(OpcodeAt(a), Fetch(a) \div 256, Fetch(a + 1) % 256, Fetch(a + 1) \div 256, NoArgs)}
  BY SMTT(60) DEF Decoded

LEMMA Decoded22b ==
  \A a : Format(OpcodeAt(a)) = "22b" =>
    Decoded(a) = {Insn(OpcodeAt(a), Fetch(a) \div 256, Fetch(a + 1) % 256, Signed8(Fetch(a + 1) \div 256), NoArgs)}
  BY SMTT(60) DEF Decoded

LEMMA Decoded22t ==
  \A a : Format(OpcodeAt(a)) = "22t" =>
    Decoded(a) = {Insn(OpcodeAt(a), (Fetch(a) \div 256) % 16, Fetch(a) \div 4096, Signed16(Fetch(a + 1)), NoArgs)}
  BY SMTT(60) DEF Decoded

LEMMA Decoded22c ==
  \A a : Format(OpcodeAt(a)) = "22c" =>
    Decoded(a) = {Insn(OpcodeAt(a), (Fetch(a) \div 256) % 16, Fetch(a) \div 4096, Fetch(a + 1), NoArgs)}
  BY SMTT(60) DEF Decoded

LEMMA Decoded30t ==
  \A a : Format(OpcodeAt(a)) = "30t" =>
    Decoded(a) = {Insn(OpcodeAt(a), <<Fetch(a + 1), Fetch(a + 2)>>, 0, 0, NoArgs)}
  BY SMTT(60) DEF Decoded

LEMMA Decoded31t ==
  \A a : Format(OpcodeAt(a)) = "31t" =>
    Decoded(a) = {Insn(OpcodeAt(a), Fetch(a) \div 256, <<Fetch(a + 1), Fetch(a + 2)>>, 0, NoArgs)}
  BY SMTT(60) DEF Decoded

LEMMA Decoded31c ==
  \A a : Format(OpcodeAt(a)) = "31c" =>
    Decoded(a) = {Insn(OpcodeAt(a), Fetch(a) \div 256, <<Fetch(a + 1), Fetch(a + 2)>>, 0, NoArgs)}
  BY SMTT(60) DEF Decoded

LEMMA Decoded31i ==
  \A a : Format(OpcodeAt(a)) = "31i" =>
    Decoded(a) = {Insn(OpcodeAt(a), Fetch(a) \div 256, <<Fetch(a + 1), Fetch(a + 2)>>, 0, NoArgs)}
  BY SMTT(60) DEF Decoded

LEMMA Decoded32x ==
  \A a : Format(OpcodeAt(a)) = "32x" =>
    Decoded(a) = {Insn(OpcodeAt(a), Fetch(a + 1), Fetch(a + 2), 0, NoArgs)}
  BY SMTT(60) DEF Decoded

LEMMA Decoded35c ==
  \A a : Format(OpcodeAt(a)) = "35c" =>
    /\ Decoded(a) \subseteq {Insn(OpcodeAt(a), Fetch(a) \div 4096, Fetch(a + 1), 0,
                                 Args(Fetch(a) \div 4096, Fetch(a + 2), (Fetch(a) \div 256) % 16))}
    /\ Decoded(a) # {} => Fetch(a) \div 4096 <= 5
  BY SMTT(60) DEF Decoded

LEMMA FlowIsFollowed ==
  ASSUME method \in Methods, NEW a \in CodeInside, NEW f \in FlowsAt(a), NEW op, op = OpcodeAt(a)
  PROVE  IF op \in NotFollowed THEN f.to = {} /\ f.falls
         ELSE op # OpPackedSwitch /\ Decoded(a) # {} =>
                /\ f.to = IF "branch" \in Flags(op) THEN {a + Displacement(a)} ELSE {}
                /\ f.falls <=> "continue" \in Flags(op)
                /\ f.returns <=> "return" \in Flags(op)
<1>1. op \in Opcodes
  BY InstructionRead
<1>2. SUFFICES ASSUME Decoded(a) # {}
               PROVE  IF op \in NotFollowed THEN f.to = {} /\ f.falls
                      ELSE op # OpPackedSwitch =>
                             /\ f.to = IF "branch" \in Flags(op) THEN {a + Displacement(a)} ELSE {}
                             /\ f.falls <=> "continue" \in Flags(op)
                             /\ f.returns <=> "return" \in Flags(op)
  <2>1. op \in NotFollowed => op \in {39, 41, 42, 44, 237, 241} \cup (50 .. 55) \cup (56 .. 61)
    BY <1>1, OpcodesFollowed
  <2>2. op \in NotFollowed => Format(op) \in {"10x", "11x", "20t", "20bc", "21t", "22t", "30t", "31t"}
    BY <1>1, <2>1, FormatsFollowed
  <2>3. ASSUME op \in NotFollowed PROVE Decoded(a) # {}
    <3>1. CASE Format(OpcodeAt(a)) = "10x"
      BY <3>1, Decoded10x
    <3>2. CASE Format(OpcodeAt(a)) = "11x"
      BY <3>2, Decoded11x
    <3>3. CASE Format(OpcodeAt(a)) = "20t"
      BY <3>3, Decoded20t
    <3>4. CASE Format(OpcodeAt(a)) = "20bc"
      BY <3>4, Decoded20bc
    <3>5. CASE Format(OpcodeAt(a)) = "21t"
      BY <3>5, Decoded21t
    <3>6. CASE Format(OpcodeAt(a)) = "22t"
      BY <3>6, Decoded22t
    <3>7. CASE Format(OpcodeAt(a)) = "30t"
      BY <3>7, Decoded30t
    <3>8. CASE Format(OpcodeAt(a)) = "31t"
      BY <3>8, Decoded31t
    <3>. QED
      BY <2>2, <2>3, <3>1, <3>2, <3>3, <3>4, <3>5, <3>6, <3>7, <3>8
  <2>. QED
    BY <1>2, <2>3
<1>3. PICK instr \in Decoded(a) : \E s \in StringsAdded(instr) : f = Emulated(a, instr, s)
  BY <1>2, EmulatedIs
<1>4. instr.op = op /\ Format(op) # "00x"
  BY DecodedOpcode
<1>5. /\ op \in Branches /\ op # OpPackedSwitch => f.to = {a + Offset(instr)}
      /\ op \notin Branches /\ op # OpPackedSwitch => f.to = {}
      /\ f.falls = (op \notin OpReturns \cup {OpGoto})
      /\ f.returns = (op \in OpReturns)
  <2>1. PICK s \in StringsAdded(instr) : f = Emulated(a, instr, s)
    BY <1>3
  <2>2. f.falls = (instr.op \notin OpReturns \cup {OpGoto})
    BY <2>1 DEF Emulated
  <2>3. f.returns = (instr.op \in OpReturns)
    BY <2>1 DEF Emulated
  <2>4. op \in Branches /\ op # OpPackedSwitch => f.to = {a + Offset(instr)}
    BY <1>4, <2>1 DEF Emulated
  <2>5. op \notin Branches /\ op # OpPackedSwitch => f.to = {}
    BY <1>4, <2>1 DEF Emulated
  <2>. QED
    BY <1>4, <2>2, <2>3, <2>4, <2>5
<1>6. op \notin OpcodesOfNone
  BY <1>1, <1>4, FormatsAre
<1>7. CASE op \in NotFollowed
  <2>1. op \notin Branches /\ op # OpPackedSwitch /\ op \notin OpReturns /\ op # OpGoto
    BY <1>1, <1>7, OpcodesFollowed DEF OpPackedSwitch, OpGoto
  <2>. QED
    BY <1>5, <1>7, <2>1
<1>8. CASE op \notin NotFollowed /\ op # OpPackedSwitch
  <2>1. "branch" \in Flags(op) <=> op \in Branches
    BY <1>1, <1>8, OpcodesFollowed, FlagsAre DEF OpcodesOfTarget
  <2>2. "continue" \in Flags(op) <=> op \notin OpReturns \cup {OpGoto}
    BY <1>1, <1>6, <1>8, OpcodesFollowed, FlagsAre DEF OpGoto
  <2>3. "return" \in Flags(op) <=> op \in OpReturns
    BY <1>1, <1>8, OpcodesFollowed, FlagsAre
  <2>4. ASSUME op \in Branches PROVE Offset(instr) = Displacement(a)
    <3>1. CASE op = 40
      <4>1. Format(OpcodeAt(a)) = "10t"
        BY <1>1, <3>1, FormatsFollowed
      <4>2. Decoded(a) = {Insn(OpcodeAt(a), Signed8(Fetch(a) \div 256), 0, 0, NoArgs)}
        BY <4>1, Decoded10t
      <4>3. instr.vA = Signed8(Fetch(a) \div 256)
        BY <4>2 DEF Insn
      <4>4. instr.op = OpGoto /\ instr.op \notin {OpIfEqz, OpIfLez} /\ instr.op \notin {OpIfLe, OpIfLt}
        BY <1>4, <3>1 DEF OpGoto, OpIfEqz, OpIfLez, OpIfLe, OpIfLt
      <4>5. Offset(instr) = instr.vA
        BY <4>4 DEF Offset
      <4>. QED
        BY <4>1, <4>3, <4>5 DEF Displacement
    <3>2. CASE op \in {56, 61}
      <4>1. Format(OpcodeAt(a)) = "21t"
        BY <1>1, <3>2, FormatsFollowed
      <4>2. Decoded(a) = {Insn(OpcodeAt(a), Fetch(a) \div 256, Signed16(Fetch(a + 1)), 0, NoArgs)}
        BY <4>1, Decoded21t
      <4>3. instr.vB = Signed16(Fetch(a + 1))
        BY <4>2 DEF Insn
      <4>4. instr.op # OpGoto /\ instr.op \in {OpIfEqz, OpIfLez} /\ instr.op \notin {OpIfLe, OpIfLt}
        BY <1>4, <3>2 DEF OpGoto, OpIfEqz, OpIfLez, OpIfLe, OpIfLt
      <4>5. Offset(instr) = instr.vB
        BY <4>4 DEF Offset
      <4>. QED
        BY <4>1, <4>3, <4>5 DEF Displacement
    <3>3. CASE op \in {52, 55}
      <4>1. Format(OpcodeAt(a)) = "22t"
        BY <1>1, <3>3, FormatsFollowed
      <4>2. Decoded(a) = {Insn(OpcodeAt(a), (Fetch(a) \div 256) % 16, Fetch(a) \div 4096, Signed16(Fetch(a + 1)), NoArgs)}
        BY <4>1, Decoded22t
      <4>3. instr.vC = Signed16(Fetch(a + 1))
        BY <4>2 DEF Insn
      <4>4. instr.op # OpGoto /\ instr.op \notin {OpIfEqz, OpIfLez} /\ instr.op \in {OpIfLe, OpIfLt}
        BY <1>4, <3>3 DEF OpGoto, OpIfEqz, OpIfLez, OpIfLe, OpIfLt
      <4>5. Offset(instr) = instr.vC
        BY <4>4 DEF Offset
      <4>. QED
        BY <4>1, <4>3, <4>5 DEF Displacement
    <3>. QED
      BY <1>1, <2>4, <3>1, <3>2, <3>3, OpcodesFollowed
  <2>5. f.to = IF op \in Branches THEN {a + Displacement(a)} ELSE {}
    BY <1>5, <1>8, <2>4
  <2>. QED
    BY <1>5, <1>8, <2>1, <2>2, <2>3, <2>5
<1>. QED
  BY <1>7, <1>8

\* What is told of a packed switch: its payload, and what is read of its table.
LEMMA SwitchTold ==
  ASSUME method \in Methods, NEW a \in CodeInside, NEW f \in FlowsAt(a), OpcodeAt(a) = OpPackedSwitch
  PROVE  /\ f.payloads = Payload(a, <<Fetch(a + 1), Fetch(a + 2)>>, PackedSwitchSignature)
         /\ f.to = PackedTargets(a, <<Fetch(a + 1), Fetch(a + 2)>>)
<1>. DEFINE wide == <<Fetch(a + 1), Fetch(a + 2)>>
<1>1. OpcodeAt(a) \in Opcodes /\ OpcodeAt(a) = 43
  BY InstructionRead DEF OpPackedSwitch
<1>2. Format(OpcodeAt(a)) = "31t"
  BY <1>1, FormatsFollowed
<1>3. Decoded(a) = {Insn(OpcodeAt(a), Fetch(a) \div 256, wide, 0, NoArgs)}
  BY <1>2, Decoded31t DEF wide
<1>. HIDE DEF wide
<1>4. PICK instr \in Decoded(a) : \E s \in StringsAdded(instr) : f = Emulated(a, instr, s)
  BY <1>3, EmulatedIs
<1>5. instr.op = OpPackedSwitch /\ instr.vB = wide
  BY <1>3, <1>4 DEF Insn
<1>0. OpPackedSwitch \notin Branches /\ OpPackedSwitch # OpFillArrayData
  BY DEF Branches, OpPackedSwitch, OpFillArrayData, OpGoto, OpIfLt, OpIfLe, OpIfEqz, OpIfLez
<1>6. f.payloads = Payload(a, wide, PackedSwitchSignature) /\ f.to = PackedTargets(a, wide)
  <2>1. PICK s \in StringsAdded(instr) : f = Emulated(a, instr, s)
    BY <1>4
  <2>2. f.payloads = Payload(a, wide, PackedSwitchSignature)
    BY <1>5, <1>0, <2>1 DEF Emulated
  <2>3. f.to = PackedTargets(a, wide)
    BY <1>5, <1>0, <2>1 DEF Emulated
  <2>. QED
    BY <2>2, <2>3
<1>. QED
  BY <1>6 DEF wide

\* The count of a payload's entries is in the file.
LEMMA PayloadRead ==
  ASSUME method \in Methods, NEW a \in CodeInside, NEW value,
         NEW p \in Payload(a, <<Fetch(a + 1), Fetch(a + 2)>>, PackedSwitchSignature)
  PROVE  p = a + Fetch(a + 1) /\ p \in Nat /\ Fetch(p) = PackedSwitchSignature /\ Fetch(p + 1) \in Nat
<1>. DEFINE n == Len(method.code)
            k == Len(method.behind)
<1>1. p = a + Fetch(a + 1) /\ p < n + k /\ Fetch(p) = PackedSwitchSignature
  BY DEF Payload
<1>2. method.code \in Seq(Unit) /\ method.behind \in Seq(Unit) /\ n \in Nat /\ k \in Nat /\ k >= 4 /\ method.behind[k] # PackedSwitchSignature
  BY MethodAssumption
<1>3. a \in Nat /\ Fetch(a + 1) \in Unit
  BY InstructionRead
<1>4. p \in Nat
  BY <1>1, <1>3, UnitNat
<1>5. Fetch(p) = (method.code \o method.behind)[p + 1]
  BY DEF Fetch, UnitAt
<1>6. (method.code \o method.behind)[n + k] = method.behind[k]
  <2>1. \A s, t \in Seq(Unit) : Len(t) >= 4 => (s \o t)[Len(s) + Len(t)] = t[Len(t)]
    OBVIOUS
  <2>. QED
    BY <1>2, <2>1
<1>7. FileEnd = n + k
  BY DEF FileEnd
<1>. HIDE DEF n, k
<1>8. p + 1 # n + k
  BY <1>1, <1>2, <1>5, <1>6
<1>9. p + 1 < FileEnd /\ p + 1 \in Nat
  BY <1>1, <1>2, <1>4, <1>7, <1>8
<1>10. Fetch(p + 1) \in Nat
  BY <1>9, UnitRead, UnitNat
<1>. QED
  BY <1>1, <1>4, <1>10

LEMMA SwitchIsRead ==
  ASSUME method \in Methods, NEW a \in CodeInside, NEW f \in FlowsAt(a), OpcodeAt(a) = OpPackedSwitch,
         NEW p \in f.payloads
  PROVE  /\ \A i \in 0 .. Fetch(p + 1) - 1 : i % 2 = 0 => { a + t : t \in TableEntry(p, i) } \subseteq f.to
         /\ Fetch(p + 1) <= 1 => f.to = UNION { { a + t : t \in TableEntry(p, i) } : i \in 0 .. Fetch(p + 1) - 1 }
<1>. DEFINE P == Payload(a, <<Fetch(a + 1), Fetch(a + 2)>>, PackedSwitchSignature)
            target(i) == { a + t : t \in TableEntry(p, i) }
            n == Fetch(p + 1)
<1>1. f.payloads = P /\ f.to = PackedTargets(a, <<Fetch(a + 1), Fetch(a + 2)>>)
  BY SwitchTold
<1>2. \A q \in P : q = a + Fetch(a + 1)
  BY PayloadRead
<1>3. n \in Nat
  BY <1>1, PayloadRead
<1>4. P = {p}
  BY <1>1, <1>2
<1>5. f.to = UNION { UNION { { a + t : t \in TableEntry(q, EntryRead(i)) } : i \in 0 .. Fetch(q + 1) - 1 } : q \in P }
  BY <1>1 DEF PackedTargets
<1>6. f.to = UNION { target(EntryRead(i)) : i \in 0 .. n - 1 }
  BY <1>4, <1>5
<1>. HIDE DEF P, target, n
<1>7. ASSUME NEW i \in 0 .. n - 1, i % 2 = 0 PROVE target(i) \subseteq f.to
  <2>1. i \div 2 \in 0 .. n - 1 /\ 2 * (i \div 2) = i
    BY <1>3, <1>7
  <2>2. EntryRead(i \div 2) = i
    BY <2>1 DEF EntryRead
  <2>. QED
    BY <1>6, <2>1, <2>2
<1>8. ASSUME n <= 1 PROVE f.to = UNION { target(i) : i \in 0 .. n - 1 }
  <2>1. \A i \in 0 .. n - 1 : EntryRead(i) = i
    BY <1>3, <1>8 DEF EntryRead
  <2>. QED
    BY <1>6, <2>1
<1>. QED
  BY <1>7, <1>8 DEF target, n

\* What is read of the method stays as it is while the method does.
LEMMA CodeStays ==
  ASSUME method' = method
  PROVE  /\ \A a : Fetch(a)' = Fetch(a)
         /\ \A a : OpcodeAt(a)' = OpcodeAt(a)
         /\ \A a : Decoded(a)' = Decoded(a)
         /\ \A a : FlowsAt(a)' = FlowsAt(a)
         /\ CodeInside' = CodeInside
         /\ CodeLaidOut' = CodeLaidOut
<1>1. \A a : Fetch(a)' = Fetch(a)
  BY DEF Fetch, UnitAt
<1>2. \A a : OpcodeAt(a)' = OpcodeAt(a)
  BY <1>1 DEF OpcodeAt
<1>3. \A a : Decoded(a)' = Decoded(a)
  <2>. TAKE a
  <2>1. OpcodeAt(a)' = OpcodeAt(a) /\ Fetch(a)' = Fetch(a) /\ Fetch(a + 1)' = Fetch(a + 1)
    BY <1>1, <1>2
  <2>2. Fetch(a + 2)' = Fetch(a + 2) /\ Fetch(a + 3)' = Fetch(a + 3) /\ Fetch(a + 4)' = Fetch(a + 4)
    BY <1>1
  <2>. QED
    BY <2>1, <2>2, SMTT(60) DEF Decoded
<1>4. \A a : Width(a)' = Width(a)
  BY <1>1, <1>2 DEF Width
<1>5. \A a, v, s : Payload(a, v, s)' = Payload(a, v, s)
  BY <1>1 DEF Payload
<1>6. \A p, i : TableEntry(p, i)' = TableEntry(p, i)
  BY <1>1 DEF TableEntry
<1>7. \A a, v : PackedTargets(a, v)' = PackedTargets(a, v)
  BY <1>1, <1>5, <1>6 DEF PackedTargets
<1>8. \A a, instr, s : Emulated(a, instr, s)' = Emulated(a, instr, s)
  BY <1>4, <1>5, <1>7 DEF Emulated
<1>9. \A a : FlowsAt(a)' = FlowsAt(a)
  <2>. TAKE a
  <2>1. Decoded(a)' = Decoded(a)
    BY <1>3
  <2>. DEFINE told(instr) == { Emulated(a, instr, s) : s \in StringsAdded(instr) }
  <2>2. \A instr : told(instr)' = told(instr)
    BY <1>8
  <2>. HIDE DEF told
  <2>3. { told(instr) : instr \in Decoded(a) }' = { told(instr) : instr \in Decoded(a) }
    BY <2>1, <2>2
  <2>4. (UNION { told(instr) : instr \in Decoded(a) })' = UNION { told(instr) : instr \in Decoded(a) }
    BY <2>3
  <2>5. FlowsAt(a) = IF Decoded(a) = {} THEN {NotDecoded} ELSE UNION { told(instr) : instr \in Decoded(a) }
    BY DEF FlowsAt, told
  <2>6. (FlowsAt(a) = IF Decoded(a) = {} THEN {NotDecoded} ELSE UNION { told(instr) : instr \in Decoded(a) })'
    BY DEF FlowsAt, told
  <2>7. NotDecoded' = NotDecoded
    BY DEF NotDecoded
  <2>. QED
    BY <2>1, <2>4, <2>5, <2>6, <2>7
<1>10. CodeInside' = CodeInside
  BY DEF CodeInside
<1>11. \A a : Displacement(a)' = Displacement(a)
  BY <1>1, <1>2 DEF Displacement
<1>12. \A a : LeadsTo(a)' = LeadsTo(a)
  <2>. TAKE a
  <2>1. \A p, i : { a + t : t \in TableEntry(p, i) }' = { a + t : t \in TableEntry(p, i) }
    BY <1>6
  <2>. DEFINE leads(p) == UNION { { a + t : t \in TableEntry(p, i) } : i \in 0 .. Fetch(p + 1) - 1 }
              P == Payload(a, <<Fetch(a + 1), Fetch(a + 2)>>, PackedSwitchSignature)
  <2>2. \A p : leads(p)' = leads(p)
    BY <1>1, <2>1
  <2>3. P' = P
    BY <1>1, <1>5
  <2>4. LeadsTo(a) = CASE Format(OpcodeAt(a)) \in WithTarget \ {"30t"} -> {a + Displacement(a)}
                       [] OpcodeAt(a) = OpPackedSwitch -> UNION { leads(p) : p \in P }
                       [] OTHER -> {}
    BY DEF LeadsTo
  <2>5. (LeadsTo(a) = CASE Format(OpcodeAt(a)) \in WithTarget \ {"30t"} -> {a + Displacement(a)}
                        [] OpcodeAt(a) = OpPackedSwitch -> UNION { leads(p) : p \in P }
                        [] OTHER -> {})'
    BY DEF LeadsTo
  <2>. HIDE DEF leads, P
  <2>6. { leads(p) : p \in P }' = { leads(p) : p \in P }
    BY <2>2, <2>3
  <2>7. (UNION { leads(p) : p \in P })' = UNION { leads(p) : p \in P }
    BY <2>6
  <2>. QED
    BY <1>2, <1>11, <2>4, <2>5, <2>7
<1>13. \A a : Extent(a)' = Extent(a)
  BY <1>1, <1>2 DEF Extent
<1>14. CodeLaidOut' = CodeLaidOut
  BY <1>12, <1>13 DEF CodeLaidOut
<1>. QED
  BY <1>1, <1>2, <1>3, <1>9, <1>10, <1>14

FlowInv ==
  /\ method \in Methods
  /\ todo \subseteq CodeInside
  /\ DOMAIN flow \subseteq CodeInside
  /\ todo \cap DOMAIN flow = {}
  /\ \A a \in DOMAIN flow : flow[a] \in FlowsAt(a)

LEMMA FlowInitial == CodeInit => FlowInv
<1>. SUFFICES ASSUME NEW m \in Methods, CodeStart(m) PROVE FlowInv
  BY DEF CodeInit
<1>1. method = m /\ todo = {0} /\ flow = << >>
  BY DEF CodeStart
<1>2. DOMAIN flow = {}
  BY <1>1
<1>3. m.code \in Seq(Unit) /\ m.code # << >>
  BY MethodAssumption
<1>4. Len(m.code) \in Nat /\ Len(m.code) > 0
  BY <1>3
<1>5. 0 \in CodeInside
  BY <1>1, <1>4 DEF CodeInside
<1>. QED
  BY <1>1, <1>2, <1>5 DEF FlowInv

\* The host emulates an address: what it is told, and where it is led.
LEMMA EmulateTold ==
  ASSUME FlowInv, NEW a \in todo, EmulateAt(a)
  PROVE  /\ method' = method
         /\ \E f \in FlowsAt(a) :
              /\ todo' = (todo \cup (Successors(a, f) \cap CodeInside)) \ (DOMAIN flow \cup {a})
              /\ DOMAIN flow' = DOMAIN flow \cup {a}
              /\ flow'[a] = f
              /\ \A x \in DOMAIN flow : flow'[x] = flow[x]
<1>1. PICK f \in FlowsAt(a) :
        /\ flow' = [ x \in DOMAIN flow \cup {a} |-> IF x = a THEN f ELSE flow[x] ]
        /\ todo' = (todo \cup (Successors(a, f) \cap 0 .. Len(method.code) - 1)) \ (DOMAIN flow \cup {a})
  BY DEF EmulateAt
<1>2. a \notin DOMAIN flow
  BY DEF FlowInv
<1>3. DOMAIN flow' = DOMAIN flow \cup {a}
  BY <1>1
<1>4. flow'[a] = f
  BY <1>1
<1>5. \A x \in DOMAIN flow : flow'[x] = flow[x]
  BY <1>1, <1>2
<1>6. todo' = (todo \cup (Successors(a, f) \cap CodeInside)) \ (DOMAIN flow \cup {a})
  BY <1>1 DEF CodeInside
<1>7. method' = method
  BY DEF EmulateAt
<1>. QED
  BY <1>3, <1>4, <1>5, <1>6, <1>7

LEMMA FlowStep ==
  ASSUME FlowInv, [CodeNext]_codeVars
  PROVE  FlowInv'
<1>1. CASE UNCHANGED codeVars
  <2>1. method' = method /\ todo' = todo /\ flow' = flow
    BY <1>1 DEF codeVars
  <2>2. (\A a : FlowsAt(a)' = FlowsAt(a)) /\ CodeInside' = CodeInside
    BY <2>1, CodeStays
  <2>. QED
    BY <2>1, <2>2 DEF FlowInv
<1>2. ASSUME NEW a \in todo, EmulateAt(a) PROVE FlowInv'
  <2>1. method' = method
    BY <1>2, EmulateTold
  <2>2. PICK f \in FlowsAt(a) :
          /\ todo' = (todo \cup (Successors(a, f) \cap CodeInside)) \ (DOMAIN flow \cup {a})
          /\ DOMAIN flow' = DOMAIN flow \cup {a}
          /\ flow'[a] = f
          /\ \A x \in DOMAIN flow : flow'[x] = flow[x]
    BY <1>2, EmulateTold
  <2>3. (\A x : FlowsAt(x)' = FlowsAt(x)) /\ CodeInside' = CodeInside
    BY <2>1, CodeStays
  <2>4. method' \in Methods
    BY <2>1 DEF FlowInv
  <2>5. todo' \subseteq CodeInside'
    BY <2>2, <2>3 DEF FlowInv
  <2>6. DOMAIN flow' \subseteq CodeInside'
    BY <1>2, <2>2, <2>3 DEF FlowInv
  <2>7. todo' \cap DOMAIN flow' = {}
    BY <2>2
  <2>8. \A x \in DOMAIN flow' : flow'[x] \in FlowsAt(x)'
    BY <2>2, <2>3 DEF FlowInv
  <2>. QED
    BY <2>4, <2>5, <2>6, <2>7, <2>8 DEF FlowInv
<1>. QED
  BY <1>1, <1>2 DEF CodeNext

THEOREM FlowHolds == CodeSpec => []FlowInv
<1>. QED
  BY FlowInitial, FlowStep, PTL DEF CodeSpec

LEMMA FlowOfMethod == FlowInv => FlowIsTheInstructions
<1>. SUFFICES ASSUME FlowInv PROVE FlowIsTheInstructions
  OBVIOUS
<1>0. method \in Methods /\ \A a \in DOMAIN flow : a \in CodeInside /\ flow[a] \in FlowsAt(a)
  BY DEF FlowInv
<1>1. TablesAgree
  <2>. SUFFICES ASSUME NEW a \in DOMAIN flow, NEW op, op = OpcodeAt(a)
                PROVE  /\ WidthOf(op) = UnitsOf(Format(op))
                       /\ IndexTypeOf(op) \notin {"None", "Unknown"} <=> Format(op) \in WithIndex
                       /\ "branch" \in Flags(op) <=> Format(op) \in WithTarget
                       /\ Flags(op) = {} <=> Format(op) = "00x"
    BY DEF TablesAgree
  <2>1. op \in Opcodes
    BY <1>0, InstructionRead
  <2>. QED
    BY <2>1, TablesAgreeOn
<1>2. FlowOfTheFlags
  <2>. SUFFICES ASSUME NEW a \in DOMAIN flow, NEW op, op = OpcodeAt(a)
                PROVE  IF op \in NotFollowed THEN flow[a].to = {} /\ flow[a].falls
                       ELSE op # OpPackedSwitch /\ Decoded(a) # {} =>
                              /\ flow[a].to = IF "branch" \in Flags(op) THEN {a + Displacement(a)} ELSE {}
                              /\ flow[a].falls <=> "continue" \in Flags(op)
                              /\ flow[a].returns <=> "return" \in Flags(op)
    BY DEF FlowOfTheFlags
  <2>1. a \in CodeInside /\ flow[a] \in FlowsAt(a)
    BY <1>0
  <2>. QED
    BY <1>0, <2>1, FlowIsFollowed
<1>3. SwitchTargets
  <2>. SUFFICES ASSUME NEW a \in DOMAIN flow, OpcodeAt(a) = OpPackedSwitch, NEW p \in flow[a].payloads
                PROVE  /\ \A i \in 0 .. Fetch(p + 1) - 1 : i % 2 = 0 => { a + t : t \in TableEntry(p, i) } \subseteq flow[a].to
                       /\ Fetch(p + 1) <= 1 => flow[a].to = UNION { { a + t : t \in TableEntry(p, i) } : i \in 0 .. Fetch(p + 1) - 1 }
    BY DEF SwitchTargets
  <2>1. a \in CodeInside /\ flow[a] \in FlowsAt(a)
    BY <1>0
  <2>. QED
    BY <1>0, <2>1, SwitchIsRead
<1>. QED
  BY <1>1, <1>2, <1>3 DEF FlowIsTheInstructions

\* What emulate tells the host of an instruction, where the flow goes on,
\* branches or returns, is what libdex's table of flags and the instruction's
\* units say; the four tables agree about every opcode, and what is read of the
\* table of a packed switch is exact with one entry or none.
THEOREM FollowsInstructions == CodeSpec => []FlowIsTheInstructions
<1>. QED
  BY FlowHolds, FlowOfMethod, PTL

-----------------------------------------------------------------------------
(* The host is led from instruction to instruction.                        *)

LEMMA WidthIsExtent ==
  ASSUME method \in Methods, NEW a \in CodeInside
  PROVE  Width(a) = Extent(a)
<1>1. Fetch(a + 1) \in Nat /\ Fetch(a + 2) \in Nat /\ OpcodeAt(a) \in Opcodes
  BY InstructionRead, UnitNat
<1>2. PackedSwitchSignature # SparseSwitchSignature /\ PackedSwitchSignature # ArrayDataSignature
      /\ SparseSwitchSignature # ArrayDataSignature
  BY DEF PackedSwitchSignature, SparseSwitchSignature, ArrayDataSignature
<1>3. WidthOf(OpcodeAt(a)) = UnitsOf(Format(OpcodeAt(a)))
  BY <1>1, TablesAgreeOn
<1>4. PackedWidth(Fetch(a + 1)) = 4 + 2 * Fetch(a + 1) /\ 2 + Fetch(a + 1) * 4 = 2 + 4 * Fetch(a + 1)
  BY <1>1 DEF PackedWidth
<1>5. CASE Fetch(a) = PackedSwitchSignature
  <2>1. Width(a) = PackedWidth(Fetch(a + 1))
    BY <1>2, <1>5 DEF Width
  <2>2. Extent(a) = 4 + 2 * Fetch(a + 1)
    BY <1>2, <1>5 DEF Extent
  <2>. QED
    BY <1>4, <2>1, <2>2
<1>6. CASE Fetch(a) = SparseSwitchSignature
  <2>1. Width(a) = 2 + Fetch(a + 1) * 4
    BY <1>2, <1>6 DEF Width
  <2>2. Extent(a) = 2 + 4 * Fetch(a + 1)
    BY <1>2, <1>6 DEF Extent
  <2>. QED
    BY <1>4, <2>1, <2>2
<1>7. CASE Fetch(a) = ArrayDataSignature
  BY <1>2, <1>7 DEF Width, Extent
<1>8. CASE Fetch(a) \notin {PackedSwitchSignature, SparseSwitchSignature, ArrayDataSignature}
  <2>1. Width(a) = WidthOf(OpcodeAt(a))
    BY <1>8 DEF Width
  <2>2. Extent(a) = UnitsOf(Format(OpcodeAt(a)))
    BY <1>8 DEF Extent
  <2>. QED
    BY <1>3, <2>1, <2>2
<1>. QED
  BY <1>5, <1>6, <1>7, <1>8

LEMMA LongGoto ==
  ASSUME NEW op \in Opcodes, Format(op) = "30t"
  PROVE  op \in NotFollowed
<1>1. op = 42
  BY SMTT(60) DEF Format, Opcodes
<1>. QED
  BY <1>1, OpcodesFollowed

\* Where emulate says an instruction leads, its units say it leads, if a packed
\* switch has one entry or none.
LEMMA ToIsLedTo ==
  ASSUME method \in Methods, NEW a \in CodeInside, NEW f \in FlowsAt(a), Decoded(a) # {},
         OpcodeAt(a) = OpPackedSwitch => \A p \in f.payloads : Fetch(p + 1) <= 1
  PROVE  f.to \subseteq LeadsTo(a)
<1>. DEFINE op == OpcodeAt(a)
            leads(p) == UNION { { a + t : t \in TableEntry(p, i) } : i \in 0 .. Fetch(p + 1) - 1 }
            P == Payload(a, <<Fetch(a + 1), Fetch(a + 2)>>, PackedSwitchSignature)
<1>1. op \in Opcodes
  BY InstructionRead
<1>2. CASE op = OpPackedSwitch
  <2>1. f.payloads = P /\ f.to = PackedTargets(a, <<Fetch(a + 1), Fetch(a + 2)>>)
    BY <1>2, SwitchTold
  <2>2. P = {} => f.to = {}
    BY <2>1 DEF PackedTargets
  <2>3. \A p \in P : f.to = leads(p)
    BY <1>2, <2>1, SwitchIsRead
  <2>4. Format(op) = "31t"
    BY <1>1, <1>2, FormatsFollowed DEF OpPackedSwitch
  <2>5. Format(op) \notin WithTarget \ {"30t"}
    BY <2>4 DEF WithTarget
  <2>6. LeadsTo(a) = UNION { leads(p) : p \in P }
    BY <1>2, <2>5 DEF LeadsTo
  <2>. HIDE DEF leads, P
  <2>. QED
    BY <2>2, <2>3, <2>6
<1>3. CASE op # OpPackedSwitch /\ op \in NotFollowed
  BY <1>3, FlowIsFollowed
<1>4. CASE op # OpPackedSwitch /\ op \notin NotFollowed
  <2>1. f.to = IF "branch" \in Flags(op) THEN {a + Displacement(a)} ELSE {}
    BY <1>4, FlowIsFollowed
  <2>2. "branch" \in Flags(op) <=> Format(op) \in WithTarget
    BY <1>1, TablesAgreeOn
  <2>3. Format(op) # "30t"
    BY <1>1, <1>4, LongGoto
  <2>4. Format(op) \in WithTarget => LeadsTo(a) = {a + Displacement(a)}
    BY <1>4, <2>3 DEF LeadsTo
  <2>. QED
    BY <2>1, <2>2, <2>4
<1>. QED
  BY <1>2, <1>3, <1>4

LEMMA LedToStarts ==
  ASSUME method \in Methods, NEW a \in CodeInside, NEW f \in FlowsAt(a), a \in method.starts, CodeLaidOut,
         OpcodeAt(a) = OpPackedSwitch => \A p \in f.payloads : Fetch(p + 1) <= 1
  PROVE  Successors(a, f) \cap CodeInside \subseteq method.starts
<1>1. (LeadsTo(a) \cup {a + Extent(a)}) \cap CodeInside \subseteq method.starts
  BY DEF CodeLaidOut, CodeInside
<1>2. CASE Decoded(a) = {}
  <2>1. f = NotDecoded
    BY <1>2 DEF FlowsAt
  <2>2. f.to = {} /\ f.falls = FALSE
    BY <2>1 DEF NotDecoded
  <2>. QED
    BY <2>2 DEF Successors
<1>3. CASE Decoded(a) # {}
  <2>1. f.to \subseteq LeadsTo(a)
    BY <1>3, ToIsLedTo
  <2>2. PICK instr \in Decoded(a) : \E s \in StringsAdded(instr) : f = Emulated(a, instr, s)
    BY <1>3, EmulatedIs
  <2>3. f.size = Width(a)
    BY <2>2 DEF Emulated
  <2>4. f.size = Extent(a)
    BY <2>3, WidthIsExtent
  <2>5. Successors(a, f) \subseteq LeadsTo(a) \cup {a + Extent(a)}
    BY <2>1, <2>4 DEF Successors
  <2>. QED
    BY <1>1, <2>5
<1>. QED
  BY <1>2, <1>3

SwitchesShort == \A a \in DOMAIN flow : \A p \in flow[a].payloads :
                   Fetch(p) = PackedSwitchSignature => Fetch(p + 1) <= 1

LEMMA WholeIs == DecodesWhole <=> (CodeLaidOut /\ SwitchesShort => DOMAIN flow \cup todo \subseteq method.starts)
  BY DEF DecodesWhole, SwitchesShort

LEMMA WholeInitial == CodeInit => DecodesWhole
<1>. SUFFICES ASSUME NEW m \in Methods, CodeStart(m), CodeLaidOut PROVE DOMAIN flow \cup todo \subseteq method.starts
  BY WholeIs DEF CodeInit
<1>1. method = m /\ todo = {0} /\ flow = << >>
  BY DEF CodeStart
<1>2. DOMAIN flow = {}
  BY <1>1
<1>3. 0 \in method.starts
  BY DEF CodeLaidOut
<1>. QED
  BY <1>1, <1>2, <1>3

LEMMA WholeStep ==
  ASSUME FlowInv, DecodesWhole, [CodeNext]_codeVars
  PROVE  DecodesWhole'
<1>1. method' = method
  <2>1. CASE UNCHANGED codeVars
    BY <2>1 DEF codeVars
  <2>2. ASSUME NEW a \in todo, EmulateAt(a) PROVE method' = method
    BY <2>2 DEF EmulateAt
  <2>. QED
    BY <2>1, <2>2 DEF CodeNext
<1>2. (\A a : Fetch(a)' = Fetch(a)) /\ CodeLaidOut' = CodeLaidOut
  BY <1>1, CodeStays
<1>3. (DecodesWhole <=> (CodeLaidOut /\ SwitchesShort => DOMAIN flow \cup todo \subseteq method.starts))'
  BY WholeIs, PTL
<1>. SUFFICES ASSUME CodeLaidOut, SwitchesShort' PROVE DOMAIN flow' \cup todo' \subseteq method'.starts
  BY <1>2, <1>3
<1>4. CASE UNCHANGED codeVars
  <2>1. flow' = flow /\ todo' = todo
    BY <1>4 DEF codeVars
  <2>2. SwitchesShort
    BY <1>2, <2>1 DEF SwitchesShort
  <2>. QED
    BY <1>1, <2>1, <2>2, WholeIs
<1>5. ASSUME NEW a \in todo, EmulateAt(a) PROVE DOMAIN flow' \cup todo' \subseteq method'.starts
  <2>1. PICK f \in FlowsAt(a) :
          /\ todo' = (todo \cup (Successors(a, f) \cap CodeInside)) \ (DOMAIN flow \cup {a})
          /\ DOMAIN flow' = DOMAIN flow \cup {a}
          /\ flow'[a] = f
          /\ \A x \in DOMAIN flow : flow'[x] = flow[x]
    BY <1>5, EmulateTold
  <2>2. \A x \in DOMAIN flow \cup {a} : \A p \in flow'[x].payloads :
          Fetch(p) = PackedSwitchSignature => Fetch(p + 1) <= 1
    BY <1>2, <2>1 DEF SwitchesShort
  <2>3. SwitchesShort
    BY <2>1, <2>2 DEF SwitchesShort
  <2>4. DOMAIN flow \cup todo \subseteq method.starts
    BY <2>3, WholeIs
  <2>5. method \in Methods /\ a \in CodeInside
    BY <1>5 DEF FlowInv
  <2>6. ASSUME OpcodeAt(a) = OpPackedSwitch, NEW p \in f.payloads PROVE Fetch(p + 1) <= 1
    <3>1. p \in Payload(a, <<Fetch(a + 1), Fetch(a + 2)>>, PackedSwitchSignature)
      BY <2>5, <2>6, SwitchTold
    <3>2. Fetch(p) = PackedSwitchSignature
      BY <3>1 DEF Payload
    <3>. QED
      BY <2>1, <2>2, <2>6, <3>2
  <2>7. Successors(a, f) \cap CodeInside \subseteq method.starts
    BY <1>5, <2>4, <2>5, <2>6, LedToStarts
  <2>. QED
    BY <1>1, <1>5, <2>1, <2>4, <2>7
<1>. QED
  BY <1>4, <1>5 DEF CodeNext

\* In a method laid out as a compiler lays it out, the host is led to the
\* beginnings of instructions and payloads only, for any code: the widths the
\* assembler reports, those of payloads the host runs into as well, and the
\* targets it adds never lead into the middle of one.
THEOREM LeadsToInstructions == CodeSpec => []DecodesWhole
<1>1. CodeInit => FlowInv /\ DecodesWhole
  BY FlowInitial, WholeInitial
<1>2. (FlowInv /\ DecodesWhole) /\ [CodeNext]_codeVars => (FlowInv /\ DecodesWhole)'
  BY FlowStep, WholeStep
<1>. QED
  BY <1>1, <1>2, PTL DEF CodeSpec

-----------------------------------------------------------------------------
(* The listing of an instruction, format by format.                        *)

LEMMA UnitParts ==
  ASSUME NEW u \in Unit
  PROVE  /\ u % 256 \in 0 .. 255 /\ u \div 256 \in 0 .. 255
         /\ (u \div 256) % 16 \in 0 .. 15 /\ u \div 4096 \in 0 .. 15
         /\ (u % 256) + 256 * (u \div 256) = u
         /\ (u % 256) + 256 * ((u \div 256) % 16) + 4096 * (u \div 4096) = u
<1>0. u \in Nat /\ u <= 65535
  BY SMT DEF Unit
<1>1. u % 256 \in 0 .. 255 /\ u \div 256 \in 0 .. 255
  <2>1. u % 256 \in 0 .. 255
    BY <1>0, SMT
  <2>2. u \div 256 \in 0 .. 255
    BY <1>0, SMT
  <2>. QED
    BY <2>1, <2>2
<1>2. (u \div 256) % 16 \in 0 .. 15 /\ u \div 4096 \in 0 .. 15
  <2>1. (u \div 256) % 16 \in 0 .. 15
    BY <1>1, SMT
  <2>2. u \div 4096 \in 0 .. 15
    BY <1>0, SMT
  <2>. QED
    BY <2>1, <2>2
<1>3. (u % 256) + 256 * (u \div 256) = u
  BY DEF Unit
<1>4. (u % 256) + 256 * ((u \div 256) % 16) + 4096 * (u \div 4096) = u
  BY SMT DEF Unit
<1>. QED
  BY <1>1, <1>2, <1>3, <1>4

LEMMA SignsAre ==
  /\ \A x \in 0 .. 255 : /\ Signed8(x) \in Int /\ Unsigned(Signed8(x), 256) = x /\ Signed8(x) % 256 = x
  /\ \A x \in Unit : /\ Signed16(x) \in Int /\ Unsigned(Signed16(x), 65536) = x
<1>1. \A x \in 0 .. 255 : /\ Signed8(x) \in Int /\ Unsigned(Signed8(x), 256) = x /\ Signed8(x) % 256 = x
  BY SMT DEF Signed8, Unsigned
<1>2. \A x \in Unit : /\ Signed16(x) \in Int /\ Unsigned(Signed16(x), 65536) = x
  BY SMT DEF Signed16, Unsigned, Unit
<1>. QED
  BY <1>1, <1>2

LEMMA WrittenAs ==
  ASSUME NEW a \in Nat, NEW format
  PROVE  /\ format \in OneUnit => Written(a, format) = <<Fetch(a)>>
         /\ format \in TwoUnits \ {"20t"} => Written(a, format) = <<Fetch(a), Fetch(a + 1)>>
         /\ format = "20t" => Written(a, format) = <<OpcodeAt(a), Fetch(a + 1)>>
         /\ format \in ThreeUnits \ {"32x"} => Written(a, format) = <<Fetch(a), Fetch(a + 1), Fetch(a + 2)>>
         /\ format = "32x" => Written(a, format) = <<OpcodeAt(a), Fetch(a + 1), Fetch(a + 2)>>
<1>. DEFINE units(n) == [ i \in 1 .. n |-> Fetch(a + i - 1) ]
<1>1. units(1) = <<Fetch(a)>> /\ units(2) = <<Fetch(a), Fetch(a + 1)>> /\ units(3) = <<Fetch(a), Fetch(a + 1), Fetch(a + 2)>>
  <2>1. a + 1 - 1 = a /\ a + 2 - 1 = a + 1 /\ a + 3 - 1 = a + 2
    OBVIOUS
  <2>2. units(1) = <<Fetch(a)>>
    BY <2>1
  <2>3. units(2) = <<Fetch(a), Fetch(a + 1)>>
    BY <2>1
  <2>4. units(3) = <<Fetch(a), Fetch(a + 1), Fetch(a + 2)>>
    BY <2>1
  <2>. QED
    BY <2>2, <2>3, <2>4
<1>2. Written(a, format) = IF format \in {"20t", "32x"} THEN [units(UnitsOf(format)) EXCEPT ![1] = OpcodeAt(a)] ELSE units(UnitsOf(format))
  BY DEF Written
<1>3. /\ format \in OneUnit => UnitsOf(format) = 1
      /\ format \in TwoUnits => UnitsOf(format) = 2
      /\ format \in ThreeUnits => UnitsOf(format) = 3
  BY DEF UnitsOf, OneUnit, TwoUnits, ThreeUnits
<1>. HIDE DEF units
<1>4. format \in OneUnit => Written(a, format) = <<Fetch(a)>>
  BY <1>1, <1>2, <1>3 DEF OneUnit
<1>5. format \in TwoUnits \ {"20t"} => Written(a, format) = <<Fetch(a), Fetch(a + 1)>>
  BY <1>1, <1>2, <1>3 DEF TwoUnits
<1>6. format \in ThreeUnits \ {"32x"} => Written(a, format) = <<Fetch(a), Fetch(a + 1), Fetch(a + 2)>>
  BY <1>1, <1>2, <1>3 DEF ThreeUnits
<1>7. format = "20t" => Written(a, format) = <<OpcodeAt(a), Fetch(a + 1)>>
  BY <1>1, <1>2, <1>3 DEF TwoUnits
<1>8. format = "32x" => Written(a, format) = <<OpcodeAt(a), Fetch(a + 1), Fetch(a + 2)>>
  BY <1>1, <1>2, <1>3 DEF ThreeUnits
<1>. QED
  BY <1>4, <1>5, <1>6, <1>7, <1>8

LEMMA Listed12x ==
  ASSUME method \in Methods, NEW a \in CodeInside, NEW instr \in Decoded(a), Format(OpcodeAt(a)) = "12x"
  PROVE  Encoded(a, instr.op, Rendered(a, instr)) = Written(a, "12x")
<1>1. a \in Nat /\ Fetch(a) \in Unit /\ Fetch(a + 1) \in Unit /\ Fetch(a + 2) \in Unit
  BY InstructionRead
<1>2. instr = Insn(OpcodeAt(a), (Fetch(a) \div 256) % 16, Fetch(a) \div 4096, 0, NoArgs)
  BY Decoded12x
<1>3. instr.op = OpcodeAt(a)
  BY DecodedOpcode
<1>4. instr.vA = (Fetch(a) \div 256) % 16 /\ instr.vB = Fetch(a) \div 4096 /\ instr.vC = 0
  BY <1>2 DEF Insn
<1>5. Rendered(a, instr) = << Register((Fetch(a) \div 256) % 16), Register(Fetch(a) \div 4096) >>
  BY <1>3, <1>4 DEF Rendered
<1>. DEFINE t == Rendered(a, instr)
<1>6. t[1][2] = (Fetch(a) \div 256) % 16 /\ t[2][2] = Fetch(a) \div 4096
  BY <1>5 DEF Register, Reference, Constant
<1>. HIDE DEF t
<1>7. Encoded(a, OpcodeAt(a), t) = << OpcodeAt(a) + 256 * t[1][2] + 4096 * t[2][2] >>
  BY DEF Encoded
<1>8. Written(a, "12x") = << Fetch(a) >>
  BY <1>1, WrittenAs DEF OneUnit, TwoUnits, ThreeUnits
<1>9. OpcodeAt(a) + 256 * t[1][2] + 4096 * t[2][2] = Fetch(a)
  BY <1>1, <1>6, UnitParts DEF OpcodeAt
<1>. QED
  BY <1>3, <1>7, <1>8, <1>9 DEF t

LEMMA Listed11x ==
  ASSUME method \in Methods, NEW a \in CodeInside, NEW instr \in Decoded(a), Format(OpcodeAt(a)) = "11x"
  PROVE  Encoded(a, instr.op, Rendered(a, instr)) = Written(a, "11x")
<1>1. a \in Nat /\ Fetch(a) \in Unit /\ Fetch(a + 1) \in Unit /\ Fetch(a + 2) \in Unit
  BY InstructionRead
<1>2. instr = Insn(OpcodeAt(a), Fetch(a) \div 256, 0, 0, NoArgs)
  BY Decoded11x
<1>3. instr.op = OpcodeAt(a)
  BY DecodedOpcode
<1>4. instr.vA = Fetch(a) \div 256 /\ instr.vB = 0 /\ instr.vC = 0
  BY <1>2 DEF Insn
<1>5. Rendered(a, instr) = << Register(Fetch(a) \div 256) >>
  BY <1>3, <1>4 DEF Rendered
<1>. DEFINE t == Rendered(a, instr)
<1>6. t[1][2] = Fetch(a) \div 256
  BY <1>5 DEF Register, Reference, Constant
<1>. HIDE DEF t
<1>7. Encoded(a, OpcodeAt(a), t) = << OpcodeAt(a) + 256 * t[1][2] >>
  BY DEF Encoded
<1>8. Written(a, "11x") = << Fetch(a) >>
  BY <1>1, WrittenAs DEF OneUnit, TwoUnits, ThreeUnits
<1>9. OpcodeAt(a) + 256 * t[1][2] = Fetch(a)
  BY <1>1, <1>6, UnitParts DEF OpcodeAt
<1>. QED
  BY <1>3, <1>7, <1>8, <1>9 DEF t

LEMMA Listed10t ==
  ASSUME method \in Methods, NEW a \in CodeInside, NEW instr \in Decoded(a), Format(OpcodeAt(a)) = "10t"
  PROVE  Encoded(a, instr.op, Rendered(a, instr)) = Written(a, "10t")
<1>1. a \in Nat /\ Fetch(a) \in Unit /\ Fetch(a + 1) \in Unit /\ Fetch(a + 2) \in Unit
  BY InstructionRead
<1>2. instr = Insn(OpcodeAt(a), Signed8(Fetch(a) \div 256), 0, 0, NoArgs)
  BY Decoded10t
<1>3. instr.op = OpcodeAt(a)
  BY DecodedOpcode
<1>4. instr.vA = Signed8(Fetch(a) \div 256) /\ instr.vB = 0 /\ instr.vC = 0
  BY <1>2 DEF Insn
<1>5. Rendered(a, instr) = << Reference(a + Signed8(Fetch(a) \div 256)) >>
  BY <1>3, <1>4 DEF Rendered
<1>. DEFINE t == Rendered(a, instr)
<1>6. t[1][2] = a + Signed8(Fetch(a) \div 256)
  BY <1>5 DEF Register, Reference, Constant
<1>. HIDE DEF t
<1>7. Encoded(a, OpcodeAt(a), t) = << OpcodeAt(a) + 256 * Unsigned(t[1][2] - a, 256) >>
  BY DEF Encoded
<1>8. Written(a, "10t") = << Fetch(a) >>
  BY <1>1, WrittenAs DEF OneUnit, TwoUnits, ThreeUnits
<1>9. OpcodeAt(a) + 256 * Unsigned(t[1][2] - a, 256) = Fetch(a)
  <2>1. \A x, y \in Int : x + y - x = y
    OBVIOUS
  <2>2. Fetch(a) \div 256 \in 0 .. 255 /\ (Fetch(a) % 256) + 256 * (Fetch(a) \div 256) = Fetch(a)
    BY <1>1, UnitParts
  <2>3. Signed8(Fetch(a) \div 256) \in Int /\ Unsigned(Signed8(Fetch(a) \div 256), 256) = Fetch(a) \div 256
    BY <2>2, SignsAre
  <2>4. t[1][2] - a = Signed8(Fetch(a) \div 256)
    BY <1>1, <1>6, <2>1, <2>3
  <2>. QED
    BY <2>2, <2>3, <2>4 DEF OpcodeAt
<1>. QED
  BY <1>3, <1>7, <1>8, <1>9 DEF t

LEMMA Listed20t ==
  ASSUME method \in Methods, NEW a \in CodeInside, NEW instr \in Decoded(a), Format(OpcodeAt(a)) = "20t"
  PROVE  Encoded(a, instr.op, Rendered(a, instr)) = Written(a, "20t")
<1>1. a \in Nat /\ Fetch(a) \in Unit /\ Fetch(a + 1) \in Unit /\ Fetch(a + 2) \in Unit
  BY InstructionRead
<1>2. instr = Insn(OpcodeAt(a), Signed16(Fetch(a + 1)), 0, 0, NoArgs)
  BY Decoded20t
<1>3. instr.op = OpcodeAt(a)
  BY DecodedOpcode
<1>4. instr.vA = Signed16(Fetch(a + 1)) /\ instr.vB = 0 /\ instr.vC = 0
  BY <1>2 DEF Insn
<1>5. Rendered(a, instr) = << Reference(a + Signed16(Fetch(a + 1))) >>
  BY <1>3, <1>4 DEF Rendered
<1>. DEFINE t == Rendered(a, instr)
<1>6. t[1][2] = a + Signed16(Fetch(a + 1))
  BY <1>5 DEF Register, Reference, Constant
<1>. HIDE DEF t
<1>7. Encoded(a, OpcodeAt(a), t) = << OpcodeAt(a), Unsigned(t[1][2] - a, 65536) >>
  BY DEF Encoded
<1>8. Written(a, "20t") = << OpcodeAt(a), Fetch(a + 1) >>
  BY <1>1, WrittenAs DEF OneUnit, TwoUnits, ThreeUnits
<1>9. Unsigned(t[1][2] - a, 65536) = Fetch(a + 1)
  <2>1. \A x, y \in Int : x + y - x = y
    OBVIOUS
  <2>2. Signed16(Fetch(a + 1)) \in Int /\ Unsigned(Signed16(Fetch(a + 1)), 65536) = Fetch(a + 1)
    BY <1>1, SignsAre
  <2>. QED
    BY <1>1, <1>6, <2>1, <2>2
<1>. QED
  BY <1>3, <1>7, <1>8, <1>9 DEF t

LEMMA Listed31i ==
  ASSUME method \in Methods, NEW a \in CodeInside, NEW instr \in Decoded(a), Format(OpcodeAt(a)) = "31i"
  PROVE  Encoded(a, instr.op, Rendered(a, instr)) = Written(a, "31i")
<1>1. a \in Nat /\ Fetch(a) \in Unit /\ Fetch(a + 1) \in Unit /\ Fetch(a + 2) \in Unit
  BY InstructionRead
<1>2. instr = Insn(OpcodeAt(a), Fetch(a) \div 256, <<Fetch(a + 1), Fetch(a + 2)>>, 0, NoArgs)
  BY Decoded31i
<1>3. instr.op = OpcodeAt(a)
  BY DecodedOpcode
<1>4. instr.vA = Fetch(a) \div 256 /\ instr.vB = <<Fetch(a + 1), Fetch(a + 2)>> /\ instr.vC = 0
  BY <1>2 DEF Insn
<1>5. Rendered(a, instr) = << Register(Fetch(a) \div 256), Constant(<<Fetch(a + 1), Fetch(a + 2)>>) >>
  BY <1>3, <1>4 DEF Rendered
<1>. DEFINE t == Rendered(a, instr)
<1>6. t[1][2] = Fetch(a) \div 256 /\ t[2][2] = <<Fetch(a + 1), Fetch(a + 2)>>
  BY <1>5 DEF Register, Reference, Constant
<1>. HIDE DEF t
<1>7. Encoded(a, OpcodeAt(a), t) = << OpcodeAt(a) + 256 * t[1][2], t[2][2][1], t[2][2][2] >>
  BY DEF Encoded
<1>8. Written(a, "31i") = << Fetch(a), Fetch(a + 1), Fetch(a + 2) >>
  BY <1>1, WrittenAs DEF OneUnit, TwoUnits, ThreeUnits
<1>9. OpcodeAt(a) + 256 * t[1][2] = Fetch(a)
  BY <1>1, <1>6, UnitParts DEF OpcodeAt
<1>10. t[2][2][1] = Fetch(a + 1)
  BY <1>6
<1>11. t[2][2][2] = Fetch(a + 2)
  BY <1>6
<1>. QED
  BY <1>3, <1>7, <1>8, <1>9, <1>10, <1>11 DEF t

LEMMA Listed21s ==
  ASSUME method \in Methods, NEW a \in CodeInside, NEW instr \in Decoded(a), Format(OpcodeAt(a)) = "21s"
  PROVE  Encoded(a, instr.op, Rendered(a, instr)) = Written(a, "21s")
<1>1. a \in Nat /\ Fetch(a) \in Unit /\ Fetch(a + 1) \in Unit /\ Fetch(a + 2) \in Unit
  BY InstructionRead
<1>2. instr = Insn(OpcodeAt(a), Fetch(a) \div 256, Signed16(Fetch(a + 1)), 0, NoArgs)
  BY Decoded21s
<1>3. instr.op = OpcodeAt(a)
  BY DecodedOpcode
<1>4. instr.vA = Fetch(a) \div 256 /\ instr.vB = Signed16(Fetch(a + 1)) /\ instr.vC = 0
  BY <1>2 DEF Insn
<1>5. Rendered(a, instr) = << Register(Fetch(a) \div 256), Constant(Signed16(Fetch(a + 1))) >>
  BY <1>3, <1>4 DEF Rendered
<1>. DEFINE t == Rendered(a, instr)
<1>6. t[1][2] = Fetch(a) \div 256 /\ t[2][2] = Signed16(Fetch(a + 1))
  BY <1>5 DEF Register, Reference, Constant
<1>. HIDE DEF t
<1>7. Encoded(a, OpcodeAt(a), t) = << OpcodeAt(a) + 256 * t[1][2], Unsigned(t[2][2], 65536) >>
  BY DEF Encoded
<1>8. Written(a, "21s") = << Fetch(a), Fetch(a + 1) >>
  BY <1>1, WrittenAs DEF OneUnit, TwoUnits, ThreeUnits
<1>9. OpcodeAt(a) + 256 * t[1][2] = Fetch(a)
  BY <1>1, <1>6, UnitParts DEF OpcodeAt
<1>10. Unsigned(t[2][2], 65536) = Fetch(a + 1)
  BY <1>1, <1>6, SignsAre
<1>. QED
  BY <1>3, <1>7, <1>8, <1>9, <1>10 DEF t

LEMMA Listed21t ==
  ASSUME method \in Methods, NEW a \in CodeInside, NEW instr \in Decoded(a), Format(OpcodeAt(a)) = "21t"
  PROVE  Encoded(a, instr.op, Rendered(a, instr)) = Written(a, "21t")
<1>1. a \in Nat /\ Fetch(a) \in Unit /\ Fetch(a + 1) \in Unit /\ Fetch(a + 2) \in Unit
  BY InstructionRead
<1>2. instr = Insn(OpcodeAt(a), Fetch(a) \div 256, Signed16(Fetch(a + 1)), 0, NoArgs)
  BY Decoded21t
<1>3. instr.op = OpcodeAt(a)
  BY DecodedOpcode
<1>4. instr.vA = Fetch(a) \div 256 /\ instr.vB = Signed16(Fetch(a + 1)) /\ instr.vC = 0
  BY <1>2 DEF Insn
<1>5. Rendered(a, instr) = << Register(Fetch(a) \div 256), Reference(a + Signed16(Fetch(a + 1))) >>
  BY <1>3, <1>4 DEF Rendered
<1>. DEFINE t == Rendered(a, instr)
<1>6. t[1][2] = Fetch(a) \div 256 /\ t[2][2] = a + Signed16(Fetch(a + 1))
  BY <1>5 DEF Register, Reference, Constant
<1>. HIDE DEF t
<1>7. Encoded(a, OpcodeAt(a), t) = << OpcodeAt(a) + 256 * t[1][2], Unsigned(t[2][2] - a, 65536) >>
  BY DEF Encoded
<1>8. Written(a, "21t") = << Fetch(a), Fetch(a + 1) >>
  BY <1>1, WrittenAs DEF OneUnit, TwoUnits, ThreeUnits
<1>9. OpcodeAt(a) + 256 * t[1][2] = Fetch(a)
  BY <1>1, <1>6, UnitParts DEF OpcodeAt
<1>10. Unsigned(t[2][2] - a, 65536) = Fetch(a + 1)
  <2>1. \A x, y \in Int : x + y - x = y
    OBVIOUS
  <2>2. Signed16(Fetch(a + 1)) \in Int /\ Unsigned(Signed16(Fetch(a + 1)), 65536) = Fetch(a + 1)
    BY <1>1, SignsAre
  <2>. QED
    BY <1>1, <1>6, <2>1, <2>2
<1>. QED
  BY <1>3, <1>7, <1>8, <1>9, <1>10 DEF t

LEMMA Listed22b ==
  ASSUME method \in Methods, NEW a \in CodeInside, NEW instr \in Decoded(a), Format(OpcodeAt(a)) = "22b"
  PROVE  Encoded(a, instr.op, Rendered(a, instr)) = Written(a, "22b")
<1>1. a \in Nat /\ Fetch(a) \in Unit /\ Fetch(a + 1) \in Unit /\ Fetch(a + 2) \in Unit
  BY InstructionRead
<1>2. instr = Insn(OpcodeAt(a), Fetch(a) \div 256, Fetch(a + 1) % 256, Signed8(Fetch(a + 1) \div 256), NoArgs)
  BY Decoded22b
<1>3. instr.op = OpcodeAt(a)
  BY DecodedOpcode
<1>4. instr.vA = Fetch(a) \div 256 /\ instr.vB = Fetch(a + 1) % 256 /\ instr.vC = Signed8(Fetch(a + 1) \div 256)
  BY <1>2 DEF Insn
<1>5. Rendered(a, instr) = << Register(Fetch(a) \div 256), Register(Fetch(a + 1) % 256), Constant(Signed8(Fetch(a + 1) \div 256) % 256) >>
  BY <1>3, <1>4 DEF Rendered
<1>. DEFINE t == Rendered(a, instr)
<1>6. t[1][2] = Fetch(a) \div 256 /\ t[2][2] = Fetch(a + 1) % 256 /\ t[3][2] = Signed8(Fetch(a + 1) \div 256) % 256
  BY <1>5 DEF Register, Reference, Constant
<1>. HIDE DEF t
<1>7. Encoded(a, OpcodeAt(a), t) = << OpcodeAt(a) + 256 * t[1][2], t[2][2] + 256 * t[3][2] >>
  BY DEF Encoded
<1>8. Written(a, "22b") = << Fetch(a), Fetch(a + 1) >>
  BY <1>1, WrittenAs DEF OneUnit, TwoUnits, ThreeUnits
<1>9. OpcodeAt(a) + 256 * t[1][2] = Fetch(a)
  BY <1>1, <1>6, UnitParts DEF OpcodeAt
<1>10. t[2][2] + 256 * t[3][2] = Fetch(a + 1)
  <2>1. /\ Fetch(a + 1) \div 256 \in 0 .. 255
        /\ (Fetch(a + 1) % 256) + 256 * (Fetch(a + 1) \div 256) = Fetch(a + 1)
    BY <1>1, UnitParts
  <2>2. Signed8(Fetch(a + 1) \div 256) % 256 = Fetch(a + 1) \div 256
    BY <2>1, SignsAre
  <2>3. t[2][2] = Fetch(a + 1) % 256 /\ t[3][2] = Fetch(a + 1) \div 256
    BY <1>6, <2>2
  <2>. QED
    BY <2>1, <2>3
<1>. QED
  BY <1>3, <1>7, <1>8, <1>9, <1>10 DEF t

LEMMA Listed23x ==
  ASSUME method \in Methods, NEW a \in CodeInside, NEW instr \in Decoded(a), Format(OpcodeAt(a)) = "23x"
  PROVE  Encoded(a, instr.op, Rendered(a, instr)) = Written(a, "23x")
<1>1. a \in Nat /\ Fetch(a) \in Unit /\ Fetch(a + 1) \in Unit /\ Fetch(a + 2) \in Unit
  BY InstructionRead
<1>2. instr = Insn(OpcodeAt(a), Fetch(a) \div 256, Fetch(a + 1) % 256, Fetch(a + 1) \div 256, NoArgs)
  BY Decoded23x
<1>3. instr.op = OpcodeAt(a)
  BY DecodedOpcode
<1>4. instr.vA = Fetch(a) \div 256 /\ instr.vB = Fetch(a + 1) % 256 /\ instr.vC = Fetch(a + 1) \div 256
  BY <1>2 DEF Insn
<1>5. Rendered(a, instr) = << Register(Fetch(a) \div 256), Register(Fetch(a + 1) % 256), Register(Fetch(a + 1) \div 256) >>
  BY <1>3, <1>4 DEF Rendered
<1>. DEFINE t == Rendered(a, instr)
<1>6. t[1][2] = Fetch(a) \div 256 /\ t[2][2] = Fetch(a + 1) % 256 /\ t[3][2] = Fetch(a + 1) \div 256
  BY <1>5 DEF Register, Reference, Constant
<1>. HIDE DEF t
<1>7. Encoded(a, OpcodeAt(a), t) = << OpcodeAt(a) + 256 * t[1][2], t[2][2] + 256 * t[3][2] >>
  BY DEF Encoded
<1>8. Written(a, "23x") = << Fetch(a), Fetch(a + 1) >>
  BY <1>1, WrittenAs DEF OneUnit, TwoUnits, ThreeUnits
<1>9. OpcodeAt(a) + 256 * t[1][2] = Fetch(a)
  BY <1>1, <1>6, UnitParts DEF OpcodeAt
<1>10. t[2][2] + 256 * t[3][2] = Fetch(a + 1)
  BY <1>1, <1>6, UnitParts
<1>. QED
  BY <1>3, <1>7, <1>8, <1>9, <1>10 DEF t

LEMMA Listed22t ==
  ASSUME method \in Methods, NEW a \in CodeInside, NEW instr \in Decoded(a), Format(OpcodeAt(a)) = "22t"
  PROVE  Encoded(a, instr.op, Rendered(a, instr)) = Written(a, "22t")
<1>1. a \in Nat /\ Fetch(a) \in Unit /\ Fetch(a + 1) \in Unit /\ Fetch(a + 2) \in Unit
  BY InstructionRead
<1>2. instr = Insn(OpcodeAt(a), (Fetch(a) \div 256) % 16, Fetch(a) \div 4096, Signed16(Fetch(a + 1)), NoArgs)
  BY Decoded22t
<1>3. instr.op = OpcodeAt(a)
  BY DecodedOpcode
<1>4. instr.vA = (Fetch(a) \div 256) % 16 /\ instr.vB = Fetch(a) \div 4096 /\ instr.vC = Signed16(Fetch(a + 1))
  BY <1>2 DEF Insn
<1>5. Rendered(a, instr) = << Register((Fetch(a) \div 256) % 16), Register(Fetch(a) \div 4096), Reference(a + Signed16(Fetch(a + 1))) >>
  BY <1>3, <1>4 DEF Rendered
<1>. DEFINE t == Rendered(a, instr)
<1>6. t[1][2] = (Fetch(a) \div 256) % 16 /\ t[2][2] = Fetch(a) \div 4096 /\ t[3][2] = a + Signed16(Fetch(a + 1))
  BY <1>5 DEF Register, Reference, Constant
<1>. HIDE DEF t
<1>7. Encoded(a, OpcodeAt(a), t) = << OpcodeAt(a) + 256 * t[1][2] + 4096 * t[2][2], Unsigned(t[3][2] - a, 65536) >>
  BY DEF Encoded
<1>8. Written(a, "22t") = << Fetch(a), Fetch(a + 1) >>
  BY <1>1, WrittenAs DEF OneUnit, TwoUnits, ThreeUnits
<1>9. OpcodeAt(a) + 256 * t[1][2] + 4096 * t[2][2] = Fetch(a)
  BY <1>1, <1>6, UnitParts DEF OpcodeAt
<1>10. Unsigned(t[3][2] - a, 65536) = Fetch(a + 1)
  <2>1. \A x, y \in Int : x + y - x = y
    OBVIOUS
  <2>2. Signed16(Fetch(a + 1)) \in Int /\ Unsigned(Signed16(Fetch(a + 1)), 65536) = Fetch(a + 1)
    BY <1>1, SignsAre
  <2>. QED
    BY <1>1, <1>6, <2>1, <2>2
<1>. QED
  BY <1>3, <1>7, <1>8, <1>9, <1>10 DEF t

LEMMA Listed32x ==
  ASSUME method \in Methods, NEW a \in CodeInside, NEW instr \in Decoded(a), Format(OpcodeAt(a)) = "32x"
  PROVE  Encoded(a, instr.op, Rendered(a, instr)) = Written(a, "32x")
<1>1. a \in Nat /\ Fetch(a) \in Unit /\ Fetch(a + 1) \in Unit /\ Fetch(a + 2) \in Unit
  BY InstructionRead
<1>2. instr = Insn(OpcodeAt(a), Fetch(a + 1), Fetch(a + 2), 0, NoArgs)
  BY Decoded32x
<1>3. instr.op = OpcodeAt(a)
  BY DecodedOpcode
<1>4. instr.vA = Fetch(a + 1) /\ instr.vB = Fetch(a + 2) /\ instr.vC = 0
  BY <1>2 DEF Insn
<1>5. Rendered(a, instr) = << Register(Fetch(a + 1)), Register(Fetch(a + 2)) >>
  BY <1>3, <1>4 DEF Rendered
<1>. DEFINE t == Rendered(a, instr)
<1>6. t[1][2] = Fetch(a + 1) /\ t[2][2] = Fetch(a + 2)
  BY <1>5 DEF Register, Reference, Constant
<1>. HIDE DEF t
<1>7. Encoded(a, OpcodeAt(a), t) = << OpcodeAt(a), t[1][2], t[2][2] >>
  BY DEF Encoded
<1>8. Written(a, "32x") = << OpcodeAt(a), Fetch(a + 1), Fetch(a + 2) >>
  BY <1>1, WrittenAs DEF OneUnit, TwoUnits, ThreeUnits
<1>9. t[1][2] = Fetch(a + 1)
  BY <1>6
<1>10. t[2][2] = Fetch(a + 2)
  BY <1>6
<1>. QED
  BY <1>3, <1>7, <1>8, <1>9, <1>10 DEF t

LEMMA IndexListed ==
  ASSUME NEW instr, RenderedIndex(instr) # Unknown
  PROVE  /\ RenderedIndex(instr)[2] = IndexOf(instr)
         /\ IndexType(instr) \in {"MethodRef", "FieldRef", "TypeRef"} \/ IndexOf(instr) < StringCount
<1>1. CASE IndexType(instr) \in {"MethodRef", "FieldRef", "TypeRef"}
  <2>1. IndexType(instr) # "StringRef"
    BY <1>1
  <2>2. RenderedIndex(instr) = <<"name", IndexOf(instr)>>
    BY <1>1, <2>1 DEF RenderedIndex
  <2>. QED
    BY <1>1, <2>2
<1>2. CASE IndexType(instr) = "StringRef" /\ IndexOf(instr) < StringCount
  <2>1. RenderedIndex(instr) = <<"string", IndexOf(instr)>>
    BY <1>2 DEF RenderedIndex
  <2>. QED
    BY <1>2, <2>1
<1>3. CASE IndexType(instr) \notin {"MethodRef", "FieldRef", "TypeRef"} /\ ~(IndexType(instr) = "StringRef" /\ IndexOf(instr) < StringCount)
  BY <1>3 DEF RenderedIndex
<1>. QED
  BY <1>1, <1>2, <1>3

LEMMA KindKnown ==
  ASSUME NEW t, NEW i \in DOMAIN t, "unknown" \notin KindsIn(t)
  PROVE  t[i] # Unknown
<1>1. t[i][1] # "unknown"
  BY DEF KindsIn
<1>. QED
  BY <1>1 DEF Unknown

LEMMA Listed21h ==
  ASSUME method \in Methods, NEW a \in CodeInside, NEW instr \in Decoded(a), Format(OpcodeAt(a)) = "21h"
  PROVE  Encoded(a, instr.op, Rendered(a, instr)) = Written(a, "21h")
<1>1. a \in Nat /\ Fetch(a) \in Unit /\ Fetch(a + 1) \in Unit
  BY InstructionRead
<1>2. instr = Insn(OpcodeAt(a), Fetch(a) \div 256, Fetch(a + 1), 0, NoArgs)
  BY Decoded21h
<1>3. instr.op = OpcodeAt(a)
  BY DecodedOpcode
<1>4. instr.vA = Fetch(a) \div 256 /\ instr.vB = Fetch(a + 1)
  BY <1>2 DEF Insn
<1>. DEFINE t == Rendered(a, instr)
            c == IF instr.op = OpConstHigh16 THEN <<0, instr.vB>> ELSE <<0, 0, 0, instr.vB>>
<1>5. t = << Register(instr.vA), Constant(c) >>
  BY <1>3 DEF Rendered
<1>6. c[Len(c)] = Fetch(a + 1)
  <2>1. CASE instr.op = OpConstHigh16
    <3>1. c = <<0, instr.vB>>
      BY <2>1
    <3>. HIDE DEF c
    <3>. QED
      BY <1>4, <3>1
  <2>2. CASE instr.op # OpConstHigh16
    <3>1. c = <<0, 0, 0, instr.vB>>
      BY <2>2
    <3>. HIDE DEF c
    <3>. QED
      BY <1>4, <3>1
  <2>. QED
    BY <2>1, <2>2
<1>. HIDE DEF t, c
<1>7. t[1][2] = Fetch(a) \div 256 /\ t[2][2] = c
  BY <1>4, <1>5 DEF Register, Constant
<1>8. Encoded(a, OpcodeAt(a), t) = << OpcodeAt(a) + 256 * t[1][2], t[2][2][Len(t[2][2])] >>
  BY DEF Encoded
<1>9. Written(a, "21h") = << Fetch(a), Fetch(a + 1) >>
  BY <1>1, WrittenAs DEF TwoUnits
<1>10. OpcodeAt(a) + 256 * t[1][2] = Fetch(a)
  BY <1>1, <1>7, UnitParts DEF OpcodeAt
<1>. QED
  BY <1>3, <1>6, <1>7, <1>8, <1>9, <1>10 DEF t

LEMMA Listed21c ==
  ASSUME method \in Methods, NEW a \in CodeInside, NEW instr \in Decoded(a), Format(OpcodeAt(a)) = "21c",
         "unknown" \notin KindsIn(Rendered(a, instr))
  PROVE  Encoded(a, instr.op, Rendered(a, instr)) = Written(a, "21c")
<1>1. a \in Nat /\ Fetch(a) \in Unit /\ Fetch(a + 1) \in Unit
  BY InstructionRead
<1>2. instr = Insn(OpcodeAt(a), Fetch(a) \div 256, Fetch(a + 1), 0, NoArgs)
  BY Decoded21c
<1>3. instr.op = OpcodeAt(a)
  BY DecodedOpcode
<1>4. instr.vA = Fetch(a) \div 256 /\ instr.vB = Fetch(a + 1)
  BY <1>2 DEF Insn
<1>. DEFINE t == Rendered(a, instr)
<1>5. t = << Register(instr.vA), RenderedIndex(instr) >>
  BY <1>3 DEF Rendered
<1>6. IndexOf(instr) = Fetch(a + 1)
  BY <1>3, <1>4 DEF IndexOf
<1>. HIDE DEF t
<1>7. t[2] # Unknown
  <2>1. 2 \in DOMAIN t
    BY <1>5
  <2>. QED
    BY <2>1, KindKnown DEF t
<1>8. t[1][2] = Fetch(a) \div 256 /\ t[2][2] = Fetch(a + 1)
  BY <1>4, <1>5, <1>6, <1>7, IndexListed DEF Register
<1>9. Encoded(a, OpcodeAt(a), t) = << OpcodeAt(a) + 256 * t[1][2], t[2][2] >>
  BY DEF Encoded
<1>10. Written(a, "21c") = << Fetch(a), Fetch(a + 1) >>
  BY <1>1, WrittenAs DEF TwoUnits
<1>11. OpcodeAt(a) + 256 * t[1][2] = Fetch(a)
  BY <1>1, <1>8, UnitParts DEF OpcodeAt
<1>. QED
  BY <1>3, <1>8, <1>9, <1>10, <1>11 DEF t

LEMMA Listed22c ==
  ASSUME method \in Methods, NEW a \in CodeInside, NEW instr \in Decoded(a), Format(OpcodeAt(a)) = "22c",
         "unknown" \notin KindsIn(Rendered(a, instr))
  PROVE  Encoded(a, instr.op, Rendered(a, instr)) = Written(a, "22c")
<1>1. a \in Nat /\ Fetch(a) \in Unit /\ Fetch(a + 1) \in Unit
  BY InstructionRead
<1>2. instr = Insn(OpcodeAt(a), (Fetch(a) \div 256) % 16, Fetch(a) \div 4096, Fetch(a + 1), NoArgs)
  BY Decoded22c
<1>3. instr.op = OpcodeAt(a)
  BY DecodedOpcode
<1>4. instr.vA = (Fetch(a) \div 256) % 16 /\ instr.vB = Fetch(a) \div 4096 /\ instr.vC = Fetch(a + 1)
  BY <1>2 DEF Insn
<1>. DEFINE t == Rendered(a, instr)
<1>5. t = << Register(instr.vA), Register(instr.vB), RenderedIndex(instr) >>
  BY <1>3 DEF Rendered
<1>6. IndexOf(instr) = Fetch(a + 1)
  BY <1>3, <1>4 DEF IndexOf
<1>. HIDE DEF t
<1>7. t[3] # Unknown
  <2>1. 3 \in DOMAIN t
    BY <1>5
  <2>. QED
    BY <2>1, KindKnown DEF t
<1>8. t[1][2] = (Fetch(a) \div 256) % 16 /\ t[2][2] = Fetch(a) \div 4096
  BY <1>4, <1>5 DEF Register
<1>9. t[3][2] = Fetch(a + 1)
  BY <1>5, <1>6, <1>7, IndexListed
<1>10. Encoded(a, OpcodeAt(a), t) = << OpcodeAt(a) + 256 * t[1][2] + 4096 * t[2][2], t[3][2] >>
  BY DEF Encoded
<1>11. Written(a, "22c") = << Fetch(a), Fetch(a + 1) >>
  BY <1>1, WrittenAs DEF TwoUnits
<1>12. OpcodeAt(a) + 256 * t[1][2] + 4096 * t[2][2] = Fetch(a)
  BY <1>1, <1>8, UnitParts DEF OpcodeAt
<1>. QED
  BY <1>3, <1>9, <1>10, <1>11, <1>12 DEF t

LEMMA Listed31c ==
  ASSUME method \in Methods, NEW a \in CodeInside, NEW instr \in Decoded(a), Format(OpcodeAt(a)) = "31c",
         "unknown" \notin KindsIn(Rendered(a, instr))
  PROVE  Encoded(a, instr.op, Rendered(a, instr)) = Written(a, "31c")
<1>1. a \in Nat /\ Fetch(a) \in Unit /\ Fetch(a + 1) \in Unit /\ Fetch(a + 2) \in Unit /\ OpcodeAt(a) \in Opcodes
  BY InstructionRead
<1>2. instr = Insn(OpcodeAt(a), Fetch(a) \div 256, <<Fetch(a + 1), Fetch(a + 2)>>, 0, NoArgs)
  BY Decoded31c
<1>3. instr.op = OpcodeAt(a)
  BY DecodedOpcode
<1>4. instr.vA = Fetch(a) \div 256 /\ instr.vB = <<Fetch(a + 1), Fetch(a + 2)>>
  BY <1>2 DEF Insn
<1>. DEFINE t == Rendered(a, instr)
<1>5. t = << Register(instr.vA), RenderedIndex(instr) >>
  BY <1>3 DEF Rendered
<1>6. IndexOf(instr) = IF Fetch(a + 2) = 0 THEN Fetch(a + 1) ELSE 65536
  BY <1>3, <1>4 DEF IndexOf
<1>. HIDE DEF t
<1>7. t[2] # Unknown
  <2>1. 2 \in DOMAIN t
    BY <1>5
  <2>. QED
    BY <2>1, KindKnown DEF t
<1>8. OpcodeAt(a) = 27
  BY <1>1, SMTT(60) DEF Format, Opcodes
<1>9. IndexType(instr) = "StringRef"
  BY <1>3, <1>8 DEF IndexType, IndexTypeOf
<1>10. IndexOf(instr) < StringCount
  BY <1>5, <1>7, <1>9, IndexListed
<1>11. Fetch(a + 2) = 0 /\ IndexOf(instr) = Fetch(a + 1)
  <2>1. StringCount \in Nat /\ StringCount <= 65535
    <3>1. StringCount \in Unit
      BY MethodAssumption
    <3>2. \A x \in Unit : x \in Nat /\ x <= 65535
      BY SMT DEF Unit
    <3>. QED
      BY <3>1, <3>2
  <2>2. ASSUME Fetch(a + 2) # 0 PROVE FALSE
    <3>1. 65536 < StringCount
      BY <1>6, <1>10, <2>2, SMT
    <3>. QED
      BY <2>1, <3>1, SMT
  <2>. QED
    BY <1>6, <2>2
<1>12. t[1][2] = Fetch(a) \div 256 /\ t[2][2] = Fetch(a + 1)
  BY <1>4, <1>5, <1>7, <1>11, IndexListed DEF Register
<1>13. Encoded(a, OpcodeAt(a), t) = << OpcodeAt(a) + 256 * t[1][2], t[2][2], 0 >>
  BY DEF Encoded
<1>14. Written(a, "31c") = << Fetch(a), Fetch(a + 1), Fetch(a + 2) >>
  BY <1>1, WrittenAs DEF ThreeUnits
<1>15. OpcodeAt(a) + 256 * t[1][2] = Fetch(a)
  BY <1>1, <1>12, UnitParts DEF OpcodeAt
<1>. QED
  BY <1>3, <1>11, <1>12, <1>13, <1>14, <1>15 DEF t

LEMMA Listed31t ==
  ASSUME method \in Methods, NEW a \in CodeInside, NEW instr \in Decoded(a), Format(OpcodeAt(a)) = "31t",
         "unknown" \notin KindsIn(Rendered(a, instr))
  PROVE  Encoded(a, instr.op, Rendered(a, instr)) = Written(a, "31t")
<1>1. a \in Nat /\ Fetch(a) \in Unit /\ Fetch(a + 1) \in Unit /\ Fetch(a + 2) \in Unit
  BY InstructionRead
<1>2. instr = Insn(OpcodeAt(a), Fetch(a) \div 256, <<Fetch(a + 1), Fetch(a + 2)>>, 0, NoArgs)
  BY Decoded31t
<1>3. instr.op = OpcodeAt(a)
  BY DecodedOpcode
<1>4. instr.vA = Fetch(a) \div 256 /\ instr.vB = <<Fetch(a + 1), Fetch(a + 2)>>
  BY <1>2 DEF Insn
<1>. DEFINE t == Rendered(a, instr)
<1>5. t = << Register(instr.vA), IF instr.vB[2] = 0 THEN Reference(a + instr.vB[1]) ELSE Unknown >>
  BY <1>3 DEF Rendered
<1>. HIDE DEF t
<1>6. t[2] # Unknown
  <2>1. 2 \in DOMAIN t
    BY <1>5
  <2>. QED
    BY <2>1, KindKnown DEF t
<1>7. Fetch(a + 2) = 0 /\ t[2] = Reference(a + Fetch(a + 1))
  BY <1>4, <1>5, <1>6
<1>8. t[1][2] = Fetch(a) \div 256
  BY <1>4, <1>5 DEF Register
<1>9. t[2][2] - a = Fetch(a + 1)
  <2>1. t[2][2] = a + Fetch(a + 1)
    BY <1>7 DEF Reference
  <2>. QED
    BY <1>1, <2>1, UnitNat
<1>10. Encoded(a, OpcodeAt(a), t) = << OpcodeAt(a) + 256 * t[1][2], t[2][2] - a, 0 >>
  BY DEF Encoded
<1>11. Written(a, "31t") = << Fetch(a), Fetch(a + 1), Fetch(a + 2) >>
  BY <1>1, WrittenAs DEF ThreeUnits
<1>12. OpcodeAt(a) + 256 * t[1][2] = Fetch(a)
  BY <1>1, <1>8, UnitParts DEF OpcodeAt
<1>. QED
  BY <1>3, <1>7, <1>9, <1>10, <1>11, <1>12 DEF t

LEMMA ReversibleListed ==
  ASSUME method \in Methods, NEW a \in CodeInside, NEW instr \in Decoded(a), NEW format, format = Format(instr.op),
         format \in Reversible, "unknown" \notin KindsIn(Rendered(a, instr))
  PROVE  Encoded(a, instr.op, Rendered(a, instr)) = Written(a, format)
<1>1. Format(OpcodeAt(a)) = format
  BY DecodedOpcode
<1>2. CASE format = "12x"
  BY <1>1, <1>2, Listed12x
<1>3. CASE format = "11x"
  BY <1>1, <1>3, Listed11x
<1>4. CASE format = "10t"
  BY <1>1, <1>4, Listed10t
<1>5. CASE format = "20t"
  BY <1>1, <1>5, Listed20t
<1>6. CASE format = "21c"
  BY <1>1, <1>6, Listed21c
<1>7. CASE format = "31c"
  BY <1>1, <1>7, Listed31c
<1>8. CASE format = "31i"
  BY <1>1, <1>8, Listed31i
<1>9. CASE format = "31t"
  BY <1>1, <1>9, Listed31t
<1>10. CASE format = "21h"
  BY <1>1, <1>10, Listed21h
<1>11. CASE format = "21s"
  BY <1>1, <1>11, Listed21s
<1>12. CASE format = "21t"
  BY <1>1, <1>12, Listed21t
<1>13. CASE format = "22b"
  BY <1>1, <1>13, Listed22b
<1>14. CASE format = "23x"
  BY <1>1, <1>14, Listed23x
<1>15. CASE format = "22c"
  BY <1>1, <1>15, Listed22c
<1>16. CASE format = "22t"
  BY <1>1, <1>16, Listed22t
<1>17. CASE format = "32x"
  BY <1>1, <1>17, Listed32x
<1>. QED
  BY <1>2, <1>3, <1>4, <1>5, <1>6, <1>7, <1>8, <1>9, <1>10, <1>11, <1>12, <1>13, <1>14, <1>15, <1>16, <1>17 DEF Reversible

\* An invoke lists its registers in the order of the call.
LEMMA InvokeListed ==
  ASSUME method \in Methods, NEW a \in CodeInside, NEW instr \in Decoded(a), Format(instr.op) = "35c",
         NEW i \in 1 .. Len(Rendered(a, instr)) - 1
  PROVE  Rendered(a, instr)[i][2]
           = IF i = 5 THEN (Fetch(a) \div 256) % 16 ELSE (Fetch(a + 2) \div <<1, 16, 256, 4096>>[i]) % 16
<1>. DEFINE n == Fetch(a) \div 4096
            list == Fetch(a + 2)
            fifth == (Fetch(a) \div 256) % 16
            t == Rendered(a, instr)
            args == [ j \in 1 .. instr.vA |-> Register(instr.arg[j]) ]
<1>0. a \in Nat /\ Fetch(a) \in Unit /\ Fetch(a + 2) \in Unit
  BY InstructionRead
<1>1. instr.op = OpcodeAt(a) /\ Format(OpcodeAt(a)) = "35c"
  BY DecodedOpcode
<1>2. instr = Insn(OpcodeAt(a), n, Fetch(a + 1), 0, Args(n, list, fifth)) /\ n <= 5
  BY <1>1, Decoded35c
<1>3. instr.vA = n /\ instr.arg = Args(n, list, fifth)
  BY <1>2 DEF Insn
<1>4. n \in 0 .. 15
  BY <1>0, UnitParts
<1>5. t = args \o << RenderedIndex(instr) >>
  BY <1>1 DEF Rendered
<1>6. /\ \A j \in 1 .. n : args[j] = Register(Args(n, list, fifth)[j])
      /\ args = [ j \in 1 .. n |-> args[j] ]
  BY <1>3
<1>. HIDE DEF t, n, args, list, fifth
<1>7. t[i] = args[i] /\ i \in 1 .. n
  <2>. DEFINE S == { args[j] : j \in 1 .. n } \cup {RenderedIndex(instr)}
  <2>1. \A j \in 1 .. n : args[j] \in S
    OBVIOUS
  <2>2. RenderedIndex(instr) \in S
    OBVIOUS
  <2>. HIDE DEF S
  <2>3. args \in Seq(S) /\ Len(args) = n
    BY <1>4, <1>6, <2>1
  <2>4. << RenderedIndex(instr) >> \in Seq(S) /\ Len(<< RenderedIndex(instr) >>) = 1
    BY <2>2
  <2>5. Len(t) = n + 1
    BY <1>5, <2>3, <2>4
  <2>6. i \in 1 .. n
    BY <1>4, <2>5 DEF t
  <2>7. t[i] = args[i]
    BY <1>5, <2>3, <2>4, <2>6, ConcatProperties
  <2>. QED
    BY <2>6, <2>7
<1>8. t[i][2] = Args(n, list, fifth)[i]
  BY <1>6, <1>7 DEF Register
<1>9. Args(n, list, fifth)[i] = <<list % 16, (list \div 16) % 16, (list \div 256) % 16, list \div 4096, fifth>>[i]
  BY <1>7 DEF Args
<1>10. i \in {1, 2, 3, 4, 5}
  BY <1>2, <1>4, <1>7
<1>11. list \in Nat /\ list \div 4096 \in 0 .. 15
  BY <1>0, UnitNat, UnitParts DEF list
<1>12. list \div 1 = list /\ (list \div 4096) % 16 = list \div 4096
  BY <1>11
<1>13. i # 5 => Args(n, list, fifth)[i] = (list \div <<1, 16, 256, 4096>>[i]) % 16
  <2>1. CASE i = 1
    BY <1>9, <1>12, <2>1
  <2>2. CASE i = 2
    BY <1>9, <2>2
  <2>3. CASE i = 3
    BY <1>9, <2>3
  <2>4. CASE i = 4
    BY <1>9, <1>12, <2>4
  <2>. QED
    BY <1>10, <2>1, <2>2, <2>3, <2>4
<1>14. i = 5 => Args(n, list, fifth)[i] = fifth
  BY <1>9
<1>. QED
  BY <1>8, <1>13, <1>14 DEF t, list, fifth

\* A string told to the host is the last operand listed.
LEMMA StringListed ==
  ASSUME method \in Methods, NEW a \in CodeInside, NEW f \in FlowsAt(a), NEW instr \in Decoded(a),
         NEW s \in f.strings, s < StringCount
  PROVE  <<"string", s>> = Rendered(a, instr)[Len(Rendered(a, instr))]
<1>. DEFINE t == Rendered(a, instr)
<1>1. OpcodeAt(a) \in Opcodes
  BY InstructionRead
<1>2. PICK first \in Decoded(a) : \E z \in StringsAdded(first) : f = Emulated(a, first, z)
  BY EmulatedIs
<1>3. PICK z \in StringsAdded(first) : f = Emulated(a, first, z)
  BY <1>2
<1>4. first.op = OpcodeAt(a) /\ instr.op = OpcodeAt(a)
  BY DecodedOpcode
<1>5. s \in z
  BY <1>3 DEF Emulated
<1>6. IndexType(first) = "StringRef" /\ s = IndexOf(first)
  BY <1>3, <1>5 DEF StringsAdded
<1>7. OpcodeAt(a) \in {26, 27}
  BY <1>1, <1>4, <1>6, SMTT(60) DEF IndexType, IndexTypeOf, Opcodes
<1>8. CASE OpcodeAt(a) = 26
  <2>1. Format(OpcodeAt(a)) = "21c"
    BY <1>8, SMTT(60) DEF Format
  <2>2. first = instr
    BY <2>1, Decoded21c
  <2>3. t = << Register(instr.vA), RenderedIndex(instr) >>
    BY <1>4, <2>1 DEF Rendered
  <2>4. RenderedIndex(instr) = <<"string", s>>
    BY <1>6, <2>2 DEF RenderedIndex
  <2>. QED
    BY <2>3, <2>4
<1>9. CASE OpcodeAt(a) = 27
  <2>1. Format(OpcodeAt(a)) = "31c"
    BY <1>9, SMTT(60) DEF Format
  <2>2. first = instr
    <3>1. PICK x : Decoded(a) = {x}
      BY <2>1, Decoded31c
    <3>. QED
      BY <3>1
  <2>3. t = << Register(instr.vA), RenderedIndex(instr) >>
    BY <1>4, <2>1 DEF Rendered
  <2>4. RenderedIndex(instr) = <<"string", s>>
    BY <1>6, <2>2 DEF RenderedIndex
  <2>. QED
    BY <2>3, <2>4
<1>. QED
  BY <1>7, <1>8, <1>9

LEMMA ListingOfMethod == FlowInv => ListingIsTheInstruction
<1>. SUFFICES ASSUME FlowInv, NEW a \in DOMAIN flow, NEW instr \in Decoded(a),
                     NEW format, format = Format(instr.op), NEW t, t = Rendered(a, instr)
              PROVE  /\ (format \in Reversible /\ "unknown" \notin KindsIn(t)) => Encoded(a, instr.op, t) = Written(a, format)
                     /\ format = "35c" =>
                          \A i \in 1 .. Len(t) - 1 :
                            t[i][2] = IF i = 5 THEN (Fetch(a) \div 256) % 16 ELSE (Fetch(a + 2) \div <<1, 16, 256, 4096>>[i]) % 16
                     /\ \A s \in flow[a].strings : s < StringCount => <<"string", s>> = t[Len(t)]
  BY DEF ListingIsTheInstruction
<1>1. method \in Methods /\ a \in CodeInside /\ flow[a] \in FlowsAt(a)
  BY DEF FlowInv
<1>2. (format \in Reversible /\ "unknown" \notin KindsIn(t)) => Encoded(a, instr.op, t) = Written(a, format)
  BY <1>1, ReversibleListed
<1>3. ASSUME format = "35c", NEW i \in 1 .. Len(t) - 1
      PROVE  t[i][2] = IF i = 5 THEN (Fetch(a) \div 256) % 16 ELSE (Fetch(a + 2) \div <<1, 16, 256, 4096>>[i]) % 16
  <2>1. Format(instr.op) = "35c" /\ i \in 1 .. Len(Rendered(a, instr)) - 1
    BY <1>3
  <2>2. Rendered(a, instr)[i][2] = IF i = 5 THEN (Fetch(a) \div 256) % 16 ELSE (Fetch(a + 2) \div <<1, 16, 256, 4096>>[i]) % 16
    BY <1>1, <2>1, InvokeListed
  <2>. QED
    BY <2>2
<1>4. ASSUME NEW s \in flow[a].strings, s < StringCount PROVE <<"string", s>> = t[Len(t)]
  BY <1>1, <1>4, StringListed
<1>. QED
  BY <1>2, <1>3, <1>4

\* The listing of an instruction says what its units say, for every opcode and
\* any units: put together again, the registers, constants, references and
\* targets listed are the units, an invoke lists its registers in the order of
\* the call, and a string told to the host is the one listed.
THEOREM ListsTheInstruction == CodeSpec => []ListingIsTheInstruction
<1>. QED
  BY FlowHolds, ListingOfMethod, PTL
=============================================================================
