------------------------------ MODULE MCDexCode ------------------------------
(* What the DEX plugin and libdex do with one file, one of them at work:    *)
(* instructions, the lookup of a class, catch handlers, debug information,  *)
(* prototypes, class data and the file as a whole.                          *)
EXTENDS DalvikCode, ClassLookup, DexCatch, DexDebugInfo, DexProtos, DexClassData, DexFileParse, SequencesExt

\* Every opcode, with operands that count registers, name strings inside and
\* behind the table, and lead forward, backward and out of the method.
Instructions ==
  UNION { LET n == UnitsOf(Format(op))
              units == <<op + 256 * high>> \o operands
          IN  { [code |-> SubSeq(units, 1, IF n = 0 THEN 1 ELSE n),
                 behind |-> [ i \in 1 .. 40 |-> 0 ], starts |-> {}] } :
            op \in 0 .. 255, high \in {0, 33, 84, 240},
            operands \in { <<1, 0, 0, 0>>, <<2, 1, 0, 0>>, <<65535, 0, 0, 0>>, <<4660, 22136, 3, 4>> } }

\* What a small assembler makes of three instructions: an instruction may lead
\* to each of them, a switch and an array have their payload at the end.
Plain == { [op |-> op, to |-> << >>] : op \in {0, 14, 26, OpThrow} }
Led == { [op |-> op, to |-> <<t>>] : op \in {OpGoto, OpGoto16, OpIfEqz, OpIfLt}, t \in 1 .. 3 }
PlainArray == [op |-> OpFillArrayData, to |-> << >>]
Switches == { [op |-> OpPackedSwitch, to |-> t] : t \in UNION { [1 .. n -> 1 .. 3] : n \in 0 .. 2 } \cup {<<1, 2, 3>>, <<3, 2, 1>>} }

Programs == { <<i, j, k>> : i \in Plain \cup Led \cup Switches \cup {PlainArray}, j \in Plain \cup Led \cup {PlainArray}, k \in Plain }

SizeOf(i) == WidthOf(i.op)

StartOf(program, k) ==
  CASE k = 1 -> 0
    [] k = 2 -> SizeOf(program[1])
    [] k = 3 -> SizeOf(program[1]) + SizeOf(program[2])
    [] k = 4 -> SizeOf(program[1]) + SizeOf(program[2]) + SizeOf(program[3])

Word(x) == IF x < 0 THEN <<x + 65536, 65535>> ELSE <<x, 0>>

Words(program, k) == [ i \in DOMAIN program[k].to |-> Word(StartOf(program, program[k].to[i]) - StartOf(program, k)) ]

PayloadOf(program, k) ==
  CASE program[k].op = OpPackedSwitch ->
         <<PackedSwitchSignature, Len(program[k].to), 0, 0>> \o FlattenSeq(Words(program, k))
    [] program[k].op = OpFillArrayData -> <<ArrayDataSignature, 1, 3, 0, 5, 6>>
    [] OTHER -> << >>

PayloadAt(program, k) ==
  StartOf(program, 4) + (IF k = 2 THEN Len(PayloadOf(program, 1)) ELSE 0)

UnitsAt(program, k) ==
  LET op == program[k].op
      far == Words(program, k)[1][1]
  IN  CASE op \in {OpPackedSwitch, OpFillArrayData} -> <<op>> \o <<PayloadAt(program, k) - StartOf(program, k), 0>>
        [] op = OpGoto -> <<op + 256 * (far % 256)>>
        [] op = OpGoto16 -> <<op, far>>
        [] op \in {OpIfEqz, OpIfLt} -> <<op + 256 * 16, far>>
        [] op = 26 -> <<op, 1>>
        [] OTHER -> <<op>>

Assembled(program) ==
  [ code |-> UnitsAt(program, 1) \o UnitsAt(program, 2) \o UnitsAt(program, 3)
               \o PayloadOf(program, 1) \o PayloadOf(program, 2),
    behind |-> [ i \in 1 .. 12 |-> 0 ],
    starts |-> { StartOf(program, k) : k \in 1 .. 4 } \cup { PayloadAt(program, 2) } ]

SomeMethods == Instructions \cup { Assembled(p) : p \in Programs }

-----------------------------------------------------------------------------

\* Two of the names have one hash.
ClassNames == { <<65, 97>>, <<66, 66>>, <<67>>, <<68>>, <<195>> }

SomeClassLists == UNION { [1 .. n -> ClassNames] : n \in 1 .. 4 }

-----------------------------------------------------------------------------

HandlerLists == { <<2, 7, 10, 8, 11>>, <<-1, 7, 12, 13>>, <<0, 14>> }

HandlerData == { <<Len(l)>> \o FlattenSeq(l) : l \in UNION { [1 .. n -> HandlerLists] : n \in 1 .. 2 } }

SecondList(data) == 1 + (CASE data[2] = 2 -> 5 [] data[2] = -1 -> 4 [] data[2] = 0 -> 2)

Try(start, count, handler) == [start |-> start, count |-> count, handler |-> handler]

\* None, one, and ordered tables of two and four, with and without gaps.
Tables(handlers) ==
  { << >> }
  \cup { <<Try(s, c, h)>> : s \in {0, 2}, c \in {0, 1, 3}, h \in handlers }
  \cup { <<Try(0, c, h), Try(s, 2, 1)>> : c \in 0 .. 2, s \in {2, 3}, h \in handlers }
  \cup { <<Try(0, c, h), Try(2, d, 1), Try(s, 2, h), Try(7, 1, 1)>> : c, d \in {1, 2}, s \in {4, 5}, h \in handlers }

SomeCodeItems ==
  UNION { { [tries |-> t, data |-> IF t = << >> THEN << >> ELSE data] :
              t \in Tables(IF data[1] = 1 THEN {1} ELSE {1, SecondList(data)}) } : data \in HandlerData }

-----------------------------------------------------------------------------

Debug(op, reg, name, by) == [op |-> op, reg |-> reg, name |-> name, by |-> by]

OfLocals ==
  { Debug("start_local", r, n, 0) : r \in {0, 1, 2, 3}, n \in {"a", NoName} }
  \cup { Debug(op, r, NoName, 0) : op \in {"end_local", "restart_local"}, r \in {0, 1} }

OfLines ==
  { Debug("advance_pc", 0, NoName, 1), Debug("advance_pc", 0, NoName, 3), Debug("advance_line", 0, NoName, -2),
    Debug("skip", 0, NoName, 0), Debug("special", 0, NoName, 30) }

DebugPrograms ==
  { Append(p, Debug("end_sequence", 0, NoName, 0)) :
      p \in UNION { [1 .. n -> OfLocals \cup OfLines] : n \in 0 .. 2 }
            \cup { <<i, j, k>> : i \in OfLocals, j \in OfLines, k \in OfLocals }
            \cup { <<Debug("start_local", 0, "a", 0), i, j, k, Debug("restart_local", 0, NoName, 0)>> :
                     i, k \in { Debug("advance_pc", 0, NoName, 1), Debug("special", 0, NoName, 30) },
                     j \in { x \in OfLocals : x.reg = 0 } } }

\* An instance method, one with a wide parameter, one whose parameter has no
\* name, and one with more names than parameters.
DebugShape(ins, instance, params, names) ==
  [registers |-> 2, ins |-> ins, instance |-> instance, params |-> params, names |-> names]

DebugShapes ==
  { DebugShape(2, TRUE, <<"single">>, <<"p">>), DebugShape(2, FALSE, <<"wide">>, <<"p">>),
    DebugShape(1, FALSE, <<"single">>, <<NoName>>), DebugShape(1, FALSE, <<"single">>, <<"p", "q">>) }

SomeDebugMethods ==
  { [registers |-> s.registers, ins |-> s.ins, instance |-> s.instance, params |-> s.params, names |-> s.names,
     code |-> 5, program |-> p] : s \in DebugShapes, p \in DebugPrograms }

-----------------------------------------------------------------------------

IntType == <<73>>
PlainClass == <<76, 65, 59>>
PackagedClass == <<76, 66, 47, 67, 59>>
HighClass == <<76, 195, 59>>

SomeParams ==
  { << >>, <<IntType>>, <<IntType, IntType>>, <<PlainClass>>, <<IntType, <<91, 73>> >>, <<PlainClass, IntType>>,
    <<<<91, 91>> \o PackagedClass, IntType>>, <<PackagedClass, PackagedClass>>, <<HighClass>> }

SomeProtos == { [params |-> p, returns |-> r] : p \in SomeParams, r \in { <<86>>, PlainClass } }

-----------------------------------------------------------------------------

\* Numbers of one byte and of two.
Leb(n) == IF n < 128 THEN <<n>> ELSE <<128 + (n % 128), n \div 128>>

Lebs(numbers) == FlattenSeq([ i \in DOMAIN numbers |-> Leb(numbers[i]) ])

MemberLists(k, most) ==
  UNION { [1 .. n -> IF k <= 2 THEN { <<0, 1>>, <<300, 2>> } ELSE { <<5, 1, 200>>, <<130, 1, 0>> }] : n \in 0 .. most }

Classes == { <<a, b, c, d>> : a \in MemberLists(1, 2), b \in MemberLists(2, 1), c \in MemberLists(3, 2), d \in MemberLists(4, 1) }

ClassNumbers(l) == [ k \in 1 .. 4 |-> Len(l[k]) ] \o FlattenSeq([ k \in 1 .. 4 |-> FlattenSeq(l[k]) ])

Places(numbers) == [ k \in 1 .. Len(numbers) + 1 |-> Len(Lebs(SubSeq(numbers, 1, k - 1))) ]

Absolute(l) == [ i \in DOMAIN l |-> <<FoldLeft(LAMBDA x, e : (x + e[1]) % IndexRange, 0, SubSeq(l, 1, i))>> \o Tail(l[i]) ]

ClassItem(bytes, limit, parts, size, numbers, places) ==
  [bytes |-> bytes, limit |-> limit, class |-> [lists |-> parts, size |-> size, numbers |-> numbers, places |-> places]]

DescribedItem(l, limit) ==
  LET numbers == ClassNumbers(l)
  IN  ClassItem(Lebs(numbers), limit, [ k \in 1 .. 4 |-> Absolute(l[k]) ], Len(Lebs(numbers)), numbers, Places(numbers))

\* Class data, whole and cut by a limit, with an index that wraps (twice 300),
\* with a number that is five bytes long, with one that is too long, and none.
SomeClassItems ==
  { DescribedItem(l, NoLimit) : l \in Classes }
  \cup { DescribedItem(l, limit) : l \in { c \in Classes : Len(c[1]) = 1 /\ c[2] = << >> }, limit \in 0 .. 12 }
  \cup { ClassItem(<<0, 0, 1, 128, 128, 128, 128, 0, 2, 1, 3>>, NoLimit, << << >>, << >>, << <<2, 1, 3>> >>, << >> >>, 11,
                   <<0, 0, 1, 0, 2, 1, 3>>, <<0, 1, 2, 3, 8, 9, 10, 11>>),
         ClassItem(<<0, 0, 0, 128, 128, 128, 128, 16>>, NoLimit, << >>, 0, <<0, 0, 0>>, <<0, 1, 2, 3>>),
         ClassItem(<<0, 1, 0, 0, 3, 255, 255, 255, 255, 112>>, NoLimit, << >>, 0, <<0, 1, 0, 0, 3>>, <<0, 1, 2, 3, 4, 5>>),
         ClassItem(<< >>, NoLimit, << << >>, << >>, << >>, << >> >>, 0, << >>, <<0>>) }

-----------------------------------------------------------------------------

\* A chunk <<kind, size>> as the optimizer writes it.
WrittenChunk(c) == c \o [ i \in 1 .. 2 * ((c[2] + 7) \div 8) |-> EndChunk ]

WrittenChunks(l) == FlattenSeq([ i \in DOMAIN l |-> WrittenChunk(l[i]) ])

WrittenArea(l) ==
  [ words |-> WrittenChunks(l) \o <<EndChunk, 0>>,
    contents |-> [ i \in DOMAIN l |-> [kind |-> l[i][1], first |-> 2 + Len(WrittenChunks(SubSeq(l, 1, i - 1)))] ] ]

WrittenAreas ==
  { WrittenArea(l) : l \in UNION { [1 .. n -> {LookupChunk, MapsChunk, 7} \X {0, 4, 8, 13}] : n \in 0 .. 2 } }

\* Sizes that wrap, to nothing and past it, that lead out of the area or to
\* its middle, and areas that end too soon.
OtherAreas ==
  { [words |-> w, contents |-> <<>>] : w \in {
      <<LookupChunk, 50, 0, 0, EndChunk, 0>>, <<LookupChunk, 60, 0, 0, EndChunk, 0>>,
      <<MapsChunk, 8, 60, 60, LookupChunk, 60, 7, 4, 9, 9, EndChunk, 0>>,
      <<LookupChunk, 40, 0, 0, EndChunk, 0>>, <<LookupChunk, 8, 0, 0>>, <<LookupChunk, 8, 0, 0, 7>>,
      <<7, 8, EndChunk, 0, 7, 0, 0, 0>>, <<EndChunk>>, << >>, <<MapsChunk, 9, 0, 0, EndChunk, 0>> } }

OptimizedBuffer(a, start, slack, length, version, dex_) ==
  [ magic |-> "dey", optVersion |-> version, size |-> start + 4 * Len(a.words) + slack, optOffset |-> start,
    dexOffset |-> dex_, dexLength |-> length, area |-> a.words, contents |-> a.contents,
    dexMagic |-> TRUE, sums |-> TRUE, flags |-> {}, fileSize |-> length, classDefs |-> 1 ]

PlainBuffer(valid, size, sums, flags, defs) ==
  [ magic |-> "dex", optVersion |-> FALSE, size |-> size, optOffset |-> size,
    dexOffset |-> 0, dexLength |-> 0, area |-> << >>, contents |-> <<>>,
    dexMagic |-> valid, sums |-> sums, flags |-> flags, fileSize |-> 112, classDefs |-> defs ]

SomeBuffers ==
  { OptimizedBuffer(a, 160, 0, 112, TRUE, 40) : a \in WrittenAreas \cup OtherAreas }
  \cup { OptimizedBuffer(a, start, slack, length, version, dex_) :
           a \in OtherAreas \cup { w \in WrittenAreas : Len(w.words) < 7 },
           start \in {156, 160}, slack \in {0, 2}, length \in {112, 300}, version \in BOOLEAN,
           dex_ \in {40, 400} }
  \cup { PlainBuffer(valid, size, sums, flags, defs) :
           valid \in BOOLEAN, size \in {40, 112, 120}, sums \in BOOLEAN,
           flags \in SUBSET {"verify", "continue"}, defs \in {0, 1} }

-----------------------------------------------------------------------------

VARIABLE part  \* which of them is at work

allVars == <<codeVars, lookupVars, catchVars, debugVars, protoVars, classVars, parseVars, part>>

IdleCode == CodeStart([code |-> <<14>>, behind |-> << >>, starts |-> {}])
IdleLookup == LookupStart(<< <<67>> >>)
IdleCatch == CatchStart([tries |-> << >>, data |-> << >>])
IdleDebug ==
  DebugStart([registers |-> 0, ins |-> 0, instance |-> FALSE, params |-> << >>, names |-> << >>, code |-> 0,
              program |-> <<Debug("end_sequence", 0, NoName, 0)>>])
IdleClass == ClassStart([bytes |-> << >>, limit |-> NoLimit, class |-> [lists |-> << >>, size |-> 0]])
IdleParse == ParseStart(PlainBuffer(FALSE, 40, FALSE, {}, 0))

MCInit ==
  \/ /\ part = "code" /\ CodeInit
     /\ IdleLookup /\ IdleCatch /\ IdleDebug /\ ProtoStart /\ IdleClass /\ IdleParse
  \/ /\ part = "lookup" /\ LookupInit
     /\ IdleCode /\ IdleCatch /\ IdleDebug /\ ProtoStart /\ IdleClass /\ IdleParse
  \/ /\ part = "catch" /\ CatchInit
     /\ IdleCode /\ IdleLookup /\ IdleDebug /\ ProtoStart /\ IdleClass /\ IdleParse
  \/ /\ part = "debug" /\ DebugInit
     /\ IdleCode /\ IdleLookup /\ IdleCatch /\ ProtoStart /\ IdleClass /\ IdleParse
  \/ /\ part = "proto" /\ ProtoStart
     /\ IdleCode /\ IdleLookup /\ IdleCatch /\ IdleDebug /\ IdleClass /\ IdleParse
  \/ /\ part = "class" /\ ClassInit
     /\ IdleCode /\ IdleLookup /\ IdleCatch /\ IdleDebug /\ ProtoStart /\ IdleParse
  \/ /\ part = "parse" /\ ParseInit
     /\ IdleCode /\ IdleLookup /\ IdleCatch /\ IdleDebug /\ ProtoStart /\ IdleClass

StepCode == part = "code" /\ CodeNext
            /\ UNCHANGED <<lookupVars, catchVars, debugVars, protoVars, classVars, parseVars, part>>
StepLookup(step_) == part = "lookup" /\ step_
            /\ UNCHANGED <<codeVars, catchVars, debugVars, protoVars, classVars, parseVars, part>>
StepCatch(step_) == part = "catch" /\ step_
            /\ UNCHANGED <<codeVars, lookupVars, debugVars, protoVars, classVars, parseVars, part>>
StepDebug == part = "debug" /\ DebugNext
            /\ UNCHANGED <<codeVars, lookupVars, catchVars, protoVars, classVars, parseVars, part>>
StepProto == part = "proto" /\ ProtoNext
            /\ UNCHANGED <<codeVars, lookupVars, catchVars, debugVars, classVars, parseVars, part>>
StepClass == part = "class" /\ ClassNext
            /\ UNCHANGED <<codeVars, lookupVars, catchVars, debugVars, protoVars, parseVars, part>>
StepParse == part = "parse" /\ ParseNext
            /\ UNCHANGED <<codeVars, lookupVars, catchVars, debugVars, protoVars, classVars, part>>

MCNext ==
  \/ StepCode \/ StepLookup(LookupNext) \/ StepCatch(CatchNext)
  \/ StepDebug \/ StepProto \/ StepClass \/ StepParse

\* What was called runs to its end on its caller's thread; what is called next
\* is the callers' affair.
MCSpec ==
  /\ MCInit /\ [][MCNext]_allVars
  /\ WF_allVars(StepLookup(Add \/ Find)) /\ WF_allVars(StepCatch(Guess \/ NextHandler))
  /\ WF_allVars(StepDebug) /\ WF_allVars(StepClass) /\ WF_allVars(StepParse)

\* Every call returns: a search for a class, though the table is probed in a
\* ring, a search for a handler and the walk over its list, the decoders of
\* debug information and class data, and the walk over the chunks, unless it has
\* come to a chunk that leads to itself.
CallsReturn ==
  /\ (part = "lookup" /\ step # "ready") ~> (step = "ready")
  /\ (part = "catch" /\ call # "ready") ~> (call = "ready")
  /\ (part = "debug") ~> (phase \in {"decoded", "undefined"})
  /\ (part = "class") ~> (reader \in {"read", "failed"})
  /\ (part = "parse") ~> (parser \in {"parsed", "refused"} \/ AtItsOwnNext)
=============================================================================
