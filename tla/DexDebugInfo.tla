----------------------------- MODULE DexDebugInfo -----------------------------
(***************************************************************************)
(* libdex's decoder of a method's debug information (DexDebugInfo.cpp): a  *)
(* small machine whose program says, as the address advances, which local  *)
(* variable lives in which register; the callback is told of each local    *)
(* when its range is known.                                                *)
(*                                                                         *)
(* A local's name stands for its name, type and signature, NoName for a    *)
(* missing one.  An instruction is [op, reg, name, by]; a special opcode   *)
(* has its number in by.  The last one of a program ends it.  Addresses are  *)
(* not cut to 32 bits.                                                     *)
(***************************************************************************)
EXTENDS Integers, Sequences

CONSTANTS
  DebugMethods,  \* [registers, ins, instance, params, names, code, program]
  U2Range,       \* 2^16, the values of dex_u2
  This, NoName

VARIABLES
  debug,        \* the method
  phase,        \* "parameters", "program", "finish", "decoded" or "undefined"
  read,         \* parameters or instructions read
  arg,          \* argReg
  pc, line,
  locals,       \* localInReg
  emitted,      \* what the callback was told of locals
  positions     \* what the other one was told of lines

debugVars == <<debug, phase, read, arg, pc, line, locals, emitted, positions>>

ASSUME DebugAssumption ==
  /\ U2Range \in Nat \ {0}
  /\ \A m \in DebugMethods :
       /\ m.registers \in 0 .. U2Range - 1 /\ m.ins \in 0 .. m.registers
       /\ m.instance \in BOOLEAN
       /\ m.instance => m.ins > 0
       /\ m.code \in Nat
       /\ m.params \in Seq({"wide", "single"})
       /\ Len(m.names) \in Nat /\ DOMAIN m.names = 1 .. Len(m.names)
       /\ Len(m.program) \in Nat \ {0} /\ DOMAIN m.program = 1 .. Len(m.program)
       /\ \A i \in DOMAIN m.program :
            LET insn_ == m.program[i]
            IN  /\ insn_.op \in {"start_local", "end_local", "restart_local"} => insn_.reg \in Nat
                /\ insn_.op = "advance_pc" => insn_.by \in Nat
                /\ insn_.op = "advance_line" => insn_.by \in Int
                /\ insn_.op = "special" => insn_.by \in 10 .. 255
       /\ m.program[Len(m.program)].op = "end_sequence"

-----------------------------------------------------------------------------

Registers == 0 .. debug.registers - 1

Local(name, start, live) == [name |-> name, start |-> start, live |-> live]

Unused == Local(NoName, 0, FALSE)

\* emitLocalCbIfLive, after the callback was told of some locals.
Emit(told, reg, end) ==
  IF locals[reg].live
  THEN Append(told, [reg |-> reg, start |-> locals[reg].start, end |-> end, name |-> locals[reg].name])
  ELSE told

Finish == phase' = "finish" /\ UNCHANGED <<read, arg, pc, line, locals, emitted, positions>>

ParameterWidth(descriptor) == IF descriptor = "wide" THEN 2 ELSE 1

\* One turn of the loop over the parameters.  The stream's count of them,
\* the length of names, need not be the prototype's.
Parameter ==
  /\ phase = "parameters"
  /\ \/ /\ read = Len(debug.names)
        /\ phase' = "program" /\ read' = 0
        /\ UNCHANGED <<arg, pc, line, locals, emitted, positions>>
     \/ /\ read < Len(debug.names)
        /\ arg >= debug.registers \/ read >= Len(debug.params)
        /\ Finish
     \/ /\ read < Len(debug.names) /\ arg < debug.registers /\ read < Len(debug.params)
        /\ read' = read + 1
        /\ arg' = (arg + ParameterWidth(debug.params[read + 1])) % U2Range
        /\ locals' = IF debug.names[read + 1] = NoName THEN locals
                     ELSE [locals EXCEPT ![arg] = Local(debug.names[read + 1], pc % U2Range, TRUE)]
        /\ UNCHANGED <<phase, pc, line, emitted, positions>>
  /\ UNCHANGED debug

insn == debug.program[read + 1]

Reg == insn.reg % U2Range

Executes(op) == phase = "program" /\ insn.op = op

ReadOn == read' = read + 1 /\ UNCHANGED <<debug, phase, arg>>

EndSequence == Executes("end_sequence") /\ Finish /\ UNCHANGED debug

AdvancePc == /\ Executes("advance_pc")
             /\ pc' = pc + insn.by
             /\ ReadOn /\ UNCHANGED <<line, locals, emitted, positions>>

AdvanceLine == /\ Executes("advance_line")
               /\ line' = line + insn.by
               /\ ReadOn /\ UNCHANGED <<pc, locals, emitted, positions>>

\* The test lets one register too many pass; the table of locals ends there.
RegisterRefused ==
  /\ \E op \in {"start_local", "end_local", "restart_local"} : Executes(op)
  /\ \/ Reg > debug.registers /\ Finish
     \/ Reg = debug.registers /\ phase' = "undefined"
        /\ UNCHANGED <<read, arg, pc, line, locals, emitted, positions>>
  /\ UNCHANGED debug

StartLocal ==
  /\ Executes("start_local") /\ Reg \in Registers
  /\ emitted' = Emit(emitted, Reg, pc)
  /\ locals' = [locals EXCEPT ![Reg] = Local(insn.name, pc % U2Range, TRUE)]
  /\ ReadOn /\ UNCHANGED <<pc, line, positions>>

EndLocal ==
  /\ Executes("end_local") /\ Reg \in Registers
  /\ emitted' = Emit(emitted, Reg, pc)
  /\ locals' = [locals EXCEPT ![Reg].live = FALSE]
  /\ ReadOn /\ UNCHANGED <<pc, line, positions>>

\* Mutant: a local that is live begins anew.
RestartedAlways(local) == Local(local.name, pc % U2Range, TRUE)

Restarted(local) == IF local.live THEN local ELSE Local(local.name, pc % U2Range, TRUE)

RestartLocal ==
  /\ Executes("restart_local") /\ Reg \in Registers
  /\ \/ locals[Reg].name = NoName /\ Finish /\ UNCHANGED debug
     \/ /\ locals[Reg].name # NoName
        /\ locals' = [locals EXCEPT ![Reg] = Restarted(locals[Reg])]
        /\ ReadOn /\ UNCHANGED <<pc, line, emitted, positions>>

\* DBG_SET_PROLOGUE_END, DBG_SET_EPILOGUE_BEGIN and DBG_SET_FILE.
Skip == Executes("skip") /\ ReadOn /\ UNCHANGED <<pc, line, locals, emitted, positions>>

FirstSpecial == 10
LineBase     == -4
LineRange    == 15

\* A special opcode; the callback may ask for no more.
Special ==
  /\ Executes("special")
  /\ LET adjusted == insn.by - FirstSpecial
     IN  /\ pc' = pc + adjusted \div LineRange
         /\ line' = line + LineBase + (adjusted % LineRange)
  /\ positions' = Append(positions, <<pc', line'>>)
  /\ \/ ReadOn
     \/ phase' = "finish" /\ UNCHANGED <<debug, read, arg>>
  /\ UNCHANGED <<locals, emitted>>

\* The loop at the end of dexDecodeDebugInfo: what is live lives up to the
\* method's end.
EmitRest ==
  /\ phase = "finish"
  /\ LET told[n \in 0 .. debug.registers] ==
           IF n = 0 THEN emitted ELSE Emit(told[n - 1], n - 1, debug.code)
     IN  emitted' = told[debug.registers]
  /\ phase' = "decoded"
  /\ UNCHANGED <<debug, read, arg, pc, line, locals, positions>>

\* An instance method's object is in the first of the argument registers.
DebugStart(m) ==
  /\ debug = m /\ phase = "parameters" /\ read = 0 /\ pc = 0 /\ line = 1
  /\ arg = m.registers - m.ins + (IF m.instance THEN 1 ELSE 0)
  /\ locals = [ r \in 0 .. m.registers - 1 |->
                  IF m.instance /\ r = m.registers - m.ins THEN Local(This, 0, TRUE) ELSE Unused ]
  /\ emitted = << >> /\ positions = << >>

DebugInit == \E m \in DebugMethods : DebugStart(m)

DebugNext ==
  \/ Parameter \/ EndSequence \/ AdvancePc \/ AdvanceLine \/ RegisterRefused
  \/ StartLocal \/ EndLocal \/ RestartLocal \/ Skip \/ Special \/ EmitRest

DebugSpec == DebugInit /\ [][DebugNext]_debugVars /\ WF_debugVars(DebugNext)

-----------------------------------------------------------------------------

\* The sum of the first n numbers of a sequence.
SumTo(n, numbers) ==
  LET sum[k \in 0 .. Len(numbers)] == IF k = 0 THEN 0 ELSE sum[k - 1] + numbers[k]
  IN  sum[n]

\* By how much an instruction advances the address.
Advance(i) ==
  CASE debug.program[i].op = "advance_pc" -> debug.program[i].by
    [] debug.program[i].op = "special" -> (debug.program[i].by - FirstSpecial) \div LineRange
    [] OTHER -> 0

\* The address an instruction is executed at, from the program alone.
AddressOf(i) == SumTo(i - 1, [ j \in DOMAIN debug.program |-> Advance(j) ])

\* The instructions about a register, whose number is a dex_u2.
About(r) ==
  { i \in 1 .. read : debug.program[i].op \in {"start_local", "end_local", "restart_local"}
                     /\ debug.program[i].reg % U2Range = r }

\* The registers of the parameters, by their widths.
ParameterAt(k) ==
  debug.registers - debug.ins + (IF debug.instance THEN 1 ELSE 0)
    + SumTo(k - 1, [ j \in DOMAIN debug.params |-> IF debug.params[j] = "wide" THEN 2 ELSE 1 ])

\* The parameters the stream names are some of the prototype's, and lie in the
\* registers.
Fits == \A k \in DOMAIN debug.names : k \in DOMAIN debug.params /\ ParameterAt(k) < debug.registers

AtEntry(r) ==
  (IF debug.instance /\ r = debug.registers - debug.ins THEN {This} ELSE {})
  \cup { debug.names[k] : k \in { j \in 1 .. Len(debug.names) : debug.names[j] # NoName /\ ParameterAt(j) = r } }

\* The name a register's local has from its instruction i on.
Named(r, i) ==
  LET starts == { j \in About(r) : j <= i /\ debug.program[j].op = "start_local" }
  IN  IF starts = {} THEN AtEntry(r)
      ELSE { debug.program[j].name : j \in { k \in starts : \A l \in starts : l <= k } }

\* What the program says lives in a register at an address: the last of its
\* instructions about it, up to there, starts it or starts it again.
Described(r, a) ==
  LET until == { i \in About(r) : AddressOf(i) <= a }
      last == CHOOSE i \in until : \A j \in until : j <= i
  IN  IF until = {} THEN AtEntry(r)
      ELSE IF debug.program[last].op = "end_local" THEN {} ELSE Named(r, last)

\* The ranges the callback was told of say, for each register and each address
\* of the method, the local the program says is there, and no other.  Excepted
\* are programs that fail in their parameters, and those that go on to address
\* 2^16, where the start of a range is cut.
RangesAsDescribed ==
  (phase = "decoded" /\ Fits /\ pc < U2Range) =>
     \A r \in Registers, a \in 0 .. debug.code - 1 :
       { emitted[i].name : i \in { j \in DOMAIN emitted :
           emitted[j].reg = r /\ emitted[j].start <= a /\ a < emitted[j].end } } = Described(r, a)

\* The callbacks come in the order promised to their callers: positions by
\* ascending address, locals by ascending end, as far as the addresses stay in
\* the method.
Ascending ==
  pc <= debug.code =>
    /\ \A i \in 2 .. Len(positions) : positions[i - 1][1] <= positions[i][1]
    /\ \A i \in 2 .. Len(emitted) : emitted[i - 1].end <= emitted[i].end

\* Who asks for the locals of a method gets those the program describes, in
\* the order promised.
LocalsAsDescribed == RangesAsDescribed /\ Ascending
=============================================================================
