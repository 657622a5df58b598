----------------------------- MODULE TextProgram -----------------------------
(***************************************************************************)
(* The commands of a text, from line to pulse: parsePlainTxt and           *)
(* parseCommand (parseTxtSeq.cpp) make instructions of two words of them   *)
(* (InstWriter, commands.h), runMetaInstruction (instruction.cpp) makes    *)
(* pulses of these, with the memory it has of the TTL outputs and phases.  *)
(* In the waits of a text clients change the DDS boards too (writeRequests *)
(* in runWait).  TextSequence has the ticks of the same text.              *)
(*                                                                         *)
(* A line is what the parser tells apart: its form and time, the keywords  *)
(* in the name of the command, what its argument is ("number", "all",      *)
(* "off", "word"), the number i it is, whether a value can be read, and    *)
(* the number the converters make of it.  A value for all TTL channels is  *)
(* the set of the channels that are on.  An output is a TTL channel before *)
(* the masks of the web page, the clock, a DAC, or a register of a board.  *)
(***************************************************************************)
EXTENDS TextSequence

CONSTANTS
  Programs,    \* the texts, as sequences of lines
  Channels,    \* the TTL channels they set
  Devices,     \* the DDS boards they use
  StateGarbage,\* what else CtrlState may hold before it is set
  Commands,    \* what clients ask of the boards: setDeviceParams
  MaxCommands, \* bound on such commands in one call of writeRequests
  PowerUp      \* the content of a register after a reset, whatever it is

NDDS == 22
TTLs == 0 .. 31
UInt16 == 0 .. 2 ^ 16 - 1
Names == <<"TTL", "freq", "amp", "phase", "shiftp", "reset", "CLOCK_OUT", "dac">>

VARIABLES
  source,   \* the lines not read yet
  words,    \* the instructions; those of waits are in code only
  asks,     \* the commands they come from
  memory,   \* CtrlState::curr_ttl and dds_phases
  out,      \* the outputs of the FPGA and of the boards, by name
  said,     \* history: what the lines of the text have made of the TTL channels
            \* and phases, from what CtrlState held when they began
  due,      \* history: what each output is to be, by the lines and the clients
  served,   \* clients' commands written by the writeRequests under way
  excess    \* ticks the commands took beyond what the builder counted

outVars   == <<memory, out, said, due, excess>>
pulseVars == <<source, words, asks, outVars, served>>
-----------------------------------------------------------------------------
(* parsePlainTxt and parseCommand                                          *)

\* The first keyword that is looked for and found.
Name(line) ==
  LET found == {i \in DOMAIN Names : Names[i] \in line.cmd}
  IN IF found = {} THEN "unknown" ELSE Names[CHOOSE i \in found : \A j \in found : i <= j]

\* "off" is looked for first; atoi makes 0 of another word.
Divider(line) == CASE line.arg = "off" -> 255
                   [] line.arg = "number" -> line.i - 1
                   [] OTHER -> -1

\* A line the parser throws an error for.
Numbered(line, most) == line.value /\ line.arg = "number" /\ line.i <= most
Rejected(line) ==
  \/ line.form \in {"untimed", "cut"} \/ Name(line) = "unknown"
  \/ Name(line) = "TTL" /\ ~(line.value /\ line.arg \in {"number", "all"})
  \/ Name(line) \in {"freq", "amp", "phase", "shiftp"} /\ ~Numbered(line, NDDS - 1)
  \/ Name(line) = "dac" /\ ~Numbered(line, 3)
  \/ Name(line) = "reset" /\ ~(line.value /\ line.arg = "number")
  \/ Name(line) = "CLOCK_OUT" /\ Divider(line) \notin 0 .. 255

\* accumTime
Length(line) == CASE Name(line) = "TTL" -> MinPulse [] Name(line) = "CLOCK_OUT" -> 5
                  [] Name(line) = "dac" -> 45 [] OTHER -> DDS

IsCommand(line) == line.form = "command" /\ ~Rejected(line)
Timed(line) ==
  IF IsCommand(line)
  THEN [timed |-> line.timed, time |-> line.time, len |-> Length(line)]
  ELSE [timed |-> IF line.form = "comment" THEN "comment" ELSE "error",
        time |-> 0, len |-> 0]
Times(lines) == [i \in DOMAIN lines |-> Timed(lines[i])]

\* A command has a time and values of the types the converters give, and names
\* a board and a channel that exist; the parser itself lets a reset name any
\* board and a TTL command any channel.
Fits(line) ==
  /\ line.timed \in {"t", "dt"} /\ line.time \in Nat
  /\ Name(line) = "TTL" => IF line.arg = "all" THEN line.on \subseteq TTLs ELSE line.i \in TTLs
  /\ Name(line) \in {"freq", "amp", "phase", "shiftp", "reset"} => line.i \in Devices
  /\ Name(line) \in {"amp", "phase", "shiftp", "dac"} => line.val \in UInt16
  /\ Name(line) = "dac" => line.i \in Nat

ASSUME DevicesAssumption == Devices \subseteq 0 .. NDDS - 1
ASSUME ChannelsAssumption == Channels \subseteq TTLs
ASSUME TimesAssumption == {Times(p) : p \in Programs} \subseteq Texts
ASSUME ProgramsAssumption ==
  \A p \in Programs :
    /\ p \in Seq({p[i] : i \in DOMAIN p})
    /\ \A i \in DOMAIN p : IsCommand(p[i]) => Fits(p[i])
ASSUME StateAssumption ==
  StateGarbage \subseteq [curr_ttl : SUBSET TTLs, dds_phases : [Devices -> UInt16]]

\* The registers of a board that are outputs.
Registers == {"freq", "amp", "phase"}
ASSUME CommandsAssumption ==
  /\ MaxCommands \in Nat
  /\ \A c \in Commands :
       c.k \in Registers /\ c.i \in Devices /\ (c.k # "freq" => c.val \in UInt16)
-----------------------------------------------------------------------------
(* The words: ControlBit, InstWriter and the constructors of commands.h    *)

\* `|' of C++, by halves of the operands.
Or1(x, y)  == IF x = 1 \/ y = 1 THEN 1 ELSE 0
Or2(x, y)  == Or1(x % 2, y % 2) + 2 * Or1(x \div 2, y \div 2)
Or4(x, y)  == Or2(x % 4, y % 4) + 4 * Or2(x \div 4, y \div 4)
Or8(x, y)  == Or4(x % 16, y % 16) + 16 * Or4(x \div 16, y \div 16)
Or16(x, y) == Or8(x % 256, y % 256) + 256 * Or8(x \div 256, y \div 256)
Or(x, y)   == Or16(x % 2 ^ 16, y % 2 ^ 16) + 2 ^ 16 * Or16(x \div 2 ^ 16, y \div 2 ^ 16)

MetaCmd == 2 ^ 29
DDSSetPhaseMeta   == 2 ^ 24
DDSShiftPhaseMeta == 2 ^ 25
DDSResetMeta == 2 ^ 26
TTLMeta == 2 ^ 26 + 2 ^ 24
TTLAll  == 2 ^ 18 - 1
TimingCheck == 27   \* the number of its bit

Word(ctrl, op) == [ctrl |-> ctrl, op |-> op]

DDSCmd(ctrl, op)  == Word(Or(2 ^ 28, ctrl), op)
DDSSetFreq(i, f)  == DDSCmd(i * 16, f)
DDSSetTwoBytes(i, addr, data) ==
  DDSCmd(Or(Or(2, i * 16), ((addr + 1) % 128) * 512), data % 2 ^ 16)
DDSSetAmp(i, amp)     == DDSSetTwoBytes(i, 50, amp)
DDSSetPhase(i, p)    == DDSSetTwoBytes(i, 48, p)
DDSReset(i)  == DDSCmd(Or(4, i * 16), 0)
ClockOut(div) == Word(5 * 2 ^ 28, div % 256)
DACSetVolt(dac, V) == Word(6 * 2 ^ 28, Or((dac % 4) * 2 ^ 16, V))

ttlTX(addr, val, t) == Word(Or(Or(Or(MetaCmd, TTLMeta), addr), t * 2 ^ 17), val)
ttlT(addr, val, t)  == Word(Or(Or(Or(MetaCmd, TTLMeta), addr), t * 2 ^ 18), val)

Bool(val) == IF val = 0 THEN 0 ELSE 1

Instruction(line) ==
  LET i == line.i
  IN CASE Name(line) = "TTL" /\ line.arg = "all" -> ttlT(TTLAll, line.on, MinPulse)
       [] Name(line) = "TTL" /\ line.arg # "all" ->
            ttlT(i % 256, Bool(line.val), MinPulse)
       [] Name(line) = "freq"   -> DDSSetFreq(i, line.val)
       [] Name(line) = "amp"    -> DDSSetAmp(i, line.val)
       [] Name(line) = "phase"  -> Word(Or(Or(MetaCmd, DDSSetPhaseMeta), line.val), i)
       [] Name(line) = "shiftp" -> Word(Or(Or(MetaCmd, DDSShiftPhaseMeta), line.val), i)
       [] Name(line) = "reset"  -> Word(Or(MetaCmd, DDSResetMeta), i)
       [] Name(line) = "CLOCK_OUT" -> ClockOut(Divider(line))
       [] Name(line) = "dac"    -> DACSetVolt(i, line.val)

\* The command of a line has its place in code; the waits around it have none.
Add(seq, e, none) ==
  [i \in 1 .. Len(code') |-> IF i <= Len(code) THEN seq[i]
                             ELSE IF code'[i].op = "pulse" THEN e ELSE none]

\* getline until the end of the text.
SkipLine ==
  /\ Skip
  /\ source' = Tail(source)
  /\ UNCHANGED <<words, asks, outVars, served>>

ParseLine ==
  /\ Build
  /\ source' = Tail(source)
  /\ words' = Add(words, Instruction(Head(source)), Word(0, 0))
  /\ asks' = Add(asks, Head(source), [form |-> "wait"])
  /\ UNCHANGED <<outVars, served>>

LineFails == BuildFails /\ UNCHANGED pulseVars
-----------------------------------------------------------------------------
(* runInstruction                                                          *)

Meta(w)     == w.ctrl \div 2 ^ 28 = 2
MetaInst(w) == (w.ctrl % 2 ^ 28) - (w.ctrl % 2 ^ 24)
setBit(x, c, b) == x + (b - ((x \div 2 ^ c) % 2)) * 2 ^ c

\* The same for the value of all TTL channels.
setTTL(ttl, c, b) == IF b = 1 THEN ttl \cup {c} ELSE ttl \ {c}

ResetPhaseX(phases, i) == phases
ResetPhase(phases, i)  == [phases EXCEPT ![i] = 0]
Shifted(p, by)  == (p + by) % 2 ^ 16

\* The memory after an instruction.
Remembers(w) ==
  LET ttl_addr == w.ctrl % 2 ^ 18
      i        == w.op
      to(p)    == [memory EXCEPT !.dds_phases[i] = p]
  IN CASE ~Meta(w) -> memory
       [] Meta(w) /\ MetaInst(w) = DDSSetPhaseMeta -> to(w.ctrl % 2 ^ 16)
       [] Meta(w) /\ MetaInst(w) = DDSShiftPhaseMeta ->
            to(Shifted(memory.dds_phases[i], w.ctrl % 2 ^ 16))
       [] Meta(w) /\ MetaInst(w) = DDSResetMeta ->
            [memory EXCEPT !.dds_phases = ResetPhase(@, i)]
       [] Meta(w) /\ MetaInst(w) = TTLMeta ->
            [memory EXCEPT !.curr_ttl =
               IF ttl_addr = TTLAll THEN w.op ELSE setTTL(@, ttl_addr % 256, Bool(w.op))]

\* The pulse it writes, before checkedShortPulse.
PulseOf(w) ==
  CASE ~Meta(w) -> w
    [] Meta(w) /\ MetaInst(w) \in {DDSSetPhaseMeta, DDSShiftPhaseMeta} ->
         DDSSetPhase(w.op, Remembers(w).dds_phases[w.op])
    [] Meta(w) /\ MetaInst(w) = DDSResetMeta -> DDSReset(w.op)
    [] Meta(w) /\ MetaInst(w) = TTLMeta ->
         Word((w.ctrl % 2 ^ 24) \div 2 ^ 18, Remembers(w).curr_ttl)

Checked(w) == Word(setBit(w.ctrl, TimingCheck, 1), w.op)

\* What the FPGA does with a pulse, and how long it takes.
Board(w)    == (w.ctrl \div 16) % 32
Opcode(w)   == w.ctrl % 16
Register(w) == (w.ctrl \div 512) % 128
DDSSets(w, k) ==
  \/ Opcode(w) = 0 /\ k = "freq"
  \/ Opcode(w) = 2 /\ Register(w) = 51 /\ k = "amp"
  \/ Opcode(w) = 2 /\ Register(w) = 49 /\ k = "phase"
On(c, ttl) == IF c \in ttl THEN 1 ELSE 0
Outputs(w, name) ==
  LET kind   == w.ctrl \div 2 ^ 28
      is(k)  == name[1] = k
      at(i)  == name[2] = i
  IN CASE kind = 0 /\ is("ttl") -> On(name[2], w.op)
       [] kind = 5 /\ is("clock") -> w.op
       [] kind = 6 /\ is("dac") /\ at((w.op \div 2 ^ 16) % 4) -> w.op % 2 ^ 16
       [] kind = 1 /\ at(Board(w)) /\ DDSSets(w, name[1]) -> w.op
       [] kind = 1 /\ at(Board(w)) /\ Opcode(w) = 4 /\ name[1] \in Registers -> PowerUp
       [] OTHER -> out[name]
Takes(w) == LET kind == w.ctrl \div 2 ^ 28
            IN CASE kind = 0 -> w.ctrl % 2 ^ 24 [] kind = 1 -> DDS
                 [] kind = 5 -> 5 [] kind = 6 -> 45
-----------------------------------------------------------------------------
(* What the outputs are to be.                                             *)

OutNames ==
  {<<"ttl", c>> : c \in Channels} \cup {<<"clock", 0>>} \cup {<<"dac", i>> : i \in 0 .. 3}
    \cup {<<k, i>> : k \in Registers, i \in Devices}
SaidNames == {name \in OutNames : name[1] \in {"ttl", "phase"}}

\* What a CtrlState says of them.
Held(state) ==
  [name \in SaidNames |-> IF name[1] = "ttl" THEN On(name[2], state.curr_ttl)
                          ELSE state.dds_phases[name[2]]]

\* A line names channel or board c of kind k by its command.
Asks(line, name, k, c) ==
  name[1] = k /\ Name(line) = c /\ line.arg = "number" /\ line.i = name[2]

\* A shift counts from the text's own phase, 0 after its reset, whatever the
\* clients have set in between.
Says(line, name) ==
  CASE Asks(line, name, "ttl", "TTL")     -> Bool(line.val)
    [] name[1] = "ttl" /\ Name(line) = "TTL" /\ line.arg = "all" -> On(name[2], line.on)
    [] Asks(line, name, "phase", "phase") -> line.val
    [] Asks(line, name, "phase", "reset") -> 0
    [] Asks(line, name, "phase", "shiftp") -> (said[name] + line.val) % 2 ^ 16
    [] OTHER -> said[name]

\* Every TTL command writes all channels: one no line has set yet gets what
\* CtrlState held at the start.  A reset clears all of its board.
Due(line, name) ==
  CASE name[1] = "ttl" /\ Name(line) = "TTL" -> Says(line, name)
    [] Asks(line, name, "phase", "phase") \/ Asks(line, name, "phase", "shiftp") ->
         Says(line, name)
    [] name[1] = "clock" /\ Name(line) = "CLOCK_OUT" -> Divider(line)
    [] \E k \in {"dac", "freq", "amp"} : Asks(line, name, k, k) -> line.val
    [] \E k \in Registers : Asks(line, name, k, "reset") -> PowerUp
    [] OTHER -> due[name]

ProgramInit ==
  /\ source \in Programs /\ phase = "build" /\ text = Times(source)
  /\ code = <<>> /\ currT = 0 /\ plan = <<>>
  /\ n = 1 /\ left = 0 /\ wait_time = 0 /\ now = 0 /\ operand = 0 /\ unserved = 0
  /\ words = <<>> /\ asks = <<>> /\ excess = 0 /\ served = 0
  /\ memory = [curr_ttl |-> {}, dds_phases |-> [i \in Devices |-> 0]]
  /\ said = Held(memory)
  /\ out = [name \in OutNames |-> 0] /\ due = out

StartProgram ==
  /\ Start
  /\ memory' \in StateGarbage /\ said' = Held(memory')
  /\ UNCHANGED <<source, words, asks, out, due, served, excess>>

RunCommand ==
  /\ RunPulse
  /\ LET pulse == Checked(PulseOf(words[n]))
     IN /\ memory' = Remembers(words[n])
        /\ out' = [name \in OutNames |-> Outputs(pulse, name)]
        /\ excess' = excess + Takes(pulse) - Inst.len
  /\ said' = [name \in SaidNames |-> Says(asks[n], name)]
  /\ due' = [name \in OutNames |-> Due(asks[n], name)]
  /\ UNCHANGED <<source, words, asks, served>>

\* writeRequests, called in a wait: a client's DDSSetFreq, DDSSetAmp or
\* DDSSetPhase.  All else clients ask for only takes its ticks.
Limit == IF left > 0 THEN t_max \div 1000 ELSE max_requests(Inst.len)
CommandWord(c) == CASE c.k = "freq" -> DDSSetFreq(c.i, c.val)
                    [] c.k = "amp" -> DDSSetAmp(c.i, c.val)
                    [] c.k = "phase" -> DDSSetPhase(c.i, c.val)
ServeClient ==
  /\ \/ MiddleWait /\ ServeNow(Inst.len)
     \/ phase = "run" /\ left > 0 /\ More
  /\ served < MinOf(Limit, max_write) /\ served < MaxCommands
  /\ served' = served + 1
  /\ \E c \in Commands :
       /\ out' = [name \in OutNames |-> Outputs(Checked(CommandWord(c)), name)]
       /\ due' = [name \in OutNames |-> IF name = <<c.k, c.i>> THEN c.val ELSE due[name]]
  /\ UNCHANGED <<vars, source, words, asks, memory, said, excess>>

\* The wait goes on after them, shorter by at least the ticks they took.
RunWait ==
  /\ WaitShort \/ WaitOn \/ WaitServe \/ LongBegin \/ LongStep \/ LongEnd \/ Finish
  /\ served = 0 \/ DDS * served <= now' - now - operand'
  /\ served' = 0
  /\ UNCHANGED <<source, words, asks, outVars>>

ProgramNext ==
  \/ SkipLine \/ ParseLine \/ LineFails
  \/ StartProgram \/ RunCommand \/ ServeClient \/ RunWait
ProgramSpec == ProgramInit /\ [][ProgramNext]_<<vars, pulseVars>>
-----------------------------------------------------------------------------
\* Every output is at any time what the last command for it made it, of the text
\* or of a client served in one of its waits, in every repetition: the two words
\* of a command keep its fields apart, a channel that is set leaves the others as
\* the text set them, or as CtrlState held them when it began; a reset clears its
\* board; shifts of a phase add up after a phase and after a reset, also when a
\* client has set another phase in between.
OutputsFollow == \A name \in OutNames : out[name] = due[name]

\* The commands take as many ticks as the builder counts for them, so that its
\* times are those of the pulses.
LengthsAgree == excess = 0
=============================================================================
