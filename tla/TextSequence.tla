---------------------------- MODULE TextSequence ----------------------------
(***************************************************************************)
(* A sequence given as text: BlockBuilder (lib/pulser/instruction.h) puts  *)
(* the commands of its lines on a timeline, runInstructionList and runWait *)
(* (instruction.cpp) write it to the FPGA.  A wait is shared with the      *)
(* clients: writeRequests writes requests in it, and what they take is cut *)
(* from the wait.  Times are ticks of the FPGA (10ns); a command is the    *)
(* number of ticks it takes.                                               *)
(***************************************************************************)
EXTENDS Integers, Sequences

CONSTANTS
  Texts,        \* the texts that are run
  WaitGarbage   \* what CtrlState::wait_time may hold before it is ever set

\* A line has an absolute time or the time to the next command; or it is a
\* comment, or one the parser throws an error for.
Line == [timed : {"t", "dt", "comment", "error"}, time : Nat, len : Nat]
ASSUME TextAssumption == Texts \subseteq Seq(Line)
ASSUME GarbageAssumption == WaitGarbage \subseteq Nat

MinPulse    == 3       \* Seq::PulseTime::Min, the shortest pulse
DDS         == 50      \* Seq::PulseTime::_DDS, a command of a DDS
t_max       == 8000    \* 80us
max_write   == 15
MaxOperand  == 4096 * 4096 - 1   \* the field of a pulse has 24 bits

VARIABLES
  phase,      \* "build", "failed", "run" or "done"
  text,       \* the lines not built yet
  code,       \* the instructions of the BlockBuilder
  currT,      \* its member of this name
  plan,       \* when each instruction is to begin, and when the text asks for it
  n,          \* the instruction that runs next
  left,       \* t in the loop of runWait, or 0
  wait_time,  \* CtrlState::wait_time
  now,        \* ticks written since the sequence began
  operand,    \* the field of the last wait written
  unserved    \* ticks of waits since writeRequests was called

buildVars == <<text, code, currT, plan>>
vars == <<phase, buildVars, n, left, wait_time, now, operand, unserved>>

Init ==
  /\ phase = "build" /\ text \in Texts
  /\ code = <<>> /\ currT = 0 /\ plan = <<>>
  /\ n = 1 /\ left = 0 /\ wait_time = 0 /\ now = 0 /\ operand = 0 /\ unserved = 0
-----------------------------------------------------------------------------
(* BlockBuilder                                                            *)

Pulse(len) == [op |-> "pulse", len |-> len]
Wait(t)    == [op |-> "wait", len |-> t]
Slot(begin, asked) == [begin |-> begin, asked |-> asked]

Append2(seq, a, b) == Append(Append(seq, a), b)

runVars == <<n, left, wait_time, now, operand, unserved>>

\* A name that ends in X is a slip one could make in the definition that
\* follows it; nothing uses it.

\* pulseAbsT: a gap below the shortest pulse is left out.
Gap(time)  == time - currT >= MinPulse
AtLater ==
  LET line == Head(text) IN
  /\ line.timed = "t" /\ line.time >= currT /\ Gap(line.time)
  /\ code' = Append2(code, Wait(line.time - currT), Pulse(line.len))
  /\ plan' = Append2(plan, Slot(currT, currT), Slot(line.time, line.time))
  /\ currT' = line.time + line.len

AtOnce ==
  LET line == Head(text) IN
  /\ line.timed = "t" /\ line.time >= currT /\ ~Gap(line.time)
  /\ code' = Append(code, Pulse(line.len))
  /\ plan' = Append(plan, Slot(currT, line.time))
  /\ currT' = currT + line.len

\* pulseDT: dt is the time to the next command.
Delta ==
  LET line == Head(text) IN
  /\ line.timed = "dt" /\ line.time >= line.len
  /\ code' = Append2(code, Pulse(line.len), Wait(line.time - line.len))
  /\ plan' = Append2(plan, Slot(currT, currT), Slot(currT + line.len, currT + line.len))
  /\ currT' = currT + line.time

Build ==
  /\ phase = "build" /\ text # <<>>
  /\ AtLater \/ AtOnce \/ Delta
  /\ text' = Tail(text)
  /\ UNCHANGED <<phase, runVars>>

Skip ==
  /\ phase = "build" /\ text # <<>> /\ Head(text).timed = "comment"
  /\ text' = Tail(text)
  /\ UNCHANGED <<phase, code, currT, plan, runVars>>

\* An error of the parser, "Going back in time.", "Pulse too short."
BuildFails ==
  /\ phase = "build" /\ text # <<>>
  /\ LET line == Head(text) IN
       \/ line.timed = "error"
       \/ line.timed = "t" /\ line.time < currT
       \/ line.timed = "dt" /\ line.time < line.len
  /\ phase' = "failed"
  /\ UNCHANGED <<buildVars, runVars>>
-----------------------------------------------------------------------------
(* runInstructionList                                                      *)

\* parseSeqTxt runs the same code again and again, each time with a CtrlState
\* that it does not initialise.
Start ==
  /\ \/ phase = "build" /\ text = <<>>
     \/ phase = "done"
  /\ phase' = "run" /\ n' = 1 /\ now' = 0 /\ unserved' = 0
  /\ wait_time' \in WaitGarbage
  /\ UNCHANGED <<buildVars, left, operand>>

Inst       == code[n]
Running(op) == phase = "run" /\ n <= Len(code) /\ left = 0 /\ Inst.op = op
Done       == n' = n + 1 /\ left' = 0 /\ UNCHANGED <<phase, buildVars>>

RunPulse ==
  /\ Running("pulse") /\ now' = now + Inst.len /\ Done
  /\ UNCHANGED <<wait_time, operand, unserved>>

\* The ticks of the requests writeRequests writes when it may write max.  All
\* requests of clients are commands of a DDS; how many there are, and how much
\* space is left for their results, is up to them.
MinOf(a, b)  == IF a <= b THEN a ELSE b
Written(max) == {DDS * i : i \in 0 .. MinOf(max, max_write)}

\* The wait pulse of what is left of t after requests that took w.
PulseTicksX(t, w) == t
PulseTicks(t, w)  == t - w
WaitPulse(t, w) ==
  operand' = PulseTicks(t, w) /\ now' = now + w + PulseTicks(t, w)

WaitShort ==
  /\ Running("wait") /\ Inst.len < DDS
  /\ WaitPulse(Inst.len, 0) /\ Done
  /\ UNCHANGED <<wait_time, unserved>>

\* A wait of less than 160us serves the clients when it is long, or when the
\* waits since the last time add up.
MiddleWait == Running("wait") /\ Inst.len >= DDS /\ Inst.len < 2 * t_max
ServeNowX(t) == t >= 1024
ServeNow(t)  == wait_time + t > 8192 \/ t >= 1024
WaitOn ==
  /\ MiddleWait /\ ~ServeNow(Inst.len)
  /\ wait_time' = wait_time + Inst.len
  /\ WaitPulse(Inst.len, 0) /\ Done
  /\ unserved' = unserved + Inst.len

max_requestsX(t) == t \div DDS + 1
max_requests(t)  == (t - DDS) \div 256 + 1
WaitServe ==
  /\ MiddleWait /\ ServeNow(Inst.len)
  /\ wait_time' = 0
  /\ \E w \in Written(max_requests(Inst.len)) :
       WaitPulse(Inst.len, w) /\ unserved' = Inst.len - w
  /\ Done

\* A longer one serves them every 80us, until less than 160us are left.
LongBegin ==
  /\ Running("wait") /\ Inst.len >= 2 * t_max
  /\ wait_time' = 0 /\ left' = Inst.len
  /\ UNCHANGED <<phase, buildVars, n, now, operand, unserved>>

MoreX == left > 0
More  == left >= 2 * t_max
LongStep ==
  /\ phase = "run" /\ left > 0 /\ More
  /\ \E w \in Written(t_max \div 1000) :
       WaitPulse(t_max, w) /\ unserved' = t_max - w
  /\ left' = left - t_max
  /\ UNCHANGED <<phase, buildVars, n, wait_time>>

LongEnd ==
  /\ phase = "run" /\ left > 0 /\ ~More
  /\ WaitPulse(left, 0) /\ Done
  /\ unserved' = unserved + left
  /\ UNCHANGED wait_time

\* A last pulse of the shortest length.
Finish ==
  /\ phase = "run" /\ n = Len(code) + 1
  /\ phase' = "done" /\ now' = now + MinPulse /\ operand' = MinPulse
  /\ UNCHANGED <<buildVars, n, left, wait_time, unserved>>

Next ==
  \/ Build \/ Skip \/ BuildFails \/ Start \/ RunPulse \/ WaitShort \/ WaitOn
  \/ WaitServe \/ LongBegin \/ LongStep \/ LongEnd \/ Finish

Spec == Init /\ [][Next]_vars
-----------------------------------------------------------------------------
\* Every variable has its type and the next instruction is one of the code or
\* its end.
TypeOK ==
  /\ phase \in {"build", "failed", "run", "done"} /\ text \in Seq(Line)
  /\ code \in Seq([op : {"pulse", "wait"}, len : Nat])
  /\ plan \in Seq([begin : Nat, asked : Nat]) /\ Len(plan) = Len(code)
  /\ n \in 1 .. Len(code) + 1
  /\ currT \in Nat /\ left \in Nat /\ wait_time \in Nat /\ now \in Nat
  /\ operand \in Int /\ unserved \in Int

\* Whatever the clients' requests take of the waits, a command is written at the
\* tick the text asks for, or less than the shortest pulse before; the error of
\* one line is not carried to the next, and the sequence is as long as its
\* builder says.
OnSchedule ==
  /\ Running("pulse") => plan[n].asked - now \in 0 .. MinPulse - 1
  /\ phase = "done" => now = currT + MinPulse

\* The requests never take more than the wait they are written in: its rest fits
\* the field of a pulse and leaves the bits of the command alone.
OperandFits == operand \in 0 .. MaxOperand

\* Less than 322us of waits of 500ns and longer go by without a look at the
\* clients' requests, however they are cut.
ServedSoon == unserved < 3 * t_max + 8192
=============================================================================
