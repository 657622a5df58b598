----------------------------- MODULE TextProofs -----------------------------
(***************************************************************************)
(* Proofs about modules TextSequence and TextProgram, for any texts and     *)
(* any content of the CtrlState.                                           *)
(***************************************************************************)
EXTENDS TextProgram, SequenceTheorems, TLAPS

Entry == [op : {"pulse", "wait"}, len : Nat]

\* Where instruction i of a timeline begins, or where the timeline ends.
BeginOf(c, p, end, i) == IF i <= Len(c) THEN p[i].begin ELSE end

\* Each instruction begins where the one before it ends, the first at 0, and the
\* last ends at end; none begins after the text asks for it, nor MinPulse before.
Chained(c, p, end) ==
  /\ c \in Seq(Entry) /\ p \in Seq([begin : Nat, asked : Nat])
  /\ Len(p) = Len(c) /\ end \in Nat
  /\ BeginOf(c, p, end, 1) = 0
  /\ \A i \in 1 .. Len(c) :
       /\ BeginOf(c, p, end, i + 1) = BeginOf(c, p, end, i) + c[i].len
       /\ p[i].asked - p[i].begin \in 0 .. MinPulse - 1

Begin(i) == BeginOf(code, plan, currT, i)

Types ==
  /\ phase \in {"build", "failed", "run", "done"} /\ text \in Seq(Line)
  /\ n \in 1 .. Len(code) + 1
  /\ left \in Nat /\ wait_time \in Nat /\ now \in Nat /\ unserved \in Nat

\* What is written when an instruction begins is what the builder counted.
InTime ==
  /\ phase = "run" /\ left = 0 => now = Begin(n)
  /\ left > 0 => phase = "run" /\ n <= Len(code) /\ now + left = Begin(n + 1)
  /\ phase = "done" => now = currT + MinPulse
  /\ phase = "build" => n = 1

\* Waits since the last look at the requests are in wait_time, but for the end
\* of a long one.
Counted ==
  /\ left = 0 => unserved < 3 * t_max + wait_time
  /\ wait_time > 8192 => unserved = 0
  /\ left > 0 => wait_time = 0
  /\ left > 0 /\ left < 2 * t_max => unserved <= t_max

IInv == Chained(code, plan, currT) /\ Types /\ InTime /\ Counted /\ OperandFits /\ ServedSoon

-----------------------------------------------------------------------------
\* How the constants compare.
LEMMA Limits ==
  /\ t_max \in Nat /\ DDS \in Nat /\ MinPulse \in Nat \ {0} /\ MaxOperand \in Nat
  /\ 1 < t_max /\ DDS < t_max /\ MinPulse < t_max /\ 2 * t_max <= MaxOperand
  BY DEF t_max, DDS, MinPulse, MaxOperand

\* The requests written in a wait take no more than the wait.
LEMMA RequestsFit ==
  ASSUME NEW t \in Nat, t >= DDS, NEW w \in Written(max_requests(t))
  PROVE  w \in 0 .. t
<1>1. PICK i \in 0 .. MinOf(max_requests(t), max_write) : w = DDS * i
  BY DEF Written
<1>2. max_requests(t) \in Nat
  BY DEF max_requests, DDS
<1>3. i \in Nat /\ i <= max_requests(t)
  BY <1>1, <1>2 DEF MinOf, max_write
<1>4. 256 * (max_requests(t) - 1) <= t - DDS
  BY DEF max_requests, DDS
<1> QED
  BY <1>1, <1>2, <1>3, <1>4 DEF DDS

\* Those in a step of a long wait take no more than the step.
LEMMA StepFits ==
  ASSUME NEW w \in Written(t_max \div 1000) PROVE w \in 0 .. t_max
<1>1. PICK i \in 0 .. MinOf(t_max \div 1000, max_write) : w = DDS * i
  BY DEF Written
<1>2. i \in 0 .. 8
  BY <1>1 DEF MinOf, max_write, t_max
<1> QED
  BY <1>1, <1>2 DEF DDS, t_max

\* An instruction more, at the end of the timeline.
LEMMA Extend ==
  ASSUME NEW c, NEW p, NEW end, Chained(c, p, end), NEW inst \in Entry,
         NEW slot \in [begin : Nat, asked : Nat],
         slot.begin = end, slot.asked - end \in 0 .. MinPulse - 1
  PROVE  Chained(Append(c, inst), Append(p, slot), end + inst.len)
<1> DEFINE c2 == Append(c, inst)
           p2 == Append(p, slot)
           end2 == end + inst.len
<1>1. /\ c \in Seq(Entry) /\ p \in Seq([begin : Nat, asked : Nat])
      /\ Len(p) = Len(c) /\ Len(c) \in Nat /\ end \in Nat /\ inst.len \in Nat
  BY LenProperties DEF Chained, Entry
<1>2. /\ c2 \in Seq(Entry) /\ p2 \in Seq([begin : Nat, asked : Nat])
      /\ Len(c2) = Len(c) + 1 /\ Len(p2) = Len(c) + 1
      /\ c2[Len(c) + 1] = inst /\ p2[Len(c) + 1] = slot
      /\ \A i \in 1 .. Len(c) : c2[i] = c[i] /\ p2[i] = p[i]
  BY <1>1, AppendProperties
<1>3. end2 \in Nat /\ end2 = end + inst.len
  BY <1>1
<1> HIDE DEF c2, p2, end2
<1>4. ASSUME NEW i \in 1 .. Len(c) + 1
      PROVE  BeginOf(c2, p2, end2, i) = BeginOf(c, p, end, i)
  <2>1. CASE i \in 1 .. Len(c)
    <3>1. p2[i] = p[i]
      BY <1>2, <2>1
    <3>2. i <= Len(c) /\ i <= Len(c2)
      BY <1>1, <1>2, <2>1
    <3> QED
      BY <3>1, <3>2 DEF BeginOf
  <2>2. CASE i = Len(c) + 1
    BY <1>1, <1>2, <2>2 DEF BeginOf
  <2> QED
    BY <1>1, <2>1, <2>2
<1>5. BeginOf(c2, p2, end2, 1) = 0
  BY <1>1, <1>4 DEF Chained
<1>6. ASSUME NEW i \in 1 .. Len(c2)
      PROVE  /\ BeginOf(c2, p2, end2, i + 1) = BeginOf(c2, p2, end2, i) + c2[i].len
             /\ p2[i].asked - p2[i].begin \in 0 .. MinPulse - 1
  <2>1. CASE i \in 1 .. Len(c)
    <3>1. /\ BeginOf(c2, p2, end2, i + 1) = BeginOf(c, p, end, i + 1)
          /\ BeginOf(c2, p2, end2, i) = BeginOf(c, p, end, i)
      BY <1>1, <1>4, <2>1
    <3>2. /\ BeginOf(c, p, end, i + 1) = BeginOf(c, p, end, i) + c[i].len
          /\ p[i].asked - p[i].begin \in 0 .. MinPulse - 1
      BY <2>1 DEF Chained
    <3> QED
      BY <1>2, <2>1, <3>1, <3>2
  <2>2. CASE i = Len(c) + 1
    <3>1. BeginOf(c2, p2, end2, i) = end /\ BeginOf(c2, p2, end2, i + 1) = end2
      BY <1>1, <1>2, <2>2 DEF BeginOf
    <3> QED
      BY <1>2, <1>3, <2>2, <3>1
  <2> QED
    BY <1>1, <1>2, <2>1, <2>2
<1> QED
  BY <1>1, <1>2, <1>3, <1>5, <1>6 DEF Chained, c2, p2, end2

\* What BlockBuilder appends.
LEMMA WaitType ==
  ASSUME NEW t \in Nat PROVE Wait(t) \in Entry /\ Wait(t).len = t
  BY DEF Wait, Entry

LEMMA PulseType ==
  ASSUME NEW t \in Nat PROVE Pulse(t) \in Entry /\ Pulse(t).len = t
  BY DEF Pulse, Entry

LEMMA SlotType ==
  ASSUME NEW begin \in Nat, NEW asked \in Nat
  PROVE  /\ Slot(begin, asked) \in [begin : Nat, asked : Nat]
         /\ Slot(begin, asked).begin = begin /\ Slot(begin, asked).asked = asked
  BY DEF Slot

\* An instruction that begins when the text asks for it.
LEMMA ExtendExactly ==
  ASSUME NEW c, NEW p, NEW end, Chained(c, p, end), NEW inst \in Entry
  PROVE  Chained(Append(c, inst), Append(p, Slot(end, end)), end + inst.len)
<1>1. end \in Nat /\ end - end \in 0 .. MinPulse - 1
  BY DEF Chained, MinPulse
<1> QED
  BY <1>1, SlotType, Extend

-----------------------------------------------------------------------------
(* The steps                                                               *)

\* The invariant holds before a line is read.
LEMMA InitHolds == Init => IInv
<1> SUFFICES ASSUME Init PROVE IInv
  OBVIOUS
<1>1. text \in Seq(Line)
  BY TextAssumption DEF Init
<1>2. Chained(code, plan, currT)
  BY DEF Init, Chained, BeginOf, Entry
<1>3. Types
  BY <1>1 DEF Init, Types
<1> QED
  BY <1>2, <1>3, Limits DEF IInv, Init, InTime, Counted, OperandFits, ServedSoon

\* A line read lengthens the timeline.
LEMMA BuildKeeps == ASSUME IInv, Build PROVE IInv'
<1>1. text \in Seq(Line) /\ text # <<>> /\ phase = "build"
  BY DEF IInv, Types, Build
<1> DEFINE line == Head(text)
<1>2. line \in Line /\ text' \in Seq(Line)
  BY <1>1, HeadTailProperties DEF Build
<1>3. line.len \in Nat /\ line.time \in Nat /\ currT \in Nat
  BY <1>2 DEF Line, IInv, Chained
<1> HIDE DEF line
<1>4. Chained(code', plan', currT')
  <2>1. CASE AtLater
    <3> DEFINE gap == line.time - currT
    <3>1. /\ gap \in Nat /\ currT + gap = line.time
          /\ code' = Append(Append(code, Wait(gap)), Pulse(line.len))
          /\ plan' = Append(Append(plan, Slot(currT, currT)), Slot(line.time, line.time))
          /\ currT' = line.time + line.len
      BY <1>3, <2>1 DEF AtLater, Append2, line
    <3> HIDE DEF gap
    <3>2. /\ Wait(gap) \in Entry /\ Wait(gap).len = gap
          /\ Pulse(line.len) \in Entry /\ Pulse(line.len).len = line.len
      BY <1>3, <3>1, WaitType, PulseType
    <3>3. Chained(Append(code, Wait(gap)), Append(plan, Slot(currT, currT)), line.time)
      BY <3>1, <3>2, ExtendExactly DEF IInv
    <3> DEFINE code1 == Append(code, Wait(gap))
               plan1 == Append(plan, Slot(currT, currT))
               pulse == Pulse(line.len)
    <3>4. code' = Append(code1, pulse) /\ plan' = Append(plan1, Slot(line.time, line.time))
      BY <3>1
    <3> HIDE DEF code1, plan1, pulse
    <3>5. Chained(code1, plan1, line.time) /\ pulse \in Entry /\ pulse.len = line.len
      BY <3>2, <3>3 DEF code1, plan1, pulse
    <3> QED
      BY <3>1, <3>4, <3>5, ExtendExactly
  <2>2. CASE AtOnce
    <3>1. /\ line.time - currT \in 0 .. MinPulse - 1
          /\ code' = Append(code, Pulse(line.len))
          /\ plan' = Append(plan, Slot(currT, line.time))
          /\ currT' = currT + line.len
      BY <1>3, <2>2 DEF AtOnce, Gap, MinPulse, line
    <3>2. Pulse(line.len) \in Entry /\ Pulse(line.len).len = line.len
      BY <1>3, PulseType
    <3>3. /\ Slot(currT, line.time) \in [begin : Nat, asked : Nat]
          /\ Slot(currT, line.time).begin = currT /\ Slot(currT, line.time).asked = line.time
      BY <1>3, SlotType
    <3> QED
      BY <3>1, <3>2, <3>3, Extend DEF IInv
  <2>3. CASE Delta
    <3> DEFINE mid == currT + line.len
               gap == line.time - line.len
    <3>1. /\ gap \in Nat /\ mid \in Nat /\ mid = currT + line.len
          /\ code' = Append(Append(code, Pulse(line.len)), Wait(gap))
          /\ plan' = Append(Append(plan, Slot(currT, currT)), Slot(mid, mid))
          /\ currT' = mid + gap
      BY <1>3, <2>3 DEF Delta, Append2, line
    <3> HIDE DEF mid, gap
    <3>2. /\ Wait(gap) \in Entry /\ Wait(gap).len = gap
          /\ Pulse(line.len) \in Entry /\ Pulse(line.len).len = line.len
      BY <1>3, <3>1, WaitType, PulseType
    <3>3. Chained(Append(code, Pulse(line.len)), Append(plan, Slot(currT, currT)), mid)
      BY <3>1, <3>2, ExtendExactly DEF IInv
    <3> QED
      BY <3>1, <3>2, <3>3, ExtendExactly
  <2> QED
    BY <2>1, <2>2, <2>3 DEF Build
<1>5. /\ n' = 1 /\ left' = 0 /\ phase' = "build" /\ UNCHANGED runVars
  BY <1>1 DEF IInv, Types, InTime, Build, runVars
<1>6. Len(code') \in Nat
  BY <1>4, LenProperties DEF Chained
<1>7. Types' /\ Counted' /\ OperandFits' /\ ServedSoon'
  BY <1>1, <1>2, <1>5, <1>6 DEF IInv, Types, Counted, OperandFits, ServedSoon, runVars
<1> QED
  BY <1>4, <1>5, <1>7 DEF IInv, InTime

\* Where the next instruction begins.
LEMMA NextBegins ==
  ASSUME IInv, n <= Len(code)
  PROVE  /\ n \in 1 .. Len(code) /\ Inst \in Entry /\ Inst.len \in Nat
         /\ Begin(n) \in Nat /\ Begin(n + 1) = Begin(n) + Inst.len
         /\ plan[n].asked - Begin(n) \in 0 .. MinPulse - 1
<1>1. n \in 1 .. Len(code) /\ Len(code) \in Nat
  BY LenProperties DEF IInv, Types, Chained
<1>2. Inst \in Entry /\ Inst.len \in Nat
  <2>1. code \in Seq(Entry)
    BY DEF IInv, Chained
  <2>2. code[n] \in Entry
    BY <1>1, <2>1, ElementOfSeq
  <2> QED
    BY <2>2 DEF Inst, Entry
<1>3. plan[n] \in [begin : Nat, asked : Nat] /\ Begin(n) = plan[n].begin
  BY <1>1, ElementOfSeq DEF IInv, Chained, Begin, BeginOf
<1> QED
  BY <1>1, <1>2, <1>3 DEF IInv, Chained, Begin, Inst

\* While wait_time is small it bounds what is unserved, beyond that there is none.
LEMMA CountBounds ==
  ASSUME NEW u \in Nat, NEW w \in Nat, u < 3 * t_max + w, w > 8192 => u = 0
  PROVE  u < 3 * t_max + 8192
  BY DEF t_max

\* A wait that serves nobody counts in both.
LEMMA BothCount ==
  ASSUME NEW u \in Nat, NEW w \in Nat, NEW len \in Nat, u < 3 * t_max + w
  PROVE  u + len < 3 * t_max + (w + len)
  BY DEF t_max

\* At the start nothing is unserved.
LEMMA NothingUnserved == ASSUME NEW w \in Nat PROVE 0 < 3 * t_max + w
  BY DEF t_max

\* The end of an instruction, with its ticks written.
LEMMA DoneKeeps ==
  ASSUME IInv, phase = "run", n <= Len(code), Done,
         left = 0 => now' = now + Inst.len,
         left > 0 => now' = now + left,
         wait_time' \in Nat, unserved' \in Nat, operand' \in 0 .. MaxOperand,
         unserved' < 3 * t_max + wait_time', wait_time' > 8192 => unserved' = 0
  PROVE  IInv'
<1>1. /\ n \in 1 .. Len(code) /\ Begin(n + 1) = Begin(n) + Inst.len
      /\ Inst.len \in Nat /\ Begin(n) \in Nat
  BY NextBegins
<1>2. /\ n' = n + 1 /\ left' = 0 /\ phase' = "run" /\ UNCHANGED <<text, code, currT, plan>>
  BY DEF Done, buildVars
<1>3. left \in Nat /\ now \in Nat
  BY DEF IInv, Types
<1>4. Begin(n)' = Begin(n + 1)
  BY <1>2 DEF Begin, BeginOf
<1>5. now' = Begin(n + 1)
  BY <1>1, <1>3 DEF IInv, InTime
<1>6. Types'
  BY <1>1, <1>2, <1>5 DEF IInv, Types
<1>7. InTime'
  BY <1>2, <1>4, <1>5 DEF InTime
<1>8. Counted' /\ OperandFits'
  BY <1>2 DEF Counted, OperandFits
<1>9. ServedSoon'
  <2>1. unserved' < 3 * t_max + 8192
    BY CountBounds
  <2> QED
    BY <2>1 DEF ServedSoon, t_max
<1>10. Chained(code, plan, currT)'
  BY <1>2 DEF IInv
<1> QED
  BY <1>6, <1>7, <1>8, <1>9, <1>10 DEF IInv

\* Every other step keeps it as well.
LEMMA RunKeeps == ASSUME IInv, Next, ~Build PROVE IInv'
<1>1. CASE BuildFails
  <2>1. phase = "build" /\ phase' = "failed" /\ UNCHANGED <<text, code, currT, plan>>
    BY <1>1 DEF BuildFails, buildVars
  <2>2. UNCHANGED <<n, left, wait_time, now, operand, unserved>>
    BY <1>1 DEF BuildFails, runVars
  <2> QED
    BY <2>1, <2>2 DEF IInv, Types, InTime, Counted, OperandFits, ServedSoon
<1>11. CASE Skip
  <2>1. phase = "build" /\ text # <<>> /\ text' = Tail(text)
    BY <1>11 DEF Skip
  <2>2. UNCHANGED <<phase, code, currT, plan, n, left, wait_time, now, operand, unserved>>
    BY <1>11 DEF Skip, runVars
  <2>3. text' \in Seq(Line)
    BY <2>1, HeadTailProperties DEF IInv, Types
  <2> QED
    BY <2>2, <2>3 DEF IInv, Types, InTime, Counted, OperandFits, ServedSoon, Begin, BeginOf
<1>2. CASE Start
  <2>1. /\ phase' = "run" /\ n' = 1 /\ now' = 0 /\ unserved' = 0 /\ wait_time' \in Nat
        /\ UNCHANGED <<text, code, currT, plan, left, operand>>
    BY <1>2, GarbageAssumption DEF Start, buildVars
  <2>2. left = 0
    BY <1>2 DEF Start, IInv, Types, InTime
  <2>3. Begin(n)' = 0 /\ Len(code) \in Nat
    BY <2>1, LenProperties DEF IInv, Chained, Begin
  <2>4. Types'
    BY <2>1, <2>2, <2>3 DEF IInv, Types
  <2>5. InTime'
    BY <2>1, <2>2, <2>3 DEF InTime
  <2>6. 0 < 3 * t_max + wait_time' /\ 0 < 3 * t_max + 8192
    BY <2>1, NothingUnserved
  <2>7. Counted'
    <3>1. left' = 0 /\ ~(left' > 0) /\ unserved' = 0
      BY <2>1, <2>2
    <3> QED
      BY <2>6, <3>1 DEF Counted
  <2>8. ServedSoon'
    BY <2>1, <2>6 DEF ServedSoon, t_max
  <2>9. OperandFits'
    BY <2>1 DEF IInv, OperandFits
  <2> QED
    BY <2>1, <2>4, <2>5, <2>7, <2>8, <2>9 DEF IInv
<1>3. CASE RunPulse
  <2>1. /\ phase = "run" /\ n <= Len(code) /\ left = 0 /\ Done
        /\ now' = now + Inst.len /\ UNCHANGED <<wait_time, operand, unserved>>
    BY <1>3 DEF RunPulse, Running
  <2> QED
    BY <2>1, DoneKeeps DEF IInv, Types, Counted, OperandFits
<1>4. CASE WaitShort
  <2>1. /\ phase = "run" /\ n <= Len(code) /\ left = 0 /\ Done
        /\ WaitPulse(Inst.len, 0) /\ Inst.len < DDS /\ UNCHANGED <<wait_time, unserved>>
    BY <1>4 DEF WaitShort, Running
  <2>2. Inst.len \in Nat
    BY <2>1, NextBegins
  <2>3. now' = now + Inst.len /\ operand' \in 0 .. MaxOperand
    BY <2>1, <2>2, Limits DEF WaitPulse, PulseTicks, IInv, Types
  <2> QED
    BY <2>1, <2>3, DoneKeeps DEF IInv, Types, Counted
<1>5. CASE WaitOn
  <2>1. /\ phase = "run" /\ n <= Len(code) /\ left = 0 /\ Done
        /\ WaitPulse(Inst.len, 0) /\ Inst.len >= DDS /\ Inst.len < 2 * t_max
        /\ wait_time' = wait_time + Inst.len /\ wait_time + Inst.len <= 8192
        /\ unserved' = unserved + Inst.len
    <3>1. Inst.len \in Nat
      BY <1>5, NextBegins DEF WaitOn, MiddleWait, Running
    <3> QED
      BY <1>5, <3>1 DEF WaitOn, MiddleWait, Running, ServeNow, IInv, Types
  <2>2. Inst.len \in Nat
    BY <2>1, NextBegins
  <2>3. now' = now + Inst.len /\ operand' \in 0 .. MaxOperand
    <3>1. now \in Nat /\ Inst.len - 0 = Inst.len /\ Inst.len \in 0 .. MaxOperand
      BY <2>1, <2>2, Limits DEF IInv, Types
    <3> QED
      BY <2>1, <2>2, <3>1 DEF WaitPulse, PulseTicks
  <2>4. /\ wait_time' \in Nat /\ unserved' \in Nat /\ wait_time' <= 8192
        /\ unserved' < 3 * t_max + wait_time'
    <3>1. /\ wait_time \in Nat /\ unserved \in Nat /\ unserved < 3 * t_max + wait_time
      BY <2>1 DEF IInv, Types, Counted
    <3>2. unserved + Inst.len < 3 * t_max + (wait_time + Inst.len)
      BY <2>2, <3>1, BothCount
    <3> QED
      BY <2>1, <2>2, <3>1, <3>2
  <2> QED
    BY <2>1, <2>3, <2>4, DoneKeeps
<1>6. CASE WaitServe
  <2>1. PICK w \in Written(max_requests(Inst.len)) :
          WaitPulse(Inst.len, w) /\ unserved' = Inst.len - w
    BY <1>6 DEF WaitServe
  <2>2. /\ phase = "run" /\ n <= Len(code) /\ left = 0 /\ Done
        /\ Inst.len >= DDS /\ Inst.len < 2 * t_max /\ wait_time' = 0
    BY <1>6 DEF WaitServe, MiddleWait, Running
  <2>3. Inst.len \in Nat
    BY <2>2, NextBegins
  <2>4. w \in 0 .. Inst.len
    BY <2>2, <2>3, RequestsFit
  <2>5. /\ now' = now + Inst.len /\ operand' \in 0 .. MaxOperand
        /\ unserved' \in Nat /\ unserved' < 3 * t_max
    <3>1. now \in Nat /\ Inst.len - w \in 0 .. MaxOperand /\ Inst.len - w < 3 * t_max
      BY <2>2, <2>3, <2>4, Limits DEF IInv, Types
    <3> QED
      BY <2>1, <2>3, <2>4, <3>1 DEF WaitPulse, PulseTicks
  <2>6. unserved' < 3 * t_max + wait_time' /\ wait_time' \in Nat /\ ~(wait_time' > 8192)
    BY <2>2, <2>5, Limits
  <2> QED
    BY <2>2, <2>5, <2>6, DoneKeeps
<1>7. CASE LongBegin
  <2>1. /\ phase = "run" /\ n <= Len(code) /\ left = 0 /\ Inst.len >= 2 * t_max
        /\ wait_time' = 0 /\ left' = Inst.len
        /\ UNCHANGED <<phase, text, code, currT, plan, n, now, operand, unserved>>
    BY <1>7 DEF LongBegin, Running, buildVars
  <2>2. /\ Inst.len \in Nat /\ Begin(n) \in Nat /\ Begin(n + 1) = Begin(n) + Inst.len
    BY <2>1, NextBegins
  <2>3. now + Inst.len = Begin(n + 1)
    BY <2>1, <2>2 DEF IInv, InTime
  <2>4. Begin(n + 1)' = Begin(n + 1)
    BY <2>1 DEF Begin, BeginOf
  <2>5. Types'
    BY <2>1, <2>2 DEF IInv, Types
  <2>6. InTime'
    BY <2>1, <2>2, <2>3, <2>4 DEF InTime, t_max
  <2>7. Counted' /\ OperandFits' /\ ServedSoon'
    BY <2>1, <2>2 DEF IInv, Counted, OperandFits, ServedSoon, t_max
  <2> QED
    BY <2>1, <2>5, <2>6, <2>7 DEF IInv
<1>8. CASE LongStep
  <2>1. PICK w \in Written(t_max \div 1000) : WaitPulse(t_max, w) /\ unserved' = t_max - w
    BY <1>8 DEF LongStep
  <2>2. /\ phase = "run" /\ left >= 2 * t_max /\ left' = left - t_max
        /\ UNCHANGED <<phase, text, code, currT, plan, n, wait_time>>
    BY <1>8 DEF LongStep, More, buildVars
  <2>3. w \in 0 .. t_max
    BY StepFits
  <2>4. left \in Nat /\ now \in Nat
    BY DEF IInv, Types
  <2>5. /\ now' = now + t_max /\ operand' \in 0 .. MaxOperand
        /\ unserved' \in Nat /\ unserved' <= t_max
    BY <2>1, <2>3, <2>4, Limits DEF WaitPulse, PulseTicks
  <2>6. /\ left > 0 /\ left' \in Nat /\ left' > 0 /\ now' \in Nat /\ now' + left' = now + left
    BY <2>2, <2>4, <2>5 DEF t_max
  <2>7. Begin(n + 1)' = Begin(n + 1)
    BY <2>2 DEF Begin, BeginOf
  <2>8. Types'
    BY <2>2, <2>5, <2>6 DEF IInv, Types
  <2>9. InTime'
    BY <2>2, <2>6, <2>7 DEF IInv, InTime
  <2>10. Counted' /\ OperandFits' /\ ServedSoon'
    BY <2>2, <2>5, <2>6 DEF IInv, Counted, OperandFits, ServedSoon, t_max
  <2> QED
    BY <2>2, <2>8, <2>9, <2>10 DEF IInv
<1>9. CASE LongEnd
  <2>1. /\ phase = "run" /\ left > 0 /\ left < 2 * t_max /\ WaitPulse(left, 0) /\ Done
        /\ unserved' = unserved + left /\ wait_time' = wait_time /\ left \in Nat
    BY <1>9 DEF LongEnd, More, IInv, Types, t_max
  <2>2. n <= Len(code) /\ wait_time = 0 /\ unserved \in Nat /\ unserved <= t_max
    BY <2>1 DEF IInv, Types, InTime, Counted
  <2>3. /\ now' = now + left /\ operand' \in 0 .. MaxOperand
        /\ unserved' \in Nat /\ unserved' < 3 * t_max
    BY <2>1, <2>2, Limits DEF WaitPulse, PulseTicks, IInv, Types
  <2>4. unserved' < 3 * t_max + wait_time' /\ wait_time' \in Nat /\ ~(wait_time' > 8192)
    BY <2>1, <2>2, <2>3, Limits
  <2> QED
    BY <2>1, <2>2, <2>3, <2>4, DoneKeeps
<1>10. CASE Finish
  <2>1. /\ phase = "run" /\ n = Len(code) + 1 /\ phase' = "done" /\ now' = now + MinPulse
        /\ operand' = MinPulse /\ UNCHANGED <<text, code, currT, plan, n, left, wait_time, unserved>>
    BY <1>10 DEF Finish, buildVars
  <2>2. Len(code) \in Nat /\ left \in Nat /\ now \in Nat
    BY LenProperties DEF IInv, Types, Chained
  <2>3. left = 0 /\ Begin(n) = currT
    BY <2>1, <2>2 DEF IInv, InTime, Begin, BeginOf
  <2>4. now = currT
    BY <2>1, <2>3 DEF IInv, InTime
  <2> QED
    BY <2>1, <2>2, <2>3, <2>4, Limits
       DEF IInv, Types, InTime, Counted, OperandFits, ServedSoon
<1> QED
  BY <1>1, <1>2, <1>3, <1>4, <1>5, <1>6, <1>7, <1>8, <1>9, <1>10, <1>11 DEF Next

\* So does a step that changes nothing.
LEMMA Stutters == ASSUME IInv, UNCHANGED vars PROVE IInv'
<1>1. UNCHANGED <<phase, text, code, currT, plan, n, left, wait_time, now, operand, unserved>>
  BY DEF vars, buildVars
<1> QED
  BY <1>1 DEF IInv, Types, InTime, Counted, OperandFits, ServedSoon, Begin, BeginOf

-----------------------------------------------------------------------------
(* The theorems about the times                                            *)

\* The invariant always holds.
LEMMA Holds == Spec => []IInv
<1>1. IInv /\ [Next]_vars => IInv'
  BY BuildKeeps, RunKeeps, Stutters
<1> QED
  BY InitHolds, <1>1, PTL DEF Spec

\* TypeOK: every variable has its type, for any text.
THEOREM TextTypesAreCorrect == Spec => []TypeOK
<1>1. IInv => TypeOK
  BY Limits DEF IInv, Chained, Types, OperandFits, TypeOK, Entry
<1> QED
  BY Holds, <1>1, PTL

\* OnSchedule: for any text, and whatever the clients ask for while it runs, each
\* command is written at the tick the text gives it or less than MinPulse before.
THEOREM CommandsAreOnSchedule == Spec => []OnSchedule
<1>1. IInv => OnSchedule
  <2> SUFFICES ASSUME IInv PROVE OnSchedule
    OBVIOUS
  <2>1. ASSUME Running("pulse") PROVE plan[n].asked - now \in 0 .. MinPulse - 1
    <3>1. n <= Len(code) /\ now = Begin(n)
      BY <2>1 DEF Running, IInv, InTime
    <3> QED
      BY <3>1, NextBegins
  <2> QED
    BY <2>1 DEF OnSchedule, IInv, InTime
<1> QED
  BY Holds, <1>1, PTL

\* OperandFits: no request takes more than the wait it is written in.
THEOREM OperandsFit == Spec => []OperandFits
<1>1. IInv => OperandFits
  BY DEF IInv
<1> QED
  BY Holds, <1>1, PTL

\* ServedSoon: the bound on the waits that pass without a look at the requests.
THEOREM ClientsAreServedSoon == Spec => []ServedSoon
<1>1. IInv => ServedSoon
  BY DEF IInv
<1> QED
  BY Holds, <1>1, PTL

-----------------------------------------------------------------------------
(* The fields of the words                                                 *)

\* `|' with nothing, of 2 bits.
LEMMA OrNone2 == ASSUME NEW x \in Nat, x < 4 PROVE Or2(x, 0) = x /\ Or2(0, x) = x
  BY DEF Or2, Or1
\* The same of 4 bits.
LEMMA OrNone4 == ASSUME NEW x \in Nat, x < 16 PROVE Or4(x, 0) = x /\ Or4(0, x) = x
  BY OrNone2 DEF Or4
\* The same of 8 bits.
LEMMA OrNone8 == ASSUME NEW x \in Nat, x < 256 PROVE Or8(x, 0) = x /\ Or8(0, x) = x
  BY OrNone4 DEF Or8
\* The same of 16 bits.
LEMMA OrNone16 == ASSUME NEW x \in Nat, x < 65536 PROVE Or16(x, 0) = x /\ Or16(0, x) = x
  BY OrNone8 DEF Or16

\* `|' works on each half by itself.
LEMMA OrHalves ==
  ASSUME NEW a \in Nat, NEW b \in Nat, b < 65536, NEW c \in Nat, NEW d \in Nat, d < 65536
  PROVE  Or(65536 * a + b, 65536 * c + d) = 65536 * Or16(a, c) + Or16(b, d)
<1> DEFINE x == 65536 * a + b
           y == 65536 * c + d
<1>1. x % 2 ^ 16 = b /\ x \div 2 ^ 16 = a /\ y % 2 ^ 16 = d /\ y \div 2 ^ 16 = c
  OBVIOUS
<1> HIDE DEF x, y
<1>2. Or(x, y) = Or16(b, d) + 2 ^ 16 * Or16(a, c)
  BY <1>1 DEF Or
<1>3. Or16(a, c) \in Int /\ Or16(b, d) \in Int
  BY DEF Or16, Or8, Or4, Or2, Or1
<1> QED
  BY <1>2, <1>3 DEF x, y

\* The upper half of a word and a value that fits the lower.
LEMMA OrLow ==
  ASSUME NEW x \in Nat, x % 65536 = 0, x < 65536 * 65536, NEW y \in Nat, y < 65536
  PROVE  Or(x, y) = x + y
<1> DEFINE a == x \div 65536
<1>1. a \in Nat /\ a < 65536 /\ x = 65536 * a + 0 /\ y = 65536 * 0 + y
  OBVIOUS
<1> HIDE DEF a
<1>2. Or(65536 * a + 0, 65536 * 0 + y) = 65536 * Or16(a, 0) + Or16(0, y)
  BY <1>1, OrHalves
<1>3. Or16(a, 0) = a /\ Or16(0, y) = y
  BY <1>1, OrNone16
<1> QED
  BY <1>1, <1>2, <1>3

\* The opcode of a board and its number.
LEMMA OrBoard ==
  ASSUME NEW i \in Nat, i < 32
  PROVE  Or(2, i * 16) = 2 + 16 * i /\ Or(4, i * 16) = 4 + 16 * i
<1>1. Or(65536 * 0 + 2, 65536 * 0 + 16 * i) = 65536 * Or16(0, 0) + Or16(2, 16 * i)
  BY OrHalves
<1>2. Or(65536 * 0 + 4, 65536 * 0 + 16 * i) = 65536 * Or16(0, 0) + Or16(4, 16 * i)
  BY OrHalves
<1>3. Or8(2, (16 * i) % 256) = 2 + ((16 * i) % 256) /\ Or8(4, (16 * i) % 256) = 4 + ((16 * i) % 256)
  BY OrNone4 DEF Or8
<1>4. Or16(2, 16 * i) = 2 + 16 * i /\ Or16(4, 16 * i) = 4 + 16 * i
  BY <1>3, OrNone8 DEF Or16
<1>5. Or16(0, 0) = 0
  BY OrNone16
<1> QED
  BY <1>1, <1>2, <1>4, <1>5

\* These and the register.
LEMMA OrRegister ==
  ASSUME NEW i \in Nat, i < 32, NEW r \in {49, 51}
  PROVE  Or(2 + 16 * i, r * 512) = 2 + 16 * i + 512 * r
<1> DEFINE x == 2 + 16 * i
<1>1. x \in Nat /\ x < 65536 /\ (x \div 256 = 0 \/ x \div 256 = 1)
  OBVIOUS
<1>2. Or(65536 * 0 + x, 65536 * 0 + r * 512) = 65536 * Or16(0, 0) + Or16(x, r * 512)
  BY <1>1, OrHalves
<1>3. /\ Or8(0, 98) = 98 /\ Or8(1, 98) = 99 /\ Or8(0, 102) = 102 /\ Or8(1, 102) = 103
  BY DEF Or8, Or4, Or2, Or1
<1>4. Or8(x % 256, 0) = x % 256
  BY OrNone8
<1>5. Or16(x, r * 512) = x + 512 * r
  <2>1. /\ (r * 512) % 256 = 0
        /\ r = 49 => (r * 512) \div 256 = 98
        /\ r = 51 => (r * 512) \div 256 = 102
    OBVIOUS
  <2>2. Or8(x \div 256, (r * 512) \div 256) = (x \div 256) + 2 * r
    BY <1>1, <1>3, <2>1
  <2>3. x = (x % 256) + 256 * (x \div 256)
    OBVIOUS
  <2> HIDE DEF x
  <2> QED
    BY <1>1, <1>4, <2>1, <2>2, <2>3 DEF Or16
<1>6. Or16(0, 0) = 0
  BY OrNone16
<1> QED
  BY <1>2, <1>5, <1>6

\* A value that fits the upper half.
LEMMA OrHigh ==
  ASSUME NEW x \in Nat, NEW y \in Nat, y % 65536 = 0
  PROVE  Or(x, y) = 65536 * Or16(x \div 65536, y \div 65536) + (x % 65536)
<1> DEFINE a == x \div 65536
           b == x % 65536
           c == y \div 65536
<1>1. a \in Nat /\ b \in Nat /\ b < 65536 /\ c \in Nat /\ x = 65536 * a + b /\ y = 65536 * c + 0
  OBVIOUS
<1> HIDE DEF a, b, c
<1>2. Or(65536 * a + b, 65536 * c + 0) = 65536 * Or16(a, c) + Or16(b, 0)
  BY <1>1, OrHalves
<1>3. Or16(b, 0) = b
  BY <1>1, OrNone16
<1> QED
  BY <1>1, <1>2, <1>3 DEF a, b, c

\* The joins of the bits of the upper half.
LEMMA OrMeta ==
  /\ Or16(8192, 256) = 8448 /\ Or16(8192, 512) = 8704 /\ Or16(8192, 1024) = 9216
  /\ Or16(8192, 1280) = 9472 /\ Or16(9472, 3) = 9475
  /\ Or16(9472, 12) = 9484 /\ Or16(9475, 12) = 9487
  BY DEF Or16, Or8, Or4, Or2, Or1

-----------------------------------------------------------------------------
\* The word of a TTL command, and its fields.
LEMMA TTLWord ==
  ASSUME NEW addr \in Nat, addr < 32 \/ addr = TTLAll, NEW val
  PROVE  LET w == ttlT(addr, val, MinPulse) IN
         /\ w.op = val /\ Meta(w) /\ MetaInst(w) = TTLMeta /\ w.ctrl % 2 ^ 18 = addr
         /\ (w.ctrl % 2 ^ 24) \div 2 ^ 18 = 3
<1>1. Or(MetaCmd, TTLMeta) = 65536 * 9472
  <2>1. Or(65536 * 8192, 65536 * 1280) = 65536 * Or16(8192, 1280) + 0
    BY OrHigh
  <2> QED
    BY <2>1, OrMeta DEF MetaCmd, TTLMeta
<1>2. Or(65536 * 9472, addr) = 65536 * 9472 + addr
  <2>1. CASE addr < 32
    BY <2>1, OrLow
  <2>2. CASE addr = TTLAll
    <3>1. Or(65536 * 9472 + 0, 65536 * 3 + 65535) = 65536 * Or16(9472, 3) + Or16(0, 65535)
      BY OrHalves
    <3>2. Or16(0, 65535) = 65535
      BY OrNone16
    <3> QED
      BY <2>2, <3>1, <3>2, OrMeta DEF TTLAll
  <2> QED
    BY <2>1, <2>2
<1>3. Or(65536 * 9472 + addr, MinPulse * 2 ^ 18) = 65536 * 9484 + addr
  <2>1. CASE addr < 32
    <3> DEFINE x == 65536 * 9472 + addr
    <3>1. x \in Nat /\ x \div 65536 = 9472 /\ x % 65536 = addr
      BY <2>1
    <3> HIDE DEF x
    <3>2. Or(x, 65536 * 12) = 65536 * Or16(9472, 12) + addr
      BY <3>1, OrHigh
    <3> QED
      BY <3>2, OrMeta DEF MinPulse, x
  <2>2. CASE addr = TTLAll
    <3>1. Or(65536 * 9475 + 65535, 65536 * 12) = 65536 * Or16(9475, 12) + 65535
      BY OrHigh
    <3> QED
      BY <2>2, <3>1, OrMeta DEF MinPulse, TTLAll
  <2> QED
    BY <2>1, <2>2
<1>4. /\ ttlT(addr, val, MinPulse).op = val
      /\ ttlT(addr, val, MinPulse).ctrl = 65536 * 9484 + addr
  BY <1>1, <1>2, <1>3 DEF ttlT, Word
<1>5. addr < 2 ^ 18
  BY DEF TTLAll
<1> DEFINE c == 65536 * 9484 + addr
<1>6. /\ c \div 2 ^ 28 = 2 /\ (c % 2 ^ 28) - (c % 2 ^ 24) = 2 ^ 26 + 2 ^ 24
      /\ c % 2 ^ 18 = addr /\ (c % 2 ^ 24) \div 2 ^ 18 = 3
  BY <1>5
<1> HIDE DEF c
<1> QED
  BY <1>4, <1>6 DEF Meta, MetaInst, TTLMeta, c

\* The words of the commands of phases.
LEMMA PhaseWord ==
  ASSUME NEW p \in UInt16, NEW i,
         NEW meta \in {DDSSetPhaseMeta, DDSShiftPhaseMeta}
  PROVE  LET w == Word(Or(Or(MetaCmd, meta), p), i) IN
         w.op = i /\ Meta(w) /\ MetaInst(w) = meta /\ w.ctrl % 2 ^ 16 = p
<1>1. PICK m \in {256, 512} : meta = 65536 * m
  BY DEF DDSSetPhaseMeta, DDSShiftPhaseMeta
<1>2. Or(MetaCmd, meta) = 65536 * (8192 + m)
  <2>1. Or(65536 * 8192, 65536 * m) = 65536 * Or16(8192, m) + 0
    BY OrHigh
  <2> QED
    BY <1>1, <2>1, OrMeta DEF MetaCmd
<1>3. p \in Nat /\ p < 65536
  BY DEF UInt16
<1>4. Or(65536 * (8192 + m), p) = 65536 * (8192 + m) + p
  BY <1>3, OrLow
<1> DEFINE c == 65536 * (8192 + m) + p
<1>5. /\ c \div 2 ^ 28 = 2 /\ (c % 2 ^ 28) - (c % 2 ^ 24) = 65536 * m
      /\ c % 2 ^ 16 = p
  BY <1>3
<1>6. Or(Or(MetaCmd, meta), p) = c
  BY <1>2, <1>4
<1> HIDE DEF c
<1> QED
  BY <1>1, <1>5, <1>6 DEF Meta, MetaInst, Word

\* The word of a reset.
LEMMA ResetWord ==
  ASSUME NEW i
  PROVE  LET w == Word(Or(MetaCmd, DDSResetMeta), i) IN
         w.op = i /\ Meta(w) /\ MetaInst(w) = DDSResetMeta
<1>1. Or(65536 * 8192, 65536 * 1024) = 65536 * Or16(8192, 1024) + 0
  BY OrHigh
<1>2. Or(MetaCmd, DDSResetMeta) = 65536 * 9216
  BY <1>1, OrMeta DEF MetaCmd, DDSResetMeta
<1> QED
  BY <1>2 DEF Meta, MetaInst, Word, DDSResetMeta

\* The pulses of a board.
LEMMA TwoBytesPulse ==
  ASSUME NEW i \in Nat, i < 32, NEW addr \in {48, 50}, NEW data \in UInt16
  PROVE  LET w == DDSSetTwoBytes(i, addr, data) IN
         w.op = data /\ w.ctrl = 2 ^ 28 + 2 + 16 * i + 512 * (addr + 1)
<1>1. data \in Nat /\ data < 65536 /\ data % 2 ^ 16 = data
  BY DEF UInt16
<1>2. PICK r \in {49, 51} : r = (addr + 1) % 128 /\ r = addr + 1
  OBVIOUS
<1>3. Or(Or(2, i * 16), r * 512) = 2 + 16 * i + 512 * r
  BY OrBoard, OrRegister
<1>4. Or(65536 * 4096, 2 + 16 * i + 512 * r) = 65536 * 4096 + (2 + 16 * i + 512 * r)
  BY OrLow
<1> QED
  BY <1>1, <1>2, <1>3, <1>4 DEF DDSSetTwoBytes, DDSCmd, Word

\* The pulse of a frequency.
LEMMA FreqPulse ==
  ASSUME NEW i \in Nat, i < 32, NEW f
  PROVE  DDSSetFreq(i, f).op = f /\ DDSSetFreq(i, f).ctrl = 2 ^ 28 + 16 * i
<1>1. Or(65536 * 4096, i * 16) = 65536 * 4096 + i * 16
  BY OrLow
<1> QED
  BY <1>1 DEF DDSSetFreq, DDSCmd, Word

\* The pulse of a reset.
LEMMA ResetPulse ==
  ASSUME NEW i \in Nat, i < 32
  PROVE  DDSReset(i).ctrl = 2 ^ 28 + 4 + 16 * i
<1>1. Or(65536 * 4096, 4 + 16 * i) = 65536 * 4096 + (4 + 16 * i)
  BY OrLow
<1> QED
  BY <1>1, OrBoard DEF DDSReset, DDSCmd, Word

\* The pulse of a DAC.
LEMMA DACPulse ==
  ASSUME NEW d \in Nat, d < 4, NEW V \in UInt16
  PROVE  LET w == DACSetVolt(d, V) IN
         /\ w.ctrl = 6 * 2 ^ 28
         /\ (w.op \div 2 ^ 16) % 4 = d /\ w.op % 2 ^ 16 = V
<1>1. V \in Nat /\ V < 65536
  BY DEF UInt16
<1>2. Or(65536 * d, V) = 65536 * d + V
  BY <1>1, OrLow
<1>3. d % 4 = d /\ d * 2 ^ 16 = 65536 * d
  OBVIOUS
<1>4. DACSetVolt(d, V).op = 65536 * d + V /\ DACSetVolt(d, V).ctrl = 6 * 2 ^ 28
  BY <1>2, <1>3 DEF DACSetVolt, Word
<1>5. ((65536 * d + V) \div 2 ^ 16) % 4 = d /\ (65536 * d + V) % 2 ^ 16 = V
  BY <1>1
<1> QED
  BY <1>4, <1>5

-----------------------------------------------------------------------------
\* What the FPGA makes of the pulses.
LEMMA BoardPulse ==
  ASSUME NEW w, NEW i \in Nat, i < 32, NEW k \in {0, 2, 4}, NEW r \in Nat, r < 128,
         w.ctrl = 2 ^ 28 + k + 16 * i + 512 * r
  PROVE  LET p == Checked(w) IN
         /\ p.op = w.op /\ p.ctrl \div 2 ^ 28 = 1 /\ Takes(p) = DDS
         /\ Board(p) = i /\ Opcode(p) = k /\ Register(p) = r
<1> DEFINE c == 2 ^ 28 + k + 16 * i + 512 * r
           d == c + 2 ^ 27
<1>1. (c \div 2 ^ 27) % 2 = 0
  OBVIOUS
<1>2. d \div 2 ^ 28 = 1 /\ d % 16 = k
  OBVIOUS
<1>3. (d \div 16) % 32 = i
  OBVIOUS
<1>4. (d \div 512) % 128 = r
  OBVIOUS
<1> HIDE DEF c
<1>5. Checked(w) = Word(d, w.op)
  <2>1. setBit(c, 27, 1) = d
    BY <1>1 DEF setBit, c
  <2> QED
    BY <2>1 DEF Checked, TimingCheck, c
<1> HIDE DEF d
<1> QED
  BY <1>2, <1>3, <1>4, <1>5 DEF Word, Takes, Board, Opcode, Register

\* Those of the TTL outputs, the clock and the DACs.
LEMMA OtherPulse ==
  ASSUME NEW w, w.ctrl \in {3, 5 * 2 ^ 28, 6 * 2 ^ 28}
  PROVE  LET p == Checked(w) IN
         /\ p.op = w.op
         /\ w.ctrl = 3 => p.ctrl \div 2 ^ 28 = 0 /\ Takes(p) = MinPulse
         /\ w.ctrl = 5 * 2 ^ 28 => p.ctrl \div 2 ^ 28 = 5 /\ Takes(p) = 5
         /\ w.ctrl = 6 * 2 ^ 28 => p.ctrl \div 2 ^ 28 = 6 /\ Takes(p) = 45
<1>1. Checked(w) = Word(w.ctrl + 2 ^ 27, w.op)
  BY DEF Checked, setBit, TimingCheck
<1> QED
  BY <1>1 DEF Word, Takes, MinPulse

-----------------------------------------------------------------------------
(* What a command does to the memory and the outputs                       *)

\* What CtrlState holds of the TTL outputs and the phases.
State == [curr_ttl : SUBSET TTLs, dds_phases : [Devices -> UInt16]]

\* What the text says of it is in CtrlState after the command, and an output is
\* what it is to be.
Kept(line, name) ==
  LET w == Instruction(line)
  IN /\ Due(line, name) = Outputs(Checked(PulseOf(w)), name)
     /\ name \in SaidNames => Says(line, name) = Held(Remembers(w))[name]

\* A command takes its time, leaves CtrlState in order and all outputs as asked.
Works(line) ==
  /\ Takes(Checked(PulseOf(Instruction(line)))) = Length(line)
  /\ Remembers(Instruction(line)) \in State
  /\ \A name \in OutNames : Kept(line, name)

\* CtrlState holds what the text says of TTL channels and phases.
Remembered == memory \in State /\ said = Held(memory)

\* The channels and phases, and what a CtrlState holds of them.
LEMMA SaidKinds ==
  ASSUME NEW name \in SaidNames
  PROVE  /\ name \in OutNames /\ name[1] \in {"ttl", "phase"}
         /\ name[1] = "phase" => name[2] \in Devices
         /\ \A state : Held(state)[name] = IF name[1] = "ttl" THEN On(name[2], state.curr_ttl)
                                           ELSE state.dds_phases[name[2]]
  BY DEF SaidNames, OutNames, Held

\* A phase that is changed changes nothing else that is remembered.
LEMMA HeldPhase ==
  ASSUME NEW state, NEW i, NEW name \in SaidNames, Remembered,
         state.curr_ttl = memory.curr_ttl,
         \A j \in Devices \ {i} : state.dds_phases[j] = memory.dds_phases[j]
  PROVE  Held(state)[name] =
           IF name[1] = "phase" /\ name[2] = i THEN state.dds_phases[i] ELSE said[name]
<1>1. said[name] = Held(memory)[name]
  BY DEF Remembered
<1>2. CASE name[1] = "ttl"
  <2>1. Held(state)[name] = Held(memory)[name]
    BY <1>2, SaidKinds
  <2> QED
    BY <1>1, <1>2, <2>1
<1>3. CASE name[1] = "phase"
  <2>1. /\ Held(state)[name] = state.dds_phases[name[2]] /\ name[2] \in Devices
        /\ said[name] = memory.dds_phases[name[2]]
    BY <1>1, <1>3, SaidKinds
  <2> QED
    BY <1>3, <2>1
<1> QED
  BY <1>2, <1>3, SaidKinds

\* The outputs, by kind.
LEMMA OutKinds ==
  ASSUME NEW name \in OutNames
  PROVE  /\ name[1] \in {"ttl", "clock", "dac", "freq", "amp", "phase"}
         /\ name[1] \in {"ttl", "phase"} <=> name \in SaidNames
         /\ name[1] \in Registers => name[2] \in Devices
         /\ name[1] = "clock" => name[2] = 0
  BY DEF OutNames, SaidNames, Registers

\* A board has one of the numbers the pulse has room for.
LEMMA BoardNumbers == ASSUME NEW i \in Devices PROVE i \in Nat /\ i < 32
<1>1. i \in 0 .. NDDS - 1
  BY DevicesAssumption
<1>2. NDDS \in Nat /\ NDDS < 32
  BY DEF NDDS
<1> QED
  BY <1>1, <1>2

\* The pulse of a command sets the output the command is for, and no other.
Sets(line, k, i, val) ==
  \A name \in OutNames :
    /\ Outputs(Checked(Instruction(line)), name)
         = IF name[1] = k /\ name[2] = i THEN val ELSE out[name]
    /\ Due(line, name) = IF name[1] = k /\ name[2] = i THEN val ELSE due[name]
    /\ name \in SaidNames => Says(line, name) = said[name]

\* A command that is a pulse as it stands, and sets one output.
LEMMA PulseWorks ==
  ASSUME NEW line, Remembered, OutputsFollow, ~Meta(Instruction(line)),
         Takes(Checked(Instruction(line))) = Length(line),
         NEW k, NEW i, NEW val, Sets(line, k, i, val)
  PROVE  Works(line)
<1> DEFINE w == Instruction(line)
           p == Checked(w)
<1>1. PulseOf(w) = w /\ Remembers(w) = memory
  BY DEF PulseOf, Remembers
<1> HIDE DEF w, p
<1>2. ASSUME NEW name \in OutNames PROVE Kept(line, name)
  <2>1. due[name] = out[name]
    BY DEF OutputsFollow
  <2> QED
    BY <1>1, <2>1 DEF Kept, Remembered, Sets, w, p
<1> QED
  BY <1>1, <1>2 DEF Works, Remembered, w, p

\* What a line for one output that CtrlState does not hold asks for.
LEMMA DueOfOne ==
  ASSUME NEW line, Name(line) \in {"freq", "amp", "dac"}, line.arg = "number"
  PROVE  \A name \in OutNames :
           /\ Due(line, name)
                = IF name[1] = Name(line) /\ name[2] = line.i THEN line.val ELSE due[name]
           /\ name \in SaidNames => Says(line, name) = said[name]
  BY OutKinds DEF Due, Says, Asks, Registers

\* freq.
LEMMA FreqWorks ==
  ASSUME NEW line, IsCommand(line), Fits(line), Remembered, OutputsFollow, Name(line) = "freq"
  PROVE  Works(line)
<1> DEFINE w == Instruction(line)
           p == Checked(w)
<1>1. line.arg = "number" /\ line.i \in Devices
  BY DEF IsCommand, Rejected, Fits, Numbered
<1>2. line.i \in Nat /\ line.i < 32
  BY <1>1, BoardNumbers
<1>3. w = DDSSetFreq(line.i, line.val)
  BY DEF Instruction
<1> HIDE DEF w
<1>4. w.op = line.val /\ w.ctrl = 2 ^ 28 + 0 + 16 * line.i + 512 * 0
  BY <1>2, <1>3, FreqPulse
<1>5. /\ p.op = line.val /\ p.ctrl \div 2 ^ 28 = 1 /\ Takes(p) = DDS
      /\ Board(p) = line.i /\ Opcode(p) = 0
  BY <1>2, <1>4, BoardPulse
<1>6. ~Meta(w)
  BY <1>2, <1>4 DEF Meta
<1> HIDE DEF p
<1>7. Takes(p) = Length(line)
  BY <1>5 DEF Length
<1>8. Sets(line, "freq", line.i, line.val)
  BY <1>1, <1>5, DueOfOne, OutKinds DEF Outputs, DDSSets, Sets, p, w
<1> QED
  BY <1>6, <1>7, <1>8, PulseWorks DEF p, w

\* amp.
LEMMA AmpWorks ==
  ASSUME NEW line, IsCommand(line), Fits(line), Remembered, OutputsFollow, Name(line) = "amp"
  PROVE  Works(line)
<1> DEFINE w == Instruction(line)
           p == Checked(w)
<1>1. line.arg = "number" /\ line.i \in Devices /\ line.val \in UInt16
  BY DEF IsCommand, Rejected, Fits, Numbered
<1>2. line.i \in Nat /\ line.i < 32
  BY <1>1, BoardNumbers
<1>3. w = DDSSetAmp(line.i, line.val)
  BY DEF Instruction
<1> HIDE DEF w
<1>4. w.op = line.val /\ w.ctrl = 2 ^ 28 + 2 + 16 * line.i + 512 * 51
  BY <1>1, <1>2, <1>3, TwoBytesPulse DEF DDSSetAmp
<1>5. /\ p.op = line.val /\ p.ctrl \div 2 ^ 28 = 1 /\ Takes(p) = DDS
      /\ Board(p) = line.i /\ Opcode(p) = 2 /\ Register(p) = 51
  BY <1>2, <1>4, BoardPulse
<1>6. ~Meta(w)
  BY <1>2, <1>4 DEF Meta
<1> HIDE DEF p
<1>7. Takes(p) = Length(line)
  BY <1>5 DEF Length
<1>8. Sets(line, "amp", line.i, line.val)
  BY <1>1, <1>5, DueOfOne, OutKinds DEF Outputs, DDSSets, Sets, p, w
<1> QED
  BY <1>6, <1>7, <1>8, PulseWorks DEF p, w

\* CLOCK_OUT.
LEMMA ClockWorks ==
  ASSUME NEW line, IsCommand(line), Remembered, OutputsFollow, Name(line) = "CLOCK_OUT"
  PROVE  Works(line)
<1> DEFINE w == Instruction(line)
           p == Checked(w)
<1>1. Divider(line) \in Nat /\ Divider(line) < 256
  BY DEF IsCommand, Rejected
<1>2. w = ClockOut(Divider(line))
  BY DEF Instruction
<1> HIDE DEF w
<1>3. w.op = Divider(line) /\ w.ctrl = 5 * 2 ^ 28
  BY <1>1, <1>2 DEF ClockOut, Word
<1>4. p.op = Divider(line) /\ p.ctrl \div 2 ^ 28 = 5 /\ Takes(p) = 5
  BY <1>3, OtherPulse
<1>5. ~Meta(w)
  BY <1>3 DEF Meta
<1> HIDE DEF p
<1>6. Takes(p) = Length(line)
  BY <1>4 DEF Length
<1>7. Sets(line, "clock", 0, Divider(line))
  <2>1. ASSUME NEW name \in OutNames
        PROVE  /\ Due(line, name) = IF name[1] = "clock" /\ name[2] = 0
                                    THEN Divider(line) ELSE due[name]
               /\ name \in SaidNames => Says(line, name) = said[name]
    BY OutKinds DEF Due, Says, Asks, Registers
  <2>2. ASSUME NEW name \in OutNames
        PROVE  Outputs(p, name) = IF name[1] = "clock" /\ name[2] = 0
                                  THEN Divider(line) ELSE out[name]
    BY <1>4, OutKinds DEF Outputs
  <2> QED
    BY <2>1, <2>2 DEF Sets, p, w
<1> QED
  BY <1>5, <1>6, <1>7, PulseWorks DEF p, w

\* dac.
LEMMA DACWorks ==
  ASSUME NEW line, IsCommand(line), Fits(line), Remembered, OutputsFollow, Name(line) = "dac"
  PROVE  Works(line)
<1> DEFINE w == Instruction(line)
           p == Checked(w)
<1>1. line.arg = "number" /\ line.i \in Nat /\ line.i < 4 /\ line.val \in UInt16
  BY DEF IsCommand, Rejected, Fits, Numbered
<1>2. w = DACSetVolt(line.i, line.val)
  BY DEF Instruction
<1> HIDE DEF w
<1>3. /\ (w.op \div 2 ^ 16) % 4 = line.i /\ w.op % 2 ^ 16 = line.val
      /\ w.ctrl = 6 * 2 ^ 28
  BY <1>1, <1>2, DACPulse
<1>4. p.op = w.op /\ p.ctrl \div 2 ^ 28 = 6 /\ Takes(p) = 45
  BY <1>3, OtherPulse
<1>5. ~Meta(w)
  BY <1>3 DEF Meta
<1> HIDE DEF p
<1>6. Takes(p) = Length(line)
  BY <1>4 DEF Length
<1>7. Sets(line, "dac", line.i, line.val)
  BY <1>1, <1>3, <1>4, DueOfOne DEF Outputs, Sets, p, w
<1> QED
  BY <1>5, <1>6, <1>7, PulseWorks DEF p, w

\* The instructions of the runner are told apart.
LEMMA MetasDiffer ==
  /\ DDSSetPhaseMeta # DDSShiftPhaseMeta /\ DDSSetPhaseMeta # DDSResetMeta
  /\ DDSSetPhaseMeta # TTLMeta /\ DDSShiftPhaseMeta # DDSResetMeta
  /\ DDSShiftPhaseMeta # TTLMeta /\ DDSResetMeta # TTLMeta
  BY DEF DDSSetPhaseMeta, DDSShiftPhaseMeta, DDSResetMeta, TTLMeta

\* CtrlState with another phase.
PhaseTo(i, q) == [memory EXCEPT !.dds_phases[i] = q]

\* A phase that is written to a board: what is remembered is what the board gets.
LEMMA PhaseSet ==
  ASSUME NEW w, NEW i \in Devices, NEW q \in UInt16, Remembered,
         Remembers(w) = PhaseTo(i, q),
         PulseOf(w) = DDSSetPhase(i, q)
  PROVE  /\ Remembers(w) \in State /\ Takes(Checked(PulseOf(w))) = DDS
         /\ Remembers(w).curr_ttl = memory.curr_ttl
         /\ \A j \in Devices :
              Remembers(w).dds_phases[j] = IF j = i THEN q ELSE memory.dds_phases[j]
         /\ \A name : Outputs(Checked(PulseOf(w)), name)
                       = IF name[1] = "phase" /\ name[2] = i THEN q ELSE out[name]
<1> DEFINE v == PulseOf(w)
           p == Checked(v)
<1>1. i \in Nat /\ i < 32
  BY BoardNumbers
<1>2. v.op = q /\ v.ctrl = 2 ^ 28 + 2 + 16 * i + 512 * 49
  BY <1>1, TwoBytesPulse DEF DDSSetPhase
<1> HIDE DEF v
<1>3. /\ p.op = q /\ p.ctrl \div 2 ^ 28 = 1 /\ Takes(p) = DDS
      /\ Board(p) = i /\ Opcode(p) = 2 /\ Register(p) = 49
  BY <1>1, <1>2, BoardPulse
<1> HIDE DEF p
<1>4. \A name : Outputs(p, name) = IF name[1] = "phase" /\ name[2] = i THEN q ELSE out[name]
  BY <1>3 DEF Outputs, DDSSets
<1>5. memory \in State
  BY DEF Remembered
<1>6. /\ Remembers(w) \in State /\ Remembers(w).curr_ttl = memory.curr_ttl
      /\ \A j \in Devices :
           Remembers(w).dds_phases[j] = IF j = i THEN q ELSE memory.dds_phases[j]
  BY <1>5 DEF State, PhaseTo
<1> QED
  BY <1>3, <1>4, <1>6 DEF p, v

\* phase.
LEMMA PhaseWorks ==
  ASSUME NEW line, IsCommand(line), Fits(line), Remembered, OutputsFollow, Name(line) = "phase"
  PROVE  Works(line)
<1> DEFINE w == Word(Or(Or(MetaCmd, DDSSetPhaseMeta), line.val), line.i)
<1>1. line.arg = "number" /\ line.i \in Devices /\ line.val \in UInt16
  BY DEF IsCommand, Rejected, Fits, Numbered
<1>2. Instruction(line) = w
  BY DEF Instruction
<1>3. /\ w.op = line.i /\ Meta(w) /\ MetaInst(w) = DDSSetPhaseMeta
      /\ w.ctrl % 2 ^ 16 = line.val
  BY <1>1, PhaseWord
<1> HIDE DEF w
<1>4. Remembers(w) = PhaseTo(line.i, line.val)
  BY <1>3, MetasDiffer DEF Remembers, PhaseTo
<1>5. Remembers(w).dds_phases[line.i] = line.val
  BY <1>1, <1>4 DEF Remembered, State, PhaseTo
<1>6. PulseOf(w) = DDSSetPhase(line.i, line.val)
  BY <1>3, <1>5, MetasDiffer DEF PulseOf
<1>7. Length(line) = DDS
  BY DEF Length
<1> DEFINE p == Checked(PulseOf(w))
<1>8. /\ Remembers(w) \in State /\ Takes(p) = DDS
      /\ Remembers(w).curr_ttl = memory.curr_ttl
      /\ \A j \in Devices :
           Remembers(w).dds_phases[j] = IF j = line.i THEN line.val ELSE memory.dds_phases[j]
      /\ \A name : Outputs(p, name)
                    = IF name[1] = "phase" /\ name[2] = line.i THEN line.val ELSE out[name]
  BY <1>1, <1>4, <1>6, PhaseSet
<1> HIDE DEF p
<1>9. ASSUME NEW name \in OutNames PROVE Kept(line, name)
  <2>1. /\ Due(line, name) =
               IF name[1] = "phase" /\ name[2] = line.i THEN line.val ELSE due[name]
        /\ name \in SaidNames => Says(line, name) =
               IF name[1] = "phase" /\ name[2] = line.i THEN line.val ELSE said[name]
    BY <1>1, OutKinds DEF Due, Says, Asks, Registers
  <2>2. due[name] = out[name]
    BY DEF OutputsFollow
  <2>3. Due(line, name) = Outputs(p, name)
    BY <1>8, <2>1, <2>2
  <2>4. ASSUME name \in SaidNames PROVE Says(line, name) = Held(Remembers(w))[name]
    <3> DEFINE next == Remembers(w)
    <3>1. /\ next.curr_ttl = memory.curr_ttl /\ next.dds_phases[line.i] = line.val
          /\ \A j \in Devices \ {line.i} : next.dds_phases[j] = memory.dds_phases[j]
      BY <1>1, <1>8
    <3> HIDE DEF next
    <3>2. Held(next)[name] = IF name[1] = "phase" /\ name[2] = line.i
                              THEN next.dds_phases[line.i] ELSE said[name]
      BY <3>1, <2>4, HeldPhase
    <3> QED
      BY <2>1, <2>4, <3>1, <3>2 DEF next
  <2> QED
    BY <1>2, <2>3, <2>4 DEF Kept, p
<1> QED
  BY <1>2, <1>7, <1>8, <1>9 DEF Works, p

\* shiftp.
LEMMA ShiftWorks ==
  ASSUME NEW line, IsCommand(line), Fits(line), Remembered, OutputsFollow, Name(line) = "shiftp"
  PROVE  Works(line)
<1> DEFINE w == Word(Or(Or(MetaCmd, DDSShiftPhaseMeta), line.val), line.i)
           q == Shifted(memory.dds_phases[line.i], line.val)
<1>1. line.arg = "number" /\ line.i \in Devices /\ line.val \in UInt16
  BY DEF IsCommand, Rejected, Fits, Numbered
<1>2. Instruction(line) = w
  BY DEF Instruction
<1>3. /\ w.op = line.i /\ Meta(w) /\ MetaInst(w) = DDSShiftPhaseMeta
      /\ w.ctrl % 2 ^ 16 = line.val
  BY <1>1, PhaseWord
<1>4. q \in UInt16 /\ q = (memory.dds_phases[line.i] + line.val) % 2 ^ 16
  <2>1. memory.dds_phases[line.i] \in Nat /\ line.val \in Nat
    <3>1. memory.dds_phases[line.i] \in UInt16
      BY <1>1 DEF Remembered, State
    <3>2. UInt16 \subseteq Nat
      BY DEF UInt16
    <3> QED
      BY <1>1, <3>1, <3>2
  <2> QED
    BY <2>1 DEF Shifted, UInt16
<1> HIDE DEF w
<1>5. Remembers(w) = PhaseTo(line.i, q)
  BY <1>3, MetasDiffer DEF Remembers, PhaseTo
<1> HIDE DEF q
<1>6. Remembers(w).dds_phases[line.i] = q
  BY <1>1, <1>5 DEF Remembered, State, PhaseTo
<1>7. PulseOf(w) = DDSSetPhase(line.i, q)
  BY <1>3, <1>6, MetasDiffer DEF PulseOf
<1>8. Length(line) = DDS
  BY DEF Length
<1> DEFINE p == Checked(PulseOf(w))
<1>9. /\ Remembers(w) \in State /\ Takes(p) = DDS
      /\ Remembers(w).curr_ttl = memory.curr_ttl
      /\ \A j \in Devices :
           Remembers(w).dds_phases[j] = IF j = line.i THEN q ELSE memory.dds_phases[j]
      /\ \A name : Outputs(p, name)
                    = IF name[1] = "phase" /\ name[2] = line.i THEN q ELSE out[name]
  BY <1>1, <1>4, <1>5, <1>7, PhaseSet
<1> HIDE DEF p
<1>10. ASSUME NEW name \in OutNames PROVE Kept(line, name)
  <2>1. /\ Due(line, name) = IF name[1] = "phase" /\ name[2] = line.i
                              THEN (said[name] + line.val) % 2 ^ 16 ELSE due[name]
        /\ name \in SaidNames =>
             Says(line, name) = IF name[1] = "phase" /\ name[2] = line.i
                                THEN (said[name] + line.val) % 2 ^ 16 ELSE said[name]
    BY <1>1, OutKinds DEF Due, Says, Asks, Registers
  <2>2. due[name] = out[name]
    BY DEF OutputsFollow
  <2>3. name[1] = "phase" /\ name[2] = line.i => (said[name] + line.val) % 2 ^ 16 = q
    BY <1>4, OutKinds, SaidKinds DEF Remembered
  <2>4. Due(line, name) = Outputs(p, name)
    BY <1>9, <2>1, <2>2, <2>3
  <2>5. ASSUME name \in SaidNames PROVE Says(line, name) = Held(Remembers(w))[name]
    <3> DEFINE next == Remembers(w)
    <3>1. /\ next.curr_ttl = memory.curr_ttl /\ next.dds_phases[line.i] = q
          /\ \A j \in Devices \ {line.i} : next.dds_phases[j] = memory.dds_phases[j]
      BY <1>1, <1>9
    <3> HIDE DEF next
    <3>2. Held(next)[name] = IF name[1] = "phase" /\ name[2] = line.i
                              THEN next.dds_phases[line.i] ELSE said[name]
      BY <3>1, <2>5, HeldPhase
    <3> QED
      BY <2>1, <2>3, <2>5, <3>1, <3>2 DEF next
  <2> QED
    BY <1>2, <2>4, <2>5 DEF Kept, p
<1> QED
  BY <1>2, <1>8, <1>9, <1>10 DEF Works, p

\* reset.
LEMMA ResetWorks ==
  ASSUME NEW line, IsCommand(line), Fits(line), Remembered, OutputsFollow, Name(line) = "reset"
  PROVE  Works(line)
<1> DEFINE w == Word(Or(MetaCmd, DDSResetMeta), line.i)
           v == DDSReset(line.i)
           p == Checked(v)
<1>1. line.arg = "number" /\ line.i \in Devices
  BY DEF IsCommand, Rejected, Fits
<1>2. Instruction(line) = w
  BY DEF Instruction
<1>3. w.op = line.i /\ Meta(w) /\ MetaInst(w) = DDSResetMeta
  BY <1>1, ResetWord
<1>4. line.i \in Nat /\ line.i < 32
  BY <1>1, BoardNumbers
<1>5. v.ctrl = 2 ^ 28 + 4 + 16 * line.i + 512 * 0
  BY <1>4, ResetPulse
<1> HIDE DEF w, v
<1>6. /\ p.ctrl \div 2 ^ 28 = 1 /\ Takes(p) = DDS
      /\ Board(p) = line.i /\ Opcode(p) = 4
  BY <1>4, <1>5, BoardPulse
<1>7. PulseOf(w) = v
  BY <1>3, MetasDiffer DEF PulseOf, v
<1>8. Remembers(w) = [memory EXCEPT !.dds_phases = ResetPhase(@, line.i)]
  BY <1>3, MetasDiffer DEF Remembers
<1>9. /\ Remembers(w) \in State /\ Remembers(w).curr_ttl = memory.curr_ttl
      /\ \A j \in Devices :
           Remembers(w).dds_phases[j] = IF j = line.i THEN 0 ELSE memory.dds_phases[j]
  <2>1. 0 \in UInt16
    BY DEF UInt16
  <2> QED
    BY <1>1, <1>8, <2>1 DEF Remembered, State, ResetPhase
<1>10. Length(line) = DDS
  BY DEF Length
<1> HIDE DEF p
<1>11. ASSUME NEW name \in OutNames PROVE Kept(line, name)
  <2>1. Outputs(p, name)
          = IF name[1] \in Registers /\ name[2] = line.i THEN PowerUp ELSE out[name]
    BY <1>6 DEF Outputs, DDSSets
  <2>2. Due(line, name)
          = IF name[1] \in Registers /\ name[2] = line.i THEN PowerUp ELSE due[name]
    BY <1>1, OutKinds DEF Due, Asks, Registers
  <2>3. due[name] = out[name]
    BY DEF OutputsFollow
  <2>4. Says(line, name) = IF name[1] = "phase" /\ name[2] = line.i THEN 0 ELSE said[name]
    BY <1>1 DEF Says, Asks
  <2>5. ASSUME name \in SaidNames PROVE Says(line, name) = Held(Remembers(w))[name]
    <3> DEFINE next == Remembers(w)
    <3>1. /\ next.curr_ttl = memory.curr_ttl /\ next.dds_phases[line.i] = 0
          /\ \A j \in Devices \ {line.i} : next.dds_phases[j] = memory.dds_phases[j]
      BY <1>1, <1>9
    <3> HIDE DEF next
    <3>2. Held(next)[name] = IF name[1] = "phase" /\ name[2] = line.i
                              THEN next.dds_phases[line.i] ELSE said[name]
      BY <3>1, <2>5, HeldPhase
    <3> QED
      BY <2>4, <2>5, <3>1, <3>2 DEF next
  <2> QED
    BY <1>2, <1>7, <2>1, <2>2, <2>3, <2>5 DEF Kept, p
<1> QED
  BY <1>2, <1>6, <1>7, <1>9, <1>10, <1>11 DEF Works, p

\* A TTL pulse: what is remembered is what the outputs get.
LEMMA TTLSet ==
  ASSUME NEW w, NEW ttl \in SUBSET TTLs, Remembered,
         Remembers(w) = [memory EXCEPT !.curr_ttl = ttl], PulseOf(w) = Word(3, ttl)
  PROVE  /\ Remembers(w) \in State /\ Takes(Checked(PulseOf(w))) = MinPulse
         /\ Remembers(w).dds_phases = memory.dds_phases /\ Remembers(w).curr_ttl = ttl
         /\ \A name : Outputs(Checked(PulseOf(w)), name)
                       = IF name[1] = "ttl" THEN On(name[2], ttl) ELSE out[name]
<1> DEFINE v == PulseOf(w)
           p == Checked(v)
<1>1. v.op = ttl /\ v.ctrl = 3
  BY DEF Word
<1> HIDE DEF v
<1>2. p.op = ttl /\ p.ctrl \div 2 ^ 28 = 0 /\ Takes(p) = MinPulse
  BY <1>1, OtherPulse
<1> HIDE DEF p
<1>3. \A name : Outputs(p, name) = IF name[1] = "ttl" THEN On(name[2], ttl) ELSE out[name]
  BY <1>2 DEF Outputs
<1>4. memory \in State
  BY DEF Remembered
<1>5. /\ Remembers(w) \in State /\ Remembers(w).dds_phases = memory.dds_phases
      /\ Remembers(w).curr_ttl = ttl
  BY <1>4 DEF State
<1> QED
  BY <1>2, <1>3, <1>5 DEF p, v

\* TTL, of one channel or of all.
LEMMA TTLWorks ==
  ASSUME NEW line, IsCommand(line), Fits(line), Remembered, OutputsFollow, Name(line) = "TTL"
  PROVE  Works(line)
<1> DEFINE w == Instruction(line)
           one == setTTL(memory.curr_ttl, line.i, Bool(line.val))
           ttl == IF line.arg = "all" THEN line.on ELSE one
           p == Checked(PulseOf(w))
<1>1. /\ line.arg = "all" => line.on \in SUBSET TTLs
      /\ line.arg # "all" => line.arg = "number" /\ line.i \in TTLs
  BY DEF IsCommand, Rejected, Fits
<1>2. ttl \in SUBSET TTLs
  <2>1. memory.curr_ttl \in SUBSET TTLs
    BY DEF Remembered, State
  <2> QED
    BY <1>1, <2>1 DEF setTTL
<1>3. /\ Meta(w) /\ MetaInst(w) = TTLMeta /\ (w.ctrl % 2 ^ 24) \div 2 ^ 18 = 3
      /\ line.arg = "all" => w.op = line.on /\ w.ctrl % 2 ^ 18 = TTLAll
      /\ line.arg # "all" => w.op = Bool(line.val) /\ w.ctrl % 2 ^ 18 = line.i
  <2>1. CASE line.arg = "all"
    <3>1. w = ttlT(TTLAll, line.on, MinPulse)
      BY <2>1 DEF Instruction
    <3>2. TTLAll \in Nat
      BY DEF TTLAll
    <3> QED
      BY <2>1, <3>1, <3>2, TTLWord
  <2>2. CASE line.arg # "all"
    <3>1. line.i \in Nat /\ line.i < 32
      BY <1>1, <2>2 DEF TTLs
    <3>2. w = ttlT(line.i, Bool(line.val), MinPulse)
      BY <2>2, <3>1 DEF Instruction
    <3> QED
      BY <2>2, <3>1, <3>2, TTLWord
  <2> QED
    BY <2>1, <2>2
<1>4. line.arg # "all" => line.i % 256 = line.i /\ line.i # TTLAll
  BY <1>1 DEF TTLs, TTLAll
<1>5. Bool(Bool(line.val)) = Bool(line.val)
  BY DEF Bool
<1> HIDE DEF w
<1>6. Remembers(w) = [memory EXCEPT !.curr_ttl = ttl]
  BY <1>3, <1>4, <1>5, MetasDiffer DEF Remembers
<1> HIDE DEF ttl
<1>7. Remembers(w).curr_ttl = ttl
  BY <1>6 DEF Remembered, State
<1>8. PulseOf(w) = Word(3, ttl)
  BY <1>3, <1>7, MetasDiffer DEF PulseOf
<1>9. Length(line) = MinPulse
  BY DEF Length
<1>10. /\ Remembers(w) \in State /\ Takes(p) = MinPulse
       /\ Remembers(w).dds_phases = memory.dds_phases
       /\ \A name : Outputs(p, name) = IF name[1] = "ttl" THEN On(name[2], ttl) ELSE out[name]
  BY <1>2, <1>6, <1>8, TTLSet
<1> HIDE DEF p
<1>11. ASSUME NEW name \in OutNames PROVE Kept(line, name)
  <2>1. due[name] = out[name]
    BY DEF OutputsFollow
  <2>2. CASE name[1] # "ttl"
    <3>1. Due(line, name) = due[name] /\ (name \in SaidNames => Says(line, name) = said[name])
      BY <2>2, OutKinds DEF Due, Says, Asks, Registers
    <3>2. Due(line, name) = Outputs(p, name)
      BY <1>10, <2>1, <2>2, <3>1
    <3>3. ASSUME name \in SaidNames PROVE Says(line, name) = Held(Remembers(w))[name]
      BY <1>10, <2>2, <3>1, <3>3, SaidKinds DEF Remembered
    <3> QED
      BY <3>2, <3>3 DEF Kept, p, w
  <2>3. CASE name[1] = "ttl"
    <3>1. name \in SaidNames /\ said[name] = On(name[2], memory.curr_ttl)
      BY <2>3, OutKinds, SaidKinds DEF Remembered
    <3>2. Due(line, name) = Says(line, name)
      BY <2>3 DEF Due, Asks, Registers
    <3>3. Says(line, name) = On(name[2], ttl)
      <4>1. CASE line.arg = "all"
        <5>1. Says(line, name) = On(name[2], line.on)
          BY <2>3, <4>1 DEF Says, Asks
        <5> QED
          BY <4>1, <5>1 DEF ttl
      <4>2. CASE line.arg # "all"
        <5>1. Says(line, name) = IF line.i = name[2] THEN Bool(line.val) ELSE said[name]
          BY <1>1, <2>3, <4>2 DEF Says, Asks
        <5>2. On(name[2], one) = IF line.i = name[2] THEN Bool(line.val)
                                 ELSE On(name[2], memory.curr_ttl)
          BY DEF On, setTTL, Bool
        <5> QED
          BY <3>1, <4>2, <5>1, <5>2 DEF ttl
      <4> QED
        BY <4>1, <4>2
    <3>4. Held(Remembers(w))[name] = On(name[2], ttl)
      BY <1>7, <2>3, <3>1, SaidKinds
    <3> QED
      BY <1>10, <2>3, <3>2, <3>3, <3>4 DEF Kept, p, w
  <2> QED
    BY <2>2, <2>3
<1> QED
  BY <1>9, <1>10, <1>11 DEF Works, p, w

\* The first keyword found is one of those looked for.
LEMMA NameIsOne ==
  ASSUME NEW line
  PROVE  Name(line) \in {"TTL", "freq", "amp", "phase", "shiftp", "reset", "CLOCK_OUT", "dac",
                        "unknown"}
<1> DEFINE found == {i \in DOMAIN Names : Names[i] \in line.cmd}
           first == CHOOSE i \in found : \A j \in found : i <= j
<1>1. DOMAIN Names = 1 .. 8
  BY DEF Names
<1>2. ASSUME found # {} PROVE first \in 1 .. 8
  <2>1. found \subseteq 1 .. 8
    BY <1>1
  <2> HIDE DEF found
  <2>2. \E i \in found : \A j \in found : i <= j
    <3>1. PICK k \in found : TRUE
      BY <1>2
    <3>2. CASE 1 \in found
      BY <2>1, <3>2
    <3>3. CASE 1 \notin found /\ 2 \in found
      BY <2>1, <3>3
    <3>4. CASE 1 \notin found /\ 2 \notin found /\ 3 \in found
      BY <2>1, <3>4
    <3>5. CASE found \subseteq 4 .. 8 /\ 4 \in found
      BY <3>5
    <3>6. CASE found \subseteq 5 .. 8 /\ 5 \in found
      BY <3>6
    <3>7. CASE found \subseteq 6 .. 8 /\ 6 \in found
      BY <3>7
    <3>8. CASE found \subseteq 7 .. 8 /\ 7 \in found
      BY <3>8
    <3>9. CASE found \subseteq {8}
      BY <3>1, <3>9
    <3> QED
      BY <2>1, <3>2, <3>3, <3>4, <3>5, <3>6, <3>7, <3>8, <3>9
  <2> QED
    BY <2>1, <2>2
<1>3. Name(line) = IF found = {} THEN "unknown" ELSE Names[first]
  BY DEF Name
<1>4. \A i \in 1 .. 8 : Names[i] \in {"TTL", "freq", "amp", "phase", "shiftp", "reset",
                                      "CLOCK_OUT", "dac"}
  BY DEF Names
<1> HIDE DEF found, first
<1> QED
  BY <1>2, <1>3, <1>4

\* Every command of a text works.
LEMMA CommandWorks ==
  ASSUME NEW line, IsCommand(line), Fits(line), Remembered, OutputsFollow
  PROVE  Works(line)
<1>1. Name(line) # "unknown"
  BY DEF IsCommand, Rejected
<1> QED
  BY <1>1, NameIsOne, FreqWorks, AmpWorks, ClockWorks, DACWorks, PhaseWorks, ShiftWorks,
     ResetWorks, TTLWorks

-----------------------------------------------------------------------------
(* The invariant of the program                                            *)

\* The lines of all texts.
AllLines == UNION {{p[i] : i \in DOMAIN p} : p \in Programs}

\* The lines not read yet are those of the text.
Read == source \in Seq(AllLines) /\ text = Times(source)

\* A command has its word and its ticks at its place.
Recorded ==
  \A i \in 1 .. Len(code) : code[i].op = "pulse" =>
    /\ asks[i] \in AllLines /\ IsCommand(asks[i])
    /\ words[i] = Instruction(asks[i]) /\ code[i].len = Length(asks[i])

\* The inductive invariant, together with IInv.
PInv == Read /\ Recorded /\ Remembered /\ OutputsFollow /\ LengthsAgree

\* The commands of the texts fit.
LEMMA LinesFit == ASSUME NEW line \in AllLines, IsCommand(line) PROVE Fits(line)
<1>1. PICK p \in Programs : \E i \in DOMAIN p : line = p[i]
  BY DEF AllLines
<1> QED
  BY <1>1, ProgramsAssumption

\* The timeline of a text, line by line.
LEMMA TimesParts ==
  ASSUME NEW s \in Seq(AllLines), s # <<>>
  PROVE  /\ Head(s) \in AllLines /\ Tail(s) \in Seq(AllLines)
         /\ Head(Times(s)) = Timed(Head(s)) /\ Tail(Times(s)) = Times(Tail(s))
<1>1. PICK k \in Nat : k = Len(s)
  BY LenProperties
<1>2. /\ Head(s) \in AllLines /\ Tail(s) \in Seq(AllLines) /\ k > 0
      /\ DOMAIN s = 1 .. k /\ Head(s) = s[1]
  BY <1>1, HeadTailProperties, LenProperties, EmptySeq
<1>3. /\ Len(Tail(s)) = k - 1 /\ DOMAIN Tail(s) = 1 .. k - 1
      /\ \A i \in 1 .. k - 1 : Tail(s)[i] = s[i + 1]
  BY <1>1, <1>2, HeadTailProperties, LenProperties
<1> DEFINE T == Times(s)
           S == {Timed(line) : line \in AllLines}
<1>4. T = [i \in 1 .. k |-> Timed(s[i])]
  BY <1>2 DEF Times
<1>5. T \in Seq(S) /\ Len(T) = k
  <2>1. \A i \in 1 .. k : s[i] \in AllLines
    BY <1>1, ElementOfSeq
  <2>2. T \in [1 .. k -> S]
    BY <1>4, <2>1
  <2> QED
    BY <1>2, <2>2, SeqDef, LenProperties
<1>6. T # <<>>
  BY <1>2, <1>5
<1>7. Head(T) = T[1] /\ T[1] = Timed(s[1])
  BY <1>2, <1>4, <1>5, <1>6, HeadTailProperties
<1> DEFINE U == Times(Tail(s))
<1>8. U = [i \in 1 .. k - 1 |-> Timed(s[i + 1])]
  BY <1>3 DEF Times
<1>9. U \in Seq(S) /\ Len(U) = k - 1
  <2>1. \A i \in 1 .. k - 1 : s[i + 1] \in AllLines
    <3>1. ASSUME NEW i \in 1 .. k - 1 PROVE s[i + 1] \in AllLines
      <4>1. i + 1 \in 1 .. k
        OBVIOUS
      <4> QED
        BY <1>1, <4>1, ElementOfSeq
    <3> QED
      BY <3>1
  <2>2. U \in [1 .. k - 1 -> S]
    BY <1>8, <2>1
  <2>3. k - 1 \in Nat
    BY <1>2
  <2> HIDE DEF U
  <2> QED
    BY <2>2, <2>3, SeqDef, LenProperties
<1>10. /\ Tail(T) \in Seq(S) /\ Len(Tail(T)) = k - 1
       /\ \A i \in 1 .. k - 1 : Tail(T)[i] = T[i + 1]
  BY <1>2, <1>5, <1>6, HeadTailProperties
<1>11. \A i \in 1 .. k - 1 : T[i + 1] = U[i]
  BY <1>2, <1>4, <1>8
<1> HIDE DEF T, U, S
<1>12. Tail(T) = U
  BY <1>9, <1>10, <1>11, SeqEqual
<1> QED
  BY <1>2, <1>7, <1>12 DEF T, U

\* When lines are left, the next is the one whose times come next.
LEMMA NextLine ==
  ASSUME Read, text # <<>>
  PROVE  /\ Head(source) \in AllLines /\ Tail(source) \in Seq(AllLines)
         /\ Head(text) = Timed(Head(source)) /\ Tail(text) = Times(Tail(source))
<1>1. source # <<>>
  <2>1. Times(<<>>) = <<>>
    BY DEF Times
  <2> QED
    BY <2>1 DEF Read
<1> QED
  BY <1>1, TimesParts DEF Read

\* Every step of the program is one of its timeline.
LEMMA StepRefines == ASSUME [ProgramNext]_<<vars, pulseVars>> PROVE [Next]_vars
<1>1. CASE SkipLine
  BY <1>1 DEF SkipLine, Next
<1>2. CASE ParseLine
  BY <1>2 DEF ParseLine, Next
<1>3. CASE LineFails
  BY <1>3 DEF LineFails, Next
<1>4. CASE StartProgram
  BY <1>4 DEF StartProgram, Next
<1>5. CASE RunCommand
  BY <1>5 DEF RunCommand, Next
<1>6. CASE ServeClient
  BY <1>6 DEF ServeClient
<1>7. CASE RunWait
  BY <1>7 DEF RunWait, Next
<1> QED
  BY <1>1, <1>2, <1>3, <1>4, <1>5, <1>6, <1>7 DEF ProgramNext

\* So are its first states.
LEMMA InitRefines == ProgramInit => Init
<1> SUFFICES ASSUME ProgramInit PROVE Init
  OBVIOUS
<1>1. text \in Texts
  BY TimesAssumption DEF ProgramInit
<1> QED
  BY <1>1 DEF ProgramInit, Init

\* The program begins with the outputs as they are.
LEMMA ProgramBegins == ProgramInit => PInv
<1> SUFFICES ASSUME ProgramInit PROVE PInv
  OBVIOUS
<1>1. Read
  <2>1. source \in Programs /\ text = Times(source)
    BY DEF ProgramInit
  <2>2. source \in Seq({source[i] : i \in DOMAIN source})
    BY <2>1, ProgramsAssumption
  <2>3. {source[i] : i \in DOMAIN source} \subseteq AllLines
    BY <2>1 DEF AllLines
  <2> QED
    BY <2>1, <2>2, <2>3, SeqMonotonic DEF Read
<1>2. Recorded
  BY DEF ProgramInit, Recorded
<1>3. \A name \in OutNames : out[name] = due[name]
  BY DEF ProgramInit
<1>4. memory \in State
  <2>1. 0 \in UInt16
    BY DEF UInt16
  <2> QED
    BY <2>1 DEF ProgramInit, State
<1> QED
  BY <1>1, <1>2, <1>3, <1>4 DEF PInv, Remembered, OutputsFollow, LengthsAgree, ProgramInit

\* What a line adds to the code: its command and at most a wait.
LEMMA BuildAdds ==
  ASSUME IInv, Build
  PROVE  /\ Head(text).timed \in {"t", "dt"} /\ Len(code) \in Nat /\ Len(code') \in Nat
         /\ \A i \in 1 .. Len(code') :
              IF i <= Len(code) THEN code'[i] = code[i]
              ELSE code'[i].op = "pulse" => code'[i].len = Head(text).len
<1> DEFINE line == Head(text)
<1>1. code \in Seq(Entry) /\ currT \in Nat /\ text \in Seq(Line) /\ text # <<>>
  BY DEF IInv, Chained, Types, Build
<1>2. line \in Line
  BY <1>1, HeadTailProperties
<1>3. line.len \in Nat /\ line.time \in Nat
  BY <1>2 DEF Line
<1>4. Len(code) \in Nat
  BY <1>1, LenProperties
<1> HIDE DEF line
<1>5. \A t \in Nat : Wait(t) \in Entry /\ Wait(t).op = "wait"
  BY DEF Wait, Entry
<1>6. \A t \in Nat : Pulse(t) \in Entry /\ Pulse(t).len = t
  BY DEF Pulse, Entry
<1>7. CASE AtLater
  <2>1. PICK gap \in Nat : gap = line.time - currT
    BY <1>1, <1>3, <1>7 DEF AtLater, line
  <2>2. PICK w \in Entry : w = Wait(gap) /\ w.op = "wait"
    BY <1>5
  <2>3. PICK p \in Entry : p = Pulse(line.len) /\ p.len = line.len
    BY <1>3, <1>6
  <2>4. code' = Append(Append(code, w), p) /\ line.timed = "t"
    BY <1>7, <2>1, <2>2, <2>3 DEF AtLater, Append2, line
  <2>5. PICK mid \in Seq(Entry) : mid = Append(code, w)
    BY <1>1, AppendProperties
  <2>6. /\ Len(mid) = Len(code) + 1 /\ mid[Len(code) + 1] = w
        /\ \A i \in 1 .. Len(code) : mid[i] = code[i]
    BY <1>1, <2>5, AppendProperties
  <2>7. /\ Len(code') = Len(mid) + 1 /\ code'[Len(mid) + 1] = p
        /\ \A i \in 1 .. Len(mid) : code'[i] = mid[i]
    BY <2>4, <2>5, AppendProperties
  <2> QED
    BY <1>4, <2>2, <2>3, <2>4, <2>6, <2>7 DEF line
<1>8. CASE AtOnce
  <2>1. PICK p \in Entry : p = Pulse(line.len) /\ p.len = line.len
    BY <1>3, <1>6
  <2>2. code' = Append(code, p) /\ line.timed = "t"
    BY <1>8, <2>1 DEF AtOnce, line
  <2>3. /\ Len(code') = Len(code) + 1 /\ code'[Len(code) + 1] = p
        /\ \A i \in 1 .. Len(code) : code'[i] = code[i]
    BY <1>1, <2>2, AppendProperties
  <2> QED
    BY <1>4, <2>1, <2>2, <2>3 DEF line
<1>9. CASE Delta
  <2>1. PICK gap \in Nat : gap = line.time - line.len
    BY <1>1, <1>3, <1>9 DEF Delta, line
  <2>2. PICK w \in Entry : w = Wait(gap) /\ w.op = "wait"
    BY <1>5
  <2>3. PICK p \in Entry : p = Pulse(line.len) /\ p.len = line.len
    BY <1>3, <1>6
  <2>4. code' = Append(Append(code, p), w) /\ line.timed = "dt"
    BY <1>9, <2>1, <2>2, <2>3 DEF Delta, Append2, line
  <2>5. PICK mid \in Seq(Entry) : mid = Append(code, p)
    BY <1>1, AppendProperties
  <2>6. /\ Len(mid) = Len(code) + 1 /\ mid[Len(code) + 1] = p
        /\ \A i \in 1 .. Len(code) : mid[i] = code[i]
    BY <1>1, <2>5, AppendProperties
  <2>7. /\ Len(code') = Len(mid) + 1 /\ code'[Len(mid) + 1] = w
        /\ \A i \in 1 .. Len(mid) : code'[i] = mid[i]
    BY <2>4, <2>5, AppendProperties
  <2> QED
    BY <1>4, <2>2, <2>3, <2>4, <2>6, <2>7 DEF line
<1> QED
  BY <1>7, <1>8, <1>9 DEF Build

\* Lines that are read, skipped or refused.
LEMMA ReadingKeeps ==
  ASSUME IInv, PInv, SkipLine \/ ParseLine \/ LineFails
  PROVE  PInv'
<1>1. Read /\ Recorded /\ Remembered /\ OutputsFollow /\ LengthsAgree
  BY DEF PInv
<1>2. UNCHANGED outVars
  BY DEF SkipLine, ParseLine, LineFails, pulseVars
<1>3. Remembered' /\ OutputsFollow' /\ LengthsAgree'
  BY <1>1, <1>2 DEF outVars, Remembered, OutputsFollow, LengthsAgree, Held
<1>4. CASE SkipLine
  <2>1. text # <<>> /\ text' = Tail(text) /\ source' = Tail(source)
    BY <1>4 DEF SkipLine, Skip
  <2>2. Read'
    BY <1>1, <2>1, NextLine DEF Read
  <2>3. UNCHANGED <<code, words, asks>>
    BY <1>4 DEF SkipLine, Skip
  <2>4. Recorded'
    BY <1>1, <2>3 DEF Recorded
  <2> QED
    BY <1>3, <2>2, <2>4 DEF PInv
<1>5. CASE ParseLine
  <2> DEFINE line == Head(source)
  <2>1. Build /\ text # <<>> /\ text' = Tail(text) /\ source' = Tail(source)
    BY <1>5 DEF ParseLine, Build
  <2>2. Read'
    BY <1>1, <2>1, NextLine DEF Read
  <2>3. line \in AllLines /\ Head(text) = Timed(line)
    BY <1>1, <2>1, NextLine
  <2>4. /\ Head(text).timed \in {"t", "dt"} /\ Len(code) \in Nat /\ Len(code') \in Nat
        /\ \A i \in 1 .. Len(code') :
             IF i <= Len(code) THEN code'[i] = code[i]
             ELSE code'[i].op = "pulse" => code'[i].len = Head(text).len
    BY <2>1, BuildAdds
  <2> HIDE DEF line
  <2>5. IsCommand(line) /\ Head(text).len = Length(line)
    BY <2>3, <2>4 DEF Timed
  <2>6. /\ words' = Add(words, Instruction(line), Word(0, 0))
        /\ asks' = Add(asks, line, [form |-> "wait"])
    BY <1>5 DEF ParseLine, line
  <2>7. ASSUME NEW i \in 1 .. Len(code'), code'[i].op = "pulse"
        PROVE  /\ asks'[i] \in AllLines /\ IsCommand(asks'[i])
               /\ words'[i] = Instruction(asks'[i]) /\ code'[i].len = Length(asks'[i])
    <3>1. CASE i <= Len(code)
      <4>1. code'[i] = code[i] /\ words'[i] = words[i] /\ asks'[i] = asks[i]
        BY <2>4, <2>6, <3>1 DEF Add
      <4>2. i \in 1 .. Len(code)
        BY <2>4, <3>1
      <4> QED
        BY <1>1, <2>7, <4>1, <4>2 DEF Recorded
    <3>2. CASE ~(i <= Len(code))
      <4>1. words'[i] = Instruction(line) /\ asks'[i] = line /\ code'[i].len = Length(line)
        BY <2>4, <2>5, <2>6, <2>7, <3>2 DEF Add
      <4> QED
        BY <2>3, <2>5, <4>1
    <3> QED
      BY <3>1, <3>2
  <2>8. Recorded'
    BY <2>7 DEF Recorded
  <2> QED
    BY <1>3, <2>2, <2>8 DEF PInv
<1>6. CASE LineFails
  <2>1. UNCHANGED <<source, text, code, words, asks>>
    BY <1>6 DEF LineFails, BuildFails, buildVars, pulseVars
  <2> QED
    BY <1>1, <1>3, <2>1 DEF PInv, Read, Recorded
<1> QED
  BY <1>4, <1>5, <1>6

\* A new run: the text begins with whatever CtrlState holds.
LEMMA StartKeeps == ASSUME IInv, PInv, StartProgram PROVE PInv'
<1>1. Read /\ Recorded /\ OutputsFollow /\ LengthsAgree
  BY DEF PInv
<1>2. UNCHANGED <<source, text, code, words, asks, out, due, excess>>
  BY DEF StartProgram, Start, buildVars
<1>3. Read' /\ Recorded' /\ OutputsFollow' /\ LengthsAgree'
  BY <1>1, <1>2 DEF Read, Recorded, OutputsFollow, LengthsAgree
<1>4. memory' \in State
  BY StateAssumption DEF StartProgram, State
<1>5. said' = Held(memory)'
  BY DEF StartProgram, Held
<1> QED
  BY <1>3, <1>4, <1>5 DEF PInv, Remembered

\* A command is run.
LEMMA CommandKeeps == ASSUME IInv, PInv, RunCommand PROVE PInv'
<1>1. Read /\ Recorded /\ Remembered /\ OutputsFollow /\ LengthsAgree
  BY DEF PInv
<1>2. Inst.op = "pulse" /\ n <= Len(code)
  BY DEF RunCommand, RunPulse, Running
<1>3. n \in 1 .. Len(code)
  BY <1>2, NextBegins
<1> DEFINE line == asks[n]
<1>4. /\ line \in AllLines /\ IsCommand(line) /\ words[n] = Instruction(line)
      /\ Inst.len = Length(line)
  BY <1>1, <1>2, <1>3 DEF Recorded, Inst
<1> HIDE DEF line
<1>5. Works(line)
  BY <1>1, <1>4, LinesFit, CommandWorks
<1> DEFINE w == Instruction(line)
           p == Checked(PulseOf(w))
<1>6. /\ memory' = Remembers(w) /\ out' = [name \in OutNames |-> Outputs(p, name)]
      /\ excess' = excess + Takes(p) - Inst.len
      /\ said' = [name \in SaidNames |-> Says(line, name)]
      /\ due' = [name \in OutNames |-> Due(line, name)]
  BY <1>4 DEF RunCommand, line
<1>7. UNCHANGED <<source, text, code, words, asks>>
  BY DEF RunCommand, RunPulse, Done, buildVars
<1>8. Read' /\ Recorded'
  BY <1>1, <1>7 DEF Read, Recorded
<1>9. /\ Takes(p) = Length(line) /\ Remembers(w) \in State
      /\ \A name \in OutNames :
           /\ Due(line, name) = Outputs(p, name)
           /\ name \in SaidNames => Says(line, name) = Held(Remembers(w))[name]
  BY <1>5 DEF Works, Kept
<1> HIDE DEF w, p
<1>10. OutputsFollow'
  BY <1>6, <1>9 DEF OutputsFollow
<1>11. Remembered'
  <2>1. \A name \in SaidNames : said'[name] = Held(memory')[name]
    BY <1>6, <1>9, SaidKinds
  <2>2. said' = Held(memory')
    BY <1>6, <2>1 DEF Held
  <2> QED
    BY <1>6, <1>9, <2>2 DEF Remembered, Held
<1>12. LengthsAgree'
  <2>1. Length(line) \in Int
    BY DEF Length, MinPulse, DDS
  <2> QED
    BY <1>1, <1>4, <1>6, <1>9, <2>1 DEF LengthsAgree
<1> QED
  BY <1>8, <1>10, <1>11, <1>12 DEF PInv

\* The pulse of a client's command sets the register it is for, and no other.
LEMMA ClientSets ==
  ASSUME NEW c \in Commands, NEW name \in OutNames
  PROVE  Outputs(Checked(CommandWord(c)), name)
           = IF name = <<c.k, c.i>> THEN c.val ELSE out[name]
<1> DEFINE w == CommandWord(c)
           p == Checked(w)
<1>1. /\ c.k \in {"freq", "amp", "phase"} /\ c.i \in Devices
      /\ c.k # "freq" => c.val \in UInt16
  BY CommandsAssumption DEF Registers
<1>2. c.i \in Nat /\ c.i < 32
  BY <1>1, BoardNumbers
<1>3. name = <<c.k, c.i>> <=> name[1] = c.k /\ name[2] = c.i
  BY DEF OutNames
<1>4. CASE c.k = "freq"
  <2>1. w = DDSSetFreq(c.i, c.val)
    BY <1>4 DEF CommandWord
  <2> HIDE DEF w
  <2>2. w.op = c.val /\ w.ctrl = 2 ^ 28 + 0 + 16 * c.i + 512 * 0
    BY <1>2, <2>1, FreqPulse
  <2>3. p.op = c.val /\ p.ctrl \div 2 ^ 28 = 1 /\ Board(p) = c.i /\ Opcode(p) = 0
    BY <1>2, <2>2, BoardPulse
  <2> HIDE DEF p
  <2>4. Outputs(p, name) = IF name[1] = "freq" /\ name[2] = c.i THEN c.val ELSE out[name]
    BY <2>3 DEF Outputs, DDSSets
  <2> QED
    BY <1>3, <1>4, <2>4 DEF p, w
<1>5. CASE c.k \in {"amp", "phase"}
  <2>1. PICK addr \in {48, 50} :
          w = DDSSetTwoBytes(c.i, addr, c.val) /\ addr = IF c.k = "amp" THEN 50 ELSE 48
    BY <1>5 DEF CommandWord, DDSSetAmp, DDSSetPhase
  <2> HIDE DEF w
  <2>2. PICK r \in Nat : r = addr + 1 /\ r < 128
    OBVIOUS
  <2>3. w.op = c.val /\ w.ctrl = 2 ^ 28 + 2 + 16 * c.i + 512 * r
    BY <1>1, <1>2, <1>5, <2>1, <2>2, TwoBytesPulse
  <2>4. /\ p.op = c.val /\ p.ctrl \div 2 ^ 28 = 1 /\ Board(p) = c.i /\ Opcode(p) = 2
        /\ Register(p) = r
    <3>1. CASE r = 51
      <4>1. w.ctrl = 2 ^ 28 + 2 + 16 * c.i + 512 * 51
        BY <2>3, <3>1
      <4> QED
        BY <1>2, <2>3, <3>1, <4>1, BoardPulse
    <3>2. CASE r = 49
      <4>1. w.ctrl = 2 ^ 28 + 2 + 16 * c.i + 512 * 49
        BY <2>3, <3>2
      <4> QED
        BY <1>2, <2>3, <3>2, <4>1, BoardPulse
    <3> QED
      BY <2>2, <3>1, <3>2
  <2> HIDE DEF p
  <2>5. Outputs(p, name) = IF name[1] = c.k /\ name[2] = c.i THEN c.val ELSE out[name]
    BY <1>5, <2>1, <2>2, <2>4 DEF Outputs, DDSSets
  <2> QED
    BY <1>3, <2>5 DEF p, w
<1> QED
  BY <1>1, <1>4, <1>5

\* A client's command is written.
LEMMA ServeKeeps == ASSUME PInv, ServeClient PROVE PInv'
<1>1. UNCHANGED <<text, code, source, words, asks, memory, said, excess>>
  BY DEF ServeClient, vars, buildVars
<1>2. PICK c \in Commands :
        /\ out' = [name \in OutNames |-> Outputs(Checked(CommandWord(c)), name)]
        /\ due' = [name \in OutNames |-> IF name = <<c.k, c.i>> THEN c.val ELSE due[name]]
  BY DEF ServeClient
<1>3. OutputsFollow'
  BY <1>2, ClientSets DEF PInv, OutputsFollow
<1> QED
  BY <1>1, <1>3 DEF PInv, Read, Recorded, Remembered, LengthsAgree, Held

\* Waits and what changes nothing.
LEMMA RestKeeps == ASSUME PInv, RunWait \/ UNCHANGED <<vars, pulseVars>> PROVE PInv'
<1>1. UNCHANGED <<text, code, currT, plan>>
  <2>1. CASE RunWait
    <3>1. UNCHANGED buildVars
      BY <2>1 DEF RunWait, WaitShort, WaitOn, WaitServe, LongBegin, LongStep, LongEnd, Finish, Done
    <3> QED
      BY <3>1 DEF buildVars
  <2>2. CASE UNCHANGED <<vars, pulseVars>>
    BY <2>2 DEF vars, buildVars
  <2> QED
    BY <2>1, <2>2
<1>2. UNCHANGED <<source, words, asks, outVars>>
  BY DEF RunWait, pulseVars
<1> QED
  BY <1>1, <1>2 DEF outVars, PInv, Read, Recorded, Remembered, OutputsFollow, LengthsAgree, Held

\* The program keeps both invariants.
LEMMA ProgramHolds == ProgramSpec => [](IInv /\ PInv)
<1>1. ProgramInit => IInv /\ PInv
  BY InitRefines, InitHolds, ProgramBegins
<1>2. IInv /\ PInv /\ [ProgramNext]_<<vars, pulseVars>> => (IInv /\ PInv)'
  <2> SUFFICES ASSUME IInv, PInv, [ProgramNext]_<<vars, pulseVars>> PROVE IInv' /\ PInv'
    OBVIOUS
  <2>1. IInv'
    BY StepRefines, BuildKeeps, RunKeeps, Stutters
  <2>2. PInv'
    BY ReadingKeeps, StartKeeps, CommandKeeps, ServeKeeps, RestKeeps DEF ProgramNext
  <2> QED
    BY <2>1, <2>2
<1> QED
  BY <1>1, <1>2, PTL DEF ProgramSpec

-----------------------------------------------------------------------------
(* The theorems about the program                                          *)

\* Whatever the program does is a behaviour of its timeline, so that what is proved
\* of the times of a text is so of the times of its commands.
THEOREM ProgramImplementsTimes == ProgramSpec => Spec
<1>1. [ProgramNext]_<<vars, pulseVars>> => [Next]_vars
  BY StepRefines
<1> QED
  BY InitRefines, <1>1, PTL DEF ProgramSpec, Spec

\* OutputsFollow: each output is what the lines and the clients served in the waits
\* of the text last made it, and nothing else changes it.
THEOREM OutputsAreAsked == ProgramSpec => []OutputsFollow
<1>1. PInv => OutputsFollow
  BY DEF PInv
<1> QED
  BY ProgramHolds, <1>1, PTL

\* LengthsAgree: the commands take the ticks the builder counts for them.
THEOREM CommandsTakeTheirLength == ProgramSpec => []LengthsAgree
<1>1. PInv => LengthsAgree
  BY DEF PInv
<1> QED
  BY ProgramHolds, <1>1, PTL
=============================================================================
