---------------------------- MODULE ByteCodeProofs ----------------------------
(****************************************************************************)
(* Proofs about ByteCodeRunner, for any byte codes, requests, lead and width *)
(* of the arithmetic: nothing of a wait is lost or written twice, and the    *)
(* clients are served only when the sequence is ahead of the real time.      *)
(****************************************************************************)
EXTENDS ByteCodeRunner, SequenceTheorems, TLAPS

\* What is to be written of output_wait, and of the loop around it.
InOut  == IF pc = "out" THEN to_write ELSE 0
InLoop == pc \in {"loop", "serve"} \/ goon = "loop"

\* The calls that are left have lengths of 64 bits.
CodeInv == code \in Seq(Calls) /\ \A i \in 1 .. Len(code) : code[i].t < Word

\* output_wait goes back to the loop only from the loop; what the loop has left
\* did not come from a wrap before the first release, whose wait is taken from it
\* (assert(t >= 2000), instruction.cpp:262).
LoopInv ==
  /\ pc \in {"next", "done"} => goon = "next"
  /\ t < Word
  /\ InLoop /\ ~m_released => t >= 2000

\* The clock of the sequence is ahead of what is written by no more than the
\* ticks of the release, which it counts twice; when it wraps it is behind.
ClockInv == m_t <= out + InOut + (IF m_released THEN 1000 ELSE 0)

\* A wait that is cut has 10us or more after the release, and only the requests
\* make it shorter; what output_wait has left is no sliver either.
RestInv ==
  /\ InLoop => t + taken >= 1000
  /\ pc = "out" /\ to_write < 100 => to_write = given \/ taken > 900

RunInv == TypeOK /\ CodeInv /\ LoopInv /\ ClockInv /\ TicksAdd /\ LeadKept /\ RestInv /\ NoSliver

\* Remainders of a number that is not negative.
LEMMA Wrapped ==
  ASSUME NEW n \in Nat
  PROVE  n % Word \in Nat /\ n % Word <= n /\ n % Word < Word /\ (n < Word => n % Word = n)
  BY WidthAssumption

LEMMA WrappedInt ==
  ASSUME NEW n \in Int
  PROVE  n % Word \in Nat /\ n % Word < Word
  BY WidthAssumption

\* What is left after a call.
LEMMA NextCalls ==
  ASSUME CodeInv, code # <<>>
  PROVE  /\ Call \in Calls /\ Call.t < Word /\ Call.t \in Nat
         /\ Tail(code) \in Seq(Calls)
         /\ \A i \in 1 .. Len(Tail(code)) : Tail(code)[i].t < Word
<1>1. Len(code) \in Nat /\ Len(code) > 0 /\ Call = code[1]
  <2>1. code \in Seq(Calls)
    BY DEF CodeInv
  <2>2. Len(code) \in Nat \ {0}
    BY <2>1, EmptySeq
  <2> QED
    BY <2>1, <2>2 DEF Call
<1>2. Call \in Calls /\ Call.t < Word /\ Call.t \in Nat
  <2>1. code[1] \in Calls /\ code[1].t < Word
    BY <1>1, ElementOfSeq DEF CodeInv
  <2> QED
    BY <1>1, <2>1 DEF Calls
<1>3. /\ Tail(code) \in Seq(Calls) /\ Len(Tail(code)) = Len(code) - 1
      /\ \A i \in 1 .. Len(Tail(code)) : Tail(code)[i] = code[i + 1]
  BY <1>1, HeadTailProperties DEF CodeInv
<1>4. ASSUME NEW i \in 1 .. Len(Tail(code)) PROVE Tail(code)[i].t < Word
  <2>1. i + 1 \in 1 .. Len(code)
    BY <1>1, <1>3
  <2> QED
    BY <1>3, <2>1 DEF CodeInv
<1> QED
  BY <1>2, <1>3, <1>4

\* wait, called by itself or by ttl after its pulse.
LEMMA WaitStep ==
  ASSUME RunInv, pc = "next", code # <<>>, Made, NEW n \in Nat, NEW w \in Nat,
         Call.t = w + n, WaitOf(n, w), UNCHANGED <<short_seq, m_released, timeVars, overrun>>
  PROVE  RunInv'
<1> USE DEF RunInv, timeVars
<1>a. /\ TypeOK /\ CodeInv' /\ n < Word /\ Call.t \in Nat
      /\ asked' = asked + w + n /\ code' \in Seq(Calls)
  <2>1. code' = Tail(code) /\ asked' = asked + Call.t
    BY DEF Made
  <2>2. PICK k \in Nat : k = Call.t /\ k < Word /\ k = w + n
    BY NextCalls
  <2>3. asked \in Nat /\ Word \in Nat
    BY WidthAssumption DEF TypeOK
  <2>4. n < Word /\ asked' = asked + w + n
    BY <2>1, <2>2, <2>3
  <2>5. CodeInv' /\ code' \in Seq(Calls)
    BY <2>1, NextCalls DEF CodeInv
  <2> QED
    BY <2>2, <2>4, <2>5
<1>c. given' = n /\ taken' = 0
  BY DEF WaitOf
<1>b. goon = "next" /\ max_wait_t \in Nat /\ max_wait_t > 2000 /\ Word \in Nat
  BY WidthAssumption DEF LoopInv
<1>1. CASE ~short_seq
  <2>1. /\ pc' = "out" /\ to_write' = n /\ goon' = "next" /\ waived' = TRUE
        /\ pulses' = {} /\ UNCHANGED t /\ out' = out + w /\ m_t' = (m_t + w + n) % Word
    BY <1>1 DEF WaitOf
  <2>a. m_t + w + n \in Nat
    BY <1>a DEF TypeOK
  <2>2. m_t' \in Nat /\ m_t' <= m_t + w + n
    BY <2>1, <2>a, Wrapped
  <2>3. TypeOK'
    BY <1>a, <1>c, <2>1, <2>2 DEF TypeOK
  <2>6. RestInv' /\ NoSliver'
    BY <1>c, <2>1 DEF RestInv, NoSliver, InLoop
  <2>4. LoopInv' /\ LeadKept'
    BY <2>1 DEF LoopInv, LeadKept, InLoop
  <2>5. ClockInv' /\ TicksAdd'
    BY <1>a, <1>b, <2>1, <2>2 DEF ClockInv, TicksAdd, InOut, TypeOK
  <2> QED
    BY <1>a, <2>3, <2>4, <2>5, <2>6
<1>2. CASE short_seq /\ n < 2000
  <2>1. /\ m_t' = m_t + w + n /\ pulses' = {n} /\ out' = out + w + n
        /\ UNCHANGED <<pc, goon, t, to_write, waived>>
    BY <1>2 DEF WaitOf
  <2>2. TypeOK'
    BY <1>a, <1>b, <1>c, <1>2, <2>1 DEF TypeOK
  <2>5. RestInv' /\ NoSliver'
    BY <1>b, <1>c, <2>1 DEF RestInv, NoSliver, InLoop
  <2>3. LoopInv' /\ LeadKept'
    BY <2>1 DEF LoopInv, LeadKept, InLoop
  <2>4. ClockInv' /\ TicksAdd'
    BY <1>a, <1>b, <2>1 DEF ClockInv, TicksAdd, InOut, TypeOK
  <2> QED
    BY <1>a, <2>2, <2>3, <2>4, <2>5
<1>3. CASE short_seq /\ n >= 2000
  <2>1. /\ pc' = "loop" /\ t' = n /\ m_t' = m_t + w /\ out' = out + w
        /\ pulses' = {} /\ UNCHANGED <<goon, to_write, waived>>
    BY <1>3 DEF WaitOf
  <2>2. TypeOK'
    BY <1>a, <1>c, <2>1 DEF TypeOK
  <2>5. RestInv' /\ NoSliver'
    BY <1>3, <1>c, <2>1 DEF RestInv, NoSliver
  <2>3. LoopInv' /\ LeadKept'
    BY <1>a, <1>3, <2>1 DEF LoopInv, LeadKept, InLoop
  <2>4. ClockInv' /\ TicksAdd'
    BY <1>a, <1>b, <2>1 DEF ClockInv, TicksAdd, InOut, TypeOK
  <2> QED
    BY <1>a, <2>2, <2>3, <2>4, <2>5
<1> QED
  BY <1>1, <1>2, <1>3 DEF TypeOK

\* A pulse that needs no wait.
LEMMA OnePulseStep ==
  ASSUME RunInv, OnePulse
  PROVE  RunInv'
<1> USE DEF RunInv, timeVars, ghostVars
<1>1. code # <<>> /\ pc = "next"
  BY DEF OnePulse, Calling
<1>a. code' = Tail(code)
  BY DEF Made, OnePulse
<1>b. CodeInv' /\ code' \in Seq(Calls)
  BY <1>1, <1>a, NextCalls DEF CodeInv
<1>2. PICK n \in Nat : n = Call.t
  BY <1>1, NextCalls
<1>3. /\ m_t' = m_t + n /\ out' = out + n /\ asked' = asked + n
      /\ UNCHANGED <<short_seq, m_released, pc, goon, t, to_write, pulses, tnow, clock,
                     requests, given, taken, waived, overrun>>
  BY <1>2 DEF OnePulse, Made
<1>4. TypeOK'
  BY <1>b, <1>3 DEF TypeOK
<1>5. LoopInv' /\ LeadKept'
  BY <1>1, <1>3 DEF LoopInv, LeadKept, InLoop
<1>7. RestInv' /\ NoSliver'
  BY <1>3 DEF RestInv, NoSliver, InLoop
<1>6. ClockInv' /\ TicksAdd'
  BY <1>1, <1>3 DEF ClockInv, TicksAdd, InOut, TypeOK, LoopInv
<1> QED
  BY <1>b, <1>4, <1>5, <1>6, <1>7

\* A full pulse of output_wait.
LEMMA OutFullStep ==
  ASSUME RunInv, OutFull
  PROVE  RunInv'
<1> USE DEF RunInv, timeVars, ghostVars
<1>1. /\ pc = "out" /\ to_write > max_wait_t + 100 /\ max_wait_t \in Nat
      /\ to_write' = to_write - max_wait_t /\ out' = out + max_wait_t
      /\ pulses' = {max_wait_t}
      /\ UNCHANGED <<code, short_seq, m_released, m_t, pc, goon, t, asked, tnow, clock,
                     requests, given, taken, waived, overrun>>
  BY WidthAssumption DEF OutFull, FullPulse
<1>2. TypeOK'
  BY <1>1 DEF TypeOK
<1>3. CodeInv' /\ LoopInv' /\ LeadKept'
  BY <1>1 DEF CodeInv, LoopInv, LeadKept, InLoop
<1>4. ClockInv' /\ TicksAdd'
  BY <1>1 DEF ClockInv, TicksAdd, InOut, TypeOK
<1>5. RestInv' /\ NoSliver'
  BY <1>1, WidthAssumption DEF RestInv, NoSliver, InLoop, TypeOK
<1> QED
  BY <1>2, <1>3, <1>4, <1>5

\* The last one or two pulses of output_wait: neither half is longer than the
\* longest pulse.
LEMMA OutRestStep ==
  ASSUME RunInv, OutRest
  PROVE  RunInv'
<1> USE DEF RunInv, timeVars, ghostVars
<1>1. /\ pc = "out" /\ to_write \in Nat /\ to_write <= max_wait_t + 100
      /\ max_wait_t \in Nat /\ max_wait_t > 2000
      /\ out' = out + to_write /\ to_write' = 0 /\ pc' = goon
      /\ UNCHANGED <<code, short_seq, m_released, m_t, goon, t, asked, tnow, clock,
                     requests, given, taken, waived, overrun>>
  BY WidthAssumption DEF OutRest, FullPulse, TypeOK
<1>2. \A o \in pulses' : o \in 0 .. max_wait_t /\ (o < 100 => o = to_write)
  <2>1. CASE to_write > max_wait_t
    <3>1. pulses' = {to_write \div 2, to_write - to_write \div 2}
      BY <2>1 DEF OutRest, Halves
    <3> QED
      BY <1>1, <2>1, <3>1
  <2>2. CASE ~(to_write > max_wait_t)
    BY <1>1, <2>2 DEF OutRest
  <2> QED
    BY <2>1, <2>2
<1>3. TypeOK'
  BY <1>1, <1>2 DEF TypeOK
<1>4. pc' \in {"next", "loop"}
  BY <1>1 DEF TypeOK
<1>5. CodeInv' /\ LoopInv' /\ LeadKept'
  BY <1>1, <1>4 DEF CodeInv, LoopInv, LeadKept, InLoop
<1>6. ClockInv' /\ TicksAdd'
  BY <1>1, <1>4 DEF ClockInv, TicksAdd, InOut, TypeOK
<1>7. RestInv' /\ NoSliver'
  <2>1. RestInv'
    BY <1>1, <1>4 DEF RestInv, InLoop
  <2>2. NoSliver'
    BY <1>1, <1>2 DEF RestInv, NoSliver
  <2> QED
    BY <2>1, <2>2
<1> QED
  BY <1>3, <1>5, <1>6, <1>7

\* The sequence is behind: it writes what is missing, or the rest of the wait.
LEMMA LoopBehindStep ==
  ASSUME RunInv, LoopBehind
  PROVE  RunInv'
<1> USE DEF RunInv
<1>1. /\ pc = "loop" /\ TypeOK /\ tnow' = clock
      /\ UNCHANGED <<code, short_seq, m_released, clock, requests, out, asked, pulses,
                     given, taken, waived, overrun>>
  BY DEF LoopBehind, ghostVars
<1>2. min_seqt \in Nat /\ min_seqt >= 10000
  <2>1. m_t * 10 \in Nat /\ clock + m_min_t \in Nat
    BY WidthAssumption DEF TypeOK
  <2>2. seq_rt \in Nat
    BY <2>1, Wrapped DEF seq_rt
  <2>3. seq_rt - (clock + m_min_t) \in Int
    BY <2>1, <2>2
  <2>4. PICK d \in Nat : d = (seq_rt - (clock + m_min_t)) % Word
    BY <2>3, WrappedInt
  <2> QED
    BY <2>4 DEF min_seqt, MaxOf
<1>3. ASSUME NEW n \in Nat, NEW back \in {"next", "loop"}, NEW rest \in Nat,
             output_wait(n, back), t' = rest, n + rest = t,
             back = "loop" => rest > 3000 /\ n >= 10000, back = "next" => rest = 0
      PROVE  RunInv'
  <2>1. /\ pc' = "out" /\ goon' = back /\ to_write' = n /\ t' = rest
        /\ m_t' = (m_t + n) % Word
    BY <1>3 DEF output_wait
  <2>2. m_t' \in Nat /\ m_t' <= m_t + n
    BY <1>1, <2>1, Wrapped DEF TypeOK
  <2>3. TypeOK'
    BY <1>1, <2>1, <2>2 DEF TypeOK
  <2>4. CodeInv' /\ LoopInv' /\ LeadKept'
    BY <1>1, <1>3, <2>1, WidthAssumption DEF CodeInv, LoopInv, LeadKept, InLoop, TypeOK
  <2>5. ClockInv' /\ TicksAdd'
    BY <1>1, <1>3, <2>1, <2>2 DEF ClockInv, TicksAdd, InOut, TypeOK
  <2>6. RestInv' /\ NoSliver'
    BY <1>1, <1>3, <2>1 DEF RestInv, NoSliver, InLoop, TypeOK
  <2> QED
    BY <2>3, <2>4, <2>5, <2>6
<1>4. CASE t <= min_seqt + 3000
  <2>1. output_wait(t, "next") /\ t' = 0
    BY <1>4 DEF LoopBehind
  <2> QED
    BY <1>1, <1>3, <2>1 DEF TypeOK
<1>5. CASE ~(t <= min_seqt + 3000)
  <2>1. output_wait(min_seqt, "loop") /\ t' = t - min_seqt
    BY <1>5 DEF LoopBehind
  <2>2. t - min_seqt \in Nat /\ t - min_seqt > 3000 /\ min_seqt + (t - min_seqt) = t
    BY <1>1, <1>2, <1>5 DEF TypeOK
  <2> HIDE DEF RunInv
  <2> QED
    BY <1>2, <1>3, <2>1, <2>2
<1> QED
  BY <1>4, <1>5

\* The sequence is ahead by the lead: so is what is written, but for 10us.
LEMMA LoopAheadStep ==
  ASSUME RunInv, LoopAhead
  PROVE  RunInv'
<1> USE DEF RunInv, ghostVars
<1>1. /\ pc = "loop" /\ pc' = "serve" /\ tnow' = clock /\ ~Behind
      /\ UNCHANGED <<code, short_seq, m_released, m_t, goon, t, to_write, clock, requests,
                     out, asked, pulses, given, taken, waived, overrun>>
  BY DEF LoopAhead
<1>2. TypeOK'
  BY <1>1 DEF TypeOK
<1>3. CodeInv' /\ LoopInv'
  BY <1>1 DEF CodeInv, LoopInv, InLoop
<1>4. ClockInv' /\ TicksAdd'
  BY <1>1 DEF ClockInv, TicksAdd, InOut, TypeOK
<1>5. LeadKept'
  <2>1. m_t * 10 \in Nat /\ m_min_t \in Nat /\ clock \in Nat /\ out \in Nat /\ m_t \in Nat
    BY WidthAssumption DEF TypeOK
  <2>2. PICK rt \in Nat : rt = (m_t * 10) % Word /\ rt <= m_t * 10
    BY <2>1, Wrapped
  <2>3. rt >= clock + m_min_t
    BY <1>1, <2>1, <2>2 DEF Behind, seq_rt
  <2>4. m_t <= out + 1000
    BY <1>1, <2>1 DEF ClockInv, InOut
  <2>5. out * 10 + 10000 >= clock + m_min_t
    BY <2>1, <2>2, <2>3, <2>4
  <2> QED
    BY <1>1, <2>5 DEF LeadKept
<1>6. RestInv' /\ NoSliver'
  BY <1>1 DEF RestInv, NoSliver, InLoop
<1> QED
  BY <1>2, <1>3, <1>4, <1>5, <1>6

\* The release of the hold, by a wait of 10us of the 20 there are at least.
LEMMA ReleaseStep ==
  ASSUME RunInv, Release
  PROVE  RunInv'
<1> USE DEF RunInv, timeVars, ghostVars
<1>1. /\ pc = "serve" /\ ~m_released /\ m_released' = TRUE
      /\ m_t' = (m_t + 2000) % Word /\ out' = out + 1000 /\ pulses' = {1000}
      /\ t' = t - 1000
      /\ UNCHANGED <<code, short_seq, pc, goon, to_write, asked, tnow, clock, requests,
                     given, taken, waived, overrun>>
  BY DEF Release
<1>2. t \in Nat /\ t >= 2000 /\ max_wait_t \in Nat /\ max_wait_t > 2000
  BY <1>1, WidthAssumption DEF TypeOK, LoopInv, InLoop
<1>3. m_t' \in Nat /\ m_t' <= m_t + 2000
  BY <1>1, Wrapped DEF TypeOK
<1>4. TypeOK'
  BY <1>1, <1>2, <1>3 DEF TypeOK
<1>5. CodeInv' /\ LoopInv'
  BY <1>1, <1>2, WidthAssumption DEF CodeInv, LoopInv, InLoop
<1>6. ClockInv' /\ TicksAdd' /\ LeadKept'
  BY <1>1, <1>2, <1>3, WidthAssumption DEF ClockInv, TicksAdd, LeadKept, InOut, TypeOK
<1>7. RestInv' /\ NoSliver'
  BY <1>1, <1>2 DEF RestInv, NoSliver, InLoop, TypeOK
<1> QED
  BY <1>4, <1>5, <1>6, <1>7

\* The requests of the clients, in the time that is left.
LEMMA ServeStep ==
  ASSUME RunInv, Serve
  PROVE  RunInv'
<1> USE DEF RunInv, timeVars
<1>1. /\ pc = "serve" /\ m_released /\ pc' = "loop"
      /\ UNCHANGED <<code, short_seq, m_released, goon, to_write, tnow, clock, asked, pulses,
                     given, waived>>
  BY DEF Serve
<1>2. PICK n \in 0 .. MinOf(max_requests, requests) :
        /\ requests' = requests - n
        /\ m_t' = (m_t + n * DDS) % Word /\ out' = out + n * DDS
        /\ t' = Rest(n * DDS) /\ taken' = taken + n * DDS
        /\ overrun' = (overrun \/ n * DDS > t)
  BY DEF Serve
<1>3. n \in Nat /\ n <= requests
  BY DEF MinOf, max_requests, TypeOK
<1>4. PICK stept \in Nat : stept = n * DDS
  BY <1>3 DEF DDS
<1>5. m_t' \in Nat /\ m_t' <= m_t + stept
  <2>1. m_t + stept \in Nat
    BY DEF TypeOK
  <2> QED
    BY <1>2, <1>4, <2>1, Wrapped
<1>6. t' \in Nat /\ t' < Word
  BY <1>2, <1>4, WrappedInt DEF Rest, TypeOK
<1>7. stept <= t => t' = t - stept
  <2>1. ASSUME stept <= t PROVE (t - stept) % Word = t - stept
    <3>1. t - stept \in Nat /\ t - stept < Word
      BY <1>4, <2>1, WidthAssumption DEF TypeOK, LoopInv
    <3> QED
      BY <3>1, Wrapped
  <2> QED
    BY <1>2, <1>4, <2>1 DEF Rest
<1>8. overrun' \in BOOLEAN
  BY <1>2
<1>9. TypeOK'
  <2>1. requests' = requests - n /\ out' = out + stept
    BY <1>2, <1>4
  <2>2. requests' \in 0 .. MaxRequests /\ out' \in Nat
    BY <1>3, <2>1, WidthAssumption DEF TypeOK
  <2>3. /\ code' \in Seq(Calls) /\ short_seq' \in BOOLEAN /\ m_released' \in BOOLEAN
        /\ pc' \in {"next", "loop", "serve", "out", "done"} /\ goon' \in {"next", "loop"}
        /\ waived' \in BOOLEAN
    BY <1>1 DEF TypeOK
  <2>4. /\ to_write' \in Nat /\ asked' \in Nat /\ tnow' \in Nat /\ clock' \in Nat
        /\ pulses' \subseteq 0 .. max_wait_t /\ given' \in Nat /\ taken' \in Nat
    BY <1>1, <1>2, <1>4 DEF TypeOK
  <2> QED
    BY <1>5, <1>6, <1>8, <2>2, <2>3, <2>4 DEF TypeOK
<1>10. CodeInv' /\ LoopInv' /\ LeadKept'
  BY <1>1, <1>6 DEF CodeInv, LoopInv, InLoop, LeadKept
<1>11. ClockInv'
  BY <1>1, <1>2, <1>4, <1>5 DEF ClockInv, InOut, TypeOK
<1>12. TicksAdd'
  <2>1. ASSUME ~overrun' PROVE ~overrun /\ ~(stept > t)
    BY <1>2, <1>4, <2>1
  <2>2. ASSUME ~overrun' PROVE stept <= t
    BY <2>1, <2>2 DEF TypeOK
  <2> QED
    BY <1>1, <1>2, <1>4, <1>7, <2>1, <2>2 DEF TicksAdd, TypeOK
<1>13. RestInv' /\ NoSliver'
  <2>1. taken' = taken + stept /\ t \in Nat /\ taken \in Nat
    BY <1>2, <1>4 DEF TypeOK
  <2>2. t + taken >= 1000
    BY <1>1 DEF RestInv, InLoop
  <2>3. t' + taken' >= 1000
    <3>1. PICK a \in Nat : a = t
      BY <2>1
    <3>2. PICK b \in Nat : b = t'
      BY <1>6
    <3>3. PICK all \in Nat : all = taken
      BY <2>1
    <3>4. stept <= a => b = a - stept
      BY <1>7, <3>1, <3>2
    <3>5. a + all >= 1000
      BY <2>2, <3>1, <3>3
    <3> HIDE DEF RunInv
    <3>6. b + (all + stept) >= 1000
      BY <3>4, <3>5
    <3> QED
      BY <2>1, <3>2, <3>3, <3>6
  <2>4. RestInv'
    BY <1>1, <2>3 DEF RestInv, InLoop
  <2>5. NoSliver'
    BY <1>1, <2>1 DEF NoSliver
  <2> QED
    BY <2>4, <2>5
<1> QED
  BY <1>9, <1>10, <1>11, <1>12, <1>13

\* The last pulse, the clock, and a step of nothing.
LEMMA OtherSteps ==
  ASSUME RunInv, Finish \/ Tick \/ UNCHANGED vars
  PROVE  RunInv'
<1> USE DEF RunInv, timeVars, ghostVars
<1>1. CASE Finish
  <2>1. /\ pc = "next" /\ pc' = "done" /\ goon = "next"
        /\ out' = out + 3 /\ asked' = asked + 3
        /\ UNCHANGED <<code, short_seq, m_released, m_t, goon, t, to_write, pulses, tnow,
                       clock, requests, given, taken, waived, overrun>>
    BY <1>1 DEF Finish, MinPulse, LoopInv
  <2>2. TypeOK'
    BY <2>1 DEF TypeOK
  <2>3. CodeInv' /\ LoopInv' /\ LeadKept'
    BY <2>1 DEF CodeInv, LoopInv, InLoop, LeadKept
  <2>4. ClockInv' /\ TicksAdd'
    BY <2>1 DEF ClockInv, TicksAdd, InOut, TypeOK
  <2>5. RestInv' /\ NoSliver'
    BY <2>1 DEF RestInv, NoSliver, InLoop
  <2> QED
    BY <2>2, <2>3, <2>4, <2>5
<1>2. CASE Tick
  <2>1. /\ clock' = clock + ClockStep /\ ClockStep \in Nat
        /\ UNCHANGED <<code, short_seq, m_released, m_t, pc, goon, t, to_write, tnow, requests,
                       out, asked, pulses, given, taken, waived, overrun>>
    BY <1>2, WidthAssumption DEF Tick
  <2>2. TypeOK'
    BY <2>1 DEF TypeOK
  <2>3. CodeInv' /\ LoopInv' /\ LeadKept'
    BY <2>1 DEF CodeInv, LoopInv, InLoop, LeadKept
  <2>4. ClockInv' /\ TicksAdd'
    BY <2>1 DEF ClockInv, TicksAdd, InOut
  <2>5. RestInv' /\ NoSliver'
    BY <2>1 DEF RestInv, NoSliver, InLoop
  <2> QED
    BY <2>2, <2>3, <2>4, <2>5
<1>3. CASE UNCHANGED vars
  BY <1>3 DEF vars, TypeOK, CodeInv, LoopInv, ClockInv, TicksAdd, LeadKept, InOut, InLoop,
     RestInv, NoSliver
<1> QED
  BY <1>1, <1>2, <1>3

LEMMA RunInit ==
  ASSUME Init
  PROVE  RunInv
<1>1. TypeOK
  <2>1. code \in Seq(Calls) /\ short_seq \in BOOLEAN
    BY CodeAssumption DEF Init
  <2>2. 0 \in 0 .. max_wait_t /\ MaxRequests \in 0 .. MaxRequests
    BY WidthAssumption
  <2> QED
    BY <2>1, <2>2 DEF Init, TypeOK
<1>2. CodeInv
  BY CodeAssumption, LenProperties DEF Init, CodeInv
<1>3. LoopInv /\ ClockInv /\ TicksAdd /\ LeadKept /\ RestInv /\ NoSliver
  BY WidthAssumption DEF Init, LoopInv, ClockInv, TicksAdd, LeadKept, InOut, InLoop, RestInv,
     NoSliver
<1> QED
  BY <1>1, <1>2, <1>3 DEF RunInv

LEMMA RunStep ==
  ASSUME RunInv, [Next]_vars
  PROVE  RunInv'
<1>1. CASE Wait
  <2>1. code # <<>> /\ pc = "next" /\ Made /\ WaitOf(Call.t, 0)
        /\ UNCHANGED <<short_seq, m_released, timeVars, overrun>>
    BY <1>1 DEF Wait, Calling
  <2>2. Call.t \in Nat /\ Call.t = 0 + Call.t
    BY <2>1, NextCalls DEF RunInv
  <2> QED
    BY <2>1, <2>2, WaitStep
<1>2. CASE TtlWait
  <2>1. code # <<>> /\ pc = "next" /\ Call.t > 1000 /\ Made /\ WaitOf(Call.t - 100, 100)
        /\ UNCHANGED <<short_seq, m_released, timeVars, overrun>>
    BY <1>2 DEF TtlWait, Calling
  <2>2. Call.t \in Nat
    BY <2>1, NextCalls DEF RunInv
  <2>3. Call.t - 100 \in Nat /\ Call.t = 100 + (Call.t - 100)
    BY <2>1, <2>2
  <2> QED
    BY <2>1, <2>3, WaitStep
<1> QED
  BY <1>1, <1>2, OnePulseStep, OutFullStep, OutRestStep, LoopBehindStep, LoopAheadStep,
     ReleaseStep, ServeStep, OtherSteps DEF Next

LEMMA RunInvariant == Spec => []RunInv
<1>1. Init => RunInv
  BY RunInit
<1>2. RunInv /\ [Next]_vars => RunInv'
  BY RunStep
<1> QED
  BY <1>1, <1>2, PTL DEF Spec

\* Every variable keeps its type: no wait underflows, and no pulse is longer than
\* the field of the instruction holds.
THEOREM RunnerTypeCorrect == Spec => []TypeOK
<1>1. RunInv => TypeOK
  BY DEF RunInv
<1> QED
  BY <1>1, RunInvariant, PTL

\* Between two calls the sequence is where its calls say, whatever was written for
\* the clients in its waits and however the waits were cut.
THEOREM NothingOfAWaitIsLost == Spec => []TicksAdd
<1>1. RunInv => TicksAdd
  BY DEF RunInv
<1> QED
  BY <1>1, RunInvariant, PTL

\* The clients are served only when what is written is ahead of the clock by the
\* lead, but for 10us: also when the clock of the sequence wraps.
THEOREM LeadIsKept == Spec => []LeadKept
<1>1. RunInv => LeadKept
  BY DEF RunInv
<1> QED
  BY <1>1, RunInvariant, PTL

\* However the loop, output_wait, the release and the clients cut a wait, none of
\* its pulses is shorter than 1us, but for a wait that is so itself, and what is
\* left when the requests took more than 9us of it.
THEOREM NoSliverIsLeft == Spec => []NoSliver
<1>1. RunInv => NoSliver
  BY DEF RunInv
<1> QED
  BY <1>1, RunInvariant, PTL
=============================================================================
