--------------------------- MODULE ByteCodeRunner ---------------------------
(***************************************************************************)
(* ByteCodeRunner of lib/pulser/instruction.cpp: the calls of a sequence's *)
(* byte code, written to the FPGA.  A wait of a sequence is to be written  *)
(* far enough ahead of the real time; what time is left goes to the        *)
(* clients' requests.  Times are ticks of 10ns, those of the clock are ns; *)
(* m_start_t is 0.                                                         *)
(***************************************************************************)
EXTENDS Integers, Sequences

CONSTANTS
  Codes,        \* the byte codes that are run, as calls
  max_wait_t,   \* the longest pulse, 2^24 - 1 ticks in the code
  m_min_t,      \* the lead over the real time, at least 0.5s in the code
  Word,         \* 2^64 in the code
  MaxRequests,  \* bound on the requests the clients make
  ClockStep,    \* ns of a step of the clock
  MaxTime       \* bound on the clock

Calls == [op : {"cmd", "ttl", "wait"}, t : Nat]
ASSUME CodeAssumption ==
  /\ Codes \subseteq Seq(Calls)
  /\ \A c \in Codes : \A i \in DOMAIN c : c[i].t < Word
ASSUME WidthAssumption ==
  /\ max_wait_t \in Nat /\ max_wait_t > 2000 /\ m_min_t \in Nat
  /\ Word \in Nat /\ Word > 0
  /\ MaxRequests \in Nat /\ ClockStep \in Nat \ {0} /\ MaxTime \in Nat

DDS == 50    \* Seq::PulseTime::_DDS, the length of a request
MinPulse == 3     \* Seq::PulseTime::Min

VARIABLES
  code,        \* the calls that are left
  short_seq, m_released, m_t,
  pc,          \* "next" call, top of the "loop" of wait, "serve" in it,
               \* "out" in output_wait, or "done"
  goon,        \* where output_wait returns to
  t,           \* the rest of the wait, in the loop
  to_write,    \* the rest of the wait, in output_wait
  tnow, clock, \* the clock as the loop read it, and now
  requests,    \* the requests the clients may still make
  out,         \* ticks written
  asked,       \* ticks of the calls made
  pulses,      \* the fields of the wait pulses of the last step that wrote any,
               \* or {} when a wait begins
  given,       \* the length the wait was called with
  taken,       \* ticks the requests took of it
  waived,      \* the clients were left out of a wait
  overrun      \* requests took more ticks than a wait had

vars == <<code, short_seq, m_released, m_t, pc, goon, t, to_write, tnow, clock,
          requests, out, asked, pulses, given, taken, waived, overrun>>
timeVars  == <<tnow, clock, requests>>
ghostVars == <<given, taken, waived, overrun>>

Init ==
  /\ code \in Codes /\ short_seq \in BOOLEAN /\ m_released = FALSE /\ m_t = 0
  /\ pc = "next" /\ goon = "next" /\ t = 0 /\ to_write = 0
  /\ tnow = 0 /\ clock = 0 /\ requests = MaxRequests
  /\ out = 0 /\ asked = 0 /\ pulses = {} /\ given = 0 /\ taken = 0
  /\ waived = FALSE /\ overrun = FALSE
-----------------------------------------------------------------------------
(* The calls                                                               *)

Call == Head(code)
Calling(op) == pc = "next" /\ code # <<>> /\ Call.op = op
Made == code' = Tail(code) /\ asked' = asked + Call.t

\* ttl, dds_freq, dds_amp, dac, clock: one pulse.
OnePulse ==
  /\ Calling("cmd") \/ (Calling("ttl") /\ Call.t <= 1000)
  /\ Made
  /\ m_t' = m_t + Call.t /\ out' = out + Call.t
  /\ UNCHANGED <<short_seq, m_released, pc, goon, t, to_write, pulses, timeVars, ghostVars>>

output_wait(n, back) ==
  /\ m_t' = (m_t + n) % Word
  /\ to_write' = n /\ pc' = "out" /\ goon' = back

\* wait(n), called when the first written ticks of the call are made of a pulse.
\* The branch of a sequence that is not short writes all of it at once.
WaitOf(n, written) ==
  /\ given' = n /\ taken' = 0
  /\ \/ /\ ~short_seq
        /\ m_t' = (m_t + written + n) % Word
        /\ to_write' = n /\ pc' = "out" /\ goon' = "next"
        /\ pulses' = {} /\ waived' = TRUE
        /\ UNCHANGED t /\ out' = out + written
     \/ /\ short_seq /\ n < 2000
        /\ m_t' = m_t + written + n /\ pulses' = {n} /\ out' = out + written + n
        /\ UNCHANGED <<pc, goon, t, to_write, waived>>
     \/ /\ short_seq /\ n >= 2000
        /\ pc' = "loop" /\ t' = n
        /\ m_t' = m_t + written /\ pulses' = {} /\ out' = out + written
        /\ UNCHANGED <<goon, to_write, waived>>

Wait ==
  /\ Calling("wait") /\ Made /\ WaitOf(Call.t, 0)
  /\ UNCHANGED <<short_seq, m_released, timeVars, overrun>>

\* A TTL pulse of more than 10us is one of 1us and a wait.
TtlWait ==
  /\ Calling("ttl") /\ Call.t > 1000 /\ Made /\ WaitOf(Call.t - 100, 100)
  /\ UNCHANGED <<short_seq, m_released, timeVars, overrun>>
-----------------------------------------------------------------------------
(* output_wait: pulses of the longest length, and at the end two halves    *)
(* rather than a pulse that is too short.                                  *)

\* A name that ends in X is a slip one could make in the definition that
\* follows it; nothing uses it.

FullPulseX == to_write > max_wait_t
FullPulse  == to_write > max_wait_t + 100
OutFull ==
  /\ pc = "out" /\ FullPulse
  /\ to_write' = to_write - max_wait_t /\ out' = out + max_wait_t
  /\ pulses' = {max_wait_t}
  /\ UNCHANGED <<code, short_seq, m_released, m_t, pc, goon, t, asked, timeVars, ghostVars>>

HalvesX == {to_write}
Halves  == {to_write \div 2, to_write - to_write \div 2}
OutRest ==
  /\ pc = "out" /\ ~FullPulse
  /\ pulses' = IF to_write > max_wait_t THEN Halves ELSE {to_write} \ {0}
  /\ out' = out + to_write /\ to_write' = 0 /\ pc' = goon
  /\ UNCHANGED <<code, short_seq, m_released, m_t, goon, t, asked, timeVars, ghostVars>>
-----------------------------------------------------------------------------
(* The loop of wait                                                        *)

MaxOf(a, b) == IF a >= b THEN a ELSE b
MinOf(a, b) == IF a <= b THEN a ELSE b

seq_rt == (m_t * 10) % Word

\* What is missing to the lead, as the code computes it: the difference is
\* unsigned, so that it is never small.
BehindX == seq_rt < clock
Behind  == seq_rt < clock + m_min_t
min_seqt == MaxOf(((seq_rt - (clock + m_min_t)) % Word) \div 10, 10000)
LoopBehind ==
  /\ pc = "loop" /\ Behind
  /\ tnow' = clock
  /\ IF t <= min_seqt + 3000
     THEN output_wait(t, "next") /\ t' = 0
     ELSE output_wait(min_seqt, "loop") /\ t' = t - min_seqt
  /\ UNCHANGED <<code, short_seq, m_released, clock, requests, out, asked, pulses, ghostVars>>

LoopAhead ==
  /\ pc = "loop" /\ ~Behind
  /\ pc' = "serve" /\ tnow' = clock
  /\ UNCHANGED <<code, short_seq, m_released, m_t, goon, t, to_write, clock, requests,
                 out, asked, pulses, ghostVars>>

\* The hold is released when the lead is reached for the first time.  The code
\* adds the ticks of this wait to m_t here, and again in output_wait.
Release ==
  /\ pc = "serve" /\ ~m_released
  /\ m_released' = TRUE
  /\ m_t' = (m_t + 2000) % Word /\ out' = out + 1000 /\ pulses' = {1000}
  /\ t' = t - 1000
  /\ UNCHANGED <<code, short_seq, pc, goon, to_write, asked, timeVars, ghostVars>>

\* writeRequests(max_requests): at most 15, each a command of a DDS; none when
\* the clients have none, or no space for its result.
max_requests == IF t >= 7000 THEN 8 ELSE t \div 1000 + 1
RestX(w) == t
Rest(w)  == (t - w) % Word
Serve ==
  /\ pc = "serve" /\ m_released
  /\ \E n \in 0 .. MinOf(max_requests, requests) :
       LET stept == n * DDS IN
       /\ requests' = requests - n
       /\ m_t' = (m_t + stept) % Word /\ out' = out + stept
       /\ t' = Rest(stept)
       /\ taken' = taken + stept
       /\ overrun' = (overrun \/ stept > t)
  /\ pc' = "loop"
  /\ UNCHANGED <<code, short_seq, m_released, goon, to_write, tnow, clock, asked, pulses,
                 given, waived>>
-----------------------------------------------------------------------------
\* The last pulse, of the shortest length.
Finish ==
  /\ pc = "next" /\ code = <<>> /\ pc' = "done"
  /\ out' = out + MinPulse /\ asked' = asked + MinPulse
  /\ UNCHANGED <<code, short_seq, m_released, m_t, goon, t, to_write, pulses, timeVars,
                 ghostVars>>

Tick ==
  /\ pc # "done" /\ clock < MaxTime /\ clock' = clock + ClockStep
  /\ UNCHANGED <<code, short_seq, m_released, m_t, pc, goon, t, to_write, tnow, requests,
                 out, asked, pulses, ghostVars>>

Next ==
  \/ OnePulse \/ Wait \/ TtlWait \/ OutFull \/ OutRest
  \/ LoopBehind \/ LoopAhead \/ Release \/ Serve \/ Finish \/ Tick

Spec == Init /\ [][Next]_vars
-----------------------------------------------------------------------------
\* Every variable has its type.
TypeOK ==
  /\ code \in Seq(Calls) /\ short_seq \in BOOLEAN /\ m_released \in BOOLEAN
  /\ pc \in {"next", "loop", "serve", "out", "done"} /\ goon \in {"next", "loop"}
  /\ m_t \in Nat /\ t \in Nat /\ to_write \in Nat /\ out \in Nat /\ asked \in Nat
  /\ tnow \in Nat /\ clock \in Nat /\ requests \in 0 .. MaxRequests
  /\ pulses \subseteq 0 .. max_wait_t /\ given \in Nat /\ taken \in Nat
  /\ waived \in BOOLEAN /\ overrun \in BOOLEAN

\* Between two calls the sequence is where its calls say, whatever was written
\* for the clients in its waits: nothing of a wait is lost, or written twice.
TicksAdd ==
  ~overrun => asked = out + (IF pc = "out" THEN to_write ELSE 0)
                          + (IF pc \in {"loop", "serve"} \/ goon = "loop"
                             THEN t ELSE 0)

\* However a wait is cut, by the longest pulse, by what is missing to the lead, by
\* the release or by the requests written in it, none of its pulses is shorter than
\* 1us, but the one of a wait called with less, and the rest of one of which the
\* requests took more than 9us.
NoSliver == \A o \in pulses : o < 100 => o = given \/ taken > 900

\* Requests are served only when what is written is ahead of the clock by the
\* lead, but for the 10us that m_t counts twice.
LeadKept == pc = "serve" => out * 10 + 10000 >= tnow + m_min_t

\* "We have time to do something else": the requests written in a wait fit in
\* what is left of it.
TimeToServe == ~overrun

\* "We need to output to this time before processing commands": of a wait that
\* is longer than what is missing to the lead, but 0.1ms and 3000 ticks, no more
\* is written.
JustToLead ==
  [][pc = "loop" /\ pc' = "out" =>
     to_write' <= MaxOf((clock + m_min_t - seq_rt) \div 10, 10000) + 3000]_vars

\* "The sequence is short enough that we can let the web page wait": only a
\* short sequence writes its waits without a look at the clients.
OnlyShortWaive == waived => short_seq
=============================================================================
