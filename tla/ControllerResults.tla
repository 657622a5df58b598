--------------------------- MODULE ControllerResults --------------------------
(***************************************************************************)
(* What is done to the requests, for any threads, programs and bounds:     *)
(* results go to the requests whose pulses returned them, whatever is      *)
(* still to be done to a request is done to one that exists, no thread     *)
(* sleeps on a condition that has come true unless its wake-up is under    *)
(* way, and the engine implements PulserService.                           *)
(***************************************************************************)
EXTENDS ControllerProofs

USE DEF Goto, Loop, NextCall, controlOnly, lockOnly, condOnly, countOnly, queueOnly,
        reqOnly, fpgaOnly, dataVars, lockVars, queueVars, countVars, condVars, reqVars,
        fpgaVars, writeVars, readVars

-----------------------------------------------------------------------------
(* ResultOrder, OwnResult and CompletedOnce: every result goes to the      *)
(* request whose pulse returned it, and a request keeps the answer it got. *)

\* The labels at which a thread may have pushed to m_res_queue what it has not
\* written.
PushedLabels == {"run_push", "run_space", "run_op", "run_ctrl", "wr_op", "wr_ctrl"}
Idle(t)       == pc[t] \notin PushedLabels
OthersIdle(t) == \A u \in Workers \ {t} : Idle(u)

\* The results that will be popped, in order.
Arriving  == ReadUnpopped \o fpga_out \o fpga_cmds
Queued(t) == m_res_queue = Arriving \o Unwritten(t)

\* m_res_queue is what arrives and what the only thread that may have pushed has
\* not written; the requests the reader pops are those of the results it read.
OrderInv ==
  /\ \A t \in Workers : OthersIdle(t) => Queued(t)
  /\ pc[Reader] \in {"r_wake", "r_set", "r_notify"} => rd_req = rd_res

\* What r is to be completed with.
Answer(r) == IF HasRes[r] THEN r ELSE Zero

\* A queue of requests that have a result, or of requests that have none.
AllHave(q)  == \A j \in 1 .. Len(q) : HasRes[q[j]]
NoneHave(q) == \A j \in 1 .. Len(q) : ~HasRes[q[j]]

AnswerInv ==
  /\ AllHave(m_res_queue) /\ NoneHave(m_notify_queue)
  /\ pc[Reader] \in {"r_wake", "r_set", "r_notify"} => AllHave(rd_req)
  /\ pc[Reader] \in {"d_set", "d_notify"} =>
       NoneHave(rd_req) /\ \A j \in 1 .. Len(rd_req) : rd_res[j] = Zero
  /\ \A r \in ready : res[r] = Answer(r)

\* The calls of t that construct requests, and the m-th of those i constructs.
Requesting(t) == {i \in DOMAIN Program[t] : Program[t][i].op \in {"reqSync", "run"}}
Asked(t, i)   == 1 .. Len(Program[t][i].reqs)

\* The Requests are distinct objects: no two calls construct the same one.
Distinct ==
  \A t, u \in Procs : \A i \in Requesting(t), j \in Requesting(u) :
    \A m \in Asked(t, i), n \in Asked(u, j) :
      Program[t][i].reqs[m] = Program[u][j].reqs[n] => t = u /\ i = j /\ m = n

\* t has constructed the m-th request of its i-th call.
Made(t, i, m) == i <= ip[t] /\ (i = ip[t] /\ pc[t] = "call" => m < k[t])

\* Request r has been constructed, and stays so.
Constructed(r) ==
  \E t \in Procs : \E i \in Requesting(t) : \E m \in Asked(t, i) :
    Made(t, i, m) /\ Program[t][i].reqs[m] = r
StayConstructed == \A r : Constructed(r) => Constructed(r)'

\* Only what was constructed is alive.
LiveInv == \A r \in live : Constructed(r)

-----------------------------------------------------------------------------
(* Sequences                                                               *)

\* Concatenation, of sequences of any kind.
LEMMA Associates ==
  ASSUME NEW S
  PROVE  \A a, b, c \in Seq(S) : (a \o b) \o c = a \o (b \o c)
<1> SUFFICES ASSUME NEW a \in Seq(S), NEW b \in Seq(S), NEW c \in Seq(S)
             PROVE  (a \o b) \o c = a \o (b \o c)
  OBVIOUS
<1> QED
  BY ConcatAssociative

\* What is appended to a whole is appended to its last part.
LEMMA AppendToLast ==
  ASSUME NEW S, NEW a \in Seq(S), NEW u \in Seq(S), NEW x \in S
  PROVE  Append(a \o u, x) = a \o (u \o <<x>>)
<1>1. <<x>> \in Seq(S) /\ a \o u \in Seq(S)
  BY ConcatProperties
<1>2. Append(a \o u, x) = (a \o u) \o <<x>>
  BY <1>1, AppendIsConcat
<1> QED
  BY <1>1, <1>2, ConcatAssociative

\* pop of as many elements as the first part has takes the first part.
LEMMA PopFirst ==
  ASSUME NEW S, NEW a \in Seq(S), NEW b \in Seq(S)
  PROVE  /\ MinOf(Len(a), Len(a \o b)) = Len(a)
         /\ Take(a \o b, Len(a)) = a /\ Drop(a \o b, Len(a)) = b
<1>1. /\ a \o b \in Seq(S) /\ Len(a) \in Nat /\ Len(b) \in Nat
      /\ Len(a \o b) = Len(a) + Len(b)
      /\ \A i \in 1 .. Len(a) + Len(b) :
           (a \o b)[i] = IF i <= Len(a) THEN a[i] ELSE b[i - Len(a)]
  BY ConcatProperties, LenProperties
<1>2. \A i \in 1 .. Len(a) + Len(b) : (a \o b)[i] \in S
  BY <1>1, ElementOfSeq
<1>3. Take(a \o b, Len(a)) = a
  <2>1. /\ SubSeq(a \o b, 1, Len(a)) \in Seq(S) /\ Len(SubSeq(a \o b, 1, Len(a))) = Len(a)
        /\ \A i \in 1 .. Len(a) : SubSeq(a \o b, 1, Len(a))[i] = (a \o b)[1 + i - 1]
    <3>1. \A i \in 1 .. Len(a) : (a \o b)[i] \in S
      BY <1>1, <1>2
    <3>2. /\ SubSeq(a \o b, 1, Len(a)) \in Seq(S)
          /\ Len(SubSeq(a \o b, 1, Len(a))) = IF 1 <= Len(a) THEN Len(a) - 1 + 1 ELSE 0
          /\ \A i \in 1 .. Len(a) - 1 + 1 : SubSeq(a \o b, 1, Len(a))[i] = (a \o b)[1 + i - 1]
      BY <1>1, <3>1, SubSeqProperties
    <3> QED
      BY <1>1, <3>2
  <2>2. \A i \in 1 .. Len(a) : SubSeq(a \o b, 1, Len(a))[i] = a[i]
    BY <1>1, <2>1
  <2> QED
    BY <2>1, <2>2, SeqEqual DEF Take
<1>4. Drop(a \o b, Len(a)) = b
  <2> DEFINE d == SubSeq(a \o b, Len(a) + 1, Len(a) + Len(b))
  <2>1. /\ d \in Seq(S) /\ Len(d) = Len(b)
        /\ \A i \in 1 .. Len(b) : d[i] = (a \o b)[Len(a) + 1 + i - 1]
    <3>1. \A i \in Len(a) + 1 .. Len(a) + Len(b) : (a \o b)[i] \in S
      BY <1>1, <1>2
    <3>2. /\ d \in Seq(S)
          /\ Len(d) = IF Len(a) + 1 <= Len(a) + Len(b)
                      THEN Len(a) + Len(b) - (Len(a) + 1) + 1 ELSE 0
          /\ \A i \in 1 .. Len(a) + Len(b) - (Len(a) + 1) + 1 :
               d[i] = (a \o b)[Len(a) + 1 + i - 1]
      BY <1>1, <3>1, SubSeqProperties
    <3> QED
      BY <1>1, <3>2
  <2>2. \A i \in 1 .. Len(b) : d[i] = b[i]
    BY <1>1, <2>1
  <2>3. d = b
    BY <2>1, <2>2, SeqEqual
  <2> QED
    BY <1>1, <2>3 DEF Drop
<1> QED
  BY <1>1, <1>3, <1>4 DEF MinOf

\* What pop takes, and what it leaves, make up the queue.
LEMMA TakeAndDrop ==
  ASSUME NEW S, NEW q \in Seq(S), NEW n \in 0 .. Len(q)
  PROVE  Take(q, n) \o Drop(q, n) = q
<1>1. Len(q) \in Nat
  BY LenProperties
<1>2. SubSeq(q, 1, n) \o SubSeq(q, n + 1, Len(q)) = SubSeq(q, 1, Len(q))
  <2>1. 1 \in 1 .. Len(q) + 1 /\ n \in 1 - 1 .. Len(q) /\ Len(q) \in n .. Len(q)
    BY <1>1
  <2> QED
    BY <2>1, ConcatAdjacentSubSeq
<1> QED
  BY <1>2, SubSeqFull DEF Take, Drop

\* A sequence is its first element and the rest.
LEMMA HeadAndTail ==
  ASSUME NEW S, NEW q \in Seq(S), q # <<>>
  PROVE  /\ Head(q) \in S /\ Tail(q) \in Seq(S) /\ <<Head(q)>> \in Seq(S)
         /\ q = <<Head(q)>> \o Tail(q)
<1>1. /\ Len(Tail(q)) = Len(q) - 1 /\ Len(q) \in Nat /\ Len(q) # 0
      /\ Head(q) \in S /\ Tail(q) \in Seq(S)
  BY HeadTailProperties, LenProperties, EmptySeq
<1>2. /\ SubSeq(q, 1, Len(q)) = <<q[1]>> \o SubSeq(q, 1 + 1, Len(q))
      /\ SubSeq(q, 1, Len(q)) = q
  <2>1. 1 \in 1 .. Len(q) /\ Len(q) \in 1 .. Len(q)
    BY <1>1
  <2> QED
    BY <2>1, SubSeqRecursiveFirst, SubSeqFull
<1>3. Tail(q) = SubSeq(q, 2, Len(q))
  BY TailIsSubSeq
<1>4. Head(q) = q[1]
  OBVIOUS
<1> QED
  BY <1>1, <1>2, <1>3, <1>4

\* A pushed request that has a result keeps a queue of such requests, and the
\* like for those that have none.
LEMMA HaveAppend ==
  ASSUME NEW q \in Seq(Req), NEW r \in Req
  PROVE  /\ AllHave(q) /\ HasRes[r] => AllHave(Append(q, r))
         /\ NoneHave(q) /\ ~HasRes[r] => NoneHave(Append(q, r))
<1>1. Len(q) \in Nat
  BY LenProperties
<1>2. /\ Len(Append(q, r)) = Len(q) + 1 /\ Append(q, r)[Len(q) + 1] = r
      /\ \A j \in 1 .. Len(q) : Append(q, r)[j] = q[j]
  BY AppendProperties
<1>3. \A j \in 1 .. Len(q) + 1 : j \in 1 .. Len(q) \/ j = Len(q) + 1
  BY <1>1
<1> QED
  BY <1>1, <1>2, <1>3 DEF AllHave, NoneHave

\* What is popped and what is left are requests of the queue.
LEMMA HaveTakeDrop ==
  ASSUME NEW q \in Seq(Req), NEW n \in 0 .. Len(q)
  PROVE  /\ AllHave(q) => AllHave(Take(q, n)) /\ AllHave(Drop(q, n))
         /\ NoneHave(q) => NoneHave(Take(q, n)) /\ NoneHave(Drop(q, n))
<1>1. Len(q) \in Nat /\ \A j \in 1 .. Len(q) : q[j] \in Req
  BY LenProperties, ElementOfSeq
<1>2. Len(Take(q, n)) = n /\ Len(Drop(q, n)) = Len(q) - n
  BY TakeDrop
<1>3. \A j \in 1 .. n : Take(q, n)[j] = q[j]
  <2>1. \A j \in 1 .. n : SubSeq(q, 1, n)[j] = q[1 + j - 1]
    <3>1. \A j \in 1 .. n - 1 + 1 : SubSeq(q, 1, n)[j] = q[1 + j - 1]
      BY <1>1, SubSeqProperties
    <3> QED
      BY <1>1, <3>1
  <2> QED
    BY <1>1, <2>1 DEF Take
<1>4. \A j \in 1 .. Len(q) - n : Drop(q, n)[j] = q[n + j]
  <2>1. \A j \in 1 .. Len(q) - (n + 1) + 1 : SubSeq(q, n + 1, Len(q))[j] = q[n + 1 + j - 1]
    BY <1>1, SubSeqProperties
  <2> QED
    BY <1>1, <2>1 DEF Drop
<1> QED
  <2> DEFINE first == Take(q, n)
             left  == Drop(q, n)
  <2>1. /\ Len(first) = n /\ Len(left) = Len(q) - n
        /\ \A j \in 1 .. n : first[j] = q[j] /\ j \in 1 .. Len(q)
        /\ \A j \in 1 .. Len(q) - n : left[j] = q[n + j] /\ n + j \in 1 .. Len(q)
    BY <1>1, <1>2, <1>3, <1>4
  <2> HIDE DEF first, left
  <2>2. /\ AllHave(q) => AllHave(first) /\ AllHave(left)
        /\ NoneHave(q) => NoneHave(first) /\ NoneHave(left)
    BY <2>1 DEF AllHave, NoneHave
  <2> QED
    BY <2>2 DEF first, left

-----------------------------------------------------------------------------
(* Who has pushed                                                          *)

\* The sequences of the order are of requests and of other results.
Result == Req \cup {Zero, Garbage}

LEMMA OrderTypes ==
  ASSUME TypeInv
  PROVE  /\ m_res_queue \in Seq(Req) /\ m_notify_queue \in Seq(Req) /\ rd_req \in Seq(Req)
         /\ m_res_queue \in Seq(Result) /\ rd_req \in Seq(Result) /\ rd_res \in Seq(Result)
         /\ fpga_out \in Seq(Result) /\ fpga_cmds \in Seq(Result)
         /\ ReadUnpopped \in Seq(Result) /\ Arriving \in Seq(Result)
<1>1. /\ m_res_queue \in Seq(Req) /\ m_notify_queue \in Seq(Req) /\ rd_req \in Seq(Req)
      /\ rd_res \in Seq(Req \cup {Zero, Garbage})
      /\ fpga_out \in Seq(Req \cup {Garbage}) /\ fpga_cmds \in Seq(Req \cup {Garbage})
  BY DEF TypeInv, DataTypes, QueueTypes, ReadTypes, FpgaTypes
<1>2. /\ m_res_queue \in Seq(Result) /\ rd_req \in Seq(Result) /\ rd_res \in Seq(Result)
      /\ fpga_out \in Seq(Result) /\ fpga_cmds \in Seq(Result)
  BY <1>1, SeqMonotonic DEF Result
<1>3. ReadUnpopped \in Seq(Result)
  BY <1>2, EmptySeq DEF ReadUnpopped
<1>4. Arriving \in Seq(Result)
  BY <1>2, <1>3, ConcatProperties DEF Arriving
<1> QED
  BY <1>1, <1>2, <1>3, <1>4

\* What has been pushed and not written are requests.
LEMMA UnwrittenTypes ==
  ASSUME TypeInv, NEW t \in Workers
  PROVE  Unwritten(t) \in Seq(Result)
<1> SUFFICES Unwritten(t) \in Seq(Req)
  BY SeqMonotonic DEF Result
<1>a. Placed /\ LoopInv /\ WriteTypes /\ t \in Procs \cup {Writer}
  BY DEF TypeInv, DataTypes, Workers
<1>0. <<>> \in Seq(Req)
  BY EmptySeq
<1>1. CASE pc[t] \in {"run_push", "run_op", "run_ctrl"}
  <2>1. t \in Procs /\ InLoop(t)
    BY <1>1, <1>a DEF Placed, WriterLabels, WriteLabels, InLoop, LoopLabels
  <2>2. /\ Call(t).reqs \in Seq(Req) /\ Len(Call(t).reqs) \in Nat
        /\ k[t] \in 1 .. Len(Call(t).reqs)
    BY <1>a, <2>1, CallLoop
  <2>3. \A j \in 1 .. Len(Call(t).reqs) : Call(t).reqs[j] \in Req
    BY <2>2, ElementOfSeq
  <2>4. /\ SubSeq(Call(t).reqs, 1, k[t] - 1) \in Seq(Req)
        /\ SubSeq(Call(t).reqs, k[t], Len(Call(t).reqs)) \in Seq(Req)
    BY <2>2, <2>3, SubSeqProperties
  <2> QED
    BY <1>1, <2>4 DEF Unwritten
<1>2. CASE pc[t] = "run_space"
  <2>1. t \in Procs
    BY <1>2, <1>a DEF Placed, WriterLabels, WriteLabels
  <2>2. Call(t).reqs \in Seq(Req)
    BY <1>2, <1>a, <2>1, CallRequests DEF Placed, FitsCall, RunLabels, Call
  <2> QED
    BY <1>2, <2>2 DEF Unwritten
<1>3. CASE pc[t] \in {"wr_op", "wr_ctrl"}
  <2>1. Current(t) \in Req
    BY <1>3, <1>a, WriteLoop DEF WriteLabels
  <2> QED
    BY <1>3, <1>0, <2>1 DEF Unwritten
<1>4. CASE Idle(t)
  BY <1>4, <1>0 DEF Idle, PushedLabels, Unwritten
<1> QED
  BY <1>1, <1>2, <1>3, <1>4 DEF Idle, PushedLabels

\* A thread that is idle has pushed nothing.
LEMMA IdleUnwritten ==
  ASSUME NEW t, Idle(t)
  PROVE  Unwritten(t) = <<>>
  BY DEF Idle, PushedLabels, Unwritten

\* Where a thread may be when others may not have pushed.
LEMMA WorkAlone ==
  ASSUME Disciplined, Placed, LockInv, NEW t \in Workers,
         \/ pc[t] \in WorkLabels \cup {"run_push", "run_space", "wr_space"}
         \/ Calling(t, "serve") \/ Calling(t, "run")
  PROVE  OthersIdle(t)
<1>1. m_lock = t
  BY WorkHolder
<1>2. \A u \in Workers : ~Idle(u) => m_lock = u
  BY WorkHolder DEF Idle, PushedLabels, WorkLabels, CountLabels, WriteLabels
<1> QED
  BY <1>1, <1>2 DEF OthersIdle

\* At any time the queue is in order with what one of the threads has pushed.
LEMMA SomeQueued ==
  ASSUME Disciplined, Placed, LockInv
  PROVE  \E t \in Workers : OthersIdle(t)
<1>1. CASE \E t \in Workers : ~Idle(t)
  BY <1>1, WorkAlone DEF Idle, PushedLabels, WorkLabels, CountLabels, WriteLabels
<1>2. CASE \A t \in Workers : Idle(t)
  BY <1>2 DEF Workers, OthersIdle
<1> QED
  BY <1>1, <1>2

-----------------------------------------------------------------------------
(* What a step leaves alone                                                *)

\* What another thread has pushed and not written stays as it was.
LEMMA AloneUnwritten ==
  ASSUME Placed, NEW t, Alone(t), NEW u \in Workers \ {t}
  PROVE  Unwritten(u)' = Unwritten(u) /\ Idle(u)' = Idle(u)
<1>1. CASE u \in Procs
  <2>1. Call(u)' = Call(u)
    BY <1>1 DEF Alone, Call
  <2>2. Requests(u)' = Requests(u)
    BY <2>1 DEF Alone, Requests
  <2>3. Current(u)' = Current(u)
    BY <2>1, <2>2 DEF Alone, Current
  <2> QED
    BY <2>1, <2>3 DEF Alone, Unwritten, Idle
<1>2. CASE u = Writer
  <2>1. pc[u] \notin {"run_push", "run_space", "run_op", "run_ctrl"}
    BY <1>2 DEF Placed, WriterLabels, WriteLabels
  <2>2. pc[u] \in WriteLabels => Current(u)' = Current(u)
    BY DEF Alone, Current, Requests
  <2> QED
    BY <1>2, <2>1, <2>2 DEF Alone, Unwritten, WriteLabels, Idle
<1> QED
  BY <1>1, <1>2 DEF Workers

\* A step of t that neither pushes nor writes a result.
LEMMA OrderQuiet ==
  ASSUME TypeInv, OrderInv, NEW t \in Workers, Alone(t),
         UNCHANGED <<m_res_queue, fpga_out, fpga_cmds, readVars>>,
         pc'[Reader] = pc[Reader], Unwritten(t)' = Unwritten(t), Idle(t)' = Idle(t)
  PROVE  OrderInv'
<1>1. Arriving' = Arriving
  BY DEF Arriving, ReadUnpopped
<1>2. \A u \in Workers : Unwritten(u)' = Unwritten(u) /\ Idle(u)' = Idle(u)
  BY AloneUnwritten DEF TypeInv
<1> QED
  BY <1>1, <1>2 DEF OrderInv, OthersIdle, Queued

\* A step of t that leaves it idle.
LEMMA OrderIdle ==
  ASSUME TypeInv, OrderInv, NEW t \in Workers, Alone(t),
         UNCHANGED <<m_res_queue, fpga_out, fpga_cmds, readVars>>,
         pc'[Reader] = pc[Reader], Idle(t), Idle(t)'
  PROVE  OrderInv'
<1>1. Unwritten(t) = <<>> /\ Unwritten(t)' = <<>>
  BY DEF Idle, PushedLabels, Unwritten
<1> QED
  BY <1>1, OrderQuiet

\* A step of the only thread that may push.
LEMMA OrderAlone ==
  ASSUME TypeInv, OrderInv, NEW t \in Workers, Alone(t), OthersIdle(t),
         UNCHANGED readVars, pc'[Reader] = pc[Reader], Queued(t)'
  PROVE  OrderInv'
<1> SUFFICES ASSUME NEW h \in Workers, OthersIdle(h)' PROVE Queued(h)'
  BY DEF OrderInv
<1>1. CASE h = t
  BY <1>1
<1>2. CASE h # t
  <2>1. Idle(t)' /\ Idle(h)'
    BY <1>2, AloneUnwritten DEF OthersIdle, TypeInv
  <2>2. Unwritten(t)' = <<>> /\ Unwritten(h)' = <<>>
    BY <2>1 DEF Idle, PushedLabels, Unwritten
  <2> QED
    BY <2>2 DEF Queued
<1> QED
  BY <1>1, <1>2

\* A step of the FPGA or of the reader that moves results along.
LEMMA OrderOther ==
  ASSUME TypeInv, OrderInv, Alone(Reader), UNCHANGED m_res_queue, Arriving' = Arriving,
         pc'[Reader] \in {"r_wake", "r_set", "r_notify"} => rd_req' = rd_res'
  PROVE  OrderInv'
<1>1. \A u \in Workers : Unwritten(u)' = Unwritten(u) /\ Idle(u)' = Idle(u)
  BY AloneUnwritten, ThreadAssumption DEF TypeInv, Workers
<1> QED
  BY <1>1 DEF OrderInv, OthersIdle, Queued

\* The usual step of a thread that is idle.
LEMMA OrderPassing ==
  ASSUME TypeInv, OrderInv, NEW t \in Workers,
         UNCHANGED <<m_res_queue, fpga_out, fpga_cmds, writeVars, readVars>>,
         pc' = [pc EXCEPT ![t] = pc'[t]], k' = [k EXCEPT ![t] = k'[t]],
         \A u \in Procs \ {t} : ip'[u] = ip[u],
         pc[t] \notin PushedLabels, pc'[t] \notin PushedLabels
  PROVE  OrderInv'
<1>1. WriteTypes /\ t \in Threads
  BY DEF TypeInv, DataTypes, Workers, Threads
<1>2. Alone(t) /\ pc'[Reader] = pc[Reader]
  BY <1>1, AloneStep DEF WriteTypes
<1> QED
  BY <1>2, OrderIdle DEF Idle

-----------------------------------------------------------------------------
(* The order of the results: the steps of the callers                      *)

\* The last of the requests of a call that are pushed.
LEMMA OrderRunPush ==
  ASSUME Disciplined, TypeInv, LockInv, OrderInv, NEW t \in Procs, RunPush(t)
  PROVE  OrderInv'
<1>a. /\ t \in Workers /\ t \in Threads /\ Placed /\ LoopInv /\ WriteTypes
      /\ pc \in [Threads -> CallerLabels \cup WriterLabels \cup ReaderLabels]
      /\ k \in [Threads -> Nat \ {0}] /\ pc[t] = "run_push" /\ t # Writer
  BY ThreadAssumption
     DEF TypeInv, DataTypes, Workers, Threads, Placed, LoopInv, RunPush
<1>1. OthersIdle(t) /\ Queued(t)
  BY <1>a, WorkAlone DEF OrderInv
<1>2. Alone(t) /\ pc'[Reader] = pc[Reader]
  BY <1>a, AloneStep DEF RunPush, Iterate, WriteTypes
<1> DEFINE q == Call(t).reqs
<1>3. /\ q \in Seq(Req) /\ Len(q) \in Nat /\ k[t] \in 1 .. Len(q) /\ Requests(t) = q
      /\ Current(t) = q[k[t]]
  BY <1>a, CallLoop DEF InLoop, LoopLabels, Current
<1>4. q[k[t]] \in Req
  BY <1>3, ElementOfSeq
<1>5. SubSeq(q, 1, k[t]) = SubSeq(q, 1, k[t] - 1) \o <<q[k[t]]>>
  <2>1. k[t] \in 1 .. Len(q) /\ 1 \in 1 .. Len(q) /\ k[t] \in 1 .. k[t] /\ q \in Seq(Req)
    BY <1>3
  <2> HIDE DEF q
  <2> QED
    BY <2>1, SubSeqRecursiveSecond
<1>7. Unwritten(t) = SubSeq(q, 1, k[t] - 1)
  BY <1>a DEF Unwritten
<1>8. Call(t)' = Call(t)
  BY DEF RunPush, Call
<1>9. Unwritten(t)' = SubSeq(q, 1, k[t])
  <2>1. CASE IsLast(t)
    <3>1. pc'[t] = "run_space" /\ k[t] = Len(q)
      BY <1>a, <1>3, <2>1 DEF RunPush, Iterate, IsLast
    <3> QED
      BY <1>3, <1>8, <3>1, SubSeqFull DEF Unwritten
  <2>2. CASE ~IsLast(t)
    <3>1. pc'[t] = "run_push" /\ k'[t] = k[t] + 1
      BY <1>a, <2>2 DEF RunPush, Iterate
    <3>2. Unwritten(t)' = SubSeq(Call(t)'.reqs, 1, k'[t] - 1)
      BY <3>1 DEF Unwritten
    <3> QED
      BY <1>3, <1>8, <3>1, <3>2
  <2> QED
    BY <2>1, <2>2
<1>10. m_res_queue' = Append(m_res_queue, q[k[t]])
  BY <1>3 DEF RunPush
<1>11. Arriving' = Arriving
  BY <1>2 DEF RunPush, Arriving, ReadUnpopped
<1>12. Queued(t)'
  <2>1. m_res_queue = Arriving \o Unwritten(t)
    BY <1>1 DEF Queued
  <2>2. Arriving \in Seq(Result) /\ Unwritten(t) \in Seq(Result) /\ q[k[t]] \in Result
    BY <1>a, <1>4, OrderTypes, UnwrittenTypes DEF Result
  <2>3. m_res_queue' = Arriving \o (Unwritten(t) \o <<q[k[t]]>>)
    BY <1>10, <2>1, <2>2, AppendToLast
  <2>4. Unwritten(t)' = Unwritten(t) \o <<q[k[t]]>>
    BY <1>5, <1>7, <1>9
  <2>5. m_res_queue' = Arriving' \o Unwritten(t)'
    BY <1>11, <2>3, <2>4
  <2> QED
    BY <2>5 DEF Queued
<1> QED
  BY <1>a, <1>1, <1>2, <1>12, OrderAlone DEF RunPush

\* An element moves from the front of a sequence to the end of the one before.
Regroups(a, b, c, d) == (a \o b) \o (c \o d) = (a \o (b \o c)) \o d
LEMMA Regroup == \A a, b, c, d \in Seq(Result) : Regroups(a, b, c, d)
<1> DEFINE Cat(x, y) == x \o y
<1>1. \A x, y \in Seq(Result) : Cat(x, y) \in Seq(Result)
  BY ConcatProperties
<1>2. \A x, y, z \in Seq(Result) : Cat(Cat(x, y), z) = Cat(x, Cat(y, z))
  BY ConcatAssociative
<1> HIDE DEF Cat
<1>3. \A a, b, c, d \in Seq(Result) :
        Cat(Cat(a, b), Cat(c, d)) = Cat(Cat(a, Cat(b, c)), d)
  BY <1>1, <1>2
<1> QED
  BY <1>3 DEF Cat, Regroups

\* A result that is written moves from what t has pushed to what the FPGA owes.
LEMMA OrderWritten ==
  ASSUME TypeInv, NEW t \in Workers, Queued(t), NEW x \in Req, NEW rest \in Seq(Result),
         Unwritten(t) = <<x>> \o rest, Unwritten(t)' = rest,
         fpga_cmds' = fpga_cmds \o <<x>>, UNCHANGED <<m_res_queue, fpga_out, rd_res>>,
         pc'[Reader] = pc[Reader]
  PROVE  Queued(t)'
<1>1. /\ ReadUnpopped \in Seq(Result) /\ fpga_out \in Seq(Result)
      /\ fpga_cmds \in Seq(Result) /\ x \in Result
  BY OrderTypes DEF Result
<1> DEFINE a == ReadUnpopped \o fpga_out
<1>2. a \in Seq(Result)
  BY <1>1, ConcatProperties
<1>3. m_res_queue = (a \o fpga_cmds) \o (<<x>> \o rest)
  BY DEF Queued, Arriving
<1>4. (a \o fpga_cmds) \o (<<x>> \o rest) = (a \o (fpga_cmds \o <<x>>)) \o rest
  <2> DEFINE one == <<x>>
             cmds == fpga_cmds
  <2>1. /\ a \in Seq(Result) /\ cmds \in Seq(Result) /\ one \in Seq(Result)
        /\ rest \in Seq(Result)
    BY <1>1, <1>2
  <2> HIDE DEF a, one, cmds
  <2>2. Regroups(a, cmds, one, rest)
    BY <2>1, Regroup
  <2> QED
    BY <2>2 DEF one, cmds, Regroups
<1>5. ReadUnpopped' = ReadUnpopped
  BY DEF ReadUnpopped
<1>6. Arriving' = a \o (fpga_cmds \o <<x>>)
  BY <1>5 DEF Arriving
<1> QED
  BY <1>3, <1>4, <1>6 DEF Queued

\* The pulse of a command.
LEMMA OrderRunPulse ==
  ASSUME Disciplined, TypeInv, LockInv, PulseInv, OrderInv, NEW t \in Procs,
         RunPulseCtrl(t)
  PROVE  OrderInv'
<1>a. /\ t \in Workers /\ t \in Threads /\ Placed /\ LoopInv /\ WriteTypes
      /\ pc \in [Threads -> CallerLabels \cup WriterLabels \cup ReaderLabels]
      /\ k \in [Threads -> Nat \ {0}] /\ pc[t] = "run_ctrl" /\ t # Writer
  BY ThreadAssumption
     DEF TypeInv, DataTypes, Workers, Threads, Placed, LoopInv, RunPulseCtrl
<1>1. OthersIdle(t) /\ Queued(t)
  BY <1>a, WorkAlone DEF OrderInv, WorkLabels
<1>2. Alone(t) /\ pc'[Reader] = pc[Reader]
  BY <1>a, AloneStep DEF RunPulseCtrl, Iterate, WriteTypes
<1> DEFINE q == Call(t).reqs
           rest == SubSeq(q, k[t] + 1, Len(q))
<1>3. /\ q \in Seq(Req) /\ Len(q) \in Nat /\ k[t] \in 1 .. Len(q) /\ Requests(t) = q
      /\ Current(t) = q[k[t]] /\ Current(t) \in Req
  BY <1>a, CallLoop DEF InLoop, LoopLabels, Current
<1>4. q[k[t]] \in Req
  BY <1>3
<1>5. Unwritten(t) = <<q[k[t]]>> \o rest
  <2>1. SubSeq(q, k[t], Len(q)) = <<q[k[t]]>> \o rest
    <3>1. k[t] \in 1 .. Len(q) /\ Len(q) \in k[t] .. Len(q) /\ q \in Seq(Req)
      BY <1>3
    <3> HIDE DEF q
    <3> QED
      BY <3>1, SubSeqRecursiveFirst
  <2> QED
    BY <1>a, <2>1 DEF Unwritten
<1>6. Call(t)' = Call(t)
  BY DEF RunPulseCtrl, Call
<1>7. Unwritten(t)' = rest
  <2>1. CASE IsLast(t)
    <3>1. pc'[t] \in {"run_inc", "load"} /\ k[t] = Len(q)
      BY <1>a, <1>3, <2>1 DEF RunPulseCtrl, Iterate, IsLast
    <3>2. rest = <<>>
      BY <1>3, <3>1, SubSeqEmpty
    <3> QED
      BY <3>1, <3>2 DEF Unwritten
  <2>2. CASE ~IsLast(t)
    <3>1. pc'[t] = "run_op" /\ k'[t] = k[t] + 1
      BY <1>a, <2>2 DEF RunPulseCtrl, Iterate
    <3>2. Unwritten(t)' = SubSeq(Call(t)'.reqs, k'[t], Len(Call(t)'.reqs))
      BY <3>1 DEF Unwritten
    <3> QED
      BY <1>6, <3>1, <3>2
  <2> QED
    BY <2>1, <2>2
<1>8. UNCHANGED fpga_out /\ fpga_cmds' = fpga_cmds \o <<q[k[t]]>>
  <2>1. <<Current(t)>> \in Seq(Req)
    BY <1>3
  <2> QED
    BY <1>a, <1>3, <2>1, ControlStep DEF RunPulseCtrl, CtrlLabels
<1>9. rest \in Seq(Result)
  <2>1. \A j \in k[t] + 1 .. Len(q) : q[j] \in Result
    BY <1>3, ElementOfSeq DEF Result
  <2> QED
    BY <1>3, <2>1, SubSeqProperties
<1>10. UNCHANGED <<m_res_queue, readVars>>
  BY DEF RunPulseCtrl
<1> HIDE DEF rest, q
<1>11. Queued(t)'
  BY <1>a, <1>1, <1>2, <1>4, <1>5, <1>7, <1>8, <1>9, <1>10, OrderWritten
<1> QED
  BY <1>a, <1>1, <1>2, <1>10, <1>11, OrderAlone

\* A caller's step keeps the order.
LEMMA OrderCaller ==
  ASSUME Disciplined, TypeInv, LockInv, PulseInv, OrderInv,
         NEW t \in Procs, Caller(t), ~WriteRequests(t)
  PROVE  OrderInv'
<1> USE DEF PushedLabels
<1>a. /\ Placed /\ LoopInv /\ t \in Workers /\ t \in Threads /\ WriteTypes
      /\ pc \in [Threads -> CallerLabels \cup WriterLabels \cup ReaderLabels]
      /\ ip \in [Procs -> Nat \ {0}] /\ k \in [Threads -> Nat \ {0}]
  BY DEF TypeInv, Placed, LoopInv, DataTypes, Workers, Threads
<1>1. CASE Lock(t)
  BY <1>1, <1>a, OrderPassing DEF Lock, Calling
<1>2. CASE Unlock(t)
  BY <1>2, <1>a, OrderPassing DEF Unlock, Calling
<1>3. CASE SetHold(t)
  BY <1>3, <1>a, OrderPassing DEF SetHold, Calling
<1>4. CASE ReleaseHold(t)
  BY <1>4, <1>a, OrderPassing DEF ReleaseHold, Calling
<1>5. CASE WaitFinish(t)
  BY <1>5, <1>a, OrderPassing DEF WaitFinish
<1>6. CASE Pulse(t)
  BY <1>6, <1>a, OrderPassing DEF Pulse, Calling
<1>7. CASE NewRequest(t)
  <2>1. CASE Call(t).op # "run"
    BY <1>7, <1>a, <2>1, OrderPassing DEF NewRequest, Iterate, Calling
  <2>2. CASE Call(t).op = "run"
    <3>1. pc[t] = "call" /\ Calling(t, "run")
      BY <1>7, <2>2 DEF NewRequest, Calling
    <3>2. OthersIdle(t) /\ Queued(t) /\ Unwritten(t) = <<>>
      BY <1>a, <3>1, WorkAlone, IdleUnwritten DEF OrderInv, Idle
    <3>3. Alone(t) /\ pc'[Reader] = pc[Reader]
      BY <1>7, <1>a, AloneStep DEF NewRequest, Iterate, WriteTypes
    <3>4. pc'[t] \in {"call", "run_push"} /\ (pc'[t] = "run_push" => k'[t] = 1)
      BY <1>7, <1>a, <2>2 DEF NewRequest, Iterate
    <3>5. Unwritten(t)' = <<>>
      <4>1. SubSeq(Call(t)'.reqs, 1, 1 - 1) = <<>>
        BY SubSeqEmpty
      <4> QED
        BY <3>4, <4>1 DEF Unwritten
    <3>6. UNCHANGED <<m_res_queue, fpga_out, fpga_cmds, readVars>>
      BY <1>7 DEF NewRequest
    <3>7. Queued(t)'
      BY <3>2, <3>3, <3>5, <3>6 DEF Queued, Arriving, ReadUnpopped
    <3> QED
      BY <1>a, <3>2, <3>3, <3>6, <3>7, OrderAlone
  <2> QED
    BY <2>1, <2>2
<1>8. CASE PushReq(t)
  BY <1>8, <1>a, OrderPassing DEF PushReq
<1>9. CASE PushReqNotify(t)
  BY <1>9, <1>a, OrderPassing DEF PushReqNotify, Iterate
<1>10. CASE WaitSleep(t)
  BY <1>10, <1>a, OrderPassing DEF WaitSleep
<1>11. CASE WaitReady(t)
  BY <1>11, <1>a, OrderPassing DEF WaitReady
<1>12. CASE RunPush(t)
  BY <1>12, OrderRunPush
<1>13. CASE NoResSpace(t)
  <2>1. Alone(t) /\ pc'[Reader] = pc[Reader]
    BY <1>13, <1>a, AloneStep DEF NoResSpace, WriteTypes
  <2>2. Unwritten(t)' = Unwritten(t) /\ Idle(t)' = Idle(t)
    BY <1>13 DEF NoResSpace, Unwritten, Call, Idle
  <2> QED
    BY <1>13, <1>a, <2>1, <2>2, OrderQuiet DEF NoResSpace
<1>14. CASE Quit(t)
  BY <1>14, <1>a, OrderPassing DEF Quit, Calling
<1>15. CASE QuitNotify(t)
  BY <1>15, <1>a, OrderPassing DEF QuitNotify
<1>16. CASE Join(t)
  BY <1>16, <1>a, OrderPassing DEF Join
<1>17. CASE ShortPulseOp(t, "pulse_op", "pulse_ctrl")
  <2>1. UNCHANGED <<fpga_cmds, fpga_out>>
    BY <1>17, <1>a, OperandStep DEF PulseLabels, CtrlLabels
  <2> QED
    BY <1>17, <1>a, <2>1, OrderPassing DEF ShortPulseOp
<1>18. CASE PulseCtrl(t)
  <2>1. <<>> \in Seq(Req) /\ pc[t] \in CtrlLabels /\ WriteCtrl(t, <<>>)
    BY <1>18, EmptySeq DEF PulseCtrl, CtrlLabels
  <2>2. UNCHANGED fpga_out /\ fpga_cmds' = fpga_cmds \o <<>>
    BY <1>a, <2>1, ControlStep
  <2>3. fpga_cmds' = fpga_cmds
    BY <2>2, OrderTypes, ConcatEmptySeq
  <2> QED
    BY <1>18, <1>a, <2>2, <2>3, OrderPassing DEF PulseCtrl
<1>19. CASE HasResSpace(t)
  <2>1. k[t] = 1
    BY <1>19, <1>a, FirstIteration DEF HasResSpace, InLoop, LoopLabels, Calling, WriteLabels
  <2>2. Alone(t) /\ pc'[Reader] = pc[Reader]
    BY <1>19, <1>a, AloneStep DEF HasResSpace, WriteTypes
  <2>3. pc[t] = "run_space" /\ pc'[t] = "run_op" /\ k'[t] = 1 /\ Call(t)' = Call(t)
    BY <1>19, <1>a, <2>1 DEF HasResSpace, Call
  <2>4. Call(t).reqs \in Seq(Req)
    BY <1>a, <2>3, CallRequests DEF Placed, FitsCall, RunLabels, Call
  <2>5. Unwritten(t) = Call(t).reqs
    BY <2>3 DEF Unwritten
  <2>6. Unwritten(t)' = SubSeq(Call(t).reqs, 1, Len(Call(t).reqs))
    <3>1. Unwritten(t)' = SubSeq(Call(t)'.reqs, k'[t], Len(Call(t)'.reqs))
      BY <2>3 DEF Unwritten
    <3> QED
      BY <2>3, <3>1
  <2>7. Unwritten(t)' = Unwritten(t)
    BY <2>4, <2>5, <2>6, SubSeqFull
  <2>8. Idle(t)' = Idle(t)
    BY <2>3 DEF Idle
  <2> QED
    BY <1>19, <1>a, <2>2, <2>7, <2>8, OrderQuiet DEF HasResSpace
<1>20. CASE ShortPulseOp(t, "run_op", "run_ctrl")
  <2>1. UNCHANGED <<fpga_cmds, fpga_out>>
    BY <1>20, <1>a, OperandStep DEF PulseLabels, CtrlLabels
  <2>2. Alone(t) /\ pc'[Reader] = pc[Reader]
    BY <1>20, <1>a, AloneStep DEF ShortPulseOp, WriteTypes
  <2>3. Unwritten(t)' = Unwritten(t) /\ Idle(t)' = Idle(t)
    BY <1>20, <1>a DEF ShortPulseOp, Unwritten, Call, Idle
  <2> QED
    BY <1>20, <1>a, <2>1, <2>2, <2>3, OrderQuiet DEF ShortPulseOp
<1>21. CASE RunPulseCtrl(t)
  BY <1>21, OrderRunPulse
<1>22. CASE RunIncrement(t)
  BY <1>22, <1>a, OrderPassing DEF RunIncrement
<1> QED
  BY <1>1, <1>2, <1>3, <1>4, <1>5, <1>6, <1>7, <1>8, <1>9, <1>10, <1>11, <1>12, <1>13,
     <1>14, <1>15, <1>16, <1>17, <1>18, <1>19, <1>20, <1>21, <1>22 DEF Caller

-----------------------------------------------------------------------------
(* The order of the results: the steps of writeRequests                    *)

\* The next request of the batch is not yet pushed, or returns nothing.
LEMMA OrderNext ==
  ASSUME Disciplined, TypeInv, OrderInv, NEW t \in Workers, NextWrite(t),
         pc[t] \in {"wr_check", "wr_notify"}, UNCHANGED <<m_res_queue, fpgaVars>>, LockInv
  PROVE  OrderInv'
<1>a. /\ Placed /\ LoopInv /\ t \in Threads /\ WriteTypes /\ t \in Procs \cup {Writer}
      /\ pc \in [Threads -> CallerLabels \cup WriterLabels \cup ReaderLabels]
      /\ k \in [Threads -> Nat \ {0}]
  BY DEF TypeInv, Placed, LoopInv, DataTypes, Workers, Threads
<1>b. OthersIdle(t) /\ Queued(t) /\ Unwritten(t) = <<>>
  BY <1>a, WorkAlone, IdleUnwritten
     DEF OrderInv, Idle, PushedLabels, WorkLabels, CountLabels, WriteLabels
<1>1. CASE ~IsLast(t)
  <2> DEFINE r == batch[t][k[t] + 1]
  <2>0. Requests(t) = batch[t]
    BY <1>a, WriteLoop DEF WriteLabels
  <2>1. /\ pc' = [pc EXCEPT ![t] = WriteLabel(r)] /\ k' = [k EXCEPT ![t] = k[t] + 1]
        /\ UNCHANGED <<ip, batch, room, nret, seen, readVars>>
    BY <1>1, <1>a, <2>0 DEF NextWrite, IsLast
  <2>2. pc'[t] = WriteLabel(r) /\ k'[t] = k[t] + 1 /\ pc'[t] \in {"wr_push", "wr_op"}
    BY <1>a, <2>1 DEF WriteLabel
  <2>3. Current(t)' = r
    BY <2>1, <2>2 DEF Current, Requests, WriteLabels
  <2>4. Unwritten(t)' = <<>>
    BY <2>2, <2>3 DEF Unwritten, WriteLabel
  <2>5. Alone(t) /\ pc'[Reader] = pc[Reader]
    BY <1>a, <2>1, <2>2, AloneStep DEF WriteTypes
  <2>6. Queued(t)'
    BY <1>b, <2>1, <2>4, <2>5 DEF Queued, Arriving, ReadUnpopped
  <2> QED
    BY <1>b, <2>1, <2>5, <2>6, OrderAlone
<1>2. CASE IsLast(t)
  <2>1. /\ batch' = [batch EXCEPT ![t] = <<>>] /\ batch'[t] = <<>>
        /\ UNCHANGED <<room, nret, seen, readVars>>
    BY <1>2, <1>a DEF NextWrite, WriteTypes
  <2>2. /\ pc' = [pc EXCEPT ![t] = pc'[t]] /\ k' = [k EXCEPT ![t] = k'[t]]
        /\ \A u \in Procs \ {t} : ip'[u] = ip[u]
        /\ pc'[t] \in {"call", "w_unlock", "load"}
    <3>1. CASE nret[t] = 0
      BY <1>2, <3>1, ReturnStep DEF NextWrite
    <3>2. CASE nret[t] # 0
      BY <1>2, <1>a, <3>2 DEF NextWrite
    <3> QED
      BY <3>1, <3>2
  <2>3. Alone(t) /\ pc'[Reader] = pc[Reader]
    BY <1>a, <2>1, <2>2, AloneStep DEF WriteTypes
  <2> QED
    BY <2>1, <2>2, <2>3, OrderIdle DEF Idle, PushedLabels
<1> QED
  BY <1>1, <1>2

\* A step of writeRequests keeps the order.
LEMMA OrderWriteRequests ==
  ASSUME Disciplined, TypeInv, LockInv, PulseInv, CountInv, OrderInv, NEW t \in Workers,
         WriteRequests(t)
  PROVE  OrderInv'
<1> USE DEF PushedLabels
<1>a. /\ Placed /\ LoopInv /\ t \in Threads /\ WriteTypes /\ t \in Procs \cup {Writer}
      /\ pc \in [Threads -> CallerLabels \cup WriterLabels \cup ReaderLabels]
      /\ k \in [Threads -> Nat \ {0}]
  BY DEF TypeInv, Placed, LoopInv, DataTypes, Workers, Threads
<1>1. CASE WriteSpace(t)
  <2>1. /\ pc' = [pc EXCEPT ![t] = pc'[t]] /\ pc'[t] \in {"call", "w_unlock", "wr_pop"}
        /\ k' = [k EXCEPT ![t] = k'[t]] /\ \A u \in Procs \ {t} : ip'[u] = ip[u]
        /\ room' = [room EXCEPT ![t] = room'[t]]
    <3>1. CASE resBuffSpace <= 0 \/ MaxNum(t) = 0
      BY <1>1, <1>a, <3>1, ReturnStep DEF WriteSpace, WriteTypes
    <3>2. CASE ~(resBuffSpace <= 0 \/ MaxNum(t) = 0)
      BY <1>1, <1>a, <3>2 DEF WriteSpace, WriteTypes
    <3> QED
      BY <3>1, <3>2
  <2>2. UNCHANGED <<batch, nret, seen>>
    BY <1>1 DEF WriteSpace
  <2>3. /\ batch' = [batch EXCEPT ![t] = batch'[t]] /\ nret' = [nret EXCEPT ![t] = nret'[t]]
        /\ seen' = [seen EXCEPT ![t] = seen'[t]]
    BY <1>a, <2>2 DEF WriteTypes
  <2>4. Alone(t) /\ pc'[Reader] = pc[Reader]
    BY <2>1, <2>3, AloneStep
  <2> QED
    BY <1>1, <2>1, <2>4, OrderIdle DEF WriteSpace, Idle, Calling
<1>2. CASE WritePop(t)
  <2> DEFINE n == MinOf(room[t], Len(m_req_queue))
  <2>0. OthersIdle(t) /\ Queued(t) /\ Unwritten(t) = <<>>
    BY <1>2, <1>a, WorkAlone, IdleUnwritten DEF WritePop, OrderInv, Idle, WorkLabels
  <2>1. /\ pc' = [pc EXCEPT ![t] = pc'[t]] /\ k' = [k EXCEPT ![t] = k'[t]]
        /\ \A u \in Procs \ {t} : ip'[u] = ip[u]
        /\ batch' = [batch EXCEPT ![t] = Take(m_req_queue, n)]
        /\ batch'[t] = Take(m_req_queue, n)
        /\ room' = [room EXCEPT ![t] = room'[t]]
        /\ UNCHANGED <<m_res_queue, nret, seen, fpgaVars, readVars>>
        /\ \/ pc'[t] \in {"call", "w_unlock"}
           \/ n # 0 /\ k' = k /\ pc'[t] = WriteLabel(Head(m_req_queue))
    <3>1. CASE n = 0
      BY <1>2, <1>a, <3>1, ReturnStep DEF WritePop, WriteTypes
    <3>2. CASE n # 0
      BY <1>2, <1>a, <3>2 DEF WritePop, WriteTypes
    <3> QED
      BY <3>1, <3>2
  <2>2. Alone(t) /\ pc'[Reader] = pc[Reader]
    BY <1>a, <2>1, AloneStep DEF WriteTypes
  <2>3. k[t] = 1
    BY <1>2, <1>a, FirstIteration DEF WritePop, InLoop, LoopLabels, Calling, WriteLabels
  <2>4. Unwritten(t)' = <<>>
    <3>1. CASE pc'[t] \in {"call", "w_unlock"}
      BY <3>1 DEF Unwritten
    <3>2. CASE n # 0 /\ k' = k /\ pc'[t] = WriteLabel(Head(m_req_queue))
      <4>1. n \in 0 .. Len(m_req_queue) /\ m_req_queue \in Seq(Req)
        BY <1>a, MinOfLength DEF TypeInv, DataTypes, QueueTypes, WriteTypes
      <4>2. Take(m_req_queue, n)[1] = Head(m_req_queue)
        BY <3>2, <4>1, TakeHead
      <4>3. pc'[t] \in WriteLabels
        BY <3>2 DEF WriteLabel, WriteLabels
      <4>4. Current(t)' = Head(m_req_queue)
        BY <2>1, <2>3, <3>2, <4>2, <4>3 DEF Current, Requests
      <4> QED
        BY <3>2, <4>4 DEF Unwritten, WriteLabel
    <3> QED
      BY <2>1, <3>1, <3>2
  <2>5. Queued(t)'
    BY <2>0, <2>1, <2>2, <2>4 DEF Queued, Arriving, ReadUnpopped
  <2> QED
    BY <2>0, <2>1, <2>2, <2>5, OrderAlone
<1>3. CASE WritePush(t)
  <2>0. /\ OthersIdle(t) /\ Queued(t) /\ Unwritten(t) = <<>>
        /\ HasRes[Current(t)] /\ Current(t) \in Req /\ pc[t] = "wr_push"
    BY <1>3, <1>a, WorkAlone, IdleUnwritten, WriteLoop
       DEF WritePush, OrderInv, Idle, WorkLabels, CountLabels, WriteLabels, CountInv, Local
  <2>1. Alone(t) /\ pc'[Reader] = pc[Reader]
    BY <1>3, <1>a, AloneStep DEF WritePush, WriteTypes
  <2>2. pc'[t] = "wr_op" /\ UNCHANGED <<k, batch, readVars, fpgaVars>>
        /\ m_res_queue' = Append(m_res_queue, Current(t))
    BY <1>3, <1>a DEF WritePush
  <2>3. Current(t)' = Current(t)
    BY <2>0, <2>2 DEF Current, Requests, WriteLabels
  <2>4. Unwritten(t)' = <<Current(t)>>
    BY <2>0, <2>2, <2>3 DEF Unwritten
  <2>5. Arriving' = Arriving
    BY <2>1, <2>2 DEF Arriving, ReadUnpopped
  <2>6. m_res_queue = Arriving
    BY <2>0, OrderTypes, ConcatEmptySeq DEF Queued
  <2>7. m_res_queue' = m_res_queue \o <<Current(t)>>
    BY <2>0, <2>2, OrderTypes, AppendIsConcat
  <2>8. Queued(t)'
    BY <2>4, <2>5, <2>6, <2>7 DEF Queued
  <2> QED
    BY <2>0, <2>1, <2>2, <2>8, OrderAlone
<1>4. CASE ShortPulseOp(t, "wr_op", "wr_ctrl")
  <2>1. UNCHANGED <<fpga_cmds, fpga_out>>
    BY <1>4, <1>a, OperandStep DEF PulseLabels, CtrlLabels
  <2>2. Alone(t) /\ pc'[Reader] = pc[Reader]
    BY <1>4, <1>a, AloneStep DEF ShortPulseOp, WriteTypes
  <2>3. pc[t] = "wr_op" /\ pc'[t] = "wr_ctrl" /\ UNCHANGED <<k, batch>>
    BY <1>4, <1>a DEF ShortPulseOp
  <2>4. Current(t)' = Current(t)
    BY <2>3 DEF Current, Requests, WriteLabels
  <2>5. Unwritten(t)' = Unwritten(t) /\ Idle(t)' = Idle(t)
    BY <2>3, <2>4 DEF Unwritten, Idle
  <2> QED
    BY <1>4, <2>1, <2>2, <2>5, OrderQuiet DEF ShortPulseOp
<1>5. CASE WritePulseCtrl(t)
  <2> DEFINE results == IF HasRes[Current(t)] THEN <<Current(t)>> ELSE <<>>
  <2>0. /\ OthersIdle(t) /\ Queued(t) /\ Current(t) \in Req /\ pc[t] = "wr_ctrl"
        /\ pc'[t] = "wr_check" /\ WriteCtrl(t, results)
        /\ UNCHANGED <<m_res_queue, readVars>>
    BY <1>5, <1>a, WorkAlone, WriteLoop
       DEF WritePulseCtrl, OrderInv, WorkLabels, CountLabels, WriteLabels
  <2>1. Alone(t) /\ pc'[Reader] = pc[Reader]
    BY <1>5, <1>a, AloneStep DEF WritePulseCtrl, WriteTypes
  <2>2. results \in Seq(Req)
    BY <2>0, EmptySeq
  <2>3. UNCHANGED fpga_out /\ fpga_cmds' = fpga_cmds \o results
    BY <1>a, <2>0, <2>2, ControlStep DEF CtrlLabels
  <2>4. Unwritten(t) = results /\ Unwritten(t)' = <<>>
    BY <2>0 DEF Unwritten
  <2>5. Queued(t)'
    <3>1. CASE HasRes[Current(t)]
      <4>1. <<Current(t)>> \in Seq(Req) /\ <<>> \in Seq(Result)
        BY <2>0, EmptySeq
      <4>2. Unwritten(t) = <<Current(t)>> \o <<>>
        BY <2>4, <3>1, <4>1, ConcatEmptySeq
      <4>3. fpga_cmds' = fpga_cmds \o <<Current(t)>>
        BY <2>3, <3>1
      <4> HIDE DEF results
      <4> QED
        BY <2>0, <2>1, <2>3, <2>4, <4>1, <4>2, <4>3, OrderWritten
    <3>2. CASE ~HasRes[Current(t)]
      <4>1. fpga_cmds' = fpga_cmds
        BY <2>3, <3>2, OrderTypes, ConcatEmptySeq
      <4> QED
        BY <2>0, <2>1, <2>3, <2>4, <3>2, <4>1 DEF Queued, Arriving, ReadUnpopped
    <3> QED
      BY <3>1, <3>2
  <2> QED
    BY <2>0, <2>1, <2>5, OrderAlone
<1>6. CASE WriteHasRes(t)
  BY <1>6, OrderNext DEF WriteHasRes
<1>7. CASE WriteSetRes(t)
  <2>1. Alone(t) /\ pc'[Reader] = pc[Reader]
    BY <1>7, <1>a, AloneStep DEF WriteSetRes, WriteTypes
  <2> QED
    BY <1>7, <1>a, <2>1, OrderIdle DEF WriteSetRes, Idle
<1>8. CASE WriteNotify(t)
  BY <1>8, OrderNext DEF WriteNotify
<1>9. CASE WriteDefer(t)
  BY <1>9, OrderNext DEF WriteDefer
<1>10. CASE LoadWritten(t)
  <2>1. Alone(t) /\ pc'[Reader] = pc[Reader]
    BY <1>10, <1>a, AloneStep DEF LoadWritten, WriteTypes
  <2> QED
    BY <1>10, <1>a, <2>1, OrderIdle DEF LoadWritten, Idle
<1>11. CASE StoreWritten(t)
  <2>1. /\ pc' = [pc EXCEPT ![t] = pc'[t]] /\ pc'[t] \in {"wait", "call", "w_unlock"}
        /\ k' = [k EXCEPT ![t] = k'[t]] /\ \A u \in Procs \ {t} : ip'[u] = ip[u]
    <3>1. CASE Running(t)
      BY <1>11, <1>a, <3>1 DEF StoreWritten
    <3>2. CASE ~Running(t)
      BY <1>11, <3>2, ReturnStep DEF StoreWritten
    <3> QED
      BY <3>1, <3>2
  <2>2. Alone(t) /\ pc'[Reader] = pc[Reader]
    BY <1>11, <1>a, <2>1, AloneStep DEF StoreWritten, WriteTypes
  <2> QED
    BY <1>11, <2>1, <2>2, OrderIdle DEF StoreWritten, Idle
<1> QED
  BY <1>1, <1>2, <1>3, <1>4, <1>5, <1>6, <1>7, <1>8, <1>9, <1>10, <1>11 DEF WriteRequests

-----------------------------------------------------------------------------
(* The order of the results: the steps of the other threads                *)

\* A step of the writer thread keeps the order.
LEMMA OrderWriterThread ==
  ASSUME TypeInv, OrderInv, WriterThread, ~WriteRequests(Writer)
  PROVE  OrderInv'
<1> USE DEF PushedLabels
<1>a. /\ Writer \in Workers /\ Writer \in Threads /\ Writer \notin Procs
      /\ pc \in [Threads -> CallerLabels \cup WriterLabels \cup ReaderLabels]
      /\ k \in [Threads -> Nat \ {0}]
  BY ThreadAssumption DEF TypeInv, Placed, LoopInv, Workers, Threads
<1>1. CASE WriterTop
  BY <1>1, <1>a, OrderPassing DEF WriterTop
<1>2. CASE WriterSleep
  BY <1>2, <1>a, OrderPassing DEF WriterSleep
<1>3. CASE WriterWake
  BY <1>3, <1>a, OrderPassing DEF WriterWake
<1>4. CASE WriterLock
  BY <1>4, <1>a, OrderPassing DEF WriterLock
<1>5. CASE WriterUnlock
  BY <1>5, <1>a, OrderPassing DEF WriterUnlock
<1> QED
  BY <1>1, <1>2, <1>3, <1>4, <1>5 DEF WriterThread

\* The reader takes results from the FPGA's buffer in their order.
LEMMA OrderRead ==
  ASSUME TypeInv, OrderInv, ReadResults
  PROVE  Arriving' = Arriving
<1> DEFINE n == MinOf(BufSize, Len(fpga_out))
<1>1. /\ rd_res' = Take(fpga_out, n) /\ fpga_out' = Drop(fpga_out, n)
      /\ pc[Reader] = "r_read" /\ UNCHANGED fpga_cmds
      /\ pc'[Reader] = IF fpga_out = <<>> THEN "r_check" ELSE "r_count"
  BY ThreadAssumption DEF ReadResults, TypeInv, Placed, Threads
<1>2. fpga_out \in Seq(Result) /\ n \in 0 .. Len(fpga_out)
  BY OrderTypes, MinOfLength, BoundAssumption
<1>3. ReadUnpopped = <<>>
  BY <1>1 DEF ReadUnpopped
<1>4. ReadUnpopped' \o fpga_out' = fpga_out
  <2>1. Take(fpga_out, n) \o Drop(fpga_out, n) = fpga_out
    BY <1>2, TakeAndDrop
  <2>2. CASE fpga_out # <<>>
    BY <1>1, <2>1, <2>2 DEF ReadUnpopped
  <2>3. CASE fpga_out = <<>>
    <3>1. ReadUnpopped' = <<>>
      BY <1>1, <2>3 DEF ReadUnpopped
    <3>2. Drop(fpga_out, n) \in Seq(Result) /\ Take(fpga_out, n) \in Seq(Result)
      BY <1>2, TakeDrop
    <3>3. Drop(fpga_out, n) = <<>>
      BY <2>1, <2>3, <3>2, ConcatEqualIffEmpty
    <3>4. <<>> \o <<>> = <<>>
      BY EmptySeq, ConcatEmptySeq
    <3> QED
      BY <1>1, <2>3, <3>1, <3>3, <3>4
  <2> QED
    BY <2>2, <2>3
<1>5. ReadUnpopped \o fpga_out = fpga_out
  BY <1>2, <1>3, ConcatEmptySeq
<1>6. (ReadUnpopped' \o fpga_out') \o fpga_cmds' = fpga_out \o fpga_cmds
  BY <1>1, <1>4
<1> QED
  BY <1>5, <1>6 DEF Arriving

\* The requests the reader pops are those of the results it has read.
LEMMA OrderPop ==
  ASSUME Disciplined, TypeInv, LockInv, OrderInv, PopResQueue
  PROVE  /\ rd_req' = rd_res
         /\ \A t \in Workers : OthersIdle(t) =>
              m_res_queue' = fpga_out \o fpga_cmds \o Unwritten(t)
<1>a. /\ fpga_out \in Seq(Result) /\ fpga_cmds \in Seq(Result) /\ rd_res \in Seq(Result)
      /\ fpga_out \o fpga_cmds \in Seq(Result)
  BY OrderTypes, ConcatProperties
<1>b. ReadUnpopped = rd_res
  BY DEF ReadUnpopped, PopResQueue
<1>1. ASSUME NEW t \in Workers, OthersIdle(t)
      PROVE  rd_req' = rd_res /\ m_res_queue' = fpga_out \o fpga_cmds \o Unwritten(t)
  <2> DEFINE b == fpga_out \o fpga_cmds \o Unwritten(t)
  <2>1. b \in Seq(Result) /\ Unwritten(t) \in Seq(Result)
    BY <1>a, UnwrittenTypes, ConcatProperties
  <2>2. m_res_queue = rd_res \o b
    <3>1. m_res_queue = ((rd_res \o fpga_out) \o fpga_cmds) \o Unwritten(t)
      BY <1>1, <1>b DEF OrderInv, Queued, Arriving
    <3>2. (rd_res \o fpga_out) \o fpga_cmds = rd_res \o (fpga_out \o fpga_cmds)
      BY <1>a, ConcatAssociative
    <3>3. (rd_res \o (fpga_out \o fpga_cmds)) \o Unwritten(t)
            = rd_res \o ((fpga_out \o fpga_cmds) \o Unwritten(t))
      <4> DEFINE c == fpga_out \o fpga_cmds
                 u == Unwritten(t)
      <4>1. rd_res \in Seq(Result) /\ c \in Seq(Result) /\ u \in Seq(Result)
        BY <1>a, <2>1
      <4> HIDE DEF c, u
      <4>2. (rd_res \o c) \o u = rd_res \o (c \o u)
        BY <4>1, ConcatAssociative
      <4> QED
        BY <4>2 DEF c, u
    <3> QED
      BY <3>1, <3>2, <3>3
  <2> HIDE DEF b
  <2>3. /\ MinOf(Len(rd_res), Len(rd_res \o b)) = Len(rd_res)
        /\ Take(rd_res \o b, Len(rd_res)) = rd_res
        /\ Drop(rd_res \o b, Len(rd_res)) = b
    BY <1>a, <2>1, PopFirst
  <2>4. rd_req' = rd_res /\ m_res_queue' = b
    BY <2>2, <2>3 DEF PopResQueue
  <2> QED
    BY <2>4 DEF b
<1> QED
  BY <1>1, SomeQueued DEF TypeInv

\* A step of the reader thread keeps the order.
LEMMA OrderReaderThread ==
  ASSUME Disciplined, TypeInv, LockInv, OrderInv, ReaderThread
  PROVE  OrderInv'
<1>a. /\ Reader \in Threads /\ Reader \notin Workers /\ Workers \subseteq Threads
      /\ pc \in [Threads -> CallerLabels \cup WriterLabels \cup ReaderLabels]
      /\ k \in [Threads -> Nat \ {0}]
  BY ThreadAssumption DEF TypeInv, Placed, LoopInv, Workers, Threads
<1>b. ASSUME pc' = [pc EXCEPT ![Reader] = pc'[Reader]],
             k' = [k EXCEPT ![Reader] = k'[Reader]], UNCHANGED <<ip, writeVars>>
      PROVE  Alone(Reader)
  BY <1>a, <1>b DEF Alone
<1>c. ASSUME pc' = [pc EXCEPT ![Reader] = pc'[Reader]],
             k' = [k EXCEPT ![Reader] = k'[Reader]],
             UNCHANGED <<ip, m_res_queue, writeVars, fpgaVars>>,
             pc[Reader] \notin {"r_count", "r_pop"}, pc'[Reader] \notin {"r_count", "r_pop"},
             pc'[Reader] \in {"r_wake", "r_set", "r_notify"} => rd_req' = rd_res'
      PROVE  OrderInv'
  <2>1. Arriving' = Arriving
    BY <1>c DEF Arriving, ReadUnpopped
  <2> QED
    BY <1>b, <1>c, <2>1, OrderOther
<1>1. CASE ReaderTop
  BY <1>1, <1>a, <1>c DEF ReaderTop, ReaderGoto
<1>2. CASE ReaderWake
  BY <1>2, <1>a, <1>c DEF ReaderWake, ReaderGoto
<1>3. CASE ReaderCheck
  BY <1>3, <1>a, <1>c DEF ReaderCheck, ReaderGoto
<1>4. CASE ReadResults
  <2>1. /\ pc' = [pc EXCEPT ![Reader] = pc'[Reader]] /\ pc'[Reader] \in {"r_check", "r_count"}
        /\ UNCHANGED <<ip, k, m_res_queue, writeVars>>
    BY <1>4, <1>a DEF ReadResults
  <2> QED
    BY <1>4, <1>a, <1>b, <2>1, OrderRead, OrderOther
<1>5. CASE CountRead
  <2>1. /\ pc' = [pc EXCEPT ![Reader] = "r_pop"] /\ pc[Reader] = "r_count"
        /\ pc'[Reader] = "r_pop"
        /\ UNCHANGED <<ip, k, m_res_queue, writeVars, fpgaVars, readVars>>
    BY <1>5, <1>a DEF CountRead
  <2>2. Arriving' = Arriving
    BY <2>1 DEF Arriving, ReadUnpopped
  <2> QED
    BY <1>a, <1>b, <2>1, <2>2, OrderOther
<1>6. CASE PopResQueue
  <2>1. /\ pc' = [pc EXCEPT ![Reader] = "r_wake"] /\ pc'[Reader] = "r_wake"
        /\ UNCHANGED <<ip, k, writeVars, fpgaVars, rd_res>>
    BY <1>6, <1>a DEF PopResQueue
  <2>2. Alone(Reader)
    BY <1>a, <1>b, <2>1
  <2>3. \A u \in Workers : Unwritten(u)' = Unwritten(u) /\ Idle(u)' = Idle(u)
    BY <1>a, <2>2, AloneUnwritten DEF TypeInv
  <2>4. Arriving' = fpga_out \o fpga_cmds
    <3>1. ReadUnpopped' = <<>>
      BY <2>1 DEF ReadUnpopped
    <3>2. <<>> \o fpga_out = fpga_out
      BY OrderTypes, ConcatEmptySeq
    <3> QED
      BY <2>1, <3>1, <3>2 DEF Arriving
  <2> QED
    BY <1>6, <2>1, <2>3, <2>4, OrderPop DEF OrderInv, OthersIdle, Queued
<1>7. CASE ReaderNotifyWriter
  BY <1>7, <1>a, <1>c DEF ReaderNotifyWriter, OrderInv
<1>8. CASE DumpNotifyQueue
  BY <1>8, <1>a, <1>c DEF DumpNotifyQueue
<1>9. CASE ReaderSetRes("r_set", "r_notify")
  BY <1>9, <1>a, <1>c DEF ReaderSetRes, OrderInv
<1>10. CASE ReaderNotify("r_notify", "r_set", "r_check")
  BY <1>10, <1>a, <1>c DEF ReaderNotify, OrderInv
<1>11. CASE ReaderSetRes("d_set", "d_notify")
  BY <1>11, <1>a, <1>c DEF ReaderSetRes
<1>12. CASE ReaderNotify("d_notify", "d_set", "r_top")
  BY <1>12, <1>a, <1>c DEF ReaderNotify
<1> QED
  BY <1>1, <1>2, <1>3, <1>4, <1>5, <1>6, <1>7, <1>8, <1>9, <1>10, <1>11, <1>12
     DEF ReaderThread

\* The FPGA executes its pulses in order.
LEMMA OrderFpga ==
  ASSUME TypeInv, OrderInv, FpgaExec
  PROVE  OrderInv'
<1>1. /\ fpga_cmds # <<>> /\ fpga_out \in Seq(Result) /\ fpga_cmds \in Seq(Result)
      /\ ReadUnpopped \in Seq(Result)
  BY OrderTypes DEF FpgaExec
<1> DEFINE h == Head(fpga_cmds)
           one == <<h>>
<1>2. h \in Result /\ Tail(fpga_cmds) \in Seq(Result) /\ one \in Seq(Result)
  BY <1>1, HeadAndTail
<1>3. fpga_cmds = one \o Tail(fpga_cmds)
  BY <1>1, HeadAndTail
<1>4. fpga_out' = fpga_out \o one /\ fpga_cmds' = Tail(fpga_cmds)
  BY <1>1, <1>2, AppendIsConcat DEF FpgaExec
<1> HIDE DEF one
<1>5. ReadUnpopped' = ReadUnpopped
  BY DEF FpgaExec, ReadUnpopped
<1> DEFINE a == ReadUnpopped \o fpga_out
<1>6. a \in Seq(Result)
  BY <1>1, ConcatProperties
<1>7. Arriving = a \o (one \o Tail(fpga_cmds))
  BY <1>3 DEF Arriving
<1>8. Arriving' = (a \o one) \o Tail(fpga_cmds)
  <2>1. Arriving' = (ReadUnpopped \o (fpga_out \o one)) \o Tail(fpga_cmds)
    BY <1>4, <1>5 DEF Arriving
  <2>2. (ReadUnpopped \o fpga_out) \o one = ReadUnpopped \o (fpga_out \o one)
    BY <1>1, <1>2, ConcatAssociative
  <2> QED
    BY <2>1, <2>2
<1> HIDE DEF a
<1>9. Arriving' = Arriving
  <2>1. (a \o one) \o Tail(fpga_cmds) = a \o (one \o Tail(fpga_cmds))
    BY <1>2, <1>6, ConcatAssociative
  <2> QED
    BY <1>7, <1>8, <2>1
<1>10. Alone(Reader) /\ UNCHANGED <<pc, m_res_queue, readVars>>
  BY DEF FpgaExec, Alone
<1> QED
  BY <1>9, <1>10, OrderOther DEF OrderInv

\* Every step keeps the order.
LEMMA OrderInvNext ==
  ASSUME Disciplined, TypeInv, LockInv, PulseInv, CountInv, OrderInv, [Next]_vars
  PROVE  OrderInv'
<1>1. CASE \E t \in Procs : Caller(t)
  <2>1. PICK t \in Procs : Caller(t)
    BY <1>1
  <2> QED
    BY <2>1, OrderCaller, OrderWriteRequests DEF Workers
<1>2. CASE WriterThread
  BY <1>2, OrderWriterThread, OrderWriteRequests DEF Workers
<1>3. CASE ReaderThread
  BY <1>3, OrderReaderThread
<1>4. CASE FpgaExec
  BY <1>4, OrderFpga
<1>5. CASE UNCHANGED <<pc, ip, k, m_res_queue, writeVars, fpgaVars, readVars>>
  <2>1. Alone(Reader) /\ Arriving' = Arriving
    BY <1>5 DEF Alone, Arriving, ReadUnpopped
  <2> QED
    BY <1>5, <2>1, OrderOther DEF OrderInv
<1>6. (\E t \in Threads : SpuriousWake(t)) \/ Terminated \/ UNCHANGED vars
        => UNCHANGED <<pc, ip, k, m_res_queue, writeVars, fpgaVars, readVars>>
  BY DEF SpuriousWake, Terminated, vars
<1> QED
  BY <1>1, <1>2, <1>3, <1>4, <1>5, <1>6 DEF Next

\* At first nothing has been pushed, and nothing arrives.
LEMMA OrderInit == Init => OrderInv
<1> SUFFICES ASSUME Init PROVE OrderInv
  OBVIOUS
<1>1. /\ \A t \in Workers : Idle(t)
      /\ pc[Reader] = "r_top"
  BY ThreadAssumption DEF Init, Workers, Threads, Idle, PushedLabels
<1>2. Arriving = <<>> \o <<>> \o <<>>
  BY <1>1 DEF Init, Arriving, ReadUnpopped
<1>3. <<>> \o <<>> = <<>>
  BY EmptySeq, ConcatEmptySeq
<1>4. \A t \in Workers : Unwritten(t) = <<>>
  BY <1>1, IdleUnwritten
<1>5. \A t \in Workers : Queued(t)
  BY <1>2, <1>3, <1>4 DEF Init, Queued
<1> QED
  BY <1>1, <1>5 DEF OrderInv

\* The order of one of the threads is that of ResultOrder.
LEMMA OrderBound ==
  ASSUME Disciplined, TypeInv, LockInv, OrderInv
  PROVE  ResultOrder
<1>1. PICK t \in Workers : OthersIdle(t)
  BY SomeQueued DEF TypeInv
<1>2. t \in Threads /\ m_res_queue = Arriving \o Unwritten(t)
  BY <1>1 DEF OrderInv, Queued, Workers, Threads
<1> QED
  BY <1>2 DEF ResultOrder, Arriving

\* ResultOrder: whatever the threads, the programs and the bounds, the requests
\* in m_res_queue are, in order, those of the results that will arrive, so that
\* popResults gives each result to its own request (controller.cpp:84), if every
\* caller takes the controller lock as the comments of Controller ask.
THEOREM ResultsInOrder == Disciplined => (Spec => []ResultOrder)
<1> SUFFICES ASSUME Disciplined PROVE Spec => []ResultOrder
  OBVIOUS
<1> DEFINE IInv == RoomInv /\ OrderInv
<1>1. Init => IInv
  BY RoomInductive, OrderInit
<1>2. IInv /\ [Next]_vars => IInv'
  BY RoomInductive, OrderInvNext DEF RoomInv
<1>3. IInv => ResultOrder
  BY OrderBound DEF RoomInv
<1> QED
  BY <1>1, <1>2, <1>3, PTL DEF Spec

-----------------------------------------------------------------------------
(* The answers                                                             *)

\* A step that moves no request to the reader and completes none.
LEMMA AnswerQuiet ==
  ASSUME AnswerInv, UNCHANGED <<m_res_queue, m_notify_queue, readVars>>,
         pc'[Reader] = pc[Reader], \A r \in ready' : r \in ready /\ res'[r] = res[r]
  PROVE  AnswerInv'
  BY DEF AnswerInv, AllHave, NoneHave, Answer

\* A step that completes a request with its answer.
LEMMA AnswerSet ==
  ASSUME TypeInv, AnswerInv, NEW r \in Req, NEW v, SetRes(r, v), v = Answer(r),
         UNCHANGED <<m_res_queue, m_notify_queue, readVars>>,
         \/ pc'[Reader] = pc[Reader]
         \/ pc[Reader] = "r_set" /\ pc'[Reader] = "r_notify"
         \/ pc[Reader] = "d_set" /\ pc'[Reader] = "d_notify"
  PROVE  AnswerInv'
<1>1. /\ \A s \in ready' : s \in ready \/ s = r
      /\ res \in [Req -> Req \cup {Zero, Garbage}] /\ ready \subseteq Req
      /\ res' = [res EXCEPT ![r] = v]
  BY DEF SetRes, TypeInv, DataTypes, ReqTypes
<1>2. \A s \in ready' : res'[s] = Answer(s)
  BY <1>1 DEF AnswerInv
<1> QED
  BY <1>2 DEF AnswerInv, AllHave, NoneHave, Answer

\* A caller's step: run pushes only requests that have a result.
LEMMA AnswerCaller ==
  ASSUME TypeInv, AnswerInv, NEW t \in Procs, Caller(t), ~WriteRequests(t)
  PROVE  AnswerInv'
<1>a. /\ t \in Threads /\ t # Reader /\ Placed /\ LoopInv /\ Reader \in Threads
      /\ pc \in [Threads -> CallerLabels \cup WriterLabels \cup ReaderLabels]
  BY ThreadAssumption DEF TypeInv, Placed, Threads
<1>1. CASE NewRequest(t)
  <2>1. /\ UNCHANGED <<m_res_queue, m_notify_queue, readVars>>
        /\ pc'[Reader] = pc[Reader]
    BY <1>1, <1>a DEF NewRequest, Iterate
  <2>2. \A r \in ready' : r \in ready /\ res'[r] = res[r]
    BY <1>1 DEF NewRequest, TypeInv, DataTypes, ReqTypes
  <2> QED
    BY <2>1, <2>2, AnswerQuiet
<1>2. CASE RunPush(t)
  <2>1. /\ InLoop(t) /\ Call(t).op = "run"
        /\ pc'[Reader] = pc[Reader] /\ m_res_queue' = Append(m_res_queue, Current(t))
        /\ UNCHANGED <<m_notify_queue, readVars, reqVars>>
    BY <1>2, <1>a DEF RunPush, Iterate, InLoop, LoopLabels, Placed, FitsCall, RunLabels, Call
  <2>2. /\ Current(t) \in Req /\ ip[t] <= Len(Program[t]) /\ ip[t] \in Nat \ {0}
        /\ Current(t) = Call(t).reqs[k[t]] /\ k[t] \in DOMAIN Call(t).reqs
    <3>1. /\ ip[t] <= Len(Program[t]) /\ Requests(t) = Call(t).reqs /\ Current(t) \in Req
          /\ Call(t).reqs \in Seq(Req) /\ k[t] \in 1 .. Len(Call(t).reqs)
      BY <1>a, <2>1, CallLoop
    <3> QED
      BY <1>a, <3>1 DEF Current, Placed
  <2>3. HasRes[Current(t)]
    <3>1. ip[t] \in DOMAIN Program[t]
      BY <2>2, ProgramAssumption
    <3> QED
      BY <2>1, <2>2, <3>1, ProgramAssumption DEF Call
  <2>4. AllHave(m_res_queue')
    BY <2>1, <2>2, <2>3, OrderTypes, HaveAppend DEF AnswerInv
  <2> QED
    BY <2>1, <2>4 DEF AnswerInv, AllHave, NoneHave, Answer
<1>3. CASE ~NewRequest(t) /\ ~RunPush(t)
  <2>1. UNCHANGED <<m_res_queue, m_notify_queue, readVars, res, ready>>
    BY <1>3 DEF Caller, Lock, Unlock, SetHold, ReleaseHold, WaitFinish, Pulse,
       ShortPulseOp, PulseCtrl, PushReq, PushReqNotify, WaitSleep, WaitReady,
       HasResSpace, NoResSpace, RunIncrement, RunPulseCtrl, Quit, QuitNotify, Join
  <2>2. pc'[Reader] = pc[Reader]
    BY <1>3, <1>a DEF Caller, Lock, Unlock, SetHold, ReleaseHold, WaitFinish, Pulse,
       ShortPulseOp, PulseCtrl, PushReq, PushReqNotify, WaitSleep, WaitReady, Iterate,
       HasResSpace, NoResSpace, RunIncrement, RunPulseCtrl, Quit, QuitNotify, Join
  <2> QED
    BY <2>1, <2>2, AnswerQuiet
<1> QED
  BY <1>1, <1>2, <1>3

\* Where writeRequests goes next, the reader stays where it is.
LEMMA ReaderStays ==
  ASSUME Placed, NEW t \in Workers, NextWrite(t) \/ Return(t)
  PROVE  pc'[Reader] = pc[Reader]
  BY ThreadAssumption DEF NextWrite, Return, Placed, Workers, Threads

\* A step of writeRequests: what it pushes to m_res_queue has a result, and what
\* it completes, or leaves to the reader to be notified, has none.
LEMMA AnswerWriteRequests ==
  ASSUME FALSE \notin StaleHasRes, TypeInv, CountInv, AnswerInv, NEW t \in Workers,
         WriteRequests(t)
  PROVE  AnswerInv'
<1>a. /\ t \in Threads /\ t # Reader /\ Placed /\ LoopInv /\ Reader \in Threads
      /\ WriteTypes /\ t \in Procs \cup {Writer}
      /\ pc \in [Threads -> CallerLabels \cup WriterLabels \cup ReaderLabels]
  BY ThreadAssumption DEF TypeInv, DataTypes, Placed, Threads, Workers
<1>b. FALSE \in HasResRead(Current(t)) => ~HasRes[Current(t)]
  BY DEF HasResRead
<1>1. CASE WritePush(t)
  <2>1. HasRes[Current(t)] /\ Current(t) \in Req
    BY <1>1, <1>a, WriteLoop DEF WritePush, WriteLabels, CountInv, Local
  <2>2. AllHave(Append(m_res_queue, Current(t)))
    BY <2>1, OrderTypes, HaveAppend DEF AnswerInv
  <2>3. /\ m_res_queue' = Append(m_res_queue, Current(t)) /\ pc'[Reader] = pc[Reader]
        /\ UNCHANGED <<m_notify_queue, readVars, reqVars>>
    BY <1>1, <1>a DEF WritePush
  <2> QED
    BY <2>2, <2>3 DEF AnswerInv, AllHave, NoneHave, Answer
<1>2. CASE WriteDefer(t)
  <2>1. ~HasRes[Current(t)] /\ Current(t) \in Req
    BY <1>2, <1>a, <1>b, WriteLoop DEF WriteDefer, WriteLabels
  <2>2. NoneHave(Append(m_notify_queue, Current(t)))
    BY <2>1, OrderTypes, HaveAppend DEF AnswerInv
  <2>3. /\ m_notify_queue' = Append(m_notify_queue, Current(t)) /\ pc'[Reader] = pc[Reader]
        /\ UNCHANGED <<m_res_queue, readVars, reqVars>>
    BY <1>2, <1>a, ReaderStays DEF WriteDefer, NextWrite
  <2> QED
    BY <2>2, <2>3 DEF AnswerInv, AllHave, NoneHave, Answer
<1>3. CASE WriteSetRes(t)
  <2>1. ~HasRes[Current(t)] /\ Current(t) \in Req
    BY <1>3, <1>a, <1>b, WriteLoop DEF WriteSetRes, WriteLabels
  <2>2. Zero = Answer(Current(t))
    BY <2>1 DEF Answer
  <2>3. /\ SetRes(Current(t), Zero) /\ pc'[Reader] = pc[Reader]
        /\ UNCHANGED <<m_res_queue, m_notify_queue, readVars>>
    BY <1>3, <1>a DEF WriteSetRes
  <2> QED
    BY <2>1, <2>2, <2>3, AnswerSet
<1>4. CASE ~WritePush(t) /\ ~WriteDefer(t) /\ ~WriteSetRes(t)
  <2>1. UNCHANGED <<m_res_queue, m_notify_queue, readVars, res, ready>>
    BY <1>4 DEF WriteRequests, WriteSpace, WritePop, ShortPulseOp, WritePulseCtrl,
       WriteHasRes, WriteNotify, LoadWritten, StoreWritten, NextWrite
  <2>2. pc'[Reader] = pc[Reader]
    BY <1>4, <1>a, ReaderStays DEF WriteRequests, WriteSpace, WritePop, ShortPulseOp,
       WritePulseCtrl, WriteHasRes, WriteNotify, LoadWritten, StoreWritten
  <2> QED
    BY <2>1, <2>2, AnswerQuiet
<1> QED
  BY <1>1, <1>2, <1>3, <1>4

\* A step of the reader thread: popResults has the results of the requests it
\* popped, and dumpNotifyQueue completes only what returns nothing.
LEMMA AnswerReaderThread ==
  ASSUME Disciplined, TypeInv, LockInv, OrderInv, AnswerInv, ReaderThread
  PROVE  AnswerInv'
<1>a. /\ Reader \in Threads /\ ReaderLoop /\ rd_req \in Seq(Req)
      /\ pc \in [Threads -> CallerLabels \cup WriterLabels \cup ReaderLabels]
  BY OrderTypes DEF TypeInv, Placed, LoopInv, Threads
<1>b. k[Reader] \in 1 .. Len(rd_req) => rd_req[k[Reader]] \in Req
  BY <1>a, ElementOfSeq
<1>1. CASE ReaderTop \/ ReaderWake \/ ReaderCheck
  BY <1>1, <1>a
     DEF ReaderTop, ReaderWake, ReaderCheck, ReaderGoto, AnswerInv, AllHave, NoneHave, Answer
<1>2. CASE ReadResults \/ CountRead
  BY <1>2, <1>a DEF ReadResults, CountRead, AnswerInv, AllHave, NoneHave, Answer
<1>3. CASE PopResQueue
  <2> DEFINE n == MinOf(Len(rd_res), Len(m_res_queue))
  <2>1. n \in 0 .. Len(m_res_queue) /\ m_res_queue \in Seq(Req)
    BY OrderTypes, LenProperties, MinOfLength
  <2>2. AllHave(Take(m_res_queue, n)) /\ AllHave(Drop(m_res_queue, n))
    BY <2>1, HaveTakeDrop DEF AnswerInv
  <2>3. /\ rd_req' = Take(m_res_queue, n) /\ m_res_queue' = Drop(m_res_queue, n)
        /\ pc'[Reader] = "r_wake" /\ UNCHANGED <<m_notify_queue, reqVars>>
    BY <1>3, <1>a DEF PopResQueue
  <2> HIDE DEF n
  <2> QED
    BY <2>2, <2>3 DEF AnswerInv, AllHave, NoneHave, Answer
<1>4. CASE ReaderNotifyWriter
  BY <1>4, <1>a DEF ReaderNotifyWriter, AnswerInv, AllHave, NoneHave, Answer
<1>5. CASE DumpNotifyQueue
  <2> DEFINE n == MinOf(BufSize, Len(m_notify_queue))
  <2>1. n \in 0 .. Len(m_notify_queue) /\ m_notify_queue \in Seq(Req)
    BY OrderTypes, BoundAssumption, MinOfLength
  <2>2. /\ NoneHave(Take(m_notify_queue, n)) /\ NoneHave(Drop(m_notify_queue, n))
        /\ Len(Take(m_notify_queue, n)) = n
    BY <2>1, HaveTakeDrop, TakeDrop DEF AnswerInv
  <2>3. /\ rd_req' = Take(m_notify_queue, n) /\ m_notify_queue' = Drop(m_notify_queue, n)
        /\ rd_res' = [j \in 1 .. n |-> Zero]
        /\ pc'[Reader] \in {"r_top", "d_set"} /\ UNCHANGED <<m_res_queue, reqVars>>
    BY <1>5, <1>a DEF DumpNotifyQueue
  <2> HIDE DEF n
  <2>4. \A j \in 1 .. Len(rd_req') : rd_res'[j] = Zero
    BY <2>2, <2>3
  <2> QED
    BY <2>2, <2>3, <2>4 DEF AnswerInv, AllHave, NoneHave, Answer
<1>6. CASE ReaderSetRes("r_set", "r_notify")
  <2> DEFINE r == rd_req[k[Reader]]
  <2>1. k[Reader] \in 1 .. Len(rd_req) /\ r \in Req
    BY <1>6, <1>a, <1>b DEF ReaderSetRes, ReaderLoop
  <2>2. HasRes[r] /\ rd_res[k[Reader]] = r
    BY <1>6, <2>1 DEF ReaderSetRes, AnswerInv, AllHave, OrderInv
  <2>3. /\ SetRes(r, rd_res[k[Reader]])
        /\ UNCHANGED <<m_res_queue, m_notify_queue, readVars>>
        /\ pc[Reader] = "r_set" /\ pc'[Reader] = "r_notify"
    BY <1>6, <1>a DEF ReaderSetRes
  <2>4. rd_res[k[Reader]] = Answer(r)
    BY <2>2 DEF Answer
  <2> HIDE DEF r
  <2> QED
    BY <2>1, <2>3, <2>4, AnswerSet
<1>7. CASE ReaderSetRes("d_set", "d_notify")
  <2> DEFINE r == rd_req[k[Reader]]
  <2>1. k[Reader] \in 1 .. Len(rd_req) /\ r \in Req
    BY <1>7, <1>a, <1>b DEF ReaderSetRes, ReaderLoop
  <2>2. ~HasRes[r] /\ rd_res[k[Reader]] = Zero
    BY <1>7, <2>1 DEF ReaderSetRes, AnswerInv, NoneHave
  <2>3. /\ SetRes(r, rd_res[k[Reader]])
        /\ UNCHANGED <<m_res_queue, m_notify_queue, readVars>>
        /\ pc[Reader] = "d_set" /\ pc'[Reader] = "d_notify"
    BY <1>7, <1>a DEF ReaderSetRes
  <2>4. rd_res[k[Reader]] = Answer(r)
    BY <2>2 DEF Answer
  <2> HIDE DEF r
  <2> QED
    BY <2>1, <2>3, <2>4, AnswerSet
<1>8. CASE ReaderNotify("r_notify", "r_set", "r_check")
  BY <1>8, <1>a DEF ReaderNotify, AnswerInv, AllHave, NoneHave, Answer
<1>9. CASE ReaderNotify("d_notify", "d_set", "r_top")
  BY <1>9, <1>a DEF ReaderNotify, AnswerInv, AllHave, NoneHave, Answer
<1> QED
  BY <1>1, <1>2, <1>3, <1>4, <1>5, <1>6, <1>7, <1>8, <1>9 DEF ReaderThread

\* Every step keeps the answers right.
LEMMA AnswerNext ==
  ASSUME Disciplined, FALSE \notin StaleHasRes, TypeInv, LockInv, CountInv, OrderInv,
         AnswerInv, [Next]_vars
  PROVE  AnswerInv'
<1>1. CASE \E t \in Procs : Caller(t)
  <2>1. PICK t \in Procs : Caller(t)
    BY <1>1
  <2> QED
    BY <2>1, AnswerCaller, AnswerWriteRequests DEF Workers
<1>2. CASE WriterThread
  <2>1. CASE WriteRequests(Writer)
    BY <2>1, AnswerWriteRequests DEF Workers
  <2>2. CASE ~WriteRequests(Writer)
    <3>1. UNCHANGED <<m_res_queue, m_notify_queue, readVars, res, ready>>
      BY <1>2, <2>2 DEF WriterThread, WriterTop, WriterSleep, WriterWake, WriterLock,
         WriterUnlock
    <3>2. pc'[Reader] = pc[Reader]
      BY <1>2, <2>2, ThreadAssumption DEF WriterThread, WriterTop, WriterSleep,
         WriterWake, WriterLock, WriterUnlock, TypeInv, Placed, Threads
    <3> QED
      BY <3>1, <3>2, AnswerQuiet
  <2> QED
    BY <2>1, <2>2
<1>3. CASE ReaderThread
  BY <1>3, AnswerReaderThread
<1>4. CASE FpgaExec
  BY <1>4, AnswerQuiet DEF FpgaExec
<1>5. CASE (\E t \in Threads : SpuriousWake(t)) \/ Terminated \/ UNCHANGED vars
  BY <1>5, AnswerQuiet DEF SpuriousWake, Terminated, vars
<1> QED
  BY <1>1, <1>2, <1>3, <1>4, <1>5 DEF Next

\* At first no request has been queued or completed.
LEMMA AnswerInit == Init => AnswerInv
<1> SUFFICES ASSUME Init PROVE AnswerInv
  OBVIOUS
<1>1. Len(<<>>) = 0 /\ pc[Reader] = "r_top"
  BY EmptySeq, ThreadAssumption DEF Init, Threads
<1> QED
  BY <1>1 DEF Init, AnswerInv, AllHave, NoneHave

\* The inductive invariant of the answers, if a Request that has been destroyed
\* still reads as one that has a result.
AnswersInv == RoomInv /\ OrderInv /\ AnswerInv

\* It holds at first, and every step keeps it.
LEMMA AnswersInductive ==
  ASSUME Disciplined, FALSE \notin StaleHasRes
  PROVE  (Init => AnswersInv) /\ (AnswersInv /\ [Next]_vars => AnswersInv')
<1>1. Init => AnswersInv
  BY RoomInductive, OrderInit, AnswerInit DEF AnswersInv
<1>2. AnswersInv /\ [Next]_vars => AnswersInv'
  BY RoomInductive, OrderInvNext, AnswerNext DEF AnswersInv, RoomInv
<1> QED
  BY <1>1, <1>2

\* OwnResult: what a caller finds in its Request is the result of its own pulse,
\* or 0 when the command returns nothing, whatever the threads, programs and
\* bounds.  It needs has_res of a destroyed Request, which writeRequests reads
\* again at controller.cpp:172, to read as it was: otherwise a request that is
\* gone would be completed a second time.
THEOREM AnswersAreOwn ==
  Disciplined /\ FALSE \notin StaleHasRes => (Spec => []OwnResult)
<1> SUFFICES ASSUME Disciplined, FALSE \notin StaleHasRes PROVE Spec => []OwnResult
  OBVIOUS
<1>1. (Init => AnswersInv) /\ (AnswersInv /\ [Next]_vars => AnswersInv')
  BY AnswersInductive
<1>2. AnswersInv => OwnResult
  BY DEF AnswersInv, AnswerInv, Answer, OwnResult
<1> QED
  BY <1>1, <1>2, PTL DEF Spec

-----------------------------------------------------------------------------
(* A request keeps its answer                                              *)

\* A request that is about to be constructed has not been, and is not alive.
LEMMA FreshRequest ==
  ASSUME Distinct, Placed, LoopInv, LiveInv, NEW t \in Procs, NewRequest(t)
  PROVE  /\ ip[t] \in Requesting(t) /\ k[t] \in Asked(t, ip[t])
         /\ Current(t) = Program[t][ip[t]].reqs[k[t]]
         /\ ~Constructed(Current(t)) /\ Current(t) \notin live
<1>1. InLoop(t) /\ pc[t] = "call"
  BY DEF NewRequest, InLoop, Calling
<1>2. /\ ip[t] <= Len(Program[t]) /\ Call(t).op \in {"reqSync", "run"}
      /\ Requests(t) = Call(t).reqs /\ k[t] \in 1 .. Len(Call(t).reqs)
  BY <1>1, CallLoop
<1>3. ip[t] \in DOMAIN Program[t]
  BY <1>2, ProgramAssumption DEF Placed
<1>4. /\ ip[t] \in Requesting(t) /\ k[t] \in Asked(t, ip[t])
      /\ Current(t) = Program[t][ip[t]].reqs[k[t]]
  BY <1>2, <1>3 DEF Requesting, Asked, Call, Current
<1>5. ASSUME Constructed(Current(t))
      PROVE  FALSE
  <2>1. PICK u \in Procs : \E i \in Requesting(u) : \E m \in Asked(u, i) :
          Made(u, i, m) /\ Program[u][i].reqs[m] = Current(t)
    BY <1>5 DEF Constructed
  <2>2. PICK i \in Requesting(u) : \E m \in Asked(u, i) :
          Made(u, i, m) /\ Program[u][i].reqs[m] = Current(t)
    BY <2>1
  <2>3. PICK m \in Asked(u, i) : Made(u, i, m) /\ Program[u][i].reqs[m] = Current(t)
    BY <2>2
  <2>4. t = u /\ ip[t] = i /\ k[t] = m
    BY <1>4, <2>3 DEF Distinct
  <2>5. k[t] \in Nat
    BY DEF LoopInv, Threads
  <2> QED
    BY <1>1, <2>3, <2>4, <2>5 DEF Made
<1> QED
  BY <1>4, <1>5 DEF LiveInv

\* A call constructs all of its requests before it goes on.
Onwards(t) ==
  \/ pc'[t] = pc[t] /\ ip'[t] = ip[t] /\ k'[t] = k[t]
  \/ ip'[t] = ip[t] + 1
  \/ ip'[t] = ip[t] /\ pc'[t] # "call"

\* A step that constructs no request.
LEMMA LiveQuiet ==
  ASSUME TypeInv, LiveInv, live' \subseteq live, \A t \in Procs : Onwards(t)
  PROVE  LiveInv' /\ StayConstructed
<1>1. ASSUME NEW t \in Procs, NEW i \in Requesting(t), NEW m \in Asked(t, i), Made(t, i, m)
      PROVE  Made(t, i, m)'
  <2>1. i \in Int /\ ip[t] \in Int
    BY ProgramAssumption DEF Requesting, TypeInv, Placed
  <2>2. Onwards(t)
    OBVIOUS
  <2> QED
    BY <1>1, <2>1, <2>2 DEF Made, Onwards
<1>2. StayConstructed
  BY <1>1 DEF StayConstructed, Constructed, Requesting, Asked
<1> QED
  BY <1>2 DEF LiveInv, StayConstructed

\* A step that constructs one.
LEMMA LiveNew ==
  ASSUME TypeInv, LiveInv, NEW t \in Procs, NewRequest(t)
  PROVE  LiveInv' /\ StayConstructed
<1>a. /\ Placed /\ LoopInv /\ t \in Threads /\ ip[t] \in Nat \ {0} /\ k[t] \in Nat \ {0}
      /\ pc[t] = "call" /\ InLoop(t) /\ Procs \subseteq Threads
      /\ pc \in [Threads -> CallerLabels \cup WriterLabels \cup ReaderLabels]
      /\ k \in [Threads -> Nat \ {0}]
  BY DEF TypeInv, Placed, LoopInv, Threads, NewRequest, Calling, InLoop
<1>1. /\ ip[t] \in Requesting(t) /\ k[t] \in Asked(t, ip[t])
      /\ Current(t) = Program[t][ip[t]].reqs[k[t]]
  <2>1. /\ ip[t] <= Len(Program[t]) /\ Call(t).op \in {"reqSync", "run"}
        /\ Requests(t) = Call(t).reqs /\ k[t] \in 1 .. Len(Call(t).reqs)
    BY <1>a, CallLoop
  <2>2. ip[t] \in DOMAIN Program[t]
    BY <1>a, <2>1, ProgramAssumption
  <2> QED
    BY <2>1, <2>2 DEF Requesting, Asked, Call, Current
<1>2. /\ UNCHANGED ip /\ live' = live \cup {Current(t)}
      /\ \A u \in Threads \ {t} : pc'[u] = pc[u] /\ k'[u] = k[u]
      /\ pc'[t] # "call" \/ k'[t] = k[t] + 1
  BY <1>a DEF NewRequest, Iterate
<1>3. \A u \in Procs : \A i \in Requesting(u) : \A m \in Asked(u, i) :
        Made(u, i, m) => Made(u, i, m)'
  <2> SUFFICES ASSUME NEW u \in Procs, NEW i \in Requesting(u), NEW m \in Asked(u, i),
                      Made(u, i, m)
               PROVE  Made(u, i, m)'
    OBVIOUS
  <2>1. m \in Int
    BY DEF Asked
  <2>2. CASE u = t
    BY <1>a, <1>2, <2>1, <2>2 DEF Made
  <2>3. CASE u # t
    <3>1. u \in Threads \ {t}
      BY <1>a, <2>3
    <3> QED
      BY <1>2, <3>1 DEF Made
  <2> QED
    BY <2>2, <2>3
<1>4. PICK i \in Requesting(t) : i = ip[t]
  BY <1>1
<1>5. PICK m \in Asked(t, i) : m = k[t]
  BY <1>1, <1>4
<1>6. Made(t, i, m)' /\ Program[t][i].reqs[m] = Current(t)
  BY <1>a, <1>1, <1>2, <1>4, <1>5 DEF Made
<1>7. PICK r0 : r0 = Current(t)
  OBVIOUS
<1>8. Constructed(r0)'
  BY <1>6, <1>7 DEF Constructed, Requesting, Asked
<1>9. StayConstructed
  BY <1>3 DEF StayConstructed, Constructed, Requesting, Asked
<1> QED
  BY <1>2, <1>7, <1>8, <1>9 DEF LiveInv, StayConstructed

\* A step of a caller that constructs no request.
LEMMA LiveCaller ==
  ASSUME TypeInv, LiveInv, NEW t \in Procs, Caller(t), ~NewRequest(t)
  PROVE  LiveInv' /\ StayConstructed
<1>a. /\ pc \in [Threads -> CallerLabels \cup WriterLabels \cup ReaderLabels]
      /\ ip \in [Procs -> Nat \ {0}] /\ k \in [Threads -> Nat \ {0}]
      /\ t \in Threads /\ t # Writer
  BY ThreadAssumption DEF TypeInv, Placed, LoopInv, Threads
<1>b. Return(t) => pc'[t] = "call" /\ NextCall(t)
  BY <1>a DEF Return
<1>1. live' \subseteq live
  BY DEF Caller, Lock, Unlock, SetHold, ReleaseHold, WaitFinish, Pulse, ShortPulseOp,
     PulseCtrl, PushReq, PushReqNotify, WaitSleep, WaitReady, RunPush, HasResSpace,
     NoResSpace, RunIncrement, RunPulseCtrl, Quit, QuitNotify, Join, WriteRequests,
     WriteSpace, WritePop, WritePush, WritePulseCtrl, WriteHasRes, WriteSetRes, SetRes,
     WriteNotify, WriteDefer, LoadWritten, StoreWritten, NextWrite
<1>2. /\ \A u \in Threads \ {t} : pc'[u] = pc[u] /\ k'[u] = k[u]
      /\ \A u \in Procs \ {t} : ip'[u] = ip[u]
      /\ Onwards(t)
  <2>1. CASE WriteRequests(t)
    BY <1>a, <2>1 DEF WriteRequests, WriteSpace, WritePop, WritePush, ShortPulseOp,
       WritePulseCtrl, WriteHasRes, WriteSetRes, WriteNotify, WriteDefer, LoadWritten,
       StoreWritten, NextWrite, Return, WriteLabel, Onwards
  <2>2. CASE Lock(t) \/ Unlock(t) \/ SetHold(t) \/ WaitFinish(t) \/ PulseCtrl(t) \/ Join(t)
             \/ WaitReady(t)
    BY <1>a, <2>2 DEF Lock, Unlock, SetHold, WaitFinish, PulseCtrl, Join, WaitReady, Onwards
  <2>3. CASE ReleaseHold(t) \/ Pulse(t) \/ ShortPulseOp(t, "pulse_op", "pulse_ctrl")
             \/ PushReq(t) \/ PushReqNotify(t) \/ WaitSleep(t)
    BY <1>a, <2>3 DEF ReleaseHold, Pulse, ShortPulseOp, PushReq, PushReqNotify, WaitSleep,
       Iterate, Onwards
  <2>4. CASE RunPush(t) \/ HasResSpace(t) \/ NoResSpace(t) \/ RunIncrement(t)
             \/ ShortPulseOp(t, "run_op", "run_ctrl") \/ RunPulseCtrl(t) \/ Quit(t)
             \/ QuitNotify(t)
    BY <1>a, <2>4 DEF RunPush, HasResSpace, NoResSpace, RunIncrement, ShortPulseOp,
       RunPulseCtrl, Quit, QuitNotify, Iterate, Onwards
  <2> QED
    BY <2>1, <2>2, <2>3, <2>4 DEF Caller
<1>3. \A u \in Procs : Onwards(u)
  BY <1>2 DEF Threads, Onwards
<1> QED
  BY <1>1, <1>3, LiveQuiet

\* Every step keeps alive only what was constructed.
LEMMA LiveNext ==
  ASSUME TypeInv, LiveInv, [Next]_vars
  PROVE  LiveInv' /\ StayConstructed
<1>a. /\ pc \in [Threads -> CallerLabels \cup WriterLabels \cup ReaderLabels]
      /\ k \in [Threads -> Nat \ {0}] /\ Procs \subseteq Threads
      /\ Writer \in Threads /\ Reader \in Threads
      /\ Writer \notin Procs /\ Reader \notin Procs
  BY ThreadAssumption DEF TypeInv, Placed, LoopInv, Threads
<1>b. ASSUME \A u \in Procs : pc'[u] = pc[u] /\ k'[u] = k[u], UNCHANGED <<ip, live>>
      PROVE  LiveInv' /\ StayConstructed
  BY <1>b, LiveQuiet DEF Onwards
<1>1. CASE \E t \in Procs : Caller(t)
  <2>1. PICK t \in Procs : Caller(t)
    BY <1>1
  <2> QED
    BY <2>1, LiveNew, LiveCaller
<1>2. CASE WriterThread
  <2>1. CASE WriteRequests(Writer)
    <3>1. UNCHANGED <<ip, live>>
      BY <2>1 DEF WriteRequests, WriteSpace, WritePop, WritePush, ShortPulseOp,
         WritePulseCtrl, WriteHasRes, WriteSetRes, SetRes, WriteNotify, WriteDefer,
         LoadWritten, StoreWritten, NextWrite, Return, Running
    <3>2. \A u \in Procs : pc'[u] = pc[u] /\ k'[u] = k[u]
      BY <1>a, <2>1 DEF WriteRequests, WriteSpace, WritePop, WritePush, ShortPulseOp,
         WritePulseCtrl, WriteHasRes, WriteSetRes, SetRes, WriteNotify, WriteDefer,
         LoadWritten, StoreWritten, NextWrite, Return, Running
    <3> QED
      BY <1>b, <3>1, <3>2
  <2>2. CASE WriterTop \/ WriterSleep \/ WriterWake \/ WriterLock \/ WriterUnlock
    BY <1>a, <1>b, <2>2 DEF WriterTop, WriterSleep, WriterWake, WriterLock, WriterUnlock
  <2> QED
    BY <1>2, <2>1, <2>2 DEF WriterThread
<1>3. CASE ReaderThread
  <2>1. UNCHANGED <<ip, live>>
    BY <1>3 DEF ReaderThread, ReaderTop, ReaderWake, ReaderCheck, ReaderGoto, ReadResults,
       CountRead, PopResQueue, ReaderNotifyWriter, DumpNotifyQueue, ReaderSetRes, SetRes,
       ReaderNotify
  <2>2. \A u \in Procs : pc'[u] = pc[u] /\ k'[u] = k[u]
    BY <1>3, <1>a DEF ReaderThread, ReaderTop, ReaderWake, ReaderCheck, ReaderGoto,
       ReadResults, CountRead, PopResQueue, ReaderNotifyWriter, DumpNotifyQueue,
       ReaderSetRes, ReaderNotify
  <2> QED
    BY <1>b, <2>1, <2>2
<1>4. CASE FpgaExec
  BY <1>4, <1>b DEF FpgaExec
<1>5. CASE (\E t \in Threads : SpuriousWake(t)) \/ Terminated \/ UNCHANGED vars
  BY <1>5, <1>b DEF SpuriousWake, Terminated, vars
<1> QED
  BY <1>1, <1>2, <1>3, <1>4, <1>5 DEF Next

\* Only the construction of a request makes it one that is not done.
LEMMA ReadyStays ==
  ASSUME [Next]_vars, \A t \in Procs : ~NewRequest(t)
  PROVE  ready \subseteq ready'
<1>1. CASE \E t \in Procs : Caller(t)
  <2>1. PICK t \in Procs : Caller(t)
    BY <1>1
  <2> QED
    BY <2>1 DEF Caller, Lock, Unlock, SetHold, ReleaseHold, WaitFinish, Pulse,
       ShortPulseOp, PulseCtrl, PushReq, PushReqNotify, WaitSleep, WaitReady, RunPush,
       HasResSpace, NoResSpace, RunIncrement, RunPulseCtrl, Quit, QuitNotify, Join,
       WriteRequests, WriteSpace, WritePop, WritePush, WritePulseCtrl, WriteHasRes,
       WriteSetRes, SetRes, WriteNotify, WriteDefer, LoadWritten, StoreWritten, NextWrite
<1>2. CASE WriterThread
  BY <1>2 DEF WriterThread, WriterTop, WriterSleep, WriterWake, WriterLock, WriterUnlock,
     WriteRequests, WriteSpace, WritePop, WritePush, ShortPulseOp, WritePulseCtrl,
     WriteHasRes, WriteSetRes, SetRes, WriteNotify, WriteDefer, LoadWritten,
     StoreWritten, NextWrite
<1>3. CASE ReaderThread
  BY <1>3 DEF ReaderThread, ReaderTop, ReaderWake, ReaderCheck, ReaderGoto, ReadResults,
     CountRead, PopResQueue, ReaderNotifyWriter, DumpNotifyQueue, ReaderSetRes, SetRes,
     ReaderNotify
<1>4. CASE FpgaExec
  BY <1>4 DEF FpgaExec
<1>5. CASE (\E t \in Threads : SpuriousWake(t)) \/ Terminated \/ UNCHANGED vars
  BY <1>5 DEF SpuriousWake, Terminated, vars
<1> QED
  BY <1>1, <1>2, <1>3, <1>4, <1>5 DEF Next

\* A request that is done and alive stays done, with the answer it has.
LEMMA AnswerStays ==
  ASSUME Distinct, TypeInv, LiveInv, AnswerInv, AnswerInv', [Next]_vars
  PROVE  \A r \in ready \cap live \cap live' : r \in ready' /\ res'[r] = res[r]
<1> SUFFICES ASSUME NEW r \in ready \cap live \cap live'
             PROVE  r \in ready' /\ res'[r] = res[r]
  OBVIOUS
<1>1. r \in ready'
  <2>1. CASE \E t \in Procs : NewRequest(t)
    <3>1. PICK t \in Procs : NewRequest(t)
      BY <2>1
    <3>2. Current(t) # r
      BY <3>1, FreshRequest DEF TypeInv
    <3> QED
      BY <3>1, <3>2 DEF NewRequest
  <2>2. CASE \A t \in Procs : ~NewRequest(t)
    BY <2>2, ReadyStays
  <2> QED
    BY <2>1, <2>2
<1>2. res[r] = Answer(r) /\ res'[r] = Answer(r)
  BY <1>1 DEF AnswerInv, Answer
<1> QED
  BY <1>1, <1>2

\* CompletedOnce: whatever the threads, programs and bounds, setRes never changes
\* the answer of a request that is done while its owner can still read it, if no
\* Request is constructed twice; with the same two conditions as AnswersAreOwn.
THEOREM AnswersAreFinal ==
  Disciplined /\ Distinct /\ FALSE \notin StaleHasRes => (Spec => CompletedOnce)
<1> SUFFICES ASSUME Disciplined, Distinct, FALSE \notin StaleHasRes
             PROVE  Spec => CompletedOnce
  OBVIOUS
<1> DEFINE IInv == AnswersInv /\ LiveInv
<1>1. Init => IInv
  BY AnswersInductive DEF LiveInv, Init
<1>2. IInv /\ [Next]_vars => IInv'
  BY AnswersInductive, LiveNext DEF AnswersInv, RoomInv
<1>3. IInv /\ IInv' /\ [Next]_vars =>
        [\A r \in ready \cap live \cap live' : r \in ready' /\ res'[r] = res[r]]_vars
  BY AnswerStays DEF AnswersInv, RoomInv
<1> QED
  BY <1>1, <1>2, <1>3, PTL DEF Spec, CompletedOnce

-----------------------------------------------------------------------------
(* One thread at a time                                                    *)

\* No thread but t goes on, and none of their locals changes.
Only(t) ==
  /\ Alone(t)
  /\ t # Reader => /\ pc'[Reader] = pc[Reader] /\ k'[Reader] = k[Reader]
                   /\ rd_req' = rd_req

\* The same, of a step given by what it changes.
LEMMA OnlyStep ==
  ASSUME TypeInv, NEW t \in Workers, UNCHANGED rd_req,
         pc' = [pc EXCEPT ![t] = pc'[t]], k' = [k EXCEPT ![t] = k'[t]],
         \A u \in Procs \ {t} : ip'[u] = ip[u],
         batch' = [batch EXCEPT ![t] = batch'[t]], room' = [room EXCEPT ![t] = room'[t]],
         nret' = [nret EXCEPT ![t] = nret'[t]], seen' = [seen EXCEPT ![t] = seen'[t]]
  PROVE  Only(t)
<1>1. k \in [Threads -> Nat \ {0}] /\ Reader \in Threads /\ Reader # t
  BY ThreadAssumption DEF TypeInv, LoopInv, Workers, Threads
<1>2. k'[Reader] = k[Reader]
  BY <1>1
<1> QED
  BY <1>2, AloneStep DEF Only

\* Each step of writeRequests is one of the thread that calls it ...
LEMMA OnlyWriteRequests ==
  ASSUME TypeInv, NEW t \in Workers, WriteRequests(t)
  PROVE  Only(t)
<1>a. /\ pc \in [Threads -> CallerLabels \cup WriterLabels \cup ReaderLabels]
      /\ ip \in [Procs -> Nat \ {0}] /\ k \in [Threads -> Nat \ {0}]
      /\ WriteTypes /\ t \in Threads
  BY DEF TypeInv, Placed, LoopInv, DataTypes, Workers, Threads
<1>1. CASE WriteSpace(t) \/ StoreWritten(t)
  BY <1>1, <1>a, OnlyStep DEF WriteSpace, StoreWritten, Return, WriteTypes
<1>2. CASE WritePop(t)
  BY <1>2, <1>a, OnlyStep DEF WritePop, Return, WriteTypes
<1>3. CASE WritePush(t) \/ ShortPulseOp(t, "wr_op", "wr_ctrl") \/ WritePulseCtrl(t)
           \/ WriteSetRes(t) \/ LoadWritten(t)
  BY <1>3, <1>a, OnlyStep DEF WritePush, ShortPulseOp, WritePulseCtrl, WriteSetRes,
     LoadWritten, WriteTypes
<1>4. CASE WriteHasRes(t) \/ WriteNotify(t) \/ WriteDefer(t)
  <2>1. NextWrite(t)
    BY <1>4 DEF WriteHasRes, WriteNotify, WriteDefer
  <2> QED
    BY <2>1, <1>a, OnlyStep DEF NextWrite, Return, WriteTypes
<1> QED
  BY <1>1, <1>2, <1>3, <1>4 DEF WriteRequests

\* ... and so is each other step of a caller ...
LEMMA OnlyCaller ==
  ASSUME TypeInv, NEW t \in Procs, Caller(t)
  PROVE  Only(t)
<1>a. /\ pc \in [Threads -> CallerLabels \cup WriterLabels \cup ReaderLabels]
      /\ ip \in [Procs -> Nat \ {0}] /\ k \in [Threads -> Nat \ {0}]
      /\ WriteTypes /\ t \in Threads /\ t \in Workers
  BY DEF TypeInv, Placed, LoopInv, DataTypes, Workers, Threads
<1>1. CASE Lock(t) \/ Unlock(t) \/ SetHold(t) \/ WaitFinish(t) \/ PulseCtrl(t) \/ Join(t)
           \/ WaitReady(t)
  BY <1>1, <1>a, OnlyStep DEF Lock, Unlock, SetHold, WaitFinish, PulseCtrl, Join,
     WaitReady, WriteTypes
<1>2. CASE ReleaseHold(t) \/ Pulse(t) \/ ShortPulseOp(t, "pulse_op", "pulse_ctrl")
           \/ PushReq(t) \/ WaitSleep(t) \/ HasResSpace(t) \/ NoResSpace(t)
           \/ RunIncrement(t) \/ ShortPulseOp(t, "run_op", "run_ctrl") \/ Quit(t)
           \/ QuitNotify(t)
  BY <1>2, <1>a, OnlyStep DEF ReleaseHold, Pulse, ShortPulseOp, PushReq, WaitSleep,
     HasResSpace, NoResSpace, RunIncrement, Quit, QuitNotify, WriteTypes
<1>3. CASE NewRequest(t) \/ PushReqNotify(t) \/ RunPush(t) \/ RunPulseCtrl(t)
  BY <1>3, <1>a, OnlyStep DEF NewRequest, PushReqNotify, RunPush, RunPulseCtrl, Iterate,
     WriteTypes
<1> QED
  BY <1>a, <1>1, <1>2, <1>3, OnlyWriteRequests DEF Caller

\* ... of the writer thread ...
LEMMA OnlyWriterThread ==
  ASSUME TypeInv, WriterThread
  PROVE  Only(Writer)
<1>a. /\ pc \in [Threads -> CallerLabels \cup WriterLabels \cup ReaderLabels]
      /\ k \in [Threads -> Nat \ {0}] /\ WriteTypes /\ Writer \in Threads /\ Writer \in Workers
  BY DEF TypeInv, Placed, LoopInv, DataTypes, Workers, Threads
<1>1. CASE WriterTop \/ WriterSleep \/ WriterWake \/ WriterLock \/ WriterUnlock
  BY <1>1, <1>a, OnlyStep DEF WriterTop, WriterSleep, WriterWake, WriterLock,
     WriterUnlock, WriteTypes
<1> QED
  BY <1>a, <1>1, OnlyWriteRequests DEF WriterThread

\* ... and of the reader thread.
LEMMA OnlyReaderThread ==
  ASSUME TypeInv, ReaderThread
  PROVE  Only(Reader)
<1>a. /\ pc \in [Threads -> CallerLabels \cup WriterLabels \cup ReaderLabels]
      /\ k \in [Threads -> Nat \ {0}] /\ Workers \subseteq Threads /\ Reader \in Threads
      /\ Reader \notin Workers
  BY ThreadAssumption DEF TypeInv, Placed, LoopInv, Workers, Threads
<1>1. UNCHANGED <<ip, batch, room, nret, seen>>
  BY DEF ReaderThread, ReaderTop, ReaderWake, ReaderCheck, ReaderGoto, ReadResults,
     CountRead, PopResQueue, ReaderNotifyWriter, DumpNotifyQueue, ReaderSetRes,
     ReaderNotify
<1>2. /\ pc' = [pc EXCEPT ![Reader] = pc'[Reader]]
      /\ k' = [k EXCEPT ![Reader] = k'[Reader]]
  BY <1>a DEF ReaderThread, ReaderTop, ReaderWake, ReaderCheck, ReaderGoto, ReadResults,
     CountRead, PopResQueue, ReaderNotifyWriter, DumpNotifyQueue, ReaderSetRes,
     ReaderNotify
<1>3. \A u \in Workers : pc'[u] = pc[u] /\ k'[u] = k[u]
  BY <1>a, <1>2
<1> QED
  BY <1>1, <1>3 DEF Only, Alone

-----------------------------------------------------------------------------
(* How many results writeRequests has written                              *)

\* The counters are wide enough for twice max_write to be told from a negative
\* number (2^32 and 15 in the code).
Wide == Word > 4 * MaxWrite

\* writeRequests counts at most the requests of its loop so far.
NretInv ==
  \A t \in Workers :
    nret[t] <= IF pc[t] = "wr_push" THEN k[t] - 1
               ELSE IF pc[t] \in WriteLabels THEN k[t]
               ELSE MaxWrite

\* A step of one worker.
LEMMA NretStep ==
  ASSUME NretInv, NEW t \in Threads, Only(t),
         t \in Workers => nret'[t] <= IF pc'[t] = "wr_push" THEN k'[t] - 1
                                     ELSE IF pc'[t] \in WriteLabels THEN k'[t]
                                     ELSE MaxWrite
  PROVE  NretInv'
<1> SUFFICES ASSUME NEW u \in Workers
             PROVE  nret'[u] <= IF pc'[u] = "wr_push" THEN k'[u] - 1
                                ELSE IF pc'[u] \in WriteLabels THEN k'[u] ELSE MaxWrite
  BY DEF NretInv
<1>1. u # t => nret'[u] = nret[u] /\ pc'[u] = pc[u] /\ k'[u] = k[u]
  BY DEF Only, Alone
<1>2. nret[u] <= IF pc[u] = "wr_push" THEN k[u] - 1
                 ELSE IF pc[u] \in WriteLabels THEN k[u] ELSE MaxWrite
  BY DEF NretInv
<1> QED
  BY <1>1, <1>2

\* writeRequests counts a result when it pushes its request.
LEMMA NretWriteRequests ==
  ASSUME TypeInv, CountInv, NretInv, NEW t \in Workers, WriteRequests(t)
  PROVE  NretInv'
<1>a. /\ pc \in [Threads -> CallerLabels \cup WriterLabels \cup ReaderLabels]
      /\ k \in [Threads -> Nat \ {0}] /\ WriteTypes /\ t \in Threads
      /\ k[t] \in Nat \ {0} /\ nret[t] \in Nat /\ MaxWrite \in Nat /\ Only(t)
  BY BoundAssumption, OnlyWriteRequests
     DEF TypeInv, Placed, LoopInv, DataTypes, Workers, Threads, WriteTypes
<1>b. /\ pc[t] \notin CountLabels => nret[t] = 0
      /\ Len(batch[t]) <= MaxWrite
  BY DEF CountInv, Local
<1>c. pc[t] \in WriteLabels => k[t] \in 1 .. Len(batch[t])
  BY WriteLoop DEF TypeInv, DataTypes, Workers
<1>d. nret[t] <= IF pc[t] = "wr_push" THEN k[t] - 1
                 ELSE IF pc[t] \in WriteLabels THEN k[t] ELSE MaxWrite
  BY DEF NretInv
<1>e. Return(t) => pc'[t] \notin WriteLabels
  BY <1>a DEF Return, WriteLabels
<1> DEFINE Good == nret'[t] <= IF pc'[t] = "wr_push" THEN k'[t] - 1
                               ELSE IF pc'[t] \in WriteLabels THEN k'[t] ELSE MaxWrite
<1>1. CASE WriteSpace(t)
  <2>1. nret'[t] = 0 /\ pc'[t] \notin WriteLabels
    BY <1>1, <1>a, <1>b, <1>e DEF WriteSpace, Calling, CountLabels, WriteLabels
  <2>2. Good
    BY <1>a, <2>1 DEF WriteLabels
  <2> QED
    BY <1>a, <2>2, NretStep
<1>2. CASE WritePop(t)
  <2>1. nret'[t] = 0 /\ (pc'[t] \notin WriteLabels \/ k'[t] = k[t])
    BY <1>2, <1>a, <1>b, <1>e DEF WritePop, CountLabels, WriteLabels
  <2>2. Good
    BY <1>a, <2>1 DEF WriteLabels
  <2> QED
    BY <1>a, <2>2, NretStep
<1>3. CASE WritePush(t)
  <2>1. /\ pc[t] = "wr_push" /\ pc'[t] = "wr_op"
        /\ nret'[t] = nret[t] + 1 /\ k'[t] = k[t]
    BY <1>3, <1>a DEF WritePush, WriteTypes
  <2>2. Good
    BY <1>a, <1>d, <2>1 DEF WriteLabels
  <2> QED
    BY <1>a, <2>2, NretStep
<1>4. CASE ShortPulseOp(t, "wr_op", "wr_ctrl") \/ WritePulseCtrl(t) \/ WriteSetRes(t)
  <2>1. /\ pc[t] \in WriteLabels \ {"wr_push"} /\ pc'[t] \in WriteLabels \ {"wr_push"}
        /\ nret'[t] = nret[t] /\ k'[t] = k[t]
    BY <1>4, <1>a DEF ShortPulseOp, WritePulseCtrl, WriteSetRes, WriteLabels
  <2>2. Good
    BY <1>a, <1>d, <2>1
  <2> QED
    BY <1>a, <2>2, NretStep
<1>5. CASE WriteHasRes(t) \/ WriteNotify(t) \/ WriteDefer(t)
  <2>1. NextWrite(t) /\ pc[t] \in WriteLabels \ {"wr_push"}
    BY <1>5 DEF WriteHasRes, WriteNotify, WriteDefer, WriteLabels
  <2>2. nret'[t] = nret[t] /\ nret[t] <= k[t] /\ k[t] <= MaxWrite
    BY <1>a, <1>b, <1>c, <1>d, <2>1 DEF NextWrite
  <2>3. CASE ~IsLast(t)
    <3>1. k'[t] = k[t] + 1
      BY <1>a, <2>1, <2>3 DEF NextWrite
    <3>2. Good
      BY <1>a, <2>2, <3>1, <1>b, <1>c, <2>1, WriteLoop, <2>3
         DEF IsLast, TypeInv, DataTypes, Workers
    <3> QED
      BY <1>a, <3>2, NretStep
  <2>4. CASE IsLast(t)
    <3>1. pc'[t] \notin WriteLabels
      BY <1>a, <1>e, <2>1, <2>4 DEF NextWrite, WriteLabels
    <3>2. Good
      BY <1>a, <2>2, <3>1 DEF WriteLabels
    <3> QED
      BY <1>a, <3>2, NretStep
  <2> QED
    BY <2>3, <2>4
<1>6. CASE LoadWritten(t) \/ StoreWritten(t)
  <2>1. pc[t] \notin WriteLabels /\ pc'[t] \notin WriteLabels
    BY <1>6, <1>a, <1>e DEF LoadWritten, StoreWritten, WriteLabels
  <2>2. nret'[t] \in {0, nret[t]}
    BY <1>6, <1>a DEF LoadWritten, StoreWritten, WriteTypes
  <2>3. Good
    BY <1>a, <1>d, <2>1, <2>2 DEF WriteLabels
  <2> QED
    BY <1>a, <2>3, NretStep
<1> QED
  BY <1>1, <1>2, <1>3, <1>4, <1>5, <1>6 DEF WriteRequests

\* Every other step leaves the number of results that are not counted alone.
LEMMA NretNext ==
  ASSUME TypeInv, CountInv, NretInv, [Next]_vars
  PROVE  NretInv'
<1>a. /\ pc \in [Threads -> CallerLabels \cup WriterLabels \cup ReaderLabels]
      /\ MaxWrite \in Nat /\ Workers \subseteq Threads /\ Reader \notin Workers
      /\ Reader \in Threads /\ Writer \in Workers /\ Procs \subseteq Workers
      /\ WriteTypes
  BY BoundAssumption, ThreadAssumption
     DEF TypeInv, Placed, Workers, Threads, DataTypes
<1>b. ASSUME NEW t \in Workers, Only(t), nret' = nret,
             pc[t] \notin WriteLabels, pc'[t] \notin WriteLabels
      PROVE  NretInv'
  BY <1>b, <1>a, NretStep DEF NretInv, WriteLabels
<1>1. CASE \E t \in Procs : Caller(t)
  <2>1. PICK t \in Procs : Caller(t)
    BY <1>1
  <2>2. CASE WriteRequests(t)
    BY <1>a, <2>2, NretWriteRequests
  <2>3. CASE ~WriteRequests(t)
    <3>1. /\ nret' = nret /\ pc[t] \notin WriteLabels /\ pc'[t] \notin WriteLabels
      BY <1>a, <2>1, <2>3 DEF Caller, Lock, Unlock, SetHold, ReleaseHold, WaitFinish, Pulse,
         ShortPulseOp, PulseCtrl, NewRequest, PushReq, PushReqNotify, WaitSleep,
         WaitReady, RunPush, HasResSpace, NoResSpace, RunIncrement, RunPulseCtrl, Quit,
         QuitNotify, Join, Iterate, Calling, WriteLabels
    <3> QED
      BY <1>a, <1>b, <2>1, <3>1, OnlyCaller
  <2> QED
    BY <2>2, <2>3
<1>2. CASE WriterThread
  <2>1. CASE WriteRequests(Writer)
    BY <1>a, <2>1, NretWriteRequests
  <2>2. CASE WriterTop \/ WriterSleep \/ WriterWake \/ WriterLock \/ WriterUnlock
    <3>1. nret' = nret /\ pc[Writer] \notin WriteLabels /\ pc'[Writer] \notin WriteLabels
      BY <1>a, <2>2 DEF WriterTop, WriterSleep, WriterWake, WriterLock, WriterUnlock,
         WriteLabels
    <3> QED
      BY <1>a, <1>b, <1>2, <3>1, OnlyWriterThread
  <2> QED
    BY <1>2, <2>1, <2>2 DEF WriterThread
<1>3. CASE ReaderThread
  BY <1>a, <1>3, OnlyReaderThread, NretStep
<1>4. CASE FpgaExec \/ (\E t \in Threads : SpuriousWake(t)) \/ Terminated \/ UNCHANGED vars
  BY <1>4 DEF FpgaExec, SpuriousWake, Terminated, vars, NretInv
<1> QED
  BY <1>1, <1>2, <1>3, <1>4 DEF Next
-----------------------------------------------------------------------------
(* A caller's requests stay alive until it has read their results          *)

OwnLabels == RunLabels \cup {"push", "pushn", "wait"}
Requested(t) == Calling(t, "reqSync") \/ Calling(t, "run")
Recording(t) == pc[t] \in OwnLabels \/ (pc[t] \in {"load", "store"} /\ Running(t))

\* The requests of its call that t has constructed and not destroyed.
Owned(t) == IF Requested(t) THEN 1 .. k[t] - 1
            ELSE IF Recording(t) THEN 1 .. Len(Call(t).reqs)
            ELSE {}

OwnLive == \A t \in Procs : \A m \in Owned(t) : Call(t).reqs[m] \in live

\* A step that destroys no request: t, if it goes on, goes on within its call or
\* begins another.
LEMMA OwnStep ==
  ASSUME OwnLive, NEW t \in Threads, Only(t), live \subseteq live',
         t \in Procs =>
           \/ pc'[t] = "call" /\ k'[t] = 1
           \/ pc'[t] \notin OwnLabels \cup {"call", "load", "store"}
           \/ pc'[t] \in {"load", "store"} /\ ~Running(t)'
           \/ ip'[t] = ip[t] /\ Recording(t) /\ pc[t] # "call" /\ pc'[t] # "call"
  PROVE  OwnLive'
<1> SUFFICES ASSUME NEW u \in Procs, NEW m \in Owned(u)' PROVE Call(u)'.reqs[m] \in live'
  BY DEF OwnLive
<1>1. CASE u # t
  <2>1. pc'[u] = pc[u] /\ k'[u] = k[u] /\ ip'[u] = ip[u]
    BY <1>1 DEF Only, Alone, Workers
  <2>2. Owned(u)' = Owned(u) /\ Call(u)' = Call(u)
    BY <2>1 DEF Owned, Requested, Recording, Running, Calling, Call
  <2> QED
    BY <2>2 DEF OwnLive
<1>2. CASE u = t
  <2>1. \/ Owned(t)' = {}
        \/ ip'[t] = ip[t] /\ Recording(t) /\ pc[t] # "call" /\ pc'[t] # "call"
    <3>1. CASE pc'[t] = "call" /\ k'[t] = 1
      <4>1. pc'[t] \notin OwnLabels \cup {"load", "store"}
        BY <3>1 DEF OwnLabels, RunLabels
      <4>2. 1 .. k'[t] - 1 = {}
        BY <3>1
      <4> QED
        BY <4>1, <4>2 DEF Owned, Recording
    <3>2. CASE pc'[t] \notin OwnLabels \cup {"call", "load", "store"}
      BY <3>2 DEF Owned, Requested, Recording, Calling
    <3>3. CASE pc'[t] \in {"load", "store"} /\ ~Running(t)'
      BY <3>3 DEF Owned, Requested, Recording, Calling, OwnLabels, RunLabels
    <3> QED
      BY <1>2, <3>1, <3>2, <3>3
  <2>2. CASE Owned(t)' = {}
    BY <1>2, <2>2
  <2>3. CASE ip'[t] = ip[t] /\ Recording(t) /\ pc[t] # "call" /\ pc'[t] # "call"
    <3>1. Owned(t) = 1 .. Len(Call(t).reqs) /\ Call(t)' = Call(t)
      BY <2>3 DEF Owned, Requested, Calling, Call
    <3>2. m \in 1 .. Len(Call(t)'.reqs)
      BY <1>2, <2>3 DEF Owned, Requested, Calling
    <3> QED
      BY <1>2, <3>1, <3>2 DEF OwnLive
  <2> QED
    BY <2>1, <2>2, <2>3
<1> QED
  BY <1>1, <1>2

\* The construction of a request.
LEMMA OwnNew ==
  ASSUME TypeInv, OwnLive, NEW t \in Procs, NewRequest(t)
  PROVE  OwnLive'
<1>a. /\ pc \in [Threads -> CallerLabels \cup WriterLabels \cup ReaderLabels]
      /\ k \in [Threads -> Nat \ {0}] /\ t \in Threads /\ t \in Workers /\ Only(t)
      /\ Requested(t) /\ pc[t] = "call" /\ Placed /\ LoopInv /\ k[t] \in Nat \ {0}
  BY OnlyCaller DEF TypeInv, Placed, LoopInv, Workers, Threads, NewRequest, Caller,
     Requested, Calling
<1>1. /\ k[t] \in 1 .. Len(Call(t).reqs) /\ Current(t) = Call(t).reqs[k[t]]
      /\ Requests(t) = Call(t).reqs /\ Len(Call(t).reqs) \in Nat
  BY <1>a, CallLoop DEF InLoop, Requested, Current
<1>2. /\ ip' = ip /\ live' = live \cup {Current(t)}
      /\ \/ pc'[t] = "call" /\ k'[t] = k[t] + 1
         \/ pc'[t] # "call" /\ IsLast(t)
  BY <1>a DEF NewRequest, Iterate
<1> SUFFICES ASSUME NEW u \in Procs, NEW m \in Owned(u)' PROVE Call(u)'.reqs[m] \in live'
  BY DEF OwnLive
<1>3. Call(u)' = Call(u)
  BY <1>2 DEF Call
<1>4. CASE u # t
  <2>1. pc'[u] = pc[u] /\ k'[u] = k[u]
    BY <1>4, <1>a DEF Only, Alone, Workers
  <2>2. Owned(u)' = Owned(u)
    BY <1>2, <1>3, <2>1 DEF Owned, Requested, Recording, Running, Calling
  <2> QED
    BY <1>2, <1>3, <2>2 DEF OwnLive
<1>5. CASE u = t
  <2>1. Owned(t) = 1 .. k[t] - 1
    BY <1>a DEF Owned
  <2>2. m \in 1 .. k[t]
    <3>1. CASE pc'[t] = "call" /\ k'[t] = k[t] + 1
      <4>1. m \in 1 .. k'[t] - 1
        BY <1>5, <3>1 DEF Owned, Recording, OwnLabels, RunLabels
      <4> QED
        BY <1>a, <3>1, <4>1
    <3>2. CASE pc'[t] # "call" /\ IsLast(t)
      <4>1. m \in 1 .. Len(Call(t).reqs)
        BY <1>3, <1>5, <3>2 DEF Owned, Requested, Calling
      <4> QED
        BY <1>1, <1>a, <3>2, <4>1 DEF IsLast
    <3> QED
      BY <1>2, <3>1, <3>2
  <2>3. CASE m = k[t]
    BY <1>1, <1>2, <1>3, <1>5, <2>3
  <2>4. CASE m \in 1 .. k[t] - 1
    BY <1>2, <1>3, <1>5, <2>1, <2>4 DEF OwnLive
  <2> QED
    BY <1>a, <2>2, <2>3, <2>4
<1> QED
  BY <1>4, <1>5

\* A request of another caller is none of those a caller destroys.
LEMMA OwnWait ==
  ASSUME Distinct, TypeInv, OwnLive, NEW t \in Procs, WaitReady(t)
  PROVE  OwnLive'
<1>a. /\ pc \in [Threads -> CallerLabels \cup WriterLabels \cup ReaderLabels]
      /\ k \in [Threads -> Nat \ {0}] /\ t \in Threads /\ t \in Workers /\ Only(t)
      /\ ip \in [Procs -> Nat \ {0}] /\ pc[t] = "wait" /\ Placed
  BY OnlyCaller DEF TypeInv, Placed, LoopInv, Workers, Threads, WaitReady, Caller
<1>1. CASE ~IsLast(t)
  <2>1. live' = live /\ ip'[t] = ip[t] /\ pc'[t] = "wait" /\ Recording(t)
    BY <1>1, <1>a DEF WaitReady, Recording, OwnLabels
  <2> QED
    BY <1>a, <2>1, OwnStep
<1>2. CASE IsLast(t)
  <2>1. /\ live' = live \ SeqSet(Call(t).reqs) /\ pc'[t] = "call" /\ k'[t] = 1
    BY <1>2, <1>a DEF WaitReady
  <2> SUFFICES ASSUME NEW u \in Procs, NEW m \in Owned(u)' PROVE Call(u)'.reqs[m] \in live'
    BY DEF OwnLive
  <2>2. CASE u = t
    <3>1. Owned(t)' = {}
      <4>1. pc'[t] \notin OwnLabels \cup {"load", "store"}
        BY <2>1 DEF OwnLabels, RunLabels
      <4>2. 1 .. k'[t] - 1 = {}
        BY <2>1
      <4> QED
        BY <4>1, <4>2 DEF Owned, Recording
    <3> QED
      BY <2>2, <3>1
  <2>3. CASE u # t
    <3>1. pc'[u] = pc[u] /\ k'[u] = k[u] /\ ip'[u] = ip[u]
      BY <1>a, <2>3 DEF Only, Alone, Workers
    <3>2. Owned(u)' = Owned(u) /\ Call(u)' = Call(u)
      BY <3>1 DEF Owned, Requested, Recording, Running, Calling, Call
    <3>3. Call(u).reqs[m] \in live
      BY <3>2 DEF OwnLive
    <3>4. ip[t] \in Requesting(t) /\ DOMAIN Call(t).reqs = Asked(t, ip[t])
      <4>1. ip[t] <= Len(Program[t]) /\ Call(t).op \in {"reqSync", "run"}
        BY <1>a DEF Placed, FitsCall, Call
      <4>2. Call(t).reqs \in Seq(Req)
        BY <1>a, <4>1, CallRequests DEF Call
      <4> QED
        BY <1>a, <4>1, <4>2, ProgramAssumption DEF Requesting, Asked, Call
    <3>5. ip[u] \in Requesting(u) /\ m \in Asked(u, ip[u])
      <4>1. ip[u] <= Len(Program[u]) /\ Call(u).op \in {"reqSync", "run"}
        <5>1. CASE Requested(u)
          BY <5>1 DEF Requested, Calling
        <5>2. CASE ~Requested(u)
          <6>1. Recording(u)
            BY <5>2, <3>2 DEF Owned
          <6>2. pc[u] \in OwnLabels =>
                  ip[u] <= Len(Program[u]) /\ Call(u).op \in {"reqSync", "run"}
            BY <1>a DEF OwnLabels, RunLabels, Placed, FitsCall, Call
          <6>3. pc[u] \in {"load", "store"} /\ Running(u) =>
                  ip[u] <= Len(Program[u]) /\ Call(u).op \in {"reqSync", "run"}
            BY <1>a DEF Running, Placed, FitsCall, Call
          <6> QED
            BY <6>1, <6>2, <6>3 DEF Recording
        <5> QED
          BY <5>1, <5>2
      <4>2. ip[u] \in Requesting(u) /\ Len(Call(u).reqs) \in Nat /\ ip[u] \in Nat \ {0}
        BY <1>a, <4>1, CallRequests, ProgramAssumption DEF Requesting, Call
      <4>3. m \in 1 .. Len(Call(u).reqs)
        <5>1. CASE Requested(u)
          <6>1. k[u] <= Len(Call(u).reqs) /\ k[u] \in Nat
            <7>1. InLoop(u)
              BY <5>1 DEF Requested, InLoop
            <7> QED
              BY <1>a, <7>1, CallLoop DEF TypeInv
          <6>2. m \in 1 .. k[u] - 1
            BY <3>2, <5>1 DEF Owned
          <6> QED
            BY <4>2, <6>1, <6>2
        <5>2. CASE ~Requested(u)
          BY <3>2, <5>2 DEF Owned
        <5> QED
          BY <5>1, <5>2
      <4>4. Asked(u, ip[u]) = 1 .. Len(Call(u).reqs)
        BY DEF Asked, Call
      <4> QED
        BY <4>2, <4>3, <4>4
    <3>6. Call(u).reqs[m] \notin SeqSet(Call(t).reqs)
      BY <2>3, <3>4, <3>5 DEF Distinct, SeqSet, Call
    <3> QED
      BY <2>1, <3>2, <3>3, <3>6
  <2> QED
    BY <2>2, <2>3
<1> QED
  BY <1>1, <1>2
\* writeRequests constructs and destroys none.
LEMMA OwnWriteRequests ==
  ASSUME TypeInv, OwnLive, NEW t \in Workers, WriteRequests(t)
  PROVE  OwnLive'
<1>a. /\ pc \in [Threads -> CallerLabels \cup WriterLabels \cup ReaderLabels]
      /\ ip \in [Procs -> Nat \ {0}] /\ k \in [Threads -> Nat \ {0}]
      /\ t \in Threads /\ Only(t) /\ Placed /\ (t \in Procs => t # Writer)
  BY OnlyWriteRequests, ThreadAssumption DEF TypeInv, Placed, LoopInv, Workers, Threads
<1>b. Return(t) /\ t \in Procs => pc'[t] = "call" /\ k'[t] = 1
  BY <1>a DEF Return
<1>1. live \subseteq live'
  BY DEF WriteRequests, WriteSpace, WritePop, WritePush, ShortPulseOp, WritePulseCtrl,
     WriteHasRes, WriteSetRes, SetRes, WriteNotify, WriteDefer, LoadWritten,
     StoreWritten, NextWrite
<1>2. CASE WriteSpace(t) \/ WritePop(t)
  <2>1. t \in Procs => \/ pc'[t] = "call" /\ k'[t] = 1
                       \/ pc'[t] \notin OwnLabels \cup {"call", "load", "store"}
    BY <1>2, <1>a, <1>b DEF WriteSpace, WritePop, WriteLabel, OwnLabels, RunLabels
  <2> QED
    BY <1>a, <1>1, <2>1, OwnStep
<1>3. CASE WritePush(t) \/ ShortPulseOp(t, "wr_op", "wr_ctrl") \/ WritePulseCtrl(t)
           \/ WriteSetRes(t)
  <2>1. pc'[t] \notin OwnLabels \cup {"call", "load", "store"}
    BY <1>3, <1>a DEF WritePush, ShortPulseOp, WritePulseCtrl, WriteSetRes, OwnLabels,
       RunLabels
  <2> QED
    BY <1>a, <1>1, <2>1, OwnStep
<1>4. CASE WriteHasRes(t) \/ WriteNotify(t) \/ WriteDefer(t)
  <2>1. NextWrite(t) /\ pc[t] \in WriteLabels
    BY <1>4 DEF WriteHasRes, WriteNotify, WriteDefer, WriteLabels
  <2>2. t \in Procs => ~Running(t)
    BY <1>a, <2>1 DEF Placed, FitsCall, ServeLabels, Running, Call
  <2>3. t \in Procs => \/ pc'[t] = "call" /\ k'[t] = 1
                       \/ pc'[t] \notin OwnLabels \cup {"call", "load", "store"}
                       \/ pc'[t] = "load" /\ UNCHANGED ip
    BY <2>1, <1>a, <1>b DEF NextWrite, WriteLabel, OwnLabels, RunLabels
  <2>4. UNCHANGED ip => Running(t)' = Running(t)
    BY DEF Running, Call
  <2> QED
    BY <1>a, <1>1, <2>2, <2>3, <2>4, OwnStep
<1>5. CASE LoadWritten(t) \/ StoreWritten(t)
  <2>1. CASE Running(t)
    <3>1. /\ ip' = ip /\ Recording(t) /\ pc[t] # "call" /\ pc'[t] # "call"
      BY <1>5, <1>a, <2>1 DEF LoadWritten, StoreWritten, Recording
    <3> QED
      BY <1>a, <1>1, <3>1, OwnStep
  <2>2. CASE ~Running(t)
    <3>1. LoadWritten(t) => pc'[t] = "store" /\ ~Running(t)'
      BY <1>a, <2>2 DEF LoadWritten, Running, Call
    <3>2. StoreWritten(t) => Return(t)
      BY <2>2 DEF StoreWritten
    <3> QED
      BY <1>5, <1>a, <1>b, <1>1, <3>1, <3>2, OwnStep
  <2> QED
    BY <2>1, <2>2
<1> QED
  BY <1>2, <1>3, <1>4, <1>5 DEF WriteRequests

\* Every step keeps a caller's requests alive until it returns.
LEMMA OwnNext ==
  ASSUME Distinct, TypeInv, OwnLive, [Next]_vars
  PROVE  OwnLive'
<1>a. /\ pc \in [Threads -> CallerLabels \cup WriterLabels \cup ReaderLabels]
      /\ ip \in [Procs -> Nat \ {0}] /\ k \in [Threads -> Nat \ {0}] /\ Placed
      /\ Procs \subseteq Threads /\ Writer \in Threads /\ Reader \in Threads
      /\ Writer \in Workers /\ Procs \subseteq Workers
      /\ Writer \notin Procs /\ Reader \notin Procs
  BY ThreadAssumption DEF TypeInv, Placed, LoopInv, Workers, Threads
<1>1. CASE \E t \in Procs : Caller(t)
  <2>1. PICK t \in Procs : Caller(t)
    BY <1>1
  <2>2. Only(t) /\ t \in Threads
    BY <1>a, <2>1, OnlyCaller
  <2>3. CASE NewRequest(t) \/ WaitReady(t) \/ WriteRequests(t)
    BY <1>a, <2>3, OwnNew, OwnWait, OwnWriteRequests
  <2>4. CASE Lock(t) \/ Unlock(t) \/ SetHold(t) \/ WaitFinish(t) \/ PulseCtrl(t) \/ Join(t)
    <3>1. pc'[t] = "call" /\ k'[t] = 1 /\ live' = live
      BY <1>a, <2>2, <2>4 DEF Lock, Unlock, SetHold, WaitFinish, PulseCtrl, Join
    <3> QED
      BY <2>2, <3>1, OwnStep
  <2>5. CASE ReleaseHold(t) \/ Pulse(t) \/ ShortPulseOp(t, "pulse_op", "pulse_ctrl")
             \/ Quit(t) \/ QuitNotify(t)
    <3>1. pc'[t] \notin OwnLabels \cup {"call", "load", "store"} /\ live' = live
      BY <1>a, <2>2, <2>5 DEF ReleaseHold, Pulse, ShortPulseOp, Quit, QuitNotify,
         OwnLabels, RunLabels
    <3> QED
      BY <2>2, <3>1, OwnStep
  <2>6. CASE PushReq(t) \/ PushReqNotify(t) \/ WaitSleep(t)
             \/ RunPush(t) \/ HasResSpace(t) \/ NoResSpace(t) \/ RunIncrement(t)
             \/ ShortPulseOp(t, "run_op", "run_ctrl") \/ RunPulseCtrl(t)
    <3>1. /\ ip'[t] = ip[t] /\ Recording(t) /\ pc[t] # "call" /\ pc'[t] # "call"
          /\ live' = live
      BY <1>a, <2>2, <2>6 DEF PushReq, PushReqNotify, WaitSleep, RunPush, HasResSpace,
         NoResSpace, RunIncrement, ShortPulseOp, RunPulseCtrl, Iterate, Recording,
         OwnLabels, RunLabels
    <3> QED
      BY <2>2, <3>1, OwnStep
  <2> QED
    BY <2>1, <2>3, <2>4, <2>5, <2>6 DEF Caller
<1>2. CASE WriterThread
  <2>1. CASE WriteRequests(Writer)
    BY <1>a, <2>1, OwnWriteRequests
  <2>2. CASE WriterTop \/ WriterSleep \/ WriterWake \/ WriterLock \/ WriterUnlock
    <3>1. live' = live
      BY <2>2 DEF WriterTop, WriterSleep, WriterWake, WriterLock, WriterUnlock
    <3> QED
      BY <1>a, <1>2, <3>1, OnlyWriterThread, OwnStep
  <2> QED
    BY <1>2, <2>1, <2>2 DEF WriterThread
<1>3. CASE ReaderThread
  <2>1. live' = live
    BY <1>3 DEF ReaderThread, ReaderTop, ReaderWake, ReaderCheck, ReaderGoto, ReadResults,
       CountRead, PopResQueue, ReaderNotifyWriter, DumpNotifyQueue, ReaderSetRes, SetRes,
       ReaderNotify
  <2> QED
    BY <1>a, <1>3, <2>1, OnlyReaderThread, OwnStep
<1>4. CASE FpgaExec \/ (\E t \in Threads : SpuriousWake(t)) \/ Terminated \/ UNCHANGED vars
  BY <1>4 DEF FpgaExec, SpuriousWake, Terminated, vars, OwnLive, Owned, Requested, Recording,
     Running, Calling, Call
<1> QED
  BY <1>1, <1>2, <1>3, <1>4 DEF Next

-----------------------------------------------------------------------------
(* Callers that wait for their results                                     *)

\* Thread u has completed request r and is about to notify its condition.
Notifies(u, r) ==
  \/ u \in Workers /\ pc[u] = "wr_notify" /\ Current(u) = r
  \/ u = Reader /\ pc[u] \in {"r_notify", "d_notify"} /\ rd_req[k[u]] = r

CallerWoken ==
  \A u \in c_wait :
    pc[u] = "wait" /\ (Current(u) \in ready => \E v \in Threads : Notifies(v, Current(u)))

\* A thread that does not go on notifies what it notified.
LEMMA NotifiesOther ==
  ASSUME NEW t \in Threads, Only(t), NEW u \in Threads \ {t}, NEW r
  PROVE  Notifies(u, r)' <=> Notifies(u, r)
<1>1. CASE u \in Workers
  <2>1. /\ pc'[u] = pc[u] /\ k'[u] = k[u] /\ batch'[u] = batch[u]
        /\ u # Reader
    BY <1>1, ThreadAssumption DEF Only, Alone, Workers, Threads
  <2>2. pc[u] = "wr_notify" => Current(u)' = Current(u)
    BY <2>1 DEF Current, Requests, WriteLabels
  <2> QED
    BY <2>1, <2>2 DEF Notifies
<1>2. CASE u \notin Workers
  <2>1. u = Reader /\ pc'[u] = pc[u] /\ k'[u] = k[u] /\ rd_req' = rd_req
    BY <1>2 DEF Only, Workers, Threads
  <2> QED
    BY <1>2, <2>1 DEF Notifies
<1> QED
  BY <1>1, <1>2

\* A caller that does not go on waits for the request it waited for.
LEMMA WaitsOn ==
  ASSUME NEW t \in Threads, Only(t), NEW u \in Procs \ {t}
  PROVE  pc'[u] = pc[u] /\ k'[u] = k[u] /\ (pc[u] = "wait" => Current(u)' = Current(u))
<1>1. pc'[u] = pc[u] /\ k'[u] = k[u] /\ ip'[u] = ip[u]
  BY DEF Only, Alone, Workers
<1> QED
  BY <1>1 DEF Current, Requests, WriteLabels, Call

\* A step that leaves asleep only threads for which it completes nothing, or
\* which it is about to notify.
LEMMA CallerStep ==
  ASSUME TypeInv, CallerWoken, NEW t \in Threads, Only(t), c_wait' \subseteq c_wait,
         t \in c_wait => pc[t] # "wait",
         \A u \in c_wait' : u # t /\ Current(u) \in ready' =>
            \/ Current(u) \in ready /\ ~Notifies(t, Current(u))
            \/ Notifies(t, Current(u))'
  PROVE  CallerWoken'
<1> SUFFICES ASSUME NEW u \in c_wait'
             PROVE  /\ pc'[u] = "wait"
                    /\ (Current(u) \in ready => \E v \in Threads : Notifies(v, Current(u)))'
  BY DEF CallerWoken
<1>1. u \in Procs /\ u # t /\ pc[u] = "wait"
  BY DEF CallerWoken, TypeInv, DataTypes, CondTypes
<1>2. pc'[u] = "wait" /\ Current(u)' = Current(u)
  BY <1>1, WaitsOn
<1>3. PICK r : r = Current(u)
  OBVIOUS
<1>4. ASSUME r \in ready'
      PROVE  \E v \in Threads : Notifies(v, r)'
  <2>1. CASE Notifies(t, r)'
    BY <2>1
  <2>2. CASE r \in ready /\ ~Notifies(t, r)
    <3>1. PICK v \in Threads : Notifies(v, r)
      BY <1>3, <2>2 DEF CallerWoken
    <3>2. v # t
      BY <2>2, <3>1
    <3> QED
      BY <3>1, <3>2, NotifiesOther
  <2> QED
    BY <1>1, <1>2, <1>3, <1>4, <2>1, <2>2
<1> QED
  BY <1>2, <1>3, <1>4

\* A step that changes nothing but who is asleep.
LEMMA CallerStill ==
  ASSUME CallerWoken, UNCHANGED <<pc, ip, k, batch, rd_req, ready>>,
         \A u \in c_wait' : u \in c_wait \/ (pc[u] = "wait" /\ Current(u) \notin ready)
  PROVE  CallerWoken'
<1> SUFFICES ASSUME NEW u \in c_wait'
             PROVE  /\ pc'[u] = "wait"
                    /\ (Current(u) \in ready => \E v \in Threads : Notifies(v, Current(u)))'
  BY DEF CallerWoken
<1>1. \A v : Current(v)' = Current(v)
  BY DEF Current, Requests, Call
<1>2. \A v, r : Notifies(v, r)' <=> Notifies(v, r)
  BY <1>1 DEF Notifies
<1>3. /\ pc[u] = "wait"
      /\ Current(u) \in ready => \E v \in Threads : Notifies(v, Current(u))
  BY DEF CallerWoken
<1> QED
  BY <1>1, <1>2, <1>3

\* The request a caller waits for is alive, so its condition is the one that is
\* notified.
LEMMA RightBin ==
  ASSUME TypeInv, OwnLive, CallerWoken, NEW u \in c_wait, NEW r, NEW b \in NotifiedBins(r),
         NotifyBin(b), u \in c_wait'
  PROVE  Current(u) # r
<1>1. u \in Procs /\ pc[u] = "wait"
  BY DEF CallerWoken, TypeInv, DataTypes, CondTypes
<1>2. /\ InLoop(u) /\ Placed /\ LoopInv
  BY <1>1 DEF InLoop, LoopLabels, TypeInv
<1>3. /\ k[u] \in 1 .. Len(Call(u).reqs) /\ Current(u) = Call(u).reqs[k[u]]
  BY <1>1, <1>2, CallLoop DEF Current
<1>4. Owned(u) = 1 .. Len(Call(u).reqs)
  BY <1>1 DEF Owned, Requested, Calling, Recording, OwnLabels
<1>5. Current(u) \in live
  BY <1>1, <1>3, <1>4 DEF OwnLive
<1>6. cond_id[Current(u)] # b
  BY DEF NotifyBin
<1> QED
  BY <1>5, <1>6 DEF NotifiedBins

\* writeRequests notifies whoever waits for what it completed.
LEMMA CallerWriteRequests ==
  ASSUME TypeInv, OwnLive, CallerWoken, NEW t \in Workers, WriteRequests(t)
  PROVE  CallerWoken'
<1>a. /\ pc \in [Threads -> CallerLabels \cup WriterLabels \cup ReaderLabels]
      /\ k \in [Threads -> Nat \ {0}] /\ batch \in [Threads -> Seq(Req)]
      /\ t \in Threads /\ Only(t) /\ t # Reader
      /\ \A u \in c_wait : u \in Procs /\ pc[u] = "wait"
  BY OnlyWriteRequests, ThreadAssumption
     DEF TypeInv, Placed, LoopInv, DataTypes, WriteTypes, CondTypes, CallerWoken, Workers, Threads
<1>b. pc[t] # "wait"
  BY <1>a DEF WriteRequests, WriteSpace, WritePop, WritePush, ShortPulseOp,
     WritePulseCtrl, WriteHasRes, WriteSetRes, WriteNotify, WriteDefer, LoadWritten,
     StoreWritten, Calling
<1>1. CASE WriteSetRes(t)
  <2>1. /\ pc[t] = "wr_check" /\ pc'[t] = "wr_notify" /\ c_wait' = c_wait
        /\ ready' = ready \cup {Current(t)} /\ Current(t)' = Current(t)
    BY <1>1, <1>a DEF WriteSetRes, SetRes, Current, Requests, WriteLabels
  <2>2. ASSUME NEW u \in c_wait', u # t, Current(u) \in ready'
        PROVE  \/ Current(u) \in ready /\ ~Notifies(t, Current(u))
               \/ Notifies(t, Current(u))'
    <3>1. CASE Current(u) = Current(t)
      <4>1. Current(u)' = Current(u)
        BY <1>a, <2>1, <2>2, WaitsOn
      <4>2. Notifies(t, Current(u))'
        BY <2>1, <3>1, <4>1 DEF Notifies
      <4> QED
        BY <4>2
    <3>2. CASE Current(u) # Current(t)
      BY <1>a, <2>1, <2>2, <3>2 DEF Notifies
    <3> QED
      BY <3>1, <3>2
  <2> QED
    BY <1>a, <1>b, <2>1, <2>2, CallerStep
<1>2. CASE WriteNotify(t)
  <2>1. PICK b \in NotifiedBins(Current(t)) : NotifyBin(b)
    BY <1>2 DEF WriteNotify
  <2>2. ready' = ready /\ c_wait' \subseteq c_wait
    BY <1>2, <2>1 DEF WriteNotify, NotifyBin
  <2>3. \A u \in c_wait' : ~Notifies(t, Current(u))
    BY <1>a, <2>1, <2>2, RightBin DEF Notifies
  <2> QED
    BY <1>a, <1>b, <2>2, <2>3, CallerStep
<1>3. CASE ~WriteSetRes(t) /\ ~WriteNotify(t)
  <2>1. ready' = ready /\ c_wait' = c_wait /\ pc[t] # "wr_notify"
    BY <1>3, <1>a DEF WriteRequests, WriteSpace, WritePop, WritePush, ShortPulseOp,
       WritePulseCtrl, WriteHasRes, WriteDefer, LoadWritten, StoreWritten, Calling
  <2> QED
    BY <1>a, <1>b, <2>1, CallerStep DEF Notifies
<1> QED
  BY <1>1, <1>2, <1>3

\* So does the reader.
LEMMA CallerReader ==
  ASSUME TypeInv, OwnLive, CallerWoken, ReaderThread
  PROVE  CallerWoken'
<1>a. /\ pc \in [Threads -> CallerLabels \cup WriterLabels \cup ReaderLabels]
      /\ Reader \in Threads /\ Reader \notin Workers /\ Only(Reader)
      /\ \A u \in c_wait : u \in Procs /\ pc[u] = "wait"
      /\ Reader \notin c_wait
  BY OnlyReaderThread, ThreadAssumption
     DEF TypeInv, Placed, DataTypes, CondTypes, CallerWoken, Workers, Threads
<1>1. CASE ReaderSetRes("r_set", "r_notify") \/ ReaderSetRes("d_set", "d_notify")
  <2>1. /\ pc[Reader] \in {"r_set", "d_set"} /\ pc'[Reader] \in {"r_notify", "d_notify"}
        /\ c_wait' = c_wait /\ ready' = ready \cup {rd_req[k[Reader]]}
        /\ UNCHANGED <<rd_req, k>>
    BY <1>1, <1>a DEF ReaderSetRes, SetRes
  <2>2. ASSUME NEW u \in c_wait', u # Reader, Current(u) \in ready'
        PROVE  \/ Current(u) \in ready /\ ~Notifies(Reader, Current(u))
               \/ Notifies(Reader, Current(u))'
    <3>1. CASE Current(u) = rd_req[k[Reader]]
      <4>1. Current(u)' = Current(u)
        BY <1>a, <2>1, <2>2, WaitsOn
      <4>2. Notifies(Reader, Current(u))'
        BY <2>1, <3>1, <4>1 DEF Notifies
      <4> QED
        BY <4>2
    <3>2. CASE Current(u) # rd_req[k[Reader]]
      BY <1>a, <2>1, <2>2, <3>2 DEF Notifies
    <3> QED
      BY <3>1, <3>2
  <2> QED
    BY <1>a, <2>1, <2>2, CallerStep
<1>2. CASE ReaderNotify("r_notify", "r_set", "r_check") \/ ReaderNotify("d_notify", "d_set", "r_top")
  <2>1. PICK b \in NotifiedBins(rd_req[k[Reader]]) : NotifyBin(b)
    BY <1>2 DEF ReaderNotify
  <2>2. ready' = ready /\ c_wait' \subseteq c_wait
    BY <1>2, <2>1 DEF ReaderNotify, NotifyBin
  <2>3. \A u \in c_wait' : ~Notifies(Reader, Current(u))
    BY <1>a, <2>1, <2>2, RightBin DEF Notifies
  <2> QED
    BY <1>a, <2>2, <2>3, CallerStep
<1>3. CASE ReaderTop \/ ReaderWake \/ ReaderCheck \/ ReadResults \/ CountRead
           \/ PopResQueue \/ ReaderNotifyWriter \/ DumpNotifyQueue
  <2>1. ready' = ready /\ c_wait' = c_wait /\ pc[Reader] \notin {"r_notify", "d_notify"}
    BY <1>3 DEF ReaderTop, ReaderWake, ReaderCheck, ReaderGoto, ReadResults, CountRead,
       PopResQueue, ReaderNotifyWriter, NotifyWriterCond, DumpNotifyQueue
  <2> QED
    BY <1>a, <2>1, CallerStep DEF Notifies
<1> QED
  BY <1>1, <1>2, <1>3 DEF ReaderThread

\* Every step keeps a completed request from leaving its caller asleep.
LEMMA CallerNext ==
  ASSUME TypeInv, OwnLive, CallerWoken, [Next]_vars
  PROVE  CallerWoken'
<1>a. /\ Procs \subseteq Threads /\ Writer \in Threads
      /\ Writer \in Workers /\ Procs \subseteq Workers
      /\ Writer \notin Procs /\ Reader \notin Procs /\ Writer # Reader
      /\ \A u \in c_wait : u \in Procs /\ pc[u] = "wait"
  BY ThreadAssumption DEF TypeInv, DataTypes, CondTypes, CallerWoken, Workers, Threads
<1>1. CASE \E t \in Procs : Caller(t)
  <2>1. PICK t \in Procs : Caller(t)
    BY <1>1
  <2>2. Only(t) /\ t \in Threads
    BY <1>a, <2>1, OnlyCaller
  <2>3. CASE WriteRequests(t)
    BY <1>a, <2>3, CallerWriteRequests
  <2>4. CASE WaitSleep(t)
    <3>1. c_wait' = c_wait \cup {t} /\ pc[t] = "wait" /\ Current(t) \notin ready
      BY <2>4 DEF WaitSleep
    <3>2. UNCHANGED <<pc, ip, k, batch, rd_req, ready>>
      BY <2>4 DEF WaitSleep
    <3> QED
      BY <3>1, <3>2, CallerStill
  <2>5. CASE ~WriteRequests(t) /\ ~WaitSleep(t)
    <3>1. /\ ready' \subseteq ready /\ c_wait' = c_wait /\ pc[t] # "wr_notify"
          /\ pc[t] = "wait" => t \notin c_wait
      BY <2>1, <2>5 DEF Caller, Lock, Unlock, SetHold, ReleaseHold, WaitFinish, Pulse,
         ShortPulseOp, PulseCtrl, NewRequest, PushReq, PushReqNotify, NotifyWriterCond,
         WaitReady, RunPush, HasResSpace, NoResSpace, RunIncrement, RunPulseCtrl, Quit,
         QuitNotify, Join, Calling
    <3> QED
      BY <1>a, <2>2, <3>1, CallerStep DEF Notifies
  <2> QED
    BY <2>3, <2>4, <2>5
<1>2. CASE WriterThread
  <2>1. CASE WriteRequests(Writer)
    BY <1>a, <2>1, CallerWriteRequests
  <2>2. CASE WriterTop \/ WriterSleep \/ WriterWake \/ WriterLock \/ WriterUnlock
    <3>1. ready' = ready /\ c_wait' = c_wait /\ pc[Writer] # "wr_notify"
      BY <2>2 DEF WriterTop, WriterSleep, WriterWake, WriterLock, WriterUnlock
    <3> QED
      BY <1>a, <1>2, <3>1, OnlyWriterThread, CallerStep DEF Notifies
  <2> QED
    BY <1>2, <2>1, <2>2 DEF WriterThread
<1>3. CASE ReaderThread
  BY <1>3, CallerReader
<1>4. CASE FpgaExec \/ (\E t \in Threads : SpuriousWake(t)) \/ Terminated \/ UNCHANGED vars
  <2>1. UNCHANGED <<pc, ip, k, batch, rd_req, ready>> /\ c_wait' \subseteq c_wait
    BY <1>4 DEF FpgaExec, SpuriousWake, Terminated, vars
  <2> QED
    BY <2>1, CallerStill
<1> QED
  BY <1>1, <1>2, <1>3, <1>4 DEF Next

-----------------------------------------------------------------------------
(* Threads that wait for work, or for room for their results               *)

\* Thread u is about to notify m_writer_cond.
Waking(u) ==
  \/ u \in Procs /\ pc[u] \in {"pushn", "q_notify"}
  \/ u = Reader /\ pc[u] \in {"r_pop", "r_wake"}

\* What u waits for, on m_writer_cond, has come true.
Due(u) == IF u = Writer THEN WriterHasWork ELSE resBuffSpace >= Len(Call(u).reqs)

Asleep(u) == (u = Writer /\ pc[u] = "w_wait") \/ (u \in Procs /\ pc[u] = "run_space")

WriterWoken ==
  \A u \in w_wait : Asleep(u) /\ (Due(u) => \E v \in Threads : Waking(v))

\* Waiting threads see the same counters, queue and flag.
LEMMA DueSame ==
  ASSUME UNCHANGED <<m_quit, m_num_read, m_num_written, m_req_queue>>,
         NEW u, u \in Procs => ip'[u] = ip[u]
  PROVE  u \in Workers => (Due(u)' <=> Due(u))
<1>1. resBuffSpace' = resBuffSpace /\ WriterHasWork' = WriterHasWork
  BY DEF resBuffSpace, WriterHasWork, Signed, Count
<1>2. u \in Procs => Call(u)' = Call(u)
  BY DEF Call
<1> QED
  BY <1>1, <1>2 DEF Due, Workers

\* A step of t, which is not asleep.
LEMMA WakerStep ==
  ASSUME WriterWoken, NEW t \in Threads, Only(t), w_wait' \subseteq w_wait \ {t},
         \/ Waking(t)'
         \/ ~Waking(t) /\ \A u \in w_wait' : Due(u)' => Due(u)
  PROVE  WriterWoken'
<1>a. Writer \notin Procs /\ Reader \notin Workers /\ Workers \subseteq Threads
  BY ThreadAssumption DEF Workers, Threads
<1> SUFFICES ASSUME NEW u \in w_wait'
             PROVE  Asleep(u)' /\ (Due(u)' => \E v \in Threads : Waking(v)')
  BY DEF WriterWoken
<1>1. Asleep(u) /\ u # t /\ u \in Workers
  BY DEF WriterWoken, Asleep, Workers
<1>2. Asleep(u)'
  BY <1>1 DEF Only, Alone, Asleep
<1>3. ASSUME NEW v \in Threads \ {t} PROVE Waking(v)' <=> Waking(v)
  BY <1>a, <1>3 DEF Only, Alone, Waking, Workers, Threads
<1>4. ASSUME Due(u)' PROVE \E v \in Threads : Waking(v)'
  <2>1. CASE ~Waking(t) /\ Due(u)
    BY <1>3, <2>1 DEF WriterWoken
  <2> QED
    BY <1>4, <2>1
<1> QED
  BY <1>2, <1>4

\* A step that changes no condition anyone waits for.
LEMMA WakerSame ==
  ASSUME WriterWoken, NEW t \in Threads, Only(t), w_wait' \subseteq w_wait \ {t},
         ~Waking(t), UNCHANGED <<m_quit, m_num_read, m_num_written, m_req_queue>>
  PROVE  WriterWoken'
<1>1. ASSUME NEW u \in w_wait' PROVE Due(u)' => Due(u)
  <2>1. u \in Workers /\ u # t
    BY <1>1 DEF WriterWoken, Asleep, Workers
  <2>2. u \in Procs => ip'[u] = ip[u]
    BY <2>1 DEF Only, Alone
  <2> QED
    BY <2>1, <2>2, DueSame
<1> QED
  BY <1>1, WakerStep

\* A step that changes nothing but who is asleep.
LEMMA WakerStill ==
  ASSUME WriterWoken,
         UNCHANGED <<pc, ip, m_quit, m_num_read, m_num_written, m_req_queue>>,
         \A u \in w_wait' : u \in w_wait \/ (Asleep(u) /\ ~Due(u))
  PROVE  WriterWoken'
<1> SUFFICES ASSUME NEW u \in w_wait'
             PROVE  Asleep(u)' /\ (Due(u)' => \E v \in Threads : Waking(v)')
  BY DEF WriterWoken
<1>1. Asleep(u) /\ (Due(u) => \E v \in Threads : Waking(v))
  BY DEF WriterWoken
<1>2. Asleep(u)' /\ \A v : Waking(v)' <=> Waking(v)
  BY <1>1 DEF Asleep, Waking
<1>3. Due(u)' <=> Due(u)
  BY <1>1, DueSame DEF Asleep, Workers
<1> QED
  BY <1>1, <1>2, <1>3

\* When results are counted as written, the room resBuffSpace finds shrinks: the
\* counters are off by the results that are not counted, but never so far that
\* the difference turns negative.
LEMMA SpaceShrinks ==
  ASSUME Disciplined, Wide, TypeInv, LockInv, CountInv, NretInv, NEW t \in Workers,
         RunIncrement(t) \/ StoreWritten(t)
  PROVE  resBuffSpace \in Int /\ resBuffSpace' \in Int /\ resBuffSpace' <= resBuffSpace
<1>a. /\ pc[t] \in {"run_inc", "store"} /\ Placed /\ t \in Threads
      /\ MaxWrite \in Nat \ {0} /\ Word \in Nat /\ Word > 4 * MaxWrite
      /\ m_num_written \in Int /\ m_num_read \in Int /\ nret[t] \in Nat
      /\ Outstanding \in Nat /\ Planned(t) \in Nat
  BY CountsTypes, BoundAssumption
     DEF RunIncrement, StoreWritten, TypeInv, Workers, Threads, Wide
<1>1. Balanced(t) /\ Local(t)
  BY <1>a, WorkHolder DEF CountInv, WorkLabels, CountLabels, TypeInv
<1>2. Uncounted(t) \in 0 .. MaxWrite
  <2>1. CASE pc[t] = "run_inc"
    BY <1>a, <2>1 DEF Uncounted
  <2>2. CASE pc[t] = "store" /\ Running(t)
    <3>1. t \in Procs /\ ip[t] \in DOMAIN Program[t] /\ Call(t).op = "run"
      BY <1>a, <2>2, ProgramAssumption DEF Running, Placed, FitsCall, Workers, Call
    <3>2. Len(Call(t).reqs) \in Nat
      BY <1>a, <3>1, <2>2, CallRequests DEF Placed, FitsCall, Call
    <3>3. Len(Call(t).reqs) <= MaxWrite
      BY <3>1, ProgramAssumption DEF Call
    <3> QED
      BY <1>a, <2>2, <3>2, <3>3 DEF Uncounted
  <2>3. CASE pc[t] = "store" /\ ~Running(t)
    <3>1. Uncounted(t) = nret[t]
      BY <2>3 DEF Uncounted
    <3>2. nret[t] <= MaxWrite
      BY <2>3 DEF NretInv, WriteLabels
    <3> QED
      BY <1>a, <3>1, <3>2
  <2> QED
    BY <1>a, <2>1, <2>2, <2>3
<1>3. m_num_written' = Count(m_num_written + Uncounted(t)) /\ m_num_read' = m_num_read
  <2>1. CASE RunIncrement(t)
    BY <2>1 DEF RunIncrement, Uncounted
  <2>2. CASE StoreWritten(t)
    BY <1>1, <2>2 DEF StoreWritten, Uncounted, Local
  <2> QED
    BY <2>1, <2>2
<1>4. PICK u \in 0 .. MaxWrite : u = Uncounted(t)
  BY <1>2
<1>5. PICK o \in 0 .. MaxWrite : o = Outstanding
  BY <1>1, <1>a DEF Balanced
<1>6. Count(m_num_written + u - m_num_read) = o
  BY <1>1, <1>4, <1>5 DEF Balanced
<1>7. PICK q \in Int : m_num_written + u - m_num_read = o + q * Word
  <2>1. m_num_written + u - m_num_read \in Int
    BY <1>a
  <2> QED
    BY <1>6, <2>1, CountTurns
<1>8. PICK w \in Int : w = m_num_written'
  BY <1>3, <1>4, <1>a, CountTurns
<1>9. PICK p \in Int : m_num_written + u = w + p * Word
  <2>1. m_num_written + u \in Int
    BY <1>a
  <2> QED
    BY <1>3, <1>4, <1>8, <2>1, CountTurns
<1>10. ASSUME NEW n \in 0 .. 2 * MaxWrite, NEW x \in Int
       PROVE  Signed(n + x * Word) = n
  <2>1. n \in 0 .. Word - 1
    BY <1>a
  <2>2. Count(n + x * Word) = n
    BY <2>1, CountUnique
  <2> QED
    BY <1>a, <2>2 DEF Signed
<1>11. resBuffSpace = MaxWrite + u - o
  <2>a. PICK y \in Int : y = q * Word /\ -y = (-q) * Word
    BY <1>a
  <2>b. m_num_written + u - m_num_read = o + y
    BY <1>7, <2>a
  <2>c. MaxWrite - m_num_written + m_num_read = (MaxWrite + u - o) + (-y)
    BY <1>a, <2>b
  <2>1. MaxWrite - m_num_written + m_num_read = (MaxWrite + u - o) + (-q) * Word
    BY <2>a, <2>c
  <2>2. MaxWrite + u - o \in 0 .. 2 * MaxWrite /\ -q \in Int
    BY <1>a
  <2> QED
    BY <1>10, <2>1, <2>2 DEF resBuffSpace
<1>12. resBuffSpace' = MaxWrite - o
  <2>a. PICK x \in Int, y \in Int : x = p * Word /\ y = q * Word /\ x - y = (p - q) * Word
    BY <1>a
  <2>b. m_num_written + u = w + x /\ m_num_written + u - m_num_read = o + y
    BY <1>7, <1>9, <2>a
  <2>c. MaxWrite - w + m_num_read = (MaxWrite - o) + (x - y)
    BY <1>a, <2>b
  <2>1. MaxWrite - w + m_num_read = (MaxWrite - o) + (p - q) * Word
    BY <2>a, <2>c
  <2>2. MaxWrite - o \in 0 .. 2 * MaxWrite /\ p - q \in Int
    BY <1>a
  <2>3. Signed(MaxWrite - w + m_num_read) = MaxWrite - o
    BY <1>10, <2>1, <2>2
  <2>4. resBuffSpace' = Signed(MaxWrite - w + m_num_read)
    BY <1>3, <1>8 DEF resBuffSpace, Signed, Count
  <2> QED
    BY <2>3, <2>4
<1> QED
  BY <1>a, <1>11, <1>12

\* Whoever counts results holds the lock, so no caller waits for room meanwhile,
\* and the writer thread's condition does not come true.
LEMMA WakerCount ==
  ASSUME Disciplined, Wide, TypeInv, LockInv, CountInv, NretInv, WriterWoken,
         NEW t \in Workers, RunIncrement(t) \/ StoreWritten(t), Only(t)
  PROVE  WriterWoken'
<1>a. pc[t] \in {"run_inc", "store"} /\ Placed /\ t \in Threads /\ t # Reader
  BY ThreadAssumption DEF RunIncrement, StoreWritten, TypeInv, Workers, Threads
<1>1. w_wait' = w_wait /\ m_quit' = m_quit /\ m_req_queue' = m_req_queue
  BY DEF RunIncrement, StoreWritten
<1>2. ~Waking(t) /\ t \notin w_wait
  BY <1>a DEF Waking, WriterWoken, Asleep
<1>3. ASSUME NEW u \in w_wait' PROVE u = Writer
  <2>1. CASE u \in Procs /\ pc[u] = "run_space"
    <3>1. m_lock = u
      BY <1>a, <2>1, WorkHolder DEF Workers
    <3>2. m_lock = t
      BY <1>a, WorkHolder DEF WorkLabels, CountLabels
    <3> QED
      BY <1>1, <1>2, <1>3, <3>1, <3>2
  <2> QED
    BY <1>1, <1>3, <2>1 DEF WriterWoken, Asleep
<1>4. WriterHasWork' => WriterHasWork
  <2>1. resBuffSpace' > 0 => resBuffSpace > 0
    BY SpaceShrinks
  <2> QED
    BY <1>1, <2>1 DEF WriterHasWork
<1> QED
  BY <1>a, <1>1, <1>2, <1>3, <1>4, WakerStep DEF Due

\* writeRequests only takes room and work away.
LEMMA WakerWriteRequests ==
  ASSUME Disciplined, Wide, TypeInv, LockInv, CountInv, NretInv, WriterWoken,
         NEW t \in Workers, WriteRequests(t)
  PROVE  WriterWoken'
<1>a. /\ pc \in [Threads -> CallerLabels \cup WriterLabels \cup ReaderLabels]
      /\ t \in Threads /\ Only(t) /\ t # Reader
  BY OnlyWriteRequests, ThreadAssumption DEF TypeInv, Placed, Workers, Threads
<1>1. CASE StoreWritten(t)
  BY <1>a, <1>1, WakerCount
<1>b. ASSUME ~StoreWritten(t)
      PROVE  w_wait' = w_wait /\ pc[t] \notin {"w_wait", "run_space", "pushn", "q_notify"}
  BY <1>a, <1>b DEF WriteRequests, WriteSpace, WritePop, WritePush, ShortPulseOp,
     WritePulseCtrl, WriteHasRes, WriteSetRes, WriteNotify, NotifyBin, WriteDefer,
     LoadWritten, Calling
<1>c. ASSUME ~StoreWritten(t)
      PROVE  w_wait' \subseteq w_wait \ {t} /\ ~Waking(t)
  BY <1>a, <1>b, <1>c DEF WriterWoken, Asleep, Waking
<1>2. CASE WritePop(t) /\ ~StoreWritten(t)
  <2>1. UNCHANGED <<m_quit, m_num_read, m_num_written>>
    BY <1>2 DEF WritePop
  <2>2. m_req_queue' # <<>> => m_req_queue # <<>>
    <3>1. room[t] \in Nat /\ m_req_queue \in Seq(Req)
      BY <1>a DEF TypeInv, DataTypes, WriteTypes, QueueTypes
    <3>2. PICK n \in 0 .. Len(m_req_queue) : m_req_queue' = Drop(m_req_queue, n)
      BY <1>2, <3>1, MinOfLength DEF WritePop
    <3>3. /\ Drop(m_req_queue, n) \in Seq(Req) /\ Len(m_req_queue) \in Nat
          /\ Len(Drop(m_req_queue, n)) = Len(m_req_queue) - n
      BY <3>1, TakeDrop, LenProperties
    <3>4. m_req_queue = <<>> => Len(Drop(m_req_queue, n)) = 0
      BY <3>1, <3>3, EmptySeq
    <3> QED
      BY <3>2, <3>3, <3>4, EmptySeq
  <2>3. WriterHasWork' => WriterHasWork
    BY <2>1, <2>2 DEF WriterHasWork, resBuffSpace, Signed, Count
  <2>4. ASSUME NEW u \in w_wait', u # Writer PROVE Due(u)' => Due(u)
    <3>1. u \in Procs /\ u # t
      BY <1>2, <1>c, <2>4 DEF WriterWoken, Asleep
    <3>2. Call(u)' = Call(u)
      BY <3>1, <1>a DEF Only, Alone, Call, Workers
    <3> QED
      BY <2>1, <2>4, <3>2 DEF Due, resBuffSpace, Signed, Count
  <2> QED
    BY <1>a, <1>2, <1>c, <2>3, <2>4, WakerStep DEF Due
<1>3. CASE ~WritePop(t) /\ ~StoreWritten(t)
  <2>1. UNCHANGED <<m_quit, m_num_read, m_num_written, m_req_queue>>
    BY <1>3 DEF WriteRequests, WriteSpace, WritePush, ShortPulseOp, WritePulseCtrl,
       WriteHasRes, WriteSetRes, WriteNotify, WriteDefer, LoadWritten
  <2> QED
    BY <1>a, <1>3, <1>c, <2>1, WakerSame
<1> QED
  BY <1>1, <1>2, <1>3

\* A caller that adds work is at the label that notifies.
LEMMA WakerCaller ==
  ASSUME Disciplined, Wide, TypeInv, LockInv, CountInv, NretInv, WriterWoken,
         NEW t \in Procs, Caller(t)
  PROVE  WriterWoken'
<1>a. /\ pc \in [Threads -> CallerLabels \cup WriterLabels \cup ReaderLabels]
      /\ t \in Threads /\ t \in Workers /\ Only(t) /\ t # Writer /\ t # Reader
  BY OnlyCaller, ThreadAssumption DEF TypeInv, Placed, Workers, Threads
<1>1. CASE WriteRequests(t)
  BY <1>a, <1>1, WakerWriteRequests
<1>2. CASE RunIncrement(t)
  BY <1>a, <1>2, WakerCount
<1>3. CASE PushReq(t) \/ Quit(t)
  <2>1. w_wait' = w_wait /\ pc[t] \in {"push", "call"} /\ pc'[t] \in {"pushn", "q_notify"}
    BY <1>3, <1>a DEF PushReq, Quit, Calling
  <2>2. t \notin w_wait /\ Waking(t)'
    BY <1>a, <2>1 DEF WriterWoken, Asleep, Waking
  <2> QED
    BY <1>a, <2>1, <2>2, WakerStep
<1>4. CASE PushReqNotify(t) \/ QuitNotify(t)
  BY <1>4 DEF PushReqNotify, QuitNotify, NotifyWriterCond, WriterWoken
<1>5. CASE NoResSpace(t)
  <2>1. w_wait' = w_wait \cup {t} /\ pc[t] = "run_space"
    BY <1>5 DEF NoResSpace
  <2>2. Len(Call(t).reqs) \in Nat /\ resBuffSpace \in Int
    BY <2>1, CallRequests, SpaceTypes
       DEF TypeInv, DataTypes, Placed, FitsCall, RunLabels, Call
  <2>3. Asleep(t) /\ ~Due(t)
    BY <1>a, <1>5, <2>1, <2>2 DEF NoResSpace, Asleep, Due
  <2>4. UNCHANGED <<pc, ip, m_quit, m_num_read, m_num_written, m_req_queue>>
    BY <1>5 DEF NoResSpace
  <2> QED
    BY <2>1, <2>3, <2>4, WakerStill
<1>6. CASE Lock(t) \/ Unlock(t) \/ SetHold(t) \/ ReleaseHold(t) \/ WaitFinish(t)
           \/ Pulse(t) \/ ShortPulseOp(t, "pulse_op", "pulse_ctrl") \/ PulseCtrl(t)
           \/ NewRequest(t) \/ WaitSleep(t) \/ WaitReady(t) \/ RunPush(t)
           \/ HasResSpace(t) \/ ShortPulseOp(t, "run_op", "run_ctrl") \/ RunPulseCtrl(t)
           \/ Join(t)
  <2>1. /\ UNCHANGED <<m_quit, m_num_read, m_num_written, m_req_queue>> /\ w_wait' = w_wait
        /\ pc[t] \notin {"pushn", "q_notify"}
        /\ pc[t] = "run_space" => t \notin w_wait
    BY <1>6 DEF Lock, Unlock, SetHold, ReleaseHold, WaitFinish, Pulse, ShortPulseOp,
       PulseCtrl, NewRequest, WaitSleep, WaitReady, RunPush, HasResSpace, RunPulseCtrl,
       Join, Calling
  <2>2. ~Waking(t) /\ t \notin w_wait
    BY <1>a, <2>1 DEF Waking, WriterWoken, Asleep
  <2> QED
    BY <1>a, <2>1, <2>2, WakerSame
<1> QED
  BY <1>1, <1>2, <1>3, <1>4, <1>5, <1>6 DEF Caller

\* So is the reader when it adds room.
LEMMA WakerReader ==
  ASSUME TypeInv, WriterWoken, ReaderThread
  PROVE  WriterWoken'
<1>a. /\ pc \in [Threads -> CallerLabels \cup WriterLabels \cup ReaderLabels]
      /\ Reader \in Threads /\ Reader \notin Workers /\ Only(Reader)
  BY OnlyReaderThread, ThreadAssumption DEF TypeInv, Placed, Workers, Threads
<1>b. Reader \notin w_wait
  BY <1>a DEF WriterWoken, Asleep, Workers
<1>1. CASE CountRead \/ PopResQueue
  <2>1. w_wait' = w_wait /\ pc'[Reader] \in {"r_pop", "r_wake"}
    BY <1>1, <1>a DEF CountRead, PopResQueue
  <2> QED
    BY <1>a, <1>b, <2>1, WakerStep DEF Waking
<1>2. CASE ReaderNotifyWriter
  BY <1>2 DEF ReaderNotifyWriter, NotifyWriterCond, WriterWoken
<1>3. CASE ReaderTop \/ ReaderWake \/ ReaderCheck \/ ReadResults \/ DumpNotifyQueue
           \/ ReaderSetRes("r_set", "r_notify") \/ ReaderNotify("r_notify", "r_set", "r_check")
           \/ ReaderSetRes("d_set", "d_notify") \/ ReaderNotify("d_notify", "d_set", "r_top")
  <2>1. /\ UNCHANGED <<m_quit, m_num_read, m_num_written, m_req_queue>> /\ w_wait' = w_wait
        /\ pc[Reader] \notin {"r_pop", "r_wake"}
    BY <1>3 DEF ReaderTop, ReaderWake, ReaderCheck, ReaderGoto, ReadResults, DumpNotifyQueue,
       ReaderSetRes, ReaderNotify, NotifyBin
  <2>2. ~Waking(Reader)
    BY <1>a, <2>1 DEF Waking, Workers
  <2> QED
    BY <1>a, <1>b, <2>1, <2>2, WakerSame
<1> QED
  BY <1>1, <1>2, <1>3 DEF ReaderThread

\* Every step keeps work or room from leaving a thread asleep.
LEMMA WakerNext ==
  ASSUME Disciplined, Wide, TypeInv, LockInv, CountInv, NretInv, WriterWoken, [Next]_vars
  PROVE  WriterWoken'
<1>a. Writer \in Workers /\ Writer \in Threads /\ Writer \notin Procs /\ Writer # Reader
  BY ThreadAssumption DEF Workers, Threads
<1>1. CASE \E t \in Procs : Caller(t)
  BY <1>1, WakerCaller
<1>2. CASE WriterThread
  <2>1. CASE WriteRequests(Writer)
    BY <1>a, <2>1, WakerWriteRequests
  <2>2. CASE WriterSleep
    <3>1. /\ UNCHANGED <<pc, ip, m_quit, m_num_read, m_num_written, m_req_queue>>
          /\ w_wait' = w_wait \cup {Writer} /\ pc[Writer] = "w_wait" /\ ~WriterHasWork
      BY <2>2 DEF WriterSleep
    <3> QED
      BY <3>1, WakerStill DEF Asleep, Due
  <2>3. CASE WriterTop \/ WriterWake \/ WriterLock \/ WriterUnlock
    <3>1. /\ UNCHANGED <<m_quit, m_num_read, m_num_written, m_req_queue>> /\ w_wait' = w_wait
          /\ pc[Writer] = "w_wait" => Writer \notin w_wait
      BY <2>3 DEF WriterTop, WriterWake, WriterLock, WriterUnlock
    <3>2. ~Waking(Writer) /\ Writer \notin w_wait
      BY <1>a, <3>1 DEF Waking, WriterWoken, Asleep
    <3> QED
      BY <1>a, <1>2, <3>1, <3>2, OnlyWriterThread, WakerSame
  <2> QED
    BY <1>2, <2>1, <2>2, <2>3 DEF WriterThread
<1>3. CASE ReaderThread
  BY <1>3, WakerReader
<1>4. CASE FpgaExec \/ (\E t \in Threads : SpuriousWake(t)) \/ Terminated \/ UNCHANGED vars
  <2>1. /\ UNCHANGED <<pc, ip, m_quit, m_num_read, m_num_written, m_req_queue>>
        /\ w_wait' \subseteq w_wait
    BY <1>4 DEF FpgaExec, SpuriousWake, Terminated, vars
  <2> QED
    BY <2>1, WakerStill
<1> QED
  BY <1>1, <1>2, <1>3, <1>4 DEF Next

\* NoLostWakeup: whatever the threads, programs and bounds, no thread sleeps on
\* a condition that has come true unless its notification is under way: a caller
\* is woken by the setRes of its request, the writer thread and a caller that
\* waits for room by pushReq, popResults or the destructor.  It needs the lock
\* discipline, a request that no two calls share, and counters wide enough for
\* the room that is found while results are not yet counted.
THEOREM WakeupsAreKept ==
  Disciplined /\ Distinct /\ Wide => (Spec => []NoLostWakeup)
<1> SUFFICES ASSUME Disciplined, Distinct, Wide PROVE Spec => []NoLostWakeup
  OBVIOUS
<1> DEFINE IInv == RoomInv /\ NretInv /\ OwnLive /\ CallerWoken /\ WriterWoken
<1>1. Init => IInv
  <2> SUFFICES ASSUME Init PROVE IInv
    OBVIOUS
  <2>1. RoomInv
    BY RoomInductive
  <2>2. NretInv
    BY BoundAssumption DEF NretInv, Init, WriteLabels, Workers, Threads
  <2>3. OwnLive
    BY DEF OwnLive, Init, Owned, Requested, Recording, OwnLabels, RunLabels, Threads
  <2>4. CallerWoken /\ WriterWoken
    BY DEF CallerWoken, WriterWoken, Init
  <2> QED
    BY <2>1, <2>2, <2>3, <2>4
<1>2. IInv /\ [Next]_vars => IInv'
  <2> SUFFICES ASSUME IInv, [Next]_vars PROVE IInv'
    OBVIOUS
  <2>1. TypeInv /\ LockInv /\ CountInv
    BY DEF RoomInv
  <2>2. RoomInv'
    BY RoomInductive
  <2> QED
    BY <2>1, <2>2, NretNext, OwnNext, CallerNext, WakerNext
<1>3. IInv => NoLostWakeup
  <2> SUFFICES ASSUME IInv PROVE NoLostWakeup
    OBVIOUS
  <2>1. Procs \subseteq Threads /\ Reader \in Threads /\ Workers \subseteq Threads
    BY DEF Threads, Workers
  <2>2. \A t \in c_wait : Current(t) \in ready =>
          \/ \E u \in Threads : pc[u] = "wr_notify" /\ Current(u) = Current(t)
          \/ pc[Reader] \in {"r_notify", "d_notify"} /\ rd_req[k[Reader]] = Current(t)
    BY <2>1 DEF CallerWoken, Notifies
  <2>3. \A t \in w_wait :
          (IF t = Writer THEN WriterHasWork ELSE resBuffSpace >= Len(Call(t).reqs)) =>
            \/ \E u \in Threads : pc[u] \in {"pushn", "q_notify"}
            \/ pc[Reader] \in {"r_pop", "r_wake"}
    BY <2>1 DEF WriterWoken, Waking, Due
  <2> QED
    BY <2>2, <2>3 DEF NoLostWakeup
<1> QED
  BY <1>1, <1>2, <1>3, PTL DEF Spec

-----------------------------------------------------------------------------
(* Where a request that is not done is found: in one place                 *)

InSeq(q, i, r) == i \in 1 .. Len(q) /\ q[i] = r

\* What the reader has popped and not completed.
InRead(i, r) ==
  /\ InSeq(rd_req, i, r)
  /\ i > k[Reader] \/ (i = k[Reader] /\ pc[Reader] \notin {"r_notify", "d_notify"})

\* What writeRequests has popped, and not pushed to m_res_queue, deferred or
\* completed.
InBatch(t, i, r) ==
  /\ t \in Workers /\ pc[t] \in WriteLabels /\ InSeq(batch[t], i, r)
  /\ \/ i > k[t]
     \/ i = k[t] /\ (pc[t] = "wr_push" \/ (pc[t] # "wr_notify" /\ ~HasRes[r]))

\* What a caller has constructed and not pushed to a queue.
Unpushed(t) == IF Requested(t) THEN 1 .. k[t] - 1
               ELSE IF pc[t] \in {"push", "run_push"} THEN k[t] .. Len(Call(t).reqs)
               ELSE IF pc[t] = "pushn" THEN k[t] + 1 .. Len(Call(t).reqs)
               ELSE {}

InCall(t, i, r) == t \in Procs /\ i \in Unpushed(t) /\ Call(t).reqs[i] = r

\* Request r is the i-th in place x (of thread t).
Slot(x, t, i, r) ==
  \/ x = "req" /\ t = Reader /\ InSeq(m_req_queue, i, r)
  \/ x = "res" /\ t = Reader /\ InSeq(m_res_queue, i, r)
  \/ x = "notify" /\ t = Reader /\ InSeq(m_notify_queue, i, r)
  \/ x = "read" /\ t = Reader /\ InRead(i, r)
  \/ x = "batch" /\ InBatch(t, i, r)
  \/ x = "call" /\ InCall(t, i, r)

Apart ==
  \A x, y, t, u, i, j, r :
    Slot(x, t, i, r) /\ Slot(y, u, j, r) => x = y /\ t = u /\ i = j

Held == \A x, t, i, r : Slot(x, t, i, r) => r \in live \ ready

PlaceInv == Apart /\ Held

\* A step that moves no request.
LEMMA PlaceShrink ==
  ASSUME PlaceInv,
         \A x, t, i, r : Slot(x, t, i, r)' => Slot(x, t, i, r) /\ r \in live' \ ready'
  PROVE  PlaceInv'
<1>1. Apart'
  BY DEF PlaceInv, Apart
<1>2. Held'
  BY DEF PlaceInv, Held
<1> QED
  BY <1>1, <1>2 DEF PlaceInv

\* A step that moves one request to the end of a queue.
LEMMA PlaceMove ==
  ASSUME PlaceInv, UNCHANGED <<live, ready>>,
         NEW x0, NEW t0, NEW i0, NEW r0, Slot(x0, t0, i0, r0), NEW y0, NEW j0,
         \A x, t, i, r : Slot(x, t, i, r)' =>
            \/ x = y0 /\ t = Reader /\ i = j0 /\ r = r0
            \/ Slot(x, t, i, r) /\ ~(x = x0 /\ t = t0 /\ i = i0)
  PROVE  PlaceInv'
<1>1. Held'
  BY DEF PlaceInv, Held
<1>2. ASSUME NEW x, NEW t, NEW i, NEW r, Slot(x, t, i, r)',
             NEW y, NEW u, NEW j, Slot(y, u, j, r)'
      PROVE  x = y /\ t = u /\ i = j
  <2>1. \/ x = y0 /\ t = Reader /\ i = j0 /\ r = r0
        \/ Slot(x, t, i, r) /\ ~(x = x0 /\ t = t0 /\ i = i0)
    BY <1>2
  <2>2. \/ y = y0 /\ u = Reader /\ j = j0 /\ r = r0
        \/ Slot(y, u, j, r) /\ ~(y = x0 /\ u = t0 /\ j = i0)
    BY <1>2
  <2> QED
    BY <2>1, <2>2 DEF PlaceInv, Apart
<1> QED
  BY <1>1, <1>2 DEF PlaceInv, Apart

\* What is among the first n in a queue, and what is left behind them.
Among(x, n, i, r)  == i \in 1 .. n /\ Slot(x, Reader, i, r)
Behind(x, n, i, r) == i \in Nat \ {0} /\ Slot(x, Reader, i + n, r)

\* The first n of queue x0 become array y0 of thread t0.
Popped(x0, n, y0, t0) ==
  \A x, t, i, r : Slot(x, t, i, r)' =>
    \/ x = y0 /\ t = t0 /\ Among(x0, n, i, r)
    \/ x = x0 /\ t = Reader /\ Behind(x0, n, i, r)
    \/ x # x0 /\ ~(x = y0 /\ t = t0) /\ Slot(x, t, i, r)

\* A step that pops the first n of a queue into the array of a thread.
LEMMA PlacePop ==
  ASSUME PlaceInv, UNCHANGED <<live, ready>>,
         NEW x0, NEW n \in Nat, NEW y0, NEW t0, x0 # y0, Popped(x0, n, y0, t0)
  PROVE  PlaceInv'
<1>1. Held'
  BY DEF PlaceInv, Held, Among, Behind, Popped
<1>2. ASSUME NEW x, NEW t, NEW i, NEW r, Slot(x, t, i, r)',
             NEW y, NEW u, NEW j, Slot(y, u, j, r)'
      PROVE  x = y /\ t = u /\ i = j
  <2>1. \/ x = y0 /\ t = t0 /\ Among(x0, n, i, r)
        \/ x = x0 /\ t = Reader /\ Behind(x0, n, i, r)
        \/ x # x0 /\ ~(x = y0 /\ t = t0) /\ Slot(x, t, i, r)
    BY <1>2 DEF Popped
  <2>2. \/ y = y0 /\ u = t0 /\ Among(x0, n, j, r)
        \/ y = x0 /\ u = Reader /\ Behind(x0, n, j, r)
        \/ y # x0 /\ ~(y = y0 /\ u = t0) /\ Slot(y, u, j, r)
    BY <1>2 DEF Popped
  <2>a. \A x1, y1, t1, u1, i1, j1 :
          Slot(x1, t1, i1, r) /\ Slot(y1, u1, j1, r) => x1 = y1 /\ t1 = u1 /\ i1 = j1
    BY DEF PlaceInv, Apart
  <2>3. CASE x = y0 /\ t = t0 /\ Among(x0, n, i, r)
    BY <2>2, <2>3, <2>a DEF Among, Behind
  <2>4. CASE x = x0 /\ t = Reader /\ Behind(x0, n, i, r)
    BY <2>2, <2>4, <2>a DEF Among, Behind
  <2>5. CASE x # x0 /\ ~(x = y0 /\ t = t0) /\ Slot(x, t, i, r)
    BY <2>2, <2>5, <2>a DEF Among, Behind
  <2> QED
    BY <2>1, <2>3, <2>4, <2>5
<1> QED
  BY <1>1, <1>2 DEF PlaceInv, Apart

\* The places of a thread that does not go on.
LEMMA PlaceOther ==
  ASSUME NEW t \in Threads, Only(t)
  PROVE  /\ \A u, i, r : u # t => /\ InBatch(u, i, r)' <=> InBatch(u, i, r)
                                  /\ InCall(u, i, r)' <=> InCall(u, i, r)
         /\ t # Reader => \A i, r : InRead(i, r)' <=> InRead(i, r)
<1>1. ASSUME NEW u, u # t, NEW i, NEW r
      PROVE  InBatch(u, i, r)' <=> InBatch(u, i, r)
  BY <1>1 DEF Only, Alone, InBatch
<1>2. ASSUME NEW u, u # t, NEW i, NEW r
      PROVE  InCall(u, i, r)' <=> InCall(u, i, r)
  <2>1. u \in Procs => pc'[u] = pc[u] /\ k'[u] = k[u] /\ ip'[u] = ip[u]
    BY <1>2 DEF Only, Alone, Workers
  <2>2. u \in Procs => Call(u)' = Call(u) /\ Unpushed(u)' = Unpushed(u)
    BY <2>1 DEF Call, Unpushed, Requested, Calling
  <2> QED
    BY <2>2 DEF InCall
<1>3. ASSUME t # Reader, NEW i, NEW r
      PROVE  InRead(i, r)' <=> InRead(i, r)
  BY <1>3 DEF Only, InRead
<1> QED
  BY <1>1, <1>2, <1>3

\* A step of a worker that leaves the queues alone and at most gives up places.
LEMMA PlaceQuiet ==
  ASSUME PlaceInv, NEW t \in Workers, Only(t), UNCHANGED <<queueVars, live, ready>>,
         \A i, r : InBatch(t, i, r)' => InBatch(t, i, r),
         \A i, r : InCall(t, i, r)' => InCall(t, i, r)
  PROVE  PlaceInv'
<1>1. t \in Threads /\ t # Reader
  BY ThreadAssumption DEF Workers, Threads
<1>2. ASSUME NEW x, NEW u, NEW i, NEW r, Slot(x, u, i, r)'
      PROVE  Slot(x, u, i, r)
  BY <1>1, <1>2, PlaceOther DEF Slot
<1>3. \A x, u, i, r : Slot(x, u, i, r) => r \in live \ ready
  BY DEF PlaceInv, Held
<1> QED
  BY <1>2, <1>3, PlaceShrink

\* A queue after push and pop.
LEMMA InAppend ==
  ASSUME NEW S, NEW q \in Seq(S), NEW v \in S, NEW i, NEW r, InSeq(Append(q, v), i, r)
  PROVE  InSeq(q, i, r) \/ (i = Len(q) + 1 /\ r = v)
  BY AppendProperties, LenProperties DEF InSeq

\* ... its first n elements, and those behind them.
LEMMA InTakeDrop ==
  ASSUME NEW S, NEW q \in Seq(S), NEW n \in 0 .. Len(q), NEW i, NEW r
  PROVE  /\ InSeq(Take(q, n), i, r) => i \in 1 .. n /\ InSeq(q, i, r)
         /\ InSeq(Drop(q, n), i, r) => i \in Nat \ {0} /\ InSeq(q, i + n, r)
<1>1. Len(q) \in Nat
  BY LenProperties
<1>2. /\ Len(Take(q, n)) = n /\ \A j \in 1 .. n : Take(q, n)[j] = q[j]
      /\ Len(Drop(q, n)) = Len(q) - n /\ \A j \in 1 .. Len(q) - n : Drop(q, n)[j] = q[j + n]
  <2>1. Len(Take(q, n)) = n /\ \A j \in 1 .. n : Take(q, n)[j] = q[j]
    BY <1>1 DEF Take
  <2>2. Len(Drop(q, n)) = Len(q) - n /\ \A j \in 1 .. Len(q) - n : Drop(q, n)[j] = q[j + n]
    BY <1>1 DEF Drop
  <2> QED
    BY <2>1, <2>2
<1> QED
  BY <1>1, <1>2 DEF InSeq

\* The requests a caller has still to push.
LEMMA PlaceWorker ==
  ASSUME TypeInv, NEW t \in Workers
  PROVE  /\ pc \in [Threads -> CallerLabels \cup WriterLabels \cup ReaderLabels]
         /\ k \in [Threads -> Nat \ {0}] /\ batch \in [Threads -> Seq(Req)]
         /\ m_req_queue \in Seq(Req) /\ m_res_queue \in Seq(Req) /\ m_notify_queue \in Seq(Req)
         /\ room[t] \in Nat /\ k[t] \in Nat \ {0} /\ t \in Threads /\ t # Reader
         /\ pc[t] \in WriteLabels =>
              /\ k[t] \in 1 .. Len(batch[t]) /\ Current(t) = batch[t][k[t]]
              /\ Current(t) \in Req /\ Len(batch[t]) \in Nat
         /\ t \in Procs /\ pc[t] \in {"push", "pushn", "run_push"} =>
              /\ k[t] \in 1 .. Len(Call(t).reqs) /\ Current(t) = Call(t).reqs[k[t]]
              /\ Current(t) \in Req /\ Len(Call(t).reqs) \in Nat
              /\ Requests(t) = Call(t).reqs
<1>1. /\ pc \in [Threads -> CallerLabels \cup WriterLabels \cup ReaderLabels]
      /\ k \in [Threads -> Nat \ {0}] /\ batch \in [Threads -> Seq(Req)]
      /\ m_req_queue \in Seq(Req) /\ m_res_queue \in Seq(Req) /\ m_notify_queue \in Seq(Req)
      /\ room[t] \in Nat /\ k[t] \in Nat \ {0} /\ t \in Threads /\ t # Reader
  BY ThreadAssumption DEF TypeInv, Placed, LoopInv, DataTypes, WriteTypes, QueueTypes,
     Workers, Threads
<1>2. pc[t] \in WriteLabels =>
        /\ k[t] \in 1 .. Len(batch[t]) /\ Current(t) = batch[t][k[t]]
        /\ Current(t) \in Req /\ Len(batch[t]) \in Nat
  BY WriteLoop DEF TypeInv, DataTypes, Workers, Current
<1>3. t \in Procs /\ pc[t] \in {"push", "pushn", "run_push"} =>
        /\ k[t] \in 1 .. Len(Call(t).reqs) /\ Current(t) = Call(t).reqs[k[t]]
        /\ Current(t) \in Req /\ Len(Call(t).reqs) \in Nat
        /\ Requests(t) = Call(t).reqs
  BY CallLoop DEF TypeInv, InLoop, LoopLabels, Current
<1> QED
  BY <1>1, <1>2, <1>3

\* The end of an iteration of writeRequests: the next request is still pending,
\* and what was the current one is not.
LEMMA PlaceNextWrite ==
  ASSUME TypeInv, NEW t \in Workers, NextWrite(t), NEW i, NEW r
  PROVE  /\ InBatch(t, i, r)' => InSeq(batch[t], i, r) /\ i > k[t]
         /\ ~InCall(t, i, r)'
<1>a. /\ pc \in [Threads -> CallerLabels \cup WriterLabels \cup ReaderLabels]
      /\ k \in [Threads -> Nat \ {0}] /\ batch \in [Threads -> Seq(Req)]
      /\ k[t] \in Nat \ {0} /\ t \in Threads
  BY PlaceWorker
<1>b. Return(t) => pc'[t] \notin WriteLabels /\ (t \in Procs => pc'[t] = "call" /\ k'[t] = 1)
  BY <1>a, ThreadAssumption DEF Return, WriteLabels
<1>1. CASE ~IsLast(t)
  <2>1. /\ pc'[t] \in {"wr_push", "wr_op"} /\ k'[t] = k[t] + 1 /\ batch' = batch
    BY <1>1, <1>a DEF NextWrite, WriteLabel
  <2>2. InBatch(t, i, r)' => InSeq(batch[t], i, r) /\ i > k[t]
    BY <1>a, <2>1 DEF InBatch, InSeq
  <2>3. ~InCall(t, i, r)'
    BY <2>1 DEF InCall, Unpushed, Requested, Calling
  <2> QED
    BY <2>2, <2>3
<1>2. CASE IsLast(t)
  <2>1. /\ pc'[t] \notin WriteLabels
        /\ t \in Procs => pc'[t] = "load" \/ (pc'[t] = "call" /\ k'[t] = 1)
    BY <1>2, <1>a, <1>b DEF NextWrite, WriteLabels
  <2>2. ~InBatch(t, i, r)'
    BY <2>1 DEF InBatch
  <2>3. ~InCall(t, i, r)'
    BY <2>1 DEF InCall, Unpushed, Requested, Calling
  <2> QED
    BY <2>2, <2>3
<1> QED
  BY <1>1, <1>2

\* writeRequests takes a request from m_req_queue to m_res_queue, to
\* m_notify_queue or to its completion.
LEMMA PlaceWriteRequests ==
  ASSUME FALSE \notin StaleHasRes, TypeInv, CountInv, PlaceInv, NEW t \in Workers,
         WriteRequests(t)
  PROVE  PlaceInv'
<1>a. /\ pc \in [Threads -> CallerLabels \cup WriterLabels \cup ReaderLabels]
      /\ k \in [Threads -> Nat \ {0}] /\ batch \in [Threads -> Seq(Req)]
      /\ m_req_queue \in Seq(Req) /\ m_res_queue \in Seq(Req) /\ m_notify_queue \in Seq(Req)
      /\ room[t] \in Nat /\ k[t] \in Nat \ {0} /\ t \in Threads /\ t # Reader
      /\ pc[t] \in WriteLabels =>
           /\ k[t] \in 1 .. Len(batch[t]) /\ Current(t) = batch[t][k[t]]
           /\ Current(t) \in Req /\ Len(batch[t]) \in Nat
  BY PlaceWorker
<1>b. Only(t)
  BY OnlyWriteRequests
<1>c. Return(t) => pc'[t] \notin WriteLabels /\ (t \in Procs => pc'[t] = "call" /\ k'[t] = 1)
  BY <1>a, ThreadAssumption DEF Return, WriteLabels
<1>d. /\ \A u, i, r : u # t => /\ InBatch(u, i, r)' <=> InBatch(u, i, r)
                               /\ InCall(u, i, r)' <=> InCall(u, i, r)
      /\ \A i, r : InRead(i, r)' <=> InRead(i, r)
  BY <1>a, <1>b, PlaceOther
<1>e. ASSUME pc[t] \in WriteLabels, ~HasRes[Current(t)], pc[t] # "wr_notify"
      PROVE  /\ Slot("batch", t, k[t], Current(t))
             /\ Current(t) \in live \ ready
  <2>1. InBatch(t, k[t], Current(t))
    BY <1>a, <1>e DEF InBatch, InSeq
  <2>2. Slot("batch", t, k[t], Current(t))
    BY <2>1 DEF Slot
  <2> QED
    BY <2>2 DEF PlaceInv, Held
<1>1. CASE WriteSpace(t) \/ LoadWritten(t) \/ StoreWritten(t)
  <2>1. UNCHANGED <<queueVars, live, ready>> /\ pc'[t] \notin WriteLabels
    BY <1>1, <1>a, <1>c DEF WriteSpace, LoadWritten, StoreWritten, WriteLabels
  <2>2. t \in Procs => \/ pc'[t] \notin {"call", "push", "pushn", "run_push"}
                       \/ pc'[t] = "call" /\ k'[t] = 1
    BY <1>1, <1>a, <1>c DEF WriteSpace, LoadWritten, StoreWritten
  <2>3. \A i, r : ~InBatch(t, i, r)'
    BY <2>1 DEF InBatch
  <2>4. \A i, r : ~InCall(t, i, r)'
    BY <2>2 DEF InCall, Unpushed, Requested, Calling
  <2> QED
    BY <1>b, <2>1, <2>3, <2>4, PlaceQuiet
<1>2. CASE WritePop(t)
  <2>1. PICK n \in 0 .. Len(m_req_queue) : n = MinOf(room[t], Len(m_req_queue))
    BY <1>a, MinOfLength
  <2>2. /\ batch' = [batch EXCEPT ![t] = Take(m_req_queue, n)]
        /\ m_req_queue' = Drop(m_req_queue, n)
        /\ UNCHANGED <<m_res_queue, m_notify_queue, live, ready>>
        /\ t \in Procs => \/ pc'[t] \notin {"call", "push", "pushn", "run_push"}
                          \/ pc'[t] = "call" /\ k'[t] = 1
    BY <1>2, <1>a, <1>c, <2>1 DEF WritePop, WriteLabel
  <2>3. batch'[t] = Take(m_req_queue, n) /\ n \in Nat
    BY <1>a, <2>2, LenProperties
  <2>4. ASSUME NEW x, NEW u, NEW i, NEW r, Slot(x, u, i, r)'
        PROVE  \/ x = "batch" /\ u = t /\ Among("req", n, i, r)
               \/ x = "req" /\ u = Reader /\ Behind("req", n, i, r)
               \/ x # "req" /\ ~(x = "batch" /\ u = t) /\ Slot(x, u, i, r)
    <3>1. CASE x = "batch" /\ u = t
      <4>1. InSeq(Take(m_req_queue, n), i, r)
        BY <2>3, <2>4, <3>1 DEF Slot, InBatch
      <4> QED
        BY <1>a, <2>3, <3>1, <4>1, InTakeDrop DEF Slot, Among
    <3>2. CASE x = "req"
      <4>1. u = Reader /\ InSeq(Drop(m_req_queue, n), i, r)
        BY <2>2, <2>4, <3>2 DEF Slot
      <4> QED
        BY <1>a, <2>3, <3>2, <4>1, InTakeDrop DEF Slot, Behind
    <3>3. CASE x # "req" /\ ~(x = "batch" /\ u = t)
      <4>1. ~InCall(t, i, r)'
        BY <2>2 DEF InCall, Unpushed, Requested, Calling
      <4> QED
        BY <1>d, <2>2, <2>4, <3>3, <4>1 DEF Slot
    <3> QED
      BY <3>1, <3>2, <3>3
  <2>5. Popped("req", n, "batch", t)
    BY <2>4 DEF Popped
  <2> QED
    BY <2>2, <2>3, <2>5, PlacePop
<1>3. CASE WritePush(t)
  <2>1. PICK r0 \in Req : r0 = Current(t)
    BY <1>3, <1>a DEF WritePush, WriteLabels
  <2>2. /\ pc[t] = "wr_push" /\ pc'[t] = "wr_op" /\ k' = k /\ batch' = batch
        /\ m_res_queue' = Append(m_res_queue, r0)
        /\ UNCHANGED <<m_req_queue, m_notify_queue, live, ready>>
    BY <1>3, <1>a, <2>1 DEF WritePush
  <2>3. HasRes[r0]
    BY <2>1, <2>2 DEF CountInv, Local
  <2>4. Slot("batch", t, k[t], r0)
    BY <1>a, <2>1, <2>2 DEF Slot, InBatch, InSeq, WriteLabels
  <2>5. ASSUME NEW x, NEW u, NEW i, NEW r, Slot(x, u, i, r)'
        PROVE  \/ x = "res" /\ u = Reader /\ i = Len(m_res_queue) + 1 /\ r = r0
               \/ Slot(x, u, i, r) /\ ~(x = "batch" /\ u = t /\ i = k[t])
    <3>1. CASE x = "res"
      BY <1>a, <2>2, <2>5, <3>1, InAppend DEF Slot
    <3>2. CASE x = "batch" /\ u = t
      <4>1. i = k[t] => r = r0
        BY <1>a, <2>1, <2>2, <2>5, <3>2 DEF Slot, InBatch, InSeq, WriteLabels
      <4>2. InBatch(t, i, r) /\ i # k[t]
        BY <1>a, <2>2, <2>3, <2>5, <3>2, <4>1 DEF Slot, InBatch, WriteLabels
      <4> QED
        BY <3>2, <4>2 DEF Slot
    <3>3. CASE x # "res" /\ ~(x = "batch" /\ u = t)
      <4>1. ~InCall(t, i, r)'
        BY <2>2 DEF InCall, Unpushed, Requested, Calling
      <4> QED
        BY <1>d, <2>2, <2>5, <3>3, <4>1 DEF Slot
    <3> QED
      BY <3>1, <3>2, <3>3
  <2> QED
    BY <2>2, <2>4, <2>5, PlaceMove
<1>4. CASE ShortPulseOp(t, "wr_op", "wr_ctrl") \/ WritePulseCtrl(t)
  <2>1. /\ pc[t] \in {"wr_op", "wr_ctrl"} /\ pc'[t] \in {"wr_ctrl", "wr_check"}
        /\ UNCHANGED <<k, batch, queueVars, live, ready>>
    BY <1>4, <1>a DEF ShortPulseOp, WritePulseCtrl
  <2>2. \A i, r : (InBatch(t, i, r)' => InBatch(t, i, r)) /\ ~InCall(t, i, r)'
    BY <2>1 DEF InBatch, InCall, Unpushed, Requested, Calling, WriteLabels
  <2> QED
    BY <1>b, <2>1, <2>2, PlaceQuiet
<1>5. CASE WriteHasRes(t) \/ WriteNotify(t)
  <2>1. NextWrite(t) /\ UNCHANGED <<queueVars, live, ready>> /\ pc[t] \in WriteLabels
    BY <1>5 DEF WriteHasRes, WriteNotify, WriteLabels
  <2>2. \A i, r : (InBatch(t, i, r)' => InBatch(t, i, r)) /\ ~InCall(t, i, r)'
    BY <2>1, PlaceNextWrite DEF InBatch
  <2> QED
    BY <1>b, <2>1, <2>2, PlaceQuiet
<1>6. CASE WriteDefer(t)
  <2>1. PICK r0 \in Req : r0 = Current(t)
    BY <1>6, <1>a DEF WriteDefer, WriteLabels
  <2>2. /\ pc[t] = "wr_check" /\ NextWrite(t)
        /\ m_notify_queue' = Append(m_notify_queue, r0)
        /\ UNCHANGED <<m_req_queue, m_res_queue, live, ready>>
    BY <1>6, <1>a, <2>1 DEF WriteDefer
  <2>3. ~HasRes[Current(t)]
    BY <1>6 DEF WriteDefer, HasResRead
  <2>4. Slot("batch", t, k[t], r0)
    BY <1>e, <2>1, <2>2, <2>3 DEF WriteLabels
  <2>5. ASSUME NEW x, NEW u, NEW i, NEW r, Slot(x, u, i, r)'
        PROVE  \/ x = "notify" /\ u = Reader /\ i = Len(m_notify_queue) + 1 /\ r = r0
               \/ Slot(x, u, i, r) /\ ~(x = "batch" /\ u = t /\ i = k[t])
    <3>1. CASE x = "notify"
      BY <1>a, <2>2, <2>5, <3>1, InAppend DEF Slot
    <3>2. CASE x = "batch" /\ u = t
      <4>1. InSeq(batch[t], i, r) /\ i > k[t]
        BY <2>2, <2>5, <3>2, PlaceNextWrite DEF Slot
      <4>2. InBatch(t, i, r) /\ i # k[t]
        BY <1>a, <2>2, <4>1 DEF InBatch, WriteLabels, InSeq
      <4> QED
        BY <3>2, <4>2 DEF Slot
    <3>3. CASE x # "notify" /\ ~(x = "batch" /\ u = t)
      <4>1. ~InCall(t, i, r)'
        BY <2>2, PlaceNextWrite
      <4> QED
        BY <1>d, <2>2, <2>5, <3>3, <4>1 DEF Slot
    <3> QED
      BY <3>1, <3>2, <3>3
  <2> QED
    BY <2>2, <2>4, <2>5, PlaceMove
<1>7. CASE WriteSetRes(t)
  <2>1. PICK r0 \in Req : r0 = Current(t)
    BY <1>7, <1>a DEF WriteSetRes, WriteLabels
  <2>2. /\ pc[t] = "wr_check" /\ pc'[t] = "wr_notify" /\ k' = k /\ batch' = batch
        /\ UNCHANGED <<m_req_queue, m_res_queue, m_notify_queue, live>>
        /\ ready' = ready \cup {r0}
    BY <1>7, <1>a, <2>1 DEF WriteSetRes, SetRes
  <2>3. ~HasRes[Current(t)]
    BY <1>7 DEF WriteSetRes, HasResRead
  <2>4. Slot("batch", t, k[t], r0)
    BY <1>e, <2>1, <2>2, <2>3 DEF WriteLabels
  <2>5. ASSUME NEW x, NEW u, NEW i, NEW r, Slot(x, u, i, r)'
        PROVE  Slot(x, u, i, r) /\ r \in live' \ ready'
    <3>1. \A j, q : (InBatch(t, j, q)' => InBatch(t, j, q) /\ j # k[t]) /\ ~InCall(t, j, q)'
      BY <1>a, <2>2 DEF InBatch, InCall, Unpushed, Requested, Calling, WriteLabels, InSeq
    <3>2. Slot(x, u, i, r) /\ ~(x = "batch" /\ u = t /\ i = k[t])
      BY <1>d, <2>2, <2>5, <3>1 DEF Slot
    <3>3. r # r0
      BY <2>4, <3>2 DEF PlaceInv, Apart
    <3>4. r \in live \ ready
      BY <3>2 DEF PlaceInv, Held
    <3> QED
      BY <2>2, <3>2, <3>3, <3>4
  <2> QED
    BY <2>5, PlaceShrink
<1> QED
  BY <1>1, <1>2, <1>3, <1>4, <1>5, <1>6, <1>7 DEF WriteRequests

\* The construction of a request, which was not alive.
LEMMA PlaceNew ==
  ASSUME Distinct, TypeInv, LiveInv, PlaceInv, NEW t \in Procs, NewRequest(t)
  PROVE  PlaceInv'
<1>a. /\ pc \in [Threads -> CallerLabels \cup WriterLabels \cup ReaderLabels]
      /\ k \in [Threads -> Nat \ {0}] /\ k[t] \in Nat \ {0} /\ t \in Threads /\ t # Reader
      /\ t \in Workers /\ Only(t) /\ Placed /\ LoopInv /\ Requested(t) /\ pc[t] = "call"
  BY PlaceWorker, OnlyCaller
     DEF Workers, Caller, TypeInv, NewRequest, Requested, Calling
<1>1. /\ k[t] \in 1 .. Len(Call(t).reqs) /\ Current(t) = Call(t).reqs[k[t]]
      /\ Requests(t) = Call(t).reqs /\ Len(Call(t).reqs) \in Nat
  BY <1>a, CallLoop DEF InLoop, Requested, Current
<1>2. PICK r0 : r0 = Current(t)
  OBVIOUS
<1>3. r0 \notin live
  BY <1>a, <1>2, FreshRequest
<1>4. /\ ip' = ip /\ UNCHANGED <<m_req_queue, m_res_queue, m_notify_queue, batch>>
      /\ live' = live \cup {r0} /\ ready' = ready \ {r0}
      /\ \/ pc'[t] = "call" /\ k'[t] = k[t] + 1
         \/ pc'[t] \in {"push", "run_push"} /\ k'[t] = 1 /\ IsLast(t)
  BY <1>a, <1>2 DEF NewRequest, Iterate
<1>5. Unpushed(t)' = 1 .. k[t] /\ Unpushed(t) = 1 .. k[t] - 1 /\ Call(t)' = Call(t)
  <2>1. Call(t)' = Call(t) /\ Unpushed(t) = 1 .. k[t] - 1
    BY <1>a, <1>4 DEF Call, Unpushed
  <2>2. CASE pc'[t] = "call" /\ k'[t] = k[t] + 1
    <3>1. Requested(t)'
      BY <1>a, <1>4, <2>1, <2>2 DEF Requested, Calling
    <3>2. 1 .. k'[t] - 1 = 1 .. k[t]
      BY <1>a, <2>2
    <3> QED
      BY <2>1, <3>1, <3>2 DEF Unpushed
  <2>3. CASE pc'[t] \in {"push", "run_push"} /\ k'[t] = 1 /\ IsLast(t)
    <3>1. k[t] = Len(Call(t).reqs)
      BY <1>1, <1>a, <2>3 DEF IsLast
    <3>2. Unpushed(t)' = k'[t] .. Len(Call(t)'.reqs)
      BY <2>3 DEF Unpushed, Requested, Calling
    <3> QED
      BY <2>1, <2>3, <3>1, <3>2
  <2> QED
    BY <1>4, <2>2, <2>3
<1>6. ASSUME NEW x, NEW u, NEW i, NEW r, Slot(x, u, i, r)'
      PROVE  \/ x = "call" /\ u = t /\ i = k[t] /\ r = r0
             \/ Slot(x, u, i, r)
  <2>1. CASE x = "call" /\ u = t
    <3>1. i \in 1 .. k[t] /\ Call(t).reqs[i] = r
      BY <1>5, <1>6, <2>1 DEF Slot, InCall
    <3>2. CASE i = k[t]
      BY <1>1, <1>2, <2>1, <3>1, <3>2
    <3>3. CASE i \in 1 .. k[t] - 1
      BY <1>5, <2>1, <3>1, <3>3 DEF Slot, InCall
    <3> QED
      BY <1>a, <3>1, <3>2, <3>3
  <2>2. CASE ~(x = "call" /\ u = t)
    <3>1. ~InBatch(t, i, r)'
      BY <1>4 DEF InBatch, WriteLabels
    <3> QED
      BY <1>a, <1>4, <1>6, <2>2, <3>1, PlaceOther DEF Slot
  <2> QED
    BY <2>1, <2>2
<1>7. Held'
  BY <1>4, <1>6 DEF PlaceInv, Held
<1>8. ASSUME NEW x, NEW u, NEW i, NEW r, Slot(x, u, i, r)',
             NEW y, NEW v, NEW j, Slot(y, v, j, r)'
      PROVE  x = y /\ u = v /\ i = j
  <2>1. (x = "call" /\ u = t /\ i = k[t] /\ r = r0) \/ Slot(x, u, i, r)
    BY <1>6, <1>8
  <2>2. (y = "call" /\ v = t /\ j = k[t] /\ r = r0) \/ Slot(y, v, j, r)
    BY <1>6, <1>8
  <2>3. (Slot(x, u, i, r) => r \in live) /\ (Slot(y, v, j, r) => r \in live)
    BY DEF PlaceInv, Held
  <2> QED
    BY <1>3, <2>1, <2>2, <2>3 DEF PlaceInv, Apart
<1> QED
  BY <1>7, <1>8 DEF PlaceInv, Apart

\* The requests whose results a caller has waited for are done.
Waited ==
  \A t \in Procs : pc[t] = "wait" => \A m \in 1 .. k[t] - 1 : Call(t).reqs[m] \in ready

\* A caller constructs its requests, pushes each to one queue, and destroys them
\* when they are done.
LEMMA PlaceCaller ==
  ASSUME FALSE \notin StaleHasRes, Distinct, TypeInv, CountInv, LiveInv, PlaceInv, Waited,
         NEW t \in Procs, Caller(t)
  PROVE  PlaceInv'
<1>a. /\ pc \in [Threads -> CallerLabels \cup WriterLabels \cup ReaderLabels]
      /\ k \in [Threads -> Nat \ {0}] /\ t \in Threads /\ t # Reader /\ t \in Workers
      /\ m_req_queue \in Seq(Req) /\ m_res_queue \in Seq(Req) /\ m_notify_queue \in Seq(Req)
      /\ k[t] \in Nat \ {0}
      /\ pc[t] \in {"push", "pushn", "run_push"} =>
           /\ k[t] \in 1 .. Len(Call(t).reqs) /\ Current(t) = Call(t).reqs[k[t]]
           /\ Current(t) \in Req /\ Len(Call(t).reqs) \in Nat /\ Requests(t) = Call(t).reqs
  BY PlaceWorker DEF Workers
<1>b. Only(t)
  BY OnlyCaller
<1>c. /\ \A u, i, r : u # t => /\ InBatch(u, i, r)' <=> InBatch(u, i, r)
                               /\ InCall(u, i, r)' <=> InCall(u, i, r)
      /\ \A i, r : InRead(i, r)' <=> InRead(i, r)
  BY <1>a, <1>b, PlaceOther
<1>1. CASE WriteRequests(t)
  BY <1>a, <1>1, PlaceWriteRequests
<1>2. CASE NewRequest(t)
  BY <1>2, PlaceNew
<1>3. CASE PushReq(t)
  <2>1. PICK r0 \in Req : r0 = Current(t)
    BY <1>3, <1>a DEF PushReq
  <2>2. /\ pc[t] = "push" /\ pc'[t] = "pushn" /\ k' = k /\ ip' = ip
        /\ m_req_queue' = Append(m_req_queue, r0)
        /\ UNCHANGED <<m_res_queue, m_notify_queue, live, ready>>
    BY <1>3, <1>a, <2>1 DEF PushReq
  <2>3. /\ Unpushed(t) = k[t] .. Len(Call(t).reqs)
        /\ Unpushed(t)' = k[t] + 1 .. Len(Call(t).reqs) /\ Call(t)' = Call(t)
    BY <2>2 DEF Unpushed, Requested, Calling, Call
  <2>4. Slot("call", t, k[t], r0)
    BY <1>a, <2>1, <2>2, <2>3 DEF Slot, InCall
  <2>5. ASSUME NEW x, NEW u, NEW i, NEW r, Slot(x, u, i, r)'
        PROVE  \/ x = "req" /\ u = Reader /\ i = Len(m_req_queue) + 1 /\ r = r0
               \/ Slot(x, u, i, r) /\ ~(x = "call" /\ u = t /\ i = k[t])
    <3>1. CASE x = "req"
      BY <1>a, <2>2, <2>5, <3>1, InAppend DEF Slot
    <3>2. CASE x = "call" /\ u = t
      BY <1>a, <2>2, <2>3, <2>5, <3>2 DEF Slot, InCall
    <3>3. CASE x # "req" /\ ~(x = "call" /\ u = t)
      <4>1. ~InBatch(t, i, r)'
        BY <2>2 DEF InBatch, WriteLabels
      <4> QED
        BY <1>c, <2>2, <2>5, <3>3, <4>1 DEF Slot
    <3> QED
      BY <3>1, <3>2, <3>3
  <2> QED
    BY <2>2, <2>4, <2>5, PlaceMove
<1>4. CASE RunPush(t)
  <2>1. PICK r0 \in Req : r0 = Current(t)
    BY <1>4, <1>a DEF RunPush
  <2>2. /\ pc[t] = "run_push" /\ ip' = ip
        /\ \/ pc'[t] = "run_push" /\ k'[t] = k[t] + 1
           \/ pc'[t] = "run_space"
        /\ m_res_queue' = Append(m_res_queue, r0)
        /\ UNCHANGED <<m_req_queue, m_notify_queue, live, ready>>
    BY <1>4, <1>a, <2>1 DEF RunPush, Iterate
  <2>3. /\ Unpushed(t) = k[t] .. Len(Call(t).reqs) /\ Call(t)' = Call(t)
        /\ Unpushed(t)' \subseteq k[t] + 1 .. Len(Call(t).reqs)
    BY <2>2 DEF Unpushed, Requested, Calling, Call
  <2>4. Slot("call", t, k[t], r0)
    BY <1>a, <2>1, <2>2, <2>3 DEF Slot, InCall
  <2>5. ASSUME NEW x, NEW u, NEW i, NEW r, Slot(x, u, i, r)'
        PROVE  \/ x = "res" /\ u = Reader /\ i = Len(m_res_queue) + 1 /\ r = r0
               \/ Slot(x, u, i, r) /\ ~(x = "call" /\ u = t /\ i = k[t])
    <3>1. CASE x = "res"
      BY <1>a, <2>2, <2>5, <3>1, InAppend DEF Slot
    <3>2. CASE x = "call" /\ u = t
      <4>1. i \in k[t] + 1 .. Len(Call(t).reqs)
        BY <2>3, <2>5, <3>2 DEF Slot, InCall
      <4>2. i \in k[t] .. Len(Call(t).reqs) /\ i # k[t]
        BY <1>a, <2>2, <4>1
      <4> QED
        BY <2>3, <2>5, <3>2, <4>2 DEF Slot, InCall
    <3>3. CASE x # "res" /\ ~(x = "call" /\ u = t)
      <4>1. ~InBatch(t, i, r)'
        BY <2>2 DEF InBatch, WriteLabels
      <4> QED
        BY <1>c, <2>2, <2>5, <3>3, <4>1 DEF Slot
    <3> QED
      BY <3>1, <3>2, <3>3
  <2> QED
    BY <2>2, <2>4, <2>5, PlaceMove
<1>5. CASE PushReqNotify(t)
  <2>1. /\ UNCHANGED <<queueVars, live, ready, ip>> /\ pc[t] = "pushn"
        /\ \/ pc'[t] = "push" /\ k'[t] = k[t] + 1
           \/ pc'[t] = "wait"
    BY <1>5, <1>a DEF PushReqNotify, Iterate
  <2>2. Unpushed(t)' \subseteq Unpushed(t) /\ Call(t)' = Call(t)
    BY <2>1 DEF Unpushed, Requested, Calling, Call
  <2>3. \A i, r : ~InBatch(t, i, r)' /\ (InCall(t, i, r)' => InCall(t, i, r))
    BY <2>1, <2>2 DEF InBatch, InCall, WriteLabels
  <2> QED
    BY <1>a, <1>b, <2>1, <2>3, PlaceQuiet
<1>6. CASE WaitReady(t)
  <2>1. /\ UNCHANGED queueVars /\ ready' = ready /\ pc[t] = "wait" /\ Current(t) \in ready
        /\ pc'[t] = "wait" \/ (pc'[t] = "call" /\ k'[t] = 1)
        /\ live' = IF IsLast(t) THEN live \ SeqSet(Call(t).reqs) ELSE live
    BY <1>6, <1>a DEF WaitReady
  <2>2. \A i, r : ~InBatch(t, i, r)' /\ ~InCall(t, i, r)'
    BY <2>1 DEF InBatch, InCall, Unpushed, Requested, Calling, WriteLabels
  <2>3. ASSUME NEW x, NEW u, NEW i, NEW r, Slot(x, u, i, r)'
        PROVE  Slot(x, u, i, r)
    BY <1>c, <2>1, <2>2, <2>3 DEF Slot
  <2>4. IsLast(t) => SeqSet(Call(t).reqs) \subseteq ready
    <3> SUFFICES ASSUME IsLast(t), NEW m \in DOMAIN Call(t).reqs PROVE Call(t).reqs[m] \in ready
      BY DEF SeqSet
    <3>1. /\ k[t] \in 1 .. Len(Call(t).reqs) /\ Current(t) = Call(t).reqs[k[t]]
          /\ Requests(t) = Call(t).reqs /\ Call(t).reqs \in Seq(Req)
          /\ Len(Call(t).reqs) \in Nat
      BY <2>1, CallLoop DEF InLoop, LoopLabels, Current, TypeInv
    <3>2. m \in 1 .. k[t]
      BY <3>1 DEF IsLast
    <3> QED
      BY <1>a, <2>1, <3>1, <3>2 DEF Waited
  <2>5. ASSUME NEW x, NEW u, NEW i, NEW r, Slot(x, u, i, r)
        PROVE  r \in live' \ ready'
    <3>1. r \in live \ ready
      BY <2>5 DEF PlaceInv, Held
    <3> QED
      BY <2>1, <2>4, <3>1
  <2> QED
    BY <2>3, <2>5, PlaceShrink
<1>7. CASE Lock(t) \/ Unlock(t) \/ SetHold(t) \/ WaitFinish(t) \/ PulseCtrl(t) \/ Join(t)
  <2>1. UNCHANGED <<queueVars, live, ready>> /\ pc'[t] = "call" /\ k'[t] = 1
    BY <1>7, <1>a DEF Lock, Unlock, SetHold, WaitFinish, PulseCtrl, Join
  <2>2. \A i, r : ~InBatch(t, i, r)' /\ ~InCall(t, i, r)'
    BY <2>1 DEF InBatch, InCall, Unpushed, WriteLabels
  <2> QED
    BY <1>a, <1>b, <2>1, <2>2, PlaceQuiet
<1>8. CASE ReleaseHold(t) \/ Pulse(t) \/ ShortPulseOp(t, "pulse_op", "pulse_ctrl")
           \/ WaitSleep(t) \/ HasResSpace(t) \/ NoResSpace(t) \/ RunIncrement(t)
           \/ ShortPulseOp(t, "run_op", "run_ctrl") \/ RunPulseCtrl(t) \/ Quit(t)
           \/ QuitNotify(t)
  <2>1. /\ UNCHANGED <<queueVars, live, ready>>
        /\ pc'[t] \notin WriteLabels \cup {"call", "push", "pushn", "run_push"}
    BY <1>8, <1>a DEF ReleaseHold, Pulse, ShortPulseOp, WaitSleep, HasResSpace, NoResSpace,
       RunIncrement, RunPulseCtrl, Quit, QuitNotify, Iterate, WriteLabels
  <2>2. \A i, r : ~InBatch(t, i, r)' /\ ~InCall(t, i, r)'
    BY <2>1 DEF InBatch, InCall, Unpushed, Requested, Calling
  <2> QED
    BY <1>a, <1>b, <2>1, <2>2, PlaceQuiet
<1> QED
  BY <1>1, <1>2, <1>3, <1>4, <1>5, <1>6, <1>7, <1>8 DEF Caller

\* The reader pops, completes the request it has popped, goes on to the next.
LEMMA PlaceReader ==
  ASSUME TypeInv, PlaceInv, ReaderThread
  PROVE  PlaceInv'
<1>a. /\ pc \in [Threads -> CallerLabels \cup WriterLabels \cup ReaderLabels]
      /\ k \in [Threads -> Nat \ {0}] /\ Reader \in Threads /\ k[Reader] \in Nat \ {0}
      /\ m_res_queue \in Seq(Req) /\ m_notify_queue \in Seq(Req)
      /\ rd_req \in Seq(Req) /\ Len(rd_req) \in Nat /\ Len(rd_res) \in Nat /\ ReaderLoop
  BY LenProperties DEF TypeInv, Placed, LoopInv, DataTypes, QueueTypes, ReadTypes, Threads
<1>b. \A u, i, r : /\ InBatch(u, i, r)' => InBatch(u, i, r)
                   /\ InCall(u, i, r)' => InCall(u, i, r)
  <2>1. Only(Reader) /\ Reader \notin Procs /\ Reader \notin Workers
    BY OnlyReaderThread, ThreadAssumption DEF Workers
  <2>2. \A i, r : ~InBatch(Reader, i, r)' /\ ~InCall(Reader, i, r)'
    BY <2>1 DEF InBatch, InCall
  <2> QED
    BY <1>a, <2>1, <2>2, PlaceOther
<1>c. \A x, t, i, r : Slot(x, t, i, r) => r \in live \ ready
  BY DEF PlaceInv, Held
<1>1. CASE PopResQueue
  <2>1. PICK n \in 0 .. Len(m_res_queue) : n = MinOf(Len(rd_res), Len(m_res_queue))
    BY <1>a, MinOfLength
  <2>2. /\ rd_req' = Take(m_res_queue, n) /\ m_res_queue' = Drop(m_res_queue, n)
        /\ UNCHANGED <<m_req_queue, m_notify_queue, live, ready>> /\ n \in Nat
    BY <1>1, <1>a, <2>1, LenProperties DEF PopResQueue
  <2>3. ASSUME NEW x, NEW u, NEW i, NEW r, Slot(x, u, i, r)'
        PROVE  \/ x = "read" /\ u = Reader /\ Among("res", n, i, r)
               \/ x = "res" /\ u = Reader /\ Behind("res", n, i, r)
               \/ x # "res" /\ ~(x = "read" /\ u = Reader) /\ Slot(x, u, i, r)
    <3>1. CASE x = "read"
      <4>1. u = Reader /\ InSeq(Take(m_res_queue, n), i, r)
        BY <2>2, <2>3, <3>1 DEF Slot, InRead, InSeq
      <4> QED
        BY <1>a, <3>1, <4>1, InTakeDrop DEF Slot, Among
    <3>2. CASE x = "res"
      <4>1. u = Reader /\ InSeq(Drop(m_res_queue, n), i, r)
        BY <2>2, <2>3, <3>2 DEF Slot, InSeq
      <4> QED
        BY <1>a, <3>2, <4>1, InTakeDrop DEF Slot, Behind
    <3>3. CASE x # "res" /\ x # "read"
      BY <1>b, <2>2, <2>3, <3>3 DEF Slot, InSeq
    <3> QED
      BY <3>1, <3>2, <3>3
  <2>4. Popped("res", n, "read", Reader)
    BY <2>3 DEF Popped
  <2> QED
    BY <2>2, <2>4, PlacePop
<1>2. CASE DumpNotifyQueue
  <2>1. PICK n \in 0 .. Len(m_notify_queue) : n = MinOf(BufSize, Len(m_notify_queue))
    BY <1>a, MinOfLength, BoundAssumption
  <2>2. /\ rd_req' = Take(m_notify_queue, n) /\ m_notify_queue' = Drop(m_notify_queue, n)
        /\ UNCHANGED <<m_req_queue, m_res_queue, live, ready>> /\ n \in Nat
    BY <1>2, <1>a, <2>1, LenProperties DEF DumpNotifyQueue
  <2>3. ASSUME NEW x, NEW u, NEW i, NEW r, Slot(x, u, i, r)'
        PROVE  \/ x = "read" /\ u = Reader /\ Among("notify", n, i, r)
               \/ x = "notify" /\ u = Reader /\ Behind("notify", n, i, r)
               \/ x # "notify" /\ ~(x = "read" /\ u = Reader) /\ Slot(x, u, i, r)
    <3>1. CASE x = "read"
      <4>1. u = Reader /\ InSeq(Take(m_notify_queue, n), i, r)
        BY <2>2, <2>3, <3>1 DEF Slot, InRead, InSeq
      <4> QED
        BY <1>a, <3>1, <4>1, InTakeDrop DEF Slot, Among
    <3>2. CASE x = "notify"
      <4>1. u = Reader /\ InSeq(Drop(m_notify_queue, n), i, r)
        BY <2>2, <2>3, <3>2 DEF Slot, InSeq
      <4> QED
        BY <1>a, <3>2, <4>1, InTakeDrop DEF Slot, Behind
    <3>3. CASE x # "notify" /\ x # "read"
      BY <1>b, <2>2, <2>3, <3>3 DEF Slot, InSeq
    <3> QED
      BY <3>1, <3>2, <3>3
  <2>4. Popped("notify", n, "read", Reader)
    BY <2>3 DEF Popped
  <2> QED
    BY <2>2, <2>4, PlacePop
<1>3. CASE ReaderSetRes("r_set", "r_notify") \/ ReaderSetRes("d_set", "d_notify")
  <2>1. PICK r0 \in Req : r0 = rd_req[k[Reader]]
    BY <1>3, <1>a DEF ReaderSetRes, ReaderLoop
  <2>2. /\ pc[Reader] \in {"r_set", "d_set"} /\ pc'[Reader] \in {"r_notify", "d_notify"}
        /\ UNCHANGED <<k, rd_req, m_req_queue, m_res_queue, m_notify_queue, live>>
        /\ ready' = ready \cup {r0}
    BY <1>3, <1>a, <2>1 DEF ReaderSetRes, SetRes
  <2>3. Slot("read", Reader, k[Reader], r0)
    BY <1>a, <2>1, <2>2 DEF Slot, InRead, InSeq, ReaderLoop
  <2>4. ASSUME NEW x, NEW u, NEW i, NEW r, Slot(x, u, i, r)'
        PROVE  Slot(x, u, i, r) /\ r \in live' \ ready'
    <3>1. \A j, q : InRead(j, q)' => InRead(j, q) /\ j # k[Reader]
      BY <1>a, <2>2 DEF InRead, InSeq
    <3>2. Slot(x, u, i, r) /\ ~(x = "read" /\ u = Reader /\ i = k[Reader])
      BY <1>b, <2>2, <2>4, <3>1 DEF Slot, InSeq
    <3>3. r # r0
      BY <2>3, <3>2 DEF PlaceInv, Apart
    <3>4. r \in live \ ready
      BY <1>c, <3>2
    <3> QED
      BY <2>2, <3>2, <3>3, <3>4
  <2> QED
    BY <2>4, PlaceShrink
<1>4. CASE \/ ReaderNotify("r_notify", "r_set", "r_check")
           \/ ReaderNotify("d_notify", "d_set", "r_top")
           \/ ReaderTop \/ ReaderWake \/ ReaderCheck \/ ReadResults \/ CountRead
           \/ ReaderNotifyWriter
  <2>1. UNCHANGED <<m_req_queue, m_res_queue, m_notify_queue, live, ready>>
    BY <1>4 DEF ReaderNotify, ReaderTop, ReaderWake, ReaderCheck, ReaderGoto, ReadResults,
       CountRead, ReaderNotifyWriter
  <2>2. ASSUME NEW i, NEW r, InRead(i, r)' PROVE InRead(i, r)
    <3>1. CASE ReaderNotify("r_notify", "r_set", "r_check") \/ ReaderNotify("d_notify", "d_set", "r_top")
      <4>1. CASE k[Reader] < Len(rd_req)
        <5>1. k'[Reader] = k[Reader] + 1 /\ rd_req' = rd_req
          BY <1>a, <3>1, <4>1 DEF ReaderNotify
        <5>2. i \in 1 .. Len(rd_req) /\ rd_req[i] = r /\ i >= k[Reader] + 1
          BY <1>a, <2>2, <5>1 DEF InRead, InSeq
        <5> QED
          BY <1>a, <5>2 DEF InRead, InSeq
      <4>2. CASE ~(k[Reader] < Len(rd_req))
        BY <2>2, <3>1, <4>2 DEF ReaderNotify, InRead, InSeq
      <4> QED
        BY <4>1, <4>2
    <3>2. CASE ReaderTop \/ ReaderWake \/ ReaderCheck \/ ReadResults \/ CountRead
               \/ ReaderNotifyWriter
      <4>1. /\ rd_req' = rd_req /\ k' = k /\ pc[Reader] \notin {"r_notify", "d_notify"}
        BY <3>2 DEF ReaderTop, ReaderWake, ReaderCheck, ReaderGoto, ReadResults, CountRead,
           ReaderNotifyWriter
      <4> QED
        BY <2>2, <4>1 DEF InRead, InSeq
    <3> QED
      BY <1>4, <3>1, <3>2
  <2>3. ASSUME NEW x, NEW u, NEW i, NEW r, Slot(x, u, i, r)' PROVE Slot(x, u, i, r)
    BY <1>b, <2>1, <2>2, <2>3 DEF Slot, InSeq
  <2> QED
    BY <1>c, <2>1, <2>3, PlaceShrink
<1> QED
  BY <1>1, <1>2, <1>3, <1>4 DEF ReaderThread

\* Every step keeps every request that is not done in one place.
LEMMA PlaceNext ==
  ASSUME FALSE \notin StaleHasRes, Distinct, TypeInv, CountInv, LiveInv, PlaceInv, Waited,
         [Next]_vars
  PROVE  PlaceInv'
<1>a. /\ Writer \in Workers /\ Writer \notin Procs
      /\ pc \in [Threads -> CallerLabels \cup WriterLabels \cup ReaderLabels]
      /\ Writer \in Threads
  BY ThreadAssumption DEF TypeInv, Placed, Workers, Threads
<1>1. CASE \E t \in Procs : Caller(t)
  BY <1>1, PlaceCaller
<1>2. CASE WriterThread
  <2>1. CASE WriteRequests(Writer)
    BY <1>a, <2>1, PlaceWriteRequests
  <2>2. CASE WriterTop \/ WriterSleep \/ WriterWake \/ WriterLock \/ WriterUnlock
    <3>1. UNCHANGED <<queueVars, live, ready>> /\ pc'[Writer] \notin WriteLabels
      BY <1>a, <2>2 DEF WriterTop, WriterSleep, WriterWake, WriterLock, WriterUnlock,
         WriteLabels
    <3>2. \A i, r : ~InBatch(Writer, i, r)' /\ ~InCall(Writer, i, r)'
      BY <1>a, <3>1 DEF InBatch, InCall
    <3> QED
      BY <1>a, <1>2, <3>1, <3>2, OnlyWriterThread, PlaceQuiet
  <2> QED
    BY <1>2, <2>1, <2>2 DEF WriterThread
<1>3. CASE ReaderThread
  BY <1>3, PlaceReader
<1>4. CASE FpgaExec \/ (\E t \in Threads : SpuriousWake(t)) \/ Terminated \/ UNCHANGED vars
  <2>1. UNCHANGED <<pc, ip, k, batch, rd_req, m_req_queue, m_res_queue, m_notify_queue,
                    live, ready>>
    BY <1>4 DEF FpgaExec, SpuriousWake, Terminated, vars
  <2>2. ASSUME NEW x, NEW u, NEW i, NEW r, Slot(x, u, i, r)' PROVE Slot(x, u, i, r)
    BY <2>1, <2>2 DEF Slot, InSeq, InRead, InBatch, InCall, Unpushed, Requested, Calling, Call
  <2>3. \A x, u, i, r : Slot(x, u, i, r) => r \in live \ ready
    BY DEF PlaceInv, Held
  <2> QED
    BY <2>1, <2>2, <2>3, PlaceShrink
<1> QED
  BY <1>1, <1>2, <1>3, <1>4 DEF Next

\* A step that keeps what is done: t goes to its next request when this one is.
LEMMA WaitedStep ==
  ASSUME TypeInv, OwnLive, Waited, NEW t \in Threads, Only(t),
         ready \cap live \subseteq ready',
         t \in Procs /\ pc'[t] = "wait" =>
           \/ k'[t] = 1
           \/ /\ pc[t] = "wait" /\ ip'[t] = ip[t]
              /\ k'[t] = k[t] \/ (k'[t] = k[t] + 1 /\ Current(t) \in ready)
  PROVE  Waited'
<1> SUFFICES ASSUME NEW u \in Procs, pc'[u] = "wait", NEW m \in 1 .. k'[u] - 1
             PROVE  Call(u)'.reqs[m] \in ready'
  BY DEF Waited
<1>a. k \in [Threads -> Nat \ {0}] /\ u \in Threads /\ k[u] \in Nat \ {0}
  BY DEF TypeInv, LoopInv, Threads
<1>1. ASSUME pc[u] = "wait", ip'[u] = ip[u], NEW n \in 1 .. Len(Call(u).reqs),
             Call(u).reqs[n] \in ready
      PROVE  Call(u)'.reqs[n] \in ready'
  <2>1. n \in Owned(u)
    BY <1>1 DEF Owned, Requested, Calling, Recording, OwnLabels
  <2>2. Call(u)' = Call(u)
    BY <1>1 DEF Call
  <2> QED
    BY <1>1, <2>1, <2>2 DEF OwnLive
<1>2. pc[u] = "wait" => /\ k[u] \in 1 .. Len(Call(u).reqs) /\ Len(Call(u).reqs) \in Nat
                        /\ Current(u) = Call(u).reqs[k[u]]
  BY CallLoop DEF TypeInv, InLoop, LoopLabels, Current
<1>3. CASE u # t
  <2>1. pc'[u] = pc[u] /\ k'[u] = k[u] /\ ip'[u] = ip[u]
    BY <1>3 DEF Only, Alone, Workers
  <2>2. m \in 1 .. Len(Call(u).reqs) /\ Call(u).reqs[m] \in ready
    BY <1>a, <1>2, <2>1 DEF Waited
  <2> QED
    BY <1>1, <2>1, <2>2
<1>4. CASE u = t /\ k'[t] # 1
  <2>1. /\ pc[t] = "wait" /\ ip'[t] = ip[t]
        /\ k'[t] = k[t] \/ (k'[t] = k[t] + 1 /\ Current(t) \in ready)
    BY <1>4
  <2>2. m \in 1 .. k[t] - 1 \/ (m = k[t] /\ Current(t) \in ready)
    BY <1>a, <1>4, <2>1
  <2>3. m \in 1 .. Len(Call(u).reqs) /\ Call(u).reqs[m] \in ready
    BY <1>a, <1>2, <1>4, <2>1, <2>2 DEF Waited
  <2> QED
    BY <1>1, <1>4, <2>1, <2>3
<1>5. CASE u = t /\ k'[t] = 1
  BY <1>5
<1> QED
  BY <1>3, <1>4, <1>5

\* A caller starts to wait at its first request, and goes on when it is done.
LEMMA WaitedNext ==
  ASSUME Distinct, TypeInv, LiveInv, OwnLive, Waited, [Next]_vars
  PROVE  Waited'
<1>a. /\ pc \in [Threads -> CallerLabels \cup WriterLabels \cup ReaderLabels]
      /\ k \in [Threads -> Nat \ {0}] /\ Procs \subseteq Threads
      /\ Writer \in Threads /\ Reader \in Threads /\ Placed /\ LoopInv
      /\ Writer \notin Procs /\ Reader \notin Procs
  BY ThreadAssumption DEF TypeInv, Placed, LoopInv, Threads
<1>b. ready \cap live \subseteq ready'
  <2>1. CASE \E t \in Procs : NewRequest(t)
    <3>1. PICK t \in Procs : NewRequest(t)
      BY <2>1
    <3>2. Current(t) \notin live
      BY <1>a, <3>1, FreshRequest
    <3> QED
      BY <3>1, <3>2 DEF NewRequest
  <2> QED
    BY <2>1, ReadyStays
<1>1. CASE \E t \in Procs : Caller(t)
  <2>1. PICK t \in Procs : Caller(t)
    BY <1>1
  <2>2. Only(t) /\ t \in Threads /\ t # Writer
    BY <1>a, <2>1, OnlyCaller
  <2>3. pc'[t] = "wait" =>
           \/ k'[t] = 1
           \/ /\ pc[t] = "wait" /\ ip'[t] = ip[t]
              /\ k'[t] = k[t] \/ (k'[t] = k[t] + 1 /\ Current(t) \in ready)
    <3>1. CASE NewRequest(t) \/ PushReqNotify(t) \/ WaitReady(t) \/ WaitSleep(t)
      BY <1>a, <2>2, <3>1 DEF NewRequest, PushReqNotify, WaitReady, WaitSleep, Iterate
    <3>2. CASE RunIncrement(t) \/ StoreWritten(t)
      <4>1. k[t] = 1
        <5>1. pc[t] \in {"run_inc", "store"}
          BY <3>2 DEF RunIncrement, StoreWritten
        <5> QED
          BY <1>a, <5>1, FirstIteration DEF InLoop, LoopLabels, Calling, WriteLabels
      <4> QED
        BY <1>a, <2>2, <3>2, <4>1 DEF RunIncrement, StoreWritten, Return
    <3>3. CASE WriteRequests(t) /\ ~StoreWritten(t)
      <4>1. pc'[t] # "wait"
        BY <1>a, <2>2, <3>3 DEF WriteRequests, WriteSpace, WritePop, WritePush, ShortPulseOp,
           WritePulseCtrl, WriteHasRes, WriteSetRes, WriteNotify, WriteDefer, LoadWritten,
           NextWrite, Return, WriteLabel
      <4> QED
        BY <4>1
    <3>4. CASE Lock(t) \/ Unlock(t) \/ SetHold(t) \/ ReleaseHold(t) \/ WaitFinish(t)
               \/ Pulse(t) \/ ShortPulseOp(t, "pulse_op", "pulse_ctrl") \/ PulseCtrl(t)
               \/ PushReq(t) \/ RunPush(t) \/ HasResSpace(t) \/ NoResSpace(t)
               \/ ShortPulseOp(t, "run_op", "run_ctrl") \/ RunPulseCtrl(t)
               \/ Quit(t) \/ QuitNotify(t) \/ Join(t)
      <4>1. pc'[t] # "wait"
        BY <1>a, <2>2, <3>4 DEF Lock, Unlock, SetHold, ReleaseHold, WaitFinish, Pulse,
           ShortPulseOp, PulseCtrl, PushReq, RunPush, HasResSpace, NoResSpace, RunPulseCtrl,
           Quit, QuitNotify, Join, Iterate
      <4> QED
        BY <4>1
    <3> QED
      BY <2>1, <3>1, <3>2, <3>3, <3>4 DEF Caller
  <2> QED
    BY <1>b, <2>2, <2>3, WaitedStep
<1>2. CASE WriterThread
  BY <1>a, <1>b, <1>2, OnlyWriterThread, WaitedStep
<1>3. CASE ReaderThread
  BY <1>a, <1>b, <1>3, OnlyReaderThread, WaitedStep
<1>4. CASE FpgaExec \/ (\E t \in Threads : SpuriousWake(t)) \/ Terminated \/ UNCHANGED vars
  BY <1>4 DEF FpgaExec, SpuriousWake, Terminated, vars, Waited, Call
<1> QED
  BY <1>1, <1>2, <1>3, <1>4 DEF Next

\* A thread outside the loop of writeRequests holds no batch.
EmptyBatch == \A t \in Workers : pc[t] \notin WriteLabels => batch[t] = <<>>

\* A step that leaves the loop of writeRequests drops the batch.
LEMMA EmptyStep ==
  ASSUME EmptyBatch, NEW t \in Threads, Only(t),
         t \in Workers /\ pc'[t] \notin WriteLabels =>
           batch'[t] = <<>> \/ (pc[t] \notin WriteLabels /\ batch'[t] = batch[t])
  PROVE  EmptyBatch'
  BY DEF EmptyBatch, Only, Alone

\* Every step keeps it so.
LEMMA EmptyNext ==
  ASSUME TypeInv, EmptyBatch, [Next]_vars
  PROVE  EmptyBatch'
<1>a. /\ pc \in [Threads -> CallerLabels \cup WriterLabels \cup ReaderLabels]
      /\ batch \in [Threads -> Seq(Req)] /\ m_req_queue \in Seq(Req)
      /\ Procs \subseteq Threads /\ Writer \in Threads /\ Reader \in Threads
      /\ Reader \notin Workers /\ Workers \subseteq Threads
      /\ Writer \in Workers /\ Procs \subseteq Workers
  BY ThreadAssumption DEF TypeInv, Placed, DataTypes, WriteTypes, QueueTypes, Threads, Workers
<1>1. ASSUME NEW t \in Workers, WriteRequests(t)
      PROVE  EmptyBatch'
  <2>1. Only(t)
    BY <1>1, OnlyWriteRequests
  <2>2. CASE WritePop(t)
    <3>1. PICK n : n = MinOf(room[t], Len(m_req_queue))
      OBVIOUS
    <3>2. n = 0 => Take(m_req_queue, n) = <<>>
      BY <1>a, EmptySeq DEF Take
    <3>3. batch'[t] = Take(m_req_queue, n) /\ (n # 0 => pc'[t] \in WriteLabels)
      BY <1>a, <2>2, <3>1 DEF WritePop, WriteLabel, WriteLabels
    <3> QED
      BY <1>a, <2>1, <3>2, <3>3, EmptyStep
  <2>3. CASE WriteHasRes(t) \/ WriteNotify(t) \/ WriteDefer(t)
    <3>1. NextWrite(t)
      BY <2>3 DEF WriteHasRes, WriteNotify, WriteDefer
    <3>2. pc'[t] \notin WriteLabels => batch'[t] = <<>>
      BY <1>a, <3>1 DEF NextWrite, WriteLabel, WriteLabels
    <3> QED
      BY <1>a, <2>1, <3>2, EmptyStep
  <2>4. CASE WriteSpace(t) \/ LoadWritten(t) \/ StoreWritten(t)
    <3>1. batch' = batch /\ pc[t] \notin WriteLabels
      BY <2>4 DEF WriteSpace, LoadWritten, StoreWritten, Calling, WriteLabels
    <3> QED
      BY <1>a, <2>1, <3>1, EmptyStep
  <2>5. CASE WritePush(t) \/ ShortPulseOp(t, "wr_op", "wr_ctrl") \/ WritePulseCtrl(t)
             \/ WriteSetRes(t)
    <3>1. pc'[t] \in WriteLabels
      BY <1>a, <2>5 DEF WritePush, ShortPulseOp, WritePulseCtrl, WriteSetRes, WriteLabels
    <3> QED
      BY <1>a, <2>1, <3>1, EmptyStep
  <2> QED
    BY <1>1, <2>2, <2>3, <2>4, <2>5 DEF WriteRequests
<1>2. CASE \E t \in Procs : Caller(t)
  <2>1. PICK t \in Procs : Caller(t)
    BY <1>2
  <2>2. CASE ~WriteRequests(t)
    <3>1. Only(t)
      BY <2>1, OnlyCaller
    <3>2. batch' = batch /\ pc[t] \notin WriteLabels
      BY <2>1, <2>2 DEF Caller, Lock, Unlock, SetHold, ReleaseHold, WaitFinish, Pulse,
         ShortPulseOp, PulseCtrl, NewRequest, PushReq, PushReqNotify, WaitSleep, WaitReady,
         RunPush, HasResSpace, NoResSpace, RunIncrement, RunPulseCtrl, Quit, QuitNotify,
         Join, Calling, WriteLabels
    <3> QED
      BY <1>a, <3>1, <3>2, EmptyStep
  <2> QED
    BY <1>1, <1>a, <2>1, <2>2
<1>3. CASE WriterThread
  <2>1. CASE WriterTop \/ WriterSleep \/ WriterWake \/ WriterLock \/ WriterUnlock
    <3>1. batch' = batch /\ pc[Writer] \notin WriteLabels
      BY <2>1 DEF WriterTop, WriterSleep, WriterWake, WriterLock, WriterUnlock, WriteLabels
    <3> QED
      BY <1>a, <1>3, <3>1, OnlyWriterThread, EmptyStep
  <2> QED
    BY <1>1, <1>3, <1>a, <2>1 DEF WriterThread
<1>4. CASE ReaderThread
  BY <1>a, <1>4, OnlyReaderThread, EmptyStep
<1>5. CASE FpgaExec \/ (\E t \in Threads : SpuriousWake(t)) \/ Terminated \/ UNCHANGED vars
  BY <1>5 DEF FpgaExec, SpuriousWake, Terminated, vars, EmptyBatch
<1> QED
  BY <1>2, <1>3, <1>4, <1>5 DEF Next

\* Whatever is in a place is alive and not done, so NoDangling holds; a request
\* about to be written waits in m_res_queue for its result.
LEMMA PlacesAreLive ==
  ASSUME Disciplined, AnswersInv, PlaceInv, EmptyBatch
  PROVE  NoDangling
<1>a. /\ TypeInv /\ LockInv /\ OrderInv /\ batch[Reader] = <<>> /\ Threads = Workers \cup {Reader}
      /\ m_req_queue \in Seq(Req) /\ m_res_queue \in Seq(Req) /\ m_notify_queue \in Seq(Req)
      /\ rd_req \in Seq(Req) /\ k[Reader] \in Nat \ {0}
  BY DEF AnswersInv, RoomInv, IdleReader, TypeInv, LoopInv, DataTypes, QueueTypes, ReadTypes,
     Threads, Workers
<1>b. \A x, t, i, r : Slot(x, t, i, r) => r \in live \ ready
  BY DEF PlaceInv, Held
<1>1. /\ SeqSet(m_req_queue) \subseteq live \ ready
      /\ SeqSet(m_res_queue) \subseteq live \ ready
      /\ SeqSet(m_notify_queue) \subseteq live \ ready
  <2>1. ASSUME NEW j \in DOMAIN m_req_queue PROVE m_req_queue[j] \in live \ ready
    <3>1. Slot("req", Reader, j, m_req_queue[j])
      BY <1>a, <2>1 DEF Slot, InSeq
    <3> QED
      BY <1>b, <3>1
  <2>2. ASSUME NEW j \in DOMAIN m_res_queue PROVE m_res_queue[j] \in live \ ready
    <3>1. Slot("res", Reader, j, m_res_queue[j])
      BY <1>a, <2>2 DEF Slot, InSeq
    <3> QED
      BY <1>b, <3>1
  <2>3. ASSUME NEW j \in DOMAIN m_notify_queue PROVE m_notify_queue[j] \in live \ ready
    <3>1. Slot("notify", Reader, j, m_notify_queue[j])
      BY <1>a, <2>3 DEF Slot, InSeq
    <3> QED
      BY <1>b, <3>1
  <2> QED
    BY <2>1, <2>2, <2>3 DEF SeqSet
<1>2. ASSUME NEW t \in Threads, NEW j \in DOMAIN batch[t],
             j > k[t] \/ (pc[t] \in {"wr_push", "wr_op", "wr_ctrl"} /\ j = k[t])
      PROVE  batch[t][j] \in live \ ready
  <2>1. t \in Workers /\ pc[t] \in WriteLabels
    BY <1>a, <1>2 DEF EmptyBatch
  <2>2. j \in 1 .. Len(batch[t]) /\ Current(t) = batch[t][k[t]]
    BY <1>a, <1>2, <2>1, PlaceWorker
  <2>3. CASE j > k[t] \/ pc[t] = "wr_push" \/ ~HasRes[batch[t][j]]
    <3>1. InBatch(t, j, batch[t][j])
      BY <1>2, <2>1, <2>2, <2>3 DEF InBatch, InSeq
    <3>2. Slot("batch", t, j, batch[t][j])
      BY <3>1 DEF Slot
    <3> QED
      BY <1>b, <3>2
  <2>4. CASE j = k[t] /\ pc[t] \in {"wr_op", "wr_ctrl"} /\ HasRes[batch[t][j]]
    <3>1. OthersIdle(t)
      BY <1>a, <2>1, <2>4, WorkAlone DEF TypeInv, WorkLabels, CountLabels, WriteLabels
    <3>2. Unwritten(t) = <<batch[t][j]>>
      BY <2>2, <2>4 DEF Unwritten
    <3>3. Arriving \in Seq(Result) /\ batch[t][j] \in Result
      BY <1>a, <2>2, <2>4, <2>1, OrderTypes, PlaceWorker DEF Result
    <3>4. m_res_queue = Append(Arriving, batch[t][j])
      <4>1. m_res_queue = Arriving \o <<batch[t][j]>>
        BY <1>a, <2>1, <3>1, <3>2 DEF OrderInv, Queued
      <4> QED
        BY <3>3, <4>1, AppendIsConcat
    <3>5. batch[t][j] \in SeqSet(m_res_queue)
      BY <3>3, <3>4, AppendProperties, LenProperties DEF SeqSet
    <3> QED
      BY <1>1, <3>5
  <2> QED
    BY <1>2, <2>3, <2>4
<1>3. ASSUME NEW j \in DOMAIN rd_req,
             j > k[Reader] \/ (pc[Reader] \in {"r_set", "d_set"} /\ j = k[Reader])
      PROVE  rd_req[j] \in live \ ready
  <2>1. InRead(j, rd_req[j])
    BY <1>a, <1>3 DEF InRead, InSeq
  <2>2. Slot("read", Reader, j, rd_req[j])
    BY <2>1 DEF Slot
  <2> QED
    BY <1>b, <2>2
<1> QED
  BY <1>1, <1>2, <1>3 DEF NoDangling

\* The inductive invariant of the places.
PlacesInv == AnswersInv /\ LiveInv /\ OwnLive /\ PlaceInv /\ Waited /\ EmptyBatch

\* It holds at first, and every step keeps it.
LEMMA PlacesInductive ==
  ASSUME Disciplined, Distinct, FALSE \notin StaleHasRes
  PROVE  (Init => PlacesInv) /\ (PlacesInv /\ [Next]_vars => PlacesInv')
<1>1. Init => PlacesInv
  <2> SUFFICES ASSUME Init PROVE PlacesInv
    OBVIOUS
  <2>1. AnswersInv /\ LiveInv
    BY AnswersInductive DEF LiveInv, Init
  <2>2. OwnLive /\ Waited
    BY DEF OwnLive, Waited, Init, Owned, Requested, Recording, OwnLabels, RunLabels, Threads
  <2>3. EmptyBatch
    BY DEF EmptyBatch, Init, Workers, Threads
  <2>4. PlaceInv
    <3>1. ASSUME NEW x, NEW t, NEW i, NEW r PROVE ~Slot(x, t, i, r)
      <4>1. ~InSeq(<<>>, i, r)
        BY EmptySeq DEF InSeq
      <4>2. ~InBatch(t, i, r)
        BY DEF InBatch, Init, WriteLabels, Workers, Threads
      <4>3. ~InCall(t, i, r)
        BY DEF InCall, Unpushed, Requested, Init, Threads
      <4> QED
        BY <4>1, <4>2, <4>3 DEF Slot, InRead, Init
    <3> QED
      BY <3>1 DEF PlaceInv, Apart, Held
  <2> QED
    BY <2>1, <2>2, <2>3, <2>4 DEF PlacesInv
<1>2. PlacesInv /\ [Next]_vars => PlacesInv'
  <2> SUFFICES ASSUME PlacesInv, [Next]_vars PROVE PlacesInv'
    OBVIOUS
  <2>1. TypeInv /\ CountInv
    BY DEF PlacesInv, AnswersInv, RoomInv
  <2>2. AnswersInv' /\ LiveInv' /\ OwnLive' /\ Waited' /\ EmptyBatch'
    BY <2>1, AnswersInductive, LiveNext, OwnNext, WaitedNext, EmptyNext DEF PlacesInv
  <2>3. PlaceInv'
    BY <2>1, PlaceNext DEF PlacesInv
  <2> QED
    BY <2>2, <2>3 DEF PlacesInv
<1> QED
  BY <1>1, <1>2

\* NoDangling: whatever the threads, programs and bounds, no queue and no local
\* array holds a pointer to a destroyed or completed request that will be used
\* again.  The reason is PlaceInv: a request that is not done is in one place
\* only, so whoever completes it holds the last pointer.  The conditions are
\* those of AnswersAreFinal.
THEOREM NothingDangles ==
  Disciplined /\ Distinct /\ FALSE \notin StaleHasRes => (Spec => []NoDangling)
<1> SUFFICES ASSUME Disciplined, Distinct, FALSE \notin StaleHasRes
             PROVE  Spec => []NoDangling
  OBVIOUS
<1>1. (Init => PlacesInv) /\ (PlacesInv /\ [Next]_vars => PlacesInv')
  BY PlacesInductive
<1>2. PlacesInv => NoDangling
  BY PlacesAreLive DEF PlacesInv
<1> QED
  BY <1>1, <1>2, PTL DEF Spec

-----------------------------------------------------------------------------
(* The engine implements PulserService: each step of the threads is one    *)
(* step of the service or none.                                            *)

\* What is done has been constructed, and what is not done has no answer.
DoneInv == \A r \in ready : Constructed(r)
Blank   == \A r \in Req \ ready : res[r] = Zero

\* The last elements of a sequence.
LEMMA FromProperties ==
  ASSUME NEW S, NEW q \in Seq(S), NEW i \in 1 .. Len(q) + 1
  PROVE  /\ From(q, i) \in Seq(S) /\ SeqSet(From(q, i)) = {q[j] : j \in i .. Len(q)}
         /\ From(q, 1) = q /\ (i = Len(q) + 1 => From(q, i) = <<>>)
         /\ Len(From(q, i)) = Len(q) - i + 1
         /\ \A j \in 1 .. Len(q) - i + 1 : From(q, i)[j] = q[i + j - 1]
<1>1. Len(q) \in Nat /\ \A j \in 1 .. Len(q) : q[j] \in S
  BY LenProperties, ElementOfSeq
<1>2. From(q, 1) = q
  BY SubSeqFull DEF From
<1>3. i = Len(q) + 1 => From(q, i) = <<>>
  BY <1>1, SubSeqEmpty DEF From
<1>4. /\ From(q, i) \in Seq(S)
      /\ Len(From(q, i)) = Len(q) - i + 1
      /\ \A j \in 1 .. Len(q) - i + 1 : From(q, i)[j] = q[i + j - 1]
  <2>1. \A j \in i .. Len(q) : q[j] \in S
    BY <1>1
  <2>2. /\ SubSeq(q, i, Len(q)) \in Seq(S)
        /\ Len(SubSeq(q, i, Len(q))) = IF i <= Len(q) THEN Len(q) - i + 1 ELSE 0
        /\ \A j \in 1 .. Len(q) - i + 1 : SubSeq(q, i, Len(q))[j] = q[i + j - 1]
    BY <1>1, <2>1, SubSeqProperties
  <2> QED
    BY <1>1, <2>2 DEF From
<1>5. SeqSet(From(q, i)) = {q[j] : j \in i .. Len(q)}
  <2> DEFINE f == From(q, i)
  <2>0. DOMAIN f = 1 .. Len(q) - i + 1
    BY <1>4, LenProperties
  <2>1. \A j \in 1 .. Len(q) - i + 1 : f[j] = q[i + j - 1]
    BY <1>4
  <2> HIDE DEF f
  <2>2. \A j \in i .. Len(q) : /\ j - i + 1 \in 1 .. Len(q) - i + 1
                               /\ f[j - i + 1] = q[j]
    <3> TAKE j \in i .. Len(q)
    <3>1. j - i + 1 \in 1 .. Len(q) - i + 1 /\ i + (j - i + 1) - 1 = j
      BY <1>1
    <3> QED
      BY <2>1, <3>1
  <2>3. \A j \in 1 .. Len(q) - i + 1 : i + j - 1 \in i .. Len(q)
    BY <1>1
  <2>4. ASSUME NEW x \in SeqSet(f) PROVE x \in {q[j] : j \in i .. Len(q)}
    <3>1. PICK j \in 1 .. Len(q) - i + 1 : x = f[j]
      BY <2>0, <2>4 DEF SeqSet
    <3> QED
      BY <2>1, <2>3, <3>1
  <2>5. ASSUME NEW x \in {q[j] : j \in i .. Len(q)} PROVE x \in SeqSet(f)
    <3>1. PICK j \in i .. Len(q) : x = q[j]
      BY <2>5
    <3>2. PICK n : n = j - i + 1
      OBVIOUS
    <3>3. n \in DOMAIN f /\ x = f[n]
      BY <2>0, <2>2, <3>1, <3>2
    <3> QED
      BY <3>3 DEF SeqSet
  <2>6. SeqSet(f) = {q[j] : j \in i .. Len(q)}
    BY <2>4, <2>5
  <2> QED
    BY <2>6 DEF f
<1> QED
  BY <1>2, <1>3, <1>4, <1>5

\* The first of what is left in a sequence, with another behind it.
LEMMA FromFirst ==
  ASSUME NEW S, NEW q \in Seq(S), NEW i \in 1 .. Len(q), NEW z \in Seq(S)
  PROVE  /\ From(q, i) \o z # <<>> /\ Head(From(q, i) \o z) = q[i]
         /\ Tail(From(q, i) \o z) = From(q, i + 1) \o z
<1>a. /\ Len(q) \in Nat /\ i \in 1 .. Len(q) + 1 /\ i + 1 \in 1 .. Len(q) + 1
      /\ q[i] \in S /\ Len(q) \in i .. Len(q)
  BY LenProperties, ElementOfSeq
<1> DEFINE one  == <<q[i]>>
           rest == From(q, i + 1)
<1>1. one \in Seq(S) /\ Len(one) = 1 /\ one[1] = q[i] /\ rest \in Seq(S)
  <2>1. rest \in Seq(S)
    BY <1>a, FromProperties
  <2> QED
    BY <1>a, <2>1
<1>2. From(q, i) = one \o rest
  BY <1>a, SubSeqRecursiveFirst DEF From
<1> HIDE DEF one, rest
<1>3. From(q, i) \o z = one \o (rest \o z)
  <2>1. PICK a \in Seq(S), b \in Seq(S) : a = one /\ b = rest
    BY <1>1
  <2>2. (a \o b) \o z = a \o (b \o z)
    BY ConcatAssociative, SMTT(20)
  <2> QED
    BY <1>2, <2>1, <2>2
<1> DEFINE tl == rest \o z
<1>4. tl \in Seq(S)
  BY <1>1, ConcatProperties
<1> HIDE DEF tl
<1> DEFINE w == one \o tl
<1>5. /\ w \in Seq(S) /\ Len(w) = 1 + Len(tl) /\ Len(tl) \in Nat
      /\ \A j \in 1 .. 1 + Len(tl) : w[j] = IF j <= 1 THEN one[j] ELSE tl[j - 1]
  <2>1. /\ one \o tl \in Seq(S) /\ Len(one \o tl) = Len(one) + Len(tl) /\ Len(tl) \in Nat
        /\ \A j \in 1 .. Len(one) + Len(tl) :
             (one \o tl)[j] = IF j <= Len(one) THEN one[j] ELSE tl[j - Len(one)]
    BY <1>1, <1>4, ConcatProperties, LenProperties
  <2> QED
    BY <1>1, <2>1
<1> HIDE DEF w
<1>6. w # <<>> /\ w[1] = q[i]
  BY <1>1, <1>5, EmptySeq
<1>7. Head(w) = w[1]
  BY <1>5, <1>6
<1>8. Tail(w) = tl
  <2>1. /\ Tail(w) \in Seq(S) /\ Len(Tail(w)) = Len(tl)
        /\ \A j \in 1 .. Len(tl) : Tail(w)[j] = w[j + 1]
    BY <1>5, <1>6, HeadTailProperties
  <2>2. \A j \in 1 .. Len(tl) : Tail(w)[j] = tl[j]
    BY <1>5, <2>1
  <2> QED
    BY <1>4, <2>1, <2>2, SeqEqual
<1> QED
  BY <1>3, <1>6, <1>7, <1>8 DEF w, tl, rest

\* What is in a sequence.
LEMMA SetConcat ==
  ASSUME NEW S, NEW a \in Seq(S), NEW b \in Seq(S)
  PROVE  SeqSet(a \o b) = SeqSet(a) \cup SeqSet(b)
<1> DEFINE w == a \o b
<1>1. /\ w \in Seq(S) /\ DOMAIN w = 1 .. Len(a) + Len(b) /\ Len(a) \in Nat /\ Len(b) \in Nat
      /\ \A j \in 1 .. Len(a) + Len(b) : w[j] = IF j <= Len(a) THEN a[j] ELSE b[j - Len(a)]
  BY ConcatProperties, LenProperties
<1> HIDE DEF w
<1>2. DOMAIN a = 1 .. Len(a) /\ DOMAIN b = 1 .. Len(b)
  BY LenProperties
<1>3. ASSUME NEW x \in SeqSet(w) PROVE x \in SeqSet(a) \cup SeqSet(b)
  <2>1. PICK j \in 1 .. Len(a) + Len(b) : w[j] = x
    BY <1>1, <1>3 DEF SeqSet
  <2>2. CASE j <= Len(a)
    <3>1. j \in DOMAIN a /\ x = a[j]
      BY <1>1, <1>2, <2>1, <2>2
    <3> QED
      BY <3>1 DEF SeqSet
  <2>3. CASE ~(j <= Len(a))
    <3>1. PICK n : n = j - Len(a)
      OBVIOUS
    <3>2. n \in DOMAIN b /\ x = b[n]
      BY <1>1, <1>2, <2>1, <2>3, <3>1
    <3> QED
      BY <3>2 DEF SeqSet
  <2> QED
    BY <2>2, <2>3
<1>4. ASSUME NEW x \in SeqSet(a) PROVE x \in SeqSet(w)
  BY <1>1, <1>2, <1>4 DEF SeqSet
<1>5. ASSUME NEW x \in SeqSet(b) PROVE x \in SeqSet(w)
  <2>1. PICK j \in 1 .. Len(b) : b[j] = x
    BY <1>2, <1>5 DEF SeqSet
  <2>2. /\ j + Len(a) \in 1 .. Len(a) + Len(b) /\ ~(j + Len(a) <= Len(a))
        /\ j + Len(a) - Len(a) = j
    BY <1>1
  <2>3. w[j + Len(a)] = x
    BY <1>1, <2>1, <2>2
  <2> QED
    BY <1>1, <2>2, <2>3 DEF SeqSet
<1>6. SeqSet(w) = SeqSet(a) \cup SeqSet(b)
  BY <1>3, <1>4, <1>5
<1> QED
  BY <1>6 DEF w

LEMMA SetAppend ==
  ASSUME NEW S, NEW q \in Seq(S), NEW x \in S
  PROVE  SeqSet(Append(q, x)) = SeqSet(q) \cup {x}
<1>1. SeqSet(<<x>>) = {x}
  BY DEF SeqSet
<1>2. <<x>> \in Seq(S)
  OBVIOUS
<1>3. SeqSet(q \o <<x>>) = SeqSet(q) \cup SeqSet(<<x>>)
  BY <1>2, SetConcat
<1> QED
  BY <1>1, <1>3, AppendIsConcat

-----------------------------------------------------------------------------
(* The steps of the service                                                *)

ServiceStep == [Service!Next]_(Service!vars)

\* A step that its callers do not see.
LEMMA ServiceStutters ==
  UNCHANGED <<ToWrite, Owing, Deferred, ready, res>> => ServiceStep
  BY DEF ServiceStep, Service!vars

\* reqSync queues a request that is not known yet.
LEMMA ServiceAsks ==
  ASSUME NEW r \in Req, r \notin SeqSet(ToWrite) \cup SeqSet(Owing) \cup Deferred \cup ready,
         ToWrite' = Append(ToWrite, r), UNCHANGED <<Owing, Deferred, ready, res>>
  PROVE  ServiceStep
<1>1. r \notin Service!Known
  BY DEF Service!Known, SeqSet
<1>2. Service!Ask(r)
  BY <1>1 DEF Service!Ask
<1> QED
  BY <1>2 DEF ServiceStep, Service!Next

\* run writes one.
LEMMA ServiceWritesOwn ==
  ASSUME NEW r \in Req, r \notin SeqSet(ToWrite) \cup SeqSet(Owing) \cup Deferred \cup ready,
         HasRes[r], Owing' = Append(Owing, r), UNCHANGED <<ToWrite, Deferred, ready, res>>
  PROVE  ServiceStep
<1>1. r \notin Service!Known
  BY DEF Service!Known, SeqSet
<1>2. Service!WriteOwn(r)
  BY <1>1 DEF Service!WriteOwn
<1> QED
  BY <1>2 DEF ServiceStep, Service!Next

\* writeRequests writes the first.
LEMMA ServiceWrites ==
  ASSUME NEW r, ToWrite # <<>>, Head(ToWrite) = r, ToWrite' = Tail(ToWrite),
         IF HasRes[r] THEN Owing' = Append(Owing, r) /\ UNCHANGED Deferred
                      ELSE Deferred' = Deferred \cup {r} /\ UNCHANGED Owing,
         UNCHANGED <<ready, res>>
  PROVE  ServiceStep
<1>1. Service!Write
  BY DEF Service!Write
<1> QED
  BY <1>1 DEF ServiceStep, Service!Next

\* The reader completes the request of the first result.
LEMMA ServiceAnswers ==
  ASSUME NEW r, Owing # <<>>, Head(Owing) = r, Owing' = Tail(Owing),
         ready' = ready \cup {r}, res' = [res EXCEPT ![r] = r],
         UNCHANGED <<ToWrite, Deferred>>
  PROVE  ServiceStep
<1>1. Service!Answer
  BY DEF Service!Answer
<1> QED
  BY <1>1 DEF ServiceStep, Service!Next

\* The reader or writeRequests completes one that returns nothing.
LEMMA ServiceFinishes ==
  ASSUME NEW r \in Req, r \in Deferred, Deferred' = Deferred \ {r},
         ready' = ready \cup {r}, UNCHANGED <<ToWrite, Owing, res>>
  PROVE  ServiceStep
<1>1. Service!Finish(r)
  BY DEF Service!Finish
<1> QED
  BY <1>1 DEF ServiceStep, Service!Next

\* A step of the service completes only what was due, and answers only that.
LEMMA ServiceCompletes ==
  ASSUME ServiceStep, Blank, Owing \in Seq(Result), res \in [Req -> Req \cup {Zero, Garbage}]
  PROVE  Blank' /\ ready' \subseteq ready \cup SeqSet(Owing) \cup Deferred
<1>1. CASE UNCHANGED Service!vars
  BY <1>1 DEF Service!vars, Blank
<1>2. CASE \E r \in Req : Service!Ask(r) \/ Service!WriteOwn(r) \/ Service!Finish(r)
  BY <1>2 DEF Service!Ask, Service!WriteOwn, Service!Finish, Blank
<1>3. CASE Service!Write
  BY <1>3 DEF Service!Write, Blank
<1>4. CASE Service!Answer
  <2>1. Owing # <<>> /\ ready' = ready \cup {Head(Owing)}
        /\ res' = [res EXCEPT ![Head(Owing)] = Head(Owing)]
    BY <1>4 DEF Service!Answer
  <2>2. Head(Owing) \in SeqSet(Owing)
    <3>1. Owing[1] = Head(Owing) /\ 1 \in DOMAIN Owing
      BY <2>1, EmptySeq, LenProperties
    <3> QED
      BY <3>1 DEF SeqSet
  <2>3. Blank'
    BY <2>1 DEF Blank
  <2> QED
    BY <2>1, <2>2, <2>3
<1> QED
  BY <1>1, <1>2, <1>3, <1>4 DEF ServiceStep, Service!Next

\* At first nothing has been asked for.
LEMMA ServiceInit == Init => Service!Init
<1> SUFFICES ASSUME Init PROVE Service!Init
  OBVIOUS
<1>1. SeqSet(<<>>) = {} /\ <<>> \o <<>> = <<>>
  BY EmptySeq, ConcatEmptySeq DEF SeqSet
<1>2. InHand = <<>> /\ ReadLeft = <<>> /\ DumpLeft = <<>>
  BY ThreadAssumption DEF Init, InHand, ReadLeft, DumpLeft, Threads
<1>3. Unchecked = {}
  BY DEF Init, Unchecked, Threads
<1> QED
  BY <1>1, <1>2, <1>3 DEF Service!Init, Init, ToWrite, Owing, Deferred

-----------------------------------------------------------------------------
(* What a step leaves alone                                                *)

\* The types of what is to be written and of what is owed.
LEMMA ServiceTypes ==
  ASSUME TypeInv, LockInv
  PROVE  /\ \A t \in Workers : BatchLeft(t) \in Seq(Req)
         /\ InHand \in Seq(Req) /\ m_req_queue \in Seq(Req) /\ ToWrite \in Seq(Req)
         /\ ReadLeft \in Seq(Result) /\ fpga_out \in Seq(Result) /\ fpga_cmds \in Seq(Result)
         /\ fpga_out \o fpga_cmds \in Seq(Result) /\ Owing \in Seq(Result)
         /\ res \in [Req -> Req \cup {Zero, Garbage}]
<1>0. <<>> \in Seq(Req) /\ <<>> \in Seq(Result)
  BY EmptySeq
<1>1. ASSUME NEW t \in Workers PROVE BatchLeft(t) \in Seq(Req)
  <2>1. CASE pc[t] \in WriteLabels
    <3>1. k[t] \in 1 .. Len(batch[t]) /\ batch[t] \in Seq(Req) /\ Len(batch[t]) \in Nat
      BY <2>1, PlaceWorker
    <3>2. k[t] \in 1 .. Len(batch[t]) + 1 /\ k[t] + 1 \in 1 .. Len(batch[t]) + 1
      BY <3>1
    <3>3. From(batch[t], k[t]) \in Seq(Req) /\ From(batch[t], k[t] + 1) \in Seq(Req)
      BY <3>1, <3>2, FromProperties
    <3> QED
      BY <1>0, <3>3 DEF BatchLeft
  <2>2. CASE pc[t] \notin WriteLabels
    BY <1>0, <2>2 DEF BatchLeft, WriteLabels
  <2> QED
    BY <2>1, <2>2
<1>2. InHand \in Seq(Req)
  BY <1>0, <1>1 DEF InHand, LockInv, Workers
<1>3. m_req_queue \in Seq(Req) /\ res \in [Req -> Req \cup {Zero, Garbage}]
  BY DEF TypeInv, DataTypes, QueueTypes, ReqTypes
<1>4. ToWrite \in Seq(Req)
  BY <1>2, <1>3, ConcatProperties DEF ToWrite
<1>5. fpga_out \in Seq(Result) /\ fpga_cmds \in Seq(Result) /\ rd_res \in Seq(Result)
  BY OrderTypes
<1>6. ReadLeft \in Seq(Result)
  <2>1. CASE pc[Reader] \in {"r_set", "r_notify"}
    <3>1. k[Reader] \in 1 .. Len(rd_res) /\ Len(rd_res) \in Nat
      <4>1. k[Reader] \in 1 .. Len(rd_req) /\ Len(rd_req) <= Len(rd_res)
        BY <2>1 DEF TypeInv, LoopInv, ReaderLoop
      <4>2. rd_req \in Seq(Req)
        BY OrderTypes
      <4> QED
        BY <1>5, <4>1, <4>2, LenProperties
    <3>2. k[Reader] \in 1 .. Len(rd_res) + 1 /\ k[Reader] + 1 \in 1 .. Len(rd_res) + 1
      BY <3>1
    <3>3. From(rd_res, k[Reader]) \in Seq(Result) /\ From(rd_res, k[Reader] + 1) \in Seq(Result)
      BY <1>5, <3>2, FromProperties
    <3> QED
      BY <2>1, <3>3 DEF ReadLeft
  <2>2. CASE pc[Reader] \notin {"r_set", "r_notify"}
    BY <1>0, <1>5, <2>2 DEF ReadLeft
  <2> QED
    BY <2>1, <2>2
<1>7. fpga_out \o fpga_cmds \in Seq(Result)
  BY <1>5, ConcatProperties
<1>8. Owing \in Seq(Result)
  BY <1>6, <1>7, ConcatProperties DEF Owing
<1> QED
  BY <1>1, <1>2, <1>3, <1>4, <1>5, <1>6, <1>7, <1>8

\* A thread outside the loop of writeRequests takes nothing in hand, locks or
\* unlocks.
LEMMA HandStays ==
  ASSUME LockInv, NEW t \in Workers \cup {Reader}, Only(t),
         pc[t] \notin WriteLabels, pc'[t] \notin WriteLabels,
         m_lock' = m_lock \/ {m_lock, m_lock'} \subseteq {None, t}
  PROVE  InHand' = InHand
<1>1. BatchLeft(t) = <<>> /\ BatchLeft(t)' = <<>>
  BY DEF BatchLeft, WriteLabels
<1>2. CASE {m_lock, m_lock'} \subseteq {None, t}
  <2>1. InHand = <<>>
    BY <1>1, <1>2 DEF InHand
  <2>2. InHand' = <<>>
    <3>1. CASE m_lock' = t
      <4>1. BatchLeft(m_lock') = BatchLeft(t)
        BY <3>1
      <4> QED
        BY <1>1, <3>1 DEF InHand, BatchLeft, WriteLabels
    <3>2. CASE m_lock' = None
      BY <3>2 DEF InHand
    <3> QED
      BY <1>2, <3>1, <3>2
  <2> QED
    BY <2>1, <2>2
<1>3. CASE m_lock' = m_lock /\ m_lock # t /\ m_lock # None
  <2>1. PICK h \in Workers \ {t} : h = m_lock /\ h = m_lock'
    BY <1>3 DEF LockInv, Workers
  <2>2. pc'[h] = pc[h] /\ k'[h] = k[h] /\ batch'[h] = batch[h]
    BY DEF Only, Alone
  <2>3. InHand = BatchLeft(h)
    BY <1>3, <2>1 DEF InHand
  <2>4. InHand' = CASE pc'[h] \in {"wr_push", "wr_op", "wr_ctrl"} -> From(batch'[h], k'[h])
                    [] pc'[h] \in {"wr_check", "wr_notify"} -> From(batch'[h], k'[h] + 1)
                    [] OTHER -> <<>>
    BY <1>3, <2>1 DEF InHand, BatchLeft, From
  <2> QED
    BY <2>2, <2>3, <2>4 DEF BatchLeft
<1> QED
  BY <1>2, <1>3

\* What t leaves unchecked, and the other threads.
Mine(t)  == IF pc[t] = "wr_check" /\ ~HasRes[Current(t)] THEN {Current(t)} ELSE {}
UncheckedBut(t) ==
  {Current(u) : u \in {v \in Workers \ {t} : pc[v] = "wr_check" /\ ~HasRes[Current(v)]}}

LEMMA UncheckedStays ==
  ASSUME Placed, Placed', NEW t \in Workers \cup {Reader}, Only(t)
  PROVE  /\ Unchecked = UncheckedBut(t) \cup Mine(t)
         /\ Unchecked' = UncheckedBut(t) \cup Mine(t)'
<1>1. /\ Threads = Workers \cup {Reader}
      /\ pc[Reader] # "wr_check" /\ pc'[Reader] # "wr_check"
  BY DEF Placed, Workers, Threads, ReaderLabels
<1>2. Unchecked = UncheckedBut(t) \cup Mine(t)
  BY <1>1 DEF Unchecked, UncheckedBut, Mine
<1>3. Unchecked' = UncheckedBut(t)' \cup Mine(t)'
  BY <1>1 DEF Unchecked, UncheckedBut, Mine
<1>4. \A v \in Workers \ {t} :
        /\ pc'[v] = pc[v]
        /\ pc[v] = "wr_check" => Current(v)' = Current(v)
  BY DEF Only, Alone, Current, Requests, WriteLabels
<1>5. UncheckedBut(t)' = UncheckedBut(t)
  BY <1>4 DEF UncheckedBut
<1> QED
  BY <1>2, <1>3, <1>5

\* A step of a worker leaves alone what the reader has in hand.
LEMMA ReadStays ==
  ASSUME NEW t \in Workers, Only(t), UNCHANGED rd_res
  PROVE  ReadLeft' = ReadLeft /\ DumpLeft' = DumpLeft
<1>1. pc'[Reader] = pc[Reader] /\ k'[Reader] = k[Reader] /\ rd_req' = rd_req
  BY ThreadAssumption DEF Only, Workers
<1> QED
  BY <1>1 DEF ReadLeft, DumpLeft, From

\* The usual step of a worker: it is outside the loop of writeRequests, and
\* leaves the queues, the FPGA and the answers alone.
LEMMA ServiceQuiet ==
  ASSUME LockInv, Placed, Placed', NEW t \in Workers, Only(t),
         pc[t] \notin WriteLabels, pc'[t] \notin WriteLabels,
         m_lock' = m_lock \/ {m_lock, m_lock'} \subseteq {None, t},
         UNCHANGED <<m_req_queue, m_notify_queue, fpga_out, fpga_cmds, rd_res, ready, res>>
  PROVE  ServiceStep
<1>1. InHand' = InHand
  BY HandStays
<1>2. ReadLeft' = ReadLeft /\ DumpLeft' = DumpLeft
  BY ReadStays
<1>3. Unchecked' = Unchecked
  BY UncheckedStays DEF Mine, WriteLabels
<1>4. UNCHANGED <<ToWrite, Owing, Deferred>>
  BY <1>1, <1>2, <1>3 DEF ToWrite, Owing, Deferred, SeqSet
<1> QED
  BY <1>4, ServiceStutters

-----------------------------------------------------------------------------
(* What the service knows is in a place                                    *)

\* Results are owed to requests that the reader holds, or that wait for them in
\* m_res_queue.
LEMMA OwingSlots ==
  ASSUME Disciplined, TypeInv, LockInv, OrderInv, NEW r \in SeqSet(Owing)
  PROVE  \E i : Slot("read", Reader, i, r) \/ (i \in 1 .. Len(Arriving) /\ Slot("res", Reader, i, r))
<1>a. /\ ReadUnpopped \in Seq(Result) /\ fpga_out \in Seq(Result) /\ fpga_cmds \in Seq(Result)
      /\ Arriving \in Seq(Result) /\ ReadLeft \in Seq(Result)
      /\ fpga_out \o fpga_cmds \in Seq(Result) /\ ReadUnpopped \o fpga_out \in Seq(Result)
      /\ rd_res \in Seq(Result) /\ rd_req \in Seq(Result)
  BY OrderTypes, ServiceTypes, ConcatProperties
<1>1. SeqSet(Arriving) = (SeqSet(ReadUnpopped) \cup SeqSet(fpga_out)) \cup SeqSet(fpga_cmds)
  <2>1. SeqSet(ReadUnpopped \o fpga_out) = SeqSet(ReadUnpopped) \cup SeqSet(fpga_out)
    BY <1>a, SetConcat
  <2> DEFINE read == ReadUnpopped \o fpga_out
  <2>2. read \in Seq(Result) /\ Arriving = read \o fpga_cmds
    BY <1>a DEF Arriving
  <2>3. SeqSet(read) = SeqSet(ReadUnpopped) \cup SeqSet(fpga_out)
    BY <2>1
  <2> HIDE DEF read
  <2>4. SeqSet(read \o fpga_cmds) = SeqSet(read) \cup SeqSet(fpga_cmds)
    BY <1>a, <2>2, SetConcat
  <2> QED
    BY <2>2, <2>3, <2>4
<1>2. SeqSet(Owing) = SeqSet(ReadLeft) \cup (SeqSet(fpga_out) \cup SeqSet(fpga_cmds))
  <2>1. SeqSet(fpga_out \o fpga_cmds) = SeqSet(fpga_out) \cup SeqSet(fpga_cmds)
    BY <1>a, SetConcat
  <2> DEFINE due == fpga_out \o fpga_cmds
  <2>2. due \in Seq(Result)
    BY <1>a
  <2> HIDE DEF due
  <2>3. SeqSet(ReadLeft \o due) = SeqSet(ReadLeft) \cup SeqSet(due)
    BY <1>a, <2>2, SetConcat
  <2>4. SeqSet(ReadLeft \o (fpga_out \o fpga_cmds))
          = SeqSet(ReadLeft) \cup SeqSet(fpga_out \o fpga_cmds)
    BY <2>3 DEF due
  <2> QED
    BY <2>1, <2>4 DEF Owing
<1>3. ASSUME r \in SeqSet(Arriving)
      PROVE  \E i : i \in 1 .. Len(Arriving) /\ Slot("res", Reader, i, r)
  <2>1. PICK t \in Workers : OthersIdle(t)
    BY SomeQueued DEF TypeInv
  <2>2. m_res_queue = Arriving \o Unwritten(t) /\ Unwritten(t) \in Seq(Result)
    BY <2>1, UnwrittenTypes DEF OrderInv, Queued
  <2>3. PICK i \in 1 .. Len(Arriving) : Arriving[i] = r
    BY <1>3, <1>a, LenProperties DEF SeqSet
  <2>4. /\ Len(Arriving \o Unwritten(t)) = Len(Arriving) + Len(Unwritten(t))
        /\ Len(Arriving) \in Nat /\ Len(Unwritten(t)) \in Nat
        /\ \A j \in 1 .. Len(Arriving) + Len(Unwritten(t)) :
             (Arriving \o Unwritten(t))[j] =
                IF j <= Len(Arriving) THEN Arriving[j] ELSE Unwritten(t)[j - Len(Arriving)]
    BY <1>a, <2>2, ConcatProperties, LenProperties
  <2>5. i \in 1 .. Len(m_res_queue) /\ m_res_queue[i] = r
    BY <2>2, <2>3, <2>4
  <2> QED
    BY <2>3, <2>5 DEF Slot, InSeq
<1>4. ASSUME r \in SeqSet(ReadLeft), r \notin SeqSet(Arriving)
      PROVE  \E i : Slot("read", Reader, i, r)
  <2>1. pc[Reader] \in {"r_wake", "r_set", "r_notify"}
    BY <1>1, <1>4, EmptySeq DEF ReadLeft, ReadUnpopped, SeqSet
  <2>2. rd_req = rd_res /\ Len(rd_req) \in Nat
    BY <1>a, <2>1, LenProperties DEF OrderInv
  <2>3. k[Reader] \in 1 .. Len(rd_req) \/ (pc[Reader] = "r_wake" /\ k[Reader] = 1)
    BY <2>1 DEF TypeInv, LoopInv, ReaderLoop
  <2>4. PICK f \in Nat \ {0} : /\ f = IF pc[Reader] = "r_notify" THEN k[Reader] + 1 ELSE k[Reader]
                               /\ f \in 1 .. Len(rd_req) + 1
    BY <2>2, <2>3
  <2>5. ReadLeft = From(rd_req, f)
    <3>1. From(rd_req, 1) = rd_req
      <4>1. 1 \in 1 .. Len(rd_req) + 1
        BY <2>2
      <4> QED
        BY <1>a, <4>1, FromProperties
    <3>2. CASE pc[Reader] = "r_wake"
      <4>1. k[Reader] = 1
        BY <3>2 DEF TypeInv, LoopInv, ReaderLoop
      <4> QED
        BY <2>2, <2>4, <3>1, <3>2, <4>1 DEF ReadLeft
    <3>3. CASE pc[Reader] \in {"r_set", "r_notify"}
      BY <2>2, <2>4, <3>3 DEF ReadLeft
    <3> QED
      BY <2>1, <3>2, <3>3
  <2>6. SeqSet(ReadLeft) = {rd_req[j] : j \in f .. Len(rd_req)}
    BY <1>a, <2>4, <2>5, FromProperties
  <2>7. PICK j \in f .. Len(rd_req) : rd_req[j] = r
    BY <1>4, <2>6
  <2>8. InRead(j, r)
    BY <2>1, <2>2, <2>3, <2>4, <2>7 DEF InRead, InSeq
  <2> QED
    BY <2>8 DEF Slot
<1> QED
  BY <1>1, <1>2, <1>3, <1>4

\* What is deferred is in m_notify_queue ...
LEMMA NotifySlots ==
  ASSUME TypeInv, NEW r \in SeqSet(m_notify_queue)
  PROVE  \E i : Slot("notify", Reader, i, r)
<1>1. m_notify_queue \in Seq(Req)
  BY OrderTypes
<1>2. PICK i \in 1 .. Len(m_notify_queue) : m_notify_queue[i] = r
  BY <1>1, LenProperties DEF SeqSet
<1>3. Slot("notify", Reader, i, r)
  BY <1>2 DEF Slot, InSeq
<1> QED
  BY <1>3

\* ... or in the hands of the reader.
LEMMA DumpSlots ==
  ASSUME TypeInv, NEW r \in SeqSet(DumpLeft)
  PROVE  \E i : Slot("read", Reader, i, r)
<1>a. rd_req \in Seq(Req)
  BY OrderTypes
<1>1. pc[Reader] \in {"d_set", "d_notify"}
  BY EmptySeq DEF DumpLeft, SeqSet
<1>2. k[Reader] \in 1 .. Len(rd_req) /\ Len(rd_req) \in Nat
  BY <1>a, <1>1, LenProperties DEF TypeInv, LoopInv, ReaderLoop
<1>3. PICK f \in 1 .. Len(rd_req) + 1 :
        f = IF pc[Reader] = "d_notify" THEN k[Reader] + 1 ELSE k[Reader]
  BY <1>2
<1>4. DumpLeft = From(rd_req, f)
  BY <1>1, <1>3 DEF DumpLeft
<1>5. PICK j \in f .. Len(rd_req) : rd_req[j] = r
  <2>1. SeqSet(From(rd_req, f)) = {rd_req[j] : j \in f .. Len(rd_req)}
    BY <1>a, FromProperties
  <2> QED
    BY <1>4, <2>1
<1>6. InRead(j, r)
  BY <1>1, <1>2, <1>3, <1>5 DEF InRead, InSeq
<1>7. Slot("read", Reader, j, r)
  BY <1>6 DEF Slot
<1> QED
  BY <1>7

\* What writeRequests has written, and not deferred or completed, is in its batch.
LEMMA UncheckedSlots ==
  ASSUME TypeInv, NEW r \in Unchecked
  PROVE  \E t, i : Slot("batch", t, i, r)
<1>1. Threads = Workers \cup {Reader} /\ pc[Reader] # "wr_check"
  BY DEF TypeInv, Placed, ReaderLabels, Threads, Workers
<1>2. PICK t \in Workers : pc[t] = "wr_check" /\ ~HasRes[Current(t)] /\ r = Current(t)
  BY <1>1 DEF Unchecked
<1>3. k[t] \in 1 .. Len(batch[t]) /\ Current(t) = batch[t][k[t]]
  BY <1>2, PlaceWorker DEF WriteLabels
<1>4. InBatch(t, k[t], r)
  BY <1>2, <1>3 DEF InBatch, InSeq, WriteLabels
<1>5. Slot("batch", t, k[t], r)
  BY <1>4 DEF Slot
<1> QED
  BY <1>5

\* A request to be completed without a result is in m_notify_queue, held by the
\* reader or in a batch.
LEMMA DeferredSlots ==
  ASSUME TypeInv, NEW r \in Deferred
  PROVE  \E x \in {"notify", "read", "batch"} : \E t, i : Slot(x, t, i, r)
<1>1. CASE r \in SeqSet(m_notify_queue)
  BY <1>1, NotifySlots
<1>2. CASE r \in SeqSet(DumpLeft)
  BY <1>2, DumpSlots
<1>3. CASE r \in Unchecked
  BY <1>3, UncheckedSlots
<1> QED
  BY <1>1, <1>2, <1>3 DEF Deferred

\* What a thread has popped and not written is in its batch, or also at the end
\* of m_res_queue.
LEMMA HandSlots ==
  ASSUME Disciplined, TypeInv, LockInv, OrderInv, NEW t \in Workers, NEW r \in SeqSet(BatchLeft(t))
  PROVE  \E i : Slot("batch", t, i, r) \/ Slot("res", Reader, i, r)
<1>1. pc[t] \in WriteLabels
  BY EmptySeq DEF BatchLeft, WriteLabels, SeqSet
<1>2. /\ k[t] \in 1 .. Len(batch[t]) /\ Current(t) = batch[t][k[t]] /\ batch[t] \in Seq(Req)
      /\ Current(t) \in Req /\ Len(batch[t]) \in Nat
  BY <1>1, PlaceWorker
<1>3. PICK f \in 1 .. Len(batch[t]) + 1 :
        f = IF pc[t] \in {"wr_check", "wr_notify"} THEN k[t] + 1 ELSE k[t]
  BY <1>2
<1>4. BatchLeft(t) = From(batch[t], f)
  BY <1>1, <1>3 DEF BatchLeft, WriteLabels
<1>5. PICK j \in f .. Len(batch[t]) : batch[t][j] = r
  <2>1. PICK q \in Seq(Req) : q = batch[t]
    BY <1>2
  <2>2. f \in 1 .. Len(q) + 1
    BY <2>1
  <2>3. SeqSet(From(q, f)) = {q[j] : j \in f .. Len(q)}
    BY <2>2, FromProperties
  <2> QED
    BY <1>4, <2>1, <2>3
<1>6. CASE j > k[t] \/ pc[t] = "wr_push" \/ ~HasRes[r]
  <2>1. InBatch(t, j, r)
    BY <1>1, <1>2, <1>3, <1>5, <1>6 DEF InBatch, InSeq
  <2> QED
    BY <2>1 DEF Slot
<1>7. CASE ~(j > k[t]) /\ pc[t] # "wr_push" /\ HasRes[r]
  <2>1. j = k[t] /\ pc[t] \in {"wr_op", "wr_ctrl"} /\ r = Current(t)
    BY <1>1, <1>2, <1>3, <1>5, <1>7 DEF WriteLabels
  <2>2. OthersIdle(t)
    BY <2>1, WorkAlone DEF TypeInv, WorkLabels, CountLabels, WriteLabels
  <2>3. Unwritten(t) = <<r>>
    BY <1>7, <2>1 DEF Unwritten
  <2>4. Arriving \in Seq(Result) /\ r \in Result
    BY <1>2, <2>1, OrderTypes DEF Result
  <2>5. m_res_queue = Append(Arriving, r)
    <3>1. m_res_queue = Arriving \o <<r>>
      BY <2>2, <2>3 DEF OrderInv, Queued
    <3> QED
      BY <2>4, <3>1, AppendIsConcat
  <2>6. Len(Arriving) + 1 \in 1 .. Len(m_res_queue) /\ m_res_queue[Len(Arriving) + 1] = r
    BY <2>4, <2>5, AppendProperties, LenProperties
  <2>7. Slot("res", Reader, Len(Arriving) + 1, r)
    BY <2>6 DEF Slot, InSeq
  <2> QED
    BY <2>7
<1> QED
  BY <1>6, <1>7

\* What the service knows of and has not completed has left its caller's hands.
LEMMA KnownSlots ==
  ASSUME Disciplined, TypeInv, LockInv, OrderInv,
         NEW r \in SeqSet(ToWrite) \cup SeqSet(Owing) \cup Deferred
  PROVE  \E x, t, i : x # "call" /\ Slot(x, t, i, r)
<1>1. CASE r \in SeqSet(ToWrite)
  <2>1. InHand \in Seq(Req) /\ m_req_queue \in Seq(Req)
    BY ServiceTypes
  <2>2. r \in SeqSet(InHand) \/ r \in SeqSet(m_req_queue)
    BY <1>1, <2>1, SetConcat DEF ToWrite
  <2>3. CASE r \in SeqSet(m_req_queue)
    <3>1. PICK i \in 1 .. Len(m_req_queue) : m_req_queue[i] = r
      BY <2>1, <2>3, LenProperties DEF SeqSet
    <3>2. Slot("req", Reader, i, r)
      BY <3>1 DEF Slot, InSeq
    <3> QED
      BY <3>2
  <2>4. CASE r \in SeqSet(InHand)
    <3>1. m_lock \in Workers /\ r \in SeqSet(BatchLeft(m_lock))
      BY <2>4, EmptySeq DEF InHand, SeqSet, LockInv, Workers
    <3>2. \E i : Slot("batch", m_lock, i, r) \/ Slot("res", Reader, i, r)
      BY <3>1, HandSlots
    <3> QED
      BY <3>2
  <2> QED
    BY <2>2, <2>3, <2>4
<1>2. CASE r \in SeqSet(Owing)
  BY <1>2, OwingSlots
<1>3. CASE r \in Deferred
  <2>1. PICK x \in {"notify", "read", "batch"} : \E t, i : Slot(x, t, i, r)
    BY <1>3, DeferredSlots
  <2> QED
    BY <2>1
<1> QED
  BY <1>1, <1>2, <1>3

-----------------------------------------------------------------------------
(* The steps of the callers                                                *)

\* The inductive invariant of the refinement.
EngineInv == PlacesInv /\ DoneInv /\ Blank

\* What the lemmas below use of it.
LEMMA EngineParts ==
  ASSUME EngineInv
  PROVE  /\ TypeInv /\ LockInv /\ PulseInv /\ CountInv /\ OrderInv /\ AnswerInv /\ LiveInv
         /\ PlaceInv /\ DoneInv /\ Blank /\ Placed /\ LoopInv
  BY DEF EngineInv, PlacesInv, AnswersInv, RoomInv, TypeInv

\* A result that is written is the last of those owed.
Extends(a, b, c, d) == a \o (b \o (c \o d)) = (a \o (b \o c)) \o d
LEMMA Extend == \A a, b, c, d \in Seq(Result) : Extends(a, b, c, d)
<1> DEFINE Cat(x, y) == x \o y
<1>1. \A x, y \in Seq(Result) : Cat(x, y) \in Seq(Result)
  BY ConcatProperties
<1>2. \A x, y, z \in Seq(Result) : Cat(Cat(x, y), z) = Cat(x, Cat(y, z))
  BY ConcatAssociative
<1> HIDE DEF Cat
<1>3. \A a, b, c, d \in Seq(Result) : Cat(a, Cat(b, Cat(c, d))) = Cat(Cat(a, Cat(b, c)), d)
  BY <1>1, <1>2
<1> QED
  BY <1>3 DEF Cat, Extends

LEMMA OwingGrows ==
  ASSUME TypeInv, LockInv, NEW r \in Req, fpga_cmds' = fpga_cmds \o <<r>>,
         UNCHANGED <<ReadLeft, fpga_out>>
  PROVE  Owing' = Append(Owing, r)
<1>1. /\ ReadLeft \in Seq(Result) /\ fpga_out \in Seq(Result) /\ fpga_cmds \in Seq(Result)
      /\ Owing \in Seq(Result) /\ r \in Result
  BY ServiceTypes DEF Result
<1> DEFINE one == <<r>>
<1>2. one \in Seq(Result)
  BY <1>1
<1>3. Append(Owing, r) = Owing \o one
  BY <1>1, AppendIsConcat
<1> HIDE DEF one
<1>4. Extends(ReadLeft, fpga_out, fpga_cmds, one)
  BY <1>1, <1>2, Extend
<1>5. Owing' = ReadLeft \o (fpga_out \o (fpga_cmds \o one))
  BY DEF Owing, one
<1> QED
  BY <1>3, <1>4, <1>5 DEF Extends, Owing

\* reqSync pushes a request nobody else knows.
LEMMA ServicePushReq ==
  ASSUME Disciplined, EngineInv, Placed', NEW t \in Procs, PushReq(t)
  PROVE  ServiceStep
<1>a. /\ TypeInv /\ LockInv /\ OrderInv /\ PlaceInv /\ Only(t) /\ t \in Workers
      /\ pc \in [Threads -> CallerLabels \cup WriterLabels \cup ReaderLabels]
      /\ pc[t] = "push" /\ pc'[t] = "pushn" /\ t \in Threads
  <2>1. TypeInv /\ t \in Workers /\ Caller(t)
    BY EngineParts DEF Workers, Caller
  <2>2. pc \in [Threads -> CallerLabels \cup WriterLabels \cup ReaderLabels] /\ t \in Threads
    BY <2>1, PlaceWorker
  <2> QED
    BY <2>1, <2>2, EngineParts, OnlyCaller DEF PushReq
<1>1. /\ k[t] \in 1 .. Len(Call(t).reqs) /\ Current(t) = Call(t).reqs[k[t]]
      /\ Current(t) \in Req
  BY <1>a, PlaceWorker
<1>2. PICK r \in Req : r = Current(t)
  BY <1>1
<1>3. Slot("call", t, k[t], r)
  BY <1>a, <1>1, <1>2 DEF Slot, InCall, Unpushed, Requested, Calling
<1>4. r \notin SeqSet(ToWrite) \cup SeqSet(Owing) \cup Deferred
  BY <1>a, <1>3, KnownSlots DEF PlaceInv, Apart
<1>5. r \notin ready
  BY <1>a, <1>3 DEF PlaceInv, Held
<1>6. ToWrite' = Append(ToWrite, r)
  <2>1. InHand' = InHand
    BY <1>a, HandStays DEF PushReq, WriteLabels
  <2>2. InHand \in Seq(Req) /\ m_req_queue \in Seq(Req)
    BY <1>a, ServiceTypes
  <2>3. m_req_queue' = m_req_queue \o <<r>>
    BY <1>2, <2>2, AppendIsConcat DEF PushReq
  <2>4. Append(InHand \o m_req_queue, r) = InHand \o (m_req_queue \o <<r>>)
    BY <2>2, AppendToLast
  <2> QED
    BY <2>1, <2>3, <2>4 DEF ToWrite
<1>7. ReadLeft' = ReadLeft /\ DumpLeft' = DumpLeft /\ Unchecked' = Unchecked
  BY <1>a, ReadStays, UncheckedStays DEF PushReq, Mine, TypeInv
<1>8. UNCHANGED <<Owing, Deferred, ready, res>>
  BY <1>7 DEF PushReq, Owing, Deferred, SeqSet
<1> QED
  BY <1>4, <1>5, <1>6, <1>8, ServiceAsks

\* run writes its own request: it is the first one in m_res_queue whose result
\* is not owed yet.
LEMMA ServiceRunPulse ==
  ASSUME Disciplined, EngineInv, Placed', NEW t \in Procs, RunPulseCtrl(t)
  PROVE  ServiceStep
<1>a. /\ TypeInv /\ LockInv /\ OrderInv /\ PlaceInv /\ PulseInv /\ AnswerInv /\ LoopInv /\ Placed
      /\ Only(t) /\ t \in Workers /\ t \in Threads /\ Caller(t)
      /\ pc \in [Threads -> CallerLabels \cup WriterLabels \cup ReaderLabels]
      /\ pc[t] = "run_ctrl" /\ pc'[t] \notin WriteLabels
  <2>1. TypeInv /\ t \in Workers /\ Caller(t)
    BY EngineParts DEF Workers, Caller
  <2>2. pc \in [Threads -> CallerLabels \cup WriterLabels \cup ReaderLabels] /\ t \in Threads
    BY <2>1, PlaceWorker
  <2>3. pc[t] = "run_ctrl" /\ pc'[t] \notin WriteLabels
    BY <2>2 DEF RunPulseCtrl, Iterate, WriteLabels
  <2> QED
    BY <2>1, <2>2, <2>3, EngineParts, OnlyCaller
<1> DEFINE q == Call(t).reqs
<1>1. /\ q \in Seq(Req) /\ Len(q) \in Nat /\ k[t] \in 1 .. Len(q) /\ Current(t) = q[k[t]]
      /\ Current(t) \in Req
  BY <1>a, CallLoop DEF InLoop, LoopLabels, Current
<1>2. PICK r \in Req : r = Current(t)
  BY <1>1
<1>3. m_res_queue = Arriving \o From(q, k[t])
  <2>1. OthersIdle(t)
    BY <1>a, WorkAlone DEF WorkLabels
  <2> QED
    BY <1>a, <2>1 DEF OrderInv, Queued, Unwritten, From
<1>4. Len(Arriving) + 1 \in 1 .. Len(m_res_queue) /\ m_res_queue[Len(Arriving) + 1] = r
  <2> DEFINE rest == From(q, k[t])
  <2>1. Arriving \in Seq(Result) /\ rest \in Seq(Result) /\ Len(rest) \in Nat \ {0} /\ rest[1] = r
    <3>1. PICK p \in Seq(Req) : p = q
      BY <1>1
    <3>2. PICK m \in 1 .. Len(p) : m = k[t]
      BY <1>1, <3>1
    <3>3. /\ From(p, m) \in Seq(Req) /\ Len(From(p, m)) = Len(p) - m + 1
          /\ From(p, m)[1] = p[m]
      <4>1. m \in 1 .. Len(p) + 1 /\ 1 \in 1 .. Len(p) - m + 1 /\ m + 1 - 1 = m
        BY LenProperties
      <4> QED
        BY <4>1, FromProperties
    <3>4. rest = From(p, m)
      BY <3>1, <3>2
    <3>5. From(p, m) \in Seq(Result)
      BY <3>3, SeqMonotonic DEF Result
    <3>6. p[m] = r
      BY <1>1, <1>2, <3>1, <3>2
    <3>7. Len(p) - m + 1 \in Nat \ {0}
      BY LenProperties
    <3>8. Arriving \in Seq(Result)
      BY <1>a, OrderTypes
    <3> QED
      BY <3>3, <3>4, <3>5, <3>6, <3>7, <3>8
  <2> HIDE DEF rest
  <2>2. /\ Len(Arriving \o rest) = Len(Arriving) + Len(rest) /\ Len(Arriving) \in Nat
        /\ \A j \in 1 .. Len(Arriving) + Len(rest) :
             (Arriving \o rest)[j] = IF j <= Len(Arriving) THEN Arriving[j]
                                                           ELSE rest[j - Len(Arriving)]
    BY <2>1, ConcatProperties, LenProperties
  <2>3. m_res_queue = Arriving \o rest
    BY <1>3 DEF rest
  <2> QED
    BY <2>1, <2>2, <2>3
<1>5. Slot("res", Reader, Len(Arriving) + 1, r)
  BY <1>4 DEF Slot, InSeq
<1>6. HasRes[r]
  BY <1>a, <1>4 DEF AnswerInv, AllHave
<1>7. InHand = <<>> /\ InHand' = InHand
  <2>1. m_lock = t
    BY <1>a, WorkHolder DEF WorkLabels
  <2>2. InHand = <<>>
    BY <1>a, <2>1 DEF InHand, BatchLeft
  <2> QED
    BY <1>a, <2>2, HandStays DEF RunPulseCtrl, WriteLabels
<1>8. r \notin SeqSet(ToWrite)
  <2>1. m_req_queue \in Seq(Req)
    BY <1>a, ServiceTypes
  <2>2. ToWrite = m_req_queue
    BY <1>7, <2>1, ConcatEmptySeq DEF ToWrite
  <2>3. \A i \in 1 .. Len(m_req_queue) : m_req_queue[i] = r => Slot("req", Reader, i, r)
    BY DEF Slot, InSeq
  <2>4. \A i \in 1 .. Len(m_req_queue) : m_req_queue[i] # r
    BY <1>a, <1>5, <2>3 DEF PlaceInv, Apart
  <2> QED
    BY <2>1, <2>2, <2>4, LenProperties DEF SeqSet
<1>9. r \notin SeqSet(Owing)
  <2>1. \A i : ~Slot("read", Reader, i, r)
    BY <1>a, <1>5 DEF PlaceInv, Apart
  <2>2. \A i \in 1 .. Len(Arriving) : ~Slot("res", Reader, i, r)
    <3>1. Len(Arriving) \in Nat
      BY <1>a, OrderTypes, LenProperties
    <3> QED
      BY <1>a, <1>5, <3>1 DEF PlaceInv, Apart
  <2> QED
    BY <1>a, <2>1, <2>2, OwingSlots
<1>10. r \notin Deferred /\ r \notin ready
  <2>1. \A x \in {"notify", "read", "batch"} : \A u, i : ~Slot(x, u, i, r)
    BY <1>a, <1>5 DEF PlaceInv, Apart
  <2> QED
    BY <1>a, <1>5, <2>1, DeferredSlots DEF PlaceInv, Held
<1>11. ReadLeft' = ReadLeft /\ DumpLeft' = DumpLeft /\ Unchecked' = Unchecked
  BY <1>a, ReadStays, UncheckedStays DEF RunPulseCtrl, Mine, WriteLabels
<1>12. Owing' = Append(Owing, r)
  <2>1. <<r>> \in Seq(Req)
    OBVIOUS
  <2>2. UNCHANGED fpga_out /\ fpga_cmds' = fpga_cmds \o <<r>>
    BY <1>a, <1>2, <2>1, ControlStep DEF RunPulseCtrl, CtrlLabels
  <2> QED
    BY <1>a, <1>11, <2>2, OwingGrows
<1>13. UNCHANGED <<ToWrite, Deferred, ready, res>>
  BY <1>7, <1>11 DEF RunPulseCtrl, ToWrite, Deferred, SeqSet
<1> QED
  BY <1>6, <1>8, <1>9, <1>10, <1>12, <1>13, ServiceWritesOwn

\* A request that is constructed is not done, and has no answer yet.
LEMMA ServiceNewRequest ==
  ASSUME Disciplined, Distinct, EngineInv, Placed', NEW t \in Procs, NewRequest(t)
  PROVE  ServiceStep
<1>a. /\ LockInv /\ Placed /\ LoopInv /\ LiveInv /\ DoneInv /\ Blank /\ Only(t) /\ t \in Workers
      /\ pc \in [Threads -> CallerLabels \cup WriterLabels \cup ReaderLabels] /\ t \in Threads
      /\ res \in [Req -> Req \cup {Zero, Garbage}]
  <2>1. TypeInv /\ t \in Workers /\ Caller(t)
    BY EngineParts DEF Workers, Caller
  <2>2. /\ pc \in [Threads -> CallerLabels \cup WriterLabels \cup ReaderLabels] /\ t \in Threads
    BY <2>1, PlaceWorker
  <2> QED
    BY <2>1, <2>2, EngineParts, OnlyCaller, ServiceTypes
<1>1. Current(t) \in Req
  BY <1>a, CallLoop DEF NewRequest, InLoop
<1>2. PICK r \in Req : r = Current(t)
  BY <1>1
<1>3. r \notin ready
  BY <1>a, <1>2, FreshRequest DEF DoneInv
<1>4. ready' = ready /\ res' = res
  BY <1>a, <1>2, <1>3 DEF NewRequest, Blank
<1>5. pc[t] \notin WriteLabels /\ pc'[t] \notin WriteLabels
  BY <1>a DEF NewRequest, Iterate, Calling, WriteLabels
<1> QED
  BY <1>a, <1>4, <1>5, ServiceQuiet DEF NewRequest

\* A caller's step outside writeRequests.
LEMMA ServiceCaller ==
  ASSUME Disciplined, Distinct, EngineInv, Placed', NEW t \in Procs, Caller(t), ~WriteRequests(t)
  PROVE  ServiceStep
<1>a. /\ TypeInv /\ LockInv /\ PulseInv /\ Placed /\ LoopInv
      /\ Only(t) /\ t \in Workers /\ t \in Threads
      /\ pc \in [Threads -> CallerLabels \cup WriterLabels \cup ReaderLabels]
  <2>1. TypeInv /\ t \in Workers
    BY EngineParts DEF Workers
  <2>2. /\ pc \in [Threads -> CallerLabels \cup WriterLabels \cup ReaderLabels] /\ t \in Threads
    BY <2>1, PlaceWorker
  <2> QED
    BY <2>1, <2>2, EngineParts, OnlyCaller
<1>b. t # Writer
  BY ThreadAssumption
<1>1. CASE NewRequest(t) \/ PushReq(t) \/ RunPulseCtrl(t)
  BY <1>1, ServiceNewRequest, ServicePushReq, ServiceRunPulse
<1>2. CASE Lock(t)
  BY <1>2, <1>a, ServiceQuiet DEF Lock, Calling, WriteLabels
<1>3. CASE Unlock(t)
  <2>1. m_lock = t
    <3>1. ip[t] \in DOMAIN Program[t] /\ Program[t][ip[t]].op \in LockedOps
      BY <1>3, <1>a, ProgramAssumption DEF Unlock, Calling, Call, Placed, LockedOps
    <3> QED
      BY <1>a, <3>1 DEF Disciplined, LockInv
  <2> QED
    BY <1>3, <1>a, <2>1, ServiceQuiet DEF Unlock, Calling, WriteLabels
<1>4. CASE SetHold(t) \/ ReleaseHold(t) \/ WaitFinish(t) \/ Pulse(t)
  BY <1>4, <1>a, ServiceQuiet DEF SetHold, ReleaseHold, WaitFinish, Pulse, Calling, WriteLabels
<1>5. CASE ShortPulseOp(t, "pulse_op", "pulse_ctrl") \/ ShortPulseOp(t, "run_op", "run_ctrl")
  <2>1. UNCHANGED <<fpga_cmds, fpga_out>>
    BY <1>5, <1>a, OperandStep DEF PulseLabels, CtrlLabels
  <2>2. pc[t] \notin WriteLabels /\ pc'[t] \notin WriteLabels
    BY <1>5, <1>a DEF ShortPulseOp, WriteLabels
  <2> QED
    BY <1>5, <1>a, <2>1, <2>2, ServiceQuiet DEF ShortPulseOp
<1>6. CASE PulseCtrl(t)
  <2>1. <<>> \in Seq(Req) /\ fpga_cmds \in Seq(Result)
    BY <1>a, EmptySeq, ServiceTypes
  <2>2. UNCHANGED fpga_out /\ fpga_cmds' = fpga_cmds \o <<>>
    BY <1>6, <1>a, <2>1, ControlStep DEF PulseCtrl, CtrlLabels
  <2>3. UNCHANGED <<fpga_out, fpga_cmds>>
    BY <2>1, <2>2, ConcatEmptySeq
  <2>4. pc[t] \notin WriteLabels /\ pc'[t] \notin WriteLabels
    BY <1>6, <1>a DEF PulseCtrl, WriteLabels
  <2> QED
    BY <1>6, <1>a, <2>3, <2>4, ServiceQuiet DEF PulseCtrl
<1>7. CASE PushReqNotify(t) \/ WaitSleep(t) \/ WaitReady(t)
  <2>1. pc[t] \notin WriteLabels /\ pc'[t] \notin WriteLabels
    BY <1>7, <1>a DEF PushReqNotify, WaitSleep, WaitReady, Iterate, WriteLabels
  <2> QED
    BY <1>7, <1>a, <2>1, ServiceQuiet DEF PushReqNotify, WaitSleep, WaitReady
<1>8. CASE RunPush(t) \/ HasResSpace(t) \/ NoResSpace(t) \/ RunIncrement(t)
  <2>1. pc[t] \notin WriteLabels /\ pc'[t] \notin WriteLabels
    BY <1>8, <1>a DEF RunPush, HasResSpace, NoResSpace, RunIncrement, Iterate, WriteLabels
  <2> QED
    BY <1>8, <1>a, <2>1, ServiceQuiet DEF RunPush, HasResSpace, NoResSpace, RunIncrement
<1>9. CASE Quit(t) \/ QuitNotify(t) \/ Join(t)
  <2>1. pc[t] \notin WriteLabels /\ pc'[t] \notin WriteLabels
    BY <1>9, <1>a DEF Quit, QuitNotify, Join, Calling, WriteLabels
  <2> QED
    BY <1>9, <1>a, <2>1, ServiceQuiet DEF Quit, QuitNotify, Join
<1> QED
  BY <1>1, <1>2, <1>3, <1>4, <1>5, <1>6, <1>7, <1>8, <1>9 DEF Caller

-----------------------------------------------------------------------------
(* The steps of the loop of writeRequests                                  *)

\* The holder of the lock is the only thread that has requests in hand.
LEMMA HolderHand ==
  ASSUME Disciplined, Placed, LockInv, NEW t \in Workers, pc[t] \in WriteLabels \cup {"wr_pop"}
  PROVE  /\ m_lock = t /\ InHand = BatchLeft(t)
         /\ UncheckedBut(t) = {}
<1>1. m_lock = t
  BY WorkHolder DEF WorkLabels, CountLabels
<1>2. \A u \in Workers \ {t} : pc[u] # "wr_check"
  BY <1>1, WorkHolder DEF WorkLabels, CountLabels, WriteLabels
<1>3. t # None
  BY ThreadAssumption DEF Workers, Threads
<1> QED
  BY <1>1, <1>2, <1>3 DEF InHand, UncheckedBut

\* What is in hand after a step that keeps the lock.
LEMMA HolderHandNext ==
  ASSUME NEW t \in Workers, m_lock = t, UNCHANGED m_lock
  PROVE  InHand' = CASE pc'[t] \in {"wr_push", "wr_op", "wr_ctrl"} -> From(batch'[t], k'[t])
                     [] pc'[t] \in {"wr_check", "wr_notify"} -> From(batch'[t], k'[t] + 1)
                     [] OTHER -> <<>>
<1>1. t # None
  BY ThreadAssumption DEF Workers, Threads
<1> QED
  BY <1>1 DEF InHand, BatchLeft, From

\* A step of the holder of the lock that leaves the results and m_notify_queue
\* alone.
LEMMA ServiceHolder ==
  ASSUME Disciplined, EngineInv, Placed', NEW t \in Workers, Only(t),
         pc[t] \in WriteLabels \cup {"wr_pop"},
         UNCHANGED <<fpga_out, fpga_cmds, rd_res, ready, res>>,
         ToWrite' = ToWrite,
         SeqSet(m_notify_queue') \cup Mine(t)' = SeqSet(m_notify_queue) \cup Mine(t)
  PROVE  ServiceStep
<1>1. UncheckedBut(t) = {} /\ Placed
  BY HolderHand, EngineParts
<1>2. Unchecked = Mine(t) /\ Unchecked' = Mine(t)'
  BY <1>1, UncheckedStays
<1>3. ReadLeft' = ReadLeft /\ DumpLeft' = DumpLeft
  BY ReadStays
<1>4. Owing' = Owing
  BY <1>3 DEF Owing
<1>5. Deferred' = Deferred
  BY <1>2, <1>3 DEF Deferred, SeqSet
<1> QED
  BY <1>4, <1>5, ServiceStutters

\* The facts of a thread in the loop.
LEMMA HolderFacts ==
  ASSUME Disciplined, EngineInv, NEW t \in Workers, pc[t] \in WriteLabels
  PROVE  /\ k[t] \in 1 .. Len(batch[t]) /\ batch[t] \in Seq(Req) /\ Len(batch[t]) \in Nat
         /\ Current(t) = batch[t][k[t]] /\ Current(t) \in Req /\ Requests(t) = batch[t]
         /\ m_lock = t /\ InHand = BatchLeft(t) /\ UncheckedBut(t) = {}
<1>1. TypeInv /\ Placed /\ LockInv
  BY EngineParts
<1>2. /\ k[t] \in 1 .. Len(batch[t]) /\ batch[t] \in Seq(Req) /\ Len(batch[t]) \in Nat
      /\ Current(t) = batch[t][k[t]] /\ Current(t) \in Req
  BY <1>1, PlaceWorker
<1> QED
  BY <1>1, <1>2, HolderHand DEF Requests

\* writeRequests takes in hand what it pops.
LEMMA ServicePop ==
  ASSUME Disciplined, EngineInv, Placed', NEW t \in Workers, WritePop(t)
  PROVE  ServiceStep
<1>a. /\ TypeInv /\ LockInv /\ Placed /\ LoopInv /\ Only(t)
      /\ pc \in [Threads -> CallerLabels \cup WriterLabels \cup ReaderLabels]
      /\ k \in [Threads -> Nat \ {0}] /\ batch \in [Threads -> Seq(Req)]
      /\ t \in Threads /\ pc[t] = "wr_pop" /\ room[t] \in Nat /\ m_req_queue \in Seq(Req)
  <2>1. TypeInv /\ WriteRequests(t)
    BY EngineParts DEF WriteRequests
  <2>2. Only(t)
    BY <2>1, OnlyWriteRequests
  <2> QED
    BY <2>1, <2>2, EngineParts, PlaceWorker DEF WritePop
<1>1. k[t] = 1
  BY <1>a, FirstIteration DEF InLoop, LoopLabels, WriteLabels, Calling, Workers
<1>2. m_lock = t /\ InHand = <<>>
  BY <1>a, HolderHand DEF BatchLeft
<1>3. ToWrite = m_req_queue
  BY <1>a, <1>2, ConcatEmptySeq DEF ToWrite
<1>4. PICK n \in 0 .. Len(m_req_queue) : n = MinOf(room[t], Len(m_req_queue))
  BY <1>a, MinOfLength
<1>5. m_req_queue' = Drop(m_req_queue, n) /\ batch'[t] = Take(m_req_queue, n)
  BY <1>a, <1>4 DEF WritePop
<1>6. Take(m_req_queue, n) \o Drop(m_req_queue, n) = m_req_queue
  BY <1>a, TakeAndDrop
<1>7. UNCHANGED m_lock
  BY DEF WritePop
<1>8. InHand' = Take(m_req_queue, n) /\ Mine(t)' = {}
  <2>1. CASE n = 0
    <3>1. pc'[t] \in {"w_unlock", "call"}
      BY <1>a, <1>4, <2>1 DEF WritePop, Return
    <3>2. InHand' = <<>> /\ Mine(t)' = {}
      BY <1>2, <1>7, <3>1, HolderHandNext DEF Mine
    <3>3. Take(m_req_queue, 0) = <<>>
      BY SubSeqEmpty DEF Take
    <3> QED
      BY <2>1, <3>2, <3>3
  <2>2. CASE n # 0
    <3>1. pc'[t] \in {"wr_push", "wr_op"} /\ k'[t] = 1
      BY <1>a, <1>1, <1>4, <2>2 DEF WritePop, WriteLabel
    <3>2. InHand' = From(batch'[t], 1) /\ Mine(t)' = {}
      BY <1>2, <1>7, <3>1, HolderHandNext DEF Mine
    <3>3. Take(m_req_queue, n) \in Seq(Req) /\ Len(Take(m_req_queue, n)) = n
      BY <1>a, TakeDrop
    <3> DEFINE first == Take(m_req_queue, n)
    <3>4. first \in Seq(Req) /\ 1 \in 1 .. Len(first) + 1
      BY <3>3
    <3> HIDE DEF first
    <3>5. From(first, 1) = first
      BY <3>4, FromProperties
    <3> QED
      BY <1>5, <3>2, <3>5 DEF first
  <2> QED
    BY <2>1, <2>2
<1>9. ToWrite' = ToWrite
  BY <1>3, <1>5, <1>6, <1>8 DEF ToWrite
<1>10. Mine(t) = {}
  BY <1>a DEF Mine
<1> QED
  BY <1>a, <1>8, <1>9, <1>10, ServiceHolder DEF WritePop

\* The end of an iteration leaves in hand what it was.
LEMMA HandNextWrite ==
  ASSUME Disciplined, EngineInv, NEW t \in Workers, pc[t] \in {"wr_check", "wr_notify"},
         NextWrite(t), UNCHANGED m_lock
  PROVE  InHand' = InHand /\ Mine(t)' = {}
<1>a. /\ pc \in [Threads -> CallerLabels \cup WriterLabels \cup ReaderLabels]
      /\ k \in [Threads -> Nat \ {0}] /\ batch \in [Threads -> Seq(Req)] /\ t \in Threads
  <2>1. TypeInv
    BY EngineParts
  <2> QED
    BY <2>1, PlaceWorker
<1>b. /\ k[t] \in 1 .. Len(batch[t]) /\ batch[t] \in Seq(Req) /\ Len(batch[t]) \in Nat
      /\ Requests(t) = batch[t] /\ m_lock = t /\ InHand = BatchLeft(t)
  BY HolderFacts DEF WriteLabels
<1>1. InHand = From(batch[t], k[t] + 1)
  BY <1>b DEF BatchLeft
<1>2. CASE ~IsLast(t)
  <2>1. pc'[t] \in {"wr_push", "wr_op"} /\ k'[t] = k[t] + 1 /\ batch'[t] = batch[t]
    BY <1>2, <1>a DEF NextWrite, WriteLabel
  <2>2. InHand' = From(batch'[t], k'[t])
    BY <1>b, <2>1, HolderHandNext
  <2> QED
    BY <1>1, <2>1, <2>2 DEF Mine
<1>3. CASE IsLast(t)
  <2>1. pc'[t] \in {"w_unlock", "call", "load"}
    BY <1>3, <1>a DEF NextWrite, Return
  <2>2. InHand' = <<>>
    BY <1>b, <2>1, HolderHandNext
  <2>3. k[t] = Len(batch[t])
    BY <1>3, <1>b DEF IsLast
  <2>4. From(batch[t], k[t] + 1) = <<>>
    <3>1. k[t] + 1 \in 1 .. Len(batch[t]) + 1 /\ k[t] + 1 = Len(batch[t]) + 1
      BY <1>b, <2>3
    <3> QED
      BY <1>b, <3>1, FromProperties
  <2> QED
    BY <1>1, <2>1, <2>2, <2>4 DEF Mine
<1> QED
  BY <1>2, <1>3

\* Once its pulse is written, a request reads as one that has a result exactly
\* if it was one: what has no result is still alive.
LEMMA CheckedHasRes ==
  ASSUME FALSE \notin StaleHasRes, Disciplined, EngineInv, NEW t \in Workers, pc[t] = "wr_check"
  PROVE  /\ TRUE \in HasResRead(Current(t)) => HasRes[Current(t)]
         /\ FALSE \in HasResRead(Current(t)) =>
              ~HasRes[Current(t)] /\ Slot("batch", t, k[t], Current(t))
<1>1. /\ k[t] \in 1 .. Len(batch[t]) /\ Current(t) = batch[t][k[t]] /\ Current(t) \in Req
  BY HolderFacts DEF WriteLabels
<1>2. PICK r \in Req : r = Current(t)
  BY <1>1
<1>3. ~HasRes[r] => Slot("batch", t, k[t], r)
  BY <1>1, <1>2 DEF Slot, InBatch, InSeq, WriteLabels
<1>4. ~HasRes[r] => r \in live
  BY <1>3, EngineParts DEF PlaceInv, Held
<1>5. HasRes[r] \in BOOLEAN
  BY RequestAssumption
<1> QED
  BY <1>2, <1>3, <1>4, <1>5 DEF HasResRead

\* writeRequests writes the oldest request: from then on it is owed its result,
\* or is to be completed without one.
LEMMA ServiceWritePulse ==
  ASSUME Disciplined, EngineInv, Placed', NEW t \in Workers, WritePulseCtrl(t)
  PROVE  ServiceStep
<1>a. /\ TypeInv /\ LockInv /\ PulseInv /\ Only(t) /\ t \in Threads
      /\ pc \in [Threads -> CallerLabels \cup WriterLabels \cup ReaderLabels]
      /\ pc[t] = "wr_ctrl" /\ pc'[t] = "wr_check"
      /\ m_req_queue \in Seq(Req) /\ fpga_cmds \in Seq(Result)
  <2>1. TypeInv /\ LockInv /\ WriteRequests(t)
    BY EngineParts DEF WriteRequests
  <2>2. /\ pc \in [Threads -> CallerLabels \cup WriterLabels \cup ReaderLabels] /\ t \in Threads
        /\ m_req_queue \in Seq(Req) /\ fpga_cmds \in Seq(Result)
    BY <2>1, PlaceWorker, ServiceTypes
  <2> QED
    BY <2>1, <2>2, EngineParts, OnlyWriteRequests DEF WritePulseCtrl
<1>b. /\ k[t] \in 1 .. Len(batch[t]) /\ batch[t] \in Seq(Req)
      /\ Current(t) = batch[t][k[t]] /\ Current(t) \in Req
      /\ m_lock = t /\ InHand = BatchLeft(t) /\ UncheckedBut(t) = {}
  BY <1>a, HolderFacts DEF WriteLabels
<1>1. PICK r \in Req : r = Current(t)
  BY <1>b
<1>2. InHand = From(batch[t], k[t]) /\ InHand' = From(batch[t], k[t] + 1)
  <2>1. InHand' = From(batch'[t], k'[t] + 1)
    BY <1>a, <1>b, HolderHandNext DEF WritePulseCtrl
  <2> QED
    BY <1>a, <1>b, <2>1 DEF BatchLeft, WritePulseCtrl
<1>3. ToWrite # <<>> /\ Head(ToWrite) = r /\ ToWrite' = Tail(ToWrite)
  <2>1. /\ From(batch[t], k[t]) \o m_req_queue # <<>>
        /\ Head(From(batch[t], k[t]) \o m_req_queue) = batch[t][k[t]]
        /\ Tail(From(batch[t], k[t]) \o m_req_queue) = From(batch[t], k[t] + 1) \o m_req_queue
    <3>1. PICK b \in Seq(Req) : b = batch[t]
      BY <1>b
    <3>2. PICK i \in 1 .. Len(b) : i = k[t]
      BY <1>b, <3>1
    <3>3. PICK q \in Seq(Req) : q = m_req_queue
      BY <1>a
    <3>4. /\ From(b, i) \o q # <<>> /\ Head(From(b, i) \o q) = b[i]
          /\ Tail(From(b, i) \o q) = From(b, i + 1) \o q
      BY FromFirst
    <3> QED
      BY <3>1, <3>2, <3>3, <3>4
  <2>2. m_req_queue' = m_req_queue
    BY DEF WritePulseCtrl
  <2> QED
    BY <1>b, <1>1, <1>2, <2>1, <2>2 DEF ToWrite
<1>4. ReadLeft' = ReadLeft /\ DumpLeft' = DumpLeft
  BY <1>a, ReadStays DEF WritePulseCtrl
<1>5. Current(t)' = r
  BY <1>a, <1>1 DEF WritePulseCtrl, Current, Requests, WriteLabels
<1>6. Unchecked = {} /\ Unchecked' = IF HasRes[r] THEN {} ELSE {r}
  <2>1. Mine(t) = {} /\ Mine(t)' = IF HasRes[r] THEN {} ELSE {r}
    BY <1>a, <1>5 DEF Mine
  <2>2. Placed
    BY <1>a DEF TypeInv
  <2> QED
    BY <1>a, <1>b, <2>1, <2>2, UncheckedStays
<1>7. Deferred' = Deferred \cup (IF HasRes[r] THEN {} ELSE {r})
  BY <1>4, <1>6 DEF Deferred, WritePulseCtrl, SeqSet
<1>8. CASE HasRes[r]
  <2>1. <<r>> \in Seq(Req)
    OBVIOUS
  <2>2. UNCHANGED fpga_out /\ fpga_cmds' = fpga_cmds \o <<r>>
    BY <1>8, <1>a, <1>1, <2>1, ControlStep DEF WritePulseCtrl, CtrlLabels
  <2>3. Owing' = Append(Owing, r)
    BY <1>a, <1>4, <2>2, OwingGrows
  <2> QED
    BY <1>3, <1>7, <1>8, <2>3, ServiceWrites DEF WritePulseCtrl
<1>9. CASE ~HasRes[r]
  <2>1. <<>> \in Seq(Req)
    BY EmptySeq
  <2>2. UNCHANGED fpga_out /\ fpga_cmds' = fpga_cmds \o <<>>
    BY <1>9, <1>a, <1>1, <2>1, ControlStep DEF WritePulseCtrl, CtrlLabels
  <2>3. fpga_cmds \o <<>> = fpga_cmds
    BY <1>a, ConcatEmptySeq
  <2>4. Owing' = Owing
    BY <1>4, <2>2, <2>3 DEF Owing
  <2> QED
    BY <1>3, <1>7, <1>9, <2>4, ServiceWrites DEF WritePulseCtrl
<1> QED
  BY <1>8, <1>9

\* What is in a batch is not in m_notify_queue, nor in the hands of the reader.
LEMMA BatchNotDeferred ==
  ASSUME EngineInv, NEW t, NEW i, NEW r, Slot("batch", t, i, r)
  PROVE  r \notin SeqSet(m_notify_queue) \cup SeqSet(DumpLeft) /\ r \notin ready
<1>1. TypeInv /\ PlaceInv
  BY EngineParts
<1>2. \A x \in {"notify", "read"} : \A u, j : ~Slot(x, u, j, r)
  BY <1>1 DEF PlaceInv, Apart
<1> QED
  BY <1>1, <1>2, NotifySlots, DumpSlots DEF PlaceInv, Held

\* writeRequests completes a request that has no result.
LEMMA ServiceSetRes ==
  ASSUME FALSE \notin StaleHasRes, Disciplined, EngineInv, Placed', NEW t \in Workers,
         WriteSetRes(t)
  PROVE  ServiceStep
<1>a. /\ TypeInv /\ LockInv /\ Placed /\ Blank /\ Only(t) /\ t \in Threads
      /\ pc \in [Threads -> CallerLabels \cup WriterLabels \cup ReaderLabels]
      /\ pc[t] = "wr_check" /\ pc'[t] = "wr_notify"
      /\ res \in [Req -> Req \cup {Zero, Garbage}]
  <2>1. TypeInv /\ LockInv /\ WriteRequests(t)
    BY EngineParts DEF WriteRequests
  <2>2. /\ pc \in [Threads -> CallerLabels \cup WriterLabels \cup ReaderLabels] /\ t \in Threads
        /\ res \in [Req -> Req \cup {Zero, Garbage}]
    BY <2>1, PlaceWorker, ServiceTypes
  <2> QED
    BY <2>1, <2>2, EngineParts, OnlyWriteRequests DEF WriteSetRes
<1>b. /\ Current(t) \in Req /\ m_lock = t /\ InHand = BatchLeft(t) /\ UncheckedBut(t) = {}
  BY <1>a, HolderFacts DEF WriteLabels
<1>1. PICK r \in Req : r = Current(t)
  BY <1>b
<1>2. ~HasRes[r] /\ Slot("batch", t, k[t], r)
  BY <1>a, <1>1, CheckedHasRes DEF WriteSetRes
<1>3. r \notin SeqSet(m_notify_queue) \cup SeqSet(DumpLeft) /\ r \notin ready
  BY <1>2, BatchNotDeferred
<1>4. Unchecked = {r} /\ Unchecked' = {}
  <2>1. Mine(t) = {r} /\ Mine(t)' = {}
    BY <1>a, <1>1, <1>2 DEF Mine
  <2> QED
    BY <1>a, <1>b, <2>1, UncheckedStays
<1>5. ReadLeft' = ReadLeft /\ DumpLeft' = DumpLeft
  BY <1>a, ReadStays DEF WriteSetRes
<1>6. Deferred' = Deferred \ {r} /\ r \in Deferred
  BY <1>3, <1>4, <1>5 DEF Deferred, WriteSetRes, SeqSet
<1>7. ready' = ready \cup {r} /\ res' = res
  BY <1>a, <1>1, <1>3 DEF WriteSetRes, SetRes, Blank
<1>8. InHand' = InHand
  <2>1. InHand' = From(batch'[t], k'[t] + 1)
    BY <1>a, <1>b, HolderHandNext DEF WriteSetRes
  <2> QED
    BY <1>a, <1>b, <2>1 DEF BatchLeft, WriteSetRes
<1>9. UNCHANGED <<ToWrite, Owing, res>>
  BY <1>5, <1>7, <1>8 DEF ToWrite, Owing, WriteSetRes
<1> QED
  BY <1>6, <1>7, <1>9, ServiceFinishes

\* Each step of writeRequests writes or completes one request, or none.
LEMMA ServiceWriteRequests ==
  ASSUME FALSE \notin StaleHasRes, Disciplined, EngineInv, Placed', NEW t \in Workers,
         WriteRequests(t)
  PROVE  ServiceStep
<1>a. /\ TypeInv /\ LockInv /\ PulseInv /\ Placed /\ Only(t) /\ t \in Threads
      /\ pc \in [Threads -> CallerLabels \cup WriterLabels \cup ReaderLabels]
  <2>1. TypeInv
    BY EngineParts
  <2> QED
    BY <2>1, EngineParts, OnlyWriteRequests, PlaceWorker
<1>1. CASE WriteSpace(t) \/ LoadWritten(t) \/ StoreWritten(t)
  <2>1. pc[t] \notin WriteLabels /\ pc'[t] \notin WriteLabels
    BY <1>1, <1>a DEF WriteSpace, LoadWritten, StoreWritten, Return, Calling, WriteLabels
  <2> QED
    BY <1>1, <1>a, <2>1, ServiceQuiet DEF WriteSpace, LoadWritten, StoreWritten
<1>2. CASE WritePop(t)
  BY <1>2, ServicePop
<1>3. CASE WritePush(t) \/ ShortPulseOp(t, "wr_op", "wr_ctrl")
  <2>1. /\ pc[t] \in {"wr_push", "wr_op"} /\ pc'[t] \in {"wr_op", "wr_ctrl"}
        /\ UNCHANGED <<k, batch, m_lock, m_req_queue, m_notify_queue, rd_res, ready, res>>
    BY <1>3, <1>a DEF WritePush, ShortPulseOp
  <2>2. UNCHANGED <<fpga_out, fpga_cmds>>
    <3>1. CASE WritePush(t)
      BY <3>1 DEF WritePush
    <3>2. CASE ShortPulseOp(t, "wr_op", "wr_ctrl")
      BY <3>2, <1>a, OperandStep DEF PulseLabels, CtrlLabels
    <3> QED
      BY <1>3, <3>1, <3>2
  <2>3. m_lock = t /\ InHand = From(batch[t], k[t])
    BY <1>a, <2>1, HolderHand DEF WriteLabels, BatchLeft
  <2>4. InHand' = From(batch'[t], k'[t])
    BY <2>1, <2>3, HolderHandNext
  <2>5. ToWrite' = ToWrite /\ Mine(t) = {} /\ Mine(t)' = {}
    BY <2>1, <2>3, <2>4 DEF ToWrite, Mine
  <2> QED
    BY <1>a, <2>1, <2>2, <2>5, ServiceHolder DEF WriteLabels
<1>4. CASE WritePulseCtrl(t)
  BY <1>4, ServiceWritePulse
<1>5. CASE WriteHasRes(t)
  <2>1. Mine(t) = {}
    BY <1>5, CheckedHasRes DEF WriteHasRes, Mine
  <2>2. InHand' = InHand /\ Mine(t)' = {}
    BY <1>5, HandNextWrite DEF WriteHasRes
  <2>3. ToWrite' = ToWrite
    BY <1>5, <2>2 DEF WriteHasRes, ToWrite
  <2> QED
    BY <1>5, <1>a, <2>1, <2>2, <2>3, ServiceHolder DEF WriteHasRes, NextWrite, WriteLabels
<1>6. CASE WriteDefer(t)
  <2>1. PICK r \in Req : r = Current(t)
    BY <1>6, HolderFacts DEF WriteDefer, WriteLabels
  <2>2. Mine(t) = {r}
    BY <1>6, <2>1, CheckedHasRes DEF WriteDefer, Mine
  <2>3. InHand' = InHand /\ Mine(t)' = {}
    BY <1>6, HandNextWrite DEF WriteDefer
  <2>4. ToWrite' = ToWrite
    BY <1>6, <2>3 DEF WriteDefer, ToWrite
  <2>5. SeqSet(m_notify_queue') = SeqSet(m_notify_queue) \cup {r}
    <3>1. m_notify_queue \in Seq(Req) /\ m_notify_queue' = Append(m_notify_queue, r)
      BY <1>6, <1>a, <2>1, OrderTypes DEF WriteDefer
    <3> QED
      BY <3>1, SetAppend
  <2> QED
    BY <1>6, <1>a, <2>2, <2>3, <2>4, <2>5, ServiceHolder DEF WriteDefer, NextWrite, WriteLabels
<1>7. CASE WriteSetRes(t)
  BY <1>7, ServiceSetRes
<1>8. CASE WriteNotify(t)
  <2>1. Mine(t) = {}
    BY <1>8 DEF WriteNotify, Mine
  <2>2. InHand' = InHand /\ Mine(t)' = {}
    BY <1>8, HandNextWrite DEF WriteNotify
  <2>3. ToWrite' = ToWrite
    BY <1>8, <2>2 DEF WriteNotify, ToWrite
  <2> QED
    BY <1>8, <1>a, <2>1, <2>2, <2>3, ServiceHolder DEF WriteNotify, NextWrite, WriteLabels
<1> QED
  BY <1>1, <1>2, <1>3, <1>4, <1>5, <1>6, <1>7, <1>8 DEF WriteRequests

-----------------------------------------------------------------------------
(* The steps of the reader                                                 *)

\* The reader writes nothing.
LEMMA ReaderFrame ==
  ASSUME EngineInv, Placed', ReaderThread
  PROVE  /\ UNCHANGED <<ToWrite, Unchecked, fpga_cmds>> /\ Only(Reader)
         /\ pc \in [Threads -> CallerLabels \cup WriterLabels \cup ReaderLabels]
         /\ k \in [Threads -> Nat \ {0}] /\ Reader \in Threads
         /\ TypeInv /\ LockInv /\ OrderInv /\ AnswerInv /\ PlaceInv /\ Blank /\ ReaderLoop
<1>1. /\ TypeInv /\ LockInv /\ OrderInv /\ AnswerInv /\ PlaceInv /\ Blank /\ ReaderLoop /\ Placed
      /\ pc \in [Threads -> CallerLabels \cup WriterLabels \cup ReaderLabels]
      /\ k \in [Threads -> Nat \ {0}] /\ Reader \in Threads
  BY EngineParts DEF TypeInv, Placed, LoopInv, Threads
<1>2. Only(Reader)
  BY <1>1, OnlyReaderThread
<1>3. UNCHANGED <<m_lock, m_req_queue, fpga_cmds>>
  BY DEF ReaderThread, ReaderTop, ReaderWake, ReaderCheck, ReaderGoto, ReadResults,
     CountRead, PopResQueue, ReaderNotifyWriter, DumpNotifyQueue, ReaderSetRes, ReaderNotify
<1>4. pc[Reader] \in ReaderLabels /\ pc'[Reader] \in ReaderLabels
  BY <1>1 DEF Placed
<1>5. InHand' = InHand
  BY <1>1, <1>2, <1>3, <1>4, HandStays DEF ReaderLabels, WriteLabels
<1>6. Unchecked' = Unchecked
  BY <1>1, <1>2, <1>4, UncheckedStays DEF Mine, ReaderLabels
<1> QED
  BY <1>1, <1>2, <1>3, <1>5, <1>6 DEF ToWrite

\* popResults takes results out of the FPGA ...
LEMMA ServiceReadResults ==
  ASSUME EngineInv, Placed', ReaderThread, ReadResults
  PROVE  ServiceStep
<1>a. /\ fpga_out \in Seq(Result) /\ fpga_cmds \in Seq(Result)
      /\ fpga_out \o fpga_cmds \in Seq(Result)
  BY EngineParts, ServiceTypes
<1>1. PICK n \in 0 .. Len(fpga_out) : n = MinOf(BufSize, Len(fpga_out))
  BY <1>a, MinOfLength, BoundAssumption
<1>2. /\ rd_res' = Take(fpga_out, n) /\ fpga_out' = Drop(fpga_out, n)
      /\ pc'[Reader] = IF fpga_out = <<>> THEN "r_check" ELSE "r_count"
      /\ UNCHANGED <<m_notify_queue, ready, res>> /\ pc[Reader] = "r_read"
  BY <1>1, ReaderFrame DEF ReadResults
<1>3. Take(fpga_out, n) \o Drop(fpga_out, n) = fpga_out
  BY <1>a, TakeAndDrop
<1>4. Take(fpga_out, n) \in Seq(Result) /\ Drop(fpga_out, n) \in Seq(Result)
  BY <1>a, TakeDrop
<1>5. ReadLeft = <<>> /\ DumpLeft = <<>> /\ DumpLeft' = <<>>
  BY <1>2 DEF ReadLeft, DumpLeft
<1>6. Owing = fpga_out \o fpga_cmds
  BY <1>a, <1>5, ConcatEmptySeq DEF Owing
<1>7. Owing' = ReadLeft' \o (Drop(fpga_out, n) \o fpga_cmds)
  BY <1>2, ReaderFrame DEF Owing
<1>8. ReadLeft' = Take(fpga_out, n)
  <2>1. CASE fpga_out = <<>>
    <3>1. n = 0
      BY <1>1, <2>1, EmptySeq
    <3>2. Take(fpga_out, 0) = <<>>
      BY SubSeqEmpty DEF Take
    <3> QED
      BY <1>2, <2>1, <3>1, <3>2 DEF ReadLeft
  <2>2. CASE fpga_out # <<>>
    BY <1>2, <2>2 DEF ReadLeft
  <2> QED
    BY <2>1, <2>2
<1>9. Owing' = Owing
  <2> DEFINE first == Take(fpga_out, n)
             left  == Drop(fpga_out, n)
  <2>1. first \in Seq(Result) /\ left \in Seq(Result)
    BY <1>4
  <2>2. first \o left = fpga_out /\ Owing' = first \o (left \o fpga_cmds)
    BY <1>3, <1>7, <1>8
  <2> HIDE DEF first, left
  <2>3. \A a, b, c \in Seq(Result) : (a \o b) \o c = a \o (b \o c)
    BY Associates
  <2>4. (first \o left) \o fpga_cmds = first \o (left \o fpga_cmds)
    BY <1>a, <2>1, <2>3
  <2> QED
    BY <1>6, <2>2, <2>4
<1>10. Deferred' = Deferred
  BY <1>2, <1>5, ReaderFrame DEF Deferred, SeqSet
<1> QED
  BY <1>2, <1>9, <1>10, ReaderFrame, ServiceStutters

\* ... and answers them in order.
LEMMA ServiceSetAnswer ==
  ASSUME EngineInv, Placed', ReaderThread, ReaderSetRes("r_set", "r_notify")
  PROVE  ServiceStep
<1>a. /\ rd_res \in Seq(Result) /\ rd_req \in Seq(Req) /\ fpga_out \o fpga_cmds \in Seq(Result)
      /\ Len(rd_res) \in Nat
  BY EngineParts, ServiceTypes, OrderTypes, LenProperties
<1>b. pc[Reader] = "r_set" /\ pc'[Reader] = "r_notify" /\ k' = k
      /\ UNCHANGED <<rd_res, fpga_out, m_notify_queue>>
  BY ReaderFrame DEF ReaderSetRes
<1>1. rd_req = rd_res /\ k[Reader] \in 1 .. Len(rd_res)
  BY <1>b, ReaderFrame DEF OrderInv, ReaderLoop
<1>2. PICK r \in Req : r = rd_req[k[Reader]] /\ r = rd_res[k[Reader]]
  BY <1>a, <1>1, ElementOfSeq
<1>3. ready' = ready \cup {r} /\ res' = [res EXCEPT ![r] = r]
  BY <1>2 DEF ReaderSetRes, SetRes
<1>4. ReadLeft = From(rd_res, k[Reader]) /\ ReadLeft' = From(rd_res, k[Reader] + 1)
  BY <1>b DEF ReadLeft
<1>5. Owing # <<>> /\ Head(Owing) = r /\ Owing' = Tail(Owing)
  <2>a. PICK b \in Seq(Result) : b = rd_res
    BY <1>a
  <2>b. PICK i \in 1 .. Len(b) : i = k[Reader]
    BY <1>1, <2>a
  <2>c. PICK q \in Seq(Result) : q = fpga_out \o fpga_cmds
    BY <1>a
  <2>1. b = rd_res /\ i = k[Reader] /\ q = fpga_out \o fpga_cmds
    BY <2>a, <2>b, <2>c
  <2>2. /\ From(b, i) \o q # <<>> /\ Head(From(b, i) \o q) = b[i]
        /\ Tail(From(b, i) \o q) = From(b, i + 1) \o q
    BY FromFirst
  <2>3. Owing = From(b, i) \o q /\ Owing' = From(b, i + 1) \o q
    BY <1>b, <1>4, <2>1, ReaderFrame DEF Owing
  <2> QED
    BY <1>2, <2>1, <2>2, <2>3
<1>6. Deferred' = Deferred
  BY <1>b, ReaderFrame DEF Deferred, DumpLeft, SeqSet
<1> QED
  BY <1>3, <1>5, <1>6, ReaderFrame, ServiceAnswers

\* dumpNotifyQueue takes requests out of m_notify_queue ...
LEMMA ServiceDump ==
  ASSUME EngineInv, Placed', ReaderThread, DumpNotifyQueue
  PROVE  ServiceStep
<1>a. m_notify_queue \in Seq(Req)
  BY EngineParts, OrderTypes
<1>1. PICK n \in 0 .. Len(m_notify_queue) : n = MinOf(BufSize, Len(m_notify_queue))
  BY <1>a, MinOfLength, BoundAssumption
<1>2. /\ rd_req' = Take(m_notify_queue, n) /\ m_notify_queue' = Drop(m_notify_queue, n)
      /\ pc'[Reader] = IF m_notify_queue = <<>> THEN "r_top" ELSE "d_set"
      /\ UNCHANGED <<fpga_out, ready, res>> /\ pc[Reader] = "r_dump" /\ k' = k
  BY <1>1, ReaderFrame DEF DumpNotifyQueue
<1>3. k[Reader] = 1
  BY <1>2, ReaderFrame DEF ReaderLoop
<1>4. /\ Take(m_notify_queue, n) \in Seq(Req) /\ Drop(m_notify_queue, n) \in Seq(Req)
      /\ Take(m_notify_queue, n) \o Drop(m_notify_queue, n) = m_notify_queue
  BY <1>a, TakeDrop, TakeAndDrop
<1>5. ReadLeft = <<>> /\ ReadLeft' = <<>> /\ DumpLeft = <<>>
  BY <1>2 DEF ReadLeft, DumpLeft
<1>6. DumpLeft' = Take(m_notify_queue, n)
  <2>1. CASE m_notify_queue = <<>>
    <3>1. n = 0
      BY <1>1, <2>1, EmptySeq
    <3>2. Take(m_notify_queue, 0) = <<>>
      BY SubSeqEmpty DEF Take
    <3> QED
      BY <1>2, <2>1, <3>1, <3>2 DEF DumpLeft
  <2>2. CASE m_notify_queue # <<>>
    <3>1. PICK q \in Seq(Req) : q = Take(m_notify_queue, n)
      BY <1>4
    <3>2. DumpLeft' = From(q, 1)
      BY <1>2, <1>3, <2>2, <3>1 DEF DumpLeft
    <3>3. 1 \in 1 .. Len(q) + 1
      BY LenProperties
    <3>4. From(q, 1) = q
      BY <3>3, FromProperties
    <3> QED
      BY <3>1, <3>2, <3>4
  <2> QED
    BY <2>1, <2>2
<1>7. SeqSet(m_notify_queue) = SeqSet(Take(m_notify_queue, n)) \cup SeqSet(Drop(m_notify_queue, n))
  <2>1. PICK a \in Seq(Req), b \in Seq(Req) :
          a = Take(m_notify_queue, n) /\ b = Drop(m_notify_queue, n)
    BY <1>4
  <2>2. SeqSet(a \o b) = SeqSet(a) \cup SeqSet(b)
    BY SetConcat
  <2> QED
    BY <1>4, <2>1, <2>2
<1>8. SeqSet(DumpLeft) = {} /\ SeqSet(DumpLeft)' = SeqSet(Take(m_notify_queue, n))
      /\ SeqSet(m_notify_queue)' = SeqSet(Drop(m_notify_queue, n))
  BY <1>2, <1>5, <1>6, EmptySeq DEF SeqSet
<1>9. Deferred' = Deferred
  BY <1>7, <1>8, ReaderFrame DEF Deferred
<1>10. Owing' = Owing
  BY <1>2, <1>5, ReaderFrame DEF Owing
<1> QED
  BY <1>2, <1>9, <1>10, ReaderFrame, ServiceStutters

\* ... and completes them.
LEMMA ServiceSetDone ==
  ASSUME EngineInv, Placed', ReaderThread, ReaderSetRes("d_set", "d_notify")
  PROVE  ServiceStep
<1>a. /\ rd_req \in Seq(Req) /\ Len(rd_req) \in Nat
      /\ res \in [Req -> Req \cup {Zero, Garbage}]
  BY EngineParts, ServiceTypes, OrderTypes, LenProperties
<1>b. pc[Reader] = "d_set" /\ pc'[Reader] = "d_notify" /\ k' = k
      /\ UNCHANGED <<rd_req, fpga_out, m_notify_queue>>
  BY ReaderFrame DEF ReaderSetRes
<1>1. k[Reader] \in 1 .. Len(rd_req) /\ rd_res[k[Reader]] = Zero
  BY <1>b, ReaderFrame DEF AnswerInv, ReaderLoop
<1>2. PICK r \in Req : r = rd_req[k[Reader]]
  BY <1>a, <1>1, ElementOfSeq
<1>3. Slot("read", Reader, k[Reader], r)
  BY <1>b, <1>1, <1>2 DEF Slot, InRead, InSeq
<1>4. r \notin ready
  BY <1>3, ReaderFrame DEF PlaceInv, Held
<1>5. ready' = ready \cup {r} /\ res' = res
  <2>1. ready' = ready \cup {r} /\ res' = [res EXCEPT ![r] = Zero]
    BY <1>1, <1>2 DEF ReaderSetRes, SetRes
  <2>2. res[r] = Zero
    BY <1>4, ReaderFrame DEF Blank
  <2> QED
    BY <1>a, <2>1, <2>2
<1>6. DumpLeft = From(rd_req, k[Reader]) /\ DumpLeft' = From(rd_req, k[Reader] + 1)
  BY <1>b DEF DumpLeft
<1>7. /\ SeqSet(DumpLeft) = {rd_req[j] : j \in k[Reader] .. Len(rd_req)}
      /\ SeqSet(DumpLeft') = {rd_req[j] : j \in k[Reader] + 1 .. Len(rd_req)}
  <2>1. k[Reader] \in 1 .. Len(rd_req) + 1 /\ k[Reader] + 1 \in 1 .. Len(rd_req) + 1
    BY <1>a, <1>1
  <2> QED
    BY <1>a, <1>6, <2>1, FromProperties
<1>8. r \notin SeqSet(DumpLeft')
  <2>1. ASSUME NEW j \in k[Reader] + 1 .. Len(rd_req), rd_req[j] = r
        PROVE  FALSE
    <3>1. Slot("read", Reader, j, r)
      BY <1>a, <1>1, <2>1 DEF Slot, InRead, InSeq
    <3>2. j = k[Reader]
      BY <1>3, <3>1, ReaderFrame DEF PlaceInv, Apart
    <3> QED
      BY <1>a, <1>1, <3>2
  <2> QED
    BY <1>7, <2>1
<1>9. SeqSet(DumpLeft) = SeqSet(DumpLeft') \cup {r}
  <2>1. \A j \in k[Reader] .. Len(rd_req) : j = k[Reader] \/ j \in k[Reader] + 1 .. Len(rd_req)
    BY <1>a, <1>1
  <2>2. k[Reader] + 1 .. Len(rd_req) \subseteq k[Reader] .. Len(rd_req)
        /\ k[Reader] \in k[Reader] .. Len(rd_req)
    BY <1>a, <1>1
  <2> QED
    BY <1>2, <1>7, <2>1, <2>2
<1>10. r \notin SeqSet(m_notify_queue) /\ r \notin Unchecked
  <2>1. \A x \in {"notify", "batch"} : \A u, i : ~Slot(x, u, i, r)
    BY <1>3, ReaderFrame DEF PlaceInv, Apart
  <2> QED
    BY <2>1, ReaderFrame, NotifySlots, UncheckedSlots
<1>11. r \in Deferred /\ Deferred' = Deferred \ {r}
  <2>1. SeqSet(DumpLeft)' = SeqSet(DumpLeft') /\ SeqSet(m_notify_queue)' = SeqSet(m_notify_queue)
    BY <1>b DEF SeqSet
  <2> QED
    BY <1>8, <1>9, <1>10, <2>1, ReaderFrame DEF Deferred
<1>12. Owing' = Owing
  BY <1>b, ReaderFrame DEF Owing, ReadLeft
<1> QED
  BY <1>5, <1>11, <1>12, ReaderFrame, ServiceFinishes

\* The other steps of the reader.
LEMMA ServiceReaderGoto ==
  ASSUME EngineInv, Placed', ReaderThread, ReaderTop \/ ReaderWake \/ ReaderCheck
  PROVE  ServiceStep
<1>1. /\ pc[Reader] \in {"r_top", "r_sleep", "r_check"}
      /\ pc'[Reader] \in {"r_done", "r_sleep", "r_check", "r_read", "r_dump"}
      /\ UNCHANGED <<fpga_out, m_notify_queue, ready, res>>
  BY ReaderFrame DEF ReaderTop, ReaderWake, ReaderCheck, ReaderGoto
<1>2. ReadLeft = <<>> /\ DumpLeft = <<>> /\ ReadLeft' = <<>> /\ DumpLeft' = <<>>
  BY <1>1 DEF ReadLeft, DumpLeft
<1>3. Owing' = Owing /\ Deferred' = Deferred
  BY <1>1, <1>2, ReaderFrame DEF Owing, Deferred, SeqSet
<1> QED
  BY <1>1, <1>3, ReaderFrame, ServiceStutters

LEMMA ServicePopRes ==
  ASSUME EngineInv, Placed', ReaderThread, CountRead \/ PopResQueue
  PROVE  ServiceStep
<1>1. /\ pc[Reader] \in {"r_count", "r_pop"} /\ pc'[Reader] \in {"r_pop", "r_wake"}
      /\ UNCHANGED <<rd_res, fpga_out, m_notify_queue, ready, res>>
  BY ReaderFrame DEF CountRead, PopResQueue
<1>2. ReadLeft = rd_res /\ DumpLeft = <<>> /\ ReadLeft' = rd_res /\ DumpLeft' = <<>>
  BY <1>1 DEF ReadLeft, DumpLeft
<1>3. Owing' = Owing /\ Deferred' = Deferred
  BY <1>1, <1>2, ReaderFrame DEF Owing, Deferred, SeqSet
<1> QED
  BY <1>1, <1>3, ReaderFrame, ServiceStutters

LEMMA ServiceWakeWriter ==
  ASSUME EngineInv, Placed', ReaderThread, ReaderNotifyWriter
  PROVE  ServiceStep
<1>1. /\ pc[Reader] = "r_wake" /\ pc'[Reader] = IF rd_req = <<>> THEN "r_check" ELSE "r_set"
      /\ UNCHANGED <<k, rd_res, fpga_out, m_notify_queue, ready, res>>
  BY ReaderFrame DEF ReaderNotifyWriter
<1>2. rd_req = rd_res /\ k[Reader] = 1
  BY <1>1, ReaderFrame DEF OrderInv, ReaderLoop
<1>3. ReadLeft = rd_res /\ DumpLeft = <<>> /\ DumpLeft' = <<>>
  BY <1>1 DEF ReadLeft, DumpLeft
<1>4. ReadLeft' = rd_res
  <2>1. CASE rd_req = <<>>
    BY <1>1, <1>2, <2>1 DEF ReadLeft
  <2>2. CASE rd_req # <<>>
    <3>1. PICK q \in Seq(Result) : q = rd_res
      BY EngineParts, OrderTypes
    <3>2. ReadLeft' = From(q, 1)
      BY <1>1, <1>2, <2>2, <3>1 DEF ReadLeft
    <3>3. 1 \in 1 .. Len(q) + 1
      BY LenProperties
    <3>4. From(q, 1) = q
      BY <3>3, FromProperties
    <3> QED
      BY <3>1, <3>2, <3>4
  <2> QED
    BY <2>1, <2>2
<1>5. Owing' = Owing /\ Deferred' = Deferred
  BY <1>1, <1>3, <1>4, ReaderFrame DEF Owing, Deferred, SeqSet
<1> QED
  BY <1>1, <1>5, ReaderFrame, ServiceStutters

\* The loop goes on with the next of the requests that were popped, or ends.
LEMMA NextRead ==
  ASSUME NEW S, NEW q \in Seq(S), NEW i \in 1 .. Len(q)
  PROVE  IF i < Len(q) THEN i + 1 \in 1 .. Len(q) ELSE From(q, i + 1) = <<>>
<1>1. Len(q) \in Nat /\ i + 1 \in 1 .. Len(q) + 1
  BY LenProperties
<1>2. i + 1 = Len(q) + 1 => From(q, i + 1) = <<>>
  BY <1>1, FromProperties
<1> QED
  BY <1>1, <1>2

LEMMA ServiceNotifies ==
  ASSUME EngineInv, Placed', ReaderThread, ReaderNotify("r_notify", "r_set", "r_check")
  PROVE  ServiceStep
<1>1. /\ pc[Reader] = "r_notify" /\ UNCHANGED <<fpga_out, m_notify_queue, ready, res>>
      /\ IF k[Reader] < Len(rd_req)
         THEN pc'[Reader] = "r_set" /\ k'[Reader] = k[Reader] + 1 /\ rd_res' = rd_res
         ELSE pc'[Reader] = "r_check"
  BY ReaderFrame DEF ReaderNotify
<1>2. PICK q \in Seq(Result) : q = rd_res
  BY EngineParts, OrderTypes
<1>3. rd_req = q /\ k[Reader] \in 1 .. Len(q)
  BY <1>1, <1>2, ReaderFrame DEF OrderInv, ReaderLoop
<1>4. PICK i \in 1 .. Len(q) : i = k[Reader]
  BY <1>3
<1>5. IF i < Len(q) THEN i + 1 \in 1 .. Len(q) ELSE From(q, i + 1) = <<>>
  BY NextRead
<1>6. ReadLeft = From(q, i + 1) /\ DumpLeft = <<>> /\ DumpLeft' = <<>>
  BY <1>1, <1>2, <1>4 DEF ReadLeft, DumpLeft
<1>7. ReadLeft' = From(q, i + 1)
  <2>1. CASE i < Len(q)
    BY <1>1, <1>2, <1>3, <1>4, <2>1 DEF ReadLeft
  <2>2. CASE ~(i < Len(q))
    BY <1>1, <1>3, <1>4, <1>5, <2>2 DEF ReadLeft
  <2> QED
    BY <2>1, <2>2
<1>8. Owing' = Owing /\ Deferred' = Deferred
  BY <1>1, <1>6, <1>7, ReaderFrame DEF Owing, Deferred, SeqSet
<1> QED
  BY <1>1, <1>8, ReaderFrame, ServiceStutters

LEMMA ServiceNotifiesDone ==
  ASSUME EngineInv, Placed', ReaderThread, ReaderNotify("d_notify", "d_set", "r_top")
  PROVE  ServiceStep
<1>1. /\ pc[Reader] = "d_notify" /\ UNCHANGED <<fpga_out, m_notify_queue, ready, res>>
      /\ IF k[Reader] < Len(rd_req)
         THEN pc'[Reader] = "d_set" /\ k'[Reader] = k[Reader] + 1 /\ rd_req' = rd_req
         ELSE pc'[Reader] = "r_top"
  BY ReaderFrame DEF ReaderNotify
<1>2. PICK q \in Seq(Req) : q = rd_req
  BY EngineParts, OrderTypes
<1>3. PICK i \in 1 .. Len(q) : i = k[Reader]
  BY <1>1, <1>2, ReaderFrame DEF ReaderLoop
<1>4. IF i < Len(q) THEN i + 1 \in 1 .. Len(q) ELSE From(q, i + 1) = <<>>
  BY NextRead
<1>5. ReadLeft = <<>> /\ ReadLeft' = <<>> /\ DumpLeft = From(q, i + 1)
  BY <1>1, <1>2, <1>3 DEF ReadLeft, DumpLeft
<1>6. DumpLeft' = From(q, i + 1)
  <2>1. CASE i < Len(q)
    BY <1>1, <1>2, <1>3, <2>1 DEF DumpLeft
  <2>2. CASE ~(i < Len(q))
    BY <1>1, <1>2, <1>3, <1>4, <2>2 DEF DumpLeft
  <2> QED
    BY <2>1, <2>2
<1>7. Owing' = Owing /\ Deferred' = Deferred
  BY <1>1, <1>5, <1>6, ReaderFrame DEF Owing, Deferred, SeqSet
<1> QED
  BY <1>1, <1>7, ReaderFrame, ServiceStutters

LEMMA ServiceReader ==
  ASSUME EngineInv, Placed', ReaderThread
  PROVE  ServiceStep
<1>1. CASE ReaderTop \/ ReaderWake \/ ReaderCheck
  BY <1>1, ServiceReaderGoto
<1>2. CASE ReadResults
  BY <1>2, ServiceReadResults
<1>3. CASE CountRead \/ PopResQueue
  BY <1>3, ServicePopRes
<1>4. CASE ReaderNotifyWriter
  BY <1>4, ServiceWakeWriter
<1>5. CASE DumpNotifyQueue
  BY <1>5, ServiceDump
<1>6. CASE ReaderSetRes("r_set", "r_notify")
  BY <1>6, ServiceSetAnswer
<1>7. CASE ReaderNotify("r_notify", "r_set", "r_check")
  BY <1>7, ServiceNotifies
<1>8. CASE ReaderSetRes("d_set", "d_notify")
  BY <1>8, ServiceSetDone
<1>9. CASE ReaderNotify("d_notify", "d_set", "r_top")
  BY <1>9, ServiceNotifiesDone
<1> QED
  BY <1>1, <1>2, <1>3, <1>4, <1>5, <1>6, <1>7, <1>8, <1>9 DEF ReaderThread

-----------------------------------------------------------------------------
(* The other threads, and the theorem                                      *)

\* The FPGA executes the next of its pulses: what it owes stays the same.
LEMMA ServiceFpga ==
  ASSUME TypeInv, LockInv, FpgaExec
  PROVE  ServiceStep
<1>a. fpga_out \in Seq(Result) /\ fpga_cmds \in Seq(Result) /\ fpga_cmds # <<>>
  BY ServiceTypes DEF FpgaExec
<1> DEFINE one  == <<Head(fpga_cmds)>>
           rest == Tail(fpga_cmds)
<1>1. one \in Seq(Result) /\ rest \in Seq(Result) /\ fpga_cmds = one \o rest
      /\ Head(fpga_cmds) \in Result
  BY <1>a, HeadAndTail
<1>2. fpga_out' = fpga_out \o one /\ fpga_cmds' = rest
  BY <1>a, <1>1, AppendIsConcat DEF FpgaExec
<1> HIDE DEF one, rest
<1>3. (fpga_out \o one) \o rest = fpga_out \o (one \o rest)
  <2>1. \A a, b, c \in Seq(Result) : (a \o b) \o c = a \o (b \o c)
    BY Associates
  <2> QED
    BY <1>a, <1>1, <2>1
<1>4. ReadLeft' = ReadLeft /\ DumpLeft' = DumpLeft
  BY DEF FpgaExec, ReadLeft, DumpLeft, From
<1>5. InHand' = InHand /\ Unchecked' = Unchecked
  BY DEF FpgaExec, InHand, BatchLeft, From, Unchecked, Current, Call, Requests, WriteLabels
<1>6. UNCHANGED <<ToWrite, Owing, Deferred>>
  BY <1>1, <1>2, <1>3, <1>4, <1>5 DEF FpgaExec, ToWrite, Owing, Deferred, SeqSet
<1> QED
  BY <1>6, ServiceStutters DEF FpgaExec

\* Waking up changes nothing that the service sees.
LEMMA ServiceIdle ==
  ASSUME (\E t \in Threads : SpuriousWake(t)) \/ Terminated \/ UNCHANGED vars
  PROVE  ServiceStep
<1>1. UNCHANGED <<pc, ip, k, batch, rd_res, rd_req, m_lock, m_req_queue, m_notify_queue,
                  fpga_out, fpga_cmds, ready, res>>
  BY DEF SpuriousWake, Terminated, vars
<1>2. ReadLeft' = ReadLeft /\ DumpLeft' = DumpLeft
  BY <1>1 DEF ReadLeft, DumpLeft, From
<1>3. InHand' = InHand /\ Unchecked' = Unchecked
  BY <1>1 DEF InHand, BatchLeft, From, Unchecked, Current, Call, Requests, WriteLabels
<1>4. UNCHANGED <<ToWrite, Owing, Deferred>>
  BY <1>1, <1>2, <1>3 DEF ToWrite, Owing, Deferred, SeqSet
<1> QED
  BY <1>1, <1>4, ServiceStutters

\* runWriter, between two calls of writeRequests.
LEMMA ServiceWriter ==
  ASSUME Disciplined, EngineInv, Placed', WriterThread, ~WriteRequests(Writer)
  PROVE  ServiceStep
<1>a. /\ LockInv /\ Placed /\ Only(Writer) /\ Writer \in Workers /\ Writer \in Threads
      /\ pc \in [Threads -> CallerLabels \cup WriterLabels \cup ReaderLabels]
  BY EngineParts, OnlyWriterThread DEF Placed, Workers, Threads
<1>1. CASE WriterTop \/ WriterSleep \/ WriterWake
  <2>1. pc[Writer] \notin WriteLabels /\ pc'[Writer] \notin WriteLabels
    BY <1>1, <1>a DEF WriterTop, WriterSleep, WriterWake, WriteLabels
  <2> QED
    BY <1>1, <1>a, <2>1, ServiceQuiet DEF WriterTop, WriterSleep, WriterWake
<1>2. CASE WriterLock
  BY <1>2, <1>a, ServiceQuiet DEF WriterLock, WriteLabels
<1>3. CASE WriterUnlock
  <2>1. m_lock = Writer
    BY <1>3, <1>a DEF WriterUnlock, LockInv, HoldingLabels
  <2> QED
    BY <1>3, <1>a, <2>1, ServiceQuiet DEF WriterUnlock, WriteLabels
<1> QED
  BY <1>1, <1>2, <1>3 DEF WriterThread

\* Every step of the engine is a step of the service, or none.
LEMMA ServiceNext ==
  ASSUME Disciplined, Distinct, FALSE \notin StaleHasRes, EngineInv, Placed', [Next]_vars
  PROVE  ServiceStep
<1>1. CASE \E t \in Procs : Caller(t)
  <2>1. PICK t \in Procs : Caller(t)
    BY <1>1
  <2>2. t \in Workers
    BY DEF Workers
  <2>3. CASE WriteRequests(t)
    BY <2>2, <2>3, ServiceWriteRequests
  <2>4. CASE ~WriteRequests(t)
    BY <2>1, <2>4, ServiceCaller
  <2> QED
    BY <2>3, <2>4
<1>2. CASE WriterThread
  <2>1. Writer \in Workers
    BY DEF Workers
  <2>2. CASE WriteRequests(Writer)
    BY <2>1, <2>2, ServiceWriteRequests
  <2>3. CASE ~WriteRequests(Writer)
    BY <1>2, <2>3, ServiceWriter
  <2> QED
    BY <2>2, <2>3
<1>3. CASE ReaderThread
  BY <1>3, ServiceReader
<1>4. CASE FpgaExec
  BY <1>4, EngineParts, ServiceFpga
<1>5. CASE (\E t \in Threads : SpuriousWake(t)) \/ Terminated \/ UNCHANGED vars
  BY <1>5, ServiceIdle
<1> QED
  BY <1>1, <1>2, <1>3, <1>4, <1>5 DEF Next

\* What is due to be completed has been constructed.
LEMMA DueConstructed ==
  ASSUME Disciplined, EngineInv, NEW r \in SeqSet(Owing) \cup Deferred
  PROVE  Constructed(r)
<1>1. PICK x, t, i : Slot(x, t, i, r)
  BY EngineParts, KnownSlots
<1> QED
  BY <1>1, EngineParts DEF PlaceInv, Held, LiveInv

\* The invariant holds at first, and every step keeps it.
LEMMA EngineInductive ==
  ASSUME Disciplined, Distinct, FALSE \notin StaleHasRes
  PROVE  (Init => EngineInv) /\ (EngineInv /\ [Next]_vars => EngineInv')
<1>1. Init => EngineInv
  BY PlacesInductive DEF EngineInv, DoneInv, Blank, Init
<1>2. ASSUME EngineInv, [Next]_vars PROVE EngineInv'
  <2>1. PlacesInv'
    BY <1>2, PlacesInductive DEF EngineInv
  <2>2. Placed'
    BY <2>1 DEF PlacesInv, AnswersInv, RoomInv, TypeInv
  <2>3. Blank' /\ ready' \subseteq ready \cup SeqSet(Owing) \cup Deferred
    <3>1. ServiceStep
      BY <1>2, <2>2, ServiceNext
    <3> QED
      BY <1>2, <3>1, EngineParts, ServiceTypes, ServiceCompletes
  <2>4. \A r \in ready' : Constructed(r)
    BY <1>2, <2>3, EngineParts, DueConstructed DEF DoneInv
  <2>5. StayConstructed
    BY <1>2, EngineParts, LiveNext
  <2>6. DoneInv'
    BY <2>4, <2>5 DEF DoneInv, StayConstructed
  <2> QED
    BY <2>1, <2>3, <2>6 DEF EngineInv
<1> QED
  BY <1>1, <1>2

\* The engine implements PulserService: whatever the threads, programs and
\* bounds, commands are written in the order they were asked for, and each is
\* completed once, with its own answer, those that return a result in the order
\* they were written.  It is the safety part of ImplementsService, under the
\* conditions of AnswersAreFinal.
THEOREM EngineImplementsService ==
  Disciplined /\ Distinct /\ FALSE \notin StaleHasRes => (Spec => Service!Spec)
<1> SUFFICES ASSUME Disciplined, Distinct, FALSE \notin StaleHasRes
             PROVE  Spec => Service!Spec
  OBVIOUS
<1>1. (Init => EngineInv) /\ (EngineInv /\ [Next]_vars => EngineInv')
  BY EngineInductive
<1>2. Init => Service!Init
  BY ServiceInit
<1>3. EngineInv /\ EngineInv' /\ [Next]_vars => [Service!Next]_(Service!vars)
  <2>1. EngineInv' => Placed'
    BY DEF EngineInv, PlacesInv, AnswersInv, RoomInv, TypeInv
  <2> QED
    BY <2>1, ServiceNext DEF ServiceStep
<1> QED
  BY <1>1, <1>2, <1>3, PTL DEF Spec, Service!Spec
=============================================================================
