------------------------ MODULE ControllerProperties ------------------------
(***************************************************************************)
(* What the request engine promises its callers, over module Controller.   *)
(***************************************************************************)
EXTENDS Controller

CtrlLabels == {"wr_ctrl", "run_ctrl", "pulse_ctrl"}

\* The labels of each thread.
CallerLabels == {"call", "finish", "pulse_op", "pulse_ctrl", "push", "pushn", "wait",
                 "run_push", "run_space", "run_op", "run_ctrl", "run_inc", "load",
                 "store", "wr_pop", "q_notify", "q_join"} \cup WriteLabels
WriterLabels == {"w_top", "w_wait", "w_lock", "w_unlock", "w_done", "wr_space",
                 "wr_pop", "load", "store"} \cup WriteLabels
ReaderLabels == {"r_top", "r_sleep", "r_check", "r_read", "r_count", "r_pop", "r_wake",
                 "r_set", "r_notify", "r_dump", "d_set", "d_notify", "r_done"}

LockTypes  == m_lock \in Threads \cup {None} /\ m_quit \in BOOLEAN
QueueTypes == /\ m_req_queue \in Seq(Req) /\ m_res_queue \in Seq(Req)
              /\ m_notify_queue \in Seq(Req)
CountTypes == m_num_read \in 0 .. Word - 1 /\ m_num_written \in 0 .. Word - 1
CondTypes  == w_wait \subseteq Threads /\ c_wait \subseteq Procs
ReqTypes   == /\ live \subseteq Req /\ ready \subseteq Req
              /\ res \in [Req -> Req \cup {Zero, Garbage}]
              /\ cond_id \in [Req -> Bins] /\ m_cond_id \in Bins
FpgaTypes  == /\ latch \in [part : {"op", "ctrl"}, by : Threads] \cup {None}
              /\ fpga_cmds \in Seq(Req \cup {Garbage})
              /\ fpga_out \in Seq(Req \cup {Garbage})
              /\ hold \in BOOLEAN
WriteTypes == /\ batch \in [Threads -> Seq(Req)] /\ room \in [Threads -> Nat]
              /\ nret \in [Threads -> Nat] /\ seen \in [Threads -> Nat]
ReadTypes  == rd_res \in Seq(Req \cup {Zero, Garbage}) /\ rd_req \in Seq(Req)

\* The types of the members, of the Requests and of each function's locals.
TypeOK ==
  /\ pc \in [Threads -> CallerLabels \cup WriterLabels \cup ReaderLabels]
  /\ ip \in [Procs -> Nat \ {0}] /\ k \in [Threads -> Nat \ {0}]
  /\ LockTypes /\ QueueTypes /\ CountTypes /\ CondTypes
  /\ ReqTypes /\ FpgaTypes /\ WriteTypes /\ ReadTypes

\* A call that only the holder of the controller lock may make (controller.h:
\* "needs to aquire the writer lock when calling these functions").
LockedOps == {"unlock", "hold", "finish", "pulse", "run", "serve"}

\* Thread t holds the lock while it makes its i-th call.
LockedAt(t, i) ==
  \E j \in 1 .. i - 1 :
    /\ Program[t][j].op = "lock"
    /\ \A l \in j + 1 .. i - 1 : Program[t][l].op # "unlock"

\* The programs take the lock as the code's comments ask.
Disciplined ==
  \A t \in Procs : \A i \in DOMAIN Program[t] :
    /\ Program[t][i].op \in LockedOps => LockedAt(t, i)
    /\ Program[t][i].op \in {"lock", "destroy"} => ~LockedAt(t, i)

\* shortPulse is not interleaved: the FPGA always pairs the two words of one
\* pulse, so it never executes half of one command with half of another.
WholePulses ==
  /\ \A t \in Threads :
       pc[t] \in CtrlLabels => latch = [part |-> "op", by |-> t]
  /\ latch # None => pc[latch.by] \in CtrlLabels

\* The results the FPGA holds or still owes fit its result buffer, so that none
\* is lost (max_write, controller.cpp:150 and controller.h:403).
ResultBufferBound == Len(fpga_out) + Len(fpga_cmds) <= MaxWrite

\* writeRequests pops into `Request *reqs[max_write]' (controller.cpp:160): the
\* number it asks for never exceeds the array, although the reader may have
\* counted results the writer has not counted yet.
BatchFits == \A t \in Threads : room[t] <= MaxWrite /\ Len(batch[t]) <= MaxWrite

\* The requests a thread has pushed to m_res_queue and not yet written.
Unwritten(t) ==
  CASE pc[t] = "run_push"              -> SubSeq(Call(t).reqs, 1, k[t] - 1)
    [] pc[t] = "run_space"             -> Call(t).reqs
    [] pc[t] \in {"run_op", "run_ctrl"} ->
         SubSeq(Call(t).reqs, k[t], Len(Call(t).reqs))
    [] pc[t] \in {"wr_op", "wr_ctrl"}  ->
         IF HasRes[Current(t)] THEN <<Current(t)>> ELSE <<>>
    [] OTHER                           -> <<>>

\* Results the reader holds whose requests are still in m_res_queue.
ReadUnpopped == IF pc[Reader] \in {"r_count", "r_pop"} THEN rd_res ELSE <<>>

\* The queue of requests that wait for a result is, in order, exactly the
\* results that will arrive: those the reader just read, those in the FPGA's
\* buffer, those of pulses not yet executed, and those about to be written.
\* Then popResults' assertion holds (num_pop == n_res, controller.cpp:84) and
\* every result goes to its own request.
ResultOrder ==
  LET arriving == ReadUnpopped \o fpga_out \o fpga_cmds IN
  \/ \E t \in Threads : m_res_queue = arriving \o Unwritten(t)
  \/ m_res_queue = arriving

\* What a caller gets is the answer to its own request.
OwnResult ==
  \A r \in ready \cap live : res[r] = IF HasRes[r] THEN r ELSE Zero

\* No queue and no local array holds a pointer to a destroyed request that will
\* be used again: a request whose result was set is out of every queue.  (The
\* last reads of a request by writeRequests and setRes are HasResReadLive and
\* CondIdReadLive below.)
NoDangling ==
  /\ SeqSet(m_req_queue) \cup SeqSet(m_res_queue) \cup SeqSet(m_notify_queue)
       \subseteq live \ ready
  /\ \A t \in Threads : \A j \in DOMAIN batch[t] :
       (j > k[t] \/ (pc[t] \in {"wr_push", "wr_op", "wr_ctrl"} /\ j = k[t])) =>
         batch[t][j] \in live \ ready
  /\ \A j \in DOMAIN rd_req :
       (j > k[Reader] \/ (pc[Reader] \in {"r_set", "d_set"} /\ j = k[Reader])) =>
         rd_req[j] \in live \ ready

\* A request is completed once: its answer never changes while its owner can
\* still read it.
CompletedOnce ==
  [][\A r \in ready \cap live \cap live' : r \in ready' /\ res'[r] = res[r]]_vars

\* No wake-up is lost.  A thread asleep on a condition that has come true is
\* about to be notified: a caller by whoever set its request's result, a thread
\* that waits for work or space by whoever queued the request, counted the
\* results or set m_quit.
NoLostWakeup ==
  /\ \A t \in c_wait : Current(t) \in ready =>
       \/ \E u \in Threads : pc[u] = "wr_notify" /\ Current(u) = Current(t)
       \/ /\ pc[Reader] \in {"r_notify", "d_notify"}
          /\ rd_req[k[Reader]] = Current(t)
  /\ \A t \in w_wait :
       (IF t = Writer THEN WriterHasWork ELSE resBuffSpace >= Len(Call(t).reqs)) =>
         \/ \E u \in Threads : pc[u] \in {"pushn", "q_notify"}
         \/ pc[Reader] \in {"r_pop", "r_wake"}

\* Every call returns: each thread comes to the end of its program.
Returns == \A t \in Procs : <>[]Finished(t)

\* The destructor joins both helper threads and returns.
Terminates == <>[](pc[Writer] = "w_done" /\ pc[Reader] = "r_done")

\* controller.cpp:173-175 says a request is not to be touched once it is done:
\* "the request is invalid (might be freed / destructed at any time) after
\* that".  has_res is read again, at line 172, after the pulse was written ...
HasResReadLive ==
  \A t \in Threads : pc[t] = "wr_check" => Current(t) \in live

\* ... and setRes reads cond_id, at line 50, after it published `ready'.
CondIdReadLive ==
  /\ \A t \in Threads : pc[t] = "wr_notify" => Current(t) \in live
  /\ pc[Reader] \in {"r_notify", "d_notify"} => rd_req[k[Reader]] \in live
-----------------------------------------------------------------------------
(* The engine implements PulserService.                                    *)

From(q, j) == SubSeq(q, j, Len(q))

BatchLeft(t) ==
  CASE pc[t] \in {"wr_push", "wr_op", "wr_ctrl"} -> From(batch[t], k[t])
    [] pc[t] \in {"wr_check", "wr_notify"}       -> From(batch[t], k[t] + 1)
    [] OTHER                                     -> <<>>

ReadLeft ==
  CASE pc[Reader] \in {"r_count", "r_pop", "r_wake"} -> rd_res
    [] pc[Reader] = "r_set"                          -> From(rd_res, k[Reader])
    [] pc[Reader] = "r_notify"                       -> From(rd_res, k[Reader] + 1)
    [] OTHER                                         -> <<>>

DumpLeft ==
  CASE pc[Reader] = "d_set"    -> From(rd_req, k[Reader])
    [] pc[Reader] = "d_notify" -> From(rd_req, k[Reader] + 1)
    [] OTHER                   -> <<>>

\* What the holder of the controller lock has popped and not written, and what it
\* has written of the requests that return nothing, and not deferred or completed.
InHand    == IF m_lock = None THEN <<>> ELSE BatchLeft(m_lock)
Unchecked == {Current(t) : t \in {u \in Threads : pc[u] = "wr_check" /\ ~HasRes[Current(u)]}}

ToWrite  == InHand \o m_req_queue
Owing    == ReadLeft \o (fpga_out \o fpga_cmds)
Deferred == SeqSet(m_notify_queue) \cup SeqSet(DumpLeft) \cup Unchecked

Service == INSTANCE PulserService WITH asked <- ToWrite, written <- Owing,
  unanswered <- Deferred, done <- ready, answer <- res

\* Requests are written in the order they were asked for, each is completed
\* once with its own answer, and every one that was asked for is completed.
ImplementsService == Service!FairSpec
=============================================================================
