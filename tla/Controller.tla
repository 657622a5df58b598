----------------------------- MODULE Controller -----------------------------
(***************************************************************************)
(* The request engine of lib/pulser/controller.{h,cpp}: the threads that   *)
(* call Controller (each with a program of calls), the writer thread, the  *)
(* reader thread and the FPGA behind register 31.                          *)
(*                                                                         *)
(* Every thread has a program counter pc[t]; a step is the code between    *)
(* two points where another thread can interfere.  The FIFO<Request*>      *)
(* queues are sequences: each of their operations runs under a SpinLock    *)
(* and is one step (module Fifo shows that the ring buffer is a sequence). *)
(* A Request is an element of Req; `live' says whether the object exists.  *)
(* A command with no result only matters for its two register writes.      *)
(***************************************************************************)
EXTENDS Integers, Sequences, FiniteSets

CONSTANTS
  Procs,        \* threads that call the Controller (web workers, sequences)
  Writer,       \* m_writer_thread
  Reader,       \* m_reader_thread
  None,         \* "no thread" / "no word"
  Req,          \* the Request objects, each constructed at most once
  HasRes,       \* [Req -> BOOLEAN]: Request::has_res
  Program,      \* [Procs -> Seq(call)]: the calls each thread makes, in order
  NumLocks,     \* numLocks: bins of m_cond_vars
  MaxWrite,     \* max_write: results the FPGA may owe us (15 in the code)
  WriterMax,    \* the writer thread's max_num (32 in the code)
  BufSize,      \* buf_size of popResults and dumpNotifyQueue (32)
  Word,         \* 2^32: the values of an atomic<uint32_t>
  Earlier,      \* results already written and read when the model starts
  Zero,         \* the result 0 of a request that returns nothing
  Garbage,      \* what the FPGA answers to a torn pulse
  StaleHasRes   \* what has_res of a destroyed Request may read as

Threads == Procs \cup {Writer, Reader}
Bins    == 0 .. NumLocks - 1

ASSUME ThreadAssumption ==
  /\ Writer \notin Procs /\ Reader \notin Procs /\ Writer # Reader
  /\ None \notin Threads \cup [part : {"op", "ctrl"}, by : Threads]
ASSUME BoundAssumption ==
  /\ MaxWrite \in Nat \ {0} /\ WriterMax \in Nat \ {0}
  /\ BufSize \in Nat \ {0} /\ NumLocks \in Nat \ {0}
ASSUME WordAssumption == Word \in Nat /\ Word > 2 * MaxWrite /\ Earlier \in 0 .. Word - 1
ASSUME RequestAssumption ==
  /\ HasRes \in [Req -> BOOLEAN]
  /\ Zero \notin Req /\ Garbage \notin Req
  /\ StaleHasRes \in SUBSET BOOLEAN
\* A Controller::run that returns a value owns Request objects that have a
\* result; it could never find room for more of them than max_write.
ASSUME ProgramAssumption ==
  \A t \in Procs :
    /\ DOMAIN Program[t] = 1 .. Len(Program[t]) /\ Len(Program[t]) \in Nat
    /\ \A i \in DOMAIN Program[t] :
         /\ Program[t][i].op \in {"reqSync", "lock", "unlock", "hold", "finish",
                                  "pulse", "run", "serve", "destroy"}
         /\ Program[t][i].op \in {"reqSync", "run"} =>
              Program[t][i].reqs \in Seq(Req) \ {<<>>}
         /\ Program[t][i].op = "run" =>
              /\ \A r \in DOMAIN Program[t][i].reqs : HasRes[Program[t][i].reqs[r]]
              /\ Len(Program[t][i].reqs) <= MaxWrite
         /\ Program[t][i].op = "serve" =>
              Program[t][i].max \in Nat /\ Program[t][i].notify \in BOOLEAN

VARIABLES
  pc, ip, k,      \* label of every thread, a caller's current call, loop index
  m_lock,         \* holder of the controller lock (CtrlLocker)
  m_quit,
  m_req_queue,    \* requests to be written
  m_res_queue,    \* written requests that wait for a result
  m_notify_queue, \* written requests to be notified by the reader
  m_num_read, m_num_written,
  m_cond_id,      \* next condition variable bin
  w_wait,         \* threads asleep on m_writer_cond
  c_wait,         \* threads asleep on m_cond_vars[cond_id of their request]
  live, ready, res, cond_id,         \* the Request objects
  latch, fpga_cmds, fpga_out, hold,  \* the FPGA
  room, batch, nret, seen,           \* locals of writeRequests and run
  rd_res, rd_req                     \* results[] and reqs[] of the reader

lockVars  == <<m_lock, m_quit>>
queueVars == <<m_req_queue, m_res_queue, m_notify_queue>>
countVars == <<m_num_read, m_num_written>>
condVars  == <<w_wait, c_wait>>
reqVars   == <<live, ready, res, cond_id, m_cond_id>>
fpgaVars  == <<latch, fpga_cmds, fpga_out, hold>>
writeVars == <<room, batch, nret, seen>>
readVars  == <<rd_res, rd_req>>
vars == <<pc, ip, k, lockVars, queueVars, countVars, condVars, reqVars, fpgaVars,
          writeVars, readVars>>

\* What each kind of step leaves alone.
dataVars    == <<queueVars, countVars, reqVars, fpgaVars, writeVars, readVars>>
controlOnly == UNCHANGED <<lockVars, condVars, dataVars>>
lockOnly    == UNCHANGED <<m_quit, condVars, dataVars>>
condOnly    == UNCHANGED <<lockVars, dataVars>>
countOnly   == UNCHANGED <<lockVars, queueVars, condVars, reqVars, fpgaVars, readVars>>
queueOnly   == UNCHANGED <<lockVars, countVars, condVars, reqVars, fpgaVars>>
reqOnly     == UNCHANGED <<lockVars, queueVars, countVars, condVars, fpgaVars,
                           writeVars, readVars>>
fpgaOnly    == UNCHANGED <<lockVars, queueVars, countVars, condVars, reqVars,
                           writeVars>>
-----------------------------------------------------------------------------
Goto(t, label) == pc' = [pc EXCEPT ![t] = label]
Loop(t, n)     == k' = [k EXCEPT ![t] = n]

\* The call a thread is making, and whether its program still has one.
Call(t)        == Program[t][ip[t]]
Calling(t, op) == pc[t] = "call" /\ ip[t] <= Len(Program[t]) /\ Call(t).op = op
Finished(t)    == pc[t] = "call" /\ ip[t] > Len(Program[t])

NextCall(t) == Goto(t, "call") /\ ip' = [ip EXCEPT ![t] = @ + 1] /\ Loop(t, 1)

\* writeRequests' arguments and its return, for the writer and a `serve' call.
MaxNum(t)    == IF t = Writer THEN WriterMax ELSE Call(t).max
NotifyNow(t) == IF t = Writer THEN TRUE ELSE Call(t).notify
Return(t) == IF t = Writer
             THEN Goto(t, "w_unlock") /\ Loop(t, 1) /\ UNCHANGED ip
             ELSE NextCall(t)

SeqSet(q)   == {q[j] : j \in DOMAIN q}
MinOf(x, y) == IF x <= y THEN x ELSE y
\* What pop takes from a queue, and what it leaves.  A name that ends in X is a
\* slip one could make in the definition that follows it; nothing uses it.
TakeX(q, n) == SubSeq(q, Len(q) - n + 1, Len(q))
Take(q, n)  == SubSeq(q, 1, n)
DropX(q, n) == <<>>
Drop(q, n)  == SubSeq(q, n + 1, Len(q))

\* The counters are unsigned and wrap; a difference of two is converted to int.
Count(n)  == n % Word
Signed(n) == IF Count(n) < Word - Count(n) THEN Count(n) ELSE Count(n) - Word

resBuffSpaceX == Signed(MaxWrite + 1 - m_num_written + m_num_read)
resBuffSpace  == Signed(MaxWrite - m_num_written + m_num_read)

\* The requests of t's loop, and the one it is working on.
WriteLabels == {"wr_push", "wr_op", "wr_ctrl", "wr_check", "wr_notify"}
Requests(t) == IF pc[t] \in WriteLabels THEN batch[t] ELSE Call(t).reqs
Current(t)  == Requests(t)[k[t]]
IsLast(t)   == k[t] >= Len(Requests(t))

\* End of a loop's body: the next iteration at one label or the exit at another.
Iterate(t, again, done) ==
  IF IsLast(t) THEN Goto(t, done) /\ Loop(t, 1) ELSE Goto(t, again) /\ Loop(t, k[t] + 1)

\* The condition variable setRes notifies after it has released the lock.  A
\* destroyed Request may hold any byte, one outside the array included.
NotifiedBins(r) == IF r \in live THEN {cond_id[r]} ELSE Bins \cup {NumLocks}
NotifyBinX(b)   == /\ \E u \in c_wait \cup {None} : c_wait' = c_wait \ {u}
                   /\ UNCHANGED w_wait
NotifyBin(b)    == /\ c_wait' = {u \in c_wait : cond_id[Current(u)] # b}
                   /\ UNCHANGED w_wait
NotifyWriterCond == w_wait' = {} /\ UNCHANGED c_wait

\* getCondId: the bin after b.
NextBinX(b) == b + 1
NextBin(b)  == (b + 1) % NumLocks

SetRes(r, v) ==
  /\ ready' = ready \cup {r}
  /\ res' = [res EXCEPT ![r] = v]
  /\ UNCHANGED <<live, cond_id, m_cond_id>>
-----------------------------------------------------------------------------
Init ==
  /\ pc = [t \in Threads |-> CASE t = Writer -> "w_top"
                               [] t = Reader -> "r_top"
                               [] OTHER -> "call"]
  /\ ip = [t \in Procs |-> 1] /\ k = [t \in Threads |-> 1]
  /\ m_lock = None /\ m_quit = FALSE
  /\ m_req_queue = <<>> /\ m_res_queue = <<>> /\ m_notify_queue = <<>>
  /\ m_num_read = Earlier /\ m_num_written = Earlier
  /\ m_cond_id \in Bins          \* the constructor leaves it uninitialised
  /\ w_wait = {} /\ c_wait = {}
  /\ live = {} /\ ready = {}
  /\ res = [r \in Req |-> Zero] /\ cond_id = [r \in Req |-> 0]
  /\ latch = None /\ fpga_cmds = <<>> /\ fpga_out = <<>> /\ hold = FALSE
  /\ room = [t \in Threads |-> 0] /\ batch = [t \in Threads |-> <<>>]
  /\ nret = [t \in Threads |-> 0] /\ seen = [t \in Threads |-> 0]
  /\ rd_res = <<>> /\ rd_req = <<>>
-----------------------------------------------------------------------------
(* The FPGA (external): it takes a pulse from every two writes to register *)
(* 31, executes pulses in order and appends the results to its buffer.     *)

WriteOp(t) ==
  IF latch = None
  THEN latch' = [part |-> "op", by |-> t] /\ UNCHANGED <<fpga_cmds, fpga_out, hold>>
  ELSE /\ latch' = None /\ UNCHANGED <<fpga_out, hold>>
       /\ fpga_cmds' \in {fpga_cmds, Append(fpga_cmds, Garbage)}

\* The control word completes a pulse; one that returns a result is owed it.
WriteCtrl(t, results) ==
  IF latch = None
  THEN latch' = [part |-> "ctrl", by |-> t] /\ UNCHANGED <<fpga_cmds, fpga_out, hold>>
  ELSE /\ latch' = None /\ UNCHANGED <<fpga_out, hold>>
       /\ fpga_cmds' \in IF latch = [part |-> "op", by |-> t]
                         THEN {fpga_cmds \o results}
                         ELSE {fpga_cmds, Append(fpga_cmds, Garbage)}

\* Pulses run while hold is set only once the pulse buffer is full, which the
\* model leaves open: the step is always possible, and fair when not held.
FpgaExec ==
  /\ fpga_cmds # <<>>
  /\ fpga_out' = Append(fpga_out, Head(fpga_cmds))
  /\ fpga_cmds' = Tail(fpga_cmds)
  /\ UNCHANGED <<pc, ip, k, latch, hold, readVars>> /\ fpgaOnly

\* shortPulse: the operand, then the control word.
ShortPulseOp(t, from, to) ==
  /\ pc[t] = from /\ Goto(t, to)
  /\ WriteOp(t)
  /\ UNCHANGED <<ip, k, readVars>> /\ fpgaOnly
-----------------------------------------------------------------------------
(* The calls of the sequences: the controller lock, hold, single pulses.   *)

Lock(t) ==
  /\ Calling(t, "lock") /\ NextCall(t)
  /\ m_lock = None /\ m_lock' = t /\ lockOnly

Unlock(t) ==
  /\ Calling(t, "unlock") /\ NextCall(t)
  /\ m_lock' = None /\ lockOnly

\* setHold; toggleInit (which does not touch the pulse and result buffers).
SetHold(t) ==
  /\ Calling(t, "hold") /\ NextCall(t)
  /\ hold' = TRUE
  /\ UNCHANGED <<latch, fpga_cmds, fpga_out, readVars>> /\ fpgaOnly

\* waitFinish: releaseHold, then spin on isFinished.
ReleaseHold(t) ==
  /\ Calling(t, "finish") /\ Goto(t, "finish")
  /\ hold' = FALSE
  /\ UNCHANGED <<ip, k, latch, fpga_cmds, fpga_out, readVars>> /\ fpgaOnly

WaitFinish(t) ==
  /\ pc[t] = "finish" /\ NextCall(t)
  /\ fpga_cmds = <<>>
  /\ controlOnly

\* A pulse that returns nothing, written by its caller.
Pulse(t) ==
  /\ Calling(t, "pulse") /\ Goto(t, "pulse_op")
  /\ UNCHANGED <<ip, k>> /\ controlOnly

PulseCtrl(t) ==
  /\ pc[t] = "pulse_ctrl" /\ NextCall(t)
  /\ WriteCtrl(t, <<>>)
  /\ UNCHANGED readVars /\ fpgaOnly
-----------------------------------------------------------------------------
(* Requests: construction, reqSync, wait                                   *)

\* Request::Request, one at a time; m_cond_id is a shared atomic counter.
NewRequest(t) ==
  /\ Calling(t, "reqSync") \/ Calling(t, "run")
  /\ Iterate(t, "call", IF Call(t).op = "run" THEN "run_push" ELSE "push")
  /\ live' = live \cup {Current(t)}
  /\ ready' = ready \ {Current(t)}
  /\ res' = [res EXCEPT ![Current(t)] = Zero]
  /\ cond_id' = [cond_id EXCEPT ![Current(t)] = m_cond_id]
  /\ m_cond_id' = NextBin(m_cond_id)
  /\ UNCHANGED ip /\ reqOnly

\* pushReq, under m_writer_lock, and its notify_all after the unlock.
PushReq(t) ==
  /\ pc[t] = "push" /\ Goto(t, "pushn")
  /\ m_req_queue' = Append(m_req_queue, Current(t))
  /\ UNCHANGED <<ip, k, m_res_queue, m_notify_queue, writeVars, readVars>> /\ queueOnly

PushReqNotify(t) ==
  /\ pc[t] = "pushn" /\ Iterate(t, "push", "wait")
  /\ NotifyWriterCond
  /\ UNCHANGED ip /\ condOnly

\* wait: the predicate is checked, and the thread put to sleep, under the bin's
\* lock.  After its last request the caller reads the results and returns,
\* which destroys the requests.
WaitSleep(t) ==
  /\ pc[t] = "wait" /\ t \notin c_wait
  /\ Current(t) \notin ready
  /\ c_wait' = c_wait \cup {t}
  /\ UNCHANGED <<pc, ip, k, w_wait>> /\ condOnly

WaitReady(t) ==
  /\ pc[t] = "wait" /\ t \notin c_wait
  /\ Current(t) \in ready
  /\ IF IsLast(t) THEN NextCall(t) ELSE Loop(t, k[t] + 1) /\ UNCHANGED <<pc, ip>>
  /\ live' = IF IsLast(t) THEN live \ SeqSet(Call(t).reqs) ELSE live
  /\ UNCHANGED <<ready, res, cond_id, m_cond_id>> /\ reqOnly
-----------------------------------------------------------------------------
(* run of a command with results                                           *)

RunPush(t) ==
  /\ pc[t] = "run_push" /\ Iterate(t, "run_push", "run_space")
  /\ m_res_queue' = Append(m_res_queue, Current(t))
  /\ UNCHANGED <<ip, m_req_queue, m_notify_queue, writeVars, readVars>> /\ queueOnly

\* waitForResSpace
HasResSpace(t) ==
  /\ pc[t] = "run_space" /\ Goto(t, "run_op")
  /\ t \notin w_wait /\ resBuffSpace >= Len(Call(t).reqs)
  /\ UNCHANGED <<ip, k>> /\ controlOnly

NoResSpace(t) ==
  /\ pc[t] = "run_space" /\ t \notin w_wait
  /\ resBuffSpace < Len(Call(t).reqs)
  /\ w_wait' = w_wait \cup {t}
  /\ UNCHANGED <<pc, ip, k, c_wait>> /\ condOnly

\* A composite command writes its pulses one after the other.
RunPulseCtrl(t) ==
  /\ pc[t] = "run_ctrl"
  /\ Iterate(t, "run_op", IF Len(Call(t).reqs) = 1 THEN "run_inc" ELSE "load")
  /\ WriteCtrl(t, <<Current(t)>>)
  /\ UNCHANGED <<ip, readVars>> /\ fpgaOnly

\* m_num_written++ of a simple command: one atomic step.
RunIncrement(t) ==
  /\ pc[t] = "run_inc" /\ Goto(t, "wait")
  /\ m_num_written' = Count(m_num_written + 1)
  /\ UNCHANGED <<ip, k, m_num_read, writeVars>> /\ countOnly

\* m_num_written.store(m_num_written.load() + n), of a composite command and of
\* writeRequests: two steps.
LoadWritten(t) ==
  /\ pc[t] = "load" /\ Goto(t, "store")
  /\ seen' = [seen EXCEPT ![t] = m_num_written]
  /\ UNCHANGED <<ip, k, countVars, room, batch, nret>> /\ countOnly

Running(t) == t # Writer /\ Call(t).op = "run"

StoreWritten(t) ==
  /\ pc[t] = "store"
  /\ m_num_written' = Count(seen[t] + IF Running(t) THEN Len(Call(t).reqs) ELSE nret[t])
  /\ seen' = [seen EXCEPT ![t] = 0]
  /\ nret' = [nret EXCEPT ![t] = 0]
  /\ IF Running(t) THEN Goto(t, "wait") /\ UNCHANGED <<ip, k>> ELSE Return(t)
  /\ UNCHANGED <<m_num_read, room, batch>> /\ countOnly
-----------------------------------------------------------------------------
(* writeRequests                                                           *)

\* The first lines: how many requests there may be room for.
WriteSpace(t) ==
  /\ pc[t] = "wr_space" \/ Calling(t, "serve")
  /\ IF resBuffSpace <= 0 \/ MaxNum(t) = 0
     THEN Return(t) /\ UNCHANGED room
     ELSE /\ room' = [room EXCEPT ![t] = MinOf(MaxNum(t), resBuffSpace)]
          /\ Goto(t, "wr_pop") /\ UNCHANGED <<ip, k>>
  /\ UNCHANGED <<countVars, batch, nret, seen>> /\ countOnly

\* has_res decides whether the request is pushed to m_res_queue before its
\* pulse is written.
WriteLabelX(r) == "wr_op"
WriteLabel(r)  == IF HasRes[r] THEN "wr_push" ELSE "wr_op"

WritePop(t) ==
  /\ pc[t] = "wr_pop"
  /\ LET n == MinOf(room[t], Len(m_req_queue)) IN
       /\ batch' = [batch EXCEPT ![t] = Take(m_req_queue, n)]
       /\ m_req_queue' = Drop(m_req_queue, n)
       /\ IF n = 0 THEN Return(t)
                   ELSE Goto(t, WriteLabel(Head(m_req_queue))) /\ UNCHANGED <<ip, k>>
  /\ room' = [room EXCEPT ![t] = 0]
  /\ UNCHANGED <<m_res_queue, m_notify_queue, nret, seen, readVars>> /\ queueOnly

WritePush(t) ==
  /\ pc[t] = "wr_push" /\ Goto(t, "wr_op")
  /\ m_res_queue' = Append(m_res_queue, Current(t))
  /\ nret' = [nret EXCEPT ![t] = @ + 1]
  /\ UNCHANGED <<ip, k, m_req_queue, m_notify_queue, room, batch, seen, readVars>>
  /\ queueOnly

WritePulseCtrl(t) ==
  /\ pc[t] = "wr_ctrl" /\ Goto(t, "wr_check")
  /\ WriteCtrl(t, IF HasRes[Current(t)] THEN <<Current(t)>> ELSE <<>>)
  /\ UNCHANGED <<ip, k, readVars>> /\ fpgaOnly

\* The end of the loop's body, and of the loop.
NextWrite(t) ==
  /\ IF ~IsLast(t)
     THEN Goto(t, WriteLabel(batch[t][k[t] + 1])) /\ Loop(t, k[t] + 1) /\ UNCHANGED ip
     ELSE IF nret[t] = 0 THEN Return(t)
                         ELSE Goto(t, "load") /\ Loop(t, 1) /\ UNCHANGED ip
  /\ batch' = IF IsLast(t) THEN [batch EXCEPT ![t] = <<>>] ELSE batch
  /\ UNCHANGED <<room, nret, seen, readVars>>

\* What the read of has_res after the pulse was written can return: by then the
\* reader may have completed the request and its owner destroyed it.
HasResReadX(r) == {FALSE}
HasResRead(r)  == IF r \in live THEN {HasRes[r]} ELSE StaleHasRes

WriteHasRes(t) ==
  /\ pc[t] = "wr_check" /\ NextWrite(t)
  /\ TRUE \in HasResRead(Current(t))
  /\ UNCHANGED queueVars /\ queueOnly

WriteDefer(t) ==
  /\ pc[t] = "wr_check" /\ NextWrite(t)
  /\ FALSE \in HasResRead(Current(t)) /\ ~NotifyNow(t)
  /\ m_notify_queue' = Append(m_notify_queue, Current(t))
  /\ UNCHANGED <<m_req_queue, m_res_queue>> /\ queueOnly

\* setRes(*req, 0) up to its unlock, and its notify_all.
WriteSetRes(t) ==
  /\ pc[t] = "wr_check" /\ Goto(t, "wr_notify")
  /\ FALSE \in HasResRead(Current(t)) /\ NotifyNow(t)
  /\ SetRes(Current(t), Zero)
  /\ UNCHANGED <<ip, k>> /\ reqOnly

WriteNotify(t) ==
  /\ pc[t] = "wr_notify" /\ NextWrite(t)
  /\ \E b \in NotifiedBins(Current(t)) : NotifyBin(b)
  /\ UNCHANGED <<lockVars, queueVars, countVars, reqVars, fpgaVars>>
-----------------------------------------------------------------------------
(* runWriter                                                               *)

WriterTop ==
  /\ pc[Writer] = "w_top" /\ Goto(Writer, IF m_quit THEN "w_done" ELSE "w_wait")
  /\ UNCHANGED <<ip, k>> /\ controlOnly

WriterHasWorkX == resBuffSpace > 0 /\ m_req_queue # <<>>
WriterHasWork  == m_quit \/ (resBuffSpace > 0 /\ m_req_queue # <<>>)

WriterSleep ==
  /\ pc[Writer] = "w_wait" /\ Writer \notin w_wait
  /\ ~WriterHasWork
  /\ w_wait' = w_wait \cup {Writer}
  /\ UNCHANGED <<pc, ip, k, c_wait>> /\ condOnly

WriterWake ==
  /\ pc[Writer] = "w_wait" /\ Goto(Writer, "w_lock")
  /\ Writer \notin w_wait /\ WriterHasWork
  /\ UNCHANGED <<ip, k>> /\ controlOnly

WriterLockX ==
  /\ pc[Writer] = "w_lock" /\ Goto(Writer, "wr_space")
  /\ UNCHANGED <<ip, k>> /\ controlOnly
WriterLock ==
  /\ pc[Writer] = "w_lock" /\ Goto(Writer, "wr_space")
  /\ m_lock = None /\ m_lock' = Writer
  /\ UNCHANGED <<ip, k>> /\ lockOnly

WriterUnlock ==
  /\ pc[Writer] = "w_unlock" /\ Goto(Writer, "w_top")
  /\ m_lock' = None
  /\ UNCHANGED <<ip, k>> /\ lockOnly
-----------------------------------------------------------------------------
(* runReader, popRemaining, popResults, dumpNotifyQueue                    *)

ReaderGoto(from, to) ==
  /\ pc[Reader] = from /\ Goto(Reader, to)
  /\ UNCHANGED <<ip, k>> /\ controlOnly

ReaderTop == ReaderGoto("r_top", IF m_quit THEN "r_done" ELSE "r_sleep")

\* wait_for: a notification or the timeout, whichever comes first.
ReaderWake == ReaderGoto("r_sleep", "r_check")

ReaderCheckX ==
  ReaderGoto("r_check", IF m_num_written > m_num_read /\ ~m_quit
                        THEN "r_read" ELSE "r_dump")
ReaderCheck ==
  ReaderGoto("r_check", IF Signed(m_num_written - m_num_read) > 0 /\ ~m_quit
                        THEN "r_read" ELSE "r_dump")

\* numResults and that many readResult; the reader is the only consumer.
ReadResults ==
  /\ pc[Reader] = "r_read"
  /\ Goto(Reader, IF fpga_out = <<>> THEN "r_check" ELSE "r_count")
  /\ LET n == MinOf(BufSize, Len(fpga_out)) IN
       rd_res' = Take(fpga_out, n) /\ fpga_out' = Drop(fpga_out, n)
  /\ UNCHANGED <<ip, k, latch, fpga_cmds, hold, rd_req>> /\ fpgaOnly

CountRead ==
  /\ pc[Reader] = "r_count" /\ Goto(Reader, "r_pop")
  /\ m_num_read' = Count(m_num_read + Len(rd_res))
  /\ UNCHANGED <<ip, k, m_num_written, writeVars>> /\ countOnly

PopResQueue ==
  /\ pc[Reader] = "r_pop" /\ Goto(Reader, "r_wake")
  /\ LET n == MinOf(Len(rd_res), Len(m_res_queue)) IN
       rd_req' = Take(m_res_queue, n) /\ m_res_queue' = Drop(m_res_queue, n)
  /\ UNCHANGED <<ip, k, m_req_queue, m_notify_queue, writeVars, rd_res>> /\ queueOnly

ReaderNotifyWriter ==
  /\ pc[Reader] = "r_wake" /\ Goto(Reader, IF rd_req = <<>> THEN "r_check" ELSE "r_set")
  /\ NotifyWriterCond
  /\ UNCHANGED <<ip, k>> /\ condOnly

DumpNotifyQueue ==
  /\ pc[Reader] = "r_dump"
  /\ Goto(Reader, IF m_notify_queue = <<>> THEN "r_top" ELSE "d_set")
  /\ LET n == MinOf(BufSize, Len(m_notify_queue)) IN
       /\ rd_req' = Take(m_notify_queue, n)
       /\ m_notify_queue' = Drop(m_notify_queue, n)
       /\ rd_res' = [j \in 1 .. n |-> Zero]
  /\ UNCHANGED <<ip, k, m_req_queue, m_res_queue, writeVars>> /\ queueOnly

\* setRes up to its unlock, from popResults (r_) or dumpNotifyQueue (d_), and
\* its notify_all; then the next of the requests that were popped.
ReaderSetRes(from, to) ==
  /\ pc[Reader] = from /\ Goto(Reader, to)
  /\ SetRes(rd_req[k[Reader]], rd_res[k[Reader]])
  /\ UNCHANGED <<ip, k>> /\ reqOnly

ReaderNotify(from, again, done) ==
  /\ pc[Reader] = from
  /\ \E b \in NotifiedBins(rd_req[k[Reader]]) : NotifyBin(b)
  /\ IF k[Reader] < Len(rd_req)
     THEN Goto(Reader, again) /\ Loop(Reader, k[Reader] + 1) /\ UNCHANGED readVars
     ELSE Goto(Reader, done) /\ Loop(Reader, 1) /\ rd_res' = <<>> /\ rd_req' = <<>>
  /\ UNCHANGED <<ip, lockVars, queueVars, countVars, reqVars, fpgaVars, writeVars>>
-----------------------------------------------------------------------------
(* ~Controller, called when every other caller has returned                *)

\* m_quit is set under m_reader_lock, which the reader holds while it works.
Quit(t) ==
  /\ Calling(t, "destroy") /\ Goto(t, "q_notify")
  /\ \A u \in Procs \ {t} : Finished(u)
  /\ pc[Reader] \in {"r_top", "r_sleep"}
  /\ m_quit' = TRUE
  /\ UNCHANGED <<ip, k, m_lock, condVars, dataVars>>

QuitNotify(t) ==
  /\ pc[t] = "q_notify" /\ Goto(t, "q_join")
  /\ NotifyWriterCond
  /\ UNCHANGED <<ip, k>> /\ condOnly

Join(t) ==
  /\ pc[t] = "q_join" /\ NextCall(t)
  /\ pc[Reader] = "r_done" /\ pc[Writer] = "w_done"
  /\ controlOnly
-----------------------------------------------------------------------------
\* A condition variable may wake a thread that nobody notified.
SpuriousWake(t) ==
  /\ t \in w_wait \cup c_wait
  /\ w_wait' = w_wait \ {t} /\ c_wait' = c_wait \ {t}
  /\ UNCHANGED <<pc, ip, k>> /\ condOnly

\* The end of the program: every thread has returned.
Terminated ==
  /\ \A t \in Procs : Finished(t)
  /\ pc[Writer] = "w_done" /\ pc[Reader] = "r_done"
  /\ UNCHANGED vars

WriteRequests(t) ==
  \/ WriteSpace(t) \/ WritePop(t) \/ WritePush(t)
  \/ ShortPulseOp(t, "wr_op", "wr_ctrl") \/ WritePulseCtrl(t)
  \/ WriteHasRes(t) \/ WriteSetRes(t) \/ WriteNotify(t) \/ WriteDefer(t)
  \/ LoadWritten(t) \/ StoreWritten(t)

Caller(t) ==
  \/ Lock(t) \/ Unlock(t) \/ SetHold(t) \/ ReleaseHold(t) \/ WaitFinish(t)
  \/ Pulse(t) \/ ShortPulseOp(t, "pulse_op", "pulse_ctrl") \/ PulseCtrl(t)
  \/ NewRequest(t) \/ PushReq(t) \/ PushReqNotify(t)
  \/ WaitSleep(t) \/ WaitReady(t)
  \/ RunPush(t) \/ HasResSpace(t) \/ NoResSpace(t) \/ RunIncrement(t)
  \/ ShortPulseOp(t, "run_op", "run_ctrl") \/ RunPulseCtrl(t)
  \/ Quit(t) \/ QuitNotify(t) \/ Join(t)
  \/ WriteRequests(t)

WriterThread ==
  \/ WriterTop \/ WriterSleep \/ WriterWake \/ WriterLock \/ WriterUnlock
  \/ WriteRequests(Writer)

ReaderThread ==
  \/ ReaderTop \/ ReaderWake \/ ReaderCheck \/ ReadResults \/ CountRead
  \/ PopResQueue \/ ReaderNotifyWriter \/ DumpNotifyQueue
  \/ ReaderSetRes("r_set", "r_notify") \/ ReaderNotify("r_notify", "r_set", "r_check")
  \/ ReaderSetRes("d_set", "d_notify") \/ ReaderNotify("d_notify", "d_set", "r_top")

Next ==
  \/ \E t \in Procs : Caller(t)
  \/ WriterThread
  \/ ReaderThread
  \/ FpgaExec
  \/ \E t \in Threads : SpuriousWake(t)
  \/ Terminated

Spec == Init /\ [][Next]_vars

\* Every thread keeps running, and the FPGA executes its pulses unless it is
\* held (a held FPGA may start when its buffer is full, but need not).  The
\* destructor gets m_reader_lock in the end, because the reader leaves it free
\* for the milliseconds it sleeps; no other mutex needs to be fair, since the
\* programs are finite.
FairSpec ==
  /\ Spec
  /\ \A t \in Procs : WF_vars(Caller(t)) /\ SF_vars(Quit(t))
  /\ WF_vars(WriterThread)
  /\ WF_vars(ReaderThread)
  /\ WF_vars(FpgaExec /\ ~hold)
=============================================================================
