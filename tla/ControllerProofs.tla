-------------------------- MODULE ControllerProofs ---------------------------
(***************************************************************************)
(* Proofs about module Controller, for any threads, programs and bounds:   *)
(* types, whole pulses, and the results the FPGA owes.                     *)
(***************************************************************************)
EXTENDS ControllerProperties, SequenceTheorems, TLAPS

RunLabels   == {"run_push", "run_space", "run_op", "run_ctrl", "run_inc"}
ServeLabels == {"wr_pop"} \cup WriteLabels

\* The calls during which a caller may be at a label.
FitsCall(t, i, label) ==
  /\ label # "call" => i <= Len(Program[t])
  /\ label \in {"push", "pushn"} => Program[t][i].op = "reqSync"
  /\ label = "wait" => Program[t][i].op \in {"reqSync", "run"}
  /\ label \in RunLabels => Program[t][i].op = "run"
  /\ label \in {"load", "store"} => Program[t][i].op \in {"run", "serve"}
  /\ label \in ServeLabels => Program[t][i].op = "serve"
  /\ label \in {"pulse_op", "pulse_ctrl"} => Program[t][i].op = "pulse"
  /\ label = "finish" => Program[t][i].op = "finish"
  /\ label \in {"q_notify", "q_join"} => Program[t][i].op = "destroy"

\* The label of a thread tells what it is doing: a caller, which call it makes.
Placed ==
  /\ pc \in [Threads -> CallerLabels \cup WriterLabels \cup ReaderLabels]
  /\ ip \in [Procs -> Nat \ {0}]
  /\ \A t \in Procs : pc[t] \in CallerLabels /\ FitsCall(t, ip[t], pc[t])
  /\ pc[Writer] \in WriterLabels
  /\ pc[Reader] \in ReaderLabels

\* Who holds the controller lock is known from the program counters.
HoldingLabels == {"wr_space", "wr_pop", "load", "store", "w_unlock"} \cup WriteLabels

LockInv ==
  /\ m_lock \in Procs \cup {Writer, None}
  /\ \A t \in Procs : m_lock = t <=> LockedAt(t, ip[t])
  /\ m_lock = Writer <=> pc[Writer] \in HoldingLabels

PulseLabels == {"wr_op", "wr_ctrl", "run_op", "run_ctrl", "pulse_op", "pulse_ctrl"}

PulseInv ==
  /\ latch = None \/ \E t \in Threads : latch = [part |-> "op", by |-> t]
  /\ WholePulses

USE DEF Goto, Loop, NextCall, controlOnly, lockOnly, condOnly, countOnly, queueOnly,
        reqOnly, fpgaOnly, dataVars, lockVars, queueVars, countVars, condVars, reqVars,
        fpgaVars, writeVars, readVars

-----------------------------------------------------------------------------
(* Labels and calls                                                        *)

\* In the initial state every thread is at its first label.
LEMMA PlacedInit == Init => Placed
  BY ThreadAssumption DEF Init, Placed, FitsCall, Threads, CallerLabels,
     WriterLabels, ReaderLabels,
      WriteLabels, RunLabels, ServeLabels

\* A caller goes on with its call ...
LEMMA PlacedMove ==
  ASSUME Placed, NEW t \in Procs, pc' = [pc EXCEPT ![t] = pc'[t]], UNCHANGED ip,
         pc'[t] \in CallerLabels, FitsCall(t, ip[t], pc'[t])
  PROVE  Placed'
<1>1. /\ pc' \in [Threads -> CallerLabels \cup WriterLabels \cup ReaderLabels]
      /\ \A u \in Threads \ {t} : pc'[u] = pc[u]
  BY DEF Placed, Threads
<1>2. pc'[Writer] = pc[Writer] /\ pc'[Reader] = pc[Reader]
  BY <1>1, ThreadAssumption DEF Threads
<1>3. \A u \in Procs : pc'[u] \in CallerLabels /\ FitsCall(u, ip[u], pc'[u])
  BY <1>1 DEF Placed, Threads
<1>4. \A u \in Procs : FitsCall(u, ip[u], pc'[u]) => FitsCall(u, ip'[u], pc'[u])
  OBVIOUS
<1> QED
  BY <1>1, <1>2, <1>3, <1>4 DEF Placed

\* ... or returns from it.
LEMMA PlacedReturn ==
  ASSUME Placed, NEW t \in Procs, NextCall(t)
  PROVE  Placed'
<1>1. /\ pc' \in [Threads -> CallerLabels \cup WriterLabels \cup ReaderLabels]
      /\ \A u \in Threads \ {t} : pc'[u] = pc[u]
      /\ pc'[t] = "call"
  BY DEF Placed, Threads, CallerLabels
<1>2. pc'[Writer] = pc[Writer] /\ pc'[Reader] = pc[Reader]
  BY <1>1, ThreadAssumption DEF Threads
<1>3. /\ ip' \in [Procs -> Nat \ {0}]
      /\ \A u \in Procs \ {t} : ip'[u] = ip[u]
  BY DEF Placed
<1>4. pc'[t] \in CallerLabels /\ FitsCall(t, ip'[t], pc'[t])
  BY <1>1 DEF FitsCall, CallerLabels, WriterLabels, ReaderLabels,
      WriteLabels, RunLabels, ServeLabels
<1>5. \A u \in Procs \ {t} : pc'[u] \in CallerLabels /\ FitsCall(u, ip'[u], pc'[u])
  BY <1>1, <1>3 DEF Placed, Threads
<1> QED
  BY <1>1, <1>2, <1>3, <1>4, <1>5 DEF Placed

\* The writer or the reader thread moves.
LEMMA PlacedHelper ==
  ASSUME Placed, NEW t \in {Writer, Reader}, pc' = [pc EXCEPT ![t] = pc'[t]],
         UNCHANGED ip, pc'[t] \in IF t = Writer THEN WriterLabels ELSE ReaderLabels
  PROVE  Placed'
<1>1. /\ pc' \in [Threads -> CallerLabels \cup WriterLabels \cup ReaderLabels]
      /\ \A u \in Threads \ {t} : pc'[u] = pc[u]
  BY DEF Placed, Threads
<1>2. pc'[Writer] \in WriterLabels /\ pc'[Reader] \in ReaderLabels
  BY <1>1, ThreadAssumption DEF Placed, Threads
<1>3. \A u \in Procs : pc'[u] = pc[u]
  BY <1>1, ThreadAssumption DEF Threads
<1>4. \A u \in Procs : pc'[u] \in CallerLabels /\ FitsCall(u, ip'[u], pc'[u])
  BY <1>3 DEF Placed
<1> QED
  BY <1>1, <1>2, <1>4 DEF Placed

\* The thread in writeRequests, the writer thread or a caller, moves ...
LEMMA PlacedServe ==
  ASSUME Placed, NEW t \in Procs \cup {Writer}, pc' = [pc EXCEPT ![t] = pc'[t]],
         UNCHANGED ip, pc'[t] \in ServeLabels \cup {"load", "store"},
         t \in Procs => ip[t] <= Len(Program[t]) /\ Call(t).op = "serve"
  PROVE  Placed'
<1>1. CASE t \in Procs
  <2>1. pc'[t] \in CallerLabels
    BY DEF CallerLabels, WriterLabels, ReaderLabels,
      WriteLabels, RunLabels, ServeLabels
  <2>2. FitsCall(t, ip[t], pc'[t])
    BY <1>1 DEF Call, FitsCall, CallerLabels, WriterLabels, ReaderLabels,
      WriteLabels, RunLabels, ServeLabels
  <2> QED
    BY <1>1, <2>1, <2>2, PlacedMove
<1>2. CASE t = Writer
  <2>1. pc'[t] \in WriterLabels
    BY DEF CallerLabels, WriterLabels, ReaderLabels,
      WriteLabels, RunLabels, ServeLabels
  <2> QED
    BY <1>2, <2>1, PlacedHelper
<1> QED
  BY <1>1, <1>2

\* ... or returns.
LEMMA PlacedLeave ==
  ASSUME Placed, NEW t \in Procs \cup {Writer}, Return(t)
  PROVE  Placed'
<1>1. CASE t = Writer
  <2>1. pc' = [pc EXCEPT ![t] = pc'[t]] /\ pc'[t] \in WriterLabels /\ UNCHANGED ip
    BY <1>1 DEF Return, Placed, Threads, WriterLabels
  <2> QED
    BY <1>1, <2>1, PlacedHelper
<1> QED
  BY <1>1, PlacedReturn DEF Return

\* A caller's step keeps each thread at a label of the call it makes.
LEMMA PlacedCaller ==
  ASSUME Placed, NEW t \in Procs, Caller(t), ~WriteRequests(t)
  PROVE  Placed'
<1> USE ThreadAssumption DEF Calling, Call, FitsCall, CallerLabels, WriterLabels,
   ReaderLabels,
      WriteLabels, RunLabels, ServeLabels
<1>a. /\ pc \in [Threads -> CallerLabels \cup WriterLabels \cup ReaderLabels]
      /\ t \in Threads /\ pc[t] \in CallerLabels /\ FitsCall(t, ip[t], pc[t])
  BY DEF Placed, Threads
<1>1. CASE Lock(t)
  BY <1>1, PlacedReturn DEF Lock
<1>2. CASE Unlock(t)
  BY <1>2, PlacedReturn DEF Unlock
<1>3. CASE SetHold(t)
  BY <1>3, PlacedReturn DEF SetHold
<1>4. CASE ReleaseHold(t)
  BY <1>4, <1>a, PlacedMove DEF ReleaseHold
<1>5. CASE WaitFinish(t)
  BY <1>5, PlacedReturn DEF WaitFinish
<1>6. CASE Pulse(t)
  BY <1>6, <1>a, PlacedMove DEF Pulse
<1>7. CASE ShortPulseOp(t, "pulse_op", "pulse_ctrl")
  BY <1>7, <1>a, PlacedMove DEF ShortPulseOp
<1>8. CASE PulseCtrl(t)
  BY <1>8, PlacedReturn DEF PulseCtrl
<1>9. CASE NewRequest(t)
  BY <1>9, <1>a, PlacedMove DEF NewRequest, Iterate
<1>10. CASE PushReq(t)
  BY <1>10, <1>a, PlacedMove DEF PushReq
<1>11. CASE PushReqNotify(t)
  BY <1>11, <1>a, PlacedMove DEF PushReqNotify, Iterate
<1>12. CASE WaitSleep(t)
  BY <1>12, <1>a, PlacedMove DEF WaitSleep
<1>13. CASE WaitReady(t)
  BY <1>13, <1>a, PlacedMove, PlacedReturn DEF WaitReady
<1>14. CASE RunPush(t)
  BY <1>14, <1>a, PlacedMove DEF RunPush, Iterate
<1>15. CASE HasResSpace(t)
  BY <1>15, <1>a, PlacedMove DEF HasResSpace
<1>16. CASE NoResSpace(t)
  BY <1>16, <1>a, PlacedMove DEF NoResSpace
<1>17. CASE RunIncrement(t)
  BY <1>17, <1>a, PlacedMove DEF RunIncrement
<1>18. CASE ShortPulseOp(t, "run_op", "run_ctrl")
  BY <1>18, <1>a, PlacedMove DEF ShortPulseOp
<1>19. CASE RunPulseCtrl(t)
  BY <1>19, <1>a, PlacedMove DEF RunPulseCtrl, Iterate
<1>20. CASE Quit(t)
  BY <1>20, <1>a, PlacedMove DEF Quit
<1>21. CASE QuitNotify(t)
  BY <1>21, <1>a, PlacedMove DEF QuitNotify
<1>22. CASE Join(t)
  BY <1>22, PlacedReturn DEF Join
<1> QED
  BY <1>1, <1>2, <1>3, <1>4, <1>5, <1>6, <1>7, <1>8, <1>9, <1>10, <1>11, <1>12,
     <1>13, <1>14, <1>15, <1>16, <1>17, <1>18, <1>19, <1>20, <1>21, <1>22 DEF Caller

\* A step of writeRequests keeps each thread at a label of the call it makes.
LEMMA PlacedWriteRequests ==
  ASSUME Placed, NEW t \in Procs \cup {Writer}, WriteRequests(t)
  PROVE  Placed'
<1> USE ThreadAssumption DEF Calling, Call, FitsCall, CallerLabels, WriterLabels,
   ReaderLabels,
      WriteLabels, RunLabels, ServeLabels
<1>a. /\ pc \in [Threads -> CallerLabels \cup WriterLabels \cup ReaderLabels]
      /\ t \in Threads
  BY DEF Placed, Threads
<1>b. t \in Procs => pc[t] \in CallerLabels /\ FitsCall(t, ip[t], pc[t])
  BY DEF Placed
<1>1. CASE WriteSpace(t)
  BY <1>1, <1>a, <1>b, PlacedServe, PlacedLeave DEF WriteSpace
<1>2. CASE WritePop(t)
  BY <1>2, <1>a, <1>b, PlacedServe, PlacedLeave DEF WritePop, WriteLabel
<1>3. CASE WritePush(t)
  BY <1>3, <1>a, <1>b, PlacedServe DEF WritePush
<1>4. CASE ShortPulseOp(t, "wr_op", "wr_ctrl")
  BY <1>4, <1>a, <1>b, PlacedServe DEF ShortPulseOp
<1>5. CASE WritePulseCtrl(t)
  BY <1>5, <1>a, <1>b, PlacedServe DEF WritePulseCtrl
<1>6. CASE WriteHasRes(t)
  BY <1>6, <1>a, <1>b, PlacedServe, PlacedLeave DEF WriteHasRes, NextWrite, WriteLabel
<1>7. CASE WriteSetRes(t)
  BY <1>7, <1>a, <1>b, PlacedServe DEF WriteSetRes
<1>8. CASE WriteNotify(t)
  BY <1>8, <1>a, <1>b, PlacedServe, PlacedLeave DEF WriteNotify, NextWrite, WriteLabel
<1>9. CASE WriteDefer(t)
  BY <1>9, <1>a, <1>b, PlacedServe, PlacedLeave DEF WriteDefer, NextWrite, WriteLabel
<1>10. CASE LoadWritten(t)
  <2>1. CASE t \in Procs
    BY <1>10, <1>a, <1>b, <2>1, PlacedMove DEF LoadWritten
  <2>2. CASE t = Writer
    BY <1>10, <1>a, <2>2, PlacedHelper DEF LoadWritten
  <2> QED
    BY <2>1, <2>2
<1>11. CASE StoreWritten(t)
  <2>1. CASE Running(t)
    <3>1. t \in Procs /\ Call(t).op = "run" /\ ip[t] <= Len(Program[t])
      BY <1>11, <1>b, <2>1 DEF StoreWritten, Running
    <3> QED
      BY <1>11, <1>a, <2>1, <3>1, PlacedMove DEF StoreWritten
  <2>2. CASE ~Running(t)
    BY <1>11, <2>2, PlacedLeave DEF StoreWritten
  <2> QED
    BY <2>1, <2>2
<1> QED
  BY <1>1, <1>2, <1>3, <1>4, <1>5, <1>6, <1>7, <1>8, <1>9, <1>10, <1>11 DEF
     WriteRequests

\* A step of the writer thread keeps each thread at a label of the call it makes.
LEMMA PlacedWriterThread ==
  ASSUME Placed, WriterThread, ~WriteRequests(Writer)
  PROVE  Placed'
<1> USE ThreadAssumption DEF Calling, Call, FitsCall, CallerLabels, WriterLabels,
   ReaderLabels,
      WriteLabels, RunLabels, ServeLabels
<1>a. /\ pc \in [Threads -> CallerLabels \cup WriterLabels \cup ReaderLabels]
      /\ Writer \in Threads
  BY DEF Placed, Threads
<1>1. CASE WriterTop
  BY <1>1, <1>a, PlacedHelper DEF WriterTop
<1>2. CASE WriterSleep
  BY <1>2, <1>a, PlacedHelper DEF WriterSleep
<1>3. CASE WriterWake
  BY <1>3, <1>a, PlacedHelper DEF WriterWake
<1>4. CASE WriterLock
  BY <1>4, <1>a, PlacedHelper DEF WriterLock
<1>5. CASE WriterUnlock
  BY <1>5, <1>a, PlacedHelper DEF WriterUnlock
<1> QED
  BY <1>1, <1>2, <1>3, <1>4, <1>5 DEF WriterThread

\* A step of the reader thread keeps each thread at a label of the call it makes.
LEMMA PlacedReaderThread ==
  ASSUME Placed, ReaderThread
  PROVE  Placed'
<1> USE ThreadAssumption DEF Calling, Call, FitsCall, CallerLabels, WriterLabels,
   ReaderLabels,
      WriteLabels, RunLabels, ServeLabels
<1>a. /\ pc \in [Threads -> CallerLabels \cup WriterLabels \cup ReaderLabels]
      /\ Reader \in Threads
  BY DEF Placed, Threads
<1>1. CASE ReaderTop
  BY <1>1, <1>a, PlacedHelper DEF ReaderTop, ReaderGoto
<1>2. CASE ReaderWake
  BY <1>2, <1>a, PlacedHelper DEF ReaderWake, ReaderGoto
<1>3. CASE ReaderCheck
  BY <1>3, <1>a, PlacedHelper DEF ReaderCheck, ReaderGoto
<1>4. CASE ReadResults
  BY <1>4, <1>a, PlacedHelper DEF ReadResults
<1>5. CASE CountRead
  BY <1>5, <1>a, PlacedHelper DEF CountRead
<1>6. CASE PopResQueue
  BY <1>6, <1>a, PlacedHelper DEF PopResQueue
<1>7. CASE ReaderNotifyWriter
  BY <1>7, <1>a, PlacedHelper DEF ReaderNotifyWriter
<1>8. CASE DumpNotifyQueue
  BY <1>8, <1>a, PlacedHelper DEF DumpNotifyQueue
<1>9. CASE ReaderSetRes("r_set", "r_notify")
  BY <1>9, <1>a, PlacedHelper DEF ReaderSetRes
<1>10. CASE ReaderNotify("r_notify", "r_set", "r_check")
  BY <1>10, <1>a, PlacedHelper DEF ReaderNotify
<1>11. CASE ReaderSetRes("d_set", "d_notify")
  BY <1>11, <1>a, PlacedHelper DEF ReaderSetRes
<1>12. CASE ReaderNotify("d_notify", "d_set", "r_top")
  BY <1>12, <1>a, PlacedHelper DEF ReaderNotify
<1> QED
  BY <1>1, <1>2, <1>3, <1>4, <1>5, <1>6, <1>7, <1>8, <1>9, <1>10, <1>11, <1>12 DEF
     ReaderThread

\* Every step keeps each thread at a label of the call it makes.
LEMMA PlacedNext ==
  ASSUME Placed, [Next]_vars
  PROVE  Placed'
<1>1. CASE \E t \in Procs : Caller(t)
  <2>1. PICK t \in Procs : Caller(t)
    BY <1>1
  <2> QED
    BY <2>1, PlacedCaller, PlacedWriteRequests
<1>2. CASE WriterThread
  BY <1>2, PlacedWriterThread, PlacedWriteRequests
<1>3. CASE ReaderThread
  BY <1>3, PlacedReaderThread
<1>4. CASE FpgaExec
  BY <1>4 DEF FpgaExec, Placed
<1>5. CASE \E t \in Threads : SpuriousWake(t)
  BY <1>5 DEF SpuriousWake, Placed
<1>6. CASE Terminated \/ UNCHANGED vars
  BY <1>6 DEF Terminated, vars, Placed
<1> QED
  BY <1>1, <1>2, <1>3, <1>4, <1>5, <1>6 DEF Next
-----------------------------------------------------------------------------
(* The controller lock                                                     *)

\* How the next call changes who holds the lock.
LEMMA LockedNext ==
  ASSUME NEW t \in Procs, NEW i \in 1 .. Len(Program[t])
  PROVE  LockedAt(t, i + 1) <=>
           \/ Program[t][i].op = "lock"
           \/ LockedAt(t, i) /\ Program[t][i].op # "unlock"
<1> USE ProgramAssumption DEF LockedAt
<1>1. ASSUME LockedAt(t, i + 1), Program[t][i].op # "lock"
      PROVE  LockedAt(t, i) /\ Program[t][i].op # "unlock"
  BY <1>1
<1>2. ASSUME Program[t][i].op = "lock" PROVE LockedAt(t, i + 1)
  BY <1>2
<1>3. ASSUME LockedAt(t, i), Program[t][i].op # "unlock" PROVE LockedAt(t, i + 1)
  BY <1>3
<1> QED
  BY <1>1, <1>2, <1>3

\* Nobody holds the lock at first.
LEMMA LockInit == Init => LockInv
  BY ThreadAssumption, ProgramAssumption
  DEF Init, LockInv, LockedAt, Threads, HoldingLabels, WriteLabels

\* Only a `lock' or `unlock' call changes who holds the lock from one call to the next.
LEMMA ThisCallLock ==
  ASSUME Placed, NEW t \in Procs
  PROVE  /\ pc[t] # "call" => /\ ip[t] <= Len(Program[t])
                              /\ Call(t).op \notin {"lock", "unlock"}
         /\ ip[t] <= Len(Program[t]) =>
           (LockedAt(t, ip[t] + 1) <=>
              (Call(t).op = "lock" \/ (LockedAt(t, ip[t]) /\ Call(t).op # "unlock")))
<1>1. ip[t] \in Nat \ {0} /\ Len(Program[t]) \in Nat
  BY ProgramAssumption DEF Placed
<1>2. ip[t] <= Len(Program[t]) => ip[t] \in 1 .. Len(Program[t])
  BY <1>1
<1>3. pc[t] # "call" => Call(t).op \notin {"lock", "unlock"}
  BY DEF Placed, FitsCall, Call, CallerLabels, RunLabels, ServeLabels, WriteLabels
<1> QED
  BY <1>2, <1>3, LockedNext DEF Call, Placed, FitsCall

\* A caller's step keeps the lock with the thread whose program holds it.
LEMMA LockCaller ==
  ASSUME Disciplined, Placed, LockInv, NEW t \in Procs, Caller(t), ~WriteRequests(t)
  PROVE  LockInv'
<1> USE ThreadAssumption DEF LockInv, HoldingLabels, Threads, WriteLabels, Calling
<1>a. /\ pc \in [Threads -> CallerLabels \cup WriterLabels \cup ReaderLabels]
      /\ ip \in [Procs -> Nat \ {0}]
      /\ pc[Writer] # "call"
  BY DEF Placed, WriterLabels
<1>b. ASSUME t \in Procs
      PROVE  /\ pc[t] # "call" => /\ ip[t] <= Len(Program[t])
                                  /\ Call(t).op \notin {"lock", "unlock"}
             /\ ip[t] <= Len(Program[t]) =>
               (LockedAt(t, ip[t] + 1) <=>
                  (Call(t).op = "lock" \/ (LockedAt(t, ip[t]) /\ Call(t).op #
                     "unlock")))
  BY <1>b, ThisCallLock
<1>c. Calling(t, "unlock") => LockedAt(t, ip[t])
  BY <1>a, ProgramAssumption DEF Disciplined, LockedOps, Call
<1>1. CASE Lock(t)
  BY <1>1, <1>a, <1>b DEF Lock
<1>2. CASE Unlock(t)
  BY <1>2, <1>a, <1>b, <1>c DEF Unlock
<1>3. CASE SetHold(t)
  BY <1>3, <1>a, <1>b DEF SetHold
<1>4. CASE ReleaseHold(t)
  BY <1>4, <1>a, <1>b DEF ReleaseHold
<1>5. CASE WaitFinish(t)
  BY <1>5, <1>a, <1>b DEF WaitFinish
<1>6. CASE Pulse(t)
  BY <1>6, <1>a, <1>b DEF Pulse
<1>7. CASE ShortPulseOp(t, "pulse_op", "pulse_ctrl")
  BY <1>7, <1>a, <1>b DEF ShortPulseOp
<1>8. CASE PulseCtrl(t)
  BY <1>8, <1>a, <1>b DEF PulseCtrl
<1>9. CASE NewRequest(t)
  BY <1>9, <1>a, <1>b DEF NewRequest, Iterate
<1>10. CASE PushReq(t)
  BY <1>10, <1>a, <1>b DEF PushReq
<1>11. CASE PushReqNotify(t)
  BY <1>11, <1>a, <1>b DEF PushReqNotify, Iterate
<1>12. CASE WaitSleep(t)
  BY <1>12, <1>a, <1>b DEF WaitSleep
<1>13. CASE WaitReady(t)
  BY <1>13, <1>a, <1>b DEF WaitReady
<1>14. CASE RunPush(t)
  BY <1>14, <1>a, <1>b DEF RunPush, Iterate
<1>15. CASE HasResSpace(t)
  BY <1>15, <1>a, <1>b DEF HasResSpace
<1>16. CASE NoResSpace(t)
  BY <1>16, <1>a, <1>b DEF NoResSpace
<1>17. CASE RunIncrement(t)
  BY <1>17, <1>a, <1>b DEF RunIncrement
<1>18. CASE ShortPulseOp(t, "run_op", "run_ctrl")
  BY <1>18, <1>a, <1>b DEF ShortPulseOp
<1>19. CASE RunPulseCtrl(t)
  BY <1>19, <1>a, <1>b DEF RunPulseCtrl, Iterate
<1>20. CASE Quit(t)
  BY <1>20, <1>a, <1>b DEF Quit
<1>21. CASE QuitNotify(t)
  BY <1>21, <1>a, <1>b DEF QuitNotify
<1>22. CASE Join(t)
  BY <1>22, <1>a, <1>b DEF Join
<1> QED
  BY <1>1, <1>2, <1>3, <1>4, <1>5, <1>6, <1>7, <1>8, <1>9, <1>10, <1>11, <1>12,
     <1>13, <1>14, <1>15, <1>16, <1>17, <1>18, <1>19, <1>20, <1>21, <1>22 DEF Caller

\* A step of writeRequests keeps the lock with the thread whose program holds it.
LEMMA LockWriteRequests ==
  ASSUME Placed, LockInv, NEW t \in Procs \cup {Writer}, WriteRequests(t)
  PROVE  LockInv'
<1> USE ThreadAssumption DEF LockInv, HoldingLabels, Threads, WriteLabels, Calling
<1>a. /\ pc \in [Threads -> CallerLabels \cup WriterLabels \cup ReaderLabels]
      /\ ip \in [Procs -> Nat \ {0}]
      /\ pc[Writer] # "call"
  BY DEF Placed, WriterLabels
<1>b. ASSUME t \in Procs
      PROVE  /\ pc[t] # "call" => /\ ip[t] <= Len(Program[t])
                                  /\ Call(t).op \notin {"lock", "unlock"}
             /\ ip[t] <= Len(Program[t]) =>
               (LockedAt(t, ip[t] + 1) <=>
                  (Call(t).op = "lock" \/ (LockedAt(t, ip[t]) /\ Call(t).op #
                     "unlock")))
  BY <1>b, ThisCallLock
<1>1. CASE WriteSpace(t)
  BY <1>1, <1>a, <1>b DEF WriteSpace, Return
<1>2. CASE WritePop(t)
  BY <1>2, <1>a, <1>b DEF WritePop, Return, WriteLabel
<1>3. CASE WritePush(t)
  BY <1>3, <1>a, <1>b DEF WritePush
<1>4. CASE ShortPulseOp(t, "wr_op", "wr_ctrl")
  BY <1>4, <1>a, <1>b DEF ShortPulseOp
<1>5. CASE WritePulseCtrl(t)
  BY <1>5, <1>a, <1>b DEF WritePulseCtrl
<1>6. CASE WriteHasRes(t)
  BY <1>6, <1>a, <1>b DEF WriteHasRes, NextWrite, Return, WriteLabel
<1>7. CASE WriteSetRes(t)
  BY <1>7, <1>a, <1>b DEF WriteSetRes
<1>8. CASE WriteNotify(t)
  BY <1>8, <1>a, <1>b DEF WriteNotify, NextWrite, Return, WriteLabel
<1>9. CASE WriteDefer(t)
  BY <1>9, <1>a, <1>b DEF WriteDefer, NextWrite, Return, WriteLabel
<1>10. CASE LoadWritten(t)
  BY <1>10, <1>a, <1>b DEF LoadWritten
<1>11. CASE StoreWritten(t)
  BY <1>11, <1>a, <1>b DEF StoreWritten, Return, Running
<1> QED
  BY <1>1, <1>2, <1>3, <1>4, <1>5, <1>6, <1>7, <1>8, <1>9, <1>10, <1>11 DEF
     WriteRequests

\* A step of the writer thread keeps the lock with the thread whose program holds it.
LEMMA LockWriterThread ==
  ASSUME Placed, LockInv, WriterThread, ~WriteRequests(Writer)
  PROVE  LockInv'
<1> USE ThreadAssumption DEF LockInv, HoldingLabels, Threads, WriteLabels, Calling
<1>a. /\ pc \in [Threads -> CallerLabels \cup WriterLabels \cup ReaderLabels]
      /\ ip \in [Procs -> Nat \ {0}]
      /\ pc[Writer] # "call"
  BY DEF Placed, WriterLabels
<1>1. CASE WriterTop
  BY <1>1, <1>a DEF WriterTop
<1>2. CASE WriterSleep
  BY <1>2, <1>a DEF WriterSleep
<1>3. CASE WriterWake
  BY <1>3, <1>a DEF WriterWake
<1>4. CASE WriterLock
  BY <1>4, <1>a DEF WriterLock
<1>5. CASE WriterUnlock
  BY <1>5, <1>a DEF WriterUnlock
<1> QED
  BY <1>1, <1>2, <1>3, <1>4, <1>5 DEF WriterThread

\* A step of the reader thread keeps the lock with the thread whose program holds it.
LEMMA LockReaderThread ==
  ASSUME Placed, LockInv, ReaderThread
  PROVE  LockInv'
<1> USE ThreadAssumption DEF LockInv, HoldingLabels, Threads, WriteLabels, Calling
<1>a. /\ pc \in [Threads -> CallerLabels \cup WriterLabels \cup ReaderLabels]
      /\ ip \in [Procs -> Nat \ {0}]
      /\ pc[Writer] # "call"
  BY DEF Placed, WriterLabels
<1>1. CASE ReaderTop
  BY <1>1, <1>a DEF ReaderTop, ReaderGoto
<1>2. CASE ReaderWake
  BY <1>2, <1>a DEF ReaderWake, ReaderGoto
<1>3. CASE ReaderCheck
  BY <1>3, <1>a DEF ReaderCheck, ReaderGoto
<1>4. CASE ReadResults
  BY <1>4, <1>a DEF ReadResults
<1>5. CASE CountRead
  BY <1>5, <1>a DEF CountRead
<1>6. CASE PopResQueue
  BY <1>6, <1>a DEF PopResQueue
<1>7. CASE ReaderNotifyWriter
  BY <1>7, <1>a DEF ReaderNotifyWriter
<1>8. CASE DumpNotifyQueue
  BY <1>8, <1>a DEF DumpNotifyQueue
<1>9. CASE ReaderSetRes("r_set", "r_notify")
  BY <1>9, <1>a DEF ReaderSetRes
<1>10. CASE ReaderNotify("r_notify", "r_set", "r_check")
  BY <1>10, <1>a DEF ReaderNotify
<1>11. CASE ReaderSetRes("d_set", "d_notify")
  BY <1>11, <1>a DEF ReaderSetRes
<1>12. CASE ReaderNotify("d_notify", "d_set", "r_top")
  BY <1>12, <1>a DEF ReaderNotify
<1> QED
  BY <1>1, <1>2, <1>3, <1>4, <1>5, <1>6, <1>7, <1>8, <1>9, <1>10, <1>11, <1>12 DEF
     ReaderThread

\* Every step keeps the lock with the thread whose program holds it.
LEMMA LockNext ==
  ASSUME Disciplined, Placed, LockInv, [Next]_vars
  PROVE  LockInv'
<1>1. CASE \E t \in Procs : Caller(t)
  <2>1. PICK t \in Procs : Caller(t)
    BY <1>1
  <2> QED
    BY <2>1, LockCaller, LockWriteRequests
<1>2. CASE WriterThread
  BY <1>2, LockWriterThread, LockWriteRequests
<1>3. CASE ReaderThread
  BY <1>3, LockReaderThread
<1>4. CASE FpgaExec
  BY <1>4 DEF FpgaExec, LockInv
<1>5. CASE \E t \in Threads : SpuriousWake(t)
  BY <1>5 DEF SpuriousWake, LockInv
<1>6. CASE Terminated \/ UNCHANGED vars
  BY <1>6 DEF Terminated, vars, LockInv
<1> QED
  BY <1>1, <1>2, <1>3, <1>4, <1>5, <1>6 DEF Next
-----------------------------------------------------------------------------
(* Whole pulses                                                            *)

\* Whoever is in the middle of a pulse holds the controller lock.
LEMMA PulseHolder ==
  ASSUME Disciplined, Placed, LockInv, NEW t \in Threads, pc[t] \in PulseLabels
  PROVE  m_lock = t
<1>1. CASE t \in Procs
  <2>1. ip[t] \in DOMAIN Program[t] /\ Call(t).op \in LockedOps
    BY <1>1, ProgramAssumption
    DEF Placed, FitsCall, Call, PulseLabels, RunLabels, ServeLabels, WriteLabels,
       LockedOps
  <2> QED
    BY <1>1, <2>1 DEF Disciplined, LockInv, Call
<1>2. CASE t = Writer
  BY <1>2 DEF LockInv, Placed, WriterLabels, WriteLabels, PulseLabels, HoldingLabels
<1>3. t # Reader
  BY DEF Placed, ReaderLabels, PulseLabels
<1> QED
  BY <1>1, <1>2, <1>3 DEF Threads

\* No pulse is begun at first.
LEMMA PulseInit == Init => PulseInv
  BY ThreadAssumption DEF Init, PulseInv, WholePulses, Threads, CtrlLabels

\* A step of one thread that writes nothing to register 31.
LEMMA PulseQuiet ==
  ASSUME Placed, PulseInv, NEW t \in Threads, pc' = [pc EXCEPT ![t] = pc'[t]],
         pc[t] \notin CtrlLabels, pc'[t] \notin CtrlLabels, latch' = latch
  PROVE  PulseInv'
<1>1. pc \in [Threads -> CallerLabels \cup WriterLabels \cup ReaderLabels]
  BY DEF Placed
<1>2. \A u \in Threads : pc'[u] \in CtrlLabels => pc[u] \in CtrlLabels
  BY <1>1
<1>3. \A u \in Threads : pc[u] \in CtrlLabels => pc'[u] = pc[u]
  BY <1>1
<1>4. latch # None => latch.by \in Threads
  BY DEF PulseInv
<1> QED
  BY <1>2, <1>3, <1>4 DEF PulseInv, WholePulses

\* The operand: the writer of a pulse is alone, so it finds the latch empty.
LEMMA PulseFirst ==
  ASSUME Disciplined, Placed, LockInv, PulseInv, NEW t \in Threads,
         NEW from, NEW to, ShortPulseOp(t, from, to),
         from \in PulseLabels \ CtrlLabels, to \in CtrlLabels
  PROVE  PulseInv'
<1>1. /\ pc \in [Threads -> CallerLabels \cup WriterLabels \cup ReaderLabels]
      /\ pc[t] = from /\ pc' = [pc EXCEPT ![t] = to]
  BY DEF Placed, ShortPulseOp
<1>2. m_lock = t
  BY <1>1, PulseHolder
<1>3. \A u \in Threads : pc[u] \in CtrlLabels => m_lock = u
  BY PulseHolder DEF PulseLabels, CtrlLabels
<1>4. \A u \in Threads : pc[u] \notin CtrlLabels
  BY <1>1, <1>2, <1>3
<1>5. latch = None
  <2> SUFFICES ASSUME latch # None PROVE FALSE
    OBVIOUS
  <2> QED
    BY <1>4 DEF PulseInv, WholePulses
<1>6. latch' = [part |-> "op", by |-> t]
  BY <1>5 DEF ShortPulseOp, WriteOp
<1>7. \A u \in Threads : pc'[u] \in CtrlLabels => u = t
  BY <1>1, <1>4
<1>8. pc'[t] \in CtrlLabels
  BY <1>1
<1> QED
  BY <1>6, <1>7, <1>8 DEF PulseInv, WholePulses

\* The control word: it follows its own operand.
LEMMA PulseSecond ==
  ASSUME Disciplined, Placed, LockInv, PulseInv, NEW t \in Threads, NEW results,
         pc' = [pc EXCEPT ![t] = pc'[t]], WriteCtrl(t, results),
         pc[t] \in CtrlLabels, pc'[t] \notin CtrlLabels
  PROVE  PulseInv'
<1>1. pc \in [Threads -> CallerLabels \cup WriterLabels \cup ReaderLabels]
  BY DEF Placed
<1>2. \A u \in Threads : pc[u] \in CtrlLabels => m_lock = u
  BY PulseHolder DEF PulseLabels, CtrlLabels
<1>3. \A u \in Threads : pc'[u] \notin CtrlLabels
  BY <1>1, <1>2
<1>4. latch # None
  <2>1. latch = [part |-> "op", by |-> t]
    BY DEF PulseInv, WholePulses
  <2>2. [part |-> "op", by |-> t] # None
    BY ThreadAssumption
  <2> QED
    BY <2>1, <2>2
<1>5. latch' = None
  BY <1>4 DEF WriteCtrl
<1> QED
  BY <1>3, <1>5 DEF PulseInv, WholePulses

\* A caller's step keeps the two words of a pulse together.
LEMMA PulseCaller ==
  ASSUME Disciplined, Placed, LockInv, PulseInv, NEW t \in Procs, Caller(t),
     ~WriteRequests(t)
  PROVE  PulseInv'
<1> USE ThreadAssumption DEF Threads, CtrlLabels, PulseLabels, Calling
<1>a. pc \in [Threads -> CallerLabels \cup WriterLabels \cup ReaderLabels]
  BY DEF Placed
<1>1. CASE Lock(t)
  BY <1>1, <1>a, PulseQuiet DEF Lock
<1>2. CASE Unlock(t)
  BY <1>2, <1>a, PulseQuiet DEF Unlock
<1>3. CASE SetHold(t)
  BY <1>3, <1>a, PulseQuiet DEF SetHold
<1>4. CASE ReleaseHold(t)
  BY <1>4, <1>a, PulseQuiet DEF ReleaseHold
<1>5. CASE WaitFinish(t)
  BY <1>5, <1>a, PulseQuiet DEF WaitFinish
<1>6. CASE Pulse(t)
  BY <1>6, <1>a, PulseQuiet DEF Pulse
<1>7. CASE ShortPulseOp(t, "pulse_op", "pulse_ctrl")
  BY <1>7, <1>a, PulseFirst
<1>8. CASE PulseCtrl(t)
  BY <1>8, <1>a, PulseSecond DEF PulseCtrl
<1>9. CASE NewRequest(t)
  BY <1>9, <1>a, PulseQuiet DEF NewRequest, Iterate
<1>10. CASE PushReq(t)
  BY <1>10, <1>a, PulseQuiet DEF PushReq
<1>11. CASE PushReqNotify(t)
  BY <1>11, <1>a, PulseQuiet DEF PushReqNotify, Iterate
<1>12. CASE WaitSleep(t)
  BY <1>12, <1>a, PulseQuiet DEF WaitSleep
<1>13. CASE WaitReady(t)
  BY <1>13, <1>a, PulseQuiet DEF WaitReady
<1>14. CASE RunPush(t)
  BY <1>14, <1>a, PulseQuiet DEF RunPush, Iterate
<1>15. CASE HasResSpace(t)
  BY <1>15, <1>a, PulseQuiet DEF HasResSpace
<1>16. CASE NoResSpace(t)
  BY <1>16, <1>a, PulseQuiet DEF NoResSpace
<1>17. CASE RunIncrement(t)
  BY <1>17, <1>a, PulseQuiet DEF RunIncrement
<1>18. CASE ShortPulseOp(t, "run_op", "run_ctrl")
  BY <1>18, <1>a, PulseFirst
<1>19. CASE RunPulseCtrl(t)
  BY <1>19, <1>a, PulseSecond DEF RunPulseCtrl, Iterate
<1>20. CASE Quit(t)
  BY <1>20, <1>a, PulseQuiet DEF Quit
<1>21. CASE QuitNotify(t)
  BY <1>21, <1>a, PulseQuiet DEF QuitNotify
<1>22. CASE Join(t)
  BY <1>22, <1>a, PulseQuiet DEF Join
<1> QED
  BY <1>1, <1>2, <1>3, <1>4, <1>5, <1>6, <1>7, <1>8, <1>9, <1>10, <1>11, <1>12,
     <1>13, <1>14, <1>15, <1>16, <1>17, <1>18, <1>19, <1>20, <1>21, <1>22 DEF Caller

\* A step of writeRequests keeps the two words of a pulse together.
LEMMA PulseWriteRequests ==
  ASSUME Disciplined, Placed, LockInv, PulseInv, NEW t \in Procs \cup {Writer},
     WriteRequests(t)
  PROVE  PulseInv'
<1> USE ThreadAssumption DEF Threads, CtrlLabels, PulseLabels, Calling
<1>a. pc \in [Threads -> CallerLabels \cup WriterLabels \cup ReaderLabels]
  BY DEF Placed
<1>1. CASE WriteSpace(t)
  BY <1>1, <1>a, PulseQuiet DEF WriteSpace, Return
<1>2. CASE WritePop(t)
  BY <1>2, <1>a, PulseQuiet DEF WritePop, Return, WriteLabel
<1>3. CASE WritePush(t)
  BY <1>3, <1>a, PulseQuiet DEF WritePush
<1>4. CASE ShortPulseOp(t, "wr_op", "wr_ctrl")
  BY <1>4, <1>a, PulseFirst
<1>5. CASE WritePulseCtrl(t)
  BY <1>5, <1>a, PulseSecond DEF WritePulseCtrl
<1>6. CASE WriteHasRes(t)
  BY <1>6, <1>a, PulseQuiet DEF WriteHasRes, NextWrite, Return, WriteLabel
<1>7. CASE WriteSetRes(t)
  BY <1>7, <1>a, PulseQuiet DEF WriteSetRes
<1>8. CASE WriteNotify(t)
  BY <1>8, <1>a, PulseQuiet DEF WriteNotify, NextWrite, Return, WriteLabel
<1>9. CASE WriteDefer(t)
  BY <1>9, <1>a, PulseQuiet DEF WriteDefer, NextWrite, Return, WriteLabel
<1>10. CASE LoadWritten(t)
  BY <1>10, <1>a, PulseQuiet DEF LoadWritten
<1>11. CASE StoreWritten(t)
  BY <1>11, <1>a, PulseQuiet DEF StoreWritten, Return, Running
<1> QED
  BY <1>1, <1>2, <1>3, <1>4, <1>5, <1>6, <1>7, <1>8, <1>9, <1>10, <1>11 DEF
     WriteRequests

\* A step of the writer thread keeps the two words of a pulse together.
LEMMA PulseWriterThread ==
  ASSUME Disciplined, Placed, LockInv, PulseInv, WriterThread, ~WriteRequests(Writer)
  PROVE  PulseInv'
<1> USE ThreadAssumption DEF Threads, CtrlLabels, PulseLabels, Calling
<1>a. pc \in [Threads -> CallerLabels \cup WriterLabels \cup ReaderLabels]
  BY DEF Placed
<1>1. CASE WriterTop
  BY <1>1, <1>a, PulseQuiet DEF WriterTop
<1>2. CASE WriterSleep
  BY <1>2, <1>a, PulseQuiet DEF WriterSleep
<1>3. CASE WriterWake
  BY <1>3, <1>a, PulseQuiet DEF WriterWake
<1>4. CASE WriterLock
  BY <1>4, <1>a, PulseQuiet DEF WriterLock
<1>5. CASE WriterUnlock
  BY <1>5, <1>a, PulseQuiet DEF WriterUnlock
<1> QED
  BY <1>1, <1>2, <1>3, <1>4, <1>5 DEF WriterThread

\* A step of the reader thread keeps the two words of a pulse together.
LEMMA PulseReaderThread ==
  ASSUME Disciplined, Placed, LockInv, PulseInv, ReaderThread
  PROVE  PulseInv'
<1> USE ThreadAssumption DEF Threads, CtrlLabels, PulseLabels, Calling
<1>a. pc \in [Threads -> CallerLabels \cup WriterLabels \cup ReaderLabels]
  BY DEF Placed
<1>1. CASE ReaderTop
  BY <1>1, <1>a, PulseQuiet DEF ReaderTop, ReaderGoto
<1>2. CASE ReaderWake
  BY <1>2, <1>a, PulseQuiet DEF ReaderWake, ReaderGoto
<1>3. CASE ReaderCheck
  BY <1>3, <1>a, PulseQuiet DEF ReaderCheck, ReaderGoto
<1>4. CASE ReadResults
  BY <1>4, <1>a, PulseQuiet DEF ReadResults
<1>5. CASE CountRead
  BY <1>5, <1>a, PulseQuiet DEF CountRead
<1>6. CASE PopResQueue
  BY <1>6, <1>a, PulseQuiet DEF PopResQueue
<1>7. CASE ReaderNotifyWriter
  BY <1>7, <1>a, PulseQuiet DEF ReaderNotifyWriter
<1>8. CASE DumpNotifyQueue
  BY <1>8, <1>a, PulseQuiet DEF DumpNotifyQueue
<1>9. CASE ReaderSetRes("r_set", "r_notify")
  BY <1>9, <1>a, PulseQuiet DEF ReaderSetRes
<1>10. CASE ReaderNotify("r_notify", "r_set", "r_check")
  BY <1>10, <1>a, PulseQuiet DEF ReaderNotify
<1>11. CASE ReaderSetRes("d_set", "d_notify")
  BY <1>11, <1>a, PulseQuiet DEF ReaderSetRes
<1>12. CASE ReaderNotify("d_notify", "d_set", "r_top")
  BY <1>12, <1>a, PulseQuiet DEF ReaderNotify
<1> QED
  BY <1>1, <1>2, <1>3, <1>4, <1>5, <1>6, <1>7, <1>8, <1>9, <1>10, <1>11, <1>12 DEF
     ReaderThread

\* Every step keeps the two words of a pulse together.
LEMMA PulseNext ==
  ASSUME Disciplined, Placed, LockInv, PulseInv, [Next]_vars
  PROVE  PulseInv'
<1>1. CASE \E t \in Procs : Caller(t)
  <2>1. PICK t \in Procs : Caller(t)
    BY <1>1
  <2> QED
    BY <2>1, PulseCaller, PulseWriteRequests
<1>2. CASE WriterThread
  BY <1>2, PulseWriterThread, PulseWriteRequests
<1>3. CASE ReaderThread
  BY <1>3, PulseReaderThread
<1>4. CASE FpgaExec
  BY <1>4 DEF FpgaExec, PulseInv, WholePulses
<1>5. CASE \E t \in Threads : SpuriousWake(t)
  BY <1>5 DEF SpuriousWake, PulseInv, WholePulses
<1>6. CASE Terminated \/ UNCHANGED vars
  BY <1>6 DEF Terminated, vars, PulseInv, WholePulses
<1> QED
  BY <1>1, <1>2, <1>3, <1>4, <1>5, <1>6 DEF Next

\* WholePulses: whatever the threads, the requests and the bounds, a pulse is
\* never torn if every caller takes the controller lock as the comments ask.
THEOREM PulsesAreWhole == Disciplined => (Spec => []WholePulses)
<1> SUFFICES ASSUME Disciplined PROVE Spec => []WholePulses
  OBVIOUS
<1> DEFINE IInv == Placed /\ LockInv /\ PulseInv
<1>1. Init => IInv
  BY PlacedInit, LockInit, PulseInit
<1>2. IInv /\ [Next]_vars => IInv'
  BY PlacedNext, LockNext, PulseNext
<1>3. IInv => WholePulses
  BY DEF PulseInv
<1> QED
  BY <1>1, <1>2, <1>3, PTL DEF Spec

-----------------------------------------------------------------------------
(* TypeOK: no loop index leaves its array, and every queue, counter and    *)
(* local keeps its type.                                                   *)

\* How many times t's loop runs: over the requests it popped, over those of its
\* call, or once.
LoopLabels == {"push", "pushn", "wait", "run_push", "run_op", "run_ctrl"}
InLoop(t) == pc[t] \in LoopLabels \/ Calling(t, "reqSync") \/ Calling(t, "run")
Iterations(t) ==
  IF pc[t] \in WriteLabels THEN Len(batch[t])
  ELSE IF t \in Procs /\ InLoop(t)
       THEN Len(Call(t).reqs)
       ELSE 1

ReaderLoop ==
  IF pc[Reader] \in {"r_set", "r_notify", "d_set", "d_notify"}
  THEN k[Reader] \in 1 .. Len(rd_req) /\ Len(rd_req) <= Len(rd_res)
  ELSE k[Reader] = 1 /\ (pc[Reader] = "r_wake" => Len(rd_req) <= Len(rd_res))

LoopInv ==
  /\ k \in [Threads -> Nat \ {0}]
  /\ \A t \in Procs \cup {Writer} : k[t] <= Iterations(t)
  /\ ReaderLoop

DataTypes == /\ LockTypes /\ QueueTypes /\ CountTypes /\ CondTypes
             /\ ReqTypes /\ FpgaTypes /\ WriteTypes /\ ReadTypes

TypeInv == Placed /\ LoopInv /\ DataTypes

-----------------------------------------------------------------------------
(* Sequences and numbers                                                   *)

\* A bin's successor is a bin.
LEMMA BinTypes == \A b \in Bins : NextBin(b) \in Bins
<1> SUFFICES ASSUME NEW b \in Bins PROVE NextBin(b) \in Bins
  OBVIOUS
<1> QED
  BY BoundAssumption DEF Bins, NextBin

\* What pop takes and leaves.
LEMMA TakeDrop ==
  ASSUME NEW S, NEW q \in Seq(S), NEW n \in 0 .. Len(q)
  PROVE  /\ Take(q, n) \in Seq(S) /\ Len(Take(q, n)) = n
         /\ Drop(q, n) \in Seq(S) /\ Len(Drop(q, n)) = Len(q) - n
<1>0. /\ Len(q) \in Nat /\ \A i \in 1 .. Len(q) : q[i] \in S
  BY LenProperties, ElementOfSeq
<1>1. Take(q, n) \in Seq(S) /\ Len(Take(q, n)) = n
  BY <1>0, SubSeqProperties DEF Take
<1>2. Drop(q, n) \in Seq(S) /\ Len(Drop(q, n)) = Len(q) - n
  BY <1>0, SubSeqProperties DEF Drop
<1> QED
  BY <1>1, <1>2

\* The smaller of two lengths is a length of both.
LEMMA MinOfLength ==
  ASSUME NEW n \in Nat, NEW S, NEW q \in Seq(S)
  PROVE  MinOf(n, Len(q)) \in 0 .. Len(q) /\ MinOf(n, Len(q)) <= n
  BY LenProperties DEF MinOf

-----------------------------------------------------------------------------
(* Loops                                                                   *)

\* A call that makes requests makes at least one.
LEMMA CallRequests ==
  ASSUME NEW t \in Procs, NEW i \in Nat \ {0}, i <= Len(Program[t]),
         Program[t][i].op \in {"reqSync", "run"}
  PROVE  /\ Program[t][i].reqs \in Seq(Req)
         /\ Len(Program[t][i].reqs) \in Nat \ {0}
<1>1. i \in DOMAIN Program[t]
  BY ProgramAssumption
<1>2. Program[t][i].reqs \in Seq(Req) \ {<<>>}
  BY <1>1, ProgramAssumption
<1> QED
  BY <1>2, EmptySeq

\* A caller in a loop over the requests of its call ...
LEMMA CallLoop ==
  ASSUME Placed, LoopInv, NEW t \in Procs, InLoop(t)
  PROVE  /\ ip[t] <= Len(Program[t]) /\ Call(t).op \in {"reqSync", "run"}
         /\ pc[t] \notin WriteLabels /\ Requests(t) = Call(t).reqs
         /\ Call(t).reqs \in Seq(Req) /\ Len(Call(t).reqs) \in Nat
         /\ k[t] \in 1 .. Len(Call(t).reqs) /\ Current(t) \in Req
<1>1. pc[t] \notin WriteLabels
  BY DEF InLoop, LoopLabels, WriteLabels, Calling
<1>2. ip[t] <= Len(Program[t]) /\ Call(t).op \in {"reqSync", "run"}
  BY DEF Placed, FitsCall, LoopLabels, RunLabels, Call, Calling, InLoop
<1>3. Call(t).reqs \in Seq(Req) /\ Len(Call(t).reqs) \in Nat
  BY <1>2, CallRequests DEF Call, Placed
<1>4. Requests(t) = Call(t).reqs /\ Iterations(t) = Len(Call(t).reqs)
  BY <1>1 DEF Requests, Iterations
<1>5. k[t] \in 1 .. Len(Call(t).reqs)
  BY <1>3, <1>4 DEF LoopInv, Threads
<1> QED
  BY <1>1, <1>2, <1>3, <1>4, <1>5, ElementOfSeq DEF Current

\* ... and a thread in the loop of writeRequests work on a request.
LEMMA WriteLoop ==
  ASSUME LoopInv, WriteTypes, NEW t \in Procs \cup {Writer}, pc[t] \in WriteLabels
  PROVE  /\ Requests(t) = batch[t] /\ batch[t] \in Seq(Req) /\ Len(batch[t]) \in Nat
         /\ k[t] \in 1 .. Len(batch[t]) /\ Current(t) \in Req
<1>1. Requests(t) = batch[t] /\ Iterations(t) = Len(batch[t])
  BY DEF Requests, Iterations
<1>2. batch[t] \in Seq(Req) /\ Len(batch[t]) \in Nat
  BY DEF WriteTypes, Threads
<1>3. k[t] \in 1 .. Len(batch[t])
  BY <1>1, <1>2 DEF LoopInv, Threads
<1> QED
  BY <1>1, <1>2, <1>3, ElementOfSeq DEF Current

\* A thread elsewhere is at the first iteration of its next loop.
LEMMA FirstIteration ==
  ASSUME LoopInv, NEW t \in Procs \cup {Writer}, pc[t] \notin WriteLabels,
         t \in Procs => ~InLoop(t)
  PROVE  k[t] = 1
<1>1. Iterations(t) = 1
  BY DEF Iterations
<1> QED
  BY <1>1 DEF LoopInv, Threads

\* A step of a thread other than the reader changes no other thread's loop.
LEMMA LoopStep ==
  ASSUME LoopInv, NEW t \in Procs \cup {Writer},
         k' \in [Threads -> Nat \ {0}], UNCHANGED readVars,
         \A u \in Threads \ {t} : pc'[u] = pc[u] /\ k'[u] = k[u] /\ batch'[u] =
            batch[u],
         \A u \in Procs \ {t} : ip'[u] = ip[u],
         k'[t] <= Iterations(t)'
  PROVE  LoopInv'
<1>1. ReaderLoop'
  BY ThreadAssumption DEF LoopInv, ReaderLoop, Threads
<1>2. \A u \in (Procs \cup {Writer}) \ {t} : k'[u] <= Iterations(u)'
  <2> SUFFICES ASSUME NEW u \in (Procs \cup {Writer}) \ {t} PROVE k'[u] <= Iterations(u)'
    OBVIOUS
  <2>1. /\ pc'[u] = pc[u] /\ k'[u] = k[u] /\ batch'[u] = batch[u]
        /\ u \in Procs => ip'[u] = ip[u]
    BY DEF Threads
  <2>2. Iterations(u)' = Iterations(u)
    BY <2>1 DEF Iterations, InLoop, Calling, Call
  <2> QED
    BY <2>1, <2>2 DEF LoopInv
<1> QED
  BY <1>1, <1>2 DEF LoopInv

\* A thread enters a loop, goes on in it or leaves it ...
LEMMA LoopMove ==
  ASSUME Placed, LoopInv, WriteTypes, NEW t \in Procs \cup {Writer},
         pc' = [pc EXCEPT ![t] = pc'[t]], k' = [k EXCEPT ![t] = k'[t]],
         batch' = [batch EXCEPT ![t] = batch'[t]], UNCHANGED <<ip, readVars>>,
         k'[t] \in Nat \ {0},
         \/ pc'[t] \notin WriteLabels \cup LoopLabels \cup {"call"} /\ k'[t] = 1
         \/ pc'[t] \in WriteLabels /\ k'[t] <= Len(batch'[t])
         \/ /\ t \in Procs /\ k'[t] <= Len(Call(t).reqs)
            /\ pc'[t] \in LoopLabels \/ (pc'[t] = "call" /\ InLoop(t) /\ pc[t] = "call")
  PROVE  LoopInv'
<1>1. /\ k' \in [Threads -> Nat \ {0}] /\ t \in Threads
      /\ \A u \in Threads \ {t} : pc'[u] = pc[u] /\ k'[u] = k[u] /\ batch'[u] = batch[u]
  BY DEF Placed, LoopInv, WriteTypes, Threads
<1>2. CASE pc'[t] \notin WriteLabels \cup LoopLabels \cup {"call"} /\ k'[t] = 1
  BY <1>1, <1>2, LoopStep DEF Iterations, InLoop, Calling
<1>3. CASE pc'[t] \in WriteLabels /\ k'[t] <= Len(batch'[t])
  BY <1>1, <1>3, LoopStep DEF Iterations
<1>4. CASE t \in Procs /\ k'[t] <= Len(Call(t).reqs) /\ pc'[t] \in LoopLabels
  BY <1>1, <1>4, LoopStep DEF Iterations, InLoop, LoopLabels, WriteLabels, Call
<1>5. CASE /\ t \in Procs /\ k'[t] <= Len(Call(t).reqs)
           /\ pc'[t] = "call" /\ InLoop(t) /\ pc[t] = "call"
  BY <1>1, <1>5, LoopStep DEF Iterations, InLoop, LoopLabels, WriteLabels, Call, Calling
<1> QED
  BY <1>2, <1>3, <1>4, <1>5

\* ... and its next call begins a loop, or none.
LEMMA LoopReturn ==
  ASSUME Placed, LoopInv, NEW t \in Procs, NextCall(t), UNCHANGED readVars,
         \A u \in Threads \ {t} : batch'[u] = batch[u]
  PROVE  LoopInv'
<1>1. /\ pc'[t] = "call" /\ k'[t] = 1 /\ ip'[t] \in Nat \ {0}
      /\ \A u \in Threads \ {t} : pc'[u] = pc[u] /\ k'[u] = k[u]
      /\ \A u \in Procs \ {t} : ip'[u] = ip[u]
      /\ k' \in [Threads -> Nat \ {0}]
  BY DEF Placed, LoopInv, Threads
<1>2. CASE ip'[t] <= Len(Program[t]) /\ Program[t][ip'[t]].op \in {"reqSync", "run"}
  <2>1. Len(Program[t][ip'[t]].reqs) \in Nat \ {0}
    BY <1>1, <1>2, CallRequests
  <2>2. Iterations(t)' = Len(Program[t][ip'[t]].reqs)
    BY <1>1, <1>2 DEF Iterations, InLoop, Calling, Call, WriteLabels
  <2> QED
    BY <1>1, <2>1, <2>2, LoopStep
<1>3. CASE ~(ip'[t] <= Len(Program[t]) /\ Program[t][ip'[t]].op \in {"reqSync", "run"})
  <2>1. Iterations(t)' = 1
    BY <1>1, <1>3 DEF Iterations, InLoop, Calling, Call, WriteLabels, LoopLabels
  <2> QED
    BY <1>1, <2>1, LoopStep
<1> QED
  BY <1>2, <1>3

\* The writer thread returns from writeRequests.
LEMMA LoopLeave ==
  ASSUME Placed, LoopInv, WriteTypes, NEW t \in Procs \cup {Writer}, Return(t),
         batch' = [batch EXCEPT ![t] = batch'[t]], UNCHANGED readVars
  PROVE  LoopInv'
<1>1. CASE t = Writer
  <2>1. /\ pc' = [pc EXCEPT ![t] = "w_unlock"] /\ k' = [k EXCEPT ![t] = 1]
        /\ pc'[t] = "w_unlock" /\ k'[t] = 1 /\ UNCHANGED ip
    BY <1>1 DEF Return, Placed, LoopInv, Threads
  <2>2. pc' = [pc EXCEPT ![t] = pc'[t]] /\ k' = [k EXCEPT ![t] = k'[t]]
    BY <2>1
  <2>3. pc'[t] \notin WriteLabels \cup LoopLabels \cup {"call"} /\ k'[t] \in Nat \ {0}
    BY <2>1 DEF WriteLabels, LoopLabels
  <2> QED
    BY <2>1, <2>2, <2>3, LoopMove
<1>2. CASE t # Writer
  BY <1>2, LoopReturn DEF Return, WriteTypes
<1> QED
  BY <1>1, <1>2

\* The end of a loop's body keeps the index within the loop.
LEMMA IterateStep ==
  ASSUME Placed, LoopInv, NEW t \in Procs, InLoop(t), NEW again, NEW done,
         Iterate(t, again, done)
  PROVE  /\ pc'[t] \in {again, done} /\ pc' = [pc EXCEPT ![t] = pc'[t]]
         /\ k'[t] \in 1 .. Len(Call(t).reqs) /\ k' = [k EXCEPT ![t] = k'[t]]
         /\ pc'[t] # again => k'[t] = 1
<1>1. /\ Requests(t) = Call(t).reqs /\ Len(Call(t).reqs) \in Nat
      /\ k[t] \in 1 .. Len(Call(t).reqs)
  BY CallLoop
<1>2. t \in DOMAIN pc /\ t \in DOMAIN k
  BY DEF Placed, LoopInv, Threads
<1>3. CASE IsLast(t)
  <2>1. pc' = [pc EXCEPT ![t] = done] /\ k' = [k EXCEPT ![t] = 1]
    BY <1>3 DEF Iterate
  <2> QED
    BY <1>1, <1>2, <2>1
<1>4. CASE ~IsLast(t)
  <2>1. pc' = [pc EXCEPT ![t] = again] /\ k' = [k EXCEPT ![t] = k[t] + 1]
    BY <1>4 DEF Iterate
  <2>2. k[t] + 1 \in 1 .. Len(Call(t).reqs)
    BY <1>1, <1>4 DEF IsLast
  <2> QED
    BY <1>2, <2>1, <2>2
<1> QED
  BY <1>3, <1>4

\* A caller's step keeps its index within its loop.
LEMMA LoopCaller ==
  ASSUME Placed, LoopInv, DataTypes, NEW t \in Procs, Caller(t), ~WriteRequests(t)
  PROVE  LoopInv'
<1>a. /\ pc \in [Threads -> CallerLabels \cup WriterLabels \cup ReaderLabels]
      /\ k \in [Threads -> Nat \ {0}] /\ batch \in [Threads -> Seq(Req)]
      /\ t \in Threads /\ WriteTypes
  BY DEF Placed, LoopInv, DataTypes, WriteTypes, Threads
<1>b. pc[t] \in RunLabels => Len(Call(t).reqs) \in Nat \ {0}
  BY CallRequests DEF Placed, FitsCall, Call, RunLabels
<1>1. CASE Lock(t)
  BY <1>1, <1>a, LoopReturn DEF Lock
<1>2. CASE Unlock(t)
  BY <1>2, <1>a, LoopReturn DEF Unlock
<1>3. CASE SetHold(t)
  BY <1>3, <1>a, LoopReturn DEF SetHold
<1>4. CASE ReleaseHold(t)
  BY <1>4, <1>a, LoopMove, FirstIteration DEF ReleaseHold, LoopLabels, WriteLabels,
     Calling, InLoop
<1>5. CASE WaitFinish(t)
  BY <1>5, <1>a, LoopReturn DEF WaitFinish
<1>6. CASE Pulse(t)
  BY <1>6, <1>a, LoopMove, FirstIteration DEF Pulse, LoopLabels, WriteLabels,
     Calling, InLoop
<1>7. CASE ShortPulseOp(t, "pulse_op", "pulse_ctrl")
  BY <1>7, <1>a, LoopMove, FirstIteration DEF ShortPulseOp, LoopLabels, WriteLabels,
     Calling, InLoop
<1>8. CASE PulseCtrl(t)
  BY <1>8, <1>a, LoopReturn DEF PulseCtrl
<1>9. CASE NewRequest(t)
  <2>1. InLoop(t)
    BY <1>9 DEF NewRequest, InLoop, LoopLabels
  <2>2. Iterate(t, "call", IF Call(t).op = "run" THEN "run_push" ELSE "push")
    BY <1>9 DEF NewRequest
  <2>3. batch' = [batch EXCEPT ![t] = batch'[t]] /\ UNCHANGED <<ip, readVars>>
    BY <1>9, <1>a DEF NewRequest
  <2>4. pc[t] = "call"
    BY <1>9 DEF NewRequest, Calling
  <2>5. /\ pc'[t] \in {"call", "push", "run_push"} /\ pc' = [pc EXCEPT ![t] = pc'[t]]
        /\ k'[t] \in 1 .. Len(Call(t).reqs) /\ k' = [k EXCEPT ![t] = k'[t]]
        /\ pc'[t] \notin LoopLabels \cup {"call"} => k'[t] = 1
    BY <2>1, <2>2, IterateStep DEF LoopLabels
  <2>6. k'[t] \in Nat \ {0} /\ k'[t] <= Len(Call(t).reqs)
    BY <2>1, <2>5, CallLoop
  <2> QED
    BY <1>a, <2>1, <2>3, <2>4, <2>5, <2>6, LoopMove DEF LoopLabels, WriteLabels
<1>10. CASE PushReq(t)
  <2>1. InLoop(t)
    BY <1>10 DEF PushReq, InLoop, LoopLabels
  <2>2. /\ Requests(t) = Call(t).reqs /\ Len(Call(t).reqs) \in Nat
        /\ k[t] \in 1 .. Len(Call(t).reqs)
    BY <2>1, CallLoop
  <2>3. pc'[t] \in {"pushn"} /\ pc' = [pc EXCEPT ![t] = pc'[t]]
    BY <1>10, <1>a DEF PushReq
  <2>4. /\ k'[t] \in 1 .. Len(Call(t).reqs) /\ k' = [k EXCEPT ![t] = k'[t]]
    BY <1>10, <1>a, <2>2 DEF PushReq, IsLast
  <2>5. batch' = [batch EXCEPT ![t] = batch'[t]] /\ UNCHANGED <<ip, readVars>>
    BY <1>10, <1>a DEF PushReq
  <2> QED
    BY <1>a, <2>2, <2>3, <2>4, <2>5, LoopMove DEF LoopLabels, WriteLabels
<1>11. CASE PushReqNotify(t)
  <2>1. InLoop(t)
    BY <1>11 DEF PushReqNotify, InLoop, LoopLabels
  <2>2. Iterate(t, "push", "wait")
    BY <1>11 DEF PushReqNotify
  <2>3. batch' = [batch EXCEPT ![t] = batch'[t]] /\ UNCHANGED <<ip, readVars>>
    BY <1>11, <1>a DEF PushReqNotify
  <2>5. /\ pc'[t] \in {"push", "wait"} /\ pc' = [pc EXCEPT ![t] = pc'[t]]
        /\ k'[t] \in 1 .. Len(Call(t).reqs) /\ k' = [k EXCEPT ![t] = k'[t]]
        /\ pc'[t] \notin LoopLabels \cup {"call"} => k'[t] = 1
    BY <2>1, <2>2, IterateStep DEF LoopLabels
  <2>6. k'[t] \in Nat \ {0} /\ k'[t] <= Len(Call(t).reqs)
    BY <2>1, <2>5, CallLoop
  <2> QED
    BY <1>a, <2>1, <2>3, <2>5, <2>6, LoopMove DEF LoopLabels, WriteLabels
<1>12. CASE WaitSleep(t)
  <2>1. InLoop(t)
    BY <1>12 DEF WaitSleep, InLoop, LoopLabels
  <2>2. /\ Requests(t) = Call(t).reqs /\ Len(Call(t).reqs) \in Nat
        /\ k[t] \in 1 .. Len(Call(t).reqs)
    BY <2>1, CallLoop
  <2>3. pc'[t] \in {"wait"} /\ pc' = [pc EXCEPT ![t] = pc'[t]]
    BY <1>12, <1>a DEF WaitSleep
  <2>4. /\ k'[t] \in 1 .. Len(Call(t).reqs) /\ k' = [k EXCEPT ![t] = k'[t]]
    BY <1>12, <1>a, <2>2 DEF WaitSleep, IsLast
  <2>5. batch' = [batch EXCEPT ![t] = batch'[t]] /\ UNCHANGED <<ip, readVars>>
    BY <1>12, <1>a DEF WaitSleep
  <2> QED
    BY <1>a, <2>2, <2>3, <2>4, <2>5, LoopMove DEF LoopLabels, WriteLabels
<1>13. CASE WaitReady(t)
  <2>1. /\ batch' = [batch EXCEPT ![t] = batch'[t]] /\ UNCHANGED readVars
        /\ \A u \in Threads \ {t} : batch'[u] = batch[u]
    BY <1>13, <1>a DEF WaitReady
  <2>2. CASE IsLast(t)
    <3>1. NextCall(t)
      BY <1>13, <2>2 DEF WaitReady
    <3> QED
      BY <2>1, <3>1, LoopReturn
  <2>3. CASE ~IsLast(t)
    <3>1. InLoop(t) /\ pc[t] = "wait"
      BY <1>13 DEF WaitReady, InLoop, LoopLabels
    <3>2. /\ Requests(t) = Call(t).reqs /\ Len(Call(t).reqs) \in Nat
          /\ k[t] \in 1 .. Len(Call(t).reqs)
      BY <3>1, CallLoop
    <3>3. k' = [k EXCEPT ![t] = k[t] + 1] /\ UNCHANGED <<pc, ip>>
      BY <1>13, <2>3 DEF WaitReady
    <3>4. /\ k' = [k EXCEPT ![t] = k'[t]] /\ k'[t] = k[t] + 1
          /\ pc' = [pc EXCEPT ![t] = pc'[t]] /\ pc'[t] \in LoopLabels
      BY <1>a, <3>1, <3>3 DEF LoopLabels
    <3>5. k'[t] \in Nat \ {0} /\ k'[t] <= Len(Call(t).reqs)
      BY <2>3, <3>2, <3>4 DEF IsLast
    <3>6. UNCHANGED <<ip, readVars>> /\ WriteTypes
      BY <1>a, <2>1, <3>3
    <3> QED
      BY <2>1, <3>4, <3>5, <3>6, LoopMove
  <2> QED
    BY <2>2, <2>3
<1>14. CASE RunPush(t)
  <2>1. InLoop(t)
    BY <1>14 DEF RunPush, InLoop, LoopLabels
  <2>2. Iterate(t, "run_push", "run_space")
    BY <1>14 DEF RunPush
  <2>3. batch' = [batch EXCEPT ![t] = batch'[t]] /\ UNCHANGED <<ip, readVars>>
    BY <1>14, <1>a DEF RunPush
  <2>5. /\ pc'[t] \in {"run_push", "run_space"} /\ pc' = [pc EXCEPT ![t] = pc'[t]]
        /\ k'[t] \in 1 .. Len(Call(t).reqs) /\ k' = [k EXCEPT ![t] = k'[t]]
        /\ pc'[t] \notin LoopLabels \cup {"call"} => k'[t] = 1
    BY <2>1, <2>2, IterateStep DEF LoopLabels
  <2>6. k'[t] \in Nat \ {0} /\ k'[t] <= Len(Call(t).reqs)
    BY <2>1, <2>5, CallLoop
  <2> QED
    BY <1>a, <2>1, <2>3, <2>5, <2>6, LoopMove DEF LoopLabels, WriteLabels
<1>15. CASE HasResSpace(t)
  <2>1. k[t] = 1 /\ pc[t] \in RunLabels /\ pc'[t] \in {"run_op", "wait"} /\ UNCHANGED k
    BY <1>15, <1>a, FirstIteration DEF HasResSpace, InLoop, LoopLabels, WriteLabels,
       RunLabels, Calling
  <2>2. /\ pc' = [pc EXCEPT ![t] = pc'[t]] /\ k' = [k EXCEPT ![t] = k'[t]]
        /\ batch' = [batch EXCEPT ![t] = batch'[t]] /\ UNCHANGED <<ip, readVars>>
    BY <1>15, <1>a, <2>1 DEF HasResSpace
  <2>3. /\ k'[t] \in Nat \ {0} /\ k'[t] <= Len(Call(t).reqs)
        /\ pc'[t] \in LoopLabels
    BY <1>b, <2>1 DEF LoopLabels
  <2>4. WriteTypes
    BY <1>a
  <2> QED
    BY <2>2, <2>3, <2>4, LoopMove
<1>16. CASE NoResSpace(t)
  BY <1>16, <1>a, LoopMove, FirstIteration, <1>b DEF NoResSpace, LoopLabels,
     WriteLabels, Calling, InLoop
<1>17. CASE RunIncrement(t)
  <2>1. k[t] = 1 /\ pc[t] \in RunLabels /\ pc'[t] \in {"run_op", "wait"} /\ UNCHANGED k
    BY <1>17, <1>a, FirstIteration DEF RunIncrement, InLoop, LoopLabels,
       WriteLabels, RunLabels, Calling
  <2>2. /\ pc' = [pc EXCEPT ![t] = pc'[t]] /\ k' = [k EXCEPT ![t] = k'[t]]
        /\ batch' = [batch EXCEPT ![t] = batch'[t]] /\ UNCHANGED <<ip, readVars>>
    BY <1>17, <1>a, <2>1 DEF RunIncrement
  <2>3. /\ k'[t] \in Nat \ {0} /\ k'[t] <= Len(Call(t).reqs)
        /\ pc'[t] \in LoopLabels
    BY <1>b, <2>1 DEF LoopLabels
  <2>4. WriteTypes
    BY <1>a
  <2> QED
    BY <2>2, <2>3, <2>4, LoopMove
<1>18. CASE ShortPulseOp(t, "run_op", "run_ctrl")
  <2>1. InLoop(t)
    BY <1>18 DEF ShortPulseOp, InLoop, LoopLabels
  <2>2. /\ Requests(t) = Call(t).reqs /\ Len(Call(t).reqs) \in Nat
        /\ k[t] \in 1 .. Len(Call(t).reqs)
    BY <2>1, CallLoop
  <2>3. pc'[t] \in {"run_ctrl"} /\ pc' = [pc EXCEPT ![t] = pc'[t]]
    BY <1>18, <1>a DEF ShortPulseOp
  <2>4. /\ k'[t] \in 1 .. Len(Call(t).reqs) /\ k' = [k EXCEPT ![t] = k'[t]]
    BY <1>18, <1>a, <2>2 DEF ShortPulseOp, IsLast
  <2>5. batch' = [batch EXCEPT ![t] = batch'[t]] /\ UNCHANGED <<ip, readVars>>
    BY <1>18, <1>a DEF ShortPulseOp
  <2> QED
    BY <1>a, <2>2, <2>3, <2>4, <2>5, LoopMove DEF LoopLabels, WriteLabels
<1>19. CASE RunPulseCtrl(t)
  <2>1. InLoop(t)
    BY <1>19 DEF RunPulseCtrl, InLoop, LoopLabels
  <2>2. Iterate(t, "run_op", IF Len(Call(t).reqs) = 1 THEN "run_inc" ELSE "load")
    BY <1>19 DEF RunPulseCtrl
  <2>3. batch' = [batch EXCEPT ![t] = batch'[t]] /\ UNCHANGED <<ip, readVars>>
    BY <1>19, <1>a DEF RunPulseCtrl
  <2>5. /\ pc'[t] \in {"run_op", "run_inc", "load"} /\ pc' = [pc EXCEPT ![t] = pc'[t]]
        /\ k'[t] \in 1 .. Len(Call(t).reqs) /\ k' = [k EXCEPT ![t] = k'[t]]
        /\ pc'[t] \notin LoopLabels \cup {"call"} => k'[t] = 1
    BY <2>1, <2>2, IterateStep DEF LoopLabels
  <2>6. k'[t] \in Nat \ {0} /\ k'[t] <= Len(Call(t).reqs)
    BY <2>1, <2>5, CallLoop
  <2> QED
    BY <1>a, <2>1, <2>3, <2>5, <2>6, LoopMove DEF LoopLabels, WriteLabels
<1>20. CASE Quit(t)
  BY <1>20, <1>a, LoopMove, FirstIteration DEF Quit, LoopLabels, WriteLabels,
     Calling, InLoop
<1>21. CASE QuitNotify(t)
  BY <1>21, <1>a, LoopMove, FirstIteration DEF QuitNotify, LoopLabels, WriteLabels,
     Calling, InLoop
<1>22. CASE Join(t)
  BY <1>22, <1>a, LoopReturn DEF Join
<1> QED
  BY <1>1, <1>2, <1>3, <1>4, <1>5, <1>6, <1>7, <1>8, <1>9, <1>10, <1>11, <1>12,
     <1>13, <1>14, <1>15, <1>16, <1>17, <1>18, <1>19, <1>20, <1>21, <1>22 DEF Caller

\* The end of the loop's body of writeRequests keeps the index within the loop.
LEMMA NextWriteStep ==
  ASSUME Placed, LoopInv, WriteTypes, NEW t \in Procs \cup {Writer}, pc[t] \in WriteLabels,
         NextWrite(t)
  PROVE  LoopInv'
<1>0. /\ t \in DOMAIN pc /\ t \in DOMAIN k /\ t \in DOMAIN batch
      /\ Requests(t) = batch[t] /\ Len(batch[t]) \in Nat /\ k[t] \in 1 .. Len(batch[t])
      /\ batch \in [Threads -> Seq(Req)]
  BY WriteLoop DEF Placed, LoopInv, WriteTypes, Threads
<1>1. CASE ~IsLast(t)
  <2>1. /\ pc' = [pc EXCEPT ![t] = WriteLabel(batch[t][k[t] + 1])]
        /\ k' = [k EXCEPT ![t] = k[t] + 1] /\ batch' = batch /\ UNCHANGED <<ip, readVars>>
    BY <1>1 DEF NextWrite
  <2>2. pc'[t] \in WriteLabels
    BY <1>0, <2>1 DEF WriteLabel, WriteLabels
  <2>3. k'[t] \in Nat \ {0} /\ k'[t] <= Len(batch'[t])
    BY <1>0, <1>1, <2>1 DEF IsLast
  <2>4. /\ pc' = [pc EXCEPT ![t] = pc'[t]] /\ k' = [k EXCEPT ![t] = k'[t]]
        /\ batch' = [batch EXCEPT ![t] = batch'[t]]
    BY <1>0, <2>1
  <2> QED
    BY <2>1, <2>2, <2>3, <2>4, LoopMove
<1>2. CASE IsLast(t)
  <2>1. batch' = [batch EXCEPT ![t] = batch'[t]] /\ UNCHANGED readVars
    BY <1>0, <1>2 DEF NextWrite
  <2>2. CASE nret[t] = 0
    BY <1>2, <2>1, <2>2, LoopLeave DEF NextWrite
  <2>3. CASE nret[t] # 0
    <3>1. pc' = [pc EXCEPT ![t] = "load"] /\ k' = [k EXCEPT ![t] = 1] /\ UNCHANGED ip
      BY <1>2, <2>3 DEF NextWrite
    <3>2. /\ pc'[t] = "load" /\ k'[t] = 1
          /\ pc' = [pc EXCEPT ![t] = pc'[t]] /\ k' = [k EXCEPT ![t] = k'[t]]
      BY <1>0, <3>1
    <3>3. pc'[t] \notin WriteLabels \cup LoopLabels \cup {"call"} /\ k'[t] \in Nat \ {0}
      BY <3>2 DEF WriteLabels, LoopLabels
    <3> QED
      BY <2>1, <3>1, <3>2, <3>3, LoopMove
  <2> QED
    BY <2>2, <2>3
<1> QED
  BY <1>1, <1>2

\* A step of writeRequests keeps the index within the loop.
LEMMA LoopWriteRequests ==
  ASSUME Placed, LoopInv, DataTypes, NEW t \in Procs \cup {Writer}, WriteRequests(t)
  PROVE  LoopInv'
<1>a. /\ pc \in [Threads -> CallerLabels \cup WriterLabels \cup ReaderLabels]
      /\ k \in [Threads -> Nat \ {0}] /\ batch \in [Threads -> Seq(Req)]
      /\ t \in Threads /\ WriteTypes
  BY DEF Placed, LoopInv, DataTypes, WriteTypes, Threads
<1>b. pc[t] \in WriteLabels => Len(batch[t]) \in Nat /\ k[t] \in 1 .. Len(batch[t])
  BY <1>a, WriteLoop
<1>c. pc[Writer] # "call" /\ (t # Writer => t \in Procs)
  BY DEF Placed, WriterLabels, WriteLabels
<1>1. CASE WriteSpace(t)
  <2>1. batch' = [batch EXCEPT ![t] = batch'[t]] /\ UNCHANGED readVars
    BY <1>1, <1>a DEF WriteSpace
  <2>2. CASE Return(t)
    BY <1>a, <2>1, <2>2, LoopLeave
  <2>3. CASE pc' = [pc EXCEPT ![t] = "wr_pop"] /\ UNCHANGED <<ip, k>>
    <3>1. k[t] = 1
      BY <1>1, <1>c, FirstIteration DEF WriteSpace, Calling, InLoop, LoopLabels, WriteLabels
    <3>2. pc'[t] = "wr_pop" /\ k'[t] = 1
      BY <1>a, <2>3, <3>1
    <3>3. pc' = [pc EXCEPT ![t] = pc'[t]] /\ k' = [k EXCEPT ![t] = k'[t]]
      BY <1>a, <2>3
    <3>4. /\ pc'[t] \notin WriteLabels \cup LoopLabels \cup {"call"}
          /\ k'[t] \in Nat \ {0} /\ WriteTypes /\ UNCHANGED <<ip, readVars>>
      BY <1>a, <2>1, <2>3, <3>2 DEF WriteLabels, LoopLabels
    <3> QED
      BY <2>1, <3>2, <3>3, <3>4, LoopMove
  <2> QED
    BY <1>1, <2>2, <2>3 DEF WriteSpace
<1>2. CASE WritePop(t)
  <2> DEFINE n == MinOf(room[t], Len(m_req_queue))
  <2>1. /\ n \in 0 .. Len(m_req_queue) /\ Len(m_req_queue) \in Nat
        /\ Len(Take(m_req_queue, n)) = n
    BY <1>a, MinOfLength, TakeDrop, LenProperties DEF DataTypes, QueueTypes, WriteTypes
  <2>2. batch'[t] = Take(m_req_queue, n) /\ UNCHANGED readVars
    BY <1>2, <1>a DEF WritePop
  <2>3. batch' = [batch EXCEPT ![t] = batch'[t]]
    BY <1>2, <1>a DEF WritePop
  <2>4. CASE n = 0
    BY <1>2, <1>a, <2>2, <2>3, <2>4, LoopLeave DEF WritePop
  <2>5. CASE n # 0
    <3>1. /\ pc' = [pc EXCEPT ![t] = WriteLabel(Head(m_req_queue))] /\ UNCHANGED <<ip, k>>
          /\ k[t] = 1
      BY <1>2, <2>5, FirstIteration DEF WritePop, Calling, InLoop, LoopLabels, WriteLabels
    <3>2. pc'[t] \in WriteLabels
      BY <1>a, <3>1 DEF WriteLabel, WriteLabels
    <3>3. k'[t] = 1 /\ 1 <= Len(batch'[t])
      BY <2>1, <2>2, <2>5, <3>1
    <3>4. pc' = [pc EXCEPT ![t] = pc'[t]] /\ k' = [k EXCEPT ![t] = k'[t]]
      BY <1>a, <3>1
    <3> QED
      BY <1>a, <2>2, <2>3, <3>1, <3>2, <3>3, <3>4, LoopMove
  <2> QED
    BY <2>4, <2>5
<1>3. CASE WritePush(t)
  <2>1. /\ pc[t] \in {"wr_push"} /\ pc'[t] \in {"wr_op"} /\ UNCHANGED k
        /\ pc' = [pc EXCEPT ![t] = pc'[t]] /\ k' = [k EXCEPT ![t] = k'[t]]
        /\ batch' = [batch EXCEPT ![t] = batch'[t]] /\ batch'[t] = batch[t]
        /\ UNCHANGED <<ip, readVars>>
    BY <1>3, <1>a DEF WritePush
  <2> QED
    BY <1>a, <1>b, <2>1, LoopMove DEF WriteLabels
<1>4. CASE ShortPulseOp(t, "wr_op", "wr_ctrl")
  <2>1. /\ pc[t] \in {"wr_op"} /\ pc'[t] \in {"wr_ctrl"} /\ UNCHANGED k
        /\ pc' = [pc EXCEPT ![t] = pc'[t]] /\ k' = [k EXCEPT ![t] = k'[t]]
        /\ batch' = [batch EXCEPT ![t] = batch'[t]] /\ batch'[t] = batch[t]
        /\ UNCHANGED <<ip, readVars>>
    BY <1>4, <1>a DEF ShortPulseOp
  <2> QED
    BY <1>a, <1>b, <2>1, LoopMove DEF WriteLabels
<1>5. CASE WritePulseCtrl(t)
  <2>1. /\ pc[t] \in {"wr_ctrl"} /\ pc'[t] \in {"wr_check"} /\ UNCHANGED k
        /\ pc' = [pc EXCEPT ![t] = pc'[t]] /\ k' = [k EXCEPT ![t] = k'[t]]
        /\ batch' = [batch EXCEPT ![t] = batch'[t]] /\ batch'[t] = batch[t]
        /\ UNCHANGED <<ip, readVars>>
    BY <1>5, <1>a DEF WritePulseCtrl
  <2> QED
    BY <1>a, <1>b, <2>1, LoopMove DEF WriteLabels
<1>6. CASE WriteHasRes(t)
  BY <1>6, <1>a, NextWriteStep DEF WriteHasRes, WriteLabels
<1>7. CASE WriteSetRes(t)
  <2>1. /\ pc[t] \in {"wr_check"} /\ pc'[t] \in {"wr_notify"} /\ UNCHANGED k
        /\ pc' = [pc EXCEPT ![t] = pc'[t]] /\ k' = [k EXCEPT ![t] = k'[t]]
        /\ batch' = [batch EXCEPT ![t] = batch'[t]] /\ batch'[t] = batch[t]
        /\ UNCHANGED <<ip, readVars>>
    BY <1>7, <1>a DEF WriteSetRes
  <2> QED
    BY <1>a, <1>b, <2>1, LoopMove DEF WriteLabels
<1>8. CASE WriteNotify(t)
  BY <1>8, <1>a, NextWriteStep DEF WriteNotify, WriteLabels
<1>9. CASE WriteDefer(t)
  BY <1>9, <1>a, NextWriteStep DEF WriteDefer, WriteLabels
<1>10. CASE LoadWritten(t)
  <2>1. /\ k[t] = 1 /\ pc'[t] = "store" /\ UNCHANGED <<ip, k, readVars>>
        /\ pc' = [pc EXCEPT ![t] = pc'[t]] /\ batch' = [batch EXCEPT ![t] = batch'[t]]
    BY <1>10, <1>a, FirstIteration DEF LoadWritten, Calling, InLoop, LoopLabels, WriteLabels
  <2>2. k' = [k EXCEPT ![t] = k'[t]]
    BY <1>a, <2>1
  <2> QED
    BY <1>a, <2>1, <2>2, LoopMove DEF WriteLabels, LoopLabels
<1>11. CASE StoreWritten(t)
  <2>1. k[t] = 1 /\ pc[t] = "store" /\ UNCHANGED <<batch, readVars>>
    BY <1>11, <1>a, FirstIteration DEF StoreWritten, Calling, InLoop, LoopLabels, WriteLabels
  <2>2. batch' = [batch EXCEPT ![t] = batch'[t]]
    BY <1>a, <2>1
  <2>3. CASE Running(t)
    <3>1. t \in Procs /\ Len(Call(t).reqs) \in Nat \ {0}
      BY <1>c, <2>1, <2>3, CallRequests DEF Running, Placed, FitsCall, Call
    <3>2. pc' = [pc EXCEPT ![t] = "wait"] /\ UNCHANGED <<ip, k>>
      BY <1>11, <2>3 DEF StoreWritten
    <3>3. pc'[t] = "wait" /\ pc' = [pc EXCEPT ![t] = pc'[t]] /\ k' = [k EXCEPT ![t] = k'[t]]
      BY <1>a, <3>2
    <3>4. pc'[t] \in LoopLabels
      BY <3>3 DEF LoopLabels
    <3>5. k'[t] \in Nat \ {0} /\ k'[t] <= Len(Call(t).reqs)
      BY <1>a, <2>1, <3>1, <3>2
    <3> QED
      BY <1>a, <2>1, <2>2, <3>1, <3>2, <3>3, <3>4, <3>5, LoopMove
  <2>4. CASE ~Running(t)
    BY <1>11, <1>a, <2>1, <2>2, <2>4, LoopLeave DEF StoreWritten
  <2> QED
    BY <2>3, <2>4
<1> QED
  BY <1>1, <1>2, <1>3, <1>4, <1>5, <1>6, <1>7, <1>8, <1>9, <1>10, <1>11 DEF WriteRequests

\* A step of the writer thread's own, outside every loop.
LEMMA LoopWriterThread ==
  ASSUME Placed, LoopInv, DataTypes, WriterThread, ~WriteRequests(Writer)
  PROVE  LoopInv'
<1> DEFINE Own == {"w_top", "w_done", "w_wait", "w_lock", "wr_space", "w_unlock"}
<1>a. /\ pc \in [Threads -> CallerLabels \cup WriterLabels \cup ReaderLabels]
      /\ k \in [Threads -> Nat \ {0}] /\ batch \in [Threads -> Seq(Req)]
      /\ Writer \in Threads /\ Writer \notin Procs /\ WriteTypes
  BY ThreadAssumption DEF Placed, LoopInv, DataTypes, WriteTypes, Threads
<1>1. WriterTop => /\ pc[Writer] \in Own /\ pc'[Writer] \in Own
              /\ pc' = [pc EXCEPT ![Writer] = pc'[Writer]]
              /\ UNCHANGED <<ip, k, batch, readVars>>
  BY <1>a DEF WriterTop
<1>2. WriterSleep => /\ pc[Writer] \in Own /\ pc'[Writer] \in Own
              /\ pc' = [pc EXCEPT ![Writer] = pc'[Writer]]
              /\ UNCHANGED <<ip, k, batch, readVars>>
  BY <1>a DEF WriterSleep
<1>3. WriterWake => /\ pc[Writer] \in Own /\ pc'[Writer] \in Own
              /\ pc' = [pc EXCEPT ![Writer] = pc'[Writer]]
              /\ UNCHANGED <<ip, k, batch, readVars>>
  BY <1>a DEF WriterWake
<1>4. WriterLock => /\ pc[Writer] \in Own /\ pc'[Writer] \in Own
              /\ pc' = [pc EXCEPT ![Writer] = pc'[Writer]]
              /\ UNCHANGED <<ip, k, batch, readVars>>
  BY <1>a DEF WriterLock
<1>5. WriterUnlock => /\ pc[Writer] \in Own /\ pc'[Writer] \in Own
              /\ pc' = [pc EXCEPT ![Writer] = pc'[Writer]]
              /\ UNCHANGED <<ip, k, batch, readVars>>
  BY <1>a DEF WriterUnlock
<1>6. /\ pc[Writer] \in Own /\ pc'[Writer] \in Own
      /\ pc' = [pc EXCEPT ![Writer] = pc'[Writer]]
      /\ UNCHANGED <<ip, k, batch, readVars>>
  BY <1>1, <1>2, <1>3, <1>4, <1>5 DEF WriterThread
<1>7. Own \cap (WriteLabels \cup LoopLabels \cup {"call"}) = {}
  BY DEF WriteLabels, LoopLabels
<1>8. k'[Writer] = 1
  BY <1>a, <1>6, <1>7, FirstIteration
<1>9. /\ k' = [k EXCEPT ![Writer] = k'[Writer]]
      /\ batch' = [batch EXCEPT ![Writer] = batch'[Writer]]
  BY <1>a, <1>6
<1>10. pc'[Writer] \notin WriteLabels \cup LoopLabels \cup {"call"} /\ k'[Writer] \in Nat \ {0}
  BY <1>6, <1>7, <1>8
<1> QED
  BY <1>a, <1>6, <1>8, <1>9, <1>10, LoopMove

\* A step of the reader changes no other thread's loop.
LEMMA LoopReader ==
  ASSUME Placed, LoopInv, pc' = [pc EXCEPT ![Reader] = pc'[Reader]],
         k' = [k EXCEPT ![Reader] = k'[Reader]], k'[Reader] \in Nat \ {0},
         UNCHANGED <<ip, batch>>, ReaderLoop'
  PROVE  LoopInv'
<1>1. /\ k' \in [Threads -> Nat \ {0}]
      /\ \A u \in Procs \cup {Writer} : pc'[u] = pc[u] /\ k'[u] = k[u]
  BY ThreadAssumption DEF Placed, LoopInv, Threads
<1>2. \A u \in Procs \cup {Writer} : k'[u] <= Iterations(u)'
  BY <1>1 DEF LoopInv, Iterations, InLoop, Calling, Call
<1> QED
  BY <1>1, <1>2 DEF LoopInv

\* A step of the reader keeps its index within the requests it popped.
LEMMA LoopReaderThread ==
  ASSUME Placed, LoopInv, DataTypes, ReaderThread
  PROVE  LoopInv'
<1>a. /\ pc \in [Threads -> CallerLabels \cup WriterLabels \cup ReaderLabels]
      /\ k \in [Threads -> Nat \ {0}] /\ Reader \in Threads /\ ReaderLoop
      /\ rd_req \in Seq(Req) /\ Len(rd_req) \in Nat
      /\ rd_res \in Seq(Req \cup {Zero, Garbage}) /\ Len(rd_res) \in Nat
  BY LenProperties DEF Placed, LoopInv, DataTypes, ReadTypes, Threads
<1>1. CASE ReaderTop
  <2>1. /\ pc' = [pc EXCEPT ![Reader] = pc'[Reader]] /\ k' = [k EXCEPT ![Reader] = k'[Reader]]
        /\ k'[Reader] \in Nat \ {0} /\ UNCHANGED <<ip, batch>>
    BY <1>1, <1>a DEF ReaderTop, ReaderGoto
  <2>2. ReaderLoop'
    BY <1>1, <1>a DEF ReaderTop, ReaderGoto, ReaderLoop
  <2> QED
    BY <2>1, <2>2, LoopReader
<1>2. CASE ReaderWake
  <2>1. /\ pc' = [pc EXCEPT ![Reader] = pc'[Reader]] /\ k' = [k EXCEPT ![Reader] = k'[Reader]]
        /\ k'[Reader] \in Nat \ {0} /\ UNCHANGED <<ip, batch>>
    BY <1>2, <1>a DEF ReaderWake, ReaderGoto
  <2>2. ReaderLoop'
    BY <1>2, <1>a DEF ReaderWake, ReaderGoto, ReaderLoop
  <2> QED
    BY <2>1, <2>2, LoopReader
<1>3. CASE ReaderCheck
  <2>1. /\ pc' = [pc EXCEPT ![Reader] = pc'[Reader]] /\ k' = [k EXCEPT ![Reader] = k'[Reader]]
        /\ k'[Reader] \in Nat \ {0} /\ UNCHANGED <<ip, batch>>
    BY <1>3, <1>a DEF ReaderCheck, ReaderGoto
  <2>2. ReaderLoop'
    BY <1>3, <1>a DEF ReaderCheck, ReaderGoto, ReaderLoop
  <2> QED
    BY <2>1, <2>2, LoopReader
<1>4. CASE ReadResults
  <2>1. /\ pc' = [pc EXCEPT ![Reader] = pc'[Reader]] /\ k' = [k EXCEPT ![Reader] = k'[Reader]]
        /\ k'[Reader] \in Nat \ {0} /\ UNCHANGED <<ip, batch>>
    BY <1>4, <1>a DEF ReadResults
  <2>2. ReaderLoop'
    BY <1>4, <1>a DEF ReadResults, ReaderLoop
  <2> QED
    BY <2>1, <2>2, LoopReader
<1>5. CASE CountRead
  <2>1. /\ pc' = [pc EXCEPT ![Reader] = pc'[Reader]] /\ k' = [k EXCEPT ![Reader] = k'[Reader]]
        /\ k'[Reader] \in Nat \ {0} /\ UNCHANGED <<ip, batch>>
    BY <1>5, <1>a DEF CountRead
  <2>2. ReaderLoop'
    BY <1>5, <1>a DEF CountRead, ReaderLoop
  <2> QED
    BY <2>1, <2>2, LoopReader
<1>6. CASE PopResQueue
  <2>1. /\ pc' = [pc EXCEPT ![Reader] = pc'[Reader]] /\ k' = [k EXCEPT ![Reader] = k'[Reader]]
        /\ k'[Reader] \in Nat \ {0} /\ UNCHANGED <<ip, batch>>
    BY <1>6, <1>a DEF PopResQueue
  <2> DEFINE n == MinOf(Len(rd_res), Len(m_res_queue))
  <2>a. n <= Len(rd_res) /\ Len(Take(m_res_queue, n)) = n
    <3>1. m_res_queue \in Seq(Req)
      BY DEF DataTypes, QueueTypes
    <3>2. n \in 0 .. Len(m_res_queue) /\ n <= Len(rd_res)
      BY <1>a, <3>1, MinOfLength
    <3> QED
      BY <3>1, <3>2, TakeDrop
  <2>2. ReaderLoop'
    BY <1>6, <1>a, <2>a DEF PopResQueue, ReaderLoop
  <2> QED
    BY <2>1, <2>2, LoopReader
<1>7. CASE ReaderNotifyWriter
  <2>1. /\ pc' = [pc EXCEPT ![Reader] = pc'[Reader]] /\ k' = [k EXCEPT ![Reader] = k'[Reader]]
        /\ k'[Reader] \in Nat \ {0} /\ UNCHANGED <<ip, batch>>
    BY <1>7, <1>a DEF ReaderNotifyWriter
  <2>a. rd_req # <<>> => Len(rd_req) >= 1
    BY <1>a, EmptySeq
  <2>2. ReaderLoop'
    BY <1>7, <1>a, <2>a DEF ReaderNotifyWriter, ReaderLoop
  <2> QED
    BY <2>1, <2>2, LoopReader
<1>8. CASE DumpNotifyQueue
  <2>1. /\ pc' = [pc EXCEPT ![Reader] = pc'[Reader]] /\ k' = [k EXCEPT ![Reader] = k'[Reader]]
        /\ k'[Reader] \in Nat \ {0} /\ UNCHANGED <<ip, batch>>
    BY <1>8, <1>a DEF DumpNotifyQueue
  <2> DEFINE n == MinOf(BufSize, Len(m_notify_queue))
  <2>q. m_notify_queue \in Seq(Req) /\ BufSize \in Nat \ {0}
    BY BoundAssumption DEF DataTypes, QueueTypes
  <2>n. n \in 0 .. Len(m_notify_queue) /\ Len(m_notify_queue) \in Nat
    BY <2>q, MinOfLength, LenProperties
  <2>e. m_notify_queue # <<>> => n >= 1
    BY <2>q, EmptySeq DEF MinOf
  <2>a. n \in 0 .. Len(m_notify_queue) /\ Len(Take(m_notify_queue, n)) = n
    BY <2>q, <2>n, TakeDrop
  <2>b. Len([j \in 1 .. n |-> Zero]) = n
    BY <2>a
  <2>2. ReaderLoop'
    BY <1>8, <1>a, <2>a, <2>b, <2>e DEF DumpNotifyQueue, ReaderLoop
  <2> QED
    BY <2>1, <2>2, LoopReader
<1>9. CASE ReaderSetRes("r_set", "r_notify")
  <2>1. /\ pc' = [pc EXCEPT ![Reader] = pc'[Reader]] /\ k' = [k EXCEPT ![Reader] = k'[Reader]]
        /\ k'[Reader] \in Nat \ {0} /\ UNCHANGED <<ip, batch>>
    BY <1>9, <1>a DEF ReaderSetRes
  <2>2. ReaderLoop'
    BY <1>9, <1>a DEF ReaderSetRes, ReaderLoop
  <2> QED
    BY <2>1, <2>2, LoopReader
<1>10. CASE ReaderNotify("r_notify", "r_set", "r_check")
  <2>1. /\ pc' = [pc EXCEPT ![Reader] = pc'[Reader]] /\ k' = [k EXCEPT ![Reader] = k'[Reader]]
        /\ k'[Reader] \in Nat \ {0} /\ UNCHANGED <<ip, batch>>
    BY <1>10, <1>a DEF ReaderNotify
  <2>2. ReaderLoop'
    BY <1>10, <1>a DEF ReaderNotify, ReaderLoop
  <2> QED
    BY <2>1, <2>2, LoopReader
<1>11. CASE ReaderSetRes("d_set", "d_notify")
  <2>1. /\ pc' = [pc EXCEPT ![Reader] = pc'[Reader]] /\ k' = [k EXCEPT ![Reader] = k'[Reader]]
        /\ k'[Reader] \in Nat \ {0} /\ UNCHANGED <<ip, batch>>
    BY <1>11, <1>a DEF ReaderSetRes
  <2>2. ReaderLoop'
    BY <1>11, <1>a DEF ReaderSetRes, ReaderLoop
  <2> QED
    BY <2>1, <2>2, LoopReader
<1>12. CASE ReaderNotify("d_notify", "d_set", "r_top")
  <2>1. /\ pc' = [pc EXCEPT ![Reader] = pc'[Reader]] /\ k' = [k EXCEPT ![Reader] = k'[Reader]]
        /\ k'[Reader] \in Nat \ {0} /\ UNCHANGED <<ip, batch>>
    BY <1>12, <1>a DEF ReaderNotify
  <2>2. ReaderLoop'
    BY <1>12, <1>a DEF ReaderNotify, ReaderLoop
  <2> QED
    BY <2>1, <2>2, LoopReader
<1> QED
  BY <1>1, <1>2, <1>3, <1>4, <1>5, <1>6, <1>7, <1>8, <1>9, <1>10, <1>11, <1>12
     DEF ReaderThread

\* Every step keeps every loop index within its array.
LEMMA LoopNext ==
  ASSUME Placed, LoopInv, DataTypes, [Next]_vars
  PROVE  LoopInv'
<1>1. CASE \E t \in Procs : Caller(t)
  <2>1. PICK t \in Procs : Caller(t)
    BY <1>1
  <2> QED
    BY <2>1, LoopCaller, LoopWriteRequests
<1>2. CASE WriterThread
  BY <1>2, LoopWriterThread, LoopWriteRequests
<1>3. CASE ReaderThread
  BY <1>3, LoopReaderThread
<1>4. CASE UNCHANGED <<pc, ip, k, batch, readVars>>
  BY <1>4 DEF LoopInv, ReaderLoop, Iterations, InLoop, Calling, Call
<1>5. FpgaExec => UNCHANGED <<pc, ip, k, batch, readVars>>
  BY DEF FpgaExec
<1>6. (\E t \in Threads : SpuriousWake(t)) => UNCHANGED <<pc, ip, k, batch, readVars>>
  BY DEF SpuriousWake
<1>7. Terminated \/ UNCHANGED vars => UNCHANGED <<pc, ip, k, batch, readVars>>
  BY DEF Terminated, vars
<1> QED
  BY <1>1, <1>2, <1>3, <1>4, <1>5, <1>6, <1>7 DEF Next

-----------------------------------------------------------------------------
(* Data                                                                    *)

\* What a step leaves alone keeps its types.
LEMMA TypeFrames ==
  ASSUME DataTypes,
         UNCHANGED lockVars \/ LockTypes',
         UNCHANGED queueVars \/ QueueTypes',
         UNCHANGED countVars \/ CountTypes',
         UNCHANGED condVars \/ CondTypes',
         UNCHANGED reqVars \/ ReqTypes',
         UNCHANGED fpgaVars \/ FpgaTypes',
         UNCHANGED writeVars \/ WriteTypes',
         UNCHANGED readVars \/ ReadTypes'
  PROVE  DataTypes'
<1>1. LockTypes'
  BY DEF DataTypes, LockTypes
<1>2. QueueTypes'
  BY DEF DataTypes, QueueTypes
<1>3. CountTypes'
  BY DEF DataTypes, CountTypes
<1>4. CondTypes'
  BY DEF DataTypes, CondTypes
<1>5. ReqTypes'
  BY DEF DataTypes, ReqTypes
<1>6. FpgaTypes'
  BY DEF DataTypes, FpgaTypes
<1>7. WriteTypes'
  BY DEF DataTypes, WriteTypes
<1>8. ReadTypes'
  BY DEF DataTypes, ReadTypes
<1> QED
  BY <1>1, <1>2, <1>3, <1>4, <1>5, <1>6, <1>7, <1>8 DEF DataTypes

\* The FPGA's queues hold requests and the answers to torn pulses.
LEMMA WriteOpTypes ==
  ASSUME FpgaTypes, NEW t \in Threads, WriteOp(t)
  PROVE  FpgaTypes'
<1>1. latch' \in [part : {"op", "ctrl"}, by : Threads] \cup {None} /\ hold' \in BOOLEAN
  BY DEF WriteOp, FpgaTypes
<1>2. Append(fpga_cmds, Garbage) \in Seq(Req \cup {Garbage})
  BY AppendProperties DEF FpgaTypes
<1>3. fpga_cmds' \in Seq(Req \cup {Garbage}) /\ fpga_out' = fpga_out
  BY <1>2 DEF WriteOp, FpgaTypes
<1> QED
  BY <1>1, <1>3 DEF FpgaTypes

\* The second word makes the pulse, with the results it asks for.
LEMMA WriteCtrlTypes ==
  ASSUME FpgaTypes, NEW t \in Threads, NEW results \in Seq(Req), WriteCtrl(t, results)
  PROVE  FpgaTypes'
<1>1. results \in Seq(Req \cup {Garbage})
  BY SeqMonotonic
<1>2. fpga_cmds \o results \in Seq(Req \cup {Garbage})
  BY <1>1, ConcatProperties DEF FpgaTypes
<1>3. Append(fpga_cmds, Garbage) \in Seq(Req \cup {Garbage})
  BY AppendProperties DEF FpgaTypes
<1>4. latch' \in [part : {"op", "ctrl"}, by : Threads] \cup {None} /\ hold' \in BOOLEAN
  BY DEF WriteCtrl, FpgaTypes
<1>5. fpga_cmds' \in Seq(Req \cup {Garbage})
  BY <1>2, <1>3 DEF WriteCtrl, FpgaTypes
<1>6. fpga_out' = fpga_out
  BY DEF WriteCtrl
<1> QED
  BY <1>4, <1>5, <1>6 DEF FpgaTypes

\* A result is set on a request.
LEMMA SetResTypes ==
  ASSUME ReqTypes, NEW r \in Req, NEW v \in Req \cup {Zero, Garbage}, SetRes(r, v)
  PROVE  ReqTypes'
  BY DEF SetRes, ReqTypes

\* Notifying only wakes threads.
LEMMA NotifyTypes ==
  ASSUME CondTypes, NotifyWriterCond \/ \E b : NotifyBin(b)
  PROVE  CondTypes'
  BY DEF CondTypes, NotifyWriterCond, NotifyBin

\* A counter and a difference of counters are integers of their width.
LEMMA CountWidth ==
  ASSUME NEW n \in Int
  PROVE  Count(n) \in 0 .. Word - 1 /\ Signed(n) \in Int
<1>1. Word \in Nat /\ Word > 0
  BY WordAssumption, BoundAssumption
<1>2. Count(n) \in 0 .. Word - 1
  BY <1>1 DEF Count
<1> QED
  BY <1>1, <1>2 DEF Signed

\* The room for results is an integer, negative when the FPGA owes too many.
LEMMA SpaceTypes == CountTypes => resBuffSpace \in Int
  BY CountWidth, BoundAssumption, WordAssumption DEF CountTypes, resBuffSpace

\* The room for results that writeRequests works with.
LEMMA RoomTypes ==
  ASSUME Placed, CountTypes, NEW t \in Procs \cup {Writer}, resBuffSpace > 0,
         t = Writer \/ Calling(t, "serve")
  PROVE  MinOf(MaxNum(t), resBuffSpace) \in Nat
<1>1. resBuffSpace \in Nat
  BY SpaceTypes
<1>2. CASE t = Writer
  BY <1>1, <1>2, BoundAssumption DEF MaxNum, MinOf
<1>3. CASE t # Writer
  <2>1. t \in Procs /\ ip[t] \in DOMAIN Program[t] /\ Call(t).op = "serve"
    BY <1>3, ProgramAssumption DEF Placed, Calling
  <2>2. Call(t).max \in Nat
    BY <2>1, ProgramAssumption DEF Call
  <2> QED
    BY <1>1, <1>3, <2>2 DEF MaxNum, MinOf
<1> QED
  BY <1>2, <1>3

\* A caller's step keeps the types of the data.
LEMMA DataCaller ==
  ASSUME Placed, LoopInv, DataTypes, NEW t \in Procs, Caller(t), ~WriteRequests(t)
  PROVE  DataTypes'
<1>a. /\ DataTypes /\ LockTypes /\ QueueTypes /\ CountTypes /\ CondTypes
      /\ ReqTypes /\ FpgaTypes /\ WriteTypes /\ ReadTypes
      /\ t \in Threads
  BY DEF DataTypes, Threads
<1>1. CASE Lock(t)
  <2>1. LockTypes'
    BY <1>1, <1>a DEF Lock, LockTypes
  <2> QED
    BY <1>1, <1>a, <2>1, TypeFrames DEF Lock
<1>2. CASE Unlock(t)
  <2>1. LockTypes'
    BY <1>2, <1>a DEF Unlock, LockTypes
  <2> QED
    BY <1>2, <1>a, <2>1, TypeFrames DEF Unlock
<1>3. CASE SetHold(t)
  <2>1. FpgaTypes'
    BY <1>3, <1>a DEF SetHold, FpgaTypes
  <2> QED
    BY <1>3, <1>a, <2>1, TypeFrames DEF SetHold
<1>4. CASE ReleaseHold(t)
  <2>1. FpgaTypes'
    BY <1>4, <1>a DEF ReleaseHold, FpgaTypes
  <2> QED
    BY <1>4, <1>a, <2>1, TypeFrames DEF ReleaseHold
<1>5. CASE WaitFinish(t)
  BY <1>5, <1>a, TypeFrames DEF WaitFinish
<1>6. CASE Pulse(t)
  BY <1>6, <1>a, TypeFrames DEF Pulse
<1>7. CASE ShortPulseOp(t, "pulse_op", "pulse_ctrl")
  <2>1. FpgaTypes'
    BY <1>7, <1>a, WriteOpTypes DEF ShortPulseOp
  <2> QED
    BY <1>7, <1>a, <2>1, TypeFrames DEF ShortPulseOp
<1>8. CASE PulseCtrl(t)
  <2>1. FpgaTypes'
    BY <1>8, <1>a, WriteCtrlTypes, EmptySeq DEF PulseCtrl
  <2> QED
    BY <1>8, <1>a, <2>1, TypeFrames DEF PulseCtrl
<1>9. CASE NewRequest(t)
  <2>a. Current(t) \in Req
    BY <1>9, CallLoop DEF NewRequest, InLoop, LoopLabels
  <2>1. ReqTypes'
    BY <1>9, <1>a, <2>a, BinTypes DEF NewRequest, ReqTypes
  <2> QED
    BY <1>9, <1>a, <2>1, TypeFrames DEF NewRequest
<1>10. CASE PushReq(t)
  <2>a. Current(t) \in Req
    BY <1>10, CallLoop DEF PushReq, InLoop, LoopLabels
  <2>1. QueueTypes'
    BY <1>10, <1>a, <2>a, AppendProperties DEF PushReq, QueueTypes
  <2> QED
    BY <1>10, <1>a, <2>1, TypeFrames DEF PushReq
<1>11. CASE PushReqNotify(t)
  <2>1. CondTypes'
    BY <1>11, <1>a, NotifyTypes DEF PushReqNotify
  <2> QED
    BY <1>11, <1>a, <2>1, TypeFrames DEF PushReqNotify
<1>12. CASE WaitSleep(t)
  <2>1. CondTypes'
    BY <1>12, <1>a DEF WaitSleep, CondTypes
  <2> QED
    BY <1>12, <1>a, <2>1, TypeFrames DEF WaitSleep
<1>13. CASE WaitReady(t)
  <2>1. ReqTypes'
    BY <1>13, <1>a DEF WaitReady, ReqTypes
  <2> QED
    BY <1>13, <1>a, <2>1, TypeFrames DEF WaitReady
<1>14. CASE RunPush(t)
  <2>a. Current(t) \in Req
    BY <1>14, CallLoop DEF RunPush, InLoop, LoopLabels
  <2>1. QueueTypes'
    BY <1>14, <1>a, <2>a, AppendProperties DEF RunPush, QueueTypes
  <2> QED
    BY <1>14, <1>a, <2>1, TypeFrames DEF RunPush
<1>15. CASE HasResSpace(t)
  BY <1>15, <1>a, TypeFrames DEF HasResSpace
<1>16. CASE NoResSpace(t)
  <2>1. CondTypes'
    BY <1>16, <1>a DEF NoResSpace, CondTypes
  <2> QED
    BY <1>16, <1>a, <2>1, TypeFrames DEF NoResSpace
<1>17. CASE RunIncrement(t)
  <2>1. CountTypes'
    BY <1>17, <1>a, CountWidth DEF RunIncrement, CountTypes
  <2> QED
    BY <1>17, <1>a, <2>1, TypeFrames DEF RunIncrement
<1>18. CASE ShortPulseOp(t, "run_op", "run_ctrl")
  <2>1. FpgaTypes'
    BY <1>18, <1>a, WriteOpTypes DEF ShortPulseOp
  <2> QED
    BY <1>18, <1>a, <2>1, TypeFrames DEF ShortPulseOp
<1>19. CASE RunPulseCtrl(t)
  <2>a. Current(t) \in Req
    BY <1>19, CallLoop DEF RunPulseCtrl, InLoop, LoopLabels
  <2>b. <<Current(t)>> \in Seq(Req)
    BY <2>a
  <2>1. FpgaTypes'
    BY <1>19, <1>a, <2>b, WriteCtrlTypes DEF RunPulseCtrl
  <2> QED
    BY <1>19, <1>a, <2>1, TypeFrames DEF RunPulseCtrl
<1>20. CASE Quit(t)
  <2>1. LockTypes'
    BY <1>20, <1>a DEF Quit, LockTypes
  <2> QED
    BY <1>20, <1>a, <2>1, TypeFrames DEF Quit
<1>21. CASE QuitNotify(t)
  <2>1. CondTypes'
    BY <1>21, <1>a, NotifyTypes DEF QuitNotify
  <2> QED
    BY <1>21, <1>a, <2>1, TypeFrames DEF QuitNotify
<1>22. CASE Join(t)
  BY <1>22, <1>a, TypeFrames DEF Join
<1> QED
  BY <1>1, <1>2, <1>3, <1>4, <1>5, <1>6, <1>7, <1>8, <1>9, <1>10, <1>11, <1>12,
     <1>13, <1>14, <1>15, <1>16, <1>17, <1>18, <1>19, <1>20, <1>21, <1>22 DEF Caller

\* A step of writeRequests keeps the types of the data.
LEMMA DataWriteRequests ==
  ASSUME Placed, LoopInv, DataTypes, NEW t \in Procs \cup {Writer}, WriteRequests(t)
  PROVE  DataTypes'
<1>a. /\ DataTypes /\ LockTypes /\ QueueTypes /\ CountTypes /\ CondTypes
      /\ ReqTypes /\ FpgaTypes /\ WriteTypes /\ ReadTypes
      /\ t \in Threads
  BY DEF DataTypes, Threads
<1>b. pc[t] \in WriteLabels => Current(t) \in Req
  BY <1>a, WriteLoop
<1>c. <<>> \in Seq(Req)
  BY EmptySeq
<1>1. CASE WriteSpace(t)
  <2>1. CASE resBuffSpace <= 0 \/ MaxNum(t) = 0
    BY <1>1, <1>a, <2>1, TypeFrames DEF WriteSpace
  <2>2. CASE ~(resBuffSpace <= 0 \/ MaxNum(t) = 0)
    <3>1. resBuffSpace > 0 /\ (t = Writer \/ Calling(t, "serve"))
      BY <1>1, <1>a, <2>2, SpaceTypes
         DEF WriteSpace, Placed, FitsCall, CallerLabels, WriteLabels
    <3>2. MinOf(MaxNum(t), resBuffSpace) \in Nat
      BY <1>a, <3>1, RoomTypes
    <3>3. WriteTypes'
      BY <1>1, <1>a, <2>2, <3>2 DEF WriteSpace, WriteTypes
    <3> QED
      BY <1>1, <1>a, <3>3, TypeFrames DEF WriteSpace
  <2> QED
    BY <2>1, <2>2
<1>2. CASE WritePop(t)
  <2> DEFINE n == MinOf(room[t], Len(m_req_queue))
  <2>a. n \in 0 .. Len(m_req_queue)
    BY <1>a, MinOfLength DEF QueueTypes, WriteTypes
  <2>b. Take(m_req_queue, n) \in Seq(Req) /\ Drop(m_req_queue, n) \in Seq(Req)
    BY <1>a, <2>a, TakeDrop DEF QueueTypes
  <2>1. QueueTypes'
    BY <1>2, <1>a, <2>b DEF WritePop, QueueTypes
  <2>2. WriteTypes'
    BY <1>2, <1>a, <2>b DEF WritePop, WriteTypes
  <2> QED
    BY <1>2, <1>a, <2>1, <2>2, TypeFrames DEF WritePop
<1>3. CASE WritePush(t)
  <2>a. Current(t) \in Req
    BY <1>3, <1>b DEF WritePush, WriteLabels
  <2>1. QueueTypes'
    BY <1>3, <1>a, <2>a, AppendProperties DEF WritePush, QueueTypes
  <2>2. WriteTypes'
    BY <1>3, <1>a, <2>a, AppendProperties DEF WritePush, WriteTypes
  <2> QED
    BY <1>3, <1>a, <2>1, <2>2, TypeFrames DEF WritePush
<1>4. CASE ShortPulseOp(t, "wr_op", "wr_ctrl")
  <2>1. FpgaTypes'
    BY <1>4, <1>a, WriteOpTypes DEF ShortPulseOp
  <2> QED
    BY <1>4, <1>a, <2>1, TypeFrames DEF ShortPulseOp
<1>5. CASE WritePulseCtrl(t)
  <2>a. Current(t) \in Req
    BY <1>5, <1>b DEF WritePulseCtrl, WriteLabels
  <2>b. (IF HasRes[Current(t)] THEN <<Current(t)>> ELSE <<>>) \in Seq(Req)
    BY <1>c, <2>a
  <2>1. FpgaTypes'
    BY <1>5, <1>a, <2>b, WriteCtrlTypes DEF WritePulseCtrl
  <2> QED
    BY <1>5, <1>a, <2>1, TypeFrames DEF WritePulseCtrl
<1>6. CASE WriteHasRes(t)
  <2>1. WriteTypes'
    BY <1>6, <1>a, <1>c DEF WriteHasRes, NextWrite, WriteTypes
  <2> QED
    BY <1>6, <1>a, <2>1, TypeFrames DEF WriteHasRes, NextWrite
<1>7. CASE WriteSetRes(t)
  <2>a. Current(t) \in Req
    BY <1>7, <1>b DEF WriteSetRes, WriteLabels
  <2>1. ReqTypes'
    BY <1>7, <1>a, <2>a, SetResTypes DEF WriteSetRes
  <2> QED
    BY <1>7, <1>a, <2>1, TypeFrames DEF WriteSetRes
<1>8. CASE WriteNotify(t)
  <2>1. CondTypes'
    BY <1>8, <1>a, NotifyTypes DEF WriteNotify
  <2>2. WriteTypes'
    BY <1>8, <1>a, <1>c DEF WriteNotify, NextWrite, WriteTypes
  <2> QED
    BY <1>8, <1>a, <2>1, <2>2, TypeFrames DEF WriteNotify, NextWrite
<1>9. CASE WriteDefer(t)
  <2>a. Current(t) \in Req
    BY <1>9, <1>b DEF WriteDefer, WriteLabels
  <2>1. QueueTypes'
    BY <1>9, <1>a, <2>a, AppendProperties DEF WriteDefer, NextWrite, QueueTypes
  <2>2. WriteTypes'
    BY <1>9, <1>a, <1>c DEF WriteDefer, NextWrite, WriteTypes
  <2> QED
    BY <1>9, <1>a, <2>1, <2>2, TypeFrames DEF WriteDefer, NextWrite
<1>10. CASE LoadWritten(t)
  <2>1. WriteTypes'
    BY <1>10, <1>a DEF LoadWritten, WriteTypes, CountTypes
  <2> QED
    BY <1>10, <1>a, <2>1, TypeFrames DEF LoadWritten
<1>11. CASE StoreWritten(t)
  <2>a. Running(t) => Len(Call(t).reqs) \in Nat
    BY <1>11, CallRequests DEF StoreWritten, Running, Placed, FitsCall, Call
  <2> DEFINE n == seen[t] + IF Running(t) THEN Len(Call(t).reqs) ELSE nret[t]
  <2>b. n \in Int
    BY <1>a, <2>a DEF WriteTypes
  <2>c. m_num_written' = Count(n) /\ m_num_read' = m_num_read
    BY <1>11 DEF StoreWritten
  <2>1. CountTypes'
    BY <1>a, <2>b, <2>c, CountWidth DEF CountTypes
  <2>2. WriteTypes'
    BY <1>11, <1>a DEF StoreWritten, WriteTypes
  <2> QED
    BY <1>11, <1>a, <2>1, <2>2, TypeFrames DEF StoreWritten
<1> QED
  BY <1>1, <1>2, <1>3, <1>4, <1>5, <1>6, <1>7, <1>8, <1>9, <1>10, <1>11 DEF
     WriteRequests

\* A step of the writer thread keeps the types of the data.
LEMMA DataWriterThread ==
  ASSUME Placed, LoopInv, DataTypes, WriterThread, ~WriteRequests(Writer)
  PROVE  DataTypes'
<1>a. /\ DataTypes /\ LockTypes /\ QueueTypes /\ CountTypes /\ CondTypes
      /\ ReqTypes /\ FpgaTypes /\ WriteTypes /\ ReadTypes
      /\ Writer \in Threads
  BY DEF DataTypes, Threads
<1>1. CASE WriterTop
  BY <1>1, <1>a, TypeFrames DEF WriterTop
<1>2. CASE WriterSleep
  <2>1. CondTypes'
    BY <1>2, <1>a DEF WriterSleep, CondTypes
  <2> QED
    BY <1>2, <1>a, <2>1, TypeFrames DEF WriterSleep
<1>3. CASE WriterWake
  BY <1>3, <1>a, TypeFrames DEF WriterWake
<1>4. CASE WriterLock
  <2>1. LockTypes'
    BY <1>4, <1>a DEF WriterLock, LockTypes
  <2> QED
    BY <1>4, <1>a, <2>1, TypeFrames DEF WriterLock
<1>5. CASE WriterUnlock
  <2>1. LockTypes'
    BY <1>5, <1>a DEF WriterUnlock, LockTypes
  <2> QED
    BY <1>5, <1>a, <2>1, TypeFrames DEF WriterUnlock
<1> QED
  BY <1>1, <1>2, <1>3, <1>4, <1>5 DEF WriterThread

\* A step of the reader keeps the types of the data.
LEMMA DataReaderThread ==
  ASSUME Placed, LoopInv, DataTypes, ReaderThread
  PROVE  DataTypes'
<1>a. /\ DataTypes /\ LockTypes /\ QueueTypes /\ CountTypes /\ CondTypes
      /\ ReqTypes /\ FpgaTypes /\ WriteTypes /\ ReadTypes
  BY DEF DataTypes
<1>b. ReaderLoop /\ Len(rd_req) \in Nat /\ Len(rd_res) \in Nat
  BY <1>a, LenProperties DEF LoopInv, ReadTypes
<1>c. \A S : <<>> \in Seq(S)
  BY EmptySeq
<1>1. CASE ReaderTop
  BY <1>1, <1>a, TypeFrames DEF ReaderTop, ReaderGoto
<1>2. CASE ReaderWake
  BY <1>2, <1>a, TypeFrames DEF ReaderWake, ReaderGoto
<1>3. CASE ReaderCheck
  BY <1>3, <1>a, TypeFrames DEF ReaderCheck, ReaderGoto
<1>4. CASE ReadResults
  <2> DEFINE n == MinOf(BufSize, Len(fpga_out))
  <2>a. n \in 0 .. Len(fpga_out)
    BY <1>a, <1>b, MinOfLength, BoundAssumption DEF FpgaTypes
  <2>b. /\ Take(fpga_out, n) \in Seq(Req \cup {Garbage})
        /\ Drop(fpga_out, n) \in Seq(Req \cup {Garbage})
    BY <1>a, <2>a, TakeDrop DEF FpgaTypes
  <2>c. Take(fpga_out, n) \in Seq(Req \cup {Zero, Garbage})
    BY <2>b, SeqMonotonic
  <2>1. FpgaTypes'
    BY <1>4, <1>a, <2>b DEF ReadResults, FpgaTypes
  <2>2. ReadTypes'
    BY <1>4, <1>a, <2>c DEF ReadResults, ReadTypes
  <2> QED
    BY <1>4, <1>a, <2>1, <2>2, TypeFrames DEF ReadResults
<1>5. CASE CountRead
  <2>1. CountTypes'
    BY <1>5, <1>a, <1>b, CountWidth DEF CountRead, CountTypes
  <2> QED
    BY <1>5, <1>a, <2>1, TypeFrames DEF CountRead
<1>6. CASE PopResQueue
  <2> DEFINE n == MinOf(Len(rd_res), Len(m_res_queue))
  <2>a. n \in 0 .. Len(m_res_queue)
    BY <1>a, <1>b, MinOfLength, BoundAssumption DEF QueueTypes
  <2>b. Take(m_res_queue, n) \in Seq(Req) /\ Drop(m_res_queue, n) \in Seq(Req)
    BY <1>a, <2>a, TakeDrop DEF QueueTypes
  <2>1. QueueTypes'
    BY <1>6, <1>a, <2>b DEF PopResQueue, QueueTypes
  <2>2. ReadTypes'
    BY <1>6, <1>a, <2>b DEF PopResQueue, ReadTypes
  <2> QED
    BY <1>6, <1>a, <2>1, <2>2, TypeFrames DEF PopResQueue
<1>7. CASE ReaderNotifyWriter
  <2>1. CondTypes'
    BY <1>7, <1>a, NotifyTypes DEF ReaderNotifyWriter
  <2> QED
    BY <1>7, <1>a, <2>1, TypeFrames DEF ReaderNotifyWriter
<1>8. CASE DumpNotifyQueue
  <2> DEFINE n == MinOf(BufSize, Len(m_notify_queue))
  <2>a. n \in 0 .. Len(m_notify_queue)
    BY <1>a, <1>b, MinOfLength, BoundAssumption DEF QueueTypes
  <2>b. Take(m_notify_queue, n) \in Seq(Req) /\ Drop(m_notify_queue, n) \in Seq(Req)
    BY <1>a, <2>a, TakeDrop DEF QueueTypes
  <2>c. [j \in 1 .. n |-> Zero] \in Seq(Req \cup {Zero, Garbage})
    <3>1. n \in Nat
      BY <1>a, <2>a, LenProperties DEF QueueTypes
    <3> QED
      BY <3>1
  <2>1. QueueTypes'
    BY <1>8, <1>a, <2>b DEF DumpNotifyQueue, QueueTypes
  <2>2. ReadTypes'
    BY <1>8, <1>a, <2>b, <2>c DEF DumpNotifyQueue, ReadTypes
  <2> QED
    BY <1>8, <1>a, <2>1, <2>2, TypeFrames DEF DumpNotifyQueue
<1>9. CASE ReaderSetRes("r_set", "r_notify")
  <2>a. k[Reader] \in 1 .. Len(rd_req) /\ k[Reader] \in 1 .. Len(rd_res)
    BY <1>9, <1>b DEF ReaderSetRes, ReaderLoop
  <2>b. rd_req[k[Reader]] \in Req /\ rd_res[k[Reader]] \in Req \cup {Zero, Garbage}
    BY <1>a, <2>a, ElementOfSeq DEF ReadTypes
  <2>1. ReqTypes'
    BY <1>9, <1>a, <2>b, SetResTypes DEF ReaderSetRes
  <2> QED
    BY <1>9, <1>a, <2>1, TypeFrames DEF ReaderSetRes
<1>10. CASE ReaderNotify("r_notify", "r_set", "r_check")
  <2>1. CondTypes'
    BY <1>10, <1>a, NotifyTypes DEF ReaderNotify
  <2>2. ReadTypes'
    BY <1>10, <1>a, <1>c DEF ReaderNotify, ReadTypes
  <2> QED
    BY <1>10, <1>a, <2>1, <2>2, TypeFrames DEF ReaderNotify
<1>11. CASE ReaderSetRes("d_set", "d_notify")
  <2>a. k[Reader] \in 1 .. Len(rd_req) /\ k[Reader] \in 1 .. Len(rd_res)
    BY <1>11, <1>b DEF ReaderSetRes, ReaderLoop
  <2>b. rd_req[k[Reader]] \in Req /\ rd_res[k[Reader]] \in Req \cup {Zero, Garbage}
    BY <1>a, <2>a, ElementOfSeq DEF ReadTypes
  <2>1. ReqTypes'
    BY <1>11, <1>a, <2>b, SetResTypes DEF ReaderSetRes
  <2> QED
    BY <1>11, <1>a, <2>1, TypeFrames DEF ReaderSetRes
<1>12. CASE ReaderNotify("d_notify", "d_set", "r_top")
  <2>1. CondTypes'
    BY <1>12, <1>a, NotifyTypes DEF ReaderNotify
  <2>2. ReadTypes'
    BY <1>12, <1>a, <1>c DEF ReaderNotify, ReadTypes
  <2> QED
    BY <1>12, <1>a, <2>1, <2>2, TypeFrames DEF ReaderNotify
<1> QED
  BY <1>1, <1>2, <1>3, <1>4, <1>5, <1>6, <1>7, <1>8, <1>9, <1>10, <1>11, <1>12 DEF
     ReaderThread

\* Every step keeps the types of the data.
LEMMA DataNext ==
  ASSUME Placed, LoopInv, DataTypes, [Next]_vars
  PROVE  DataTypes'
<1>1. CASE \E t \in Procs : Caller(t)
  <2>1. PICK t \in Procs : Caller(t)
    BY <1>1
  <2> QED
    BY <2>1, DataCaller, DataWriteRequests
<1>2. CASE WriterThread
  BY <1>2, DataWriterThread, DataWriteRequests
<1>3. CASE ReaderThread
  BY <1>3, DataReaderThread
<1>4. CASE FpgaExec
  <2>1. FpgaTypes /\ fpga_cmds # <<>>
    BY <1>4 DEF FpgaExec, DataTypes
  <2>2. Head(fpga_cmds) \in Req \cup {Garbage} /\ Tail(fpga_cmds) \in Seq(Req \cup {Garbage})
    BY <2>1, HeadTailProperties DEF FpgaTypes
  <2>3. FpgaTypes'
    BY <1>4, <2>1, <2>2, AppendProperties DEF FpgaExec, FpgaTypes
  <2> QED
    BY <1>4, <2>3, TypeFrames DEF FpgaExec
<1>5. CASE \E t \in Threads : SpuriousWake(t)
  <2>1. CondTypes'
    BY <1>5 DEF SpuriousWake, DataTypes, CondTypes
  <2> QED
    BY <1>5, <2>1, TypeFrames DEF SpuriousWake
<1>6. CASE Terminated \/ UNCHANGED vars
  BY <1>6, TypeFrames DEF Terminated, vars
<1> QED
  BY <1>1, <1>2, <1>3, <1>4, <1>5, <1>6 DEF Next

\* The constructors' values have their types.
LEMMA TypeInit == Init => LoopInv /\ DataTypes
<1> SUFFICES ASSUME Init PROVE LoopInv /\ DataTypes
  OBVIOUS
<1>1. k = [t \in Threads |-> 1]
  BY DEF Init
<1>2. \A t \in Procs : InLoop(t) => Len(Call(t).reqs) \in Nat \ {0}
  <2> SUFFICES ASSUME NEW t \in Procs, InLoop(t) PROVE Len(Call(t).reqs) \in Nat \ {0}
    OBVIOUS
  <2>1. pc[t] = "call" /\ ip[t] = 1
    BY ThreadAssumption DEF Init, Threads
  <2>2. ip[t] <= Len(Program[t]) /\ Call(t).op \in {"reqSync", "run"}
    BY <2>1 DEF InLoop, LoopLabels, Calling
  <2> QED
    BY <2>1, <2>2, CallRequests DEF Call
<1>3. \A t \in Procs \cup {Writer} : pc[t] \notin WriteLabels
  BY ThreadAssumption DEF Init, Threads, WriteLabels
<1>4. \A t \in Procs \cup {Writer} : k[t] <= Iterations(t)
  BY <1>1, <1>2, <1>3 DEF Iterations, Threads
<1>5. ReaderLoop
  BY <1>1, ThreadAssumption DEF Init, ReaderLoop, Threads
<1>6. /\ <<>> \in Seq(Req) /\ <<>> \in Seq(Req \cup {Garbage})
      /\ <<>> \in Seq(Req \cup {Zero, Garbage})
  BY EmptySeq
<1>7. LockTypes /\ CountTypes /\ CondTypes
  BY WordAssumption DEF Init, LockTypes, CountTypes, CondTypes
<1>8. ReqTypes
  BY BoundAssumption DEF Init, ReqTypes, Bins
<1>9. QueueTypes /\ FpgaTypes
  BY <1>6 DEF Init, QueueTypes, FpgaTypes
<1>10. WriteTypes /\ ReadTypes
  BY <1>6 DEF Init, WriteTypes, ReadTypes
<1> QED
  BY <1>1, <1>4, <1>5, <1>7, <1>8, <1>9, <1>10 DEF LoopInv, DataTypes

\* TypeOK: whatever the threads, the programs and the bounds, every member and
\* local keeps its type: no queue holds a null request, no counter is negative,
\* no bin lies outside m_cond_vars.
THEOREM TypesAreCorrect == Spec => []TypeOK
<1>1. Init => TypeInv
  BY PlacedInit, TypeInit DEF TypeInv
<1>2. TypeInv /\ [Next]_vars => TypeInv'
  BY PlacedNext, LoopNext, DataNext DEF TypeInv
<1>3. TypeInv => TypeOK
  BY DEF TypeInv, TypeOK, Placed, LoopInv, DataTypes
<1> QED
  BY <1>1, <1>2, <1>3, PTL DEF Spec

-----------------------------------------------------------------------------
(* ResultBufferBound and BatchFits: the two counters, which wrap, and which *)
(* two threads update each late, never let the FPGA owe more results than   *)
(* its buffer takes.                                                        *)

Workers == Procs \cup {Writer}

\* The thread that may write pulses; when none may, any that does nothing.
Holder == IF m_lock = None THEN Writer ELSE m_lock

\* The labels between the check for room and the count of what was written.
CountLabels == WriteLabels \cup {"load", "store"}
WorkLabels  == CountLabels \cup {"wr_pop", "run_op", "run_ctrl", "run_inc"}

\* Results t has written, or popped to write at once, and not counted.
Uncounted(t) ==
  IF pc[t] \in {"run_op", "run_ctrl"} THEN k[t] - 1
  ELSE IF pc[t] = "run_inc" THEN 1
  ELSE IF pc[t] \in {"load", "store"} /\ Running(t) THEN Len(Call(t).reqs)
  ELSE IF pc[t] \in {"wr_op", "wr_ctrl"} /\ HasRes[Current(t)] THEN nret[t] - 1
  ELSE nret[t]

\* Results t may still write on the strength of the room it found.
Planned(t) ==
  IF pc[t] = "wr_pop" THEN room[t]
  ELSE IF pc[t] \in {"wr_push", "wr_op", "wr_ctrl"} THEN Len(batch[t]) - k[t] + 1
  ELSE IF pc[t] \in {"wr_check", "wr_notify"} THEN Len(batch[t]) - k[t]
  ELSE IF pc[t] \in {"run_op", "run_ctrl"} THEN Len(Call(t).reqs) - k[t] + 1
  ELSE 0

\* Results the FPGA owes or holds, or the reader has taken and not counted.
InReader    == IF pc[Reader] = "r_count" THEN Len(rd_res) ELSE 0
Outstanding == Len(fpga_out) + Len(fpga_cmds) + InReader

\* The difference of the counters is off by what t has not counted, and there
\* is room for what t plans.
Balanced(t) ==
  /\ Count(m_num_written + Uncounted(t) - m_num_read) = Outstanding
  /\ Outstanding + Planned(t) <= MaxWrite

Local(t) ==
  /\ pc[t] \notin CountLabels => nret[t] = 0
  /\ pc[t] = "store" => seen[t] = m_num_written
  /\ pc[t] = "wr_push" => HasRes[Current(t)]
  /\ room[t] <= MaxWrite /\ Len(batch[t]) <= MaxWrite

CountInv == \A t \in Workers : Local(t) /\ (t = Holder => Balanced(t))

-----------------------------------------------------------------------------
(* Counters that wrap                                                      *)

\* A counter and the number it stands for differ by whole turns.
LEMMA CountTurns ==
  ASSUME NEW n \in Int
  PROVE  Count(n) \in 0 .. Word - 1 /\ \E q \in Int : n = Count(n) + q * Word
<1>1. Word \in Nat /\ Word > 0
  BY WordAssumption, BoundAssumption
<1>2. n = Word * (n \div Word) + (n % Word)
  BY <1>1
<1>3. n \div Word \in Int /\ n % Word \in 0 .. Word - 1
  BY <1>1
<1>4. n = (n % Word) + (n \div Word) * Word
  BY <1>1, <1>2, <1>3
<1> QED
  BY <1>3, <1>4 DEF Count

\* Whole turns do not change a counter.
LEMMA CountUnique ==
  ASSUME NEW m \in 0 .. Word - 1, NEW q \in Int
  PROVE  Count(m + q * Word) = m
<1>1. Word \in Nat /\ Word > 0
  BY WordAssumption, BoundAssumption
<1>2. m + q * Word \in Int
  BY <1>1
<1>3. PICK p \in Int : m + q * Word = Count(m + q * Word) + p * Word
  BY <1>2, CountTurns
<1> DEFINE r == Count(m + q * Word)
<1>4. r \in 0 .. Word - 1
  BY <1>2, CountTurns
<1>5. m + q * Word = r + p * Word
  BY <1>3
<1> HIDE DEF r
<1>6. m - r = (p - q) * Word
  BY <1>1, <1>4, <1>5
<1>7. CASE p > q
  <2>1. (p - q) * Word >= Word
    BY <1>1, <1>7
  <2> QED
    BY <1>1, <1>4, <1>6, <2>1
<1>8. CASE p < q
  <2>1. (q - p) * Word >= Word
    BY <1>1, <1>8
  <2>2. r - m = (q - p) * Word
    BY <1>1, <1>4, <1>6
  <2> QED
    BY <1>1, <1>4, <2>1, <2>2
<1>9. CASE p = q
  BY <1>1, <1>4, <1>6, <1>9 DEF r
<1> QED
  BY <1>7, <1>8, <1>9

\* A number may be reduced before or after another is added or taken away.
LEMMA CountSum ==
  ASSUME NEW a \in Int, NEW b \in Int
  PROVE  Count(Count(a) + b) = Count(a + b) /\ Count(b - Count(a)) = Count(b - a)
<1>1. Word \in Nat /\ Count(a) \in Int
  BY WordAssumption, CountTurns
<1>2. PICK q \in Int : a = Count(a) + q * Word
  BY CountTurns
<1>3. PICK p \in Int : a + b = Count(a + b) + p * Word
  BY CountTurns
<1>4. PICK p2 \in Int : b - a = Count(b - a) + p2 * Word
  BY CountTurns
<1>5. Count(a + b) \in 0 .. Word - 1 /\ Count(b - a) \in 0 .. Word - 1
  BY CountTurns
<1>6. Count(a) + b = Count(a + b) + (p - q) * Word
  BY <1>1, <1>2, <1>3, <1>5
<1>7. b - Count(a) = Count(b - a) + (p2 + q) * Word
  BY <1>1, <1>2, <1>4, <1>5
<1>8. Count(Count(a) + b) = Count(a + b)
  BY <1>5, <1>6, CountUnique
<1>9. Count(b - Count(a)) = Count(b - a)
  BY <1>5, <1>7, CountUnique
<1> QED
  BY <1>8, <1>9

\* Within a turn, counters are numbers.
LEMMA CountExact ==
  ASSUME NEW a \in Int, NEW b \in Int, Count(a) + b \in 0 .. Word - 1
  PROVE  Count(a + b) = Count(a) + b
<1>1. ASSUME NEW m \in 0 .. Word - 1 PROVE Count(m) = m
  <2>1. Word \in Nat /\ m + 0 * Word = m
    BY WordAssumption
  <2>2. Count(m + 0 * Word) = m
    BY CountUnique
  <2> QED
    BY <2>1, <2>2
<1> QED
  BY <1>1, CountSum

\* The room for results that resBuffSpace computes is the room there is.
LEMMA SpaceExact ==
  ASSUME CountTypes, NEW o \in 0 .. MaxWrite,
         Count(m_num_written - m_num_read) = o
  PROVE  resBuffSpace = MaxWrite - o
<1>1. /\ Word \in Nat /\ MaxWrite \in Nat /\ Word > 2 * MaxWrite
      /\ m_num_written \in Int /\ m_num_read \in Int
  BY WordAssumption, BoundAssumption DEF CountTypes
<1>a. m_num_written - m_num_read \in Int
  BY <1>1
<1>2. PICK q \in Int : m_num_written - m_num_read = o + q * Word
  BY <1>a, CountTurns
<1>3. MaxWrite - m_num_written + m_num_read = (MaxWrite - o) + (-q) * Word
  BY <1>1, <1>2
<1>4. MaxWrite - o \in 0 .. Word - 1 /\ -q \in Int
  BY <1>1
<1>5. Count(MaxWrite - m_num_written + m_num_read) = MaxWrite - o
  BY <1>3, <1>4, CountUnique
<1> QED
  BY <1>1, <1>5 DEF resBuffSpace, Signed

-----------------------------------------------------------------------------
(* Who counts                                                              *)

\* Whoever has looked for room and not counted holds the controller lock.
LEMMA WorkHolder ==
  ASSUME Disciplined, Placed, LockInv, NEW t \in Workers,
         \/ pc[t] \in WorkLabels \cup {"run_push", "run_space", "wr_space"}
         \/ Calling(t, "serve") \/ Calling(t, "run")
  PROVE  m_lock = t /\ Holder = t
<1>1. CASE t = Writer
  BY <1>1, ThreadAssumption
     DEF LockInv, Placed, WriterLabels, WriteLabels, CountLabels, WorkLabels,
         HoldingLabels, Calling, Holder, Threads
<1>2. CASE t \in Procs
  <2>1. ip[t] \in DOMAIN Program[t] /\ Call(t).op \in LockedOps
    BY <1>2, ProgramAssumption
       DEF Placed, FitsCall, Call, Calling, RunLabels, ServeLabels, WriteLabels,
           CountLabels, WorkLabels, LockedOps, CallerLabels
  <2>2. m_lock = t
    BY <1>2, <2>1 DEF Disciplined, LockInv, Call
  <2> QED
    BY <1>2, <2>2, ThreadAssumption DEF Holder, Threads
<1> QED
  BY <1>1, <1>2 DEF Workers

\* The holder is a caller or the writer thread.
LEMMA HolderIsWorker == LockInv => Holder \in Workers
  BY DEF LockInv, Holder, Workers

\* The quantities that are counted are integers, and a plan is not negative.
LEMMA CountsTypes ==
  ASSUME TypeInv, NEW t \in Workers
  PROVE  /\ Uncounted(t) \in Int /\ Planned(t) \in Nat /\ Outstanding \in Nat
         /\ MaxWrite \in Nat /\ Word \in Nat /\ Word > 2 * MaxWrite
         /\ m_num_written \in 0 .. Word - 1 /\ m_num_read \in 0 .. Word - 1
         /\ Len(fpga_out) \in Nat /\ Len(fpga_cmds) \in Nat /\ InReader \in Nat
         /\ k[t] \in Nat \ {0} /\ room[t] \in Nat /\ nret[t] \in Nat
<1> USE DEF Workers, TypeInv
<1>a. /\ WriteTypes /\ FpgaTypes /\ ReadTypes /\ CountTypes /\ LoopInv /\ Placed
      /\ t \in Threads
  BY DEF DataTypes, Threads
<1>1. /\ MaxWrite \in Nat /\ Word \in Nat /\ Word > 2 * MaxWrite
      /\ m_num_written \in 0 .. Word - 1 /\ m_num_read \in 0 .. Word - 1
  BY <1>a, BoundAssumption, WordAssumption DEF CountTypes
<1>2. /\ Len(fpga_out) \in Nat /\ Len(fpga_cmds) \in Nat /\ Len(rd_res) \in Nat
  BY <1>a DEF FpgaTypes, ReadTypes
<1>3. InReader \in Nat /\ Outstanding \in Nat
  <2>1. InReader \in Nat
    BY <1>2 DEF InReader
  <2> QED
    BY <1>2, <2>1 DEF Outstanding
<1>4. k[t] \in Nat \ {0} /\ room[t] \in Nat /\ nret[t] \in Nat
  BY <1>a DEF LoopInv, WriteTypes
<1>5. pc[t] \in WriteLabels => Len(batch[t]) \in Nat /\ k[t] <= Len(batch[t])
  BY <1>a, WriteLoop
<1>6. pc[t] \in {"run_op", "run_ctrl"} => Len(Call(t).reqs) \in Nat /\ k[t] <= Len(Call(t).reqs)
  <2> SUFFICES ASSUME pc[t] \in {"run_op", "run_ctrl"}
               PROVE  Len(Call(t).reqs) \in Nat /\ k[t] <= Len(Call(t).reqs)
    OBVIOUS
  <2>1. t \in Procs /\ InLoop(t)
    BY <1>a DEF Placed, WriterLabels, WriteLabels, InLoop, LoopLabels
  <2> QED
    BY <1>a, <2>1, CallLoop
<1>7. pc[t] \in {"load", "store"} /\ Running(t) => Len(Call(t).reqs) \in Nat
  BY <1>a, CallRequests DEF Running, Placed, FitsCall, Call
<1>8. Planned(t) \in Nat
  BY <1>4, <1>5, <1>6 DEF Planned, WriteLabels
<1>9. Uncounted(t) \in Int
  BY <1>4, <1>7 DEF Uncounted
<1> QED
  BY <1>1, <1>2, <1>3, <1>4, <1>8, <1>9

-----------------------------------------------------------------------------
(* What a step leaves alone                                                *)

\* No worker but t is touched.
Alone(t) ==
  \A u \in Workers \ {t} :
    /\ pc'[u] = pc[u] /\ k'[u] = k[u] /\ (u \in Procs => ip'[u] = ip[u])
    /\ batch'[u] = batch[u] /\ room'[u] = room[u]
    /\ nret'[u] = nret[u] /\ seen'[u] = seen[u]

\* What another thread does not change stays counted as it was ...
LEMMA AloneCounts ==
  ASSUME Placed, NEW t, Alone(t), NEW u \in Workers \ {t}
  PROVE  Uncounted(u)' = Uncounted(u) /\ Planned(u)' = Planned(u)
<1>1. CASE u \in Procs
  <2>1. Call(u)' = Call(u)
    BY <1>1 DEF Alone, Call
  <2>2. Requests(u)' = Requests(u)
    BY <2>1 DEF Alone, Requests
  <2>3. Current(u)' = Current(u) /\ Running(u)' = Running(u)
    BY <2>1, <2>2 DEF Alone, Current, Running
  <2> QED
    BY <2>1, <2>3 DEF Alone, Uncounted, Planned
<1>2. CASE u = Writer
  <2>1. pc[u] \notin {"run_op", "run_ctrl", "run_inc"}
    BY <1>2 DEF Placed, WriterLabels, WriteLabels
  <2>2. pc[u] \in WriteLabels => Current(u)' = Current(u)
    BY DEF Alone, Current, Requests
  <2> QED
    BY <1>2, <2>1, <2>2 DEF Alone, Uncounted, Planned, Running, WriteLabels
<1> QED
  BY <1>1, <1>2 DEF Workers

\* ... and its locals keep what holds of them.
LEMMA AloneLocal ==
  ASSUME Placed, NEW t, Alone(t), NEW u \in Workers \ {t}, Local(u),
         m_num_written' = m_num_written \/ pc[u] # "store"
  PROVE  Local(u)'
<1>1. pc[u] \in WriteLabels => Current(u)' = Current(u)
  BY DEF Alone, Current, Requests
<1> QED
  BY <1>1 DEF Alone, Local, WriteLabels

\* A step of t that writes and counts nothing, and plans no more than before.
LEMMA CountQuiet ==
  ASSUME TypeInv, LockInv, CountInv, NEW t \in Workers, Alone(t),
         UNCHANGED <<m_lock, countVars>>, Outstanding' = Outstanding,
         Uncounted(t)' = Uncounted(t), Planned(t)' \in Int, Planned(t)' <= Planned(t),
         Local(t)'
  PROVE  CountInv'
<1>1. Holder' = Holder
  BY DEF Holder
<1> SUFFICES ASSUME NEW h \in Workers
             PROVE  Local(h)' /\ (h = Holder => Balanced(h)')
  BY <1>1 DEF CountInv
<1>2. Local(h)'
  BY AloneLocal DEF CountInv, TypeInv
<1>3. Uncounted(h)' = Uncounted(h) /\ Planned(h)' \in Int /\ Planned(h)' <= Planned(h)
  <2>1. CASE h = t
    BY <2>1
  <2>2. CASE h # t
    BY <2>2, AloneCounts, CountsTypes DEF TypeInv
  <2> QED
    BY <2>1, <2>2
<1>4. ASSUME h = Holder PROVE Balanced(h)'
  <2>1. Balanced(h) /\ Planned(h) \in Nat /\ Outstanding \in Nat
    BY <1>4, CountsTypes DEF CountInv
  <2>2. Planned(h)' <= Planned(h) /\ Planned(h)' \in Int /\ MaxWrite \in Nat
    BY <1>3, BoundAssumption
  <2> QED
    BY <1>3, <2>1, <2>2 DEF Balanced
<1> QED
  BY <1>2, <1>4, Zenon

\* A step of the holder of the lock.
LEMMA CountHolder ==
  ASSUME Disciplined, TypeInv, LockInv, CountInv, NEW t \in Workers, Alone(t),
         m_lock = t, UNCHANGED m_lock, Balanced(t)', Local(t)'
  PROVE  CountInv'
<1>1. Holder = t /\ Holder' = t
  BY ThreadAssumption DEF Holder, Workers, Threads
<1>2. \A u \in Workers \ {t} : pc[u] # "store"
  BY WorkHolder DEF WorkLabels, CountLabels, TypeInv
<1>3. \A u \in Workers : Local(u)'
  BY <1>2, AloneLocal DEF CountInv, TypeInv
<1> QED
  BY <1>1, <1>3 DEF CountInv

\* A step of the FPGA or of the reader.
LEMMA CountOther ==
  ASSUME TypeInv, LockInv, CountInv, Alone(Reader),
         UNCHANGED <<m_lock, m_num_written>>,
         \/ UNCHANGED m_num_read /\ Outstanding' = Outstanding
         \/ Outstanding' <= Outstanding /\ Outstanding' \in Nat
            /\ m_num_read' = Count(m_num_read + Outstanding - Outstanding')
  PROVE  CountInv'
<1>1. Holder' = Holder /\ Reader \notin Workers
  BY ThreadAssumption DEF Holder, Workers
<1> SUFFICES ASSUME NEW h \in Workers
             PROVE  Local(h)' /\ (h = Holder => Balanced(h)')
  BY <1>1 DEF CountInv
<1>2. Local(h)'
  BY <1>1, AloneLocal DEF CountInv, TypeInv
<1>3. Uncounted(h)' = Uncounted(h) /\ Planned(h)' = Planned(h)
  BY <1>1, AloneCounts DEF TypeInv
<1> SUFFICES ASSUME h = Holder PROVE Balanced(h)'
  BY <1>2
<1>4. /\ Uncounted(h) \in Int /\ Planned(h) \in Nat /\ Outstanding \in Nat
      /\ MaxWrite \in Nat /\ Word \in Nat /\ Word > 2 * MaxWrite
      /\ m_num_written \in Int /\ m_num_read \in Int
  BY <1>1, CountsTypes
<1>b. Count(m_num_written + Uncounted(h) - m_num_read) = Outstanding
      /\ Outstanding + Planned(h) <= MaxWrite
  BY DEF CountInv, Balanced
<1>5. CASE UNCHANGED m_num_read /\ Outstanding' = Outstanding
  BY <1>3, <1>5, <1>b DEF Balanced
<1>6. CASE /\ Outstanding' <= Outstanding /\ Outstanding' \in Nat
           /\ m_num_read' = Count(m_num_read + Outstanding - Outstanding')
  <2> DEFINE d == Outstanding' - Outstanding
             a == m_num_written + Uncounted(h)
             b == m_num_read - d
  <2>1. a \in Int /\ b \in Int /\ d \in Int /\ a - m_num_read \in Int
    BY <1>4, <1>6
  <2>2. Count(a - m_num_read) + d = Outstanding' /\ Outstanding' \in 0 .. Word - 1
    BY <1>4, <1>6, <1>b
  <2> DEFINE c == a - m_num_read
  <2>3. Count(c + d) = Outstanding'
    <3>1. c \in Int /\ d \in Int /\ Count(c) + d \in 0 .. Word - 1
      BY <2>1, <2>2
    <3> HIDE DEF c, d
    <3>2. Count(c + d) = Count(c) + d
      BY <3>1, CountExact
    <3> QED
      BY <2>2, <3>2 DEF c
  <2>4. m_num_read' = Count(b)
    <3>1. b = m_num_read + Outstanding - Outstanding'
      BY <1>4, <1>6
    <3> QED
      BY <1>6, <3>1
  <2>5. Count(a - Count(b)) = Count(a - b)
    BY <2>1, CountSum
  <2>6. a - b = (a - m_num_read) + d
    BY <1>4, <2>1
  <2>7. Count(a - m_num_read') = Outstanding'
    BY <2>3, <2>4, <2>5, <2>6
  <2>8. Outstanding' + Planned(h) <= MaxWrite
    BY <1>4, <1>6, <1>b
  <2>9. m_num_written' + Uncounted(h)' - m_num_read' = a - m_num_read'
    <3>1. m_num_written' = m_num_written
      OBVIOUS
    <3>2. m_num_read' \in Int
      BY <2>1, <2>4, CountTurns
    <3> QED
      BY <1>3, <1>4, <3>1, <3>2
  <2>10. Count(m_num_written' + Uncounted(h)' - m_num_read') = Outstanding'
    BY <2>7, <2>9
  <2>11. Outstanding' + Planned(h)' <= MaxWrite
    BY <1>3, <2>8
  <2> QED
    BY <2>10, <2>11 DEF Balanced, Count
<1> QED
  BY <1>5, <1>6

\* A step of one thread.
LEMMA AloneStep ==
  ASSUME TypeInv, NEW t \in Workers,
         pc' = [pc EXCEPT ![t] = pc'[t]], k' = [k EXCEPT ![t] = k'[t]],
         \A u \in Procs \ {t} : ip'[u] = ip[u],
         batch' = [batch EXCEPT ![t] = batch'[t]], room' = [room EXCEPT ![t] = room'[t]],
         nret' = [nret EXCEPT ![t] = nret'[t]], seen' = [seen EXCEPT ![t] = seen'[t]]
  PROVE  Alone(t) /\ pc'[Reader] = pc[Reader]
<1>1. /\ pc \in [Threads -> CallerLabels \cup WriterLabels \cup ReaderLabels]
      /\ k \in [Threads -> Nat \ {0}] /\ WriteTypes
      /\ Workers \subseteq Threads /\ Reader \in Threads /\ Reader # t
  BY ThreadAssumption DEF TypeInv, Placed, LoopInv, DataTypes, Workers, Threads
<1> QED
  BY <1>1 DEF Alone, WriteTypes

\* A step that leaves the FPGA's results and the reader where they are.
LEMMA SameOutstanding ==
  ASSUME UNCHANGED <<fpga_out, rd_res>>, Len(fpga_cmds') = Len(fpga_cmds),
         pc'[Reader] = pc[Reader]
  PROVE  Outstanding' = Outstanding
  BY DEF Outstanding, InReader

\* Outside its work, a thread has nothing to count and plans nothing.
LEMMA IdleCounts ==
  ASSUME NEW t, pc[t] \notin WorkLabels
  PROVE  Uncounted(t) = nret[t] /\ Planned(t) = 0
  BY DEF WorkLabels, CountLabels, WriteLabels, Uncounted, Planned

\* A step of a thread outside its work.
LEMMA CountIdle ==
  ASSUME TypeInv, LockInv, CountInv, NEW t \in Workers,
         UNCHANGED <<m_lock, countVars, writeVars, fpga_out, rd_res>>,
         Len(fpga_cmds') = Len(fpga_cmds),
         pc' = [pc EXCEPT ![t] = pc'[t]], k' = [k EXCEPT ![t] = k'[t]],
         \A u \in Procs \ {t} : ip'[u] = ip[u],
         pc[t] \notin WorkLabels, pc'[t] \notin WorkLabels
  PROVE  CountInv'
<1>1. WriteTypes /\ t \in Threads
  BY DEF TypeInv, DataTypes, Workers, Threads
<1>2. Alone(t) /\ pc'[Reader] = pc[Reader]
  BY <1>1, AloneStep DEF WriteTypes
<1>3. Outstanding' = Outstanding
  BY <1>2, SameOutstanding
<1>4. Uncounted(t) = nret[t] /\ Planned(t) = 0
  BY IdleCounts
<1>5. Uncounted(t)' = nret'[t] /\ Planned(t)' = 0
  BY DEF WorkLabels, CountLabels, WriteLabels, Uncounted, Planned
<1>6. Local(t)'
  BY DEF CountInv, Local, WorkLabels, CountLabels, WriteLabels
<1> QED
  BY <1>2, <1>3, <1>4, <1>5, <1>6, CountQuiet

\* The lock passes between threads that do nothing.
LEMMA CountLock ==
  ASSUME TypeInv, LockInv, LockInv', CountInv, NEW t \in Workers,
         UNCHANGED <<countVars, writeVars, fpgaVars, rd_res>>,
         pc' = [pc EXCEPT ![t] = pc'[t]], k' = [k EXCEPT ![t] = k'[t]],
         \A u \in Procs \ {t} : ip'[u] = ip[u],
         pc[t] \notin WorkLabels, pc'[t] \notin WorkLabels,
         \/ m_lock = None /\ m_lock' = t
         \/ m_lock = t /\ m_lock' = None
  PROVE  CountInv'
<1>1. WriteTypes /\ t \in Threads
  BY DEF TypeInv, DataTypes, Workers, Threads
<1>2. Alone(t) /\ pc'[Reader] = pc[Reader]
  BY <1>1, AloneStep DEF WriteTypes
<1>3. Outstanding' = Outstanding
  BY <1>2, SameOutstanding
<1>4. t # None /\ Holder \in {t, Writer} /\ Holder' \in {t, Writer}
  BY <1>1, ThreadAssumption DEF Holder
<1>5. Writer \in Workers /\ Writer \in Threads
  BY DEF Workers, Threads
<1>6. pc[Writer] \notin WorkLabels /\ pc'[Writer] \notin WorkLabels
  <2>1. CASE t = Writer
    BY <2>1
  <2>2. CASE t # Writer
    <3>1. pc[Writer] \notin HoldingLabels
      BY <1>4, <1>5, <2>2, ThreadAssumption DEF LockInv
    <3>2. pc[Writer] \in WriterLabels /\ pc'[Writer] = pc[Writer]
      BY <1>2, <1>5, <2>2 DEF TypeInv, Placed, Alone
    <3> QED
      BY <3>1, <3>2 DEF HoldingLabels, WorkLabels, CountLabels, WriterLabels, WriteLabels
  <2> QED
    BY <2>1, <2>2
<1>7. \A u \in {t, Writer} : /\ Uncounted(u) = 0 /\ Planned(u) = 0
                             /\ Uncounted(u)' = 0 /\ Planned(u)' = 0
  <2> SUFFICES ASSUME NEW u \in {t, Writer}
               PROVE  /\ Uncounted(u) = 0 /\ Planned(u) = 0
                      /\ Uncounted(u)' = 0 /\ Planned(u)' = 0
    OBVIOUS
  <2>1. u \in Workers /\ pc[u] \notin WorkLabels /\ pc'[u] \notin WorkLabels
    BY <1>5, <1>6
  <2>2. nret[u] = 0 /\ nret'[u] = 0
    BY <2>1 DEF CountInv, Local, WorkLabels
  <2>3. Uncounted(u) = 0 /\ Planned(u) = 0
    BY <2>1, <2>2, IdleCounts
  <2> QED
    BY <2>1, <2>2, <2>3 DEF WorkLabels, CountLabels, WriteLabels, Uncounted, Planned
<1>8. \A u \in Workers : Local(u)'
  <2>1. Local(t)'
    BY DEF CountInv, Local, WorkLabels, CountLabels, WriteLabels
  <2> QED
    BY <1>2, <2>1, AloneLocal DEF CountInv, TypeInv
<1>9. \A u \in {t, Writer} : Balanced(u)'
  <2>1. PICK h \in {t, Writer} : h = Holder
    BY <1>4
  <2>2. Balanced(h) /\ h \in Workers
    BY <1>5, <2>1 DEF CountInv
  <2> QED
    BY <1>3, <1>7, <2>1, <2>2 DEF Balanced
<1> QED
  BY <1>4, <1>8, <1>9 DEF CountInv

\* t writes a pulse that returns b results.
LEMMA CountWritten ==
  ASSUME TypeInv, NEW t \in Workers, Balanced(t), UNCHANGED countVars, NEW b \in {0, 1},
         Uncounted(t)' = Uncounted(t) + b, Outstanding' = Outstanding + b,
         Planned(t)' \in Nat, Planned(t)' + b <= Planned(t)
  PROVE  Balanced(t)'
<1>1. /\ Uncounted(t) \in Int /\ Planned(t) \in Nat /\ Outstanding \in Nat
      /\ MaxWrite \in Nat /\ Word \in Nat /\ Word > 2 * MaxWrite
      /\ m_num_written \in Int /\ m_num_read \in Int
  BY CountsTypes
<1> DEFINE a == m_num_written + Uncounted(t) - m_num_read
<1>2. Count(a) = Outstanding /\ Outstanding + Planned(t) <= MaxWrite
  BY DEF Balanced
<1>3. a \in Int /\ b \in Int /\ Count(a) + b \in 0 .. Word - 1
  BY <1>1, <1>2
<1>4. m_num_written' + Uncounted(t)' - m_num_read' = a + b
  BY <1>1
<1> HIDE DEF a
<1>5. Count(a + b) = Outstanding + b
  BY <1>2, <1>3, CountExact
<1>6. Count(m_num_written' + Uncounted(t)' - m_num_read') = Outstanding'
  BY <1>4, <1>5
<1>7. Outstanding' + Planned(t)' <= MaxWrite
  BY <1>1, <1>2
<1> QED
  BY <1>6, <1>7 DEF Balanced, Count

\* t adds what it wrote to m_num_written.
LEMMA CountStored ==
  ASSUME TypeInv, NEW t \in Workers, Balanced(t),
         m_num_written' = Count(m_num_written + Uncounted(t)), UNCHANGED m_num_read,
         Uncounted(t)' = 0, Outstanding' = Outstanding, Planned(t)' = 0
  PROVE  Balanced(t)'
<1>1. /\ Uncounted(t) \in Int /\ Planned(t) \in Nat /\ Outstanding \in Nat
      /\ MaxWrite \in Nat /\ m_num_written \in Int /\ m_num_read \in Int
  BY CountsTypes
<1> DEFINE a == m_num_written + Uncounted(t)
<1>2. Count(m_num_written + Uncounted(t) - m_num_read) = Outstanding
      /\ Outstanding + Planned(t) <= MaxWrite
  BY DEF Balanced
<1>3. a \in Int /\ -m_num_read \in Int
  BY <1>1
<1>4. Count(a) \in Int
  BY <1>3, WordAssumption, CountTurns
<1>5. m_num_written' + Uncounted(t)' - m_num_read' = Count(a) + (-m_num_read)
  BY <1>1, <1>4
<1>6. m_num_written + Uncounted(t) - m_num_read = a + (-m_num_read)
  BY <1>1
<1> HIDE DEF a
<1>7. Count(Count(a) + (-m_num_read)) = Count(a + (-m_num_read))
  BY <1>3, CountSum
<1>8. Count(m_num_written' + Uncounted(t)' - m_num_read') = Outstanding'
  BY <1>2, <1>5, <1>6, <1>7
<1>9. Outstanding' + Planned(t)' <= MaxWrite
  BY <1>1, <1>2
<1> QED
  BY <1>8, <1>9 DEF Balanced, Count

-----------------------------------------------------------------------------
(* The steps of the callers                                                *)

\* An operand finds the latch empty, a control word its own operand.
LEMMA LatchFor ==
  ASSUME Disciplined, Placed, LockInv, PulseInv, NEW t \in Threads, pc[t] \in PulseLabels
  PROVE  /\ pc[t] \notin CtrlLabels => latch = None
         /\ pc[t] \in CtrlLabels => latch # None /\ latch = [part |-> "op", by |-> t]
<1>1. \A u \in Threads : pc[u] \in PulseLabels => m_lock = u
  BY PulseHolder
<1>2. CASE pc[t] \notin CtrlLabels
  <2>1. \A u \in Threads : pc[u] \notin CtrlLabels
    BY <1>1, <1>2 DEF PulseLabels, CtrlLabels
  <2>2. latch # None => latch.by \in Threads
    BY DEF PulseInv
  <2> QED
    BY <1>2, <2>1, <2>2 DEF PulseInv, WholePulses
<1>3. CASE pc[t] \in CtrlLabels
  <2>1. latch = [part |-> "op", by |-> t]
    BY <1>3 DEF PulseInv, WholePulses
  <2>2. [part |-> "op", by |-> t] # None
    BY ThreadAssumption
  <2> QED
    BY <1>3, <2>1, <2>2
<1> QED
  BY <1>2, <1>3

\* A step of the pulse's operand writes no pulse.
LEMMA OperandStep ==
  ASSUME Disciplined, Placed, LockInv, PulseInv, NEW t \in Threads, NEW from, NEW to,
         ShortPulseOp(t, from, to), from \in PulseLabels \ CtrlLabels
  PROVE  UNCHANGED <<fpga_cmds, fpga_out>>
  BY LatchFor DEF ShortPulseOp, WriteOp

\* A step of the control word adds the pulse's results to those owed.
LEMMA ControlStep ==
  ASSUME Disciplined, TypeInv, LockInv, PulseInv, NEW t \in Threads,
         NEW results \in Seq(Req), WriteCtrl(t, results), pc[t] \in CtrlLabels
  PROVE  /\ UNCHANGED fpga_out /\ fpga_cmds' = fpga_cmds \o results
         /\ Len(fpga_cmds') = Len(fpga_cmds) + Len(results)
<1>1. latch # None /\ latch = [part |-> "op", by |-> t]
  BY LatchFor DEF TypeInv, CtrlLabels, PulseLabels
<1>2. UNCHANGED fpga_out /\ fpga_cmds' = fpga_cmds \o results
  BY <1>1 DEF WriteCtrl
<1>3. fpga_cmds \in Seq(Req \cup {Garbage}) /\ results \in Seq(Req \cup {Garbage})
  BY DEF TypeInv, DataTypes, FpgaTypes
<1> QED
  BY <1>2, <1>3, ConcatProperties

\* A caller's step keeps the balance.
LEMMA CountCaller ==
  ASSUME Disciplined, TypeInv, LockInv, LockInv', PulseInv, CountInv,
         NEW t \in Procs, Caller(t), ~WriteRequests(t)
  PROVE  CountInv'
<1> USE DEF WorkLabels, CountLabels, WriteLabels, Calling
<1>a. /\ Placed /\ LoopInv /\ t \in Workers /\ t \in Threads /\ WriteTypes
      /\ pc \in [Threads -> CallerLabels \cup WriterLabels \cup ReaderLabels]
      /\ ip \in [Procs -> Nat \ {0}] /\ k \in [Threads -> Nat \ {0}]
  BY DEF TypeInv, Placed, LoopInv, DataTypes, Workers, Threads
<1>1. CASE Lock(t)
  BY <1>1, <1>a, CountLock DEF Lock
<1>2. CASE Unlock(t)
  <2>1. m_lock = t
    <3>1. ip[t] \in DOMAIN Program[t] /\ Call(t).op = "unlock"
      BY <1>2, <1>a, ProgramAssumption DEF Unlock
    <3> QED
      BY <3>1 DEF Disciplined, LockedOps, LockInv, Call
  <2> QED
    BY <1>2, <1>a, <2>1, CountLock DEF Unlock
<1>3. CASE SetHold(t)
  BY <1>3, <1>a, CountIdle DEF SetHold
<1>4. CASE ReleaseHold(t)
  BY <1>4, <1>a, CountIdle DEF ReleaseHold
<1>5. CASE WaitFinish(t)
  BY <1>5, <1>a, CountIdle DEF WaitFinish
<1>6. CASE Pulse(t)
  BY <1>6, <1>a, CountIdle DEF Pulse
<1>7. CASE NewRequest(t)
  BY <1>7, <1>a, CountIdle DEF NewRequest, Iterate
<1>8. CASE PushReq(t)
  BY <1>8, <1>a, CountIdle DEF PushReq
<1>9. CASE PushReqNotify(t)
  BY <1>9, <1>a, CountIdle DEF PushReqNotify, Iterate
<1>10. CASE WaitSleep(t)
  BY <1>10, <1>a, CountIdle DEF WaitSleep
<1>11. CASE WaitReady(t)
  BY <1>11, <1>a, CountIdle DEF WaitReady
<1>12. CASE RunPush(t)
  BY <1>12, <1>a, CountIdle DEF RunPush, Iterate
<1>13. CASE NoResSpace(t)
  BY <1>13, <1>a, CountIdle DEF NoResSpace
<1>14. CASE Quit(t)
  BY <1>14, <1>a, CountIdle DEF Quit
<1>15. CASE QuitNotify(t)
  BY <1>15, <1>a, CountIdle DEF QuitNotify
<1>16. CASE Join(t)
  BY <1>16, <1>a, CountIdle DEF Join
<1>17. CASE ShortPulseOp(t, "pulse_op", "pulse_ctrl")
  <2>1. UNCHANGED <<fpga_cmds, fpga_out>>
    BY <1>17, <1>a, OperandStep DEF PulseLabels, CtrlLabels
  <2> QED
    BY <1>17, <1>a, <2>1, CountIdle DEF ShortPulseOp
<1>18. CASE PulseCtrl(t)
  <2>1. <<>> \in Seq(Req) /\ Len(<<>>) = 0 /\ Len(fpga_cmds) \in Nat
    BY EmptySeq, CountsTypes, <1>a
  <2>a. pc[t] \in CtrlLabels /\ WriteCtrl(t, <<>>)
    BY <1>18 DEF PulseCtrl, CtrlLabels
  <2>b. UNCHANGED fpga_out /\ Len(fpga_cmds') = Len(fpga_cmds) + Len(<<>>)
    BY <1>a, <2>1, <2>a, ControlStep
  <2>2. UNCHANGED fpga_out /\ Len(fpga_cmds') = Len(fpga_cmds)
    BY <2>1, <2>b
  <2> QED
    BY <1>18, <1>a, <2>2, CountIdle DEF PulseCtrl
<1>19. CASE HasResSpace(t)
  <2>1. m_lock = t /\ Holder = t /\ k[t] = 1
    <3>1. ~InLoop(t)
      BY <1>19 DEF HasResSpace, InLoop, LoopLabels
    <3> QED
      BY <1>19, <1>a, <3>1, WorkHolder, FirstIteration DEF HasResSpace
  <2>2. Alone(t) /\ pc'[Reader] = pc[Reader]
    BY <1>19, <1>a, AloneStep DEF HasResSpace, WriteTypes
  <2>3. Outstanding' = Outstanding
    BY <1>19, <2>2, SameOutstanding DEF HasResSpace
  <2>4. Uncounted(t) = 0 /\ Uncounted(t)' = 0
    <3>1. /\ pc[t] = "run_space" /\ pc'[t] = "run_op" /\ k'[t] = k[t] /\ nret' = nret
      BY <1>19, <1>a DEF HasResSpace
    <3>2. nret[t] = 0
      BY <1>a, <3>1 DEF CountInv, Local
    <3> QED
      BY <2>1, <3>1, <3>2 DEF Uncounted
  <2>5. /\ Balanced(t) /\ Outstanding \in Nat /\ MaxWrite \in Nat /\ Planned(t) \in Nat
        /\ m_num_written \in Int /\ m_num_read \in Int /\ CountTypes
    BY <1>a, <2>1, CountsTypes DEF CountInv, TypeInv, DataTypes
  <2>6. Count(m_num_written - m_num_read) = Outstanding /\ Outstanding \in 0 .. MaxWrite
    BY <2>4, <2>5 DEF Balanced
  <2>7. resBuffSpace = MaxWrite - Outstanding
    BY <2>5, <2>6, SpaceExact
  <2>8. Len(Call(t).reqs) \in Nat
    BY <1>19, <1>a, CallRequests DEF HasResSpace, Placed, FitsCall, RunLabels, Call
  <2>9. Planned(t)' = Len(Call(t).reqs)
    BY <1>19, <1>a, <2>1, <2>8 DEF HasResSpace, Planned, Call
  <2>10. Outstanding + Len(Call(t).reqs) <= MaxWrite
    BY <1>19, <2>5, <2>7, <2>8 DEF HasResSpace
  <2>11. Balanced(t)'
    BY <1>19, <2>3, <2>4, <2>5, <2>9, <2>10 DEF HasResSpace, Balanced
  <2>12. Local(t)'
    BY <1>19, <1>a DEF HasResSpace, CountInv, Local
  <2> QED
    BY <1>19, <1>a, <2>1, <2>2, <2>11, <2>12, CountHolder DEF HasResSpace
<1>20. CASE ShortPulseOp(t, "run_op", "run_ctrl")
  <2>1. UNCHANGED <<fpga_cmds, fpga_out>>
    BY <1>20, <1>a, OperandStep DEF PulseLabels, CtrlLabels
  <2>2. Alone(t) /\ pc'[Reader] = pc[Reader]
    BY <1>20, <1>a, AloneStep DEF ShortPulseOp, WriteTypes
  <2>3. Outstanding' = Outstanding
    BY <1>20, <2>1, <2>2, SameOutstanding DEF ShortPulseOp
  <2>4. Uncounted(t)' = Uncounted(t) /\ Planned(t)' = Planned(t)
    BY <1>20, <1>a DEF ShortPulseOp, Uncounted, Planned, Call
  <2>5. Local(t)'
    BY <1>20, <1>a DEF ShortPulseOp, CountInv, Local
  <2> QED
    BY <1>20, <1>a, <2>2, <2>3, <2>4, <2>5, CountsTypes, CountQuiet DEF ShortPulseOp
<1>21. CASE RunPulseCtrl(t)
  <2>1. m_lock = t /\ Holder = t
    BY <1>21, <1>a, WorkHolder DEF RunPulseCtrl
  <2>2. /\ Requests(t) = Call(t).reqs /\ Len(Call(t).reqs) \in Nat
        /\ k[t] \in 1 .. Len(Call(t).reqs) /\ Current(t) \in Req
        /\ Call(t).op = "run"
    BY <1>21, <1>a, CallLoop
       DEF RunPulseCtrl, InLoop, LoopLabels, Placed, FitsCall, RunLabels, Call
  <2>3. UNCHANGED fpga_out /\ Len(fpga_cmds') = Len(fpga_cmds) + 1
    <3>1. <<Current(t)>> \in Seq(Req) /\ Len(<<Current(t)>>) = 1
      BY <2>2
    <3> QED
      BY <1>21, <1>a, <3>1, ControlStep DEF RunPulseCtrl, CtrlLabels
  <2>4. Alone(t) /\ pc'[Reader] = pc[Reader]
    BY <1>21, <1>a, AloneStep DEF RunPulseCtrl, Iterate, WriteTypes
  <2>5. Outstanding' = Outstanding + 1
    <3>1. InReader' = InReader
      BY <1>21, <2>4 DEF RunPulseCtrl, InReader
    <3>2. Len(fpga_out) \in Nat /\ Len(fpga_cmds) \in Nat /\ InReader \in Nat
      BY <1>a, CountsTypes
    <3> QED
      BY <2>3, <3>1, <3>2 DEF Outstanding
  <2>6. Call(t)' = Call(t) /\ t # Writer
    BY <1>21, <1>a, ThreadAssumption DEF RunPulseCtrl, Call
  <2>a. pc[t] = "run_ctrl"
    BY <1>21 DEF RunPulseCtrl
  <2>7. Uncounted(t)' = Uncounted(t) + 1 /\ Planned(t)' \in Nat /\ Planned(t)' + 1 <= Planned(t)
    <3>1. CASE IsLast(t)
      <4>1. k[t] = Len(Call(t).reqs)
        BY <2>2, <3>1 DEF IsLast
      <4>2. pc'[t] = IF Len(Call(t).reqs) = 1 THEN "run_inc" ELSE "load"
        BY <1>21, <1>a, <3>1 DEF RunPulseCtrl, Iterate
      <4>3. Planned(t)' = 0 /\ Planned(t) = 1
        BY <2>2, <2>a, <4>1, <4>2 DEF Planned
      <4>4. Uncounted(t) = Len(Call(t).reqs) - 1
        BY <2>a, <4>1 DEF Uncounted
      <4>5. Uncounted(t)' = Len(Call(t).reqs)
        BY <2>2, <2>6, <4>2 DEF Uncounted, Running
      <4> QED
        BY <2>2, <4>3, <4>4, <4>5
    <3>2. CASE ~IsLast(t)
      <4>1. pc'[t] = "run_op" /\ k'[t] = k[t] + 1 /\ k[t] < Len(Call(t).reqs)
        BY <1>21, <1>a, <2>2, <3>2 DEF RunPulseCtrl, Iterate, IsLast
      <4>a. Uncounted(t)' = k'[t] - 1 /\ Planned(t)' = Len(Call(t)'.reqs) - k'[t] + 1
        BY <4>1 DEF Planned, Uncounted
      <4>2. Planned(t)' = Len(Call(t).reqs) - (k[t] + 1) + 1 /\ Uncounted(t)' = k[t] + 1 - 1
        BY <2>2, <2>6, <4>1, <4>a
      <4>3. Planned(t) = Len(Call(t).reqs) - k[t] + 1 /\ Uncounted(t) = k[t] - 1
        BY <2>a DEF Planned, Uncounted
      <4> QED
        BY <2>2, <4>1, <4>2, <4>3
    <3> QED
      BY <3>1, <3>2
  <2>8. Balanced(t)'
    BY <1>21, <1>a, <2>1, <2>5, <2>7, CountWritten DEF RunPulseCtrl, CountInv
  <2>9. Local(t)'
    BY <1>21, <1>a DEF RunPulseCtrl, Iterate, CountInv, Local
  <2> QED
    BY <1>21, <1>a, <2>1, <2>4, <2>8, <2>9, CountHolder DEF RunPulseCtrl
<1>22. CASE RunIncrement(t)
  <2>1. m_lock = t /\ Holder = t
    BY <1>22, <1>a, WorkHolder DEF RunIncrement
  <2>2. Alone(t) /\ pc'[Reader] = pc[Reader]
    BY <1>22, <1>a, AloneStep DEF RunIncrement, WriteTypes
  <2>3. Outstanding' = Outstanding
    BY <1>22, <2>2, SameOutstanding DEF RunIncrement
  <2>4. Local(t)'
    BY <1>22, <1>a DEF RunIncrement, CountInv, Local
  <2>5. Uncounted(t) = 1 /\ Uncounted(t)' = 0 /\ Planned(t)' = 0
    BY <1>22, <1>a DEF RunIncrement, Uncounted, Planned, CountInv, Local
  <2>6. Balanced(t)'
    BY <1>22, <1>a, <2>1, <2>3, <2>5, CountStored DEF RunIncrement, CountInv
  <2> QED
    BY <1>22, <1>a, <2>1, <2>2, <2>4, <2>6, CountHolder DEF RunIncrement
<1> QED
  BY <1>1, <1>2, <1>3, <1>4, <1>5, <1>6, <1>7, <1>8, <1>9, <1>10, <1>11, <1>12, <1>13,
     <1>14, <1>15, <1>16, <1>17, <1>18, <1>19, <1>20, <1>21, <1>22 DEF Caller

-----------------------------------------------------------------------------
(* The steps of writeRequests                                              *)

\* writeRequests returns to its caller or to the writer thread's loop.
LEMMA ReturnStep ==
  ASSUME TypeInv, NEW t \in Workers, Return(t)
  PROVE  /\ pc' = [pc EXCEPT ![t] = pc'[t]] /\ pc'[t] \in {"call", "w_unlock"}
         /\ k' = [k EXCEPT ![t] = k'[t]] /\ \A u \in Procs \ {t} : ip'[u] = ip[u]
<1>1. /\ pc \in [Threads -> CallerLabels \cup WriterLabels \cup ReaderLabels]
      /\ k \in [Threads -> Nat \ {0}] /\ ip \in [Procs -> Nat \ {0}] /\ t \in Threads
  BY DEF TypeInv, Placed, LoopInv, Workers, Threads
<1> QED
  BY <1>1 DEF Return

\* Taking the first requests of the queue takes its head first.
LEMMA TakeHead ==
  ASSUME NEW q \in Seq(Req), NEW n \in 0 .. Len(q), n # 0
  PROVE  Take(q, n)[1] = Head(q) /\ Head(q) \in Req
<1>1. Len(q) \in Nat /\ 1 \in 1 .. n
  BY LenProperties
<1>2. \A i \in 1 .. n : SubSeq(q, 1, n)[i] = q[1 + i - 1]
  BY <1>1, SubSeqProperties, LenProperties, ElementOfSeq
<1>3. SubSeq(q, 1, n)[1] = q[1]
  BY <1>1, <1>2
<1> QED
  BY <1>1, <1>3 DEF Take

\* The next request of the batch, or the end of the loop, changes no count.
LEMMA CountNext ==
  ASSUME Disciplined, TypeInv, LockInv, CountInv, NEW t \in Workers, NextWrite(t),
         pc[t] \in {"wr_check", "wr_notify"},
         UNCHANGED <<m_lock, countVars, fpgaVars>>
  PROVE  CountInv'
<1> USE DEF WorkLabels, CountLabels, WriteLabels
<1>a. /\ Placed /\ LoopInv /\ t \in Threads /\ WriteTypes
      /\ pc \in [Threads -> CallerLabels \cup WriterLabels \cup ReaderLabels]
      /\ k \in [Threads -> Nat \ {0}] /\ t \in Procs \cup {Writer}
  BY DEF TypeInv, Placed, LoopInv, DataTypes, Workers, Threads
<1>b. /\ Requests(t) = batch[t] /\ batch[t] \in Seq(Req) /\ Len(batch[t]) \in Nat
      /\ k[t] \in 1 .. Len(batch[t])
  BY <1>a, WriteLoop
<1>c. /\ Uncounted(t) = nret[t] /\ Planned(t) = Len(batch[t]) - k[t]
      /\ nret'[t] = nret[t] /\ nret[t] \in Nat /\ room'[t] = room[t] /\ Local(t)
  BY <1>a DEF Uncounted, Planned, NextWrite, WriteTypes, CountInv
<1>1. CASE ~IsLast(t)
  <2> DEFINE r == batch[t][k[t] + 1]
  <2>1. /\ pc' = [pc EXCEPT ![t] = WriteLabel(r)] /\ k' = [k EXCEPT ![t] = k[t] + 1]
        /\ UNCHANGED <<ip, batch, room, nret, seen, rd_res>> /\ k[t] < Len(batch[t])
    BY <1>1, <1>a, <1>b DEF NextWrite, IsLast
  <2>2. pc'[t] = WriteLabel(r) /\ k'[t] = k[t] + 1 /\ pc'[t] \in {"wr_push", "wr_op"}
    BY <1>a, <2>1 DEF WriteLabel
  <2>3. Current(t)' = r
    BY <2>1, <2>2 DEF Current, Requests
  <2>4. Uncounted(t)' = nret[t]
    BY <2>1, <2>2, <2>3 DEF Uncounted, WriteLabel
  <2>5. Planned(t)' = Len(batch[t]) - (k[t] + 1) + 1
    BY <2>1, <2>2 DEF Planned
  <2>6. Local(t)'
    BY <1>c, <2>1, <2>2, <2>3 DEF Local, WriteLabel
  <2>7. Alone(t) /\ pc'[Reader] = pc[Reader]
    BY <1>a, <2>1, <2>2, AloneStep DEF WriteTypes
  <2>8. Outstanding' = Outstanding
    BY <2>1, <2>7, SameOutstanding
  <2>9. Planned(t)' \in Int /\ Planned(t)' <= Planned(t)
    BY <1>b, <1>c, <2>5
  <2> QED
    BY <1>c, <2>4, <2>6, <2>7, <2>8, <2>9, CountQuiet
<1>2. CASE IsLast(t)
  <2>1. /\ batch' = [batch EXCEPT ![t] = <<>>] /\ batch'[t] = <<>>
        /\ UNCHANGED <<room, nret, seen, rd_res>>
    BY <1>2, <1>a DEF NextWrite, WriteTypes
  <2>2. /\ pc' = [pc EXCEPT ![t] = pc'[t]] /\ k' = [k EXCEPT ![t] = k'[t]]
        /\ \A u \in Procs \ {t} : ip'[u] = ip[u]
        /\ pc'[t] \in IF nret[t] = 0 THEN {"call", "w_unlock"} ELSE {"load"}
        /\ nret[t] # 0 => UNCHANGED ip
    <3>1. CASE nret[t] = 0
      BY <1>2, <3>1, ReturnStep DEF NextWrite
    <3>2. CASE nret[t] # 0
      BY <1>2, <1>a, <3>2 DEF NextWrite
    <3> QED
      BY <3>1, <3>2
  <2>3. ~Running(t)' \/ nret[t] = 0
    <3>1. t # Writer => Call(t).op = "serve"
      BY <1>a DEF Placed, FitsCall, ServeLabels, Call
    <3>2. nret[t] # 0 => Call(t)' = Call(t)
      BY <2>2 DEF Call
    <3> QED
      BY <3>1, <3>2 DEF Running
  <2>4. Uncounted(t)' = nret[t] /\ Planned(t)' = 0
    BY <2>1, <2>2, <2>3 DEF Uncounted, Planned
  <2>5. Local(t)'
    BY <1>c, <2>1, <2>2, BoundAssumption, EmptySeq DEF Local
  <2>6. Alone(t) /\ pc'[Reader] = pc[Reader]
    BY <1>a, <2>1, <2>2, AloneStep DEF WriteTypes
  <2>7. Outstanding' = Outstanding
    BY <2>1, <2>6, SameOutstanding
  <2>8. Planned(t)' \in Int /\ Planned(t)' <= Planned(t)
    BY <1>b, <1>c, <2>4
  <2> QED
    BY <1>c, <2>4, <2>5, <2>6, <2>7, <2>8, CountQuiet
<1> QED
  BY <1>1, <1>2

\* The room that writeRequests finds is there.
LEMMA CountSpace ==
  ASSUME Disciplined, TypeInv, LockInv, CountInv, NEW t \in Workers, WriteSpace(t)
  PROVE  CountInv'
<1> USE DEF WorkLabels, CountLabels, WriteLabels, Calling
<1>a. /\ Placed /\ CountTypes /\ t \in Threads /\ WriteTypes /\ t \in Procs \cup {Writer}
      /\ pc \in [Threads -> CallerLabels \cup WriterLabels \cup ReaderLabels]
  BY DEF TypeInv, Placed, DataTypes, Workers, Threads
<1>b. pc[t] \in {"wr_space", "call"} /\ (pc[t] = "wr_space" \/ Calling(t, "serve"))
  BY DEF WriteSpace
<1>c. m_lock = t /\ Holder = t
  BY <1>a, <1>b, WorkHolder
<1>d. nret[t] = 0 /\ Uncounted(t) = 0 /\ Planned(t) = 0 /\ Local(t) /\ Balanced(t)
  BY <1>b, <1>c DEF Uncounted, Planned, CountInv, Local
<1>1. CASE resBuffSpace <= 0 \/ MaxNum(t) = 0
  <2>1. Return(t) /\ UNCHANGED room
    BY <1>1 DEF WriteSpace
  <2>2. /\ pc' = [pc EXCEPT ![t] = pc'[t]] /\ pc'[t] \in {"call", "w_unlock"}
        /\ k' = [k EXCEPT ![t] = k'[t]] /\ \A u \in Procs \ {t} : ip'[u] = ip[u]
    BY <2>1, ReturnStep
  <2>3. UNCHANGED <<m_lock, countVars, writeVars, fpga_out, fpga_cmds, rd_res>>
    BY <2>1 DEF WriteSpace
  <2> QED
    BY <1>b, <2>2, <2>3, CountIdle
<1>2. CASE ~(resBuffSpace <= 0 \/ MaxNum(t) = 0)
  <2> DEFINE n == MinOf(MaxNum(t), resBuffSpace)
  <2>1. /\ room' = [room EXCEPT ![t] = n] /\ pc' = [pc EXCEPT ![t] = "wr_pop"]
        /\ UNCHANGED <<ip, k, m_lock, countVars, batch, nret, seen, fpgaVars, rd_res>>
    BY <1>2 DEF WriteSpace
  <2>2. room'[t] = n /\ pc'[t] = "wr_pop"
    BY <1>a, <2>1 DEF WriteTypes
  <2>3. /\ Outstanding \in Nat /\ MaxWrite \in Nat /\ room[t] \in Nat /\ nret[t] \in Nat
        /\ m_num_written \in Int /\ m_num_read \in Int
    BY CountsTypes
  <2>4. Count(m_num_written - m_num_read) = Outstanding /\ Outstanding \in 0 .. MaxWrite
    BY <1>d, <2>3 DEF Balanced
  <2>5. resBuffSpace = MaxWrite - Outstanding
    BY <1>a, <2>4, SpaceExact
  <2>6. resBuffSpace \in Nat /\ resBuffSpace > 0 /\ resBuffSpace <= MaxWrite
    BY <1>2, <2>3, <2>5
  <2>7. n \in Nat
    BY <1>a, <1>b, <2>6, RoomTypes, ThreadAssumption DEF Placed, WriterLabels, CallerLabels
  <2>8. n <= MaxWrite - Outstanding
    BY <2>5, <2>6, <2>7 DEF MinOf
  <2>9. Alone(t) /\ pc'[Reader] = pc[Reader]
    BY <1>a, <2>1, <2>2, AloneStep DEF WriteTypes, TypeInv, LoopInv
  <2>10. Outstanding' = Outstanding
    BY <2>1, <2>9, SameOutstanding
  <2>11. Uncounted(t)' = 0 /\ Planned(t)' = n
    BY <1>d, <2>1, <2>2 DEF Uncounted, Planned
  <2> HIDE DEF n
  <2>12. Balanced(t)'
    BY <1>d, <2>1, <2>3, <2>7, <2>8, <2>10, <2>11 DEF Balanced
  <2>13. Local(t)'
    BY <1>d, <2>1, <2>2, <2>3, <2>7, <2>8 DEF Local
  <2> QED
    BY <1>c, <2>1, <2>9, <2>12, <2>13, CountHolder
<1> QED
  BY <1>1, <1>2

\* A batch is no larger than the room for it.
LEMMA CountPop ==
  ASSUME Disciplined, TypeInv, LockInv, CountInv, NEW t \in Workers, WritePop(t)
  PROVE  CountInv'
<1> USE DEF WorkLabels, CountLabels, WriteLabels
<1> DEFINE q == m_req_queue
           n == MinOf(room[t], Len(q))
<1>a. /\ Placed /\ LoopInv /\ t \in Threads /\ WriteTypes /\ t \in Procs \cup {Writer}
      /\ q \in Seq(Req) /\ pc[t] = "wr_pop" /\ room[t] \in Nat /\ nret[t] \in Nat
      /\ pc \in [Threads -> CallerLabels \cup WriterLabels \cup ReaderLabels]
  BY CountsTypes DEF TypeInv, Placed, LoopInv, DataTypes, QueueTypes, Workers, Threads, WritePop
<1>b. n \in 0 .. Len(q) /\ n <= room[t]
  BY <1>a, MinOfLength
<1>c. Take(q, n) \in Seq(Req) /\ Len(Take(q, n)) = n
  BY <1>a, <1>b, TakeDrop
<1>d. nret[t] = 0 /\ Uncounted(t) = 0 /\ Planned(t) = room[t] /\ Local(t)
  BY <1>a DEF Uncounted, Planned, CountInv, Local
<1>e. k[t] = 1
  BY <1>a, FirstIteration DEF InLoop, LoopLabels, Calling
<1>f. /\ batch' = [batch EXCEPT ![t] = Take(q, n)] /\ batch'[t] = Take(q, n)
      /\ room' = [room EXCEPT ![t] = 0] /\ room'[t] = 0
      /\ UNCHANGED <<m_lock, countVars, nret, seen, fpgaVars, rd_res>>
  BY <1>a DEF WritePop, WriteTypes
<1>g. n \in Nat /\ room[t] <= MaxWrite /\ MaxWrite \in Nat
  BY <1>b, <1>d, LenProperties, BoundAssumption DEF Local
<1>1. CASE n = 0
  <2>1. Return(t)
    BY <1>1 DEF WritePop
  <2>2. /\ pc' = [pc EXCEPT ![t] = pc'[t]] /\ pc'[t] \in {"call", "w_unlock"}
        /\ k' = [k EXCEPT ![t] = k'[t]] /\ \A u \in Procs \ {t} : ip'[u] = ip[u]
    BY <2>1, ReturnStep
  <2>3. Alone(t) /\ pc'[Reader] = pc[Reader]
    BY <1>a, <1>f, <2>2, AloneStep DEF WriteTypes
  <2>4. Outstanding' = Outstanding
    BY <1>f, <2>3, SameOutstanding
  <2>5. Uncounted(t)' = 0 /\ Planned(t)' = 0
    BY <1>d, <1>f, <2>2 DEF Uncounted, Planned
  <2>6. Local(t)'
    BY <1>c, <1>d, <1>f, <1>g, <1>1, <2>2 DEF Local
  <2> QED
    BY <1>a, <1>d, <1>f, <2>3, <2>4, <2>5, <2>6, CountQuiet
<1>2. CASE n # 0
  <2>1. /\ pc' = [pc EXCEPT ![t] = WriteLabel(Head(q))] /\ UNCHANGED <<ip, k>>
        /\ pc'[t] = WriteLabel(Head(q))
    BY <1>2, <1>a DEF WritePop
  <2>2. pc'[t] = IF HasRes[Head(q)] THEN "wr_push" ELSE "wr_op"
    BY <2>1 DEF WriteLabel
  <2>3. Current(t)' = Head(q)
    <3>1. Current(t)' = batch'[t][k'[t]]
      BY <2>2 DEF Current, Requests
    <3> QED
      BY <1>a, <1>b, <1>e, <1>f, <1>2, <2>1, <3>1, TakeHead
  <2>4. Alone(t) /\ pc'[Reader] = pc[Reader]
    BY <1>a, <1>f, <2>1, AloneStep DEF WriteTypes, LoopInv
  <2>5. Outstanding' = Outstanding
    BY <1>f, <2>4, SameOutstanding
  <2>6. Uncounted(t)' = 0
    BY <1>d, <1>f, <2>2, <2>3 DEF Uncounted
  <2>7. Planned(t)' = n - 1 + 1
    BY <1>c, <1>e, <1>f, <2>1, <2>2 DEF Planned
  <2>8. Local(t)'
    BY <1>a, <1>b, <1>c, <1>d, <1>f, <1>g, <2>2, <2>3 DEF Local
  <2>9. Planned(t)' \in Int /\ Planned(t)' <= Planned(t)
    BY <1>a, <1>b, <1>d, <1>g, <2>7
  <2> QED
    BY <1>d, <1>f, <2>4, <2>5, <2>6, <2>8, <2>9, CountQuiet
<1> QED
  BY <1>1, <1>2

\* A step of writeRequests keeps the balance.
LEMMA CountWriteRequests ==
  ASSUME Disciplined, TypeInv, LockInv, PulseInv, CountInv, NEW t \in Workers,
         WriteRequests(t)
  PROVE  CountInv'
<1> USE DEF WorkLabels, CountLabels, WriteLabels, Calling
<1>a. /\ Placed /\ LoopInv /\ t \in Threads /\ WriteTypes /\ t \in Procs \cup {Writer}
      /\ pc \in [Threads -> CallerLabels \cup WriterLabels \cup ReaderLabels]
      /\ Local(t)
  BY DEF TypeInv, Placed, LoopInv, DataTypes, Workers, Threads, CountInv
<1>1. CASE WriteSpace(t)
  BY <1>1, CountSpace
<1>2. CASE WritePop(t)
  BY <1>2, CountPop
<1>3. CASE WritePush(t)
  <2>1. Alone(t) /\ pc'[Reader] = pc[Reader]
    BY <1>3, <1>a, AloneStep DEF WritePush, WriteTypes, LoopInv
  <2>2. Outstanding' = Outstanding
    BY <1>3, <2>1, SameOutstanding DEF WritePush
  <2>3. /\ pc[t] = "wr_push" /\ pc'[t] = "wr_op" /\ nret'[t] = nret[t] + 1
        /\ nret[t] \in Nat /\ UNCHANGED <<ip, k, room, batch, seen>>
    BY <1>3, <1>a DEF WritePush, WriteTypes
  <2>4. Current(t)' = Current(t) /\ HasRes[Current(t)]
    BY <1>a, <2>3 DEF Current, Requests, Local
  <2>5. Uncounted(t)' = Uncounted(t) /\ Planned(t)' = Planned(t)
    <3>1. Uncounted(t) = nret[t] /\ Uncounted(t)' = nret[t] + 1 - 1
      BY <2>3, <2>4 DEF Uncounted
    <3> QED
      BY <2>3, <3>1 DEF Planned
  <2>6. Local(t)'
    BY <1>a, <2>3 DEF Local
  <2> QED
    BY <1>3, <2>1, <2>2, <2>5, <2>6, CountsTypes, CountQuiet DEF WritePush
<1>4. CASE ShortPulseOp(t, "wr_op", "wr_ctrl")
  <2>1. UNCHANGED <<fpga_cmds, fpga_out>>
    BY <1>4, <1>a, OperandStep DEF PulseLabels, CtrlLabels
  <2>2. Alone(t) /\ pc'[Reader] = pc[Reader]
    BY <1>4, <1>a, AloneStep DEF ShortPulseOp, WriteTypes, LoopInv
  <2>3. Outstanding' = Outstanding
    BY <1>4, <2>1, <2>2, SameOutstanding DEF ShortPulseOp
  <2>4. /\ pc[t] = "wr_op" /\ pc'[t] = "wr_ctrl"
        /\ UNCHANGED <<ip, k, writeVars, m_lock, countVars>>
    BY <1>4, <1>a DEF ShortPulseOp
  <2>5. Current(t)' = Current(t)
    BY <2>4 DEF Current, Requests
  <2>6. Uncounted(t)' = Uncounted(t) /\ Planned(t)' = Planned(t)
    BY <2>4, <2>5 DEF Uncounted, Planned
  <2>7. Local(t)'
    BY <1>a, <2>4 DEF Local
  <2> QED
    BY <2>2, <2>3, <2>4, <2>6, <2>7, CountsTypes, CountQuiet
<1>5. CASE WritePulseCtrl(t)
  <2> DEFINE b == IF HasRes[Current(t)] THEN 1 ELSE 0
             r == IF HasRes[Current(t)] THEN <<Current(t)>> ELSE <<>>
  <2>1. /\ pc[t] = "wr_ctrl" /\ pc'[t] = "wr_check" /\ WriteCtrl(t, r)
        /\ UNCHANGED <<ip, k, writeVars, readVars, m_lock, countVars>>
    BY <1>5, <1>a DEF WritePulseCtrl
  <2>2. m_lock = t /\ Holder = t
    BY <1>a, <2>1, WorkHolder
  <2>3. /\ Len(batch[t]) \in Nat /\ k[t] \in 1 .. Len(batch[t]) /\ Current(t) \in Req
    BY <1>a, <2>1, WriteLoop
  <2>4. r \in Seq(Req) /\ Len(r) = b
    BY <2>3, EmptySeq
  <2>5. UNCHANGED fpga_out /\ Len(fpga_cmds') = Len(fpga_cmds) + b
    <3>1. Len(fpga_cmds') = Len(fpga_cmds) + Len(r) /\ UNCHANGED fpga_out
      BY <1>a, <2>1, <2>4, ControlStep DEF CtrlLabels
    <3> QED
      BY <2>4, <3>1
  <2>6. Alone(t) /\ pc'[Reader] = pc[Reader]
    BY <1>5, <1>a, AloneStep DEF WritePulseCtrl, WriteTypes, LoopInv
  <2>7. Outstanding' = Outstanding + b
    <3>1. InReader' = InReader
      BY <2>1, <2>6 DEF InReader
    <3>2. Len(fpga_out) \in Nat /\ Len(fpga_cmds) \in Nat /\ InReader \in Nat
      BY CountsTypes
    <3> QED
      BY <2>5, <3>1, <3>2 DEF Outstanding
  <2>8. Uncounted(t)' = Uncounted(t) + b
    <3>1. Uncounted(t)' = nret[t] /\ nret[t] \in Nat
      BY <2>1, CountsTypes DEF Uncounted
    <3>2. Uncounted(t) = IF HasRes[Current(t)] THEN nret[t] - 1 ELSE nret[t]
      BY <2>1 DEF Uncounted
    <3> QED
      BY <3>1, <3>2
  <2>9. Planned(t)' \in Nat /\ Planned(t)' + b <= Planned(t) /\ b \in {0, 1}
    <3>1. Planned(t)' = Len(batch[t]) - k[t]
      BY <2>1 DEF Planned
    <3>2. Planned(t) = Len(batch[t]) - k[t] + 1
      BY <2>1 DEF Planned
    <3> QED
      BY <2>3, <3>1, <3>2
  <2>10. Local(t)'
    BY <1>a, <2>1 DEF Local
  <2> HIDE DEF b
  <2>11. Balanced(t)'
    BY <2>1, <2>2, <2>7, <2>8, <2>9, CountWritten DEF CountInv
  <2> QED
    BY <2>1, <2>2, <2>6, <2>10, <2>11, CountHolder
<1>6. CASE WriteHasRes(t)
  BY <1>6, CountNext DEF WriteHasRes
<1>7. CASE WriteSetRes(t)
  <2>1. Alone(t) /\ pc'[Reader] = pc[Reader]
    BY <1>7, <1>a, AloneStep DEF WriteSetRes, WriteTypes, LoopInv
  <2>2. Outstanding' = Outstanding
    BY <1>7, <2>1, SameOutstanding DEF WriteSetRes
  <2>3. /\ pc[t] = "wr_check" /\ pc'[t] = "wr_notify"
        /\ UNCHANGED <<ip, k, writeVars, m_lock, countVars>>
    BY <1>7, <1>a DEF WriteSetRes
  <2>4. Uncounted(t)' = Uncounted(t) /\ Planned(t)' = Planned(t)
    BY <2>3 DEF Uncounted, Planned
  <2>5. Local(t)'
    BY <1>a, <2>3 DEF Local
  <2> QED
    BY <2>1, <2>2, <2>3, <2>4, <2>5, CountsTypes, CountQuiet
<1>8. CASE WriteNotify(t)
  BY <1>8, CountNext DEF WriteNotify
<1>9. CASE WriteDefer(t)
  BY <1>9, CountNext DEF WriteDefer
<1>10. CASE LoadWritten(t)
  <2>1. Alone(t) /\ pc'[Reader] = pc[Reader]
    BY <1>10, <1>a, AloneStep DEF LoadWritten, WriteTypes, LoopInv
  <2>2. Outstanding' = Outstanding
    BY <1>10, <2>1, SameOutstanding DEF LoadWritten
  <2>3. /\ pc[t] = "load" /\ pc'[t] = "store" /\ seen'[t] = m_num_written
        /\ UNCHANGED <<ip, k, room, batch, nret, m_lock, countVars>>
    BY <1>10, <1>a DEF LoadWritten, WriteTypes
  <2>4. Uncounted(t)' = Uncounted(t) /\ Planned(t)' = Planned(t)
    BY <2>3 DEF Uncounted, Planned, Running, Call
  <2>5. Local(t)'
    BY <1>a, <2>3 DEF Local
  <2> QED
    BY <2>1, <2>2, <2>3, <2>4, <2>5, CountsTypes, CountQuiet
<1>11. CASE StoreWritten(t)
  <2>1. /\ pc[t] = "store" /\ UNCHANGED <<m_num_read, m_lock, room, batch, fpgaVars, rd_res>>
        /\ m_num_written' = Count(seen[t] + IF Running(t) THEN Len(Call(t).reqs) ELSE nret[t])
        /\ nret' = [nret EXCEPT ![t] = 0] /\ seen' = [seen EXCEPT ![t] = 0] /\ nret'[t] = 0
    BY <1>11, <1>a DEF StoreWritten, WriteTypes
  <2>2. m_lock = t /\ Holder = t
    BY <1>a, <2>1, WorkHolder
  <2>3. /\ pc' = [pc EXCEPT ![t] = pc'[t]] /\ pc'[t] \in {"wait", "call", "w_unlock"}
        /\ k' = [k EXCEPT ![t] = k'[t]] /\ \A u \in Procs \ {t} : ip'[u] = ip[u]
    <3>1. CASE Running(t)
      BY <1>11, <1>a, <3>1 DEF StoreWritten, LoopInv
    <3>2. CASE ~Running(t)
      BY <1>11, <3>2, ReturnStep DEF StoreWritten
    <3> QED
      BY <3>1, <3>2
  <2>4. Alone(t) /\ pc'[Reader] = pc[Reader]
    BY <1>a, <2>1, <2>3, AloneStep DEF WriteTypes
  <2>5. Outstanding' = Outstanding
    BY <2>1, <2>4, SameOutstanding
  <2>6. m_num_written' = Count(m_num_written + Uncounted(t))
    BY <1>a, <2>1 DEF Uncounted, Local
  <2>7. Uncounted(t)' = 0 /\ Planned(t)' = 0
    BY <2>1, <2>3 DEF Uncounted, Planned
  <2>8. Balanced(t)'
    BY <2>1, <2>2, <2>5, <2>6, <2>7, CountStored DEF CountInv
  <2>9. Local(t)'
    BY <1>a, <2>1, <2>3 DEF Local
  <2> QED
    BY <2>1, <2>2, <2>4, <2>8, <2>9, CountHolder
<1> QED
  BY <1>1, <1>2, <1>3, <1>4, <1>5, <1>6, <1>7, <1>8, <1>9, <1>10, <1>11 DEF WriteRequests

-----------------------------------------------------------------------------
(* The steps of the other threads                                          *)

\* A step of the writer thread keeps the balance.
LEMMA CountWriterThread ==
  ASSUME TypeInv, LockInv, LockInv', CountInv, WriterThread, ~WriteRequests(Writer)
  PROVE  CountInv'
<1> USE DEF WorkLabels, CountLabels, WriteLabels
<1>a. /\ Writer \in Workers /\ Writer \in Threads /\ Writer \notin Procs
      /\ pc \in [Threads -> CallerLabels \cup WriterLabels \cup ReaderLabels]
      /\ k \in [Threads -> Nat \ {0}]
  BY ThreadAssumption DEF TypeInv, Placed, LoopInv, Workers, Threads
<1>1. CASE WriterTop
  BY <1>1, <1>a, CountIdle DEF WriterTop
<1>2. CASE WriterSleep
  BY <1>2, <1>a, CountIdle DEF WriterSleep
<1>3. CASE WriterWake
  BY <1>3, <1>a, CountIdle DEF WriterWake
<1>4. CASE WriterLock
  BY <1>4, <1>a, CountLock DEF WriterLock
<1>5. CASE WriterUnlock
  <2>1. m_lock = Writer
    BY <1>5 DEF WriterUnlock, LockInv, HoldingLabels
  <2> QED
    BY <1>5, <1>a, <2>1, CountLock DEF WriterUnlock
<1> QED
  BY <1>1, <1>2, <1>3, <1>4, <1>5 DEF WriterThread

\* A step of the reader thread keeps the balance.
LEMMA CountReaderThread ==
  ASSUME TypeInv, LockInv, CountInv, ReaderThread
  PROVE  CountInv'
<1>a. /\ Reader \in Threads /\ Reader \notin Workers /\ Workers \subseteq Threads
      /\ pc \in [Threads -> CallerLabels \cup WriterLabels \cup ReaderLabels]
      /\ k \in [Threads -> Nat \ {0}]
  BY ThreadAssumption DEF TypeInv, Placed, LoopInv, Workers, Threads
<1>b. ASSUME pc' = [pc EXCEPT ![Reader] = pc'[Reader]],
             k' = [k EXCEPT ![Reader] = k'[Reader]], UNCHANGED <<ip, writeVars>>
      PROVE  Alone(Reader)
  BY <1>a, <1>b DEF Alone
<1>c. /\ Outstanding \in Nat /\ Len(fpga_out) \in Nat /\ Len(fpga_cmds) \in Nat
      /\ InReader \in Nat /\ m_num_read \in Int /\ Len(rd_res) \in Nat
  <2>1. Writer \in Workers
    BY DEF Workers
  <2>2. rd_res \in Seq(Req \cup {Zero, Garbage})
    BY DEF TypeInv, DataTypes, ReadTypes
  <2> QED
    BY <2>1, <2>2, CountsTypes, LenProperties
<1>d. ASSUME pc' = [pc EXCEPT ![Reader] = pc'[Reader]],
             k' = [k EXCEPT ![Reader] = k'[Reader]],
             UNCHANGED <<ip, m_lock, countVars, writeVars, fpga_cmds, fpga_out>>,
             pc[Reader] # "r_count", pc'[Reader] # "r_count"
      PROVE  CountInv'
  <2>1. Outstanding' = Outstanding
    BY <1>d DEF Outstanding, InReader
  <2> QED
    BY <1>b, <1>d, <2>1, CountOther
<1>1. CASE ReaderTop
  BY <1>1, <1>a, <1>d DEF ReaderTop, ReaderGoto
<1>2. CASE ReaderWake
  BY <1>2, <1>a, <1>d DEF ReaderWake, ReaderGoto
<1>3. CASE ReaderCheck
  BY <1>3, <1>a, <1>d DEF ReaderCheck, ReaderGoto
<1>4. CASE ReadResults
  <2> DEFINE n == MinOf(BufSize, Len(fpga_out))
  <2>1. /\ rd_res' = Take(fpga_out, n) /\ fpga_out' = Drop(fpga_out, n)
        /\ pc[Reader] = "r_read"
        /\ pc'[Reader] = IF fpga_out = <<>> THEN "r_check" ELSE "r_count"
        /\ pc' = [pc EXCEPT ![Reader] = pc'[Reader]]
        /\ UNCHANGED <<ip, k, m_lock, countVars, writeVars, fpga_cmds>>
    BY <1>4, <1>a DEF ReadResults
  <2>2. fpga_out \in Seq(Req \cup {Garbage}) /\ BufSize \in Nat
    BY BoundAssumption DEF TypeInv, DataTypes, FpgaTypes
  <2>3. n \in 0 .. Len(fpga_out)
    BY <2>2, MinOfLength
  <2> HIDE DEF n
  <2>4. Len(rd_res') = n /\ Len(fpga_out') = Len(fpga_out) - n
    <3>1. /\ Len(Take(fpga_out, n)) = n
          /\ Len(Drop(fpga_out, n)) = Len(fpga_out) - n
      BY <2>2, <2>3, TakeDrop
    <3> QED
      BY <2>1, <3>1
  <2> USE DEF n
  <2>a. fpga_out = <<>> => Len(fpga_out) = 0
    BY EmptySeq
  <2>5. fpga_out = <<>> => n = 0
    BY <2>3, EmptySeq
  <2>6. InReader = 0 /\ InReader' = n
    BY <2>1, <2>4, <2>5 DEF InReader
  <2> HIDE DEF n
  <2>7. Outstanding' = Outstanding
    BY <1>c, <2>1, <2>3, <2>4, <2>6 DEF Outstanding
  <2> QED
    BY <1>a, <1>b, <2>1, <2>7, CountOther
<1>5. CASE CountRead
  <2>1. /\ pc[Reader] = "r_count" /\ pc'[Reader] = "r_pop"
        /\ pc' = [pc EXCEPT ![Reader] = pc'[Reader]]
        /\ m_num_read' = Count(m_num_read + Len(rd_res))
        /\ UNCHANGED <<ip, k, m_lock, m_num_written, writeVars, fpgaVars>>
    BY <1>5, <1>a DEF CountRead
  <2>2. InReader = Len(rd_res) /\ InReader' = 0
    BY <2>1 DEF InReader
  <2>3. Outstanding' = Outstanding - Len(rd_res) /\ Outstanding' \in Nat
    BY <1>c, <2>1, <2>2 DEF Outstanding
  <2>4. m_num_read + Len(rd_res) = m_num_read + Outstanding - Outstanding'
    BY <1>c, <2>3
  <2>5. m_num_read' = Count(m_num_read + Outstanding - Outstanding')
    BY <2>1, <2>4
  <2>6. Outstanding' <= Outstanding
    BY <1>c, <2>3
  <2> QED
    BY <1>a, <1>b, <2>1, <2>3, <2>5, <2>6, CountOther
<1>6. CASE PopResQueue
  BY <1>6, <1>a, <1>d DEF PopResQueue
<1>7. CASE ReaderNotifyWriter
  BY <1>7, <1>a, <1>d DEF ReaderNotifyWriter
<1>8. CASE DumpNotifyQueue
  BY <1>8, <1>a, <1>d DEF DumpNotifyQueue
<1>9. CASE ReaderSetRes("r_set", "r_notify")
  BY <1>9, <1>a, <1>d DEF ReaderSetRes
<1>10. CASE ReaderNotify("r_notify", "r_set", "r_check")
  BY <1>10, <1>a, <1>d DEF ReaderNotify
<1>11. CASE ReaderSetRes("d_set", "d_notify")
  BY <1>11, <1>a, <1>d DEF ReaderSetRes
<1>12. CASE ReaderNotify("d_notify", "d_set", "r_top")
  BY <1>12, <1>a, <1>d DEF ReaderNotify
<1> QED
  BY <1>1, <1>2, <1>3, <1>4, <1>5, <1>6, <1>7, <1>8, <1>9, <1>10, <1>11, <1>12
     DEF ReaderThread

\* The FPGA only moves a result from what it owes to what it holds.
LEMMA CountFpga == TypeInv /\ LockInv /\ CountInv /\ FpgaExec => CountInv'
<1> SUFFICES ASSUME TypeInv, LockInv, CountInv, FpgaExec PROVE CountInv'
  OBVIOUS
<1>1. /\ fpga_cmds \in Seq(Req \cup {Garbage}) /\ fpga_out \in Seq(Req \cup {Garbage})
      /\ fpga_cmds # <<>>
  BY DEF TypeInv, DataTypes, FpgaTypes, FpgaExec
<1>2. Len(fpga_out') = Len(fpga_out) + 1 /\ Len(fpga_cmds') = Len(fpga_cmds) - 1
  BY <1>1, HeadTailProperties, AppendProperties DEF FpgaExec
<1>3. InReader' = InReader
  BY DEF FpgaExec, InReader
<1>4. Writer \in Workers
  BY DEF Workers
<1>5. Outstanding' = Outstanding
  BY <1>2, <1>3, <1>4, CountsTypes DEF Outstanding
<1>6. Alone(Reader) /\ UNCHANGED <<m_lock, countVars>>
  BY DEF FpgaExec, Alone
<1> QED
  BY <1>5, <1>6, CountOther

\* Every step keeps the balance.
LEMMA CountsNext ==
  ASSUME Disciplined, TypeInv, LockInv, PulseInv, CountInv, [Next]_vars
  PROVE  CountInv'
<1>a. LockInv'
  BY LockNext DEF TypeInv
<1>1. CASE \E t \in Procs : Caller(t)
  <2>1. PICK t \in Procs : Caller(t)
    BY <1>1
  <2> QED
    BY <1>a, <2>1, CountCaller, CountWriteRequests DEF Workers
<1>2. CASE WriterThread
  BY <1>2, <1>a, CountWriterThread, CountWriteRequests DEF Workers
<1>3. CASE ReaderThread
  BY <1>3, CountReaderThread
<1>4. CASE FpgaExec
  BY <1>4, CountFpga
<1>5. CASE UNCHANGED <<pc, ip, k, m_lock, countVars, writeVars, fpgaVars, rd_res>>
  <2>1. Alone(Reader) /\ Outstanding' = Outstanding
    BY <1>5 DEF Alone, Outstanding, InReader
  <2> QED
    BY <1>5, <2>1, CountOther
<1>6. (\E t \in Threads : SpuriousWake(t)) \/ Terminated \/ UNCHANGED vars
        => UNCHANGED <<pc, ip, k, m_lock, countVars, writeVars, fpgaVars, rd_res>>
  BY DEF SpuriousWake, Terminated, vars
<1> QED
  BY <1>1, <1>2, <1>3, <1>4, <1>5, <1>6 DEF Next

\* The counters agree at first, wherever they stand.
LEMMA CountsInit == Init => CountInv
<1> SUFFICES ASSUME Init PROVE CountInv
  OBVIOUS
<1>1. Holder = Writer /\ Writer \in Workers /\ Workers \subseteq Threads
  BY DEF Init, Holder, Workers, Threads
<1>2. \A t \in Workers : pc[t] \notin WorkLabels
  BY <1>1, ThreadAssumption
     DEF Init, Workers, Threads, WorkLabels, CountLabels, WriteLabels
<1>3. \A t \in Workers : nret[t] = 0 /\ room[t] = 0 /\ batch[t] = <<>>
  BY <1>1 DEF Init
<1>4. \A t \in Workers : Uncounted(t) = 0 /\ Planned(t) = 0
  BY <1>2, <1>3, IdleCounts
<1>5. Len(<<>>) = 0 /\ MaxWrite \in Nat
  BY EmptySeq, BoundAssumption
<1>6. \A t \in Workers : Local(t)
  BY <1>2, <1>3, <1>5 DEF Local, WorkLabels, CountLabels, WriteLabels
<1>7. Outstanding = 0
  BY <1>5, ThreadAssumption DEF Init, Outstanding, InReader, Threads
<1>8. Count(Earlier + 0 - Earlier) = 0
  <2>1. Earlier + 0 - Earlier = 0 + 0 * Word /\ 0 \in 0 .. Word - 1
    BY WordAssumption, BoundAssumption
  <2> QED
    BY <2>1, CountUnique
<1>9. \A t \in Workers : Balanced(t)
  BY <1>4, <1>5, <1>7, <1>8 DEF Balanced, Init
<1> QED
  BY <1>6, <1>9 DEF CountInv

-----------------------------------------------------------------------------
(* The batches                                                             *)

\* The reader thread takes no batch of requests.
IdleReader == room[Reader] = 0 /\ batch[Reader] = <<>>

\* A step of writeRequests changes the batch of the thread that makes it.
LEMMA BatchWriteRequests ==
  ASSUME NEW t \in Workers, WriteTypes, IdleReader, WriteRequests(t)
  PROVE  IdleReader'
<1>a. /\ t # Reader /\ Reader \in DOMAIN room /\ Reader \in DOMAIN batch
  BY ThreadAssumption DEF Workers, Threads, WriteTypes
<1> USE DEF IdleReader
<1>1. CASE WriteSpace(t)
  BY <1>1, <1>a DEF WriteSpace
<1>2. CASE WritePop(t)
  BY <1>2, <1>a DEF WritePop
<1>3. CASE WritePush(t)
  BY <1>3 DEF WritePush
<1>4. CASE ShortPulseOp(t, "wr_op", "wr_ctrl")
  BY <1>4 DEF ShortPulseOp
<1>5. CASE WritePulseCtrl(t)
  BY <1>5 DEF WritePulseCtrl
<1>6. CASE WriteHasRes(t)
  BY <1>6, <1>a DEF WriteHasRes, NextWrite
<1>7. CASE WriteSetRes(t)
  BY <1>7 DEF WriteSetRes
<1>8. CASE WriteNotify(t)
  BY <1>8, <1>a DEF WriteNotify, NextWrite
<1>9. CASE WriteDefer(t)
  BY <1>9, <1>a DEF WriteDefer, NextWrite
<1>10. CASE LoadWritten(t)
  BY <1>10 DEF LoadWritten
<1>11. CASE StoreWritten(t)
  BY <1>11 DEF StoreWritten
<1> QED
  BY <1>1, <1>2, <1>3, <1>4, <1>5, <1>6, <1>7, <1>8, <1>9, <1>10, <1>11 DEF WriteRequests

\* No other step changes a batch.
LEMMA BatchOthers ==
  ASSUME [Next]_vars, \A t \in Workers : ~WriteRequests(t)
  PROVE  UNCHANGED <<room, batch>>
<1>1. CASE \E t \in Procs : Caller(t)
  <2>1. PICK t \in Procs : Caller(t) /\ ~WriteRequests(t)
    BY <1>1 DEF Workers
  <2> QED
    BY <2>1 DEF Caller, Lock, Unlock, SetHold, ReleaseHold, WaitFinish, Pulse,
       ShortPulseOp, PulseCtrl, NewRequest, PushReq, PushReqNotify, WaitSleep,
       WaitReady, RunPush, HasResSpace, NoResSpace, RunIncrement, RunPulseCtrl,
       Quit, QuitNotify, Join
<1>2. CASE WriterThread
  BY <1>2 DEF Workers, WriterThread, WriterTop, WriterSleep, WriterWake, WriterLock,
     WriterUnlock
<1>3. CASE ReaderThread
  BY <1>3 DEF ReaderThread, ReaderTop, ReaderWake, ReaderCheck, ReaderGoto, ReadResults,
     CountRead, PopResQueue, ReaderNotifyWriter, DumpNotifyQueue, ReaderSetRes,
     ReaderNotify
<1>4. CASE FpgaExec
  BY <1>4 DEF FpgaExec
<1>5. CASE (\E t \in Threads : SpuriousWake(t)) \/ Terminated \/ UNCHANGED vars
  BY <1>5 DEF SpuriousWake, Terminated, vars
<1> QED
  BY <1>1, <1>2, <1>3, <1>4, <1>5 DEF Next

\* No step gives the reader a batch.
LEMMA BatchNext ==
  ASSUME WriteTypes, IdleReader, [Next]_vars
  PROVE  IdleReader'
  BY BatchWriteRequests, BatchOthers DEF IdleReader

-----------------------------------------------------------------------------
(* The bounds                                                              *)

\* What is outstanding is within the room of whoever may write.
LEMMA CountsBound == TypeInv /\ LockInv /\ CountInv => ResultBufferBound
<1> SUFFICES ASSUME TypeInv, LockInv, CountInv PROVE ResultBufferBound
  OBVIOUS
<1>1. PICK h \in Workers : h = Holder
  BY HolderIsWorker
<1>2. Outstanding + Planned(h) <= MaxWrite
  BY <1>1 DEF CountInv, Balanced
<1> QED
  BY <1>2, CountsTypes DEF ResultBufferBound, Outstanding

\* No thread has asked for, or holds, more requests than there may be room for.
LEMMA BatchBound == CountInv /\ IdleReader => BatchFits
<1>1. Threads = Workers \cup {Reader}
  BY DEF Threads, Workers
<1>2. Len(<<>>) = 0 /\ MaxWrite \in Nat
  BY EmptySeq, BoundAssumption
<1> QED
  BY <1>1, <1>2 DEF CountInv, Local, IdleReader, BatchFits

\* The inductive invariant.
RoomInv == TypeInv /\ LockInv /\ PulseInv /\ CountInv /\ IdleReader

\* It holds at first, and every step keeps it.
LEMMA RoomInductive ==
  ASSUME Disciplined
  PROVE  (Init => RoomInv) /\ (RoomInv /\ [Next]_vars => RoomInv')
<1>1. Init => RoomInv
  <2>1. Init => IdleReader
    BY DEF Init, IdleReader, Threads
  <2> QED
    BY <2>1, PlacedInit, TypeInit, LockInit, PulseInit, CountsInit DEF RoomInv, TypeInv
<1>2. ASSUME RoomInv, [Next]_vars PROVE RoomInv'
  <2> USE <1>2 DEF RoomInv
  <2>1. TypeInv'
    BY PlacedNext, LoopNext, DataNext DEF TypeInv
  <2>2. LockInv' /\ PulseInv'
    BY LockNext, PulseNext DEF TypeInv
  <2>3. CountInv'
    BY CountsNext
  <2>4. IdleReader'
    BY BatchNext DEF TypeInv, DataTypes
  <2> QED
    BY <2>1, <2>2, <2>3, <2>4
<1> QED
  BY <1>1, <1>2

\* ResultBufferBound: whatever the threads, the programs and the width of the
\* counters, and wherever the counters stood, the FPGA never owes and holds more
\* results than max_write (resBuffSpace), if every caller takes the controller
\* lock as the comments of Controller ask.
THEOREM ResultsFit == Disciplined => (Spec => []ResultBufferBound)
<1> SUFFICES ASSUME Disciplined PROVE Spec => []ResultBufferBound
  OBVIOUS
<1>1. (Init => RoomInv) /\ (RoomInv /\ [Next]_vars => RoomInv')
  BY RoomInductive
<1>2. RoomInv => ResultBufferBound
  BY CountsBound DEF RoomInv
<1> QED
  BY <1>1, <1>2, PTL DEF Spec

\* BatchFits: likewise, writeRequests never asks for more requests, nor pops
\* more into its array, than there may be room for: a difference of the counters
\* that is off, or wraps the wrong way, would overrun its array.
THEOREM BatchesFit == Disciplined => (Spec => []BatchFits)
<1> SUFFICES ASSUME Disciplined PROVE Spec => []BatchFits
  OBVIOUS
<1>1. (Init => RoomInv) /\ (RoomInv /\ [Next]_vars => RoomInv')
  BY RoomInductive
<1>2. RoomInv => BatchFits
  BY BatchBound DEF RoomInv
<1> QED
  BY <1>1, <1>2, PTL DEF Spec
=============================================================================
