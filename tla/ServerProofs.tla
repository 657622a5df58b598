----------------------------- MODULE ServerProofs -----------------------------
(****************************************************************************)
(* Proofs about Server, for any threads, boards, pages, requests and faults: *)
(* who holds the lock, the FPGA and the status, one answer to each request,  *)
(* and that the boards and the files of parameters behave as their modules   *)
(* say, whatever the process does around them.                               *)
(****************************************************************************)
EXTENDS Server, AD9914Proofs, ParamStoreProofs

Codes   == [kind : {"run_seq"}, long : BOOLEAN]
Inits   == [kind : {"init_system"}]
AnyJob  == {NoJob} \cup Inits \cup Texts \cup Codes \cup Resets \cup Sets
Places  == {"off", "boot", "clear", "detect", "init", "startup", "ready", "joined",
            "idle", "save", "reply", "parse", "lock", "rep", "pulses", "finish", "await",
            "end", "unlock", "request", "hold", "code", "release", "drain"}

\* The types of the server's own variables.
ServerTypes ==
  /\ place \in [Threads -> Places] /\ job \in [Threads -> AnyJob]
  /\ todo \in [Threads -> Seq(Boards)]
  /\ iRep \in Nat /\ lock \in Threads \cup {None}
  /\ hold \in BOOLEAN /\ queued \in BOOLEAN /\ late \in BOOLEAN /\ stop \in BOOLEAN
  /\ status \in {"none", "Initializing", "Running", "Idle"}
  /\ frames \in Seq(STRING) /\ owed \in Int
  /\ quota \in 0 .. Quota /\ faults \in 0 .. Faults

\* What a thread may be serving where it is, and which threads serve it.
KindHere(t) ==
  /\ place[t] \in {"off", "boot", "ready", "joined", "idle", "request"} => job[t] = NoJob
  /\ place[t] \in {"clear", "detect", "startup"} => Is(t, "init_system")
  /\ place[t] = "save" => Is(t, "setParams")
  /\ place[t] \in {"parse", "rep", "pulses"} => Is(t, "runseq")
  /\ place[t] \in {"hold", "code", "release"} => Is(t, "run_seq")
  /\ place[t] \in {"lock", "finish", "await", "end", "unlock"} => Is(t, "runseq") \/ Is(t, "run_seq")
  /\ place[t] = "init" => job[t].kind \in {"init_system", "runseq", "run_seq", "reset"}
  /\ place[t] = "reply" => job[t].kind \in {"runseq", "reset", "setParams"}
  /\ place[t] = "drain" => job[t].kind \in {"none", "run_seq"}

OwnKinds(t) ==
  /\ t = Main => /\ job[t].kind \in {"none", "init_system", "runseq"}
                 /\ place[t] \notin {"off", "idle", "request", "drain"}
  /\ t = Zmq  => job[t].kind \in {"none", "run_seq"}
  /\ t \in Workers => /\ job[t].kind \in {"none", "runseq", "reset", "setParams"}
                      /\ place[t] \notin {"request", "drain"}
  /\ t # Main => place[t] \notin {"boot", "clear", "detect", "startup", "ready", "joined"}

\* While main starts up it is alone.
StartsAlone ==
  IF place[Main] = "joined" THEN \A t \in Threads : place[t] # "off"
  ELSE \A t \in Threads \ {Main} : place[t] = "off"

\* Who has the controller lock.
Locking(t) ==
  \/ place[t] \in {"clear", "detect", "rep", "pulses", "finish", "await", "end", "unlock",
                   "hold", "code", "release"}
  \/ place[t] = "init" /\ job[t].kind \in {"init_system", "run_seq"}
LockOwned == \A t \in Threads : lock = t <=> Locking(t)

PlacesOK == /\ \A t \in Threads : KindHere(t) /\ OwnKinds(t)
            /\ StartsAlone /\ LockOwned

\* The hold, the queue and the flag of the FPGA are those of the sequence that
\* has the lock; init_system has released the hold before it clears the flag.
FpgaOwned ==
  /\ place[Main] = "clear" => ~hold
  /\ ~Booting =>
       /\ hold   => lock # None /\ place[lock] \in {"pulses", "finish", "code", "release"}
       /\ queued => lock # None /\ place[lock] \in {"release", "finish", "await"}
       /\ late   => lock # None /\ place[lock] \in {"finish", "await"}
       /\ \A t \in Threads : place[t] \in {"code", "release"} => hold

\* A status other than Idle is that of a sequence that will write Idle.
Ending(t) ==
  \/ /\ Is(t, "run_seq")
     /\ place[t] \in {"lock", "hold", "code", "release", "finish", "await", "init", "end"}
  \/ Is(t, "runseq") /\ place[t] \in {"rep", "pulses", "finish", "await", "end"}
StatusOwned ==
  /\ place[Main] = "joined" /\ status # "Idle" => \E t \in Threads : Ending(t)
  /\ \A t \in Threads : Repeating(t) /\ job[t].long /\ InSeq(t) => status = "Running"

\* What is owed to the ZMQ client, by where the thread is.
OwedHere ==
  /\ place[Zmq] \in {"request", "lock", "hold", "code", "release"} => owed = 1
  /\ place[Zmq] \in {"finish", "await"} => owed = IF job[Zmq].long THEN 1 ELSE 0
  /\ place[Zmq] \in {"init", "end", "unlock", "drain", "idle", "off"} => owed = 0
  /\ place[Zmq] \in {"idle", "off"} => frames = <<>>

OwnInv == ServerTypes /\ PlacesOK /\ FpgaOwned /\ StatusOwned /\ OwedHere
ServerInv == BoardInv /\ StoreInv /\ OwnInv
-----------------------------------------------------------------------------
USE DEF Go, Is

\* Thread t moves; the others stay.
Moves(t) == \A u \in Threads \ {t} : place'[u] = place[u] /\ job'[u] = job[u]

LEMMA JobFacts ==
  ASSUME ServerTypes, NEW t \in Threads
  PROVE  /\ job[t] \in AnyJob /\ place[t] \in Places
         /\ job[t].kind = "none" => job[t] = NoJob
         /\ job[t].kind = "init_system" => job[t] \in Inits
         /\ job[t].kind = "runseq" => job[t] \in Texts
         /\ job[t].kind = "run_seq" => job[t] \in Codes
         /\ job[t].kind = "reset" => job[t] \in Resets
         /\ job[t].kind = "setParams" => job[t] \in Sets
<1>1. job[t] \in AnyJob /\ place[t] \in Places
  BY DEF ServerTypes
<1> QED
  BY <1>1 DEF AnyJob, NoJob, Inits, Texts, Codes, Resets, Sets

\* A step of a thread that has started, and does not become the one that serves
\* main, keeps PlacesOK when the thread does and the lock goes with it.
LEMMA PlacesMove ==
  ASSUME PlacesOK, ServerTypes, NEW t \in Threads, Moves(t),
         place[t] # "off", place'[t] # "off",
         place[t] # "joined", place'[t] # "joined",
         KindHere(t)', OwnKinds(t)',
         \/ lock' = lock /\ (Locking(t)' <=> Locking(t))
         \/ lock = None /\ lock' = t /\ Locking(t)'
         \/ lock = t /\ lock' = None /\ ~Locking(t)'
  PROVE  PlacesOK'
<1>0. Main \in Threads /\ None \notin Threads
  BY ThreadsAssumption
<1>1. \A u \in Threads \ {t} : place'[u] = place[u] /\ job'[u] = job[u]
  BY DEF Moves
<1>2. \A u \in Threads : KindHere(u)' /\ OwnKinds(u)'
  BY <1>1 DEF PlacesOK, KindHere, OwnKinds
<1>3. \A u \in Threads \ {t} : Locking(u)' <=> Locking(u)
  BY <1>1 DEF Locking
<1>4. LockOwned'
  BY <1>0, <1>3 DEF PlacesOK, LockOwned
<1>5. StartsAlone'
  BY <1>0, <1>1 DEF PlacesOK, StartsAlone
<1> QED
  BY <1>2, <1>4, <1>5 DEF PlacesOK

\* What is left of the parts of a request is some of them.
LEMMA LeftFrames ==
  ASSUME NEW f \in Seq(STRING)
  PROVE  SubSeq(f, Taken(f) + 1, Len(f)) \in Seq(STRING)
<1>1. Len(f) \in Nat
  OBVIOUS
<1>2. Taken(f) \in Nat /\ Taken(f) <= Len(f)
  BY <1>1 DEF Taken
<1> QED
  BY <1>1, <1>2

LEMMA TypesStep ==
  ASSUME ServerTypes, PlacesOK, Next
  PROVE  ServerTypes'
<1> USE DEF ServerTypes, seqVars, zmqVars, Places
<1>0. Main \in Threads /\ None \notin Threads
  BY ThreadsAssumption
<1>1. ASSUME NEW t \in Threads, Boot(t) PROVE ServerTypes'
  BY <1>0, <1>1, RequestsAssumption DEF Boot, InitHold, AnyJob, Inits
<1>2. ASSUME NEW t \in Threads, Clear(t) PROVE ServerTypes'
  BY <1>0, <1>2, RequestsAssumption DEF Clear, AnyJob, Inits
<1>3. ASSUME NEW t \in Threads, Detect(t) PROVE ServerTypes'
  <2>1. CASE todo[t] = <<>>
    BY <1>3, <2>1, RequestsAssumption DEF Detect
  <2>2. CASE todo[t] # <<>>
    <3>1. todo' = [todo EXCEPT ![t] = Tail(todo[t])] /\ Tail(todo[t]) \in Seq(Boards)
      BY <1>3, <2>2 DEF Detect
    <3> QED
      BY <1>3, <2>2, <3>1 DEF Detect
  <2> QED
    BY <2>1, <2>2
<1>4. ASSUME NEW t \in Threads, Startup(t) PROVE ServerTypes'
  BY <1>0, <1>4, RequestsAssumption DEF Startup, AnyJob, Inits
<1>5. ASSUME NEW t \in Threads, Serve(t) PROVE ServerTypes'
  BY <1>0, <1>5, RequestsAssumption DEF Serve, AnyJob, Inits
<1>6. ASSUME NEW t \in Threads, InitNext(t) PROVE ServerTypes'
  BY <1>0, <1>6, RequestsAssumption DEF InitNext, AnyJob, Inits
<1>7. ASSUME NEW t \in Threads, InitRun(t) PROVE ServerTypes'
  BY <1>0, <1>7, RequestsAssumption DEF InitRun, AnyJob, Inits
<1>8. ASSUME NEW t \in Threads, InitDone(t) PROVE ServerTypes'
  <2>1. job[t].kind \in {"init_system", "runseq", "run_seq", "reset"}
    BY <1>8 DEF InitDone, PlacesOK, KindHere
  <2> QED
    BY <1>0, <1>8, <2>1 DEF InitDone
<1>9. ASSUME NEW t \in Threads, Save(t) PROVE ServerTypes'
  BY <1>0, <1>9, RequestsAssumption DEF Save, AnyJob, Inits
<1>10. ASSUME NEW t \in Threads, Reply(t) PROVE ServerTypes'
  BY <1>0, <1>10, RequestsAssumption DEF Reply, AnyJob, Inits
<1>11. ASSUME NEW t \in Threads, Parse(t) PROVE ServerTypes'
  BY <1>0, <1>11, RequestsAssumption DEF Parse, AnyJob, Inits
<1>12. ASSUME NEW t \in Threads, TakeLock(t) PROVE ServerTypes'
  BY <1>0, <1>12, RequestsAssumption DEF TakeLock, AnyJob, Inits
<1>13. ASSUME NEW t \in Threads, Repeat(t) PROVE ServerTypes'
  BY <1>0, <1>13, RequestsAssumption DEF Repeat, AnyJob, Inits
<1>14. ASSUME NEW t \in Threads, RunList(t) PROVE ServerTypes'
  BY <1>0, <1>14, RequestsAssumption DEF RunList, AnyJob, Inits
<1>15. ASSUME NEW t \in Threads, ReleaseHold(t) PROVE ServerTypes'
  BY <1>0, <1>15, RequestsAssumption DEF ReleaseHold, AnyJob, Inits
<1>16. ASSUME NEW t \in Threads, RepDone(t) PROVE ServerTypes'
  <2>1. iRep' \in Nat
    BY <1>16 DEF RepDone
  <2>2. place' \in [Threads -> Places] /\ late' \in BOOLEAN /\ stop' \in BOOLEAN
    BY <1>16 DEF RepDone
  <2> QED
    BY <1>16, <2>1, <2>2 DEF RepDone
<1>17. ASSUME NEW t \in Threads, LastRep(t) PROVE ServerTypes'
  BY <1>0, <1>17, RequestsAssumption DEF LastRep, AnyJob, Inits
<1>18. ASSUME NEW t \in Threads, EndSeq(t) PROVE ServerTypes'
  BY <1>0, <1>18, RequestsAssumption DEF EndSeq, EndStatus, AnyJob, Inits
<1>19. ASSUME NEW t \in Threads, Unlock(t) PROVE ServerTypes'
  BY <1>0, <1>19, RequestsAssumption DEF Unlock, AnyJob, Inits
<1>20. ASSUME NEW t \in Threads, ZmqAnswer(t) PROVE ServerTypes'
  <2>1. frames' \in Seq(STRING)
    BY <1>20, LeftFrames DEF ZmqAnswer
  <2> QED
    BY <1>20, <2>1 DEF ZmqAnswer
<1>21. ASSUME NEW t \in Threads, ZmqRun(t) PROVE ServerTypes'
  <2>1. PICK long \in BOOLEAN :
          /\ job' = [job EXCEPT ![t] = [kind |-> "run_seq", long |-> long]]
          /\ status' = IF long THEN "Running" ELSE status
    BY <1>21 DEF ZmqRun
  <2>2. [kind |-> "run_seq", long |-> long] \in AnyJob
    BY DEF AnyJob, Codes
  <2>3. frames' \in Seq(STRING)
    BY <1>21, LeftFrames DEF ZmqRun
  <2>4. job' \in [Threads -> AnyJob] /\ status' \in {"none", "Initializing", "Running", "Idle"}
    BY <2>1, <2>2
  <2> QED
    BY <1>21, <2>3, <2>4 DEF ZmqRun
<1>22. ASSUME NEW t \in Threads, HoldCode(t) PROVE ServerTypes'
  BY <1>0, <1>22, RequestsAssumption DEF HoldCode, AnyJob, Inits
<1>23. ASSUME NEW t \in Threads, RunCode(t) PROVE ServerTypes'
  BY <1>0, <1>23, RequestsAssumption DEF RunCode, AnyJob, Inits
<1>24. ASSUME NEW t \in Threads, ReleaseCode(t) PROVE ServerTypes'
  <2>1. owed' \in Int
    BY <1>24 DEF ReleaseCode
  <2>2. place' \in [Threads -> Places] /\ todo' \in [Threads -> Seq(Boards)]
        /\ hold' \in BOOLEAN /\ late' \in BOOLEAN
    BY <1>24, RequestsAssumption DEF ReleaseCode, Epilogue
  <2> QED
    BY <1>24, <2>1, <2>2 DEF ReleaseCode
<1>25. ASSUME NEW t \in Threads, CodeDone(t) PROVE ServerTypes'
  <2>1. owed' \in Int
    BY <1>25 DEF CodeDone
  <2>2. place' \in [Threads -> Places] /\ todo' \in [Threads -> Seq(Boards)]
        /\ hold' \in BOOLEAN /\ late' \in BOOLEAN
    BY <1>25, RequestsAssumption DEF CodeDone, Epilogue
  <2> QED
    BY <1>25, <2>1, <2>2 DEF CodeDone
<1>26. ASSUME NEW t \in Threads, Drain(t) PROVE ServerTypes'
  <2>1. frames' \in Seq(STRING) /\ job' \in [Threads -> AnyJob]
    BY <1>26 DEF Drain, Left, AnyJob
  <2> QED
    BY <1>26, <2>1 DEF Drain
<1>27. ASSUME NEW t \in Threads, ZmqReceive(t) PROVE ServerTypes'
  <2>1. frames' \in Seq(STRING)
    <3>1. CASE frames = <<>>
      BY <1>27, <3>1, RequestsAssumption DEF ZmqReceive
    <3>2. CASE frames # <<>>
      <4>1. frames' = Tail(frames)
        BY <1>27, <3>2 DEF ZmqReceive
      <4>2. frames \in Seq(STRING)
        OBVIOUS
      <4> QED
        BY <3>2, <4>1, <4>2
    <3> QED
      BY <3>1, <3>2
  <2>2. quota' \in 0 .. Quota
    BY <1>27, RequestsAssumption DEF ZmqReceive
  <2> QED
    BY <1>27, <2>1, <2>2 DEF ZmqReceive
<1>28. ASSUME NEW t \in Threads, NEW j \in Jobs, Accept(t, j) PROVE ServerTypes'
  <2>1. job' = [job EXCEPT ![t] = j] /\ j \in AnyJob
    BY <1>28, RequestsAssumption DEF Accept, AnyJob
  <2>2. quota' \in 0 .. Quota
    BY <1>28, RequestsAssumption DEF Accept
  <2>3. place' \in [Threads -> Places] /\ todo' \in [Threads -> Seq(Boards)]
    BY <1>28, RequestsAssumption DEF Accept
  <2> QED
    BY <1>28, <2>1, <2>2, <2>3 DEF Accept
<1>29. CASE Fpga
  BY <1>0, <1>29 DEF Fpga, AnyJob
<1>30. CASE Usr1
  BY <1>0, <1>30 DEF Usr1, AnyJob
<1>31. CASE Kill
  <2>1. faults' \in 0 .. Faults
    BY <1>31, RequestsAssumption DEF Kill
  <2>2. place' \in [Threads -> Places] /\ job' \in [Threads -> AnyJob]
        /\ todo' \in [Threads -> Seq(Boards)] /\ frames' \in Seq(STRING)
    BY <1>31 DEF Kill, AnyJob
  <2>3. /\ iRep' = 0 /\ lock' = None /\ stop' = FALSE /\ owed' = 0
        /\ UNCHANGED <<hold, queued, late, status, quota>>
    BY <1>31 DEF Kill
  <2>4. iRep' \in Nat /\ owed' \in Int
    BY <2>3
  <2>4a. lock' \in Threads \cup {None} /\ stop' \in BOOLEAN
    BY <2>3
  <2>5. /\ hold' \in BOOLEAN /\ queued' \in BOOLEAN /\ late' \in BOOLEAN
        /\ status' \in {"none", "Initializing", "Running", "Idle"} /\ quota' \in 0 .. Quota
    BY <2>3
  <2> QED
    BY <2>1, <2>2, <2>4, <2>4a, <2>5
<1>32. CASE LosePower
  <2>1. faults' \in 0 .. Faults
    BY <1>32, RequestsAssumption DEF LosePower
  <2> QED
    BY <1>0, <1>32, <2>1 DEF LosePower
<1> QED
  BY <1>1, <1>2, <1>3, <1>4, <1>5, <1>6, <1>7, <1>8, <1>9, <1>10, <1>11,
     <1>12, <1>13, <1>14, <1>15, <1>16, <1>17, <1>18, <1>19, <1>20, <1>21,
     <1>22, <1>23, <1>24, <1>25, <1>26, <1>27, <1>28, <1>29, <1>30, <1>31,
     <1>32 DEF Next, Run

\* A step that moves no thread.
LEMMA PlacesStay ==
  ASSUME PlacesOK, UNCHANGED <<place, job, lock>>
  PROVE  PlacesOK'
BY DEF PlacesOK, KindHere, OwnKinds, StartsAlone, LockOwned, Locking

LEMMA PlacesStep ==
  ASSUME ServerTypes, PlacesOK, Next
  PROVE  PlacesOK'
<1> USE DEF seqVars
<1>0. Main \in Threads /\ Zmq \in Threads /\ None \notin Threads
      /\ Main # Zmq /\ Main \notin Workers /\ Zmq \notin Workers
      /\ \A t \in Threads : t \in Workers \/ t = Zmq \/ t = Main
  BY ThreadsAssumption
<1>00. place \in [Threads -> Places] /\ job \in [Threads -> AnyJob]
  BY DEF ServerTypes
<1>1. ASSUME NEW t \in Threads, Boot(t) PROVE PlacesOK'
  <2>1. Moves(t) /\ KindHere(t) /\ OwnKinds(t) /\ (lock = t <=> Locking(t))
    BY <1>00, <1>1 DEF Boot, Moves, PlacesOK, LockOwned
  <2>2. /\ place[t] # "off" /\ place'[t] # "off" /\ place[t] # "joined" /\ place'[t] # "joined"
        /\ KindHere(t)' /\ OwnKinds(t)'
    BY <1>0, <1>00, <1>1, <2>1 DEF Boot, KindHere, OwnKinds, NoJob, Locking
  <2>3. \/ lock' = lock /\ (Locking(t)' <=> Locking(t))
        \/ lock = None /\ lock' = t /\ Locking(t)'
        \/ lock = t /\ lock' = None /\ ~Locking(t)'
    BY <1>0, <1>00, <1>1, <2>1 DEF Boot, KindHere, Locking
  <2> QED
    BY <2>1, <2>2, <2>3, PlacesMove
<1>2. ASSUME NEW t \in Threads, Clear(t) PROVE PlacesOK'
  <2>1. Moves(t) /\ KindHere(t) /\ OwnKinds(t) /\ (lock = t <=> Locking(t))
    BY <1>00, <1>2 DEF Clear, Moves, PlacesOK, LockOwned
  <2>2. /\ place[t] # "off" /\ place'[t] # "off" /\ place[t] # "joined" /\ place'[t] # "joined"
        /\ KindHere(t)' /\ OwnKinds(t)'
    BY <1>0, <1>00, <1>2, <2>1 DEF Clear, KindHere, OwnKinds, NoJob, Locking
  <2>3. \/ lock' = lock /\ (Locking(t)' <=> Locking(t))
        \/ lock = None /\ lock' = t /\ Locking(t)'
        \/ lock = t /\ lock' = None /\ ~Locking(t)'
    BY <1>0, <1>00, <1>2, <2>1 DEF Clear, KindHere, Locking
  <2> QED
    BY <2>1, <2>2, <2>3, PlacesMove
<1>3. ASSUME NEW t \in Threads, Startup(t) PROVE PlacesOK'
  <2>1. Moves(t) /\ KindHere(t) /\ OwnKinds(t) /\ (lock = t <=> Locking(t))
    BY <1>00, <1>3 DEF Startup, Moves, PlacesOK, LockOwned
  <2>2. /\ place[t] # "off" /\ place'[t] # "off" /\ place[t] # "joined" /\ place'[t] # "joined"
        /\ KindHere(t)' /\ OwnKinds(t)'
    BY <1>0, <1>00, <1>3, <2>1, RequestsAssumption DEF Startup, Texts,
       KindHere, OwnKinds, NoJob, Locking
  <2>3. \/ lock' = lock /\ (Locking(t)' <=> Locking(t))
        \/ lock = None /\ lock' = t /\ Locking(t)'
        \/ lock = t /\ lock' = None /\ ~Locking(t)'
    BY <1>0, <1>00, <1>3, <2>1, RequestsAssumption DEF Startup, Texts, KindHere, Locking
  <2> QED
    BY <2>1, <2>2, <2>3, PlacesMove
<1>4. ASSUME NEW t \in Threads, InitDone(t) PROVE PlacesOK'
  <2>1. Moves(t) /\ KindHere(t) /\ OwnKinds(t) /\ (lock = t <=> Locking(t))
    BY <1>00, <1>4 DEF InitDone, Moves, PlacesOK, LockOwned
  <2>2. /\ place[t] # "off" /\ place'[t] # "off" /\ place[t] # "joined" /\ place'[t] # "joined"
        /\ KindHere(t)' /\ OwnKinds(t)'
    BY <1>0, <1>00, <1>4, <2>1 DEF InitDone, KindHere, OwnKinds, NoJob, Locking
  <2>3. \/ lock' = lock /\ (Locking(t)' <=> Locking(t))
        \/ lock = None /\ lock' = t /\ Locking(t)'
        \/ lock = t /\ lock' = None /\ ~Locking(t)'
    BY <1>0, <1>00, <1>4, <2>1 DEF InitDone, KindHere, Locking
  <2> QED
    BY <2>1, <2>2, <2>3, PlacesMove
<1>5. ASSUME NEW t \in Threads, Save(t) PROVE PlacesOK'
  <2>1. Moves(t) /\ KindHere(t) /\ OwnKinds(t) /\ (lock = t <=> Locking(t))
    BY <1>00, <1>5 DEF Save, Moves, PlacesOK, LockOwned
  <2>2. /\ place[t] # "off" /\ place'[t] # "off" /\ place[t] # "joined" /\ place'[t] # "joined"
        /\ KindHere(t)' /\ OwnKinds(t)'
    BY <1>0, <1>00, <1>5, <2>1 DEF Save, KindHere, OwnKinds, NoJob, Locking
  <2>3. \/ lock' = lock /\ (Locking(t)' <=> Locking(t))
        \/ lock = None /\ lock' = t /\ Locking(t)'
        \/ lock = t /\ lock' = None /\ ~Locking(t)'
    BY <1>0, <1>00, <1>5, <2>1 DEF Save, KindHere, Locking
  <2> QED
    BY <2>1, <2>2, <2>3, PlacesMove
<1>6. ASSUME NEW t \in Threads, Reply(t) PROVE PlacesOK'
  <2>1. Moves(t) /\ KindHere(t) /\ OwnKinds(t) /\ (lock = t <=> Locking(t))
    BY <1>00, <1>6 DEF Reply, Moves, PlacesOK, LockOwned
  <2>2. /\ place[t] # "off" /\ place'[t] # "off" /\ place[t] # "joined" /\ place'[t] # "joined"
        /\ KindHere(t)' /\ OwnKinds(t)'
    BY <1>0, <1>00, <1>6, <2>1 DEF Reply, KindHere, OwnKinds, NoJob, Locking
  <2>3. \/ lock' = lock /\ (Locking(t)' <=> Locking(t))
        \/ lock = None /\ lock' = t /\ Locking(t)'
        \/ lock = t /\ lock' = None /\ ~Locking(t)'
    BY <1>0, <1>00, <1>6, <2>1 DEF Reply, KindHere, Locking
  <2> QED
    BY <2>1, <2>2, <2>3, PlacesMove
<1>7. ASSUME NEW t \in Threads, Parse(t) PROVE PlacesOK'
  <2>1. Moves(t) /\ KindHere(t) /\ OwnKinds(t) /\ (lock = t <=> Locking(t))
    BY <1>00, <1>7 DEF Parse, Moves, PlacesOK, LockOwned
  <2>2. /\ place[t] # "off" /\ place'[t] # "off" /\ place[t] # "joined" /\ place'[t] # "joined"
        /\ KindHere(t)' /\ OwnKinds(t)'
    BY <1>0, <1>00, <1>7, <2>1 DEF Parse, KindHere, OwnKinds, NoJob, Locking
  <2>3. \/ lock' = lock /\ (Locking(t)' <=> Locking(t))
        \/ lock = None /\ lock' = t /\ Locking(t)'
        \/ lock = t /\ lock' = None /\ ~Locking(t)'
    BY <1>0, <1>00, <1>7, <2>1 DEF Parse, KindHere, Locking
  <2> QED
    BY <2>1, <2>2, <2>3, PlacesMove
<1>8. ASSUME NEW t \in Threads, TakeLock(t) PROVE PlacesOK'
  <2>1. Moves(t) /\ KindHere(t) /\ OwnKinds(t) /\ (lock = t <=> Locking(t))
    BY <1>00, <1>8 DEF TakeLock, Moves, PlacesOK, LockOwned
  <2>2. /\ place[t] # "off" /\ place'[t] # "off" /\ place[t] # "joined" /\ place'[t] # "joined"
        /\ KindHere(t)' /\ OwnKinds(t)'
    BY <1>0, <1>00, <1>8, <2>1 DEF TakeLock, KindHere, OwnKinds, NoJob, Locking
  <2>3. \/ lock' = lock /\ (Locking(t)' <=> Locking(t))
        \/ lock = None /\ lock' = t /\ Locking(t)'
        \/ lock = t /\ lock' = None /\ ~Locking(t)'
    BY <1>0, <1>00, <1>8, <2>1 DEF TakeLock, KindHere, Locking
  <2> QED
    BY <2>1, <2>2, <2>3, PlacesMove
<1>9. ASSUME NEW t \in Threads, Repeat(t) PROVE PlacesOK'
  <2>1. Moves(t) /\ KindHere(t) /\ OwnKinds(t) /\ (lock = t <=> Locking(t))
    BY <1>00, <1>9 DEF Repeat, Moves, PlacesOK, LockOwned
  <2>2. /\ place[t] # "off" /\ place'[t] # "off" /\ place[t] # "joined" /\ place'[t] # "joined"
        /\ KindHere(t)' /\ OwnKinds(t)'
    BY <1>0, <1>00, <1>9, <2>1 DEF Repeat, KindHere, OwnKinds, NoJob, Locking
  <2>3. \/ lock' = lock /\ (Locking(t)' <=> Locking(t))
        \/ lock = None /\ lock' = t /\ Locking(t)'
        \/ lock = t /\ lock' = None /\ ~Locking(t)'
    BY <1>0, <1>00, <1>9, <2>1 DEF Repeat, KindHere, Locking
  <2> QED
    BY <2>1, <2>2, <2>3, PlacesMove
<1>10. ASSUME NEW t \in Threads, RunList(t) PROVE PlacesOK'
  <2>1. Moves(t) /\ KindHere(t) /\ OwnKinds(t) /\ (lock = t <=> Locking(t))
    BY <1>00, <1>10 DEF RunList, Moves, PlacesOK, LockOwned
  <2>2. /\ place[t] # "off" /\ place'[t] # "off" /\ place[t] # "joined" /\ place'[t] # "joined"
        /\ KindHere(t)' /\ OwnKinds(t)'
    BY <1>0, <1>00, <1>10, <2>1 DEF RunList, KindHere, OwnKinds, NoJob, Locking
  <2>3. \/ lock' = lock /\ (Locking(t)' <=> Locking(t))
        \/ lock = None /\ lock' = t /\ Locking(t)'
        \/ lock = t /\ lock' = None /\ ~Locking(t)'
    BY <1>0, <1>00, <1>10, <2>1 DEF RunList, KindHere, Locking
  <2> QED
    BY <2>1, <2>2, <2>3, PlacesMove
<1>11. ASSUME NEW t \in Threads, ReleaseHold(t) PROVE PlacesOK'
  <2>1. Moves(t) /\ KindHere(t) /\ OwnKinds(t) /\ (lock = t <=> Locking(t))
    BY <1>00, <1>11 DEF ReleaseHold, Moves, PlacesOK, LockOwned
  <2>2. /\ place[t] # "off" /\ place'[t] # "off" /\ place[t] # "joined" /\ place'[t] # "joined"
        /\ KindHere(t)' /\ OwnKinds(t)'
    BY <1>0, <1>00, <1>11, <2>1 DEF ReleaseHold, KindHere, OwnKinds, NoJob, Locking
  <2>3. \/ lock' = lock /\ (Locking(t)' <=> Locking(t))
        \/ lock = None /\ lock' = t /\ Locking(t)'
        \/ lock = t /\ lock' = None /\ ~Locking(t)'
    BY <1>0, <1>00, <1>11, <2>1 DEF ReleaseHold, KindHere, Locking
  <2> QED
    BY <2>1, <2>2, <2>3, PlacesMove
<1>12. ASSUME NEW t \in Threads, RepDone(t) PROVE PlacesOK'
  <2>1. Moves(t) /\ KindHere(t) /\ OwnKinds(t) /\ (lock = t <=> Locking(t))
    BY <1>00, <1>12 DEF RepDone, Moves, PlacesOK, LockOwned
  <2>2. /\ place[t] # "off" /\ place'[t] # "off" /\ place[t] # "joined" /\ place'[t] # "joined"
        /\ KindHere(t)' /\ OwnKinds(t)'
    BY <1>0, <1>00, <1>12, <2>1 DEF RepDone, KindHere, OwnKinds, NoJob, Locking
  <2>3. \/ lock' = lock /\ (Locking(t)' <=> Locking(t))
        \/ lock = None /\ lock' = t /\ Locking(t)'
        \/ lock = t /\ lock' = None /\ ~Locking(t)'
    BY <1>0, <1>00, <1>12, <2>1 DEF RepDone, KindHere, Locking
  <2> QED
    BY <2>1, <2>2, <2>3, PlacesMove
<1>13. ASSUME NEW t \in Threads, LastRep(t) PROVE PlacesOK'
  <2>1. Moves(t) /\ KindHere(t) /\ OwnKinds(t) /\ (lock = t <=> Locking(t))
    BY <1>00, <1>13 DEF LastRep, Moves, PlacesOK, LockOwned
  <2>2. /\ place[t] # "off" /\ place'[t] # "off" /\ place[t] # "joined" /\ place'[t] # "joined"
        /\ KindHere(t)' /\ OwnKinds(t)'
    BY <1>0, <1>00, <1>13, <2>1 DEF LastRep, KindHere, OwnKinds, NoJob, Locking
  <2>3. \/ lock' = lock /\ (Locking(t)' <=> Locking(t))
        \/ lock = None /\ lock' = t /\ Locking(t)'
        \/ lock = t /\ lock' = None /\ ~Locking(t)'
    BY <1>0, <1>00, <1>13, <2>1 DEF LastRep, KindHere, Locking
  <2> QED
    BY <2>1, <2>2, <2>3, PlacesMove
<1>14. ASSUME NEW t \in Threads, EndSeq(t) PROVE PlacesOK'
  <2>1. Moves(t) /\ KindHere(t) /\ OwnKinds(t) /\ (lock = t <=> Locking(t))
    BY <1>00, <1>14 DEF EndSeq, Moves, PlacesOK, LockOwned
  <2>2. /\ place[t] # "off" /\ place'[t] # "off" /\ place[t] # "joined" /\ place'[t] # "joined"
        /\ KindHere(t)' /\ OwnKinds(t)'
    BY <1>0, <1>00, <1>14, <2>1 DEF EndSeq, KindHere, OwnKinds, NoJob, Locking
  <2>3. \/ lock' = lock /\ (Locking(t)' <=> Locking(t))
        \/ lock = None /\ lock' = t /\ Locking(t)'
        \/ lock = t /\ lock' = None /\ ~Locking(t)'
    BY <1>0, <1>00, <1>14, <2>1 DEF EndSeq, KindHere, Locking
  <2> QED
    BY <2>1, <2>2, <2>3, PlacesMove
<1>15. ASSUME NEW t \in Threads, Unlock(t) PROVE PlacesOK'
  <2>1. Moves(t) /\ KindHere(t) /\ OwnKinds(t) /\ (lock = t <=> Locking(t))
    BY <1>00, <1>15 DEF Unlock, Moves, PlacesOK, LockOwned
  <2>2. /\ place[t] # "off" /\ place'[t] # "off" /\ place[t] # "joined" /\ place'[t] # "joined"
        /\ KindHere(t)' /\ OwnKinds(t)'
    BY <1>0, <1>00, <1>15, <2>1 DEF Unlock, KindHere, OwnKinds, NoJob, Locking
  <2>3. \/ lock' = lock /\ (Locking(t)' <=> Locking(t))
        \/ lock = None /\ lock' = t /\ Locking(t)'
        \/ lock = t /\ lock' = None /\ ~Locking(t)'
    BY <1>0, <1>00, <1>15, <2>1 DEF Unlock, KindHere, Locking
  <2> QED
    BY <2>1, <2>2, <2>3, PlacesMove
<1>16. ASSUME NEW t \in Threads, ZmqAnswer(t) PROVE PlacesOK'
  <2>1. Moves(t) /\ KindHere(t) /\ OwnKinds(t) /\ (lock = t <=> Locking(t))
    BY <1>00, <1>16 DEF ZmqAnswer, Moves, PlacesOK, LockOwned
  <2>2. /\ place[t] # "off" /\ place'[t] # "off" /\ place[t] # "joined" /\ place'[t] # "joined"
        /\ KindHere(t)' /\ OwnKinds(t)'
    BY <1>0, <1>00, <1>16, <2>1 DEF ZmqAnswer, KindHere, OwnKinds, NoJob, Locking
  <2>3. \/ lock' = lock /\ (Locking(t)' <=> Locking(t))
        \/ lock = None /\ lock' = t /\ Locking(t)'
        \/ lock = t /\ lock' = None /\ ~Locking(t)'
    BY <1>0, <1>00, <1>16, <2>1 DEF ZmqAnswer, KindHere, Locking
  <2> QED
    BY <2>1, <2>2, <2>3, PlacesMove
<1>17. ASSUME NEW t \in Threads, ZmqRun(t) PROVE PlacesOK'
  <2>1. Moves(t) /\ KindHere(t) /\ OwnKinds(t) /\ (lock = t <=> Locking(t))
    BY <1>00, <1>17 DEF ZmqRun, Moves, PlacesOK, LockOwned
  <2>2. /\ place[t] # "off" /\ place'[t] # "off" /\ place[t] # "joined" /\ place'[t] # "joined"
        /\ KindHere(t)' /\ OwnKinds(t)'
    BY <1>0, <1>00, <1>17, <2>1 DEF ZmqRun, KindHere, OwnKinds, NoJob, Locking
  <2>3. \/ lock' = lock /\ (Locking(t)' <=> Locking(t))
        \/ lock = None /\ lock' = t /\ Locking(t)'
        \/ lock = t /\ lock' = None /\ ~Locking(t)'
    BY <1>0, <1>00, <1>17, <2>1 DEF ZmqRun, KindHere, Locking
  <2> QED
    BY <2>1, <2>2, <2>3, PlacesMove
<1>18. ASSUME NEW t \in Threads, HoldCode(t) PROVE PlacesOK'
  <2>1. Moves(t) /\ KindHere(t) /\ OwnKinds(t) /\ (lock = t <=> Locking(t))
    BY <1>00, <1>18 DEF HoldCode, Moves, PlacesOK, LockOwned
  <2>2. /\ place[t] # "off" /\ place'[t] # "off" /\ place[t] # "joined" /\ place'[t] # "joined"
        /\ KindHere(t)' /\ OwnKinds(t)'
    BY <1>0, <1>00, <1>18, <2>1 DEF HoldCode, KindHere, OwnKinds, NoJob, Locking
  <2>3. \/ lock' = lock /\ (Locking(t)' <=> Locking(t))
        \/ lock = None /\ lock' = t /\ Locking(t)'
        \/ lock = t /\ lock' = None /\ ~Locking(t)'
    BY <1>0, <1>00, <1>18, <2>1 DEF HoldCode, KindHere, Locking
  <2> QED
    BY <2>1, <2>2, <2>3, PlacesMove
<1>19. ASSUME NEW t \in Threads, RunCode(t) PROVE PlacesOK'
  <2>1. Moves(t) /\ KindHere(t) /\ OwnKinds(t) /\ (lock = t <=> Locking(t))
    BY <1>00, <1>19 DEF RunCode, Moves, PlacesOK, LockOwned
  <2>2. /\ place[t] # "off" /\ place'[t] # "off" /\ place[t] # "joined" /\ place'[t] # "joined"
        /\ KindHere(t)' /\ OwnKinds(t)'
    BY <1>0, <1>00, <1>19, <2>1 DEF RunCode, KindHere, OwnKinds, NoJob, Locking
  <2>3. \/ lock' = lock /\ (Locking(t)' <=> Locking(t))
        \/ lock = None /\ lock' = t /\ Locking(t)'
        \/ lock = t /\ lock' = None /\ ~Locking(t)'
    BY <1>0, <1>00, <1>19, <2>1 DEF RunCode, KindHere, Locking
  <2> QED
    BY <2>1, <2>2, <2>3, PlacesMove
<1>20. ASSUME NEW t \in Threads, ReleaseCode(t) PROVE PlacesOK'
  <2>1. Moves(t) /\ KindHere(t) /\ OwnKinds(t) /\ (lock = t <=> Locking(t))
    BY <1>00, <1>20 DEF ReleaseCode, Moves, PlacesOK, LockOwned
  <2>2. /\ place[t] # "off" /\ place'[t] # "off" /\ place[t] # "joined" /\ place'[t] # "joined"
        /\ KindHere(t)' /\ OwnKinds(t)'
    BY <1>0, <1>00, <1>20, <2>1 DEF ReleaseCode, KindHere, OwnKinds, NoJob, Locking
  <2>3. \/ lock' = lock /\ (Locking(t)' <=> Locking(t))
        \/ lock = None /\ lock' = t /\ Locking(t)'
        \/ lock = t /\ lock' = None /\ ~Locking(t)'
    BY <1>0, <1>00, <1>20, <2>1 DEF ReleaseCode, KindHere, Locking
  <2> QED
    BY <2>1, <2>2, <2>3, PlacesMove
<1>21. ASSUME NEW t \in Threads, CodeDone(t) PROVE PlacesOK'
  <2>1. Moves(t) /\ KindHere(t) /\ OwnKinds(t) /\ (lock = t <=> Locking(t))
    BY <1>00, <1>21 DEF CodeDone, Moves, PlacesOK, LockOwned
  <2>2. /\ place[t] # "off" /\ place'[t] # "off" /\ place[t] # "joined" /\ place'[t] # "joined"
        /\ KindHere(t)' /\ OwnKinds(t)'
    BY <1>0, <1>00, <1>21, <2>1 DEF CodeDone, KindHere, OwnKinds, NoJob, Locking
  <2>3. \/ lock' = lock /\ (Locking(t)' <=> Locking(t))
        \/ lock = None /\ lock' = t /\ Locking(t)'
        \/ lock = t /\ lock' = None /\ ~Locking(t)'
    BY <1>0, <1>00, <1>21, <2>1 DEF CodeDone, KindHere, Locking
  <2> QED
    BY <2>1, <2>2, <2>3, PlacesMove
<1>22. ASSUME NEW t \in Threads, Drain(t) PROVE PlacesOK'
  <2>1. Moves(t) /\ KindHere(t) /\ OwnKinds(t) /\ (lock = t <=> Locking(t))
    BY <1>00, <1>22 DEF Drain, Moves, PlacesOK, LockOwned
  <2>2. /\ place[t] # "off" /\ place'[t] # "off" /\ place[t] # "joined" /\ place'[t] # "joined"
        /\ KindHere(t)' /\ OwnKinds(t)'
    BY <1>0, <1>00, <1>22, <2>1 DEF Drain, KindHere, OwnKinds, NoJob, Locking
  <2>3. \/ lock' = lock /\ (Locking(t)' <=> Locking(t))
        \/ lock = None /\ lock' = t /\ Locking(t)'
        \/ lock = t /\ lock' = None /\ ~Locking(t)'
    BY <1>0, <1>00, <1>22, <2>1 DEF Drain, KindHere, Locking
  <2> QED
    BY <2>1, <2>2, <2>3, PlacesMove
<1>23. ASSUME NEW t \in Threads, ZmqReceive(t) PROVE PlacesOK'
  <2>1. Moves(t) /\ KindHere(t) /\ OwnKinds(t) /\ (lock = t <=> Locking(t))
    BY <1>00, <1>23 DEF ZmqReceive, Moves, PlacesOK, LockOwned
  <2>2. /\ place[t] # "off" /\ place'[t] # "off" /\ place[t] # "joined" /\ place'[t] # "joined"
        /\ KindHere(t)' /\ OwnKinds(t)'
    BY <1>0, <1>00, <1>23, <2>1 DEF ZmqReceive, KindHere, OwnKinds, NoJob, Locking
  <2>3. \/ lock' = lock /\ (Locking(t)' <=> Locking(t))
        \/ lock = None /\ lock' = t /\ Locking(t)'
        \/ lock = t /\ lock' = None /\ ~Locking(t)'
    BY <1>0, <1>00, <1>23, <2>1 DEF ZmqReceive, KindHere, Locking
  <2> QED
    BY <2>1, <2>2, <2>3, PlacesMove
<1>24. ASSUME NEW t \in Threads, NEW j \in Jobs, Accept(t, j) PROVE PlacesOK'
  <2>1. Moves(t) /\ KindHere(t) /\ OwnKinds(t) /\ (lock = t <=> Locking(t))
    BY <1>00, <1>24 DEF Accept, Moves, PlacesOK, LockOwned
  <2>2. /\ place[t] # "off" /\ place'[t] # "off" /\ place[t] # "joined" /\ place'[t] # "joined"
        /\ KindHere(t)' /\ OwnKinds(t)'
    BY <1>0, <1>00, <1>24, <2>1 DEF Accept, KindHere, OwnKinds, NoJob, Locking
  <2>3. \/ lock' = lock /\ (Locking(t)' <=> Locking(t))
        \/ lock = None /\ lock' = t /\ Locking(t)'
        \/ lock = t /\ lock' = None /\ ~Locking(t)'
    BY <1>0, <1>00, <1>24, <2>1 DEF Accept, KindHere, Locking
  <2> QED
    BY <2>1, <2>2, <2>3, PlacesMove
<1>25. ASSUME NEW t \in Threads, InitNext(t) PROVE PlacesOK'
  BY <1>25, PlacesStay DEF InitNext
<1>26. ASSUME NEW t \in Threads, InitRun(t) PROVE PlacesOK'
  BY <1>26, PlacesStay DEF InitRun
<1>27. ASSUME NEW t \in Threads, Detect(t) PROVE PlacesOK'
  <2>1. CASE todo[t] = <<>>
    <3>1. Moves(t) /\ KindHere(t) /\ OwnKinds(t) /\ (lock = t <=> Locking(t)) /\ lock' = lock
      BY <1>00, <1>27, <2>1 DEF Detect, Moves, PlacesOK, LockOwned
    <3>2. /\ place[t] = "detect" /\ place'[t] = "init" /\ KindHere(t)' /\ OwnKinds(t)'
          /\ (Locking(t)' <=> Locking(t))
      BY <1>0, <1>00, <1>27, <2>1, <3>1 DEF Detect, KindHere, OwnKinds, Locking
    <3> QED
      BY <3>1, <3>2, PlacesMove
  <2>2. CASE todo[t] # <<>>
    BY <1>27, <2>2, PlacesStay DEF Detect
  <2> QED
    BY <2>1, <2>2
<1>28. ASSUME NEW t \in Threads, Serve(t) PROVE PlacesOK'
  <2>1. t = Main /\ place[Main] # "joined" /\ lock' = lock
    BY <1>28 DEF Serve, PlacesOK, OwnKinds
  <2>2. lock = None
    <3>1. \A u \in Threads : ~Locking(u)
      BY <1>28, <2>1 DEF Serve, PlacesOK, StartsAlone, Locking
    <3> QED
      BY <3>1 DEF PlacesOK, LockOwned, ServerTypes
  <2>3. \A u \in Threads : /\ place'[u] = (IF u = Main THEN "joined" ELSE "idle")
                           /\ job'[u] = NoJob
    <3>1. \A u \in Threads \ {Main} : place[u] = "off" /\ job[u] = NoJob
      BY <2>1 DEF PlacesOK, StartsAlone, KindHere
    <3> QED
      <4>1. place' = [u \in Threads |-> IF u = Main THEN "joined" ELSE "idle"]
            /\ job' = [job EXCEPT ![t] = NoJob]
        BY <1>28 DEF Serve
      <4> QED
        BY <1>00, <2>1, <3>1, <4>1
  <2>4. \A u \in Threads : KindHere(u)' /\ OwnKinds(u)' /\ ~Locking(u)'
    <3> TAKE u \in Threads
    <3>1. CASE u = Main
      BY <1>0, <2>3, <3>1 DEF KindHere, OwnKinds, Locking, NoJob
    <3>2. CASE u # Main
      BY <1>0, <2>3, <3>2 DEF KindHere, OwnKinds, Locking, NoJob
    <3> QED
      BY <3>1, <3>2
  <2> QED
    BY <1>0, <2>1, <2>2, <2>3, <2>4 DEF PlacesOK, StartsAlone, LockOwned
<1>29. CASE Kill
  <2>1. \A u \in Threads : /\ place'[u] = (IF u = Main THEN "boot" ELSE "off")
                           /\ job'[u] = NoJob
    <3>1. place' = [t \in Threads |-> IF t = Main THEN "boot" ELSE "off"]
          /\ job' = [t \in Threads |-> NoJob]
      BY <1>29 DEF Kill
    <3> QED
      BY <3>1
  <2>2. \A u \in Threads : KindHere(u)' /\ OwnKinds(u)' /\ ~Locking(u)'
    <3> TAKE u \in Threads
    <3>1. CASE u = Main
      BY <1>0, <2>1, <3>1 DEF KindHere, OwnKinds, Locking, NoJob
    <3>2. CASE u # Main
      BY <1>0, <2>1, <3>2 DEF KindHere, OwnKinds, Locking, NoJob
    <3> QED
      BY <3>1, <3>2
  <2> QED
    BY <1>0, <1>29, <2>1, <2>2 DEF Kill, PlacesOK, StartsAlone, LockOwned
<1>30. CASE Fpga
  BY <1>30, PlacesStay DEF Fpga
<1>31. CASE Usr1
  BY <1>31, PlacesStay DEF Usr1
<1>32. CASE LosePower
  BY <1>32, PlacesStay DEF LosePower
<1> QED
  BY <1>1, <1>2, <1>3, <1>4, <1>5, <1>6, <1>7, <1>8, <1>9, <1>10, <1>11,
     <1>12, <1>13, <1>14, <1>15, <1>16, <1>17, <1>18, <1>19, <1>20, <1>21,
     <1>22, <1>23, <1>24, <1>25, <1>26, <1>27, <1>28, <1>29, <1>30, <1>31,
     <1>32 DEF Next, Run

\* A step of a thread that has nothing to do with the FPGA.
LEMMA FpgaKeep ==
  ASSUME ServerTypes, PlacesOK, FpgaOwned, NEW t \in Threads, Moves(t),
         UNCHANGED <<hold, queued, late>>,
         place[t] \notin {"boot", "clear"},
         place'[t] \notin {"boot", "clear", "code", "release"},
         (lock' = lock /\ lock # t) \/ (~hold /\ ~queued /\ ~late)
  PROVE  FpgaOwned'
<1>0. Main \in Threads /\ None \notin Threads
  BY ThreadsAssumption
<1>1. (Booting' <=> Booting) /\ (place'[Main] = "clear" => place[Main] = "clear")
  BY <1>0 DEF Moves, Booting
<1>2. CASE lock' = lock /\ lock # t
  BY <1>1, <1>2 DEF FpgaOwned, Moves, ServerTypes
<1>3. CASE ~hold /\ ~queued /\ ~late
  BY <1>1, <1>3 DEF FpgaOwned, Moves
<1> QED
  BY <1>2, <1>3

\* Whoever has the lock and is not between its pulses and their end leaves the
\* FPGA idle.
LEMMA FpgaIdle ==
  ASSUME ServerTypes, PlacesOK, FpgaOwned, ~Booting,
         lock = None \/ place[lock] \in {"detect", "init", "rep", "end", "unlock", "hold"}
  PROVE  ~hold /\ ~queued /\ ~late
BY DEF FpgaOwned

LEMMA FpgaStep ==
  ASSUME ServerTypes, PlacesOK, FpgaOwned, Next
  PROVE  FpgaOwned'
<1> USE DEF seqVars
<1>0. Main \in Threads /\ None \notin Threads
  BY ThreadsAssumption
<1>00. place \in [Threads -> Places] /\ job \in [Threads -> AnyJob]
  BY DEF ServerTypes
<1>01. \A t \in Threads : (lock = t <=> Locking(t)) /\ KindHere(t) /\ OwnKinds(t)
  BY DEF PlacesOK, LockOwned
<1>02. \A t \in Threads : place[t] \notin {"off", "boot", "clear"} => ~Booting
  BY <1>0 DEF PlacesOK, StartsAlone, Booting
<1>1. ASSUME NEW t \in Threads, Startup(t) PROVE FpgaOwned'
  <2>1. Moves(t) /\ UNCHANGED <<hold, queued, late>> /\ lock' = lock
        /\ place[t] \notin {"boot", "clear"} /\ ~Locking(t)
        /\ place'[t] \notin {"boot", "clear", "code", "release"}
    BY <1>00, <1>01, <1>1 DEF Startup, Moves, Locking, KindHere
  <2> QED
    BY <1>01, <2>1, FpgaKeep
<1>2. ASSUME NEW t \in Threads, Save(t) PROVE FpgaOwned'
  <2>1. Moves(t) /\ UNCHANGED <<hold, queued, late>> /\ lock' = lock
        /\ place[t] \notin {"boot", "clear"} /\ ~Locking(t)
        /\ place'[t] \notin {"boot", "clear", "code", "release"}
    BY <1>00, <1>01, <1>2 DEF Save, Moves, Locking, KindHere
  <2> QED
    BY <1>01, <2>1, FpgaKeep
<1>3. ASSUME NEW t \in Threads, Reply(t) PROVE FpgaOwned'
  <2>1. Moves(t) /\ UNCHANGED <<hold, queued, late>> /\ lock' = lock
        /\ place[t] \notin {"boot", "clear"} /\ ~Locking(t)
        /\ place'[t] \notin {"boot", "clear", "code", "release"}
    BY <1>00, <1>01, <1>3 DEF Reply, Moves, Locking, KindHere
  <2> QED
    BY <1>01, <2>1, FpgaKeep
<1>4. ASSUME NEW t \in Threads, Parse(t) PROVE FpgaOwned'
  <2>1. Moves(t) /\ UNCHANGED <<hold, queued, late>> /\ lock' = lock
        /\ place[t] \notin {"boot", "clear"} /\ ~Locking(t)
        /\ place'[t] \notin {"boot", "clear", "code", "release"}
    BY <1>00, <1>01, <1>4 DEF Parse, Moves, Locking, KindHere
  <2> QED
    BY <1>01, <2>1, FpgaKeep
<1>5. ASSUME NEW t \in Threads, ZmqReceive(t) PROVE FpgaOwned'
  <2>1. Moves(t) /\ UNCHANGED <<hold, queued, late>> /\ lock' = lock
        /\ place[t] \notin {"boot", "clear"} /\ ~Locking(t)
        /\ place'[t] \notin {"boot", "clear", "code", "release"}
    BY <1>00, <1>01, <1>5 DEF ZmqReceive, Moves, Locking, KindHere
  <2> QED
    BY <1>01, <2>1, FpgaKeep
<1>6. ASSUME NEW t \in Threads, ZmqAnswer(t) PROVE FpgaOwned'
  <2>1. Moves(t) /\ UNCHANGED <<hold, queued, late>> /\ lock' = lock
        /\ place[t] \notin {"boot", "clear"} /\ ~Locking(t)
        /\ place'[t] \notin {"boot", "clear", "code", "release"}
    BY <1>00, <1>01, <1>6 DEF ZmqAnswer, Moves, Locking, KindHere
  <2> QED
    BY <1>01, <2>1, FpgaKeep
<1>7. ASSUME NEW t \in Threads, ZmqRun(t) PROVE FpgaOwned'
  <2>1. Moves(t) /\ UNCHANGED <<hold, queued, late>> /\ lock' = lock
        /\ place[t] \notin {"boot", "clear"} /\ ~Locking(t)
        /\ place'[t] \notin {"boot", "clear", "code", "release"}
    BY <1>00, <1>01, <1>7 DEF ZmqRun, Moves, Locking, KindHere
  <2> QED
    BY <1>01, <2>1, FpgaKeep
<1>8. ASSUME NEW t \in Threads, Drain(t) PROVE FpgaOwned'
  <2>1. Moves(t) /\ UNCHANGED <<hold, queued, late>> /\ lock' = lock
        /\ place[t] \notin {"boot", "clear"} /\ ~Locking(t)
        /\ place'[t] \notin {"boot", "clear", "code", "release"}
    BY <1>00, <1>01, <1>8 DEF Drain, Moves, Locking, KindHere
  <2> QED
    BY <1>01, <2>1, FpgaKeep
<1>9. ASSUME NEW t \in Threads, NEW j \in Jobs, Accept(t, j) PROVE FpgaOwned'
  <2>1. Moves(t) /\ UNCHANGED <<hold, queued, late>> /\ lock' = lock
        /\ place[t] \notin {"boot", "clear"} /\ ~Locking(t)
        /\ place'[t] \notin {"boot", "clear", "code", "release"}
    BY <1>00, <1>01, <1>9 DEF Accept, Moves, Locking, KindHere
  <2> QED
    BY <1>01, <2>1, FpgaKeep
<1>10. ASSUME NEW t \in Threads, LastRep(t) PROVE FpgaOwned'
  <2>1. Moves(t) /\ UNCHANGED <<hold, queued, late>>
        /\ place[t] \notin {"off", "boot", "clear"}
        /\ place'[t] \notin {"boot", "clear", "code", "release"}
        /\ (lock = None \/ (lock = t /\ place[t] \in {"detect", "init", "rep", "end", "unlock", "hold"}))
    BY <1>00, <1>01, <1>10 DEF LastRep, Moves, Locking, KindHere
  <2>2. ~hold /\ ~queued /\ ~late
    BY <1>02, <2>1, FpgaIdle
  <2> QED
    BY <2>1, <2>2, FpgaKeep
<1>11. ASSUME NEW t \in Threads, EndSeq(t) PROVE FpgaOwned'
  <2>1. Moves(t) /\ UNCHANGED <<hold, queued, late>>
        /\ place[t] \notin {"off", "boot", "clear"}
        /\ place'[t] \notin {"boot", "clear", "code", "release"}
        /\ (lock = None \/ (lock = t /\ place[t] \in {"detect", "init", "rep", "end", "unlock", "hold"}))
    BY <1>00, <1>01, <1>11 DEF EndSeq, Moves, Locking, KindHere
  <2>2. ~hold /\ ~queued /\ ~late
    BY <1>02, <2>1, FpgaIdle
  <2> QED
    BY <2>1, <2>2, FpgaKeep
<1>12. ASSUME NEW t \in Threads, Unlock(t) PROVE FpgaOwned'
  <2>1. Moves(t) /\ UNCHANGED <<hold, queued, late>>
        /\ place[t] \notin {"off", "boot", "clear"}
        /\ place'[t] \notin {"boot", "clear", "code", "release"}
        /\ (lock = None \/ (lock = t /\ place[t] \in {"detect", "init", "rep", "end", "unlock", "hold"}))
    BY <1>00, <1>01, <1>12 DEF Unlock, Moves, Locking, KindHere
  <2>2. ~hold /\ ~queued /\ ~late
    BY <1>02, <2>1, FpgaIdle
  <2> QED
    BY <2>1, <2>2, FpgaKeep
<1>13. ASSUME NEW t \in Threads, TakeLock(t) PROVE FpgaOwned'
  <2>1. Moves(t) /\ UNCHANGED <<hold, queued, late>>
        /\ place[t] \notin {"off", "boot", "clear"}
        /\ place'[t] \notin {"boot", "clear", "code", "release"}
        /\ (lock = None \/ (lock = t /\ place[t] \in {"detect", "init", "rep", "end", "unlock", "hold"}))
    BY <1>00, <1>01, <1>13 DEF TakeLock, Moves, Locking, KindHere
  <2>2. ~hold /\ ~queued /\ ~late
    BY <1>02, <2>1, FpgaIdle
  <2> QED
    BY <2>1, <2>2, FpgaKeep
<1>14. ASSUME NEW t \in Threads, Detect(t) PROVE FpgaOwned'
  <2>1. Moves(t) /\ UNCHANGED <<hold, queued, late, lock>> /\ place[t] = "detect"
        /\ place'[t] \in {"detect", "init"} /\ lock = t
    BY <1>00, <1>01, <1>14 DEF Detect, Moves, Locking, KindHere
  <2>2. ~hold /\ ~queued /\ ~late
    BY <1>02, <2>1, FpgaIdle
  <2> QED
    BY <2>1, <2>2, FpgaKeep
<1>15. ASSUME NEW t \in Threads, InitDone(t) PROVE FpgaOwned'
  <2>1. Moves(t) /\ UNCHANGED <<hold, queued, late>> /\ place[t] = "init"
        /\ place'[t] \notin {"boot", "clear", "code", "release"}
        /\ (lock' = lock \/ lock = t)
    BY <1>00, <1>01, <1>15 DEF InitDone, Moves, Locking, KindHere
  <2>2. lock = t => ~hold /\ ~queued /\ ~late
    BY <1>02, <2>1, FpgaIdle
  <2> QED
    BY <2>1, <2>2, FpgaKeep
<1>16. ASSUME NEW t \in Threads, Repeat(t) PROVE FpgaOwned'
  <2>1. /\ place[t] = "rep" /\ place'[t] = "pulses" /\ lock = t /\ lock' = t /\ late' = late
        /\ \A u \in Threads \ {t} : place'[u] = place[u]
    BY <1>00, <1>01, <1>16 DEF Repeat, Locking
  <2>2. ~Booting /\ ~Booting' /\ place'[Main] # "clear"
    BY <1>0, <1>02, <2>1 DEF Booting
  <2>3. \A u \in Threads \ {t} : place'[u] \notin {"code", "release"}
    BY <1>01, <2>1 DEF Locking
  <2> QED
    BY <1>0, <1>16, <2>1, <2>2, <2>3 DEF Repeat, FpgaOwned
<1>17. ASSUME NEW t \in Threads, RunList(t) PROVE FpgaOwned'
  <2>1. /\ place[t] = "pulses" /\ place'[t] = "finish" /\ lock = t /\ lock' = t /\ late' = late
        /\ \A u \in Threads \ {t} : place'[u] = place[u]
    BY <1>00, <1>01, <1>17 DEF RunList, Locking
  <2>2. ~Booting /\ ~Booting' /\ place'[Main] # "clear"
    BY <1>0, <1>02, <2>1 DEF Booting
  <2>3. \A u \in Threads \ {t} : place'[u] \notin {"code", "release"}
    BY <1>01, <2>1 DEF Locking
  <2> QED
    BY <1>0, <1>17, <2>1, <2>2, <2>3 DEF RunList, FpgaOwned
<1>18. ASSUME NEW t \in Threads, ReleaseHold(t) PROVE FpgaOwned'
  <2>1. /\ place[t] = "finish" /\ place'[t] = "await" /\ lock = t /\ lock' = t /\ late' = late
        /\ \A u \in Threads \ {t} : place'[u] = place[u]
    BY <1>00, <1>01, <1>18 DEF ReleaseHold, Locking
  <2>2. ~Booting /\ ~Booting' /\ place'[Main] # "clear"
    BY <1>0, <1>02, <2>1 DEF Booting
  <2>3. \A u \in Threads \ {t} : place'[u] \notin {"code", "release"}
    BY <1>01, <2>1 DEF Locking
  <2> QED
    BY <1>0, <1>18, <2>1, <2>2, <2>3 DEF ReleaseHold, FpgaOwned
<1>19. ASSUME NEW t \in Threads, HoldCode(t) PROVE FpgaOwned'
  <2>1. /\ place[t] = "hold" /\ place'[t] = "code" /\ lock = t /\ lock' = t /\ late' = late
        /\ \A u \in Threads \ {t} : place'[u] = place[u]
    BY <1>00, <1>01, <1>19 DEF HoldCode, Locking
  <2>2. ~Booting /\ ~Booting' /\ place'[Main] # "clear"
    BY <1>0, <1>02, <2>1 DEF Booting
  <2>3. \A u \in Threads \ {t} : place'[u] \notin {"code", "release"}
    BY <1>01, <2>1 DEF Locking
  <2> QED
    BY <1>0, <1>19, <2>1, <2>2, <2>3 DEF HoldCode, FpgaOwned
<1>20. ASSUME NEW t \in Threads, RunCode(t) PROVE FpgaOwned'
  <2>1. /\ place[t] = "code" /\ place'[t] = "release" /\ lock = t /\ lock' = t /\ late' = late
        /\ \A u \in Threads \ {t} : place'[u] = place[u]
    BY <1>00, <1>01, <1>20 DEF RunCode, Locking
  <2>2. ~Booting /\ ~Booting' /\ place'[Main] # "clear"
    BY <1>0, <1>02, <2>1 DEF Booting
  <2>3. \A u \in Threads \ {t} : place'[u] \notin {"code", "release"}
    BY <1>01, <2>1 DEF Locking
  <2> QED
    BY <1>0, <1>20, <2>1, <2>2, <2>3 DEF RunCode, FpgaOwned
<1>21. ASSUME NEW t \in Threads, ReleaseCode(t) PROVE FpgaOwned'
  <2>1. /\ place[t] = "release" /\ place'[t] = "finish" /\ lock = t /\ lock' = t /\ late' = late
        /\ \A u \in Threads \ {t} : place'[u] = place[u]
    BY <1>00, <1>01, <1>21 DEF ReleaseCode, Locking
  <2>2. ~Booting /\ ~Booting' /\ place'[Main] # "clear"
    BY <1>0, <1>02, <2>1 DEF Booting
  <2>3. \A u \in Threads \ {t} : place'[u] \notin {"code", "release"}
    BY <1>01, <2>1 DEF Locking
  <2> QED
    BY <1>0, <1>21, <2>1, <2>2, <2>3 DEF ReleaseCode, FpgaOwned
<1>22. ASSUME NEW t \in Threads, RepDone(t) PROVE FpgaOwned'
  <2>1. /\ place[t] = "await" /\ place'[t] \in {"end", "rep"} /\ lock = t /\ lock' = t
        /\ ~late' /\ ~queued' /\ hold' = hold
        /\ \A u \in Threads \ {t} : place'[u] = place[u]
    BY <1>00, <1>01, <1>22 DEF RepDone, Locking, Epilogue
  <2>2. ~Booting /\ ~Booting' /\ place'[Main] # "clear"
    BY <1>0, <1>02, <2>1 DEF Booting
  <2>3. \A u \in Threads : place'[u] \notin {"code", "release"}
    BY <1>01, <2>1 DEF Locking
  <2>4. ~hold
    BY <2>1, <2>2 DEF FpgaOwned
  <2> QED
    BY <2>1, <2>2, <2>3, <2>4 DEF FpgaOwned
<1>23. ASSUME NEW t \in Threads, CodeDone(t) PROVE FpgaOwned'
  <2>1. /\ place[t] = "await" /\ place'[t] \in {"init"} /\ lock = t /\ lock' = t
        /\ ~late' /\ ~queued' /\ hold' = hold
        /\ \A u \in Threads \ {t} : place'[u] = place[u]
    BY <1>00, <1>01, <1>23 DEF CodeDone, Locking, Epilogue
  <2>2. ~Booting /\ ~Booting' /\ place'[Main] # "clear"
    BY <1>0, <1>02, <2>1 DEF Booting
  <2>3. \A u \in Threads : place'[u] \notin {"code", "release"}
    BY <1>01, <2>1 DEF Locking
  <2>4. ~hold
    BY <2>1, <2>2 DEF FpgaOwned
  <2> QED
    BY <2>1, <2>2, <2>3, <2>4 DEF FpgaOwned
<1>24. ASSUME NEW t \in Threads, Boot(t) PROVE FpgaOwned'
  <2>1. t = Main /\ place'[t] = "clear" /\ ~hold'
    BY <1>00, <1>01, <1>24 DEF Boot, OwnKinds, InitHold
  <2> QED
    BY <2>1 DEF FpgaOwned, Booting
<1>25. ASSUME NEW t \in Threads, Clear(t) PROVE FpgaOwned'
  <2>1. /\ t = Main /\ place[t] = "clear" /\ place'[t] = "detect" /\ hold' = hold /\ ~queued' /\ ~late'
        /\ \A u \in Threads \ {t} : place'[u] = place[u]
    BY <1>00, <1>01, <1>25 DEF Clear, OwnKinds
  <2>2. ~hold /\ \A u \in Threads : place'[u] \notin {"code", "release"}
    BY <2>1 DEF FpgaOwned, PlacesOK, StartsAlone
  <2> QED
    BY <2>1, <2>2 DEF FpgaOwned
<1>26. ASSUME NEW t \in Threads, Serve(t) PROVE FpgaOwned'
  <2>1. UNCHANGED <<hold, queued, late>> /\ t = Main /\ place[t] \in {"startup", "ready"}
    BY <1>01, <1>26 DEF Serve, OwnKinds
  <2>2. lock = None
    <3>1. \A u \in Threads : ~Locking(u)
      BY <2>1 DEF PlacesOK, StartsAlone, Locking
    <3> QED
      BY <1>01, <3>1 DEF ServerTypes
  <2>3. ~hold /\ ~queued /\ ~late
    BY <1>02, <2>1, <2>2, FpgaIdle
  <2>4. \A u \in Threads : place'[u] = (IF u = Main THEN "joined" ELSE "idle")
    BY <1>26 DEF Serve
  <2>5. \A u \in Threads : place'[u] \in {"joined", "idle"}
    BY <2>4
  <2> QED
    BY <1>0, <2>1, <2>3, <2>5 DEF FpgaOwned
<1>27. ASSUME NEW t \in Threads, InitNext(t) PROVE FpgaOwned'
  BY <1>27 DEF InitNext, FpgaOwned, Booting
<1>28. ASSUME NEW t \in Threads, InitRun(t) PROVE FpgaOwned'
  BY <1>28 DEF InitRun, FpgaOwned, Booting
<1>29. CASE Fpga
  <2>1. UNCHANGED <<place, lock, hold>> /\ queued /\ ~hold /\ ~queued'
    BY <1>29 DEF Fpga
  <2>2. CASE Booting
    BY <2>1, <2>2 DEF FpgaOwned, Booting
  <2>3. CASE ~Booting
    <3>1. lock # None /\ place[lock] \in {"release", "finish", "await"} /\ lock \in Threads
      BY <2>1, <2>3 DEF FpgaOwned, ServerTypes
    <3>2. place[lock] # "release"
      BY <2>1, <2>3, <3>1 DEF FpgaOwned
    <3> QED
      BY <2>1, <2>3, <3>1, <3>2 DEF FpgaOwned, Booting
  <2> QED
    BY <2>2, <2>3
<1>30. CASE Usr1
  BY <1>30 DEF Usr1, FpgaOwned, Booting
<1>31. CASE LosePower
  BY <1>31 DEF LosePower, FpgaOwned, Booting
<1>32. CASE Kill
  <2>1. \A u \in Threads : place'[u] = (IF u = Main THEN "boot" ELSE "off")
    BY <1>32 DEF Kill
  <2> QED
    BY <1>0, <2>1 DEF FpgaOwned, Booting
<1> QED
  BY <1>1, <1>2, <1>3, <1>4, <1>5, <1>6, <1>7, <1>8, <1>9, <1>10, <1>11,
     <1>12, <1>13, <1>14, <1>15, <1>16, <1>17, <1>18, <1>19, <1>20, <1>21,
     <1>22, <1>23, <1>24, <1>25, <1>26, <1>27, <1>28, <1>29, <1>30, <1>31,
     <1>32 DEF Next, Run

\* A step of a thread that does not write the status, and ends no sequence.
LEMMA StatusKeep ==
  ASSUME ServerTypes, StatusOwned, NEW t \in Threads, Moves(t), status' = status,
         place[t] # "joined", place'[t] # "joined",
         Ending(t) => Ending(t)',
         Repeating(t)' /\ job'[t].long /\ InSeq(t)' => Repeating(t) /\ job[t].long /\ InSeq(t)
  PROVE  StatusOwned'
<1>0. Main \in Threads
  BY ThreadsAssumption
<1>1. place'[Main] = "joined" => place[Main] = "joined"
  BY <1>0 DEF Moves
<1>2. \A u \in Threads : Ending(u) => Ending(u)'
  BY DEF Moves, Ending
<1>3. \A u \in Threads : Repeating(u)' /\ job'[u].long /\ InSeq(u)'
                         => Repeating(u) /\ job[u].long /\ InSeq(u)
  BY DEF Moves, Repeating, InSeq
<1> QED
  BY <1>1, <1>2, <1>3 DEF StatusOwned

LEMMA StatusStay ==
  ASSUME StatusOwned, UNCHANGED <<place, job, status>>
  PROVE  StatusOwned'
BY DEF StatusOwned, Ending, Repeating, InSeq

LEMMA StatusStep ==
  ASSUME ServerTypes, PlacesOK, StatusOwned, Next
  PROVE  StatusOwned'
<1> USE DEF seqVars
<1>0. Main \in Threads /\ None \notin Threads
  BY ThreadsAssumption
<1>00. place \in [Threads -> Places] /\ job \in [Threads -> AnyJob]
  BY DEF ServerTypes
<1>01. \A t \in Threads : (lock = t <=> Locking(t)) /\ KindHere(t) /\ OwnKinds(t)
  BY DEF PlacesOK, LockOwned
<1>1. ASSUME NEW t \in Threads, Clear(t) PROVE StatusOwned'
  <2>1. Moves(t) /\ status' = status
    BY <1>00, <1>1 DEF Clear, Moves
  <2>2. /\ place[t] # "joined" /\ place'[t] # "joined" /\ (Ending(t) => Ending(t)')
        /\ Repeating(t)' /\ InSeq(t)' => place[t] \in {"pulses", "finish"} /\ job' = job
    BY <1>00, <1>01, <1>1 DEF Clear, KindHere, Ending, Repeating, InSeq, NoJob
  <2>3. Repeating(t)' /\ job'[t].long /\ InSeq(t)' => Repeating(t) /\ job[t].long /\ InSeq(t)
    BY <2>2 DEF Repeating, InSeq
  <2> QED
    BY <2>1, <2>2, <2>3, StatusKeep
<1>2. ASSUME NEW t \in Threads, InitDone(t) PROVE StatusOwned'
  <2>1. Moves(t) /\ status' = status
    BY <1>00, <1>2 DEF InitDone, Moves
  <2>2. /\ place[t] # "joined" /\ place'[t] # "joined" /\ (Ending(t) => Ending(t)')
        /\ Repeating(t)' /\ InSeq(t)' => place[t] \in {"pulses", "finish"} /\ job' = job
    BY <1>00, <1>01, <1>2 DEF InitDone, KindHere, Ending, Repeating, InSeq, NoJob
  <2>3. Repeating(t)' /\ job'[t].long /\ InSeq(t)' => Repeating(t) /\ job[t].long /\ InSeq(t)
    BY <2>2 DEF Repeating, InSeq
  <2> QED
    BY <2>1, <2>2, <2>3, StatusKeep
<1>3. ASSUME NEW t \in Threads, Save(t) PROVE StatusOwned'
  <2>1. Moves(t) /\ status' = status
    BY <1>00, <1>3 DEF Save, Moves
  <2>2. /\ place[t] # "joined" /\ place'[t] # "joined" /\ (Ending(t) => Ending(t)')
        /\ Repeating(t)' /\ InSeq(t)' => place[t] \in {"pulses", "finish"} /\ job' = job
    BY <1>00, <1>01, <1>3 DEF Save, KindHere, Ending, Repeating, InSeq, NoJob
  <2>3. Repeating(t)' /\ job'[t].long /\ InSeq(t)' => Repeating(t) /\ job[t].long /\ InSeq(t)
    BY <2>2 DEF Repeating, InSeq
  <2> QED
    BY <2>1, <2>2, <2>3, StatusKeep
<1>4. ASSUME NEW t \in Threads, Parse(t) PROVE StatusOwned'
  <2>1. Moves(t) /\ status' = status
    BY <1>00, <1>4 DEF Parse, Moves
  <2>2. /\ place[t] # "joined" /\ place'[t] # "joined" /\ (Ending(t) => Ending(t)')
        /\ Repeating(t)' /\ InSeq(t)' => place[t] \in {"pulses", "finish"} /\ job' = job
    BY <1>00, <1>01, <1>4 DEF Parse, KindHere, Ending, Repeating, InSeq, NoJob
  <2>3. Repeating(t)' /\ job'[t].long /\ InSeq(t)' => Repeating(t) /\ job[t].long /\ InSeq(t)
    BY <2>2 DEF Repeating, InSeq
  <2> QED
    BY <2>1, <2>2, <2>3, StatusKeep
<1>5. ASSUME NEW t \in Threads, TakeLock(t) PROVE StatusOwned'
  <2>1. Moves(t) /\ status' = status
    BY <1>00, <1>5 DEF TakeLock, Moves
  <2>2. /\ place[t] # "joined" /\ place'[t] # "joined" /\ (Ending(t) => Ending(t)')
        /\ Repeating(t)' /\ InSeq(t)' => place[t] \in {"pulses", "finish"} /\ job' = job
    BY <1>00, <1>01, <1>5 DEF TakeLock, KindHere, Ending, Repeating, InSeq, NoJob
  <2>3. Repeating(t)' /\ job'[t].long /\ InSeq(t)' => Repeating(t) /\ job[t].long /\ InSeq(t)
    BY <2>2 DEF Repeating, InSeq
  <2> QED
    BY <2>1, <2>2, <2>3, StatusKeep
<1>6. ASSUME NEW t \in Threads, RunList(t) PROVE StatusOwned'
  <2>1. Moves(t) /\ status' = status
    BY <1>00, <1>6 DEF RunList, Moves
  <2>2. /\ place[t] # "joined" /\ place'[t] # "joined" /\ (Ending(t) => Ending(t)')
        /\ Repeating(t)' /\ InSeq(t)' => place[t] \in {"pulses", "finish"} /\ job' = job
    BY <1>00, <1>01, <1>6 DEF RunList, KindHere, Ending, Repeating, InSeq, NoJob
  <2>3. Repeating(t)' /\ job'[t].long /\ InSeq(t)' => Repeating(t) /\ job[t].long /\ InSeq(t)
    BY <2>2 DEF Repeating, InSeq
  <2> QED
    BY <2>1, <2>2, <2>3, StatusKeep
<1>7. ASSUME NEW t \in Threads, ReleaseHold(t) PROVE StatusOwned'
  <2>1. Moves(t) /\ status' = status
    BY <1>00, <1>7 DEF ReleaseHold, Moves
  <2>2. /\ place[t] # "joined" /\ place'[t] # "joined" /\ (Ending(t) => Ending(t)')
        /\ Repeating(t)' /\ InSeq(t)' => place[t] \in {"pulses", "finish"} /\ job' = job
    BY <1>00, <1>01, <1>7 DEF ReleaseHold, KindHere, Ending, Repeating, InSeq, NoJob
  <2>3. Repeating(t)' /\ job'[t].long /\ InSeq(t)' => Repeating(t) /\ job[t].long /\ InSeq(t)
    BY <2>2 DEF Repeating, InSeq
  <2> QED
    BY <2>1, <2>2, <2>3, StatusKeep
<1>8. ASSUME NEW t \in Threads, RepDone(t) PROVE StatusOwned'
  <2>1. Moves(t) /\ status' = status
    BY <1>00, <1>8 DEF RepDone, Moves
  <2>2. /\ place[t] # "joined" /\ place'[t] # "joined" /\ (Ending(t) => Ending(t)')
        /\ Repeating(t)' /\ InSeq(t)' => place[t] \in {"pulses", "finish"} /\ job' = job
    BY <1>00, <1>01, <1>8 DEF RepDone, KindHere, Ending, Repeating, InSeq, NoJob
  <2>3. Repeating(t)' /\ job'[t].long /\ InSeq(t)' => Repeating(t) /\ job[t].long /\ InSeq(t)
    BY <2>2 DEF Repeating, InSeq
  <2> QED
    BY <2>1, <2>2, <2>3, StatusKeep
<1>9. ASSUME NEW t \in Threads, LastRep(t) PROVE StatusOwned'
  <2>1. Moves(t) /\ status' = status
    BY <1>00, <1>9 DEF LastRep, Moves
  <2>2. /\ place[t] # "joined" /\ place'[t] # "joined" /\ (Ending(t) => Ending(t)')
        /\ Repeating(t)' /\ InSeq(t)' => place[t] \in {"pulses", "finish"} /\ job' = job
    BY <1>00, <1>01, <1>9 DEF LastRep, KindHere, Ending, Repeating, InSeq, NoJob
  <2>3. Repeating(t)' /\ job'[t].long /\ InSeq(t)' => Repeating(t) /\ job[t].long /\ InSeq(t)
    BY <2>2 DEF Repeating, InSeq
  <2> QED
    BY <2>1, <2>2, <2>3, StatusKeep
<1>10. ASSUME NEW t \in Threads, Unlock(t) PROVE StatusOwned'
  <2>1. Moves(t) /\ status' = status
    BY <1>00, <1>10 DEF Unlock, Moves
  <2>2. /\ place[t] # "joined" /\ place'[t] # "joined" /\ (Ending(t) => Ending(t)')
        /\ Repeating(t)' /\ InSeq(t)' => place[t] \in {"pulses", "finish"} /\ job' = job
    BY <1>00, <1>01, <1>10 DEF Unlock, KindHere, Ending, Repeating, InSeq, NoJob
  <2>3. Repeating(t)' /\ job'[t].long /\ InSeq(t)' => Repeating(t) /\ job[t].long /\ InSeq(t)
    BY <2>2 DEF Repeating, InSeq
  <2> QED
    BY <2>1, <2>2, <2>3, StatusKeep
<1>11. ASSUME NEW t \in Threads, ZmqAnswer(t) PROVE StatusOwned'
  <2>1. Moves(t) /\ status' = status
    BY <1>00, <1>11 DEF ZmqAnswer, Moves
  <2>2. /\ place[t] # "joined" /\ place'[t] # "joined" /\ (Ending(t) => Ending(t)')
        /\ Repeating(t)' /\ InSeq(t)' => place[t] \in {"pulses", "finish"} /\ job' = job
    BY <1>00, <1>01, <1>11 DEF ZmqAnswer, KindHere, Ending, Repeating, InSeq, NoJob
  <2>3. Repeating(t)' /\ job'[t].long /\ InSeq(t)' => Repeating(t) /\ job[t].long /\ InSeq(t)
    BY <2>2 DEF Repeating, InSeq
  <2> QED
    BY <2>1, <2>2, <2>3, StatusKeep
<1>12. ASSUME NEW t \in Threads, HoldCode(t) PROVE StatusOwned'
  <2>1. Moves(t) /\ status' = status
    BY <1>00, <1>12 DEF HoldCode, Moves
  <2>2. /\ place[t] # "joined" /\ place'[t] # "joined" /\ (Ending(t) => Ending(t)')
        /\ Repeating(t)' /\ InSeq(t)' => place[t] \in {"pulses", "finish"} /\ job' = job
    BY <1>00, <1>01, <1>12 DEF HoldCode, KindHere, Ending, Repeating, InSeq, NoJob
  <2>3. Repeating(t)' /\ job'[t].long /\ InSeq(t)' => Repeating(t) /\ job[t].long /\ InSeq(t)
    BY <2>2 DEF Repeating, InSeq
  <2> QED
    BY <2>1, <2>2, <2>3, StatusKeep
<1>13. ASSUME NEW t \in Threads, RunCode(t) PROVE StatusOwned'
  <2>1. Moves(t) /\ status' = status
    BY <1>00, <1>13 DEF RunCode, Moves
  <2>2. /\ place[t] # "joined" /\ place'[t] # "joined" /\ (Ending(t) => Ending(t)')
        /\ Repeating(t)' /\ InSeq(t)' => place[t] \in {"pulses", "finish"} /\ job' = job
    BY <1>00, <1>01, <1>13 DEF RunCode, KindHere, Ending, Repeating, InSeq, NoJob
  <2>3. Repeating(t)' /\ job'[t].long /\ InSeq(t)' => Repeating(t) /\ job[t].long /\ InSeq(t)
    BY <2>2 DEF Repeating, InSeq
  <2> QED
    BY <2>1, <2>2, <2>3, StatusKeep
<1>14. ASSUME NEW t \in Threads, ReleaseCode(t) PROVE StatusOwned'
  <2>1. Moves(t) /\ status' = status
    BY <1>00, <1>14 DEF ReleaseCode, Moves
  <2>2. /\ place[t] # "joined" /\ place'[t] # "joined" /\ (Ending(t) => Ending(t)')
        /\ Repeating(t)' /\ InSeq(t)' => place[t] \in {"pulses", "finish"} /\ job' = job
    BY <1>00, <1>01, <1>14 DEF ReleaseCode, KindHere, Ending, Repeating, InSeq, NoJob
  <2>3. Repeating(t)' /\ job'[t].long /\ InSeq(t)' => Repeating(t) /\ job[t].long /\ InSeq(t)
    BY <2>2 DEF Repeating, InSeq
  <2> QED
    BY <2>1, <2>2, <2>3, StatusKeep
<1>15. ASSUME NEW t \in Threads, CodeDone(t) PROVE StatusOwned'
  <2>1. Moves(t) /\ status' = status
    BY <1>00, <1>15 DEF CodeDone, Moves
  <2>2. /\ place[t] # "joined" /\ place'[t] # "joined" /\ (Ending(t) => Ending(t)')
        /\ Repeating(t)' /\ InSeq(t)' => place[t] \in {"pulses", "finish"} /\ job' = job
    BY <1>00, <1>01, <1>15 DEF CodeDone, KindHere, Ending, Repeating, InSeq, NoJob
  <2>3. Repeating(t)' /\ job'[t].long /\ InSeq(t)' => Repeating(t) /\ job[t].long /\ InSeq(t)
    BY <2>2 DEF Repeating, InSeq
  <2> QED
    BY <2>1, <2>2, <2>3, StatusKeep
<1>16. ASSUME NEW t \in Threads, ZmqReceive(t) PROVE StatusOwned'
  <2>1. Moves(t) /\ status' = status
    BY <1>00, <1>16 DEF ZmqReceive, Moves
  <2>2. /\ place[t] # "joined" /\ place'[t] # "joined" /\ (Ending(t) => Ending(t)')
        /\ Repeating(t)' /\ InSeq(t)' => place[t] \in {"pulses", "finish"} /\ job' = job
    BY <1>00, <1>01, <1>16 DEF ZmqReceive, KindHere, Ending, Repeating, InSeq, NoJob
  <2>3. Repeating(t)' /\ job'[t].long /\ InSeq(t)' => Repeating(t) /\ job[t].long /\ InSeq(t)
    BY <2>2 DEF Repeating, InSeq
  <2> QED
    BY <2>1, <2>2, <2>3, StatusKeep
<1>17. ASSUME NEW t \in Threads, Startup(t) PROVE StatusOwned'
  <2>1. Moves(t) /\ status' = status /\ place[t] \notin {"joined", "lock", "hold", "code", "release",
          "finish", "await", "init", "end", "rep", "pulses"}
    BY <1>00, <1>17 DEF Startup, Moves
  <2>2. place'[t] \in {"init"}
    BY <1>00, <1>17 DEF Startup
  <2>3. ~Ending(t) /\ ~InSeq(t)'
    BY <2>1, <2>2 DEF Ending, InSeq
  <2> QED
    BY <2>1, <2>2, <2>3, StatusKeep
<1>18. ASSUME NEW t \in Threads, Reply(t) PROVE StatusOwned'
  <2>1. Moves(t) /\ status' = status /\ place[t] \notin {"joined", "lock", "hold", "code", "release",
          "finish", "await", "init", "end", "rep", "pulses"}
    BY <1>00, <1>18 DEF Reply, Moves
  <2>2. place'[t] \in {"ready", "idle"}
    BY <1>00, <1>18 DEF Reply
  <2>3. ~Ending(t) /\ ~InSeq(t)'
    BY <2>1, <2>2 DEF Ending, InSeq
  <2> QED
    BY <2>1, <2>2, <2>3, StatusKeep
<1>19. ASSUME NEW t \in Threads, Drain(t) PROVE StatusOwned'
  <2>1. Moves(t) /\ status' = status /\ place[t] \notin {"joined", "lock", "hold", "code", "release",
          "finish", "await", "init", "end", "rep", "pulses"}
    BY <1>00, <1>19 DEF Drain, Moves
  <2>2. place'[t] \in {"idle"}
    BY <1>00, <1>19 DEF Drain
  <2>3. ~Ending(t) /\ ~InSeq(t)'
    BY <2>1, <2>2 DEF Ending, InSeq
  <2> QED
    BY <2>1, <2>2, <2>3, StatusKeep
<1>20. ASSUME NEW t \in Threads, NEW j \in Jobs, Accept(t, j) PROVE StatusOwned'
  <2>1. Moves(t) /\ status' = status /\ place[t] \notin {"joined", "lock", "hold", "code", "release",
          "finish", "await", "init", "end", "rep", "pulses"}
    BY <1>00, <1>20 DEF Accept, Moves
  <2>2. place'[t] \in {"init", "save"}
    BY <1>00, <1>20 DEF Accept
  <2>3. ~Ending(t) /\ ~InSeq(t)'
    BY <2>1, <2>2 DEF Ending, InSeq
  <2> QED
    BY <2>1, <2>2, <2>3, StatusKeep
<1>21. ASSUME NEW t \in Threads, Detect(t) PROVE StatusOwned'
  <2>1. CASE todo[t] = <<>>
    <3>1. Moves(t) /\ status' = status /\ place[t] = "detect" /\ place'[t] = "init"
          /\ Is(t, "init_system")
      BY <1>00, <1>01, <1>21, <2>1 DEF Detect, Moves, KindHere
    <3>2. ~Ending(t) /\ ~InSeq(t)'
      BY <3>1 DEF Ending, InSeq
    <3> QED
      BY <3>1, <3>2, StatusKeep
  <2>2. CASE todo[t] # <<>>
    BY <1>21, <2>2, StatusStay DEF Detect
  <2> QED
    BY <2>1, <2>2
<1>22. ASSUME NEW t \in Threads, Boot(t) PROVE StatusOwned'
  <2>1. /\ t = Main /\ place'[Main] = "clear"
        /\ \A u \in Threads \ {Main} : place'[u] = place[u] /\ place[u] = "off"
    BY <1>00, <1>01, <1>22 DEF Boot, OwnKinds, PlacesOK, StartsAlone
  <2>2. \A u \in Threads : ~InSeq(u)'
    BY <2>1 DEF InSeq
  <2> QED
    BY <2>1, <2>2 DEF StatusOwned
<1>23. ASSUME NEW t \in Threads, Serve(t) PROVE StatusOwned'
  <2>1. /\ status' = "Idle"
        /\ \A u \in Threads : place'[u] = (IF u = Main THEN "joined" ELSE "idle")
    BY <1>23 DEF Serve
  <2>2. \A u \in Threads : place'[u] \in {"joined", "idle"}
    BY <2>1
  <2> QED
    BY <2>1, <2>2 DEF StatusOwned, InSeq
<1>24. ASSUME NEW t \in Threads, Repeat(t) PROVE StatusOwned'
  <2>1. /\ place'[t] = "pulses" /\ job' = job /\ Is(t, "runseq") /\ lock = t
        /\ \A u \in Threads \ {t} : place'[u] = place[u]
        /\ job[t].long => status' = "Running"
    BY <1>00, <1>01, <1>24 DEF Repeat, KindHere, Locking
  <2>2. Ending(t)'
    BY <2>1 DEF Ending
  <2>3. \A u \in Threads \ {t} : ~InSeq(u)'
    BY <1>01, <2>1 DEF InSeq, Locking
  <2> QED
    BY <2>1, <2>2, <2>3 DEF StatusOwned
<1>25. ASSUME NEW t \in Threads, EndSeq(t) PROVE StatusOwned'
  <2>1. /\ place'[t] = "unlock" /\ status' = "Idle" /\ lock = t
        /\ \A u \in Threads \ {t} : place'[u] = place[u]
    BY <1>00, <1>01, <1>25 DEF EndSeq, EndStatus, Locking
  <2>2. \A u \in Threads : ~InSeq(u)'
    BY <1>01, <2>1 DEF InSeq, Locking
  <2> QED
    BY <2>1, <2>2 DEF StatusOwned
<1>26. ASSUME NEW t \in Threads, ZmqRun(t) PROVE StatusOwned'
  <2>1. /\ place'[t] = "lock" /\ job'[t].kind = "run_seq" /\ Moves(t)
        /\ status' \in {"Running", status}
    BY <1>00, <1>01, <1>26 DEF ZmqRun, Moves
  <2>2. Ending(t)' /\ ~InSeq(t)'
    BY <2>1 DEF Ending, InSeq
  <2>3. \A u \in Threads : Repeating(u)' /\ job'[u].long /\ InSeq(u)'
                           => Repeating(u) /\ job[u].long /\ InSeq(u)
    BY <2>1, <2>2 DEF Moves, Repeating, InSeq
  <2> QED
    BY <2>1, <2>2, <2>3 DEF StatusOwned
<1>27. ASSUME NEW t \in Threads, InitNext(t) PROVE StatusOwned'
  BY <1>27, StatusStay DEF InitNext
<1>28. ASSUME NEW t \in Threads, InitRun(t) PROVE StatusOwned'
  BY <1>28, StatusStay DEF InitRun
<1>29. CASE Fpga
  BY <1>29, StatusStay DEF Fpga
<1>30. CASE Usr1
  BY <1>30, StatusStay DEF Usr1
<1>31. CASE LosePower
  BY <1>31, StatusStay DEF LosePower
<1>32. CASE Kill
  <2>1. \A u \in Threads : place'[u] = (IF u = Main THEN "boot" ELSE "off")
    BY <1>32 DEF Kill
  <2>2. \A u \in Threads : place'[u] \in {"boot", "off"}
    BY <2>1
  <2> QED
    BY <1>0, <2>2 DEF StatusOwned, InSeq
<1> QED
  BY <1>1, <1>2, <1>3, <1>4, <1>5, <1>6, <1>7, <1>8, <1>9, <1>10, <1>11,
     <1>12, <1>13, <1>14, <1>15, <1>16, <1>17, <1>18, <1>19, <1>20, <1>21,
     <1>22, <1>23, <1>24, <1>25, <1>26, <1>27, <1>28, <1>29, <1>30, <1>31,
     <1>32 DEF Next, Run

\* A step of another thread than ZMQ's.
LEMMA OwedKeep ==
  ASSUME OwedHere, NEW t \in Threads, t # Zmq, Moves(t), UNCHANGED zmqVars
  PROVE  OwedHere'
<1>1. place'[Zmq] = place[Zmq] /\ job'[Zmq] = job[Zmq]
  BY ThreadsAssumption DEF Moves
<1> QED
  BY <1>1 DEF OwedHere, zmqVars

LEMMA OwedStay ==
  ASSUME OwedHere, UNCHANGED <<place, job, zmqVars>>
  PROVE  OwedHere'
BY DEF OwedHere, zmqVars

LEMMA OwedStep ==
  ASSUME ServerTypes, PlacesOK, OwedHere, Next
  PROVE  OwedHere'
<1> USE DEF seqVars, zmqVars
<1>0. Main \in Threads /\ Zmq \in Threads /\ Main # Zmq /\ Zmq \notin Workers
  BY ThreadsAssumption
<1>00. place \in [Threads -> Places] /\ job \in [Threads -> AnyJob]
  BY DEF ServerTypes
<1>01. \A t \in Threads : KindHere(t) /\ OwnKinds(t)
  BY DEF PlacesOK
<1>02. \A t \in Threads : Is(t, "run_seq") \/ place[t] \in {"request", "release", "drain"} => t = Zmq
  BY <1>0, <1>01, ThreadsAssumption DEF KindHere, OwnKinds
<1>1. ASSUME NEW t \in Threads, Boot(t) PROVE OwedHere'
  <2>1. t # Zmq /\ Moves(t) /\ UNCHANGED zmqVars
    BY <1>0, <1>00, <1>01, <1>1 DEF Boot, Moves, KindHere, OwnKinds
  <2> QED
    BY <2>1, OwedKeep
<1>2. ASSUME NEW t \in Threads, Clear(t) PROVE OwedHere'
  <2>1. t # Zmq /\ Moves(t) /\ UNCHANGED zmqVars
    BY <1>0, <1>00, <1>01, <1>2 DEF Clear, Moves, KindHere, OwnKinds
  <2> QED
    BY <2>1, OwedKeep
<1>3. ASSUME NEW t \in Threads, Detect(t) PROVE OwedHere'
  <2>1. t # Zmq /\ Moves(t) /\ UNCHANGED zmqVars
    BY <1>0, <1>00, <1>01, <1>3 DEF Detect, Moves, KindHere, OwnKinds
  <2> QED
    BY <2>1, OwedKeep
<1>4. ASSUME NEW t \in Threads, Startup(t) PROVE OwedHere'
  <2>1. t # Zmq /\ Moves(t) /\ UNCHANGED zmqVars
    BY <1>0, <1>00, <1>01, <1>4 DEF Startup, Moves, KindHere, OwnKinds
  <2> QED
    BY <2>1, OwedKeep
<1>5. ASSUME NEW t \in Threads, Save(t) PROVE OwedHere'
  <2>1. t # Zmq /\ Moves(t) /\ UNCHANGED zmqVars
    BY <1>0, <1>00, <1>01, <1>5 DEF Save, Moves, KindHere, OwnKinds
  <2> QED
    BY <2>1, OwedKeep
<1>6. ASSUME NEW t \in Threads, Reply(t) PROVE OwedHere'
  <2>1. t # Zmq /\ Moves(t) /\ UNCHANGED zmqVars
    BY <1>0, <1>00, <1>01, <1>6 DEF Reply, Moves, KindHere, OwnKinds
  <2> QED
    BY <2>1, OwedKeep
<1>7. ASSUME NEW t \in Threads, Parse(t) PROVE OwedHere'
  <2>1. t # Zmq /\ Moves(t) /\ UNCHANGED zmqVars
    BY <1>0, <1>00, <1>01, <1>7 DEF Parse, Moves, KindHere, OwnKinds
  <2> QED
    BY <2>1, OwedKeep
<1>8. ASSUME NEW t \in Threads, Repeat(t) PROVE OwedHere'
  <2>1. t # Zmq /\ Moves(t) /\ UNCHANGED zmqVars
    BY <1>0, <1>00, <1>01, <1>8 DEF Repeat, Moves, KindHere, OwnKinds
  <2> QED
    BY <2>1, OwedKeep
<1>9. ASSUME NEW t \in Threads, RunList(t) PROVE OwedHere'
  <2>1. t # Zmq /\ Moves(t) /\ UNCHANGED zmqVars
    BY <1>0, <1>00, <1>01, <1>9 DEF RunList, Moves, KindHere, OwnKinds
  <2> QED
    BY <2>1, OwedKeep
<1>10. ASSUME NEW t \in Threads, RepDone(t) PROVE OwedHere'
  <2>1. t # Zmq /\ Moves(t) /\ UNCHANGED zmqVars
    BY <1>0, <1>00, <1>01, <1>10 DEF RepDone, Moves, KindHere, OwnKinds
  <2> QED
    BY <2>1, OwedKeep
<1>11. ASSUME NEW t \in Threads, LastRep(t) PROVE OwedHere'
  <2>1. t # Zmq /\ Moves(t) /\ UNCHANGED zmqVars
    BY <1>0, <1>00, <1>01, <1>11 DEF LastRep, Moves, KindHere, OwnKinds
  <2> QED
    BY <2>1, OwedKeep
<1>12. ASSUME NEW t \in Threads, NEW j \in Jobs, Accept(t, j) PROVE OwedHere'
  <2>1. t # Zmq /\ Moves(t) /\ UNCHANGED zmqVars
    BY <1>0, <1>00, <1>01, <1>12 DEF Accept, Moves, KindHere, OwnKinds
  <2> QED
    BY <2>1, OwedKeep
<1>13. ASSUME NEW t \in Threads, InitDone(t) PROVE OwedHere'
  <2>1. CASE t = Zmq
    BY <1>0, <1>00, <1>01, <1>13, <2>1 DEF InitDone, OwedHere, KindHere, OwnKinds
  <2>2. CASE t # Zmq
    <3>1. Moves(t) /\ UNCHANGED zmqVars
      BY <1>0, <1>00, <1>01, <1>13, <2>2 DEF InitDone, Moves, KindHere, OwnKinds
    <3> QED
      BY <2>2, <3>1, OwedKeep
  <2> QED
    BY <2>1, <2>2
<1>14. ASSUME NEW t \in Threads, TakeLock(t) PROVE OwedHere'
  <2>1. CASE t = Zmq
    BY <1>0, <1>00, <1>01, <1>14, <2>1 DEF TakeLock, OwedHere, KindHere, OwnKinds
  <2>2. CASE t # Zmq
    <3>1. Moves(t) /\ UNCHANGED zmqVars
      BY <1>0, <1>00, <1>01, <1>14, <2>2 DEF TakeLock, Moves, KindHere, OwnKinds
    <3> QED
      BY <2>2, <3>1, OwedKeep
  <2> QED
    BY <2>1, <2>2
<1>15. ASSUME NEW t \in Threads, ReleaseHold(t) PROVE OwedHere'
  <2>1. CASE t = Zmq
    BY <1>0, <1>00, <1>01, <1>15, <2>1 DEF ReleaseHold, OwedHere, KindHere, OwnKinds
  <2>2. CASE t # Zmq
    <3>1. Moves(t) /\ UNCHANGED zmqVars
      BY <1>0, <1>00, <1>01, <1>15, <2>2 DEF ReleaseHold, Moves, KindHere, OwnKinds
    <3> QED
      BY <2>2, <3>1, OwedKeep
  <2> QED
    BY <2>1, <2>2
<1>16. ASSUME NEW t \in Threads, EndSeq(t) PROVE OwedHere'
  <2>1. CASE t = Zmq
    BY <1>0, <1>00, <1>01, <1>16, <2>1 DEF EndSeq, OwedHere, KindHere, OwnKinds
  <2>2. CASE t # Zmq
    <3>1. Moves(t) /\ UNCHANGED zmqVars
      BY <1>0, <1>00, <1>01, <1>16, <2>2 DEF EndSeq, Moves, KindHere, OwnKinds
    <3> QED
      BY <2>2, <3>1, OwedKeep
  <2> QED
    BY <2>1, <2>2
<1>17. ASSUME NEW t \in Threads, Unlock(t) PROVE OwedHere'
  <2>1. CASE t = Zmq
    BY <1>0, <1>00, <1>01, <1>17, <2>1 DEF Unlock, OwedHere, KindHere, OwnKinds
  <2>2. CASE t # Zmq
    <3>1. Moves(t) /\ UNCHANGED zmqVars
      BY <1>0, <1>00, <1>01, <1>17, <2>2 DEF Unlock, Moves, KindHere, OwnKinds
    <3> QED
      BY <2>2, <3>1, OwedKeep
  <2> QED
    BY <2>1, <2>2
<1>18. ASSUME NEW t \in Threads, HoldCode(t) PROVE OwedHere'
  <2>1. CASE t = Zmq
    BY <1>0, <1>00, <1>01, <1>18, <2>1 DEF HoldCode, OwedHere, KindHere, OwnKinds
  <2>2. CASE t # Zmq
    <3>1. Moves(t) /\ UNCHANGED zmqVars
      BY <1>0, <1>00, <1>01, <1>18, <2>2 DEF HoldCode, Moves, KindHere, OwnKinds
    <3> QED
      BY <2>2, <3>1, OwedKeep
  <2> QED
    BY <2>1, <2>2
<1>19. ASSUME NEW t \in Threads, RunCode(t) PROVE OwedHere'
  <2>1. CASE t = Zmq
    BY <1>0, <1>00, <1>01, <1>19, <2>1 DEF RunCode, OwedHere, KindHere, OwnKinds
  <2>2. CASE t # Zmq
    <3>1. Moves(t) /\ UNCHANGED zmqVars
      BY <1>0, <1>00, <1>01, <1>19, <2>2 DEF RunCode, Moves, KindHere, OwnKinds
    <3> QED
      BY <2>2, <3>1, OwedKeep
  <2> QED
    BY <2>1, <2>2
<1>20. ASSUME NEW t \in Threads, ZmqReceive(t) PROVE OwedHere'
  <2>1. CASE t = Zmq
    BY <1>0, <1>00, <1>01, <1>20, <2>1 DEF ZmqReceive, OwedHere, KindHere, OwnKinds
  <2>2. CASE t # Zmq
    <3>1. Moves(t) /\ UNCHANGED zmqVars
      BY <1>0, <1>00, <1>01, <1>20, <2>2 DEF ZmqReceive, Moves, KindHere, OwnKinds
    <3> QED
      BY <2>2, <3>1, OwedKeep
  <2> QED
    BY <2>1, <2>2
<1>21. ASSUME NEW t \in Threads, ZmqAnswer(t) PROVE OwedHere'
  <2>1. t = Zmq
    BY <1>02, <1>21 DEF ZmqAnswer
  <2> QED
    BY <1>0, <1>00, <1>01, <1>21, <2>1 DEF ZmqAnswer, OwedHere, KindHere, OwnKinds
<1>22. ASSUME NEW t \in Threads, ReleaseCode(t) PROVE OwedHere'
  <2>1. t = Zmq
    BY <1>02, <1>22 DEF ReleaseCode
  <2> QED
    BY <1>0, <1>00, <1>01, <1>22, <2>1 DEF ReleaseCode, OwedHere, KindHere, OwnKinds
<1>23. ASSUME NEW t \in Threads, CodeDone(t) PROVE OwedHere'
  <2>1. t = Zmq
    BY <1>02, <1>23 DEF CodeDone
  <2> QED
    BY <1>0, <1>00, <1>01, <1>23, <2>1 DEF CodeDone, OwedHere, KindHere, OwnKinds
<1>24. ASSUME NEW t \in Threads, Drain(t) PROVE OwedHere'
  <2>1. t = Zmq
    BY <1>02, <1>24 DEF Drain
  <2> QED
    BY <1>0, <1>00, <1>01, <1>24, <2>1 DEF Drain, Left, OwedHere, KindHere, OwnKinds
<1>25. ASSUME NEW t \in Threads, ZmqRun(t) PROVE OwedHere'
  <2>1. t = Zmq /\ place[t] = "request" /\ place'[t] = "lock" /\ owed' = owed
    BY <1>00, <1>02, <1>25 DEF ZmqRun
  <2> QED
    BY <2>1 DEF OwedHere
<1>26. ASSUME NEW t \in Threads, Serve(t) PROVE OwedHere'
  <2>1. place[Zmq] = "off" /\ UNCHANGED zmqVars
    BY <1>0, <1>01, <1>26 DEF Serve, OwnKinds, PlacesOK, StartsAlone
  <2>2. place'[Zmq] = (IF Zmq = Main THEN "joined" ELSE "idle")
    BY <1>0, <1>26 DEF Serve
  <2> QED
    BY <1>0, <2>1, <2>2 DEF OwedHere
<1>27. ASSUME NEW t \in Threads, InitNext(t) PROVE OwedHere'
  BY <1>27, OwedStay DEF InitNext
<1>28. ASSUME NEW t \in Threads, InitRun(t) PROVE OwedHere'
  BY <1>28, OwedStay DEF InitRun
<1>29. CASE Fpga
  BY <1>29, OwedStay DEF Fpga
<1>30. CASE Usr1
  BY <1>30, OwedStay DEF Usr1
<1>31. CASE LosePower
  BY <1>31, OwedStay DEF LosePower
<1>32. CASE Kill
  <2>1. place'[Zmq] = (IF Zmq = Main THEN "boot" ELSE "off") /\ owed' = 0 /\ frames' = <<>>
    BY <1>0, <1>32 DEF Kill
  <2> QED
    BY <1>0, <2>1 DEF OwedHere
<1> QED
  BY <1>1, <1>2, <1>3, <1>4, <1>5, <1>6, <1>7, <1>8, <1>9, <1>10, <1>11,
     <1>12, <1>13, <1>14, <1>15, <1>16, <1>17, <1>18, <1>19, <1>20, <1>21,
     <1>22, <1>23, <1>24, <1>25, <1>26, <1>27, <1>28, <1>29, <1>30, <1>31,
     <1>32 DEF Next, Run
-----------------------------------------------------------------------------
(* The boards and the files of the server are those of AD9914 and ParamStore. *)

LEMMA BoardsFollow ==
  ASSUME ServerTypes, PlacesOK, [Next]_vars
  PROVE  [BoardNext]_ddsVars
<1> USE DEF rest
<1>1. ASSUME NEW t \in Threads,
             \/ Boot(t) \/ Clear(t) \/ Startup(t) \/ Serve(t) \/ InitDone(t)
             \/ Save(t) \/ Reply(t) \/ Parse(t) \/ TakeLock(t) \/ Repeat(t)
             \/ RunList(t) \/ ReleaseHold(t) \/ RepDone(t) \/ LastRep(t)
             \/ EndSeq(t) \/ Unlock(t) \/ ZmqAnswer(t) \/ ZmqRun(t)
             \/ HoldCode(t) \/ RunCode(t) \/ ReleaseCode(t) \/ CodeDone(t)
             \/ Drain(t) \/ ZmqReceive(t)
      PROVE  UNCHANGED ddsVars
  BY <1>1 DEF Boot, Clear, Startup, Serve, InitDone, Save, Reply, Parse,
     TakeLock, Repeat, RunList, ReleaseHold, RepDone, LastRep, EndSeq, Unlock,
     ZmqAnswer, ZmqRun, HoldCode, RunCode, ReleaseCode, CodeDone, Drain,
     ZmqReceive
<1>2. ASSUME NEW t \in Threads, Detect(t) PROVE [BoardNext]_ddsVars
  <2>1. CASE todo[t] = <<>>
    BY <1>2, <2>1 DEF Detect
  <2>2. CASE todo[t] # <<>>
    <3>1. Head(todo[t]) \in Boards /\ Probe(Head(todo[t]))
      BY <1>2, <2>2 DEF Detect, ServerTypes
    <3> QED
      BY <3>1 DEF BoardNext
  <2> QED
    BY <2>1, <2>2
<1>3. ASSUME NEW t \in Threads, InitNext(t) PROVE [BoardNext]_ddsVars
  <2>1. Head(todo[t]) \in Boards /\ InitCall(t, Head(todo[t]))
    BY <1>3 DEF InitNext, ServerTypes
  <2> QED
    BY <2>1 DEF BoardNext, Call
<1>4. ASSUME NEW t \in Threads, InitRun(t) PROVE [BoardNext]_ddsVars
  BY <1>4 DEF InitRun, BoardNext, Step
<1>5. ASSUME NEW t \in Threads, NEW j \in Jobs, Accept(t, j) PROVE [BoardNext]_ddsVars
  <2>1. CASE InitForce(t, j.board) /\ j.kind = "reset"
    <3>1. j \in Resets
      BY <2>1, RequestsAssumption DEF Texts, Sets
    <3> QED
      BY <2>1, <3>1 DEF Resets, BoardNext, Call
  <2>2. CASE UNCHANGED ddsVars
    BY <2>2
  <2> QED
    BY <1>5, <2>1, <2>2 DEF Accept
<1>6. CASE Fpga \/ Usr1
  BY <1>6 DEF Fpga, Usr1
<1>7. CASE Kill
  BY <1>7 DEF Kill, BoardNext
<1>8. CASE LosePower
  BY <1>8 DEF LosePower, BoardNext
<1>9. CASE UNCHANGED vars
  BY <1>9 DEF vars
<1> QED
  BY <1>1, <1>2, <1>3, <1>4, <1>5, <1>6, <1>7, <1>8, <1>9 DEF Next, Run

LEMMA StoreFollows ==
  ASSUME ServerTypes, PlacesOK, [Next]_vars
  PROVE  [StoreNext]_storeVars
<1> USE DEF rest
<1>1. ASSUME NEW t \in Threads,
             \/ Boot(t) \/ Clear(t) \/ Startup(t) \/ Serve(t) \/ InitDone(t)
             \/ Reply(t) \/ Parse(t) \/ TakeLock(t) \/ Repeat(t) \/ RunList(t)
             \/ ReleaseHold(t) \/ RepDone(t) \/ LastRep(t) \/ EndSeq(t)
             \/ Unlock(t) \/ ZmqAnswer(t) \/ ZmqRun(t) \/ HoldCode(t)
             \/ RunCode(t) \/ ReleaseCode(t) \/ CodeDone(t) \/ Drain(t)
             \/ ZmqReceive(t) \/ Detect(t) \/ InitNext(t) \/ InitRun(t)
      PROVE  UNCHANGED storeVars
  BY <1>1 DEF Boot, Clear, Startup, Serve, InitDone, Reply, Parse, TakeLock,
     Repeat, RunList, ReleaseHold, RepDone, LastRep, EndSeq, Unlock,
     ZmqAnswer, ZmqRun, HoldCode, RunCode, ReleaseCode, CodeDone, Drain,
     ZmqReceive, Detect, InitNext, InitRun
<1>2. ASSUME NEW t \in Threads, Save(t) PROVE [StoreNext]_storeVars
  <2>1. t \in Workers
    BY <1>2, ThreadsAssumption DEF Save, PlacesOK, KindHere, OwnKinds
  <2> QED
    BY <1>2, <2>1 DEF Save, StoreNext
<1>3. ASSUME NEW t \in Threads, NEW j \in Jobs, Accept(t, j) PROVE [StoreNext]_storeVars
  <2>1. CASE SetLoad(t, j.page, j.form) /\ j.kind = "setParams"
    <3>1. j \in Sets
      BY <2>1, RequestsAssumption DEF Texts, Resets
    <3>2. t \in Workers /\ j.page \in Pages /\ j.form \in Forms
      BY <1>3, <3>1 DEF Accept, Sets
    <3> QED
      BY <2>1, <3>2 DEF StoreNext
  <2>2. CASE UNCHANGED storeVars
    BY <2>2
  <2> QED
    BY <1>3, <2>1, <2>2 DEF Accept
<1>4. CASE Fpga \/ Usr1 \/ LosePower
  BY <1>4 DEF Fpga, Usr1, LosePower
<1>5. CASE Kill
  BY <1>5 DEF Kill, StoreNext
<1>6. CASE UNCHANGED vars
  BY <1>6 DEF vars
<1> QED
  BY <1>1, <1>2, <1>3, <1>4, <1>5, <1>6 DEF Next, Run
-----------------------------------------------------------------------------
LEMMA OwnInvInit == Init => OwnInv
<1> SUFFICES ASSUME Init PROVE OwnInv
  OBVIOUS
<1>0. /\ Main \in Threads /\ Zmq \in Threads /\ None \notin Threads
      /\ Main # Zmq /\ Main \notin Workers
  BY ThreadsAssumption
<1>1. \A t \in Threads : /\ place[t] = (IF t = Main THEN "boot" ELSE "off")
                         /\ job[t] = NoJob
  BY DEF Init
<1>2. /\ lock = None /\ hold = FALSE /\ status = "none" /\ frames = <<>> /\ owed = 0
      /\ iRep = 0 /\ queued = FALSE /\ late = FALSE /\ stop = FALSE
      /\ quota = Quota /\ faults = Faults
  BY DEF Init
<1>3. ServerTypes
  <2>1. place \in [Threads -> Places] /\ job \in [Threads -> AnyJob] /\ todo \in [Threads -> Seq(Boards)]
    BY DEF Init, Places, AnyJob
  <2>2. quota \in 0 .. Quota /\ faults \in 0 .. Faults
    BY <1>2, RequestsAssumption
  <2>3. frames \in Seq(STRING) /\ owed \in Int /\ iRep \in Nat
    BY <1>2
  <2>4. lock \in Threads \cup {None} /\ status \in {"none", "Initializing", "Running", "Idle"}
    BY <1>2
  <2>5. hold \in BOOLEAN /\ queued \in BOOLEAN /\ late \in BOOLEAN /\ stop \in BOOLEAN
    BY <1>2
  <2> QED
    BY <2>1, <2>2, <2>3, <2>4, <2>5 DEF ServerTypes
<1>4. PlacesOK
  <2>1. \A t \in Threads : KindHere(t) /\ OwnKinds(t) /\ ~Locking(t)
    <3> TAKE t \in Threads
    <3>1. CASE t = Main
      BY <1>0, <1>1, <3>1 DEF KindHere, OwnKinds, Locking, NoJob
    <3>2. CASE t # Main
      BY <1>0, <1>1, <3>2 DEF KindHere, OwnKinds, Locking, NoJob
    <3> QED
      BY <3>1, <3>2
  <2> QED
    BY <1>0, <1>1, <1>2, <2>1 DEF PlacesOK, StartsAlone, LockOwned
<1>5. FpgaOwned
  BY <1>0, <1>1 DEF FpgaOwned, Booting
<1>6. StatusOwned
  <2>1. \A t \in Threads : place[t] \in {"boot", "off"}
    BY <1>1
  <2> QED
    BY <1>0, <2>1 DEF StatusOwned, InSeq
<1>7. OwedHere
  BY <1>0, <1>1, <1>2 DEF OwedHere
<1> QED
  BY <1>3, <1>4, <1>5, <1>6, <1>7 DEF OwnInv

LEMMA OwnInvNext == OwnInv /\ [Next]_vars => OwnInv'
<1> SUFFICES ASSUME OwnInv, [Next]_vars PROVE OwnInv'
  OBVIOUS
<1>1. CASE Next
  BY <1>1, TypesStep, PlacesStep, FpgaStep, StatusStep, OwedStep DEF OwnInv
<1>2. CASE UNCHANGED vars
  <2>1. UNCHANGED <<place, job, todo, iRep, lock, hold, queued, late, stop, status, frames, owed,
                    quota, faults>>
    BY <1>2 DEF vars, seqVars, zmqVars
  <2>2. ServerTypes'
    BY <2>1 DEF OwnInv, ServerTypes
  <2>3. PlacesOK' /\ StatusOwned'
    BY <2>1, PlacesStay, StatusStay DEF OwnInv
  <2>4. FpgaOwned' /\ OwedHere'
    BY <2>1 DEF OwnInv, FpgaOwned, Booting, OwedHere
  <2> QED
    BY <2>2, <2>3, <2>4 DEF OwnInv
<1> QED
  BY <1>1, <1>2

LEMMA ServerInvInit == Init => ServerInv
BY OwnInvInit, BoardInvInit, StoreInvInit DEF Init, ServerInv

LEMMA ServerInvNext == ServerInv /\ [Next]_vars => ServerInv'
BY OwnInvNext, BoardsFollow, StoreFollows, BoardInvNext, StoreInvNext DEF ServerInv, OwnInv

LEMMA ServerInvAlways == Spec => []ServerInv
BY ServerInvInit, ServerInvNext, PTL DEF Spec
-----------------------------------------------------------------------------
\* Every variable of the process, the boards and the files has its type
\* (main.cpp, init_system.cpp, parseTxtSeq.cpp).
THEOREM ServerTypeCorrect == Spec => []TypeOK
<1>1. ServerInv => TypeOK
  <2> SUFFICES ASSUME ServerInv PROVE TypeOK
    OBVIOUS
  <2>1. BoardTypeOK /\ StoreTypeOK
    BY StoreInvImplies DEF ServerInv, BoardInv
  <2> QED
    BY <2>1 DEF ServerInv, OwnInv, ServerTypes, Places, TypeOK
<1> QED
  BY <1>1, ServerInvAlways, PTL

\* Whoever stops the FPGA (setHold, parseTxtSeq.cpp:387 and 441) has the
\* controller lock and lets it go on before it gives the lock up, on every path
\* of both kinds of sequences and after a kill.
THEOREM HoldIsOwned == Spec => []HoldOwned
<1>1. ServerInv => HoldOwned
  BY DEF ServerInv, OwnInv, FpgaOwned, HoldOwned, InSeq
<1> QED
  BY <1>1, ServerInvAlways, PTL

\* The timing flag is clear when a sequence gets the lock: what runEpilogue and
\* parseSeqTxt (parseTxtSeq.cpp:391-397) report is a pulse of their own.
THEOREM TimingIsFresh == Spec => []FreshTiming
<1>1. ServerInv => FreshTiming
  BY DEF ServerInv, OwnInv, FpgaOwned, FreshTiming
<1> QED
  BY <1>1, ServerInvAlways, PTL

\* The status file says Idle when no sequence is asked for, and Running while a
\* long text is repeated (setStatus in parseTxtSeq.cpp and init_system.cpp).
THEOREM StatusIsTrue == Spec => []StatusTrue
<1>1. ServerInv => StatusTrue
  BY DEF ServerInv, OwnInv, StatusOwned, StatusTrue, Sequences, Ending
<1> QED
  BY <1>1, ServerInvAlways, PTL

\* A ZMQ request gets one answer on every path of processZMQ and
\* handleRunByteCode, and none of its parts is left for the next one.
THEOREM AnswersOnce == Spec => []AnsweredOnce
<1>1. ServerInv => AnsweredOnce
  <2> SUFFICES ASSUME ServerInv PROVE AnsweredOnce
    OBVIOUS
  <2>1. Zmq \in Threads /\ Zmq # Main
    BY ThreadsAssumption
  <2>2. place[Zmq] \in Places /\ KindHere(Zmq) /\ OwnKinds(Zmq)
    BY <2>1 DEF ServerInv, OwnInv, ServerTypes, PlacesOK
  <2>3. place[Zmq] \in {"request", "lock", "hold", "code", "release", "finish", "await",
                       "init", "end", "unlock", "drain", "idle", "off"}
    BY <2>1, <2>2 DEF Places, KindHere, OwnKinds
  <2> QED
    BY <2>3 DEF ServerInv, OwnInv, OwedHere, AnsweredOnce
<1> QED
  BY <1>1, ServerInvAlways, PTL

\* What the server does to the boards, with all its threads and both kinds of
\* sequences, is what AD9914 allows (AD9914::init and its callers): every theorem
\* of BoardSpec is one of the server.
THEOREM BoardsImplemented == Spec => BoardSpec
<1>1. Init => BoardInit
  BY DEF Init
<1>2. ServerInv /\ [Next]_vars => [BoardNext]_ddsVars
  BY BoardsFollow DEF ServerInv, OwnInv
<1> QED
  BY <1>1, <1>2, ServerInvAlways, PTL DEF Spec, BoardSpec

\* What it does to the files of parameters is what ParamStore allows (setParams in
\* parseQueryCGI).
THEOREM StoreImplemented == Spec => StoreSpec
<1>1. Init => StoreInit
  BY DEF Init
<1>2. ServerInv /\ [Next]_vars => [StoreNext]_storeVars
  BY StoreFollows DEF ServerInv, OwnInv
<1> QED
  BY <1>1, <1>2, ServerInvAlways, PTL DEF Spec, StoreSpec

\* A board that shows the magic word is configured while the server runs: init_system,
\* a text, a byte code and a reset from the web page included (AD9914.cpp:48-59).
THEOREM ServerKeepsBoards == Spec => []MagicMeansConfigured
BY BoardsImplemented, MagicMeansConfiguredAlways, PTL

\* The files keep what the forms amount to while the server runs.
THEOREM ServerKeepsParams == Spec => []StoredParams
BY StoreImplemented, ParamsAreStored, PTL
=============================================================================
