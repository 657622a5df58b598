-------------------------------- MODULE Server --------------------------------
(***************************************************************************)
(* The molecube process: main and init_system start it, eight FastCGI      *)
(* workers (processRequests, parseQueryCGI) and a ZMQ thread (processZMQ)  *)
(* serve it, parseSeqTxt and handleRunByteCode run the sequences.  Threads *)
(* share the controller lock, the hold bit and the timing flag of the FPGA,*)
(* the DDS boards (module AD9914), the files of parameters (ParamStore),   *)
(* the status file and the stop flag.  What a command is and how it is     *)
(* written is the business of module Controller.                           *)
(***************************************************************************)
EXTENDS AD9914, ParamStore

CONSTANTS
  Main, Zmq,   \* the thread of main and that of ZMQ
  BoardOrder,  \* active_dds
  Jobs,        \* the requests to FastCGI, as records
  Messages,    \* the requests to ZMQ, as sequences of parts
  Startups,    \* the sequences main may run first
  Quota,       \* a bound on the requests
  Faults,      \* a bound on kills and losses of power
  None

\* The requests: a text as its form says it, an initialisation of a board, and
\* the parameters of a page.
Texts  == [kind : {"runseq"}, reps : Nat, forever : BOOLEAN, long : BOOLEAN]
Resets == [kind : {"reset"}, board : Boards]
Sets   == [kind : {"setParams"}, page : Pages, form : Forms]

ASSUME ThreadsAssumption ==
  /\ Threads = Workers \cup {Zmq, Main} /\ None \notin Threads
  /\ Main # Zmq /\ Main \notin Workers /\ Zmq \notin Workers
ASSUME RequestsAssumption ==
  /\ BoardOrder \in Seq(Boards)
  /\ Jobs \subseteq Texts \cup Resets \cup Sets /\ Startups \subseteq Texts
  /\ \A m \in Messages : m \in Seq(STRING)
  /\ Quota \in Nat /\ Faults \in Nat

VARIABLES
  place,   \* place[t]: where thread t is
  job,     \* job[t]: the request it serves
  todo,    \* todo[t]: the boards it has still to look at
  iRep,    \* of the text sequence that has the lock
  lock,    \* the thread that has the controller lock, or None
  hold,    \* the hold bit of the FPGA
  queued,  \* the FPGA has pulses of a sequence to run
  late,    \* its timing flag: a pulse came too late since it was cleared
  stop,    \* g_stop_curr_seq
  status,  \* the status file
  frames,  \* the parts of the ZMQ request not received yet
  owed,    \* the replies due to it
  quota,   \* requests that may still come
  faults   \* kills and losses of power that may still come

seqVars == <<todo, iRep, lock, hold, queued, late, stop, status>>
zmqVars == <<frames, owed>>
rest    == <<ddsVars, storeVars>>
vars    == <<rest, place, job, seqVars, zmqVars, quota, faults>>

NoJob == [kind |-> "none"]

Init ==
  /\ BoardInit /\ StoreInit
  /\ place = [t \in Threads |-> IF t = Main THEN "boot" ELSE "off"]
  /\ job = [t \in Threads |-> NoJob] /\ todo = [t \in Threads |-> <<>>]
  /\ iRep = 0 /\ lock = None /\ hold = FALSE /\ queued = FALSE /\ late = FALSE
  /\ stop = FALSE /\ status = "none"
  /\ frames = <<>> /\ owed = 0 /\ quota = Quota /\ faults = Faults

Go(t, from, to) == place[t] = from /\ place' = [place EXCEPT ![t] = to]
Is(t, kind)     == job[t].kind = kind
-----------------------------------------------------------------------------
(* main and init_system                                                    *)

\* The status, the lock and Controller::init, which releases the hold.
InitHoldX == hold
InitHold  == FALSE
Boot(t) ==
  /\ Go(t, "boot", "clear") /\ lock = None
  /\ status' = "Initializing" /\ lock' = t /\ hold' = InitHold
  /\ job' = [job EXCEPT ![t] = [kind |-> "init_system"]]
  /\ UNCHANGED <<rest, todo, iRep, queued, late, stop, zmqVars, quota, faults>>

\* ClearTimingCheck.  The FPGA comes to it, and to the commands after it, when it
\* has run what an earlier process left.
Clear(t) ==
  /\ Go(t, "clear", "detect") /\ ~queued
  /\ late' = FALSE /\ todo' = [todo EXCEPT ![t] = BoardOrder]
  /\ UNCHANGED <<rest, job, iRep, lock, hold, queued, stop, status, zmqVars, quota,
                 faults>>

Detect(t) ==
  /\ place[t] = "detect"
  /\ IF todo[t] = <<>>
     THEN /\ Go(t, "detect", "init") /\ todo' = [todo EXCEPT ![t] = BoardOrder]
          /\ UNCHANGED ddsVars
     ELSE /\ Probe(Head(todo[t])) /\ todo' = [todo EXCEPT ![t] = Tail(@)]
          /\ UNCHANGED place
  /\ UNCHANGED <<storeVars, job, iRep, lock, hold, queued, late, stop, status,
                 zmqVars, quota, faults>>

\* The startup sequence, if there is one, then "Idle" and the workers.
Startup(t) ==
  /\ Go(t, "startup", "init") /\ \E s \in Startups : job' = [job EXCEPT ![t] = s]
  /\ todo' = [todo EXCEPT ![t] = BoardOrder]
  /\ UNCHANGED <<rest, iRep, lock, hold, queued, late, stop, status, zmqVars,
                 quota, faults>>

Serve(t) ==
  /\ place[t] \in {"startup", "ready"}
  /\ place' = [u \in Threads |-> IF u = Main THEN "joined" ELSE "idle"]
  /\ job' = [job EXCEPT ![t] = NoJob] /\ status' = "Idle"
  /\ UNCHANGED <<rest, todo, iRep, lock, hold, queued, late, stop, zmqVars,
                 quota, faults>>
-----------------------------------------------------------------------------
(* Initialisation of the boards, by init_system, parseSeqTxt and           *)
(* handleRunByteCode: those that need it.                                  *)

InitNext(t) ==
  /\ place[t] = "init" /\ initing[t] = NoInit /\ todo[t] # <<>>
  /\ InitCall(t, Head(todo[t])) /\ todo' = [todo EXCEPT ![t] = Tail(@)]
  /\ UNCHANGED <<storeVars, place, job, iRep, lock, hold, queued, late, stop, status,
                 zmqVars, quota, faults>>

InitRun(t) ==
  /\ place[t] = "init" /\ \E b \in Boards : InitStep(t, b)
  /\ UNCHANGED <<storeVars, place, job, seqVars, zmqVars, quota, faults>>

\* init_system returns and unlocks; a text is parsed next; byte code is done.
InitDone(t) ==
  /\ initing[t] = NoInit /\ todo[t] = <<>>
  /\ Go(t, "init", CASE Is(t, "init_system") -> "startup" [] Is(t, "runseq") -> "parse"
                     [] Is(t, "run_seq") -> "end" [] Is(t, "reset") -> "reply")
  /\ lock' = IF Is(t, "init_system") THEN None ELSE lock
  /\ UNCHANGED <<rest, job, todo, iRep, hold, queued, late, stop, status,
                 zmqVars, quota, faults>>
-----------------------------------------------------------------------------
(* parseQueryCGI                                                           *)

\* runseq: parseSeqCGI.  setDeviceParams with a reset element: init with Force.
\* setParams.  getParams and the other queries change nothing.
Accept(t, j) ==
  /\ t \in Workers /\ quota > 0 /\ quota' = quota - 1
  /\ job' = [job EXCEPT ![t] = j]
  /\ \/ j.kind = "runseq" /\ Go(t, "idle", "init")
        /\ todo' = [todo EXCEPT ![t] = BoardOrder] /\ UNCHANGED rest
     \/ j.kind = "reset" /\ Go(t, "idle", "init")
        /\ InitForce(t, j.board) /\ UNCHANGED <<todo, storeVars>>
     \/ j.kind = "setParams" /\ Go(t, "idle", "save")
        /\ SetLoad(t, j.page, j.form) /\ UNCHANGED <<todo, ddsVars>>
  /\ UNCHANGED <<iRep, lock, hold, queued, late, stop, status, zmqVars, faults>>

Save(t) ==
  /\ place[t] = "save" /\ \E p \in Pages : SetStep(t, p)
  /\ IF saving'[t] = NoSave THEN Go(t, "save", "reply") ELSE UNCHANGED place
  /\ UNCHANGED <<ddsVars, job, seqVars, zmqVars, quota, faults>>

\* The request is finished, with an error message after a parse error.
Reply(t) ==
  /\ Go(t, "reply", IF t = Main THEN "ready" ELSE "idle")
  /\ job' = [job EXCEPT ![t] = NoJob]
  /\ UNCHANGED <<rest, seqVars, zmqVars, quota, faults>>
-----------------------------------------------------------------------------
(* parseSeqTxt                                                             *)

Parse(t) ==
  /\ Go(t, "parse", "lock") \/ Go(t, "parse", "reply")
  /\ UNCHANGED <<rest, job, seqVars, zmqVars, quota, faults>>

\* CtrlLocker, of both kinds of sequences.
TakeLock(t) ==
  /\ lock = None /\ lock' = t /\ iRep' = 0
  /\ Go(t, "lock", IF Is(t, "runseq") THEN "rep" ELSE "hold")
  /\ UNCHANGED <<rest, job, todo, hold, queued, late, stop, status, zmqVars,
                 quota, faults>>

More(t) == iRep < job[t].reps \/ job[t].forever

\* The status, setHold and toggleInit.
Repeat(t) ==
  /\ Go(t, "rep", "pulses") /\ More(t)
  /\ status' = IF job[t].reps # 1 \/ job[t].long \/ job[t].forever THEN "Running"
               ELSE status
  /\ hold' = TRUE
  /\ UNCHANGED <<rest, job, todo, iRep, lock, queued, late, stop, zmqVars,
                 quota, faults>>

RunList(t) ==
  /\ Go(t, "pulses", "finish") /\ queued' = TRUE
  /\ UNCHANGED <<rest, job, todo, iRep, lock, hold, late, stop, status, zmqVars,
                 quota, faults>>

\* waitFinish releases the hold before it waits.
ReleaseHold(t) ==
  /\ Go(t, "finish", "await") /\ hold' = FALSE
  /\ UNCHANGED <<rest, job, todo, iRep, lock, queued, late, stop, status, zmqVars,
                 quota, faults>>

\* A late pulse is noted and the flag cleared; then the stop flag is looked at.
StopsSeqX == FALSE
StopsSeq  == stop
RepDone(t) ==
  /\ Is(t, "runseq") /\ ~queued
  /\ late' = FALSE
  /\ IF StopsSeq
     THEN /\ Go(t, "await", "end") /\ stop' = FALSE /\ UNCHANGED iRep
     ELSE /\ Go(t, "await", "rep") /\ iRep' = iRep + (IF job[t].forever THEN 0 ELSE 1)
          /\ UNCHANGED stop
  /\ UNCHANGED <<rest, job, todo, lock, hold, queued, status, zmqVars, quota, faults>>

LastRep(t) ==
  /\ Go(t, "rep", "end") /\ ~More(t)
  /\ UNCHANGED <<rest, job, seqVars, zmqVars, quota, faults>>

\* The end of both kinds: "Idle" is written before the lock is given up.
EndStatusX == status
EndStatus  == "Idle"
EndSeq(t) ==
  /\ Go(t, "end", "unlock") /\ status' = EndStatus
  /\ UNCHANGED <<rest, job, todo, iRep, lock, hold, queued, late, stop, zmqVars,
                 quota, faults>>

Unlock(t) ==
  /\ Go(t, "unlock", IF t = Zmq THEN "drain" ELSE "reply") /\ lock' = None /\ iRep' = 0
  /\ UNCHANGED <<rest, job, todo, hold, queued, late, stop, status, zmqVars, quota, faults>>
-----------------------------------------------------------------------------
(* processZMQ and handleRunByteCode                                        *)

\* recv_addr.  If parts of a request were left it would take one for an address.
ZmqReceive(t) ==
  /\ t = Zmq /\ Go(t, "idle", "request") /\ quota > 0 /\ quota' = quota - 1
  /\ IF frames = <<>> THEN frames' \in Messages ELSE frames' = Tail(frames)
  /\ owed' = 1
  /\ UNCHANGED <<rest, job, seqVars, faults>>

\* The parts recv_more takes from it, one before each check.
RunsSeq(m) == Len(m) >= 3 /\ m[1] = "run_seq" /\ m[2] = "version" /\ m[3] = "code"
Taken(m) ==
  CASE m = <<>> -> 0
    [] m # <<>> /\ m[1] # "run_seq" -> 1
    [] m # <<>> /\ m[1] = "run_seq" ->
         IF Len(m) >= 2 /\ m[2] # "version" THEN 2
         ELSE IF Len(m) > 3 THEN 3 ELSE Len(m)

\* has_override, or an error: no part, no version, a version or a code too short,
\* an unknown request.
ZmqAnswer(t) ==
  /\ Go(t, "request", "drain") /\ ~RunsSeq(frames)
  /\ frames' = SubSeq(frames, Taken(frames) + 1, Len(frames)) /\ owed' = owed - 1
  /\ UNCHANGED <<rest, job, seqVars, quota, faults>>

\* The status of a sequence longer than a second is written before the lock is
\* taken.
ZmqRun(t) ==
  /\ Go(t, "request", "lock") /\ RunsSeq(frames)
  /\ frames' = SubSeq(frames, Taken(frames) + 1, Len(frames))
  /\ \E long \in BOOLEAN :
       /\ job' = [job EXCEPT ![t] = [kind |-> "run_seq", long |-> long]]
       /\ status' = IF long THEN "Running" ELSE status
  /\ UNCHANGED <<rest, todo, iRep, lock, hold, queued, late, stop, owed, quota,
                 faults>>

\* setHold, runByteCode and releaseHold
HoldCode(t) ==
  /\ Go(t, "hold", "code") /\ hold' = TRUE
  /\ UNCHANGED <<rest, job, todo, iRep, lock, queued, late, stop, status, zmqVars,
                 quota, faults>>
RunCode(t) ==
  /\ Go(t, "code", "release") /\ queued' = TRUE
  /\ UNCHANGED <<rest, job, todo, iRep, lock, hold, late, stop, status, zmqVars,
                 quota, faults>>

\* A short sequence is answered before it has run, a long one after.
ReleaseCode(t) ==
  /\ Go(t, "release", "finish") /\ hold' = FALSE
  /\ owed' = IF job[t].long THEN owed ELSE owed - 1
  /\ UNCHANGED <<rest, job, todo, iRep, lock, queued, late, stop, status, frames,
                 quota, faults>>

\* After waitFinish, runEpilogue clears the timing flag, then the boards are
\* looked at with the lock held.
EpilogueX == late
Epilogue  == FALSE
CodeDone(t) ==
  /\ Is(t, "run_seq") /\ ~queued /\ Go(t, "await", "init")
  /\ owed' = IF job[t].long THEN owed - 1 ELSE owed
  /\ late' = Epilogue /\ todo' = [todo EXCEPT ![t] = BoardOrder]
  /\ UNCHANGED <<rest, job, iRep, lock, hold, queued, stop, status, frames,
                 quota, faults>>

\* readall takes the parts that are left.
LeftX == frames
Left  == <<>>
Drain(t) ==
  /\ Go(t, "drain", "idle") /\ frames' = Left
  /\ job' = [job EXCEPT ![t] = NoJob]
  /\ UNCHANGED <<rest, seqVars, owed, quota, faults>>
-----------------------------------------------------------------------------
(* What is not the threads'                                                *)

\* The FPGA runs what is queued when it is not held.
Fpga ==
  /\ queued /\ ~hold /\ queued' = FALSE /\ late' \in {late, TRUE}
  /\ UNCHANGED <<rest, place, job, todo, iRep, lock, hold, stop, status, zmqVars,
                 quota, faults>>

\* SIGUSR1
Usr1 ==
  /\ ~stop /\ stop' = TRUE
  /\ UNCHANGED <<rest, place, job, todo, iRep, lock, hold, queued, late, status, zmqVars,
                 quota, faults>>

\* SIGINT or worse; the process is started again.  The FPGA, the boards and the
\* files are as they were.
Kill ==
  /\ faults > 0 /\ faults' = faults - 1 /\ status # "none"
  /\ KillInits /\ KillSaves
  /\ place' = [t \in Threads |-> IF t = Main THEN "boot" ELSE "off"]
  /\ job' = [t \in Threads |-> NoJob] /\ todo' = [t \in Threads |-> <<>>]
  /\ iRep' = 0 /\ lock' = None /\ stop' = FALSE
  /\ frames' = <<>> /\ owed' = 0
  /\ UNCHANGED <<hold, queued, late, status, quota>>

LosePower ==
  /\ faults > 0 /\ faults' = faults - 1 /\ \E b \in Boards : PowerLoss(b)
  /\ UNCHANGED <<storeVars, place, job, seqVars, zmqVars, quota>>
-----------------------------------------------------------------------------
Run(t) ==
  \/ Boot(t) \/ Clear(t) \/ Detect(t) \/ Startup(t) \/ Serve(t)
  \/ InitNext(t) \/ InitRun(t) \/ InitDone(t)
  \/ Save(t) \/ Reply(t)
  \/ Parse(t) \/ TakeLock(t) \/ Repeat(t) \/ RunList(t) \/ ReleaseHold(t)
  \/ RepDone(t) \/ LastRep(t) \/ EndSeq(t) \/ Unlock(t)
  \/ ZmqAnswer(t) \/ ZmqRun(t) \/ HoldCode(t) \/ RunCode(t)
  \/ ReleaseCode(t) \/ CodeDone(t) \/ Drain(t)

Next ==
  \/ \E t \in Threads : Run(t) \/ ZmqReceive(t) \/ \E j \in Jobs : Accept(t, j)
  \/ Fpga \/ Usr1 \/ Kill \/ LosePower

Spec == Init /\ [][Next]_vars

\* Threads and the FPGA go on; nothing makes requests, signals or faults come.
FairSpec == /\ Spec /\ WF_vars(Fpga)
            /\ \A t \in Threads : WF_vars(Run(t))
-----------------------------------------------------------------------------
\* Every variable has its type.
TypeOK ==
  /\ BoardTypeOK /\ StoreTypeOK
  /\ place \in [Threads -> {"off", "boot", "clear", "detect", "init", "startup", "ready", "joined",
       "idle", "save", "reply", "parse", "lock", "rep", "pulses", "finish", "await", "end",
       "unlock", "request", "hold", "code", "release", "drain"}]
  /\ DOMAIN job = Threads /\ DOMAIN todo = Threads
  /\ iRep \in Nat /\ lock \in Threads \cup {None}
  /\ hold \in BOOLEAN /\ queued \in BOOLEAN /\ late \in BOOLEAN /\ stop \in BOOLEAN
  /\ status \in {"none", "Initializing", "Running", "Idle"}
  /\ owed \in Int /\ quota \in 0 .. Quota /\ faults \in 0 .. Faults

InSeq(t)     == place[t] \in {"pulses", "finish", "await", "code", "release"}
Booting      == place[Main] \in {"boot", "clear"}
Sequences    == {t \in Threads : Is(t, "run_seq") \/ Is(t, "runseq")}
Repeating(t) == Is(t, "runseq") /\ (place[t] = "rep" \/ InSeq(t))

\* Whoever stops the FPGA has the lock and lets it go on before it gives the
\* lock up, on every path through both kinds of sequences; after a kill in
\* between, the next process does it before anything else.
HoldOwned == hold /\ ~Booting => lock # None /\ InSeq(lock)

\* A timing failure that a sequence reports is one of its own pulses: the flag
\* is clear when a sequence gets the lock, whatever ran before.
FreshTiming == late /\ ~Booting => lock # None /\ place[lock] \in {"finish", "await"}

\* The status file says Idle when no sequence is asked for, and Running while a
\* text is repeated, whatever other sequences wait for the lock or are done.
StatusTrue ==
  /\ place[Main] = "joined" /\ Sequences = {} => status = "Idle"
  /\ \A t \in Threads : Repeating(t) /\ job[t].long /\ InSeq(t) => status = "Running"

\* Each ZMQ request is answered once, on every path and whether the sequence is
\* short or long, and none of its parts is left for the next one.
AnsweredOnce ==
  owed \in {0, 1} /\ (place[Zmq] = "idle" => owed = 0 /\ frames = <<>>)

\* Every request is answered in the end, whoever has to wait for the lock, unless
\* a sequence runs forever and nobody stops it; a stop ends it.
Busy(t) == place[t] \notin {"off", "idle", "joined"}
Endless == \E t \in Threads : Repeating(t) /\ job[t].forever
EveryAnswer == \A t \in Threads : Busy(t) ~> ~Busy(t) \/ (Endless /\ ~stop)
=============================================================================
