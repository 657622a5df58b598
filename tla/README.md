# Molecube: TLA+ models, checks and proofs

Molecube drives an FPGA that plays timed pulses for an atomic physics
experiment.  Web and ZMQ clients send single commands and whole sequences; a
request engine (`lib/pulser/controller.*`) merges them into the one stream of
pulses the FPGA takes and gives each client its result.  This directory holds
models of that program, the TLC runs that check them and the TLAPS proofs about
them.  Source paths below are relative to the repository.

## 1. The system

| Component | Where | State it keeps | Operations |
|---|---|---|---|
| Request engine | `lib/pulser/controller.{h,cpp}` | three queues of `Request*`, `m_num_written`, `m_num_read`, `m_quit`, the controller lock, `m_writer_cond`, 32 bins of condition variables | `reqSync`, `run`, `write`, `writeRequests`, `lock`, `waitFinish`, the writer and the reader thread, the destructor |
| FIFO | `controller.h:51-206` | a ring buffer that grows | `push`, `tryPush`, `pop`, `tryPop`, `size` |
| Driver, FPGA | `lib/pulser/driver.h`, `ctrl_io.h` | registers; pulse and result buffers; hold | `shortPulse`, `readResult`, `numResults`, `setHold`, `releaseHold`, masks |
| Commands | `lib/pulser/commands.h` | none | encoding, splitting of long pulses, composite commands |
| Instruction runner | `lib/pulser/instruction.cpp:14-165` | `CtrlState`: phases, TTL, `wait_time` | `runInstructionList`, `runWait`, meta instructions |
| Byte code runner | `instruction.cpp:167-318` | `m_t`, `m_released` | `wait`, `ttl`, ..., `runEpilogue` |
| Block builder | `instruction.h:55-215` | instructions, `currT` | `pulseAbsT`, `pulseDT` |
| Text parser | `molecube/parseTxtSeq.cpp:43-329` | none | `parsePlainTxt`, `parseCommand` |
| Sequence runner | `molecube/parseTxtSeq.cpp:331-473` | `g_stop_curr_seq`, the status file | `parseSeqTxt`, `handleRunByteCode` |
| DDS initialisation | `molecube/AD9914.cpp`, `init_system.cpp` | registers of the boards, `active_dds` | `init`, `print_registers` |
| Web requests | `molecube/parseMisc.cpp` | none of its own | get and set of each device, TTL masks |
| Parameter store | `molecube/saveloadmap.cpp`, `parseMisc.cpp` | files of key/value pairs | save, load, list |
| Servers | `molecube/main.cpp` | sockets, worker threads | FastCGI loop, ZMQ loop, signals |

**How they interact.**  A client's command becomes one `Request` object (or one
for each part of a composite command) on the client's stack.  `reqSync` pushes
a pointer to it to `m_req_queue`, wakes the writer thread and sleeps until the
request is `ready`.  Whoever holds the controller lock writes requests to the
FPGA: the writer thread in batches, or a sequence, which holds the lock from its
first pulse to its last and calls `writeRequests` while it waits.  A request
that returns a result goes to `m_res_queue` before it is written; the reader
thread takes results out of the FPGA, pops as many requests and completes them
in order.  One that returns nothing is completed by its writer or, to save the
sequence time, by the reader through `m_notify_queue`.  `m_num_written` and
`m_num_read` bound the results the FPGA may owe.  The object dies when its owner
returns from `wait`, so nobody may use a pointer to it afterwards.

Around the engine, `main` initialises FPGA and boards, runs a startup sequence
and starts eight web workers and a ZMQ thread.  They share the controller lock,
the hold bit and the timing flag of the FPGA, the registers of the boards, the
status file, the stop flag that a signal sets, and the files of parameters, which
no lock guards.

**What is hard.**  A pulse is two register writes, whole only under the lock.
Results carry no tag: their order alone says whose they are.  The counters are
read without a lock by threads that do not own them.  Requests are destroyed by
their owner while other threads still hold pointers.  Two condition variables
with several waiters each, one of which is notified without its mutex.  A
destructor that joins threads which may be asleep.  A process that is killed at
any point and started again finds the FPGA, the boards and the files as it left
them.  `PROJECT.json` lists each
hazard at its line, with the properties that cover it.

**What makes each component correct.**

- Request engine: pulses are whole; outstanding results fit the FPGA's buffer
  and the array they are popped into; requests and results stay in step; each
  request is completed once with its own answer; no pointer is used after its
  request died; no wake-up is lost; every call returns; the threads are joined.
- FIFO: it is a queue: what is popped is what was pushed, in order, across wrap
  and growth.
- Commands, runner: a wait of `t` ticks emits pulses that add up to `t`, each
  within the 24 bits of the field, whatever `writeRequests` consumes of it.
- Byte code runner: the same, while staying ahead of real time.
- Text parser: the outputs are those the text asks for, in every repetition.
- Sequence runner: a stop ends a sequence that would go on for ever; the hold,
  the timing flag and the status are those of the sequence that has the lock.
- DDS initialisation: the magic word is on a board only if all writes before it
  were made.
- Parameter store: what is loaded is what was saved.  Servers: one reply to each
  request, on every path.

## 2. Modules

| Module | Models |
|---|---|
| `Controller` | the request engine, all its threads, and the FPGA behind register 31 |
| `ControllerProperties` | its type invariant, safety and liveness properties, and the mapping to `PulserService` |
| `PulserService` | what the engine does for its callers, without threads or counters |
| `MCController` | the programs of calls the runs use |
| `ControllerProofs`, `ControllerResults` | theorems about `Controller`: types, pulses and outstanding results; answers, pointers, wake-ups and the refinement |
| `Fifo` | `FIFO<T>`, the ring buffer; `Queue` is what it promises |
| `MCFifo` | the arrays its run pushes |
| `FifoProofs` | theorems about `Fifo` |
| `TextSequence` | a sequence given as text: `BlockBuilder`, `runInstructionList`, `runWait` |
| `TextProgram` | the commands of a text, from line to output: `parseCommand`, `InstWriter`, `runMetaInstruction`; it extends `TextSequence` |
| `MCTextProgram` | the texts their run parses, builds and runs |
| `TextProofs` | theorems about `TextSequence` and `TextProgram` |
| `ByteCodeRunner` | a sequence given as byte code: `ByteCodeRunner`, its clock and the clients it serves |
| `MCByteCodeRunner` | the byte codes its runs execute |
| `ByteCodeProofs` | theorems about `ByteCodeRunner` |
| `AD9914` | the initialisation of a DDS board, with kills and losses of power |
| `AD9914Proofs` | theorems about `AD9914` |
| `ParamStore` | the files of parameters: `loadMap`, `saveMap`, `setParams` |
| `ParamStoreProofs` | theorems about `ParamStore` |
| `Server` | the process: start-up, workers, ZMQ thread, sequence runners, signals, kill and restart; it composes `AD9914` and `ParamStore` |
| `MCServer` | the requests its run makes |
| `ServerProofs` | theorems about `Server`, which it shows to implement `AD9914` and `ParamStore` |

### Controller

`Program[t]` is the list of calls a thread makes, so that a sequence, a web
request and the `main` that destroys the engine are all threads of the same
kind.  `pc[t]` is where a thread is; a step is the code between two points where
another thread can interfere, and a definition's comment names the function it
is part of.

| Model | Code |
|---|---|
| call `reqSync`: `NewRequest`, `PushReq`, `PushReqNotify`, `WaitSleep`, `WaitReady` | `Request::Request`, `pushReq`, `wait`, and the end of the caller's scope |
| call `run`: `NewRequest`, `RunPush`, `HasResSpace`/`NoResSpace`, `ShortPulseOp`, `RunPulseCtrl`, `RunIncrement` or `LoadWritten`, `StoreWritten` | `run`, `_runComposite`, `waitForResSpace` |
| call `pulse`: `Pulse`, `ShortPulseOp`, `PulseCtrl` | `run` or `write` of a command that returns nothing |
| calls `lock`, `unlock`, `hold`, `finish` | `CtrlLocker`, `setHold`, `waitFinish` |
| call `serve` and the writer: `WriteSpace` ... `StoreWritten` | `writeRequests` |
| call `destroy`: `Quit`, `QuitNotify`, `Join` | `~Controller` |
| `WriterTop` ... `WriterUnlock` | `runWriter` |
| `ReaderTop` ... `ReaderNotify` | `runReader`, `popRemaining`, `popResults`, `dumpNotifyQueue`, `setRes` |
| `m_lock`, `m_quit`, `m_req_queue`, ... | the members of the same names |
| `live`, `ready`, `res`, `cond_id` | the `Request` objects and their fields |
| `latch`, `fpga_cmds`, `fpga_out`, `hold` | first word of a pulse, pulses not executed, results not read, the hold bit |
| `room`, `batch`, `nret`, `seen`, `rd_res`, `rd_req` | locals: `num_to_write`, `reqs`, `num_return`, the loaded counter, `results`, `reqs` |

Abstractions, and why they are sound.

- A queue is a sequence: every operation of `FIFO` runs under its `SpinLock`.
- A request is a model value, and the result of request `r` is `r` itself, so
  that a wrong answer is visible.  Pulses that return nothing leave no trace in
  `fpga_cmds`.  Of a composite command the model keeps the parts that return a
  result; the others are pulses like those of call `pulse`.
- A read of a destroyed request gives any value it may then hold: any bin and
  one outside the array for `cond_id`, the set `StaleHasRes` for `has_res`.  The
  passing runs take `StaleHasRes = {TRUE}`, the byte left behind on the stack;
  with `FALSE` in it the request is completed a second time, which is the
  finding of run `late_has_res`.
- The reader's sleep ends at any time: `wait_for` has a time-out, so a
  notification of `m_reader_cond` only makes it earlier.
- `toggleInit` is taken to leave the pulse and the result buffer alone.
- The two counters are unsigned and wrap at `Word` (2^32 in the code); a
  difference of two of them becomes an `int` (`Signed`).  They start at
  `Earlier`, as after that many results, written and read.
- The destructor is called when every other caller has returned.

### Fifo

The variables are the members of `FIFO`: `m_alloc`, `m_buff` (whose cells are
`Uninit` after `malloc` and `realloc`), `m_read_p`, `m_write_p`.  `push` holds
`m_lock` for several steps, so that `tryPop` may find it taken: `PushLock`,
`PushDouble` once for each turn of its loop, `PushCopy` (`doPush`, with the two
`memcpy` of an array that passes the end).  `TryPush`, `Pop` and `TryPopBusy`
are one step.  The overloads for one element are the case of one element.
`& (m_alloc - 1)` is `% m_alloc`, since `m_alloc` is a power of 2 and the
difference of two positions is taken modulo 2^64, a multiple of it.  Two calls
are outside the model: `push(v, 0)`, which would copy 2^64 - `m_write_p`
elements and which no caller makes, and the `pop()` of one element from an empty
ring, which its callers exclude.

`Queue` is a sequence with the same operations; `queue` in `Fifo` maps the ring
to it.  `Controller` uses such sequences in place of its three rings.

### TextSequence

The model is about time: a command is the number of ticks it takes, and the
properties compare the tick at which it is written (`now`) with the one its line
asks for (`plan`, which no code keeps). A line without a command is either a
comment, which `Skip` passes over, or one the parser throws an error for. `Build`
and `BuildFails` are `pulseAbsT` and `pulseDT` with their errors; `Start` begins
one repetition of `parseSeqTxt`, with whatever an uninitialised
`CtrlState::wait_time` may hold; `RunPulse` to `LongEnd` are the instructions. A
wait of 160us or more is one step for each 80us of it (`LongStep`). Within a step,
how many requests `writeRequests` finds is open, up to what it may write. Every
request a client can make that takes time is a command of a DDS of 50 ticks
(`parseMisc.cpp:66-137`); the others, TTL masks and register writes of no length,
take none.

Assumed: a wait is below 2^56 ticks (22 years), the time of a TTL command is
below 64 ticks, `wait_time` does not wrap 2^64.  Waits below 50 ticks never
serve the clients, nor do commands; `ServedSoon` counts the other waits only.

### TextProgram

It adds the commands to the times.  A line says what the parser's searches and
conversions make of it: its form, the keywords its command contains, the kind of
its argument, the number, whether there is a value.  `ParseLine` is a turn of
`parsePlainTxt`: `Name` looks for the keywords in the order of `parseCommand`,
`Rejected` are its errors, `Instruction` makes the two words, bit by bit, that
`InstWriter` and `commands.h` make.  `RunCommand` is `runInstruction`: it takes
the words apart again (`Remembers`, `PulseOf`), with the memory a `CtrlState`
holds, which begins with any content of its types, and the FPGA and the boards take the pulse
apart once more (`Outputs`, `Takes`; what they do is taken from the field names
and comments of `commands.h`).  A reset of a board leaves `PowerUp` in each of its
registers, as `InitReset` of `AD9914` does.

In a wait that serves them, clients write commands to the same boards:
`ServeClient` is one `DDSSetFreq`, `DDSSetAmp` or `DDSSetPhase` of
`setDeviceParams` in a call of `writeRequests`, and the step of the wait that
follows (`RunWait`) takes at least the ticks of those written.  The memory of the
text does not see them.  The other requests change no output of the model and
only take ticks: reads, the TTL masks (an output is a channel before the masks),
and register writes of no length.  A reset that a client forces
(`AD9914::init` with `Force`) is not written by `writeRequests` but by `run`, in
the client's own thread and without the lock; it is the subject of run
`unlocked`, and left out here.

`said`, `due` and `excess` are history.  `said` is what the lines have made of the
TTL channels and the phases, from what `CtrlState` held at the start of the
repetition; `due` is what each output is to be, by the lines and the clients in
the order of their commands; `excess` is the difference between the ticks of the
pulses and those the builder counted.

Each action of `TextProgram` but `ServeClient`, which is a stutter, is an action
of `TextSequence` on the timeline of the text (`Times`) with what happens to the
commands added, so that the properties of `TextSequence` are checked on it too and
its theorems carry over (`ProgramImplementsTimes`).

Two things are written so that they can be proved about.  The `|` of C++ is `Or`,
by halves of the operands down to bits; the recursive operators of the module
`Bitwise` are beyond the provers, and `MCTextProgram` compares the two on the
values commands have (`OrIsBitwiseOr`).  A value of all TTL channels (the operand
of such a command and `curr_ttl`) is the set of the channels that are on: the code
moves it whole and sets a bit of it (`setTTL`), and does nothing else with it.

`Fits` is what the texts are taken to do: values have the types the converters
give them, a DDS command names a board that exists and a TTL command one of the 32
bits of the mask.

Four things the model makes plain: a TTL command writes all channels, and one that
no line has set yet gets whatever the uninitialised `curr_ttl` holds (`said`
begins with it, in each repetition); a shift of a phase that the text has not set
counts from the uninitialised `dds_phases`, and never from what a client has set; `phase` is
looked for before `shiftp`, so that a command named `shiftphase` sets the phase;
`parseReset` and `parseTTL` do not check their channel, unlike the other commands
(a text with a board above 21 or a TTL channel above 31 is outside the model's
texts, like negative channels and operands that `sscanf` does not reach because
its input ends).

### ByteCodeRunner

`code` is the calls the byte code interpreter makes.  `wait` is in several
steps, since the clock advances in it (`Tick`): `WaitOf` chooses the branch,
`LoopBehind` and `LoopAhead` are the two ways through the top of the loop,
`Release` and `Serve` the rest of a turn, `OutFull` and `OutRest` the loop and
the end of `output_wait`.  `asked`, `out`, `pulses`, `given`, `taken`, `waived` and
`overrun` are history variables: the ticks called for and written, the wait pulses
of the last step that wrote one, the length the wait was called with, and
what requests took of it.

Three numbers are scaled down to keep what TLC handles: `max_wait_t`
(2^24 - 1), the lead `m_min_t` (0.5s) and the width `Word` (2^64) of the unsigned
arithmetic at lines 247, 251 and 274.  The thresholds of the code are the real ones (1000,
2000, 3000, 7000, 10000 ticks).  `Word` stays far above every time, so that a
wrapped difference is recognised as one, as in the code.

Two slips of the code are in the model as they are: the 1000 ticks of the
release are added to `m_t` twice (lines 263 and 217), which is the 10us that
`LeadKept` allows for; and the difference at line 251 always wraps (run
`behind`), so that `LoopBehind` always takes its first branch, the rest of the
wait.

### AD9914

An `init` is the list of its register writes, `WriteAt(1)` to
`WriteAt(NumWrites)`; `initing[t].next` is the next one.  Any thread may begin
one, with or without the check of the magic word (`InitCall`, `InitForce`), at
any time: two callers have the controller lock, the others have not.  A power
loss puts a board back to its power-up values, a kill stops every thread.  The
magic word is four bytes, written at once; the model keeps the half at 0x66,
which is not zero.

The code does not keep two threads from initialising one board at a time, and
then the magic word may appear with one of them in the middle, or stay on a
board that the other has just reset: TLC shows it when `MagicMeansConfigured` is
asked without its exemption.  So the property leaves out boards in overlapping
initialisations (`overlap`), and those that lost their power under one or whose
overlapping ones were cut off (`torn`), until one initialisation resets them
alone; both are history variables.

### ParamStore

`setParams` loads the file of a page (`SetLoad`), empties it (`SetOpen`) and
writes it entry by entry (`SetEntry`, each flushed by `std::endl`); nothing locks
it.  `wanted` is what the forms amount to one after another.  While forms of one
page overlap, or when a kill cuts one off, parameters may be lost, and `wanted`
is set to what is left; `StoredParams` says that nothing is lost otherwise.  A
value with a semicolon is cut by `getline` and its entry is not loaded again
(`Kept`).  Entries are taken to be of one length, so that a write at a thread's
own place replaces a whole entry.

### Server

`place[t]` is where a thread is in its own code, `job[t]` what it serves.

| Model | Code |
|---|---|
| `Boot`, `Clear`, `Detect`, `Startup`, `Serve` | `main` up to the workers, `init_system`, `Controller::init` |
| `InitNext`, `InitRun`, `InitDone` | the loops over `active_dds`, with the steps of `AD9914` |
| `Accept`, `Save`, `Reply` | `processRequests`, `parseQueryCGI` with the steps of `ParamStore` |
| `Parse`, `TakeLock`, `Repeat`, `RunList`, `ReleaseHold`, `RepDone`, `LastRep`, `EndSeq`, `Unlock` | `parseSeqTxt` |
| `ZmqReceive`, `ZmqAnswer`, `ZmqRun`, `Drain` | `processZMQ` |
| `HoldCode`, `RunCode`, `ReleaseCode`, `CodeDone` | `handleRunByteCode`, `runEpilogue` |
| `Fpga`, `Usr1`, `Kill`, `LosePower` | what happens around the process |

Pulses are one bit here (`queued`): the FPGA has some to run, and does when it is
not held; `waitFinish` waits for that.  A pulse may come late (`late`, the timing
flag).  A kill restarts the process with the FPGA, the boards and the files as
they are, the FPGA perhaps held.  The commands of an `init` that a client runs
while a sequence holds the FPGA would wait in the FPGA's queue; the model lets
them through, which only adds orders.  Every board is taken to be there.

What the model shows of the code without a property failing: the stop flag is
kept when nothing runs and ends the next text after one repetition; a stopped
text reports one repetition too few; the status of a byte code sequence may be
replaced by another sequence's `Idle` while it waits for the lock, hence
`StatusTrue` speaks of texts while they run and of the time when no sequence is
asked for.

### Fairness

`FairSpec` asks that each thread keeps running (weak fairness of its next step)
and that the FPGA executes its pulses when it is not held.  Strong fairness is
asked of one step, `Quit`: the destructor must get `m_reader_lock`, which the
reader releases only while it sleeps, some milliseconds in each round.  No other
mutex has to be fair.  Nothing is assumed about when the FPGA starts while held.

In `Server`, each thread goes on (weak fairness of `Run(t)`), and so does an FPGA
that is not held.  `Accept`, `ZmqReceive`, signals, kills and losses of power are
not part of it: nothing makes them come.  The controller lock needs no more: a
bounded number of requests takes it a bounded number of times, unless a text runs
for ever, which `EveryAnswer` exempts until it is stopped.

## 3. Runs

| Run | Instance | Shows |
|---|---|---|
| `sequence` | 2 clients (one request with, one without a result), a sequence that holds the FPGA, serves, pulses, waits and runs a command with a result; 2 result slots, 2 bins | `TypeOK`, `WholePulses`, `OwnResult`, `NoDangling`, `NoLostWakeup`, `CompletedOnce`, and no deadlock |
| `composite` | a composite request, then the destructor; a sequence with a composite command that needs both result slots and serves with notification | `ResultBufferBound`, `BatchFits`, `ResultOrder`, `Returns`, `Terminates`, and the refinement `ImplementsService` |
| `ring` | arrays of 1, 2 and 3 elements of two values; 4 slots, which double to 8 | `TypeOK`, `Initialised`, and the refinement `ImplementsQueue` |
| `text` | texts of up to 2 of 15 lines at limits of time, of up to 3 of 5 of them, and one of 14 lines whose waits serve nobody until their sum does; of up to 3 of 4 phase commands, of up to 2 of all 13 commands, of up to 2 of 7 with a wait that serves clients, with each error in the middle; a client's command for a board in each turn of a wait; the real constants | `TypeOK`, `OnSchedule`, `OperandFits`, `ServedSoon`, `OutputsFollow`, `LengthsAgree` |
| `byte_code` | codes of up to 3 of 11 calls; up to 19 requests; 4 ticks of the clock | `TypeOK`, `TicksAdd`, `LeadKept`, `NoSliver` |
| `server` | 2 workers and the ZMQ thread, 1 board, 1 page with 3 parameters, a startup sequence or none, 2 requests out of 5 to FastCGI and 5 to ZMQ, 1 kill or loss of power, any number of stops | `TypeOK`, `MagicMeansConfigured`, `StoredParams`, `HoldOwned`, `FreshTiming`, `StatusTrue`, `AnsweredOnce`, `EveryAnswer` |
| `late_has_res` | two clients | violation of `HasResReadLive` |
| `late_cond_id` | two clients | violation of `CondIdReadLive` |
| `unlocked` | a client, a sequence that runs a command before it takes the lock | violation of `WholePulses` |
| `overrun` | a wait of 120us, one of 20us, 45 requests | violation of `TimeToServe` |
| `behind` | waits of 260us and 40us | violation of `JustToLead` |
| `long_sequence` | as `byte_code` | violation of `OnlyShortWaive` |

The bounds are small but reach the interesting cases.  `MaxWrite = 2` (15 in the
code) makes the buffer full with two requests, so that `waitForResSpace` sleeps,
batches are cut short and the writer has to wait for the reader.  `NumLocks = 2`
(32) gives bins of their own and shared ones, and the counter wraps.
`Word = 8` and `Earlier = 7` (`sequence`: 16 and 15) make the counters of results
wrap at the first result; 8 is more than twice `MaxWrite`, which `WordAssumption`
asks, and 16 more than four times, which `NoLostWakeup` needs (section 4).
`WriterMax` exceeds `MaxWrite` in `composite`, as 32 exceeds 15.  Three requests
suffice for two in a batch and one of the sequence's own; each safety property
speaks of at most two requests and three threads.  Both end by
themselves, so each behaviour is explored to the return of every call.

In `ring`, four slots are the least the constructor makes (256 in the code).
Each array is pushed at each position of the ring: before its end, up to its
end, and over it; the ring doubles wrapped and not wrapped, and is full with
`m_alloc - 1` elements both before and after.

In `text` the lines have waits on both sides of each limit of `runWait` (50, 306,
1024, 16000 ticks and one 80us more) and gaps of 0, 2, 3 and more ticks.
`OnSchedule` relates a command to the sum of all before it, so that two lines with
every combination of limits, and three of those whose gaps are left out, are
enough to see an error carried over; `TextProofs` has every other length.
`wait_time` begins at each value in `WaitGarbage`, `curr_ttl` with no channel or
all, the phases at 0 or 65535, in each combination.  Channels
and values are at the limits of their fields (TTL 17, DDS 21, DAC 3, phases that
add up to more than 2^16); three phase commands are a phase, a reset and a shift
in every order, two of the others show whether one leaves the other alone.  The
clients set the frequency, the amplitude or the phase of the board that the lines
set, reset and shift, before and after each of them: once (`MaxCommands`) in each
call of `writeRequests`, which is once in a wait of less than 160us and every 80us
in a longer one.  `TextProofs` has all other texts, channels, values and clients.
A text ends or fails, so that deadlock is not checked.

In `byte_code` the calls are on both sides of the limits of `ttl`, `wait` and
`output_wait`; 19 requests are several batches, and more than 9us of a wait of
20us: the last pulse of it may then be 50 ticks long, the case `NoSliver` exempts;
the clock can pass the lead by none, one or several turns of the loop.  The code ends, so that
deadlock is not checked.

In `server`, two requests are two sequences that wait for each other, a
sequence and a reset of a board, or two forms for one page; a third would only
wait with the second.  A fault comes once: a second kill finds what the first
did, since start-up sets everything else.  One write stands for the zeroing loop,
the one that touches the magic word.  A text has two repetitions, or no end.
The requests end, so that deadlock is not checked; `EveryAnswer` says that no
thread is left waiting.

### Findings

- `late_has_res`: `controller.cpp:172` looks at a request after its pulse was
  written; the comment that follows it says that must not be done.
- `late_cond_id`: `controller.cpp:50` reads `cond_id` after the request was made
  ready.
- `unlocked`: `parseTxtSeq.cpp:342` (and `parseMisc.cpp:144`) run commands
  without the controller lock that `controller.h:355` asks for.
- `overrun`: `instruction.cpp:274` takes the ticks of requests from a wait that
  may have fewer left; `t` wraps, and a wait of nearly 2^64 ticks begins.
- `behind`: `instruction.cpp:251` subtracts the larger from the smaller of two
  `uint64_t`; the whole of a wait is written as soon as the lead is missed, and
  its clients are not served.  With the operands in order, `JustToLead` and the
  properties of `byte_code` hold.
- `long_sequence`: the condition at `instruction.cpp:231` is the opposite of what
  its comment says.

## 4. Proofs

For any threads, programs, requests and bounds:

- `TypesAreCorrect` (`ControllerProofs`): `Spec => []TypeOK`.
- `PulsesAreWhole`: if every program is `Disciplined` (it
  takes the lock around the calls that need it), then `Spec => []WholePulses`.
  `Disciplined` is a predicate on the constant `Program`; run `unlocked` shows
  that it is needed, and the programs of the other runs satisfy it.
- `ResultsFit` and `BatchesFit`: if every program is
  `Disciplined`, then `Spec => []ResultBufferBound` and `Spec => []BatchFits`.
- `ResultsInOrder` (`ControllerResults`): if every program is `Disciplined`, then
  `Spec => []ResultOrder`.
- `AnswersAreOwn`: if also `has_res` of a destroyed request does not read as
  FALSE (`StaleHasRes`; see `late_has_res`), then `Spec => []OwnResult`.
- `AnswersAreFinal`: if also no request is constructed twice (`Distinct`), then
  `Spec => CompletedOnce`.
- `NothingDangles`: under the conditions of
  `AnswersAreFinal`, `Spec => []NoDangling`.
- `EngineImplementsService`: under the same conditions, `Spec => Service!Spec`,
  the refinement `ImplementsService` without its fairness.
- `WakeupsAreKept`: if every program is `Disciplined`, requests are `Distinct` and
  the counters are `Wide` (`Word > 4 * MaxWrite`; 2^32 and 15 in the code), then
  `Spec => []NoLostWakeup`.

For any elements, arrays and sizes:

- `RingTypeCorrect` (`FifoProofs`): `Spec => []TypeOK`.
- `ElementsAreInitialised`: `Spec => []Initialised`.
- `RingIsQueue`: `Spec => ImplementsQueue`.

For any texts and any content of `wait_time` (`TextProofs`):

- `TextTypesAreCorrect`: `Spec => []TypeOK`.
- `CommandsAreOnSchedule`: `Spec => []OnSchedule`.
- `OperandsFit`: `Spec => []OperandFits`.
- `ClientsAreServedSoon`: `Spec => []ServedSoon`.

For any texts with commands that fit, any content of `CtrlState`, and any commands
of clients in the waits (`TextProofs`, about `TextProgram`):

- `ProgramImplementsTimes`: `ProgramSpec => Spec`, so that the four theorems above
  hold of the program of a text.
- `OutputsAreAsked`: `ProgramSpec => []OutputsFollow`.
- `CommandsTakeTheirLength`: `ProgramSpec => []LengthsAgree`.

For any byte codes, requests, steps of the clock, leads, longest pulses of more
than 2000 ticks and widths of the arithmetic (`ByteCodeProofs`):

- `RunnerTypeCorrect`: `Spec => []TypeOK`.
- `NothingOfAWaitIsLost`: `Spec => []TicksAdd`.
- `LeadIsKept`: `Spec => []LeadKept`.
- `NoSliverIsLeft`: `Spec => []NoSliver`.

For any threads, boards and list of zeroed registers (`AD9914Proofs`):

- `BoardTypeCorrect`: `BoardSpec => []BoardTypeOK`.
- `MagicMeansConfiguredAlways`: `BoardSpec => []MagicMeansConfigured`.

For any threads, pages, names and values (`ParamStoreProofs`):

- `StoreTypeCorrect`: `StoreSpec => []StoreTypeOK`.
- `ParamsAreStored`: `StoreSpec => []StoredParams`.

For any workers, boards, pages, requests, startup sequences and numbers of
requests and faults (`ServerProofs`):

- `ServerTypeCorrect`: `Spec => []TypeOK`.
- `HoldIsOwned`, `TimingIsFresh`, `StatusIsTrue`, `AnswersOnce`: `Spec` implies
  `HoldOwned`, `FreshTiming`, `StatusTrue` and `AnsweredOnce`.
- `BoardsImplemented`: `Spec => BoardSpec`, and `StoreImplemented`:
  `Spec => StoreSpec`.  Hence `ServerKeepsBoards` and `ServerKeepsParams`:
  `MagicMeansConfigured` and `StoredParams` hold of the server.

**TypesAreCorrect.**  `TypeOK` alone is not inductive: `reqs[k]` is a request
only while `k` is inside the batch, and the result `k` the reader hands out only
while there are as many.  The inductive invariant is
`Placed /\ LoopInv /\ DataTypes`:

- `Placed`: the label of a caller belongs to the call it is making;
- `LoopInv`: the index of each loop is within the bound of that loop, at the
  labels inside it;
- `DataTypes`: the conjuncts of `TypeOK` about queues, counters, requests and
  locals, in the groups `ControllerProperties` names.

**PulsesAreWhole.**  `WholePulses` says where the half-written pulse and the
program counters are; it is not inductive, because nothing in it keeps a second
thread from beginning a pulse.  The inductive invariant is
`Placed /\ LockInv /\ PulseInv`:

- `LockInv`: the thread that holds the controller lock is known from the calls
  its program has made (`LockedAt`) or, for the writer thread, from its label;
- `PulseInv`: `WholePulses`, and the latch is empty or holds an operand.

From `Placed` and `LockInv`, whoever is in the middle of a pulse holds the lock
(`PulseHolder`), hence is alone there.

**ResultsFit, BatchesFit.**  A result is counted some steps after it was written,
and by the reader some steps after it was taken; between them `resBuffSpace` is
wrong, and `ResultBufferBound` does not say by how much, nor how many pulses are
still to come on the strength of an earlier look.  `CountInv` does, for `Holder`,
the one thread that may write pulses:

- `m_num_written + Uncounted - m_num_read`, modulo `Word`, is `Outstanding`: the
  results owed by the FPGA, in its buffer, or taken by the reader and not counted;
- `Outstanding + Planned` is at most `MaxWrite`, where `Planned` is what the
  holder may still write;
- `Local`, for each thread: it has counted what it wrote before it gives up the
  lock, the counter it loaded is still the one there is when it stores, and its
  `room` and `batch` fit.

The counters wrap: `CountTurns` to `CountExact` are the arithmetic of remainders,
and `SpaceExact` says that the `int` of `resBuffSpace` is `MaxWrite - Outstanding`
when nothing is uncounted, for which `Word > 2 * MaxWrite` is needed.

**ResultsInOrder, AnswersAreOwn, AnswersAreFinal.**  `ResultOrder` lets any
thread be the one that has pushed and not yet written, so a second one could push
out of turn.  `OrderInv` says which: `m_res_queue` is what arrives and what `t` has
not written, for each `t` such that every other thread is idle, and by `LockInv`
whoever is not idle holds the lock.  Each step then moves a result one place to
the left in one sequence (pushed, written, executed, read), or takes the first
ones off both sides (`OrderPop`), so that `rd_req = rd_res`.

`OwnResult` does not say what is in the queues.  `AnswerInv` does: `m_res_queue`
has only requests with a result, `m_notify_queue` only such without, likewise what
the reader popped of them; with `rd_req = rd_res`, what `setRes` gets is the answer.
It holds for destroyed requests too, but only if what was freed still reads as a
request with a result: otherwise `writeRequests` would complete it again with 0.

`CompletedOnce` follows from `AnswerInv` before and after a step, except that the
construction of a request takes it out of `ready`.  `LiveInv` excludes that for
one that is alive: whatever is alive was constructed by a call that its thread
has begun, hence by no other.

**NothingDangles.**  `NoDangling` says of each place that may hold a pointer that
the request is alive and not done, but a step that completes a request, or
destroys it, would break it if a second place held the same one.  `PlaceInv` adds
that (`Apart`).  A `Slot` is a position in one of the three queues, in what the
reader has popped and not completed, in a batch, or among the requests a caller
has constructed and not pushed; no request is in two.  Each step gives up a slot
(`PlaceShrink`), moves one request to the end of a queue (`PlaceMove`), or the
first ones of a queue to an array (`PlacePop`).  Two facts are needed beside it:
a caller destroys its requests when all of them are done (`Waited`), and outside
its loop `writeRequests` has no batch (`EmptyBatch`).  A request that was pushed
to `m_res_queue` and is about to be written is in the queue's slot, by `OrderInv`.

**EngineImplementsService.**  The mapping (end of `ControllerProperties`) reads the
state of the service off the engine's: what is asked for and not written is in
the hands of the lock's holder or in `m_req_queue` (`ToWrite`); results are due for
what the reader holds, the FPGA has put out, and it has yet to execute (`Owing`);
`Deferred` is what returns nothing and is written.  `EngineInv` is `PlacesInv`, with
the facts that a request not done has no answer (`Blank`: then completing one
that returns nothing changes no answer) and that what is done was constructed
(`DoneInv`: then a new request is not done).  `KnownSlots` finds all the service
knows in the slots of `PlaceInv`, so that a new request is none of it, and the one
the reader completes is due once.  The step that writes a command is `Write`,
though its request left the queue many steps before; `FpgaExec` and the reader's
`popResults` move results within `Owing` and are stutters.  `ServiceNext` has one
lemma per action that the service sees, and `ServiceQuiet` for most others.
`EngineInv` is kept because a step of the service completes only what was due
(`ServiceCompletes`).

**WakeupsAreKept.**  `NoLostWakeup` is nearly inductive; what it lacks is where a
sleeping thread is, and that what it waits for stays.  `CallerWoken` adds that
whoever sleeps on a bin is at `wait`, and with `OwnLive` (a caller's requests are
alive until it returns) the one notified bin is its own.  `WriterWoken` adds the
same for `m_writer_cond`.  Its hard part is that the count of what was written
never makes room (`SpaceShrinks`), since nobody is notified of it.  While results
are written and not counted, and perhaps already read (at most `MaxWrite` of
them: `NretInv`), `resBuffSpace` finds too much room, up to `2 * MaxWrite`.
Counters of `4 * MaxWrite` values or fewer would take that for a negative number,
put the thread to sleep, and make room when they are stored; hence `Wide`.

In the two modules there is one lemma per thread and invariant, and in it one
case per action.

**Fifo.**  The inductive invariant is `TypeOK /\ Initialised`, and the same step
lemma, `StepKeeps`, gives the refinement.  `AdvanceWraps` and `SizeWraps` turn
the remainders into cases (a position wraps at most once); from them
`PushAppends`, `DoubleKeeps` and `PopTakes` say what `doPush`, `doubleSize` and
`pop` do to the elements, oldest first: append, nothing, drop the first ones.

**TextSequence.**  One inductive invariant, `IInv`, gives the four theorems:

- `Chained`: in the code built so far, each instruction begins in the plan where
  the one before it ends, and the last ends at `currT`;
- `InTime`: while the code runs, `now` is where the next instruction begins in
  the plan, plus what a long wait has done of it.  `OnSchedule` alone does not
  say where a wait begins, so that the command after it could be anywhere;
- `Counted`: `unserved` is bounded by what the longest rest of a wait and
  `wait_time` allow, which `ServedSoon` does not tie together;
- the types, `OperandFits` and `ServedSoon` themselves.

`OperandFits` rests on arithmetic: `max_requests(t)` commands of 50 ticks are at
most `t`, for each `t` of 50 or more.

**TextProgram.**  The inductive invariant is `IInv` and `PInv`, which is

- `OutputsFollow` and `LengthsAgree` themselves;
- `Remembered`: what `CtrlState` holds of the TTL channels and the phases is what
  the lines have said.  `OutputsFollow` alone is not inductive: the
  output may be right and the memory wrong, and the next command of another
  channel, or the next shift, then shows it;
- `Recorded`: the instruction at the place of a command has the words and the ticks
  of that command, whatever was built after it;
- `Read`: the lines not read yet are lines of the texts, and their times are what
  is left of the timeline.

TLC has checked it on the texts of run `text` that are made of commands.  `Works` says of one command, in
any state that satisfies `PInv`, that its pulse takes the ticks counted for it,
makes each output what the command has it be, and leaves `Remembered` true.  There is
one lemma for each kind of command, from `FreqWorks` to `TTLWorks`.  A client's
command is such a word too, and changes `out` and `due` alike and nothing else
(`ClientSets`, `ServeKeeps`).
They rest on lemmas about the two words: the fields `Or` puts
together (`OrLow`, `OrBoard`, `OrRegister`, `OrHigh`, `OrMeta`) are those the
runner and the board take apart (`TTLWord`, `PhaseWord`, `ResetWord`,
`TwoBytesPulse` and the others), because no two of them share a bit.

**ByteCodeRunner.**  The inductive invariant is `RunInv`: `TypeOK`, `TicksAdd`,
`LeadKept` and `NoSliver`, and

- `CodeInv`: the calls that are left are of lengths that fit in `Word`;
- `LoopInv`: the rest of a wait is below `Word`, and at least 2000 until the hold
  is released, so that the wait of the release can be taken from it (the
  `assert(t >= 2000)` of line 262, which is no guard of the model); outside a wait
  `output_wait` does not go back to the loop;
- `ClockInv`: `m_t` is not ahead of what is written, and of what `output_wait`
  still has to write, by more than the 1000 ticks it counted twice.

`LeadKept` follows from `ClockInv` where the loop compares: `seq_rt` is
`m_t * 10` or, wrapped, less than that, so that it can only be too careful.
`TicksAdd` needs that the rest of a wait in which no batch of requests was too
long does not wrap when it is diminished, which is `LoopInv`.  `NoSliver` speaks of
pulses that are written; `RestInv` adds what is left to be written: in the loop
the rest of a wait and what the requests took of it are at least 10us, and what
`output_wait` has left is 1us or more, or all of a shorter wait, or the rest of
one of which the requests took more than 9us.  The first is kept because the loop
never leaves less than 3000 ticks to itself, the release takes 1000 of at least
2000, and what a batch takes moves from one to the other; the second because a
full pulse is only written when more than 100 ticks are left beyond it, and two
halves are of more than `max_wait_t`.

**AD9914.**  `MagicMeansConfigured` does not say how far an initialisation has
come.  `BoardInv` does, for each board: without `overlap` at most one thread is
past the check (`Solo`), and while one is past its reset the magic word is not
there (`MagicLast`); without `torn`, overlap or not, each configuration register
of a board with the word or in an initialisation has its final value unless a
write to it is still to come (`Covered`), and at the end of the list none is.
One lemma for each action shows that it keeps them for its board and, with
`Frame`, for the others.

**ParamStore.**  `StoredParams` speaks of pages that nobody saves.  `StoreInv`
says what a save has done so far: without `lapped` there is one, its entries are
those of the parameters it will leave (`PageOK`), the file holds the old
parameters before it is opened, and the entries written so far afterwards.  That
the entries of `saveMap`, read by `loadMap`, are the parameters (`RoundTrip`) is a
fact about lists of any length.  It needs the least element of a set of numbers
(`Least`, from the well-foundedness of the subset order on finite sets), whence
the k-th entry with a value exists and is the only one (`Ranks`).

**Server.**  Each property about the FPGA or the status names a thread by what it
has, and two threads may have it in turn.  `ServerInv` is the invariants of boards
and files and `OwnInv`:

- `PlacesOK`: what a thread serves fits where it is and which thread it is; while
  `main` starts up it is alone; the thread that has the controller lock is known
  from its place (`LockOwned`);
- `FpgaOwned`: hold, queued pulses and the timing flag, if set, are those of the
  one thread that has the lock, at the places where it may have set them and not
  yet cleared them;
- `StatusOwned`: a status other than `Idle` is that of a sequence that will write
  `Idle`, and no other sequence overwrites that of a repeated text;
- `OwedHere`: what is owed to the ZMQ client and what is left of its request are
  known from the place of the thread.

TLC has checked it on the instance of run `server`.  One lemma for each of the
parts (`TypesStep`, `PlacesStep`, `FpgaStep`, `StatusStep`, `OwedStep`) has one
case per action; a kill has its own.  `BoardsFollow` and `StoreFollows` map each
step to one of `AD9914` and `ParamStore`, or to a stutter.

Assumptions: the named `ASSUME`s of `Controller` (distinct threads, positive
bounds, counters of more than twice `MaxWrite` values, a request's type,
well-formed programs), of `TextSequence` (the form of a line), of `TextProgram`
(boards from 0 to 21, TTL channels from 0 to 31, texts whose commands fit and
whose times are in `Texts`, the types of `CtrlState`, clients' commands to boards
that exist with values of 16 bits), of `ByteCodeRunner` (the
calls have lengths of the width of `uint64_t`), of `Fifo` (a power of 2 of at
least 4 slots, no empty array) and of `AD9914` (the zeroing loop writes even
addresses from 0x10 to 0x6a; the magic word is neither a configuration value nor
the content after a reset), of `ParamStore` (the values that `getline` cuts are
values; no page or parameter has the name that stands for none) and of `Server`
(main, the ZMQ thread and the workers are different threads; requests, boards and
messages have their types), which TLC evaluates in every run.

Only model-checked: the liveness properties `Returns`, `Terminates` and `EveryAnswer`,
and the fairness that `ImplementsService` asks of the service; these cannot be
proved with the installed provers.  Every other property of the passing runs is
stated by a theorem.  That `Or` is the `|` of `Bitwise` is compared by TLC on the
words of commands only; the proofs are about `Or`.

## 5. Plan

What is left: the destructor while the reader is in `popRemaining`, which extends
`Controller`.

Runs are shared where two questions fit one instance; the total stays at a
dozen.

## 6. Not modelled

The hardware parameters (`xparameters*.h`, 942 lines) are generated constants.
Floating point conversions (`converter.h`) are out of TLA+'s reach: the values of
texts are the numbers the converters make.  The command line, log output, HTML
and its escapes are plain input and output.  The byte code interpreter belongs to
another library.  Of the web requests, `getParams`, `getDeviceParams` and the
setters of `setDeviceParams` are the calls of the engine they make (`Controller`)
and what the setters do to boards in the waits of a text (`TextProgram`);
the TTL masks are registers that no other part reads.  Start-up with boards that
are missing or answer wrongly, byte code that throws, and a ZMQ socket that fails
are left out.
