-------------------------------- MODULE AD9914 --------------------------------
(***************************************************************************)
(* AD9914::init (molecube/AD9914.cpp): the initialisation of a DDS board   *)
(* is a list of register writes that ends with a magic word, and a board   *)
(* that shows the word is left alone.  Any thread may run it, with or      *)
(* without the controller lock; a board may lose its power, and the        *)
(* process may be killed, between any two writes.                          *)
(***************************************************************************)
EXTENDS Integers, Sequences

CONSTANTS
  Threads,     \* the threads of the process
  Boards,      \* the DDS boards
  ZeroList,    \* the addresses of the zeroing loop, in its order
  MagicBytes,  \* magic_bytes
  PowerUp      \* the content of a register after a reset, whatever it is

MagicAddr == 102   \* 0x66, the half of magic_bytes at 0x64 that is not zero; both
                   \* halves are written at once, and change together in a reset
ProbeAddr == 104   \* 0x68, where DDSExists writes

\* The loop goes from 0x10 to 0x6a by twos.
ASSUME ZeroListAssumption ==
  ZeroList \in Seq({a \in 16 .. 106 : a % 2 = 0})
ASSUME MagicAssumption == MagicBytes \notin Nat /\ PowerUp # MagicBytes

\* The writes of configuration registers: 0x0E twice, 0x04, 0x06 and 0x00.
ConfigWrites == << [addr |-> 14, val |-> 261],  [addr |-> 14, val |-> 1029],
                   [addr |-> 4,  val |-> 256],  [addr |-> 6,  val |-> 128],
                   [addr |-> 0,  val |-> 776] >>
ConfigAddrs == {0, 4, 6, 14}

\* All writes of an init: configuration, zeroes, magic.
NumWrites == Len(ZeroList) + 6
WriteAtX(k) == IF k = 1 THEN [addr |-> MagicAddr, val |-> MagicBytes]
               ELSE IF k <= 6 THEN ConfigWrites[k - 1] ELSE [addr |-> ZeroList[k - 6], val |-> 0]
WriteAt(k) ==
  IF k <= 5 THEN ConfigWrites[k]
  ELSE IF k < NumWrites THEN [addr |-> ZeroList[k - 5], val |-> 0]
       ELSE [addr |-> MagicAddr, val |-> MagicBytes]

Addrs == ConfigAddrs \cup {ZeroList[i] : i \in DOMAIN ZeroList} \cup {MagicAddr, ProbeAddr}
NoInit == [board |-> "none", next |-> -2]

VARIABLES
  regs,     \* regs[b][a]: register a of board b
  initing,  \* initing[t]: the board thread t initialises and its next step,
            \* -1 to check, 0 to reset, k for write k; or NoInit
  overlap,  \* history: the inits of the board under way overlap
  torn      \* history: the board lost its power under an init, or the process
            \* died in overlapping ones, since one last reset it alone

ddsVars == <<regs, initing, overlap, torn>>

Blank == [a \in Addrs |-> PowerUp]
HasMagic(b) == regs[b][MagicAddr] = MagicBytes

\* Threads that have found that board b is to be initialised, and those of them
\* that have reset it.
On(b)     == {t \in Threads : initing[t].board = b /\ initing[t].next >= 0}
Past(b) == {t \in Threads : initing[t].board = b /\ initing[t].next >= 1}

\* What a process finds when it starts for the first time.
BoardInit ==
  /\ regs = [b \in Boards |-> Blank]
  /\ initing = [t \in Threads |-> NoInit]
  /\ overlap = [b \in Boards |-> FALSE] /\ torn = [b \in Boards |-> FALSE]
-----------------------------------------------------------------------------
Enter(t, b) == /\ initing' = [initing EXCEPT ![t] = [board |-> b, next |-> 0]]
               /\ overlap' = [overlap EXCEPT ![b] = @ \/ On(b) # {}]
Leave(t, b) == /\ initing' = [initing EXCEPT ![t] = NoInit]
               /\ overlap' = [overlap EXCEPT ![b] = @ /\ On(b) # {t}]

\* init is called; with Force it does not look for the magic word.
InitForce(t, b) ==
  /\ initing[t] = NoInit /\ Enter(t, b) /\ UNCHANGED <<regs, torn>>
InitCall(t, b) ==
  /\ initing[t] = NoInit
  /\ initing' = [initing EXCEPT ![t] = [board |-> b, next |-> -1]]
  /\ UNCHANGED <<regs, overlap, torn>>

\* DDSGetFourBytes(i, 0x64)
InitCheck(t, b) ==
  /\ initing[t] = [board |-> b, next |-> -1]
  /\ IF HasMagic(b)
     THEN initing' = [initing EXCEPT ![t] = NoInit] /\ UNCHANGED overlap
     ELSE Enter(t, b)
  /\ UNCHANGED <<regs, torn>>

\* DDSReset(i)
InitReset(t, b) ==
  /\ initing[t] = [board |-> b, next |-> 0]
  /\ regs' = [regs EXCEPT ![b] = Blank]
  /\ initing' = [initing EXCEPT ![t].next = 1]
  /\ torn' = [torn EXCEPT ![b] = @ /\ overlap[b]]
  /\ UNCHANGED overlap

\* DDSSetTwoBytes, and DDSSetFourBytes for the magic word
InitWrite(t, b) ==
  /\ initing[t].board = b /\ initing[t].next >= 1
  /\ LET k == initing[t].next
         w == WriteAt(k)
     IN /\ regs' = [regs EXCEPT ![b][w.addr] = w.val]
        /\ IF k = NumWrites
           THEN Leave(t, b)
           ELSE initing' = [initing EXCEPT ![t].next = k + 1] /\ UNCHANGED overlap
  /\ UNCHANGED torn

InitStep(t, b) == InitCheck(t, b) \/ InitReset(t, b) \/ InitWrite(t, b)

\* DDSExists, for a board that does: both of its writes and reads.
Probe(b) ==
  /\ regs' = [regs EXCEPT ![b][ProbeAddr] = 1]
  /\ UNCHANGED <<initing, overlap, torn>>

\* The board loses its power, or is reset by hand.
PowerLoss(b) ==
  /\ regs' = [regs EXCEPT ![b] = Blank]
  /\ torn' = [torn EXCEPT ![b] = @ \/ Past(b) # {}]
  /\ UNCHANGED <<initing, overlap>>

\* The process ends, by SIGINT for one: every thread stops where it is.
KillInits ==
  /\ initing' = [t \in Threads |-> NoInit]
  /\ torn' = [b \in Boards |-> torn[b] \/ overlap[b]]
  /\ overlap' = [b \in Boards |-> FALSE]
  /\ UNCHANGED regs

Call == \E t \in Threads, b \in Boards : InitForce(t, b) \/ InitCall(t, b)
Step == \E t \in Threads, b \in Boards : InitStep(t, b)

BoardNext == Call \/ Step \/ (\E b \in Boards : Probe(b) \/ PowerLoss(b)) \/ KillInits

BoardSpec == BoardInit /\ [][BoardNext]_ddsVars
-----------------------------------------------------------------------------
Configured(b) ==
  /\ regs[b][0] = 776 /\ regs[b][4] = 256 /\ regs[b][6] = 128 /\ regs[b][14] = 1029

\* Every variable has its type.
BoardTypeOK ==
  /\ regs \in [Boards -> [Addrs -> Nat \cup {MagicBytes, PowerUp}]]
  /\ initing \in [Threads -> {NoInit} \cup [board : Boards, next : -1 .. NumWrites]]
  /\ overlap \in [Boards -> BOOLEAN] /\ torn \in [Boards -> BOOLEAN]

\* The magic word says that the board is configured, at every instant: a kill
\* between two writes, a loss of power between two inits, and a second thread
\* that begins when the first is done never leave a board that will not be
\* initialised and is not.  Nothing is said while inits overlap, or after a
\* board lost its power under one.
MagicMeansConfigured ==
  \A b \in Boards : HasMagic(b) /\ ~overlap[b] /\ ~torn[b] => Configured(b)
=============================================================================
