-------------------------------- MODULE Fifo --------------------------------
(***************************************************************************)
(* FIFO<T> of lib/pulser/controller.h: a ring buffer that doubles when it  *)
(* is full, every operation under m_lock.  A push holds the lock from its  *)
(* start to its end (pushing); the other operations are one step.  m_alloc *)
(* is a power of 2, so x & (m_alloc - 1) is x % m_alloc, for the unsigned  *)
(* difference of two positions as well.                                    *)
(***************************************************************************)
EXTENDS Integers, Sequences

CONSTANTS
  Value,      \* what is queued (Request* in the Controller)
  Uninit,     \* memory never written
  InitAlloc,  \* m_alloc of a new FIFO
  Inputs,     \* the arrays that are pushed
  MaxPop,     \* bound on the length a pop asks for
  MaxAlloc    \* bound on m_alloc

ASSUME AllocAssumption ==
  /\ InitAlloc \in Nat /\ InitAlloc >= 4 /\ \E b \in 2 .. InitAlloc : InitAlloc = 2 ^ b
  /\ MaxPop \in Nat /\ MaxAlloc \in Nat
\* An array of no elements would be copied as one of 2^64 - m_write_p; no caller
\* pushes one.
ASSUME InputAssumption == Inputs \subseteq Seq(Value) \ {<<>>}
ASSUME ValueAssumption == Uninit \notin Value

VARIABLES
  m_alloc, m_buff, m_read_p, m_write_p,
  pushing,    \* the array of the push that holds m_lock, or <<>>
  popped      \* what the last pop returned

vars == <<m_alloc, m_buff, m_read_p, m_write_p, pushing, popped>>

size      == (m_write_p - m_read_p) % m_alloc
spaceLeft == m_alloc - size

\* The position n slots on.  A name that ends in X is a slip one could make in
\* the definition that follows it; nothing uses it.
AdvanceX(p, n) == p + n
Advance(p, n)  == (p + n) % m_alloc

\* memcpy of n elements of v, from v[from], to buff + at.
Copy(buff, at, v, from, n) ==
  [p \in DOMAIN buff |-> IF p \in at .. at + n - 1 THEN v[from + p - at] ELSE buff[p]]

\* doPush of an array, split where the buffer ends.
SplitX(end, len) == [first |-> len, second |-> 0]
Split(end, len)  == [first |-> len - end, second |-> end]
doPush(v) ==
  LET end   == Advance(m_write_p, Len(v))
      parts == IF end > m_write_p \/ end = 0
               THEN [first |-> Len(v), second |-> 0]
               ELSE Split(end, Len(v))
  IN /\ m_write_p' = end
     /\ m_buff' = Copy(Copy(m_buff, m_write_p, v, 1, parts.first),
                       0, v, parts.first + 1, parts.second)

\* realloc, and the elements that had wrapped moved behind the others.
WrappedX == FALSE
Wrapped  == m_read_p > m_write_p
doubleSize ==
  /\ m_alloc' = 2 * m_alloc
  /\ m_buff' = [p \in 0 .. 2 * m_alloc - 1 |->
                  IF p < m_alloc THEN m_buff[p]
                  ELSE IF Wrapped /\ p - m_alloc < m_write_p THEN m_buff[p - m_alloc]
                  ELSE Uninit]
  /\ m_write_p' = IF Wrapped THEN m_write_p + m_alloc ELSE m_write_p
  /\ UNCHANGED m_read_p

Init ==
  /\ m_alloc = InitAlloc
  /\ m_buff = [p \in 0 .. InitAlloc - 1 |-> Uninit]
  /\ m_read_p = 0 /\ m_write_p = 0
  /\ pushing = <<>> /\ popped = <<>>
-----------------------------------------------------------------------------
\* push takes the lock, doubles until the array fits, and copies it.  One slot
\* is never used: read and write position are equal only when it is empty.
PushLock(v) ==
  /\ pushing = <<>> /\ pushing' = v
  /\ size + Len(v) < MaxAlloc
  /\ UNCHANGED <<m_alloc, m_buff, m_read_p, m_write_p, popped>>

Full(len)  == spaceLeft <= len

PushDouble ==
  /\ pushing # <<>> /\ Full(Len(pushing))
  /\ doubleSize
  /\ UNCHANGED <<pushing, popped>>

PushCopy ==
  /\ pushing # <<>> /\ ~Full(Len(pushing))
  /\ doPush(pushing) /\ pushing' = <<>>
  /\ UNCHANGED <<m_alloc, m_read_p, popped>>

\* tryPush: as many elements as fit.
Fitting(len) == IF spaceLeft - 1 <= len THEN spaceLeft - 1 ELSE len
TryPush(v) ==
  /\ pushing = <<>> /\ Fitting(Len(v)) > 0
  /\ doPush(SubSeq(v, 1, Fitting(Len(v))))
  /\ UNCHANGED <<m_alloc, m_read_p, pushing, popped>>

\* pop, and a tryPop that gets the lock: at most n elements.  (The pop of one
\* element checks nothing; its callers see to it that there is one.)
PopLength(n) == IF size <= n THEN size ELSE n
Pop(n) ==
  /\ pushing = <<>>
  /\ m_read_p' = Advance(m_read_p, PopLength(n))
  /\ popped' = [i \in 1 .. PopLength(n) |-> m_buff[Advance(m_read_p, i - 1)]]
  /\ UNCHANGED <<m_alloc, m_buff, m_write_p, pushing>>

\* A tryPop that finds the lock taken returns nothing.
TryPopBusy ==
  /\ pushing # <<>> /\ popped' = <<>>
  /\ UNCHANGED <<m_alloc, m_buff, m_read_p, m_write_p, pushing>>

Next ==
  \/ \E v \in Inputs : PushLock(v) \/ TryPush(v)
  \/ PushDouble \/ PushCopy
  \/ \E n \in 1 .. MaxPop : Pop(n)
  \/ TryPopBusy

Spec == Init /\ [][Next]_vars
-----------------------------------------------------------------------------
\* The elements, oldest first.
queue == [i \in 1 .. size |-> m_buff[Advance(m_read_p, i - 1)]]

\* Every variable has its type and the positions are within the buffer.
TypeOK ==
  /\ m_alloc \in Nat \ {0} /\ m_buff \in [0 .. m_alloc - 1 -> Value \cup {Uninit}]
  /\ m_read_p \in 0 .. m_alloc - 1 /\ m_write_p \in 0 .. m_alloc - 1
  /\ pushing \in Seq(Value) /\ popped \in Seq(Value)

\* No element of the queue is memory that was never written, wherever it wrapped
\* and however often it doubled.
Initialised == \A i \in 1 .. size : queue[i] \in Value

\* The ring buffer is a queue: an element pushed comes out once, in its turn,
\* whether the array was split, the elements wrapped or the buffer doubled.
Q == INSTANCE Queue
ImplementsQueue == Q!Spec
=============================================================================
