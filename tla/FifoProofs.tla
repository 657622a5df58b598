----------------------------- MODULE FifoProofs -----------------------------
(***************************************************************************)
(* Proofs about module Fifo, for any values, arrays and bounds.            *)
(***************************************************************************)
EXTENDS Fifo, SequenceTheorems, TLAPS

IInv == TypeOK /\ Initialised

-----------------------------------------------------------------------------
(* Positions                                                               *)

\* A number in the buffer, one buffer behind its end, and one before its start.
LEMMA ModInside == ASSUME NEW m \in Nat \ {0}, NEW x \in 0 .. m - 1 PROVE x % m = x
  OBVIOUS

LEMMA ModBehind ==
  ASSUME NEW m \in Nat \ {0}, NEW x \in m .. 2 * m - 1 PROVE x % m = x - m
  OBVIOUS

LEMMA ModBefore ==
  ASSUME NEW m \in Nat \ {0}, NEW x \in 1 - m .. -1 PROVE x % m = x + m
  OBVIOUS

\* Positions wrap at most once.
LEMMA AdvanceWraps ==
  ASSUME NEW p \in 0 .. m_alloc - 1, NEW n \in 0 .. m_alloc, m_alloc \in Nat \ {0}
  PROVE  /\ Advance(p, n) = IF p + n < m_alloc THEN p + n ELSE p + n - m_alloc
         /\ Advance(p, n) \in 0 .. m_alloc - 1
<1>1. CASE p + n < m_alloc
  <2>1. p + n \in 0 .. m_alloc - 1
    BY <1>1
  <2>2. Advance(p, n) = p + n
    BY <2>1, ModInside DEF Advance
  <2> QED
    BY <1>1, <2>1, <2>2
<1>2. CASE p + n >= m_alloc
  <2>1. p + n \in m_alloc .. 2 * m_alloc - 1
    BY <1>2
  <2>2. Advance(p, n) = p + n - m_alloc
    BY <2>1, ModBehind DEF Advance
  <2> QED
    BY <1>2, <2>1, <2>2
<1> QED
  BY <1>1, <1>2

\* The distance from one position to another.
LEMMA Distance ==
  ASSUME NEW m \in Nat \ {0}, NEW r \in 0 .. m - 1, NEW w \in 0 .. m - 1
  PROVE  (w - r) % m = IF w >= r THEN w - r ELSE w - r + m
<1>1. CASE w >= r
  <2>1. w - r \in 0 .. m - 1
    BY <1>1
  <2> QED
    BY <1>1, <2>1, ModInside
<1>2. CASE w < r
  <2>1. w - r \in 1 - m .. -1
    BY <1>2
  <2> QED
    BY <1>2, <2>1, ModBefore
<1> QED
  BY <1>1, <1>2

\* The elements fill the buffer from the read position to the write position.
LEMMA SizeWraps ==
  ASSUME TypeOK
  PROVE  /\ size = IF m_write_p >= m_read_p THEN m_write_p - m_read_p
                   ELSE m_write_p - m_read_p + m_alloc
         /\ size \in 0 .. m_alloc - 1
<1>1. /\ m_alloc \in Nat \ {0} /\ m_read_p \in 0 .. m_alloc - 1
      /\ m_write_p \in 0 .. m_alloc - 1
  BY DEF TypeOK
<1>2. size = IF m_write_p >= m_read_p THEN m_write_p - m_read_p
             ELSE m_write_p - m_read_p + m_alloc
  BY <1>1, Distance DEF size
<1> QED
  BY <1>1, <1>2

\* The elements are values.
LEMMA QueueTypes ==
  ASSUME IInv
  PROVE  queue \in Seq(Value) /\ Len(queue) = size
<1>1. size \in Nat
  BY SizeWraps DEF IInv
<1>2. \A i \in 1 .. size : queue[i] \in Value
  BY DEF IInv, Initialised
<1> QED
  BY <1>1, <1>2 DEF queue

-----------------------------------------------------------------------------
(* Operations                                                              *)

\* doPush appends: the slots it writes are free and follow the last element,
\* whether the array is split or not.
LEMMA PushAppends ==
  ASSUME IInv, NEW v \in Seq(Value), v # <<>>, Len(v) < spaceLeft,
         doPush(v), UNCHANGED <<m_alloc, m_read_p>>
  PROVE  /\ m_buff' \in [0 .. m_alloc - 1 -> Value \cup {Uninit}]
         /\ m_write_p' \in 0 .. m_alloc - 1
         /\ Initialised' /\ queue' = queue \o v
<1> DEFINE len == Len(v)
           end == Advance(m_write_p, len)
<1>1. /\ m_alloc \in Nat \ {0} /\ m_read_p \in 0 .. m_alloc - 1
      /\ m_write_p \in 0 .. m_alloc - 1 /\ TypeOK
      /\ m_buff \in [0 .. m_alloc - 1 -> Value \cup {Uninit}]
  BY DEF IInv, TypeOK
<1>2. /\ len \in Nat /\ len >= 1 /\ len + size <= m_alloc - 1
      /\ size \in 0 .. m_alloc - 1
      /\ \A j \in 1 .. len : v[j] \in Value
  BY <1>1, SizeWraps, EmptySeq, ElementOfSeq, LenProperties DEF spaceLeft
<1>a. /\ m_alloc \in Nat \ {0} /\ m_read_p \in 0 .. m_alloc - 1
      /\ m_write_p \in 0 .. m_alloc - 1
  BY <1>1
<1>b. len \in 0 .. m_alloc /\ len \in 1 .. m_alloc - 1 - size /\ size \in 0 .. m_alloc - 1
  BY <1>a, <1>2
<1>c. size = IF m_write_p >= m_read_p THEN m_write_p - m_read_p
             ELSE m_write_p - m_read_p + m_alloc
  BY <1>1, SizeWraps
<1>3. /\ end = IF m_write_p + len < m_alloc THEN m_write_p + len
               ELSE m_write_p + len - m_alloc
      /\ end \in 0 .. m_alloc - 1
  BY <1>a, <1>b, AdvanceWraps
<1>d. m_write_p' = end
  BY DEF doPush
<1>4. \A p \in 0 .. m_alloc - 1 :
        m_buff'[p] = IF p \in m_write_p .. m_write_p + len - 1 THEN v[p - m_write_p + 1]
                     ELSE IF p + m_alloc \in m_write_p .. m_write_p + len - 1
                          THEN v[p + m_alloc - m_write_p + 1]
                     ELSE m_buff[p]
  <2>1. CASE end > m_write_p \/ end = 0
    <3>1. m_buff' = Copy(Copy(m_buff, m_write_p, v, 1, len), 0, v, len + 1, 0)
      BY <2>1 DEF doPush
    <3>2. m_write_p + len <= m_alloc
      BY <1>1, <1>2, <1>3, <2>1
    <3>3. m_buff' = [p \in 0 .. m_alloc - 1 |->
                      IF p \in m_write_p .. m_write_p + len - 1
                      THEN v[1 + p - m_write_p] ELSE m_buff[p]]
      BY <1>1, <1>b, <3>1 DEF Copy
    <3> QED
      BY <1>a, <1>b, <3>2, <3>3
  <2>2. CASE ~(end > m_write_p \/ end = 0)
    <3>1. m_buff' = Copy(Copy(m_buff, m_write_p, v, 1, len - end), 0, v, len - end + 1, end)
      BY <2>2 DEF doPush, Split
    <3>2. end = m_write_p + len - m_alloc /\ end < m_write_p /\ len - end = m_alloc - m_write_p
      BY <1>1, <1>2, <1>3, <2>2
    <3> DEFINE first == Copy(m_buff, m_write_p, v, 1, len - end)
    <3>3. first = [p \in 0 .. m_alloc - 1 |->
                     IF p \in m_write_p .. m_write_p + (len - end) - 1
                     THEN v[1 + p - m_write_p] ELSE m_buff[p]]
      BY <1>1 DEF Copy
    <3>4. m_buff' = [p \in DOMAIN first |->
                      IF p \in 0 .. 0 + end - 1 THEN v[len - end + 1 + p - 0] ELSE first[p]]
      BY <3>1 DEF Copy
    <3> HIDE DEF first
    <3>5. \A p \in 0 .. m_alloc - 1 :
            m_buff'[p] = IF p \in 0 .. 0 + end - 1 THEN v[len - end + 1 + p - 0] ELSE first[p]
      BY <3>3, <3>4
    <3>6. \A p \in 0 .. m_alloc - 1 :
            first[p] = IF p \in m_write_p .. m_alloc - 1 THEN v[1 + p - m_write_p]
                       ELSE m_buff[p]
      BY <1>a, <1>b, <3>2, <3>3
    <3>7. ASSUME NEW p \in 0 .. m_alloc - 1, p \in 0 .. end - 1
          PROVE  /\ p \notin m_write_p .. m_write_p + len - 1
                 /\ p + m_alloc \in m_write_p .. m_write_p + len - 1
                 /\ p + m_alloc - m_write_p + 1 = len - end + 1 + p - 0
      BY <1>a, <1>b, <3>2, <3>7
    <3>8. ASSUME NEW p \in 0 .. m_alloc - 1, p \notin 0 .. end - 1
          PROVE  /\ p \in m_write_p .. m_write_p + len - 1 <=> p \in m_write_p .. m_alloc - 1
                 /\ p + m_alloc \notin m_write_p .. m_write_p + len - 1
                 /\ 1 + p - m_write_p = p - m_write_p + 1
      BY <1>a, <1>b, <1>3, <3>2, <3>8
    <3>9. 0 + end - 1 = end - 1
      BY <1>3
    <3> QED
      BY <3>5, <3>6, <3>7, <3>8, <3>9
  <2> QED
    BY <2>1, <2>2
<1>5. m_buff' \in [0 .. m_alloc - 1 -> Value \cup {Uninit}]
  <2>1. m_buff' = [p \in 0 .. m_alloc - 1 |-> m_buff'[p]]
    BY <1>1 DEF doPush, Copy
  <2>2. \A p \in 0 .. m_alloc - 1 : m_buff'[p] \in Value \cup {Uninit}
    <3> SUFFICES ASSUME NEW p \in 0 .. m_alloc - 1 PROVE m_buff'[p] \in Value \cup {Uninit}
      OBVIOUS
    <3>1. CASE p \in m_write_p .. m_write_p + len - 1
      <4>1. p - m_write_p + 1 \in 1 .. len
        BY <1>a, <1>b, <3>1
      <4> QED
        BY <1>2, <1>4, <3>1, <4>1
    <3>2. CASE p \notin m_write_p .. m_write_p + len - 1
      <4>1. CASE p + m_alloc \in m_write_p .. m_write_p + len - 1
        <5>1. p + m_alloc - m_write_p + 1 \in 1 .. len
          BY <1>a, <1>b, <4>1
        <5> QED
          BY <1>2, <1>4, <3>2, <4>1, <5>1
      <4>2. CASE p + m_alloc \notin m_write_p .. m_write_p + len - 1
        BY <1>1, <1>4, <3>2, <4>2
      <4> QED
        BY <4>1, <4>2
    <3> QED
      BY <3>1, <3>2
  <2> QED
    BY <2>1, <2>2
<1>6. size' = size + len
  <2>1. size' = (m_write_p' - m_read_p) % m_alloc
    BY DEF size
  <2>2. size' = IF end >= m_read_p THEN end - m_read_p ELSE end - m_read_p + m_alloc
    BY <1>a, <1>3, <1>d, <2>1, Distance
  <2> QED
    BY <1>a, <1>b, <1>c, <1>3, <2>2
<1>7. \A i \in 1 .. size : m_buff'[Advance(m_read_p, i - 1)] = m_buff[Advance(m_read_p, i - 1)]
  <2> SUFFICES ASSUME NEW i \in 1 .. size
               PROVE  m_buff'[Advance(m_read_p, i - 1)] = m_buff[Advance(m_read_p, i - 1)]
    OBVIOUS
  <2> DEFINE p == Advance(m_read_p, i - 1)
  <2>1. /\ p = IF m_read_p + (i - 1) < m_alloc THEN m_read_p + (i - 1)
               ELSE m_read_p + (i - 1) - m_alloc
        /\ p \in 0 .. m_alloc - 1
    <3>1. i - 1 \in 0 .. m_alloc
      BY <1>a, <1>b
    <3> QED
      BY <1>a, <3>1, AdvanceWraps
  <2>2. /\ p \notin m_write_p .. m_write_p + len - 1
        /\ p + m_alloc \notin m_write_p .. m_write_p + len - 1
    BY <1>a, <1>b, <1>c, <2>1
  <2> QED
    BY <1>4, <2>1, <2>2
<1>8. \A j \in 1 .. len : m_buff'[Advance(m_read_p, size + j - 1)] = v[j]
  <2> SUFFICES ASSUME NEW j \in 1 .. len
               PROVE  m_buff'[Advance(m_read_p, size + j - 1)] = v[j]
    OBVIOUS
  <2> DEFINE p == Advance(m_read_p, size + j - 1)
  <2>1. /\ p = IF m_read_p + (size + j - 1) < m_alloc THEN m_read_p + (size + j - 1)
               ELSE m_read_p + (size + j - 1) - m_alloc
        /\ p \in 0 .. m_alloc - 1
    <3>1. size + j - 1 \in 0 .. m_alloc
      BY <1>a, <1>b
    <3> QED
      BY <1>a, <3>1, AdvanceWraps
  <2>2. p = m_write_p + j - 1 \/ p + m_alloc = m_write_p + j - 1
    BY <1>a, <1>b, <1>c, <2>1
  <2>3. CASE p = m_write_p + j - 1
    BY <1>a, <1>b, <1>4, <2>1, <2>3
  <2>4. CASE p + m_alloc = m_write_p + j - 1
    <3>1. /\ p \notin m_write_p .. m_write_p + len - 1
          /\ p + m_alloc \in m_write_p .. m_write_p + len - 1
          /\ p + m_alloc - m_write_p + 1 = j
      BY <1>a, <1>b, <2>1, <2>4
    <3> QED
      BY <1>4, <2>1, <3>1
  <2> QED
    BY <2>2, <2>3, <2>4
<1>9. queue \in Seq(Value) /\ Len(queue) = size
  BY QueueTypes
<1>10. queue' = [i \in 1 .. size + len |-> m_buff'[Advance(m_read_p, i - 1)]]
  BY <1>6 DEF queue, Advance
<1>11. \A i \in 1 .. size + len : queue'[i] = (queue \o v)[i]
  <2> SUFFICES ASSUME NEW i \in 1 .. size + len PROVE queue'[i] = (queue \o v)[i]
    OBVIOUS
  <2>1. CASE i <= size
    <3>1. i \in 1 .. size
      BY <1>b, <2>1
    <3>2. queue'[i] = queue[i]
      BY <1>7, <1>10, <3>1 DEF queue
    <3> QED
      BY <1>9, <3>1, <3>2, ConcatProperties
  <2>2. CASE ~(i <= size)
    <3>1. i - size \in 1 .. len /\ size + (i - size) - 1 = i - 1
      BY <1>2, <2>2
    <3>2. m_buff'[Advance(m_read_p, i - 1)] = v[i - size]
      BY <1>8, <3>1
    <3>3. queue'[i] = v[i - size]
      BY <1>10, <3>2
    <3>4. i \in 1 .. Len(queue) + Len(v) /\ ~(i <= Len(queue))
      BY <1>9, <1>b, <2>2
    <3> QED
      BY <1>9, <3>3, <3>4, ConcatProperties
  <2> QED
    BY <2>1, <2>2
<1>12. queue \o v \in Seq(Value) /\ Len(queue \o v) = size + len
  BY <1>9, ConcatProperties
<1>13. \A i \in 1 .. size + len : queue'[i] \in Value
  BY <1>11, <1>12, ElementOfSeq
<1>14. queue' \in Seq(Value) /\ Len(queue') = size + len
  BY <1>2, <1>10, <1>13
<1>15. queue' = queue \o v
  BY <1>11, <1>12, <1>14, SeqEqual
<1>16. Initialised'
  BY <1>6, <1>13 DEF Initialised
<1> QED
  BY <1>3, <1>d, <1>5, <1>15, <1>16

\* doubleSize changes no element: those that had wrapped follow the others.
LEMMA DoubleKeeps ==
  ASSUME IInv, doubleSize
  PROVE  /\ m_alloc' \in Nat \ {0}
         /\ m_buff' \in [0 .. m_alloc' - 1 -> Value \cup {Uninit}]
         /\ m_read_p' \in 0 .. m_alloc' - 1 /\ m_write_p' \in 0 .. m_alloc' - 1
         /\ Initialised' /\ queue' = queue
<1>a. /\ m_alloc \in Nat \ {0} /\ m_read_p \in 0 .. m_alloc - 1
      /\ m_write_p \in 0 .. m_alloc - 1
  BY DEF IInv, TypeOK
<1>b. m_buff \in [0 .. m_alloc - 1 -> Value \cup {Uninit}]
  BY DEF IInv, TypeOK
<1>c. /\ size = IF m_write_p >= m_read_p THEN m_write_p - m_read_p
                ELSE m_write_p - m_read_p + m_alloc
      /\ size \in 0 .. m_alloc - 1
  BY SizeWraps DEF IInv
<1>1. /\ m_alloc' = 2 * m_alloc /\ m_alloc' \in Nat \ {0} /\ m_read_p' = m_read_p
      /\ m_write_p' = IF m_read_p > m_write_p THEN m_write_p + m_alloc ELSE m_write_p
  BY <1>a DEF doubleSize, Wrapped
<1>2. /\ m_read_p' \in 0 .. m_alloc' - 1 /\ m_write_p' \in 0 .. m_alloc' - 1
      /\ m_write_p' >= m_read_p'
  BY <1>a, <1>1
<1>3. size' = size
  <2>1. size' = (m_write_p' - m_read_p') % m_alloc'
    BY DEF size
  <2>2. size' = m_write_p' - m_read_p'
    BY <1>1, <1>2, <2>1, Distance
  <2> QED
    BY <1>a, <1>c, <1>1, <2>2
<1>4. m_buff' = [p \in 0 .. 2 * m_alloc - 1 |->
                  IF p < m_alloc THEN m_buff[p]
                  ELSE IF m_read_p > m_write_p /\ p - m_alloc < m_write_p
                       THEN m_buff[p - m_alloc] ELSE Uninit]
  BY DEF doubleSize, Wrapped
<1>5. m_buff' \in [0 .. m_alloc' - 1 -> Value \cup {Uninit}]
  <2>1. \A p \in 0 .. 2 * m_alloc - 1 : m_buff'[p] \in Value \cup {Uninit}
    <3> SUFFICES ASSUME NEW p \in 0 .. 2 * m_alloc - 1
                 PROVE  m_buff'[p] \in Value \cup {Uninit}
      OBVIOUS
    <3>1. CASE p < m_alloc
      BY <1>a, <1>b, <1>4, <3>1
    <3>2. CASE ~(p < m_alloc)
      <4>1. p - m_alloc \in 0 .. m_alloc - 1
        BY <1>a, <3>2
      <4> QED
        BY <1>b, <1>4, <3>2, <4>1
    <3> QED
      BY <3>1, <3>2
  <2> QED
    BY <1>1, <1>4, <2>1
<1>6. \A i \in 1 .. size :
        m_buff'[Advance(m_read_p, i - 1)'] = m_buff[Advance(m_read_p, i - 1)]
  <2> SUFFICES ASSUME NEW i \in 1 .. size
               PROVE  m_buff'[Advance(m_read_p, i - 1)'] = m_buff[Advance(m_read_p, i - 1)]
    OBVIOUS
  <2>1. i - 1 \in 0 .. m_alloc /\ m_read_p + (i - 1) \in 0 .. 2 * m_alloc - 1
    BY <1>a, <1>c
  <2>2. Advance(m_read_p, i - 1) = IF m_read_p + (i - 1) < m_alloc
                                   THEN m_read_p + (i - 1)
                                   ELSE m_read_p + (i - 1) - m_alloc
    BY <1>a, <2>1, AdvanceWraps
  <2>3. Advance(m_read_p, i - 1)' = m_read_p + (i - 1)
    BY <1>1, <2>1, ModInside DEF Advance
  <2>4. CASE m_read_p + (i - 1) < m_alloc
    BY <1>4, <2>1, <2>2, <2>3, <2>4
  <2>5. CASE ~(m_read_p + (i - 1) < m_alloc)
    <3>1. m_read_p > m_write_p /\ m_read_p + (i - 1) - m_alloc < m_write_p
      BY <1>a, <1>c, <2>5
    <3> DEFINE p == m_read_p + (i - 1)
    <3>2. p \in 0 .. 2 * m_alloc - 1 /\ ~(p < m_alloc)
      BY <2>1, <2>5
    <3>3. p - m_alloc < m_write_p
      BY <1>a, <1>c, <3>1
    <3> HIDE DEF p
    <3>4. m_buff'[p] = m_buff[p - m_alloc]
      BY <1>4, <3>1, <3>2, <3>3
    <3>5. Advance(m_read_p, i - 1)' = p /\ Advance(m_read_p, i - 1) = p - m_alloc
      BY <1>a, <1>c, <2>2, <2>3, <2>5 DEF p
    <3> QED
      BY <3>4, <3>5
  <2> QED
    BY <2>4, <2>5
<1>7. queue' = queue
  <2>1. queue' = [i \in 1 .. size |-> m_buff'[Advance(m_read_p, i - 1)']]
    BY <1>1, <1>3 DEF queue, Advance
  <2> QED
    BY <1>6, <2>1 DEF queue
<1>8. Initialised'
  BY <1>3, <1>7 DEF Initialised, IInv
<1> QED
  BY <1>1, <1>2, <1>5, <1>7, <1>8

\* pop takes the oldest elements, in their order.
LEMMA PopTakes ==
  ASSUME IInv, NEW n \in Nat, Pop(n)
  PROVE  /\ PopLength(n) \in 0 .. Len(queue)
         /\ m_read_p' \in 0 .. m_alloc - 1 /\ popped' \in Seq(Value) /\ Initialised'
         /\ popped' = SubSeq(queue, 1, PopLength(n))
         /\ queue' = SubSeq(queue, PopLength(n) + 1, Len(queue))
<1> DEFINE len == PopLength(n)
<1>a. /\ m_alloc \in Nat \ {0} /\ m_read_p \in 0 .. m_alloc - 1
      /\ m_write_p \in 0 .. m_alloc - 1
  BY DEF IInv, TypeOK
<1>b. /\ size = IF m_write_p >= m_read_p THEN m_write_p - m_read_p
                ELSE m_write_p - m_read_p + m_alloc
      /\ size \in 0 .. m_alloc - 1
  BY SizeWraps DEF IInv
<1>c. queue \in Seq(Value) /\ Len(queue) = size /\ \A i \in 1 .. size : queue[i] \in Value
  BY QueueTypes DEF IInv, Initialised
<1>d. len \in 0 .. size
  BY <1>b DEF PopLength
<1>e. /\ m_read_p' = Advance(m_read_p, len) /\ UNCHANGED <<m_alloc, m_buff, m_write_p>>
      /\ popped' = [i \in 1 .. len |-> m_buff[Advance(m_read_p, i - 1)]]
  BY DEF Pop
<1> HIDE DEF len
<1>1. /\ m_read_p' = IF m_read_p + len < m_alloc THEN m_read_p + len
                     ELSE m_read_p + len - m_alloc
      /\ m_read_p' \in 0 .. m_alloc - 1
  <2>1. len \in 0 .. m_alloc
    BY <1>a, <1>b, <1>d
  <2> QED
    BY <1>a, <1>e, <2>1, AdvanceWraps
<1>2. size' = size - len
  <2>1. size' = (m_write_p - m_read_p') % m_alloc
    BY <1>e DEF size
  <2>2. size' = IF m_write_p >= m_read_p' THEN m_write_p - m_read_p'
                ELSE m_write_p - m_read_p' + m_alloc
    BY <1>a, <1>1, <2>1, Distance
  <2> QED
    BY <1>a, <1>b, <1>d, <1>1, <2>2
<1>3. \A i \in 1 .. size - len : Advance(m_read_p', i - 1) = Advance(m_read_p, len + i - 1)
  <2> SUFFICES ASSUME NEW i \in 1 .. size - len
               PROVE  Advance(m_read_p', i - 1) = Advance(m_read_p, len + i - 1)
    OBVIOUS
  <2>1. i - 1 \in 0 .. m_alloc /\ len + i - 1 \in 0 .. m_alloc
    BY <1>a, <1>b, <1>d
  <2>2. Advance(m_read_p', i - 1) = IF m_read_p' + (i - 1) < m_alloc THEN m_read_p' + (i - 1)
                                    ELSE m_read_p' + (i - 1) - m_alloc
    BY <1>a, <1>1, <2>1, AdvanceWraps
  <2>3. Advance(m_read_p, len + i - 1) =
          IF m_read_p + (len + i - 1) < m_alloc THEN m_read_p + (len + i - 1)
          ELSE m_read_p + (len + i - 1) - m_alloc
    BY <1>a, <2>1, AdvanceWraps
  <2> QED
    BY <1>a, <1>b, <1>d, <1>1, <2>2, <2>3
<1>4. popped' = SubSeq(queue, 1, len)
  <2>1. \A i \in 1 .. len : queue[i] \in Value
    BY <1>b, <1>c, <1>d
  <2>2. /\ SubSeq(queue, 1, len) \in Seq(Value) /\ Len(SubSeq(queue, 1, len)) = len
        /\ \A i \in 1 .. len : SubSeq(queue, 1, len)[i] = queue[i]
    BY <1>b, <1>d, <2>1, SubSeqProperties
  <2>3. \A i \in 1 .. len : popped'[i] = queue[i]
    <3> SUFFICES ASSUME NEW i \in 1 .. len PROVE popped'[i] = queue[i]
      OBVIOUS
    <3>1. i \in 1 .. size
      BY <1>b, <1>d
    <3> QED
      BY <1>e, <3>1 DEF queue
  <2>4. popped' \in Seq(Value) /\ Len(popped') = len
    <3>1. \A i \in 1 .. len : popped'[i] \in Value
      BY <2>1, <2>3
    <3>2. len \in Nat
      BY <1>b, <1>d
    <3> QED
      BY <1>e, <3>1, <3>2
  <2> QED
    BY <2>2, <2>3, <2>4, SeqEqual
<1>5. queue' = SubSeq(queue, len + 1, size)
  <2>1. \A i \in len + 1 .. size : queue[i] \in Value
    BY <1>b, <1>c, <1>d
  <2>2. /\ SubSeq(queue, len + 1, size) \in Seq(Value)
        /\ Len(SubSeq(queue, len + 1, size)) = size - len
        /\ \A i \in 1 .. size - len : SubSeq(queue, len + 1, size)[i] = queue[len + i]
    BY <1>b, <1>d, <2>1, SubSeqProperties
  <2>3. queue' = [i \in 1 .. size - len |-> m_buff[Advance(m_read_p', i - 1)]]
    BY <1>e, <1>2 DEF queue, Advance
  <2>4. \A i \in 1 .. size - len : queue'[i] = queue[len + i]
    <3> SUFFICES ASSUME NEW i \in 1 .. size - len PROVE queue'[i] = queue[len + i]
      OBVIOUS
    <3>1. len + i \in 1 .. size
      BY <1>b, <1>d
    <3>2. queue[len + i] = m_buff[Advance(m_read_p, len + i - 1)]
      BY <1>b, <1>d, <3>1 DEF queue
    <3>3. queue'[i] = m_buff[Advance(m_read_p', i - 1)]
      BY <2>3
    <3>4. Advance(m_read_p', i - 1) = Advance(m_read_p, len + i - 1)
      BY <1>3
    <3> QED
      BY <3>2, <3>3, <3>4
  <2>5. \A i \in 1 .. size - len : queue'[i] \in Value
    <3> SUFFICES ASSUME NEW i \in 1 .. size - len PROVE queue'[i] \in Value
      OBVIOUS
    <3>1. len + i \in len + 1 .. size
      BY <1>b, <1>d
    <3> QED
      BY <2>1, <2>4, <3>1
  <2>6. size - len \in Nat
    BY <1>b, <1>d
  <2>7. queue' \in Seq(Value) /\ Len(queue') = size - len
    BY <2>3, <2>5, <2>6
  <2> QED
    BY <2>2, <2>4, <2>7, SeqEqual
<1>6. popped' \in Seq(Value) /\ queue' \in Seq(Value) /\ Len(queue') = size - len
  <2>1. \A i \in 1 .. size : queue[i] \in Value
    BY <1>c
  <2> QED
    BY <1>b, <1>d, <1>4, <1>5, <2>1, SubSeqProperties
<1>7. Initialised'
  BY <1>2, <1>6, ElementOfSeq DEF Initialised
<1> QED
  BY <1>c, <1>d, <1>1, <1>4, <1>5, <1>6, <1>7 DEF len

-----------------------------------------------------------------------------
(* Steps                                                                   *)

\* A new FIFO holds no element.
LEMMA InitKeeps == Init => IInv /\ queue = <<>>
<1> SUFFICES ASSUME Init PROVE IInv /\ queue = <<>>
  OBVIOUS
<1>1. m_alloc \in Nat \ {0} /\ m_read_p \in 0 .. m_alloc - 1 /\ m_write_p \in 0 .. m_alloc - 1
  BY AllocAssumption DEF Init
<1>2. size = 0
  <2>1. size = (0 - 0) % m_alloc
    BY DEF Init, size
  <2> QED
    BY <1>1, <2>1, Distance DEF Init
<1>3. TypeOK
  BY <1>1, EmptySeq DEF Init, TypeOK
<1>4. queue = <<>>
  BY <1>2 DEF queue
<1> QED
  BY <1>2, <1>3, <1>4 DEF IInv, Initialised

\* Every step keeps the invariant and is a step of the queue, or none.
LEMMA StepKeeps ==
  ASSUME IInv, [Next]_vars
  PROVE  IInv' /\ [Q!Next]_<<queue, pushing, popped>>
<1>a. TypeOK /\ pushing \in Seq(Value) /\ popped \in Seq(Value)
  BY DEF IInv, TypeOK
<1>1. ASSUME NEW v \in Inputs, PushLock(v)
      PROVE  IInv' /\ Q!StartPush
  <2>1. UNCHANGED <<m_alloc, m_buff, m_read_p, m_write_p, popped>> /\ pushing' = v
    BY <1>1 DEF PushLock
  <2>2. UNCHANGED <<queue, size>>
    BY <2>1 DEF queue, size, Advance
  <2>3. v \in Seq(Value)
    BY InputAssumption
  <2>4. TypeOK' /\ Initialised'
    BY <2>1, <2>2, <2>3 DEF IInv, TypeOK, Initialised
  <2> QED
    BY <1>1, <2>1, <2>2, <2>4 DEF IInv, Q!StartPush, PushLock
<1>2. ASSUME NEW v \in Inputs, TryPush(v)
      PROVE  IInv' /\ Q!TryPush
  <2> DEFINE n == Fitting(Len(v))
  <2>1. v \in Seq(Value) /\ Len(v) \in Nat
    BY InputAssumption, LenProperties
  <2>2. spaceLeft \in Nat
    BY <1>a, SizeWraps DEF spaceLeft, TypeOK
  <2>3. n \in 1 .. Len(v) /\ n < spaceLeft
    BY <1>2, <2>1, <2>2 DEF TryPush, Fitting
  <2>4. \A i \in 1 .. n : v[i] \in Value
    BY <2>1, <2>3, ElementOfSeq
  <2> HIDE DEF n
  <2>5. SubSeq(v, 1, n) \in Seq(Value) /\ Len(SubSeq(v, 1, n)) = n
    BY <2>1, <2>3, <2>4, SubSeqProperties
  <2>6. SubSeq(v, 1, n) # <<>>
    BY <2>3, <2>5, EmptySeq
  <2>7. doPush(SubSeq(v, 1, n)) /\ UNCHANGED <<m_alloc, m_read_p, pushing, popped>>
    BY <1>2 DEF TryPush, n
  <2>8. /\ m_buff' \in [0 .. m_alloc - 1 -> Value \cup {Uninit}]
        /\ m_write_p' \in 0 .. m_alloc - 1
        /\ Initialised' /\ queue' = queue \o SubSeq(v, 1, n)
    BY <2>3, <2>5, <2>6, <2>7, PushAppends
  <2>9. TypeOK'
    BY <1>a, <2>7, <2>8 DEF TypeOK
  <2>10. pushing = <<>>
    BY <1>2 DEF TryPush
  <2> QED
    BY <2>3, <2>7, <2>8, <2>9, <2>10 DEF IInv, Q!TryPush
<1>3. ASSUME PushDouble
      PROVE  IInv' /\ UNCHANGED <<queue, pushing, popped>>
  <2>1. doubleSize /\ UNCHANGED <<pushing, popped>>
    BY <1>3 DEF PushDouble
  <2>2. /\ m_alloc' \in Nat \ {0}
        /\ m_buff' \in [0 .. m_alloc' - 1 -> Value \cup {Uninit}]
        /\ m_read_p' \in 0 .. m_alloc' - 1 /\ m_write_p' \in 0 .. m_alloc' - 1
        /\ Initialised' /\ queue' = queue
    BY <2>1, DoubleKeeps
  <2>3. TypeOK'
    BY <1>a, <2>1, <2>2 DEF TypeOK
  <2> QED
    BY <2>1, <2>2, <2>3 DEF IInv
<1>4. ASSUME PushCopy
      PROVE  IInv' /\ Q!EndPush
  <2>1. /\ pushing # <<>> /\ doPush(pushing) /\ pushing' = <<>>
        /\ UNCHANGED <<m_alloc, m_read_p, popped>> /\ ~(spaceLeft <= Len(pushing))
    BY <1>4 DEF PushCopy, Full
  <2>2. Len(pushing) < spaceLeft
    BY <1>a, <2>1, SizeWraps, LenProperties DEF spaceLeft, TypeOK
  <2>3. /\ m_buff' \in [0 .. m_alloc - 1 -> Value \cup {Uninit}]
        /\ m_write_p' \in 0 .. m_alloc - 1
        /\ Initialised' /\ queue' = queue \o pushing
    BY <1>a, <2>1, <2>2, PushAppends
  <2>4. TypeOK'
    BY <1>a, <2>1, <2>3, EmptySeq DEF TypeOK
  <2> QED
    BY <2>1, <2>3, <2>4 DEF IInv, Q!EndPush
<1>5. ASSUME NEW n \in 1 .. MaxPop, Pop(n)
      PROVE  IInv' /\ Q!Pop
  <2>1. n \in Nat
    BY AllocAssumption
  <2>2. /\ PopLength(n) \in 0 .. Len(queue)
        /\ m_read_p' \in 0 .. m_alloc - 1 /\ popped' \in Seq(Value) /\ Initialised'
        /\ popped' = SubSeq(queue, 1, PopLength(n))
        /\ queue' = SubSeq(queue, PopLength(n) + 1, Len(queue))
    BY <1>5, <2>1, PopTakes
  <2>3. UNCHANGED <<m_alloc, m_buff, m_write_p, pushing>>
    BY <1>5 DEF Pop
  <2>4. TypeOK'
    BY <1>a, <2>2, <2>3 DEF TypeOK
  <2> QED
    BY <2>2, <2>3, <2>4 DEF IInv, Q!Pop
<1>6. ASSUME TryPopBusy
      PROVE  IInv' /\ Q!Pop
  <2>1. UNCHANGED <<m_alloc, m_buff, m_read_p, m_write_p, pushing>> /\ popped' = <<>>
    BY <1>6 DEF TryPopBusy
  <2>2. UNCHANGED <<queue, size>>
    BY <2>1 DEF queue, size, Advance
  <2>3. TypeOK' /\ Initialised'
    BY <2>1, <2>2, EmptySeq DEF IInv, TypeOK, Initialised
  <2>4. queue \in Seq(Value) /\ Len(queue) \in Nat
    BY QueueTypes, LenProperties
  <2>5. SubSeq(queue, 1, 0) = <<>> /\ SubSeq(queue, 0 + 1, Len(queue)) = queue
    BY <2>4, SubSeqEmpty, SubSeqFull
  <2>6. 0 \in 0 .. Len(queue)
    BY <2>4
  <2> QED
    BY <2>1, <2>2, <2>3, <2>5, <2>6 DEF IInv, Q!Pop
<1>7. ASSUME UNCHANGED vars
      PROVE  IInv' /\ UNCHANGED <<queue, pushing, popped>>
  <2>1. UNCHANGED <<queue, size, pushing, popped>>
    BY <1>7 DEF vars, queue, size, Advance
  <2> QED
    BY <1>7, <2>1 DEF vars, IInv, TypeOK, Initialised
<1> QED
  BY <1>1, <1>2, <1>3, <1>4, <1>5, <1>6, <1>7 DEF Next, Q!Next

\* TypeOK (controller.h:51-206): m_read_p and m_write_p stay inside the allocation,
\* across wrap and growth, and pop hands out elements only.
THEOREM RingTypeCorrect == Spec => []TypeOK
<1>1. IInv => TypeOK
  BY DEF IInv
<1> QED
  BY <1>1, InitKeeps, StepKeeps, PTL DEF Spec

\* Initialised: no element is memory that was never written, for any values,
\* arrays and bounds.
THEOREM ElementsAreInitialised == Spec => []Initialised
<1>1. IInv => Initialised
  BY DEF IInv
<1> QED
  BY <1>1, InitKeeps, StepKeeps, PTL DEF Spec

\* ImplementsQueue: the ring buffer is a queue, for any values, arrays and bounds.
THEOREM RingIsQueue == Spec => ImplementsQueue
<1>1. Init => Q!Init
  BY InitKeeps DEF Init, Q!Init
<1> QED
  BY <1>1, InitKeeps, StepKeeps, PTL DEF Spec, ImplementsQueue, Q!Spec
=============================================================================
