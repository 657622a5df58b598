----------------------------- MODULE AD9914Proofs -----------------------------
(* Proofs about AD9914, for every number of threads and boards and every list *)
(* of zeroed addresses.                                                       *)
EXTENDS AD9914, TLAPS

\* What init leaves in a configuration register, and with which of its writes.
Final(a) == IF a = 0 THEN 776 ELSE IF a = 4 THEN 256 ELSE IF a = 6 THEN 128 ELSE 1029
LastAt(a) == IF a = 0 THEN 5 ELSE IF a = 4 THEN 3 ELSE IF a = 6 THEN 4 ELSE 2

\* Without an overlap there is one init of the board.
Solo(b) == ~overlap[b] => \A t, u \in On(b) : t = u

\* It has reset the board and the word is not written before its end.
MagicLast(b) == ~overlap[b] /\ Past(b) # {} => ~HasMagic(b)

\* While inits run and when the word is there, each configuration register is
\* right or will be written by one of them, overlap or not.
Pending(b, a) == \E t \in Past(b) : initing[t].next <= LastAt(a)
Covered(b) ==
  ~torn[b] /\ (HasMagic(b) \/ Past(b) # {})
    => \A a \in ConfigAddrs : regs[b][a] = Final(a) \/ Pending(b, a)

BoardOK(b) == Solo(b) /\ MagicLast(b) /\ Covered(b)
BoardInv == BoardTypeOK /\ \A b \in Boards : BoardOK(b)
-----------------------------------------------------------------------------
LEMMA Element ==
  ASSUME NEW S, NEW s \in Seq(S), NEW i \in 1 .. Len(s)
  PROVE  s[i] \in S
OBVIOUS

LEMMA WriteFacts ==
  ASSUME NEW k \in 1 .. NumWrites
  PROVE  /\ NumWrites \in Nat /\ NumWrites >= 6
         /\ WriteAt(k).addr \in Addrs
         /\ WriteAt(k).val \in Nat \cup {MagicBytes, PowerUp}
         /\ k < NumWrites => WriteAt(k).val # MagicBytes
         /\ k = NumWrites => WriteAt(k).addr \notin ConfigAddrs
         /\ \A a \in ConfigAddrs : WriteAt(k).addr = a
              => k <= LastAt(a) /\ (k = LastAt(a) => WriteAt(k).val = Final(a))
<1>1. NumWrites \in Nat /\ NumWrites >= 6
  BY ZeroListAssumption DEF NumWrites
<1>2. CASE k <= 5
  <2>1. k = 1 \/ k = 2 \/ k = 3 \/ k = 4 \/ k = 5
    BY <1>2
  <2> QED
    BY <1>1, <1>2, <2>1, MagicAssumption
    DEF WriteAt, ConfigWrites, ConfigAddrs, Addrs, LastAt, Final
<1>3. CASE k > 5 /\ k < NumWrites
  <2>1. k - 5 \in 1 .. Len(ZeroList)
    BY <1>3, ZeroListAssumption DEF NumWrites
  <2>2. ZeroList[k - 5] \in 16 .. 106
    <3>1. ZeroList[k - 5] \in {a \in 16 .. 106 : a % 2 = 0}
      BY <2>1, ZeroListAssumption, Element
    <3> QED
      BY <3>1
  <2>3. WriteAt(k) = [addr |-> ZeroList[k - 5], val |-> 0]
    BY <1>3 DEF WriteAt
  <2>4. ZeroList[k - 5] \in Addrs
    BY <2>1, ZeroListAssumption DEF Addrs
  <2> QED
    BY <1>1, <1>3, <2>2, <2>3, <2>4, MagicAssumption DEF ConfigAddrs
<1>4. CASE k = NumWrites
  <2>1. WriteAt(k) = [addr |-> MagicAddr, val |-> MagicBytes]
    BY <1>1, <1>4 DEF WriteAt
  <2> QED
    BY <1>1, <1>4, <2>1 DEF ConfigAddrs, Addrs, MagicAddr
<1> QED
  BY <1>1, <1>2, <1>3, <1>4

\* The write counted last for an address is to that address.
LEMMA LastWrite ==
  ASSUME NEW a \in ConfigAddrs
  PROVE  WriteAt(LastAt(a)).addr = a
BY DEF WriteAt, ConfigWrites, ConfigAddrs, LastAt

LEMMA AddrFacts ==
  /\ MagicAddr \in Addrs /\ MagicAddr \notin ConfigAddrs
  /\ ProbeAddr \in Addrs /\ ProbeAddr \notin ConfigAddrs /\ ProbeAddr # MagicAddr
  /\ ConfigAddrs \subseteq Addrs
  /\ \A a \in ConfigAddrs : LastAt(a) \in 2 .. 5
BY DEF MagicAddr, ProbeAddr, ConfigAddrs, Addrs, LastAt

LEMMA BlankFacts ==
  /\ Blank \in [Addrs -> Nat \cup {MagicBytes, PowerUp}]
  /\ Blank[MagicAddr] # MagicBytes
BY AddrFacts, MagicAssumption DEF Blank

LEMMA BoardInvInit == BoardInit => BoardInv
<1> SUFFICES ASSUME BoardInit PROVE BoardInv
  OBVIOUS
<1>1. \A t \in Threads : initing[t] = NoInit
  BY DEF BoardInit
<1>2. \A b \in Boards : On(b) = {} /\ Past(b) = {}
  BY <1>1 DEF On, Past, NoInit
<1>3. \A b \in Boards : regs[b] = Blank /\ ~HasMagic(b)
  BY BlankFacts DEF BoardInit, HasMagic
<1>4. BoardTypeOK
  BY <1>1, BlankFacts DEF BoardInit, BoardTypeOK
<1> QED
  BY <1>2, <1>3, <1>4 DEF BoardInv, BoardOK, Solo, MagicLast, Covered

\* A step that leaves a board, its history and its inits alone.
LEMMA Frame ==
  ASSUME NEW b \in Boards, BoardOK(b),
         regs'[b] = regs[b], overlap'[b] = overlap[b], torn'[b] = torn[b],
         \A t \in Threads :
           \/ initing'[t] = initing[t]
           \/ /\ t \notin On(b) \cup Past(b)
              /\ t \notin (On(b) \cup Past(b))'
  PROVE  BoardOK(b)'
<1>1. On(b)' = On(b) /\ Past(b)' = Past(b)
  BY DEF On, Past
<1>2. \A t \in On(b) \cup Past(b) : initing'[t] = initing[t]
  BY DEF On, Past
<1> QED
  BY <1>1, <1>2 DEF BoardOK, Solo, MagicLast, Covered, Pending, HasMagic

\* A step of thread t that leaves every board but b alone.
LEMMA OtherBoards ==
  ASSUME NEW t \in Threads, NEW b \in Boards, BoardTypeOK,
         NEW c \in Boards, c # b, BoardOK(c),
         \A u \in Threads \ {t} : initing'[u] = initing[u],
         initing[t].board = b \/ initing[t].next < 0,
         initing'[t] = NoInit \/ initing'[t].board = b \/ initing'[t].next = -1,
         regs'[c] = regs[c], overlap'[c] = overlap[c], torn'[c] = torn[c]
  PROVE  BoardOK(c)'
<1>1. t \notin On(c) \cup Past(c)
  <2>1. CASE initing[t].board = b
    BY <2>1 DEF On, Past
  <2>2. CASE initing[t].next < 0
    <3>1. initing[t].next \in Int
      BY DEF BoardTypeOK, NoInit
    <3> QED
      BY <2>2, <3>1 DEF On, Past
  <2> QED
    BY <2>1, <2>2
<1>2. t \notin (On(c) \cup Past(c))'
  BY DEF On, Past, NoInit
<1> QED
  BY <1>1, <1>2, Frame

\* The two ways to begin: with a look at the word, and without.
LEMMA CallStep ==
  ASSUME BoardInv, NEW t \in Threads, NEW b \in Boards, InitCall(t, b)
  PROVE  BoardInv'
<1>1. initing[t] = NoInit /\ UNCHANGED <<regs, overlap, torn>>
      /\ initing' = [initing EXCEPT ![t] = [board |-> b, next |-> -1]]
  BY DEF InitCall
<1>2. NumWrites \in Nat
  BY ZeroListAssumption DEF NumWrites
<1>3. BoardTypeOK /\ initing \in [Threads -> {NoInit} \cup [board : Boards, next : -1 .. NumWrites]]
  BY DEF BoardInv, BoardTypeOK
<1>4. BoardTypeOK'
  BY <1>1, <1>2, <1>3 DEF BoardTypeOK
<1>5. initing'[t].next = -1 /\ \A u \in Threads \ {t} : initing'[u] = initing[u]
  BY <1>1, <1>3
<1>6. ASSUME NEW c \in Boards PROVE BoardOK(c)'
  <2>1. t \notin On(c) \cup Past(c) /\ t \notin (On(c) \cup Past(c))'
    BY <1>1, <1>5 DEF On, Past, NoInit
  <2> QED
    BY <1>1, <1>5, <2>1, Frame DEF BoardInv
<1> QED
  BY <1>4, <1>6 DEF BoardInv

LEMMA EnterStep ==
  ASSUME BoardInv, NEW t \in Threads, NEW b \in Boards,
         initing[t] = NoInit \/ initing[t] = [board |-> b, next |-> -1],
         Enter(t, b), UNCHANGED <<regs, torn>>
  PROVE  BoardInv'
<1>1. NumWrites \in Nat
  BY ZeroListAssumption DEF NumWrites
<1>2. BoardTypeOK /\ initing \in [Threads -> {NoInit} \cup [board : Boards, next : -1 .. NumWrites]]
      /\ overlap \in [Boards -> BOOLEAN]
  BY DEF BoardInv, BoardTypeOK
<1>3. initing[t].next < 0 /\ initing'[t] = [board |-> b, next |-> 0]
      /\ \A u \in Threads \ {t} : initing'[u] = initing[u]
  BY <1>2 DEF Enter, NoInit
<1>4. BoardTypeOK'
  BY <1>1, <1>2 DEF Enter, BoardTypeOK
<1>5. overlap'[b] = (overlap[b] \/ On(b) # {})
      /\ \A c \in Boards \ {b} : overlap'[c] = overlap[c]
  BY <1>2 DEF Enter
<1>6. ASSUME NEW c \in Boards, c # b PROVE BoardOK(c)'
  <2>1. BoardOK(c) /\ regs'[c] = regs[c] /\ overlap'[c] = overlap[c] /\ torn'[c] = torn[c]
    BY <1>5, <1>6 DEF BoardInv
  <2>2. initing'[t].board = b
    BY <1>3
  <2> QED
    BY <1>2, <1>3, <1>6, <2>1, <2>2, OtherBoards
<1>7. BoardOK(b)'
  <2>1. t \notin Past(b) /\ t \notin Past(b)'
    BY <1>3 DEF Past, NoInit
  <2>2. Past(b)' = Past(b) /\ \A u \in Past(b) : initing'[u] = initing[u]
    BY <1>3, <2>1 DEF Past
  <2>3. On(b)' \subseteq On(b) \cup {t}
    BY <1>3 DEF On
  <2>4. Past(b) \subseteq On(b)
    BY <1>2 DEF Past, On, NoInit
  <2>5. Solo(b)' /\ MagicLast(b)'
    BY <1>5, <2>2, <2>3, <2>4 DEF Solo, MagicLast
  <2>6. Covered(b)'
    BY <2>2 DEF Covered, Pending, HasMagic, BoardInv, BoardOK
  <2> QED
    BY <2>5, <2>6 DEF BoardOK
<1> QED
  BY <1>4, <1>6, <1>7 DEF BoardInv

LEMMA ResetStep ==
  ASSUME BoardInv, NEW t \in Threads, NEW b \in Boards, InitReset(t, b)
  PROVE  BoardInv'
<1>1. NumWrites \in Nat /\ NumWrites >= 6
  BY ZeroListAssumption DEF NumWrites
<1>2. BoardTypeOK /\ initing \in [Threads -> {NoInit} \cup [board : Boards, next : -1 .. NumWrites]]
      /\ torn \in [Boards -> BOOLEAN] /\ overlap \in [Boards -> BOOLEAN]
      /\ regs \in [Boards -> [Addrs -> Nat \cup {MagicBytes, PowerUp}]]
  BY DEF BoardInv, BoardTypeOK
<1>3. initing[t] = [board |-> b, next |-> 0] /\ initing'[t] = [board |-> b, next |-> 1]
      /\ \A u \in Threads \ {t} : initing'[u] = initing[u]
  BY <1>2 DEF InitReset
<1>4. /\ regs'[b] = Blank /\ torn'[b] = (torn[b] /\ overlap[b]) /\ overlap' = overlap
      /\ \A c \in Boards \ {b} : regs'[c] = regs[c] /\ torn'[c] = torn[c]
  BY <1>2 DEF InitReset
<1>5. BoardTypeOK'
  BY <1>1, <1>2, <1>3, BlankFacts DEF InitReset, BoardTypeOK
<1>6. ASSUME NEW c \in Boards, c # b PROVE BoardOK(c)'
  <2>1. BoardOK(c) /\ regs'[c] = regs[c] /\ overlap'[c] = overlap[c] /\ torn'[c] = torn[c]
    BY <1>4, <1>6 DEF BoardInv
  <2>2. initing[t].board = b /\ initing'[t].board = b
    BY <1>3
  <2> QED
    BY <1>2, <1>3, <1>6, <2>1, <2>2, OtherBoards
<1>7. BoardOK(b)'
  <2>1. t \in On(b) /\ t \in Past(b)' /\ initing'[t].next = 1
    BY <1>3 DEF On, Past
  <2>2. On(b)' = On(b)
    BY <1>3 DEF On
  <2>3. ~HasMagic(b)'
    BY <1>4, BlankFacts DEF HasMagic
  <2>4. \A a \in ConfigAddrs : Pending(b, a)'
    BY <2>1, AddrFacts DEF Pending
  <2>5. Solo(b)'
    BY <1>4, <2>2 DEF Solo, BoardInv, BoardOK
  <2> QED
    BY <2>3, <2>4, <2>5 DEF BoardOK, MagicLast, Covered
<1> QED
  BY <1>5, <1>6, <1>7 DEF BoardInv

LEMMA WriteStep ==
  ASSUME BoardInv, NEW t \in Threads, NEW b \in Boards, InitWrite(t, b)
  PROVE  BoardInv'
<1> DEFINE k == initing[t].next
<1> DEFINE w == WriteAt(k)
<1>1. NumWrites \in Nat /\ NumWrites >= 6
  BY ZeroListAssumption DEF NumWrites
<1>2. BoardTypeOK /\ initing \in [Threads -> {NoInit} \cup [board : Boards, next : -1 .. NumWrites]]
      /\ torn \in [Boards -> BOOLEAN] /\ overlap \in [Boards -> BOOLEAN]
      /\ regs \in [Boards -> [Addrs -> Nat \cup {MagicBytes, PowerUp}]]
  BY DEF BoardInv, BoardTypeOK
<1>3. initing[t].board = b /\ k \in 1 .. NumWrites
  BY <1>1, <1>2 DEF InitWrite, NoInit
<1>4. w.addr \in Addrs /\ w.val \in Nat \cup {MagicBytes, PowerUp}
  BY <1>3, WriteFacts
<1>5. /\ regs' = [regs EXCEPT ![b][w.addr] = w.val] /\ torn' = torn
      /\ regs'[b][w.addr] = w.val
      /\ \A a \in Addrs \ {w.addr} : regs'[b][a] = regs[b][a]
      /\ \A c \in Boards \ {b} : regs'[c] = regs[c]
  <2>1. regs' = [regs EXCEPT ![b][w.addr] = w.val] /\ torn' = torn
    BY DEF InitWrite
  <2> HIDE DEF w
  <2> QED
    BY <1>2, <1>4, <2>1
<1>6. \/ k = NumWrites /\ Leave(t, b)
      \/ /\ k # NumWrites /\ overlap' = overlap
         /\ initing' = [initing EXCEPT ![t].next = k + 1]
  BY DEF InitWrite
<1>7. \A u \in Threads \ {t} : initing'[u] = initing[u]
  BY <1>2, <1>6 DEF Leave
<1>8. \/ k = NumWrites /\ initing'[t] = NoInit /\ overlap'[b] = (overlap[b] /\ On(b) # {t})
      \/ k < NumWrites /\ initing'[t] = [board |-> b, next |-> k + 1] /\ overlap'[b] = overlap[b]
  <2>1. initing[t] = [board |-> b, next |-> k]
    BY <1>2, <1>3 DEF NoInit
  <2> HIDE DEF k
  <2>2. CASE k = NumWrites /\ Leave(t, b)
    <3>1. initing'[t] = NoInit
      BY <1>2, <2>2 DEF Leave
    <3>2. overlap'[b] = (overlap[b] /\ On(b) # {t})
      BY <1>2, <2>2, Zenon DEF Leave
    <3> QED
      BY <2>2, <3>1, <3>2
  <2>3. CASE k # NumWrites /\ overlap' = overlap /\ initing' = [initing EXCEPT ![t].next = k + 1]
    <3>1. k < NumWrites
      BY <1>1, <1>3, <2>3
    <3>2. initing'[t] = [board |-> b, next |-> k + 1]
      BY <1>2, <2>1, <2>3
    <3> QED
      BY <2>3, <3>1, <3>2
  <2> QED
    BY <1>6, <2>2, <2>3
<1>9. \A c \in Boards \ {b} : overlap'[c] = overlap[c]
  BY <1>2, <1>6 DEF Leave
<1>10. BoardTypeOK'
  <2>1. regs' \in [Boards -> [Addrs -> Nat \cup {MagicBytes, PowerUp}]]
    <3> HIDE DEF w
    <3> QED
      BY <1>2, <1>4, <1>5
  <2>2. overlap' \in [Boards -> BOOLEAN]
    BY <1>2, <1>6 DEF Leave
  <2>3. initing' \in [Threads -> {NoInit} \cup [board : Boards, next : -1 .. NumWrites]]
    <3>1. initing'[t] \in {NoInit} \cup [board : Boards, next : -1 .. NumWrites]
      <4> HIDE DEF k
      <4> QED
        BY <1>1, <1>3, <1>8
    <3>2. \A u \in Threads : initing'[u] \in {NoInit} \cup [board : Boards, next : -1 .. NumWrites]
      BY <1>2, <1>7, <3>1
    <3>3. DOMAIN initing' = Threads /\ initing' = [u \in Threads |-> initing'[u]]
      BY <1>2, <1>6 DEF Leave
    <3> QED
      BY <3>2, <3>3
  <2> QED
    BY <1>2, <1>5, <2>1, <2>2, <2>3 DEF BoardTypeOK
<1>11. ASSUME NEW c \in Boards, c # b PROVE BoardOK(c)'
  <2>1. BoardOK(c) /\ regs'[c] = regs[c] /\ overlap'[c] = overlap[c] /\ torn'[c] = torn[c]
    BY <1>5, <1>9, <1>11 DEF BoardInv
  <2>2. initing'[t] = NoInit \/ initing'[t].board = b
    BY <1>8
  <2> QED
    BY <1>2, <1>3, <1>7, <1>11, <2>1, <2>2, OtherBoards
<1>12. BoardOK(b) /\ t \in On(b) /\ t \in Past(b) /\ Past(b) \subseteq On(b)
  <2>1. t \in On(b) /\ t \in Past(b)
    BY <1>3 DEF On, Past
  <2>2. Past(b) \subseteq On(b)
    BY <1>2 DEF On, Past, NoInit
  <2> QED
    BY <2>1, <2>2 DEF BoardInv
<1>13. \A a \in ConfigAddrs : ~torn[b] => regs'[b][a] = Final(a) \/ Pending(b, a)'
  <2> SUFFICES ASSUME NEW a \in ConfigAddrs, ~torn[b]
               PROVE  regs'[b][a] = Final(a) \/ Pending(b, a)'
    OBVIOUS
  <2>1. regs[b][a] = Final(a) \/ Pending(b, a)
    BY <1>12 DEF BoardOK, Covered
  <2>2. LastAt(a) \in 2 .. 5 /\ a \in Addrs
    BY AddrFacts
  <2>3. ASSUME k < LastAt(a) PROVE Pending(b, a)'
    <3>1. initing'[t] = [board |-> b, next |-> k + 1]
      BY <1>1, <1>8, <2>2, <2>3
    <3>2. k + 1 >= 1 /\ k + 1 <= LastAt(a)
      BY <1>3, <2>2, <2>3
    <3>3. t \in Past(b)'
      BY <3>1, <3>2 DEF Past
    <3> QED
      BY <3>1, <3>2, <3>3 DEF Pending
  <2>4. CASE w.addr = a
    <3>1. k <= LastAt(a) /\ (k = LastAt(a) => w.val = Final(a))
      BY <1>3, <2>4, WriteFacts
    <3> QED
      BY <1>3, <1>5, <2>2, <2>3, <2>4, <3>1
  <2>5. CASE w.addr # a /\ regs[b][a] = Final(a)
    BY <1>5, <2>2, <2>5
  <2>6. CASE w.addr # a /\ Pending(b, a)
    <3>1. PICK u \in Past(b) : initing[u].next <= LastAt(a)
      BY <2>6 DEF Pending
    <3>2. CASE u # t
      <4>1. u \in Past(b)' /\ initing'[u] = initing[u]
        BY <1>7, <3>2 DEF Past
      <4> QED
        BY <3>1, <4>1 DEF Pending
    <3>3. CASE u = t
      <4>1. k # LastAt(a)
        BY <2>6, <3>3, LastWrite
      <4> QED
        BY <1>3, <2>2, <2>3, <3>1, <3>3, <4>1
    <3> QED
      BY <3>2, <3>3
  <2> QED
    BY <2>1, <2>4, <2>5, <2>6
<1>14. BoardOK(b)'
  <2>1. On(b)' \subseteq On(b) /\ (k = NumWrites => t \notin On(b)')
    <3>1. t \notin On(b)' \/ k < NumWrites
      BY <1>1, <1>8 DEF On, NoInit
    <3>2. On(b)' \subseteq On(b)
      BY <1>7, <1>12 DEF On
    <3> QED
      BY <1>1, <3>1, <3>2
  <2>2. Past(b)' \subseteq On(b)'
    BY <1>10 DEF On, Past, NoInit, BoardTypeOK
  <2>3. ~overlap'[b] /\ On(b)' # {} => ~overlap[b] /\ On(b) = {t} /\ k < NumWrites
    <3>1. ~overlap[b] => On(b) = {t}
      BY <1>12 DEF BoardOK, Solo
    <3> QED
      BY <1>1, <1>8, <2>1, <3>1
  <2>4. Solo(b)'
    BY <2>1, <2>3 DEF Solo
  <2>5. MagicLast(b)'
    <3> SUFFICES ASSUME ~overlap'[b], Past(b)' # {} PROVE ~HasMagic(b)'
      BY DEF MagicLast
    <3>1. ~overlap[b] /\ k < NumWrites /\ ~HasMagic(b)
      BY <1>12, <2>2, <2>3 DEF BoardOK, MagicLast
    <3>2. w.val # MagicBytes
      BY <1>3, <3>1, WriteFacts
    <3> QED
      BY <1>5, <3>1, <3>2, AddrFacts DEF HasMagic
  <2>6. Covered(b)'
    BY <1>5, <1>13 DEF Covered
  <2> QED
    BY <2>4, <2>5, <2>6 DEF BoardOK
<1> QED
  BY <1>10, <1>11, <1>14 DEF BoardInv

LEMMA ProbeStep ==
  ASSUME BoardInv, NEW b \in Boards, Probe(b)
  PROVE  BoardInv'
<1>1. BoardTypeOK /\ regs \in [Boards -> [Addrs -> Nat \cup {MagicBytes, PowerUp}]]
  BY DEF BoardInv, BoardTypeOK
<1>2. /\ regs' = [regs EXCEPT ![b][ProbeAddr] = 1]
      /\ initing' = initing /\ overlap' = overlap /\ torn' = torn
  BY DEF Probe
<1>3. regs' \in [Boards -> [Addrs -> Nat \cup {MagicBytes, PowerUp}]]
  BY <1>1, <1>2, AddrFacts
<1>4. BoardTypeOK'
  BY <1>1, <1>2, <1>3 DEF BoardTypeOK
<1>5. \A c \in Boards : \A a \in ConfigAddrs \cup {MagicAddr} : regs'[c][a] = regs[c][a]
  BY <1>1, <1>2, AddrFacts
<1>6. ASSUME NEW c \in Boards PROVE BoardOK(c)'
  <2>1. On(c)' = On(c) /\ Past(c)' = Past(c) /\ HasMagic(c)' = HasMagic(c)
    BY <1>2, <1>5 DEF On, Past, HasMagic
  <2>2. BoardOK(c)
    BY DEF BoardInv
  <2> QED
    BY <1>2, <1>5, <2>1, <2>2 DEF BoardOK, Solo, MagicLast, Covered, Pending
<1> QED
  BY <1>4, <1>6 DEF BoardInv

LEMMA PowerLossStep ==
  ASSUME BoardInv, NEW b \in Boards, PowerLoss(b)
  PROVE  BoardInv'
<1>1. BoardTypeOK /\ regs \in [Boards -> [Addrs -> Nat \cup {MagicBytes, PowerUp}]]
      /\ torn \in [Boards -> BOOLEAN]
  BY DEF BoardInv, BoardTypeOK
<1>2. /\ regs' = [regs EXCEPT ![b] = Blank]
      /\ torn' = [torn EXCEPT ![b] = @ \/ Past(b) # {}]
      /\ initing' = initing /\ overlap' = overlap
  BY DEF PowerLoss
<1>3. BoardTypeOK'
  BY <1>1, <1>2, BlankFacts DEF BoardTypeOK
<1>4. ASSUME NEW c \in Boards PROVE BoardOK(c)'
  <2>1. On(c)' = On(c) /\ Past(c)' = Past(c) /\ BoardOK(c)
    BY <1>2 DEF On, Past, BoardInv
  <2>2. CASE c # b
    <3>1. regs'[c] = regs[c] /\ torn'[c] = torn[c]
      BY <1>1, <1>2, <2>2
    <3> QED
      BY <1>2, <2>1, <3>1 DEF BoardOK, Solo, MagicLast, Covered, Pending, HasMagic
  <2>3. CASE c = b
    <3>1. ~HasMagic(b)'
      BY <1>1, <1>2, BlankFacts DEF HasMagic
    <3>2. Past(b) # {} => torn'[b]
      BY <1>1, <1>2
    <3> QED
      BY <1>2, <2>1, <2>3, <3>1, <3>2 DEF BoardOK, Solo, MagicLast, Covered
  <2> QED
    BY <2>2, <2>3
<1> QED
  BY <1>3, <1>4 DEF BoardInv

LEMMA KillStep ==
  ASSUME BoardInv, KillInits
  PROVE  BoardInv'
<1>1. BoardTypeOK /\ overlap \in [Boards -> BOOLEAN] /\ torn \in [Boards -> BOOLEAN]
  BY DEF BoardInv, BoardTypeOK
<1>2. /\ initing' = [t \in Threads |-> NoInit] /\ regs' = regs
      /\ torn' = [b \in Boards |-> torn[b] \/ overlap[b]]
      /\ overlap' = [b \in Boards |-> FALSE]
  BY DEF KillInits
<1>3. BoardTypeOK'
  BY <1>1, <1>2 DEF BoardTypeOK
<1>4. ASSUME NEW c \in Boards PROVE BoardOK(c)'
  <2>1. On(c)' = {} /\ Past(c)' = {}
    BY <1>2 DEF On, Past, NoInit
  <2>2. Covered(c)'
    <3> SUFFICES ASSUME ~torn'[c], HasMagic(c) PROVE \A a \in ConfigAddrs : regs[c][a] = Final(a)
      BY <1>2, <2>1 DEF Covered, HasMagic
    <3>1. ~torn[c] /\ ~overlap[c]
      BY <1>2
    <3>2. Past(c) = {}
      BY <3>1 DEF BoardInv, BoardOK, MagicLast
    <3> QED
      BY <3>1, <3>2 DEF BoardInv, BoardOK, Covered, Pending
  <2> QED
    BY <2>1, <2>2 DEF BoardOK, Solo, MagicLast
<1> QED
  BY <1>3, <1>4 DEF BoardInv

LEMMA BoardInvNext == BoardInv /\ [BoardNext]_ddsVars => BoardInv'
<1> SUFFICES ASSUME BoardInv, [BoardNext]_ddsVars PROVE BoardInv'
  OBVIOUS
<1>1. ASSUME NEW t \in Threads, NEW b \in Boards, InitForce(t, b) PROVE BoardInv'
  BY <1>1, EnterStep DEF InitForce
<1>2. ASSUME NEW t \in Threads, NEW b \in Boards, InitCall(t, b) PROVE BoardInv'
  BY <1>2, CallStep
<1>3. ASSUME NEW t \in Threads, NEW b \in Boards, InitCheck(t, b) PROVE BoardInv'
  <2>1. CASE Enter(t, b)
    BY <1>3, <2>1, EnterStep DEF InitCheck
  <2>2. CASE HasMagic(b) /\ initing' = [initing EXCEPT ![t] = NoInit] /\ overlap' = overlap
    <3>1. BoardTypeOK /\ initing \in [Threads -> {NoInit} \cup [board : Boards, next : -1 .. NumWrites]]
      BY DEF BoardInv, BoardTypeOK
    <3>2. initing[t].next = -1 /\ initing'[t] = NoInit /\ torn' = torn /\ regs' = regs
          /\ \A u \in Threads \ {t} : initing'[u] = initing[u]
      BY <1>3, <2>2, <3>1 DEF InitCheck
    <3>3. BoardTypeOK'
      BY <2>2, <3>1, <3>2 DEF BoardTypeOK
    <3>4. ASSUME NEW c \in Boards PROVE BoardOK(c)'
      <4>1. t \notin On(c) \cup Past(c) /\ t \notin (On(c) \cup Past(c))'
        BY <3>2 DEF On, Past, NoInit
      <4> QED
        BY <2>2, <3>2, <4>1, Frame DEF BoardInv
    <3> QED
      BY <3>3, <3>4 DEF BoardInv
  <2> QED
    BY <1>3, <2>1, <2>2 DEF InitCheck
<1>4. ASSUME NEW b \in Boards, Probe(b) PROVE BoardInv'
  BY <1>4, ProbeStep
<1>5. ASSUME NEW b \in Boards, PowerLoss(b) PROVE BoardInv'
  BY <1>5, PowerLossStep
<1>6. CASE KillInits
  BY <1>6, KillStep
<1>7. CASE UNCHANGED ddsVars
  BY <1>7 DEF ddsVars, BoardInv, BoardTypeOK, BoardOK, Solo, MagicLast, Covered,
     Pending, On, Past, HasMagic
<1> QED
  BY <1>1, <1>2, <1>3, <1>4, <1>5, <1>6, <1>7, ResetStep, WriteStep
  DEF BoardNext, Call, Step, InitStep

LEMMA BoardInvImplies == BoardInv => MagicMeansConfigured
<1> SUFFICES ASSUME BoardInv, NEW b \in Boards, HasMagic(b), ~overlap[b], ~torn[b]
             PROVE  Configured(b)
  BY DEF MagicMeansConfigured
<1>1. Past(b) = {}
  BY DEF BoardInv, BoardOK, MagicLast
<1>2. \A a \in ConfigAddrs : regs[b][a] = Final(a)
  BY <1>1 DEF BoardInv, BoardOK, Covered, Pending
<1> QED
  BY <1>2 DEF ConfigAddrs, Final, Configured

\* Every state of the initialisation of the boards (AD9914::init) is well typed.
THEOREM BoardTypeCorrect == BoardSpec => []BoardTypeOK
<1>1. BoardInv => BoardTypeOK
  BY DEF BoardInv
<1> QED
  BY <1>1, BoardInvInit, BoardInvNext, PTL DEF BoardSpec

\* A board that shows the magic word is configured (AD9914.cpp:48-59), in every
\* order of threads, kills and losses of power but those that overlap and torn
\* note.
THEOREM MagicMeansConfiguredAlways == BoardSpec => []MagicMeansConfigured
BY BoardInvInit, BoardInvNext, BoardInvImplies, PTL DEF BoardSpec
=============================================================================
