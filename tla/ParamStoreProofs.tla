--------------------------- MODULE ParamStoreProofs ---------------------------
(***************************************************************************)
(* Proofs about ParamStore, for any names, values, pages and threads: what *)
(* is loaded from a file of parameters is what was saved.                  *)
(***************************************************************************)
EXTENDS ParamStore, FiniteSetTheorems, WellFoundedInduction, TLAPS

\* A set of natural numbers has a least element.
LEMMA Least ==
  ASSUME NEW T, T \subseteq Nat, T # {}
  PROVE  \E x \in T : \A y \in T : x <= y
<1> DEFINE I == {1 .. n : n \in T}
<1>1. I \subseteq FiniteSubsetsOf(Nat) /\ I # {}
  <2>1. \A n \in T : 1 .. n \in SUBSET Nat /\ IsFiniteSet(1 .. n)
    BY FS_Interval
  <2> QED
    BY <2>1 DEF FiniteSubsetsOf
<1>2. PICK X \in I : \A Y \in I : <<Y, X>> \notin StrictSubsetOrdering(Nat)
  <2> HIDE DEF I
  <2> QED
    BY <1>1, FS_StrictSubsetOrderingWellFounded, WFMin, SMT
<1>3. PICK x \in T : X = 1 .. x
  BY <1>2
<1>4. ASSUME NEW y \in T, y < x PROVE FALSE
  <2>1. 1 .. y \in I /\ 1 .. y \subseteq 1 .. x /\ 1 .. y # 1 .. x
    BY <1>4
  <2>2. <<1 .. y, X>> \in StrictSubsetOrdering(Nat)
    BY <1>1, <1>2, <1>3, <2>1 DEF StrictSubsetOrdering, FiniteSubsetsOf
  <2> QED
    BY <1>2, <2>1, <2>2
<1> QED
  BY <1>4

\* So has a set of indices a greatest.
LEMMA Greatest ==
  ASSUME NEW n \in Nat, NEW T, T \subseteq 1 .. n, T # {}
  PROVE  \E x \in T : \A y \in T : y <= x
<1> DEFINE U == {n - x : x \in T}
<1>1. U \subseteq Nat /\ U # {}
  <2>1. \A x \in T : x \in 1 .. n /\ n - x \in Nat
    OBVIOUS
  <2> QED
    BY <2>1
<1>2. PICK u \in U : \A v \in U : u <= v
  <2> HIDE DEF U
  <2> QED
    BY <1>1, Least
<1>3. PICK x \in T : u = n - x
  BY <1>2
<1>4. \A y \in T : n - y \in U
  OBVIOUS
<1>5. \A y \in T : y <= x
  BY <1>2, <1>3, <1>4
<1> QED
  BY <1>5

Upto(S, i) == S \cap 1 .. i

LEMMA UptoFacts ==
  ASSUME NEW n \in Nat, NEW S, S \subseteq 1 .. n
  PROVE  /\ IsFiniteSet(S) /\ Cardinality(S) \in Nat
         /\ \A i \in 0 .. n : /\ IsFiniteSet(Upto(S, i)) /\ Cardinality(Upto(S, i)) \in Nat
                              /\ Cardinality(Upto(S, i)) <= Cardinality(S)
         /\ Cardinality(Upto(S, 0)) = 0
         /\ Upto(S, n) = S
         /\ \A i \in 1 .. n : Cardinality(Upto(S, i)) = Cardinality(Upto(S, i - 1))
                                                        + (IF i \in S THEN 1 ELSE 0)
<1>0. \A j \in S : j \in 1 .. n
  OBVIOUS
<1>1. IsFiniteSet(1 .. n)
  BY FS_Interval
<1>2. IsFiniteSet(S) /\ Cardinality(S) \in Nat
  BY <1>1, FS_Subset, FS_CardinalityType
<1>3. ASSUME NEW i \in 0 .. n
      PROVE  /\ IsFiniteSet(Upto(S, i)) /\ Cardinality(Upto(S, i)) \in Nat
             /\ Cardinality(Upto(S, i)) <= Cardinality(S)
  <2>1. Upto(S, i) \subseteq S
    BY DEF Upto
  <2> QED
    BY <1>2, <2>1, FS_Subset, FS_CardinalityType
<1>4. Upto(S, 0) = {} /\ Upto(S, n) = S
  <2>1. \A j : j \notin 1 .. 0
    OBVIOUS
  <2>2. Upto(S, 0) = {}
    BY <2>1 DEF Upto
  <2>3. Upto(S, n) \subseteq S /\ S \subseteq Upto(S, n)
    BY <1>0 DEF Upto
  <2> QED
    BY <2>2, <2>3
<1>5. ASSUME NEW i \in 1 .. n
      PROVE  Cardinality(Upto(S, i)) = Cardinality(Upto(S, i - 1)) + (IF i \in S THEN 1 ELSE 0)
  <2>1. IsFiniteSet(Upto(S, i - 1)) /\ Cardinality(Upto(S, i - 1)) \in Nat /\ i \notin Upto(S, i - 1)
    <3>1. i - 1 \in 0 .. n
      OBVIOUS
    <3> QED
      BY <1>0, <1>3, <3>1 DEF Upto
  <2>2. CASE i \in S
    <3>1. Upto(S, i) = Upto(S, i - 1) \cup {i}
      BY <1>0, <2>2 DEF Upto
    <3> QED
      BY <2>1, <2>2, <3>1, FS_AddElement
  <2>3. CASE i \notin S
    <3>1. Upto(S, i) = Upto(S, i - 1)
      BY <1>0, <2>3 DEF Upto
    <3> QED
      BY <2>1, <2>3, <3>1
  <2> QED
    BY <2>2, <2>3
<1>6. Cardinality(Upto(S, 0)) = 0
  BY <1>4, FS_EmptySet
<1> QED
  BY <1>2, <1>3, <1>4, <1>5, <1>6

\* The places of the elements of a set of indices, in their order, count from 1
\* to their number.
LEMMA Ranks ==
  ASSUME NEW n \in Nat, NEW S, S \subseteq 1 .. n
  PROVE  /\ \A i \in S : Cardinality(Upto(S, i)) \in 1 .. Cardinality(S)
         /\ \A k \in 1 .. Cardinality(S) : \E i \in S : Cardinality(Upto(S, i)) = k
         /\ \A i, j \in S : Cardinality(Upto(S, i)) = Cardinality(Upto(S, j)) => i = j
<1> DEFINE c(i) == Cardinality(Upto(S, i))
<1>1. /\ \A i \in 0 .. n : c(i) \in Nat /\ c(i) <= Cardinality(S)
      /\ c(0) = 0 /\ c(n) = Cardinality(S) /\ Cardinality(S) \in Nat
      /\ \A i \in 1 .. n : c(i) = c(i - 1) + (IF i \in S THEN 1 ELSE 0)
  BY UptoFacts
<1>0. \A j \in S : j \in 1 .. n
  OBVIOUS
<1>2. ASSUME NEW i \in 0 .. n, NEW j \in S, i < j PROVE c(i) < c(j)
  <2>1. Upto(S, i) \subseteq Upto(S, j) /\ j \in Upto(S, j) /\ j \notin Upto(S, i)
    BY <1>0, <1>2 DEF Upto
  <2>2. IsFiniteSet(Upto(S, j)) /\ Upto(S, i) # Upto(S, j) /\ c(i) \in Nat /\ c(j) \in Nat
    <3>1. i \in 0 .. n /\ j \in 0 .. n
      BY <1>0
    <3>2. IsFiniteSet(Upto(S, j))
      BY <3>1, UptoFacts
    <3> QED
      BY <1>1, <2>1, <3>1, <3>2
  <2>3. c(i) <= c(j) /\ (c(i) = c(j) => Upto(S, i) = Upto(S, j))
    BY <2>1, <2>2, FS_Subset
  <2> QED
    BY <2>2, <2>3
<1> HIDE DEF c
<1>3. ASSUME NEW i \in S PROVE c(i) \in 1 .. Cardinality(S)
  BY <1>0, <1>1, <1>2
<1>4. ASSUME NEW i \in S, NEW j \in S, c(i) = c(j) PROVE i = j
  <2>1. i \in 0 .. n /\ j \in 0 .. n /\ c(i) \in Nat
    BY <1>0, <1>1
  <2>2. ~(i < j) /\ ~(j < i)
    BY <1>2, <1>4, <2>1
  <2> QED
    BY <2>1, <2>2
<1>5. ASSUME NEW k \in 1 .. Cardinality(S) PROVE \E i \in S : c(i) = k
  <2> DEFINE T == {i \in 0 .. n : c(i) >= k}
  <2>1. T \subseteq Nat /\ n \in T
    BY <1>1
  <2>2. PICK x \in T : \A y \in T : x <= y
    <3> HIDE DEF T
    <3> QED
      BY <2>1, Least
  <2>3. x \in 1 .. n /\ c(x) >= k
    BY <1>1, <2>2
  <2>4. x - 1 \in 0 .. n /\ x - 1 \notin T
    BY <2>2, <2>3
  <2>5. c(x - 1) < k /\ c(x - 1) \in Nat
    BY <1>1, <2>4
  <2>6. x \in S /\ c(x) = k
    BY <1>1, <2>3, <2>5
  <2> QED
    BY <2>6
<1> QED
  BY <1>3, <1>4, <1>5 DEF c
-----------------------------------------------------------------------------
Params  == [Names -> Values \cup {Empty}]
Loads   == [Names -> (Values \ Split) \cup {Empty}]
Entries == [name : Names, val : Values]
Files   == Seq(Entries \cup {Hole})

\* saveMap writes an entry for each parameter that is not empty, and no other.
LEMMA Saved ==
  ASSUME NEW q \in Params
  PROVE  /\ saveMap(q) \in Seq(Entries)
         /\ \A k \in DOMAIN saveMap(q) : saveMap(q)[k].val = q[saveMap(q)[k].name]
         /\ \A m \in Names : q[m] # Empty => \E k \in DOMAIN saveMap(q) : saveMap(q)[k].name = m
<1> DEFINE S == {i \in DOMAIN NameOrder : q[NameOrder[i]] # Empty}
           n == Len(NameOrder)
           at(k) == CHOOSE i \in S : Cardinality(S \cap 1 .. i) = k
<1>1. n \in Nat /\ DOMAIN NameOrder = 1 .. n /\ S \subseteq 1 .. n
  BY NamesAssumption
<1>2. /\ \A i \in S : Cardinality(S \cap 1 .. i) \in 1 .. Cardinality(S)
      /\ \A k \in 1 .. Cardinality(S) : \E i \in S : Cardinality(S \cap 1 .. i) = k
      /\ \A i, j \in S : Cardinality(S \cap 1 .. i) = Cardinality(S \cap 1 .. j) => i = j
  <2> HIDE DEF S, n
  <2> QED
    BY <1>1, Ranks DEF Upto
<1>3. Cardinality(S) \in Nat
  <2> HIDE DEF S, n
  <2> QED
    BY <1>1, UptoFacts
<1>4. saveMap(q) = [k \in 1 .. Cardinality(S) |->
                     [name |-> NameOrder[at(k)], val |-> q[NameOrder[at(k)]]]]
  BY DEF saveMap
<1>5. \A k \in 1 .. Cardinality(S) : at(k) \in S
  <2> HIDE DEF S
  <2> QED
    BY <1>2
<1>6. \A i \in S : NameOrder[i] \in Names /\ q[NameOrder[i]] \in Values
  BY DEF Names, Params
<1>7. saveMap(q) \in Seq(Entries)
  <2> HIDE DEF S, at
  <2>1. \A k \in 1 .. Cardinality(S) :
          [name |-> NameOrder[at(k)], val |-> q[NameOrder[at(k)]]] \in Entries
    BY <1>5, <1>6 DEF Entries
  <2> QED
    BY <1>3, <1>4, <2>1
<1>8. ASSUME NEW m \in Names, q[m] # Empty
      PROVE  \E k \in DOMAIN saveMap(q) : saveMap(q)[k].name = m
  <2>1. PICK i \in S : NameOrder[i] = m
    BY <1>8 DEF Names
  <2>2. /\ Cardinality(S \cap 1 .. i) \in 1 .. Cardinality(S)
        /\ at(Cardinality(S \cap 1 .. i)) = i
    <3> HIDE DEF S
    <3> QED
      BY <1>2, <2>1
  <2> HIDE DEF S, at
  <2> QED
    BY <1>4, <2>1, <2>2
<1> QED
  <2> HIDE DEF S, at
  <2> QED
    BY <1>4, <1>7, <1>8

\* Of the entries of a name there is a last one, and it has the name.
LEMMA LastFacts ==
  ASSUME NEW f \in Files, NEW m \in Names
  PROVE  /\ Last(f, m) = {} <=> \A i \in DOMAIN f : f[i].name # m
         /\ \A i \in Last(f, m) : i \in DOMAIN f /\ f[i].name = m /\ f[i] \in Entries
<1> DEFINE T == {i \in DOMAIN f : f[i].name = m}
<1>1. Len(f) \in Nat /\ DOMAIN f = 1 .. Len(f)
      /\ \A i \in DOMAIN f : f[i] \in Entries \cup {Hole}
  BY DEF Files
<1>2. ASSUME T # {} PROVE Last(f, m) # {}
  <2>1. T \subseteq 1 .. Len(f)
    BY <1>1
  <2>2. PICK x \in T : \A y \in T : y <= x
    <3> HIDE DEF T
    <3> QED
      BY <1>1, <1>2, <2>1, Greatest
  <2> QED
    BY <2>2 DEF Last
<1>3. "none" \notin Names
  BY NamesAssumption
<1> QED
  BY <1>1, <1>2, <1>3 DEF Last, Hole

LEMMA Loaded ==
  ASSUME NEW f \in Files
  PROVE  loadMap(f) \in Loads
<1>1. ASSUME NEW m \in Names, Last(f, m) # {}
      PROVE  f[CHOOSE i \in Last(f, m) : TRUE].val \in Values
  <2>1. (CHOOSE i \in Last(f, m) : TRUE) \in Last(f, m)
    BY <1>1
  <2> QED
    BY <2>1, LastFacts DEF Entries
<1> QED
  BY <1>1, SplitAssumption DEF loadMap, Loads, Kept

\* What saveMap writes loadMap reads, but for the values with a semicolon.
LEMMA RoundTrip ==
  ASSUME NEW q \in Params
  PROVE  loadMap(saveMap(q)) = [m \in Names |-> Kept(q[m])]
<1> DEFINE f == saveMap(q)
<1>1. f \in Files
  BY Saved DEF Files
<1>2. \A k \in DOMAIN f : f[k].val = q[f[k].name] /\ f[k].val \in Values
  <2>1. f \in Seq(Entries) /\ \A k \in DOMAIN f : f[k].val = q[f[k].name]
    BY Saved
  <2>2. \A k \in DOMAIN f : f[k] \in Entries
    BY <2>1
  <2> QED
    BY <2>1, <2>2 DEF Entries
<1>3. \A m \in Names : q[m] # Empty => \E k \in DOMAIN f : f[k].name = m
  BY Saved
<1> HIDE DEF f
<1>4. ASSUME NEW m \in Names PROVE loadMap(f)[m] = Kept(q[m])
  <2>1. CASE q[m] = Empty
    <3>1. \A k \in DOMAIN f : f[k].name # m
      BY <1>2, <2>1, SplitAssumption
    <3>2. Last(f, m) = {}
      BY <1>1, <3>1, LastFacts
    <3> QED
      BY <2>1, <3>2, SplitAssumption DEF loadMap, Kept
  <2>2. CASE q[m] # Empty
    <3>1. Last(f, m) # {}
      BY <1>1, <1>3, <2>2, LastFacts
    <3>2. (CHOOSE i \in Last(f, m) : TRUE) \in Last(f, m)
      BY <3>1
    <3>3. f[CHOOSE i \in Last(f, m) : TRUE].val = q[m]
      BY <1>1, <1>2, <3>2, LastFacts
    <3> QED
      BY <3>1, <3>3 DEF loadMap
  <2> QED
    BY <2>1, <2>2
<1>5. loadMap(f) = [m \in Names |-> loadMap(f)[m]]
  BY DEF loadMap
<1> QED
  BY <1>4, <1>5 DEF f

LEMMA Parsed ==
  ASSUME NEW q \in Loads, NEW form \in Forms
  PROVE  parseParamsCGI(q, form) \in Params
<1>1. PICK N \in SUBSET Names : form \in [N -> Values \cup {Empty}]
  BY DEF Forms
<1> QED
  BY <1>1 DEF parseParamsCGI, Params, Loads
-----------------------------------------------------------------------------
\* A page whose file no one writes holds what the forms amount to.  Unless
\* setParams of it overlap, the one under way saves what its form makes of that,
\* and the file is as much of it as was written.
PageOK(p) ==
  /\ Savers(p) = {} => ~lapped[p] /\ loadMap(file[p]) = wanted[p]
  /\ ~lapped[p] => \A t \in Savers(p) :
       /\ Savers(p) = {t}
       /\ saving[t].entries = saveMap(parseParamsCGI(wanted[p], saving[t].form))
       /\ saving[t].next = 0 => loadMap(file[p]) = wanted[p]
       /\ saving[t].next > 0 =>
            file[p] = [j \in 1 .. saving[t].next - 1 |-> saving[t].entries[j]]

Saves == [page : Pages, form : Forms, entries : Seq(Entries), next : Nat]
StoreTypes ==
  /\ file \in [Pages -> Files] /\ saving \in [Workers -> {NoSave} \cup Saves]
  /\ \A t \in Workers : saving[t].next <= Len(saving[t].entries) + 1
  /\ wanted \in [Pages -> Loads] /\ lapped \in [Pages -> BOOLEAN]

StoreInv == StoreTypes /\ \A p \in Pages : PageOK(p)

LEMMA SaverFacts ==
  ASSUME StoreTypes, NEW p \in Pages, NEW t \in Workers
  PROVE  /\ t \in Savers(p) => saving[t] \in Saves
         /\ saving[t] = NoSave => t \notin Savers(p)
         /\ t \in Savers(p) <=> saving[t].page = p
BY NamesAssumption DEF StoreTypes, Saves, Savers, NoSave

LEMMA StoreInvInit == StoreInit => StoreInv
<1> SUFFICES ASSUME StoreInit PROVE StoreInv
  OBVIOUS
<1>1. \A m \in Names : Last(<<>>, m) = {}
  BY DEF Last
<1>2. loadMap(<<>>) = [m \in Names |-> Empty]
  BY <1>1 DEF loadMap
<1>3. StoreTypes
  <2>1. <<>> \in Files /\ [m \in Names |-> Empty] \in Loads
    BY DEF Files, Loads
  <2>2. \A t \in Workers : saving[t].next <= Len(saving[t].entries) + 1
    BY DEF StoreInit, NoSave
  <2> QED
    BY <2>1, <2>2 DEF StoreInit, StoreTypes
<1>4. \A p \in Pages : Savers(p) = {}
  BY NamesAssumption DEF StoreInit, Savers, NoSave
<1> QED
  BY <1>2, <1>3, <1>4 DEF StoreInit, StoreInv, PageOK

\* A step of thread t in page p leaves the others as they are.
LEMMA OtherPages ==
  ASSUME StoreInv, NEW t \in Workers, NEW p \in Pages, NEW c \in Pages, c # p,
         \A u \in Workers \ {t} : saving'[u] = saving[u],
         saving[t].page \in {p, "none"}, saving'[t].page \in {p, "none"},
         file'[c] = file[c], wanted'[c] = wanted[c], lapped'[c] = lapped[c]
  PROVE  PageOK(c)'
<1>1. Savers(c)' = Savers(c) /\ t \notin Savers(c)
  BY NamesAssumption DEF Savers
<1>2. \A u \in Savers(c) : saving'[u] = saving[u]
  BY <1>1 DEF Savers
<1> QED
  BY <1>1, <1>2 DEF StoreInv, PageOK

LEMMA LoadStep ==
  ASSUME StoreInv, NEW t \in Workers, NEW p \in Pages, NEW form \in Forms,
         SetLoad(t, p, form)
  PROVE  StoreInv'
<1> DEFINE e == saveMap(parseParamsCGI(loadMap(file[p]), form))
           s == [page |-> p, form |-> form, next |-> 0, entries |-> e]
<1>1. /\ saving[t] = NoSave /\ saving' = [saving EXCEPT ![t] = s]
      /\ lapped' = [lapped EXCEPT ![p] = lapped[p] \/ Savers(p) # {}]
      /\ file' = file /\ wanted' = wanted
  BY DEF SetLoad
<1>2. StoreTypes
  BY DEF StoreInv
<1>3. e \in Seq(Entries)
  <2>1. file[p] \in Files
    BY <1>2 DEF StoreTypes
  <2> QED
    BY <2>1, Loaded, Parsed, Saved
<1> HIDE DEF e
<1>4. s \in Saves /\ s.next <= Len(s.entries) + 1
  BY <1>3 DEF Saves
<1>5. saving'[t] = s /\ \A u \in Workers \ {t} : saving'[u] = saving[u]
  BY <1>1, <1>2 DEF StoreTypes
<1>6. StoreTypes'
  BY <1>1, <1>2, <1>4, <1>5 DEF StoreTypes
<1>7. PageOK(p)'
  <2>1. Savers(p)' = Savers(p) \cup {t} /\ lapped'[p] = (lapped[p] \/ Savers(p) # {})
    BY <1>1, <1>2, <1>5 DEF Savers, StoreTypes
  <2>2. CASE Savers(p) = {}
    <3>1. loadMap(file[p]) = wanted[p] /\ Savers(p)' = {t}
      BY <2>1, <2>2 DEF StoreInv, PageOK
    <3> QED
      BY <1>1, <1>5, <3>1 DEF PageOK, e
  <2>3. CASE Savers(p) # {}
    BY <2>1, <2>3 DEF PageOK
  <2> QED
    BY <2>2, <2>3
<1>8. ASSUME NEW c \in Pages, c # p PROVE PageOK(c)'
  <2>1. lapped'[c] = lapped[c] /\ saving[t].page = "none"
    BY <1>1, <1>2, <1>8 DEF StoreTypes, NoSave
  <2> QED
    BY <1>1, <1>5, <1>8, <2>1, OtherPages
<1> QED
  BY <1>6, <1>7, <1>8 DEF StoreInv

LEMMA OpenStep ==
  ASSUME StoreInv, NEW t \in Workers, NEW p \in Pages, SetOpen(t, p)
  PROVE  StoreInv'
<1>1. /\ saving[t].page = p /\ saving[t].next = 0
      /\ file' = [file EXCEPT ![p] = <<>>]
      /\ saving' = [saving EXCEPT ![t].next = 1]
      /\ wanted' = wanted /\ lapped' = lapped
  BY DEF SetOpen, Opened
<1>2. StoreTypes
  BY DEF StoreInv
<1>3. saving[t] \in Saves /\ t \in Savers(p)
  BY <1>1, <1>2, SaverFacts
<1>4. saving'[t] = [saving[t] EXCEPT !.next = 1] /\ \A u \in Workers \ {t} : saving'[u] = saving[u]
  BY <1>1, <1>2 DEF StoreTypes
<1>5. saving'[t] \in Saves /\ saving'[t].next <= Len(saving'[t].entries) + 1
      /\ saving'[t].entries = saving[t].entries /\ saving'[t].form = saving[t].form
      /\ saving'[t].page = p /\ saving'[t].next = 1
  BY <1>1, <1>3, <1>4 DEF Saves
<1>6. StoreTypes'
  <2>1. <<>> \in Files
    BY DEF Files
  <2>2. file' \in [Pages -> Files] /\ saving' \in [Workers -> {NoSave} \cup Saves]
    BY <1>1, <1>2, <1>5, <2>1 DEF StoreTypes
  <2>3. \A u \in Workers : saving'[u].next <= Len(saving'[u].entries) + 1
    BY <1>2, <1>4, <1>5 DEF StoreTypes
  <2> QED
    BY <1>1, <1>2, <2>2, <2>3 DEF StoreTypes
<1>7. file'[p] = <<>> /\ Savers(p)' = Savers(p)
  BY <1>1, <1>2, <1>4, <1>5 DEF StoreTypes, Savers
<1>8. PageOK(p)'
  <2>1. PageOK(p) /\ Savers(p)' # {}
    BY <1>3, <1>7 DEF StoreInv
  <2>2. ASSUME ~lapped'[p], NEW u \in Savers(p)'
        PROVE  /\ Savers(p)' = {u}
               /\ saving'[u].entries = saveMap(parseParamsCGI(wanted'[p], saving'[u].form))
               /\ saving'[u].next = 1
               /\ file'[p] = [j \in 1 .. saving'[u].next - 1 |-> saving'[u].entries[j]]
    <3>1. /\ Savers(p) = {t} /\ u = t
          /\ saving[t].entries = saveMap(parseParamsCGI(wanted[p], saving[t].form))
      BY <1>1, <1>3, <1>7, <2>1, <2>2 DEF PageOK
    <3>2. [j \in 1 .. saving'[t].next - 1 |-> saving'[t].entries[j]] = <<>>
      BY <1>5
    <3> QED
      BY <1>1, <1>5, <1>7, <3>1, <3>2
  <2> QED
    BY <2>1, <2>2 DEF PageOK
<1>9. ASSUME NEW c \in Pages, c # p PROVE PageOK(c)'
  <2>1. file'[c] = file[c]
    BY <1>1, <1>2, <1>9 DEF StoreTypes
  <2> QED
    BY <1>1, <1>4, <1>5, <1>9, <2>1, OtherPages
<1> QED
  BY <1>6, <1>8, <1>9 DEF StoreInv

LEMMA EntryStep ==
  ASSUME StoreInv, NEW t \in Workers, NEW p \in Pages, SetEntry(t, p)
  PROVE  StoreInv'
<1> DEFINE k == saving[t].next
           w == WriteTo(file[p], k, saving[t].entries[k])
<1>1. /\ saving[t].page = p /\ k \in DOMAIN saving[t].entries
      /\ file' = [file EXCEPT ![p] = w]
      /\ saving' = [saving EXCEPT ![t].next = @ + 1]
      /\ wanted' = wanted /\ lapped' = lapped
  BY DEF SetEntry
<1>2. StoreTypes
  BY DEF StoreInv
<1>3. saving[t] \in Saves /\ t \in Savers(p) /\ file[p] \in Files
  BY <1>1, <1>2, SaverFacts DEF StoreTypes
<1>4. saving[t].entries \in Seq(Entries) /\ k \in Nat
  BY <1>3 DEF Saves
<1>4a. k \in 1 .. Len(saving[t].entries) /\ saving[t].entries[k] \in Entries
  BY <1>1, <1>4
<1>5. saving'[t] = [saving[t] EXCEPT !.next = k + 1] /\ \A u \in Workers \ {t} : saving'[u] = saving[u]
  BY <1>1, <1>2 DEF StoreTypes
<1>6. saving'[t] \in Saves /\ saving'[t].next <= Len(saving'[t].entries) + 1
      /\ saving'[t].entries = saving[t].entries /\ saving'[t].form = saving[t].form
      /\ saving'[t].page = p /\ saving'[t].next = k + 1
  BY <1>1, <1>3, <1>4, <1>4a, <1>5 DEF Saves
<1>7. w \in Files
  <2> DEFINE n == IF k > Len(file[p]) THEN k ELSE Len(file[p])
  <2>1. n \in Nat
    BY <1>3, <1>4 DEF Files
  <2>2. \A j \in 1 .. n : (IF j = k THEN saving[t].entries[k]
                           ELSE IF j <= Len(file[p]) THEN file[p][j] ELSE Hole)
                          \in Entries \cup {Hole}
    BY <1>3, <1>4a DEF Files
  <2>3. w = [j \in 1 .. n |-> IF j = k THEN saving[t].entries[k]
                              ELSE IF j <= Len(file[p]) THEN file[p][j] ELSE Hole]
    BY DEF WriteTo
  <2> HIDE DEF w, n, k
  <2> QED
    BY <2>1, <2>2, <2>3 DEF Files
<1>8. StoreTypes'
  <2>2. file' \in [Pages -> Files] /\ saving' \in [Workers -> {NoSave} \cup Saves]
    <3> HIDE DEF w
    <3> QED
      BY <1>1, <1>2, <1>6, <1>7 DEF StoreTypes
  <2>3. \A u \in Workers : saving'[u].next <= Len(saving'[u].entries) + 1
    BY <1>2, <1>5, <1>6 DEF StoreTypes
  <2> QED
    BY <1>1, <1>2, <2>2, <2>3 DEF StoreTypes
<1>9. file'[p] = w /\ Savers(p)' = Savers(p)
  <2> HIDE DEF w
  <2> QED
    BY <1>1, <1>2, <1>5, <1>6 DEF StoreTypes, Savers
<1>10. PageOK(p)'
  <2>1. CASE lapped[p]
    BY <1>1, <1>3, <1>9, <2>1 DEF PageOK
  <2>2. CASE ~lapped[p]
    <3>1. /\ Savers(p) = {t}
          /\ saving[t].entries = saveMap(parseParamsCGI(wanted[p], saving[t].form))
          /\ file[p] = [j \in 1 .. k - 1 |-> saving[t].entries[j]]
      BY <1>3, <1>4a, <2>2 DEF PageOK, StoreInv
    <3>2. k - 1 \in Nat /\ Len(file[p]) = k - 1
      <4>1. DOMAIN file[p] = 1 .. k - 1
        BY <3>1
      <4>2. Len(file[p]) \in Nat /\ DOMAIN file[p] = 1 .. Len(file[p])
        BY <1>3 DEF Files
      <4>3. k - 1 \in Nat
        BY <1>4a
      <4>4. 1 .. k - 1 = 1 .. Len(file[p])
        BY <4>1, <4>2
      <4> HIDE DEF k
      <4> QED
        BY <4>2, <4>3, <4>4
    <3>3. w = [j \in 1 .. k |-> saving[t].entries[j]]
      <4>1. w = [j \in 1 .. k |-> IF j = k THEN saving[t].entries[k]
                                   ELSE IF j <= k - 1 THEN file[p][j] ELSE Hole]
        BY <1>4a, <3>2 DEF WriteTo
      <4>2. \A j \in 1 .. k : j # k => j <= k - 1 /\ file[p][j] = saving[t].entries[j]
        BY <1>4a, <3>1
      <4> HIDE DEF w, k
      <4> QED
        BY <4>1, <4>2
    <3>4. (k + 1) - 1 = k /\ k + 1 > 0 /\ k + 1 # 0
      BY <1>4a
    <3>5. file'[p] = [j \in 1 .. saving'[t].next - 1 |-> saving'[t].entries[j]]
          /\ saving'[t].next # 0
      <4> HIDE DEF w, k
      <4>1. saving'[t].next - 1 = k
        BY <1>6, <3>4
      <4> QED
        BY <1>6, <1>9, <3>3, <3>4, <4>1
    <3>6. saving'[t].entries = saveMap(parseParamsCGI(wanted'[p], saving'[t].form))
          /\ Savers(p)' = {t}
      BY <1>1, <1>6, <1>9, <3>1
    <3> QED
      BY <1>1, <3>5, <3>6 DEF PageOK
  <2> QED
    BY <2>1, <2>2
<1>11. ASSUME NEW c \in Pages, c # p PROVE PageOK(c)'
  <2>1. file'[c] = file[c]
    <3> HIDE DEF w
    <3> QED
      BY <1>1, <1>2, <1>11 DEF StoreTypes
  <2> QED
    BY <1>1, <1>5, <1>6, <1>11, <2>1, OtherPages
<1> QED
  BY <1>8, <1>10, <1>11 DEF StoreInv

LEMMA CloseStep ==
  ASSUME StoreInv, NEW t \in Workers, NEW p \in Pages, SetClose(t, p)
  PROVE  StoreInv'
<1>1. /\ saving[t].page = p /\ saving[t].next = Len(saving[t].entries) + 1
      /\ saving' = [saving EXCEPT ![t] = NoSave] /\ file' = file
      /\ lapped' = [lapped EXCEPT ![p] = lapped[p] /\ Savers(p) # {t}]
  BY DEF SetClose
<1>2. StoreTypes
  BY DEF StoreInv
<1>3. saving[t] \in Saves /\ t \in Savers(p) /\ file[p] \in Files
  BY <1>1, <1>2, SaverFacts DEF StoreTypes
<1>4. saving'[t] = NoSave /\ \A u \in Workers \ {t} : saving'[u] = saving[u]
  BY <1>1, <1>2 DEF StoreTypes
<1>5. Savers(p)' = Savers(p) \ {t}
  BY <1>4, NamesAssumption DEF Savers, NoSave
<1>6. lapped'[p] = (lapped[p] /\ Savers(p) # {t})
  BY <1>1, <1>2 DEF StoreTypes
<1>7. /\ wanted' = [wanted EXCEPT ![p] = loadMap(file[p])]
      /\ lapped[p] \/ file[p] = saving[t].entries
  <2>1. CASE lapped[p]
    BY <2>1 DEF SetClose
  <2>2. CASE ~lapped[p]
    <3> DEFINE q == parseParamsCGI(wanted[p], saving[t].form)
    <3>1. saving[t].entries = saveMap(q) /\ saving[t].next > 0
          /\ file[p] = [j \in 1 .. saving[t].next - 1 |-> saving[t].entries[j]]
      BY <1>1, <1>3, <2>2 DEF StoreInv, PageOK, Saves
    <3>2. file[p] = saving[t].entries
      <4>1. saving[t].entries \in Seq(Entries)
        BY <1>3 DEF Saves
      <4>2. saving[t].next - 1 = Len(saving[t].entries)
        BY <1>1, <4>1
      <4> QED
        BY <3>1, <4>1, <4>2
    <3>3. q \in Params
      BY <1>2, <1>3, Parsed DEF StoreTypes, Saves
    <3> HIDE DEF q
    <3>4. loadMap(file[p]) = [m \in Names |-> Kept(q[m])]
      BY <3>1, <3>2, <3>3, RoundTrip
    <3> QED
      BY <2>2, <3>2, <3>4 DEF SetClose, q
  <2> QED
    BY <1>2, <2>1, <2>2 DEF StoreTypes
<1>8. wanted'[p] = loadMap(file[p])
  BY <1>2, <1>7 DEF StoreTypes
<1>9. StoreTypes'
  <2>1. wanted' \in [Pages -> Loads]
    BY <1>2, <1>3, <1>7, Loaded DEF StoreTypes
  <2>2. \A u \in Workers : saving'[u].next <= Len(saving'[u].entries) + 1
    BY <1>2, <1>4 DEF StoreTypes, NoSave
  <2>3. saving' \in [Workers -> {NoSave} \cup Saves] /\ lapped' \in [Pages -> BOOLEAN]
    BY <1>1, <1>2 DEF StoreTypes
  <2> QED
    BY <1>1, <1>2, <2>1, <2>2, <2>3 DEF StoreTypes
<1>10. PageOK(p)'
  <2>1. CASE Savers(p) = {t}
    BY <1>1, <1>5, <1>6, <1>8, <2>1 DEF PageOK
  <2>2. CASE Savers(p) # {t}
    <3>1. lapped[p]
      BY <1>3, <2>2 DEF StoreInv, PageOK
    <3> QED
      BY <1>3, <1>5, <1>6, <2>2, <3>1 DEF PageOK
  <2> QED
    BY <2>1, <2>2
<1>11. ASSUME NEW c \in Pages, c # p PROVE PageOK(c)'
  <2>1. file'[c] = file[c] /\ wanted'[c] = wanted[c] /\ lapped'[c] = lapped[c]
        /\ saving'[t].page = "none"
    BY <1>1, <1>2, <1>4, <1>7, <1>11 DEF StoreTypes, NoSave
  <2> QED
    BY <1>1, <1>4, <1>11, <2>1, OtherPages
<1> QED
  BY <1>9, <1>10, <1>11 DEF StoreInv

LEMMA KillSavesStep ==
  ASSUME StoreInv, KillSaves
  PROVE  StoreInv'
<1>1. /\ saving' = [t \in Workers |-> NoSave] /\ file' = file
      /\ lapped' = [p \in Pages |-> FALSE]
  BY DEF KillSaves
<1>2. StoreTypes
  BY DEF StoreInv
<1>3. ASSUME NEW p \in Pages PROVE wanted'[p] = loadMap(file[p])
  <2>1. CASE lapped[p] \/ \E t \in Savers(p) : saving[t].next > 0
    BY <2>1 DEF KillSaves
  <2>2. CASE ~lapped[p] /\ ~ \E t \in Savers(p) : saving[t].next > 0
    <3>1. wanted'[p] = wanted[p]
      BY <2>2 DEF KillSaves
    <3>2. \A t \in Savers(p) : saving[t].next = 0
      BY <1>2, <2>2, SaverFacts DEF Savers, Saves
    <3> QED
      BY <2>2, <3>1, <3>2 DEF StoreInv, PageOK
  <2> QED
    BY <2>1, <2>2
<1>4. StoreTypes'
  <2>1. \A p \in Pages : loadMap(file[p]) \in Loads
    BY <1>2, Loaded DEF StoreTypes
  <2>2. wanted' \in [Pages -> Loads]
    BY <1>3, <2>1 DEF KillSaves
  <2>3. \A u \in Workers : saving'[u].next <= Len(saving'[u].entries) + 1
    BY <1>1 DEF NoSave
  <2> QED
    BY <1>1, <1>2, <2>2, <2>3 DEF StoreTypes
<1>5. \A p \in Pages : Savers(p)' = {}
  BY <1>1, NamesAssumption DEF Savers, NoSave
<1> QED
  BY <1>1, <1>3, <1>4, <1>5 DEF StoreInv, PageOK

LEMMA StoreInvNext == StoreInv /\ [StoreNext]_storeVars => StoreInv'
<1> SUFFICES ASSUME StoreInv, [StoreNext]_storeVars PROVE StoreInv'
  OBVIOUS
<1>1. CASE UNCHANGED storeVars
  BY <1>1 DEF storeVars, StoreInv, StoreTypes, PageOK, Savers
<1> QED
  BY <1>1, LoadStep, OpenStep, EntryStep, CloseStep, KillSavesStep DEF StoreNext, SetStep

\* What the runs check follows from it.
LEMMA StoreInvImplies == StoreInv => StoreTypeOK /\ StoredParams
<1> SUFFICES ASSUME StoreInv PROVE StoreTypeOK /\ StoredParams
  OBVIOUS
<1>1. StoredParams
  BY DEF StoredParams, StoreInv, PageOK
<1>2. \A p \in Pages : \A i \in DOMAIN file[p] :
        file[p][i] \in [name : Names, val : Values] \cup {Hole}
  BY DEF StoreInv, StoreTypes, Files, Entries
<1>3. ASSUME NEW t \in Workers
      PROVE  \/ saving[t] = NoSave
             \/ saving[t].page \in Pages /\ saving[t].next \in 0 .. Len(saving[t].entries) + 1
  <2>1. saving[t] \in {NoSave} \cup Saves /\ saving[t].next <= Len(saving[t].entries) + 1
    BY DEF StoreInv, StoreTypes
  <2>2. CASE saving[t] \in Saves
    <3>1. saving[t].page \in Pages /\ saving[t].next \in Nat /\ saving[t].entries \in Seq(Entries)
      BY <2>2 DEF Saves
    <3> QED
      BY <2>1, <3>1
  <2> QED
    BY <2>1, <2>2
<1> QED
  BY <1>1, <1>2, <1>3 DEF StoreTypeOK, StoreInv, StoreTypes, Loads

\* Every state of the parameter store (parseMisc.cpp:216-231, saveloadmap.cpp)
\* is well typed: what is read from a file that is being written is a parameter.
THEOREM StoreTypeCorrect == StoreSpec => []StoreTypeOK
BY StoreInvInit, StoreInvNext, StoreInvImplies, PTL DEF StoreSpec

\* When no form of a page is being saved, its file holds what the forms so far
\* amount to (saveMap and loadMap of saveloadmap.cpp), for any threads, pages,
\* names and values, and any kills.
THEOREM ParamsAreStored == StoreSpec => []StoredParams
BY StoreInvInit, StoreInvNext, StoreInvImplies, PTL DEF StoreSpec
=============================================================================
