------------------------------ MODULE ParamStore ------------------------------
(***************************************************************************)
(* The parameters web pages keep on the server: setParams and getParams of *)
(* parseMisc.cpp over loadMap and saveMap of saveloadmap.cpp.  A page's    *)
(* file is read, changed and written by any number of threads with no      *)
(* lock.  A file is the list of its entries, {name} = {value}; each, which *)
(* are taken to be of one length: std::endl writes them one by one, each   *)
(* thread at its own place in the file.                                    *)
(***************************************************************************)
EXTENDS Integers, Sequences, FiniteSets

CONSTANTS
  Workers,    \* the threads that serve web pages
  Pages,      \* the pages that have parameters
  NameOrder,  \* their names, in the order of the map
  Values,     \* their values
  Split,      \* the values with a semicolon, where loadMap ends its line
  Empty       \* the empty value, or no entry at all

Names == {NameOrder[i] : i \in DOMAIN NameOrder}

ASSUME SplitAssumption == Split \subseteq Values /\ Empty \notin Values
\* No page and no parameter has the name that stands for none here.
ASSUME NamesAssumption ==
  NameOrder \in Seq(Names) /\ "none" \notin Names \cup Pages

\* A form has some of the elements, command and page among them.
Forms == UNION {[N -> Values \cup {Empty}] : N \in SUBSET Names}
NoSave == [page |-> "none", form |-> <<>>, entries |-> <<>>, next |-> 0]
Hole   == [name |-> "none", val |-> "none"]

VARIABLES
  file,    \* file[p]: the entries of the file of page p
  saving,  \* saving[t]: the setParams that thread t is in: its page and form,
           \* the entries it writes and the next one, 0 before it opens the file
  wanted,  \* history: what the forms for the page amount to, one after another
  lapped   \* history: setParams of the page that overlap are under way

storeVars == <<file, saving, wanted, lapped>>

StoreInit ==
  /\ file = [p \in Pages |-> <<>>] /\ saving = [t \in Workers |-> NoSave]
  /\ wanted = [p \in Pages |-> [m \in Names |-> Empty]]
  /\ lapped = [p \in Pages |-> FALSE]
-----------------------------------------------------------------------------
\* processLine: the name and the value are between their braces.  A value with
\* a semicolon is cut in two lines without a value, and the entry is lost.
KeptX(v) == v
Kept(v) == IF v \in Split THEN Empty ELSE v

\* loadMap: the last entry of a name counts.
Last(f, m) == {i \in DOMAIN f : f[i].name = m /\ \A j \in DOMAIN f :
                                   f[j].name = m => j <= i}
loadMap(f) ==
  [m \in Names |-> IF Last(f, m) = {} THEN Empty
                   ELSE Kept(f[CHOOSE i \in Last(f, m) : TRUE].val)]

\* parseParamsCGI: the elements of the form replace what was loaded.
parseParamsCGI(params, form) ==
  [m \in Names |-> IF m \in DOMAIN form THEN form[m] ELSE params[m]]

\* saveMap: the entries that are not empty, in the order of the map.
saveMap(params) ==
  LET full   == {i \in DOMAIN NameOrder : params[NameOrder[i]] # Empty}
      nth(k) == NameOrder[CHOOSE i \in full : Cardinality(full \cap 1 .. i) = k]
  IN [k \in 1 .. Cardinality(full) |-> [name |-> nth(k), val |-> params[nth(k)]]]

\* A write at place i of a file that another thread may have cut: what is
\* between its end and the place reads as nothing.
WriteTo(f, i, e) ==
  [j \in 1 .. (IF i > Len(f) THEN i ELSE Len(f)) |->
     IF j = i THEN e ELSE IF j <= Len(f) THEN f[j] ELSE Hole]

Savers(p) == {t \in Workers : saving[t].page = p}

\* The file is read at once: it is shorter than the buffer of the stream.
SetLoad(t, p, form) ==
  /\ saving[t] = NoSave
  /\ saving' = [saving EXCEPT ![t] =
       [page |-> p, form |-> form, next |-> 0,
        entries |-> saveMap(parseParamsCGI(loadMap(file[p]), form))]]
  /\ lapped' = [lapped EXCEPT ![p] = @ \/ Savers(p) # {}]
  /\ UNCHANGED <<file, wanted>>

\* std::ofstream os(fname) empties the file.
OpenedX(f) == f
Opened(f)  == <<>>
SetOpen(t, p) ==
  /\ saving[t].page = p /\ saving[t].next = 0
  /\ file' = [file EXCEPT ![p] = Opened(@)]
  /\ saving' = [saving EXCEPT ![t].next = 1]
  /\ UNCHANGED <<wanted, lapped>>

SetEntry(t, p) ==
  LET s == saving[t] IN
  /\ s.page = p /\ s.next \in DOMAIN s.entries
  /\ file' = [file EXCEPT ![p] = WriteTo(@, s.next, s.entries[s.next])]
  /\ saving' = [saving EXCEPT ![t].next = @ + 1]
  /\ UNCHANGED <<wanted, lapped>>

SetClose(t, p) ==
  LET s == saving[t] IN
  /\ s.page = p /\ s.next = Len(s.entries) + 1
  /\ saving' = [saving EXCEPT ![t] = NoSave]
  /\ lapped' = [lapped EXCEPT ![p] = @ /\ Savers(p) # {t}]
  /\ wanted' = [wanted EXCEPT ![p] =
       IF lapped[p] THEN loadMap(file[p])
       ELSE [m \in Names |-> Kept(parseParamsCGI(wanted[p], s.form)[m])]]
  /\ UNCHANGED file

SetStep(t, p) == SetOpen(t, p) \/ SetEntry(t, p) \/ SetClose(t, p)

\* The process ends: what is in a file that was opened is all that is left.
KillSaves ==
  /\ saving' = [t \in Workers |-> NoSave]
  /\ wanted' = [p \in Pages |->
       IF lapped[p] \/ \E t \in Savers(p) : saving[t].next > 0
       THEN loadMap(file[p]) ELSE wanted[p]]
  /\ lapped' = [p \in Pages |-> FALSE]
  /\ UNCHANGED file

StoreNext ==
  \/ \E t \in Workers, p \in Pages :
       SetStep(t, p) \/ \E form \in Forms : SetLoad(t, p, form)
  \/ KillSaves
StoreSpec == StoreInit /\ [][StoreNext]_storeVars
-----------------------------------------------------------------------------
\* Every variable has its type.
StoreTypeOK ==
  /\ \A p \in Pages : \A i \in DOMAIN file[p] :
       file[p][i] \in [name : Names, val : Values] \cup {Hole}
  /\ \A t \in Workers :
       \/ saving[t] = NoSave
       \/ saving[t].page \in Pages /\ saving[t].next \in 0 .. Len(saving[t].entries) + 1
  /\ wanted \in [Pages -> [Names -> (Values \ Split) \cup {Empty}]]
  /\ lapped \in [Pages -> BOOLEAN]

\* When no form of a page is being saved its file says what the forms so far
\* amount to: the elements of the earlier ones are kept, an empty one is
\* deleted, and one with a semicolon is gone.  Forms saved at the same time, and
\* those a kill cuts off, may lose parameters; later ones do not.
StoredParams ==
  \A p \in Pages : Savers(p) = {} => loadMap(file[p]) = wanted[p]
=============================================================================
