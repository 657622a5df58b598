--------------------------- MODULE PulserService ----------------------------
(***************************************************************************)
(* What the request engine does, seen by its callers: commands are written *)
(* to the FPGA in the order they were asked for, a sequence that holds the *)
(* controller lock may write its own in between, and each command is       *)
(* completed once, with its own answer: those that return a result in the  *)
(* order they were written.  Batches, counters, locks and threads are the  *)
(* business of module Controller, which implements this one.               *)
(***************************************************************************)
EXTENDS Sequences

CONSTANTS Req,     \* requests
          HasRes,  \* [Req -> BOOLEAN]
          Zero     \* the answer to a request that returns nothing

VARIABLES asked,     \* requests not written yet, oldest first
          written,   \* written requests whose results are due, in order
          unanswered,\* written requests that return nothing, not completed yet
          done,      \* completed requests
          answer     \* [Req -> Req \cup {Zero}]: the answer to r is r

vars == <<asked, written, unanswered, done, answer>>

Known == {asked[j] : j \in DOMAIN asked} \cup {written[j] : j \in DOMAIN written}
           \cup unanswered \cup done

Init == /\ asked = <<>> /\ written = <<>> /\ unanswered = {} /\ done = {}
        /\ answer = [r \in Req |-> Zero]

\* reqSync
Ask(r) ==
  /\ r \notin Known
  /\ asked' = Append(asked, r)
  /\ UNCHANGED <<written, unanswered, done, answer>>

\* writeRequests
Write ==
  /\ asked # <<>>
  /\ asked' = Tail(asked)
  /\ IF HasRes[Head(asked)]
     THEN written' = Append(written, Head(asked)) /\ UNCHANGED unanswered
     ELSE unanswered' = unanswered \cup {Head(asked)} /\ UNCHANGED written
  /\ UNCHANGED <<done, answer>>

\* run: the caller writes its own request
WriteOwn(r) ==
  /\ r \notin Known /\ HasRes[r]
  /\ written' = Append(written, r)
  /\ UNCHANGED <<asked, unanswered, done, answer>>

\* setRes with a result, and without
Answer ==
  /\ written # <<>>
  /\ written' = Tail(written)
  /\ done' = done \cup {Head(written)}
  /\ answer' = [answer EXCEPT ![Head(written)] = Head(written)]
  /\ UNCHANGED <<asked, unanswered>>

Finish(r) ==
  /\ r \in unanswered
  /\ unanswered' = unanswered \ {r}
  /\ done' = done \cup {r}
  /\ UNCHANGED <<asked, written, answer>>

Next == \/ \E r \in Req : Ask(r) \/ WriteOwn(r) \/ Finish(r)
        \/ Write \/ Answer

Spec == Init /\ [][Next]_vars
FairSpec == /\ Spec /\ WF_vars(Write) /\ WF_vars(Answer)
            /\ \A r \in Req : WF_vars(Finish(r))
=============================================================================
