-------------------------------- MODULE Queue --------------------------------
(***************************************************************************)
(* What FIFO<T> promises: a first-in first-out queue with no limit.        *)
(***************************************************************************)
EXTENDS Integers, Sequences

CONSTANT Inputs      \* the arrays that are pushed
VARIABLES queue,     \* its elements, oldest first
          pushing,   \* the array of a push that has not ended, or <<>>
          popped     \* what the last pop returned

Init == queue = <<>> /\ pushing = <<>> /\ popped = <<>>

StartPush == pushing = <<>> /\ pushing' \in Inputs /\ UNCHANGED <<queue, popped>>

\* All of the array goes to the end ...
EndPush ==
  /\ pushing # <<>> /\ pushing' = <<>>
  /\ queue' = queue \o pushing /\ UNCHANGED popped

\* ... or the first elements of one, when the push may give up.
TryPush ==
  /\ pushing = <<>> /\ UNCHANGED <<pushing, popped>>
  /\ \E v \in Inputs : \E n \in 1 .. Len(v) : queue' = queue \o SubSeq(v, 1, n)

\* The oldest elements leave, in their order; none, when the pop may give up.
Pop ==
  \E n \in 0 .. Len(queue) :
    /\ popped' = SubSeq(queue, 1, n)
    /\ queue' = SubSeq(queue, n + 1, Len(queue))
    /\ UNCHANGED pushing

Next == StartPush \/ EndPush \/ TryPush \/ Pop

Spec == Init /\ [][Next]_<<queue, pushing, popped>>
=============================================================================
