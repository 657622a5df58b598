---------------------------- MODULE MCController ----------------------------
(* Small instances of Controller: the calls web clients and sequences make. *)
EXTENDS ControllerProperties, TLC

CONSTANTS client, client2, sequence, a, b, c, d

Ask(rs)          == [op |-> "reqSync", reqs |-> rs]
Run(rs)          == [op |-> "run", reqs |-> rs]
Do(op)           == [op |-> op]
Serve(n, notify) == [op |-> "serve", max |-> n, notify |-> notify]

\* a, b and c return a result; d does not.
MCHasRes == [r \in Req |-> r # d]

\* parseSeqTxt next to a client that reads back what it sets: the sequence
\* serves requests while it waits, then runs one command with a result.
SequenceProgram ==
  (client   :> <<Ask(<<a>>)>>) @@
  (client2  :> <<Ask(<<d>>)>>) @@
  (sequence :> <<Do("lock"), Do("hold"), Serve(2, FALSE), Do("pulse"),
                 Do("finish"), Run(<<c>>), Do("unlock")>>)

\* A client that asks with a composite command and destroys the Controller in
\* the end, and a sequence that runs a composite command and serves requests
\* with notification.
CompositeProgram ==
  (client   :> <<Ask(<<a, d>>), Do("destroy")>>) @@
  (sequence :> <<Do("lock"), Run(<<b, c>>), Serve(1, TRUE), Do("unlock")>>)

\* Two clients, for what happens between the writer and the reader: the reader
\* comes for the result of one request while the writer writes the other.
ClientProgram == (client :> <<Ask(<<a>>)>>) @@ (client2 :> <<Ask(<<b>>)>>)

\* AD9914::init as parseSeqTxt calls it (parseTxtSeq.cpp:341): a command with a
\* result is run before CtrlLocker is taken, while a client's request is served.
UnlockedProgram ==
  (client   :> <<Ask(<<a>>)>>) @@
  (sequence :> <<Run(<<c>>), Do("lock"), Do("pulse"), Do("unlock")>>)
=============================================================================
