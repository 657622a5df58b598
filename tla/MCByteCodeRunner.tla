-------------------------- MODULE MCByteCodeRunner --------------------------
(* Calls at each limit of the runner. *)
EXTENDS ByteCodeRunner, SequencesExt

Cmd(n)  == [op |-> "cmd", t |-> n]
Ttl(n)  == [op |-> "ttl", t |-> n]
Wt(n)   == [op |-> "wait", t |-> n]

\* Waits on both sides of the limits of ttl, wait and output_wait.
MCCodes ==
  SeqOf({Cmd(50), Wt(50), Ttl(1000), Ttl(1001), Ttl(2100), Wt(1999), Wt(2000), Wt(5000),
         Wt(5100), Wt(5101), Wt(12000)}, 3)

\* A wait that leads far, and one with much time for the clients.
OverrunCodes == {<<Wt(12000), Wt(2000)>>}

\* A wait of twice what one look at the clock may write.
BehindCodes == {<<Wt(26000)>>, <<Wt(26000), Wt(4000)>>}
=============================================================================
