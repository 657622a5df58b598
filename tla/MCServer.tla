------------------------------- MODULE MCServer -------------------------------
(* Small instances of Server. *)
EXTENDS Server

CONSTANTS w1, w2, d1, dds, plain, broken

MCBoardOrder == <<d1>>
\* The loop zeroes the magic word among others.
MCZeroList   == <<102>>
MCNameOrder  == <<"amp", "freq", "phase">>

Text(reps, forever, long) ==
  [kind |-> "runseq", reps |-> reps, forever |-> forever, long |-> long]
Set(form) == [kind |-> "setParams", page |-> dds, form |-> form]

\* Forms that add, delete and replace parameters, one with a semicolon.
MCJobs ==
  {Text(2, FALSE, TRUE), Text(1, TRUE, FALSE),
   [kind |-> "reset", board |-> d1],
   Set([amp |-> plain, freq |-> plain, phase |-> broken]), Set([freq |-> Empty])}

MCStartups == {Text(1, FALSE, FALSE)}

\* A request answered at once, one that ends after each part, and a sequence
\* with a part too many.
MCMessages ==
  {<<>>, <<"has_override">>, <<"run_seq", "bad">>,
   <<"run_seq", "version", "short", "more">>, <<"run_seq", "version", "code", "more">>}
=============================================================================
