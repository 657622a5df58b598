---------------------------- MODULE MCTextProgram ----------------------------
(* Texts with lines at each limit of runWait, and texts with every command. *)
EXTENDS TextProgram, SequencesExt

B == INSTANCE Bitwise
ASSUME OrIsBitwiseOr ==
  \A x, y \in {0, 1, 2, 6, 255, 336, 25088, 26112, 65535, 65536, 131073, 262143, 786432,
               2 ^ 24, 2 ^ 25, 2 ^ 26 + 2 ^ 24, 2 ^ 28, 2 ^ 29 + 2 ^ 26, 2 ^ 30 - 1} :
    Or(x, y) = B!|(x, y)

Given(timed, time, cmd, arg, i, val) ==
  [form |-> "command", timed |-> timed, time |-> time, cmd |-> cmd, arg |-> arg,
   i |-> i, value |-> val >= 0, val |-> val, on |-> {0, 17}]
none == -1
Broken(form) == [form |-> form, cmd |-> {}]

\* A command that takes so many ticks.
Taking(timed, time, len) ==
  CASE len = 3  -> Given(timed, time, {"TTL"}, "number", 1, 1)
    [] len = 5  -> Given(timed, time, {"CLOCK_OUT"}, "number", 256, none)
    [] len = 45 -> Given(timed, time, {"dac"}, "number", 3, 65535)
    [] len = 50 -> Given(timed, time, {"freq"}, "number", 1, 7)
At(time, len)    == Taking("t", time, len)
After(time, len) == Taking("dt", time, len)

\* Absolute times that leave gaps of 0, 2, 3 and more ticks, or go back; waits
\* on both sides of the limits 50, 306, 1024, 16000 and 24000.
ShortLines ==
  {At(3, 3), At(5, 5), At(8, 45), At(60, 50), At(20000, 3)}
    \cup {After(t + 3, 3) : t \in {0, 49, 50, 306, 1023, 1024, 15999, 16000, 24001}}
    \cup {After(4, 5)}

\* Those of which three show whether an error adds up.
Carried == {At(3, 3), At(5, 5), At(8, 45), After(309, 3), After(16003, 3)}

\* Waits that serve nobody until their sum does, after one that ends with the
\* longest rest.
Unserved == <<After(24002, 3)>> \o [i \in 1 .. 13 |-> After(950, 50)]

\* Each command, with arguments and values at the limits of their fields.
Command(cmd, arg, i, val) == Given("dt", 50, cmd, arg, i, val)
Phases ==
  {Command({"phase", "shiftp"}, "number", 21, 65535), Command({"reset"}, "number", 21, 0),
   Command({"shiftp"}, "number", 21, 32769), Command({"shiftp"}, "number", 1, 1)}
Others ==
  {Command({"TTL"}, "number", 17, 2), Command({"TTL"}, "number", 1, 0),
   Command({"TTL"}, "all", 0, 1),
   Command({"freq"}, "number", 21, 65537), Command({"amp"}, "number", 21, 4095),
   Command({"CLOCK_OUT"}, "off", 0, none), Command({"CLOCK_OUT"}, "number", 1, none),
   Command({"dac"}, "number", 3, 65535), Command({"dac"}, "number", 0, 1)}
Errors ==
  {Broken("comment"), Broken("untimed"), Broken("cut"), Command({}, "number", 1, 1),
   Command({"TTL"}, "word", 0, 1), Command({"amp"}, "number", 22, 1),
   Command({"dac"}, "number", 4, 1), Command({"reset"}, "number", 1, none),
   Command({"CLOCK_OUT"}, "number", 257, none), Command({"CLOCK_OUT"}, "word", 0, none)}

\* The same, each with a wait that serves clients, once or again and again.
Slow(c) == [c EXCEPT !.time = 1100]
Long(c) == [c EXCEPT !.time = 24050]
SlowLines == {Slow(c) : c \in Phases \cup
  {Command({"amp"}, "number", 21, 4095), Command({"TTL"}, "number", 17, 2)}}
    \cup {Long(Command({"shiftp"}, "number", 21, 32769))}
MCCommands == {[k |-> k, i |-> 21, val |-> 300] : k \in Registers}

MCPrograms ==
  SeqOf(ShortLines, 2) \cup SeqOf(Carried, 3) \cup {Unserved}
    \cup SeqOf(Phases, 3) \cup SeqOf(Phases \cup Others, 2) \cup SeqOf(SlowLines, 2)
    \cup {<<c, e, d>> : c, d \in {Command({"TTL"}, "number", 17, 2)}, e \in Errors}
MCTexts == {Times(p) : p \in MCPrograms}

MCGarbage ==
  {[curr_ttl |-> on, dds_phases |-> [i \in Devices |-> p]] : on \in {{}, TTLs}, p \in {0, 65535}}
=============================================================================
