------------------------------ MODULE MCSnfSystem -----------------------------
(***************************************************************************)
(* The SN-F path for TLC.  Two lines; both transfer shapes (a full line, a *)
(* single high-half beat); a read that collides with a write's line and    *)
(* one that does not; requests the agent refuses (a size, an opcode).      *)
(***************************************************************************)
EXTENDS SnfFaults

FullWrite   == [op |-> "write", line |-> 0, half |-> 0, size |-> 64]
ShortWrite  == [op |-> "write", line |-> 0, half |-> 1, size |-> 32]
LineRead    == [op |-> "read",  line |-> 0, half |-> 0, size |-> 64]
ShortRead   == [op |-> "read",  line |-> 1, half |-> 0, size |-> 16]
OddRead     == [op |-> "read",  line |-> 1, half |-> 0, size |-> 48]
OtherOpcode == [op |-> "other", line |-> 0, half |-> 0, size |-> 64]

\* Three requests that get into each other's way.  gem5 sends them in any
\* order, so one assignment of each to the transactions is enough.
Scenarios ==
    {<<FullWrite, FullWrite, FullWrite>>,       \* more writes than slots
     <<FullWrite, FullWrite, ShortRead>>,
     <<FullWrite, LineRead, ShortRead>>,        \* a dependent read
     <<ShortRead, LineRead, LineRead>>,         \* more reads than read ids
     <<ShortWrite, LineRead, OddRead>>,
     <<OtherOpcode, ShortWrite, ShortWrite>>}

AllRequests == UNION {{s[i] : i \in DOMAIN s} : s \in Scenarios}
WriteRequests == {FullWrite}

ScenarioInit == FInit /\ \E s \in Scenarios : req = [t \in Txns |-> s[t]]

ScenarioSpec == ScenarioInit /\ [][FNext]_<<vars, sound>> /\ Fairness
===============================================================================
