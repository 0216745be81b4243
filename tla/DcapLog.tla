------------------------------- MODULE DcapLog --------------------------------
(***************************************************************************)
(* The log of the DCAP service (sgx/src/log/Log.cpp): one instance, made by *)
(* main before any other thread, written by all of them.  A line is        *)
(* formatted into a buffer of the instance, copied from it, given the time *)
(* through the tm of localtime, which all threads share as well, and       *)
(* printed; a mutex covers all of that.                                    *)
(*                                                                         *)
(* The text of a line is known by the thread and the call it belongs to;   *)
(* it fits the buffer, as every text of the service does.                  *)
(***************************************************************************)
EXTENDS Integers, Sequences, FiniteSets

CONSTANTS
    Thread,
    None,
    Level,      \* the tags of info, warn and err
    MaxCalls,   \* bound: calls of a thread
    MaxClock    \* bound: the clock's last reading

VARIABLES
    pc,         \* next step of each thread
    said,       \* calls it has made
    tag,        \* tag of its call
    log_str,    \* its copy of the text
    milli_sec,  \* the time it read
    owner,      \* holder of log_mutex
    log_buf,
    tm,         \* of localtime
    debug_flag,
    clock,
    out,        \* lines printed
    owed        \* lines each thread is to print, in order

local == <<said, tag, log_str, milli_sec>>
logVars == <<pc, local, owner, log_buf, tm, debug_flag, clock, out, owed>>

LogInit ==
    /\ pc = [t \in Thread |-> "idle"]
    /\ said = [t \in Thread |-> 0]
    /\ tag = [t \in Thread |-> None]
    /\ log_str = [t \in Thread |-> None]
    /\ milli_sec = [t \in Thread |-> 0]
    /\ owner = None /\ log_buf = None /\ tm = 0
    /\ debug_flag = FALSE
    /\ clock = 0
    /\ out = <<>>
    /\ owed = [t \in Thread |-> <<>>]

Text(t) == <<t, said[t]>>

\* Mutated form: the time is read before the mutex is taken.
AfterStampFirst ==
    [called |-> "stamp", stamp |-> "lock", lock |-> "format", format |-> "copy",
     copy |-> "local", local |-> "print", print |-> "unlock", unlock |-> "idle"]

\* The steps of info, warn, err and debug, and of base_log in them.
After ==
    [called |-> "lock", lock |-> "format", format |-> "copy", copy |-> "stamp",
     stamp |-> "local", local |-> "print", print |-> "unlock", unlock |-> "idle"]

Goto(t, step) == pc[t] = step /\ pc' = [pc EXCEPT ![t] = After[step]]

Owe(t, level) == owed' = [owed EXCEPT ![t] = Append(@, [text |-> <<t, said'[t]>>, tag |-> level])]

\* info, warn and err.
Call(t, level) ==
    /\ pc[t] = "idle" /\ said[t] < MaxCalls
    /\ pc' = [pc EXCEPT ![t] = After["called"]]
    /\ said' = [said EXCEPT ![t] = @ + 1]
    /\ tag' = [tag EXCEPT ![t] = level]
    /\ Owe(t, level)
    /\ UNCHANGED <<log_str, milli_sec, owner, log_buf, tm, debug_flag, clock, out>>

\* debug: the flag, read under a mutex of its own, decides.
Debug(t) ==
    /\ pc[t] = "idle" /\ said[t] < MaxCalls
    /\ said' = [said EXCEPT ![t] = @ + 1]
    /\ IF debug_flag
       THEN /\ pc' = [pc EXCEPT ![t] = After["called"]]
            /\ tag' = [tag EXCEPT ![t] = "DEBUG"]
            /\ Owe(t, "DEBUG")
       ELSE UNCHANGED <<pc, tag, owed>>
    /\ UNCHANGED <<log_str, milli_sec, owner, log_buf, tm, debug_flag, clock, out>>

set_debug(flag) ==
    /\ debug_flag' = flag
    /\ UNCHANGED <<pc, local, owner, log_buf, tm, clock, out, owed>>

\* Mutated form: the mutex is not waited for.
LockAnyway(t) ==
    /\ Goto(t, "lock")
    /\ owner' = t
    /\ UNCHANGED <<local, log_buf, tm, debug_flag, clock, out, owed>>

Lock(t) ==
    /\ Goto(t, "lock")
    /\ owner = None
    /\ owner' = t
    /\ UNCHANGED <<local, log_buf, tm, debug_flag, clock, out, owed>>

Format(t) ==
    /\ Goto(t, "format")
    /\ log_buf' = Text(t)
    /\ UNCHANGED <<local, owner, tm, debug_flag, clock, out, owed>>

Copy(t) ==
    /\ Goto(t, "copy")
    /\ log_str' = [log_str EXCEPT ![t] = log_buf]
    /\ UNCHANGED <<said, tag, milli_sec, owner, log_buf, tm, debug_flag, clock, out, owed>>

\* gettimeofday
Stamp(t) ==
    /\ Goto(t, "stamp")
    /\ milli_sec' = [milli_sec EXCEPT ![t] = clock]
    /\ UNCHANGED <<said, tag, log_str, owner, log_buf, tm, debug_flag, clock, out, owed>>

LocalTime(t) ==
    /\ Goto(t, "local")
    /\ tm' = milli_sec[t]
    /\ UNCHANGED <<local, owner, log_buf, debug_flag, clock, out, owed>>

\* strftime and printf
PrintLine(t) ==
    /\ Goto(t, "print")
    /\ out' = Append(out, [text |-> log_str[t], tag |-> tag[t], time |-> tm, milli |-> milli_sec[t]])
    /\ UNCHANGED <<local, owner, log_buf, tm, debug_flag, clock, owed>>

\* Mutated form: the mutex is kept.
UnlockForgotten(t) ==
    /\ Goto(t, "unlock")
    /\ UNCHANGED <<local, owner, log_buf, tm, debug_flag, clock, out, owed>>

Unlock(t) ==
    /\ Goto(t, "unlock")
    /\ owner' = None
    /\ UNCHANGED <<local, log_buf, tm, debug_flag, clock, out, owed>>

\* The clock of gettimeofday is taken to go forward: nobody sets it back while the
\* service runs.
Tick ==
    /\ clock < MaxClock
    /\ clock' = clock + 1
    /\ UNCHANGED <<pc, local, owner, log_buf, tm, debug_flag, out, owed>>

Step(t) ==
    \/ Lock(t) \/ Format(t) \/ Copy(t) \/ Stamp(t) \/ LocalTime(t) \/ PrintLine(t) \/ Unlock(t)

LogNext ==
    \/ \E t \in Thread :
          Step(t) \/ Debug(t) \/ \E level \in Level : Call(t, level)
    \/ \E flag \in BOOLEAN : set_debug(flag)
    \/ Tick

\* A thread of the service goes on, and gets a mutex that is given back again
\* and again: the calls of a behaviour are finitely many.
Fairness == \A t \in Thread : WF_logVars(Step(t))

LogSpec == LogInit /\ [][LogNext]_logVars /\ Fairness

-----------------------------------------------------------------------------
(* Properties *)

LineOf(line) == [text |-> line.text, tag |-> line.tag]

\* Those of the first n lines that are t's.
PrintedBy(t, n) == {i \in 1 .. n : out[i].text[1] = t}

\* The times of the lines never go back, as the clock does not.
StampsInOrder == \A i \in 1 .. Len(out) - 1 : out[i].milli <= out[i + 1].milli

\* Lines come out whole however calls interleave: with their own text, tag and
\* time, each caller's lines in the order of its calls, none missing once it
\* has returned and none twice; and their times never go back unless the clock
\* does, since it is read with the mutex held (Log.cpp 48-113, 120-138).
LinesIntact ==
    /\ \A i \in DOMAIN out : out[i].time = out[i].milli
    /\ \A t \in Thread :
          LET printed == PrintedBy(t, Len(out))
          IN  /\ \A i \in printed :
                    LET rank == Cardinality(PrintedBy(t, i))
                    IN  rank <= Len(owed[t]) /\ LineOf(out[i]) = owed[t][rank]
              /\ pc[t] = "idle" => Cardinality(printed) = Len(owed[t])
    /\ StampsInOrder

\* Every call returns: nobody leaves with the mutex (Log.cpp 50-57).
CallsReturn == \A t \in Thread : pc[t] # "idle" ~> pc[t] = "idle"
=============================================================================
