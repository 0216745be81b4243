----------------------------- MODULE DcapLog_proofs ---------------------------
(***************************************************************************)
(* Theorems about DcapLog, for any number of threads, calls and levels.    *)
(***************************************************************************)
EXTENDS DcapLog, FiniteSetTheorems, TLAPS

\* A thread is not the absence of one.
LogAssumption == None \notin Thread

Lines == [text : (Thread \X Nat) \cup {None}, tag : Level \cup {"DEBUG", None}, time : Nat, milli : Nat]

TypeInv ==
    /\ pc \in [Thread -> {"idle", "lock", "format", "copy", "stamp", "local", "print", "unlock"}]
    /\ said \in [Thread -> Nat]
    /\ tag \in [Thread -> Level \cup {"DEBUG", None}]
    /\ log_str \in [Thread -> (Thread \X Nat) \cup {None}]
    /\ milli_sec \in [Thread -> Nat]
    /\ log_buf \in (Thread \X Nat) \cup {None}
    /\ tm \in Nat
    /\ clock \in Nat
    /\ out \in Seq(Lines)

\* Threads that have taken the mutex and not given it back.
Inside == {"format", "copy", "stamp", "local", "print", "unlock"}

Excluded == \A t \in Thread : pc[t] \in Inside => owner = t

\* No two threads are between the lock and the unlock.
Exclusion == \A t, u \in Thread : pc[t] \in Inside /\ pc[u] \in Inside => t = u

\* The buffer and the copy of a line hold the text of the call they belong to.
TextKept ==
    \A t \in Thread :
        /\ pc[t] = "copy" => log_buf = Text(t)
        /\ pc[t] \in {"stamp", "local", "print"} => log_str[t] = Text(t)

\* A stamp is not older than any printed before, nor newer than the clock.
StampKept ==
    \A t \in Thread :
        pc[t] \in {"local", "print"} =>
            milli_sec[t] <= clock /\ \A i \in DOMAIN out : out[i].milli <= milli_sec[t]

\* The broken-down time that is about to be printed is the line's own.
TimeKept == \A t \in Thread : pc[t] = "print" => tm = milli_sec[t]

Past == \A i \in DOMAIN out : out[i].milli <= clock

\* Every line printed is some call's and has its own time.
LinesWhole == \A i \in DOMAIN out : out[i].text \in Thread \X Nat /\ out[i].time = out[i].milli

\* Steps before the line of a call is printed.
Before == {"lock", "format", "copy", "stamp", "local", "print"}

\* Lines printed are of calls made, and not of the call that is yet to print.
PrintedSaid ==
    \A t \in Thread, i \in DOMAIN out :
        out[i].text[1] = t =>
            out[i].text[2] <= said[t] /\ (pc[t] \in Before => out[i].text[2] < said[t])

\* The lines of a caller come in the order of its calls, none twice.
CallsInOrder ==
    \A i, j \in DOMAIN out :
        i < j /\ out[i].text[1] = out[j].text[1] => out[i].text[2] < out[j].text[2]

IInv ==
    /\ TypeInv /\ Excluded /\ TextKept /\ StampKept /\ TimeKept /\ Past /\ LinesWhole
    /\ PrintedSaid /\ CallsInOrder /\ StampsInOrder

-----------------------------------------------------------------------------

LEMMA InitInv == ASSUME LogInit PROVE IInv
  BY DEF LogInit, IInv, TypeInv, Excluded, TextKept, StampKept, TimeKept, Past, LinesWhole, PrintedSaid,
         CallsInOrder, StampsInOrder, Inside

\* A step of a thread within a call.  Only PrintLine adds to what was printed:
\* it does so with the mutex, which the stamp was read with as well.
LEMMA StepInv ==
    ASSUME LogAssumption, IInv, NEW t \in Thread, Step(t)
    PROVE  IInv'
<1> USE DEF IInv, Goto, After, Inside, local, logVars
<1>0. /\ TypeInv /\ Excluded /\ TextKept /\ StampKept /\ TimeKept /\ Past /\ LinesWhole
      /\ PrintedSaid /\ CallsInOrder /\ StampsInOrder
  OBVIOUS
<1>1. CASE Lock(t)
  <2>1. TypeInv' BY <1>0, <1>1 DEF Lock, TypeInv
  <2>2. Excluded' BY <1>0, <1>1 DEF Lock, TypeInv, Excluded, LogAssumption
  <2>3. TextKept' BY <1>0, <1>1 DEF Lock, TypeInv, TextKept, Text
  <2>4. StampKept' /\ TimeKept' /\ Past' /\ LinesWhole' /\ StampsInOrder'
    BY <1>0, <1>1 DEF Lock, TypeInv, StampKept, TimeKept, Past, LinesWhole, StampsInOrder
  <2>5. PrintedSaid' /\ CallsInOrder' BY <1>0, <1>1 DEF Lock, TypeInv, PrintedSaid, CallsInOrder, Before
  <2>6. QED BY <2>1, <2>2, <2>3, <2>4, <2>5
<1>2. CASE Format(t)
  <2>1. TypeInv' BY <1>0, <1>2 DEF Format, TypeInv, Text
  <2>2. Excluded' BY <1>0, <1>2 DEF Format, TypeInv, Excluded
  <2>3. TextKept' BY <1>0, <1>2 DEF Format, TypeInv, Excluded, TextKept, Text
  <2>4. StampKept' /\ TimeKept' /\ Past' /\ LinesWhole' /\ StampsInOrder'
    BY <1>0, <1>2 DEF Format, TypeInv, StampKept, TimeKept, Past, LinesWhole, StampsInOrder
  <2>5. PrintedSaid' /\ CallsInOrder' BY <1>0, <1>2 DEF Format, TypeInv, PrintedSaid, CallsInOrder, Before
  <2>6. QED BY <2>1, <2>2, <2>3, <2>4, <2>5
<1>3. CASE Copy(t)
  <2>1. TypeInv' BY <1>0, <1>3 DEF Copy, TypeInv
  <2>2. Excluded' BY <1>0, <1>3 DEF Copy, TypeInv, Excluded
  <2>3. TextKept' BY <1>0, <1>3 DEF Copy, TypeInv, TextKept, Text
  <2>4. StampKept' /\ TimeKept' /\ Past' /\ LinesWhole' /\ StampsInOrder'
    BY <1>0, <1>3 DEF Copy, TypeInv, StampKept, TimeKept, Past, LinesWhole, StampsInOrder
  <2>5. PrintedSaid' /\ CallsInOrder' BY <1>0, <1>3 DEF Copy, TypeInv, PrintedSaid, CallsInOrder, Before
  <2>6. QED BY <2>1, <2>2, <2>3, <2>4, <2>5
<1>4. CASE Stamp(t)
  <2>1. TypeInv' BY <1>0, <1>4 DEF Stamp, TypeInv
  <2>2. Excluded' BY <1>0, <1>4 DEF Stamp, TypeInv, Excluded
  <2>3. TextKept' BY <1>0, <1>4 DEF Stamp, TypeInv, TextKept, Text
  <2>4. StampKept' BY <1>0, <1>4 DEF Stamp, TypeInv, StampKept, Past
  <2>5. TimeKept' /\ Past' /\ LinesWhole' /\ StampsInOrder'
    BY <1>0, <1>4 DEF Stamp, TypeInv, TimeKept, Past, LinesWhole, StampsInOrder
  <2>6. PrintedSaid' /\ CallsInOrder' BY <1>0, <1>4 DEF Stamp, TypeInv, PrintedSaid, CallsInOrder, Before
  <2>7. QED BY <2>1, <2>2, <2>3, <2>4, <2>5, <2>6
<1>5. CASE LocalTime(t)
  <2>1. TypeInv' BY <1>0, <1>5 DEF LocalTime, TypeInv
  <2>2. Excluded' BY <1>0, <1>5 DEF LocalTime, TypeInv, Excluded
  <2>3. TextKept' BY <1>0, <1>5 DEF LocalTime, TypeInv, TextKept, Text
  <2>4. TimeKept' BY <1>0, <1>5 DEF LocalTime, TypeInv, Excluded, TimeKept
  <2>5. StampKept' /\ Past' /\ LinesWhole' /\ StampsInOrder'
    BY <1>0, <1>5 DEF LocalTime, TypeInv, StampKept, Past, LinesWhole, StampsInOrder
  <2>6. PrintedSaid' /\ CallsInOrder' BY <1>0, <1>5 DEF LocalTime, TypeInv, PrintedSaid, CallsInOrder, Before
  <2>7. QED BY <2>1, <2>2, <2>3, <2>4, <2>5, <2>6
<1>6. CASE PrintLine(t)
  <2> DEFINE line == [text |-> log_str[t], tag |-> tag[t], time |-> tm, milli |-> milli_sec[t]]
  <2>1. /\ pc[t] = "print" /\ pc' = [pc EXCEPT ![t] = "unlock"]
        /\ out' = Append(out, line)
        /\ UNCHANGED <<said, tag, log_str, milli_sec, owner, log_buf, tm, clock>>
    BY <1>6 DEF PrintLine
  <2>2. /\ line.text = <<t, said[t]>> /\ said[t] \in Nat /\ line.text \in Thread \X Nat
        /\ line.milli = milli_sec[t] /\ line.time = milli_sec[t]
    <3>1. log_str[t] = <<t, said[t]>> BY <1>0, <2>1 DEF TextKept, Text
    <3>2. said[t] \in Nat BY <1>0 DEF TypeInv
    <3>3. tm = milli_sec[t] BY <1>0, <2>1 DEF TimeKept
    <3>4. <<t, said[t]>> \in Thread \X Nat BY <3>2
    <3>5. line.text = log_str[t] /\ line.milli = milli_sec[t] /\ line.time = tm OBVIOUS
    <3> HIDE DEF line
    <3>6. QED BY <3>1, <3>2, <3>3, <3>4, <3>5
  <2>3. line \in Lines BY <1>0 DEF TypeInv, Lines
  <2>4. milli_sec[t] \in Nat /\ milli_sec[t] <= clock
        /\ \A i \in DOMAIN out : out[i].milli <= milli_sec[t]
    BY <1>0, <2>1 DEF TypeInv, StampKept
  <2>5. /\ out \in Seq(Lines) /\ Len(out) \in Nat /\ Len(out') = Len(out) + 1
        /\ DOMAIN out = 1 .. Len(out) /\ DOMAIN out' = 1 .. Len(out) + 1
        /\ \A i \in DOMAIN out : out'[i] = out[i]
        /\ out'[Len(out) + 1] = line
    BY <1>0, <2>1, <2>3 DEF TypeInv
  <2> HIDE DEF line
  <2>6. TypeInv' BY <1>0, <2>1, <2>3 DEF TypeInv
  <2>7. Excluded' BY <1>0, <2>1 DEF TypeInv, Excluded
  <2>8. TextKept' BY <1>0, <2>1 DEF TypeInv, TextKept, Text
  <2>9. StampKept'
    \* Nobody else is about to print: the mutex is t's.
    <3>1. \A u \in Thread : pc'[u] \notin {"local", "print"}
      BY <1>0, <2>1 DEF TypeInv, Excluded
    <3>2. QED BY <3>1 DEF StampKept
  <2>10. TimeKept' BY <1>0, <2>1 DEF TypeInv, TimeKept
  <2>11. Past' BY <1>0, <2>1, <2>2, <2>4, <2>5 DEF Past
  <2>12. LinesWhole' BY <1>0, <2>2, <2>5 DEF LinesWhole
  <2>13. PrintedSaid'
    <3>1. \A u \in Thread : pc'[u] \in Before => u # t /\ pc[u] \in Before
      BY <1>0, <2>1 DEF TypeInv, Before
    <3>2. QED BY <1>0, <2>1, <2>2, <2>5, <3>1 DEF PrintedSaid
  <2>14. CallsInOrder'
    <3>1. \A i \in DOMAIN out : out[i].text[1] = t => out[i].text[2] < said[t]
      BY <1>0, <2>1 DEF PrintedSaid, Before
    <3>2. QED BY <1>0, <2>2, <2>5, <3>1 DEF CallsInOrder
  <2>15. StampsInOrder'
    <3> SUFFICES ASSUME NEW i \in 1 .. Len(out) PROVE out'[i].milli <= out'[i + 1].milli
      BY <2>5 DEF StampsInOrder
    <3>1. CASE i = Len(out) BY <2>2, <2>4, <2>5, <3>1
    <3>2. CASE i # Len(out)
      <4>1. Len(out) \in Nat /\ DOMAIN out = 1 .. Len(out) BY <2>5
      <4> DEFINE n == Len(out)
      <4>2. i \in Nat /\ 1 <= i /\ i < n
        <5>1. n \in Nat /\ i \in 1 .. n /\ i # n BY <3>2, <4>1
        <5> HIDE DEF n
        <5>2. QED BY <5>1
      <4>3. i \in 1 .. Len(out) - 1 /\ i \in 1 .. Len(out) /\ i + 1 \in 1 .. Len(out) BY <4>1, <4>2
      <4>4. out'[i] = out[i] /\ out'[i + 1] = out[i + 1] BY <2>5, <4>1, <4>3
      <4>5. out[i].milli <= out[i + 1].milli BY <1>0, <4>3 DEF StampsInOrder
      <4>6. QED BY <4>4, <4>5
    <3>3. QED BY <3>1, <3>2
  <2>16. QED BY <2>6, <2>7, <2>8, <2>9, <2>10, <2>11, <2>12, <2>13, <2>14, <2>15
<1>7. CASE Unlock(t)
  <2>1. TypeInv' BY <1>0, <1>7 DEF Unlock, TypeInv
  <2>2. Excluded' BY <1>0, <1>7 DEF Unlock, TypeInv, Excluded
  <2>3. TextKept' BY <1>0, <1>7 DEF Unlock, TypeInv, TextKept, Text
  <2>4. StampKept' /\ TimeKept' /\ Past' /\ LinesWhole' /\ StampsInOrder'
    BY <1>0, <1>7 DEF Unlock, TypeInv, StampKept, TimeKept, Past, LinesWhole, StampsInOrder
  <2>5. PrintedSaid' /\ CallsInOrder' BY <1>0, <1>7 DEF Unlock, TypeInv, PrintedSaid, CallsInOrder, Before
  <2>6. QED BY <2>1, <2>2, <2>3, <2>4, <2>5
<1>8. QED BY <1>1, <1>2, <1>3, <1>4, <1>5, <1>6, <1>7 DEF Step

\* A call begins: its number is new, and it may be that it has nothing to print.
LEMMA BeginInv ==
    ASSUME IInv, NEW t \in Thread, NEW level \in Level \cup {"DEBUG"}, Call(t, level) \/ Debug(t)
    PROVE  IInv'
<1>0. /\ TypeInv /\ Excluded /\ TextKept /\ StampKept /\ TimeKept /\ Past /\ LinesWhole
      /\ PrintedSaid /\ CallsInOrder /\ StampsInOrder
  BY DEF IInv
<1>1. /\ pc[t] = "idle" /\ said' = [said EXCEPT ![t] = @ + 1]
      /\ pc' = [pc EXCEPT ![t] = "lock"] \/ pc' = pc
      /\ tag' = [tag EXCEPT ![t] = level] \/ tag' = [tag EXCEPT ![t] = "DEBUG"] \/ tag' = tag
      /\ UNCHANGED <<log_str, milli_sec, owner, log_buf, tm, clock, out>>
  BY DEF Call, Debug, After
<1>2. TypeInv'
  <2>1. pc' \in [Thread -> {"idle", "lock", "format", "copy", "stamp", "local", "print", "unlock"}]
    BY <1>0, <1>1 DEF TypeInv
  <2>2. said' \in [Thread -> Nat] BY <1>0, <1>1 DEF TypeInv
  <2>3. tag' \in [Thread -> Level \cup {"DEBUG", None}] BY <1>0, <1>1 DEF TypeInv
  <2>4. QED BY <1>0, <1>1, <2>1, <2>2, <2>3 DEF TypeInv
<1>3. Excluded' BY <1>0, <1>1 DEF TypeInv, Excluded, Inside
<1>4. TextKept' BY <1>0, <1>1 DEF TypeInv, TextKept, Text
<1>5. StampKept' /\ TimeKept' /\ Past' /\ LinesWhole' /\ CallsInOrder' /\ StampsInOrder'
  BY <1>0, <1>1 DEF TypeInv, StampKept, TimeKept, Past, LinesWhole, CallsInOrder, StampsInOrder
<1>6. PrintedSaid'
  <2>1. \A i \in DOMAIN out : out[i].text[2] \in Nat
    BY <1>0 DEF LinesWhole
  <2>2. \A u \in Thread : said[u] \in Nat BY <1>0 DEF TypeInv
  <2>3. QED BY <1>0, <1>1, <2>1, <2>2 DEF TypeInv, PrintedSaid, Before
<1>7. QED BY <1>2, <1>3, <1>4, <1>5, <1>6 DEF IInv

LEMMA NextInv == ASSUME LogAssumption, IInv, [LogNext]_logVars PROVE IInv'
<1>1. ASSUME NEW t \in Thread, Step(t) PROVE IInv'
  BY <1>1, StepInv
<1>2. ASSUME NEW t \in Thread, NEW level \in Level, Call(t, level) PROVE IInv'
  BY <1>2, BeginInv
<1>3. ASSUME NEW t \in Thread, Debug(t) PROVE IInv'
  BY <1>3, BeginInv
<1>4. ASSUME NEW flag \in BOOLEAN, set_debug(flag) PROVE IInv'
  BY <1>4 DEF set_debug, local, IInv, TypeInv, Excluded, TextKept, Text, StampKept, TimeKept, Past, LinesWhole,
              PrintedSaid, CallsInOrder, StampsInOrder
<1>5. CASE Tick
  <2>1. /\ clock \in Nat /\ clock' = clock + 1
        /\ UNCHANGED <<pc, said, tag, log_str, milli_sec, owner, log_buf, tm, out>>
    BY <1>5 DEF Tick, local, IInv, TypeInv
  <2>2. \A n \in Nat : n <= clock => n <= clock'
    BY <2>1
  <2>3. (\A t \in Thread : milli_sec[t] \in Nat) /\ \A i \in DOMAIN out : out[i].milli \in Nat
    <3>1. \A t \in Thread : milli_sec[t] \in Nat BY DEF IInv, TypeInv
    <3>2. \A i \in DOMAIN out : out[i] \in Lines BY DEF IInv, TypeInv
    <3>3. \A i \in DOMAIN out : out[i].milli \in Nat BY <3>2 DEF Lines
    <3>4. QED BY <3>1, <3>3
  <2>4. TypeInv' /\ Excluded' /\ TextKept' /\ TimeKept' /\ LinesWhole' /\ PrintedSaid' /\ CallsInOrder'
        /\ StampsInOrder'
    BY <2>1 DEF IInv, TypeInv, Excluded, TextKept, Text, TimeKept, LinesWhole, PrintedSaid, CallsInOrder,
                StampsInOrder
  <2>5. StampKept' /\ Past'
    BY <2>1, <2>2, <2>3 DEF IInv, StampKept, Past
  <2>6. QED BY <2>4, <2>5 DEF IInv
<1>6. CASE UNCHANGED logVars
  BY <1>6 DEF logVars, local, IInv, TypeInv, Excluded, TextKept, Text, StampKept, TimeKept, Past, LinesWhole,
              PrintedSaid, CallsInOrder, StampsInOrder
<1>7. QED BY <1>1, <1>2, <1>3, <1>4, <1>5, <1>6 DEF LogNext

-----------------------------------------------------------------------------

\* The invariant follows a line through its call: who holds the mutex, whose text
\* the buffer and whose time the shared tm have (Log.cpp 48-138).
THEOREM InductiveInv == ASSUME LogAssumption PROVE LogSpec => []IInv
<1>1. LogInit => IInv BY InitInv
<1>2. IInv /\ [LogNext]_logVars => IInv' BY NextInv
<1>3. QED BY <1>1, <1>2, PTL DEF LogSpec

\* The times of the lines never go back, for any number of threads: the clock is
\* read with the mutex held (Log.cpp 124).
THEOREM AlwaysStampsInOrder == ASSUME LogAssumption PROVE LogSpec => []StampsInOrder
<1>1. IInv => StampsInOrder BY DEF IInv
<1>2. QED BY <1>1, InductiveInv, PTL

\* No two threads are between the lock and the unlock at once (Log.cpp 50-57).
THEOREM AlwaysExclusive == ASSUME LogAssumption PROVE LogSpec => []Exclusion
<1>1. IInv => Exclusion BY DEF IInv, Excluded, Exclusion
<1>2. QED BY <1>1, InductiveInv, PTL

\* Every line has the text of one call and that line's own time, and the lines of
\* a caller come in the order of its calls, none twice (Log.cpp 48-138).
THEOREM AlwaysWhole == ASSUME LogAssumption PROVE LogSpec => [](LinesWhole /\ CallsInOrder)
<1>1. IInv => LinesWhole /\ CallsInOrder BY DEF IInv
<1>2. QED BY <1>1, InductiveInv, PTL

-----------------------------------------------------------------------------
(* What is printed is what is owed *)

OwedLines == [text : Thread \X Nat, tag : Level \cup {"DEBUG"}]

\* The line of the call at hand.
LineAt(t) == [text |-> Text(t), tag |-> tag[t]]

\* The k-th line that a thread printed is the k-th that it owes.
RankKept ==
    \A t \in Thread, i \in DOMAIN out :
        out[i].text[1] = t =>
            /\ Cardinality(PrintedBy(t, i)) \in 1 .. Len(owed[t])
            /\ owed[t][Cardinality(PrintedBy(t, i))] = LineOf(out[i])

\* A thread owes what it printed and, in a call that is yet to print, that line.
CountKept ==
    \A t \in Thread :
        LET printed == Cardinality(PrintedBy(t, Len(out)))
        IN  /\ pc[t] \in {"idle", "unlock"} => Len(owed[t]) = printed
            /\ pc[t] \in Before => Len(owed[t]) = printed + 1 /\ owed[t][printed + 1] = LineAt(t)

OwedInv == owed \in [Thread -> Seq(OwedLines)] /\ RankKept /\ CountKept

LEMMA InitOwed == ASSUME LogInit PROVE OwedInv
<1>1. owed = [t \in Thread |-> <<>>] /\ out = <<>> /\ pc = [t \in Thread |-> "idle"]
  BY DEF LogInit
<1>2. \A t \in Thread : Cardinality(PrintedBy(t, Len(out))) = 0
  <2>1. \A t \in Thread : PrintedBy(t, Len(out)) = {}
    BY <1>1 DEF PrintedBy
  <2>2. QED
    BY <2>1, FS_EmptySet
<1>3. QED
  BY <1>1, <1>2 DEF OwedInv, RankKept, CountKept, Before

\* A line more adds its own position to those of its thread, and to no other's.
LEMMA PrintedOneMore ==
    ASSUME TypeInv, NEW line \in Lines, out' = Append(out, line), NEW u \in Thread
    PROVE  /\ \A i \in 0 .. Len(out) : PrintedBy(u, i)' = PrintedBy(u, i)
           /\ Cardinality(PrintedBy(u, Len(out))) \in Nat
           /\ Cardinality(PrintedBy(u, Len(out))')
                = Cardinality(PrintedBy(u, Len(out))) + (IF line.text[1] = u THEN 1 ELSE 0)
<1> DEFINE n == Len(out)
<1>1. /\ n \in Nat /\ Len(out') = n + 1 /\ out'[n + 1] = line /\ \A i \in 1 .. n : out'[i] = out[i]
  BY DEF TypeInv
<1>2. \A i \in 0 .. n : {j \in 1 .. i : out'[j].text[1] = u} = {j \in 1 .. i : out[j].text[1] = u}
  <2> HIDE DEF n
  <2>1. QED
    BY <1>1
<1>3. \A i \in 0 .. n : PrintedBy(u, i)' = PrintedBy(u, i)
  BY <1>2 DEF PrintedBy
<1> DEFINE old == {j \in 1 .. n : out[j].text[1] = u}
           new == {j \in 1 .. n + 1 : out'[j].text[1] = u}
<1>4. IsFiniteSet(old) /\ n + 1 \notin old
  <2> HIDE DEF n
  <2>1. IsFiniteSet(1 .. n)
    BY <1>1, FS_Interval
  <2>2. old \subseteq 1 .. n /\ n + 1 \notin 1 .. n
    BY <1>1
  <2>3. QED
    BY <2>1, <2>2, FS_Subset
<1>5. new = IF line.text[1] = u THEN old \cup {n + 1} ELSE old
  <2> HIDE DEF n
  <2>1. QED
    BY <1>1
<1>6. Cardinality(old) \in Nat
  BY <1>4, FS_CardinalityType
<1>7. Cardinality(old \cup {n + 1}) = Cardinality(old) + 1
  BY <1>4, FS_AddElement
<1>8. PrintedBy(u, Len(out)) = old /\ PrintedBy(u, Len(out))' = new
  BY <1>1 DEF PrintedBy
<1> HIDE DEF old, new
<1>9. QED
  BY <1>3, <1>5, <1>6, <1>7, <1>8

\* A call of a thread that owes nothing owes its line.
LEMMA OwedOneMore ==
    ASSUME TypeInv, OwedInv, NEW t \in Thread, NEW level \in Level \cup {"DEBUG"}, pc[t] = "idle",
           said' = [said EXCEPT ![t] = @ + 1], pc' = [pc EXCEPT ![t] = "lock"],
           tag' = [tag EXCEPT ![t] = level], Owe(t, level), UNCHANGED out
    PROVE  OwedInv'
<1> DEFINE line == [text |-> <<t, said'[t]>>, tag |-> level]
           printed(u) == Cardinality(PrintedBy(u, Len(out)))
<1>1. line \in OwedLines /\ line = LineAt(t)' /\ said'[t] \in Nat
  BY DEF TypeInv, OwedLines, LineAt, Text
<1>2. owed' = [owed EXCEPT ![t] = Append(@, line)]
  BY DEF Owe
<1> HIDE DEF line
<1>3. /\ owed[t] \in Seq(OwedLines) /\ Append(owed[t], line) \in Seq(OwedLines)
      /\ Len(owed[t]) \in Nat /\ Len(Append(owed[t], line)) = Len(owed[t]) + 1
      /\ Append(owed[t], line)[Len(owed[t]) + 1] = line
      /\ \A i \in 1 .. Len(owed[t]) : Append(owed[t], line)[i] = owed[t][i]
  BY <1>1 DEF OwedInv
<1>4. owed' \in [Thread -> Seq(OwedLines)] /\ owed'[t] = Append(owed[t], line)
      /\ \A u \in Thread \ {t} : owed'[u] = owed[u]
  BY <1>2, <1>3 DEF OwedInv
<1>5. \A u \in Thread, i \in Nat : PrintedBy(u, i)' = PrintedBy(u, i)
  BY DEF PrintedBy
<1>6. Len(owed[t]) = printed(t)
  BY DEF OwedInv, CountKept
<1>7. RankKept'
  <2> SUFFICES ASSUME NEW u \in Thread, NEW i \in DOMAIN out, out[i].text[1] = u
               PROVE  /\ Cardinality(PrintedBy(u, i)') \in 1 .. Len(owed'[u])
                      /\ owed'[u][Cardinality(PrintedBy(u, i)')] = LineOf(out[i])
    BY DEF RankKept, LineOf
  <2>1. PrintedBy(u, i)' = PrintedBy(u, i)
    BY DEF PrintedBy
  <2>2. /\ Cardinality(PrintedBy(u, i)) \in 1 .. Len(owed[u])
        /\ owed[u][Cardinality(PrintedBy(u, i))] = LineOf(out[i])
    BY DEF OwedInv, RankKept
  <2>3. CASE u = t
    BY <1>3, <1>4, <2>1, <2>2, <2>3
  <2>4. CASE u # t
    BY <1>4, <2>1, <2>2, <2>4
  <2>5. QED
    BY <2>3, <2>4
<1>8. CountKept'
  <2> SUFFICES ASSUME NEW u \in Thread
               PROVE  /\ pc'[u] \in {"idle", "unlock"} => Len(owed'[u]) = printed(u)
                      /\ pc'[u] \in Before =>
                            Len(owed'[u]) = printed(u) + 1 /\ owed'[u][printed(u) + 1] = LineAt(u)'
    <3>1. \A u \in Thread : printed(u)' = printed(u)
      BY DEF PrintedBy
    <3> HIDE DEF printed
    <3>2. QED
      BY <3>1 DEF CountKept, printed
  <2>1. CASE u = t
    <3>1. pc'[t] = "lock"
      BY DEF TypeInv
    <3>2. Len(owed'[t]) = printed(t) + 1 /\ owed'[t][printed(t) + 1] = line
      BY <1>3, <1>4, <1>6
    <3>3. QED
      BY <1>1, <2>1, <3>1, <3>2
  <2>2. CASE u # t
    <3>1. owed'[u] = owed[u] /\ pc'[u] = pc[u] /\ LineAt(u)' = LineAt(u)
      BY <1>4, <2>2 DEF TypeInv, LineAt, Text
    <3>2. /\ pc[u] \in {"idle", "unlock"} => Len(owed[u]) = printed(u)
          /\ pc[u] \in Before => Len(owed[u]) = printed(u) + 1 /\ owed[u][printed(u) + 1] = LineAt(u)
      BY DEF OwedInv, CountKept
    <3>3. QED
      BY <3>1, <3>2
  <2>3. QED
    BY <2>1, <2>2
<1>9. QED
  BY <1>4, <1>7, <1>8 DEF OwedInv

\* Nothing is printed or owed, and no thread passes its print.
LEMMA OwedUntouched ==
    ASSUME OwedInv, UNCHANGED <<out, owed>>,
           \A u \in Thread :
              \/ pc[u] \in {"idle", "unlock"} /\ pc'[u] \in {"idle", "unlock"}
              \/ pc[u] \in Before /\ pc'[u] \in Before /\ said'[u] = said[u] /\ tag'[u] = tag[u]
    PROVE  OwedInv'
<1>1. \A u \in Thread, i \in Nat : PrintedBy(u, i)' = PrintedBy(u, i)
  BY DEF PrintedBy
<1>2. owed' \in [Thread -> Seq(OwedLines)]
  BY DEF OwedInv
<1>3. RankKept'
  BY DEF OwedInv, RankKept, LineOf, PrintedBy
<1>4. CountKept'
  <2> DEFINE printed(u) == Cardinality(PrintedBy(u, Len(out)))
  <2>1. \A u \in Thread : printed(u)' = printed(u)
    BY DEF PrintedBy
  <2>2. \A u \in Thread : pc[u] \in Before => LineAt(u)' = LineAt(u)
    BY DEF LineAt, Text, Before
  <2>3. \A u \in Thread : /\ pc[u] \in {"idle", "unlock"} => Len(owed[u]) = printed(u)
                          /\ pc[u] \in Before => Len(owed[u]) = printed(u) + 1 /\ owed[u][printed(u) + 1] = LineAt(u)
    BY DEF OwedInv, CountKept
  <2>4. Before \cap {"idle", "unlock"} = {}
    BY DEF Before
  <2> HIDE DEF printed
  <2>5. \A u \in Thread : /\ pc'[u] \in {"idle", "unlock"} => Len(owed'[u]) = printed(u)'
                          /\ pc'[u] \in Before =>
                                Len(owed'[u]) = printed(u)' + 1 /\ owed'[u][printed(u)' + 1] = LineAt(u)'
    BY <2>1, <2>2, <2>3, <2>4
  <2>6. QED
    BY <2>5 DEF CountKept, printed
<1>5. QED
  BY <1>2, <1>3, <1>4 DEF OwedInv

\* The line that a thread prints is the one it owes: its copy has the text of the
\* call at hand.
LEMMA OwedPrinted ==
    ASSUME IInv, OwedInv, NEW t \in Thread, PrintLine(t)
    PROVE  OwedInv'
<1> DEFINE line == [text |-> log_str[t], tag |-> tag[t], time |-> tm, milli |-> milli_sec[t]]
           n == Len(out)
           printed(u) == Cardinality(PrintedBy(u, Len(out)))
<1>0. TypeInv /\ TextKept /\ RankKept /\ CountKept
  BY DEF IInv, OwedInv
<1>1. /\ pc[t] = "print" /\ pc' = [pc EXCEPT ![t] = "unlock"] /\ out' = Append(out, line)
      /\ UNCHANGED <<said, tag, owed>>
  BY DEF PrintLine, Goto, After, local
<1>2. line.text = <<t, said[t]>> /\ line.text[1] = t /\ LineOf(line) = LineAt(t)
  <2>1. log_str[t] = <<t, said[t]>>
    BY <1>0, <1>1 DEF TextKept, Text
  <2>2. QED
    BY <2>1 DEF LineOf, LineAt, Text
<1>3. line \in Lines
  BY <1>0 DEF TypeInv, Lines
<1>4. /\ n \in Nat /\ DOMAIN out = 1 .. n /\ DOMAIN out' = 1 .. n + 1 /\ Len(out') = n + 1
      /\ out'[n + 1] = line /\ \A i \in 1 .. n : out'[i] = out[i]
  BY <1>0, <1>1, <1>3 DEF TypeInv
<1>5. \A u \in Thread :
         /\ \A i \in 0 .. n : PrintedBy(u, i)' = PrintedBy(u, i)
         /\ printed(u) \in Nat
         /\ printed(u)' = printed(u) + (IF u = t THEN 1 ELSE 0)
  <2> SUFFICES ASSUME NEW u \in Thread
               PROVE  /\ \A i \in 0 .. n : PrintedBy(u, i)' = PrintedBy(u, i)
                      /\ printed(u) \in Nat
                      /\ printed(u)' = printed(u) + (IF u = t THEN 1 ELSE 0)
    OBVIOUS
  <2> HIDE DEF line
  <2>1. QED
    BY <1>0, <1>1, <1>2, <1>3, PrintedOneMore
<1>6. Len(owed[t]) = printed(t) + 1 /\ owed[t][printed(t) + 1] = LineAt(t)
  BY <1>0, <1>1 DEF CountKept, Before
<1> HIDE DEF line
<1>7. RankKept'
  <2> SUFFICES ASSUME NEW u \in Thread, NEW i \in 1 .. n + 1, out'[i].text[1] = u
               PROVE  /\ Cardinality(PrintedBy(u, i)') \in 1 .. Len(owed[u])
                      /\ owed[u][Cardinality(PrintedBy(u, i)')] = LineOf(out'[i])
    BY <1>1, <1>4 DEF RankKept, LineOf
  <2>1. CASE i \in 1 .. n
    <3>1. out'[i] = out[i] /\ PrintedBy(u, i)' = PrintedBy(u, i)
      BY <1>4, <1>5, <2>1
    <3>2. QED
      BY <1>0, <1>4, <2>1, <3>1 DEF RankKept
  <2>2. CASE i = n + 1
    <3>1. u = t /\ out'[i] = line
      BY <1>2, <1>4, <2>2
    <3>2. Cardinality(PrintedBy(t, i)') = printed(t) + 1
      <4>1. PrintedBy(t, i)' = PrintedBy(t, Len(out))'
        BY <1>4, <2>2 DEF PrintedBy
      <4>2. QED
        BY <1>5, <4>1
    <3>3. QED
      BY <1>2, <1>5, <1>6, <3>1, <3>2
  <2>3. QED
    BY <1>4, <2>1, <2>2
<1>8. CountKept'
  <2>1. \A u \in Thread : LineAt(u)' = LineAt(u)
    BY <1>1 DEF LineAt, Text
  <2>2. pc'[t] = "unlock" /\ \A u \in Thread \ {t} : pc'[u] = pc[u]
    BY <1>0, <1>1 DEF TypeInv
  <2>3. \A u \in Thread : /\ pc[u] \in {"idle", "unlock"} => Len(owed[u]) = printed(u)
                          /\ pc[u] \in Before => Len(owed[u]) = printed(u) + 1 /\ owed[u][printed(u) + 1] = LineAt(u)
    BY <1>0 DEF CountKept
  <2> HIDE DEF printed
  <2>4. \A u \in Thread : /\ pc'[u] \in {"idle", "unlock"} => Len(owed'[u]) = printed(u)'
                          /\ pc'[u] \in Before =>
                                Len(owed'[u]) = printed(u)' + 1 /\ owed'[u][printed(u)' + 1] = LineAt(u)'
    <3> SUFFICES ASSUME NEW u \in Thread
                 PROVE  /\ pc'[u] \in {"idle", "unlock"} => Len(owed'[u]) = printed(u)'
                        /\ pc'[u] \in Before =>
                              Len(owed'[u]) = printed(u)' + 1 /\ owed'[u][printed(u)' + 1] = LineAt(u)'
      OBVIOUS
    <3>1. CASE u = t
      BY <1>1, <1>5, <1>6, <2>2, <3>1 DEF Before
    <3>2. CASE u # t
      BY <1>1, <1>5, <2>1, <2>2, <2>3, <3>2
    <3>3. QED
      BY <3>1, <3>2
  <2>5. QED
    BY <2>4 DEF CountKept, printed
<1>9. QED
  BY <1>1, <1>7, <1>8 DEF OwedInv

LEMMA NextOwed == ASSUME IInv, OwedInv, [LogNext]_logVars PROVE OwedInv'
<1>0. TypeInv /\ \A u \in Thread : pc[u] \in {"idle", "unlock"} \/ pc[u] \in Before
  BY DEF IInv, TypeInv, Before
<1>1. ASSUME NEW t \in Thread, Step(t) PROVE OwedInv'
  <2>1. CASE PrintLine(t)
    BY <2>1, OwedPrinted
  <2>2. CASE Lock(t) \/ Format(t) \/ Copy(t) \/ Stamp(t) \/ LocalTime(t)
    <3>1. /\ UNCHANGED <<out, owed, said, tag>> /\ pc[t] \in Before /\ pc'[t] \in Before
          /\ \A u \in Thread \ {t} : pc'[u] = pc[u]
      BY <1>0, <2>2 DEF Lock, Format, Copy, Stamp, LocalTime, Goto, After, local, Before, TypeInv
    <3>2. QED
      BY <1>0, <3>1, OwedUntouched
  <2>3. CASE Unlock(t)
    <3>1. /\ UNCHANGED <<out, owed, said, tag>> /\ pc[t] = "unlock" /\ pc'[t] = "idle"
          /\ \A u \in Thread \ {t} : pc'[u] = pc[u]
      BY <1>0, <2>3 DEF Unlock, Goto, After, local, TypeInv
    <3>2. QED
      BY <1>0, <3>1, OwedUntouched
  <2>4. QED
    BY <1>1, <2>1, <2>2, <2>3 DEF Step
<1>2. ASSUME NEW t \in Thread, NEW level \in Level, Call(t, level) PROVE OwedInv'
  BY <1>0, <1>2, OwedOneMore DEF Call, After
<1>3. ASSUME NEW t \in Thread, Debug(t) PROVE OwedInv'
  <2>1. CASE debug_flag
    BY <1>0, <1>3, <2>1, OwedOneMore DEF Debug, After
  <2>2. CASE ~debug_flag
    <3>1. UNCHANGED <<out, owed, pc, tag>> /\ pc[t] = "idle" /\ \A u \in Thread \ {t} : said'[u] = said[u]
      BY <1>0, <1>3, <2>2 DEF Debug, TypeInv
    <3>2. QED
      BY <1>0, <3>1, OwedUntouched
  <2>3. QED
    BY <2>1, <2>2
<1>4. ASSUME NEW flag \in BOOLEAN, set_debug(flag) PROVE OwedInv'
  BY <1>0, <1>4, OwedUntouched DEF set_debug, local
<1>5. CASE Tick
  BY <1>0, <1>5, OwedUntouched DEF Tick, local
<1>6. CASE UNCHANGED logVars
  BY <1>0, <1>6, OwedUntouched DEF logVars, local
<1>7. QED
  BY <1>1, <1>2, <1>3, <1>4, <1>5, <1>6 DEF LogNext

\* Lines come out whole, each caller's in the order of its calls, none twice and
\* none missing once it has returned, and their times never go back, for any number
\* of threads and calls (Log.cpp 48-113, 120-138).
THEOREM AlwaysIntact == ASSUME LogAssumption PROVE LogSpec => []LinesIntact
<1>1. LogInit => OwedInv
  BY InitOwed
<1>2. IInv /\ OwedInv /\ [LogNext]_logVars => OwedInv'
  BY NextOwed
<1>3. IInv /\ OwedInv => LinesIntact
  <2> SUFFICES ASSUME IInv, OwedInv PROVE LinesIntact
    OBVIOUS
  <2>1. \A i \in DOMAIN out : out[i].time = out[i].milli
    BY DEF IInv, LinesWhole
  <2>2. \A t \in Thread : pc[t] = "idle" => Cardinality(PrintedBy(t, Len(out))) = Len(owed[t])
    BY DEF OwedInv, CountKept
  <2>3. \A t \in Thread : \A i \in PrintedBy(t, Len(out)) : i \in DOMAIN out /\ out[i].text[1] = t
    BY DEF PrintedBy, IInv, TypeInv
  <2>4. \A t \in Thread : Len(owed[t]) \in Nat
    BY DEF OwedInv
  <2>5. \A t \in Thread : \A i \in PrintedBy(t, Len(out)) :
           /\ Cardinality(PrintedBy(t, i)) <= Len(owed[t])
           /\ LineOf(out[i]) = owed[t][Cardinality(PrintedBy(t, i))]
    BY <2>3, <2>4 DEF OwedInv, RankKept
  <2>6. StampsInOrder
    BY DEF IInv
  <2>7. QED
    BY <2>1, <2>2, <2>5, <2>6 DEF LinesIntact
<1>4. QED
  BY <1>1, <1>2, <1>3, InductiveInv, PTL DEF LogSpec
=============================================================================
