--------------------------- MODULE MCServiceLibrary ---------------------------
(***************************************************************************)
(* The parts of the service's libraries that do not act on each other:     *)
(* reading and writing JSON, ordered objects, objects in memory, the log,  *)
(* requests of a connection, multipart forms, and texts of URLs.  A        *)
(* behaviour is one of one part; the others stay as they start.            *)
(***************************************************************************)
EXTENDS JsonOrderedObject, JsonObjectValues, DcapLog, HttpInput, HttpRequest

CONSTANTS t1, t2, var, label, datum

VARIABLES
    part,                                               \* the part that acts
    text, terminated, value, st, at, origin, expected,  \* JsonRoundTrip
    form, rest, blocks, parser, result                  \* MultipartParser

\* The log's callers, and the level they log with.
Threads == {t1, t2}
Levels == {"WARN"}

\* Objects in memory.
Variables == {var}
Labels == {label}
Numbers == {1}
Cells == 1 .. 4

\* Ordered objects: their values, and keys that need no escape.
Data == {datum}
Keys == 1 .. 3
Plain == [key \in Keys |-> key]

JsonSamples == INSTANCE JsonSamples WITH HashDigits <- 2
HttpSamples == INSTANCE HttpSamples

\* Requests, and what their handler answers with.
SampleScripts == HttpSamples!SampleScripts
SampleAnswer == <<10, 11, 12>>

Texts == INSTANCE JsonRoundTrip
            WITH HashDigits <- 2, Inputs <- JsonSamples!SampleInputs, Values <- JsonSamples!SampleValues,
                 Accounts <- JsonSamples!SampleAccounts
Form == INSTANCE MultipartParser
            WITH Forms <- HttpSamples!SampleForms, Headers <- HttpSamples!SampleHeaders,
                 Trailers <- HttpSamples!SampleTrailers, Boundary <- <<"b", "b">>, MaxBlock <- 5

-----------------------------------------------------------------------------
(* Inputs of the operators: ranges of small bodies, texts of bytes that are   *)
(* or resemble escapes, parameters, and paths                                 *)

Positions == {-1, 0, 1, 2, 5}
SampleRanges == {r \in SeqOf(Positions \X Positions, 2) : r # <<>>}
SampleTexts == SeqOf({0, 32, 37, 43, 50, 66, 200}, 3) \cup SeqOf({37, 117, 48, 56}, 4)
SampleParams ==
    {p \in SeqOf({<<key>> : key \in {97, 98}} \X SeqOf({32, 37, 38, 61, 97}, 2), 2) :
        Len(p) = 2 => p[1][1][1] <= p[2][1][1] /\ p[1] # p[2]}
SamplePaths == SeqOf({47, 46, 97}, 7)

SampleInput ==
    [kind : {"ranges"}, ranges : SampleRanges, size : 1 .. 3] \cup [kind : {"text"}, s : SampleTexts]
      \cup [kind : {"params"}, params : SampleParams] \cup [kind : {"path"}, path : SamplePaths]

-----------------------------------------------------------------------------

jsonVars == <<text, terminated, value, st, at, origin, expected>>
formVars == <<form, rest, blocks, parser, result>>

JsonIdle == text = <<>> /\ terminated = None /\ value = None /\ st = None /\ at = 0 /\ origin = None /\ expected = None
OrderedIdle == type = "FIOObject" /\ keys = [key \in {} |-> NullValue] /\ vals = [slot \in {} |-> NullValue]
HttpIdle ==
    /\ script = <<>> /\ end = None /\ bytes = <<>> /\ position = 1 /\ stage = None /\ count = KeepAliveMax
    /\ req = None /\ res = None /\ closed = FALSE /\ answers = <<>>
FormIdle == form = <<>> /\ rest = <<>> /\ blocks = 0 /\ parser = None /\ result = None

Init ==
    /\ part \in {"json", "ordered", "objects", "log", "http", "form", "operators"}
    /\ IF part = "json" THEN Texts!Init ELSE JsonIdle
    /\ IF part = "ordered" THEN OrderedInit ELSE OrderedIdle
    /\ ObjectsInit
    /\ LogInit
    /\ IF part = "http" THEN HttpInit ELSE HttpIdle
    /\ IF part = "form" THEN Form!Init ELSE FormIdle
    /\ IF part = "operators" THEN input \in SampleInput ELSE input = [kind |-> None]

JsonStep ==
    part = "json" /\ Texts!Next /\ UNCHANGED <<orderedVars, objectVars, logVars, httpVars, formVars>>
OrderedStep ==
    part = "ordered" /\ OrderedNext /\ UNCHANGED <<jsonVars, objectVars, logVars, httpVars, formVars>>
ObjectsStep ==
    part = "objects" /\ ObjectsNext /\ UNCHANGED <<jsonVars, orderedVars, logVars, httpVars, formVars>>
LogStep ==
    part = "log" /\ LogNext /\ UNCHANGED <<jsonVars, orderedVars, objectVars, httpVars, formVars>>
HttpStep ==
    part = "http" /\ HttpNext /\ UNCHANGED <<jsonVars, orderedVars, objectVars, logVars, formVars>>
FormStep ==
    part = "form" /\ Form!Next /\ UNCHANGED <<jsonVars, orderedVars, objectVars, logVars, httpVars>>

Next ==
    /\ JsonStep \/ OrderedStep \/ ObjectsStep \/ LogStep \/ HttpStep \/ FormStep
    /\ UNCHANGED <<part, input>>

\* Fair are the threads that log; the others' steps are never enabled.
Spec ==
    /\ Init
    /\ [][Next]_<<part, input, jsonVars, orderedVars, objectVars, logVars, httpVars, formVars>>
    /\ Fairness

-----------------------------------------------------------------------------
(* Properties of the parts: what each says is told in its module, as are       *)
(* RefinesInsertionOrder, CellsAreOwned, RefinesValues, LinesIntact and        *)
(* CallsReturn                                                                *)

\* Texts that somebody wrote for a value are read as that value: well-formed ones,
\* those of the writers, and the service's answers (Json.h 908-2012, App.cpp 94-103).
ReadAsMeant == part = "json" => Texts!ReadAsMeant

\* No error within a structure is lost on the way out, and what a closed text is
\* read as is decided within it, although nothing in the reader tests for the end
\* (Json.h 1391-1998).
ReaderStopsRight == part = "json" => Texts!SuccessIsBalanced /\ Texts!DecidedWithin

\* A form is read as it was written, however it comes in blocks (httplib.h 3604-3720).
FormReadsBack == part = "form" => Form!FormReadsBack
=============================================================================
