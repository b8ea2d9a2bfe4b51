------------------------------ MODULE SseReader ------------------------------
(***************************************************************************)
(* SSEReader of internal/httpclient/sse.go: the events of a stream of      *)
(* bytes, each returned as soon as its last byte has come.                 *)
(*                                                                         *)
(* A line is ended by LF, CR or CRLF, and the two bytes of a CRLF may come *)
(* far apart.  Of the other bytes the first of a line is the name of its   *)
(* field: "d" (data), "e" (event) or "o" (a comment or another field).     *)
(***************************************************************************)
EXTENDS Integers, Sequences, FiniteSets, FiniteSetsExt, SequencesExt

CONSTANTS
    MaxEventSize,       \* maxSSEEventSize
    MaxText             \* bound: bytes that come

ASSUME ReaderAssumption == MaxEventSize \in Nat \ {0} /\ MaxText \in Nat

CR == "CR"
LF == "LF"
Bytes == {"d", "e", "o", CR, LF}

VARIABLES
    text,               \* the bytes that have come, all of them read
    input,              \* "open", "eof" or "broken"
    line,               \* the bytes of the unfinished line
    pendingLF,
    event, eventSize,   \* what Read has of the next event
    failed,             \* Read has returned an error
    events              \* what it has returned

readerVars == <<text, input, line, pendingLF, event, eventSize, failed, events>>

NoEvent == [name |-> <<>>, data |-> <<>>]

ReaderInit ==
    /\ text = <<>> /\ input = "open" /\ line = <<>> /\ pendingLF = FALSE
    /\ event = NoEvent /\ eventSize = 0 /\ failed = FALSE /\ events = <<>>

-----------------------------------------------------------------------------
(* Operations.                                                             *)

\* The field on line l.
WithField(l) ==
    CASE Head(l) = "d" -> [event EXCEPT !.data = Append(@, Tail(l))]
      [] Head(l) = "e" -> [event EXCEPT !.name = Tail(l)]
      [] OTHER -> event

\* A blank line ends an event.  One without data is no event, and what it said of
\* a name stays.
EndEvent ==
    /\ eventSize' = 0
    /\ IF event.data # <<>>
       THEN events' = Append(events, event) /\ event' = NoEvent
       ELSE UNCHANGED <<events, event>>
    /\ UNCHANGED failed

\* Read takes a line, the lines of an event being limited together.
EndLine ==
    /\ line' = <<>>
    /\ \/ /\ eventSize + Len(line) > MaxEventSize
          /\ failed' = TRUE
          /\ UNCHANGED <<event, eventSize, events>>
       \/ /\ eventSize + Len(line) <= MaxEventSize
          /\ line # <<>>
          /\ event' = WithField(line)
          /\ eventSize' = eventSize + Len(line)
          /\ UNCHANGED <<failed, events>>
       \/ /\ line = <<>>
          /\ EndEvent

\* A slip: the LF of a CRLF is taken for a line of its own.
ReadByteForgettingCR(b) ==
    /\ input = "open" /\ ~failed /\ Len(text) < MaxText
    /\ text' = Append(text, b)
    /\ pendingLF' = FALSE
    /\ \/ b \in {CR, LF} /\ EndLine
       \/ b \notin {CR, LF} /\ Len(line) < MaxEventSize /\ line' = Append(line, b)
          /\ UNCHANGED <<event, eventSize, failed, events>>
       \/ b \notin {CR, LF} /\ Len(line) >= MaxEventSize /\ failed' = TRUE
          /\ UNCHANGED <<line, event, eventSize, events>>
    /\ UNCHANGED input

\* A byte comes and readLine takes it.  A CR ends its line at once; an LF right
\* after it is dropped when it comes.
ReadByte(b) ==
    /\ input = "open" /\ ~failed /\ Len(text) < MaxText
    /\ text' = Append(text, b)
    /\ pendingLF' = (b = CR)
    /\ \/ b = LF /\ pendingLF /\ UNCHANGED <<line, event, eventSize, failed, events>>
       \/ b \in {CR, LF} /\ ~(b = LF /\ pendingLF) /\ EndLine
       \/ b \notin {CR, LF} /\ Len(line) < MaxEventSize /\ line' = Append(line, b)
          /\ UNCHANGED <<event, eventSize, failed, events>>
       \/ b \notin {CR, LF} /\ Len(line) >= MaxEventSize /\ failed' = TRUE
          /\ UNCHANGED <<line, event, eventSize, events>>
    /\ UNCHANGED input

\* At the end of the text an unfinished line, and an unfinished event, count.
EndOfText ==
    /\ input = "open" /\ ~failed
    /\ input' = "eof"
    /\ LET last == IF line = <<>> THEN event ELSE WithField(line) IN
       IF eventSize + Len(line) > MaxEventSize
       THEN failed' = TRUE /\ UNCHANGED events
       ELSE /\ events' = IF last.data = <<>> THEN events ELSE Append(events, last)
            /\ UNCHANGED failed
    /\ UNCHANGED <<text, line, pendingLF, event, eventSize>>

\* The connection breaks, or the reader is closed: an unfinished event is lost.
Break ==
    /\ input = "open" /\ ~failed
    /\ input' = "broken" /\ failed' = TRUE
    /\ UNCHANGED <<text, line, pendingLF, event, eventSize, events>>

ReaderNext == EndOfText \/ Break \/ \E b \in Bytes : ReadByte(b)

ReaderSpec == ReaderInit /\ [][ReaderNext]_readerVars

-----------------------------------------------------------------------------
(* What the events of a text are.                                          *)

LastOf(S) == Max(S \cup {0})

\* Where the lines of a text end, and what the line that ends at i is.
IsBreak(t, i) == t[i] \in {CR, LF}
LineEnds(t) == {i \in DOMAIN t : t[i] = CR \/ (t[i] = LF /\ (i > 1 => t[i - 1] # CR))}
LineAt(t, i) == SubSeq(t, 1 + LastOf({j \in 1..(i - 1) : IsBreak(t, j)}), i - 1)
Blanks(t) == {i \in LineEnds(t) : LineAt(t, i) = <<>>}
FieldLines(t, field, from, to) ==
    {i \in LineEnds(t) : from < i /\ i < to /\ LineAt(t, i) # <<>> /\ LineAt(t, i)[1] = field}

\* The blank lines after data, and the event that each of them ends.
EventEnds(t) ==
    {i \in Blanks(t) : FieldLines(t, "d", LastOf({j \in Blanks(t) : j < i}), i) # {}}
EventAt(t, i) ==
    LET start == LastOf({j \in EventEnds(t) : j < i})
        names == FieldLines(t, "e", start, i)
        data  == SetToSortSeq(FieldLines(t, "d", start, i), <)
    IN  [name |-> IF names = {} THEN <<>> ELSE Tail(LineAt(t, Max(names))),
         data |-> [k \in DOMAIN data |-> Tail(LineAt(t, data[k]))]]
EventsOf(t) ==
    LET ends == SetToSortSeq(EventEnds(t), <) IN [k \in DOMAIN ends |-> EventAt(t, ends[k])]

\* Where a line or the lines since a blank one become too long.
TooLong(t) ==
    {i \in DOMAIN t :
        IF IsBreak(t, i)
        THEN i \in LineEnds(t) /\ Cardinality({j \in 1..i : ~IsBreak(t, j)
                  /\ j > LastOf({k \in Blanks(t) : k < i})}) > MaxEventSize
        ELSE i - LastOf({j \in 1..i : IsBreak(t, j)}) > MaxEventSize}

\* At every moment Read has returned the events of what has come: none is late,
\* for want of a byte after it, none is early or split by a CRLF, however the
\* bytes come; and it fails exactly when what has come is too long.
EventsAreExact ==
    LET whole == IF input = "eof" THEN text \o <<CR, CR>> ELSE text
        read  == IF TooLong(whole) = {} THEN whole
                 ELSE SubSeq(whole, 1, Min(TooLong(whole)) - 1)
    IN  /\ events = EventsOf(read)
        /\ failed <=> input = "broken" \/ TooLong(whole) # {}
=============================================================================
