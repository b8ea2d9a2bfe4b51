---------------------------- MODULE SpeechStream ----------------------------
(***************************************************************************)
(* Audio as it is spoken.  A goroutine per stream reads the service's      *)
(* frames and sends chunks of audio to the caller over a buffered channel; *)
(* the providers built on the OpenAI-compatible client put two in a row,   *)
(* one for the events and one for the audio.  A successful stream ends with*)
(* a chunk that carries the usage, a failed one with an error; the caller  *)
(* drains the channel or cancels.                                          *)
(***************************************************************************)
EXTENDS Integers, Sequences, SequencesExt

CONSTANTS MaxAudio,  \* frames of audio in a stream
          Buffer     \* what a channel holds, 8 in the code
ASSUME SpeechAssumption == MaxAudio \in Nat /\ Buffer \in Nat \ {0}

VARIABLES speaker,   \* the provider
          spoken,    \* the frames the service sent, and those not read yet
          feed,      \* mediaStream's goroutine: where it is, what it holds, its channel of events
          voice,     \* StreamSpeech's goroutine: where it is, what it holds, how the read ended
          audio,     \* its channel of chunks
          heard,     \* what the caller took from it
          leave      \* has the caller canceled; has the provider's own time run out

speechVars == <<speaker, spoken, feed, voice, audio, heard, leave>>

Item(kind, n) == [kind |-> kind, n |-> n]
NoItem == Item("", 0)
TwoStages == {"openai", "featherless"}
Speakers == TwoStages \cup {"togetherai", "elevenlabs"}

\* How a stream of frames may end: with a done event, with or without usage; with [DONE]; with a
\* frame that does not parse, or parses to audio that does not decode (more may follow it); cut off;
\* or not at all.
Endings ==
    [s \in Speakers |->
        {<<Item("cut", 0)>>, <<Item("broken", 0)>>, <<Item("stall", 0)>>}
        \cup (IF s = "elevenlabs" THEN {}
              ELSE {<<Item("[DONE]", 0)>>, <<Item("unparsed", 0)>>, <<Item("garbled", 0), Item("stall", 0)>>,
                    <<Item("garbled", 0), Item("audio", 8), Item("audio", 9)>>})
        \cup (IF s \in TwoStages THEN {<<Item("done", n), Item("[DONE]", 0)>> : n \in {0, 1}} ELSE {})]

SpeechStarts(s, m, ending) ==
    /\ speaker = s
    /\ spoken = [sent |-> [i \in 1..m |-> Item("audio", i)] \o ending,
                 left |-> [i \in 1..m |-> Item("audio", i)] \o ending]
    /\ feed = [at |-> IF s \in TwoStages THEN "reading" ELSE "ended", item |-> NoItem, events |-> <<>>, off |-> FALSE]
    /\ voice = [at |-> IF s \in TwoStages THEN "waiting" ELSE "reading", item |-> NoItem, then |-> NoItem]
    /\ audio = <<>> /\ heard = <<>> /\ leave = [caller |-> FALSE, timeout |-> FALSE]

SpeechInit == \E s \in Speakers, m \in 0..MaxAudio : \E ending \in Endings[s] : SpeechStarts(s, m, ending)

Done == leave.caller \/ leave.timeout     \* the context of the stream

\* A read gives the next frame, if the service sent one; a canceled one may fail instead.
Readable(f, canceled) ==
    \/ canceled /\ f = Item("broken", 0)
    \/ spoken.left # <<>> /\ f = Head(spoken.left) /\ f.kind # "stall"
Frames == Range(spoken.left) \cup {Item("broken", 0)}
Rest(f) == IF spoken.left # <<>> /\ f = Head(spoken.left) THEN Tail(spoken.left) ELSE spoken.left
Read(f, canceled) == Readable(f, canceled) /\ spoken' = [spoken EXCEPT !.left = Rest(f)]

-----------------------------------------------------------------------------
(* mediaStream: the events of the OpenAI-compatible client. *)

FailsRead(f) == f.kind \in {"cut", "broken", "unparsed"}
\* A slip: the end of the body ends the stream as [DONE] does.
FeedReadLax ==
    \E f \in Frames :
        /\ feed.at = "reading" /\ Read(f, feed.off \/ Done)
        /\ feed' = IF f.kind \in {"[DONE]", "cut"} THEN [feed EXCEPT !.at = "ended"]
                   ELSE [feed EXCEPT !.at = "sending", !.item = IF FailsRead(f) THEN Item("error", 0) ELSE f]
        /\ UNCHANGED <<speaker, voice, audio, heard, leave>>

\* A body that ends before [DONE] is an interruption.
FeedRead ==
    \E f \in Frames :
        /\ feed.at = "reading" /\ Read(f, feed.off \/ Done)
        /\ feed' = IF f.kind = "[DONE]" THEN [feed EXCEPT !.at = "ended"]
                   ELSE [feed EXCEPT !.at = "sending", !.item = IF FailsRead(f) THEN Item("error", 0) ELSE f]
        /\ UNCHANGED <<speaker, voice, audio, heard, leave>>

FeedSend ==
    /\ feed.at = "sending"
    /\ \/ /\ Len(feed.events) < Buffer
          /\ feed' = [feed EXCEPT !.events = Append(@, feed.item), !.item = NoItem,
                                  !.at = IF feed.item.kind \in {"error", "done"} THEN "ended" ELSE "reading"]
       \/ /\ feed.off \/ Done
          /\ feed' = [feed EXCEPT !.at = "ended", !.item = NoItem]
    /\ UNCHANGED <<speaker, spoken, voice, audio, heard, leave>>

Feed == FeedRead \/ FeedSend

-----------------------------------------------------------------------------
(* StreamSpeech's goroutine. *)

\* A slip: the goroutine that reads the events is not told when this one ends.
EndVoiceOnly == voice' = [voice EXCEPT !.at = "ended", !.item = NoItem] /\ UNCHANGED feed
\* However it ends it closes the channel of chunks, and cancels the context of the events.
EndVoice == voice' = [voice EXCEPT !.at = "ended", !.item = NoItem] /\ feed' = [feed EXCEPT !.off = TRUE]
Holds(item) == voice' = [voice EXCEPT !.at = "sending", !.item = item]

\* SpeechStreamUsage, and what Featherless counts when the event has none.
UsageOf(event) == IF event.n = 1 THEN Item("usage", 1) ELSE IF speaker = "featherless" THEN Item("usage", 0) ELSE NoItem

TakeEvent ==
    /\ voice.at = "waiting" /\ feed.events # <<>>
    /\ LET event == Head(feed.events)
           taken == [feed EXCEPT !.events = Tail(@)]
           item == IF event.kind = "done" THEN UsageOf(event) ELSE IF event.kind = "garbled" THEN Item("error", 0) ELSE event
       IN IF item = NoItem
          THEN voice' = [voice EXCEPT !.at = "ended"] /\ feed' = [taken EXCEPT !.off = TRUE]
          ELSE Holds(item) /\ feed' = taken
    /\ UNCHANGED <<speaker, spoken, audio, heard, leave>>
EventsEnd ==
    /\ voice.at = "waiting" /\ feed.events = <<>> /\ feed.at = "ended" /\ EndVoice
    /\ UNCHANGED <<speaker, spoken, audio, heard, leave>>

\* Together AI reads frames until [DONE]; a context that ended is not told.
ReadFrame ==
    /\ speaker = "togetherai" /\ voice.at = "reading"
    /\ \E f \in Frames :
           /\ Read(f, Done)
           /\ IF f.kind = "[DONE]" THEN Holds(Item("usage", 0)) /\ UNCHANGED feed
              ELSE IF Done THEN EndVoice
              ELSE Holds(IF f.kind = "audio" THEN f ELSE Item("error", 0)) /\ UNCHANGED feed
    /\ UNCHANGED <<speaker, audio, heard, leave>>

Sends(chunks) == audio' = chunks
\* A slip: the error is dropped when the channel is full.
TerminalDropped == Sends(IF Len(audio) < Buffer THEN Append(audio, Item("error", 0)) ELSE audio) /\ EndVoice
\* terminal: the error of ElevenLabs never waits: the oldest chunk in the channel makes way for it.
Terminal == Sends(Append(IF Len(audio) < Buffer THEN audio ELSE Tail(audio), Item("error", 0))) /\ EndVoice

\* ElevenLabs reads bytes; the last may come together with the end of the body, or its failure.
ReadBytes ==
    /\ speaker = "elevenlabs" /\ voice.at = "reading"
    /\ \E f \in Frames :
        /\ Readable(f, Done)
        /\ \/ Done /\ Terminal /\ spoken' = [spoken EXCEPT !.left = Rest(f)]
           \/ /\ ~Done /\ f.kind = "audio" /\ UNCHANGED <<feed, audio>>
              /\ LET next == Tail(spoken.left)
                     together == next # <<>> /\ Head(next).kind \in {"cut", "broken"}
                 IN \/ Holds(f) /\ spoken' = [spoken EXCEPT !.left = next]
                    \/ /\ together
                       /\ voice' = [voice EXCEPT !.at = "sending", !.item = f, !.then = Head(next)]
                       /\ spoken' = [spoken EXCEPT !.left = Tail(next)]
           \/ /\ ~Done /\ f.kind = "cut" /\ UNCHANGED <<feed, audio>>
              /\ Holds(Item("usage", 1)) /\ spoken' = [spoken EXCEPT !.left = Rest(f)]
           \/ ~Done /\ f.kind = "broken" /\ Terminal /\ spoken' = [spoken EXCEPT !.left = Rest(f)]
    /\ UNCHANGED <<speaker, heard, leave>>
\* What came with the last bytes is looked at once they are sent.
AfterBytes ==
    /\ voice.at = "last"
    /\ IF voice.then.kind = "cut" THEN Holds(Item("usage", 1)) /\ UNCHANGED <<feed, audio>> ELSE Terminal
    /\ UNCHANGED <<speaker, spoken, heard, leave>>

\* The chunk is sent, or the context ends first: silently, but for the audio of ElevenLabs.
SendChunk ==
    /\ voice.at = "sending" /\ Len(audio) < Buffer /\ Sends(Append(audio, voice.item))
    /\ IF voice.item.kind # "audio" THEN EndVoice
       ELSE /\ UNCHANGED feed
            /\ voice' = [voice EXCEPT !.item = NoItem,
                                      !.at = IF speaker \in TwoStages THEN "waiting"
                                             ELSE IF voice.then # NoItem THEN "last" ELSE "reading"]
    /\ UNCHANGED <<speaker, spoken, heard, leave>>
GiveUpChunk ==
    /\ voice.at = "sending" /\ Done
    /\ IF speaker = "elevenlabs" /\ voice.item.kind = "audio" THEN Terminal ELSE EndVoice /\ UNCHANGED audio
    /\ UNCHANGED <<speaker, spoken, heard, leave>>

Voice == TakeEvent \/ EventsEnd \/ ReadFrame \/ ReadBytes \/ AfterBytes \/ SendChunk \/ GiveUpChunk

Hear ==
    /\ audio # <<>> /\ heard' = Append(heard, Head(audio)) /\ audio' = Tail(audio)
    /\ UNCHANGED <<speaker, spoken, feed, voice, leave>>
CancelSpeech ==
    /\ ~leave.caller /\ leave' = [leave EXCEPT !.caller = TRUE]
    /\ UNCHANGED <<speaker, spoken, feed, voice, audio, heard>>
\* Only ElevenLabs bounds a stream by its client's timeout.
TimeOut ==
    /\ speaker = "elevenlabs" /\ ~Done /\ leave' = [leave EXCEPT !.timeout = TRUE]
    /\ UNCHANGED <<speaker, spoken, feed, voice, audio, heard>>

SpeechNext == Feed \/ Voice \/ Hear \/ CancelSpeech \/ TimeOut

SpeechSpec == SpeechInit /\ [][SpeechNext]_speechVars

-----------------------------------------------------------------------------
(* Properties. *)

Given == heard \o audio
AudioOf(s) == SelectSeq(s, LAMBDA c : c.kind = "audio")
Sent == SelectSeq(spoken.sent, LAMBDA c : c.kind = "audio" /\ c.n <= MaxAudio)
Complete == Head(SelectSeq(spoken.sent, LAMBDA c : c.kind # "audio")).kind \in
                (IF speaker = "elevenlabs" THEN {"cut"} ELSE {"done", "[DONE]"})
\* What tells the usage: ElevenLabs and Together AI count, the others need a done event,
\* and only Featherless counts when that has no usage.
Accounted == speaker \in {"togetherai", "elevenlabs"} \/ Item("done", 1) \in Range(spoken.sent)
             \/ (speaker = "featherless" /\ Item("done", 0) \in Range(spoken.sent))

\* Audio reaches the caller in order; nothing follows the usage or the error; and audio is
\* missing from the middle only before an error.
AudioInOrder ==
    /\ \A i \in 1..Len(Given) - 1 : Given[i].kind = "audio"
    /\ \/ IsPrefix(AudioOf(Given), Sent)
       \/ /\ speaker = "elevenlabs" /\ Last(Given).kind = "error"
          /\ \A i \in 1..Len(AudioOf(Given)) - 1 : AudioOf(Given)[i].n < AudioOf(Given)[i + 1].n

\* A stream nobody canceled tells how it ended: all of the audio and the usage, where anything
\* accounts for it, or an error; a cut stream never passes for a short one.
EndIsTold ==
    voice.at = "ended" /\ ~Done =>
        IF Complete THEN Given = Sent \o (IF Accounted THEN <<Last(Given)>> ELSE <<>>)
                         /\ (Accounted => Given # <<>> /\ Last(Given).kind = "usage")
        ELSE Given # <<>> /\ Last(Given).kind = "error"

\* The time running out at ElevenLabs is told too, unless all of the audio has been.
TimeoutIsTold ==
    speaker = "elevenlabs" /\ voice.at = "ended" /\ leave.timeout =>
        \/ Given # <<>> /\ Last(Given).kind # "audio"
        \/ Complete /\ Given = Sent

\* Once the caller cancels, or the goroutine that speaks to it has ended, no goroutine waits for
\* anybody: the connection and both channels are released without the caller's help.
NobodyIsLeftWaiting ==
    /\ Done /\ voice.at # "ended" /\ voice.at # "waiting" => ENABLED Voice
    /\ Done \/ voice.at = "ended" => feed.at = "ended" \/ ENABLED Feed
    /\ feed.at = "ended" /\ voice.at = "waiting" => ENABLED Voice

\* Whoever reads a stream of speech hears it in order and is told how it ended; whoever
\* leaves it leaves no goroutine waiting.
SpeechEndsAsTold == AudioInOrder /\ EndIsTold /\ TimeoutIsTold /\ NobodyIsLeftWaiting
=============================================================================
