--------------------------- MODULE ProviderStream ---------------------------
(***************************************************************************)
(* One streamed answer of a model provider: the request, with the three    *)
(* endpoints that OpenCode Go falls through, and the reader that turns the *)
(* bytes, however they are cut into chunks, into stream events.  The event *)
(* types and the end of a stream differ between the formats; a stream may  *)
(* be closed, fail, time out or be cancelled at any byte.                  *)
(***************************************************************************)
EXTENDS Naturals, Sequences

CONSTANTS MaxFrames  \* frames of a provider's answer

VARIABLES stream,    \* the request: its provider, endpoint and progress
          wire,      \* the frames that the provider writes
          received,  \* how many bytes of them have been read
          reader     \* what the reader holds and has yielded

vars == <<stream, wire, received, reader>>

-----------------------------------------------------------------------------
Providers == {"compatible", "anthropic", "responses", "google", "opencode"}

Formats == {"compatible", "anthropic", "responses", "google", "chat", "messages"}

\* The endpoints that are tried, by their formats.
Attempts(provider) == IF provider = "opencode" THEN <<"chat", "responses", "messages">> ELSE <<provider>>

Format == Attempts(stream.provider)[stream.attempt]

\* finish: a reason to stop, with the last usage; stop: the event that completes the
\* answer; done: "[DONE]"; junk: what does not parse, or says nothing.
Frames == {"text", "usage", "finish", "stop", "done", "error", "junk"}

\* A frame is four bytes: half its data, the rest, and the two newlines.
FrameBytes == 4

\* usage: the frame it came from.  at: the frame of a text.
Events == [type : {"message_start", "text_delta", "message_end", "error"}, at : 0..MaxFrames, usage : 0..MaxFrames]

Event(type, at, usage) == [type |-> type, at |-> at, usage |-> usage]

Reader == [taken : 0..MaxFrames, events : Seq(Events), usage : 0..MaxFrames,
           ended : BOOLEAN, sawText : BOOLEAN, returned : BOOLEAN]

TypeOK ==
  /\ stream \in [provider : Providers, attempt : 1..3, pc : {"connecting", "reading", "over"}, broken : BOOLEAN]
  /\ stream.attempt \in DOMAIN Attempts(stream.provider)
  /\ wire \in Seq(Frames) /\ Len(wire) <= MaxFrames
  /\ received \in 0..(FrameBytes * Len(wire))
  /\ reader \in Reader

Init ==
  /\ stream \in [provider : Providers, attempt : {1}, pc : {"connecting"}, broken : {FALSE}]
  /\ wire = <<>>
  /\ received = 0
  /\ reader = [taken |-> 0, events |-> <<Event("message_start", 0, 0)>>, usage |-> 0,
               ended |-> FALSE, sawText |-> FALSE, returned |-> FALSE]

-----------------------------------------------------------------------------
Yield(r, type, at) == [r EXCEPT !.events = Append(@, Event(type, at, IF type = "message_end" THEN r.usage ELSE 0))]

\* yield and return
Final(r, type) == [Yield(r, type, 0) EXCEPT !.returned = TRUE]

Over(r) == stream' = [stream EXCEPT !.pc = "over"] /\ reader' = r /\ UNCHANGED <<wire, received>>

-----------------------------------------------------------------------------
(* The request.                                                            *)

\* The address is refused, the fetch fails, times out or is cancelled.
ConnectFails ==
  /\ stream.pc = "connecting"
  /\ Over(Final(reader, "error"))

\* An answer that is no stream.  OpenCode Go tries the next endpoint when the status may
\* mean that the model has another.
Refused(unsupported) ==
  /\ stream.pc = "connecting"
  /\ IF unsupported /\ stream.attempt < Len(Attempts(stream.provider))
     THEN stream' = [stream EXCEPT !.attempt = @ + 1] /\ UNCHANGED <<wire, received, reader>>
     ELSE Over(Final(reader, "error"))

Connected(frames) ==
  /\ stream.pc = "connecting"
  /\ stream' = [stream EXCEPT !.pc = "reading"]
  /\ wire' = frames
  /\ UNCHANGED <<received, reader>>

-----------------------------------------------------------------------------
(* A frame, in each format.                                                *)

Text(r, i) == [Yield(r, "text_delta", i) EXCEPT !.sawText = TRUE]

Used(r, i) == [r EXCEPT !.usage = i]

Compatible(r, i) ==
  CASE wire[i] = "done"  -> Final(r, "message_end")
    [] wire[i] = "error" -> Final(r, "error")
    [] wire[i] = "text"  -> Text(r, i)
    [] wire[i] = "usage" -> Used(r, i)
    [] OTHER             -> r

\* Mutant of Anthropic: the reason to stop and the stop both end the message.
AnthropicEndsTwice(r, i) ==
  CASE wire[i] = "finish" -> [Yield(Used(r, i), "message_end", 0) EXCEPT !.ended = TRUE]
    [] wire[i] = "stop"   -> Final(r, "message_end")
    [] wire[i] = "error"  -> Final(r, "error")
    [] wire[i] = "text"   -> Text(r, i)
    [] wire[i] = "usage"  -> Used(r, i)
    [] OTHER              -> r

\* A reason to stop ends the message at once; the reader goes on to the stop.
Anthropic(r, i) ==
  CASE wire[i] = "finish" -> IF r.ended THEN Used(r, i)
                             ELSE [Yield(Used(r, i), "message_end", 0) EXCEPT !.ended = TRUE]
    [] wire[i] = "stop"   -> IF r.ended THEN [r EXCEPT !.returned = TRUE] ELSE Final(r, "message_end")
    [] wire[i] = "error"  -> Final(r, "error")
    [] wire[i] = "text"   -> Text(r, i)
    [] wire[i] = "usage"  -> Used(r, i)
    [] OTHER              -> r

\* Mutant of Closed: any text that was closed is complete.
ClosedComplete(r, format) ==
  IF r.sawText THEN Final(r, "message_end")
  ELSE IF ~r.ended THEN Final(r, "error")
  ELSE [r EXCEPT !.returned = TRUE]

\* What follows the last frame of a structured stream.
Closed(r, format) ==
  IF format = "google" /\ r.sawText THEN Final(r, "message_end")
  ELSE IF ~r.ended THEN Final(r, "error")
  ELSE [r EXCEPT !.returned = TRUE]

\* "[DONE]" ends only a chat stream; in the others it is the end of the frames.
Structured(r, i, format) ==
  CASE wire[i] = "done"  -> IF format = "chat" THEN Final(r, "message_end") ELSE Closed(r, format)
    [] wire[i] = "error" -> Final(r, "error")
    [] wire[i] = "text"  -> Text(r, i)
    [] wire[i] = "usage" /\ format # "responses" -> Used(r, i)
    [] wire[i] = "finish" /\ format = "messages" -> Used(r, i)
    [] wire[i] = "stop" /\ format = "responses" -> Final(Used(r, i), "message_end")
    [] wire[i] = "stop" /\ format = "messages" -> Final(r, "message_end")
    [] OTHER             -> r

Lines(format) == format \in {"compatible", "anthropic"}

Handle(r, i) ==
  [(CASE Format = "compatible" -> Compatible(r, i)
      [] Format = "anthropic"  -> Anthropic(r, i)
      [] OTHER                 -> Structured(r, i, Format)) EXCEPT !.taken = i]

-----------------------------------------------------------------------------
(* The bytes.                                                              *)

\* The frames of which enough has come: up to the newline, or to the blank line.
Complete(bytes, format) ==
  IF Lines(format) THEN (bytes + 1) \div FrameBytes ELSE bytes \div FrameBytes

Unhandled == reader.taken < Complete(received, Format)

\* A chunk, up to byte n.  The frames that it completes are handled before the next is read.
Read(n) ==
  /\ stream.pc = "reading" /\ ~Unhandled
  /\ received < n
  /\ received' = n
  /\ UNCHANGED <<stream, wire, reader>>

Take ==
  /\ stream.pc = "reading" /\ Unhandled
  /\ reader' = Handle(reader, reader.taken + 1)
  /\ stream' = IF reader'.returned THEN [stream EXCEPT !.pc = "over"] ELSE stream
  /\ UNCHANGED <<wire, received>>

\* Mutant of Rest: what is left in the buffer is thrown away.
RestDropped == reader

\* The connection is closed.  The structured reader takes what is left for a frame, which
\* parses if no byte of its data is missing; the line readers drop it.
Rest ==
  IF Lines(Format) \/ (received + 2) \div FrameBytes = reader.taken THEN reader
  ELSE Handle(reader, reader.taken + 1)

Close ==
  /\ stream.pc = "reading" /\ ~Unhandled
  /\ Over(IF Rest.returned THEN Rest ELSE IF Lines(Format) THEN Final(Rest, "error") ELSE Closed(Rest, Format))

\* A read fails, times out, or is cancelled.
ReadFails ==
  /\ stream.pc = "reading" /\ ~Unhandled
  /\ stream' = [stream EXCEPT !.pc = "over", !.broken = TRUE]
  /\ reader' = Final(reader, "error")
  /\ UNCHANGED <<wire, received>>

-----------------------------------------------------------------------------
Next ==
  \/ ConnectFails
  \/ \E unsupported \in BOOLEAN : Refused(unsupported)
  \/ \E n \in 0..MaxFrames : \E frames \in [1..n -> Frames] : Connected(frames)
  \/ \E n \in 1..(FrameBytes * Len(wire)) : Read(n)
  \/ Take \/ Close \/ ReadFails

Spec == Init /\ [][Next]_vars

-----------------------------------------------------------------------------
(* Properties.                                                             *)

\* The frames whose data has come in full.
Whole == {i \in DOMAIN wire : received >= FrameBytes * (i - 1) + 2}

Ending(format) ==
  CASE format = "compatible" -> {"done", "error"}
    [] format = "anthropic"  -> {"stop", "error"}
    [] format = "chat"       -> {"done", "error"}
    [] format = "google"     -> {"done", "error"}
    [] OTHER                 -> {"stop", "done", "error"}

\* Those up to the first that ends the stream.
Heard == {i \in Whole : \A j \in 1..(i - 1) : wire[j] \notin Ending(Format)}

Yielded(type) == {i \in DOMAIN reader.events : reader.events[i].type = type}

\* However the bytes were cut, the texts that are passed on are those of the provider, in
\* its order, each once: of all that came in full, but the last line when the connection is
\* closed or lost before its newline (providers/src/index.ts:564-596, 655-683).
TextsArePassedOn ==
  LET texts == Yielded("text_delta")
      at    == [i \in texts |-> reader.events[i].at]
  IN
  /\ \A i, j \in texts : i < j => at[i] < at[j]
  /\ \A i \in texts : wire[at[i]] = "text" /\ at[i] \in Heard
  /\ stream.pc = "over" =>
       \A i \in Heard : wire[i] = "text" =>
         \/ \E j \in texts : at[j] = i
         \/ stream.broken
         \/ Lines(Format) /\ received < FrameBytes * (i - 1) + 3

OneAtMost(S) == \A i, j \in S : i = j

\* A stream that is over has ended in one way, a completion or an error, and nothing comes
\* after that, except that an Anthropic stream goes on after the reason to stop: lost before
\* its stop, it completes and then fails (index.ts:955-982).
EndsOnce ==
  LET ends == Yielded("message_end") \cup Yielded("error") IN
  /\ stream.pc = "over" => ends # {}
  /\ \A i \in ends : i < Len(reader.events) => Format = "anthropic" /\ i \in Yielded("message_end")
  /\ OneAtMost(Yielded("message_end")) /\ OneAtMost(Yielded("error"))

\* An answer is passed for complete only if the provider said so, or if it is Google's and
\* has text: a Google stream that is cut off between two frames is taken for the whole
\* (index.ts:556-594, 770-775, 951-962).
CompleteIsTrue ==
  Yielded("message_end") # {} =>
    \/ Format = "google" /\ reader.sawText
    \/ \E i \in Heard : wire[i] \in (CASE Format = "anthropic" -> {"finish", "stop"}
                                       [] Format \in {"compatible", "chat"} -> {"done"}
                                       [] OTHER -> {"stop"})
=============================================================================
