------------------------------ MODULE Dialect ------------------------------
(***************************************************************************)
(* The two dialects in which KoraiClient lets a model call tools           *)
(* (internal/apiclient/fence.go, fenceguard.go, native_tools.go,           *)
(* korai.go), with the engine's use of them (internal/engine/engine.go):   *)
(*                                                                         *)
(*   fence   the system prompt teaches <tool:NAME>{json}</tool> and the    *)
(*           reply's text is parsed for such fences;                       *)
(*   native  the request carries a `tools' array, the reply's text is left *)
(*           alone and its structured calls are taken.                     *)
(*                                                                         *)
(* A reply is a sequence of Lexemes: the four marks of the fence grammar,   *)
(* the two braces of a JSON object, a newline, and words.                  *)
(***************************************************************************)
EXTENDS Naturals, Sequences, SequencesExt

CONSTANTS Words,      \* what a reply says besides marks: names, prose
          Replies,    \* the reply texts a model may give
          Structured, \* the sequences of structured calls a backend may return
          Models,     \* the models and aliases a request may name
          Listed      \* those that /v1/models reports with supports_tools

Open    == "<tool:"
Shut    == "</tool"
Newline == "\n"
Marks   == {Open, Shut, ">", ":", "{", "}", Newline}
Lexemes  == Marks \cup Words

ASSUME RepliesAssumption == Replies \subseteq Seq(Lexemes)

-----------------------------------------------------------------------------
(* Reading and writing fences.                                             *)

Foremost(S)    == CHOOSE i \in S : \A j \in S : i <= j
Places(s, t) == {i \in DOMAIN s : s[i] = t}
Trimmed(s)  == LET inked == {i \in DOMAIN s : s[i] # Newline}
               IN  IF inked = {} THEN <<>>
                   ELSE SubSeq(s, Foremost(inked), CHOOSE i \in inked : \A j \in inked : j <= i)

Call(name, input) == [name |-> name, input |-> input]

\* fenceBodyToInput: an empty body is a call without arguments.
InputOf(body) == IF Trimmed(body) = <<>> THEN <<"{", "}">> ELSE Trimmed(body)

\* findFenceClose: the closing tags at or after place i, bare or named ("</toolbox"
\* is none), and the place after one.
Closes(s, i) ==
  {c \in Places(s, Shut) :
     /\ c >= i /\ c < Len(s)
     /\ \/ s[c + 1] = ">"
        \/ s[c + 1] = ":" /\ \E j \in Places(s, ">") : j > c}

\* Where a tag that begins at place o may end.
TagEnds(s, o) == {j \in Places(s, ">") : j > o}
After(s, c)   == Foremost(TagEnds(s, c)) + 1

\* parseToolFences, from place i on: the text without its fences, and their calls in
\* order.  A fence that does not end stays in the text; one without a name vanishes.
Read(s, from, i) ==
  LET opens == {o \in Places(s, Open) : o >= i}
      o     == Foremost(opens)
      n     == Foremost(TagEnds(s, o))
      c     == Foremost(Closes(s, n + 1))
      name  == Trimmed(SubSeq(s, o + 1, n - 1))
      call  == Call(name, InputOf(SubSeq(s, n + 1, c - 1)))
      rest  == from[After(s, c)]
  IN  IF opens = {} \/ TagEnds(s, o) = {} \/ Closes(s, n + 1) = {}
      THEN [text |-> SubSeq(s, i, Len(s)), calls |-> <<>>]
      ELSE [text  |-> SubSeq(s, i, o - 1) \o rest.text,
            calls |-> (IF name = <<>> THEN <<>> ELSE <<call>>) \o rest.calls]

Parse(s) ==
  LET from[i \in 1..(Len(s) + 1)] == Read(s, from, i)
  IN  [text |-> Trimmed(from[1].text), calls |-> from[1].calls]

\* renderToolCallFence, and a turn as RenderAssistantTurnText and
\* convertToKoraiMessages write it: the text, then one fence per line.
Fence(c) == <<Open>> \o c.name \o <<">">> \o c.input \o <<Shut, ">">>

OnNewLine(said) == IF said = <<>> THEN said ELSE Append(said, Newline)

Flattened(text, calls) ==
  LET said[k \in 0..Len(calls)] ==
        IF k = 0 THEN text ELSE OnNewLine(said[k - 1]) \o Fence(calls[k])
  IN  said[Len(calls)]

\* ValidToolInput: one JSON object (braces inside it stand for themselves).
ValidInput(input) ==
  /\ Len(input) >= 2
  /\ Places(input, "{") = {1}
  /\ Places(input, "}") = {Len(input)}

\* MalformedFences: the engine asks whether there is any fragment.
BadBody(text, calls) == \E i \in DOMAIN calls : ~ValidInput(calls[i].input)
Malformed(text, calls) == Places(text, Open) # {} \/ BadBody(text, calls)

-----------------------------------------------------------------------------
VARIABLES listing,  \* what the client's one probe of /v1/models gave
          stage,    \* "idle": no run; "asked": a request is out; "again": the run goes on
          model,    \* the model of the run
          mode,     \* the dialect of the request
          tools,    \* the request offers tools
          retried,  \* the run has had its one retry (fenceRetried)
          called,   \* the conversation holds tool calls (hasToolHistory)
          spoilt,   \* some recorded ToolCallBlock is not a JSON object
          last      \* the reply just read, until the next request

dialectVars == <<listing, stage, model, mode, tools, retried, called, spoilt, last>>

NoReply == [text |-> <<>>, calls |-> <<>>, fenced |-> FALSE, retry |-> FALSE]

\* nativeToolsEnabled: KORAI_NATIVE_TOOLS=0 pins the client to the fence.
DialectInit ==
  /\ listing \in {"unasked", "off"}
  /\ stage = "idle"
  /\ model \in Models
  /\ mode = "fence"
  /\ tools = FALSE
  /\ retried = FALSE /\ called = FALSE /\ spoilt = FALSE
  /\ last = NoReply

\* toolCapabilities.resolve: the probe runs once, and its failure is kept.
Probed(answer) == IF listing = "unasked" THEN answer ELSE listing

\* Complete: the dialect is worth a probe only when tools are in play; a native
\* request cannot be built from a recorded input that is no object.
Complete(m, offered, answer) ==
  LET resolves == offered \/ called
      native   == resolves /\ Probed(answer) = "known" /\ m \in Listed
  IN  /\ listing' = IF resolves THEN Probed(answer) ELSE listing
      /\ model' = m
      /\ mode' = IF native THEN "native" ELSE "fence"
      /\ tools' = offered
      /\ stage' = IF native /\ spoilt THEN "idle" ELSE "asked"
      /\ last' = NoReply
      /\ UNCHANGED <<called, spoilt>>

\* Engine.Run: a new run has its retry before it.
StartRun ==
  /\ stage = "idle"
  /\ \E m \in Models, offered \in BOOLEAN, answer \in {"failed", "known"} :
        Complete(m, offered, answer)
  /\ retried' = FALSE

\* The next request of the run; the wrap-up request offers no tools.
AskAgain ==
  /\ stage = "again"
  /\ \E offered \in BOOLEAN, answer \in {"failed", "known"} : Complete(model, offered, answer)
  /\ UNCHANGED retried

\* runBuffered: what the engine is told of a reply.  Structured calls are taken
\* in either dialect and stand in for the fences of the text.
Heard(raw, structured) ==
  LET read == IF mode = "fence" THEN Parse(raw) ELSE [text |-> raw, calls |-> <<>>]
  IN  IF structured = <<>> THEN read ELSE [read EXCEPT !.calls = structured]

\* The engine's handling of a reply: one retry with a notice, the turn recorded
\* as flat text; otherwise the end of the run, or a turn of call blocks and
\* their results, run or (truncated) refused.
ModelReplies(raw, structured, truncated) ==
  LET heard == Heard(raw, structured)
      retry == ~retried /\ ~truncated /\ Malformed(heard.text, heard.calls)
      ends  == ~retry /\ heard.calls = <<>>
  IN  /\ stage = "asked"
      /\ structured # <<>> => tools
      /\ stage' = IF ends THEN "idle" ELSE "again"
      /\ retried' = (retried \/ retry)
      /\ called' = (called \/ (~retry /\ ~ends))
      /\ spoilt' = (spoilt \/ (~retry /\ BadBody(heard.text, heard.calls)))
      /\ last' = [text |-> heard.text, calls |-> heard.calls,
                  fenced |-> mode = "fence" /\ structured = <<>>, retry |-> retry]
      /\ UNCHANGED <<listing, model, mode, tools>>

DialectNext ==
  \/ StartRun
  \/ AskAgain
  \/ \E raw \in Replies, structured \in Structured, truncated \in BOOLEAN :
        ModelReplies(raw, structured, truncated)

DialectSpec == DialectInit /\ [][DialectNext]_dialectVars

-----------------------------------------------------------------------------
(* A fence turn is replayed to the model as flat text.  Whatever turn the  *)
(* engine takes as clean - it asks for no retry, though it could - is read *)
(* back from that text as the very words and calls that were heard.        *)
ReplayTellsTheSame ==
  (last.fenced /\ ~last.retry /\ ~Malformed(last.text, last.calls)) =>
     Parse(Flattened(last.text, last.calls)) = [text |-> last.text, calls |-> last.calls]

(* fenceguard.go says of a malformed body that it "must not enter a        *)
(* block": json.RawMessage does not re-marshal it, so that the session can *)
(* be saved no more.                                                       *)
BlocksMarshal == ~spoilt
=============================================================================
