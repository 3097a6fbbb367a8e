----------------------------- MODULE SSEParser -----------------------------
(***************************************************************************)
(* The server-sent-events parser of c-sdk-common/src/sse.c.                *)
(*                                                                         *)
(* A line is a token.  Bytes arrive in chunks that end anywhere, so the    *)
(* parser may hold the beginning of a line.  What it holds is one of:      *)
(*   "empty"    bufferSize = 0                                             *)
(*   "partial"  the first bytes of the line that arrives                   *)
(*   "garbage"  bufferSize > 0 and no buffer: the next chunk is appended   *)
(*              to that many uninitialized bytes                           *)
(***************************************************************************)
EXTENDS Sequences

CONSTANT Null \* a NULL pointer

Blank == [tag |-> "blank"]
Comment == [tag |-> "comment"]
EventLine(name) == [tag |-> "event", name |-> name]
DataLine(part) == [tag |-> "data", part |-> part]

LDSSEParserInitialize == [buffer |-> "empty", eventName |-> Null, eventBody |-> <<>>]

\* The pointers are freed and set to NULL, the buffer's size stays.
LDSSEParserDestroy(p) ==
    [buffer    |-> IF p.buffer = "empty" THEN "empty" ELSE "garbage",
     eventName |-> Null,
     eventBody |-> <<>>]

\* A chunk that ends inside a line.
PartOfLine(p) == [p EXCEPT !.buffer = IF @ = "garbage" THEN "garbage" ELSE "partial"]

\* The lines the parser may see when the rest of a line arrives: after
\* uninitialized bytes it is an unknown line, or the line itself when these
\* bytes end in a newline.
Received(p, line) == IF p.buffer = "garbage" THEN {line, Comment} ELSE {line}

\* A blank line dispatches an event that has a name and a body.
Dispatches(p, line) ==
    line = Blank /\ p.eventName # Null /\ p.eventBody # <<>>

processLineKeepingBody(p, line) ==
    [buffer    |-> "empty",
     eventName |-> CASE line = Blank -> Null
                     [] line.tag = "event" -> line.name
                     [] OTHER -> p.eventName,
     eventBody |-> IF line.tag = "data" THEN Append(p.eventBody, line.part)
                                        ELSE p.eventBody]

\* LDi_processLine for a line whose dispatch, if any, succeeds.
LDi_processLine(p, line) ==
    [buffer    |-> "empty",
     eventName |-> CASE line = Blank -> Null
                     [] line.tag = "event" -> line.name
                     [] OTHER -> p.eventName,
     eventBody |-> CASE line = Blank -> <<>>
                     [] line.tag = "data" -> Append(p.eventBody, line.part)
                     [] OTHER -> p.eventBody]

\* A dispatch that fails leaves the loop before the lines it read are taken
\* out of the buffer.
DispatchFailed(p) == [buffer |-> "partial", eventName |-> Null, eventBody |-> <<>>]
=============================================================================
