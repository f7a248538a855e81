----------------------------- MODULE ElectrumLine -----------------------------
(***************************************************************************)
(* One request of the Electrum client (electrum.py): a connection is made, *)
(* the request sent, and one line read, chunk by chunk as the network      *)
(* delivers it, up to a maximum length.  A connection serves one request.  *)
(***************************************************************************)
EXTENDS Integers, FiniteSetsExt

CONSTANTS
    MaxResponse,    \* _MAX_RESPONSE_BYTES
    MaxChunk,       \* the most that one recv is asked for: 64 KiB
    MaxSent,        \* bound: the server sends at most this many bytes
    Reply           \* what a line may be: "result", or why it is refused

ASSUME SizeAssumption ==
    MaxResponse \in Nat \ {0} /\ MaxChunk \in Nat \ {0} /\ MaxSent \in Nat
ASSUME ReplyAssumption == "result" \in Reply /\ "none" \notin Reply

VARIABLES
    sent,           \* what the server sends: see Streams
    read,           \* bytes taken from the connection
    response,       \* length of the line assembled so far
    asked,          \* bytes the next recv is asked for
    outcome         \* "none", a member of Reply, or an error

lineVars == <<sent, read, response, asked, outcome>>

\* total bytes with the first newline after line bytes (line = total if there
\* is none), then the end of the stream or silence.
Streams ==
    {s \in [total : 0 .. MaxSent, line : 0 .. MaxSent, reply : Reply, closes : BOOLEAN] :
        s.line <= s.total}

\* Mutant: what has arrived is not deducted.
RemainingWhole(len) == MaxResponse + 1

Remaining(len) == MaxResponse + 1 - len

LineInit ==
    /\ sent \in Streams
    /\ read = 0 /\ response = 0
    /\ asked = Min({MaxChunk, Remaining(0)})
    /\ outcome = "none"

Ends(result) == outcome' = result /\ UNCHANGED <<sent, read, response, asked>>

\* The newline is among the k bytes of the chunk.
HasNewline(k) == sent.line < sent.total /\ sent.line < read + k

\* Mutant: the line is judged by all that has arrived.
TooLongChunk(k) == response + k > MaxResponse

\* A line that ends in this chunk, judged by its own length.
TooLong(k) == response + (sent.line - read) > MaxResponse

\* recv returns k bytes.
Receive(k) ==
    /\ outcome = "none"
    /\ k \in 1 .. Min({asked, sent.total - read})
    /\ read' = read + k
    /\ IF HasNewline(k)
       THEN /\ response' = IF TooLong(k) THEN response ELSE sent.line
            /\ outcome' = IF TooLong(k) THEN "too large" ELSE sent.reply
       ELSE /\ response' = response + k
            /\ outcome' = IF response + k > MaxResponse THEN "too large" ELSE "none"
    /\ asked' = Min({MaxChunk, Remaining(response')})
    /\ UNCHANGED sent

\* recv returns no bytes: the stream has ended, or none were asked for.
Incomplete ==
    /\ outcome = "none"
    /\ asked <= 0 \/ (read = sent.total /\ sent.closes)
    /\ Ends("incomplete")

\* Mutant: the socket has no timeout.
WaitsOn ==
    /\ outcome = "none" /\ read = sent.total /\ ~sent.closes
    /\ UNCHANGED lineVars

\* settings.timeout_seconds pass without a byte.
TimesOut ==
    /\ outcome = "none" /\ read = sent.total /\ ~sent.closes
    /\ Ends("connection")

\* The connection cannot be made, or breaks.
Breaks == outcome = "none" /\ Ends("connection")

Settled == outcome # "none" /\ UNCHANGED lineVars

Reading == (\E k \in 1 .. MaxChunk : Receive(k)) \/ Incomplete \/ TimesOut

LineNext == Reading \/ Breaks \/ Settled

LineSpec == LineInit /\ [][LineNext]_lineVars

\* Every recv returns: with bytes, at the end of the stream, or by its timeout.
FairLineSpec == LineSpec /\ WF_lineVars(Reading)

-----------------------------------------------------------------------------
\* What a client that saw all of the stream at once would say.
Verdict(s) ==
    IF s.line > MaxResponse THEN "too large"
    ELSE IF s.line < s.total THEN s.reply
    ELSE IF s.closes THEN "incomplete" ELSE "connection"

(* The outcome is that of the line, however the network cuts the stream     *)
(* into chunks and whatever follows the newline: a line of exactly the      *)
(* maximum length is accepted, one byte more is not; and to tell, no more   *)
(* than that one byte is ever taken (_send_and_read, remaining).            *)
ChunksDoNotMatter ==
    /\ outcome \notin {"none", "connection"} => outcome = Verdict(sent)
    /\ read <= MaxResponse + 1

(* A request ends: with the line, an error, or a timeout (request).         *)
Ended == <>(outcome # "none")
=============================================================================
