----------------------------- MODULE XlinkParser -----------------------------
(***************************************************************************)
(* The frames of xlink.h on one direction of the line: xlink_send writes   *)
(* them, xlink_process_rx takes them apart byte by byte.  Bytes are lost   *)
(* or changed, and the receiver may be created in the middle of a frame.   *)
(*                                                                         *)
(* The numbers keep their relation to XLINK_MAX_PAYLOAD = 250: a byte is   *)
(* at most MaxPayload + 5.  A CRC is the text it is computed over, so that *)
(* different texts have different CRCs; the values its two bytes have on   *)
(* the line, which a parser out of step takes for anything, are left open. *)
(***************************************************************************)
EXTENDS Integers, Sequences

CONSTANTS
    MaxPayload,   \* XLINK_MAX_PAYLOAD
    SOF,          \* XLINK_SOF
    Noisy,        \* the messages sent while the line is bad
    Plain,        \* the messages sent after that, without a second SOF in them
    MaxNoisy,     \* bound on the frames sent while the line is bad
    MaxFaults     \* bound on bytes lost or changed and receivers created

Byte == 0..(MaxPayload + 5)

Messages == [comp : Byte, msg : Byte, payload : Seq(Byte), crc : Byte \X Byte]

\* What the CRC of a message covers.
Text(m) == <<Len(m.payload), m.comp, m.msg>> \o m.payload

\* A byte of the line: its value, and the half of which CRC it is, if any.
Octet(v) == [val |-> v, half |-> 0, of |-> <<>>]
CrcOctet(m, h) == [val |-> m.crc[h], half |-> h, of |-> Text(m)]

\* xlink_send: the bytes of a message.
Frame(m) ==
    <<Octet(SOF)>> \o [i \in DOMAIN Text(m) |-> Octet(Text(m)[i])]
        \o <<CrcOctet(m, 1), CrcOctet(m, 2)>>

ASSUME ParserAssumption ==
    /\ MaxPayload \in Nat \ {0} /\ SOF \in Byte
    /\ Noisy \subseteq Messages /\ Plain \subseteq Messages /\ Plain # {}
    /\ MaxNoisy \in Nat /\ MaxFaults \in Nat
    /\ \A m \in Plain : Len(m.payload) <= MaxPayload
    /\ \A m \in Plain : \A i \in 2..Len(Frame(m)) : Frame(m)[i].val # SOF

VARIABLES
    message,     \* the message being sent
    at,          \* bytes of its frame that have left
    noisy,       \* frames sent while the line is bad
    quiet,       \* the line is good from now on
    faults,      \* faults so far
    state,       \* rx_msg_state; the code never sets WAIT_CHECKSUM
    expected,    \* expected_len
    pos,         \* rx_msg_pos
    head,        \* rx_msg.len, rx_msg.comp_id, rx_msg.msg_id
    payload,     \* rx_msg.payload
    rxcrc,       \* rx_msg.crc
    crc,         \* rx_msg_crc: the text it was computed over
    got,         \* what the last byte gave to the handlers
    clean,       \* the frame began in step and has lost nothing so far
    missed       \* plain frames in a row that did not arrive

line == <<message, noisy, quiet, faults>>
fields == <<expected, pos, head, payload, rxcrc, crc>>
vars == <<line, at, state, fields, got, clean, missed>>

None == <<>>
Damaged == <<-1>>

\* The frames that one damaged frame can cost: its header and the longest text
\* that leaves rx_msg_pos alone, with its CRC, over the shortest frame.
ShortestFrame == 6
MaxMissed == 1 + (3 + (MaxPayload + 4) + 2 - 1) \div ShortestFrame

TypeOK ==
    /\ message \in Noisy \cup Plain /\ at \in 0..Len(Frame(message))
    /\ noisy \in 0..MaxNoisy /\ faults \in 0..MaxFaults /\ {quiet, clean} \subseteq BOOLEAN
    /\ state \in {"magic", "header", "payload"}
    /\ expected \in 0..(MaxPayload + 7) /\ pos \in 0..expected
    /\ head \in [1..3 -> Byte] /\ payload \in [0..(MaxPayload - 1) -> Byte]
    /\ \A h \in 1..2 : rxcrc[h].val \in Byte /\ rxcrc[h].half \in 0..2
    /\ crc = Damaged \/ crc \in Seq(Byte)
    /\ missed \in 0..(MaxMissed + 1)

\* xlink_context_create; rx_msg is not initialised and not read before it is
\* written.
Created ==
    /\ state' = "magic" /\ pos' = 0 /\ crc' = <<>>
    /\ UNCHANGED <<expected, head, payload, rxcrc>>

Init ==
    /\ message \in Plain /\ at = Len(Frame(message))
    /\ noisy = 0 /\ quiet = FALSE /\ faults = 0
    /\ state = "magic" /\ pos = 0 /\ expected = 0 /\ crc = <<>>
    /\ head = [i \in 1..3 |-> 0] /\ payload = [i \in 0..(MaxPayload - 1) |-> 0]
    /\ rxcrc = <<Octet(0), Octet(0)>>
    /\ got = None /\ clean = FALSE /\ missed = 0

--------------------------------------------------------------------------------
\* xlink_process_rx(d).  Between frames everything but SOF is skipped.
Skip(d) ==
    /\ state = "magic" /\ d.val # SOF
    /\ got' = None
    /\ UNCHANGED <<state, fields>>

\* As if the CRC were not started anew.
BeginKeepsCrc(d) ==
    /\ state = "magic" /\ d.val = SOF
    /\ state' = "header" /\ expected' = 3 /\ pos' = 0
    /\ got' = None
    /\ UNCHANGED <<head, payload, rxcrc, crc>>

Begin(d) ==
    /\ state = "magic" /\ d.val = SOF
    /\ state' = "header" /\ expected' = 3 /\ pos' = 0 /\ crc' = <<>>
    /\ got' = None
    /\ UNCHANGED <<head, payload, rxcrc>>

\* rx_msg_crc after one more byte.
Feed(c, v) == IF c = Damaged THEN Damaged ELSE Append(c, v)

Header(d) ==
    /\ state = "header"
    /\ head' = [head EXCEPT ![pos + 1] = d.val]
    /\ crc' = Feed(crc, d.val)
    /\ IF pos + 1 = expected
       THEN expected' = head'[1] + 2 /\ pos' = 0 /\ state' = "payload"
       ELSE pos' = pos + 1 /\ UNCHANGED <<expected, state>>
    /\ got' = None
    /\ UNCHANGED <<payload, rxcrc>>

\* A byte before the last two.  The length is not checked: behind payload lie
\* rx_msg.crc, then rx_msg_crc, then rx_msg_pos, whose low byte is written
\* before or after it is incremented.
Payload(d) ==
    /\ state = "payload" /\ pos < expected - 2
    /\ payload' = IF pos < MaxPayload THEN [payload EXCEPT ![pos] = d.val] ELSE payload
    /\ rxcrc' = IF pos - MaxPayload \in 0..1 THEN [rxcrc EXCEPT ![pos - MaxPayload + 1] = d] ELSE rxcrc
    /\ crc' = IF pos - MaxPayload \in 2..3 THEN Damaged ELSE Feed(crc, d.val)
    /\ pos' \in {pos + 1} \cup (IF pos = MaxPayload + 4 THEN {d.val} ELSE {})
    /\ got' = None
    /\ UNCHANGED <<expected, head, state>>

\* rx_msg.crc == rx_msg_crc, as if its low byte only were compared.
MatchesLow(received, text) == received[1].half = 1 /\ received[1].of = text

Matches(received, text) == \A h \in 1..2 : received[h].half = h /\ received[h].of = text

\* What the handlers are called with.
Received == [comp |-> head[2], msg |-> head[3], payload |-> [i \in 1..head[1] |-> payload[i - 1]]]

\* As if only a frame with the right CRC ended the state.
ChecksumKeepsState(d) ==
    /\ state = "payload" /\ pos >= expected - 2
    /\ rxcrc' = [rxcrc EXCEPT ![pos - (expected - 2) + 1] = d]
    /\ pos' = pos + 1
    /\ IF pos' = expected /\ Matches(rxcrc', crc)
       THEN got' = Received /\ state' = "magic"
       ELSE got' = None /\ UNCHANGED state
    /\ UNCHANGED <<expected, head, payload, crc>>

\* One of the last two bytes.  After the second the parser waits for a SOF
\* again, whether the CRC is right or not.
Checksum(d) ==
    /\ state = "payload" /\ pos >= expected - 2
    /\ rxcrc' = [rxcrc EXCEPT ![pos - (expected - 2) + 1] = d]
    /\ pos' = pos + 1
    /\ state' = IF pos' = expected THEN "magic" ELSE state
    /\ got' = IF pos' = expected /\ Matches(rxcrc', crc) THEN Received ELSE None
    /\ UNCHANGED <<expected, head, payload, crc>>

ProcessRx(d) == Skip(d) \/ Begin(d) \/ Header(d) \/ Payload(d) \/ Checksum(d)

--------------------------------------------------------------------------------
\* The parser is in a frame of the one length whose text overwrites rx_msg_pos.
Runaway == state = "payload" /\ head[1] = MaxPayload + 5

\* xlink_send refuses a payload that is too long.
Send(m) ==
    /\ Len(m.payload) <= MaxPayload
    /\ at = Len(Frame(message))
    /\ message' = m /\ at' = 0
    /\ got' = None /\ clean' = FALSE
    /\ UNCHANGED <<faults, state, fields, missed>>

SendNoisy ==
    /\ ~quiet /\ noisy < MaxNoisy
    /\ \E m \in Noisy : Send(m)
    /\ noisy' = noisy + 1
    /\ UNCHANGED quiet

SendPlain ==
    /\ \E m \in Plain : Send(m)
    /\ quiet' = TRUE
    /\ UNCHANGED noisy

\* The next byte leaves.
Leaves == at < Len(Frame(message)) /\ at' = at + 1
Fault == ~quiet /\ faults < MaxFaults /\ faults' = faults + 1
Counted ==
    missed' =
        IF ~quiet \/ at' < Len(Frame(message)) \/ Runaway THEN missed
        ELSE IF got' # None THEN 0
        ELSE IF missed > MaxMissed THEN missed ELSE missed + 1

Arrive ==
    /\ Leaves
    /\ ProcessRx(Frame(message)[at'])
    /\ clean' = IF at = 0 THEN state = "magic" ELSE clean
    /\ Counted
    /\ UNCHANGED line

Change ==
    /\ Leaves /\ Fault
    /\ \E v \in Byte \ {Frame(message)[at'].val} : ProcessRx(Octet(v))
    /\ clean' = FALSE
    /\ UNCHANGED <<message, noisy, quiet, missed>>

Lose ==
    /\ Leaves /\ Fault
    /\ clean' = FALSE
    /\ got' = None
    /\ UNCHANGED <<message, noisy, quiet, state, fields, missed>>

\* The device restarts, or the tool is started, while a frame is on the line.
Create ==
    /\ Fault
    /\ Created
    /\ got' = None
    /\ clean' = FALSE
    /\ UNCHANGED <<message, at, noisy, quiet, missed>>

Next == SendNoisy \/ SendPlain \/ Arrive \/ Change \/ Lose \/ Create

Spec == Init /\ [][Next]_vars

--------------------------------------------------------------------------------
\* What the handlers should see of a message.
Sent(m) == [comp |-> m.comp, msg |-> m.msg, payload |-> m.payload]

\* What reaches the handlers is the message whose last byte has just arrived,
\* whole and unchanged: no frame with a lost or changed byte, nothing that a
\* parser out of step makes up from the middle of frames, and nothing that was
\* damaged by bytes written behind the payload.
DeliveredIsSent == got # None => at = Len(Frame(message)) /\ got = Sent(message)

\* A frame that arrives whole while the parser waits for one is delivered with
\* its last byte, whatever the parser went through before.
WholeFrameDelivered == clean /\ at = Len(Frame(message)) => got = Sent(message)

\* The parser has no timeout.  When the line is good again it may swallow the
\* next frames as the rest of a damaged one, but no more than fill the longest
\* frame a header can announce.  Length MaxPayload + 5 is excepted: its text
\* overwrites rx_msg_pos and may never end.
OutageIsBounded == missed <= MaxMissed

--------------------------------------------------------------------------------
(* Why these hold: the inductive invariant of XlinkParserProofs.              *)

Octets == [val : Byte, half : 0..2, of : Seq(Byte)]

\* The first n bytes of a text: of what the parser has read, of a message.
ReadOf(h, p, n) == [i \in 1..n |-> IF i <= 3 THEN h[i] ELSE p[i - 4]]
Read(n) == ReadOf(head, payload, n)
Prefix(m, n) == [i \in 1..n |-> Text(m)[i]]

TextRead == 3 + (IF pos < head[1] THEN pos ELSE head[1])

LineInv ==
    /\ message \in Messages /\ Len(message.payload) <= MaxPayload
    /\ at \in 0..(Len(message.payload) + 6)

FieldInv ==
    /\ state \in {"magic", "header", "payload"}
    /\ expected \in Nat /\ pos \in Nat
    /\ head \in [1..3 -> Byte] /\ payload \in [0..(MaxPayload - 1) -> Byte]
    /\ rxcrc \in [1..2 -> Octets]

\* The CRC is that of what was read, unless more was read than payload holds:
\* then it is that of no message.
CrcInv ==
    /\ state = "header" => expected = 3 /\ pos \in 0..2 /\ crc = Read(pos)
    /\ state = "payload" =>
        /\ expected = head[1] + 2 /\ pos \in 0..(head[1] + 1)
        /\ IF head[1] <= MaxPayload
           THEN crc = Read(TextRead)
           ELSE crc \in Seq(Int) /\ crc # <<>> /\ crc[1] \notin 0..MaxPayload

\* What was read of a frame that is whole so far is that frame.
CleanInv ==
    clean =>
        /\ at > 0
        /\ at <= 3 => state = "header" /\ pos = at - 1 /\ crc = Prefix(message, pos)
        /\ at \in 4..(Len(message.payload) + 5) =>
            /\ state = "payload" /\ pos = at - 4
            /\ head[1] = Len(message.payload)
            /\ crc = Prefix(message, TextRead)
        /\ at = Len(message.payload) + 5 => rxcrc[1] = CrcOctet(message, 1)

\* The state of the parser belongs to the bytes it has read: the invariant from
\* which DeliveredIsSent and WholeFrameDelivered follow.
ParserInv ==
    LineInv /\ FieldInv /\ CrcInv /\ CleanInv /\ DeliveredIsSent /\ WholeFrameDelivered

\* The bytes that have arrived on the good line, in frames that were missed and
\* in this one: a parser in a frame it began before has read all of them.
Swallowed == missed * ShortestFrame + IF at < Len(Frame(message)) THEN at ELSE 0

\* A parser that is between frames when a plain frame begins stays in step; one
\* that ends its frame in the middle of a plain one misses no more than that.
\* OutageIsBounded follows.
OutageInv ==
    /\ missed \in 0..MaxMissed
    /\ ~quiet => missed = 0
    /\ quiet => message \in Plain
    /\ quiet /\ clean /\ at = Len(Frame(message)) => state = "magic" /\ missed = 0
    /\ quiet /\ ~clean =>
        /\ state = "header" => Swallowed <= pos
        /\ state = "payload" => IF Runaway THEN missed = 0 ELSE Swallowed <= 3 + pos
        /\ state = "magic" /\ at > 0 /\ at < Len(Frame(message)) => missed < MaxMissed
================================================================================
