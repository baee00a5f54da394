-------------------------- MODULE XlinkParserProofs --------------------------
(***************************************************************************)
(* For every MaxPayload, SOF, set of messages and number of faults, what   *)
(* the handlers see is the message that was sent, and a frame that arrives *)
(* whole in step is seen.                                                  *)
(***************************************************************************)
EXTENDS XlinkParser, SequenceTheorems, TLAPS

\* The bytes include every length a payload may have.
LEMMA Constants == MaxPayload \in Nat \ {0} /\ SOF \in Byte
  BY ParserAssumption

--------------------------------------------------------------------------------
(* Texts and frames.                                                          *)

\* The concatenation of two sequences.
LEMMA Joined ==
    ASSUME NEW S, NEW s \in Seq(S), NEW t \in Seq(S)
    PROVE  /\ s \o t \in Seq(S) /\ Len(s \o t) = Len(s) + Len(t)
           /\ \A i \in 1..Len(s) : (s \o t)[i] = s[i]
           /\ \A i \in 1..Len(t) : (s \o t)[Len(s) + i] = t[i]
  OBVIOUS

\* The CRC covers length, component, message ID and payload.
LEMMA TextShape ==
    ASSUME NEW m \in Messages, Len(m.payload) <= MaxPayload
    PROVE  /\ Text(m) \in Seq(Byte)
           /\ Len(Text(m)) = Len(m.payload) + 3
           /\ Text(m)[1] = Len(m.payload) /\ Text(m)[2] = m.comp /\ Text(m)[3] = m.msg
           /\ \A i \in 1..Len(m.payload) : Text(m)[i + 3] = m.payload[i]
<1> DEFINE h == <<Len(m.payload), m.comp, m.msg>>
<1>1. /\ m.payload \in Seq(Byte) /\ m.comp \in Byte /\ m.msg \in Byte
      /\ Len(m.payload) \in Nat
  BY DEF Messages
<1>2. Len(m.payload) \in Byte
  BY <1>1, Constants DEF Byte
<1>3. h \in Seq(Byte) /\ Len(h) = 3
  BY <1>1, <1>2
<1>4. h \o m.payload \in Seq(Byte) /\ Len(h \o m.payload) = 3 + Len(m.payload)
  BY <1>1, <1>3
<1>5. \A i \in 1..3 : (h \o m.payload)[i] = h[i]
  BY <1>1, <1>3
<1>6. \A i \in 1..Len(m.payload) : (h \o m.payload)[i + 3] = m.payload[i]
  BY <1>1, <1>3
<1> QED
  BY <1>1, <1>4, <1>5, <1>6 DEF Text

\* Octets carry values; only the last two of a frame are halves of its CRC.
LEMMA FrameShape ==
    ASSUME NEW m \in Messages, Len(m.payload) <= MaxPayload
    PROVE  /\ Len(Frame(m)) = Len(m.payload) + 6
           /\ Frame(m)[1] = Octet(SOF)
           /\ \A i \in 2..(Len(m.payload) + 4) : Frame(m)[i] = Octet(Text(m)[i - 1])
           /\ Frame(m)[Len(m.payload) + 5] = CrcOctet(m, 1)
           /\ Frame(m)[Len(m.payload) + 6] = CrcOctet(m, 2)
           /\ \A i \in 1..Len(Frame(m)) : Frame(m)[i] \in Octets
<1> DEFINE n == Len(Text(m))
           body == [i \in DOMAIN Text(m) |-> Octet(Text(m)[i])]
           tail == <<CrcOctet(m, 1), CrcOctet(m, 2)>>
<1>1. Text(m) \in Seq(Byte) /\ n = Len(m.payload) + 3 /\ n \in Nat /\ Len(m.payload) \in Nat
  BY TextShape DEF Messages
<1>2. \A v \in Byte : Octet(v) \in Octets
  BY DEF Octet, Octets
<1>3. \A i \in 1..2 : CrcOctet(m, i) \in Octets
  BY <1>1 DEF CrcOctet, Octets, Messages
<1>4. Octet(SOF) \in Octets
  BY <1>2, Constants
<1>5. DOMAIN Text(m) = 1..n /\ \A i \in 1..n : Text(m)[i] \in Byte
  BY <1>1
<1>6. body \in Seq(Octets) /\ Len(body) = n
  <2>1. body \in [1..n -> Octets]
    BY <1>2, <1>5
  <2> QED
    BY <1>1, <2>1
<1>7. tail \in Seq(Octets) /\ Len(tail) = 2 /\ tail[1] = CrcOctet(m, 1) /\ tail[2] = CrcOctet(m, 2)
  BY <1>3
<1>8. <<Octet(SOF)>> \in Seq(Octets) /\ Len(<<Octet(SOF)>>) = 1
  BY <1>4
<1> DEFINE front == <<Octet(SOF)>> \o body
<1>9. /\ front \in Seq(Octets) /\ Len(front) = n + 1 /\ front[1] = Octet(SOF)
      /\ \A i \in 2..(n + 1) : front[i] = body[i - 1]
  <2> HIDE DEF body
  <2> QED
    BY <1>1, <1>6, <1>8
<1>10. /\ front \o tail \in Seq(Octets) /\ Len(front \o tail) = n + 3
       /\ \A i \in 1..(n + 1) : (front \o tail)[i] = front[i]
       /\ (front \o tail)[n + 2] = tail[1] /\ (front \o tail)[n + 3] = tail[2]
  <2> HIDE DEF front, tail, n
  <2>1. /\ front \o tail \in Seq(Octets) /\ Len(front \o tail) = Len(front) + Len(tail)
        /\ \A i \in 1..Len(front) : (front \o tail)[i] = front[i]
        /\ \A i \in 1..Len(tail) : (front \o tail)[Len(front) + i] = tail[i]
    <3>1. front \in Seq(Octets) /\ tail \in Seq(Octets)
      BY <1>7, <1>9
    <3> QED
      BY ONLY <3>1, Joined
  <2>2. Len(front) = n + 1 /\ Len(tail) = 2
    BY <1>7, <1>9
  <2>3. (front \o tail)[n + 1 + 1] = tail[1] /\ (front \o tail)[n + 1 + 2] = tail[2]
    BY ONLY SMTT(30), <2>1, <2>2, <1>1
  <2>4. n + 1 + 1 = n + 2 /\ n + 1 + 2 = n + 3 /\ Len(front) + Len(tail) = n + 3
    BY ONLY <2>2, <1>1
  <2> QED
    BY ONLY <2>1, <2>2, <2>3, <2>4
<1>11. Frame(m) = front \o tail
  BY DEF Frame
<1>12. \A i \in 2..(n + 1) : front[i] = Octet(Text(m)[i - 1])
  <2> SUFFICES ASSUME NEW i \in 2..(n + 1) PROVE front[i] = Octet(Text(m)[i - 1])
    OBVIOUS
  <2>1. i - 1 \in 1..n
    BY <1>1
  <2>2. body[i - 1] = Octet(Text(m)[i - 1])
    BY <2>1, <1>5
  <2> HIDE DEF front, body
  <2> QED
    BY <2>2, <1>9
<1> HIDE DEF front, tail, body, n
<1>13. \A i \in 1..Len(Frame(m)) : Frame(m)[i] \in Octets
  BY <1>10, <1>11
<1> QED
  BY <1>1, <1>7, <1>9, <1>10, <1>11, <1>12, <1>13

--------------------------------------------------------------------------------
(* One byte.                                                                  *)

\* Between frames and at the first byte.
LEMMA BeginKeeps ==
    ASSUME FieldInv, CrcInv, NEW d \in Octets, Skip(d) \/ Begin(d)
    PROVE  FieldInv' /\ CrcInv' /\ got' = None
<1>1. CASE Skip(d)
  BY <1>1 DEF FieldInv, CrcInv, Skip, fields
<1>2. CASE Begin(d)
  <2>1. Read(0)' = <<>>
    BY DEF Read, ReadOf
  <2> QED
    BY <1>2, <2>1 DEF FieldInv, CrcInv, Begin
<1> QED
  BY <1>1, <1>2

Heads == [1..3 -> Byte]
Payloads == [0..(MaxPayload - 1) -> Byte]

\* What was read is a sequence of bytes, as long as payload holds it.
LEMMA ReadShape ==
    ASSUME NEW h \in Heads, NEW p \in Payloads, NEW n \in 0..(MaxPayload + 3)
    PROVE  /\ ReadOf(h, p, n) \in Seq(Int) /\ Len(ReadOf(h, p, n)) = n
           /\ \A i \in 1..n : ReadOf(h, p, n)[i] \in Byte
<1> DEFINE r == ReadOf(h, p, n)
<1>1. Byte \subseteq Int
  BY Constants DEF Byte
<1>2. ASSUME NEW i \in 1..n
      PROVE  r[i] \in Byte
  <2>1. CASE i <= 3
    BY <2>1 DEF ReadOf, Heads
  <2>2. CASE ~(i <= 3)
    <3>1. i - 4 \in 0..(MaxPayload - 1)
      BY <2>2, Constants
    <3> QED
      BY <2>2, <3>1 DEF ReadOf, Payloads
  <2> QED
    BY <2>1, <2>2
<1>3. r \in [1..n -> Int] /\ DOMAIN r = 1..n
  BY <1>1, <1>2 DEF ReadOf
<1>4. n \in Nat
  BY Constants
<1> HIDE DEF r
<1>5. r \in Seq(Int) /\ Len(r) = n
  BY <1>3, <1>4
<1> QED
  BY <1>2, <1>5 DEF r

\* What has been read grows by the byte.
LEMMA ReadGrows ==
    ASSUME NEW h \in Heads, NEW p \in Payloads, NEW g \in Heads, NEW q \in Payloads,
           NEW n \in 0..(MaxPayload + 2), NEW v \in Byte,
           \A i \in 1..n : ReadOf(h, p, n)[i] = ReadOf(g, q, n + 1)[i],
           ReadOf(g, q, n + 1)[n + 1] = v
    PROVE  Feed(ReadOf(h, p, n), v) = ReadOf(g, q, n + 1)
<1> DEFINE r == ReadOf(h, p, n)
           t == ReadOf(g, q, n + 1)
<1>1. n \in 0..(MaxPayload + 3) /\ n + 1 \in 0..(MaxPayload + 3)
  BY Constants
<1>2. r \in Seq(Int) /\ Len(r) = n /\ \A i \in 1..n : r[i] \in Byte
  BY <1>1, ReadShape
<1>3. t \in Seq(Int) /\ Len(t) = n + 1
  BY <1>1, ReadShape
<1>4. (\A i \in 1..n : r[i] = t[i]) /\ t[n + 1] = v
  OBVIOUS
<1> HIDE DEF r, t
<1>5. r # Damaged
  <2> SUFFICES ASSUME r = Damaged PROVE FALSE
    OBVIOUS
  <2>1. n = 1 /\ r[1] = -1
    BY <1>2 DEF Damaged
  <2> QED
    BY <1>2, <2>1, Constants DEF Byte
<1>6. Feed(r, v) = Append(r, v)
  BY <1>5 DEF Feed
<1>7. /\ Append(r, v) \in Seq(Int) /\ Len(Append(r, v)) = n + 1
      /\ \A i \in 1..n : Append(r, v)[i] = r[i]
      /\ Append(r, v)[n + 1] = v
  BY <1>2, Constants DEF Byte
<1>8. \A i \in 1..(n + 1) : Append(r, v)[i] = t[i]
  <2>1. \A i \in 1..(n + 1) : i \in 1..n \/ i = n + 1
    OBVIOUS
  <2> QED
    BY <1>4, <1>7, <2>1
<1>9. Append(r, v) = t
  BY <1>3, <1>7, <1>8, SeqEqual
<1> QED
  BY <1>6, <1>9 DEF r, t

\* A byte of the header.
LEMMA HeaderKeeps ==
    ASSUME FieldInv, CrcInv, NEW d \in Octets, Header(d)
    PROVE  /\ FieldInv' /\ CrcInv' /\ got' = None
           /\ crc' = Feed(crc, d.val) /\ crc' = ReadOf(head', payload', pos + 1)
<1>1. /\ expected = 3 /\ pos \in 0..2 /\ crc = ReadOf(head, payload, pos)
      /\ head \in Heads /\ payload \in Payloads
  BY DEF Header, CrcInv, FieldInv, Read, Heads, Payloads
<1>2. /\ head' = [head EXCEPT ![pos + 1] = d.val] /\ crc' = Feed(crc, d.val)
      /\ payload' = payload /\ rxcrc' = rxcrc /\ got' = None
      /\ IF pos + 1 = expected
         THEN expected' = head'[1] + 2 /\ pos' = 0 /\ state' = "payload"
         ELSE pos' = pos + 1 /\ expected' = expected /\ state' = state
      /\ state = "header"
  BY DEF Header
<1>3. head' \in Heads /\ payload' \in Payloads /\ d.val \in Byte
  BY <1>1, <1>2 DEF Heads, Octets
<1>4. head'[1] \in Byte /\ head'[1] \in Nat
  BY <1>3, Constants DEF Heads, Byte
<1>5. FieldInv'
  <2>1. expected' \in Nat /\ pos' \in Nat /\ state' \in {"magic", "header", "payload"}
    BY <1>1, <1>2, <1>4
  <2> QED
    BY <1>2, <1>3, <2>1 DEF FieldInv, Heads, Payloads
<1>6. crc' = ReadOf(head', payload', pos + 1)
  <2>1. pos \in 0..(MaxPayload + 2)
    BY <1>1, Constants
  <2>2. \A i \in 1..pos : ReadOf(head, payload, pos)[i] = ReadOf(head', payload', pos + 1)[i]
    BY <1>1, <1>2 DEF ReadOf, Heads
  <2>3. ReadOf(head', payload', pos + 1)[pos + 1] = d.val
    BY <1>1, <1>2 DEF ReadOf, Heads
  <2>4. Feed(ReadOf(head, payload, pos), d.val) = ReadOf(head', payload', pos + 1)
    BY ONLY <1>1, <1>3, <2>1, <2>2, <2>3, ReadGrows
  <2> QED
    BY <1>1, <1>2, <2>4
<1>7. CrcInv'
  <2>1. CASE pos + 1 = expected
    <3>1. /\ state' = "payload" /\ expected' = head'[1] + 2 /\ pos' = 0
          /\ crc' = ReadOf(head', payload', 3)
      BY <1>1, <1>2, <1>6, <2>1
    <3>2. TextRead' = 3
      BY <1>4, <3>1 DEF TextRead
    <3>3. ReadOf(head', payload', 3) \in Seq(Int) /\ Len(ReadOf(head', payload', 3)) = 3
      <4>1. 3 \in 0..(MaxPayload + 3)
        BY Constants
      <4> QED
        BY ONLY <1>3, <4>1, ReadShape
    <3>4. ReadOf(head', payload', 3)[1] = head'[1]
      BY DEF ReadOf
    <3>5. ~(head'[1] <= MaxPayload) =>
             crc' \in Seq(Int) /\ crc' # <<>> /\ crc'[1] \notin 0..MaxPayload
      BY <1>4, <3>1, <3>3, <3>4, Constants
    <3>6. crc' = Read(TextRead)'
      BY <3>1, <3>2 DEF Read
    <3>7. pos' \in 0..(head'[1] + 1)
      BY <1>4, <3>1
    <3> QED
      BY <3>1, <3>5, <3>6, <3>7 DEF CrcInv
  <2>2. CASE pos + 1 # expected
    <3>1. /\ state' = "header" /\ expected' = 3 /\ pos' = pos + 1 /\ pos' \in 0..2
          /\ crc' = Read(pos)'
      BY <1>1, <1>2, <1>6, <2>2 DEF Read
    <3> QED
      BY <3>1 DEF CrcInv
  <2> QED
    BY <2>1, <2>2
<1> QED
  BY <1>2, <1>5, <1>6, <1>7

\* A byte of the text, also one that is written behind payload.
LEMMA PayloadKeeps ==
    ASSUME FieldInv, CrcInv, NEW d \in Octets, Payload(d)
    PROVE  /\ FieldInv' /\ CrcInv' /\ got' = None
           /\ head[1] <= MaxPayload =>
                crc' = Feed(crc, d.val) /\ pos' = pos + 1 /\ pos' \in 1..head[1]
<1>1. /\ expected = head[1] + 2 /\ pos \in 0..(head[1] - 1) /\ state = "payload"
      /\ head \in Heads /\ payload \in Payloads /\ rxcrc \in [1..2 -> Octets]
      /\ head[1] \in Byte /\ head[1] \in Nat /\ d.val \in Byte /\ d.val \in Nat
      /\ IF head[1] <= MaxPayload
         THEN crc = Read(TextRead)
         ELSE crc \in Seq(Int) /\ crc # <<>> /\ crc[1] \notin 0..MaxPayload
  <2>1. head[1] \in Byte /\ d.val \in Byte
    BY DEF FieldInv, Octets
  <2>2. head[1] \in Nat /\ d.val \in Nat
    BY <2>1, Constants DEF Byte
  <2> QED
    BY <2>1, <2>2 DEF Payload, CrcInv, FieldInv, Heads, Payloads
<1>2. /\ payload' = IF pos < MaxPayload THEN [payload EXCEPT ![pos] = d.val] ELSE payload
      /\ rxcrc' = IF pos - MaxPayload \in 0..1 THEN [rxcrc EXCEPT ![pos - MaxPayload + 1] = d] ELSE rxcrc
      /\ crc' = IF pos - MaxPayload \in 2..3 THEN Damaged ELSE Feed(crc, d.val)
      /\ pos' \in {pos + 1} \cup (IF pos = MaxPayload + 4 THEN {d.val} ELSE {})
      /\ expected' = expected /\ head' = head /\ state' = state /\ got' = None
  BY DEF Payload
<1>3. payload' \in Payloads
  BY <1>1, <1>2 DEF Payloads
<1>4. rxcrc' \in [1..2 -> Octets]
  BY <1>1, <1>2
<1>5. pos' \in 0..(head'[1] + 1)
  BY SMTT(30), <1>1, <1>2, Constants DEF Byte
<1>6. FieldInv'
  <2>1. pos' \in Nat /\ expected' \in Nat
    <3>1. pos' \in Nat
      BY <1>5
    <3>2. expected' = expected
      BY <1>2
    <3> QED
      BY <1>1, <3>1, <3>2
  <2> QED
    BY <1>1, <1>2, <1>3, <1>4, <2>1 DEF FieldInv, Heads, Payloads
<1>7. CASE head[1] <= MaxPayload
  <2>1. /\ pos < MaxPayload /\ pos - MaxPayload \notin 0..1 /\ pos - MaxPayload \notin 2..3
        /\ pos # MaxPayload + 4
    BY <1>1, <1>7, Constants
  <2>2. crc' = Feed(crc, d.val) /\ pos' = pos + 1 /\ payload' = [payload EXCEPT ![pos] = d.val]
    BY <1>2, <2>1
  <2> DEFINE n == 3 + pos
  <2>3. TextRead = n /\ TextRead' = n + 1
    BY <1>1, <1>2, <2>2 DEF TextRead
  <2>4. /\ n \in 0..(MaxPayload + 2) /\ pos \in 0..(MaxPayload - 1)
        /\ n + 1 - 4 = pos /\ ~(n + 1 <= 3) /\ n + 1 \in 1..(n + 1)
        /\ \A i \in 1..n :
              i \in 1..(n + 1) /\ i - 4 # pos /\ (i <= 3 \/ i - 4 \in 0..(MaxPayload - 1))
    BY <1>1, <2>1, Constants
  <2> HIDE DEF n
  <2>5. \A i \in 1..n : ReadOf(head, payload, n)[i] = ReadOf(head', payload', n + 1)[i]
    <3> SUFFICES ASSUME NEW i \in 1..n
                 PROVE  ReadOf(head, payload, n)[i] = ReadOf(head', payload', n + 1)[i]
      OBVIOUS
    <3>1. payload'[i - 4] = payload[i - 4] \/ i <= 3
      BY <1>1, <2>2, <2>4 DEF Payloads
    <3> QED
      BY <1>2, <2>4, <3>1 DEF ReadOf
  <2>6. ReadOf(head', payload', n + 1)[n + 1] = d.val
    <3>1. payload'[pos] = d.val
      BY <1>1, <2>2, <2>4 DEF Payloads
    <3> QED
      BY <2>4, <3>1 DEF ReadOf
  <2>7. Feed(ReadOf(head, payload, n), d.val) = ReadOf(head', payload', n + 1)
    <3>1. head' \in Heads
      BY <1>1, <1>2
    <3> QED
      BY ONLY SMTT(30), <1>1, <3>1, <1>3, <2>4, <2>5, <2>6, ReadGrows
  <2>8. crc' = Read(TextRead)'
    BY <1>1, <1>7, <2>2, <2>3, <2>7 DEF Read
  <2>9. CrcInv'
    BY <1>1, <1>2, <1>5, <1>7, <2>8 DEF CrcInv
  <2>10. pos' \in 1..head[1]
    BY <1>1, <2>2
  <2> QED
    BY <1>2, <1>6, <2>2, <2>9, <2>10
<1>8. CASE ~(head[1] <= MaxPayload)
  <2>1. crc' \in Seq(Int) /\ crc' # <<>> /\ crc'[1] \notin 0..MaxPayload
    <3>1. CASE crc' = Damaged
      BY <3>1 DEF Damaged
    <3>2. CASE crc' # Damaged
      <4>1. crc' = Append(crc, d.val)
        BY <1>2, <3>2 DEF Feed
      <4> QED
        BY SMTT(30), <1>1, <1>8, <4>1
    <3> QED
      BY <3>1, <3>2
  <2>2. CrcInv'
    BY <1>1, <1>2, <1>5, <1>8, <2>1 DEF CrcInv
  <2> QED
    BY <1>2, <1>6, <1>8, <2>2
<1> QED
  BY <1>7, <1>8

\* A byte of the received CRC.
LEMMA ChecksumKeeps ==
    ASSUME FieldInv, CrcInv, NEW d \in Octets, Checksum(d)
    PROVE  /\ FieldInv' /\ CrcInv'
           /\ pos \in head[1]..(head[1] + 1)
           /\ got' # None =>
                /\ pos = head[1] + 1 /\ rxcrc'[2] = d
                /\ Matches(rxcrc', crc) /\ got' = Received
<1>1. /\ expected = head[1] + 2 /\ pos \in head[1]..(head[1] + 1) /\ state = "payload"
      /\ rxcrc \in [1..2 -> Octets] /\ head[1] \in Nat
  <2>1. head[1] \in Byte
    BY DEF FieldInv
  <2>2. head[1] \in Nat
    BY <2>1, Constants DEF Byte
  <2> QED
    BY <2>1, <2>2 DEF Checksum, CrcInv, FieldInv
<1>2. /\ rxcrc' = [rxcrc EXCEPT ![pos - (expected - 2) + 1] = d]
      /\ pos' = pos + 1
      /\ state' = IF pos' = expected THEN "magic" ELSE state
      /\ got' = IF pos' = expected /\ Matches(rxcrc', crc) THEN Received ELSE None
      /\ expected' = expected /\ head' = head /\ payload' = payload /\ crc' = crc
  BY DEF Checksum
<1>3. FieldInv'
  <2>1. rxcrc' \in [1..2 -> Octets]
    BY <1>1, <1>2
  <2>2. pos' \in Nat /\ state' \in {"magic", "header", "payload"}
    BY <1>1, <1>2
  <2> QED
    BY <1>1, <1>2, <2>1, <2>2 DEF FieldInv
<1>4. CrcInv'
  <2>1. CASE pos' = expected
    BY <1>2, <2>1 DEF CrcInv
  <2>2. CASE pos' # expected
    <3>1. pos = head[1] /\ pos' = head[1] + 1 /\ state' = "payload"
      BY <1>1, <1>2, <2>2
    <3>2. TextRead' = TextRead
      BY <1>1, <1>2, <3>1 DEF TextRead
    <3>3. Read(TextRead)' = Read(TextRead)
      BY <1>2, <3>2 DEF Read
    <3> QED
      BY <1>1, <1>2, <3>1, <3>3 DEF CrcInv
  <2> QED
    BY <2>1, <2>2
<1>5. ASSUME got' # None
      PROVE  pos = head[1] + 1 /\ rxcrc'[2] = d /\ Matches(rxcrc', crc) /\ got' = Received
  <2>1. pos' = expected /\ Matches(rxcrc', crc) /\ got' = Received
    BY <1>2, <1>5
  <2>2. pos = head[1] + 1 /\ pos - (expected - 2) + 1 = 2
    BY <1>1, <1>2, <2>1
  <2> QED
    BY <1>1, <1>2, <2>1, <2>2
<1> QED
  BY <1>1, <1>3, <1>4, <1>5

--------------------------------------------------------------------------------
(* A frame that arrives whole.                                                *)

\* The CRC of the sent bytes grows by the byte.
LEMMA PrefixGrows ==
    ASSUME NEW m \in Messages, Len(m.payload) <= MaxPayload
    PROVE  /\ Prefix(m, 0) = <<>>
           /\ Prefix(m, Len(m.payload) + 3) = Text(m)
           /\ \A n \in 0..(Len(m.payload) + 2) : Feed(Prefix(m, n), Text(m)[n + 1]) = Prefix(m, n + 1)
<1> DEFINE k == Len(m.payload)
           t == Text(m)
<1>1. t \in Seq(Byte) /\ Len(t) = k + 3 /\ k \in Nat
  BY TextShape DEF Messages
<1> HIDE DEF k, t
<1>2. t \in Seq(Int)
  <2>1. Byte \subseteq Int
    BY Constants DEF Byte
  <2> QED
    BY <1>1, <2>1, SeqMonotonic
<1>3. ASSUME NEW n \in 0..(k + 3)
      PROVE  /\ Prefix(m, n) \in Seq(Int) /\ Len(Prefix(m, n)) = n
             /\ \A i \in 1..n : Prefix(m, n)[i] = t[i] /\ t[i] \in Byte
  <2>1. n \in Nat /\ \A i \in 1..n : i \in 1..Len(t)
    BY <1>1
  <2>2. \A i \in 1..n : t[i] \in Int /\ t[i] \in Byte
    BY <1>1, <1>2, <2>1, ElementOfSeq
  <2>3. Prefix(m, n) \in [1..n -> Int] /\ DOMAIN Prefix(m, n) = 1..n
    BY <2>2 DEF Prefix, t
  <2>4. \A i \in 1..n : Prefix(m, n)[i] = t[i]
    BY DEF Prefix, t
  <2>5. Prefix(m, n) \in Seq(Int) /\ Len(Prefix(m, n)) = n
    BY <2>1, <2>3
  <2> QED
    BY <2>2, <2>4, <2>5
<1>4. Prefix(m, 0) = <<>>
  BY DEF Prefix
<1>5. Prefix(m, k + 3) = t
  <2>1. k + 3 \in 0..(k + 3)
    BY <1>1
  <2>2. /\ Prefix(m, k + 3) \in Seq(Int) /\ Len(Prefix(m, k + 3)) = k + 3
        /\ \A i \in 1..(k + 3) : Prefix(m, k + 3)[i] = t[i]
    BY <1>3, <2>1
  <2> QED
    BY <1>1, <1>2, <2>2, SeqEqual
<1>6. ASSUME NEW n \in 0..(k + 2)
      PROVE  Feed(Prefix(m, n), t[n + 1]) = Prefix(m, n + 1)
  <2> DEFINE r == Prefix(m, n)
             s == Prefix(m, n + 1)
  <2>1. n \in 0..(k + 3) /\ n + 1 \in 0..(k + 3) /\ n \in Nat /\ n + 1 \in 1..(n + 1)
    BY <1>1
  <2>2. r \in Seq(Int) /\ Len(r) = n /\ \A i \in 1..n : r[i] = t[i] /\ t[i] \in Byte
    BY <1>3, <2>1
  <2>3. s \in Seq(Int) /\ Len(s) = n + 1 /\ \A i \in 1..(n + 1) : s[i] = t[i] /\ t[i] \in Byte
    BY <1>3, <2>1
  <2> HIDE DEF r, s
  <2>4. r # Damaged
    <3> SUFFICES ASSUME r = Damaged PROVE FALSE
      OBVIOUS
    <3>1. n = 1 /\ r[1] = -1
      BY <2>2 DEF Damaged
    <3> QED
      BY <2>2, <3>1, Constants DEF Byte
  <2>5. Feed(r, t[n + 1]) = Append(r, t[n + 1])
    BY <2>4 DEF Feed
  <2>6. t[n + 1] \in Int
    BY <2>1, <2>3, Constants DEF Byte
  <2>7. /\ Append(r, t[n + 1]) \in Seq(Int) /\ Len(Append(r, t[n + 1])) = n + 1
        /\ \A i \in 1..n : Append(r, t[n + 1])[i] = r[i]
        /\ Append(r, t[n + 1])[n + 1] = t[n + 1]
    BY <2>2, <2>6
  <2>8. \A i \in 1..(n + 1) : Append(r, t[n + 1])[i] = s[i]
    <3>1. \A i \in 1..(n + 1) : i \in 1..n \/ i = n + 1
      BY <2>1
    <3> QED
      BY <2>2, <2>3, <2>7, <3>1
  <2>9. Append(r, t[n + 1]) = s
    BY <2>3, <2>7, <2>8, SeqEqual
  <2> QED
    BY <2>5, <2>9 DEF r, s
<1> QED
  BY <1>4, <1>5, <1>6 DEF k, t

\* Two messages with the same text are the same.
LEMMA SameText ==
    ASSUME NEW m \in Messages, Len(m.payload) <= MaxPayload, FieldInv,
           head[1] \in Nat, Read(3 + head[1]) = Text(m)
    PROVE  Received = Sent(m)
<1> DEFINE k == Len(m.payload)
           n == 3 + head[1]
<1>1. /\ Len(Text(m)) = k + 3 /\ k \in Nat /\ m.payload \in Seq(Byte)
      /\ Text(m)[1] = k /\ Text(m)[2] = m.comp /\ Text(m)[3] = m.msg
      /\ \A i \in 1..k : Text(m)[i + 3] = m.payload[i]
  BY TextShape DEF Messages
<1>2. head[1] \in Nat /\ n \in Nat /\ n >= 3
  OBVIOUS
<1>3. \A i \in 1..n : Text(m)[i] = IF i <= 3 THEN head[i] ELSE payload[i - 4]
  BY DEF Read, ReadOf
<1>4. head[1] = k /\ head[2] = m.comp /\ head[3] = m.msg
  <2>1. 1 \in 1..n /\ 2 \in 1..n /\ 3 \in 1..n
    BY <1>2
  <2> QED
    BY <1>1, <1>3, <2>1
<1>5. \A i \in 1..k : payload[i - 1] = m.payload[i]
  <2> SUFFICES ASSUME NEW i \in 1..k PROVE payload[i - 1] = m.payload[i]
    OBVIOUS
  <2>1. i + 3 \in 1..n /\ ~(i + 3 <= 3) /\ i + 3 - 4 = i - 1
    BY <1>1, <1>4
  <2>2. Text(m)[i + 3] = payload[i + 3 - 4]
    BY <1>3, <2>1
  <2> QED
    BY <1>1, <2>1, <2>2
<1>6. m.payload = [i \in 1..k |-> m.payload[i]]
  BY <1>1, LenProperties
<1>7. [i \in 1..head[1] |-> payload[i - 1]] = m.payload
  BY <1>4, <1>5, <1>6
<1> QED
  BY <1>4, <1>7 DEF Received, Sent

\* Whatever the byte, the fields stay those of what was read, and the handlers
\* are called only by the second half of the CRC of what was read.
LEMMA ProcessKeeps ==
    ASSUME FieldInv, CrcInv, NEW d \in Octets, ProcessRx(d)
    PROVE  /\ FieldInv' /\ CrcInv'
           /\ got' # None =>
                d.half = 2 /\ d.of = crc /\ Checksum(d) /\ pos = head[1] + 1 /\ got' = Received
<1>1. CASE Skip(d) \/ Begin(d)
  BY <1>1, BeginKeeps
<1>2. CASE Header(d)
  BY <1>2, HeaderKeeps
<1>3. CASE Payload(d)
  BY <1>3, PayloadKeeps
<1>4. CASE Checksum(d)
  BY <1>4, ChecksumKeeps DEF Matches
<1> QED
  BY <1>1, <1>2, <1>3, <1>4 DEF ProcessRx

\* The handlers see the message to which the CRC belongs.
LEMMA Delivers ==
    ASSUME FieldInv, CrcInv, NEW m \in Messages, Len(m.payload) <= MaxPayload,
           NEW d \in Octets, Checksum(d), pos = head[1] + 1, crc = Text(m)
    PROVE  Received = Sent(m)
<1>1. /\ Text(m) \in Seq(Byte) /\ Text(m)[1] = Len(m.payload) /\ Len(m.payload) \in 0..MaxPayload
  BY TextShape, Constants DEF Messages
<1>2. state = "payload" /\ head[1] \in Nat
  <2>1. head[1] \in Byte
    BY DEF FieldInv
  <2> QED
    BY <2>1, Constants DEF Checksum, Byte
<1>3. /\ head[1] <= MaxPayload => crc = Read(TextRead)
      /\ ~(head[1] <= MaxPayload) => crc[1] \notin 0..MaxPayload
  BY <1>2 DEF CrcInv
<1>4. head[1] <= MaxPayload
  BY <1>1, <1>3
<1>5. TextRead = 3 + head[1]
  BY <1>2 DEF TextRead
<1> QED
  BY <1>2, <1>3, <1>4, <1>5, SameText

\* The next byte arrives.
LEMMA ArriveKeeps ==
    ASSUME ParserInv, Arrive
    PROVE  ParserInv'
<1> DEFINE k == Len(message.payload)
           d == Frame(message)[at + 1]
<1>1. /\ message \in Messages /\ k <= MaxPayload /\ k \in Nat /\ at \in Nat
      /\ Len(Frame(message)) = k + 6
  BY FrameShape DEF ParserInv, LineInv, Messages
<1>2. /\ at \in 0..(k + 5) /\ at' = at + 1 /\ message' = message /\ ProcessRx(d)
      /\ clean' = IF at = 0 THEN state = "magic" ELSE clean
  BY <1>1 DEF Arrive, Leaves, line
<1>3. /\ d \in Octets
      /\ at = 0 => d = Octet(SOF)
      /\ at \in 1..(k + 3) => d = Octet(Text(message)[at])
      /\ at = k + 4 => d = CrcOctet(message, 1)
      /\ at = k + 5 => d = CrcOctet(message, 2)
  <2>1. at + 1 \in 1..(k + 6) /\ at + 1 - 1 = at /\ (at \in 1..(k + 3) => at + 1 \in 2..(k + 4))
    BY <1>1, <1>2
  <2>2. at = 0 => at + 1 = 1
    OBVIOUS
  <2>3. (at = k + 4 => at + 1 = k + 5) /\ (at = k + 5 => at + 1 = k + 6)
    BY <1>1
  <2>4. d \in Octets
    BY <1>1, <2>1, FrameShape
  <2>5. at \in 1..(k + 3) => d = Octet(Text(message)[at])
    BY <1>1, <2>1, FrameShape
  <2>6. at = 0 => d = Octet(SOF)
    BY <1>1, <2>2, FrameShape
  <2>7. (at = k + 4 => d = CrcOctet(message, 1)) /\ (at = k + 5 => d = CrcOctet(message, 2))
    BY <1>1, <2>3, FrameShape
  <2> QED
    BY <2>4, <2>5, <2>6, <2>7
<1>4. FieldInv /\ CrcInv /\ CleanInv
  BY DEF ParserInv
<1> HIDE DEF d, k
<1>5. /\ FieldInv' /\ CrcInv'
      /\ got' # None =>
           d.half = 2 /\ d.of = crc /\ Checksum(d) /\ pos = head[1] + 1 /\ got' = Received
  BY <1>2, <1>3, <1>4, ProcessKeeps
<1>6. LineInv'
  BY <1>1, <1>2 DEF LineInv, k
<1>7. DeliveredIsSent'
  <2> SUFFICES ASSUME got' # None
               PROVE  at' = Len(Frame(message))' /\ got' = Sent(message)'
    BY DEF DeliveredIsSent
  <2>1. at = k + 5 /\ d.of = Text(message)
    <3>1. at = 0 \/ at \in 1..(k + 3) \/ at = k + 4 \/ at = k + 5
      BY <1>1, <1>2
    <3> QED
      BY <1>3, <1>5, <3>1 DEF Octet, CrcOctet
  <2>2. at' = Len(Frame(message))'
    BY <1>1, <1>2, <2>1
  <2>3. Received = Sent(message)
    BY <1>1, <1>3, <1>4, <1>5, <2>1, Delivers DEF k
  <2> QED
    BY <1>2, <1>5, <2>2, <2>3 DEF Sent
<1>8. CleanInv' /\ WholeFrameDelivered'
  <2> SUFFICES ASSUME clean'
               PROVE  /\ at' <= 3 => state' = "header" /\ pos' = at' - 1 /\ crc' = Prefix(message, pos')
                      /\ at' \in 4..(k + 5) =>
                           /\ state' = "payload" /\ pos' = at' - 4 /\ head'[1] = k
                           /\ crc' = Prefix(message, TextRead')
                      /\ at' = k + 5 => rxcrc'[1] = CrcOctet(message, 1)
                      /\ at' = k + 6 => got' = Sent(message)
    <3>1. at' > 0 /\ k' = k /\ Len(Frame(message))' = k + 6
      BY <1>1, <1>2 DEF k
    <3>2. /\ \A n : Prefix(message, n)' = Prefix(message, n)'
          /\ Prefix(message, pos)' = Prefix(message, pos')
          /\ Prefix(message, TextRead)' = Prefix(message, TextRead')
          /\ CrcOctet(message, 1)' = CrcOctet(message, 1)
          /\ Sent(message)' = Sent(message)
      BY <1>2 DEF Prefix, CrcOctet, Sent, Text
    <3> QED
      BY <3>1, <3>2 DEF CleanInv, WholeFrameDelivered, k
  <2>0. /\ at = 0 => state = "magic"
        /\ at # 0 => clean
    <3>1. clean' = IF at = 0 THEN state = "magic" ELSE clean
      BY <1>2
    <3>2. CASE at = 0
      <4>1. clean' = (state = "magic")
        BY <3>1, <3>2, Zenon
      <4> QED
        BY <3>2, <4>1, Zenon
    <3>3. CASE at # 0
      <4>1. clean' = clean
        BY <3>1, <3>3, Zenon
      <4> QED
        BY <3>3, <4>1, Zenon
    <3> QED
      BY <3>2, <3>3
  <2>1. CASE at = 0
    <3>1. state = "magic" /\ Begin(d)
      BY <1>2, <1>3, <2>0, <2>1 DEF ProcessRx, Skip, Header, Payload, Checksum, Octet
    <3>2. state' = "header" /\ pos' = 0 /\ crc' = <<>> /\ at' = 1
      BY <1>2, <2>1, <3>1 DEF Begin
    <3>3. Prefix(message, 0) = <<>>
      BY <1>1, PrefixGrows DEF k
    <3> QED
      BY <1>1, <3>2, <3>3
  <2>2. CASE at \in 1..3
    <3>1. state = "header" /\ pos = at - 1 /\ crc = Prefix(message, at - 1)
      BY <1>1, <1>4, <2>0, <2>2 DEF CleanInv
    <3>2. Header(d)
      BY <1>2, <3>1 DEF ProcessRx, Skip, Begin, Payload, Checksum
    <3>3. d.val = Text(message)[at] /\ at - 1 \in 0..(k + 2) /\ at - 1 + 1 = at
      BY <1>1, <1>3, <2>2 DEF Octet
    <3>4. crc' = Prefix(message, at)
      <4>1. crc' = Feed(Prefix(message, at - 1), Text(message)[at - 1 + 1])
        BY <1>3, <1>4, <3>1, <3>2, <3>3, HeaderKeeps
      <4>2. Feed(Prefix(message, at - 1), Text(message)[at - 1 + 1]) = Prefix(message, at - 1 + 1)
        BY <1>1, <3>3, PrefixGrows DEF k
      <4> QED
        BY <3>3, <4>1, <4>2
    <3>5. crc' = ReadOf(head', payload', at)
      BY <1>3, <1>4, <3>1, <3>2, <3>3, HeaderKeeps
    <3>6. expected = 3
      BY <1>4, <3>1 DEF CrcInv
    <3>7. CASE at < 3
      BY <1>1, <1>2, <3>1, <3>2, <3>4, <3>6, <3>7, <2>2 DEF Header
    <3>8. CASE at = 3
      <4>1. state' = "payload" /\ pos' = 0 /\ at' = 4
        BY <1>2, <3>1, <3>2, <3>6, <3>8 DEF Header
      <4>2. head'[1] = k
        <5>1. Prefix(message, 3)[1] = Text(message)[1] /\ ReadOf(head', payload', 3)[1] = head'[1]
          BY DEF Prefix, ReadOf
        <5>2. Text(message)[1] = k
          BY <1>1, TextShape DEF k
        <5> QED
          BY <3>4, <3>5, <3>8, <5>1, <5>2
      <4>3. TextRead' = 3
        BY <1>1, <4>1, <4>2 DEF TextRead
      <4> QED
        BY <1>1, <3>4, <3>8, <4>1, <4>2, <4>3
    <3> QED
      BY <2>2, <3>7, <3>8
  <2>3. CASE at \in 4..(k + 5)
    <3>1. /\ state = "payload" /\ pos = at - 4 /\ head[1] = k /\ crc = Prefix(message, TextRead)
          /\ at = k + 5 => rxcrc[1] = CrcOctet(message, 1)
      BY <1>1, <1>4, <2>0, <2>3 DEF CleanInv, k
    <3>2. expected = k + 2 /\ (Payload(d) \/ Checksum(d))
      BY <1>2, <1>4, <3>1 DEF ProcessRx, Skip, Begin, Header, CrcInv
    <3>3. CASE at \in 4..(k + 3)
      <4>1. Payload(d) /\ TextRead = at - 1
        BY <1>1, <3>1, <3>2, <3>3 DEF Checksum, TextRead
      <4>2. /\ d.val = Text(message)[at] /\ at - 1 \in 0..(k + 2) /\ at - 1 + 1 = at
        BY <1>1, <1>3, <3>3 DEF Octet
      <4>3. crc' = Feed(crc, d.val) /\ pos' = pos + 1
        BY <1>1, <1>3, <1>4, <3>1, <4>1, PayloadKeeps
      <4>4. crc' = Prefix(message, at)
        <5>1. Feed(Prefix(message, at - 1), Text(message)[at - 1 + 1]) = Prefix(message, at - 1 + 1)
          BY <1>1, <4>2, PrefixGrows DEF k
        <5> QED
          BY <3>1, <4>1, <4>2, <4>3, <5>1
      <4>5. state' = "payload" /\ head' = head
        BY <3>1, <4>1 DEF Payload
      <4>6. TextRead' = at
        BY <1>1, <3>1, <3>3, <4>3, <4>5 DEF TextRead
      <4> QED
        BY <1>1, <1>2, <3>1, <3>3, <4>3, <4>4, <4>5, <4>6
    <3>4. CASE at = k + 4
      <4>1. Checksum(d)
        BY <1>1, <3>1, <3>2, <3>4 DEF Payload
      <4>2. pos = k /\ pos' = k + 1 /\ at' = k + 5 /\ pos - (expected - 2) + 1 = 1
        BY <1>1, <1>2, <3>1, <3>2, <3>4, <4>1 DEF Checksum
      <4>3. /\ state' = "payload" /\ head' = head /\ crc' = crc
            /\ rxcrc' = [rxcrc EXCEPT ![1] = d]
        BY <1>1, <3>1, <3>2, <4>1, <4>2 DEF Checksum
      <4>4. rxcrc'[1] = CrcOctet(message, 1)
        BY <1>3, <1>4, <3>4, <4>3 DEF FieldInv
      <4>5. TextRead' = TextRead
        BY <1>1, <3>1, <4>2, <4>3 DEF TextRead
      <4> QED
        BY <1>1, <3>1, <4>2, <4>3, <4>4, <4>5
    <3>5. CASE at = k + 5
      <4>1. Checksum(d) /\ d = CrcOctet(message, 2)
        BY <1>1, <1>3, <3>1, <3>2, <3>5 DEF Payload
      <4>2. pos = k + 1 /\ pos' = expected /\ at' = k + 6 /\ pos - (expected - 2) + 1 = 2
        BY <1>1, <1>2, <3>1, <3>2, <3>5, <4>1 DEF Checksum
      <4>3. rxcrc' = [rxcrc EXCEPT ![2] = d]
        BY <4>1, <4>2 DEF Checksum
      <4>4. rxcrc'[1] = CrcOctet(message, 1) /\ rxcrc'[2] = CrcOctet(message, 2)
        BY <1>4, <3>1, <3>5, <4>1, <4>3 DEF FieldInv
      <4>5. crc = Text(message)
        <5>1. TextRead = k + 3
          BY <1>1, <3>1, <4>2 DEF TextRead
        <5> QED
          BY <1>1, <3>1, <5>1, PrefixGrows DEF k
      <4>6. Matches(rxcrc', crc)
        BY <4>4, <4>5 DEF Matches, CrcOctet
      <4>7. got' = Received
        BY <4>1, <4>2, <4>6 DEF Checksum
      <4>8. Received = Sent(message)
        BY <1>1, <1>3, <1>4, <3>1, <4>1, <4>2, <4>5, Delivers DEF k
      <4> QED
        BY <1>1, <4>2, <4>7, <4>8
    <3> QED
      BY <1>1, <2>3, <3>3, <3>4, <3>5
  <2> QED
    BY <1>1, <1>2, <2>1, <2>2, <2>3
<1> QED
  BY <1>5, <1>6, <1>7, <1>8 DEF ParserInv

\* A byte that is changed on the line ends no frame.
LEMMA ChangeKeeps ==
    ASSUME ParserInv, Change
    PROVE  ParserInv'
<1>1. PICK v \in Byte : ProcessRx(Octet(v))
  BY DEF Change
<1>2. Octet(v) \in Octets /\ Octet(v).half = 0
  BY DEF Octet, Octets
<1>3. FieldInv /\ CrcInv /\ message' = message /\ clean' = FALSE
  BY DEF ParserInv, Change
<1>4. FieldInv' /\ CrcInv' /\ ~(got' # None)
  BY <1>1, <1>2, <1>3, ProcessKeeps
<1>5. LineInv'
  <2>1. Len(Frame(message)) = Len(message.payload) + 6
    BY FrameShape DEF ParserInv, LineInv
  <2> QED
    BY <1>3, <2>1 DEF ParserInv, LineInv, Change, Leaves, Messages
<1>6. CleanInv' /\ WholeFrameDelivered' /\ DeliveredIsSent'
  BY <1>3, <1>4 DEF CleanInv, WholeFrameDelivered, DeliveredIsSent
<1> QED
  BY <1>4, <1>5, <1>6 DEF ParserInv

\* The other steps leave the parser alone or create it anew.
LEMMA OthersKeep ==
    ASSUME ParserInv, SendNoisy \/ SendPlain \/ Lose \/ Create \/ UNCHANGED vars
    PROVE  ParserInv'
<1>1. Len(Frame(message)) = Len(message.payload) + 6 /\ Len(message.payload) \in Nat
  BY FrameShape DEF ParserInv, LineInv, Messages
<1>2. CASE SendNoisy \/ SendPlain
  <2>1. PICK m \in Noisy \cup Plain : Send(m)
    BY <1>2 DEF SendNoisy, SendPlain
  <2>2. /\ message' = m /\ at' = 0 /\ got' = None /\ clean' = FALSE
        /\ UNCHANGED <<state, fields>> /\ Len(m.payload) <= MaxPayload
    BY <2>1 DEF Send
  <2>3. LineInv'
    <3>1. m \in Messages
      BY ParserAssumption
    <3> QED
      BY <2>2, <3>1 DEF LineInv, Messages
  <2>4. FieldInv' /\ CrcInv'
    BY <2>2 DEF ParserInv, FieldInv, CrcInv, TextRead, Read, fields
  <2> QED
    BY <2>2, <2>3, <2>4 DEF ParserInv, CleanInv, DeliveredIsSent, WholeFrameDelivered
<1>3. CASE Lose
  <2>1. /\ message' = message /\ at' = at + 1 /\ at < Len(Frame(message))
        /\ got' = None /\ clean' = FALSE /\ UNCHANGED <<state, fields>>
    BY <1>3 DEF Lose, Leaves
  <2>2. LineInv'
    BY <1>1, <2>1 DEF ParserInv, LineInv
  <2>3. FieldInv' /\ CrcInv'
    BY <2>1 DEF ParserInv, FieldInv, CrcInv, TextRead, Read, fields
  <2> QED
    BY <2>1, <2>2, <2>3 DEF ParserInv, CleanInv, DeliveredIsSent, WholeFrameDelivered
<1>4. CASE Create
  <2>1. /\ message' = message /\ at' = at /\ got' = None /\ clean' = FALSE
        /\ state' = "magic" /\ pos' = 0 /\ UNCHANGED <<expected, head, payload, rxcrc>>
    BY <1>4 DEF Create, Created
  <2>2. LineInv' /\ FieldInv' /\ CrcInv'
    BY <2>1 DEF ParserInv, LineInv, FieldInv, CrcInv
  <2> QED
    BY <2>1, <2>2 DEF ParserInv, CleanInv, DeliveredIsSent, WholeFrameDelivered
<1>5. CASE UNCHANGED vars
  BY <1>5 DEF ParserInv, LineInv, FieldInv, CrcInv, CleanInv, DeliveredIsSent,
     WholeFrameDelivered, vars, line, fields, TextRead, Read, Prefix, Text
<1> QED
  BY <1>2, <1>3, <1>4, <1>5

\* The parser between frames has read nothing.
LEMMA InitHolds == Init => ParserInv
<1> SUFFICES ASSUME Init PROVE ParserInv
  OBVIOUS
<1>1. LineInv
  <2>1. message \in Messages /\ Len(message.payload) <= MaxPayload
    BY ParserAssumption DEF Init
  <2>2. at = Len(message.payload) + 6 /\ Len(message.payload) \in Nat
    BY <2>1, FrameShape DEF Init, Messages
  <2> QED
    BY <2>1, <2>2 DEF LineInv
<1>2. FieldInv
  <2>1. 0 \in Byte
    BY Constants DEF Byte
  <2>2. Octet(0) \in Octets
    BY <2>1 DEF Octet, Octets
  <2> QED
    BY <2>1, <2>2 DEF Init, FieldInv
<1>3. CrcInv /\ CleanInv /\ DeliveredIsSent /\ WholeFrameDelivered
  BY DEF Init, CrcInv, CleanInv, DeliveredIsSent, WholeFrameDelivered
<1> QED
  BY <1>1, <1>2, <1>3 DEF ParserInv

--------------------------------------------------------------------------------
(* The bound on what one damaged frame can cost.                              *)

\* A plain frame is not shorter than ShortestFrame, and only begins with SOF.
LEMMA PlainShape ==
    ASSUME NEW m \in Plain
    PROVE  /\ m \in Messages /\ Len(m.payload) <= MaxPayload /\ Len(m.payload) \in Nat
           /\ Len(Frame(m)) = Len(m.payload) + 6
           /\ Frame(m)[1].val = SOF
           /\ \A i \in 2..Len(Frame(m)) : Frame(m)[i].val # SOF
           /\ \A i \in 1..Len(Frame(m)) : Frame(m)[i] \in Octets
<1>1. m \in Messages /\ Len(m.payload) <= MaxPayload /\ Len(m.payload) \in Nat
  BY ParserAssumption DEF Messages
<1>2. Len(Frame(m)) = Len(m.payload) + 6 /\ Frame(m)[1] = Octet(SOF)
  BY <1>1, FrameShape
<1>3. \A i \in 1..Len(Frame(m)) : Frame(m)[i] \in Octets
  BY <1>1, <1>2, FrameShape
<1> QED
  BY <1>1, <1>2, <1>3, ParserAssumption DEF Octet

\* The frames that fit into the longest one, but one for the length that is
\* excepted.
LEMMA LongestFrame ==
    /\ MaxMissed \in Nat /\ 2 <= MaxMissed
    /\ \A n \in Nat : n * ShortestFrame <= MaxPayload + 8 => n < MaxMissed
  BY Constants DEF MaxMissed, ShortestFrame

\* What is delivered ends the frame of the parser.
LEMMA DeliveryEnds ==
    ASSUME FieldInv, CrcInv, NEW d \in Octets, ProcessRx(d), got' # None
    PROVE  state' = "magic"
<1>1. Checksum(d)
  BY ProcessKeeps
<1> QED
  BY <1>1 DEF Checksum

\* A message is something.
LEMMA SentIsSome == \A m : Sent(m) # None
<1> TAKE m
<1>1. "comp" \in DOMAIN Sent(m)
  BY DEF Sent
<1>2. DOMAIN None = {}
  BY DEF None
<1> QED
  BY <1>1, <1>2

\* A parser in step stays in step.
LEMMA InStep ==
    ASSUME ParserInv, ParserInv', OutageInv, Arrive, quiet, clean'
    PROVE  OutageInv'
<1> DEFINE L == Len(Frame(message))
           d == Frame(message)[at + 1]
<1>1. /\ message \in Plain /\ message' = message /\ quiet' /\ missed \in 0..MaxMissed
      /\ L \in Nat /\ L = Len(message.payload) + 6 /\ Len(message.payload) \in 0..MaxPayload
      /\ at \in 0..(L - 1) /\ at' = at + 1 /\ ProcessRx(d) /\ d \in Octets
  BY PlainShape, Constants DEF OutageInv, Arrive, Leaves, line, ParserInv, LineInv
<1>2. at' = L => got' # None /\ state' = "magic"
  <2> SUFFICES ASSUME at' = L PROVE got' # None /\ state' = "magic"
    OBVIOUS
  <2>1. got' = Sent(message')
    BY <1>1 DEF ParserInv, WholeFrameDelivered, Sent
  <2> QED
    BY <1>1, <2>1, SentIsSome, DeliveryEnds DEF ParserInv
<1>3. at' = L => ~Runaway
  <2> SUFFICES ASSUME at' = L PROVE ~Runaway
    OBVIOUS
  <2>1. at \in 4..(Len(message.payload) + 5) /\ at # 0
    BY <1>1
  <2>2. clean' = IF at = 0 THEN state = "magic" ELSE clean
    BY DEF Arrive
  <2>3. clean
    BY <2>1, <2>2, Zenon
  <2> QED
    BY <1>1, <2>1, <2>3, Constants DEF ParserInv, CleanInv, Runaway
<1>4. missed' = IF at' = L THEN 0 ELSE missed
  BY <1>1, <1>2, <1>3 DEF Arrive, Counted
<1> QED
  BY <1>1, <1>2, <1>4, LongestFrame DEF OutageInv

\* A parser that is in another frame reads on, and comes to its end.
LEMMA OutOfStep ==
    ASSUME ParserInv, OutageInv, Arrive, quiet, ~clean'
    PROVE  OutageInv'
<1> DEFINE L == Len(Frame(message))
           d == Frame(message)[at + 1]
<1>1. /\ message \in Plain /\ message' = message /\ quiet' /\ missed \in 0..MaxMissed /\ MaxMissed \in Nat
      /\ L \in Nat /\ 6 <= L
      /\ at \in 0..(L - 1) /\ at' = at + 1 /\ ProcessRx(d) /\ d \in Octets
  BY PlainShape, LongestFrame, Constants DEF OutageInv, Arrive, Leaves, line, ParserInv, LineInv
<1>2. ~clean /\ (at = 0 => state # "magic")
  <2>1. clean' = IF at = 0 THEN state = "magic" ELSE clean
    BY DEF Arrive
  <2>2. clean => at # 0
    BY <1>1 DEF ParserInv, CleanInv
  <2> QED
    BY <2>1, <2>2, Zenon
<1>3. /\ FieldInv /\ CrcInv /\ pos \in Nat /\ head[1] \in Byte
      /\ state \in {"magic", "header", "payload"}
  BY DEF ParserInv, FieldInv
<1>4. /\ Swallowed = missed * 6 + at
      /\ Swallowed' = missed' * 6 + IF at' < L THEN at' ELSE 0
  BY <1>1 DEF Swallowed, ShortestFrame
<1>5. missed' = IF at' < L \/ Runaway THEN missed ELSE IF got' # None THEN 0 ELSE missed + 1
  BY <1>1 DEF Arrive, Counted
<1>6. \A n \in Nat : n * 6 <= MaxPayload + 8 => n < MaxMissed
  BY LongestFrame DEF ShortestFrame
<1>7. 2 <= MaxMissed /\ MaxPayload \in Nat
  BY LongestFrame, Constants
<1> HIDE DEF L, d
<1>8. SUFFICES /\ missed' \in 0..MaxMissed
               /\ state' = "header" => Swallowed' <= pos'
               /\ state' = "payload" => IF Runaway' THEN missed' = 0 ELSE Swallowed' <= 3 + pos'
               /\ state' = "magic" /\ at' < L => missed' < MaxMissed
  BY <1>1 DEF OutageInv, L
<1>9. CASE state = "header"
  <2>1. Header(d) /\ expected = 3 /\ pos \in 0..2
    BY <1>1, <1>3, <1>9 DEF ProcessRx, Skip, Begin, Payload, Checksum, CrcInv
  <2>2. missed * 6 + at <= pos
    BY <1>1, <1>2, <1>4, <1>9 DEF OutageInv
  <2>3. missed = 0 /\ at <= pos /\ at' < L
    BY <1>1, <2>1, <2>2
  <2>4. missed' = 0
    BY <1>5, <2>3
  <2>5. \/ state' = "header" /\ pos' = pos + 1
        \/ state' = "payload" /\ pos' = 0 /\ pos = 2
    BY <1>9, <2>1 DEF Header
  <2>6. Swallowed' = at + 1
    BY <1>1, <1>4, <2>3, <2>4
  <2> QED
    BY <1>1, <1>3, <1>7, <2>3, <2>4, <2>5, <2>6
<1>10. CASE Runaway
  <2>1. missed = 0 /\ state = "payload"
    BY <1>1, <1>2, <1>10 DEF OutageInv, Runaway
  <2>2. missed' = 0
    BY <1>5, <1>10, <2>1
  <2>3. state' \in {"payload", "magic"} /\ head' = head
    BY <1>1, <2>1 DEF ProcessRx, Skip, Begin, Header, Payload, Checksum
  <2>4. state' = "payload" => Runaway'
    BY <1>10, <2>3 DEF Runaway
  <2>5. missed' \in 0..MaxMissed /\ missed' < MaxMissed
    BY <1>1, <1>7, <2>2
  <2> QED
    BY <2>2, <2>3, <2>4, <2>5
<1>11. CASE state = "payload" /\ ~Runaway
  <2>1. head[1] \in 0..(MaxPayload + 4) /\ expected = head[1] + 2 /\ pos \in 0..(head[1] + 1)
    BY <1>3, <1>7, <1>11 DEF Byte, Runaway, CrcInv
  <2>2. missed * 6 + at <= 3 + pos
    BY <1>1, <1>2, <1>4, <1>11 DEF OutageInv
  <2>3. missed < MaxMissed
    <3>1. missed * 6 <= MaxPayload + 8
      BY <1>1, <1>7, <2>1, <2>2
    <3> QED
      BY <1>1, <1>6, <3>1
  <2>4. pos' = pos + 1 /\ state' \in {"payload", "magic"} /\ head' = head /\ (state' = "payload" => got' = None)
    BY <1>1, <1>11, <2>1 DEF ProcessRx, Skip, Begin, Header, Payload, Checksum
  <2>5. state' = "payload" => Swallowed' <= 3 + pos'
    <3>1. CASE at' < L
      BY <1>1, <1>3, <1>4, <1>5, <2>2, <2>4, <3>1
    <3>2. CASE at' = L
      <4>1. state' = "payload" => missed' = missed + 1
        BY <1>1, <1>5, <1>11, <2>4, <3>2
      <4> QED
        BY <1>1, <1>3, <1>4, <2>2, <2>4, <3>2, <4>1
    <3> QED
      BY <1>1, <3>1, <3>2
  <2>6. missed' \in 0..MaxMissed /\ (at' < L => missed' < MaxMissed)
    BY <1>1, <1>5, <1>7, <2>3
  <2> QED
    BY <1>11, <2>4, <2>5, <2>6 DEF Runaway
<1>12. CASE state = "magic"
  <2>1. at + 1 \in 2..L
    BY <1>1, <1>2, <1>12
  <2>2. d.val # SOF
    BY <1>1, <2>1, PlainShape DEF d, L
  <2>3. state' = "magic" /\ got' = None
    BY <1>1, <1>12, <2>2 DEF ProcessRx, Skip, Begin, Header, Payload, Checksum
  <2>4. missed < MaxMissed
    BY <1>1, <1>2, <1>12, <2>1 DEF OutageInv, L
  <2> QED
    BY <1>1, <1>5, <1>7, <2>3, <2>4
<1> QED
  BY <1>3, <1>9, <1>10, <1>11, <1>12

LEMMA OutageKeeps ==
    ASSUME ParserInv, ParserInv', OutageInv, [Next]_vars
    PROVE  OutageInv'
<1>1. CASE Arrive /\ quiet
  BY <1>1, InStep, OutOfStep
<1>2. CASE ~quiet /\ ~quiet' /\ missed' = missed
  <2>1. missed' = 0 /\ 0 \in 0..MaxMissed
    BY <1>2, LongestFrame DEF OutageInv
  <2> QED
    BY <1>2, <2>1 DEF OutageInv
<1>3. CASE SendPlain
  <2>1. PICK m \in Plain : Send(m)
    BY <1>3 DEF SendPlain
  <2>2. /\ message' = m /\ at' = 0 /\ ~clean' /\ quiet' /\ UNCHANGED <<state, pos, head, missed>>
        /\ at = Len(Frame(message))
    BY <1>3, <2>1 DEF Send, SendPlain, fields
  <2>3. Len(Frame(m)) \in Nat /\ 0 < Len(Frame(m)) /\ missed \in Nat /\ pos \in Nat
    BY PlainShape, LongestFrame DEF OutageInv, ParserInv, FieldInv
  <2>4. Swallowed' = missed * ShortestFrame
    BY <2>2, <2>3 DEF Swallowed, ShortestFrame
  <2>5. CASE ~quiet
    <3>1. missed = 0 /\ Swallowed' = 0
      BY <2>4, <2>5 DEF OutageInv, ShortestFrame
    <3> QED
      BY <2>2, <2>3, <3>1 DEF OutageInv, Runaway
  <2>6. CASE quiet
    <3>1. Len(Frame(message)) \in Nat
      BY <2>6, PlainShape DEF OutageInv
    <3>2. Swallowed = missed * ShortestFrame
      <4>1. ~(at < Len(Frame(message)))
        BY <2>2, <3>1
      <4> QED
        BY <2>3, <4>1 DEF Swallowed, ShortestFrame
    <3> QED
      BY <2>2, <2>3, <2>4, <2>6, <3>2 DEF OutageInv, Runaway
  <2> QED
    BY <2>5, <2>6
<1>4. CASE UNCHANGED vars
  BY <1>4 DEF OutageInv, Swallowed, Runaway, vars, line, fields
<1> QED
  BY <1>1, <1>2, <1>3, <1>4
     DEF Next, SendNoisy, Send, Arrive, Counted, line, Change, Lose, Create, Fault

LEMMA InitOutage == Init => OutageInv
  BY LongestFrame DEF Init, OutageInv

--------------------------------------------------------------------------------
(* Types.                                                                     *)

\* What the parser counts stays in its bounds, rx_msg_pos in the frame.
LEMMA ProcessTypes ==
    ASSUME FieldInv, CrcInv, TypeOK, NEW d \in Octets, ProcessRx(d)
    PROVE  /\ expected' \in 0..(MaxPayload + 7) /\ pos' \in 0..expected'
           /\ crc' = Damaged \/ crc' \in Seq(Byte)
<1>1. /\ expected \in 0..(MaxPayload + 7) /\ pos \in 0..expected
      /\ crc = Damaged \/ crc \in Seq(Byte)
      /\ d.val \in Byte /\ MaxPayload \in Nat /\ head \in [1..3 -> Byte]
      /\ Byte = 0..(MaxPayload + 5)
  BY Constants DEF TypeOK, Octets, FieldInv, Byte
<1>2. Feed(crc, d.val) = Damaged \/ Feed(crc, d.val) \in Seq(Byte)
  <2>1. crc \in Seq(Byte) => Append(crc, d.val) \in Seq(Byte)
    BY <1>1
  <2> QED
    BY <1>1, <2>1 DEF Feed
<1>3. <<>> \in Seq(Byte)
  OBVIOUS
<1>4. CASE Skip(d) \/ Begin(d)
  <2>1. CASE Skip(d)
    BY <1>1, <2>1 DEF Skip, fields
  <2>2. CASE Begin(d)
    <3>1. expected' = 3 /\ pos' = 0 /\ crc' = <<>>
      BY <2>2 DEF Begin
    <3> QED
      BY <1>1, <1>3, <3>1
  <2> QED
    BY <1>4, <2>1, <2>2
<1>5. CASE Header(d)
  <2>1. expected = 3 /\ pos \in 0..2
    BY <1>5 DEF Header, CrcInv
  <2>2. head' = [head EXCEPT ![pos + 1] = d.val] /\ crc' = Feed(crc, d.val)
    BY <1>5 DEF Header
  <2>3. head'[1] \in 0..(MaxPayload + 5)
    BY <1>1, <2>1, <2>2
  <2>4. \/ expected' = head'[1] + 2 /\ pos' = 0
        \/ expected' = 3 /\ pos' = pos + 1
    BY <1>5, <2>1 DEF Header
  <2> QED
    BY <1>1, <1>2, <2>1, <2>2, <2>3, <2>4
<1>6. CASE Payload(d)
  <2>1. expected = head[1] + 2 /\ pos < head[1] /\ head[1] \in 0..(MaxPayload + 5)
    BY <1>1, <1>6 DEF Payload, CrcInv
  <2>2. /\ expected' = expected /\ crc' \in {Damaged, Feed(crc, d.val)}
        /\ pos' = pos + 1 \/ (pos = MaxPayload + 4 /\ pos' = d.val)
    BY <1>6 DEF Payload
  <2> QED
    BY <1>1, <1>2, <2>1, <2>2
<1>7. CASE Checksum(d)
  <2>1. expected = head[1] + 2 /\ pos \in 0..(head[1] + 1) /\ head[1] \in 0..(MaxPayload + 5)
    BY <1>1, <1>7 DEF Checksum, CrcInv
  <2> QED
    BY <1>1, <1>7, <2>1 DEF Checksum
<1> QED
  BY <1>4, <1>5, <1>6, <1>7 DEF ProcessRx

LEMMA TypesKeep ==
    ASSUME ParserInv, ParserInv', OutageInv', TypeOK, [Next]_vars
    PROVE  TypeOK'
<1>1. /\ state' \in {"magic", "header", "payload"}
      /\ head' \in [1..3 -> Byte] /\ payload' \in [0..(MaxPayload - 1) -> Byte]
      /\ \A h \in 1..2 : rxcrc'[h].val \in Byte /\ rxcrc'[h].half \in 0..2
      /\ missed' \in 0..(MaxMissed + 1)
  BY LongestFrame DEF ParserInv, FieldInv, OutageInv, Octets
<1>2. at' \in 0..Len(Frame(message'))
  <2>1. Len(Frame(message')) = Len(message'.payload) + 6
    BY FrameShape DEF ParserInv, LineInv
  <2> QED
    BY <2>1 DEF ParserInv, LineInv
<1>3. /\ message' \in Noisy \cup Plain /\ noisy' \in 0..MaxNoisy /\ faults' \in 0..MaxFaults
      /\ quiet' \in BOOLEAN
  <2>1. CASE SendNoisy \/ SendPlain
    <3>1. MaxNoisy \in Nat /\ noisy \in 0..MaxNoisy /\ faults \in 0..MaxFaults /\ quiet \in BOOLEAN
      BY ParserAssumption DEF TypeOK
    <3>2. message' \in Noisy \cup Plain /\ faults' = faults
      BY <2>1 DEF SendNoisy, SendPlain, Send
    <3>3. \/ noisy < MaxNoisy /\ noisy' = noisy + 1 /\ quiet' = quiet
          \/ noisy' = noisy /\ quiet' = TRUE
      BY <2>1 DEF SendNoisy, SendPlain
    <3>4. noisy' \in 0..MaxNoisy
      BY <3>1, <3>3
    <3>5. quiet' \in BOOLEAN
      BY <3>1, <3>3, Zenon
    <3> QED
      BY <3>1, <3>2, <3>4, <3>5
  <2>2. CASE Arrive \/ UNCHANGED vars
    BY <2>2 DEF TypeOK, Arrive, line, vars
  <2>3. CASE Change \/ Lose \/ Create
    BY <2>3, ParserAssumption DEF TypeOK, Change, Lose, Create, Fault
  <2> QED
    BY <2>1, <2>2, <2>3 DEF Next
<1>4. clean' \in BOOLEAN
  <2>1. clean \in BOOLEAN
    BY DEF TypeOK
  <2>2. clean' = (IF at = 0 THEN state = "magic" ELSE clean) => clean' \in BOOLEAN
    BY <2>1, Zenon
  <2>3. \/ clean' = (IF at = 0 THEN state = "magic" ELSE clean)
        \/ clean' = FALSE \/ clean' = clean
    BY DEF Next, Arrive, SendNoisy, SendPlain, Send, Change, Lose, Create, vars
  <2> QED
    BY <2>1, <2>2, <2>3, Zenon
<1>5. /\ expected' \in 0..(MaxPayload + 7) /\ pos' \in 0..expected'
      /\ crc' = Damaged \/ crc' \in Seq(Byte)
  <2>1. \A v \in Byte : Octet(v) \in Octets
    BY DEF Octet, Octets
  <2>2. CASE Arrive
    <3>1. at + 1 \in 1..Len(Frame(message)) /\ ProcessRx(Frame(message)[at + 1])
      BY <2>2, FrameShape DEF Arrive, Leaves, ParserInv, LineInv, Messages
    <3>2. Frame(message)[at + 1] \in Octets
      BY <3>1, FrameShape DEF ParserInv, LineInv
    <3> QED
      BY <3>1, <3>2, ProcessTypes DEF ParserInv
  <2>3. CASE Change
    BY <2>1, <2>3, ProcessTypes DEF Change, ParserInv
  <2>4. CASE Create
    <3>1. <<>> \in Seq(Byte)
      OBVIOUS
    <3> QED
      BY <2>4, <3>1 DEF Create, Created, TypeOK
  <2>5. CASE SendNoisy \/ SendPlain \/ Lose \/ UNCHANGED vars
    BY <2>5 DEF SendNoisy, SendPlain, Send, Lose, vars, fields, TypeOK
  <2> QED
    BY <2>2, <2>3, <2>4, <2>5 DEF Next
<1> QED
  BY <1>1, <1>2, <1>3, <1>4, <1>5 DEF TypeOK

LEMMA InitTypes == Init => TypeOK
<1> SUFFICES ASSUME Init PROVE TypeOK
  OBVIOUS
<1>1. 0 \in Byte /\ <<>> \in Seq(Byte) /\ 0 \in 0..(MaxPayload + 7) /\ 0 \in 0..0
  BY Constants DEF Byte
<1>2. at \in 0..Len(Frame(message))
  BY InitHolds, FrameShape DEF ParserInv, LineInv, Init
<1>3. \A h \in 1..2 : rxcrc[h].val \in Byte /\ rxcrc[h].half \in 0..2
  BY InitHolds DEF ParserInv, FieldInv, Octets
<1>4. 0 \in 0..MaxNoisy /\ 0 \in 0..MaxFaults /\ 0 \in 0..(MaxMissed + 1)
  BY LongestFrame, ParserAssumption
<1> QED
  BY <1>1, <1>2, <1>3, <1>4 DEF Init, TypeOK

--------------------------------------------------------------------------------
(* The results.                                                               *)

\* The state of xlink_process_rx always belongs to the bytes it has read since
\* the last SOF it took, whatever is lost or changed on the line.
THEOREM ParserCorrect == Spec => []ParserInv
<1>1. ParserInv /\ [Next]_vars => ParserInv'
  BY ArriveKeeps, ChangeKeeps, OthersKeep DEF Next
<1> QED
  BY InitHolds, <1>1, PTL DEF Spec

\* What xlink_process_rx gives to the handlers is the message whose last byte
\* has just arrived, whole and unchanged, for every length of payload, every
\* SOF, all messages and any number of lost and changed bytes.
THEOREM AlwaysDeliveredIsSent == Spec => []DeliveredIsSent
<1>1. ParserInv => DeliveredIsSent
  BY DEF ParserInv
<1> QED
  BY ParserCorrect, <1>1, PTL

\* A frame that arrives whole while the parser waits for one reaches the
\* handlers with its last byte.
THEOREM AlwaysWholeFrameDelivered == Spec => []WholeFrameDelivered
<1>1. ParserInv => WholeFrameDelivered
  BY DEF ParserInv
<1> QED
  BY ParserCorrect, <1>1, PTL

\* The frames that a good line loses to one damaged frame are bounded by the
\* longest frame that a header can announce, for every XLINK_MAX_PAYLOAD and
\* every set of plain messages; the one length that overwrites rx_msg_pos is
\* excepted.
THEOREM OutageCorrect == Spec => []OutageInv
<1>1. ParserInv /\ ParserInv' /\ OutageInv /\ [Next]_vars => OutageInv'
  BY OutageKeeps
<1> QED
  BY ParserCorrect, InitOutage, <1>1, PTL DEF Spec

THEOREM AlwaysOutageIsBounded == Spec => []OutageIsBounded
<1>1. OutageInv => OutageIsBounded
  BY LongestFrame DEF OutageInv, OutageIsBounded
<1> QED
  BY OutageCorrect, <1>1, PTL

\* Every variable keeps its type: rx_msg_pos stays within the frame that the
\* header announces, even where the length byte makes the parser overwrite it.
THEOREM TypeCorrect == Spec => []TypeOK
<1>1. ParserInv /\ ParserInv' /\ OutageInv' /\ TypeOK /\ [Next]_vars => TypeOK'
  BY TypesKeep
<1> QED
  BY ParserCorrect, OutageCorrect, InitTypes, <1>1, PTL DEF Spec
================================================================================
