----------------------------- MODULE PacketStream -----------------------------
(***************************************************************************)
(* MQTT packets as bytes: readPacket and decodePacket of MQTTClient.h on a *)
(* TCP stream whose bytes come whenever they come, while one timer runs    *)
(* for the whole packet; the remaining-length code of MQTTPacket.c; and    *)
(* isTopicMatched.  A byte of a body is the number of its packet; a header *)
(* byte is 100 plus that.                                                  *)
(***************************************************************************)
EXTENDS Naturals, Sequences, FiniteSets

CONSTANTS
    MAX_MQTT_PACKET_SIZE,   \* the read buffer
    BodySizes,              \* sizes of the packets sent
    MaxSent,                \* bound: packets sent
    Lengths,                \* remaining lengths the code is tried on
    Filters, Topics         \* topic filters and names: sequences of characters

ASSUME StreamAssumption ==
    /\ MAX_MQTT_PACKET_SIZE \in Nat /\ MaxSent \in Nat
    /\ BodySizes \subseteq 0..127 /\ Lengths \subseteq 0..(128 * 128 * 128 * 128 - 1)

VARIABLES
    sent,       \* sizes of the bodies sent
    stream,     \* bytes under way
    arrived,    \* how many of them are there to be read
    reading,    \* where readPacket is
    head,       \* the header byte it read
    rem_len,    \* what it knows of the remaining length
    got,        \* packets returned: header byte and body
    cut,        \* a timer ran out inside a packet, or one was too long
    tried       \* a length, or a filter and a topic, that are tried

streamVars == <<sent, stream, arrived, reading, head, rem_len, got, cut, tried>>

-----------------------------------------------------------------------------
(* The remaining length *)

\* MQTTPacket_encode
Encoded(length) ==
    LET encode[n \in 0..length] ==
            IF n < 128 THEN <<n>> ELSE <<(n % 128) + 128>> \o encode[n \div 128]
    IN  encode[length]

\* MQTTPacket_decode and decodePacket: the bytes read and the value; after
\* four bytes the rest is bad data.
Decoded(bytes) ==
    LET decode[i \in 1..5] ==
            IF i = 5 THEN [len |-> 5, value |-> 0]
            ELSE IF bytes[i] < 128 THEN [len |-> i, value |-> bytes[i]]
            ELSE LET rest == decode[i + 1]
                 IN  [rest EXCEPT !.value = (bytes[i] - 128) + 128 * @]
    IN  decode[1]

\* MQTTPacket_len: how large a packet is, as its writer believes.  (The
\* header byte is added before the comparisons, so it may believe one more.)
MQTTPacket_len(rem) ==
    LET n == rem + 1
    IN  n + (IF n < 128 THEN 1 ELSE IF n < 16384 THEN 2 ELSE IF n < 2097151 THEN 3 ELSE 4)

-----------------------------------------------------------------------------
(* Topics *)

\* Slip: a filter that is a prefix matches.
AtEnd_slip(filter, topic, f, n) == n > Len(topic)
AtEnd(filter, topic, f, n) == n > Len(topic) /\ f > Len(filter)

\* isTopicMatched
IsTopicMatched(filter, topic) ==
    LET separator(n) ==     \* where the level at n ends
            CHOOSE e \in n..Len(topic) :
                /\ e = Len(topic) \/ topic[e + 1] = "/"
                /\ \A i \in (n + 1)..e : topic[i] # "/"
        match[f \in 1..(Len(filter) + 1), n \in 1..(Len(topic) + 1)] ==
            IF \/ f > Len(filter) \/ n > Len(topic)
               \/ topic[n] = "/" /\ filter[f] # "/"
               \/ filter[f] \notin {"+", "#", topic[n]}
            THEN AtEnd(filter, topic, f, n)
            ELSE match[f + 1, CASE filter[f] = "+" -> separator(n) + 1
                                [] filter[f] = "#" -> Len(topic) + 1
                                [] OTHER -> n + 1]
    IN  match[1, 1]

\* The levels of a topic, and what a filter means: "+" is any one level, "#"
\* the rest.
Levels(topic) ==
    LET ends == {0, Len(topic) + 1} \cup {i \in 1..Len(topic) : topic[i] = "/"}
        after(i) == CHOOSE j \in ends : j > i /\ \A k \in ends : k > i => j <= k
        level[n \in 1..(Cardinality(ends) - 1)] ==
            IF n = 1 THEN [from |-> 0, to |-> after(0)]
            ELSE [from |-> level[n - 1].to, to |-> after(level[n - 1].to)]
    IN  [n \in DOMAIN level |-> SubSeq(topic, level[n].from + 1, level[n].to - 1)]

Means(filter, topic) ==
    LET f == Levels(filter)  t == Levels(topic)
        open == Len(f) > 0 /\ f[Len(f)] = <<"#">>
        n == IF open THEN Len(f) - 1 ELSE Len(f)
    IN  /\ IF open THEN Len(t) > n ELSE Len(t) = n
        /\ \A i \in 1..n : f[i] = <<"+">> \/ f[i] = t[i]

-----------------------------------------------------------------------------
(* Reading packets *)

StreamInit ==
    /\ sent = <<>> /\ stream = <<>> /\ arrived = 0
    /\ reading = "header" /\ head = 0 /\ rem_len = 0
    /\ got = <<>> /\ cut = FALSE /\ tried = <<>>

PacketBytes(i, size) == <<100 + i, size>> \o [b \in 1..size |-> i]

\* The broker sends a packet.
Sends ==
    /\ tried = <<>> /\ Len(sent) < MaxSent
    /\ \E size \in BodySizes :
          /\ sent' = Append(sent, size)
          /\ stream' = stream \o PacketBytes(Len(sent'), size)
    /\ UNCHANGED <<arrived, reading, head, rem_len, got, cut, tried>>

\* TCP delivers some more of it.
BytesArrive ==
    /\ \E n \in (arrived + 1)..Len(stream) : arrived' = n
    /\ UNCHANGED <<sent, stream, reading, head, rem_len, got, cut, tried>>

\* n bytes are read.
Taken(n) ==
    /\ n <= arrived
    /\ stream' = SubSeq(stream, n + 1, Len(stream)) /\ arrived' = arrived - n

\* 1. the header byte
ReadHeader ==
    /\ reading = "header" /\ Taken(1)
    /\ head' = stream[1] /\ reading' = "length"
    /\ UNCHANGED <<sent, rem_len, got, cut, tried>>

Fits(size) == size <= MAX_MQTT_PACKET_SIZE - 2

\* 2. the remaining length, in one byte.  A packet that does not fit stays in
\* the stream.
ReadLength ==
    /\ reading = "length" /\ Taken(1)
    /\ IF Fits(stream[1])
       THEN reading' = "body" /\ rem_len' = stream[1] /\ UNCHANGED cut
       ELSE reading' = "header" /\ rem_len' = 0 /\ cut' = TRUE
    /\ UNCHANGED <<sent, head, got, tried>>

\* 3. the rest
ReadBody ==
    /\ reading = "body" /\ Taken(rem_len)
    /\ got' = Append(got, <<head, SubSeq(stream, 1, rem_len)>>)
    /\ reading' = "header" /\ head' = 0 /\ rem_len' = 0
    /\ UNCHANGED <<sent, cut, tried>>

\* Slip: when the timer runs out the bytes stay for the next call.
BodyCut_slip ==
    /\ reading = "body" /\ arrived < rem_len
    /\ reading' = "header" /\ head' = 0 /\ rem_len' = 0
    /\ UNCHANGED <<sent, stream, arrived, got, cut, tried>>

\* The timer runs out in the body: what has come of it is gone.
BodyCut ==
    /\ reading = "body" /\ arrived < rem_len /\ Taken(arrived)
    /\ reading' = "header" /\ head' = 0 /\ rem_len' = 0 /\ cut' = TRUE
    /\ UNCHANGED <<sent, got, tried>>

\* The timer runs out before the length: decodePacket leaves 0, nobody looks
\* at what it returns, and a packet without a body is read.
LengthCut ==
    /\ reading = "length" /\ arrived = 0
    /\ got' = Append(got, <<head, <<>>>>)
    /\ reading' = "header" /\ head' = 0 /\ cut' = TRUE
    /\ UNCHANGED <<sent, stream, arrived, rem_len, tried>>

\* A length, or a filter and a topic, are tried.
Try ==
    /\ tried = <<>> /\ sent = <<>>
    /\ tried' \in {[length |-> n] : n \in Lengths}
                  \cup {[filter |-> f, topic |-> t] : f \in Filters, t \in Topics}
    /\ UNCHANGED <<sent, stream, arrived, reading, head, rem_len, got, cut>>

StreamNext ==
    \/ Sends \/ BytesArrive \/ Try
    \/ ReadHeader \/ ReadLength \/ ReadBody \/ BodyCut \/ LengthCut

StreamSpec == StreamInit /\ [][StreamNext]_streamVars

-----------------------------------------------------------------------------
(* Properties *)

\* However the bytes of a connection are cut up, readPacket returns the packets
\* that were sent, each whole and in order, until a timer runs out inside one
\* or one does not fit.  (From there on it may take the inside of a packet for
\* the next one; the client disconnects only when nothing can be read at all.)
PacketsAsSent ==
    ~cut => \A i \in 1..Len(got) :
                i <= Len(sent) /\ got[i] = <<100 + i, [b \in 1..sent[i] |-> i]>>

\* What encode writes is what both decoders read, to the last byte of it.
LengthRoundTrip ==
    "length" \in DOMAIN tried =>
        Decoded(Encoded(tried.length)) =
            [len |-> Len(Encoded(tried.length)), value |-> tried.length]

\* A buffer that MQTTPacket_len finds large enough is, and at most one byte is
\* left over.
LengthEnough ==
    "length" \in DOMAIN tried =>
        MQTTPacket_len(tried.length) - (1 + Len(Encoded(tried.length)) + tried.length) \in {0, 1}

\* isTopicMatched does what filters mean, for topics without empty levels.
TopicsMatch ==
    "filter" \in DOMAIN tried =>
        IsTopicMatched(tried.filter, tried.topic) = Means(tried.filter, tried.topic)

\* The codec's functions do what the protocol means by them, at every edge of
\* their inputs.
CodecSound == LengthRoundTrip /\ LengthEnough /\ TopicsMatch

\* What one end serialises is what the other end takes from the stream.
FramingSound == PacketsAsSent /\ CodecSound
=============================================================================
