----------------------------- MODULE StreamFraming -----------------------------
(***************************************************************************)
(* Length-prefixed messages over a stream socket, stream_send_receive.cpp: *)
(* one thread in sendMsg, one in recvMsg, and between them a connection    *)
(* that keeps bytes in order and may deliver any part of what was sent.    *)
(*                                                                         *)
(* A message is its number and its length.  A byte of it is <<m, i>>; the  *)
(* byte order and the four bytes of the header become HeaderLen digits of  *)
(* base Base, most significant first, each a byte <<0, digit>>.            *)
(***************************************************************************)
EXTENDS Integers, Sequences, FiniteSets

CONSTANTS
    Base, HeaderLen,   \* 256 and 4 in the code
    NetSize,           \* most bytes in flight
    MaxMessages        \* bound: messages sent on the connection

ASSUME FramingAssumption ==
    /\ Base \in Nat \ {0, 1} /\ HeaderLen \in Nat \ {0}
    /\ NetSize \in Nat \ {0} /\ MaxMessages \in Nat

VARIABLES
    lens,      \* lengths of the messages given to sendMsg, in order
    out,       \* bytes of the frame that writen has not sent yet
    sendOpen,  \* is the sender's end open?
    failed,    \* did the last sendMsg return -1?
    net,       \* bytes in flight
    dead,      \* was the connection reset?
    phase,     \* receiver: "idle", "header", "body", "closed"
    hdr, len, body,   \* receiver: bytes of the header, length, bytes of the body
    results    \* what the calls of recvMsg returned: [ret, msg]

sender   == <<lens, out, sendOpen, failed>>
receiver == <<phase, hdr, len, body, results>>
vars     == <<sender, net, dead, receiver>>

Power[k \in 0 .. HeaderLen] == IF k = 0 THEN 1 ELSE Base * Power[k - 1]
MaxLen == Power[HeaderLen] - 1
Smaller(a, b) == IF a < b THEN a ELSE b
First(s, k) == SubSeq(s, 1, k)
After(s, k) == SubSeq(s, k + 1, Len(s))

\* htonl: digit i of the header, the most significant is the first.
DigitNoRemainder(n, i) == n \div Power[HeaderLen - i]   \* fault
Digit(n, i) == (n \div Power[HeaderLen - i]) % Base
Header(n) == [i \in 1 .. HeaderLen |-> <<0, Digit(n, i)>>]
Payload(m, n) == [i \in 1 .. n |-> <<m, i>>]

FrameShort(m, n) == Header(n) \o Payload(m, n - 1)      \* fault: a byte is left out
Frame(m, n) == Header(n) \o Payload(m, n)

\* ntohl of an int that was 0 before k of its bytes were received.
DigitRead(h, i) == IF i <= Len(h) THEN h[i][2] ELSE 0
HeaderValue(h) ==
    LET value[i \in 0 .. HeaderLen] ==
            IF i = 0 THEN 0 ELSE value[i - 1] * Base + DigitRead(h, i)
    IN  value[HeaderLen]

Init ==
    /\ lens = <<>> /\ out = <<>> /\ sendOpen = TRUE /\ failed = FALSE
    /\ net = <<>> /\ dead = FALSE
    /\ phase = "idle" /\ hdr = <<>> /\ len = 0 /\ body = <<>> /\ results = <<>>

-------------------------------------------------------------------------------
(* sendMsg and writen                                                      *)

SendCall(n) ==
    /\ sendOpen /\ out = <<>>
    /\ Len(lens) < MaxMessages
    /\ lens' = Append(lens, n)
    /\ out' = Frame(Len(lens) + 1, n)
    /\ UNCHANGED <<sendOpen, failed, net, dead, receiver>>

\* send took k of the bytes; writen goes on with the rest.
SendSome(k) ==
    /\ sendOpen /\ ~dead
    /\ k <= Len(out) /\ k <= NetSize - Len(net)
    /\ net' = net \o First(out, k)
    /\ out' = After(out, k)
    /\ UNCHANGED <<lens, sendOpen, failed, dead, receiver>>

\* send returned -1: writen closes the socket, the rest is never sent.
SendFails ==
    /\ sendOpen /\ out # <<>>
    /\ sendOpen' = FALSE /\ failed' = TRUE /\ out' = <<>>
    /\ UNCHANGED <<lens, net, dead, receiver>>

\* The owner of the socket closes it between two messages.
CloseBySender ==
    /\ sendOpen /\ out = <<>>
    /\ sendOpen' = FALSE
    /\ UNCHANGED <<lens, out, failed, net, dead, receiver>>

\* The connection is reset; bytes in flight are lost.
Reset ==
    /\ ~dead
    /\ dead' = TRUE
    /\ net' = <<>>
    /\ UNCHANGED <<sender, receiver>>

-------------------------------------------------------------------------------
(* recvMsg and readn                                                       *)

AtEnd == net = <<>> /\ (dead \/ ~sendOpen)       \* recv returns 0, or -1 if reset

Return(ret, msg) ==
    /\ results' = Append(results, [ret |-> ret, msg |-> msg])
    /\ hdr' = <<>> /\ len' = 0 /\ body' = <<>>

\* The body is read until readn returns: after len bytes, at once if len is 0.
StartBody(h) ==
    IF HeaderValue(h) = 0
    THEN phase' = "idle" /\ Return(0, <<>>)
    ELSE phase' = "body" /\ hdr' = h /\ len' = HeaderValue(h) /\ body' = <<>> /\ UNCHANGED results

RecvCall ==
    /\ phase = "idle" /\ (Len(results) <= MaxMessages)
    /\ phase' = "header"
    /\ UNCHANGED <<sender, net, dead, hdr, len, body, results>>

RecvHeader(k) ==
    /\ phase = "header"
    /\ k <= HeaderLen - Len(hdr) /\ k <= Len(net)
    /\ LET h == hdr \o First(net, k)
       IN  IF Len(h) = HeaderLen THEN StartBody(h)
           ELSE hdr' = h /\ UNCHANGED <<phase, len, body, results>>
    /\ net' = After(net, k)
    /\ UNCHANGED <<sender, dead>>

\* recv returned 0 or -1: the result of readn is not looked at.
RecvHeaderEnds ==
    /\ phase = "header"
    /\ AtEnd
    /\ StartBody(hdr)
    /\ UNCHANGED <<sender, net, dead>>

RecvBodyOneMore(k) ==                            \* fault: a byte too many
    /\ phase = "body"
    /\ k <= len + 1 - Len(body) /\ k <= Len(net)
    /\ LET b == body \o First(net, k)
       IN  IF Len(b) >= len THEN phase' = "idle" /\ Return(len, b)
           ELSE body' = b /\ UNCHANGED <<phase, hdr, len, results>>
    /\ net' = After(net, k)
    /\ UNCHANGED <<sender, dead>>

RecvBody(k) ==
    /\ phase = "body"
    /\ k <= len - Len(body) /\ k <= Len(net)
    /\ LET b == body \o First(net, k)
       IN  IF Len(b) = len THEN phase' = "idle" /\ Return(len, b)
           ELSE body' = b /\ UNCHANGED <<phase, hdr, len, results>>
    /\ net' = After(net, k)
    /\ UNCHANGED <<sender, dead>>

\* Fewer bytes than the header said: close the socket, return -1.
RecvBodyEndsUnseen ==                            \* fault: ret is not compared with len
    /\ phase = "body"
    /\ AtEnd
    /\ phase' = "idle"
    /\ Return(Len(body), body)
    /\ UNCHANGED <<sender, net, dead>>

RecvBodyEnds ==
    /\ phase = "body"
    /\ AtEnd
    /\ phase' = "closed"
    /\ Return(-1, <<>>)
    /\ UNCHANGED <<sender, net, dead>>

Next ==
    \/ \E n \in 1 .. MaxLen : SendCall(n)
    \/ \E k \in 1 .. NetSize : SendSome(k) \/ RecvHeader(k) \/ RecvBody(k)
    \/ SendFails \/ CloseBySender \/ Reset
    \/ RecvCall \/ RecvHeaderEnds \/ RecvBodyEnds

Spec == Init /\ [][Next]_vars

\* writen and readn go on while they can, and the receiver calls again.
Fairness ==
    /\ WF_vars(\E k \in 1 .. NetSize : SendSome(k))
    /\ WF_vars(RecvCall \/ RecvHeaderEnds \/ RecvBodyEnds
                 \/ \E k \in 1 .. NetSize : RecvHeader(k) \/ RecvBody(k))
FairSpec == Spec /\ Fairness

-------------------------------------------------------------------------------
(* Properties                                                              *)

NumReceived == Cardinality({i \in DOMAIN results : results[i].ret > 0})
Bytes == ({0} \X (0 .. Base - 1)) \cup ((1 .. MaxMessages) \X (1 .. MaxLen))

\* Type invariant.
TypeOK ==
    /\ lens \in Seq(1 .. MaxLen) /\ Len(lens) <= MaxMessages
    /\ out \in Seq(Bytes) /\ net \in Seq(Bytes) /\ Len(net) <= NetSize
    /\ sendOpen \in BOOLEAN /\ failed \in BOOLEAN /\ dead \in BOOLEAN
    /\ phase \in {"idle", "header", "body", "closed"}
    /\ hdr \in Seq(Bytes) /\ Len(hdr) <= HeaderLen
    /\ len \in 0 .. MaxLen
    /\ body \in Seq(Bytes) /\ (phase = "body" => Len(body) < len)
    /\ results \in Seq([ret : -1 .. MaxLen, msg : Seq(Bytes)])

\* Whatever send and recv split or the connection cuts off, the messages
\* that recvMsg returns are the first ones sent, whole, in order and before
\* any call that failed.
DeliveredInOrder ==
    \A i \in DOMAIN results : results[i].ret > 0 =>
        i <= Len(lens) /\ results[i] = [ret |-> lens[i], msg |-> Payload(i, lens[i])]

\* The two ends are in step: what the receiver holds of a frame, the bytes in
\* flight and the bytes to be sent are the frames not received yet, all of
\* them as long as the connection and writen have not failed.
FramesAfter(ls, m) ==
    LET frames[i \in 0 .. Len(ls)] ==
            IF i <= m THEN <<>> ELSE frames[i - 1] \o Frame(i, ls[i])
    IN  frames[Len(ls)]
InStep == ~dead /\ ~failed => hdr \o body \o net \o out = FramesAfter(lens, NumReceived)

\* The two calls over such a connection are a channel of whole messages: it
\* delivers them in the order sent, each once, and none after it has failed.
Channel == INSTANCE MessageChannel WITH
    Messages <- UNION {{Payload(m, n) : n \in 1 .. MaxLen} : m \in 1 .. MaxMessages},
    sent     <- [i \in 1 .. Len(lens) |-> Payload(i, lens[i])],
    received <- [i \in 1 .. NumReceived |-> results[i].msg],
    ended    <- \E i \in DOMAIN results : results[i].ret <= 0
ImplementsChannel == Channel!Spec

\* A message that sendMsg sent whole is received, unless the connection dies.
SentIsReceived ==
    \A m \in 1 .. MaxMessages :
        (Len(lens) = m /\ out = <<>> /\ ~failed) ~> (NumReceived >= m \/ dead)
===============================================================================
