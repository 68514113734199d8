------------------------------ MODULE RtpProofs ------------------------------
(***************************************************************************)
(* Rtp delivers every text and every reply once and whole, for any messages *)
(* and any size of packet, whatever is corrupted or lost.                   *)
(***************************************************************************)
EXTENDS Rtp, SequenceTheorems, TLAPS

(* The characters of the first i packets of m.                              *)
Taken(m, i) ==
    SubSeq(m, 1, IF MAX_PAYLOAD_LENGTH * i < Len(m)
                 THEN MAX_PAYLOAD_LENGTH * i ELSE Len(m))

Packets(n) == packagenum(Len(Messages[n]))

(* What is left of one datagram on its way, and of two.                     *)
Left(channel, a) == channel = <<a>> \/ (lost /\ channel = <<>>)

LeftOfTwo(channel, a, b) ==
    channel = <<a, b>> \/ (lost /\ channel \in {<<>>, <<a>>, <<b>>})

-----------------------------------------------------------------------------
(* The client sends message k, of which the server has the first packets.   *)
Sending ==
    /\ k \in DOMAIN Messages /\ ci \in 1 .. Packets(k)
    /\ spc = "receive" /\ ctext = <<>>
    /\ Len(heard) = k - 1 /\ Len(responses) = k - 1

ToSend ==
    /\ Sending /\ cpc = "send" /\ stext = Taken(Text(k), ci - 1)
    /\ toServer = <<>> /\ toClient = <<>>

Sent ==
    /\ Sending /\ cpc = "answer" /\ stext = Taken(Text(k), ci - 1)
    /\ Left(toServer, packetize(Messages[k])[ci]) /\ toClient = <<>>

Refused ==
    /\ Sending /\ cpc = "answer" /\ stext = Taken(Text(k), ci - 1)
    /\ toServer = <<>> /\ Left(toClient, Answer("NACK"))

Taking ==
    /\ Sending /\ cpc = "answer" /\ stext = Taken(Text(k), ci)
    /\ ci < Packets(k)
    /\ toServer = <<>> /\ Left(toClient, Answer("ACK"))

(* The server answers message k.                                            *)
Replying ==
    /\ k \in DOMAIN Messages
    /\ stext = Text(k) /\ heard # <<>> /\ heard[Len(heard)] = stext
    /\ Len(heard) = k /\ Len(responses) = k - 1
    /\ reply = server_packetize(piglatinize(stext))
    /\ si \in 1 .. Len(reply)

(* A packet of the reply as the server sends it.                            *)
AsSent(p) == {p, Corrupted(p)}

Accepting ==
    /\ Replying /\ cpc = "answer" /\ ci = Packets(k)
    /\ spc = "send" /\ si = 1 /\ ctext = <<>>
    /\ toServer = <<>> /\ Left(toClient, Answer("ACK"))

Overtaking ==
    /\ Replying /\ cpc = "answer" /\ ci = Packets(k)
    /\ spc = "answer" /\ si = 1 /\ ctext = <<>>
    /\ toServer = <<>>
    /\ \E p \in AsSent(reply[1]) : LeftOfTwo(toClient, Answer("ACK"), p)

ToReply ==
    /\ Replying /\ cpc = "receive" /\ spc = "send"
    /\ ctext = Taken(piglatinize(stext), si - 1)
    /\ toServer = <<>> /\ toClient = <<>>

Replied ==
    /\ Replying /\ cpc = "receive" /\ spc = "answer"
    /\ ctext = Taken(piglatinize(stext), si - 1)
    /\ toServer = <<>>
    /\ \/ toClient = <<>> /\ lost
       \/ \E p \in AsSent(reply[si]) : toClient = <<p>>

ReplyRefused ==
    /\ Replying /\ cpc = "receive" /\ spc = "answer"
    /\ ctext = Taken(piglatinize(stext), si - 1)
    /\ Left(toServer, Answer("NACK")) /\ toClient = <<>>

ReplyTaken ==
    /\ Replying /\ cpc = "receive" /\ spc = "answer"
    /\ ctext = Taken(piglatinize(stext), si) /\ si < Len(reply)
    /\ Left(toServer, Answer("ACK")) /\ toClient = <<>>

(* The client has the reply to its last message; the server does not know.  *)
Returned ==
    /\ k \in 2 .. Len(Messages) + 1 /\ ci = 1 /\ ctext = <<>>
    /\ Len(heard) = k - 1 /\ Len(responses) = k - 1
    /\ stext = Text(k - 1) /\ si = Len(reply) /\ si \in Nat

Closing ==
    /\ Returned /\ cpc = (IF k <= Len(Messages) THEN "send" ELSE "done")
    /\ spc = "answer"
    /\ Left(toServer, Answer("ACK")) /\ toClient = <<>>

Hastening ==
    /\ Returned /\ k <= Len(Messages) /\ cpc = "answer" /\ spc = "answer"
    /\ LeftOfTwo(toServer, Answer("ACK"), packetize(Messages[k])[1])
    /\ toClient = <<>>

Finished ==
    /\ cpc = "done" /\ spc = "receive" /\ ctext = <<>> /\ stext = <<>>
    /\ toServer = <<>> /\ toClient = <<>>

Exited ==
    /\ lost /\ cpc = "answer" /\ spc = "exit" /\ ctext = <<>>
    /\ toServer = <<>> /\ toClient = <<>>

Phase ==
    \/ ToSend \/ Sent \/ Refused \/ Taking
    \/ Accepting \/ Overtaking \/ ToReply \/ Replied
    \/ ReplyRefused \/ ReplyTaken
    \/ Closing \/ Hastening \/ Finished \/ Exited

RtpInv ==
    /\ heard \in Seq(Seq(Nat)) /\ responses \in Seq(Seq(Nat))
    /\ lost \in BOOLEAN
    /\ Phase

-----------------------------------------------------------------------------
(* The multiples of the payload's length: rtp.c compares with the length    *)
(* of the message, the server with the number of packets.                   *)
LEMMA PacketCount ==
    ASSUME NEW n \in Nat
    PROVE  /\ packagenum(n) \in Nat
           /\ n # 0 => packagenum(n) \in Nat \ {0}
           /\ n <= MAX_PAYLOAD_LENGTH * packagenum(n)
           /\ \A i \in 1 .. packagenum(n) :
                 /\ MAX_PAYLOAD_LENGTH * (i - 1) \in Nat
                 /\ MAX_PAYLOAD_LENGTH * (i - 1) < n
                 /\ MAX_PAYLOAD_LENGTH * i < n <=> i < packagenum(n)
  <1> DEFINE M == MAX_PAYLOAD_LENGTH
             q == n \div M
             r == n % M
  <1>1. M \in Nat \ {0}
    BY RtpAssumption
  <1>2. q \in Nat /\ r \in 0 .. M - 1 /\ n = M * q + r
    BY <1>1
  <1> HIDE DEF q, r, M
  <1>3. M * (q + 1) = M * q + M /\ M * q \in Nat
    BY <1>1, <1>2
  <1>4. packagenum(n) = IF r = 0 THEN q ELSE q + 1
    BY DEF packagenum, M, q, r
  <1>5. ASSUME NEW a \in Nat, NEW b \in Nat, a <= b
        PROVE  M * a \in Nat /\ M * a <= M * b
    BY <1>1, <1>5
  <1>6. packagenum(n) \in Nat /\ (n # 0 => packagenum(n) \in Nat \ {0})
    <2>1. q = 0 /\ r = 0 => n = 0
      BY <1>1, <1>2
    <2> QED BY <1>2, <1>4, <2>1
  <1>7. n <= M * packagenum(n)
    BY <1>1, <1>2, <1>3, <1>4
  <1>8. ASSUME NEW i \in 1 .. packagenum(n)
        PROVE  /\ M * (i - 1) \in Nat /\ M * (i - 1) < n
               /\ M * i < n <=> i < packagenum(n)
    <2>1. i \in Nat /\ i - 1 \in Nat /\ i >= 1
      BY <1>6
    <2>2. ASSUME NEW j \in Nat, j < packagenum(n)
          PROVE  M * j \in Nat /\ M * j < n
      <3>1. CASE r = 0
        <4>1. j + 1 <= q
          BY <1>2, <1>4, <2>2, <3>1
        <4>2. M * (j + 1) <= M * q /\ M * j \in Nat
          BY <1>2, <1>5, <4>1
        <4>3. M * (j + 1) = M * j + M
          BY <1>1
        <4> QED BY <1>1, <1>2, <1>3, <3>1, <4>2, <4>3
      <3>2. CASE r # 0
        <4>1. j <= q
          BY <1>2, <1>4, <2>2, <3>2
        <4>2. M * j \in Nat /\ M * j <= M * q
          BY <1>2, <1>5, <4>1
        <4> QED BY <1>1, <1>2, <1>3, <3>2, <4>2
      <3> QED BY <3>1, <3>2
    <2>3. M * (i - 1) \in Nat /\ M * (i - 1) < n
      BY <1>6, <2>1, <2>2
    <2>4. i < packagenum(n) => M * i < n
      BY <2>1, <2>2
    <2>5. ~(i < packagenum(n)) => ~(M * i < n)
      <3>1. ~(i < packagenum(n)) => i = packagenum(n)
        BY <1>6
      <3>2. M * packagenum(n) \in Nat
        BY <1>5, <1>6
      <3> QED BY <1>7, <3>1, <3>2
    <2> QED BY <2>3, <2>4, <2>5
  <1> QED BY <1>6, <1>7, <1>8 DEF M

(* The beginning of a message grows packet by packet.                       *)
LEMMA TakenGrows ==
    ASSUME NEW m \in Seq(Nat), NEW i \in Nat \ {0},
           MAX_PAYLOAD_LENGTH * (i - 1) <= Len(m)
    PROVE  Taken(m, i - 1) \o Slice(m, i) = Taken(m, i)
  <1> DEFINE a == MAX_PAYLOAD_LENGTH * (i - 1)
             e == MAX_PAYLOAD_LENGTH * i
             b == IF e < Len(m) THEN e ELSE Len(m)
  <1>1. a \in Nat /\ e \in Nat /\ e - MAX_PAYLOAD_LENGTH = a /\ a <= e
    <2>1. MAX_PAYLOAD_LENGTH \in Nat \ {0} /\ i - 1 \in Nat
      BY RtpAssumption
    <2> HIDE DEF a, e
    <2>2. a \in Nat
      BY <2>1 DEF a
    <2>3. e = a + MAX_PAYLOAD_LENGTH
      BY <2>1 DEF a, e
    <2> QED BY <2>1, <2>2, <2>3
  <1>2. Len(m) \in Nat /\ \A j \in 1 .. Len(m) : m[j] \in Nat
    BY ElementOfSeq
  <1>3. b \in Nat /\ a <= b /\ b <= Len(m)
    BY <1>1, <1>2
  <1>4. Taken(m, i - 1) = SubSeq(m, 1, a)
    <2>1. a < Len(m) \/ a = Len(m)
      BY <1>1, <1>2
    <2> QED BY <2>1 DEF Taken
  <1>5. Taken(m, i) = SubSeq(m, 1, b)
    BY DEF Taken
  <1>6. Slice(m, i) = SubSeq(m, a + 1, b)
    <2>1. e - MAX_PAYLOAD_LENGTH + 1 = a + 1
      BY <1>1
    <2> QED BY <2>1 DEF Slice
  <1> HIDE DEF a, e, b
  <1>7. SubSeq(m, 1, a) \o SubSeq(m, a + 1, b) = SubSeq(m, 1, b)
    <2>1. 1 \in 1 .. Len(m) + 1 /\ a \in 1 - 1 .. Len(m) /\ b \in a .. Len(m)
      BY <1>1, <1>2, <1>3
    <2> QED BY <2>1, ConcatAdjacentSubSeq
  <1> QED BY <1>4, <1>5, <1>6, <1>7

(* What is taken of a message is a beginning of it: none of it before the   *)
(* first packet, all of it with the last.                                   *)
LEMMA Beginnings ==
    ASSUME NEW m \in Seq(Nat), NEW i \in Nat
    PROVE  /\ Taken(m, i) \in Seq(Nat)
           /\ Taken(m, 0) = <<>>
           /\ Len(m) <= MAX_PAYLOAD_LENGTH * i => Taken(m, i) = m
           /\ IsPrefix(Taken(m, i), m)
  <1> DEFINE e == MAX_PAYLOAD_LENGTH * i
             b == IF e < Len(m) THEN e ELSE Len(m)
  <1>1. e \in Nat /\ MAX_PAYLOAD_LENGTH * 0 = 0
    BY RtpAssumption
  <1>2. Len(m) \in Nat /\ \A j \in 1 .. Len(m) : m[j] \in Nat
    BY ElementOfSeq
  <1>3. b \in 0 .. Len(m)
    BY <1>1, <1>2
  <1>4. Taken(m, i) = SubSeq(m, 1, b)
    BY DEF Taken
  <1>5. /\ SubSeq(m, 1, b) \in Seq(Nat)
        /\ Len(SubSeq(m, 1, b)) = b
    <2>1. b \in Nat /\ b <= Len(m) /\ \A j \in 1 .. b : m[j] \in Nat
      BY <1>2, <1>3
    <2> HIDE DEF b
    <2>2. /\ SubSeq(m, 1, b) \in Seq(Nat)
          /\ Len(SubSeq(m, 1, b)) = IF 1 <= b THEN b - 1 + 1 ELSE 0
      BY <2>1, SubSeqProperties
    <2>3. (IF 1 <= b THEN b - 1 + 1 ELSE 0) = b
      BY <2>1
    <2> QED BY <2>2, <2>3
  <1>6. Taken(m, 0) = <<>>
    <2>1. Taken(m, 0) = SubSeq(m, 1, 0)
      BY <1>1, <1>2 DEF Taken
    <2> QED BY <2>1, SubSeqEmpty
  <1>7. Len(m) <= e => Taken(m, i) = m
    BY <1>1, <1>2, <1>4, SubSeqFull
  <1>8. IsPrefix(Taken(m, i), m)
    <2> HIDE DEF b
    <2>1. Len(Taken(m, i)) = b /\ b <= Len(m)
      BY <1>2, <1>3, <1>4, <1>5
    <2>2. SubSeq(SubSeq(m, 1, b), 1, b) = SubSeq(m, 1, b)
      BY <1>5, SubSeqFull
    <2> QED BY <1>4, <2>1, <2>2 DEF IsPrefix
  <1> QED BY <1>4, <1>5, <1>6, <1>7, <1>8

(* The client's messages and the server's replies are not empty.            *)
LEMMA MessageTypes ==
    ASSUME NEW n \in DOMAIN Messages
    PROVE  /\ n \in 1 .. Len(Messages)
           /\ Messages[n] \in Seq(Nat) /\ Len(Messages[n]) \in Nat \ {0}
           /\ Text(n) \in Seq(Nat) /\ Len(Text(n)) = Len(Messages[n]) - 1
           /\ Packets(n) \in Nat \ {0}
           /\ piglatinize(Text(n)) \in Seq(Nat) \ {<<>>}
  <1>1. n \in 1 .. Len(Messages) /\ Messages[n] \in Seq(Nat)
    BY RtpAssumption, LenProperties, ElementOfSeq
  <1>2. Len(Messages[n]) \in Nat \ {0}
    BY <1>1, RtpAssumption, EmptySeq
  <1> DEFINE l == Len(Messages[n]) - 1
  <1>3. l \in Nat /\ \A j \in 1 .. l : Messages[n][j] \in Nat
    BY <1>1, <1>2, ElementOfSeq
  <1>4. Text(n) = SubSeq(Messages[n], 1, l)
    BY DEF Text, Front
  <1> HIDE DEF l
  <1>5. /\ SubSeq(Messages[n], 1, l) \in Seq(Nat)
        /\ Len(SubSeq(Messages[n], 1, l)) = IF 1 <= l THEN l - 1 + 1 ELSE 0
    BY <1>3, SubSeqProperties
  <1>6. (IF 1 <= l THEN l - 1 + 1 ELSE 0) = l
    BY <1>3
  <1>7. Packets(n) \in Nat \ {0}
    BY <1>2, PacketCount DEF Packets
  <1> QED BY <1>1, <1>2, <1>4, <1>5, <1>6, <1>7, RtpAssumption DEF l

(* A packet, stripped, continues what the server has of the text.           *)
LEMMA TextGrows ==
    ASSUME NEW n \in DOMAIN Messages, NEW i \in 1 .. Packets(n)
    PROVE  /\ Taken(Text(n), i - 1) \o Strip(Slice(Messages[n], i))
                 = Taken(Text(n), i)
           /\ Taken(Text(n), Packets(n)) = Text(n)
  <1>1. /\ Messages[n] \in Seq(Nat) /\ Len(Messages[n]) \in Nat \ {0}
        /\ Text(n) \in Seq(Nat) /\ Len(Text(n)) = Len(Messages[n]) - 1
        /\ Packets(n) \in Nat \ {0}
    BY MessageTypes
  <1>2. /\ MAX_PAYLOAD_LENGTH * (i - 1) \in Nat
        /\ MAX_PAYLOAD_LENGTH * (i - 1) < Len(Messages[n])
        /\ Len(Messages[n]) <= MAX_PAYLOAD_LENGTH * Packets(n)
    BY <1>1, PacketCount DEF Packets
  <1>3. MAX_PAYLOAD_LENGTH * (i - 1) <= Len(Text(n)) /\ i \in Nat \ {0}
    BY <1>1, <1>2
  <1>4. Strip(Slice(Messages[n], i)) = Slice(Text(n), i)
    BY RtpAssumption DEF Packets
  <1>5. Len(Text(n)) <= MAX_PAYLOAD_LENGTH * Packets(n)
    <2>1. MAX_PAYLOAD_LENGTH * Packets(n) \in Nat
      BY <1>1, RtpAssumption
    <2> QED BY <1>1, <1>2, <2>1
  <1> QED BY <1>1, <1>3, <1>4, <1>5, TakenGrows, Beginnings

(* The packets of the client.                                               *)
LEMMA ClientPackets ==
    ASSUME NEW n \in DOMAIN Messages, NEW i \in 1 .. Packets(n)
    PROVE  LET p == packetize(Messages[n])[i]
           IN  /\ p.type = IF i < Packets(n) THEN "DATA" ELSE "LAST_DATA"
               /\ p.payload = Slice(Messages[n], i)
               /\ Good(p)
  <1>1. packetize(Messages[n])[i] =
           Packet(IF MAX_PAYLOAD_LENGTH * i < Len(Messages[n])
                  THEN "DATA" ELSE "LAST_DATA", Slice(Messages[n], i))
    BY DEF packetize, Packets
  <1>2. MAX_PAYLOAD_LENGTH * i < Len(Messages[n]) <=> i < Packets(n)
    BY MessageTypes, PacketCount DEF Packets
  <1> QED BY <1>1, <1>2 DEF Packet, Good

(* The packets of the server, and what they carry when their checksum is    *)
(* corrupted.                                                               *)
LEMMA ServerPackets ==
    ASSUME NEW m \in Seq(Nat) \ {<<>>}
    PROVE  LET r == server_packetize(m)
           IN  /\ Len(r) \in Nat \ {0}
               /\ Taken(m, Len(r)) = m
               /\ \A i \in 1 .. Len(r) : \A p \in AsSent(r[i]) :
                     /\ p.type = IF i < Len(r) THEN "DATA" ELSE "LAST_DATA"
                     /\ Taken(m, i - 1) \o p.payload = Taken(m, i)
  <1> DEFINE r == server_packetize(m)
             N == packagenum(Len(m))
  <1>1. Len(m) \in Nat \ {0}
    BY EmptySeq
  <1>2. N \in Nat \ {0} /\ Len(m) <= MAX_PAYLOAD_LENGTH * N
    BY <1>1, PacketCount
  <1> HIDE DEF N
  <1>3. r = [i \in 1 .. N |-> Packet(IF i < N THEN "DATA" ELSE "LAST_DATA",
                                     Slice(m, i))]
    BY DEF server_packetize, N
  <1>4. Len(r) = N
    BY <1>2, <1>3
  <1>5. ASSUME NEW i \in 1 .. N, NEW p \in AsSent(r[i])
        PROVE  /\ p.type = IF i < N THEN "DATA" ELSE "LAST_DATA"
               /\ Taken(m, i - 1) \o p.payload = Taken(m, i)
    <2>1. /\ p.type = IF i < N THEN "DATA" ELSE "LAST_DATA"
          /\ p.payload = Slice(m, i)
      <3>1. r[i] = Packet(IF i < N THEN "DATA" ELSE "LAST_DATA", Slice(m, i))
        BY <1>3
      <3>2. r[i].type = (IF i < N THEN "DATA" ELSE "LAST_DATA")
            /\ r[i].payload = Slice(m, i)
        BY <3>1 DEF Packet
      <3>3. CASE p = r[i]
        BY <3>2, <3>3
      <3>4. CASE p = Corrupted(r[i])
        <4>1. DOMAIN r[i] = {"type", "checksum", "payload"}
          BY <3>1 DEF Packet
        <4> HIDE DEF r
        <4>2. p.type = r[i].type /\ p.payload = r[i].payload
          BY <3>4, <4>1 DEF Corrupted
        <4> QED BY <3>2, <4>2
      <3> QED BY <3>3, <3>4 DEF AsSent
    <2>2. MAX_PAYLOAD_LENGTH * (i - 1) <= Len(m) /\ i \in Nat \ {0}
      <3> DEFINE a == MAX_PAYLOAD_LENGTH * (i - 1)
      <3>1. a \in Nat /\ a < Len(m)
        BY <1>1, PacketCount DEF N
      <3> HIDE DEF a
      <3>2. a <= Len(m) /\ i \in Nat \ {0}
        BY <1>1, <1>2, <3>1
      <3> QED BY <3>2 DEF a
    <2> QED BY <2>1, <2>2, TakenGrows
  <1>6. Taken(m, N) = m
    BY <1>2, Beginnings
  <1> HIDE DEF r
  <1> QED BY <1>2, <1>4, <1>5, <1>6 DEF r

(* Sending over a channel.                                                  *)
LEMMA Appended ==
    ASSUME NEW a, NEW b
    PROVE  Append(<<>>, a) = <<a>> /\ Append(<<a>>, b) = <<a, b>>
  <1> DEFINE S == {a, b}
  <1>1. <<>> \in Seq(S) /\ <<a>> \in Seq(S) /\ <<a, b>> \in Seq(S)
    OBVIOUS
  <1> HIDE DEF S
  <1>2. a \in S /\ b \in S
    BY DEF S
  <1>3. Append(<<>>, a) = <<a>>
    BY <1>1, <1>2, AppendIsConcat, ConcatEmptySeq DEF S
  <1>4. Append(<<a>>, b) = <<a, b>>
    <2>1. /\ Append(<<a>>, b) \in Seq(S) /\ Len(Append(<<a>>, b)) = 2
          /\ Append(<<a>>, b)[1] = a /\ Append(<<a>>, b)[2] = b
      BY <1>1, <1>2, AppendProperties
    <2>2. \A i \in 1 .. 2 : Append(<<a>>, b)[i] = <<a, b>>[i]
      BY <2>1
    <2> QED BY <1>1, <2>1, <2>2, SeqEqual
  <1> QED BY <1>3, <1>4

(* Receiving from a channel, and losing one of its datagrams.               *)
LEMMA OneInFlight ==
    ASSUME NEW channel, NEW a, Left(channel, a), channel # <<>>
    PROVE  /\ Head(channel) = a /\ Tail(channel) = <<>>
           /\ \A i \in DOMAIN channel : RemoveAt(channel, i) = <<>>
  <1>1. channel = <<a>>
    BY DEF Left
  <1>2. DOMAIN channel = {1} /\ SubSeq(channel, 1, 0) = <<>>
        /\ SubSeq(channel, 2, 1) = <<>>
    BY <1>1
  <1> QED BY <1>1, <1>2 DEF RemoveAt

(* The same of the two datagrams that can be on their way in one direction. *)
LEMMA TwoInFlight ==
    ASSUME NEW channel, NEW a, NEW b, LeftOfTwo(channel, a, b),
           channel # <<>>
    PROVE  /\ \/ Head(channel) = a /\ Left(Tail(channel), b)
              \/ Head(channel) = b /\ Tail(channel) = <<>> /\ lost
           /\ \A i \in DOMAIN channel :
                 RemoveAt(channel, i) \in {<<>>, <<a>>, <<b>>}
  <1>1. CASE channel = <<a, b>>
    <2>1. Head(channel) = a /\ Tail(channel) = <<b>>
      BY <1>1
    <2>2. DOMAIN channel = {1, 2} /\ Len(channel) = 2
      BY <1>1
    <2>3. channel \in Seq({a, b}) /\ <<a>> \in Seq({a, b})
          /\ <<b>> \in Seq({a, b})
      BY <1>1
    <2>4. RemoveAt(channel, 1) = <<b>>
      <3>1. SubSeq(channel, 1, 0) = <<>> /\ SubSeq(channel, 3, 2) = <<>>
        BY SubSeqEmpty
      <3>2. SubSeq(channel, 2, 2) = <<channel[2]>> \o SubSeq(channel, 3, 2)
        BY <2>2, <2>3, SubSeqRecursiveFirst
      <3>3. SubSeq(channel, 2, 2) = <<b>>
        BY <1>1, <2>3, <3>1, <3>2, ConcatEmptySeq
      <3>4. RemoveAt(channel, 1)
               = SubSeq(channel, 1, 0) \o SubSeq(channel, 2, 2)
        BY <2>2 DEF RemoveAt
      <3> QED BY <2>3, <3>1, <3>3, <3>4, ConcatEmptySeq
    <2>5. RemoveAt(channel, 2) = <<a>>
      <3>1. SubSeq(channel, 2, 1) = <<>> /\ SubSeq(channel, 3, 2) = <<>>
        BY SubSeqEmpty
      <3>2. SubSeq(channel, 1, 1) = <<channel[1]>> \o SubSeq(channel, 2, 1)
        BY <2>2, <2>3, SubSeqRecursiveFirst
      <3>3. SubSeq(channel, 1, 1) = <<a>>
        BY <1>1, <2>3, <3>1, <3>2, ConcatEmptySeq
      <3>4. RemoveAt(channel, 2)
               = SubSeq(channel, 1, 1) \o SubSeq(channel, 3, 2)
        BY <2>2 DEF RemoveAt
      <3> QED BY <2>3, <3>1, <3>3, <3>4, ConcatEmptySeq
    <2> QED BY <2>1, <2>2, <2>4, <2>5 DEF Left
  <1>2. CASE channel = <<a>>
    <2>1. Left(channel, a)
      BY <1>2 DEF Left
    <2>2. lost
      BY <1>2 DEF LeftOfTwo
    <2> QED BY <1>2, <2>1, <2>2, OneInFlight DEF Left
  <1>3. CASE channel = <<b>>
    <2>1. Left(channel, b)
      BY <1>3 DEF Left
    <2>2. lost
      BY <1>3 DEF LeftOfTwo
    <2> QED BY <1>3, <2>1, <2>2, OneInFlight DEF Left
  <1> QED BY <1>1, <1>2, <1>3 DEF LeftOfTwo

-----------------------------------------------------------------------------
(* The client starts with its first message.                                *)
LEMMA RtpStarts == RtpInit => RtpInv
  <1> SUFFICES ASSUME RtpInit PROVE RtpInv
    OBVIOUS
  <1>1. /\ heard = <<>> /\ responses = <<>> /\ k = 1 /\ ci = 1
        /\ stext = <<>> /\ ctext = <<>>
        /\ lost = FALSE /\ spc = "receive" /\ cpc = "send"
        /\ toServer = <<>> /\ toClient = <<>>
    BY DEF RtpInit
  <1>2. 1 \in DOMAIN Messages
    BY RtpAssumption, EmptySeq, LenProperties
  <1>3. /\ Packets(1) \in Nat \ {0} /\ Text(1) \in Seq(Nat)
    BY <1>2, MessageTypes
  <1>4. Taken(Text(1), ci - 1) = <<>>
    <2>1. ci - 1 = 0
      BY <1>1
    <2> QED BY <1>3, <2>1, Beginnings
  <1>5. Sending
    BY <1>1, <1>2, <1>3, EmptySeq DEF Sending
  <1>6. ToSend
    BY <1>1, <1>4, <1>5 DEF ToSend
  <1> QED BY <1>1, <1>6, EmptySeq DEF RtpInv, Phase

(* rtp_send_message() sends a packet; the first of a message may follow the *)
(* ACK of the last reply.                                                   *)
LEMMA ClientSendKeeps ==
    ASSUME RtpInv, ClientSend
    PROVE  RtpInv' /\ UNCHANGED <<heard, responses>>
  <1>1. /\ cpc = "send" /\ cpc' = "answer"
        /\ toServer' = Append(toServer, packetize(Messages[k])[ci])
        /\ UNCHANGED <<k, ci, ctext, responses, spc, stext, heard, reply, si,
                       toClient, lost>>
    BY DEF ClientSend, serverVars
  <1>2. ToSend \/ (Closing /\ k <= Len(Messages))
    BY <1>1 DEF RtpInv, Phase, Sent, Refused, Taking, Accepting, Overtaking,
                ToReply, Replied, ReplyRefused, ReplyTaken, Closing,
                Hastening, Finished, Exited
  <1>3. CASE ToSend
    <2>1. toServer' = <<packetize(Messages[k])[ci]>>
      BY <1>1, <1>3 DEF ToSend
    <2>2. Sent'
      BY <1>1, <1>3, <2>1 DEF ToSend, Sent, Sending, Left
    <2> QED BY <1>1, <2>2 DEF RtpInv, Phase
  <1>4. CASE Closing /\ k <= Len(Messages)
    <2>1. /\ Returned /\ spc = "answer" /\ toClient = <<>> /\ ci = 1
          /\ Left(toServer, Answer("ACK"))
      BY <1>4 DEF Closing, Returned
    <2>2. \/ toServer' = <<Answer("ACK"), packetize(Messages[k])[1]>>
          \/ lost /\ toServer' = <<packetize(Messages[k])[1]>>
      <3>1. CASE toServer = <<Answer("ACK")>>
        BY <1>1, <2>1, <3>1, Appended
      <3>2. CASE lost /\ toServer = <<>>
        BY <1>1, <2>1, <3>2
      <3> QED BY <2>1, <3>1, <3>2 DEF Left
    <2>3. Hastening'
      BY <1>1, <1>4, <2>1, <2>2 DEF Hastening, Returned, LeftOfTwo
    <2> QED BY <1>1, <2>3 DEF RtpInv, Phase
  <1> QED BY <1>1, <1>2, <1>3, <1>4

(* An answer: the packet is repeated, or the next one follows, or the reply *)
(* is awaited.  A packet of the reply whose ACK was lost counts as one.     *)
LEMMA ClientAnswerKeeps ==
    ASSUME RtpInv, ClientAnswer
    PROVE  RtpInv' /\ UNCHANGED <<heard, responses>>
  <1>1. /\ cpc = "answer" /\ toClient # <<>>
        /\ toClient' = Tail(toClient)
        /\ ci' = Following(Head(toClient).type)
        /\ cpc' = IF ci' > Packets(k) THEN "receive" ELSE "send"
        /\ UNCHANGED <<k, ctext, responses, spc, stext, heard, reply, si,
                       toServer, lost>>
    BY DEF ClientAnswer, serverVars, Packets
  <1>2. Refused \/ Taking \/ Accepting \/ Overtaking
    BY <1>1 DEF RtpInv, Phase, ToSend, Sent, ToReply, Replied, ReplyRefused,
                ReplyTaken, Closing, Hastening, Finished, Exited
  <1>3. \A t : Answer(t).type = t
    BY DEF Answer
  <1>4. k \in DOMAIN Messages /\ Packets(k) \in Nat \ {0}
    BY <1>2, MessageTypes
       DEF Refused, Taking, Accepting, Overtaking, Sending, Replying
  <1>5. CASE Refused
    <2>1. Head(toClient).type = "NACK" /\ toClient' = <<>>
      BY <1>1, <1>3, <1>5, OneInFlight DEF Refused
    <2>2. ci' = ci /\ ci \in 1 .. Packets(k)
      BY <1>1, <1>5, <2>1 DEF Following, Refused, Sending
    <2>3. cpc' = "send"
      BY <1>1, <1>4, <2>2
    <2>4. ToSend'
      BY <1>1, <1>5, <2>1, <2>2, <2>3 DEF Refused, ToSend, Sending
    <2> QED BY <1>1, <2>4 DEF RtpInv, Phase
  <1>6. CASE Taking
    <2>1. Head(toClient).type = "ACK" /\ toClient' = <<>>
      BY <1>1, <1>3, <1>6, OneInFlight DEF Taking
    <2>2. ci' = ci + 1 /\ ci' \in 1 .. Packets(k) /\ ci' - 1 = ci
      BY <1>1, <1>4, <1>6, <2>1 DEF Following, Taking, Sending
    <2>3. cpc' = "send"
      BY <1>1, <1>4, <2>2
    <2>4. ToSend'
      BY <1>1, <1>6, <2>1, <2>2, <2>3 DEF Taking, ToSend, Sending
    <2> QED BY <1>1, <2>4 DEF RtpInv, Phase
  <1>7. CASE Accepting
    <2>1. Head(toClient).type = "ACK" /\ toClient' = <<>>
      BY <1>1, <1>3, <1>7, OneInFlight DEF Accepting
    <2>2. ci' = Packets(k) + 1
      BY <1>1, <1>7, <2>1 DEF Following, Accepting
    <2>3. cpc' = "receive"
      BY <1>1, <1>4, <2>2
    <2>4. Taken(piglatinize(stext), si - 1) = <<>>
      <3>1. piglatinize(stext) \in Seq(Nat) /\ si - 1 = 0
        BY <1>4, <1>7, MessageTypes DEF Accepting, Replying
      <3> QED BY <3>1, Beginnings
    <2>5. ToReply'
      BY <1>1, <1>7, <2>1, <2>3, <2>4 DEF Accepting, ToReply, Replying
    <2> QED BY <1>1, <2>5 DEF RtpInv, Phase
  <1>8. CASE Overtaking
    <2>1. PICK p \in AsSent(reply[1]) :
             LeftOfTwo(toClient, Answer("ACK"), p)
      BY <1>8 DEF Overtaking
    <2>2. piglatinize(stext) \in Seq(Nat) \ {<<>>} /\ si = 1
      BY <1>4, <1>8, MessageTypes DEF Overtaking, Replying
    <2>3. p.type # "NACK"
      <3>1. /\ 1 \in 1 .. Len(reply)
            /\ reply = server_packetize(piglatinize(stext))
        BY <1>8, <2>2 DEF Overtaking, Replying
      <3>2. p.type = IF 1 < Len(reply) THEN "DATA" ELSE "LAST_DATA"
        BY <2>2, <3>1, ServerPackets
      <3> QED BY <3>2
    <2>4. /\ Head(toClient).type # "NACK"
          /\ toClient' = <<p>> \/ (lost /\ toClient' = <<>>)
      BY <1>1, <1>3, <2>1, <2>3, TwoInFlight DEF Left
    <2>5. ci' = Packets(k) + 1
      BY <1>1, <1>8, <2>4 DEF Following, Overtaking
    <2>6. cpc' = "receive"
      BY <1>1, <1>4, <2>5
    <2>7. Taken(piglatinize(stext), si - 1) = <<>>
      BY <2>2, Beginnings
    <2>8. Replied'
      BY <1>1, <1>8, <2>1, <2>2, <2>4, <2>6, <2>7
         DEF Overtaking, Replied, Replying, AsSent
    <2> QED BY <1>1, <2>8 DEF RtpInv, Phase
  <1> QED BY <1>1, <1>2, <1>5, <1>6, <1>7, <1>8

(* rtp_receive_message(): a packet of the reply is refused, or continues    *)
(* what the client has; with the last one the client has it all.            *)
LEMMA ClientReceiveKeeps ==
    ASSUME RtpInv, ClientReceive
    PROVE  /\ RtpInv'
           /\ UNCHANGED heard
           /\ \/ UNCHANGED responses
              \/ /\ Len(responses) < Len(heard)
                 /\ responses' =
                       Append(responses, piglatinize(heard[Len(heard)]))
  <1> DEFINE p == Head(toClient)
             whole == piglatinize(stext)
  <1>1. /\ cpc = "receive" /\ toClient # <<>> /\ toClient' = Tail(toClient)
        /\ UNCHANGED <<spc, stext, heard, reply, si, lost>>
        /\ \/ /\ Good(p) /\ toServer' = Append(toServer, Answer("ACK"))
              /\ p.type = "LAST_DATA" /\ ClientReturns(ctext \o p.payload)
           \/ /\ Good(p) /\ toServer' = Append(toServer, Answer("ACK"))
              /\ p.type # "LAST_DATA" /\ ctext' = ctext \o p.payload
              /\ UNCHANGED <<k, cpc, ci, responses>>
           \/ /\ ~Good(p) /\ toServer' = Append(toServer, Answer("NACK"))
              /\ UNCHANGED <<k, cpc, ci, ctext, responses>>
    BY DEF ClientReceive, ClientRefuses, serverVars, clientVars
  <1>2. Replied
    BY <1>1 DEF RtpInv, Phase, ToSend, Sent, Refused, Taking, Accepting,
                Overtaking, ToReply, ReplyRefused, ReplyTaken, Closing,
                Hastening, Finished, Exited
  <1>3. /\ Replying /\ spc = "answer" /\ toServer = <<>>
        /\ ctext = Taken(whole, si - 1)
    BY <1>2 DEF Replied
  <1>4. /\ k \in 1 .. Len(Messages) /\ Len(Messages) \in Nat
        /\ whole \in Seq(Nat) \ {<<>>}
    BY <1>3, RtpAssumption, MessageTypes, LenProperties DEF Replying
  <1>5. p \in AsSent(reply[si]) /\ toClient' = <<>>
    BY <1>1, <1>2 DEF Replied
  <1>6. /\ reply = server_packetize(whole) /\ si \in 1 .. Len(reply)
        /\ stext = Text(k) /\ heard[Len(heard)] = stext
        /\ Len(heard) = k /\ Len(responses) = k - 1
    BY <1>3 DEF Replying
  <1> HIDE DEF p, whole
  <1>7. /\ p.type = IF si < Len(reply) THEN "DATA" ELSE "LAST_DATA"
        /\ ctext \o p.payload = Taken(whole, si)
        /\ Taken(whole, Len(reply)) = whole
        /\ Len(reply) \in Nat
    BY <1>3, <1>4, <1>5, <1>6, ServerPackets
  <1>8. CASE ~Good(p)
    <2>1. /\ toServer' = <<Answer("NACK")>>
          /\ UNCHANGED <<k, cpc, ci, ctext, responses>>
      BY <1>1, <1>3, <1>8, Appended
    <2>2. ReplyRefused'
      BY <1>1, <1>2, <1>3, <1>5, <2>1
         DEF Replying, Replied, ReplyRefused, Left, whole
    <2> QED BY <1>1, <2>1, <2>2 DEF RtpInv, Phase
  <1>9. CASE Good(p) /\ p.type # "LAST_DATA"
    <2>1. /\ toServer' = <<Answer("ACK")>> /\ ctext' = Taken(whole, si)
          /\ UNCHANGED <<k, cpc, ci, responses>>
      BY <1>1, <1>3, <1>7, <1>9, Appended
    <2>2. si < Len(reply)
      BY <1>7, <1>9
    <2>3. ReplyTaken'
      BY <1>1, <1>2, <1>3, <1>5, <2>1, <2>2
         DEF Replying, Replied, ReplyTaken, Left, whole
    <2> QED BY <1>1, <2>1, <2>3 DEF RtpInv, Phase
  <1>10. CASE Good(p) /\ p.type = "LAST_DATA"
    <2>1. si = Len(reply) /\ si \in Nat
      BY <1>6, <1>7, <1>10
    <2>2. /\ toServer' = <<Answer("ACK")>>
          /\ responses' = Append(responses, whole)
          /\ k' = k + 1 /\ ci' = 1 /\ ctext' = <<>>
          /\ cpc' = IF k < Len(Messages) THEN "send" ELSE "done"
      BY <1>1, <1>3, <1>7, <1>10, <2>1, Appended DEF ClientReturns
    <2>3. /\ responses' \in Seq(Seq(Nat)) /\ Len(responses') = k
      <3>1. responses \in Seq(Seq(Nat)) /\ whole \in Seq(Nat)
        BY <1>4 DEF RtpInv
      <3>2. /\ responses' \in Seq(Seq(Nat))
            /\ Len(responses') = Len(responses) + 1
        BY <2>2, <3>1, AppendProperties
      <3> QED BY <1>4, <1>6, <3>2
    <2>4. Returned'
      <3>1. k + 1 \in 2 .. Len(Messages) + 1 /\ (k + 1) - 1 = k
        BY <1>4
      <3> QED BY <1>1, <1>6, <2>1, <2>2, <2>3, <3>1 DEF Returned
    <2>5. k < Len(Messages) <=> k' <= Len(Messages)
      BY <1>4, <2>2
    <2>6. Closing'
      BY <1>1, <1>3, <1>5, <2>2, <2>4, <2>5 DEF Closing, Left
    <2>7. Len(responses) < Len(heard)
      BY <1>4, <1>6
    <2>8. whole = piglatinize(heard[Len(heard)])
      BY <1>6 DEF whole
    <2> QED BY <1>1, <2>2, <2>3, <2>6, <2>7, <2>8 DEF RtpInv, Phase
  <1> QED BY <1>1, <1>8, <1>9, <1>10

-----------------------------------------------------------------------------
(* The server's receiving loop: the packet is refused, or continues the     *)
(* text; with the last one the server has it all.                           *)
LEMMA ServerReceiveKeeps ==
    ASSUME RtpInv, NEW corrupt \in BOOLEAN, ServerReceive(corrupt)
    PROVE  /\ RtpInv'
           /\ UNCHANGED responses
           /\ \/ UNCHANGED heard
              \/ /\ Len(heard) = Len(responses)
                 /\ Len(heard) < Len(Messages)
                 /\ heard' = Append(heard, Text(Len(heard) + 1))
  <1> DEFINE p == IF corrupt THEN Corrupted(Head(toServer))
                  ELSE Head(toServer)
  <1>1. /\ spc = "receive" /\ toServer # <<>> /\ toServer' = Tail(toServer)
        /\ toClient' = Append(toClient,
                              Answer(IF Good(p) THEN "ACK" ELSE "NACK"))
        /\ stext' = IF Good(p) THEN stext \o Strip(p.payload) ELSE stext
        /\ Complete(p) => ServerReplies
        /\ ~Complete(p) => UNCHANGED <<spc, heard, reply, si>>
        /\ UNCHANGED <<k, cpc, ci, ctext, responses, lost>>
    BY DEF ServerReceive, Accepted, clientVars
  <1>2. Sent
    BY <1>1 DEF RtpInv, Phase, ToSend, Refused, Taking, Accepting, Overtaking,
                ToReply, Replied, ReplyRefused, ReplyTaken, Closing,
                Hastening, Finished, Exited
  <1> DEFINE q == packetize(Messages[k])[ci]
  <1>3. /\ Sending /\ cpc = "answer" /\ toClient = <<>> /\ ctext = <<>>
        /\ stext = Taken(Text(k), ci - 1) /\ Left(toServer, q)
        /\ k \in DOMAIN Messages /\ ci \in 1 .. Packets(k)
        /\ Len(heard) = k - 1 /\ Len(responses) = k - 1
    BY <1>2 DEF Sent, Sending
  <1>4. /\ Head(toServer) = q /\ toServer' = <<>>
    BY <1>1, <1>3, OneInFlight
  <1>5. /\ k \in 1 .. Len(Messages) /\ Len(Messages) \in Nat
        /\ Packets(k) \in Nat \ {0} /\ Text(k) \in Seq(Nat)
        /\ piglatinize(Text(k)) \in Seq(Nat) \ {<<>>}
    BY <1>3, RtpAssumption, MessageTypes, LenProperties
  <1>6. /\ q.type = IF ci < Packets(k) THEN "DATA" ELSE "LAST_DATA"
        /\ q.payload = Slice(Messages[k], ci)
    BY <1>3, ClientPackets
  <1>7. p.type = q.type /\ p.payload = q.payload
    <2>1. q = Packet(IF MAX_PAYLOAD_LENGTH * ci < Len(Messages[k])
                     THEN "DATA" ELSE "LAST_DATA", Slice(Messages[k], ci))
      BY <1>3 DEF packetize, Packets
    <2>2. DOMAIN q = {"type", "checksum", "payload"}
      BY <2>1 DEF Packet
    <2> HIDE DEF q
    <2>3. Corrupted(q).type = q.type /\ Corrupted(q).payload = q.payload
      BY <2>2 DEF Corrupted
    <2> QED BY <1>4, <2>3
  <1> HIDE DEF p, q
  <1>8. stext \o Strip(p.payload) = Taken(Text(k), ci)
    BY <1>3, <1>6, <1>7, TextGrows
  <1>9. CASE ~Good(p)
    <2>1. /\ toClient' = <<Answer("NACK")>>
          /\ UNCHANGED <<stext, spc, heard, reply, si>>
      BY <1>1, <1>3, <1>9 DEF Complete
    <2>2. Refused'
      BY <1>1, <1>3, <1>4, <2>1 DEF Refused, Sending, Left
    <2> QED BY <1>1, <2>1, <2>2 DEF RtpInv, Phase
  <1>10. CASE Good(p) /\ ~Complete(p)
    <2>1. /\ toClient' = <<Answer("ACK")>> /\ stext' = Taken(Text(k), ci)
          /\ UNCHANGED <<spc, heard, reply, si>>
      BY <1>1, <1>3, <1>8, <1>10
    <2>2. ci < Packets(k)
      BY <1>6, <1>7, <1>10 DEF Complete
    <2>3. Taking'
      BY <1>1, <1>3, <1>4, <2>1, <2>2 DEF Taking, Sending, Left
    <2> QED BY <1>1, <2>1, <2>3 DEF RtpInv, Phase
  <1>11. CASE Complete(p)
    <2>1. Good(p) /\ ci = Packets(k)
      BY <1>3, <1>5, <1>6, <1>7, <1>11 DEF Complete
    <2>2. stext' = Text(k)
      BY <1>1, <1>3, <1>8, <2>1, TextGrows
    <2>3. /\ heard' = Append(heard, Text(k))
          /\ reply' = server_packetize(piglatinize(Text(k)))
          /\ si' = 1 /\ spc' = "send"
          /\ toClient' = <<Answer("ACK")>>
      BY <1>1, <1>3, <1>11, <2>1, <2>2, Appended DEF ServerReplies
    <2>4. /\ heard' \in Seq(Seq(Nat)) /\ Len(heard') = k
          /\ heard' # <<>> /\ heard'[k] = Text(k)
      <3>1. heard \in Seq(Seq(Nat)) /\ (k - 1) + 1 = k
        BY <1>5 DEF RtpInv
      <3>2. /\ heard' \in Seq(Seq(Nat)) /\ heard' # <<>>
            /\ Len(heard') = Len(heard) + 1
            /\ heard'[Len(heard) + 1] = Text(k)
        BY <1>5, <2>3, <3>1, AppendProperties
      <3>3. Len(heard) + 1 = k
        BY <1>3, <3>1
      <3> QED BY <3>2, <3>3
    <2>5. si' \in 1 .. Len(reply')
      <3>1. Len(reply') \in Nat \ {0}
        BY <1>5, <2>3, ServerPackets
      <3> QED BY <2>3, <3>1
    <2>6. Replying'
      BY <1>1, <1>3, <2>2, <2>3, <2>4, <2>5 DEF Replying
    <2>7. Accepting'
      BY <1>1, <1>3, <1>4, <2>1, <2>3, <2>6 DEF Accepting, Left
    <2>8. Len(heard) < Len(Messages) /\ Len(heard) + 1 = k
      BY <1>3, <1>5
    <2> QED BY <1>1, <1>3, <2>3, <2>4, <2>7, <2>8 DEF RtpInv, Phase
  <1> QED BY <1>9, <1>10, <1>11 DEF Complete

(* A packet of the reply is sent, perhaps behind the ACK of the text's last *)
(* packet.                                                                  *)
LEMMA ServerSendKeeps ==
    ASSUME RtpInv, NEW corrupt \in BOOLEAN, ServerSend(corrupt)
    PROVE  RtpInv' /\ UNCHANGED <<heard, responses>>
  <1> DEFINE p == IF corrupt THEN Corrupted(reply[si]) ELSE reply[si]
  <1>1. /\ spc = "send" /\ spc' = "answer"
        /\ toClient' = Append(toClient, p)
        /\ UNCHANGED <<k, cpc, ci, ctext, responses, stext, heard, reply, si,
                       toServer, lost>>
    BY DEF ServerSend, clientVars
  <1>2. p \in AsSent(reply[si])
    BY DEF AsSent
  <1> HIDE DEF p
  <1>3. Accepting \/ ToReply
    BY <1>1 DEF RtpInv, Phase, ToSend, Sent, Refused, Taking, Sending,
                Overtaking, Replied, ReplyRefused, ReplyTaken, Closing,
                Hastening, Finished, Exited
  <1>4. CASE Accepting
    <2>1. \/ toClient' = <<Answer("ACK"), p>>
          \/ lost /\ toClient' = <<p>>
      <3>1. CASE toClient = <<Answer("ACK")>>
        BY <1>1, <3>1, Appended
      <3>2. CASE lost /\ toClient = <<>>
        BY <1>1, <3>2, Appended
      <3> QED BY <1>4, <3>1, <3>2 DEF Accepting, Left
    <2>2. p \in AsSent(reply[1])
      BY <1>2, <1>4 DEF Accepting
    <2>3. Overtaking'
      BY <1>1, <1>4, <2>1, <2>2
         DEF Accepting, Overtaking, Replying, LeftOfTwo, AsSent
    <2> QED BY <1>1, <2>3 DEF RtpInv, Phase
  <1>5. CASE ToReply
    <2>1. toClient' = <<p>>
      BY <1>1, <1>5, Appended DEF ToReply
    <2>2. Replied'
      BY <1>1, <1>2, <1>5, <2>1 DEF ToReply, Replied, Replying, AsSent
    <2> QED BY <1>1, <2>2 DEF RtpInv, Phase
  <1> QED BY <1>1, <1>3, <1>4, <1>5

(* An answer to the reply: it is repeated, or goes on, or is complete and   *)
(* the server is ready for the next message.                                *)
LEMMA ServerAnswerKeeps ==
    ASSUME RtpInv, ServerAnswer
    PROVE  RtpInv' /\ UNCHANGED <<heard, responses>>
  <1>1. /\ spc = "answer" /\ toServer # <<>>
        /\ Head(toServer).type \in {"ACK", "NACK"}
        /\ toServer' = Tail(toServer)
        /\ si' = IF Head(toServer).type = "ACK" THEN si + 1 ELSE si
        /\ si' > Len(reply) => spc' = "receive" /\ stext' = <<>>
        /\ ~(si' > Len(reply)) => spc' = "send" /\ UNCHANGED stext
        /\ UNCHANGED <<k, cpc, ci, ctext, responses, heard, reply, toClient,
                       lost>>
    BY DEF ServerAnswer, clientVars
  <1>2. ReplyRefused \/ ReplyTaken \/ Closing \/ Hastening
    BY <1>1 DEF RtpInv, Phase, ToSend, Sent, Refused, Taking, Sending,
                Accepting, Overtaking, ToReply, Replied, Finished, Exited
  <1>3. \A t : Answer(t).type = t
    BY DEF Answer
  <1>4. CASE ReplyRefused
    <2>1. Head(toServer).type = "NACK" /\ toServer' = <<>>
      BY <1>1, <1>3, <1>4, OneInFlight DEF ReplyRefused
    <2>2. si' = si /\ ~(si' > Len(reply))
      <3>1. /\ piglatinize(stext) \in Seq(Nat) \ {<<>>}
            /\ reply = server_packetize(piglatinize(stext))
            /\ si \in 1 .. Len(reply)
        BY <1>4, MessageTypes DEF ReplyRefused, Replying
      <3>2. Len(reply) \in Nat
        BY <3>1, ServerPackets
      <3> QED BY <1>1, <2>1, <3>1, <3>2
    <2>3. ToReply'
      BY <1>1, <1>4, <2>1, <2>2 DEF ReplyRefused, ToReply, Replying
    <2> QED BY <1>1, <2>3 DEF RtpInv, Phase
  <1>5. CASE ReplyTaken
    <2>1. Head(toServer).type = "ACK" /\ toServer' = <<>>
      BY <1>1, <1>3, <1>5, OneInFlight DEF ReplyTaken
    <2>2. si' = si + 1 /\ si' \in 1 .. Len(reply) /\ si' - 1 = si
          /\ ~(si' > Len(reply))
      <3>1. /\ piglatinize(stext) \in Seq(Nat) \ {<<>>}
            /\ reply = server_packetize(piglatinize(stext))
            /\ si \in 1 .. Len(reply) /\ si < Len(reply)
        BY <1>5, MessageTypes DEF ReplyTaken, Replying
      <3>2. Len(reply) \in Nat
        BY <3>1, ServerPackets
      <3> QED BY <1>1, <2>1, <3>1, <3>2
    <2>3. ToReply'
      BY <1>1, <1>5, <2>1, <2>2 DEF ReplyTaken, ToReply, Replying
    <2> QED BY <1>1, <2>3 DEF RtpInv, Phase
  <1>6. ASSUME Returned, Head(toServer) = Answer("ACK")
        PROVE  /\ spc' = "receive" /\ stext' = <<>>
               /\ k <= Len(Messages) =>
                     Sending' /\ stext' = Taken(Text(k), ci - 1)
    <2>1. si' > Len(reply)
      BY <1>1, <1>3, <1>6 DEF Returned
    <2>2. spc' = "receive" /\ stext' = <<>>
      BY <1>1, <2>1
    <2>3. ASSUME k <= Len(Messages)
          PROVE  Sending' /\ stext' = Taken(Text(k), ci - 1)
      <3>1. k \in DOMAIN Messages
        BY <1>6, <2>3, RtpAssumption, LenProperties DEF Returned
      <3>2. Packets(k) \in Nat \ {0} /\ Text(k) \in Seq(Nat)
        BY <3>1, MessageTypes
      <3>3. Taken(Text(k), ci - 1) = <<>>
        <4>1. ci - 1 = 0
          BY <1>6 DEF Returned
        <4> QED BY <3>2, <4>1, Beginnings
      <3> QED BY <1>1, <1>6, <2>2, <3>1, <3>2, <3>3 DEF Returned, Sending
    <2> QED BY <2>2, <2>3
  <1>7. CASE Closing
    <2>1. Returned /\ Head(toServer) = Answer("ACK") /\ toServer' = <<>>
      BY <1>1, <1>7, OneInFlight DEF Closing
    <2>2. CASE k <= Len(Messages)
      <3>1. ToSend'
        BY <1>1, <1>6, <1>7, <2>1, <2>2 DEF Closing, ToSend
      <3> QED BY <1>1, <3>1 DEF RtpInv, Phase
    <2>3. CASE ~(k <= Len(Messages))
      <3>1. Finished'
        BY <1>1, <1>6, <1>7, <2>1, <2>3 DEF Closing, Finished, Returned
      <3> QED BY <1>1, <3>1 DEF RtpInv, Phase
    <2> QED BY <2>2, <2>3
  <1>8. CASE Hastening
    <2> DEFINE q == packetize(Messages[k])[1]
    <2>1. /\ Returned /\ k <= Len(Messages)
          /\ LeftOfTwo(toServer, Answer("ACK"), q)
          /\ cpc = "answer" /\ toClient = <<>> /\ ci = 1
      BY <1>8 DEF Hastening, Returned
    <2>2. q.type \in {"DATA", "LAST_DATA"}
      <3>1. k \in DOMAIN Messages
        BY <2>1, RtpAssumption, LenProperties DEF Returned
      <3>2. 1 \in 1 .. Packets(k)
        BY <3>1, MessageTypes
      <3> QED BY <3>1, <3>2, ClientPackets
    <2> HIDE DEF q
    <2>3. Head(toServer) = Answer("ACK") /\ Left(toServer', q)
      BY <1>1, <2>1, <2>2, TwoInFlight
    <2>4. Left(toServer', packetize(Messages[k])[ci])
      BY <2>1, <2>3 DEF q
    <2>5. Sent'
      BY <1>1, <1>6, <2>1, <2>3, <2>4 DEF Sent, Left
    <2> QED BY <1>1, <2>5 DEF RtpInv, Phase
  <1> QED BY <1>1, <1>2, <1>4, <1>5, <1>7, <1>8

(* The server exits only on a packet that overtook a lost ACK.              *)
LEMMA ServerExitKeeps ==
    ASSUME RtpInv, ServerExit
    PROVE  RtpInv' /\ UNCHANGED <<heard, responses>>
  <1>1. /\ toServer # <<>> /\ toServer' = Tail(toServer) /\ spc' = "exit"
        /\ \/ /\ spc = "receive"
              /\ Head(toServer).type \notin {"DATA", "LAST_DATA"}
           \/ /\ spc = "answer"
              /\ Head(toServer).type \notin {"ACK", "NACK"}
        /\ UNCHANGED <<k, cpc, ci, ctext, responses, stext, heard, reply, si,
                       toClient, lost>>
    BY DEF ServerExit, clientVars
  <1>2. \A t : Answer(t).type = t
    BY DEF Answer
  <1>3. Sent \/ ReplyRefused \/ ReplyTaken \/ Closing \/ Hastening
    BY <1>1 DEF RtpInv, Phase, ToSend, Refused, Taking,
                Accepting, Overtaking, ToReply, Replied, Finished, Exited
  <1>4. ~Sent
    <2> SUFFICES ASSUME Sent PROVE FALSE
      OBVIOUS
    <2>1. k \in DOMAIN Messages /\ ci \in 1 .. Packets(k) /\ spc = "receive"
      BY DEF Sent, Sending
    <2>2. Head(toServer) = packetize(Messages[k])[ci]
      BY <1>1, OneInFlight DEF Sent
    <2>3. Head(toServer).type \in {"DATA", "LAST_DATA"}
      BY <2>1, <2>2, ClientPackets
    <2> QED BY <1>1, <2>1, <2>3
  <1>5. ~ReplyRefused /\ ~ReplyTaken /\ ~Closing
    BY <1>1, <1>2, OneInFlight DEF ReplyRefused, ReplyTaken, Closing
  <1>6. Hastening
    BY <1>3, <1>4, <1>5
  <1>7. lost /\ toServer' = <<>>
    BY <1>1, <1>2, <1>6, TwoInFlight DEF Hastening
  <1>8. Exited'
    BY <1>1, <1>6, <1>7 DEF Exited, Hastening, Returned
  <1> QED BY <1>1, <1>8 DEF RtpInv, Phase

(* Wherever the programs are, they can lose a datagram.                     *)
LEMMA LoseKeeps ==
    ASSUME RtpInv, Lose
    PROVE  RtpInv' /\ UNCHANGED <<heard, responses>>
  <1>1. /\ lost' = TRUE
        /\ \/ /\ \E i \in DOMAIN toServer : toServer' = RemoveAt(toServer, i)
              /\ UNCHANGED toClient
           \/ /\ \E i \in DOMAIN toClient : toClient' = RemoveAt(toClient, i)
              /\ UNCHANGED toServer
        /\ UNCHANGED <<k, cpc, ci, ctext, responses, spc, stext, heard, reply,
                       si>>
    BY DEF Lose, clientVars, serverVars
  <1>2. DOMAIN <<>> = {}
    OBVIOUS
  <1>3. ASSUME NEW a, Left(toServer, a), toClient = <<>>
        PROVE  toServer' = <<>> /\ toClient' = <<>>
    BY <1>1, <1>2, <1>3, OneInFlight
  <1>4. ASSUME NEW a, Left(toClient, a), toServer = <<>>
        PROVE  toServer' = <<>> /\ toClient' = <<>>
    BY <1>1, <1>2, <1>4, OneInFlight
  <1>5. ASSUME NEW a, NEW b, LeftOfTwo(toServer, a, b), toClient = <<>>
        PROVE  toServer' \in {<<>>, <<a>>, <<b>>} /\ toClient' = <<>>
    BY <1>1, <1>2, <1>5, TwoInFlight
  <1>6. ASSUME NEW a, NEW b, LeftOfTwo(toClient, a, b), toServer = <<>>
        PROVE  toClient' \in {<<>>, <<a>>, <<b>>} /\ toServer' = <<>>
    BY <1>1, <1>2, <1>6, TwoInFlight
  <1>7. ~ToSend /\ ~ToReply /\ ~Finished /\ ~Exited
    BY <1>1, <1>2 DEF ToSend, ToReply, Finished, Exited
  <1>8. CASE Sent
    <2>1. toServer' = <<>> /\ toClient' = <<>>
      BY <1>3, <1>8 DEF Sent
    <2>2. Sent'
      BY <1>1, <1>8, <2>1 DEF Sent, Sending, Left
    <2> QED BY <1>1, <2>2 DEF RtpInv, Phase
  <1>9. CASE Refused \/ Taking
    <2>1. toServer' = <<>> /\ toClient' = <<>>
      BY <1>4, <1>9 DEF Refused, Taking
    <2>2. Refused' \/ Taking'
      BY <1>1, <1>9, <2>1 DEF Refused, Taking, Sending, Left
    <2> QED BY <1>1, <2>2 DEF RtpInv, Phase
  <1>10. CASE Accepting
    <2>1. toServer' = <<>> /\ toClient' = <<>>
      BY <1>4, <1>10 DEF Accepting
    <2>2. Accepting'
      BY <1>1, <1>10, <2>1 DEF Accepting, Replying, Left
    <2> QED BY <1>1, <2>2 DEF RtpInv, Phase
  <1>11. CASE Overtaking
    <2>1. PICK p \in AsSent(reply[1]) :
             LeftOfTwo(toClient, Answer("ACK"), p)
      BY <1>11 DEF Overtaking
    <2>2. /\ toClient' \in {<<>>, <<Answer("ACK")>>, <<p>>}
          /\ toServer' = <<>>
      BY <1>6, <1>11, <2>1 DEF Overtaking
    <2>3. Overtaking'
      BY <1>1, <1>11, <2>1, <2>2
         DEF Overtaking, Replying, LeftOfTwo, AsSent
    <2> QED BY <1>1, <2>3 DEF RtpInv, Phase
  <1>12. CASE Replied
    <2>1. toServer' = <<>> /\ toClient' = <<>>
      <3>1. \E p : Left(toClient, p)
        BY <1>12 DEF Replied, Left
      <3> QED BY <1>4, <1>12, <3>1 DEF Replied
    <2>2. Replied'
      BY <1>1, <1>12, <2>1 DEF Replied, Replying
    <2> QED BY <1>1, <2>2 DEF RtpInv, Phase
  <1>13. CASE ReplyRefused \/ ReplyTaken
    <2>1. toServer' = <<>> /\ toClient' = <<>>
      BY <1>3, <1>13 DEF ReplyRefused, ReplyTaken
    <2>2. ReplyRefused' \/ ReplyTaken'
      BY <1>1, <1>13, <2>1 DEF ReplyRefused, ReplyTaken, Replying, Left
    <2> QED BY <1>1, <2>2 DEF RtpInv, Phase
  <1>14. CASE Closing
    <2>1. toServer' = <<>> /\ toClient' = <<>>
      BY <1>3, <1>14 DEF Closing
    <2>2. Closing'
      BY <1>1, <1>14, <2>1 DEF Closing, Returned, Left
    <2> QED BY <1>1, <2>2 DEF RtpInv, Phase
  <1>15. CASE Hastening
    <2> DEFINE q == packetize(Messages[k])[1]
    <2>1. toServer' \in {<<>>, <<Answer("ACK")>>, <<q>>} /\ toClient' = <<>>
      BY <1>5, <1>15 DEF Hastening
    <2>2. Hastening'
      BY <1>1, <1>15, <2>1 DEF Hastening, Returned, LeftOfTwo
    <2> QED BY <1>1, <2>2 DEF RtpInv, Phase
  <1> QED BY <1>1, <1>7, <1>8, <1>9, <1>10, <1>11, <1>12, <1>13, <1>14, <1>15
          DEF RtpInv, Phase

-----------------------------------------------------------------------------
(* What a step does to the two lists of complete messages.                  *)
Exchanges ==
    \/ UNCHANGED <<heard, responses>>
    \/ /\ Len(heard) = Len(responses) /\ Len(heard) < Len(Messages)
       /\ heard' = Append(heard, Text(Len(heard) + 1))
       /\ UNCHANGED responses
    \/ /\ Len(responses) < Len(heard)
       /\ responses' = Append(responses, piglatinize(heard[Len(heard)]))
       /\ UNCHANGED heard

(* Every step keeps the programs in phase, and adds at most one complete    *)
(* message to either list, in turn.                                         *)
LEMMA RtpStep == RtpInv /\ [RtpNext]_rtpVars => RtpInv' /\ Exchanges
  <1> SUFFICES ASSUME RtpInv, [RtpNext]_rtpVars
               PROVE  RtpInv' /\ Exchanges
    OBVIOUS
  <1>1. CASE ClientSend
    BY <1>1, ClientSendKeeps DEF Exchanges
  <1>2. CASE ClientAnswer
    BY <1>2, ClientAnswerKeeps DEF Exchanges
  <1>3. CASE ClientReceive
    BY <1>3, ClientReceiveKeeps DEF Exchanges
  <1>4. ASSUME NEW corrupt \in BOOLEAN, ServerReceive(corrupt)
        PROVE  RtpInv' /\ Exchanges
    BY <1>4, ServerReceiveKeeps DEF Exchanges
  <1>5. ASSUME NEW corrupt \in BOOLEAN, ServerSend(corrupt)
        PROVE  RtpInv' /\ Exchanges
    BY <1>5, ServerSendKeeps DEF Exchanges
  <1>6. CASE ServerAnswer
    BY <1>6, ServerAnswerKeeps DEF Exchanges
  <1>7. CASE ServerExit
    BY <1>7, ServerExitKeeps DEF Exchanges
  <1>8. CASE Lose
    BY <1>8, LoseKeeps DEF Exchanges
  <1>9. CASE UNCHANGED rtpVars
    <2>1. UNCHANGED <<k, cpc, ci, ctext, responses, spc, stext, heard, reply,
                      si, toServer, toClient, lost>>
      BY <1>9 DEF rtpVars, clientVars, serverVars
    <2>2. Phase'
      BY <2>1 DEF RtpInv, Phase, ToSend, Sent, Refused, Taking, Accepting,
                  Overtaking, ToReply, Replied, ReplyRefused, ReplyTaken,
                  Closing, Hastening, Finished, Exited, Sending, Replying,
                  Returned, Left, LeftOfTwo, AsSent
    <2> QED BY <2>1, <2>2 DEF RtpInv, Exchanges
  <1> QED BY <1>1, <1>2, <1>3, <1>4, <1>5, <1>6, <1>7, <1>8, <1>9
          DEF RtpNext, Client, Server

(* Client and server stay in step, for any messages, packets, corruptions   *)
(* and losses.                                                              *)
THEOREM RtpInvHolds == RtpSpec => []RtpInv
  BY RtpStarts, RtpStep, PTL DEF RtpSpec

(* Each packet is accepted once and in order, in both directions: the       *)
(* buffers of rtp_receive_message() and of the server hold a beginning of   *)
(* the message that is being sent.                                          *)
THEOREM PacketsAreAcceptedInOrder == RtpSpec => []AcceptedInOrder
  <1>1. RtpInv => AcceptedInOrder
    <2> SUFFICES ASSUME RtpInv PROVE AcceptedInOrder
      OBVIOUS
    <2>1. ASSUME spc = "receive", stext # <<>>
          PROVE  k = Len(heard) + 1 /\ IsPrefix(stext, Text(k))
      <3>1. ToSend \/ Sent \/ Refused \/ Taking
        BY <2>1 DEF RtpInv, Phase, Accepting, Overtaking, ToReply, Replied,
                    ReplyRefused, ReplyTaken, Closing, Hastening, Finished,
                    Exited
      <3>2. Sending
        BY <3>1 DEF ToSend, Sent, Refused, Taking
      <3>3. /\ k \in 1 .. Len(Messages) /\ Text(k) \in Seq(Nat)
            /\ Packets(k) \in Nat
        BY <3>2, MessageTypes DEF Sending
      <3>4. \E i \in Nat : stext = Taken(Text(k), i)
        <4>1. ci - 1 \in Nat /\ ci \in Nat
          BY <3>2, <3>3 DEF Sending
        <4> QED BY <3>1, <4>1 DEF ToSend, Sent, Refused, Taking
      <3>5. k = Len(heard) + 1
        BY <3>2, <3>3 DEF Sending
      <3> QED BY <3>3, <3>4, <3>5, Beginnings
    <2>2. ASSUME spc \in {"send", "answer"}
          PROVE  stext = Text(Len(heard))
      BY <2>2 DEF RtpInv, Phase, ToSend, Sent, Refused, Taking, Sending,
                  Accepting, Overtaking, ToReply, Replied, ReplyRefused,
                  ReplyTaken, Replying, Closing, Hastening, Returned,
                  Finished, Exited
    <2>3. ASSUME ctext # <<>>
          PROVE  IsPrefix(ctext, piglatinize(stext))
      <3>1. ToReply \/ Replied \/ ReplyRefused \/ ReplyTaken
        BY <2>3 DEF RtpInv, Phase, ToSend, Sent, Refused, Taking, Sending,
                    Accepting, Overtaking, Closing, Hastening, Returned,
                    Finished, Exited
      <3>2. Replying
        BY <3>1 DEF ToReply, Replied, ReplyRefused, ReplyTaken
      <3>3. /\ piglatinize(stext) \in Seq(Nat) \ {<<>>}
            /\ si \in 1 .. Len(reply)
            /\ reply = server_packetize(piglatinize(stext))
        BY <3>2, MessageTypes DEF Replying
      <3>4. \E i \in Nat : ctext = Taken(piglatinize(stext), i)
        <4>1. si - 1 \in Nat /\ si \in Nat
          BY <3>3, ServerPackets
        <4> QED BY <3>1, <4>1 DEF ToReply, Replied, ReplyRefused, ReplyTaken
      <3> QED BY <3>3, <3>4, Beginnings
    <2> QED BY <2>1, <2>2, <2>3 DEF AcceptedInOrder
  <1> QED BY <1>1, RtpInvHolds, PTL

(* The first packet of a message sent right behind the ACK of the last      *)
(* reply never makes the server exit, unless that ACK was lost.             *)
THEOREM ServerExitsOnlyOnLoss == RtpSpec => []ExitsOnlyOnLoss
  <1>1. RtpInv => ExitsOnlyOnLoss
    BY DEF ExitsOnlyOnLoss, RtpInv, Phase, ToSend, Sent, Refused, Taking,
           Sending, Accepting, Overtaking, ToReply, Replied, ReplyRefused,
           ReplyTaken, Closing, Hastening, Finished, Exited
  <1> QED BY <1>1, RtpInvHolds, PTL

(* Client and server implement Exchange: whatever the network corrupts or   *)
(* loses, whole texts and whole replies alternate, each one once.           *)
THEOREM RtpImplementsExchange == RtpSpec => ImplementsExchange
  <1>1. RtpInit => Rpc!ExchangeInit
    BY DEF RtpInit, Rpc!ExchangeInit
  <1>2. RtpInv /\ [RtpNext]_rtpVars
           => [Rpc!Request \/ Rpc!Reply]_<<heard, responses>>
    <2> SUFFICES ASSUME RtpInv, [RtpNext]_rtpVars
                 PROVE  [Rpc!Request \/ Rpc!Reply]_<<heard, responses>>
      OBVIOUS
    <2> DEFINE texts == [n \in DOMAIN Messages |-> Text(n)]
    <2>1. Len(texts) = Len(Messages)
      <3>1. DOMAIN Messages = 1 .. Len(Messages) /\ Len(Messages) \in Nat
        BY RtpAssumption, LenProperties
      <3> QED BY <3>1
    <2>2. ASSUME /\ Len(heard) = Len(responses)
                 /\ Len(heard) < Len(Messages)
                 /\ heard' = Append(heard, Text(Len(heard) + 1))
                 /\ UNCHANGED responses
          PROVE  Rpc!Request
      <3>1. Len(heard) + 1 \in DOMAIN Messages
        <4>1. Len(heard) \in Nat
          BY LenProperties DEF RtpInv
        <4> QED BY <2>2, <4>1, RtpAssumption, LenProperties
      <3>2. texts[Len(heard) + 1] = Text(Len(heard) + 1)
        BY <3>1
      <3> QED BY <2>1, <2>2, <3>2 DEF Rpc!Request
    <2> QED BY <2>2, RtpStep DEF Exchanges, Rpc!Reply
  <1> QED BY <1>1, <1>2, RtpInvHolds, PTL
          DEF RtpSpec, ImplementsExchange, Rpc!ExchangeSpec
=============================================================================
