--------------------------------- MODULE Rtp ---------------------------------
(***************************************************************************)
(* Project 7: the reliable transport protocol, client (rtp.c, client.c) and *)
(* server (prj7-server.py).  The client sends each of its messages in       *)
(* packets and waits for an answer to each, then receives the reply the     *)
(* same way.  The server corrupts checksums at random in both directions.   *)
(* UDP keeps the order of datagrams here, and may lose them: neither side   *)
(* has a timer.                                                             *)
(***************************************************************************)
EXTENDS Integers, Sequences, SequencesExt

CONSTANTS
    Messages,           \* the client's messages, each a sequence of codes
                        \* that ends in NUL
    MAX_PAYLOAD_LENGTH,
    Strippable,         \* the codes strip() removes: NUL, 'x' and '0'
    piglatinize(_)      \* the server's reply to a text

VARIABLES
    k,          \* the message the client is at
    cpc,        \* where the client is
    ci,         \* the packet rtp_send_message() is at
    ctext,      \* what rtp_receive_message() has put together
    responses,  \* the replies the client has printed
    spc,        \* where the server is
    stext,      \* what the server has put together
    heard,      \* the messages the server has printed
    reply,      \* the packets of the server's reply
    si,         \* the one it is at
    toServer, toClient,     \* datagrams on their way
    lost        \* one has been lost

clientVars == <<k, cpc, ci, ctext, responses>>
serverVars == <<spc, stext, heard, reply, si>>
rtpVars == <<clientVars, serverVars, toServer, toClient, lost>>

-----------------------------------------------------------------------------
checksum(payload) == FoldLeft(+, 0, payload)

(* The number of packets of n characters.                                   *)
packagenum(n) ==
    IF n % MAX_PAYLOAD_LENGTH = 0
    THEN n \div MAX_PAYLOAD_LENGTH
    ELSE n \div MAX_PAYLOAD_LENGTH + 1

Packet(type, payload) ==
    [type |-> type, checksum |-> checksum(payload), payload |-> payload]

(* The characters of packet i, the last of which may be shorter.            *)
Slice(m, i) ==
    LET end == MAX_PAYLOAD_LENGTH * i
    IN  SubSeq(m, end - MAX_PAYLOAD_LENGTH + 1,
                  IF end < Len(m) THEN end ELSE Len(m))

(* The client's packetize(): LAST_DATA where no character is left.          *)
packetize(m) ==
    [i \in 1 .. packagenum(Len(m)) |->
        Packet(IF MAX_PAYLOAD_LENGTH * i < Len(m) THEN "DATA" ELSE "LAST_DATA",
               Slice(m, i))]

(* The server's: all but the last one, then the last one.                   *)
server_packetize(m) ==
    LET num == packagenum(Len(m))
    IN  [i \in 1 .. num |->
            Packet(IF i < num THEN "DATA" ELSE "LAST_DATA", Slice(m, i))]

(* Python's strip(): the codes are removed at both ends.                    *)
Strip(s) ==
    LET kept == {i \in DOMAIN s : s[i] \notin Strippable}
        first == CHOOSE i \in kept : \A j \in kept : i <= j
        last == CHOOSE i \in kept : \A j \in kept : j <= i
    IN  IF kept = {} THEN <<>> ELSE SubSeq(s, first, last)

(* An answer: only its type is set and read.                                *)
Answer(type) == [type |-> type, checksum |-> 0, payload |-> <<>>]

Good(p) == checksum(p.payload) = p.checksum

(* What the server makes of message n: its terminating NUL is stripped.     *)
Text(n) == Front(Messages[n])

(* No packet of a message begins or ends in 'x' or '0', which strip() would *)
(* remove with the NUL; a reply ends in a full stop.                        *)
ASSUME RtpAssumption ==
    /\ MAX_PAYLOAD_LENGTH \in Nat \ {0}
    /\ Messages \in Seq(Seq(Nat)) \ {<<>>}
    /\ \A n \in DOMAIN Messages :
          /\ Messages[n] # <<>>
          /\ \A i \in 1 .. packagenum(Len(Messages[n])) :
                Strip(Slice(Messages[n], i)) = Slice(Text(n), i)
          /\ piglatinize(Text(n)) \in Seq(Nat) \ {<<>>}

RtpInit ==
    /\ k = 1 /\ cpc = "send" /\ ci = 1 /\ ctext = <<>> /\ responses = <<>>
    /\ spc = "receive" /\ stext = <<>> /\ heard = <<>> /\ reply = <<>>
    /\ si = 1
    /\ toServer = <<>> /\ toClient = <<>> /\ lost = FALSE

-----------------------------------------------------------------------------
(* rtp_send_message() sends a packet and waits in recvfrom().               *)
ClientSend ==
    /\ cpc = "send"
    /\ toServer' = Append(toServer, packetize(Messages[k])[ci])
    /\ cpc' = "answer"
    /\ UNCHANGED <<k, ci, ctext, responses, serverVars, toClient, lost>>

(* Mutant of Following: a NACK does not repeat the packet.                  *)
Onward(type) == ci + 1

(* A NACK repeats the packet; whatever else comes counts as an ACK.         *)
Following(type) == IF type = "NACK" THEN ci ELSE ci + 1

ClientAnswer ==
    /\ cpc = "answer" /\ toClient # <<>>
    /\ toClient' = Tail(toClient)
    /\ ci' = Following(Head(toClient).type)
    /\ cpc' = IF ci' > packagenum(Len(Messages[k])) THEN "receive" ELSE "send"
    /\ UNCHANGED <<k, ctext, responses, serverVars, toServer, lost>>

(* The reply is complete: main() prints it and goes on to its next message. *)
ClientReturns(message) ==
    /\ responses' = Append(responses, message)
    /\ k' = k + 1 /\ ci' = 1 /\ ctext' = <<>>
    /\ cpc' = IF k < Len(Messages) THEN "send" ELSE "done"

(* Mutant of ClientRefuses: nothing is sent for a corrupt packet.           *)
ClientIgnores == UNCHANGED <<clientVars, toServer>>

(* A corrupt packet: continue goes to the loop's condition, which holds.    *)
ClientRefuses ==
    /\ toServer' = Append(toServer, Answer("NACK"))
    /\ UNCHANGED clientVars

(* rtp_receive_message(): one turn of its loop.                             *)
ClientReceive ==
    LET p == Head(toClient)
    IN  /\ cpc = "receive" /\ toClient # <<>>
        /\ toClient' = Tail(toClient)
        /\ IF Good(p)
           THEN /\ toServer' = Append(toServer, Answer("ACK"))
                /\ IF p.type = "LAST_DATA"
                   THEN ClientReturns(ctext \o p.payload)
                   ELSE /\ ctext' = ctext \o p.payload
                        /\ UNCHANGED <<k, cpc, ci, responses>>
           ELSE ClientRefuses
        /\ UNCHANGED <<serverVars, lost>>

-----------------------------------------------------------------------------
Corrupted(p) == [p EXCEPT !.checksum = @ + 13]

(* LAST_DATA has been accepted: the message is printed and answered.        *)
ServerReplies ==
    /\ heard' = Append(heard, stext')
    /\ reply' = server_packetize(piglatinize(stext'))
    /\ si' = 1 /\ spc' = "send"

(* Mutant of Complete: the type of a corrupt packet counts.                 *)
CompleteIfLast(p) == p.type = "LAST_DATA"

Complete(p) == Good(p) /\ p.type = "LAST_DATA"

(* Mutant of Accepted: a corrupt payload is kept.                           *)
AcceptedAll(p) == stext \o Strip(p.payload)

Accepted(p) == IF Good(p) THEN stext \o Strip(p.payload) ELSE stext

(* One turn of the server's receiving loop; the corruption is simulated     *)
(* after the datagram has arrived.                                          *)
ServerReceive(corrupt) ==
    LET p == IF corrupt THEN Corrupted(Head(toServer)) ELSE Head(toServer)
    IN  /\ spc = "receive" /\ toServer # <<>>
        /\ p.type \in {"DATA", "LAST_DATA"}
        /\ toServer' = Tail(toServer)
        /\ toClient' = Append(toClient,
                              Answer(IF Good(p) THEN "ACK" ELSE "NACK"))
        /\ stext' = Accepted(p)
        /\ IF Complete(p)
           THEN ServerReplies
           ELSE UNCHANGED <<spc, heard, reply, si>>
        /\ UNCHANGED <<clientVars, lost>>

ServerSend(corrupt) ==
    /\ spc = "send"
    /\ toClient' = Append(toClient,
                          IF corrupt THEN Corrupted(reply[si]) ELSE reply[si])
    /\ spc' = "answer"
    /\ UNCHANGED <<stext, heard, reply, si, clientVars, toServer, lost>>

ServerAnswer ==
    /\ spc = "answer" /\ toServer # <<>>
    /\ Head(toServer).type \in {"ACK", "NACK"}
    /\ toServer' = Tail(toServer)
    /\ si' = IF Head(toServer).type = "ACK" THEN si + 1 ELSE si
    /\ IF si' > Len(reply)
       THEN spc' = "receive" /\ stext' = <<>>
       ELSE spc' = "send" /\ UNCHANGED stext
    /\ UNCHANGED <<heard, reply, clientVars, toClient, lost>>

(* A packet of another type makes the server exit.                          *)
ServerExit ==
    /\ toServer # <<>>
    /\ \/ spc = "receive" /\ Head(toServer).type \notin {"DATA", "LAST_DATA"}
       \/ spc = "answer" /\ Head(toServer).type \notin {"ACK", "NACK"}
    /\ toServer' = Tail(toServer)
    /\ spc' = "exit"
    /\ UNCHANGED <<stext, heard, reply, si, clientVars, toClient, lost>>

(* The network loses a datagram.                                            *)
Lose ==
    /\ \/ /\ \E i \in DOMAIN toServer : toServer' = RemoveAt(toServer, i)
          /\ UNCHANGED toClient
       \/ /\ \E i \in DOMAIN toClient : toClient' = RemoveAt(toClient, i)
          /\ UNCHANGED toServer
    /\ lost' = TRUE
    /\ UNCHANGED <<clientVars, serverVars>>

Client == ClientSend \/ ClientAnswer \/ ClientReceive

Server ==
    \/ \E corrupt \in BOOLEAN : ServerReceive(corrupt) \/ ServerSend(corrupt)
    \/ ServerAnswer \/ ServerExit

RtpNext == Client \/ Server \/ Lose

(* The processes run; a checksum is corrupted with a probability below one, *)
(* so that of infinitely many attempts one is not.                          *)
RtpFairness ==
    /\ WF_rtpVars(Client)
    /\ WF_rtpVars(ServerAnswer \/ ServerExit)
    /\ SF_rtpVars(ServerReceive(FALSE))
    /\ SF_rtpVars(ServerSend(FALSE))

RtpSpec == RtpInit /\ [][RtpNext]_rtpVars /\ RtpFairness

-----------------------------------------------------------------------------
(* However often packets are repeated, each is accepted once and in order:  *)
(* what the server has of a text is the beginning of it, all of it when it  *)
(* replies; and what the client has of a reply is the beginning of it.      *)
AcceptedInOrder ==
    /\ spc = "receive" /\ stext # <<>> =>
          k = Len(heard) + 1 /\ IsPrefix(stext, Text(k))
    /\ spc \in {"send", "answer"} => stext = Text(Len(heard))
    /\ ctext # <<>> => IsPrefix(ctext, piglatinize(stext))

(* Only when a datagram is lost does the server meet a packet of a type it  *)
(* does not expect: although the client sends the first packet of its next  *)
(* message right behind the ACK of the last reply, which may still be on    *)
(* its way.                                                                 *)
ExitsOnlyOnLoss == spc = "exit" => lost

Rpc == INSTANCE Exchange WITH
    Texts <- [n \in DOMAIN Messages |-> Text(n)]

(* The two programs implement an exchange of whole messages: the server     *)
(* prints the client's texts and the client the replies, in turn, each once *)
(* and unchanged, whatever is corrupted or lost.                            *)
ImplementsExchange == Rpc!ExchangeSpec

(* Every message gets its reply, unless a datagram is lost.                 *)
Finishes == <>(cpc = "done" \/ lost)
=============================================================================
