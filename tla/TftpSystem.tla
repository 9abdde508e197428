------------------------------ MODULE TftpSystem ------------------------------
(***************************************************************************)
(* The TFTP server with one client and the network between them.  The      *)
(* client is not part of the repository: it is a plain client that sends a *)
(* packet, waits for the answer, and sends the packet again when it has    *)
(* waited too long.  The network loses packets and, with Reorder, delivers *)
(* them in any order.                                                      *)
(***************************************************************************)
EXTENDS TftpServer

CONSTANTS
  Sources,    \* files that may be transferred: sequences of bytes
  Modes,      \* what the client does: "up" load or "down" load
  Aborts,     \* the client may give up and say so
  MaxResend,  \* bound: packets the client sends again
  MaxLoss     \* bound: packets the network loses

ASSUME SystemAssumption ==
  /\ Sources \subseteq Seq(Byte)
  /\ Modes \subseteq {"up", "down"}
  /\ Aborts \in BOOLEAN
  /\ MaxResend \in Nat /\ MaxLoss \in Nat

VARIABLES
  mode,      \* "up" or "down"
  source,    \* the bytes of the file that is transferred
  client,    \* "start", "wait" for an answer, "done" or "failed"
  sent,      \* the last packet the client has sent
  cblock,    \* uploads: the block sent last; downloads: received last
  received,  \* the bytes received
  resends,   \* packets sent again
  losses     \* packets lost

clientVars == <<mode, source, client, sent, cblock, received, resends, losses>>
vars == <<serverVars, toServer, toClient, clientVars>>

\* Block n of the source; the last one is short, perhaps empty.
SourceBlock(n) ==
  LET first == (n - 1) * Block + 1
      last  == IF n * Block < Len(source) THEN n * Block ELSE Len(source)
  IN SubSeq(source, first, last)

SendPacket(p) == sent' = p /\ toServer' = Append(toServer, p)

Take(i) == Deliverable(toClient, i) /\ toClient' = RemoveAt(toClient, i)

Start ==
  /\ client = "start"
  /\ SendPacket(Request(IF mode = "up" THEN "WRQ" ELSE "RRQ"))
  /\ client' = "wait"
  /\ UNCHANGED <<serverVars, toClient, mode, source, cblock, received, resends, losses>>

\* Upload: the answer to the last packet; send the next block, or be done.
GetAck(i) ==
  /\ mode = "up" /\ client = "wait" /\ Take(i)
  /\ toClient[i] = Ack(cblock)
  /\ IF cblock > 0 /\ Len(SourceBlock(cblock)) < Block
     THEN /\ client' = "done"
          /\ UNCHANGED <<toServer, sent, cblock>>
     ELSE /\ cblock' = cblock + 1
          /\ SendPacket(Data(cblock', SourceBlock(cblock')))
          /\ UNCHANGED client
  /\ UNCHANGED <<serverVars, mode, source, received, resends, losses>>

\* Download: the next block, or one that has come before (also when done).
GetData(i) ==
  /\ mode = "down" /\ client \in {"wait", "done"} /\ Take(i)
  /\ toClient[i].op = "DATA" /\ toClient[i].block <= cblock + 1
  /\ IF toClient[i].block = cblock + 1 /\ client = "wait"
     THEN /\ cblock' = cblock + 1
          /\ received' = received \o toClient[i].data
          /\ client' = IF Len(toClient[i].data) < Block THEN "done" ELSE "wait"
     ELSE UNCHANGED <<cblock, received, client>>
  /\ SendPacket(Ack(toClient[i].block))
  /\ UNCHANGED <<serverVars, mode, source, resends, losses>>

GetError(i) ==
  /\ client = "wait" /\ Take(i)
  /\ toClient[i].op = "ERROR"
  /\ client' = "failed"
  /\ UNCHANGED <<serverVars, toServer, mode, source, sent, cblock, received, resends, losses>>

\* Any other packet is ignored.
Awaited(p) ==
  \/ client = "wait" /\ p.op = "ERROR"
  \/ mode = "up" /\ client = "wait" /\ p = Ack(cblock)
  \/ mode = "down" /\ client \in {"wait", "done"} /\ p.op = "DATA" /\ p.block <= cblock + 1

Ignore(i) ==
  /\ Take(i)
  /\ ~Awaited(toClient[i])
  /\ UNCHANGED <<serverVars, toServer, clientVars>>

Resend ==
  /\ client = "wait"
  /\ resends < MaxResend
  /\ resends' = resends + 1
  /\ SendPacket(sent)
  /\ UNCHANGED <<serverVars, toClient, mode, source, client, cblock, received, losses>>

Abort ==
  /\ Aborts /\ client = "wait"
  /\ SendPacket(Error)
  /\ client' = "failed"
  /\ UNCHANGED <<serverVars, toClient, mode, source, cblock, received, resends, losses>>

Lose ==
  /\ losses < MaxLoss
  /\ losses' = losses + 1
  /\ \/ \E i \in DOMAIN toServer :
          toServer' = RemoveAt(toServer, i) /\ UNCHANGED toClient
     \/ \E i \in DOMAIN toClient :
          toClient' = RemoveAt(toClient, i) /\ UNCHANGED toServer
  /\ UNCHANGED <<serverVars, mode, source, client, sent, cblock, received, resends>>

Init ==
  /\ mode \in Modes /\ source \in Sources
  /\ ServerInit(IF mode = "down" THEN source ELSE <<>>)
  /\ client = "start" /\ sent = Error /\ cblock = 0
  /\ received = <<>> /\ resends = 0 /\ losses = 0

Client ==
  \/ Start \/ Resend \/ Abort
  \/ \E i \in DOMAIN toClient : GetAck(i) \/ GetData(i) \/ GetError(i) \/ Ignore(i)

Next == (Server /\ UNCHANGED clientVars) \/ Client \/ Lose

Spec == Init /\ [][Next]_vars

\* The task of the server runs when it can; the network delivers.
FairSpec == Spec /\ WF_vars(Server /\ UNCHANGED clientVars) /\ WF_vars(Client)

-----------------------------------------------------------------------------
TypeOK ==
  /\ pc \in States /\ buf \in Packet /\ size \in 0 .. Block
  /\ block \in Nat /\ tries \in 0 .. 3
  /\ file \in Seq(Byte \cup {JUNK}) /\ fpos \in 0 .. Len(file)
  /\ toServer \in Seq(Packet) /\ toClient \in Seq(Packet)
  /\ mode \in Modes /\ source \in Sources
  /\ client \in {"start", "wait", "done", "failed"}
  /\ sent \in Packet /\ cblock \in Nat /\ received \in Seq(Byte)

\* Byte i of block m, where blocks follow one another and where a byte that belongs
\* to none follows each: TFTP_on_write_data writes such a byte, TFTP_on_read_data
\* takes one.
Dense(m, i)  == (m - 1) * Block + i
Spaced(m, i) == (m - 1) * (Block + 1) + i

\* The file consists of the first n blocks of the source.
FileHas(n) ==
  /\ n > 0 => (n - 1) * Block <= Len(source)
  /\ Len(file) = n + (IF n * Block < Len(source) THEN n * Block ELSE Len(source))
  /\ \A m \in 1 .. n, i \in 1 .. Block :
       Dense(m, i) <= Len(source) => file[Spaced(m, i)] = source[Dense(m, i)]

\* The file the server writes grows by the blocks of the source, in order and
\* once each, whatever is lost or sent again (TFTP_process_write).
WrittenInOrder == mode = "up" => \E n \in 0 .. Len(file) : FileHas(n)

\* A client whose last block has been acknowledged has left all its blocks in
\* the file.
UploadComplete ==
  mode = "up" /\ client = "done" => \E n \in 0 .. Len(file) : FileHas(n) /\ n * Block > Len(source)

\* Every byte that TFTP_on_read_data stores has been received.
AllReceived ==
  \A m \in 1 .. Len(source), i \in 1 .. Block :
    Spaced(m, i) <= Len(source) => Dense(m, i) <= Len(received)

\* A client receives the blocks the server has read in order and once each, and
\* all of them when it has received a short block (TFTP_process_read).
DownloadInOrder ==
  mode = "down" =>
    /\ \A m \in 1 .. Len(received), i \in 1 .. Block :
         Dense(m, i) <= Len(received) =>
           Spaced(m, i) <= Len(source) /\ received[Dense(m, i)] = source[Spaced(m, i)]
    /\ client = "done" => AllReceived

\* In both directions, blocks arrive in order and once each.
InOrder == WrittenInOrder /\ DownloadInOrder

\* TFTP_process_read ends well only when the client has received everything.
ReadEndsAfterClient == [][pc = "ack" /\ pc' = "idle" => AllReceived]_vars

\* A client that aborts an upload leaves the server at the ERROR packet.
AtError == pc = "again" /\ buf = Error

\* The server is never left waiting: a transfer ends, or the task does (the
\* timeout of the socket, the three tries of TFTP_process_read), unless the
\* client aborts an upload.
ReturnsUnlessAborted ==
  pc \notin {"idle", "stopped"} ~> pc \in {"idle", "stopped"} \/ AtError

-----------------------------------------------------------------------------
\* What comments say, and the code does not do.

\* tftp_server.c: the task calls TFTP_run(false), "false if non-blocking mode is
\* required" (tftp_server.h), and expects it to come back from every packet.
ServerReturns == pc \notin {"idle", "stopped"} ~> pc \in {"idle", "stopped"}
=============================================================================
