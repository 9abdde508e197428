------------------------------ MODULE TftpServer ------------------------------
(***************************************************************************)
(* The TFTP server of the firmware (tftp_server.c): one task, one socket,  *)
(* one buffer, one open file.  A packet taken from the socket is a request *)
(* or part of the transfer that is running.                                *)
(*                                                                         *)
(* Abstractions.  A packet is a record of its opcode, block number and     *)
(* data; a file is a sequence of bytes, and a byte is a member of Byte, or *)
(* JUNK when it comes from memory that holds nothing of the packet.  There *)
(* is one file.  sendto succeeds.  The 30 s of the receive timeout outlast *)
(* the delay of any packet that is not lost.                               *)
(***************************************************************************)
EXTENDS Integers, Sequences, SequencesExt

CONSTANTS
  Byte,
  JUNK,
  Block,    \* bytes in a full block (TFTP_DATA_SIZE - 4 = 512)
  Reorder   \* the network may deliver packets out of order

ASSUME ServerAssumption ==
  /\ JUNK \notin Byte
  /\ Block \in Nat \ {0}
  /\ Reorder \in BOOLEAN

VARIABLES
  pc,       \* where TFTP_task is, see States
  buf,      \* the packet in m_buffer
  size,     \* m_data_size of the block that TFTP_process_read sends
  block,    \* next_block_num of process_write, block_num of process_read
  tries,    \* r of process_read
  file,     \* the content of the file, and of what is written to it
  fpos,     \* the position of the reader in it
  toServer, \* packets on the way to the server
  toClient  \* packets on the way to the client

serverVars == <<pc, buf, size, block, tries, file, fpos>>

(***************************************************************************)
(* "idle"    TFTP_run polls the socket                                     *)
(* "parse"   TFTP_parse_rq has a packet; "again": after TFTP_process_write *)
(*           has returned 1                                                *)
(* "recv"    TFTP_process_write waits for a packet                         *)
(* "read"    TFTP_process_read fills the buffer, "send" sends it, "ack"    *)
(*           waits in TFTP_wait_for_ack                                    *)
(* "stopped" TFTP_run has returned a negative number and the task has ended*)
(***************************************************************************)
States == {"idle", "parse", "again", "recv", "read", "send", "ack", "stopped"}

Packet == [op : {"RRQ", "WRQ", "DATA", "ACK", "ERROR"}, block : Nat, data : Seq(Byte)]

Request(op) == [op |-> op, block |-> 0, data |-> <<>>]
Data(n, d)  == [op |-> "DATA", block |-> n, data |-> d]
Ack(n)      == [op |-> "ACK", block |-> n, data |-> <<>>]
Error       == [op |-> "ERROR", block |-> 0, data |-> <<>>]

-----------------------------------------------------------------------------
\* The network: recvfrom takes the packet at i of a queue.
Deliverable(queue, i) == i \in DOMAIN queue /\ (i = 1 \/ Reorder)

Reply(p) == toClient' = Append(toClient, p)

Receive(i) == Deliverable(toServer, i) /\ toServer' = RemoveAt(toServer, i)

\* TFTP_on_write_data: the loop writes the byte at len too.
TFTP_on_write_data(d) == file' = Append(file \o d, JUNK)

\* Mutant: the buffer is a byte shorter.
TFTP_on_read_data_short ==
  LET left == Len(file) - fpos
      n    == IF left < Block - 1 THEN left ELSE Block - 1
  IN /\ buf' = Data(block, SubSeq(file, fpos + 1, fpos + n))
     /\ size' = n
     /\ fpos' = fpos + (IF left < Block THEN left ELSE Block)

\* TFTP_on_read_data: the loop reads a byte more than it has room for.
TFTP_on_read_data ==
  LET left == Len(file) - fpos
      n    == IF left < Block THEN left ELSE Block
  IN /\ buf' = Data(block, SubSeq(file, fpos + 1, fpos + n))
     /\ size' = n
     /\ fpos' = fpos + (IF left < Block + 1 THEN left ELSE Block + 1)

-----------------------------------------------------------------------------
\* TFTP_run receives a packet outside of any transfer.
TFTP_run(i) ==
  /\ pc = "idle"
  /\ Receive(i)
  /\ buf' = toServer[i]
  /\ pc' = "parse"
  /\ UNCHANGED <<size, block, tries, file, fpos, toClient>>

\* The file is opened for writing, and truncated; or it cannot be opened.
TFTP_parse_wrq ==
  /\ pc \in {"parse", "again"} /\ buf.op = "WRQ"
  /\ \/ /\ file' = <<>>
        /\ block' = 1
        /\ Reply(Ack(0))
        /\ pc' = "recv"
        /\ UNCHANGED buf
     \/ /\ buf' = Error
        /\ Reply(Error)
        /\ pc' = "idle"
        /\ UNCHANGED <<file, block>>
  /\ UNCHANGED <<size, tries, fpos, toServer>>

TFTP_parse_rrq ==
  /\ pc \in {"parse", "again"} /\ buf.op = "RRQ"
  /\ \/ /\ fpos' = 0
        /\ block' = 1
        /\ pc' = "read"
        /\ UNCHANGED <<buf, toClient>>
     \/ /\ buf' = Error
        /\ Reply(Error)
        /\ pc' = "idle"
        /\ UNCHANGED <<fpos, block>>
  /\ UNCHANGED <<size, tries, file, toServer>>

\* "unknown command": the result is still -1 and the task ends; after a repeat
\* it is still 1, and the loop of TFTP_parse_rq looks at the packet again.
TFTP_parse_unknown ==
  /\ pc \in {"parse", "again"} /\ buf.op \notin {"WRQ", "RRQ"}
  /\ pc' = IF pc = "parse" THEN "stopped" ELSE "again"
  /\ UNCHANGED <<buf, size, block, tries, file, fpos, toServer, toClient>>

-----------------------------------------------------------------------------
\* Mutant: block_num <= next_block_num is taken for a block that came before.
WriteBlock_late(i) ==
  LET p == toServer[i]
  IN /\ pc = "recv" /\ Receive(i)
     /\ p.op = "DATA"
     /\ Reply(Ack(p.block))
     /\ IF p.block <= block
        THEN UNCHANGED <<block, file>>
        ELSE block' = block + 1 /\ TFTP_on_write_data(p.data)
     /\ pc' = IF Len(p.data) < Block THEN "idle" ELSE "recv"
     /\ buf' = p
     /\ UNCHANGED <<size, tries, fpos>>

\* TFTP_process_write receives a block: it is acknowledged, and written unless
\* its number is below the next one.
WriteBlock(i) ==
  LET p == toServer[i]
  IN /\ pc = "recv" /\ Receive(i)
     /\ p.op = "DATA"
     /\ Reply(Ack(p.block))
     /\ IF p.block < block
        THEN UNCHANGED <<block, file>>
        ELSE block' = block + 1 /\ TFTP_on_write_data(p.data)
     /\ pc' = IF Len(p.data) < Block THEN "idle" ELSE "recv"
     /\ buf' = p
     /\ UNCHANGED <<size, tries, fpos>>

\* It receives the request again, before any block.
WriteRequestAgain(i) ==
  /\ pc = "recv" /\ Receive(i)
  /\ toServer[i].op = "WRQ" /\ block = 1
  /\ Reply(Ack(0))
  /\ buf' = toServer[i]
  /\ UNCHANGED <<pc, size, block, tries, file, fpos>>

\* It receives something else: the file is closed, the packet is a request.
WriteOther(i) ==
  /\ pc = "recv" /\ Receive(i)
  /\ toServer[i].op # "DATA"
  /\ ~(toServer[i].op = "WRQ" /\ block = 1)
  /\ buf' = toServer[i]
  /\ pc' = "again"
  /\ UNCHANGED <<size, block, tries, file, fpos, toClient>>

\* Mutant: it goes on waiting after the timeout.
WriteTimeout_ignored ==
  /\ pc = "recv" /\ toServer = <<>>
  /\ UNCHANGED <<pc, buf, size, block, tries, file, fpos, toServer, toClient>>

\* It receives nothing for 30 s: the transfer fails and the task ends.
WriteTimeout ==
  /\ pc = "recv" /\ toServer = <<>>
  /\ pc' = "stopped"
  /\ UNCHANGED <<buf, size, block, tries, file, fpos, toServer, toClient>>

-----------------------------------------------------------------------------
ReadBlock ==
  /\ pc = "read"
  /\ TFTP_on_read_data
  /\ tries' = 0
  /\ pc' = "send"
  /\ UNCHANGED <<block, file, toServer, toClient>>

SendBlock ==
  /\ pc = "send"
  /\ Reply(buf)
  /\ pc' = "ack"
  /\ UNCHANGED <<buf, size, block, tries, file, fpos, toServer>>

\* Mutant: the number in the acknowledgement is not looked at.
AckBlock_any(i) ==
  /\ pc = "ack" /\ Receive(i)
  /\ toServer[i].op = "ACK"
  /\ IF size < Block
     THEN pc' = "idle" /\ UNCHANGED block
     ELSE pc' = "read" /\ block' = block + 1
  /\ UNCHANGED <<buf, size, tries, file, fpos, toClient>>

\* The block is acknowledged: it was the last, or the next one follows.
AckBlock(i) ==
  /\ pc = "ack" /\ Receive(i)
  /\ toServer[i] = Ack(block)
  /\ IF size < Block
     THEN pc' = "idle" /\ UNCHANGED block
     ELSE pc' = "read" /\ block' = block + 1
  /\ UNCHANGED <<buf, size, tries, file, fpos, toClient>>

\* Mutant: one try more.
Retry_more ==
  /\ tries' = tries + 1
  /\ pc' = IF tries + 1 <= 3 THEN "send" ELSE "stopped"
  /\ UNCHANGED <<size, block, file, fpos>>

\* "No ack/wrong ack, retrying", three times in all; then the task ends.
Retry ==
  /\ tries' = tries + 1
  /\ pc' = IF tries + 1 < 3 THEN "send" ELSE "stopped"
  /\ UNCHANGED <<size, block, file, fpos>>

AckOutOfOrder(i) ==
  /\ pc = "ack" /\ Receive(i)
  /\ toServer[i].op = "ACK" /\ toServer[i].block # block
  /\ Retry
  /\ UNCHANGED <<buf, toClient>>

\* TFTP_send_error builds its packet in m_buffer, where the block is.
NoAck ==
  /\ Retry
  /\ Reply(Error)
  /\ buf' = Error

AckWrong(i) ==
  /\ pc = "ack" /\ Receive(i)
  /\ toServer[i].op # "ACK"
  /\ NoAck

AckTimeout ==
  /\ pc = "ack" /\ toServer = <<>>
  /\ NoAck
  /\ UNCHANGED toServer

-----------------------------------------------------------------------------
ServerInit(content) ==
  /\ pc = "idle" /\ buf = Error /\ size = 0
  /\ block = 1 /\ tries = 0
  /\ file = content /\ fpos = 0
  /\ toServer = <<>> /\ toClient = <<>>

Server ==
  \/ \E i \in DOMAIN toServer :
       \/ TFTP_run(i)
       \/ WriteBlock(i) \/ WriteRequestAgain(i) \/ WriteOther(i)
       \/ AckBlock(i) \/ AckOutOfOrder(i) \/ AckWrong(i)
  \/ TFTP_parse_wrq \/ TFTP_parse_rrq \/ TFTP_parse_unknown
  \/ WriteTimeout \/ ReadBlock \/ SendBlock \/ AckTimeout
=============================================================================
