-------------------------- MODULE TftpSystem_proofs --------------------------
(***************************************************************************)
(* Proofs about TftpSystem: both directions transfer the blocks in order   *)
(* and once each, for every size of a block, every file, and any number of *)
(* packets lost and sent again.                                            *)
(*                                                                         *)
(* Downloads: a block is a function of its number (Chunk), so it does not  *)
(* matter which of several copies arrives; the server is never more than a *)
(* block ahead of the client.  Uploads: an acknowledgement tells that its  *)
(* block has been written, and behind a block there is no request on the   *)
(* way to the server (Sorted), which would truncate the file; this needs a *)
(* network that keeps the order.                                           *)
(***************************************************************************)
EXTENDS TftpSystem, SequenceTheorems, TLAPS

-----------------------------------------------------------------------------
(***************************************************************************)
(* The inductive invariant.                                                *)
(***************************************************************************)

Typed ==
  /\ mode \in {"up", "down"} /\ source \in Seq(Byte)
  /\ pc \in States /\ client \in {"start", "wait", "done", "failed"}
  /\ block \in Nat \ {0} /\ cblock \in Nat /\ size \in Nat /\ fpos \in Nat
  /\ file \in Seq(Byte \cup {JUNK}) /\ received \in Seq(Byte)
  /\ buf \in Packet /\ sent \in Packet
  /\ toServer \in Seq(Packet) /\ toClient \in Seq(Packet)

\* What a client that uploads sends.
Uploaded(p) ==
  \/ p = Request("WRQ")
  \/ p.op = "DATA" /\ p.block \in 1 .. cblock /\ p = Data(p.block, SourceBlock(p.block))
  \/ p = Error /\ client = "failed"

\* No request to write is behind another packet, nor left when block 1 is written.
Sorted ==
  /\ \A i, j \in DOMAIN toServer : i < j /\ toServer[i].op # "WRQ" => toServer[j].op # "WRQ"
  /\ block > 1 => \A i \in DOMAIN toServer : toServer[i].op # "WRQ"
  /\ pc \in {"parse", "again"} /\ buf.op = "WRQ" => block = 1

Acknowledged(p) == p = Error \/ (p.op = "ACK" /\ p.block \in 0 .. block - 1)

Passing ==
  /\ \A i \in DOMAIN toServer : Uploaded(toServer[i])
  /\ pc \in {"parse", "again"} => Uploaded(buf)
  /\ client = "wait" =>
       sent = IF cblock = 0 THEN Request("WRQ") ELSE Data(cblock, SourceBlock(cblock))
  /\ \A i \in DOMAIN toClient : Acknowledged(toClient[i])

Writing ==
  /\ pc \in {"idle", "parse", "again", "recv", "stopped"}
  /\ client = "start" => cblock = 0
  /\ cblock <= block /\ block <= cblock + 1
  /\ cblock > 0 => (cblock - 1) * Block <= Len(source)
  /\ FileHas(block - 1)
  /\ client = "done" => cblock > 0 /\ block = cblock + 1 /\ cblock * Block > Len(source)

Uploading == Writing /\ Passing

\* Where TFTP_on_read_data finds block n, how long it is, and its bytes.
From(n) ==
  IF (n - 1) * (Block + 1) <= Len(source) THEN (n - 1) * (Block + 1) ELSE Len(source)
Size(n) == IF Len(source) - From(n) < Block THEN Len(source) - From(n) ELSE Block
Chunk(n) == SubSeq(source, From(n) + 1, From(n) + Size(n))

\* The blocks before block n are full.
Follows(n) == n = 1 \/ Size(n - 1) = Block

\* What a client that downloads sends, and what it is sent.
Asked(p) == p.op \notin {"WRQ", "DATA"} /\ (p.op = "ACK" => p.block <= cblock)
Answer(p) ==
  \/ p = Error
  \/ p.op = "DATA" /\ p.block > 0 /\ p.data = Chunk(p.block) /\ Follows(p.block)

Serving ==
  /\ file = source
  /\ pc \in {"idle", "parse", "read", "send", "ack", "stopped"}
  /\ pc = "parse" => buf.op # "WRQ"
  /\ pc = "read" => fpos = From(block)
  /\ pc \in {"send", "ack"} =>
       /\ buf \in {Data(block, Chunk(block)), Error}
       /\ size = Size(block) /\ fpos = From(block + 1)
  /\ pc \in {"read", "send", "ack"} => Follows(block) /\ block <= cblock + 1

Underway ==
  /\ \A i \in DOMAIN toServer : Asked(toServer[i])
  /\ \A i \in DOMAIN toClient : Answer(toClient[i])
  /\ client = "wait" => Asked(sent)

Got ==
  /\ cblock > 0 => Follows(cblock)
  /\ Len(received) = IF cblock = 0 THEN 0 ELSE (cblock - 1) * Block + Size(cblock)
  /\ \A m \in 1 .. cblock : \A i \in 1 .. Size(m) : received[Dense(m, i)] = source[Spaced(m, i)]
  /\ client = "done" => cblock > 0 /\ Size(cblock) < Block

Downloading == Serving /\ Underway /\ Got

\* Nobody asks to read while a file is uploaded.
NobodyReads ==
  /\ pc \notin {"read", "send", "ack"}
  /\ pc \in {"parse", "again"} => buf.op # "RRQ"
  /\ client = "wait" => sent.op # "RRQ"
  /\ \A i \in DOMAIN toServer : toServer[i].op # "RRQ"

IInv ==
  /\ Typed
  /\ mode = "up" => NobodyReads
  /\ mode = "up" /\ ~Reorder => Uploading /\ Sorted
  /\ mode = "down" => Downloading

-----------------------------------------------------------------------------
(***************************************************************************)
(* Queues and products.                                                    *)
(***************************************************************************)

\* A part of a sequence.
LEMMA Part ==
  ASSUME NEW S, NEW q \in Seq(S), NEW m \in 1 .. Len(q) + 1, NEW n \in 0 .. Len(q)
  PROVE  /\ SubSeq(q, m, n) \in Seq(S)
         /\ Len(SubSeq(q, m, n)) = IF m <= n THEN n - m + 1 ELSE 0
         /\ \A i \in 1 .. n - m + 1 : SubSeq(q, m, n)[i] = q[m + i - 1]
<1>1. \A i \in m .. n : q[i] \in S
  OBVIOUS
<1>2. m \in Int /\ n \in Int
  OBVIOUS
<1> QED
  BY <1>1, <1>2, SubSeqProperties

\* A packet taken from a queue leaves the others in their order.
LEMMA RemovedAt ==
  ASSUME NEW S, NEW q \in Seq(S), NEW i \in DOMAIN q
  PROVE  /\ RemoveAt(q, i) \in Seq(S)
         /\ DOMAIN RemoveAt(q, i) = 1 .. Len(q) - 1
         /\ \A j \in 1 .. Len(q) - 1 : RemoveAt(q, i)[j] = IF j < i THEN q[j] ELSE q[j + 1]
<1> DEFINE a == SubSeq(q, 1, i - 1)
           b == SubSeq(q, i + 1, Len(q))
<1>1. i \in 1 .. Len(q) /\ Len(q) \in Nat
  BY LenProperties
<1>2. PICK m \in 0 .. Len(q) : m = i - 1
  BY <1>1
<1>3. a \in Seq(S) /\ Len(a) = i - 1 /\ \A j \in 1 .. i - 1 : a[j] = q[j]
  <2>1. 1 \in 1 .. Len(q) + 1
    BY <1>1
  <2>2. /\ SubSeq(q, 1, m) \in Seq(S)
        /\ Len(SubSeq(q, 1, m)) = IF 1 <= m THEN m - 1 + 1 ELSE 0
        /\ \A j \in 1 .. m - 1 + 1 : SubSeq(q, 1, m)[j] = q[1 + j - 1]
    BY <1>2, <2>1, Part
  <2> QED
    BY <1>1, <1>2, <2>2
<1>4. b \in Seq(S) /\ Len(b) = Len(q) - i /\ \A j \in 1 .. Len(q) - i : b[j] = q[i + j]
  <2>1. PICK n \in 1 .. Len(q) + 1 : n = i + 1
    BY <1>1
  <2>2. Len(q) \in 0 .. Len(q)
    BY <1>1
  <2>3. /\ SubSeq(q, n, Len(q)) \in Seq(S)
        /\ Len(SubSeq(q, n, Len(q))) = IF n <= Len(q) THEN Len(q) - n + 1 ELSE 0
        /\ \A j \in 1 .. Len(q) - n + 1 : SubSeq(q, n, Len(q))[j] = q[n + j - 1]
    BY <2>1, <2>2, Part
  <2> QED
    BY <1>1, <2>1, <2>3
<1> HIDE DEF a, b
<1>5. /\ a \o b \in Seq(S) /\ Len(a \o b) = Len(a) + Len(b)
      /\ \A j \in 1 .. Len(a) + Len(b) : (a \o b)[j] = IF j <= Len(a) THEN a[j] ELSE b[j - Len(a)]
  BY <1>3, <1>4, ConcatProperties
<1>6. RemoveAt(q, i) = a \o b
  BY DEF RemoveAt, a, b
<1>7. DOMAIN (a \o b) = 1 .. Len(q) - 1
  BY <1>1, <1>3, <1>4, <1>5, LenProperties
<1>8. ASSUME NEW j \in 1 .. Len(q) - 1
      PROVE  (a \o b)[j] = IF j < i THEN q[j] ELSE q[j + 1]
  <2>1. i \in Int /\ j \in Int /\ Len(a) \in Int /\ Len(b) \in Int
    BY <1>1, <1>3, <1>4
  <2>2. Len(a) + Len(b) = Len(q) - 1
    BY <1>1, <1>3, <1>4
  <2>3. (a \o b)[j] = IF j <= Len(a) THEN a[j] ELSE b[j - Len(a)]
    BY <1>5, <2>2
  <2>4. CASE j < i
    <3>1. j <= Len(a) /\ j \in 1 .. i - 1
      BY <1>3, <2>1, <2>4
    <3> QED
      BY <1>3, <2>3, <2>4, <3>1
  <2>5. CASE ~(j < i)
    <3>1. ~(j <= Len(a)) /\ j - Len(a) \in 1 .. Len(q) - i /\ i + (j - Len(a)) = j + 1
      BY <1>1, <1>3, <2>1, <2>5
    <3> QED
      BY <1>4, <2>3, <2>5, <3>1
  <2> QED
    BY <2>4, <2>5
<1> QED
  BY <1>5, <1>6, <1>7, <1>8

\* Whatever holds of all packets of a queue, in this form, the others keep.
LEMMA Others ==
  ASSUME NEW S, NEW q \in Seq(S), NEW i \in DOMAIN q
  PROVE  \A j \in DOMAIN RemoveAt(q, i) : \E k \in DOMAIN q : RemoveAt(q, i)[j] = q[k]
<1>1. DOMAIN q = 1 .. Len(q) /\ Len(q) \in Nat
  BY LenProperties
<1> DEFINE r == RemoveAt(q, i)
<1>2. /\ DOMAIN r = 1 .. Len(q) - 1
      /\ \A j \in 1 .. Len(q) - 1 : r[j] = IF j < i THEN q[j] ELSE q[j + 1]
  BY RemovedAt
<1> HIDE DEF r
<1>3. ASSUME NEW j \in DOMAIN r
      PROVE  \E k \in DOMAIN q : r[j] = q[k]
  BY <1>1, <1>2
<1> QED
  BY <1>3 DEF r

\* A packet that is appended is the last of the queue.
LEMMA Appended ==
  ASSUME NEW S, NEW q \in Seq(S), NEW p \in S
  PROVE  /\ Append(q, p) \in Seq(S) /\ DOMAIN q = 1 .. Len(q) /\ Len(q) \in Nat
         /\ DOMAIN Append(q, p) = 1 .. Len(q) + 1
         /\ \A j \in 1 .. Len(q) : Append(q, p)[j] = q[j]
         /\ Append(q, p)[Len(q) + 1] = p
OBVIOUS

\* Multiplication by a natural number is monotonic and distributes.
LEMMA Products ==
  ASSUME NEW a \in Int, NEW b \in Int, NEW c \in Nat
  PROVE  /\ a * c \in Int /\ b * c \in Int
         /\ a <= b => a * c <= b * c
         /\ (a + 1) * c = a * c + c /\ (a - 1) * c = a * c - c
         /\ a * (c + 1) = a * c + a
         /\ 0 * c = 0
OBVIOUS

-----------------------------------------------------------------------------
(***************************************************************************)
(* Blocks of the file that is transferred.                                 *)
(***************************************************************************)

\* SourceBlock: a block of the source, full unless it is the last.
LEMMA SourceBlocks ==
  ASSUME source \in Seq(Byte), NEW n \in Nat \ {0}
  PROVE  /\ SourceBlock(n) \in Seq(Byte)
         /\ (n - 1) * Block <= Len(source) =>
              /\ Len(SourceBlock(n)) =
                   IF n * Block < Len(source) THEN Block ELSE Len(source) - (n - 1) * Block
              /\ \A i \in 1 .. Len(SourceBlock(n)) : SourceBlock(n)[i] = source[Dense(n, i)]
<1>1. Block \in Nat \ {0} /\ Len(source) \in Nat /\ n \in Nat \ {0}
  BY LenProperties, ServerAssumption DEF ServerAssumption
<1>2. PICK a \in Nat : a = (n - 1) * Block
  BY <1>1
<1>3. n * Block = a + Block
  <2>1. n - 1 \in Int /\ Block \in Nat /\ n \in Int
    BY <1>1
  <2>2. (n - 1 + 1) * Block = (n - 1) * Block + Block
    BY <2>1, Products
  <2> QED
    BY <1>1, <1>2, <2>2
<1>4. PICK f \in Int : f = a + 1
  BY <1>2
<1>5. PICK l \in Int : l = IF a + Block < Len(source) THEN a + Block ELSE Len(source)
  BY <1>1, <1>2
<1>6. SourceBlock(n) = SubSeq(source, f, l)
  BY <1>2, <1>3, <1>4, <1>5 DEF SourceBlock
<1>7. \A i \in f .. l : source[i] \in Byte
  BY <1>1, <1>2, <1>4, <1>5, ElementOfSeq
<1>8. /\ SubSeq(source, f, l) \in Seq(Byte)
      /\ Len(SubSeq(source, f, l)) = IF f <= l THEN l - f + 1 ELSE 0
      /\ \A i \in 1 .. l - f + 1 : SubSeq(source, f, l)[i] = source[f + i - 1]
  BY <1>4, <1>5, <1>7, SubSeqProperties
<1>9. a <= Len(source) =>
        /\ Len(SubSeq(source, f, l)) = IF a + Block < Len(source) THEN Block ELSE Len(source) - a
        /\ \A i \in 1 .. Len(SubSeq(source, f, l)) : SubSeq(source, f, l)[i] = source[a + i]
  <2> SUFFICES ASSUME a <= Len(source)
               PROVE  /\ Len(SubSeq(source, f, l)) =
                           IF a + Block < Len(source) THEN Block ELSE Len(source) - a
                      /\ \A i \in 1 .. Len(SubSeq(source, f, l)) :
                           SubSeq(source, f, l)[i] = source[a + i]
    OBVIOUS
  <2>1. Len(SubSeq(source, f, l)) = IF a + Block < Len(source) THEN Block ELSE Len(source) - a
    <3>1. CASE a + Block < Len(source)
      <4>1. l = a + Block
        BY <1>5, <3>1
      <4>2. f <= l /\ l - f + 1 = Block
        BY <1>1, <1>4, <4>1
      <4> QED
        BY <1>8, <3>1, <4>2
    <3>2. CASE ~(a + Block < Len(source))
      <4>1. l = Len(source)
        BY <1>5, <3>2
      <4>2. f <= l \/ l - f + 1 = 0
        BY <1>1, <1>4, <4>1
      <4>3. l - f + 1 = Len(source) - a
        BY <1>1, <1>4, <4>1
      <4> QED
        BY <1>8, <3>2, <4>2, <4>3
    <3> QED
      BY <3>1, <3>2
  <2>3. ASSUME NEW i \in 1 .. l - f + 1
        PROVE  SubSeq(source, f, l)[i] = source[a + i]
    <3>1. f + i - 1 = a + i
      BY <1>2, <1>4, <1>5
    <3> QED
      BY <1>8, <3>1
  <2>4. Len(SubSeq(source, f, l)) = l - f + 1 \/ (l - f + 1 < 1 /\ Len(SubSeq(source, f, l)) = 0)
    BY <1>4, <1>5, <1>8
  <2>5. Len(SubSeq(source, f, l)) \in Nat
    BY <1>8, LenProperties
  <2>6. 1 .. Len(SubSeq(source, f, l)) \subseteq 1 .. l - f + 1
    BY <2>4, <2>5
  <2> QED
    BY <2>1, <2>3, <2>6
<1> QED
  BY <1>2, <1>3, <1>6, <1>8, <1>9 DEF Dense

\* Chunk: what TFTP_on_read_data takes from the file for block n.
LEMMA Chunks ==
  ASSUME source \in Seq(Byte), NEW n \in Nat \ {0}
  PROVE  /\ From(n) \in 0 .. Len(source) /\ Size(n) \in 0 .. Block
         /\ Chunk(n) \in Seq(Byte) /\ Len(Chunk(n)) = Size(n)
         /\ \A i \in 1 .. Size(n) :
              Spaced(n, i) <= Len(source) /\ Chunk(n)[i] = source[Spaced(n, i)]
<1>1. Block \in Nat \ {0} /\ Len(source) \in Nat /\ n \in Nat \ {0}
  BY LenProperties, ServerAssumption DEF ServerAssumption
<1>2. PICK a \in Nat : a = (n - 1) * (Block + 1)
  BY <1>1
<1>3. From(n) = (IF a <= Len(source) THEN a ELSE Len(source)) /\ From(n) \in 0 .. Len(source)
  BY <1>1, <1>2 DEF From
<1>4. Size(n) = (IF Len(source) - From(n) < Block THEN Len(source) - From(n) ELSE Block)
  BY DEF Size
<1>5. Size(n) \in 0 .. Block
  BY <1>1, <1>3, <1>4
<1>6. PICK f \in 1 .. Len(source) + 1 : f = From(n) + 1
  BY <1>1, <1>3
<1>7. PICK l \in 0 .. Len(source) : l = From(n) + Size(n)
  <2>1. CASE Len(source) - From(n) < Block
    BY <1>1, <1>3, <1>4, <2>1
  <2>2. CASE ~(Len(source) - From(n) < Block)
    BY <1>1, <1>3, <1>4, <2>2
  <2> QED
    BY <2>1, <2>2
<1>8. Chunk(n) = SubSeq(source, f, l)
  BY <1>6, <1>7 DEF Chunk
<1>9. /\ SubSeq(source, f, l) \in Seq(Byte)
      /\ Len(SubSeq(source, f, l)) = IF f <= l THEN l - f + 1 ELSE 0
      /\ \A i \in 1 .. l - f + 1 : SubSeq(source, f, l)[i] = source[f + i - 1]
  BY Part
<1>10. l - f + 1 = Size(n) /\ Len(SubSeq(source, f, l)) = Size(n)
  BY <1>1, <1>3, <1>5, <1>6, <1>7, <1>9
<1>11. ASSUME NEW i \in 1 .. Size(n)
       PROVE  a + i <= Len(source) /\ SubSeq(source, f, l)[i] = source[a + i]
  <2>1. From(n) = a /\ f + i - 1 = a + i /\ a + i <= Len(source)
    BY <1>1, <1>2, <1>3, <1>4, <1>6
  <2> QED
    BY <1>9, <1>10, <2>1
<1> QED
  BY <1>2, <1>3, <1>5, <1>8, <1>9, <1>10, <1>11 DEF Spaced

\* Before a full block there are only full blocks.
LEMMA FullBefore ==
  ASSUME source \in Seq(Byte), NEW n \in Nat \ {0}, NEW m \in 1 .. n, Size(n) = Block
  PROVE  Size(m) = Block
<1>1. Block \in Nat \ {0} /\ Len(source) \in Nat /\ n \in Nat \ {0} /\ m \in Nat \ {0} /\ m <= n
  BY LenProperties, ServerAssumption DEF ServerAssumption
<1>2. PICK a \in Nat : a = (n - 1) * (Block + 1)
  BY <1>1
<1>3. PICK b \in Nat : b = (m - 1) * (Block + 1)
  BY <1>1
<1>4. b <= a
  <2>1. m - 1 \in Int /\ n - 1 \in Int /\ Block + 1 \in Nat /\ m - 1 <= n - 1
    BY <1>1
  <2>2. (m - 1) * (Block + 1) <= (n - 1) * (Block + 1)
    BY <2>1, Products
  <2> QED
    BY <1>2, <1>3, <2>2
<1>5. a + Block <= Len(source)
  <2>1. From(n) = IF a <= Len(source) THEN a ELSE Len(source)
    BY <1>2 DEF From
  <2>2. Block = IF Len(source) - From(n) < Block THEN Len(source) - From(n) ELSE Block
    BY DEF Size
  <2> QED
    BY <1>1, <1>2, <2>1, <2>2
<1>6. From(m) = b
  BY <1>1, <1>2, <1>3, <1>4, <1>5 DEF From
<1> QED
  BY <1>1, <1>2, <1>3, <1>4, <1>5, <1>6 DEF Size

\* Where the next block starts.
LEMMA FromNext ==
  ASSUME source \in Seq(Byte), NEW n \in Nat \ {0}
  PROVE  From(n + 1) = From(n) + (IF Len(source) - From(n) < Block + 1
                                  THEN Len(source) - From(n) ELSE Block + 1)
<1>1. Block \in Nat \ {0} /\ Len(source) \in Nat /\ n \in Nat \ {0}
  BY LenProperties, ServerAssumption DEF ServerAssumption
<1>2. PICK a \in Nat : a = (n - 1) * (Block + 1)
  BY <1>1
<1>3. (n + 1 - 1) * (Block + 1) = a + (Block + 1)
  <2>1. n - 1 \in Int /\ Block + 1 \in Nat
    BY <1>1
  <2>2. (n - 1 + 1) * (Block + 1) = (n - 1) * (Block + 1) + (Block + 1)
    BY <2>1, Products
  <2>3. n - 1 + 1 = n + 1 - 1
    BY <1>1
  <2> QED
    BY <1>2, <2>2, <2>3
<1>4. From(n) = IF a <= Len(source) THEN a ELSE Len(source)
  BY <1>2 DEF From
<1>5. From(n + 1) = IF a + (Block + 1) <= Len(source) THEN a + (Block + 1) ELSE Len(source)
  BY <1>3 DEF From
<1>6. PICK c \in Nat : c = Len(source)
  BY <1>1
<1>7. PICK d \in Nat : d = Block + 1
  BY <1>1
<1>8. (IF a + d <= c THEN a + d ELSE c) =
        (IF a <= c THEN a ELSE c) +
        (IF c - (IF a <= c THEN a ELSE c) < d THEN c - (IF a <= c THEN a ELSE c) ELSE d)
  <2>1. CASE a + d <= c
    <3>1. a <= c /\ ~(c - a < d) /\ a \in Int /\ d \in Int
      BY <2>1
    <3> QED
      BY <2>1, <3>1, Zenon
  <2>2. CASE ~(a + d <= c) /\ a <= c
    <3>1. c - a < d /\ a + (c - a) = c
      BY <2>2
    <3> QED
      BY <2>2, <3>1
  <2>3. CASE ~(a <= c)
    <3>1. ~(a + d <= c) /\ c - c < d /\ c + (c - c) = c
      BY <1>1, <1>7, <2>3
    <3> QED
      BY <2>3, <3>1
  <2> QED
    BY <2>1, <2>2, <2>3
<1> QED
  BY <1>4, <1>5, <1>6, <1>7, <1>8

-----------------------------------------------------------------------------
(***************************************************************************)
(* Typed is preserved, and nobody reads while a file is uploaded.          *)
(***************************************************************************)

\* The packets that are sent are packets.
LEMMA PacketsTyped ==
  ASSUME Typed
  PROVE  /\ Request("WRQ") \in Packet /\ Request("RRQ") \in Packet /\ Error \in Packet
         /\ \A n \in Nat : Ack(n) \in Packet
         /\ \A n \in Nat \ {0} : Data(n, SourceBlock(n)) \in Packet /\ Data(n, Chunk(n)) \in Packet
         /\ \A i \in DOMAIN toServer : toServer[i] \in Packet /\ RemoveAt(toServer, i) \in Seq(Packet)
         /\ \A i \in DOMAIN toClient : toClient[i] \in Packet /\ RemoveAt(toClient, i) \in Seq(Packet)
         /\ \A p \in Packet : /\ Append(toServer, p) \in Seq(Packet)
                              /\ Append(toClient, p) \in Seq(Packet)
                              /\ p.block \in Nat /\ p.data \in Seq(Byte)
<1>1. <<>> \in Seq(Byte)
  OBVIOUS
<1>2. /\ Request("WRQ") \in Packet /\ Request("RRQ") \in Packet /\ Error \in Packet
      /\ \A n \in Nat : Ack(n) \in Packet
  BY <1>1 DEF Request, Error, Ack, Packet
<1>3. ASSUME NEW n \in Nat \ {0}
      PROVE  Data(n, SourceBlock(n)) \in Packet /\ Data(n, Chunk(n)) \in Packet
  <2>1. SourceBlock(n) \in Seq(Byte) /\ Chunk(n) \in Seq(Byte)
    BY SourceBlocks, Chunks DEF Typed
  <2> QED
    BY <2>1 DEF Data, Packet
<1>4. toServer \in Seq(Packet) /\ toClient \in Seq(Packet)
  BY DEF Typed
<1>5. \A i \in DOMAIN toServer : toServer[i] \in Packet /\ RemoveAt(toServer, i) \in Seq(Packet)
  BY <1>4, RemovedAt, ElementOfSeq, LenProperties
<1>6. \A i \in DOMAIN toClient : toClient[i] \in Packet /\ RemoveAt(toClient, i) \in Seq(Packet)
  BY <1>4, RemovedAt, ElementOfSeq, LenProperties
<1>7. \A p \in Packet : /\ Append(toServer, p) \in Seq(Packet)
                        /\ Append(toClient, p) \in Seq(Packet)
  BY <1>4, Appended
<1>8. \A p \in Packet : p.block \in Nat /\ p.data \in Seq(Byte)
  BY DEF Packet
<1> QED
  BY <1>2, <1>3, <1>5, <1>6, <1>7, <1>8

\* TFTP_on_read_data of the source.
LEMMA Reads ==
  ASSUME source \in Seq(Byte), block \in Nat \ {0}, file = source, fpos = From(block),
         TFTP_on_read_data
  PROVE  buf' = Data(block, Chunk(block)) /\ size' = Size(block) /\ fpos' = From(block + 1)
<1>1. /\ buf' = Data(block, SubSeq(source, From(block) + 1, From(block) + Size(block)))
      /\ size' = Size(block)
  BY DEF TFTP_on_read_data, Size
<1>2. fpos' = From(block) + (IF Len(source) - From(block) < Block + 1
                            THEN Len(source) - From(block) ELSE Block + 1)
  BY DEF TFTP_on_read_data
<1>3. fpos' = From(block + 1)
  BY <1>2, FromNext
<1> QED
  BY <1>1, <1>3 DEF Chunk

\* Every step of the server keeps the types.
LEMMA ServerTyped ==
  ASSUME Typed, Server, UNCHANGED clientVars,
         pc = "read" => file = source /\ fpos = From(block)
  PROVE  Typed'
<1> USE DEF Typed, clientVars
<1>1. ASSUME NEW i \in DOMAIN toServer, Receive(i)
      PROVE  toServer[i] \in Packet /\ toServer' \in Seq(Packet)
  BY <1>1, PacketsTyped DEF Receive
<1>2. ASSUME NEW p \in Packet, Reply(p)
      PROVE  toClient' \in Seq(Packet)
  BY <1>2, PacketsTyped DEF Reply
<1>3. Error \in Packet /\ Ack(0) \in Packet
  BY PacketsTyped
<1>4. ASSUME NEW i \in DOMAIN toServer, TFTP_run(i)
      PROVE  Typed'
  BY <1>1, <1>4 DEF TFTP_run, States
<1>5. ASSUME NEW i \in DOMAIN toServer, WriteBlock(i)
      PROVE  Typed'
  <2>1. toServer[i] \in Packet /\ toServer' \in Seq(Packet)
    BY <1>1, <1>5 DEF WriteBlock
  <2>2. toServer[i].block \in Nat /\ toServer[i].data \in Seq(Byte)
    BY <2>1, PacketsTyped
  <2>3. toClient' \in Seq(Packet)
    BY <1>2, <1>5, <2>2, PacketsTyped DEF WriteBlock
  <2>4. Append(file \o toServer[i].data, JUNK) \in Seq(Byte \cup {JUNK})
    <3>1. toServer[i].data \in Seq(Byte \cup {JUNK})
      BY <2>2, SeqMonotonic
    <3>2. file \o toServer[i].data \in Seq(Byte \cup {JUNK})
      BY <3>1, ConcatProperties
    <3> QED
      BY <3>2
  <2>5. file' \in Seq(Byte \cup {JUNK}) /\ block' \in Nat \ {0}
    <3>1. CASE toServer[i].block < block
      BY <1>5, <3>1 DEF WriteBlock
    <3>2. CASE ~(toServer[i].block < block)
      <4>1. block' = block + 1 /\ file' = Append(file \o toServer[i].data, JUNK)
        BY <1>5, <3>2 DEF WriteBlock, TFTP_on_write_data
      <4> QED
        BY <2>4, <4>1
    <3> QED
      BY <3>1, <3>2
  <2> QED
    BY <1>5, <2>1, <2>3, <2>5 DEF WriteBlock, States
<1>6. ASSUME NEW i \in DOMAIN toServer, WriteRequestAgain(i)
      PROVE  Typed'
  BY <1>1, <1>2, <1>3, <1>6 DEF WriteRequestAgain
<1>7. ASSUME NEW i \in DOMAIN toServer, WriteOther(i)
      PROVE  Typed'
  BY <1>1, <1>7 DEF WriteOther, States
<1>8. ASSUME NEW i \in DOMAIN toServer, AckBlock(i)
      PROVE  Typed'
  <2>1. block' \in Nat \ {0} /\ pc' \in States
    BY <1>8 DEF AckBlock, States
  <2> QED
    BY <1>1, <1>8, <2>1 DEF AckBlock
<1>9. ASSUME NEW i \in DOMAIN toServer, AckOutOfOrder(i)
      PROVE  Typed'
  BY <1>1, <1>9 DEF AckOutOfOrder, Retry, States
<1>10. ASSUME NEW i \in DOMAIN toServer, AckWrong(i)
       PROVE  Typed'
  BY <1>1, <1>2, <1>3, <1>10 DEF AckWrong, NoAck, Retry, States
<1>11. ASSUME TFTP_parse_wrq PROVE Typed'
  <2>1. toClient' \in Seq(Packet)
    BY <1>2, <1>3, <1>11 DEF TFTP_parse_wrq
  <2>2. file' \in Seq(Byte \cup {JUNK})
    <3>1. file' = <<>> \/ file' = file
      BY <1>11 DEF TFTP_parse_wrq
    <3>2. <<>> \in Seq(Byte \cup {JUNK})
      OBVIOUS
    <3> QED
      BY <3>1, <3>2
  <2>3. buf' \in Packet /\ block' \in Nat \ {0} /\ pc' \in States
    BY <1>3, <1>11 DEF TFTP_parse_wrq, States
  <2> QED
    BY <1>11, <2>1, <2>2, <2>3 DEF TFTP_parse_wrq
<1>12. ASSUME TFTP_parse_rrq PROVE Typed'
  BY <1>2, <1>3, <1>12 DEF TFTP_parse_rrq, States
<1>13. ASSUME TFTP_parse_unknown PROVE Typed'
  BY <1>13 DEF TFTP_parse_unknown, States
<1>14. ASSUME WriteTimeout PROVE Typed'
  BY <1>14 DEF WriteTimeout, States
<1>15. ASSUME ReadBlock PROVE Typed'
  <2>1. file = source /\ fpos = From(block)
    BY <1>15 DEF ReadBlock
  <2>2. buf' = Data(block, Chunk(block)) /\ size' = Size(block) /\ fpos' = From(block + 1)
    BY <1>15, <2>1, Reads DEF ReadBlock
  <2>3. buf' \in Packet
    BY <2>2, PacketsTyped
  <2>4. size' \in Nat /\ fpos' \in Nat
    <3>1. Size(block) \in 0 .. Block /\ From(block + 1) \in 0 .. Len(source) /\ Block \in Nat
      BY Chunks, ServerAssumption DEF ServerAssumption
    <3> QED
      BY <2>2, <3>1
  <2> QED
    BY <1>15, <2>3, <2>4 DEF ReadBlock, States
<1>16. ASSUME SendBlock PROVE Typed'
  BY <1>2, <1>16 DEF SendBlock, States
<1>17. ASSUME AckTimeout PROVE Typed'
  BY <1>2, <1>3, <1>17 DEF AckTimeout, NoAck, Retry, States
<1> HIDE DEF Typed, clientVars
<1> QED
  BY <1>4, <1>5, <1>6, <1>7, <1>8, <1>9, <1>10, <1>11, <1>12, <1>13, <1>14, <1>15,
     <1>16, <1>17 DEF Server

\* Every step of the client and of the network keeps the types.
LEMMA ClientTyped ==
  ASSUME Typed, Client \/ Lose
  PROVE  Typed'
<1> USE DEF Typed, serverVars, clientVars
<1>1. ASSUME NEW i \in DOMAIN toClient, Take(i)
      PROVE  toClient[i] \in Packet /\ toClient' \in Seq(Packet)
  BY <1>1, PacketsTyped DEF Take
<1>2. ASSUME NEW p \in Packet, SendPacket(p)
      PROVE  toServer' \in Seq(Packet) /\ sent' \in Packet
  BY <1>2, PacketsTyped DEF SendPacket
<1>3. ASSUME Start PROVE Typed'
  <2>1. Request(IF mode = "up" THEN "WRQ" ELSE "RRQ") \in Packet
    BY PacketsTyped
  <2>2. toServer' \in Seq(Packet) /\ sent' \in Packet
    BY <1>2, <1>3, <2>1 DEF Start
  <2> QED
    BY <1>3, <2>2 DEF Start
<1>4. ASSUME Resend PROVE Typed'
  BY <1>2, <1>4 DEF Resend
<1>5. ASSUME Abort PROVE Typed'
  <2>1. Error \in Packet
    BY PacketsTyped
  <2> QED
    BY <1>2, <1>5, <2>1 DEF Abort
<1>6. ASSUME NEW i \in DOMAIN toClient, GetAck(i)
      PROVE  Typed'
  <2>1. toClient' \in Seq(Packet)
    BY <1>1, <1>6 DEF GetAck
  <2>2. CASE cblock > 0 /\ Len(SourceBlock(cblock)) < Block
    BY <1>6, <2>1, <2>2 DEF GetAck
  <2>3. CASE ~(cblock > 0 /\ Len(SourceBlock(cblock)) < Block)
    <3>1. cblock' = cblock + 1 /\ SendPacket(Data(cblock', SourceBlock(cblock')))
      BY <1>6, <2>3 DEF GetAck
    <3>2. PICK n \in Nat \ {0} : n = cblock + 1
      OBVIOUS
    <3>3. Data(cblock', SourceBlock(cblock')) = Data(n, SourceBlock(n))
      BY <1>6, <3>1, <3>2 DEF GetAck, SourceBlock
    <3>4. Data(n, SourceBlock(n)) \in Packet
      BY PacketsTyped
    <3>5. toServer' \in Seq(Packet) /\ sent' \in Packet
      BY <1>2, <3>1, <3>3, <3>4
    <3> QED
      BY <1>6, <2>1, <2>3, <3>1, <3>5 DEF GetAck
  <2> QED
    BY <2>2, <2>3
<1>7. ASSUME NEW i \in DOMAIN toClient, GetData(i)
      PROVE  Typed'
  <2>1. toClient' \in Seq(Packet) /\ toClient[i].block \in Nat /\ toClient[i].data \in Seq(Byte)
    BY <1>1, <1>7, PacketsTyped DEF GetData
  <2>2. toServer' \in Seq(Packet) /\ sent' \in Packet
    BY <1>2, <1>7, <2>1, PacketsTyped DEF GetData
  <2>3. received \o toClient[i].data \in Seq(Byte)
    BY <2>1, ConcatProperties
  <2>4. received' \in Seq(Byte) /\ cblock' \in Nat /\ client' \in {"wait", "done"}
    <3>1. CASE toClient[i].block = cblock + 1 /\ client = "wait"
      <4>1. /\ cblock' = cblock + 1 /\ received' = received \o toClient[i].data
            /\ client' = IF Len(toClient[i].data) < Block THEN "done" ELSE "wait"
        BY <1>7, <3>1 DEF GetData
      <4> QED
        BY <2>3, <4>1
    <3>2. CASE ~(toClient[i].block = cblock + 1 /\ client = "wait")
      BY <1>7, <3>2 DEF GetData
    <3> QED
      BY <3>1, <3>2
  <2> QED
    BY <1>7, <2>1, <2>2, <2>4 DEF GetData
<1>8. ASSUME NEW i \in DOMAIN toClient, GetError(i)
      PROVE  Typed'
  BY <1>1, <1>8 DEF GetError
<1>9. ASSUME NEW i \in DOMAIN toClient, Ignore(i)
      PROVE  Typed'
  BY <1>1, <1>9 DEF Ignore
<1>10. ASSUME Lose PROVE Typed'
  BY <1>10, PacketsTyped DEF Lose
<1> HIDE DEF Typed, serverVars, clientVars
<1> QED
  BY <1>3, <1>4, <1>5, <1>6, <1>7, <1>8, <1>9, <1>10 DEF Client

\* Nobody asks to read in any step of an upload.
LEMMA NobodyReadsStep ==
  ASSUME Typed, mode = "up", NobodyReads, (Server /\ UNCHANGED clientVars) \/ Client \/ Lose
  PROVE  mode' = "up" /\ NobodyReads'
<1> USE DEF NobodyReads
<1>1. toServer \in Seq(Packet) /\ DOMAIN toServer = 1 .. Len(toServer)
  BY LenProperties DEF Typed
<1>2. ASSUME NEW i \in DOMAIN toServer, toServer' = RemoveAt(toServer, i)
      PROVE  \A j \in DOMAIN toServer' : toServer'[j].op # "RRQ"
  BY <1>1, <1>2, Others
<1>3. ASSUME NEW p \in Packet, p.op # "RRQ", SendPacket(p)
      PROVE  sent' = p /\ \A j \in DOMAIN toServer' : toServer'[j].op # "RRQ"
  <2>1. sent' = p /\ toServer' = Append(toServer, p)
    BY <1>3 DEF SendPacket
  <2>2. \A j \in 1 .. Len(toServer) + 1 : j \in 1 .. Len(toServer) \/ j = Len(toServer) + 1
    BY <1>1, LenProperties
  <2> QED
    BY <1>1, <1>3, <2>1, <2>2, Appended
<1>4. /\ Error \in Packet /\ Error.op # "RRQ"
      /\ Request("WRQ") \in Packet /\ Request("WRQ").op # "RRQ"
      /\ \A n \in Nat : Ack(n) \in Packet /\ Ack(n).op # "RRQ"
      /\ \A n \in Nat \ {0} : /\ Data(n, SourceBlock(n)) \in Packet
                              /\ Data(n, SourceBlock(n)).op # "RRQ"
  BY PacketsTyped DEF Error, Request, Ack, Data
<1>5. ASSUME Server, UNCHANGED clientVars
      PROVE  mode' = "up" /\ NobodyReads'
  <2> USE DEF clientVars
  <2>1. ASSUME NEW i \in DOMAIN toServer, Receive(i)
        PROVE  toServer[i].op # "RRQ" /\ \A j \in DOMAIN toServer' : toServer'[j].op # "RRQ"
    BY <1>2, <2>1 DEF Receive
  <2>2. ASSUME NEW i \in DOMAIN toServer,
               TFTP_run(i) \/ WriteBlock(i) \/ WriteRequestAgain(i) \/ WriteOther(i)
        PROVE  NobodyReads'
    <3>1. Receive(i) /\ buf' = toServer[i] /\ pc' \in {"parse", "idle", "recv", "again"}
      BY <2>2 DEF TFTP_run, WriteBlock, WriteRequestAgain, WriteOther
    <3> QED
      BY <1>5, <2>1, <3>1
  <2>3. ASSUME NEW i \in DOMAIN toServer, AckBlock(i) \/ AckOutOfOrder(i) \/ AckWrong(i)
        PROVE  FALSE
    BY <2>3 DEF AckBlock, AckOutOfOrder, AckWrong
  <2>4. ASSUME TFTP_parse_wrq PROVE NobodyReads'
    BY <1>5, <2>4 DEF TFTP_parse_wrq
  <2>5. ASSUME TFTP_parse_unknown PROVE NobodyReads'
    BY <1>5, <2>5 DEF TFTP_parse_unknown
  <2>6. ASSUME WriteTimeout PROVE NobodyReads'
    BY <1>5, <2>6 DEF WriteTimeout
  <2>7. ~TFTP_parse_rrq /\ ~ReadBlock /\ ~SendBlock /\ ~AckTimeout
    BY DEF TFTP_parse_rrq, ReadBlock, SendBlock, AckTimeout
  <2> HIDE DEF NobodyReads
  <2> QED
    BY <1>5, <2>2, <2>3, <2>4, <2>5, <2>6, <2>7 DEF Server
<1>6. ASSUME Start PROVE mode' = "up" /\ NobodyReads'
  BY <1>3, <1>4, <1>6 DEF Start, serverVars
<1>7. ASSUME Resend PROVE mode' = "up" /\ NobodyReads'
  BY <1>3, <1>7 DEF Resend, serverVars, Typed
<1>8. ASSUME Abort PROVE mode' = "up" /\ NobodyReads'
  BY <1>3, <1>4, <1>8 DEF Abort, serverVars
<1>9. ASSUME NEW i \in DOMAIN toClient, GetAck(i)
      PROVE  mode' = "up" /\ NobodyReads'
  <2>1. CASE cblock > 0 /\ Len(SourceBlock(cblock)) < Block
    BY <1>9, <2>1 DEF GetAck, serverVars
  <2>2. CASE ~(cblock > 0 /\ Len(SourceBlock(cblock)) < Block)
    <3>1. cblock' = cblock + 1 /\ SendPacket(Data(cblock', SourceBlock(cblock')))
      BY <1>9, <2>2 DEF GetAck
    <3>2. PICK n \in Nat \ {0} : n = cblock + 1
      BY DEF Typed
    <3>3. Data(cblock', SourceBlock(cblock')) = Data(n, SourceBlock(n))
      BY <1>9, <3>1, <3>2 DEF GetAck, SourceBlock
    <3>4. sent'.op # "RRQ" /\ \A j \in DOMAIN toServer' : toServer'[j].op # "RRQ"
      BY <1>3, <1>4, <3>1, <3>3
    <3> QED
      BY <1>9, <3>4 DEF GetAck, serverVars
  <2> QED
    BY <2>1, <2>2
<1>10. ASSUME NEW i \in DOMAIN toClient, GetData(i) PROVE FALSE
  BY <1>10 DEF GetData
<1>11. ASSUME NEW i \in DOMAIN toClient, GetError(i) PROVE mode' = "up" /\ NobodyReads'
  BY <1>11 DEF GetError, serverVars
<1>12. ASSUME NEW i \in DOMAIN toClient, Ignore(i) PROVE mode' = "up" /\ NobodyReads'
  BY <1>12 DEF Ignore, serverVars, clientVars
<1>13. ASSUME Lose PROVE mode' = "up" /\ NobodyReads'
  BY <1>2, <1>13 DEF Lose, serverVars
<1> HIDE DEF NobodyReads
<1> QED
  BY <1>5, <1>6, <1>7, <1>8, <1>9, <1>10, <1>11, <1>12, <1>13 DEF Client

-----------------------------------------------------------------------------
(***************************************************************************)
(* Downloads.                                                              *)
(***************************************************************************)

\* What is said of a block depends on the source only.
LEMMA SameSource ==
  ASSUME source' = source
  PROVE  /\ \A n : From(n)' = From(n) /\ Size(n)' = Size(n) /\ Chunk(n)' = Chunk(n)
         /\ \A n : Follows(n)' <=> Follows(n)
         /\ \A n : SourceBlock(n)' = SourceBlock(n)
<1>1. \A n : From(n)' = From(n)
  BY DEF From
<1>2. \A n : Size(n)' = Size(n)
  BY <1>1 DEF Size
<1>3. \A n : Chunk(n)' = Chunk(n)
  BY <1>1, <1>2 DEF Chunk
<1>4. \A n : Follows(n)' <=> Follows(n)
  BY <1>2 DEF Follows
<1>5. \A n : SourceBlock(n)' = SourceBlock(n)
  BY DEF SourceBlock
<1> QED
  BY <1>1, <1>2, <1>3, <1>4, <1>5

\* Every step of the server keeps Downloading (TFTP_process_read).
LEMMA DownloadServer ==
  ASSUME Typed, mode = "down", Downloading, Server, UNCHANGED clientVars
  PROVE  mode' = "down" /\ Downloading'
<1>1. Serving /\ Underway /\ Got
  BY DEF Downloading
<1>2. /\ mode' = mode /\ source' = source /\ client' = client /\ sent' = sent
      /\ cblock' = cblock /\ received' = received
  BY DEF clientVars
<1>3. Got'
  <2>1. /\ \A n : Size(n)' = Size(n)
        /\ \A n : Follows(n)' <=> Follows(n)
    BY <1>2, SameSource
  <2>2. \A m, i : Dense(m, i)' = Dense(m, i) /\ Spaced(m, i)' = Spaced(m, i)
    BY DEF Dense, Spaced
  <2> QED
    BY <1>1, <1>2, <2>1, <2>2 DEF Got
<1>4. \A p : (Asked(p)' <=> Asked(p)) /\ (Answer(p)' <=> Answer(p))
  <2>1. /\ \A n : Chunk(n)' = Chunk(n)
        /\ \A n : Follows(n)' <=> Follows(n)
    BY <1>2, SameSource
  <2> QED
    BY <1>2, <2>1 DEF Asked, Answer, Error
<1>5. /\ toServer \in Seq(Packet) /\ DOMAIN toServer = 1 .. Len(toServer)
      /\ toClient \in Seq(Packet) /\ DOMAIN toClient = 1 .. Len(toClient)
      /\ source \in Seq(Byte) /\ block \in Nat \ {0}
  BY LenProperties DEF Typed
<1>6. ASSUME NEW i \in DOMAIN toServer, Receive(i)
      PROVE  Asked(toServer[i]) /\ \A j \in DOMAIN toServer' : Asked(toServer[j])'
  <2>1. \A j \in DOMAIN toServer' : \E k \in DOMAIN toServer : toServer'[j] = toServer[k]
    BY <1>5, <1>6, Others DEF Receive
  <2>2. \A k \in DOMAIN toServer : Asked(toServer[k])
    BY <1>1 DEF Underway
  <2>3. ASSUME NEW j \in DOMAIN toServer'
        PROVE  Asked(toServer[j])'
    <3>1. PICK k \in DOMAIN toServer : toServer'[j] = toServer[k]
      BY <2>1
    <3>2. PICK p : p = toServer[k]
      OBVIOUS
    <3>3. Asked(p)'
      BY <1>4, <2>2, <3>2
    <3> QED
      BY <3>1, <3>2, <3>3
  <2> QED
    BY <2>2, <2>3
<1>7. ASSUME NEW p \in Packet, Answer(p), Reply(p)
      PROVE  \A j \in DOMAIN toClient' : Answer(toClient[j])'
  <2>1. ASSUME NEW j \in DOMAIN toClient'
        PROVE  Answer(toClient[j])'
    <3>1. PICK q : q = toClient'[j]
      OBVIOUS
    <3>2. q = p \/ \E k \in DOMAIN toClient : q = toClient[k]
      <4>1. toClient' = Append(toClient, p)
        BY <1>7 DEF Reply
      <4>2. j \in 1 .. Len(toClient) + 1
        BY <1>5, <4>1, Appended
      <4>3. j \in 1 .. Len(toClient) \/ j = Len(toClient) + 1
        BY <1>5, <4>2
      <4> QED
        BY <1>5, <3>1, <4>1, <4>3, Appended
    <3>3. Answer(q)
      BY <1>1, <1>7, <3>2 DEF Underway
    <3>4. Answer(q)'
      BY <1>4, <3>3
    <3> QED
      BY <3>1, <3>4
  <2> QED
    BY <2>1
<1>8. /\ toServer' = toServer => \A j \in DOMAIN toServer' : Asked(toServer[j])'
      /\ toClient' = toClient => \A j \in DOMAIN toClient' : Answer(toClient[j])'
      /\ client' = "wait" => Asked(sent)'
  BY <1>1, <1>2, <1>4 DEF Underway
<1>9. ASSUME \A j \in DOMAIN toServer' : Asked(toServer[j])',
             \A j \in DOMAIN toClient' : Answer(toClient[j])'
      PROVE  Underway'
  BY <1>8, <1>9 DEF Underway
<1>10. Error \in Packet /\ Answer(Error) /\ Asked(Error) /\ Error.op = "ERROR"
  BY PacketsTyped DEF Answer, Asked, Error
<1> DEFINE Kept == /\ \A n : From(n)' = From(n) /\ Size(n)' = Size(n) /\ Chunk(n)' = Chunk(n)
                   /\ \A n : Follows(n)' <=> Follows(n)
<1>11. Kept
  BY <1>2, SameSource
<1>12. ASSUME NEW i \in DOMAIN toServer, TFTP_run(i)
       PROVE  Serving' /\ Underway'
  <2>1. Asked(toServer[i])
    BY <1>6, <1>12 DEF TFTP_run
  <2>2. Underway'
    BY <1>6, <1>8, <1>9, <1>12 DEF TFTP_run
  <2>3. Serving'
    BY <1>1, <1>2, <1>12, <2>1 DEF TFTP_run, Serving, Asked
  <2> QED
    BY <2>2, <2>3
<1>13. ASSUME NEW i \in DOMAIN toServer, AckBlock(i)
       PROVE  Serving' /\ Underway'
  <2>1. Receive(i) /\ toServer[i] = Ack(block) /\ toClient' = toClient /\ file' = file /\ fpos' = fpos
    BY <1>13 DEF AckBlock
  <2>2. Underway'
    BY <1>6, <1>8, <1>9, <2>1
  <2>3. pc = "ack" /\ Follows(block) /\ size = Size(block) /\ fpos = From(block + 1)
    BY <1>1, <1>13 DEF AckBlock, Serving
  <2>4. block <= cblock
    BY <1>6, <2>1 DEF Asked, Ack
  <2>5. CASE size < Block
    BY <1>1, <1>2, <1>13, <2>2, <2>5 DEF AckBlock, Serving
  <2>6. CASE ~(size < Block)
    <3>1. pc' = "read" /\ block' = block + 1
      BY <1>13, <2>6 DEF AckBlock
    <3>2. Size(block) \in 0 .. Block /\ Block \in Nat
      BY <1>5, Chunks, ServerAssumption DEF ServerAssumption
    <3>3. Size(block) = Block
      BY <2>3, <2>6, <3>2
    <3>4. Follows(block + 1)
      BY <1>5, <3>3 DEF Follows
    <3>5. Follows(block)' /\ From(block)' = From(block + 1) /\ block' <= cblock' + 1
      BY <1>2, <1>5, <1>11, <2>4, <3>1, <3>4 DEF Typed
    <3> QED
      BY <1>1, <1>2, <2>1, <2>2, <2>3, <3>1, <3>5 DEF Serving
  <2> QED
    BY <2>2, <2>5, <2>6
<1>14. ASSUME NEW i \in DOMAIN toServer, AckOutOfOrder(i)
       PROVE  Serving' /\ Underway'
  <2>1. Underway'
    BY <1>6, <1>8, <1>9, <1>14 DEF AckOutOfOrder
  <2>2. Serving'
    BY <1>1, <1>2, <1>11, <1>14 DEF AckOutOfOrder, Retry, Serving, Data, Error
  <2> QED
    BY <2>1, <2>2
<1>15. ASSUME pc = "ack", NoAck PROVE Serving'
  BY <1>1, <1>2, <1>11, <1>15 DEF NoAck, Retry, Serving
<1>16. ASSUME NEW i \in DOMAIN toServer, AckWrong(i)
       PROVE  Serving' /\ Underway'
  <2>1. Underway'
    BY <1>6, <1>7, <1>9, <1>10, <1>16 DEF AckWrong, NoAck
  <2> QED
    BY <1>15, <1>16, <2>1 DEF AckWrong
<1>17. ASSUME AckTimeout
       PROVE  Serving' /\ Underway'
  <2>1. Underway'
    BY <1>7, <1>8, <1>9, <1>10, <1>17 DEF AckTimeout, NoAck
  <2> QED
    BY <1>15, <1>17, <2>1 DEF AckTimeout
<1>18. ASSUME TFTP_parse_rrq
       PROVE  Serving' /\ Underway'
  <2>1. Underway'
    BY <1>7, <1>8, <1>9, <1>10, <1>18 DEF TFTP_parse_rrq
  <2>2. CASE pc' = "read"
    <3>1. fpos' = 0 /\ block' = 1 /\ file' = file
      BY <1>18, <2>2 DEF TFTP_parse_rrq
    <3>2. From(1) = 0
      BY <1>5, LenProperties, ServerAssumption DEF ServerAssumption, From
    <3>3. Follows(1)' /\ From(1)' = 0 /\ 1 <= cblock' + 1
      BY <1>2, <1>11, <3>2 DEF Follows, Typed
    <3>4. Serving'
      BY <1>1, <1>2, <2>2, <3>1, <3>3 DEF Serving
    <3> QED
      BY <2>1, <3>4
  <2>3. CASE pc' = "idle"
    BY <1>1, <1>2, <1>18, <2>1, <2>3 DEF TFTP_parse_rrq, Serving
  <2> QED
    BY <1>18, <2>2, <2>3 DEF TFTP_parse_rrq
<1>19. ASSUME TFTP_parse_unknown
       PROVE  Serving' /\ Underway'
  <2>1. Underway'
    BY <1>8, <1>9, <1>19 DEF TFTP_parse_unknown
  <2>2. pc' = "stopped" /\ file' = file
    BY <1>1, <1>19 DEF TFTP_parse_unknown, Serving
  <2> QED
    BY <1>1, <1>2, <2>1, <2>2 DEF Serving
<1>20. ASSUME ReadBlock
       PROVE  Serving' /\ Underway'
  <2>1. Underway'
    BY <1>8, <1>9, <1>20 DEF ReadBlock
  <2>2. pc = "read" /\ pc' = "send" /\ block' = block /\ file' = file
    BY <1>20 DEF ReadBlock
  <2>3. buf' = Data(block, Chunk(block)) /\ size' = Size(block) /\ fpos' = From(block + 1)
    BY <1>1, <1>5, <1>20, <2>2, Reads DEF ReadBlock, Serving
  <2>4. Follows(block) /\ block <= cblock + 1
    BY <1>1, <2>2 DEF Serving
  <2> QED
    BY <1>1, <1>2, <1>11, <2>1, <2>2, <2>3, <2>4 DEF Serving
<1>21. ASSUME SendBlock
       PROVE  Serving' /\ Underway'
  <2>1. Answer(buf) /\ buf \in Packet
    BY <1>1, <1>5, <1>21 DEF SendBlock, Serving, Answer, Data, Typed
  <2>2. Underway'
    BY <1>7, <1>8, <1>9, <1>21, <2>1 DEF SendBlock
  <2>3. Serving'
    BY <1>1, <1>2, <1>11, <1>21 DEF SendBlock, Serving, Data, Error
  <2> QED
    BY <2>2, <2>3
<1>22. ASSUME NEW i \in DOMAIN toServer PROVE ~WriteBlock(i) /\ ~WriteRequestAgain(i) /\ ~WriteOther(i)
  BY <1>1 DEF WriteBlock, WriteRequestAgain, WriteOther, Serving
<1>23. ~TFTP_parse_wrq /\ ~WriteTimeout
  BY <1>1 DEF TFTP_parse_wrq, WriteTimeout, Serving
<1>24. Serving' /\ Underway'
  BY <1>12, <1>13, <1>14, <1>16, <1>17, <1>18, <1>19, <1>20, <1>21, <1>22, <1>23 DEF Server
<1> QED
  BY <1>2, <1>3, <1>24 DEF Downloading

\* The bytes of block n are behind those of the blocks before it.
LEMMA GotNext ==
  ASSUME Typed, Got, NEW n \in Nat \ {0}, n = cblock + 1, Follows(n)
  PROVE  /\ Len(received) = cblock * Block
         /\ cblock > 0 => Size(cblock) = Block
         /\ \A m \in 1 .. cblock : \A i \in 1 .. Size(m) : Dense(m, i) \in 1 .. Len(received)
<1>1. Block \in Nat \ {0} /\ cblock \in Nat /\ source \in Seq(Byte)
  BY ServerAssumption DEF ServerAssumption, Typed
<1>2. cblock > 0 => Size(cblock) = Block
  <2>1. n = 1 \/ Size(n - 1) = Block
    BY DEF Follows
  <2>2. n - 1 = cblock
    BY <1>1
  <2> QED
    BY <1>1, <2>1, <2>2
<1>3. Len(received) = cblock * Block
  <2>1. CASE cblock = 0
    BY <1>1, <2>1 DEF Got
  <2>2. CASE cblock > 0
    <3>1. Len(received) = (cblock - 1) * Block + Block
      BY <1>1, <1>2, <2>2 DEF Got
    <3>2. (cblock - 1) * Block = cblock * Block - Block /\ cblock * Block \in Int
      BY <1>1, Products
    <3> QED
      BY <1>1, <3>1, <3>2
  <2> QED
    BY <1>1, <2>1, <2>2
<1>4. ASSUME NEW m \in 1 .. cblock, NEW i \in 1 .. Size(m)
      PROVE  Dense(m, i) \in 1 .. Len(received)
  <2>1. m \in Nat \ {0} /\ m <= cblock
    BY <1>1
  <2>2. Size(m) \in 0 .. Block
    BY <1>1, <2>1, Chunks
  <2>3. i \in 1 .. Block
    BY <1>1, <2>2
  <2>4. /\ m * Block \in Int /\ cblock * Block \in Int /\ m * Block <= cblock * Block
        /\ (m - 1) * Block = m * Block - Block
    BY <1>1, <2>1, Products
  <2>5. (m - 1) * Block \in Nat
    BY <1>1, <2>1
  <2>6. PICK a \in Nat, c \in Int, d \in Int :
          a = (m - 1) * Block /\ c = cblock * Block /\ d = m * Block
    BY <2>4, <2>5
  <2>7. a + i \in 1 .. c
    BY <1>1, <2>3, <2>4, <2>6
  <2> QED
    BY <1>3, <2>6, <2>7 DEF Dense
<1> QED
  BY <1>2, <1>3, <1>4

\* The client takes the next block.
LEMMA GotBlock ==
  ASSUME Typed, Got, client = "wait", source' = source,
         NEW n \in Nat \ {0}, n = cblock + 1, Follows(n), NEW d, d = Chunk(n),
         cblock' = n, received' = received \o d,
         client' = IF Len(d) < Block THEN "done" ELSE "wait"
  PROVE  Got'
<1>1. Block \in Nat \ {0} /\ cblock \in Nat /\ n = cblock + 1 /\ source \in Seq(Byte)
      /\ received \in Seq(Byte)
  BY ServerAssumption DEF ServerAssumption, Typed
<1>2. /\ \A k : Size(k)' = Size(k)
      /\ \A k : Follows(k)' <=> Follows(k)
  BY SameSource
<1>3. \A m, i : Dense(m, i)' = Dense(m, i) /\ Spaced(m, i)' = Spaced(m, i)
  BY DEF Dense, Spaced
<1>4. /\ d \in Seq(Byte) /\ Len(d) = Size(n) /\ Size(n) \in 0 .. Block
      /\ \A i \in 1 .. Size(n) : d[i] = source[Spaced(n, i)]
  BY <1>1, Chunks
<1>5. /\ Len(received) = cblock * Block
      /\ \A m \in 1 .. cblock : \A i \in 1 .. Size(m) : Dense(m, i) \in 1 .. Len(received)
  BY GotNext
<1>6. /\ Len(received') = cblock * Block + Size(n)
      /\ \A i \in 1 .. Len(received) + Size(n) : received'[i] =
           IF i <= Len(received) THEN received[i] ELSE d[i - Len(received)]
  BY <1>1, <1>4, <1>5, ConcatProperties
<1>7. Follows(cblock)'
  BY <1>2
<1>8. Len(received') = (cblock' - 1) * Block + Size(cblock)'
  <2>1. Size(cblock)' = Size(n)
    BY <1>2
  <2>2. cblock' - 1 = cblock
    BY <1>1
  <2> QED
    BY <1>6, <2>1, <2>2
<1>9. ASSUME NEW m \in 1 .. n, NEW i \in 1 .. Size(m)
       PROVE  received'[Dense(m, i)] = source[Spaced(m, i)]
  <2>1. CASE m \in 1 .. cblock
    <3>1. PICK j \in 1 .. Len(received) : j = Dense(m, i)
      BY <1>5, <2>1
    <3>2. received'[j] = received[j]
      BY <1>1, <1>4, <1>6
    <3> QED
      BY <2>1, <3>1, <3>2 DEF Got
  <2>2. CASE m = n
    <3>1. Dense(n, i) = Len(received) + i
      <4>1. n - 1 = cblock
        BY <1>1
      <4> QED
        BY <1>5, <4>1 DEF Dense
    <3>2. i \in 1 .. Size(n) /\ Len(received) \in Nat /\ Size(n) \in Nat
      BY <1>1, <1>4, <2>2, LenProperties
    <3>3. PICK j : j = Len(received) + i
      OBVIOUS
    <3>4. j \in 1 .. Len(received) + Size(n) /\ ~(j <= Len(received)) /\ j - Len(received) = i
      BY <3>2, <3>3
    <3>5. received'[j] = d[i]
      BY <1>6, <3>4
    <3> QED
      BY <1>4, <2>2, <3>1, <3>2, <3>3, <3>5
  <2>3. m \in 1 .. cblock \/ m = n
    BY <1>1
  <2> QED
    BY <2>1, <2>2, <2>3
<1>10. client' = "done" => Size(n) < Block
  BY <1>4
<1> QED
  <2>1. cblock' = n /\ n > 0 /\ source' = source
    BY <1>1
  <2>2. Size(cblock)' = Size(n)
    BY <1>2, <2>1
  <2>3. \A m \in 1 .. cblock' : \A i \in 1 .. Size(m)' : received'[Dense(m, i)'] = source'[Spaced(m, i)']
    BY <1>1, <1>2, <1>3, <1>9, <2>1
  <2> QED
    BY <1>2, <1>7, <1>8, <1>10, <2>1, <2>2, <2>3 DEF Got

\* Every step of the client and of the network keeps Downloading.
LEMMA DownloadClient ==
  ASSUME Typed, mode = "down", Downloading, Client \/ Lose
  PROVE  mode' = "down" /\ Downloading'
<1>1. Serving /\ Underway /\ Got
  BY DEF Downloading
<1>2. mode' = mode /\ source' = source /\ UNCHANGED serverVars
  <2>1. ASSUME NEW i \in DOMAIN toClient, GetAck(i) \/ GetData(i) \/ GetError(i) \/ Ignore(i)
        PROVE  mode' = mode /\ source' = source /\ UNCHANGED serverVars
    BY <2>1 DEF GetAck, GetData, GetError, Ignore, clientVars
  <2>2. ASSUME Start \/ Resend \/ Abort \/ Lose
        PROVE  mode' = mode /\ source' = source /\ UNCHANGED serverVars
    BY <2>2 DEF Start, Resend, Abort, Lose
  <2> QED
    BY <2>1, <2>2 DEF Client
<1>3. /\ pc' = pc /\ buf' = buf /\ size' = size /\ block' = block /\ file' = file /\ fpos' = fpos
  BY <1>2 DEF serverVars
<1>4. /\ \A n : From(n)' = From(n) /\ Size(n)' = Size(n) /\ Chunk(n)' = Chunk(n)
      /\ \A n : Follows(n)' <=> Follows(n)
  BY <1>2, SameSource
<1>5. ASSUME cblock' \in Nat, cblock <= cblock' PROVE Serving'
  <2>1. block <= cblock + 1 => block' <= cblock' + 1
    <3>1. block \in Int /\ cblock \in Int /\ cblock' \in Int /\ block' = block
      BY <1>3, <1>5 DEF Typed
    <3>2. PICK b \in Int, c \in Int, d \in Int : b = block /\ c = cblock /\ d = cblock'
      BY <3>1
    <3>3. c <= d
      BY <1>5, <3>2
    <3>4. b <= c + 1 => b <= d + 1
      BY <3>3
    <3> QED
      BY <3>1, <3>2, <3>4
  <2>2. /\ Follows(block)' <=> Follows(block)
        /\ From(block)' = From(block) /\ From(block + 1)' = From(block + 1)
        /\ Size(block)' = Size(block)
        /\ Data(block, Chunk(block))' = Data(block, Chunk(block)) /\ Error' = Error
    BY <1>3, <1>4 DEF Data, Error
  <2> QED
    BY <1>1, <1>2, <1>3, <2>1, <2>2 DEF Serving
<1>6. ASSUME UNCHANGED <<cblock, received>>, client' = "done" => client = "done"
      PROVE  Got' /\ Serving'
  <2>1. \A m, i : Dense(m, i)' = Dense(m, i) /\ Spaced(m, i)' = Spaced(m, i)
    BY DEF Dense, Spaced
  <2>2. Got'
    BY <1>1, <1>2, <1>4, <1>6, <2>1 DEF Got
  <2>3. Serving'
    BY <1>5, <1>6 DEF Typed
  <2> QED
    BY <2>2, <2>3
<1>7. \A p : Answer(p)' <=> Answer(p)
  BY <1>4 DEF Answer, Error
<1>8. ASSUME cblock' \in Nat, cblock <= cblock', NEW p \in Packet, Asked(p)
      PROVE  Asked(p)'
  BY <1>8, PacketsTyped DEF Asked, Typed
<1>9. /\ toServer \in Seq(Packet) /\ DOMAIN toServer = 1 .. Len(toServer)
      /\ toClient \in Seq(Packet) /\ DOMAIN toClient = 1 .. Len(toClient)
  BY LenProperties DEF Typed
<1>10. ASSUME toClient' = toClient \/ \E i \in DOMAIN toClient : toClient' = RemoveAt(toClient, i)
       PROVE  \A j \in DOMAIN toClient' : Answer(toClient[j])'
  <2>1. \A j \in DOMAIN toClient' : \E k \in DOMAIN toClient : toClient'[j] = toClient[k]
    BY <1>9, <1>10, Others
  <2> QED
    BY <1>1, <1>7, <2>1 DEF Underway
<1>11. ASSUME cblock' \in Nat, cblock <= cblock',
              toServer' = toServer \/ \E i \in DOMAIN toServer : toServer' = RemoveAt(toServer, i)
       PROVE  \A j \in DOMAIN toServer' : Asked(toServer[j])'
  <2>1. \A j \in DOMAIN toServer' : \E k \in DOMAIN toServer : toServer'[j] = toServer[k]
    BY <1>9, <1>11, Others
  <2>2. ASSUME NEW j \in DOMAIN toServer'
        PROVE  Asked(toServer[j])'
    <3>1. PICK k \in DOMAIN toServer : toServer'[j] = toServer[k]
      BY <2>1
    <3>2. PICK p \in Packet : p = toServer[k]
      BY PacketsTyped
    <3>3. Asked(p)'
      BY <1>1, <1>8, <1>11, <3>2 DEF Underway
    <3> QED
      BY <3>1, <3>2, <3>3
  <2> QED
    BY <2>2
<1>12. ASSUME cblock' \in Nat, cblock <= cblock', NEW p \in Packet, Asked(p)', SendPacket(p)
       PROVE  Asked(sent)' /\ \A j \in DOMAIN toServer' : Asked(toServer[j])'
  <2>1. sent' = p /\ toServer' = Append(toServer, p)
    BY <1>12 DEF SendPacket
  <2>2. ASSUME NEW j \in DOMAIN toServer'
        PROVE  Asked(toServer[j])'
    <3>1. j \in 1 .. Len(toServer) \/ j = Len(toServer) + 1
      <4>1. j \in 1 .. Len(toServer) + 1
        BY <1>9, <2>1, Appended
      <4> QED
        BY <1>9, <4>1
    <3>2. PICK q \in Packet : q = toServer'[j]
      BY <1>9, <2>1, <3>1, Appended, PacketsTyped
    <3>3. q = p \/ \E k \in DOMAIN toServer : q = toServer[k]
      BY <1>9, <2>1, <3>1, <3>2, Appended
    <3>4. Asked(q)'
      BY <1>1, <1>8, <1>12, <3>3 DEF Underway
    <3> QED
      BY <3>2, <3>4
  <2> QED
    BY <1>12, <2>1, <2>2
<1>13. /\ Error \in Packet /\ Asked(Error)
       /\ Request("RRQ") \in Packet /\ Asked(Request("RRQ"))
  BY PacketsTyped DEF Asked, Error, Request
<1>14. cblock \in Nat /\ cblock <= cblock
  BY DEF Typed
<1>15. ASSUME Start \/ Abort \/ Resend
       PROVE  Downloading'
  <2>1. /\ UNCHANGED <<cblock, received, toClient>>
        /\ client' # "done"
    BY <1>15 DEF Start, Abort, Resend
  <2>2. PICK p \in Packet : Asked(p) /\ SendPacket(p)
    <3>1. CASE Start
      BY <1>13, <3>1 DEF Start
    <3>2. CASE Abort
      BY <1>13, <3>2 DEF Abort
    <3>3. CASE Resend
      BY <1>1, <3>3 DEF Resend, Underway, Typed
    <3> QED
      BY <1>15, <3>1, <3>2, <3>3
  <2>3. Asked(p)'
    BY <1>8, <1>14, <2>1, <2>2
  <2>4. Asked(sent)' /\ \A j \in DOMAIN toServer' : Asked(toServer[j])'
    BY <1>12, <1>14, <2>1, <2>2, <2>3
  <2>5. Underway'
    BY <1>10, <2>1, <2>4 DEF Underway
  <2> QED
    BY <1>6, <2>1, <2>5 DEF Downloading
<1>16. ASSUME NEW i \in DOMAIN toClient, GetError(i) \/ Ignore(i)
       PROVE  Downloading'
  <2>1. /\ UNCHANGED <<cblock, received, sent, toServer>> /\ toClient' = RemoveAt(toClient, i)
        /\ client' \in {client, "failed"}
    BY <1>16 DEF GetError, Ignore, Take, clientVars
  <2>2. \A j \in DOMAIN toServer' : Asked(toServer[j])'
    BY <1>11, <1>14, <2>1
  <2>3. client' = "wait" => Asked(sent)'
    BY <1>1, <1>8, <1>14, <2>1 DEF Underway, Typed
  <2>4. Underway'
    BY <1>10, <2>1, <2>2, <2>3 DEF Underway
  <2> QED
    BY <1>6, <2>1, <2>4 DEF Downloading
<1>17. ASSUME Lose
       PROVE  Downloading'
  <2>1. /\ UNCHANGED <<cblock, received, sent, client>>
        /\ toClient' = toClient \/ \E i \in DOMAIN toClient : toClient' = RemoveAt(toClient, i)
        /\ toServer' = toServer \/ \E i \in DOMAIN toServer : toServer' = RemoveAt(toServer, i)
    BY <1>17 DEF Lose
  <2>2. \A j \in DOMAIN toServer' : Asked(toServer[j])'
    BY <1>11, <1>14, <2>1
  <2>3. client' = "wait" => Asked(sent)'
    BY <1>1, <1>8, <1>14, <2>1 DEF Underway, Typed
  <2>4. Underway'
    BY <1>10, <2>1, <2>2, <2>3 DEF Underway
  <2> QED
    BY <1>6, <2>1, <2>4 DEF Downloading
<1>18. ASSUME NEW i \in DOMAIN toClient, GetData(i)
       PROVE  Downloading'
  <2> DEFINE p == toClient[i]
  <2>1. p \in Packet /\ p.block \in Nat
    BY PacketsTyped
  <2>2. /\ p.op = "DATA" /\ p.block > 0 /\ p.data = Chunk(p.block) /\ Follows(p.block)
        /\ p.block <= cblock + 1
    BY <1>1, <1>18 DEF GetData, Underway, Answer, Error
  <2>3. toClient' = RemoveAt(toClient, i) /\ SendPacket(Ack(p.block)) /\ client' \in {"wait", "done"}
    BY <1>18 DEF GetData, Take
  <2>4. PICK n \in Nat \ {0} : n = p.block
    BY <2>1, <2>2
  <2>5. Ack(n) \in Packet /\ Ack(n).op = "ACK" /\ Ack(n).block = n
    BY PacketsTyped DEF Ack
  <2>6. ASSUME n <= cblock', cblock' \in Nat, cblock <= cblock'
        PROVE  Underway'
    <3>1. Asked(Ack(n))'
      BY <2>5, <2>6 DEF Asked, Ack
    <3>2. Asked(sent)' /\ \A j \in DOMAIN toServer' : Asked(toServer[j])'
      BY <1>12, <2>3, <2>4, <2>5, <2>6, <3>1
    <3> QED
      BY <1>10, <2>3, <3>2 DEF Underway
  <2>7. CASE p.block = cblock + 1 /\ client = "wait"
    <3>1. /\ cblock' = n /\ received' = received \o p.data
          /\ client' = IF Len(p.data) < Block THEN "done" ELSE "wait"
      BY <1>18, <2>4, <2>7 DEF GetData
    <3>2. Got'
      <4>1. n = cblock + 1 /\ Follows(n) /\ p.data = Chunk(n)
        BY <2>2, <2>4, <2>7
      <4> HIDE DEF p
      <4> QED
        BY <1>1, <1>2, <2>7, <3>1, <4>1, GotBlock
    <3>3. n <= cblock' /\ cblock' \in Nat /\ cblock <= cblock'
      BY <1>14, <2>4, <2>7, <3>1
    <3> QED
      BY <1>5, <2>6, <3>2, <3>3 DEF Downloading
  <2>8. CASE ~(p.block = cblock + 1 /\ client = "wait")
    <3>1. UNCHANGED <<cblock, received, client>>
      BY <1>18, <2>8 DEF GetData
    <3>2. n <= cblock
      <4>1. ASSUME n = cblock + 1 PROVE FALSE
        <5>1. client = "done"
          BY <1>18, <2>4, <2>8, <4>1 DEF GetData
        <5>2. cblock > 0 /\ Size(cblock) < Block
          BY <1>1, <5>1 DEF Got
        <5>3. n = 1 \/ Size(n - 1) = Block
          BY <2>2, <2>4 DEF Follows
        <5>4. n # 1 /\ n - 1 = cblock
          BY <1>14, <4>1, <5>2
        <5> QED
          BY <5>2, <5>3, <5>4, ServerAssumption DEF ServerAssumption
      <4> QED
        BY <1>14, <2>2, <2>4, <4>1
    <3> QED
      BY <1>6, <1>14, <2>6, <3>1, <3>2 DEF Downloading
  <2> QED
    BY <2>7, <2>8
<1>19. ASSUME NEW i \in DOMAIN toClient PROVE ~GetAck(i)
  BY DEF GetAck
<1> QED
  BY <1>2, <1>15, <1>16, <1>17, <1>18, <1>19 DEF Client

\* The client never has more than the server has read, nor other bytes.
LEMMA GotInOrder ==
  ASSUME Typed, Got
  PROVE  /\ \A m \in 1 .. Len(received), i \in 1 .. Block :
              Dense(m, i) <= Len(received) =>
                Spaced(m, i) <= Len(source) /\ received[Dense(m, i)] = source[Spaced(m, i)]
         /\ cblock > 0 /\ Size(cblock) < Block => AllReceived
<1>1. Block \in Nat \ {0} /\ cblock \in Nat /\ source \in Seq(Byte) /\ Len(source) \in Nat
      /\ Len(received) \in Nat
  BY LenProperties, ServerAssumption DEF ServerAssumption, Typed
<1>2. \A n \in Nat \ {0} : Size(n) \in 0 .. Block /\ From(n) \in 0 .. Len(source)
  BY <1>1, Chunks
<1>3. ASSUME NEW m \in 1 .. cblock, m # cblock
      PROVE  Size(m) = Block
  <2>1. PICK n \in Nat \ {0} : n = cblock - 1
    BY <1>1, <1>3
  <2>2. Size(n) = Block /\ m \in 1 .. n
    BY <1>1, <1>3, <2>1 DEF Got, Follows
  <2> QED
    BY <1>1, <2>2, FullBefore
<1>4. ASSUME NEW m \in 1 .. Len(received), NEW i \in 1 .. Block, Dense(m, i) <= Len(received)
      PROVE  Spaced(m, i) <= Len(source) /\ received[Dense(m, i)] = source[Spaced(m, i)]
  <2>1. m \in Nat \ {0} /\ i \in Nat \ {0} /\ i <= Block
    BY <1>1
  <2>2. cblock > 0
    BY <1>1, <2>1 DEF Got
  <2>3. cblock \in Nat \ {0} /\ Size(cblock) \in 0 .. Block
    BY <1>1, <1>2, <2>2
  <2>4. PICK a \in Nat, c \in Nat : a = (m - 1) * Block /\ c = (cblock - 1) * Block
    BY <1>1, <2>1, <2>3
  <2>5. a + i <= c + Size(cblock)
    BY <1>1, <1>4, <2>2, <2>4 DEF Dense, Got
  <2>6. m <= cblock
    <3>1. ASSUME m > cblock PROVE FALSE
      <4>1. cblock <= m - 1 /\ cblock - 1 \in Int /\ m - 1 \in Int
        BY <1>1, <2>1, <3>1
      <4>2. cblock * Block <= (m - 1) * Block /\ (cblock - 1) * Block = cblock * Block - Block
            /\ cblock * Block \in Int
        BY <1>1, <4>1, Products
      <4>3. PICK d \in Int : d = cblock * Block
        BY <4>2
      <4>4. d <= a /\ c = d - Block
        BY <2>4, <4>2, <4>3
      <4> QED
        BY <1>1, <2>1, <2>3, <2>5, <4>4
    <3> QED
      BY <1>1, <2>1, <3>1
  <2>7. i \in 1 .. Size(m)
    <3>1. CASE m = cblock
      BY <2>1, <2>3, <2>4, <2>5, <3>1
    <3>2. CASE m # cblock
      BY <1>1, <1>3, <2>1, <2>6, <3>2
    <3> QED
      BY <3>1, <3>2
  <2>8. m \in 1 .. cblock
    BY <1>1, <2>1, <2>6
  <2>9. Spaced(m, i) <= Len(source)
    BY <1>1, <2>1, <2>7, Chunks
  <2> QED
    BY <2>7, <2>8, <2>9 DEF Got
<1>5. ASSUME cblock > 0, Size(cblock) < Block,
             NEW m \in 1 .. Len(source), NEW i \in 1 .. Block, Spaced(m, i) <= Len(source)
      PROVE  Dense(m, i) <= Len(received)
  <2>1. m \in Nat \ {0} /\ i \in Nat \ {0} /\ i <= Block /\ cblock \in Nat \ {0}
    BY <1>1, <1>5
  <2>2. PICK a \in Nat, c \in Nat : a = (m - 1) * Block /\ c = (cblock - 1) * Block
    BY <1>1, <2>1
  <2>3. PICK e \in Nat, f \in Nat : e = (m - 1) * (Block + 1) /\ f = (cblock - 1) * (Block + 1)
    BY <1>1, <2>1
  <2>4. Len(received) = c + Size(cblock) /\ e + i <= Len(source)
    BY <1>1, <1>5, <2>2, <2>3 DEF Got, Spaced
  <2>5. From(cblock) = IF f <= Len(source) THEN f ELSE Len(source)
    BY <2>3 DEF From
  <2>6. Size(cblock) = Len(source) - From(cblock)
    BY <1>1, <1>5 DEF Size
  <2>7. Size(cblock) \in 0 .. Block /\ From(cblock) \in 0 .. Len(source)
    BY <1>2, <2>1
  <2>8. CASE m < cblock
    <3>1. m <= cblock - 1 /\ cblock - 1 \in Int
      BY <2>1, <2>8
    <3>2. m * Block <= (cblock - 1) * Block /\ (m - 1) * Block = m * Block - Block /\ m * Block \in Int
      BY <1>1, <2>1, <3>1, Products
    <3>3. PICK d \in Int : d = m * Block
      BY <3>2
    <3>4. a + Block <= c
      BY <1>1, <2>2, <3>2, <3>3
    <3>5. a + i <= c + Size(cblock)
      BY <1>1, <2>1, <2>7, <3>4
    <3> QED
      BY <2>2, <2>4, <3>5 DEF Dense
  <2>9. CASE m = cblock
    <3>1. e = f /\ a = c
      BY <2>2, <2>3, <2>9
    <3>2. From(cblock) = f
      BY <1>1, <2>1, <2>4, <2>5, <3>1
    <3>3. a + i <= c + Size(cblock)
      BY <1>1, <2>1, <2>4, <2>6, <3>1, <3>2
    <3> QED
      BY <2>2, <2>4, <3>3 DEF Dense
  <2>10. CASE m > cblock
    <3>1. cblock <= m - 1 /\ m - 1 \in Int /\ cblock - 1 \in Int /\ Block + 1 \in Nat
      BY <1>1, <2>1, <2>10
    <3>2. /\ cblock * (Block + 1) <= (m - 1) * (Block + 1)
          /\ (cblock - 1) * (Block + 1) = cblock * (Block + 1) - (Block + 1)
          /\ cblock * (Block + 1) \in Int
      BY <2>1, <3>1, Products
    <3>3. PICK d \in Int : d = cblock * (Block + 1)
      BY <3>2
    <3>4. d <= e /\ f = d - (Block + 1)
      BY <2>3, <3>2, <3>3
    <3>5. f + (Block + 1) + i <= Len(source)
      BY <1>1, <2>1, <2>4, <3>4
    <3>6. From(cblock) = f
      BY <1>1, <2>1, <2>5, <3>5
    <3> QED
      BY <1>1, <1>5, <2>1, <2>6, <3>5, <3>6
  <2> QED
    BY <2>1, <2>8, <2>9, <2>10
<1> QED
  BY <1>4, <1>5 DEF AllReceived

-----------------------------------------------------------------------------
(***************************************************************************)
(* Uploads, over a network that keeps the order.                           *)
(***************************************************************************)

\* TFTP_on_write_data appends the next block, and a byte.
LEMMA FileGrows ==
  ASSUME Typed, NEW n \in Nat \ {0}, FileHas(n - 1), (n - 1) * Block <= Len(source),
         source' = source, file' = Append(file \o SourceBlock(n), JUNK)
  PROVE  FileHas(n)'
<1>1. Block \in Nat \ {0} /\ source \in Seq(Byte) /\ Len(source) \in Nat
      /\ file \in Seq(Byte \cup {JUNK}) /\ Len(file) \in Nat
  BY LenProperties, ServerAssumption DEF ServerAssumption, Typed
<1>2. PICK a \in Nat, b \in Nat, s \in Nat, l \in Nat :
        a = (n - 1) * Block /\ b = n * Block /\ s = (n - 1) * (Block + 1) /\ l = Len(source)
  <2>1. (n - 1) * Block \in Nat
    BY <1>1
  <2>2. n * Block \in Nat
    BY <1>1
  <2>3. (n - 1) * (Block + 1) \in Nat
    <3>1. PICK x \in Nat, y \in Nat : x = n - 1 /\ y = Block + 1
      BY <1>1
    <3>2. x * y \in Nat
      OBVIOUS
    <3> QED
      BY <3>1, <3>2
  <2> QED
    BY <1>1, <2>1, <2>2, <2>3
<1>3. b = a + Block /\ s = a + (n - 1) /\ a <= l
  <2>1. n \in Int /\ n - 1 \in Int /\ Block \in Nat
    BY <1>1
  <2>2. (n - 1) * Block = n * Block - Block /\ n * Block \in Int
    BY <2>1, Products
  <2>3. (n - 1) * (Block + 1) = (n - 1) * Block + (n - 1)
    BY <2>1, Products
  <2> QED
    BY <1>1, <1>2, <2>2, <2>3
<1>4. Len(file) = s
  <2>1. Len(file) = (n - 1) + (IF a < l THEN a ELSE l)
    BY <1>2 DEF FileHas
  <2>2. (IF a < l THEN a ELSE l) = a
    BY <1>3
  <2> QED
    BY <1>3, <2>1, <2>2
<1> DEFINE d == SourceBlock(n)
<1>5. d \in Seq(Byte) /\ Len(d) = IF b < l THEN Block ELSE l - a
  BY <1>1, <1>2, SourceBlocks
<1>6. \A i \in 1 .. Len(d) : d[i] = source[Dense(n, i)]
  BY <1>1, SourceBlocks
<1> HIDE DEF d
<1>7. d \in Seq(Byte \cup {JUNK}) /\ Len(d) \in Nat
  BY <1>5, SeqMonotonic, LenProperties
<1>8. /\ file \o d \in Seq(Byte \cup {JUNK}) /\ Len(file \o d) = s + Len(d)
      /\ \A i \in 1 .. s + Len(d) : (file \o d)[i] = IF i <= s THEN file[i] ELSE d[i - s]
  BY <1>1, <1>4, <1>7, ConcatProperties
<1>9. file' = Append(file \o d, JUNK)
  BY DEF d
<1>10. /\ Len(file') = s + Len(d) + 1
       /\ \A i \in 1 .. s + Len(d) : file'[i] = IF i <= s THEN file[i] ELSE d[i - s]
  BY <1>7, <1>8, <1>9
<1>11. Len(file') = n + (IF b < l THEN b ELSE l)
  <2>1. CASE b < l
    BY <1>3, <1>5, <1>10, <2>1
  <2>2. CASE ~(b < l)
    BY <1>3, <1>5, <1>10, <2>2
  <2> QED
    BY <2>1, <2>2
<1>12. ASSUME NEW m \in 1 .. n, NEW i \in 1 .. Block, Dense(m, i) <= Len(source)
       PROVE  file'[Spaced(m, i)] = source[Dense(m, i)]
  <2>1. m \in Nat \ {0} /\ i \in Nat \ {0} /\ i <= Block /\ m <= n
    BY <1>1
  <2>2. CASE m <= n - 1
    <3>1. m \in Int /\ n - 1 \in Int /\ Block + 1 \in Nat
      BY <1>1, <2>1
    <3>2. /\ m * (Block + 1) <= (n - 1) * (Block + 1) /\ m * (Block + 1) \in Int
          /\ (m - 1) * (Block + 1) = m * (Block + 1) - (Block + 1)
      BY <2>2, <3>1, Products
    <3>3. (m - 1) * (Block + 1) \in Nat
      BY <1>1, <2>1
    <3>4. PICK t \in Int, u \in Nat : t = m * (Block + 1) /\ u = (m - 1) * (Block + 1)
      BY <3>2, <3>3
    <3>5. t <= s /\ u = t - (Block + 1)
      BY <1>2, <3>2, <3>4
    <3>6. PICK k \in Nat : k = u + i
      BY <2>1
    <3>7. k \in 1 .. s
      BY <1>1, <2>1, <3>5, <3>6
    <3>8. file'[k] = file[k]
      <4>1. k \in 1 .. s + Len(d) /\ k <= s
        BY <1>7, <3>7
      <4> QED
        BY <1>10, <4>1
    <3>9. k = Spaced(m, i) /\ m \in 1 .. n - 1
      BY <2>1, <2>2, <3>4, <3>6 DEF Spaced
    <3> QED
      BY <1>12, <3>8, <3>9 DEF FileHas
  <2>3. CASE m = n
    <3>1. a + i <= l
      BY <1>2, <1>12, <2>3 DEF Dense
    <3>2. i \in 1 .. Len(d)
      <4>1. CASE b < l
        BY <1>1, <1>5, <2>1, <4>1
      <4>2. CASE ~(b < l)
        BY <1>5, <2>1, <3>1, <4>2
      <4> QED
        BY <4>1, <4>2
    <3>3. PICK k \in Nat : k = s + i
      BY <2>1
    <3>4. k \in 1 .. s + Len(d) /\ ~(k <= s) /\ k - s = i
      BY <1>7, <2>1, <3>2, <3>3
    <3>5. file'[k] = d[i]
      BY <1>10, <3>4
    <3>6. k = Spaced(n, i)
      BY <1>2, <3>3 DEF Spaced
    <3> QED
      BY <1>6, <2>3, <3>2, <3>5, <3>6
  <2>4. m <= n - 1 \/ m = n
    BY <2>1
  <2> QED
    BY <2>2, <2>3, <2>4
<1>13. \A m, i : Dense(m, i)' = Dense(m, i) /\ Spaced(m, i)' = Spaced(m, i)
  BY DEF Dense, Spaced
<1>14. n > 0 => (n - 1) * Block <= Len(source')
  OBVIOUS
<1>15. Len(file') = n + (IF n * Block < Len(source') THEN n * Block ELSE Len(source'))
  BY <1>2, <1>11
<1> QED
  BY <1>12, <1>13, <1>14, <1>15 DEF FileHas

\* The file is empty before the first block.
LEMMA FileStarts ==
  ASSUME Typed, source' = source, file' = <<>>
  PROVE  FileHas(0)'
<1>1. Len(source) \in Nat /\ 0 * Block = 0
  BY LenProperties, ServerAssumption DEF ServerAssumption, Typed
<1>2. Len(file') = 0 + (IF 0 * Block < Len(source') THEN 0 * Block ELSE Len(source'))
  BY <1>1
<1> QED
  BY <1>2 DEF FileHas

\* A packet taken from the queue leaves the order as it is.
LEMMA SortedRemoved ==
  ASSUME Typed, Sorted, NEW i \in DOMAIN toServer, toServer' = RemoveAt(toServer, i)
  PROVE  /\ \A j, k \in DOMAIN toServer' : j < k /\ toServer'[j].op # "WRQ" => toServer'[k].op # "WRQ"
         /\ block > 1 => \A j \in DOMAIN toServer' : toServer'[j].op # "WRQ"
         /\ i = 1 /\ toServer[i].op # "WRQ" => \A j \in DOMAIN toServer' : toServer'[j].op # "WRQ"
<1>1. toServer \in Seq(Packet) /\ DOMAIN toServer = 1 .. Len(toServer) /\ Len(toServer) \in Nat
  BY LenProperties DEF Typed
<1>2. /\ DOMAIN toServer' = 1 .. Len(toServer) - 1
      /\ \A j \in 1 .. Len(toServer) - 1 : toServer'[j] = IF j < i THEN toServer[j] ELSE toServer[j + 1]
  BY <1>1, RemovedAt
<1>3. ASSUME NEW j \in DOMAIN toServer', NEW k \in DOMAIN toServer', j < k, toServer'[j].op # "WRQ"
      PROVE  toServer'[k].op # "WRQ"
  <2>1. j \in 1 .. Len(toServer) - 1 /\ k \in 1 .. Len(toServer) - 1
    BY <1>2
  <2>2. PICK x \in DOMAIN toServer, y \in DOMAIN toServer :
          x < y /\ toServer'[j] = toServer[x] /\ toServer'[k] = toServer[y]
    <3>1. CASE k < i
      BY <1>1, <1>2, <1>3, <2>1, <3>1
    <3>2. CASE ~(k < i) /\ j < i
      BY <1>1, <1>2, <1>3, <2>1, <3>2
    <3>3. CASE ~(j < i)
      BY <1>1, <1>2, <1>3, <2>1, <3>3
    <3> QED
      BY <1>1, <3>1, <3>2, <3>3
  <2> QED
    BY <1>3, <2>2 DEF Sorted
<1>4. ASSUME NEW j \in DOMAIN toServer'
      PROVE  \E k \in DOMAIN toServer : toServer'[j] = toServer[k] /\ (i = 1 => 1 < k)
  BY <1>1, <1>2
<1> QED
  BY <1>1, <1>3, <1>4 DEF Sorted

\* Every step of the server keeps the invariant (TFTP_process_write).
LEMMA UploadServer ==
  ASSUME Typed, mode = "up", ~Reorder, NobodyReads, Uploading, Sorted,
         Server, UNCHANGED clientVars
  PROVE  Uploading' /\ Sorted'
<1>1. Writing /\ Passing
  BY DEF Uploading
<1>2. /\ mode' = mode /\ source' = source /\ client' = client /\ sent' = sent
      /\ cblock' = cblock
  BY DEF clientVars
<1>3. /\ toServer \in Seq(Packet) /\ DOMAIN toServer = 1 .. Len(toServer)
      /\ toClient \in Seq(Packet) /\ DOMAIN toClient = 1 .. Len(toClient)
      /\ source \in Seq(Byte) /\ block \in Nat \ {0} /\ cblock \in Nat
  BY LenProperties DEF Typed
<1>4. /\ \A n : SourceBlock(n)' = SourceBlock(n)
      /\ \A p : Uploaded(p)' <=> Uploaded(p)
  <2>1. \A n : SourceBlock(n)' = SourceBlock(n)
    BY <1>2, SameSource
  <2> QED
    BY <1>2, <2>1 DEF Uploaded, Request, Data, Error
<1>5. ASSUME NEW i \in DOMAIN toServer, Receive(i)
      PROVE  /\ i = 1 /\ toServer' = RemoveAt(toServer, i) /\ Uploaded(toServer[i])
             /\ \A j \in DOMAIN toServer' : Uploaded(toServer[j])'
  <2>1. i = 1 /\ toServer' = RemoveAt(toServer, i)
    BY <1>5 DEF Receive, Deliverable
  <2>2. \A j \in DOMAIN toServer' : \E k \in DOMAIN toServer : toServer'[j] = toServer[k]
    BY <1>3, <2>1, Others
  <2>3. ASSUME NEW j \in DOMAIN toServer'
        PROVE  Uploaded(toServer[j])'
    <3>1. PICK k \in DOMAIN toServer : toServer'[j] = toServer[k]
      BY <2>2
    <3>2. PICK p : p = toServer[k]
      OBVIOUS
    <3>3. Uploaded(p)'
      BY <1>1, <1>4, <3>2 DEF Passing
    <3> QED
      BY <3>1, <3>2, <3>3
  <2> QED
    BY <1>1, <2>1, <2>3 DEF Passing
<1>6. ASSUME block' \in Nat, block <= block', NEW p, Acknowledged(p)
      PROVE  Acknowledged(p)'
  BY <1>3, <1>6 DEF Acknowledged, Error
<1>7. ASSUME block' \in Nat, block <= block', toClient' = toClient
      PROVE  \A j \in DOMAIN toClient' : Acknowledged(toClient[j])'
  <2>1. ASSUME NEW j \in DOMAIN toClient'
        PROVE  Acknowledged(toClient[j])'
    <3>1. PICK p : p = toClient[j] /\ p = toClient'[j]
      BY <1>7
    <3>2. Acknowledged(p)'
      BY <1>1, <1>6, <1>7, <3>1 DEF Passing
    <3> QED
      BY <3>1, <3>2
  <2> QED
    BY <2>1
<1>8. ASSUME block' \in Nat, block <= block', NEW p \in Packet, Acknowledged(p)', Reply(p)
      PROVE  \A j \in DOMAIN toClient' : Acknowledged(toClient[j])'
  <2>1. toClient' = Append(toClient, p)
    BY <1>8 DEF Reply
  <2>2. ASSUME NEW j \in DOMAIN toClient'
        PROVE  Acknowledged(toClient[j])'
    <3>1. j \in 1 .. Len(toClient) \/ j = Len(toClient) + 1
      <4>1. j \in 1 .. Len(toClient) + 1
        BY <1>3, <2>1, Appended
      <4> QED
        BY <1>3, <4>1
    <3>2. PICK q : q = toClient'[j]
      OBVIOUS
    <3>3. q = p \/ \E k \in DOMAIN toClient : q = toClient[k]
      BY <1>3, <2>1, <3>1, <3>2, Appended
    <3>4. Acknowledged(q)'
      BY <1>1, <1>6, <1>8, <3>3 DEF Passing
    <3> QED
      BY <3>2, <3>4
  <2> QED
    BY <2>2
<1>9. /\ Error \in Packet /\ Acknowledged(Error)
      /\ Ack(0) \in Packet /\ Acknowledged(Ack(0))
      /\ block <= block
  BY <1>3, PacketsTyped DEF Acknowledged, Ack
<1>10. client' = "wait" =>
         sent' = IF cblock' = 0 THEN Request("WRQ") ELSE Data(cblock', SourceBlock(cblock)')
  BY <1>1, <1>2, <1>4 DEF Passing
<1>11. ASSUME block' = block, file' = file,
              pc' \in {"idle", "parse", "again", "recv", "stopped"}
       PROVE  Writing'
  <2>1. FileHas(block - 1)' <=> FileHas(block - 1)
    BY <1>2, <1>11 DEF FileHas, Dense, Spaced
  <2> QED
    BY <1>1, <1>2, <1>11, <2>1 DEF Writing
<1>12. ASSUME \A j \in DOMAIN toServer' : Uploaded(toServer[j])',
              \A j \in DOMAIN toClient' : Acknowledged(toClient[j])',
              pc' \in {"parse", "again"} => Uploaded(buf)'
       PROVE  Passing'
  <2>1. client' = "wait" =>
          sent' = IF cblock' = 0 THEN Request("WRQ")' ELSE Data(cblock, SourceBlock(cblock))'
    BY <1>10 DEF Request, Data
  <2> QED
    BY <1>12, <2>1 DEF Passing
<1>13. ASSUME toServer' = toServer
       PROVE  /\ \A j \in DOMAIN toServer' : Uploaded(toServer[j])'
              /\ \A j, k \in DOMAIN toServer' :
                   j < k /\ toServer'[j].op # "WRQ" => toServer'[k].op # "WRQ"
  BY <1>1, <1>4, <1>13 DEF Passing, Sorted
<1>14. ASSUME NEW i \in DOMAIN toServer, TFTP_run(i)
       PROVE  Uploading' /\ Sorted'
  <2>1. /\ Receive(i) /\ buf' = toServer[i] /\ pc' = "parse" /\ block' = block /\ file' = file
        /\ toClient' = toClient
    BY <1>14 DEF TFTP_run
  <2>2. Uploaded(buf)'
    <3>1. PICK p : p = toServer[i]
      OBVIOUS
    <3>2. Uploaded(p)'
      BY <1>4, <1>5, <2>1, <3>1
    <3> QED
      BY <2>1, <3>1, <3>2
  <2>3. Passing'
    BY <1>3, <1>5, <1>7, <1>9, <1>12, <2>1, <2>2
  <2>4. Sorted'
    <3>1. buf'.op = "WRQ" => block' = 1
      BY <1>3, <2>1 DEF Sorted
    <3> QED
      BY <1>5, <2>1, <3>1, SortedRemoved DEF Sorted
  <2> QED
    BY <1>11, <2>1, <2>3, <2>4 DEF Uploading
<1>15. ASSUME NEW i \in DOMAIN toServer, WriteBlock(i)
       PROVE  Uploading' /\ Sorted'
  <2> DEFINE p == toServer[i]
  <2>1. /\ Receive(i) /\ p.op = "DATA" /\ pc' \in {"idle", "recv"} /\ Reply(Ack(p.block))
    BY <1>15 DEF WriteBlock
  <2>2. i = 1 /\ toServer' = RemoveAt(toServer, i) /\ Uploaded(p)
    BY <1>5, <2>1
  <2>3. PICK n \in 1 .. cblock : p.block = n /\ p = Data(n, SourceBlock(n))
    BY <2>1, <2>2 DEF Uploaded, Request, Error
  <2>4. n \in Nat \ {0} /\ n <= cblock /\ p.data = SourceBlock(n) /\ Ack(n) \in Packet
    BY <1>3, <2>3, PacketsTyped DEF Data
  <2>5. \A j \in DOMAIN toServer' : toServer'[j].op # "WRQ"
    BY <2>1, <2>2, SortedRemoved
  <2>6. Sorted'
    BY <2>1, <2>5 DEF Sorted
  <2>7. ASSUME n < block', block' \in Nat, block <= block'
        PROVE  Passing'
    <3>1. Acknowledged(Ack(n))'
      <4>1. n \in 0 .. block' - 1
        <5>1. n \in Int /\ 1 <= n
          BY <2>4
        <5>2. PICK m \in Int : m = block'
          BY <2>7
        <5>3. n < m
          BY <2>7, <5>2
        <5>4. n \in 0 .. m - 1
          BY <5>1, <5>3
        <5> QED
          BY <5>2, <5>4
      <4>2. PICK q : q = Ack(n)
        OBVIOUS
      <4>3. Acknowledged(q)'
        BY <4>1, <4>2 DEF Acknowledged, Ack
      <4> QED
        BY <4>2, <4>3 DEF Ack
    <3>2. \A j \in DOMAIN toClient' : Acknowledged(toClient[j])'
      BY <1>8, <2>1, <2>3, <2>4, <2>7, <3>1
    <3> QED
      BY <1>5, <1>12, <2>1, <3>2
  <2>8. CASE n < block
    <3>1. block' = block /\ file' = file
      BY <1>15, <2>3, <2>8 DEF WriteBlock
    <3> QED
      BY <1>3, <1>11, <2>1, <2>6, <2>7, <2>8, <3>1 DEF Uploading
  <2>9. CASE ~(n < block)
    <3>1. block' = block + 1 /\ file' = Append(file \o SourceBlock(n), JUNK)
      BY <1>15, <2>3, <2>4, <2>9 DEF WriteBlock, TFTP_on_write_data
    <3>2. n = block /\ cblock = block
      BY <1>1, <1>3, <2>4, <2>9 DEF Writing
    <3>3. FileHas(n)'
      <4>1. FileHas(n - 1) /\ (n - 1) * Block <= Len(source)
        BY <1>1, <1>3, <3>2 DEF Writing
      <4> QED
        BY <1>2, <2>4, <3>1, <4>1, FileGrows
    <3>4. FileHas(block - 1)'
      <4>1. block' - 1 = n
        BY <1>3, <3>1, <3>2
      <4> QED
        BY <3>3, <4>1
    <3>5. client # "done"
      BY <1>1, <1>3, <3>2 DEF Writing
    <3>6. client # "start"
      BY <1>1, <1>3, <3>2 DEF Writing
    <3>7. Writing'
      <4>1. cblock' <= block' /\ block' <= cblock' + 1
        BY <1>2, <1>3, <3>1, <3>2
      <4> QED
        BY <1>1, <1>2, <2>1, <3>4, <3>5, <3>6, <4>1 DEF Writing
    <3>8. Passing'
      BY <1>3, <2>7, <3>1, <3>2
    <3> QED
      BY <2>6, <3>7, <3>8 DEF Uploading
  <2> QED
    BY <2>8, <2>9
<1>16. ASSUME NEW i \in DOMAIN toServer, WriteRequestAgain(i)
       PROVE  Uploading' /\ Sorted'
  <2>1. /\ Receive(i) /\ pc' = "recv" /\ block' = block /\ file' = file /\ Reply(Ack(0))
    BY <1>16 DEF WriteRequestAgain
  <2>2. Acknowledged(Ack(0))'
    BY <1>3, <1>6, <1>9, <2>1
  <2>3. Passing'
    BY <1>3, <1>5, <1>8, <1>9, <1>12, <2>1, <2>2
  <2>4. Sorted'
    BY <1>5, <2>1, SortedRemoved DEF Sorted
  <2> QED
    BY <1>11, <2>1, <2>3, <2>4 DEF Uploading
<1>17. ASSUME NEW i \in DOMAIN toServer, WriteOther(i)
       PROVE  Uploading' /\ Sorted'
  <2>1. /\ Receive(i) /\ buf' = toServer[i] /\ pc' = "again" /\ block' = block /\ file' = file
        /\ toClient' = toClient
    BY <1>17 DEF WriteOther
  <2>2. Uploaded(buf)'
    <3>1. PICK p : p = toServer[i]
      OBVIOUS
    <3>2. Uploaded(p)'
      BY <1>4, <1>5, <2>1, <3>1
    <3> QED
      BY <2>1, <3>1, <3>2
  <2>3. Passing'
    BY <1>3, <1>5, <1>7, <1>9, <1>12, <2>1, <2>2
  <2>4. Sorted'
    <3>1. buf'.op = "WRQ" => block' = 1
      BY <1>3, <2>1 DEF Sorted
    <3> QED
      BY <1>5, <2>1, <3>1, SortedRemoved DEF Sorted
  <2> QED
    BY <1>11, <2>1, <2>3, <2>4 DEF Uploading
<1>18. ASSUME TFTP_parse_wrq
       PROVE  Uploading' /\ Sorted'
  <2>1. block = 1 /\ toServer' = toServer
    BY <1>18 DEF TFTP_parse_wrq, Sorted
  <2>2. /\ block' = block /\ pc' \in {"recv", "idle"}
        /\ (file' = <<>> /\ pc' = "recv") \/ file' = file
        /\ Reply(Ack(0)) \/ Reply(Error)
    BY <1>18, <2>1 DEF TFTP_parse_wrq
  <2>3. Sorted'
    BY <1>13, <2>1, <2>2 DEF Sorted
  <2>4. Acknowledged(Ack(0))' /\ Acknowledged(Error)'
    <3>1. block' \in Nat /\ block <= block'
      BY <1>3, <2>2
    <3> QED
      BY <1>6, <1>9, <3>1
  <2>5. Passing'
    <3>1. \A j \in DOMAIN toClient' : Acknowledged(toClient[j])'
      BY <1>3, <1>8, <1>9, <2>2, <2>4
    <3> QED
      BY <1>12, <1>13, <2>1, <2>2, <3>1
  <2>6. CASE file' = <<>>
    <3>1. FileHas(0)'
      BY <1>2, <2>6, FileStarts
    <3>2. FileHas(block - 1)'
      <4>1. block' - 1 = 0
        BY <2>1, <2>2
      <4> QED
        BY <3>1, <4>1
    <3>3. Writing'
      BY <1>1, <1>2, <2>2, <3>2 DEF Writing
    <3> QED
      BY <2>3, <2>5, <3>3 DEF Uploading
  <2>7. CASE file' = file
    BY <1>11, <2>2, <2>3, <2>5, <2>7 DEF Uploading
  <2> QED
    BY <2>2, <2>6, <2>7
<1>19. ASSUME TFTP_parse_unknown \/ WriteTimeout
       PROVE  Uploading' /\ Sorted'
  <2>1. UNCHANGED <<buf, block, file, toServer, toClient>>
    BY <1>19 DEF TFTP_parse_unknown, WriteTimeout
  <2>2. pc' = "stopped" \/ (pc = "again" /\ pc' = "again")
    BY <1>19 DEF TFTP_parse_unknown, WriteTimeout
  <2>3. Uploaded(buf)' <=> Uploaded(buf)
    BY <1>4, <2>1
  <2>4. Passing'
    BY <1>1, <1>3, <1>7, <1>9, <1>12, <1>13, <2>1, <2>2, <2>3 DEF Passing
  <2>5. Sorted'
    BY <1>13, <2>1, <2>2 DEF Sorted
  <2> QED
    BY <1>11, <2>1, <2>2, <2>4, <2>5 DEF Uploading
<1>20. ASSUME NEW i \in DOMAIN toServer, AckBlock(i) \/ AckOutOfOrder(i) \/ AckWrong(i)
       PROVE  FALSE
  BY <1>20 DEF AckBlock, AckOutOfOrder, AckWrong, NobodyReads
<1>21. ~TFTP_parse_rrq /\ ~ReadBlock /\ ~SendBlock /\ ~AckTimeout
  BY DEF TFTP_parse_rrq, ReadBlock, SendBlock, AckTimeout, NobodyReads
<1> QED
  BY <1>14, <1>15, <1>16, <1>17, <1>18, <1>19, <1>20, <1>21 DEF Server

\* Every step of the client and of the network keeps the invariant.
LEMMA UploadClient ==
  ASSUME Typed, mode = "up", ~Reorder, Uploading, Sorted, Client \/ Lose
  PROVE  Uploading' /\ Sorted'
<1>1. Writing /\ Passing
  BY DEF Uploading
<1>2. mode' = mode /\ source' = source /\ UNCHANGED serverVars
  <2>1. ASSUME NEW i \in DOMAIN toClient, GetAck(i) \/ GetData(i) \/ GetError(i) \/ Ignore(i)
        PROVE  mode' = mode /\ source' = source /\ UNCHANGED serverVars
    BY <2>1 DEF GetAck, GetData, GetError, Ignore, clientVars
  <2>2. ASSUME Start \/ Resend \/ Abort \/ Lose
        PROVE  mode' = mode /\ source' = source /\ UNCHANGED serverVars
    BY <2>2 DEF Start, Resend, Abort, Lose
  <2> QED
    BY <2>1, <2>2 DEF Client
<1>3. pc' = pc /\ buf' = buf /\ block' = block /\ file' = file
  BY <1>2 DEF serverVars
<1>4. /\ toServer \in Seq(Packet) /\ DOMAIN toServer = 1 .. Len(toServer) /\ Len(toServer) \in Nat
      /\ toClient \in Seq(Packet) /\ DOMAIN toClient = 1 .. Len(toClient)
      /\ source \in Seq(Byte) /\ block \in Nat \ {0} /\ cblock \in Nat
  BY LenProperties DEF Typed
<1>5. \A n : SourceBlock(n)' = SourceBlock(n)
  BY <1>2, SameSource
<1>6. FileHas(block - 1)' <=> FileHas(block - 1)
  BY <1>2, <1>3 DEF FileHas, Dense, Spaced
<1>7. ASSUME cblock' \in Nat, cblock <= cblock', client = "failed" => client' = "failed",
             NEW p, Uploaded(p)
      PROVE  Uploaded(p)'
  <2>1. CASE p = Request("WRQ")
    BY <2>1 DEF Uploaded, Request
  <2>2. CASE p = Error /\ client = "failed"
    BY <1>7, <2>2 DEF Uploaded, Error
  <2>3. CASE p.op = "DATA" /\ p.block \in 1 .. cblock /\ p = Data(p.block, SourceBlock(p.block))
    <3>1. p.block \in 1 .. cblock'
      BY <1>4, <1>7, <2>3
    <3>2. PICK n : n = p.block
      OBVIOUS
    <3>3. Data(n, SourceBlock(n))' = Data(n, SourceBlock(n))
      BY <1>5 DEF Data
    <3> QED
      BY <2>3, <3>1, <3>2, <3>3 DEF Uploaded
  <2> QED
    BY <1>7, <2>1, <2>2, <2>3 DEF Uploaded
<1>8. ASSUME cblock' \in Nat, cblock <= cblock', client = "failed" => client' = "failed",
             NEW q \in Seq(Packet), toServer' = q,
             \A j \in DOMAIN q : Uploaded(q[j])' \/ \E k \in DOMAIN toServer : q[j] = toServer[k]
      PROVE  \A j \in DOMAIN toServer' : Uploaded(toServer[j])'
  <2>1. ASSUME NEW j \in DOMAIN q
        PROVE  Uploaded(q[j])'
    <3>1. PICK p : p = q[j]
      OBVIOUS
    <3>2. ASSUME NEW k \in DOMAIN toServer, p = toServer[k]
          PROVE  Uploaded(p)'
      BY <1>1, <1>7, <1>8, <3>2 DEF Passing
    <3> QED
      BY <1>8, <3>1, <3>2
  <2> QED
    BY <1>8, <2>1
<1>9. ASSUME cblock' \in Nat, cblock <= cblock', client = "failed" => client' = "failed",
             toServer' = toServer \/ \E i \in DOMAIN toServer : toServer' = RemoveAt(toServer, i)
      PROVE  (\A j \in DOMAIN toServer' : Uploaded(toServer[j])') /\ Sorted'
  <2>1. toServer' \in Seq(Packet) /\ \A j \in DOMAIN toServer' : \E k \in DOMAIN toServer : toServer'[j] = toServer[k]
    <3>1. CASE toServer' = toServer
      BY <1>4, <3>1
    <3>2. ASSUME NEW i \in DOMAIN toServer, toServer' = RemoveAt(toServer, i)
          PROVE  /\ toServer' \in Seq(Packet)
                 /\ \A j \in DOMAIN toServer' : \E k \in DOMAIN toServer : toServer'[j] = toServer[k]
      <4>1. toServer' \in Seq(Packet)
        BY <1>4, <3>2, RemovedAt
      <4>2. \A j \in DOMAIN toServer' : \E k \in DOMAIN toServer : toServer'[j] = toServer[k]
        BY <1>4, <3>2, Others
      <4> QED
        BY <4>1, <4>2
    <3> QED
      BY <1>9, <3>1, <3>2
  <2>2. \A j \in DOMAIN toServer' : Uploaded(toServer[j])'
    BY <1>8, <1>9, <2>1
  <2>3. Sorted'
    BY <1>3, <1>9, SortedRemoved DEF Sorted
  <2> QED
    BY <2>2, <2>3
<1>10. ASSUME cblock' \in Nat, cblock <= cblock', client = "failed" => client' = "failed",
              NEW p \in Packet, Uploaded(p)', SendPacket(p),
              p.op = "WRQ" => block = 1 /\ \A j \in DOMAIN toServer : toServer[j].op = "WRQ"
       PROVE  (\A j \in DOMAIN toServer' : Uploaded(toServer[j])') /\ Sorted'
  <2>1. toServer' = Append(toServer, p)
    BY <1>10 DEF SendPacket
  <2>2. /\ Append(toServer, p) \in Seq(Packet) /\ DOMAIN Append(toServer, p) = 1 .. Len(toServer) + 1
        /\ \A j \in 1 .. Len(toServer) : Append(toServer, p)[j] = toServer[j]
        /\ Append(toServer, p)[Len(toServer) + 1] = p
    BY <1>4, Appended
  <2>3. \A j \in 1 .. Len(toServer) + 1 : j \in 1 .. Len(toServer) \/ j = Len(toServer) + 1
    BY <1>4
  <2>4. \A j \in DOMAIN toServer' : Uploaded(toServer[j])'
    <3>1. PICK q \in Seq(Packet) : q = Append(toServer, p)
      BY <2>2
    <3>2. \A j \in DOMAIN q : q[j] = p \/ \E k \in DOMAIN toServer : q[j] = toServer[k]
      BY <1>4, <2>2, <2>3, <3>1
    <3>3. \A j \in DOMAIN q : Uploaded(q[j])' \/ \E k \in DOMAIN toServer : q[j] = toServer[k]
      BY <1>10, <3>2
    <3> QED
      BY <1>8, <1>10, <2>1, <3>1, <3>3
  <2>5. ASSUME NEW j \in DOMAIN toServer', NEW k \in DOMAIN toServer', j < k, toServer'[j].op # "WRQ"
        PROVE  toServer'[k].op # "WRQ"
    <3>1. j \in 1 .. Len(toServer) /\ toServer'[j] = toServer[j]
      BY <1>4, <2>1, <2>2, <2>3, <2>5
    <3>2. CASE k = Len(toServer) + 1
      BY <1>4, <1>10, <2>1, <2>2, <2>5, <3>1, <3>2
    <3>3. CASE k \in 1 .. Len(toServer)
      BY <1>4, <2>1, <2>2, <2>5, <3>1, <3>3 DEF Sorted
    <3> QED
      BY <2>1, <2>2, <2>3, <3>2, <3>3
  <2>6. block' > 1 => \A j \in DOMAIN toServer' : toServer'[j].op # "WRQ"
    BY <1>3, <1>4, <1>10, <2>1, <2>2, <2>3 DEF Sorted
  <2>7. Sorted'
    BY <1>3, <2>5, <2>6 DEF Sorted
  <2> QED
    BY <2>4, <2>7

<1>11. ASSUME cblock' = cblock, client' # "done", client' = "start" => client = "start"
       PROVE  Writing'
  BY <1>1, <1>2, <1>3, <1>6, <1>11 DEF Writing
<1>12. ASSUME toClient' = toClient \/ \E i \in DOMAIN toClient : toClient' = RemoveAt(toClient, i)
       PROVE  \A j \in DOMAIN toClient' : Acknowledged(toClient[j])'
  <2>1. \A j \in DOMAIN toClient' : \E k \in DOMAIN toClient : toClient'[j] = toClient[k]
    BY <1>4, <1>12, Others
  <2>2. \A p : Acknowledged(p)' <=> Acknowledged(p)
    BY <1>3 DEF Acknowledged, Error
  <2>3. ASSUME NEW j \in DOMAIN toClient'
        PROVE  Acknowledged(toClient[j])'
    <3>1. PICK k \in DOMAIN toClient : toClient'[j] = toClient[k]
      BY <2>1
    <3>2. PICK p : p = toClient[k]
      OBVIOUS
    <3>3. Acknowledged(p)'
      BY <1>1, <2>2, <3>2 DEF Passing
    <3> QED
      BY <3>1, <3>2, <3>3
  <2> QED
    BY <2>3
<1>13. ASSUME cblock' \in Nat, cblock <= cblock', client = "failed" => client' = "failed",
              toClient' = toClient \/ \E i \in DOMAIN toClient : toClient' = RemoveAt(toClient, i),
              \A j \in DOMAIN toServer' : Uploaded(toServer[j])',
              client' = "wait" =>
                sent' = IF cblock' = 0 THEN Request("WRQ") ELSE Data(cblock', SourceBlock(cblock)')
       PROVE  Passing'
  <2>1. client' = "wait" =>
          sent' = IF cblock' = 0 THEN Request("WRQ")' ELSE Data(cblock, SourceBlock(cblock))'
    BY <1>13 DEF Request, Data
  <2>2. pc' \in {"parse", "again"} => Uploaded(buf)'
    <3>1. PICK p : p = buf /\ p = buf'
      BY <1>3
    <3>2. pc' \in {"parse", "again"} => Uploaded(p)'
      BY <1>1, <1>3, <1>7, <1>13, <3>1 DEF Passing
    <3> QED
      BY <3>1, <3>2
  <2> QED
    BY <1>12, <1>13, <2>1, <2>2 DEF Passing
<1>14. ASSUME cblock = 0, client \in {"start", "wait"}
       PROVE  block = 1 /\ \A j \in DOMAIN toServer : toServer[j].op = "WRQ"
  <2>1. block = 1
    BY <1>1, <1>4, <1>14 DEF Writing
  <2>2. \A j \in DOMAIN toServer : toServer[j] = Request("WRQ")
    BY <1>1, <1>14 DEF Passing, Uploaded
  <2> QED
    BY <2>1, <2>2 DEF Request
<1>15. cblock <= cblock
  BY <1>4
<1>16. ASSUME Start
       PROVE  Uploading' /\ Sorted'
  <2>1. /\ client = "start" /\ client' = "wait" /\ cblock' = cblock /\ toClient' = toClient
        /\ SendPacket(Request("WRQ")) /\ sent' = Request("WRQ")
    BY <1>16 DEF Start, SendPacket
  <2>2. cblock = 0
    BY <1>1, <2>1 DEF Writing
  <2>3. PICK p \in Packet : p = Request("WRQ")
    BY PacketsTyped
  <2>4. Uploaded(p)'
    BY <2>3 DEF Uploaded, Request
  <2>5. (\A j \in DOMAIN toServer' : Uploaded(toServer[j])') /\ Sorted'
    BY <1>4, <1>10, <1>14, <1>15, <2>1, <2>2, <2>3, <2>4
  <2>6. Passing'
    BY <1>4, <1>13, <1>15, <2>1, <2>2, <2>5
  <2> QED
    BY <1>11, <2>1, <2>5, <2>6 DEF Uploading
<1>17. ASSUME Resend
       PROVE  Uploading' /\ Sorted'
  <2>1. /\ client = "wait" /\ client' = "wait" /\ cblock' = cblock /\ toClient' = toClient
        /\ SendPacket(sent) /\ sent' = sent
    BY <1>17 DEF Resend, SendPacket
  <2>2. sent = IF cblock = 0 THEN Request("WRQ") ELSE Data(cblock, SourceBlock(cblock))
    BY <1>1, <2>1 DEF Passing
  <2>3. PICK p \in Packet : p = sent
    BY DEF Typed
  <2>4. Uploaded(p)
    <3>1. CASE cblock = 0
      BY <2>2, <2>3, <3>1 DEF Uploaded
    <3>2. CASE cblock # 0
      BY <1>4, <2>2, <2>3, <3>2 DEF Uploaded, Data
    <3> QED
      BY <3>1, <3>2
  <2>5. Uploaded(p)'
    BY <1>4, <1>7, <1>15, <2>1, <2>4
  <2>6. p.op = "WRQ" => cblock = 0
    BY <2>2, <2>3 DEF Data
  <2>7. (\A j \in DOMAIN toServer' : Uploaded(toServer[j])') /\ Sorted'
    BY <1>4, <1>10, <1>14, <1>15, <2>1, <2>3, <2>5, <2>6
  <2>8. Passing'
    BY <1>4, <1>5, <1>13, <1>15, <2>1, <2>2, <2>7
  <2> QED
    BY <1>11, <2>1, <2>7, <2>8 DEF Uploading
<1>18. ASSUME Abort
       PROVE  Uploading' /\ Sorted'
  <2>1. client' = "failed" /\ cblock' = cblock /\ toClient' = toClient /\ SendPacket(Error)
    BY <1>18 DEF Abort
  <2>2. PICK p \in Packet : p = Error
    BY PacketsTyped
  <2>3. Uploaded(p)' /\ p.op # "WRQ"
    BY <2>1, <2>2 DEF Uploaded, Error
  <2>4. (\A j \in DOMAIN toServer' : Uploaded(toServer[j])') /\ Sorted'
    BY <1>4, <1>10, <1>15, <2>1, <2>2, <2>3
  <2>5. Passing'
    BY <1>4, <1>13, <1>15, <2>1, <2>4
  <2> QED
    BY <1>11, <2>1, <2>4, <2>5 DEF Uploading
<1>19. ASSUME NEW i \in DOMAIN toClient, GetError(i) \/ Ignore(i)
       PROVE  Uploading' /\ Sorted'
  <2>1. /\ UNCHANGED <<cblock, sent, toServer>> /\ toClient' = RemoveAt(toClient, i)
        /\ client' = client \/ client' = "failed"
    BY <1>19 DEF GetError, Ignore, Take, clientVars
  <2>2. (\A j \in DOMAIN toServer' : Uploaded(toServer[j])') /\ Sorted'
    BY <1>4, <1>9, <1>15, <2>1
  <2>3. Passing'
    BY <1>1, <1>4, <1>5, <1>13, <1>15, <2>1, <2>2 DEF Passing
  <2>4. Writing'
    BY <1>1, <1>2, <1>3, <1>6, <2>1 DEF Writing
  <2> QED
    BY <2>2, <2>3, <2>4 DEF Uploading
<1>20. ASSUME Lose
       PROVE  Uploading' /\ Sorted'
  <2>1. /\ UNCHANGED <<cblock, sent, client>>
        /\ toClient' = toClient \/ \E i \in DOMAIN toClient : toClient' = RemoveAt(toClient, i)
        /\ toServer' = toServer \/ \E i \in DOMAIN toServer : toServer' = RemoveAt(toServer, i)
    BY <1>20 DEF Lose
  <2>2. (\A j \in DOMAIN toServer' : Uploaded(toServer[j])') /\ Sorted'
    BY <1>4, <1>9, <1>15, <2>1
  <2>3. Passing'
    BY <1>1, <1>4, <1>5, <1>13, <1>15, <2>1, <2>2 DEF Passing
  <2>4. Writing'
    BY <1>1, <1>2, <1>3, <1>6, <2>1 DEF Writing
  <2> QED
    BY <2>2, <2>3, <2>4 DEF Uploading
<1>21. ASSUME NEW i \in DOMAIN toClient, GetAck(i)
       PROVE  Uploading' /\ Sorted'
  <2>1. /\ client = "wait" /\ toClient[i] = Ack(cblock) /\ toClient' = RemoveAt(toClient, i)
    BY <1>21 DEF GetAck, Take
  <2>2. block = cblock + 1
    <3>1. Acknowledged(Ack(cblock))
      BY <1>1, <2>1 DEF Passing
    <3>2. cblock \in 0 .. block - 1
      BY <3>1 DEF Acknowledged, Ack, Error
    <3> QED
      BY <1>1, <1>4, <3>2 DEF Writing
  <2>3. Block \in Nat \ {0} /\ Len(source) \in Nat
    BY <1>4, LenProperties, ServerAssumption DEF ServerAssumption
  <2>4. ASSUME cblock > 0
        PROVE  /\ Len(SourceBlock(cblock)) =
                    IF cblock * Block < Len(source) THEN Block ELSE Len(source) - (cblock - 1) * Block
               /\ (cblock - 1) * Block = cblock * Block - Block /\ cblock * Block \in Int
               /\ (cblock - 1) * Block <= Len(source)
    <3>1. cblock \in Nat \ {0} /\ (cblock - 1) * Block <= Len(source)
      BY <1>1, <1>4, <2>4 DEF Writing
    <3>2. (cblock - 1) * Block = cblock * Block - Block /\ cblock * Block \in Int
      BY <2>3, <3>1, Products
    <3> QED
      BY <1>4, <3>1, <3>2, SourceBlocks
  <2>5. CASE cblock > 0 /\ Len(SourceBlock(cblock)) < Block
    <3>1. client' = "done" /\ UNCHANGED <<toServer, sent, cblock>>
      BY <1>21, <2>5 DEF GetAck
    <3>2. cblock * Block > Len(source)
      <4>1. PICK b \in Int : b = cblock * Block
        BY <2>4, <2>5
      <4>2. Len(SourceBlock(cblock)) = IF b < Len(source) THEN Block ELSE Len(source) - (b - Block)
        BY <2>4, <2>5, <4>1
      <4>3. ~(b < Len(source))
        BY <2>3, <2>5, <4>2
      <4> QED
        BY <2>3, <2>5, <4>1, <4>2, <4>3
    <3>3. Writing'
      BY <1>1, <1>2, <1>3, <1>6, <2>2, <2>5, <3>1, <3>2 DEF Writing
    <3>4. (\A j \in DOMAIN toServer' : Uploaded(toServer[j])') /\ Sorted'
      BY <1>4, <1>9, <1>15, <2>1, <3>1
    <3>5. Passing'
      BY <1>4, <1>13, <1>15, <2>1, <3>1, <3>4
    <3> QED
      BY <3>3, <3>4, <3>5 DEF Uploading
  <2>6. CASE ~(cblock > 0 /\ Len(SourceBlock(cblock)) < Block)
    <3>1. /\ cblock' = cblock + 1 /\ SendPacket(Data(cblock', SourceBlock(cblock')))
          /\ client' = client
      BY <1>21, <2>6 DEF GetAck
    <3>2. PICK n \in Nat \ {0} : n = cblock + 1
      BY <1>4
    <3>3. cblock' = n /\ cblock' \in Nat /\ cblock <= cblock' /\ block' = n
      BY <1>3, <1>4, <2>2, <3>1, <3>2
    <3>4. PICK p \in Packet : p = Data(n, SourceBlock(n))
      BY PacketsTyped
    <3>5. Data(cblock', SourceBlock(cblock')) = p
      BY <3>3, <3>4 DEF SourceBlock
    <3>6. SendPacket(p) /\ p.op # "WRQ" /\ sent' = p
      BY <3>1, <3>4, <3>5 DEF SendPacket, Data
    <3>7. SourceBlock(cblock)' = SourceBlock(n)
      BY <1>2, <3>3 DEF SourceBlock
    <3>8. Uploaded(p)'
      <4>1. p.op = "DATA" /\ p.block = n
        BY <3>4 DEF Data
      <4>2. p = Data(n, SourceBlock(n)')
        BY <1>5, <3>4
      <4>3. n \in 1 .. cblock'
        BY <3>3
      <4> QED
        BY <4>1, <4>2, <4>3 DEF Uploaded, Data
    <3>9. (\A j \in DOMAIN toServer' : Uploaded(toServer[j])') /\ Sorted'
      BY <1>10, <2>1, <3>1, <3>3, <3>6, <3>8
    <3>10. Passing'
      <4>1. sent' = Data(cblock', SourceBlock(cblock)') /\ cblock' # 0
        BY <3>3, <3>4, <3>6, <3>7
      <4> QED
        BY <1>13, <2>1, <3>1, <3>3, <3>9, <4>1
    <3>11. (n - 1) * Block <= Len(source)
      <4>1. n - 1 = cblock
        BY <1>4, <3>2
      <4>2. cblock * Block <= Len(source)
        <5>1. CASE cblock = 0
          BY <2>3, <5>1, Products
        <5>2. CASE cblock > 0
          <6>1. PICK b \in Int : b = cblock * Block
            BY <2>4, <5>2
          <6>2. Len(SourceBlock(cblock)) = IF b < Len(source) THEN Block ELSE Len(source) - (b - Block)
            BY <2>4, <5>2, <6>1
          <6>3. CASE b < Len(source)
            BY <2>3, <6>1, <6>3
          <6>4. CASE ~(b < Len(source))
            <7>1. ~(Len(source) - (b - Block) < Block)
              BY <2>6, <5>2, <6>2, <6>4
            <7> QED
              BY <2>3, <6>1, <7>1
          <6> QED
            BY <6>3, <6>4
        <5> QED
          BY <1>4, <5>1, <5>2
      <4> QED
        BY <4>1, <4>2
    <3>12. Writing'
      <4>1. cblock' <= block' /\ block' <= cblock' + 1
        BY <3>3
      <4>2. (cblock' - 1) * Block <= Len(source')
        BY <1>2, <3>3, <3>11
      <4> QED
        BY <1>1, <1>3, <1>6, <2>1, <3>1, <4>1, <4>2 DEF Writing
    <3> QED
      BY <3>9, <3>10, <3>12 DEF Uploading
  <2> QED
    BY <2>5, <2>6
<1>22. ASSUME NEW i \in DOMAIN toClient PROVE ~GetData(i)
  BY DEF GetData
<1> QED
  BY <1>16, <1>17, <1>18, <1>19, <1>20, <1>21, <1>22 DEF Client

-----------------------------------------------------------------------------
(***************************************************************************)
(* The invariant, and the theorems.                                        *)
(***************************************************************************)

\* The invariant holds when nothing has been sent.
LEMMA InitIInv == Init => IInv
<1> SUFFICES ASSUME Init PROVE IInv
  OBVIOUS
<1>1. mode \in {"up", "down"} /\ source \in Seq(Byte)
  BY SystemAssumption DEF SystemAssumption, Init
<1>2. Error \in Packet /\ Error.op = "ERROR"
  BY DEF Error, Packet
<1>3. /\ pc = "idle" /\ buf = Error /\ size = 0 /\ block = 1 /\ fpos = 0
      /\ file = (IF mode = "down" THEN source ELSE <<>>)
      /\ toServer = <<>> /\ toClient = <<>> /\ client = "start" /\ sent = Error
      /\ cblock = 0 /\ received = <<>>
  BY DEF Init, ServerInit
<1>4. file \in Seq(Byte \cup {JUNK})
  <2>1. source \in Seq(Byte \cup {JUNK}) /\ <<>> \in Seq(Byte \cup {JUNK})
    BY <1>1, SeqMonotonic
  <2> QED
    BY <1>3, <2>1
<1>5. Typed
  BY <1>1, <1>2, <1>3, <1>4 DEF Typed, States
<1>6. mode = "up" => NobodyReads
  BY <1>3 DEF NobodyReads
<1>7. ASSUME mode = "up" PROVE Uploading /\ Sorted
  <2>1. FileHas(0)
    <3>1. Len(source) \in Nat /\ 0 * Block = 0 /\ Len(file) = 0
      BY <1>1, <1>3, <1>7, LenProperties, ServerAssumption DEF ServerAssumption
    <3>2. Len(file) = 0 + (IF 0 * Block < Len(source) THEN 0 * Block ELSE Len(source))
      BY <3>1
    <3> QED
      BY <3>2 DEF FileHas
  <2>2. FileHas(block - 1)
    <3>1. block - 1 = 0
      BY <1>3
    <3> QED
      BY <2>1, <3>1
  <2>3. Writing
    BY <1>3, <2>2 DEF Writing
  <2>4. Passing /\ Sorted
    BY <1>3 DEF Passing, Sorted
  <2> QED
    BY <2>3, <2>4 DEF Uploading
<1>8. ASSUME mode = "down" PROVE Downloading
  BY <1>3, <1>8 DEF Downloading, Serving, Underway, Got
<1> QED
  BY <1>5, <1>6, <1>7, <1>8 DEF IInv

\* Every step keeps the invariant.
LEMMA NextIInv == IInv /\ [Next]_vars => IInv'
<1> SUFFICES ASSUME IInv, [Next]_vars PROVE IInv'
  OBVIOUS
<1>1. Typed /\ mode \in {"up", "down"}
  BY DEF IInv, Typed
<1>2. ASSUME Next PROVE IInv'
  <2>1. (Server /\ UNCHANGED clientVars) \/ Client \/ Lose
    BY <1>2 DEF Next
  <2>2. pc = "read" => file = source /\ fpos = From(block)
    BY <1>1 DEF IInv, NobodyReads, Downloading, Serving
  <2>3. Typed'
    BY <1>1, <2>1, <2>2, ServerTyped, ClientTyped
  <2>4. CASE mode = "up"
    <3>1. mode' = "up" /\ NobodyReads'
      BY <1>1, <2>1, <2>4, NobodyReadsStep DEF IInv
    <3>2. ~Reorder => Uploading' /\ Sorted'
      BY <1>1, <2>1, <2>4, UploadServer, UploadClient DEF IInv
    <3> QED
      BY <2>3, <3>1, <3>2 DEF IInv
  <2>5. CASE mode = "down"
    <3>1. mode' = "down" /\ Downloading'
      BY <1>1, <2>1, <2>5, DownloadServer, DownloadClient DEF IInv
    <3> QED
      BY <2>3, <3>1 DEF IInv
  <2> QED
    BY <1>1, <2>4, <2>5
<1>3. ASSUME UNCHANGED vars PROVE IInv'
  <2>1. /\ UNCHANGED <<pc, buf, size, block, tries, file, fpos, toServer, toClient>>
        /\ UNCHANGED <<mode, source, client, sent, cblock, received>>
    BY <1>3 DEF vars, serverVars, clientVars
  <2>2. Typed'
    BY <1>1, <2>1 DEF Typed
  <2>3. NobodyReads' <=> NobodyReads
    BY <2>1 DEF NobodyReads
  <2>4. /\ \A n : From(n)' = From(n) /\ Size(n)' = Size(n) /\ Chunk(n)' = Chunk(n)
        /\ \A n : (Follows(n)' <=> Follows(n)) /\ SourceBlock(n)' = SourceBlock(n)
    BY <2>1, SameSource
  <2>5. /\ \A p : Asked(p)' <=> Asked(p)
        /\ \A p : Answer(p)' <=> Answer(p)
        /\ \A p : Uploaded(p)' <=> Uploaded(p)
        /\ \A p : Acknowledged(p)' <=> Acknowledged(p)
        /\ \A n, d : Data(n, d)' = Data(n, d)
    BY <2>1, <2>4 DEF Asked, Answer, Uploaded, Acknowledged, Error, Request, Data
  <2>6. Error' = Error /\ \A o : Request(o)' = Request(o)
    BY DEF Error, Request
  <2>7. Sorted' <=> Sorted
    BY <2>1 DEF Sorted
  <2>8. FileHas(block - 1)' <=> FileHas(block - 1)
    BY <2>1 DEF FileHas, Dense, Spaced
  <2>9. Writing' <=> Writing
    BY <2>1, <2>8 DEF Writing
  <2>10. Passing' <=> Passing
    BY <2>1, <2>4, <2>5, <2>6 DEF Passing
  <2>11. Serving' <=> Serving
    BY <2>1, <2>4, <2>5, <2>6 DEF Serving
  <2>12. Underway' <=> Underway
    BY <2>1, <2>5 DEF Underway
  <2>13. Got' <=> Got
    BY <2>1, <2>4 DEF Got, Dense, Spaced
  <2> QED
    BY <2>1, <2>2, <2>3, <2>7, <2>9, <2>10, <2>11, <2>12, <2>13 DEF IInv, Uploading, Downloading
<1> QED
  BY <1>2, <1>3

\* The invariant holds in every state, of every instance: the typing, and what has
\* been written and read in the course of a transfer.
THEOREM TransferInvariant == Spec => []IInv
<1> QED
  BY InitIInv, NextIInv, PTL DEF Spec

\* The blocks of an upload are written in order and once each (TFTP_process_write).
LEMMA WrittenOnce == IInv /\ ~Reorder => WrittenInOrder /\ UploadComplete
<1> SUFFICES ASSUME IInv, ~Reorder, mode = "up"
             PROVE  /\ \E n \in 0 .. Len(file) : FileHas(n)
                    /\ client = "done" =>
                         \E n \in 0 .. Len(file) : FileHas(n) /\ n * Block > Len(source)
  BY DEF WrittenInOrder, UploadComplete
<1>1. Typed /\ Writing
  BY DEF IInv, Uploading
<1>2. PICK n \in Nat : n = block - 1
  BY <1>1 DEF Typed
<1>3. FileHas(n)
  BY <1>1, <1>2 DEF Writing
<1>4. n \in 0 .. Len(file)
  <2>1. Len(source) \in Nat /\ Block \in Nat /\ Len(file) \in Nat
    BY <1>1, LenProperties, ServerAssumption DEF ServerAssumption, Typed
  <2>2. PICK b \in Nat : b = n * Block
    BY <2>1
  <2>3. Len(file) = n + (IF b < Len(source) THEN b ELSE Len(source))
    BY <1>3, <2>2 DEF FileHas
  <2>4. n <= Len(file)
    BY <2>1, <2>3
  <2> QED
    BY <2>1, <2>4
<1>5. ASSUME client = "done" PROVE n * Block > Len(source)
  <2>1. block = cblock + 1 /\ cblock * Block > Len(source)
    BY <1>1, <1>5 DEF Writing
  <2>2. n = cblock
    BY <1>1, <1>2, <2>1 DEF Typed
  <2> QED
    BY <2>1, <2>2
<1> QED
  BY <1>3, <1>4, <1>5

\* A download hands the client the blocks the server has read, in order and once
\* each, and all of them (TFTP_process_read), whatever is lost, sent again or
\* overtaken on the way.
THEOREM DownloadsInOrder == Spec => []DownloadInOrder
<1>1. IInv => DownloadInOrder
  <2> SUFFICES ASSUME IInv, mode = "down"
               PROVE  DownloadInOrder
    BY DEF DownloadInOrder
  <2>1. Typed /\ Got
    BY DEF IInv, Downloading
  <2>2. client = "done" => cblock > 0 /\ Size(cblock) < Block
    BY <2>1 DEF Got
  <2> QED
    BY <2>1, <2>2, GotInOrder DEF DownloadInOrder
<1> QED
  BY <1>1, TransferInvariant, PTL

\* Over a network that keeps the order of packets, both directions transfer the
\* blocks in order and once each (TFTP_process_write, TFTP_process_read).
THEOREM TransfersInOrder == ASSUME ~Reorder PROVE Spec => []InOrder
<1>1. IInv => WrittenInOrder
  BY WrittenOnce
<1>2. Spec => []WrittenInOrder
  BY <1>1, TransferInvariant, PTL
<1> QED
  BY <1>2, DownloadsInOrder, PTL DEF InOrder

\* Over a network that keeps the order, a client whose last block has been
\* acknowledged has left the whole source in the file (TFTP_process_write).
THEOREM UploadsComplete == ASSUME ~Reorder PROVE Spec => []UploadComplete
<1>1. IInv => UploadComplete
  BY WrittenOnce
<1> QED
  BY <1>1, TransferInvariant, PTL

\* The server ends a download well only after the client has received every byte
\* it stores: at the end, the block acknowledged is the last (TFTP_process_read).
THEOREM ReadsEndAfter == Spec => ReadEndsAfterClient
<1>1. ASSUME IInv, Next, pc = "ack", pc' = "idle" PROVE AllReceived
  <2>1. Typed /\ mode = "down" /\ Serving /\ Underway /\ Got
    BY <1>1 DEF IInv, Typed, NobodyReads, Downloading
  <2>2. Server
    <3>1. ~(Client \/ Lose)
      <4>1. UNCHANGED serverVars => pc' = pc
        BY DEF serverVars
      <4>2. ASSUME NEW i \in DOMAIN toClient, GetAck(i) \/ GetData(i) \/ GetError(i) \/ Ignore(i)
            PROVE  UNCHANGED serverVars
        BY <4>2 DEF GetAck, GetData, GetError, Ignore
      <4>3. ASSUME Start \/ Resend \/ Abort \/ Lose
            PROVE  UNCHANGED serverVars
        BY <4>3 DEF Start, Resend, Abort, Lose
      <4> QED
        BY <1>1, <4>1, <4>2, <4>3 DEF Client
    <3> QED
      BY <1>1, <3>1 DEF Next
  <2>3. PICK i \in DOMAIN toServer : toServer[i] = Ack(block) /\ size < Block
    <3>1. ASSUME NEW i \in DOMAIN toServer, ~AckBlock(i)
          PROVE  ~(TFTP_run(i) \/ WriteBlock(i) \/ WriteRequestAgain(i) \/ WriteOther(i)
                    \/ AckBlock(i) \/ AckOutOfOrder(i) \/ AckWrong(i))
      <4>1. ~(TFTP_run(i) \/ WriteBlock(i) \/ WriteRequestAgain(i) \/ WriteOther(i))
        BY <1>1 DEF TFTP_run, WriteBlock, WriteRequestAgain, WriteOther
      <4>2. ~AckOutOfOrder(i) /\ ~AckWrong(i)
        BY <1>1 DEF AckOutOfOrder, AckWrong, NoAck, Retry
      <4> QED
        BY <3>1, <4>1, <4>2
    <3>2. ~(TFTP_parse_wrq \/ TFTP_parse_rrq \/ TFTP_parse_unknown
              \/ WriteTimeout \/ ReadBlock \/ SendBlock)
      BY <1>1 DEF TFTP_parse_wrq, TFTP_parse_rrq, TFTP_parse_unknown, WriteTimeout, ReadBlock,
                  SendBlock
    <3>3. ~AckTimeout
      BY <1>1 DEF AckTimeout, NoAck, Retry
    <3>4. PICK i \in DOMAIN toServer : AckBlock(i)
      BY <2>2, <3>1, <3>2, <3>3 DEF Server
    <3> QED
      BY <1>1, <3>4 DEF AckBlock
  <2>4. block \in Nat \ {0} /\ cblock \in Nat /\ source \in Seq(Byte) /\ Block \in Nat \ {0}
    BY <2>1, ServerAssumption DEF Typed, ServerAssumption
  <2>5. block <= cblock
    BY <2>1, <2>3 DEF Underway, Asked, Ack
  <2>6. Size(block) < Block
    BY <1>1, <2>1, <2>3 DEF Serving
  <2>7. block = cblock
    <3>1. ASSUME block # cblock PROVE FALSE
      <4>1. PICK n \in Nat \ {0} : n = cblock - 1
        BY <2>4, <2>5, <3>1
      <4>2. Size(n) = Block /\ block \in 1 .. n
        BY <2>1, <2>4, <2>5, <3>1, <4>1 DEF Got, Follows
      <4>3. Size(block) = Block
        BY <2>4, <4>2, FullBefore
      <4> QED
        BY <2>4, <2>6, <4>3
    <3> QED
      BY <3>1
  <2> QED
    BY <2>1, <2>4, <2>6, <2>7, GotInOrder
<1>2. IInv /\ [Next]_vars => [pc = "ack" /\ pc' = "idle" => AllReceived]_vars
  BY <1>1
<1> QED
  BY <1>2, TransferInvariant, PTL DEF Spec, ReadEndsAfterClient

=============================================================================
