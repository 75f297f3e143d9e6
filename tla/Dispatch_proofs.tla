--------------------------- MODULE Dispatch_proofs ---------------------------
(***************************************************************************)
(* Proofs about Dispatch, for any numbers of threads, commands, packets    *)
(* and upsets, with copies of the connection map at any moment; only the   *)
(* direction from the client to the server needs QuietJoins.  The last     *)
(* section shows the state well formed, by following every piece of a      *)
(* command from the client to the method it runs.                          *)
(***************************************************************************)
EXTENDS Dispatch, SequenceTheorems, TLAPS

-----------------------------------------------------------------------------
(* No packet is stranded *)

(* What the proof needs to know of the readers' records. *)
ReaderShape ==
    /\ tokens \in Nat
    /\ DOMAIN reader = Readers
    /\ \A t \in Readers : DOMAIN reader[t] = {"pc", "map", "packet"}

StrandInv == ReaderShape /\ NoPacketStranded

(* Assigning to one reader's record moves that reader and no other. *)
LEMMA ReaderMoves ==
    ASSUME DOMAIN reader = Readers,
           \A u \in Readers : DOMAIN reader[u] = {"pc", "map", "packet"},
           NEW t \in Readers, NEW s,
           \/ \E m : reader' = [reader EXCEPT ![t].pc = s, ![t].map = m]
           \/ \E p : reader' = [reader EXCEPT ![t].pc = s, ![t].packet = p]
           \/ reader' = [reader EXCEPT ![t].pc = s]
    PROVE  /\ DOMAIN reader' = Readers
           /\ \A u \in Readers : DOMAIN reader'[u] = {"pc", "map", "packet"}
           /\ reader'[t].pc = s
           /\ \A u \in Readers \ {t} : reader'[u] = reader[u]
<1>1. CASE \E m : reader' = [reader EXCEPT ![t].pc = s, ![t].map = m]
  BY <1>1, Zenon
<1>2. CASE \E p : reader' = [reader EXCEPT ![t].pc = s, ![t].packet = p]
  BY <1>2, Zenon
<1>3. CASE reader' = [reader EXCEPT ![t].pc = s]
  BY <1>3, Zenon
<1> QED
  BY <1>1, <1>2, <1>3

LEMMA StrandInit == Init => StrandInv
<1> SUFFICES ASSUME Init PROVE StrandInv
  OBVIOUS
<1>1. tokens \in Nat /\ readQueue = <<>>
  BY DEF Init
<1>2. DOMAIN reader = Readers
  BY Zenon DEF Init
<1>3. \A t \in Readers : DOMAIN reader[t] = {"pc", "map", "packet"}
  BY Zenon DEF Init
<1> QED
  BY <1>1, <1>2, <1>3 DEF StrandInv, ReaderShape, NoPacketStranded

LEMMA StrandNext == StrandInv /\ [Next]_vars => StrandInv'
<1> SUFFICES ASSUME StrandInv, [Next]_vars PROVE StrandInv'
  OBVIOUS
<1> DEFINE Same == UNCHANGED <<readQueue, closed, tokens, command, reader>>
<1>s. ASSUME Same PROVE StrandInv'
  BY <1>s DEF StrandInv, ReaderShape, NoPacketStranded
<1>r. DOMAIN reader = Readers /\ \A u \in Readers : DOMAIN reader[u] = {"pc", "map", "packet"}
  BY DEF StrandInv, ReaderShape
<1>1. CASE \E rekey, cut \in BOOLEAN : ClientSend(rekey, cut)
  <2>1. PICK rekey, cut \in BOOLEAN : ClientSend(rekey, cut)
    BY <1>1
  <2> QED
    BY <2>1, <1>s, Zenon DEF ClientSend, conn
<1>2. CASE Join
  BY <1>2, <1>s, Zenon DEF Join, input
<1>3. CASE CommandTake
  BY <1>3 DEF CommandTake, commandElse, StrandInv, ReaderShape, NoPacketStranded
<1>4. CASE CommandToken
  BY <1>4 DEF CommandToken, commandElse, StrandInv, ReaderShape, NoPacketStranded
<1>5. ASSUME NEW t \in Readers, ReaderEnter(t) PROVE StrandInv'
  <2>1. tokens' \in Nat
    BY <1>5 DEF ReaderEnter, StrandInv, ReaderShape
  <2>2. ReaderShape' /\ reader'[t].pc = "pop"
    BY <1>5, <1>r, <2>1, ReaderMoves, Zenon DEF ReaderEnter, ReaderShape
  <2> QED
    BY <2>2, Zenon DEF StrandInv, NoPacketStranded
<1>6. ASSUME NEW t \in Readers, ReaderPop(t) PROVE StrandInv'
  <2>1. tokens' \in Nat /\ closed' = closed
    BY <1>6 DEF ReaderPop, StrandInv, ReaderShape
  <2>2. CASE closed \/ readQueue = <<>>
    <3>1. reader' = [reader EXCEPT ![t].pc = "leave"] /\ readQueue' = readQueue
      BY <1>6, <2>2, Zenon DEF ReaderPop
    <3>2. ReaderShape'
      BY <3>1, <1>r, <2>1, ReaderMoves, Zenon DEF ReaderShape
    <3> QED
      BY <2>1, <2>2, <3>1, <3>2, Zenon DEF StrandInv, NoPacketStranded
  <2>3. CASE ~(closed \/ readQueue = <<>>)
    <3>1. reader' = [reader EXCEPT ![t].pc = "decrypt", ![t].packet = Head(readQueue)]
      BY <1>6, <2>3, Zenon DEF ReaderPop
    <3>2. ReaderShape' /\ reader'[t].pc = "decrypt"
      BY <3>1, <1>r, <2>1, ReaderMoves, Zenon DEF ReaderShape
    <3> QED
      BY <3>2, Zenon DEF StrandInv, NoPacketStranded
  <2> QED
    BY <2>2, <2>3
<1>7. ASSUME NEW t \in Readers, ReaderDecrypt(t) PROVE StrandInv'
  <2>1. tokens' \in Nat
    BY <1>7, Zenon DEF ReaderDecrypt, StrandInv, ReaderShape
  <2>2. reader' = [reader EXCEPT ![t].pc = "pop", ![t].packet = None]
    BY <1>7, Zenon DEF ReaderDecrypt
  <2>3. ReaderShape' /\ reader'[t].pc = "pop"
    BY <2>2, <1>r, <2>1, ReaderMoves, Zenon DEF ReaderShape
  <2> QED
    BY <2>3, Zenon DEF StrandInv, NoPacketStranded
<1>8. ASSUME NEW t \in Readers, ReaderLeave(t) PROVE StrandInv'
  <2>1. /\ reader[t].pc = "leave" /\ tokens' \in Nat
        /\ UNCHANGED <<readQueue, closed, tokens, command>>
    BY <1>8, Zenon DEF ReaderLeave, readerElse, input, StrandInv, ReaderShape
  <2>2. /\ ReaderShape'
        /\ \A u \in Readers \ {t} : reader'[u] = reader[u]
    BY <1>8, <1>r, <2>1, ReaderMoves, Zenon DEF ReaderLeave, ReaderShape
  <2>3. \A u \in Readers : reader[u].pc \in {"pop", "decrypt"} => reader'[u] = reader[u]
    BY <2>1, <2>2
  <2> QED
    BY <2>1, <2>2, <2>3 DEF StrandInv, NoPacketStranded
<1>9. ASSUME NEW t \in Parsers, ParserStep(t) PROVE StrandInv'
  <2>1. UNCHANGED <<input, conn>>
    BY <1>9, Zenon DEF ParserStep, ParserEnter, ParserProcess, ParserWrite, parserElse
  <2> QED
    BY <2>1, <1>s DEF input, conn
<1>10. ASSUME NEW t \in Writers, WriterStep(t) PROVE StrandInv'
  <2>1. UNCHANGED <<input, conn>>
    BY <1>10, Zenon DEF WriterStep, WriterEnter, WriterRekey, WriterEncrypt, WriterSend, writerElse
  <2> QED
    BY <2>1, <1>s DEF input, conn
<1>11. CASE UNCHANGED vars
  BY <1>11, <1>s DEF vars, input, conn
<1> QED
  BY <1>1, <1>2, <1>3, <1>4, <1>5, <1>6, <1>7, <1>8, <1>9, <1>10, <1>11, Zenon
     DEF Next, CommandStep, ReaderStep

(* For any pools, and copies of the connection map at any moment: a packet
   that commandThread put into the queue of a connection always has a token,
   the command thread about to queue one, or a reader that will look at the
   queue again (WebSocketServer::commandThread and clientInterruptThread). *)
THEOREM PacketsNotStranded == Spec => []NoPacketStranded
<1>1. StrandInv => NoPacketStranded
  BY DEF StrandInv
<1> QED
  BY StrandInit, StrandNext, <1>1, PTL DEF Spec

-----------------------------------------------------------------------------
(* Replies arrive in order *)

ClientFields == {"sent", "in", "out", "read", "lost"}
WriterFields == {"pc", "msg", "packet"}
ParserFields == {"pc", "payload", "result"}

(* No reply carries the number that stands for a rekey: replies are numbered
   by registration and commands. *)
RepliesNamed ==
    /\ lastValid \in Nat
    /\ RekeyMsg \notin msgQueue
    /\ DOMAIN parser = Parsers
    /\ \A t \in Parsers : /\ DOMAIN parser[t] = ParserFields
                          /\ parser[t].result # RekeyMsg

(* writeLock_ keeps the write threads apart. *)
WritersApart ==
    /\ DOMAIN writer = Writers
    /\ \A t \in Writers : DOMAIN writer[t] = WriterFields
    /\ \A t \in Writers : writer[t].pc # "idle" => writeLock
    /\ \A t, u \in Writers :
           writer[t].pc # "idle" /\ writer[u].pc # "idle" => t = u
    /\ \A t \in Writers : writer[t].pc # "idle" => writer[t].msg # RekeyMsg

(* The two sessions of the direction agree, or differ by the one packet that
   is encrypted and not yet sent. *)
SessionsAgree ==
    /\ DOMAIN client = ClientFields
    /\ (\A t \in Writers : writer[t].pc # "send") => outSes = client.in
    /\ \A t \in Writers : writer[t].pc = "send" =>
           /\ writer[t].packet = Data(client.in, writer[t].msg, 1)
           /\ outSes = Counted(client.in)

WriteInv == RepliesNamed /\ WritersApart /\ SessionsAgree /\ RepliesInOrder

LEMMA WriteInit == Init => WriteInv
<1> SUFFICES ASSUME Init PROVE WriteInv
  OBVIOUS
<1>1. RepliesNamed
  <2>1. lastValid \in Nat /\ RekeyMsg \notin msgQueue
    BY DEF Init
  <2>2. 0 # RekeyMsg
    BY DEF RekeyMsg
  <2> QED
    BY <2>1, <2>2, Zenon DEF Init, RepliesNamed, ParserFields
<1>2. WritersApart
  BY Zenon DEF Init, WritersApart, WriterFields
<1>3. SessionsAgree
  <2>1. \A t \in Writers : writer[t].pc # "send"
    BY Zenon DEF Init
  <2> QED
    BY <2>1, Zenon DEF Init, SessionsAgree, ClientFields
<1>4. RepliesInOrder
  BY Zenon DEF Init, RepliesInOrder
<1> QED
  BY <1>1, <1>2, <1>3, <1>4 DEF WriteInv

(* What the client makes of a packet encrypted by a session equal to its own. *)
LEMMA ReadCounts ==
    ASSUME DOMAIN client = ClientFields, ~client.lost,
           NEW m, NEW p, p = Data(client.in, m, 1)
    PROVE  /\ DOMAIN Read(p) = ClientFields
           /\ ~Read(p).lost
           /\ m = RekeyMsg => Read(p).in = Rekeyed(Counted(client.in))
           /\ m # RekeyMsg => Read(p).in = Counted(client.in)
<1>1. p.key = client.in.key /\ p.seq = client.in.seq /\ p.msg = m
  BY Zenon DEF Data
<1>2. Decrypts(client.in, p)
  BY <1>1, Zenon DEF Decrypts
<1>3. CASE m = RekeyMsg
  <2>1. Read(p) = [client EXCEPT !.in = Rekeyed(Counted(client.in))]
    BY <1>1, <1>2, <1>3, Zenon DEF Read
  <2> QED
    BY <1>3, <2>1, Zenon DEF ClientFields
<1>4. CASE m # RekeyMsg
  <2>1. Read(p) = [client EXCEPT !.in = Counted(client.in), !.read = client.read \cup {p.msg}]
    BY <1>1, <1>2, <1>4, Zenon DEF Read
  <2> QED
    BY <1>4, <2>1, Zenon DEF ClientFields
<1> QED
  BY <1>3, <1>4

(* Writers, sessions and the client are left alone by everybody else. *)
LEMMA OthersKeepWriteSide ==
    ASSUME WriteInv, RepliesNamed', UNCHANGED <<writer, writeLock, outSes>>,
           DOMAIN client' = ClientFields, client'.in = client.in,
           client'.lost = client.lost
    PROVE  WriteInv'
<1>1. WritersApart'
  BY Zenon DEF WriteInv, WritersApart
<1>2. SessionsAgree'
  BY Zenon DEF WriteInv, SessionsAgree
<1>3. RepliesInOrder'
  BY Zenon DEF WriteInv, RepliesInOrder
<1> QED
  BY <1>1, <1>2, <1>3 DEF WriteInv

(* Replies are named after what ran. *)
LEMMA ParserNames ==
    ASSUME RepliesNamed, NEW t \in Parsers, ParserStep(t)
    PROVE  RepliesNamed'
<1>0. \A n \in Nat : n # RekeyMsg /\ n + 1 \in Nat
  BY DEF RekeyMsg
<1>1. CASE ParserEnter(t)
  <2>1. lastValid' = lastValid /\ msgQueue' = msgQueue
    BY <1>1, Zenon DEF ParserEnter
  <2>2. \E pl : parser' = [parser EXCEPT ![t].pc = "process", ![t].payload = pl]
    BY <1>1, Zenon DEF ParserEnter
  <2>3. PICK pl : parser' = [parser EXCEPT ![t].pc = "process", ![t].payload = pl]
    BY <2>2
  <2> QED
    BY <2>1, <2>3, Zenon DEF RepliesNamed, ParserFields
<1>2. CASE ParserProcess(t)
  <2>1. lastValid' \in Nat /\ msgQueue' = msgQueue
    BY <1>0, <1>2, Zenon DEF ParserProcess, RepliesNamed
  <2>2. \E n \in Nat, s \in {"write", "idle"} :
           parser' = [parser EXCEPT ![t] = [pc |-> s, payload |-> NoData, result |-> n]]
    <3>1. 0 \in Nat /\ lastValid + 1 \in Nat
      BY <1>0 DEF RepliesNamed
    <3>2. CASE Runs(parser[t].payload)
      BY <1>2, <3>1, <3>2, Zenon DEF ParserProcess
    <3>3. CASE ~Runs(parser[t].payload)
      BY <1>2, <3>1, <3>3, Zenon DEF ParserProcess
    <3> QED
      BY <3>2, <3>3
  <2>3. PICK n \in Nat, s \in {"write", "idle"} :
           parser' = [parser EXCEPT ![t] = [pc |-> s, payload |-> NoData, result |-> n]]
    BY <2>2
  <2>4. n # RekeyMsg
    BY <1>0
  <2> QED
    BY <2>1, <2>3, <2>4, Zenon DEF RepliesNamed, ParserFields
<1>3. CASE ParserWrite(t)
  <2>1. lastValid' = lastValid /\ msgQueue' = msgQueue \cup {parser[t].result}
    BY <1>3, Zenon DEF ParserWrite
  <2>2. parser' = [parser EXCEPT ![t].pc = "idle", ![t].result = 0] /\ 0 # RekeyMsg
    BY <1>3, <1>0, Zenon DEF ParserWrite
  <2> QED
    BY <2>1, <2>2, Zenon DEF RepliesNamed, ParserFields
<1> QED
  BY <1>1, <1>2, <1>3 DEF ParserStep

(* A reader only queues a reply for a packet that is no rekey. *)
LEMMA ReaderNames ==
    ASSUME RepliesNamed, NEW t \in Readers, ReaderStep(t)
    PROVE  RepliesNamed'
<1>1. lastValid' = lastValid /\ parser' = parser
  BY Zenon DEF ReaderStep, ReaderEnter, ReaderPop, ReaderDecrypt, ReaderLeave,
               readerElse, viewers
<1>2. RekeyMsg \notin msgQueue'
  <2>1. CASE ReaderDecrypt(t)
    <3> DEFINE p == Joined(leftOver[reader[t].map], reader[t].packet)
    <3>1. Accept(p) \/ msgQueue' = msgQueue
      BY <2>1, Zenon DEF ReaderDecrypt
    <3>2. ASSUME Accept(p) PROVE RekeyMsg \notin msgQueue'
      BY <3>2, Zenon DEF Accept, RepliesNamed
    <3> QED
      BY <3>1, <3>2, Zenon DEF RepliesNamed
  <2>2. CASE ~ReaderDecrypt(t)
    BY <2>2, Zenon DEF ReaderStep, ReaderEnter, ReaderPop, ReaderLeave, RepliesNamed
  <2> QED
    BY <2>1, <2>2
<1> QED
  BY <1>1, <1>2, Zenon DEF RepliesNamed

LEMMA WriteNext == WriteInv /\ [Next]_vars => WriteInv'
<1> SUFFICES ASSUME WriteInv, [Next]_vars PROVE WriteInv'
  OBVIOUS
<1>c. DOMAIN client = ClientFields /\ ~client.lost
  BY DEF WriteInv, SessionsAgree, RepliesInOrder
<1>n. ASSUME UNCHANGED <<lastValid, parser>>, msgQueue' \subseteq msgQueue
      PROVE  RepliesNamed'
  BY <1>n, Zenon DEF WriteInv, RepliesNamed
<1>1. ASSUME NEW rekey \in BOOLEAN, NEW cut \in BOOLEAN, ClientSend(rekey, cut)
      PROVE  WriteInv'
  <2>1. \E a, b : client' = [client EXCEPT !.sent = a, !.out = b]
    BY <1>1, Zenon DEF ClientSend
  <2>2. /\ DOMAIN client' = ClientFields /\ client'.in = client.in
        /\ client'.lost = client.lost
    BY <2>1, <1>c, Zenon DEF ClientFields
  <2>3. UNCHANGED <<viewers, msgQueue, output>>
    BY <1>1, Zenon DEF ClientSend
  <2>4. UNCHANGED <<lastValid, parser, msgQueue, writer, writeLock, outSes>>
    BY <2>3, Zenon DEF viewers, output
  <2>5. RepliesNamed'
    BY <2>4, <1>n
  <2> QED
    BY <2>2, <2>4, <2>5, OthersKeepWriteSide
<1>2. ASSUME UNCHANGED <<client, viewers, msgQueue, output>> PROVE WriteInv'
  <2>1. UNCHANGED <<client, lastValid, parser, msgQueue, writer, writeLock, outSes>>
    BY <1>2, Zenon DEF viewers, output
  <2>2. RepliesNamed'
    BY <2>1, <1>n
  <2> QED
    BY <2>1, <2>2, <1>c, OthersKeepWriteSide
<1>3. CASE Join
  BY <1>3, <1>2, Zenon DEF Join
<1>4. CASE CommandStep
  BY <1>4, <1>2, Zenon DEF CommandStep, CommandTake, CommandToken, commandElse
<1>5. ASSUME NEW t \in Readers, ReaderStep(t) PROVE WriteInv'
  <2>1. RepliesNamed'
    BY <1>5, ReaderNames DEF WriteInv
  <2>2. UNCHANGED <<client, output>>
    BY <1>5, Zenon DEF ReaderStep, ReaderEnter, ReaderPop, ReaderDecrypt,
                       ReaderLeave, readerElse
  <2> QED
    BY <2>1, <2>2, <1>c, OthersKeepWriteSide DEF output
<1>6. ASSUME NEW t \in Parsers, ParserStep(t) PROVE WriteInv'
  <2>1. RepliesNamed'
    BY <1>6, ParserNames DEF WriteInv
  <2>2. UNCHANGED <<client, output>>
    BY <1>6, Zenon DEF ParserStep, ParserEnter, ParserProcess, ParserWrite, parserElse
  <2> QED
    BY <2>1, <2>2, <1>c, OthersKeepWriteSide DEF output
<1>7. ASSUME NEW t \in Writers, WriterEnter(t) PROVE WriteInv'
  <2>1. PICK m \in msgQueue :
           /\ msgQueue' = msgQueue \ {m}
           /\ writer' = [writer EXCEPT ![t].pc = "encrypt", ![t].msg = m]
    BY <1>7, Zenon DEF WriterEnter
  <2>2. /\ UNCHANGED <<outSes, client, lastValid, parser>>
        /\ writeLock' /\ ~writeLock /\ writer[t].pc = "idle"
    BY <1>7, Zenon DEF WriterEnter, writerElse, viewers
  <2>3. RepliesNamed'
    BY <2>1, <2>2, <1>n, Zenon
  <2>4. m # RekeyMsg
    BY <2>1, Zenon DEF WriteInv, RepliesNamed
  <2>5. /\ DOMAIN writer = Writers
        /\ \A u \in Writers : DOMAIN writer[u] = WriterFields /\ writer[u].pc = "idle"
    BY <2>2, Zenon DEF WriteInv, WritersApart
  <2>6. /\ DOMAIN writer' = Writers
        /\ \A u \in Writers : DOMAIN writer'[u] = WriterFields
        /\ \A u \in Writers \ {t} : writer'[u].pc = "idle"
        /\ writer'[t].pc = "encrypt" /\ writer'[t].msg = m
    BY <2>1, <2>5, Zenon DEF WriterFields
  <2>7. WritersApart'
    BY <2>2, <2>4, <2>6, Zenon DEF WritersApart
  <2>8. outSes = client.in
    BY <2>5, Zenon DEF WriteInv, SessionsAgree
  <2>9. SessionsAgree'
    BY <2>2, <2>6, <2>8, <1>c, Zenon DEF SessionsAgree
  <2> QED
    BY <2>2, <2>3, <2>7, <2>9 DEF WriteInv, RepliesInOrder
<1>8. ASSUME NEW t \in Writers, WriterRekey(t) PROVE WriteInv'
  <2>1. /\ writer[t].pc = "encrypt"
        /\ client' = Read(RekeyPacket(outSes))
        /\ outSes' = Rekeyed(Counted(outSes))
        /\ UNCHANGED <<msgQueue, writeLock, writer, lastValid, parser>>
    BY <1>8, Zenon DEF WriterRekey, writerElse, viewers
  <2>2. \A u \in Writers : writer[u].pc # "send"
    <3>1. \A u \in Writers : writer[u].pc = "idle" \/ u = t
      BY <2>1, Zenon DEF WriteInv, WritersApart
    <3> QED
      BY <2>1, <3>1
  <2>3. outSes = client.in
    BY <2>2, Zenon DEF WriteInv, SessionsAgree
  <2>4. /\ DOMAIN client' = ClientFields /\ ~client'.lost
        /\ client'.in = Rekeyed(Counted(client.in))
    BY <2>1, <2>3, <1>c, ReadCounts, Zenon DEF RekeyPacket
  <2>5. RepliesNamed'
    BY <2>1, <1>n
  <2>6. WritersApart'
    BY <2>1, Zenon DEF WriteInv, WritersApart
  <2>7. SessionsAgree'
    BY <2>1, <2>2, <2>3, <2>4, Zenon DEF SessionsAgree
  <2> QED
    BY <2>4, <2>5, <2>6, <2>7 DEF WriteInv, RepliesInOrder
<1>9. ASSUME NEW t \in Writers, WriterEncrypt(t) PROVE WriteInv'
  <2>1. /\ writer[t].pc = "encrypt"
        /\ writer' = [writer EXCEPT ![t].pc = "send",
                                    ![t].packet = Data(outSes, writer[t].msg, 1)]
        /\ outSes' = Counted(outSes)
        /\ UNCHANGED <<msgQueue, writeLock, client, lastValid, parser>>
    BY <1>9, Zenon DEF WriterEncrypt, writerElse, viewers
  <2>2. /\ DOMAIN writer = Writers
        /\ \A u \in Writers : DOMAIN writer[u] = WriterFields
        /\ \A u \in Writers \ {t} : writer[u].pc = "idle"
        /\ writeLock /\ writer[t].msg # RekeyMsg
    BY <2>1, Zenon DEF WriteInv, WritersApart
  <2>3. \A u \in Writers : writer[u].pc # "send"
    BY <2>1, <2>2
  <2>4. outSes = client.in
    BY <2>3, Zenon DEF WriteInv, SessionsAgree
  <2>5. /\ DOMAIN writer' = Writers
        /\ \A u \in Writers : DOMAIN writer'[u] = WriterFields
        /\ \A u \in Writers \ {t} : writer'[u].pc = "idle"
        /\ writer'[t].pc = "send" /\ writer'[t].msg = writer[t].msg
        /\ writer'[t].packet = Data(outSes, writer[t].msg, 1)
    BY <2>1, <2>2, Zenon DEF WriterFields
  <2>6. RepliesNamed'
    BY <2>1, <1>n
  <2>7. WritersApart'
    BY <2>1, <2>2, <2>5, Zenon DEF WritersApart
  <2>8. \A u \in Writers : writer'[u].pc = "send" => u = t
    BY <2>5
  <2>9. SessionsAgree'
    BY <2>1, <2>4, <2>5, <2>8, <1>c, Zenon DEF SessionsAgree
  <2> QED
    BY <2>1, <2>6, <2>7, <2>9 DEF WriteInv, RepliesInOrder
<1>10. ASSUME NEW t \in Writers, WriterSend(t) PROVE WriteInv'
  <2>1. /\ writer[t].pc = "send"
        /\ client' = Read(writer[t].packet)
        /\ writer' = [writer EXCEPT ![t] = [pc |-> "idle", msg |-> 0, packet |-> None]]
        /\ UNCHANGED <<msgQueue, outSes, lastValid, parser>>
    BY <1>10, Zenon DEF WriterSend, writerElse, viewers
  <2>2. /\ DOMAIN writer = Writers
        /\ \A u \in Writers : DOMAIN writer[u] = WriterFields
        /\ \A u \in Writers \ {t} : writer[u].pc = "idle"
        /\ writer[t].msg # RekeyMsg
    BY <2>1, Zenon DEF WriteInv, WritersApart
  <2>3. /\ writer[t].packet = Data(client.in, writer[t].msg, 1)
        /\ outSes = Counted(client.in)
    BY <2>1, Zenon DEF WriteInv, SessionsAgree
  <2>4. /\ DOMAIN client' = ClientFields /\ ~client'.lost
        /\ client'.in = Counted(client.in)
    BY <2>1, <2>2, <2>3, <1>c, ReadCounts, Zenon
  <2>5. /\ DOMAIN writer' = Writers
        /\ \A u \in Writers : DOMAIN writer'[u] = WriterFields
        /\ \A u \in Writers : writer'[u].pc = "idle"
    BY <2>1, <2>2, Zenon DEF WriterFields
  <2>6. RepliesNamed'
    BY <2>1, <1>n
  <2>7. WritersApart'
    BY <2>5, Zenon DEF WritersApart
  <2>8. SessionsAgree'
    BY <2>1, <2>3, <2>4, <2>5, Zenon DEF SessionsAgree
  <2> QED
    BY <2>4, <2>6, <2>7, <2>8 DEF WriteInv, RepliesInOrder
<1>11. CASE UNCHANGED vars
  BY <1>11, <1>2 DEF vars
<1> QED
  BY <1>1, <1>3, <1>4, <1>5, <1>6, <1>7, <1>8, <1>9, <1>10, <1>11, Zenon
     DEF Next, WriterStep

(* For any number of write threads, replies and rekeys, and whatever reaches
   the server: the client decrypts everything the server sends it.  The thread
   that holds writeLock_ decides on the rekey, encrypts and sends before it
   lets go (prepareWriteThread), so the client's session is never more than the
   packet in that thread's hands behind. *)
THEOREM RepliesDecrypt == Spec => []RepliesInOrder
<1>1. WriteInv => RepliesInOrder
  BY DEF WriteInv
<1> QED
  BY WriteInit, WriteNext, <1>1, PTL DEF Spec

-----------------------------------------------------------------------------
(* Trains of packets *)

(* Two parts of one packet. *)
Halves(p, q) == p.part = "head" /\ q = [p EXCEPT !.part = "tail"]

(* q is encrypted in the session p leaves behind: a head is no packet yet, and a
   rekey changes the key behind itself. *)
NextSeq(p) == IF p.part = "head" THEN p.seq ELSE p.seq + 1
NextKey(p) == IF p.part # "head" /\ p.msg = RekeyMsg THEN p.key + 1 ELSE p.key
After(p) == [key |-> NextKey(p), seq |-> NextSeq(p)]

(* V is what a session leaves on the wire on its way from a to b: packets in
   the order of their encryption, the two parts of one next to each other. *)
Train(V, a, b) ==
    /\ V \in Seq(Packet) /\ a \in Session /\ b \in Session
    /\ V = <<>> => a = b
    /\ V # <<>> => Decrypts(a, V[1]) /\ b = After(V[Len(V)])
    /\ \A i \in 1 .. Len(V) - 1 : Decrypts(After(V[i]), V[i + 1])
    /\ \A i \in 1 .. Len(V) : V[i].part = "head" => i < Len(V) /\ Halves(V[i], V[i + 1])
    /\ \A i \in 1 .. Len(V) : V[i].part = "tail" => i > 1 /\ Halves(V[i - 1], V[i])

LEMMA PacketParts ==
    ASSUME NEW p \in Packet
    PROVE  /\ p.key \in Nat /\ p.seq \in Nat /\ p.part \in {"whole", "head", "tail"}
           /\ p # None /\ After(p) \in Session
           /\ After(p).key = NextKey(p) /\ After(p).seq = NextSeq(p)
<1>1. p.key \in Nat /\ p.seq \in Nat /\ p.part \in {"whole", "head", "tail"}
  BY Zenon DEF Packet
<1>2. p # None
  <2>1. DOMAIN p = {"key", "seq", "msg", "frag", "part"}
    BY Zenon DEF Packet
  <2>2. DOMAIN None = {"msg"}
    BY Zenon DEF None
  <2> QED
    BY <2>1, <2>2
<1>3. NextKey(p) \in Nat /\ NextSeq(p) \in Nat
  BY <1>1 DEF NextKey, NextSeq
<1> QED
  BY <1>1, <1>2, <1>3 DEF After, Session

LEMMA TrainJoin ==
    ASSUME NEW V, NEW W, NEW a, NEW b, NEW c, Train(V, a, b), Train(W, b, c)
    PROVE  Train(V \o W, a, c)
<1>1. CASE V = <<>>
  <2>1. V \o W = W /\ a = b
    BY <1>1, ConcatEmptySeq DEF Train
  <2> QED
    BY <2>1
<1>2. CASE W = <<>>
  <2>1. V \o W = V /\ c = b
    BY <1>2, ConcatEmptySeq DEF Train
  <2> QED
    BY <2>1
<1>3. CASE V # <<>> /\ W # <<>>
  <2> DEFINE X == V \o W
             n == Len(V)
             m == Len(W)
  <2>1. /\ V \in Seq(Packet) /\ W \in Seq(Packet) /\ a \in Session /\ c \in Session
        /\ Decrypts(a, V[1]) /\ b = After(V[n])
        /\ Decrypts(b, W[1]) /\ c = After(W[m])
    BY <1>3 DEF Train
  <2>2. n \in Nat /\ m \in Nat /\ n > 0 /\ m > 0
    BY <1>3, <2>1, EmptySeq, LenProperties
  <2>3. /\ X \in Seq(Packet) /\ Len(X) = n + m
        /\ \A i \in 1 .. n : X[i] = V[i]
        /\ \A i \in 1 .. m : X[n + i] = W[i]
    BY <2>1, <2>2, ConcatProperties
  <2>4. X # <<>> /\ Decrypts(a, X[1]) /\ c = After(X[Len(X)])
    BY <2>1, <2>2, <2>3
  <2>5. ASSUME NEW i \in 1 .. Len(X) - 1 PROVE Decrypts(After(X[i]), X[i + 1])
    <3>1. CASE i < n
      <4>1. i \in 1 .. n - 1 /\ X[i] = V[i] /\ X[i + 1] = V[i + 1]
        BY <2>2, <2>3, <3>1
      <4> QED
        BY <4>1 DEF Train
    <3>2. CASE i = n
      <4>1. X[i] = V[n] /\ X[i + 1] = W[1]
        BY <2>2, <2>3, <3>2
      <4> QED
        BY <2>1, <4>1
    <3>3. CASE i > n
      <4>1. i - n \in 1 .. m - 1 /\ X[i] = W[i - n] /\ X[i + 1] = W[(i - n) + 1]
        <5>1. i - n \in 1 .. m /\ (i - n) + 1 \in 1 .. m /\ n + (i - n) = i
              /\ n + ((i - n) + 1) = i + 1
          BY <2>2, <2>3, <3>3
        <5> HIDE DEF X, n, m
        <5> QED
          BY <5>1, <2>2, <2>3
      <4> QED
        BY <4>1 DEF Train
    <3> QED
      BY <2>2, <2>3, <3>1, <3>2, <3>3
  <2>6. ASSUME NEW i \in 1 .. Len(X), X[i].part = "head"
        PROVE  i < Len(X) /\ Halves(X[i], X[i + 1])
    <3>1. CASE i <= n
      <4>1. i \in 1 .. n /\ X[i] = V[i]
        BY <2>2, <2>3, <3>1
      <4>2. i < n /\ Halves(V[i], V[i + 1])
        BY <4>1, <2>6 DEF Train
      <4> QED
        BY <4>1, <4>2, <2>2, <2>3
    <3>2. CASE i > n
      <4>1. i - n \in 1 .. m /\ X[i] = W[i - n]
        <5>1. i - n \in 1 .. m /\ n + (i - n) = i
          BY <2>2, <2>3, <3>2
        <5> HIDE DEF X, n, m
        <5> QED
          BY <5>1, <2>3
      <4>2. i - n < m /\ Halves(W[i - n], W[(i - n) + 1])
        BY <4>1, <2>6 DEF Train
      <4>3. (i - n) + 1 \in 1 .. m /\ n + ((i - n) + 1) = i + 1 /\ i < n + m
        BY <4>2, <2>2, <2>3, <3>2
      <4>4. X[i + 1] = W[(i - n) + 1]
        <5> HIDE DEF X, n, m
        <5> QED
          BY <4>3, <2>3
      <4> QED
        BY <4>1, <4>2, <4>3, <4>4, <2>3
    <3> QED
      BY <2>2, <2>3, <3>1, <3>2
  <2>7. ASSUME NEW i \in 1 .. Len(X), X[i].part = "tail"
        PROVE  i > 1 /\ Halves(X[i - 1], X[i])
    <3>1. CASE i <= n
      <4>1. i \in 1 .. n /\ X[i] = V[i]
        BY <2>2, <2>3, <3>1
      <4>2. i > 1 /\ Halves(V[i - 1], V[i])
        BY <4>1, <2>7 DEF Train
      <4> QED
        BY <4>1, <4>2, <2>2, <2>3
    <3>2. CASE i > n
      <4>1. i - n \in 1 .. m /\ X[i] = W[i - n]
        <5>1. i - n \in 1 .. m /\ n + (i - n) = i
          BY <2>2, <2>3, <3>2
        <5> HIDE DEF X, n, m
        <5> QED
          BY <5>1, <2>3
      <4>2. i - n > 1 /\ Halves(W[(i - n) - 1], W[i - n])
        BY <4>1, <2>7 DEF Train
      <4>3. (i - n) - 1 \in 1 .. m /\ n + ((i - n) - 1) = i - 1 /\ i > 1
        BY <4>2, <2>2, <2>3, <3>2
      <4>4. X[i - 1] = W[(i - n) - 1]
        <5> HIDE DEF X, n, m
        <5> QED
          BY <4>3, <2>3
      <4> QED
        BY <4>1, <4>2, <4>3, <4>4
    <3> QED
      BY <2>2, <2>3, <3>1, <3>2
  <2> HIDE DEF X
  <2>8. Train(X, a, c)
    BY <2>1, <2>3, <2>4, <2>5, <2>6, <2>7 DEF Train
  <2> QED
    BY <2>8 DEF X
<1> QED
  BY <1>1, <1>2, <1>3

LEMMA SessionFields ==
    ASSUME NEW s \in Session, NEW n \in Nat
    PROVE  /\ s.key \in Nat /\ s.seq \in Nat
           /\ [s EXCEPT !.seq = n] \in Session /\ [s EXCEPT !.key = n] \in Session
           /\ [s EXCEPT !.seq = n].key = s.key /\ [s EXCEPT !.seq = n].seq = n
           /\ [s EXCEPT !.key = n].key = n /\ [s EXCEPT !.key = n].seq = s.seq
<1>1. s.key \in Nat /\ s.seq \in Nat /\ DOMAIN s = {"key", "seq"}
  BY Zenon DEF Session
<1>2. [s EXCEPT !.seq = n] \in Session /\ [s EXCEPT !.key = n] \in Session
  BY <1>1, Zenon DEF Session
<1> QED
  BY <1>1, <1>2, Zenon

LEMMA SessionSteps ==
    ASSUME NEW s \in Session
    PROVE  /\ s.key \in Nat /\ s.seq \in Nat
           /\ Counted(s) \in Session /\ Counted(s).key = s.key /\ Counted(s).seq = s.seq + 1
           /\ Rekeyed(s) \in Session /\ Rekeyed(s).key = s.key + 1 /\ Rekeyed(s).seq = s.seq
<1>1. s.key \in Nat /\ s.seq \in Nat
  BY Zenon DEF Session
<1>2. s.key + 1 \in Nat /\ s.seq + 1 \in Nat
  BY <1>1
<1>3. Counted(s) \in Session /\ Counted(s).key = s.key /\ Counted(s).seq = s.seq + 1
  BY <1>2, SessionFields, Zenon DEF Counted
<1>4. Rekeyed(s) \in Session /\ Rekeyed(s).key = s.key + 1 /\ Rekeyed(s).seq = s.seq
  BY <1>2, SessionFields, Zenon DEF Rekeyed
<1> QED
  BY <1>1, <1>3, <1>4

LEMMA SessionEqual ==
    ASSUME NEW s \in Session, NEW t \in Session, s.key = t.key, s.seq = t.seq
    PROVE  s = t
BY DEF Session

(* A whole packet, and one delivered in two parts. *)
LEMMA TrainOne ==
    ASSUME NEW p \in Packet, NEW a \in Session, p.part = "whole", Decrypts(a, p)
    PROVE  Train(<<p>>, a, After(p))
<1> DEFINE V == <<p>>
<1>1. V \in Seq(Packet) /\ Len(V) = 1 /\ V[1] = p /\ V # <<>>
  OBVIOUS
<1>2. After(p) \in Session
  BY PacketParts
<1>3. p.part # "head" /\ p.part # "tail"
  OBVIOUS
<1> HIDE DEF V
<1>4. Train(V, a, After(p))
  BY <1>1, <1>2, <1>3 DEF Train
<1> QED
  BY <1>4 DEF V

LEMMA PacketEqual ==
    ASSUME NEW p \in Packet, NEW q \in Packet, p.key = q.key, p.seq = q.seq,
           p.msg = q.msg, p.frag = q.frag, p.part = q.part
    PROVE  p = q
BY DEF Packet

LEMMA CutParts ==
    ASSUME NEW p \in Packet
    PROVE  LET h == [p EXCEPT !.part = "head"]
               t == [p EXCEPT !.part = "tail"]
           IN  /\ h \in Packet /\ t \in Packet
               /\ h.part = "head" /\ t.part = "tail"
               /\ t = [h EXCEPT !.part = "tail"]
               /\ h.key = p.key /\ h.seq = p.seq /\ h.msg = p.msg
               /\ t.key = p.key /\ t.seq = p.seq /\ t.msg = p.msg
<1>1. /\ DOMAIN p = {"key", "seq", "msg", "frag", "part"}
      /\ p.key \in Nat /\ p.seq \in Nat /\ p.msg \in {RekeyMsg, 0} \cup Commands
      /\ p.frag \in Nat
  BY Zenon DEF Packet
<1>2. ASSUME NEW s \in {"whole", "head", "tail"} PROVE [p EXCEPT !.part = s] \in Packet
  BY <1>1, Zenon DEF Packet
<1>3. "head" \in {"whole", "head", "tail"} /\ "tail" \in {"whole", "head", "tail"}
  OBVIOUS
<1>4. [[p EXCEPT !.part = "head"] EXCEPT !.part = "tail"] = [p EXCEPT !.part = "tail"]
  BY <1>1, Zenon
<1> QED
  BY <1>1, <1>2, <1>3, <1>4, Zenon

LEMMA TrainCut ==
    ASSUME NEW p \in Packet, NEW a \in Session, p.part = "whole", Decrypts(a, p)
    PROVE  Train(Cut(p), a, After(p))
<1> DEFINE h == [p EXCEPT !.part = "head"]
           t == [p EXCEPT !.part = "tail"]
           V == <<h, t>>
<1>1. /\ h \in Packet /\ t \in Packet
      /\ h.part = "head" /\ t.part = "tail"
      /\ t = [h EXCEPT !.part = "tail"]
      /\ h.key = p.key /\ h.seq = p.seq /\ h.msg = p.msg
      /\ t.key = p.key /\ t.seq = p.seq /\ t.msg = p.msg
  BY CutParts
<1>2. Cut(p) = V
  BY DEF Cut
<1> HIDE DEF h, t
<1>3. Halves(h, t)
  BY <1>1, Zenon DEF Halves
<1>p. /\ h \in Packet /\ t \in Packet /\ h.part = "head" /\ t.part = "tail"
      /\ h.key = p.key /\ h.seq = p.seq /\ h.msg = p.msg
      /\ t.key = p.key /\ t.seq = p.seq /\ t.msg = p.msg
  BY <1>1, Zenon
<1>4. After(t) = After(p) /\ Decrypts(After(h), t) /\ Decrypts(a, h)
  <2>1. /\ NextKey(t) = NextKey(p) /\ NextSeq(t) = NextSeq(p)
        /\ NextKey(h) = p.key /\ NextSeq(h) = p.seq
    BY <1>p DEF NextKey, NextSeq
  <2>2. After(t) = After(p)
    BY <2>1, Zenon DEF After
  <2>3. After(h).key = p.key /\ After(h).seq = p.seq
    BY <2>1, <1>p, PacketParts
  <2> QED
    BY <2>2, <2>3, <1>p DEF Decrypts
<1>5. V \in Seq(Packet) /\ Len(V) = 2 /\ V[1] = h /\ V[2] = t /\ V # <<>>
  BY <1>p
<1>6. After(p) \in Session
  BY PacketParts
<1> HIDE DEF V
<1>7. Train(V, a, After(p))
  BY <1>p, <1>3, <1>4, <1>5, <1>6 DEF Train
<1> QED
  BY <1>2, <1>7

(* What is at the front of a train. *)
LEMMA TrainFront ==
    ASSUME NEW V, NEW a, NEW b, Train(V, a, b), V # <<>>
    PROVE  /\ V[1] \in Packet /\ V[1].part \in {"whole", "head"} /\ Decrypts(a, V[1])
           /\ V[1].part = "head" => Len(V) > 1 /\ Halves(V[1], V[2])
<1>1. V \in Seq(Packet) /\ Decrypts(a, V[1])
  BY DEF Train
<1>2. Len(V) \in Nat /\ Len(V) > 0
  BY <1>1, EmptySeq, LenProperties
<1>3. V[1] \in Packet /\ 1 \in 1 .. Len(V) /\ 1 + 1 = 2
  BY <1>1, <1>2, ElementOfSeq
<1>4. V[1].part # "tail"
  BY <1>3 DEF Train
<1>5. V[1].part = "head" => 1 < Len(V) /\ Halves(V[1], V[1 + 1])
  BY <1>3 DEF Train
<1> QED
  BY <1>1, <1>2, <1>3, <1>4, <1>5, PacketParts

(* A train is one still behind a whole number of packets. *)
LEMMA TrainRest ==
    ASSUME NEW X \in Seq(Packet), NEW W \in Seq(Packet), NEW a, NEW b,
           Train(X \o W, a, b), X # <<>>, X[Len(X)].part # "head"
    PROVE  Train(W, After(X[Len(X)]), b)
<1> DEFINE V == X \o W
           k == Len(X)
           m == Len(W)
           l == X[Len(X)]
<1>1. k \in Nat /\ m \in Nat /\ k > 0
  BY EmptySeq, LenProperties
<1>2. /\ V \in Seq(Packet) /\ Len(V) = k + m
      /\ \A i \in 1 .. k : V[i] = X[i]
      /\ \A i \in 1 .. m : V[k + i] = W[i]
  BY <1>1, ConcatProperties
<1>3. l = V[k] /\ l \in Packet /\ l.part # "head" /\ k \in 1 .. k + m
  BY <1>1, <1>2, ElementOfSeq
<1> HIDE DEF k, m, l
<1>4. V # <<>> /\ b \in Session /\ b = After(V[k + m])
  <2>1. V # <<>>
    BY <1>1, <1>2
  <2> HIDE DEF V
  <2>2. Train(V, a, b)
    BY DEF V
  <2> QED
    BY <2>1, <2>2, <1>2 DEF Train
<1>t. Train(V, a, b)
  OBVIOUS
<1> HIDE DEF V
<1>5. After(l) \in Session
  BY <1>3, PacketParts
<1>6. ASSUME W = <<>> PROVE After(l) = b
  <2>1. m = 0
    BY <1>6 DEF m
  <2> QED
    BY <2>1, <1>1, <1>3, <1>4
<1>7. ASSUME W # <<>> PROVE Decrypts(After(l), W[1]) /\ b = After(W[m])
  <2>1. m > 0
    BY <1>7, <1>1, EmptySeq DEF m
  <2>2. W[1] = V[k + 1] /\ W[m] = V[k + m] /\ k \in 1 .. (k + m) - 1
    <3>1. 1 \in 1 .. m /\ m \in 1 .. m /\ k \in 1 .. (k + m) - 1
      BY <2>1, <1>1
    <3> QED
      BY <3>1, <1>2
  <2>3. Decrypts(After(V[k]), V[k + 1])
    BY <2>2, <1>t, <1>2 DEF Train
  <2> QED
    BY <2>2, <2>3, <1>3, <1>4
<1>8. ASSUME NEW i \in 1 .. m - 1 PROVE Decrypts(After(W[i]), W[i + 1])
  <2>1. k + i \in 1 .. (k + m) - 1 /\ i + 1 \in 1 .. m /\ i \in 1 .. m
        /\ k + (i + 1) = (k + i) + 1
    BY <1>1
  <2>2. W[i] = V[k + i] /\ W[i + 1] = V[(k + i) + 1]
    BY <2>1, <1>2
  <2> QED
    BY <2>1, <2>2, <1>t, <1>2 DEF Train
<1>9. ASSUME NEW i \in 1 .. m, W[i].part = "head"
      PROVE  i < m /\ Halves(W[i], W[i + 1])
  <2>1. k + i \in 1 .. k + m /\ W[i] = V[k + i]
    BY <1>1, <1>2
  <2>2. k + i < k + m /\ Halves(V[k + i], V[(k + i) + 1])
    BY <2>1, <1>9, <1>t, <1>2 DEF Train
  <2>3. i < m /\ i + 1 \in 1 .. m /\ k + (i + 1) = (k + i) + 1
    BY <2>2, <1>1
  <2>4. W[i + 1] = V[(k + i) + 1]
    BY <2>3, <1>2
  <2> QED
    BY <2>1, <2>2, <2>3, <2>4
<1>10. ASSUME NEW i \in 1 .. m, W[i].part = "tail"
       PROVE  i > 1 /\ Halves(W[i - 1], W[i])
  <2>1. k + i \in 1 .. k + m /\ W[i] = V[k + i]
    BY <1>1, <1>2
  <2>2. Halves(V[(k + i) - 1], V[k + i])
    BY <2>1, <1>10, <1>t, <1>2 DEF Train
  <2>3. i # 1
    <3> SUFFICES ASSUME i = 1 PROVE FALSE
      OBVIOUS
    <3>1. (k + i) - 1 = k
      BY <1>1
    <3> QED
      BY <3>1, <2>2, <1>3 DEF Halves
  <2>4. i > 1 /\ i - 1 \in 1 .. m /\ k + (i - 1) = (k + i) - 1
    BY <2>3, <1>1
  <2>5. W[i - 1] = V[(k + i) - 1]
    BY <2>4, <1>2
  <2> QED
    BY <2>1, <2>2, <2>4, <2>5
<1>11. Train(W, After(l), b)
  BY <1>4, <1>5, <1>6, <1>7, <1>8, <1>9, <1>10 DEF Train, m
<1> QED
  BY <1>11 DEF l

LEMMA TrainEmpty ==
    ASSUME NEW a \in Session
    PROVE  Train(<<>>, a, a)
<1>1. <<>> \in Seq(Packet) /\ Len(<<>>) = 0
  OBVIOUS
<1> QED
  BY <1>1 DEF Train

(* The packets of a command, as its session encrypts them. *)
LEMMA TrainEncrypted ==
    ASSUME NEW ses \in Session, NEW m \in Nat, m <= Len(Fragments)
    PROVE  /\ Encrypted(ses, m) # <<>>
           /\ \A i \in 1 .. Len(Encrypted(ses, m)) : Encrypted(ses, m)[i].part = "whole"
           /\ Train(Encrypted(ses, m), ses, [ses EXCEPT !.seq = @ + Count(m)])
<1> DEFINE n == Count(m)
           S(f) == [ses EXCEPT !.seq = @ + f - 1]
           E == Encrypted(ses, m)
           end == [ses EXCEPT !.seq = @ + n]
<1>1. n \in Nat /\ n > 0 /\ m \in {RekeyMsg, 0} \cup Commands /\ m # RekeyMsg
  BY DispatchAssumption DEF Count, Commands, RekeyMsg
<1>2. ses.key \in Nat /\ ses.seq \in Nat /\ DOMAIN ses = {"key", "seq"}
  BY Zenon DEF Session
<1> HIDE DEF n
<1>3. ASSUME NEW f \in 1 .. n
      PROVE  /\ Data(S(f), m, f) \in Packet /\ Data(S(f), m, f).key = ses.key
             /\ Data(S(f), m, f).seq = ses.seq + f - 1 /\ Data(S(f), m, f).msg = m
             /\ Data(S(f), m, f).part = "whole"
  <2>1. S(f).key = ses.key /\ S(f).seq = ses.seq + f - 1
    BY <1>2, Zenon
  <2>2. f \in Nat /\ ses.seq + f - 1 \in Nat /\ "whole" \in {"whole", "head", "tail"}
    BY <1>1, <1>2
  <2> HIDE DEF S
  <2>3. Data(S(f), m, f) = [key |-> ses.key, seq |-> ses.seq + f - 1, msg |-> m,
                             frag |-> f, part |-> "whole"]
    BY <2>1, Zenon DEF Data
  <2>4. Data(S(f), m, f) \in Packet
    BY <2>2, <2>3, <1>1, <1>2 DEF Packet
  <2> QED
    BY <2>3, <2>4
<1>4. /\ E \in Seq(Packet) /\ Len(E) = n /\ E # <<>>
      /\ \A f \in 1 .. n : E[f] = Data(S(f), m, f)
  <2>1. E = [f \in 1 .. n |-> Data(S(f), m, f)]
    BY Zenon DEF Encrypted, n
  <2> HIDE DEF E, S
  <2>2. E \in [1 .. n -> Packet]
    BY <2>1, <1>3, Zenon
  <2>3. E \in Seq(Packet) /\ Len(E) = n
    BY <2>2, <1>1
  <2> QED
    BY <2>1, <2>3, <1>1
<1> HIDE DEF E, S
<1>5. \A f \in 1 .. n : /\ E[f] \in Packet /\ E[f].key = ses.key /\ E[f].seq = ses.seq + f - 1
                        /\ E[f].msg = m /\ E[f].part = "whole"
  BY <1>3, <1>4, Zenon
<1>6. \A f \in 1 .. n : After(E[f]).key = ses.key /\ After(E[f]).seq = ses.seq + f
  <2> SUFFICES ASSUME NEW f \in 1 .. n
               PROVE  After(E[f]).key = ses.key /\ After(E[f]).seq = ses.seq + f
    OBVIOUS
  <2>1. After(E[f]).key = NextKey(E[f]) /\ After(E[f]).seq = NextSeq(E[f])
    BY <1>5, PacketParts
  <2>2. NextKey(E[f]) = ses.key
    BY <1>1, <1>5 DEF NextKey
  <2>3. NextSeq(E[f]) = ses.seq + f
    BY <1>1, <1>2, <1>5 DEF NextSeq
  <2> QED
    BY <2>1, <2>2, <2>3
<1>7. end \in Session /\ end = After(E[n])
  <2>1. n \in 1 .. n /\ ses.seq + n \in Nat
    BY <1>1, <1>2
  <2>2. end \in Session /\ end.key = ses.key /\ end.seq = ses.seq + n
    BY <2>1, SessionFields
  <2>3. After(E[n]) \in Session
    BY <2>1, <1>5, PacketParts
  <2>4. After(E[n]).key = ses.key /\ After(E[n]).seq = ses.seq + n
    BY <2>1, <1>6
  <2> HIDE DEF end
  <2> QED
    BY <2>2, <2>3, <2>4, SessionEqual
<1> HIDE DEF end
<1>8. Decrypts(ses, E[1])
  BY <1>1, <1>2, <1>5 DEF Decrypts
<1>9. ASSUME NEW i \in 1 .. n - 1 PROVE Decrypts(After(E[i]), E[i + 1])
  <2>1. i \in 1 .. n /\ i + 1 \in 1 .. n
    BY <1>1
  <2> QED
    BY <2>1, <1>2, <1>5, <1>6 DEF Decrypts
<1>10. Train(E, ses, end)
  BY <1>4, <1>5, <1>7, <1>8, <1>9 DEF Train
<1> QED
  BY <1>4, <1>5, <1>10 DEF E, end, n

(* What one turn of the client's write service puts on the wire. *)
LEMMA TrainSent ==
    ASSUME NEW o \in Session, NEW m \in Nat, m <= Len(Fragments),
           NEW rekey \in BOOLEAN, NEW cut \in BOOLEAN
    PROVE  LET ses == IF rekey THEN Rekeyed(Counted(o)) ELSE o
               s   == (IF rekey THEN <<RekeyPacket(o)>> ELSE <<>>) \o Encrypted(ses, m)
           IN  Train(Delivered(s, cut), o, [ses EXCEPT !.seq = @ + Count(m)])
<1> DEFINE ses == IF rekey THEN Rekeyed(Counted(o)) ELSE o
           s   == (IF rekey THEN <<RekeyPacket(o)>> ELSE <<>>) \o Encrypted(ses, m)
           end == [ses EXCEPT !.seq = @ + Count(m)]
<1>1. /\ RekeyPacket(o) \in Packet /\ RekeyPacket(o).part = "whole"
      /\ Decrypts(o, RekeyPacket(o))
      /\ Rekeyed(Counted(o)) \in Session
      /\ After(RekeyPacket(o)) = Rekeyed(Counted(o))
  <2> DEFINE p == RekeyPacket(o)
             c == Counted(o)
  <2>1. o.key \in Nat /\ o.seq \in Nat
    BY SessionSteps
  <2>2. p = [key |-> o.key, seq |-> o.seq, msg |-> RekeyMsg, frag |-> 1, part |-> "whole"]
    BY DEF RekeyPacket, Data
  <2>3. /\ p \in Packet /\ p.part = "whole" /\ p.key = o.key /\ p.seq = o.seq
        /\ p.msg = RekeyMsg
    BY <2>1, <2>2 DEF Packet
  <2>4. c \in Session /\ c.key = o.key /\ c.seq = o.seq + 1
    BY SessionSteps
  <2> HIDE DEF p, c
  <2>5. Rekeyed(c) \in Session /\ Rekeyed(c).key = o.key + 1 /\ Rekeyed(c).seq = o.seq + 1
    BY <2>4, SessionSteps
  <2>6. After(p) \in Session /\ After(p).key = NextKey(p) /\ After(p).seq = NextSeq(p)
    BY <2>3, PacketParts
  <2>7. NextKey(p) = o.key + 1 /\ NextSeq(p) = o.seq + 1
    BY <2>3 DEF NextKey, NextSeq
  <2>8. After(p) = Rekeyed(c)
    BY <2>5, <2>6, <2>7, SessionEqual
  <2>9. Decrypts(o, p)
    BY <2>3 DEF Decrypts
  <2> QED
    BY <2>3, <2>5, <2>8, <2>9 DEF p, c
<1>2. ses \in Session
  BY <1>1
<1> HIDE DEF ses
<1>3. /\ Encrypted(ses, m) # <<>>
      /\ \A i \in 1 .. Len(Encrypted(ses, m)) : Encrypted(ses, m)[i].part = "whole"
      /\ Train(Encrypted(ses, m), ses, end)
  BY <1>2, TrainEncrypted
<1>4. Encrypted(ses, m) \in Seq(Packet)
  BY <1>3, Zenon DEF Train
<1> HIDE DEF end
<1>5. s # <<>> /\ Head(s).part = "whole" /\ Train(s, o, end)
  <2>1. CASE rekey
    <3> DEFINE r == RekeyPacket(o)
               E == Encrypted(ses, m)
    <3>1. ses = Rekeyed(Counted(o)) /\ s = <<r>> \o E
      BY <2>1 DEF ses
    <3>2. Train(<<r>>, o, ses)
      BY <1>1, <3>1, TrainOne
    <3>3. Train(s, o, end)
      BY <3>1, <3>2, <1>3, TrainJoin
    <3>4. r \in Packet /\ E \in Seq(Packet) /\ r.part = "whole"
      BY <1>1, <1>4
    <3> HIDE DEF r, E
    <3>5. <<r>> \o E # <<>> /\ Head(<<r>> \o E) = r
      BY <3>4
    <3> QED
      BY <3>1, <3>3, <3>4, <3>5
  <2>2. CASE ~rekey
    <3> DEFINE E == Encrypted(ses, m)
    <3>1. ses = o /\ s = E
      BY <2>2, <1>4, ConcatEmptySeq DEF ses
    <3>2. E # <<>> /\ E \in Seq(Packet) /\ Train(E, o, end)
      BY <1>3, <1>4, <3>1
    <3>3. \A i \in 1 .. Len(E) : E[i].part = "whole"
      BY <1>3
    <3> HIDE DEF E
    <3>4. Head(E) = E[1] /\ 1 \in 1 .. Len(E)
      BY <3>2, EmptySeq, LenProperties
    <3> HIDE DEF s
    <3> QED
      BY <3>1, <3>2, <3>3, <3>4
  <2> QED
    BY <2>1, <2>2
<1> HIDE DEF s
<1>6. Train(Delivered(s, cut), o, end)
  <2>1. CASE ~cut
    BY <2>1, <1>5 DEF Delivered
  <2>2. CASE cut
    <3> DEFINE p == Head(s)
               W == Tail(s)
    <3>1. s \in Seq(Packet)
      BY <1>5, Zenon DEF Train
    <3>2. p \in Packet /\ W \in Seq(Packet) /\ s = <<p>> \o W /\ p = s[1]
      BY <3>1, <1>5
    <3>3. p.part = "whole" /\ Delivered(s, cut) = Cut(p) \o W
      BY <2>2, <1>5 DEF Delivered
    <3> HIDE DEF p, W
    <3>4. Decrypts(o, p)
      BY <1>5, <3>2, TrainFront
    <3>5. <<p>> \in Seq(Packet) /\ <<p>> # <<>> /\ <<p>>[Len(<<p>>)] = p
      BY <3>2
    <3>6. Train(W, After(p), end)
      <4>1. Train(<<p>> \o W, o, end)
        BY <1>5, <3>2
      <4>2. <<p>>[Len(<<p>>)].part # "head"
        BY <3>3, <3>5
      <4> QED
        BY <4>1, <4>2, <3>2, <3>5, TrainRest
    <3>7. Train(Cut(p), o, After(p))
      BY <3>2, <3>3, <3>4, TrainCut
    <3> QED
      BY <3>3, <3>6, <3>7, TrainJoin
  <2> QED
    BY <2>1, <2>2
<1> QED
  BY <1>6 DEF s, end, ses

-----------------------------------------------------------------------------
(* Commands arrive in order *)

(* What is on its way to the server's session: the left over part, the packet
   in a reader's hands, and the two queues. *)
Kept == leftOver[Len(leftOver)]
Left(k) == IF k = None THEN <<>> ELSE <<k>>
Wire(k, hand, rq, pq) == (Left(k) \o hand) \o (rq \o pq)

(* readLock_ keeps the read threads apart, and they work on the connection of
   the map in force. *)
ReadersApart ==
    /\ DOMAIN reader = Readers
    /\ \A t \in Readers : DOMAIN reader[t] = {"pc", "map", "packet"}
    /\ \A t \in Readers : reader[t].pc # "idle" => readLock /\ reader[t].map = Len(leftOver)
    /\ \A t, u \in Readers : reader[t].pc # "idle" /\ reader[u].pc # "idle" => t = u

WireTyped ==
    /\ readQueue \in Seq(Packet) /\ packetQueue \in Seq(Packet)
    /\ leftOver \in Seq(Packet \cup {None}) /\ leftOver # <<>>
    /\ Kept # None => Kept.part = "head"
    /\ \A t \in Readers : reader[t].pc = "decrypt" => reader[t].packet \in Packet
    /\ client.sent \in Nat

(* The wire leads from the server's session to the client's. *)
WireWhole ==
    /\ (\A t \in Readers : reader[t].pc # "decrypt") =>
           Train(Wire(Kept, <<>>, readQueue, packetQueue), inSes, client.out)
    /\ \A t \in Readers : reader[t].pc = "decrypt" =>
           Train(Wire(Kept, <<reader[t].packet>>, readQueue, packetQueue), inSes, client.out)

ReadInv == WriteInv /\ ReadersApart /\ WireTyped /\ WireWhole /\ ~closed

LEMMA ReadInit == Init => ReadInv
<1> SUFFICES ASSUME Init PROVE ReadInv
  OBVIOUS
<1>1. ReadersApart
  BY Zenon DEF Init, ReadersApart
<1>2. /\ readQueue = <<>> /\ packetQueue = <<>> /\ leftOver = <<None>> /\ inSes = NewSession
      /\ client.sent = 0 /\ client.out = NewSession /\ closed = FALSE
      /\ \A t \in Readers : reader[t].pc = "idle"
  BY Zenon DEF Init
<1>3. Kept = None
  BY <1>2 DEF Kept
<1>4. WireTyped
  BY <1>2, <1>3 DEF WireTyped
<1>5. Wire(Kept, <<>>, readQueue, packetQueue) = <<>>
  BY <1>2, <1>3 DEF Wire, Left
<1>6. NewSession \in Session
  BY DEF NewSession, Session
<1>7. WireWhole
  BY <1>2, <1>5, <1>6, TrainEmpty DEF WireWhole
<1> QED
  BY <1>1, <1>2, <1>4, <1>7, WriteInit DEF ReadInv

LEMMA PacketsAssociate ==
    \A r, s, t \in Seq(Packet) : (r \o s) \o t = r \o (s \o t)
<1> TAKE r, s, t \in Seq(Packet)
<1> QED
  BY ConcatAssociative

LEMMA LeftTyped ==
    ASSUME WireTyped
    PROVE  Len(leftOver) \in DOMAIN leftOver /\ Kept \in Packet \cup {None} /\ Left(Kept) \in Seq(Packet)
<1>1. leftOver \in Seq(Packet \cup {None}) /\ leftOver # <<>>
  BY DEF WireTyped
<1>2. Len(leftOver) \in 1 .. Len(leftOver) /\ DOMAIN leftOver = 1 .. Len(leftOver)
  BY <1>1, EmptySeq, LenProperties
<1>3. Kept \in Packet \cup {None}
  BY <1>1, <1>2, ElementOfSeq DEF Kept
<1> QED
  BY <1>2, <1>3 DEF Left

(* Whoever leaves the read side alone. *)
LEMMA OthersKeepReadSide ==
    ASSUME ReadInv, WriteInv', client'.out = client.out, client'.sent = client.sent,
           UNCHANGED <<reader, readLock, leftOver, readQueue, packetQueue, inSes, closed>>
    PROVE  ReadInv'
<1>1. ReadersApart'
  BY Zenon DEF ReadInv, ReadersApart
<1>2. Kept' = Kept
  BY Zenon DEF Kept
<1>3. WireTyped'
  BY <1>2, Zenon DEF ReadInv, WireTyped
<1>4. WireWhole'
  BY <1>2, Zenon DEF ReadInv, WireWhole
<1> QED
  BY <1>1, <1>3, <1>4, Zenon DEF ReadInv

(* The client's packets are put behind what is on the wire. *)
LEMMA SendReads ==
    ASSUME ReadInv, WriteInv', NEW rekey \in BOOLEAN, NEW cut \in BOOLEAN,
           ClientSend(rekey, cut)
    PROVE  ReadInv'
<1> DEFINE m == client.sent
           ses == IF rekey THEN Rekeyed(Counted(client.out)) ELSE client.out
           s == (IF rekey THEN <<RekeyPacket(client.out)>> ELSE <<>>) \o Encrypted(ses, m)
           D == Delivered(s, cut)
           end == [ses EXCEPT !.seq = @ + Count(m)]
<1>1. /\ m <= Len(Fragments)
      /\ packetQueue' = packetQueue \o D
      /\ client' = [client EXCEPT !.sent = @ + 1, !.out = end]
      /\ UNCHANGED <<conn, output>>
  BY Zenon DEF ClientSend
<1>2. UNCHANGED <<reader, readLock, leftOver, readQueue, inSes, closed>>
  BY <1>1, Zenon DEF conn
<1>3. DOMAIN client = ClientFields
  BY Zenon DEF ReadInv, WriteInv, SessionsAgree
<1>4. client'.sent = m + 1 /\ client'.out = end
  BY <1>1, <1>3, Zenon DEF ClientFields
<1>5. WireTyped /\ m \in Nat
  BY Zenon DEF ReadInv, WireTyped
<1>6. client.out \in Session
  <2>1. CASE \A t \in Readers : reader[t].pc # "decrypt"
    BY <2>1, Zenon DEF ReadInv, WireWhole, Train
  <2>2. CASE ~\A t \in Readers : reader[t].pc # "decrypt"
    BY <2>2, Zenon DEF ReadInv, WireWhole, Train
  <2> QED
    BY <2>1, <2>2
<1>7. Train(D, client.out, end)
  BY <1>1, <1>5, <1>6, TrainSent
<1> HIDE DEF m, ses, s, D, end
<1>8. /\ D \in Seq(Packet) /\ packetQueue \in Seq(Packet) /\ readQueue \in Seq(Packet)
      /\ Left(Kept) \in Seq(Packet)
  BY <1>5, <1>7, LeftTyped, Zenon DEF Train, WireTyped
<1>9. Kept' = Kept
  BY <1>2, Zenon DEF Kept
<1>10. ASSUME NEW h \in Seq(Packet)
       PROVE  Wire(Kept', h, readQueue', packetQueue')
                = Wire(Kept, h, readQueue, packetQueue) \o D
  <2>1. Wire(Kept', h, readQueue', packetQueue')
          = (Left(Kept) \o h) \o (readQueue \o (packetQueue \o D))
    BY <1>1, <1>2, <1>9, Zenon DEF Wire
  <2>2. Left(Kept) \o h \in Seq(Packet) /\ readQueue \o packetQueue \in Seq(Packet)
    BY <1>8, ConcatProperties
  <2>3. readQueue \o (packetQueue \o D) = (readQueue \o packetQueue) \o D
    BY <1>8, PacketsAssociate, Zenon
  <2>4. (Left(Kept) \o h) \o ((readQueue \o packetQueue) \o D)
          = ((Left(Kept) \o h) \o (readQueue \o packetQueue)) \o D
    <3> HIDE DEF Left
    <3> DEFINE x == Left(Kept) \o h
               y == readQueue \o packetQueue
    <3>1. x \in Seq(Packet) /\ y \in Seq(Packet) /\ D \in Seq(Packet)
      BY <2>2, <1>8
    <3> HIDE DEF x, y
    <3>2. (x \o y) \o D = x \o (y \o D)
      BY <3>1, PacketsAssociate, Zenon
    <3> QED
      BY <3>2 DEF x, y
  <2> QED
    BY <2>1, <2>3, <2>4, Zenon DEF Wire
<1>11. WireTyped'
  <2>1. packetQueue' \in Seq(Packet)
    BY <1>1, <1>8, ConcatProperties
  <2>2. client'.sent \in Nat
    BY <1>4, <1>5
  <2> QED
    BY <2>1, <2>2, <1>2, <1>5, <1>9, Zenon DEF WireTyped
<1>12. WireWhole'
  <2>1. ASSUME NEW h \in Seq(Packet),
               Train(Wire(Kept, h, readQueue, packetQueue), inSes, client.out)
        PROVE  Train(Wire(Kept', h, readQueue', packetQueue'), inSes', client'.out)
    BY <2>1, <1>2, <1>4, <1>7, <1>10, TrainJoin
  <2>2. /\ <<>> \in Seq(Packet)
        /\ \A t \in Readers : reader[t].pc = "decrypt" => <<reader[t].packet>> \in Seq(Packet)
    BY <1>5 DEF WireTyped
  <2>3. ASSUME \A t \in Readers : reader[t].pc # "decrypt"
        PROVE  Train(Wire(Kept', <<>>, readQueue', packetQueue'), inSes', client'.out)
    BY <2>1, <2>2, <2>3, Zenon DEF ReadInv, WireWhole
  <2>4. ASSUME NEW t \in Readers, reader[t].pc = "decrypt"
        PROVE  Train(Wire(Kept', <<reader[t].packet>>, readQueue', packetQueue'),
                     inSes', client'.out)
    BY <2>1, <2>2, <2>4, Zenon DEF ReadInv, WireWhole
  <2> QED
    BY <2>3, <2>4, <1>2, Zenon DEF WireWhole
<1>13. ReadersApart'
  BY <1>2, Zenon DEF ReadInv, ReadersApart
<1> QED
  BY <1>2, <1>11, <1>12, <1>13, Zenon DEF ReadInv

(* Another client joins while no reader works: the part left over is copied
   with the connection. *)
LEMMA JoinReads ==
    ASSUME ReadInv, WriteInv', QuietJoins, Join
    PROVE  ReadInv'
<1>1. /\ \A t \in Readers : reader[t].pc = "idle"
      /\ leftOver' = Append(leftOver, Kept)
      /\ UNCHANGED <<client, packetQueue, readQueue, readLock, inSes, closed, reader>>
  BY Zenon DEF Join, input, Kept
<1>2. leftOver \in Seq(Packet \cup {None}) /\ Kept \in Packet \cup {None}
  BY LeftTyped, Zenon DEF ReadInv, WireTyped
<1>3. /\ leftOver' \in Seq(Packet \cup {None}) /\ leftOver' # <<>>
      /\ leftOver'[Len(leftOver')] = Kept
  <2> DEFINE P == Packet \cup {None}
             k == Kept
  <2>1. leftOver \in Seq(P) /\ k \in P
    BY <1>2
  <2> HIDE DEF P, k
  <2>2. /\ Append(leftOver, k) \in Seq(P) /\ Append(leftOver, k) # <<>>
        /\ Append(leftOver, k)[Len(Append(leftOver, k))] = k
    BY <2>1
  <2> QED
    BY <2>2, <1>1 DEF P, k
<1>4. Kept' = Kept
  BY <1>3, Zenon DEF Kept
<1>5. ReadersApart'
  BY <1>1, Zenon DEF ReadInv, ReadersApart
<1>6. WireTyped'
  BY <1>1, <1>3, <1>4, Zenon DEF ReadInv, WireTyped
<1>7. WireWhole'
  BY <1>1, <1>4, Zenon DEF ReadInv, WireWhole
<1> QED
  BY <1>1, <1>5, <1>6, <1>7, Zenon DEF ReadInv

(* A packet goes from one queue to the other. *)
LEMMA MovedOn ==
    ASSUME NEW q \in Seq(Packet), NEW r \in Seq(Packet), q # <<>>
    PROVE  /\ Head(q) \in Packet /\ Tail(q) \in Seq(Packet)
           /\ q = <<Head(q)>> \o Tail(q)
           /\ Append(r, Head(q)) \in Seq(Packet)
           /\ Append(r, Head(q)) \o Tail(q) = r \o q
<1>1. Head(q) \in Packet /\ Tail(q) \in Seq(Packet) /\ q = <<Head(q)>> \o Tail(q)
  OBVIOUS
<1> DEFINE p == Head(q)
           w == Tail(q)
<1> HIDE DEF p, w
<1>2. p \in Packet /\ w \in Seq(Packet) /\ <<p>> \in Seq(Packet) /\ q = <<p>> \o w
  BY <1>1 DEF p, w
<1>3. Append(r, p) = r \o <<p>> /\ Append(r, p) \in Seq(Packet)
  BY <1>2
<1>4. (r \o <<p>>) \o w = r \o (<<p>> \o w)
  BY <1>2, PacketsAssociate, Zenon
<1>5. Append(r, p) \o w = r \o q
  BY <1>2, <1>3, <1>4, Zenon
<1> QED
  BY <1>1, <1>3, <1>5 DEF p, w

LEMMA CommandReads ==
    ASSUME ReadInv, WriteInv', CommandTake
    PROVE  ReadInv'
<1>1. /\ packetQueue # <<>>
      /\ packetQueue' = Tail(packetQueue)
      /\ readQueue' = Append(readQueue, Head(packetQueue))
      /\ UNCHANGED <<client, readLock, leftOver, inSes, closed, reader>>
  BY Zenon DEF CommandTake, commandElse
<1>2. readQueue \in Seq(Packet) /\ packetQueue \in Seq(Packet)
  BY Zenon DEF ReadInv, WireTyped
<1>3. /\ packetQueue' \in Seq(Packet) /\ readQueue' \in Seq(Packet)
      /\ readQueue' \o packetQueue' = readQueue \o packetQueue
  BY <1>1, <1>2, MovedOn, Zenon
<1>4. Kept' = Kept
  BY <1>1, Zenon DEF Kept
<1>5. ReadersApart'
  BY <1>1, Zenon DEF ReadInv, ReadersApart
<1>6. WireTyped'
  BY <1>1, <1>3, <1>4, Zenon DEF ReadInv, WireTyped
<1>7. \A h : Wire(Kept', h, readQueue', packetQueue') = Wire(Kept, h, readQueue, packetQueue)
  BY <1>3, <1>4, Zenon DEF Wire
<1>8. WireWhole'
  BY <1>1, <1>7, Zenon DEF ReadInv, WireWhole
<1> QED
  BY <1>1, <1>5, <1>6, <1>8, Zenon DEF ReadInv

(* A reader that takes the lock, or leaves, has nothing in its hands. *)
LEMMA TurnReads ==
    ASSUME ReadInv, WriteInv', NEW t \in Readers, ReaderEnter(t) \/ ReaderLeave(t)
    PROVE  ReadInv'
<1>1. UNCHANGED <<client, packetQueue, readQueue, leftOver, inSes, closed>>
  BY Zenon DEF ReaderEnter, ReaderLeave, readerElse, input
<1>2. /\ DOMAIN reader = Readers
      /\ \A u \in Readers : DOMAIN reader[u] = {"pc", "map", "packet"}
  BY Zenon DEF ReadInv, ReadersApart
<1>3. \A u \in Readers \ {t} : reader[u].pc = "idle"
  <2>1. CASE ReaderEnter(t)
    BY <2>1, Zenon DEF ReaderEnter, ReadInv, ReadersApart
  <2>2. CASE ReaderLeave(t)
    BY <2>2, Zenon DEF ReaderLeave, ReadInv, ReadersApart
  <2> QED
    BY <2>1, <2>2
<1>4. reader[t].pc # "decrypt"
  BY DEF ReaderEnter, ReaderLeave
<1>5. /\ DOMAIN reader' = Readers
      /\ \A u \in Readers : DOMAIN reader'[u] = {"pc", "map", "packet"}
      /\ \A u \in Readers \ {t} : reader'[u] = reader[u]
      /\ reader'[t].pc # "decrypt"
      /\ reader'[t].pc # "idle" => readLock' /\ reader'[t].map = Len(leftOver')
  <2>1. CASE ReaderEnter(t)
    <3>1. reader' = [reader EXCEPT ![t].pc = "pop", ![t].map = Len(leftOver)] /\ readLock'
      BY <2>1, Zenon DEF ReaderEnter
    <3>2. /\ DOMAIN reader' = Readers
          /\ \A u \in Readers : DOMAIN reader'[u] = {"pc", "map", "packet"}
          /\ \A u \in Readers \ {t} : reader'[u] = reader[u]
          /\ reader'[t].pc = "pop" /\ reader'[t].map = Len(leftOver)
      BY <3>1, <1>2, Zenon
    <3> QED
      BY <3>1, <3>2, <1>1
  <2>2. CASE ReaderLeave(t)
    <3>1. reader' = [reader EXCEPT ![t].pc = "idle", ![t].map = 1]
      BY <2>2, Zenon DEF ReaderLeave
    <3>2. /\ DOMAIN reader' = Readers
          /\ \A u \in Readers : DOMAIN reader'[u] = {"pc", "map", "packet"}
          /\ \A u \in Readers \ {t} : reader'[u] = reader[u]
          /\ reader'[t].pc = "idle"
      BY <3>1, <1>2, Zenon
    <3> QED
      BY <3>2
  <2> QED
    BY <2>1, <2>2
<1>6. Kept' = Kept
  BY <1>1, Zenon DEF Kept
<1>7. /\ \A u \in Readers : reader[u].pc # "decrypt"
      /\ \A u \in Readers : reader'[u].pc # "decrypt"
  BY <1>3, <1>4, <1>5
<1>i. \A u \in Readers : reader'[u].pc # "idle" => u = t
  BY <1>3, <1>5
<1>8. ReadersApart'
  BY <1>i, <1>5, Zenon DEF ReadersApart
<1>9. WireTyped'
  BY <1>1, <1>6, <1>7, Zenon DEF ReadInv, WireTyped
<1>10. WireWhole'
  BY <1>1, <1>6, <1>7, Zenon DEF ReadInv, WireWhole
<1> QED
  BY <1>1, <1>8, <1>9, <1>10, Zenon DEF ReadInv

LEMMA PopReads ==
    ASSUME ReadInv, WriteInv', NEW t \in Readers, ReaderPop(t)
    PROVE  ReadInv'
<1>1. /\ reader[t].pc = "pop" /\ ~closed
      /\ UNCHANGED <<client, packetQueue, readLock, leftOver, inSes, closed>>
  BY Zenon DEF ReaderPop, readerElse, input, ReadInv
<1>2. /\ DOMAIN reader = Readers
      /\ \A u \in Readers : DOMAIN reader[u] = {"pc", "map", "packet"}
      /\ \A u \in Readers \ {t} : reader[u].pc = "idle"
      /\ readLock /\ reader[t].map = Len(leftOver)
  BY <1>1, Zenon DEF ReadInv, ReadersApart
<1>3. Kept' = Kept
  BY <1>1, Zenon DEF Kept
<1>4. /\ readQueue \in Seq(Packet) /\ packetQueue \in Seq(Packet) /\ Left(Kept) \in Seq(Packet)
  BY LeftTyped, Zenon DEF ReadInv, WireTyped
<1>5. \A u \in Readers : reader[u].pc # "decrypt"
  BY <1>1, <1>2
<1>6. Train(Wire(Kept, <<>>, readQueue, packetQueue), inSes, client.out)
  BY <1>5, Zenon DEF ReadInv, WireWhole
<1>7. CASE readQueue = <<>>
  <2>1. reader' = [reader EXCEPT ![t].pc = "leave"] /\ readQueue' = readQueue
    BY <1>7, Zenon DEF ReaderPop
  <2>2. /\ DOMAIN reader' = Readers
        /\ \A u \in Readers : DOMAIN reader'[u] = {"pc", "map", "packet"}
        /\ \A u \in Readers \ {t} : reader'[u] = reader[u]
        /\ reader'[t].pc = "leave" /\ reader'[t].map = reader[t].map
    BY <2>1, <1>2, Zenon
  <2>3. \A u \in Readers : reader'[u].pc # "decrypt"
    BY <2>2, <1>2
  <2>i. \A u \in Readers : reader'[u].pc # "idle" => u = t
    BY <2>2, <1>2
  <2>4. ReadersApart'
    BY <2>i, <2>2, <1>1, <1>2, Zenon DEF ReadersApart
  <2>5. WireTyped'
    BY <2>1, <2>3, <1>1, <1>3, Zenon DEF ReadInv, WireTyped
  <2>6. WireWhole'
    BY <2>1, <2>3, <1>1, <1>3, <1>6, Zenon DEF WireWhole
  <2> QED
    BY <2>4, <2>5, <2>6, <1>1, Zenon DEF ReadInv
<1>8. CASE readQueue # <<>>
  <2> DEFINE p == Head(readQueue)
  <2>1. /\ reader' = [reader EXCEPT ![t].pc = "decrypt", ![t].packet = p]
        /\ readQueue' = Tail(readQueue)
    BY <1>1, <1>8, Zenon DEF ReaderPop
  <2>2. p \in Packet /\ readQueue' \in Seq(Packet) /\ readQueue = <<p>> \o readQueue'
    BY <2>1, <1>4, <1>8, MovedOn
  <2> HIDE DEF p
  <2>3. /\ DOMAIN reader' = Readers
        /\ \A u \in Readers : DOMAIN reader'[u] = {"pc", "map", "packet"}
        /\ \A u \in Readers \ {t} : reader'[u] = reader[u]
        /\ reader'[t].pc = "decrypt" /\ reader'[t].map = reader[t].map
        /\ reader'[t].packet = p
    BY <2>1, <1>2, Zenon
  <2>4. \A u \in Readers : reader'[u].pc = "decrypt" => u = t
    BY <2>3, <1>2
  <2>5. Wire(Kept, <<p>>, readQueue', packetQueue) = Wire(Kept, <<>>, readQueue, packetQueue)
    <3> DEFINE l == Left(Kept)
               w == readQueue'
    <3>1. /\ l \in Seq(Packet) /\ <<p>> \in Seq(Packet) /\ w \in Seq(Packet)
          /\ packetQueue \in Seq(Packet) /\ w \o packetQueue \in Seq(Packet)
      BY <2>2, <1>4, ConcatProperties
    <3>2. readQueue = <<p>> \o w
      BY <2>2
    <3> HIDE DEF l, w
    <3>3. l \o <<>> = l
      BY <3>1, ConcatEmptySeq
    <3>4. (l \o <<p>>) \o (w \o packetQueue) = l \o (<<p>> \o (w \o packetQueue))
      BY <3>1, PacketsAssociate, Zenon
    <3>5. <<p>> \o (w \o packetQueue) = readQueue \o packetQueue
      BY <3>1, <3>2, PacketsAssociate, Zenon
    <3> QED
      BY <3>3, <3>4, <3>5 DEF Wire, l, w
  <2>i. \A u \in Readers : reader'[u].pc # "idle" => u = t
    BY <2>3, <1>2
  <2>6. ReadersApart'
    BY <2>i, <2>3, <1>1, <1>2, Zenon DEF ReadersApart
  <2>7. WireTyped'
    BY <2>2, <2>3, <2>4, <1>1, <1>3, Zenon DEF ReadInv, WireTyped
  <2>8. WireWhole'
    BY <2>3, <2>4, <2>5, <1>1, <1>3, <1>6, Zenon DEF WireWhole
  <2> QED
    BY <2>6, <2>7, <2>8, <1>1, Zenon DEF ReadInv
<1> QED
  BY <1>7, <1>8

(* A packet that decrypts moves the server's session to the one behind it. *)
LEMMA AcceptCounts ==
    ASSUME inSes \in Session, NEW p, Decrypts(inSes, p), Accept(p), NEW q \in Packet,
           q.part # "head", q.key = p.key, q.seq = p.seq, q.msg = p.msg
    PROVE  inSes' = After(q)
<1>1. inSes' = IF p.msg = RekeyMsg THEN Rekeyed(Counted(inSes)) ELSE Counted(inSes)
  BY Zenon DEF Accept
<1>2. After(q) \in Session /\ After(q).key = NextKey(q) /\ After(q).seq = NextSeq(q)
  BY PacketParts
<1>3. q.key = inSes.key /\ q.seq = inSes.seq
  BY DEF Decrypts
<1>4. /\ Counted(inSes) \in Session
      /\ Counted(inSes).key = inSes.key /\ Counted(inSes).seq = inSes.seq + 1
  BY SessionSteps
<1>5. CASE p.msg = RekeyMsg
  <2>1. /\ inSes' \in Session /\ inSes'.key = inSes.key + 1 /\ inSes'.seq = inSes.seq + 1
    BY <1>1, <1>4, <1>5, SessionSteps
  <2>2. NextKey(q) = inSes.key + 1 /\ NextSeq(q) = inSes.seq + 1
    BY <1>3, <1>5 DEF NextKey, NextSeq
  <2> QED
    BY <2>1, <2>2, <1>2, SessionEqual
<1>6. CASE p.msg # RekeyMsg
  <2>1. inSes' = Counted(inSes)
    BY <1>1, <1>6
  <2>2. NextKey(q) = inSes.key /\ NextSeq(q) = inSes.seq + 1
    BY <1>3, <1>6 DEF NextKey, NextSeq
  <2> QED
    BY <2>1, <2>2, <1>2, <1>4, SessionEqual
<1> QED
  BY <1>5, <1>6

(* What a reader makes of the packet in its hands and the part kept before it. *)
LEMMA JoinedIsNext ==
    ASSUME NEW k \in Packet \cup {None}, k # None => k.part = "head",
           NEW h \in Packet, NEW Q \in Seq(Packet), NEW a, NEW b,
           Train((Left(k) \o <<h>>) \o Q, a, b)
    PROVE  LET p == Joined(k, h)
           IN  \/ /\ p.part = "head" /\ p \in Packet
                  /\ Train((Left(p) \o <<>>) \o Q, a, b)
               \/ /\ p.part = "whole" /\ Decrypts(a, p)
                  /\ h.part # "head" /\ h.key = p.key /\ h.seq = p.seq /\ h.msg = p.msg
                  /\ Train((Left(None) \o <<>>) \o Q, After(h), b)
<1> DEFINE p == Joined(k, h)
<1>0. (Left(None) \o <<>>) \o Q = Q
  BY ConcatEmptySeq DEF Left
<1>1. CASE k = None
  <2>1. p = h
    BY <1>1, Zenon DEF Joined
  <2>2. Left(k) \o <<h>> = <<h>> /\ <<h>> \in Seq(Packet) /\ <<h>> # <<>>
        /\ <<h>>[Len(<<h>>)] = h
    BY <1>1 DEF Left
  <2>3. Train(<<h>> \o Q, a, b)
    BY <2>2
  <2>4. <<h>> \o Q # <<>> /\ (<<h>> \o Q)[1] = h
    OBVIOUS
  <2>5. h.part \in {"whole", "head"} /\ Decrypts(a, h)
    BY <2>3, <2>4, TrainFront
  <2>6. CASE h.part = "head"
    <3>1. h # None
      BY PacketParts
    <3>2. Left(h) \o <<>> = <<h>>
      BY <3>1 DEF Left
    <3> HIDE DEF p
    <3> QED
      BY <2>1, <2>3, <2>6, <3>2 DEF p
  <2>7. CASE h.part = "whole"
    <3>1. Train(Q, After(h), b)
      BY <2>2, <2>3, <2>7, TrainRest
    <3> QED
      BY <2>1, <2>5, <2>7, <3>1, <1>0
  <2> QED
    BY <2>5, <2>6, <2>7
<1>2. CASE k # None
  <2>1. k \in Packet /\ k.part = "head"
    BY <1>2
  <2>2. /\ Left(k) \o <<h>> = <<k, h>> /\ <<k, h>> \in Seq(Packet) /\ <<k, h>> # <<>>
        /\ <<k, h>>[Len(<<k, h>>)] = h
    <3>1. Left(k) = <<k>>
      BY <1>2 DEF Left
    <3>2. <<k>> \o <<h>> = <<k, h>> /\ <<k, h>> \in Seq(Packet) /\ Len(<<k, h>>) = 2
      <4>1. <<k, h>> \in Seq(Packet) /\ Len(<<k, h>>) = 2
        BY <2>1
      <4> DEFINE w == <<k>> \o <<h>>
      <4>2. w \in Seq(Packet) /\ Len(w) = 2 /\ w[1] = k /\ w[2] = h
        <5>1. <<k>> \in Seq(Packet) /\ <<h>> \in Seq(Packet)
          BY <2>1
        <5> QED
          BY <5>1
      <4> HIDE DEF w
      <4>3. w = <<k, h>>
        BY <4>1, <4>2
      <4> QED
        BY <4>1, <4>3 DEF w
    <3> QED
      BY <3>1, <3>2
  <2>3. Train(<<k, h>> \o Q, a, b)
    BY <2>2
  <2>4. <<k, h>> \o Q # <<>> /\ (<<k, h>> \o Q)[1] = k /\ (<<k, h>> \o Q)[2] = h
    BY <2>1
  <2>5. Decrypts(a, k) /\ Halves(k, h)
    BY <2>1, <2>3, <2>4, TrainFront
  <2>6. /\ DOMAIN k = {"key", "seq", "msg", "frag", "part"} /\ h = [k EXCEPT !.part = "tail"]
    BY <2>1, <2>5, Zenon DEF Packet, Halves
  <2>7. /\ h.part = "tail" /\ h.key = k.key /\ h.seq = k.seq /\ h.msg = k.msg
        /\ DOMAIN h = {"key", "seq", "msg", "frag", "part"} /\ h.frag = k.frag
    BY <2>6, Zenon
  <2>8. k = [h EXCEPT !.part = "head"]
    <3> DEFINE w == [h EXCEPT !.part = "head"]
    <3>1. w \in Packet /\ w.part = "head" /\ w.key = h.key /\ w.seq = h.seq /\ w.msg = h.msg
      BY CutParts, Zenon
    <3>2. w.frag = h.frag
      BY <2>7, Zenon
    <3> HIDE DEF w
    <3>3. w = k
      BY <2>1, <2>7, <3>1, <3>2, PacketEqual
    <3> QED
      BY <3>3, Zenon DEF w
  <2>9. p = [h EXCEPT !.part = "whole"]
    BY <1>2, <2>7, <2>8, Zenon DEF Joined
  <2>10. p.part = "whole" /\ p.key = h.key /\ p.seq = h.seq /\ p.msg = h.msg
    BY <2>7, <2>9, Zenon
  <2> HIDE DEF p
  <2>11. Decrypts(a, p)
    BY <2>5, <2>7, <2>10, Zenon DEF Decrypts
  <2>12. h.part # "head"
    BY <2>7
  <2>13. Train(Q, After(h), b)
    BY <2>2, <2>3, <2>12, TrainRest
  <2> QED
    BY <2>10, <2>11, <2>12, <2>13, <1>0, Zenon DEF p
<1> QED
  BY <1>1, <1>2

LEMMA DecryptReads ==
    ASSUME ReadInv, WriteInv', NEW t \in Readers, ReaderDecrypt(t)
    PROVE  ReadInv'
<1> DEFINE v == reader[t].map
           h == reader[t].packet
           p == Joined(leftOver[v], h)
           x == IF p.part = "head" THEN p ELSE None
<1>1. /\ reader[t].pc = "decrypt"
      /\ reader' = [reader EXCEPT ![t].pc = "pop", ![t].packet = None]
      /\ leftOver' = [leftOver EXCEPT ![v] = x]
      /\ p.part = "head" => UNCHANGED <<inSes, closed>>
      /\ p.part = "whole" /\ Decrypts(inSes, p) => Accept(p) /\ UNCHANGED closed
      /\ UNCHANGED <<client, packetQueue, readQueue, readLock>>
  <2>1. /\ reader[t].pc = "decrypt"
        /\ reader' = [reader EXCEPT ![t].pc = "pop", ![t].packet = None]
        /\ leftOver' = [leftOver EXCEPT ![v] = x]
        /\ UNCHANGED <<client, packetQueue, readQueue, readLock>>
    BY Zenon DEF ReaderDecrypt, readerElse, input
  <2>2. CASE p.part = "head"
    <3>1. UNCHANGED <<inSes, closed>>
      BY <2>2 DEF ReaderDecrypt
    <3> QED
      BY <2>1, <2>2, <3>1
  <2>3. CASE p.part # "head"
    <3>1. p.part = "whole" /\ Decrypts(inSes, p) => Accept(p) /\ UNCHANGED closed
      BY <2>3 DEF ReaderDecrypt
    <3> QED
      BY <2>1, <2>3, <3>1
  <2> QED
    BY <2>2, <2>3
<1>2. /\ DOMAIN reader = Readers
      /\ \A u \in Readers : DOMAIN reader[u] = {"pc", "map", "packet"}
      /\ \A u \in Readers \ {t} : reader[u].pc = "idle"
      /\ readLock /\ v = Len(leftOver)
  BY <1>1, Zenon DEF ReadInv, ReadersApart
<1>3. /\ Kept \in Packet \cup {None} /\ (Kept # None => Kept.part = "head")
      /\ Len(leftOver) \in DOMAIN leftOver /\ leftOver \in Seq(Packet \cup {None})
      /\ readQueue \in Seq(Packet) /\ packetQueue \in Seq(Packet)
      /\ h \in Packet
  BY <1>1, LeftTyped, Zenon DEF ReadInv, WireTyped
<1>4. Train(Wire(Kept, <<h>>, readQueue, packetQueue), inSes, client.out)
  BY <1>1, Zenon DEF ReadInv, WireWhole
<1>5. leftOver[v] = Kept
  BY <1>2 DEF Kept
<1> DEFINE Q == readQueue \o packetQueue
<1>6. Q \in Seq(Packet)
  BY <1>3, ConcatProperties
<1>7. inSes \in Session
  BY <1>4, Zenon DEF Train
<1>8. \/ /\ p.part = "head" /\ p \in Packet
         /\ Train((Left(p) \o <<>>) \o Q, inSes, client.out)
      \/ /\ p.part = "whole" /\ Decrypts(inSes, p)
         /\ h.part # "head" /\ h.key = p.key /\ h.seq = p.seq /\ h.msg = p.msg
         /\ Train((Left(None) \o <<>>) \o Q, After(h), client.out)
  <2>1. Train((Left(Kept) \o <<h>>) \o Q, inSes, client.out)
    BY <1>4 DEF Wire
  <2>2. p = Joined(Kept, h)
    BY <1>5
  <2> HIDE DEF p, h, Q
  <2> QED
    BY <2>1, <2>2, <1>3, <1>6, JoinedIsNext
<1> HIDE DEF p, h, Q
<1>9. /\ x \in Packet \cup {None} /\ (x # None => x.part = "head")
      /\ Train((Left(x) \o <<>>) \o Q, inSes', client.out) /\ closed' = closed
  <2>1. CASE p.part = "head"
    <3>1. x = p /\ inSes' = inSes /\ closed' = closed
      BY <2>1, <1>1
    <3>2. p \in Packet /\ Train((Left(p) \o <<>>) \o Q, inSes, client.out)
      BY <2>1, <1>8
    <3> QED
      BY <2>1, <3>1, <3>2
  <2>2. CASE p.part # "head"
    <3>1. /\ p.part = "whole" /\ Decrypts(inSes, p)
          /\ h.part # "head" /\ h.key = p.key /\ h.seq = p.seq /\ h.msg = p.msg
          /\ Train((Left(None) \o <<>>) \o Q, After(h), client.out)
      BY <2>2, <1>8
    <3>2. x = None /\ Accept(p) /\ closed' = closed
      BY <2>2, <3>1, <1>1
    <3>3. inSes' = After(h)
      BY <3>1, <3>2, <1>3, <1>7, AcceptCounts
    <3> QED
      BY <3>1, <3>2, <3>3
  <2> QED
    BY <2>1, <2>2
<1> HIDE DEF x
<1>10. leftOver' \in Seq(Packet \cup {None}) /\ leftOver' # <<>> /\ Len(leftOver') = Len(leftOver)
       /\ Kept' = x
  <2> DEFINE P == Packet \cup {None}
  <2>1. leftOver \in Seq(P) /\ x \in P /\ leftOver' = [leftOver EXCEPT ![Len(leftOver)] = x]
        /\ Len(leftOver) \in DOMAIN leftOver
    BY <1>1, <1>2, <1>3, <1>9
  <2> HIDE DEF P
  <2>2. leftOver' \in Seq(P) /\ leftOver' # <<>> /\ Len(leftOver') = Len(leftOver)
        /\ leftOver'[Len(leftOver')] = x
    BY <2>1
  <2> QED
    BY <2>2 DEF P, Kept
<1>11. /\ DOMAIN reader' = Readers
       /\ \A u \in Readers : DOMAIN reader'[u] = {"pc", "map", "packet"}
       /\ \A u \in Readers \ {t} : reader'[u] = reader[u]
       /\ reader'[t].pc = "pop" /\ reader'[t].map = v
  BY <1>1, <1>2, Zenon
<1>12. \A u \in Readers : reader'[u].pc # "decrypt" /\ (reader'[u].pc # "idle" => u = t)
  BY <1>2, <1>11
<1>13. ReadersApart'
  BY <1>1, <1>2, <1>10, <1>11, <1>12, Zenon DEF ReadersApart
<1>14. WireTyped'
  BY <1>1, <1>9, <1>10, <1>12, Zenon DEF ReadInv, WireTyped
<1>15. WireWhole'
  <2>1. Train(Wire(Kept', <<>>, readQueue', packetQueue'), inSes', client'.out)
    BY <1>1, <1>9, <1>10, Zenon DEF Wire, Q
  <2> QED
    BY <2>1, <1>12, Zenon DEF WireWhole
<1> QED
  BY <1>9, <1>13, <1>14, <1>15, Zenon DEF ReadInv

LEMMA ReadNext == ASSUME QuietJoins PROVE ReadInv /\ [Next]_vars => ReadInv'
<1> SUFFICES ASSUME ReadInv, [Next]_vars PROVE ReadInv'
  OBVIOUS
<1>w. WriteInv'
  BY WriteNext DEF ReadInv
<1>c. DOMAIN client = ClientFields
  BY Zenon DEF ReadInv, WriteInv, SessionsAgree
<1>1. ASSUME NEW rekey \in BOOLEAN, NEW cut \in BOOLEAN, ClientSend(rekey, cut) PROVE ReadInv'
  BY <1>1, <1>w, SendReads
<1>2. CASE Join
  BY <1>2, <1>w, JoinReads
<1>3. CASE CommandTake
  BY <1>3, <1>w, CommandReads
<1>4. CASE CommandToken
  BY <1>4, <1>w, OthersKeepReadSide, Zenon DEF CommandToken, commandElse
<1>5. ASSUME NEW t \in Readers, ReaderStep(t) PROVE ReadInv'
  BY <1>5, <1>w, TurnReads, PopReads, DecryptReads, Zenon DEF ReaderStep
<1>6. ASSUME NEW t \in Parsers, ParserStep(t) PROVE ReadInv'
  <2>1. UNCHANGED <<client, input, conn>>
    BY <1>6, Zenon DEF ParserStep, ParserEnter, ParserProcess, ParserWrite, parserElse
  <2> QED
    BY <2>1, <1>w, OthersKeepReadSide, Zenon DEF input, conn
<1>7. ASSUME NEW t \in Writers, WriterStep(t) PROVE ReadInv'
  <2>1. UNCHANGED <<input, conn>>
    BY <1>7, Zenon DEF WriterStep, WriterEnter, WriterRekey, WriterEncrypt, WriterSend, writerElse
  <2>2. client' = client \/ \E q : client' = Read(q)
    BY <1>7, Zenon DEF WriterStep, WriterEnter, WriterRekey, WriterEncrypt, WriterSend
  <2>3. ASSUME NEW q PROVE Read(q).out = client.out /\ Read(q).sent = client.sent
    BY <1>c, Zenon DEF Read, ClientFields
  <2>4. client'.out = client.out /\ client'.sent = client.sent
    BY <2>2, <2>3, Zenon
  <2> QED
    BY <2>1, <2>4, <1>w, OthersKeepReadSide, Zenon DEF input, conn
<1>8. CASE UNCHANGED vars
  BY <1>8, <1>w, OthersKeepReadSide, Zenon DEF vars, input, conn
<1> QED
  BY <1>1, <1>2, <1>3, <1>4, <1>5, <1>6, <1>7, <1>8, Zenon DEF Next, CommandStep

(* For any pools, commands, rekeys and packets in two parts, as long as the
   connection map is not copied under a working reader: both ends decrypt every
   packet of the other one.  The thread that holds readLock_ takes packets off
   the queue and through the session one by one, and finds the first part of a
   cut one where it left it (processReadQueue), so what is left over, in hand
   and queued always leads from the server's session to the client's. *)
THEOREM StreamsInOrder == ASSUME QuietJoins PROVE Spec => []StreamsDecrypt
<1>1. ReadInv => StreamsDecrypt
  BY DEF ReadInv, WriteInv, StreamsDecrypt
<1>2. ReadInv /\ [Next]_vars => ReadInv'
  BY ReadNext
<1> QED
  BY ReadInit, <1>1, <1>2, PTL DEF Spec

-----------------------------------------------------------------------------
(* Types of the connection: each piece of a command is in one place *)

(* What is on its way from the client to the server's session. *)
Members(q) == {q[i] : i \in DOMAIN q}
Hands == {reader[t].packet : t \in {u \in Readers : reader[u].pc = "decrypt"}}
Lefts == {leftOver[v] : v \in {w \in DOMAIN leftOver : leftOver[w] # None}}
Flight ==
    Members(packetQueue) \cup Members(readQueue) \cup Hands \cup Lefts

(* A piece of a command, as it waits for a parser. *)
Piece(pl) == \E m \in Commands : \E f \in 1 .. Count(m) : pl = <<m, f>>

(* The piece is past the session: queued, in a parser's hands, or in the map. *)
InHand(pl) == \E t \in Parsers : parser[t].pc = "process" /\ parser[t].payload = pl
InMap(m, f) == m \in Commands /\ f \in messageMap[m]
Held(m, f) == <<m, f>> \in payloads \/ InHand(<<m, f>>) \/ InMap(m, f)

(* The queues, the readers' hands and the parts left over hold packets. *)
PlaceInv ==
    /\ packetQueue \in Seq(Packet) /\ readQueue \in Seq(Packet)
    /\ leftOver \in Seq(Packet \cup {None}) /\ leftOver # <<>>
    /\ \A t \in Readers : /\ reader[t].map \in DOMAIN leftOver
                          /\ reader[t].pc = "decrypt" => reader[t].packet \in Packet
    /\ inSes \in Session /\ client.out \in Session
    /\ {readLock, closed} \subseteq BOOLEAN

(* Replies are to the registration and to commands, and nothing but the
   registration is sent before it has been answered. *)
ReplyInv ==
    /\ client.sent \in 0 .. Len(Fragments) + 1 /\ client.in \in Session
    /\ client.read \subseteq 0 .. Len(Fragments)
    /\ msgQueue \subseteq 0 .. Len(Fragments)
    /\ \A t \in Writers : writer[t].pc # "idle" => writer[t].msg \in 0 .. Len(Fragments)
    /\ \A t \in Parsers : parser[t].pc = "write" => parser[t].result \in Commands
    /\ {viewer, writeLock} \subseteq BOOLEAN
    /\ viewer => client.sent > 0
    /\ ~viewer => /\ client.sent <= 1 /\ 0 \notin client.read /\ 0 \notin msgQueue
                  /\ \A t \in Writers : writer[t].pc # "idle" => writer[t].msg # 0

(* Packets on their way are of what was sent, one sequence number each, and the
   ones the session has yet to meet are of commands not run, not yet held. *)
FlightInv ==
    /\ \A p \in Flight : p.msg # RekeyMsg =>
           p.msg < client.sent /\ p.frag \in 1 .. Count(p.msg)
    /\ \A p, q \in Flight :
           p.msg # RekeyMsg /\ p.msg = q.msg /\ p.frag = q.frag => p.seq = q.seq
    /\ \A p \in Flight : p.msg # RekeyMsg /\ p.seq >= inSes.seq =>
           /\ ~Held(p.msg, p.frag)
           /\ p.msg = 0 => ~viewer
           /\ p.msg # 0 => lastValid < p.msg

(* packetProcess_threadLock_ keeps the parsers apart. *)
ParsersApart ==
    /\ processLock \in BOOLEAN /\ flags \in Nat /\ lastValid \in 0 .. Len(Fragments)
    /\ lastValid = 0 \/ lastValid < client.sent
    /\ \A t \in Parsers : parser[t].pc = "process" =>
           processLock /\ (parser[t].payload = NoData \/ Piece(parser[t].payload))
    /\ \A t, u \in Parsers : parser[t].pc = "process" /\ parser[u].pc = "process" => t = u

(* What is held is of commands sent and not run, and in one place only. *)
HeldInv ==
    /\ \A pl \in payloads : Piece(pl) /\ ~InHand(pl)
    /\ DOMAIN messageMap = Commands
    /\ \A m \in Commands :
          /\ messageMap[m] \subseteq 1 .. Count(m)
          /\ \A f \in messageMap[m] : <<m, f>> \notin payloads /\ ~InHand(<<m, f>>)
          /\ \A f \in 1 .. Count(m) : Held(m, f) => lastValid < m /\ m < client.sent

DispatchInv == PlaceInv /\ ReplyInv /\ FlightInv /\ ParsersApart /\ HeldInv

(* The same piece under the same sequence number, whatever the part. *)
SamePiece(p, q) == p.seq = q.seq /\ p.msg = q.msg /\ p.frag = q.frag

(* Packets move, change their part or are gone; none is new. *)
NoneNew == \A q \in Flight' : \E p \in Flight : SamePiece(p, q)

(* A packet's numbers, and that it is not the absence of one. *)
LEMMA PacketFields ==
    ASSUME NEW p \in Packet
    PROVE  /\ p.seq \in Nat /\ p.frag \in Nat /\ p.msg \in {RekeyMsg, 0} \cup Commands
           /\ p # None
<1>1. p.seq \in Nat /\ p.frag \in Nat /\ p.msg \in {RekeyMsg, 0} \cup Commands
  BY Zenon DEF Packet
<1> QED
  BY <1>1, PacketParts

(* A part of a packet is a packet of the same piece. *)
LEMMA Relabelled ==
    ASSUME NEW p \in Packet, NEW s \in {"whole", "head", "tail"}
    PROVE  [p EXCEPT !.part = s] \in Packet /\ SamePiece(p, [p EXCEPT !.part = s])
<1>1. /\ DOMAIN p = {"key", "seq", "msg", "frag", "part"}
      /\ p.key \in Nat /\ p.seq \in Nat /\ p.msg \in {RekeyMsg, 0} \cup Commands
      /\ p.frag \in Nat
  BY Zenon DEF Packet
<1>2. [p EXCEPT !.part = s] \in Packet
  BY <1>1, Zenon DEF Packet
<1> QED
  BY <1>1, <1>2, Zenon DEF SamePiece

(* Left over data can spoil a packet and complete it, but not change what it is. *)
LEMMA JoinedSame ==
    ASSUME NEW left, NEW p \in Packet
    PROVE  Joined(left, p) \in Packet /\ SamePiece(p, Joined(left, p))
<1>1. "whole" \in {"whole", "head", "tail"} /\ "tail" \in {"whole", "head", "tail"}
  OBVIOUS
<1>2. SamePiece(p, p)
  BY DEF SamePiece
<1>3. \/ Joined(left, p) = p
      \/ Joined(left, p) = [p EXCEPT !.part = "whole"]
      \/ Joined(left, p) = [p EXCEPT !.part = "tail"]
  BY Zenon DEF Joined
<1> QED
  BY <1>1, <1>2, <1>3, Relabelled, Zenon

(* What the operations on queues do to the packets in them. *)
LEMMA MembersMoved ==
    ASSUME NEW S, NEW q \in Seq(S), NEW r \in Seq(S)
    PROVE  /\ Members(q) \subseteq S
           /\ q # <<>> => /\ Head(q) \in Members(q) /\ Members(Tail(q)) \subseteq Members(q)
                          /\ Head(q) \in S /\ Tail(q) \in Seq(S)
           /\ \A x \in S : /\ Append(q, x) \in Seq(S) /\ Append(q, x) # <<>>
                           /\ Members(Append(q, x)) \subseteq Members(q) \cup {x}
           /\ q \o r \in Seq(S)
           /\ Members(q \o r) \subseteq Members(q) \cup Members(r)
<1>1. Members(q) \subseteq S
  BY DEF Members
<1>2. ASSUME q # <<>>
      PROVE  /\ Head(q) \in Members(q) /\ Members(Tail(q)) \subseteq Members(q)
             /\ Head(q) \in S /\ Tail(q) \in Seq(S)
  <2>1. Head(q) = q[1] /\ 1 \in DOMAIN q /\ Tail(q) \in Seq(S) /\ Head(q) \in S
    BY <1>2
  <2>2. \A i \in DOMAIN Tail(q) : i + 1 \in DOMAIN q /\ Tail(q)[i] = q[i + 1]
    BY <1>2
  <2>3. Head(q) \in Members(q)
    BY <2>1, Zenon DEF Members
  <2>4. Members(Tail(q)) \subseteq Members(q)
    BY <2>2, Zenon DEF Members
  <2> QED
    BY <2>1, <2>3, <2>4
<1>3. \A x \in S : Append(q, x) \in Seq(S) /\ Append(q, x) # <<>>
  OBVIOUS
<1>4. ASSUME NEW x \in S PROVE Members(Append(q, x)) \subseteq Members(q) \cup {x}
  <2>1. \A i \in DOMAIN Append(q, x) : (i \in DOMAIN q /\ Append(q, x)[i] = q[i])
                                       \/ Append(q, x)[i] = x
    OBVIOUS
  <2> QED
    BY <2>1, Zenon DEF Members
<1>5. q \o r \in Seq(S)
  OBVIOUS
<1>6. Members(q \o r) \subseteq Members(q) \cup Members(r)
  <2>1. \A i \in DOMAIN (q \o r) :
           \/ i \in DOMAIN q /\ (q \o r)[i] = q[i]
           \/ i - Len(q) \in DOMAIN r /\ (q \o r)[i] = r[i - Len(q)]
    OBVIOUS
  <2> QED
    BY <2>1, Zenon DEF Members
<1> QED
  BY <1>1, <1>2, <1>3, <1>4, <1>5, <1>6

(* What is on its way are packets. *)
LEMMA FlightTyped == PlaceInv => Flight \subseteq Packet
<1> SUFFICES ASSUME PlaceInv PROVE Flight \subseteq Packet
  OBVIOUS
<1>1. Members(packetQueue) \subseteq Packet /\ Members(readQueue) \subseteq Packet
  BY DEF PlaceInv, Members
<1>2. Hands \subseteq Packet
  BY Zenon DEF PlaceInv, Hands
<1>3. Lefts \subseteq Packet
  <2>1. \A v \in DOMAIN leftOver : leftOver[v] \in Packet \cup {None}
    BY DEF PlaceInv
  <2> QED
    BY <2>1, Zenon DEF Lefts
<1> QED
  BY <1>1, <1>2, <1>3 DEF Flight

LEMMA PlaceInit == Init => PlaceInv /\ Flight = {}
<1> SUFFICES ASSUME Init PROVE PlaceInv /\ Flight = {}
  OBVIOUS
<1>1. /\ readQueue = <<>> /\ packetQueue = <<>> /\ leftOver = <<None>> /\ inSes = NewSession
      /\ client.out = NewSession /\ closed = FALSE /\ readLock = FALSE
      /\ \A t \in Readers : reader[t].pc = "idle" /\ reader[t].map = 1
  BY Zenon DEF Init
<1>2. NewSession \in Session
  BY DEF NewSession, Session
<1>3. 1 \in DOMAIN leftOver /\ leftOver \in Seq(Packet \cup {None}) /\ leftOver # <<>>
      /\ \A v \in DOMAIN leftOver : leftOver[v] = None
  BY <1>1
<1>4. readQueue \in Seq(Packet) /\ packetQueue \in Seq(Packet)
      /\ Members(readQueue) = {} /\ Members(packetQueue) = {}
  BY <1>1 DEF Members
<1>5. {readLock, closed} \subseteq BOOLEAN
  BY <1>1
<1>6. \A t \in Readers : reader[t].pc # "decrypt"
  BY <1>1
<1>7. Hands = {} /\ Lefts = {}
  BY <1>3, <1>6, Zenon DEF Hands, Lefts
<1>8. PlaceInv
  BY <1>1, <1>2, <1>3, <1>4, <1>5, <1>6, Zenon DEF PlaceInv
<1> QED
  BY <1>4, <1>7, <1>8 DEF Flight

(* Nothing of the places has moved. *)
LEMMA PlacesKept ==
    ASSUME PlaceInv, client'.out = client.out,
           UNCHANGED <<packetQueue, readQueue, leftOver, reader, inSes, readLock, closed>>
    PROVE  PlaceInv' /\ Flight' = Flight
<1>1. Flight' = Flight
  BY DEF Flight, Members, Hands, Lefts
<1>2. PlaceInv'
  BY Zenon DEF PlaceInv
<1> QED
  BY <1>1, <1>2

(* A step that only takes packets away brings nothing new. *)
LEMMA LessIsNoneNew ==
    ASSUME Flight' \subseteq Flight
    PROVE  NoneNew
BY DEF NoneNew, SamePiece

(* Packets change hands: copies of the map, the command thread, and a reader that
   enters, pops or leaves. *)
LEMMA JoinMoves ==
    ASSUME PlaceInv, Join
    PROVE  PlaceInv' /\ NoneNew
<1> DEFINE P == Packet \cup {None}
           k == leftOver[Len(leftOver)]
<1>1. /\ leftOver' = Append(leftOver, k)
      /\ UNCHANGED <<client, packetQueue, readQueue, reader, inSes, readLock, closed>>
  BY Zenon DEF Join, input
<1>2. leftOver \in Seq(P) /\ leftOver # <<>>
  BY Zenon DEF PlaceInv
<1> HIDE DEF P
<1>3. Len(leftOver) \in DOMAIN leftOver /\ k \in P
  BY <1>2
<1> HIDE DEF k
<1>4. /\ leftOver' \in Seq(P) /\ leftOver' # <<>>
      /\ DOMAIN leftOver \subseteq DOMAIN leftOver'
      /\ \A v \in DOMAIN leftOver' : (v \in DOMAIN leftOver /\ leftOver'[v] = leftOver[v])
                                     \/ leftOver'[v] = k
  BY <1>1, <1>2, <1>3
<1>5. \A v \in DOMAIN leftOver' : \E w \in DOMAIN leftOver : leftOver'[v] = leftOver[w]
  BY <1>3, <1>4, Zenon DEF k
<1>6. Lefts' \subseteq Lefts
  BY <1>5, Zenon DEF Lefts
<1>7. Members(packetQueue)' = Members(packetQueue) /\ Members(readQueue)' = Members(readQueue)
      /\ Hands' = Hands
  BY <1>1 DEF Members, Hands
<1>8. NoneNew
  BY <1>6, <1>7, LessIsNoneNew DEF Flight
<1>9. PlaceInv'
  BY <1>1, <1>4, Zenon DEF PlaceInv, P
<1> QED
  BY <1>8, <1>9

LEMMA CommandMoves ==
    ASSUME PlaceInv, CommandTake
    PROVE  PlaceInv' /\ NoneNew
<1>1. /\ packetQueue # <<>>
      /\ packetQueue' = Tail(packetQueue)
      /\ readQueue' = Append(readQueue, Head(packetQueue))
      /\ UNCHANGED <<client, readLock, leftOver, inSes, closed, reader>>
  BY Zenon DEF CommandTake, commandElse
<1>2. packetQueue \in Seq(Packet) /\ readQueue \in Seq(Packet)
  BY Zenon DEF PlaceInv
<1>3. /\ Head(packetQueue) \in Packet /\ Tail(packetQueue) \in Seq(Packet)
      /\ Head(packetQueue) \in Members(packetQueue)
      /\ Members(Tail(packetQueue)) \subseteq Members(packetQueue)
  BY <1>1, <1>2, MembersMoved
<1> DEFINE h == Head(packetQueue)
<1> HIDE DEF h
<1>4. h \in Packet /\ readQueue' = Append(readQueue, h) /\ h \in Members(packetQueue)
  BY <1>1, <1>3 DEF h
<1>5. /\ readQueue' \in Seq(Packet)
      /\ Members(Append(readQueue, h)) \subseteq Members(readQueue) \cup {h}
  BY <1>2, <1>4, MembersMoved
<1>6. Members(readQueue)' \subseteq Members(readQueue) \cup {h}
  BY <1>4, <1>5 DEF Members
<1>7. Members(packetQueue)' \subseteq Members(packetQueue)
  BY <1>1, <1>3 DEF Members
<1>8. Hands' = Hands /\ Lefts' = Lefts
  BY <1>1 DEF Hands, Lefts
<1>9. NoneNew
  BY <1>4, <1>6, <1>7, <1>8, LessIsNoneNew DEF Flight
<1>10. PlaceInv'
  BY <1>1, <1>3, <1>5, Zenon DEF PlaceInv
<1> QED
  BY <1>9, <1>10

LEMMA ReaderTurns ==
    ASSUME ReaderShape, PlaceInv, NEW t \in Readers,
           ReaderEnter(t) \/ ReaderPop(t) \/ ReaderLeave(t)
    PROVE  PlaceInv' /\ NoneNew
<1> DEFINE P == Packet \cup {None}
<1>1. UNCHANGED <<client, packetQueue, leftOver, inSes, closed>>
  BY Zenon DEF ReaderEnter, ReaderPop, ReaderLeave, readerElse, input
<1>2. /\ packetQueue \in Seq(Packet) /\ readQueue \in Seq(Packet)
      /\ leftOver \in Seq(P) /\ leftOver # <<>>
  BY Zenon DEF PlaceInv
<1> HIDE DEF P
<1>3. 1 \in DOMAIN leftOver /\ Len(leftOver) \in DOMAIN leftOver
  BY <1>2
<1>4. Lefts' = Lefts /\ Members(packetQueue)' = Members(packetQueue)
  BY <1>1 DEF Lefts, Members
<1>5. DOMAIN reader = Readers /\ \A u \in Readers : DOMAIN reader[u] = {"pc", "map", "packet"}
  BY DEF ReaderShape
<1>6. {readLock', closed'} \subseteq BOOLEAN
  <2>1. closed' \in BOOLEAN /\ readLock \in BOOLEAN
    BY <1>1, Zenon DEF PlaceInv
  <2>2. readLock' \in BOOLEAN
    BY <2>1, Zenon DEF ReaderEnter, ReaderPop, ReaderLeave
  <2> QED
    BY <2>1, <2>2
<1>7. CASE ReaderPop(t) /\ readQueue' # readQueue
  <2> DEFINE h == Head(readQueue)
  <2>1. /\ readQueue # <<>> /\ readQueue' = Tail(readQueue)
        /\ reader' = [reader EXCEPT ![t].pc = "decrypt", ![t].packet = h]
    BY <1>7, Zenon DEF ReaderPop
  <2>2. /\ h \in Packet /\ readQueue' \in Seq(Packet) /\ h \in Members(readQueue)
        /\ Members(Tail(readQueue)) \subseteq Members(readQueue)
    BY <1>2, <2>1, MembersMoved
  <2> HIDE DEF h
  <2>3. /\ reader'[t].packet = h /\ reader'[t].map = reader[t].map
        /\ \A u \in Readers \ {t} : reader'[u] = reader[u]
    BY <1>5, <2>1, Zenon
  <2>4. Members(readQueue)' \subseteq Members(readQueue)
    BY <2>1, <2>2 DEF Members
  <2>5. Hands' \subseteq Hands \cup {h}
    BY <2>3, Zenon DEF Hands
  <2>6. NoneNew
    BY <1>4, <2>2, <2>4, <2>5, LessIsNoneNew DEF Flight
  <2>7. \A u \in Readers : /\ reader'[u].map \in DOMAIN leftOver
                           /\ reader'[u].pc = "decrypt" => reader'[u].packet \in Packet
    BY <2>2, <2>3, Zenon DEF PlaceInv
  <2>8. PlaceInv'
    BY <1>1, <1>6, <2>2, <2>7, Zenon DEF PlaceInv
  <2> QED
    BY <2>6, <2>8
<1>8. CASE ~(ReaderPop(t) /\ readQueue' # readQueue)
  <2>1. /\ readQueue' = readQueue
        /\ \E s \in {"pop", "leave", "idle"}, v \in DOMAIN leftOver :
              reader' = [reader EXCEPT ![t].pc = s, ![t].map = v]
    <3>1. CASE ReaderEnter(t)
      BY <1>3, <3>1, Zenon DEF ReaderEnter
    <3>2. CASE ReaderLeave(t)
      BY <1>3, <3>2, Zenon DEF ReaderLeave
    <3>3. CASE ReaderPop(t)
      <4>1. readQueue' = readQueue
        BY <1>8, <3>3
      <4>2. readQueue # <<>> => Tail(readQueue) # readQueue
        BY <1>2
      <4>3. reader' = [reader EXCEPT ![t].pc = "leave"]
        BY <3>3, <4>1, <4>2, Zenon DEF ReaderPop
      <4>4. reader' = [reader EXCEPT ![t].pc = "leave", ![t].map = reader[t].map]
        BY <1>5, <4>3, Zenon
      <4>5. reader[t].map \in DOMAIN leftOver
        BY Zenon DEF PlaceInv
      <4> QED
        BY <4>1, <4>4, <4>5, Zenon
    <3> QED
      BY <3>1, <3>2, <3>3
  <2>2. PICK s \in {"pop", "leave", "idle"}, v \in DOMAIN leftOver :
              reader' = [reader EXCEPT ![t].pc = s, ![t].map = v]
    BY <2>1
  <2>3. /\ reader'[t].pc = s /\ reader'[t].map = v
        /\ \A u \in Readers \ {t} : reader'[u] = reader[u]
    BY <1>5, <2>2, Zenon
  <2>4. s # "decrypt"
    BY <2>2
  <2>5. Hands' \subseteq Hands
    BY <2>3, <2>4, Zenon DEF Hands
  <2>6. Members(readQueue)' = Members(readQueue)
    BY <2>1 DEF Members
  <2>7. NoneNew
    BY <1>4, <2>5, <2>6, LessIsNoneNew DEF Flight
  <2>8. \A u \in Readers : /\ reader'[u].map \in DOMAIN leftOver
                           /\ reader'[u].pc = "decrypt" => reader'[u].packet \in Packet
    BY <2>3, <2>4, Zenon DEF PlaceInv
  <2>9. PlaceInv'
    BY <1>1, <1>6, <2>1, <2>8, Zenon DEF PlaceInv
  <2> QED
    BY <2>7, <2>9
<1> QED
  BY <1>7, <1>8

(* The packet h has been accepted by the session as a piece of a message. *)
Admitted(h) ==
    /\ h.seq = inSes.seq /\ h.msg # RekeyMsg /\ inSes' = Counted(inSes) /\ viewer' = TRUE
    /\ payloads' = payloads \cup (IF viewer THEN {<<h.msg, h.frag>>} ELSE {})
    /\ msgQueue' = msgQueue \cup (IF viewer THEN {} ELSE {h.msg})

(* A reader that decrypts: the session counts the packet, and hands on at most
   the one it expected. *)
LEMMA DecryptMoves ==
    ASSUME ReaderShape, PlaceInv, NEW t \in Readers, ReaderDecrypt(t)
    PROVE  /\ PlaceInv' /\ NoneNew
           /\ \/ inSes'.seq >= inSes.seq /\ UNCHANGED <<viewer, payloads, msgQueue>>
              \/ \E h \in Flight : Admitted(h)
<1> DEFINE v == reader[t].map
           h == reader[t].packet
           p == Joined(leftOver[v], h)
           x == IF p.part = "head" THEN p ELSE None
           P == Packet \cup {None}
           quiet == UNCHANGED <<viewer, payloads, msgQueue>>
<1>1. /\ reader[t].pc = "decrypt"
      /\ reader' = [reader EXCEPT ![t].pc = "pop", ![t].packet = None]
      /\ leftOver' = [leftOver EXCEPT ![v] = x]
      /\ UNCHANGED <<client, packetQueue, readQueue, readLock>>
  BY Zenon DEF ReaderDecrypt, readerElse, input
<1>2. \/ inSes' = inSes /\ closed' = closed /\ quiet
      \/ Accept(p) /\ Decrypts(inSes, p) /\ closed' = closed
      \/ closed' = TRUE /\ inSes' = Counted(inSes) /\ quiet
  <2>1. CASE p.part = "head"
    BY <2>1 DEF ReaderDecrypt
  <2>2. CASE p.part # "head" /\ p.part = "whole" /\ Decrypts(inSes, p)
    BY <2>2 DEF ReaderDecrypt
  <2>3. CASE p.part # "head" /\ ~(p.part = "whole" /\ Decrypts(inSes, p))
    BY <2>3 DEF ReaderDecrypt
  <2> QED
    BY <2>1, <2>2, <2>3
<1>3. h \in Packet /\ h \in Hands /\ v \in DOMAIN leftOver
  BY <1>1, Zenon DEF PlaceInv, Hands
<1>4. p \in Packet /\ SamePiece(h, p)
  BY <1>3, JoinedSame
<1>5. inSes \in Session /\ closed \in BOOLEAN /\ readLock \in BOOLEAN
  BY Zenon DEF PlaceInv
<1> HIDE DEF h, p
<1>6. x \in P
  BY <1>4
<1>7. x # None => SamePiece(h, x)
  BY <1>4
<1> HIDE DEF x
<1>8. leftOver' \in Seq(P) /\ DOMAIN leftOver' = DOMAIN leftOver /\ leftOver' # <<>>
      /\ leftOver'[v] = x
      /\ \A w \in DOMAIN leftOver \ {v} : leftOver'[w] = leftOver[w]
  <2>1. leftOver \in Seq(P) /\ leftOver # <<>>
    BY Zenon DEF PlaceInv
  <2> HIDE DEF P, v
  <2> QED
    BY <1>1, <1>3, <1>6, <2>1
<1>9. /\ reader'[t].pc = "pop" /\ reader'[t].map = v
      /\ \A u \in Readers \ {t} : reader'[u] = reader[u]
  BY <1>1, Zenon DEF ReaderShape
<1>10. /\ inSes' \in Session /\ closed' \in BOOLEAN
       /\ \/ inSes'.seq >= inSes.seq /\ quiet
          \/ Admitted(h)
  <2>1. /\ inSes.seq \in Nat /\ Counted(inSes) \in Session
        /\ Counted(inSes).seq = inSes.seq + 1
    BY <1>5, SessionSteps
  <2>2. /\ Rekeyed(Counted(inSes)) \in Session
        /\ Rekeyed(Counted(inSes)).seq = inSes.seq + 1
    BY <2>1, SessionSteps
  <2>3. CASE inSes' = inSes /\ closed' = closed /\ quiet
    BY <1>5, <2>1, <2>3
  <2>4. CASE closed' = TRUE /\ inSes' = Counted(inSes) /\ quiet
    BY <1>5, <2>1, <2>4
  <2>5. CASE Accept(p) /\ Decrypts(inSes, p) /\ closed' = closed
    <3>1. CASE p.msg = RekeyMsg
      <4>1. inSes' = Rekeyed(Counted(inSes)) /\ quiet
        BY <2>5, <3>1, Zenon DEF Accept
      <4> QED
        BY <1>5, <2>1, <2>2, <2>5, <4>1
    <3>2. CASE p.msg # RekeyMsg
      <4>1. /\ inSes' = Counted(inSes) /\ viewer' = TRUE
            /\ payloads' = payloads \cup (IF viewer THEN {<<p.msg, p.frag>>} ELSE {})
            /\ msgQueue' = msgQueue \cup (IF viewer THEN {} ELSE {p.msg})
        BY <2>5, <3>2, Zenon DEF Accept
      <4>2. p.seq = inSes.seq
        BY <2>5 DEF Decrypts
      <4>3. Admitted(h)
        BY <1>4, <3>2, <4>1, <4>2, Zenon DEF Admitted, SamePiece
      <4> QED
        BY <1>5, <2>1, <2>5, <4>1, <4>3
    <3> QED
      BY <3>1, <3>2
  <2> QED
    BY <1>2, <2>3, <2>4, <2>5
<1>11. NoneNew
  <2>1. Hands' \subseteq Hands
    <3>1. "pop" # "decrypt"
      OBVIOUS
    <3> QED
      BY <1>9, <3>1, Zenon DEF Hands
  <2>2. \A q \in Lefts' : q \in Lefts \/ SamePiece(h, q)
    BY <1>7, <1>8, Zenon DEF Lefts
  <2>3. Members(packetQueue)' = Members(packetQueue) /\ Members(readQueue)' = Members(readQueue)
    BY <1>1 DEF Members
  <2>4. \A q : SamePiece(q, q)
    BY DEF SamePiece
  <2>5. \A q \in Flight' : q \in Flight \/ SamePiece(h, q)
    BY <2>1, <2>2, <2>3, Zenon DEF Flight
  <2>6. h \in Flight
    BY <1>3 DEF Flight
  <2> QED
    BY <2>4, <2>5, <2>6, Zenon DEF NoneNew
<1>12. \A u \in Readers : /\ reader'[u].map \in DOMAIN leftOver'
                          /\ reader'[u].pc = "decrypt" => reader'[u].packet \in Packet
  <2>1. "pop" # "decrypt"
    OBVIOUS
  <2> QED
    BY <1>3, <1>8, <1>9, <2>1, Zenon DEF PlaceInv
<1>13. {readLock', closed'} \subseteq BOOLEAN
  BY <1>1, <1>5, <1>10
<1>14. PlaceInv'
  BY <1>1, <1>8, <1>10, <1>12, <1>13, Zenon DEF PlaceInv, P
<1>15. h \in Flight
  BY <1>3 DEF Flight
<1> QED
  BY <1>10, <1>11, <1>14, <1>15

(* What the client puts on the wire: pieces of its next message, under sequence
   numbers of their own, and perhaps a rekey. *)
LEMMA SentPieces ==
    ASSUME NEW ses \in Session, NEW m \in Nat, m <= Len(Fragments)
    PROVE  \A p \in Members(Encrypted(ses, m)) :
              /\ p \in Packet /\ p.msg = m /\ p.frag \in 1 .. Count(m)
              /\ p.seq = ses.seq + p.frag - 1
<1> DEFINE n == Count(m)
           S(f) == [ses EXCEPT !.seq = @ + f - 1]
           E == Encrypted(ses, m)
<1>1. n \in Nat /\ n > 0 /\ m \in {RekeyMsg, 0} \cup Commands /\ m # RekeyMsg
  BY DispatchAssumption DEF Count, Commands, RekeyMsg
<1>2. ses.key \in Nat /\ ses.seq \in Nat /\ DOMAIN ses = {"key", "seq"}
  BY Zenon DEF Session
<1> HIDE DEF n
<1>3. ASSUME NEW f \in 1 .. n
      PROVE  /\ Data(S(f), m, f) \in Packet /\ Data(S(f), m, f).seq = ses.seq + f - 1
             /\ Data(S(f), m, f).msg = m /\ Data(S(f), m, f).frag = f
  <2>1. S(f).key = ses.key /\ S(f).seq = ses.seq + f - 1
    BY <1>2, Zenon
  <2>2. f \in Nat /\ ses.seq + f - 1 \in Nat /\ "whole" \in {"whole", "head", "tail"}
    BY <1>1, <1>2
  <2> HIDE DEF S
  <2>3. Data(S(f), m, f) = [key |-> ses.key, seq |-> ses.seq + f - 1, msg |-> m,
                             frag |-> f, part |-> "whole"]
    BY <2>1, Zenon DEF Data
  <2>4. Data(S(f), m, f) \in Packet
    BY <2>2, <2>3, <1>1, <1>2 DEF Packet
  <2> QED
    BY <2>3, <2>4
<1>4. E = [f \in 1 .. n |-> Data(S(f), m, f)]
  BY Zenon DEF Encrypted, n
<1> HIDE DEF E, S
<1>5. \A p \in Members(E) : \E f \in 1 .. n : p = Data(S(f), m, f)
  BY <1>4, Zenon DEF Members
<1>6. ASSUME NEW p \in Members(E)
      PROVE  /\ p \in Packet /\ p.msg = m /\ p.frag \in 1 .. n
             /\ p.seq = ses.seq + p.frag - 1
  <2>1. PICK f \in 1 .. n : p = Data(S(f), m, f)
    BY <1>5
  <2> QED
    BY <1>3, <2>1
<1> QED
  BY <1>6 DEF E, n

(* A packet that arrives in two parts is still one piece. *)
LEMMA DeliveredPieces ==
    ASSUME NEW s \in Seq(Packet), s # <<>>, NEW cut \in BOOLEAN
    PROVE  \A q \in Members(Delivered(s, cut)) : \E p \in Members(s) : SamePiece(p, q)
<1> DEFINE h == Head(s)
           a == [h EXCEPT !.part = "head"]
           b == [h EXCEPT !.part = "tail"]
<1>1. /\ h \in Packet /\ h \in Members(s) /\ Tail(s) \in Seq(Packet)
      /\ Members(Tail(s)) \subseteq Members(s)
  BY MembersMoved
<1>2. \A q : SamePiece(q, q)
  BY DEF SamePiece
<1>3. CASE cut
  <2>0. "head" \in {"whole", "head", "tail"} /\ "tail" \in {"whole", "head", "tail"}
    OBVIOUS
  <2>1. a \in Packet /\ b \in Packet /\ SamePiece(h, a) /\ SamePiece(h, b)
    BY <1>1, <2>0, Relabelled, Zenon
  <2>2. Delivered(s, cut) = <<a, b>> \o Tail(s)
    BY <1>3 DEF Delivered, Cut
  <2> HIDE DEF h, a, b
  <2>3. <<a, b>> \in Seq(Packet) /\ Members(<<a, b>>) \subseteq {a, b}
    BY <2>1 DEF Members
  <2>4. Members(<<a, b>> \o Tail(s)) \subseteq Members(<<a, b>>) \cup Members(Tail(s))
    BY <1>1, <2>3, MembersMoved
  <2>5. \A q \in Members(Delivered(s, cut)) : q = a \/ q = b \/ q \in Members(s)
    BY <1>1, <2>2, <2>3, <2>4
  <2> QED
    BY <1>1, <1>2, <2>1, <2>5, Zenon
<1>4. CASE ~cut
  <2>1. Delivered(s, cut) = s
    BY <1>4 DEF Delivered
  <2> QED
    BY <1>2, <2>1, Zenon
<1> QED
  BY <1>3, <1>4

(* q is a piece of message m as a session at b encrypts it. *)
PieceOf(q, m, b) == q.msg = m /\ q.frag \in 1 .. Count(m) /\ q.seq = b + q.frag - 1

(* A send puts the pieces of one command on the wire, numbered in order, with at
   most a rekey before them. *)
LEMMA SendMoves ==
    ASSUME PlaceInv, client.sent \in Nat, DOMAIN client = ClientFields,
           NEW rekey \in BOOLEAN, NEW cut \in BOOLEAN, ClientSend(rekey, cut)
    PROVE  /\ PlaceInv'
           /\ \E b \in Nat : \A q \in Flight' :
                 q \in Flight \/ q.msg = RekeyMsg \/ PieceOf(q, client.sent, b)
<1> DEFINE m == client.sent
           o == client.out
           ses == IF rekey THEN Rekeyed(Counted(client.out)) ELSE client.out
           E == Encrypted(ses, m)
           R == IF rekey THEN <<RekeyPacket(client.out)>> ELSE <<>>
           s == R \o E
           D == Delivered(s, cut)
           end == [ses EXCEPT !.seq = @ + Count(m)]
<1>1. /\ m <= Len(Fragments)
      /\ packetQueue' = packetQueue \o D
      /\ client' = [client EXCEPT !.sent = @ + 1, !.out = end]
      /\ UNCHANGED <<reader, readLock, leftOver, readQueue, inSes, closed>>
  BY Zenon DEF ClientSend, conn
<1>2. o \in Session /\ packetQueue \in Seq(Packet)
  BY Zenon DEF PlaceInv
<1>3. D \in Seq(Packet) /\ end \in Session
  <2>1. Train(D, o, end)
    BY <1>1, <1>2, TrainSent
  <2> HIDE DEF D, end
  <2> QED
    BY <2>1, Zenon DEF Train
<1>4. ses \in Session
  <2>1. Counted(o) \in Session
    BY <1>2, SessionSteps
  <2>2. Rekeyed(Counted(o)) \in Session
    BY <2>1, SessionSteps
  <2> QED
    BY <1>2, <2>2
<1> HIDE DEF ses
<1>5. E \in Seq(Packet) /\ E # <<>>
  <2>1. E # <<>> /\ Train(E, ses, [ses EXCEPT !.seq = @ + Count(m)])
    BY <1>1, <1>4, TrainEncrypted, Zenon
  <2> HIDE DEF E
  <2> QED
    BY <2>1, Zenon DEF Train
<1>6. \A p \in Members(E) : PieceOf(p, m, ses.seq)
  <2>1. \A p \in Members(E) : /\ p.msg = m /\ p.frag \in 1 .. Count(m)
                              /\ p.seq = ses.seq + p.frag - 1
    BY <1>1, <1>4, SentPieces
  <2> HIDE DEF E, m
  <2> QED
    BY <2>1, Zenon DEF PieceOf
<1>7. R \in Seq(Packet) /\ \A p \in Members(R) : p.msg = RekeyMsg
  <2> DEFINE r == RekeyPacket(o)
  <2>1. o.key \in Nat /\ o.seq \in Nat
    BY <1>2, SessionSteps
  <2>2. r = [key |-> o.key, seq |-> o.seq, msg |-> RekeyMsg, frag |-> 1, part |-> "whole"]
    BY DEF RekeyPacket, Data
  <2>3. r \in Packet /\ r.msg = RekeyMsg
    BY <2>1, <2>2 DEF Packet
  <2>4. R = <<r>> \/ R = <<>>
    OBVIOUS
  <2> HIDE DEF r, R
  <2>5. CASE R = <<r>>
    <3>1. \A p \in Members(<<r>>) : p = r
      BY DEF Members
    <3> QED
      BY <2>3, <2>5, <3>1
  <2>6. CASE R = <<>>
    BY <2>6 DEF Members
  <2> QED
    BY <2>4, <2>5, <2>6
<1> HIDE DEF E, R, end
<1>8. /\ s \in Seq(Packet) /\ s # <<>>
      /\ Members(s) \subseteq Members(R) \cup Members(E)
  <2>1. s \in Seq(Packet) /\ Members(s) \subseteq Members(R) \cup Members(E)
    BY <1>5, <1>7, MembersMoved
  <2>2. s # <<>>
    BY <1>5, <1>7
  <2> QED
    BY <2>1, <2>2
<1>9. \A q \in Members(D) : \E p \in Members(s) : SamePiece(p, q)
  BY <1>8, DeliveredPieces
<1> HIDE DEF s, D
<1>10. \A q \in Members(D) : q.msg = RekeyMsg \/ PieceOf(q, m, ses.seq)
  <2> SUFFICES ASSUME NEW q \in Members(D)
               PROVE  q.msg = RekeyMsg \/ PieceOf(q, m, ses.seq)
    OBVIOUS
  <2>1. PICK p \in Members(s) : SamePiece(p, q)
    BY <1>9
  <2>2. p.msg = RekeyMsg \/ PieceOf(p, m, ses.seq)
    BY <1>6, <1>7, <1>8
  <2> QED
    BY <2>1, <2>2, Zenon DEF SamePiece, PieceOf
<1>11. /\ packetQueue' \in Seq(Packet)
       /\ Members(packetQueue \o D) \subseteq Members(packetQueue) \cup Members(D)
  BY <1>1, <1>2, <1>3, MembersMoved
<1>12. Members(packetQueue)' \subseteq Members(packetQueue) \cup Members(D)
  BY <1>1, <1>11 DEF Members
<1>13. Members(readQueue)' = Members(readQueue) /\ Hands' = Hands /\ Lefts' = Lefts
  BY <1>1 DEF Members, Hands, Lefts
<1>14. \A q \in Flight' : q \in Flight \/ q.msg = RekeyMsg \/ PieceOf(q, m, ses.seq)
  BY <1>10, <1>12, <1>13, Zenon DEF Flight
<1>15. ses.seq \in Nat
  BY <1>4, SessionSteps
<1>16. client'.out = end
  BY <1>1, Zenon DEF ClientFields
<1>17. PlaceInv'
  BY <1>1, <1>3, <1>11, <1>16, Zenon DEF PlaceInv
<1> QED
  BY <1>14, <1>15, <1>17, Zenon

-----------------------------------------------------------------------------
(* Each piece goes from the wire to a queue, a parser's hands and the map *)

(* Commands are numbered from 1, and each has at least one piece. *)
LEMMA CommandsNat ==
    /\ Len(Fragments) \in Nat /\ 0 \notin Commands /\ Commands \subseteq Nat
    /\ RekeyMsg \notin Nat /\ RekeyMsg \notin Commands /\ RekeyMsg # 0
    /\ \A m \in Commands : m <= Len(Fragments) /\ m >= 1
    /\ \A m \in Commands : Count(m) \in Nat /\ Count(m) >= 1
    /\ Count(0) = 1
BY DispatchAssumption DEF Commands, RekeyMsg, Count

(* What is held is a piece of a command that was sent and has not run. *)
LEMMA HeldSent ==
    ASSUME HeldInv, ParsersApart, NEW m, NEW f, f # 0, Held(m, f)
    PROVE  /\ m \in Commands /\ f \in 1 .. Count(m)
           /\ lastValid < m /\ m < client.sent
<1>1. ASSUME Piece(<<m, f>>) PROVE m \in Commands /\ f \in 1 .. Count(m)
  BY <1>1 DEF Piece
<1>2. m \in Commands /\ f \in 1 .. Count(m)
  <2>1. CASE <<m, f>> \in payloads
    BY <1>1, <2>1, Zenon DEF HeldInv
  <2>2. CASE InHand(<<m, f>>)
    <3>1. <<m, f>> = NoData \/ Piece(<<m, f>>)
      BY <2>2, Zenon DEF InHand, ParsersApart
    <3>2. <<m, f>> # NoData
      BY DEF NoData
    <3> QED
      BY <1>1, <3>1, <3>2
  <2>3. CASE InMap(m, f)
    BY <2>3, Zenon DEF HeldInv, InMap
  <2> QED
    BY <2>1, <2>2, <2>3 DEF Held
<1> QED
  BY <1>2, Zenon DEF HeldInv

LEMMA FlightTypedNext == PlaceInv' => Flight' \subseteq Packet
<1>1. PlaceInv' => (Flight \subseteq Packet)'
  BY FlightTyped, PTL
<1> QED
  BY <1>1

(* With no new packet and the session's counter not set back, FlightInv stays. *)
LEMMA FlightLess ==
    ASSUME PlaceInv, PlaceInv', FlightInv, NoneNew, inSes'.seq >= inSes.seq,
           client'.sent = client.sent,
           UNCHANGED <<viewer, payloads, messageMap, lastValid, parser>>
    PROVE  FlightInv'
<1>1. \A p \in Flight \cup Flight' : p.seq \in Nat
  BY FlightTyped, FlightTypedNext, PacketFields
<1>2. inSes.seq \in Nat /\ inSes'.seq \in Nat
  BY SessionSteps DEF PlaceInv
<1>3. \A m, f : Held(m, f)' = Held(m, f)
  BY Zenon DEF Held, InHand, InMap
<1>4. ASSUME NEW p \in Flight', p.msg # RekeyMsg
      PROVE  p.msg < client'.sent /\ p.frag \in 1 .. Count(p.msg)
  <2>1. PICK q \in Flight : SamePiece(q, p)
    BY DEF NoneNew
  <2> QED
    BY <1>4, <2>1, Zenon DEF FlightInv, SamePiece
<1>5. ASSUME NEW p \in Flight', NEW q \in Flight', p.msg # RekeyMsg, p.msg = q.msg,
             p.frag = q.frag
      PROVE  p.seq = q.seq
  <2>1. PICK a \in Flight : SamePiece(a, p)
    BY DEF NoneNew
  <2>2. PICK b \in Flight : SamePiece(b, q)
    BY DEF NoneNew
  <2> QED
    BY <1>5, <2>1, <2>2, Zenon DEF FlightInv, SamePiece
<1>6. ASSUME NEW p \in Flight', p.msg # RekeyMsg, p.seq >= inSes'.seq
      PROVE  /\ ~Held(p.msg, p.frag)' /\ (p.msg = 0 => ~viewer')
             /\ (p.msg # 0 => lastValid' < p.msg)
  <2>1. PICK q \in Flight : SamePiece(q, p)
    BY DEF NoneNew
  <2>2. q.msg = p.msg /\ q.frag = p.frag /\ q.seq >= inSes.seq
    BY <1>1, <1>2, <1>6, <2>1 DEF SamePiece
  <2>3. /\ ~Held(q.msg, q.frag) /\ (q.msg = 0 => ~viewer)
        /\ (q.msg # 0 => lastValid < q.msg)
    BY <1>6, <2>2 DEF FlightInv
  <2> QED
    BY <1>3, <2>2, <2>3
<1> QED
  BY <1>4, <1>5, <1>6 DEF FlightInv

(* What is held stays; the client may have sent more. *)
LEMMA HeldKept ==
    ASSUME ParsersApart, HeldInv, client.sent \in Nat, client'.sent \in Nat,
           client'.sent >= client.sent,
           UNCHANGED <<payloads, parser, messageMap, lastValid, processLock, flags>>
    PROVE  ParsersApart' /\ HeldInv'
<1>1. /\ \A m, f : Held(m, f)' = Held(m, f)
      /\ \A pl : InHand(pl)' = InHand(pl)
  BY Zenon DEF Held, InHand, InMap
<1>2. lastValid \in Nat /\ Commands \subseteq Nat
  BY CommandsNat DEF ParsersApart
<1>3. lastValid' = 0 \/ lastValid' < client'.sent
  BY <1>2 DEF ParsersApart
<1>4. ParsersApart'
  BY <1>3, Zenon DEF ParsersApart
<1>5. \A m \in Commands : \A f \in 1 .. Count(m) :
         Held(m, f)' => lastValid' < m /\ m < client'.sent
  BY <1>1, <1>2 DEF HeldInv
<1>6. HeldInv'
  BY <1>1, <1>5, Zenon DEF HeldInv
<1> QED
  BY <1>4, <1>6

(* The client sends: nothing of the new message is held yet. *)
LEMMA SendFlight ==
    ASSUME PlaceInv, PlaceInv', ReplyInv, FlightInv, ParsersApart, HeldInv,
           client'.sent = client.sent + 1,
           NEW b \in Nat,
           \A q \in Flight' : q \in Flight \/ q.msg = RekeyMsg \/ PieceOf(q, client.sent, b),
           UNCHANGED <<inSes, viewer, payloads, messageMap, lastValid, parser>>
    PROVE  FlightInv'
<1> DEFINE m == client.sent
<1>1. m \in Nat /\ client'.sent = m + 1 /\ lastValid \in Nat
  BY CommandsNat DEF ReplyInv, ParsersApart
<1>2. \A i, f : Held(i, f)' = Held(i, f)
  BY Zenon DEF Held, InHand, InMap
<1>3. \A q \in Flight : /\ q.seq \in Nat /\ q.msg \in {RekeyMsg, 0} \cup Commands
                        /\ q.msg \in Int
  <2>1. \A q \in Flight : q.seq \in Nat /\ q.msg \in {RekeyMsg, 0} \cup Commands
    BY FlightTyped, PacketFields
  <2>2. RekeyMsg \in Int
    BY DEF RekeyMsg
  <2>3. \A x \in {RekeyMsg, 0} \cup Commands : x \in Int
    BY <2>2, CommandsNat
  <2> QED
    BY <2>1, <2>3, Zenon
<1>4. \A q \in Flight' : q.msg # RekeyMsg => q \in Flight \/ PieceOf(q, m, b)
  OBVIOUS
<1>5. \A q \in Flight : q.msg # RekeyMsg => q.msg < m /\ q.msg # m
  BY <1>1, <1>3 DEF FlightInv
<1>6. /\ m = 0 => ~viewer
      /\ m # 0 => lastValid < m
  BY <1>1 DEF ReplyInv, ParsersApart
<1>7. ASSUME NEW f \in 1 .. Count(m) PROVE ~Held(m, f)
  BY <1>1, HeldSent
<1> HIDE DEF m
<1>8. ASSUME NEW p \in Flight', p.msg # RekeyMsg
      PROVE  p.msg < client'.sent /\ p.frag \in 1 .. Count(p.msg)
  <2>1. CASE p \in Flight
    BY <1>1, <1>3, <1>5, <1>8, <2>1 DEF FlightInv
  <2>2. CASE PieceOf(p, m, b)
    BY <1>1, <2>2 DEF PieceOf
  <2> QED
    BY <1>4, <1>8, <2>1, <2>2
<1>9. ASSUME NEW p \in Flight', NEW q \in Flight', p.msg # RekeyMsg, p.msg = q.msg,
             p.frag = q.frag
      PROVE  p.seq = q.seq
  <2>1. CASE p \in Flight /\ q \in Flight
    BY <1>9, <2>1 DEF FlightInv
  <2>2. CASE PieceOf(p, m, b) /\ PieceOf(q, m, b)
    BY <1>9, <2>2, Zenon DEF PieceOf
  <2>3. CASE p \in Flight /\ PieceOf(q, m, b)
    BY <1>5, <1>9, <2>3 DEF PieceOf
  <2>4. CASE PieceOf(p, m, b) /\ q \in Flight
    BY <1>5, <1>9, <2>4 DEF PieceOf
  <2> QED
    BY <1>4, <1>9, <2>1, <2>2, <2>3, <2>4
<1>10. ASSUME NEW p \in Flight', p.msg # RekeyMsg, p.seq >= inSes'.seq
       PROVE  /\ ~Held(p.msg, p.frag)' /\ (p.msg = 0 => ~viewer')
              /\ (p.msg # 0 => lastValid' < p.msg)
  <2>1. CASE p \in Flight
    <3>1. /\ ~Held(p.msg, p.frag) /\ (p.msg = 0 => ~viewer)
          /\ (p.msg # 0 => lastValid < p.msg)
      BY <1>10, <2>1 DEF FlightInv
    <3> QED
      BY <1>2, <3>1
  <2>2. CASE PieceOf(p, m, b)
    <3>1. p.msg = m /\ p.frag \in 1 .. Count(m)
      BY <2>2 DEF PieceOf
    <3> QED
      BY <1>2, <1>6, <1>7, <3>1
  <2> QED
    BY <1>4, <1>10, <2>1, <2>2
<1> QED
  BY <1>8, <1>9, <1>10 DEF FlightInv

(* The session accepts a packet: with a viewer its piece is queued, without one
   it is the registration. *)
LEMMA AdmitKeeps ==
    ASSUME PlaceInv, PlaceInv', ReplyInv, FlightInv, ParsersApart, HeldInv, NoneNew,
           NEW h \in Flight, Admitted(h),
           UNCHANGED <<client, flags, processLock, messageMap, lastValid, parser,
                       writeLock, writer>>
    PROVE  ReplyInv' /\ FlightInv' /\ ParsersApart' /\ HeldInv'
<1> USE CommandsNat
<1> DEFINE m == h.msg
           f == h.frag
<1>1. \A p \in Flight \cup Flight' : p.seq \in Nat
  BY FlightTyped, FlightTypedNext, PacketFields
<1>2. m \in {RekeyMsg, 0} \cup Commands
  BY FlightTyped, PacketFields
<1>3. /\ h.seq = inSes.seq /\ m # RekeyMsg /\ inSes' = Counted(inSes) /\ viewer' = TRUE
      /\ payloads' = payloads \cup (IF viewer THEN {<<m, f>>} ELSE {})
      /\ msgQueue' = msgQueue \cup (IF viewer THEN {} ELSE {m})
  BY Zenon DEF Admitted
<1>4. inSes.seq \in Nat /\ inSes'.seq = inSes.seq + 1
  BY <1>3, SessionSteps DEF PlaceInv
<1>5. m \in Nat /\ m < client.sent /\ f \in 1 .. Count(m) /\ client.sent \in Nat
  <2>1. m < client.sent /\ f \in 1 .. Count(m)
    BY <1>3, Zenon DEF FlightInv
  <2>2. client.sent \in Nat
    BY DEF ReplyInv
  <2>3. m # RekeyMsg
    BY <1>3
  <2> HIDE DEF m
  <2>4. m = 0 \/ m \in Commands
    BY <1>2, <2>3
  <2>5. m \in Nat
    BY <2>4, 0 \in Nat, Commands \subseteq Nat, Zenon
  <2> QED
    BY <2>1, <2>2, <2>5, Zenon
<1>6. /\ ~Held(m, f) /\ (m = 0 => ~viewer) /\ (m # 0 => lastValid < m)
  <2>1. h.seq >= inSes.seq
    BY <1>3, <1>4
  <2> QED
    BY <1>3, <2>1, Zenon DEF FlightInv
<1>7. viewer \in BOOLEAN
  BY DEF ReplyInv
<1>8. ASSUME NEW p \in Flight'
      PROVE  \E q \in Flight : SamePiece(q, p)
  BY Zenon DEF NoneNew
<1>9. ASSUME NEW p \in Flight', p.msg = m, p.frag = f PROVE p.seq < inSes'.seq
  <2>1. PICK q \in Flight : SamePiece(q, p)
    BY <1>8
  <2>2. q.seq = h.seq
    BY <1>3, <1>9, <2>1 DEF FlightInv, SamePiece
  <2> QED
    BY <1>3, <1>4, <2>1, <2>2 DEF SamePiece
<1>10. ASSUME NEW p \in Flight', p.msg # RekeyMsg
       PROVE  p.msg < client'.sent /\ p.frag \in 1 .. Count(p.msg)
  <2>1. PICK q \in Flight : SamePiece(q, p)
    BY <1>8
  <2> QED
    BY <1>10, <2>1, Zenon DEF FlightInv, SamePiece
<1>11. ASSUME NEW p \in Flight', NEW q \in Flight', p.msg # RekeyMsg, p.msg = q.msg,
              p.frag = q.frag
       PROVE  p.seq = q.seq
  <2>1. PICK a \in Flight : SamePiece(a, p)
    BY <1>8
  <2>2. PICK b \in Flight : SamePiece(b, q)
    BY <1>8
  <2> QED
    BY <1>11, <2>1, <2>2, Zenon DEF FlightInv, SamePiece
<1>12. ASSUME NEW p \in Flight', p.msg # RekeyMsg, p.seq >= inSes'.seq
       PROVE  /\ ~Held(p.msg, p.frag) /\ (p.msg = 0 => ~viewer)
              /\ (p.msg # 0 => lastValid < p.msg)
  <2>1. PICK q \in Flight : SamePiece(q, p)
    BY <1>8
  <2>2. q.msg = p.msg /\ q.frag = p.frag /\ q.seq >= inSes.seq
    BY <1>1, <1>4, <1>12, <2>1 DEF SamePiece
  <2> QED
    BY <1>12, <2>2 DEF FlightInv
<1>13. \A p \in Flight' : p.seq >= inSes'.seq => ~(p.msg = m /\ p.frag = f)
  BY <1>1, <1>4, <1>9
<1> HIDE DEF m, f
<1>14. CASE viewer
  <2>1. m \in Commands /\ lastValid < m
    BY <1>2, <1>3, <1>6, <1>14
  <2>2. payloads' = payloads \cup {<<m, f>>} /\ msgQueue' = msgQueue
    BY <1>3, <1>14
  <2>3. Piece(<<m, f>>) /\ ~InHand(<<m, f>>) /\ ~InMap(m, f)
    BY <1>5, <1>6, <2>1, Zenon DEF Piece, Held
  <2>4. \A pl : InHand(pl)' = InHand(pl)
    BY Zenon DEF InHand
  <2>5. \A i, j : Held(i, j)' => Held(i, j) \/ (i = m /\ j = f)
    BY <2>2, <2>4 DEF Held, InMap
  <2>6. ReplyInv'
    BY <1>3, <1>5, <1>7, <1>14, <2>2, Zenon DEF ReplyInv
  <2>7. FlightInv'
    <3>1. ASSUME NEW p \in Flight', p.msg # RekeyMsg, p.seq >= inSes'.seq
          PROVE  /\ ~Held(p.msg, p.frag)' /\ (p.msg = 0 => ~viewer')
                 /\ (p.msg # 0 => lastValid' < p.msg)
      BY <1>12, <1>13, <1>14, <2>5, <3>1
    <3> QED
      BY <1>10, <1>11, <3>1 DEF FlightInv
  <2>8. ParsersApart'
    BY Zenon DEF ParsersApart
  <2>9. HeldInv'
    <3>1. \A pl \in payloads' : Piece(pl) /\ ~InHand(pl)'
      BY <2>2, <2>3, <2>4, Zenon DEF HeldInv
    <3>2. ASSUME NEW i \in Commands, NEW j \in messageMap'[i]
          PROVE  <<i, j>> \notin payloads' /\ ~InHand(<<i, j>>)'
      <4>1. <<i, j>> \notin payloads /\ ~InHand(<<i, j>>)
        BY <3>2, Zenon DEF HeldInv
      <4>2. ~(i = m /\ j = f)
        BY <2>3, <3>2 DEF InMap
      <4>3. <<i, j>> # <<m, f>>
        BY <4>2
      <4> QED
        BY <2>2, <2>4, <4>1, <4>3, Zenon
    <3>3. ASSUME NEW i \in Commands, NEW j \in 1 .. Count(i), Held(i, j)'
          PROVE  lastValid' < i /\ i < client'.sent
      BY <1>5, <2>1, <2>5, <3>3 DEF HeldInv
    <3>4. DOMAIN messageMap' = Commands
          /\ \A i \in Commands : messageMap'[i] \subseteq 1 .. Count(i)
      BY Zenon DEF HeldInv
    <3> QED
      BY <3>1, <3>2, <3>3, <3>4 DEF HeldInv
  <2> QED
    BY <2>6, <2>7, <2>8, <2>9
<1>15. CASE ~viewer
  <2>1. m = 0 /\ f = 1 /\ client.sent > 0
    <3>1. client.sent <= 1
      BY <1>15 DEF ReplyInv
    <3> QED
      BY <1>5, <3>1
  <2>2. payloads' = payloads /\ msgQueue' = msgQueue \cup {0}
    BY <1>3, <1>15, <2>1
  <2>3. /\ \A i, j : Held(i, j)' = Held(i, j)
        /\ \A pl : InHand(pl)' = InHand(pl)
    BY <2>2, Zenon DEF Held, InHand, InMap
  <2>4. ReplyInv'
    <3>1. msgQueue' \subseteq 0 .. Len(Fragments)
      BY <2>2 DEF ReplyInv
    <3>2. {viewer', writeLock'} \subseteq BOOLEAN
      BY <1>3 DEF ReplyInv
    <3> QED
      BY <1>3, <2>1, <3>1, <3>2, Zenon DEF ReplyInv
  <2>5. FlightInv'
    <3>1. ASSUME NEW p \in Flight', p.msg # RekeyMsg, p.seq >= inSes'.seq
          PROVE  /\ ~Held(p.msg, p.frag)' /\ (p.msg = 0 => ~viewer')
                 /\ (p.msg # 0 => lastValid' < p.msg)
      <4>1. p.msg # 0
        <5>1. p.msg = 0 => p.frag = 1
          BY <1>10, <3>1
        <5> QED
          BY <1>13, <2>1, <3>1, <5>1
      <4> QED
        BY <1>12, <2>3, <3>1, <4>1
    <3> QED
      BY <1>10, <1>11, <3>1 DEF FlightInv
  <2>6. ParsersApart' /\ HeldInv'
    <3>1. client'.sent \in Nat /\ client'.sent >= client.sent
      BY <1>5
    <3> QED
      BY <1>5, <2>2, <3>1, HeldKept
  <2> QED
    BY <2>4, <2>5, <2>6
<1> QED
  BY <1>7, <1>14, <1>15

(* The wire is left alone, nothing more is held, and what it carries is of
   commands that have still not run. *)
LEMMA FlightKept ==
    ASSUME FlightInv, Flight' = Flight, inSes' = inSes, viewer' = viewer,
           client'.sent = client.sent,
           \A m, f : f # 0 /\ Held(m, f)' => Held(m, f),
           \A p \in Flight : p.msg # RekeyMsg /\ p.seq >= inSes.seq /\ p.msg # 0 =>
              lastValid' < p.msg
    PROVE  FlightInv'
<1>1. ASSUME NEW p \in Flight, p.msg # RekeyMsg PROVE p.frag # 0
  <2>1. p.frag \in 1 .. Count(p.msg)
    BY <1>1, Zenon DEF FlightInv
  <2> QED
    BY <2>1
<1>2. ASSUME NEW p \in Flight, p.msg # RekeyMsg, p.seq >= inSes.seq
      PROVE  /\ ~Held(p.msg, p.frag)' /\ (p.msg = 0 => ~viewer')
             /\ (p.msg # 0 => lastValid' < p.msg)
  BY <1>1, <1>2, Zenon DEF FlightInv
<1> QED
  BY <1>2, Zenon DEF FlightInv

ParserShape == DOMAIN parser = Parsers /\ \A t \in Parsers : DOMAIN parser[t] = ParserFields

(* A parser takes a piece, or a payload without data, into its hands. *)
LEMMA EnterKeeps ==
    ASSUME ParserShape, ReplyInv, FlightInv, ParsersApart, HeldInv, Flight' = Flight,
           NEW t \in Parsers, ParserEnter(t)
    PROVE  ReplyInv' /\ FlightInv' /\ ParsersApart' /\ HeldInv'
<1> USE CommandsNat
<1>1. /\ parser[t].pc = "idle" /\ ~processLock /\ processLock' = TRUE
      /\ UNCHANGED <<messageMap, lastValid, msgQueue, client, inSes, viewer, writer, writeLock>>
  BY Zenon DEF ParserEnter, parserElse, conn, output
<1>2. \E pl : /\ parser' = [parser EXCEPT ![t].pc = "process", ![t].payload = pl]
              /\ \/ pl \in payloads /\ payloads' = payloads \ {pl} /\ flags' = flags
                 \/ pl = NoData /\ payloads' = payloads /\ flags > 0 /\ flags' = flags - 1
  BY Zenon DEF ParserEnter
<1>3. PICK pl : /\ parser' = [parser EXCEPT ![t].pc = "process", ![t].payload = pl]
                /\ \/ pl \in payloads /\ payloads' = payloads \ {pl} /\ flags' = flags
                   \/ pl = NoData /\ payloads' = payloads /\ flags > 0 /\ flags' = flags - 1
  BY <1>2
<1>4. /\ parser'[t].pc = "process" /\ parser'[t].payload = pl
      /\ \A u \in Parsers \ {t} : parser'[u] = parser[u]
  BY <1>3, Zenon DEF ParserShape, ParserFields
<1>5. \A u \in Parsers : parser[u].pc # "process"
  BY <1>1, Zenon DEF ParsersApart
<1>6. \A x : InHand(x)' <=> x = pl
  BY <1>4, <1>5, Zenon DEF InHand
<1>7. \A x \in payloads : Piece(x)
  BY Zenon DEF HeldInv
<1>8. pl = NoData \/ Piece(pl)
  BY <1>3, <1>7, Zenon
<1>9. \A x : Piece(x) => x # NoData
  <2>1. \A m \in Commands : \A f : <<m, f>> # NoData
    BY DEF NoData
  <2> QED
    BY <2>1, Zenon DEF Piece
<1>10. payloads' \subseteq payloads /\ pl \notin payloads'
  BY <1>3, <1>7, <1>9, Zenon
<1>11. flags' \in Nat
  BY <1>3 DEF ParsersApart
<1>12. ParsersApart'
  <2>1. ASSUME NEW u \in Parsers, parser'[u].pc = "process" PROVE u = t
    BY <1>4, <1>5, <2>1
  <2>2. processLock' \in BOOLEAN
    BY <1>1
  <2> QED
    BY <1>1, <1>4, <1>8, <1>11, <2>1, <2>2, Zenon DEF ParsersApart
<1>13. \A m, f : f # 0 /\ Held(m, f)' => Held(m, f)
  <2> SUFFICES ASSUME NEW m, NEW f, f # 0, Held(m, f)' PROVE Held(m, f)
    OBVIOUS
  <2>1. CASE <<m, f>> \in payloads'
    BY <1>10, <2>1 DEF Held
  <2>2. CASE InMap(m, f)'
    BY <1>1, <2>2, Zenon DEF Held, InMap
  <2>3. CASE InHand(<<m, f>>)'
    <3>1. <<m, f>> # NoData
      BY DEF NoData
    <3> QED
      BY <1>3, <1>6, <2>3, <3>1, Zenon DEF Held
  <2> QED
    BY <2>1, <2>2, <2>3, Zenon DEF Held
<1>14. FlightInv'
  <2>1. \A p \in Flight : p.msg # RekeyMsg /\ p.seq >= inSes.seq /\ p.msg # 0 =>
              lastValid' < p.msg
    BY <1>1, Zenon DEF FlightInv
  <2>2. client'.sent = client.sent /\ inSes' = inSes /\ viewer' = viewer
    BY <1>1
  <2> QED
    BY <1>13, <2>1, <2>2, FlightKept
<1>15. HeldInv'
  <2>1. \A x \in payloads' : Piece(x) /\ ~InHand(x)'
    BY <1>6, <1>7, <1>10, Zenon
  <2>2. ASSUME NEW m \in Commands, NEW f \in messageMap'[m]
        PROVE  <<m, f>> \notin payloads' /\ ~InHand(<<m, f>>)'
    <3>1. <<m, f>> \notin payloads /\ f \in 1 .. Count(m)
      BY <1>1, <2>2, Zenon DEF HeldInv
    <3>2. <<m, f>> # NoData
      BY DEF NoData
    <3> QED
      BY <1>3, <1>6, <1>10, <3>1, <3>2, Zenon
  <2>3. ASSUME NEW m \in Commands, NEW f \in 1 .. Count(m), Held(m, f)'
        PROVE  lastValid' < m /\ m < client'.sent
    <3>1. f # 0
      OBVIOUS
    <3> QED
      BY <1>1, <1>13, <2>3, <3>1, Zenon DEF HeldInv
  <2>4. DOMAIN messageMap' = Commands
        /\ \A i \in Commands : messageMap'[i] \subseteq 1 .. Count(i)
    BY <1>1, Zenon DEF HeldInv
  <2> QED
    BY <2>1, <2>2, <2>3, <2>4 DEF HeldInv
<1>16. ReplyInv'
  <2>1. "process" # "write"
    OBVIOUS
  <2>2. \A u \in Parsers : parser'[u].pc = "write" => parser'[u].result \in Commands
    BY <1>4, <2>1, Zenon DEF ReplyInv
  <2> QED
    BY <1>1, <2>2, Zenon DEF ReplyInv
<1> QED
  BY <1>12, <1>14, <1>15, <1>16

(* A parser that is done queues its reply. *)
LEMMA WriteKeeps ==
    ASSUME ParserShape, ReplyInv, FlightInv, ParsersApart, HeldInv, Flight' = Flight,
           NEW t \in Parsers, ParserWrite(t)
    PROVE  ReplyInv' /\ FlightInv' /\ ParsersApart' /\ HeldInv'
<1> USE CommandsNat
<1>1. /\ parser[t].pc = "write" /\ msgQueue' = msgQueue \cup {parser[t].result}
      /\ parser' = [parser EXCEPT ![t].pc = "idle", ![t].result = 0]
      /\ UNCHANGED <<flags, processLock, messageMap, lastValid, payloads, client, inSes,
                     viewer, writer, writeLock>>
  BY Zenon DEF ParserWrite, parserElse, conn, output
<1>2. /\ parser'[t].pc = "idle"
      /\ \A u \in Parsers \ {t} : parser'[u] = parser[u]
  BY <1>1, Zenon DEF ParserShape, ParserFields
<1>3. parser'[t].pc # "process" /\ parser[t].pc # "process" /\ parser'[t].pc # "write"
  BY <1>1, <1>2
<1>4. \A x : InHand(x)' = InHand(x)
  BY <1>2, <1>3, Zenon DEF InHand
<1>5. \A m, f : Held(m, f)' = Held(m, f)
  BY <1>1, <1>4, Zenon DEF Held, InMap
<1>6. ParsersApart'
  BY <1>1, <1>2, <1>3, Zenon DEF ParsersApart
<1>7. HeldInv'
  BY <1>1, <1>4, <1>5, Zenon DEF HeldInv
<1>8. FlightInv'
  <2>1. \A p \in Flight : p.msg # RekeyMsg /\ p.seq >= inSes.seq /\ p.msg # 0 =>
              lastValid' < p.msg
    BY <1>1, Zenon DEF FlightInv
  <2>2. client'.sent = client.sent /\ inSes' = inSes /\ viewer' = viewer
    BY <1>1
  <2> QED
    BY <1>5, <2>1, <2>2, FlightKept
<1>9. ReplyInv'
  <2>1. parser[t].result \in Commands
    BY <1>1, Zenon DEF ReplyInv
  <2>2. parser[t].result \in 0 .. Len(Fragments) /\ parser[t].result # 0
    <3>1. \A m \in Commands : m \in 0 .. Len(Fragments) /\ m # 0
      BY DEF Commands
    <3> QED
      BY <2>1, <3>1, Zenon
  <2>3. \A u \in Parsers : parser'[u].pc = "write" => parser'[u].result \in Commands
    BY <1>2, <1>3, Zenon DEF ReplyInv
  <2>4. msgQueue' \subseteq 0 .. Len(Fragments) /\ (~viewer => 0 \notin msgQueue')
    BY <1>1, <2>2, Zenon DEF ReplyInv
  <2> QED
    BY <1>1, <2>3, <2>4, Zenon DEF ReplyInv
<1> QED
  BY <1>6, <1>7, <1>8, <1>9

(* The map with the piece in the parser's hands. *)
LEMMA EnteredPieces ==
    ASSUME HeldInv, NEW pl, pl = NoData \/ Piece(pl)
    PROVE  /\ DOMAIN Entered(pl) = Commands
           /\ \A m \in Commands : \A f : f \in Entered(pl)[m] =>
                 f \in 1 .. Count(m) /\ (InMap(m, f) \/ <<m, f>> = pl)
<1>1. /\ DOMAIN messageMap = Commands
      /\ \A m \in Commands : messageMap[m] \subseteq 1 .. Count(m)
  BY Zenon DEF HeldInv
<1>2. CASE pl = NoData
  <2>1. Entered(pl) = messageMap
    BY <1>2, Zenon DEF Entered
  <2> QED
    BY <1>1, <2>1, Zenon DEF InMap
<1>3. CASE pl # NoData
  <2>1. PICK a \in Commands : \E b \in 1 .. Count(a) : pl = <<a, b>>
    BY <1>3, Zenon DEF Piece
  <2>2. PICK b \in 1 .. Count(a) : pl = <<a, b>>
    BY <2>1
  <2>3. pl[1] = a /\ pl[2] = b
    BY <2>2
  <2>4. Entered(pl) = [messageMap EXCEPT ![a] = messageMap[a] \cup {b}]
    BY <1>3, <2>3, Zenon DEF Entered
  <2>5. DOMAIN Entered(pl) = Commands
    BY <1>1, <2>4, Zenon
  <2>6. ASSUME NEW m \in Commands, NEW f \in Entered(pl)[m]
        PROVE  f \in messageMap[m] \/ (m = a /\ f = b)
    <3>1. CASE m = a
      BY <1>1, <2>4, <2>6, <3>1, Zenon
    <3>2. CASE m # a
      BY <1>1, <2>4, <2>6, <3>2, Zenon
    <3> QED
      BY <3>1, <3>2
  <2>7. ASSUME NEW m \in Commands, NEW f \in Entered(pl)[m]
        PROVE  f \in 1 .. Count(m) /\ (InMap(m, f) \/ <<m, f>> = pl)
    <3>1. CASE f \in messageMap[m]
      BY <1>1, <3>1, Zenon DEF InMap
    <3>2. CASE m = a /\ f = b
      BY <2>2, <3>2
    <3> QED
      BY <2>6, <2>7, <3>1, <3>2
  <2> QED
    BY <2>5, <2>7, Zenon
<1> QED
  BY <1>2, <1>3

(* A parser enters its piece; a command whose turn it is runs when complete, and
   then none of its pieces is anywhere any more. *)
LEMMA ProcessKeeps ==
    ASSUME ParserShape, PlaceInv, ReplyInv, FlightInv, ParsersApart, HeldInv,
           Flight' = Flight, NEW t \in Parsers, ParserProcess(t)
    PROVE  ReplyInv' /\ FlightInv' /\ ParsersApart' /\ HeldInv'
<1> USE CommandsNat
<1> DEFINE pl == parser[t].payload
           run == Runs(pl)
           next == lastValid + 1
           E == Entered(pl)
<1>1. /\ parser[t].pc = "process"
      /\ lastValid' = IF run THEN next ELSE lastValid
      /\ messageMap' = IF run THEN [E EXCEPT ![next] = {}] ELSE E
      /\ processLock' = FALSE
      /\ parser' = [parser EXCEPT ![t] = [pc |-> IF run THEN "write" ELSE "idle",
                          payload |-> NoData, result |-> IF run THEN next ELSE 0]]
      /\ UNCHANGED <<payloads, msgQueue, client, inSes, viewer, writer, writeLock>>
  BY Zenon DEF ParserProcess, parserElse, conn, output
<1>f. flags' = flags + (IF IsReady(messageMap', lastValid' + 1) THEN 1 ELSE 0)
  BY Zenon DEF ParserProcess
<1>2. flags' \in Nat
  BY <1>f DEF ParsersApart
<1>3. pl = NoData \/ Piece(pl)
  BY <1>1, Zenon DEF ParsersApart
<1>4. \A x : InHand(x) <=> x = pl
  <2>1. \A u \in Parsers : parser[u].pc = "process" => u = t
    BY <1>1, Zenon DEF ParsersApart
  <2> QED
    BY <1>1, <2>1, Zenon DEF InHand
<1>5. /\ DOMAIN E = Commands
      /\ \A m \in Commands : \A f : f \in E[m] =>
            f \in 1 .. Count(m) /\ (InMap(m, f) \/ <<m, f>> = pl)
  BY <1>3, EnteredPieces
<1>6. /\ parser'[t].pc = (IF run THEN "write" ELSE "idle")
      /\ parser'[t].result = (IF run THEN next ELSE 0)
      /\ \A u \in Parsers \ {t} : parser'[u] = parser[u]
  BY <1>1, Zenon DEF ParserShape
<1>7. \A u \in Parsers : parser'[u].pc # "process"
  <2>1. parser'[t].pc # "process"
    BY <1>6
  <2>2. \A u \in Parsers \ {t} : parser[u].pc # "process"
    BY <1>1, Zenon DEF ParsersApart
  <2> QED
    BY <1>6, <2>1, <2>2, Zenon
<1>8. \A x : ~InHand(x)'
  BY <1>7, Zenon DEF InHand
<1>r. run => /\ next \in Commands /\ E[next] = 1 .. Count(next)
  BY Zenon DEF Runs, IsReady
<1>t. lastValid \in Nat /\ next \in Nat /\ client.sent \in Nat /\ lastValid < next
      /\ \A m \in Nat : lastValid < m /\ m # next => next < m
  BY DEF ParsersApart, ReplyInv
<1> HIDE DEF pl, run, next, E
<1>9. /\ DOMAIN messageMap' = Commands
      /\ \A m \in Commands : \A f : f \in messageMap'[m] => f \in E[m]
      /\ run => messageMap'[next] = {}
  <2>1. CASE run
    <3>1. messageMap' = [E EXCEPT ![next] = {}] /\ next \in Commands
      BY <1>1, <1>r, <2>1
    <3> QED
      BY <1>5, <3>1, Zenon
  <2>2. CASE ~run
    BY <1>1, <1>5, <2>2, Zenon
  <2> QED
    BY <2>1, <2>2
<1>10. ASSUME NEW m \in Commands, NEW f, f \in messageMap'[m]
       PROVE  /\ f \in 1 .. Count(m) /\ Held(m, f) /\ <<m, f>> \notin payloads
  <2>1. f \in 1 .. Count(m) /\ (InMap(m, f) \/ <<m, f>> = pl)
    BY <1>5, <1>9, <1>10, Zenon
  <2>2. CASE InMap(m, f)
    BY <2>1, <2>2, Zenon DEF Held, InMap, HeldInv
  <2>3. CASE <<m, f>> = pl
    BY <1>4, <2>1, <2>3, Zenon DEF Held, HeldInv
  <2> QED
    BY <2>1, <2>2, <2>3
<1>11. ASSUME run, NEW f \in 1 .. Count(next)
       PROVE  Held(next, f) /\ <<next, f>> \notin payloads
  <2>1. next \in Commands /\ f \in E[next]
    BY <1>11, <1>r, Zenon
  <2>2. InMap(next, f) \/ <<next, f>> = pl
    BY <1>5, <2>1, Zenon
  <2>3. CASE InMap(next, f)
    BY <2>3, Zenon DEF Held, InMap, HeldInv
  <2>4. CASE <<next, f>> = pl
    BY <1>4, <2>4, Zenon DEF Held, HeldInv
  <2> QED
    BY <2>2, <2>3, <2>4
<1>12. run => next \in Commands /\ next < client.sent
  <2>1. ASSUME run PROVE next \in Commands /\ next < client.sent
    <3>1. next \in Commands
      BY <1>r, <2>1
    <3>2. 1 \in 1 .. Count(next)
      BY <3>1
    <3>3. Held(next, 1)
      BY <1>11, <2>1, <3>2, Zenon
    <3> QED
      BY <3>1, <3>2, <3>3, Zenon DEF HeldInv
  <2> QED
    BY <2>1
<1>13. ASSUME NEW m, NEW f, f # 0, Held(m, f)'
       PROVE  Held(m, f) /\ (run => m # next)
  <2>1. <<m, f>> \in payloads \/ InMap(m, f)'
    BY <1>1, <1>8, <1>13, Zenon DEF Held
  <2>2. CASE <<m, f>> \in payloads
    <3>1. Held(m, f)
      BY <2>2, Zenon DEF Held
    <3>2. f \in 1 .. Count(m)
      BY <1>13, <3>1, HeldSent
    <3> QED
      BY <1>11, <2>2, <3>1, <3>2, Zenon
  <2>3. CASE InMap(m, f)'
    <3>1. m \in Commands /\ f \in messageMap'[m]
      BY <2>3, Zenon DEF InMap
    <3>2. Held(m, f)
      BY <1>10, <3>1
    <3>3. run => m # next
      BY <1>9, <3>1
    <3> QED
      BY <3>2, <3>3
  <2> QED
    BY <2>1, <2>2, <2>3
<1>14. ParsersApart'
  <2>1. lastValid' \in 0 .. Len(Fragments)
    <3>1. CASE run
      <4>1. lastValid' = next /\ next \in Commands
        BY <1>1, <1>12, <3>1
      <4> QED
        BY <1>t, <4>1
    <3>2. CASE ~run
      BY <1>1, <3>2, Zenon DEF ParsersApart
    <3> QED
      BY <3>1, <3>2
  <2>2. lastValid' = 0 \/ lastValid' < client'.sent
    <3>1. CASE run
      BY <1>1, <1>12, <3>1, Zenon
    <3>2. CASE ~run
      BY <1>1, <3>2, Zenon DEF ParsersApart
    <3> QED
      BY <3>1, <3>2
  <2>3. processLock' \in BOOLEAN
    BY <1>1
  <2> QED
    BY <1>2, <1>7, <2>1, <2>2, <2>3, Zenon DEF ParsersApart
<1>15. ASSUME NEW m \in Commands, lastValid < m, run => m # next
       PROVE  lastValid' < m
  <2>1. CASE run
    <3>1. lastValid' = next /\ m \in Nat
      BY <1>1, <2>1
    <3> QED
      BY <1>15, <1>t, <2>1, <3>1
  <2>2. CASE ~run
    BY <1>1, <1>15, <2>2, Zenon
  <2> QED
    BY <2>1, <2>2
<1>16. HeldInv'
  <2>1. \A x \in payloads' : Piece(x) /\ ~InHand(x)'
    BY <1>1, <1>8, Zenon DEF HeldInv
  <2>2. ASSUME NEW m \in Commands, NEW f \in messageMap'[m]
        PROVE  <<m, f>> \notin payloads' /\ ~InHand(<<m, f>>)' /\ f \in 1 .. Count(m)
    BY <1>1, <1>8, <1>10, <2>2, Zenon
  <2>3. ASSUME NEW m \in Commands, NEW f \in 1 .. Count(m), Held(m, f)'
        PROVE  lastValid' < m /\ m < client'.sent
    <3>1. f # 0
      OBVIOUS
    <3>2. Held(m, f) /\ (run => m # next)
      BY <1>13, <2>3, <3>1, Zenon
    <3>3. lastValid < m /\ m < client.sent
      BY <3>2, Zenon DEF HeldInv
    <3> QED
      BY <1>1, <1>15, <3>2, <3>3, Zenon
  <2>4. \A m \in Commands : messageMap'[m] \subseteq 1 .. Count(m)
    BY <2>2, Zenon
  <2> QED
    BY <1>9, <2>1, <2>2, <2>3, <2>4, Zenon DEF HeldInv
<1>17. FlightInv'
  <2>1. ASSUME NEW p \in Flight, p.msg # RekeyMsg, p.seq >= inSes.seq, p.msg # 0
        PROVE  lastValid' < p.msg
    <3>1. ~Held(p.msg, p.frag) /\ lastValid < p.msg /\ p.frag \in 1 .. Count(p.msg)
      BY <2>1, Zenon DEF FlightInv
    <3>2. run => p.msg # next
      BY <1>11, <3>1, Zenon
    <3>3. p.msg \in Commands
      BY <2>1, FlightTyped, PacketFields
    <3> QED
      BY <1>15, <3>1, <3>2, <3>3, Zenon
  <2>2. client'.sent = client.sent /\ inSes' = inSes /\ viewer' = viewer
    BY <1>1
  <2> QED
    BY <1>13, <2>1, <2>2, FlightKept
<1>18. ReplyInv'
  <2>1. \A u \in Parsers : parser'[u].pc = "write" => parser'[u].result \in Commands
    <3>1. parser'[t].pc = "write" => parser'[t].result \in Commands
      <4>1. CASE run
        BY <1>6, <1>12, <4>1, Zenon
      <4>2. CASE ~run
        BY <1>6, <4>2
      <4> QED
        BY <4>1, <4>2
    <3> QED
      BY <1>6, <3>1, Zenon DEF ReplyInv
  <2> QED
    BY <1>1, <2>1, Zenon DEF ReplyInv
<1> QED
  BY <1>14, <1>16, <1>17, <1>18

(* The client reads: its session counts, and it learns of one reply at most. *)
LEMMA ReadTyped ==
    ASSUME DOMAIN client = ClientFields, client.in \in Session, NEW p
    PROVE  /\ Read(p).in \in Session
           /\ Read(p).sent = client.sent /\ Read(p).out = client.out
           /\ \A m \in Read(p).read : m \in client.read \/ (m = p.msg /\ p.msg # RekeyMsg)
<1>1. Counted(client.in) \in Session
  BY SessionSteps
<1>2. Rekeyed(Counted(client.in)) \in Session
  BY <1>1, SessionSteps
<1>3. \/ Read(p) = [client EXCEPT !.lost = TRUE]
      \/ Read(p) = [client EXCEPT !.in = Rekeyed(Counted(client.in))]
      \/ /\ p.msg # RekeyMsg
         /\ Read(p) = [client EXCEPT !.in = Counted(client.in), !.read = client.read \cup {p.msg}]
  BY Zenon DEF Read
<1>4. CASE Read(p) = [client EXCEPT !.lost = TRUE]
  BY <1>4, Zenon DEF ClientFields
<1>5. CASE Read(p) = [client EXCEPT !.in = Rekeyed(Counted(client.in))]
  BY <1>2, <1>5, Zenon DEF ClientFields
<1>6. CASE /\ p.msg # RekeyMsg
           /\ Read(p) = [client EXCEPT !.in = Counted(client.in), !.read = client.read \cup {p.msg}]
  BY <1>1, <1>6, Zenon DEF ClientFields
<1> QED
  BY <1>3, <1>4, <1>5, <1>6

(* The writers change no more than the replies on their way. *)
LEMMA WriterReplies ==
    ASSUME WriteInv, ReplyInv, NEW t \in Writers, WriterStep(t)
    PROVE  ReplyInv' /\ client'.sent = client.sent /\ client'.out = client.out
<1>1. DOMAIN client = ClientFields /\ client.in \in Session
  BY Zenon DEF WriteInv, SessionsAgree, ReplyInv
<1>2. DOMAIN writer = Writers /\ \A u \in Writers : DOMAIN writer[u] = WriterFields
  BY Zenon DEF WriteInv, WritersApart
<1>3. UNCHANGED <<viewer, parser>>
  BY Zenon DEF WriterStep, WriterEnter, WriterRekey, WriterEncrypt, WriterSend, writerElse,
     conn, viewers
<1>4. viewer \in BOOLEAN /\ writeLock \in BOOLEAN
  BY Zenon DEF ReplyInv
<1>5. CASE WriterEnter(t)
  <2>1. PICK m \in msgQueue :
           /\ msgQueue' = msgQueue \ {m}
           /\ writer' = [writer EXCEPT ![t].pc = "encrypt", ![t].msg = m]
    BY <1>5, Zenon DEF WriterEnter
  <2>2. writeLock' = TRUE /\ client' = client
    BY <1>5, Zenon DEF WriterEnter
  <2>3. writer'[t].msg = m /\ \A u \in Writers \ {t} : writer'[u] = writer[u]
    BY <1>2, <2>1, Zenon DEF WriterFields
  <2>4. {viewer', writeLock'} \subseteq BOOLEAN
    BY <1>3, <1>4, <2>2
  <2> QED
    BY <1>3, <2>1, <2>2, <2>3, <2>4, Zenon DEF ReplyInv
<1>6. CASE WriterRekey(t)
  <2>1. /\ client' = Read(RekeyPacket(outSes))
        /\ UNCHANGED <<msgQueue, writeLock, writer>>
    BY <1>6, Zenon DEF WriterRekey
  <2>2. RekeyPacket(outSes).msg = RekeyMsg
    BY Zenon DEF RekeyPacket, Data
  <2>3. /\ client'.in \in Session /\ client'.sent = client.sent /\ client'.out = client.out
        /\ \A m \in client'.read : m \in client.read
    BY <1>1, <2>1, <2>2, ReadTyped, Zenon
  <2> QED
    BY <1>3, <2>1, <2>3, Zenon DEF ReplyInv
<1>7. CASE WriterEncrypt(t)
  <2>1. /\ \E p : writer' = [writer EXCEPT ![t].pc = "send", ![t].packet = p]
        /\ writer[t].pc = "encrypt" /\ UNCHANGED <<msgQueue, writeLock, client>>
    BY <1>7, Zenon DEF WriterEncrypt
  <2>2. PICK p : writer' = [writer EXCEPT ![t].pc = "send", ![t].packet = p]
    BY <2>1
  <2>3. writer'[t].msg = writer[t].msg /\ \A u \in Writers \ {t} : writer'[u] = writer[u]
    BY <1>2, <2>2, Zenon DEF WriterFields
  <2>4. writer[t].pc # "idle"
    BY <2>1
  <2> QED
    BY <1>3, <2>1, <2>3, <2>4, Zenon DEF ReplyInv
<1>8. CASE WriterSend(t)
  <2> DEFINE p == writer[t].packet
             m == writer[t].msg
  <2>1. /\ writer[t].pc = "send" /\ client' = Read(p) /\ writeLock' = FALSE
        /\ writer' = [writer EXCEPT ![t] = [pc |-> "idle", msg |-> 0, packet |-> None]]
        /\ msgQueue' = msgQueue
    BY <1>8, Zenon DEF WriterSend
  <2>2. p = Data(client.in, m, 1)
    BY <2>1, Zenon DEF WriteInv, SessionsAgree
  <2>3. p.msg = m
    <3>1. \A s, i : Data(s, i, 1).msg = i
      BY Zenon DEF Data
    <3>2. p.msg = Data(client.in, m, 1).msg
      BY <2>2, Zenon
    <3> QED
      BY <3>1, <3>2, Zenon
  <2>4. writer[t].pc # "idle"
    BY <2>1
  <2>5. m \in 0 .. Len(Fragments) /\ (~viewer => m # 0)
    BY <2>4, Zenon DEF ReplyInv
  <2>6. /\ client'.in \in Session /\ client'.sent = client.sent /\ client'.out = client.out
        /\ \A i \in client'.read : i \in client.read \/ i = m
    BY <1>1, <2>1, <2>3, ReadTyped, Zenon
  <2>7. writer'[t].pc = "idle" /\ \A u \in Writers \ {t} : writer'[u] = writer[u]
    BY <1>2, <2>1, Zenon
  <2>8. {viewer', writeLock'} \subseteq BOOLEAN
    BY <1>3, <1>4, <2>1
  <2> HIDE DEF m, p
  <2>9. client'.read \subseteq 0 .. Len(Fragments) /\ (~viewer => 0 \notin client'.read)
    BY <2>5, <2>6, Zenon DEF ReplyInv
  <2>10. \A u \in Writers : writer'[u].pc # "idle" =>
            writer'[u].msg \in 0 .. Len(Fragments) /\ (~viewer => writer'[u].msg # 0)
    BY <2>7, Zenon DEF ReplyInv
  <2> QED
    BY <1>3, <2>1, <2>6, <2>8, <2>9, <2>10, Zenon DEF ReplyInv
<1> QED
  BY <1>5, <1>6, <1>7, <1>8 DEF WriterStep

LEMMA DispatchInit == Init => DispatchInv
<1> SUFFICES ASSUME Init PROVE DispatchInv
  OBVIOUS
<1>1. PlaceInv /\ Flight = {}
  BY PlaceInit
<1>2. FlightInv
  BY <1>1, Zenon DEF FlightInv
<1>3. ReplyInv
  <2>1. /\ client.sent = 0 /\ client.in = NewSession /\ client.read = {}
        /\ msgQueue = {} /\ viewer = FALSE /\ writeLock = FALSE
        /\ \A t \in Writers : writer[t].pc = "idle"
        /\ \A t \in Parsers : parser[t].pc = "idle"
    BY Zenon DEF Init
  <2>2. NewSession \in Session
    BY DEF NewSession, Session
  <2>3. client.sent \in 0 .. Len(Fragments) + 1 /\ client.sent <= 1
    BY <2>1, CommandsNat
  <2>4. {viewer, writeLock} \subseteq BOOLEAN
    BY <2>1
  <2>5. \A t \in Parsers : parser[t].pc # "write"
    BY <2>1
  <2> QED
    BY <2>1, <2>2, <2>3, <2>4, <2>5, Zenon DEF ReplyInv
<1>4. /\ processLock = FALSE /\ flags = 0 /\ lastValid = 0 /\ payloads = {}
      /\ messageMap = [m \in Commands |-> {}]
      /\ \A t \in Parsers : parser[t].pc = "idle"
  BY Zenon DEF Init
<1>5. \A t \in Parsers : parser[t].pc # "process"
  BY <1>4
<1>6. ParsersApart
  <2>1. processLock \in BOOLEAN
    BY <1>4
  <2>2. Len(Fragments) \in Nat
    BY CommandsNat
  <2>3. flags \in Nat /\ lastValid \in 0 .. Len(Fragments)
    BY <1>4, <2>2
  <2> QED
    BY <1>4, <1>5, <2>1, <2>3, Zenon DEF ParsersApart
<1>7. HeldInv
  <2>1. DOMAIN messageMap = Commands /\ \A m \in Commands : messageMap[m] = {}
    BY <1>4, Zenon
  <2>2. \A m, f : ~Held(m, f)
    BY <1>4, <1>5, <2>1, Zenon DEF Held, InHand, InMap
  <2> QED
    BY <1>4, <2>1, <2>2, Zenon DEF HeldInv
<1> QED
  BY <1>1, <1>2, <1>3, <1>6, <1>7 DEF DispatchInv

LEMMA DispatchNext ==
    ASSUME ReaderShape, WriteInv, DispatchInv, [Next]_vars
    PROVE  DispatchInv'
<1> USE CommandsNat
<1>0. PlaceInv /\ ReplyInv /\ FlightInv /\ ParsersApart /\ HeldInv
  BY DEF DispatchInv
<1>c. /\ DOMAIN client = ClientFields /\ client.sent \in Nat
      /\ client.sent >= client.sent
  <2>1. client.sent \in Nat
    BY <1>0 DEF ReplyInv
  <2>2. client.sent >= client.sent
    BY <2>1
  <2>3. DOMAIN client = ClientFields
    BY Zenon DEF WriteInv, SessionsAgree
  <2> QED
    BY <2>1, <2>2, <2>3
<1>p. ParserShape
  BY Zenon DEF WriteInv, RepliesNamed, ParserShape
<1>s. inSes.seq \in Nat /\ inSes.seq >= inSes.seq
  <2>1. inSes.seq \in Nat
    BY <1>0, SessionSteps DEF PlaceInv
  <2> QED
    BY <2>1
<1>m. ASSUME PlaceInv', NoneNew, inSes'.seq >= inSes.seq,
             UNCHANGED <<client, viewer, payloads, msgQueue, viewers, output>>
      PROVE  DispatchInv'
  <2>1. UNCHANGED <<flags, processLock, messageMap, lastValid, parser, writeLock, writer>>
    BY <1>m, Zenon DEF viewers, output
  <2>2. FlightInv'
    BY <1>0, <1>m, <2>1, FlightLess
  <2>3. ParsersApart' /\ HeldInv'
    BY <1>0, <1>c, <1>m, <2>1, HeldKept
  <2>4. ReplyInv'
    BY <1>0, <1>m, <2>1, Zenon DEF ReplyInv
  <2> QED
    BY <1>m, <2>2, <2>3, <2>4 DEF DispatchInv
<1>1. ASSUME NEW rekey \in BOOLEAN, NEW cut \in BOOLEAN, ClientSend(rekey, cut)
      PROVE  DispatchInv'
  <2>1. /\ client.sent <= Len(Fragments) /\ (client.sent > 0 => 0 \in client.read)
        /\ \E o : client' = [client EXCEPT !.sent = @ + 1, !.out = o]
        /\ UNCHANGED <<conn, payloads, viewers, msgQueue, output>>
    BY <1>1, Zenon DEF ClientSend
  <2>2. UNCHANGED <<inSes, viewer, payloads, flags, processLock, messageMap, lastValid,
                    parser, msgQueue, writeLock, writer>>
    BY <2>1, Zenon DEF conn, viewers, output
  <2>3. /\ client'.sent = client.sent + 1 /\ client'.in = client.in
        /\ client'.read = client.read
    BY <1>c, <2>1, Zenon DEF ClientFields
  <2>4. /\ PlaceInv'
        /\ \E b \in Nat : \A q \in Flight' :
              q \in Flight \/ q.msg = RekeyMsg \/ PieceOf(q, client.sent, b)
    BY <1>0, <1>1, <1>c, SendMoves
  <2>5. FlightInv'
    BY <1>0, <2>2, <2>3, <2>4, SendFlight
  <2>6. client'.sent \in Nat /\ client'.sent >= client.sent
    BY <1>c, <2>3
  <2>7. ParsersApart' /\ HeldInv'
    BY <1>0, <1>c, <2>2, <2>6, HeldKept
  <2>8. /\ client'.sent \in 0 .. Len(Fragments) + 1 /\ client'.sent > 0
        /\ (client.sent = 0 => client'.sent <= 1)
    BY <1>c, <2>1, <2>3
  <2>9. ~viewer => client.sent = 0
    <3>1. ~viewer => 0 \notin client.read
      BY <1>0, Zenon DEF ReplyInv
    <3>2. client.sent > 0 \/ client.sent = 0
      BY <1>c
    <3> QED
      BY <2>1, <3>1, <3>2
  <2>10. ReplyInv'
    BY <1>0, <2>2, <2>3, <2>8, <2>9, Zenon DEF ReplyInv
  <2> QED
    BY <2>4, <2>5, <2>7, <2>10 DEF DispatchInv
<1>2. CASE Join
  <2>1. UNCHANGED <<client, viewer, payloads, msgQueue, viewers, output>> /\ inSes' = inSes
    BY <1>2, Zenon DEF Join
  <2> QED
    BY <1>0, <1>2, <1>m, <1>s, <2>1, JoinMoves
<1>3. CASE CommandTake
  <2>1. UNCHANGED <<client, viewer, payloads, msgQueue, viewers, output>> /\ inSes' = inSes
    BY <1>3, Zenon DEF CommandTake, commandElse
  <2> QED
    BY <1>0, <1>3, <1>m, <1>s, <2>1, CommandMoves
<1>k. ASSUME UNCHANGED <<packetQueue, readQueue, leftOver, reader, inSes, readLock, closed>>,
             client'.out = client.out
      PROVE  PlaceInv' /\ Flight' = Flight /\ NoneNew
  <2>1. PlaceInv' /\ Flight' = Flight
    BY <1>0, <1>k, PlacesKept
  <2> QED
    BY <2>1, LessIsNoneNew
<1>4. CASE CommandToken
  <2>1. UNCHANGED <<client, viewer, payloads, msgQueue, viewers, output, packetQueue,
                    readQueue, leftOver, reader, inSes, readLock, closed>>
    BY <1>4, Zenon DEF CommandToken, commandElse
  <2> QED
    BY <1>k, <1>m, <1>s, <2>1
<1>5. ASSUME NEW t \in Readers, ReaderEnter(t) \/ ReaderPop(t) \/ ReaderLeave(t)
      PROVE  DispatchInv'
  <2>1. UNCHANGED <<client, viewer, payloads, msgQueue, viewers, output>> /\ inSes' = inSes
    BY <1>5, Zenon DEF ReaderEnter, ReaderPop, ReaderLeave, readerElse
  <2> QED
    BY <1>0, <1>5, <1>m, <1>s, <2>1, ReaderTurns
<1>6. ASSUME NEW t \in Readers, ReaderDecrypt(t) PROVE DispatchInv'
  <2>1. UNCHANGED <<client, viewers, output>>
    BY <1>6, Zenon DEF ReaderDecrypt, readerElse
  <2>2. /\ PlaceInv' /\ NoneNew
        /\ \/ inSes'.seq >= inSes.seq /\ UNCHANGED <<viewer, payloads, msgQueue>>
           \/ \E h \in Flight : Admitted(h)
    BY <1>0, <1>6, DecryptMoves
  <2>3. CASE inSes'.seq >= inSes.seq /\ UNCHANGED <<viewer, payloads, msgQueue>>
    BY <1>m, <2>1, <2>2, <2>3
  <2>4. CASE \E h \in Flight : Admitted(h)
    <3>1. PICK h \in Flight : Admitted(h)
      BY <2>4
    <3>2. UNCHANGED <<client, flags, processLock, messageMap, lastValid, parser,
                      writeLock, writer>>
      BY <2>1, Zenon DEF viewers, output
    <3>3. ReplyInv' /\ FlightInv' /\ ParsersApart' /\ HeldInv'
      BY <1>0, <2>2, <3>1, <3>2, AdmitKeeps
    <3> QED
      BY <2>2, <3>3 DEF DispatchInv
  <2> QED
    BY <2>2, <2>3, <2>4
<1>7. ASSUME NEW t \in Parsers, ParserStep(t) PROVE DispatchInv'
  <2>1. UNCHANGED <<client, input, conn>>
    BY <1>7, Zenon DEF ParserStep, ParserEnter, ParserProcess, ParserWrite, parserElse
  <2>2. PlaceInv' /\ Flight' = Flight
    BY <1>k, <2>1, Zenon DEF input, conn
  <2>3. ReplyInv' /\ FlightInv' /\ ParsersApart' /\ HeldInv'
    BY <1>0, <1>7, <1>p, <2>2, EnterKeeps, ProcessKeeps, WriteKeeps, Zenon DEF ParserStep
  <2> QED
    BY <2>2, <2>3 DEF DispatchInv
<1>8. ASSUME NEW t \in Writers, WriterStep(t) PROVE DispatchInv'
  <2>1. UNCHANGED <<input, conn, payloads, viewers>>
    BY <1>8, Zenon DEF WriterStep, WriterEnter, WriterRekey, WriterEncrypt, WriterSend, writerElse
  <2>2. ReplyInv' /\ client'.sent = client.sent /\ client'.out = client.out
    BY <1>0, <1>8, WriterReplies
  <2>3. UNCHANGED <<inSes, viewer, payloads, flags, processLock, messageMap, lastValid, parser>>
    BY <2>1, Zenon DEF conn, viewers
  <2>4. PlaceInv' /\ NoneNew
    BY <1>k, <2>1, <2>2, Zenon DEF input, conn
  <2>5. FlightInv'
    BY <1>0, <1>s, <2>2, <2>3, <2>4, FlightLess
  <2>6. ParsersApart' /\ HeldInv'
    BY <1>0, <1>c, <2>2, <2>3, HeldKept
  <2> QED
    BY <2>2, <2>4, <2>5, <2>6 DEF DispatchInv
<1>9. CASE UNCHANGED vars
  <2>1. UNCHANGED <<client, viewer, payloads, msgQueue, viewers, output, packetQueue,
                    readQueue, leftOver, reader, inSes, readLock, closed>>
    BY <1>9, Zenon DEF vars, input, conn
  <2> QED
    BY <1>k, <1>m, <1>s, <2>1
<1> QED
  BY <1>1, <1>2, <1>3, <1>4, <1>5, <1>6, <1>7, <1>8, <1>9, Zenon
     DEF Next, CommandStep, ReaderStep

(* For any pools, commands, rekeys and packets in two parts, and copies of the
   connection map at any moment: the state is well formed.  The hard part is that
   no piece of a command that has run can turn up again in messageMap_: a packet
   passes the session at most once, since decPayload counts it, and between there
   and the command it is in one place only, so that a command is complete
   (processPayload) when none of its pieces is anywhere else. *)
THEOREM DispatchTyped == Spec => []TypeOK
<1> DEFINE IInv == StrandInv /\ WriteInv /\ DispatchInv
<1>1. Init => IInv
  BY StrandInit, WriteInit, DispatchInit
<1>2. IInv /\ [Next]_vars => IInv'
  <2> SUFFICES ASSUME IInv, [Next]_vars PROVE IInv'
    OBVIOUS
  <2>1. StrandInv' /\ WriteInv'
    BY StrandNext, WriteNext
  <2>2. DispatchInv'
    BY DispatchNext DEF StrandInv
  <2> QED
    BY <2>1, <2>2
<1>3. IInv => TypeOK
  <2> SUFFICES ASSUME IInv PROVE TypeOK
    OBVIOUS
  <2>0. ReaderShape /\ WriteInv /\ PlaceInv /\ ReplyInv /\ ParsersApart /\ HeldInv
    BY DEF StrandInv, DispatchInv
  <2>1. \A i \in 1 .. Len(readQueue) : readQueue[i] \in Packet
    BY <2>0 DEF PlaceInv
  <2>2. \A i \in 1 .. Len(leftOver) : leftOver[i] \in Packet \cup {None}
    <3> DEFINE P == Packet \cup {None}
    <3>1. leftOver \in Seq(P)
      BY <2>0, Zenon DEF PlaceInv
    <3> HIDE DEF P
    <3>2. \A i \in 1 .. Len(leftOver) : leftOver[i] \in P
      BY <3>1
    <3> QED
      BY <3>2 DEF P
  <2>3. outSes \in Session
    <3>1. client.in \in Session
      BY <2>0, Zenon DEF ReplyInv
    <3>2. Counted(client.in) \in Session
      BY <3>1, SessionSteps
    <3> QED
      BY <2>0, <3>1, <3>2, Zenon DEF WriteInv, SessionsAgree
  <2>4. {readLock, writeLock, processLock, closed, viewer} \subseteq BOOLEAN
    BY <2>0 DEF PlaceInv, ReplyInv, ParsersApart
  <2>5. ASSUME NEW pl \in payloads PROVE pl[1] \in Commands /\ pl[2] \in 1 .. Count(pl[1])
    <3>1. PICK m \in Commands : \E f \in 1 .. Count(m) : pl = <<m, f>>
      BY <2>0, Zenon DEF HeldInv, Piece
    <3> QED
      BY <3>1
  <2>6. ASSUME NEW m \in Commands
        PROVE  messageMap[m] \subseteq 1 .. Count(m) /\ (m <= lastValid => messageMap[m] = {})
    <3>1. messageMap[m] \subseteq 1 .. Count(m)
      BY <2>0, Zenon DEF HeldInv
    <3>2. \A f \in messageMap[m] : lastValid < m
      BY <2>0, <3>1, Zenon DEF HeldInv, Held, InMap
    <3>3. lastValid \in Nat /\ m \in Nat
      BY <2>0, CommandsNat DEF ParsersApart
    <3> QED
      BY <3>1, <3>2, <3>3
  <2> QED
    BY <2>0, <2>1, <2>2, <2>3, <2>4, <2>5, <2>6, Zenon
       DEF TypeOK, ReplyInv, PlaceInv, ParsersApart, ReaderShape
<1> QED
  BY <1>1, <1>2, <1>3, PTL DEF Spec

=============================================================================
