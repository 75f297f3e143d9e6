------------------------------ MODULE Dispatch ------------------------------
(***************************************************************************)
(* One client connection of the WebSocket server, from the packets the     *)
(* client sends to the replies it reads:                                   *)
(*                                                                         *)
(*   lws -> packetQueue_ -> commandThread -> readQueue_ and a token in     *)
(*   clientConnectionInterruptQueue_ -> clientInterruptThread pool         *)
(*   (decrypt) -> Clients::packetQueue_ -> messageParserThread pool        *)
(*   (reassemble, run) -> msgQueue_ -> prepareWriteThread pool (rekey,     *)
(*   encrypt) -> writeQueue_ -> lws -> client.                             *)
(*                                                                         *)
(* The three pools serve every connection and guard each one by a spin     *)
(* lock of its own: a thread that finds the lock taken (or whose weak      *)
(* compare-and-exchange fails on a free one) puts its work back at the end *)
(* of the queue.  Work therefore leaves these queues in any order: they    *)
(* are sets here, an entry in the hands of a thread that does not have the *)
(* lock is an entry of the set, and putting it back changes nothing.  Both *)
(* directions of the channel decrypt only packets in the order they were   *)
(* encrypted, each with the key in force.                                  *)
(*                                                                         *)
(* The connections live by value in a TransactionalMap, which is copied    *)
(* whenever another client joins or leaves: a thread that looked its       *)
(* connection up before the copy works on the old one.  What the copies    *)
(* share (locks, queue, keys) sits behind shared pointers; the left over   *)
(* data of a partly received packet does not.                              *)
(*                                                                         *)
(* The connection is past its handshake.  Other connections appear as the  *)
(* copies they cause and as delays of the pools' threads.                  *)
(***************************************************************************)
EXTENDS Integers, Sequences, FiniteSets

CONSTANTS
    Readers, Parsers, Writers,  \* the threads of the three pools
    Fragments,                  \* Fragments[i]: packets of the client's i-th command
    MaxUpsets,                  \* bound: rekeys of both sides, packets cut in two
                                \* and copies of the connection map, together
    QuietJoins                  \* TRUE: no copy while a reader works

ASSUME DispatchAssumption ==
    /\ MaxUpsets \in Nat /\ QuietJoins \in BOOLEAN
    /\ Fragments \in Seq(Nat \ {0})

VARIABLES
    client,      \* the client: messages sent, its two sessions, rekeys, replies read
    packetQueue, \* WebSocketServer::packetQueue_, packets as lws delivers them
    command,     \* commandThread: "idle", or "token" between its two pushes
    readQueue,   \* ClientConnection::readQueue_
    tokens,      \* this connection's ids in clientConnectionInterruptQueue_
    readLock, writeLock,
    leftOver,    \* readLeftOverData_ in each version of the connection map
    inSes, outSes, \* the server's sessions: key in force and sequence number
    closed,      \* run_ = -1
    viewer,      \* the viewer is registered with Clients
    payloads,    \* Clients::packetQueue_: the packets waiting for a parser
    flags,       \* and the payloads without data, each asking for a thread
    processLock, \* packetProcess_threadLock_
    messageMap,  \* packets received of each command not yet run
    lastValid,   \* lastValidMessageId_
    msgQueue,    \* msgQueue_: replies to write
    reader, parser, writer, \* the threads
    upsets                  \* counter of the bound

input == <<packetQueue, command>>
conn == <<readQueue, tokens, readLock, leftOver, inSes, closed, viewer, reader>>
viewers == <<flags, processLock, messageMap, lastValid, parser>>
output == <<writeLock, outSes, writer>>
vars == <<client, input, conn, payloads, viewers, msgQueue, output, upsets>>

(* The client's commands are numbered from 1; 0 is its registration, a     *)
(* single packet.                                                          *)
Commands == 1 .. Len(Fragments)
Count(m) == IF m = 0 THEN 1 ELSE Fragments[m]

Session == [key : Nat, seq : Nat]
NewSession == [key |-> 0, seq |-> 0]

(* One packet as encrypted by ses: a fragment of message m, or a rekey.    *)
Data(ses, m, f) ==
    [key |-> ses.key, seq |-> ses.seq, msg |-> m, frag |-> f, part |-> "whole"]
RekeyMsg == -1
RekeyPacket(ses) == Data(ses, RekeyMsg, 1)

(* encPayload and decPayload count the packet whatever its outcome;        *)
(* sessionRekey changes the key and keeps the sequence number.             *)
Counted(ses) == [ses EXCEPT !.seq = @ + 1]
Rekeyed(ses) == [ses EXCEPT !.key = @ + 1]

(* decPayload authenticates the packet against key and sequence number.    *)
Decrypts(ses, p) == p.key = ses.key /\ p.seq = ses.seq

None == [msg |-> -2]
Packet == [key : Nat, seq : Nat, msg : {RekeyMsg, 0} \cup Commands,
           frag : Nat, part : {"whole", "head", "tail"}]
NoData == <<0, 0>>  \* in a parser's hands: a payload without data

Init ==
    /\ client = [sent |-> 0, in |-> NewSession, out |-> NewSession,
                 read |-> {}, lost |-> FALSE]
    /\ packetQueue = <<>> /\ command = "idle" /\ readQueue = <<>> /\ tokens = 0
    /\ readLock = FALSE /\ writeLock = FALSE /\ processLock = FALSE
    /\ leftOver = <<None>>
    /\ inSes = NewSession /\ outSes = NewSession
    /\ closed = FALSE /\ viewer = FALSE
    /\ payloads = {} /\ flags = 0 /\ messageMap = [m \in Commands |-> {}] /\ lastValid = 0
    /\ msgQueue = {}
    /\ reader = [t \in Readers |-> [pc |-> "idle", map |-> 1, packet |-> None]]
    /\ parser = [t \in Parsers |-> [pc |-> "idle", payload |-> NoData, result |-> 0]]
    /\ writer = [t \in Writers |-> [pc |-> "idle", msg |-> 0, packet |-> None]]
    /\ upsets = 0

-----------------------------------------------------------------------------
(* The client's write service: rekey if due, then the packets of its next  *)
(* command.  It registers first and waits for the reply.  The server's     *)
(* libwebsockets hands a payload over as it arrives from the socket: here  *)
(* the first packet of a command may come in two parts, which bounds what  *)
(* the library may do to every packet.                                     *)
Encrypted(ses, m) == [f \in 1 .. Count(m) |->
                         Data([ses EXCEPT !.seq = @ + f - 1], m, f)]
Cut(p) == << [p EXCEPT !.part = "head"], [p EXCEPT !.part = "tail"] >>
Delivered(s, cut) == IF cut THEN Cut(Head(s)) \o Tail(s) ELSE s

ClientSend(rekey, cut) ==
    LET m   == client.sent
        ses == IF rekey THEN Rekeyed(Counted(client.out)) ELSE client.out
        s   == (IF rekey THEN <<RekeyPacket(client.out)>> ELSE <<>>) \o Encrypted(ses, m)
    IN  /\ m <= Len(Fragments) /\ ~client.lost
        /\ m > 0 => 0 \in client.read
        /\ upsets' = upsets + (IF rekey THEN 1 ELSE 0) + (IF cut THEN 1 ELSE 0)
        /\ upsets' <= MaxUpsets
        /\ packetQueue' = packetQueue \o Delivered(s, cut)
        /\ client' = [client EXCEPT !.sent = @ + 1, !.out = [ses EXCEPT !.seq = @ + Count(m)]]
        /\ UNCHANGED <<command, conn, payloads, viewers, msgQueue, output>>

(* writeToSocket, updateWriteMap and the client's read service: packets    *)
(* reach the client in the order in which they were pushed, so reading one *)
(* is done with its push.  One that does not decrypt ends the client.  The *)
(* client's own left-over data is not needed: the client side of the       *)
(* bundled libwebsockets hands over whole frames of the sizes the server   *)
(* writes.                                                                 *)
Read(p) ==
    LET in == Counted(client.in)
    IN  IF client.lost \/ ~Decrypts(client.in, p) THEN [client EXCEPT !.lost = TRUE]
        ELSE IF p.msg = RekeyMsg THEN [client EXCEPT !.in = Rekeyed(in)]
        ELSE [client EXCEPT !.in = in, !.read = @ \cup {p.msg}]

(* Another client joins or leaves: addId and eraseId replace the map.      *)
Join ==
    /\ upsets < MaxUpsets /\ upsets' = upsets + 1
    /\ QuietJoins => \A t \in Readers : reader[t].pc = "idle"
    /\ leftOver' = Append(leftOver, leftOver[Len(leftOver)])
    /\ UNCHANGED <<client, input, readQueue, tokens, readLock, inSes, closed, viewer,
                   reader, payloads, viewers, msgQueue, output>>

-----------------------------------------------------------------------------
commandElse == <<client, readLock, leftOver, inSes, closed, viewer, reader, payloads,
                 viewers, msgQueue, output, upsets>>

(* Mutant: the token first, then the packet.                               *)
CommandTokenFirst ==
    /\ command = "idle" /\ packetQueue # <<>>
    /\ tokens' = tokens + 1
    /\ command' = "token"
    /\ UNCHANGED <<packetQueue, readQueue, commandElse>>

CommandPacketLast ==
    /\ command = "token"
    /\ packetQueue' = Tail(packetQueue)
    /\ readQueue' = Append(readQueue, Head(packetQueue))
    /\ command' = "idle"
    /\ UNCHANGED <<tokens, commandElse>>

CommandStepReversed == CommandTokenFirst \/ CommandPacketLast

(* commandThread: the packet first, then the token.                        *)
CommandTake ==
    /\ command = "idle" /\ packetQueue # <<>>
    /\ packetQueue' = Tail(packetQueue)
    /\ readQueue' = Append(readQueue, Head(packetQueue))
    /\ command' = "token"
    /\ UNCHANGED <<tokens, commandElse>>

CommandToken ==
    /\ command = "token"
    /\ tokens' = tokens + 1
    /\ command' = "idle"
    /\ UNCHANGED <<packetQueue, readQueue, commandElse>>

CommandStep == CommandTake \/ CommandToken

-----------------------------------------------------------------------------
readerElse == <<client, input, viewers, output, upsets>>

(* Mutant: the lock is not looked at.                                      *)
ReaderEnterAnyway(t) ==
    /\ reader[t].pc = "idle" /\ tokens > 0
    /\ tokens' = tokens - 1
    /\ readLock' = TRUE
    /\ reader' = [reader EXCEPT ![t].pc = "pop", ![t].map = Len(leftOver)]
    /\ UNCHANGED <<readQueue, leftOver, inSes, closed, viewer, payloads, msgQueue, readerElse>>

(* clientInterruptThread: take a token, look the connection up, and get    *)
(* its lock.  Lookup and lock are one step: a map that is replaced between *)
(* them is a Join after this step, which QuietJoins leaves out likewise.   *)
ReaderEnter(t) ==
    /\ reader[t].pc = "idle" /\ tokens > 0 /\ ~readLock
    /\ tokens' = tokens - 1
    /\ readLock' = TRUE
    /\ reader' = [reader EXCEPT ![t].pc = "pop", ![t].map = Len(leftOver)]
    /\ UNCHANGED <<readQueue, leftOver, inSes, closed, viewer, payloads, msgQueue, readerElse>>

(* processReadQueue: the next packet, until the queue is empty or the      *)
(* connection is closed.                                                   *)
ReaderPop(t) ==
    /\ reader[t].pc = "pop"
    /\ IF closed \/ readQueue = <<>>
       THEN /\ reader' = [reader EXCEPT ![t].pc = "leave"]
            /\ UNCHANGED readQueue
       ELSE /\ reader' = [reader EXCEPT ![t].pc = "decrypt", ![t].packet = Head(readQueue)]
            /\ readQueue' = Tail(readQueue)
    /\ UNCHANGED <<tokens, readLock, leftOver, inSes, closed, viewer, payloads, msgQueue,
                   readerElse>>

(* What the packet is with the data left over from the previous one: all   *)
(* of it, a head that has to wait, or bytes that authenticate nothing.     *)
Joined(left, p) ==
    IF left = None THEN p
    ELSE IF p.part = "tail" /\ left = [p EXCEPT !.part = "head"]
         THEN [p EXCEPT !.part = "whole"]
         ELSE [p EXCEPT !.part = "tail"]

(* A decrypted packet is a rekey of the client's direction, or a command:  *)
(* without a viewer it is run at once, otherwise it goes to the pool.      *)
Accept(p) ==
    IF p.msg = RekeyMsg
    THEN /\ inSes' = Rekeyed(Counted(inSes))
         /\ UNCHANGED <<viewer, payloads, msgQueue>>
    ELSE /\ inSes' = Counted(inSes)
         /\ viewer' = TRUE
         /\ payloads' = payloads \cup (IF viewer THEN {<<p.msg, p.frag>>} ELSE {})
         /\ msgQueue' = msgQueue \cup (IF viewer THEN {} ELSE {p.msg})

(* A packet that does not decrypt closes the connection.  Bytes that are   *)
(* no packet may also decode to a length that waits for more, which the    *)
(* next packet then turns into the same failure: it is taken at once.      *)
ReaderDecrypt(t) ==
    LET v == reader[t].map
        p == Joined(leftOver[v], reader[t].packet)
    IN  /\ reader[t].pc = "decrypt"
        /\ reader' = [reader EXCEPT ![t].pc = "pop", ![t].packet = None]
        /\ leftOver' = [leftOver EXCEPT ![v] = IF p.part = "head" THEN p ELSE None]
        /\ CASE p.part = "head" -> UNCHANGED <<inSes, closed, viewer, payloads, msgQueue>>
             [] p.part = "whole" /\ Decrypts(inSes, p) -> Accept(p) /\ UNCHANGED closed
             [] OTHER -> /\ closed' = TRUE
                         /\ inSes' = Counted(inSes)
                         /\ UNCHANGED <<viewer, payloads, msgQueue>>
        /\ UNCHANGED <<readQueue, tokens, readLock, readerElse>>

ReaderLeave(t) ==
    /\ reader[t].pc = "leave"
    /\ readLock' = FALSE
    /\ reader' = [reader EXCEPT ![t].pc = "idle", ![t].map = 1]
    /\ UNCHANGED <<readQueue, tokens, leftOver, inSes, closed, viewer, payloads, msgQueue,
                   readerElse>>

-----------------------------------------------------------------------------
parserElse == <<client, input, conn, output, upsets>>

(* messageParserThread: a payload, with or without data, and the lock.     *)
ParserEnter(t) ==
    /\ parser[t].pc = "idle" /\ ~processLock
    /\ \/ \E pl \in payloads :
            /\ payloads' = payloads \ {pl}
            /\ parser' = [parser EXCEPT ![t].pc = "process", ![t].payload = pl]
            /\ UNCHANGED flags
       \/ /\ flags > 0
          /\ flags' = flags - 1
          /\ parser' = [parser EXCEPT ![t].pc = "process", ![t].payload = NoData]
          /\ UNCHANGED payloads
    /\ processLock' = TRUE
    /\ UNCHANGED <<messageMap, lastValid, msgQueue, parserElse>>

IsReady(map, m) == m \in Commands /\ map[m] = 1 .. Count(m)

(* processPayload enters the packet...                                     *)
Entered(pl) == IF pl = NoData THEN messageMap
               ELSE [messageMap EXCEPT ![pl[1]] = @ \cup {pl[2]}]
(* Mutant: a command runs as soon as it is complete, whatever its number.  *)
RunsIfReady(pl) == pl[1] \in Commands /\ IsReady(Entered(pl), pl[1])

(* ... and runs the next command if it is complete and the packet is its   *)
(* own or carries no data.                                                 *)
Runs(pl) == IsReady(Entered(pl), lastValid + 1) /\ pl[1] \in {0, lastValid + 1}

(* Mutant: nothing is queued for a successor that is already complete.     *)
ParserProcessNoFlag(t) ==
    LET pl  == parser[t].payload
        run == Runs(pl)
    IN  /\ parser[t].pc = "process"
        /\ lastValid' = IF run THEN lastValid + 1 ELSE lastValid
        /\ messageMap' = IF run THEN [Entered(pl) EXCEPT ![lastValid + 1] = {}]
                         ELSE Entered(pl)
        /\ processLock' = FALSE
        /\ parser' = [parser EXCEPT ![t] = [pc |-> IF run THEN "write" ELSE "idle",
                          payload |-> NoData, result |-> IF run THEN lastValid + 1 ELSE 0]]
        /\ UNCHANGED <<flags, payloads, msgQueue, parserElse>>

(* Whatever ran, a complete next command gets a payload without data, so   *)
(* that another thread runs it.  Then the locks are released.              *)
ParserProcess(t) ==
    LET pl  == parser[t].payload
        run == Runs(pl)
    IN  /\ parser[t].pc = "process"
        /\ lastValid' = IF run THEN lastValid + 1 ELSE lastValid
        /\ messageMap' = IF run THEN [Entered(pl) EXCEPT ![lastValid + 1] = {}]
                         ELSE Entered(pl)
        /\ flags' = flags + (IF IsReady(messageMap', lastValid' + 1) THEN 1 ELSE 0)
        /\ processLock' = FALSE
        /\ parser' = [parser EXCEPT ![t] = [pc |-> IF run THEN "write" ELSE "idle",
                          payload |-> NoData, result |-> IF run THEN lastValid + 1 ELSE 0]]
        /\ UNCHANGED <<payloads, msgQueue, parserElse>>

(* WebSocketServer::write, after the locks are released.                   *)
ParserWrite(t) ==
    /\ parser[t].pc = "write"
    /\ msgQueue' = msgQueue \cup {parser[t].result}
    /\ parser' = [parser EXCEPT ![t].pc = "idle", ![t].result = 0]
    /\ UNCHANGED <<flags, processLock, messageMap, lastValid, payloads, parserElse>>

-----------------------------------------------------------------------------
writerElse == <<input, conn, payloads, viewers>>

(* prepareWriteThread: a reply, and the lock.                              *)
WriterEnter(t) ==
    /\ writer[t].pc = "idle" /\ ~writeLock
    /\ \E m \in msgQueue :
         /\ msgQueue' = msgQueue \ {m}
         /\ writer' = [writer EXCEPT ![t].pc = "encrypt", ![t].msg = m]
    /\ writeLock' = TRUE
    /\ UNCHANGED <<outSes, client, upsets, writerElse>>

(* Enough bytes or time on the key: the rekey packet goes out under the    *)
(* old key, then the key changes.                                          *)
WriterRekey(t) ==
    /\ writer[t].pc = "encrypt" /\ upsets < MaxUpsets
    /\ upsets' = upsets + 1
    /\ client' = Read(RekeyPacket(outSes))
    /\ outSes' = Rekeyed(Counted(outSes))
    /\ UNCHANGED <<msgQueue, writeLock, writer, writerElse>>

(* The packet is serialised and encrypted; a message that cannot be, which *)
(* ends the thread with the lock held, is left out.                        *)
WriterEncrypt(t) ==
    /\ writer[t].pc = "encrypt"
    /\ writer' = [writer EXCEPT ![t].pc = "send", ![t].packet = Data(outSes, writer[t].msg, 1)]
    /\ outSes' = Counted(outSes)
    /\ UNCHANGED <<msgQueue, writeLock, client, upsets, writerElse>>

(* writeToSocket, then the lock is released.                               *)
WriterSend(t) ==
    /\ writer[t].pc = "send"
    /\ client' = Read(writer[t].packet)
    /\ writeLock' = FALSE
    /\ writer' = [writer EXCEPT ![t] = [pc |-> "idle", msg |-> 0, packet |-> None]]
    /\ UNCHANGED <<msgQueue, outSes, upsets, writerElse>>

-----------------------------------------------------------------------------
ReaderStep(t) == ReaderEnter(t) \/ ReaderPop(t) \/ ReaderDecrypt(t) \/ ReaderLeave(t)
ParserStep(t) == ParserEnter(t) \/ ParserProcess(t) \/ ParserWrite(t)
WriterStep(t) == \/ WriterEnter(t) \/ WriterRekey(t)
                 \/ WriterEncrypt(t) \/ WriterSend(t)

Next ==
    \/ \E rekey, cut \in BOOLEAN : ClientSend(rekey, cut)
    \/ Join
    \/ CommandStep
    \/ \E t \in Readers : ReaderStep(t)
    \/ \E t \in Parsers : ParserStep(t)
    \/ \E t \in Writers : WriterStep(t)

Spec == Init /\ [][Next]_vars

(* Every thread keeps running; the client is not asked to send.            *)
Fairness ==
    /\ WF_vars(CommandStep)
    /\ \A t \in Readers : WF_vars(ReaderStep(t))
    /\ \A t \in Parsers : WF_vars(ParserStep(t))
    /\ \A t \in Writers : WF_vars(WriterStep(t))

FairSpec == Spec /\ Fairness

-----------------------------------------------------------------------------
(* The state of the connection, its viewer and the threads is well formed; *)
(* the parsers' map only holds packets of commands that have not run.      *)
TypeOK ==
    /\ client.sent \in 0 .. Len(Fragments) + 1
    /\ client.in \in Session /\ client.out \in Session
    /\ client.read \subseteq 0 .. Len(Fragments)
    /\ \A i \in 1 .. Len(readQueue) : readQueue[i] \in Packet
    /\ \A i \in 1 .. Len(leftOver) : leftOver[i] \in Packet \cup {None}
    /\ inSes \in Session /\ outSes \in Session
    /\ {readLock, writeLock, processLock, closed, viewer} \subseteq BOOLEAN
    /\ tokens \in Nat /\ flags \in Nat /\ lastValid \in 0 .. Len(Fragments)
    /\ \A pl \in payloads : pl[1] \in Commands /\ pl[2] \in 1 .. Count(pl[1])
    /\ \A m \in Commands : /\ messageMap[m] \subseteq 1 .. Count(m)
                           /\ m <= lastValid => messageMap[m] = {}
    /\ msgQueue \subseteq 0 .. Len(Fragments)

(* The client meets every reply and every rekey of the server in the order *)
(* of their encryption, under the key in force.                            *)
RepliesInOrder == ~client.lost

(* Both ends decrypt every packet the other end encrypted, whatever the    *)
(* pools' threads, rekeys and partial deliveries do: processReadQueue      *)
(* never closes the connection of a client that kept to the protocol, and  *)
(* the client never meets a reply or a rekey out of order.  This is what   *)
(* the two locks of the connection are for, and what the comment in        *)
(* processReadQueue calls "a simple case of appending the incoming data to *)
(* the previous left over".  It holds as long as the connection map is not *)
(* copied under a working reader (QuietJoins).                             *)
StreamsDecrypt == ~closed /\ RepliesInOrder

(* A packet in the connection's queue always has somebody who will come    *)
(* for it: a token, the command thread about to queue one, or a reader     *)
(* that has not yet seen the queue empty (clientInterruptThread may leave  *)
(* on an empty queue while commandThread pushes).                          *)
NoPacketStranded ==
    readQueue # <<>> /\ ~closed =>
        \/ tokens > 0 \/ command = "token"
        \/ \E t \in Readers : reader[t].pc \in {"pop", "decrypt"}

(* Every command the client sends is answered: no packet, token, payload   *)
(* or reply is lost on the way through the three pools, commands whose     *)
(* packets overtake each other are put back in order, and a command that   *)
(* became complete before its turn is run when its turn comes.  The client *)
(* stops sending after its last command, so all sent is all answered.      *)
CommandsAnswered == []<>(client.read = 0 .. client.sent - 1)
=============================================================================
