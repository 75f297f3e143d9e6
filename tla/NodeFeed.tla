------------------------------ MODULE NodeFeed ------------------------------
(***************************************************************************)
(* How a block the node writes to disk reaches the chain state: the node   *)
(* connection (BitcoinP2P.cpp), the queue of block announcements, and the  *)
(* main loop of the server (BDM_mainthread.cpp).                           *)
(*                                                                         *)
(*    node --socket--> dataStack_ --> processDataStackThread               *)
(*         --> invBlockStack_ --> BlockDataManagerThread::run              *)
(*                                                                         *)
(* Blocks are numbered in the order the node writes them.  invBlockStack_  *)
(* is a ClosableQueue whose entries carry nothing: it is a number.  The    *)
(* node writes a block before the one second its announcement is delayed   *)
(* is over.                                                                *)
(***************************************************************************)
EXTENDS Integers, Sequences

CONSTANTS
    MaxBlocks,      \* blocks the node writes
    MaxDrops,       \* connections that are lost
    EarlyDrop,      \* whether one may be lost before the handshake is over
    UpdateMayFail   \* whether readBlkFileUpdate may throw

ASSUME BoundsNat == MaxBlocks \in Nat /\ MaxDrops \in Nat
ASSUME FaultsBoolean == EarlyDrop \in BOOLEAN /\ UpdateMayFail \in BOOLEAN

VARIABLES
    disk,        \* blocks in the node's block files
    drops,       \* connections lost so far
    link,        \* the TCP connection
    greeting,    \* the node has answered our version message
    dataStack,   \* dataStack_: what the node sent on this connection
    stackEnd,    \* dataStack_ was terminated
    reader,      \* processDataStackThread
    connAt,      \* where connectLoop is
    verack,      \* verackPromise_ has its value
    announced,   \* connectedPromise_ has its value: it can have it only once
    connected,   \* nodeConnected_
    run,         \* run_: init() sets it, and nothing clears it
    stopping,    \* shutdown() was called
    invStack,    \* invBlockStack_
    signalled,   \* history: blocks on disk when invBlockStack_ was last pushed
    mainAt,      \* where the main loop is
    again,       \* hasNewBlocks
    found,       \* blocks readBlkFileUpdate saw in the files
    chain,       \* blocks in the chain state
    notified     \* blocks the clients were notified of

nodeVars == <<disk, drops>>
linkVars == <<link, greeting, dataStack, stackEnd>>
connVars == <<connAt, verack, announced, connected, run, stopping>>
signalVars == <<invStack, signalled>>
mainVars == <<mainAt, again, found, chain, notified>>
vars == <<nodeVars, linkVars, reader, connVars, signalVars, mainVars>>

(* The database is built (chain = 0 stands for that state) and the node may
   have written blocks since. *)
Init ==
    /\ disk \in 0..MaxBlocks /\ drops = 0
    /\ link = "closed" /\ greeting = FALSE
    /\ dataStack = <<>> /\ stackEnd = FALSE
    /\ reader = "off"
    /\ connAt = "open" /\ verack = FALSE /\ announced = FALSE
    /\ connected = FALSE /\ run = TRUE /\ stopping = FALSE
    /\ invStack = 0 /\ signalled = 0
    /\ mainAt = "wait" /\ again = FALSE /\ found = 0 /\ chain = 0 /\ notified = 0

-----------------------------------------------------------------------------
(* The bitcoin node *)

(* A block is written, and announced to a peer that has greeted. *)
NodeBlock ==
    /\ disk < MaxBlocks
    /\ disk' = disk + 1
    /\ dataStack' = IF link = "up" /\ greeting THEN Append(dataStack, "inv")
                    ELSE dataStack
    /\ UNCHANGED <<drops, link, greeting, stackEnd, reader, connVars,
                   signalVars, mainVars>>

NodeVerack ==
    /\ link = "up" /\ connAt = "handshake" /\ ~greeting
    /\ greeting' = TRUE
    /\ dataStack' = Append(dataStack, "verack")
    /\ UNCHANGED <<nodeVars, link, stackEnd, reader, connVars, signalVars, mainVars>>

(* The socket threads end: respond() with an empty packet terminates
   dataStack_. *)
NodeDrop ==
    /\ link = "up" /\ drops < MaxDrops
    /\ EarlyDrop \/ verack
    /\ drops' = drops + 1
    /\ link' = "closed"
    /\ stackEnd' = TRUE
    /\ UNCHANGED <<disk, greeting, dataStack, reader, connVars, signalVars, mainVars>>

-----------------------------------------------------------------------------
(* connectLoop *)

(* Mutant: the loop keeps the queue of the previous connection. *)
ConnectKeepStack ==
    /\ connAt = "open"
    /\ link' = "up" /\ greeting' = FALSE
    /\ verack' = FALSE
    /\ reader' = "idle"
    /\ connAt' = "handshake"
    /\ UNCHANGED <<nodeVars, dataStack, stackEnd, announced, connected, run,
                   stopping, signalVars, mainVars>>

(* New queue, socket and promise; the socket opens after any number of
   attempts; the reader starts and our version message leaves. *)
Connect ==
    /\ connAt = "open"
    /\ link' = "up" /\ greeting' = FALSE
    /\ dataStack' = <<>> /\ stackEnd' = FALSE
    /\ verack' = FALSE
    /\ reader' = "idle"
    /\ connAt' = "handshake"
    /\ UNCHANGED <<nodeVars, announced, connected, run, stopping, signalVars,
                   mainVars>>

(* The node is gone by the time the socket's addresses are asked for: the
   version message is not sent, and the catch block leads to the join of the
   reader, whose queue the closed socket terminates. *)
ConnectRefused ==
    /\ connAt = "open" /\ drops < MaxDrops
    /\ drops' = drops + 1
    /\ link' = "closed" /\ greeting' = FALSE
    /\ dataStack' = <<>> /\ stackEnd' = TRUE
    /\ verack' = FALSE
    /\ reader' = "idle"
    /\ connAt' = "join"
    /\ UNCHANGED <<disk, announced, connected, run, stopping, signalVars, mainVars>>

(* verackFuture.get(), which has no time-out, and updateNodeStatus(true). *)
ConnectVerack ==
    /\ connAt = "handshake"
    /\ verack
    /\ connected' = TRUE
    /\ connAt' = "announce"
    /\ UNCHANGED <<nodeVars, linkVars, reader, verack, announced, run, stopping,
                   signalVars, mainVars>>

PushInvBlock ==
    /\ invStack' = invStack + 1
    /\ signalled' = disk

(* connectedPromise_->set_value throws on every connection but the first,
   over the signal that follows it; the catch block only sleeps. *)
ConnectAnnounce ==
    /\ connAt = "announce"
    /\ IF announced THEN UNCHANGED signalVars ELSE PushInvBlock
    /\ announced' = TRUE
    /\ connAt' = "join"
    /\ UNCHANGED <<nodeVars, linkVars, reader, verack, connected, run, stopping,
                   mainVars>>

(* Joins the reader, closes the socket and starts over. *)
ConnectJoin ==
    /\ connAt = "join"
    /\ reader = "off"
    /\ link' = "closed"
    /\ connected' = FALSE
    /\ connAt' = IF run THEN "open" ELSE "exited"
    /\ UNCHANGED <<nodeVars, greeting, dataStack, stackEnd, reader, verack,
                   announced, run, stopping, signalVars, mainVars>>

-----------------------------------------------------------------------------
(* processDataStackThread.  A terminated queue stops it with entries left; it
   may still be handed one. *)

ReaderTake ==
    /\ reader = "idle" /\ dataStack # <<>>
    /\ dataStack' = Tail(dataStack)
    /\ IF Head(dataStack) = "verack"
       THEN verack' = TRUE /\ UNCHANGED reader
       ELSE reader' = "delay" /\ UNCHANGED verack
    /\ UNCHANGED <<nodeVars, link, greeting, stackEnd, connAt, announced,
                   connected, run, stopping, signalVars, mainVars>>

(* processInv: one second later, the announcement is queued. *)
ReaderInv ==
    /\ reader = "delay"
    /\ PushInvBlock
    /\ reader' = "idle"
    /\ UNCHANGED <<nodeVars, linkVars, connVars, mainVars>>

(* A packet that cannot be deserialized, or whose handler throws, ends the
   thread while the connection is up: connectLoop, which joins it, closes it. *)
ReaderFail ==
    /\ reader = "idle" /\ dataStack # <<>> /\ drops < MaxDrops
    /\ EarlyDrop \/ verack
    /\ drops' = drops + 1
    /\ dataStack' = Tail(dataStack)
    /\ reader' = "off"
    /\ UNCHANGED <<disk, link, greeting, stackEnd, connVars, signalVars, mainVars>>

(* StopBlockingLoop. *)
ReaderStop ==
    /\ reader = "idle" /\ stackEnd
    /\ reader' = "off"
    /\ UNCHANGED <<nodeVars, linkVars, connVars, signalVars, mainVars>>

-----------------------------------------------------------------------------
(* BlockDataManagerThread::run *)

(* Mutant: pop_front returns from an empty queue. *)
MainPopEmpty ==
    /\ mainAt = "wait"
    /\ invStack' = invStack - 1
    /\ mainAt' = "read"
    /\ UNCHANGED <<nodeVars, linkVars, reader, connVars, signalled, again, found,
                   chain, notified>>

MainPop ==
    /\ mainAt = "wait"
    /\ invStack > 0
    /\ invStack' = invStack - 1
    /\ mainAt' = "read"
    /\ UNCHANGED <<nodeVars, linkVars, reader, connVars, signalled, again, found,
                   chain, notified>>

(* readBlkFileUpdate looks at the block files ... *)
MainRead ==
    /\ mainAt = "read"
    /\ found' = disk
    /\ mainAt' = "update"
    /\ UNCHANGED <<nodeVars, linkVars, reader, connVars, signalVars, again, chain,
                   notified>>

(* ... and brings the chain there.  A new top waits for the zero-conf thread. *)
MainUpdate ==
    /\ mainAt = "update"
    /\ chain' = found
    /\ mainAt' = IF found > chain THEN "purge" ELSE "drain"
    /\ again' = FALSE
    /\ UNCHANGED <<nodeVars, linkVars, reader, connVars, signalVars, found, notified>>

(* An exception ends the thread with a log line. *)
MainFail ==
    /\ UpdateMayFail
    /\ mainAt = "update"
    /\ mainAt' = "dead"
    /\ UNCHANGED <<nodeVars, linkVars, reader, connVars, signalVars, again, found,
                   chain, notified>>

(* purgeFuture is answered and the clients are notified. *)
MainNotify ==
    /\ mainAt = "purge"
    /\ notified' = chain
    /\ mainAt' = "drain"
    /\ UNCHANGED <<nodeVars, linkVars, reader, connVars, signalVars, again, found,
                   chain>>

(* Mutant: an announcement drained after the update does not start another. *)
MainDrainOnly ==
    /\ mainAt = "drain"
    /\ IF invStack > 0
       THEN /\ invStack' = invStack - 1
            /\ UNCHANGED <<again, mainAt>>
       ELSE /\ mainAt' = IF again THEN "read"
                         ELSE IF stopping THEN "left" ELSE "wait"
            /\ UNCHANGED <<invStack, again>>
    /\ UNCHANGED <<nodeVars, linkVars, reader, connVars, signalled, found, chain,
                   notified>>

(* The inner loop empties the queue without blocking; one entry is enough
   for another update.  pimpl->run is looked at before the next wait. *)
MainDrain ==
    /\ mainAt = "drain"
    /\ IF invStack > 0
       THEN /\ invStack' = invStack - 1
            /\ again' = TRUE
            /\ UNCHANGED mainAt
       ELSE /\ mainAt' = IF again THEN "read"
                         ELSE IF stopping THEN "left" ELSE "wait"
            /\ UNCHANGED <<invStack, again>>
    /\ UNCHANGED <<nodeVars, linkVars, reader, connVars, signalled, found, chain,
                   notified>>

(* BlockDataManagerThread::shutdown calls BitcoinP2P::shutdown, which closes
   the socket and waits for connectLoop. *)
Shutdown ==
    /\ ~stopping
    /\ stopping' = TRUE
    /\ link' = "closed"
    /\ stackEnd' = TRUE
    /\ UNCHANGED <<nodeVars, greeting, dataStack, reader, connAt, verack,
                   announced, connected, run, signalVars, mainVars>>

-----------------------------------------------------------------------------
Node == NodeBlock \/ NodeVerack
Lost == NodeDrop \/ ConnectRefused \/ ReaderFail
Connection == Connect \/ ConnectVerack \/ ConnectAnnounce \/ ConnectJoin
Reader == ReaderTake \/ ReaderInv \/ ReaderStop
Main == MainPop \/ MainRead \/ MainUpdate \/ MainFail \/ MainNotify \/ MainDrain

Next == Node \/ Lost \/ Connection \/ Reader \/ Main \/ Shutdown

Spec == Init /\ [][Next]_vars

(* The threads are scheduled, the node answers a version message and the
   zero-conf thread answers a purge; nothing obliges the node to write a
   block, a connection to be lost, or anybody to stop the server. *)
Fairness ==
    /\ WF_vars(NodeVerack)
    /\ WF_vars(Connection)
    /\ WF_vars(Reader)
    /\ WF_vars(Main)

FairSpec == Spec /\ Fairness

-----------------------------------------------------------------------------
(* The connection, the queues and the main loop hold values of their kinds; an
   announcement is never taken from an empty queue. *)
TypeOK ==
    /\ disk \in 0..MaxBlocks /\ drops \in 0..MaxDrops
    /\ link \in {"closed", "up"} /\ greeting \in BOOLEAN
    /\ dataStack \in Seq({"verack", "inv"}) /\ stackEnd \in BOOLEAN
    /\ reader \in {"off", "idle", "delay"}
    /\ connAt \in {"open", "handshake", "announce", "join", "exited"}
    /\ {verack, announced, connected, run, stopping, again} \subseteq BOOLEAN
    /\ invStack \in 0..(MaxBlocks + 1)
    /\ mainAt \in {"wait", "read", "update", "purge", "drain", "left", "dead"}
    /\ {signalled, found, chain, notified} \subseteq 0..MaxBlocks

(* Every block that was on disk at a signal ends up in the chain state,
   unless the main loop died in an update or the server is being stopped. *)
SignalledProcessed ==
    \A n \in 1..MaxBlocks :
        (signalled >= n) ~> (chain >= n \/ mainAt = "dead" \/ stopping)

(* A connection that is lost is replaced, whether the node closed it, refused it
   or sent what the reader cannot process: connectLoop joins the old reader and
   comes to a new socket that is up, with the handshake over and a reader that
   listens to it.  The condition is that no connection is lost between the
   version message and the verack, which verackFuture.get() would wait for
   without end. *)
Reconnects ==
    ((link = "closed" \/ reader = "off") /\ ~EarlyDrop)
        ~> ((link = "up" /\ connected /\ reader # "off") \/ stopping)

(* BitcoinP2P::shutdown: "wait until connect loop exists". *)
ShutdownReturns == stopping ~> (connAt = "exited")

(* connectLoop: "signal new blocks for good measure": a connection that is
   established queues an announcement, so that the blocks written while the
   node was out of reach are found. *)
SignalsOnConnect ==
    [][connAt = "announce" /\ connAt' = "join" => invStack' > invStack]_vars
=============================================================================
