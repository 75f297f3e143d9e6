--------------------------- MODULE NodeFeed_proofs ---------------------------
(***************************************************************************)
(* For any number of blocks, lost connections and failing updates: the     *)
(* queue of announcements is bounded by the blocks of the node, and no     *)
(* announcement is lost between the reader, the queue and the main loop.   *)
(***************************************************************************)
EXTENDS NodeFeed, SequenceTheorems, TLAPS

(* The variables have values of their kinds, the queue aside. *)
Kinds ==
    /\ disk \in 0..MaxBlocks /\ drops \in 0..MaxDrops
    /\ link \in {"closed", "up"} /\ greeting \in BOOLEAN
    /\ dataStack \in Seq({"verack", "inv"}) /\ stackEnd \in BOOLEAN
    /\ reader \in {"off", "idle", "delay"}
    /\ connAt \in {"open", "handshake", "announce", "join", "exited"}
    /\ verack \in BOOLEAN /\ announced \in BOOLEAN /\ connected \in BOOLEAN
    /\ run \in BOOLEAN /\ stopping \in BOOLEAN /\ again \in BOOLEAN
    /\ invStack \in Nat
    /\ mainAt \in {"wait", "read", "update", "purge", "drain", "left", "dead"}

(* What the main loop has seen is on disk, and so is what was announced. *)
Progress ==
    /\ signalled \in 0..disk /\ found \in 0..disk
    /\ chain \in 0..found /\ notified \in 0..chain

(* The reader is joined before the next connection. *)
JoinedFirst == connAt = "open" => reader = "off"

(* A node that has not greeted has sent nothing. *)
Greeted == ~greeting => dataStack = <<>>

VerackQueued == \E i \in DOMAIN dataStack : dataStack[i] = "verack"

Bit(p) == IF p THEN 1 ELSE 0

(* Every announcement on its way is that of a block on disk, but for the one a
   first connection makes, and the greeting takes a place in the stack. *)
Announcements ==
    Len(dataStack) + invStack + Bit(reader = "delay")
        <= disk + Bit(announced) + Bit(VerackQueued)

FeedInv == Kinds /\ Progress /\ JoinedFirst /\ Greeted /\ Announcements

(* A block that was announced is in the chain state, or the main loop is going
   to look for it: with the entry that is queued, because it has drained one, or
   because it has yet to look at the files.  The safety behind
   SignalledProcessed: invBlockStack_ is filled by two threads and emptied at two
   places of the main loop. *)
SignalPending ==
    signalled > chain =>
        \/ invStack > 0
        \/ mainAt = "read"
        \/ mainAt = "update" /\ found >= signalled
        \/ mainAt = "drain" /\ again
        \/ mainAt \in {"left", "dead"}

-----------------------------------------------------------------------------
(* What the stack holds after a push and after a pop. *)
LEMMA StackPush ==
    ASSUME NEW S, NEW q \in Seq(S), NEW x \in S
    PROVE  /\ Append(q, x) \in Seq(S) /\ Len(Append(q, x)) = Len(q) + 1
           /\ \A y : (\E i \in DOMAIN q : q[i] = y) =>
                         \E i \in DOMAIN Append(q, x) : Append(q, x)[i] = y
           /\ \E i \in DOMAIN Append(q, x) : Append(q, x)[i] = x
<1>1. /\ Append(q, x) \in Seq(S) /\ Len(Append(q, x)) = Len(q) + 1
      /\ \A i \in DOMAIN q : i \in DOMAIN Append(q, x) /\ Append(q, x)[i] = q[i]
      /\ Len(q) + 1 \in DOMAIN Append(q, x) /\ Append(q, x)[Len(q) + 1] = x
  OBVIOUS
<1> QED
  BY <1>1, Zenon

LEMMA StackPop ==
    ASSUME NEW S, NEW q \in Seq(S), q # <<>>
    PROVE  /\ Head(q) \in S /\ Tail(q) \in Seq(S) /\ Len(Tail(q)) = Len(q) - 1
           /\ \A y : (\E i \in DOMAIN q : q[i] = y) /\ y # Head(q) =>
                         \E i \in DOMAIN Tail(q) : Tail(q)[i] = y
<1>1. Head(q) \in S /\ Tail(q) \in Seq(S) /\ Len(Tail(q)) = Len(q) - 1 /\ Head(q) = q[1]
  OBVIOUS
<1>2. \A j \in DOMAIN q : j # 1 => j - 1 \in DOMAIN Tail(q) /\ Tail(q)[j - 1] = q[j]
  OBVIOUS
<1> QED
  BY <1>1, <1>2, Zenon

LEMMA SameStack ==
    ASSUME dataStack' = dataStack
    PROVE  VerackQueued' = VerackQueued
BY DEF VerackQueued

LEMMA FeedInit == Init => FeedInv /\ SignalPending
<1> SUFFICES ASSUME Init PROVE FeedInv /\ SignalPending
  OBVIOUS
<1>2. /\ disk \in Nat /\ dataStack \in Seq({"verack", "inv"}) /\ Len(dataStack) = 0
      /\ 0 \in 0..MaxDrops /\ 0 \in 0..disk
  BY BoundsNat DEF Init
<1>1. Kinds /\ Progress /\ JoinedFirst /\ Greeted
  <2>1. Kinds
    BY <1>2 DEF Init, Kinds
  <2>2. Progress /\ JoinedFirst /\ Greeted
    BY <1>2 DEF Init, Progress, JoinedFirst, Greeted
  <2> QED
    BY <2>1, <2>2
<1>3. Announcements
  BY <1>2 DEF Init, Announcements, Bit, VerackQueued
<1>4. SignalPending
  BY DEF Init, SignalPending
<1> QED
  BY <1>1, <1>3, <1>4 DEF FeedInv

(* The node writes and greets. *)
LEMMA NodeSteps ==
    ASSUME FeedInv, Node
    PROVE  FeedInv'
<1> USE BoundsNat
<1>1. /\ Kinds /\ Progress /\ JoinedFirst /\ Greeted /\ Announcements
      /\ MaxBlocks \in Nat /\ MaxDrops \in Nat /\ Len(dataStack) \in Nat
      /\ disk \in Nat /\ invStack \in Nat
  BY DEF FeedInv, Kinds
<1>2. CASE NodeBlock
  <2>1. /\ disk < MaxBlocks /\ disk' = disk + 1
        /\ UNCHANGED <<drops, link, greeting, stackEnd, reader, connVars, signalVars, mainVars>>
        /\ \/ dataStack' = Append(dataStack, "inv") /\ greeting
           \/ dataStack' = dataStack
    BY <1>2 DEF NodeBlock
  <2>2. /\ dataStack' \in Seq({"verack", "inv"}) /\ Len(dataStack') \in Nat
        /\ Len(dataStack') <= Len(dataStack) + 1
        /\ dataStack' = dataStack \/ greeting
        /\ VerackQueued => VerackQueued'
    BY <1>1, <2>1, StackPush DEF Kinds, VerackQueued
  <2>3. Kinds'
    BY <1>1, <2>1, <2>2 DEF Kinds, connVars, signalVars, mainVars
  <2>4. Progress'
    BY <1>1, <2>1 DEF Kinds, Progress, connVars, signalVars, mainVars
  <2>5. JoinedFirst' /\ Greeted'
    BY <1>1, <2>1, <2>2 DEF JoinedFirst, Greeted, connVars, Kinds
  <2>6. Announcements'
    BY <1>1, <2>1, <2>2 DEF Announcements, Bit, connVars, signalVars
  <2> QED
    BY <2>3, <2>4, <2>5, <2>6 DEF FeedInv
<1>3. CASE NodeVerack
  <2>1. /\ ~greeting /\ greeting' = TRUE /\ dataStack' = Append(dataStack, "verack")
        /\ UNCHANGED <<nodeVars, link, stackEnd, reader, connVars, signalVars, mainVars>>
    BY <1>3 DEF NodeVerack
  <2>2. /\ dataStack' \in Seq({"verack", "inv"}) /\ Len(dataStack') = Len(dataStack) + 1
        /\ ~VerackQueued /\ VerackQueued'
    <3>1. dataStack = <<>>
      BY <1>1, <2>1 DEF Greeted
    <3> QED
      BY <1>1, <2>1, <3>1, StackPush DEF Kinds, VerackQueued
  <2>3. Kinds' /\ Progress' /\ JoinedFirst'
    BY <1>1, <2>1, <2>2
       DEF Kinds, Progress, JoinedFirst, nodeVars, connVars, signalVars, mainVars
  <2>4. Greeted'
    BY <2>1, <2>2 DEF Greeted
  <2>5. Announcements'
    BY <1>1, <2>1, <2>2 DEF Announcements, Greeted, Bit, nodeVars, connVars, signalVars
  <2> QED
    BY <2>3, <2>4, <2>5 DEF FeedInv
<1> QED
  BY <1>2, <1>3 DEF Node

(* A connection is lost: closed, refused, or given up by its reader. *)
LEMMA LossSteps ==
    ASSUME FeedInv, Lost
    PROVE  FeedInv'
<1> USE BoundsNat
<1>1. /\ Kinds /\ Progress /\ JoinedFirst /\ Greeted /\ Announcements
      /\ MaxDrops \in Nat /\ Len(dataStack) \in Nat /\ disk \in Nat /\ invStack \in Nat
  BY DEF FeedInv, Kinds
<1>2. CASE NodeDrop
  <2>1. /\ drops < MaxDrops /\ drops' = drops + 1 /\ link' = "closed" /\ stackEnd' = TRUE
        /\ UNCHANGED <<disk, greeting, dataStack, reader, connVars, signalVars, mainVars>>
    BY <1>2 DEF NodeDrop
  <2>2. Kinds' /\ Progress'
    BY <1>1, <2>1 DEF Kinds, Progress, connVars, signalVars, mainVars
  <2>3. JoinedFirst' /\ Greeted' /\ Announcements'
    BY <1>1, <2>1, SameStack DEF JoinedFirst, Greeted, Announcements, connVars, signalVars
  <2> QED
    BY <2>2, <2>3 DEF FeedInv
<1>3. CASE ConnectRefused
  <2>1. /\ drops < MaxDrops /\ drops' = drops + 1 /\ link' = "closed" /\ greeting' = FALSE
        /\ dataStack' = <<>> /\ stackEnd' = TRUE /\ verack' = FALSE /\ reader' = "idle"
        /\ connAt' = "join"
        /\ UNCHANGED <<disk, announced, connected, run, stopping, signalVars, mainVars>>
    BY <1>3 DEF ConnectRefused
  <2>2. dataStack' \in Seq({"verack", "inv"}) /\ Len(dataStack') = 0
    BY <2>1
  <2>3. Kinds' /\ Progress'
    <3>1. Progress'
      BY <1>1, <2>1 DEF Progress, signalVars, mainVars
    <3>2. drops' \in 0..MaxDrops
      BY <1>1, <2>1 DEF Kinds
    <3>3. Kinds'
      BY <1>1, <2>1, <2>2, <3>2 DEF Kinds, signalVars, mainVars
    <3> QED
      BY <3>1, <3>3
  <2>4. JoinedFirst' /\ Greeted'
    BY <2>1 DEF JoinedFirst, Greeted
  <2>5. VerackQueued => Len(dataStack) >= 1
    BY <1>1 DEF VerackQueued, Kinds
  <2>6. Announcements'
    BY <1>1, <2>1, <2>2, <2>5 DEF Announcements, Bit, signalVars
  <2> QED
    BY <2>3, <2>4, <2>6 DEF FeedInv
<1>4. CASE ReaderFail
  <2>1. /\ drops < MaxDrops /\ drops' = drops + 1 /\ reader = "idle" /\ reader' = "off"
        /\ dataStack # <<>> /\ dataStack' = Tail(dataStack)
        /\ UNCHANGED <<disk, link, greeting, stackEnd, connVars, signalVars, mainVars>>
    BY <1>4 DEF ReaderFail
  <2>2. /\ dataStack' \in Seq({"verack", "inv"}) /\ Len(dataStack') = Len(dataStack) - 1
        /\ VerackQueued /\ Head(dataStack) # "verack" => VerackQueued'
    <3>1. dataStack \in Seq({"verack", "inv"}) /\ dataStack # <<>>
      BY <1>1, <2>1 DEF Kinds
    <3>2. /\ Tail(dataStack) \in Seq({"verack", "inv"})
          /\ Len(Tail(dataStack)) = Len(dataStack) - 1
          /\ (\E i \in DOMAIN dataStack : dataStack[i] = "verack") /\ "verack" # Head(dataStack) =>
                \E i \in DOMAIN Tail(dataStack) : Tail(dataStack)[i] = "verack"
      BY <3>1, StackPop, Zenon
    <3> QED
      BY <3>2, <2>1 DEF VerackQueued
  <2>3. Kinds' /\ Progress'
    BY <1>1, <2>1, <2>2 DEF Kinds, Progress, connVars, signalVars, mainVars
  <2>4. JoinedFirst' /\ Greeted'
    BY <1>1, <2>1, <2>2 DEF JoinedFirst, Greeted, connVars
  <2>5. Announcements'
    BY <1>1, <2>1, <2>2 DEF Announcements, Bit, connVars, signalVars
  <2> QED
    BY <2>3, <2>4, <2>5 DEF FeedInv
<1> QED
  BY <1>2, <1>3, <1>4 DEF Lost

(* connectLoop, and shutdown. *)
LEMMA ConnectionSteps ==
    ASSUME FeedInv, Connection \/ Shutdown
    PROVE  FeedInv'
<1> USE BoundsNat
<1>1. /\ Kinds /\ Progress /\ JoinedFirst /\ Greeted /\ Announcements
      /\ Len(dataStack) \in Nat /\ disk \in Nat /\ invStack \in Nat
  BY DEF FeedInv, Kinds
<1>2. CASE Connect
  <2>1. /\ connAt = "open" /\ link' = "up" /\ greeting' = FALSE /\ dataStack' = <<>>
        /\ stackEnd' = FALSE /\ verack' = FALSE /\ reader' = "idle" /\ connAt' = "handshake"
        /\ UNCHANGED <<nodeVars, announced, connected, run, stopping, signalVars, mainVars>>
    BY <1>2 DEF Connect
  <2>2. dataStack' \in Seq({"verack", "inv"}) /\ Len(dataStack') = 0
    BY <2>1
  <2>3. Kinds' /\ Progress' /\ JoinedFirst' /\ Greeted'
    BY <1>1, <2>1, <2>2
       DEF Kinds, Progress, JoinedFirst, Greeted, nodeVars, signalVars, mainVars
  <2>4. invStack <= disk + Bit(announced)
    <3>1. VerackQueued => Len(dataStack) >= 1
      BY <1>1 DEF VerackQueued, Kinds
    <3> QED
      BY <3>1, <1>1 DEF Announcements, Bit
  <2>5. Announcements'
    BY <1>1, <2>1, <2>2, <2>4 DEF Announcements, Bit, nodeVars, signalVars
  <2> QED
    BY <2>3, <2>5 DEF FeedInv
<1>3. CASE ConnectVerack \/ ConnectJoin \/ Shutdown
  <2>1. /\ UNCHANGED <<nodeVars, greeting, dataStack, reader, verack, announced, run, signalVars,
                       mainVars>>
        /\ link' \in {"closed", link} /\ stackEnd' \in {TRUE, stackEnd}
        /\ connected' \in {TRUE, FALSE, connected} /\ stopping' \in {TRUE, stopping}
        /\ connAt' \in {connAt, "announce", "exited"} \/ (connAt' = "open" /\ reader = "off")
    BY <1>3 DEF ConnectVerack, ConnectJoin, Shutdown, linkVars
  <2>4. /\ connected' \in BOOLEAN /\ stopping' \in BOOLEAN /\ stackEnd' \in BOOLEAN
        /\ link' \in {"closed", "up"}
        /\ connAt' \in {"open", "handshake", "announce", "join", "exited"}
    BY <1>1, <2>1 DEF Kinds
  <2>2. Kinds' /\ Progress'
    BY <1>1, <2>1, <2>4 DEF Kinds, Progress, nodeVars, signalVars, mainVars
  <2>3. JoinedFirst' /\ Greeted' /\ Announcements'
    BY <1>1, <2>1 DEF JoinedFirst, Greeted, Announcements, VerackQueued, nodeVars, signalVars
  <2> QED
    BY <2>2, <2>3 DEF FeedInv
<1>4. CASE ConnectAnnounce
  <2>1. /\ announced' = TRUE /\ connAt' = "join"
        /\ UNCHANGED <<nodeVars, linkVars, reader, verack, connected, run, stopping, mainVars>>
        /\ \/ announced /\ UNCHANGED signalVars
           \/ ~announced /\ invStack' = invStack + 1 /\ signalled' = disk
    BY <1>4 DEF ConnectAnnounce, PushInvBlock, Kinds
  <2>2. Kinds' /\ Progress'
    BY <1>1, <2>1 DEF Kinds, Progress, nodeVars, linkVars, signalVars, mainVars
  <2>3. JoinedFirst' /\ Greeted'
    BY <1>1, <2>1 DEF JoinedFirst, Greeted, linkVars
  <2>4. Announcements'
    BY <1>1, <2>1 DEF Announcements, VerackQueued, Bit, nodeVars, linkVars, signalVars
  <2> QED
    BY <2>2, <2>3, <2>4 DEF FeedInv
<1> QED
  BY <1>2, <1>3, <1>4 DEF Connection

(* processDataStackThread. *)
LEMMA ReaderSteps ==
    ASSUME FeedInv, Reader
    PROVE  FeedInv'
<1> USE BoundsNat
<1>1. /\ Kinds /\ Progress /\ JoinedFirst /\ Greeted /\ Announcements
      /\ Len(dataStack) \in Nat /\ disk \in Nat /\ invStack \in Nat
  BY DEF FeedInv, Kinds
<1>2. CASE ReaderTake
  <2>1. /\ reader = "idle" /\ dataStack # <<>> /\ dataStack' = Tail(dataStack)
        /\ IF Head(dataStack) = "verack"
           THEN verack' = TRUE /\ reader' = reader
           ELSE reader' = "delay" /\ verack' = verack
        /\ UNCHANGED <<nodeVars, link, greeting, stackEnd, connAt, announced, connected, run,
                       stopping, signalVars, mainVars>>
    BY <1>2 DEF ReaderTake
  <2>2. /\ dataStack' \in Seq({"verack", "inv"}) /\ Len(dataStack') = Len(dataStack) - 1
        /\ VerackQueued /\ Head(dataStack) # "verack" => VerackQueued'
    <3>1. dataStack \in Seq({"verack", "inv"}) /\ dataStack # <<>>
      BY <1>1, <2>1 DEF Kinds
    <3>2. /\ Tail(dataStack) \in Seq({"verack", "inv"})
          /\ Len(Tail(dataStack)) = Len(dataStack) - 1
          /\ (\E i \in DOMAIN dataStack : dataStack[i] = "verack") /\ "verack" # Head(dataStack) =>
                \E i \in DOMAIN Tail(dataStack) : Tail(dataStack)[i] = "verack"
      BY <3>1, StackPop, Zenon
    <3> QED
      BY <3>2, <2>1 DEF VerackQueued
  <2>7. Head(dataStack) = "verack" => VerackQueued
    BY <1>1, <2>1 DEF Kinds, VerackQueued
  <2>6. reader' \in {"off", "idle", "delay"} /\ verack' \in BOOLEAN
    BY <1>1, <2>1 DEF Kinds
  <2>3. Kinds' /\ Progress'
    BY <1>1, <2>1, <2>2, <2>6 DEF Kinds, Progress, nodeVars, signalVars, mainVars
  <2>4. JoinedFirst' /\ Greeted'
    BY <1>1, <2>1, <2>2 DEF JoinedFirst, Greeted
  <2>5. Announcements'
    BY <1>1, <2>1, <2>2, <2>7 DEF Announcements, Bit, nodeVars, signalVars
  <2> QED
    BY <2>3, <2>4, <2>5 DEF FeedInv
<1>3. CASE ReaderInv
  <2>1. /\ reader = "delay" /\ reader' = "idle" /\ invStack' = invStack + 1 /\ signalled' = disk
        /\ UNCHANGED <<nodeVars, linkVars, connVars, mainVars>>
    BY <1>3 DEF ReaderInv, PushInvBlock
  <2>2. Kinds' /\ Progress'
    BY <1>1, <2>1 DEF Kinds, Progress, nodeVars, linkVars, connVars, mainVars
  <2>3. JoinedFirst' /\ Greeted'
    BY <1>1, <2>1 DEF JoinedFirst, Greeted, linkVars, connVars
  <2>4. Announcements'
    BY <1>1, <2>1 DEF Announcements, VerackQueued, Bit, nodeVars, linkVars, connVars
  <2> QED
    BY <2>2, <2>3, <2>4 DEF FeedInv
<1>4. CASE ReaderStop
  <2>1. /\ reader = "idle" /\ reader' = "off"
        /\ UNCHANGED <<nodeVars, linkVars, connVars, signalVars, mainVars>>
    BY <1>4 DEF ReaderStop
  <2>2. Kinds' /\ Progress'
    BY <1>1, <2>1 DEF Kinds, Progress, nodeVars, linkVars, connVars, signalVars, mainVars
  <2>3. JoinedFirst' /\ Greeted'
    BY <1>1, <2>1 DEF JoinedFirst, Greeted, linkVars, connVars
  <2>4. Announcements'
    BY <1>1, <2>1
       DEF Announcements, VerackQueued, Bit, nodeVars, linkVars, connVars, signalVars
  <2> QED
    BY <2>2, <2>3, <2>4 DEF FeedInv
<1> QED
  BY <1>2, <1>3, <1>4 DEF Reader

(* What a step of the main loop does to the queue, and to what it has seen. *)
LEMMA MainSteps ==
    ASSUME FeedInv, Main
    PROVE  FeedInv'
<1> USE BoundsNat
<1>1. /\ Kinds /\ Progress /\ JoinedFirst /\ Greeted /\ Announcements
      /\ Len(dataStack) \in Nat /\ disk \in Nat /\ invStack \in Nat
  BY DEF FeedInv, Kinds
<1>2. UNCHANGED <<nodeVars, linkVars, reader, connVars, signalled>>
  BY DEF Main, MainPop, MainRead, MainUpdate, MainFail, MainNotify, MainDrain, signalVars
<1>3. invStack' \in Nat /\ invStack' <= invStack
  BY <1>1 DEF Main, MainPop, MainRead, MainUpdate, MainFail, MainNotify, MainDrain, signalVars
<1>4. /\ mainAt' \in {"wait", "read", "update", "purge", "drain", "left", "dead"}
      /\ again' \in BOOLEAN
  BY <1>1
     DEF Main, MainPop, MainRead, MainUpdate, MainFail, MainNotify, MainDrain, Kinds
<1>5. /\ found' \in 0..disk /\ chain' \in 0..found' /\ notified' \in 0..chain'
  BY <1>1
     DEF Main, MainPop, MainRead, MainUpdate, MainFail, MainNotify, MainDrain, Progress
<1>6. Kinds'
  BY <1>1, <1>2, <1>3, <1>4 DEF Kinds, nodeVars, linkVars, connVars
<1>7. Progress'
  BY <1>1, <1>2, <1>5 DEF Progress, nodeVars
<1>8. JoinedFirst' /\ Greeted'
  BY <1>1, <1>2 DEF JoinedFirst, Greeted, linkVars, connVars
<1>9. Announcements'
  BY <1>1, <1>2, <1>3 DEF Announcements, VerackQueued, Bit, nodeVars, linkVars, connVars
<1> QED
  BY <1>6, <1>7, <1>8, <1>9 DEF FeedInv

LEMMA FeedStep == FeedInv /\ [Next]_vars => FeedInv'
<1> SUFFICES ASSUME FeedInv, [Next]_vars PROVE FeedInv'
  OBVIOUS
<1>1. CASE UNCHANGED vars
  BY <1>1, SameStack
     DEF vars, nodeVars, linkVars, connVars, signalVars, mainVars, FeedInv, Kinds, Progress,
         JoinedFirst, Greeted, Announcements
<1> QED
  BY <1>1, NodeSteps, LossSteps, ConnectionSteps, ReaderSteps, MainSteps DEF Next

(* A push leaves an entry for whatever is new; everybody else leaves the queue
   and the announcements alone. *)
LEMMA PendingStep == FeedInv /\ SignalPending /\ [Next]_vars => SignalPending'
<1> SUFFICES ASSUME FeedInv, SignalPending, [Next]_vars PROVE SignalPending'
  OBVIOUS
<1>1. /\ invStack \in Nat /\ signalled \in Int /\ chain \in Int /\ found \in Int /\ disk \in Int
      /\ signalled <= disk /\ chain <= found /\ again \in BOOLEAN
  BY BoundsNat DEF FeedInv, Kinds, Progress
<1>2. CASE \/ UNCHANGED vars \/ Node \/ Lost \/ Shutdown \/ Connect \/ ConnectVerack
           \/ ConnectJoin \/ ReaderTake \/ ReaderStop \/ (ConnectAnnounce /\ announced)
  <2>1. UNCHANGED <<signalVars, mainVars>>
    BY <1>2
       DEF vars, Node, NodeBlock, NodeVerack, Lost, NodeDrop, ConnectRefused, ReaderFail, Shutdown, Connect, ConnectVerack,
           ConnectJoin, ReaderTake, ReaderStop, ConnectAnnounce
  <2> QED
    BY <2>1 DEF SignalPending, signalVars, mainVars
<1>3. CASE (ConnectAnnounce /\ ~announced) \/ ReaderInv
  <2>1. invStack' = invStack + 1
    BY <1>3 DEF ConnectAnnounce, ReaderInv, PushInvBlock
  <2> QED
    BY <2>1, <1>1 DEF SignalPending
<1>4. CASE MainPop
  BY <1>4 DEF MainPop, SignalPending
<1>5. CASE MainRead
  BY <1>1, <1>5 DEF MainRead, SignalPending, signalVars
<1>6. CASE MainUpdate
  BY <1>1, <1>6 DEF MainUpdate, SignalPending, signalVars
<1>7. CASE MainFail
  BY <1>7 DEF MainFail, SignalPending
<1>8. CASE MainNotify
  BY <1>8 DEF MainNotify, SignalPending, signalVars
<1>9. CASE MainDrain
  BY <1>1, <1>9 DEF MainDrain, SignalPending
<1> QED
  BY <1>2, <1>3, <1>4, <1>5, <1>6, <1>7, <1>8, <1>9 DEF Next, Connection, Reader, Main

(* Types, for any bounds: in particular the queue of announcements never holds
   more than one entry per block and the one of the first connection. *)
THEOREM FeedTyped == Spec => []TypeOK
<1>1. FeedInv => TypeOK
  <2> SUFFICES ASSUME FeedInv PROVE TypeOK
    OBVIOUS
  <2>1. Kinds /\ Progress /\ Greeted /\ Announcements
    BY DEF FeedInv
  <2>2. /\ MaxBlocks \in Nat /\ disk \in Nat /\ disk <= MaxBlocks /\ invStack \in Nat
        /\ Len(dataStack) \in Nat
    BY <2>1, BoundsNat DEF Kinds
  <2>3. VerackQueued => Len(dataStack) >= 1
    BY <2>1 DEF VerackQueued, Kinds
  <2>4. invStack <= MaxBlocks + 1
    BY <2>1, <2>2, <2>3 DEF Announcements, Bit
  <2>5. {signalled, found, chain, notified} \subseteq 0..MaxBlocks
    BY <2>1, <2>2 DEF Progress
  <2> QED
    BY <2>1, <2>2, <2>4, <2>5 DEF TypeOK, Kinds
<1> QED
  BY <1>1, FeedInit, FeedStep, PTL DEF Spec

(* No announcement is lost, whatever the node, the connection and the reader do
   while the main loop updates, drains or waits. *)
THEOREM SignalsNotLost == Spec => []SignalPending
  BY FeedInit, FeedStep, PendingStep, PTL DEF Spec
=============================================================================
