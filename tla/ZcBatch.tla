------------------------------- MODULE ZcBatch -------------------------------
(***************************************************************************)
(* The life of zero-conf batches in ZeroConfContainer and ZcActionQueue    *)
(* (ZeroConf.cpp), with the client broadcasts and the RPC fallback that    *)
(* Clients (BDM_Server.cpp) runs around them.                              *)
(*                                                                         *)
(* Six kinds of threads share the state: the client threads that call      *)
(* broadcastZC, the inventory thread (handleInvTx), the preprocessing      *)
(* threads (handleZcProcessingStructThread), the matcher                   *)
(* (getDataToBatchMatcherThread), the zc thread (processNewZcQueue) and    *)
(* the RPC thread (broadcastThroughRPC).  The queues between them are      *)
(* FIFO, as ClosableQueue promises; shutdown is left out.  A transaction   *)
(* is a model value: every one is valid, touches a registered address and  *)
(* is not mined, and no two of a batch spend each other.                   *)
(***************************************************************************)
EXTENDS Naturals, Sequences, FiniteSets, SequencesExt

CONSTANTS
    Tx,             \* transactions, named by their hashes
    NetTx,          \* the ones the node knows of from the network
    Rejectable,     \* the ones the node may refuse
    Requests,       \* broadcast requests of the clients
    Wants,          \* the transactions of each request
    Rebroadcasts,   \* clients repeat a transaction an earlier batch has had
    Parsers,        \* the preprocessing threads
    BlockAfter,     \* bound: the new block comes when this many batches were made
    None            \* no transaction, no request

ASSUME ZcBatchAssumption ==
    /\ IsFiniteSet(Tx)
    /\ NetTx \subseteq Tx /\ Rejectable \subseteq Tx
    /\ Wants \in [Requests -> SUBSET Tx]
    /\ BlockAfter \in Nat /\ Rebroadcasts \in BOOLEAN
    /\ None \notin Tx \cup Requests

VARIABLES
    bTx,            \* zcMap_ of the batches, by creation order
    bFrom,          \* who made each: "client", "inv" or "rpc"
    bReq,           \* requestor_
    bCount,         \* counter_
    bProm,          \* isReadyPromise_
    bReady,         \* transactions of the batch with a parsed body
    pc,             \* where the thread of each broadcast request is
    todo,           \* the hashes it is going to make a batch of
    newZcQ,         \* newZcQueue_: batches, 0 for a purge
    batchQ,         \* batchQueue_
    getDataQ,       \* getDataResponseQueue_
    preQ,           \* zcPreprocessQueue_
    clearQ,         \* hashesToClear_, always drained as a whole
    rpcQ,           \* rpcBroadcastQueue_
    buffer,         \* the request handleInvTx is filling
    watcher,        \* watcherMap_: "none", "watched", "ignored" or "inved"
    extra,          \* extraRequestors_ of the watcher entries
    matching,       \* hashToBatchMap, 0 where there is no entry
    clearing,       \* the matcher is past its packet, before hashesToClear_
    parser,         \* what each preprocessing thread does
    zc,             \* the zc thread
    rpcStep,        \* where the RPC thread is
    rpcJob,         \* the packet the RPC thread works on
    mempool,        \* txHashToDBKey_ of the snapshot
    accepted,       \* every transaction the mempool ever held
    answered,       \* replies sent, as <<request, transaction>>
    purge,          \* the new-block notification: "none", "asked" or "done"
    known,          \* the node's own mempool
    offered,        \* announced to the node by us
    asked,          \* getdata requests out at the node
    refused,        \* the transactions the node finds invalid
    told,           \* announced by the node: <<connection, transaction>>
    aborted         \* an exception left a thread: std::terminate

batchVars == <<bTx, bFrom, bReq, bCount, bProm, bReady>>
queueVars == <<newZcQ, batchQ, getDataQ, preQ, clearQ, rpcQ>>
nodeVars == <<known, offered, asked, told, refused>>
watchVars == <<watcher, extra>>
replyVars == <<mempool, accepted, answered>>
vars == <<batchVars, pc, todo, queueVars, buffer, watchVars, matching, clearing,
          parser, zc, rpcStep, rpcJob, replyVars, purge, nodeVars, aborted>>

NoJob == [tx |-> None, batch |-> 0]
ZcIdle == [step |-> "idle", batch |-> 0, result |-> "none", keep |-> {},
           carried |-> [h \in Tx |-> {}]]
NoRpc == [tx |-> None, req |-> None, others |-> {}, batch |-> 0]

Init ==
    /\ bTx = <<>> /\ bFrom = <<>> /\ bReq = <<>>
    /\ bCount = <<>> /\ bProm = <<>> /\ bReady = <<>>
    /\ pc = [r \in Requests |-> "idle"]
    /\ todo = [r \in Requests |-> {}]
    /\ newZcQ = <<>> /\ batchQ = <<>> /\ getDataQ = <<>> /\ preQ = <<>>
    /\ clearQ = {} /\ rpcQ = <<>>
    /\ buffer = {}
    /\ watcher = [h \in Tx |-> "none"] /\ extra = [h \in Tx |-> {}]
    /\ matching = [h \in Tx |-> 0]
    /\ clearing = FALSE
    /\ parser = [p \in Parsers |-> [step |-> "idle", job |-> NoJob]]
    /\ zc = ZcIdle
    /\ rpcStep = "idle" /\ rpcJob = NoRpc
    /\ mempool = {} /\ accepted = {} /\ answered = {}
    /\ purge = "none"
    /\ known = NetTx /\ offered = {} /\ asked = {} /\ told = {}
    /\ refused \in SUBSET Rejectable
    /\ aborted = FALSE

-----------------------------------------------------------------------------
(* ZcActionQueue::initiateZcBatch: a batch with its counter, for the zc thread
   first and for the matcher second.  The two pushes are one step: an iteration
   of the matcher between them sees what one before them does, and the zc thread
   waits for what the matcher makes of the batch.  Only a client that sends the
   same hashes again could tell the two apart. *)
NewBatch(from, req, hashes, count) ==
    /\ bTx' = Append(bTx, hashes)
    /\ bFrom' = Append(bFrom, from)
    /\ bReq' = Append(bReq, req)
    /\ bCount' = Append(bCount, count)
    /\ bProm' = Append(bProm, "none")
    /\ bReady' = Append(bReady, {})
    /\ newZcQ' = Append(newZcQ, Len(bTx) + 1)
    /\ batchQ' = Append(batchQ, Len(bTx) + 1)

(* Mutant: the counter is never set to the size of the batch. *)
InitiateZcBatchUncounted(from, req, hashes) == NewBatch(from, req, hashes, 0)

InitiateZcBatch(from, req, hashes) ==
    NewBatch(from, req, hashes, Cardinality(hashes))

-----------------------------------------------------------------------------
(* Client threads. *)

Unwatched(r) == {h \in Wants[r] : watcher[h] = "none"}

(* broadcastZC up to initiateZcBatch: under the watcher map's lock, every hash
   gets an entry or, when it has one, the requests of tied are added to it; the
   batch is made of hashes. *)
Register(r, hashes, tied) ==
    /\ pc[r] = "idle"
    /\ Rebroadcasts \/ \A b \in DOMAIN bTx : bTx[b] \cap Unwatched(r) = {}
    /\ watcher' = [h \in Tx |-> IF h \in Wants[r] /\ watcher[h] = "none"
                                THEN "watched" ELSE watcher[h]]
    /\ extra' = [h \in Tx |-> IF h \notin Wants[r] THEN extra[h]
                              ELSE IF watcher[h] = "none" THEN {}
                              ELSE extra[h] \cup tied]
    /\ todo' = [todo EXCEPT ![r] = hashes]
    /\ pc' = [pc EXCEPT ![r] = IF hashes = {} THEN "done" ELSE "registered"]
    /\ UNCHANGED <<batchVars, queueVars, buffer, matching, clearing, parser, zc,
                   rpcStep, rpcJob, replyVars, purge, nodeVars, aborted>>

(* Mutant: a request is not tied to the entries other requests have made. *)
BroadcastZCForget(r) == Register(r, Unwatched(r), {})

(* Mutant: the hash is not dropped although an earlier batch has its entry. *)
BroadcastZCKeep(r) == Register(r, Wants[r], {r})

BroadcastZC(r) == Register(r, Unwatched(r), {r})

(* An inv to the node; a node that is offline gets nothing, silently. *)
PushThroughP2P(hashes) ==
    \E online \in BOOLEAN :
        offered' = IF online THEN offered \cup hashes ELSE offered

(* The rest of broadcastZC, outside the lock: the batch, and the packet for the
   preprocessing threads, one of which sends the inv.  The queue in between
   delays it as the network does. *)
BroadcastBatch(r) ==
    /\ pc[r] = "registered"
    /\ InitiateZcBatch("client", r, todo[r])
    /\ PushThroughP2P(todo[r])
    /\ pc' = [pc EXCEPT ![r] = "done"]
    /\ todo' = [todo EXCEPT ![r] = {}]
    /\ UNCHANGED <<getDataQ, preQ, clearQ, rpcQ, buffer, watchVars, matching,
                   clearing, parser, zc, rpcStep, rpcJob, replyVars, purge, known,
                   asked, told, refused, aborted>>

-----------------------------------------------------------------------------
(* The inventory thread, handleInvTx. *)

(* The queue in front of the thread (zcWatcherQueue_) delays an inv as the
   network does, and is not told apart from it: an inv is an announcement of
   the node and its handling.  The node announces a transaction once on each
   connection, and not on the one it was offered on. *)
Announced(h, to) ==
    /\ <<to, h>> \notin told
    /\ told' = told \cup {<<to, h>>}

(* From the watcher node: a watched transaction has come back, its own body is
   posted as if the node had sent it. *)
InvWatcher(h) ==
    /\ Announced(h, "watcher") /\ h \in (known \cup offered) \ refused
    /\ watcher[h] = "watched"
    /\ watcher' = [watcher EXCEPT ![h] = "inved"]
    /\ getDataQ' = Append(getDataQ, [kind |-> "payload", tx |-> h])
    /\ UNCHANGED <<batchVars, pc, todo, newZcQ, batchQ, preQ, clearQ, rpcQ,
                   buffer, extra, matching, clearing, parser, zc, rpcStep, rpcJob,
                   replyVars, purge, known, offered, asked, refused, aborted>>

(* From the process node: kept for the next request unless it is watched. *)
InvProcess(h) ==
    /\ Announced(h, "process") /\ h \in known \ offered
    /\ watcher[h] = "none"
    /\ buffer' = buffer \cup {h}
    /\ UNCHANGED <<batchVars, pc, todo, newZcQ, batchQ, getDataQ, preQ, clearQ,
                   rpcQ, watchVars, matching, clearing, parser, zc, rpcStep, rpcJob,
                   replyVars, purge, known, offered, asked, refused, aborted>>

RequestTxFromNode(hashes) == asked' = asked \cup hashes

(* The request is full or old enough (RequestZcPacket::ready): a batch, and a
   getdata to the node, which a preprocessing thread sends. *)
InvFlush ==
    /\ buffer # {}
    /\ buffer' = {}
    /\ InitiateZcBatch("inv", None, buffer)
    /\ RequestTxFromNode(buffer)
    /\ UNCHANGED <<pc, todo, getDataQ, preQ, clearQ, rpcQ, watchVars, matching,
                   clearing, parser, zc, rpcStep, rpcJob, replyVars, purge, known,
                   offered, told, refused, aborted>>

-----------------------------------------------------------------------------
(* The preprocessing threads, handleZcProcessingStructThread. *)

ParserPayload(p) ==
    /\ parser[p].step = "idle" /\ preQ # <<>>
    /\ preQ' = Tail(preQ)
    /\ parser' = [parser EXCEPT ![p] =
                     [step |-> "parse", job |-> Head(preQ)]]
    /\ UNCHANGED <<batchVars, pc, todo, newZcQ, batchQ, getDataQ, clearQ, rpcQ,
                   buffer, watchVars, matching, clearing, zc, rpcStep, rpcJob,
                   replyVars, purge, nodeVars, aborted>>

Step(p, s) == parser' = [parser EXCEPT ![p].step = s]

parserRest == <<bTx, bFrom, bReq, pc, todo, queueVars, buffer, watchVars,
                matching, clearing, zc, rpcStep, rpcJob, replyVars, purge, nodeVars,
                aborted>>

(* processPayloadTx: set the body and resolve its inputs and outputs ... *)
ParserParse(p) ==
    LET b == parser[p].job.batch IN
    /\ parser[p].step = "parse"
    /\ bReady' = [bReady EXCEPT ![b] = @ \cup {parser[p].job.tx}]
    /\ Step(p, "count")
    /\ UNCHANGED <<bCount, bProm, parserRest>>

(* ... count it (incrementCounter) ... *)
ParserCount(p) ==
    LET b == parser[p].job.batch IN
    /\ parser[p].step = "count"
    /\ bCount' = [bCount EXCEPT ![b] = @ - 1]
    /\ Step(p, IF bCount[b] = 1 THEN "set" ELSE "idle")
    /\ UNCHANGED <<bProm, bReady, parserRest>>

(* ... and the last one fulfils the promise, if nothing has yet. *)
ParserSet(p) ==
    LET b == parser[p].job.batch IN
    /\ parser[p].step = "set"
    /\ bProm' = [bProm EXCEPT ![b] = IF @ = "none" THEN "success" ELSE @]
    /\ Step(p, "idle")
    /\ UNCHANGED <<bCount, bReady, parserRest>>

-----------------------------------------------------------------------------
(* The matcher, getDataToBatchMatcherThread. *)

(* batchQueue_ drained into the map: an older batch keeps a shared hash. *)
Drained ==
    [h \in Tx |->
        LET new == {i \in DOMAIN batchQ : h \in bTx[batchQ[i]]}
        IN  IF matching[h] # 0 \/ new = {} THEN matching[h]
            ELSE batchQ[CHOOSE i \in new : \A j \in new : i <= j]]

(* Taking the packet and draining the batches are one step: the map is the
   matcher's own.  The packet goes to the batch that waits for its hash, which
   leaves the map.
   A reject sets the batch's promise without a try block. *)
MatcherMatch ==
    LET h == Head(getDataQ).tx
        b == Drained[h]
        kind == Head(getDataQ).kind
    IN
    /\ ~clearing /\ getDataQ # <<>>
    /\ getDataQ' = Tail(getDataQ)
    /\ batchQ' = <<>>
    /\ matching' = [Drained EXCEPT ![h] = 0]
    /\ clearing' = TRUE
    /\ preQ' = IF kind = "payload" /\ b # 0
                 THEN Append(preQ, [tx |-> h, batch |-> b])
                 ELSE preQ
    /\ IF kind = "reject" /\ b # 0
         THEN /\ bProm' = [bProm EXCEPT ![b] = IF @ = "none" THEN "reject" ELSE @]
              /\ aborted' = (bProm[b] # "none")
         ELSE UNCHANGED <<bProm, aborted>>
    /\ UNCHANGED <<bTx, bFrom, bReq, bCount, bReady, pc, todo, newZcQ, clearQ,
                   rpcQ, buffer, watchVars, parser, zc, rpcStep, rpcJob,
                   replyVars, purge, nodeVars>>

(* hashesToClear_ drained: by hash, whatever batch the entry is of. *)
MatcherClear ==
    /\ clearing
    /\ matching' = [h \in Tx |-> IF h \in clearQ THEN 0 ELSE matching[h]]
    /\ clearQ' = {}
    /\ clearing' = FALSE
    /\ UNCHANGED <<batchVars, pc, todo, newZcQ, batchQ, getDataQ, preQ, rpcQ,
                   buffer, watchVars, parser, zc, rpcStep, rpcJob, replyVars,
                   purge, nodeVars, aborted>>

-----------------------------------------------------------------------------
(* The zc thread, processNewZcQueue calling parseNewZC and getBatchTxMap. *)

zcRest == <<bTx, bFrom, bReq, bCount, bProm, bReady, pc, todo, batchQ, getDataQ,
            preQ, buffer, matching, clearing, parser, rpcStep, rpcJob,
            nodeVars, aborted>>

ZcIdling == zc.step = "idle" /\ newZcQ # <<>>
ZcHead == Head(newZcQ)

(* A new block: the mined transactions leave the snapshot, the others are
   parsed again, the main thread's promise is set. *)
ZcPurge ==
    /\ ZcIdling /\ ZcHead = 0
    /\ newZcQ' = Tail(newZcQ)
    /\ \E mined \in SUBSET mempool : mempool' = mempool \ mined
    /\ purge' = "done"
    /\ UNCHANGED <<clearQ, rpcQ, watchVars, zc, accepted, answered, zcRest>>

(* isReadyFut_: a code moves on, the RPC thread's exception drops the batch.
   Taking a batch and the end of the wait are one step: nobody else looks at
   the head of newZcQueue_. *)
ZcWake ==
    /\ ZcIdling /\ ZcHead # 0 /\ bProm[ZcHead] # "none"
    /\ newZcQ' = Tail(newZcQ)
    /\ zc' = [zc EXCEPT !.batch = ZcHead, !.result = bProm[ZcHead],
                        !.step = IF bProm[ZcHead] = "exception"
                                   THEN "parse" ELSE "collect"]
    /\ UNCHANGED <<clearQ, rpcQ, watchVars, replyVars, purge, zcRest>>

(* wait_for runs out; a batch of the RPC thread has no time-out. *)
ZcTimeout ==
    /\ ZcIdling /\ ZcHead # 0 /\ bProm[ZcHead] = "none" /\ bFrom[ZcHead] # "rpc"
    /\ newZcQ' = Tail(newZcQ)
    /\ zc' = [zc EXCEPT !.batch = ZcHead, !.result = "timeout", !.step = "collect"]
    /\ UNCHANGED <<clearQ, rpcQ, watchVars, replyVars, purge, zcRest>>

(* A batch without watcher entries: parsed when complete, else dropped. *)
ZcCollectInv ==
    /\ zc.step = "collect" /\ bFrom[zc.batch] = "inv"
    /\ zc' = [zc EXCEPT !.step = "parse",
                        !.keep = IF zc.result = "success" THEN bTx[zc.batch] ELSE {}]
    /\ UNCHANGED <<newZcQ, clearQ, rpcQ, watchVars, replyVars, purge, zcRest>>

(* The error callback of Clients: a reject, or a transaction the snapshot
   already has, is reported to everyone who asked for it; the others are pushed
   to the node through RPC. *)
ErrorCallback(failed) ==
    LET r == bReq[zc.batch]
        reported == IF zc.result = "timeout" THEN failed \cap mempool ELSE failed
        packet(h) == [tx |-> h, req |-> r, others |-> extra[h], batch |-> 0]
    IN
    /\ answered' = answered \cup
                     UNION {{<<q, h>> : q \in {r} \cup extra[h]} : h \in reported}
    /\ rpcQ' = rpcQ \o [i \in 1..Cardinality(failed \ reported) |->
                           packet(SetToSeq(failed \ reported)[i])]

(* Under the watcher map's lock the batch takes its entries away, up to one it
   does not find, which drops the batch.  A complete batch is parsed, a failed
   one without error callback (the RPC thread's) is dropped, of the others the
   transactions that came back are kept and the rest is reported. *)
CollectWatched(inved) ==
    LET b == zc.batch
        failed == bTx[b] \ inved
        missing == \E h \in bTx[b] : watcher[h] = "none"
        parse(kept) == zc' = [zc EXCEPT !.step = "parse", !.keep = kept,
                                        !.carried = [h \in Tx |->
                                            IF h \in kept THEN extra[h] ELSE {}]]
    IN
    /\ zc.step = "collect" /\ bFrom[b] # "inv"
    /\ \E taken \in IF missing THEN SUBSET bTx[b] ELSE {bTx[b]} :
         /\ watcher' = [h \in Tx |-> IF h \in taken THEN "none" ELSE watcher[h]]
         /\ extra' = [h \in Tx |-> IF h \in taken THEN {} ELSE extra[h]]
    /\ IF missing \/ (zc.result # "success" /\ bFrom[b] = "rpc")
         THEN parse({}) /\ UNCHANGED <<answered, rpcQ>>
         ELSE IF zc.result = "success"
         THEN parse(bTx[b]) /\ UNCHANGED <<answered, rpcQ>>
         ELSE parse(inved) /\ ErrorCallback(failed)
    /\ UNCHANGED <<newZcQ, clearQ, mempool, accepted, purge, zcRest>>

Inved == {h \in bTx[zc.batch] : watcher[h] = "inved"}

ZcCollectWatched == CollectWatched(Inved)

(* Mutant: a failed batch does not wait for the preprocessing threads. *)
CountedAny == TRUE

(* A failed batch waits, without a time-out, until the counter has seen as many
   transactions as it keeps. *)
Counted ==
    \/ zc.result = "success"
    \/ Cardinality(bTx[zc.batch]) - bCount[zc.batch] >= Cardinality(zc.keep)

(* processNotifRequests: the request hears of what was added, the requests tied
   to any transaction of the batch that the snapshot has hear of that. *)
Notify(b, added, after) ==
    answered' = answered \cup {<<bReq[b], h>> : h \in added}
                  \cup UNION {{<<q, h>> : q \in zc.carried[h]} : h \in after}

(* parseNewZC: new transactions with a body enter the snapshot; if there is
   one, the clients are notified.  Then, on every path, processNewZcQueue posts
   the hashes of the batch to hashesToClear_. *)
ZcParse ==
    LET b == zc.batch
        added == (zc.keep \cap bReady[b]) \ mempool
        after == mempool \cup added
    IN
    /\ zc.step = "parse" /\ Counted
    /\ mempool' = after
    /\ accepted' = accepted \cup added
    /\ IF added = {} \/ bReq[b] = None THEN UNCHANGED answered
                                       ELSE Notify(b, added, after)
    /\ clearQ' = clearQ \cup bTx[b]
    /\ zc' = ZcIdle
    /\ UNCHANGED <<newZcQ, rpcQ, watchVars, purge, zcRest>>

(* pushNewBlockNotification, called by the main thread on a new block. *)
PushNewBlock ==
    /\ purge = "none" /\ Len(bTx) = BlockAfter
    /\ newZcQ' = Append(newZcQ, 0)
    /\ purge' = "asked"
    /\ UNCHANGED <<batchVars, pc, todo, batchQ, getDataQ, preQ, clearQ, rpcQ,
                   buffer, watchVars, matching, clearing, parser, zc,
                   rpcStep, rpcJob, replyVars, nodeVars, aborted>>

-----------------------------------------------------------------------------
(* The RPC thread, Clients::broadcastThroughRPC. *)

rpcRest == <<pc, todo, getDataQ, preQ, clearQ, buffer, matching, clearing,
             parser, zc, mempool, accepted, purge, offered, asked, told, refused>>

(* A packet whose hash is watched already is tied to that entry and done; the
   others get an entry that ignores the watcher node. *)
RpcTake ==
    LET packet == Head(rpcQ)
        h == packet.tx
        tied == packet.others \cup {packet.req}
    IN
    /\ rpcStep = "idle" /\ rpcQ # <<>>
    /\ rpcQ' = Tail(rpcQ)
    /\ IF watcher[h] = "none"
         THEN /\ watcher' = [watcher EXCEPT ![h] = "ignored"]
              /\ extra' = [extra EXCEPT ![h] = packet.others]
              /\ InitiateZcBatch("rpc", packet.req, {h})
              /\ rpcJob' = [packet EXCEPT !.batch = Len(bTx) + 1]
              /\ rpcStep' = "call"
         ELSE /\ extra' = [extra EXCEPT ![h] = @ \cup tied]
              /\ UNCHANGED <<watcher, batchVars, newZcQ, batchQ, rpcStep, rpcJob>>
    /\ UNCHANGED <<answered, known, aborted, rpcRest>>

Reply(qs) == answered' = answered \cup {<<q, rpcJob.tx>> : q \in qs}

(* The node took it: body and promise are set, and the requests that came with
   the packet are told it is in the mempool. *)
RpcSuccess ==
    LET b == rpcJob.batch IN
    /\ rpcStep = "call" /\ rpcJob.tx \notin refused
    /\ known' = known \cup {rpcJob.tx}
    /\ bReady' = [bReady EXCEPT ![b] = {rpcJob.tx}]
    /\ bProm' = [bProm EXCEPT ![b] = IF @ = "none" THEN "success" ELSE @]
    /\ Reply(rpcJob.others)
    /\ rpcStep' = "idle"
    /\ rpcJob' = NoRpc
    /\ UNCHANGED <<bTx, bFrom, bReq, bCount, newZcQ, batchQ, rpcQ, watchVars,
                   aborted, rpcRest>>

(* The node refused: the entry is taken out first, with the requests tied to it
   since ... *)
RpcFail ==
    LET h == rpcJob.tx IN
    /\ rpcStep = "call"
    /\ watcher' = [watcher EXCEPT ![h] = "none"]
    /\ extra' = [extra EXCEPT ![h] = {}]
    /\ rpcJob' = [rpcJob EXCEPT !.others = @ \cup extra[h]]
    /\ rpcStep' = "failed"
    /\ UNCHANGED <<batchVars, newZcQ, batchQ, rpcQ, answered, known, aborted,
                   rpcRest>>

RpcReportAs(outcome) ==
    LET b == rpcJob.batch IN
    /\ rpcStep = "failed"
    /\ bProm' = [bProm EXCEPT ![b] = IF @ = "none" THEN outcome ELSE @]
    /\ aborted' = (outcome # "none" /\ bProm[b] # "none")
    /\ Reply({rpcJob.req} \cup rpcJob.others)
    /\ rpcStep' = "idle"
    /\ rpcJob' = NoRpc
    /\ UNCHANGED <<bTx, bFrom, bReq, bCount, bReady, newZcQ, batchQ, rpcQ,
                   watchVars, known, rpcRest>>

(* Mutant: the batch is not told, only the clients. *)
RpcReportOnly == RpcReportAs("none")

(* ... then the batch is failed, outside any try block, and everyone told. *)
RpcReport == RpcReportAs("exception")

-----------------------------------------------------------------------------
(* The node, over its two connections.  External: from how src/ uses it. *)

nodeRest == <<batchVars, pc, todo, newZcQ, batchQ, preQ, clearQ, rpcQ, buffer,
              watchVars, matching, clearing, parser, zc, rpcStep, rpcJob, replyVars,
              purge, aborted>>

NodeServe(h) ==
    /\ h \in asked
    /\ asked' = asked \ {h}
    /\ getDataQ' = Append(getDataQ, [kind |-> "payload", tx |-> h])
    /\ UNCHANGED <<known, offered, told, refused, nodeRest>>

NodeReject(h) ==
    /\ h \in offered \cap refused
    /\ offered' = offered \ {h}
    /\ getDataQ' = Append(getDataQ, [kind |-> "reject", tx |-> h])
    /\ UNCHANGED <<known, asked, told, refused, nodeRest>>

-----------------------------------------------------------------------------
Parser(p) == ParserPayload(p) \/ ParserParse(p) \/ ParserCount(p) \/ ParserSet(p)
Matcher == MatcherMatch \/ MatcherClear
ZcThread == \/ ZcPurge \/ ZcWake \/ ZcTimeout
            \/ ZcCollectInv \/ ZcCollectWatched \/ ZcParse
RpcThread == RpcTake \/ RpcSuccess \/ RpcFail \/ RpcReport
Node == \E h \in Tx : \/ InvWatcher(h) \/ InvProcess(h)
                      \/ NodeServe(h) \/ NodeReject(h)

Next ==
    /\ ~aborted
    /\ \/ \E r \in Requests : BroadcastZC(r) \/ BroadcastBatch(r)
       \/ InvFlush
       \/ \E p \in Parsers : Parser(p)
       \/ Matcher
       \/ ZcThread
       \/ PushNewBlock
       \/ RpcThread
       \/ Node

Spec == Init /\ [][Next]_vars

(* Every thread of the server is scheduled; the node owes nothing, an RPC call
   returns. *)
FairSpec ==
    /\ Spec
    /\ \A r \in Requests : WF_vars(~aborted /\ BroadcastBatch(r))
    /\ WF_vars(~aborted /\ InvFlush)
    /\ \A p \in Parsers : WF_vars(~aborted /\ Parser(p))
    /\ WF_vars(~aborted /\ Matcher)
    /\ WF_vars(~aborted /\ ZcThread)
    /\ WF_vars(~aborted /\ RpcThread)

-----------------------------------------------------------------------------
(* Properties. *)

(* Batches, queues and maps hold values of their kinds; the counter of a batch
   never passes zero, and the snapshot holds only what was accepted. *)
TypeOK ==
    /\ bTx \in Seq(SUBSET Tx)
    /\ bFrom \in [DOMAIN bTx -> {"client", "inv", "rpc"}]
    /\ bReq \in [DOMAIN bTx -> Requests \cup {None}]
    /\ bCount \in [DOMAIN bTx -> Nat]
    /\ bProm \in [DOMAIN bTx -> {"none", "success", "reject", "exception"}]
    /\ bReady \in [DOMAIN bTx -> SUBSET Tx]
    /\ pc \in [Requests -> {"idle", "registered", "done"}]
    /\ todo \in [Requests -> SUBSET Tx]
    /\ rpcStep \in {"idle", "call", "failed"}
    /\ watcher \in [Tx -> {"none", "watched", "ignored", "inved"}]
    /\ extra \in [Tx -> SUBSET Requests]
    /\ matching \in [Tx -> 0..Len(bTx)]
    /\ zc.step \in {"idle", "collect", "parse"}
    /\ zc.keep \in SUBSET Tx
    /\ mempool \in SUBSET accepted /\ accepted \in SUBSET Tx
    /\ answered \in SUBSET (Requests \X Tx)
    /\ purge \in {"none", "asked", "done"}

(* A batch that carries watcher entries finds every one of them when it comes
   to take them: getBatchTxMap's "missing watcher entry, this should not
   happen".  Entries are shared by the clients, the RPC thread and the zc
   thread, each under the lock for one step only.  A transaction the node
   rejects is left out, since its entry may go with the batch before it; and
   the RPC thread erases entries before it fails their batch, so that a
   transaction sent again in between loses its own (Rebroadcasts). *)
WatcherOwned ==
    zc.step = "collect" /\ bFrom[zc.batch] # "inv" =>
        \A h \in bTx[zc.batch] \ Rejectable : watcher[h] # "none"

(* Whatever the zc thread parses has a body by then: a time-out may take a
   batch while the preprocessing threads still work on it, but parseNewZC does
   not begin before they are done with the transactions it keeps.  The condition
   is that the bodies come from the broadcasts alone (NetTx = {}): the wait
   counts bodies without looking whose they are, so that one the network sent
   for a transaction the batch does not keep ends it too early. *)
ParsedHaveBody ==
    [][zc.step = "parse" /\ zc'.step = "idle" =>
           zc.keep \subseteq bReady[zc.batch]]_vars

(* The main thread gets its purge: no batch holds up the zc thread for ever, if
   the process does not abort and no transaction is broadcast again after a
   batch that had it. *)
PurgeAnswered ==
    purge = "asked" ~> purge = "done" \/ aborted

(* Under the same conditions every request is answered for every transaction,
   or the transaction reached the mempool: nothing gets lost between the time-out
   of a batch, the error callback, the RPC thread and the entries that tie
   several requests to one transaction. *)
RequestsSettle ==
    \A r \in Requests : \A h \in Wants[r] \ Rejectable :
        pc[r] # "idle" ~> \/ <<r, h>> \in answered \/ h \in accepted
                          \/ aborted

(* incrementCounter tolerates a promise that is set ("batch promise already
   set"): no thread dies of one. *)
NeverAborts == ~aborted
=============================================================================
