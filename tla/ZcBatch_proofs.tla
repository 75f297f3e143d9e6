--------------------------- MODULE ZcBatch_proofs ---------------------------
(***************************************************************************)
(* Proofs about ZcBatch: its type invariant for any clients and node, and  *)
(* for clients that broadcast what is new to everyone, that a batch finds  *)
(* its watcher entries and that what the zc thread parses has a body.      *)
(*                                                                         *)
(* TypeInv is inductive by itself.  Its heart is Books: a body reaches a   *)
(* batch once, so that the counter covers what may still be counted.       *)
(* OwnInv adds who owns the entries of the watcher map, and that what goes *)
(* through RPC goes once, after the client's batch is done with it.        *)
(* BodyInv adds where the bodies of a client's batch come from.            *)
(***************************************************************************)
EXTENDS ZcBatch, FiniteSetTheorems, SequenceTheorems, WellFoundedInduction, TLAPS

-----------------------------------------------------------------------------
(* Queues *)

In(q, x) == \E i \in DOMAIN q : q[i] = x

(* What a queue holds after a push ... *)
LEMMA AppendIn ==
    ASSUME NEW S, NEW q \in Seq(S), NEW x \in S
    PROVE  /\ Append(q, x) \in Seq(S) /\ Len(Append(q, x)) = Len(q) + 1
           /\ DOMAIN Append(q, x) = DOMAIN q \cup {Len(q) + 1} /\ Len(q) + 1 \notin DOMAIN q
           /\ \A i \in DOMAIN q : Append(q, x)[i] = q[i]
           /\ Append(q, x)[Len(q) + 1] = x
           /\ \A y : In(Append(q, x), y) <=> In(q, y) \/ y = x
<1>1. /\ Append(q, x) \in Seq(S) /\ Len(Append(q, x)) = Len(q) + 1
      /\ DOMAIN Append(q, x) = DOMAIN q \cup {Len(q) + 1} /\ Len(q) + 1 \notin DOMAIN q
      /\ \A i \in DOMAIN q : Append(q, x)[i] = q[i]
      /\ Append(q, x)[Len(q) + 1] = x
  OBVIOUS
<1>2. \A y : In(Append(q, x), y) <=> In(q, y) \/ y = x
  BY <1>1, Zenon DEF In
<1> QED
  BY <1>1, <1>2

(* ... and after a pop. *)
LEMMA TailIn ==
    ASSUME NEW S, NEW q \in Seq(S), q # <<>>
    PROVE  /\ Head(q) \in S /\ Tail(q) \in Seq(S) /\ Head(q) = q[1] /\ 1 \in DOMAIN q
           /\ \A i \in DOMAIN Tail(q) : i + 1 \in DOMAIN q /\ Tail(q)[i] = q[i + 1] /\ i + 1 # 1
           /\ \A y : In(q, y) <=> In(Tail(q), y) \/ y = Head(q)
<1>1. /\ Head(q) \in S /\ Tail(q) \in Seq(S) /\ Head(q) = q[1] /\ 1 \in DOMAIN q
      /\ \A i \in DOMAIN Tail(q) : i + 1 \in DOMAIN q /\ Tail(q)[i] = q[i + 1] /\ i + 1 # 1
  OBVIOUS
<1>2. \A j \in DOMAIN q : j # 1 => j - 1 \in DOMAIN Tail(q) /\ Tail(q)[j - 1] = q[j]
  OBVIOUS
<1>3. \A y : In(q, y) <=> In(Tail(q), y) \/ y = Head(q)
  BY <1>1, <1>2, Zenon DEF In
<1> QED
  BY <1>1, <1>3

(* One entry more, for a sequence seen as a function. *)
Extended(S, n, f, x, g) ==
    /\ g \in [1..n + 1 -> S]
    /\ \A i \in 1..n : g[i] = f[i]
    /\ g[n + 1] = x

(* Append, for a sequence seen as a function. *)
LEMMA AppendTo ==
    ASSUME NEW S, NEW n \in Nat, NEW f \in [1..n -> S], NEW x \in S
    PROVE  Extended(S, n, f, x, Append(f, x))
<1> DEFINE g == Append(f, x)
<1>1. f \in Seq(S) /\ Len(f) = n /\ DOMAIN f = 1..n
  OBVIOUS
<1>2. /\ g \in Seq(S) /\ Len(g) = n + 1
      /\ \A i \in 1..n : g[i] = f[i]
      /\ g[n + 1] = x
  BY <1>1, AppendIn, AppendProperties
<1>3. g \in [1..Len(g) -> S]
  BY <1>2, LenProperties, Zenon
<1> QED
  BY <1>2, <1>3 DEF Extended

-----------------------------------------------------------------------------
(* Typing *)

Batch == DOMAIN bTx
Outcomes == {"none", "success", "reject", "exception"}
Packet == [tx : Tx, req : Requests, others : SUBSET Requests, batch : Nat]
ZcRecord == [step : {"idle", "collect", "parse"}, batch : Nat,
             result : Outcomes \cup {"timeout"}, keep : SUBSET Tx,
             carried : [Tx -> SUBSET Requests]]
Job == [tx : Tx, batch : Nat]
NodeReply == [kind : {"payload", "reject"}, tx : Tx]
Busy(w) == w.step \in {"parse", "count"}

BatchTyped ==
    /\ bTx \in Seq(SUBSET Tx)
    /\ bFrom \in [Batch -> {"client", "inv", "rpc"}]
    /\ bReq \in [Batch -> Requests \cup {None}]
    /\ bCount \in [Batch -> Nat]
    /\ bProm \in [Batch -> Outcomes]
    /\ bReady \in [Batch -> SUBSET Tx]
    /\ \A b \in Batch : bFrom[b] # "inv" => bReq[b] \in Requests

ClientTyped ==
    /\ pc \in [Requests -> {"idle", "registered", "done"}]
    /\ todo \in [Requests -> SUBSET Tx]

WatchTyped ==
    /\ watcher \in [Tx -> {"none", "watched", "ignored", "inved"}]
    /\ extra \in [Tx -> SUBSET Requests]

NodeTyped ==
    /\ buffer \subseteq Tx /\ asked \subseteq Tx /\ offered \subseteq Tx
    /\ known \subseteq Tx /\ refused \subseteq Rejectable
    /\ getDataQ \in Seq(NodeReply)

(* A hash waits at a batch that has it, and so does its body. *)
MatchTyped ==
    /\ batchQ \in Seq(Batch)
    /\ matching \in [Tx -> Batch \cup {0}]
    /\ \A h \in Tx : matching[h] # 0 => h \in bTx[matching[h]]
    /\ preQ \in Seq(Job)
    /\ \A i \in DOMAIN preQ : preQ[i].batch \in Batch /\ preQ[i].tx \in bTx[preQ[i].batch]
    /\ parser \in [Parsers -> [step : {"idle", "parse", "count", "set"}, job : Job \cup {NoJob}]]
    /\ \A p \in Parsers : parser[p].step # "idle" =>
          /\ parser[p].job \in Job /\ parser[p].job.batch \in Batch
          /\ parser[p].job.tx \in bTx[parser[p].job.batch]

ZcTyped ==
    /\ newZcQ \in Seq(Batch \cup {0})
    /\ zc \in ZcRecord
    /\ zc.step # "idle" => zc.batch \in Batch

RpcTyped ==
    /\ rpcQ \in Seq(Packet)
    /\ rpcStep \in {"idle", "call", "failed"}
    /\ rpcStep # "idle" =>
          /\ rpcJob \in Packet /\ rpcJob.batch \in Batch
          /\ bTx[rpcJob.batch] = {rpcJob.tx}

ReplyTyped ==
    /\ mempool \subseteq accepted /\ accepted \subseteq Tx
    /\ answered \subseteq Requests \X Tx
    /\ purge \in {"none", "asked", "done"}

(* A body reaches a batch once ... *)
JobsOnce ==
    /\ \A i, j \in DOMAIN preQ : preQ[i] = preQ[j] => i = j
    /\ \A p \in Parsers : Busy(parser[p]) => ~In(preQ, parser[p].job)
    /\ \A p, q \in Parsers :
          Busy(parser[p]) /\ Busy(parser[q]) /\ parser[p].job = parser[q].job => p = q
    /\ \A p \in Parsers : Busy(parser[p]) =>
          /\ matching[parser[p].job.tx] # parser[p].job.batch
          /\ ~In(batchQ, parser[p].job.batch)
    /\ \A i \in DOMAIN preQ : /\ matching[preQ[i].tx] # preQ[i].batch
                              /\ ~In(batchQ, preQ[i].batch)

(* ... and is there before it is counted ... *)
CountedReady ==
    \A p \in Parsers : parser[p].step = "count" =>
        parser[p].job.tx \in bReady[parser[p].job.batch]

(* ... so that the counter covers the hashes that have no body or may still be
   counted. *)
OpenAt(tx, ready, batches, match, jobs, workers, b) ==
    {h \in Tx : \/ h \in tx[b] /\ h \notin ready[b]
                \/ match[h] = b
                \/ In(batches, b) /\ h \in tx[b]
                \/ \E i \in DOMAIN jobs : jobs[i].tx = h /\ jobs[i].batch = b
                \/ \E p \in Parsers : /\ Busy(workers[p]) /\ workers[p].job.tx = h
                                      /\ workers[p].job.batch = b}

Open == [b \in Batch |-> OpenAt(bTx, bReady, batchQ, matching, preQ, parser, b)]

CounterCovers == \A b \in Batch : Cardinality(Open[b]) <= bCount[b]

Books == MatchTyped /\ JobsOnce /\ CountedReady /\ CounterCovers

TypeInv ==
    /\ BatchTyped /\ ClientTyped /\ WatchTyped /\ NodeTyped
    /\ ZcTyped /\ RpcTyped /\ ReplyTyped /\ Books

-----------------------------------------------------------------------------
(* What the actions do to the batches *)

(* A new batch has a type, and leaves the others alone. *)
LEMMA NewBatchTyped ==
    ASSUME BatchTyped, NEW from \in {"client", "inv", "rpc"},
           NEW req \in Requests \cup {None}, from # "inv" => req \in Requests,
           NEW hashes \in SUBSET Tx, NEW count \in Nat,
           NewBatch(from, req, hashes, count)
    PROVE  /\ BatchTyped'
           /\ Len(bTx) + 1 \in Nat /\ Len(bTx) + 1 \notin Batch /\ Len(bTx) + 1 # 0
           /\ Batch' = Batch \cup {Len(bTx) + 1}
           /\ \A b \in Batch : /\ bTx'[b] = bTx[b] /\ bFrom'[b] = bFrom[b]
                               /\ bProm'[b] = bProm[b] /\ bCount'[b] = bCount[b]
                               /\ bReady'[b] = bReady[b]
           /\ bTx'[Len(bTx) + 1] = hashes /\ bFrom'[Len(bTx) + 1] = from
           /\ bProm'[Len(bTx) + 1] = "none" /\ bCount'[Len(bTx) + 1] = count
           /\ bReady'[Len(bTx) + 1] = {}
<1> DEFINE n == Len(bTx)
<1>1. n \in Nat /\ Batch = 1..n /\ bTx \in [1..n -> SUBSET Tx]
  BY DEF BatchTyped, Batch
<1> HIDE DEF n
<1>2. n \in Nat /\ (\A b \in 1..n : bFrom[b] # "inv" => bReq[b] \in Requests)
  BY <1>1, Zenon DEF BatchTyped
<1>4. bTx' \in Seq(SUBSET Tx) /\ DOMAIN bTx' = 1..n + 1
  BY DEF BatchTyped, NewBatch, n
<1>5. (\A i \in 1..n : bTx'[i] = bTx[i]) /\ bTx'[n + 1] = hashes
  <2>1. bTx' = Append(bTx, hashes)
    BY DEF NewBatch
  <2>2. Extended(SUBSET Tx, n, bTx, hashes, bTx')
    BY <1>1, <2>1, AppendTo, Zenon
  <2> QED
    BY <2>2, Zenon DEF Extended
<1>6. /\ bFrom' \in [1..n + 1 -> {"client", "inv", "rpc"}]
      /\ (\A i \in 1..n : bFrom'[i] = bFrom[i]) /\ bFrom'[n + 1] = from
  <2>1. bFrom \in [1..n -> {"client", "inv", "rpc"}] /\ bFrom' = Append(bFrom, from)
    BY <1>1, Zenon DEF BatchTyped, NewBatch
  <2>2. Extended({"client", "inv", "rpc"}, n, bFrom, from, bFrom')
    BY <1>2, <2>1, AppendTo, Zenon
  <2> QED
    BY <2>2, Zenon DEF Extended
<1>7. /\ bReq' \in [1..n + 1 -> Requests \cup {None}]
      /\ (\A i \in 1..n : bReq'[i] = bReq[i]) /\ bReq'[n + 1] = req
  <2>1. bReq \in [1..n -> Requests \cup {None}] /\ bReq' = Append(bReq, req)
    BY <1>1, Zenon DEF BatchTyped, NewBatch
  <2>2. Extended(Requests \cup {None}, n, bReq, req, bReq')
    BY <1>2, <2>1, AppendTo, Zenon
  <2> QED
    BY <2>2, Zenon DEF Extended
<1>8. /\ bCount' \in [1..n + 1 -> Nat]
      /\ (\A i \in 1..n : bCount'[i] = bCount[i]) /\ bCount'[n + 1] = count
  <2>1. bCount \in [1..n -> Nat] /\ bCount' = Append(bCount, count)
    BY <1>1, Zenon DEF BatchTyped, NewBatch
  <2>2. Extended(Nat, n, bCount, count, bCount')
    BY <1>2, <2>1, AppendTo, Zenon
  <2> QED
    BY <2>2, Zenon DEF Extended
<1>9. /\ bProm' \in [1..n + 1 -> Outcomes]
      /\ (\A i \in 1..n : bProm'[i] = bProm[i]) /\ bProm'[n + 1] = "none"
  <2>1. bProm \in [1..n -> Outcomes] /\ bProm' = Append(bProm, "none") /\ "none" \in Outcomes
    BY <1>1, Zenon DEF BatchTyped, NewBatch, Outcomes
  <2>2. Extended(Outcomes, n, bProm, "none", bProm')
    BY <1>2, <2>1, AppendTo, Zenon
  <2> QED
    BY <2>2, Zenon DEF Extended
<1>10. /\ bReady' \in [1..n + 1 -> SUBSET Tx]
      /\ (\A i \in 1..n : bReady'[i] = bReady[i]) /\ bReady'[n + 1] = {}
  <2>1. bReady \in [1..n -> SUBSET Tx] /\ bReady' = Append(bReady, {}) /\ {} \in SUBSET Tx
    BY <1>1, Zenon DEF BatchTyped, NewBatch
  <2>2. Extended(SUBSET Tx, n, bReady, {}, bReady')
    BY <1>2, <2>1, AppendTo, Zenon
  <2> QED
    BY <2>2, Zenon DEF Extended
<1>13. 1..n + 1 = 1..n \cup {n + 1} /\ n + 1 \notin 1..n /\ n + 1 \in Nat /\ n + 1 # 0
  BY <1>1
<1>14. \A b \in 1..n + 1 : bFrom'[b] # "inv" => bReq'[b] \in Requests
  BY <1>2, <1>6, <1>7, <1>13, Zenon
<1>15. BatchTyped'
  BY <1>4, <1>6, <1>7, <1>8, <1>9, <1>10, <1>14, Zenon DEF BatchTyped, Batch, Outcomes
<1>16. Batch' = Batch \cup {n + 1}
  BY <1>1, <1>4, <1>13, Zenon DEF Batch
<1> QED
  BY <1>1, <1>5, <1>6, <1>8, <1>9, <1>10, <1>13, <1>15, <1>16, Zenon DEF n

(* A promise is set once. *)
LEMMA PromiseTyped ==
    ASSUME BatchTyped, NEW b \in Batch, NEW s \in Outcomes,
           bProm' = [bProm EXCEPT ![b] = IF @ = "none" THEN s ELSE @],
           UNCHANGED <<bTx, bFrom, bReq, bCount>>,
           bReady' \in [Batch -> SUBSET Tx]
    PROVE  BatchTyped'
<1>1. bProm' \in [Batch -> Outcomes]
  BY DEF BatchTyped
<1>2. Batch' = Batch
  BY DEF Batch
<1> QED
  BY <1>1, <1>2, Zenon DEF BatchTyped

(* A part of the invariant holds as long as nobody writes its variables. *)
bookVars == <<bTx, bCount, bReady, matching, batchQ, preQ, parser>>

(* One conjunct for each part. *)
LEMMA PartsSame ==
    /\ BatchTyped /\ UNCHANGED batchVars => BatchTyped'
    /\ ClientTyped /\ UNCHANGED <<pc, todo>> => ClientTyped'
    /\ WatchTyped /\ UNCHANGED watchVars => WatchTyped'
    /\ NodeTyped /\ UNCHANGED <<buffer, asked, offered, known, refused, getDataQ>> => NodeTyped'
    /\ ZcTyped /\ UNCHANGED <<bTx, newZcQ, zc>> => ZcTyped'
    /\ RpcTyped /\ UNCHANGED <<bTx, rpcQ, rpcStep, rpcJob>> => RpcTyped'
    /\ ReplyTyped /\ UNCHANGED <<mempool, accepted, answered, purge>> => ReplyTyped'
    /\ Books /\ UNCHANGED bookVars => Books'
<1>1. BatchTyped /\ UNCHANGED batchVars => BatchTyped'
  BY Zenon DEF BatchTyped, batchVars, Batch
<1>2. ClientTyped /\ UNCHANGED <<pc, todo>> => ClientTyped'
  BY Zenon DEF ClientTyped
<1>3. WatchTyped /\ UNCHANGED watchVars => WatchTyped'
  BY Zenon DEF WatchTyped, watchVars
<1>4. NodeTyped /\ UNCHANGED <<buffer, asked, offered, known, refused, getDataQ>> => NodeTyped'
  BY Zenon DEF NodeTyped
<1>5. ZcTyped /\ UNCHANGED <<bTx, newZcQ, zc>> => ZcTyped'
  BY Zenon DEF ZcTyped, Batch
<1>6. RpcTyped /\ UNCHANGED <<bTx, rpcQ, rpcStep, rpcJob>> => RpcTyped'
  BY Zenon DEF RpcTyped, Batch
<1>7. ReplyTyped /\ UNCHANGED <<mempool, accepted, answered, purge>> => ReplyTyped'
  BY Zenon DEF ReplyTyped
<1>8. Books /\ UNCHANGED bookVars => Books'
  <2> SUFFICES ASSUME Books, UNCHANGED bookVars PROVE Books'
    OBVIOUS
  <2>1. UNCHANGED <<bTx, bCount, bReady, matching, batchQ, preQ, parser>>
    BY DEF bookVars
  <2>2. MatchTyped'
    BY <2>1, Zenon DEF Books, MatchTyped, Batch
  <2>3. JobsOnce'
    BY <2>1, Zenon DEF Books, JobsOnce, In, Busy
  <2>4. Open' = Open /\ Batch' = Batch
    BY <2>1, Zenon DEF Open, Batch
  <2>5. CounterCovers'
    BY <2>1, <2>4, Zenon DEF Books, CounterCovers
  <2>6. CountedReady'
    BY <2>1, Zenon DEF Books, CountedReady
  <2> QED
    BY <2>2, <2>3, <2>5, <2>6 DEF Books
<1> QED
  BY <1>1, <1>2, <1>3, <1>4, <1>5, <1>6, <1>7, <1>8

(* No batch, no packet, no request: the typing holds at the start. *)
LEMMA TypeInit == Init => TypeInv
<1> SUFFICES ASSUME Init PROVE TypeInv
  OBVIOUS
<1>1. BatchTyped
  <2>1. bTx = <<>> /\ bFrom = <<>> /\ bReq = <<>> /\ bCount = <<>> /\ bProm = <<>> /\ bReady = <<>>
    BY DEF Init
  <2> QED
    BY <2>1 DEF BatchTyped, Batch
<1>2. ClientTyped
  BY DEF Init, ClientTyped
<1>3. WatchTyped
  BY DEF Init, WatchTyped
<1>4. NodeTyped
  BY ZcBatchAssumption DEF Init, NodeTyped
<1>5. ZcTyped
  <2>1. newZcQ \in Seq(Batch \cup {0})
    BY DEF Init
  <2>2. zc = ZcIdle
    BY DEF Init
  <2> QED
    BY <2>1, <2>2 DEF ZcTyped, ZcIdle, ZcRecord, Outcomes
<1>6. RpcTyped
  BY DEF Init, RpcTyped
<1>7. ReplyTyped
  BY DEF Init, ReplyTyped
<1>8. Batch = {} /\ batchQ = <<>> /\ preQ = <<>> /\ matching = [h \in Tx |-> 0]
  BY DEF Init, Batch
<1>9. parser = [p \in Parsers |-> [step |-> "idle", job |-> NoJob]]
  BY DEF Init
<1>10. MatchTyped
  BY <1>8, <1>9 DEF MatchTyped
<1>11. JobsOnce /\ CountedReady
  BY <1>8, <1>9 DEF JobsOnce, Busy, CountedReady
<1>12. CounterCovers
  BY <1>8 DEF CounterCovers
<1> QED
  BY <1>1, <1>2, <1>3, <1>4, <1>5, <1>6, <1>7, <1>10, <1>11, <1>12 DEF TypeInv, Books

(* A fresh batch waits for all its hashes, the others wait as before. *)
LEMMA BooksNew ==
    ASSUME BatchTyped, Books, NEW from \in {"client", "inv", "rpc"},
           NEW req \in Requests \cup {None}, from # "inv" => req \in Requests,
           NEW hashes \in SUBSET Tx,
           InitiateZcBatch(from, req, hashes), UNCHANGED <<matching, preQ, parser>>
    PROVE  /\ NewBatch(from, req, hashes, Cardinality(hashes))
           /\ Cardinality(hashes) \in Nat
           /\ Books'
<1> DEFINE n == Len(bTx) + 1
<1>1. NewBatch(from, req, hashes, Cardinality(hashes)) /\ Cardinality(hashes) \in Nat
  BY ZcBatchAssumption, FS_Subset, FS_CardinalityType DEF InitiateZcBatch
<1>2. /\ n \notin Batch /\ n # 0 /\ Batch' = Batch \cup {n} /\ n \in Nat
      /\ \A b \in Batch : bTx'[b] = bTx[b] /\ bCount'[b] = bCount[b]
      /\ bTx'[n] = hashes /\ bCount'[n] = Cardinality(hashes)
  <2>1. n \notin Batch /\ n # 0 /\ Batch' = Batch \cup {n} /\ n \in Nat
    BY <1>1, NewBatchTyped, Zenon
  <2>2. \A b \in Batch : bTx'[b] = bTx[b] /\ bCount'[b] = bCount[b]
    BY <1>1, NewBatchTyped, Zenon
  <2>3. bTx'[n] = hashes
    BY <1>1, NewBatchTyped, Zenon
  <2>4. bCount'[n] = Cardinality(hashes)
    <3> DEFINE k == Cardinality(hashes)
    <3>1. k \in Nat /\ NewBatch(from, req, hashes, k)
      BY <1>1
    <3> HIDE DEF k
    <3>2. Len(bTx) \in Nat /\ bCount \in [1..Len(bTx) -> Nat] /\ bCount' = Append(bCount, k)
      BY <3>1 DEF NewBatch, BatchTyped, Batch
    <3>3. Extended(Nat, Len(bTx), bCount, k, bCount')
      BY <3>1, <3>2, AppendTo, Zenon
    <3> QED
      BY <3>3 DEF Extended, k
  <2> QED
    BY <2>1, <2>2, <2>3, <2>4
<1>r. \A b \in Batch : bReady'[b] = bReady[b]
  BY <1>1, NewBatchTyped, Zenon
<1>3. batchQ' = Append(batchQ, n)
  BY <1>1 DEF NewBatch
<1> HIDE DEF n
<1>4. /\ batchQ \in Seq(Batch) /\ matching \in [Tx -> Batch \cup {0}]
      /\ \A h \in Tx : matching[h] # 0 => h \in bTx[matching[h]]
      /\ preQ \in Seq(Job)
      /\ \A i \in DOMAIN preQ : preQ[i].batch \in Batch /\ preQ[i].tx \in bTx[preQ[i].batch]
      /\ parser \in [Parsers -> [step : {"idle", "parse", "count", "set"}, job : Job \cup {NoJob}]]
      /\ \A p \in Parsers : parser[p].step # "idle" =>
            /\ parser[p].job \in Job /\ parser[p].job.batch \in Batch
            /\ parser[p].job.tx \in bTx[parser[p].job.batch]
  BY DEF Books, MatchTyped
<1>5. batchQ \in Seq(Batch') /\ n \in Batch'
  BY <1>2, <1>4
<1>6. batchQ' \in Seq(Batch') /\ \A y : In(batchQ', y) <=> In(batchQ, y) \/ y = n
  BY <1>3, <1>5, AppendIn, SMT
<1>7. \A y : In(batchQ, y) => y \in Batch
  BY <1>4 DEF In
<1>8. MatchTyped'
  <2>1. matching' \in [Tx -> Batch' \cup {0}]
    BY <1>2, <1>4
  <2>2. \A h \in Tx : matching'[h] # 0 => h \in bTx'[matching'[h]]
    BY <1>2, <1>4
  <2> QED
    BY <1>2, <1>4, <1>6, <2>1, <2>2, Zenon DEF MatchTyped
<1>9. JobsOnce'
  <2>1. \A p \in Parsers : Busy(parser[p]) => parser[p].job.batch # n
    BY <1>2, <1>4, Zenon DEF Busy
  <2>2. \A i \in DOMAIN preQ : preQ[i].batch # n
    BY <1>2, <1>4, Zenon
  <2>3. JobsOnce
    BY DEF Books
  <2> QED
    BY <1>6, <2>1, <2>2, <2>3, Zenon DEF JobsOnce, Busy, In
<1>10. CounterCovers'
  <2>1. \A b \in Batch : Open'[b] = Open[b]
    BY <1>2, <1>6, <1>r, Zenon DEF Open, OpenAt
  <2>2. Open'[n] \subseteq hashes
    <3>1. \A h \in Tx : matching[h] # n
      BY <1>2, <1>4
    <3>2. \A p \in Parsers : Busy(parser[p]) => parser[p].job.batch # n
      BY <1>2, <1>4, Zenon DEF Busy
    <3>3. \A i \in DOMAIN preQ : preQ[i].batch # n
      BY <1>2, <1>4, Zenon
    <3>4. Open'[n] = OpenAt(bTx', bReady', batchQ', matching', preQ', parser', n)
      BY <1>2, Zenon DEF Open
    <3> QED
      BY <1>2, <3>1, <3>2, <3>3, <3>4, Zenon DEF OpenAt
  <2>3. Cardinality(Open'[n]) <= Cardinality(hashes)
    BY <2>2, ZcBatchAssumption, FS_Subset
  <2>4. \A b \in Batch : Cardinality(Open[b]) <= bCount[b]
    BY DEF Books, CounterCovers
  <2> QED
    BY <1>2, <2>1, <2>3, <2>4, Zenon DEF CounterCovers
<1>11. CountedReady'
  BY <1>2, <1>4, <1>r, Zenon DEF Books, CountedReady
<1> QED
  BY <1>1, <1>8, <1>9, <1>10, <1>11 DEF Books

-----------------------------------------------------------------------------
(* The actions keep the types *)

(* One batch more leaves what is typed over the batches typed. *)
LEMMA GrowTyped ==
    ASSUME Batch \subseteq Batch', \A b \in Batch : bTx'[b] = bTx[b]
    PROVE  /\ ZcTyped /\ zc' = zc /\ newZcQ' \in Seq(Batch' \cup {0}) => ZcTyped'
           /\ RpcTyped /\ UNCHANGED <<rpcQ, rpcStep, rpcJob>> => RpcTyped'
<1>1. ASSUME ZcTyped, zc' = zc, newZcQ' \in Seq(Batch' \cup {0}) PROVE ZcTyped'
  BY <1>1, Zenon DEF ZcTyped
<1>2. ASSUME RpcTyped, UNCHANGED <<rpcQ, rpcStep, rpcJob>> PROVE RpcTyped'
  BY <1>2, Zenon DEF RpcTyped
<1> QED
  BY <1>1, <1>2

(* The queue of the zc thread, with a batch more. *)
LEMMA QueueGrows ==
    ASSUME NEW S, NEW n, NEW q \in Seq(S \cup {0})
    PROVE  Append(q, n) \in Seq((S \cup {n}) \cup {0})
OBVIOUS

(* broadcastZC's part under the lock writes the entries, the batches stay. *)
LEMMA TypeRegister ==
    ASSUME TypeInv, NEW r \in Requests, NEW hashes \in SUBSET Tx, NEW tied \in SUBSET Requests,
           Register(r, hashes, tied)
    PROVE  TypeInv'
<1>1. /\ UNCHANGED <<batchVars, queueVars, buffer, matching, parser, zc,
                     rpcStep, rpcJob, replyVars, purge, nodeVars>>
      /\ watcher' = [h \in Tx |-> IF h \in Wants[r] /\ watcher[h] = "none"
                                  THEN "watched" ELSE watcher[h]]
      /\ extra' = [h \in Tx |-> IF h \notin Wants[r] THEN extra[h]
                                ELSE IF watcher[h] = "none" THEN {}
                                ELSE extra[h] \cup tied]
      /\ todo' = [todo EXCEPT ![r] = hashes]
      /\ pc' = [pc EXCEPT ![r] = IF hashes = {} THEN "done" ELSE "registered"]
  BY DEF Register
<1>2. WatchTyped'
  BY <1>1 DEF TypeInv, WatchTyped
<1>3. ClientTyped'
  BY <1>1 DEF TypeInv, ClientTyped
<1> QED
  BY <1>1, <1>2, <1>3, PartsSame, Zenon
  DEF TypeInv, batchVars, queueVars, replyVars, nodeVars, bookVars

(* initiateZcBatch: the batch, its books and its place in the queue. *)
LEMMA TypeBatch ==
    ASSUME TypeInv, NEW from \in {"client", "inv", "rpc"},
           NEW req \in Requests \cup {None}, from # "inv" => req \in Requests,
           NEW hashes \in SUBSET Tx,
           InitiateZcBatch(from, req, hashes), UNCHANGED <<matching, preQ, parser, zc>>
    PROVE  /\ BatchTyped' /\ Books' /\ ZcTyped' /\ Batch' = Batch \cup {Len(bTx) + 1}
           /\ bTx'[Len(bTx) + 1] = hashes
           /\ UNCHANGED <<rpcQ, rpcStep, rpcJob>> => RpcTyped'
<1>1. BatchTyped /\ Books /\ ZcTyped /\ RpcTyped
  BY DEF TypeInv
<1>2. /\ NewBatch(from, req, hashes, Cardinality(hashes))
      /\ Cardinality(hashes) \in Nat /\ Books'
  BY <1>1, BooksNew
<1>3. /\ BatchTyped' /\ Batch' = Batch \cup {Len(bTx) + 1}
      /\ (\A b \in Batch : bTx'[b] = bTx[b]) /\ bTx'[Len(bTx) + 1] = hashes
  BY <1>1, <1>2, NewBatchTyped
<1>4. newZcQ' \in Seq(Batch' \cup {0})
  <2>1. newZcQ' = Append(newZcQ, Len(bTx) + 1) /\ newZcQ \in Seq(Batch \cup {0})
    BY <1>1, <1>2 DEF NewBatch, ZcTyped
  <2> QED
    BY <1>3, <2>1, QueueGrows
<1> QED
  BY <1>1, <1>2, <1>3, <1>4, GrowTyped, Zenon

(* The rest of broadcastZC: the client's batch. *)
LEMMA TypeBroadcastBatch ==
    ASSUME TypeInv, NEW r \in Requests, BroadcastBatch(r)
    PROVE  TypeInv'
<1>1. /\ InitiateZcBatch("client", r, todo[r]) /\ PushThroughP2P(todo[r])
      /\ pc' = [pc EXCEPT ![r] = "done"]
      /\ todo' = [todo EXCEPT ![r] = {}]
      /\ UNCHANGED <<getDataQ, preQ, rpcQ, buffer, watchVars, matching,
                     parser, zc, rpcStep, rpcJob, replyVars, purge, known,
                     asked, refused>>
  BY DEF BroadcastBatch
<1>2. todo[r] \in SUBSET Tx
  BY DEF TypeInv, ClientTyped
<1>3. BatchTyped' /\ Books' /\ ZcTyped' /\ RpcTyped'
  BY <1>1, <1>2, TypeBatch
<1>4. ClientTyped'
  BY <1>1 DEF TypeInv, ClientTyped
<1>5. NodeTyped'
  BY <1>1, <1>2 DEF TypeInv, NodeTyped, PushThroughP2P
<1> QED
  BY <1>1, <1>3, <1>4, <1>5, PartsSame, Zenon DEF TypeInv, replyVars

(* The inventory thread's batch and getdata request. *)
LEMMA TypeInvFlush ==
    ASSUME TypeInv, InvFlush
    PROVE  TypeInv'
<1>1. /\ InitiateZcBatch("inv", None, buffer) /\ buffer' = {} /\ asked' = asked \cup buffer
      /\ UNCHANGED <<pc, todo, getDataQ, preQ, rpcQ, watchVars, matching,
                     parser, zc, rpcStep, rpcJob, replyVars, purge, known,
                     offered, refused>>
  BY DEF InvFlush, RequestTxFromNode
<1>2. buffer \in SUBSET Tx
  BY DEF TypeInv, NodeTyped
<1>3. BatchTyped' /\ Books' /\ ZcTyped' /\ RpcTyped'
  BY <1>1, <1>2, TypeBatch
<1>4. NodeTyped'
  BY <1>1, <1>2 DEF TypeInv, NodeTyped
<1> QED
  BY <1>1, <1>3, <1>4, PartsSame, Zenon DEF TypeInv, replyVars

(* A message from the node is put on the matcher's queue. *)
LEMMA TypePost ==
    ASSUME NodeTyped, NEW h \in Tx, NEW k \in {"payload", "reject"},
           getDataQ' = Append(getDataQ, [kind |-> k, tx |-> h]),
           buffer' \subseteq Tx, asked' \subseteq Tx, offered' \subseteq Tx,
           UNCHANGED <<known, refused>>
    PROVE  NodeTyped'
<1>1. [kind |-> k, tx |-> h] \in NodeReply
  BY DEF NodeReply
<1> QED
  BY <1>1 DEF NodeTyped

(* The announcements and answers of the node. *)
LEMMA TypeNode ==
    ASSUME TypeInv, Node
    PROVE  TypeInv'
<1> USE DEF TypeInv
<1>1. PICK h \in Tx : InvWatcher(h) \/ InvProcess(h) \/ NodeServe(h) \/ NodeReject(h)
  BY DEF Node
<1>2. NodeTyped /\ buffer \subseteq Tx /\ asked \subseteq Tx /\ offered \subseteq Tx
  BY DEF NodeTyped
<1>3. CASE InvWatcher(h)
  <2>1. /\ UNCHANGED <<batchVars, pc, todo, newZcQ, batchQ, preQ, rpcQ, buffer, extra,
                       matching, parser, zc, rpcStep, rpcJob, replyVars, purge,
                       known, offered, asked, refused>>
        /\ watcher' = [watcher EXCEPT ![h] = "inved"]
        /\ getDataQ' = Append(getDataQ, [kind |-> "payload", tx |-> h])
    BY <1>3 DEF InvWatcher
  <2>2. WatchTyped'
    BY <2>1 DEF WatchTyped
  <2>3. NodeTyped'
    BY <1>2, <2>1, TypePost
  <2> QED
    BY <2>1, <2>2, <2>3, PartsSame, Zenon DEF batchVars, replyVars, bookVars
<1>4. CASE InvProcess(h)
  <2>1. UNCHANGED <<batchVars, pc, todo, newZcQ, batchQ, preQ, rpcQ, watchVars,
                    matching, parser, zc, rpcStep, rpcJob, replyVars, purge>>
    BY <1>4 DEF InvProcess
  <2>2. NodeTyped'
    BY <1>4 DEF InvProcess, NodeTyped
  <2> QED
    BY <2>1, <2>2, PartsSame, Zenon DEF batchVars, replyVars, bookVars
<1>5. CASE NodeServe(h) \/ NodeReject(h)
  <2>1. UNCHANGED <<batchVars, pc, todo, newZcQ, batchQ, preQ, rpcQ, buffer, watchVars,
                    matching, parser, zc, rpcStep, rpcJob, replyVars, purge>>
    BY <1>5, Zenon DEF NodeServe, NodeReject, nodeRest
  <2>2. PICK k \in {"payload", "reject"} : getDataQ' = Append(getDataQ, [kind |-> k, tx |-> h])
    BY <1>5 DEF NodeServe, NodeReject
  <2>3. asked' \subseteq Tx /\ offered' \subseteq Tx /\ UNCHANGED <<known, refused>>
    BY <1>2, <1>5 DEF NodeServe, NodeReject
  <2>4. NodeTyped'
    BY <1>2, <2>1, <2>2, <2>3, TypePost
  <2> QED
    BY <2>1, <2>4, PartsSame, Zenon DEF batchVars, replyVars, bookVars
<1> QED
  BY <1>1, <1>3, <1>4, <1>5

(* The counter still covers what waits when less does. *)
LEMMA CoversLess ==
    ASSUME CounterCovers, UNCHANGED <<bTx, bCount>>, BatchTyped,
           \A b \in Batch : OpenAt(bTx', bReady', batchQ', matching', preQ', parser', b)
                              \subseteq OpenAt(bTx, bReady, batchQ, matching, preQ, parser, b)
    PROVE  CounterCovers'
<1>1. Batch' = Batch
  BY DEF Batch
<1>2. ASSUME NEW b \in Batch PROVE Cardinality(Open'[b]) <= bCount'[b]
  <2>1. Open'[b] \subseteq Open[b] /\ Open[b] \subseteq Tx
    BY <1>1, Zenon DEF Open, OpenAt
  <2>2. IsFiniteSet(Open[b])
    BY <2>1, ZcBatchAssumption, FS_Subset
  <2>3. /\ Cardinality(Open'[b]) <= Cardinality(Open[b])
        /\ Cardinality(Open'[b]) \in Nat /\ Cardinality(Open[b]) \in Nat
    BY <2>1, <2>2, FS_Subset, FS_CardinalityType
  <2>4. Cardinality(Open[b]) <= bCount[b] /\ bCount[b] \in Nat
    BY DEF CounterCovers, BatchTyped
  <2> QED
    BY <2>3, <2>4
<1> QED
  BY <1>1, <1>2, Zenon DEF CounterCovers

(* A preprocessing thread takes a body: its place in the books moves along. *)
LEMMA BooksParserPayload ==
    ASSUME BatchTyped, Books, NEW p \in Parsers, ParserPayload(p)
    PROVE  Books'
<1> DEFINE j == Head(preQ)
<1>1. /\ preQ # <<>> /\ preQ' = Tail(preQ) /\ ~Busy(parser[p])
      /\ parser' = [parser EXCEPT ![p] = [step |-> "parse", job |-> j]]
      /\ UNCHANGED <<bTx, bCount, bReady, matching, batchQ>>
  BY DEF ParserPayload, batchVars, Busy
<1>2. MatchTyped /\ JobsOnce /\ CountedReady /\ CounterCovers
  BY DEF Books
<1>3. preQ \in Seq(Job)
  BY <1>2 DEF MatchTyped
<1>4. /\ j \in Job /\ preQ' \in Seq(Job) /\ j = preQ[1] /\ 1 \in DOMAIN preQ
      /\ \A i \in DOMAIN preQ' : i + 1 \in DOMAIN preQ /\ preQ'[i] = preQ[i + 1] /\ i + 1 # 1
      /\ \A y : In(preQ, y) <=> In(preQ', y) \/ y = j
  BY <1>1, <1>3, TailIn
<1>5. \A i \in DOMAIN preQ' : \E k \in DOMAIN preQ : k # 1 /\ preQ'[i] = preQ[k]
  BY <1>4, Zenon
<1>6. j.batch \in Batch /\ j.tx \in bTx[j.batch] /\ Batch' = Batch
  BY <1>1, <1>2, <1>4, Zenon DEF MatchTyped, Batch
<1> HIDE DEF j
<1>7. parser \in [Parsers -> [step : {"idle", "parse", "count", "set"}, job : Job \cup {NoJob}]]
  BY <1>2 DEF MatchTyped
<1>8. /\ parser'[p].step = "parse" /\ parser'[p].job = j /\ Busy(parser'[p])
      /\ \A q \in Parsers : q # p => parser'[q] = parser[q]
  BY <1>1, <1>7 DEF Busy
<1>9. parser' \in [Parsers -> [step : {"idle", "parse", "count", "set"}, job : Job \cup {NoJob}]]
  BY <1>1, <1>4, <1>7
<1>10. MatchTyped'
  <2>1. \A i \in DOMAIN preQ' : preQ'[i].batch \in Batch /\ preQ'[i].tx \in bTx[preQ'[i].batch]
    BY <1>2, <1>4, Zenon DEF MatchTyped
  <2>2. \A q \in Parsers : parser'[q].step # "idle" =>
           /\ parser'[q].job \in Job /\ parser'[q].job.batch \in Batch
           /\ parser'[q].job.tx \in bTx[parser'[q].job.batch]
    BY <1>2, <1>4, <1>6, <1>8, Zenon DEF MatchTyped
  <2> QED
    BY <1>1, <1>2, <1>4, <1>6, <1>9, <2>1, <2>2, Zenon DEF MatchTyped
<1>11. JobsOnce'
  <2>a. /\ \A i, k \in DOMAIN preQ : preQ[i] = preQ[k] => i = k
        /\ \A i \in DOMAIN preQ : /\ matching[preQ[i].tx] # preQ[i].batch
                                  /\ ~In(batchQ, preQ[i].batch)
    BY <1>2 DEF JobsOnce
  <2>b. \A q \in Parsers : Busy(parser[q]) => ~In(preQ, parser[q].job)
    BY <1>2 DEF JobsOnce
  <2>1. \A i, k \in DOMAIN preQ' : preQ'[i] = preQ'[k] => i = k
    <3> SUFFICES ASSUME NEW i \in DOMAIN preQ', NEW k \in DOMAIN preQ', preQ'[i] = preQ'[k]
                 PROVE  i = k
      OBVIOUS
    <3>1. i + 1 = k + 1
      BY <1>4, <2>a
    <3>2. i \in Nat /\ k \in Nat
      BY <1>4
    <3> QED
      BY <3>1, <3>2
  <2>2. ~In(preQ', j)
    BY <1>4, <1>5, <2>a DEF In
  <2>3. In(preQ, j)
    BY <1>4, Zenon
  <2>4. \A q \in Parsers : Busy(parser[q]) => parser[q].job # j
    BY <1>2, <2>3, Zenon DEF JobsOnce
  <2>5. matching[j.tx] # j.batch /\ ~In(batchQ, j.batch)
    BY <1>2, <1>4, Zenon DEF JobsOnce
  <2>6. \A q \in Parsers : Busy(parser'[q]) => ~In(preQ', parser'[q].job)
    BY <1>4, <1>8, <2>2, <2>b, Zenon
  <2>7. \A o, q \in Parsers :
          Busy(parser'[o]) /\ Busy(parser'[q]) /\ parser'[o].job = parser'[q].job => o = q
    BY <1>2, <1>8, <2>4, Zenon DEF JobsOnce
  <2>8. \A q \in Parsers : Busy(parser'[q]) =>
          /\ matching[parser'[q].job.tx] # parser'[q].job.batch
          /\ ~In(batchQ, parser'[q].job.batch)
    BY <1>2, <1>8, <2>5, Zenon DEF JobsOnce
  <2>9. \A i \in DOMAIN preQ' : /\ matching[preQ'[i].tx] # preQ'[i].batch
                                /\ ~In(batchQ, preQ'[i].batch)
    BY <1>5, <2>a
  <2> QED
    BY <1>1, <2>1, <2>6, <2>7, <2>8, <2>9, Zenon DEF JobsOnce
<1>12. CounterCovers'
  <2>1. \A b \in Batch : OpenAt(bTx', bReady', batchQ', matching', preQ', parser', b)
                           \subseteq OpenAt(bTx, bReady, batchQ, matching, preQ, parser, b)
    BY <1>1, <1>4, <1>5, <1>8 DEF OpenAt
  <2> QED
    BY <1>1, <1>2, <2>1, CoversLess
<1>13. CountedReady'
  BY <1>1, <1>2, <1>8 DEF CountedReady
<1> QED
  BY <1>10, <1>11, <1>12, <1>13 DEF Books

(* A parser moves on within its job. *)
LEMMA ParserMoves ==
    ASSUME MatchTyped, NEW p \in Parsers, NEW s \in {"idle", "parse", "count", "set"},
           Step(p, s), parser[p].step # "idle", UNCHANGED <<bTx, matching, batchQ, preQ>>
    PROVE  /\ MatchTyped'
           /\ parser'[p].step = s /\ parser'[p].job = parser[p].job
           /\ \A q \in Parsers : q # p => parser'[q] = parser[q]
<1>1. parser \in [Parsers -> [step : {"idle", "parse", "count", "set"}, job : Job \cup {NoJob}]]
  BY DEF MatchTyped
<1>2. parser' = [parser EXCEPT ![p] = [parser[p] EXCEPT !.step = s]]
  BY Zenon DEF Step
<1>3. parser[p] \in [step : {"idle", "parse", "count", "set"}, job : Job \cup {NoJob}]
  BY <1>1
<1>4. [parser[p] EXCEPT !.step = s] = [step |-> s, job |-> parser[p].job]
  BY <1>3
<1>5. parser' = [parser EXCEPT ![p] = [step |-> s, job |-> parser[p].job]]
  BY <1>2, <1>4
<1>6. /\ parser' \in [Parsers -> [step : {"idle", "parse", "count", "set"}, job : Job \cup {NoJob}]]
      /\ parser'[p].step = s /\ parser'[p].job = parser[p].job
      /\ \A q \in Parsers : q # p => parser'[q] = parser[q]
  BY <1>1, <1>3, <1>5
<1>7. Batch' = Batch
  BY DEF Batch
<1>8. \A q \in Parsers : parser'[q].step # "idle" =>
        /\ parser'[q].job \in Job /\ parser'[q].job.batch \in Batch
        /\ parser'[q].job.tx \in bTx[parser'[q].job.batch]
  BY <1>6, Zenon DEF MatchTyped
<1>9. MatchTyped'
  BY <1>6, <1>7, <1>8, Zenon DEF MatchTyped
<1> QED
  BY <1>6, <1>9

(* The four steps of a preprocessing thread. *)
LEMMA TypeParser ==
    ASSUME TypeInv, NEW p \in Parsers, Parser(p)
    PROVE  TypeInv'
<1> USE DEF TypeInv
<1>1. MatchTyped /\ JobsOnce /\ CountedReady /\ CounterCovers /\ BatchTyped
  BY DEF Books
<1> DEFINE j == parser[p].job
           b == j.batch
<1>2. CASE ParserPayload(p)
  <2>1. Books'
    BY <1>1, <1>2, BooksParserPayload
  <2>2. UNCHANGED <<batchVars, pc, todo, newZcQ, getDataQ, rpcQ, buffer, watchVars, zc,
                    rpcStep, rpcJob, replyVars, purge, nodeVars>>
    BY <1>2 DEF ParserPayload
  <2> QED
    BY <2>1, <2>2, PartsSame, Zenon DEF batchVars, replyVars, nodeVars
<1>3. CASE ParserParse(p) \/ ParserCount(p) \/ ParserSet(p)
  <2>1. /\ UNCHANGED <<bTx, bFrom, bReq, pc, todo, queueVars, buffer, watchVars, matching,
                       zc, rpcStep, rpcJob, replyVars, purge, nodeVars>>
        /\ parser[p].step # "idle"
    BY <1>3, Zenon DEF ParserParse, ParserCount, ParserSet, parserRest
  <2>2. UNCHANGED <<bTx, matching, batchQ, preQ>>
    BY <2>1 DEF queueVars
  <2>3. j \in Job /\ b \in Batch /\ j.tx \in bTx[b] /\ j.tx \in Tx
    BY <1>1, <2>1 DEF MatchTyped, Job
  <2>4. PICK s \in {"idle", "parse", "count", "set"} :
          /\ Step(p, s) /\ (s \in {"parse", "count"} => Busy(parser[p]))
          /\ ParserCount(p) => s \notin {"parse", "count"}
          /\ s = "count" => ParserParse(p)
    BY <1>3 DEF ParserParse, ParserCount, ParserSet, Busy
  <2>5. /\ MatchTyped' /\ parser'[p].step = s /\ parser'[p].job = j
        /\ \A q \in Parsers : q # p => parser'[q] = parser[q]
    BY <1>1, <2>1, <2>2, <2>4, ParserMoves, Zenon
  <2>6. \A q \in Parsers : /\ Busy(parser'[q]) => Busy(parser[q])
                           /\ parser'[q].job = parser[q].job
    BY <2>4, <2>5, Zenon DEF Busy
  <2>r. /\ \A c \in Batch : bReady[c] \subseteq bReady'[c]
        /\ ParserParse(p) => j.tx \in bReady'[b]
    <3>1. bReady \in [Batch -> SUBSET Tx]
      BY <1>1 DEF BatchTyped
    <3>2. \/ bReady' = bReady /\ ~ParserParse(p)
          \/ bReady' = [bReady EXCEPT ![b] = @ \cup {j.tx}]
      BY <1>3 DEF ParserParse, ParserCount, ParserSet
    <3> HIDE DEF b, j
    <3> QED
      BY <2>3, <3>1, <3>2
  <2>c. CountedReady'
    <3>1. parser'[p].step = "count" => ParserParse(p)
      BY <2>4, <2>5
    <3> QED
      BY <1>1, <2>5, <2>r, <3>1 DEF CountedReady, MatchTyped
  <2>7. JobsOnce'
    BY <1>1, <2>2, <2>6, Zenon DEF JobsOnce
  <2>8. \A c \in Batch : OpenAt(bTx', bReady', batchQ', matching', preQ', parser', c)
                           \subseteq OpenAt(bTx, bReady, batchQ, matching, preQ, parser, c)
    <3>1. \A c \in Batch : bReady[c] \subseteq bReady'[c]
      BY <1>1, <2>r
    <3> QED
      BY <2>2, <2>6, <3>1 DEF OpenAt
  <2>9. BatchTyped' /\ CounterCovers'
    <3>1. CASE ParserParse(p)
      <4>1. /\ bReady' = [bReady EXCEPT ![b] = @ \cup {j.tx}]
            /\ UNCHANGED <<bTx, bFrom, bReq, bCount, bProm>>
        BY <3>1, <2>1 DEF ParserParse
      <4>2. bReady' \in [Batch -> SUBSET Tx] /\ Batch' = Batch
        BY <1>1, <2>3, <4>1 DEF BatchTyped, Batch
      <4>3. BatchTyped'
        BY <1>1, <4>1, <4>2, Zenon DEF BatchTyped
      <4> QED
        BY <1>1, <2>8, <4>1, <4>3, CoversLess
    <3>2. CASE ParserSet(p)
      <4>1. /\ bProm' = [bProm EXCEPT ![b] = IF @ = "none" THEN "success" ELSE @]
            /\ UNCHANGED <<bTx, bFrom, bReq, bCount, bReady>>
        BY <3>2, <2>1 DEF ParserSet
      <4>2. bReady' \in [Batch -> SUBSET Tx] /\ "success" \in Outcomes
        BY <1>1, <4>1 DEF BatchTyped, Outcomes
      <4>3. BatchTyped'
        BY <1>1, <2>3, <4>1, <4>2, PromiseTyped, Zenon
      <4> QED
        BY <1>1, <2>8, <4>1, <4>3, CoversLess
    <3>3. CASE ParserCount(p)
      <4>1. /\ bCount' = [bCount EXCEPT ![b] = @ - 1] /\ Busy(parser[p])
            /\ UNCHANGED <<bTx, bFrom, bReq, bProm, bReady>>
        BY <3>3, <2>1 DEF ParserCount, Busy
      <4>2. ~Busy(parser'[p])
        BY <3>3, <2>4, <2>5 DEF Busy
      <4>3. j.tx \in OpenAt(bTx, bReady, batchQ, matching, preQ, parser, b)
        BY <2>3, <4>1, Zenon DEF OpenAt
      <4>4. j.tx \notin OpenAt(bTx', bReady', batchQ', matching', preQ', parser', b)
        <5>1. matching[j.tx] # b /\ ~In(batchQ, b)
          BY <1>1, <4>1, Zenon DEF JobsOnce
        <5>5. j.tx \in bReady'[b]
          BY <1>1, <2>3, <2>r, <3>3 DEF CountedReady, ParserCount
        <5>2. \A k \in Job : k.tx = j.tx /\ k.batch = b => k = j
          BY <2>3 DEF Job
        <5>3. \A i \in DOMAIN preQ : preQ[i] \in Job /\ preQ[i] # j
          BY <1>1, <4>1 DEF JobsOnce, MatchTyped, In
        <5>4. \A q \in Parsers : Busy(parser'[q]) => parser'[q].job \in Job /\ parser'[q].job # j
          <6>1. \A q \in Parsers : Busy(parser[q]) => parser[q].job \in Job
            BY <1>1 DEF MatchTyped, Busy
          <6>2. \A q \in Parsers : Busy(parser[q]) /\ parser[q].job = j => q = p
            BY <1>1, <4>1, Zenon DEF JobsOnce
          <6> QED
            BY <2>6, <4>2, <6>1, <6>2, Zenon
        <5> QED
          BY <2>2, <5>1, <5>2, <5>3, <5>4, <5>5, Zenon DEF OpenAt
      <4>5. Batch' = Batch /\ bCount \in [Batch -> Nat]
        BY <1>1, <4>1 DEF BatchTyped, Batch
      <4>6. /\ Open[b] = OpenAt(bTx, bReady, batchQ, matching, preQ, parser, b)
            /\ Open'[b] = OpenAt(bTx', bReady', batchQ', matching', preQ', parser', b)
        BY <2>3, <4>5, Zenon DEF Open
      <4>7. /\ j.tx \in Open[b] /\ j.tx \notin Open'[b] /\ Open'[b] \subseteq Open[b]
            /\ Open[b] \subseteq Tx
        BY <2>3, <2>8, <4>3, <4>4, <4>6, Zenon DEF OpenAt
      <4>8. IsFiniteSet(Open[b]) /\ IsFiniteSet(Open[b] \ {j.tx})
        BY <4>7, ZcBatchAssumption, FS_Subset, FS_RemoveElement
      <4>9. /\ Cardinality(Open'[b]) <= Cardinality(Open[b] \ {j.tx})
            /\ Cardinality(Open[b] \ {j.tx}) = Cardinality(Open[b]) - 1
            /\ Cardinality(Open[b]) \in Nat /\ Cardinality(Open'[b]) \in Nat
        <5>1. Open'[b] \subseteq Open[b] \ {j.tx}
          BY <4>7
        <5>2. IsFiniteSet(Open'[b])
          BY <4>8, <5>1, FS_Subset
        <5> QED
          BY <4>7, <4>8, <5>1, <5>2, FS_Subset, FS_RemoveElement, FS_CardinalityType
      <4>10. Cardinality(Open[b]) <= bCount[b]
        BY <1>1, <2>3, Zenon DEF CounterCovers
      <4> HIDE DEF b, j
      <4>11. bCount[b] - 1 \in Nat /\ Cardinality(Open'[b]) <= bCount[b] - 1
        <5>1. bCount[b] \in Nat
          BY <2>3, <4>5
        <5> QED
          BY <4>9, <4>10, <5>1
      <4>12. /\ bCount' \in [Batch -> Nat] /\ bCount'[b] = bCount[b] - 1
             /\ \A c \in Batch : c # b => bCount'[c] = bCount[c]
        BY <4>1, <4>5, <4>11, <2>3
      <4>13. BatchTyped'
        BY <1>1, <4>1, <4>5, <4>12, Zenon DEF BatchTyped
      <4>14. ASSUME NEW c \in Batch PROVE Cardinality(Open'[c]) <= bCount'[c]
        <5>1. CASE c = b
          BY <4>11, <4>12, <5>1
        <5>2. CASE c # b
          <6>1. Open'[c] \subseteq Open[c] /\ Open[c] \subseteq Tx
            BY <2>8, <4>5, Zenon DEF Open, OpenAt
          <6>2. IsFiniteSet(Open[c])
            BY <6>1, ZcBatchAssumption, FS_Subset
          <6>3. /\ Cardinality(Open'[c]) <= Cardinality(Open[c])
                /\ Cardinality(Open'[c]) \in Nat /\ Cardinality(Open[c]) \in Nat
            BY <6>1, <6>2, FS_Subset, FS_CardinalityType
          <6>4. Cardinality(Open[c]) <= bCount[c] /\ bCount[c] \in Nat
            BY <1>1, <4>5 DEF CounterCovers
          <6> QED
            BY <4>12, <5>2, <6>3, <6>4
        <5> QED
          BY <5>1, <5>2
      <4> QED
        BY <4>5, <4>13, <4>14, Zenon DEF CounterCovers
    <3> QED
      BY <1>3, <3>1, <3>2, <3>3
  <2>10. Books'
    BY <2>5, <2>7, <2>9, <2>c DEF Books
  <2> QED
    BY <2>1, <2>9, <2>10, PartsSame, Zenon DEF queueVars, replyVars, nodeVars
<1> QED
  BY <1>2, <1>3 DEF Parser

(* A set of natural numbers has a least one. *)
LEMMA LeastNatural ==
    ASSUME NEW T \in SUBSET Nat, T # {}
    PROVE  \E x \in T : \A y \in T : x <= y
<1> DEFINE R == OpToRel(<, Nat)
<1>1. IsWellFoundedOn(R, Nat)
  BY NatLessThanWellFounded
<1>2. \A x, y \in Nat : <<y, x>> \in R <=> y < x
  BY DEF OpToRel
<1> HIDE DEF R
<1>3. PICK x \in T : \A y \in T : ~(<<y, x>> \in R)
  BY <1>1, WFMin
<1>4. \A y \in T : ~(y < x)
  BY <1>2, <1>3
<1> QED
  BY <1>4

(* The matcher's map after batchQueue_ is drained into it. *)
LEMMA DrainedTyped ==
    ASSUME MatchTyped, NEW h \in Tx
    PROVE  /\ Drained[h] \in Batch \cup {0}
           /\ Drained[h] # 0 => /\ h \in bTx[Drained[h]]
                                /\ matching[h] = Drained[h] \/ In(batchQ, Drained[h])
<1> DEFINE new == {i \in DOMAIN batchQ : h \in bTx[batchQ[i]]}
           first == CHOOSE i \in new : \A j \in new : i <= j
<1>1. /\ batchQ \in Seq(Batch) /\ matching \in [Tx -> Batch \cup {0}]
      /\ matching[h] # 0 => h \in bTx[matching[h]]
  BY DEF MatchTyped
<1>2. Drained[h] = IF matching[h] # 0 \/ new = {} THEN matching[h] ELSE batchQ[first]
  BY DEF Drained
<1>3. CASE matching[h] # 0 \/ new = {}
  BY <1>1, <1>2, <1>3
<1>4. CASE ~(matching[h] # 0 \/ new = {})
  <2>1. new \in SUBSET Nat /\ new # {}
    BY <1>1, <1>4
  <2> HIDE DEF new
  <2>2. \E i \in new : \A j \in new : i <= j
    BY <2>1, LeastNatural
  <2>3. first \in new
    BY <2>2
  <2>4. first \in DOMAIN batchQ /\ h \in bTx[batchQ[first]]
    BY <2>3 DEF new
  <2> HIDE DEF first
  <2>5. Drained[h] = batchQ[first]
    BY <1>2, <1>4
  <2>6. batchQ[first] \in Batch
    BY <1>1, <2>4
  <2> QED
    BY <2>4, <2>5, <2>6, Zenon DEF In
<1> QED
  BY <1>3, <1>4

(* What the matcher does to the books, whatever the packet. *)
LEMMA BooksMatch ==
    ASSUME BatchTyped, Books, NEW h \in Tx, UNCHANGED <<bTx, bCount, bReady, parser>>,
           batchQ' = <<>>, matching' = [Drained EXCEPT ![h] = 0],
           \/ preQ' = preQ
           \/ Drained[h] # 0 /\ preQ' = Append(preQ, [tx |-> h, batch |-> Drained[h]])
    PROVE  Books'
<1> DEFINE j == [tx |-> h, batch |-> Drained[h]]
<1>1. MatchTyped /\ JobsOnce /\ CountedReady /\ CounterCovers
  BY DEF Books
<1>r. CountedReady'
  BY <1>1, Zenon DEF CountedReady
<1>2. \A g \in Tx : /\ Drained[g] \in Batch \cup {0}
                    /\ Drained[g] # 0 => /\ g \in bTx[Drained[g]]
                                         /\ matching[g] = Drained[g] \/ In(batchQ, Drained[g])
  BY <1>1, DrainedTyped
<1>3. DOMAIN Drained = Tx
  BY Zenon DEF Drained
<1>4. Drained \in [Tx -> Batch \cup {0}]
  BY <1>2, Zenon DEF Drained
<1>5. /\ matching' \in [Tx -> Batch \cup {0}] /\ matching'[h] = 0
      /\ \A g \in Tx : matching'[g] # 0 => g # h /\ matching'[g] = Drained[g]
  BY <1>4
<1>6. Batch' = Batch /\ 0 \notin Batch
  BY DEF BatchTyped, Batch
<1>7. preQ \in Seq(Job) /\ batchQ' \in Seq(Batch) /\ \A y : ~In(batchQ', y)
  BY <1>1 DEF MatchTyped, In
<1>8. CASE preQ' = preQ
  <2>1. MatchTyped'
    <3>1. \A g \in Tx : matching'[g] # 0 => g \in bTx'[matching'[g]]
      BY <1>2, <1>5, Zenon
    <3> QED
      BY <1>1, <1>5, <1>6, <1>7, <1>8, <3>1, Zenon DEF MatchTyped
  <2>2. \A k \in Job : k.batch \in Batch /\ matching[k.tx] # k.batch /\ ~In(batchQ, k.batch) =>
           matching'[k.tx] # k.batch
    <3>1. \A k \in Job : k.tx \in Tx
      BY DEF Job
    <3> QED
      BY <1>2, <1>5, <1>6, <3>1, Zenon
  <2>3. /\ \A i \in DOMAIN preQ : preQ[i] \in Job /\ preQ[i].batch \in Batch
        /\ \A p \in Parsers : Busy(parser[p]) =>
              parser[p].job \in Job /\ parser[p].job.batch \in Batch
    BY <1>1 DEF MatchTyped, Busy
  <2>4. JobsOnce'
    BY <1>1, <1>7, <1>8, <2>2, <2>3, Zenon DEF JobsOnce
  <2>5. \A b \in Batch : OpenAt(bTx', bReady', batchQ', matching', preQ', parser', b)
                           \subseteq OpenAt(bTx, bReady, batchQ, matching, preQ, parser, b)
    BY <1>2, <1>5, <1>6, <1>7, <1>8 DEF OpenAt
  <2>6. CounterCovers'
    BY <1>1, <2>5, CoversLess
  <2> QED
    BY <1>r, <2>1, <2>4, <2>6 DEF Books
<1>9. CASE Drained[h] # 0 /\ preQ' = Append(preQ, j)
  <2>1. j \in Job /\ Drained[h] \in Batch /\ h \in bTx[Drained[h]] /\ j.tx = h /\ j.batch = Drained[h]
    <3>1. Drained[h] \in Batch /\ h \in bTx[Drained[h]] /\ Drained[h] \in Nat
      BY <1>2, <1>9 DEF BatchTyped, Batch
    <3> QED
      BY <3>1 DEF Job
  <2> HIDE DEF j
  <2>2. /\ preQ' \in Seq(Job) /\ DOMAIN preQ' = DOMAIN preQ \cup {Len(preQ) + 1}
        /\ Len(preQ) + 1 \notin DOMAIN preQ
        /\ \A i \in DOMAIN preQ : preQ'[i] = preQ[i]
        /\ preQ'[Len(preQ) + 1] = j
        /\ \A y : In(preQ', y) <=> In(preQ, y) \/ y = j
    BY <1>7, <1>9, <2>1, AppendIn
  <2>3. MatchTyped'
    <3>1. \A g \in Tx : matching'[g] # 0 => g \in bTx'[matching'[g]]
      BY <1>2, <1>5, Zenon
    <3>2. \A i \in DOMAIN preQ' : preQ'[i].batch \in Batch /\ preQ'[i].tx \in bTx[preQ'[i].batch]
      BY <1>1, <2>1, <2>2 DEF MatchTyped
    <3> QED
      BY <1>1, <1>5, <1>6, <1>7, <2>2, <3>1, <3>2, Zenon DEF MatchTyped
  <2>4. \A k \in Job : k.batch \in Batch /\ matching[k.tx] # k.batch /\ ~In(batchQ, k.batch) =>
           matching'[k.tx] # k.batch /\ k # j
    <3>1. \A k \in Job : k.tx \in Tx
      BY DEF Job
    <3>2. \A k \in Job : matching[k.tx] # k.batch /\ ~In(batchQ, k.batch) => k # j
      BY <1>2, <1>9, <2>1, Zenon
    <3> QED
      BY <1>2, <1>5, <1>6, <3>1, <3>2, Zenon
  <2>5. /\ \A i \in DOMAIN preQ : preQ[i] \in Job /\ preQ[i].batch \in Batch
        /\ \A p \in Parsers : Busy(parser[p]) =>
              parser[p].job \in Job /\ parser[p].job.batch \in Batch
    BY <1>1 DEF MatchTyped, Busy
  <2>6. matching'[j.tx] # j.batch
    BY <1>5, <1>9, <2>1
  <2>7. JobsOnce'
    <3>1. \A i \in DOMAIN preQ : preQ[i] # j
      BY <1>1, <2>4, <2>5, Zenon DEF JobsOnce
    <3>2. \A i, k \in DOMAIN preQ' : preQ'[i] = preQ'[k] => i = k
      <4>1. \A i, k \in DOMAIN preQ : preQ[i] = preQ[k] => i = k
        BY <1>1 DEF JobsOnce
      <4> QED
        BY <2>2, <3>1, <4>1
    <3>3. \A p \in Parsers : Busy(parser[p]) => ~In(preQ', parser[p].job)
      BY <1>1, <2>2, <2>4, <2>5, Zenon DEF JobsOnce
    <3>4. \A p \in Parsers : Busy(parser[p]) => matching'[parser[p].job.tx] # parser[p].job.batch
      BY <1>1, <2>4, <2>5, Zenon DEF JobsOnce
    <3>5. \A i \in DOMAIN preQ : matching'[preQ[i].tx] # preQ[i].batch
      BY <1>1, <2>4, <2>5, Zenon DEF JobsOnce
    <3>6. \A i \in DOMAIN preQ' : matching'[preQ'[i].tx] # preQ'[i].batch
      BY <2>2, <2>6, <3>5
    <3>7. \A p, q \in Parsers :
          Busy(parser[p]) /\ Busy(parser[q]) /\ parser[p].job = parser[q].job => p = q
      BY <1>1 DEF JobsOnce
    <3> QED
      BY <1>7, <3>2, <3>3, <3>4, <3>6, <3>7, Zenon DEF JobsOnce
  <2>8. \A b \in Batch : OpenAt(bTx', bReady', batchQ', matching', preQ', parser', b)
                           \subseteq OpenAt(bTx, bReady, batchQ, matching, preQ, parser, b)
    <3>1. \A i \in DOMAIN preQ' : (i \in DOMAIN preQ /\ preQ'[i] = preQ[i]) \/ preQ'[i] = j
      BY <2>2
    <3> QED
      BY <1>2, <1>5, <1>6, <1>7, <1>9, <2>1, <3>1 DEF OpenAt
  <2>9. CounterCovers'
    BY <1>1, <2>8, CoversLess
  <2> QED
    BY <1>r, <2>3, <2>7, <2>9 DEF Books
<1> QED
  BY <1>8, <1>9

(* The matcher: a packet is matched, cleared hashes leave the map. *)
LEMMA TypeMatcher ==
    ASSUME TypeInv, Matcher
    PROVE  TypeInv'
<1> USE DEF TypeInv
<1>1. CASE MatcherMatch
  <2> DEFINE h == Head(getDataQ).tx
             kind == Head(getDataQ).kind
  <2>1. /\ getDataQ # <<>> /\ getDataQ' = Tail(getDataQ) /\ batchQ' = <<>>
        /\ matching' = [Drained EXCEPT ![h] = 0]
        /\ preQ' = IF kind = "payload" /\ Drained[h] # 0
                     THEN Append(preQ, [tx |-> h, batch |-> Drained[h]]) ELSE preQ
        /\ IF kind = "reject" /\ Drained[h] # 0
             THEN bProm' = [bProm EXCEPT ![Drained[h]] = IF @ = "none" THEN "reject" ELSE @]
             ELSE bProm' = bProm
        /\ UNCHANGED <<bTx, bFrom, bReq, bCount, bReady, pc, todo, newZcQ, rpcQ, buffer,
                       watchVars, parser, zc, rpcStep, rpcJob, replyVars, purge, nodeVars>>
    BY <1>1 DEF MatcherMatch
  <2>2. h \in Tx /\ NodeTyped'
    <3>1. Head(getDataQ) \in NodeReply /\ getDataQ' \in Seq(NodeReply)
      BY <2>1 DEF NodeTyped
    <3> QED
      BY <2>1, <3>1 DEF NodeTyped, NodeReply, nodeVars
  <2> HIDE DEF h, kind
  <2>3. Books'
    BY <2>1, <2>2, BooksMatch, Zenon
  <2>4. BatchTyped'
    <3>1. MatchTyped
      BY DEF Books
    <3>2. Drained[h] \in Batch \cup {0}
      BY <2>2, <3>1, DrainedTyped, Zenon
    <3>3. bReady' \in [Batch -> SUBSET Tx] /\ "reject" \in Outcomes
      BY <2>1 DEF BatchTyped, Outcomes
    <3>4. CASE bProm' = bProm
      BY <2>1, <3>4, PartsSame, Zenon DEF batchVars
    <3>5. CASE /\ Drained[h] \in Batch
               /\ bProm' = [bProm EXCEPT ![Drained[h]] = IF @ = "none" THEN "reject" ELSE @]
      BY <2>1, <3>3, <3>5, PromiseTyped, Zenon
    <3> QED
      BY <2>1, <3>2, <3>4, <3>5, Zenon
  <2> QED
    BY <2>1, <2>2, <2>3, <2>4, PartsSame, Zenon DEF replyVars
<1>2. CASE MatcherClear
  <2>1. /\ UNCHANGED <<batchVars, pc, todo, newZcQ, batchQ, getDataQ, preQ, rpcQ, buffer,
                       watchVars, parser, zc, rpcStep, rpcJob, replyVars, purge, nodeVars>>
        /\ matching' = [h \in Tx |-> IF h \in clearQ THEN 0 ELSE matching[h]]
    BY <1>2 DEF MatcherClear
  <2>2. MatchTyped /\ JobsOnce /\ CountedReady /\ CounterCovers
    BY DEF Books
  <2>3. /\ matching' \in [Tx -> Batch \cup {0}] /\ 0 \notin Batch /\ Batch' = Batch
        /\ \A h \in Tx : matching'[h] = 0 \/ matching'[h] = matching[h]
    BY <2>1, <2>2 DEF MatchTyped, BatchTyped, Batch, batchVars
  <2>4. UNCHANGED <<bTx, bCount, bReady, batchQ, preQ, parser>>
    BY <2>1 DEF batchVars
  <2>5. MatchTyped'
    BY <2>2, <2>3, <2>4, Zenon DEF MatchTyped
  <2>6. /\ \A i \in DOMAIN preQ : preQ[i] \in Job /\ preQ[i].batch \in Batch
        /\ \A p \in Parsers : Busy(parser[p]) =>
              parser[p].job \in Job /\ parser[p].job.batch \in Batch
    BY <2>2 DEF MatchTyped, Busy
  <2>7. JobsOnce'
    <3>1. \A k \in Job : k.batch \in Batch /\ matching[k.tx] # k.batch => matching'[k.tx] # k.batch
      <4>1. \A k \in Job : k.tx \in Tx
        BY DEF Job
      <4> QED
        BY <2>3, <4>1, Zenon
    <3>2. \A p \in Parsers : Busy(parser[p]) => matching'[parser[p].job.tx] # parser[p].job.batch
      BY <2>2, <2>6, <3>1, Zenon DEF JobsOnce
    <3>3. \A i \in DOMAIN preQ : matching'[preQ[i].tx] # preQ[i].batch
      BY <2>2, <2>6, <3>1, Zenon DEF JobsOnce
    <3> QED
      BY <2>2, <2>4, <3>2, <3>3, Zenon DEF JobsOnce
  <2>8. \A b \in Batch : OpenAt(bTx', bReady', batchQ', matching', preQ', parser', b)
                           \subseteq OpenAt(bTx, bReady, batchQ, matching, preQ, parser, b)
    BY <2>3, <2>4, Zenon DEF OpenAt
  <2>9. CounterCovers'
    BY <2>2, <2>4, <2>8, CoversLess
  <2>c. CountedReady'
    BY <2>2, <2>4, Zenon DEF CountedReady
  <2>10. Books'
    BY <2>5, <2>7, <2>9, <2>c DEF Books
  <2> QED
    BY <2>1, <2>10, PartsSame, Zenon DEF batchVars, replyVars, nodeVars
<1> QED
  BY <1>1, <1>2 DEF Matcher

(* SetToSeq lists a finite set without repetition. *)
LEMMA SetToSeqLists ==
    ASSUME NEW S, IsFiniteSet(S)
    PROVE  /\ SetToSeq(S) \in [1..Cardinality(S) -> S] /\ Cardinality(S) \in Nat
           /\ \A i, j \in 1..Cardinality(S) : SetToSeq(S)[i] = SetToSeq(S)[j] => i = j
<1>1. Cardinality(S) \in Nat /\ ExistsBijection(1..Cardinality(S), S)
  BY FS_CardinalityType
<1>2. PICK f \in [1..Cardinality(S) -> S] : \A i, j \in 1..Cardinality(S) : f[i] = f[j] => i = j
  BY <1>1 DEF ExistsBijection, Bijection, Injection, IsInjective
<1>3. \E g \in [1..Cardinality(S) -> S] : IsInjective(g)
  <2>1. DOMAIN f = 1..Cardinality(S)
    BY <1>2
  <2> QED
    BY <1>2, <2>1, Zenon DEF IsInjective
<1>4. SetToSeq(S) \in [1..Cardinality(S) -> S] /\ IsInjective(SetToSeq(S))
  BY <1>3 DEF SetToSeq
<1>5. DOMAIN SetToSeq(S) = 1..Cardinality(S)
  BY <1>4
<1> QED
  BY <1>1, <1>4, <1>5, Zenon DEF IsInjective

(* The packets the error callback queues: one for each transaction it does not
   report. *)
QueuedFor(S, q, g) ==
    /\ g \in Seq(Packet)
    /\ \A i \in DOMAIN g : \/ i \in DOMAIN q /\ g[i] = q[i]
                           \/ i \notin DOMAIN q /\ g[i].tx \in S
    /\ \A i \in DOMAIN q : i \in DOMAIN g
    /\ \A i, j \in DOMAIN g : i \notin DOMAIN q /\ j \notin DOMAIN q /\ g[i].tx = g[j].tx => i = j

(* One packet for each transaction of S, after those of q. *)
LEMMA Packets ==
    ASSUME NEW S \in SUBSET Tx, NEW r \in Requests, NEW e \in [Tx -> SUBSET Requests],
           NEW q \in Seq(Packet)
    PROVE  QueuedFor(S, q, q \o [i \in 1..Cardinality(S) |->
                       [tx |-> SetToSeq(S)[i], req |-> r, others |-> e[SetToSeq(S)[i]], batch |-> 0]])
<1> DEFINE n == Cardinality(S)
           s == SetToSeq(S)
           packet(i) == [tx |-> s[i], req |-> r, others |-> e[s[i]], batch |-> 0]
           new == [i \in 1..n |-> packet(i)]
           g == q \o new
<1>1. IsFiniteSet(S)
  BY ZcBatchAssumption, FS_Subset
<1>2. s \in [1..n -> S] /\ n \in Nat /\ \A i, j \in 1..n : s[i] = s[j] => i = j
  BY <1>1, SetToSeqLists
<1>n. n \in Nat
  BY <1>2
<1> HIDE DEF n, s
<1>3. \A i \in 1..n : packet(i) \in Packet /\ packet(i).tx = s[i] /\ s[i] \in S
  BY <1>2 DEF Packet
<1> HIDE DEF packet
<1>4. new \in [1..n -> Packet] /\ \A i \in 1..n : new[i] = packet(i)
  BY <1>3
<1> HIDE DEF new
<1>5. g = q \o new
  OBVIOUS
<1> HIDE DEF g
<1>6. new \in Seq(Packet) /\ Len(new) = n
  BY <1>2, <1>4
<1>7. /\ g \in Seq(Packet) /\ Len(g) = Len(q) + n
      /\ \A i \in 1..Len(q) + n : g[i] = IF i <= Len(q) THEN q[i] ELSE new[i - Len(q)]
  <2>1. /\ q \o new \in Seq(Packet) /\ Len(q \o new) = Len(q) + Len(new)
        /\ \A i \in 1..Len(q) + Len(new) :
              (q \o new)[i] = IF i <= Len(q) THEN q[i] ELSE new[i - Len(q)]
    BY <1>6, ConcatProperties, Zenon
  <2> QED
    BY <1>5, <1>6, <2>1, Zenon
<1>8. DOMAIN g = 1..Len(q) + n /\ DOMAIN q = 1..Len(q) /\ Len(q) \in Nat
  <2>1. DOMAIN g = 1..Len(g) /\ DOMAIN q = 1..Len(q) /\ Len(q) \in Nat
    BY <1>7, LenProperties, Zenon
  <2> QED
    BY <1>7, <2>1, Zenon
<1>9. \A i \in DOMAIN g : i \notin DOMAIN q =>
         i - Len(q) \in 1..n /\ g[i] = packet(i - Len(q)) /\ i \in Nat
  <2>1. \A i \in DOMAIN g : i \notin DOMAIN q => i - Len(q) \in 1..n /\ i \in Nat /\ ~(i <= Len(q))
    <3>1. \A l \in Nat : \A i \in 1..l + n : i \notin 1..l => i - l \in 1..n /\ i \in Nat /\ ~(i <= l)
      BY <1>n
    <3> QED
      BY <1>8, <3>1, Zenon
  <2>2. \A i \in DOMAIN g : i \notin DOMAIN q => g[i] = new[i - Len(q)]
    BY <1>7, <1>8, <2>1, Zenon
  <2> QED
    BY <1>4, <2>1, <2>2, Zenon
<1>10. \A i \in DOMAIN g : i \in DOMAIN q => g[i] = q[i]
  BY <1>7, <1>8
<1>11. \A i \in DOMAIN g : i \notin DOMAIN q => g[i].tx = s[i - Len(q)] /\ g[i].tx \in S
  BY <1>3, <1>9, Zenon
<1>12. ASSUME NEW i \in DOMAIN g, NEW j \in DOMAIN g, i \notin DOMAIN q, j \notin DOMAIN q,
              g[i].tx = g[j].tx
       PROVE  i = j
  <2>1. i - Len(q) = j - Len(q)
    <3>1. s[i - Len(q)] = s[j - Len(q)]
      BY <1>11, <1>12, Zenon
    <3> QED
      BY <1>2, <1>9, <1>12, <3>1, Zenon
  <2>2. \A l, x, y \in Nat : x - l = y - l => x = y
    OBVIOUS
  <2> QED
    BY <1>8, <1>9, <1>12, <2>1, <2>2, Zenon
<1>13. \A i \in DOMAIN q : i \in DOMAIN g
  <2>1. \A l \in Nat : \A i \in 1..l : i \in 1..l + n
    BY <1>n
  <2> QED
    BY <1>8, <2>1, Zenon
<1>14. QueuedFor(S, q, g)
  BY <1>7, <1>10, <1>11, <1>12, <1>13, Zenon DEF QueuedFor
<1> QED
  BY <1>14, Zenon DEF g, new, packet, n, s

(* Assignments to the zc thread's record. *)
LEMMA ZcMoves ==
    ASSUME zc \in ZcRecord, NEW s \in {"idle", "collect", "parse"}
    PROVE  /\ \A b \in Nat, t \in Outcomes \cup {"timeout"} :
                zc' = [zc EXCEPT !.batch = b, !.result = t, !.step = s] =>
                   zc' \in ZcRecord /\ zc'.step = s /\ zc'.batch = b
           /\ \A k \in SUBSET Tx : zc' = [zc EXCEPT !.step = s, !.keep = k] =>
                   zc' \in ZcRecord /\ zc'.step = s /\ zc'.batch = zc.batch
           /\ \A k \in SUBSET Tx, c \in [Tx -> SUBSET Requests] :
                zc' = [zc EXCEPT !.step = s, !.keep = k, !.carried = c] =>
                   zc' \in ZcRecord /\ zc'.step = s /\ zc'.batch = zc.batch
<1>1. ASSUME NEW b \in Nat, NEW t \in Outcomes \cup {"timeout"},
             zc' = [zc EXCEPT !.batch = b, !.result = t, !.step = s]
      PROVE  zc' \in ZcRecord /\ zc'.step = s /\ zc'.batch = b
  BY <1>1 DEF ZcRecord
<1>2. ASSUME NEW k \in SUBSET Tx, zc' = [zc EXCEPT !.step = s, !.keep = k]
      PROVE  zc' \in ZcRecord /\ zc'.step = s /\ zc'.batch = zc.batch
  BY <1>2 DEF ZcRecord
<1>3. ASSUME NEW k \in SUBSET Tx, NEW c \in [Tx -> SUBSET Requests],
             zc' = [zc EXCEPT !.step = s, !.keep = k, !.carried = c]
      PROVE  zc' \in ZcRecord /\ zc'.step = s /\ zc'.batch = zc.batch
  BY <1>3 DEF ZcRecord
<1> QED
  BY <1>1, <1>2, <1>3, Zenon

(* The zc thread takes a batch or a purge; the main thread asks for one. *)
LEMMA TypeZcTake ==
    ASSUME TypeInv, ZcPurge \/ ZcWake \/ ZcTimeout \/ PushNewBlock
    PROVE  TypeInv'
<1> USE DEF TypeInv
<1>1. /\ UNCHANGED <<batchVars, pc, todo, batchQ, getDataQ, preQ, rpcQ, buffer, watchVars,
                     matching, parser, rpcStep, rpcJob, nodeVars, accepted, answered>>
      /\ ~PushNewBlock => newZcQ # <<>> /\ newZcQ' = Tail(newZcQ)
      /\ PushNewBlock => newZcQ' = Append(newZcQ, 0) /\ purge' = "asked" /\ UNCHANGED <<zc, mempool>>
  BY Zenon DEF ZcPurge, ZcWake, ZcTimeout, PushNewBlock, zcRest, ZcIdling, replyVars, batchVars
<1>2. newZcQ \in Seq(Batch \cup {0}) /\ zc \in ZcRecord /\ Batch' = Batch
  BY <1>1 DEF ZcTyped, Batch, batchVars
<1>3. newZcQ' \in Seq(Batch \cup {0}) /\ (~PushNewBlock => Head(newZcQ) \in Batch \cup {0})
  BY <1>1, <1>2
<1>4. ZcTyped' /\ ReplyTyped'
  <2>1. CASE PushNewBlock
    BY <1>1, <1>2, <1>3, <2>1, Zenon DEF ZcTyped, ReplyTyped
  <2>2. CASE ZcPurge /\ ~PushNewBlock
    <3>1. zc' = zc /\ (\E mined \in SUBSET mempool : mempool' = mempool \ mined) /\ purge' = "done"
      BY <2>2 DEF ZcPurge
    <3>2. ZcTyped'
      BY <1>2, <1>3, <3>1, Zenon DEF ZcTyped
    <3>3. ReplyTyped'
      BY <1>1, <3>1 DEF ReplyTyped
    <3> QED
      BY <3>2, <3>3
  <2>3. CASE (ZcWake \/ ZcTimeout) /\ ~PushNewBlock
    <3>1. PICK s \in {"collect", "parse"}, t \in Outcomes \cup {"timeout"} :
             /\ zc' = [zc EXCEPT !.batch = Head(newZcQ), !.result = t, !.step = s]
             /\ UNCHANGED <<mempool, purge>> /\ Head(newZcQ) # 0
      <4>1. CASE ZcWake
        <5>1. Head(newZcQ) \in Batch /\ bProm[Head(newZcQ)] \in Outcomes
          BY <1>3, <2>3, <4>1 DEF ZcWake, ZcHead, BatchTyped
        <5> DEFINE b == Head(newZcQ)
                   s == IF bProm[b] = "exception" THEN "parse" ELSE "collect"
        <5>2. /\ zc' = [zc EXCEPT !.batch = b, !.result = bProm[b], !.step = s]
              /\ UNCHANGED <<mempool, purge>> /\ b # 0
          BY <4>1, Zenon DEF ZcWake, ZcHead, replyVars
        <5>3. s \in {"collect", "parse"}
          OBVIOUS
        <5> HIDE DEF s
        <5> QED
          BY <5>1, <5>2, <5>3, Zenon
      <4>2. CASE ZcTimeout
        <5> DEFINE t == "timeout"
                   s == "collect"
        <5>1. t \in Outcomes \cup {"timeout"} /\ s \in {"collect", "parse"}
          OBVIOUS
        <5>2. /\ zc' = [zc EXCEPT !.batch = Head(newZcQ), !.result = t, !.step = s]
              /\ UNCHANGED <<mempool, purge>> /\ Head(newZcQ) # 0
          BY <4>2, Zenon DEF ZcTimeout, ZcHead, replyVars
        <5> HIDE DEF s, t
        <5> QED
          BY <5>1, <5>2, Zenon
      <4> QED
        BY <2>3, <4>1, <4>2, Zenon
    <3>2. Head(newZcQ) \in Batch /\ Head(newZcQ) \in Nat
      BY <1>3, <2>3, <3>1 DEF Batch, BatchTyped
    <3>3. zc' \in ZcRecord /\ zc'.batch = Head(newZcQ)
      BY <1>2, <3>1, <3>2, ZcMoves, Zenon
    <3>4. ZcTyped'
      BY <1>2, <1>3, <3>2, <3>3, Zenon DEF ZcTyped
    <3>5. ReplyTyped'
      BY <1>1, <3>1, Zenon DEF ReplyTyped
    <3> QED
      BY <3>4, <3>5
  <2> QED
    BY <2>1, <2>2, <2>3, Zenon
<1> QED
  BY <1>1, <1>4, PartsSame, Zenon DEF batchVars, bookVars, nodeVars

(* It drops or keeps an inventory batch, and parses. *)
LEMMA TypeZcParse ==
    ASSUME TypeInv, ZcCollectInv \/ ZcParse
    PROVE  TypeInv'
<1> USE DEF TypeInv
<1>1. UNCHANGED <<batchVars, pc, todo, batchQ, getDataQ, preQ, rpcQ, newZcQ, buffer, watchVars,
                  matching, parser, rpcStep, rpcJob, nodeVars, purge>>
  BY Zenon DEF ZcCollectInv, ZcParse, zcRest, batchVars
<1>2. newZcQ \in Seq(Batch \cup {0}) /\ zc \in ZcRecord /\ Batch' = Batch
  BY <1>1 DEF ZcTyped, Batch, batchVars
<1>3. CASE ZcCollectInv
  <2> DEFINE k == IF zc.result = "success" THEN bTx[zc.batch] ELSE {}
  <2>1. zc' = [zc EXCEPT !.step = "parse", !.keep = k] /\ UNCHANGED replyVars /\ zc.batch \in Batch
    BY <1>3 DEF ZcCollectInv, ZcTyped
  <2>2. k \in SUBSET Tx
    BY <2>1 DEF BatchTyped, Batch
  <2> HIDE DEF k
  <2>3. zc' \in ZcRecord /\ zc'.batch = zc.batch
    BY <1>2, <2>1, <2>2, ZcMoves
  <2>4. ZcTyped'
    <3>1. newZcQ' \in Seq(Batch' \cup {0}) /\ zc'.batch \in Batch'
      BY <1>1, <1>2, <2>1, <2>3
    <3> QED
      BY <2>3, <3>1, Zenon DEF ZcTyped
  <2> QED
    BY <1>1, <2>1, <2>4, PartsSame, Zenon DEF batchVars, bookVars, nodeVars, replyVars
<1>4. CASE ZcParse
  <2> DEFINE b == zc.batch
             added == (zc.keep \cap bReady[b]) \ mempool
             after == mempool \cup added
  <2>1. /\ mempool' = after /\ accepted' = accepted \cup added /\ zc' = ZcIdle
        /\ IF added = {} \/ bReq[b] = None THEN UNCHANGED answered ELSE Notify(b, added, after)
        /\ b \in Batch
    BY <1>4 DEF ZcParse, ZcTyped
  <2>2. ZcTyped'
    BY <1>1, <1>2, <2>1 DEF ZcTyped, ZcIdle, ZcRecord, Outcomes
  <2>3. added \subseteq Tx /\ after \subseteq Tx /\ mempool' \subseteq accepted' /\ accepted' \subseteq Tx
    BY <1>2, <2>1 DEF ReplyTyped, ZcRecord
  <2>4. zc.carried \in [Tx -> SUBSET Requests] /\ bReq[b] \in Requests \cup {None}
    BY <1>2, <2>1 DEF ZcRecord, BatchTyped
  <2> HIDE DEF added, after, b
  <2>5. answered' \subseteq Requests \X Tx
    <3>1. CASE UNCHANGED answered
      BY <3>1 DEF ReplyTyped
    <3>2. CASE bReq[b] # None /\ Notify(b, added, after)
      <4>1. {<<bReq[b], h>> : h \in added} \subseteq Requests \X Tx
        BY <2>3, <2>4, <3>2
      <4>2. \A h \in after : {<<q, h>> : q \in zc.carried[h]} \subseteq Requests \X Tx
        BY <2>3, <2>4
      <4>3. answered' = answered \cup {<<bReq[b], h>> : h \in added}
                          \cup UNION {{<<q, h>> : q \in zc.carried[h]} : h \in after}
        BY <3>2, Zenon DEF Notify
      <4>4. UNION {{<<q, h>> : q \in zc.carried[h]} : h \in after} \subseteq Requests \X Tx
        BY <4>2, Zenon
      <4> QED
        BY <4>1, <4>3, <4>4 DEF ReplyTyped
    <3> QED
      BY <2>1, <3>1, <3>2
  <2>6. ReplyTyped'
    BY <1>1, <2>3, <2>5, Zenon DEF ReplyTyped
  <2> QED
    BY <1>1, <2>2, <2>6, PartsSame, Zenon DEF batchVars, bookVars, nodeVars
<1> QED
  BY <1>3, <1>4

(* What a batch does when it collects its entries: the map, the record of the
   zc thread, the packets for RPC. *)
LEMMA CollectFacts ==
    ASSUME TypeInv, ZcCollectWatched
    PROVE  /\ UNCHANGED <<batchVars, pc, todo, newZcQ, batchQ, getDataQ, preQ, buffer, matching,
                          parser, rpcStep, rpcJob, nodeVars, purge, mempool, accepted>>
           /\ zc.step = "collect" /\ bFrom[zc.batch] # "inv" /\ zc.batch \in Batch
           /\ zc' \in ZcRecord /\ zc'.step = "parse" /\ zc'.batch = zc.batch
           /\ \E taken \in SUBSET bTx[zc.batch] :
                /\ (\E h \in bTx[zc.batch] : watcher[h] = "none") \/ taken = bTx[zc.batch]
                /\ watcher' = [h \in Tx |-> IF h \in taken THEN "none" ELSE watcher[h]]
                /\ extra' = [h \in Tx |-> IF h \in taken THEN {} ELSE extra[h]]
           /\ \/ UNCHANGED <<answered, rpcQ>>
              \/ /\ bFrom[zc.batch] # "rpc" /\ \A h \in bTx[zc.batch] : watcher[h] # "none"
                 /\ ErrorCallback(bTx[zc.batch] \ Inved)
<1> DEFINE b == zc.batch
           missing == \E h \in bTx[b] : watcher[h] = "none"
           carry(k) == [h \in Tx |-> IF h \in k THEN extra[h] ELSE {}]
           parse(k) == zc' = [zc EXCEPT !.step = "parse", !.keep = k, !.carried = carry(k)]
<1>1. UNCHANGED <<batchVars, pc, todo, newZcQ, batchQ, getDataQ, preQ, buffer, matching,
                  parser, rpcStep, rpcJob, nodeVars, purge, mempool, accepted>>
  BY Zenon DEF ZcCollectWatched, CollectWatched, zcRest, batchVars
<1>2. zc.step = "collect" /\ bFrom[zc.batch] # "inv" /\ b \in Batch /\ zc \in ZcRecord
  BY DEF ZcCollectWatched, CollectWatched, TypeInv, ZcTyped
<1>3. \E taken \in IF missing THEN SUBSET bTx[b] ELSE {bTx[b]} :
         /\ watcher' = [h \in Tx |-> IF h \in taken THEN "none" ELSE watcher[h]]
         /\ extra' = [h \in Tx |-> IF h \in taken THEN {} ELSE extra[h]]
  BY Zenon DEF ZcCollectWatched, CollectWatched
<1>4. IF missing \/ (zc.result # "success" /\ bFrom[b] = "rpc")
        THEN parse({}) /\ UNCHANGED <<answered, rpcQ>>
        ELSE IF zc.result = "success"
        THEN parse(bTx[b]) /\ UNCHANGED <<answered, rpcQ>>
        ELSE parse(Inved) /\ ErrorCallback(bTx[b] \ Inved)
  BY Zenon DEF ZcCollectWatched, CollectWatched
<1>5. \E k \in SUBSET Tx : parse(k)
  <2>1. {} \in SUBSET Tx /\ bTx[b] \in SUBSET Tx /\ Inved \in SUBSET Tx
    BY <1>2 DEF TypeInv, BatchTyped, Batch, Inved
  <2> HIDE DEF parse
  <2> QED
    BY <1>4, <2>1, Zenon
<1>6. zc' \in ZcRecord /\ zc'.step = "parse" /\ zc'.batch = b
  <2>1. PICK k \in SUBSET Tx : parse(k)
    BY <1>5
  <2>2. carry(k) \in [Tx -> SUBSET Requests]
    BY DEF TypeInv, WatchTyped
  <2> HIDE DEF carry
  <2>3. zc' = [zc EXCEPT !.step = "parse", !.keep = k, !.carried = carry(k)]
    BY <2>1
  <2> HIDE DEF parse
  <2> QED
    BY <1>2, <2>2, <2>3, ZcMoves
<1>7. \/ UNCHANGED <<answered, rpcQ>>
      \/ bFrom[b] # "rpc" /\ ~missing /\ ErrorCallback(bTx[b] \ Inved)
  <2> HIDE DEF parse, missing
  <2> QED
    BY <1>4, Zenon
<1>8. \E taken \in SUBSET bTx[b] :
         /\ missing \/ taken = bTx[b]
         /\ watcher' = [h \in Tx |-> IF h \in taken THEN "none" ELSE watcher[h]]
         /\ extra' = [h \in Tx |-> IF h \in taken THEN {} ELSE extra[h]]
  <2>1. CASE missing
    <3> HIDE DEF missing
    <3> QED
      BY <1>3, <2>1, Zenon
  <2>2. CASE ~missing
    <3> HIDE DEF missing
    <3>1. bTx[b] \in SUBSET bTx[b]
      OBVIOUS
    <3> QED
      BY <1>3, <2>2, <3>1, Zenon
  <2> QED
    BY <2>1, <2>2
<1> QED
  BY <1>1, <1>2, <1>6, <1>7, <1>8, Zenon

(* The replies and RPC packets of the error callback. *)
LEMMA ErrorFacts ==
    ASSUME TypeInv, NEW failed \in SUBSET Tx, ErrorCallback(failed), zc.batch \in Batch,
           bFrom[zc.batch] # "inv"
    PROVE  /\ answered' \subseteq Requests \X Tx /\ rpcQ' \in Seq(Packet)
           /\ \A i \in DOMAIN rpcQ' : \/ i \in DOMAIN rpcQ /\ rpcQ'[i] = rpcQ[i]
                                      \/ i \notin DOMAIN rpcQ /\ rpcQ'[i].tx \in failed
           /\ \A i \in DOMAIN rpcQ : i \in DOMAIN rpcQ'
           /\ \A i, j \in DOMAIN rpcQ' :
                 i \notin DOMAIN rpcQ /\ j \notin DOMAIN rpcQ /\ rpcQ'[i].tx = rpcQ'[j].tx => i = j
<1> DEFINE r == bReq[zc.batch]
           reported == IF zc.result = "timeout" THEN failed \cap mempool ELSE failed
           S == failed \ reported
<1>1. /\ answered' = answered \cup UNION {{<<q, h>> : q \in {r} \cup extra[h]} : h \in reported}
      /\ rpcQ' = rpcQ \o [i \in 1..Cardinality(S) |->
                     [tx |-> SetToSeq(S)[i], req |-> r, others |-> extra[SetToSeq(S)[i]], batch |-> 0]]
  BY Zenon DEF ErrorCallback
<1>2. r \in Requests /\ extra \in [Tx -> SUBSET Requests] /\ rpcQ \in Seq(Packet)
  BY DEF TypeInv, BatchTyped, WatchTyped, RpcTyped
<1>3. reported \in SUBSET Tx /\ S \in SUBSET Tx /\ S \subseteq failed
  OBVIOUS
<1> HIDE DEF r, reported, S
<1>4. answered' \subseteq Requests \X Tx
  <2>1. \A h \in reported : {<<q, h>> : q \in {r} \cup extra[h]} \subseteq Requests \X Tx
    BY <1>2, <1>3
  <2>2. UNION {{<<q, h>> : q \in {r} \cup extra[h]} : h \in reported} \subseteq Requests \X Tx
    BY <2>1, Zenon
  <2> QED
    BY <1>1, <2>2 DEF TypeInv, ReplyTyped
<1>5. QueuedFor(S, rpcQ, rpcQ')
  BY <1>1, <1>2, <1>3, Packets, Zenon
<1> QED
  BY <1>3, <1>4, <1>5, Zenon DEF QueuedFor

(* It takes the entries of a batch. *)
LEMMA TypeCollect ==
    ASSUME TypeInv, ZcCollectWatched
    PROVE  TypeInv'
<1>1. /\ UNCHANGED <<batchVars, pc, todo, newZcQ, batchQ, getDataQ, preQ, buffer, matching,
                     parser, rpcStep, rpcJob, nodeVars, purge, mempool, accepted>>
      /\ zc.batch \in Batch /\ bFrom[zc.batch] # "inv"
      /\ zc' \in ZcRecord /\ zc'.step = "parse" /\ zc'.batch = zc.batch
  BY CollectFacts
<1>2. /\ \E taken \in SUBSET bTx[zc.batch] :
           /\ watcher' = [h \in Tx |-> IF h \in taken THEN "none" ELSE watcher[h]]
           /\ extra' = [h \in Tx |-> IF h \in taken THEN {} ELSE extra[h]]
      /\ UNCHANGED <<answered, rpcQ>> \/ ErrorCallback(bTx[zc.batch] \ Inved)
  BY CollectFacts, Zenon
<1>3. WatchTyped'
  <2>1. PICK taken : /\ watcher' = [h \in Tx |-> IF h \in taken THEN "none" ELSE watcher[h]]
                     /\ extra' = [h \in Tx |-> IF h \in taken THEN {} ELSE extra[h]]
    BY <1>2, Zenon
  <2> QED
    BY <2>1 DEF TypeInv, WatchTyped
<1>4. Batch' = Batch /\ bTx' = bTx
  BY <1>1 DEF Batch, batchVars
<1>5. ZcTyped'
  <2>1. newZcQ' \in Seq(Batch' \cup {0}) /\ zc'.batch \in Batch'
    BY <1>1, <1>4 DEF TypeInv, ZcTyped
  <2> QED
    BY <1>1, <2>1, Zenon DEF ZcTyped
<1>6. answered' \subseteq Requests \X Tx /\ rpcQ' \in Seq(Packet)
  <2>1. CASE UNCHANGED <<answered, rpcQ>>
    BY <2>1 DEF TypeInv, ReplyTyped, RpcTyped
  <2>2. CASE ErrorCallback(bTx[zc.batch] \ Inved)
    <3>1. bTx[zc.batch] \ Inved \in SUBSET Tx
      BY <1>1 DEF TypeInv, BatchTyped, Batch
    <3> QED
      BY <1>1, <2>2, <3>1, ErrorFacts, Zenon
  <2> QED
    BY <1>2, <2>1, <2>2
<1>7. RpcTyped'
  <2>1. rpcStep' = rpcStep /\ rpcJob' = rpcJob
    BY <1>1
  <2> QED
    BY <1>4, <1>6, <2>1, Zenon DEF TypeInv, RpcTyped
<1>8. ReplyTyped'
  <2>1. UNCHANGED <<purge, mempool, accepted>>
    BY <1>1
  <2> QED
    BY <1>6, <2>1, Zenon DEF TypeInv, ReplyTyped
<1> QED
  BY <1>1, <1>3, <1>5, <1>7, <1>8, PartsSame, Zenon DEF TypeInv, batchVars, bookVars, nodeVars

(* The RPC thread sets the body of its batch itself. *)
LEMMA BooksBody ==
    ASSUME BatchTyped, Books, NEW b \in Batch, NEW h, bTx[b] = {h},
           bReady' = [bReady EXCEPT ![b] = {h}],
           UNCHANGED <<bTx, bCount, matching, batchQ, preQ, parser>>
    PROVE  Books'
<1>1. MatchTyped /\ JobsOnce /\ CountedReady /\ CounterCovers
  BY DEF Books
<1>2. /\ bReady'[b] = {h} /\ \A c \in Batch : c # b => bReady'[c] = bReady[c]
  BY DEF BatchTyped
<1>3. MatchTyped'
  BY <1>1, Zenon DEF MatchTyped, Batch
<1>4. JobsOnce'
  BY <1>1, Zenon DEF JobsOnce, In, Busy
<1>5. CountedReady'
  <2>1. \A p \in Parsers : parser[p].step = "count" =>
           parser[p].job.batch \in Batch /\ parser[p].job.tx \in bTx[parser[p].job.batch]
    BY <1>1 DEF MatchTyped
  <2> QED
    BY <1>1, <1>2, <2>1 DEF CountedReady
<1>6. \A c \in Batch : OpenAt(bTx', bReady', batchQ', matching', preQ', parser', c)
                         \subseteq OpenAt(bTx, bReady, batchQ, matching, preQ, parser, c)
  BY <1>2 DEF OpenAt
<1>7. CounterCovers'
  BY <1>1, <1>6, CoversLess
<1> QED
  BY <1>3, <1>4, <1>5, <1>7 DEF Books

(* The RPC thread: entry and batch, call, failure, report. *)
LEMMA TypeRpc ==
    ASSUME TypeInv, RpcThread
    PROVE  TypeInv'
<1>1. CASE RpcTake
  <2> DEFINE packet == Head(rpcQ)
             h == packet.tx
  <2>1. /\ rpcQ # <<>> /\ rpcQ' = Tail(rpcQ)
        /\ UNCHANGED <<pc, todo, getDataQ, preQ, buffer, matching, parser, zc, mempool, accepted,
                       purge, offered, asked, refused, known, answered>>
    BY <1>1, Zenon DEF RpcTake, rpcRest
  <2>2. packet \in Packet /\ rpcQ' \in Seq(Packet)
    BY <2>1 DEF TypeInv, RpcTyped
  <2>3. /\ h \in Tx /\ packet.req \in Requests /\ packet.others \in SUBSET Requests
        /\ {h} \in SUBSET Tx
    BY <2>2 DEF Packet
  <2>4. ClientTyped' /\ NodeTyped' /\ ReplyTyped'
    BY <2>1, PartsSame, Zenon DEF TypeInv
  <2>5. CASE watcher[h] = "none"
    <3>1. /\ watcher' = [watcher EXCEPT ![h] = "ignored"]
          /\ extra' = [extra EXCEPT ![h] = packet.others]
          /\ InitiateZcBatch("rpc", packet.req, {h})
          /\ rpcJob' = [packet EXCEPT !.batch = Len(bTx) + 1]
          /\ rpcStep' = "call"
      BY <1>1, <2>5, Zenon DEF RpcTake
    <3>2. /\ BatchTyped' /\ Books' /\ ZcTyped' /\ Batch' = Batch \cup {Len(bTx) + 1}
          /\ bTx'[Len(bTx) + 1] = {h}
      BY <2>1, <2>3, <3>1, TypeBatch
    <3>3. WatchTyped'
      BY <2>3, <3>1 DEF TypeInv, WatchTyped
    <3>4. RpcTyped'
      <4>1. Len(bTx) + 1 \in Nat
        BY DEF TypeInv, BatchTyped
      <4>2. rpcJob' \in Packet /\ rpcJob'.batch = Len(bTx) + 1 /\ rpcJob'.tx = h
        BY <2>2, <3>1, <4>1 DEF Packet
      <4> QED
        BY <2>2, <3>1, <3>2, <4>2 DEF RpcTyped
    <3> QED
      BY <2>4, <3>2, <3>3, <3>4 DEF TypeInv
  <2>6. CASE watcher[h] # "none"
    <3>1. /\ extra' = [extra EXCEPT ![h] = @ \cup (packet.others \cup {packet.req})]
          /\ UNCHANGED <<watcher, batchVars, newZcQ, batchQ, rpcStep, rpcJob>>
      BY <1>1, <2>6, Zenon DEF RpcTake
    <3>2. WatchTyped'
      BY <2>3, <3>1 DEF TypeInv, WatchTyped
    <3>3. RpcTyped'
      <4>1. Batch' = Batch /\ bTx' = bTx /\ rpcStep' = rpcStep /\ rpcJob' = rpcJob
        BY <3>1 DEF Batch, batchVars
      <4> QED
        BY <2>2, <4>1, Zenon DEF TypeInv, RpcTyped
    <3> QED
      BY <2>1, <2>4, <3>1, <3>2, <3>3, PartsSame, Zenon DEF TypeInv, batchVars, bookVars
  <2> QED
    BY <2>5, <2>6
<1>2. CASE RpcSuccess \/ RpcFail \/ RpcReport
  <2>1. /\ UNCHANGED <<bTx, bFrom, bReq, bCount, newZcQ, batchQ, rpcQ, pc, todo, getDataQ, preQ,
                       buffer, matching, parser, zc, mempool, accepted, purge, offered, asked,
                       refused>>
        /\ rpcStep \in {"call", "failed"}
    BY <1>2, Zenon DEF RpcSuccess, RpcFail, RpcReport, RpcReportAs, rpcRest, batchVars
  <2>2. /\ rpcJob \in Packet /\ rpcJob.batch \in Batch /\ Batch' = Batch
        /\ bTx[rpcJob.batch] = {rpcJob.tx}
    BY <2>1 DEF TypeInv, RpcTyped, Batch
  <2>3. rpcJob.tx \in Tx /\ rpcJob.req \in Requests /\ rpcJob.others \in SUBSET Requests
    BY <2>2 DEF Packet
  <2>4. ClientTyped' /\ ZcTyped' /\ (bReady' = bReady => Books')
    BY <2>1, PartsSame, Zenon DEF TypeInv, bookVars
  <2>5. CASE RpcFail
    <3>1. /\ watcher' = [watcher EXCEPT ![rpcJob.tx] = "none"]
          /\ extra' = [extra EXCEPT ![rpcJob.tx] = {}]
          /\ rpcJob' = [rpcJob EXCEPT !.others = @ \cup extra[rpcJob.tx]]
          /\ rpcStep' = "failed"
          /\ UNCHANGED <<bProm, bReady, answered, known>>
      BY <2>5 DEF RpcFail, batchVars
    <3>2. WatchTyped'
      BY <2>3, <3>1 DEF TypeInv, WatchTyped
    <3>3. RpcTyped'
      <4>1. rpcJob.others \cup extra[rpcJob.tx] \in SUBSET Requests
        BY <2>3 DEF TypeInv, WatchTyped
      <4>2. rpcJob' \in Packet /\ rpcJob'.batch = rpcJob.batch /\ rpcJob'.tx = rpcJob.tx
        BY <2>2, <3>1, <4>1 DEF Packet
      <4> QED
        BY <2>1, <2>2, <3>1, <4>2 DEF TypeInv, RpcTyped
    <3>4. UNCHANGED batchVars
      BY <2>1, <3>1 DEF batchVars
    <3> QED
      BY <2>1, <2>4, <3>1, <3>2, <3>3, <3>4, PartsSame, Zenon DEF TypeInv
  <2>6. CASE RpcSuccess \/ RpcReport
    <3>1. /\ rpcStep' = "idle" /\ UNCHANGED watchVars
          /\ \E s \in {"success", "exception"} :
                bProm' = [bProm EXCEPT ![rpcJob.batch] = IF @ = "none" THEN s ELSE @]
          /\ bReady' = bReady \/ bReady' = [bReady EXCEPT ![rpcJob.batch] = {rpcJob.tx}]
          /\ known' = known \/ known' = known \cup {rpcJob.tx}
          /\ \E qs \in SUBSET ({rpcJob.req} \cup rpcJob.others) : Reply(qs)
      <4>1. CASE RpcSuccess
        <5>1. rpcJob.others \in SUBSET ({rpcJob.req} \cup rpcJob.others)
          OBVIOUS
        <5> QED
          BY <4>1, <5>1 DEF RpcSuccess
      <4>2. CASE RpcReport
        BY <4>2 DEF RpcReport, RpcReportAs
      <4> QED
        BY <2>6, <4>1, <4>2
    <3>2. bReady' \in [Batch -> SUBSET Tx]
      <4>1. bReady \in [Batch -> SUBSET Tx] /\ {rpcJob.tx} \in SUBSET Tx
        BY <2>3 DEF TypeInv, BatchTyped
      <4> QED
        BY <2>2, <3>1, <4>1
    <3>7. Books'
      <4>1. CASE bReady' = bReady
        BY <2>4, <4>1
      <4>2. CASE bReady' = [bReady EXCEPT ![rpcJob.batch] = {rpcJob.tx}]
        BY <2>1, <2>2, <4>2, BooksBody DEF TypeInv
      <4> QED
        BY <3>1, <4>1, <4>2
    <3>3. BatchTyped'
      <4>1. PICK s \in Outcomes : bProm' = [bProm EXCEPT ![rpcJob.batch] = IF @ = "none" THEN s ELSE @]
        BY <3>1 DEF Outcomes
      <4>2. BatchTyped /\ UNCHANGED <<bTx, bFrom, bReq, bCount>>
        BY <2>1 DEF TypeInv
      <4> QED
        BY <2>2, <3>2, <4>1, <4>2, PromiseTyped, Zenon
    <3>4. RpcTyped'
      BY <2>1, <3>1 DEF TypeInv, RpcTyped
    <3>5. NodeTyped'
      BY <2>1, <2>3, <3>1 DEF TypeInv, NodeTyped
    <3>6. ReplyTyped'
      <4>1. PICK qs \in SUBSET ({rpcJob.req} \cup rpcJob.others) : Reply(qs)
        BY <3>1
      <4>2. {<<q, rpcJob.tx>> : q \in qs} \subseteq Requests \X Tx
        BY <2>3
      <4> QED
        BY <2>1, <4>1, <4>2 DEF TypeInv, ReplyTyped, Reply
    <3> QED
      BY <2>4, <3>1, <3>3, <3>4, <3>5, <3>6, <3>7, PartsSame, Zenon DEF TypeInv
  <2> QED
    BY <1>2, <2>5, <2>6
<1> QED
  BY <1>1, <1>2 DEF RpcThread

(* The typing and the books are inductive. *)
LEMMA TypeNext == TypeInv /\ [Next]_vars => TypeInv'
<1> SUFFICES ASSUME TypeInv, [Next]_vars PROVE TypeInv'
  OBVIOUS
<1>1. ASSUME NEW r \in Requests, BroadcastZC(r) PROVE TypeInv'
  <2>1. Unwatched(r) \in SUBSET Tx /\ {r} \in SUBSET Requests
    BY ZcBatchAssumption DEF Unwatched
  <2> QED
    BY <1>1, <2>1, TypeRegister DEF BroadcastZC
<1>2. ASSUME NEW r \in Requests, BroadcastBatch(r) PROVE TypeInv'
  BY <1>2, TypeBroadcastBatch
<1>3. CASE ZcThread
  BY <1>3, TypeZcTake, TypeZcParse, TypeCollect, Zenon DEF ZcThread
<1>4. CASE UNCHANGED vars
  BY <1>4, PartsSame, Zenon
  DEF TypeInv, vars, batchVars, queueVars, watchVars, replyVars, nodeVars, bookVars
<1>5. ASSUME NEW p \in Parsers, Parser(p) PROVE TypeInv'
  BY <1>5, TypeParser
<1> QED
  BY <1>1, <1>2, <1>3, <1>4, <1>5, TypeInvFlush, TypeMatcher, TypeRpc, TypeNode, TypeZcTake, Zenon
  DEF Next

(* TypeOK holds in every state, whatever clients, node and parsers do: the
   counter of a batch is never taken below zero (incrementCounter), since a
   body is matched to a batch at most once. *)
THEOREM ZcTypes == Spec => []TypeOK
<1>1. TypeInv => TypeOK
  <2> SUFFICES ASSUME TypeInv PROVE TypeOK
    OBVIOUS
  <2>1. Batch = 1..Len(bTx) /\ Len(bTx) \in Nat
    BY DEF TypeInv, BatchTyped, Batch
  <2>2. matching \in [Tx -> 0..Len(bTx)]
    <3>1. Batch \cup {0} \subseteq 0..Len(bTx)
      BY <2>1
    <3> QED
      BY <3>1 DEF TypeInv, Books, MatchTyped
  <2>3. zc.step \in {"idle", "collect", "parse"} /\ zc.keep \in SUBSET Tx
    BY DEF TypeInv, ZcTyped, ZcRecord
  <2> QED
    BY <2>2, <2>3, Zenon
    DEF TypeInv, BatchTyped, ClientTyped, WatchTyped, RpcTyped, ReplyTyped, Outcomes, Batch, TypeOK
<1> QED
  BY <1>1, TypeInit, TypeNext, PTL DEF Spec

-----------------------------------------------------------------------------
(* Who owns the watcher entries *)

(* The batch that is about to take its entries, and the batches that will. *)
Collecting == IF zc.step = "collect" THEN {zc.batch} ELSE {}
Pend == {b \in Batch : In(newZcQ, b) \/ b \in Collecting}

(* Transactions on their way to the RPC thread, in its hands, and those it ever
   got; the ones the node has, or has announced to the watcher. *)
RpcWait == {h \in Tx : \E i \in DOMAIN rpcQ : rpcQ[i].tx = h}
Calling == {h \in Tx : h \in RpcWait \/ (rpcStep # "idle" /\ rpcJob.tx = h)}
Issued == {h \in Tx : h \in RpcWait \/ \E b \in Batch : bFrom[b] = "rpc" /\ h \in bTx[b]}
Told == {h \in Tx : <<"watcher", h>> \in told}
Seen == known \cup Told

(* Transactions whose entry a client has made and its batch will take. *)
Owned == {h \in Tx : \/ \E r \in Requests : h \in todo[r]
                     \/ \E b \in Pend : bFrom[b] = "client" /\ h \in bTx[b]}

(* The zc thread takes a batch once. *)
QueueOnce ==
    /\ \A i, j \in DOMAIN newZcQ : newZcQ[i] = newZcQ[j] /\ newZcQ[i] # 0 => i = j
    /\ zc.step # "idle" => ~In(newZcQ, zc.batch)

(* A transaction is in one request's hands, in no batch yet ... *)
TodoOnce ==
    /\ \A r \in Requests : todo[r] \subseteq Wants[r] /\ (pc[r] # "registered" => todo[r] = {})
    /\ \A r, q \in Requests : \A h \in todo[r] : h \in todo[q] => r = q
    /\ \A r \in Requests : \A h \in todo[r] : \A b \in Batch : bFrom[b] # "inv" => h \notin bTx[b]

(* ... then in one batch of a client, which the network knows nothing of ... *)
ClientOnce ==
    /\ \A b, c \in Batch : \A h \in bTx[b] :
          bFrom[b] = "client" /\ bFrom[c] = "client" /\ h \in bTx[c] => b = c
    /\ \A b \in Batch : \A h \in bTx[b] : bFrom[b] = "client" => h \notin NetTx

(* ... and sent through RPC once, after that batch is done with it. *)
RpcOnce ==
    /\ \A b, c \in Batch : \A h \in bTx[b] :
          bFrom[b] = "rpc" /\ bFrom[c] = "rpc" /\ h \in bTx[c] => b = c
    /\ \A b \in Batch : \A h \in bTx[b] : bFrom[b] = "rpc" => h \notin RpcWait
    /\ \A i, j \in DOMAIN rpcQ : rpcQ[i].tx = rpcQ[j].tx => i = j
    /\ \A h \in Issued : \E b \in Batch : bFrom[b] = "client" /\ h \in bTx[b] /\ b \notin Pend

(* Entries of clients are exactly those that are owned. *)
EntryOwned == \A h \in Tx : watcher[h] \in {"watched", "inved"} <=> h \in Owned

(* The entry of an RPC batch is there until the call fails, and a failed one
   is not collected. *)
RpcEntry ==
    /\ \A b \in Pend : \A h \in bTx[b] \ Rejectable : bFrom[b] = "rpc" =>
          \/ watcher[h] # "none"
          \/ rpcStep = "failed" /\ rpcJob.batch = b
          \/ bProm[b] = "exception"
    /\ \A b \in Collecting : bFrom[b] = "rpc" => bProm[b] \notin {"none", "exception"}
    /\ \A b \in Batch : bProm[b] = "exception" => bFrom[b] = "rpc"

(* What is going through RPC nobody has seen yet. *)
CallsFirst ==
    /\ \A h \in Calling : h \notin Seen
    /\ \A h \in known : h \in NetTx \/ h \in Issued
    /\ \A h \in Told : /\ h \notin Issued
                       /\ h \in Owned => watcher[h] = "inved"
                       /\ h \in Owned \/ \E b \in Batch : bFrom[b] = "client" /\ h \in bTx[b]
    /\ rpcStep # "idle" =>
          /\ bFrom[rpcJob.batch] = "rpc" /\ bTx[rpcJob.batch] = {rpcJob.tx}
          /\ rpcJob.tx \notin Rejectable => bProm[rpcJob.batch] = "none"

(* Where the bodies of transactions come from. *)
Bodies ==
    /\ buffer \subseteq known /\ asked \subseteq known
    /\ \A i \in DOMAIN getDataQ :
          IF getDataQ[i].kind = "payload" THEN getDataQ[i].tx \in Seen
                                          ELSE getDataQ[i].tx \in Rejectable
    /\ \A i \in DOMAIN preQ : preQ[i].tx \in Seen
    /\ \A p \in Parsers : parser[p].step # "idle" => parser[p].job.tx \in Seen

Core == TodoOnce /\ ClientOnce /\ RpcOnce /\ EntryOwned /\ RpcEntry /\ CallsFirst

OwnInv == QueueOnce /\ Core /\ Bodies

(* Clients broadcast what no batch has had and the network does not know. *)
FirstBroadcasts == ~Rebroadcasts /\ \A r \in Requests : Wants[r] \cap NetTx = {}

coreVars == <<bTx, bFrom, bProm, pc, todo, watcher, rpcQ, rpcStep, rpcJob, known, Pend, Told,
              Collecting>>

(* Ownership depends on nothing else than coreVars. *)
LEMMA CoreSame ==
    ASSUME Core, UNCHANGED coreVars
    PROVE  Core'
<1>1. /\ bTx' = bTx /\ bFrom' = bFrom /\ bProm' = bProm /\ pc' = pc /\ todo' = todo
      /\ watcher' = watcher /\ rpcQ' = rpcQ /\ rpcStep' = rpcStep /\ rpcJob' = rpcJob
      /\ known' = known /\ Pend' = Pend /\ Told' = Told /\ Collecting' = Collecting
  BY DEF coreVars
<1>2. Batch' = Batch /\ RpcWait' = RpcWait
  BY <1>1, Zenon DEF Batch, RpcWait
<1>3. Calling' = Calling /\ Issued' = Issued /\ Seen' = Seen /\ Owned' = Owned
  BY <1>1, <1>2, Zenon DEF Calling, Issued, Seen, Owned
<1>4. TodoOnce' /\ ClientOnce'
  BY <1>1, <1>2, Zenon DEF Core, TodoOnce, ClientOnce
<1>5. RpcOnce'
  BY <1>1, <1>2, <1>3, Zenon DEF Core, RpcOnce
<1>6. EntryOwned' /\ RpcEntry'
  <2>1. EntryOwned'
    BY <1>1, <1>3, Zenon DEF Core, EntryOwned
  <2>2. RpcEntry'
    BY <1>1, <1>2 DEF Core, RpcEntry
  <2> QED
    BY <2>1, <2>2
<1>7. CallsFirst'
  BY <1>1, <1>2, <1>3, Zenon DEF Core, CallsFirst
<1> QED
  BY <1>4, <1>5, <1>6, <1>7 DEF Core

(* Bodies stay known, the node forgets nothing. *)
LEMMA BodiesSame ==
    ASSUME Bodies, UNCHANGED <<buffer, asked, getDataQ, preQ, parser>>,
           known \subseteq known', Told \subseteq Told'
    PROVE  Bodies'
<1>1. Seen \subseteq Seen'
  BY DEF Seen
<1> QED
  BY <1>1, Zenon DEF Bodies

(* What went to RPC is nobody's entry of a client any more. *)
LEMMA IssuedNotOwned ==
    ASSUME Core
    PROVE  \A h \in Issued : h \notin Owned
<1> SUFFICES ASSUME NEW h \in Issued, h \in Owned PROVE FALSE
  OBVIOUS
<1>1. PICK b \in Batch : bFrom[b] = "client" /\ h \in bTx[b] /\ b \notin Pend
  BY DEF Core, RpcOnce
<1>2. CASE \E r \in Requests : h \in todo[r]
  BY <1>1, <1>2 DEF Core, TodoOnce
<1>3. CASE \E c \in Pend : bFrom[c] = "client" /\ h \in bTx[c]
  <2>1. PICK c \in Pend : bFrom[c] = "client" /\ h \in bTx[c]
    BY <1>3
  <2>2. c \in Batch /\ c # b
    BY <1>1, <2>1 DEF Pend
  <2> QED
    BY <1>1, <2>1, <2>2, Zenon DEF Core, ClientOnce
<1> QED
  BY <1>2, <1>3 DEF Owned

(* Nothing is owned at the start, the node knows what the network has. *)
LEMMA OwnInit ==
    ASSUME Init, FirstBroadcasts
    PROVE  OwnInv
<1>1. /\ bTx = <<>> /\ newZcQ = <<>> /\ getDataQ = <<>> /\ preQ = <<>> /\ rpcQ = <<>>
      /\ buffer = {} /\ asked = {} /\ told = {} /\ known = NetTx /\ rpcStep = "idle"
      /\ zc = ZcIdle /\ todo = [r \in Requests |-> {}] /\ watcher = [h \in Tx |-> "none"]
      /\ pc = [r \in Requests |-> "idle"]
      /\ parser = [p \in Parsers |-> [step |-> "idle", job |-> NoJob]]
  BY DEF Init
<1>2. zc.step = "idle" /\ \A p \in Parsers : parser[p].step = "idle"
  BY <1>1 DEF ZcIdle
<1>3. Batch = {} /\ Pend = {} /\ Collecting = {}
  BY <1>1, <1>2 DEF Batch, Pend, Collecting
<1>4. RpcWait = {} /\ Calling = {} /\ Issued = {} /\ Told = {} /\ Owned = {}
  <2>1. RpcWait = {} /\ Told = {}
    BY <1>1 DEF RpcWait, Told
  <2> QED
    BY <1>1, <1>3, <2>1 DEF Calling, Issued, Owned
<1>5. QueueOnce
  BY <1>1, <1>2 DEF QueueOnce
<1>6. TodoOnce /\ ClientOnce /\ RpcOnce
  BY <1>1, <1>3, <1>4 DEF TodoOnce, ClientOnce, RpcOnce
<1>7. EntryOwned /\ RpcEntry /\ CallsFirst
  BY <1>1, <1>3, <1>4 DEF EntryOwned, RpcEntry, CallsFirst
<1>8. Bodies
  BY <1>1, <1>2 DEF Bodies
<1> QED
  BY <1>5, <1>6, <1>7, <1>8 DEF OwnInv, Core

(* Entries are made: BroadcastZC. *)
LEMMA OwnBroadcastZC ==
    ASSUME TypeInv, OwnInv, FirstBroadcasts, NEW r \in Requests, BroadcastZC(r)
    PROVE  OwnInv'
<1> DEFINE U == Unwatched(r)
<1>1. /\ pc[r] = "idle" /\ \A b \in Batch : bTx[b] \cap U = {}
      /\ todo' = [todo EXCEPT ![r] = U]
      /\ pc' = [pc EXCEPT ![r] = IF U = {} THEN "done" ELSE "registered"]
      /\ watcher' = [h \in Tx |-> IF h \in Wants[r] /\ watcher[h] = "none"
                                  THEN "watched" ELSE watcher[h]]
      /\ UNCHANGED <<batchVars, queueVars, buffer, parser, zc, rpcStep, rpcJob, nodeVars>>
  BY DEF BroadcastZC, Register, FirstBroadcasts, Batch
<1>2. U = {h \in Wants[r] : watcher[h] = "none"} /\ U \subseteq Tx /\ U \subseteq Wants[r]
  BY ZcBatchAssumption DEF Unwatched
<1> HIDE DEF U
<1>3. /\ \A h \in Tx : h \in U => watcher[h] = "none" /\ watcher'[h] = "watched"
      /\ \A h \in Tx : h \notin U => watcher'[h] = watcher[h]
      /\ \A h \in Tx : watcher'[h] = "none" => watcher[h] = "none"
  BY <1>1, <1>2
<1>4. /\ pc \in [Requests -> {"idle", "registered", "done"}] /\ todo \in [Requests -> SUBSET Tx]
  BY DEF TypeInv, ClientTyped
<1>5. /\ todo'[r] = U /\ todo[r] = {} /\ (pc'[r] # "registered" => U = {})
      /\ \A q \in Requests : q # r => todo'[q] = todo[q] /\ pc'[q] = pc[q]
  <2>1. todo[r] = {}
    BY <1>1 DEF OwnInv, Core, TodoOnce
  <2> QED
    BY <1>1, <1>4, <2>1
<1>6. /\ bTx' = bTx /\ bFrom' = bFrom /\ bProm' = bProm /\ rpcQ' = rpcQ /\ rpcStep' = rpcStep
      /\ rpcJob' = rpcJob /\ known' = known /\ told' = told /\ newZcQ' = newZcQ /\ zc' = zc
      /\ UNCHANGED <<buffer, asked, getDataQ, preQ, parser>>
  BY <1>1 DEF batchVars, queueVars, nodeVars
<1>7. /\ Batch' = Batch /\ RpcWait' = RpcWait /\ Told' = Told /\ Collecting' = Collecting
      /\ Pend' = Pend
  BY <1>6, Zenon DEF Batch, RpcWait, Told, Collecting, Pend, In
<1>8. Issued' = Issued /\ Calling' = Calling /\ Seen' = Seen
  BY <1>6, <1>7, Zenon DEF Issued, Calling, Seen
<1>9. \A h \in Tx : h \in Owned' <=> h \in Owned \/ h \in U
  <2>1. \A h : (\E q \in Requests : h \in todo'[q]) <=> (\E q \in Requests : h \in todo[q]) \/ h \in U
    BY <1>5
  <2> QED
    BY <1>6, <1>7, <2>1, Zenon DEF Owned
<1>10. \A h \in U : h \notin Owned
  BY <1>2, <1>3 DEF OwnInv, Core, EntryOwned
<1>11. TodoOnce'
  <2>1. \A q \in Requests : \A h \in todo[q] : h \notin U
    BY <1>4, <1>10 DEF Owned
  <2>2. TodoOnce
    BY DEF OwnInv, Core
  <2>3. \A q \in Requests : todo'[q] \subseteq Wants[q] /\ (pc'[q] # "registered" => todo'[q] = {})
    BY <1>2, <1>5, <2>2 DEF TodoOnce
  <2>4. \A q, o \in Requests : \A h \in todo'[q] : h \in todo'[o] => q = o
    BY <1>5, <2>1, <2>2 DEF TodoOnce
  <2>5. \A q \in Requests : \A h \in todo'[q] : \A b \in Batch : bFrom[b] # "inv" => h \notin bTx[b]
    BY <1>1, <1>5, <2>2 DEF TodoOnce
  <2> QED
    BY <1>6, <1>7, <2>3, <2>4, <2>5, Zenon DEF TodoOnce
<1>12. ClientOnce' /\ RpcOnce'
  BY <1>6, <1>7, <1>8, Zenon DEF OwnInv, Core, ClientOnce, RpcOnce
<1>13. EntryOwned'
  BY <1>3, <1>9 DEF OwnInv, Core, EntryOwned
<1>14. RpcEntry'
  <2>1. \A b \in Pend : \A h \in bTx[b] : h \in Tx
    BY DEF Pend, TypeInv, BatchTyped, Batch
  <2> QED
    BY <1>3, <1>6, <1>7, <2>1 DEF OwnInv, Core, RpcEntry
<1>15. CallsFirst'
  <2>1. \A h \in Told : /\ h \notin Issued /\ h \in Tx
                        /\ h \in Owned => watcher[h] = "inved"
                        /\ h \in Owned \/ \E b \in Batch : bFrom[b] = "client" /\ h \in bTx[b]
    BY DEF OwnInv, Core, CallsFirst, Told
  <2>2. \A h \in Told : h \notin U
    BY <1>1, <1>10, <2>1
  <2>3. \A h \in Told : /\ h \notin Issued
                        /\ h \in Owned' => watcher'[h] = "inved"
                        /\ h \in Owned' \/ \E b \in Batch : bFrom[b] = "client" /\ h \in bTx[b]
    BY <1>3, <1>9, <2>1, <2>2, Zenon
  <2> QED
    BY <1>6, <1>7, <1>8, <2>3, Zenon DEF OwnInv, Core, CallsFirst
<1>16. QueueOnce'
  BY <1>6, Zenon DEF OwnInv, QueueOnce, In
<1>17. Bodies'
  BY <1>6, <1>7, BodiesSame, Zenon DEF OwnInv
<1> QED
  BY <1>11, <1>12, <1>13, <1>14, <1>15, <1>16, <1>17 DEF OwnInv, Core

(* What InitiateZcBatch does to the batches and to who will take entries. *)
Grown(n, from, hashes) ==
    /\ n \notin Batch /\ Batch' = Batch \cup {n}
    /\ \A b \in Batch : /\ bTx'[b] = bTx[b] /\ bFrom'[b] = bFrom[b]
                         /\ bProm'[b] = bProm[b] /\ b # n
    /\ bTx'[n] = hashes /\ bFrom'[n] = from /\ bProm'[n] = "none"
    /\ Pend' = Pend \cup {n} /\ Collecting' = Collecting
    /\ \A b \in Collecting : b \in Batch
    /\ QueueOnce'

(* initiateZcBatch, seen by the owners of entries. *)
LEMMA NewBatchOwns ==
    ASSUME TypeInv, QueueOnce, NEW from \in {"client", "inv", "rpc"},
           NEW req \in Requests \cup {None}, from # "inv" => req \in Requests,
           NEW hashes \in SUBSET Tx, InitiateZcBatch(from, req, hashes), zc' = zc
    PROVE  Grown(Len(bTx) + 1, from, hashes)
<1> DEFINE n == Len(bTx) + 1
<1>1. BatchTyped /\ ZcTyped
  BY DEF TypeInv
<1>2. Cardinality(hashes) \in Nat /\ NewBatch(from, req, hashes, Cardinality(hashes))
  BY ZcBatchAssumption, FS_Subset, FS_CardinalityType DEF InitiateZcBatch
<1>3. /\ n \notin Batch /\ Batch' = Batch \cup {n} /\ n # 0
      /\ \A b \in Batch : bTx'[b] = bTx[b] /\ bFrom'[b] = bFrom[b] /\ bProm'[b] = bProm[b]
      /\ bTx'[n] = hashes /\ bFrom'[n] = from /\ bProm'[n] = "none"
  BY <1>1, <1>2, NewBatchTyped, Zenon
<1>4. newZcQ' = Append(newZcQ, n) /\ newZcQ \in Seq(Batch \cup {0})
  BY <1>1, <1>2 DEF NewBatch, ZcTyped
<1> HIDE DEF n
<1>5. newZcQ \in Seq(Batch' \cup {0}) /\ n \in Batch' \cup {0}
  BY <1>3, <1>4
<1>6. /\ DOMAIN newZcQ' = DOMAIN newZcQ \cup {Len(newZcQ) + 1} /\ Len(newZcQ) + 1 \notin DOMAIN newZcQ
      /\ \A i \in DOMAIN newZcQ : newZcQ'[i] = newZcQ[i]
      /\ newZcQ'[Len(newZcQ) + 1] = n
      /\ \A y : In(newZcQ', y) <=> In(newZcQ, y) \/ y = n
  BY <1>4, <1>5, AppendIn
<1>7. \A y : In(newZcQ, y) => y \in Batch \cup {0}
  BY <1>4 DEF In
<1>8. (\A b \in Collecting : b \in Batch) /\ (zc.step # "idle" => zc.batch \in Batch)
  BY <1>1 DEF Collecting, ZcTyped
<1>9. Collecting' = Collecting
  BY Zenon DEF Collecting
<1>10. Pend' = Pend \cup {n}
  BY <1>3, <1>6, <1>8, <1>9 DEF Pend
<1>11. QueueOnce'
  <2>1. \A i \in DOMAIN newZcQ : newZcQ[i] # n
    BY <1>3, <1>7, Zenon DEF In
  <2>2. \A i, j \in DOMAIN newZcQ' : newZcQ'[i] = newZcQ'[j] /\ newZcQ'[i] # 0 => i = j
    BY <1>6, <2>1 DEF QueueOnce
  <2>3. zc'.step # "idle" => ~In(newZcQ', zc'.batch)
    BY <1>3, <1>6, <1>8, Zenon DEF QueueOnce
  <2> QED
    BY <2>2, <2>3 DEF QueueOnce
<1>12. \A b \in Batch : b # n
  BY <1>3
<1> QED
  BY <1>3, <1>8, <1>9, <1>10, <1>11, <1>12, Zenon DEF n, Grown

(* A batch that does not go through RPC, made of what has an owner or needs
   none, leaves the rest of the invariant alone. *)
LEMMA GrownKeeps ==
    ASSUME TypeInv, OwnInv, NEW n, NEW from \in {"client", "inv"}, NEW hashes,
           Grown(n, from, hashes), \A h \in Tx : h \in Owned' <=> h \in Owned,
           UNCHANGED <<watcher, rpcQ, rpcStep, rpcJob, known, told>>
    PROVE  RpcOnce' /\ EntryOwned' /\ RpcEntry' /\ CallsFirst' /\ Told' = Told /\ Seen' = Seen
<1>1. /\ watcher' = watcher /\ rpcQ' = rpcQ /\ rpcStep' = rpcStep
      /\ rpcJob' = rpcJob /\ known' = known /\ told' = told
  OBVIOUS
<1>3. QueueOnce /\ Core /\ Bodies
  BY DEF OwnInv
<1>4. /\ n \notin Batch /\ Batch' = Batch \cup {n}
      /\ \A b \in Batch : /\ bTx'[b] = bTx[b] /\ bFrom'[b] = bFrom[b]
                           /\ bProm'[b] = bProm[b] /\ b # n
      /\ bFrom'[n] # "rpc" /\ bProm'[n] = "none"
      /\ Pend' = Pend \cup {n} /\ Collecting' = Collecting
      /\ \A b \in Collecting : b \in Batch
  BY DEF Grown
<1>6. RpcWait' = RpcWait /\ Told' = Told /\ Pend \subseteq Batch
  BY <1>1, Zenon DEF RpcWait, Told, Pend
<1>7. Issued' = Issued
  BY <1>4, <1>6 DEF Issued
<1>8. Calling' = Calling /\ Seen' = Seen
  BY <1>1, <1>6, Zenon DEF Calling, Seen
<1>12. RpcOnce'
  <2>1. RpcOnce
    BY <1>3 DEF Core
  <2>2. \A b, c \in Batch' : \A h \in bTx'[b] :
          bFrom'[b] = "rpc" /\ bFrom'[c] = "rpc" /\ h \in bTx'[c] => b = c
    BY <1>4, <2>1 DEF RpcOnce
  <2>3. \A b \in Batch' : \A h \in bTx'[b] : bFrom'[b] = "rpc" => h \notin RpcWait'
    BY <1>4, <1>6, <2>1 DEF RpcOnce
  <2>4. \A h \in Issued : \E b \in Batch' : bFrom'[b] = "client" /\ h \in bTx'[b] /\ b \notin Pend'
    BY <1>4, <2>1 DEF RpcOnce
  <2> QED
    BY <1>1, <1>7, <2>1, <2>2, <2>3, <2>4, Zenon DEF RpcOnce
<1>13. EntryOwned'
  BY <1>1, <1>3, Zenon DEF Core, EntryOwned
<1>14. RpcEntry'
  <2>1. RpcEntry
    BY <1>3 DEF Core
  <2> QED
    BY <1>1, <1>4, <1>6, <2>1 DEF RpcEntry
<1>15. CallsFirst'
  <2>1. CallsFirst
    BY <1>3 DEF Core
  <2>2. \A h \in Told : h \in Tx
    BY DEF Told
  <2>3. \A h \in Told : /\ h \notin Issued
                        /\ h \in Owned' => watcher[h] = "inved"
                        /\ h \in Owned' \/ \E b \in Batch' : bFrom'[b] = "client" /\ h \in bTx'[b]
    BY <1>4, <2>1, <2>2 DEF CallsFirst
  <2>4. rpcStep # "idle" =>
          /\ bFrom'[rpcJob.batch] = "rpc" /\ bTx'[rpcJob.batch] = {rpcJob.tx}
          /\ rpcJob.tx \notin Rejectable => bProm'[rpcJob.batch] = "none"
    BY <1>4, <2>1 DEF CallsFirst, TypeInv, RpcTyped
  <2> QED
    BY <1>1, <1>6, <1>7, <1>8, <2>1, <2>3, <2>4, Zenon DEF CallsFirst
<1> QED
  BY <1>6, <1>8, <1>12, <1>13, <1>14, <1>15

(* A request's transactions become its batch's. *)
LEMMA OwnBroadcastBatch ==
    ASSUME TypeInv, OwnInv, FirstBroadcasts, NEW r \in Requests, BroadcastBatch(r)
    PROVE  OwnInv'
<1>1. /\ InitiateZcBatch("client", r, todo[r]) /\ pc[r] = "registered"
      /\ pc' = [pc EXCEPT ![r] = "done"] /\ todo' = [todo EXCEPT ![r] = {}]
      /\ watcher' = watcher /\ rpcQ' = rpcQ /\ rpcStep' = rpcStep
      /\ rpcJob' = rpcJob /\ known' = known /\ told' = told /\ zc' = zc
      /\ UNCHANGED <<buffer, asked, getDataQ, preQ, parser>>
  BY DEF BroadcastBatch, watchVars
<1>2. /\ pc \in [Requests -> {"idle", "registered", "done"}] /\ todo \in [Requests -> SUBSET Tx]
      /\ todo[r] \in SUBSET Tx /\ r \in Requests \cup {None} /\ "client" \in {"client", "inv", "rpc"}
  BY DEF TypeInv, ClientTyped
<1>3. QueueOnce /\ Core /\ Bodies
  BY DEF OwnInv
<1>g. PICK n : Grown(n, "client", todo[r])
  BY <1>1, <1>2, <1>3, NewBatchOwns, Zenon
<1>4. /\ n \notin Batch /\ Batch' = Batch \cup {n}
      /\ \A b \in Batch : bTx'[b] = bTx[b] /\ bFrom'[b] = bFrom[b] /\ b # n
      /\ bTx'[n] = todo[r] /\ bFrom'[n] = "client"
      /\ Pend' = Pend \cup {n} /\ Pend \subseteq Batch /\ QueueOnce'
  BY <1>g DEF Grown, Pend
<1>5. /\ todo'[r] = {} /\ pc'[r] = "done"
      /\ \A q \in Requests : q # r => todo'[q] = todo[q] /\ pc'[q] = pc[q]
  BY <1>1, <1>2
<1>9. \A h \in Tx : h \in Owned' <=> h \in Owned
  BY <1>2, <1>4, <1>5 DEF Owned
<1>10. TodoOnce'
  <2>1. TodoOnce
    BY <1>3 DEF Core
  <2>2. \A q \in Requests : todo'[q] \subseteq Wants[q] /\ (pc'[q] # "registered" => todo'[q] = {})
    BY <1>5, <2>1 DEF TodoOnce
  <2>3. \A q, o \in Requests : \A h \in todo'[q] : h \in todo'[o] => q = o
    BY <1>5, <2>1 DEF TodoOnce
  <2>4. \A q \in Requests : \A h \in todo'[q] : \A b \in Batch' : bFrom'[b] # "inv" => h \notin bTx'[b]
    BY <1>4, <1>5, <2>1 DEF TodoOnce
  <2> QED
    BY <2>2, <2>3, <2>4, Zenon DEF TodoOnce
<1>11. ClientOnce'
  <2>1. \A h \in todo[r] : \A b \in Batch : bFrom[b] = "client" => h \notin bTx[b]
    BY <1>3 DEF Core, TodoOnce
  <2>2. \A h \in todo[r] : h \notin NetTx
    BY <1>3 DEF Core, TodoOnce, FirstBroadcasts
  <2>3. ClientOnce
    BY <1>3 DEF Core
  <2>4. \A b, c \in Batch' : \A h \in bTx'[b] :
          bFrom'[b] = "client" /\ bFrom'[c] = "client" /\ h \in bTx'[c] => b = c
    BY <1>4, <2>1, <2>3 DEF ClientOnce
  <2>5. \A b \in Batch' : \A h \in bTx'[b] : bFrom'[b] = "client" => h \notin NetTx
    BY <1>4, <2>2, <2>3 DEF ClientOnce
  <2> QED
    BY <2>4, <2>5, Zenon DEF ClientOnce
<1>12. RpcOnce' /\ EntryOwned' /\ RpcEntry' /\ CallsFirst' /\ Told' = Told /\ Seen' = Seen
  BY <1>1, <1>9, <1>g, GrownKeeps, Zenon
<1>16. Bodies'
  BY <1>1, <1>3, <1>12, BodiesSame, Zenon
<1> QED
  BY <1>4, <1>10, <1>11, <1>12, <1>16 DEF OwnInv, Core

(* An inventory batch owns no entry. *)
LEMMA OwnInvFlush ==
    ASSUME TypeInv, OwnInv, InvFlush
    PROVE  OwnInv'
<1>1. /\ InitiateZcBatch("inv", None, buffer) /\ buffer' = {} /\ asked' = asked \cup buffer
      /\ watcher' = watcher /\ rpcQ' = rpcQ /\ rpcStep' = rpcStep /\ pc' = pc /\ todo' = todo
      /\ rpcJob' = rpcJob /\ known' = known /\ told' = told /\ zc' = zc
      /\ UNCHANGED <<getDataQ, preQ, parser>>
  BY DEF InvFlush, RequestTxFromNode, watchVars
<1>2. buffer \in SUBSET Tx
  BY DEF TypeInv, NodeTyped
<1>3. QueueOnce /\ Core /\ Bodies
  BY DEF OwnInv
<1>g. PICK n : Grown(n, "inv", buffer)
  BY <1>1, <1>2, <1>3, NewBatchOwns, Zenon
<1>4. /\ n \notin Batch /\ Batch' = Batch \cup {n}
      /\ \A b \in Batch : bTx'[b] = bTx[b] /\ bFrom'[b] = bFrom[b] /\ b # n
      /\ bTx'[n] = buffer /\ bFrom'[n] = "inv"
      /\ Pend' = Pend \cup {n} /\ Pend \subseteq Batch /\ QueueOnce'
  BY <1>g DEF Grown, Pend
<1>9. \A h \in Tx : h \in Owned' <=> h \in Owned
  BY <1>1, <1>4 DEF Owned
<1>10. TodoOnce'
  BY <1>1, <1>3, <1>4 DEF Core, TodoOnce
<1>11. ClientOnce'
  BY <1>3, <1>4 DEF Core, ClientOnce
<1>12. RpcOnce' /\ EntryOwned' /\ RpcEntry' /\ CallsFirst' /\ Told' = Told /\ Seen' = Seen
  BY <1>1, <1>9, <1>g, GrownKeeps, Zenon
<1>16. Bodies'
  <2>1. buffer' \subseteq known' /\ asked' \subseteq known'
    BY <1>1, <1>3 DEF Bodies
  <2> QED
    BY <1>1, <1>3, <1>12, <2>1, Zenon DEF Bodies
<1> QED
  BY <1>4, <1>10, <1>11, <1>12, <1>16 DEF OwnInv, Core

(* A packet of the node, for a transaction seen or refused. *)
LEMMA PostBodies ==
    ASSUME TypeInv, Bodies, NEW h \in Tx, NEW k \in {"payload", "reject"},
           getDataQ' = Append(getDataQ, [kind |-> k, tx |-> h]),
           IF k = "payload" THEN h \in Seen' ELSE h \in Rejectable,
           Seen \subseteq Seen', known' = known, UNCHANGED <<buffer, preQ, parser>>,
           asked' \subseteq asked
    PROVE  Bodies'
<1> DEFINE m == [kind |-> k, tx |-> h]
<1>1. m \in NodeReply /\ m.kind = k /\ m.tx = h /\ getDataQ \in Seq(NodeReply)
  BY DEF NodeReply, TypeInv, NodeTyped
<1> HIDE DEF m
<1>2. getDataQ' = Append(getDataQ, m)
  BY DEF m
<1>3. /\ DOMAIN getDataQ' = DOMAIN getDataQ \cup {Len(getDataQ) + 1}
      /\ \A i \in DOMAIN getDataQ : getDataQ'[i] = getDataQ[i]
      /\ getDataQ'[Len(getDataQ) + 1] = m
  BY <1>1, <1>2, AppendIn
<1>4. \A i \in DOMAIN getDataQ :
         IF getDataQ[i].kind = "payload" THEN getDataQ[i].tx \in Seen' ELSE getDataQ[i].tx \in Rejectable
  BY DEF Bodies
<1>5. \A i \in DOMAIN getDataQ' :
         IF getDataQ'[i].kind = "payload" THEN getDataQ'[i].tx \in Seen'
                                          ELSE getDataQ'[i].tx \in Rejectable
  BY <1>1, <1>3, <1>4
<1>6. buffer' \subseteq known' /\ asked' \subseteq known'
  BY DEF Bodies
<1> QED
  BY <1>5, <1>6, Zenon DEF Bodies

(* The watcher announces what a client's batch still owns. *)
LEMMA OwnInvWatcher ==
    ASSUME TypeInv, OwnInv, NEW h \in Tx, InvWatcher(h)
    PROVE  OwnInv'
<1>1. /\ told' = told \cup {<<"watcher", h>>} /\ watcher[h] = "watched"
      /\ watcher' = [watcher EXCEPT ![h] = "inved"]
      /\ getDataQ' = Append(getDataQ, [kind |-> "payload", tx |-> h])
      /\ bTx' = bTx /\ bFrom' = bFrom /\ bProm' = bProm /\ pc' = pc /\ todo' = todo
      /\ rpcQ' = rpcQ /\ rpcStep' = rpcStep /\ rpcJob' = rpcJob /\ known' = known
      /\ newZcQ' = newZcQ /\ zc' = zc
      /\ UNCHANGED <<buffer, asked, preQ, parser>>
  BY DEF InvWatcher, Announced, batchVars
<1>2. QueueOnce /\ Core /\ Bodies /\ watcher \in [Tx -> {"none", "watched", "ignored", "inved"}]
  BY DEF OwnInv, TypeInv, WatchTyped
<1>3. /\ Batch' = Batch /\ RpcWait' = RpcWait /\ Collecting' = Collecting /\ Pend' = Pend
  BY <1>1, Zenon DEF Batch, RpcWait, Collecting, Pend, In
<1>4. Issued' = Issued /\ Calling' = Calling /\ Owned' = Owned
  BY <1>1, <1>3, Zenon DEF Issued, Calling, Owned
<1>5. Told' = Told \cup {h}
  BY <1>1 DEF Told
<1>6. Seen' = Seen \cup {h}
  BY <1>1, <1>5 DEF Seen
<1>7. /\ watcher'[h] = "inved" /\ \A g \in Tx : g # h => watcher'[g] = watcher[g]
  BY <1>1, <1>2
<1>8. h \in Owned /\ h \notin Issued
  BY <1>1, <1>2, IssuedNotOwned DEF Core, EntryOwned
<1>9. h \notin Calling
  <2>1. rpcStep # "idle" => rpcJob.tx # h
    BY <1>2, <1>8 DEF Core, CallsFirst, Issued, TypeInv, RpcTyped
  <2> QED
    BY <1>8, <2>1 DEF Calling, Issued
<1>10. TodoOnce' /\ ClientOnce'
  BY <1>1, <1>2, <1>3, Zenon DEF Core, TodoOnce, ClientOnce
<1>11. RpcOnce'
  BY <1>1, <1>2, <1>3, <1>4, Zenon DEF Core, RpcOnce
<1>12. EntryOwned'
  BY <1>2, <1>4, <1>7, <1>8 DEF Core, EntryOwned
<1>13. RpcEntry'
  <2>1. \A b \in Pend : \A g \in bTx[b] : g \in Tx
    BY DEF Pend, TypeInv, BatchTyped, Batch
  <2>2. RpcEntry
    BY <1>2 DEF Core
  <2> QED
    BY <1>1, <1>3, <1>7, <2>1, <2>2 DEF RpcEntry
<1>14. CallsFirst'
  <2>1. CallsFirst
    BY <1>2 DEF Core
  <2>2. \A g \in Calling : g \notin Seen'
    BY <1>6, <1>9, <2>1 DEF CallsFirst
  <2>3. \A g \in Told' : /\ g \notin Issued
                         /\ g \in Owned => watcher'[g] = "inved"
                         /\ g \in Owned \/ \E b \in Batch : bFrom[b] = "client" /\ g \in bTx[b]
    <3>1. \A g \in Told : g \in Tx
      BY DEF Told
    <3> QED
      BY <1>5, <1>7, <1>8, <2>1, <3>1 DEF CallsFirst
  <2> QED
    BY <1>1, <1>3, <1>4, <2>1, <2>2, <2>3, Zenon DEF CallsFirst
<1>15. QueueOnce'
  BY <1>1, <1>2, Zenon DEF QueueOnce, In
<1>16. Bodies'
  <2>1. h \in Seen' /\ Seen \subseteq Seen' /\ asked' \subseteq asked
    BY <1>1, <1>6
  <2> QED
    BY <1>1, <1>2, <2>1, PostBodies
<1> QED
  BY <1>10, <1>11, <1>12, <1>13, <1>14, <1>15, <1>16 DEF OwnInv, Core

(* The other steps of the node touch no entry. *)
LEMMA OwnNode ==
    ASSUME TypeInv, OwnInv, NEW h \in Tx, InvProcess(h) \/ NodeServe(h) \/ NodeReject(h)
    PROVE  OwnInv'
<1>1. /\ bTx' = bTx /\ bFrom' = bFrom /\ bProm' = bProm /\ pc' = pc /\ todo' = todo
      /\ watcher' = watcher
      /\ rpcQ' = rpcQ /\ rpcStep' = rpcStep /\ rpcJob' = rpcJob /\ known' = known
      /\ newZcQ' = newZcQ /\ zc' = zc /\ UNCHANGED <<preQ, parser>>
  BY Zenon DEF InvProcess, NodeServe, NodeReject, nodeRest, batchVars, watchVars
<1>2. QueueOnce /\ Core /\ Bodies
  BY DEF OwnInv
<1>3. Told' = Told
  <2>1. told' = told \/ told' = told \cup {<<"process", h>>}
    BY DEF InvProcess, NodeServe, NodeReject, Announced
  <2> QED
    BY <2>1 DEF Told
<1>4. Batch' = Batch /\ Collecting' = Collecting /\ Pend' = Pend
  BY <1>1, Zenon DEF Batch, Collecting, Pend, In
<1>5. Core'
  BY <1>1, <1>2, <1>3, <1>4, CoreSame, Zenon DEF coreVars
<1>6. Seen' = Seen
  BY <1>1, <1>3, Zenon DEF Seen
<1>7. Bodies'
  <2>1. CASE InvProcess(h)
    <3>1. buffer' \subseteq known' /\ asked' \subseteq known' /\ getDataQ' = getDataQ
      BY <1>1, <1>2, <2>1 DEF InvProcess, Bodies
    <3> QED
      BY <1>1, <1>2, <1>6, <3>1, Zenon DEF Bodies
  <2>2. CASE NodeServe(h)
    <3>1. /\ getDataQ' = Append(getDataQ, [kind |-> "payload", tx |-> h]) /\ buffer' = buffer
          /\ asked' \subseteq asked /\ h \in asked
      BY <2>2 DEF NodeServe, nodeRest
    <3>2. h \in Seen' /\ Seen \subseteq Seen'
      BY <1>2, <1>6, <3>1 DEF Bodies, Seen
    <3> QED
      BY <1>1, <1>2, <3>1, <3>2, PostBodies
  <2>3. CASE NodeReject(h)
    <3>1. /\ getDataQ' = Append(getDataQ, [kind |-> "reject", tx |-> h]) /\ buffer' = buffer
          /\ asked' \subseteq asked /\ h \in refused
      BY <2>3 DEF NodeReject, nodeRest
    <3>2. h \in Rejectable /\ Seen \subseteq Seen'
      BY <1>6, <3>1 DEF TypeInv, NodeTyped
    <3> QED
      BY <1>1, <1>2, <3>1, <3>2, PostBodies
  <2> QED
    BY <2>1, <2>2, <2>3
<1>8. QueueOnce'
  BY <1>1, <1>2, Zenon DEF QueueOnce, In
<1> QED
  BY <1>5, <1>7, <1>8 DEF OwnInv

(* A promise that is set, unless it is one the RPC thread still counts on. *)
LEMMA CorePromise ==
    ASSUME TypeInv, Core, NEW b \in Batch, NEW s \in {"success", "reject"},
           bProm' = [bProm EXCEPT ![b] = IF @ = "none" THEN s ELSE @],
           rpcStep # "idle" /\ rpcJob.tx \notin Rejectable => rpcJob.batch # b,
           UNCHANGED <<bTx, bFrom, pc, todo, watcher, rpcQ, rpcStep, rpcJob, known, told,
                       newZcQ, zc>>
    PROVE  Core'
<1>1. /\ bTx' = bTx /\ bFrom' = bFrom /\ pc' = pc /\ todo' = todo
      /\ watcher' = watcher /\ rpcQ' = rpcQ /\ rpcStep' = rpcStep /\ rpcJob' = rpcJob
      /\ known' = known /\ told' = told /\ newZcQ' = newZcQ /\ zc' = zc
  OBVIOUS
<1>2. /\ Batch' = Batch /\ RpcWait' = RpcWait /\ Collecting' = Collecting /\ Pend' = Pend
      /\ Told' = Told
  BY <1>1, Zenon DEF Batch, RpcWait, Collecting, Pend, In, Told
<1>3. Calling' = Calling /\ Issued' = Issued /\ Seen' = Seen /\ Owned' = Owned
  BY <1>1, <1>2, Zenon DEF Calling, Issued, Seen, Owned
<1>4. /\ \A c \in Batch : bProm'[c] = bProm[c] \/ (c = b /\ bProm[c] = "none" /\ bProm'[c] = s)
      /\ Pend \subseteq Batch /\ Collecting \subseteq Batch
  <2>1. bProm \in [Batch -> Outcomes]
    BY DEF TypeInv, BatchTyped
  <2>2. Collecting \subseteq Batch /\ Pend \subseteq Batch
    BY DEF Collecting, Pend, TypeInv, ZcTyped
  <2> QED
    BY <2>1, <2>2
<1>5. TodoOnce' /\ ClientOnce' /\ EntryOwned'
  <2>1. TodoOnce' /\ ClientOnce'
    BY <1>1, <1>2 DEF Core, TodoOnce, ClientOnce
  <2>2. EntryOwned'
    BY <1>1, <1>3, Zenon DEF Core, EntryOwned
  <2> QED
    BY <2>1, <2>2
<1>6. RpcOnce'
  BY <1>1, <1>2, <1>3, Zenon DEF Core, RpcOnce
<1>7. RpcEntry'
  <2>1. RpcEntry
    BY DEF Core
  <2> QED
    BY <1>1, <1>2, <1>4, <2>1 DEF RpcEntry
<1>8. CallsFirst'
  <2>1. CallsFirst
    BY DEF Core
  <2>2. rpcStep # "idle" => (rpcJob.tx \notin Rejectable => bProm'[rpcJob.batch] = "none")
    BY <1>4, <2>1 DEF CallsFirst, TypeInv, RpcTyped
  <2> QED
    BY <1>1, <1>2, <1>3, <2>1, <2>2, Zenon DEF CallsFirst
<1> QED
  BY <1>5, <1>6, <1>7, <1>8 DEF Core

(* A promise a parser fulfils is not one the RPC thread counts on. *)
LEMMA OwnParser ==
    ASSUME TypeInv, OwnInv, NEW p \in Parsers, Parser(p)
    PROVE  OwnInv'
<1>1. /\ bTx' = bTx /\ bFrom' = bFrom /\ pc' = pc /\ todo' = todo
      /\ watcher' = watcher /\ rpcQ' = rpcQ /\ rpcStep' = rpcStep /\ rpcJob' = rpcJob
      /\ known' = known /\ told' = told /\ newZcQ' = newZcQ /\ zc' = zc
      /\ buffer' = buffer /\ asked' = asked /\ getDataQ' = getDataQ
  BY Zenon DEF Parser, ParserPayload, ParserParse, ParserCount, ParserSet, parserRest, batchVars,
               watchVars, queueVars, nodeVars
<1>2. QueueOnce /\ Core /\ Bodies /\ MatchTyped
  BY DEF OwnInv, TypeInv, Books
<1>3. /\ Batch' = Batch /\ Collecting' = Collecting /\ Pend' = Pend /\ Told' = Told
  BY <1>1, Zenon DEF Batch, Collecting, Pend, In, Told
<1>4. Seen' = Seen
  BY <1>1, <1>3, Zenon DEF Seen
<1>5. QueueOnce'
  BY <1>1, <1>2, Zenon DEF QueueOnce, In
<1>6. parser \in [Parsers -> [step : {"idle", "parse", "count", "set"}, job : Job \cup {NoJob}]]
  BY <1>2 DEF MatchTyped
<1>7. CASE ParserPayload(p)
  <2>1. Core'
    <3>1. bProm' = bProm
      BY <1>7 DEF ParserPayload, batchVars
    <3> QED
      BY <1>1, <1>2, <1>3, <3>1, CoreSame, Zenon DEF coreVars
  <2>2. /\ preQ # <<>> /\ preQ' = Tail(preQ) /\ preQ \in Seq(Job)
        /\ parser' = [parser EXCEPT ![p] = [step |-> "parse", job |-> Head(preQ)]]
    BY <1>2, <1>7 DEF ParserPayload, MatchTyped
  <2>3. /\ Head(preQ) = preQ[1] /\ 1 \in DOMAIN preQ
        /\ \A i \in DOMAIN preQ' : i + 1 \in DOMAIN preQ /\ preQ'[i] = preQ[i + 1]
    BY <2>2, TailIn
  <2>4. \A i \in DOMAIN preQ : preQ[i].tx \in Seen
    BY <1>2 DEF Bodies
  <2>5. \A i \in DOMAIN preQ' : preQ'[i].tx \in Seen
    BY <2>3, <2>4
  <2>6. \A q \in Parsers : parser'[q].step # "idle" => parser'[q].job.tx \in Seen
    BY <1>2, <1>6, <2>2, <2>3, <2>4 DEF Bodies
  <2>7. Bodies'
    BY <1>1, <1>2, <1>4, <2>5, <2>6, Zenon DEF Bodies
  <2> QED
    BY <1>5, <2>1, <2>7 DEF OwnInv
<1>8. CASE ParserParse(p) \/ ParserCount(p) \/ ParserSet(p)
  <2>1. parser[p].step # "idle" /\ UNCHANGED <<matching, batchQ, preQ>>
    BY <1>8, Zenon DEF ParserParse, ParserCount, ParserSet, parserRest, queueVars
  <2>2. PICK s \in {"idle", "parse", "count", "set"} : Step(p, s)
    BY <1>8 DEF ParserParse, ParserCount, ParserSet
  <2>3. /\ parser'[p].job = parser[p].job
        /\ \A q \in Parsers : q # p => parser'[q] = parser[q]
    BY <1>1, <1>2, <2>1, <2>2, ParserMoves, Zenon
  <2>4. Bodies'
    <3>1. \A q \in Parsers : parser'[q].step # "idle" => parser'[q].job.tx \in Seen
      BY <1>2, <2>1, <2>3, Zenon DEF Bodies
    <3> QED
      BY <1>1, <1>2, <1>4, <2>1, <3>1, Zenon DEF Bodies
  <2>5. Core'
    <3>1. CASE ParserSet(p)
      <4> DEFINE j == parser[p].job
                 b == j.batch
      <4>1. /\ bProm' = [bProm EXCEPT ![b] = IF @ = "none" THEN "success" ELSE @]
            /\ b \in Batch /\ j.tx \in bTx[b] /\ j.tx \in Seen
        BY <1>2, <2>1, <3>1 DEF ParserSet, MatchTyped, Bodies
      <4> HIDE DEF b
      <4>2. rpcStep # "idle" => rpcJob.batch # b
        <5> SUFFICES ASSUME rpcStep # "idle", rpcJob.batch = b PROVE FALSE
          OBVIOUS
        <5>1. j.tx = rpcJob.tx /\ rpcJob.tx \in Tx
          BY <1>2, <4>1 DEF Core, CallsFirst, TypeInv, RpcTyped, Packet
        <5>2. rpcJob.tx \in Calling
          BY <5>1 DEF Calling
        <5> QED
          BY <1>2, <4>1, <5>1, <5>2 DEF Core, CallsFirst
      <4> QED
        BY <1>1, <1>2, <4>1, <4>2, CorePromise
    <3>2. CASE ParserParse(p) \/ ParserCount(p)
      <4>1. bProm' = bProm
        BY <3>2 DEF ParserParse, ParserCount
      <4> QED
        BY <1>1, <1>2, <1>3, <4>1, CoreSame, Zenon DEF coreVars
    <3> QED
      BY <1>8, <3>1, <3>2
  <2> QED
    BY <1>5, <2>4, <2>5 DEF OwnInv
<1> QED
  BY <1>7, <1>8 DEF Parser

(* Nor is one the matcher fails. *)
LEMMA OwnMatcher ==
    ASSUME TypeInv, OwnInv, Matcher
    PROVE  OwnInv'
<1>1. /\ bTx' = bTx /\ bFrom' = bFrom /\ pc' = pc /\ todo' = todo
      /\ watcher' = watcher /\ rpcQ' = rpcQ /\ rpcStep' = rpcStep /\ rpcJob' = rpcJob
      /\ known' = known /\ told' = told /\ newZcQ' = newZcQ /\ zc' = zc
      /\ buffer' = buffer /\ asked' = asked /\ parser' = parser
  BY Zenon DEF Matcher, MatcherMatch, MatcherClear, batchVars, watchVars, nodeVars
<1>2. QueueOnce /\ Core /\ Bodies /\ MatchTyped
  BY DEF OwnInv, TypeInv, Books
<1>3. /\ Batch' = Batch /\ Collecting' = Collecting /\ Pend' = Pend /\ Told' = Told
  BY <1>1, Zenon DEF Batch, Collecting, Pend, In, Told
<1>4. Seen' = Seen
  BY <1>1, <1>3, Zenon DEF Seen
<1>5. QueueOnce'
  BY <1>1, <1>2, Zenon DEF QueueOnce, In
<1>6. CASE MatcherClear
  <2>1. bProm' = bProm /\ getDataQ' = getDataQ /\ preQ' = preQ
    BY <1>6 DEF MatcherClear, batchVars
  <2>2. Core'
    BY <1>1, <1>2, <1>3, <2>1, CoreSame, Zenon DEF coreVars
  <2>3. Bodies'
    BY <1>1, <1>2, <1>4, <2>1, Zenon DEF Bodies
  <2> QED
    BY <1>5, <2>2, <2>3 DEF OwnInv
<1>7. CASE MatcherMatch
  <2> DEFINE m == Head(getDataQ)
             h == m.tx
             b == Drained[h]
  <2>1. /\ getDataQ # <<>> /\ getDataQ' = Tail(getDataQ) /\ getDataQ \in Seq(NodeReply)
        /\ preQ' = IF m.kind = "payload" /\ b # 0 THEN Append(preQ, [tx |-> h, batch |-> b]) ELSE preQ
        /\ IF m.kind = "reject" /\ b # 0
             THEN bProm' = [bProm EXCEPT ![b] = IF @ = "none" THEN "reject" ELSE @]
             ELSE bProm' = bProm
    BY <1>7 DEF MatcherMatch, TypeInv, NodeTyped
  <2>2. /\ m \in NodeReply /\ m = getDataQ[1] /\ 1 \in DOMAIN getDataQ
        /\ \A i \in DOMAIN getDataQ' : i + 1 \in DOMAIN getDataQ /\ getDataQ'[i] = getDataQ[i + 1]
    BY <2>1, TailIn
  <2>3. h \in Tx /\ m.kind \in {"payload", "reject"}
    BY <2>2 DEF NodeReply
  <2>4. /\ m.kind = "payload" => h \in Seen
        /\ m.kind = "reject" => h \in Rejectable
    BY <1>2, <2>2, <2>3 DEF Bodies
  <2> HIDE DEF m
  <2>5. b \in Batch \cup {0} /\ (b # 0 => h \in bTx[b])
    BY <1>2, <2>3, DrainedTyped, Zenon
  <2> HIDE DEF h, b
  <2>6. Bodies'
    <3>1. \A i \in DOMAIN getDataQ' :
             IF getDataQ'[i].kind = "payload" THEN getDataQ'[i].tx \in Seen
                                              ELSE getDataQ'[i].tx \in Rejectable
      BY <1>2, <2>2 DEF Bodies
    <3>2. \A i \in DOMAIN preQ' : preQ'[i].tx \in Seen
      <4>1. CASE preQ' = preQ
        BY <1>2, <4>1 DEF Bodies
      <4>2. CASE m.kind = "payload" /\ b # 0 /\ preQ' = Append(preQ, [tx |-> h, batch |-> b])
        <5> DEFINE j == [tx |-> h, batch |-> b]
        <5>1. j \in Job /\ j.tx = h /\ preQ \in Seq(Job)
          BY <1>2, <2>3, <2>5, <4>2 DEF Job, MatchTyped, TypeInv, BatchTyped, Batch
        <5> HIDE DEF j
        <5>2. preQ' = Append(preQ, j)
          BY <4>2 DEF j
        <5>3. /\ DOMAIN preQ' = DOMAIN preQ \cup {Len(preQ) + 1}
              /\ \A i \in DOMAIN preQ : preQ'[i] = preQ[i]
              /\ preQ'[Len(preQ) + 1] = j
          BY <5>1, <5>2, AppendIn
        <5>4. \A i \in DOMAIN preQ : preQ[i].tx \in Seen
          BY <1>2 DEF Bodies
        <5> QED
          BY <2>4, <4>2, <5>1, <5>3, <5>4
      <4> QED
        BY <2>1, <4>1, <4>2, Zenon
    <3> QED
      BY <1>1, <1>2, <1>4, <3>1, <3>2, Zenon DEF Bodies
  <2>7. Core'
    <3>1. CASE bProm' = bProm
      BY <1>1, <1>2, <1>3, <3>1, CoreSame, Zenon DEF coreVars
    <3>2. CASE /\ m.kind = "reject" /\ b # 0
               /\ bProm' = [bProm EXCEPT ![b] = IF @ = "none" THEN "reject" ELSE @]
      <4>1. b \in Batch
        BY <2>5, <3>2
      <4>2. rpcStep # "idle" /\ rpcJob.tx \notin Rejectable => rpcJob.batch # b
        <5>1. rpcStep # "idle" => bTx[rpcJob.batch] = {rpcJob.tx}
          BY <1>2 DEF Core, CallsFirst
        <5> QED
          BY <2>4, <2>5, <3>2, <5>1
      <4> QED
        BY <1>1, <1>2, <3>2, <4>1, <4>2, CorePromise
    <3> QED
      BY <2>1, <3>1, <3>2, Zenon
  <2> QED
    BY <1>5, <2>6, <2>7 DEF OwnInv
<1> QED
  BY <1>6, <1>7 DEF Matcher

(* Batches that leave without entries of clients disturb nothing: no batch at
   all, one without watcher entries, one the RPC thread has failed. *)
LEMMA CoreLeaves ==
    ASSUME TypeInv, Core, Pend' \subseteq Pend,
           \A b \in Pend : bFrom[b] = "client" => b \in Pend',
           \A b \in Collecting' : bFrom[b] = "rpc" => bProm[b] \notin {"none", "exception"},
           UNCHANGED <<bTx, bFrom, bProm, pc, todo, watcher, rpcQ, rpcStep, rpcJob, known, told>>
    PROVE  Core'
<1>1. /\ bTx' = bTx /\ bFrom' = bFrom /\ bProm' = bProm /\ pc' = pc /\ todo' = todo
      /\ watcher' = watcher /\ rpcQ' = rpcQ /\ rpcStep' = rpcStep /\ rpcJob' = rpcJob
      /\ known' = known /\ told' = told
  OBVIOUS
<1>2. Batch' = Batch /\ RpcWait' = RpcWait /\ Told' = Told
  BY <1>1, Zenon DEF Batch, RpcWait, Told
<1>3. Calling' = Calling /\ Issued' = Issued /\ Seen' = Seen
  BY <1>1, <1>2, Zenon DEF Calling, Issued, Seen
<1>4. Owned' = Owned
  BY <1>1 DEF Owned
<1>5. TodoOnce' /\ ClientOnce'
  BY <1>1, <1>2 DEF Core, TodoOnce, ClientOnce
<1>6. RpcOnce'
  <2>1. \A h \in Issued : \E b \in Batch : bFrom[b] = "client" /\ h \in bTx[b] /\ b \notin Pend'
    BY DEF Core, RpcOnce
  <2> QED
    BY <1>1, <1>2, <1>3, <2>1, Zenon DEF Core, RpcOnce
<1>7. EntryOwned'
  BY <1>1, <1>4, Zenon DEF Core, EntryOwned
<1>8. RpcEntry'
  BY <1>1, <1>2 DEF Core, RpcEntry
<1>9. CallsFirst'
  BY <1>1, <1>2, <1>3, <1>4, Zenon DEF Core, CallsFirst
<1> QED
  BY <1>5, <1>6, <1>7, <1>8, <1>9 DEF Core

(* Taking the first batch from newZcQueue_. *)
LEMMA HeadOnce ==
    ASSUME TypeInv, QueueOnce, newZcQ # <<>>, newZcQ' = Tail(newZcQ), bTx' = bTx
    PROVE  /\ Head(newZcQ) \in Batch \cup {0} /\ In(newZcQ, Head(newZcQ)) /\ Batch' = Batch
           /\ \A y : In(newZcQ, y) <=> In(newZcQ', y) \/ y = Head(newZcQ)
           /\ Head(newZcQ) # 0 => ~In(newZcQ', Head(newZcQ))
           /\ \A i, j \in DOMAIN newZcQ' : newZcQ'[i] = newZcQ'[j] /\ newZcQ'[i] # 0 => i = j
<1>1. newZcQ \in Seq(Batch \cup {0})
  BY DEF TypeInv, ZcTyped
<1>2. /\ Head(newZcQ) \in Batch \cup {0} /\ Head(newZcQ) = newZcQ[1] /\ 1 \in DOMAIN newZcQ
      /\ \A i \in DOMAIN newZcQ' : i + 1 \in DOMAIN newZcQ /\ newZcQ'[i] = newZcQ[i + 1] /\ i + 1 # 1
      /\ \A y : In(newZcQ, y) <=> In(newZcQ', y) \/ y = Head(newZcQ)
      /\ newZcQ' \in Seq(Batch \cup {0})
  BY <1>1, TailIn
<1>3. \A i, j \in DOMAIN newZcQ : newZcQ[i] = newZcQ[j] /\ newZcQ[i] # 0 => i = j
  BY DEF QueueOnce
<1>4. Head(newZcQ) # 0 => ~In(newZcQ', Head(newZcQ))
  BY <1>2, <1>3 DEF In
<1>5. \A i, j \in DOMAIN newZcQ' : newZcQ'[i] = newZcQ'[j] /\ newZcQ'[i] # 0 => i = j
  <2> SUFFICES ASSUME NEW i \in DOMAIN newZcQ', NEW j \in DOMAIN newZcQ',
                      newZcQ'[i] = newZcQ'[j], newZcQ'[i] # 0
               PROVE  i = j
    OBVIOUS
  <2>1. i + 1 = j + 1
    BY <1>2, <1>3
  <2>2. i \in Nat /\ j \in Nat
    BY <1>2
  <2> QED
    BY <2>1, <2>2
<1>6. Batch' = Batch /\ In(newZcQ, Head(newZcQ))
  BY <1>2, Zenon DEF Batch
<1> QED
  BY <1>2, <1>4, <1>5, <1>6

(* The zc thread takes, drops and parses batches without touching entries. *)
LEMMA OwnZcQuiet ==
    ASSUME TypeInv, OwnInv,
           ZcPurge \/ ZcWake \/ ZcTimeout \/ ZcCollectInv \/ ZcParse \/ PushNewBlock
    PROVE  OwnInv'
<1>1. /\ bTx' = bTx /\ bFrom' = bFrom /\ bProm' = bProm /\ pc' = pc /\ todo' = todo
      /\ watcher' = watcher /\ rpcQ' = rpcQ /\ rpcStep' = rpcStep /\ rpcJob' = rpcJob
      /\ known' = known /\ told' = told
      /\ UNCHANGED <<buffer, asked, getDataQ, preQ, parser>>
  BY Zenon DEF ZcPurge, ZcWake, ZcTimeout, ZcCollectInv, ZcParse, PushNewBlock, zcRest, batchVars,
               watchVars, nodeVars
<1>2. QueueOnce /\ Core /\ Bodies /\ zc \in ZcRecord /\ (zc.step # "idle" => zc.batch \in Batch)
  BY DEF OwnInv, TypeInv, ZcTyped
<1>3. Told' = Told /\ Batch' = Batch
  BY <1>1, Zenon DEF Told, Batch
<1>4. Bodies'
  BY <1>1, <1>2, <1>3, BodiesSame, Zenon
<1>5. \A b \in Collecting : bFrom[b] = "rpc" => bProm[b] \notin {"none", "exception"}
  BY <1>2 DEF Core, RpcEntry
<1>6. CASE ZcPurge
  <2>1. zc' = zc /\ newZcQ # <<>> /\ newZcQ' = Tail(newZcQ) /\ Head(newZcQ) = 0
    BY <1>6 DEF ZcPurge, ZcIdling, ZcHead
  <2>2. /\ \A y : In(newZcQ, y) <=> In(newZcQ', y) \/ y = 0
        /\ \A i, j \in DOMAIN newZcQ' : newZcQ'[i] = newZcQ'[j] /\ newZcQ'[i] # 0 => i = j
    BY <1>1, <1>2, <2>1, HeadOnce
  <2>3. Collecting' = Collecting /\ 0 \notin Batch
    BY <2>1 DEF Collecting, TypeInv, BatchTyped, Batch
  <2>4. Pend' = Pend
    BY <1>3, <2>2, <2>3 DEF Pend
  <2>5. Core'
    BY <1>1, <1>2, <1>3, <2>3, <2>4, CoreSame, Zenon DEF coreVars
  <2>6. QueueOnce'
    BY <1>2, <2>1, <2>2, Zenon DEF QueueOnce
  <2> QED
    BY <1>4, <2>5, <2>6 DEF OwnInv
<1>7. CASE PushNewBlock
  <2>1. zc' = zc /\ newZcQ' = Append(newZcQ, 0) /\ newZcQ \in Seq(Batch \cup {0}) /\ 0 \in Batch \cup {0}
    BY <1>7 DEF PushNewBlock, TypeInv, ZcTyped
  <2>2. /\ DOMAIN newZcQ' = DOMAIN newZcQ \cup {Len(newZcQ) + 1}
        /\ \A i \in DOMAIN newZcQ : newZcQ'[i] = newZcQ[i]
        /\ newZcQ'[Len(newZcQ) + 1] = 0
        /\ \A y : In(newZcQ', y) <=> In(newZcQ, y) \/ y = 0
    BY <2>1, AppendIn
  <2>3. Collecting' = Collecting /\ 0 \notin Batch
    BY <2>1 DEF Collecting, TypeInv, BatchTyped, Batch
  <2>4. Pend' = Pend
    BY <1>3, <2>2, <2>3 DEF Pend
  <2>5. Core'
    BY <1>1, <1>2, <1>3, <2>3, <2>4, CoreSame, Zenon DEF coreVars
  <2>6. QueueOnce'
    <3>1. \A i, j \in DOMAIN newZcQ' : newZcQ'[i] = newZcQ'[j] /\ newZcQ'[i] # 0 => i = j
      BY <1>2, <2>2 DEF QueueOnce
    <3>2. zc'.step # "idle" => ~In(newZcQ', zc'.batch)
      BY <1>2, <2>1, <2>2, <2>3 DEF QueueOnce
    <3> QED
      BY <3>1, <3>2 DEF QueueOnce
  <2> QED
    BY <1>4, <2>5, <2>6 DEF OwnInv
<1>8. CASE ZcWake \/ ZcTimeout
  <2> DEFINE b == Head(newZcQ)
  <2>1. /\ zc.step = "idle" /\ newZcQ # <<>> /\ newZcQ' = Tail(newZcQ) /\ b # 0
    BY <1>8 DEF ZcWake, ZcTimeout, ZcIdling, ZcHead
  <2>2. /\ b \in Batch \cup {0} /\ In(newZcQ, b)
        /\ \A y : In(newZcQ, y) <=> In(newZcQ', y) \/ y = b
        /\ ~In(newZcQ', b)
        /\ \A i, j \in DOMAIN newZcQ' : newZcQ'[i] = newZcQ'[j] /\ newZcQ'[i] # 0 => i = j
    BY <1>1, <1>2, <2>1, HeadOnce
  <2>3. b \in Batch /\ b \in Nat /\ bProm[b] \in Outcomes
    BY <2>1, <2>2 DEF TypeInv, BatchTyped, Batch
  <2> HIDE DEF b
  <2>4. \E s \in {"collect", "parse"} :
          /\ zc'.step = s /\ zc'.batch = b
          /\ s = "collect" => (bFrom[b] = "rpc" => bProm[b] \notin {"none", "exception"})
          /\ s = "parse" => bProm[b] = "exception"
    <3>1. CASE ZcWake
      <4> DEFINE s == IF bProm[b] = "exception" THEN "parse" ELSE "collect"
      <4>1. zc' = [zc EXCEPT !.batch = b, !.result = bProm[b], !.step = s] /\ bProm[b] # "none"
        BY <3>1, Zenon DEF ZcWake, ZcHead, b
      <4>2. s \in {"collect", "parse"} /\ s \in {"idle", "collect", "parse"}
        OBVIOUS
      <4>3. /\ s = "collect" => (bFrom[b] = "rpc" => bProm[b] \notin {"none", "exception"})
            /\ s = "parse" => bProm[b] = "exception"
        BY <4>1
      <4> HIDE DEF s
      <4>4. zc'.step = s /\ zc'.batch = b
        BY <1>2, <2>3, <4>1, <4>2, ZcMoves
      <4> QED
        BY <4>2, <4>3, <4>4
    <3>2. CASE ZcTimeout
      <4>1. zc' = [zc EXCEPT !.batch = b, !.result = "timeout", !.step = "collect"] /\ bFrom[b] # "rpc"
        BY <3>2, Zenon DEF ZcTimeout, ZcHead, b
      <4>2. "timeout" \in Outcomes \cup {"timeout"} /\ "collect" \in {"idle", "collect", "parse"}
        OBVIOUS
      <4>3. zc'.step = "collect" /\ zc'.batch = b
        BY <1>2, <2>3, <4>1, <4>2, ZcMoves
      <4> QED
        BY <4>1, <4>3
    <3> QED
      BY <1>8, <3>1, <3>2
  <2>5. Collecting = {}
    BY <2>1 DEF Collecting
  <2>6. Core'
    <3>1. CASE zc'.step = "collect"
      <4>1. Collecting' = {b} /\ (bFrom[b] = "rpc" => bProm[b] \notin {"none", "exception"})
        BY <2>4, <3>1 DEF Collecting
      <4>2. Pend' = Pend
        BY <1>3, <2>2, <2>3, <2>5, <4>1 DEF Pend
      <4> QED
        BY <1>1, <1>2, <4>1, <4>2, CoreLeaves
    <3>2. CASE zc'.step = "parse"
      <4>1. Collecting' = {} /\ bProm[b] = "exception"
        BY <2>4, <3>2 DEF Collecting
      <4>2. bFrom[b] = "rpc"
        BY <1>2, <2>3, <4>1 DEF Core, RpcEntry
      <4>3. Pend' \subseteq Pend /\ \A c \in Pend : c # b => c \in Pend'
        BY <1>3, <2>2, <2>5, <4>1 DEF Pend
      <4>4. \A c \in Pend : bFrom[c] = "client" => c \in Pend'
        BY <4>2, <4>3
      <4> QED
        BY <1>1, <1>2, <4>1, <4>3, <4>4, CoreLeaves
    <3> QED
      BY <2>4, <3>1, <3>2
  <2>7. QueueOnce'
    BY <2>2, <2>4 DEF QueueOnce
  <2> QED
    BY <1>4, <2>6, <2>7 DEF OwnInv
<1>9. CASE ZcCollectInv \/ ZcParse
  <2>1. newZcQ' = newZcQ
    BY <1>9, Zenon DEF ZcCollectInv, ZcParse
  <2>2. /\ zc'.step # "collect" /\ (zc.step = "collect" => bFrom[zc.batch] = "inv")
        /\ zc'.step # "idle" => zc.step # "idle" /\ zc'.batch = zc.batch
    <3>1. CASE ZcCollectInv
      <4> DEFINE k == IF zc.result = "success" THEN bTx[zc.batch] ELSE {}
      <4>1. /\ zc' = [zc EXCEPT !.step = "parse", !.keep = k] /\ zc.step = "collect"
            /\ bFrom[zc.batch] = "inv"
        BY <3>1 DEF ZcCollectInv
      <4>2. k \in SUBSET Tx /\ "parse" \in {"idle", "collect", "parse"}
        BY <1>2, <4>1 DEF TypeInv, BatchTyped, Batch
      <4> HIDE DEF k
      <4>3. zc'.step = "parse" /\ zc'.batch = zc.batch
        BY <1>2, <4>1, <4>2, ZcMoves
      <4> QED
        BY <4>1, <4>3
    <3>2. CASE ZcParse
      BY <3>2 DEF ZcParse, ZcIdle
    <3> QED
      BY <1>9, <3>1, <3>2
  <2>3. /\ Collecting' = {} /\ Pend' \subseteq Pend
        /\ \A c \in Pend : bFrom[c] = "client" => c \in Pend'
    BY <1>3, <2>1, <2>2 DEF Collecting, Pend
  <2>4. Core'
    BY <1>1, <1>2, <2>3, CoreLeaves
  <2>5. QueueOnce'
    BY <1>2, <2>1, <2>2, Zenon DEF QueueOnce
  <2> QED
    BY <1>4, <2>4, <2>5 DEF OwnInv
<1> QED
  BY <1>6, <1>7, <1>8, <1>9

(* A batch takes its entries away: they were its own, and what it sends through
   RPC nobody has sent or seen before. *)
LEMMA OwnCollect ==
    ASSUME TypeInv, OwnInv, ZcCollectWatched
    PROVE  OwnInv'
<1> DEFINE b == zc.batch
           F == IF bFrom[b] = "client" THEN bTx[b] \ Inved ELSE {}
<1>1. /\ zc.step = "collect" /\ bFrom[b] # "inv" /\ b \in Batch
      /\ zc'.step = "parse" /\ zc'.batch = b
  BY CollectFacts
<1>2. UNCHANGED <<batchVars, pc, todo, newZcQ, getDataQ, preQ, buffer,
                  parser, rpcStep, rpcJob, nodeVars>>
  BY CollectFacts
<1>3. /\ bTx' = bTx /\ bFrom' = bFrom /\ bProm' = bProm /\ pc' = pc /\ todo' = todo
      /\ rpcStep' = rpcStep /\ rpcJob' = rpcJob /\ known' = known /\ told' = told
      /\ newZcQ' = newZcQ
      /\ UNCHANGED <<buffer, asked, getDataQ, preQ, parser>>
  BY <1>2 DEF batchVars, nodeVars
<1>4. QueueOnce /\ Core /\ Bodies
  BY DEF OwnInv
<1>5. /\ Batch' = Batch /\ Told' = Told /\ Seen' = Seen
  BY <1>3, Zenon DEF Batch, Told, Seen
<1>6. Collecting = {b} /\ Collecting' = {} /\ b \in Pend
  BY <1>1 DEF Collecting, Pend
<1>7. /\ Pend' \subseteq Pend /\ b \notin Pend' /\ Pend \subseteq Batch
      /\ \A c \in Pend : c # b => c \in Pend'
  BY <1>1, <1>3, <1>4, <1>5, <1>6 DEF Pend, QueueOnce
<1>8. bTx[b] \subseteq Tx /\ bFrom[b] \in {"client", "rpc"} /\ F \subseteq bTx[b]
  BY <1>1 DEF TypeInv, BatchTyped, Batch
<1>9. /\ bFrom[b] = "client" => bTx[b] \subseteq Owned
      /\ bFrom[b] = "rpc" => bTx[b] \subseteq Issued
  BY <1>1, <1>6, <1>8 DEF Owned, Issued
<1>10. \A h \in Issued : h \notin Owned
  BY <1>4, IssuedNotOwned
<1>11. \A h \in F : h \in Owned /\ h \notin Issued /\ h \notin Seen
  <2> SUFFICES ASSUME NEW h \in F PROVE h \in Owned /\ h \notin Issued /\ h \notin Seen
    OBVIOUS
  <2>1. bFrom[b] = "client" /\ h \in bTx[b] /\ watcher[h] # "inved" /\ h \in Tx
    BY <1>8 DEF Inved
  <2>2. h \in Owned /\ h \notin Issued /\ h \notin NetTx
    BY <1>1, <1>4, <1>9, <1>10, <2>1 DEF Core, ClientOnce
  <2> QED
    BY <1>4, <2>1, <2>2 DEF Core, CallsFirst, Seen
<1>12. /\ \A h \in Tx \ bTx[b] : watcher'[h] = watcher[h]
       /\ \A h \in bTx[b] : watcher'[h] \notin {"watched", "inved"}
  <2>1. PICK taken \in SUBSET bTx[b] :
          /\ (\E h \in bTx[b] : watcher[h] = "none") \/ taken = bTx[b]
          /\ watcher' = [h \in Tx |-> IF h \in taken THEN "none" ELSE watcher[h]]
    BY CollectFacts, Zenon
  <2>2. /\ \A h \in Tx : h \in taken => watcher'[h] = "none"
        /\ \A h \in Tx : h \notin taken => watcher'[h] = watcher[h]
    BY <2>1
  <2>3. CASE bFrom[b] = "client"
    <3>1. \A h \in bTx[b] : watcher[h] # "none"
      BY <1>4, <1>8, <1>9, <2>3 DEF Core, EntryOwned
    <3> QED
      BY <1>8, <2>1, <2>2, <3>1
  <2>4. CASE bFrom[b] = "rpc"
    <3>1. \A h \in bTx[b] : watcher[h] \notin {"watched", "inved"}
      BY <1>4, <1>8, <1>9, <1>10, <2>4 DEF Core, EntryOwned
    <3> QED
      BY <1>8, <2>2, <3>1
  <2> QED
    BY <1>8, <2>3, <2>4
<1> HIDE DEF F, b
<1>13. /\ \A i \in DOMAIN rpcQ' : \/ i \in DOMAIN rpcQ /\ rpcQ'[i] = rpcQ[i]
                                  \/ i \notin DOMAIN rpcQ /\ rpcQ'[i].tx \in F
       /\ \A i \in DOMAIN rpcQ : i \in DOMAIN rpcQ'
       /\ \A i, j \in DOMAIN rpcQ' :
             i \notin DOMAIN rpcQ /\ j \notin DOMAIN rpcQ /\ rpcQ'[i].tx = rpcQ'[j].tx => i = j
  <2>1. \/ rpcQ' = rpcQ
        \/ bFrom[b] # "rpc" /\ ErrorCallback(bTx[b] \ Inved)
    BY CollectFacts DEF b
  <2>2. CASE rpcQ' = rpcQ
    BY <2>2, Zenon
  <2>3. CASE bFrom[b] # "rpc" /\ ErrorCallback(bTx[b] \ Inved)
    <3>1. F = bTx[b] \ Inved /\ F \in SUBSET Tx
      BY <1>8, <2>3 DEF F
    <3>2. ErrorCallback(F)
      BY <2>3, <3>1, Zenon
    <3>3. bFrom[zc.batch] # "inv" /\ zc.batch \in Batch
      BY <1>1 DEF b
    <3> QED
      BY <3>1, <3>2, <3>3, ErrorFacts, Zenon
  <2> QED
    BY <2>1, <2>2, <2>3
<1>14. /\ RpcWait \subseteq RpcWait' /\ RpcWait' \subseteq RpcWait \cup F
  <2>1. \A h \in RpcWait : h \in RpcWait'
    <3> SUFFICES ASSUME NEW h \in RpcWait PROVE h \in RpcWait'
      OBVIOUS
    <3>1. PICK i \in DOMAIN rpcQ : rpcQ[i].tx = h
      BY DEF RpcWait
    <3>2. i \in DOMAIN rpcQ' /\ rpcQ'[i] = rpcQ[i]
      BY <1>13, Zenon
    <3>3. rpcQ'[i].tx = h /\ h \in Tx
      BY <3>1, <3>2 DEF RpcWait
    <3> QED
      BY <3>2, <3>3, Zenon DEF RpcWait
  <2>2. \A h \in RpcWait' : h \in RpcWait \/ h \in F
    <3> SUFFICES ASSUME NEW h \in RpcWait', h \notin F PROVE h \in RpcWait
      OBVIOUS
    <3>1. h \in Tx /\ \E i \in DOMAIN rpcQ' : rpcQ'[i].tx = h
      BY DEF RpcWait
    <3>2. PICK i \in DOMAIN rpcQ' : rpcQ'[i].tx = h
      BY <3>1
    <3>3. i \in DOMAIN rpcQ /\ rpcQ'[i] = rpcQ[i]
      BY <1>13, <3>2, Zenon
    <3>4. rpcQ[i].tx = h
      BY <3>2, <3>3
    <3> QED
      BY <3>1, <3>3, <3>4, Zenon DEF RpcWait
  <2> QED
    BY <2>1, <2>2
<1>15. /\ Issued \subseteq Issued' /\ Issued' \subseteq Issued \cup F
       /\ Calling' \subseteq Calling \cup F
  BY <1>3, <1>5, <1>14 DEF Issued, Calling
<1>16. \A h \in Tx : h \in Owned' <=> h \in Owned /\ h \notin bTx[b]
  <2>1. ASSUME NEW h \in Tx, h \in Owned' PROVE h \in Owned /\ h \notin bTx[b]
    <3>1. h \in Owned
      BY <1>3, <1>7, <2>1 DEF Owned
    <3>2. CASE \E r \in Requests : h \in todo[r]
      BY <1>1, <1>4, <3>1, <3>2 DEF Core, TodoOnce
    <3>3. CASE \E c \in Pend' : bFrom[c] = "client" /\ h \in bTx[c]
      <4>1. PICK c \in Pend' : bFrom[c] = "client" /\ h \in bTx[c]
        BY <3>3
      <4>2. c \in Batch /\ c # b
        BY <1>7, <4>1
      <4>3. CASE bFrom[b] = "client"
        BY <1>1, <1>4, <3>1, <4>1, <4>2, <4>3, Zenon DEF Core, ClientOnce
      <4>4. CASE bFrom[b] = "rpc"
        BY <1>9, <1>10, <3>1, <4>4
      <4> QED
        BY <1>8, <4>3, <4>4
    <3> QED
      BY <1>3, <2>1, <3>2, <3>3, Zenon DEF Owned
  <2>2. ASSUME NEW h \in Tx, h \in Owned, h \notin bTx[b] PROVE h \in Owned'
    BY <1>3, <1>7, <2>2 DEF Owned
  <2> QED
    BY <2>1, <2>2
<1>17. TodoOnce'
  BY <1>3, <1>4, <1>5 DEF Core, TodoOnce
<1>18. ClientOnce'
  BY <1>3, <1>4, <1>5 DEF Core, ClientOnce
<1>19. RpcOnce'
  <2>1. RpcOnce
    BY <1>4 DEF Core
  <2>2. \A c \in Batch : \A h \in bTx[c] : bFrom[c] = "rpc" => h \in Issued
    BY DEF Issued, TypeInv, BatchTyped, Batch
  <2>3. \A c \in Batch : \A h \in bTx[c] : bFrom[c] = "rpc" => h \notin RpcWait'
    BY <1>11, <1>14, <2>1, <2>2 DEF RpcOnce
  <2>4. \A i, j \in DOMAIN rpcQ' : rpcQ'[i].tx = rpcQ'[j].tx => i = j
    <3>1. \A i \in DOMAIN rpcQ : rpcQ[i].tx \in Issued
      <4>1. rpcQ \in Seq(Packet)
        BY DEF TypeInv, RpcTyped
      <4>2. \A i \in DOMAIN rpcQ : rpcQ[i] \in Packet
        BY <4>1
      <4>3. \A i \in DOMAIN rpcQ : rpcQ[i].tx \in Tx
        BY <4>2 DEF Packet
      <4> QED
        BY <4>3, Zenon DEF Issued, RpcWait
    <3>2. \A i, j \in DOMAIN rpcQ : rpcQ[i].tx = rpcQ[j].tx => i = j
      BY <2>1 DEF RpcOnce
    <3> SUFFICES ASSUME NEW i \in DOMAIN rpcQ', NEW j \in DOMAIN rpcQ', rpcQ'[i].tx = rpcQ'[j].tx
                 PROVE  i = j
      OBVIOUS
    <3>3. CASE i \in DOMAIN rpcQ /\ j \in DOMAIN rpcQ
      <4>1. rpcQ'[i] = rpcQ[i] /\ rpcQ'[j] = rpcQ[j]
        BY <1>13, <3>3, Zenon
      <4> QED
        BY <3>2, <3>3, <4>1
    <3>4. CASE i \notin DOMAIN rpcQ /\ j \notin DOMAIN rpcQ
      BY <1>13, <3>4, Zenon
    <3>5. CASE i \in DOMAIN rpcQ /\ j \notin DOMAIN rpcQ
      <4>1. rpcQ'[i] = rpcQ[i] /\ rpcQ'[j].tx \in F
        BY <1>13, <3>5, Zenon
      <4> QED
        BY <1>11, <3>1, <3>5, <4>1
    <3>6. CASE i \notin DOMAIN rpcQ /\ j \in DOMAIN rpcQ
      <4>1. rpcQ'[j] = rpcQ[j] /\ rpcQ'[i].tx \in F
        BY <1>13, <3>6, Zenon
      <4> QED
        BY <1>11, <3>1, <3>6, <4>1
    <3> QED
      BY <3>3, <3>4, <3>5, <3>6, Zenon
  <2>5. \A h \in Issued' : \E c \in Batch : bFrom[c] = "client" /\ h \in bTx[c] /\ c \notin Pend'
    <3>1. ASSUME NEW h \in Issued
          PROVE  \E c \in Batch : bFrom[c] = "client" /\ h \in bTx[c] /\ c \notin Pend'
      BY <1>7, <2>1 DEF RpcOnce
    <3>2. ASSUME NEW h \in F
          PROVE  \E c \in Batch : bFrom[c] = "client" /\ h \in bTx[c] /\ c \notin Pend'
      BY <1>1, <1>7, <1>8, <3>2 DEF F
    <3> QED
      BY <1>15, <3>1, <3>2
  <2> QED
    BY <1>3, <1>5, <2>1, <2>3, <2>4, <2>5, Zenon DEF RpcOnce
<1>20. EntryOwned'
  BY <1>4, <1>8, <1>12, <1>16 DEF Core, EntryOwned
<1>21. RpcEntry'
  <2>1. RpcEntry
    BY <1>4 DEF Core
  <2>2. ASSUME NEW c \in Pend', NEW h \in bTx[c] \ Rejectable, bFrom[c] = "rpc"
        PROVE  \/ watcher'[h] # "none"
               \/ rpcStep = "failed" /\ rpcJob.batch = c
               \/ bProm[c] = "exception"
    <3>1. c \in Pend /\ c \in Batch /\ c # b /\ h \in Tx
      BY <1>7, <2>2 DEF TypeInv, BatchTyped, Batch
    <3>2. h \notin bTx[b]
      <4>1. CASE bFrom[b] = "client"
        <5>1. h \in Issued
          BY <2>2, <3>1 DEF Issued
        <5> QED
          BY <1>9, <1>10, <4>1, <5>1
      <4>2. CASE bFrom[b] = "rpc"
        BY <1>1, <1>4, <2>2, <3>1, <4>2 DEF Core, RpcOnce
      <4> QED
        BY <1>8, <4>1, <4>2
    <3>3. watcher'[h] = watcher[h]
      BY <1>12, <3>1, <3>2
    <3> QED
      BY <2>1, <2>2, <3>1, <3>3 DEF RpcEntry
  <2> QED
    BY <1>3, <1>5, <1>6, <2>1, <2>2 DEF RpcEntry
<1>22. CallsFirst'
  <2>1. CallsFirst
    BY <1>4 DEF Core
  <2>2. \A h \in Calling' : h \notin Seen
    BY <1>11, <1>15, <2>1 DEF CallsFirst
  <2>3. \A h \in known : h \in NetTx \/ h \in Issued'
    BY <1>15, <2>1 DEF CallsFirst
  <2>4. \A h \in Told : h \in Tx /\ h \in Seen
    BY DEF Told, Seen
  <2>5. \A h \in Told : /\ h \notin Issued'
                        /\ h \in Owned' => watcher'[h] = "inved"
    BY <1>11, <1>12, <1>15, <1>16, <2>1, <2>4 DEF CallsFirst
  <2>6. \A h \in Told : h \in Owned' \/ \E c \in Batch : bFrom[c] = "client" /\ h \in bTx[c]
    <3> SUFFICES ASSUME NEW h \in Told, h \notin Owned'
                 PROVE  \E c \in Batch : bFrom[c] = "client" /\ h \in bTx[c]
      OBVIOUS
    <3>1. CASE h \in Owned
      <4>1. h \in bTx[b]
        BY <1>16, <2>4, <3>1
      <4>2. bFrom[b] = "client"
        BY <1>8, <1>9, <1>10, <3>1, <4>1
      <4> QED
        BY <1>1, <4>1, <4>2
    <3>2. CASE h \notin Owned
      BY <2>1, <3>2 DEF CallsFirst
    <3> QED
      BY <3>1, <3>2
  <2>7. rpcStep' # "idle" =>
          /\ bFrom'[rpcJob'.batch] = "rpc" /\ bTx'[rpcJob'.batch] = {rpcJob'.tx}
          /\ rpcJob'.tx \notin Rejectable => bProm'[rpcJob'.batch] = "none"
    BY <1>3, <2>1, Zenon DEF CallsFirst
  <2>8. \A h \in Told : /\ h \notin Issued'
                        /\ h \in Owned' => watcher'[h] = "inved"
                        /\ h \in Owned' \/ \E c \in Batch : bFrom[c] = "client" /\ h \in bTx[c]
    BY <2>5, <2>6
  <2> QED
    BY <1>3, <1>5, <2>2, <2>3, <2>7, <2>8, Zenon DEF CallsFirst
<1>23. QueueOnce'
  BY <1>1, <1>3, <1>4, Zenon DEF QueueOnce, b
<1>24. Bodies'
  BY <1>3, <1>4, <1>5, BodiesSame, Zenon
<1> QED
  BY <1>17, <1>18, <1>19, <1>20, <1>21, <1>22, <1>23, <1>24 DEF OwnInv, Core

(* What the RPC thread's packets are made of. *)
LEMMA RpcHead ==
    ASSUME TypeInv, OwnInv, rpcQ # <<>>, rpcQ' = Tail(rpcQ)
    PROVE  /\ Head(rpcQ) \in Packet /\ Head(rpcQ).tx \in Tx /\ Head(rpcQ).tx \in RpcWait
           /\ RpcWait' = RpcWait \ {Head(rpcQ).tx}
           /\ \A i, j \in DOMAIN rpcQ' : rpcQ'[i].tx = rpcQ'[j].tx => i = j
<1> DEFINE h == Head(rpcQ).tx
<1>1. rpcQ \in Seq(Packet)
  BY DEF TypeInv, RpcTyped
<1>2. /\ Head(rpcQ) \in Packet /\ Head(rpcQ) = rpcQ[1] /\ 1 \in DOMAIN rpcQ
      /\ \A i \in DOMAIN rpcQ' : i + 1 \in DOMAIN rpcQ /\ rpcQ'[i] = rpcQ[i + 1] /\ i + 1 # 1
      /\ \A y : In(rpcQ, y) <=> In(rpcQ', y) \/ y = Head(rpcQ)
      /\ rpcQ' \in Seq(Packet)
  BY <1>1, TailIn
<1>3. \A i, j \in DOMAIN rpcQ : rpcQ[i].tx = rpcQ[j].tx => i = j
  BY DEF OwnInv, Core, RpcOnce
<1>4. h \in Tx
  BY <1>2 DEF Packet
<1>5. h = rpcQ[1].tx
  BY <1>2
<1>6. h \in RpcWait
  BY <1>2, <1>4, <1>5, Zenon DEF RpcWait
<1> HIDE DEF h
<1>7. \A g \in RpcWait' : g \in RpcWait /\ g # h
  <2> SUFFICES ASSUME NEW g \in RpcWait' PROVE g \in RpcWait /\ g # h
    OBVIOUS
  <2>1. g \in Tx /\ \E i \in DOMAIN rpcQ' : rpcQ'[i].tx = g
    BY DEF RpcWait
  <2>2. PICK i \in DOMAIN rpcQ' : rpcQ'[i].tx = g
    BY <2>1
  <2>3. i + 1 \in DOMAIN rpcQ /\ rpcQ[i + 1].tx = g /\ i + 1 # 1
    BY <1>2, <2>2
  <2> QED
    BY <1>2, <1>3, <1>5, <2>1, <2>3, Zenon DEF RpcWait
<1>8. \A g \in RpcWait : g # h => g \in RpcWait'
  <2> SUFFICES ASSUME NEW g \in RpcWait, g # h PROVE g \in RpcWait'
    OBVIOUS
  <2>1. g \in Tx /\ \E i \in DOMAIN rpcQ : rpcQ[i].tx = g
    BY DEF RpcWait
  <2>2. PICK i \in DOMAIN rpcQ : rpcQ[i].tx = g
    BY <2>1
  <2>3. In(rpcQ, rpcQ[i]) /\ rpcQ[i] # Head(rpcQ)
    BY <2>2, Zenon DEF In, h
  <2>4. In(rpcQ', rpcQ[i])
    BY <1>2, <2>3, Zenon
  <2>5. PICK j \in DOMAIN rpcQ' : rpcQ'[j] = rpcQ[i]
    BY <2>4 DEF In
  <2>6. rpcQ'[j].tx = g
    BY <2>2, <2>5
  <2> QED
    BY <2>1, <2>5, <2>6, Zenon DEF RpcWait
<1>9. ASSUME NEW i \in DOMAIN rpcQ', NEW j \in DOMAIN rpcQ', rpcQ'[i].tx = rpcQ'[j].tx
      PROVE  i = j
  <2>1. i + 1 = j + 1
    BY <1>2, <1>3, <1>9
  <2>2. i \in Nat /\ j \in Nat
    BY <1>2
  <2> QED
    BY <2>1, <2>2
<1>10. RpcWait' = RpcWait \ {h}
  BY <1>6, <1>7, <1>8
<1> QED
  BY <1>2, <1>4, <1>6, <1>9, <1>10 DEF h

(* The RPC thread finds an entry: its packet is done with. *)
LEMMA OwnRpcTie ==
    ASSUME TypeInv, OwnInv, RpcTake, watcher[Head(rpcQ).tx] # "none"
    PROVE  OwnInv'
<1> DEFINE h == Head(rpcQ).tx
<1>1. rpcQ # <<>> /\ rpcQ' = Tail(rpcQ)
  BY DEF RpcTake
<1>2. /\ h \in Tx /\ h \in RpcWait /\ RpcWait' = RpcWait \ {h}
      /\ \A i, j \in DOMAIN rpcQ' : rpcQ'[i].tx = rpcQ'[j].tx => i = j
  BY <1>1, RpcHead
<1>3. UNCHANGED <<watcher, batchVars, newZcQ, rpcStep, rpcJob, known, rpcRest>>
  BY Zenon DEF RpcTake
<1>4. /\ bTx' = bTx /\ bFrom' = bFrom /\ bProm' = bProm /\ pc' = pc /\ todo' = todo
      /\ watcher' = watcher /\ rpcStep' = rpcStep /\ rpcJob' = rpcJob
      /\ known' = known /\ told' = told /\ newZcQ' = newZcQ /\ zc' = zc
      /\ UNCHANGED <<buffer, asked, getDataQ, preQ, parser>>
  BY <1>3 DEF batchVars, rpcRest
<1> HIDE DEF h
<1>5. /\ Batch' = Batch /\ Told' = Told /\ Seen' = Seen /\ Pend' = Pend /\ Collecting' = Collecting
  BY <1>4, Zenon DEF Batch, Told, Seen, Pend, Collecting, In
<1>6. QueueOnce /\ Core /\ Bodies
  BY DEF OwnInv
<1>7. /\ Issued' \subseteq Issued /\ Calling' \subseteq Calling
      /\ \A g \in Issued : g # h => g \in Issued'
  BY <1>2, <1>4, <1>5 DEF Issued, Calling
<1>8. Owned' = Owned
  BY <1>4, <1>5, Zenon DEF Owned
<1>9. TodoOnce'
  BY <1>4, <1>5, <1>6 DEF Core, TodoOnce
<1>10. ClientOnce'
  BY <1>4, <1>5, <1>6 DEF Core, ClientOnce
<1>11. RpcOnce'
  <2>1. RpcOnce
    BY <1>6 DEF Core
  <2>2. \A b \in Batch : \A g \in bTx[b] : bFrom[b] = "rpc" => g \notin RpcWait'
    BY <1>2, <2>1 DEF RpcOnce
  <2>3. \A g \in Issued' : \E b \in Batch : bFrom[b] = "client" /\ g \in bTx[b] /\ b \notin Pend
    BY <1>7, <2>1 DEF RpcOnce
  <2> QED
    BY <1>2, <1>4, <1>5, <2>1, <2>2, <2>3, Zenon DEF RpcOnce
<1>12. EntryOwned'
  BY <1>4, <1>6, <1>8, Zenon DEF Core, EntryOwned
<1>13. RpcEntry'
  BY <1>4, <1>5, <1>6 DEF Core, RpcEntry
<1>14. CallsFirst'
  <2>1. CallsFirst
    BY <1>6 DEF Core
  <2>2. h \notin Seen
    BY <1>2, <2>1 DEF CallsFirst, Calling
  <2>3. \A g \in known : g \in NetTx \/ g \in Issued'
    BY <1>7, <2>1, <2>2 DEF CallsFirst, Seen
  <2>4. \A g \in Calling' : g \notin Seen
    BY <1>7, <2>1 DEF CallsFirst
  <2>5. \A g \in Told : g \notin Issued'
    BY <1>7, <2>1 DEF CallsFirst
  <2> QED
    BY <1>4, <1>5, <1>8, <2>1, <2>3, <2>4, <2>5, Zenon DEF CallsFirst
<1>15. QueueOnce'
  BY <1>4, <1>6, Zenon DEF QueueOnce, In
<1>16. Bodies'
  BY <1>4, <1>5, <1>6, BodiesSame, Zenon
<1> QED
  BY <1>9, <1>10, <1>11, <1>12, <1>13, <1>14, <1>15, <1>16 DEF OwnInv, Core

(* The RPC thread finds none: it makes an entry and a batch of its own. *)
LEMMA OwnRpcMake ==
    ASSUME TypeInv, OwnInv, RpcTake, watcher[Head(rpcQ).tx] = "none"
    PROVE  OwnInv'
<1> DEFINE h == Head(rpcQ).tx
           req == Head(rpcQ).req
<1>1. rpcQ # <<>> /\ rpcQ' = Tail(rpcQ) /\ rpcStep = "idle"
  BY DEF RpcTake
<1>2. /\ Head(rpcQ) \in Packet /\ h \in Tx /\ h \in RpcWait /\ RpcWait' = RpcWait \ {h}
      /\ \A i, j \in DOMAIN rpcQ' : rpcQ'[i].tx = rpcQ'[j].tx => i = j
  BY <1>1, RpcHead
<1>3. /\ watcher' = [watcher EXCEPT ![h] = "ignored"]
      /\ InitiateZcBatch("rpc", req, {h})
      /\ rpcJob' = [Head(rpcQ) EXCEPT !.batch = Len(bTx) + 1] /\ rpcStep' = "call"
      /\ UNCHANGED <<known, rpcRest>>
  BY Zenon DEF RpcTake
<1>4. /\ pc' = pc /\ todo' = todo /\ known' = known /\ told' = told /\ zc' = zc
      /\ UNCHANGED <<buffer, asked, getDataQ, preQ, parser>>
  BY <1>3 DEF rpcRest
<1>5. req \in Requests /\ req \in Requests \cup {None} /\ {h} \in SUBSET Tx
      /\ "rpc" \in {"client", "inv", "rpc"}
  BY <1>2 DEF Packet
<1>6. QueueOnce /\ Core /\ Bodies
  BY DEF OwnInv
<1> HIDE DEF h, req
<1>7. Grown(Len(bTx) + 1, "rpc", {h})
  BY <1>3, <1>4, <1>5, <1>6, NewBatchOwns, Zenon
<1>8. rpcJob'.batch = Len(bTx) + 1 /\ rpcJob'.tx = h
  <2>1. Len(bTx) + 1 \in Nat
    BY DEF TypeInv, BatchTyped
  <2> QED
    BY <1>2, <1>3, <2>1 DEF Packet, h
<1>9. PICK n : Grown(n, "rpc", {h}) /\ rpcJob'.batch = n
  BY <1>7, <1>8
<1>10. /\ n \notin Batch /\ Batch' = Batch \cup {n}
       /\ \A b \in Batch : /\ bTx'[b] = bTx[b] /\ bFrom'[b] = bFrom[b]
                            /\ bProm'[b] = bProm[b] /\ b # n
       /\ bTx'[n] = {h} /\ bFrom'[n] = "rpc" /\ bProm'[n] = "none"
       /\ Pend' = Pend \cup {n} /\ Collecting' = Collecting
       /\ \A b \in Collecting : b \in Batch
       /\ QueueOnce' /\ Pend \subseteq Batch
  BY <1>9 DEF Grown, Pend
<1>11. /\ watcher'[h] = "ignored" /\ \A g \in Tx : g # h => watcher'[g] = watcher[g]
  BY <1>2, <1>3 DEF TypeInv, WatchTyped
<1>12. Told' = Told /\ Seen' = Seen
  BY <1>4, Zenon DEF Told, Seen
<1>13. Issued' = Issued
  BY <1>2, <1>10 DEF Issued
<1>14. Calling' \subseteq Calling
  BY <1>2, <1>3, <1>8 DEF Calling
<1>15. \A g \in Tx : g \in Owned' <=> g \in Owned
  BY <1>4, <1>10 DEF Owned
<1>16. h \in Issued /\ h \notin Owned
  BY <1>2, <1>6, IssuedNotOwned DEF Issued
<1>17. TodoOnce'
  <2>1. TodoOnce
    BY <1>6 DEF Core
  <2>2. \A r \in Requests : h \notin todo[r]
    BY <1>2, <1>16 DEF Owned
  <2>3. \A r \in Requests : \A g \in todo[r] : \A b \in Batch' : bFrom'[b] # "inv" => g \notin bTx'[b]
    BY <1>10, <2>1, <2>2 DEF TodoOnce
  <2> QED
    BY <1>4, <2>1, <2>3, Zenon DEF TodoOnce
<1>18. ClientOnce'
  <2>1. ClientOnce
    BY <1>6 DEF Core
  <2>2. \A b, c \in Batch' : \A g \in bTx'[b] :
          bFrom'[b] = "client" /\ bFrom'[c] = "client" /\ g \in bTx'[c] => b = c
    BY <1>10, <2>1 DEF ClientOnce
  <2>3. \A b \in Batch' : \A g \in bTx'[b] : bFrom'[b] = "client" => g \notin NetTx
    BY <1>10, <2>1 DEF ClientOnce
  <2> QED
    BY <2>2, <2>3, Zenon DEF ClientOnce
<1>19. RpcOnce'
  <2>1. RpcOnce
    BY <1>6 DEF Core
  <2>2. \A b \in Batch : bFrom[b] = "rpc" => h \notin bTx[b]
    BY <1>2, <2>1 DEF RpcOnce
  <2>3. \A b, c \in Batch' : \A g \in bTx'[b] :
          bFrom'[b] = "rpc" /\ bFrom'[c] = "rpc" /\ g \in bTx'[c] => b = c
    BY <1>10, <2>1, <2>2 DEF RpcOnce
  <2>4. \A b \in Batch' : \A g \in bTx'[b] : bFrom'[b] = "rpc" => g \notin RpcWait'
    BY <1>2, <1>10, <2>1 DEF RpcOnce
  <2>5. \A g \in Issued : \E b \in Batch' : bFrom'[b] = "client" /\ g \in bTx'[b] /\ b \notin Pend'
    BY <1>10, <2>1 DEF RpcOnce
  <2> QED
    BY <1>2, <1>13, <2>3, <2>4, <2>5, Zenon DEF RpcOnce
<1>20. EntryOwned'
  BY <1>6, <1>11, <1>15, <1>16 DEF Core, EntryOwned
<1>21. RpcEntry'
  <2>1. RpcEntry
    BY <1>6 DEF Core
  <2>2. ASSUME NEW c \in Pend', NEW g \in bTx'[c] \ Rejectable, bFrom'[c] = "rpc"
        PROVE  watcher'[g] # "none" \/ bProm'[c] = "exception"
    <3>1. CASE c = n
      BY <1>10, <1>11, <2>2, <3>1
    <3>2. CASE c \in Pend
      <4>1. c \in Batch /\ g \in bTx[c] /\ bFrom[c] = "rpc" /\ bProm'[c] = bProm[c] /\ g \in Tx
        BY <1>10, <2>2, <3>2 DEF TypeInv, BatchTyped, Batch
      <4>2. watcher[g] # "none" \/ bProm[c] = "exception"
        BY <1>1, <2>1, <2>2, <3>2, <4>1 DEF RpcEntry
      <4> QED
        BY <1>11, <4>1, <4>2
    <3> QED
      BY <1>10, <3>1, <3>2
  <2>3. \A c \in Collecting' : bFrom'[c] = "rpc" => bProm'[c] \notin {"none", "exception"}
    BY <1>10, <2>1 DEF RpcEntry
  <2>4. \A c \in Batch' : bProm'[c] = "exception" => bFrom'[c] = "rpc"
    BY <1>10, <2>1 DEF RpcEntry
  <2> QED
    BY <2>2, <2>3, <2>4 DEF RpcEntry
<1>22. CallsFirst'
  <2>1. CallsFirst
    BY <1>6 DEF Core
  <2>2. \A g \in Calling' : g \notin Seen
    BY <1>14, <2>1 DEF CallsFirst
  <2>3. \A g \in Told : g \in Tx /\ g # h
    BY <1>16, <2>1 DEF Told, CallsFirst
  <2>4. \A g \in Told : /\ g \notin Issued
                        /\ g \in Owned' => watcher'[g] = "inved"
                        /\ g \in Owned' \/ \E b \in Batch' : bFrom'[b] = "client" /\ g \in bTx'[b]
    BY <1>10, <1>11, <1>15, <2>1, <2>3 DEF CallsFirst
  <2>5. /\ bFrom'[rpcJob'.batch] = "rpc" /\ bTx'[rpcJob'.batch] = {rpcJob'.tx}
        /\ bProm'[rpcJob'.batch] = "none"
    BY <1>8, <1>9, <1>10
  <2> QED
    BY <1>4, <1>12, <1>13, <2>1, <2>2, <2>4, <2>5, Zenon DEF CallsFirst
<1>23. Bodies'
  BY <1>4, <1>6, <1>12, BodiesSame, Zenon
<1> QED
  BY <1>10, <1>17, <1>18, <1>19, <1>20, <1>21, <1>22, <1>23 DEF OwnInv, Core

(* What the RPC thread works on while it is busy. *)
LEMMA RpcBusy ==
    ASSUME TypeInv, OwnInv, rpcStep # "idle"
    PROVE  /\ rpcJob \in Packet /\ rpcJob.batch \in Batch /\ rpcJob.tx \in Tx
           /\ bFrom[rpcJob.batch] = "rpc" /\ bTx[rpcJob.batch] = {rpcJob.tx}
           /\ rpcJob.tx \in Issued /\ rpcJob.tx \notin Owned /\ rpcJob.tx \notin RpcWait
           /\ rpcJob.tx \notin Rejectable => bProm[rpcJob.batch] = "none"
           /\ \A c \in Batch : bFrom[c] = "rpc" /\ rpcJob.tx \in bTx[c] => c = rpcJob.batch
<1>1. rpcJob \in Packet /\ rpcJob.batch \in Batch /\ Core
  BY DEF TypeInv, RpcTyped, OwnInv
<1>2. rpcJob.tx \in Tx
  BY <1>1 DEF Packet
<1>3. /\ bFrom[rpcJob.batch] = "rpc" /\ bTx[rpcJob.batch] = {rpcJob.tx}
      /\ rpcJob.tx \notin Rejectable => bProm[rpcJob.batch] = "none"
  BY <1>1 DEF Core, CallsFirst
<1>4. rpcJob.tx \in Issued
  BY <1>1, <1>2, <1>3 DEF Issued
<1>5. rpcJob.tx \notin Owned
  BY <1>1, <1>4, IssuedNotOwned
<1>6. /\ rpcJob.tx \notin RpcWait
      /\ \A c \in Batch : bFrom[c] = "rpc" /\ rpcJob.tx \in bTx[c] => c = rpcJob.batch
  BY <1>1, <1>3 DEF Core, RpcOnce
<1> QED
  BY <1>1, <1>2, <1>3, <1>4, <1>5, <1>6

(* The call failed: the entry goes, the batch is told next. *)
LEMMA OwnRpcFail ==
    ASSUME TypeInv, OwnInv, RpcFail
    PROVE  OwnInv'
<1> DEFINE h == rpcJob.tx
<1>1. /\ rpcStep = "call" /\ rpcStep' = "failed"
      /\ watcher' = [watcher EXCEPT ![h] = "none"]
      /\ rpcJob' = [rpcJob EXCEPT !.others = @ \cup extra[h]]
      /\ UNCHANGED <<batchVars, newZcQ, rpcQ, known, rpcRest>>
  BY DEF RpcFail
<1>2. /\ bTx' = bTx /\ bFrom' = bFrom /\ bProm' = bProm /\ pc' = pc /\ todo' = todo
      /\ rpcQ' = rpcQ /\ known' = known /\ told' = told /\ newZcQ' = newZcQ /\ zc' = zc
      /\ UNCHANGED <<buffer, asked, getDataQ, preQ, parser>>
  BY <1>1 DEF batchVars, rpcRest
<1>3. /\ rpcJob \in Packet /\ rpcJob.batch \in Batch /\ h \in Tx
      /\ bFrom[rpcJob.batch] = "rpc" /\ bTx[rpcJob.batch] = {h}
      /\ h \in Issued /\ h \notin Owned /\ h \notin RpcWait
      /\ h \notin Rejectable => bProm[rpcJob.batch] = "none"
      /\ \A c \in Batch : bFrom[c] = "rpc" /\ h \in bTx[c] => c = rpcJob.batch
  BY <1>1, RpcBusy
<1>4. rpcJob'.tx = rpcJob.tx /\ rpcJob'.batch = rpcJob.batch
  BY <1>1, <1>3 DEF Packet
<1> HIDE DEF h
<1>5. QueueOnce /\ Core /\ Bodies
  BY DEF OwnInv
<1>6. /\ Batch' = Batch /\ Told' = Told /\ Seen' = Seen /\ Pend' = Pend /\ Collecting' = Collecting
      /\ RpcWait' = RpcWait
  BY <1>2, Zenon DEF Batch, Told, Seen, Pend, Collecting, In, RpcWait
<1>7. Issued' = Issued /\ Owned' = Owned
  BY <1>2, <1>6, Zenon DEF Issued, Owned
<1>8. Calling' = Calling
  BY <1>1, <1>4, <1>6 DEF Calling
<1>9. /\ watcher'[h] = "none" /\ \A g \in Tx : g # h => watcher'[g] = watcher[g]
  BY <1>1, <1>3 DEF TypeInv, WatchTyped
<1>10. TodoOnce'
  BY <1>2, <1>5, <1>6 DEF Core, TodoOnce
<1>11. ClientOnce'
  BY <1>2, <1>5, <1>6 DEF Core, ClientOnce
<1>12. RpcOnce'
  BY <1>2, <1>5, <1>6, <1>7, Zenon DEF Core, RpcOnce
<1>13. EntryOwned'
  BY <1>3, <1>5, <1>7, <1>9 DEF Core, EntryOwned
<1>14. RpcEntry'
  <2>1. RpcEntry
    BY <1>5 DEF Core
  <2>2. ASSUME NEW c \in Pend, NEW g \in bTx[c] \ Rejectable, bFrom[c] = "rpc"
        PROVE  watcher'[g] # "none" \/ rpcJob'.batch = c \/ bProm[c] = "exception"
    <3>1. c \in Batch /\ g \in Tx
      BY DEF Pend, TypeInv, BatchTyped, Batch
    <3>2. CASE g = h
      BY <1>3, <1>4, <2>2, <3>1, <3>2
    <3>3. CASE g # h
      BY <1>1, <1>9, <2>1, <2>2, <3>1, <3>3 DEF RpcEntry
    <3> QED
      BY <3>2, <3>3
  <2> QED
    BY <1>1, <1>2, <1>6, <2>1, <2>2 DEF RpcEntry
<1>15. CallsFirst'
  <2>1. CallsFirst
    BY <1>5 DEF Core
  <2>2. \A g \in Told : /\ g \notin Issued
                        /\ g \in Owned => watcher'[g] = "inved"
                        /\ g \in Owned \/ \E b \in Batch : bFrom[b] = "client" /\ g \in bTx[b]
    BY <1>3, <1>9, <2>1 DEF CallsFirst, Told
  <2>3. /\ bFrom'[rpcJob'.batch] = "rpc" /\ bTx'[rpcJob'.batch] = {rpcJob'.tx}
        /\ rpcJob'.tx \notin Rejectable => bProm'[rpcJob'.batch] = "none"
    BY <1>2, <1>3, <1>4 DEF h
  <2> QED
    BY <1>2, <1>6, <1>7, <1>8, <2>1, <2>2, <2>3, Zenon DEF CallsFirst
<1>16. QueueOnce'
  BY <1>2, <1>5, Zenon DEF QueueOnce, In
<1>17. Bodies'
  BY <1>2, <1>5, <1>6, BodiesSame, Zenon
<1> QED
  BY <1>10, <1>11, <1>12, <1>13, <1>14, <1>15, <1>16, <1>17 DEF OwnInv, Core

(* The call is over, for better or worse. *)
LEMMA OwnRpcEnd ==
    ASSUME TypeInv, OwnInv, RpcSuccess \/ RpcReport
    PROVE  OwnInv'
<1> DEFINE h == rpcJob.tx
           b == rpcJob.batch
<1>1. /\ rpcStep # "idle" /\ rpcStep' = "idle" /\ known \subseteq known'
      /\ known' \subseteq known \cup {h}
      /\ UNCHANGED <<bTx, bFrom, newZcQ, rpcQ, watchVars, rpcRest>>
  BY DEF RpcSuccess, RpcReport, RpcReportAs
<1>2. \E s \in {"success", "exception"} :
         /\ bProm' = [bProm EXCEPT ![b] = IF @ = "none" THEN s ELSE @]
         /\ rpcStep = "failed" => s = "exception"
  <2>1. CASE RpcSuccess
    BY <2>1 DEF RpcSuccess
  <2>2. CASE RpcReport
    BY <2>2 DEF RpcReport, RpcReportAs
  <2> QED
    BY <2>1, <2>2
<1>3. /\ bTx' = bTx /\ bFrom' = bFrom /\ pc' = pc /\ todo' = todo /\ watcher' = watcher
      /\ rpcQ' = rpcQ /\ told' = told /\ newZcQ' = newZcQ /\ zc' = zc
      /\ UNCHANGED <<buffer, asked, getDataQ, preQ, parser>>
  BY <1>1 DEF watchVars, rpcRest
<1>4. /\ b \in Batch /\ h \in Tx /\ bFrom[b] = "rpc" /\ bTx[b] = {h}
      /\ h \in Issued /\ h \notin Owned /\ h \notin RpcWait
      /\ h \notin Rejectable => bProm[b] = "none"
  BY <1>1, RpcBusy
<1> HIDE DEF h
<1>5. /\ \A c \in Batch : bProm[c] # "none" => bProm'[c] = bProm[c]
      /\ \A c \in Batch : bProm'[c] = "exception" => bProm[c] = "exception" \/ c = b
      /\ rpcStep = "failed" /\ bProm[b] = "none" => bProm'[b] = "exception"
  <2>1. bProm \in [Batch -> Outcomes]
    BY DEF TypeInv, BatchTyped
  <2> HIDE DEF b
  <2> QED
    BY <1>2, <1>4, <2>1
<1> HIDE DEF b
<1>6. QueueOnce /\ Core /\ Bodies
  BY DEF OwnInv
<1>7. /\ Batch' = Batch /\ Told' = Told /\ Pend' = Pend /\ Collecting' = Collecting
      /\ RpcWait' = RpcWait
  BY <1>3, Zenon DEF Batch, Told, Pend, Collecting, In, RpcWait
<1>8. Issued' = Issued /\ Owned' = Owned
  BY <1>3, <1>7, Zenon DEF Issued, Owned
<1>9. Calling' = RpcWait /\ Calling' \subseteq Calling /\ Seen' \subseteq Seen \cup {h}
  BY <1>1, <1>7 DEF Calling, Seen, RpcWait
<1>10. TodoOnce'
  BY <1>3, <1>6, <1>7 DEF Core, TodoOnce
<1>11. ClientOnce'
  BY <1>3, <1>6, <1>7 DEF Core, ClientOnce
<1>12. RpcOnce'
  BY <1>3, <1>6, <1>7, <1>8, Zenon DEF Core, RpcOnce
<1>13. EntryOwned'
  BY <1>3, <1>6, <1>8, Zenon DEF Core, EntryOwned
<1>14. RpcEntry'
  <2>1. RpcEntry
    BY <1>6 DEF Core
  <2>2. ASSUME NEW c \in Pend, NEW g \in bTx[c] \ Rejectable, bFrom[c] = "rpc"
        PROVE  watcher[g] # "none" \/ bProm'[c] = "exception"
    <3>1. c \in Batch
      BY DEF Pend
    <3>2. CASE rpcStep = "failed" /\ rpcJob.batch = c
      BY <1>4, <1>5, <2>2, <3>2 DEF b
    <3>3. CASE bProm[c] = "exception"
      BY <1>5, <3>1, <3>3
    <3> QED
      BY <2>1, <2>2, <3>2, <3>3 DEF RpcEntry
  <2>3. Collecting \subseteq Batch
    BY DEF Collecting, TypeInv, ZcTyped
  <2>4. \A c \in Collecting : bFrom[c] = "rpc" => bProm'[c] \notin {"none", "exception"}
    BY <1>5, <2>1, <2>3 DEF RpcEntry
  <2>5. \A c \in Batch : bProm'[c] = "exception" => bFrom[c] = "rpc"
    BY <1>4, <1>5, <2>1 DEF RpcEntry
  <2> QED
    BY <1>3, <1>7, <2>2, <2>4, <2>5 DEF RpcEntry
<1>15. CallsFirst'
  <2>1. CallsFirst
    BY <1>6 DEF Core
  <2>2. \A g \in Calling' : g \notin Seen'
    BY <1>4, <1>9, <2>1 DEF CallsFirst
  <2>3. \A g \in known' : g \in NetTx \/ g \in Issued
    BY <1>1, <1>4, <2>1 DEF CallsFirst, h
  <2>4. rpcStep' = "idle"
    BY <1>1
  <2> QED
    BY <1>3, <1>7, <1>8, <2>1, <2>2, <2>3, <2>4, Zenon DEF CallsFirst
<1>16. QueueOnce'
  BY <1>3, <1>6, Zenon DEF QueueOnce, In
<1>17. Bodies'
  BY <1>1, <1>3, <1>6, <1>7, BodiesSame, Zenon
<1> QED
  BY <1>10, <1>11, <1>12, <1>13, <1>14, <1>15, <1>16, <1>17 DEF OwnInv, Core

(* Nothing happens. *)
LEMMA OwnStutter ==
    ASSUME OwnInv, UNCHANGED vars
    PROVE  OwnInv'
<1>1. /\ bTx' = bTx /\ bFrom' = bFrom /\ bProm' = bProm /\ pc' = pc /\ todo' = todo
      /\ watcher' = watcher /\ rpcQ' = rpcQ /\ rpcStep' = rpcStep /\ rpcJob' = rpcJob
      /\ known' = known /\ told' = told /\ newZcQ' = newZcQ /\ zc' = zc
      /\ UNCHANGED <<buffer, asked, getDataQ, preQ, parser>>
  BY DEF vars, batchVars, queueVars, watchVars, nodeVars
<1>2. Pend' = Pend /\ Collecting' = Collecting /\ Told' = Told
  BY <1>1, Zenon DEF Pend, Collecting, Told, In, Batch
<1>3. QueueOnce /\ Core /\ Bodies
  BY DEF OwnInv
<1>4. Core'
  BY <1>1, <1>2, <1>3, CoreSame, Zenon DEF coreVars
<1>5. QueueOnce'
  BY <1>1, <1>3, Zenon DEF QueueOnce, In
<1>6. Bodies'
  BY <1>1, <1>2, <1>3, BodiesSame, Zenon
<1> QED
  BY <1>4, <1>5, <1>6 DEF OwnInv

(* Ownership is inductive, given the typing. *)
LEMMA OwnNext ==
    ASSUME FirstBroadcasts
    PROVE  TypeInv /\ OwnInv /\ [Next]_vars => OwnInv'
<1> SUFFICES ASSUME TypeInv, OwnInv, [Next]_vars PROVE OwnInv'
  OBVIOUS
<1>1. ASSUME NEW r \in Requests, BroadcastZC(r) \/ BroadcastBatch(r) PROVE OwnInv'
  BY <1>1, OwnBroadcastZC, OwnBroadcastBatch
<1>2. ASSUME NEW p \in Parsers, Parser(p) PROVE OwnInv'
  BY <1>2, OwnParser
<1>3. CASE ZcThread \/ PushNewBlock
  BY <1>3, OwnZcQuiet, OwnCollect, Zenon DEF ZcThread
<1>4. CASE RpcThread
  BY <1>4, OwnRpcTie, OwnRpcMake, OwnRpcFail, OwnRpcEnd, Zenon DEF RpcThread
<1>5. CASE Node
  BY <1>5, OwnInvWatcher, OwnNode, Zenon DEF Node
<1> QED
  BY <1>1, <1>2, <1>3, <1>4, <1>5, OwnInvFlush, OwnMatcher, OwnStutter, Zenon DEF Next

(* An entry that is owned, or of a call that has not failed, is there. *)
LEMMA OwnedFound ==
    ASSUME TypeInv, OwnInv
    PROVE  WatcherOwned
<1> SUFFICES ASSUME zc.step = "collect", bFrom[zc.batch] # "inv",
                    NEW h \in bTx[zc.batch] \ Rejectable
             PROVE  watcher[h] # "none"
  BY DEF WatcherOwned
<1> DEFINE b == zc.batch
<1>1. b \in Batch /\ b \in Collecting /\ b \in Pend /\ Core
  BY DEF OwnInv, TypeInv, ZcTyped, Collecting, Pend
<1>2. h \in Tx /\ bFrom[b] \in {"client", "rpc"}
  BY <1>1 DEF TypeInv, BatchTyped, Batch
<1>3. CASE bFrom[b] = "client"
  <2>1. h \in Owned
    BY <1>1, <1>2, <1>3 DEF Owned
  <2> QED
    BY <1>1, <1>2, <2>1 DEF Core, EntryOwned
<1>4. CASE bFrom[b] = "rpc"
  <2>1. bProm[b] \notin {"none", "exception"}
    BY <1>1, <1>4 DEF Core, RpcEntry
  <2>2. ~(rpcStep = "failed" /\ rpcJob.batch = b)
    <3> SUFFICES ASSUME rpcStep = "failed", rpcJob.batch = b PROVE FALSE
      OBVIOUS
    <3>1. h = rpcJob.tx /\ bProm[b] = "none"
      BY <1>1 DEF Core, CallsFirst
    <3> QED
      BY <2>1, <3>1
  <2> QED
    BY <1>1, <1>4, <2>1, <2>2 DEF Core, RpcEntry
<1> QED
  BY <1>2, <1>3, <1>4

(* getBatchTxMap finds the entry of every transaction of the batch that the node
   cannot reject, for any number of clients, batches and threads: an entry a
   client has made stays until its batch takes it, and that of an RPC call until
   the call fails, which fails the batch before it collects. *)
THEOREM EntriesFound ==
    ASSUME FirstBroadcasts
    PROVE  Spec => []WatcherOwned
<1>1. Init => TypeInv /\ OwnInv
  BY TypeInit, OwnInit
<1>2. TypeInv /\ OwnInv /\ [Next]_vars => TypeInv' /\ OwnInv'
  BY TypeNext, OwnNext
<1>3. TypeInv /\ OwnInv => WatcherOwned
  BY OwnedFound
<1> QED
  BY <1>1, <1>2, <1>3, PTL DEF Spec

-----------------------------------------------------------------------------
(* What is parsed has a body *)

(* A batch all of whose transactions have a body. *)
Complete(b) == bTx[b] \subseteq bReady[b]

(* A batch is complete when it is said to be. *)
SuccessComplete ==
    /\ \A p \in Parsers : parser[p].step = "set" => Complete(parser[p].job.batch)
    /\ \A b \in Batch : bProm[b] = "success" => Complete(b)
    /\ zc.step # "idle" /\ zc.result = "success" => Complete(zc.batch)

(* Batches of clients the zc thread is not done with. *)
Parsing == IF zc.step = "parse" THEN {zc.batch} ELSE {}
Live == {b \in Batch : bFrom[b] = "client" /\ (b \in Pend \/ b \in Parsing)}

(* h's body is there for b, or on its way. *)
BodyFor(b, h) ==
    \/ h \in bReady[b]
    \/ \E i \in DOMAIN preQ : preQ[i].batch = b /\ preQ[i].tx = h
    \/ \E p \in Parsers : /\ parser[p].step # "idle"
                          /\ parser[p].job.batch = b /\ parser[p].job.tx = h

(* Their bodies come from the watcher node alone. *)
LiveTold == \A b \in Live : \A h \in bTx[b] : BodyFor(b, h) => h \in Told

(* While such a batch is parsed, what it sent through RPC cannot come back to
   it from the network ... *)
NoReturn(h) ==
    /\ h \in known \/ (rpcStep = "call" /\ rpcJob.tx = h) => watcher[h] = "ignored"
    /\ h \notin buffer /\ h \notin asked
    /\ \A i \in DOMAIN getDataQ : getDataQ[i].kind = "payload" /\ getDataQ[i].tx = h => h \in Told

(* ... and a failed one keeps all that the watcher node has announced. *)
ParsedTold ==
    zc.step = "parse" /\ bFrom[zc.batch] = "client" =>
        \A h \in bTx[zc.batch] :
            /\ NoReturn(h)
            /\ zc.result # "success" /\ h \in Told => h \in zc.keep

(* What the zc thread keeps. *)
KeepTyped ==
    /\ zc.step # "parse" => zc.keep = {}
    /\ zc.step = "parse" => zc.keep \subseteq bTx[zc.batch]
    /\ zc.step = "parse" /\ zc.result # "success" /\ bFrom[zc.batch] # "client" => zc.keep = {}

BodyInv == SuccessComplete /\ LiveTold /\ ParsedTold /\ KeepTyped

(* A step that makes batch n. *)
MoreBatch(n) ==
    /\ n \notin Batch /\ Batch' = Batch \cup {n}
    /\ \A b \in Batch : /\ bTx'[b] = bTx[b] /\ bFrom'[b] = bFrom[b]
                        /\ bProm'[b] = bProm[b] /\ bReady'[b] = bReady[b]
    /\ bProm'[n] = "none" /\ bReady'[n] = {}
    /\ \A y : In(newZcQ', y) <=> In(newZcQ, y) \/ y = n

(* initiateZcBatch, seen by the bodies. *)
LEMMA MakesBatch ==
    ASSUME TypeInv, NEW from \in {"client", "inv", "rpc"},
           NEW req \in Requests \cup {None}, from # "inv" => req \in Requests,
           NEW hashes \in SUBSET Tx, InitiateZcBatch(from, req, hashes)
    PROVE  MoreBatch(Len(bTx) + 1)
<1> DEFINE n == Len(bTx) + 1
<1>1. BatchTyped /\ newZcQ \in Seq(Batch \cup {0})
  BY DEF TypeInv, ZcTyped
<1>2. Cardinality(hashes) \in Nat /\ NewBatch(from, req, hashes, Cardinality(hashes))
  BY ZcBatchAssumption, FS_Subset, FS_CardinalityType DEF InitiateZcBatch
<1>3. n \notin Batch /\ Batch' = Batch \cup {n}
  BY <1>1, <1>2, NewBatchTyped, Zenon
<1>4. \A b \in Batch : /\ bTx'[b] = bTx[b] /\ bFrom'[b] = bFrom[b]
                       /\ bProm'[b] = bProm[b] /\ bReady'[b] = bReady[b]
  BY <1>1, <1>2, NewBatchTyped, Zenon
<1>5. bProm'[n] = "none"
  BY <1>1, <1>2, NewBatchTyped, Zenon
<1>6. bReady'[n] = {}
  BY <1>1, <1>2, NewBatchTyped, Zenon
<1>7. newZcQ' = Append(newZcQ, n)
  BY <1>2 DEF NewBatch
<1> HIDE DEF n
<1>8. newZcQ \in Seq(Batch' \cup {0}) /\ n \in Batch' \cup {0}
  BY <1>1, <1>3
<1>9. \A y : In(newZcQ', y) <=> In(newZcQ, y) \/ y = n
  BY <1>7, <1>8, AppendIn
<1> QED
  BY <1>3, <1>4, <1>5, <1>6, <1>9, Zenon DEF MoreBatch, n

(* The steps that make a batch. *)
Making == \/ \E r \in Requests : BroadcastBatch(r)
          \/ InvFlush
          \/ RpcTake /\ watcher[Head(rpcQ).tx] = "none"

(* They leave bodies, parsers and zc thread alone. *)
LEMMA MakingFacts ==
    ASSUME TypeInv, Making
    PROVE  /\ \E n : MoreBatch(n)
           /\ UNCHANGED <<preQ, parser, zc, told, known, getDataQ>>
<1>1. CASE \E r \in Requests : BroadcastBatch(r)
  <2>1. PICK r \in Requests : BroadcastBatch(r)
    BY <1>1
  <2>2. InitiateZcBatch("client", r, todo[r]) /\ UNCHANGED <<preQ, parser, zc, told, known, getDataQ>>
    BY <2>1 DEF BroadcastBatch
  <2>3. todo[r] \in SUBSET Tx /\ "client" \in {"client", "inv", "rpc"} /\ r \in Requests \cup {None}
    BY DEF TypeInv, ClientTyped
  <2>4. MoreBatch(Len(bTx) + 1)
    BY <2>2, <2>3, MakesBatch
  <2> QED
    BY <2>2, <2>4, Zenon
<1>2. CASE InvFlush
  <2>2. InitiateZcBatch("inv", None, buffer) /\ UNCHANGED <<preQ, parser, zc, told, known, getDataQ>>
    BY <1>2 DEF InvFlush
  <2>3. buffer \in SUBSET Tx /\ "inv" \in {"client", "inv", "rpc"} /\ None \in Requests \cup {None}
    BY DEF TypeInv, NodeTyped
  <2>4. MoreBatch(Len(bTx) + 1)
    BY <2>2, <2>3, MakesBatch
  <2> QED
    BY <2>2, <2>4, Zenon
<1>3. CASE RpcTake /\ watcher[Head(rpcQ).tx] = "none"
  <2> DEFINE k == Head(rpcQ)
  <2>1. /\ rpcQ # <<>> /\ rpcQ \in Seq(Packet) /\ UNCHANGED <<preQ, parser, zc, told, known, getDataQ>>
        /\ InitiateZcBatch("rpc", k.req, {k.tx})
    BY <1>3 DEF RpcTake, rpcRest, TypeInv, RpcTyped
  <2>2. k \in Packet
    BY <2>1, TailIn
  <2> HIDE DEF k
  <2>3. /\ k.req \in Requests /\ k.req \in Requests \cup {None}
        /\ {k.tx} \in SUBSET Tx /\ "rpc" \in {"client", "inv", "rpc"}
    BY <2>2 DEF Packet
  <2>4. MoreBatch(Len(bTx) + 1)
    BY <2>1, <2>3, MakesBatch
  <2> QED
    BY <2>1, <2>4, Zenon
<1> QED
  BY <1>1, <1>2, <1>3 DEF Making

(* Nothing else makes batches or moves the zc thread. *)
LEMMA SameBatches ==
    ASSUME [Next]_vars
    PROVE  Making \/ UNCHANGED <<bTx, bFrom>>
<1> SUFFICES ASSUME ~Making PROVE bTx' = bTx /\ bFrom' = bFrom
  OBVIOUS
<1>1. ASSUME NEW r \in Requests, BroadcastZC(r) PROVE bTx' = bTx /\ bFrom' = bFrom
  BY <1>1 DEF BroadcastZC, Register, batchVars
<1>2. ASSUME NEW p \in Parsers, Parser(p) PROVE bTx' = bTx /\ bFrom' = bFrom
  BY <1>2, Zenon DEF Parser, ParserPayload, ParserParse, ParserCount, ParserSet, parserRest, batchVars
<1>3. CASE Matcher
  BY <1>3, Zenon DEF Matcher, MatcherMatch, MatcherClear, batchVars
<1>4. CASE ZcThread
  BY <1>4, Zenon DEF ZcThread, ZcPurge, ZcWake, ZcTimeout, ZcCollectInv, ZcCollectWatched,
                     CollectWatched, ZcParse, zcRest
<1>5. CASE PushNewBlock
  BY <1>5, Zenon DEF PushNewBlock, batchVars
<1>6. CASE RpcThread
  BY <1>6, Zenon DEF Making, RpcThread, RpcTake, RpcSuccess, RpcFail, RpcReport, RpcReportAs, batchVars
<1>7. CASE Node
  BY <1>7, Zenon DEF Node, InvWatcher, InvProcess, NodeServe, NodeReject, nodeRest, batchVars
<1>8. CASE UNCHANGED vars
  BY <1>8, Zenon DEF vars, batchVars
<1> QED
  BY <1>1, <1>2, <1>3, <1>4, <1>5, <1>6, <1>7, <1>8, Zenon DEF Next, Making

(* Nothing else moves the zc thread. *)
LEMMA SameZc ==
    ASSUME [Next]_vars
    PROVE  \/ ZcWake \/ ZcTimeout \/ ZcCollectInv \/ ZcCollectWatched \/ ZcParse
           \/ zc' = zc
<1>1. ASSUME NEW r \in Requests, BroadcastZC(r) \/ BroadcastBatch(r) PROVE zc' = zc
  BY <1>1, Zenon DEF BroadcastZC, Register, BroadcastBatch
<1>2. ASSUME NEW p \in Parsers, Parser(p) PROVE zc' = zc
  BY <1>2, Zenon DEF Parser, ParserPayload, ParserParse, ParserCount, ParserSet, parserRest
<1>3. CASE Matcher
  BY <1>3, Zenon DEF Matcher, MatcherMatch, MatcherClear
<1>4. CASE ZcPurge \/ PushNewBlock \/ InvFlush
  BY <1>4, Zenon DEF ZcPurge, PushNewBlock, InvFlush
<1>5. CASE RpcThread
  BY <1>5, Zenon DEF RpcThread, RpcTake, RpcSuccess, RpcFail, RpcReport, RpcReportAs, rpcRest
<1>6. CASE Node
  BY <1>6, Zenon DEF Node, InvWatcher, InvProcess, NodeServe, NodeReject, nodeRest
<1>7. CASE UNCHANGED vars
  BY <1>7, Zenon DEF vars
<1> QED
  BY <1>1, <1>2, <1>3, <1>4, <1>5, <1>6, <1>7, Zenon DEF Next, ZcThread

(* What the zc thread takes from the queue, and how. *)
LEMMA TakeFacts ==
    ASSUME TypeInv, ZcWake \/ ZcTimeout
    PROVE  /\ UNCHANGED <<bTx, bFrom, bProm, bReady, preQ, parser, told, known, rpcStep, rpcJob,
                          buffer, asked, getDataQ, watcher>>
           /\ zc.step = "idle" /\ zc'.batch \in Batch /\ zc'.keep = zc.keep
           /\ zc'.step \in {"collect", "parse"}
           /\ zc'.result = "timeout" \/ zc'.result = bProm[zc'.batch]
           /\ zc'.step = "parse" => zc'.result = "exception" /\ bProm[zc'.batch] = "exception"
           /\ In(newZcQ, zc'.batch) /\ \A y : In(newZcQ', y) => In(newZcQ, y)
<1> DEFINE b == Head(newZcQ)
<1>1. /\ zc.step = "idle" /\ newZcQ # <<>> /\ newZcQ' = Tail(newZcQ) /\ b # 0
      /\ UNCHANGED zcRest /\ UNCHANGED watchVars
  BY DEF ZcWake, ZcTimeout, ZcIdling, ZcHead
<1>2. newZcQ \in Seq(Batch \cup {0}) /\ zc \in ZcRecord
  BY DEF TypeInv, ZcTyped
<1>3. /\ b \in Batch \cup {0} /\ b = newZcQ[1] /\ 1 \in DOMAIN newZcQ
      /\ \A y : In(newZcQ, y) <=> In(newZcQ', y) \/ y = b
  BY <1>1, <1>2, TailIn
<1>4. b \in Batch /\ b \in Nat /\ bProm[b] \in Outcomes
  BY <1>1, <1>3 DEF TypeInv, BatchTyped, Batch
<1> HIDE DEF b
<1>5. /\ zc'.batch = b /\ zc'.keep = zc.keep /\ zc'.step \in {"collect", "parse"}
      /\ zc'.result = "timeout" \/ zc'.result = bProm[b]
      /\ zc'.step = "parse" => zc'.result = "exception" /\ bProm[b] = "exception"
  <2>1. CASE ZcWake
    <3> DEFINE s == IF bProm[b] = "exception" THEN "parse" ELSE "collect"
    <3>1. zc' = [zc EXCEPT !.batch = b, !.result = bProm[b], !.step = s]
      BY <2>1, Zenon DEF ZcWake, ZcHead, b
    <3>2. s \in {"collect", "parse"} /\ (s = "parse" => bProm[b] = "exception")
      OBVIOUS
    <3> HIDE DEF s
    <3> QED
      BY <1>2, <1>4, <3>1, <3>2 DEF ZcRecord
  <2>2. CASE ZcTimeout
    <3>1. zc' = [zc EXCEPT !.batch = b, !.result = "timeout", !.step = "collect"]
      BY <2>2, Zenon DEF ZcTimeout, ZcHead, b
    <3> QED
      BY <1>2, <1>4, <3>1 DEF ZcRecord
  <2> QED
    BY <2>1, <2>2
<1>6. UNCHANGED <<bTx, bFrom, bProm, bReady, preQ, parser, told, known, rpcStep, rpcJob,
                  buffer, asked, getDataQ, watcher>>
  BY <1>1 DEF zcRest, nodeVars, watchVars
<1> QED
  BY <1>1, <1>3, <1>4, <1>5, <1>6, Zenon

(* What it keeps of a batch. *)
LEMMA KeepFacts ==
    ASSUME TypeInv, ZcCollectInv \/ ZcCollectWatched
    PROVE  /\ UNCHANGED <<bTx, bFrom, bProm, bReady, preQ, parser, told, known, rpcStep, rpcJob,
                          buffer, asked, getDataQ, newZcQ>>
           /\ zc.step = "collect" /\ zc'.step = "parse" /\ zc.batch \in Batch
           /\ zc'.batch = zc.batch /\ zc'.result = zc.result
           /\ zc'.keep \subseteq bTx[zc.batch]
           /\ zc.result # "success" /\ bFrom[zc.batch] # "client" => zc'.keep = {}
           /\ zc.result # "success" /\ bFrom[zc.batch] = "client" =>
                 zc'.keep = Inved \/ \E h \in bTx[zc.batch] : watcher[h] = "none"
<1> DEFINE b == zc.batch
<1>1. zc.step = "collect" /\ b \in Batch /\ zc \in ZcRecord
  BY DEF ZcCollectInv, ZcCollectWatched, CollectWatched, TypeInv, ZcTyped
<1>2. bTx[b] \subseteq Tx /\ bFrom[b] \in {"client", "inv", "rpc"} /\ Inved \subseteq bTx[b]
  BY <1>1 DEF TypeInv, BatchTyped, Batch, Inved
<1>3. UNCHANGED <<bTx, bFrom, bProm, bReady, preQ, parser, told, known, rpcStep, rpcJob,
                  buffer, asked, getDataQ, newZcQ>>
  BY Zenon DEF ZcCollectInv, ZcCollectWatched, CollectWatched, zcRest, nodeVars
<1>4. CASE ZcCollectInv
  <2> DEFINE k == IF zc.result = "success" THEN bTx[b] ELSE {}
  <2>1. zc' = [zc EXCEPT !.step = "parse", !.keep = k] /\ bFrom[b] = "inv"
    BY <1>4 DEF ZcCollectInv
  <2>2. k \subseteq bTx[b] /\ (zc.result # "success" => k = {})
    OBVIOUS
  <2> HIDE DEF k
  <2>3. zc'.step = "parse" /\ zc'.batch = zc.batch /\ zc'.result = zc.result /\ zc'.keep = k
    BY <1>1, <1>2, <2>1, <2>2 DEF ZcRecord
  <2> QED
    BY <1>1, <1>3, <2>1, <2>2, <2>3, Zenon
<1>5. CASE ZcCollectWatched
  <2> DEFINE missing == \E h \in bTx[b] : watcher[h] = "none"
             carry(k) == [h \in Tx |-> IF h \in k THEN extra[h] ELSE {}]
             parse(k) == zc' = [zc EXCEPT !.step = "parse", !.keep = k, !.carried = carry(k)]
  <2>1. /\ bFrom[b] # "inv"
        /\ IF missing \/ (zc.result # "success" /\ bFrom[b] = "rpc")
             THEN parse({}) /\ UNCHANGED <<answered, rpcQ>>
             ELSE IF zc.result = "success"
             THEN parse(bTx[b]) /\ UNCHANGED <<answered, rpcQ>>
             ELSE parse(Inved) /\ ErrorCallback(bTx[b] \ Inved)
    BY <1>5, Zenon DEF ZcCollectWatched, CollectWatched
  <2> HIDE DEF missing, parse
  <2>2. \E k \in SUBSET bTx[b] :
           /\ parse(k)
           /\ zc.result # "success" /\ bFrom[b] # "client" => k = {}
           /\ zc.result # "success" /\ bFrom[b] = "client" => k = Inved \/ missing
    <3>1. {} \in SUBSET bTx[b] /\ bTx[b] \in SUBSET bTx[b] /\ Inved \in SUBSET bTx[b]
      BY <1>2
    <3>2. bFrom[b] = "client" \/ bFrom[b] = "rpc"
      BY <1>2, <2>1
    <3>3. "client" # "rpc"
      OBVIOUS
    <3> QED
      BY <2>1, <3>1, <3>2, <3>3, Zenon
  <2>3. PICK k \in SUBSET bTx[b] :
           /\ parse(k)
           /\ zc.result # "success" /\ bFrom[b] # "client" => k = {}
           /\ zc.result # "success" /\ bFrom[b] = "client" => k = Inved \/ missing
    BY <2>2
  <2>4. zc' = [zc EXCEPT !.step = "parse", !.keep = k, !.carried = carry(k)]
    BY <2>3 DEF parse
  <2>5. carry(k) \in [Tx -> SUBSET Requests]
    BY DEF TypeInv, WatchTyped
  <2> HIDE DEF carry
  <2>6. zc'.step = "parse" /\ zc'.batch = zc.batch /\ zc'.result = zc.result /\ zc'.keep = k
    BY <1>1, <1>2, <2>4, <2>5 DEF ZcRecord
  <2> QED
    BY <1>1, <1>3, <2>3, <2>6, Zenon DEF missing
<1> QED
  BY <1>4, <1>5

(* What is kept is of the batch, after every step. *)
LEMMA KeepNext ==
    ASSUME TypeInv, OwnInv, KeepTyped, [Next]_vars
    PROVE  KeepTyped'
<1>1. CASE ZcWake \/ ZcTimeout
  <2>1. /\ zc.step = "idle" /\ zc'.keep = zc.keep /\ zc'.step \in {"collect", "parse"}
        /\ zc'.batch \in Batch /\ bFrom' = bFrom /\ bTx' = bTx
    BY <1>1, TakeFacts
  <2>2. zc'.keep = {}
    BY <2>1 DEF KeepTyped
  <2> QED
    BY <2>2 DEF KeepTyped
<1>2. CASE ZcCollectInv \/ ZcCollectWatched
  BY <1>2, KeepFacts, Zenon DEF KeepTyped
<1>3. CASE ZcParse
  <2>1. zc'.step = "idle" /\ zc'.keep = {}
    BY <1>3 DEF ZcParse, ZcIdle
  <2> QED
    BY <2>1 DEF KeepTyped
<1>4. CASE zc' = zc
  <2>1. zc.step = "parse" => bTx'[zc.batch] = bTx[zc.batch] /\ bFrom'[zc.batch] = bFrom[zc.batch]
    <3> SUFFICES ASSUME zc.step = "parse"
                 PROVE  bTx'[zc.batch] = bTx[zc.batch] /\ bFrom'[zc.batch] = bFrom[zc.batch]
      OBVIOUS
    <3>1. zc.batch \in Batch
      BY DEF TypeInv, ZcTyped
    <3>2. CASE Making
      BY <3>1, <3>2, MakingFacts, Zenon DEF MoreBatch
    <3>3. CASE bTx' = bTx /\ bFrom' = bFrom
      BY <3>3, Zenon
    <3> QED
      BY <3>2, <3>3, SameBatches
  <2> QED
    BY <1>4, <2>1, Zenon DEF KeepTyped
<1> QED
  BY <1>1, <1>2, <1>3, <1>4, SameZc

(* The RPC thread hands over the one body of its batch. *)
LEMMA RpcBody ==
    ASSUME TypeInv, RpcSuccess
    PROVE  /\ rpcJob.batch \in Batch /\ rpcJob.tx \in Tx
           /\ bTx[rpcJob.batch] = {rpcJob.tx} /\ bReady'[rpcJob.batch] = {rpcJob.tx}
           /\ \A b \in Batch : b # rpcJob.batch => bReady'[b] = bReady[b] /\ bProm'[b] = bProm[b]
           /\ UNCHANGED <<bTx, bFrom, parser, preQ, zc, newZcQ, told>>
<1>1. rpcJob \in Packet /\ rpcJob.batch \in Batch /\ bTx[rpcJob.batch] = {rpcJob.tx}
  BY DEF RpcSuccess, TypeInv, RpcTyped
<1>2. /\ bReady' = [bReady EXCEPT ![rpcJob.batch] = {rpcJob.tx}]
      /\ bProm' = [bProm EXCEPT ![rpcJob.batch] = IF @ = "none" THEN "success" ELSE @]
      /\ UNCHANGED <<bTx, bFrom, parser, preQ, zc, newZcQ, told>>
  BY DEF RpcSuccess, rpcRest
<1>3. bReady \in [Batch -> SUBSET Tx] /\ bProm \in [Batch -> Outcomes]
  BY DEF TypeInv, BatchTyped
<1>4. rpcJob.tx \in Tx
  BY <1>1 DEF Packet
<1>5. /\ bReady'[rpcJob.batch] = {rpcJob.tx}
      /\ \A b \in Batch : b # rpcJob.batch => bReady'[b] = bReady[b] /\ bProm'[b] = bProm[b]
  BY <1>1, <1>2, <1>3
<1> QED
  BY <1>1, <1>2, <1>4, <1>5, Zenon

(* A parser hands over the body it works on. *)
LEMMA ParserBody ==
    ASSUME TypeInv, NEW p \in Parsers, ParserParse(p)
    PROVE  /\ parser[p].step = "parse" /\ parser[p].job.batch \in Batch
           /\ \A b \in Batch : /\ bReady[b] \subseteq bReady'[b]
                               /\ b # parser[p].job.batch => bReady'[b] = bReady[b]
           /\ bReady'[parser[p].job.batch] = bReady[parser[p].job.batch] \cup {parser[p].job.tx}
<1>1. bReady \in [Batch -> SUBSET Tx]
  BY DEF TypeInv, BatchTyped
<1>2. parser[p].step = "parse" /\ parser[p].job.batch \in Batch
  BY DEF ParserParse, TypeInv, Books, MatchTyped
<1>3. bReady' = [bReady EXCEPT ![parser[p].job.batch] = @ \cup {parser[p].job.tx}]
  BY DEF ParserParse
<1> QED
  BY <1>1, <1>2, <1>3

(* Nothing else gives a batch a body. *)
LEMMA SameReady ==
    ASSUME [Next]_vars
    PROVE  Making \/ (\E p \in Parsers : ParserParse(p)) \/ RpcSuccess \/ UNCHANGED <<bTx, bReady>>
<1>1. ASSUME NEW r \in Requests, BroadcastZC(r) PROVE bReady' = bReady
  BY <1>1 DEF BroadcastZC, Register, batchVars
<1>2. ASSUME NEW p \in Parsers, Parser(p), ~ParserParse(p) PROVE bReady' = bReady
  BY <1>2, Zenon DEF Parser, ParserPayload, ParserCount, ParserSet, batchVars
<1>3. CASE Matcher
  BY <1>3, Zenon DEF Matcher, MatcherMatch, MatcherClear, batchVars
<1>4. CASE ZcThread
  BY <1>4, Zenon DEF ZcThread, ZcPurge, ZcWake, ZcTimeout, ZcCollectInv, ZcCollectWatched,
                     CollectWatched, ZcParse, zcRest
<1>5. CASE PushNewBlock
  BY <1>5, Zenon DEF PushNewBlock, batchVars
<1>6. CASE RpcThread
  BY <1>6, Zenon DEF Making, RpcThread, RpcTake, RpcFail, RpcReport, RpcReportAs, batchVars
<1>7. CASE Node
  BY <1>7, Zenon DEF Node, InvWatcher, InvProcess, NodeServe, NodeReject, nodeRest, batchVars
<1>8. CASE UNCHANGED vars
  BY <1>8, Zenon DEF vars, batchVars
<1>9. \/ Making \/ (\E p \in Parsers : ParserParse(p)) \/ RpcSuccess \/ bReady' = bReady
  BY <1>1, <1>2, <1>3, <1>4, <1>5, <1>6, <1>7, <1>8, Zenon DEF Next, Making
<1> QED
  BY <1>9, SameBatches, Zenon

(* A complete batch stays complete. *)
LEMMA CompleteStays ==
    ASSUME TypeInv, [Next]_vars, NEW b \in Batch, bTx[b] \subseteq bReady[b]
    PROVE  b \in Batch' /\ bTx'[b] \subseteq bReady'[b]
<1>1. CASE Making
  <2>1. PICK n : MoreBatch(n)
    BY <1>1, MakingFacts
  <2> QED
    BY <2>1, Zenon DEF MoreBatch
<1>2. ASSUME NEW p \in Parsers, ParserParse(p)
      PROVE  b \in Batch' /\ bTx'[b] \subseteq bReady'[b]
  <2>1. bTx' = bTx
    BY <1>2 DEF ParserParse, parserRest
  <2>2. bReady[b] \subseteq bReady'[b]
    BY <1>2, ParserBody
  <2> QED
    BY <2>1, <2>2 DEF Batch
<1>3. CASE RpcSuccess
  <2>1. /\ bTx' = bTx /\ bTx[rpcJob.batch] = {rpcJob.tx} /\ bReady'[rpcJob.batch] = {rpcJob.tx}
        /\ \A c \in Batch : c # rpcJob.batch => bReady'[c] = bReady[c]
    BY <1>3, RpcBody
  <2> QED
    BY <2>1 DEF Batch
<1>4. CASE UNCHANGED <<bTx, bReady>>
  BY <1>4 DEF Batch
<1> QED
  BY <1>1, <1>2, <1>3, <1>4, SameReady, Zenon

(* The parser that counts the last transaction of a batch finds it complete. *)
LEMMA LastCounted ==
    ASSUME TypeInv, NEW p \in Parsers, parser[p].step = "count",
           bCount[parser[p].job.batch] = 1
    PROVE  bTx[parser[p].job.batch] \subseteq bReady[parser[p].job.batch]
<1> DEFINE j == parser[p].job
           b == j.batch
<1>1. /\ b \in Batch /\ j.tx \in bTx[b] /\ j.tx \in bReady[b]
  BY DEF TypeInv, Books, MatchTyped, CountedReady
<1>2. bTx[b] \subseteq Tx
  BY <1>1 DEF TypeInv, BatchTyped, Batch
<1>3. Cardinality(Open[b]) <= 1
  BY <1>1 DEF TypeInv, Books, CounterCovers
<1>4. Open[b] \subseteq Tx /\ j.tx \in Open[b]
      /\ \A h \in bTx[b] : h \notin bReady[b] => h \in Open[b]
  <2>1. Open[b] = OpenAt(bTx, bReady, batchQ, matching, preQ, parser, b)
    BY <1>1, Zenon DEF Open
  <2>2. Busy(parser[p])
    BY DEF Busy
  <2> QED
    BY <1>1, <1>2, <2>1, <2>2, Zenon DEF OpenAt
<1> HIDE DEF b, j
<1>5. IsFiniteSet(Open[b])
  BY <1>4, ZcBatchAssumption, FS_Subset
<1>6. \A h \in Open[b] : h = j.tx
  <2> SUFFICES ASSUME NEW h \in Open[b], h # j.tx PROVE FALSE
    OBVIOUS
  <2>1. {h, j.tx} \subseteq Open[b]
    BY <1>4
  <2>2. Cardinality({h, j.tx}) = 2
    <3>1. IsFiniteSet({j.tx}) /\ Cardinality({j.tx}) = 1 /\ h \notin {j.tx}
      BY FS_Singleton
    <3>2. Cardinality({j.tx} \cup {h}) = Cardinality({j.tx}) + 1
      BY <3>1, FS_AddElement
    <3>3. {j.tx} \cup {h} = {h, j.tx}
      OBVIOUS
    <3> QED
      BY <3>1, <3>2, <3>3
  <2>3. Cardinality({h, j.tx}) <= Cardinality(Open[b]) /\ Cardinality(Open[b]) \in Nat
    BY <1>5, <2>1, FS_Subset, FS_CardinalityType
  <2> QED
    BY <1>3, <2>2, <2>3
<1>7. bTx[b] \subseteq bReady[b]
  BY <1>1, <1>4, <1>6
<1> QED
  BY <1>7 DEF b, j

(* Nothing else moves a parser. *)
LEMMA SameParser ==
    ASSUME [Next]_vars
    PROVE  (\E p \in Parsers : Parser(p)) \/ parser' = parser
<1>1. ASSUME NEW r \in Requests, BroadcastZC(r) \/ BroadcastBatch(r) PROVE parser' = parser
  BY <1>1, Zenon DEF BroadcastZC, Register, BroadcastBatch
<1>2. CASE InvFlush \/ Matcher \/ PushNewBlock
  BY <1>2, Zenon DEF InvFlush, Matcher, MatcherMatch, MatcherClear, PushNewBlock
<1>3. CASE ZcThread
  BY <1>3, Zenon DEF ZcThread, ZcPurge, ZcWake, ZcTimeout, ZcCollectInv, ZcCollectWatched,
                     CollectWatched, ZcParse, zcRest
<1>4. CASE RpcThread
  BY <1>4, Zenon DEF RpcThread, RpcTake, RpcSuccess, RpcFail, RpcReport, RpcReportAs, rpcRest
<1>5. CASE Node
  BY <1>5, Zenon DEF Node, InvWatcher, InvProcess, NodeServe, NodeReject, nodeRest
<1>6. CASE UNCHANGED vars
  BY <1>6, Zenon DEF vars
<1> QED
  BY <1>1, <1>2, <1>3, <1>4, <1>5, <1>6, Zenon DEF Next

(* What a parser has done after a step. *)
LEMMA ParserFacts ==
    ASSUME TypeInv, NEW p \in Parsers, Parser(p)
    PROVE  /\ \A q \in Parsers : q # p => parser'[q] = parser[q]
           /\ \/ /\ preQ # <<>> /\ parser'[p].job = Head(preQ) /\ parser'[p].step = "parse"
                 /\ preQ' = Tail(preQ) /\ bReady' = bReady
              \/ parser[p].step # "idle" /\ parser'[p].job = parser[p].job /\ preQ' = preQ
           /\ parser'[p].step = "set" => parser[p].step = "count" /\ bCount[parser[p].job.batch] = 1
           /\ UNCHANGED <<bTx, bFrom, told, zc, newZcQ>>
<1>1. UNCHANGED <<bTx, bFrom, told, zc, newZcQ>>
  BY Zenon DEF Parser, ParserPayload, ParserParse, ParserCount, ParserSet, parserRest, batchVars,
               queueVars, nodeVars
<1>2. /\ MatchTyped
      /\ parser \in [Parsers -> [step : {"idle", "parse", "count", "set"}, job : Job \cup {NoJob}]]
  BY DEF TypeInv, Books, MatchTyped
<1>3. CASE ParserPayload(p)
  <2>1. /\ preQ # <<>> /\ preQ' = Tail(preQ) /\ bReady' = bReady
        /\ parser' = [parser EXCEPT ![p] = [step |-> "parse", job |-> Head(preQ)]]
    BY <1>3 DEF ParserPayload, batchVars
  <2>2. parser'[p].step = "parse" /\ parser'[p].job = Head(preQ)
    BY <1>2, <2>1
  <2>3. \A q \in Parsers : q # p => parser'[q] = parser[q]
    BY <1>2, <2>1
  <2>4. parser'[p].step # "set"
    BY <2>2
  <2> QED
    BY <1>1, <2>1, <2>2, <2>3, <2>4, Zenon
<1>4. CASE ParserParse(p) \/ ParserCount(p) \/ ParserSet(p)
  <2>1. /\ parser[p].step # "idle" /\ UNCHANGED <<bTx, matching, batchQ, preQ>>
    BY <1>4, Zenon DEF ParserParse, ParserCount, ParserSet, parserRest, queueVars
  <2>2. PICK s \in {"idle", "parse", "count", "set"} :
          /\ Step(p, s)
          /\ s = "set" => parser[p].step = "count" /\ bCount[parser[p].job.batch] = 1
    BY <1>4 DEF ParserParse, ParserCount, ParserSet
  <2>3. /\ parser'[p].step = s /\ parser'[p].job = parser[p].job
        /\ \A q \in Parsers : q # p => parser'[q] = parser[q]
    BY <1>2, <2>1, <2>2, ParserMoves, Zenon
  <2> QED
    BY <1>1, <2>1, <2>2, <2>3, Zenon
<1> QED
  BY <1>3, <1>4 DEF Parser

(* Who says that a batch is complete. *)
LEMMA SuccessFrom ==
    ASSUME TypeInv, [Next]_vars, NEW b \in Batch', bProm'[b] = "success"
    PROVE  \/ b \in Batch /\ bProm[b] = "success"
           \/ \E p \in Parsers : parser[p].step = "set" /\ parser[p].job.batch = b
           \/ RpcSuccess /\ b = rpcJob.batch
<1>0. bProm \in [Batch -> Outcomes] /\ "none" # "success"
  BY DEF TypeInv, BatchTyped
<1>1. CASE Making
  <2>1. PICK n : MoreBatch(n)
    BY <1>1, MakingFacts
  <2>2. CASE b = n
    BY <1>0, <2>1, <2>2, Zenon DEF MoreBatch
  <2>3. CASE b # n
    <3>1. b \in Batch
      BY <2>1, <2>3 DEF MoreBatch
    <3> QED
      BY <2>1, <3>1, Zenon DEF MoreBatch
  <2> QED
    BY <2>2, <2>3
<1>2. ASSUME NEW p \in Parsers, Parser(p)
      PROVE  \/ b \in Batch /\ bProm[b] = "success"
             \/ parser[p].step = "set" /\ parser[p].job.batch = b
  <2>1. CASE ParserSet(p)
    <3>1. /\ bProm' = [bProm EXCEPT ![parser[p].job.batch] = IF @ = "none" THEN "success" ELSE @]
          /\ bTx' = bTx /\ parser[p].step = "set"
      BY <2>1 DEF ParserSet, parserRest
    <3>2. b \in Batch
      BY <3>1 DEF Batch
    <3> QED
      BY <1>0, <3>1, <3>2
  <2>2. CASE ~ParserSet(p)
    <3>1. bProm' = bProm /\ bTx' = bTx
      BY <1>2, <2>2, Zenon DEF Parser, ParserPayload, ParserParse, ParserCount, parserRest, batchVars
    <3> QED
      BY <3>1 DEF Batch
  <2> QED
    BY <2>1, <2>2
<1>3. CASE RpcSuccess
  <2>1. /\ bTx' = bTx
        /\ \A c \in Batch : c # rpcJob.batch => bProm'[c] = bProm[c]
    BY <1>3, RpcBody
  <2> QED
    BY <1>3, <2>1 DEF Batch
<1>4. CASE MatcherMatch \/ RpcReport
  <2>1. bTx' = bTx
    BY <1>4, Zenon DEF MatcherMatch, RpcReport, RpcReportAs
  <2>2. b \in Batch
    BY <2>1 DEF Batch
  <2>3. CASE MatcherMatch
    <3> DEFINE c == Drained[Head(getDataQ).tx]
    <3>1. \/ bProm' = bProm
          \/ bProm' = [bProm EXCEPT ![c] = IF @ = "none" THEN "reject" ELSE @]
      BY <2>3, Zenon DEF MatcherMatch
    <3> HIDE DEF c
    <3> QED
      BY <1>0, <2>2, <3>1
  <2>4. CASE RpcReport
    <3> DEFINE c == rpcJob.batch
    <3>1. bProm' = [bProm EXCEPT ![c] = IF @ = "none" THEN "exception" ELSE @]
      BY <2>4, Zenon DEF RpcReport, RpcReportAs
    <3> HIDE DEF c
    <3> QED
      BY <1>0, <2>2, <3>1
  <2> QED
    BY <1>4, <2>3, <2>4
<1>5. CASE bTx' = bTx /\ bProm' = bProm
  BY <1>5 DEF Batch
<1>6. \/ Making \/ (\E p \in Parsers : Parser(p)) \/ RpcSuccess \/ MatcherMatch \/ RpcReport
      \/ bTx' = bTx /\ bProm' = bProm
  <2>1. ASSUME NEW r \in Requests, BroadcastZC(r) PROVE bTx' = bTx /\ bProm' = bProm
    BY <2>1 DEF BroadcastZC, Register, batchVars
  <2>2. CASE MatcherClear \/ PushNewBlock
    BY <2>2, Zenon DEF MatcherClear, PushNewBlock, batchVars
  <2>3. CASE ZcThread
    BY <2>3, Zenon DEF ZcThread, ZcPurge, ZcWake, ZcTimeout, ZcCollectInv, ZcCollectWatched,
                       CollectWatched, ZcParse, zcRest
  <2>4. CASE RpcThread /\ ~RpcSuccess /\ ~RpcReport /\ ~Making
    BY <2>4, Zenon DEF Making, RpcThread, RpcTake, RpcFail, batchVars
  <2>5. CASE Node
    BY <2>5, Zenon DEF Node, InvWatcher, InvProcess, NodeServe, NodeReject, nodeRest, batchVars
  <2>6. CASE UNCHANGED vars
    BY <2>6, Zenon DEF vars, batchVars
  <2> QED
    BY <2>1, <2>2, <2>3, <2>4, <2>5, <2>6, Zenon DEF Next, Making, Matcher
<1> QED
  BY <1>1, <1>2, <1>3, <1>4, <1>5, <1>6, Zenon

(* A batch said to be complete is, after every step. *)
LEMMA SuccessNext ==
    ASSUME TypeInv, SuccessComplete, [Next]_vars
    PROVE  SuccessComplete'
<1>1. ASSUME NEW q \in Parsers, parser'[q].step = "set"
      PROVE  bTx'[parser'[q].job.batch] \subseteq bReady'[parser'[q].job.batch]
  <2> DEFINE b == parser'[q].job.batch
  <2>1. b \in Batch /\ bTx[b] \subseteq bReady[b]
    <3>1. CASE parser' = parser \/ parser'[q] = parser[q]
      <4>1. parser'[q] = parser[q]
        BY <3>1
      <4> QED
        BY <1>1, <4>1 DEF SuccessComplete, Complete, TypeInv, Books, MatchTyped
    <3>2. ASSUME Parser(q) PROVE b \in Batch /\ bTx[b] \subseteq bReady[b]
      <4>1. /\ parser'[q].job = parser[q].job /\ parser[q].step = "count"
            /\ bCount[parser[q].job.batch] = 1
        BY <1>1, <3>2, ParserFacts
      <4>2. bTx[parser[q].job.batch] \subseteq bReady[parser[q].job.batch]
        BY <4>1, LastCounted
      <4>3. parser[q].job.batch \in Batch
        BY <4>1 DEF TypeInv, Books, MatchTyped
      <4> QED
        BY <4>1, <4>2, <4>3
    <3>3. ASSUME NEW p \in Parsers, Parser(p), p # q PROVE parser'[q] = parser[q]
      BY <3>3, ParserFacts
    <3> QED
      BY <3>1, <3>2, <3>3, SameParser, Zenon
  <2> HIDE DEF b
  <2>2. bTx'[b] \subseteq bReady'[b]
    BY <2>1, CompleteStays
  <2> QED
    BY <2>2 DEF b
<1>2. ASSUME NEW b \in Batch', bProm'[b] = "success"
      PROVE  bTx'[b] \subseteq bReady'[b]
  <2>1. CASE b \in Batch /\ bProm[b] = "success"
    BY <2>1, CompleteStays DEF SuccessComplete, Complete
  <2>2. ASSUME NEW p \in Parsers, parser[p].step = "set", parser[p].job.batch = b
        PROVE  bTx'[b] \subseteq bReady'[b]
    <3>1. b \in Batch /\ bTx[b] \subseteq bReady[b]
      BY <2>2 DEF SuccessComplete, Complete, TypeInv, Books, MatchTyped
    <3> QED
      BY <3>1, CompleteStays
  <2>3. CASE RpcSuccess /\ b = rpcJob.batch
    BY <2>3, RpcBody
  <2> QED
    BY <1>2, <2>1, <2>2, <2>3, SuccessFrom
<1>3. ASSUME zc'.step # "idle", zc'.result = "success"
      PROVE  bTx'[zc'.batch] \subseteq bReady'[zc'.batch]
  <2> DEFINE b == zc'.batch
  <2>1. b \in Batch /\ bTx[b] \subseteq bReady[b]
    <3>1. CASE ZcWake \/ ZcTimeout
      <4>1. b \in Batch /\ (zc'.result = "timeout" \/ zc'.result = bProm[b])
        BY <3>1, TakeFacts
      <4> QED
        BY <1>3, <4>1 DEF SuccessComplete, Complete
    <3>2. CASE ZcCollectInv \/ ZcCollectWatched
      <4>1. zc.step = "collect" /\ zc.batch \in Batch /\ b = zc.batch /\ zc'.result = zc.result
        BY <3>2, KeepFacts
      <4> QED
        BY <1>3, <4>1 DEF SuccessComplete, Complete
    <3>3. CASE ZcParse
      BY <1>3, <3>3 DEF ZcParse, ZcIdle
    <3>4. CASE zc' = zc
      BY <1>3, <3>4 DEF SuccessComplete, Complete, TypeInv, ZcTyped
    <3> QED
      BY <3>1, <3>2, <3>3, <3>4, SameZc
  <2> HIDE DEF b
  <2>2. bTx'[b] \subseteq bReady'[b]
    BY <2>1, CompleteStays
  <2> QED
    BY <2>2 DEF b
<1> QED
  BY <1>1, <1>2, <1>3 DEF SuccessComplete, Complete

(* Nothing enters the queue of the zc thread but new batches and purges. *)
LEMMA QueueFrom ==
    ASSUME TypeInv, [Next]_vars, NEW b \in Batch, In(newZcQ', b)
    PROVE  In(newZcQ, b)
<1>0. newZcQ \in Seq(Batch \cup {0}) /\ b # 0
  BY DEF TypeInv, ZcTyped, BatchTyped, Batch
<1>1. CASE Making
  <2>1. PICK n : MoreBatch(n)
    BY <1>1, MakingFacts
  <2>2. n \notin Batch /\ (In(newZcQ, b) \/ b = n)
    BY <2>1, Zenon DEF MoreBatch
  <2> QED
    BY <2>2
<1>2. CASE ZcPurge \/ ZcWake \/ ZcTimeout
  <2>1. newZcQ # <<>> /\ newZcQ' = Tail(newZcQ)
    BY <1>2 DEF ZcPurge, ZcWake, ZcTimeout, ZcIdling
  <2> QED
    BY <1>0, <2>1, TailIn
<1>3. CASE PushNewBlock
  <2>1. newZcQ' = Append(newZcQ, 0) /\ 0 \in Batch \cup {0}
    BY <1>3 DEF PushNewBlock
  <2> QED
    BY <1>0, <2>1, AppendIn
<1>4. \/ Making \/ ZcPurge \/ ZcWake \/ ZcTimeout \/ PushNewBlock
      \/ newZcQ' = newZcQ
  <2>1. ASSUME NEW r \in Requests, BroadcastZC(r) PROVE newZcQ' = newZcQ
    BY <2>1 DEF BroadcastZC, Register, queueVars
  <2>2. ASSUME NEW p \in Parsers, Parser(p) PROVE newZcQ' = newZcQ
    BY <2>2, ParserFacts
  <2>3. CASE Matcher
    BY <2>3, Zenon DEF Matcher, MatcherMatch, MatcherClear
  <2>4. CASE ZcCollectInv \/ ZcCollectWatched \/ ZcParse
    BY <2>4, Zenon DEF ZcCollectInv, ZcCollectWatched, CollectWatched, ZcParse
  <2>5. CASE RpcThread /\ ~Making
    BY <2>5, Zenon DEF Making, RpcThread, RpcTake, RpcSuccess, RpcFail, RpcReport, RpcReportAs
  <2>6. CASE Node
    BY <2>6, Zenon DEF Node, InvWatcher, InvProcess, NodeServe, NodeReject, nodeRest
  <2>7. CASE UNCHANGED vars
    BY <2>7, Zenon DEF vars, queueVars
  <2> QED
    BY <2>1, <2>2, <2>3, <2>4, <2>5, <2>6, <2>7, Zenon DEF Next, Making, ZcThread
<1> QED
  BY <1>1, <1>2, <1>3, <1>4, Zenon

(* A batch the zc thread is done with stays done with. *)
LEMMA LiveFrom ==
    ASSUME TypeInv, [Next]_vars, NEW b \in Batch, b \in Live'
    PROVE  b \in Live
<1>1. bFrom'[b] = "client" /\ (In(newZcQ', b) \/ b \in Collecting' \/ b \in Parsing')
  BY DEF Live, Pend
<1>2. bFrom[b] = "client"
  <2>1. CASE Making
    BY <1>1, <2>1, MakingFacts, Zenon DEF MoreBatch
  <2>2. CASE UNCHANGED <<bTx, bFrom>>
    BY <1>1, <2>2
  <2> QED
    BY <2>1, <2>2, SameBatches
<1>3. In(newZcQ', b) => In(newZcQ, b)
  BY QueueFrom
<1>4. CASE ZcWake \/ ZcTimeout
  <2>1. In(newZcQ, zc'.batch)
    BY <1>4, TakeFacts
  <2>2. In(newZcQ, b)
    BY <1>1, <1>3, <2>1 DEF Collecting, Parsing
  <2> QED
    BY <1>2, <2>2 DEF Live, Pend
<1>5. CASE ZcCollectInv \/ ZcCollectWatched
  <2>1. zc.step = "collect" /\ zc'.step = "parse" /\ zc'.batch = zc.batch
    BY <1>5, KeepFacts
  <2>2. In(newZcQ, b) \/ b \in Collecting
    BY <1>1, <1>3, <2>1 DEF Collecting, Parsing
  <2> QED
    BY <1>2, <2>2 DEF Live, Pend
<1>6. CASE ZcParse
  <2>1. zc'.step = "idle"
    BY <1>6 DEF ZcParse, ZcIdle
  <2>2. In(newZcQ, b)
    BY <1>1, <1>3, <2>1 DEF Collecting, Parsing
  <2> QED
    BY <1>2, <2>2 DEF Live, Pend
<1>7. CASE zc' = zc
  <2>1. Collecting' = Collecting /\ Parsing' = Parsing
    BY <1>7, Zenon DEF Collecting, Parsing
  <2> QED
    BY <1>1, <1>2, <1>3, <2>1 DEF Live, Pend
<1> QED
  BY <1>4, <1>5, <1>6, <1>7, SameZc

(* The watcher node does not take back what it has announced. *)
LEMMA ToldGrows ==
    ASSUME [Next]_vars
    PROVE  Told \subseteq Told'
<1>1. told \subseteq told'
  <2>1. ASSUME NEW r \in Requests, BroadcastZC(r) \/ BroadcastBatch(r) PROVE told' = told
    BY <2>1, Zenon DEF BroadcastZC, Register, BroadcastBatch, nodeVars
  <2>2. ASSUME NEW p \in Parsers, Parser(p) PROVE told' = told
    BY <2>2, Zenon DEF Parser, ParserPayload, ParserParse, ParserCount, ParserSet, parserRest, nodeVars
  <2>3. CASE InvFlush \/ Matcher \/ PushNewBlock
    BY <2>3, Zenon DEF InvFlush, Matcher, MatcherMatch, MatcherClear, PushNewBlock, nodeVars
  <2>4. CASE ZcThread
    BY <2>4, Zenon DEF ZcThread, ZcPurge, ZcWake, ZcTimeout, ZcCollectInv, ZcCollectWatched,
                       CollectWatched, ZcParse, zcRest, nodeVars
  <2>5. CASE RpcThread
    BY <2>5, Zenon DEF RpcThread, RpcTake, RpcSuccess, RpcFail, RpcReport, RpcReportAs, rpcRest
  <2>6. CASE Node
    <3>1. told' = told \/ \E x : told' = told \cup {x}
      BY <2>6, Zenon DEF Node, InvWatcher, InvProcess, Announced, NodeServe, NodeReject
    <3> QED
      BY <3>1
  <2>7. CASE UNCHANGED vars
    BY <2>7, Zenon DEF vars, nodeVars
  <2> QED
    BY <2>1, <2>2, <2>3, <2>4, <2>5, <2>6, <2>7 DEF Next
<1> QED
  BY <1>1 DEF Told

(* Nothing else moves a body towards a batch. *)
LEMMA SamePre ==
    ASSUME [Next]_vars
    PROVE  (\E p \in Parsers : Parser(p)) \/ MatcherMatch \/ preQ' = preQ
<1>1. ASSUME NEW r \in Requests, BroadcastZC(r) \/ BroadcastBatch(r) PROVE preQ' = preQ
  BY <1>1, Zenon DEF BroadcastZC, Register, BroadcastBatch, queueVars
<1>2. CASE InvFlush \/ MatcherClear \/ PushNewBlock
  BY <1>2, Zenon DEF InvFlush, MatcherClear, PushNewBlock
<1>3. CASE ZcThread
  BY <1>3, Zenon DEF ZcThread, ZcPurge, ZcWake, ZcTimeout, ZcCollectInv, ZcCollectWatched,
                     CollectWatched, ZcParse, zcRest
<1>4. CASE RpcThread
  BY <1>4, Zenon DEF RpcThread, RpcTake, RpcSuccess, RpcFail, RpcReport, RpcReportAs, rpcRest
<1>5. CASE Node
  BY <1>5, Zenon DEF Node, InvWatcher, InvProcess, NodeServe, NodeReject, nodeRest
<1>6. CASE UNCHANGED vars
  BY <1>6, Zenon DEF vars, queueVars
<1> QED
  BY <1>1, <1>2, <1>3, <1>4, <1>5, <1>6, Zenon DEF Next, Matcher

(* A packet with h's body is given to batch b. *)
Matched(b, h) ==
    /\ MatcherMatch /\ getDataQ # <<>> /\ Head(getDataQ).kind = "payload"
    /\ h = Head(getDataQ).tx /\ b = Drained[h] /\ b # 0

(* Where the bodies of a batch come from. *)
LEMMA BodyFrom ==
    ASSUME TypeInv, [Next]_vars, NEW b \in Batch', NEW h, BodyFor(b, h)'
    PROVE  \/ b \in Batch /\ BodyFor(b, h)
           \/ RpcSuccess /\ b = rpcJob.batch
           \/ Matched(b, h)
<1>0. /\ preQ \in Seq(Job)
      /\ \A i \in DOMAIN preQ : preQ[i].batch \in Batch
      /\ \A p \in Parsers : parser[p].step # "idle" => parser[p].job.batch \in Batch
  BY DEF TypeInv, Books, MatchTyped
<1>1. CASE Making
  <2>1. PICK n : MoreBatch(n)
    BY <1>1, MakingFacts
  <2>2. parser' = parser /\ preQ' = preQ
    BY <1>1, MakingFacts
  <2>3. CASE b = n
    <3>1. b \notin Batch /\ bReady'[b] = {}
      BY <2>1, <2>3, Zenon DEF MoreBatch
    <3> QED
      BY <1>0, <2>2, <3>1 DEF BodyFor
  <2>4. CASE b # n
    <3>1. b \in Batch
      BY <2>1, <2>4 DEF MoreBatch
    <3>2. bReady'[b] = bReady[b]
      BY <2>1, <3>1, Zenon DEF MoreBatch
    <3> QED
      BY <2>2, <3>1, <3>2, Zenon DEF BodyFor
  <2> QED
    BY <2>3, <2>4
<1>2. ASSUME NEW p \in Parsers, Parser(p) PROVE b \in Batch /\ BodyFor(b, h)
  <2>1. /\ \A q \in Parsers : q # p => parser'[q] = parser[q]
        /\ bTx' = bTx
    BY <1>2, ParserFacts
  <2>b. b \in Batch
    BY <2>1 DEF Batch
  <2>2. CASE /\ preQ # <<>> /\ parser'[p].job = Head(preQ)
             /\ preQ' = Tail(preQ) /\ bReady' = bReady
    <3>1. /\ Head(preQ) = preQ[1] /\ 1 \in DOMAIN preQ
          /\ \A i \in DOMAIN preQ' : i + 1 \in DOMAIN preQ /\ preQ'[i] = preQ[i + 1]
      BY <1>0, <2>2, TailIn
    <3>2. CASE h \in bReady'[b]
      BY <2>2, <2>b, <3>2 DEF BodyFor
    <3>3. ASSUME NEW i \in DOMAIN preQ', preQ'[i].batch = b, preQ'[i].tx = h
          PROVE  BodyFor(b, h)
      <4>1. i + 1 \in DOMAIN preQ /\ preQ[i + 1].batch = b /\ preQ[i + 1].tx = h
        BY <3>1, <3>3
      <4> QED
        BY <4>1, Zenon DEF BodyFor
    <3>4. ASSUME NEW q \in Parsers, parser'[q].step # "idle", parser'[q].job.batch = b,
                 parser'[q].job.tx = h
          PROVE  BodyFor(b, h)
      <4>1. CASE q = p
        <5>1. preQ[1].batch = b /\ preQ[1].tx = h
          BY <2>2, <3>1, <3>4, <4>1
        <5> QED
          BY <3>1, <5>1, Zenon DEF BodyFor
      <4>2. CASE q # p
        BY <2>1, <3>4, <4>2, Zenon DEF BodyFor
      <4> QED
        BY <4>1, <4>2
    <3> QED
      BY <2>b, <3>2, <3>3, <3>4, Zenon DEF BodyFor
  <2>3. CASE parser[p].step # "idle" /\ parser'[p].job = parser[p].job /\ preQ' = preQ
    <3>1. h \in bReady'[b] => h \in bReady[b] \/ (parser[p].job.batch = b /\ parser[p].job.tx = h)
      <4>1. CASE ParserParse(p)
        <5>1. /\ \A c \in Batch : c # parser[p].job.batch => bReady'[c] = bReady[c]
              /\ bReady'[parser[p].job.batch] = bReady[parser[p].job.batch] \cup {parser[p].job.tx}
          BY <4>1, ParserBody
        <5> QED
          BY <2>b, <5>1
      <4>2. CASE ~ParserParse(p)
        <5>1. bReady' = bReady
          BY <1>2, <4>2, Zenon DEF Parser, ParserPayload, ParserCount, ParserSet, batchVars
        <5> QED
          BY <5>1
      <4> QED
        BY <4>1, <4>2
    <3>2. \A q \in Parsers : parser'[q].step # "idle" =>
             parser[q].step # "idle" /\ parser'[q].job = parser[q].job
      BY <2>1, <2>3, Zenon
    <3> QED
      BY <2>3, <2>b, <3>1, <3>2, Zenon DEF BodyFor
  <2> QED
    BY <1>2, <2>2, <2>3, ParserFacts, Zenon
<1>3. CASE RpcSuccess /\ b # rpcJob.batch
  <2>1. /\ UNCHANGED <<bTx, parser, preQ>>
        /\ \A c \in Batch : c # rpcJob.batch => bReady'[c] = bReady[c]
    BY <1>3, RpcBody
  <2>2. b \in Batch
    BY <2>1 DEF Batch
  <2>3. bReady'[b] = bReady[b]
    BY <1>3, <2>1, <2>2
  <2> QED
    BY <2>1, <2>2, <2>3, Zenon DEF BodyFor
<1>4. CASE MatcherMatch
  <2> DEFINE m == Head(getDataQ)
             c == Drained[m.tx]
             j == [tx |-> m.tx, batch |-> c]
  <2>1. /\ getDataQ # <<>> /\ UNCHANGED <<bTx, bReady, parser>> /\ getDataQ \in Seq(NodeReply)
        /\ \/ preQ' = preQ
           \/ m.kind = "payload" /\ c # 0 /\ preQ' = Append(preQ, j)
    BY <1>4, Zenon DEF MatcherMatch, TypeInv, NodeTyped
  <2>2. b \in Batch
    BY <2>1 DEF Batch
  <2>3. CASE preQ' = preQ
    BY <2>1, <2>2, <2>3, Zenon DEF BodyFor
  <2>4. CASE m.kind = "payload" /\ c # 0 /\ preQ' = Append(preQ, j)
    <3>1. m \in NodeReply
      BY <2>1, TailIn
    <3>2. m.tx \in Tx
      BY <3>1 DEF NodeReply
    <3>3. MatchTyped
      BY DEF TypeInv, Books
    <3>4. c \in Batch
      BY <2>4, <3>2, <3>3, DrainedTyped
    <3>5. j \in Job /\ j.tx = m.tx /\ j.batch = c
      BY <3>2, <3>4 DEF Job, TypeInv, BatchTyped, Batch
    <3> HIDE DEF j
    <3>6. /\ DOMAIN preQ' = DOMAIN preQ \cup {Len(preQ) + 1}
          /\ \A i \in DOMAIN preQ : preQ'[i] = preQ[i]
          /\ preQ'[Len(preQ) + 1] = j
      BY <1>0, <2>4, <3>5, AppendIn
    <3>7. CASE j.batch = b /\ j.tx = h
      <4>1. h = m.tx /\ b = Drained[h]
        BY <3>5, <3>7
      <4> QED
        BY <1>4, <2>1, <2>4, <4>1, Zenon DEF Matched
    <3>8. CASE ~(j.batch = b /\ j.tx = h)
      <4>1. ASSUME NEW i \in DOMAIN preQ', preQ'[i].batch = b, preQ'[i].tx = h
            PROVE  BodyFor(b, h)
        <5>1. i # Len(preQ) + 1
          BY <3>6, <3>8, <4>1
        <5>2. i \in DOMAIN preQ /\ preQ'[i] = preQ[i]
          BY <3>6, <4>1, <5>1
        <5> QED
          BY <4>1, <5>2, Zenon DEF BodyFor
      <4> QED
        BY <2>1, <2>2, <4>1, Zenon DEF BodyFor
    <3> QED
      BY <3>7, <3>8
  <2> QED
    BY <2>1, <2>3, <2>4
<1>5. CASE UNCHANGED <<bTx, bReady, preQ, parser>>
  <2>1. b \in Batch
    BY <1>5 DEF Batch
  <2> QED
    BY <1>5, <2>1, Zenon DEF BodyFor
<1>6. \/ Making \/ (\E p \in Parsers : Parser(p)) \/ RpcSuccess \/ MatcherMatch
      \/ UNCHANGED <<bTx, bReady, preQ, parser>>
  BY SameReady, SameParser, SamePre, Zenon DEF Parser
<1> QED
  BY <1>1, <1>2, <1>3, <1>4, <1>5, <1>6, Zenon

(* What a batch of a client still owns the network does not have. *)
LEMMA OwnedUnknown ==
    ASSUME TypeInv, OwnInv, NEW b \in Pend, bFrom[b] = "client", NEW h \in bTx[b]
    PROVE  h \in Tx /\ h \in Owned /\ h \notin known /\ h \notin Calling
<1>1. b \in Batch /\ Core
  BY DEF Pend, OwnInv
<1>2. h \in Tx
  BY <1>1 DEF TypeInv, BatchTyped, Batch
<1>3. h \in Owned
  BY <1>1, <1>2 DEF Owned
<1>4. h \notin Issued /\ h \notin NetTx
  BY <1>1, <1>3, IssuedNotOwned DEF Core, ClientOnce
<1>5. h \notin known
  BY <1>1, <1>4 DEF Core, CallsFirst
<1>6. rpcStep # "idle" => rpcJob.tx # h
  BY <1>4, RpcBusy
<1>7. h \notin Calling
  BY <1>4, <1>6 DEF Calling, Issued
<1> QED
  BY <1>2, <1>3, <1>5, <1>7

(* The bodies of a client's batch are announced ones, after every step. *)
LEMMA LiveNext ==
    ASSUME TypeInv, OwnInv, LiveTold, ParsedTold, [Next]_vars
    PROVE  LiveTold'
<1> SUFFICES ASSUME NEW b \in Live', NEW h \in bTx'[b], BodyFor(b, h)'
             PROVE  h \in Told'
  BY DEF LiveTold
<1>1. b \in Batch' /\ bFrom'[b] = "client"
  BY DEF Live
<1>2. Told \subseteq Told'
  BY ToldGrows
<1>3. CASE b \in Batch /\ BodyFor(b, h)
  <2>1. b \in Live
    BY <1>3, LiveFrom
  <2>2. bTx'[b] = bTx[b]
    <3>1. CASE Making
      BY <1>3, <3>1, MakingFacts, Zenon DEF MoreBatch
    <3>2. CASE UNCHANGED <<bTx, bFrom>>
      BY <3>2
    <3> QED
      BY <3>1, <3>2, SameBatches
  <2>3. h \in Told
    BY <1>3, <2>1, <2>2 DEF LiveTold
  <2> QED
    BY <1>2, <2>3
<1>4. CASE RpcSuccess /\ b = rpcJob.batch
  <2>1. bFrom' = bFrom /\ rpcStep # "idle"
    BY <1>4 DEF RpcSuccess
  <2> QED
    BY <1>1, <1>4, <2>1, RpcBusy
<1>5. CASE Matched(b, h)
  <2>1. /\ getDataQ # <<>> /\ Head(getDataQ).kind = "payload" /\ h = Head(getDataQ).tx
        /\ bTx' = bTx
    BY <1>5, Zenon DEF Matched, MatcherMatch
  <2>2. b \in Live
    <3>1. b \in Batch
      BY <1>1, <2>1 DEF Batch
    <3> QED
      BY <3>1, LiveFrom
  <2>3. getDataQ \in Seq(NodeReply) /\ Bodies
    BY DEF TypeInv, NodeTyped, OwnInv
  <2>4. Head(getDataQ) = getDataQ[1] /\ 1 \in DOMAIN getDataQ
    BY <2>1, <2>3, TailIn
  <2>5. getDataQ[1].kind = "payload" /\ getDataQ[1].tx = h
    BY <2>1, <2>4
  <2>6. h \in Seen
    BY <2>3, <2>4, <2>5 DEF Bodies
  <2>7. h \in bTx[b] /\ b \in Batch /\ bFrom[b] = "client"
    BY <2>1, <2>2 DEF Live
  <2>8. CASE b \in Pend
    BY <2>6, <2>7, <2>8, OwnedUnknown, <1>2 DEF Seen
  <2>9. CASE b \in Parsing
    <3>1. zc.step = "parse" /\ b = zc.batch
      BY <2>9 DEF Parsing
    <3>2. NoReturn(h)
      BY <2>7, <3>1 DEF ParsedTold
    <3>3. h \in Told
      BY <2>4, <2>5, <3>2 DEF NoReturn
    <3> QED
      BY <1>2, <3>3
  <2> QED
    BY <2>2, <2>8, <2>9 DEF Live
<1> QED
  BY <1>1, <1>3, <1>4, <1>5, BodyFrom

(* The network does not return what nobody owns and only the RPC thread has. *)
LEMMA NoReturnSame ==
    ASSUME NEW h, NoReturn(h), UNCHANGED <<known, watcher, buffer, asked, told, getDataQ>>,
           rpcStep' = "call" => rpcStep = "call" /\ rpcJob' = rpcJob
    PROVE  NoReturn(h)' /\ Told' = Told
<1>1. Told' = Told
  BY Zenon DEF Told
<1> QED
  BY <1>1 DEF NoReturn

(* A packet for another transaction, or a reject, returns nothing. *)
LEMMA PostedTo ==
    ASSUME TypeInv, NEW h, NoReturn(h), NEW g \in Tx, NEW k \in {"payload", "reject"},
           getDataQ' = Append(getDataQ, [kind |-> k, tx |-> g]), k = "reject" \/ g # h,
           Told \subseteq Told', UNCHANGED <<known, rpcStep, rpcJob, buffer>>,
           watcher'[h] = watcher[h], asked' \subseteq asked
    PROVE  NoReturn(h)'
<1> DEFINE m == [kind |-> k, tx |-> g]
<1>1. m \in NodeReply /\ m.kind = k /\ m.tx = g /\ getDataQ \in Seq(NodeReply)
  BY DEF NodeReply, TypeInv, NodeTyped
<1> HIDE DEF m
<1>2. getDataQ' = Append(getDataQ, m)
  BY DEF m
<1>3. /\ DOMAIN getDataQ' = DOMAIN getDataQ \cup {Len(getDataQ) + 1}
      /\ \A i \in DOMAIN getDataQ : getDataQ'[i] = getDataQ[i]
      /\ getDataQ'[Len(getDataQ) + 1] = m
  BY <1>1, <1>2, AppendIn
<1>4. \A i \in DOMAIN getDataQ : getDataQ[i].kind = "payload" /\ getDataQ[i].tx = h => h \in Told'
  BY DEF NoReturn
<1>5. \A i \in DOMAIN getDataQ' : getDataQ'[i].kind = "payload" /\ getDataQ'[i].tx = h => h \in Told'
  BY <1>1, <1>3, <1>4
<1> QED
  BY <1>5 DEF NoReturn

(* The node announces what is owned, and serves what it was asked for. *)
LEMMA NoReturnNode ==
    ASSUME TypeInv, OwnInv, NEW h \in Tx, h \notin Owned, NoReturn(h), Node
    PROVE  NoReturn(h)' /\ (h \in Told' => h \in Told)
<1>1. ASSUME NEW g \in Tx, InvWatcher(g) PROVE NoReturn(h)' /\ (h \in Told' => h \in Told)
  <2>1. /\ told' = told \cup {<<"watcher", g>>} /\ watcher[g] = "watched"
        /\ watcher' = [watcher EXCEPT ![g] = "inved"]
        /\ getDataQ' = Append(getDataQ, [kind |-> "payload", tx |-> g])
        /\ UNCHANGED <<known, rpcStep, rpcJob, buffer, asked>>
    BY <1>1 DEF InvWatcher, Announced
  <2>2. g # h
    BY <2>1 DEF OwnInv, Core, EntryOwned
  <2>3. Told' = Told \cup {g}
    BY <2>1 DEF Told
  <2>4. watcher'[h] = watcher[h]
    BY <2>1, <2>2 DEF TypeInv, WatchTyped
  <2>5. NoReturn(h)'
    BY <2>1, <2>2, <2>3, <2>4, PostedTo
  <2> QED
    BY <2>2, <2>3, <2>5
<1>2. ASSUME NEW g \in Tx, InvProcess(g) PROVE NoReturn(h)' /\ (h \in Told' => h \in Told)
  <2>1. /\ told' = told \cup {<<"process", g>>} /\ watcher[g] = "none" /\ g \in known
        /\ buffer' = buffer \cup {g}
        /\ UNCHANGED <<known, rpcStep, rpcJob, asked, watcher, getDataQ>>
    BY <1>2 DEF InvProcess, Announced, watchVars
  <2>2. g # h
    BY <2>1 DEF NoReturn
  <2>3. Told' = Told
    BY <2>1 DEF Told
  <2>4. NoReturn(h)'
    BY <2>1, <2>2, <2>3 DEF NoReturn
  <2> QED
    BY <2>3, <2>4
<1>3. ASSUME NEW g \in Tx, NodeServe(g) PROVE NoReturn(h)' /\ (h \in Told' => h \in Told)
  <2>1. /\ g \in asked /\ asked' \subseteq asked
        /\ getDataQ' = Append(getDataQ, [kind |-> "payload", tx |-> g])
        /\ UNCHANGED <<known, told, rpcStep, rpcJob, buffer, watcher>>
    BY <1>3 DEF NodeServe, nodeRest, watchVars
  <2>2. g # h /\ Told' = Told
    BY <2>1 DEF NoReturn, Told
  <2>3. NoReturn(h)'
    BY <2>1, <2>2, PostedTo
  <2> QED
    BY <2>2, <2>3
<1>4. ASSUME NEW g \in Tx, NodeReject(g) PROVE NoReturn(h)' /\ (h \in Told' => h \in Told)
  <2>1. /\ asked' = asked
        /\ getDataQ' = Append(getDataQ, [kind |-> "reject", tx |-> g])
        /\ UNCHANGED <<known, told, rpcStep, rpcJob, buffer, watcher>>
    BY <1>4 DEF NodeReject, nodeRest, watchVars
  <2>2. Told' = Told
    BY <2>1 DEF Told
  <2>3. NoReturn(h)'
    BY <2>1, <2>2, PostedTo
  <2> QED
    BY <2>2, <2>3
<1> QED
  BY <1>1, <1>2, <1>3, <1>4, Zenon DEF Node

(* The RPC thread ignores the watcher node before the node knows the transaction. *)
LEMMA NoReturnRpc ==
    ASSUME TypeInv, OwnInv, NEW h \in Tx, NoReturn(h), RpcThread
    PROVE  NoReturn(h)' /\ Told' = Told
<1>0. watcher \in [Tx -> {"none", "watched", "ignored", "inved"}]
  BY DEF TypeInv, WatchTyped
<1>1. Told' = Told /\ UNCHANGED <<buffer, asked, told, getDataQ>>
  BY Zenon DEF RpcThread, RpcTake, RpcSuccess, RpcFail, RpcReport, RpcReportAs, rpcRest, Told
<1>2. CASE RpcTake
  <2> DEFINE k == Head(rpcQ)
  <2>1. rpcQ # <<>> /\ rpcQ \in Seq(Packet) /\ known' = known /\ rpcStep = "idle"
    BY <1>2 DEF RpcTake, TypeInv, RpcTyped
  <2>2. k \in Packet
    BY <2>1, TailIn
  <2>3. k.tx \in Tx
    BY <2>2 DEF Packet
  <2>4. CASE watcher[k.tx] # "none"
    <3>1. watcher' = watcher /\ rpcStep' = rpcStep /\ rpcJob' = rpcJob
      BY <1>2, <2>4, Zenon DEF RpcTake
    <3> QED
      BY <1>1, <2>1, <3>1, NoReturnSame
  <2>5. CASE watcher[k.tx] = "none"
    <3>1. /\ watcher' = [watcher EXCEPT ![k.tx] = "ignored"]
          /\ rpcJob' = [k EXCEPT !.batch = Len(bTx) + 1] /\ rpcStep' = "call"
      BY <1>2, <2>5 DEF RpcTake
    <3> HIDE DEF k
    <3>2. rpcJob'.tx = k.tx
      BY <2>2, <3>1 DEF Packet
    <3>3. watcher'[k.tx] = "ignored" /\ \A g \in Tx : g # k.tx => watcher'[g] = watcher[g]
      BY <1>0, <2>3, <3>1
    <3> QED
      BY <1>1, <2>1, <3>2, <3>3 DEF NoReturn
  <2> QED
    BY <2>4, <2>5
<1>3. CASE RpcSuccess
  <2>1. /\ rpcStep = "call" /\ known' = known \cup {rpcJob.tx} /\ rpcStep' = "idle" /\ watcher' = watcher
    BY <1>3 DEF RpcSuccess, watchVars
  <2> QED
    BY <1>1, <2>1 DEF NoReturn
<1>4. CASE RpcFail
  <2>1. /\ rpcStep = "call" /\ known' = known /\ rpcStep' = "failed"
        /\ watcher' = [watcher EXCEPT ![rpcJob.tx] = "none"]
    BY <1>4 DEF RpcFail
  <2>2. rpcJob.tx \in Tx /\ rpcStep # "idle"
    BY <2>1, RpcBusy
  <2>3. rpcJob.tx \notin known
    BY <2>2 DEF OwnInv, Core, CallsFirst, Calling, Seen
  <2>4. \A g \in Tx : g # rpcJob.tx => watcher'[g] = watcher[g]
    BY <1>0, <2>1, <2>2
  <2> QED
    BY <1>1, <2>1, <2>3, <2>4 DEF NoReturn
<1>5. CASE RpcReport
  <2>1. known' = known /\ rpcStep' = "idle" /\ watcher' = watcher
    BY <1>5 DEF RpcReport, RpcReportAs, watchVars
  <2>2. rpcStep' # "call"
    BY <2>1
  <2> QED
    BY <1>1, <2>1, <2>2, NoReturnSame
<1> QED
  BY <1>2, <1>3, <1>4, <1>5 DEF RpcThread

(* Nothing returns while the batch is parsed. *)
LEMMA NoReturnStays ==
    ASSUME TypeInv, OwnInv, [Next]_vars, NEW h \in Tx, h \notin Owned, NoReturn(h),
           zc' = zc, zc.step = "parse"
    PROVE  NoReturn(h)' /\ (h \in Told' => h \in Told)
<1>1. ASSUME NEW r \in Requests, BroadcastZC(r) PROVE NoReturn(h)' /\ Told' = Told
  <2>1. /\ watcher' = [g \in Tx |-> IF g \in Wants[r] /\ watcher[g] = "none" THEN "watched" ELSE watcher[g]]
        /\ UNCHANGED <<known, rpcStep, rpcJob, buffer, asked, told, getDataQ>>
    BY <1>1 DEF BroadcastZC, Register, queueVars, nodeVars
  <2>2. watcher[h] = "ignored" => watcher'[h] = "ignored"
    BY <2>1
  <2>3. Told' = Told
    BY <2>1, Zenon DEF Told
  <2> QED
    BY <2>1, <2>2, <2>3 DEF NoReturn
<1>2. ASSUME NEW r \in Requests, BroadcastBatch(r) PROVE NoReturn(h)' /\ Told' = Told
  <2>1. UNCHANGED <<known, watcher, buffer, asked, told, getDataQ, rpcStep, rpcJob>>
    BY <1>2 DEF BroadcastBatch, watchVars
  <2> QED
    BY <2>1, NoReturnSame
<1>3. CASE InvFlush
  <2>1. /\ buffer' = {} /\ asked' = asked \cup buffer
        /\ UNCHANGED <<known, watcher, told, getDataQ, rpcStep, rpcJob>>
    BY <1>3 DEF InvFlush, RequestTxFromNode, watchVars
  <2>2. Told' = Told
    BY <2>1, Zenon DEF Told
  <2> QED
    BY <2>1, <2>2 DEF NoReturn
<1>4. ASSUME NEW p \in Parsers, Parser(p) PROVE NoReturn(h)' /\ Told' = Told
  <2>1. UNCHANGED <<known, watcher, buffer, asked, told, getDataQ, rpcStep, rpcJob>>
    BY <1>4, Zenon DEF Parser, ParserPayload, ParserParse, ParserCount, ParserSet, parserRest,
                       watchVars, nodeVars, queueVars
  <2> QED
    BY <2>1, NoReturnSame
<1>5. CASE MatcherMatch
  <2>1. /\ getDataQ # <<>> /\ getDataQ' = Tail(getDataQ) /\ getDataQ \in Seq(NodeReply)
        /\ UNCHANGED <<known, watcher, buffer, asked, told, rpcStep, rpcJob>>
    BY <1>5 DEF MatcherMatch, watchVars, nodeVars, TypeInv, NodeTyped
  <2>2. \A i \in DOMAIN getDataQ' : i + 1 \in DOMAIN getDataQ /\ getDataQ'[i] = getDataQ[i + 1]
    BY <2>1, TailIn
  <2>3. Told' = Told
    BY <2>1, Zenon DEF Told
  <2>4. \A i \in DOMAIN getDataQ' :
           getDataQ'[i].kind = "payload" /\ getDataQ'[i].tx = h => h \in Told
    BY <2>2 DEF NoReturn
  <2> QED
    BY <2>1, <2>3, <2>4 DEF NoReturn
<1>6. CASE MatcherClear \/ PushNewBlock \/ UNCHANGED vars
  <2>1. UNCHANGED <<known, watcher, buffer, asked, told, getDataQ, rpcStep, rpcJob>>
    BY <1>6, Zenon DEF MatcherClear, PushNewBlock, vars, watchVars, nodeVars, queueVars
  <2> QED
    BY <2>1, NoReturnSame
<1>7. CASE ZcThread
  <2>1. zc.step # zc'.step \/ zc.step # "parse"
    BY <1>7 DEF ZcThread, ZcPurge, ZcWake, ZcTimeout, ZcIdling, ZcCollectInv, ZcCollectWatched,
                CollectWatched, ZcParse, ZcIdle
  <2> QED
    BY <2>1
<1> QED
  BY <1>1, <1>2, <1>3, <1>4, <1>5, <1>6, <1>7, NoReturnNode, NoReturnRpc, Zenon DEF Next, Matcher

(* A batch that is parsed owns nothing any more. *)
LEMMA ParsedNotOwned ==
    ASSUME TypeInv, OwnInv, zc.step = "parse", bFrom[zc.batch] = "client",
           NEW h \in bTx[zc.batch]
    PROVE  h \in Tx /\ h \notin Owned
<1>1. zc.batch \in Batch /\ QueueOnce /\ Core
  BY DEF TypeInv, ZcTyped, OwnInv
<1>2. h \in Tx
  BY <1>1 DEF TypeInv, BatchTyped, Batch
<1>3. Collecting = {} /\ ~In(newZcQ, zc.batch)
  BY <1>1 DEF Collecting, QueueOnce
<1>4. zc.batch \notin Pend /\ Pend \subseteq Batch
  BY <1>3 DEF Pend
<1>5. \A r \in Requests : h \notin todo[r]
  BY <1>1 DEF Core, TodoOnce
<1>6. \A c \in Pend : bFrom[c] = "client" => h \notin bTx[c]
  BY <1>1, <1>4, Zenon DEF Core, ClientOnce
<1> QED
  BY <1>2, <1>5, <1>6 DEF Owned

(* What is parsed cannot come back, after every step. *)
LEMMA ParsedNext ==
    ASSUME TypeInv, OwnInv, ParsedTold, [Next]_vars
    PROVE  ParsedTold'
<1> SUFFICES ASSUME zc'.step = "parse", bFrom'[zc'.batch] = "client", NEW h \in bTx'[zc'.batch]
             PROVE  NoReturn(h)' /\ (zc'.result # "success" /\ h \in Told' => h \in zc'.keep)
  BY DEF ParsedTold
<1>1. CASE ZcWake \/ ZcTimeout
  <2>1. bProm[zc'.batch] = "exception" /\ zc'.batch \in Batch /\ bFrom' = bFrom
    BY <1>1, TakeFacts
  <2>2. bFrom[zc'.batch] = "rpc"
    BY <2>1 DEF OwnInv, Core, RpcEntry
  <2> QED
    BY <2>1, <2>2
<1>2. CASE ZcCollectInv \/ ZcCollectWatched
  <2> DEFINE b == zc.batch
  <2>1. /\ UNCHANGED <<bTx, bFrom, told, known, rpcStep, rpcJob, buffer, asked, getDataQ>>
        /\ zc.step = "collect" /\ b \in Batch /\ zc'.batch = b /\ zc'.result = zc.result
        /\ zc.result # "success" /\ bFrom[b] = "client" =>
              zc'.keep = Inved \/ \E g \in bTx[b] : watcher[g] = "none"
    BY <1>2, KeepFacts, Zenon
  <2>2. bFrom[b] = "client" /\ h \in bTx[b] /\ b \in Pend
    BY <2>1 DEF Pend, Collecting
  <2>3. \A g \in bTx[b] : g \in Tx /\ g \in Owned /\ g \notin known /\ g \notin Calling
    BY <2>2, OwnedUnknown
  <2>4. Told' = Told /\ Core /\ Bodies
    BY <2>1, Zenon DEF Told, OwnInv
  <2>5. NoReturn(h)'
    <3>1. h \notin known /\ (rpcStep = "call" => rpcJob.tx # h)
      BY <2>2, <2>3 DEF Calling
    <3>2. h \notin buffer /\ h \notin asked
      BY <2>4, <3>1 DEF Bodies
    <3>3. \A i \in DOMAIN getDataQ : getDataQ[i].kind = "payload" /\ getDataQ[i].tx = h => h \in Told
      BY <2>4, <3>1 DEF Bodies, Seen
    <3> QED
      BY <2>1, <2>4, <3>1, <3>2, <3>3 DEF NoReturn
  <2>6. ASSUME zc'.result # "success", h \in Told PROVE h \in zc'.keep
    <3>1. \A g \in bTx[b] : watcher[g] # "none"
      BY <2>3, <2>4 DEF Core, EntryOwned
    <3>2. zc'.keep = Inved
      BY <2>1, <2>2, <2>6, <3>1
    <3>3. watcher[h] = "inved"
      BY <2>2, <2>3, <2>4, <2>6 DEF Core, CallsFirst
    <3> QED
      BY <2>2, <3>2, <3>3 DEF Inved
  <2> QED
    BY <2>4, <2>5, <2>6
<1>3. CASE ZcParse
  BY <1>3 DEF ZcParse, ZcIdle
<1>4. CASE zc' = zc
  <2>1. zc.step = "parse" /\ zc.batch \in Batch
    BY <1>4 DEF TypeInv, ZcTyped
  <2>2. bTx'[zc.batch] = bTx[zc.batch] /\ bFrom'[zc.batch] = bFrom[zc.batch]
    <3>1. CASE Making
      BY <2>1, <3>1, MakingFacts, Zenon DEF MoreBatch
    <3>2. CASE UNCHANGED <<bTx, bFrom>>
      BY <3>2
    <3> QED
      BY <3>1, <3>2, SameBatches
  <2>3. h \in bTx[zc.batch] /\ bFrom[zc.batch] = "client"
    BY <1>4, <2>2
  <2>4. NoReturn(h) /\ (zc.result # "success" /\ h \in Told => h \in zc.keep)
    BY <2>1, <2>3 DEF ParsedTold
  <2>5. h \in Tx /\ h \notin Owned
    BY <2>1, <2>3, ParsedNotOwned
  <2>6. NoReturn(h)' /\ (h \in Told' => h \in Told)
    BY <1>4, <2>1, <2>4, <2>5, NoReturnStays
  <2> QED
    BY <1>4, <2>4, <2>6
<1> QED
  BY <1>1, <1>2, <1>3, <1>4, SameZc

(* No batch, no parser at work, nothing kept. *)
LEMMA BodyInit == Init => BodyInv
<1> SUFFICES ASSUME Init PROVE BodyInv
  OBVIOUS
<1>1. zc.step = "idle" /\ zc.keep = {} /\ Batch = {}
  BY DEF Init, ZcIdle, Batch
<1>2. \A p \in Parsers : parser[p].step = "idle"
  BY DEF Init
<1> QED
  BY <1>1, <1>2 DEF BodyInv, SuccessComplete, LiveTold, Live, ParsedTold, KeepTyped

(* The counter tells how many bodies a failed batch has: as many as it keeps
   means exactly those it keeps. *)
LEMMA CountedHaveBody ==
    ASSUME TypeInv, BodyInv, ZcParse
    PROVE  zc.keep \subseteq bReady[zc.batch]
<1> DEFINE b == zc.batch
           k == zc.keep
           U == {h \in bTx[b] : h \notin bReady[b]}
           D == bTx[b] \ U
<1>1. zc.step = "parse" /\ b \in Batch /\ k \subseteq bTx[b] /\ bTx[b] \subseteq Tx
  BY DEF ZcParse, TypeInv, ZcTyped, BodyInv, KeepTyped, BatchTyped, Batch
<1>2. CASE zc.result = "success"
  BY <1>1, <1>2 DEF BodyInv, SuccessComplete, Complete
<1>3. CASE zc.result # "success" /\ bFrom[b] # "client"
  BY <1>1, <1>3 DEF BodyInv, KeepTyped
<1>4. CASE zc.result # "success" /\ bFrom[b] = "client"
  <2>1. Cardinality(bTx[b]) - bCount[b] >= Cardinality(k)
    BY <1>4 DEF ZcParse, Counted
  <2>2. D \subseteq k
    <3> SUFFICES ASSUME NEW h \in D PROVE h \in k
      OBVIOUS
    <3>1. h \in bTx[b] /\ BodyFor(b, h)
      BY DEF BodyFor
    <3>2. b \in Live
      BY <1>1, <1>4 DEF Live, Parsing
    <3>3. h \in Told
      BY <3>1, <3>2 DEF BodyInv, LiveTold
    <3> QED
      BY <1>1, <1>4, <3>1, <3>3 DEF BodyInv, ParsedTold
  <2>3. IsFiniteSet(bTx[b]) /\ IsFiniteSet(k)
    BY <1>1, ZcBatchAssumption, FS_Subset
  <2>4. Cardinality(U) <= bCount[b]
    <3>1. Open[b] = OpenAt(bTx, bReady, batchQ, matching, preQ, parser, b)
      BY <1>1, Zenon DEF Open
    <3>2. U \subseteq Open[b] /\ Open[b] \subseteq Tx
      BY <1>1, <3>1 DEF OpenAt
    <3>3. IsFiniteSet(Open[b])
      BY <3>2, ZcBatchAssumption, FS_Subset
    <3>4. /\ Cardinality(U) <= Cardinality(Open[b]) /\ IsFiniteSet(U)
          /\ Cardinality(U) \in Nat /\ Cardinality(Open[b]) \in Nat
      BY <3>2, <3>3, FS_Subset, FS_CardinalityType
    <3>5. Cardinality(Open[b]) <= bCount[b] /\ bCount[b] \in Nat
      BY <1>1 DEF TypeInv, Books, CounterCovers, BatchTyped
    <3> HIDE DEF U
    <3> QED
      BY <3>4, <3>5
  <2>5. U \subseteq bTx[b] /\ bCount[b] \in Nat
    BY <1>1 DEF TypeInv, BatchTyped
  <2> HIDE DEF U
  <2>6. /\ Cardinality(D) = Cardinality(bTx[b]) - Cardinality(U)
        /\ Cardinality(D) \in Nat /\ Cardinality(U) \in Nat /\ Cardinality(bTx[b]) \in Nat
        /\ Cardinality(k) \in Nat
    <3>1. bTx[b] \cap U = U /\ IsFiniteSet(U) /\ IsFiniteSet(D)
      BY <2>3, <2>5, FS_Subset
    <3>2. Cardinality(bTx[b] \ U) = Cardinality(bTx[b]) - Cardinality(bTx[b] \cap U)
      BY <2>3, FS_Difference
    <3> QED
      BY <2>3, <3>1, <3>2, FS_CardinalityType
  <2> HIDE DEF D
  <2>7. Cardinality(k) <= Cardinality(D)
    BY <2>1, <2>4, <2>5, <2>6
  <2>8. D = k
    <3>1. Cardinality(D) <= Cardinality(k) /\ (Cardinality(D) = Cardinality(k) => D = k)
      BY <2>2, <2>3, FS_Subset
    <3> QED
      BY <2>6, <2>7, <3>1
  <2> QED
    BY <2>8 DEF D, U
<1> QED
  BY <1>2, <1>3, <1>4

(* The origin of bodies is inductive, given typing and ownership. *)
LEMMA BodyNext ==
    ASSUME TypeInv, OwnInv, BodyInv, [Next]_vars
    PROVE  BodyInv'
<1>1. SuccessComplete /\ LiveTold /\ ParsedTold /\ KeepTyped
  BY DEF BodyInv
<1> QED
  BY <1>1, SuccessNext, LiveNext, ParsedNext, KeepNext DEF BodyInv

(* Whatever parseNewZC parses has a body by then, for any batches, parsers and
   interleaving: a batch whose promise is fulfilled is complete, and a failed
   one waits until the counter has seen as many transactions as it keeps, which
   are then the ones it keeps, since no body reaches a batch of a client but
   the ones the watcher node has announced. *)
THEOREM ParsedComplete ==
    ASSUME FirstBroadcasts
    PROVE  Spec => ParsedHaveBody
<1>1. Init => TypeInv /\ OwnInv /\ BodyInv
  BY TypeInit, OwnInit, BodyInit
<1>2. TypeInv /\ OwnInv /\ BodyInv /\ [Next]_vars => TypeInv' /\ OwnInv' /\ BodyInv'
  BY TypeNext, OwnNext, BodyNext
<1>3. TypeInv /\ BodyInv /\ [Next]_vars =>
        [zc.step = "parse" /\ zc'.step = "idle" => zc.keep \subseteq bReady[zc.batch]]_vars
  <2> SUFFICES ASSUME TypeInv, BodyInv, [Next]_vars, zc.step = "parse", zc'.step = "idle"
               PROVE  zc.keep \subseteq bReady[zc.batch]
    OBVIOUS
  <2>1. CASE ZcWake \/ ZcTimeout
    BY <2>1, TakeFacts
  <2>2. CASE ZcCollectInv \/ ZcCollectWatched
    BY <2>2, KeepFacts
  <2>3. CASE ZcParse
    BY <2>3, CountedHaveBody
  <2>4. CASE zc' = zc
    BY <2>4
  <2> QED
    BY <2>1, <2>2, <2>3, <2>4, SameZc
<1> QED
  BY <1>1, <1>2, <1>3, PTL DEF Spec, ParsedHaveBody
=============================================================================
