---------------------------- MODULE OracleRollup ----------------------------
(***************************************************************************)
(* The request/response oracle of the SampleOracle tests, end to end:      *)
(*                                                                         *)
(*  - the anchor (RollupAnchor), whose receiver is the oracle contract and *)
(*    whose owner, after the fixture, is the oracle as well;               *)
(*  - the oracle contract: request() pushes a request id to the anchor's   *)
(*    queue, onPhatRollupReceived() takes Response, Feed and Error         *)
(*    payloads;                                                            *)
(*  - off-chain workers (the Phat contract's handleRollup, run by a        *)
(*    scheduler) that read the lock, the queue head and the message at the *)
(*    head in separate reads, and build a RollupTx conditioned on the lock; *)
(*  - a relay that hands those transactions to the anchor as the submitter, *)
(*    in any order, possibly twice, possibly never.                        *)
(***************************************************************************)
EXTENDS Integers, FiniteSets, Sequences

CONSTANTS
  Workers,          \* off-chain worker instances (Phat contract replicas)
  Submitter,        \* the relayer's address, the anchor's submitter
  Deployer,         \* the signer that deploys both contracts
  Configurers,      \* accounts that send the worker's config transaction
  OracleAddr,       \* the oracle contract's address
  LockKey,          \* the global lock key '0x00' the workers condition on
  QHeadKey, QTailKey, Empty,
  MaxRequests,      \* bound: requests the oracle makes
  MaxFeedLock,      \* bound: feed updates are built only while lock < MaxFeedLock
  MaxReadFailures,  \* bound: failed reads across all workers
  MaxDrops,         \* bound: transactions the relay loses
  MaxDups,          \* bound: transactions the relay delivers twice
  AnswerKinds,      \* how a worker answers a request: Response and/or Error
  ErrorAdvancesQueue, \* whether an Error answer also marks the queue processed
  LockModulus       \* 2^width of the lock counter the worker increments (uint32)

ASSUME MaxRequests \in Nat \ {0} /\ MaxFeedLock \in Nat
ASSUME AnswerKinds \subseteq {"Response", "Error"}
ASSUME LockModulus \in Nat \ {0, 1} /\ ErrorAdvancesQueue \in BOOLEAN

Rid == 1 .. MaxRequests

VARIABLES
  owner, storage, qMsgs, lastCall,   \* the anchor
  recv,      \* the oracle's answers: rid -> number of Response/Error received
  oracle,    \* the oracle's own state: [anchorSet, nextRid, feeds]
  worker,    \* worker -> [rpc, pc, lock, head]; rpc: whose endpoint it reads
  pool,      \* transactions handed to the relay
  faults     \* [reads, drops, dups]: the failures spent so far

vars == <<owner, storage, qMsgs, lastCall, recv, oracle, worker, pool, faults>>

(***************************************************************************)
(* The oracle contract's onPhatRollupReceived: the payload is the tagged   *)
(* (type, id, value) triple; a Response or an Error answers request id, a  *)
(* Feed updates feed id.  It returns the receiver selector.               *)
(***************************************************************************)
OracleOnRollupReceived(st, p) ==
  [ok |-> TRUE,
   st |-> IF p.kind \in {"Response", "Error"} /\ p.id \in Rid
          THEN [st EXCEPT ![p.id] = @ + 1] ELSE st]

Anchor == INSTANCE RollupAnchor WITH
  Callers <- {Submitter, Deployer, OracleAddr},
  UserKeys <- {LockKey},
  Messages <- Rid,
  MaxQueue <- MaxRequests,
  RecvInit <- [r \in Rid |-> 0],
  OnRollupReceived <- OracleOnRollupReceived

\* The lock value as stored, without decoding it as a uint32.
LockValueRaw == storage[LockKey]

\* The lock value a worker reads: getStorage(lock) decoded as a uint32.
LockValue == Anchor!UintOf(storage[LockKey])

\* The message slot lookup with the bound check one slot short.
MsgAtShort(h) == IF h + 1 \in Anchor!QIndex THEN qMsgs[h] ELSE Empty

\* The message at queue index h; an index past the slots reads as empty.
MsgAt(h) == IF h \in Anchor!QIndex THEN qMsgs[h] ELSE Empty

(***************************************************************************)
(* The batches the tests build for a worker that read lock value v:        *)
(* cond (lock = v), update (lock := v + 1) and the actions.                *)
(***************************************************************************)
Callback(kind, id) ==
  [sel |-> Anchor!SelCallback, payload |-> [kind |-> kind, id |-> id], target |-> 0]
ProcessedTo(n) ==
  [sel |-> Anchor!SelProcessedTo, payload |-> [kind |-> "None", id |-> 0], target |-> n]

\* The next lock value, v + 1 as a uint32 of the given width: it wraps to 0
\* past the top (a build without overflow checks).
LockNext(v) == (v + 1) % LockModulus

LockedTx(v, actions) ==
  [condKeys |-> <<LockKey>>, condValues |-> <<v>>,
   updateKeys |-> <<LockKey>>, updateValues |-> <<LockNext(v)>>, actions |-> actions]

\* The error rollup of "Can process error": the Error callback alone, the
\* queue head is left where it is.
ErrorTx(v, rid) == LockedTx(v, <<Callback("Error", rid)>>)

\* Marks the queue processed to h instead of h + 1.
AnswerTxSameHead(v, h, rid, kind) == LockedTx(v, <<Callback(kind, rid), ProcessedTo(h)>>)

\* Answer the request at queue index h and mark the queue processed to h + 1.
AnswerTx(v, h, rid, kind) ==
  IF kind = "Error" /\ ~ErrorAdvancesQueue THEN ErrorTx(v, rid)
  ELSE LockedTx(v, <<Callback(kind, rid), ProcessedTo(h + 1)>>)
FeedTx(v) == LockedTx(v, <<Callback("Feed", 0)>>)

-----------------------------------------------------------------------------
(***************************************************************************)
(* Deployment (the SampleOracle fixture) and the oracle's entry points.    *)
(***************************************************************************)

\* anchor.connect(owner).transferOwnership(oracle.address)
TransferToOracle ==
  /\ owner = Deployer
  /\ Anchor!TransferOwnership(Deployer, OracleAddr)
  /\ UNCHANGED <<oracle, worker, pool, faults>>

\* oracle.connect(owner).setAnchor(anchor.address)
SetAnchor ==
  /\ ~oracle.anchorSet
  /\ oracle' = [oracle EXCEPT !.anchorSet = TRUE]
  /\ UNCHANGED <<owner, storage, qMsgs, lastCall, recv, worker, pool, faults>>

\* oracle.request(pair): a new request id, pushed to the anchor's queue by
\* the oracle; when the push reverts the whole request reverts.
Request ==
  /\ oracle.anchorSet
  /\ oracle.nextRid \in Rid
  /\ Anchor!PushMessage(OracleAddr, oracle.nextRid)
  /\ oracle' = IF lastCall'.reason = "ok"
               THEN [oracle EXCEPT !.nextRid = @ + 1] ELSE oracle
  /\ UNCHANGED <<worker, pool, faults>>

-----------------------------------------------------------------------------
(***************************************************************************)
(* The off-chain worker.  Each read is a separate query of the chain; a    *)
(* failed read ends the round with an error (FailedToFetchLock,            *)
(* FailedToReadQueueHead, FailedToGetStorage, FailedToDecodeStorage).      *)
(***************************************************************************)
\* A worker between rounds: what it read in the last round is gone.
Idle(rpc) == [rpc |-> rpc, pc |-> "idle", lock |-> 0, head |-> 0]

\* The owner of each worker contract: the account that instantiated it
\* (Factory.instantiate("default", [])), as the owner query reports.
PhatOwner == Deployer

\* The queue heads a worker may be told: the anchor's own through the
\* owner's endpoint; any head the chain has had through an endpoint a
\* stranger set, which can serve the current lock with an old head.
ReadableHeads(w) ==
  IF worker[w].rpc = "stranger" THEN 0 .. Anchor!QueueHead ELSE {Anchor!QueueHead}

AnchorUnchanged == UNCHANGED <<owner, storage, qMsgs, lastCall, recv, oracle>>

\* config(rpc, anchor)
ConfigAnyCaller(w, caller) ==
  /\ caller \in Configurers /\ worker[w].pc = "idle"
  /\ worker' = [worker EXCEPT ![w].rpc = IF caller = PhatOwner THEN "owner" ELSE "stranger"]
  /\ UNCHANGED <<pool, faults>> /\ AnchorUnchanged

\* config(rpc, anchor): ensure_owner first (BadOrigin for anyone else, which
\* changes nothing), then the endpoint is stored.  A round reads the config
\* once when it starts, so a config landing mid-round acts from the next one.
Config(w, caller) ==
  /\ caller \in Configurers /\ worker[w].pc = "idle"
  /\ caller = PhatOwner
  /\ worker[w].rpc # "owner"
  /\ worker' = [worker EXCEPT ![w].rpc = "owner"]
  /\ UNCHANGED <<pool, faults>> /\ AnchorUnchanged

ReadLock(w) ==
  /\ worker[w].rpc # "none" /\ worker[w].pc = "idle"
  /\ worker' = [worker EXCEPT ![w].pc = "lock", ![w].lock = LockValue]
  /\ UNCHANGED <<pool, faults>> /\ AnchorUnchanged

ReadQueueHead(w) ==
  /\ worker[w].pc = "lock"
  /\ \E h \in ReadableHeads(w) :
       worker' = [worker EXCEPT ![w].pc = "head", ![w].head = h]
  /\ UNCHANGED <<pool, faults>> /\ AnchorUnchanged

\* A worker that takes the lock value at the end of the round, after the
\* head and the message were read.
ReadMessageLateLock(w) ==
  LET v == LockValue
      h == worker[w].head
      m == MsgAt(h)
  IN  /\ worker[w].pc = "head"
      /\ worker' = [worker EXCEPT ![w] = Idle(@.rpc)]
      /\ \/ /\ m # Empty
            /\ \E kind \in AnswerKinds : pool' = pool \cup {AnswerTx(v, h, m, kind)}
         \/ /\ m = Empty /\ v < MaxFeedLock
            /\ pool' = pool \cup {FeedTx(v)}
         \/ /\ m = Empty /\ v >= MaxFeedLock
            /\ UNCHANGED pool
      /\ UNCHANGED faults /\ AnchorUnchanged

\* Read the message at the head and return Some(RollupTx) or None.
ReadMessage(w) ==
  LET v == worker[w].lock
      h == worker[w].head
      m == MsgAt(h)
  IN  /\ worker[w].pc = "head"
      /\ worker' = [worker EXCEPT ![w] = Idle(@.rpc)]
      /\ \/ /\ m # Empty
            /\ \E kind \in AnswerKinds : pool' = pool \cup {AnswerTx(v, h, m, kind)}
         \/ /\ m = Empty /\ v < MaxFeedLock
            /\ pool' = pool \cup {FeedTx(v)}
         \/ /\ m = Empty /\ v >= MaxFeedLock
            /\ UNCHANGED pool
      /\ UNCHANGED faults /\ AnchorUnchanged

ReadFails(w) ==
  /\ worker[w].pc \in {"lock", "head"}
  /\ faults.reads < MaxReadFailures
  /\ worker' = [worker EXCEPT ![w] = Idle(@.rpc)]
  /\ faults' = [faults EXCEPT !.reads = @ + 1]
  /\ UNCHANGED pool /\ AnchorUnchanged

-----------------------------------------------------------------------------
(***************************************************************************)
(* The relay: any handed-over transaction reaches the anchor, from the     *)
(* submitter, in any order; it may be delivered again or lost.             *)
(***************************************************************************)
Deliver(s) ==
  /\ s \in pool
  /\ Anchor!RollupU256CondEq(Submitter, s)
  /\ \/ pool' = pool \ {s} /\ UNCHANGED faults
     \/ /\ faults.dups < MaxDups
        /\ faults' = [faults EXCEPT !.dups = @ + 1]
        /\ UNCHANGED pool
  /\ UNCHANGED <<oracle, worker>>

Drop(s) ==
  /\ s \in pool
  /\ faults.drops < MaxDrops
  /\ pool' = pool \ {s}
  /\ faults' = [faults EXCEPT !.drops = @ + 1]
  /\ UNCHANGED worker /\ AnchorUnchanged

-----------------------------------------------------------------------------
Init ==
  /\ Anchor!AnchorInit
  /\ oracle = [anchorSet |-> FALSE, nextRid |-> 1]
  /\ worker = [w \in Workers |-> Idle("none")]
  /\ pool = {}
  /\ faults = [reads |-> 0, drops |-> 0, dups |-> 0]

Next ==
  \/ TransferToOracle \/ SetAnchor \/ Request
  \/ \E w \in Workers :
       (\E c \in Configurers : Config(w, c)) \/ ReadLock(w) \/ ReadQueueHead(w) \/ ReadMessage(w) \/ ReadFails(w)
  \/ \E s \in pool : Deliver(s) \/ Drop(s)

\* The scheduler keeps triggering every configured worker and the relay
\* keeps delivering what it holds.
Fairness ==
  /\ \A w \in Workers :
       /\ WF_vars(Config(w, PhatOwner)) /\ WF_vars(ReadLock(w))
       /\ WF_vars(ReadQueueHead(w)) /\ WF_vars(ReadMessage(w))
  /\ WF_vars(\E s \in pool : Deliver(s))

Spec == Init /\ [][Next]_vars
FairSpec == Spec /\ Fairness

-----------------------------------------------------------------------------
TypeOK ==
  /\ Anchor!AnchorTypeOK
  /\ recv \in [Rid -> Nat]
  /\ oracle \in [anchorSet : BOOLEAN, nextRid : 1 .. MaxRequests + 1]
  /\ worker \in [Workers -> [rpc : {"none", "owner", "stranger"}, pc : {"idle", "lock", "head"},
                             lock : Nat, head : Nat]]
  /\ faults \in [reads : 0 .. MaxReadFailures, drops : 0 .. MaxDrops,
                 dups : 0 .. MaxDups]

(***************************************************************************)
(* Exactly once, in queue order: the queue head never passes the tail, and *)
(* of the requests in the queue those before the head have been answered  *)
(* (Response or Error) exactly once and those from the head on not at all, *)
(* however the workers' reads interleave with commits, and whatever the    *)
(* relay reorders, repeats or loses.                                       *)
(***************************************************************************)
ProcessedExactlyOnce ==
  /\ Anchor!QueueHead <= Anchor!QueueTail
  /\ \A i \in 0 .. Anchor!QueueTail - 1 :
       recv[qMsgs[i]] = IF i < Anchor!QueueHead THEN 1 ELSE 0

(***************************************************************************)
(* At most one answer per request (spec 4.6: an Error is "a failed         *)
(* response to a previously pushed request", as a Response is the          *)
(* successful one): the oracle never receives a second Response or Error   *)
(* for the same request id.                                                *)
(***************************************************************************)
AnsweredAtMostOnce == \A r \in Rid : recv[r] <= 1

(***************************************************************************)
(* Refinement: seen through the queue view (the slots up to the tail, the  *)
(* head) and the oracle's answer counts, every step of the system is a     *)
(* step of AbstractOracleQueue or leaves that view unchanged.  Racing      *)
(* workers, stale reads, feeds, reverted and replayed rollups and lost     *)
(* transactions all collapse to "append a request" or "answer the head     *)
(* and move past it".                                                      *)
(***************************************************************************)
AbsQueue == INSTANCE AbstractOracleQueue WITH
  msgs <- [i \in 1 .. Anchor!QueueTail |-> qMsgs[i - 1]],
  head <- Anchor!QueueHead,
  answers <- recv

RefinesAbstractQueue == AbsQueue!Spec

(***************************************************************************)
(* Every request the oracle queued is eventually processed: the head of    *)
(* the queue passes it.                                                    *)
(***************************************************************************)
AllRequestsProcessed ==
  \A i \in 0 .. MaxRequests - 1 : (Anchor!QueueTail > i) ~> (Anchor!QueueHead > i)

=============================================================================
