--------------------------- MODULE MCRollupAnchor ---------------------------
(***************************************************************************)
(* The anchor on its own, as the hardhat tests deploy it (deployFixture):  *)
(* a submitter, the deployer as owner, queue prefix 'q' and a TestReceiver *)
(* that logs every forwarded payload.  Any caller submits any batch drawn  *)
(* from small sets of conditions, updates and actions, including the       *)
(* malformed shapes the tests submit.                                      *)
(***************************************************************************)
EXTENDS RollupAnchor

CONSTANTS
  K1,          \* a user key ('0x01' in the tests)
  MaxRecv      \* bound: the TestReceiver log holds at most MaxRecv payloads

VARIABLE lastTx    \* the batch of the last rollup call (history variable)

vars == <<anchorVars, lastTx>>

\* The values a batch may carry: '0x', encodeUint32(0), encodeUint32(1).
Vals == {Empty, 0, 1}

\* TestReceiver.onPhatRollupReceived logs (sender, data) and returns the
\* receiver selector.
TestReceiverOnRollupReceived(st, p) == [ok |-> TRUE, st |-> Append(st, p)]

NoPairs == [k |-> << >>, v |-> << >>]

Pairs(ks) ==
  {NoPairs, [k |-> <<K1>>, v |-> << >>]}
    \cup {[k |-> <<k>>, v |-> <<v>>] : k \in ks, v \in Vals}

Callback(p) == [sel |-> SelCallback, payload |-> p, target |-> 0]
Tx(c, u, as) == [condKeys |-> c.k, condValues |-> c.v,
                 updateKeys |-> u.k, updateValues |-> u.v, actions |-> as]

\* Batches that touch the user key only, with a single callback.
LockBatches ==
  {Tx(c, u, <<Callback("deadbeef")>>) : c \in Pairs({K1}), u \in Pairs({K1})}

\* Batches that write the queue's tail counter, which is an ordinary key of
\* the same store.
TailBatches ==
  {Tx(NoPairs, [k |-> <<QTailKey>>, v |-> <<v>>], << >>) : v \in Vals}

Init == AnchorInit /\ lastTx = Tx(NoPairs, NoPairs, << >>)

\* Rollups of the given batches; the history keeps the last one.
NextWith(Batches) ==
  \/ /\ Len(recv) < MaxRecv
     /\ \E c \in Callers, tx \in Batches :
          RollupU256CondEq(c, tx) /\ lastTx' = tx
  \/ \E c \in Callers, m \in Messages : PushMessage(c, m) /\ UNCHANGED lastTx
  \/ \E c, n \in Callers : TransferOwnership(c, n) /\ UNCHANGED lastTx

EmptyLog == << >>

TailSpec == Init /\ [][NextWith(TailBatches)]_vars
LockSpec == Init /\ [][NextWith(LockBatches)]_vars

(***************************************************************************)
(* Optimistic lock (spec section 8, test "Should reject conflicting       *)
(* transaction"): a batch that succeeded and whose updates rewrote the     *)
(* value of one of its own condition keys cannot succeed again when it is  *)
(* resubmitted right away.                                                 *)
(***************************************************************************)
RewritesOwnCond(tx) ==
  \E i \in 1 .. Len(tx.condKeys), j \in 1 .. Len(tx.updateKeys) :
    /\ tx.updateKeys[j] = tx.condKeys[i]
    /\ tx.updateValues[j] # tx.condValues[i]

ReplayRejected ==
  [][ /\ lastCall.fn = "rollup" /\ lastCall.reason = "ok"
      /\ RewritesOwnCond(lastTx)
      /\ lastCall'.fn = "rollup" /\ lastCall'.caller = Submitter
      /\ lastTx' = lastTx
      => lastCall'.reason = "cond not met" ]_vars

=============================================================================
