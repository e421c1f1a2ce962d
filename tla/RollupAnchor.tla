---------------------------- MODULE RollupAnchor ----------------------------
(***************************************************************************)
(* The on-chain rollup anchor (PhatRollupAnchor): a key-value store, a     *)
(* FIFO queue kept in that store under two counter keys, the submitter-    *)
(* only rollupU256CondEq entry point and the owner-only pushMessage.       *)
(*                                                                         *)
(* The receiver a Callback action is forwarded to is a parameter: its      *)
(* state is the variable recv and its entry point onPhatRollupReceived is  *)
(* the operator OnRollupReceived(st, payload), which yields                *)
(* [ok |-> acceptance, st |-> receiver state after the call].              *)
(*                                                                         *)
(* A call runs as one EVM transaction: a failed require reverts every      *)
(* effect of the call (policy (a) of the spec, which is what the EVM does  *)
(* with a revert), and lastCall records the call and its outcome.          *)
(***************************************************************************)
EXTENDS Integers, Sequences, SequencesExt, FiniteSetsExt

CONSTANTS
  Submitter,        \* the identity given to the constructor
  Deployer,         \* the first owner (Ownable)
  Callers,          \* every address that may call the anchor
  UserKeys,         \* store keys other than the queue counters
  QHeadKey,         \* <prefix>_head
  QTailKey,         \* <prefix>_tail
  Empty,            \* the empty byte string '0x': what an absent key reads as
  Messages,         \* payloads that can be pushed
  MaxQueue,         \* bound: at most MaxQueue messages are ever pushed
  RecvInit,         \* the receiver's state after its deployment
  OnRollupReceived(_, _)

Keys == UserKeys \cup {QHeadKey, QTailKey}
QIndex == 0 .. MaxQueue - 1

\* Action selectors (the first byte of an action)
SelCallback == 0
SelProcessedTo == 1

VARIABLES
  owner,     \* Ownable owner: the only address allowed to pushMessage
  storage,   \* phatStorage: key -> raw value (Empty when never written)
  qMsgs,     \* the message slots <prefix><index>
  recv,      \* the receiver's state
  lastCall   \* the last call, its outcome and the events it emitted

anchorVars == <<owner, storage, qMsgs, recv, lastCall>>

(***************************************************************************)
(* toUint32Strict / abi uint32 decoding: the U256 comparison of            *)
(* rollupU256CondEq reads the empty value as 0.                            *)
(***************************************************************************)
UintOf(v) == IF v = Empty THEN 0 ELSE v

QueueHead == UintOf(storage[QHeadKey])
QueueTail == UintOf(storage[QTailKey])

\* A condition holds when the stored value and the expected one are equal
\* as integers.
CondsHold(st, tx) ==
  \A i \in 1 .. Len(tx.condKeys) :
    UintOf(st[tx.condKeys[i]]) = UintOf(tx.condValues[i])

\* Updates are written in order: the last write to a key wins.
ApplyUpdates(st, tx) ==
  [k \in DOMAIN st |->
     LET W == {i \in 1 .. Len(tx.updateKeys) : tx.updateKeys[i] = k}
     IN  IF W = {} THEN st[k] ELSE tx.updateValues[Max(W)]]

(***************************************************************************)
(* handleAction: one step of the dispatch loop over the actions, on an     *)
(* accumulator of the call's effects; once a step fails the rest are moot  *)
(* since the call reverts.                                                 *)
(***************************************************************************)
HandleAction(acc, a) ==
  IF acc.reason # "ok" THEN acc
  ELSE CASE a.sel = SelCallback ->
              LET r == OnRollupReceived(acc.recv, a.payload)
              IN  IF r.ok THEN [acc EXCEPT !.recv = r.st]
                  ELSE [acc EXCEPT !.reason = "bad rollup receiver"]
         [] a.sel = SelProcessedTo ->
              [acc EXCEPT !.store[QHeadKey] = a.target,
                          !.events = Append(@, <<"MessageProcessedTo", a.target>>)]
         [] OTHER -> [acc EXCEPT !.reason = "unsupported action"]

\* The guard of rollupU256CondEq, in the order of its require statements.
CheckRollup(caller, tx) ==
  CASE caller # Submitter                            -> "bad submitter"
    [] Len(tx.condKeys) # Len(tx.condValues)         -> "bad cond len"
    [] Len(tx.updateKeys) # Len(tx.updateValues)     -> "bad update len"
    [] ~CondsHold(storage, tx)                       -> "cond not met"
    [] OTHER                                         -> "ok"

\* The effects of the whole call: checks, updates, then the actions in order.
RollupEffects(caller, tx) ==
  LET reason == CheckRollup(caller, tx)
      start(st) == [reason |-> reason, store |-> st, recv |-> recv, events |-> << >>]
  IN  IF reason # "ok" THEN start(storage)
      ELSE FoldLeft(HandleAction, start(ApplyUpdates(storage, tx)), tx.actions)

Commit(eff) ==
  /\ storage' = eff.store
  /\ recv' = eff.recv

RollupU256CondEq(caller, tx) ==
  LET eff == RollupEffects(caller, tx)
  IN  /\ IF eff.reason = "ok" THEN Commit(eff) ELSE UNCHANGED <<storage, recv>>
      /\ lastCall' = [fn |-> "rollup", caller |-> caller, reason |-> eff.reason,
                      events |-> IF eff.reason = "ok" THEN eff.events ELSE << >>]
      /\ UNCHANGED <<owner, qMsgs>>

\* pushMessage: onlyOwner; the message goes to slot tail and tail grows by 1.
PushMessage(caller, m) ==
  LET idx == QueueTail IN
  /\ idx < MaxQueue
  /\ IF caller = owner
     THEN /\ qMsgs' = [qMsgs EXCEPT ![idx] = m]
          /\ storage' = [storage EXCEPT ![QTailKey] = idx + 1]
          /\ lastCall' = [fn |-> "push", caller |-> caller, reason |-> "ok",
                          events |-> <<<<"MessageQueued", idx, m>>>>]
     ELSE /\ lastCall' = [fn |-> "push", caller |-> caller,
                          reason |-> "not owner", events |-> << >>]
          /\ UNCHANGED <<qMsgs, storage>>
  /\ UNCHANGED <<owner, recv>>

\* transferOwnership (Ownable): only the owner may hand the anchor over.
TransferOwnership(caller, new) ==
  /\ owner' = IF caller = owner THEN new ELSE owner
  /\ lastCall' = [fn |-> "transferOwnership", caller |-> caller,
                  reason |-> IF caller = owner THEN "ok" ELSE "not owner",
                  events |-> << >>]
  /\ UNCHANGED <<storage, qMsgs, recv>>

AnchorInit ==
  /\ owner = Deployer
  /\ storage = [k \in Keys |-> Empty]
  /\ qMsgs = [i \in QIndex |-> Empty]
  /\ recv = RecvInit
  /\ lastCall = [fn |-> "deploy", caller |-> Deployer, reason |-> "ok", events |-> << >>]

-----------------------------------------------------------------------------
(***************************************************************************)
(* Properties of the anchor                                                *)
(***************************************************************************)

AnchorTypeOK ==
  /\ owner \in Callers
  /\ storage \in [Keys -> Nat \cup {Empty}]
  /\ qMsgs \in [QIndex -> Messages \cup {Empty}]
  /\ lastCall.reason \in {"ok", "not owner", "bad submitter", "bad cond len",
                           "bad update len", "cond not met",
                           "bad rollup receiver", "unsupported action"}

(***************************************************************************)
(* Queue history (spec section 3): a message pushed to slot i stays there  *)
(* for good; nothing the anchor accepts overwrites or erases it.           *)
(***************************************************************************)
MessageHistoryKept ==
  [][\A i \in QIndex : qMsgs[i] # Empty => qMsgs'[i] = qMsgs[i]]_anchorVars

=============================================================================
