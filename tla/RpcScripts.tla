----------------------------- MODULE RpcScripts -----------------------------
(***************************************************************************)
(* The two node.js scripts under scripts/bridge, as processes talking to  *)
(* one RPC endpoint:                                                       *)
(*                                                                         *)
(*  - bridge.js opens a WsProvider, creates an ApiPromise with the default *)
(*    types or with those of schema.json, queries every entry of           *)
(*    registryPallet.apiFeeds, prints them, and ends with                  *)
(*    main().catch(console.error).finally(() => process.exit());           *)
(*  - get_metadata.js opens a WsProvider, creates an ApiPromise, fetches   *)
(*    the metadata, prints it, and ends with main().catch(console.error).  *)
(*                                                                         *)
(* Each await is a step.  ApiPromise.create resolves only once the         *)
(* provider is connected and stays pending while the endpoint is down (the *)
(* WsProvider keeps reconnecting); a request in flight when the connection *)
(* drops is rejected.  A node.js process ends when process.exit() is       *)
(* called, or when main has settled and no handle is left open; the        *)
(* WsProvider's socket (and its reconnect timer) is such a handle until    *)
(* the provider is disconnected, which neither script does.  Printed text  *)
(* is left out: what is checked is which of these steps happen.            *)
(***************************************************************************)
CONSTANTS
  Schemas    \* what ./schema.json is at start: "missing", "valid" or "malformed"

ASSUME Schemas \subseteq {"missing", "valid", "malformed"}

VARIABLES
  node,      \* the endpoint WS_URL: "up" or "down"
  schema,    \* the schema.json file bridge.js finds
  bridge,    \* bridge.js: [pc, providerOpen]
  meta       \* get_metadata.js: [pc, providerOpen]

vars == <<node, schema, bridge, meta>>

Start == [pc |-> "start", providerOpen |-> FALSE]

(***************************************************************************)
(* bridge.js                                                               *)
(***************************************************************************)
\* main(): new WsProvider(WS_URL), then the schema branch; JSON.parse of a
\* malformed schema.json throws, which rejects main.
BridgeMain ==
  /\ bridge.pc = "start"
  /\ bridge' = [pc |-> IF schema = "malformed" THEN "rejected" ELSE "creating",
                providerOpen |-> TRUE]
  /\ UNCHANGED <<node, schema, meta>>

\* await ApiPromise.create({ provider }) or with { provider, types, rpc }:
\* resolves once the provider is connected.
BridgeApiReady ==
  /\ bridge.pc = "creating" /\ node = "up"
  /\ bridge' = [bridge EXCEPT !.pc = "querying"]
  /\ UNCHANGED <<node, schema, meta>>

\* await api.query.registryPallet.apiFeeds.entries(), then the forEach that
\* prints every entry: main resolves.
BridgeEntries ==
  /\ bridge.pc = "querying" /\ node = "up"
  /\ bridge' = [bridge EXCEPT !.pc = "resolved"]
  /\ UNCHANGED <<node, schema, meta>>

\* The entries request is rejected when the connection drops under it.
BridgeQueryFails ==
  /\ bridge.pc = "querying" /\ node = "down"
  /\ bridge' = [bridge EXCEPT !.pc = "rejected"]
  /\ UNCHANGED <<node, schema, meta>>

\* .catch(console.error) with no .finally: the process outlives main while
\* the provider's socket is open.
BridgeSettleNoExit ==
  /\ bridge.pc \in {"resolved", "rejected"}
  /\ bridge' = [bridge EXCEPT !.pc = IF bridge.providerOpen THEN "settled" ELSE "exited"]
  /\ UNCHANGED <<node, schema, meta>>

\* .catch(console.error).finally(() => process.exit()): the process ends
\* whatever the provider still holds.
BridgeSettle ==
  /\ bridge.pc \in {"resolved", "rejected"}
  /\ bridge' = [pc |-> "exited", providerOpen |-> FALSE]
  /\ UNCHANGED <<node, schema, meta>>

(***************************************************************************)
(* get_metadata.js                                                         *)
(***************************************************************************)
\* main(): ApiPromise.create({ provider: new WsProvider(api_endpoint) })
MetaMain ==
  /\ meta.pc = "start"
  /\ meta' = [pc |-> "creating", providerOpen |-> TRUE]
  /\ UNCHANGED <<node, schema, bridge>>

MetaApiReady ==
  /\ meta.pc = "creating" /\ node = "up"
  /\ meta' = [meta EXCEPT !.pc = "querying"]
  /\ UNCHANGED <<node, schema, bridge>>

\* await api.rpc.state.getMetadata(), then console.log of the metadata; the
\* request is rejected when the connection drops under it.
MetaGetMetadata ==
  /\ meta.pc = "querying"
  /\ meta' = [meta EXCEPT !.pc = IF node = "up" THEN "resolved" ELSE "rejected"]
  /\ UNCHANGED <<node, schema, bridge>>

\* main().catch(console.error): no process.exit and no api.disconnect, so
\* the process ends only if no handle is left open.
MetaSettle ==
  /\ meta.pc \in {"resolved", "rejected"}
  /\ meta' = [meta EXCEPT !.pc = IF meta.providerOpen THEN "settled" ELSE "exited"]
  /\ UNCHANGED <<node, schema, bridge>>

(***************************************************************************)
(* The endpoint goes down and comes back at any time.                      *)
(***************************************************************************)
NodeDown == node = "up" /\ node' = "down" /\ UNCHANGED <<schema, bridge, meta>>
NodeUp == node = "down" /\ node' = "up" /\ UNCHANGED <<schema, bridge, meta>>

Init ==
  /\ node \in {"up", "down"}
  /\ schema \in Schemas
  /\ bridge = Start
  /\ meta = Start

Next ==
  \/ BridgeMain \/ BridgeApiReady \/ BridgeEntries \/ BridgeQueryFails \/ BridgeSettle
  \/ MetaMain \/ MetaApiReady \/ MetaGetMetadata \/ MetaSettle
  \/ NodeDown \/ NodeUp

\* node.js runs every ready callback: each script step that is enabled for
\* good is taken.  Nothing is assumed about the endpoint.
Fairness ==
  /\ WF_vars(BridgeMain) /\ WF_vars(BridgeApiReady) /\ WF_vars(BridgeEntries)
  /\ WF_vars(BridgeQueryFails) /\ WF_vars(BridgeSettle)
  /\ WF_vars(MetaMain) /\ WF_vars(MetaApiReady) /\ WF_vars(MetaGetMetadata)
  /\ WF_vars(MetaSettle)

Spec == Init /\ [][Next]_vars /\ Fairness

-----------------------------------------------------------------------------
NodeStaysUp == <>[](node = "up")

(***************************************************************************)
(* bridge.js always ends, whichever way main settles (a malformed          *)
(* schema.json, a request dropped with the connection, or the printed      *)
(* entries), as long as the endpoint is eventually reachable for good: the *)
(* .finally(() => process.exit()) closes the process that the provider's   *)
(* socket would keep alive.                                                *)
(***************************************************************************)
BridgeTerminates == NodeStaysUp => <>(bridge.pc = "exited")

(***************************************************************************)
(* get_metadata.js ends once it has printed the metadata or reported the   *)
(* error, under the same assumption on the endpoint.                       *)
(***************************************************************************)
MetaTerminates == NodeStaysUp => <>(meta.pc = "exited")

=============================================================================
