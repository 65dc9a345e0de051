-------------------------------- MODULE Heads --------------------------------
(***************************************************************************)
(* What eibrain knows of its heads (infra/head_registry.py) and how it is  *)
(* asked for (infra/head_client.py): nodes with the headStatus they named last,*)
(* their capabilities, indexed one component after the other, and every    *)
(* error they or the client ever reported.  A payload names its node, or   *)
(* the manifest in it does, or nobody does and the default node is meant.  *)
(***************************************************************************)
EXTENDS Naturals, Sequences

CONSTANTS NodeIds, DefaultNode, NoNode, Quiet,
          Components,   \* what an index may be given: keys and entries
          HeadStatuses, \* what a head may say of itself, "unknown" included
          ReportedErrors

(* What urlopen can do to a request, and what _request_json makes of it.   *)
HeadResponses ==
    [arrives : {"response", "http_error", "timeout", "url_error", "os_error", "broken"},
     code : 100..599, timedOut : BOOLEAN, body : {"empty", "object", "list", "garbled"}]

RequestJson(r) ==
    CASE r.arrives = "response" /\ r.code < 400 /\ r.body \in {"empty", "object"} -> "ok"
      [] r.arrives = "response" /\ r.code < 400 -> "invalid_json"
      [] r.arrives = "response" \/ r.arrives = "http_error" -> "http_error"
      [] r.arrives = "timeout" \/ (r.arrives = "url_error" /\ r.timedOut) -> "timeout"
      [] r.arrives = "url_error" \/ r.arrives = "os_error" -> "network_error"
      [] OTHER -> "unexpected"

ClientErrors ==
    [operation : {"get_capabilities", "get_status"},
     message : {"invalid_json", "http_error", "timeout", "network_error", "unexpected"}]

-----------------------------------------------------------------------------
(* A payload that was received: the node its envelope names, the one its   *)
(* manifest names if it wraps one, its components, status and errors.      *)
HeadPayloads ==
    [id : NodeIds \union {NoNode}, wraps : BOOLEAN, manifestId : NodeIds \union {NoNode},
     components : Seq(Components),
     status : HeadStatuses, errors : SUBSET (ReportedErrors \union ClientErrors)]

(* _safe_node_id, and of what _unwrap_manifest leaves of the payload       *)
SafeNodeId(p) == IF p.id # NoNode \/ ~p.wraps THEN p.id ELSE p.manifestId
UnwrappedNodeId(p) == IF p.wraps THEN p.manifestId ELSE p.id
NodeIdFrom(id, given) ==
    IF given # NoNode THEN given ELSE IF id # NoNode THEN id ELSE DefaultNode

(* _upsert_capability: entries of one component or of one category are one *)
(* entry, of which the newer wins; others share a group.                   *)
SetEntry(index, key, entry) ==
    [k \in DOMAIN index \union {key} |-> IF k = key THEN entry ELSE index[k]]

MergedEntry(key, old, new) ==
    IF old.id = new.id \/ old.category = new.category THEN [new EXCEPT !.items = old.items]
    ELSE IF old.category = "group" THEN [old EXCEPT !.items = @ \union {new.id}]
    ELSE [id |-> key, category |-> "group", items |-> {old.id, new.id}]

Upsert(index, key, entry) ==
    SetEntry(index, key, IF key \in DOMAIN index THEN MergedEntry(key, index[key], entry) ELSE entry)

-----------------------------------------------------------------------------
VARIABLES
    nodes,          \* the nodes there are
    headStatus,     \* their overall_status
    capabilities,   \* their indexes of capabilities
    headErrors,     \* their errors, each once
    todo,           \* the payload being taken in, or Quiet
    pull            \* the update_from_client that runs, or Quiet

headVars == <<nodes, headStatus, capabilities, headErrors, todo, pull>>

RegistryInit ==
    /\ nodes = {}
    /\ headStatus = [n \in NodeIds |-> "unknown"]
    /\ capabilities = [n \in NodeIds |-> <<>>]
    /\ headErrors = [n \in NodeIds |-> {}]
    /\ todo = Quiet
    /\ pull = Quiet

(* update_manifest and update_status up to the index ...                   *)
TakeIn(source, p, node) ==
    /\ todo = Quiet
    /\ nodes' = nodes \union {node}
    /\ todo' = [node |-> node, source |-> source, components |-> p.components,
                status |-> p.status, errors |-> p.errors]
    /\ UNCHANGED <<headStatus, capabilities, headErrors>>

(* ... one component of it ...                                             *)
IndexOne ==
    /\ todo # Quiet /\ todo.components # <<>>
    /\ capabilities' = [capabilities EXCEPT ![todo.node] =
                          Upsert(@, Head(todo.components).key, Head(todo.components).entry)]
    /\ todo' = [todo EXCEPT !.components = Tail(@)]
    /\ UNCHANGED <<nodes, headStatus, headErrors, pull>>

(* ... and the rest: errors degrade a node only if they come with a status.*)
StatusAfter(old, t) ==
    IF t.status # "unknown" THEN t.status
    ELSE IF t.source = "status" /\ t.errors # {} THEN "degraded" ELSE old

FinishUpdate ==
    /\ todo # Quiet /\ todo.components = <<>>
    /\ headStatus' = [headStatus EXCEPT ![todo.node] = StatusAfter(@, todo)]
    /\ headErrors' = [headErrors EXCEPT ![todo.node] = @ \union todo.errors]
    /\ todo' = Quiet
    /\ UNCHANGED <<nodes, capabilities, pull>>

TakeUpdate(source, p, given) ==
    /\ pull = Quiet
    /\ TakeIn(source, p, NodeIdFrom(IF source = "manifest" THEN UnwrappedNodeId(p)
                                    ELSE SafeNodeId(p), given))
    /\ UNCHANGED pull

(* _record_client_error                                                    *)
RecordClientError(node, operation, message) ==
    /\ nodes' = nodes \union {node}
    /\ headStatus' = [headStatus EXCEPT ![node] = "degraded"]
    /\ headErrors' = [headErrors EXCEPT ![node] =
                    @ \union {[operation |-> operation, message |-> message]}]
    /\ UNCHANGED <<capabilities, todo>>

(* update_from_client: get_capabilities, then get_status of the node that  *)
(* the capabilities name, whatever the status itself says.                 *)
Pull(given) ==
    /\ pull = Quiet /\ todo = Quiet
    /\ pull' = [asks |-> "get_capabilities", given |-> given,
                effective |-> NodeIdFrom(NoNode, given), statusOf |-> NodeIdFrom(NoNode, given)]
    /\ UNCHANGED <<nodes, headStatus, capabilities, headErrors, todo>>

CapabilitiesArrive(p) ==
    LET node == NodeIdFrom(UnwrappedNodeId(p), pull.given)
    IN  /\ pull # Quiet /\ pull.asks = "get_capabilities"
        /\ TakeIn("manifest", p, node)
        /\ pull' = [pull EXCEPT !.asks = "get_status", !.effective = node,
                      !.statusOf = IF SafeNodeId(p) # NoNode
                                   THEN NodeIdFrom(SafeNodeId(p), pull.given) ELSE node]

CapabilitiesFail(r) ==
    /\ pull # Quiet /\ pull.asks = "get_capabilities" /\ RequestJson(r) # "ok"
    /\ RecordClientError(pull.effective, "get_capabilities", RequestJson(r))
    /\ pull' = [pull EXCEPT !.asks = "get_status"]

StatusArrives(p) ==
    /\ pull # Quiet /\ pull.asks = "get_status"
    /\ TakeIn("status", p, pull.statusOf)
    /\ pull' = Quiet

StatusFails(r) ==
    /\ pull # Quiet /\ pull.asks = "get_status" /\ todo = Quiet /\ RequestJson(r) # "ok"
    /\ RecordClientError(pull.effective, "get_status", RequestJson(r))
    /\ pull' = Quiet

RegistryNext ==
    \/ \E source \in {"manifest", "status"}, p \in HeadPayloads,
          given \in NodeIds \union {NoNode} : TakeUpdate(source, p, given)
    \/ IndexOne \/ FinishUpdate
    \/ \E given \in NodeIds \union {NoNode} : Pull(given)
    \/ \E p \in HeadPayloads : CapabilitiesArrive(p) \/ StatusArrives(p)
    \/ \E r \in HeadResponses : CapabilitiesFail(r) \/ StatusFails(r)

RegistrySpec == RegistryInit /\ [][RegistryNext]_headVars

=============================================================================
