------------------------------- MODULE Router --------------------------------
(***************************************************************************)
(* LLMRouter (cognition/dialogue/llm_router.py): how a prompt becomes a    *)
(* reply, and what the router says afterwards of the call.                 *)
(*                                                                         *)
(* Most providers are one request.  The gateway is a conversation over a   *)
(* web socket: a challenge, a signature by another process, a connect      *)
(* request, the agent request, which is first accepted and then answered,  *)
(* and any frames of others in between.  An error of a kind that generate  *)
(* expects is noted and the reply is blank; any other leaves generate and  *)
(* what was noted of the call before.                                      *)
(***************************************************************************)
EXTENDS Naturals

CONSTANTS
    Provider,   \* "echo", "gateway", "hontu", "anthropic", "chat" or "none"
    RequestIds  \* ids of requests: each is a fresh uuid4

Blankness == "blank"
NoRequest == "no request"

VARIABLES
    stage,      \* where the call is; "idle" between two calls
    waitsFor,   \* the id of the request under way
    asked,      \* history: the method and the call of every id that was sent
    calls,      \* history: how many calls there were
    status,     \* last_status
    reply,      \* last_text: blank, a text, or the id it is the answer to
    ended       \* history: how the last call ended

rvars == <<stage, waitsFor, asked, calls, status, reply, ended>>

GatewayFrames ==
    [type : {"challenge", "res", "other"}, id : RequestIds, ok : BOOLEAN, nonce : BOOLEAN,
     final : BOOLEAN, text : BOOLEAN, object : BOOLEAN]

RouterInit ==
    /\ stage = "idle" /\ waitsFor = NoRequest
    /\ asked = [id \in {} |-> 0] /\ calls = 0
    /\ status = "idle" /\ reply = Blankness /\ ended = "returned"

(* generate: the text of the last call is forgotten, its status is not.    *)
Generate(prompt) ==
    /\ stage = "idle"
    /\ reply' = Blankness /\ ended' = "returned" /\ calls' = calls + 1
    /\ UNCHANGED <<waitsFor, asked>>
    /\ IF prompt = "empty" THEN stage' = "idle" /\ status' = "empty_prompt"
       ELSE IF Provider = "echo" THEN stage' = "echo" /\ UNCHANGED status
       ELSE IF Provider = "none"
            THEN /\ stage' = "idle"
                 /\ status' = IF status \in {"error", "empty_response"} THEN status ELSE "unavailable"
       ELSE stage' = (IF Provider = "gateway" THEN "open" ELSE "request") /\ UNCHANGED status

Return(r) ==
    /\ reply' = r /\ status' = (IF r = Blankness THEN "empty_response" ELSE "ok")
    /\ stage' = "idle" /\ waitsFor' = NoRequest
    /\ UNCHANGED <<asked, calls, ended>>

Echo == stage = "echo" /\ Return("echo")

(* One of the expected errors: OSError, ValueError, KeyError, TimeoutError *)
(* and URLError, as far as the provider's except clause names them.        *)
Expected ==
    /\ stage \notin {"idle", "echo"}
    /\ status' = "error" /\ stage' = "idle" /\ waitsFor' = NoRequest
    /\ UNCHANGED <<asked, calls, reply, ended>>

(* Any other error: a web socket that times out or closes, a device        *)
(* identity that takes more than its five seconds, an empty list of        *)
(* choices.                                                                *)
Unexpected ==
    /\ stage \notin {"idle", "echo"}
    /\ ended' = "raised" /\ stage' = "idle" /\ waitsFor' = NoRequest
    /\ UNCHANGED <<asked, calls, status, reply>>

(* The other providers: a request, and the text of its answer.             *)
Answered == stage = "request" /\ \E r \in {"answer", Blankness} : Return(r)

-----------------------------------------------------------------------------
(* The gateway.  A frame that is not waited for is skipped.                *)
Open ==
    /\ stage = "open" /\ stage' = "challenge"
    /\ UNCHANGED <<waitsFor, asked, calls, status, reply, ended>>

Challenged(f) ==
    /\ stage = "challenge" /\ f.type = "challenge" /\ f.nonce
    /\ stage' = "sign"
    /\ UNCHANGED <<waitsFor, asked, calls, status, reply, ended>>

(* _gateway_request: a fresh id, and its response is waited for.           *)
Send(id, method) ==
    /\ id \notin DOMAIN asked
    /\ asked' = [i \in DOMAIN asked \union {id} |->
                    IF i = id THEN [method |-> method, call |-> calls] ELSE asked[i]]
    /\ waitsFor' = id /\ stage' = method
    /\ UNCHANGED <<calls, status, reply, ended>>

Signed(id) == stage = "sign" /\ Send(id, "connect")

IsResponse(f) == f.type = "res" /\ f.id = waitsFor
Succeeds(f) == f.ok /\ f.object

Connected(f, id) == stage = "connect" /\ IsResponse(f) /\ Succeeds(f) /\ Send(id, "agent")

(* A response that only says "accepted" is not the answer.                 *)
AgentAnswers(f) ==
    /\ stage = "agent" /\ IsResponse(f) /\ Succeeds(f) /\ f.final
    /\ Return(IF f.text THEN f.id ELSE Blankness)

RouterNext ==
    \/ \E prompt \in {"empty", "some"} : Generate(prompt)
    \/ Echo \/ Answered \/ Expected \/ Unexpected
    \/ Open
    \/ \E f \in GatewayFrames : Challenged(f) \/ AgentAnswers(f) \/ \E id \in RequestIds : Connected(f, id)
    \/ \E id \in RequestIds : Signed(id)

RouterSpec == RouterInit /\ [][RouterNext]_rvars

-----------------------------------------------------------------------------
(* What the frames of the gateway become is the answer to the agent request*)
(* of this call, and not the answer to another prompt or to the connect    *)
(* request, whatever frames arrive late (_wait_gateway_response).          *)
AnswersThisPrompt ==
    reply \in RequestIds => asked[reply] = [method |-> "agent", call |-> calls]

(* Between two calls the status tells what became of the last: "ok" and no *)
(* text means that the call raised, and that the status is that of an      *)
(* older call (the except clauses of generate).                            *)
OkHasText ==
    stage = "idle" /\ status = "ok" /\ reply = Blankness => ended = "raised"

=============================================================================
