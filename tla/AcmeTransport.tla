---------------------------- MODULE AcmeTransport ----------------------------
(***************************************************************************)
(* Signed requests of the client library (src/crates/akamu-client/src/     *)
(* client/mod.rs): tasks that share one AcmeClient take nonces from one    *)
(* cached_nonce, ask /new-nonce when it is empty and try again on badNonce.*)
(* The server forgets all nonces when it restarts; requests and responses  *)
(* may be lost.                                                            *)
(***************************************************************************)
EXTENDS Integers, FiniteSets

Kinds == {"kid", "raw", "keyChange", "newAccount", "findAccount", "revoke"}
CONSTANTS
    Tasks,          \* two requests each, one after the other
    Plans,          \* what the tasks ask for: task -> its two kinds of request
    MaxRestarts

ASSUME TransportAssumption == IsFiniteSet(Tasks) /\ Plans \subseteq [Tasks -> Kinds \X Kinds] /\ MaxRestarts \in Nat

VARIABLES
    plan,           \* the member of Plans of this behaviour
    cached_nonce,   \* 0: None
    requests,       \* task -> step, attempt, nonce it holds, answer
    live,           \* nonces the server would accept
    sent,           \* nonces that were sent before
    executed,       \* task -> how often the server carried its request out
    restarts
transportVars == <<plan, cached_nonce, requests, live, sent, executed, restarts>>

MaxAttempts == 5
None == 0

(* Nonces that nobody holds any more are left out of the state, and their  *)
(* numbers used again.                                                     *)
Held == ({cached_nonce} \union {requests[t].nonce : t \in Tasks}) \ {None}
FreshNonce == CHOOSE n \in 1..(Cardinality(Tasks) + 2) : n \notin Held
Nonces(alive, old) == live' = alive \cap Held' /\ sent' = old \cap Held'
Kind(t) == plan[t][IF requests[t].second THEN 2 ELSE 1]
Goto(t, step) == requests' = [requests EXCEPT ![t].step = step, ![t].nonce = None]

-----------------------------------------------------------------------------
(* fetch_nonce: take the cached nonce, under its lock, or ask for one.     *)
fetch_nonce(t) ==
    /\ requests[t].step \in {"inner", "outer"}
    /\ IF cached_nonce # None
       THEN /\ requests' = [requests EXCEPT ![t].nonce = cached_nonce, ![t].step = IF @ = "inner" THEN "outer" ELSE "send"]
            /\ cached_nonce' = None
       ELSE requests' = [requests EXCEPT ![t].step = IF @ = "inner" THEN "headInner" ELSE "head"] /\ UNCHANGED cached_nonce
    /\ UNCHANGED <<executed, restarts>> /\ Nonces(live, sent)
(* The HEAD request.                                                       *)
new_nonce(t) ==
    /\ requests[t].step \in {"headInner", "head"}
    /\ requests' = [requests EXCEPT ![t].nonce = FreshNonce, ![t].step = IF @ = "headInner" THEN "outer" ELSE "send"]
    /\ UNCHANGED <<cached_nonce, executed, restarts>> /\ Nonces(live \union {FreshNonce}, sent)
(* A request or its response is lost.                                      *)
HttpError(t) ==
    /\ requests[t].step \in {"headInner", "head", "send", "answered"}
    /\ Goto(t, "failed")
    /\ UNCHANGED <<cached_nonce, executed, restarts>> /\ Nonces(live, sent)

(* The server's half of a POST: the nonce is consumed first, and only a    *)
(* request whose nonce was live is carried out.  Every answer brings a new *)
(* nonce, unless a proxy in between dropped the header.                    *)
Serve(t, header) ==
    LET n == requests[t].nonce IN
    /\ requests[t].step = "send"
    /\ executed' = IF n \in live THEN [executed EXCEPT ![t] = @ + 1] ELSE executed
    /\ requests' = [requests EXCEPT ![t].step = "answered", ![t].ok = n \in live, ![t].nonce = IF header THEN FreshNonce ELSE None]
    /\ UNCHANGED <<cached_nonce, restarts>>
    /\ Nonces((live \ {n}) \union {FreshNonce}, sent \union {n})
(* http_post_raw: the response's nonce is cached, over whatever another    *)
(* task left there.                                                        *)
http_post_raw(t) ==
    /\ requests[t].step = "answered"
    /\ cached_nonce' = IF requests[t].nonce # None THEN requests[t].nonce ELSE cached_nonce
    /\ Goto(t, "check")
    /\ UNCHANGED <<executed, restarts>> /\ Nonces(live, sent)
(* post_jws_once: an answer that is not JSON is an error, after its nonce  *)
(* was cached; downloads are not parsed.                                   *)
post_jws_once(t) ==
    /\ requests[t].step = "check" /\ Kind(t) # "raw"
    /\ Goto(t, "failed")
    /\ UNCHANGED <<cached_nonce, executed, restarts>> /\ Nonces(live, sent)

(* Every request has its own copy of the loop: a badNonce answer clears    *)
(* the cache and starts over, any other answer ends it.                    *)
Again(t) == requests' = [requests EXCEPT ![t].step = "outer", ![t].attempt = @ + 1] /\ cached_nonce' = None
(* Mutant: a request is tried again whatever the error was.                *)
MutBadNonceLoop(t) ==
    /\ requests[t].step = "check"
    /\ IF requests[t].attempt = 1 THEN Goto(t, "done") /\ UNCHANGED cached_nonce ELSE Again(t)
    /\ UNCHANGED <<executed, restarts>> /\ Nonces(live, sent)
BadNonceLoop(t) ==
    /\ requests[t].step = "check"
    /\ IF requests[t].ok THEN Goto(t, "done") /\ UNCHANGED cached_nonce
       ELSE IF requests[t].attempt = MaxAttempts - 1 THEN Goto(t, "limit") /\ UNCHANGED cached_nonce
       ELSE Again(t)
    /\ UNCHANGED <<executed, restarts>> /\ Nonces(live, sent)
post_kid(t) == Kind(t) \in {"kid", "keyChange"} /\ BadNonceLoop(t)
post_kid_raw(t) == Kind(t) = "raw" /\ BadNonceLoop(t)
post_new_account(t) == Kind(t) = "newAccount" /\ BadNonceLoop(t)
post_find_account(t) == Kind(t) = "findAccount" /\ BadNonceLoop(t)
revoke_certificate_with_cert_key(t) == Kind(t) = "revoke" /\ BadNonceLoop(t)

(* A request starts with its nonce; a key change first takes one for its   *)
(* inner object, which the server never looks at.                          *)
FirstStep(kind) == IF kind = "keyChange" THEN "inner" ELSE "outer"
NextRequest(t) ==
    /\ requests[t].step \in {"done", "limit"} /\ ~requests[t].second
    /\ requests' = [requests EXCEPT ![t].step = FirstStep(plan[t][2]), ![t].attempt = 0, ![t].ok = FALSE, ![t].second = TRUE]
    /\ executed' = [executed EXCEPT ![t] = 0]
    /\ UNCHANGED <<cached_nonce, live, sent, restarts>>

(* The server restarts; its nonces were in memory.                         *)
ServerRestart ==
    /\ restarts < MaxRestarts /\ restarts' = restarts + 1
    /\ live' = {}
    /\ UNCHANGED <<cached_nonce, requests, sent, executed>>

-----------------------------------------------------------------------------
TransportInit ==
    /\ plan \in Plans
    /\ cached_nonce = None /\ live = {} /\ sent = {} /\ restarts = 0
    /\ requests = [t \in Tasks |-> [step |-> FirstStep(plan[t][1]), attempt |-> 0, nonce |-> None, ok |-> FALSE, second |-> FALSE]]
    /\ executed = [t \in Tasks |-> 0]
Post(t) == post_kid(t) \/ post_kid_raw(t) \/ post_new_account(t) \/ post_find_account(t) \/ revoke_certificate_with_cert_key(t)
TaskStep(t) ==
    \/ fetch_nonce(t) \/ new_nonce(t) \/ (\E h \in BOOLEAN : Serve(t, h)) \/ http_post_raw(t) \/ NextRequest(t)
    \/ Post(t) \/ post_jws_once(t)
TransportNext == ((\E t \in Tasks : TaskStep(t) \/ HttpError(t)) \/ ServerRestart) /\ UNCHANGED plan
TransportSpec == TransportInit /\ [][TransportNext]_transportVars
-----------------------------------------------------------------------------
(* No nonce is sent twice, by one task or by two, whatever the             *)
(* interleaving of takes, stores and clears of cached_nonce                *)
(* (fetch_nonce, http_post_raw, post_kid).                                 *)
NonceSentOnce == \A t \in Tasks : requests[t].step = "send" => requests[t].nonce \notin sent

(* Retries never repeat an effect: the server carries a request out at     *)
(* most once, and exactly once when the client reports success.  A request *)
(* is given up for badNonce only if none of its attempts was carried out   *)
(* (post_kid and its copies in new_account and find_account).              *)
CarriedOutOnce ==
    \A t \in Tasks :
        /\ executed[t] <= 1
        /\ requests[t].step = "done" => executed[t] = 1
        /\ requests[t].step = "limit" => executed[t] = 0

(* A request is given up for badNonce only after so many restarts of the   *)
(* server that each task, holding one stale nonce per restart, can have    *)
(* spoiled MaxAttempts attempts (cached_nonce is cleared and refilled by   *)
(* everybody).                                                             *)
RestartsSurvived ==
    (\E t \in Tasks : requests[t].step = "limit") => restarts * Cardinality(Tasks) >= MaxAttempts

(* Nonces, retries and server restarts: a request takes effect once.        *)
RequestsOnce == NonceSentOnce /\ CarriedOutOnce /\ RestartsSurvived
=============================================================================
