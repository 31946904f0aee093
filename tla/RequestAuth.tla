---------------------------- MODULE RequestAuth ----------------------------
(***************************************************************************)
(* Authentication of ACME requests and the life of accounts: the in-memory *)
(* nonce bucket and the account-key cache (state.rs), parse_jws            *)
(* (routes/mod.rs), and the handlers that change an account (account.rs,   *)
(* key_change.rs, admin/accounts.rs), on one node without gossip.          *)
(*                                                                         *)
(* A handler suspends at every database access; other handlers run there.  *)
(* Nonces are numbered in the order in which they are drawn: they are      *)
(* random in the code and never repeat.                                    *)
(***************************************************************************)
EXTENDS Naturals

CONSTANTS
  Accounts, Keys, Null,
  Reqs,         \* requests; each is sent once
  Registered,   \* accounts that exist at startup, and their keys
  TTL,          \* SPKI_CACHE_TTL
  MaxTime,      \* bound: clock ticks
  MaxNonce,     \* bound: nonces drawn
  MaxRestarts   \* bound: restarts

ASSUME AuthAssumption ==
  /\ TTL \in Nat /\ MaxTime \in Nat /\ MaxNonce \in Nat /\ MaxRestarts \in Nat
  /\ Null \notin Keys \cup Accounts
  /\ DOMAIN Registered \subseteq Accounts
  /\ Registered \in [DOMAIN Registered -> Keys]
  /\ \A a, b \in DOMAIN Registered : Registered[a] = Registered[b] => a = b

VARIABLES
  now,
  row,        \* accounts rows: status ("none": no row) and public key
  cache,      \* spki_cache: key and cached_at; key Null for no entry
  nonces,     \* the nonce bucket
  lastNonce,  \* the last nonce drawn
  req,        \* the requests
  restarts,
  retired     \* history: when each key last ceased to be the key of a valid account

vars == <<now, row, cache, nonces, lastNonce, req, restarts, retired>>

Row == [status : {"none", "valid", "deactivated"}, key : Keys \cup {Null}]
Entry == [key : Keys \cup {Null}, at : 0 .. MaxTime]

(* pc: unsent; keyed (nonce consumed); filling (row read, cache not yet    *)
(* written); authed (signature verified); checked (new key found unused);  *)
(* evicting (row written, cache entry not yet removed); done (answered, or *)
(* refused); bad_nonce (refused for its nonce).  A request without an      *)
(* account carries its own key: it is a new-account request.               *)
Request == [pc : {"unsent", "keyed", "filling", "authed", "checked", "evicting", "done",
                  "bad_nonce"},
            account : Accounts \cup {Null}, nonce : 0 .. MaxNonce,
            spki : Keys \cup {Null}, new_key : Keys \cup {Null}, read_at : 0 .. MaxTime]

TypeOK ==
  /\ now \in 0 .. MaxTime
  /\ row \in [Accounts -> Row]
  /\ cache \in [Accounts -> Entry]
  /\ nonces \subseteq 1 .. lastNonce
  /\ lastNonce \in 0 .. MaxNonce
  /\ req \in [Reqs -> Request]
  /\ \A r \in Reqs : req[r].pc = "authed" => req[r].spki \in Keys
  /\ restarts \in 0 .. MaxRestarts
  /\ retired \in [Keys -> 0 .. MaxTime]

Unsent == [pc |-> "unsent", account |-> Null, nonce |-> 0, spki |-> Null, new_key |-> Null,
           read_at |-> 0]

NoEntry == [key |-> Null, at |-> 0]

Init ==
  /\ now = 0
  /\ row = [a \in Accounts |-> IF a \in DOMAIN Registered
                              THEN [status |-> "valid", key |-> Registered[a]]
                              ELSE [status |-> "none", key |-> Null]]
  /\ cache = [a \in Accounts |-> NoEntry]
  /\ nonces = {} /\ lastNonce = 0
  /\ req = [r \in Reqs |-> Unsent]
  /\ restarts = 0
  /\ retired = [k \in Keys |-> 0]

(* k is the key of a valid account. *)
Current(k) == \E a \in Accounts : row[a].status = "valid" /\ row[a].key = k

(* Bookkeeping of the history: a key that is current now but not after the *)
(* step retires now.                                                       *)
Retire == retired' = [k \in Keys |-> IF Current(k) /\ ~ Current(k)' THEN now ELSE retired[k]]

Goto(r, pc) == req' = [req EXCEPT ![r].pc = pc]

(* The handler of r returns and its locals are gone; which nonce got it    *)
(* past parse_jws is kept for the record.                                  *)
Return(r) == [req EXCEPT ![r] = [Unsent EXCEPT !.pc = "done", !.nonce = req[r].nonce]]

-----------------------------------------------------------------------------
(* parse_jws.                                                              *)

(* new-nonce. *)
NewNonce ==
  /\ lastNonce < MaxNonce
  /\ lastNonce' = lastNonce + 1
  /\ nonces' = nonces \cup {lastNonce'}
  /\ UNCHANGED <<now, row, cache, req, restarts, retired>>

(* Mutant: the old nonce is looked up but stays in the map. *)
MutConsume(n, next) == nonces \cup {next}

(* NonceBucket::consume_and_insert, or insert when the nonce is unknown. *)
ConsumeAndInsert(n, next) == (nonces \ {n}) \cup {next}

(* A request arrives with any nonce ever handed out.  The rest of its      *)
(* contents is chosen where the code first looks at it.                    *)
Arrive(r, n, request) ==
  /\ req[r].pc = "unsent"
  /\ lastNonce < MaxNonce
  /\ lastNonce' = lastNonce + 1
  /\ nonces' = ConsumeAndInsert(n, lastNonce')
  /\ req' = [req EXCEPT ![r] = IF n \in nonces THEN [request EXCEPT !.nonce = n]
                                ELSE [Unsent EXCEPT !.pc = "bad_nonce"]]
  /\ UNCHANGED <<now, row, cache, restarts, retired>>

(* A request under an account's URL (kid), or, for new-account, under the  *)
(* key it carries (jwk).                                                   *)
ArriveKid(r, n, a) ==
  row[a].status # "none" /\ Arrive(r, n, [Unsent EXCEPT !.pc = "keyed", !.account = a])

ArriveJwk(r, n, k) == Arrive(r, n, [Unsent EXCEPT !.pc = "authed", !.spki = k])

(* The request was signed with key k, or else is refused. *)
Verify(r, k) ==
  \/ req' = [req EXCEPT ![r].pc = "authed", ![r].spki = k, ![r].read_at = 0]
  \/ req' = Return(r)

(* Mutant: cached entries never expire. *)
MutFresh(a) == cache[a].key # Null

(* A cache entry that is not older than the TTL. *)
Fresh(a) == cache[a].key # Null /\ now - cache[a].at <= TTL

(* The account is found in the cache. *)
LookupHit(r) ==
  /\ req[r].pc = "keyed" /\ Fresh(req[r].account)
  /\ Verify(r, cache[req[r].account].key)
  /\ UNCHANGED <<now, row, cache, nonces, lastNonce, restarts, retired>>

(* It is not: the row is read ... *)
LookupMiss(r) ==
  LET a == req[r].account IN
  /\ req[r].pc = "keyed" /\ ~ Fresh(a)
  /\ req' = IF row[a].status = "valid"
            THEN [req EXCEPT ![r].pc = "filling", ![r].spki = row[a].key, ![r].read_at = now]
            ELSE Return(r)
  /\ UNCHANGED <<now, row, cache, nonces, lastNonce, restarts, retired>>

(* ... and cached when the handler resumes. *)
Fill(r) ==
  /\ req[r].pc = "filling"
  /\ cache' = [cache EXCEPT ![req[r].account] = [key |-> req[r].spki, at |-> now]]
  /\ Verify(r, req[r].spki)
  /\ UNCHANGED <<now, row, nonces, lastNonce, restarts, retired>>

-----------------------------------------------------------------------------
(* Handlers.                                                               *)

(* The jwk_thumbprint column: an account other than a has key k. *)
KeyTaken(a, k) == \E b \in Accounts \ {a} : row[b].status # "none" /\ row[b].key = k

(* new_account, key_change: get_by_thumbprint.  An account that has key k  *)
(* is answered by new_account, and makes key_change refuse.                *)
CheckKey(r, k) ==
  /\ req[r].pc = "authed"
  /\ req[r].account = Null => k = req[r].spki
  /\ req' = IF KeyTaken(Null, k) THEN Return(r)
            ELSE [req EXCEPT ![r].pc = "checked", ![r].new_key = k]
  /\ UNCHANGED <<now, row, cache, nonces, lastNonce, restarts, retired>>

(* Mutant: the column jwk_thumbprint is not UNIQUE. *)
MutInsertAccount(r, a) ==
  /\ req[r].pc = "checked" /\ req[r].account = Null
  /\ row[a].status = "none"
  /\ row' = [row EXCEPT ![a] = [status |-> "valid", key |-> req[r].new_key]]
  /\ req' = Return(r)
  /\ Retire
  /\ UNCHANGED <<now, cache, nonces, lastNonce, restarts>>

(* accounts::insert under a new id; the UNIQUE column refuses a key that   *)
(* was taken since the check.                                              *)
InsertAccount(r, a) ==
  /\ req[r].pc = "checked" /\ req[r].account = Null
  /\ row[a].status = "none"
  /\ IF KeyTaken(a, req[r].new_key) THEN UNCHANGED row
     ELSE row' = [row EXCEPT ![a] = [status |-> "valid", key |-> req[r].new_key]]
  /\ req' = Return(r)
  /\ Retire
  /\ UNCHANGED <<now, cache, nonces, lastNonce, restarts>>

(* accounts::update_key: nothing happens to an account that is not valid,  *)
(* and key_change does not look at the number of rows.                     *)
UpdateKey(r) ==
  LET a == req[r].account IN
  /\ req[r].pc = "checked" /\ req[r].account # Null
  /\ IF KeyTaken(a, req[r].new_key) THEN req' = Return(r) /\ UNCHANGED row
     ELSE /\ row' = IF row[a].status = "valid"
                    THEN [row EXCEPT ![a] = [status |-> "valid", key |-> req[r].new_key]] ELSE row
          /\ Goto(r, "evicting")
  /\ Retire
  /\ UNCHANGED <<now, cache, nonces, lastNonce, restarts>>

(* accounts::update_status. *)
Deactivate(r) ==
  LET a == req[r].account IN
  /\ req[r].pc = "authed" /\ req[r].account # Null
  /\ row' = [row EXCEPT ![a] = [status |-> "deactivated", key |-> row[a].key]]
  /\ Goto(r, "evicting")
  /\ Retire
  /\ UNCHANGED <<now, cache, nonces, lastNonce, restarts>>

(* A handler that changes no account. *)
Other(r) ==
  /\ req[r].pc = "authed" /\ req[r].account # Null
  /\ req' = Return(r)
  /\ UNCHANGED <<now, row, cache, nonces, lastNonce, restarts, retired>>

(* spki_cache.remove, once the write has returned. *)
Evict(r) ==
  /\ req[r].pc = "evicting"
  /\ cache' = [cache EXCEPT ![req[r].account] = NoEntry]
  /\ req' = Return(r)
  /\ UNCHANGED <<now, row, nonces, lastNonce, restarts, retired>>

(* post_account_deactivate: an operator does the same. *)
AdminDeactivate(r, a) ==
  /\ req[r].pc = "unsent" /\ row[a].status # "none"
  /\ row' = [row EXCEPT ![a] = [status |-> "deactivated", key |-> row[a].key]]
  /\ req' = [req EXCEPT ![r] = [Unsent EXCEPT !.pc = "evicting", !.account = a]]
  /\ Retire
  /\ UNCHANGED <<now, cache, nonces, lastNonce, restarts>>

(* The client hangs up while the handler waits for the database: what the  *)
(* statement did stays, what follows it does not happen.                   *)
Dropped(r) ==
  /\ req[r].pc \in {"filling", "checked", "evicting"}
  /\ req' = Return(r)
  /\ UNCHANGED <<now, row, cache, nonces, lastNonce, restarts, retired>>

-----------------------------------------------------------------------------
(* Environment.                                                            *)

(* NonceBucket::sweep_expired: the oldest nonces go, up to any age. *)
Sweep ==
  /\ nonces # {}
  /\ \E n \in nonces : nonces' = {m \in nonces : m > n}
  /\ UNCHANGED <<now, row, cache, lastNonce, req, restarts, retired>>

(* A handler resumes within one tick of the end of its database read. *)
Tick ==
  /\ now < MaxTime
  /\ \A r \in Reqs : req[r].pc = "filling" => req[r].read_at = now
  /\ now' = now + 1
  /\ UNCHANGED <<row, cache, nonces, lastNonce, req, restarts, retired>>

Restart ==
  /\ restarts < MaxRestarts
  /\ restarts' = restarts + 1
  /\ cache' = [a \in Accounts |-> NoEntry]
  /\ nonces' = {}
  /\ req' = [r \in Reqs |-> IF req[r].pc \in {"unsent", "bad_nonce"} THEN req[r] ELSE Return(r)[r]]
  /\ UNCHANGED <<now, row, lastNonce, retired>>

Next ==
  \/ NewNonce \/ Sweep \/ Tick \/ Restart
  \/ \E r \in Reqs :
       \/ \E n \in 1 .. lastNonce :
            \/ \E a \in Accounts : ArriveKid(r, n, a)
            \/ \E k \in Keys : ArriveJwk(r, n, k)
       \/ LookupHit(r) \/ LookupMiss(r) \/ Fill(r) \/ Other(r)
       \/ \E k \in Keys : CheckKey(r, k)
       \/ UpdateKey(r) \/ Deactivate(r) \/ Evict(r)
       \/ Dropped(r)
       \/ \E a \in Accounts : InsertAccount(r, a) \/ AdminDeactivate(r, a)

Spec == Init /\ [][Next]_vars

-----------------------------------------------------------------------------
(* Properties.                                                             *)

(* NonceBucket (state.rs): a nonce gets one request past parse_jws, across *)
(* concurrent replays, sweeps and restarts.                                *)
NonceOnce ==
  \A r, s \in Reqs :
    req[r].nonce # 0 /\ req[r].nonce = req[s].nonce => r = s

(* The TTL of the account cache (routes/mod.rs): a request is accepted     *)
(* under a key that is no longer the key of a valid account only for the   *)
(* TTL, and one tick for a cache fill that was under way, whether the key  *)
(* was changed or the account deactivated, evicted or not.                 *)
StaleBounded ==
  \A r \in Reqs : LET k == req'[r].spki IN
       req[r].pc \in {"keyed", "filling"} /\ req'[r].pc = "authed"
         => Current(k) \/ now <= retired[k] + TTL + 1

(* get_by_thumbprint and the UNIQUE column (account.rs, key_change.rs): no *)
(* two accounts share a key, though checks and writes interleave.          *)
OneAccountPerKey ==
  \A a, b \in Accounts : /\ row[a].status # "none" /\ row[b].status # "none"
                         /\ row[a].key = row[b].key
                         => a = b

(* update_status, update_key: a deactivated account stays so, and keeps    *)
(* its key, whatever requests authenticated before the deactivation do.    *)
DeactivationStands ==
  \A a \in Accounts : row[a].status = "deactivated" => row'[a] = row[a]

(* Retiring a key or an account takes effect, whatever requests, cache     *)
(* fills and key changes are under way.                                    *)
RetiredStayOut == [][StaleBounded /\ DeactivationStands]_vars
=============================================================================
